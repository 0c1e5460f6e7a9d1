------------------------ MODULE BrokerServicesProofs ------------------------
(***************************************************************************)
(* The services of a broker, for any keys, contents, binaries, minions and *)
(* number of overlapping requests: what agents report, the files they are  *)
(* handed, and the work the manager has dispatched to them.  Each service  *)
(* keeps its own inductive invariant under its own steps, and under those  *)
(* of the others, which leave its variables alone; the theorems at the end *)
(* combine them.                                                           *)
(***************************************************************************)
EXTENDS BrokerServices, FiniteSetTheorems, TLAPS
-----------------------------------------------------------------------------
(* What agents report.  The invariant of each part says what a report that *)
(* runs alone still has to do: once that is done, the tables are the       *)
(* agent's view again.                                                     *)

(* The asset tables. *)

Shape ==
    /\ kind \in Kinds
    /\ table \in View /\ told \in View
    /\ report \in [Request -> Progress]
    /\ ok \in BOOLEAN /\ dirty \in BOOLEAN

\* An idle request has no report.
IdleIsNone == \A r \in Request : Busy(r) \/ report[r] = NoReport

\* A report that runs alone is the only one, and on a clean table every report does.
AloneIsOnly ==
    \A r \in Request : Busy(r) =>
        /\ report[r].op # "none"
        /\ report[r].alone => \A s \in Request \ {r} : ~Busy(s)
        /\ ~dirty => report[r].alone /\ report[r].sound

\* A full report that runs alone carries what the agent told last, and has emptied the
\* table before its INSERT.
FullReplaces ==
    \A r \in Request : Busy(r) /\ report[r].op # "diff" =>
        /\ report[r].keys = Keys
        /\ report[r].op = "full" => report[r].sound
        /\ report[r].alone => report[r].rows = told
        /\ report[r].alone /\ report[r].sound /\ report[r].pc = "insert" => table = Empty

\* No error was met before the DELETE.
DeleteIsSound == \A r \in Request : report[r].pc = "delete" => report[r].sound

\* What is left of a diff turns a clean table into the agent's view.
DiffCompletes ==
    \A r \in Request : Busy(r) /\ report[r].op = "diff" /\ ~dirty =>
        told = Insert(IF report[r].pc = "delete" THEN Remove(table, report[r].keys) ELSE table,
                      report[r].rows)

CollectInv ==
    /\ Shape /\ IdleIsNone /\ AloneIsOnly /\ DeleteIsSound
    /\ FullReplaces /\ DiffCompletes /\ AssetsInSync
-----------------------------------------------------------------------------
(* The statements on views. *)

\* DELETE and INSERT give views.
LEMMA ViewOps ==
    ASSUME NEW v \in View, NEW w \in View, NEW S
    PROVE  Remove(v, S) \in View /\ Insert(v, w) \in View /\ Empty \in View
BY DEF View, Remove, Insert, Empty

\* Deleting every key and inserting the rows of a view stores that view.
LEMMA ReplaceAll ==
    ASSUME NEW v \in View, NEW w \in View
    PROVE  Remove(v, Keys) = Empty /\ Insert(Empty, w) = w
BY DEF View, Remove, Insert, Empty

\* The two statements of a diff turn the old view into the new one.
LEMMA DiffStatements ==
    ASSUME NEW old \in View, NEW new \in View
    PROVE  LET rows == [k \in Keys |-> IF k \in Changed(old, new) \/ k \notin Present(old)
                                       THEN new[k] ELSE Absent]
               keys == (Present(old) \ Present(new)) \cup Changed(old, new)
           IN  /\ rows \in View /\ keys \subseteq Keys
               /\ Insert(Remove(old, keys), rows) = new
BY DEF View, Remove, Insert, Changed, Present

\* A request without a report has the type of one.
LEMMA NoReportShape == NoReport \in Progress
BY DEF NoReport, Progress, View, Empty
-----------------------------------------------------------------------------
(* Steps. *)

\* The overtaken reports differ in `alone` only.
LEMMA OvertakenShape ==
    ASSUME Shape
    PROVE  /\ Overtaken \in [Request -> Progress]
           /\ \A x \in Request :
                 /\ Overtaken[x].pc = report[x].pc /\ Overtaken[x].op = report[x].op
                 /\ Overtaken[x].rows = report[x].rows /\ Overtaken[x].keys = report[x].keys
                 /\ Overtaken[x].sound = report[x].sound
                 /\ IF Busy(x) THEN ~Overtaken[x].alone ELSE Overtaken[x] = report[x]
BY DEF Shape, Overtaken, Busy, Progress

\* The three kinds of report.
LEMMA Arrival ==
    ASSUME CollectInv, NEW r \in Request, NEW op \in {"diff", "full", "job"},
           NEW rows \in View, NEW keys \in SUBSET Keys, NEW now \in View,
           Arrive(r, op, rows, keys), told' = now, ok' \in BOOLEAN,
           op # "diff" => rows = now /\ keys = Keys,
           op = "diff" /\ Quiet /\ ~dirty => now = Insert(Remove(table, keys), rows)
    PROVE  CollectInv'
<1> USE DEF CollectInv
<1>1. Shape'
  BY OvertakenShape DEF Shape, Arrive, Progress, Busy, Quiet
<1>2. /\ report'[r].pc = "delete" /\ report'[r].op = op /\ report'[r].rows = rows
      /\ report'[r].keys = keys /\ report'[r].alone = Quiet /\ report'[r].sound = TRUE
      /\ \A x \in Request \ {r} : report'[x] = Overtaken[x]
  BY OvertakenShape DEF Arrive, Shape
<1>3. /\ Busy(r)' /\ ~Busy(r)
      /\ \A x \in Request \ {r} : Busy(x)' <=> Busy(x)
  BY <1>2, OvertakenShape DEF Busy, Arrive
<1>4. dirty' = (dirty \/ ~Quiet) /\ table' = table
  BY DEF Arrive
<1>5. IdleIsNone'
  BY <1>2, <1>3, OvertakenShape DEF IdleIsNone, NoReport, Empty
<1>6. AloneIsOnly'
  <2> SUFFICES ASSUME NEW x \in Request, Busy(x)'
               PROVE  (/\ report[x].op # "none"
                       /\ report[x].alone => \A s \in Request \ {x} : ~Busy(s)
                       /\ ~dirty => report[x].alone /\ report[x].sound)'
    BY DEF AloneIsOnly
  <2>1. CASE x = r
    BY <2>1, <1>2, <1>3, <1>4 DEF Quiet
  <2>2. CASE x # r
    <3>1. Busy(x) /\ ~Quiet /\ ~report'[x].alone
      BY <2>2, <1>2, <1>3, OvertakenShape DEF Quiet
    <3>2. dirty'
      BY <3>1, <1>4
    <3>3. report'[x].op # "none"
      BY <2>2, <3>1, <1>2, OvertakenShape DEF AloneIsOnly
    <3> QED BY <3>1, <3>2, <3>3
  <2> QED BY <2>1, <2>2
<1>7. FullReplaces'
  <2> SUFFICES ASSUME NEW x \in Request, Busy(x)', report'[x].op # "diff"
               PROVE  (/\ report[x].keys = Keys
                       /\ report[x].op = "full" => report[x].sound
                       /\ report[x].alone => report[x].rows = told
                       /\ report[x].alone /\ report[x].sound /\ report[x].pc = "insert"
                             => table = Empty)'
    BY DEF FullReplaces, Empty
  <2>1. CASE x = r
    BY <2>1, <1>2
  <2>2. CASE x # r
    BY <2>2, <1>2, <1>3, OvertakenShape DEF FullReplaces
  <2> QED BY <2>1, <2>2
<1>8. DiffCompletes'
  <2> SUFFICES ASSUME NEW x \in Request, Busy(x)', report'[x].op = "diff", ~dirty'
               PROVE  now = Insert(IF report'[x].pc = "delete"
                                   THEN Remove(table, report'[x].keys) ELSE table,
                                   report'[x].rows)
    BY <1>4 DEF DiffCompletes, Insert, Remove
  <2>1. Quiet /\ ~dirty
    BY <1>4 DEF Shape
  <2>2. x = r
    BY <2>1, <1>3 DEF Quiet
  <2> QED BY <2>1, <2>2, <1>2
<1>9. AssetsInSync'
  BY <1>3 DEF AssetsInSync, Quiet
<1>10. DeleteIsSound'
  BY <1>2, OvertakenShape DEF DeleteIsSound
<1> QED BY <1>10, <1>1, <1>5, <1>6, <1>7, <1>8, <1>9

\* ProcessSync.
LEMMA SyncStep == CollectInv /\ ProcessSync => CollectInv'
<1> SUFFICES ASSUME CollectInv, ProcessSync PROVE CollectInv'
  OBVIOUS
<1> USE DEF CollectInv
<1>1. /\ report' = Overtaken /\ kind' = kind /\ table' = table
      /\ (told' = table /\ dirty' = ~Quiet) \/ (told' = Empty /\ dirty' = TRUE)
      /\ ok' = TRUE
  BY DEF ProcessSync
<1>2. Shape'
  BY <1>1, OvertakenShape, ViewOps DEF Shape
<1>3. \A x \in Request : Busy(x)' <=> Busy(x)
  BY <1>1, OvertakenShape DEF Busy
<1>4. \A x \in Request : Busy(x) => dirty' /\ ~report'[x].alone
  <2> SUFFICES ASSUME NEW x \in Request, Busy(x) PROVE dirty' /\ ~report'[x].alone
    OBVIOUS
  <2>1. ~Quiet
    BY DEF Quiet
  <2>2. dirty'
    BY <2>1, <1>1
  <2> QED BY <2>2, <1>1, OvertakenShape
<1>5. IdleIsNone'
  BY <1>1, <1>3, OvertakenShape DEF IdleIsNone, NoReport, Empty
<1>6. AloneIsOnly'
  BY <1>1, <1>3, <1>4, OvertakenShape DEF AloneIsOnly
<1>7. FullReplaces'
  BY <1>1, <1>3, <1>4, OvertakenShape DEF FullReplaces
<1>8. DiffCompletes'
  BY <1>3, <1>4 DEF DiffCompletes
<1>9. AssetsInSync'
  BY <1>1, <1>3 DEF AssetsInSync, Quiet
<1>10. DeleteIsSound'
  BY <1>1, OvertakenShape DEF DeleteIsSound
<1> QED BY <1>10, <1>2, <1>5, <1>6, <1>7, <1>8, <1>9

\* The end of a report: the others go on as they were.
LEMMA Ending ==
    ASSUME CollectInv, NEW r \in Request, Busy(r),
           report' = [report EXCEPT ![r] = NoReport],
           kind' = kind, told' = told, table' \in View,
           ok' \in BOOLEAN, dirty' \in BOOLEAN,
           ~report[r].alone /\ dirty => dirty',
           ~dirty' /\ report[r].alone => table' = told
    PROVE  CollectInv'
<1> USE DEF CollectInv
<1>1. Shape'
  BY NoReportShape DEF Shape
<1>2. /\ report'[r] = NoReport /\ ~Busy(r)'
      /\ \A x \in Request \ {r} : report'[x] = report[x] /\ (Busy(x)' <=> Busy(x))
  BY DEF Shape, Busy, NoReport
<1>3. ASSUME NEW x \in Request \ {r}, Busy(x)
      PROVE  dirty /\ dirty' /\ ~report[r].alone /\ ~report[x].alone
  <2>1. ~report[r].alone /\ ~report[x].alone
    BY <1>3 DEF AloneIsOnly
  <2>2. dirty
    BY <2>1, <1>3 DEF AloneIsOnly
  <2> QED BY <2>1, <2>2
<1>4. IdleIsNone'
  BY <1>2 DEF IdleIsNone, NoReport, Empty
<1>5. AloneIsOnly'
  BY <1>2, <1>3 DEF AloneIsOnly
<1>6. FullReplaces'
  BY <1>2, <1>3 DEF FullReplaces
<1>7. DiffCompletes'
  BY <1>2, <1>3 DEF DiffCompletes
<1>8. AssetsInSync'
  <2> SUFFICES ASSUME Quiet', ~dirty' PROVE table' = told'
    BY DEF AssetsInSync
  <2>1. report[r].alone
    BY DEF AloneIsOnly
  <2> QED BY <2>1
<1>9. DeleteIsSound'
  BY <1>2 DEF DeleteIsSound, NoReport
<1> QED BY <1>9, <1>1, <1>4, <1>5, <1>6, <1>7, <1>8

\* The first of the two statements is done, or its error was dropped.
LEMMA Deleting ==
    ASSUME CollectInv, NEW r \in Request, report[r].pc = "delete", NEW good \in BOOLEAN,
           report' \in [Request -> Progress],
           \A x \in Request \ {r} : report'[x] = report[x],
           report'[r].pc = "insert", report'[r].sound = good,
           report'[r].op = report[r].op, report'[r].rows = report[r].rows,
           report'[r].keys = report[r].keys, report'[r].alone = report[r].alone,
           good => report[r].sound = TRUE /\ table' = Remove(table, report[r].keys) /\ dirty' = dirty,
           ~good => report[r].op # "full" /\ table' = table /\ dirty' = TRUE,
           kind' = kind, told' = told, ok' = ok
    PROVE  CollectInv'
<1> USE DEF CollectInv
<1>1. Shape'
  <2>1. table' \in View
    BY ViewOps DEF Shape
  <2>2. dirty' \in BOOLEAN
    BY DEF Shape
  <2> QED BY <2>1, <2>2 DEF Shape
<1>2. /\ Busy(r) /\ Busy(r)'
      /\ \A x \in Request \ {r} : Busy(x)' <=> Busy(x)
  BY DEF Busy
<1>3. ASSUME NEW x \in Request \ {r}, Busy(x)
      PROVE  dirty /\ dirty' /\ ~report[r].alone /\ ~report[x].alone
  <2>1. ~report[r].alone /\ ~report[x].alone
    BY <1>2, <1>3 DEF AloneIsOnly
  <2>2. dirty
    BY <2>1, <1>3 DEF AloneIsOnly
  <2> QED BY <2>1, <2>2
<1>4. IdleIsNone'
  BY <1>2 DEF IdleIsNone, NoReport, Empty
<1>5. AloneIsOnly'
  <2>1. ASSUME NEW x \in Request \ {r}, Busy(x)
        PROVE  report'[x].op # "none" /\ ~report'[x].alone /\ dirty'
    BY <2>1, <1>3 DEF AloneIsOnly
  <2>2. report'[r].op # "none" /\ (~dirty' => report'[r].alone /\ report'[r].sound)
    <3>1. report[r].op # "none" /\ (~dirty => report[r].alone)
      BY <1>2 DEF AloneIsOnly
    <3>2. CASE good
      BY <3>1, <3>2
    <3>3. CASE ~good
      BY <3>1, <3>3
    <3> QED BY <3>2, <3>3
  <2>3. report'[r].alone => \A s \in Request \ {r} : ~Busy(s)'
    BY <1>2, <1>3
  <2> QED BY <2>1, <2>2, <2>3, <1>2 DEF AloneIsOnly
<1>6. FullReplaces'
  <2> SUFFICES ASSUME NEW x \in Request, Busy(x)', report'[x].op # "diff"
               PROVE  (/\ report[x].keys = Keys
                       /\ report[x].op = "full" => report[x].sound
                       /\ report[x].alone => report[x].rows = told
                       /\ report[x].alone /\ report[x].sound /\ report[x].pc = "insert"
                             => table = Empty)'
    BY DEF FullReplaces, Empty
  <2>1. CASE x # r
    BY <2>1, <1>2, <1>3 DEF FullReplaces
  <2>2. CASE x = r
    <3>1. /\ report[r].keys = Keys
          /\ report[r].alone => report[r].rows = told
      BY <2>2, <1>2 DEF FullReplaces
    <3>2. good => table' = Empty
      BY <3>1, ReplaceAll DEF Shape
    <3> QED BY <2>2, <3>1, <3>2, <1>2
  <2> QED BY <2>1, <2>2
<1>7. DiffCompletes'
  <2> SUFFICES ASSUME NEW x \in Request, Busy(x)', report'[x].op = "diff", ~dirty'
               PROVE  told = Insert(IF report'[x].pc = "delete"
                                    THEN Remove(table', report'[x].keys) ELSE table',
                                    report'[x].rows)
    BY DEF DiffCompletes, Insert, Remove
  <2>1. x = r /\ good
    BY <1>2, <1>3
  <2> QED BY <2>1, <1>2 DEF DiffCompletes
<1>8. AssetsInSync'
  BY <1>2 DEF AssetsInSync, Quiet
<1>9. DeleteIsSound'
  BY <1>2 DEF DeleteIsSound
<1> QED BY <1>9, <1>1, <1>4, <1>5, <1>6, <1>7, <1>8

\* The handlers.
LEMMA ArriveSteps ==
    ASSUME CollectInv, NEW r \in Request, NEW now \in View,
           Diff(r, now) \/ Full(r, now) \/ AccountFull(r, now)
    PROVE  CollectInv'
<1>0. table \in View /\ told \in View /\ ok \in BOOLEAN
  BY DEF CollectInv, Shape
<1>1. CASE Diff(r, now)
  <2> DEFINE rows == [k \in Keys |-> IF k \in Changed(told, now) \/ k \notin Present(told)
                                     THEN now[k] ELSE Absent]
             keys == (Present(told) \ Present(now)) \cup Changed(told, now)
  <2>1. /\ rows \in View /\ keys \in SUBSET Keys
        /\ Insert(Remove(told, keys), rows) = now
    BY <1>0, DiffStatements
  <2>2. Quiet /\ ~dirty => table = told
    BY DEF CollectInv, AssetsInSync
  <2>3. Arrive(r, "diff", rows, keys) /\ told' = now /\ ok' = ok
    BY <1>1 DEF Diff
  <2> HIDE DEF rows, keys
  <2> QED BY <2>1, <2>2, <2>3, <1>0, Arrival
<1>2. CASE Full(r, now)
  BY <1>0, <1>2, Arrival DEF Full
<1>3. CASE AccountFull(r, now)
  BY <1>0, <1>3, Arrival DEF AccountFull
<1> QED BY <1>1, <1>2, <1>3

\* The statements.
LEMMA DeleteStep ==
    ASSUME CollectInv, NEW r \in Request, Delete(r) PROVE CollectInv'
<1> USE DEF CollectInv
<1>1. /\ report[r] \in Progress /\ report[r].pc = "delete" /\ Busy(r)
      /\ table' = Remove(table, report[r].keys) /\ table' \in View
      /\ kind' = kind /\ told' = told
  BY ViewOps DEF Delete, Shape, Busy
<1>2. CASE report[r].op # "diff" /\ report[r].rows = Empty
  <2>1. /\ report' = [report EXCEPT ![r] = NoReport]
        /\ ok' = IF report[r].op = "job" THEN ok ELSE TRUE
        /\ dirty' = (dirty /\ ~report[r].alone)
    BY <1>2 DEF Delete, Finish
  <2>2. ok' \in BOOLEAN /\ dirty' \in BOOLEAN
    BY <2>1 DEF Shape
  <2>3. table' = Empty
    BY <1>1, <1>2, ReplaceAll DEF Shape, FullReplaces
  <2>4. report[r].alone => told = Empty
    BY <1>1, <1>2 DEF FullReplaces
  <2>5. ~report[r].alone /\ dirty => dirty'
    BY <2>1
  <2> QED BY <1>1, <2>1, <2>2, <2>3, <2>4, <2>5, Ending
<1>3. CASE ~(report[r].op # "diff" /\ report[r].rows = Empty)
  <2>1. report' = [report EXCEPT ![r].pc = "insert"] /\ ok' = ok /\ dirty' = dirty
    BY <1>3 DEF Delete
  <2>2. report' \in [Request -> Progress] /\ \A x \in Request \ {r} : report'[x] = report[x]
    BY <2>1 DEF Shape, Progress
  <2>3. /\ report'[r].pc = "insert" /\ report'[r].sound = report[r].sound
        /\ report'[r].op = report[r].op /\ report'[r].rows = report[r].rows
        /\ report'[r].keys = report[r].keys /\ report'[r].alone = report[r].alone
    BY <2>1, <1>1 DEF Shape, Progress
  <2>4. report[r].sound = TRUE
    BY <1>1 DEF DeleteIsSound, Progress
  <2> QED BY <1>1, <2>1, <2>2, <2>3, <2>4, Deleting
<1> QED BY <1>2, <1>3

\* A DELETE that fails: from now on the table is not vouched for.
LEMMA DeleteFailsStep ==
    ASSUME CollectInv, NEW r \in Request, DeleteFails(r) PROVE CollectInv'
<1> USE DEF CollectInv
<1>1. /\ report[r] \in Progress /\ report[r].pc = "delete" /\ Busy(r)
      /\ dirty' = TRUE /\ table' = table /\ table \in View
      /\ kind' = kind /\ told' = told
  BY DEF DeleteFails, Shape, Busy
<1>2. CASE report[r].op = "full" \/ (report[r].op = "job" /\ report[r].rows = Empty)
  <2>1. /\ report' = [report EXCEPT ![r] = NoReport]
        /\ ok' = IF report[r].op = "job" THEN ok ELSE FALSE
    BY <1>2 DEF DeleteFails, Finish
  <2> QED BY <1>1, <2>1, Ending DEF Shape
<1>3. CASE ~(report[r].op = "full" \/ (report[r].op = "job" /\ report[r].rows = Empty))
  <2> DEFINE unsound == [report[r] EXCEPT !.pc = "insert", !.sound = FALSE]
  <2>1. report' = [report EXCEPT ![r] = unsound] /\ ok' = ok
    BY <1>3 DEF DeleteFails
  <2>2. /\ unsound \in Progress /\ unsound.pc = "insert" /\ unsound.sound = FALSE
        /\ unsound.op = report[r].op /\ unsound.rows = report[r].rows
        /\ unsound.keys = report[r].keys /\ unsound.alone = report[r].alone
    BY <1>1 DEF Progress
  <2> HIDE DEF unsound
  <2>3. /\ report' \in [Request -> Progress] /\ report'[r] = unsound
        /\ \A x \in Request \ {r} : report'[x] = report[x]
    BY <2>1, <2>2 DEF Shape
  <2> QED BY <1>1, <1>3, <2>1, <2>2, <2>3, Deleting
<1> QED BY <1>2, <1>3

\* The INSERT of a report, after which what is left of it is nothing.
LEMMA InsertRowsStep ==
    ASSUME CollectInv, NEW r \in Request, InsertRows(r) PROVE CollectInv'
<1> USE DEF CollectInv
<1>1. /\ report[r] \in Progress /\ report[r].pc = "insert" /\ Busy(r)
      /\ table' = Insert(table, report[r].rows) /\ table' \in View
      /\ kind' = kind /\ told' = told
      /\ report' = [report EXCEPT ![r] = NoReport]
      /\ ok' = IF report[r].op = "job" THEN ok ELSE TRUE
      /\ dirty' = (dirty /\ (report[r].op = "diff" \/ ~report[r].alone \/ ~report[r].sound))
  <2>1. report[r] \in Progress /\ report[r].rows \in View
    BY DEF Shape, Progress
  <2> QED BY <2>1, ViewOps DEF InsertRows, Shape, Busy, Finish
<1>2. ok' \in BOOLEAN /\ dirty' \in BOOLEAN
  BY <1>1 DEF Shape
<1>3. ~report[r].alone /\ dirty => dirty'
  BY <1>1
<1>4. ASSUME ~dirty', report[r].alone PROVE table' = told
  <2>1. CASE report[r].op = "diff"
    <3>1. ~dirty
      BY <1>1, <1>4, <2>1
    <3> QED BY <1>1, <2>1, <3>1 DEF DiffCompletes
  <2>2. CASE report[r].op # "diff"
    <3>1. report[r].sound
      <4>1. CASE dirty
        BY <4>1, <1>1, <1>4, <2>2
      <4>2. CASE ~dirty
        BY <4>2, <1>1 DEF AloneIsOnly
      <4> QED BY <4>1, <4>2
    <3>2. table = Empty /\ report[r].rows = told
      BY <3>1, <2>2, <1>1, <1>4 DEF FullReplaces
    <3> QED BY <3>2, <1>1, ReplaceAll DEF Shape
  <2> QED BY <2>1, <2>2
<1> QED BY <1>1, <1>2, <1>3, <1>4, Ending

\* An INSERT that fails ends its report.
LEMMA InsertFailsStep ==
    ASSUME CollectInv, NEW r \in Request, InsertFails(r) PROVE CollectInv'
<1>1. /\ Busy(r) /\ dirty' = TRUE /\ table' = table /\ table \in View
      /\ kind' = kind /\ told' = told
      /\ report' = [report EXCEPT ![r] = NoReport]
      /\ ok' = IF report[r].op = "job" THEN ok
               ELSE (report[r].op = "full" /\ kind = "process")
  BY DEF CollectInv, InsertFails, Shape, Busy, Finish
<1>2. ok' \in BOOLEAN
  BY <1>1 DEF CollectInv, Shape
<1> QED BY <1>1, <1>2, Ending

\* CollectInv is inductive, also under steps of other services.
LEMMA CollectStepInv ==
    CollectInv /\ (CollectNext \/ UNCHANGED collectVars) => CollectInv'
<1> SUFFICES ASSUME CollectInv, CollectNext \/ UNCHANGED collectVars PROVE CollectInv'
  OBVIOUS
<1>1. CASE UNCHANGED collectVars
  BY <1>1 DEF collectVars, CollectInv, Shape, IdleIsNone, AloneIsOnly, FullReplaces,
              DiffCompletes, DeleteIsSound, AssetsInSync, Busy, Quiet
<1>2. CASE CollectNext
  BY <1>2, ArriveSteps, SyncStep, DeleteStep, DeleteFailsStep, InsertRowsStep, InsertFailsStep
     DEF CollectNext, CollectStep
<1> QED BY <1>1, <1>2

\* SuccessMeansStored, step by step.
LEMMA StoredStep ==
    ASSUME CollectInv, CollectNext, NEW r \in Request,
           kind \in {"listen", "group"}, report[r].op = "full", report[r].alone,
           report'[r] = NoReport, ok'
    PROVE  table' = report[r].rows
<1> USE DEF CollectInv
<1>1. Busy(r)
  BY DEF IdleIsNone, NoReport
<1>2. report \in [Request -> Progress] /\ report[r] \in Progress /\ table \in View
  BY DEF Shape
<1>4. ASSUME NEW x \in Request, NEW now \in View,
             Diff(x, now) \/ Full(x, now) \/ AccountFull(x, now)
      PROVE  FALSE
  <2>1. x # r /\ report'[r] = Overtaken[r]
    BY <1>1, <1>4, OvertakenShape DEF Diff, Full, AccountFull, Arrive
  <2> QED BY <2>1, <1>1, OvertakenShape DEF Busy, NoReport
<1>5. CASE ProcessSync
  BY <1>1, <1>5, OvertakenShape DEF ProcessSync, Busy, NoReport
<1>6. ASSUME NEW x \in Request, Delete(x) \/ DeleteFails(x) \/ InsertRows(x) \/ InsertFails(x)
      PROVE  x = r
  <2>1. Busy(x)
    BY <1>6 DEF Delete, DeleteFails, InsertRows, InsertFails, Busy
  <2> QED BY <2>1, <1>1 DEF AloneIsOnly
<1>7. report[r].keys = Keys /\ report[r].sound /\ (report[r].pc = "insert" => table = Empty)
  BY <1>1 DEF FullReplaces
<1>8. CASE Delete(r)
  <2>1. report[r].rows = Empty
    <3>1. CASE report' = [report EXCEPT ![r].pc = "insert"]
      <4>1. report'[r].pc = "insert"
        BY <3>1, <1>2 DEF Progress
      <4> QED BY <4>1 DEF NoReport
    <3> QED BY <3>1, <1>8 DEF Delete
  <2> QED BY <2>1, <1>2, <1>7, <1>8, ReplaceAll DEF Delete
<1>9. CASE DeleteFails(r)
  BY <1>9 DEF DeleteFails, Finish
<1>10. CASE InsertRows(r)
  <2>1. report[r].rows \in View
    BY <1>2 DEF Progress
  <2> QED BY <2>1, <1>7, <1>10, ReplaceAll DEF InsertRows
<1>11. CASE InsertFails(r)
  BY <1>11 DEF InsertFails, Finish
<1> QED BY <1>4, <1>5, <1>6, <1>8, <1>9, <1>10, <1>11 DEF CollectNext, CollectStep

\* No report is under way at first.
LEMMA CollectInitInv == CollectInit => CollectInv
<1> SUFFICES ASSUME CollectInit PROVE CollectInv
  OBVIOUS
<1>1. \A r \in Request : ~Busy(r) /\ report[r] = NoReport
  BY DEF CollectInit, Busy, NoReport
<1> QED
  BY <1>1, NoReportShape DEF CollectInit, CollectInv, Shape, IdleIsNone, AloneIsOnly,
     FullReplaces, DeleteIsSound, DiffCompletes, AssetsInSync, NoReport
-----------------------------------------------------------------------------
(* System information. *)

Job == [pc : {"idle", "save", "release"}, info : Infos \cup {NoInfo}, alone : BOOLEAN]

SysinfoShape == job \in [Request -> Job] /\ mixed \in BOOLEAN

\* A job that runs alone is the only one, carries the last report, and has stored it in
\* the first table before it comes to the second.
JobAlone ==
    \A j \in Request : job[j].pc # "idle" =>
        /\ ~mixed => job[j].alone
        /\ job[j].alone =>
              /\ \A k \in Request \ {j} : job[k].pc = "idle"
              /\ job[j].info = latest
              /\ job[j].pc = "release" => sysinfo = latest

SysinfoInv == SysinfoShape /\ JobAlone /\ SysinfoInSync

\* An agent sends its system information and a job is queued.
LEMMA SendStep ==
    ASSUME SysinfoInv, NEW j \in Request, NEW info \in Infos, SendSysinfo(j, info)
    PROVE  SysinfoInv'
<1> DEFINE new == [pc |-> "save", info |-> info, alone |-> NoJobRuns]
<1>1. /\ job[j].pc = "idle" /\ latest' = info /\ sysinfo' = sysinfo /\ osRelease' = osRelease
      /\ mixed' = (mixed \/ ~NoJobRuns)
      /\ job' = [x \in Request |-> IF x = j THEN new
                                  ELSE IF job[x].pc # "idle" THEN [job[x] EXCEPT !.alone = FALSE]
                                  ELSE job[x]]
  BY DEF SendSysinfo
<1>2. new \in Job /\ new.pc = "save" /\ new.info = info /\ new.alone = NoJobRuns
  BY DEF Job, NoJobRuns
<1> HIDE DEF new
<1>3. \A x \in Request : LET left == [job[x] EXCEPT !.alone = FALSE]
                        IN  job[x] \in Job /\ left \in Job /\ left.pc = job[x].pc /\ ~left.alone
  BY DEF SysinfoInv, SysinfoShape, Job
<1>4. /\ job' \in [Request -> Job] /\ job'[j] = new
      /\ \A x \in Request \ {j} :
            job'[x].pc = job[x].pc /\ (job[x].pc # "idle" => ~job'[x].alone)
  BY <1>1, <1>2, <1>3
<1>5. mixed' \in BOOLEAN
  BY <1>1 DEF SysinfoInv, SysinfoShape, NoJobRuns
<1>6. ASSUME NEW x \in Request \ {j}, job[x].pc # "idle" PROVE mixed' /\ ~NoJobRuns
  BY <1>1, <1>6 DEF NoJobRuns
<1>7. JobAlone'
  <2>1. ~mixed' => job'[j].alone
    BY <1>1, <1>2, <1>4
  <2>2. job'[j].alone => \A k \in Request \ {j} : job'[k].pc = "idle"
    BY <1>2, <1>4 DEF NoJobRuns
  <2> QED BY <2>1, <2>2, <1>1, <1>2, <1>4, <1>6 DEF JobAlone
<1>8. SysinfoInSync'
  BY <1>2, <1>4 DEF SysinfoInSync, NoJobRuns
<1> QED BY <1>4, <1>5, <1>7, <1>8 DEF SysinfoInv, SysinfoShape

\* The job writes the first table, or fails to.
LEMMA SaveStep ==
    ASSUME SysinfoInv, NEW j \in Request, Save(j) PROVE SysinfoInv'
<1>1. job[j].pc = "save" /\ job[j] \in Job /\ latest' = latest /\ osRelease' = osRelease
  BY DEF Save, SysinfoInv, SysinfoShape
<1>2. ASSUME NEW next \in Job, job' = [job EXCEPT ![j] = next], next.pc = "release",
             next.info = job[j].info, mixed' \in BOOLEAN,
             next.alone => job[j].alone /\ sysinfo' = job[j].info,
             ~mixed' => ~mixed /\ next.alone = job[j].alone
      PROVE  SysinfoInv'
  <2>1. /\ job' \in [Request -> Job] /\ job'[j] = next
        /\ \A x \in Request \ {j} : job'[x] = job[x]
    BY <1>2 DEF SysinfoInv, SysinfoShape
  <2>2. ASSUME NEW x \in Request \ {j}, job[x].pc # "idle"
        PROVE  ~job[x].alone /\ ~job[j].alone /\ mixed'
    <3>1. ~job[x].alone /\ ~job[j].alone
      BY <2>2, <1>1 DEF SysinfoInv, JobAlone
    <3>2. mixed
      BY <3>1, <1>1 DEF SysinfoInv, JobAlone
    <3> QED BY <3>1, <3>2, <1>2
  <2>3. JobAlone'
    BY <2>1, <2>2, <1>1, <1>2 DEF SysinfoInv, JobAlone
  <2>4. SysinfoInSync'
    BY <2>1, <1>2 DEF SysinfoInSync, NoJobRuns
  <2> QED BY <2>1, <2>3, <2>4, <1>2 DEF SysinfoInv, SysinfoShape
<1>3. CASE sysinfo' = job[j].info /\ job' = [job EXCEPT ![j].pc = "release"] /\ mixed' = mixed
  <2> DEFINE next == [job[j] EXCEPT !.pc = "release"]
  <2>1. next \in Job /\ next.pc = "release" /\ next.info = job[j].info /\ next.alone = job[j].alone
    BY <1>1 DEF Job
  <2>2. job' = [job EXCEPT ![j] = next] /\ mixed' \in BOOLEAN
    BY <1>3 DEF SysinfoInv, SysinfoShape
  <2> HIDE DEF next
  <2> QED BY <1>2, <1>3, <2>1, <2>2
<1>4. CASE /\ job' = [job EXCEPT ![j] = [@ EXCEPT !.pc = "release", !.alone = FALSE]]
           /\ mixed' = TRUE
  <2> DEFINE next == [job[j] EXCEPT !.pc = "release", !.alone = FALSE]
  <2>1. next \in Job /\ next.pc = "release" /\ next.info = job[j].info /\ ~next.alone
    BY <1>1 DEF Job
  <2>2. job' = [job EXCEPT ![j] = next]
    BY <1>4
  <2>3. mixed' \in BOOLEAN /\ mixed'
    BY <1>4
  <2> HIDE DEF next
  <2> QED BY <1>2, <2>1, <2>2, <2>3
<1> QED BY <1>3, <1>4 DEF Save

\* The job writes the second table, or fails to, and ends.
LEMMA ReleaseStep ==
    ASSUME SysinfoInv, NEW j \in Request, Release(j) PROVE SysinfoInv'
<1>1. /\ job[j].pc = "release" /\ latest' = latest /\ sysinfo' = sysinfo
      /\ job' = [job EXCEPT ![j] = NoJob]
      /\ \/ osRelease' = job[j].info /\ mixed' = (mixed /\ ~job[j].alone)
         \/ mixed' = TRUE
  BY DEF Release
<1>2. NoJob \in Job /\ NoJob.pc = "idle"
  BY DEF NoJob, Job
<1>3. /\ job' \in [Request -> Job] /\ job'[j].pc = "idle"
      /\ \A x \in Request \ {j} : job'[x] = job[x]
  BY <1>1, <1>2 DEF SysinfoInv, SysinfoShape
<1>4. mixed' \in BOOLEAN
  BY <1>1 DEF SysinfoInv, SysinfoShape
<1>5. ASSUME ~mixed' PROVE job[j].alone /\ osRelease' = job[j].info
  BY <1>1, <1>5 DEF SysinfoInv, JobAlone
<1>6. ASSUME NEW x \in Request \ {j}, job[x].pc # "idle" PROVE mixed' /\ ~job[x].alone
  BY <1>1, <1>5, <1>6 DEF SysinfoInv, JobAlone
<1>7. JobAlone'
  BY <1>1, <1>3, <1>6 DEF JobAlone
<1>8. SysinfoInSync'
  BY <1>1, <1>5 DEF SysinfoInv, JobAlone, SysinfoInSync
<1> QED BY <1>3, <1>4, <1>7, <1>8 DEF SysinfoInv, SysinfoShape

\* SysinfoInv is inductive, also under steps of other services.
LEMMA SysinfoStepInv ==
    SysinfoInv /\ (SysinfoNext \/ UNCHANGED sysinfoVars) => SysinfoInv'
<1> SUFFICES ASSUME SysinfoInv, SysinfoNext \/ UNCHANGED sysinfoVars PROVE SysinfoInv'
  OBVIOUS
<1>1. CASE UNCHANGED sysinfoVars
  BY <1>1 DEF sysinfoVars, SysinfoInv, SysinfoShape, JobAlone, SysinfoInSync, NoJobRuns
<1> QED BY <1>1, SendStep, SaveStep, ReleaseStep DEF SysinfoNext, SysinfoStep

\* No job runs at first.
LEMMA SysinfoInitInv == SysinfoInit => SysinfoInv
<1> SUFFICES ASSUME SysinfoInit PROVE SysinfoInv
  OBVIOUS
<1>1. NoJob \in Job /\ NoJob.pc = "idle"
  BY DEF NoJob, Job
<1>2. job \in [Request -> Job] /\ \A j \in Request : job[j].pc = "idle"
  BY <1>1 DEF SysinfoInit
<1>3. mixed \in BOOLEAN
  BY DEF SysinfoInit
<1> QED BY <1>2, <1>3 DEF SysinfoInit, SysinfoInv, SysinfoShape, JobAlone, SysinfoInSync
-----------------------------------------------------------------------------
(* Tags. *)

Edit == [pc : {"idle", "minion", "olds", "tx"}, add : SUBSET Tags, del : SUBSET Tags,
         olds : SUBSET Tags]

TagShape == tags \subseteq Tags /\ edit \in [Request -> Edit] /\ raced \in BOOLEAN

\* Without overlaps, an edit is the only one and what it has read is what is stored.
EditAlone ==
    ~raced =>
        /\ tags = owed
        /\ \A r \in Request : edit[r].pc # "idle" => \A s \in Request \ {r} : edit[s].pc = "idle"
        /\ \A r \in Request : edit[r].pc = "tx" => edit[r].olds = tags

TagInv == TagShape /\ EditAlone

\* A step of an edit that has arrived.
LEMMA EditFrame ==
    ASSUME TagInv, NEW r \in Request, edit[r].pc # "idle", NEW next \in Edit,
           edit' = [edit EXCEPT ![r] = next], raced' = raced, tags' \subseteq Tags,
           ~raced => tags' = owed',
           next.pc = "tx" => next.olds = tags'
    PROVE  TagInv'
<1>1. /\ edit' \in [Request -> Edit] /\ edit'[r] = next
      /\ \A s \in Request \ {r} : edit'[s] = edit[s]
  BY DEF TagInv, TagShape
<1>2. EditAlone'
  <2> SUFFICES ASSUME ~raced PROVE
        /\ tags' = owed'
        /\ \A x \in Request : edit'[x].pc # "idle" => \A s \in Request \ {x} : edit'[s].pc = "idle"
        /\ \A x \in Request : edit'[x].pc = "tx" => edit'[x].olds = tags'
    BY DEF EditAlone
  <2>1. \A s \in Request \ {r} : edit[s].pc = "idle"
    BY DEF TagInv, EditAlone
  <2> QED BY <1>1, <2>1
<1> QED BY <1>1, <1>2 DEF TagInv, TagShape

\* TagInv is inductive, also under steps of other services.
LEMMA TagStepInv == TagInv /\ (TagNext \/ UNCHANGED tagVars) => TagInv'
<1> SUFFICES ASSUME TagInv, TagNext \/ UNCHANGED tagVars PROVE TagInv'
  OBVIOUS
<1>0. NoEdit \in Edit /\ NoEdit.pc = "idle"
  BY DEF NoEdit, Edit
<1>1. CASE UNCHANGED tagVars
  BY <1>1 DEF tagVars, TagInv, TagShape, EditAlone
<1>2. CASE MinionDeleted
  BY <1>2 DEF MinionDeleted, TagInv, TagShape, EditAlone
<1>3. ASSUME NEW r \in Request, NEW add \in SUBSET Tags, NEW del \in SUBSET Tags,
             EditArrives(r, add, del)
      PROVE  TagInv'
  <2> DEFINE next == [NoEdit EXCEPT !.pc = "minion", !.add = add, !.del = del]
  <2>1. next \in Edit /\ next.pc = "minion"
    BY DEF NoEdit, Edit
  <2>2. /\ edit' = [edit EXCEPT ![r] = next] /\ tags' = tags /\ owed' = owed
        /\ raced' = (raced \/ \E x \in Request : edit[x].pc # "idle")
    BY <1>3 DEF EditArrives
  <2> HIDE DEF next
  <2>3. /\ edit' \in [Request -> Edit] /\ edit'[r] = next
        /\ \A s \in Request \ {r} : edit'[s] = edit[s]
    BY <2>1, <2>2 DEF TagInv, TagShape
  <2>4. raced' \in BOOLEAN
    BY <2>2 DEF TagInv, TagShape
  <2>5. ~raced' => ~raced /\ \A x \in Request : edit[x].pc = "idle"
    BY <2>2
  <2>6. EditAlone'
    BY <2>1, <2>2, <2>3, <2>5 DEF TagInv, EditAlone
  <2> QED BY <2>2, <2>3, <2>4, <2>6 DEF TagInv, TagShape
<1>4. ASSUME NEW r \in Request, CheckMinion(r) \/ FindOlds(r) \/ Rewrite(r)
      PROVE  TagInv'
  <2>1. /\ edit[r] \in Edit /\ tags \subseteq Tags /\ edit[r].pc # "idle" /\ raced' = raced
        /\ ~raced => tags = owed
    BY <1>4 DEF TagInv, TagShape, EditAlone, CheckMinion, FindOlds, Rewrite
  <2>2. CASE EditEnds(r) /\ tags' = tags /\ owed' = owed
    BY <1>0, <2>1, <2>2, EditFrame DEF EditEnds
  <2>3. CASE edit' = [edit EXCEPT ![r].pc = "olds"] /\ tags' = tags /\ owed' = owed
    <3> DEFINE next == [edit[r] EXCEPT !.pc = "olds"]
    <3>1. next \in Edit /\ next.pc = "olds" /\ edit' = [edit EXCEPT ![r] = next]
      BY <2>1, <2>3 DEF Edit
    <3> HIDE DEF next
    <3> QED BY <2>1, <2>3, <3>1, EditFrame
  <2>4. CASE /\ edit' = [edit EXCEPT ![r] = [@ EXCEPT !.pc = "tx", !.olds = tags]]
             /\ tags' = tags /\ owed' = owed
    <3> DEFINE next == [edit[r] EXCEPT !.pc = "tx", !.olds = tags]
    <3>1. /\ next \in Edit /\ next.pc = "tx" /\ next.olds = tags
          /\ edit' = [edit EXCEPT ![r] = next]
      BY <2>1, <2>4 DEF Edit
    <3> HIDE DEF next
    <3> QED BY <2>1, <2>4, <3>1, EditFrame
  <2>5. CASE /\ edit[r].pc = "tx" /\ EditEnds(r)
             /\ tags' = Edited(edit[r].olds, edit[r].del, edit[r].add)
             /\ owed' = Edited(owed, edit[r].del, edit[r].add)
    <3>1. tags' \subseteq Tags
      BY <2>1, <2>5 DEF Edit, Edited
    <3>2. ~raced => tags' = owed'
      BY <2>5 DEF TagInv, EditAlone
    <3> QED BY <1>0, <2>1, <2>5, <3>1, <3>2, EditFrame DEF EditEnds
  <2> QED BY <1>4, <2>2, <2>3, <2>4, <2>5 DEF CheckMinion, FindOlds, Rewrite
<1> QED BY <1>1, <1>2, <1>3, <1>4 DEF TagNext, TagStep

\* No edit is under way at first.
LEMMA TagInitInv == TagInit => TagInv
<1> SUFFICES ASSUME TagInit PROVE TagInv
  OBVIOUS
<1>1. NoEdit \in Edit /\ NoEdit.pc = "idle"
  BY DEF NoEdit, Edit
<1>2. edit \in [Request -> Edit] /\ \A r \in Request : edit[r].pc = "idle"
  BY <1>1 DEF TagInit
<1>3. raced \in BOOLEAN
  BY DEF TagInit
<1> QED BY <1>2, <1>3 DEF TagInit, TagInv, TagShape, EditAlone
-----------------------------------------------------------------------------
(* The software bill. *)

Bill == [pc : {"idle", "first", "delproject", "delcomponents", "project", "components"},
         sum : Checksums \cup {"none"}, project : Nat]

SbomShape ==
    /\ projects \in [DOMAIN projects -> Checksums \cup {"none"}]
    /\ DOMAIN projects \subseteq Nat /\ inserted \in Nat
    /\ sbom \in [Request -> Bill]
    /\ crossed \in BOOLEAN /\ lost \in BOOLEAN

\* One project and exactly its components.
Stored(id) ==
    /\ DOMAIN projects = {id}
    /\ components = {[project |-> id, purl |-> p] : p \in Components(projects[id])}

Nothing == DOMAIN projects = {} /\ components = {}

Consistent == Nothing \/ \E id \in DOMAIN projects : Stored(id)

\* What a report that runs alone finds at each of its statements.
Stage(q) ==
    /\ q.pc \in {"idle", "first"} => Consistent
    /\ q.pc = "delproject" => Stored(q.project)
    /\ q.pc = "delcomponents" =>
          DOMAIN projects = {} /\ \A c \in components : c.project = q.project
    /\ q.pc = "project" => Nothing
    /\ q.pc = "components" =>
          DOMAIN projects = {q.project} /\ projects[q.project] = q.sum /\ components = {}

Answered == \E id \in DOMAIN projects : Stored(id) /\ projects[id] = final.sum

BillAlone ==
    ~crossed /\ ~lost =>
        /\ \A r \in Request : sbom[r].pc # "idle" =>
              Stage(sbom[r]) /\ \A s \in Request \ {r} : sbom[s].pc = "idle"
        /\ SbomQuiet => Consistent /\ (final.ok => Answered)

SbomInv == SbomShape /\ BillAlone

\* A request without a bill has the type of one.
LEMMA NoBill == NoSbom \in Bill /\ NoSbom.pc = "idle"
BY DEF NoSbom, Bill

\* What the stored rows say depends on nothing but the rows.
LEMMA SameRows ==
    ASSUME UNCHANGED <<projects, components>>
    PROVE  (Consistent' <=> Consistent) /\ \A id : Stored(id)' <=> Stored(id)
<1>1. \A id : Stored(id)' <=> Stored(id)
  <2> TAKE id
  <2> QED BY DEF Stored, Components
<1> QED BY <1>1 DEF Consistent, Nothing

\* A step of a report that has arrived.
LEMMA BillFrame ==
    ASSUME SbomInv, NEW r \in Request, sbom[r].pc # "idle", NEW next \in Bill,
           sbom' = [sbom EXCEPT ![r] = next], crossed' = crossed,
           lost' \in BOOLEAN, lost => lost',
           projects' \in [DOMAIN projects' -> Checksums \cup {"none"}],
           DOMAIN projects' \subseteq Nat, inserted' \in Nat,
           ~crossed /\ ~lost' => Stage(sbom[r])',
           ~crossed /\ ~lost' /\ next.pc = "idle" /\ final'.ok => Answered'
    PROVE  SbomInv'
<1>1. /\ sbom' \in [Request -> Bill] /\ sbom'[r] = next
      /\ \A s \in Request \ {r} : sbom'[s] = sbom[s]
  BY DEF SbomInv, SbomShape
<1>2. BillAlone'
  <2> SUFFICES ASSUME ~crossed, ~lost'
               PROVE  /\ \A x \in Request : sbom'[x].pc # "idle" =>
                            Stage(sbom[x])' /\ \A s \in Request \ {x} : sbom'[s].pc = "idle"
                      /\ SbomQuiet' => Consistent' /\ (final'.ok => Answered')
    BY DEF BillAlone
  <2>1. \A s \in Request \ {r} : sbom[s].pc = "idle"
    BY DEF SbomInv, BillAlone
  <2>2. SbomQuiet' => next.pc = "idle"
    BY <1>1 DEF SbomQuiet
  <2>3. next.pc = "idle" => Consistent'
    BY <1>1 DEF Stage
  <2> QED BY <1>1, <2>1, <2>2, <2>3
<1> QED BY <1>1, <1>2 DEF SbomInv, SbomShape

\* A bill arrives: nothing is written yet.
LEMMA BillArrives ==
    ASSUME SbomInv, NEW r \in Request, NEW sum \in Checksums, SbomArrives(r, sum)
    PROVE  SbomInv'
<1> DEFINE next == [NoSbom EXCEPT !.pc = "first", !.sum = sum]
<1>1. next \in Bill /\ next.pc = "first"
  BY DEF NoSbom, Bill
<1>2. /\ sbom' = [sbom EXCEPT ![r] = next] /\ projects' = projects /\ inserted' = inserted
      /\ components' = components /\ lost' = lost /\ crossed' = (crossed \/ ~SbomQuiet)
  BY DEF SbomArrives
<1> HIDE DEF next
<1>3. /\ sbom' \in [Request -> Bill] /\ sbom'[r] = next
      /\ \A s \in Request \ {r} : sbom'[s] = sbom[s]
  BY <1>1, <1>2 DEF SbomInv, SbomShape
<1>4. crossed' \in BOOLEAN
  BY <1>2 DEF SbomInv, SbomShape
<1>5. SbomShape'
  BY <1>2, <1>3, <1>4 DEF SbomInv, SbomShape
<1>6. BillAlone'
  <2> SUFFICES ASSUME ~crossed', ~lost'
               PROVE  /\ \A x \in Request : sbom'[x].pc # "idle" =>
                            Stage(sbom[x])' /\ \A s \in Request \ {x} : sbom'[s].pc = "idle"
                      /\ SbomQuiet' => Consistent' /\ (final'.ok => Answered')
    BY DEF BillAlone
  <2>1. ~crossed /\ ~lost /\ \A s \in Request : sbom[s].pc = "idle"
    BY <1>2 DEF SbomQuiet
  <2>2. Consistent'
    BY <1>2, <2>1, SameRows DEF SbomInv, BillAlone, SbomQuiet
  <2>3. Stage(sbom[r])'
    BY <1>1, <1>3, <2>2 DEF Stage
  <2>4. ~SbomQuiet'
    BY <1>1, <1>3 DEF SbomQuiet
  <2> QED BY <1>3, <2>1, <2>3, <2>4
<1> QED BY <1>5, <1>6 DEF SbomInv

\* Each of the five statements that store a bill.
LEMMA BillStep ==
    ASSUME SbomInv, NEW r \in Request,
           FindProject(r) \/ DelProject(r) \/ DelComponents(r) \/ InsertProject(r)
              \/ InsertComponents(r)
    PROVE  SbomInv'
<1>1. /\ sbom[r] \in Bill /\ SbomShape /\ sbom[r].pc # "idle"
      /\ sbom \in [Request -> Bill]
      /\ ~crossed /\ ~lost => Stage(sbom[r])
  BY DEF SbomInv, SbomShape, BillAlone, FindProject, DelProject, DelComponents, InsertProject,
         InsertComponents
<1>2. CASE FindProject(r)
  <2>1. /\ sbom[r].pc = "first" /\ projects' = projects /\ inserted' = inserted
        /\ components' = components /\ crossed' = crossed /\ lost' = lost
    BY <1>2 DEF FindProject
  <2>2. ~crossed /\ ~lost => Consistent
    BY <1>1, <2>1 DEF Stage
  <2>3. ~crossed /\ ~lost => Consistent'
    BY <2>1, <2>2, SameRows
  <2>4. CASE DOMAIN projects = {} /\ Goto(r, "project")
    <3> DEFINE next == [sbom[r] EXCEPT !.pc = "project"]
    <3>1. next \in Bill /\ next.pc = "project" /\ sbom' = [sbom EXCEPT ![r] = next]
      BY <1>1, <2>4 DEF Bill, Goto
    <3>2. ~crossed /\ ~lost => Nothing'
      BY <2>1, <2>2, <2>4 DEF Consistent, Nothing
    <3> HIDE DEF next
    <3>3. sbom'[r] = next
      BY <3>1, <1>1
    <3>4. ~crossed /\ ~lost => Stage(sbom[r])'
      BY <3>1, <3>2, <3>3 DEF Stage
    <3> QED BY <1>1, <2>1, <3>1, <3>4, BillFrame DEF SbomShape
  <2>5. CASE Reply(r, FALSE)
    <3>1. sbom' = [sbom EXCEPT ![r] = NoSbom] /\ final'.ok = FALSE /\ sbom'[r] = NoSbom
      BY <2>5, <1>1 DEF Reply
    <3>2. ~crossed /\ ~lost => Stage(sbom[r])'
      BY <2>3, <3>1, NoBill DEF Stage
    <3> QED BY <1>1, <2>1, <3>1, <3>2, NoBill, BillFrame DEF SbomShape
  <2>6. CASE \E id \in DOMAIN projects : projects[id] = sbom[r].sum /\ Reply(r, TRUE)
    <3>1. PICK id \in DOMAIN projects : projects[id] = sbom[r].sum /\ Reply(r, TRUE)
      BY <2>6
    <3>2. /\ sbom' = [sbom EXCEPT ![r] = NoSbom] /\ final'.sum = sbom[r].sum
          /\ sbom'[r] = NoSbom
      BY <3>1, <1>1 DEF Reply
    <3>3. ~crossed /\ ~lost => Stage(sbom[r])'
      BY <2>3, <3>2, NoBill DEF Stage
    <3>4. ~crossed /\ ~lost => Stored(id)
      BY <2>2, <3>1 DEF Consistent, Nothing, Stored
    <3>5. ~crossed /\ ~lost => Answered'
      BY <2>1, <3>1, <3>2, <3>4 DEF Answered, Stored, Components
    <3> QED BY <1>1, <2>1, <3>2, <3>3, <3>5, NoBill, BillFrame DEF SbomShape
  <2>7. CASE \E id \in DOMAIN projects :
               sbom' = [sbom EXCEPT ![r] = [@ EXCEPT !.pc = "delproject", !.project = id]]
    <3>1. PICK id \in DOMAIN projects :
               sbom' = [sbom EXCEPT ![r] = [@ EXCEPT !.pc = "delproject", !.project = id]]
      BY <2>7
    <3> DEFINE next == [sbom[r] EXCEPT !.pc = "delproject", !.project = id]
    <3>2. /\ next \in Bill /\ next.pc = "delproject" /\ next.project = id
          /\ sbom' = [sbom EXCEPT ![r] = next]
      BY <1>1, <3>1 DEF Bill, SbomShape
    <3> HIDE DEF next
    <3>3. sbom'[r] = next
      BY <3>2, <1>1
    <3>4. ~crossed /\ ~lost => Stored(id)
      BY <2>2, <3>1 DEF Consistent, Nothing, Stored
    <3>5. ~crossed /\ ~lost => Stored(sbom[r].project)'
      BY <2>1, <3>2, <3>3, <3>4 DEF Stored, Components
    <3>6. ~crossed /\ ~lost => Stage(sbom[r])'
      BY <3>2, <3>3, <3>5 DEF Stage
    <3> QED BY <1>1, <2>1, <3>2, <3>6, BillFrame DEF SbomShape
  <2> QED BY <1>2, <2>4, <2>5, <2>6, <2>7 DEF FindProject
<1>3. CASE DelProject(r)
  <2> DEFINE next == [sbom[r] EXCEPT !.pc = "delcomponents"]
  <2>1. /\ sbom[r].pc = "delproject" /\ sbom' = [sbom EXCEPT ![r] = next]
        /\ components' = components /\ inserted' = inserted /\ crossed' = crossed
        /\ \/ projects' = Without(sbom[r].project) /\ lost' = lost
           \/ projects' = projects /\ lost' = TRUE
    BY <1>3 DEF DelProject, Goto
  <2>2. next \in Bill /\ next.pc = "delcomponents" /\ next.project = sbom[r].project
    BY <1>1 DEF Bill
  <2> HIDE DEF next
  <2>3. /\ projects' \in [DOMAIN projects' -> Checksums \cup {"none"}]
        /\ DOMAIN projects' \subseteq Nat
    BY <1>1, <2>1 DEF SbomShape, Without
  <2>4. ASSUME ~crossed, ~lost' PROVE Stage(sbom[r])'
    <3>1. Stored(sbom[r].project) /\ projects' = Without(sbom[r].project)
      BY <2>1, <2>4, <1>1 DEF Stage
    <3>2. DOMAIN projects' = {}
      BY <3>1 DEF Stored, Without
    <3>3. \A c \in components' : c.project = next.project
      BY <2>1, <2>2, <3>1 DEF Stored
    <3>4. sbom'[r] = next
      BY <2>1, <1>1
    <3> QED BY <2>2, <3>2, <3>3, <3>4 DEF Stage
  <2>5. lost' \in BOOLEAN /\ (lost => lost')
    BY <1>1, <2>1 DEF SbomShape
  <2> QED BY <1>1, <2>1, <2>2, <2>3, <2>4, <2>5, BillFrame DEF SbomShape
<1>4. CASE DelComponents(r)
  <2> DEFINE next == [sbom[r] EXCEPT !.pc = "project"]
  <2>1. /\ sbom[r].pc = "delcomponents" /\ sbom' = [sbom EXCEPT ![r] = next]
        /\ projects' = projects /\ inserted' = inserted /\ crossed' = crossed
        /\ \/ components' = {c \in components : c.project # sbom[r].project} /\ lost' = lost
           \/ components' = components /\ lost' = TRUE
    BY <1>4 DEF DelComponents, Goto
  <2>2. next \in Bill /\ next.pc = "project"
    BY <1>1 DEF Bill
  <2> HIDE DEF next
  <2>4. ASSUME ~crossed, ~lost' PROVE Stage(sbom[r])'
    <3>1. Nothing'
      BY <2>1, <2>4, <1>1 DEF Stage, Nothing
    <3>2. sbom'[r] = next
      BY <2>1, <1>1
    <3> QED BY <2>2, <3>1, <3>2 DEF Stage
  <2>5. lost' \in BOOLEAN /\ (lost => lost')
    BY <1>1, <2>1 DEF SbomShape
  <2> QED BY <1>1, <2>1, <2>2, <2>4, <2>5, BillFrame DEF SbomShape
<1>5. CASE InsertProject(r)
  <2>0. sbom[r].pc = "project" /\ components' = components /\ crossed' = crossed /\ lost' = lost
    BY <1>5 DEF InsertProject
  <2>1. CASE Reply(r, FALSE) /\ UNCHANGED <<projects, inserted>>
    <3>1. sbom' = [sbom EXCEPT ![r] = NoSbom] /\ final'.ok = FALSE /\ sbom'[r] = NoSbom
      BY <2>1, <1>1 DEF Reply
    <3>2. ~crossed /\ ~lost => Consistent'
      BY <1>1, <2>0, <2>1 DEF Stage, Consistent, Nothing
    <3>3. ~crossed /\ ~lost => Stage(sbom[r])'
      BY <3>2, <3>1, NoBill DEF Stage
    <3> QED BY <1>1, <2>0, <2>1, <3>1, <3>3, NoBill, BillFrame DEF SbomShape
  <2>2. CASE /\ inserted' = inserted + 1
             /\ projects' = [id \in DOMAIN projects \cup {inserted'} |->
                                IF id = inserted' THEN sbom[r].sum ELSE projects[id]]
             /\ sbom' = [sbom EXCEPT ![r] = [@ EXCEPT !.pc = "components",
                                                      !.project = inserted']]
    <3> DEFINE next == [sbom[r] EXCEPT !.pc = "components", !.project = inserted']
    <3>1. inserted' \in Nat /\ sbom[r].sum \in Checksums \cup {"none"}
      BY <1>1, <2>2 DEF SbomShape, Bill
    <3>2. /\ next \in Bill /\ next.pc = "components" /\ next.project = inserted'
          /\ next.sum = sbom[r].sum /\ sbom' = [sbom EXCEPT ![r] = next]
      BY <1>1, <2>2, <3>1 DEF Bill
    <3> HIDE DEF next
    <3>3. /\ projects' \in [DOMAIN projects' -> Checksums \cup {"none"}]
          /\ DOMAIN projects' \subseteq Nat
      BY <1>1, <2>2, <3>1 DEF SbomShape
    <3>4. ASSUME ~crossed, ~lost PROVE Stage(sbom[r])'
      <4>1. DOMAIN projects = {} /\ components' = {}
        BY <1>1, <2>0, <3>4 DEF Stage, Nothing
      <4>2. DOMAIN projects' = {inserted'} /\ projects'[inserted'] = sbom[r].sum
        BY <4>1, <2>2
      <4>3. sbom'[r] = next
        BY <3>2, <1>1
      <4> QED BY <3>2, <4>1, <4>2, <4>3 DEF Stage
    <3> QED BY <1>1, <2>0, <3>1, <3>2, <3>3, <3>4, BillFrame DEF SbomShape
  <2> QED BY <1>5, <2>1, <2>2 DEF InsertProject
<1>6. CASE InsertComponents(r)
  <2>1. /\ sbom[r].pc = "components" /\ projects' = projects /\ inserted' = inserted
        /\ crossed' = crossed
        /\ sbom' = [sbom EXCEPT ![r] = NoSbom] /\ final'.sum = sbom[r].sum
        /\ \/ components' = components \cup
                {[project |-> sbom[r].project, purl |-> p] : p \in Components(sbom[r].sum)}
              /\ lost' = lost
           \/ lost' = TRUE
    BY <1>6 DEF InsertComponents, Reply
  <2>2. sbom'[r] = NoSbom
    BY <1>1, <2>1
  <2>3. ASSUME ~crossed, ~lost' PROVE Stage(sbom[r])' /\ Answered'
    <3> DEFINE id == sbom[r].project
    <3>1. DOMAIN projects' = {id} /\ projects'[id] = final'.sum
      BY <1>1, <2>1, <2>3 DEF Stage
    <3>2. components' = {[project |-> id, purl |-> p] : p \in Components(projects'[id])}
      BY <1>1, <2>1, <2>3 DEF Stage
    <3>3. \E i \in DOMAIN projects' :
             /\ DOMAIN projects' = {i} /\ projects'[i] = final'.sum
             /\ components' = {[project |-> i, purl |-> p] : p \in Components(projects'[i])}
      BY <3>1, <3>2
    <3>4. Answered' /\ Consistent'
      BY <3>3 DEF Answered, Consistent, Stored, Components
    <3> QED BY <2>2, <3>4, NoBill DEF Stage
  <2>4. lost' \in BOOLEAN /\ (lost => lost')
    BY <1>1, <2>1 DEF SbomShape
  <2> QED BY <1>1, <2>1, <2>3, <2>4, NoBill, BillFrame DEF SbomShape
<1> QED BY <1>2, <1>3, <1>4, <1>5, <1>6

\* SbomInv is inductive, also under steps of other services.
LEMMA SbomStepInv == SbomInv /\ (SbomNext \/ UNCHANGED sbomVars) => SbomInv'
<1> SUFFICES ASSUME SbomInv, SbomNext \/ UNCHANGED sbomVars PROVE SbomInv'
  OBVIOUS
<1>1. CASE UNCHANGED sbomVars
  <2>1. SbomShape'
    BY <1>1 DEF sbomVars, SbomInv, SbomShape
  <2>2. \A r \in Request : Stage(sbom[r])' <=> Stage(sbom[r])
    BY <1>1, SameRows DEF sbomVars, Stage, Nothing
  <2>3. Answered' <=> Answered
    BY <1>1, SameRows DEF sbomVars, Answered
  <2> QED BY <1>1, <2>1, <2>2, <2>3, SameRows DEF sbomVars, SbomInv, BillAlone, SbomQuiet
<1> QED BY <1>1, BillArrives, BillStep DEF SbomNext, SbomStep

\* No bill is stored at first.
LEMMA SbomInitInv == SbomInit => SbomInv
<1> SUFFICES ASSUME SbomInit PROVE SbomInv
  OBVIOUS
<1>1. sbom \in [Request -> Bill] /\ \A r \in Request : sbom[r].pc = "idle"
  BY NoBill DEF SbomInit
<1>2. crossed \in BOOLEAN /\ lost \in BOOLEAN /\ final.ok = FALSE
  BY DEF SbomInit
<1>3. Nothing /\ projects \in [DOMAIN projects -> Checksums \cup {"none"}]
      /\ DOMAIN projects \subseteq Nat /\ inserted \in Nat
  BY DEF SbomInit, Nothing
<1> QED BY <1>1, <1>2, <1>3 DEF SbomInv, SbomShape, BillAlone, Consistent

\* One project and its components, as the property has it.
LEMMA SbomSafe == SbomInv => SbomConsistent
<1> SUFFICES ASSUME SbomInv, SbomQuiet, ~crossed, ~lost, final.ok
             PROVE  \E id \in DOMAIN projects :
                      /\ projects = [p \in {id} |-> final.sum]
                      /\ components =
                            {[project |-> id, purl |-> p] : p \in Components(final.sum)}
  BY DEF SbomConsistent
<1>1. PICK id \in DOMAIN projects : Stored(id) /\ projects[id] = final.sum
  BY DEF SbomInv, BillAlone, Answered
<1>2. projects = [p \in {id} |-> final.sum]
  BY <1>1 DEF SbomInv, SbomShape, Stored
<1> QED BY <1>1, <1>2 DEF Stored
-----------------------------------------------------------------------------
(* The services that hand out or replace files. *)

(* The cache of kernel modules. *)

Fetch == [pc : {"idle", "mark", "do", "create", "copy", "eof", "body"},
          owner : BOOLEAN, body : {"none", "whole", "page"}]

ElkeidShape ==
    /\ cached \in {"none", "whole", "page", "part"} /\ temp \in {"none", "whole", "page", "part"}
    /\ downs \in BOOLEAN /\ leaked \in BOOLEAN /\ misled \in BOOLEAN
    /\ fetch \in [Request -> Fetch]

\* The request that set the mark is the only owner, and the only one to write.
OneOwner ==
    \A r \in Request :
        /\ fetch[r].pc \in {"create", "copy", "eof"} => fetch[r].owner
        /\ fetch[r].pc \in {"idle", "mark", "body"} => ~fetch[r].owner
        /\ fetch[r].owner => downs
        /\ fetch[r].owner => \A s \in Request \ {r} : ~fetch[s].owner

\* At the end of the body the temporary file is what the origin sent.
TempIsBody ==
    \A r \in Request :
        /\ fetch[r].pc \in {"create", "copy", "eof"} => fetch[r].body # "none"
        /\ fetch[r].body = "page" => misled
        /\ fetch[r].pc = "eof" => temp = fetch[r].body

ElkeidInv == ElkeidShape /\ OneOwner /\ TempIsBody /\ CachedWhole /\ MarkHeld

\* A request that fetches nothing has the type of one that does.
LEMMA NoFetchShape == NoFetch \in Fetch
BY DEF NoFetch, Fetch

\* A step of one request, in terms of what becomes of its record.
LEMMA ElkeidFrame ==
    ASSUME ElkeidInv, NEW r \in Request, NEW next \in Fetch,
           fetch' = [fetch EXCEPT ![r] = next]
    PROVE  /\ fetch' \in [Request -> Fetch] /\ fetch'[r] = next
           /\ \A s \in Request \ {r} : fetch'[s] = fetch[s]
BY DEF ElkeidInv, ElkeidShape

\* Open finds the file cached, or takes the mark or finds it taken.
LEMMA MarkStep ==
    ASSUME ElkeidInv, NEW r \in Request, OpenCached(r) \/ Mark(r) PROVE ElkeidInv'
<1> USE DEF ElkeidInv
<1>0. fetch[r] \in Fetch
  BY DEF ElkeidShape
<1>1. CASE OpenCached(r)
  <2> DEFINE next == [fetch[r] EXCEPT !.pc = "mark"]
  <2>1. next \in Fetch /\ next.pc = "mark" /\ next.owner = fetch[r].owner /\ next.body = fetch[r].body
    BY <1>0 DEF Fetch
  <2>2. fetch' = [fetch EXCEPT ![r] = next]
    BY <1>1 DEF OpenCached
  <2> HIDE DEF next
  <2>3. /\ fetch' \in [Request -> Fetch] /\ fetch'[r] = next
        /\ \A s \in Request \ {r} : fetch'[s] = fetch[s]
    BY <2>1, <2>2, ElkeidFrame
  <2>4. fetch[r].pc = "idle" /\ UNCHANGED <<cached, temp, downs, leaked, misled>>
    BY <1>1 DEF OpenCached
  <2> QED BY <2>1, <2>3, <2>4 DEF ElkeidShape, OneOwner, TempIsBody, CachedWhole, MarkHeld
<1>2. CASE Mark(r)
  <2> DEFINE next == [fetch[r] EXCEPT !.pc = "do", !.owner = ~downs]
  <2>1. next \in Fetch /\ next.pc = "do" /\ next.owner = ~downs /\ next.body = fetch[r].body
    BY <1>0 DEF Fetch, ElkeidShape
  <2>2. fetch' = [fetch EXCEPT ![r] = next]
    BY <1>2 DEF Mark
  <2> HIDE DEF next
  <2>3. /\ fetch' \in [Request -> Fetch] /\ fetch'[r] = next
        /\ \A s \in Request \ {r} : fetch'[s] = fetch[s]
    BY <2>1, <2>2, ElkeidFrame
  <2>4. /\ fetch[r].pc = "mark" /\ downs' = TRUE
        /\ UNCHANGED <<cached, temp, leaked, misled>>
    BY <1>2 DEF Mark
  <2>5. ElkeidShape' /\ TempIsBody' /\ CachedWhole'
    BY <2>1, <2>3, <2>4 DEF ElkeidShape, TempIsBody, CachedWhole
  <2>6. CASE downs
    BY <2>1, <2>3, <2>4, <2>5, <2>6 DEF ElkeidShape, OneOwner, MarkHeld
  <2>7. CASE ~downs
    <3>1. \A s \in Request : ~fetch[s].owner
      BY <2>7 DEF OneOwner
    <3>2. fetch'[r].owner /\ \A s \in Request \ {r} : ~fetch'[s].owner
      BY <3>1, <2>1, <2>3, <2>7
    <3> QED BY <3>2, <2>1, <2>3, <2>4, <2>5 DEF OneOwner, MarkHeld
  <2> QED BY <2>6, <2>7
<1> QED BY <1>1, <1>2

\* The request to the origin.
LEMMA DoStep ==
    ASSUME ElkeidInv, NEW r \in Request, Do(r) PROVE ElkeidInv'
<1> USE DEF ElkeidInv
<1>0. fetch[r] \in Fetch /\ fetch[r].pc = "do" /\ UNCHANGED <<cached, temp, downs>>
  BY DEF ElkeidShape, Do
<1>1. ASSUME NEW body \in {"whole", "page"},
             fetch' = [fetch EXCEPT ![r] = [pc |-> IF @.owner THEN "create" ELSE "body",
                                            owner |-> @.owner, body |-> body]],
             misled' = (misled \/ body = "page"), leaked' = leaked
      PROVE  ElkeidInv'
  <2> DEFINE next == [pc |-> IF fetch[r].owner THEN "create" ELSE "body",
                      owner |-> fetch[r].owner, body |-> body]
  <2>1. /\ next \in Fetch /\ next.pc = IF fetch[r].owner THEN "create" ELSE "body"
        /\ next.owner = fetch[r].owner /\ next.body = body
    BY <1>0 DEF Fetch
  <2>2. fetch' = [fetch EXCEPT ![r] = next]
    BY <1>1
  <2> HIDE DEF next
  <2>3. /\ fetch' \in [Request -> Fetch] /\ fetch'[r] = next
        /\ \A s \in Request \ {r} : fetch'[s] = fetch[s]
    BY <2>1, <2>2, ElkeidFrame
  <2>4. misled' \in BOOLEAN /\ (misled => misled') /\ (body = "page" => misled')
    BY <1>1
  <2>5. ElkeidShape' /\ CachedWhole'
    BY <1>0, <1>1, <2>3, <2>4 DEF ElkeidShape, CachedWhole
  <2>6. OneOwner' /\ MarkHeld'
    BY <1>0, <1>1, <2>1, <2>3 DEF OneOwner, MarkHeld
  <2>7. TempIsBody'
    BY <1>0, <1>1, <2>1, <2>3, <2>4 DEF TempIsBody
  <2> QED BY <2>5, <2>6, <2>7
<1>2. ASSUME FetchEnds(r), leaked' = (leaked \/ fetch[r].owner), misled' = misled
      PROVE  ElkeidInv'
  <2>1. /\ fetch' \in [Request -> Fetch] /\ fetch'[r] = NoFetch
        /\ \A s \in Request \ {r} : fetch'[s] = fetch[s]
    BY <1>2, NoFetchShape, ElkeidFrame DEF FetchEnds
  <2>2. leaked' \in BOOLEAN /\ (leaked => leaked') /\ (fetch[r].owner => leaked')
    BY <1>2 DEF ElkeidShape
  <2>3. ElkeidShape' /\ CachedWhole' /\ TempIsBody' /\ OneOwner'
    BY <1>0, <1>2, <2>1, <2>2 DEF ElkeidShape, CachedWhole, TempIsBody, OneOwner, NoFetch
  <2>4. MarkHeld'
    BY <1>0, <2>1, <2>2 DEF MarkHeld
  <2> QED BY <2>3, <2>4
<1> QED BY <1>1, <1>2 DEF Do

\* copyFile creates the temporary file, or cannot and gives the mark back.
LEMMA CreateStep ==
    ASSUME ElkeidInv, NEW r \in Request, Create(r) PROVE ElkeidInv'
<1> USE DEF ElkeidInv
<1>0. fetch[r] \in Fetch /\ fetch[r].pc = "create" /\ UNCHANGED <<cached, leaked, misled>>
  BY DEF ElkeidShape, Create
<1>1. ASSUME temp' = "part", fetch' = [fetch EXCEPT ![r].pc = "copy"], downs' = downs
      PROVE  ElkeidInv'
  <2> DEFINE next == [fetch[r] EXCEPT !.pc = "copy"]
  <2>1. next \in Fetch /\ next.pc = "copy" /\ next.owner = fetch[r].owner /\ next.body = fetch[r].body
    BY <1>0 DEF Fetch
  <2>2. fetch' = [fetch EXCEPT ![r] = next]
    BY <1>1
  <2> HIDE DEF next
  <2>3. /\ fetch' \in [Request -> Fetch] /\ fetch'[r] = next
        /\ \A s \in Request \ {r} : fetch'[s] = fetch[s]
    BY <2>1, <2>2, ElkeidFrame
  <2>4. \A s \in Request \ {r} : fetch[s].pc # "eof"
    BY <1>0 DEF OneOwner
  <2> QED BY <1>0, <1>1, <2>1, <2>3, <2>4
          DEF ElkeidShape, CachedWhole, TempIsBody, OneOwner, MarkHeld
<1>2. ASSUME FetchEnds(r), downs' = FALSE, temp' = temp
      PROVE  ElkeidInv'
  <2>1. /\ fetch' \in [Request -> Fetch] /\ fetch'[r] = NoFetch
        /\ \A s \in Request \ {r} : fetch'[s] = fetch[s]
    BY <1>2, NoFetchShape, ElkeidFrame DEF FetchEnds
  <2>2. \A s \in Request : ~fetch'[s].owner
    BY <1>0, <2>1 DEF OneOwner, NoFetch
  <2>3. ElkeidShape' /\ CachedWhole' /\ TempIsBody'
    <3>1. downs' \in BOOLEAN
      BY <1>2
    <3>2. ElkeidShape' /\ CachedWhole'
      BY <3>1, <1>0, <1>2, <2>1 DEF ElkeidShape, CachedWhole
    <3>3. TempIsBody'
      BY <1>0, <1>2, <2>1 DEF TempIsBody, NoFetch
    <3> QED BY <3>2, <3>3
  <2>5. MarkHeld'
    BY <1>2 DEF MarkHeld
  <2>4. OneOwner'
    <3>1. \A s \in Request : fetch'[s].pc \notin {"create", "copy", "eof"}
      BY <1>0, <2>1 DEF OneOwner, NoFetch
    <3> QED BY <2>2, <3>1 DEF OneOwner
  <2> QED BY <2>3, <2>4, <2>5
<1> QED BY <1>1, <1>2 DEF Create

\* The copy reaches the end of the body.
LEMMA ReadStep ==
    ASSUME ElkeidInv, NEW r \in Request, ReadEOF(r) PROVE ElkeidInv'
<1> USE DEF ElkeidInv
<1>0. /\ fetch[r] \in Fetch /\ fetch[r].pc = "copy" /\ temp' = fetch[r].body
      /\ UNCHANGED <<cached, downs, leaked, misled>>
  BY DEF ElkeidShape, ReadEOF
<1> DEFINE next == [fetch[r] EXCEPT !.pc = "eof"]
<1>1. next \in Fetch /\ next.pc = "eof" /\ next.owner = fetch[r].owner /\ next.body = fetch[r].body
  BY <1>0 DEF Fetch
<1>2. fetch' = [fetch EXCEPT ![r] = next]
  BY DEF ReadEOF
<1> HIDE DEF next
<1>3. /\ fetch' \in [Request -> Fetch] /\ fetch'[r] = next
      /\ \A s \in Request \ {r} : fetch'[s] = fetch[s]
  BY <1>1, <1>2, ElkeidFrame
<1>4. \A s \in Request \ {r} : fetch[s].pc # "eof"
  BY <1>0 DEF OneOwner
<1>5. temp' \in {"none", "whole", "page", "part"}
  BY <1>0 DEF Fetch
<1> QED BY <1>0, <1>1, <1>3, <1>4, <1>5
        DEF ElkeidShape, CachedWhole, TempIsBody, OneOwner, MarkHeld

\* Close renames a file read to its end, and gives the mark back.
LEMMA CloseStep ==
    ASSUME ElkeidInv, NEW r \in Request, Close(r) \/ BodyClose(r) PROVE ElkeidInv'
<1> USE DEF ElkeidInv
<1>1. /\ fetch' \in [Request -> Fetch] /\ fetch'[r] = NoFetch
      /\ \A s \in Request \ {r} : fetch'[s] = fetch[s]
  BY NoFetchShape, ElkeidFrame DEF Close, BodyClose, FetchEnds
<1>2. CASE Close(r)
  <2>1. fetch[r].pc \in {"copy", "eof"} /\ downs' = FALSE /\ UNCHANGED <<leaked, misled>>
    BY <1>2 DEF Close
  <2>2. /\ \A s \in Request : ~fetch'[s].owner
        /\ \A s \in Request : fetch'[s].pc # "eof"
    BY <1>1, <2>1 DEF OneOwner, NoFetch
  <2>3. \/ fetch[r].pc = "eof" /\ cached' = temp /\ temp' = "none"
        \/ cached' = cached /\ temp' = temp
    BY <1>2 DEF Close
  <2>4. CachedWhole' /\ cached' \in {"none", "whole", "page", "part"}
    <3>1. CASE fetch[r].pc = "eof" /\ cached' = temp
      <4>1. fetch[r].body \in {"whole", "page"} /\ temp = fetch[r].body
        BY <3>1 DEF ElkeidShape, Fetch, TempIsBody
      <4>2. fetch[r].body = "page" => misled
        BY DEF TempIsBody
      <4> QED BY <3>1, <4>1, <4>2, <2>1 DEF CachedWhole
    <3> QED BY <3>1, <2>3, <2>1 DEF CachedWhole, ElkeidShape
  <2>5. OneOwner'
    <3>1. \A s \in Request : fetch'[s].pc \notin {"create", "copy", "eof"}
      BY <1>1, <2>1 DEF OneOwner, NoFetch
    <3> QED BY <2>2, <3>1 DEF OneOwner
  <2>6. ElkeidShape' /\ TempIsBody'
    <3>1. downs' \in BOOLEAN
      BY <2>1
    <3>2. ElkeidShape'
      BY <3>1, <1>1, <2>1, <2>3, <2>4 DEF ElkeidShape
    <3>3. TempIsBody'
      BY <1>1, <2>1, <2>2 DEF TempIsBody, NoFetch
    <3> QED BY <3>2, <3>3
  <2>7. MarkHeld'
    BY <2>1 DEF MarkHeld
  <2> QED BY <2>4, <2>5, <2>6, <2>7
<1>3. CASE BodyClose(r)
  BY <1>1, <1>3 DEF BodyClose, ElkeidShape, CachedWhole, TempIsBody, OneOwner, MarkHeld, NoFetch
<1> QED BY <1>2, <1>3

\* ElkeidInv is inductive, also under steps of other services.
LEMMA ElkeidStepInv ==
    ElkeidInv /\ (ElkeidNext \/ UNCHANGED elkeidVars) => ElkeidInv'
<1> SUFFICES ASSUME ElkeidInv, ElkeidNext \/ UNCHANGED elkeidVars PROVE ElkeidInv'
  OBVIOUS
<1>1. CASE UNCHANGED elkeidVars
  BY <1>1 DEF elkeidVars, ElkeidInv, ElkeidShape, CachedWhole, TempIsBody, OneOwner, MarkHeld
<1>2. CASE ElkeidRestart
  BY <1>2, NoFetchShape DEF ElkeidRestart, ElkeidInv, ElkeidShape, CachedWhole, TempIsBody,
     OneOwner, MarkHeld, NoFetch
<1>3. CASE \E r \in Request : \/ OpenCached(r) \/ Mark(r) \/ Do(r) \/ Create(r)
                             \/ ReadEOF(r) \/ Close(r) \/ BodyClose(r)
  BY <1>3, MarkStep, DoStep, CreateStep, ReadStep, CloseStep
<1> QED BY <1>1, <1>2, <1>3 DEF ElkeidNext

\* Nothing is cached at first.
LEMMA ElkeidInitInv == ElkeidInit => ElkeidInv
<1> SUFFICES ASSUME ElkeidInit PROVE ElkeidInv
  OBVIOUS
<1>1. MarkHeld
  BY DEF ElkeidInit, MarkHeld
<1>2. ElkeidShape /\ CachedWhole /\ TempIsBody /\ OneOwner
  BY NoFetchShape DEF ElkeidInit, ElkeidShape, CachedWhole, TempIsBody, OneOwner, NoFetch
<1> QED BY <1>1, <1>2 DEF ElkeidInv

\* The invariant implies the property.
LEMMA ElkeidSafe == ElkeidInv => CacheSafe
BY DEF ElkeidInv, CacheSafe, OneWriter, OneOwner
-----------------------------------------------------------------------------
(* The broker's own executable. *)

Updating == [pc : {"idle", "copy", "remove", "symlink", "exit"}, exe : Exe \cup {NoLink},
             mine : BOOLEAN]

UpdateShape ==
    /\ disk \in [Exe -> {"none", "part", "whole"}] /\ link \in Exe \cup {NoLink}
    /\ running \in Versions \cup {0}
    /\ update \in [Request -> Updating]
    /\ together \in BOOLEAN /\ cut \in BOOLEAN

\* One update at a time, in a process that runs, with a file of its own.
OneUpdate ==
    \A r \in Request : update[r].pc # "idle" =>
        /\ running # 0 /\ update[r].exe \in Exe /\ update[r].mine
        /\ \A s \in Request \ {r} : update[s].pc = "idle"
        /\ update[r].pc # "copy" => disk[update[r].exe] = "whole"
        /\ update[r].pc = "symlink" => link = NoLink
        /\ update[r].pc = "exit" => link = update[r].exe

\* Until it is removed the link names the version that runs.
LinkWhole ==
    (\A r \in Request : update[r].pc \notin {"symlink", "exit"}) =>
        /\ link \in Exe /\ disk[link] = "whole"
        /\ running = 0 \/ link[1] = running

UpdateInv == UpdateShape /\ (~together /\ ~cut => OneUpdate /\ LinkWhole)

\* No link is not an executable, and no process is not a version.
LEMMA NoLinkNotExe == NoLink \notin Exe /\ (\A e \in Exe : e[1] \in Versions) /\ 0 \notin Versions
BY UpdateAssumption DEF NoLink, Exe

\* A request that updates nothing has the type of one that does.
LEMMA NoUpdateShape == NoUpdate \in Updating
BY DEF NoUpdate, Updating

\* saveFile opens a name for the new version.
LEMMA SaveFileStep ==
    ASSUME UpdateInv, NEW r \in Request, NEW v \in Versions, SaveFile(r, v) PROVE UpdateInv'
<1> DEFINE exe == <<v, IF disk[<<v, "name">>] = "none" THEN "name" ELSE "name-id">>
           new == [pc |-> "copy", exe |-> exe, mine |-> TRUE]
<1>1. /\ running # 0 /\ v # running /\ update[r].pc = "idle"
      /\ disk' = [disk EXCEPT ![exe] = "part"]
      /\ update' = [x \in Request |->
            IF x = r THEN new
            ELSE IF update[x].exe = exe THEN [update[x] EXCEPT !.mine = FALSE] ELSE update[x]]
      /\ together' = (together \/ \E x \in Request : update[x].pc # "idle")
      /\ UNCHANGED <<link, running, cut>>
  BY DEF SaveFile
<1>2. exe \in Exe /\ exe[1] = v
  BY DEF Exe
<1>3. new \in Updating /\ new.pc = "copy" /\ new.exe = exe /\ new.mine = TRUE
  BY <1>2 DEF Updating
<1> HIDE DEF exe, new
<1>4. ASSUME NEW x \in Request
      PROVE  [update[x] EXCEPT !.mine = FALSE] \in Updating /\ update[x] \in Updating
             /\ [update[x] EXCEPT !.mine = FALSE].pc = update[x].pc
  BY DEF UpdateInv, UpdateShape, Updating
<1>5. /\ update' \in [Request -> Updating] /\ update'[r] = new
      /\ \A x \in Request \ {r} : update'[x].pc = update[x].pc
  BY <1>1, <1>3, <1>4
<1>6. together' \in BOOLEAN
  BY <1>1 DEF UpdateInv, UpdateShape
<1>7. UpdateShape'
  BY <1>1, <1>2, <1>5, <1>6 DEF UpdateInv, UpdateShape
<1>8. ASSUME ~together', ~cut' PROVE OneUpdate' /\ LinkWhole'
  <2>1. ~together /\ ~cut /\ \A x \in Request : update[x].pc = "idle"
    BY <1>1, <1>8
  <2>2. OneUpdate /\ LinkWhole
    BY <2>1 DEF UpdateInv
  <2>3. link \in Exe /\ disk[link] = "whole" /\ link[1] = running
    BY <2>1, <2>2, <1>1 DEF LinkWhole
  <2>4. link # exe /\ disk'[link] = "whole"
    BY <2>3, <1>1, <1>2 DEF UpdateInv, UpdateShape
  <2>5. \A x \in Request : update'[x].pc = IF x = r THEN "copy" ELSE "idle"
    BY <2>1, <1>3, <1>5
  <2> QED BY <2>3, <2>4, <2>5, <1>1, <1>2, <1>3, <1>5 DEF OneUpdate, LinkWhole
<1> QED BY <1>7, <1>8 DEF UpdateInv

\* A later step of an update that is under way alone.
LEMMA UpdateFrame ==
    ASSUME UpdateInv, NEW r \in Request, NEW next \in Updating,
           update' = [update EXCEPT ![r] = next], update[r].pc # "idle",
           disk' \in [Exe -> {"none", "part", "whole"}], link' \in Exe \cup {NoLink},
           running' = running, together' = together, cut' \in BOOLEAN, ~cut' => ~cut,
           next.pc # "idle" => next.exe = update[r].exe /\ next.mine = update[r].mine,
           ~together /\ ~cut /\ ~cut' /\ OneUpdate /\ LinkWhole =>
             /\ next.pc \notin {"idle", "copy"} => disk'[next.exe] = "whole"
             /\ next.pc = "symlink" => link' = NoLink
             /\ next.pc = "exit" => link' = next.exe
             /\ next.pc \notin {"symlink", "exit"} =>
                   link' \in Exe /\ disk'[link'] = "whole" /\ link'[1] = running
    PROVE  UpdateInv'
<1>1. /\ update' \in [Request -> Updating] /\ update'[r] = next
      /\ \A s \in Request \ {r} : update'[s] = update[s]
  BY DEF UpdateInv, UpdateShape
<1>2. UpdateShape'
  BY <1>1 DEF UpdateInv, UpdateShape
<1>3. ASSUME ~together', ~cut' PROVE OneUpdate' /\ LinkWhole'
  <2>1. ~together /\ ~cut /\ OneUpdate /\ LinkWhole
    BY <1>3 DEF UpdateInv
  <2>2. /\ running # 0 /\ update[r].exe \in Exe /\ update[r].mine
        /\ \A s \in Request \ {r} : update[s].pc = "idle"
    BY <2>1 DEF OneUpdate
  <2>3. OneUpdate'
    BY <2>1, <2>2, <1>1, <1>3 DEF OneUpdate
  <2>4. LinkWhole'
    BY <2>1, <2>2, <1>1, <1>3 DEF LinkWhole
  <2> QED BY <2>3, <2>4
<1> QED BY <1>2, <1>3 DEF UpdateInv

\* What the update's record becomes.
LEMMA UpdateGoto ==
    ASSUME UpdateInv, NEW r \in Request, NEW pc \in {"remove", "symlink", "exit"}
    PROVE  LET next == [update[r] EXCEPT !.pc = pc]
           IN  /\ next \in Updating /\ next.pc = pc /\ next.exe = update[r].exe
               /\ next.mine = update[r].mine
               /\ [update EXCEPT ![r].pc = pc] = [update EXCEPT ![r] = next]
BY DEF UpdateInv, UpdateShape, Updating

\* The new executable is copied, or the copy fails.
LEMMA CopyStep ==
    ASSUME UpdateInv, NEW r \in Request, Copy(r) PROVE UpdateInv'
<1>0. /\ update[r].pc = "copy" /\ UNCHANGED <<link, running, together, cut>>
      /\ update[r] \in Updating
      /\ cut \in BOOLEAN /\ link \in Exe \cup {NoLink} /\ disk \in [Exe -> {"none", "part", "whole"}]
  BY DEF Copy, UpdateInv, UpdateShape
<1>1. OneUpdate /\ LinkWhole =>
        /\ link \in Exe /\ disk[link] = "whole" /\ link[1] = running
        /\ update[r].exe \in Exe /\ update[r].mine
  <2> SUFFICES ASSUME OneUpdate, LinkWhole
               PROVE  /\ link \in Exe /\ disk[link] = "whole" /\ link[1] = running
                      /\ update[r].exe \in Exe /\ update[r].mine
    OBVIOUS
  <2>1. \A s \in Request : update[s].pc \notin {"symlink", "exit"}
    BY <1>0 DEF OneUpdate
  <2> QED BY <2>1, <1>0 DEF OneUpdate, LinkWhole
<1>2. CASE /\ disk' = IF update[r].mine THEN [disk EXCEPT ![update[r].exe] = "whole"] ELSE disk
           /\ update' = [update EXCEPT ![r].pc = "remove"]
  <2> DEFINE next == [update[r] EXCEPT !.pc = "remove"]
  <2>1. /\ next \in Updating /\ next.pc = "remove" /\ next.exe = update[r].exe
        /\ next.mine = update[r].mine /\ update' = [update EXCEPT ![r] = next]
    BY <1>2, UpdateGoto
  <2> HIDE DEF next
  <2>2. disk' \in [Exe -> {"none", "part", "whole"}]
    BY <1>0, <1>2
  <2>3. OneUpdate /\ LinkWhole => disk'[update[r].exe] = "whole" /\ disk'[link] = "whole"
    BY <1>0, <1>1, <1>2
  <2> QED BY <1>0, <1>1, <2>1, <2>2, <2>3, UpdateFrame
<1>3. CASE UpdateEnds(r) /\ disk' = disk
  BY <1>0, <1>1, <1>3, NoUpdateShape, UpdateFrame DEF UpdateEnds, NoUpdate
<1> QED BY <1>2, <1>3 DEF Copy

\* The link is removed, or the removal fails.
LEMMA RemoveLinkStep ==
    ASSUME UpdateInv, NEW r \in Request, RemoveLink(r) PROVE UpdateInv'
<1>0. /\ update[r].pc = "remove" /\ UNCHANGED <<disk, running, together, cut>>
      /\ cut \in BOOLEAN /\ link \in Exe \cup {NoLink} /\ disk \in [Exe -> {"none", "part", "whole"}]
  BY DEF RemoveLink, UpdateInv, UpdateShape
<1>1. OneUpdate /\ LinkWhole =>
        /\ link \in Exe /\ disk[link] = "whole" /\ link[1] = running
        /\ disk[update[r].exe] = "whole"
  <2> SUFFICES ASSUME OneUpdate, LinkWhole
               PROVE  /\ link \in Exe /\ disk[link] = "whole" /\ link[1] = running
                      /\ disk[update[r].exe] = "whole"
    OBVIOUS
  <2>1. \A s \in Request : update[s].pc \notin {"symlink", "exit"}
    BY <1>0 DEF OneUpdate
  <2> QED BY <2>1, <1>0 DEF OneUpdate, LinkWhole
<1>2. CASE link' = NoLink /\ update' = [update EXCEPT ![r].pc = "symlink"]
  <2> DEFINE next == [update[r] EXCEPT !.pc = "symlink"]
  <2>1. /\ next \in Updating /\ next.pc = "symlink" /\ next.exe = update[r].exe
        /\ next.mine = update[r].mine /\ update' = [update EXCEPT ![r] = next]
    BY <1>2, UpdateGoto
  <2> HIDE DEF next
  <2>2. OneUpdate /\ LinkWhole => disk'[next.exe] = "whole"
    BY <1>0, <1>1, <2>1
  <2>3. /\ update[r].pc # "idle" /\ next.pc # "exit" /\ next.pc \in {"symlink", "exit"}
        /\ disk' \in [Exe -> {"none", "part", "whole"}] /\ link' = NoLink
        /\ running' = running /\ together' = together /\ cut' = cut /\ cut' \in BOOLEAN
    BY <1>0, <1>2, <2>1
  <2> QED BY <2>1, <2>2, <2>3, UpdateFrame
<1>3. CASE UpdateEnds(r) /\ link' = link
  BY <1>0, <1>1, <1>3, NoUpdateShape, UpdateFrame DEF UpdateEnds, NoUpdate
<1> QED BY <1>2, <1>3 DEF RemoveLink

\* The link is made to name the new executable, or that fails.
LEMMA SymlinkStep ==
    ASSUME UpdateInv, NEW r \in Request, Symlink(r) PROVE UpdateInv'
<1> DEFINE next == [update[r] EXCEPT !.pc = "exit"]
<1>0. /\ update[r].pc = "symlink" /\ UNCHANGED <<disk, running, together>>
      /\ cut \in BOOLEAN /\ link \in Exe \cup {NoLink} /\ disk \in [Exe -> {"none", "part", "whole"}]
      /\ update[r].exe \in Exe \cup {NoLink}
  BY DEF Symlink, UpdateInv, UpdateShape, Updating
<1>1. /\ next \in Updating /\ next.pc = "exit" /\ next.exe = update[r].exe
      /\ next.mine = update[r].mine /\ update' = [update EXCEPT ![r] = next]
  BY UpdateGoto DEF Symlink
<1> HIDE DEF next
<1>2. OneUpdate => link = NoLink /\ disk[update[r].exe] = "whole"
  BY <1>0 DEF OneUpdate
<1>3. CASE link' = (IF link = NoLink THEN update[r].exe ELSE link) /\ cut' = cut
  BY <1>0, <1>1, <1>2, <1>3, UpdateFrame
<1>4. CASE cut' = TRUE /\ link' = link
  <2>1. cut' /\ cut' \in BOOLEAN
    BY <1>4
  <2> QED BY <1>0, <1>1, <1>4, <2>1, UpdateFrame
<1> QED BY <1>3, <1>4 DEF Symlink

\* The process ends, at whatever step its updates are.
LEMMA StopsStep == ASSUME UpdateInv, Stops PROVE UpdateInv'
<1>1. /\ running' = 0 /\ update' = [r \in Request |-> NoUpdate]
      /\ cut' = (cut \/ \E r \in Request : update[r].pc = "symlink")
      /\ UNCHANGED <<disk, link, together>>
  BY DEF Stops
<1>2. cut' \in BOOLEAN
  BY <1>1 DEF UpdateInv, UpdateShape
<1>3. UpdateShape'
  BY <1>1, <1>2, NoUpdateShape DEF UpdateInv, UpdateShape
<1>4. ASSUME ~together', ~cut' PROVE OneUpdate' /\ LinkWhole'
  <2>1. ~together /\ ~cut /\ \A r \in Request : update[r].pc # "symlink"
    BY <1>1, <1>4
  <2>2. link \in Exe /\ disk[link] = "whole"
    <3>1. CASE \E r \in Request : update[r].pc = "exit"
      BY <3>1, <2>1 DEF UpdateInv, OneUpdate
    <3>2. CASE \A r \in Request : update[r].pc # "exit"
      BY <3>2, <2>1 DEF UpdateInv, LinkWhole
    <3> QED BY <3>1, <3>2
  <2> QED BY <2>2, <1>1 DEF OneUpdate, LinkWhole, NoUpdate
<1> QED BY <1>3, <1>4 DEF UpdateInv

\* A process is started through the link.
LEMMA BootStep == ASSUME UpdateInv, Boot PROVE UpdateInv'
<1>1. /\ running = 0 /\ link # NoLink /\ disk[link] = "whole" /\ running' = link[1]
      /\ UNCHANGED <<disk, link, update, together, cut>>
  BY DEF Boot
<1>2. link \in Exe /\ link[1] \in Versions
  BY <1>1, NoLinkNotExe DEF UpdateInv, UpdateShape
<1>3. UpdateShape'
  BY <1>1, <1>2 DEF UpdateInv, UpdateShape
<1>4. ASSUME ~together', ~cut' PROVE OneUpdate' /\ LinkWhole'
  <2>1. OneUpdate /\ LinkWhole
    BY <1>1, <1>4 DEF UpdateInv
  <2>2. \A r \in Request : update[r].pc = "idle"
    BY <2>1, <1>1 DEF OneUpdate
  <2> QED BY <2>2, <1>1, <1>2 DEF OneUpdate, LinkWhole
<1> QED BY <1>3, <1>4 DEF UpdateInv

\* UpdateInv is inductive, also under steps of other services.
LEMMA UpdateStepInv ==
    UpdateInv /\ (UpdateNext \/ UNCHANGED updateVars) => UpdateInv'
<1> SUFFICES ASSUME UpdateInv, UpdateNext \/ UNCHANGED updateVars PROVE UpdateInv'
  OBVIOUS
<1>1. CASE UNCHANGED updateVars
  BY <1>1 DEF updateVars, UpdateInv, UpdateShape, OneUpdate, LinkWhole
<1>2. CASE UpdateNext
  BY <1>2, SaveFileStep, CopyStep, RemoveLinkStep, SymlinkStep, StopsStep, BootStep
     DEF UpdateNext, UpdateExit, ProcessExit
<1> QED BY <1>1, <1>2

\* The broker runs what its link names at first.
LEMMA UpdateInitInv == UpdateInit => UpdateInv
<1> SUFFICES ASSUME UpdateInit PROVE UpdateInv
  OBVIOUS
<1>1. <<Current, "name">> \in Exe /\ <<Current, "name">>[1] = Current
  BY UpdateAssumption DEF Exe
<1>2. UpdateShape
  BY <1>1, UpdateAssumption, NoUpdateShape DEF UpdateInit, UpdateShape
<1>3. OneUpdate /\ LinkWhole
  BY <1>1 DEF UpdateInit, OneUpdate, LinkWhole, NoUpdate
<1> QED BY <1>2, <1>3 DEF UpdateInv

\* The invariant implies the property.
LEMMA UpdateSafe == UpdateInv => LinkBootable
<1> SUFFICES ASSUME UpdateInv, running = 0, ~together, ~cut
             PROVE  link # NoLink /\ disk[link] = "whole"
  BY DEF LinkBootable
<1>1. OneUpdate /\ LinkWhole
  BY DEF UpdateInv
<1>2. \A r \in Request : update[r].pc = "idle"
  BY <1>1 DEF OneUpdate
<1> QED BY <1>1, <1>2, NoLinkNotExe DEF LinkWhole
-----------------------------------------------------------------------------
(* Upgrade downloads. *)

Download == [pc : {"idle", "match", "broker", "stream"},
             via : {"none", "download", "deploy", "legacy"}, bin : Bins \cup {NoBin}]

UpgradeShape ==
    /\ deprecated \subseteq Bins /\ count \in Nat
    /\ download \in [Request -> Download]
    /\ \A r \in Request : download[r].pc = "idle" <=> download[r].via = "none"

UpgradeInv == UpgradeShape /\ SlotsExact /\ SafeHand

Slots == {r \in Request : download[r].via = "download"}

\* Requests are finitely many, so downloads with a place can be counted.
LEMMA SlotsFinite == IsFiniteSet(Slots) /\ Cardinality(Slots) \in Nat
BY RequestAssumption, FS_Subset, FS_CardinalityType DEF Slots

\* A request that downloads nothing has the type of one that does.
LEMMA NoDownloadShape == NoDownload \in Download
BY DEF NoDownload, Download

\* A request that keeps its endpoint.
LEMMA KeepsEndpoint ==
    ASSUME UpgradeInv, NEW r \in Request, NEW next \in Download,
           download' = [download EXCEPT ![r] = next], next.via = download[r].via,
           next.pc = "idle" <=> download[r].pc = "idle",
           deprecated' = deprecated, count' = count
    PROVE  UpgradeShape' /\ SlotsExact'
<1>1. /\ download' \in [Request -> Download] /\ download'[r] = next
      /\ \A s \in Request \ {r} : download'[s] = download[s]
  BY DEF UpgradeInv, UpgradeShape
<1>2. Slots' = Slots
  BY <1>1 DEF Slots
<1> QED BY <1>1, <1>2 DEF UpgradeInv, UpgradeShape, SlotsExact, Slots

\* Leave gives back the place of a download, and of nothing else.
LEMMA LeaveStep ==
    ASSUME UpgradeInv, NEW r \in Request, Leave(r), download[r].pc # "idle",
           deprecated' = deprecated
    PROVE  UpgradeShape' /\ SlotsExact'
<1>0. UpgradeShape /\ count = Cardinality(Slots) /\ count <= MaxSize /\ count \in Nat
  BY DEF UpgradeInv, UpgradeShape, SlotsExact, Slots
<1>1. /\ download' \in [Request -> Download] /\ download'[r] = NoDownload
      /\ \A s \in Request \ {r} : download'[s] = download[s]
  BY <1>0, NoDownloadShape DEF Leave, UpgradeShape
<1>2. Slots' = Slots \ {r}
  BY <1>1 DEF Slots, NoDownload
<1>3. CASE download[r].via = "download"
  <2>1. r \in Slots
    BY <1>3 DEF Slots
  <2>2. Cardinality(Slots') = count - 1 /\ count > 0
    <3>1. Cardinality(Slots \ {r}) = count - 1
      BY <1>0, <2>1, SlotsFinite, FS_RemoveElement
    <3>2. IsFiniteSet(Slots \ {r}) /\ Cardinality(Slots \ {r}) \in Nat
      BY SlotsFinite, FS_RemoveElement, FS_CardinalityType
    <3> QED BY <1>0, <1>2, <3>1, <3>2
  <2>3. count' = count - 1
    BY <1>3, <2>2 DEF Leave, Unlock
  <2>4. SlotsExact'
    BY <1>0, <2>2, <2>3, UpgradeAssumption DEF SlotsExact, Slots
  <2>5. UpgradeShape'
    BY <1>0, <1>1, <2>2, <2>3 DEF UpgradeShape, NoDownload
  <2> QED BY <2>4, <2>5
<1>4. CASE download[r].via # "download"
  <2>1. Slots' = Slots /\ count' = count
    BY <1>2, <1>4 DEF Slots, Leave, Unlock
  <2>2. SlotsExact'
    BY <1>0, <2>1 DEF SlotsExact, Slots
  <2>3. UpgradeShape'
    BY <1>0, <1>1, <2>1 DEF UpgradeShape, NoDownload
  <2> QED BY <2>2, <2>3
<1> QED BY <1>3, <1>4

\* A download begins: with a place, without one, or at an endpoint that has no limit.
LEMMA OpenSteps ==
    ASSUME UpgradeInv, NEW r \in Request,
           TryLock(r) \/ OpenUnlimited(r, "deploy") \/ OpenUnlimited(r, "legacy")
    PROVE  UpgradeInv'
<1>0. /\ UpgradeShape /\ count = Cardinality(Slots) /\ count <= MaxSize /\ count \in Nat
      /\ MaxSize \in Nat
  BY UpgradeAssumption DEF UpgradeInv, UpgradeShape, SlotsExact, Slots
<1>1. SafeHand' /\ deprecated' = deprecated
  BY DEF UpgradeInv, SafeHand, TryLock, OpenUnlimited
<1>2. ASSUME NEW via \in {"download", "deploy", "legacy"}
      PROVE  LET next == [NoDownload EXCEPT !.pc = "match", !.via = via]
             IN  next \in Download /\ next.pc = "match" /\ next.via = via
  BY DEF NoDownload, Download
<1>3. PICK via \in {"download", "deploy", "legacy"} :
         /\ download' = [download EXCEPT ![r] = [NoDownload EXCEPT !.pc = "match", !.via = via]]
         /\ download[r].pc = "idle"
         /\ IF via = "download" THEN count < MaxSize /\ count' = count + 1 ELSE count' = count
  BY DEF TryLock, OpenUnlimited
<1>4. /\ download' \in [Request -> Download]
      /\ download'[r].pc = "match" /\ download'[r].via = via
      /\ \A s \in Request \ {r} : download'[s] = download[s]
  BY <1>0, <1>2, <1>3 DEF UpgradeShape
<1>5. UpgradeShape'
  BY <1>0, <1>1, <1>3, <1>4 DEF UpgradeShape
<1>6. r \notin Slots
  BY <1>0, <1>3 DEF Slots, UpgradeShape
<1>7. CASE via = "download"
  <2>1. Slots' = Slots \cup {r}
    BY <1>4, <1>7 DEF Slots
  <2>2. Cardinality(Slots') = count + 1
    BY <2>1, <1>0, <1>6, SlotsFinite, FS_AddElement
  <2> QED BY <1>0, <1>1, <1>3, <1>5, <1>7, <2>2 DEF UpgradeInv, SlotsExact, Slots
<1>8. CASE via # "download"
  <2>1. Slots' = Slots
    BY <1>4, <1>6, <1>8 DEF Slots
  <2> QED BY <1>0, <1>1, <1>3, <1>5, <1>8, <2>1 DEF UpgradeInv, SlotsExact, Slots
<1> QED BY <1>7, <1>8

\* What matchBinary may return for each endpoint.
LEMMA PushedFits ==
    ASSUME NEW ag, NEW b \in PushedBin(ag)
    PROVE  /\ b \in Bins \ deprecated /\ b.weight > ag.weight
           /\ b.customized = ag.customized /\ ~b.unstable /\ ~ag.unstable
BY DEF PushedBin, Newest, Fits

\* Binaries that are not the legacy upgrade's choice are not deprecated.
LEMMA OthersFit ==
    ASSUME NEW ag, NEW w, NEW c
    PROVE  /\ AskedBin(ag, w, c) \subseteq Bins \ deprecated
           /\ DeployedById(w) \subseteq Bins \ deprecated
           /\ DeployedBin(ag) \subseteq Bins \ deprecated
           /\ LegacyBin(ag) \subseteq Bins /\ LegacyAskedBin(ag, w) \subseteq Bins
BY DEF AskedBin, DeployedById, DeployedBin, LegacyBin, LegacyAskedBin, Newest, Fits

\* What an endpoint may find is fit for the way it was chosen.
LEMMA FoundFits ==
    ASSUME NEW via \in {"download", "deploy", "legacy"}, NEW ag, NEW hit \in Found(via, ag)
    PROVE  /\ hit[1] \in Bins /\ (hit[2] # "legacy" => hit[1] \notin deprecated)
           /\ (hit[2] = "push" => hit[1] \in PushedBin(ag))
<1>1. CASE via = "download"
  <2>1. \/ \E b \in PushedBin(ag) : hit = <<b, "push">>
        \/ \E like \in Bins : \E b \in AskedBin(ag, like.weight, like.customized) : hit = <<b, "ask">>
    BY <1>1 DEF Found
  <2>2. CASE \E b \in PushedBin(ag) : hit = <<b, "push">>
    BY <2>2, PushedFits
  <2>3. CASE \E like \in Bins : \E b \in AskedBin(ag, like.weight, like.customized) : hit = <<b, "ask">>
    BY <2>3, OthersFit
  <2> QED BY <2>1, <2>2, <2>3
<1>2. CASE via = "deploy"
  <2>1. \E like \in Bins : \E b \in DeployedBin(ag) \cup DeployedById(like.id) : hit = <<b, "deploy">>
    <3>1. PICK b : hit = <<b, "deploy">>
                   /\ b \in DeployedBin(ag) \cup UNION {DeployedById(like.id) : like \in Bins}
      BY <1>2 DEF Found
    <3>2. CASE b \in DeployedBin(ag)
      BY <3>1, <3>2, OthersFit
    <3> QED BY <3>1, <3>2
  <2> QED BY <2>1, OthersFit
<1>3. CASE via = "legacy"
  <2>1. PICK b : hit = <<b, "legacy">>
                 /\ b \in LegacyBin(ag) \cup UNION {LegacyAskedBin(ag, like.weight) : like \in Bins}
    BY <1>3 DEF Found
  <2>2. b \in Bins
    <3>1. LegacyBin(ag) \subseteq Bins
      BY OthersFit
    <3>2. \A like \in Bins : LegacyAskedBin(ag, like.weight) \subseteq Bins
      BY OthersFit
    <3> QED BY <2>1, <3>1, <3>2
  <2> QED BY <2>1, <2>2
<1> QED BY <1>1, <1>2, <1>3

\* matchBinary chooses a binary, or finds none and returns.
LEMMA MatchStep ==
    ASSUME UpgradeInv, NEW r \in Request, Match(r) PROVE UpgradeInv'
<1>0. /\ download[r].pc = "match" /\ download[r] \in Download /\ deprecated' = deprecated
      /\ download[r].via \in {"download", "deploy", "legacy"} /\ SafeHand
  BY DEF UpgradeInv, UpgradeShape, Match, Download
<1>1. ASSUME NEW ag, NEW b \in Bins, NEW via,
             download' = [download EXCEPT ![r] = [@ EXCEPT !.pc = "broker", !.bin = b]],
             handed' = [via |-> via, bin |-> b, agent |-> ag, stale |-> b \in deprecated],
             count' = count,
             via # "legacy" => b \notin deprecated,
             via = "push" => b \in PushedBin(ag)
      PROVE  UpgradeInv'
  <2> DEFINE next == [download[r] EXCEPT !.pc = "broker", !.bin = b]
  <2>1. next \in Download /\ next.pc = "broker" /\ next.via = download[r].via
    BY <1>0 DEF Download
  <2>2. download' = [download EXCEPT ![r] = next]
    BY <1>1
  <2> HIDE DEF next
  <2>3. UpgradeShape' /\ SlotsExact'
    BY <1>0, <1>1, <2>1, <2>2, KeepsEndpoint
  <2>4. /\ handed'.via = via /\ handed'.bin = b /\ handed'.agent = ag
        /\ handed'.stale = (b \in deprecated)
    BY <1>1
  <2>5. via # "legacy" => ~handed'.stale
    BY <1>1, <2>4
  <2>6. via = "push" => /\ b.weight > ag.weight /\ b.customized = ag.customized
                        /\ ~b.unstable /\ ~ag.unstable
    BY <1>1, PushedFits
  <2>7. SafeHand'
    BY <2>4, <2>5, <2>6 DEF SafeHand
  <2> QED BY <2>3, <2>7 DEF UpgradeInv
<1>2. CASE Leave(r) /\ handed' = handed
  <2>1. SafeHand'
    BY <1>0, <1>2 DEF SafeHand
  <2> QED BY <1>0, <1>2, <2>1, LeaveStep DEF UpgradeInv
<1>3. ASSUME NEW ag, NEW hit \in Found(download[r].via, ag),
             download' = [download EXCEPT ![r] = [@ EXCEPT !.pc = "broker", !.bin = hit[1]]],
             handed' = [via |-> hit[2], bin |-> hit[1], agent |-> ag, stale |-> hit[1] \in deprecated],
             count' = count
      PROVE  UpgradeInv'
  <2>1. /\ hit[1] \in Bins /\ (hit[2] # "legacy" => hit[1] \notin deprecated)
        /\ (hit[2] = "push" => hit[1] \in PushedBin(ag))
    BY <1>0, FoundFits
  <2> DEFINE b == hit[1]
             via == hit[2]
  <2>2. /\ download' = [download EXCEPT ![r] = [@ EXCEPT !.pc = "broker", !.bin = b]]
        /\ handed' = [via |-> via, bin |-> b, agent |-> ag, stale |-> b \in deprecated]
    BY <1>3
  <2>3. b \in Bins /\ (via # "legacy" => b \notin deprecated) /\ (via = "push" => b \in PushedBin(ag))
    BY <2>1
  <2> HIDE DEF b, via
  <2> QED BY <1>1, <1>3, <2>2, <2>3
<1> QED BY <1>2, <1>3 DEF Match

\* The rest of a download: it is streamed or fails, and gives its place back.
LEMMA StreamSteps ==
    ASSUME UpgradeInv, NEW r \in Request, Broker(r) \/ Stream(r) PROVE UpgradeInv'
<1>0. /\ download[r].pc # "idle" /\ download[r] \in Download
      /\ deprecated' = deprecated /\ handed' = handed
  BY DEF UpgradeInv, UpgradeShape, Broker, Stream
<1>1. SafeHand'
  BY <1>0 DEF UpgradeInv, SafeHand
<1>2. CASE Leave(r)
  BY <1>0, <1>1, <1>2, LeaveStep DEF UpgradeInv
<1>3. CASE download' = [download EXCEPT ![r].pc = "stream"] /\ count' = count
  <2> DEFINE next == [download[r] EXCEPT !.pc = "stream"]
  <2>1. next \in Download /\ next.pc = "stream" /\ next.via = download[r].via
    BY <1>0 DEF Download
  <2>2. download' = [download EXCEPT ![r] = next]
    BY <1>3
  <2> HIDE DEF next
  <2> QED BY <1>0, <1>1, <1>3, <2>1, <2>2, KeepsEndpoint DEF UpgradeInv
<1> QED BY <1>2, <1>3 DEF Broker, Stream

\* UpgradeInv is inductive, also under steps of other services.
LEMMA UpgradeStepInv ==
    UpgradeInv /\ (UpgradeNext \/ UNCHANGED upgradeVars) => UpgradeInv'
<1> SUFFICES ASSUME UpgradeInv, UpgradeNext \/ UNCHANGED upgradeVars PROVE UpgradeInv'
  OBVIOUS
<1>1. CASE UNCHANGED upgradeVars
  BY <1>1 DEF upgradeVars, UpgradeInv, UpgradeShape, SlotsExact, SafeHand
<1>2. ASSUME NEW b \in Bins, Deprecate(b) PROVE UpgradeInv'
  BY <1>2 DEF Deprecate, UpgradeInv, UpgradeShape, SlotsExact, SafeHand
<1> QED BY <1>1, <1>2, OpenSteps, MatchStep, StreamSteps DEF UpgradeNext

\* No download is under way at first.
LEMMA UpgradeInitInv == UpgradeInit => UpgradeInv
<1> SUFFICES ASSUME UpgradeInit PROVE UpgradeInv
  OBVIOUS
<1>1. UpgradeShape
  BY NoDownloadShape DEF UpgradeInit, UpgradeShape, NoDownload
<1>2. SlotsExact
  <2>1. Slots = {}
    BY DEF UpgradeInit, Slots, NoDownload
  <2> QED BY <2>1, FS_EmptySet, UpgradeAssumption DEF UpgradeInit, SlotsExact, Slots
<1>3. SafeHand
  BY DEF UpgradeInit, SafeHand, NoHand
<1> QED BY <1>1, <1>2, <1>3 DEF UpgradeInv
-----------------------------------------------------------------------------
(* Work for agents: pushes of ad-hoc tasks, and scans of a table of due    *)
(* synchronisations.                                                       *)

(* Numbers. *)

Below == {p \in Nat \X Nat : p[1] < p[2]}

\* A set of numbers that is not empty has a least one.
LEMMA LeastNumber ==
    ASSUME NEW T \in SUBSET Nat, T # {}
    PROVE  \E n \in T : \A m \in T : n <= m
<1>1. IsWellFoundedOn(Below, Nat)
  BY NatLessThanWellFounded, Zenon DEF OpToRel, Below
<1>2. \E x \in T : \A y \in T : ~(<<y, x>> \in Below)
  BY <1>1, WFMin
<1>3. PICK x \in T : \A y \in T : ~(<<y, x>> \in Below)
  BY <1>2
<1>4. \A y \in T : ~(y < x)
  BY <1>3 DEF Below
<1> QED BY <1>4

(* Pushes. *)

PushType ==
    /\ limit \in BOOLEAN /\ orphaned \in BOOLEAN
    /\ item \in [Items -> [status : {"null", "sent", "failed"}, finished : BOOLEAN,
                           code : {"none", "agent", "succeed", "exec"}]]
    /\ push \in [Request -> [pc : {"idle", "find", "batch", "send", "update"},
                             batch : SUBSET Items, last : Nat, failed : BOOLEAN]]
    /\ agent \in [Items -> Nat]

\* A push under way holds the mark and is the only one.
OnePush ==
    \A r \in Request : push[r].pc # "idle" =>
        limit /\ \A s \in Request \ {r} : push[s].pc = "idle"

\* The items of a batch are still to do, and there is one while they are sent.
BatchToDo ==
    \A r \in Request :
        push[r].pc \in {"send", "update"} =>
            push[r].batch # {} /\ \A i \in push[r].batch : item[i].status = "null"

\* Item i has been sent and its row is the next to be written.
AtUpdate(r, i) == push[r].pc = "update" /\ i = Lowest(push[r].batch)

\* An item whose row is not written has not been sent, except the current one.
Unsent ==
    \A i \in Items \ unsure :
        /\ item[i].status = "null" /\ (\A r \in Request : ~AtUpdate(r, i)) => agent[i] = 0
        /\ \A r \in Request : AtUpdate(r, i) /\ push[r].failed => agent[i] = 0

\* The broker writes its own error only with the status.
ErrorHasStatus == \A i \in Items : item[i].code = "agent" => item[i].status # "null"

PushInv ==
    PushType /\ OnePush /\ BatchToDo /\ Unsent /\ ErrorHasStatus /\ PushOnce /\ PushMarkHeld

\* The item a push is at belongs to its batch.
LEMMA LowestIn ==
    ASSUME NEW ids \in SUBSET Items, ids # {}
    PROVE  Lowest(ids) \in ids
<1>1. \E i \in ids : \A other \in ids : i <= other
  BY LeastNumber, PushAssumption
<1> QED BY <1>1 DEF Lowest

\* No push is under way and nothing was sent at first.
LEMMA PushInitInv == PushInit => PushInv
<1> SUFFICES ASSUME PushInit PROVE PushInv
  OBVIOUS
<1>1. \A r \in Request : push[r] = NoPush /\ push[r].pc = "idle"
  BY DEF PushInit, NoPush
<1>2. PushType
  BY DEF PushInit, PushType, NoPush
<1>3. OnePush /\ BatchToDo /\ PushMarkHeld
  BY <1>1 DEF PushInit, OnePush, BatchToDo, PushMarkHeld
<1>4. Unsent /\ ErrorHasStatus /\ PushOnce
  BY <1>1 DEF PushInit, Unsent, ErrorHasStatus, PushOnce, AtUpdate
<1> QED BY <1>2, <1>3, <1>4 DEF PushInv

\* The steps that neither send nor record an item: the mark and the batch.
LEMMA PushQuietStep ==
    ASSUME PushInv, NEW r \in Request, Push(r) \/ FindExecute(r) \/ FindInBatches(r)
    PROVE  PushInv'
<1> USE DEF PushInv
<1>0. push[r] \in [pc : {"idle", "find", "batch", "send", "update"},
                   batch : SUBSET Items, last : Nat, failed : BOOLEAN]
  BY DEF PushType
<1>1. /\ UNCHANGED <<item, agent, unsure>>
      /\ \A s \in Request \ {r} : push'[s] = push[s]
      /\ push[r].pc \in {"idle", "find", "batch"}
  BY DEF Push, FindExecute, FindInBatches, PushType
<1>2. /\ PushType' /\ push'[r].pc \in {"idle", "find", "batch", "send"}
      /\ push'[r].pc = "send" =>
            push'[r].batch # {} /\ \A i \in push'[r].batch : item[i].status = "null"
  <2>1. CASE Push(r)
    BY <2>1, <1>0 DEF Push, PushType
  <2>2. CASE FindExecute(r)
    <3>1. PICK p : /\ p \in {[push[r] EXCEPT !.pc = "batch"], NoPush}
                   /\ push' = [push EXCEPT ![r] = p]
      BY <2>2 DEF FindExecute, PushType
    <3>2. /\ p.pc \in {"idle", "batch"}
          /\ p \in [pc : {"idle", "find", "batch", "send", "update"},
                    batch : SUBSET Items, last : Nat, failed : BOOLEAN]
      <4>1. CASE p = [push[r] EXCEPT !.pc = "batch"]
        BY <1>0, <4>1
      <4>2. CASE p = NoPush
        BY <4>2 DEF NoPush
      <4> QED BY <3>1, <4>1, <4>2
    <3>3. limit' \in BOOLEAN /\ orphaned' \in BOOLEAN /\ push'[r] = p
      <4>1. push'[r] = p
        BY <3>1 DEF PushType
      <4>2. limit' = limit /\ (orphaned' = orphaned \/ orphaned' = TRUE)
        BY <2>2 DEF FindExecute
      <4> QED BY <4>1, <4>2 DEF PushType
    <3>4. push' \in [Request -> [pc : {"idle", "find", "batch", "send", "update"},
                                 batch : SUBSET Items, last : Nat, failed : BOOLEAN]]
      BY <3>1, <3>2 DEF PushType
    <3> QED BY <1>1, <3>2, <3>3, <3>4 DEF PushType
  <2>3. CASE FindInBatches(r)
    <3> DEFINE batch == FirstOf(BatchSize, {i \in Items : i > push[r].last /\ item[i].status = "null"})
    <3>1. batch \in SUBSET Items /\ \A i \in batch : item[i].status = "null"
      BY DEF FirstOf
    <3> HIDE DEF batch
    <3>2. CASE batch # {} /\ push' = [push EXCEPT ![r].pc = "send", ![r].batch = batch] /\ UNCHANGED limit
      <4>1. push' = [push EXCEPT ![r] = [push[r] EXCEPT !.pc = "send", !.batch = batch]]
        BY <3>2 DEF PushType
      <4>2. [push[r] EXCEPT !.pc = "send", !.batch = batch]
               \in [pc : {"idle", "find", "batch", "send", "update"},
                    batch : SUBSET Items, last : Nat, failed : BOOLEAN]
        BY <1>0, <3>1
      <4>3. push'[r].pc = "send" /\ push'[r].batch = batch
        BY <4>1, <1>0 DEF PushType
      <4>4. PushType'
        BY <2>3, <3>2, <4>1, <4>2 DEF FindInBatches, PushType
      <4> QED BY <3>1, <3>2, <4>3, <4>4
    <3>3. CASE limit' = FALSE /\ push' = [push EXCEPT ![r] = NoPush]
      BY <2>3, <3>3, <1>0 DEF FindInBatches, PushType, NoPush
    <3> QED BY <2>3, <3>2, <3>3 DEF FindInBatches, batch
  <2> QED BY <2>1, <2>2, <2>3
<1>3. BatchToDo' /\ ErrorHasStatus' /\ PushOnce'
  BY <1>1, <1>2 DEF BatchToDo, ErrorHasStatus, PushOnce
<1>4. Unsent'
  <2>1. \A s \in Request, i \in Items : AtUpdate(s, i)' <=> AtUpdate(s, i)
    BY <1>1, <1>2 DEF AtUpdate
  <2>2. \A s \in Request, i \in Items :
           AtUpdate(s, i)' => (push'[s].failed <=> push[s].failed)
    BY <1>1, <1>2 DEF AtUpdate
  <2> QED BY <1>1, <2>1, <2>2 DEF Unsent
<1>5. OnePush' /\ PushMarkHeld'
  <2>1. CASE Push(r)
    <3>1. /\ limit' /\ push'[r].pc = "find"
          /\ \A s \in Request : push[s].pc = "idle"
      BY <2>1, <1>0 DEF Push, OnePush, PushType
    <3> QED BY <1>1, <3>1 DEF OnePush, PushMarkHeld
  <2>2. CASE FindExecute(r)
    <3>1. UNCHANGED limit /\ (push'[r].pc = "batch" \/ orphaned')
      BY <2>2, <1>0 DEF FindExecute, PushType
    <3> QED BY <1>1, <2>2, <3>1 DEF OnePush, PushMarkHeld, FindExecute
  <2>3. CASE FindInBatches(r)
    <3>1. (UNCHANGED limit /\ push'[r].pc = "send") \/ (~limit' /\ push'[r].pc = "idle")
      BY <2>3, <1>0 DEF FindInBatches, PushType, NoPush
    <3>2. limit /\ \A s \in Request \ {r} : push[s].pc = "idle"
      BY <2>3 DEF FindInBatches, OnePush
    <3> QED BY <1>1, <3>1, <3>2 DEF OnePush, PushMarkHeld
  <2> QED BY <2>1, <2>2, <2>3
<1> QED BY <1>2, <1>3, <1>4, <1>5

\* pushTask: the agent of the current item may be given the task.
LEMMA PushTaskStep ==
    ASSUME PushInv, NEW r \in Request, PushTask(r)
    PROVE  PushInv'
<1> USE DEF PushInv
<1> DEFINE i == Lowest(push[r].batch)
           Rec == [pc : {"idle", "find", "batch", "send", "update"},
                   batch : SUBSET Items, last : Nat, failed : BOOLEAN]
<1>0. push[r] \in Rec /\ push[r].pc = "send"
  BY DEF PushType, PushTask
<1>1. i \in push[r].batch /\ i \in Items /\ item[i].status = "null"
  BY <1>0, LowestIn DEF BatchToDo
<1> HIDE DEF i
<1>2. PICK f \in BOOLEAN :
         /\ push' = [push EXCEPT ![r] = [push[r] EXCEPT !.pc = "update", !.failed = f]]
         /\ \/ ~f /\ agent' = [agent EXCEPT ![i] = @ + 1] /\ UNCHANGED unsure
            \/ f /\ UNCHANGED <<agent, unsure>>
            \/ f /\ agent' = [agent EXCEPT ![i] = @ + 1] /\ unsure' = unsure \cup {i}
  BY DEF PushTask, PushType, i
<1>3. UNCHANGED <<limit, item, orphaned>>
  BY DEF PushTask
<1>4. /\ push'[r] \in Rec /\ push'[r].pc = "update" /\ push'[r].failed = f
      /\ push'[r].batch = push[r].batch
      /\ \A s \in Request \ {r} : push'[s] = push[s]
  BY <1>0, <1>2 DEF PushType
<1>5. \A s \in Request \ {r} : push[s].pc = "idle"
  BY <1>0 DEF OnePush
<1>6. PushType'
  <2>1. push' \in [Request -> Rec]
    BY <1>2, <1>4 DEF PushType
  <2>2. agent' \in [Items -> Nat]
    BY <1>1, <1>2 DEF PushType
  <2> QED BY <1>3, <2>1, <2>2 DEF PushType
<1>7. OnePush' /\ BatchToDo' /\ ErrorHasStatus' /\ PushMarkHeld'
  BY <1>0, <1>3, <1>4, <1>5 DEF OnePush, BatchToDo, ErrorHasStatus, PushMarkHeld
<1>8. \A s \in Request, x \in Items : AtUpdate(s, x)' <=> s = r /\ x = i
  BY <1>4, <1>5 DEF AtUpdate, i
<1>9. i \notin unsure => agent[i] = 0
  BY <1>0, <1>1, <1>5 DEF Unsent, AtUpdate
<1>10. \A x \in Items : x # i => agent'[x] = agent[x] /\ (x \in unsure' <=> x \in unsure)
  BY <1>2 DEF PushType
<1>11. i \notin unsure' => agent'[i] <= 1 /\ (f => agent'[i] = 0)
  BY <1>1, <1>2, <1>9 DEF PushType
<1>12. Unsent'
  <2> SUFFICES ASSUME NEW x \in Items, x \notin unsure'
               PROVE  /\ item'[x].status = "null" /\ (\A s \in Request : ~AtUpdate(s, x)') => agent'[x] = 0
                      /\ \A s \in Request : AtUpdate(s, x)' /\ push'[s].failed => agent'[x] = 0
    BY DEF Unsent
  <2>1. CASE x = i
    BY <1>4, <1>8, <1>11, <2>1
  <2>2. CASE x # i
    <3>1. \A s \in Request : ~AtUpdate(s, x)
      BY <1>0, <1>5 DEF AtUpdate
    <3> QED BY <1>3, <1>8, <1>10, <2>2, <3>1 DEF Unsent
  <2> QED BY <2>1, <2>2
<1>13. PushOnce'
  <2> SUFFICES ASSUME NEW x \in Items, x \notin unsure'
               PROVE  agent'[x] <= 1 /\ (item'[x].code = "agent" => agent'[x] = 0)
    BY DEF PushOnce
  <2>1. CASE x = i
    BY <1>1, <1>3, <1>11, <2>1 DEF ErrorHasStatus
  <2>2. CASE x # i
    BY <1>3, <1>10, <2>2 DEF PushOnce
  <2> QED BY <2>1, <2>2
<1> QED BY <1>6, <1>7, <1>12, <1>13

\* The update of the current item, and the step to the next one or to the next batch.
LEMMA UpdateItemStep ==
    ASSUME PushInv, NEW r \in Request, UpdateItem(r)
    PROVE  PushInv'
<1> USE DEF PushInv
<1> DEFINE i == Lowest(push[r].batch)
           rest == push[r].batch \ {i}
           Rec == [pc : {"idle", "find", "batch", "send", "update"},
                   batch : SUBSET Items, last : Nat, failed : BOOLEAN]
           new == [status |-> IF push[r].failed THEN "failed" ELSE "sent",
                   finished |-> item[i].finished \/ push[r].failed,
                   code |-> IF push[r].failed THEN "agent" ELSE item[i].code]
<1>0. push[r] \in Rec /\ push[r].pc = "update"
  BY DEF PushType, UpdateItem
<1>1. i \in push[r].batch /\ i \in Items /\ item[i].status = "null" /\ i \in Nat
  BY <1>0, LowestIn, PushAssumption DEF BatchToDo
<1>2. /\ push' = [push EXCEPT ![r] = [push[r] EXCEPT !.pc = IF rest = {} THEN "batch" ELSE "send",
                                                     !.batch = rest, !.last = i]]
      /\ \/ item' = [item EXCEPT ![i] = new] /\ UNCHANGED unsure
         \/ unsure' = unsure \cup {i} /\ UNCHANGED item
      /\ UNCHANGED <<limit, agent, orphaned>>
  BY <1>1 DEF UpdateItem, PushType
<1>3. rest \in SUBSET Items /\ \A x \in rest : x # i /\ item[x].status = "null"
  BY <1>0 DEF BatchToDo
<1>4. /\ push'[r] \in Rec /\ push'[r].pc = IF rest = {} THEN "batch" ELSE "send"
      /\ push'[r].batch = rest
      /\ \A s \in Request \ {r} : push'[s] = push[s]
  <2> HIDE DEF rest, i
  <2> QED BY <1>0, <1>1, <1>2, <1>3 DEF PushType
<1>5. \A s \in Request \ {r} : push[s].pc = "idle"
  BY <1>0 DEF OnePush
<1>6. /\ \A x \in Items : x # i => item'[x] = item[x] /\ (x \in unsure' <=> x \in unsure)
      /\ i \notin unsure' => item'[i] = new /\ i \notin unsure
      /\ new.status # "null" /\ (new.code = "agent" <=> push[r].failed \/ item[i].code = "agent")
  <2>1. new.status # "null" /\ (new.code = "agent" <=> push[r].failed \/ item[i].code = "agent")
    OBVIOUS
  <2> HIDE DEF new, i
  <2> QED BY <1>1, <1>2, <2>1 DEF PushType
<1>7. PushType'
  <2>1. push' \in [Request -> Rec]
    BY <1>2, <1>4 DEF PushType
  <2>2. new \in [status : {"null", "sent", "failed"}, finished : BOOLEAN,
                 code : {"none", "agent", "succeed", "exec"}]
    BY <1>0, <1>1 DEF PushType
  <2> HIDE DEF new, i, rest
  <2>3. item' \in [Items -> [status : {"null", "sent", "failed"}, finished : BOOLEAN,
                             code : {"none", "agent", "succeed", "exec"}]]
    BY <1>1, <1>2, <2>2 DEF PushType
  <2> HIDE DEF Rec
  <2>4. limit' \in BOOLEAN /\ orphaned' \in BOOLEAN /\ agent' \in [Items -> Nat]
    BY <1>2 DEF PushType
  <2> QED BY <2>1, <2>3, <2>4 DEF PushType, Rec
<1>8. OnePush' /\ PushMarkHeld'
  <2> HIDE DEF new, i, rest
  <2>1. push'[r].pc # "idle" /\ limit /\ limit' = limit
    <3>1. limit /\ limit' = limit
      BY <1>0, <1>2 DEF OnePush
    <3>2. push'[r].pc \in {"batch", "send"}
      BY <1>4
    <3> QED BY <3>1, <3>2
  <2> QED BY <1>4, <1>5, <2>1 DEF OnePush, PushMarkHeld
<1>9. BatchToDo'
  <2> HIDE DEF new, i, rest
  <2> QED BY <1>3, <1>4, <1>5, <1>6 DEF BatchToDo
<1>10. ErrorHasStatus'
  <2>1. item'[i] = new \/ item'[i] = item[i]
    <3> HIDE DEF new, i
    <3> QED BY <1>1, <1>2 DEF PushType
  <2> HIDE DEF new, i, rest
  <2> QED BY <1>6, <2>1 DEF ErrorHasStatus
<1>11. \A s \in Request, x \in Items : ~AtUpdate(s, x)'
  BY <1>4, <1>5 DEF AtUpdate
<1>12. AtUpdate(r, i) /\ \A s \in Request, x \in Items : AtUpdate(s, x) => x = i
  BY <1>0, <1>5 DEF AtUpdate
<1>13. Unsent'
  <2> HIDE DEF new, i, rest
  <2> QED BY <1>2, <1>6, <1>11, <1>12 DEF Unsent
<1>14. PushOnce'
  <2>1. i \notin unsure /\ push[r].failed => agent[i] = 0
    BY <1>1, <1>12 DEF Unsent
  <2> HIDE DEF new, i, rest
  <2> QED BY <1>1, <1>2, <1>6, <2>1 DEF PushOnce
<1> QED BY <1>7, <1>8, <1>9, <1>10, <1>13, <1>14

\* task.go: commands, batches, calls, rows, reports and a restart, in any order.
LEMMA PushStepInv == PushInv /\ (PushNext \/ UNCHANGED pushVars) => PushInv'
<1> SUFFICES ASSUME PushInv, PushNext \/ UNCHANGED pushVars PROVE PushInv'
  OBVIOUS
<1>1. CASE \E r \in Request : Push(r)
  BY <1>1, PushQuietStep
<1>2. CASE PushStep
  BY <1>2, PushQuietStep, PushTaskStep, UpdateItemStep DEF PushStep
<1>3. ASSUME NEW i \in Items, NEW succeed \in BOOLEAN, Report(i, succeed) PROVE PushInv'
  <2>1. /\ UNCHANGED <<limit, push, agent, orphaned, unsure>>
        /\ \A x \in Items : item'[x].status = item[x].status
        /\ \A x \in Items : item'[x].code = "agent" => item[x].code = "agent"
    BY <1>3 DEF Report, PushInv, PushType
  <2>2. PushType'
    BY <1>3, <2>1 DEF Report, PushInv, PushType
  <2>3. \A r \in Request, x \in Items : AtUpdate(r, x)' <=> AtUpdate(r, x)
    BY <2>1 DEF AtUpdate
  <2>4. Unsent'
    BY <2>1, <2>3 DEF PushInv, Unsent
  <2>5. BatchToDo'
    BY <2>1 DEF PushInv, PushType, BatchToDo
  <2> QED BY <2>1, <2>2, <2>4, <2>5
          DEF PushInv, OnePush, ErrorHasStatus, PushOnce, PushMarkHeld
<1>4. CASE PushRestart
  <2>1. /\ limit' = FALSE /\ orphaned' = FALSE /\ UNCHANGED <<item, agent>>
        /\ push' = [r \in Request |-> NoPush]
        /\ \A r \in Request, i \in Items : AtUpdate(r, i) => i \in unsure'
        /\ unsure \subseteq unsure'
    BY <1>4 DEF PushRestart, AtUpdate
  <2>2. \A r \in Request : push'[r].pc = "idle"
    BY <2>1 DEF NoPush
  <2>3. PushType'
    BY <2>1 DEF PushInv, PushType, NoPush
  <2>4. Unsent'
    BY <2>1, <2>2 DEF PushInv, Unsent, AtUpdate
  <2> QED BY <2>1, <2>2, <2>3, <2>4
          DEF PushInv, OnePush, BatchToDo, ErrorHasStatus, PushOnce, PushMarkHeld
<1>5. CASE UNCHANGED pushVars
  BY <1>5 DEF pushVars, PushInv, PushType, OnePush, BatchToDo, Unsent, AtUpdate, ErrorHasStatus,
     PushOnce, PushMarkHeld
<1> QED BY <1>1, <1>2, <1>3, <1>4, <1>5 DEF PushNext

(* Scans. *)

ScanType ==
    /\ due \in [Minion -> {"none", "due", "done", "failed"}]
    /\ scan \in [Request -> [on : BOOLEAN, last : Nat]]
    /\ jobs \in [Minion -> Nat]
    /\ promised \in SUBSET Minion

\* A scan that begins starts before the first minion.
ScanFresh == \A r \in Request : ~scan[r].on => scan[r].last = 0

\* The row of a promised minion is handled, or in a job, or before a scan under way.
Covered(m) ==
    \/ due[m] \in {"done", "failed"}
    \/ jobs[m] > 0
    \/ \E r \in Request : scan[r].on /\ scan[r].last < m

ScanInv ==
    /\ ScanType /\ ScanFresh
    /\ \A m \in promised : due[m] # "none" /\ (~partial => Covered(m))

\* A page of the rows that are left is empty only when none is, and holds the first ones.
LEMMA PageIsFirst ==
    ASSUME ScanType, NEW last \in Nat, NEW m \in Minion, due[m] = "due", last < m
    PROVE  /\ Page(last) \in SUBSET Minion /\ Page(last) # {}
           /\ m \in Page(last) \/ \A top \in Page(last) : top < m
<1> DEFINE left == {x \in last + 1..LastMinion : due[x] = "due"}
           Before(x) == {y \in left : y < x}
<1>1. Page(last) = {x \in left : Cardinality(Before(x)) < PageSize}
  BY DEF Page
<1>2. m \in left /\ left \in SUBSET Minion /\ left \in SUBSET Nat /\ \A x \in left : x \in Nat
  BY ScanAssumption DEF Minion
<1>3. IsFiniteSet(left)
  <2>1. IsFiniteSet(last + 1..LastMinion)
    BY FS_Interval, ScanAssumption
  <2> QED BY <2>1, FS_Subset
<1>4. \A x \in left : IsFiniteSet(Before(x)) /\ Cardinality(Before(x)) \in Nat
  BY <1>3, FS_Subset, FS_CardinalityType
<1> HIDE DEF left
<1>5. Page(last) # {}
  <2>1. PICK x \in left : \A y \in left : x <= y
    BY <1>2, LeastNumber
  <2>2. \A y \in left : ~(y < x)
    BY <1>2, <2>1
  <2>3. Before(x) = {}
    BY <2>2
  <2>4. Cardinality(Before(x)) = 0
    BY <2>3, FS_EmptySet
  <2> QED BY <1>1, <2>4, ScanAssumption
<1>6. ASSUME m \notin Page(last), NEW top \in Page(last) PROVE top < m
  <2>1. top \in left /\ top \in Nat /\ m \in Nat /\ top # m
    BY <1>1, <1>2, <1>6
  <2>2. Cardinality(Before(top)) < PageSize /\ ~(Cardinality(Before(m)) < PageSize)
    BY <1>1, <1>2, <1>6
  <2>3. ASSUME m < top PROVE FALSE
    <3>0. \A y \in left : y < m => y < top
      BY <1>2, <2>1, <2>3
    <3>1. Before(m) \subseteq Before(top)
      BY <3>0
    <3>2. Cardinality(Before(m)) <= Cardinality(Before(top))
      BY <1>4, <2>1, <3>1, FS_Subset
    <3> QED BY <1>2, <1>4, <2>1, <2>2, <3>2, ScanAssumption
  <2> QED BY <2>1, <2>3
<1> QED BY <1>1, <1>2, <1>5, <1>6

\* Nothing is promised at first.
LEMMA ScanInitInv == ScanInit => ScanInv
  BY DEF ScanInit, ScanInv, ScanType, ScanFresh, NoScan

\* scanTableTask: a page becomes jobs, or there is nothing behind the last id.
LEMMA ScanPageStep ==
    ASSUME ScanInv, NEW r \in Request, ScanPage(r)
    PROVE  ScanInv'
<1> USE DEF ScanInv
<1> DEFINE page == Page(scan[r].last)
<1>1. /\ scan[r].on /\ scan[r].last \in Nat /\ UNCHANGED <<due, promised, partial>>
      /\ jobs' = [m \in Minion |-> IF m \in page THEN jobs[m] + 1 ELSE jobs[m]]
  BY DEF ScanPage, ScanType
<1>2. page \in SUBSET Minion
  BY <1>1, ScanAssumption DEF Page, Minion
<1> HIDE DEF page
<1>3. \A m \in Minion : jobs'[m] \in Nat /\ (jobs[m] > 0 \/ m \in page => jobs'[m] > 0)
  BY <1>1 DEF ScanType
<1>4. PICK s \in [on : BOOLEAN, last : Nat] :
         /\ scan' = [scan EXCEPT ![r] = s]
         /\ ~s.on => s.last = 0
         /\ \/ s.on /\ s.last \in page /\ \A m \in page : m <= s.last
            \/ page = {}
  <2>1. CASE page = {} /\ scan' = [scan EXCEPT ![r] = NoScan]
    BY <2>1 DEF NoScan
  <2>2. ASSUME NEW top \in page, \A m \in page : m <= top,
               scan' = [scan EXCEPT ![r].last = top]
        PROVE  \E s \in [on : BOOLEAN, last : Nat] :
                   /\ scan' = [scan EXCEPT ![r] = s]
                   /\ s.on /\ s.last \in page /\ \A m \in page : m <= s.last
    <3>1. top \in Nat
      BY <1>2, ScanAssumption DEF Minion
    <3> DEFINE s == [scan[r] EXCEPT !.last = top]
    <3>2. scan' = [scan EXCEPT ![r] = s] /\ scan[r] \in [on : BOOLEAN, last : Nat]
      BY <2>2 DEF ScanType
    <3>3. s \in [on : BOOLEAN, last : Nat] /\ s.on /\ s.last = top
      BY <1>1, <3>1, <3>2
    <3> HIDE DEF s
    <3> QED BY <2>2, <3>2, <3>3
  <2> QED BY <2>1, <2>2 DEF ScanPage, page
<1>5. scan'[r] = s /\ \A q \in Request \ {r} : scan'[q] = scan[q]
  BY <1>4 DEF ScanType
<1>6. ScanType' /\ ScanFresh'
  BY <1>1, <1>3, <1>4, <1>5 DEF ScanType, ScanFresh
<1>7. ASSUME NEW m \in promised, ~partial PROVE Covered(m)'
  <2>1. m \in Minion /\ m \in Nat /\ Covered(m) /\ due[m] \in {"due", "done", "failed"}
    BY <1>7, ScanAssumption DEF ScanType, Minion
  <2>2. CASE due[m] \in {"done", "failed"} \/ jobs[m] > 0
    BY <1>1, <1>3, <2>1, <2>2 DEF Covered
  <2>3. CASE \E q \in Request \ {r} : scan[q].on /\ scan[q].last < m
    BY <1>5, <2>3 DEF Covered
  <2>4. CASE due[m] = "due" /\ scan[r].last < m
    <3>1. page # {} /\ (m \in page \/ \A top \in page : top < m)
      BY <1>1, <2>1, <2>4, PageIsFirst DEF page
    <3> QED BY <1>3, <1>4, <1>5, <2>1, <3>1 DEF Covered
  <2> QED BY <2>1, <2>2, <2>3, <2>4 DEF Covered
<1> QED BY <1>1, <1>6, <1>7

\* tableTask.Run: a job ends and the row is marked.
LEMMA RunTableStep ==
    ASSUME ScanInv, NEW m \in Minion, RunTable(m)
    PROVE  ScanInv'
<1> USE DEF ScanInv
<1>1. /\ UNCHANGED <<scan, promised>>
      /\ jobs' = [jobs EXCEPT ![m] = @ - 1] /\ jobs[m] > 0
  BY DEF RunTable
<1>2. \/ partial' = TRUE /\ UNCHANGED due
      \/ /\ UNCHANGED partial
         /\ \E result \in {"done", "failed"} :
               due' = [due EXCEPT ![m] = IF due[m] = "due" THEN result ELSE due[m]]
  BY DEF RunTable
<1>3. ScanType' /\ ScanFresh'
  BY <1>1, <1>2 DEF ScanType, ScanFresh
<1>4. \A x \in Minion : x # m => due'[x] = due[x] /\ jobs'[x] = jobs[x]
  BY <1>1, <1>2 DEF ScanType
<1>5. \A x \in promised : due'[x] # "none"
  BY <1>2 DEF ScanType
<1>6. ~partial' /\ m \in promised => ~partial /\ due'[m] \in {"done", "failed"}
  BY <1>2 DEF ScanType
<1>7. ASSUME NEW x \in promised, ~partial' PROVE Covered(x)'
  <2>1. CASE x = m
    BY <1>6, <1>7, <2>1 DEF Covered
  <2>2. CASE x # m
    <3>1. ~partial /\ x \in Minion
      BY <1>2, <1>7 DEF ScanType
    <3>2. Covered(x)
      BY <3>1
    <3> QED BY <1>1, <1>4, <2>2, <3>1, <3>2 DEF Covered
  <2> QED BY <2>1, <2>2
<1> QED BY <1>1, <1>3, <1>5, <1>7

\* agent_table.go: commands, pages, jobs and new rows, in any order.
LEMMA ScanStepInv == ScanInv /\ (ScanNext \/ UNCHANGED scanVars) => ScanInv'
<1> SUFFICES ASSUME ScanInv, ScanNext \/ UNCHANGED scanVars PROVE ScanInv'
  OBVIOUS
<1> USE DEF ScanInv
<1>1. ASSUME NEW r \in Request, TableTask(r) PROVE ScanInv'
  <2>1. /\ scan[r].last = 0 /\ UNCHANGED <<due, jobs, partial>>
        /\ promised' = promised \cup {m \in Minion : due[m] = "due"}
    BY <1>1 DEF TableTask, ScanFresh
  <2> DEFINE s == [scan[r] EXCEPT !.on = TRUE]
  <2>2. scan' = [scan EXCEPT ![r] = s] /\ scan[r] \in [on : BOOLEAN, last : Nat]
    BY <1>1 DEF TableTask, ScanType
  <2>3. ScanType' /\ ScanFresh' /\ scan'[r].on /\ scan'[r].last = 0
    <3>1. s \in [on : BOOLEAN, last : Nat] /\ s.on /\ s.last = 0
      BY <2>1, <2>2
    <3> HIDE DEF s
    <3> QED BY <2>1, <2>2, <3>1 DEF ScanType, ScanFresh
  <2>4. \A m \in Minion : Covered(m)'
    BY <2>3, ScanAssumption DEF Covered, Minion
  <2> QED BY <2>1, <2>3, <2>4 DEF ScanType
<1>2. ASSUME NEW r \in Request, ScanFails(r) PROVE ScanInv'
  BY <1>2 DEF ScanFails, ScanType, ScanFresh, NoScan
<1>3. ASSUME NEW m \in Minion, RowAdded(m) PROVE ScanInv'
  <2>1. m \notin promised /\ UNCHANGED <<scan, jobs, promised, partial>>
    BY <1>3 DEF RowAdded
  <2>2. ScanType' /\ ScanFresh' /\ \A x \in Minion : x # m => due'[x] = due[x]
    BY <1>3, <2>1 DEF RowAdded, ScanType, ScanFresh
  <2>3. \A x \in promised : due'[x] = due[x] /\ (Covered(x) => Covered(x)')
    BY <2>1, <2>2 DEF ScanType, Covered
  <2> QED BY <2>1, <2>2, <2>3
<1>4. CASE UNCHANGED scanVars
  BY <1>4 DEF scanVars, ScanType, ScanFresh, Covered
<1> QED BY <1>1, <1>2, <1>3, <1>4, ScanPageStep, RunTableStep DEF ScanNext, ScanStep

\* When nothing is under way, what is covered has been handled.
LEMMA ScanInvCovers == ScanInv => ScanCovers
  BY DEF ScanInv, ScanCovers, Covered, ScanType
-----------------------------------------------------------------------------
(* The services together. *)

ServicesInv ==
    /\ CollectInv /\ SysinfoInv /\ SbomInv /\ TagInv
    /\ UpgradeInv /\ ElkeidInv /\ UpdateInv
    /\ PushInv /\ ScanInv

\* A step of the broker is, for each service, one of its own steps or none.
LEMMA StepOfEach ==
    ASSUME [Next]_vars
    PROVE  /\ CollectNext \/ UNCHANGED collectVars
           /\ SysinfoNext \/ UNCHANGED sysinfoVars
           /\ SbomNext \/ UNCHANGED sbomVars
           /\ TagNext \/ UNCHANGED tagVars
           /\ UpgradeNext \/ UNCHANGED upgradeVars
           /\ ElkeidNext \/ UNCHANGED elkeidVars
           /\ UpdateNext \/ UNCHANGED updateVars
           /\ PushNext \/ UNCHANGED pushVars
           /\ ScanNext \/ UNCHANGED scanVars
<1>1. CASE Reporting
  BY <1>1 DEF Reporting, FileVars, TaskVars
<1>2. CASE Serving
  BY <1>2 DEF Serving, ReportVars, TaskVars
<1>3. CASE Dispatching
  BY <1>3 DEF Dispatching, ReportVars, FileVars
<1>4. CASE UNCHANGED vars
  BY <1>4 DEF vars, ReportVars, FileVars, TaskVars
<1> QED BY <1>1, <1>2, <1>3, <1>4 DEF Next

\* Every service keeps its invariant, whichever of them takes a step.
LEMMA ServicesInvariant == Spec => []ServicesInv
<1>1. Init => ServicesInv
  BY CollectInitInv, SysinfoInitInv, SbomInitInv, TagInitInv, UpgradeInitInv, ElkeidInitInv,
     UpdateInitInv, PushInitInv, ScanInitInv DEF Init, ServicesInv
<1>2. ServicesInv /\ [Next]_vars => ServicesInv'
  BY StepOfEach, CollectStepInv, SysinfoStepInv, SbomStepInv, TagStepInv, UpgradeStepInv,
     ElkeidStepInv, UpdateStepInv, PushStepInv, ScanStepInv DEF ServicesInv
<1> QED BY <1>1, <1>2, PTL DEF Spec

\* collect.go: with no report under way, and no failure or overlap since the table was last
\* replaced, the rows are what the agent reported, for any keys and rows.
THEOREM AssetsProved == Spec => []AssetsInSync
<1>1. ServicesInv => AssetsInSync
  BY DEF ServicesInv, CollectInv
<1> QED BY <1>1, ServicesInvariant, PTL

\* collect.go: a full report of ports or groups that ran alone and was answered with
\* success is stored as a whole.
THEOREM StoredProved == Spec => SuccessMeansStored
<1>1. ServicesInv /\ [Next]_vars =>
        [\A r \in Request :
            /\ kind \in {"listen", "group"} /\ report[r].op = "full" /\ report[r].alone
            /\ report'[r] = NoReport /\ ok'
            => table' = report[r].rows]_<<collectVars, faults>>
  <2> SUFFICES ASSUME ServicesInv, [Next]_vars, NEW r \in Request,
                      kind \in {"listen", "group"}, report[r].op = "full", report[r].alone,
                      report'[r] = NoReport, ok', ~UNCHANGED <<collectVars, faults>>
               PROVE  table' = report[r].rows
    OBVIOUS
  <2>1. CASE CollectNext
    BY <2>1, StoredStep DEF ServicesInv
  <2>2. CASE UNCHANGED collectVars
    <3>1. report'[r].op = "full"
      BY <2>2 DEF collectVars
    <3> QED BY <3>1 DEF NoReport
  <2> QED BY <2>1, <2>2, StepOfEach
<1> QED BY <1>1, ServicesInvariant, PTL DEF Spec, SuccessMeansStored

\* collect.go, tag.go: system information, software bills and tags are what was last
\* reported, up to the overlaps and dropped errors their parts name.
THEOREM ReportsProved == Spec => []ReportsKept
<1>1. ServicesInv => ReportsKept
  BY SbomSafe DEF ServicesInv, SysinfoInv, TagInv, EditAlone, TagsKept, ReportsKept
<1> QED BY <1>1, ServicesInvariant, PTL

\* upgrade.go: the count of downloads is exact and under its limit on every path, and a
\* push to all hands out only newer, stable, undeprecated binaries of the agent's edition.
THEOREM UpgradeProved == Spec => []UpgradeSafe
<1>1. ServicesInv => UpgradeSafe
  BY DEF ServicesInv, UpgradeInv, UpgradeSafe
<1> QED BY <1>1, ServicesInvariant, PTL

\* elkeid.go: one writer, no truncated file in the cache, and no mark without a holder but
\* after a failed request of its owner.
THEOREM CacheProved == Spec => []CacheSafe
<1>1. ServicesInv => CacheSafe
  BY ElkeidSafe DEF ServicesInv
<1> QED BY <1>1, ServicesInvariant, PTL

\* system.go: a broker that is down finds a complete executable behind its link, unless
\* updates overlapped or the link's removal was the last thing that happened.
THEOREM LinkProved == Spec => []LinkBootable
<1>1. ServicesInv => LinkBootable
  BY UpdateSafe DEF ServicesInv
<1> QED BY <1>1, ServicesInvariant, PTL

\* task.go: repeated and overlapping commands give no agent an execution twice and
\* overwrite no result, but for pushes whose outcome was not recorded; only a failed query
\* for the execution leaves its mark behind.
THEOREM PushProved == Spec => []PushSafe
<1>1. ServicesInv => PushSafe
  BY DEF ServicesInv, PushInv, PushSafe
<1> QED BY <1>1, ServicesInvariant, PTL

\* agent_table.go: whatever the number of minions and the size of a page, a scan without
\* failures leaves no row behind that was due when it began.
THEOREM ScanProved == Spec => []ScanCovers
<1>1. ServicesInv => ScanCovers
  BY ScanInvCovers DEF ServicesInv
<1> QED BY <1>1, ServicesInvariant, PTL

=============================================================================
