---------------------------- MODULE SystemUpdate ----------------------------
(***************************************************************************)
(* The broker replaces its own executable and exits, to be started again   *)
(* through the link ssoc-broker: appv2/manager/mservice/system.go.         *)
(***************************************************************************)
EXTENDS Requests

CONSTANTS
    Versions,   \* rows of broker_bin, by semver weight
    Current     \* the version that runs at first

VARIABLES
    disk,      \* executable -> "none", "part", "whole"
    link,      \* what the link names, or NoLink
    running,   \* the version that runs, 0 when the process is down
    update,    \* request -> its progress
    together,  \* ghost: two updates were under way together
    cut        \* ghost: the process ended between Remove and Symlink, or Symlink failed

updateVars == <<disk, link, running, update, together, cut>>

ASSUME UpdateAssumption == Current \in Versions /\ Versions \subseteq Nat \ {0}

\* saveFile: bin.Name, and bin.Name-ID when that exists.
Exe == Versions \X {"name", "name-id"}
NoLink == <<0, "none">>
NoUpdate == [pc |-> "idle", exe |-> NoLink, mine |-> TRUE]

UpdateInit ==
    /\ disk = [e \in Exe |-> IF e = <<Current, "name">> THEN "whole" ELSE "none"]
    /\ link = <<Current, "name">>
    /\ running = Current
    /\ update = [r \in Request |-> NoUpdate]
    /\ together = FALSE /\ cut = FALSE
    /\ faults = 0

UpdateEnds(r) == update' = [update EXCEPT ![r] = NoUpdate]

\* Update up to the copy: the flag only logs a second command.  The version asked for is
\* not the running one, or the newest above it is taken; saveFile creates the file under
\* its first name, else under the second, which it removes first (a writer that had it open
\* loses it).  Other failures before the copy change nothing.
SaveFile(r, v) ==
    /\ running # 0 /\ update[r].pc = "idle" /\ v # running
    /\ LET first == disk[<<v, "name">>] = "none"
           exe == <<v, IF first THEN "name" ELSE "name-id">> IN
       /\ disk' = [disk EXCEPT ![exe] = "part"]
       /\ update' = [x \in Request |->
             IF x = r THEN [pc |-> "copy", exe |-> exe, mine |-> TRUE]
             ELSE IF update[x].exe = exe THEN [update[x] EXCEPT !.mine = FALSE]
             ELSE update[x]]
    /\ together' = (together \/ \E x \in Request : update[x].pc # "idle")
    /\ UNCHANGED <<link, running, cut, faults>>

\* Variant of Copy that drops the error of io.Copy.
CopyUnchecked(r) ==
    /\ update[r].pc = "copy"
    /\ update' = [update EXCEPT ![r].pc = "remove"]
    /\ UNCHANGED <<disk, link, running, together, cut, faults>>

\* io.Copy: the file is complete, or Update returns and leaves what was written.
Copy(r) ==
    /\ update[r].pc = "copy"
    /\ \/ /\ disk' = IF update[r].mine THEN [disk EXCEPT ![update[r].exe] = "whole"] ELSE disk
          /\ update' = [update EXCEPT ![r].pc = "remove"]
          /\ UNCHANGED faults
       \/ Fails /\ UpdateEnds(r) /\ UNCHANGED disk
    /\ UNCHANGED <<link, running, together, cut>>

\* os.Remove of the link; an error other than its absence returns.
RemoveLink(r) ==
    /\ update[r].pc = "remove"
    /\ \/ link' = NoLink /\ update' = [update EXCEPT ![r].pc = "symlink"] /\ UNCHANGED faults
       \/ Fails /\ UpdateEnds(r) /\ UNCHANGED link
    /\ UNCHANGED <<disk, running, together, cut>>

\* os.Symlink, whose error (it fails when the link exists) is only logged.
Symlink(r) ==
    /\ update[r].pc = "symlink"
    /\ update' = [update EXCEPT ![r].pc = "exit"]
    /\ \/ /\ link' = IF link = NoLink THEN update[r].exe ELSE link
          /\ UNCHANGED <<cut, faults>>
       \/ Fails /\ cut' = TRUE /\ UNCHANGED link
    /\ UNCHANGED <<disk, running, together>>

\* os.Exit, whoever calls it: no deferred function runs, and the updates under way are cut off.
Stops ==
    /\ running' = 0
    /\ cut' = (cut \/ \E r \in Request : update[r].pc = "symlink")
    /\ update' = [r \in Request |-> NoUpdate]
    /\ UNCHANGED <<disk, link, together, faults>>

\* The end of Update: the process exits, other updates included.
UpdateExit(r) == update[r].pc = "exit" /\ Stops

\* Exit on the manager's command, or a crash, at any time.
ProcessExit == running # 0 /\ Stops

\* External: the supervisor starts what the link names, if it can be run.
Boot ==
    /\ running = 0 /\ link # NoLink /\ disk[link] = "whole"
    /\ running' = link[1]
    /\ UNCHANGED <<disk, link, update, together, cut, faults>>

UpdateNext ==
    \/ \E r \in Request :
          \/ \E v \in Versions : SaveFile(r, v)
          \/ Copy(r) \/ RemoveLink(r) \/ Symlink(r) \/ UpdateExit(r)
    \/ ProcessExit \/ Boot
-----------------------------------------------------------------------------
(* Properties. *)

\* A broker that is down can be started: whatever fails and whenever it exits or crashes,
\* the link names a complete executable, unless updates were under way together or the
\* process ended (or Symlink failed) while the link was removed.
LinkBootable ==
    running = 0 /\ ~together /\ ~cut => link # NoLink /\ disk[link] = "whole"
=============================================================================
