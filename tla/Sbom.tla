-------------------------------- MODULE Sbom --------------------------------
(***************************************************************************)
(* The software bill of one file of one minion: collectREST.Sbom rewrites  *)
(* a project row and its component rows in separate statements.            *)
(***************************************************************************)
EXTENDS Requests, Sequences

CONSTANTS
    Checksums,    \* contents the file may have
    Packages,     \* (external) checksum -> the packages the agent lists, [name, version]
    NoVersion,    \* version of a package whose purl has no "@"
    MaxProjects   \* bound: project rows ever inserted

VARIABLES
    projects,    \* SBOMProject: id -> checksum (autoincremented ids)
    inserted,    \* project ids given out
    components,  \* SBOMComponent: {[project, purl]}
    sbom,        \* request -> its progress
    final,       \* ghost: the report that was answered last, and how
    crossed,     \* ghost: two reports overlapped
    lost         \* ghost: a dropped error, or component rows that failed after their project

sbomVars == <<projects, inserted, components, sbom, final, crossed, lost>>

NoSbom == [pc |-> "idle", sum |-> "none", project |-> 0]

SbomInit ==
    /\ projects = [id \in {} |-> "none"] /\ inserted = 0
    /\ components = {}
    /\ sbom = [r \in Request |-> NoSbom]
    /\ final = [sum |-> "none", ok |-> FALSE]
    /\ crossed = FALSE /\ lost = FALSE
    /\ faults = 0

\* SbomRequest.Components: a purl without version is version 0.0.0; duplicates are dropped.
Purl(sdk) == IF sdk.version = NoVersion THEN [sdk EXCEPT !.version = "0.0.0"] ELSE sdk
Components(sum) == {Purl(Packages[sum][i]) : i \in DOMAIN Packages[sum]}

SbomQuiet == \A r \in Request : sbom[r].pc = "idle"
Without(id) == [p \in DOMAIN projects \ {id} |-> projects[p]]

Goto(r, pc) == sbom' = [sbom EXCEPT ![r].pc = pc] /\ UNCHANGED final
Reply(r, success) ==
    /\ sbom' = [sbom EXCEPT ![r] = NoSbom]
    /\ final' = [sum |-> sbom[r].sum, ok |-> success]

SbomArrives(r, sum) ==
    /\ sbom[r].pc = "idle"
    /\ sbom' = [sbom EXCEPT ![r] = [NoSbom EXCEPT !.pc = "first", !.sum = sum]]
    /\ crossed' = (crossed \/ ~SbomQuiet)
    /\ UNCHANGED <<projects, inserted, components, final, lost, faults>>

\* The query for the old project: none, one with this checksum, another one, or an error.
FindProject(r) ==
    /\ sbom[r].pc = "first"
    /\ \/ /\ DOMAIN projects = {}
          /\ Goto(r, "project")
          /\ UNCHANGED faults
       \/ \E id \in DOMAIN projects :
             /\ \A other \in DOMAIN projects : id <= other
             /\ IF projects[id] = sbom[r].sum THEN Reply(r, TRUE)
                ELSE /\ sbom' = [sbom EXCEPT ![r] = [@ EXCEPT !.pc = "delproject", !.project = id]]
                     /\ UNCHANGED final
             /\ UNCHANGED faults
       \/ Fails /\ Reply(r, FALSE)
    /\ UNCHANGED <<projects, inserted, components, crossed, lost>>

\* The two DELETEs, whose errors are dropped.
DelProject(r) ==
    /\ sbom[r].pc = "delproject"
    /\ Goto(r, "delcomponents")
    /\ \/ projects' = Without(sbom[r].project) /\ UNCHANGED <<lost, faults>>
       \/ Fails /\ lost' = TRUE /\ UNCHANGED projects
    /\ UNCHANGED <<inserted, components, crossed>>

DelComponents(r) ==
    /\ sbom[r].pc = "delcomponents"
    /\ Goto(r, "project")
    /\ \/ /\ components' = {c \in components : c.project # sbom[r].project}
          /\ UNCHANGED <<lost, faults>>
       \/ Fails /\ lost' = TRUE /\ UNCHANGED components
    /\ UNCHANGED <<projects, inserted, crossed>>

\* Variant of InsertProject that answers an error with success.
InsertProjectLogged(r) ==
    /\ sbom[r].pc = "project"
    /\ \/ /\ inserted < MaxProjects /\ inserted' = inserted + 1
          /\ projects' = [id \in DOMAIN projects \cup {inserted'} |->
                             IF id = inserted' THEN sbom[r].sum ELSE projects[id]]
          /\ sbom' = [sbom EXCEPT ![r] = [@ EXCEPT !.pc = "components", !.project = inserted']]
          /\ UNCHANGED <<final, faults>>
       \/ Fails /\ Reply(r, TRUE) /\ UNCHANGED <<projects, inserted>>
    /\ UNCHANGED <<components, crossed, lost>>

\* sbomInsert: the project, then its components.
InsertProject(r) ==
    /\ sbom[r].pc = "project"
    /\ \/ /\ inserted < MaxProjects /\ inserted' = inserted + 1
          /\ projects' = [id \in DOMAIN projects \cup {inserted'} |->
                             IF id = inserted' THEN sbom[r].sum ELSE projects[id]]
          /\ sbom' = [sbom EXCEPT ![r] = [@ EXCEPT !.pc = "components", !.project = inserted']]
          /\ UNCHANGED <<final, faults>>
       \/ Fails /\ Reply(r, FALSE) /\ UNCHANGED <<projects, inserted>>
    /\ UNCHANGED <<components, crossed, lost>>

InsertComponents(r) ==
    /\ sbom[r].pc = "components"
    /\ \/ /\ components' = components \cup
                {[project |-> sbom[r].project, purl |-> p] : p \in Components(sbom[r].sum)}
          /\ Reply(r, TRUE)
          /\ UNCHANGED <<lost, faults>>
       \/ /\ Fails /\ lost' = TRUE
          /\ Reply(r, FALSE)
          /\ UNCHANGED components
    /\ UNCHANGED <<projects, inserted, crossed>>

SbomStep ==
    \E r \in Request :
        FindProject(r) \/ DelProject(r) \/ DelComponents(r) \/ InsertProject(r)
            \/ InsertComponents(r)

SbomNext == SbomStep \/ \E r \in Request, sum \in Checksums : SbomArrives(r, sum)
-----------------------------------------------------------------------------
(* Properties. *)

\* While reports of the file do not overlap, a success answer leaves one project with the
\* reported checksum and exactly its components, even when earlier reports failed in the
\* query or in the insert of the project.  (Two cases are excluded because the code cannot
\* recover from them: a dropped error of a DELETE, and components that failed to be stored
\* after their project, whose unchanged checksum makes every later report skip them.)
SbomConsistent ==
    SbomQuiet /\ ~crossed /\ ~lost /\ final.ok =>
        \E id \in DOMAIN projects :
            /\ projects = [p \in {id} |-> final.sum]
            /\ components = {[project |-> id, purl |-> p] : p \in Components(final.sum)}
=============================================================================
