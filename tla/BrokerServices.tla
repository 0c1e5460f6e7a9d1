--------------------------- MODULE BrokerServices ---------------------------
(***************************************************************************)
(* The services of one broker process that share no state with one         *)
(* another.  A history follows one of them, `service`: with disjoint       *)
(* state, what holds of each alone holds of all together.                  *)
(***************************************************************************)
EXTENDS Collect, Sysinfo, Sbom, MinionTags,
        AgentUpgrade, ElkeidFS, SystemUpdate, TaskPush, TableScan

VARIABLES
    service     \* the service this history is about

ReportVars == <<collectVars, sysinfoVars, sbomVars, tagVars>>
FileVars == <<upgradeVars, elkeidVars, updateVars>>
TaskVars == <<pushVars, scanVars>>

vars == <<service, faults, ReportVars, FileVars, TaskVars>>

Init ==
    /\ service \in {"collect", "sysinfo", "sbom", "tags", "upgrade", "elkeid", "update",
                    "push", "scan"}
    /\ CollectInit /\ SysinfoInit /\ SbomInit /\ TagInit
    /\ UpgradeInit /\ ElkeidInit /\ UpdateInit
    /\ PushInit /\ ScanInit
    \* one initial state for the services that are not looked at
    /\ service # "collect" => table = Empty /\ kind = CHOOSE k \in Kinds : TRUE
    /\ service # "tags" => tags = {}
    /\ service # "upgrade" => deprecated = {}
    /\ service # "scan" => due = [m \in Minion |-> "none"]

Reporting ==
    /\ \/ /\ service = "collect" /\ CollectNext
          /\ UNCHANGED <<sysinfoVars, sbomVars, tagVars>>
       \/ /\ service = "sysinfo" /\ SysinfoNext
          /\ UNCHANGED <<collectVars, sbomVars, tagVars>>
       \/ /\ service = "sbom" /\ SbomNext
          /\ UNCHANGED <<collectVars, sysinfoVars, tagVars>>
       \/ /\ service = "tags" /\ TagNext
          /\ UNCHANGED <<collectVars, sysinfoVars, sbomVars>>
    /\ UNCHANGED <<FileVars, TaskVars>>

Serving ==
    /\ \/ service = "upgrade" /\ UpgradeNext /\ UNCHANGED <<elkeidVars, updateVars>>
       \/ service = "elkeid" /\ ElkeidNext /\ UNCHANGED <<upgradeVars, updateVars>>
       \/ service = "update" /\ UpdateNext /\ UNCHANGED <<upgradeVars, elkeidVars>>
    /\ UNCHANGED <<ReportVars, TaskVars>>

Dispatching ==
    /\ \/ service = "push" /\ PushNext /\ UNCHANGED scanVars
       \/ service = "scan" /\ ScanNext /\ UNCHANGED pushVars
    /\ UNCHANGED <<ReportVars, FileVars>>

Next == UNCHANGED service /\ (Reporting \/ Serving \/ Dispatching)

Spec == Init /\ [][Next]_vars
-----------------------------------------------------------------------------
(* Properties. *)

\* What agents report outside the asset tables is kept: system information, software bills
\* and tags, each up to the overlaps and dropped errors its own part names.
ReportsKept == SysinfoInSync /\ SbomConsistent /\ TagsKept
=============================================================================
