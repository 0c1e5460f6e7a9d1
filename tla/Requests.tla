------------------------------ MODULE Requests ------------------------------
(***************************************************************************)
(* What the services of the broker share in their models: requests, or     *)
(* jobs of the pool, that are under way together, and statements, file     *)
(* operations and messages that may fail.                                  *)
(***************************************************************************)
EXTENDS Naturals, FiniteSets

CONSTANTS
    Request,    \* requests and jobs that may be under way together
    MaxFaults   \* bound: failures

VARIABLES
    faults      \* failures so far

ASSUME FaultAssumption == MaxFaults \in Nat
ASSUME RequestAssumption == IsFiniteSet(Request)

Fails == faults < MaxFaults /\ faults' = faults + 1
=============================================================================
