------------------------- MODULE ManagerLinksProofs -------------------------
(***************************************************************************)
(* Both clients of the manager implement ManagerLink, for any list of      *)
(* addresses and whatever the manager does at them.                        *)
(***************************************************************************)
EXTENDS ManagerLinks, TLAPS

(* telecom. *)

\* A connection exists exactly from the dial to the failed handshake or to Reconnect, and
\* the addresses dialled and in use are ones that are configured.
TelecomInv ==
    /\ TTypeOK
    /\ topen = IF tpc \in {"consult", "serving"} THEN 1 ELSE 0

\* client.go, daemon.go: the count of connections follows the client through all its paths.
LEMMA TelecomStepInv == TelecomInv /\ (TStep \/ TMuxBroken) => TelecomInv'
<1> SUFFICES ASSUME TelecomInv, TStep \/ TMuxBroken PROVE TelecomInv'
  OBVIOUS
<1> USE DEF TelecomInv, TTypeOK
<1>0. Len(TAddrs) \in Nat \ {0}
  BY TelecomAssumption
<1>1. ASSUME NextIndex PROVE index' \in 0..(Len(TAddrs) - 1)
  BY <1>0, <1>1 DEF NextIndex
<1>2. CASE Dial
  BY <1>0, <1>1, <1>2 DEF Dial
<1>3. CASE DialFails
  BY <1>1, <1>3 DEF DialFails
<1>4. CASE Consult \/ TMuxBroken \/ TClose
  BY <1>4 DEF Consult, TMuxBroken, TClose
<1>5. CASE ConsultFails
  BY <1>5 DEF ConsultFails
<1>6. CASE Reconnect
  BY <1>6 DEF Reconnect
<1> QED BY <1>2, <1>3, <1>4, <1>5, <1>6 DEF TStep

\* Every step of telecom is a step of the abstract link, or changes neither its state nor
\* its connection.
LEMMA TelecomRefines ==
    TelecomInv /\ (TStep \/ TMuxBroken) => [TLink!Next]_<<TState, topen>>
<1> SUFFICES ASSUME TelecomInv, TStep \/ TMuxBroken
             PROVE  TLink!Next \/ UNCHANGED <<TState, topen>>
  OBVIOUS
<1> USE DEF TelecomInv, TTypeOK, TState
<1>1. CASE Dial
  BY <1>1 DEF Dial, TLink!Next, TLink!Connect
<1>2. CASE DialFails
  BY <1>2 DEF DialFails, TLink!Next, TLink!End
<1>3. CASE Consult
  BY <1>3 DEF Consult, TLink!Next, TLink!Join
<1>4. CASE ConsultFails
  BY <1>4 DEF ConsultFails, TLink!Next, TLink!Fail, TLink!End
<1>5. CASE TMuxBroken \/ TClose
  BY <1>5 DEF TMuxBroken, TClose
<1>6. CASE Reconnect
  BY <1>6 DEF Reconnect, TLink!Next, TLink!Lose, TLink!End
<1> QED BY <1>1, <1>2, <1>3, <1>4, <1>5, <1>6 DEF TStep

(* clientd. *)

\* A connection exists exactly while the client authenticates and serves.
ClientdInv ==
    /\ cpc \in {"connect", "auth", "serving", "sleep", "ended"}
    /\ copen = IF cpc \in {"auth", "serving"} THEN 1 ELSE 0

\* open.go of clientd: the count of connections follows the client through all its paths.
LEMMA ClientdStepInv == ClientdInv /\ (CStep \/ CMuxBroken) => ClientdInv'
<1> SUFFICES ASSUME ClientdInv, CStep \/ CMuxBroken PROVE ClientdInv'
  OBVIOUS
<1> USE DEF ClientdInv
<1>1. TryNext => cpc' \in {"connect", "sleep"}
  BY DEF TryNext
<1>2. CASE OpenSMUX
  BY <1>1, <1>2 DEF OpenSMUX
<1>3. CASE Authenticated \/ Sleep
  BY <1>3 DEF Authenticated, Sleep
<1>4. CASE AuthFails
  BY <1>1, <1>4 DEF AuthFails
<1>5. CASE Keepalive \/ CMuxBroken
  BY <1>5 DEF Keepalive, CMuxBroken
<1>6. CASE ServeEnds
  BY <1>6 DEF ServeEnds
<1> QED BY <1>2, <1>3, <1>4, <1>5, <1>6 DEF CStep

\* Every step of clientd is a step of the abstract link, or changes neither its state nor
\* its connection.
LEMMA ClientdRefines ==
    ClientdInv /\ (CStep \/ CMuxBroken) => [CLink!Next]_<<CState, copen>>
<1> SUFFICES ASSUME ClientdInv, CStep \/ CMuxBroken
             PROVE  CLink!Next \/ UNCHANGED <<CState, copen>>
  OBVIOUS
<1> USE DEF ClientdInv, CState
<1>1. TryNext => cpc' \in {"connect", "sleep"}
  BY DEF TryNext
<1>2. CASE OpenSMUX
  BY <1>1, <1>2 DEF OpenSMUX, CLink!Next, CLink!Connect
<1>3. CASE Authenticated
  BY <1>3 DEF Authenticated, CLink!Next, CLink!Join
<1>4. CASE AuthFails
  BY <1>1, <1>4 DEF AuthFails, CLink!Next, CLink!Fail
<1>5. CASE Sleep
  BY <1>5 DEF Sleep, CLink!Next, CLink!End
<1>6. CASE Keepalive \/ CMuxBroken
  BY <1>6 DEF Keepalive, CMuxBroken
<1>7. CASE ServeEnds
  BY <1>7 DEF ServeEnds, CLink!Next, CLink!Lose
<1> QED BY <1>2, <1>3, <1>4, <1>5, <1>6, <1>7 DEF CStep

(* Both. *)

\* A step of the two brokers and the manager is, for each client, one of its own steps or
\* none: a change of the manager or a cancellation moves no client.
LEMMA StepOfEach ==
    ASSUME [Next]_vars
    PROVE  /\ TStep \/ TMuxBroken \/ UNCHANGED tvars
           /\ CStep \/ CMuxBroken \/ UNCHANGED cvars
<1>1. CASE TelecomStep
  BY <1>1 DEF TelecomStep
<1>2. CASE ClientdStep
  BY <1>2 DEF ClientdStep
<1>3. CASE Breaks
  BY <1>3 DEF Breaks
<1>4. CASE HostChanges \/ Cancel
  BY <1>4 DEF HostChanges, Cancel
<1>5. CASE UNCHANGED vars
  BY <1>5 DEF vars
<1> QED BY <1>1, <1>2, <1>3, <1>4, <1>5 DEF Next

\* Both clients keep their invariants beside each other.
LEMMA LinksInvariant == Spec => [](TelecomInv /\ ClientdInv)
<1>1. Init => TelecomInv /\ ClientdInv
  BY TelecomAssumption DEF Init, TInit, CInit, TelecomInv, TTypeOK, ClientdInv
<1>2. TelecomInv /\ [Next]_vars => TelecomInv'
  <2>1. TelecomInv /\ UNCHANGED tvars => TelecomInv'
    BY DEF TelecomInv, TTypeOK, tvars
  <2> QED BY <2>1, StepOfEach, TelecomStepInv
<1>3. ClientdInv /\ [Next]_vars => ClientdInv'
  <2>1. ClientdInv /\ UNCHANGED cvars => ClientdInv'
    BY DEF ClientdInv, cvars
  <2> QED BY <2>1, StepOfEach, ClientdStepInv
<1> QED BY <1>1, <1>2, <1>3, PTL DEF Spec

\* telecom keeps what ManagerLink promises: one connection at most, closed before the next
\* one is dialled and closed when the link ends, on every path of dial, handshake and serve.
THEOREM TelecomLinkProved == Spec => TelecomImplementsLink
<1>1. Init => TLink!Init
  BY DEF Init, TInit, TLink!Init, TState
<1>2. TelecomInv /\ [Next]_vars => [TLink!Next]_<<TState, topen>>
  <2>1. UNCHANGED tvars => UNCHANGED <<TState, topen>>
    BY DEF tvars, TState
  <2> QED BY <2>1, StepOfEach, TelecomRefines
<1> QED BY <1>1, <1>2, LinksInvariant, PTL DEF Spec, TelecomImplementsLink, TLink!Spec

\* clientd keeps what ManagerLink promises, its list of addresses and back-off included.
THEOREM ClientdLinkProved == Spec => ClientdImplementsLink
<1>1. Init => CLink!Init
  BY DEF Init, CInit, CLink!Init, CState
<1>2. ClientdInv /\ [Next]_vars => [CLink!Next]_<<CState, copen>>
  <2>1. UNCHANGED cvars => UNCHANGED <<CState, copen>>
    BY DEF cvars, CState
  <2> QED BY <2>1, StepOfEach, ClientdRefines
<1> QED BY <1>1, <1>2, LinksInvariant, PTL DEF Spec, ClientdImplementsLink, CLink!Spec
=============================================================================
