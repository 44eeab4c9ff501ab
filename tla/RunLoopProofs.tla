--------------------------- MODULE RunLoopProofs ---------------------------
(***************************************************************************)
(* Proofs about the run loop: no change of a declaration and no event is   *)
(* lost, for any number of changes, failing listings and broken streams.   *)
(***************************************************************************)
EXTENDS RunLoop, TLAPS

(* Events are only received of a process that is connected or has ended,   *)
(* and the stream is only started again once they all were.                *)
Backlogs ==
  /\ backlog > 0 => stream \in {"up", "ended"}
  /\ loop = "restart" => stream \in {"broken", "nil"}

IInv == TypeOK /\ Backlogs /\ NoLostWake /\ NoLostEvent

(* A bound that is spent stays a bound. *)
LEMMA SpendType ==
  ASSUME TypeOK, NEW what \in {"declarations", "containers", "faults", "breaks"}, Spend(what)
  PROVE  budget' \in [declarations : Nat, containers : Nat, faults : Nat, breaks : Nat]
BY DEF TypeOK, Spend

(* Nothing is lost at the start: the first pass is to come. *)
LEMMA InitIInv == Init => IInv
<1> SUFFICES ASSUME Init PROVE IInv
  OBVIOUS
<1>1. TypeOK
  <2>1. budget \in [declarations : Nat, containers : Nat, faults : Nat, breaks : Nat]
    BY BoundsAssumption DEF Init
  <2>2. unlisted \subseteq {"told", "untold"} /\ unread \in BOOLEAN /\ failed \in BOOLEAN
    BY DEF Init
  <2> QED BY <2>1, <2>2 DEF Init, TypeOK, Streams
<1>2. Backlogs
  BY DEF Init, Backlogs
<1>3. NoLostWake /\ NoLostEvent
  BY Zenon DEF Init, NoLostWake, NoLostEvent
<1> QED BY <1>1, <1>2, <1>3 DEF IInv

(* A step of Run loses nothing. *)
LEMMA RunIInv == ASSUME IInv, Run PROVE IInv'
<1> USE DEF IInv, TypeOK, Backlogs, NoLostWake, NoLostEvent, Streams
<1>1. CASE List
  BY <1>1 DEF List
<1>2. CASE ListFails
  <2>1. budget' \in [declarations : Nat, containers : Nat, faults : Nat, breaks : Nat]
    BY <1>2, SpendType DEF ListFails
  <2> QED BY <1>2, <2>1 DEF ListFails
<1>3. CASE ReadDeclarations
  BY <1>3 DEF ReadDeclarations
<1>4. CASE EndPass
  BY <1>4 DEF EndPass, Wait
<1>5. CASE Woken
  BY <1>5 DEF Woken
<1>6. CASE TimerFires
  BY <1>6 DEF TimerFires
<1>7. CASE ReceiveEvent
  BY <1>7 DEF ReceiveEvent
<1>8. CASE EventsClosed
  BY <1>8 DEF EventsClosed
<1>9. CASE ReceiveError
  BY <1>9 DEF ReceiveError
<1>10. CASE RestartEvents
  BY <1>10 DEF RestartEvents
<1> QED BY <1>1, <1>2, <1>3, <1>4, <1>5, <1>6, <1>7, <1>8, <1>9, <1>10 DEF Run

(* Nor does a step of the stream, of a container or of the API. *)
LEMMA OutsideIInv ==
  ASSUME IInv, Connected \/ ProcessEnds \/ SendError \/ ContainerChanges \/ DeclarationChanges
  PROVE  IInv'
<1> USE DEF IInv, TypeOK, Backlogs, NoLostWake, NoLostEvent, Streams
<1>1. CASE Connected
  BY <1>1 DEF Connected
<1>2. CASE ProcessEnds
  <2>1. budget' \in [declarations : Nat, containers : Nat, faults : Nat, breaks : Nat]
    BY <1>2, SpendType DEF ProcessEnds
  <2> QED BY <1>2, <2>1 DEF ProcessEnds
<1>3. CASE SendError
  BY <1>3 DEF SendError
<1>4. CASE ContainerChanges
  <2>1. budget' \in [declarations : Nat, containers : Nat, faults : Nat, breaks : Nat]
    BY <1>4, SpendType DEF ContainerChanges
  <2>2. UNCHANGED <<loop, wake, timer, stream, unread, failed>>
    BY <1>4 DEF ContainerChanges
  <2>3. CASE stream = "up" /\ backlog' = backlog + 1 /\ unlisted' = unlisted \cup {"told"}
    <3>1. backlog' \in Nat /\ backlog' > 0 /\ unlisted' \subseteq {"told", "untold"}
      BY <2>3
    <3> QED BY <2>1, <2>2, <2>3, <3>1
  <2>4. CASE backlog' = backlog /\ unlisted' = unlisted \cup {"untold"}
    <3>1. unlisted' \subseteq {"told", "untold"} /\ ("told" \in unlisted' <=> "told" \in unlisted)
      BY <2>4
    <3> QED BY <2>1, <2>2, <2>4, <3>1
  <2> QED BY <1>4, <2>3, <2>4 DEF ContainerChanges
<1>5. CASE DeclarationChanges
  <2>1. budget' \in [declarations : Nat, containers : Nat, faults : Nat, breaks : Nat]
    BY <1>5, SpendType DEF DeclarationChanges
  <2> QED BY <1>5, <2>1 DEF DeclarationChanges, Poke
<1> QED BY <1>1, <1>2, <1>3, <1>4, <1>5

(* The inductive invariant. *)
LEMMA Inductive == Spec => []IInv
<1>1. IInv /\ [Next]_vars => IInv'
  <2> SUFFICES ASSUME IInv, [Next]_vars PROVE IInv'
    OBVIOUS
  <2>1. CASE UNCHANGED vars
    BY <2>1 DEF vars, IInv, TypeOK, Backlogs, NoLostWake, NoLostEvent
  <2> QED BY <2>1, RunIInv, OutsideIInv DEF Next
<1> QED BY <1>1, InitIInv, PTL DEF Spec

(* The wake channel of one token and the non-blocking poke lose no change  *)
(* of a declaration, at whatever moment of Run it comes.                   *)
THEOREM NoWakeLost == Spec => []NoLostWake
<1>1. IInv => NoLostWake
  BY DEF IInv
<1> QED BY <1>1, Inductive, PTL

(* No event that podman told is dropped, not even those still on their way *)
(* when the stream ends.                                                   *)
THEOREM NoEventLost == Spec => []NoLostEvent
<1>1. IInv => NoLostEvent
  BY DEF IInv
<1> QED BY <1>1, Inductive, PTL

(* Every variable keeps its type: the wake channel never holds more than   *)
(* its one token.                                                          *)
THEOREM TypeCorrect == Spec => []TypeOK
<1>1. IInv => TypeOK
  BY DEF IInv
<1> QED BY <1>1, Inductive, PTL
=============================================================================
