---------------------------- MODULE AtomicStore ----------------------------
(***************************************************************************)
(* What package store promises of the files it keeps one value in each: a  *)
(* reader finds the value before a call or the one after it, whatever      *)
(* happens during the call, and a call that was acknowledged holds after a *)
(* power failure too.                                                      *)
(***************************************************************************)
CONSTANTS
  Keys,    \* what values are kept under
  Values,  \* the values
  None     \* no value, no call

VARIABLES
  value,  \* what a reader finds under each key
  left,   \* what a power failure may leave under each key
  call,   \* the call in progress: its key and the value it puts (None: deletes)
  acked   \* for each key, what the last call that succeeded put, if it stands

vars == <<value, left, call, acked>>

Init ==
  /\ value \in [Keys -> Values \cup {None}]
  /\ left = [k \in Keys |-> {value[k]}]
  /\ call = None
  /\ acked = [k \in Keys |-> {}]

Begin(k, v) ==
  /\ call = None
  /\ call' = [key |-> k, value |-> v]
  /\ UNCHANGED <<value, left, acked>>

(* The one instant at which readers see the change. *)
Take ==
  /\ call # None
  /\ value' = [value EXCEPT ![call.key] = call.value]
  /\ left' = [left EXCEPT ![call.key] = @ \cup {call.value}]
  /\ acked' = [acked EXCEPT ![call.key] = {}]
  /\ UNCHANGED call

(* What readers see of some keys becomes what a power failure leaves. *)
Settle(K) ==
  /\ left' = [k \in Keys |-> IF k \in K THEN {value[k]} ELSE left[k]]
  /\ UNCHANGED <<value, call, acked>>

(* A call that succeeds holds whatever happens next. *)
Acknowledge ==
  /\ call # None
  /\ value[call.key] = call.value
  /\ left[call.key] = {call.value}
  /\ acked' = [acked EXCEPT ![call.key] = {call.value}]
  /\ call' = None
  /\ UNCHANGED <<value, left>>

(* A call that fails, that the daemon does not live to finish, or that     *)
(* deletes what was not there.                                             *)
Abandon ==
  /\ call # None /\ call' = None
  /\ UNCHANGED <<value, left, acked>>

PowerFailure ==
  /\ value' \in [Keys -> Values \cup {None}]
  /\ \A k \in Keys : value'[k] \in left[k]
  /\ left' = [k \in Keys |-> {value'[k]}]
  /\ call' = None
  /\ UNCHANGED acked

Next ==
  \/ \E k \in Keys, v \in Values \cup {None} : Begin(k, v)
  \/ Take
  \/ \E K \in SUBSET Keys : Settle(K)
  \/ Acknowledge \/ Abandon \/ PowerFailure

Spec == Init /\ [][Next]_vars
=============================================================================
