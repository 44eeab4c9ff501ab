------------------------------ MODULE Custody ------------------------------
(***************************************************************************)
(* What the supervisor promises of the containers in its keeping.  It      *)
(* gives the engine one order at a time, about one container: to remove,   *)
(* to stop or to start it.  An order follows from what is declared of that *)
(* container when it is given and from how the container is by then; what  *)
(* is declared afterwards does not change it.  Nothing else happens to a   *)
(* container but that it exits on its own.  A restart that was asked for   *)
(* is forgotten only when there is nothing left to restart, or when the    *)
(* container is started or declared anew.                                  *)
(***************************************************************************)
CONSTANTS
  Names,   \* of containers
  Labels,  \* what containers are created from
  None     \* no label, no name

VARIABLES
  made,      \* the container of each name
  declared,  \* what each name is declared to be
  asks,      \* names whose restart was asked for
  doomed,    \* names whose undeclared container a removal was ordered of, and
             \* that have one still, for as long as the pass goes by it
  order      \* what the engine was told and has not done yet

vars == <<made, declared, asks, doomed, order>>

Absent     == [state |-> "absent", label |-> None]
Undeclared == [state |-> "none", label |-> None]
NoOrder    == [act |-> "none", name |-> None, label |-> None]

Declarations == {Undeclared} \cup [state : {"stopped", "running"}, label : Labels]

Runs(n)   == made[n].state = "up"
Exists(n) == made[n].state # "absent"

Init ==
  /\ made = [n \in Names |-> Absent]
  /\ declared = [n \in Names |-> Undeclared]
  /\ asks = {} /\ doomed = {}
  /\ order = NoOrder

-----------------------------------------------------------------------------
(* What is asked of the supervisor.                                        *)

(* A start or a stop.  A start stands in for a restart asked for earlier.  *)
Say(n, state) ==
  /\ declared[n].state # "none"
  /\ declared' = [declared EXCEPT ![n].state = state]
  /\ asks' = IF state = "running" THEN asks \ {n} ELSE asks
  /\ UNCHANGED <<made, doomed, order>>

AskRestart(n) ==
  /\ asks' = asks \cup {n}
  /\ UNCHANGED <<made, declared, doomed, order>>

(* Declarations change.  A restart outlives that, but for a container that *)
(* is to go, or does not run.                                              *)
Declare ==
  /\ declared' \in [Names -> Declarations]
  /\ asks' \in SUBSET asks
  /\ \A n \in asks \ asks' :
       Runs(n) => declared'[n].state = "none" \/ declared'[n].label # declared[n].label
  /\ UNCHANGED <<made, doomed, order>>

-----------------------------------------------------------------------------
(* The orders it gives.                                                    *)

Give(act, n, label) ==
  /\ order = NoOrder
  /\ order' = [act |-> act, name |-> n, label |-> label]
  /\ UNCHANGED <<made, declared>>

Clear(n) ==
  /\ Exists(n) /\ declared[n].state = "none"
  /\ Give("remove", n, None)
  /\ doomed' = doomed \cup {n}
  /\ UNCHANGED asks

Replace(n) ==
  /\ Exists(n) /\ declared[n].state # "none" /\ made[n].label # declared[n].label
  /\ Give("remove", n, None)
  /\ UNCHANGED <<asks, doomed>>

Stop(n) ==
  /\ Exists(n) /\ made[n].label = declared[n].label
  /\ declared[n].state = "stopped" \/ (declared[n].state = "running" /\ n \in asks)
  /\ Give("stop", n, None)
  /\ UNCHANGED <<asks, doomed>>

(* Of a container that is not there, does not run, or was to be removed    *)
(* before its name was declared again.                                     *)
Start(n) ==
  /\ declared[n].state = "running"
  /\ Exists(n) /\ n \notin doomed => ~ Runs(n) /\ made[n].label = declared[n].label
  /\ Give("start", n, declared[n].label)
  /\ asks' = asks \ {n}
  /\ UNCHANGED doomed

(* There is nothing to restart; the pass is done with n. *)
Forget(n) ==
  /\ n \in asks => ~ Runs(n) \/ n \in doomed
  /\ asks' = asks \ {n}
  /\ doomed' \in {doomed, doomed \ {n}}
  /\ UNCHANGED <<made, declared, order>>

(* The pass is done with what it failed to remove. *)
Spare ==
  /\ doomed' \in SUBSET doomed
  /\ UNCHANGED <<made, declared, asks, order>>

-----------------------------------------------------------------------------
(* What happens to containers.                                             *)

Down(c) == IF c.state = "up" THEN [c EXCEPT !.state = "down"] ELSE c

(* What the order leaves of c: done, done in part, or not at all. *)
Leaves(c) ==
  CASE order.act = "remove" -> {c, Down(c), Absent}
    [] order.act = "stop"   -> {c, Down(c)}
    [] order.act = "start"  -> {c, Absent} \cup [state : {"down", "up"}, label : {order.label}]

Obey ==
  /\ order # NoOrder
  /\ \E c \in Leaves(made[order.name]) :
       /\ made' = [made EXCEPT ![order.name] = c]
       /\ doomed' = IF order.act = "remove" /\ c # Absent THEN doomed
                    ELSE doomed \ {order.name}
  /\ order' = NoOrder
  /\ UNCHANGED <<declared, asks>>

Exit(n) ==
  /\ Runs(n)
  /\ made' = [made EXCEPT ![n] = Down(@)]
  /\ UNCHANGED <<declared, asks, doomed, order>>

Next ==
  \/ Declare \/ Obey \/ Spare
  \/ \E n \in Names :
       \/ Say(n, "running") \/ Say(n, "stopped") \/ AskRestart(n)
       \/ Clear(n) \/ Replace(n) \/ Stop(n) \/ Start(n) \/ Forget(n)
       \/ Exit(n)

Spec == Init /\ [][Next]_vars
=============================================================================
