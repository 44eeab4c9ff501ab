-------------------------- MODULE SupervisorClaims --------------------------
(***************************************************************************)
(* What the comments and the README of mica-containerd say of the          *)
(* supervisor, and what the code does otherwise in some behaviour.         *)
(***************************************************************************)
EXTENDS Supervisor

(* "Start makes a container desired running and starts it now": while the  *)
(* start has not been carried out (it waits for a dependency, the engine   *)
(* refused it, or a listing from before it still shows the container       *)
(* running), the container is not taken for one that exited and is to stay *)
(* so.                                                                     *)
StartIsKept == \A n \in wanted : track[n].phase # "exited"

(* "A stop through the API holds until a start, a restart of the daemon    *)
(* included": a container whose stop was answered, with no start asked for *)
(* since, is declared stopped.                                             *)
StopHolds ==
  \A n \in Names : Up /\ records[n] # None /\ asked[n] = {"stopped"} =>
    records[n].desired = "stopped"

(* Whether a stopped container is restarted follows from its restart       *)
(* policy: one whose policy is "always" does not stay exited.              *)
PolicyDecides ==
  \A n \in Names :
    <>[](Up /\ records[n] # None) =>
      <>[](~ (/\ records[n] # None /\ records[n].desired = "running"
              /\ Sp(n).policy = "always" /\ track[n].phase = "exited"))
=============================================================================
