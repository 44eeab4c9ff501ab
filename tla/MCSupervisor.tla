---------------------------- MODULE MCSupervisor ----------------------------
(***************************************************************************)
(* Values of the constants of Supervisor for TLC: the Compose files that   *)
(* are declared in each run, and those declared before it.                 *)
(***************************************************************************)
EXTENDS SupervisorClaims, TLC

Svc(p, image, policy) ==
  [ project |-> p, image |-> image, net |-> TRUE, devices |-> FALSE, retries |-> 0,
    grace |-> FALSE, policy |-> policy, max |-> 0, deps |-> {} ]

On(name, ready) == [name |-> name, ready |-> ready]

FileOfServices(p, services) == [project |-> p, services |-> services]

(* One service: as installed, with a changed policy, with a changed image. *)
OneWeb     == FileOfServices(1, 1 :> [Svc(1, "a", "on-failure") EXCEPT !.max = 1])
OneAlways  == FileOfServices(1, 1 :> Svc(1, "a", "always"))
OneChanged == FileOfServices(1, 1 :> Svc(1, "b", "no"))

OneInstalled == {OneWeb}

(* The same container declared by another project. *)
OneMoved == FileOfServices(2, 1 :> Svc(2, "a", "always"))
MovedFiles == {OneWeb, OneMoved}
OneFiles   == {OneWeb, OneAlways, OneChanged, OneMoved}

(* A service that waits for another to be healthy; both with another image. *)
HealthyOf(image) ==
  FileOfServices(1, 1 :> [Svc(1, image, "on-failure") EXCEPT !.retries = 1, !.grace = TRUE] @@
    2 :> [Svc(1, image, "no") EXCEPT !.devices = TRUE, !.deps = {On(1, "healthy")}])
HealthyFiles     == {HealthyOf("a"), HealthyOf("b")}
HealthyInstalled == {HealthyOf("a")}

PolicyNo == FileOfServices(1, 1 :> Svc(1, "a", "no"))
PolicyFiles == {PolicyNo, OneAlways}
PolicyInstalled == {PolicyNo}
=============================================================================
