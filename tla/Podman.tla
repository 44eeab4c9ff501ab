------------------------------- MODULE Podman -------------------------------
(***************************************************************************)
(* The container engine as mica-containerd uses it: what one podman call   *)
(* does to the container of one name, and in what partial states a call    *)
(* that fails can leave it.  podman is not part of the repository; these   *)
(* outcomes are read off the arguments engine/podman.go gives it and the   *)
(* contract of the Engine interface.                                       *)
(*                                                                         *)
(* Times are abstracted to identities: run stands for the instant a        *)
(* container was last started (0: never) and, once it exited, for the      *)
(* instant of that exit; two stamps are Equal when their runs are.  ran is *)
(* the age of that run against StartSeconds and BackoffMaxSeconds, and     *)
(* boot says that it began in this boot of the machine.                    *)
(***************************************************************************)
EXTENDS Declarations

Ages == {"short", "ok", "long"}

Container ==
  [ managed : BOOLEAN,
    hash    : Hashes \cup {None},
    state   : {"created", "running", "exited"},
    failed  : BOOLEAN,
    ran     : Ages,
    run     : Nat,
    boot    : BOOLEAN ]

Running(c) == c # None /\ c.state = "running"

(* c.ExitedAt: zero until the container's run ended. *)
ExitStamp(c) == IF c.state = "exited" THEN c.run ELSE 0

NewContainer(sp, state, r) ==
  [ managed |-> TRUE, hash |-> Hash(sp), state |-> state, failed |-> FALSE,
    ran |-> "short", run |-> r, boot |-> r # 0 ]

(* A container somebody ran by hand: without the managed label. *)
HandContainer(r) ==
  [ managed |-> FALSE, hash |-> None, state |-> "running", failed |-> FALSE,
    ran |-> "short", run |-> r, boot |-> TRUE ]

Started(c, r) ==
  [c EXCEPT !.state = "running", !.failed = FALSE, !.ran = "short",
            !.run = r, !.boot = TRUE]

Exited(c, failed) == [c EXCEPT !.state = "exited", !.failed = failed]

-----------------------------------------------------------------------------

(* The outcomes of a call on container c (None when the name is free):     *)
(* pairs of the container after the call and whether podman exited 0.      *)
(* faulty says whether a failure that podman does not owe to the state of  *)
(* the container is to be considered.                                      *)

Outcome(c, ok) == [ctr |-> c, ok |-> ok]

(* podman run --replace: removes the holder of the name whatever it is,    *)
(* creates the container, starts it; it can fail before each step.         *)
RunOutcomes(c, sp, r, faulty) ==
  {Outcome(NewContainer(sp, "running", r), TRUE)}
    \cup IF faulty
         THEN {Outcome(x, FALSE) : x \in {c, None, NewContainer(sp, "created", 0)}}
         ELSE {}

(* podman start: no container by that name is an error, a running one is   *)
(* left as it is.                                                          *)
StartOutcomes(c, r, faulty) ==
  IF c = None THEN {Outcome(None, FALSE)}
  ELSE {Outcome(IF Running(c) THEN c ELSE Started(c, r), TRUE)}
         \cup IF faulty /\ ~ Running(c) THEN {Outcome(c, FALSE)} ELSE {}

(* podman stop: the exit code is the program's, or that of the signal.     *)
StopOutcomes(c, faulty) ==
  IF c = None THEN {Outcome(None, FALSE)}
  ELSE {Outcome(x, TRUE) :
          x \in IF Running(c) THEN {Exited(c, b) : b \in BOOLEAN} ELSE {c}}
         \cup IF faulty THEN {Outcome(c, FALSE)} ELSE {}

(* podman rm --force --ignore: stops the container first. *)
RemoveOutcomes(c, faulty) ==
  {Outcome(None, TRUE)}
    \cup IF faulty /\ c # None
         THEN {Outcome(x, FALSE) : x \in {c, IF Running(c) THEN Exited(c, TRUE) ELSE c}}
         ELSE {}
=============================================================================
