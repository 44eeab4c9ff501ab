----------------------------- MODULE Supervisor -----------------------------
(***************************************************************************)
(* The supervisor of mica-containerd (internal/supervisor) over podman and *)
(* the store: passes that bring every container to its declaration, the    *)
(* API calls that change declarations while a pass runs, the containers    *)
(* that exit on their own, engine and store calls that fail, and crashes   *)
(* of the daemon and of the machine.                                       *)
(*                                                                         *)
(* s.mu guards the declarations and what is known of them.  A stretch of   *)
(* code that holds it is one action; it ends where the code releases mu:   *)
(* around an engine call (unlocked), between List and the pass proper,     *)
(* during removeNetworks and between passes.  API calls take their actions *)
(* there and only there (MuFree).                                          *)
(***************************************************************************)
EXTENDS Podman

CONSTANTS
  StartRetries,  \* spec.StartRetries
  LongRuns,      \* whether runs longer than BackoffMaxSeconds are considered
  ApiCalls,      \* bound: API calls
  Exits,         \* bound: containers that exit on their own
  Faults,        \* bound: engine and store calls that fail
  Crashes,       \* bound: crashes of the daemon, reboots
  Hands          \* bound: containers run, started or removed by hand

ASSUME BoundsAssumption ==
  /\ StartRetries \in Nat \ {0}
  /\ LongRuns \in BOOLEAN
  /\ ApiCalls \in Nat /\ Exits \in Nat /\ Faults \in Nat
  /\ Crashes \in Nat /\ Hands \in Nat

VARIABLES
  ctr,       \* podman: the container of each name
  nets,      \* podman: the projects whose network exists
  disk,      \* the store: records, projects, and whether this boot is recorded
  records,   \* Supervisor.records
  projects,  \* Supervisor.projects
  track,     \* Supervisor.track; no entry is ZeroTracking
  pc,        \* where the pass is; "down" when the daemon is
  view,      \* what List reported and the pass did not discard: observed, foreign
  unswept,   \* listed containers the pass has not walked yet
  todo,      \* names the pass still has to reconcile
  keep,      \* removeNetworks: the networks that are declared
  call,      \* the engine call in flight, or None
  touched,   \* whether an API call changed its name since: s.changed[name] # seen
  pending,   \* API calls between two of their critical sections
  orphan,    \* a podman process that outlived the daemon that started it
  asked,     \* history: the run states each name may be in: the one last asked, and
             \* those of store calls that failed since
  tried,     \* history: starts of each name since it last reached running
  gaveUp,    \* history: names that were fatal, and not started again since
  wanted,    \* history: names whose explicit start the engine has not carried out
  left,      \* history: names whose call in this pass failed or was overtaken
  unsure,    \* history: what the store may hold otherwise than memory
  budget     \* what is left of each bound

engineVars == <<ctr, nets>>
memVars    == <<records, projects, track>>
passVars   == <<pc, view, unswept, todo, keep>>
callVars   == <<call, touched>>
histVars   == <<asked, tried, gaveUp, wanted, left, unsure>>
vars == <<ctr, nets, disk, records, projects, track, pc, view, unswept, todo,
          keep, call, touched, pending, orphan, asked, tried, gaveUp, wanted,
          left, unsure, budget>>

-----------------------------------------------------------------------------
(* Data.                                                                   *)

Phases == {"", "stopped", "starting", "running", "backoff", "exited", "fatal", "waiting"}

(* due: nextAttempt has passed.  check: nextHealth is the confirmation of  *)
(* the run ("first"), lies ahead ("wait"), or has passed ("due").          *)
(* handledExit and healthRun are the runs those times belong to.           *)
Tracking ==
  [ phase : Phases, startAttempts : Nat, restarts : Nat, due : BOOLEAN,
    handledExit : Nat, force : BOOLEAN, restart : BOOLEAN,
    health : {"", "starting", "healthy", "unhealthy"}, failures : Nat,
    check : {"first", "wait", "due"}, healthRun : Nat ]

ZeroTracking ==
  [ phase |-> "", startAttempts |-> 0, restarts |-> 0, due |-> FALSE,
    handledExit |-> 0, force |-> FALSE, restart |-> FALSE,
    health |-> "", failures |-> 0, check |-> "wait", healthRun |-> 0 ]

Forced == [ZeroTracking EXCEPT !.force = TRUE]

Ops == {"sweep", "recreate", "stop", "restop", "start", "run", "health"}

(* An engine call: spec is what it was decided from; phase, force and      *)
(* restart are the tracking it was decided from; done and ok say whether   *)
(* the engine has carried it out, and how.                                 *)
Call ==
  [ op : Ops, name : Names, record : Record \cup {None}, track : Tracking,
    done : BOOLEAN, ok : BOOLEAN ]

(* None is neither a container nor a call.                                 *)
ASSUME AbsentAssumption == None \notin Container /\ None \notin Call

Empty == [n \in Names |-> None]

Declared(recs) == {n \in Names : recs[n] # None}

Observed(n) == view[n] # None /\ view[n].managed
Foreign(n)  == view[n] # None /\ ~ view[n].managed

First(S) == CHOOSE n \in S : \A m \in S : n <= m

(* An instant no stamp of name n stands for yet. *)
FreshRun(n) ==
  LET used == {0} \cup {c.run : c \in {ctr[n], view[n]} \ {None}}
                  \cup {track[n].handledExit, track[n].healthRun}
                  \cup IF call # None /\ call.name = n
                       THEN {call.track.handledExit, call.track.healthRun} ELSE {}
      free == (0 .. 7) \ used
  IN  First(free)

Up == pc # "down"

(* Nobody holds s.mu: the pass is not in one of its critical sections. *)
MuFree == Up /\ (call # None \/ pc \in {"idle", "listed", "nets"})

BoundKinds == {"api", "exit", "fault", "crash", "hand"}

Bounds ==
  [b \in BoundKinds |-> CASE b = "api"   -> ApiCalls
                          [] b = "exit"  -> Exits
                          [] b = "fault" -> Faults
                          [] b = "crash" -> Crashes
                          [] b = "hand"  -> Hands]

Spend(what) == budget[what] > 0 /\ budget' = [budget EXCEPT ![what] = @ - 1]

-----------------------------------------------------------------------------
(* The pass.                                                               *)

(* engine.List, without mu. *)
List ==
  /\ pc = "idle"
  /\ pc' = "listed"
  /\ view' = ctr
  /\ UNCHANGED <<engineVars, disk, memVars, unswept, todo, keep, callVars,
                 pending, orphan, histVars, budget>>

(* mu is taken: what was listed is walked. *)
BeginPass ==
  /\ pc = "listed"
  /\ pc' = "sweep"
  /\ unswept' = {n \in Names : view[n] # None}
  /\ UNCHANGED <<engineVars, disk, memVars, view, todo, keep, callVars,
                 pending, orphan, histVars, budget>>

Undeclared(n) == Observed(n) /\ records[n] = None

NewCall(op, n) ==
  [ op |-> op, name |-> n, record |-> records[n], track |-> track[n],
    done |-> FALSE, ok |-> FALSE ]

(* The walk reaches a managed container nothing declares and removes it;   *)
(* before are the declared and foreign ones listed ahead of it.            *)
Sweep(n) ==
  /\ pc = "sweep" /\ call = None /\ n \in unswept /\ Undeclared(n)
  /\ \E before \in SUBSET {m \in unswept : ~ Undeclared(m)} :
        unswept' = unswept \ (before \cup {n})
  /\ view' = [view EXCEPT ![n] = None]
  /\ call' = NewCall("sweep", n)
  /\ touched' = FALSE
  /\ UNCHANGED <<engineVars, disk, memVars, pc, todo, keep, pending, orphan,
                 histVars, budget>>

(* The rest of the walk; then the names to reconcile are fixed. *)
EndSweep ==
  /\ pc = "sweep" /\ call = None /\ \A n \in unswept : ~ Undeclared(n)
  /\ pc' = "reconcile"
  /\ unswept' = {}
  /\ todo' = Declared(records)
  /\ UNCHANGED <<engineVars, disk, memVars, view, keep, callVars, pending,
                 orphan, histVars, budget>>

(* Reconciling the name it is the turn of; one deleted since is skipped. *)
Turn(n) ==
  /\ pc = "reconcile" /\ call = None /\ todo # {} /\ n = First(todo)
  /\ records[n] # None

Skip ==
  /\ pc = "reconcile" /\ call = None /\ todo # {} /\ records[First(todo)] = None
  /\ todo' = todo \ {First(todo)}
  /\ UNCHANGED <<engineVars, disk, memVars, pc, view, unswept, keep, callVars,
                 pending, orphan, histVars, budget>>

Sp(n) == records[n].spec

(* reconcile returns: n is done with for this pass, its tracking is t. *)
Settle(n, t) ==
  /\ track' = [track EXCEPT ![n] = t]
  /\ gaveUp' = IF t.phase = "fatal" THEN gaveUp \cup {n} ELSE gaveUp
  /\ todo' = todo \ {n}
  /\ call' = None
  /\ UNCHANGED <<engineVars, disk, records, projects, pc, view, unswept, keep,
                 touched, pending, orphan, asked, left, unsure, budget>>

(* unlocked: mu is released and the engine called about n. *)
Issue(op, n, t) ==
  /\ track' = [track EXCEPT ![n] = t]
  /\ call' = [NewCall(op, n) EXCEPT !.track = t]
  /\ touched' = FALSE
  /\ UNCHANGED <<engineVars, disk, records, projects, passVars, pending,
                 orphan, asked, gaveUp, left, unsure, budget>>

(* Mutant: a running container is not recreated. *)
StaleStopped(n) == Observed(n) /\ view[n].hash # Hash(Sp(n)) /\ ~ Running(view[n])

Stale(n) == Observed(n) /\ view[n].hash # Hash(Sp(n))

(* Mutant: a dependency that must be healthy counts once it runs. *)
UnreadyRunningOnly(n) ==
  \E d \in Sp(n).deps : records[d.name] = None \/ track[d.name].phase # "running"

(* unready: some dependency is not declared, not running, or not healthy. *)
Unready(n) ==
  \E d \in Sp(n).deps :
     \/ records[d.name] = None
     \/ track[d.name].phase # "running"
     \/ d.ready = "healthy" /\ track[d.name].health # "healthy"

(* Mutant: the name is only looked at for a container that is undeclared.  *)
HeldNever(n) == Foreign(n) /\ n \notin Declared(records)

Held(n) == Foreign(n)

(* start: waits for the name, then for the dependencies; else it starts a  *)
(* container that exists and has no devices, and runs any other anew.      *)
StartStep(n, t) ==
  IF Held(n) \/ Unready(n)
  THEN Settle(n, [t EXCEPT !.phase = "waiting"])
  ELSE Issue(IF Observed(n) /\ ~ Sp(n).devices THEN "start" ELSE "run", n, t)

(* A container whose declaration changed is removed first. *)
Recreate(n) ==
  /\ Turn(n) /\ Stale(n)
  /\ Issue("recreate", n, track[n])
  /\ UNCHANGED <<tried, wanted>>

Stopped(n) ==
  [ZeroTracking EXCEPT !.phase = "stopped",
     !.handledExit = IF Observed(n) THEN ExitStamp(view[n]) ELSE 0]

ReconcileStopped(n) ==
  /\ Turn(n) /\ ~ Stale(n) /\ records[n].desired = "stopped"
  /\ IF Observed(n) /\ Running(view[n])
     THEN Issue("stop", n, track[n])
     ELSE Settle(n, Stopped(n))
  /\ UNCHANGED <<tried, wanted>>

ToRun(n) == Turn(n) /\ ~ Stale(n) /\ records[n].desired = "running"

ObservedRunning(n) == Observed(n) /\ Running(view[n])

(* An explicit restart of a running container stops it first. *)
ReconcileRestart(n) ==
  /\ ToRun(n) /\ ObservedRunning(n) /\ track[n].restart
  /\ Issue("restop", n, track[n])
  /\ UNCHANGED <<tried, wanted>>

(* Whether the listed run is confirmed by now: it is when it was already   *)
(* old enough at List, and may have become so since.                       *)
Confirmations(n) ==
  IF view[n].ran # "short" THEN {TRUE}
  ELSE IF ctr[n] = view[n] THEN {FALSE}
  ELSE IF ctr[n] # None /\ ctr[n] = [view[n] EXCEPT !.ran = ctr[n].ran] THEN {TRUE}
  ELSE BOOLEAN

ReconcileRunning(n) ==
  /\ ToRun(n) /\ ObservedRunning(n) /\ ~ track[n].restart
  /\ \E confirmed \in Confirmations(n) :
       LET up    == [track[n] EXCEPT !.force = FALSE,
                       !.phase = IF confirmed THEN "running" ELSE "starting"]
           fresh == IF up.healthRun = view[n].run THEN up
                    ELSE [up EXCEPT !.healthRun = view[n].run, !.health = "starting",
                                    !.failures = 0, !.check = "first"]
           due   == fresh.check = "due" \/ (fresh.check = "first" /\ confirmed)
       IN IF Sp(n).retries = 0 THEN Settle(n, up)
          ELSE IF due THEN Issue("health", n, fresh)
          ELSE Settle(n, fresh)
  /\ wanted' = wanted \ {n}
  /\ UNCHANGED tried

(* From here on the container is not running. *)
NotRunning(n) == ToRun(n) /\ ~ ObservedRunning(n)

(* Mutant: a restart that was asked for outlives the run it was asked of.  *)
DownKeepingRestart(n) ==
  [track[n] EXCEPT !.health = "", !.failures = 0, !.healthRun = 0, !.check = "wait"]

Down(n) ==
  [track[n] EXCEPT !.restart = FALSE, !.health = "", !.failures = 0, !.healthRun = 0,
                   !.check = "wait"]

(* Started through the API, never created, never started, or not since     *)
(* this boot: a start, not a restart.                                      *)
FreshStart(n) ==
  \/ track[n].force
  \/ (Observed(n) => view[n].run = 0 \/ ~ view[n].boot)

(* Mutant: fatal holds only while the container exists. *)
HeldFatalExisting(n) == track[n].phase = "fatal" /\ ~ track[n].force /\ Observed(n)

HeldFatal(n)   == track[n].phase = "fatal" /\ ~ track[n].force
HeldBackoff(n) == track[n].phase = "backoff" /\ ~ track[n].force /\ ~ track[n].due

ReconcileFreshStart(n) ==
  /\ NotRunning(n) /\ FreshStart(n)
  /\ IF HeldFatal(n) \/ HeldBackoff(n) THEN Settle(n, Down(n))
     ELSE StartStep(n, IF track[n].force \/ track[n].phase \in {"", "stopped"}
                       THEN ZeroTracking ELSE Down(n))
  /\ UNCHANGED <<tried, wanted>>

(* The exit was decided on by an earlier pass. *)
Decided(n) == ExitStamp(view[n]) = track[n].handledExit

ReconcileDecided(n) ==
  /\ NotRunning(n) /\ ~ FreshStart(n)
  /\ \/ /\ track[n].phase = "fatal" \/ (track[n].phase = "exited" /\ Decided(n))
        /\ Settle(n, Down(n))
     \/ /\ track[n].phase = "waiting" /\ Decided(n)
        /\ StartStep(n, Down(n))
     \/ /\ track[n].phase = "backoff" /\ Decided(n)
        /\ IF track[n].due THEN StartStep(n, Down(n)) ELSE Settle(n, Down(n))
  /\ UNCHANGED <<tried, wanted>>

(* Mutant: a long run takes an attempt back instead of resetting the tally. *)
JudgedTakingBack(n) ==
  LET t == [Down(n) EXCEPT !.handledExit = ExitStamp(view[n]),
              !.startAttempts = IF view[n].ran = "long" THEN @ - 1 ELSE @ + 1]
  IN  IF ~ RestartWanted(Sp(n), view[n].failed) THEN [t EXCEPT !.phase = "exited"]
      ELSE IF t.startAttempts > StartRetries THEN [t EXCEPT !.phase = "fatal"]
      ELSE [t EXCEPT !.phase = "backoff", !.due = FALSE]

(* The tally an exit is counted in, a run of more than BackoffMaxSeconds   *)
(* having reset both; fatal when the tally passes its bound.               *)
Judged(n) ==
  LET c == view[n]
      t == [Down(n) EXCEPT !.handledExit = ExitStamp(c),
              !.startAttempts = IF c.ran = "long" THEN 0 ELSE @,
              !.restarts      = IF c.ran = "long" THEN 0 ELSE @]
      short == [t EXCEPT !.startAttempts = @ + 1]
      stop  == [t EXCEPT !.restarts = @ + 1]
      Next_(u, over) == IF over THEN [u EXCEPT !.phase = "fatal"]
                        ELSE [u EXCEPT !.phase = "backoff", !.due = FALSE]
  IN  IF ~ RestartWanted(Sp(n), c.failed) THEN [t EXCEPT !.phase = "exited"]
      ELSE IF c.ran = "short"
           THEN Next_(short, short.startAttempts > StartRetries)
           ELSE Next_(stop, Sp(n).max > 0 /\ stop.restarts > Sp(n).max)

(* An exit not yet decided on.  The gap is at least a second, so the start *)
(* in the same pass that the code allows for never happens.                *)
ReconcileExit(n) ==
  /\ NotRunning(n) /\ ~ FreshStart(n) /\ track[n].phase # "fatal"
  /\ ~ (track[n].phase \in {"exited", "waiting", "backoff"} /\ Decided(n))
  /\ Settle(n, Judged(n))
  /\ UNCHANGED <<tried, wanted>>

(* Every name has been reconciled: removeNetworks fixes what is declared   *)
(* and releases mu.                                                        *)
EndReconcile ==
  /\ pc = "reconcile" /\ call = None /\ todo = {}
  /\ pc' = "nets"
  /\ keep' = {records[n].spec.project : n \in {m \in Declared(records) : Sp(m).net}}
  /\ view' = Empty /\ left' = {}
  /\ UNCHANGED <<engineVars, disk, memVars, unswept, todo, callVars, pending,
                 orphan, asked, tried, gaveUp, wanted, unsure, budget>>

(* podman refuses to remove a network a container is on. *)
InUse(p) == \E n \in Names : ctr[n] # None /\ ctr[n].managed
                             /\ ctr[n].hash.net /\ ctr[n].hash.project = p

RemoveNetworks ==
  /\ pc = "nets"
  /\ pc' = "idle"
  /\ keep' = {}
  /\ LET gone == {p \in nets \ keep : ~ InUse(p)}
     IN  \/ nets' = nets \ gone /\ UNCHANGED budget
         \/ Spend("fault") /\ \E some \in SUBSET gone : nets' = nets \ some
  /\ UNCHANGED <<ctr, disk, memVars, view, unswept, todo, callVars, pending,
                 orphan, histVars>>

-----------------------------------------------------------------------------
(* The engine carries a call out, and the pass takes the result.           *)

Faulty == budget["fault"] > 0

Outcomes(k, faulty) ==
  LET c == ctr[k.name] IN
  CASE k.op \in {"sweep", "recreate"} -> RemoveOutcomes(c, faulty)
    [] k.op \in {"stop", "restop"}    -> StopOutcomes(c, faulty)
    [] k.op = "start"  -> StartOutcomes(c, FreshRun(k.name), faulty)
    [] k.op = "run"    -> RunOutcomes(c, k.record.spec, FreshRun(k.name), faulty)
    [] k.op = "health" -> {Outcome(c, b) : b \in IF Running(c) THEN BOOLEAN ELSE {FALSE}}

(* A run on a project network creates the network first: it exists when    *)
(* the run got to the container, and may when the run failed before.       *)
NetsAfter(k, o) ==
  IF k.op # "run" \/ ~ k.record.spec.net THEN {nets}
  ELSE {nets \cup {k.record.spec.project}}
         \cup IF ~ o.ok /\ o.ctr = ctr[k.name] THEN {nets} ELSE {}

Carry(k, o) ==
  /\ ctr' = [ctr EXCEPT ![k.name] = o.ctr]
  /\ nets' \in NetsAfter(k, o)
  /\ wanted' = IF o.ok /\ k.op \in {"start", "run"} THEN wanted \ {k.name} ELSE wanted

EngineDo ==
  /\ call # None /\ ~ call.done
  /\ \E o \in Outcomes(call, Faulty) :
       /\ Carry(call, o)
       /\ call' = [call EXCEPT !.done = TRUE, !.ok = o.ok]
       /\ IF o \in Outcomes(call, FALSE) THEN UNCHANGED budget ELSE Spend("fault")
  /\ UNCHANGED <<disk, memVars, passVars, touched, pending, orphan, asked, tried, gaveUp,
                 left, unsure>>

Returned(ops) == call # None /\ call.done /\ call.op \in ops

(* The result of a removal in the walk only goes to the log. *)
ReturnSweep ==
  /\ Returned({"sweep"})
  /\ call' = None /\ touched' = FALSE
  /\ UNCHANGED <<engineVars, disk, memVars, passVars, pending, orphan, histVars, budget>>

(* reconcile returns with the tracking as it was. *)
Leave(n) ==
  /\ call' = None /\ touched' = FALSE
  /\ todo' = todo \ {n}
  /\ left' = left \cup {n}
  /\ UNCHANGED <<engineVars, disk, memVars, pc, view, unswept, keep, pending,
                 orphan, asked, tried, gaveUp, wanted, unsure, budget>>

(* An API call changed the container during the call: nothing is stored. *)
ReturnStale ==
  /\ Returned(Ops \ {"sweep"}) /\ touched
  /\ Leave(call.name)

Fresh(ops) == Returned(ops) /\ ~ touched

(* A removal or a stop that failed is left for the next pass. *)
ReturnFailed ==
  /\ Fresh({"recreate", "stop", "restop"}) /\ ~ call.ok
  /\ Leave(call.name)

(* Removed for its changed declaration: the same reconcile goes on without *)
(* it, as after an explicit start.                                         *)
ReturnRecreate ==
  /\ Fresh({"recreate"}) /\ call.ok
  /\ LET n == call.name IN
     /\ view' = [view EXCEPT ![n] = None]
     /\ IF records[n].desired = "running" /\ ~ track[n].force
        THEN /\ track' = [track EXCEPT ![n] = Forced]
             /\ tried' = [tried EXCEPT ![n] = 0]
        ELSE UNCHANGED <<track, tried>>
  /\ call' = None
  /\ UNCHANGED <<engineVars, disk, records, projects, pc, unswept, todo, keep,
                 touched, pending, orphan, asked, gaveUp, wanted, left, unsure, budget>>

ReturnStop ==
  /\ Fresh({"stop"}) /\ call.ok
  /\ Settle(call.name, Stopped(call.name))
  /\ UNCHANGED <<tried, wanted>>

ReturnRestop ==
  /\ Fresh({"restop"}) /\ call.ok
  /\ StartStep(call.name, [track[call.name] EXCEPT !.restart = FALSE])
  /\ tried' = [tried EXCEPT ![call.name] = 0]
  /\ wanted' = wanted \cup {call.name}

(* Mutant: the bound is compared before the attempt is counted. *)
StartFailedCountedLate(t) ==
  LET u == [t EXCEPT !.force = FALSE, !.startAttempts = @ + 1]
  IN  IF t.startAttempts > StartRetries THEN [u EXCEPT !.phase = "fatal"]
      ELSE [u EXCEPT !.phase = "backoff", !.due = FALSE]

(* A start that failed is an attempt that never reached running. *)
StartFailed(t) ==
  LET u == [t EXCEPT !.force = FALSE, !.startAttempts = @ + 1]
  IN  IF u.startAttempts > StartRetries THEN [u EXCEPT !.phase = "fatal"]
      ELSE [u EXCEPT !.phase = "backoff", !.due = FALSE]

ReturnStart ==
  /\ Fresh({"start", "run"})
  /\ LET n == call.name IN
     /\ Settle(n, IF call.ok
                  THEN [track[n] EXCEPT !.force = FALSE, !.phase = "starting"]
                  ELSE StartFailed(track[n]))
     /\ tried' = [tried EXCEPT ![n] = IF call.ok /\ ctr[n] # None /\ ctr[n].ran # "short"
                                      THEN 0 ELSE @ + 1]
  /\ UNCHANGED wanted

(* One pass makes it healthy; retries failures in a row, those of the      *)
(* start period not counted, make it unhealthy.                            *)
Checked(n) ==
  LET t == [track[n] EXCEPT !.check = "wait"]
      failed == [t EXCEPT !.failures = @ + 1]
  IN  IF call.ok THEN {[t EXCEPT !.health = "healthy", !.failures = 0]}
      ELSE (IF Sp(n).grace THEN {t} ELSE {})
           \cup {IF failed.failures < Sp(n).retries THEN failed
                 ELSE [failed EXCEPT !.health = "unhealthy"]}

(* Bound: failures past retries tell nothing more and are not counted. *)
CappedChecked(n) ==
  {[t EXCEPT !.failures = IF @ > Sp(n).retries THEN Sp(n).retries ELSE @] : t \in Checked(n)}

ReturnHealth ==
  /\ Fresh({"health"})
  /\ \E t \in CappedChecked(call.name) : Settle(call.name, t)
  /\ UNCHANGED <<tried, wanted>>

-----------------------------------------------------------------------------
(* The API.  Each call is the critical sections it has under mu.           *)

Touch(S) == touched' = (touched \/ (call # None /\ call.name \in S))

(* What a name is declared to be. *)
State(r) == IF r = None THEN "none" ELSE r.desired
States == {"none", "running", "stopped"}

RecordKey(n)  == <<"record", n>>
ProjectKey(p) == <<"project", p>>

(* start, stop, and the first half of restart: stored only when it is not  *)
(* what memory says already.                                               *)
SetDesired(n, desired, more) ==
  /\ MuFree /\ Spend("api") /\ records[n] # None
  /\ records' = [records EXCEPT ![n] = [@ EXCEPT !.desired = desired]]
  /\ IF records[n].desired = desired THEN UNCHANGED <<disk, unsure>>
     ELSE /\ disk' = [disk EXCEPT !.records = [@ EXCEPT ![n] = records'[n]]]
          /\ unsure' = unsure \ {RecordKey(n)}
  /\ IF desired = "running"
     THEN /\ track' = [track EXCEPT ![n] = Forced]
          /\ tried' = [tried EXCEPT ![n] = 0]
          /\ gaveUp' = gaveUp \ {n}
          /\ wanted' = IF Running(ctr[n]) THEN wanted ELSE wanted \cup {n}
     ELSE UNCHANGED <<track, tried, gaveUp>> /\ wanted' = wanted \ {n}
  /\ asked' = [asked EXCEPT ![n] = {desired}]
  /\ Touch({n})
  /\ pending' = pending \cup more
  /\ UNCHANGED <<engineVars, projects, passVars, call, orphan, left>>

(* The same, answered with an error: the record was renamed into place,    *)
(* and the sync of its directory failed.  One that failed before changes   *)
(* nothing.                                                                *)
SetDesiredFails(n, desired) ==
  /\ MuFree /\ budget["api"] > 0 /\ budget["fault"] > 0
  /\ budget' = [budget EXCEPT !["api"] = @ - 1, !["fault"] = @ - 1]
  /\ records[n] # None /\ records[n].desired # desired
  /\ disk' = [disk EXCEPT !.records = [@ EXCEPT ![n] = [records[n] EXCEPT !.desired = desired]]]
  /\ asked' = [asked EXCEPT ![n] = @ \cup {desired}]
  /\ unsure' = unsure \cup {RecordKey(n)}
  /\ UNCHANGED <<engineVars, memVars, passVars, callVars, pending, orphan, tried, gaveUp,
                 wanted, left>>

Start(n) == SetDesired(n, "running", {})
Stop(n)  == SetDesired(n, "stopped", {})

RestartRequest(n) == [op |-> "restart", name |-> n]
Restart(n) == SetDesired(n, "running", {RestartRequest(n)})

(* Mutant: the second half of restart does not mark the container changed. *)
FinishRestartUnmarked(n) ==
  /\ MuFree /\ RestartRequest(n) \in pending
  /\ track' = [track EXCEPT ![n].restart = TRUE]
  /\ pending' = pending \ {RestartRequest(n)}
  /\ UNCHANGED <<engineVars, disk, records, projects, passVars, callVars, orphan,
                 histVars, budget>>

(* The second half of restart.  Its container may have been deleted. *)
FinishRestart(n) ==
  /\ MuFree /\ RestartRequest(n) \in pending
  /\ track' = [track EXCEPT ![n].restart = TRUE]
  /\ Touch({n})
  /\ pending' = pending \ {RestartRequest(n)}
  /\ UNCHANGED <<engineVars, disk, records, projects, passVars, call, orphan,
                 histVars, budget>>

(* unmanaged: a name that a container without the label holds is refused.  *)
(* It asks podman without mu, before the declaration is stored.            *)
Unmanaged(S) == \A n \in S : ctr[n] # None => ctr[n].managed

PutRequest(f) == [op |-> "put", files |-> {f}]
SetRequest(F) == [op |-> "set", files |-> F]

Request(req, names) ==
  /\ Up /\ Spend("api") /\ Unmanaged(names)
  /\ pending' = pending \cup {req}
  /\ UNCHANGED <<engineVars, disk, memVars, passVars, callVars, orphan, histVars>>

PutProject(f) == Request(PutRequest(f), Services(f))

Distinct(F) ==
  \A f, g \in F : f # g => f.project # g.project /\ Services(f) \cap Services(g) = {}

PutProjects(F) == Distinct(F) /\ Request(SetRequest(F), UNION {Services(f) : f \in F})

(* The store calls a declaration makes, in order of rank; those of one     *)
(* rank come in no fixed order.  A store call and the memory it is about   *)
(* change together, so a declaration that fails has done some of them.     *)
Drops(rank, S) == {[rank |-> rank, op |-> "drop", on |-> n] : n \in S}
Forgets(rank, S) == {[rank |-> rank, op |-> "forget", on |-> p] : p \in S}

OfProject(p) == {n \in Declared(records) : Sp(n).project = p}

Puts(f) ==
  {[rank |-> 3 * f.project + 2, op |-> "file", on |-> f.project]}
    \cup {[rank |-> 3 * f.project + 3, op |-> "put", on |-> n] : n \in Services(f)}

DeclareSteps(f) ==
  Puts(f) \cup Drops(3 * f.project + 4, OfProject(f.project) \ Services(f))

SetSteps(F) ==
  LET kept(n) == \E f \in F : f.project = Sp(n).project /\ n \in Services(f)
  IN  Drops(0, {n \in Declared(records) : ~ kept(n)})
        \cup Forgets(1, {p \in Projects : projects[p] # None /\ \A f \in F : f.project # p})
        \cup UNION {Puts(f) : f \in F}

DeleteSteps(p) == Drops(0, OfProject(p)) \cup Forgets(1, {p})

Prefixes(steps) ==
  {D \in SUBSET steps : \A s \in D : {t \in steps : t.rank < s.rank} \subseteq D}

Does(D, op, x) == \E s \in D : s.op = op /\ s.on = x

FileOf(F, p) == CHOOSE f \in F : f.project = p
SpecOf(F, n) == (CHOOSE f \in F : n \in Services(f)).services[n]

(* What the store or memory says once the calls D are done: a new record   *)
(* is desired running, a replaced one as memory has it.                    *)
RecordsAfter(recs, F, D) ==
  [n \in Names |->
     IF Does(D, "put", n)
     THEN [spec    |-> SpecOf(F, n),
           desired |-> IF Does(D, "drop", n) \/ records[n] = None THEN "running"
                       ELSE records[n].desired]
     ELSE IF Does(D, "drop", n) THEN None ELSE recs[n]]

ProjectsAfter(projs, F, D) ==
  [p \in Projects |-> IF Does(D, "file", p) THEN FileOf(F, p)
                      ELSE IF Does(D, "forget", p) THEN None ELSE projs[p]]

TrackAfter(D) ==
  [n \in Names |->
     LET old == IF Does(D, "drop", n) THEN ZeroTracking ELSE track[n]
     IN  IF Does(D, "put", n) /\ old.phase = "fatal" THEN Forced ELSE old]

TouchedBy(D) == {n \in Names : Does(D, "put", n) \/ Does(D, "drop", n)}

(* Steps D of a declaration of the files F succeed: what memory gets. *)
Commit(F, D) ==
  /\ records' = RecordsAfter(records, F, D)
  /\ projects' = ProjectsAfter(projects, F, D)
  /\ track' = TrackAfter(D)
  /\ tried' = [n \in Names |-> IF n \in TouchedBy(D) THEN 0 ELSE tried[n]]
  /\ gaveUp' = gaveUp \ TouchedBy(D)
  /\ wanted' = wanted \ TouchedBy(D)
  /\ Touch(TouchedBy(D))
  /\ UNCHANGED <<engineVars, passVars, call, orphan, left>>

(* What they ask of n. *)
AskedBy(D, n) ==
  IF ~ Does(D, "put", n) THEN "none"
  ELSE IF Does(D, "drop", n) \/ records[n] = None THEN "running" ELSE records[n].desired

KeysOf(D) ==
  {RecordKey(n) : n \in TouchedBy(D)}
    \cup {ProjectKey(p) : p \in {q \in Projects : Does(D, "file", q) \/ Does(D, "forget", q)}}

(* What the store gets: steps E, of which D succeed, the other one being   *)
(* renamed or unlinked before it fails.                                    *)
StoreSteps(F, D, E) ==
  /\ disk' = [disk EXCEPT !.records = RecordsAfter(@, F, E), !.projects = ProjectsAfter(@, F, E)]
  /\ asked' = [n \in Names |->
                 (IF n \in TouchedBy(D) THEN {AskedBy(D, n)} ELSE asked[n])
                   \cup (IF n \in TouchedBy(E \ D) THEN {AskedBy(E, n)} ELSE {})]
  /\ unsure' = (unsure \ KeysOf(D)) \cup KeysOf(E \ D)

(* A store call fails, with or without effect: those before it are done. *)
CutShort(F, steps) ==
  \E D \in Prefixes(steps) \ {steps}, E \in Prefixes(steps) :
    /\ D \subseteq E /\ \E s \in steps : E \subseteq D \cup {s}
    /\ Commit(F, D) /\ StoreSteps(F, D, E)

Completed(F, steps) == Commit(F, steps) /\ StoreSteps(F, steps, steps)

(* All of a declaration, or up to a store call that fails. *)
Carried(F, steps) ==
  \/ Completed(F, steps) /\ UNCHANGED budget
  \/ Spend("fault") /\ CutShort(F, steps)

(* Mutant: a name is refused once its container has been created. *)
ConflictOfCreated(f) ==
  \E n \in Services(f) \cap Declared(records) : Sp(n).project # f.project /\ ctr[n] # None

(* A name another project's container has refuses the file. *)
Conflict(f) == \E n \in Services(f) \cap Declared(records) : Sp(n).project # f.project

FinishPut(f) ==
  /\ MuFree /\ PutRequest(f) \in pending
  /\ pending' = pending \ {PutRequest(f)}
  /\ IF Conflict(f)
     THEN UNCHANGED <<engineVars, disk, memVars, passVars, callVars, orphan, histVars, budget>>
     ELSE Carried({f}, DeclareSteps(f))

FinishSet(F) ==
  /\ MuFree /\ SetRequest(F) \in pending
  /\ pending' = pending \ {SetRequest(F)}
  /\ Carried(F, SetSteps(F))

DeleteProject(p) ==
  /\ MuFree /\ budget["api"] > 0
  /\ projects[p] # None \/ OfProject(p) # {}
  /\ \/ Completed({}, DeleteSteps(p)) /\ budget' = [budget EXCEPT !["api"] = @ - 1]
     \/ /\ budget["fault"] > 0
        /\ budget' = [budget EXCEPT !["api"] = @ - 1, !["fault"] = @ - 1]
        /\ CutShort({}, DeleteSteps(p))
  /\ UNCHANGED pending

-----------------------------------------------------------------------------
(* Crashes and restarts.                                                   *)

(* What only the daemon's memory held is gone. *)
MemoryLost ==
  /\ pc' = "down" /\ view' = Empty /\ unswept' = {} /\ todo' = {} /\ keep' = {}
  /\ call' = None /\ touched' = FALSE /\ pending' = {}
  /\ records' = Empty
  /\ projects' = [p \in Projects |-> None]
  /\ track' = [n \in Names |-> ZeroTracking]
  /\ tried' = [n \in Names |-> 0] /\ left' = {}

(* What becomes of the podman process of the call in flight: it outlives   *)
(* the daemon (KillMode=process) or is killed at some point.               *)
AbandonCall ==
  IF call = None \/ (call # None /\ (call.done \/ call.op = "health"))
  THEN UNCHANGED <<engineVars, orphan, wanted>>
  ELSE \/ /\ orphan' = IF orphan = None THEN call ELSE orphan
          /\ UNCHANGED <<engineVars, wanted>>
       \/ \E o \in Outcomes(call, TRUE) : Carry(call, o) /\ UNCHANGED orphan

Crash ==
  /\ Up /\ Spend("crash")
  /\ MemoryLost
  /\ AbandonCall
  /\ UNCHANGED <<disk, asked, gaveUp, unsure>>

(* The daemon dies part of the way through the store calls of a            *)
(* declaration.                                                            *)
CrashWhileStoring(F, steps) ==
  /\ MuFree /\ Spend("crash")
  /\ \E D \in Prefixes(steps) \ {{}, steps} :
       /\ StoreSteps(F, D, D)
       /\ gaveUp' = gaveUp \ TouchedBy(D)
  /\ MemoryLost
  /\ AbandonCall

CrashWhileDeclaring ==
  \/ \E f \in Files : PutRequest(f) \in pending /\ ~ Conflict(f)
                      /\ CrashWhileStoring({f}, DeclareSteps(f))
  \/ \E F \in SUBSET Files : SetRequest(F) \in pending
                             /\ CrashWhileStoring(F, SetSteps(F))

OrphanEnds ==
  /\ orphan # None
  /\ \E o \in Outcomes(orphan, Faulty) :
       /\ Carry(orphan, o)
       /\ IF o \in Outcomes(orphan, FALSE) THEN UNCHANGED budget ELSE Spend("fault")
  /\ orphan' = None
  /\ tried' = [tried EXCEPT ![orphan.name] = 0]
  /\ UNCHANGED <<disk, memVars, passVars, callVars, pending, asked, gaveUp, left, unsure>>

Rebooted(c) ==
  IF c = None THEN None
  ELSE [(IF Running(c) THEN Exited(c, TRUE) ELSE c) EXCEPT !.boot = FALSE]

(* The machine restarts: a boot the store has not recorded begins, and     *)
(* every container is to run again.                                        *)
Reboot ==
  /\ Spend("crash")
  /\ MemoryLost
  /\ ctr' = [n \in Names |-> Rebooted(ctr[n])]
  /\ orphan' = None
  /\ disk' = [disk EXCEPT !.boot = FALSE]
  /\ asked' = [n \in Names |-> {IF state = "none" THEN state ELSE "running" : state \in asked[n]}]
  /\ gaveUp' = {} /\ wanted' = {}
  /\ UNCHANGED <<nets, unsure>>

ToRunAgain(recs, S) ==
  [n \in Names |-> IF n \in S THEN [recs[n] EXCEPT !.desired = "running"] ELSE recs[n]]

(* Mutant: every start of the daemon makes every container run again. *)
LoadedRunning == ToRunAgain(disk.records, Declared(disk.records))

Loaded == IF disk.boot THEN disk.records
          ELSE ToRunAgain(disk.records, Declared(disk.records))

(* New: the store is loaded and brought to this boot. *)
StartDaemon ==
  /\ pc = "down"
  /\ pc' = "idle"
  /\ records' = Loaded
  /\ projects' = disk.projects
  /\ disk' = [disk EXCEPT !.records = Loaded, !.boot = TRUE]
  /\ UNCHANGED <<engineVars, track, view, unswept, todo, keep, callVars,
                 pending, orphan, histVars, budget>>

(* New fails or is killed in its loop over the records: some are written,  *)
(* and the boot is not recorded yet.                                       *)
BootInterrupted ==
  /\ pc = "down" /\ ~ disk.boot /\ Spend("crash")
  /\ \E S \in SUBSET Declared(disk.records) :
        disk' = [disk EXCEPT !.records = ToRunAgain(@, S)]
  /\ UNCHANGED <<engineVars, memVars, passVars, callVars, pending, orphan, histVars>>

-----------------------------------------------------------------------------
(* What happens to containers, and time.                                   *)

ContainerExits(n) ==
  /\ Running(ctr[n]) /\ ctr[n].managed /\ Spend("exit")
  /\ \E failed \in BOOLEAN : ctr' = [ctr EXCEPT ![n] = Exited(@, failed)]
  /\ UNCHANGED <<nets, disk, memVars, passVars, callVars, pending, orphan, histVars>>

(* A run reaches StartSeconds: the container has reached running. *)
RunConfirmed(n) ==
  /\ Running(ctr[n]) /\ ctr[n].managed /\ ctr[n].ran = "short"
  /\ ctr' = [ctr EXCEPT ![n].ran = "ok"]
  /\ tried' = [tried EXCEPT ![n] = 0]
  /\ UNCHANGED <<nets, disk, memVars, passVars, callVars, pending, orphan, asked,
                 gaveUp, wanted, left, unsure, budget>>

(* A run passes BackoffMaxSeconds. *)
RunIsLong(n) ==
  /\ LongRuns /\ Running(ctr[n]) /\ ctr[n].managed /\ ctr[n].ran = "ok"
  /\ ctr' = [ctr EXCEPT ![n].ran = "long"]
  /\ UNCHANGED <<nets, disk, memVars, passVars, callVars, pending, orphan, histVars, budget>>

GapEnds(n) ==
  /\ track[n].phase = "backoff" /\ ~ track[n].due
  /\ track' = [track EXCEPT ![n].due = TRUE]
  /\ UNCHANGED <<engineVars, disk, records, projects, passVars, callVars,
                 pending, orphan, histVars, budget>>

CheckComesDue(n) ==
  /\ track[n].healthRun # 0 /\ track[n].check = "wait"
  /\ track' = [track EXCEPT ![n].check = "due"]
  /\ UNCHANGED <<engineVars, disk, records, projects, passVars, callVars,
                 pending, orphan, histVars, budget>>

ByHand(n, c) ==
  /\ Spend("hand")
  /\ ctr' = [ctr EXCEPT ![n] = c]
  /\ tried' = [tried EXCEPT ![n] = 0]
  /\ UNCHANGED <<nets, disk, memVars, passVars, callVars, pending, orphan, asked, gaveUp,
                 left, unsure>>
  /\ wanted' = wanted \ {n}

HandRun(n)    == ctr[n] = None /\ ByHand(n, HandContainer(FreshRun(n)))
HandStart(n)  == ctr[n] # None /\ ~ Running(ctr[n]) /\ ByHand(n, Started(ctr[n], FreshRun(n)))
HandRemove(n) == ctr[n] # None /\ ByHand(n, None)

-----------------------------------------------------------------------------

Reconcile(n) ==
  \/ Recreate(n)
  \/ ReconcileStopped(n)
  \/ ReconcileRestart(n)
  \/ ReconcileRunning(n)
  \/ ReconcileFreshStart(n)
  \/ ReconcileDecided(n)
  \/ ReconcileExit(n)

Return ==
  \/ ReturnSweep \/ ReturnStale \/ ReturnFailed \/ ReturnRecreate
  \/ ReturnStop \/ ReturnRestop \/ ReturnStart \/ ReturnHealth

Pass ==
  \/ List \/ BeginPass \/ (\E n \in Names : Sweep(n)) \/ EndSweep
  \/ Skip \/ (\E n \in Names : Reconcile(n)) \/ EndReconcile \/ RemoveNetworks
  \/ EngineDo \/ Return

FinishRequest ==
  \/ \E n \in Names : FinishRestart(n)
  \/ \E f \in Files : FinishPut(f)
  \/ \E F \in SUBSET Files : FinishSet(F)

Api ==
  \/ \E n \in Names : Start(n) \/ Stop(n) \/ Restart(n)
  \/ \E n \in Names, desired \in {"running", "stopped"} : SetDesiredFails(n, desired)
  \/ \E f \in Files : PutProject(f)
  \/ \E F \in SUBSET Files : PutProjects(F)
  \/ \E p \in Projects : DeleteProject(p)
  \/ FinishRequest

Failure ==
  Crash \/ CrashWhileDeclaring \/ OrphanEnds \/ Reboot \/ BootInterrupted

Environment ==
  \E n \in Names :
    \/ ContainerExits(n) \/ RunConfirmed(n) \/ RunIsLong(n)
    \/ GapEnds(n) \/ CheckComesDue(n)
    \/ HandRun(n) \/ HandStart(n) \/ HandRemove(n)

Next == Pass \/ Api \/ Failure \/ StartDaemon \/ Environment

(* A machine that has just booted, the store as the last boot left it.     *)
CONSTANT Installed  \* the files declared before this boot

ASSUME InstalledAssumption ==
  /\ Installed \subseteq Files
  /\ \A f, g \in Installed :
       f # g => f.project # g.project /\ Services(f) \cap Services(g) = {}

InstalledRecords ==
  [n \in Names |->
     IF \E f \in Installed : n \in Services(f)
     THEN [spec |-> SpecOf(Installed, n), desired |-> "running"] ELSE None]

InstalledProjects ==
  [p \in Projects |->
     IF \E f \in Installed : f.project = p THEN FileOf(Installed, p) ELSE None]

Init ==
  /\ ctr = Empty /\ nets = {}
  /\ disk = [records |-> InstalledRecords, projects |-> InstalledProjects, boot |-> FALSE]
  /\ records = Empty
  /\ projects = [p \in Projects |-> None]
  /\ track = [n \in Names |-> ZeroTracking]
  /\ pc = "down" /\ view = Empty /\ unswept = {} /\ todo = {} /\ keep = {}
  /\ call = None /\ touched = FALSE /\ pending = {} /\ orphan = None
  /\ asked = [n \in Names |-> {State(InstalledRecords[n])}] /\ unsure = {}
  /\ tried = [n \in Names |-> 0]
  /\ gaveUp = {} /\ wanted = {} /\ left = {}
  /\ budget = Bounds

Spec == Init /\ [][Next]_vars

(* The daemon runs (the service manager restarts it), the full pass comes  *)
(* round at every Resync, engine calls end, time passes; sync.Mutex hands  *)
(* mu to a waiter it has kept waiting.                                     *)
Fairness ==
  /\ WF_vars(StartDaemon)
  /\ WF_vars(Pass)
  /\ WF_vars(OrphanEnds)
  /\ SF_vars(FinishRequest)
  /\ \A n \in Names : WF_vars(RunConfirmed(n)) /\ WF_vars(GapEnds(n))

FairSpec == Spec /\ Fairness

-----------------------------------------------------------------------------
(* Properties.                                                             *)

Requests ==
  {RestartRequest(n) : n \in Names} \cup {PutRequest(f) : f \in Files}
    \cup {SetRequest(F) : F \in SUBSET Files}

(* The type of every variable: the tallies stay natural numbers, the phases *)
(* those the API names, what is stored a record of the store.              *)
TypeOK ==
  /\ ctr \in [Names -> Container \cup {None}]
  /\ nets \subseteq Projects
  /\ disk \in [records  : [Names -> Record \cup {None}],
               projects : [Projects -> Files \cup {None}], boot : BOOLEAN]
  /\ records \in [Names -> Record \cup {None}]
  /\ projects \in [Projects -> Files \cup {None}]
  /\ track \in [Names -> Tracking]
  /\ pc \in {"down", "idle", "listed", "sweep", "reconcile", "nets"}
  /\ view \in [Names -> Container \cup {None}]
  /\ unswept \subseteq Names /\ todo \subseteq Names /\ keep \subseteq Projects
  /\ call \in Call \cup {None}
  /\ touched \in BOOLEAN
  /\ pending \subseteq Requests
  /\ orphan \in Call \cup {None}
  /\ asked \in [Names -> SUBSET States]
  /\ unsure \subseteq {RecordKey(n) : n \in Names} \cup {ProjectKey(p) : p \in Projects}
  /\ tried \in [Names -> Nat]
  /\ gaveUp \subseteq Names /\ wanted \subseteq Names /\ left \subseteq Names
  /\ budget \in [BoundKinds -> Nat]

(* The unlocked protocol: while an engine call about a container is in     *)
(* flight and no API call changed that container, its declaration and what *)
(* the supervisor knows of it are those the call was decided from, so that *)
(* storing the result overwrites nothing.                                  *)
Timeless(t) == [t EXCEPT !.due = FALSE, !.check = "wait"]

InFlightCurrent ==
  call # None /\ call.op # "sweep" /\ ~ touched =>
    /\ records[call.name] = call.record
    /\ Timeless(track[call.name]) = Timeless(call.track)

(* What memory says is on disk, and is what was asked last, or by a store  *)
(* call that failed since: a declaration, its deletion, a start and a stop *)
(* survive crashes and restarts of the daemon, and a boot, once recorded,  *)
(* has made every container run again.  A key whose store call failed is   *)
(* so only once another one has stored it.                                 *)
DesiredAsAsked ==
  /\ \A n \in Names : RecordKey(n) \notin unsure =>
       /\ Up => records[n] = disk.records[n]
       /\ disk.boot => State(disk.records[n]) \in asked[n]
  /\ \A p \in Projects : ProjectKey(p) \notin unsure => (Up => projects[p] = disk.projects[p])

(* A container that became fatal is not started until it is started again  *)
(* through the API, declared again, or the machine restarts.               *)
FatalStays ==
  call # None /\ call.op \in {"start", "run"} /\ ~ touched => call.name \notin gaveUp

(* However starts fail (refused by the engine, or a run that ends early),  *)
(* a container is started at most once and StartRetries times again before *)
(* it reaches running: the attempts are bounded.                           *)
TriesBounded == \A n \in Names : tried[n] <= StartRetries + 1

(* What EngineDo does to the container of the call in flight.              *)
Carrying(n) == call # None /\ call.name = n /\ ~ call.done /\ call' # None /\ call'.done

(* A container without the managed label is not touched by a pass that     *)
(* listed it: not stopped, removed or replaced by any of its calls.        *)
HolderUntouched ==
  [][\A n \in Names : Carrying(n) /\ Foreign(n) /\ ctr[n] = view[n] => ctr'[n] = ctr[n]]_vars

(* A running container that the pass listed, that is declared to run and   *)
(* was created from what is declared, is not stopped, removed or replaced  *)
(* unless a restart was asked for or the declaration changes during the    *)
(* call; a changed restart policy in particular recreates nothing.         *)
AsDeclared(n) ==
  /\ records[n] # None /\ records[n].desired = "running"
  /\ \A field \in {"project", "image", "net", "devices", "retries", "grace"} :
        ctr[n].hash[field] = Sp(n)[field]

NoNeedlessStop ==
  [][\A n \in Names :
       /\ Carrying(n) /\ ~ touched /\ Observed(n)
       /\ Running(ctr[n]) /\ ctr[n].managed /\ AsDeclared(n) /\ ~ track[n].restart
       => Running(ctr'[n]) /\ ctr'[n].run = ctr[n].run]_vars

(* What a project was declared from and the containers declared for it are *)
(* of one declaration: the services of its file, with the file's specs.    *)
ServicesMatchFile ==
  Up => \A p \in Projects :
    IF projects[p] = None THEN OfProject(p) = {}
    ELSE /\ OfProject(p) = Services(projects[p])
         /\ \A n \in OfProject(p) : Sp(n) = projects[p].services[n]

(* A container is started only when the listing of the same pass shows     *)
(* each container it depends on running, and healthy in that very run when *)
(* it waits for that: for those reconciled before it in the pass, except   *)
(* one whose removal or stop failed or whose engine call was overtaken by  *)
(* the API (left): that one keeps the phase and health of an earlier pass. *)
IssuesStart(n) ==
  /\ call' # None /\ call'.name = n /\ call'.op \in {"start", "run"}
  /\ call = None \/ call.op # call'.op

Ready(d) ==
  \/ d.name \in left
  \/ /\ ObservedRunning(d.name)
     /\ d.ready = "healthy" =>
          track[d.name].health = "healthy" /\ track[d.name].healthRun = view[d.name].run

DependenciesInOrder ==
  [][\A n \in Names : IssuesStart(n) =>
       \A d \in Sp(n).deps : d.name < n => Ready(d)]_vars

(* What the engine has, what is declared of it, and the call in flight, as  *)
(* Custody speaks of them.                                                 *)
MadeOf(c) ==
  [ state |-> IF c = None THEN "absent" ELSE IF Running(c) THEN "up" ELSE "down",
    label |-> IF c = None THEN None ELSE c.hash ]

DeclaredOf(r) ==
  [ state |-> State(r), label |-> IF r = None THEN None ELSE Hash(r.spec) ]

Act(op) ==
  CASE op \in {"sweep", "recreate"} -> "remove"
    [] op \in {"stop", "restop"}    -> "stop"
    [] op \in {"start", "run"}      -> "start"

OrderOf(k) ==
  IF k = None \/ (k # None /\ (k.done \/ k.op = "health"))
  THEN [act |-> "none", name |-> None, label |-> None]
  ELSE [ act |-> Act(k.op), name |-> k.name,
         label |-> IF Act(k.op) = "start" THEN Hash(k.record.spec) ELSE None ]

(* Names the pass will still take for free though a container has them: it *)
(* could not remove it in the walk, or has not yet.                        *)
Overlooked ==
  {n \in Names :
     /\ pc = "sweep" \/ (pc = "reconcile" /\ n \in todo)
     /\ view[n] = None /\ ctr[n] # None
     /\ ~ (call # None /\ call.name = n /\ call.done /\ call.op # "sweep")}

MadeNow     == [n \in Names |-> MadeOf(ctr[n])]
DeclaredNow == [n \in Names |-> DeclaredOf(records[n])]
RestartsDue == {n \in Names : track[n].restart}

Keeper == INSTANCE Custody WITH
  Labels   <- Hashes,
  made     <- MadeNow,
  declared <- DeclaredNow,
  asks     <- RestartsDue,
  doomed   <- Overlooked,
  order    <- OrderOf(call)

(* The daemon acts on a container only by orders that follow from what is  *)
(* declared of it, one at a time, each carried out as it was given however *)
(* declarations, exits and failures interleave, and forgets no restart.    *)
ActsInCustody == Keeper!Spec

(* Liveness: once nothing more is asked and no more containers exit, calls *)
(* fail or crashes come, every container gets to what is declared of it    *)
(* and stays there, and undeclared containers and networks are gone.       *)
Settled(n) ==
  IF records[n] = None THEN ctr[n] # None => ~ ctr[n].managed
  ELSE IF records[n].desired = "stopped"
  THEN ctr[n] # None /\ ctr[n].managed => ~ Running(ctr[n])
  ELSE \/ /\ Running(ctr[n]) /\ ctr[n].managed
          /\ ctr[n].hash = Hash(Sp(n)) /\ track[n].phase = "running"
       \/ /\ track[n].phase \in {"exited", "fatal"} /\ ~ Running(ctr[n])
       \/ /\ track[n].phase = "waiting"
          /\ Unready(n) \/ (ctr[n] # None /\ ~ ctr[n].managed)

Converges ==
  <>[] /\ Up /\ pending = {}
       /\ \A n \in Names : Settled(n)
       /\ nets \subseteq {Sp(n).project : n \in Declared(records)}
=============================================================================
