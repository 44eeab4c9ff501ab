-------------------------- MODULE SupervisorProofs --------------------------
(***************************************************************************)
(* Theorems about the supervisor, for every value of its constants.        *)
(***************************************************************************)
EXTENDS Supervisor, WellFoundedInduction, TLAPS

-----------------------------------------------------------------------------
(* What the operators of the model return.                                 *)

(* The hash of a service is one.                                           *)
LEMMA HashType == \A sp \in Service : Hash(sp) \in Hashes
BY DEF Service, Hash, Hashes

(* What a declaration declares is a service.                               *)
LEMMA SpecType ==
  ASSUME TypeOK, NEW n \in Names, records[n] # None
  PROVE  /\ records[n] \in Record
         /\ Sp(n) \in Service
BY DEF TypeOK, Record, Sp

(* Seven instants are taken at most, so that one of eight is free.         *)
LEMMA FreshRunType ==
  ASSUME TypeOK, NEW n \in Names
  PROVE  FreshRun(n) \in Nat
<1> DEFINE cs   == {c.run : c \in {ctr[n], view[n]} \ {None}}
           ts   == {track[n].handledExit, track[n].healthRun}
           ks   == IF call # None /\ call.name = n
                   THEN {call.track.handledExit, call.track.healthRun} ELSE {}
           used == {0} \cup cs \cup ts \cup ks
           free == (0 .. 7) \ used
<1>1. used \subseteq {0, ctr[n].run, view[n].run, track[n].handledExit, track[n].healthRun,
                      call.track.handledExit, call.track.healthRun}
  OBVIOUS
<1> HIDE DEF used
<1>2. ASSUME NEW a, NEW b, NEW c, NEW d, NEW e, NEW f
      PROVE  \E i \in 0 .. 7 : i \notin {0, a, b, c, d, e, f}
  OBVIOUS
<1>6. \E i \in free : TRUE
  BY <1>1, <1>2
<1>3. \E i \in free : \A j \in free : i <= j
  BY <1>6
<1>4. First(free) \in free
  BY <1>3 DEF First
<1>5. FreshRun(n) = First(free)
  BY DEF FreshRun, used
<1> QED BY <1>4, <1>5

(* A stop leaves no container, or the same one, as it was or exited.       *)
LEMMA StopLeaves ==
  ASSUME NEW c, NEW faulty, NEW o \in StopOutcomes(c, faulty)
  PROVE  \/ \E b \in BOOLEAN : o \in {Outcome(None, b), Outcome(c, b)}
         \/ c # None /\ \E b, f \in BOOLEAN : o = Outcome(Exited(c, f), b)
BY DEF StopOutcomes

(* What an engine call leaves is a container, or nothing.                  *)
LEMMA OutcomesType ==
  ASSUME TypeOK, NEW k \in Call, k.op = "run" => k.record # None,
         NEW faulty, NEW o \in Outcomes(k, faulty)
  PROVE  o.ctr \in Container \cup {None} /\ o.ok \in BOOLEAN
<1> DEFINE c == ctr[k.name]
           IsOutcome(x) == o = Outcome(x, TRUE) \/ o = Outcome(x, FALSE)
<1>1. c \in Container \cup {None} /\ FreshRun(k.name) \in Nat /\ k.op \in Ops
  BY FreshRunType DEF TypeOK, Call
<1>2. ASSUME NEW b \in BOOLEAN, c # None PROVE Exited(c, b) \in Container
  BY <1>1, <1>2 DEF Exited, Container
<1>9. ASSUME NEW x \in Container \cup {None}, IsOutcome(x)
      PROVE  o.ctr \in Container \cup {None} /\ o.ok \in BOOLEAN
  <2>1. CASE o = Outcome(x, TRUE)
    BY <2>1 DEF Outcome
  <2>2. CASE o = Outcome(x, FALSE)
    BY <2>2 DEF Outcome
  <2> QED BY <1>9, <2>1, <2>2
<1>3. SUFFICES \E x \in Container \cup {None} : IsOutcome(x)
  BY <1>9
<1>4. CASE k.op \in {"sweep", "recreate"}
  <2>1. Outcomes(k, faulty) = RemoveOutcomes(c, faulty)
    BY <1>4 DEF Outcomes
  <2>2. IsOutcome(None) \/ IsOutcome(c) \/ (c # None /\ IsOutcome(Exited(c, TRUE)))
    BY <2>1 DEF RemoveOutcomes
  <2> QED BY <1>1, <1>2, <2>2
<1>5. CASE k.op \in {"stop", "restop"}
  <2>1. Outcomes(k, faulty) = StopOutcomes(c, faulty)
    BY <1>5 DEF Outcomes
  <2>2. \/ IsOutcome(None) \/ IsOutcome(c)
        \/ c # None /\ (IsOutcome(Exited(c, TRUE)) \/ IsOutcome(Exited(c, FALSE)))
    <3> HIDE DEF c
    <3>1. o \in StopOutcomes(c, faulty)
      BY <2>1
    <3>2. \/ \E b \in BOOLEAN : o \in {Outcome(None, b), Outcome(c, b)}
          \/ c # None /\ \E b, f \in BOOLEAN : o = Outcome(Exited(c, f), b)
      BY <3>1, StopLeaves
    <3> QED BY <3>2
  <2> QED BY <1>1, <1>2, <2>2
<1>6. CASE k.op = "start"
  <2>1. c # None => Started(c, FreshRun(k.name)) \in Container
    BY <1>1 DEF Started, Container, Ages
  <2>2. Outcomes(k, faulty) = StartOutcomes(c, FreshRun(k.name), faulty)
    BY <1>6 DEF Outcomes
  <2>3. \/ IsOutcome(None) \/ IsOutcome(c)
        \/ c # None /\ IsOutcome(Started(c, FreshRun(k.name)))
    BY <2>2 DEF StartOutcomes
  <2> QED BY <1>1, <2>1, <2>3
<1>7. CASE k.op = "run"
  <2>1. Hash(k.record.spec) \in Hashes
    BY <1>7, HashType DEF Call, Record
  <2>2. /\ NewContainer(k.record.spec, "running", FreshRun(k.name)) \in Container
        /\ NewContainer(k.record.spec, "created", 0) \in Container
    BY <1>1, <2>1 DEF NewContainer, Container, Ages
  <2>3. Outcomes(k, faulty) = RunOutcomes(c, k.record.spec, FreshRun(k.name), faulty)
    BY <1>7 DEF Outcomes
  <2>4. \/ IsOutcome(None) \/ IsOutcome(c)
        \/ IsOutcome(NewContainer(k.record.spec, "running", FreshRun(k.name)))
        \/ IsOutcome(NewContainer(k.record.spec, "created", 0))
    BY <2>3 DEF RunOutcomes
  <2> QED BY <1>1, <2>2, <2>4
<1>8. CASE k.op = "health"
  <2>1. Outcomes(k, faulty) = {Outcome(c, b) : b \in IF Running(c) THEN BOOLEAN ELSE {FALSE}}
    BY <1>8 DEF Outcomes
  <2>2. IsOutcome(c)
    BY <2>1
  <2> QED BY <1>1, <2>2
<1> QED BY <1>1, <1>4, <1>5, <1>6, <1>7, <1>8 DEF Ops

(* Carrying a call out keeps the engine's state well typed.                *)
LEMMA CarryType ==
  ASSUME TypeOK, NEW k \in Call, k.op = "run" => k.record # None,
         NEW faulty, NEW o \in Outcomes(k, faulty), Carry(k, o)
  PROVE  /\ ctr' \in [Names -> Container \cup {None}]
         /\ nets' \subseteq Projects
         /\ wanted' \subseteq Names
<1>1. o.ctr \in Container \cup {None}
  BY OutcomesType
<1>2. ctr' \in [Names -> Container \cup {None}]
  BY <1>1 DEF Carry, TypeOK, Call
<1>3. k.op = "run" => k.record.spec.project \in Projects
  BY DEF Call, Record, Service
<1>4. nets' \subseteq Projects
  BY <1>3 DEF Carry, NetsAfter, TypeOK
<1>5. wanted' \subseteq Names
  BY DEF Carry, TypeOK
<1> QED BY <1>2, <1>4, <1>5

(* Every tracking the pass computes is one.                                *)
LEMMA ForcedType == ZeroTracking \in Tracking /\ Forced \in Tracking
BY DEF ZeroTracking, Forced, Tracking, Phases

(* The entry of a name is a tracking; changing its times keeps it one.     *)
LEMMA TrackType ==
  ASSUME TypeOK, NEW n \in Names
  PROVE  track[n] \in Tracking
BY DEF TypeOK

(* A container that waits has a tracking.                                  *)
LEMMA WaitingType ==
  ASSUME NEW t \in Tracking
  PROVE  /\ [t EXCEPT !.phase = "waiting"] \in Tracking
         /\ [t EXCEPT !.force = FALSE, !.phase = "starting"] \in Tracking
         /\ [t EXCEPT !.restart = FALSE] \in Tracking
BY DEF Tracking, Phases

(* A tracking set to restart, or whose time has come, says the same of a   *)
(* run.                                                                    *)
LEMMA MarkFields ==
  ASSUME NEW t \in Tracking
  PROVE  \A u \in {[t EXCEPT !.restart = TRUE], [t EXCEPT !.due = TRUE],
                  [t EXCEPT !.check = "due"]} :
           u.phase = t.phase /\ u.health = t.health /\ u.healthRun = t.healthRun
<1>1. /\ [t EXCEPT !.restart = TRUE].phase = t.phase
      /\ [t EXCEPT !.restart = TRUE].health = t.health
      /\ [t EXCEPT !.restart = TRUE].healthRun = t.healthRun
  BY DEF Tracking
<1>2. /\ [t EXCEPT !.due = TRUE].phase = t.phase
      /\ [t EXCEPT !.due = TRUE].health = t.health
      /\ [t EXCEPT !.due = TRUE].healthRun = t.healthRun
  BY DEF Tracking
<1>3. /\ [t EXCEPT !.check = "due"].phase = t.phase
      /\ [t EXCEPT !.check = "due"].health = t.health
      /\ [t EXCEPT !.check = "due"].healthRun = t.healthRun
  BY DEF Tracking
<1> QED BY <1>1, <1>2, <1>3, Zenon

(* A tracking of a container seen running, confirmed or not.               *)
LEMMA ConfirmFields ==
  ASSUME NEW t \in Tracking, NEW c \in BOOLEAN
  PROVE  LET u == [t EXCEPT !.force = FALSE, !.phase = IF c THEN "running" ELSE "starting"]
         IN  u \in Tracking /\ u.phase # "fatal" /\ u.health = t.health
<1>1. PICK x \in {"running", "starting"} : x = IF c THEN "running" ELSE "starting"
  OBVIOUS
<1>2. PICK u : u = [t EXCEPT !.force = FALSE, !.phase = x]
  OBVIOUS
<1>3. u \in Tracking
  BY <1>2 DEF Tracking, Phases
<1>4. u.phase = x /\ u.health = t.health
  BY <1>2 DEF Tracking
<1> QED BY <1>1, <1>2, <1>3, <1>4

(* A tracking whose start succeeded.                                       *)
LEMMA StartFields ==
  ASSUME NEW t \in Tracking
  PROVE  LET u == [t EXCEPT !.force = FALSE, !.phase = "starting"]
         IN  /\ u \in Tracking /\ u.phase = "starting" /\ ~ u.force
             /\ u.startAttempts = t.startAttempts
<1> DEFINE u == [t EXCEPT !.force = FALSE, !.phase = "starting"]
<1>1. u \in Tracking
  BY WaitingType
<1>2. u.phase = "starting" /\ ~ u.force
  BY DEF Tracking
<1>3. u.startAttempts = t.startAttempts
  BY DEF Tracking
<1> QED BY <1>1, <1>2, <1>3

(* A tracking that forgets the health of its run.                          *)
LEMMA LowerFields ==
  ASSUME NEW t \in Tracking, NEW u,
         u = [t EXCEPT !.restart = FALSE, !.health = "", !.failures = 0, !.healthRun = 0,
                       !.check = "wait"]
  PROVE  /\ u \in Tracking /\ u.health = "" /\ u.phase = t.phase /\ u.force = t.force
         /\ u.startAttempts = t.startAttempts /\ u.handledExit = t.handledExit
<1>1. u \in Tracking
  BY DEF Tracking
<1>2. u.health = "" /\ u.phase = t.phase /\ u.force = t.force
  BY DEF Tracking
<1>3. u.startAttempts = t.startAttempts /\ u.handledExit = t.handledExit
  BY DEF Tracking
<1> QED BY <1>1, <1>2, <1>3

(* The exit of c is noted, a long run resetting the tallies.               *)
Noted(t, stamp, c) ==
  [t EXCEPT !.handledExit = stamp,
            !.startAttempts = IF c.ran = "long" THEN 0 ELSE @,
            !.restarts      = IF c.ran = "long" THEN 0 ELSE @]

(* It stays a tracking, of the same health.                                *)
LEMMA NotedFields ==
  ASSUME NEW t \in Tracking, NEW stamp \in Nat, NEW c
  PROVE  Noted(t, stamp, c) \in Tracking /\ Noted(t, stamp, c).health = t.health
<1>1. Noted(t, stamp, c) \in Tracking
  BY DEF Tracking, Noted
<1>2. Noted(t, stamp, c).health = t.health
  BY DEF Tracking, Noted
<1> QED BY <1>1, <1>2

(* A run that was not long leaves the tally as it was.                     *)
LEMMA NotedTally ==
  ASSUME NEW t \in Tracking, NEW stamp, NEW c, c.ran # "long"
  PROVE  /\ Noted(t, stamp, c).handledExit = stamp
         /\ Noted(t, stamp, c).startAttempts = t.startAttempts
<1>1. Noted(t, stamp, c).handledExit = stamp
  BY DEF Tracking, Noted
<1>2. Noted(t, stamp, c).startAttempts = t.startAttempts
  BY DEF Tracking, Noted
<1> QED BY <1>1, <1>2

(* The steps a branch of reconcile consists of, whatever it decides.       *)
LEMMA ReconcileForms ==
  ASSUME NEW n, Reconcile(n)
  PROVE  \/ \E t : Settle(n, t)
         \/ \E t, op : Issue(op, n, t)
         \/ \E t : StartStep(n, t)
<1>1. CASE Recreate(n)
  BY <1>1 DEF Recreate
<1>2. CASE ReconcileStopped(n)
  BY <1>2 DEF ReconcileStopped
<1>3. CASE ReconcileRestart(n)
  BY <1>3 DEF ReconcileRestart
<1>4. CASE ReconcileRunning(n)
  BY <1>4 DEF ReconcileRunning
<1>5. CASE ReconcileFreshStart(n)
  BY <1>5 DEF ReconcileFreshStart
<1>6. CASE ReconcileDecided(n)
  BY <1>6 DEF ReconcileDecided
<1>7. CASE ReconcileExit(n)
  BY <1>7 DEF ReconcileExit
<1> QED BY <1>1, <1>2, <1>3, <1>4, <1>5, <1>6, <1>7 DEF Reconcile

(* Forgetting the health of a run keeps a tracking.                        *)
LEMMA DownType ==
  ASSUME TypeOK, NEW n \in Names
  PROVE  Down(n) \in Tracking
BY TrackType, LowerFields DEF Down

(* The stamp of an exit is an instant.                                     *)
LEMMA StampType ==
  ASSUME TypeOK, NEW n \in Names, view[n] # None
  PROVE  ExitStamp(view[n]) \in Nat
BY DEF TypeOK, Container, ExitStamp

(* A container brought to a stop has a tracking.                           *)
LEMMA StoppedType ==
  ASSUME TypeOK, NEW n \in Names
  PROVE  Stopped(n) \in Tracking
<1>1. Observed(n) => ExitStamp(view[n]) \in Nat
  BY StampType DEF Observed
<1> QED BY <1>1, ForcedType DEF Stopped, Tracking, Phases

(* What an attempt, or an exit, that was counted becomes.                  *)
LEMMA GivenUpType ==
  ASSUME NEW t \in Tracking
  PROVE  /\ [t EXCEPT !.phase = "exited"] \in Tracking
         /\ [t EXCEPT !.phase = "fatal"] \in Tracking
         /\ [t EXCEPT !.phase = "backoff", !.due = FALSE] \in Tracking
         /\ [t EXCEPT !.startAttempts = @ + 1] \in Tracking
         /\ [t EXCEPT !.restarts = @ + 1] \in Tracking
         /\ [t EXCEPT !.force = FALSE, !.startAttempts = @ + 1] \in Tracking
<1>1. [t EXCEPT !.phase = "exited"] \in Tracking
  BY DEF Tracking, Phases
<1>2. [t EXCEPT !.phase = "fatal"] \in Tracking
  BY DEF Tracking, Phases
<1>3. [t EXCEPT !.phase = "backoff", !.due = FALSE] \in Tracking
  BY DEF Tracking, Phases
<1>7. t.startAttempts + 1 \in Nat /\ t.restarts + 1 \in Nat
  <2>1. t.startAttempts \in Nat /\ t.restarts \in Nat
    BY DEF Tracking
  <2> QED BY <2>1
<1>8. ASSUME NEW v \in Nat
      PROVE  /\ [t EXCEPT !.startAttempts = v] \in Tracking
             /\ [t EXCEPT !.restarts = v] \in Tracking
             /\ [t EXCEPT !.force = FALSE, !.startAttempts = v] \in Tracking
  BY DEF Tracking
<1>4. [t EXCEPT !.startAttempts = @ + 1] \in Tracking
  BY <1>7, <1>8
<1>5. [t EXCEPT !.restarts = @ + 1] \in Tracking
  BY <1>7, <1>8
<1>6. [t EXCEPT !.force = FALSE, !.startAttempts = @ + 1] \in Tracking
  BY <1>7, <1>8
<1> QED BY <1>1, <1>2, <1>3, <1>4, <1>5, <1>6

(* Judging an exit yields a tracking.                                      *)
LEMMA JudgedType ==
  ASSUME TypeOK, NEW n \in Names, Observed(n)
  PROVE  Judged(n) \in Tracking
<1> DEFINE c == view[n]
           t == [Down(n) EXCEPT !.handledExit = ExitStamp(c),
                   !.startAttempts = IF c.ran = "long" THEN 0 ELSE @,
                   !.restarts      = IF c.ran = "long" THEN 0 ELSE @]
           short == [t EXCEPT !.startAttempts = @ + 1]
           stop  == [t EXCEPT !.restarts = @ + 1]
<1>1. ExitStamp(c) \in Nat
  BY StampType DEF Observed
<1>2. t \in Tracking
  BY <1>1, DownType DEF Tracking
<1>3. \/ Judged(n) = [t EXCEPT !.phase = "exited"]
      \/ Judged(n) = [short EXCEPT !.phase = "fatal"]
      \/ Judged(n) = [short EXCEPT !.phase = "backoff", !.due = FALSE]
      \/ Judged(n) = [stop EXCEPT !.phase = "fatal"]
      \/ Judged(n) = [stop EXCEPT !.phase = "backoff", !.due = FALSE]
  BY DEF Judged
<1> HIDE DEF t
<1> QED BY <1>2, <1>3, GivenUpType

(* Counting a failed start yields a tracking.                              *)
LEMMA StartFailedType ==
  ASSUME NEW t \in Tracking
  PROVE  StartFailed(t) \in Tracking
<1> DEFINE u == [t EXCEPT !.force = FALSE, !.startAttempts = @ + 1]
<1>1. u \in Tracking
  BY GivenUpType
<1>2. \/ StartFailed(t) = [u EXCEPT !.phase = "fatal"]
      \/ StartFailed(t) = [u EXCEPT !.phase = "backoff", !.due = FALSE]
  BY DEF StartFailed
<1> HIDE DEF u
<1> QED BY <1>1, <1>2, GivenUpType

(* Counting the result of a health check yields a tracking.                *)
LEMMA CheckedType ==
  ASSUME TypeOK, NEW n \in Names, records[n] # None, NEW t \in CappedChecked(n)
  PROVE  t \in Tracking
<1> DEFINE w == [track[n] EXCEPT !.check = "wait"]
           f == [w EXCEPT !.failures = @ + 1]
<1>1. Sp(n).retries \in Nat
  BY SpecType DEF Service
<1>2. w \in Tracking
  BY TrackType DEF Tracking
<1>3. f \in Tracking
  <2> HIDE DEF w
  <2>3. w.failures \in Nat
    BY <1>2 DEF Tracking
  <2>1. w.failures + 1 \in Nat
    BY <2>3
  <2>2. ASSUME NEW v \in Nat PROVE [w EXCEPT !.failures = v] \in Tracking
    BY <1>2 DEF Tracking
  <2> QED BY <2>1, <2>2
<1>4. /\ [w EXCEPT !.health = "healthy", !.failures = 0] \in Tracking
      /\ [f EXCEPT !.health = "unhealthy"] \in Tracking
  BY <1>2, <1>3 DEF Tracking
<1>5. ASSUME NEW u \in Checked(n) PROVE u \in Tracking
  <2>1. \/ u = w \/ u = f
        \/ u = [w EXCEPT !.health = "healthy", !.failures = 0]
        \/ u = [f EXCEPT !.health = "unhealthy"]
    BY <1>5 DEF Checked
  <2> HIDE DEF w, f
  <2> QED BY <2>1, <1>2, <1>3, <1>4
<1>6. ASSUME NEW u \in Tracking
      PROVE  [u EXCEPT !.failures = IF @ > Sp(n).retries THEN Sp(n).retries ELSE @] \in Tracking
  BY <1>1 DEF Tracking
<1>7. PICK u \in Checked(n) :
        t = [u EXCEPT !.failures = IF @ > Sp(n).retries THEN Sp(n).retries ELSE @]
  BY DEF CappedChecked
<1> QED BY <1>5, <1>6, <1>7

-----------------------------------------------------------------------------
(* The ways a critical section of the pass ends.                           *)

(* The end of a reconcile keeps the type.                                  *)
LEMMA SettleType ==
  ASSUME TypeOK, NEW n \in Names, NEW t \in Tracking, Settle(n, t),
         tried' \in [Names -> Nat], wanted' \subseteq Names
  PROVE  TypeOK'
BY DEF TypeOK, Settle, engineVars

(* Issuing an engine call keeps the type.                                  *)
LEMMA IssueType ==
  ASSUME TypeOK, NEW n \in Names, NEW t \in Tracking, NEW op \in Ops, Issue(op, n, t),
         tried' \in [Names -> Nat], wanted' \subseteq Names
  PROVE  TypeOK'
<1>1. call' \in Call
  BY DEF Issue, NewCall, Call, TypeOK
<1> QED BY <1>1 DEF TypeOK, Issue, engineVars, passVars

(* The start of a container keeps the type.                                *)
LEMMA StartStepType ==
  ASSUME TypeOK, NEW n \in Names, NEW t \in Tracking, StartStep(n, t),
         tried' \in [Names -> Nat], wanted' \subseteq Names
  PROVE  TypeOK'
<1>1. CASE Held(n) \/ Unready(n)
  BY <1>1, WaitingType, SettleType DEF StartStep
<1>2. CASE ~ (Held(n) \/ Unready(n))
  <2>1. PICK op \in {"start", "run"} : Issue(op, n, t)
    BY <1>2 DEF StartStep
  <2> QED BY <2>1, IssueType DEF Ops
<1> QED BY <1>1, <1>2

(* Spending of a bound keeps the bounds natural numbers.                   *)
LEMMA SpendType ==
  ASSUME TypeOK, NEW what \in BoundKinds, Spend(what)
  PROVE  budget' \in [BoundKinds -> Nat]
<1>1. budget[what] \in Nat /\ budget[what] > 0
  BY DEF TypeOK, Spend
<1>2. budget[what] - 1 \in Nat
  BY <1>1
<1> QED BY <1>2 DEF TypeOK, Spend

(* What is known of a call that is in flight.                              *)
CallsOfRecords ==
  /\ Up \/ call = None
  /\ call # None /\ call.op # "sweep" => call.record # None
  /\ orphan # None /\ orphan.op = "run" => orphan.record # None

Flight == CallsOfRecords /\ InFlightCurrent

(* Every branch of reconcile keeps the type (supervisor.go, reconcile).    *)
LEMMA ReconcileType ==
  ASSUME TypeOK, NEW n \in Names, Reconcile(n)
  PROVE  TypeOK'
<1>1. CASE Recreate(n)
  BY <1>1, TrackType, IssueType DEF Recreate, Ops, TypeOK
<1>2. CASE ReconcileStopped(n)
  <2>1. CASE Observed(n) /\ Running(view[n])
    BY <1>2, <2>1, TrackType, IssueType DEF ReconcileStopped, Ops, TypeOK
  <2>2. CASE ~ (Observed(n) /\ Running(view[n]))
    BY <1>2, <2>2, StoppedType, SettleType DEF ReconcileStopped, TypeOK
  <2> QED BY <2>1, <2>2
<1>3. CASE ReconcileRestart(n)
  BY <1>3, TrackType, IssueType DEF ReconcileRestart, Ops, TypeOK
<1>4. CASE ReconcileRunning(n)
  <2> DEFINE up(c) == [track[n] EXCEPT !.force = FALSE,
                         !.phase = IF c THEN "running" ELSE "starting"]
             fresh(c) == IF up(c).healthRun = view[n].run THEN up(c)
                         ELSE [up(c) EXCEPT !.healthRun = view[n].run, !.health = "starting",
                                            !.failures = 0, !.check = "first"]
  <2>1. view[n] # None /\ view[n].run \in Nat
    BY <1>4 DEF ReconcileRunning, ObservedRunning, Observed, TypeOK, Container
  <2>2. ASSUME NEW c \in BOOLEAN PROVE up(c) \in Tracking
    BY TrackType, ConfirmFields
  <2>3. ASSUME NEW c \in BOOLEAN PROVE fresh(c) \in Tracking
    <3> HIDE DEF up
    <3> QED BY <2>1, <2>2 DEF Tracking
  <2>4. PICK c \in BOOLEAN :
          Settle(n, up(c)) \/ Issue("health", n, fresh(c)) \/ Settle(n, fresh(c))
    <3>1. Confirmations(n) \subseteq BOOLEAN
      BY DEF Confirmations
    <3> QED BY <1>4, <3>1 DEF ReconcileRunning
  <2>5. tried' \in [Names -> Nat] /\ wanted' \subseteq Names
    BY <1>4 DEF ReconcileRunning, TypeOK
  <2> HIDE DEF up, fresh
  <2> QED BY <2>2, <2>3, <2>4, <2>5, SettleType, IssueType DEF Ops
<1>5. CASE ReconcileFreshStart(n)
  <2>1. tried' \in [Names -> Nat] /\ wanted' \subseteq Names
    BY <1>5 DEF ReconcileFreshStart, TypeOK
  <2>2. PICK t \in {ZeroTracking, Down(n)} : Settle(n, t) \/ StartStep(n, t)
    BY <1>5 DEF ReconcileFreshStart
  <2> QED BY <2>1, <2>2, ForcedType, DownType, SettleType, StartStepType
<1>6. CASE ReconcileDecided(n)
  <2>1. tried' \in [Names -> Nat] /\ wanted' \subseteq Names
    BY <1>6 DEF ReconcileDecided, TypeOK
  <2>2. Settle(n, Down(n)) \/ StartStep(n, Down(n))
    BY <1>6 DEF ReconcileDecided
  <2> QED BY <2>1, <2>2, DownType, SettleType, StartStepType
<1>7. CASE ReconcileExit(n)
  <2>1. tried' \in [Names -> Nat] /\ wanted' \subseteq Names
    BY <1>7 DEF ReconcileExit, TypeOK
  <2>2. Observed(n)
    BY <1>7 DEF ReconcileExit, FreshStart
  <2> QED BY <1>7, <2>1, <2>2, JudgedType, SettleType DEF ReconcileExit
<1> QED BY <1>1, <1>2, <1>3, <1>4, <1>5, <1>6, <1>7 DEF Reconcile

(* Taking the result of an engine call keeps the type.                     *)
LEMMA ReturnType ==
  ASSUME TypeOK, Flight, Return
  PROVE  TypeOK'
<1> DEFINE n == call.name
<1>1. call # None /\ call \in Call /\ n \in Names
  BY DEF Return, ReturnSweep, ReturnStale, ReturnFailed, Leave, ReturnRecreate, ReturnStop,
         ReturnRestop, ReturnStart, ReturnHealth, Fresh, Returned, TypeOK, Call
<1> HIDE DEF n
<1>2. CASE ReturnSweep
  BY <1>2 DEF ReturnSweep, TypeOK, engineVars, memVars, passVars, histVars
<1>3. CASE ReturnStale \/ ReturnFailed
  BY <1>1, <1>3 DEF ReturnStale, ReturnFailed, Leave, n, TypeOK, engineVars, memVars
<1>5. CASE ReturnRecreate
  <2>1. view' = [view EXCEPT ![n] = None]
    BY <1>5 DEF ReturnRecreate, n
  <2>2. track' \in [Names -> Tracking] /\ tried' \in [Names -> Nat]
    BY <1>5, ForcedType DEF ReturnRecreate, TypeOK
  <2> QED BY <1>5, <2>1, <2>2 DEF ReturnRecreate, TypeOK, engineVars
<1>6. CASE ReturnStop
  BY <1>1, <1>6, StoppedType, SettleType DEF ReturnStop, n, TypeOK
<1>7. CASE ReturnRestop
  <2>1. tried' \in [Names -> Nat] /\ wanted' \subseteq Names
    BY <1>1, <1>7 DEF ReturnRestop, n, TypeOK
  <2>2. PICK t \in Tracking : StartStep(n, t)
    BY <1>1, <1>7, TrackType, WaitingType DEF ReturnRestop, n
  <2> QED BY <1>1, <2>1, <2>2, StartStepType
<1>8. CASE ReturnStart
  <2>1. wanted' \subseteq Names
    BY <1>8 DEF ReturnStart, TypeOK
  <2>2. tried[n] + 1 \in Nat
    BY <1>1 DEF TypeOK
  <2>3. tried' \in [Names -> Nat]
    BY <1>1, <1>8, <2>2 DEF ReturnStart, n, TypeOK
  <2>4. PICK t \in Tracking : Settle(n, t)
    BY <1>1, <1>8, TrackType, WaitingType, StartFailedType DEF ReturnStart, n
  <2> QED BY <1>1, <2>1, <2>3, <2>4, SettleType
<1>9. CASE ReturnHealth
  <2>1. records[n] # None
    BY <1>9 DEF ReturnHealth, Fresh, Returned, Flight, CallsOfRecords, InFlightCurrent, n
  <2>2. PICK t \in CappedChecked(n) : Settle(n, t)
    BY <1>9 DEF ReturnHealth, n
  <2>3. t \in Tracking
    BY <1>1, <2>1, CheckedType
  <2>4. tried' \in [Names -> Nat] /\ wanted' \subseteq Names
    BY <1>9 DEF ReturnHealth, TypeOK
  <2> QED BY <1>1, <2>2, <2>3, <2>4, SettleType
<1> QED BY <1>2, <1>3, <1>5, <1>6, <1>7, <1>8, <1>9 DEF Return

(* Every step of a pass keeps the type.                                    *)
LEMMA PassType ==
  ASSUME TypeOK, Flight, Pass
  PROVE  TypeOK'
<1>1. CASE List
  BY <1>1 DEF List, TypeOK, engineVars, memVars, callVars, histVars
<1>2. CASE BeginPass
  BY <1>2 DEF BeginPass, TypeOK, engineVars, memVars, callVars, histVars
<1>3. ASSUME NEW n \in Names, Sweep(n) PROVE TypeOK'
  <2>1. call' \in Call
    BY <1>3 DEF Sweep, NewCall, Call, Ops, TypeOK
  <2>2. view' \in [Names -> Container \cup {None}] /\ unswept' \subseteq Names
    BY <1>3 DEF Sweep, TypeOK
  <2> QED BY <1>3, <2>1, <2>2 DEF Sweep, TypeOK, engineVars, memVars, histVars
<1>4. CASE EndSweep
  BY <1>4 DEF EndSweep, Declared, TypeOK, engineVars, memVars, callVars, histVars
<1>5. CASE Skip
  BY <1>5 DEF Skip, TypeOK, engineVars, memVars, callVars, histVars
<1>6. CASE \E n \in Names : Reconcile(n)
  BY <1>6, ReconcileType
<1>7. CASE EndReconcile
  <2>1. keep' \subseteq Projects
    <3>1. \A n \in Declared(records) : records[n].spec.project \in Projects
      BY DEF Declared, TypeOK, Record, Service
    <3> QED BY <1>7, <3>1 DEF EndReconcile
  <2>2. view' \in [Names -> Container \cup {None}]
    BY <1>7 DEF EndReconcile, Empty
  <2> QED BY <1>7, <2>1, <2>2 DEF EndReconcile, TypeOK, engineVars, memVars, callVars, histVars
<1>8. CASE RemoveNetworks
  <2>1. budget' \in [BoundKinds -> Nat]
    BY <1>8, SpendType DEF RemoveNetworks, BoundKinds, TypeOK
  <2>2. nets' \subseteq nets
    BY <1>8 DEF RemoveNetworks
  <2> QED BY <1>8, <2>1, <2>2 DEF RemoveNetworks, TypeOK, memVars, callVars, histVars
<1>9. CASE EngineDo
  <2>1. call # None /\ call \in Call /\ (call.op = "run" => call.record # None)
    BY <1>9 DEF EngineDo, TypeOK, Flight, CallsOfRecords
  <2>2. PICK o \in Outcomes(call, Faulty) :
          /\ Carry(call, o)
          /\ call' = [call EXCEPT !.done = TRUE, !.ok = o.ok]
          /\ IF o \in Outcomes(call, FALSE) THEN UNCHANGED budget ELSE Spend("fault")
    BY <1>9 DEF EngineDo
  <2>3. o.ok \in BOOLEAN
    BY <2>1, OutcomesType
  <2>4. call' \in Call
    BY <2>1, <2>2, <2>3 DEF Call
  <2>5. budget' \in [BoundKinds -> Nat]
    BY <2>2, SpendType DEF BoundKinds, TypeOK
  <2>6. /\ ctr' \in [Names -> Container \cup {None}]
        /\ nets' \subseteq Projects
        /\ wanted' \subseteq Names
    BY <2>1, <2>2, CarryType
  <2> QED BY <1>9, <2>4, <2>5, <2>6 DEF EngineDo, TypeOK, memVars, passVars
<1>10. CASE Return
  BY <1>10, ReturnType
<1> QED
  BY <1>1, <1>2, <1>3, <1>4, <1>5, <1>6, <1>7, <1>8, <1>9, <1>10 DEF Pass

-----------------------------------------------------------------------------
(* Declarations: what the store calls put comes from the declared files.   *)

Grounded(F, D) ==
  /\ \A n \in Names : Does(D, "put", n) => \E f \in F : n \in Services(f)
  /\ \A p \in Projects : Does(D, "file", p) => \E f \in F : f.project = p

(* Storing a file stores services of that file.                            *)
LEMMA PutsGrounded ==
  ASSUME NEW F \in SUBSET Files, NEW D, NEW S, NEW T, NEW a, NEW b,
         D \subseteq Drops(a, S) \cup Forgets(b, T) \cup UNION {Puts(f) : f \in F}
  PROVE  Grounded(F, D)
<1>1. ASSUME NEW s \in D, s.op = "put" PROVE \E f \in F : s.on \in Services(f)
  BY <1>1 DEF Drops, Forgets, Puts
<1>2. ASSUME NEW s \in D, s.op = "file" PROVE \E f \in F : s.on = f.project
  BY <1>2 DEF Drops, Forgets, Puts
<1> QED BY <1>1, <1>2 DEF Grounded, Does

(* So do all the store calls of a declaration.                             *)
LEMMA StepsGrounded ==
  /\ \A f \in Files : \A D \in SUBSET DeclareSteps(f) : Grounded({f}, D)
  /\ \A F \in SUBSET Files : \A D \in SUBSET SetSteps(F) : Grounded(F, D)
  /\ \A p \in Projects : \A D \in SUBSET DeleteSteps(p) : Grounded({}, D)
<1>1. ASSUME NEW f \in Files, NEW D \in SUBSET DeclareSteps(f) PROVE Grounded({f}, D)
  <2>1. UNION {Puts(g) : g \in {f}} = Puts(f)
    OBVIOUS
  <2>2. D \subseteq Drops(3 * f.project + 4, OfProject(f.project) \ Services(f))
                      \cup Forgets(0, {}) \cup UNION {Puts(g) : g \in {f}}
    BY <2>1 DEF DeclareSteps
  <2> QED BY <2>2, PutsGrounded
<1>2. ASSUME NEW F \in SUBSET Files, NEW D \in SUBSET SetSteps(F) PROVE Grounded(F, D)
  BY PutsGrounded DEF SetSteps
<1>3. ASSUME NEW p \in Projects, NEW D \in SUBSET DeleteSteps(p) PROVE Grounded({}, D)
  <2>1. D \subseteq Drops(0, OfProject(p)) \cup Forgets(1, {p})
                      \cup UNION {Puts(g) : g \in {}}
    BY DEF DeleteSteps
  <2> QED BY <2>1, PutsGrounded
<1> QED BY <1>1, <1>2, <1>3

(* What store calls leave are records, files and trackings.                *)
LEMMA AfterType ==
  ASSUME TypeOK, NEW F \in SUBSET Files, NEW D, Grounded(F, D),
         NEW recs \in [Names -> Record \cup {None}],
         NEW projs \in [Projects -> Files \cup {None}]
  PROVE  /\ RecordsAfter(recs, F, D) \in [Names -> Record \cup {None}]
         /\ ProjectsAfter(projs, F, D) \in [Projects -> Files \cup {None}]
<1>1. ASSUME NEW n \in Names, Does(D, "put", n) PROVE SpecOf(F, n) \in Service
  BY <1>1, FilesAssumption DEF Grounded, SpecOf
<1>2. ASSUME NEW p \in Projects, Does(D, "file", p) PROVE FileOf(F, p) \in Files
  BY <1>2 DEF Grounded, FileOf
<1>3. RecordsAfter(recs, F, D) \in [Names -> Record \cup {None}]
  BY <1>1 DEF RecordsAfter, Record, TypeOK
<1>4. ProjectsAfter(projs, F, D) \in [Projects -> Files \cup {None}]
  BY <1>2 DEF ProjectsAfter
<1> QED BY <1>3, <1>4

(* The steps of a declaration that are done: those that memory has, and    *)
(* with them the one that failed once the store had it.                    *)
Done(F, D, E) == D \subseteq E /\ Commit(F, D) /\ StoreSteps(F, D, E)

(* All of a declaration, or a part of it, is done.                         *)
LEMMA CarriedSteps ==
  ASSUME NEW F, NEW steps,
         Carried(F, steps) \/ Completed(F, steps) \/ CutShort(F, steps)
  PROVE  \E D \in SUBSET steps, E \in SUBSET steps : Done(F, D, E)
<1>1. CASE Completed(F, steps)
  BY <1>1 DEF Completed, Done
<1>2. CASE CutShort(F, steps)
  BY <1>2 DEF CutShort, Prefixes, Done
<1> QED BY <1>1, <1>2 DEF Carried

(* What the store has after its calls, and what was asked, is well typed.  *)
LEMMA StoreStepsType ==
  ASSUME TypeOK, NEW F \in SUBSET Files, NEW D, NEW E, Grounded(F, E), StoreSteps(F, D, E)
  PROVE  /\ disk' \in [records  : [Names -> Record \cup {None}],
                       projects : [Projects -> Files \cup {None}], boot : BOOLEAN]
         /\ asked' \in [Names -> SUBSET States]
         /\ unsure' \subseteq {RecordKey(n) : n \in Names} \cup {ProjectKey(p) : p \in Projects}
<1>1. disk' \in [records  : [Names -> Record \cup {None}],
                projects : [Projects -> Files \cup {None}], boot : BOOLEAN]
  BY AfterType DEF StoreSteps, TypeOK
<1>2. ASSUME NEW C, NEW n \in Names PROVE AskedBy(C, n) \in States
  BY DEF AskedBy, States, TypeOK, Record
<1>3. asked' \in [Names -> SUBSET States]
  BY <1>2 DEF StoreSteps, TypeOK
<1>4. \A C : KeysOf(C) \subseteq {RecordKey(n) : n \in Names} \cup {ProjectKey(p) : p \in Projects}
  BY DEF KeysOf, TouchedBy
<1>5. unsure' \subseteq {RecordKey(n) : n \in Names} \cup {ProjectKey(p) : p \in Projects}
  BY <1>4 DEF StoreSteps, TypeOK
<1> QED BY <1>1, <1>3, <1>5

(* Carrying out store calls of a declaration keeps the type.               *)
LEMMA DoneType ==
  ASSUME TypeOK, NEW F \in SUBSET Files, NEW D, NEW E, Grounded(F, D), Grounded(F, E),
         Done(F, D, E), budget' \in [BoundKinds -> Nat], pending' \subseteq Requests
  PROVE  TypeOK'
<1>1. /\ records' \in [Names -> Record \cup {None}]
      /\ projects' \in [Projects -> Files \cup {None}]
  BY AfterType DEF Done, Commit, TypeOK
<1>2. track' \in [Names -> Tracking]
  BY ForcedType DEF Done, Commit, TrackAfter, TypeOK
<1>3. /\ tried' \in [Names -> Nat]
      /\ gaveUp' \subseteq Names /\ wanted' \subseteq Names
  BY DEF Done, Commit, TypeOK
<1>4. touched' \in BOOLEAN
  BY DEF Done, Commit, Touch, TypeOK
<1>5. StoreSteps(F, D, E)
  BY DEF Done
<1> QED
  BY <1>1, <1>2, <1>3, <1>4, <1>5, StoreStepsType DEF Done, Commit, TypeOK, engineVars, passVars

(* So does a declaration that a store call cut short.                      *)
LEMMA CarriedType ==
  ASSUME TypeOK, NEW F \in SUBSET Files, NEW steps, Carried(F, steps),
         \A D \in SUBSET steps : Grounded(F, D), pending' \subseteq Requests
  PROVE  TypeOK'
<1>1. budget' \in [BoundKinds -> Nat]
  BY SpendType DEF Carried, BoundKinds, TypeOK
<1>2. PICK D \in SUBSET steps, E \in SUBSET steps : Done(F, D, E)
  BY CarriedSteps
<1> QED BY <1>1, <1>2, DoneType

(* No API call lists, calls the engine or moves the pass.                  *)
LEMMA ApiQuiet == Api => UNCHANGED <<engineVars, passVars, call, orphan, left>>
<1> SUFFICES ASSUME Api PROVE UNCHANGED <<engineVars, passVars, call, orphan, left>>
  OBVIOUS
<1>1. ASSUME NEW F, NEW steps, Carried(F, steps) \/ Completed(F, steps) \/ CutShort(F, steps)
      PROVE  UNCHANGED <<engineVars, passVars, call, orphan, left>>
  <2>1. PICK D : Commit(F, D)
    BY <1>1, CarriedSteps DEF Done
  <2> QED BY <2>1 DEF Commit
<1> QED
  BY <1>1
  DEF Api, Start, Stop, Restart, SetDesired, SetDesiredFails, PutProject, PutProjects, Request,
      DeleteProject, FinishRequest, FinishRestart, FinishPut, FinishSet, callVars, histVars

(* Every API call keeps the type.                                          *)
LEMMA ApiType ==
  ASSUME TypeOK, Api
  PROVE  TypeOK'
<1>1. ASSUME NEW n \in Names, NEW desired \in {"running", "stopped"},
             NEW more \in SUBSET Requests, SetDesired(n, desired, more)
      PROVE  TypeOK'
  <2>1. records' \in [Names -> Record \cup {None}]
    BY <1>1 DEF SetDesired, TypeOK, Record
  <2>2. /\ disk' \in [records  : [Names -> Record \cup {None}],
                      projects : [Projects -> Files \cup {None}], boot : BOOLEAN]
        /\ unsure' \subseteq unsure
    BY <1>1, <2>1 DEF SetDesired, TypeOK
  <2>3. /\ track' \in [Names -> Tracking] /\ tried' \in [Names -> Nat]
        /\ gaveUp' \subseteq Names /\ wanted' \subseteq Names
        /\ asked' \in [Names -> SUBSET States]
    BY <1>1, ForcedType DEF SetDesired, States, TypeOK
  <2>4. budget' \in [BoundKinds -> Nat]
    BY <1>1, SpendType DEF SetDesired, BoundKinds
  <2>5. touched' \in BOOLEAN /\ pending' \subseteq Requests
    BY <1>1 DEF SetDesired, Touch, TypeOK
  <2> QED BY <1>1, <2>1, <2>2, <2>3, <2>4, <2>5
          DEF SetDesired, TypeOK, engineVars, passVars
<1>2. ASSUME NEW n \in Names, Start(n) \/ Stop(n) \/ Restart(n) PROVE TypeOK'
  <2>1. {RestartRequest(n)} \subseteq Requests
    BY DEF Requests
  <2> QED BY <1>1, <1>2, <2>1 DEF Start, Stop, Restart
<1>3. ASSUME NEW req \in Requests, NEW S, Request(req, S) PROVE TypeOK'
  <2>1. budget' \in [BoundKinds -> Nat]
    BY <1>3, SpendType DEF Request, BoundKinds
  <2> QED BY <1>3, <2>1 DEF Request, TypeOK, engineVars, memVars, passVars, callVars, histVars
<1>4. ASSUME NEW f \in Files, PutProject(f) PROVE TypeOK'
  BY <1>3, <1>4 DEF PutProject, Requests
<1>5. ASSUME NEW F \in SUBSET Files, PutProjects(F) PROVE TypeOK'
  BY <1>3, <1>5 DEF PutProjects, Requests
<1>6. ASSUME NEW p \in Projects, DeleteProject(p) PROVE TypeOK'
  <2>1. budget["api"] \in Nat /\ budget["fault"] \in Nat /\ budget["api"] > 0
    BY <1>6 DEF DeleteProject, TypeOK, BoundKinds
  <2>2. budget' \in [BoundKinds -> Nat]
    <3>1. budget["api"] - 1 \in Nat
      BY <2>1
    <3>2. budget["fault"] > 0 => budget["fault"] - 1 \in Nat
      BY <2>1
    <3> QED BY <1>6, <3>1, <3>2 DEF DeleteProject, TypeOK
  <2>3. PICK D \in SUBSET DeleteSteps(p), E \in SUBSET DeleteSteps(p) : Done({}, D, E)
    BY <1>6, CarriedSteps DEF DeleteProject
  <2>4. pending' \subseteq Requests
    BY <1>6 DEF DeleteProject, TypeOK
  <2> QED BY <2>2, <2>3, <2>4, StepsGrounded, DoneType
<1>7. ASSUME NEW n \in Names, FinishRestart(n) PROVE TypeOK'
  <2>3. [track[n] EXCEPT !.restart = TRUE] \in Tracking
    BY TrackType DEF Tracking
  <2>1. track' \in [Names -> Tracking]
    BY <1>7, <2>3 DEF FinishRestart, TypeOK
  <2>2. touched' \in BOOLEAN
    BY <1>7 DEF FinishRestart, Touch, TypeOK
  <2> QED BY <1>7, <2>1, <2>2 DEF FinishRestart, TypeOK, engineVars, passVars, histVars
<1>8. ASSUME NEW f \in Files, FinishPut(f) PROVE TypeOK'
  <2>1. pending' \subseteq Requests
    BY <1>8 DEF FinishPut, TypeOK
  <2>2. CASE Conflict(f)
    BY <1>8, <2>1, <2>2 DEF FinishPut, TypeOK, engineVars, memVars, passVars, callVars, histVars
  <2>3. CASE ~ Conflict(f)
    BY <1>8, <2>1, <2>3, StepsGrounded, CarriedType DEF FinishPut
  <2> QED BY <2>2, <2>3
<1>10. ASSUME NEW n \in Names, NEW desired \in {"running", "stopped"},
              SetDesiredFails(n, desired)
       PROVE  TypeOK'
  <2>1. /\ budget["api"] \in Nat /\ budget["api"] > 0
        /\ budget["fault"] \in Nat /\ budget["fault"] > 0
    BY <1>10 DEF SetDesiredFails, TypeOK, BoundKinds
  <2>2. budget["api"] - 1 \in Nat /\ budget["fault"] - 1 \in Nat
    BY <2>1
  <2>3. budget' \in [BoundKinds -> Nat]
    BY <1>10, <2>2 DEF SetDesiredFails, TypeOK
  <2>4. [records[n] EXCEPT !.desired = desired] \in Record
    BY <1>10 DEF SetDesiredFails, TypeOK, Record
  <2>5. disk' \in [records  : [Names -> Record \cup {None}],
                   projects : [Projects -> Files \cup {None}], boot : BOOLEAN]
    BY <1>10, <2>4 DEF SetDesiredFails, TypeOK
  <2>6. /\ asked' \in [Names -> SUBSET States]
        /\ unsure' \subseteq {RecordKey(m) : m \in Names} \cup {ProjectKey(p) : p \in Projects}
    BY <1>10 DEF SetDesiredFails, States, TypeOK
  <2> QED BY <1>10, <2>3, <2>5, <2>6
          DEF SetDesiredFails, TypeOK, engineVars, memVars, passVars, callVars
<1>9. ASSUME NEW F \in SUBSET Files, FinishSet(F) PROVE TypeOK'
  <2>1. pending' \subseteq Requests
    BY <1>9 DEF FinishSet, TypeOK
  <2> QED BY <1>9, <2>1, StepsGrounded, CarriedType DEF FinishSet
<1> QED
  BY <1>2, <1>4, <1>5, <1>6, <1>7, <1>8, <1>9, <1>10 DEF Api, FinishRequest

-----------------------------------------------------------------------------

(* A daemon that is down knows nothing.                                    *)
LEMMA MemoryLostType ==
  ASSUME MemoryLost
  PROVE  /\ pc' = "down" /\ view' \in [Names -> Container \cup {None}]
         /\ unswept' \subseteq Names /\ todo' \subseteq Names /\ keep' \subseteq Projects
         /\ call' \in Call \cup {None} /\ touched' \in BOOLEAN /\ pending' \subseteq Requests
         /\ records' \in [Names -> Record \cup {None}]
         /\ projects' \in [Projects -> Files \cup {None}]
         /\ track' \in [Names -> Tracking]
         /\ tried' \in [Names -> Nat] /\ left' \subseteq Names
BY ForcedType DEF MemoryLost, Empty

(* What becomes of the call in flight at a crash is well typed.            *)
LEMMA AbandonCallType ==
  ASSUME TypeOK, Flight, AbandonCall
  PROVE  /\ ctr' \in [Names -> Container \cup {None}]
         /\ nets' \subseteq Projects
         /\ wanted' \subseteq Names
         /\ orphan' \in Call \cup {None}
<1>1. CASE UNCHANGED <<engineVars, orphan, wanted>>
  BY <1>1 DEF TypeOK, engineVars
<1>2. CASE ~ UNCHANGED <<engineVars, orphan, wanted>>
  <2>1. call # None /\ call \in Call /\ (call.op = "run" => call.record # None)
    BY <1>2 DEF AbandonCall, TypeOK, Flight, CallsOfRecords
  <2>2. CASE UNCHANGED <<engineVars, wanted>> /\ orphan' = IF orphan = None THEN call ELSE orphan
    BY <2>1, <2>2 DEF TypeOK, engineVars
  <2>3. CASE \E o \in Outcomes(call, TRUE) : Carry(call, o) /\ UNCHANGED orphan
    BY <2>1, <2>3, CarryType DEF TypeOK
  <2> QED BY <1>2, <2>2, <2>3 DEF AbandonCall
<1> QED BY <1>1, <1>2

(* Crashes, reboots and what outlives them keep the type.                  *)
LEMMA FailureType ==
  ASSUME TypeOK, Flight, Failure
  PROVE  TypeOK'
<1>1. CASE Crash
  <2>1. budget' \in [BoundKinds -> Nat]
    BY <1>1, SpendType DEF Crash, BoundKinds
  <2> QED BY <1>1, <2>1, MemoryLostType, AbandonCallType DEF Crash, TypeOK
<1>2. ASSUME NEW F \in SUBSET Files, NEW steps, CrashWhileStoring(F, steps),
             \A D \in SUBSET steps : Grounded(F, D)
      PROVE  TypeOK'
  <2>1. PICK D \in SUBSET steps : StoreSteps(F, D, D) /\ gaveUp' = gaveUp \ TouchedBy(D)
    BY <1>2 DEF CrashWhileStoring, Prefixes
  <2>2. /\ disk' \in [records  : [Names -> Record \cup {None}],
                      projects : [Projects -> Files \cup {None}], boot : BOOLEAN]
        /\ asked' \in [Names -> SUBSET States]
        /\ unsure' \subseteq {RecordKey(n) : n \in Names} \cup {ProjectKey(p) : p \in Projects}
    BY <1>2, <2>1, StoreStepsType
  <2>3. gaveUp' \subseteq Names
    BY <2>1 DEF TypeOK
  <2>4. budget' \in [BoundKinds -> Nat]
    BY <1>2, SpendType DEF CrashWhileStoring, BoundKinds
  <2>5. MemoryLost /\ AbandonCall
    BY <1>2 DEF CrashWhileStoring
  <2> QED BY <2>2, <2>3, <2>4, <2>5, MemoryLostType, AbandonCallType DEF TypeOK
<1>3. CASE CrashWhileDeclaring
  BY <1>2, <1>3, StepsGrounded DEF CrashWhileDeclaring
<1>4. CASE OrphanEnds
  <2>1. orphan # None /\ orphan \in Call /\ (orphan.op = "run" => orphan.record # None)
    BY <1>4 DEF OrphanEnds, TypeOK, Flight, CallsOfRecords
  <2>2. PICK o \in Outcomes(orphan, Faulty) :
          /\ Carry(orphan, o)
          /\ IF o \in Outcomes(orphan, FALSE) THEN UNCHANGED budget ELSE Spend("fault")
    BY <1>4 DEF OrphanEnds
  <2>3. budget' \in [BoundKinds -> Nat]
    BY <2>2, SpendType DEF BoundKinds, TypeOK
  <2>4. /\ ctr' \in [Names -> Container \cup {None}]
        /\ nets' \subseteq Projects
        /\ wanted' \subseteq Names
    BY <2>1, <2>2, CarryType
  <2>5. tried' \in [Names -> Nat]
    BY <1>4 DEF OrphanEnds, TypeOK
  <2> QED BY <1>4, <2>3, <2>4, <2>5 DEF OrphanEnds, TypeOK, memVars, passVars, callVars
<1>5. CASE Reboot
  <2>1. ASSUME NEW c \in Container \cup {None} PROVE Rebooted(c) \in Container \cup {None}
    <3>1. CASE c \in Container /\ c # None /\ Running(c)
      <4>1. Exited(c, TRUE) \in Container
        BY <3>1 DEF Exited, Container
      <4> QED BY <3>1, <4>1 DEF Rebooted, Container
    <3>2. CASE c \in Container /\ c # None /\ ~ Running(c)
      BY <3>2 DEF Rebooted, Container
    <3> QED BY <3>1, <3>2 DEF Rebooted
  <2>2. ctr' \in [Names -> Container \cup {None}]
    BY <1>5, <2>1 DEF Reboot, TypeOK
  <2>3. budget' \in [BoundKinds -> Nat]
    BY <1>5, SpendType DEF Reboot, BoundKinds
  <2>4. disk' \in [records  : [Names -> Record \cup {None}],
                   projects : [Projects -> Files \cup {None}], boot : BOOLEAN]
    BY <1>5 DEF Reboot, TypeOK
  <2>5. asked' \in [Names -> SUBSET States]
    BY <1>5 DEF Reboot, States, TypeOK
  <2> QED BY <1>5, <2>2, <2>3, <2>4, <2>5, MemoryLostType DEF Reboot, TypeOK
<1>6. CASE BootInterrupted
  <2>1. ASSUME NEW S \in SUBSET Declared(disk.records)
        PROVE  ToRunAgain(disk.records, S) \in [Names -> Record \cup {None}]
    BY DEF ToRunAgain, Declared, TypeOK, Record
  <2>2. disk' \in [records  : [Names -> Record \cup {None}],
                   projects : [Projects -> Files \cup {None}], boot : BOOLEAN]
    BY <1>6, <2>1 DEF BootInterrupted, TypeOK
  <2>3. budget' \in [BoundKinds -> Nat]
    BY <1>6, SpendType DEF BootInterrupted, BoundKinds
  <2> QED BY <1>6, <2>2, <2>3
          DEF BootInterrupted, TypeOK, engineVars, memVars, passVars, callVars, histVars
<1> QED BY <1>1, <1>3, <1>4, <1>5, <1>6 DEF Failure

(* What New loads are records.                                             *)
LEMMA LoadedType ==
  ASSUME TypeOK
  PROVE  Loaded \in [Names -> Record \cup {None}]
BY DEF Loaded, ToRunAgain, Declared, TypeOK, Record

(* The start of the daemon keeps the type.                                 *)
LEMMA StartDaemonType ==
  ASSUME TypeOK, StartDaemon
  PROVE  TypeOK'
<1>1. disk' \in [records  : [Names -> Record \cup {None}],
                 projects : [Projects -> Files \cup {None}], boot : BOOLEAN]
  BY LoadedType DEF StartDaemon, TypeOK
<1> QED BY <1>1, LoadedType DEF StartDaemon, TypeOK, engineVars, callVars, histVars

(* What containers and people do keeps the type.                           *)
LEMMA EnvironmentType ==
  ASSUME TypeOK, Environment
  PROVE  TypeOK'
<1> PICK n \in Names :
      \/ ContainerExits(n) \/ RunConfirmed(n) \/ RunIsLong(n)
      \/ GapEnds(n) \/ CheckComesDue(n)
      \/ HandRun(n) \/ HandStart(n) \/ HandRemove(n)
  BY DEF Environment
<1>1. ctr[n] # None => ctr[n] \in Container
  BY DEF TypeOK
<1>2. CASE ContainerExits(n)
  <2>1. ctr' \in [Names -> Container \cup {None}]
    <3>1. PICK failed \in BOOLEAN : ctr' = [ctr EXCEPT ![n] = Exited(@, failed)]
      BY <1>2 DEF ContainerExits
    <3>2. Exited(ctr[n], failed) \in Container
      BY <1>1, <1>2 DEF ContainerExits, Running, Exited, Container
    <3> QED BY <3>1, <3>2 DEF TypeOK
  <2>2. budget' \in [BoundKinds -> Nat]
    BY <1>2, SpendType DEF ContainerExits, BoundKinds
  <2> QED BY <1>2, <2>1, <2>2
          DEF ContainerExits, TypeOK, memVars, passVars, callVars, histVars
<1>3. CASE RunConfirmed(n)
  <2>1. [ctr[n] EXCEPT !.ran = "ok"] \in Container
    BY <1>1, <1>3 DEF RunConfirmed, Running, Container, Ages
  <2>2. ctr' \in [Names -> Container \cup {None}] /\ tried' \in [Names -> Nat]
    BY <1>3, <2>1 DEF RunConfirmed, TypeOK
  <2> QED BY <1>3, <2>2 DEF RunConfirmed, TypeOK, memVars, passVars, callVars
<1>4. CASE RunIsLong(n)
  <2>1. [ctr[n] EXCEPT !.ran = "long"] \in Container
    BY <1>1, <1>4 DEF RunIsLong, Running, Container, Ages
  <2>2. ctr' \in [Names -> Container \cup {None}]
    BY <1>4, <2>1 DEF RunIsLong, TypeOK
  <2> QED BY <1>4, <2>2 DEF RunIsLong, TypeOK, memVars, passVars, callVars, histVars
<1>5. CASE GapEnds(n)
  <2>1. [track[n] EXCEPT !.due = TRUE] \in Tracking
    BY TrackType DEF Tracking
  <2>2. track' \in [Names -> Tracking]
    BY <1>5, <2>1 DEF GapEnds, TypeOK
  <2> QED BY <1>5, <2>2 DEF GapEnds, TypeOK, engineVars, passVars, callVars, histVars
<1>6. CASE CheckComesDue(n)
  <2>1. [track[n] EXCEPT !.check = "due"] \in Tracking
    BY TrackType DEF Tracking
  <2>2. track' \in [Names -> Tracking]
    BY <1>6, <2>1 DEF CheckComesDue, TypeOK
  <2> QED BY <1>6, <2>2 DEF CheckComesDue, TypeOK, engineVars, passVars, callVars, histVars
<1>7. ASSUME NEW c \in Container \cup {None}, ByHand(n, c) PROVE TypeOK'
  <2>1. budget' \in [BoundKinds -> Nat]
    BY <1>7, SpendType DEF ByHand, BoundKinds
  <2>2. /\ ctr' \in [Names -> Container \cup {None}]
        /\ tried' \in [Names -> Nat] /\ wanted' \subseteq Names
    BY <1>7 DEF ByHand, TypeOK
  <2> QED BY <1>7, <2>1, <2>2 DEF ByHand, TypeOK, memVars, passVars, callVars
<1>8. FreshRun(n) \in Nat
  BY FreshRunType
<1>9. HandContainer(FreshRun(n)) \in Container
  BY <1>8 DEF HandContainer, Container, Ages
<1>10. ctr[n] # None => Started(ctr[n], FreshRun(n)) \in Container
  BY <1>1, <1>8 DEF Started, Container, Ages
<1>11. CASE HandRun(n) \/ HandStart(n) \/ HandRemove(n)
  BY <1>7, <1>9, <1>10, <1>11 DEF HandRun, HandStart, HandRemove
<1> QED BY <1>2, <1>3, <1>4, <1>5, <1>6, <1>11

-----------------------------------------------------------------------------
(* The unlocked protocol.  A call in flight about a container is about one *)
(* that is declared, since the pass decides it from a record, and only a   *)
(* call that touches the container changes that record or its tracking.    *)

(* The end of a reconcile leaves no call in flight.                        *)
LEMMA SettleFlight ==
  ASSUME Flight, NEW n, NEW t, Settle(n, t)
  PROVE  Flight'
BY DEF Flight, CallsOfRecords, InFlightCurrent, Settle

(* A call that is issued is decided from what is known now.                *)
LEMMA IssueFlight ==
  ASSUME TypeOK, Flight, NEW n \in Names, NEW t, NEW op, Issue(op, n, t), Up, records[n] # None
  PROVE  Flight'
<1>1. /\ call' # None => call'.name = n /\ call'.record = records[n] /\ call'.track = t
      /\ track'[n] = t
      /\ UNCHANGED <<records, pc, orphan>>
  BY DEF Issue, NewCall, TypeOK, passVars
<1> QED BY <1>1 DEF Flight, CallsOfRecords, InFlightCurrent, Up

(* So is one that start issues.                                            *)
LEMMA StartStepFlight ==
  ASSUME TypeOK, Flight, NEW n \in Names, NEW t, StartStep(n, t), Up, records[n] # None
  PROVE  Flight'
BY SettleFlight, IssueFlight DEF StartStep

(* A step that leaves calls, and what they were decided from, alone.       *)
LEMMA QuietFlight ==
  ASSUME Flight, UNCHANGED <<records, track, call, touched, orphan>>, Up => Up'
  PROVE  Flight'
BY DEF Flight, CallsOfRecords, InFlightCurrent, Timeless

(* Without a call in flight there is nothing to overwrite.                 *)
LEMMA NoCallFlight ==
  ASSUME Flight, call' = None, orphan' \in {orphan, None}
  PROVE  Flight'
BY DEF Flight, CallsOfRecords, InFlightCurrent

(* A step that touches each container whose record or tracking it changes. *)
LEMMA TouchFlight ==
  ASSUME TypeOK, Flight, UNCHANGED <<pc, call, orphan>>, NEW S \in SUBSET Names, Touch(S),
         \A n \in Names \ S : records'[n] = records[n] /\ track'[n] = track[n]
  PROVE  Flight'
<1>1. call # None => call.name \in Names
  BY DEF TypeOK, Call
<1>2. CallsOfRecords'
  BY DEF Flight, CallsOfRecords, Up
<1>3. InFlightCurrent'
  <2> SUFFICES ASSUME call # None, call.op # "sweep", ~ touched'
               PROVE  /\ records'[call.name] = call.record
                      /\ Timeless(track'[call.name]) = Timeless(call.track)
    BY DEF InFlightCurrent, Timeless
  <2>1. ~ touched /\ call.name \notin S
    BY DEF Touch, TypeOK
  <2> QED BY <1>1, <2>1 DEF Flight, InFlightCurrent
<1> QED BY <1>2, <1>3 DEF Flight

(* Store calls mark every container they change, so that a call about one  *)
(* is stale.                                                               *)
LEMMA CommitFlight ==
  ASSUME TypeOK, Flight, NEW F, NEW D, Commit(F, D)
  PROVE  Flight'
<1>1. \A n \in Names \ TouchedBy(D) : records'[n] = records[n] /\ track'[n] = track[n]
  BY DEF Commit, RecordsAfter, TrackAfter, TouchedBy
<1>2. Touch(TouchedBy(D)) /\ UNCHANGED <<pc, call, orphan>> /\ TouchedBy(D) \subseteq Names
  BY DEF Commit, TouchedBy, passVars
<1> QED BY <1>1, <1>2, TouchFlight

(* No step of a pass breaks the protocol.                                  *)
LEMMA PassFlight ==
  ASSUME TypeOK, Flight, Pass
  PROVE  Flight'
<1>1. ASSUME NEW n \in Names, Sweep(n) PROVE Flight'
  BY <1>1 DEF Sweep, NewCall, Flight, CallsOfRecords, InFlightCurrent, Up
<1>2. ASSUME NEW n \in Names, Reconcile(n) PROVE Flight'
  <2>1. records[n] # None /\ Up
    BY <1>2 DEF Up, Reconcile, Recreate, ReconcileStopped, ReconcileRestart, ReconcileRunning,
                ReconcileFreshStart, ReconcileDecided, ReconcileExit, NotRunning, ToRun, Turn
  <2>2. \/ \E t : Settle(n, t)
        \/ \E t, op : Issue(op, n, t)
        \/ \E t : StartStep(n, t)
    BY <1>2 DEF Reconcile, Recreate, ReconcileStopped, ReconcileRestart, ReconcileRunning,
                ReconcileFreshStart, ReconcileDecided, ReconcileExit
  <2> QED BY <2>1, <2>2, SettleFlight, IssueFlight, StartStepFlight
<1>3. CASE EngineDo
  <2>1. /\ call # None /\ call \in Call /\ UNCHANGED <<records, track, pc, touched, orphan>>
        /\ \E b : call' = [call EXCEPT !.done = TRUE, !.ok = b]
    BY <1>3 DEF EngineDo, TypeOK, memVars, passVars
  <2>2. /\ call'.op = call.op /\ call'.name = call.name
        /\ call'.record = call.record /\ call'.track = call.track
    BY <2>1 DEF Call
  <2> QED BY <2>1, <2>2 DEF Flight, CallsOfRecords, InFlightCurrent, Timeless, Up
<1>4. CASE Return
  <2>1. CASE ReturnSweep \/ ReturnStale \/ ReturnFailed \/ ReturnRecreate
    BY <2>1, NoCallFlight DEF ReturnSweep, ReturnStale, ReturnFailed, Leave, ReturnRecreate
  <2>2. CASE ReturnStop \/ ReturnStart \/ ReturnHealth
    BY <2>2, SettleFlight DEF ReturnStop, ReturnStart, ReturnHealth
  <2>3. CASE ReturnRestop
    <3>1. call.name \in Names /\ records[call.name] # None /\ Up
      BY <2>3 DEF ReturnRestop, Fresh, Returned, TypeOK, Call, Flight, CallsOfRecords,
                  InFlightCurrent
    <3> QED BY <2>3, <3>1, StartStepFlight DEF ReturnRestop
  <2> QED BY <1>4, <2>1, <2>2, <2>3 DEF Return
<1>5. CASE List \/ BeginPass \/ EndSweep \/ Skip \/ EndReconcile \/ RemoveNetworks
  <2>1. UNCHANGED <<records, track, call, touched, orphan>> /\ (Up => Up')
    BY <1>5 DEF List, BeginPass, EndSweep, Skip, EndReconcile, RemoveNetworks, memVars, callVars,
                Up
  <2> QED BY <2>1, QuietFlight
<1> QED BY <1>1, <1>2, <1>3, <1>4, <1>5 DEF Pass

(* No API call breaks the protocol.                                        *)
LEMMA ApiFlight ==
  ASSUME TypeOK, Flight, Api
  PROVE  Flight'
<1>1. ASSUME NEW n \in Names, NEW desired, NEW more, SetDesired(n, desired, more)
      PROVE  Flight'
  <2>1. \A m \in Names \ {n} : records'[m] = records[m] /\ track'[m] = track[m]
    BY <1>1 DEF SetDesired, TypeOK
  <2> QED BY <1>1, <2>1, TouchFlight DEF SetDesired, passVars
<1>2. ASSUME NEW n \in Names, Start(n) \/ Stop(n) \/ Restart(n) PROVE Flight'
  BY <1>1, <1>2 DEF Start, Stop, Restart
<1>3. ASSUME NEW req, NEW S, Request(req, S) PROVE Flight'
  BY <1>3, QuietFlight DEF Request, memVars, passVars, callVars, Up
<1>4. ASSUME NEW n \in Names, FinishRestart(n) PROVE Flight'
  <2>1. \A m \in Names \ {n} : records'[m] = records[m] /\ track'[m] = track[m]
    BY <1>4 DEF FinishRestart, TypeOK
  <2> QED BY <1>4, <2>1, TouchFlight DEF FinishRestart, passVars
<1>5. ASSUME NEW F, NEW steps, Carried(F, steps) PROVE Flight'
  BY <1>5, CarriedSteps, CommitFlight DEF Done
<1>6. ASSUME NEW f \in Files, FinishPut(f) PROVE Flight'
  BY <1>5, <1>6, QuietFlight DEF FinishPut, memVars, passVars, callVars, Up
<1>7. ASSUME NEW F \in SUBSET Files, FinishSet(F) PROVE Flight'
  BY <1>5, <1>7 DEF FinishSet
<1>8. ASSUME NEW p \in Projects, DeleteProject(p) PROVE Flight'
  BY <1>8, CarriedSteps, CommitFlight DEF DeleteProject, Done
<1>9. ASSUME NEW n \in Names, NEW desired, SetDesiredFails(n, desired) PROVE Flight'
  BY <1>9, QuietFlight DEF SetDesiredFails, memVars, passVars, callVars, Up
<1> QED BY <1>2, <1>3, <1>4, <1>6, <1>7, <1>8, <1>9 DEF Api, PutProject, PutProjects, FinishRequest

(* No crash breaks the protocol.                                           *)
LEMMA FailureFlight ==
  ASSUME TypeOK, Flight, Failure
  PROVE  Flight'
<1>1. ASSUME MemoryLost, AbandonCall PROVE Flight'
  <2>1. call' = None
    BY <1>1 DEF MemoryLost
  <2>2. orphan' = orphan \/ (call # None /\ orphan' = call)
    BY <1>1 DEF AbandonCall
  <2> QED BY <2>1, <2>2 DEF Flight, CallsOfRecords, InFlightCurrent
<1>2. CASE Crash \/ CrashWhileDeclaring
  BY <1>1, <1>2 DEF Crash, CrashWhileDeclaring, CrashWhileStoring
<1>3. CASE Reboot
  BY <1>3, NoCallFlight DEF Reboot, MemoryLost
<1>4. CASE OrphanEnds
  BY <1>4 DEF OrphanEnds, memVars, passVars, callVars, Flight, CallsOfRecords, InFlightCurrent,
              Timeless, Up
<1>5. CASE BootInterrupted
  BY <1>5, QuietFlight DEF BootInterrupted, memVars, passVars, callVars, Up
<1> QED BY <1>2, <1>3, <1>4, <1>5 DEF Failure

(* Time only changes the deadlines of a tracking.                          *)
LEMMA EnvironmentFlight ==
  ASSUME TypeOK, Flight, Environment
  PROVE  Flight'
<1> PICK n \in Names :
      \/ ContainerExits(n) \/ RunConfirmed(n) \/ RunIsLong(n)
      \/ GapEnds(n) \/ CheckComesDue(n)
      \/ HandRun(n) \/ HandStart(n) \/ HandRemove(n)
  BY DEF Environment
<1>1. CASE \/ ContainerExits(n) \/ RunConfirmed(n) \/ RunIsLong(n)
           \/ HandRun(n) \/ HandStart(n) \/ HandRemove(n)
  BY <1>1, QuietFlight DEF ContainerExits, RunConfirmed, RunIsLong, HandRun, HandStart,
                           HandRemove, ByHand, memVars, passVars, callVars, Up
<1>2. CASE GapEnds(n) \/ CheckComesDue(n)
  <2>1. \A t \in Tracking : /\ Timeless([t EXCEPT !.due = TRUE]) = Timeless(t)
                           /\ Timeless([t EXCEPT !.check = "due"]) = Timeless(t)
    BY DEF Timeless, Tracking
  <2>2. \A m \in Names : Timeless(track'[m]) = Timeless(track[m])
    <3> TAKE m \in Names
    <3>1. track[n] \in Tracking /\ track \in [Names -> Tracking]
      BY DEF TypeOK
    <3>2. CASE GapEnds(n)
      <4>1. track' = [track EXCEPT ![n] = [track[n] EXCEPT !.due = TRUE]]
        BY <3>2 DEF GapEnds
      <4> QED BY <2>1, <3>1, <4>1
    <3>3. CASE CheckComesDue(n)
      <4>1. track' = [track EXCEPT ![n] = [track[n] EXCEPT !.check = "due"]]
        BY <3>3 DEF CheckComesDue
      <4> QED BY <2>1, <3>1, <4>1
    <3> QED BY <1>2, <3>2, <3>3
  <2>3. UNCHANGED <<records, pc, call, touched, orphan>>
    BY <1>2 DEF GapEnds, CheckComesDue, passVars, callVars
  <2>4. call # None => call.name \in Names
    BY DEF TypeOK, Call
  <2>5. CallsOfRecords'
    BY <2>3 DEF Flight, CallsOfRecords, Up
  <2>6. InFlightCurrent'
    <3> SUFFICES ASSUME call # None, call.op # "sweep", ~ touched
                 PROVE  /\ records[call.name] = call.record
                        /\ Timeless(track'[call.name]) = Timeless(call.track)
      BY <2>3 DEF InFlightCurrent, Timeless
    <3> QED BY <2>2, <2>4 DEF Flight, InFlightCurrent
  <2> QED BY <2>5, <2>6 DEF Flight
<1> QED BY <1>1, <1>2

-----------------------------------------------------------------------------
(* The type invariant and the unlocked protocol, which need each other: an *)
(* engine call is well typed because it was decided from a record.         *)

Inv == TypeOK /\ Flight

(* A daemon that has not started satisfies the invariant.                  *)
LEMMA InitInv == Init => Inv
<1> SUFFICES ASSUME Init PROVE Inv
  OBVIOUS
<1>1. InstalledRecords \in [Names -> Record \cup {None}]
  BY FilesAssumption, InstalledAssumption DEF InstalledRecords, SpecOf, Record
<1>2. InstalledProjects \in [Projects -> Files \cup {None}]
  BY InstalledAssumption DEF InstalledProjects, FileOf
<1>3. Bounds \in [BoundKinds -> Nat]
  BY BoundsAssumption DEF Bounds, BoundKinds
<1>6. \A n \in Names : {State(InstalledRecords[n])} \subseteq States
  BY <1>1 DEF State, States, Record
<1>7. asked \in [Names -> SUBSET States]
  BY <1>6 DEF Init
<1>4. TypeOK
  BY <1>1, <1>2, <1>3, <1>7, ForcedType DEF Init, TypeOK, Empty
<1>5. Flight
  BY DEF Init, Flight, CallsOfRecords, InFlightCurrent
<1> QED BY <1>4, <1>5 DEF Inv

(* Every step keeps the invariant.                                         *)
LEMMA NextInv == Inv /\ [Next]_vars => Inv'
<1> SUFFICES ASSUME Inv, [Next]_vars PROVE Inv'
  OBVIOUS
<1> TypeOK /\ Flight
  BY DEF Inv
<1>1. CASE Pass
  BY <1>1, PassType, PassFlight DEF Inv
<1>2. CASE Api
  BY <1>2, ApiType, ApiFlight DEF Inv
<1>3. CASE Failure
  BY <1>3, FailureType, FailureFlight DEF Inv
<1>4. CASE StartDaemon
  <2>1. Flight'
    BY <1>4 DEF StartDaemon, callVars, Flight, CallsOfRecords, InFlightCurrent, Up
  <2> QED BY <1>4, <2>1, StartDaemonType DEF Inv
<1>5. CASE Environment
  BY <1>5, EnvironmentType, EnvironmentFlight DEF Inv
<1>6. CASE UNCHANGED vars
  <2>1. TypeOK'
    BY <1>6 DEF vars, TypeOK
  <2>2. Flight'
    BY <1>6, QuietFlight DEF vars, Up
  <2> QED BY <2>1, <2>2 DEF Inv
<1> QED BY <1>1, <1>2, <1>3, <1>4, <1>5, <1>6 DEF Next

(* Every variable keeps its type, whatever the API asks, the engine and    *)
(* the store do, and when the daemon or the machine goes down.             *)
THEOREM TypeCorrect == Spec => []TypeOK
<1>1. Inv => TypeOK
  BY DEF Inv
<1> QED BY <1>1, InitInv, NextInv, PTL DEF Spec

(* What an engine call was decided from is still what is declared and      *)
(* known when its result is stored, unless an API call touched the         *)
(* container: no result overwrites a later answer (unlocked, touch).       *)
THEOREM UnlockedProtocol == Spec => []InFlightCurrent
<1>1. Inv => InFlightCurrent
  BY DEF Inv, Flight
<1> QED BY <1>1, InitInv, NextInv, PTL DEF Spec

-----------------------------------------------------------------------------
(* The run state that was asked for.                                       *)

(* Until a boot is recorded the daemon is not up.                          *)
BootRecorded == disk.boot \/ pc = "down"

(* What the daemon would load now is what was asked: before the boot is    *)
(* recorded that is every declared container running.                      *)
LoadedAsAsked ==
  \A n \in Names : RecordKey(n) \notin unsure => State(Loaded[n]) \in asked[n]

(* A daemon that is up says what the store says.                           *)
Mirrored ==
  Up => /\ \A n \in Names : RecordKey(n) \notin unsure => records[n] = disk.records[n]
        /\ \A p \in Projects : ProjectKey(p) \notin unsure => projects[p] = disk.projects[p]

DesiredInv == BootRecorded /\ LoadedAsAsked /\ Mirrored

(* Once the boot is recorded, what is loaded is what is stored.            *)
LEMMA RecordedLoads == disk.boot => Loaded = disk.records
BY DEF Loaded

(* The invariant says what the property says, and more.                    *)
LEMMA DesiredInvSays == DesiredInv => DesiredAsAsked
BY RecordedLoads DEF DesiredInv, LoadedAsAsked, Mirrored, DesiredAsAsked

(* The keys of records are not those of projects, and differ from name to  *)
(* name.                                                                   *)
LEMMA KeysDiffer ==
  /\ \A m, n : RecordKey(m) = RecordKey(n) => m = n
  /\ \A p, q : ProjectKey(p) = ProjectKey(q) => p = q
  /\ \A n, p : RecordKey(n) # ProjectKey(p)
BY DEF RecordKey, ProjectKey

(* The store as the last boot left it is what the installation declared.   *)
LEMMA InitDesired == Init => DesiredInv
<1> SUFFICES ASSUME Init PROVE DesiredInv
  OBVIOUS
<1>1. LoadedAsAsked
  <2>1. Loaded = ToRunAgain(InstalledRecords, Declared(InstalledRecords))
    BY DEF Init, Loaded
  <2>2. \A n \in Names : asked[n] = {State(InstalledRecords[n])}
    BY DEF Init
  <2>3. ASSUME NEW n \in Names PROVE Loaded[n] = InstalledRecords[n]
    BY <2>1 DEF ToRunAgain, Declared, InstalledRecords
  <2> QED BY <2>2, <2>3 DEF LoadedAsAsked
<1> QED BY <1>1 DEF Init, DesiredInv, BootRecorded, Mirrored, Up

(* Steps that leave the store and what mirrors it alone.                   *)
LEMMA QuietDesired ==
  ASSUME DesiredInv, UNCHANGED <<disk, asked, unsure>>,
         \/ UNCHANGED <<records, projects>> /\ (Up' => Up) /\ (pc = "down" => pc' = "down")
         \/ ~ Up'
  PROVE  DesiredInv'
BY DEF DesiredInv, LoadedAsAsked, Loaded, Mirrored, BootRecorded, Up

(* Done calls to the store leave there what they asked: of the names that  *)
(* are sure, those a failed call left alone, each was last stored by a     *)
(* call that succeeded.                                                    *)
LEMMA StoredAsAsked ==
  ASSUME TypeOK, DesiredInv, Up, NEW F \in SUBSET Files, NEW D, NEW E, D \subseteq E,
         Grounded(F, D), StoreSteps(F, D, E)
  PROVE  /\ disk'.boot /\ LoadedAsAsked'
         /\ \A n \in Names : RecordKey(n) \notin unsure' =>
              RecordsAfter(records, F, D)[n] = disk'.records[n]
         /\ \A p \in Projects : ProjectKey(p) \notin unsure' =>
              ProjectsAfter(projects, F, D)[p] = disk'.projects[p]
<1>1. disk.boot
  BY DEF DesiredInv, BootRecorded, Up
<1>2. /\ disk'.boot /\ disk'.records = RecordsAfter(disk.records, F, E)
      /\ disk'.projects = ProjectsAfter(disk.projects, F, E)
  BY <1>1 DEF StoreSteps, TypeOK
<1>3. ASSUME NEW n \in Names, RecordKey(n) \notin unsure'
      PROVE  /\ RecordsAfter(records, F, D)[n] = disk'.records[n]
             /\ State(disk'.records[n]) \in asked'[n]
  <2>1. n \notin TouchedBy(E \ D) /\ (n \in TouchedBy(D) \/ RecordKey(n) \notin unsure)
    <3>1. \A C : n \in TouchedBy(C) => RecordKey(n) \in KeysOf(C)
      BY DEF KeysOf
    <3>2. \A C : RecordKey(n) \in KeysOf(C) => n \in TouchedBy(C)
      BY KeysDiffer DEF KeysOf
    <3> QED BY <1>3, <3>1, <3>2 DEF StoreSteps
  <2>2. /\ Does(E, "put", n) = Does(D, "put", n)
        /\ Does(E, "drop", n) = Does(D, "drop", n)
    BY <2>1 DEF TouchedBy, Does
  <2>3. (IF n \in TouchedBy(D) THEN {AskedBy(D, n)} ELSE asked[n]) \subseteq asked'[n]
    BY DEF StoreSteps
  <2>4. CASE n \in TouchedBy(D)
    <3>1. Does(D, "put", n) \/ Does(D, "drop", n)
      BY <2>4 DEF TouchedBy
    <3>2. RecordsAfter(records, F, D)[n] = RecordsAfter(disk.records, F, E)[n]
      BY <2>2, <3>1 DEF RecordsAfter
    <3>3. State(RecordsAfter(records, F, D)[n]) = AskedBy(D, n)
      <4>1. CASE Does(D, "put", n)
        <5>1. RecordsAfter(records, F, D)[n] =
                [spec    |-> SpecOf(F, n),
                 desired |-> IF Does(D, "drop", n) \/ records[n] = None THEN "running"
                             ELSE records[n].desired]
          BY <4>1 DEF RecordsAfter
        <5>2. SpecOf(F, n) \in Service
          BY <4>1, FilesAssumption DEF Grounded, SpecOf
        <5>3. RecordsAfter(records, F, D)[n] # None
          BY <5>1, <5>2, NoneAssumption DEF Record, TypeOK
        <5> QED BY <4>1, <5>1, <5>3 DEF AskedBy, State
      <4>2. CASE ~ Does(D, "put", n)
        BY <3>1, <4>2 DEF RecordsAfter, AskedBy, State
      <4> QED BY <4>1, <4>2
    <3> QED BY <1>2, <2>3, <2>4, <3>2, <3>3
  <2>5. CASE n \notin TouchedBy(D)
    <3>1. ~ Does(D, "put", n) /\ ~ Does(D, "drop", n)
      BY <2>5 DEF TouchedBy
    <3>2. records[n] = disk.records[n] /\ State(disk.records[n]) \in asked[n]
      BY <1>1, <2>1, <2>5, RecordedLoads DEF DesiredInv, LoadedAsAsked, Mirrored
    <3> QED BY <1>2, <2>2, <2>3, <2>5, <3>1, <3>2 DEF RecordsAfter
  <2> QED BY <2>4, <2>5
<1>4. ASSUME NEW p \in Projects, ProjectKey(p) \notin unsure'
      PROVE  ProjectsAfter(projects, F, D)[p] = disk'.projects[p]
  <2>1. /\ ~ Does(E \ D, "file", p) /\ ~ Does(E \ D, "forget", p)
        /\ Does(D, "file", p) \/ Does(D, "forget", p) \/ ProjectKey(p) \notin unsure
    <3>1. \A C : Does(C, "file", p) \/ Does(C, "forget", p) => ProjectKey(p) \in KeysOf(C)
      BY DEF KeysOf
    <3>2. ASSUME NEW C, ProjectKey(p) \in KeysOf(C)
          PROVE  Does(C, "file", p) \/ Does(C, "forget", p)
      <4>1. ProjectKey(p) \in {ProjectKey(q) : q \in {x \in Projects : Does(C, "file", x)
                                                                   \/ Does(C, "forget", x)}}
        BY <3>2, KeysDiffer DEF KeysOf
      <4>2. PICK q \in Projects : /\ ProjectKey(p) = ProjectKey(q)
                                  /\ Does(C, "file", q) \/ Does(C, "forget", q)
        BY <4>1
      <4> QED BY <4>2, KeysDiffer
    <3>3. unsure' = (unsure \ KeysOf(D)) \cup KeysOf(E \ D)
      BY DEF StoreSteps
    <3>4. ProjectKey(p) \notin KeysOf(E \ D)
      BY <1>4, <3>3
    <3>5. ProjectKey(p) \in KeysOf(D) \/ ProjectKey(p) \notin unsure
      BY <1>4, <3>3
    <3> QED BY <3>1, <3>2, <3>4, <3>5
  <2>2. /\ Does(E, "file", p) = Does(D, "file", p)
        /\ Does(E, "forget", p) = Does(D, "forget", p)
    BY <2>1 DEF Does
  <2>3. CASE Does(D, "file", p) \/ Does(D, "forget", p)
    BY <1>2, <2>2, <2>3 DEF ProjectsAfter
  <2>4. CASE ~ Does(D, "file", p) /\ ~ Does(D, "forget", p)
    BY <1>2, <2>1, <2>2, <2>4 DEF ProjectsAfter, DesiredInv, Mirrored
  <2> QED BY <2>3, <2>4
<1>5. LoadedAsAsked'
  <2>1. Loaded' = disk'.records
    BY <1>2 DEF Loaded
  <2> QED BY <1>3, <2>1 DEF LoadedAsAsked
<1> QED BY <1>2, <1>3, <1>4, <1>5

(* Memory changes with the calls that succeed.                             *)
LEMMA DoneDesired ==
  ASSUME TypeOK, DesiredInv, Up, NEW F \in SUBSET Files, NEW D, NEW E, Grounded(F, D),
         Done(F, D, E)
  PROVE  DesiredInv'
<1>1. /\ records' = RecordsAfter(records, F, D)
      /\ projects' = ProjectsAfter(projects, F, D)
      /\ D \subseteq E /\ StoreSteps(F, D, E)
  BY DEF Done, Commit
<1> QED BY <1>1, StoredAsAsked DEF DesiredInv, BootRecorded, Mirrored

(* Every API call that is answered stores what it asks, and one that fails *)
(* leaves its key unsure.                                                  *)
LEMMA ApiDesired ==
  ASSUME TypeOK, DesiredInv, Api
  PROVE  DesiredInv'
<1>1. ASSUME NEW n \in Names, NEW desired \in {"running", "stopped"}, NEW more,
             SetDesired(n, desired, more)
      PROVE  DesiredInv'
  <2>1. Up /\ UNCHANGED <<pc, projects>> /\ disk.boot
    BY <1>1 DEF SetDesired, MuFree, passVars, DesiredInv, BootRecorded, Up
  <2>2. /\ disk'.boot /\ disk'.projects = disk.projects /\ unsure' \subseteq unsure
        /\ \A p \in Projects : ProjectKey(p) \notin unsure' => ProjectKey(p) \notin unsure
        /\ \A m \in Names \ {n} : RecordKey(m) \notin unsure' => RecordKey(m) \notin unsure
    BY <1>1, <2>1, KeysDiffer DEF SetDesired, TypeOK
  <2>3. /\ records[n] \in Record /\ records[n] # None
        /\ records'[n] = [records[n] EXCEPT !.desired = desired] /\ asked'[n] = {desired}
    BY <1>1 DEF SetDesired, TypeOK
  <2>4. State(records'[n]) = desired
    <3>1. [records[n] EXCEPT !.desired = desired] \in Record
      BY <1>1, <2>3 DEF Record
    <3> QED BY <2>3, <3>1, NoneAssumption DEF State, Record
  <2>5. RecordKey(n) \notin unsure' => records'[n] = disk'.records[n]
    <3>1. CASE records[n].desired = desired
      <4>1. records'[n] = records[n]
        BY <2>3, <3>1 DEF Record
      <4> QED BY <1>1, <2>1, <3>1, <4>1 DEF SetDesired, DesiredInv, Mirrored
    <3>2. CASE records[n].desired # desired
      BY <1>1, <3>2 DEF SetDesired, TypeOK
    <3> QED BY <3>1, <3>2
  <2>6. ASSUME NEW m \in Names \ {n}, RecordKey(m) \notin unsure'
        PROVE  records'[m] = disk'.records[m] /\ State(disk'.records[m]) \in asked'[m]
    <3>1. records[m] = disk.records[m] /\ State(disk.records[m]) \in asked[m]
      BY <2>1, <2>2, <2>6, RecordedLoads DEF DesiredInv, LoadedAsAsked, Mirrored
    <3>2. records'[m] = records[m] /\ disk'.records[m] = disk.records[m] /\ asked'[m] = asked[m]
      BY <1>1, <2>6 DEF SetDesired, TypeOK
    <3> QED BY <3>1, <3>2
  <2>7. Loaded' = disk'.records
    BY <2>2 DEF Loaded
  <2>8. LoadedAsAsked'
    BY <2>3, <2>4, <2>5, <2>6, <2>7 DEF LoadedAsAsked
  <2>9. Mirrored'
    BY <2>1, <2>2, <2>5, <2>6 DEF Mirrored, DesiredInv, Up
  <2> QED BY <2>2, <2>8, <2>9 DEF DesiredInv, BootRecorded
<1>2. ASSUME NEW n \in Names, Start(n) \/ Stop(n) \/ Restart(n) PROVE DesiredInv'
  BY <1>1, <1>2 DEF Start, Stop, Restart
<1>3. ASSUME NEW req, NEW S, Request(req, S) PROVE DesiredInv'
  BY <1>3, QuietDesired DEF Request, memVars, passVars, histVars, Up
<1>4. ASSUME NEW n \in Names, FinishRestart(n) PROVE DesiredInv'
  BY <1>4, QuietDesired DEF FinishRestart, passVars, histVars, Up
<1>5. ASSUME NEW F \in SUBSET Files, NEW steps, Up, \A D \in SUBSET steps : Grounded(F, D),
             Carried(F, steps) \/ Completed(F, steps) \/ CutShort(F, steps)
      PROVE  DesiredInv'
  BY <1>5, CarriedSteps, DoneDesired
<1>6. ASSUME NEW f \in Files, FinishPut(f) PROVE DesiredInv'
  <2>1. CASE Conflict(f)
    BY <1>6, <2>1, QuietDesired DEF FinishPut, memVars, passVars, histVars, Up
  <2>2. CASE ~ Conflict(f)
    BY <1>5, <1>6, <2>2, StepsGrounded DEF FinishPut, MuFree
  <2> QED BY <2>1, <2>2
<1>7. ASSUME NEW F \in SUBSET Files, FinishSet(F) PROVE DesiredInv'
  BY <1>5, <1>7, StepsGrounded DEF FinishSet, MuFree
<1>8. ASSUME NEW p \in Projects, DeleteProject(p) PROVE DesiredInv'
  BY <1>5, <1>8, StepsGrounded DEF DeleteProject, MuFree
<1>9. ASSUME NEW n \in Names, NEW desired, SetDesiredFails(n, desired) PROVE DesiredInv'
  <2>1. Up /\ UNCHANGED <<pc, records, projects>> /\ disk.boot
    BY <1>9 DEF SetDesiredFails, MuFree, memVars, passVars, DesiredInv, BootRecorded, Up
  <2>2. /\ disk'.boot /\ disk'.projects = disk.projects /\ Loaded' = disk'.records
        /\ unsure' = unsure \cup {RecordKey(n)}
    BY <1>9, <2>1 DEF SetDesiredFails, TypeOK, Loaded
  <2>3. ASSUME NEW m \in Names, RecordKey(m) \notin unsure'
        PROVE  /\ records[m] = disk'.records[m]
               /\ State(disk'.records[m]) \in asked'[m]
    <3>1. m # n /\ RecordKey(m) \notin unsure
      BY <2>2, <2>3
    <3>2. records[m] = disk.records[m] /\ State(disk.records[m]) \in asked[m]
      BY <2>1, <3>1, RecordedLoads DEF DesiredInv, LoadedAsAsked, Mirrored
    <3>3. disk'.records[m] = disk.records[m] /\ asked'[m] = asked[m]
      BY <1>9, <3>1 DEF SetDesiredFails, TypeOK
    <3> QED BY <3>2, <3>3
  <2>4. LoadedAsAsked'
    BY <2>2, <2>3 DEF LoadedAsAsked
  <2>5. Mirrored'
    BY <2>1, <2>2, <2>3 DEF Mirrored, DesiredInv, Up
  <2> QED BY <2>2, <2>4, <2>5 DEF DesiredInv, BootRecorded
<1> QED
  BY <1>2, <1>3, <1>4, <1>6, <1>7, <1>8, <1>9 DEF Api, PutProject, PutProjects, FinishRequest

(* A crash leaves on disk what was asked, and a boot asks it to run.       *)
LEMMA FailureDesired ==
  ASSUME TypeOK, DesiredInv, Failure
  PROVE  DesiredInv'
<1>1. CASE Crash
  BY <1>1, QuietDesired DEF Crash, MemoryLost, Up
<1>2. ASSUME NEW F \in SUBSET Files, NEW steps, CrashWhileStoring(F, steps),
             \A D \in SUBSET steps : Grounded(F, D)
      PROVE  DesiredInv'
  <2>1. PICK D \in SUBSET steps : StoreSteps(F, D, D)
    BY <1>2 DEF CrashWhileStoring, Prefixes
  <2>2. Up /\ ~ Up'
    BY <1>2 DEF CrashWhileStoring, MuFree, MemoryLost, Up
  <2> QED BY <1>2, <2>1, <2>2, StoredAsAsked DEF DesiredInv, BootRecorded, Mirrored
<1>3. CASE CrashWhileDeclaring
  BY <1>2, <1>3, StepsGrounded DEF CrashWhileDeclaring
<1>4. CASE OrphanEnds
  BY <1>4, QuietDesired DEF OrphanEnds, memVars, passVars, Up
<1>5. CASE Reboot
  <2>1. /\ ~ Up' /\ pc' = "down" /\ unsure' = unsure
        /\ ~ disk'.boot /\ disk'.records = disk.records
        /\ asked' = [n \in Names |->
                       {IF state = "none" THEN state ELSE "running" : state \in asked[n]}]
    BY <1>5 DEF Reboot, MemoryLost, TypeOK, Up
  <2>2. ASSUME NEW n \in Names, RecordKey(n) \notin unsure
        PROVE  State(Loaded'[n]) \in asked'[n]
    <3>1. State(Loaded[n]) \in asked[n]
      BY <2>2 DEF DesiredInv, LoadedAsAsked
    <3>2. CASE disk.records[n] = None
      <4>1. Loaded[n] = None /\ Loaded'[n] = None
        BY <2>1, <3>2 DEF Loaded, ToRunAgain, Declared
      <4> QED BY <2>1, <3>1, <4>1 DEF State
    <3>3. CASE disk.records[n] # None
      <4>1. disk.records[n] \in Record
        BY <3>3 DEF TypeOK
      <4>2. /\ Loaded'[n] = [disk.records[n] EXCEPT !.desired = "running"]
            /\ Loaded[n] \in {disk.records[n], [disk.records[n] EXCEPT !.desired = "running"]}
        BY <2>1, <3>3 DEF Loaded, ToRunAgain, Declared
      <4>3. [disk.records[n] EXCEPT !.desired = "running"] \in Record
        BY <4>1 DEF Record
      <4>4. State(Loaded'[n]) = "running" /\ State(Loaded[n]) # "none"
        BY <3>3, <4>1, <4>2, <4>3, NoneAssumption DEF State, Record
      <4> QED BY <2>1, <3>1, <4>4
    <3> QED BY <3>2, <3>3
  <2> QED BY <2>1, <2>2 DEF DesiredInv, BootRecorded, LoadedAsAsked, Mirrored
<1>6. CASE BootInterrupted
  <2>1. /\ ~ Up' /\ pc' = "down" /\ UNCHANGED <<asked, unsure>>
    BY <1>6 DEF BootInterrupted, passVars, histVars, Up
  <2>2. PICK S \in SUBSET Declared(disk.records) :
          /\ disk'.records = ToRunAgain(disk.records, S)
          /\ ~ disk.boot /\ ~ disk'.boot
    BY <1>6 DEF BootInterrupted, TypeOK
  <2>3. Declared(disk'.records) = Declared(disk.records)
    <3>1. \A n \in Names : disk.records[n] # None => [disk.records[n] EXCEPT !.desired = "running"] # None
      BY NoneAssumption DEF TypeOK, Record
    <3> QED BY <2>2, <3>1 DEF ToRunAgain, Declared
  <2>4. \A n \in Declared(disk.records) : [disk'.records[n] EXCEPT !.desired = "running"]
                                          = [disk.records[n] EXCEPT !.desired = "running"]
    BY <2>2 DEF ToRunAgain, Declared, TypeOK, Record
  <2>5. Loaded' = Loaded
    <3>1. /\ Loaded = ToRunAgain(disk.records, Declared(disk.records))
          /\ Loaded' = ToRunAgain(disk'.records, Declared(disk.records))
      BY <2>2, <2>3 DEF Loaded
    <3>2. \A n \in Names : Loaded[n] = Loaded'[n]
      BY <2>2, <2>4, <3>1 DEF ToRunAgain
    <3> QED BY <3>1, <3>2 DEF ToRunAgain
  <2> QED BY <2>1, <2>5 DEF DesiredInv, BootRecorded, LoadedAsAsked, Mirrored
<1> QED BY <1>1, <1>3, <1>4, <1>5, <1>6 DEF Failure

(* The start of the daemon stores and keeps what it loads.                 *)
LEMMA StartDaemonDesired ==
  ASSUME TypeOK, DesiredInv, StartDaemon
  PROVE  DesiredInv'
<1>1. /\ disk'.boot /\ disk'.records = Loaded /\ records' = Loaded
      /\ disk'.projects = disk.projects /\ projects' = disk.projects
      /\ UNCHANGED <<asked, unsure>>
  BY DEF StartDaemon, TypeOK, histVars
<1>2. Loaded' = Loaded
  BY <1>1 DEF Loaded
<1> QED BY <1>1, <1>2 DEF DesiredInv, LoadedAsAsked, Mirrored, BootRecorded

(* Every step keeps what was asked.                                        *)
LEMMA NextDesired == TypeOK /\ DesiredInv /\ [Next]_vars => DesiredInv'
<1> SUFFICES ASSUME TypeOK, DesiredInv, [Next]_vars PROVE DesiredInv'
  OBVIOUS
<1>1. CASE Pass
  <2> DEFINE Quiet == /\ UNCHANGED <<disk, asked, unsure, records, projects>>
                      /\ pc' = pc \/ (Up /\ Up')
  <2>1. Quiet
    <3>1. ASSUME NEW n, NEW t, Settle(n, t) PROVE Quiet
      BY <3>1 DEF Settle
    <3>2. ASSUME NEW n, NEW t, NEW op, Issue(op, n, t) PROVE Quiet
      BY <3>2 DEF Issue, passVars
    <3>3. ASSUME NEW n, NEW t, StartStep(n, t) PROVE Quiet
      BY <3>1, <3>2, <3>3 DEF StartStep
    <3>4. CASE \E n \in Names : Reconcile(n)
      <4>1. PICK n \in Names : \/ \E t : Settle(n, t)
                               \/ \E t, op : Issue(op, n, t)
                               \/ \E t : StartStep(n, t)
        BY <3>4, ReconcileForms
      <4> QED BY <4>1, <3>1, <3>2, <3>3
    <3>5. CASE Return
      <4>1. CASE ReturnSweep \/ ReturnStale \/ ReturnFailed \/ ReturnRecreate
        BY <4>1 DEF ReturnSweep, ReturnStale, ReturnFailed, Leave, ReturnRecreate, memVars, passVars, histVars
      <4>2. CASE ReturnStop \/ ReturnStart \/ ReturnHealth
        BY <4>2, <3>1 DEF ReturnStop, ReturnStart, ReturnHealth
      <4>3. CASE ReturnRestop
        BY <4>3, <3>3 DEF ReturnRestop
      <4> QED BY <3>5, <4>1, <4>2, <4>3 DEF Return
    <3>6. CASE \/ List \/ BeginPass \/ (\E n \in Names : Sweep(n)) \/ EndSweep
               \/ Skip \/ EndReconcile \/ RemoveNetworks \/ EngineDo
      BY <3>6 DEF List, BeginPass, Sweep, EndSweep, Skip, EndReconcile, RemoveNetworks, EngineDo,
                  Up, memVars, passVars, histVars
    <3> QED BY <1>1, <3>4, <3>5, <3>6 DEF Pass
  <2> QED BY <2>1, QuietDesired DEF Up
<1>2. CASE Api
  BY <1>2, ApiDesired
<1>3. CASE Failure
  BY <1>3, FailureDesired
<1>4. CASE StartDaemon
  BY <1>4, StartDaemonDesired
<1>5. CASE Environment
  <2>1. UNCHANGED <<disk, asked, unsure, records, projects, pc>>
    BY <1>5
    DEF Environment, ContainerExits, RunConfirmed, RunIsLong, GapEnds, CheckComesDue, HandRun,
        HandStart, HandRemove, ByHand, memVars, passVars, histVars
  <2> QED BY <2>1, QuietDesired DEF Up
<1>6. CASE UNCHANGED vars
  BY <1>6, QuietDesired DEF vars, Up
<1> QED BY <1>1, <1>2, <1>3, <1>4, <1>5, <1>6 DEF Next

(* A stop or a start, once answered, is what is stored, through crashes of *)
(* the daemon at any point of a declaration or of its own start, until a   *)
(* boot makes every container run again; and memory mirrors the store.     *)
THEOREM DesiredKept == Spec => []DesiredAsAsked
<1>1. Inv => TypeOK
  BY DEF Inv
<1>2. DesiredInv => DesiredAsAsked
  BY DesiredInvSays
<1> QED BY <1>1, <1>2, InitInv, NextInv, InitDesired, NextDesired, PTL DEF Spec

-----------------------------------------------------------------------------
(* Names held by containers that are not the daemon's.                     *)

(* The listing a call was decided from does not show such a container      *)
(* under its name, and there is no other listing until the call returned.  *)
CallsSpareHolders ==
  call # None => pc \in {"sweep", "reconcile"} /\ ~ Foreign(call.name)

(* start issues no call for a name that is held.                           *)
LEMMA StartStepSpares ==
  ASSUME NEW n, NEW t, StartStep(n, t), pc = "reconcile"
  PROVE  CallsSpareHolders'
<1>1. CASE Held(n) \/ Unready(n)
  BY <1>1 DEF StartStep, Settle, CallsSpareHolders
<1>2. CASE ~ (Held(n) \/ Unready(n))
  BY <1>2 DEF StartStep, Held, Foreign, Issue, NewCall, passVars, CallsSpareHolders
<1> QED BY <1>1, <1>2

(* No branch of reconcile calls the engine about a name that is held.      *)
LEMMA ReconcileSpares ==
  ASSUME NEW n \in Names, Reconcile(n)
  PROVE  CallsSpareHolders'
<1>1. pc = "reconcile"
  BY DEF Reconcile, Recreate, ReconcileStopped, ReconcileRestart, ReconcileRunning,
         ReconcileFreshStart, ReconcileDecided, ReconcileExit, NotRunning, ToRun, Turn
<1>2. ASSUME NEW t, Settle(n, t) PROVE CallsSpareHolders'
  BY <1>2 DEF Settle, CallsSpareHolders
<1>3. ASSUME NEW op, NEW t, Issue(op, n, t), Observed(n) PROVE CallsSpareHolders'
  BY <1>1, <1>3 DEF Issue, NewCall, passVars, CallsSpareHolders, Observed, Foreign
<1>4. \/ \E t : Settle(n, t)
      \/ \E t, op : Issue(op, n, t) /\ Observed(n)
      \/ \E t : StartStep(n, t)
  BY DEF Reconcile, Recreate, Stale, ReconcileStopped, ReconcileRestart, ObservedRunning,
         ReconcileRunning, ReconcileFreshStart, ReconcileDecided, ReconcileExit
<1> QED BY <1>1, <1>2, <1>3, <1>4, StartStepSpares

(* Every step keeps the calls in flight away from the names that are held. *)
LEMMA NextSpares == TypeOK /\ CallsSpareHolders /\ [Next]_vars => CallsSpareHolders'
<1> SUFFICES ASSUME TypeOK, CallsSpareHolders, [Next]_vars PROVE CallsSpareHolders'
  OBVIOUS
<1>1. ASSUME call' = None PROVE CallsSpareHolders'
  BY <1>1 DEF CallsSpareHolders
<1>2. ASSUME UNCHANGED <<pc, view, call>> PROVE CallsSpareHolders'
  BY <1>2 DEF CallsSpareHolders, Foreign
<1>3. CASE Pass
  <2>1. ASSUME NEW n \in Names, Sweep(n) PROVE CallsSpareHolders'
    BY <2>1 DEF Sweep, NewCall, CallsSpareHolders, Foreign, TypeOK
  <2>2. CASE EngineDo
    <3>1. call \in Call /\ call # None /\ UNCHANGED <<pc, view>>
          /\ \E b : call' = [call EXCEPT !.done = TRUE, !.ok = b]
      BY <2>2 DEF EngineDo, TypeOK, passVars
    <3> QED BY <3>1 DEF Call, CallsSpareHolders, Foreign
  <2>3. CASE Return
    <3>1. CASE ReturnRestop
      <4>1. pc = "reconcile" \/ pc = "sweep"
        BY <3>1 DEF ReturnRestop, Fresh, Returned, CallsSpareHolders
      <4> QED BY <3>1, <4>1 DEF ReturnRestop, StartStep, Held, Foreign, Settle, Issue, NewCall,
                                passVars, CallsSpareHolders
    <3>2. CASE ReturnStop \/ ReturnStart \/ ReturnHealth
      BY <1>1, <3>2 DEF ReturnStop, ReturnStart, ReturnHealth, Settle
    <3>3. CASE ReturnSweep \/ ReturnStale \/ ReturnFailed \/ ReturnRecreate
      BY <1>1, <3>3 DEF ReturnSweep, ReturnStale, ReturnFailed, Leave, ReturnRecreate
    <3> QED BY <2>3, <3>1, <3>2, <3>3 DEF Return
  <2>4. CASE List \/ BeginPass
    BY <2>4 DEF List, BeginPass, callVars, CallsSpareHolders
  <2>5. CASE EndSweep \/ Skip \/ EndReconcile
    BY <1>1, <2>5 DEF EndSweep, Skip, EndReconcile, callVars
  <2>6. CASE RemoveNetworks
    BY <2>6 DEF RemoveNetworks, callVars, CallsSpareHolders
  <2> QED BY <1>3, <2>1, <2>2, <2>3, <2>4, <2>5, <2>6, ReconcileSpares DEF Pass
<1>4. CASE Api
  BY <1>2, <1>4, ApiQuiet DEF passVars
<1>5. CASE Failure
  <2>1. CASE Crash \/ CrashWhileDeclaring \/ Reboot
    BY <1>1, <2>1 DEF Crash, CrashWhileDeclaring, CrashWhileStoring, Reboot, MemoryLost
  <2>2. CASE OrphanEnds \/ BootInterrupted
    BY <1>2, <2>2 DEF OrphanEnds, BootInterrupted, passVars, callVars
  <2> QED BY <1>5, <2>1, <2>2 DEF Failure
<1>6. CASE StartDaemon
  BY <1>6 DEF StartDaemon, callVars, CallsSpareHolders
<1>7. CASE Environment
  BY <1>2, <1>7
  DEF Environment, ContainerExits, RunConfirmed, RunIsLong, GapEnds, CheckComesDue, HandRun,
      HandStart, HandRemove, ByHand, passVars, callVars
<1>8. CASE UNCHANGED vars
  BY <1>2, <1>8 DEF vars
<1> QED BY <1>3, <1>4, <1>5, <1>6, <1>7, <1>8 DEF Next

(* A pass does nothing to a container without the managed label that its   *)
(* listing shows, and it waits for the name such a container holds.        *)
THEOREM HoldersSpared == Spec => HolderUntouched
<1>1. Init => CallsSpareHolders
  BY DEF Init, CallsSpareHolders
<1>2. CallsSpareHolders /\ [Next]_vars =>
        [\A n \in Names : Carrying(n) /\ Foreign(n) /\ ctr[n] = view[n] => ctr'[n] = ctr[n]]_vars
  BY DEF CallsSpareHolders, Carrying
<1>3. Inv => TypeOK
  BY DEF Inv
<1> QED
  BY <1>1, <1>2, <1>3, InitInv, NextInv, NextSpares, PTL DEF Spec, HolderUntouched

-----------------------------------------------------------------------------
(* Declarations that are carried out whole, as long as no store call fails *)
(* and the daemon does not crash.                                          *)

(* n is declared, by project p. *)
DeclaredBy(recs, n, p) == recs[n] # None /\ recs[n].spec.project = p

(* What is declared is what the projects' files say. *)
Whole(recs, projs) ==
  \A p \in Projects, n \in Names :
    /\ projs[p] = None => ~ DeclaredBy(recs, n, p)
    /\ projs[p] # None =>
         /\ DeclaredBy(recs, n, p) <=> n \in Services(projs[p])
         /\ DeclaredBy(recs, n, p) => recs[n].spec = projs[p].services[n]

(* Nothing fails, requests are those the API lets through, and the         *)
(* declarations are whole: on disk before the daemon runs, in memory then. *)
WholeInv ==
  /\ budget["fault"] = 0 /\ budget["crash"] = 0
  /\ \A F \in SUBSET Files : SetRequest(F) \in pending => Distinct(F)
  /\ IF Up THEN Whole(records, projects) ELSE Whole(disk.records, disk.projects)

(* What the store calls of each kind do.                                   *)
LEMMA DropsDo ==
  ASSUME NEW rank, NEW S, NEW op, NEW x
  PROVE  Does(Drops(rank, S), op, x) <=> op = "drop" /\ x \in S
<1>1. \A n \in S : [rank |-> rank, op |-> "drop", on |-> n] \in Drops(rank, S)
  BY DEF Drops
<1>2. \A s \in Drops(rank, S) : s.op = "drop" /\ s.on \in S
  BY DEF Drops
<1> QED BY <1>1, <1>2 DEF Does

(* A forget is of a project, and of nothing else.                          *)
LEMMA ForgetsDo ==
  ASSUME NEW rank, NEW S, NEW op, NEW x
  PROVE  Does(Forgets(rank, S), op, x) <=> op = "forget" /\ x \in S
<1>1. \A p \in S : [rank |-> rank, op |-> "forget", on |-> p] \in Forgets(rank, S)
  BY DEF Forgets
<1>2. \A s \in Forgets(rank, S) : s.op = "forget" /\ s.on \in S
  BY DEF Forgets
<1> QED BY <1>1, <1>2 DEF Does

(* The puts of a file are its project's file and its services.             *)
LEMMA PutsDo ==
  ASSUME NEW f, NEW op, NEW x
  PROVE  Does(Puts(f), op, x) <=> \/ op = "file" /\ x = f.project
                                  \/ op = "put" /\ x \in Services(f)
<1> DEFINE file  == [rank |-> 3 * f.project + 2, op |-> "file", on |-> f.project]
           put(n) == [rank |-> 3 * f.project + 3, op |-> "put", on |-> n]
<1>1. file \in Puts(f) /\ \A n \in Services(f) : put(n) \in Puts(f)
  BY DEF Puts
<1>2. \A s \in Puts(f) : \/ s.op = "file" /\ s.on = f.project
                         \/ s.op = "put" /\ s.on \in Services(f)
  BY DEF Puts
<1>3. file.op = "file" /\ file.on = f.project
  OBVIOUS
<1>4. \A n : put(n).op = "put" /\ put(n).on = n
  OBVIOUS
<1> HIDE DEF file, put
<1> QED BY <1>1, <1>2, <1>3, <1>4, Zenon DEF Does

(* What the store calls of a declaration do: those of its file.            *)
LEMMA DeclareDoes ==
  ASSUME NEW f, NEW op, NEW x
  PROVE  Does(DeclareSteps(f), op, x) <=>
           \/ op = "file" /\ x = f.project
           \/ op = "put" /\ x \in Services(f)
           \/ op = "drop" /\ x \in OfProject(f.project) \ Services(f)
<1>1. Does(DeclareSteps(f), op, x) <=>
        \/ Does(Puts(f), op, x)
        \/ Does(Drops(3 * f.project + 4, OfProject(f.project) \ Services(f)), op, x)
  BY Zenon DEF Does, DeclareSteps
<1> QED BY <1>1, PutsDo, DropsDo, Zenon

(* Those of the declaration of every project, the files F.                 *)
LEMMA SetDoes ==
  ASSUME NEW F, NEW op, NEW x
  PROVE  Does(SetSteps(F), op, x) <=>
           \/ op = "file" /\ \E f \in F : x = f.project
           \/ op = "put" /\ \E f \in F : x \in Services(f)
           \/ /\ op = "drop" /\ x \in Declared(records)
              /\ ~ \E f \in F : f.project = Sp(x).project /\ x \in Services(f)
           \/ /\ op = "forget" /\ x \in Projects /\ projects[x] # None
              /\ \A f \in F : f.project # x
<1> DEFINE kept(n) == \E f \in F : f.project = Sp(n).project /\ n \in Services(f)
           dropped == {n \in Declared(records) : ~ kept(n)}
           gone    == {p \in Projects : projects[p] # None /\ \A f \in F : f.project # p}
<1>1. SetSteps(F) = Drops(0, dropped) \cup Forgets(1, gone) \cup UNION {Puts(f) : f \in F}
  BY DEF SetSteps
<1> HIDE DEF dropped, gone
<1>2. Does(SetSteps(F), op, x) <=> \/ Does(Drops(0, dropped), op, x)
                                   \/ Does(Forgets(1, gone), op, x)
                                   \/ \E f \in F : Does(Puts(f), op, x)
  BY <1>1, Zenon DEF Does
<1>3. Does(SetSteps(F), op, x) <=> \/ op = "drop" /\ x \in dropped
                                   \/ op = "forget" /\ x \in gone
                                   \/ op = "file" /\ \E f \in F : x = f.project
                                   \/ op = "put" /\ \E f \in F : x \in Services(f)
  BY <1>2, DropsDo, ForgetsDo, PutsDo, Zenon
<1> QED BY <1>3, Zenon DEF dropped, gone

(* Those of the deletion of project p.                                     *)
LEMMA DeleteDoes ==
  ASSUME NEW p, NEW op, NEW x
  PROVE  Does(DeleteSteps(p), op, x) <=> \/ op = "drop" /\ x \in OfProject(p)
                                         \/ op = "forget" /\ x = p
<1>1. Does(DeleteSteps(p), op, x) <=>
        Does(Drops(0, OfProject(p)), op, x) \/ Does(Forgets(1, {p}), op, x)
  BY Zenon DEF Does, DeleteSteps
<1> QED BY <1>1, DropsDo, ForgetsDo, Zenon

-----------------------------------------------------------------------------
(* A declaration that is carried out whole keeps the declarations whole.   *)

(* What store calls D make of files F, and of the projects they are about: *)
(* all or nothing of each.                                                 *)
Covers(F, D) ==
  /\ \A n \in Names : Does(D, "put", n) <=> \E f \in F : n \in Services(f)
  /\ \A p \in Projects : Does(D, "file", p) <=> \E f \in F : f.project = p
  /\ \A p \in Projects, n \in Names :
       DeclaredBy(records, n, p) =>
         IF Does(D, "file", p) \/ Does(D, "forget", p)
         THEN Does(D, "drop", n) \/ Does(D, "put", n)
         ELSE ~ Does(D, "drop", n) /\ ~ Does(D, "put", n)

(* Such store calls keep what is declared whole.                           *)
LEMMA WholeAfter ==
  ASSUME TypeOK, Whole(records, projects), NEW F \in SUBSET Files, Distinct(F), NEW D, Covers(F, D)
  PROVE  Whole(RecordsAfter(records, F, D), ProjectsAfter(projects, F, D))
<1> DEFINE recs  == RecordsAfter(records, F, D)
           projs == ProjectsAfter(projects, F, D)
<1>1. ASSUME NEW n \in Names, NEW f \in F, n \in Services(f)
      PROVE  recs[n] # None /\ recs[n].spec = f.services[n] /\ recs[n].spec.project = f.project
  <2>1. Does(D, "put", n)
    BY <1>1 DEF Covers
  <2>2. SpecOf(F, n) = f.services[n]
    BY <1>1 DEF SpecOf, Distinct
  <2>3. f.services[n] \in Service /\ f.services[n].project = f.project
    BY <1>1, FilesAssumption
  <2>4. PICK d : recs[n] = [spec |-> SpecOf(F, n), desired |-> d] /\ d \in {"running", "stopped"}
    BY <2>1 DEF RecordsAfter, TypeOK, Record
  <2>5. recs[n] \in Record
    BY <2>2, <2>3, <2>4 DEF Record
  <2> QED BY <2>2, <2>3, <2>4, <2>5, NoneAssumption
<1>2. ASSUME NEW n \in Names, ~ \E f \in F : n \in Services(f)
      PROVE  recs[n] = IF Does(D, "drop", n) THEN None ELSE records[n]
  BY <1>2 DEF RecordsAfter, Covers
<1>3. ASSUME NEW p \in Projects, NEW f \in F, f.project = p
      PROVE  projs[p] = f /\ f # None
  <2>1. FileOf(F, p) = f
    BY <1>3 DEF FileOf, Distinct
  <2> QED BY <1>3, <2>1, NoneAssumption DEF ProjectsAfter, Covers
<1>4. ASSUME NEW p \in Projects, ~ \E f \in F : f.project = p
      PROVE  projs[p] = IF Does(D, "forget", p) THEN None ELSE projects[p]
  BY <1>4 DEF ProjectsAfter, Covers
<1> HIDE DEF recs, projs
<1> SUFFICES ASSUME NEW p \in Projects, NEW n \in Names
             PROVE  /\ projs[p] = None => ~ DeclaredBy(recs, n, p)
                    /\ projs[p] # None =>
                         /\ DeclaredBy(recs, n, p) <=> n \in Services(projs[p])
                         /\ DeclaredBy(recs, n, p) => recs[n].spec = projs[p].services[n]
  BY DEF Whole, recs, projs
<1>5. CASE \E f \in F : f.project = p
  <2>1. PICK f \in F : f.project = p
    BY <1>5
  <2>2. CASE n \in Services(f)
    BY <1>1, <1>3, <2>1, <2>2 DEF DeclaredBy
  <2>3. CASE n \notin Services(f) /\ \E g \in F : n \in Services(g)
    <3>1. PICK g \in F : n \in Services(g)
      BY <2>3
    <3>2. g.project # p
      BY <2>1, <2>3, <3>1 DEF Distinct
    <3> QED BY <1>1, <1>3, <2>1, <2>3, <3>1, <3>2 DEF DeclaredBy
  <2>4. CASE ~ \E g \in F : n \in Services(g)
    <3>1. DeclaredBy(records, n, p) => Does(D, "drop", n)
      BY <2>1, <2>4 DEF Covers
    <3> QED BY <1>2, <1>3, <2>1, <2>4, <3>1 DEF DeclaredBy
  <2> QED BY <2>2, <2>3, <2>4
<1>6. CASE ~ \E f \in F : f.project = p
  <2>1. DeclaredBy(recs, n, p) <=>
          /\ DeclaredBy(records, n, p) /\ ~ Does(D, "drop", n)
          /\ ~ \E f \in F : n \in Services(f)
    BY <1>1, <1>2, <1>6 DEF DeclaredBy
  <2>2. DeclaredBy(recs, n, p) => recs[n] = records[n]
    BY <1>2, <2>1
  <2>3. CASE Does(D, "forget", p)
    <3>1. DeclaredBy(records, n, p) => Does(D, "drop", n) \/ \E f \in F : n \in Services(f)
      BY <2>3 DEF Covers
    <3> QED BY <1>4, <1>6, <2>1, <2>3, <3>1
  <2>4. CASE ~ Does(D, "forget", p)
    <3>1. DeclaredBy(records, n, p) => ~ Does(D, "drop", n) /\ ~ \E f \in F : n \in Services(f)
      BY <1>6, <2>4 DEF Covers
    <3>2. DeclaredBy(recs, n, p) <=> DeclaredBy(records, n, p)
      BY <2>1, <3>1
    <3> QED BY <1>4, <1>6, <2>2, <2>4, <3>2 DEF Whole
  <2> QED BY <2>3, <2>4
<1> QED BY <1>5, <1>6

(* A declaration of one project covers its file, when no name of it is     *)
(* another project's.                                                      *)
LEMMA DeclareCovers ==
  ASSUME TypeOK, NEW f \in Files, ~ Conflict(f)
  PROVE  Covers({f}, DeclareSteps(f))
<1> DEFINE D == DeclareSteps(f)
<1>1. \A n \in Names : Does(D, "put", n) <=> n \in Services(f)
  BY DeclareDoes
<1>2. \A p \in Projects : /\ Does(D, "file", p) <=> p = f.project
                          /\ ~ Does(D, "forget", p)
  BY DeclareDoes
<1>3. \A n \in Names : Does(D, "drop", n) <=> n \in OfProject(f.project) \ Services(f)
  BY DeclareDoes
<1> HIDE DEF D
<1>4. ASSUME NEW p \in Projects, NEW n \in Names, DeclaredBy(records, n, p)
      PROVE  IF p = f.project THEN n \in OfProject(f.project)
             ELSE n \notin OfProject(f.project) /\ n \notin Services(f)
  BY <1>4 DEF DeclaredBy, OfProject, Declared, Sp, Conflict
<1> QED BY <1>1, <1>2, <1>3, <1>4 DEF Covers, D

(* The declaration of every project covers its files.                      *)
LEMMA SetCovers ==
  ASSUME TypeOK, Whole(records, projects), NEW F \in SUBSET Files
  PROVE  Covers(F, SetSteps(F))
<1> DEFINE D == SetSteps(F)
<1>1. \A n \in Names : Does(D, "put", n) <=> \E f \in F : n \in Services(f)
  BY SetDoes
<1>2. \A p \in Projects : Does(D, "file", p) <=> \E f \in F : f.project = p
  BY SetDoes
<1>3. \A p \in Projects : Does(D, "forget", p) <=>
        projects[p] # None /\ ~ \E f \in F : f.project = p
  BY SetDoes
<1>4. \A n \in Names : Does(D, "drop", n) <=>
        /\ n \in Declared(records)
        /\ ~ \E f \in F : f.project = Sp(n).project /\ n \in Services(f)
  BY SetDoes
<1> HIDE DEF D
<1>5. ASSUME NEW p \in Projects, NEW n \in Names, DeclaredBy(records, n, p)
      PROVE  /\ n \in Declared(records) /\ Sp(n).project = p
             /\ projects[p] # None
  BY <1>5 DEF DeclaredBy, Declared, Sp, Whole
<1>6. ASSUME NEW p \in Projects, NEW n \in Names, DeclaredBy(records, n, p)
      PROVE  /\ Does(D, "file", p) \/ Does(D, "forget", p)
             /\ Does(D, "drop", n) \/ Does(D, "put", n)
  BY <1>1, <1>2, <1>3, <1>4, <1>5, <1>6
<1> QED BY <1>1, <1>2, <1>6 DEF Covers, D

(* So does a deletion, with no file.                                       *)
LEMMA DeleteCovers ==
  ASSUME TypeOK, NEW p \in Projects
  PROVE  Covers({}, DeleteSteps(p))
<1> DEFINE D == DeleteSteps(p)
<1>1. \A n \in Names : ~ Does(D, "put", n) /\ (Does(D, "drop", n) <=> n \in OfProject(p))
  BY DeleteDoes
<1>2. \A q \in Projects : ~ Does(D, "file", q) /\ (Does(D, "forget", q) <=> q = p)
  BY DeleteDoes
<1> HIDE DEF D
<1>3. ASSUME NEW q \in Projects, NEW n \in Names, DeclaredBy(records, n, q)
      PROVE  n \in OfProject(p) <=> q = p
  BY <1>3 DEF DeclaredBy, OfProject, Declared, Sp
<1> QED BY <1>1, <1>2, <1>3 DEF Covers, D

(* Asking another run state of a container changes no declaration.         *)
LEMMA SameSpecs ==
  ASSUME NEW recs, NEW recs2, NEW projs, Whole(recs, projs),
         \A n \in Names : /\ recs2[n] # None <=> recs[n] # None
                          /\ recs2[n] # None => recs2[n].spec = recs[n].spec
  PROVE  Whole(recs2, projs)
BY DEF Whole, DeclaredBy

(* Making containers run again changes no declaration.                     *)
LEMMA ToRunAgainSpecs ==
  ASSUME NEW recs \in [Names -> Record \cup {None}], NEW S, S = Declared(recs)
  PROVE  \A n \in Names : /\ ToRunAgain(recs, S)[n] # None <=> recs[n] # None
                          /\ ToRunAgain(recs, S)[n] # None =>
                               ToRunAgain(recs, S)[n].spec = recs[n].spec
<1> SUFFICES ASSUME NEW n \in Names
             PROVE  /\ ToRunAgain(recs, S)[n] # None <=> recs[n] # None
                    /\ ToRunAgain(recs, S)[n] # None =>
                         ToRunAgain(recs, S)[n].spec = recs[n].spec
  OBVIOUS
<1>1. CASE recs[n] = None
  BY <1>1 DEF ToRunAgain, Declared
<1>2. CASE recs[n] # None
  <2>1. recs[n] \in Record /\ ToRunAgain(recs, S)[n] = [recs[n] EXCEPT !.desired = "running"]
    BY <1>2 DEF ToRunAgain, Declared
  <2>2. [recs[n] EXCEPT !.desired = "running"] \in Record
    BY <2>1 DEF Record
  <2> QED BY <1>2, <2>1, <2>2, NoneAssumption DEF Record
<1> QED BY <1>1, <1>2

(* The machine boots with whole declarations.                              *)
LEMMA InitWhole == Faults = 0 /\ Crashes = 0 /\ Init => WholeInv
<1> SUFFICES ASSUME Faults = 0, Crashes = 0, Init PROVE WholeInv
  OBVIOUS
<1>1. budget["fault"] = 0 /\ budget["crash"] = 0
  BY DEF Init, Bounds, BoundKinds
<1>2. ASSUME NEW n \in Names, NEW f \in Installed, n \in Services(f)
      PROVE  /\ InstalledRecords[n] # None /\ InstalledRecords[n].spec = f.services[n]
             /\ InstalledRecords[n].spec.project = f.project
  <2>1. SpecOf(Installed, n) = f.services[n]
    BY <1>2, InstalledAssumption DEF SpecOf
  <2>2. f.services[n] \in Service /\ f.services[n].project = f.project
    BY <1>2, FilesAssumption, InstalledAssumption
  <2>3. InstalledRecords[n] = [spec |-> f.services[n], desired |-> "running"]
    BY <1>2, <2>1 DEF InstalledRecords
  <2>4. InstalledRecords[n] \in Record
    BY <2>2, <2>3 DEF Record
  <2> QED BY <2>2, <2>3, <2>4, NoneAssumption
<1>3. ASSUME NEW p \in Projects, NEW f \in Installed, f.project = p
      PROVE  InstalledProjects[p] = f /\ f # None
  <2>1. FileOf(Installed, p) = f
    BY <1>3, InstalledAssumption DEF FileOf
  <2> QED BY <1>3, <2>1, InstalledAssumption, NoneAssumption DEF InstalledProjects
<1>4. \A n \in Names : ~ (\E f \in Installed : n \in Services(f)) => InstalledRecords[n] = None
  BY DEF InstalledRecords
<1>5. \A p \in Projects : ~ (\E f \in Installed : f.project = p) => InstalledProjects[p] = None
  BY DEF InstalledProjects
<1>6. ASSUME NEW p \in Projects, NEW n \in Names
      PROVE  /\ InstalledProjects[p] = None => ~ DeclaredBy(InstalledRecords, n, p)
             /\ InstalledProjects[p] # None =>
                  /\ DeclaredBy(InstalledRecords, n, p) <=> n \in Services(InstalledProjects[p])
                  /\ DeclaredBy(InstalledRecords, n, p) =>
                       InstalledRecords[n].spec = InstalledProjects[p].services[n]
  <2>1. CASE \E f \in Installed : n \in Services(f)
    <3>1. PICK f \in Installed : n \in Services(f)
      BY <2>1
    <3>2. CASE f.project = p
      BY <1>2, <1>3, <3>1, <3>2 DEF DeclaredBy
    <3>3. CASE f.project # p
      <4>1. \A g \in Installed : g.project = p => n \notin Services(g)
        BY <3>1, <3>3, InstalledAssumption
      <4>2. ~ DeclaredBy(InstalledRecords, n, p)
        BY <1>2, <3>1, <3>3 DEF DeclaredBy
      <4> QED BY <1>3, <1>5, <4>1, <4>2
    <3> QED BY <3>2, <3>3
  <2>2. CASE ~ \E f \in Installed : n \in Services(f)
    <3>1. ~ DeclaredBy(InstalledRecords, n, p)
      BY <1>4, <2>2 DEF DeclaredBy
    <3> QED BY <1>3, <1>5, <2>2, <3>1
  <2> QED BY <2>1, <2>2
<1>7. Whole(disk.records, disk.projects)
  BY <1>6 DEF Whole, Init
<1> QED BY <1>1, <1>7 DEF WholeInv, Init, Up

(* Steps that change no declaration.                                       *)
LEMMA QuietWhole ==
  ASSUME TypeOK, WholeInv, UNCHANGED <<disk, records, projects>>, Up <=> Up',
         pending' \subseteq pending,
         \/ UNCHANGED budget
         \/ \E b \in BoundKinds : Spend(b)
  PROVE  WholeInv'
<1>1. budget'["fault"] = 0 /\ budget'["crash"] = 0
  BY DEF WholeInv, Spend, TypeOK, BoundKinds
<1> QED BY <1>1 DEF WholeInv

(* Nothing that would need a bound of zero happens.                        *)
LEMMA NothingFails ==
  ASSUME WholeInv
  PROVE  ~ Spend("fault") /\ ~ Spend("crash") /\ ~ budget["fault"] > 0
BY DEF WholeInv, Spend

(* A whole declaration keeps declarations whole.                           *)
LEMMA CommitsWhole ==
  ASSUME TypeOK, WholeInv, Up, NEW F \in SUBSET Files, Distinct(F), NEW D, Covers(F, D),
         Commit(F, D), pending' \subseteq pending,
         budget' = budget \/ budget' = [budget EXCEPT !["api"] = @ - 1]
  PROVE  WholeInv'
<1>1. Whole(records', projects')
  BY WholeAfter DEF Commit, WholeInv
<1>2. Up'
  BY DEF Commit, passVars, Up
<1>3. budget'["fault"] = 0 /\ budget'["crash"] = 0
  BY DEF WholeInv, TypeOK, BoundKinds
<1> QED BY <1>1, <1>2, <1>3 DEF WholeInv

(* Every API call keeps declarations whole.                                *)
LEMMA ApiWhole ==
  ASSUME TypeOK, WholeInv, Api
  PROVE  WholeInv'
<1>1. ASSUME NEW n \in Names, NEW desired \in {"running", "stopped"}, NEW more,
             SetDesired(n, desired, more), more = {} \/ more = {RestartRequest(n)}
      PROVE  WholeInv'
  <2>1. Up /\ Up' /\ projects' = projects
    BY <1>1 DEF SetDesired, MuFree, passVars, Up
  <2>2. budget'["fault"] = 0 /\ budget'["crash"] = 0
    BY <1>1 DEF SetDesired, WholeInv, Spend, TypeOK, BoundKinds
  <2>3. \A F \in SUBSET Files : SetRequest(F) \in pending' => SetRequest(F) \in pending
    BY <1>1 DEF SetDesired, SetRequest, RestartRequest
  <2>4. \A m \in Names : /\ records'[m] # None <=> records[m] # None
                         /\ records'[m] # None => records'[m].spec = records[m].spec
    <3>1. /\ records[n] \in Record /\ records[n] # None
          /\ records' = [records EXCEPT ![n] = [@ EXCEPT !.desired = desired]]
      BY <1>1 DEF SetDesired, TypeOK
    <3>2. records'[n] = [records[n] EXCEPT !.desired = desired]
      BY <3>1 DEF TypeOK
    <3>3. records'[n] \in Record /\ records'[n].spec = records[n].spec
      BY <3>1, <3>2 DEF Record
    <3>4. \A m \in Names \ {n} : records'[m] = records[m]
      BY <3>1 DEF TypeOK
    <3> QED BY <3>1, <3>3, <3>4, NoneAssumption
  <2>5. Whole(records', projects')
    BY <2>1, <2>4, SameSpecs DEF WholeInv
  <2> QED BY <2>1, <2>2, <2>3, <2>5 DEF WholeInv
<1>2. ASSUME NEW n \in Names, Start(n) \/ Stop(n) \/ Restart(n) PROVE WholeInv'
  BY <1>1, <1>2 DEF Start, Stop, Restart
<1>3. ASSUME NEW req, NEW S, Request(req, S),
             \A F \in SUBSET Files : SetRequest(F) = req => Distinct(F)
      PROVE  WholeInv'
  <2>1. UNCHANGED <<disk, records, projects>> /\ (Up <=> Up') /\ pending' = pending \cup {req}
    BY <1>3 DEF Request, memVars, passVars, Up
  <2>2. budget'["fault"] = 0 /\ budget'["crash"] = 0
    BY <1>3 DEF Request, WholeInv, Spend, TypeOK, BoundKinds
  <2> QED BY <1>3, <2>1, <2>2 DEF WholeInv
<1>4. ASSUME NEW f \in Files, PutProject(f) PROVE WholeInv'
  <2>1. \A F \in SUBSET Files : SetRequest(F) # PutRequest(f)
    BY DEF SetRequest, PutRequest
  <2> QED BY <1>3, <1>4, <2>1 DEF PutProject
<1>5. ASSUME NEW F \in SUBSET Files, PutProjects(F) PROVE WholeInv'
  <2>1. \A G \in SUBSET Files : SetRequest(G) = SetRequest(F) => G = F
    BY DEF SetRequest
  <2> QED BY <1>3, <1>5, <2>1 DEF PutProjects
<1>6. ASSUME NEW n \in Names, FinishRestart(n) PROVE WholeInv'
  BY <1>6, QuietWhole DEF FinishRestart, passVars, histVars, Up
<1>7. ASSUME NEW f \in Files, FinishPut(f) PROVE WholeInv'
  <2>1. Up /\ pending' \subseteq pending
    BY <1>7 DEF FinishPut, MuFree
  <2>2. CASE Conflict(f)
    BY <1>7, <2>1, <2>2, QuietWhole DEF FinishPut, memVars, passVars, histVars, Up
  <2>3. CASE ~ Conflict(f)
    <3>1. Commit({f}, DeclareSteps(f)) /\ budget' = budget
      BY <1>7, <2>3, NothingFails DEF FinishPut, Carried, Completed
    <3>2. Distinct({f})
      BY DEF Distinct
    <3> QED BY <2>1, <2>3, <3>1, <3>2, DeclareCovers, CommitsWhole
  <2> QED BY <2>2, <2>3
<1>8. ASSUME NEW F \in SUBSET Files, FinishSet(F) PROVE WholeInv'
  <2>1. Up /\ pending' \subseteq pending /\ Distinct(F) /\ Whole(records, projects)
    BY <1>8 DEF FinishSet, MuFree, WholeInv
  <2>2. Commit(F, SetSteps(F)) /\ budget' = budget
    BY <1>8, NothingFails DEF FinishSet, Carried, Completed
  <2> QED BY <2>1, <2>2, SetCovers, CommitsWhole
<1>9. ASSUME NEW p \in Projects, DeleteProject(p) PROVE WholeInv'
  <2>1. Up /\ pending' = pending
    BY <1>9 DEF DeleteProject, MuFree
  <2>2. Commit({}, DeleteSteps(p)) /\ budget' = [budget EXCEPT !["api"] = @ - 1]
    BY <1>9, NothingFails DEF DeleteProject, Completed
  <2>3. Distinct({})
    BY DEF Distinct
  <2> QED BY <2>1, <2>2, <2>3, DeleteCovers, CommitsWhole
<1>10. ~ \E n \in Names, desired \in {"running", "stopped"} : SetDesiredFails(n, desired)
  BY NothingFails DEF SetDesiredFails
<1> QED BY <1>2, <1>4, <1>5, <1>6, <1>7, <1>8, <1>9, <1>10 DEF Api, FinishRequest

(* Nothing else changes a declaration, once the daemon runs.               *)
LEMMA NextWhole == TypeOK /\ WholeInv /\ [Next]_vars => WholeInv'
<1> SUFFICES ASSUME TypeOK, WholeInv, [Next]_vars PROVE WholeInv'
  OBVIOUS
<1>1. CASE Pass
  <2> DEFINE Quiet == /\ UNCHANGED <<disk, records, projects, pending>> /\ (Up <=> Up')
                      /\ UNCHANGED budget \/ \E b \in BoundKinds : Spend(b)
  <2>1. ASSUME NEW n, NEW t, Settle(n, t) PROVE Quiet
    BY <2>1 DEF Settle, Up
  <2>2. ASSUME NEW n, NEW t, NEW op, Issue(op, n, t) PROVE Quiet
    BY <2>2 DEF Issue, passVars, Up
  <2>3. ASSUME NEW n, NEW t, StartStep(n, t) PROVE Quiet
    BY <2>1, <2>2, <2>3 DEF StartStep
  <2>4. CASE \E n \in Names : Reconcile(n)
    <3>1. PICK n \in Names : \/ \E t : Settle(n, t)
                             \/ \E t, op : Issue(op, n, t)
                             \/ \E t : StartStep(n, t)
      BY <2>4, ReconcileForms
    <3>2. Quiet
      BY <3>1, <2>1, <2>2, <2>3
    <3> QED BY <3>2, QuietWhole
  <2>5. CASE Return
    <3>1. CASE ReturnSweep \/ ReturnStale \/ ReturnFailed \/ ReturnRecreate
      BY <3>1, QuietWhole DEF ReturnSweep, ReturnStale, ReturnFailed, Leave, ReturnRecreate, memVars, passVars, histVars, Up
    <3>2. CASE ReturnStop \/ ReturnStart \/ ReturnHealth
      <4>1. PICK n, t : Settle(n, t)
        BY <3>2 DEF ReturnStop, ReturnStart, ReturnHealth
      <4>2. Quiet
        BY <4>1, <2>1
      <4> QED BY <4>2, QuietWhole
    <3>3. CASE ReturnRestop
      <4>1. Quiet
        BY <3>3, <2>3 DEF ReturnRestop
      <4> QED BY <4>1, QuietWhole
    <3> QED BY <2>5, <3>1, <3>2, <3>3 DEF Return
  <2>6. CASE \/ List \/ BeginPass \/ (\E n \in Names : Sweep(n)) \/ EndSweep
             \/ Skip \/ EndReconcile \/ RemoveNetworks \/ EngineDo
    <3>1. Quiet
      BY <2>6 DEF List, BeginPass, Sweep, EndSweep, Skip, EndReconcile, RemoveNetworks, EngineDo,
                  Up, memVars, passVars, BoundKinds
    <3> QED BY <3>1, QuietWhole
  <2> QED BY <1>1, <2>4, <2>5, <2>6 DEF Pass
<1>2. CASE Api
  BY <1>2, ApiWhole
<1>3. CASE Failure
  <2>1. OrphanEnds
    BY <1>3, NothingFails DEF Failure, Crash, CrashWhileDeclaring, CrashWhileStoring, Reboot,
                              BootInterrupted
  <2> QED BY <2>1, QuietWhole DEF OrphanEnds, memVars, passVars, Up, BoundKinds
<1>4. CASE StartDaemon
  <2>1. /\ records' = Loaded /\ projects' = disk.projects /\ ~ Up /\ Up'
        /\ pending' = pending /\ budget' = budget
    BY <1>4 DEF StartDaemon, Up
  <2>2. Whole(disk.records, disk.projects)
    BY <2>1 DEF WholeInv
  <2>3. disk.records \in [Names -> Record \cup {None}]
    BY DEF TypeOK
  <2>4. Whole(Loaded, disk.projects)
    BY <2>2, <2>3, ToRunAgainSpecs, SameSpecs DEF Loaded
  <2> QED BY <2>1, <2>4 DEF WholeInv
<1>5. CASE Environment
  BY <1>5, QuietWhole
  DEF Environment, ContainerExits, RunConfirmed, RunIsLong, GapEnds, CheckComesDue, HandRun,
      HandStart, HandRemove, ByHand, memVars, passVars, histVars, Up, BoundKinds
<1>6. CASE UNCHANGED vars
  BY <1>6, QuietWhole DEF vars, Up
<1> QED BY <1>1, <1>2, <1>3, <1>4, <1>5, <1>6 DEF Next

(* While no store call fails and the daemon does not crash, what is        *)
(* declared is what the projects' files say: each name by one file, with   *)
(* the spec that file gives it, whatever declarations, deletions and run   *)
(* states are asked for, and in whatever order their two halves come.      *)
THEOREM FilesMatched ==
  ASSUME Faults = 0, Crashes = 0
  PROVE  Spec => []ServicesMatchFile
<1>1. Init => WholeInv
  BY InitWhole
<1>2. TypeOK /\ WholeInv => ServicesMatchFile
  <2> SUFFICES ASSUME TypeOK, Whole(records, projects), NEW p \in Projects
               PROVE  IF projects[p] = None THEN OfProject(p) = {}
                      ELSE /\ OfProject(p) = Services(projects[p])
                           /\ \A n \in OfProject(p) : Sp(n) = projects[p].services[n]
    BY DEF ServicesMatchFile, WholeInv
  <2>1. \A n \in Names : n \in OfProject(p) <=> DeclaredBy(records, n, p)
    BY DEF OfProject, Declared, DeclaredBy, Sp
  <2>2. OfProject(p) \subseteq Names
    BY DEF OfProject, Declared
  <2>3. projects[p] # None => Services(projects[p]) \subseteq Names
    BY FilesAssumption DEF TypeOK
  <2> QED BY <2>1, <2>2, <2>3 DEF Whole, Sp
<1> QED BY <1>1, <1>2, NextWhole, TypeCorrect, PTL DEF Spec

-----------------------------------------------------------------------------
(* A container that became fatal is not started, as long as the daemon     *)
(* does not crash and nobody starts or removes containers by hand; engine  *)
(* and store calls may fail.  The invariant.                               *)

(* A container of name n that is managed is not running, and was created   *)
(* from what is declared.                                                  *)
Resting(c, n) == c # None /\ c.managed => ~ Running(c) /\ c.hash = Hash(Sp(n))

(* The pass that is under way, if any, still goes by what it listed of n.  *)
Listed(n) == n \in todo \/ pc \in {"listed", "sweep"}

(* reconcile has called the engine about n.                                *)
Busy(n) == call # None /\ call.op # "sweep" /\ call.name = n

(* The listing shows n's container as it is, save that it may have exited  *)
(* since.                                                                  *)
Linked(n) ==
  IF view[n] = None THEN ctr[n] = None
  ELSE /\ ctr[n] # None /\ ctr[n].managed = view[n].managed /\ ctr[n].hash = view[n].hash
       /\ Running(ctr[n]) => Running(view[n])

(* The pass removed n's container, or tried to: a start of n counts as the *)
(* first.                                                                  *)
Loose(n) == view[n] = None /\ track[n].startAttempts = 0

NoDisturbance ==
  /\ budget["crash"] = 0 /\ budget["hand"] = 0 /\ orphan = None
  /\ pc # "reconcile" => todo = {}
  /\ ~ Up => gaveUp = {} /\ \A n \in Names : track[n].startAttempts = 0

(* Of a name that is given up, the container rests, the listing says so,   *)
(* and the tracking holds it fatal unless it is declared stopped.          *)
GivenUp(n) ==
  /\ records[n] # None /\ Resting(ctr[n], n) /\ (Listed(n) => Resting(view[n], n))
  /\ records[n].desired = "running" => track[n].phase = "fatal" /\ ~ track[n].force

Told(n) ==
  /\ n \in gaveUp => GivenUp(n)
  /\ track[n].phase = "fatal" => n \in gaveUp
  /\ records[n] = None => track[n].startAttempts = 0
  /\ Listed(n) /\ ~ Busy(n) => Linked(n) \/ Loose(n)

(* A call in flight is about a name that is not given up.  The container a *)
(* start is about rests, should the start fail, unless none was tried yet. *)
Called ==
  call # None =>
    LET n == call.name IN
    /\ n \notin gaveUp
    /\ IF call.op = "sweep" THEN pc = "sweep" /\ view[n] = None ELSE pc = "reconcile"
    /\ call.op = "recreate" /\ call.done /\ call.ok => ctr[n] = None
    /\ ~ touched =>
         /\ call.op = "restop" =>
              /\ ctr[n] # None /\ ctr[n].managed => ctr[n].hash = Hash(Sp(n))
              /\ call.done /\ call.ok => ~ Running(ctr[n])
         /\ call.op \in {"start", "run"} /\ ~ (call.done /\ call.ok) =>
              Resting(ctr[n], n) \/ track[n].startAttempts = 0

FatalInv == NoDisturbance /\ (\A n \in Names : Told(n)) /\ Called

-----------------------------------------------------------------------------
(* Names a step is not about.                                              *)

(* A set of natural numbers has a least one.                               *)
LEMMA Least ==
  ASSUME NEW T \in SUBSET Nat, T # {}
  PROVE  \E x \in T : \A y \in T : x <= y
<1> DEFINE R == OpToRel(<, Nat)
<1>1. IsWellFoundedOn(R, Nat)
  BY NatLessThanWellFounded
<1>2. \A x, y \in Nat : x < y => <<x, y>> \in R
  BY Zenon DEF OpToRel
<1> HIDE DEF R
<1>3. PICK x \in T : \A y \in T : ~ (<<y, x>> \in R)
  BY <1>1, WFMin, Zenon
<1>4. ASSUME NEW y \in T PROVE x <= y
  <2>1. <<y, x>> \notin R
    BY <1>3
  <2>2. ~ (y < x)
    BY <1>2, <2>1
  <2> QED BY <2>2
<1> QED BY <1>4

(* It is the turn of a name the pass still has to reconcile, which the     *)
(* listing shows as it is, or which has no container any more.             *)
LEMMA TurnIsListed ==
  ASSUME TypeOK, FatalInv, NEW n \in Names, Turn(n)
  PROVE  /\ pc = "reconcile" /\ call = None /\ records[n] # None
         /\ n \in todo /\ Listed(n) /\ ~ Busy(n)
         /\ Linked(n) \/ Loose(n)
<1>1. todo \in SUBSET Nat /\ todo # {}
  BY NamesAssumption DEF TypeOK, Turn
<1>2. PICK x \in todo : \A y \in todo : x <= y
  BY <1>1, Least
<1>3. n \in todo
  BY <1>2 DEF Turn, First
<1>4. Listed(n) /\ ~ Busy(n)
  BY <1>3 DEF Turn, Listed, Busy
<1> QED BY <1>3, <1>4 DEF Turn, FatalInv, Told

(* Nothing told of n changes.                                              *)
Same(n) ==
  /\ ctr'[n] = ctr[n] /\ view'[n] = view[n] /\ records'[n] = records[n]
  /\ track'[n].phase = track[n].phase /\ track'[n].force = track[n].force
  /\ track'[n].startAttempts = track[n].startAttempts
  /\ n \in gaveUp' <=> n \in gaveUp
  /\ Listed(n)' => Listed(n)
  /\ Busy(n) => Busy(n)'

(* A step that changes nothing told of n leaves it true.                   *)
LEMMA SameTold ==
  ASSUME NEW n \in Names, Told(n), Same(n)
  PROVE  Told(n)'
<1>1. \A c : Resting(c, n)' <=> Resting(c, n)
  BY DEF Same, Resting, Sp
<1>2. GivenUp(n) => GivenUp(n)'
  BY <1>1 DEF GivenUp, Same, Resting, Sp
<1>3. Linked(n) \/ Loose(n) => (Linked(n) \/ Loose(n))'
  BY DEF Linked, Loose, Same
<1> QED BY <1>2, <1>3 DEF Told, Same

-----------------------------------------------------------------------------
(* The pass.                                                               *)

(* The end of a reconcile.                                                 *)
LEMMA SettleFatal ==
  ASSUME TypeOK, FatalInv, NEW n \in Names, NEW t \in Tracking, Settle(n, t),
         pc = "reconcile", records[n] # None, call = None \/ call.name = n,
         n \in gaveUp \/ t.phase = "fatal" =>
           /\ Resting(ctr[n], n)
           /\ records[n].desired = "running" => t.phase = "fatal" /\ ~ t.force
  PROVE  FatalInv'
<1>1. ASSUME NEW m \in Names, m # n PROVE Told(m)'
  <2>1. Same(m)
    BY <1>1 DEF Settle, engineVars, Same, Listed, Busy, TypeOK
  <2> QED BY <2>1, SameTold DEF FatalInv
<1>2. Told(n)'
  <2>1. track'[n] = t /\ ~ Listed(n)'
    BY DEF Settle, Listed, TypeOK
  <2>2. n \in gaveUp' <=> n \in gaveUp \/ t.phase = "fatal"
    BY DEF Settle
  <2>3. \A c : Resting(c, n)' <=> Resting(c, n)
    BY DEF Settle, Resting, Sp
  <2>4. ctr' = ctr /\ records' = records
    BY DEF Settle, engineVars
  <2>5. n \in gaveUp' => GivenUp(n)'
    BY <2>1, <2>2, <2>3, <2>4 DEF GivenUp
  <2> QED BY <2>1, <2>2, <2>4, <2>5 DEF Told
<1>3. NoDisturbance' /\ Called'
  BY DEF Settle, FatalInv, NoDisturbance, Called, Up
<1> QED BY <1>1, <1>2, <1>3 DEF FatalInv

(* A call the pass makes for a name that is not given up.                  *)
LEMMA IssueFatal ==
  ASSUME TypeOK, FatalInv, NEW n \in Names, NEW op \in Ops \ {"sweep"}, NEW t \in Tracking,
         Issue(op, n, t), pc = "reconcile", records[n] # None, call = None \/ call.name = n,
         n \notin gaveUp, t.phase # "fatal",
         op = "restop" => (ctr[n] # None /\ ctr[n].managed => ctr[n].hash = Hash(Sp(n))),
         op \in {"start", "run"} => Resting(ctr[n], n) \/ t.startAttempts = 0
  PROVE  FatalInv'
<1>1. /\ call' # None /\ call'.op = op /\ call'.name = n /\ ~ call'.done
      /\ track'[n] = t /\ gaveUp' = gaveUp /\ ctr' = ctr /\ records' = records
      /\ pc' = pc /\ todo' = todo /\ view' = view /\ ~ touched'
  <2>1. call' \in Call
    BY DEF Issue, NewCall, TypeOK, Call
  <2> QED BY <2>1, AbsentAssumption DEF Issue, NewCall, engineVars, passVars, TypeOK
<1>2. ASSUME NEW m \in Names, m # n PROVE Told(m)'
  <2>1. Same(m)
    BY <1>1, <1>2 DEF Issue, Same, Listed, Busy, TypeOK
  <2> QED BY <2>1, SameTold DEF FatalInv
<1>3. Told(n)'
  BY <1>1 DEF Told, Busy
<1>4. NoDisturbance'
  BY <1>1 DEF Issue, FatalInv, NoDisturbance, Up
<1>5. Called'
  BY <1>1 DEF Called, Resting, Sp
<1> QED BY <1>2, <1>3, <1>4, <1>5 DEF FatalInv

(* start, of a name that is not given up.                                  *)
LEMMA StartStepFatal ==
  ASSUME TypeOK, FatalInv, NEW n \in Names, NEW t \in Tracking, StartStep(n, t),
         pc = "reconcile", records[n] # None, call = None \/ call.name = n,
         n \notin gaveUp, t.phase # "fatal",
         Resting(ctr[n], n) \/ t.startAttempts = 0
  PROVE  FatalInv'
<1>1. CASE Held(n) \/ Unready(n)
  <2>1. /\ [t EXCEPT !.phase = "waiting"] \in Tracking
        /\ [t EXCEPT !.phase = "waiting"].phase = "waiting"
    BY WaitingType DEF Tracking
  <2> QED BY <1>1, <2>1, SettleFatal DEF StartStep
<1>2. CASE ~ (Held(n) \/ Unready(n))
  BY <1>2, IssueFatal DEF StartStep, Ops
<1> QED BY <1>1, <1>2

(* What the listing of a name that is given up cannot show.                *)
LEMMA GivenUpListed ==
  ASSUME FatalInv, NEW n \in Names, Listed(n), n \in gaveUp
  PROVE  ~ ObservedRunning(n) /\ ~ Stale(n)
BY DEF FatalInv, Told, GivenUp, Resting, ObservedRunning, Stale, Observed

(* A container the listing shows, not running and not stale, rests.        *)
LEMMA LinkedRests ==
  ASSUME NEW n \in Names, Linked(n), ~ ObservedRunning(n), ~ Stale(n)
  PROVE  Resting(ctr[n], n)
BY DEF Linked, Resting, ObservedRunning, Stale, Observed, Running

(* What the decisions of reconcile leave of a tracking.                    *)
LEMMA DownKeeps ==
  ASSUME TypeOK, NEW n \in Names
  PROVE  /\ Down(n).phase = track[n].phase /\ Down(n).force = track[n].force
         /\ Down(n).startAttempts = track[n].startAttempts
BY TrackType, LowerFields DEF Down

(* A container brought to a stop is in that phase.                         *)
LEMMA StoppedPhase ==
  ASSUME NEW n \in Names
  PROVE  Stopped(n).phase = "stopped"
BY DEF Stopped, ZeroTracking

(* No tracking is fatal, nor counts an attempt, when it begins.            *)
LEMMA ZeroFields ==
  /\ ZeroTracking.phase # "fatal" /\ ZeroTracking.startAttempts = 0
  /\ Forced.phase # "fatal" /\ Forced.startAttempts = 0
<1>1. ZeroTracking.phase = "" /\ Forced.phase = ""
  BY Zenon DEF Forced, ZeroTracking
<1>2. ZeroTracking.startAttempts = 0 /\ Forced.startAttempts = 0
  BY Zenon DEF Forced, ZeroTracking
<1> QED BY <1>1, <1>2, Zenon

(* Deciding on an exit forces nothing.                                     *)
LEMMA JudgedForce ==
  ASSUME TypeOK, NEW n \in Names
  PROVE  Judged(n).force = track[n].force
<1> DEFINE c == view[n]
           t == [Down(n) EXCEPT !.handledExit = ExitStamp(c),
                   !.startAttempts = IF c.ran = "long" THEN 0 ELSE @,
                   !.restarts      = IF c.ran = "long" THEN 0 ELSE @]
           short == [t EXCEPT !.startAttempts = @ + 1]
           stop  == [t EXCEPT !.restarts = @ + 1]
           Forces(u) == u.force = track[n].force
                        /\ \A x : /\ [u EXCEPT !.phase = x].force = u.force
                                  /\ [u EXCEPT !.phase = x, !.due = FALSE].force = u.force
<1>1. Down(n) \in Tracking /\ Down(n).force = track[n].force
  BY DownType, DownKeeps
<1>2. Forces(t) /\ Forces(short) /\ Forces(stop)
  BY <1>1 DEF Tracking
<1>3. \E u \in {t, short, stop} : \/ Judged(n) = [u EXCEPT !.phase = "exited"]
                                  \/ Judged(n) = [u EXCEPT !.phase = "fatal"]
                                  \/ Judged(n) = [u EXCEPT !.phase = "backoff", !.due = FALSE]
  BY Zenon DEF Judged
<1>4. PICK u \in {t, short, stop} : \/ Judged(n) = [u EXCEPT !.phase = "exited"]
                                    \/ Judged(n) = [u EXCEPT !.phase = "fatal"]
                                    \/ Judged(n) = [u EXCEPT !.phase = "backoff", !.due = FALSE]
  BY <1>3, Zenon
<1>5. Forces(u)
  <2>1. u = t \/ u = short \/ u = stop
    BY <1>4, Zenon
  <2> HIDE DEF t, short, stop, Forces
  <2> QED BY <1>2, <2>1
<1> HIDE DEF t, short, stop
<1> QED BY <1>4, <1>5

(* Every branch of reconcile keeps the invariant (supervisor.go,           *)
(* reconcile).                                                             *)
LEMMA ReconcileFatal ==
  ASSUME TypeOK, FatalInv, NEW n \in Names, Reconcile(n)
  PROVE  FatalInv'
<1>1. Turn(n)
  BY DEF Reconcile, Recreate, ReconcileStopped, ReconcileRestart, ReconcileRunning,
         ReconcileFreshStart, ReconcileDecided, ReconcileExit, NotRunning, ToRun
<1>2. /\ pc = "reconcile" /\ call = None /\ records[n] # None
      /\ Listed(n) /\ (Linked(n) \/ Loose(n))
  BY <1>1, TurnIsListed
<1>3. /\ track[n] \in Tracking /\ Down(n) \in Tracking /\ Stopped(n) \in Tracking
      /\ ZeroTracking \in Tracking
  BY TrackType, DownType, StoppedType, ForcedType
<1>4. /\ track[n].phase = "fatal" => n \in gaveUp
      /\ n \in gaveUp => GivenUp(n) /\ Resting(ctr[n], n)
  BY DEF FatalInv, Told, GivenUp
<1>5. n \in gaveUp => ~ ObservedRunning(n) /\ ~ Stale(n)
  BY <1>2, GivenUpListed
<1>6. NotRunning(n) => /\ n \in gaveUp => track[n].phase = "fatal" /\ ~ track[n].force
                       /\ Resting(ctr[n], n) \/ track[n].startAttempts = 0
                       /\ Observed(n) => Resting(ctr[n], n)
  <2> SUFFICES ASSUME NotRunning(n)
               PROVE  /\ n \in gaveUp => track[n].phase = "fatal" /\ ~ track[n].force
                      /\ Resting(ctr[n], n) \/ track[n].startAttempts = 0
                      /\ Observed(n) => Resting(ctr[n], n)
    OBVIOUS
  <2>1. records[n].desired = "running" /\ ~ ObservedRunning(n) /\ ~ Stale(n)
    BY DEF NotRunning, ToRun
  <2>2. Linked(n) => Resting(ctr[n], n)
    BY <2>1, LinkedRests
  <2> QED BY <1>2, <1>4, <2>1, <2>2 DEF GivenUp, Loose, Observed
<1>7. CASE Recreate(n)
  BY <1>2, <1>3, <1>4, <1>5, <1>7, IssueFatal DEF Recreate, Ops
<1>8. CASE ReconcileStopped(n)
  <2>1. CASE Observed(n) /\ Running(view[n])
    BY <1>2, <1>3, <1>4, <1>5, <1>8, <2>1, IssueFatal DEF ReconcileStopped, ObservedRunning, Ops
  <2>2. CASE ~ (Observed(n) /\ Running(view[n]))
    <3>1. Settle(n, Stopped(n)) /\ records[n].desired = "stopped"
      BY <1>8, <2>2 DEF ReconcileStopped
    <3> QED BY <1>2, <1>3, <1>4, <3>1, StoppedPhase, SettleFatal
  <2> QED BY <2>1, <2>2
<1>9. CASE ReconcileRestart(n)
  <2>1. ctr[n] # None /\ ctr[n].managed => ctr[n].hash = Hash(Sp(n))
    BY <1>2, <1>9 DEF ReconcileRestart, ToRun, ObservedRunning, Observed, Stale, Linked, Loose
  <2> QED BY <1>2, <1>3, <1>4, <1>5, <1>9, <2>1, IssueFatal DEF ReconcileRestart, Ops
<1>10. CASE ReconcileRunning(n)
  <2>1. n \notin gaveUp /\ track[n].phase # "fatal"
    BY <1>4, <1>5, <1>10 DEF ReconcileRunning
  <2> DEFINE up(c) == [track[n] EXCEPT !.force = FALSE,
                         !.phase = IF c THEN "running" ELSE "starting"]
             fresh(c) == IF up(c).healthRun = view[n].run THEN up(c)
                         ELSE [up(c) EXCEPT !.healthRun = view[n].run, !.health = "starting",
                                            !.failures = 0, !.check = "first"]
  <2>2. PICK c \in BOOLEAN :
          Settle(n, up(c)) \/ Issue("health", n, fresh(c)) \/ Settle(n, fresh(c))
    <3>1. Confirmations(n) \subseteq BOOLEAN
      BY DEF Confirmations
    <3> QED BY <1>10, <3>1 DEF ReconcileRunning
  <2>3. up(c) \in Tracking /\ up(c).phase # "fatal"
    BY <1>3, <2>2, ConfirmFields
  <2>4. view[n] # None /\ view[n].run \in Nat
    BY <1>10 DEF ReconcileRunning, ObservedRunning, Observed, TypeOK, Container
  <2>5. fresh(c) \in Tracking /\ fresh(c).phase # "fatal"
    <3> HIDE DEF up
    <3> QED BY <2>3, <2>4 DEF Tracking
  <2> HIDE DEF up, fresh
  <2> QED BY <1>2, <2>1, <2>2, <2>3, <2>5, SettleFatal, IssueFatal DEF Ops
<1>11. CASE ReconcileFreshStart(n)
  <2>1. CASE HeldFatal(n) \/ HeldBackoff(n)
    BY <1>2, <1>3, <1>4, <1>6, <1>11, <2>1, DownKeeps, SettleFatal DEF ReconcileFreshStart
  <2>2. CASE ~ (HeldFatal(n) \/ HeldBackoff(n))
    <3>1. n \notin gaveUp /\ track[n].phase # "fatal"
      BY <1>4, <1>6, <1>11, <2>2 DEF ReconcileFreshStart, HeldFatal
    <3>2. PICK t \in {ZeroTracking, Down(n)} : StartStep(n, t)
      BY <1>11, <2>2 DEF ReconcileFreshStart
    <3>3. /\ t \in Tracking /\ t.phase # "fatal"
          /\ Resting(ctr[n], n) \/ t.startAttempts = 0
      BY <1>3, <1>6, <1>11, <3>1, <3>2, DownKeeps, ZeroFields DEF ReconcileFreshStart
    <3> QED BY <1>2, <3>1, <3>2, <3>3, StartStepFatal
  <2> QED BY <2>1, <2>2
<1>12. CASE ReconcileDecided(n)
  <2>1. /\ NotRunning(n)
        /\ \/ Settle(n, Down(n))
           \/ StartStep(n, Down(n)) /\ track[n].phase # "fatal"
    BY <1>12 DEF ReconcileDecided
  <2>2. CASE Settle(n, Down(n))
    BY <1>2, <1>3, <1>4, <1>6, <2>1, <2>2, DownKeeps, SettleFatal
  <2>3. CASE StartStep(n, Down(n)) /\ track[n].phase # "fatal"
    BY <1>2, <1>3, <1>4, <1>6, <2>1, <2>3, DownKeeps, StartStepFatal
  <2> QED BY <2>1, <2>2, <2>3
<1>13. CASE ReconcileExit(n)
  <2>1. /\ NotRunning(n) /\ Observed(n) /\ ~ track[n].force /\ track[n].phase # "fatal"
        /\ Settle(n, Judged(n))
    BY <1>13 DEF ReconcileExit, FreshStart
  <2>2. Judged(n) \in Tracking /\ ~ Judged(n).force
    BY <2>1, JudgedType, JudgedForce
  <2>3. n \notin gaveUp /\ Resting(ctr[n], n)
    BY <1>4, <1>6, <2>1
  <2> QED BY <1>2, <2>1, <2>2, <2>3, SettleFatal
<1> QED BY <1>7, <1>8, <1>9, <1>10, <1>11, <1>12, <1>13 DEF Reconcile

(* A start that fails makes fatal only what counts an attempt already.     *)
LEMMA StartFailedFatal ==
  ASSUME NEW t \in Tracking, StartFailed(t).phase = "fatal"
  PROVE  ~ StartFailed(t).force /\ t.startAttempts # 0
<1> DEFINE u == [t EXCEPT !.force = FALSE, !.startAttempts = @ + 1]
<1>1. /\ u.startAttempts = t.startAttempts + 1 /\ t.startAttempts \in Nat
      /\ [u EXCEPT !.phase = "fatal"].force = FALSE
      /\ [u EXCEPT !.phase = "backoff", !.due = FALSE].phase = "backoff"
  BY DEF Tracking
<1>2. StartFailed(t) = IF u.startAttempts > StartRetries THEN [u EXCEPT !.phase = "fatal"]
                       ELSE [u EXCEPT !.phase = "backoff", !.due = FALSE]
  BY Zenon DEF StartFailed
<1> HIDE DEF u
<1> QED BY <1>1, <1>2, BoundsAssumption

(* A health check changes no phase, and is about the same run.             *)
LEMMA CheckedPhase ==
  ASSUME TypeOK, NEW n \in Names, NEW t \in CappedChecked(n)
  PROVE  t.phase = track[n].phase /\ t.healthRun = track[n].healthRun
<1> DEFINE w == [track[n] EXCEPT !.check = "wait"]
           f == [w EXCEPT !.failures = @ + 1]
           Keeps(u) == /\ u.phase = track[n].phase /\ u.healthRun = track[n].healthRun
                       /\ DOMAIN u = DOMAIN track[n]
<1>1. Keeps(w) /\ Keeps(f)
  BY TrackType DEF Tracking
<1>2. \A u : Keeps(u) => \A a, b : /\ Keeps([u EXCEPT !.health = a, !.failures = b])
                                   /\ Keeps([u EXCEPT !.health = a])
                                   /\ Keeps([u EXCEPT !.failures = a])
  BY TrackType DEF Tracking
<1> DEFINE ok    == [w EXCEPT !.health = "healthy", !.failures = 0]
           worse == [f EXCEPT !.health = "unhealthy"]
<1> HIDE DEF Keeps, w, f
<1>3. \A u \in Checked(n) : Keeps(u)
  <2>1. Keeps(ok) /\ Keeps(worse)
    BY <1>1, <1>2
  <2>2. Checked(n) \subseteq {ok, w, f, worse}
    BY DEF Checked, w, f
  <2> HIDE DEF ok, worse
  <2> QED BY <1>1, <2>1, <2>2
<1>4. PICK u \in Checked(n) :
        t = [u EXCEPT !.failures = IF @ > Sp(n).retries THEN Sp(n).retries ELSE @]
  BY DEF CappedChecked
<1>5. Keeps(t)
  BY <1>2, <1>3, <1>4
<1> QED BY <1>5 DEF Keeps

(* What a call that returned to an untouched name was about.               *)
LEMMA ReturnedFacts ==
  ASSUME TypeOK, Flight, FatalInv, call # None, call.op # "sweep"
  PROVE  /\ call.name \in Names /\ pc = "reconcile"
         /\ call.name \notin gaveUp /\ track[call.name].phase # "fatal"
         /\ ~ touched => records[call.name] # None
<1>1. call.name \in Names
  BY DEF TypeOK, Call
<1>2. pc = "reconcile" /\ call.name \notin gaveUp
  BY DEF FatalInv, Called
<1>3. ~ touched => records[call.name] # None
  BY DEF Flight, CallsOfRecords, InFlightCurrent
<1> QED BY <1>1, <1>2, <1>3 DEF FatalInv, Told

(* A call that returns is no longer in flight, and changes at most one     *)
(* name, for which the pass has nothing left to do.                        *)
LEMMA ReturnFatal ==
  ASSUME TypeOK, Flight, FatalInv, Return
  PROVE  FatalInv'
<1>0. PICK n : n = call.name
  OBVIOUS
<1>1. call # None /\ call.done
  BY DEF Return, ReturnSweep, ReturnStale, ReturnFailed, Leave, ReturnRecreate, ReturnStop,
         ReturnRestop, ReturnStart, ReturnHealth, Fresh, Returned
<1>2. call.op # "sweep" =>
        /\ n \in Names /\ pc = "reconcile" /\ n \notin gaveUp
        /\ track[n].phase # "fatal" /\ (~ touched => records[n] # None)
        /\ track[n] \in Tracking
  BY <1>0, <1>1, ReturnedFacts, TrackType
<1>3. CASE ReturnSweep
  <2>1. \A m \in Names : Same(m)
    BY <1>3 DEF ReturnSweep, Returned, engineVars, memVars, passVars, histVars, Same, Listed, Busy
  <2>2. NoDisturbance' /\ Called'
    BY <1>3 DEF ReturnSweep, memVars, passVars, histVars, FatalInv, NoDisturbance, Called, Up
  <2> QED BY <2>1, <2>2, SameTold DEF FatalInv
<1>4. CASE ReturnStale \/ ReturnFailed
  <2>1. call.op # "sweep" /\ UNCHANGED <<ctr, view, records, track, pc, gaveUp, orphan, budget>>
        /\ call' = None /\ todo' = todo \ {n}
    BY <1>0, <1>4 DEF ReturnStale, ReturnFailed, Leave, Fresh, Returned, engineVars, memVars, Ops
  <2>2. ASSUME NEW m \in Names, m # n PROVE Told(m)'
    <3>1. Same(m)
      BY <1>0, <2>1, <2>2 DEF Same, Listed, Busy
    <3> QED BY <3>1, SameTold DEF FatalInv
  <2>3. Told(n)'
    BY <1>0, <1>2, <2>1 DEF FatalInv, Told, Listed
  <2>4. NoDisturbance' /\ Called'
    BY <2>1 DEF FatalInv, NoDisturbance, Called, Up
  <2> QED BY <2>2, <2>3, <2>4 DEF FatalInv
<1>6. CASE ReturnRecreate
  <2>1. /\ call.op = "recreate" /\ ~ touched /\ call.ok
        /\ UNCHANGED <<ctr, records, pc, todo, gaveUp, orphan, budget>>
        /\ call' = None /\ view' = [view EXCEPT ![n] = None]
        /\ track' = track \/ track' = [track EXCEPT ![n] = Forced]
    BY <1>0, <1>6 DEF ReturnRecreate, Fresh, Returned, engineVars
  <2>2. ctr[n] = None
    BY <1>0, <1>1, <2>1 DEF FatalInv, Called
  <2>3. ASSUME NEW m \in Names, m # n PROVE Told(m)'
    <3>1. Same(m)
      BY <1>0, <2>1, <2>3 DEF Same, Listed, Busy, TypeOK
    <3> QED BY <3>1, SameTold DEF FatalInv
  <2>4. Told(n)'
    <3>1. Linked(n)'
      BY <1>0, <1>2, <2>1, <2>2 DEF Linked, TypeOK
    <3>2. track'[n].phase # "fatal"
      BY <1>0, <1>2, <2>1, ZeroFields DEF TypeOK
    <3> QED BY <1>0, <1>2, <2>1, <3>1, <3>2 DEF Told
  <2>5. NoDisturbance' /\ Called'
    BY <1>0, <1>2, <2>1 DEF FatalInv, NoDisturbance, Called, Up
  <2> QED BY <2>3, <2>4, <2>5 DEF FatalInv
<1>7. CASE ReturnStop
  BY <1>0, <1>2, <1>7, StoppedPhase, StoppedType, SettleFatal DEF ReturnStop, Fresh, Returned
<1>8. CASE ReturnRestop
  <2>1. /\ call.op = "restop" /\ ~ touched /\ call.ok
        /\ StartStep(n, [track[n] EXCEPT !.restart = FALSE])
    BY <1>0, <1>8 DEF ReturnRestop, Fresh, Returned
  <2>2. Resting(ctr[n], n)
    BY <1>0, <1>1, <2>1 DEF FatalInv, Called, Resting
  <2>3. /\ [track[n] EXCEPT !.restart = FALSE] \in Tracking
        /\ [track[n] EXCEPT !.restart = FALSE].phase = track[n].phase
    BY <1>0, <1>2, <2>1, WaitingType DEF Tracking
  <2> QED BY <1>0, <1>2, <2>1, <2>2, <2>3, StartStepFatal
<1>9. CASE ReturnStart
  <2>1. call.op \in {"start", "run"} /\ ~ touched
    BY <1>0, <1>9 DEF ReturnStart, Fresh, Returned
  <2>2. CASE call.ok
    <3>1. Settle(n, [track[n] EXCEPT !.force = FALSE, !.phase = "starting"])
      BY <1>0, <1>9, <2>2 DEF ReturnStart
    <3>2. /\ [track[n] EXCEPT !.force = FALSE, !.phase = "starting"] \in Tracking
          /\ [track[n] EXCEPT !.force = FALSE, !.phase = "starting"].phase = "starting"
      BY <1>0, <1>2, <2>1, WaitingType DEF Tracking
    <3> QED BY <1>0, <1>2, <2>1, <3>1, <3>2, SettleFatal
  <2>3. CASE ~ call.ok
    <3>1. Settle(n, StartFailed(track[n]))
      BY <1>0, <1>9, <2>3 DEF ReturnStart
    <3>2. StartFailed(track[n]) \in Tracking
      BY <1>0, <1>2, <2>1, StartFailedType
    <3>3. Resting(ctr[n], n) \/ track[n].startAttempts = 0
      BY <1>0, <1>1, <2>1, <2>3 DEF FatalInv, Called
    <3> QED BY <1>0, <1>2, <2>1, <3>1, <3>2, <3>3, StartFailedFatal, SettleFatal
  <2> QED BY <2>2, <2>3
<1>10. CASE ReturnHealth
  <2>1. call.op = "health" /\ ~ touched
    BY <1>10 DEF ReturnHealth, Fresh, Returned
  <2>2. PICK t \in CappedChecked(n) : Settle(n, t)
    BY <1>0, <1>10 DEF ReturnHealth
  <2>3. t \in Tracking /\ t.phase # "fatal"
    BY <1>0, <1>2, <2>1, CheckedType, CheckedPhase
  <2> QED BY <1>0, <1>2, <2>1, <2>2, <2>3, SettleFatal
<1> QED BY <1>3, <1>4, <1>6, <1>7, <1>8, <1>9, <1>10 DEF Return

(* What the engine makes of a container that is not the one a call is      *)
(* about, and of the one it is.                                            *)
LEMMA EngineDoFatal ==
  ASSUME TypeOK, Flight, FatalInv, EngineDo
  PROVE  FatalInv'
<1>0. PICK n : n = call.name
  OBVIOUS
<1>1. PICK o \in Outcomes(call, Faulty) :
        /\ ctr' = [ctr EXCEPT ![n] = o.ctr]
        /\ call' = [call EXCEPT !.done = TRUE, !.ok = o.ok]
  BY <1>0 DEF EngineDo, Carry
<1>2. /\ call # None /\ call \in Call /\ ~ call.done /\ n \in Names
      /\ UNCHANGED <<records, track, pc, view, todo, touched, orphan, gaveUp>>
  BY <1>0 DEF EngineDo, TypeOK, Call, memVars, passVars
<1>3. /\ call' # None /\ call'.op = call.op /\ call'.name = n
      /\ call'.done /\ call'.ok = o.ok
  <2>1. call' \in Call
    BY <1>1, <1>2, OutcomesType DEF Call, Flight, CallsOfRecords
  <2> QED BY <1>0, <1>1, <1>2, <2>1, AbsentAssumption DEF Call
<1>4. ctr'[n] = o.ctr /\ \A m \in Names \ {n} : ctr'[m] = ctr[m]
  BY <1>1, <1>2 DEF TypeOK
<1>5. /\ n \notin gaveUp
      /\ IF call.op = "sweep" THEN pc = "sweep" /\ view[n] = None ELSE pc = "reconcile"
  BY <1>0, <1>2 DEF FatalInv, Called
<1>6. NoDisturbance'
  <2>1. budget'["crash"] = budget["crash"] /\ budget'["hand"] = budget["hand"]
    BY DEF EngineDo, Spend, BoundKinds, TypeOK
  <2> QED BY <1>2, <2>1 DEF FatalInv, NoDisturbance, Up
<1>7. ASSUME NEW m \in Names, m # n PROVE Told(m)'
  <2>1. Same(m)
    BY <1>0, <1>2, <1>3, <1>4, <1>7 DEF Same, Listed, Busy
  <2> QED BY <2>1, SameTold DEF FatalInv
<1>8. Told(n)'
  <2>1. Told(n)
    BY <1>2 DEF FatalInv
  <2>2. CASE call.op # "sweep"
    BY <1>2, <1>3, <1>5, <2>1, <2>2 DEF Told, Busy
  <2>3. CASE call.op = "sweep"
    <3>1. Linked(n) \/ Loose(n)
      BY <1>5, <2>1, <2>3 DEF Told, Busy, Listed
    <3>2. ctr[n] = None => o.ctr = None
      BY <1>0, <2>3 DEF Outcomes, RemoveOutcomes, Outcome
    <3>3. (Linked(n) \/ Loose(n))'
      BY <1>2, <1>4, <1>5, <2>3, <3>1, <3>2 DEF Linked, Loose
    <3> QED BY <1>2, <1>5, <2>1, <3>3 DEF Told
  <2> QED BY <2>2, <2>3
<1>9. Called'
  <2>1. ASSUME call.op = "recreate", o.ok PROVE o.ctr = None
    <3>1. o \in RemoveOutcomes(ctr[call.name], Faulty)
      BY <2>1 DEF Outcomes
    <3>2. o = Outcome(None, TRUE) \/ \E x : o = Outcome(x, FALSE)
      BY <3>1, Zenon DEF RemoveOutcomes
    <3> QED BY <2>1, <3>2 DEF Outcome
  <2>2. ctr[n] # None => ctr[n] \in Container
    BY <1>2 DEF TypeOK
  <2>3. ASSUME ~ touched, call.op = "restop"
        PROVE  /\ o.ctr # None /\ o.ctr.managed => o.ctr.hash = Hash(Sp(n))
               /\ o.ok => ~ Running(o.ctr)
    <3>1. ctr[n] # None /\ ctr[n].managed => ctr[n].hash = Hash(Sp(n))
      BY <1>0, <1>2, <2>3 DEF FatalInv, Called
    <3>2. o \in StopOutcomes(ctr[n], Faulty)
      BY <1>0, <2>3 DEF Outcomes
    <3>3. \/ o.ctr = None
          \/ ctr[n] # None /\ o.ctr = ctr[n] /\ (o.ok => ~ Running(ctr[n]))
          \/ ctr[n] # None /\ \E b \in BOOLEAN : o.ctr = Exited(ctr[n], b)
      BY <3>2 DEF StopOutcomes, Outcome
    <3> QED BY <2>2, <3>1, <3>3 DEF Exited, Running, Container
  <2>4. ASSUME ~ touched, call.op \in {"start", "run"}, ~ o.ok
        PROVE  Resting(o.ctr, n) \/ track[n].startAttempts = 0
    <3>1. Resting(ctr[n], n) \/ track[n].startAttempts = 0
      BY <1>0, <1>2, <2>4 DEF FatalInv, Called
    <3>2. call.record = records[n]
      BY <1>0, <1>2, <2>4 DEF Flight, InFlightCurrent
    <3>3. \/ o.ctr = ctr[n] \/ o.ctr = None
          \/ o.ctr = NewContainer(Sp(n), "created", 0)
      <4>1. CASE call.op = "start"
        <5>1. o \in StartOutcomes(ctr[n], FreshRun(n), Faulty)
          BY <1>0, <4>1 DEF Outcomes
        <5> QED BY <2>4, <5>1 DEF StartOutcomes, Outcome
      <4>2. CASE call.op = "run"
        <5>1. o \in RunOutcomes(ctr[n], Sp(n), FreshRun(n), Faulty)
          BY <1>0, <3>2, <4>2 DEF Outcomes, Sp
        <5> QED BY <2>4, <5>1 DEF RunOutcomes, Outcome
      <4> QED BY <2>4, <4>1, <4>2
    <3> QED BY <3>1, <3>3 DEF Resting, NewContainer, Running
  <2>5. \A c : Resting(c, n)' <=> Resting(c, n)
    BY <1>2 DEF Resting, Sp
  <2>6. Sp(n)' = Sp(n)
    BY <1>2 DEF Sp
  <2> QED BY <1>2, <1>3, <1>4, <1>5, <2>1, <2>3, <2>4, <2>5, <2>6 DEF Called
<1> QED BY <1>6, <1>7, <1>8, <1>9 DEF FatalInv

(* Every step of a pass keeps the invariant.                               *)
LEMMA PassFatal ==
  ASSUME TypeOK, Flight, FatalInv, Pass
  PROVE  FatalInv'
<1>1. NoDisturbance /\ Called /\ \A n \in Names : Told(n)
  BY DEF FatalInv
<1>2. pc \notin {"sweep", "reconcile"} => call = None
  BY <1>1 DEF Called
<1>3. CASE List
  <2>1. /\ view' = ctr /\ ctr' = ctr /\ records' = records /\ track' = track
        /\ gaveUp' = gaveUp /\ call' = call /\ call = None
        /\ pc' = "listed" /\ pc = "idle" /\ todo' = todo /\ orphan' = orphan /\ budget' = budget
    BY <1>2, <1>3 DEF List, engineVars, memVars, callVars, histVars
  <2>2. ASSUME NEW n \in Names PROVE Told(n)'
    <3>1. \A c : Resting(c, n)' <=> Resting(c, n)
      BY <2>1 DEF Resting, Sp
    <3>2. Linked(n)'
      BY <2>1 DEF Linked
    <3>3. GivenUp(n) => GivenUp(n)'
      BY <2>1, <3>1 DEF GivenUp
    <3> QED BY <1>1, <2>1, <3>2, <3>3 DEF Told
  <2>3. NoDisturbance' /\ Called'
    BY <1>1, <2>1 DEF NoDisturbance, Called, Up
  <2> QED BY <2>2, <2>3 DEF FatalInv
<1>4. CASE BeginPass \/ EndSweep \/ Skip \/ RemoveNetworks
  <2>1. /\ UNCHANGED <<ctr, view, records, track, gaveUp, orphan>>
        /\ call = None /\ call' = None /\ Up /\ Up'
        /\ budget'["crash"] = budget["crash"] /\ budget'["hand"] = budget["hand"]
    BY <1>2, <1>4 DEF BeginPass, EndSweep, Skip, RemoveNetworks, engineVars, memVars, callVars,
                      histVars, Spend, BoundKinds, TypeOK, Up
  <2>2. ASSUME NEW n \in Names PROVE Listed(n)' => Listed(n)
    BY <1>4 DEF BeginPass, EndSweep, Skip, RemoveNetworks, Listed
  <2>3. pc' # "reconcile" => todo' = {}
    BY <1>1, <1>4 DEF BeginPass, EndSweep, Skip, RemoveNetworks, NoDisturbance
  <2>4. \A n \in Names : Same(n)
    BY <2>1, <2>2 DEF Same, Busy
  <2>5. NoDisturbance' /\ Called'
    BY <1>1, <2>1, <2>3 DEF NoDisturbance, Called
  <2> QED BY <1>1, <2>4, <2>5, SameTold DEF FatalInv
<1>5. CASE EndReconcile
  <2>1. /\ UNCHANGED <<ctr, records, track, gaveUp, orphan, budget>>
        /\ call = None /\ call' = None /\ Up'
        /\ todo' = {} /\ pc' = "nets"
    BY <1>5 DEF EndReconcile, engineVars, memVars, callVars, histVars, Up
  <2>2. ASSUME NEW n \in Names PROVE Told(n)'
    <3>1. ~ Listed(n)'
      BY <2>1 DEF Listed
    <3>2. GivenUp(n) => GivenUp(n)'
      BY <2>1, <3>1 DEF GivenUp, Resting, Sp
    <3> QED BY <1>1, <2>1, <3>1, <3>2 DEF Told
  <2>3. NoDisturbance' /\ Called'
    BY <1>1, <2>1 DEF NoDisturbance, Called
  <2> QED BY <2>2, <2>3 DEF FatalInv
<1>6. ASSUME NEW n \in Names, Sweep(n) PROVE FatalInv'
  <2>1. /\ UNCHANGED <<ctr, records, track, gaveUp, orphan, budget, pc, todo>>
        /\ pc = "sweep" /\ call = None /\ records[n] = None
        /\ view' = [view EXCEPT ![n] = None]
    BY <1>6 DEF Sweep, Undeclared, engineVars, memVars, histVars
  <2>2. call'.op = "sweep" /\ call'.name = n /\ ~ touched'
    BY <1>6 DEF Sweep, NewCall
  <2>3. ASSUME NEW m \in Names, m # n PROVE Told(m)'
    <3>1. Same(m)
      BY <2>1, <2>2, <2>3 DEF Same, Listed, Busy, TypeOK
    <3> QED BY <1>1, <3>1, SameTold
  <2>4. Told(n)
    BY <1>1
  <2>5. Told(n)'
    <3>1. view'[n] = None /\ track[n].startAttempts = 0 /\ n \notin gaveUp
      BY <2>1, <2>4 DEF Told, GivenUp, TypeOK
    <3> QED BY <2>1, <2>4, <3>1 DEF Told, Loose
  <2>6. NoDisturbance' /\ Called'
    BY <1>1, <2>1, <2>2, <2>4 DEF NoDisturbance, Called, Told, GivenUp, Up, TypeOK
  <2> QED BY <2>3, <2>5, <2>6 DEF FatalInv
<1>7. ASSUME NEW n \in Names, Reconcile(n) PROVE FatalInv'
  BY <1>7, ReconcileFatal
<1> QED BY <1>3, <1>4, <1>5, <1>6, <1>7, EngineDoFatal, ReturnFatal DEF Pass

-----------------------------------------------------------------------------
(* The API, and what happens to containers.                                *)

(* Nothing fails that needs a bound of zero.                               *)
LEMMA BudgetKept ==
  ASSUME TypeOK, NoDisturbance, NEW b \in {"api", "exit", "fault"},
         \/ Spend(b)
         \/ budget' = [budget EXCEPT !["api"] = @ - 1]
         \/ budget' = [budget EXCEPT !["api"] = @ - 1, !["fault"] = @ - 1]
         \/ budget' = budget
  PROVE  budget'["crash"] = 0 /\ budget'["hand"] = 0
BY DEF NoDisturbance, Spend, BoundKinds, TypeOK

(* An API call about the names S, which it touches.                        *)
LEMMA TouchFatal ==
  ASSUME TypeOK, FatalInv, Up, UNCHANGED <<ctr, view, pc, todo, call, orphan>>,
         budget'["crash"] = 0 /\ budget'["hand"] = 0,
         NEW S \in SUBSET Names, Touch(S), gaveUp' \subseteq gaveUp,
         \A m \in Names \ S :
           /\ records'[m] = records[m] /\ track'[m].phase = track[m].phase
           /\ track'[m].force = track[m].force
           /\ track'[m].startAttempts = track[m].startAttempts
           /\ m \in gaveUp' <=> m \in gaveUp,
         \A m \in S : Told(m)'
  PROVE  FatalInv'
<1>1. ASSUME NEW m \in Names \ S PROVE Told(m)'
  <2>1. Same(m)
    BY DEF Same, Listed, Busy
  <2> QED BY <2>1, SameTold DEF FatalInv
<1>2. NoDisturbance'
  BY DEF FatalInv, NoDisturbance, Up
<1>3. Called'
  <2> SUFFICES ASSUME call # None PROVE Called'
    BY DEF Called
  <2>0. PICK n \in Names : n = call.name
    BY DEF TypeOK, Call
  <2>1. CASE n \in S
    <3>1. touched'
      BY <2>0, <2>1 DEF Touch
    <3> QED BY <2>0, <3>1 DEF FatalInv, Called
  <2>2. CASE n \notin S
    <3>1. /\ touched' = touched /\ records'[n] = records[n]
          /\ track'[n].startAttempts = track[n].startAttempts
      BY <2>0, <2>2 DEF Touch, TypeOK
    <3>2. \A c : Resting(c, n)' <=> Resting(c, n)
      BY <3>1 DEF Resting, Sp
    <3>3. Sp(n)' = Sp(n)
      BY <3>1 DEF Sp
    <3> QED BY <2>0, <3>1, <3>2, <3>3 DEF FatalInv, Called
  <2> QED BY <2>1, <2>2
<1> QED BY <1>1, <1>2, <1>3 DEF FatalInv

(* What a declaration puts is declared.                                    *)
LEMMA PutDeclares ==
  ASSUME TypeOK, NEW F \in SUBSET Files, NEW D, Grounded(F, D), NEW n \in Names, Does(D, "put", n)
  PROVE  RecordsAfter(records, F, D)[n] # None
<1>1. SpecOf(F, n) \in Service
  BY FilesAssumption DEF Grounded, SpecOf
<1>2. records[n] # None => records[n].desired \in {"running", "stopped"}
  BY DEF TypeOK, Record
<1>3. RecordsAfter(records, F, D)[n] \in Record
  BY <1>1, <1>2 DEF RecordsAfter, Record
<1> QED BY <1>3, NoneAssumption

(* Store calls of a declaration keep the invariant.                        *)
LEMMA CommitFatal ==
  ASSUME TypeOK, FatalInv, Up, NEW F \in SUBSET Files, NEW D, Grounded(F, D), Commit(F, D),
         budget'["crash"] = 0 /\ budget'["hand"] = 0
  PROVE  FatalInv'
<1>1. /\ UNCHANGED <<ctr, view, pc, todo, call, orphan>> /\ Touch(TouchedBy(D))
      /\ gaveUp' = gaveUp \ TouchedBy(D) /\ TouchedBy(D) \subseteq Names
      /\ records' = RecordsAfter(records, F, D) /\ track' = TrackAfter(D)
  BY DEF Commit, engineVars, passVars, TouchedBy
<1>2. \A m \in Names \ TouchedBy(D) : records'[m] = records[m] /\ track'[m] = track[m]
  BY <1>1 DEF RecordsAfter, TrackAfter, TouchedBy
<1>3. ASSUME NEW m \in TouchedBy(D) PROVE Told(m)'
  <2>1. m \in Names /\ m \notin gaveUp' /\ (Does(D, "put", m) \/ Does(D, "drop", m))
    BY <1>1 DEF TouchedBy
  <2>2. \/ track'[m] = ZeroTracking
        \/ track'[m] = Forced
        \/ track'[m] = track[m] /\ track[m].phase # "fatal" /\ Does(D, "put", m)
    BY <1>1, <2>1, Zenon DEF TrackAfter
  <2>3. /\ track'[m].phase # "fatal"
        /\ track'[m].startAttempts = 0 \/ (track'[m] = track[m] /\ Does(D, "put", m))
    <3>1. CASE track'[m] = ZeroTracking
      BY <3>1, ZeroFields
    <3>2. CASE track'[m] = Forced
      BY <3>2, ZeroFields
    <3> QED BY <2>2, <3>1, <3>2
  <2>4. records'[m] = None => track'[m].startAttempts = 0
    BY <1>1, <2>1, <2>3, PutDeclares
  <2>5. (Listed(m) /\ ~ Busy(m))' => Listed(m) /\ ~ Busy(m)
    BY <1>1 DEF Listed, Busy
  <2>6. Linked(m) \/ Loose(m) => (Linked(m) \/ Loose(m))'
    BY <1>1, <2>3 DEF Linked, Loose
  <2> QED BY <2>1, <2>3, <2>4, <2>5, <2>6 DEF FatalInv, Told
<1> QED BY <1>1, <1>2, <1>3, TouchFatal

(* Asking for a run state keeps the invariant.                             *)
LEMMA DesiredFatal ==
  ASSUME TypeOK, FatalInv, NEW n \in Names, NEW desired \in {"running", "stopped"}, NEW more,
         SetDesired(n, desired, more)
  PROVE  FatalInv'
<1>1. /\ UNCHANGED <<ctr, view, pc, todo, call, orphan>> /\ Touch({n}) /\ Up
      /\ records[n] # None /\ records' = [records EXCEPT ![n] = [@ EXCEPT !.desired = desired]]
      /\ IF desired = "running" THEN track' = [track EXCEPT ![n] = Forced] /\ gaveUp' = gaveUp \ {n}
         ELSE track' = track /\ gaveUp' = gaveUp
  BY DEF SetDesired, MuFree, engineVars, passVars
<1>2. budget'["crash"] = 0 /\ budget'["hand"] = 0
  BY BudgetKept DEF SetDesired, FatalInv
<1>3. \A m \in Names \ {n} : /\ records'[m] = records[m] /\ track'[m] = track[m]
                             /\ m \in gaveUp' <=> m \in gaveUp
  BY <1>1 DEF TypeOK
<1>4. /\ records'[n] # None /\ records'[n].spec = records[n].spec
      /\ records'[n].desired = desired
  <2>1. records[n] \in Record /\ records'[n] = [records[n] EXCEPT !.desired = desired]
    BY <1>1 DEF TypeOK
  <2>2. records'[n] \in Record
    BY <2>1 DEF Record
  <2> QED BY <2>1, <2>2, NoneAssumption DEF Record
<1>5. Told(n)
  BY DEF FatalInv
<1>6. (Listed(n) /\ ~ Busy(n))' => Listed(n) /\ ~ Busy(n)
  BY <1>1 DEF Listed, Busy
<1>7. Told(n)'
  <2>1. CASE desired = "running"
    <3>1. /\ track'[n].phase # "fatal" /\ track'[n].startAttempts = 0 /\ n \notin gaveUp'
      BY <1>1, <2>1, ZeroFields DEF TypeOK
    <3>2. Linked(n) \/ Loose(n) => (Linked(n) \/ Loose(n))'
      BY <1>1, <3>1 DEF Linked, Loose
    <3> QED BY <1>4, <1>5, <1>6, <3>1, <3>2 DEF Told
  <2>2. CASE desired = "stopped"
    <3>1. track' = track /\ gaveUp' = gaveUp
      BY <1>1, <2>2
    <3>2. \A c : Resting(c, n)' <=> Resting(c, n)
      BY <1>4 DEF Resting, Sp
    <3>3. GivenUp(n) => GivenUp(n)'
      BY <1>1, <1>4, <2>2, <3>2 DEF GivenUp, Listed
    <3>4. Linked(n) \/ Loose(n) => (Linked(n) \/ Loose(n))'
      BY <1>1, <3>1 DEF Linked, Loose
    <3> QED BY <1>4, <1>5, <1>6, <3>1, <3>3, <3>4 DEF Told
  <2> QED BY <2>1, <2>2
<1> QED BY <1>1, <1>2, <1>3, <1>7, TouchFatal

(* A step that leaves alone what the invariant is about.                   *)
LEMMA QuietFatal ==
  ASSUME TypeOK, FatalInv, UNCHANGED <<ctr, view, pc, todo, call, touched, orphan, gaveUp, records>>,
         \A m \in Names :
           /\ track'[m].phase = track[m].phase /\ track'[m].force = track[m].force
           /\ track'[m].startAttempts = track[m].startAttempts,
         budget'["crash"] = 0 /\ budget'["hand"] = 0
  PROVE  FatalInv'
<1>1. \A m \in Names : Same(m)
  BY DEF Same, Listed, Busy
<1>2. NoDisturbance'
  BY DEF FatalInv, NoDisturbance, Up
<1>3. Called'
  <2> SUFFICES ASSUME call # None PROVE Called'
    BY DEF Called
  <2>1. PICK n \in Names : n = call.name
    BY DEF TypeOK, Call
  <2>2. \A c : Resting(c, n)' <=> Resting(c, n)
    BY DEF Resting, Sp
  <2>3. Sp(n)' = Sp(n)
    BY DEF Sp
  <2> QED BY <2>1, <2>2, <2>3 DEF FatalInv, Called
<1> QED BY <1>1, <1>2, <1>3, SameTold DEF FatalInv

(* A change of other fields of a name's tracking.                          *)
LEMMA OtherFields ==
  ASSUME NEW n \in Names, track \in [Names -> Tracking],
         \/ track' = [track EXCEPT ![n].restart = TRUE]
         \/ track' = [track EXCEPT ![n].due = TRUE]
         \/ track' = [track EXCEPT ![n].check = "due"]
  PROVE  \A m \in Names : /\ track'[m].phase = track[m].phase /\ track'[m].force = track[m].force
                          /\ track'[m].startAttempts = track[m].startAttempts
<1> TAKE m \in Names
<1>1. CASE m # n
  BY <1>1
<1>2. CASE m = n
  <2>1. track[n] \in Tracking
    OBVIOUS
  <2>2. PICK t : /\ t = track'[n]
                 /\ \/ t = [track[n] EXCEPT !.restart = TRUE]
                    \/ t = [track[n] EXCEPT !.due = TRUE]
                    \/ t = [track[n] EXCEPT !.check = "due"]
    OBVIOUS
  <2>3. t.phase = track[n].phase /\ t.force = track[n].force
        /\ t.startAttempts = track[n].startAttempts
    BY <2>1, <2>2 DEF Tracking
  <2> QED BY <1>2, <2>2, <2>3
<1> QED BY <1>1, <1>2

(* Every API call keeps the invariant.                                     *)
LEMMA ApiFatal ==
  ASSUME TypeOK, FatalInv, Api
  PROVE  FatalInv'
<1>1. NoDisturbance
  BY DEF FatalInv
<1>2. budget'["crash"] = 0 /\ budget'["hand"] = 0
  BY <1>1, BudgetKept
  DEF Api, Start, Stop, Restart, SetDesired, SetDesiredFails, PutProject, PutProjects, Request,
      DeleteProject, FinishRequest, FinishRestart, FinishPut, FinishSet, Carried
<1>3. ASSUME NEW n \in Names, Start(n) \/ Stop(n) \/ Restart(n) PROVE FatalInv'
  BY <1>3, DesiredFatal DEF Start, Stop, Restart
<1>4. ASSUME NEW req, NEW S, Request(req, S) PROVE FatalInv'
  BY <1>2, <1>4, QuietFatal DEF Request, engineVars, memVars, passVars, callVars, histVars
<1>5. ASSUME NEW n \in Names, FinishRestart(n) PROVE FatalInv'
  <2>1. \A m \in Names : /\ track'[m].phase = track[m].phase /\ track'[m].force = track[m].force
                         /\ track'[m].startAttempts = track[m].startAttempts
    BY <1>5, OtherFields DEF FinishRestart, TypeOK
  <2>2. /\ UNCHANGED <<ctr, view, pc, todo, call, orphan, gaveUp, records>> /\ Up
        /\ Touch({n})
    BY <1>5 DEF FinishRestart, MuFree, engineVars, passVars, histVars
  <2>3. Told(n)'
    <3>1. Same(n)
      BY <2>1, <2>2 DEF Same, Listed, Busy
    <3> QED BY <3>1, SameTold DEF FatalInv
  <2> QED BY <1>2, <2>1, <2>2, <2>3, TouchFatal
<1>6. ASSUME NEW F \in SUBSET Files, NEW steps, Carried(F, steps), Up,
             \A D \in SUBSET steps : Grounded(F, D)
      PROVE  FatalInv'
  <2>1. PICK D \in SUBSET steps : Commit(F, D)
    BY <1>6, CarriedSteps DEF Done
  <2> QED BY <1>2, <1>6, <2>1, CommitFatal
<1>7. ASSUME NEW f \in Files, FinishPut(f) PROVE FatalInv'
  <2>1. CASE Conflict(f)
    BY <1>2, <1>7, <2>1, QuietFatal
    DEF FinishPut, engineVars, memVars, passVars, callVars, histVars
  <2>2. CASE ~ Conflict(f)
    BY <1>6, <1>7, <2>2, StepsGrounded DEF FinishPut, MuFree
  <2> QED BY <2>1, <2>2
<1>8. ASSUME NEW F \in SUBSET Files, FinishSet(F) PROVE FatalInv'
  BY <1>6, <1>8, StepsGrounded DEF FinishSet, MuFree
<1>9. ASSUME NEW p \in Projects, DeleteProject(p) PROVE FatalInv'
  <2>1. PICK D \in SUBSET DeleteSteps(p) : Commit({}, D)
    BY <1>9, CarriedSteps DEF DeleteProject, Done
  <2> QED BY <1>2, <1>9, <2>1, StepsGrounded, CommitFatal DEF DeleteProject, MuFree
<1>10. CASE FinishRequest
  BY <1>5, <1>7, <1>8, <1>10 DEF FinishRequest
<1>11. ASSUME NEW n \in Names, NEW desired, SetDesiredFails(n, desired) PROVE FatalInv'
  BY <1>2, <1>11, QuietFatal DEF SetDesiredFails, engineVars, memVars, passVars, callVars
<1> QED BY <1>3, <1>4, <1>9, <1>10, <1>11 DEF Api, PutProject, PutProjects

(* A run that ends, or ages, keeps the invariant.                          *)
LEMMA RunFatal ==
  ASSUME TypeOK, FatalInv, NEW n \in Names, NEW c \in Container, Running(ctr[n]), ctr[n].managed,
         ctr' = [ctr EXCEPT ![n] = c],
         c.managed = ctr[n].managed, c.hash = ctr[n].hash,
         UNCHANGED <<records, track, view, pc, todo, call, touched, orphan, gaveUp>>,
         budget'["crash"] = 0 /\ budget'["hand"] = 0
  PROVE  FatalInv'
<1>1. /\ ctr'[n] = c /\ c # None /\ ctr[n] # None
      /\ \A m \in Names \ {n} : ctr'[m] = ctr[m]
  BY AbsentAssumption DEF TypeOK, Running
<1>2. Told(n) /\ n \notin gaveUp
  BY <1>1 DEF FatalInv, Told, GivenUp, Resting
<1>3. ASSUME NEW m \in Names, m # n PROVE Told(m)'
  <2>1. Same(m)
    BY <1>1, <1>3 DEF Same, Listed, Busy
  <2> QED BY <2>1, SameTold DEF FatalInv
<1>4. Told(n)'
  <2>1. Linked(n) \/ Loose(n) => (Linked(n) \/ Loose(n))'
    BY <1>1 DEF Linked, Loose
  <2> QED BY <1>2, <2>1 DEF Told, Listed, Busy
<1>5. NoDisturbance'
  BY DEF FatalInv, NoDisturbance, Up
<1>6. Called'
  <2> SUFFICES ASSUME call # None PROVE Called'
    BY DEF Called
  <2>1. PICK m \in Names : m = call.name
    BY DEF TypeOK, Call
  <2>2. \A x : Resting(x, m)' <=> Resting(x, m)
    BY DEF Resting, Sp
  <2>3. Sp(m)' = Sp(m)
    BY DEF Sp
  <2>4. CASE m # n
    BY <1>1, <2>1, <2>2, <2>3, <2>4 DEF FatalInv, Called
  <2>5. CASE m = n
    <3>1. ~ Resting(ctr[n], n)
      BY <1>1 DEF Resting
    <3>2. ~ touched /\ call.op \in {"start", "run"} /\ ~ (call.done /\ call.ok) =>
            track[n].startAttempts = 0
      BY <2>1, <2>5, <3>1 DEF FatalInv, Called
    <3>3. ~ (call.op = "recreate" /\ call.done /\ call.ok)
      BY <1>1, <2>1, <2>5 DEF FatalInv, Called
    <3>4. ~ touched /\ call.op = "restop" =>
            /\ c.managed => c.hash = Hash(Sp(n))
            /\ ~ (call.done /\ call.ok)
      BY <1>1, <2>1, <2>5 DEF FatalInv, Called
    <3>5. call.name \notin gaveUp /\ IF call.op = "sweep" THEN pc = "sweep" /\ view[n] = None
                                     ELSE pc = "reconcile"
      BY <2>1, <2>5 DEF FatalInv, Called
    <3> QED BY <1>1, <2>1, <2>2, <2>3, <2>5, <3>2, <3>3, <3>4, <3>5 DEF Called
  <2> QED BY <2>4, <2>5
<1> QED BY <1>3, <1>4, <1>5, <1>6 DEF FatalInv

(* What happens to containers, nobody interfering by hand, and the passing *)
(* of time keep the invariant.                                             *)
LEMMA EnvironmentFatal ==
  ASSUME TypeOK, FatalInv, Environment
  PROVE  FatalInv'
<1> PICK n \in Names :
      \/ ContainerExits(n) \/ RunConfirmed(n) \/ RunIsLong(n)
      \/ GapEnds(n) \/ CheckComesDue(n)
      \/ HandRun(n) \/ HandStart(n) \/ HandRemove(n)
  BY DEF Environment
<1>1. ~ (HandRun(n) \/ HandStart(n) \/ HandRemove(n))
  BY DEF HandRun, HandStart, HandRemove, ByHand, Spend, FatalInv, NoDisturbance
<1>2. budget'["crash"] = 0 /\ budget'["hand"] = 0
  BY <1>1, BudgetKept DEF ContainerExits, RunConfirmed, RunIsLong, GapEnds, CheckComesDue, FatalInv
<1>3. CASE ContainerExits(n) \/ RunConfirmed(n) \/ RunIsLong(n)
  <2>1. /\ Running(ctr[n]) /\ ctr[n].managed /\ ctr[n] \in Container
        /\ UNCHANGED <<records, track, view, pc, todo, call, touched, orphan, gaveUp>>
    BY <1>3 DEF ContainerExits, RunConfirmed, RunIsLong, memVars, passVars, callVars, histVars,
                TypeOK, Running
  <2>2. PICK c : /\ ctr' = [ctr EXCEPT ![n] = c]
                 /\ \/ \E failed \in BOOLEAN : c = Exited(ctr[n], failed)
                    \/ \E ran \in {"ok", "long"} : c = [ctr[n] EXCEPT !.ran = ran]
    BY <1>3 DEF ContainerExits, RunConfirmed, RunIsLong
  <2>3. /\ c \in Container
        /\ c.managed = ctr[n].managed /\ c.hash = ctr[n].hash
    BY <2>1, <2>2 DEF Exited, Container, Ages
  <2> QED BY <1>2, <2>1, <2>2, <2>3, RunFatal
<1>4. CASE GapEnds(n) \/ CheckComesDue(n)
  <2>1. \A m \in Names : /\ track'[m].phase = track[m].phase /\ track'[m].force = track[m].force
                         /\ track'[m].startAttempts = track[m].startAttempts
    BY <1>4, OtherFields DEF GapEnds, CheckComesDue, TypeOK
  <2> QED BY <1>2, <1>4, <2>1, QuietFatal
          DEF GapEnds, CheckComesDue, engineVars, passVars, callVars, histVars
<1> QED BY <1>1, <1>3, <1>4

-----------------------------------------------------------------------------
(* The theorem.                                                            *)

(* A machine that has just booted has given no name up.                    *)
LEMMA InitFatal == Crashes = 0 /\ Hands = 0 /\ Init => FatalInv
<1> SUFFICES ASSUME Crashes = 0, Hands = 0, Init PROVE FatalInv
  OBVIOUS
<1>1. budget["crash"] = 0 /\ budget["hand"] = 0
  BY DEF Init, Bounds, BoundKinds
<1>2. \A n \in Names : track[n].startAttempts = 0 /\ track[n].phase # "fatal" /\ ~ Listed(n)
  BY ZeroFields DEF Init, Listed
<1> QED BY <1>1, <1>2 DEF Init, FatalInv, NoDisturbance, Told, Called

(* Every step keeps the invariant.                                         *)
LEMMA NextFatal == TypeOK /\ Flight /\ FatalInv /\ [Next]_vars => FatalInv'
<1> SUFFICES ASSUME TypeOK, Flight, FatalInv, [Next]_vars PROVE FatalInv'
  OBVIOUS
<1>1. ~ Failure
  BY DEF FatalInv, NoDisturbance, Failure, Crash, CrashWhileDeclaring, CrashWhileStoring,
         OrphanEnds, Reboot, BootInterrupted, Spend
<1>2. CASE StartDaemon
  <2>1. /\ UNCHANGED <<ctr, view, track, todo, call, orphan, gaveUp, budget>>
        /\ pc = "down" /\ pc' = "idle" /\ ~ Up /\ Up'
    BY <1>2 DEF StartDaemon, engineVars, callVars, histVars, Up
  <2>2. call = None
    BY <2>1 DEF FatalInv, Called
  <2>3. todo = {} /\ gaveUp = {} /\ \A n \in Names : track[n].startAttempts = 0
    BY <2>1 DEF FatalInv, NoDisturbance
  <2>4. \A n \in Names : Told(n)'
    BY <2>1, <2>3 DEF FatalInv, Told, Listed
  <2> QED BY <2>1, <2>2, <2>3, <2>4 DEF FatalInv, NoDisturbance, Called
<1>3. CASE UNCHANGED vars
  <2>1. budget'["crash"] = 0 /\ budget'["hand"] = 0
    BY <1>3 DEF vars, FatalInv, NoDisturbance
  <2> QED BY <1>3, <2>1, QuietFatal DEF vars
<1> QED BY <1>1, <1>2, <1>3, PassFatal, ApiFatal, EnvironmentFatal DEF Next

(* A container that became fatal is not started by any pass until it is    *)
(* started again through the API, declared again, or the machine restarts: *)
(* whatever engine and store calls fail, and however exits, API calls and  *)
(* a call in flight interleave, as long as the daemon does not crash and   *)
(* nobody runs or removes containers by hand.                              *)
THEOREM FatalKept ==
  ASSUME Crashes = 0, Hands = 0
  PROVE  Spec => []FatalStays
<1>1. Init => FatalInv
  BY InitFatal
<1>2. FatalInv => FatalStays
  BY DEF FatalInv, Called, FatalStays
<1>3. Inv => TypeOK /\ Flight
  BY DEF Inv
<1> QED BY <1>1, <1>2, <1>3, InitInv, NextInv, NextFatal, PTL DEF Spec
=============================================================================
