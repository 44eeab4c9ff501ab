------------------------- MODULE UndisturbedProofs --------------------------
(***************************************************************************)
(* The theorems that a container that runs as declared is left alone, that *)
(* containers are started after those they depend on, and that starts that *)
(* fail are bounded, as long as the daemon does not crash and nobody       *)
(* starts or removes containers by hand; engine and store calls may fail.  *)
(***************************************************************************)
EXTENDS SupervisorProofs

-----------------------------------------------------------------------------
(* The invariant.                                                          *)

(* The managed container of n that the listing shows, or a later run of    *)
(* it, is still there.                                                     *)
Kept(n) == ctr[n] # None /\ ctr[n].managed /\ ctr[n].hash = view[n].hash

(* What a call about a listed container was decided for: a stop for the    *)
(* run state, or for a restart that was asked for; a removal for another   *)
(* declaration; a start for a container that does not run.                 *)
Grounds ==
  call # None /\ call.op # "sweep" =>
    LET n == call.name IN
    /\ call.op = "stop" => call.record.desired = "stopped"
    /\ call.op = "restop" => call.track.restart
    /\ Observed(n) /\ (call.op = "restop" \/ ~ call.done) => Kept(n)
    /\ Observed(n) /\ ~ call.done =>
         /\ call.op = "recreate" => view[n].hash # Hash(call.record.spec)
         /\ call.op \in {"start", "run"} => ~ Running(ctr[n])

(* The label of a managed container is the hash it was created from.       *)
Labelled == \A n \in Names : ctr[n] # None /\ ctr[n].managed => ctr[n].hash \in Hashes

(* A step that leaves containers, the listing and the call alone.          *)
LEMMA QuietGrounds ==
  ASSUME Grounds, UNCHANGED <<ctr, view, call>>
  PROVE  Grounds'
BY DEF Grounds, Observed, Kept

(* A call that is issued has its grounds.                                  *)
LEMMA IssueGrounds ==
  ASSUME TypeOK, NEW n \in Names, NEW op \in Ops \ {"sweep"}, NEW t \in Tracking, Issue(op, n, t),
         op = "stop" => records[n].desired = "stopped",
         op = "restop" => t.restart,
         Observed(n) => Kept(n),
         op = "recreate" => Stale(n),
         op \in {"start", "run"} /\ Observed(n) => ~ Running(ctr[n])
  PROVE  Grounds'
<1>1. /\ call'.op = op /\ call'.name = n /\ ~ call'.done
      /\ call'.record = records[n] /\ call'.track = t
      /\ ctr' = ctr /\ view' = view /\ records' = records
  BY DEF Issue, NewCall, engineVars, passVars
<1> QED BY <1>1 DEF Grounds, Observed, Kept, Stale, Sp

(* start, of a container that does not run.                                *)
LEMMA StartStepGrounds ==
  ASSUME TypeOK, NEW n \in Names, NEW t \in Tracking, StartStep(n, t),
         Observed(n) => Kept(n) /\ ~ Running(ctr[n])
  PROVE  Grounds'
<1>1. CASE Held(n) \/ Unready(n)
  BY <1>1 DEF StartStep, Settle, Grounds
<1>2. CASE ~ (Held(n) \/ Unready(n))
  BY <1>2, IssueGrounds DEF StartStep, Ops
<1> QED BY <1>1, <1>2

(* Every branch of reconcile has grounds for what it calls the engine for. *)
LEMMA ReconcileGrounds ==
  ASSUME TypeOK, FatalInv, NEW n \in Names, Reconcile(n)
  PROVE  Grounds'
<1>1. Turn(n)
  BY DEF Reconcile, Recreate, ReconcileStopped, ReconcileRestart, ReconcileRunning,
         ReconcileFreshStart, ReconcileDecided, ReconcileExit, NotRunning, ToRun
<1>2. Observed(n) => Kept(n) /\ (Running(ctr[n]) => Running(view[n]))
  <2>1. Linked(n) \/ Loose(n)
    BY <1>1, TurnIsListed
  <2> QED BY <2>1 DEF Linked, Loose, Observed, Kept
<1>3. track[n] \in Tracking /\ Down(n) \in Tracking /\ ZeroTracking \in Tracking
  BY TrackType, DownType, ForcedType
<1>4. ASSUME NEW t, Settle(n, t) PROVE Grounds'
  BY <1>4 DEF Settle, Grounds
<1>5. ASSUME NEW t \in Tracking, StartStep(n, t), NotRunning(n) PROVE Grounds'
  <2>1. Observed(n) => Kept(n) /\ ~ Running(ctr[n])
    BY <1>2, <1>5 DEF NotRunning, ObservedRunning
  <2> QED BY <1>5, <2>1, StartStepGrounds
<1>6. CASE Recreate(n)
  BY <1>2, <1>3, <1>6, IssueGrounds DEF Recreate, Ops
<1>7. CASE ReconcileStopped(n)
  BY <1>2, <1>3, <1>4, <1>7, IssueGrounds DEF ReconcileStopped, Ops
<1>8. CASE ReconcileRestart(n)
  BY <1>2, <1>3, <1>8, IssueGrounds DEF ReconcileRestart, Ops
<1>9. CASE ReconcileRunning(n)
  <2>1. (\E t : Settle(n, t)) \/ (\E t : Issue("health", n, t))
    BY <1>9 DEF ReconcileRunning
  <2>2. ASSUME NEW t, Issue("health", n, t) PROVE Grounds'
    BY <1>2, <2>2 DEF Issue, NewCall, engineVars, passVars, Grounds, Observed, Kept
  <2> QED BY <1>4, <2>1, <2>2
<1>10. CASE ReconcileFreshStart(n)
  BY <1>3, <1>4, <1>5, <1>10 DEF ReconcileFreshStart
<1>11. CASE ReconcileDecided(n)
  BY <1>3, <1>4, <1>5, <1>11 DEF ReconcileDecided
<1>12. CASE ReconcileExit(n)
  BY <1>4, <1>12 DEF ReconcileExit
<1> QED BY <1>6, <1>7, <1>8, <1>9, <1>10, <1>11, <1>12 DEF Reconcile

(* A call that returned is over, but for the start after a stop.           *)
LEMMA ReturnGrounds ==
  ASSUME TypeOK, FatalInv, Grounds, Return
  PROVE  Grounds'
<1>1. ASSUME call' = None PROVE Grounds'
  BY <1>1 DEF Grounds
<1>2. CASE ReturnRestop
  <2>1. PICK n : n = call.name
    OBVIOUS
  <2>2. /\ call # None /\ call.op = "restop" /\ call.done /\ call.ok /\ ~ touched /\ n \in Names
        /\ StartStep(n, [track[n] EXCEPT !.restart = FALSE])
    BY <1>2, <2>1 DEF ReturnRestop, Fresh, Returned, TypeOK, Call
  <2>3. Observed(n) => Kept(n) /\ ~ Running(ctr[n])
    BY <2>1, <2>2 DEF Grounds, FatalInv, Called
  <2>4. [track[n] EXCEPT !.restart = FALSE] \in Tracking
    BY <2>2, TrackType DEF Tracking
  <2> QED BY <2>2, <2>3, <2>4, StartStepGrounds
<1>3. CASE ReturnStop \/ ReturnStart \/ ReturnHealth
  BY <1>1, <1>3 DEF ReturnStop, ReturnStart, ReturnHealth, Settle
<1>4. CASE ReturnSweep \/ ReturnStale \/ ReturnFailed \/ ReturnRecreate
  BY <1>1, <1>4 DEF ReturnSweep, ReturnStale, ReturnFailed, Leave, ReturnRecreate
<1> QED BY <1>2, <1>3, <1>4 DEF Return

(* What an engine call leaves, by what it is asked for.                    *)
LEMMA Leaves ==
  ASSUME TypeOK, NEW k \in Call, NEW faulty, NEW o \in Outcomes(k, faulty)
  PROVE  LET c == ctr[k.name] IN
         /\ k.op \in {"sweep", "recreate"} =>
              \/ o.ctr = None
              \/ o.ctr = c
              \/ Running(c) /\ o.ctr = Exited(c, TRUE)
         /\ k.op \in {"stop", "restop"} =>
              o.ctr = c \/ (Running(c) /\ \E b \in BOOLEAN : o.ctr = Exited(c, b))
         /\ k.op = "start" =>
              \/ o.ctr = c /\ (o.ok => Running(c))
              \/ c # None /\ ~ Running(c) /\ o.ok /\ o.ctr = Started(c, FreshRun(k.name))
         /\ k.op = "run" =>
              \/ o.ok /\ o.ctr = NewContainer(k.record.spec, "running", FreshRun(k.name))
              \/ ~ o.ok /\ o.ctr \in {c, None, NewContainer(k.record.spec, "created", 0)}
         /\ k.op = "health" => o.ctr = c
<1> DEFINE c == ctr[k.name]
           IsOutcome(x) == o = Outcome(x, TRUE) \/ o = Outcome(x, FALSE)
<1>0. ASSUME NEW x, IsOutcome(x) PROVE o.ctr = x
  <2>1. CASE o = Outcome(x, TRUE)
    BY <2>1 DEF Outcome
  <2>2. CASE o = Outcome(x, FALSE)
    BY <2>2 DEF Outcome
  <2> QED BY <1>0, <2>1, <2>2
<1>1. ASSUME k.op \in {"sweep", "recreate"}
      PROVE  o.ctr = None \/ o.ctr = c \/ (Running(c) /\ o.ctr = Exited(c, TRUE))
  <2>1. IsOutcome(None) \/ IsOutcome(c) \/ (Running(c) /\ IsOutcome(Exited(c, TRUE)))
    BY <1>1 DEF Outcomes, RemoveOutcomes
  <2> QED BY <1>0, <2>1
<1>2. ASSUME k.op \in {"stop", "restop"}
      PROVE  o.ctr = c \/ (Running(c) /\ \E b \in BOOLEAN : o.ctr = Exited(c, b))
  <2>1. \/ IsOutcome(c)
        \/ Running(c) /\ (IsOutcome(Exited(c, TRUE)) \/ IsOutcome(Exited(c, FALSE)))
    <3>1. o \in StopOutcomes(c, faulty)
      BY <1>2 DEF Outcomes
    <3> QED BY <3>1 DEF StopOutcomes
  <2> QED BY <1>0, <2>1
<1>3. ASSUME k.op = "start"
      PROVE  \/ o.ctr = c /\ (o.ok => Running(c))
             \/ c # None /\ ~ Running(c) /\ o.ok /\ o.ctr = Started(c, FreshRun(k.name))
  <2>1. \/ o = Outcome(c, FALSE)
        \/ o = Outcome(c, TRUE) /\ Running(c)
        \/ c # None /\ ~ Running(c) /\ o = Outcome(Started(c, FreshRun(k.name)), TRUE)
    BY <1>3 DEF Outcomes, StartOutcomes
  <2> QED BY <2>1 DEF Outcome
<1>4. ASSUME k.op = "run"
      PROVE  \/ o.ok /\ o.ctr = NewContainer(k.record.spec, "running", FreshRun(k.name))
             \/ ~ o.ok /\ o.ctr \in {c, None, NewContainer(k.record.spec, "created", 0)}
  <2>1. \/ o = Outcome(NewContainer(k.record.spec, "running", FreshRun(k.name)), TRUE)
        \/ \E x \in {c, None, NewContainer(k.record.spec, "created", 0)} : o = Outcome(x, FALSE)
    BY <1>4 DEF Outcomes, RunOutcomes
  <2> QED BY <2>1 DEF Outcome
<1>5. ASSUME k.op = "health" PROVE o.ctr = c
  <2>1. IsOutcome(c)
    BY <1>5 DEF Outcomes
  <2> QED BY <2>1 DEF Outcome
<1> QED BY <1>1, <1>2, <1>3, <1>4, <1>5

(* A container that exits or is started again is the same one.             *)
LEMMA SameContainer ==
  ASSUME NEW c \in Container, NEW r \in Nat
  PROVE  /\ \A b \in BOOLEAN : /\ Exited(c, b) \in Container /\ ~ Running(Exited(c, b))
                               /\ Exited(c, b).managed = c.managed /\ Exited(c, b).hash = c.hash
         /\ Started(c, r) \in Container
         /\ Started(c, r).managed = c.managed /\ Started(c, r).hash = c.hash
BY DEF Exited, Started, Running, Container, Ages

(* The engine leaves grounds and labels.                                   *)
LEMMA EngineDoGrounds ==
  ASSUME TypeOK, Flight, Labelled, Grounds, EngineDo
  PROVE  Labelled' /\ Grounds'
<1>0. PICK n : n = call.name
  OBVIOUS
<1>1. PICK o \in Outcomes(call, Faulty) :
        /\ ctr' = [ctr EXCEPT ![n] = o.ctr]
        /\ call' = [call EXCEPT !.done = TRUE, !.ok = o.ok]
  BY <1>0 DEF EngineDo, Carry
<1>2. /\ call # None /\ call \in Call /\ ~ call.done /\ n \in Names /\ view' = view
  BY <1>0 DEF EngineDo, TypeOK, Call, passVars
<1>3. /\ call'.op = call.op /\ call'.name = n /\ call'.done
      /\ call'.record = call.record /\ call'.track = call.track
  BY <1>0, <1>1, <1>2 DEF Call
<1>4. ctr'[n] = o.ctr /\ \A m \in Names \ {n} : ctr'[m] = ctr[m]
  BY <1>1, <1>2 DEF TypeOK
<1>5. ctr[n] # None => ctr[n] \in Container
  BY <1>2 DEF TypeOK
<1>6. FreshRun(n) \in Nat
  BY <1>2, FreshRunType
<1>7. o.ctr # None /\ o.ctr.managed => o.ctr.hash \in Hashes
  <2>1. ctr[n] # None /\ ctr[n].managed => ctr[n].hash \in Hashes
    BY <1>2 DEF Labelled
  <2>2. call.op = "run" => Hash(call.record.spec) \in Hashes
    BY <1>2, HashType DEF Flight, CallsOfRecords, Call, Record
  <2>3. \/ o.ctr = None
        \/ o.ctr = ctr[n]
        \/ Running(ctr[n]) /\ (\E b \in BOOLEAN : o.ctr = Exited(ctr[n], b))
        \/ ctr[n] # None /\ o.ctr = Started(ctr[n], FreshRun(n))
        \/ call.op = "run" /\ \E state, r : o.ctr = NewContainer(call.record.spec, state, r)
    <3>1. CASE call.op \in {"sweep", "recreate", "stop", "restop", "health"}
      BY <1>0, <1>2, <3>1, Leaves
    <3>2. CASE call.op = "start"
      BY <1>0, <1>2, <3>2, Leaves
    <3>3. CASE call.op = "run"
      BY <1>0, <1>2, <3>3, Leaves
    <3> QED BY <1>2, <3>1, <3>2, <3>3 DEF Call, Ops
  <2>4. ASSUME NEW state, NEW r
        PROVE  NewContainer(call.record.spec, state, r).hash = Hash(call.record.spec)
    BY DEF NewContainer
  <2>5. CASE o.ctr = None \/ o.ctr = ctr[n]
    BY <2>1, <2>5
  <2>6. CASE Running(ctr[n]) /\ \E b \in BOOLEAN : o.ctr = Exited(ctr[n], b)
    <3>1. ctr[n] # None
      BY <2>6 DEF Running
    <3> QED BY <1>5, <1>6, <2>1, <2>6, <3>1, SameContainer
  <2>7. CASE ctr[n] # None /\ o.ctr = Started(ctr[n], FreshRun(n))
    BY <1>5, <1>6, <2>1, <2>7, SameContainer
  <2>8. CASE call.op = "run" /\ \E state, r : o.ctr = NewContainer(call.record.spec, state, r)
    BY <2>2, <2>4, <2>8
  <2> QED BY <2>3, <2>5, <2>6, <2>7, <2>8
<1>8. Labelled'
  BY <1>4, <1>7 DEF Labelled
<1>9. call.op = "restop" /\ Observed(n) =>
        o.ctr # None /\ o.ctr.managed /\ o.ctr.hash = view[n].hash
  <2> SUFFICES ASSUME call.op = "restop", Observed(n)
               PROVE  o.ctr # None /\ o.ctr.managed /\ o.ctr.hash = view[n].hash
    OBVIOUS
  <2>1. Kept(n)
    BY <1>0, <1>2 DEF Grounds
  <2>2. o.ctr = ctr[n] \/ \E b \in BOOLEAN : o.ctr = Exited(ctr[n], b)
    BY <1>0, <1>2, Leaves
  <2> QED BY <1>5, <2>1, <2>2, SameContainer, AbsentAssumption DEF Kept
<1>10. Grounds'
  BY <1>0, <1>2, <1>3, <1>4, <1>9 DEF Grounds, Observed, Kept
<1> QED BY <1>8, <1>10

(* Containers that exit, and time, leave grounds and labels.               *)
LEMMA EnvironmentGrounds ==
  ASSUME TypeOK, NoDisturbance, Labelled, Grounds, Environment
  PROVE  Labelled' /\ Grounds'
<1> PICK n \in Names :
      \/ ContainerExits(n) \/ RunConfirmed(n) \/ RunIsLong(n)
      \/ GapEnds(n) \/ CheckComesDue(n)
      \/ HandRun(n) \/ HandStart(n) \/ HandRemove(n)
  BY DEF Environment
<1>1. ~ (HandRun(n) \/ HandStart(n) \/ HandRemove(n))
  BY DEF HandRun, HandStart, HandRemove, ByHand, Spend, NoDisturbance
<1>2. CASE ContainerExits(n) \/ RunConfirmed(n) \/ RunIsLong(n)
  <2>1. /\ Running(ctr[n]) /\ ctr[n].managed /\ ctr[n] \in Container
        /\ UNCHANGED <<view, call>>
    BY <1>2 DEF ContainerExits, RunConfirmed, RunIsLong, passVars, callVars, TypeOK, Running
  <2>2. PICK c : /\ ctr' = [ctr EXCEPT ![n] = c]
                 /\ \/ \E failed \in BOOLEAN : c = Exited(ctr[n], failed)
                    \/ \E ran \in {"ok", "long"} : c = [ctr[n] EXCEPT !.ran = ran]
    BY <1>2 DEF ContainerExits, RunConfirmed, RunIsLong
  <2>3. c \in Container /\ c.managed = ctr[n].managed /\ c.hash = ctr[n].hash
    BY <2>1, <2>2 DEF Exited, Container, Ages
  <2>4. /\ ctr'[n] = c /\ c # None /\ ctr[n] # None
        /\ \A m \in Names \ {n} : ctr'[m] = ctr[m]
    BY <2>1, <2>2, <2>3, AbsentAssumption DEF TypeOK
  <2>5. Labelled'
    BY <2>3, <2>4 DEF Labelled
  <2>6. \A m \in Names : /\ Kept(m) => Kept(m)'
                         /\ Running(ctr'[m]) => Running(ctr[m])
    BY <2>1, <2>3, <2>4 DEF Kept
  <2>7. call # None => call.name \in Names
    BY DEF TypeOK, Call
  <2>8. Grounds'
    BY <2>1, <2>6, <2>7 DEF Grounds, Observed
  <2> QED BY <2>5, <2>8
<1>3. CASE GapEnds(n) \/ CheckComesDue(n)
  <2>1. UNCHANGED <<ctr, view, call>>
    BY <1>3 DEF GapEnds, CheckComesDue, engineVars, passVars, callVars
  <2> QED BY <2>1, QuietGrounds DEF Labelled
<1> QED BY <1>1, <1>2, <1>3

(* A crash, which does not come, is the only failure of another kind than  *)
(* those of calls.                                                         *)
LEMMA NoFailure ==
  ASSUME NoDisturbance
  PROVE  ~ Failure
BY DEF NoDisturbance, Failure, Crash, CrashWhileDeclaring, CrashWhileStoring, OrphanEnds, Reboot,
       BootInterrupted, Spend

(* Every step keeps grounds and labels.                                    *)
LEMMA NextGrounds ==
  TypeOK /\ Flight /\ FatalInv /\ Labelled /\ Grounds /\ [Next]_vars => Labelled' /\ Grounds'
<1> SUFFICES ASSUME TypeOK, Flight, FatalInv, Labelled, Grounds, [Next]_vars
             PROVE  Labelled' /\ Grounds'
  OBVIOUS
<1>1. NoDisturbance /\ ~ Failure
  BY NoFailure DEF FatalInv
<1>2. ASSUME UNCHANGED <<ctr, view, call>> PROVE Labelled' /\ Grounds'
  BY <1>2, QuietGrounds DEF Labelled
<1>3. CASE Pass
  <2>1. CASE EngineDo
    BY <2>1, EngineDoGrounds
  <2>2. CASE ~ EngineDo
    <3>1. ctr' = ctr
      <4>1. ASSUME NEW op, NEW n, NEW t, Settle(n, t) \/ Issue(op, n, t) \/ StartStep(n, t)
            PROVE  ctr' = ctr
        BY <4>1 DEF Settle, Issue, StartStep, engineVars
      <4>2. \A n \in Names : Reconcile(n) => ctr' = ctr
        BY <4>1, ReconcileForms
      <4>3. Return => ctr' = ctr
        BY <4>1 DEF Return, ReturnSweep, ReturnStale, ReturnFailed, Leave, ReturnRecreate, ReturnStop,
                    ReturnRestop, ReturnStart, ReturnHealth, engineVars
      <4> QED BY <1>3, <2>2, <4>2, <4>3 DEF Pass, List, BeginPass, Sweep, EndSweep, Skip,
                                            EndReconcile, RemoveNetworks, engineVars
    <3>2. Labelled'
      BY <3>1 DEF Labelled
    <3>3. CASE List \/ BeginPass \/ EndSweep \/ Skip \/ EndReconcile \/ RemoveNetworks
      <4>1. call' = call /\ (view' = view \/ call = None \/ call.op = "sweep")
        BY <3>3 DEF List, BeginPass, EndSweep, Skip, EndReconcile, RemoveNetworks, callVars,
                    FatalInv, Called
      <4> QED BY <3>1, <3>2, <4>1, QuietGrounds DEF Grounds
    <3>4. ASSUME NEW n \in Names, Sweep(n) PROVE Grounds'
      BY <3>4 DEF Sweep, NewCall, Grounds
    <3>5. ASSUME NEW n \in Names, Reconcile(n) PROVE Grounds'
      BY <3>5, ReconcileGrounds
    <3> QED BY <1>3, <2>2, <3>2, <3>3, <3>4, <3>5, ReturnGrounds DEF Pass
  <2> QED BY <2>1, <2>2
<1>4. CASE Api
  BY <1>2, <1>4, ApiQuiet DEF engineVars, passVars
<1>5. CASE StartDaemon \/ UNCHANGED vars
  BY <1>2, <1>5 DEF StartDaemon, engineVars, callVars, vars
<1>6. CASE Environment
  BY <1>1, <1>6, EnvironmentGrounds
<1> QED BY <1>1, <1>3, <1>4, <1>5, <1>6 DEF Next

-----------------------------------------------------------------------------
(* The theorem.                                                            *)

(* Only the engine carries a call out.                                     *)
LEMMA EngineCarries ==
  ASSUME TypeOK, NEW n \in Names, Carrying(n), [Next]_vars
  PROVE  EngineDo
<1> SUFFICES ASSUME ~ EngineDo PROVE FALSE
  OBVIOUS
<1>1. call' # None /\ call'.done /\ ~ call.done
  BY DEF Carrying
<1>2. call' # call
  BY <1>1
<1>3. ASSUME NEW op, NEW m, NEW t, Issue(op, m, t) PROVE FALSE
  BY <1>1, <1>3 DEF Issue, NewCall
<1>4. ASSUME NEW m, NEW t, StartStep(m, t) PROVE FALSE
  BY <1>1, <1>3, <1>4 DEF StartStep, Settle
<1>5. ASSUME NEW m, NEW t, Settle(m, t) PROVE FALSE
  BY <1>1, <1>5 DEF Settle
<1>6. ~ Pass
  <2>1. ~ \E m \in Names : Sweep(m)
    BY <1>1 DEF Sweep, NewCall
  <2>2. ~ \E m \in Names : Reconcile(m)
    BY <1>3, <1>4, <1>5, ReconcileForms
  <2>3. ~ Return
    BY <1>1, <1>4, <1>5
    DEF Return, ReturnSweep, ReturnStale, ReturnFailed, Leave, ReturnRecreate, ReturnStop, ReturnRestop,
        ReturnStart, ReturnHealth
  <2> QED BY <1>2, <2>1, <2>2, <2>3 DEF Pass, List, BeginPass, EndSweep, Skip, EndReconcile,
                                        RemoveNetworks, callVars
<1>7. ~ Api
  BY <1>2, ApiQuiet
<1>8. ~ Failure
  BY <1>1, <1>2
  DEF Failure, Crash, CrashWhileDeclaring, CrashWhileStoring, OrphanEnds, Reboot, BootInterrupted,
      MemoryLost, callVars
<1>9. ~ StartDaemon /\ ~ Environment /\ ~ UNCHANGED vars
  BY <1>2
  DEF StartDaemon, Environment, ContainerExits, RunConfirmed, RunIsLong, GapEnds, CheckComesDue,
      HandRun, HandStart, HandRemove, ByHand, callVars, vars
<1> QED BY <1>6, <1>7, <1>8, <1>9 DEF Next

(* Fields that agree are a hash that agrees.                               *)
LEMMA SameHash ==
  ASSUME TypeOK, Labelled, NEW n \in Names, ctr[n] # None, ctr[n].managed, AsDeclared(n)
  PROVE  ctr[n].hash = Hash(Sp(n))
<1>1. ctr[n].hash \in Hashes /\ Hash(Sp(n)) \in Hashes
  BY HashType, SpecType DEF Labelled, AsDeclared
<1>2. PICK h : h = ctr[n].hash
  OBVIOUS
<1>3. /\ h.project = Sp(n).project /\ h.image = Sp(n).image /\ h.net = Sp(n).net
      /\ h.devices = Sp(n).devices /\ h.retries = Sp(n).retries /\ h.grace = Sp(n).grace
  BY <1>2, SpecType DEF AsDeclared, Service
<1> QED BY <1>1, <1>2, <1>3 DEF Hash, Hashes

(* No call takes a container down that runs as declared.                   *)
LEMMA SparesRunning ==
  ASSUME TypeOK, Flight, FatalInv, Labelled, Grounds, [Next]_vars,
         NEW n \in Names, Carrying(n), ~ touched, Observed(n),
         Running(ctr[n]), ctr[n].managed, AsDeclared(n), ~ track[n].restart
  PROVE  ctr'[n] = ctr[n]
<1>1. EngineDo
  BY EngineCarries
<1>2. call # None /\ call.name = n /\ ~ call.done /\ call \in Call
  BY DEF Carrying, TypeOK
<1>3. PICK o \in Outcomes(call, Faulty) : ctr' = [ctr EXCEPT ![n] = o.ctr]
  BY <1>1, <1>2 DEF EngineDo, Carry
<1>4. call.op # "sweep"
  BY <1>2 DEF FatalInv, Called, Observed
<1>5. records[n] = call.record /\ track[n].restart = call.track.restart
  <2>1. records[n] = call.record /\ Timeless(track[n]) = Timeless(call.track)
    BY <1>2, <1>4 DEF Flight, InFlightCurrent
  <2>2. track[n] \in Tracking /\ call.track \in Tracking
    BY <1>2, TrackType DEF Call
  <2>3. \A t \in Tracking : Timeless(t).restart = t.restart
    BY DEF Timeless, Tracking
  <2> QED BY <2>1, <2>2, <2>3
<1>6. ctr[n] # None /\ ctr[n].hash = view[n].hash /\ ctr[n].hash = Hash(Sp(n))
  BY <1>2, <1>4, SameHash DEF Grounds, Kept
<1>7. call.op \notin {"stop", "restop", "recreate", "start", "run"}
  BY <1>2, <1>4, <1>5, <1>6 DEF Grounds, AsDeclared, Sp
<1>8. call.op = "health"
  BY <1>2, <1>4, <1>7 DEF Call, Ops
<1>9. o.ctr = ctr[n]
  BY <1>2, <1>8, Leaves
<1> QED BY <1>3, <1>9 DEF TypeOK

(* A running container that the pass listed, that is declared to run and   *)
(* was created from what is declared, is not stopped, removed or replaced  *)
(* by any call of the daemon unless a restart was asked for or the         *)
(* declaration changes during the call, whatever calls fail and containers *)
(* exit between, as long as the daemon does not crash and nobody runs or   *)
(* removes containers by hand.                                             *)
THEOREM RunningSpared ==
  ASSUME Crashes = 0, Hands = 0
  PROVE  Spec => NoNeedlessStop
<1>1. Init => FatalInv /\ Labelled /\ Grounds
  <2>1. Init => Labelled /\ Grounds
    BY DEF Init, Empty, Labelled, Grounds
  <2> QED BY <2>1, InitFatal
<1>2. Inv => TypeOK /\ Flight
  BY DEF Inv
<1>3. TypeOK /\ Flight /\ FatalInv /\ Labelled /\ Grounds /\ [Next]_vars =>
        [\A n \in Names :
           /\ Carrying(n) /\ ~ touched /\ Observed(n)
           /\ Running(ctr[n]) /\ ctr[n].managed /\ AsDeclared(n) /\ ~ track[n].restart
           => Running(ctr'[n]) /\ ctr'[n].run = ctr[n].run]_vars
  BY SparesRunning DEF Running
<1> QED
  BY <1>1, <1>2, <1>3, InitInv, NextInv, NextFatal, NextGrounds, PTL DEF Spec, NoNeedlessStop

-----------------------------------------------------------------------------
(* What dependencies are waited for by.                                    *)

(* n's container, if any, was created to have its health checked.          *)
Checks(n) == ctr[n] # None /\ ctr[n].managed => ctr[n].hash.retries # 0

(* The listing shows what tracking t says of n when its phase is running.  *)
Shown(n, t) ==
  ObservedRunning(n) /\ (t.health = "healthy" => t.healthRun = view[n].run)

(* A name the pass is done with, and did not leave, runs as listed if its  *)
(* phase says so; what is undeclared, or not known yet, does not run; and  *)
(* only what is checked has a health.                                      *)
Walked(n) ==
  /\ pc = "reconcile" /\ n \notin todo /\ n \notin left /\ track[n].phase = "running" =>
       Shown(n, track[n])
  /\ records[n] = None \/ ~ Up => track[n].phase # "running"
  /\ track[n].health # "" => Checks(n)

(* A call of reconcile is about the first name it still has to do, and a   *)
(* container it replaces had a health only if the new one is to have one.  *)
Asking ==
  call # None /\ call.op # "sweep" =>
    LET n == call.name IN
    /\ n \in todo /\ \A m \in todo : n <= m
    /\ call.op \in {"restop", "health"} => ObservedRunning(n)
    /\ call.op = "health" => Checks(n) /\ (~ touched => track[n].healthRun = view[n].run)
    /\ call.op = "run" /\ track[n].health # "" => call.record.spec.retries # 0

WalkInv == (\A n \in Names : Walked(n)) /\ Asking

(* The tracking of n says the same of its run, or that there is none.      *)
Eased(n) ==
  \/ /\ track'[n].phase = track[n].phase /\ track'[n].health = track[n].health
     /\ track'[n].healthRun = track[n].healthRun
  \/ track'[n].phase = "" /\ track'[n].health = ""

(* A step of another actor than the pass: the engine, the API, time.       *)
LEMMA EasedWalk ==
  ASSUME TypeOK, WalkInv, UNCHANGED <<view, todo, left, pc>>,
         call' = None <=> call = None,
         call # None => /\ call'.op = call.op /\ call'.name = call.name
                        /\ call'.record = call.record,
         call # None /\ ~ touched' =>
           ~ touched /\ track'[call.name].healthRun = track[call.name].healthRun,
         \A n \in Names : Eased(n),
         \A n \in Names : records'[n] = None => records[n] = None \/ track'[n].phase = "",
         \A n \in Names :
           Checks(n) /\ (track[n].health # "" \/ (call # None /\ call.op = "health"
                                                    /\ call.name = n))
             => Checks(n)'
  PROVE  WalkInv'
<1>1. ASSUME NEW n \in Names PROVE Walked(n)'
  <2>1. Walked(n) /\ Eased(n)
    BY DEF WalkInv
  <2>2. Shown(n, track[n]) /\ track'[n].phase = "running" => Shown(n, track[n])'
    BY <2>1 DEF Eased, Shown, ObservedRunning, Observed
  <2>3. track'[n].health # "" => Checks(n)'
    BY <2>1 DEF Eased, Walked
  <2> QED BY <2>1, <2>2, <2>3 DEF Eased, Walked, Up
<1>2. Asking'
  <2> SUFFICES ASSUME call # None, call.op # "sweep" PROVE Asking'
    BY DEF Asking
  <2>1. PICK n \in Names : n = call.name
    BY DEF TypeOK, Call
  <2>2. Asking /\ Eased(n)
    BY DEF WalkInv
  <2>3. ObservedRunning(n) => ObservedRunning(n)'
    BY DEF ObservedRunning, Observed
  <2>4. call.op = "health" => Checks(n)'
    BY <2>1, <2>2 DEF Asking
  <2> QED BY <2>1, <2>2, <2>3, <2>4 DEF Eased, Asking
<1> QED BY <1>1, <1>2 DEF WalkInv

(* The end of a reconcile, with a phase the listing bears out.             *)
LEMMA SettleWalk ==
  ASSUME TypeOK, WalkInv, NEW n \in Names, NEW t \in Tracking, Settle(n, t),
         Up, records[n] # None,
         t.phase = "running" => Shown(n, t),
         t.health # "" => Checks(n)
  PROVE  WalkInv'
<1>1. /\ UNCHANGED <<ctr, view, records, pc, left>> /\ todo' = todo \ {n} /\ call' = None
      /\ track' = [track EXCEPT ![n] = t]
  BY DEF Settle, engineVars
<1>2. \A m \in Names : track'[m] = IF m = n THEN t ELSE track[m]
  BY <1>1 DEF TypeOK
<1>3. \A m \in Names : /\ ObservedRunning(m)' <=> ObservedRunning(m)
                       /\ Checks(m)' <=> Checks(m)
  BY <1>1 DEF ObservedRunning, Observed, Checks
<1>4. ASSUME NEW m \in Names PROVE Walked(m)'
  <2>1. Walked(m)
    BY DEF WalkInv
  <2>2. CASE m = n
    BY <1>1, <1>2, <1>3, <2>2 DEF Walked, Shown, Up
  <2>3. CASE m # n
    BY <1>1, <1>2, <1>3, <2>1, <2>3 DEF Walked, Shown, Up
  <2> QED BY <2>2, <2>3
<1> QED BY <1>1, <1>4 DEF WalkInv, Asking

(* A call the pass makes for the name it is the turn of.                   *)
LEMMA IssueWalk ==
  ASSUME TypeOK, WalkInv, NEW n \in Names, NEW op \in Ops \ {"sweep"}, NEW t \in Tracking,
         Issue(op, n, t), Up, records[n] # None,
         n \in todo, \A m \in todo : n <= m,
         t.health # "" => Checks(n),
         op \in {"restop", "health"} => ObservedRunning(n),
         op = "health" => Checks(n) /\ t.healthRun = view[n].run,
         op = "run" /\ t.health # "" => Sp(n).retries # 0
  PROVE  WalkInv'
<1>1. /\ UNCHANGED <<ctr, view, records, pc, todo, left>>
      /\ call'.op = op /\ call'.name = n /\ call'.record = records[n]
      /\ track' = [track EXCEPT ![n] = t]
  BY DEF Issue, NewCall, engineVars, passVars
<1>2. \A m \in Names : track'[m] = IF m = n THEN t ELSE track[m]
  BY <1>1 DEF TypeOK
<1>3. \A m \in Names : /\ ObservedRunning(m)' <=> ObservedRunning(m)
                       /\ Checks(m)' <=> Checks(m)
  BY <1>1 DEF ObservedRunning, Observed, Checks
<1>4. ASSUME NEW m \in Names PROVE Walked(m)'
  <2>1. Walked(m)
    BY DEF WalkInv
  <2>2. CASE m = n
    BY <1>1, <1>2, <1>3, <2>2 DEF Walked, Shown, Up
  <2>3. CASE m # n
    BY <1>1, <1>2, <1>3, <2>1, <2>3 DEF Walked, Shown, Up
  <2> QED BY <2>2, <2>3
<1>5. Asking'
  BY <1>1, <1>2, <1>3 DEF Asking, Sp
<1> QED BY <1>4, <1>5 DEF WalkInv

(* start, of a name whose turn it is.                                      *)
LEMMA StartStepWalk ==
  ASSUME TypeOK, WalkInv, NEW n \in Names, NEW t \in Tracking, StartStep(n, t),
         Up, records[n] # None,
         n \in todo, \A m \in todo : n <= m,
         t.health # "" => Checks(n) /\ Sp(n).retries # 0
  PROVE  WalkInv'
<1>1. CASE Held(n) \/ Unready(n)
  <2>1. PICK u : u = [t EXCEPT !.phase = "waiting"]
    OBVIOUS
  <2>2. u \in Tracking /\ u.phase = "waiting" /\ u.health = t.health
    BY <2>1, WaitingType DEF Tracking
  <2>3. Settle(n, u)
    BY <1>1, <2>1 DEF StartStep
  <2> QED BY <2>2, <2>3, SettleWalk
<1>2. CASE ~ (Held(n) \/ Unready(n))
  <2>1. PICK op \in {"start", "run"} : Issue(op, n, t)
    BY <1>2 DEF StartStep
  <2> QED BY <2>1, IssueWalk DEF Ops
<1> QED BY <1>1, <1>2

(* The name whose turn it is comes before the others still to be done.     *)
LEMMA TurnIsFirst ==
  ASSUME TypeOK, NEW n \in Names, Turn(n)
  PROVE  /\ n \in todo /\ \A m \in todo : n <= m
         /\ Up /\ pc = "reconcile" /\ call = None /\ records[n] # None
<1>1. todo \in SUBSET Nat /\ todo # {}
  BY NamesAssumption DEF TypeOK, Turn
<1>2. PICK x \in todo : \A y \in todo : x <= y
  BY <1>1, Least
<1> QED BY <1>2 DEF Turn, First, Up

(* What a tracking says once the container is down, stopped or judged.     *)
LEMMA DownHealth ==
  ASSUME TypeOK, NEW n \in Names
  PROVE  /\ Down(n).health = "" /\ Down(n).phase = track[n].phase
         /\ Stopped(n).health = "" /\ Stopped(n).phase = "stopped"
         /\ ZeroTracking.health = "" /\ ZeroTracking.phase = ""
         /\ Forced.health = "" /\ Forced.phase = ""
BY TrackType DEF Down, Stopped, ZeroTracking, Forced, Tracking

(* Neither does an exit leave a health, or a running phase.                *)
LEMMA JudgedHealth ==
  ASSUME TypeOK, NEW n \in Names, view[n] # None
  PROVE  Judged(n).health = "" /\ Judged(n).phase \in {"exited", "fatal", "backoff"}
<1>1. PICK t : t = [Down(n) EXCEPT !.handledExit = ExitStamp(view[n]),
                      !.startAttempts = IF view[n].ran = "long" THEN 0 ELSE @,
                      !.restarts      = IF view[n].ran = "long" THEN 0 ELSE @]
  OBVIOUS
<1>2. t \in Tracking /\ t.health = ""
  <2>1. Down(n) \in Tracking /\ Down(n).health = "" /\ ExitStamp(view[n]) \in Nat
    BY DownType, DownHealth, StampType
  <2>2. t = Noted(Down(n), ExitStamp(view[n]), view[n])
    BY <1>1, Zenon DEF Noted
  <2> QED BY <2>1, <2>2, NotedFields
<1>3. \/ Judged(n) = [t EXCEPT !.phase = "exited"]
      \/ \E u : /\ u = [t EXCEPT !.startAttempts = @ + 1] \/ u = [t EXCEPT !.restarts = @ + 1]
                /\ \/ Judged(n) = [u EXCEPT !.phase = "fatal"]
                   \/ Judged(n) = [u EXCEPT !.phase = "backoff", !.due = FALSE]
  BY <1>1 DEF Judged
<1>4. ASSUME NEW u, u = [t EXCEPT !.startAttempts = @ + 1] \/ u = [t EXCEPT !.restarts = @ + 1]
      PROVE  u \in Tracking /\ u.health = ""
  <2>1. u \in Tracking
    BY <1>2, <1>4, GivenUpType
  <2>2. \A v : [t EXCEPT !.startAttempts = v].health = "" /\ [t EXCEPT !.restarts = v].health = ""
    BY <1>2 DEF Tracking
  <2> QED BY <1>4, <2>1, <2>2
<1>5. ASSUME NEW u \in Tracking, u.health = ""
      PROVE  /\ [u EXCEPT !.phase = "fatal"].health = ""
             /\ [u EXCEPT !.phase = "fatal"].phase = "fatal"
             /\ [u EXCEPT !.phase = "backoff", !.due = FALSE].health = ""
             /\ [u EXCEPT !.phase = "backoff", !.due = FALSE].phase = "backoff"
             /\ [u EXCEPT !.phase = "exited"].health = ""
             /\ [u EXCEPT !.phase = "exited"].phase = "exited"
  BY <1>5 DEF Tracking
<1>6. CASE Judged(n) = [t EXCEPT !.phase = "exited"]
  BY <1>2, <1>5, <1>6
<1>7. CASE Judged(n) # [t EXCEPT !.phase = "exited"]
  <2>1. PICK u : /\ u = [t EXCEPT !.startAttempts = @ + 1] \/ u = [t EXCEPT !.restarts = @ + 1]
                 /\ \/ Judged(n) = [u EXCEPT !.phase = "fatal"]
                    \/ Judged(n) = [u EXCEPT !.phase = "backoff", !.due = FALSE]
    BY <1>3, <1>7
  <2>2. u \in Tracking /\ u.health = ""
    BY <1>4, <2>1
  <2>3. CASE Judged(n) = [u EXCEPT !.phase = "fatal"]
    BY <1>5, <2>2, <2>3
  <2>4. CASE Judged(n) = [u EXCEPT !.phase = "backoff", !.due = FALSE]
    BY <1>5, <2>2, <2>4
  <2> QED BY <2>1, <2>3, <2>4
<1> QED BY <1>6, <1>7

(* Every branch of reconcile.                                              *)
LEMMA ReconcileWalk ==
  ASSUME TypeOK, FatalInv, WalkInv, NEW n \in Names, Reconcile(n)
  PROVE  WalkInv'
<1>1. Turn(n)
  BY DEF Reconcile, Recreate, ReconcileStopped, ReconcileRestart, ReconcileRunning,
         ReconcileFreshStart, ReconcileDecided, ReconcileExit, NotRunning, ToRun
<1>2. /\ n \in todo /\ (\A m \in todo : n <= m) /\ Up /\ records[n] # None
      /\ track[n] \in Tracking /\ Down(n) \in Tracking /\ ZeroTracking \in Tracking
  BY <1>1, TurnIsFirst, TrackType, DownType, ForcedType
<1>3. track[n].health # "" => Checks(n)
  BY DEF WalkInv, Walked
<1>4. CASE Recreate(n)
  BY <1>2, <1>3, <1>4, IssueWalk DEF Recreate, Ops
<1>5. CASE ReconcileStopped(n)
  <2>1. CASE Observed(n) /\ Running(view[n])
    BY <1>2, <1>3, <1>5, <2>1, IssueWalk DEF ReconcileStopped, Ops
  <2>2. CASE ~ (Observed(n) /\ Running(view[n]))
    BY <1>2, <1>5, <2>2, StoppedType, DownHealth, SettleWalk DEF ReconcileStopped
  <2> QED BY <2>1, <2>2
<1>6. CASE ReconcileRestart(n)
  BY <1>2, <1>3, <1>6, IssueWalk DEF ReconcileRestart, Ops
<1>7. CASE ReconcileRunning(n)
  <2>1. ObservedRunning(n) /\ view[n] # None /\ ~ Stale(n)
    BY <1>7 DEF ReconcileRunning, ToRun, ObservedRunning, Observed
  <2>2. ctr[n] # None /\ ctr[n].managed /\ ctr[n].hash.retries = Sp(n).retries
    <3>1. Linked(n)
      BY <1>1, <2>1, TurnIsListed DEF Loose
    <3>2. /\ ctr[n] # None /\ ctr[n].managed = view[n].managed /\ ctr[n].hash = view[n].hash
          /\ view[n].managed /\ view[n].hash = Hash(Sp(n))
      BY <2>1, <3>1 DEF Linked, ObservedRunning, Observed, Stale
    <3> QED BY <3>2 DEF Hash
  <2> DEFINE Goes(c, up, fresh) ==
          /\ up = [track[n] EXCEPT !.force = FALSE,
                                   !.phase = IF c THEN "running" ELSE "starting"]
          /\ fresh = IF up.healthRun = view[n].run THEN up
                     ELSE [up EXCEPT !.healthRun = view[n].run, !.health = "starting",
                                     !.failures = 0, !.check = "first"]
          /\ \/ Sp(n).retries = 0 /\ Settle(n, up)
             \/ Sp(n).retries # 0 /\ (Issue("health", n, fresh) \/ Settle(n, fresh))
  <2>3. \E c \in BOOLEAN : \E up, fresh : Goes(c, up, fresh)
    <3>1. Confirmations(n) \subseteq BOOLEAN
      BY DEF Confirmations
    <3> QED BY <1>7, <3>1 DEF ReconcileRunning
  <2>4. PICK c, up, fresh : c \in BOOLEAN /\ Goes(c, up, fresh)
    <3> HIDE DEF Goes
    <3> QED BY <2>3
  <2>5. /\ up \in Tracking /\ up.health = track[n].health
        /\ fresh \in Tracking /\ fresh.healthRun = view[n].run
    <3>1. up \in Tracking /\ up.health = track[n].health
      BY <1>2, <2>4, ConfirmFields
    <3>2. view[n].run \in Nat
      BY <2>1 DEF TypeOK, Container
    <3>3. CASE up.healthRun = view[n].run
      BY <2>4, <3>1, <3>3
    <3>4. CASE up.healthRun # view[n].run
      <4>1. fresh = [up EXCEPT !.healthRun = view[n].run, !.health = "starting",
                               !.failures = 0, !.check = "first"]
        BY <2>4, <3>4
      <4> QED BY <3>1, <3>2, <4>1 DEF Tracking
    <3> QED BY <3>1, <3>3, <3>4
  <2>6. CASE Sp(n).retries = 0 /\ Settle(n, up)
    <3>1. up.health = ""
      BY <1>3, <2>2, <2>5, <2>6 DEF Checks
    <3> QED BY <1>2, <2>1, <2>5, <2>6, <3>1, SettleWalk DEF Shown
  <2>7. CASE Sp(n).retries # 0 /\ Issue("health", n, fresh)
    BY <1>2, <2>1, <2>2, <2>5, <2>7, IssueWalk DEF Checks, Ops
  <2>8. CASE Sp(n).retries # 0 /\ Settle(n, fresh)
    BY <1>2, <2>1, <2>2, <2>5, <2>8, SettleWalk DEF Checks, Shown
  <2> QED BY <2>4, <2>6, <2>7, <2>8
<1>8. ASSUME NEW t \in {ZeroTracking, Down(n)}, StartStep(n, t) PROVE WalkInv'
  BY <1>2, <1>8, DownHealth, StartStepWalk
<1>9. ASSUME Settle(n, Down(n)), track[n].phase # "running" PROVE WalkInv'
  BY <1>2, <1>9, DownHealth, SettleWalk
<1>10. CASE ReconcileFreshStart(n)
  BY <1>8, <1>9, <1>10 DEF ReconcileFreshStart, HeldFatal, HeldBackoff
<1>11. CASE ReconcileDecided(n)
  BY <1>8, <1>9, <1>11 DEF ReconcileDecided
<1>12. CASE ReconcileExit(n)
  <2>1. Observed(n)
    BY <1>12 DEF ReconcileExit, FreshStart
  <2> QED BY <1>2, <1>12, <2>1, JudgedType, JudgedHealth, SettleWalk
          DEF ReconcileExit, Observed
<1> QED BY <1>4, <1>5, <1>6, <1>7, <1>10, <1>11, <1>12 DEF Reconcile

(* A call that returns leaves its name to the next pass, or settles it as  *)
(* the listing bears out, or goes on with the same reconcile.              *)
LEMMA ReturnWalk ==
  ASSUME TypeOK, Flight, FatalInv, Grounds, WalkInv, Return
  PROVE  WalkInv'
<1>0. PICK n : n = call.name
  OBVIOUS
<1>1. call # None
  BY DEF Return, ReturnSweep, ReturnStale, ReturnFailed, ReturnRecreate, ReturnStop, ReturnRestop,
         ReturnStart, ReturnHealth, Fresh, Returned
<1>2. CASE ReturnSweep
  <2>1. UNCHANGED <<ctr, view, records, track, pc, todo, left>> /\ call' = None
    BY <1>2 DEF ReturnSweep, engineVars, memVars, passVars, histVars
  <2>2. \A m \in Names : Walked(m)'
    BY <2>1 DEF WalkInv, Walked, Shown, ObservedRunning, Observed, Checks, Up
  <2> QED BY <2>1, <2>2 DEF WalkInv, Asking
<1> SUFFICES ASSUME ~ ReturnSweep PROVE WalkInv'
  BY <1>2
<1>3. call.op # "sweep"
  BY DEF Return, ReturnSweep, ReturnStale, ReturnFailed, ReturnRecreate, ReturnStop, ReturnRestop,
         ReturnStart, ReturnHealth, Fresh, Returned, Ops
<1>4. /\ n \in Names /\ pc = "reconcile" /\ Up /\ (~ touched => records[n] # None)
      /\ track[n] \in Tracking /\ Walked(n)
  BY <1>0, <1>1, <1>3, ReturnedFacts, TrackType DEF WalkInv, Up
<1>5. /\ n \in todo /\ \A m \in todo : n <= m
      /\ call.op \in {"restop", "health"} => ObservedRunning(n)
      /\ call.op = "health" => Checks(n) /\ (~ touched => track[n].healthRun = view[n].run)
  BY <1>0, <1>1, <1>3 DEF WalkInv, Asking
<1>6. CASE ReturnStale \/ ReturnFailed
  <2>1. /\ UNCHANGED <<ctr, view, records, track, pc>> /\ call' = None
        /\ todo' = todo \ {n} /\ left' = left \cup {n}
    BY <1>0, <1>6 DEF ReturnStale, ReturnFailed, Leave, engineVars, memVars
  <2>2. \A m \in Names : Walked(m)'
    BY <2>1 DEF WalkInv, Walked, Shown, ObservedRunning, Observed, Checks, Up
  <2> QED BY <2>1, <2>2 DEF WalkInv, Asking
<1>7. CASE ReturnRecreate
  <2>1. /\ UNCHANGED <<ctr, records, pc, todo, left>> /\ call' = None
        /\ view' = [view EXCEPT ![n] = None]
        /\ track' = track \/ track' = [track EXCEPT ![n] = Forced]
        /\ records[n] # None
    BY <1>0, <1>4, <1>7 DEF ReturnRecreate, Fresh, engineVars
  <2>2. ASSUME NEW m \in Names, m # n PROVE Walked(m)'
    <3>1. view'[m] = view[m] /\ track'[m] = track[m]
      BY <2>1, <2>2 DEF TypeOK
    <3> QED BY <2>1, <3>1 DEF WalkInv, Walked, Shown, ObservedRunning, Observed, Checks, Up
  <2>3. Walked(n)'
    <3>1. track'[n] = track[n] \/ track'[n].health = ""
      BY <1>4, <2>1, DownHealth DEF TypeOK
    <3> QED BY <1>4, <1>5, <2>1, <3>1 DEF Walked, Checks, Up
  <2> QED BY <2>1, <2>2, <2>3 DEF WalkInv, Asking
<1>8. CASE ReturnStop
  BY <1>0, <1>4, <1>8, StoppedType, DownHealth, SettleWalk DEF ReturnStop, Fresh
<1>9. CASE ReturnRestop
  <2>1. PICK t : t = [track[n] EXCEPT !.restart = FALSE]
    OBVIOUS
  <2>2. t \in Tracking /\ t.health = track[n].health
    BY <1>4, <2>1 DEF Tracking
  <2>3. call.op = "restop" /\ ~ touched /\ StartStep(n, t)
    BY <1>0, <1>9, <2>1 DEF ReturnRestop, Fresh, Returned
  <2>4. ctr[n] # None /\ ctr[n].managed
    BY <1>0, <1>1, <1>5, <2>3 DEF Grounds, Kept, ObservedRunning
  <2>5. ctr[n].hash.retries = Sp(n).retries
    BY <1>0, <1>1, <2>3, <2>4 DEF FatalInv, Called, Hash
  <2>6. t.health # "" => Checks(n) /\ Sp(n).retries # 0
    BY <1>4, <2>2, <2>4, <2>5 DEF Walked, Checks
  <2> QED BY <1>4, <1>5, <2>2, <2>3, <2>6, StartStepWalk
<1>10. CASE ReturnStart
  <2>1. ~ touched
    BY <1>10 DEF ReturnStart, Fresh
  <2>2. PICK t : /\ Settle(n, t)
                 /\ t = [track[n] EXCEPT !.force = FALSE, !.phase = "starting"]
                      \/ t = StartFailed(track[n])
    BY <1>0, <1>10 DEF ReturnStart
  <2>3. t \in Tracking /\ t.phase # "running" /\ t.health = track[n].health
    <3>1. CASE t = [track[n] EXCEPT !.force = FALSE, !.phase = "starting"]
      BY <1>4, <3>1, WaitingType DEF Tracking
    <3>2. CASE t = StartFailed(track[n])
      <4>1. PICK u : u = [track[n] EXCEPT !.force = FALSE, !.startAttempts = @ + 1]
        OBVIOUS
      <4>2. u \in Tracking /\ u.health = track[n].health
        <5>1. \A a : [track[n] EXCEPT !.force = FALSE, !.startAttempts = a].health
                       = track[n].health
          BY <1>4 DEF Tracking
        <5> QED BY <1>4, <4>1, <5>1, GivenUpType
      <4>3. \/ t = [u EXCEPT !.phase = "fatal"]
            \/ t = [u EXCEPT !.phase = "backoff", !.due = FALSE]
        BY <3>2, <4>1 DEF StartFailed
      <4> QED BY <4>2, <4>3 DEF Tracking, Phases
    <3> QED BY <2>2, <3>1, <3>2
  <2> QED BY <1>4, <2>1, <2>2, <2>3, SettleWalk DEF Walked
<1>11. CASE ReturnHealth
  <2>1. call.op = "health" /\ ~ touched
    BY <1>11 DEF ReturnHealth, Fresh, Returned
  <2>2. PICK t \in CappedChecked(n) : Settle(n, t)
    BY <1>0, <1>11 DEF ReturnHealth
  <2>3. t \in Tracking /\ t.healthRun = track[n].healthRun
    BY <1>4, <2>1, CheckedType, CheckedPhase
  <2> QED BY <1>4, <1>5, <2>1, <2>2, <2>3, SettleWalk DEF Shown
<1> QED BY <1>6, <1>7, <1>8, <1>9, <1>10, <1>11 DEF Return

(* The engine replaces a container by one that is checked too, unless its  *)
(* tracking tells of no health.                                            *)
LEMMA EngineDoWalk ==
  ASSUME TypeOK, Flight, WalkInv, EngineDo
  PROVE  WalkInv'
<1>0. PICK n : n = call.name
  OBVIOUS
<1>1. PICK o \in Outcomes(call, Faulty) :
        /\ ctr' = [ctr EXCEPT ![n] = o.ctr]
        /\ call' = [call EXCEPT !.done = TRUE, !.ok = o.ok]
  BY <1>0 DEF EngineDo, Carry
<1>2. /\ call # None /\ call \in Call /\ n \in Names
      /\ UNCHANGED <<records, track, pc, view, todo, left, touched>>
  BY <1>0 DEF EngineDo, TypeOK, Call, memVars, passVars
<1>3. /\ call' # None /\ call'.op = call.op /\ call'.name = n /\ call'.record = call.record
  <2>1. call' \in Call
    BY <1>1, <1>2, OutcomesType DEF Call, Flight, CallsOfRecords
  <2> QED BY <1>0, <1>1, <1>2, <2>1, AbsentAssumption DEF Call
<1>4. ctr'[n] = o.ctr /\ \A m \in Names \ {n} : ctr'[m] = ctr[m]
  BY <1>1, <1>2 DEF TypeOK
<1>5. (ctr[n] # None => ctr[n] \in Container) /\ FreshRun(n) \in Nat
  BY <1>2, FreshRunType DEF TypeOK
<1>6. ASSUME Checks(n), track[n].health # "" \/ call.op = "health"
      PROVE  Checks(n)'
  <2>1. CASE call.op \in {"sweep", "recreate", "stop", "restop", "health"}
    <3>1. \/ o.ctr = None \/ o.ctr = ctr[n]
          \/ Running(ctr[n]) /\ \E b \in BOOLEAN : o.ctr = Exited(ctr[n], b)
      BY <1>0, <1>2, <2>1, Leaves
    <3>2. o.ctr # None => /\ ctr[n] # None /\ o.ctr.managed = ctr[n].managed
                          /\ o.ctr.hash = ctr[n].hash
      BY <1>5, <3>1, SameContainer DEF Running
    <3> QED BY <1>4, <1>6, <3>2 DEF Checks
  <2>2. CASE call.op = "start"
    <3>1. o.ctr = ctr[n] \/ (ctr[n] # None /\ o.ctr = Started(ctr[n], FreshRun(n)))
      BY <1>0, <1>2, <2>2, Leaves
    <3>2. o.ctr # None => /\ ctr[n] # None /\ o.ctr.managed = ctr[n].managed
                          /\ o.ctr.hash = ctr[n].hash
      BY <1>5, <3>1, SameContainer
    <3> QED BY <1>4, <1>6, <3>2 DEF Checks
  <2>3. CASE call.op = "run"
    <3>1. \/ o.ctr = None \/ o.ctr = ctr[n]
          \/ \E state, r : o.ctr = NewContainer(call.record.spec, state, r)
      BY <1>0, <1>2, <2>3, Leaves
    <3>2. call.record.spec.retries # 0
      BY <1>0, <1>2, <1>6, <2>3 DEF WalkInv, Asking
    <3>3. \A state, r : NewContainer(call.record.spec, state, r).hash.retries # 0
      BY <3>2 DEF NewContainer, Hash
    <3> QED BY <1>4, <1>6, <3>1, <3>3 DEF Checks
  <2> QED BY <1>2, <2>1, <2>2, <2>3 DEF Call, Ops
<1>7. \A m \in Names \ {n} : Checks(m) => Checks(m)'
  BY <1>4 DEF Checks
<1>8. \A m \in Names : Eased(m)
  BY <1>2 DEF Eased
<1> QED BY <1>0, <1>2, <1>3, <1>6, <1>7, <1>8, EasedWalk

(* Every step of the pass.                                                 *)
LEMMA PassWalk ==
  ASSUME TypeOK, Flight, FatalInv, Grounds, WalkInv, Pass
  PROVE  WalkInv'
<1>1. CASE List \/ BeginPass \/ EndReconcile \/ RemoveNetworks
  <2>1. /\ UNCHANGED <<ctr, records, track>> /\ call' = None
        /\ pc' # "reconcile" /\ Up /\ Up'
    <3>1. pc \notin {"sweep", "reconcile"} => call = None
      BY DEF FatalInv, Called
    <3> QED BY <1>1, <3>1 DEF List, BeginPass, EndReconcile, RemoveNetworks, engineVars, memVars,
                              callVars, Up
  <2>2. \A n \in Names : Walked(n)'
    BY <2>1 DEF WalkInv, Walked, Checks
  <2> QED BY <2>1, <2>2 DEF WalkInv, Asking
<1>2. ASSUME NEW n \in Names, Sweep(n) PROVE WalkInv'
  <2>1. UNCHANGED <<ctr, records, track, pc>> /\ pc = "sweep" /\ call'.op = "sweep"
    BY <1>2 DEF Sweep, NewCall, engineVars, memVars
  <2>2. \A m \in Names : Walked(m)'
    BY <2>1 DEF WalkInv, Walked, Checks, Up
  <2> QED BY <2>1, <2>2 DEF WalkInv, Asking
<1>3. CASE EndSweep
  <2>1. /\ UNCHANGED <<ctr, records, track, view>> /\ call' = None
        /\ todo' = Declared(records) /\ Up /\ Up'
    BY <1>3 DEF EndSweep, engineVars, memVars, callVars, Up
  <2>2. \A n \in Names : Walked(n)'
    BY <2>1 DEF WalkInv, Walked, Checks, Declared
  <2> QED BY <2>1, <2>2 DEF WalkInv, Asking
<1>4. CASE Skip
  <2>1. PICK n : n = First(todo)
    OBVIOUS
  <2>2. /\ UNCHANGED <<ctr, records, track, view, pc, left>> /\ call' = None
        /\ todo' = todo \ {n} /\ records[n] = None
    BY <1>4, <2>1 DEF Skip, engineVars, memVars, callVars, histVars
  <2>3. \A m \in Names : Walked(m)'
    BY <2>2 DEF WalkInv, Walked, Shown, ObservedRunning, Observed, Checks, Up
  <2> QED BY <2>2, <2>3 DEF WalkInv, Asking
<1> QED BY <1>1, <1>2, <1>3, <1>4, ReconcileWalk, ReturnWalk, EngineDoWalk DEF Pass

(* Store calls of a declaration: what is dropped has no tracking left.     *)
LEMMA CommitWalk ==
  ASSUME TypeOK, WalkInv, NEW F \in SUBSET Files, NEW D, Grounded(F, D), Commit(F, D)
  PROVE  WalkInv'
<1>1. /\ UNCHANGED <<ctr, view, pc, todo, left, call>> /\ Touch(TouchedBy(D))
      /\ records' = RecordsAfter(records, F, D) /\ track' = TrackAfter(D)
  BY DEF Commit, engineVars, passVars
<1>2. ASSUME NEW m \in Names
      PROVE  /\ Eased(m) /\ (Checks(m) => Checks(m)')
             /\ records'[m] = None => records[m] = None \/ track'[m].phase = ""
  <2>1. \/ track'[m] = ZeroTracking
        \/ track'[m] = Forced
        \/ track'[m] = track[m]
    BY <1>1, Zenon DEF TrackAfter
  <2>2. Eased(m)
    BY <2>1, DownHealth DEF Eased
  <2>3. records'[m] = None /\ records[m] # None => track'[m].phase = ""
    <3> SUFFICES ASSUME records'[m] = None, records[m] # None PROVE track'[m].phase = ""
      OBVIOUS
    <3>1. ~ Does(D, "put", m)
      BY <1>1, PutDeclares
    <3>2. Does(D, "drop", m)
      BY <1>1, <3>1 DEF RecordsAfter
    <3>3. track'[m] = ZeroTracking
      BY <1>1, <3>1, <3>2, Zenon DEF TrackAfter
    <3> QED BY <3>3, DownHealth
  <2> QED BY <1>1, <2>2, <2>3 DEF Checks
<1>3. ASSUME call # None, ~ touched'
      PROVE  ~ touched /\ track'[call.name].healthRun = track[call.name].healthRun
  <2>1. ~ touched /\ call.name \notin TouchedBy(D) /\ call.name \in Names
    BY <1>1, <1>3 DEF Touch, TypeOK, Call
  <2> QED BY <1>1, <2>1 DEF TouchedBy, TrackAfter
<1> QED BY <1>1, <1>2, <1>3, EasedWalk

(* Asking for a run state forgets the run, or leaves the tracking.         *)
LEMMA DesiredWalk ==
  ASSUME TypeOK, WalkInv, NEW n \in Names, NEW desired \in {"running", "stopped"}, NEW more,
         SetDesired(n, desired, more)
  PROVE  WalkInv'
<1>1. /\ UNCHANGED <<ctr, view, pc, todo, left, call>> /\ Touch({n})
      /\ records[n] # None /\ records' = [records EXCEPT ![n] = [@ EXCEPT !.desired = desired]]
      /\ track' = [track EXCEPT ![n] = Forced] \/ track' = track
  BY DEF SetDesired, engineVars, passVars
<1>2. records'[n] # None
  <2>1. records[n] \in Record /\ records'[n] = [records[n] EXCEPT !.desired = desired]
    BY <1>1 DEF TypeOK
  <2>2. records'[n] \in Record
    BY <2>1 DEF Record
  <2> QED BY <2>2, NoneAssumption
<1>3. \A m \in Names : track'[m] = track[m] \/ (m = n /\ track'[m] = Forced)
  BY <1>1 DEF TypeOK
<1>4. \A m \in Names : Eased(m) /\ (Checks(m) => Checks(m)')
  BY <1>1, <1>3, DownHealth DEF Eased, Checks
<1>5. \A m \in Names : records'[m] = None => records[m] = None
  BY <1>1, <1>2 DEF TypeOK
<1>6. ASSUME call # None, ~ touched'
      PROVE  ~ touched /\ track'[call.name].healthRun = track[call.name].healthRun
  <2>1. ~ touched /\ call.name # n /\ call.name \in Names
    BY <1>1, <1>6 DEF Touch, TypeOK, Call
  <2> QED BY <1>3, <2>1
<1> QED BY <1>1, <1>4, <1>5, <1>6, EasedWalk

(* A step that leaves what is known of names alone, but that containers    *)
(* may exit, and times pass.                                               *)
LEMMA QuietWalk ==
  ASSUME TypeOK, WalkInv, UNCHANGED <<view, pc, todo, left, call, records>>,
         call # None /\ ~ touched' => ~ touched,
         \A n \in Names : /\ track'[n].phase = track[n].phase /\ track'[n].health = track[n].health
                          /\ track'[n].healthRun = track[n].healthRun,
         \A n \in Names : Checks(n) => Checks(n)'
  PROVE  WalkInv'
<1>1. \A n \in Names : Eased(n)
  BY DEF Eased
<1>2. call # None => call.name \in Names
  BY DEF TypeOK, Call
<1> QED BY <1>1, <1>2, EasedWalk

(* Setting restart, or a time that has come, says nothing of a run.        *)
LEMMA OtherHealth ==
  ASSUME NEW n \in Names, track \in [Names -> Tracking],
         \/ track' = [track EXCEPT ![n].restart = TRUE]
         \/ track' = [track EXCEPT ![n].due = TRUE]
         \/ track' = [track EXCEPT ![n].check = "due"]
  PROVE  \A m \in Names : /\ track'[m].phase = track[m].phase /\ track'[m].health = track[m].health
                          /\ track'[m].healthRun = track[m].healthRun
<1> TAKE m \in Names
<1>1. CASE m # n
  BY <1>1
<1>2. CASE m = n
  <2>1. track'[n] \in {[track[n] EXCEPT !.restart = TRUE], [track[n] EXCEPT !.due = TRUE],
                       [track[n] EXCEPT !.check = "due"]}
    OBVIOUS
  <2>2. track[n] \in Tracking
    OBVIOUS
  <2>3. \A u \in {[track[n] EXCEPT !.restart = TRUE], [track[n] EXCEPT !.due = TRUE],
                  [track[n] EXCEPT !.check = "due"]} :
          /\ u.phase = track[n].phase /\ u.health = track[n].health
          /\ u.healthRun = track[n].healthRun
    BY <2>2, MarkFields, Zenon
  <2> QED BY <1>2, <2>1, <2>3, Zenon
<1> QED BY <1>1, <1>2

(* Every API call.                                                         *)
LEMMA ApiWalk ==
  ASSUME TypeOK, WalkInv, Api
  PROVE  WalkInv'
<1>1. ASSUME UNCHANGED <<ctr, view, pc, todo, left, call, records, touched>>,
             \A n \in Names : /\ track'[n].phase = track[n].phase
                              /\ track'[n].health = track[n].health
                              /\ track'[n].healthRun = track[n].healthRun
      PROVE  WalkInv'
  BY <1>1, QuietWalk DEF Checks
<1>2. ASSUME NEW n \in Names, Start(n) \/ Stop(n) \/ Restart(n) PROVE WalkInv'
  BY <1>2, DesiredWalk DEF Start, Stop, Restart
<1>3. ASSUME NEW req, NEW S, Request(req, S) PROVE WalkInv'
  BY <1>1, <1>3 DEF Request, engineVars, memVars, passVars, callVars, histVars
<1>4. ASSUME NEW n \in Names, FinishRestart(n) PROVE WalkInv'
  <2>1. /\ UNCHANGED <<ctr, view, pc, todo, left, call, records>> /\ (touched => touched')
        /\ track' = [track EXCEPT ![n].restart = TRUE]
    BY <1>4 DEF FinishRestart, Touch, engineVars, passVars, histVars
  <2>2. \A m \in Names : Checks(m) => Checks(m)'
    BY <2>1 DEF Checks
  <2>3. \A m \in Names : /\ track'[m].phase = track[m].phase /\ track'[m].health = track[m].health
                         /\ track'[m].healthRun = track[m].healthRun
    BY <2>1, OtherHealth DEF TypeOK
  <2> QED BY <2>1, <2>2, <2>3, QuietWalk
<1>5. ASSUME NEW F \in SUBSET Files, NEW steps, Carried(F, steps),
             \A D \in SUBSET steps : Grounded(F, D)
      PROVE  WalkInv'
  <2>1. PICK D \in SUBSET steps : Commit(F, D)
    BY <1>5, CarriedSteps DEF Done
  <2> QED BY <1>5, <2>1, CommitWalk
<1>6. ASSUME NEW f \in Files, FinishPut(f) PROVE WalkInv'
  <2>1. CASE Conflict(f)
    BY <1>1, <1>6, <2>1 DEF FinishPut, engineVars, memVars, passVars, callVars, histVars
  <2>2. CASE ~ Conflict(f)
    BY <1>5, <1>6, <2>2, StepsGrounded DEF FinishPut
  <2> QED BY <2>1, <2>2
<1>7. ASSUME NEW F \in SUBSET Files, FinishSet(F) PROVE WalkInv'
  BY <1>5, <1>7, StepsGrounded DEF FinishSet
<1>8. ASSUME NEW p \in Projects, DeleteProject(p) PROVE WalkInv'
  <2>1. PICK D \in SUBSET DeleteSteps(p) : Commit({}, D)
    BY <1>8, CarriedSteps DEF DeleteProject, Done
  <2> QED BY <2>1, StepsGrounded, CommitWalk
<1>9. CASE FinishRequest
  BY <1>4, <1>6, <1>7, <1>9 DEF FinishRequest
<1>10. ASSUME NEW n \in Names, NEW desired, SetDesiredFails(n, desired) PROVE WalkInv'
  BY <1>1, <1>10 DEF SetDesiredFails, engineVars, memVars, passVars, callVars
<1> QED BY <1>2, <1>3, <1>8, <1>9, <1>10 DEF Api, PutProject, PutProjects

(* Containers that exit, and time.                                         *)
LEMMA EnvironmentWalk ==
  ASSUME TypeOK, NoDisturbance, WalkInv, Environment
  PROVE  WalkInv'
<1> PICK n \in Names :
      \/ ContainerExits(n) \/ RunConfirmed(n) \/ RunIsLong(n)
      \/ GapEnds(n) \/ CheckComesDue(n)
      \/ HandRun(n) \/ HandStart(n) \/ HandRemove(n)
  BY DEF Environment
<1>1. ~ (HandRun(n) \/ HandStart(n) \/ HandRemove(n))
  BY DEF HandRun, HandStart, HandRemove, ByHand, Spend, NoDisturbance
<1>2. CASE ContainerExits(n) \/ RunConfirmed(n) \/ RunIsLong(n)
  <2>1. /\ Running(ctr[n]) /\ ctr[n] \in Container
        /\ UNCHANGED <<view, pc, todo, left, call, records, touched, track>>
    BY <1>2 DEF ContainerExits, RunConfirmed, RunIsLong, memVars, passVars, callVars, histVars,
                TypeOK, Running
  <2>2. PICK c : /\ ctr' = [ctr EXCEPT ![n] = c]
                 /\ \/ \E failed \in BOOLEAN : c = Exited(ctr[n], failed)
                    \/ \E ran \in {"ok", "long"} : c = [ctr[n] EXCEPT !.ran = ran]
    BY <1>2 DEF ContainerExits, RunConfirmed, RunIsLong
  <2>3. c.managed = ctr[n].managed /\ c.hash = ctr[n].hash
    BY <2>1, <2>2 DEF Exited, Container, Ages
  <2>4. \A m \in Names : Checks(m) => Checks(m)'
    BY <2>1, <2>2, <2>3, AbsentAssumption DEF Checks, TypeOK
  <2> QED BY <2>1, <2>4, QuietWalk
<1>3. CASE GapEnds(n) \/ CheckComesDue(n)
  <2>1. /\ UNCHANGED <<ctr, view, pc, todo, left, call, records, touched>>
        /\ \/ track' = [track EXCEPT ![n].due = TRUE]
           \/ track' = [track EXCEPT ![n].check = "due"]
    BY <1>3 DEF GapEnds, CheckComesDue, engineVars, passVars, callVars, histVars
  <2>2. \A m \in Names : Checks(m) => Checks(m)'
    BY <2>1 DEF Checks
  <2>3. \A m \in Names : /\ track'[m].phase = track[m].phase /\ track'[m].health = track[m].health
                         /\ track'[m].healthRun = track[m].healthRun
    BY <2>1, OtherHealth DEF TypeOK
  <2> QED BY <2>1, <2>2, <2>3, QuietWalk
<1> QED BY <1>1, <1>2, <1>3

(* Every step keeps the invariant.                                         *)
LEMMA NextWalk ==
  TypeOK /\ Flight /\ FatalInv /\ Grounds /\ WalkInv /\ [Next]_vars => WalkInv'
<1> SUFFICES ASSUME TypeOK, Flight, FatalInv, Grounds, WalkInv, [Next]_vars PROVE WalkInv'
  OBVIOUS
<1>1. NoDisturbance /\ ~ Failure
  BY NoFailure DEF FatalInv
<1>2. CASE StartDaemon
  <2>1. /\ UNCHANGED <<ctr, track>> /\ ~ Up /\ pc' = "idle" /\ call' = call
    BY <1>2 DEF StartDaemon, engineVars, callVars, Up
  <2>2. call = None
    BY <2>1 DEF FatalInv, Called, Up
  <2>3. \A n \in Names : Walked(n)'
    BY <2>1 DEF WalkInv, Walked, Checks
  <2> QED BY <2>1, <2>2, <2>3 DEF WalkInv, Asking
<1>3. CASE UNCHANGED vars
  BY <1>3, QuietWalk DEF vars, Checks
<1> QED BY <1>1, <1>2, <1>3, PassWalk, ApiWalk, EnvironmentWalk DEF Next

(* A start is issued by StartStep only: for a name whose dependencies are  *)
(* ready, the ones before it being done with in this pass.                 *)
LEMMA StartsReady ==
  ASSUME TypeOK, Flight, FatalInv, WalkInv, [Next]_vars, NEW n \in Names, IssuesStart(n),
         NEW d \in Sp(n).deps, d.name < n
  PROVE  Ready(d)
<1>1. ASSUME NEW m \in Names, NEW t, StartStep(m, t), m \in todo, \A k \in todo : m <= k,
             pc = "reconcile", records[m] # None
      PROVE  Ready(d)
  <2>1. ~ Unready(n) /\ m = n
    BY <1>1 DEF IssuesStart, StartStep, Settle, Issue, NewCall
  <2>2. /\ track[d.name].phase = "running"
        /\ d.ready = "healthy" => track[d.name].health = "healthy"
    BY <2>1 DEF Unready
  <2>3. d.name \in Names
    BY <1>1, <2>1, SpecType DEF Service, Dependency
  <2>4. d.name \notin todo
    <3>1. \A a, b \in Nat : ~ (a < b /\ b <= a)
      OBVIOUS
    <3> QED BY <1>1, <2>1, <2>3, <3>1, NamesAssumption
  <2> QED BY <1>1, <2>2, <2>3, <2>4 DEF WalkInv, Walked, Shown, Ready
<1>2. call' # None /\ call'.op \in {"start", "run"} /\ (call = None \/ call.op # call'.op)
  BY DEF IssuesStart
<1>3. ASSUME NEW m, NEW t, Settle(m, t) PROVE FALSE
  BY <1>2, <1>3 DEF Settle
<1>4. ASSUME NEW op, NEW m, NEW t, Issue(op, m, t), op \notin {"start", "run"} PROVE FALSE
  BY <1>2, <1>4 DEF Issue, NewCall
<1>5. ASSUME NEW m \in Names, Reconcile(m) PROVE Ready(d)
  <2>1. Turn(m)
    BY <1>5 DEF Reconcile, Recreate, ReconcileStopped, ReconcileRestart, ReconcileRunning,
                ReconcileFreshStart, ReconcileDecided, ReconcileExit, NotRunning, ToRun
  <2>2. ~ (Recreate(m) \/ ReconcileRestart(m))
    BY <1>4 DEF Recreate, ReconcileRestart
  <2>3. ~ ReconcileStopped(m)
    BY <1>3, <1>4 DEF ReconcileStopped
  <2>4. ~ ReconcileRunning(m)
    <3> SUFFICES ASSUME ReconcileRunning(m) PROVE FALSE
      OBVIOUS
    <3>1. (\E t : Settle(m, t)) \/ (\E t : Issue("health", m, t))
      BY DEF ReconcileRunning
    <3>2. "health" \notin {"start", "run"}
      OBVIOUS
    <3> QED BY <1>3, <1>4, <3>1, <3>2
  <2>5. ~ ReconcileExit(m)
    BY <1>3 DEF ReconcileExit
  <2>6. (ReconcileFreshStart(m) \/ ReconcileDecided(m)) => \E t : StartStep(m, t)
    BY <1>3 DEF ReconcileFreshStart, ReconcileDecided
  <2> QED BY <1>1, <1>5, <2>1, <2>2, <2>3, <2>4, <2>5, <2>6, TurnIsFirst DEF Reconcile
<1>6. ASSUME Return PROVE Ready(d)
  <2>1. CASE ReturnRestop
    <3>1. PICK m : m = call.name
      OBVIOUS
    <3>2. /\ call # None /\ call.op = "restop" /\ ~ touched
          /\ \E t : StartStep(m, t)
      BY <2>1, <3>1 DEF ReturnRestop, Fresh, Returned
    <3>3. m \in Names /\ pc = "reconcile" /\ records[m] # None
      BY <3>1, <3>2, ReturnedFacts
    <3>4. m \in todo /\ \A k \in todo : m <= k
      BY <3>1, <3>2 DEF WalkInv, Asking
    <3> QED BY <1>1, <3>2, <3>3, <3>4
  <2>2. CASE ReturnStop \/ ReturnStart \/ ReturnHealth
    BY <1>3, <2>2 DEF ReturnStop, ReturnStart, ReturnHealth
  <2>3. CASE ReturnSweep \/ ReturnStale \/ ReturnFailed \/ ReturnRecreate
    BY <1>2, <2>3 DEF ReturnSweep, ReturnStale, ReturnFailed, Leave, ReturnRecreate
  <2> QED BY <1>6, <2>1, <2>2, <2>3 DEF Return
<1>7. ~ EngineDo
  <2> SUFFICES ASSUME EngineDo PROVE FALSE
    OBVIOUS
  <2>1. call # None /\ call'.op = call.op
    BY DEF EngineDo, TypeOK, Call
  <2> QED BY <1>2, <2>1
<1>8. ~ \E m \in Names : Sweep(m)
  BY <1>2 DEF Sweep, NewCall
<1>9. call' # call
  BY <1>2
<1>10. ~ (List \/ BeginPass \/ EndSweep \/ Skip \/ EndReconcile \/ RemoveNetworks)
  BY <1>9 DEF List, BeginPass, EndSweep, Skip, EndReconcile, RemoveNetworks, callVars
<1>11. ~ Api /\ ~ Failure
  BY <1>9, NoFailure, ApiQuiet DEF FatalInv
<1>12. ~ StartDaemon /\ ~ Environment /\ ~ UNCHANGED vars
  BY <1>9
  DEF StartDaemon, Environment, ContainerExits, RunConfirmed, RunIsLong, GapEnds, CheckComesDue,
      HandRun, HandStart, HandRemove, ByHand, callVars, vars
<1> QED BY <1>5, <1>6, <1>7, <1>8, <1>10, <1>11, <1>12 DEF Next, Pass

(* A container is started only when the listing of the same pass shows     *)
(* each container it depends on running, and healthy in that very run when *)
(* it waits for that, those whose call failed or was overtaken aside:      *)
(* however exits, API calls and calls in flight interleave and whatever    *)
(* calls fail, as long as the daemon does not crash and nobody runs or     *)
(* removes containers by hand.                                             *)
THEOREM StartedInOrder ==
  ASSUME Crashes = 0, Hands = 0
  PROVE  Spec => DependenciesInOrder
<1>1. Init => FatalInv /\ Labelled /\ Grounds /\ WalkInv
  <2>1. Init => Labelled /\ Grounds
    BY DEF Init, Empty, Labelled, Grounds
  <2>2. Init => WalkInv
    BY DownHealth, InitInv DEF Init, Inv, WalkInv, Walked, Asking
  <2> QED BY <2>1, <2>2, InitFatal
<1>2. Inv => TypeOK /\ Flight
  BY DEF Inv
<1>3. TypeOK /\ Flight /\ FatalInv /\ WalkInv /\ [Next]_vars =>
        [\A n \in Names : IssuesStart(n) => \A d \in Sp(n).deps : d.name < n => Ready(d)]_vars
  BY StartsReady
<1> QED
  BY <1>1, <1>2, <1>3, InitInv, NextInv, NextFatal, NextGrounds, NextWalk, PTL
  DEF Spec, DependenciesInOrder

-----------------------------------------------------------------------------
(* Attempts.  A container is started at most once and StartRetries times   *)
(* again before it reaches running, as long as no run is longer than       *)
(* BackoffMaxSeconds either.                                               *)

(* A container that ran, or runs, from what is declared of n.              *)
RanFor(c, n) ==
  /\ c # None /\ c.managed /\ c.hash = Hash(Sp(n))
  /\ c.state # "created" /\ c.run # 0 /\ c.boot

(* A run of n that t does not count: it goes on or is still to be judged,  *)
(* or ended in a way its policy wants no restart for.                      *)
Uncounted(t, n) ==
  /\ RanFor(ctr[n], n)
  /\ \/ t.phase \in {"starting", "running"} /\ ctr[n].ran = "short"
     \/ /\ t.phase = "exited" /\ ctr[n].state = "exited" /\ ctr[n].run = t.handledExit
        /\ Listed(n) => view[n] = ctr[n]

(* The tracking t of n bounds its k starts.                                *)
Counts(t, k, n) ==
  /\ k <= StartRetries + 1
  /\ t.phase # "fatal" => t.startAttempts <= StartRetries
  /\ t.phase \in {"", "stopped"} => t.startAttempts = 0
  /\ t.force => k = 0
  /\ IF records[n] = None THEN k = 0
     ELSE records[n].desired = "running" /\ k > t.startAttempts =>
            k = t.startAttempts + 1 /\ Uncounted(t, n)

(* The listing shows n's container as it is, unless it showed it running.  *)
Seen(n) == IF view[n] = None THEN ctr[n] = None ELSE view[n] = ctr[n] \/ Running(view[n])

Tally(n) ==
  /\ Counts(track[n], tried[n], n)
  /\ Listed(n) /\ ~ Busy(n) => Seen(n) \/ (view[n] = None /\ tried[n] <= track[n].startAttempts)
  /\ ctr[n] # None => ctr[n].ran # "long"
  /\ view[n] # None => view[n].ran # "long"
  /\ ~ Up => tried[n] = 0

(* A call that replaces or removes a container finds all its runs counted. *)
Replaces ==
  call # None =>
    LET n == call.name IN
    /\ \/ call.op \in {"start", "run", "sweep"}
       \/ call.op = "recreate" /\ records[n] # None /\ records[n].desired = "running"
       => tried[n] <= track[n].startAttempts
    /\ call.op = "start" /\ ~ call.done => Observed(n) /\ view[n].hash = Hash(call.record.spec)
    /\ call.op \in {"start", "run"} /\ call.done /\ call.ok /\ ~ touched => RanFor(ctr[n], n)

TallyInv == (\A n \in Names : Tally(n)) /\ Replaces

-----------------------------------------------------------------------------
(* Names a step is not about.                                              *)

(* Nothing the tally of n is about changes.                                *)
Steady(n) ==
  /\ ctr'[n] = ctr[n] /\ records'[n] = records[n] /\ tried'[n] = tried[n]
  /\ track'[n].phase = track[n].phase /\ track'[n].force = track[n].force
  /\ track'[n].startAttempts = track[n].startAttempts
  /\ track'[n].handledExit = track[n].handledExit
  /\ view'[n] \in {view[n], None}
  /\ Listed(n)' => Listed(n) /\ view'[n] = view[n] /\ (Busy(n) => Busy(n)')
  /\ ~ Up' => ~ Up

(* Then the tally stands.                                                  *)
LEMMA SteadyTally ==
  ASSUME NEW n \in Names, Tally(n), Steady(n)
  PROVE  Tally(n)'
<1>1. RanFor(ctr[n], n) => RanFor(ctr[n], n)'
  BY DEF Steady, RanFor, Sp
<1>2. Uncounted(track[n], n) => Uncounted(track[n], n)'
  BY <1>1 DEF Steady, Uncounted
<1>3. Counts(track[n], tried[n], n)'
  BY <1>2 DEF Tally, Counts, Steady
<1> QED BY <1>3 DEF Tally, Steady, Seen

-----------------------------------------------------------------------------
(* The pass.                                                               *)

(* The end of a reconcile that leaves tracking t and k starts.             *)
LEMMA SettleTally ==
  ASSUME TypeOK, TallyInv, NEW n \in Names, NEW t \in Tracking, NEW k, Settle(n, t),
         pc = "reconcile", call = None \/ call.name = n,
         tried' = [tried EXCEPT ![n] = k],
         k <= StartRetries + 1,
         t.phase # "fatal" => t.startAttempts <= StartRetries,
         t.phase \in {"", "stopped"} => t.startAttempts = 0,
         t.force => k = 0,
         records[n] # None,
         records[n].desired = "running" /\ k > t.startAttempts =>
           /\ k = t.startAttempts + 1 /\ RanFor(ctr[n], n)
           /\ \/ t.phase \in {"starting", "running"} /\ ctr[n].ran = "short"
              \/ t.phase = "exited" /\ ctr[n].state = "exited" /\ ctr[n].run = t.handledExit
  PROVE  TallyInv'
<1>1. /\ UNCHANGED <<ctr, view, records, pc>> /\ call' = None /\ todo' = todo \ {n}
      /\ track'[n] = t /\ tried'[n] = k
      /\ \A m \in Names \ {n} : track'[m] = track[m] /\ tried'[m] = tried[m]
  BY DEF Settle, engineVars, TypeOK
<1>2. ASSUME NEW m \in Names, m # n PROVE Tally(m)'
  <2>1. Steady(m)
    BY <1>1, <1>2 DEF Steady, Listed, Busy, Up
  <2> QED BY <2>1, SteadyTally DEF TallyInv
<1>3. Tally(n)'
  <2>1. ~ Listed(n)'
    BY <1>1 DEF Listed
  <2>2. RanFor(ctr[n], n) => RanFor(ctr[n], n)'
    BY <1>1 DEF RanFor, Sp
  <2>3. Counts(track[n], tried[n], n)'
    BY <1>1, <2>1, <2>2 DEF Counts, Uncounted
  <2> QED BY <1>1, <2>1, <2>3 DEF TallyInv, Tally, Up
<1>4. Replaces'
  BY <1>1 DEF Replaces
<1> QED BY <1>2, <1>3, <1>4 DEF TallyInv

(* A call that reconcile makes, with tracking t and k starts.              *)
LEMMA IssueTally ==
  ASSUME TypeOK, TallyInv, NEW n \in Names, NEW t \in Tracking, NEW k,
         NEW op \in Ops \ {"sweep"}, Issue(op, n, t),
         pc = "reconcile", call = None \/ call.name = n,
         tried' = [tried EXCEPT ![n] = k], records[n] # None, Counts(t, k, n),
         op \in {"start", "run"} \/ (op = "recreate" /\ records[n].desired = "running") =>
           k <= t.startAttempts,
         op = "start" => Observed(n) /\ view[n].hash = Hash(Sp(n))
  PROVE  TallyInv'
<1>1. /\ UNCHANGED <<ctr, view, records, pc, todo>>
      /\ track'[n] = t /\ tried'[n] = k
      /\ \A m \in Names \ {n} : track'[m] = track[m] /\ tried'[m] = tried[m]
  BY DEF Issue, engineVars, passVars, TypeOK
<1>2. call' # None /\ call'.op = op /\ call'.name = n /\ ~ call'.done /\ call'.record = records[n]
  <2>1. call' \in Call
    BY DEF Issue, NewCall, TypeOK, Call
  <2> QED BY <2>1, AbsentAssumption DEF Issue, NewCall
<1>3. ASSUME NEW m \in Names, m # n PROVE Tally(m)'
  <2>1. Steady(m)
    BY <1>1, <1>2, <1>3 DEF Steady, Listed, Busy, Up
  <2> QED BY <2>1, SteadyTally DEF TallyInv
<1>4. Tally(n)'
  <2>1. Uncounted(t, n) => Uncounted(track[n], n)'
    BY <1>1 DEF Uncounted, RanFor, Sp, Listed
  <2>2. Counts(track[n], tried[n], n)'
    BY <1>1, <2>1 DEF Counts
  <2> QED BY <1>1, <1>2, <2>2 DEF TallyInv, Tally, Busy, Up
<1>5. Replaces'
  BY <1>1, <1>2 DEF Replaces, Observed, Sp
<1> QED BY <1>3, <1>4, <1>5 DEF TallyInv

(* Starts that are all counted are within the bound.                       *)
LEMMA Within ==
  ASSUME NEW k \in Nat, NEW a \in Nat, NEW b \in Nat, k <= a, a <= b
  PROVE  k <= b + 1 /\ ~ (k > a)
OBVIOUS

(* One start more is counted, or is the only one that is not.              *)
LEMMA StepWithin ==
  ASSUME NEW k \in Nat, NEW a \in Nat, NEW b \in Nat, NEW r \in Nat, a <= b, b <= r,
         k = 0 \/ k = a + 1
  PROVE  k <= r + 1 /\ ~ (k > b + 1) /\ (k > b => k = b + 1)
OBVIOUS

(* start, of a name all of whose runs are counted.                         *)
LEMMA StartStepTally ==
  ASSUME TypeOK, TallyInv, NEW n \in Names, NEW t \in Tracking, NEW k \in Nat, StartStep(n, t),
         pc = "reconcile", call = None \/ call.name = n,
         tried' = [tried EXCEPT ![n] = k], records[n] # None,
         k <= t.startAttempts, t.startAttempts <= StartRetries,
         t.phase \in {"", "stopped"} => t.startAttempts = 0,
         t.force => k = 0,
         Observed(n) => view[n].hash = Hash(Sp(n))
  PROVE  TallyInv'
<1>1. t.startAttempts \in Nat /\ StartRetries \in Nat
  BY BoundsAssumption DEF Tracking
<1>2. k <= StartRetries + 1 /\ ~ (k > t.startAttempts)
  BY <1>1, Within
<1>3. CASE Held(n) \/ Unready(n)
  <2> DEFINE u == [t EXCEPT !.phase = "waiting"]
  <2>1. /\ u \in Tracking /\ u.phase = "waiting"
        /\ u.startAttempts = t.startAttempts /\ u.force = t.force
    BY WaitingType DEF Tracking
  <2>2. Settle(n, u)
    BY <1>3 DEF StartStep
  <2> HIDE DEF u
  <2> QED BY <1>2, <2>1, <2>2, SettleTally
<1>4. CASE ~ (Held(n) \/ Unready(n))
  <2>1. records[n] # None /\ Counts(t, k, n)
    BY <1>2 DEF Counts
  <2>2. CASE Observed(n) /\ ~ Sp(n).devices
    <3>1. Issue("start", n, t)
      BY <1>4, <2>2 DEF StartStep
    <3> QED BY <2>1, <2>2, <3>1, IssueTally DEF Ops
  <2>3. CASE ~ (Observed(n) /\ ~ Sp(n).devices)
    <3>1. Issue("run", n, t)
      BY <1>4, <2>3 DEF StartStep
    <3> QED BY <2>1, <3>1, IssueTally DEF Ops
  <2> QED BY <2>2, <2>3
<1> QED BY <1>3, <1>4

(* What the tally says of a name.                                          *)
LEMMA TallyFacts ==
  ASSUME TypeOK, TallyInv, NEW n \in Names
  PROVE  /\ track[n] \in Tracking /\ tried[n] \in Nat /\ track[n].startAttempts \in Nat
         /\ StartRetries \in Nat /\ tried[n] <= StartRetries + 1
         /\ tried = [tried EXCEPT ![n] = tried[n]]
         /\ track[n].phase # "fatal" => track[n].startAttempts <= StartRetries
         /\ track[n].phase \in {"", "stopped"} => track[n].startAttempts = 0
         /\ track[n].force => tried[n] = 0
         /\ tried[n] <= track[n].startAttempts \/ tried[n] > track[n].startAttempts
         /\ Tally(n) /\ Counts(track[n], tried[n], n)
<1>1. track[n] \in Tracking /\ tried[n] \in Nat /\ track[n].startAttempts \in Nat
  BY TrackType DEF TypeOK, Tracking
<1>2. Tally(n) /\ Counts(track[n], tried[n], n)
  BY DEF TallyInv, Tally
<1>3. tried = [tried EXCEPT ![n] = tried[n]]
  BY DEF TypeOK
<1>4. \A a, b \in Nat : a <= b \/ a > b
  OBVIOUS
<1> QED BY <1>1, <1>2, <1>3, <1>4, BoundsAssumption DEF Counts

(* No start is left out of the count of none.                              *)
LEMMA NoneTried == \A a \in Nat : 0 <= a /\ 0 <= a + 1 /\ ~ (0 > a) /\ (a <= 0 => a = 0)
OBVIOUS

(* A container the listing shows, not running, is counted, or its exit is  *)
(* still to be judged.                                                     *)
LEMMA NotRunningTally ==
  ASSUME TypeOK, FatalInv, TallyInv, NEW n \in Names, NotRunning(n)
  PROVE  \/ tried[n] <= track[n].startAttempts
         \/ /\ Observed(n) /\ view[n] = ctr[n] /\ ~ FreshStart(n) /\ RanFor(ctr[n], n)
            /\ tried[n] = track[n].startAttempts + 1
            /\ Uncounted(track[n], n)
<1> SUFFICES ASSUME tried[n] > track[n].startAttempts
             PROVE  /\ Observed(n) /\ view[n] = ctr[n] /\ ~ FreshStart(n) /\ RanFor(ctr[n], n)
                    /\ tried[n] = track[n].startAttempts + 1
                    /\ Uncounted(track[n], n)
  BY TallyFacts
<1>1. /\ records[n] # None /\ records[n].desired = "running"
      /\ Listed(n) /\ ~ Busy(n) /\ (Linked(n) \/ Loose(n))
      /\ ~ (Observed(n) /\ Running(view[n]))
  BY TurnIsListed DEF NotRunning, ToRun, ObservedRunning
<1>2. /\ tried[n] = track[n].startAttempts + 1 /\ Uncounted(track[n], n) /\ RanFor(ctr[n], n)
      /\ ~ track[n].force /\ ~ (tried[n] <= track[n].startAttempts)
  <2>1. \A a, b \in Nat : a > b => ~ (a <= b) /\ a # 0
    OBVIOUS
  <2> QED BY <1>1, <2>1, TallyFacts DEF Counts, Uncounted
<1>3. ctr[n] # None /\ ctr[n].managed /\ ctr[n].run # 0 /\ ctr[n].boot
  BY <1>2 DEF RanFor
<1>4. Seen(n)
  BY <1>1, <1>2, TallyFacts DEF Tally
<1>5. view[n] # None
  BY <1>3, <1>4 DEF Seen
<1>6. Observed(n)
  BY <1>1, <1>3, <1>5 DEF Linked, Loose, Observed
<1>7. view[n] = ctr[n]
  BY <1>1, <1>4, <1>5, <1>6 DEF Seen
<1>8. ~ FreshStart(n)
  BY <1>2, <1>3, <1>6, <1>7 DEF FreshStart
<1> QED BY <1>2, <1>6, <1>7, <1>8

(* What the decisions of reconcile leave of a tracking.                    *)
LEMMA DownFields ==
  ASSUME TypeOK, NEW n \in Names
  PROVE  /\ Down(n) \in Tracking
         /\ Down(n).phase = track[n].phase /\ Down(n).force = track[n].force
         /\ Down(n).startAttempts = track[n].startAttempts
         /\ Down(n).handledExit = track[n].handledExit
BY TrackType, LowerFields DEF Down

(* A tracking that begins.                                                 *)
LEMMA BeginFields ==
  /\ ZeroTracking \in Tracking /\ Forced \in Tracking
  /\ ZeroTracking.phase = "" /\ Forced.phase = "" /\ ~ ZeroTracking.force
  /\ ZeroTracking.startAttempts = 0 /\ Forced.startAttempts = 0
<1>1. ZeroTracking.phase = "" /\ Forced.phase = "" /\ ~ ZeroTracking.force
  BY Zenon DEF Forced, ZeroTracking
<1> QED BY <1>1, ZeroFields, ForcedType

(* A container brought to a stop counts nothing.                           *)
LEMMA StoppedFields ==
  ASSUME TypeOK, NEW n \in Names
  PROVE  /\ Stopped(n) \in Tracking /\ Stopped(n).phase = "stopped"
         /\ Stopped(n).startAttempts = 0 /\ ~ Stopped(n).force
<1>1. Stopped(n).startAttempts = 0 /\ ~ Stopped(n).force
  BY Zenon DEF Stopped, ZeroTracking
<1> QED BY <1>1, StoppedPhase, StoppedType

(* Deciding on an exit counts the run unless it was long enough, or was    *)
(* not to be followed by another.                                          *)
LEMMA JudgedFields ==
  ASSUME TypeOK, NEW n \in Names, Observed(n), view[n].ran # "long"
  PROVE  /\ Judged(n) \in Tracking /\ Judged(n).force = track[n].force
         /\ \/ /\ Judged(n).phase = "exited" /\ Judged(n).handledExit = ExitStamp(view[n])
               /\ Judged(n).startAttempts = track[n].startAttempts
            \/ /\ Judged(n).phase \in {"fatal", "backoff"}
               /\ Judged(n).startAttempts = track[n].startAttempts /\ view[n].ran # "short"
            \/ /\ Judged(n).phase \in {"fatal", "backoff"}
               /\ Judged(n).startAttempts = track[n].startAttempts + 1
               /\ Judged(n).phase = "backoff" => ~ (track[n].startAttempts + 1 > StartRetries)
<1> DEFINE t == [Down(n) EXCEPT !.handledExit = ExitStamp(view[n]),
                   !.startAttempts = IF view[n].ran = "long" THEN 0 ELSE @,
                   !.restarts      = IF view[n].ran = "long" THEN 0 ELSE @]
           short == [t EXCEPT !.startAttempts = @ + 1]
           stop  == [t EXCEPT !.restarts = @ + 1]
           Over(u) == [u EXCEPT !.phase = "fatal"]
           Again(u) == [u EXCEPT !.phase = "backoff", !.due = FALSE]
<1>1. ExitStamp(view[n]) \in Nat
  BY StampType DEF Observed
<1>2. /\ t \in Tracking /\ t.startAttempts = track[n].startAttempts
      /\ t.handledExit = ExitStamp(view[n])
  <2>1. Down(n) \in Tracking /\ Down(n).startAttempts = track[n].startAttempts
    BY DownFields
  <2>2. t = Noted(Down(n), ExitStamp(view[n]), view[n])
    BY Zenon DEF Noted
  <2> HIDE DEF t
  <2>3. t \in Tracking
    BY <1>1, <2>1, <2>2, NotedFields, Zenon
  <2>4. t.handledExit = ExitStamp(view[n]) /\ t.startAttempts = Down(n).startAttempts
    BY <2>1, <2>2, NotedTally
  <2> QED BY <2>1, <2>3, <2>4
<1>3. IF ~ RestartWanted(Sp(n), view[n].failed) THEN Judged(n) = [t EXCEPT !.phase = "exited"]
      ELSE IF view[n].ran = "short"
           THEN IF short.startAttempts > StartRetries THEN Judged(n) = Over(short)
                ELSE Judged(n) = Again(short)
           ELSE Judged(n) = Over(stop) \/ Judged(n) = Again(stop)
  BY Zenon DEF Judged
<1> HIDE DEF t
<1>4. /\ short.startAttempts = track[n].startAttempts + 1
      /\ stop.startAttempts = track[n].startAttempts
      /\ [t EXCEPT !.phase = "exited"].phase = "exited"
      /\ [t EXCEPT !.phase = "exited"].startAttempts = track[n].startAttempts
      /\ [t EXCEPT !.phase = "exited"].handledExit = ExitStamp(view[n])
  BY <1>2 DEF Tracking
<1>5. short \in Tracking /\ stop \in Tracking
  BY <1>2, GivenUpType
<1>6. ASSUME NEW u \in Tracking
      PROVE  /\ Over(u).phase = "fatal" /\ Over(u).startAttempts = u.startAttempts
             /\ Again(u).phase = "backoff" /\ Again(u).startAttempts = u.startAttempts
  BY DEF Tracking
<1> HIDE DEF short, stop, Over, Again
<1>7. Judged(n) \in Tracking /\ Judged(n).force = track[n].force
  BY JudgedType, JudgedForce
<1>8. CASE Judged(n) = [t EXCEPT !.phase = "exited"]
  BY <1>4, <1>7, <1>8
<1>9. CASE view[n].ran = "short" /\ short.startAttempts > StartRetries /\ Judged(n) = Over(short)
  <2>1. Judged(n).phase = "fatal" /\ Judged(n).startAttempts = track[n].startAttempts + 1
    BY <1>4, <1>5, <1>6, <1>9
  <2> QED BY <1>7, <2>1
<1>10. CASE view[n].ran = "short" /\ ~ (short.startAttempts > StartRetries)
            /\ Judged(n) = Again(short)
  <2>1. Judged(n).phase = "backoff" /\ Judged(n).startAttempts = track[n].startAttempts + 1
    BY <1>4, <1>5, <1>6, <1>10
  <2>2. ~ (track[n].startAttempts + 1 > StartRetries)
    BY <1>4, <1>10
  <2> QED BY <1>7, <2>1, <2>2
<1>11. CASE view[n].ran # "short" /\ (Judged(n) = Over(stop) \/ Judged(n) = Again(stop))
  <2>1. /\ Judged(n).phase \in {"fatal", "backoff"}
        /\ Judged(n).startAttempts = track[n].startAttempts
    BY <1>4, <1>5, <1>6, <1>11
  <2> QED BY <1>7, <1>11, <2>1
<1> QED BY <1>3, <1>8, <1>9, <1>10, <1>11

(* The end of a reconcile that decided nothing.                            *)
LEMMA KeepTally ==
  ASSUME TypeOK, TallyInv, NEW n \in Names, NEW t \in Tracking, Settle(n, t),
         pc = "reconcile", call = None \/ call.name = n, records[n] # None,
         tried' = tried,
         t.phase = track[n].phase, t.force = track[n].force,
         t.startAttempts = track[n].startAttempts, t.handledExit = track[n].handledExit
  PROVE  TallyInv'
<1> DEFINE k == tried[n]
<1>1. /\ tried' = [tried EXCEPT ![n] = k]
      /\ k <= StartRetries + 1
      /\ t.phase # "fatal" => t.startAttempts <= StartRetries
      /\ t.phase \in {"", "stopped"} => t.startAttempts = 0
      /\ t.force => k = 0
  BY TallyFacts
<1>2. records[n].desired = "running" /\ k > t.startAttempts =>
        /\ k = t.startAttempts + 1 /\ RanFor(ctr[n], n)
        /\ \/ t.phase \in {"starting", "running"} /\ ctr[n].ran = "short"
           \/ t.phase = "exited" /\ ctr[n].state = "exited" /\ ctr[n].run = t.handledExit
  BY TallyFacts DEF Counts, Uncounted
<1> HIDE DEF k
<1> QED BY <1>1, <1>2, SettleTally

(* A start the pass decides on.                                            *)
LEMMA FirstTally ==
  ASSUME TypeOK, FatalInv, TallyInv, NEW n \in Names, NEW t \in Tracking, StartStep(n, t),
         NotRunning(n), tried' = tried, tried[n] <= track[n].startAttempts,
         \/ t = ZeroTracking /\ (track[n].force \/ track[n].phase \in {"", "stopped"})
         \/ t = Down(n) /\ track[n].phase # "fatal"
  PROVE  TallyInv'
<1> DEFINE k == tried[n]
<1>1. pc = "reconcile" /\ call = None /\ n \in todo /\ records[n] # None
  BY TurnIsListed DEF NotRunning, ToRun
<1>2. Observed(n) => view[n].hash = Hash(Sp(n))
  BY DEF NotRunning, ToRun, Stale
<1>3. k \in Nat /\ tried' = [tried EXCEPT ![n] = k] /\ 0 <= StartRetries
  BY TallyFacts, NoneTried
<1>4. CASE t = ZeroTracking /\ (track[n].force \/ track[n].phase \in {"", "stopped"})
  <2>1. k = 0
    BY <1>4, NoneTried, TallyFacts
  <2>2. t.startAttempts = 0 /\ ~ t.force /\ k <= 0
    BY <1>4, <2>1, BeginFields, NoneTried
  <2> HIDE DEF k
  <2> QED BY <1>1, <1>2, <1>3, <2>1, <2>2, StartStepTally
<1>5. CASE t = Down(n) /\ track[n].phase # "fatal"
  <2>1. /\ k <= t.startAttempts /\ t.startAttempts <= StartRetries
        /\ t.phase \in {"", "stopped"} => t.startAttempts = 0
        /\ t.force => k = 0
    BY <1>5, DownFields, TallyFacts
  <2> HIDE DEF k
  <2> QED BY <1>1, <1>2, <1>3, <2>1, StartStepTally
<1> QED BY <1>4, <1>5

(* Every branch of reconcile keeps the tally (supervisor.go, reconcile).   *)
LEMMA ReconcileTally ==
  ASSUME TypeOK, FatalInv, TallyInv, NEW n \in Names, Reconcile(n)
  PROVE  TallyInv'
<1> DEFINE k == tried[n]
<1>1. Turn(n)
  BY DEF Reconcile, Recreate, ReconcileStopped, ReconcileRestart, ReconcileRunning,
         ReconcileFreshStart, ReconcileDecided, ReconcileExit, NotRunning, ToRun
<1>2. /\ pc = "reconcile" /\ call = None /\ records[n] # None /\ n \in todo
      /\ Listed(n) /\ ~ Busy(n) /\ (Linked(n) \/ Loose(n))
  BY <1>1, TurnIsListed
<1>3. /\ track[n] \in Tracking /\ k \in Nat /\ Counts(track[n], k, n)
      /\ tried = [tried EXCEPT ![n] = k]
      /\ k <= track[n].startAttempts \/ k > track[n].startAttempts
  BY TallyFacts
<1>4. CASE Recreate(n)
  <2>1. Stale(n) /\ Issue("recreate", n, track[n]) /\ tried' = [tried EXCEPT ![n] = k]
    BY <1>3, <1>4 DEF Recreate
  <2>2. records[n].desired = "running" => k <= track[n].startAttempts
    <3> SUFFICES ASSUME records[n].desired = "running", k > track[n].startAttempts PROVE FALSE
      BY <1>3
    <3>1. RanFor(ctr[n], n)
      BY <1>2, <1>3 DEF Counts, Uncounted
    <3> QED BY <1>2, <2>1, <3>1 DEF RanFor, Stale, Observed, Linked, Loose
  <2> HIDE DEF k
  <2> QED BY <1>2, <1>3, <2>1, <2>2, IssueTally DEF Ops
<1>5. CASE ReconcileStopped(n)
  <2>1. tried' = [tried EXCEPT ![n] = k] /\ records[n].desired # "running"
    BY <1>3, <1>5 DEF ReconcileStopped
  <2>2. CASE Issue("stop", n, track[n])
    <3> HIDE DEF k
    <3> QED BY <1>2, <1>3, <2>1, <2>2, IssueTally DEF Ops
  <2>3. CASE Settle(n, Stopped(n))
    <3>1. 0 <= StartRetries /\ k <= StartRetries + 1
      BY NoneTried, TallyFacts
    <3> HIDE DEF k
    <3> QED BY <1>2, <1>3, <2>1, <2>3, <3>1, StoppedFields, SettleTally
  <2> QED BY <1>5, <2>2, <2>3 DEF ReconcileStopped
<1>6. CASE ReconcileRestart(n)
  <2>1. tried' = [tried EXCEPT ![n] = k] /\ Issue("restop", n, track[n])
    BY <1>3, <1>6 DEF ReconcileRestart
  <2> HIDE DEF k
  <2> QED BY <1>2, <1>3, <2>1, IssueTally DEF Ops
<1>7. CASE ReconcileRunning(n)
  <2>1. /\ track[n].phase # "fatal" /\ view[n] # None /\ Running(view[n])
        /\ tried' = [tried EXCEPT ![n] = k]
    <3>1. n \notin gaveUp
      BY <1>2, <1>7, GivenUpListed DEF ReconcileRunning
    <3> QED BY <1>3, <1>7, <3>1 DEF ReconcileRunning, ObservedRunning, Observed, FatalInv, Told
  <2> DEFINE up(c) == [track[n] EXCEPT !.force = FALSE,
                         !.phase = IF c THEN "running" ELSE "starting"]
             fresh(c) == IF up(c).healthRun = view[n].run THEN up(c)
                         ELSE [up(c) EXCEPT !.healthRun = view[n].run, !.health = "starting",
                                            !.failures = 0, !.check = "first"]
             Goes(t) == /\ t \in Tracking /\ t.phase \in {"running", "starting"} /\ ~ t.force
                        /\ t.startAttempts = track[n].startAttempts
                        /\ t.handledExit = track[n].handledExit
  <2>2. PICK c \in BOOLEAN :
          Settle(n, up(c)) \/ Issue("health", n, fresh(c)) \/ Settle(n, fresh(c))
    <3>1. Confirmations(n) \subseteq BOOLEAN
      BY DEF Confirmations
    <3> QED BY <1>7, <3>1 DEF ReconcileRunning
  <2>3. Goes(up(c))
    BY <1>3 DEF Tracking, Phases
  <2>4. view[n].run \in Nat
    BY <2>1 DEF TypeOK, Container
  <2>5. Goes(fresh(c))
    <3> HIDE DEF up
    <3> QED BY <2>3, <2>4 DEF Tracking
  <2> HIDE DEF up, fresh
  <2>6. ASSUME NEW t, Goes(t)
        PROVE  /\ Counts(t, k, n)
               /\ records[n].desired = "running" /\ k > t.startAttempts =>
                     /\ k = t.startAttempts + 1 /\ RanFor(ctr[n], n)
                     /\ t.phase \in {"starting", "running"} /\ ctr[n].ran = "short"
    <3>1. ASSUME records[n].desired = "running", k > t.startAttempts
          PROVE  /\ k = t.startAttempts + 1 /\ RanFor(ctr[n], n)
                 /\ ctr[n].ran = "short"
      <4>1. k = t.startAttempts + 1 /\ Uncounted(track[n], n)
        BY <1>2, <1>3, <2>6, <3>1 DEF Counts
      <4> QED BY <1>2, <2>1, <4>1 DEF Uncounted, Running
    <3>2. k <= StartRetries + 1 /\ t.startAttempts <= StartRetries
      BY <2>1, <2>6, TallyFacts
    <3> QED BY <1>2, <2>6, <3>1, <3>2 DEF Counts, Uncounted
  <2>7. ASSUME NEW t \in Tracking, Goes(t), Settle(n, t) PROVE TallyInv'
    <3>1. k <= StartRetries + 1 /\ t.startAttempts <= StartRetries
      BY <2>1, <2>7, TallyFacts
    <3> HIDE DEF k
    <3> QED BY <1>2, <2>1, <2>6, <2>7, <3>1, SettleTally
  <2>8. ASSUME NEW t \in Tracking, Goes(t), Issue("health", n, t) PROVE TallyInv'
    <3> HIDE DEF k, Goes
    <3> QED BY <1>2, <2>1, <2>6, <2>8, IssueTally DEF Ops
  <2>9. up(c) \in Tracking /\ fresh(c) \in Tracking
    BY <2>3, <2>5
  <2> HIDE DEF Goes
  <2> QED BY <2>2, <2>3, <2>5, <2>7, <2>8, <2>9
<1>8. CASE ReconcileFreshStart(n)
  <2>1. NotRunning(n) /\ FreshStart(n) /\ tried' = tried
    BY <1>8 DEF ReconcileFreshStart
  <2>2. tried[n] <= track[n].startAttempts
    BY <2>1, NotRunningTally
  <2>3. CASE HeldFatal(n) \/ HeldBackoff(n)
    BY <1>2, <1>8, <2>1, <2>3, DownFields, KeepTally DEF ReconcileFreshStart
  <2>4. CASE ~ (HeldFatal(n) \/ HeldBackoff(n))
    <3> DEFINE begins == track[n].force \/ track[n].phase \in {"", "stopped"}
    <3>1. /\ begins => StartStep(n, ZeroTracking)
          /\ ~ begins => StartStep(n, Down(n)) /\ track[n].phase # "fatal"
      BY <1>8, <2>4 DEF ReconcileFreshStart, HeldFatal
    <3> QED BY <2>1, <2>2, <3>1, BeginFields, DownFields, FirstTally
  <2> QED BY <2>3, <2>4
<1>9. CASE ReconcileDecided(n)
  <2>1. /\ NotRunning(n) /\ tried' = tried
        /\ \/ Settle(n, Down(n))
           \/ StartStep(n, Down(n)) /\ track[n].phase \in {"waiting", "backoff"}
    BY <1>9 DEF ReconcileDecided
  <2>2. CASE Settle(n, Down(n))
    BY <1>2, <2>1, <2>2, DownFields, KeepTally
  <2>3. CASE StartStep(n, Down(n)) /\ track[n].phase \in {"waiting", "backoff"}
    <3>1. tried[n] <= track[n].startAttempts
      BY <2>1, <2>3, NotRunningTally DEF Uncounted
    <3> QED BY <2>1, <2>3, <3>1, DownFields, FirstTally
  <2> QED BY <2>1, <2>2, <2>3
<1>10. CASE ReconcileExit(n)
  <2>1. /\ NotRunning(n) /\ Observed(n) /\ ~ track[n].force /\ track[n].phase # "fatal"
        /\ ~ (track[n].phase \in {"exited", "waiting", "backoff"} /\ Decided(n))
        /\ Settle(n, Judged(n)) /\ tried' = [tried EXCEPT ![n] = k]
    BY <1>3, <1>10 DEF ReconcileExit, FreshStart
  <2>2. view[n].ran # "long"
    BY <2>1, TallyFacts DEF Tally, Observed
  <2>3. PICK t \in Tracking :
          /\ t = Judged(n) /\ ~ t.force
          /\ \/ /\ t.phase = "exited" /\ t.handledExit = ExitStamp(view[n])
                /\ t.startAttempts = track[n].startAttempts
             \/ /\ t.phase \in {"fatal", "backoff"}
                /\ t.startAttempts = track[n].startAttempts /\ view[n].ran # "short"
             \/ /\ t.phase \in {"fatal", "backoff"}
                /\ t.startAttempts = track[n].startAttempts + 1
                /\ t.phase = "backoff" => ~ (track[n].startAttempts + 1 > StartRetries)
    BY <2>1, <2>2, JudgedFields
  <2>4. /\ k <= StartRetries + 1
        /\ t.phase # "fatal" => t.startAttempts <= StartRetries
        /\ t.phase \notin {"", "stopped"}
    <3>1. track[n].startAttempts <= StartRetries /\ k <= StartRetries + 1
      BY <2>1, TallyFacts
    <3>2. \A a, b \in Nat : ~ (a + 1 > b) => a + 1 <= b
      OBVIOUS
    <3> QED BY <2>3, <3>1, <3>2, TallyFacts
  <2>5. ASSUME k > t.startAttempts
        PROVE  /\ k = t.startAttempts + 1 /\ RanFor(ctr[n], n)
               /\ t.phase = "exited" /\ ctr[n].state = "exited" /\ ctr[n].run = t.handledExit
    <3>1. \A a, b \in Nat : a > b => ~ (a <= b) /\ ~ (a <= b + 1 /\ a > b + 1)
      OBVIOUS
    <3>2. /\ view[n] = ctr[n] /\ RanFor(ctr[n], n) /\ k = track[n].startAttempts + 1
          /\ Uncounted(track[n], n)
      <4>1. ~ (tried[n] <= track[n].startAttempts)
        <5>1. \A a, b \in Nat : (a > b \/ a > b + 1) => ~ (a <= b)
          OBVIOUS
        <5> QED BY <2>3, <2>5, <5>1, TallyFacts
      <4> QED BY <2>1, <4>1, NotRunningTally
    <3>3. ctr[n].state = "exited" /\ ExitStamp(view[n]) = ctr[n].run
      <4>1. ctr[n].state \in {"created", "running", "exited"}
        BY <3>2 DEF RanFor, TypeOK, Container
      <4> QED BY <2>1, <3>2, <4>1 DEF NotRunning, ObservedRunning, Running, RanFor, ExitStamp
    <3>4. view[n].ran = "short"
      BY <2>1, <3>2, <3>3 DEF Uncounted, Decided
    <3>5. ~ (k > track[n].startAttempts + 1)
      <4>1. \A a \in Nat : ~ (a > a)
        OBVIOUS
      <4> QED BY <1>3, <3>2, <4>1
    <3> QED BY <2>3, <2>5, <3>2, <3>3, <3>4, <3>5
  <2> HIDE DEF k
  <2> QED BY <1>2, <2>1, <2>3, <2>4, <2>5, SettleTally
<1> QED BY <1>4, <1>5, <1>6, <1>7, <1>8, <1>9, <1>10 DEF Reconcile

(* A start that failed counts.                                             *)
LEMMA StartFailedFields ==
  ASSUME NEW t \in Tracking
  PROVE  /\ StartFailed(t) \in Tracking /\ ~ StartFailed(t).force
         /\ StartFailed(t).startAttempts = t.startAttempts + 1
         /\ StartFailed(t).phase \in {"fatal", "backoff"}
         /\ StartFailed(t).phase = "backoff" => ~ (t.startAttempts + 1 > StartRetries)
<1> DEFINE u == [t EXCEPT !.force = FALSE, !.startAttempts = @ + 1]
           Over == [u EXCEPT !.phase = "fatal"]
           Again == [u EXCEPT !.phase = "backoff", !.due = FALSE]
<1>1. /\ u \in Tracking /\ ~ u.force /\ u.startAttempts = t.startAttempts + 1
  BY GivenUpType DEF Tracking
<1>2. IF u.startAttempts > StartRetries THEN StartFailed(t) = Over ELSE StartFailed(t) = Again
  BY Zenon DEF StartFailed
<1> HIDE DEF u
<1>3. /\ Over.phase = "fatal" /\ ~ Over.force /\ Over.startAttempts = u.startAttempts
      /\ Again.phase = "backoff" /\ ~ Again.force /\ Again.startAttempts = u.startAttempts
  BY <1>1 DEF Tracking
<1> HIDE DEF Over, Again
<1>4. "fatal" # "backoff"
  OBVIOUS
<1> QED BY <1>1, <1>2, <1>3, <1>4, StartFailedType

(* A health check counts nothing.                                          *)
LEMMA CheckedFields ==
  ASSUME TypeOK, NEW n \in Names, NEW t \in CappedChecked(n)
  PROVE  /\ t.phase = track[n].phase /\ t.force = track[n].force
         /\ t.startAttempts = track[n].startAttempts /\ t.handledExit = track[n].handledExit
<1> DEFINE w == [track[n] EXCEPT !.check = "wait"]
           f == [w EXCEPT !.failures = @ + 1]
           Keeps(u) == /\ u.phase = track[n].phase /\ u.force = track[n].force
                       /\ u.startAttempts = track[n].startAttempts
                       /\ u.handledExit = track[n].handledExit
                       /\ DOMAIN u = DOMAIN track[n]
<1>1. Keeps(w) /\ Keeps(f)
  BY TrackType DEF Tracking
<1>2. \A u : Keeps(u) => \A a, b : /\ Keeps([u EXCEPT !.health = a, !.failures = b])
                                   /\ Keeps([u EXCEPT !.health = a])
                                   /\ Keeps([u EXCEPT !.failures = a])
  BY TrackType DEF Tracking
<1> DEFINE ok    == [w EXCEPT !.health = "healthy", !.failures = 0]
           worse == [f EXCEPT !.health = "unhealthy"]
<1> HIDE DEF Keeps, w, f
<1>3. \A u \in Checked(n) : Keeps(u)
  <2>1. Keeps(ok) /\ Keeps(worse)
    BY <1>1, <1>2
  <2>2. Checked(n) \subseteq {ok, w, f, worse}
    BY DEF Checked, w, f
  <2> HIDE DEF ok, worse
  <2> QED BY <1>1, <2>1, <2>2
<1>4. PICK u \in Checked(n) :
        t = [u EXCEPT !.failures = IF @ > Sp(n).retries THEN Sp(n).retries ELSE @]
  BY DEF CappedChecked
<1>5. Keeps(t)
  BY <1>2, <1>3, <1>4
<1> QED BY <1>5 DEF Keeps

(* A call that returned is counted.                                        *)
LEMMA ReturnTally ==
  ASSUME TypeOK, Flight, FatalInv, Grounds, TallyInv, Return
  PROVE  TallyInv'
<1>0. PICK n : n = call.name
  OBVIOUS
<1>1. call # None /\ call.done
  BY DEF Return, ReturnSweep, ReturnStale, ReturnFailed, Leave, ReturnRecreate, ReturnStop,
         ReturnRestop, ReturnStart, ReturnHealth, Fresh, Returned
<1>2. call.op # "sweep" =>
        /\ n \in Names /\ pc = "reconcile" /\ n \notin gaveUp
        /\ track[n].phase # "fatal" /\ (~ touched => records[n] # None)
        /\ track[n] \in Tracking
  BY <1>0, <1>1, ReturnedFacts, TrackType
<1>3. CASE ReturnSweep
  <2>1. \A m \in Names : Steady(m)
    BY <1>3 DEF ReturnSweep, Returned, engineVars, memVars, passVars, histVars, Steady, Listed,
                Busy, Up
  <2>2. Replaces'
    BY <1>3 DEF ReturnSweep, Replaces
  <2> QED BY <2>1, <2>2, SteadyTally DEF TallyInv
<1>4. CASE ReturnStale \/ ReturnFailed
  <2>1. call.op # "sweep" /\ UNCHANGED <<ctr, view, records, track, tried, pc>>
        /\ call' = None /\ todo' = todo \ {n}
    BY <1>0, <1>4 DEF ReturnStale, ReturnFailed, Leave, Fresh, Returned, engineVars, memVars, Ops
  <2>2. \A m \in Names : Steady(m)
    BY <1>0, <1>2, <2>1 DEF Steady, Listed, Busy, Up
  <2> QED BY <2>1, <2>2, SteadyTally DEF TallyInv, Replaces
<1>6. CASE ReturnRecreate
  <2>1. /\ call.op = "recreate" /\ ~ touched /\ call.ok
        /\ UNCHANGED <<ctr, records, pc, todo>>
        /\ call' = None /\ view' = [view EXCEPT ![n] = None]
        /\ IF records[n].desired = "running" /\ ~ track[n].force
           THEN track' = [track EXCEPT ![n] = Forced] /\ tried' = [tried EXCEPT ![n] = 0]
           ELSE track' = track /\ tried' = tried
    BY <1>0, <1>6 DEF ReturnRecreate, Fresh, Returned, engineVars
  <2>2. ctr[n] = None
    BY <1>0, <1>1, <2>1 DEF FatalInv, Called
  <2>3. ASSUME NEW m \in Names, m # n PROVE Tally(m)'
    <3>1. Steady(m)
      BY <1>0, <2>1, <2>3 DEF Steady, Listed, Busy, Up, TypeOK
    <3> QED BY <3>1, SteadyTally DEF TallyInv
  <2>4. Tally(n)'
    <3>1. Seen(n)' /\ ctr'[n] = None /\ view'[n] = None /\ Up'
      BY <1>0, <1>2, <2>1, <2>2 DEF Seen, TypeOK, Up
    <3>2. Counts(track[n], tried[n], n)'
      <4>1. CASE records[n].desired = "running" /\ ~ track[n].force
        <5>1. track'[n] = Forced /\ tried'[n] = 0
          BY <1>2, <2>1, <4>1 DEF TypeOK
        <5>2. 0 <= StartRetries /\ 0 <= StartRetries + 1 /\ ~ (0 > 0)
          BY BoundsAssumption
        <5> QED BY <5>1, <5>2, BeginFields DEF Counts
      <4>2. CASE ~ (records[n].desired = "running" /\ ~ track[n].force)
        <5>1. records[n].desired = "running" => ~ (tried[n] > track[n].startAttempts)
          BY <1>2, <2>1, <4>2, TallyFacts, NoneTried
        <5> QED BY <1>2, <2>1, <4>2, <5>1, TallyFacts DEF Counts
      <4> QED BY <4>1, <4>2
    <3> QED BY <3>1, <3>2 DEF Tally
  <2> QED BY <2>1, <2>3, <2>4 DEF TallyInv, Replaces
<1>7. CASE ReturnStop
  <2>1. /\ call.op = "stop" /\ ~ touched /\ Settle(n, Stopped(n))
        /\ tried' = [tried EXCEPT ![n] = tried[n]]
    BY <1>0, <1>2, <1>7, TallyFacts DEF ReturnStop, Fresh, Returned
  <2>2. records[n].desired # "running"
    <3>1. call.record = records[n]
      BY <1>0, <1>1, <2>1 DEF Flight, InFlightCurrent
    <3> QED BY <1>0, <1>1, <2>1, <3>1 DEF Grounds
  <2>3. 0 <= StartRetries /\ tried[n] <= StartRetries + 1
    BY <1>2, <2>1, NoneTried, TallyFacts
  <2> QED BY <1>0, <1>2, <2>1, <2>2, <2>3, StoppedFields, SettleTally
<1>8. CASE ReturnRestop
  <2>1. /\ call.op = "restop" /\ ~ touched /\ call.ok
        /\ StartStep(n, [track[n] EXCEPT !.restart = FALSE])
        /\ tried' = [tried EXCEPT ![n] = 0]
    BY <1>0, <1>8 DEF ReturnRestop, Fresh, Returned
  <2>2. PICK t \in Tracking :
          /\ t = [track[n] EXCEPT !.restart = FALSE]
          /\ t.phase = track[n].phase /\ t.startAttempts = track[n].startAttempts
    <3>1. track[n] \in Tracking /\ [track[n] EXCEPT !.restart = FALSE] \in Tracking
      BY <1>0, <1>2, <2>1, WaitingType
    <3>2. /\ [track[n] EXCEPT !.restart = FALSE].phase = track[n].phase
          /\ [track[n] EXCEPT !.restart = FALSE].startAttempts = track[n].startAttempts
      BY <3>1 DEF Tracking
    <3> QED BY <3>1, <3>2
  <2>3. /\ t.startAttempts <= StartRetries /\ 0 <= t.startAttempts
        /\ t.phase \in {"", "stopped"} => t.startAttempts = 0
    BY <1>2, <2>1, <2>2, NoneTried, TallyFacts
  <2>4. Observed(n) => view[n].hash = Hash(Sp(n))
    BY <1>0, <1>1, <2>1 DEF Grounds, Kept, FatalInv, Called
  <2> QED BY <1>0, <1>2, <2>1, <2>2, <2>3, <2>4, StartStepTally
<1>9. CASE ReturnStart
  <2>1. /\ call.op \in {"start", "run"} /\ ~ touched
        /\ Settle(n, IF call.ok THEN [track[n] EXCEPT !.force = FALSE, !.phase = "starting"]
                     ELSE StartFailed(track[n]))
    BY <1>0, <1>9 DEF ReturnStart, Fresh, Returned
  <2>2. PICK k \in Nat :
          /\ tried' = [tried EXCEPT ![n] = k]
          /\ k = IF call.ok /\ ctr[n] # None /\ ctr[n].ran # "short" THEN 0 ELSE tried[n] + 1
    <3>1. tried[n] + 1 \in Nat
      <4>1. \A a \in Nat : a + 1 \in Nat
        OBVIOUS
      <4> QED BY <1>2, <2>1, <4>1, TallyFacts
    <3> QED BY <1>0, <1>9, <3>1 DEF ReturnStart
  <2>3. /\ tried[n] <= track[n].startAttempts /\ track[n].startAttempts <= StartRetries
    BY <1>0, <1>1, <1>2, <2>1, TallyFacts DEF TallyInv, Replaces
  <2>4. /\ k <= StartRetries + 1 /\ ~ (k > track[n].startAttempts + 1)
        /\ k > track[n].startAttempts => k = track[n].startAttempts + 1
    <3>1. PICK a \in Nat, b \in Nat : a = tried[n] /\ b = track[n].startAttempts
      BY <1>2, <2>1, TallyFacts
    <3>2. StartRetries \in Nat /\ a <= b /\ b <= StartRetries /\ (k = 0 \/ k = a + 1)
      BY <2>2, <2>3, <3>1, BoundsAssumption
    <3> QED BY <3>1, <3>2, StepWithin
  <2>5. CASE call.ok
    <3>1. PICK t \in Tracking :
            /\ t = [track[n] EXCEPT !.force = FALSE, !.phase = "starting"]
            /\ t.phase = "starting" /\ ~ t.force /\ t.startAttempts = track[n].startAttempts
      <4>1. track[n] \in Tracking
        BY <1>0, <1>2, <2>1, TallyFacts
      <4> QED BY <4>1, StartFields
    <3>2. RanFor(ctr[n], n)
      BY <1>0, <1>1, <2>1, <2>5 DEF TallyInv, Replaces
    <3>3. k > t.startAttempts => ctr[n].ran = "short"
      <4>1. ctr[n] # None
        BY <3>2 DEF RanFor
      <4>2. CASE ctr[n].ran # "short"
        <5>1. k = 0 /\ t.startAttempts \in Nat
          BY <1>2, <2>1, <2>2, <2>5, <3>1, <4>1, <4>2, TallyFacts
        <5> QED BY <5>1, NoneTried
      <4> QED BY <4>2
    <3> QED BY <1>0, <1>2, <2>1, <2>2, <2>3, <2>4, <2>5, <3>1, <3>2, <3>3, SettleTally
  <2>6. CASE ~ call.ok
    <3>1. PICK t \in Tracking :
            /\ t = StartFailed(track[n]) /\ ~ t.force
            /\ t.startAttempts = track[n].startAttempts + 1
            /\ t.phase \in {"fatal", "backoff"}
            /\ t.phase = "backoff" => ~ (track[n].startAttempts + 1 > StartRetries)
      BY <1>0, <1>2, <2>1, StartFailedFields
    <3>2. t.phase # "fatal" => t.startAttempts <= StartRetries
      <4>1. \A a, b \in Nat : ~ (a + 1 > b) => a + 1 <= b
        OBVIOUS
      <4> QED BY <1>2, <2>1, <3>1, <4>1, TallyFacts
    <3> QED BY <1>0, <1>2, <2>1, <2>2, <2>4, <2>6, <3>1, <3>2, SettleTally
  <2> QED BY <2>5, <2>6
<1>10. CASE ReturnHealth
  <2>1. call.op = "health" /\ ~ touched /\ tried' = tried
    BY <1>10 DEF ReturnHealth, Fresh, Returned
  <2>2. PICK t \in CappedChecked(n) : Settle(n, t)
    BY <1>0, <1>10 DEF ReturnHealth
  <2>3. t \in Tracking
    BY <1>0, <1>2, <2>1, CheckedType
  <2> QED BY <1>0, <1>2, <2>1, <2>2, <2>3, CheckedFields, KeepTally
<1> QED BY <1>3, <1>4, <1>6, <1>7, <1>8, <1>9, <1>10 DEF Return

-----------------------------------------------------------------------------
(* The engine.                                                             *)

(* A run that begins has an instant.                                       *)
LEMMA FreshRunSet ==
  ASSUME TypeOK, NEW n \in Names
  PROVE  FreshRun(n) \in Nat /\ FreshRun(n) # 0
<1> DEFINE cs   == {c.run : c \in {ctr[n], view[n]} \ {None}}
           ts   == {track[n].handledExit, track[n].healthRun}
           ks   == IF call # None /\ call.name = n
                   THEN {call.track.handledExit, call.track.healthRun} ELSE {}
           used == {0} \cup cs \cup ts \cup ks
           free == (0 .. 7) \ used
<1>1. used \subseteq {0, ctr[n].run, view[n].run, track[n].handledExit, track[n].healthRun,
                      call.track.handledExit, call.track.healthRun}
  OBVIOUS
<1>0. 0 \notin free
  OBVIOUS
<1> HIDE DEF used
<1>2. ASSUME NEW a, NEW b, NEW c, NEW d, NEW e, NEW f
      PROVE  \E i \in 0 .. 7 : i \notin {0, a, b, c, d, e, f}
  OBVIOUS
<1>6. \E i \in free : TRUE
  BY <1>1, <1>2
<1>3. \E i \in free : \A j \in free : i <= j
  BY <1>6
<1>4. First(free) \in free
  BY <1>3 DEF First
<1>5. FreshRun(n) = First(free)
  BY DEF FreshRun, used
<1> HIDE DEF free
<1> QED BY <1>0, <1>4, <1>5, FreshRunType

(* What a container keeps as it exits, and what one that is started has.   *)
LEMMA RunFields ==
  ASSUME NEW c \in Container, NEW r \in Nat
  PROVE  /\ \A b \in BOOLEAN : /\ Exited(c, b).run = c.run /\ Exited(c, b).boot = c.boot
                               /\ Exited(c, b).ran = c.ran /\ Exited(c, b).state = "exited"
         /\ Started(c, r).run = r /\ Started(c, r).boot /\ Started(c, r).ran = "short"
         /\ Started(c, r).state = "running"
BY DEF Exited, Started, Container, Ages

(* The engine keeps the tally.                                             *)
LEMMA EngineDoTally ==
  ASSUME TypeOK, Flight, FatalInv, Grounds, TallyInv, EngineDo
  PROVE  TallyInv'
<1>0. PICK n : n = call.name
  OBVIOUS
<1>1. PICK o \in Outcomes(call, Faulty) :
        /\ ctr' = [ctr EXCEPT ![n] = o.ctr]
        /\ call' = [call EXCEPT !.done = TRUE, !.ok = o.ok]
  BY <1>0 DEF EngineDo, Carry
<1>2. /\ call # None /\ call \in Call /\ ~ call.done /\ n \in Names
      /\ UNCHANGED <<records, track, pc, view, todo, touched, tried>>
  BY <1>0 DEF EngineDo, TypeOK, Call, memVars, passVars
<1>3. /\ call' # None /\ call'.op = call.op /\ call'.name = n /\ call'.done
      /\ call'.ok = o.ok /\ call'.record = call.record
  <2>1. call' \in Call
    BY <1>1, <1>2, OutcomesType DEF Call, Flight, CallsOfRecords
  <2> QED BY <1>0, <1>1, <1>2, <2>1, AbsentAssumption DEF Call
<1>4. ctr'[n] = o.ctr /\ \A m \in Names \ {n} : ctr'[m] = ctr[m]
  BY <1>1, <1>2 DEF TypeOK
<1>5. IF call.op = "sweep" THEN view[n] = None ELSE pc = "reconcile"
  BY <1>0, <1>2 DEF FatalInv, Called
<1>6. /\ ctr[n] # None => ctr[n] \in Container /\ ctr[n].ran # "long"
      /\ FreshRun(n) \in Nat /\ FreshRun(n) # 0
  BY <1>2, FreshRunSet DEF TypeOK, TallyInv, Tally
<1>7. ASSUME NEW m \in Names, m # n PROVE Tally(m)'
  <2>1. Steady(m)
    BY <1>0, <1>2, <1>3, <1>4, <1>7 DEF Steady, Listed, Busy, Up
  <2> QED BY <2>1, SteadyTally DEF TallyInv
<1>8. /\ \/ call.op \in {"start", "run", "sweep"}
         \/ call.op = "recreate" /\ records[n] # None /\ records[n].desired = "running"
         => tried[n] <= track[n].startAttempts /\ ~ (tried[n] > track[n].startAttempts)
      /\ call.op = "start" => Observed(n) /\ view[n].hash = Hash(call.record.spec)
  <2>1. \A a, b \in Nat : a <= b => ~ (a > b)
    OBVIOUS
  <2> QED BY <1>0, <1>2, <2>1, TallyFacts DEF TallyInv, Replaces
<1>9. o.ctr # None => o.ctr.ran # "long"
  <2>1. \A state, r : NewContainer(call.record.spec, state, r).ran = "short"
    BY DEF NewContainer
  <2>2. CASE call.op \in {"sweep", "recreate", "stop", "restop", "health"}
    <3>1. \/ o.ctr = None \/ o.ctr = ctr[n]
          \/ Running(ctr[n]) /\ \E b \in BOOLEAN : o.ctr = Exited(ctr[n], b)
      BY <1>0, <1>2, <2>2, Leaves
    <3> QED BY <1>6, <3>1, RunFields DEF Running
  <2>3. CASE call.op = "start"
    <3>1. o.ctr = ctr[n] \/ (ctr[n] # None /\ o.ctr = Started(ctr[n], FreshRun(n)))
      BY <1>0, <1>2, <2>3, Leaves
    <3> QED BY <1>6, <3>1, RunFields
  <2>4. CASE call.op = "run"
    <3>1. \/ o.ctr = None \/ o.ctr = ctr[n]
          \/ \E state, r : o.ctr = NewContainer(call.record.spec, state, r)
      BY <1>0, <1>2, <2>4, Leaves
    <3> QED BY <1>6, <2>1, <3>1
  <2> QED BY <1>2, <2>2, <2>3, <2>4 DEF Call, Ops
<1>10. Counts(track[n], tried[n], n)'
  <2>1. Counts(track[n], tried[n], n)
    BY <1>2, TallyFacts
  <2>2. CASE call.op \in {"stop", "restop", "health"}
    <3>1. o.ctr = ctr[n] \/ (Running(ctr[n]) /\ \E b \in BOOLEAN : o.ctr = Exited(ctr[n], b))
      BY <1>0, <1>2, <2>2, Leaves
    <3>2. Uncounted(track[n], n) => Uncounted(track[n], n)'
      <4>1. CASE o.ctr = ctr[n]
        BY <1>2, <1>4, <4>1 DEF Uncounted, RanFor, Sp, Listed
      <4>2. CASE Running(ctr[n]) /\ \E b \in BOOLEAN : o.ctr = Exited(ctr[n], b)
        <5>1. ctr[n] # None /\ ctr[n].state # "exited" /\ ctr[n] \in Container
          BY <1>6, <4>2 DEF Running
        <5>2. /\ o.ctr # None /\ o.ctr.managed = ctr[n].managed /\ o.ctr.hash = ctr[n].hash
              /\ o.ctr.state = "exited" /\ o.ctr.run = ctr[n].run /\ o.ctr.boot = ctr[n].boot
              /\ o.ctr.ran = ctr[n].ran
          BY <1>6, <4>2, <5>1, SameContainer, RunFields, AbsentAssumption
        <5> QED BY <1>2, <1>4, <5>1, <5>2 DEF Uncounted, RanFor, Sp
      <4> QED BY <3>1, <4>1, <4>2
    <3> QED BY <1>2, <2>1, <3>2 DEF Counts
  <2>3. CASE call.op \notin {"stop", "restop", "health"}
    <3>1. records[n] # None /\ records[n].desired = "running" =>
            ~ (tried[n] > track[n].startAttempts)
      BY <1>2, <1>8, <2>3 DEF Call, Ops
    <3> QED BY <1>2, <2>1, <3>1 DEF Counts
  <2> QED BY <2>2, <2>3
<1>11. Tally(n)'
  <2>1. CASE call.op = "sweep"
    BY <1>2, <1>4, <1>5, <1>8, <1>9, <1>10, <2>1 DEF TallyInv, Tally, Up
  <2>2. CASE call.op # "sweep"
    BY <1>2, <1>3, <1>4, <1>5, <1>9, <1>10, <2>2 DEF TallyInv, Tally, Busy, Up
  <2> QED BY <2>1, <2>2
<1>12. ASSUME call.op \in {"start", "run"}, o.ok, ~ touched
       PROVE  RanFor(o.ctr, n)
  <2>1. call.record = records[n]
    BY <1>0, <1>2, <1>12 DEF Flight, InFlightCurrent
  <2>2. CASE call.op = "start"
    <3>1. Kept(n) /\ ~ Running(ctr[n]) /\ view[n].hash = Hash(Sp(n))
      BY <1>0, <1>2, <1>8, <2>1, <2>2 DEF Grounds, Sp
    <3>2. ctr[n] # None /\ o.ctr = Started(ctr[n], FreshRun(n))
      BY <1>0, <1>2, <1>12, <2>2, <3>1, Leaves
    <3>3. Started(ctr[n], FreshRun(n)) \in Container
      BY <1>6, <3>2, SameContainer
    <3>4. o.ctr # None
      BY <3>2, <3>3, AbsentAssumption
    <3> QED BY <1>6, <3>1, <3>2, <3>4, SameContainer, RunFields DEF RanFor, Kept
  <2>3. CASE call.op = "run"
    <3>1. o.ctr = NewContainer(Sp(n), "running", FreshRun(n))
      BY <1>0, <1>2, <1>12, <2>1, <2>3, Leaves DEF Sp
    <3>2. o.ctr # None
      <4>1. NewContainer(Sp(n), "running", FreshRun(n)) \in Container
        <5>1. Hash(Sp(n)) \in Hashes
          BY <1>2, <2>1, <2>3, HashType DEF Flight, CallsOfRecords, Call, Record, Sp
        <5> QED BY <1>6, <5>1 DEF NewContainer, Container, Ages
      <4> QED BY <3>1, <4>1, AbsentAssumption
    <3>3. o.ctr.boot = (FreshRun(n) # 0) /\ o.ctr.managed = TRUE
      <4>1. ASSUME NEW sp, NEW state, NEW r
            PROVE  /\ NewContainer(sp, state, r).boot = (r # 0)
                   /\ NewContainer(sp, state, r).managed = TRUE
        BY Zenon DEF NewContainer
      <4>2. /\ NewContainer(Sp(n), "running", FreshRun(n)).boot = (FreshRun(n) # 0)
            /\ NewContainer(Sp(n), "running", FreshRun(n)).managed = TRUE
        BY <4>1
      <4> QED BY <3>1, <4>2, Zenon
    <3>4. o.ctr.hash = Hash(Sp(n)) /\ o.ctr.state = "running" /\ o.ctr.run = FreshRun(n)
      BY <3>1 DEF NewContainer
    <3> QED BY <1>6, <3>2, <3>3, <3>4 DEF RanFor
  <2> QED BY <1>12, <2>2, <2>3
<1>13. Replaces'
  <2>1. RanFor(o.ctr, n) => RanFor(ctr[n], n)'
    BY <1>2, <1>4 DEF RanFor, Sp
  <2> QED BY <1>2, <1>3, <1>8, <1>12, <2>1 DEF Replaces
<1> QED BY <1>7, <1>11, <1>13 DEF TallyInv

(* Every step of a pass keeps the tally.                                   *)
LEMMA PassTally ==
  ASSUME TypeOK, Flight, FatalInv, Grounds, TallyInv, Pass
  PROVE  TallyInv'
<1>1. pc \notin {"sweep", "reconcile"} => call = None
  BY DEF FatalInv, Called
<1>2. CASE List
  <2>1. /\ UNCHANGED <<ctr, records, track, tried, todo, call>> /\ view' = ctr
        /\ call = None /\ pc = "idle" /\ pc' = "listed"
    BY <1>1, <1>2 DEF List, engineVars, memVars, callVars, histVars
  <2>2. ASSUME NEW n \in Names PROVE Tally(n)'
    <3>1. Uncounted(track[n], n) => Uncounted(track[n], n)'
      BY <2>1 DEF Uncounted, RanFor, Sp
    <3>2. Counts(track[n], tried[n], n)'
      BY <2>1, <3>1 DEF TallyInv, Tally, Counts
    <3> QED BY <2>1, <3>2 DEF TallyInv, Tally, Seen, Up
  <2> QED BY <2>1, <2>2 DEF TallyInv, Replaces
<1>3. CASE BeginPass \/ EndSweep \/ Skip \/ RemoveNetworks \/ EndReconcile
  <2>1. /\ UNCHANGED <<ctr, records, track, tried>>
        /\ call = None /\ call' = None /\ Up /\ Up'
    BY <1>1, <1>3 DEF BeginPass, EndSweep, Skip, RemoveNetworks, EndReconcile, engineVars, memVars,
                      callVars, histVars, Up
  <2>2. ASSUME NEW n \in Names
        PROVE  /\ Listed(n)' => Listed(n) /\ view'[n] = view[n]
               /\ view'[n] \in {view[n], None}
    BY <1>3 DEF BeginPass, EndSweep, Skip, RemoveNetworks, EndReconcile, Listed, Empty
  <2>3. \A n \in Names : Steady(n)
    BY <2>1, <2>2 DEF Steady, Busy
  <2> QED BY <2>1, <2>3, SteadyTally DEF TallyInv, Replaces
<1>4. ASSUME NEW n \in Names, Sweep(n) PROVE TallyInv'
  <2>1. /\ UNCHANGED <<ctr, records, track, tried, pc, todo>>
        /\ pc = "sweep" /\ call = None /\ records[n] = None
        /\ view' = [view EXCEPT ![n] = None]
    BY <1>4 DEF Sweep, Undeclared, engineVars, memVars, histVars
  <2>2. call'.op = "sweep" /\ call'.name = n /\ ~ touched'
    BY <1>4 DEF Sweep, NewCall
  <2>3. ASSUME NEW m \in Names, m # n PROVE Tally(m)'
    <3>1. Steady(m)
      BY <2>1, <2>2, <2>3 DEF Steady, Listed, Busy, Up, TypeOK
    <3> QED BY <3>1, SteadyTally DEF TallyInv
  <2>4. tried[n] = 0 /\ tried[n] <= track[n].startAttempts
    BY <2>1, TallyFacts, NoneTried DEF Counts
  <2>5. Tally(n)'
    <3>1. view'[n] = None
      BY <2>1 DEF TypeOK
    <3> QED BY <2>1, <2>4, <3>1 DEF TallyInv, Tally, Counts, Up
  <2>6. Replaces'
    BY <2>1, <2>2, <2>4 DEF Replaces
  <2> QED BY <2>3, <2>5, <2>6 DEF TallyInv
<1>5. ASSUME NEW n \in Names, Reconcile(n) PROVE TallyInv'
  BY <1>5, ReconcileTally
<1> QED BY <1>2, <1>3, <1>4, <1>5, EngineDoTally, ReturnTally DEF Pass

-----------------------------------------------------------------------------
(* The API, and what happens to containers.                                *)

(* A name whose starts are counted from none again.                        *)
LEMMA ResetTally ==
  ASSUME TypeOK, TallyInv, NEW n \in Names, UNCHANGED <<ctr, view, pc, todo, call>>, Up,
         tried'[n] = 0, track'[n].startAttempts \in Nat,
         track'[n].phase # "fatal" => track'[n].startAttempts <= StartRetries,
         track'[n].phase \in {"", "stopped"} => track'[n].startAttempts = 0
  PROVE  Tally(n)'
<1>1. /\ 0 <= StartRetries + 1 /\ ~ (0 > track'[n].startAttempts) /\ 0 <= track'[n].startAttempts
  <2>1. StartRetries \in Nat
    BY BoundsAssumption
  <2> QED BY <2>1, NoneTried
<1>2. Counts(track[n], tried[n], n)'
  BY <1>1 DEF Counts
<1> QED BY <1>1, <1>2 DEF TallyInv, Tally, Listed, Busy, Seen, Up

(* An API call that touches the names S.                                   *)
LEMMA TouchTally ==
  ASSUME TypeOK, TallyInv, Up, UNCHANGED <<ctr, view, pc, todo, call>>,
         NEW S \in SUBSET Names, Touch(S),
         \A m \in Names \ S :
           /\ records'[m] = records[m] /\ tried'[m] = tried[m]
           /\ track'[m].phase = track[m].phase /\ track'[m].force = track[m].force
           /\ track'[m].startAttempts = track[m].startAttempts
           /\ track'[m].handledExit = track[m].handledExit,
         \A m \in S :
           /\ Tally(m)'
           /\ \/ tried'[m] = 0 /\ track'[m].startAttempts \in Nat
              \/ /\ tried'[m] = tried[m] /\ track'[m].startAttempts = track[m].startAttempts
                 /\ \/ records'[m] = records[m]
                    \/ records'[m] # None /\ records'[m].desired # "running"
  PROVE  TallyInv'
<1>1. ASSUME NEW m \in Names \ S PROVE Tally(m)'
  <2>1. Steady(m)
    BY DEF Steady, Listed, Busy, Up
  <2> QED BY <2>1, SteadyTally DEF TallyInv
<1>2. Replaces'
  <2> SUFFICES ASSUME call # None PROVE Replaces'
    BY DEF Replaces
  <2>0. PICK n \in Names : n = call.name
    BY DEF TypeOK, Call
  <2>1. CASE n \in S
    <3>1. touched'
      BY <2>0, <2>1 DEF Touch
    <3>2. CASE tried'[n] = 0 /\ track'[n].startAttempts \in Nat
      <4>1. tried'[n] <= track'[n].startAttempts
        BY <3>2, NoneTried
      <4> QED BY <2>0, <3>1, <4>1 DEF TallyInv, Replaces, Observed
    <3>3. CASE ~ (tried'[n] = 0 /\ track'[n].startAttempts \in Nat)
      BY <2>0, <2>1, <3>1, <3>3 DEF TallyInv, Replaces, Observed
    <3> QED BY <3>2, <3>3
  <2>2. CASE n \notin S
    <3>1. /\ touched' = touched /\ records'[n] = records[n] /\ tried'[n] = tried[n]
          /\ track'[n].startAttempts = track[n].startAttempts
      BY <2>0, <2>2 DEF Touch, TypeOK
    <3>2. RanFor(ctr[n], n) => RanFor(ctr[n], n)'
      BY <3>1 DEF RanFor, Sp
    <3> QED BY <2>0, <3>1, <3>2 DEF TallyInv, Replaces, Observed
  <2> QED BY <2>1, <2>2
<1> QED BY <1>1, <1>2 DEF TallyInv

(* Store calls of a declaration count its names from none again.           *)
LEMMA CommitTally ==
  ASSUME TypeOK, TallyInv, Up, NEW F \in SUBSET Files, NEW D, Commit(F, D)
  PROVE  TallyInv'
<1>1. /\ UNCHANGED <<ctr, view, pc, todo, call>> /\ Touch(TouchedBy(D))
      /\ TouchedBy(D) \subseteq Names
      /\ records' = RecordsAfter(records, F, D) /\ track' = TrackAfter(D)
      /\ tried' = [n \in Names |-> IF n \in TouchedBy(D) THEN 0 ELSE tried[n]]
  BY DEF Commit, engineVars, passVars, TouchedBy
<1>2. \A m \in Names \ TouchedBy(D) :
        records'[m] = records[m] /\ track'[m] = track[m] /\ tried'[m] = tried[m]
  BY <1>1 DEF RecordsAfter, TrackAfter, TouchedBy
<1>3. ASSUME NEW m \in TouchedBy(D)
      PROVE  Tally(m)' /\ tried'[m] = 0 /\ track'[m].startAttempts \in Nat
  <2>1. m \in Names /\ tried'[m] = 0
    BY <1>1
  <2>2. \/ track'[m] = ZeroTracking
        \/ track'[m] = Forced
        \/ track'[m] = track[m]
    BY <1>1, <2>1, Zenon DEF TrackAfter
  <2>3. /\ track'[m].startAttempts \in Nat
        /\ track'[m].phase # "fatal" => track'[m].startAttempts <= StartRetries
        /\ track'[m].phase \in {"", "stopped"} => track'[m].startAttempts = 0
    <3>1. 0 \in Nat /\ 0 <= StartRetries
      BY BoundsAssumption
    <3>2. CASE track'[m] = track[m]
      BY <2>1, <3>2, TallyFacts
    <3>3. CASE track'[m] = ZeroTracking \/ track'[m] = Forced
      BY <3>1, <3>3, BeginFields
    <3> QED BY <2>2, <3>2, <3>3
  <2> QED BY <1>1, <2>1, <2>3, ResetTally
<1> QED BY <1>1, <1>2, <1>3, TouchTally

(* Asking for a run state counts from none, or asks for none.              *)
LEMMA DesiredTally ==
  ASSUME TypeOK, TallyInv, NEW n \in Names, NEW desired \in {"running", "stopped"}, NEW more,
         SetDesired(n, desired, more)
  PROVE  TallyInv'
<1>1. /\ UNCHANGED <<ctr, view, pc, todo, call>> /\ Touch({n}) /\ Up
      /\ records[n] # None /\ records' = [records EXCEPT ![n] = [@ EXCEPT !.desired = desired]]
      /\ IF desired = "running"
         THEN track' = [track EXCEPT ![n] = Forced] /\ tried' = [tried EXCEPT ![n] = 0]
         ELSE track' = track /\ tried' = tried
  BY DEF SetDesired, MuFree, engineVars, passVars
<1>2. \A m \in Names \ {n} : /\ records'[m] = records[m] /\ track'[m] = track[m]
                             /\ tried'[m] = tried[m]
  BY <1>1 DEF TypeOK
<1>3. records'[n] # None /\ records'[n].desired = desired
  <2>1. records[n] \in Record /\ records'[n] = [records[n] EXCEPT !.desired = desired]
    BY <1>1 DEF TypeOK
  <2>2. records'[n] \in Record
    BY <2>1 DEF Record
  <2> QED BY <2>1, <2>2, NoneAssumption DEF Record
<1>4. CASE desired = "running"
  <2>1. track'[n] = Forced /\ tried'[n] = 0
    BY <1>1, <1>4 DEF TypeOK
  <2>2. Forced.startAttempts \in Nat /\ Forced.startAttempts <= StartRetries
    <3>1. 0 \in Nat /\ 0 <= StartRetries
      BY BoundsAssumption
    <3> QED BY <3>1, BeginFields
  <2>3. Tally(n)'
    BY <1>1, <2>1, <2>2, BeginFields, ResetTally
  <2> QED BY <1>1, <1>2, <2>1, <2>2, <2>3, TouchTally
<1>5. CASE desired = "stopped"
  <2>1. track' = track /\ tried' = tried
    BY <1>1, <1>5
  <2>2. Counts(track[n], tried[n], n)'
    BY <1>3, <1>5, <2>1, TallyFacts DEF Counts
  <2>3. Tally(n)'
    BY <1>1, <2>1, <2>2 DEF TallyInv, Tally, Listed, Busy, Seen, Up
  <2> QED BY <1>1, <1>2, <1>3, <1>5, <2>1, <2>3, TouchTally
<1> QED BY <1>4, <1>5

(* A change of other fields of a name's tracking.                          *)
LEMMA OtherTallied ==
  ASSUME NEW n \in Names, track \in [Names -> Tracking],
         \/ track' = [track EXCEPT ![n].restart = TRUE]
         \/ track' = [track EXCEPT ![n].due = TRUE]
         \/ track' = [track EXCEPT ![n].check = "due"]
  PROVE  \A m \in Names : /\ track'[m].phase = track[m].phase /\ track'[m].force = track[m].force
                          /\ track'[m].startAttempts = track[m].startAttempts
                          /\ track'[m].handledExit = track[m].handledExit
<1>1. \A m \in Names : track'[m].handledExit = track[m].handledExit
  <2> TAKE m \in Names
  <2>1. CASE m # n
    BY <2>1
  <2>2. CASE m = n
    <3>1. track[n] \in Tracking
      OBVIOUS
    <3>2. PICK t : /\ t = track'[n]
                   /\ \/ t = [track[n] EXCEPT !.restart = TRUE]
                      \/ t = [track[n] EXCEPT !.due = TRUE]
                      \/ t = [track[n] EXCEPT !.check = "due"]
      OBVIOUS
    <3>3. t.handledExit = track[n].handledExit
      BY <3>1, <3>2 DEF Tracking
    <3> QED BY <2>2, <3>2, <3>3
  <2> QED BY <2>1, <2>2
<1> QED BY <1>1, OtherFields

(* A step that leaves alone what the tally is about.                       *)
LEMMA QuietTally ==
  ASSUME TypeOK, TallyInv, UNCHANGED <<ctr, view, pc, todo, call, touched, records, tried>>,
         \A m \in Names :
           /\ track'[m].phase = track[m].phase /\ track'[m].force = track[m].force
           /\ track'[m].startAttempts = track[m].startAttempts
           /\ track'[m].handledExit = track[m].handledExit
  PROVE  TallyInv'
<1>1. \A m \in Names : Steady(m)
  BY DEF Steady, Listed, Busy, Up
<1>2. Replaces'
  <2> SUFFICES ASSUME call # None PROVE Replaces'
    BY DEF Replaces
  <2>1. PICK n \in Names : n = call.name
    BY DEF TypeOK, Call
  <2>2. RanFor(ctr[n], n) => RanFor(ctr[n], n)'
    BY DEF RanFor, Sp
  <2> QED BY <2>1, <2>2 DEF TallyInv, Replaces, Observed
<1> QED BY <1>1, <1>2, SteadyTally DEF TallyInv

(* Every API call keeps the tally.                                         *)
LEMMA ApiTally ==
  ASSUME TypeOK, TallyInv, Api
  PROVE  TallyInv'
<1>1. ASSUME NEW n \in Names, Start(n) \/ Stop(n) \/ Restart(n) PROVE TallyInv'
  BY <1>1, DesiredTally DEF Start, Stop, Restart
<1>2. ASSUME NEW req, NEW S, Request(req, S) PROVE TallyInv'
  BY <1>2, QuietTally DEF Request, engineVars, memVars, passVars, callVars, histVars
<1>3. ASSUME NEW n \in Names, FinishRestart(n) PROVE TallyInv'
  <2>1. \A m \in Names : /\ track'[m].phase = track[m].phase /\ track'[m].force = track[m].force
                         /\ track'[m].startAttempts = track[m].startAttempts
                         /\ track'[m].handledExit = track[m].handledExit
    BY <1>3, OtherTallied DEF FinishRestart, TypeOK
  <2>2. /\ UNCHANGED <<ctr, view, pc, todo, call, records, tried>> /\ Up /\ Touch({n})
    BY <1>3 DEF FinishRestart, MuFree, engineVars, passVars, histVars
  <2>3. Tally(n)'
    <3>1. Steady(n)
      BY <2>1, <2>2 DEF Steady, Listed, Busy, Up
    <3> QED BY <3>1, SteadyTally DEF TallyInv
  <2> QED BY <2>1, <2>2, <2>3, TouchTally
<1>4. ASSUME NEW F \in SUBSET Files, NEW steps, Carried(F, steps), Up PROVE TallyInv'
  <2>1. PICK D : Commit(F, D)
    BY <1>4, CarriedSteps DEF Done
  <2> QED BY <1>4, <2>1, CommitTally
<1>5. ASSUME NEW f \in Files, FinishPut(f) PROVE TallyInv'
  <2>1. CASE Conflict(f)
    BY <1>5, <2>1, QuietTally
    DEF FinishPut, engineVars, memVars, passVars, callVars, histVars
  <2>2. CASE ~ Conflict(f)
    BY <1>4, <1>5, <2>2 DEF FinishPut, MuFree
  <2> QED BY <2>1, <2>2
<1>6. ASSUME NEW F \in SUBSET Files, FinishSet(F) PROVE TallyInv'
  BY <1>4, <1>6 DEF FinishSet, MuFree
<1>7. ASSUME NEW p \in Projects, DeleteProject(p) PROVE TallyInv'
  <2>1. PICK D : Commit({}, D)
    BY <1>7, CarriedSteps DEF DeleteProject, Done
  <2> QED BY <1>7, <2>1, CommitTally DEF DeleteProject, MuFree
<1>8. CASE FinishRequest
  BY <1>3, <1>5, <1>6, <1>8 DEF FinishRequest
<1>9. ASSUME NEW n \in Names, NEW desired, SetDesiredFails(n, desired) PROVE TallyInv'
  BY <1>9, QuietTally DEF SetDesiredFails, engineVars, memVars, passVars, callVars
<1> QED BY <1>1, <1>2, <1>7, <1>8, <1>9 DEF Api, PutProject, PutProjects

(* A run that ends, or is confirmed, keeps the tally.                      *)
LEMMA EnvironmentTally ==
  ASSUME TypeOK, NoDisturbance, TallyInv, ~ LongRuns, Environment
  PROVE  TallyInv'
<1> PICK n \in Names :
      \/ ContainerExits(n) \/ RunConfirmed(n) \/ RunIsLong(n)
      \/ GapEnds(n) \/ CheckComesDue(n)
      \/ HandRun(n) \/ HandStart(n) \/ HandRemove(n)
  BY DEF Environment
<1>1. ~ (HandRun(n) \/ HandStart(n) \/ HandRemove(n) \/ RunIsLong(n))
  BY DEF HandRun, HandStart, HandRemove, ByHand, Spend, NoDisturbance, RunIsLong
<1>2. CASE ContainerExits(n) \/ RunConfirmed(n)
  <2>1. /\ Running(ctr[n]) /\ ctr[n] # None /\ ctr[n] \in Container
        /\ UNCHANGED <<records, track, view, pc, todo, call, touched>>
    BY <1>2 DEF ContainerExits, RunConfirmed, memVars, passVars, callVars, TypeOK, Running
  <2>2. PICK c : /\ ctr' = [ctr EXCEPT ![n] = c]
                 /\ \/ tried' = tried /\ \E failed \in BOOLEAN : c = Exited(ctr[n], failed)
                    \/ /\ c = [ctr[n] EXCEPT !.ran = "ok"]
                       /\ tried' = [tried EXCEPT ![n] = 0]
    BY <1>2 DEF ContainerExits, RunConfirmed, histVars
  <2>3. /\ c \in Container /\ c.managed = ctr[n].managed /\ c.hash = ctr[n].hash
        /\ c.run = ctr[n].run /\ c.boot = ctr[n].boot /\ c.state # "created"
        /\ c.ran = ctr[n].ran \/ (c.ran = "ok" /\ tried'[n] = 0)
    <3>1. CASE \E failed \in BOOLEAN : c = Exited(ctr[n], failed)
      BY <2>1, <3>1, SameContainer, RunFields
    <3>2. CASE c = [ctr[n] EXCEPT !.ran = "ok"] /\ tried' = [tried EXCEPT ![n] = 0]
      <4>1. tried'[n] = 0
        BY <3>2 DEF TypeOK
      <4> QED BY <2>1, <3>2, <4>1 DEF Container, Ages, Running
    <3> QED BY <2>2, <3>1, <3>2
  <2>4. /\ ctr'[n] = c /\ c # None /\ tried'[n] \in {tried[n], 0}
        /\ \A m \in Names \ {n} : ctr'[m] = ctr[m] /\ tried'[m] = tried[m]
    BY <2>2, <2>3, AbsentAssumption DEF TypeOK
  <2>5. ASSUME NEW m \in Names, m # n PROVE Tally(m)'
    <3>1. Steady(m)
      BY <2>1, <2>4, <2>5 DEF Steady, Listed, Busy, Up
    <3> QED BY <3>1, SteadyTally DEF TallyInv
  <2>6. \A m \in Names : RanFor(ctr[m], m) => RanFor(ctr[m], m)'
    BY <2>1, <2>3, <2>4 DEF RanFor, Sp
  <2>7. Tally(n)'
    <3>1. Seen(n) => Seen(n)'
      BY <2>1, <2>4 DEF Seen
    <3>2. tried'[n] # 0 /\ Uncounted(track[n], n) => Uncounted(track[n], n)'
      BY <2>1, <2>3, <2>4, <2>6 DEF Uncounted, Running
    <3>3. CASE tried'[n] = 0
      <4>1. /\ 0 <= StartRetries + 1 /\ ~ (0 > track[n].startAttempts)
            /\ 0 <= track[n].startAttempts
        BY TallyFacts, NoneTried
      <4>2. Counts(track[n], tried[n], n)'
        BY <2>1, <3>3, <4>1, TallyFacts DEF Counts
      <4> QED BY <2>1, <2>3, <2>4, <3>1, <3>3, <4>1, <4>2 DEF TallyInv, Tally, Listed, Busy, Up
    <3>4. CASE tried'[n] # 0
      <4>1. tried'[n] = tried[n]
        BY <2>4, <3>4
      <4>2. Counts(track[n], tried[n], n)'
        BY <2>1, <3>2, <3>4, <4>1, TallyFacts DEF Counts
      <4> QED BY <2>1, <2>3, <2>4, <3>1, <3>4, <4>1, <4>2 DEF TallyInv, Tally, Listed, Busy, Up
    <3> QED BY <3>3, <3>4
  <2>8. Replaces'
    <3> SUFFICES ASSUME call # None PROVE Replaces'
      BY <2>1 DEF Replaces
    <3>1. PICK m \in Names : m = call.name
      BY DEF TypeOK, Call
    <3>2. tried[m] <= track[m].startAttempts => tried'[m] <= track[m].startAttempts
      <4>1. tried'[m] \in {tried[m], 0}
        BY <2>4
      <4>2. 0 <= track[m].startAttempts
        BY TallyFacts, NoneTried
      <4> QED BY <4>1, <4>2
    <3> QED BY <2>1, <2>6, <3>1, <3>2 DEF TallyInv, Replaces, Observed
  <2> QED BY <2>5, <2>7, <2>8 DEF TallyInv
<1>3. CASE GapEnds(n) \/ CheckComesDue(n)
  <2>1. \A m \in Names : /\ track'[m].phase = track[m].phase /\ track'[m].force = track[m].force
                         /\ track'[m].startAttempts = track[m].startAttempts
                         /\ track'[m].handledExit = track[m].handledExit
    BY <1>3, OtherTallied DEF GapEnds, CheckComesDue, TypeOK
  <2> QED BY <1>3, <2>1, QuietTally
          DEF GapEnds, CheckComesDue, engineVars, passVars, callVars, histVars
<1> QED BY <1>1, <1>2, <1>3

-----------------------------------------------------------------------------
(* The theorem.                                                            *)

(* A machine that has just booted has started nothing.                     *)
LEMMA InitTally == Init => TallyInv
<1> SUFFICES ASSUME Init PROVE TallyInv
  OBVIOUS
<1>1. 0 <= StartRetries /\ 0 <= StartRetries + 1
  BY BoundsAssumption
<1>2. \A n \in Names : /\ track[n].startAttempts = 0 /\ tried[n] = 0 /\ ~ Listed(n)
                       /\ records[n] = None /\ ctr[n] = None /\ view[n] = None
  BY ZeroFields DEF Init, Listed, Empty
<1> QED BY <1>1, <1>2 DEF Init, TallyInv, Tally, Counts, Replaces

(* Every step keeps the tally.                                             *)
LEMMA NextTally ==
  ~ LongRuns /\ TypeOK /\ Flight /\ FatalInv /\ Grounds /\ TallyInv /\ [Next]_vars => TallyInv'
<1> SUFFICES ASSUME ~ LongRuns, TypeOK, Flight, FatalInv, Grounds, TallyInv, [Next]_vars
             PROVE  TallyInv'
  OBVIOUS
<1>1. NoDisturbance /\ ~ Failure
  BY NoFailure DEF FatalInv
<1>2. CASE StartDaemon
  <2>1. /\ UNCHANGED <<ctr, view, track, tried, todo, call>>
        /\ pc = "down" /\ pc' = "idle" /\ ~ Up /\ Up'
    BY <1>2 DEF StartDaemon, engineVars, callVars, histVars, Up
  <2>2. call = None /\ todo = {}
    BY <1>1, <2>1 DEF FatalInv, Called, NoDisturbance
  <2>3. ASSUME NEW n \in Names PROVE Tally(n)'
    <3>1. tried[n] = 0 /\ ~ (0 > track[n].startAttempts)
      BY <2>1, TallyFacts, NoneTried DEF Tally
    <3>2. Counts(track[n], tried[n], n)'
      BY <2>1, <3>1, TallyFacts DEF Counts
    <3> QED BY <2>1, <2>2, <3>1, <3>2 DEF TallyInv, Tally, Listed
  <2> QED BY <2>1, <2>2, <2>3 DEF TallyInv, Replaces
<1>3. CASE UNCHANGED vars
  BY <1>3, QuietTally DEF vars
<1> QED BY <1>1, <1>2, <1>3, PassTally, ApiTally, EnvironmentTally DEF Next

(* However starts fail, refused by the engine or a run that ends early,    *)
(* and however exits, API calls and a call in flight interleave, a         *)
(* container is started at most once and StartRetries times again before   *)
(* it reaches running, as long as the daemon does not crash, nobody runs   *)
(* or removes containers by hand, and no run passes BackoffMaxSeconds.     *)
THEOREM TriesKept ==
  ASSUME Crashes = 0, Hands = 0, LongRuns = FALSE
  PROVE  Spec => []TriesBounded
<1>1. Init => FatalInv /\ Labelled /\ Grounds /\ TallyInv
  <2>1. Init => Labelled /\ Grounds
    BY DEF Init, Empty, Labelled, Grounds
  <2> QED BY <2>1, InitFatal, InitTally
<1>2. Inv => TypeOK /\ Flight
  BY DEF Inv
<1>3. TallyInv => TriesBounded
  BY DEF TallyInv, Tally, Counts, TriesBounded
<1>4. TypeOK /\ Flight /\ FatalInv /\ Grounds /\ TallyInv /\ [Next]_vars => TallyInv'
  BY NextTally
<1> QED
  BY <1>1, <1>2, <1>3, <1>4, InitInv, NextInv, NextFatal, NextGrounds, PTL DEF Spec
=============================================================================
