--------------------------- MODULE CustodyProofs ----------------------------
(***************************************************************************)
(* The proof that the supervisor keeps containers as Custody promises: by  *)
(* orders that follow from what is declared of them, as long as the daemon *)
(* does not crash and nobody starts or removes containers by hand; engine  *)
(* and store calls may fail.                                               *)
(***************************************************************************)
EXTENDS UndisturbedProofs

-----------------------------------------------------------------------------
(* Containers in custody: the invariant.                                   *)

(* Every container is the daemon's own, a listing just made misses none,   *)
(* and a call of reconcile but run is about a container that was listed,   *)
(* one to be started as it was declared.                                   *)
CustodyInv ==
  /\ \A n \in Names : ctr[n] # None => ctr[n].managed
  /\ pc = "listed" => \A n \in Names : view[n] = None => ctr[n] = None
  /\ call # None =>
       LET n == call.name IN
       /\ call.op \notin {"sweep", "run"} => Observed(n)
       /\ call.op \in {"restop", "start"} => view[n].hash = Hash(call.record.spec)
       /\ call.op = "restop" => call.record.desired = "running"
       /\ call.op = "stop" /\ call.done /\ call.ok => ~ Running(ctr[n])

(* A call that is issued is about what the listing shows.                  *)
LEMMA IssueCustody ==
  ASSUME TypeOK, CustodyInv, NEW n \in Names, NEW op \in Ops \ {"sweep"}, NEW t, Issue(op, n, t),
         pc = "reconcile",
         op # "run" => Observed(n),
         op \in {"restop", "start"} => ~ Stale(n),
         op = "restop" => records[n].desired = "running"
  PROVE  CustodyInv'
<1>1. /\ call'.op = op /\ call'.name = n /\ ~ call'.done /\ call'.record = records[n]
      /\ ctr' = ctr /\ view' = view /\ pc' = pc
  BY DEF Issue, NewCall, engineVars, passVars
<1> QED BY <1>1 DEF CustodyInv, Observed, Stale, Sp

(* A reconcile that ends leaves no call.                                   *)
LEMMA SettleCustody ==
  ASSUME CustodyInv, NEW n, NEW t, Settle(n, t), pc = "reconcile"
  PROVE  CustodyInv'
<1>1. call' = None /\ ctr' = ctr /\ view' = view /\ pc' = pc
  BY DEF Settle, engineVars
<1> QED BY <1>1 DEF CustodyInv

(* So does a start that waits; one that does not is of the container as    *)
(* declared, or runs it anew.                                              *)
LEMMA StartStepCustody ==
  ASSUME TypeOK, CustodyInv, NEW n \in Names, NEW t, StartStep(n, t), pc = "reconcile", ~ Stale(n)
  PROVE  CustodyInv'
<1>1. CASE Held(n) \/ Unready(n)
  BY <1>1, SettleCustody DEF StartStep
<1>2. CASE ~ (Held(n) \/ Unready(n))
  <2>1. \/ Issue("start", n, t) /\ Observed(n)
        \/ Issue("run", n, t)
    BY <1>2 DEF StartStep
  <2> QED BY <2>1, IssueCustody DEF Ops
<1> QED BY <1>1, <1>2

(* Every branch of reconcile.                                              *)
LEMMA ReconcileCustody ==
  ASSUME TypeOK, CustodyInv, NEW n \in Names, Reconcile(n)
  PROVE  CustodyInv'
<1>1. Turn(n) /\ pc = "reconcile"
  BY Zenon DEF Reconcile, Recreate, ReconcileStopped, ReconcileRestart, ReconcileRunning,
         ReconcileFreshStart, ReconcileDecided, ReconcileExit, NotRunning, ToRun, Turn
<1>2. CASE Recreate(n)
  BY <1>1, <1>2, IssueCustody DEF Recreate, Ops, Stale
<1>3. CASE ReconcileStopped(n)
  BY <1>1, <1>3, IssueCustody, SettleCustody DEF ReconcileStopped, Ops
<1>4. CASE ReconcileRestart(n)
  BY <1>1, <1>4, IssueCustody DEF ReconcileRestart, ToRun, ObservedRunning, Ops
<1>5. CASE ReconcileRunning(n)
  <2>1. Observed(n) /\ ((\E t : Settle(n, t)) \/ (\E t : Issue("health", n, t)))
    BY <1>5 DEF ReconcileRunning, ObservedRunning
  <2> QED BY <1>1, <2>1, IssueCustody, SettleCustody DEF Ops
<1>6. CASE ReconcileFreshStart(n)
  BY <1>1, <1>6, SettleCustody, StartStepCustody DEF ReconcileFreshStart, NotRunning, ToRun
<1>7. CASE ReconcileDecided(n)
  BY <1>1, <1>7, SettleCustody, StartStepCustody DEF ReconcileDecided, NotRunning, ToRun
<1>8. CASE ReconcileExit(n)
  BY <1>1, <1>8, SettleCustody DEF ReconcileExit
<1> QED BY <1>2, <1>3, <1>4, <1>5, <1>6, <1>7, <1>8, Zenon DEF Reconcile

(* A call that returned is over, but for the start after a stop, of the    *)
(* declaration the stop was decided from.                                  *)
LEMMA ReturnCustody ==
  ASSUME TypeOK, Flight, FatalInv, CustodyInv, Return
  PROVE  CustodyInv'
<1>1. call # None /\ pc \in {"sweep", "reconcile"}
  BY DEF Return, ReturnSweep, ReturnStale, ReturnFailed, ReturnRecreate, ReturnStop, ReturnRestop,
         ReturnStart, ReturnHealth, Fresh, Returned, FatalInv, Called
<1>2. ASSUME call' = None, ctr' = ctr, pc' = pc PROVE CustodyInv'
  BY <1>1, <1>2 DEF CustodyInv
<1>3. CASE ReturnRestop
  <2>1. PICK n : n = call.name
    OBVIOUS
  <2>2. /\ call.op = "restop" /\ ~ touched /\ n \in Names /\ pc = "reconcile"
        /\ StartStep(n, [track[n] EXCEPT !.restart = FALSE])
    BY <1>1, <1>3, <2>1 DEF ReturnRestop, Fresh, Returned, TypeOK, Call, FatalInv, Called
  <2>3. ~ Stale(n)
    BY <1>1, <2>1, <2>2 DEF CustodyInv, Flight, InFlightCurrent, Stale, Sp
  <2> QED BY <2>2, <2>3, StartStepCustody
<1>4. CASE ReturnStop \/ ReturnStart \/ ReturnHealth
  BY <1>2, <1>4 DEF ReturnStop, ReturnStart, ReturnHealth, Settle, engineVars
<1>5. CASE ReturnSweep \/ ReturnStale \/ ReturnFailed \/ ReturnRecreate
  BY <1>2, <1>5
  DEF ReturnSweep, ReturnStale, ReturnFailed, Leave, ReturnRecreate, engineVars, passVars
<1> QED BY <1>3, <1>4, <1>5 DEF Return

(* What an engine call leaves: nothing, the container as it was, exited or *)
(* started, or a new one of the declaration the call is from.              *)
LEMMA EngineLeaves ==
  ASSUME TypeOK, NEW k \in Call, NEW faulty, NEW o \in Outcomes(k, faulty)
  PROVE  LET c == ctr[k.name] IN
         \/ o.ctr = None
         \/ o.ctr = c
         \/ Running(c) /\ (\E b \in BOOLEAN : o.ctr = Exited(c, b))
         \/ c # None /\ o.ctr = Started(c, FreshRun(k.name))
         \/ k.op = "run" /\ \E state, r : o.ctr = NewContainer(k.record.spec, state, r)
<1>1. CASE k.op \in {"sweep", "recreate", "stop", "restop", "health"}
  BY <1>1, Leaves
<1>2. CASE k.op = "start"
  BY <1>2, Leaves
<1>3. CASE k.op = "run"
  BY <1>3, Leaves, Zenon
<1> QED BY <1>1, <1>2, <1>3 DEF Call, Ops

(* A stop that the engine reports done leaves the container not running.   *)
LEMMA StopStops ==
  ASSUME NEW c, c = None \/ c \in Container, NEW faulty, NEW o \in StopOutcomes(c, faulty), o.ok
  PROVE  ~ Running(o.ctr)
<1>1. c # None /\ (\/ o = Outcome(c, FALSE)
                   \/ o = Outcome(c, TRUE) /\ ~ Running(c)
                   \/ \E b \in BOOLEAN : o = Outcome(Exited(c, b), TRUE))
  <2>1. c # None
    BY DEF StopOutcomes, Outcome
  <2> QED BY <2>1 DEF StopOutcomes
<1>2. \A b \in BOOLEAN : ~ Running(Exited(c, b))
  BY <1>1 DEF Exited, Running, Container
<1> QED BY <1>1, <1>2 DEF Outcome

(* What the engine leaves of the daemon's containers is the daemon's, and  *)
(* a stop that it reports leaves none running.                             *)
LEMMA EngineDoCustody ==
  ASSUME TypeOK, FatalInv, CustodyInv, EngineDo
  PROVE  CustodyInv'
<1>0. PICK n : n = call.name
  OBVIOUS
<1>1. PICK o \in Outcomes(call, Faulty) :
        /\ ctr' = [ctr EXCEPT ![n] = o.ctr]
        /\ call' = [call EXCEPT !.done = TRUE, !.ok = o.ok]
  BY <1>0 DEF EngineDo, Carry
<1>2. /\ call # None /\ call \in Call /\ ~ call.done /\ n \in Names
      /\ view' = view /\ pc' = pc
  BY <1>0 DEF EngineDo, TypeOK, Call, passVars
<1>3. /\ call'.op = call.op /\ call'.name = n /\ call'.record = call.record /\ call'.ok = o.ok
  BY <1>0, <1>1, <1>2 DEF Call
<1>4. ctr'[n] = o.ctr /\ \A m \in Names \ {n} : ctr'[m] = ctr[m]
  BY <1>1, <1>2 DEF TypeOK
<1>5. ctr[n] # None => ctr[n] \in Container /\ ctr[n].managed
  BY <1>2 DEF TypeOK, CustodyInv
<1>6. FreshRun(n) \in Nat
  BY <1>2, FreshRunType
<1>7. o.ctr # None => o.ctr.managed
  <2>1. \/ o.ctr = None
        \/ o.ctr = ctr[n]
        \/ Running(ctr[n]) /\ (\E b \in BOOLEAN : o.ctr = Exited(ctr[n], b))
        \/ ctr[n] # None /\ o.ctr = Started(ctr[n], FreshRun(n))
        \/ call.op = "run" /\ \E state, r : o.ctr = NewContainer(call.record.spec, state, r)
    BY <1>0, <1>1, <1>2, EngineLeaves
  <2>2. ASSUME NEW state, NEW r
        PROVE  NewContainer(call.record.spec, state, r).managed
    BY DEF NewContainer
  <2>3. CASE Running(ctr[n]) /\ \E b \in BOOLEAN : o.ctr = Exited(ctr[n], b)
    <3>1. ctr[n] # None
      BY <2>3 DEF Running
    <3> QED BY <1>5, <1>6, <2>3, <3>1, SameContainer
  <2>4. CASE ctr[n] # None /\ o.ctr = Started(ctr[n], FreshRun(n))
    BY <1>5, <1>6, <2>4, SameContainer
  <2> QED BY <1>5, <2>1, <2>2, <2>3, <2>4
<1>8. call.op = "stop" /\ o.ok => ~ Running(o.ctr)
  <2> SUFFICES ASSUME call.op = "stop", o.ok PROVE ~ Running(o.ctr)
    OBVIOUS
  <2>1. o \in StopOutcomes(ctr[n], Faulty)
    BY <1>0 DEF Outcomes
  <2> QED BY <1>5, <2>1, StopStops
<1>9. \A m \in Names : ctr'[m] # None => ctr'[m].managed
  BY <1>4, <1>7 DEF CustodyInv
<1>10. pc # "listed"
  BY <1>2 DEF FatalInv, Called
<1> QED BY <1>0, <1>2, <1>3, <1>4, <1>8, <1>9, <1>10 DEF CustodyInv, Observed

(* Containers that exit, and time, leave the daemon's the daemon's.        *)
LEMMA EnvironmentCustody ==
  ASSUME TypeOK, NoDisturbance, CustodyInv, Environment
  PROVE  CustodyInv'
<1> PICK n \in Names :
      \/ ContainerExits(n) \/ RunConfirmed(n) \/ RunIsLong(n)
      \/ GapEnds(n) \/ CheckComesDue(n)
      \/ HandRun(n) \/ HandStart(n) \/ HandRemove(n)
  BY DEF Environment
<1>1. ~ (HandRun(n) \/ HandStart(n) \/ HandRemove(n))
  BY DEF HandRun, HandStart, HandRemove, ByHand, Spend, NoDisturbance
<1>2. CASE ContainerExits(n) \/ RunConfirmed(n) \/ RunIsLong(n)
  <2>1. /\ Running(ctr[n]) /\ ctr[n].managed /\ ctr[n] \in Container
        /\ UNCHANGED <<view, call, pc>>
    BY <1>2 DEF ContainerExits, RunConfirmed, RunIsLong, passVars, callVars, TypeOK, Running
  <2>2. PICK c : /\ ctr' = [ctr EXCEPT ![n] = c]
                 /\ \/ \E failed \in BOOLEAN : c = Exited(ctr[n], failed)
                    \/ \E ran \in {"ok", "long"} : c = [ctr[n] EXCEPT !.ran = ran]
    BY <1>2 DEF ContainerExits, RunConfirmed, RunIsLong
  <2>3. c.managed
    BY <2>1, <2>2 DEF Exited, Container
  <2>4. ctr'[n] = c /\ \A m \in Names \ {n} : ctr'[m] = ctr[m]
    BY <2>2 DEF TypeOK
  <2>5. ctr[n] # None
    BY <2>1 DEF Running
  <2>6. \A m \in Names : /\ ctr'[m] # None => ctr[m] # None /\ ctr'[m].managed
                         /\ Running(ctr'[m]) => Running(ctr[m])
    BY <2>1, <2>3, <2>4, <2>5 DEF CustodyInv
  <2>7. call # None => call.name \in Names
    BY DEF TypeOK, Call
  <2> QED BY <2>1, <2>6, <2>7 DEF CustodyInv, Observed
<1>3. CASE GapEnds(n) \/ CheckComesDue(n)
  BY <1>3 DEF GapEnds, CheckComesDue, engineVars, passVars, callVars, CustodyInv, Observed
<1> QED BY <1>1, <1>2, <1>3

(* Every step keeps containers in custody.                                 *)
LEMMA NextCustody ==
  TypeOK /\ Flight /\ FatalInv /\ CustodyInv /\ [Next]_vars => CustodyInv'
<1> SUFFICES ASSUME TypeOK, Flight, FatalInv, CustodyInv, [Next]_vars PROVE CustodyInv'
  OBVIOUS
<1>1. NoDisturbance /\ ~ Failure
  BY NoFailure DEF FatalInv
<1>2. ASSUME UNCHANGED <<ctr, view, call, pc>> PROVE CustodyInv'
  BY <1>2 DEF CustodyInv, Observed
<1>3. CASE Pass
  <2>1. CASE List
    BY <2>1 DEF List, engineVars, callVars, CustodyInv, FatalInv, Called
  <2>2. CASE BeginPass \/ EndSweep \/ Skip
    BY <2>2 DEF BeginPass, EndSweep, Skip, engineVars, callVars, CustodyInv, Observed
  <2>3. CASE EndReconcile \/ RemoveNetworks
    BY <2>3 DEF EndReconcile, RemoveNetworks, engineVars, callVars, CustodyInv, FatalInv, Called
  <2>4. ASSUME NEW n \in Names, Sweep(n) PROVE CustodyInv'
    BY <2>4 DEF Sweep, NewCall, engineVars, CustodyInv
  <2> QED BY <1>3, <2>1, <2>2, <2>3, <2>4, ReconcileCustody, EngineDoCustody, ReturnCustody DEF Pass
<1>4. CASE Api
  BY <1>2, <1>4, ApiQuiet DEF engineVars, passVars
<1>5. CASE StartDaemon
  BY <1>5 DEF StartDaemon, engineVars, callVars, CustodyInv, Observed
<1>6. CASE UNCHANGED vars
  BY <1>2, <1>6 DEF vars
<1>7. CASE Environment
  BY <1>1, <1>7, EnvironmentCustody
<1> QED BY <1>1, <1>3, <1>4, <1>5, <1>6, <1>7 DEF Next

(* It holds at the start.                                                  *)
LEMMA InitCustody == Init => CustodyInv
BY DEF Init, Empty, CustodyInv

-----------------------------------------------------------------------------
(* Containers in custody: every step is one of Custody, or none of it.     *)

(* What Custody sees of one name.                                          *)
LEMMA KeeperSees ==
  ASSUME NEW n \in Names
  PROVE  /\ MadeNow[n] = MadeOf(ctr[n]) /\ DeclaredNow[n] = DeclaredOf(records[n])
         /\ n \in RestartsDue <=> track[n].restart
         /\ MadeNow[n].state = "absent" <=> ctr[n] = None
         /\ MadeNow[n].state = "up" <=> Running(ctr[n])
         /\ ctr[n] # None => MadeNow[n].label = ctr[n].hash
         /\ DeclaredNow[n].state = State(records[n])
         /\ records[n] # None => DeclaredNow[n].label = Hash(records[n].spec)
BY DEF MadeNow, DeclaredNow, RestartsDue, MadeOf, DeclaredOf, Running

(* No order is in the engine's hands.                                      *)
Idle == call = None \/ call.done \/ call.op = "health"

LEMMA IdleOrder ==
  /\ Idle => OrderOf(call) = Keeper!NoOrder
  /\ Idle' => OrderOf(call)' = Keeper!NoOrder
BY DEF Idle, OrderOf, Keeper!NoOrder

(* What leaves containers and declarations alone leaves alone what is seen *)
(* of them.                                                                *)
LEMMA SeenSame ==
  /\ ctr' = ctr => MadeNow' = MadeNow
  /\ records' = records => DeclaredNow' = DeclaredNow
  /\ track' = track => RestartsDue' = RestartsDue
BY DEF MadeNow, DeclaredNow, RestartsDue

(* The restart of one name changes, or none does.                          *)
LEMMA RestartSeen ==
  ASSUME TypeOK, NEW n \in Names, NEW t, track' = [track EXCEPT ![n] = t]
  PROVE  RestartsDue' = IF t.restart THEN RestartsDue \cup {n} ELSE RestartsDue \ {n}
<1>1. track'[n] = t /\ \A m \in Names \ {n} : track'[m] = track[m]
  BY DEF TypeOK
<1>2. \A m \in Names : m \in RestartsDue' <=> IF m = n THEN t.restart ELSE m \in RestartsDue
  BY <1>1 DEF RestartsDue
<1>3. RestartsDue \subseteq Names /\ RestartsDue' \subseteq Names
  BY DEF RestartsDue
<1>4. CASE t.restart
  BY <1>2, <1>3, <1>4
<1>5. CASE ~ t.restart
  BY <1>2, <1>3, <1>5
<1> QED BY <1>4, <1>5

(* A step that Custody sees nothing of.                                    *)
LEMMA Unseen ==
  ASSUME MadeNow' = MadeNow, DeclaredNow' = DeclaredNow, RestartsDue' = RestartsDue,
         Overlooked' = Overlooked, OrderOf(call)' = OrderOf(call)
  PROVE  [Keeper!Next]_Keeper!vars
BY DEF Keeper!vars

(* The pass is done with names it overlooked.                              *)
LEMMA Spares ==
  ASSUME MadeNow' = MadeNow, DeclaredNow' = DeclaredNow, RestartsDue' = RestartsDue,
         Overlooked' \subseteq Overlooked, OrderOf(call)' = OrderOf(call)
  PROVE  [Keeper!Next]_Keeper!vars
<1>1. Keeper!Spare
  BY DEF Keeper!Spare
<1> QED BY <1>1 DEF Keeper!Next

(* The pass is done with n.                                                *)
LEMMA Forgotten ==
  ASSUME TypeOK, NEW n \in Names, NEW t \in Tracking, track' = [track EXCEPT ![n] = t],
         UNCHANGED <<ctr, records>>, Idle, Idle',
         Overlooked' \in {Overlooked, Overlooked \ {n}},
         t.restart => track[n].restart,
         track[n].restart => t.restart \/ ~ Running(ctr[n]) \/ n \in Overlooked
  PROVE  [Keeper!Next]_Keeper!vars
<1>1. /\ MadeNow' = MadeNow /\ DeclaredNow' = DeclaredNow
      /\ OrderOf(call)' = OrderOf(call)
  BY SeenSame, IdleOrder
<1>2. n \in RestartsDue <=> track[n].restart
  BY KeeperSees
<1>3. RestartsDue' = IF t.restart THEN RestartsDue \cup {n} ELSE RestartsDue \ {n}
  BY RestartSeen
<1>4. CASE t.restart
  <2>1. RestartsDue' = RestartsDue
    BY <1>2, <1>3, <1>4
  <2> QED BY <1>1, <2>1, Spares
<1>5. CASE ~ t.restart
  <2>1. RestartsDue' = RestartsDue \ {n}
    BY <1>3, <1>5
  <2>2. n \in RestartsDue => ~ Keeper!Runs(n) \/ n \in Overlooked
    BY <1>2, <1>5, KeeperSees DEF Keeper!Runs
  <2>3. Keeper!Forget(n)
    BY <1>1, <2>1, <2>2 DEF Keeper!Forget
  <2> QED BY <2>3 DEF Keeper!Next
<1> QED BY <1>4, <1>5

(* What the pass knows of a name whose turn it is.                         *)
LEMMA TurnSees ==
  ASSUME TypeOK, FatalInv, NEW n \in Names, Turn(n)
  PROVE  /\ pc = "reconcile" /\ call = None /\ n \in todo /\ records[n] # None
         /\ view[n] # None =>
              /\ ctr[n] # None /\ ctr[n].managed = view[n].managed /\ ctr[n].hash = view[n].hash
              /\ Running(ctr[n]) => Running(view[n])
         /\ view[n] = None => ctr[n] = None \/ n \in Overlooked
<1>1. /\ pc = "reconcile" /\ call = None /\ n \in todo /\ records[n] # None
      /\ Linked(n) \/ Loose(n)
  BY TurnIsListed
<1> QED BY <1>1 DEF Linked, Loose, Overlooked

(* A reconcile that ends is done with what it overlooked of n.             *)
LEMMA OverlookedSettled ==
  ASSUME NEW n, pc = "reconcile", UNCHANGED <<ctr, view, pc>>, todo' = todo \ {n},
         call' = None, call = None \/ call.name = n
  PROVE  Overlooked' = Overlooked \ {n}
BY DEF Overlooked

(* One that goes on with a call is not.                                    *)
LEMMA OverlookedIssued ==
  ASSUME NEW n, NEW op, NEW t, Issue(op, n, t),
         call = None \/ (call.name = n /\ Observed(n))
  PROVE  Overlooked' = Overlooked
<1>1. call'.name = n /\ ~ call'.done /\ UNCHANGED <<ctr, view, pc, todo>>
  BY DEF Issue, NewCall, engineVars, passVars
<1> QED BY <1>1 DEF Overlooked, Observed

(* reconcile returns: a restart is forgotten of what does not run.         *)
LEMMA SettledInCustody ==
  ASSUME TypeOK, NEW n \in Names, NEW t \in Tracking, Settle(n, t), pc = "reconcile", Idle,
         call = None \/ call.name = n,
         t.restart => track[n].restart,
         track[n].restart => t.restart \/ ~ Running(ctr[n]) \/ n \in Overlooked
  PROVE  [Keeper!Next]_Keeper!vars
<1>1. /\ track' = [track EXCEPT ![n] = t] /\ todo' = todo \ {n} /\ call' = None
      /\ UNCHANGED <<ctr, records, view, pc>>
  BY DEF Settle, engineVars
<1>2. Overlooked' = Overlooked \ {n}
  BY <1>1, OverlookedSettled
<1> QED BY <1>1, <1>2, Forgotten DEF Idle

(* The container of n, if any, may be started.                             *)
Startable(n) ==
  ctr[n] # None /\ n \notin Overlooked => ~ Running(ctr[n]) /\ ctr[n].hash = Hash(Sp(n))

(* The order that is given.                                                *)
LEMMA GivenOrder ==
  ASSUME TypeOK, NEW n \in Names, NEW op \in Ops \ {"health"}, NEW t \in Tracking, Issue(op, n, t)
  PROVE  OrderOf(call)' =
           [ act |-> Act(op), name |-> n,
             label |-> IF Act(op) = "start" THEN Hash(records[n].spec) ELSE None ]
<1>1. call' \in Call
  BY DEF Issue, NewCall, TypeOK, Call
<1>2. /\ call'.op = op /\ call'.name = n /\ ~ call'.done /\ call'.record = records[n]
      /\ call'.op # "health"
  BY DEF Issue, NewCall
<1>3. call' # None
  BY <1>1, AbsentAssumption
<1> QED BY <1>2, <1>3 DEF OrderOf

(* An order that leaves the trackings and what was overlooked as they are. *)
LEMMA OrderSees ==
  ASSUME TypeOK, NEW n \in Names, NEW op \in Ops \ {"health"}, NEW t \in Tracking, Issue(op, n, t),
         call = None \/ (call.name = n /\ Observed(n)), Idle
  PROVE  /\ MadeNow' = MadeNow /\ DeclaredNow' = DeclaredNow /\ Overlooked' = Overlooked
         /\ RestartsDue' = IF t.restart THEN RestartsDue \cup {n} ELSE RestartsDue \ {n}
         /\ OrderOf(call) = Keeper!NoOrder
         /\ OrderOf(call)' =
              [ act |-> Act(op), name |-> n,
                label |-> IF Act(op) = "start" THEN Hash(records[n].spec) ELSE None ]
<1>1. /\ track' = [track EXCEPT ![n] = t] /\ UNCHANGED <<ctr, records>>
  BY DEF Issue, engineVars
<1>2. MadeNow' = MadeNow /\ DeclaredNow' = DeclaredNow
  BY <1>1, SeenSame
<1>3. Overlooked' = Overlooked
  BY OverlookedIssued
<1>4. RestartsDue' = IF t.restart THEN RestartsDue \cup {n} ELSE RestartsDue \ {n}
  BY <1>1, RestartSeen
<1>5. OrderOf(call) = Keeper!NoOrder
  BY IdleOrder
<1> QED BY <1>2, <1>3, <1>4, <1>5, GivenOrder

(* A removal of a container that is not as declared is a Replace.          *)
LEMMA ReplaceGiven ==
  ASSUME TypeOK, NEW n \in Names, Issue("recreate", n, track[n]), call = None,
         ctr[n] # None, records[n] # None, ctr[n].hash # Hash(Sp(n))
  PROVE  [Keeper!Next]_Keeper!vars
<1>1. track[n] \in Tracking /\ Idle
  BY TrackType DEF Idle
<1>2. "recreate" \in Ops \ {"health"} /\ Act("recreate") = "remove"
  BY DEF Ops, Act
<1>3. /\ MadeNow' = MadeNow /\ DeclaredNow' = DeclaredNow /\ Overlooked' = Overlooked
      /\ RestartsDue' = IF track[n].restart THEN RestartsDue \cup {n} ELSE RestartsDue \ {n}
      /\ OrderOf(call) = Keeper!NoOrder
      /\ OrderOf(call)' = [act |-> "remove", name |-> n, label |-> None]
  BY <1>1, <1>2, OrderSees
<1>4. RestartsDue' = RestartsDue
  BY <1>3, KeeperSees
<1>5. Keeper!Exists(n) /\ DeclaredNow[n].state # "none" /\ MadeNow[n].label # DeclaredNow[n].label
  <2>1. State(records[n]) # "none"
    BY DEF State, TypeOK, Record
  <2> QED BY <2>1, KeeperSees DEF Keeper!Exists, Sp
<1>6. Keeper!Give("remove", n, None)
  BY <1>3 DEF Keeper!Give
<1>7. Keeper!Replace(n)
  BY <1>3, <1>4, <1>5, <1>6 DEF Keeper!Replace
<1> QED BY <1>7 DEF Keeper!Next

(* So is a stop, asked for or for a restart, a Stop.                       *)
LEMMA StopGiven ==
  ASSUME TypeOK, NEW n \in Names, NEW op \in {"stop", "restop"},
         Issue(op, n, track[n]), call = None,
         ctr[n] # None, records[n] # None, ctr[n].hash = Hash(Sp(n)),
         records[n].desired = "stopped" \/ (records[n].desired = "running" /\ track[n].restart)
  PROVE  [Keeper!Next]_Keeper!vars
<1>1. track[n] \in Tracking /\ Idle
  BY TrackType DEF Idle
<1>2. op \in Ops \ {"health"} /\ Act(op) = "stop"
  BY DEF Ops, Act
<1>3. /\ MadeNow' = MadeNow /\ DeclaredNow' = DeclaredNow /\ Overlooked' = Overlooked
      /\ RestartsDue' = IF track[n].restart THEN RestartsDue \cup {n} ELSE RestartsDue \ {n}
      /\ OrderOf(call) = Keeper!NoOrder
      /\ OrderOf(call)' = [act |-> "stop", name |-> n, label |-> None]
  BY <1>1, <1>2, OrderSees
<1>4. RestartsDue' = RestartsDue
  BY <1>3, KeeperSees
<1>5. /\ Keeper!Exists(n) /\ MadeNow[n].label = DeclaredNow[n].label
      /\ \/ DeclaredNow[n].state = "stopped"
         \/ DeclaredNow[n].state = "running" /\ n \in RestartsDue
  <2>1. State(records[n]) = records[n].desired
    BY DEF State
  <2> QED BY <2>1, KeeperSees DEF Keeper!Exists, Sp
<1>6. Keeper!Give("stop", n, None)
  BY <1>3 DEF Keeper!Give
<1>7. Keeper!Stop(n)
  BY <1>3, <1>4, <1>5, <1>6 DEF Keeper!Stop
<1> QED BY <1>7 DEF Keeper!Next

(* And a start of a container that may be started is a Start.              *)
LEMMA StartGiven ==
  ASSUME TypeOK, NEW n \in Names, NEW op \in {"start", "run"}, NEW t \in Tracking, Issue(op, n, t),
         call = None \/ (call.name = n /\ Observed(n)), Idle, ~ t.restart,
         records[n] # None, records[n].desired = "running", Startable(n)
  PROVE  [Keeper!Next]_Keeper!vars
<1>2. op \in Ops \ {"health"} /\ Act(op) = "start"
  BY DEF Ops, Act
<1>3. /\ MadeNow' = MadeNow /\ DeclaredNow' = DeclaredNow /\ Overlooked' = Overlooked
      /\ RestartsDue' = RestartsDue \ {n}
      /\ OrderOf(call) = Keeper!NoOrder
      /\ OrderOf(call)' = [act |-> "start", name |-> n, label |-> Hash(records[n].spec)]
  BY <1>2, OrderSees
<1>4. DeclaredNow[n].state = "running" /\ DeclaredNow[n].label = Hash(Sp(n))
  <2>1. State(records[n]) = records[n].desired
    BY DEF State
  <2> QED BY <2>1, KeeperSees DEF Sp
<1>5. Keeper!Exists(n) /\ n \notin Overlooked =>
        ~ Keeper!Runs(n) /\ MadeNow[n].label = DeclaredNow[n].label
  BY <1>4, KeeperSees DEF Keeper!Exists, Keeper!Runs, Startable
<1>6. Keeper!Give("start", n, DeclaredNow[n].label)
  BY <1>3, <1>4 DEF Keeper!Give, Sp
<1>7. Keeper!Start(n)
  BY <1>3, <1>4, <1>5, <1>6 DEF Keeper!Start
<1> QED BY <1>7 DEF Keeper!Next

(* start waits, or starts a container that may be started.                 *)
LEMMA StartStepGiven ==
  ASSUME TypeOK, NEW n \in Names, NEW t \in Tracking, StartStep(n, t), pc = "reconcile",
         call = None \/ (call.name = n /\ Observed(n)), Idle, ~ t.restart,
         track[n].restart => ~ Running(ctr[n]) \/ n \in Overlooked,
         records[n] # None, records[n].desired = "running", Startable(n)
  PROVE  [Keeper!Next]_Keeper!vars
<1>1. CASE Held(n) \/ Unready(n)
  <2>1. [t EXCEPT !.phase = "waiting"] \in Tracking
    BY WaitingType
  <2>2. ~ [t EXCEPT !.phase = "waiting"].restart
    BY DEF Tracking
  <2> QED BY <1>1, <2>1, <2>2, SettledInCustody DEF StartStep
<1>2. CASE ~ (Held(n) \/ Unready(n))
  BY <1>2, StartGiven DEF StartStep
<1> QED BY <1>1, <1>2

(* A health check is no order.                                             *)
LEMMA HealthIssued ==
  ASSUME TypeOK, NEW n \in Names, NEW t \in Tracking, Issue("health", n, t), call = None,
         t.restart = track[n].restart
  PROVE  [Keeper!Next]_Keeper!vars
<1>1. /\ track' = [track EXCEPT ![n] = t] /\ UNCHANGED <<ctr, records>>
      /\ call'.op = "health" /\ Idle
  BY DEF Issue, NewCall, engineVars, Idle
<1>2. Idle'
  BY <1>1 DEF Idle
<1>3. Overlooked' = Overlooked
  BY OverlookedIssued
<1> QED BY <1>1, <1>2, <1>3, Forgotten

(* A container that is down, or is started anew, has no restart to come.   *)
LEMMA NoRestart ==
  ASSUME TypeOK, NEW n \in Names
  PROVE  /\ ~ Down(n).restart /\ ~ Stopped(n).restart
         /\ ~ ZeroTracking.restart /\ ~ Forced.restart
<1>1. track[n] \in Tracking
  BY TrackType
<1>2. ~ Down(n).restart
  <2>1. \A t \in Tracking :
          ~ [t EXCEPT !.restart = FALSE, !.health = "", !.failures = 0, !.healthRun = 0,
                      !.check = "wait"].restart
    BY DEF Tracking
  <2> QED BY <1>1, <2>1 DEF Down
<1>3. ~ Stopped(n).restart
  BY Zenon DEF Stopped, ZeroTracking
<1>4. ~ ZeroTracking.restart /\ ~ Forced.restart
  BY Zenon DEF Forced, ZeroTracking
<1> QED BY <1>2, <1>3, <1>4

(* Nor has one whose exit is decided on.                                   *)
LEMMA NoRestartJudged ==
  ASSUME TypeOK, NEW n \in Names
  PROVE  ~ Judged(n).restart
<1> DEFINE c == view[n]
           t == [Down(n) EXCEPT !.handledExit = ExitStamp(c),
                   !.startAttempts = IF c.ran = "long" THEN 0 ELSE @,
                   !.restarts      = IF c.ran = "long" THEN 0 ELSE @]
           short == [t EXCEPT !.startAttempts = @ + 1]
           stop  == [t EXCEPT !.restarts = @ + 1]
           Rests(u) == /\ ~ u.restart
                       /\ \A x : /\ ~ [u EXCEPT !.phase = x].restart
                                 /\ ~ [u EXCEPT !.phase = x, !.due = FALSE].restart
<1>1. Down(n) \in Tracking /\ ~ Down(n).restart
  BY DownType, NoRestart
<1>2. Rests(t) /\ Rests(short) /\ Rests(stop)
  BY <1>1 DEF Tracking
<1>3. \E u \in {t, short, stop} : \/ Judged(n) = [u EXCEPT !.phase = "exited"]
                                  \/ Judged(n) = [u EXCEPT !.phase = "fatal"]
                                  \/ Judged(n) = [u EXCEPT !.phase = "backoff", !.due = FALSE]
  BY Zenon DEF Judged
<1>4. PICK u \in {t, short, stop} : \/ Judged(n) = [u EXCEPT !.phase = "exited"]
                                    \/ Judged(n) = [u EXCEPT !.phase = "fatal"]
                                    \/ Judged(n) = [u EXCEPT !.phase = "backoff", !.due = FALSE]
  BY <1>3, Zenon
<1>5. Rests(u)
  BY <1>2, <1>4
<1> HIDE DEF t, short, stop
<1> QED BY <1>4, <1>5

(* What the pass notes of a run it sees forgets no restart.                *)
LEMMA RunningForms ==
  ASSUME TypeOK, NEW n \in Names, ReconcileRunning(n)
  PROVE  \E t \in Tracking : /\ Settle(n, t) \/ Issue("health", n, t)
                             /\ t.restart = track[n].restart
<1> DEFINE up(c) == [track[n] EXCEPT !.force = FALSE,
                       !.phase = IF c THEN "running" ELSE "starting"]
           seen(u, r) == [u EXCEPT !.healthRun = r, !.health = "starting",
                                   !.failures = 0, !.check = "first"]
           fresh(c) == IF up(c).healthRun = view[n].run THEN up(c) ELSE seen(up(c), view[n].run)
<1>1. view[n] # None /\ view[n].run \in Nat
  BY DEF ReconcileRunning, ObservedRunning, Observed, TypeOK, Container
<1>2. ASSUME NEW c \in BOOLEAN PROVE up(c) \in Tracking
  BY TrackType, ConfirmFields
<1>3. ASSUME NEW c \in BOOLEAN PROVE up(c).restart = track[n].restart
  BY TrackType DEF Tracking
<1>4. ASSUME NEW u \in Tracking, NEW r \in Nat
      PROVE  seen(u, r) \in Tracking /\ seen(u, r).restart = u.restart
  <2>1. seen(u, r) \in Tracking
    BY DEF Tracking
  <2>2. seen(u, r).restart = u.restart
    BY DEF Tracking
  <2> QED BY <2>1, <2>2
<1>5. PICK c \in BOOLEAN :
        Settle(n, up(c)) \/ Issue("health", n, fresh(c)) \/ Settle(n, fresh(c))
  <2>1. Confirmations(n) \subseteq BOOLEAN
    BY DEF Confirmations
  <2> QED BY <2>1, Zenon DEF ReconcileRunning
<1> HIDE DEF up, seen
<1>6. fresh(c) \in Tracking /\ fresh(c).restart = track[n].restart
  BY <1>1, <1>2, <1>3, <1>4
<1> HIDE DEF fresh
<1> QED BY <1>2, <1>3, <1>5, <1>6

(* Nor does what it notes of a start.                                      *)
LEMMA StartKeepsRestart ==
  ASSUME NEW t \in Tracking
  PROVE  [t EXCEPT !.force = FALSE, !.phase = "starting"].restart = t.restart
BY DEF Tracking

(* Nor does a start that failed.                                           *)
LEMMA StartFailedKeepsRestart ==
  ASSUME NEW t \in Tracking
  PROVE  StartFailed(t).restart = t.restart
<1> DEFINE u == [t EXCEPT !.force = FALSE, !.startAttempts = @ + 1]
           Over == [u EXCEPT !.phase = "fatal"]
           Again == [u EXCEPT !.phase = "backoff", !.due = FALSE]
<1>0. \A v : [t EXCEPT !.force = FALSE, !.startAttempts = v].restart = t.restart
  BY DEF Tracking
<1>1. u \in Tracking /\ u.restart = t.restart
  BY <1>0, GivenUpType
<1>2. StartFailed(t) = Over \/ StartFailed(t) = Again
  BY Zenon DEF StartFailed
<1> HIDE DEF u
<1>3. Over.restart = u.restart /\ Again.restart = u.restart
  BY <1>1 DEF Tracking
<1> HIDE DEF Over, Again
<1> QED BY <1>1, <1>2, <1>3

(* Nor does a health check.                                                *)
LEMMA CheckedKeepsRestart ==
  ASSUME TypeOK, NEW n \in Names, NEW t \in CappedChecked(n)
  PROVE  t.restart = track[n].restart
<1> DEFINE w == [track[n] EXCEPT !.check = "wait"]
           f == [w EXCEPT !.failures = @ + 1]
           Keeps(u) == u.restart = track[n].restart /\ DOMAIN u = DOMAIN track[n]
<1>1. Keeps(w) /\ Keeps(f)
  BY TrackType DEF Tracking
<1>2. \A u : Keeps(u) => \A a, b : /\ Keeps([u EXCEPT !.health = a, !.failures = b])
                                   /\ Keeps([u EXCEPT !.health = a])
                                   /\ Keeps([u EXCEPT !.failures = a])
  BY TrackType DEF Tracking
<1> DEFINE ok    == [w EXCEPT !.health = "healthy", !.failures = 0]
           worse == [f EXCEPT !.health = "unhealthy"]
<1> HIDE DEF Keeps, w, f
<1>3. \A u \in Checked(n) : Keeps(u)
  <2>1. Keeps(ok) /\ Keeps(worse)
    BY <1>1, <1>2
  <2>2. Checked(n) \subseteq {ok, w, f, worse}
    BY DEF Checked, w, f
  <2> HIDE DEF ok, worse
  <2> QED BY <1>1, <2>1, <2>2
<1>4. PICK u \in Checked(n) :
        t = [u EXCEPT !.failures = IF @ > Sp(n).retries THEN Sp(n).retries ELSE @]
  BY DEF CappedChecked
<1>5. Keeps(t)
  BY <1>2, <1>3, <1>4
<1> QED BY <1>5 DEF Keeps

-----------------------------------------------------------------------------
(* Containers in custody: the steps.                                       *)

(* Every branch of reconcile is a step of Custody, or none of it.          *)
LEMMA ReconcileGiven ==
  ASSUME TypeOK, FatalInv, CustodyInv, NEW n \in Names, Reconcile(n)
  PROVE  [Keeper!Next]_Keeper!vars
<1>1. Turn(n)
  BY Zenon DEF Reconcile, Recreate, ReconcileStopped, ReconcileRestart, ReconcileRunning,
         ReconcileFreshStart, ReconcileDecided, ReconcileExit, NotRunning, ToRun
<1>2. /\ pc = "reconcile" /\ call = None /\ n \in todo /\ records[n] # None
      /\ view[n] # None =>
           /\ ctr[n] # None /\ ctr[n].managed = view[n].managed /\ ctr[n].hash = view[n].hash
           /\ Running(ctr[n]) => Running(view[n])
      /\ view[n] = None => ctr[n] = None \/ n \in Overlooked
  BY <1>1, TurnSees
<1>3. track[n] \in Tracking /\ Idle
  BY <1>2, TrackType DEF Idle
<1>4. /\ view[n] # None => Observed(n)
      /\ Observed(n) /\ ~ Stale(n) => ctr[n].hash = Hash(Sp(n))
      /\ Observed(n) => ctr[n] # None
  BY <1>2 DEF CustodyInv, Observed, Stale
<1>5. ~ ObservedRunning(n) => ~ Running(ctr[n]) \/ n \in Overlooked
  BY <1>2, <1>4 DEF ObservedRunning, Running
<1>6. ASSUME NEW t \in Tracking, Settle(n, t), ~ ObservedRunning(n), ~ t.restart
      PROVE  [Keeper!Next]_Keeper!vars
  BY <1>2, <1>3, <1>5, <1>6, SettledInCustody
<1>7. ASSUME NEW t \in Tracking, StartStep(n, t), NotRunning(n), ~ t.restart
      PROVE  [Keeper!Next]_Keeper!vars
  <2>1. Startable(n)
    BY <1>2, <1>4, <1>5, <1>7 DEF NotRunning, ToRun, Startable
  <2>2. ~ ObservedRunning(n) /\ records[n].desired = "running"
    BY <1>7 DEF NotRunning, ToRun
  <2> QED BY <1>2, <1>3, <1>5, <1>7, <2>1, <2>2, StartStepGiven
<1>8. /\ Down(n) \in Tracking /\ Stopped(n) \in Tracking /\ ZeroTracking \in Tracking
      /\ ~ Down(n).restart /\ ~ Stopped(n).restart /\ ~ ZeroTracking.restart
  BY DownType, StoppedType, ForcedType, NoRestart
<1>9. CASE Recreate(n)
  <2>1. Issue("recreate", n, track[n]) /\ ctr[n] # None /\ ctr[n].hash # Hash(Sp(n))
    BY <1>2, <1>4, <1>9 DEF Recreate, Stale, Observed
  <2> QED BY <1>2, <2>1, ReplaceGiven
<1>10. CASE ReconcileStopped(n)
  <2>1. ~ Stale(n) /\ records[n].desired = "stopped"
    BY <1>10 DEF ReconcileStopped
  <2>2. CASE Observed(n) /\ Running(view[n])
    <3>1. Issue("stop", n, track[n])
      BY <1>10, <2>2 DEF ReconcileStopped
    <3> QED BY <1>2, <1>4, <2>1, <2>2, <3>1, StopGiven
  <2>3. CASE ~ (Observed(n) /\ Running(view[n]))
    <3>1. Settle(n, Stopped(n)) /\ ~ ObservedRunning(n)
      BY <1>10, <2>3 DEF ReconcileStopped, ObservedRunning
    <3> QED BY <1>6, <1>8, <3>1
  <2> QED BY <2>2, <2>3
<1>11. CASE ReconcileRestart(n)
  <2>1. /\ Issue("restop", n, track[n]) /\ track[n].restart /\ Observed(n) /\ ~ Stale(n)
        /\ records[n].desired = "running"
    BY <1>11 DEF ReconcileRestart, ToRun, ObservedRunning
  <2> QED BY <1>2, <1>4, <2>1, StopGiven
<1>12. CASE ReconcileRunning(n)
  <2>1. ~ track[n].restart
    BY <1>12 DEF ReconcileRunning
  <2>2. PICK t \in Tracking : /\ Settle(n, t) \/ Issue("health", n, t)
                             /\ t.restart = track[n].restart
    BY <1>12, RunningForms
  <2> QED BY <1>2, <1>3, <2>1, <2>2, SettledInCustody, HealthIssued
<1>13. CASE ReconcileFreshStart(n)
  <2>1. NotRunning(n) /\ ~ ObservedRunning(n)
    BY <1>13 DEF ReconcileFreshStart, NotRunning
  <2>2. Settle(n, Down(n)) \/ StartStep(n, Down(n)) \/ StartStep(n, ZeroTracking)
    BY <1>13 DEF ReconcileFreshStart
  <2> QED BY <1>6, <1>7, <1>8, <2>1, <2>2
<1>14. CASE ReconcileDecided(n)
  <2>1. NotRunning(n) /\ ~ ObservedRunning(n)
    BY <1>14 DEF ReconcileDecided, NotRunning
  <2>2. Settle(n, Down(n)) \/ StartStep(n, Down(n))
    BY <1>14 DEF ReconcileDecided
  <2> QED BY <1>6, <1>7, <1>8, <2>1, <2>2
<1>15. CASE ReconcileExit(n)
  <2>1. Settle(n, Judged(n)) /\ ~ ObservedRunning(n)
    BY <1>15 DEF ReconcileExit, NotRunning
  <2>2. Observed(n)
    BY <1>15 DEF ReconcileExit, FreshStart
  <2>3. Judged(n) \in Tracking /\ ~ Judged(n).restart
    BY <2>2, JudgedType, NoRestartJudged
  <2> QED BY <1>6, <2>1, <2>3
<1> QED BY <1>9, <1>10, <1>11, <1>12, <1>13, <1>14, <1>15, Zenon DEF Reconcile

(* A call that returned gives no order but the start after a stop.         *)
LEMMA ReturnGiven ==
  ASSUME TypeOK, Flight, FatalInv, CustodyInv, Return
  PROVE  [Keeper!Next]_Keeper!vars
<1>0. PICK n : n = call.name
  OBVIOUS
<1>1. call # None /\ call \in Call /\ call.done /\ n \in Names /\ Idle
  BY <1>0 DEF Return, ReturnSweep, ReturnStale, ReturnFailed, ReturnRecreate, ReturnStop,
         ReturnRestop, ReturnStart, ReturnHealth, Fresh, Returned, TypeOK, Call, Idle
<1>2. track[n] \in Tracking
  BY <1>1, TrackType
<1>4. call.op # "sweep" => pc = "reconcile"
  BY <1>1 DEF FatalInv, Called
<1>5. CASE ReturnSweep
  <2>1. call' = None /\ UNCHANGED <<ctr, records, track, view, pc, todo>> /\ call.op = "sweep"
    BY <1>5 DEF ReturnSweep, Returned, engineVars, memVars, passVars
  <2>2. Overlooked' = Overlooked
    BY <2>1 DEF Overlooked
  <2>3. Idle'
    BY <2>1 DEF Idle
  <2> QED BY <1>1, <2>1, <2>2, <2>3, SeenSame, IdleOrder, Unseen
<1>6. CASE ReturnStale \/ ReturnFailed
  <2>1. Leave(n) /\ call.op # "sweep"
    BY <1>0, <1>6 DEF ReturnStale, ReturnFailed, Fresh, Returned
  <2>2. /\ call' = None /\ UNCHANGED <<ctr, records, track, view, pc>> /\ todo' = todo \ {n}
    BY <2>1 DEF Leave, engineVars, memVars
  <2>3. Overlooked' = Overlooked \ {n}
    BY <1>0, <1>4, <2>1, <2>2, OverlookedSettled
  <2>4. Idle'
    BY <2>2 DEF Idle
  <2> QED BY <1>1, <2>2, <2>3, <2>4, SeenSame, IdleOrder, Spares
<1>7. CASE ReturnRecreate
  <2>1. /\ call.op = "recreate" /\ call.ok /\ call' = None
        /\ UNCHANGED <<ctr, records, pc, todo>> /\ view' = [view EXCEPT ![n] = None]
        /\ track' = [track EXCEPT ![n] = Forced] \/ track' = track
    BY <1>0, <1>7 DEF ReturnRecreate, Fresh, Returned, engineVars
  <2>2. ctr[n] = None
    BY <1>0, <1>1, <2>1 DEF FatalInv, Called
  <2>3. Overlooked' = Overlooked
    <3>1. \A m \in Names \ {n} : view'[m] = view[m]
      BY <2>1 DEF TypeOK
    <3>2. \A m \in Names : m \in Overlooked' <=> m \in Overlooked
      BY <1>0, <2>1, <2>2, <3>1 DEF Overlooked
    <3> QED BY <3>2 DEF Overlooked
  <2>4. Idle'
    BY <2>1 DEF Idle
  <2>5. Forced \in Tracking /\ ~ Forced.restart
    BY <1>1, ForcedType, NoRestart
  <2>6. ~ Running(ctr[n])
    BY <2>2 DEF Running
  <2>7. PICK t \in Tracking : /\ track' = [track EXCEPT ![n] = t]
                              /\ t.restart => track[n].restart
    <3>1. CASE track' = track
      <4>1. track' = [track EXCEPT ![n] = track[n]]
        BY <3>1 DEF TypeOK
      <4> QED BY <1>2, <4>1
    <3>2. CASE track' = [track EXCEPT ![n] = Forced]
      BY <2>5, <3>2
    <3> QED BY <2>1, <3>1, <3>2
  <2> QED BY <1>1, <2>1, <2>3, <2>4, <2>6, <2>7, Forgotten
<1>8. CASE ReturnStop
  <2>1. Settle(n, Stopped(n)) /\ call.op = "stop" /\ call.ok
    BY <1>0, <1>8 DEF ReturnStop, Fresh, Returned
  <2>2. ~ Running(ctr[n])
    BY <1>0, <1>1, <2>1 DEF CustodyInv
  <2>3. Stopped(n) \in Tracking /\ ~ Stopped(n).restart
    BY <1>1, StoppedType, NoRestart
  <2> QED BY <1>0, <1>1, <1>4, <2>1, <2>2, <2>3, SettledInCustody
<1>9. CASE ReturnRestop
  <2>1. /\ StartStep(n, [track[n] EXCEPT !.restart = FALSE])
        /\ call.op = "restop" /\ call.ok /\ ~ touched
    BY <1>0, <1>9 DEF ReturnRestop, Fresh, Returned
  <2>2. Observed(n) /\ call.record.desired = "running"
    BY <1>0, <1>1, <2>1 DEF CustodyInv
  <2>3. records[n] = call.record /\ records[n] # None
    BY <1>0, <1>1, <2>1 DEF Flight, CallsOfRecords, InFlightCurrent
  <2>4. ctr[n] # None => ~ Running(ctr[n]) /\ ctr[n].hash = Hash(Sp(n))
    BY <1>0, <1>1, <2>1 DEF FatalInv, Called, CustodyInv
  <2>5. ~ Running(ctr[n]) /\ Startable(n)
    BY <2>4 DEF Running, Startable
  <2>6. [track[n] EXCEPT !.restart = FALSE] \in Tracking
    BY <1>2, WaitingType
  <2>7. ~ [track[n] EXCEPT !.restart = FALSE].restart
    BY <1>2 DEF Tracking
  <2> QED BY <1>0, <1>1, <1>4, <2>1, <2>2, <2>3, <2>5, <2>6, <2>7, StartStepGiven
<1>10. CASE ReturnStart
  <2>1. PICK t : /\ Settle(n, t) /\ call.op # "sweep"
                 /\ \/ t = [track[n] EXCEPT !.force = FALSE, !.phase = "starting"]
                    \/ t = StartFailed(track[n])
    BY <1>0, <1>10 DEF ReturnStart, Fresh, Returned
  <2>2. t \in Tracking /\ t.restart = track[n].restart
    BY <1>2, <2>1, WaitingType, StartKeepsRestart, StartFailedType, StartFailedKeepsRestart
  <2> QED BY <1>0, <1>1, <1>4, <2>1, <2>2, SettledInCustody
<1>11. CASE ReturnHealth
  <2>1. call.op = "health" /\ ~ touched
    BY <1>11 DEF ReturnHealth, Fresh, Returned
  <2>2. records[n] # None
    BY <1>0, <1>1, <2>1 DEF Flight, CallsOfRecords, InFlightCurrent
  <2>3. PICK t \in CappedChecked(n) : Settle(n, t)
    BY <1>0, <1>11 DEF ReturnHealth
  <2>4. t \in Tracking /\ t.restart = track[n].restart
    BY <1>1, <2>2, CheckedType, CheckedKeepsRestart
  <2> QED BY <1>0, <1>1, <1>4, <2>1, <2>3, <2>4, SettledInCustody
<1> QED BY <1>5, <1>6, <1>7, <1>8, <1>9, <1>10, <1>11 DEF Return

(* The removal of a container that nothing declares is a Clear.            *)
LEMMA SweepGiven ==
  ASSUME TypeOK, FatalInv, CustodyInv, NEW n \in Names, Sweep(n)
  PROVE  [Keeper!Next]_Keeper!vars
<1>1. /\ pc = "sweep" /\ pc' = pc /\ call = None /\ call' = NewCall("sweep", n)
      /\ Observed(n) /\ records[n] = None /\ view' = [view EXCEPT ![n] = None]
      /\ UNCHANGED <<ctr, records, track, todo>>
  BY DEF Sweep, Undeclared, engineVars, memVars
<1>2. ctr[n] # None
  <2>1. Listed(n) /\ ~ Busy(n)
    BY <1>1 DEF Listed, Busy
  <2>2. Linked(n)
    BY <1>1, <2>1 DEF FatalInv, Told, Loose, Observed
  <2> QED BY <1>1, <2>2 DEF Linked, Observed
<1>3. call' \in Call /\ call'.op = "sweep" /\ call'.name = n /\ ~ call'.done
  BY <1>1 DEF NewCall, TypeOK, Call, Ops
<1>4. call' # None
  BY <1>3, AbsentAssumption
<1>5. OrderOf(call)' = [act |-> "remove", name |-> n, label |-> None]
  BY <1>3, <1>4 DEF OrderOf, Act
<1>6. OrderOf(call) = Keeper!NoOrder
  BY <1>1, IdleOrder DEF Idle
<1>7. Overlooked' = Overlooked \cup {n}
  <2>1. view'[n] = None /\ \A m \in Names \ {n} : view'[m] = view[m]
    BY <1>1 DEF TypeOK
  <2>2. \A m \in Names : m \in Overlooked' <=> m \in Overlooked \cup {n}
    BY <1>1, <1>2, <1>3, <2>1 DEF Overlooked
  <2> QED BY <2>2 DEF Overlooked
<1>8. MadeNow' = MadeNow /\ DeclaredNow' = DeclaredNow /\ RestartsDue' = RestartsDue
  BY <1>1, SeenSame
<1>9. Keeper!Exists(n) /\ DeclaredNow[n].state = "none"
  <2>1. State(records[n]) = "none"
    BY <1>1 DEF State
  <2> QED BY <1>2, <2>1, KeeperSees DEF Keeper!Exists
<1>10. Keeper!Clear(n)
  BY <1>5, <1>6, <1>7, <1>8, <1>9 DEF Keeper!Clear, Keeper!Give
<1> QED BY <1>10 DEF Keeper!Next

(* The pass between its calls is done with names, and gives no order.      *)
LEMMA PassesOn ==
  ASSUME TypeOK, FatalInv, CustodyInv,
         List \/ BeginPass \/ EndSweep \/ Skip \/ EndReconcile \/ RemoveNetworks
  PROVE  [Keeper!Next]_Keeper!vars
<1>1. UNCHANGED <<ctr, records, track, call>>
  BY DEF List, BeginPass, EndSweep, Skip, EndReconcile, RemoveNetworks,
         engineVars, memVars, callVars
<1>2. OrderOf(call)' = OrderOf(call)
  BY <1>1 DEF OrderOf
<1>3. Overlooked' \subseteq Overlooked
  <2>1. CASE List \/ RemoveNetworks \/ EndReconcile
    BY <2>1 DEF List, RemoveNetworks, EndReconcile, Overlooked
  <2>2. CASE BeginPass
    BY <2>2 DEF BeginPass, CustodyInv, Overlooked, engineVars
  <2>3. CASE EndSweep \/ Skip
    BY <2>3 DEF EndSweep, Skip, Overlooked, engineVars, callVars
  <2> QED BY <2>1, <2>2, <2>3
<1> QED BY <1>1, <1>2, <1>3, SeenSame, Spares

(* What Custody sees of containers that the engine, or time, changes.      *)
LEMMA Lowered ==
  ASSUME NEW c \in Container, NEW b \in BOOLEAN, Running(c)
  PROVE  MadeOf(Exited(c, b)) = Keeper!Down(MadeOf(c))
<1>1. Exited(c, b).hash = c.hash /\ ~ Running(Exited(c, b)) /\ Exited(c, b) # None
  <2>1. Exited(c, b) \in Container
    BY DEF Exited, Container
  <2>2. Exited(c, b).hash = c.hash /\ Exited(c, b).state = "exited"
    BY DEF Exited, Container
  <2> QED BY <2>1, <2>2, AbsentAssumption DEF Running
<1>2. MadeOf(Exited(c, b)) = [state |-> "down", label |-> c.hash]
  BY <1>1 DEF MadeOf
<1>3. MadeOf(c) = [state |-> "up", label |-> c.hash]
  BY AbsentAssumption DEF MadeOf
<1> QED BY <1>2, <1>3 DEF Keeper!Down

(* What the engine leaves is what the order leaves.                        *)
LEMMA LeavesInCustody ==
  ASSUME TypeOK, Flight, Grounds, CustodyInv, call # None, ~ call.done, call.op # "health",
         NEW o \in Outcomes(call, Faulty)
  PROVE  MadeOf(o.ctr) \in Keeper!Leaves(MadeNow[call.name])
<1>0. PICK n : n = call.name
  OBVIOUS
<1> DEFINE c == ctr[n]
           k == OrderOf(call)
<1>1. call \in Call /\ n \in Names /\ MadeNow[n] = MadeOf(c)
  BY <1>0, KeeperSees DEF TypeOK, Call
<1>2. k.act = Act(call.op) /\ (Act(call.op) = "start" => k.label = Hash(call.record.spec))
  BY DEF OrderOf
<1>3. Running(c) => c \in Container
  BY <1>1 DEF TypeOK, Running
<1>4. MadeOf(None) = Keeper!Absent
  BY DEF MadeOf, Running, Keeper!Absent
<1> HIDE DEF k
<1>5. CASE call.op \in {"sweep", "recreate"}
  <2>1. o.ctr = None \/ o.ctr = c \/ (Running(c) /\ o.ctr = Exited(c, TRUE))
    BY <1>0, <1>1, <1>5, Leaves
  <2>2. MadeOf(o.ctr) \in {MadeOf(c), Keeper!Down(MadeOf(c)), Keeper!Absent}
    BY <1>3, <1>4, <2>1, Lowered
  <2>3. k.act = "remove"
    BY <1>2, <1>5 DEF Act
  <2> QED BY <1>0, <1>1, <2>2, <2>3 DEF Keeper!Leaves, k
<1>6. CASE call.op \in {"stop", "restop"}
  <2>1. o.ctr = c \/ (Running(c) /\ \E b \in BOOLEAN : o.ctr = Exited(c, b))
    BY <1>0, <1>1, <1>6, Leaves
  <2>2. MadeOf(o.ctr) \in {MadeOf(c), Keeper!Down(MadeOf(c))}
    BY <1>3, <2>1, Lowered
  <2>3. k.act = "stop"
    BY <1>2, <1>6 DEF Act
  <2> QED BY <1>0, <1>1, <2>2, <2>3 DEF Keeper!Leaves, k
<1>7. ASSUME call.op \in {"start", "run"},
             \/ MadeOf(o.ctr) \in {MadeOf(c), Keeper!Absent}
             \/ MadeOf(o.ctr) = [state |-> "up", label |-> Hash(call.record.spec)]
             \/ MadeOf(o.ctr) = [state |-> "down", label |-> Hash(call.record.spec)]
      PROVE  MadeOf(o.ctr) \in Keeper!Leaves(MadeNow[n])
  <2>1. k.act = "start" /\ k.label = Hash(call.record.spec)
    BY <1>2, <1>7 DEF Act
  <2> QED BY <1>1, <1>7, <2>1 DEF Keeper!Leaves, k
<1>8. CASE call.op = "start"
  <2>1. \/ o.ctr = c
        \/ c # None /\ o.ctr = Started(c, FreshRun(n))
    BY <1>0, <1>1, <1>8, Leaves
  <2>2. CASE o.ctr = c
    BY <1>0, <1>7, <1>8, <2>2
  <2>3. CASE c # None /\ o.ctr = Started(c, FreshRun(n))
    <3>1. c \in Container
      BY <1>1, <2>3 DEF TypeOK
    <3>2. c.hash = Hash(call.record.spec)
      BY <1>0, <1>8 DEF CustodyInv, Grounds, Kept
    <3>3. Started(c, FreshRun(n)).hash = c.hash /\ Started(c, FreshRun(n)).state = "running"
      BY <3>1 DEF Started, Container
    <3>4. Started(c, FreshRun(n)) \in Container
      BY <1>1, <3>1, FreshRunType, SameContainer
    <3>5. MadeOf(o.ctr) = [state |-> "up", label |-> c.hash]
      BY <2>3, <3>3, <3>4, AbsentAssumption DEF MadeOf, Running
    <3> QED BY <1>0, <1>7, <1>8, <3>2, <3>5
  <2> QED BY <2>1, <2>2, <2>3
<1>9. CASE call.op = "run"
  <2>1. \/ o.ctr = NewContainer(call.record.spec, "running", FreshRun(n))
        \/ o.ctr = NewContainer(call.record.spec, "created", 0)
        \/ o.ctr = c \/ o.ctr = None
    BY <1>0, <1>1, <1>9, Leaves
  <2>2. ASSUME NEW st \in {"running", "created"}, NEW r \in Nat,
               o.ctr = NewContainer(call.record.spec, st, r)
        PROVE  MadeOf(o.ctr) = [ state |-> IF st = "running" THEN "up" ELSE "down",
                                 label |-> Hash(call.record.spec) ]
    <3>1. NewContainer(call.record.spec, st, r) \in Container
      <4>1. call.record.spec \in Service
        BY <1>0, <1>1, <1>9 DEF Flight, CallsOfRecords, Call, Record
      <4> QED BY <4>1, HashType DEF NewContainer, Container, Ages
    <3>2. o.ctr.hash = Hash(call.record.spec) /\ o.ctr.state = st
      BY <2>2 DEF NewContainer
    <3> QED BY <2>2, <3>1, <3>2, AbsentAssumption DEF MadeOf, Running
  <2>3. FreshRun(n) \in Nat /\ 0 \in Nat
    BY <1>1, FreshRunType
  <2>4. CASE o.ctr = NewContainer(call.record.spec, "running", FreshRun(n))
    <3>1. MadeOf(o.ctr) = [state |-> "up", label |-> Hash(call.record.spec)]
      BY <2>2, <2>3, <2>4
    <3> QED BY <1>0, <1>7, <1>9, <3>1
  <2>5. CASE o.ctr = NewContainer(call.record.spec, "created", 0)
    <3>1. MadeOf(o.ctr) = [state |-> "down", label |-> Hash(call.record.spec)]
      BY <2>2, <2>3, <2>5
    <3> QED BY <1>0, <1>7, <1>9, <3>1
  <2>6. CASE o.ctr = c \/ o.ctr = None
    BY <1>0, <1>4, <1>7, <1>9, <2>6
  <2> QED BY <2>1, <2>4, <2>5, <2>6
<1> QED BY <1>1, <1>5, <1>6, <1>8, <1>9 DEF Call, Ops

(* The engine obeys the order it was given.                                *)
LEMMA EngineObeys ==
  ASSUME TypeOK, Flight, FatalInv, Grounds, CustodyInv, EngineDo
  PROVE  [Keeper!Next]_Keeper!vars
<1>0. PICK n : n = call.name
  OBVIOUS
<1>1. PICK o \in Outcomes(call, Faulty) :
        /\ ctr' = [ctr EXCEPT ![n] = o.ctr]
        /\ call' = [call EXCEPT !.done = TRUE, !.ok = o.ok]
  BY <1>0 DEF EngineDo, Carry
<1>2. /\ call # None /\ call \in Call /\ ~ call.done /\ n \in Names
      /\ UNCHANGED <<records, track, view, pc, todo>>
  BY <1>0 DEF EngineDo, TypeOK, Call, memVars, passVars
<1>3. call' \in Call /\ call'.op = call.op /\ call'.name = n /\ call'.done
  <2>1. o.ok \in BOOLEAN
    <3>1. call.op = "run" => call.record # None
      BY <1>2 DEF Flight, CallsOfRecords
    <3> QED BY <1>2, <3>1, OutcomesType
  <2>2. \A b \in BOOLEAN :
          LET k == [call EXCEPT !.done = TRUE, !.ok = b]
          IN  k \in Call /\ k.op = call.op /\ k.name = call.name /\ k.done
    BY <1>2 DEF Call
  <2> QED BY <1>0, <1>1, <2>1, <2>2
<1>4. call' # None /\ Idle'
  BY <1>3, AbsentAssumption DEF Idle
<1>5. ctr'[n] = o.ctr /\ \A m \in Names \ {n} : ctr'[m] = ctr[m]
  BY <1>1, <1>2 DEF TypeOK
<1>6. DeclaredNow' = DeclaredNow /\ RestartsDue' = RestartsDue
  BY <1>2, SeenSame
<1>7. OrderOf(call)' = Keeper!NoOrder
  BY <1>4, IdleOrder
<1>8. MadeNow' = [MadeNow EXCEPT ![n] = MadeOf(o.ctr)]
  BY <1>2, <1>5 DEF MadeNow
<1>9. \A m \in Names \ {n} : m \in Overlooked' <=> m \in Overlooked
  BY <1>0, <1>2, <1>3, <1>5 DEF Overlooked
<1>10. CASE call.op = "health"
  <2>1. o.ctr = ctr[n]
    BY <1>0, <1>2, <1>10, Leaves
  <2>2. MadeNow' = MadeNow
    BY <1>1, <2>1, SeenSame DEF TypeOK
  <2>3. Overlooked' = Overlooked
    <3>1. view[n] # None
      BY <1>0, <1>2, <1>10 DEF CustodyInv, Observed
    <3>2. n \notin Overlooked /\ n \notin Overlooked'
      BY <1>2, <3>1 DEF Overlooked
    <3>3. Overlooked \subseteq Names /\ Overlooked' \subseteq Names
      BY DEF Overlooked
    <3> QED BY <1>9, <3>2, <3>3
  <2>4. OrderOf(call) = Keeper!NoOrder
    BY <1>10, IdleOrder DEF Idle
  <2> QED BY <1>6, <1>7, <2>2, <2>3, <2>4, Unseen
<1>11. CASE call.op # "health"
  <2>1. MadeOf(o.ctr) \in Keeper!Leaves(MadeNow[n])
    BY <1>0, <1>2, <1>11, LeavesInCustody
  <2>2. /\ OrderOf(call).name = n /\ OrderOf(call).act = Act(call.op)
        /\ OrderOf(call) # Keeper!NoOrder
    <3>1. OrderOf(call).name = n /\ OrderOf(call).act = Act(call.op)
      BY <1>0, <1>2, <1>11 DEF OrderOf
    <3>2. Act(call.op) # "none"
      BY <1>2, <1>11 DEF Act, Call, Ops
    <3> QED BY <3>1, <3>2 DEF Keeper!NoOrder
  <2>3. MadeOf(o.ctr) = Keeper!Absent <=> o.ctr = None
    BY DEF MadeOf, Keeper!Absent
  <2>4. Act(call.op) = "remove" <=> call.op \in {"sweep", "recreate"}
    BY <1>2, <1>11 DEF Act, Call, Ops
  <2>5. call.op # "sweep" => n \notin Overlooked'
    BY <1>3, <1>4 DEF Overlooked
  <2>6. call.op \notin {"sweep", "run"} => n \notin Overlooked
    BY <1>0, <1>2 DEF CustodyInv, Observed, Overlooked
  <2>7. call.op = "sweep" => (n \in Overlooked' <=> n \in Overlooked /\ o.ctr # None)
    <3> SUFFICES ASSUME call.op = "sweep"
                 PROVE  n \in Overlooked' <=> n \in Overlooked /\ o.ctr # None
      OBVIOUS
    <3>1. pc = "sweep" /\ view[n] = None
      BY <1>0, <1>2 DEF FatalInv, Called
    <3>2. o.ctr # None => ctr[n] # None
      <4>1. o.ctr = None \/ o.ctr = ctr[n] \/ Running(ctr[n])
        BY <1>0, <1>2, Leaves
      <4> QED BY <4>1 DEF Running
    <3>3. n \in Overlooked <=> ctr[n] # None
      BY <1>2, <3>1 DEF Overlooked
    <3>4. n \in Overlooked' <=> o.ctr # None
      BY <1>2, <1>3, <1>5, <3>1 DEF Overlooked
    <3> QED BY <3>2, <3>3, <3>4
  <2>8. Overlooked' = IF Act(call.op) = "remove" /\ MadeOf(o.ctr) # Keeper!Absent
                      THEN Overlooked ELSE Overlooked \ {n}
    <3>1. Overlooked \subseteq Names /\ Overlooked' \subseteq Names
      BY DEF Overlooked
    <3>2. n \in Overlooked' <=> /\ n \in Overlooked
                                /\ Act(call.op) = "remove" /\ MadeOf(o.ctr) # Keeper!Absent
      BY <2>3, <2>4, <2>5, <2>6, <2>7
    <3> QED BY <1>9, <3>1, <3>2
  <2>9. Keeper!Obey
    BY <1>6, <1>7, <1>8, <2>1, <2>2, <2>8 DEF Keeper!Obey
  <2> QED BY <2>9 DEF Keeper!Next
<1> QED BY <1>10, <1>11

(* A step that changes neither the pass nor its call, nor which containers *)
(* there are, overlooks the same and leaves the same order.                *)
LEMMA OrderStands ==
  ASSUME UNCHANGED <<pc, view, todo, call>>,
         \A m \in Names : ctr'[m] = None <=> ctr[m] = None
  PROVE  Overlooked' = Overlooked /\ OrderOf(call)' = OrderOf(call)
BY DEF Overlooked, OrderOf

(* A start or a stop that is stored is asked for.                          *)
LEMMA DesiredSaid ==
  ASSUME TypeOK, NEW n \in Names, NEW desired \in {"running", "stopped"}, NEW more,
         SetDesired(n, desired, more)
  PROVE  [Keeper!Next]_Keeper!vars
<1> DEFINE r == [records[n] EXCEPT !.desired = desired]
<1>1. /\ records[n] \in Record /\ records[n] # None /\ records' = [records EXCEPT ![n] = r]
      /\ UNCHANGED <<ctr, pc, view, todo, call>>
  BY DEF SetDesired, TypeOK, engineVars, passVars
<1>2. r # None /\ r.desired = desired /\ r.spec = records[n].spec
  <2>1. r \in Record
    BY <1>1 DEF Record
  <2> QED BY <1>1, <2>1, NoneAssumption DEF Record
<1>3. DeclaredOf(r) = [DeclaredOf(records[n]) EXCEPT !.state = desired]
  <2> HIDE DEF r
  <2>1. DeclaredOf(r) = [state |-> desired, label |-> Hash(records[n].spec)]
    BY <1>2 DEF DeclaredOf, State
  <2>2. DeclaredOf(records[n]) = [state |-> records[n].desired, label |-> Hash(records[n].spec)]
    BY <1>1 DEF DeclaredOf, State
  <2> QED BY <2>1, <2>2
<1> HIDE DEF r
<1>4. DeclaredNow' = [DeclaredNow EXCEPT ![n].state = desired]
  <2>1. records'[n] = r /\ \A m \in Names \ {n} : records'[m] = records[m]
    BY <1>1 DEF TypeOK
  <2>2. DeclaredNow' = [DeclaredNow EXCEPT ![n] = DeclaredOf(r)]
    BY <2>1 DEF DeclaredNow
  <2>3. DeclaredNow[n] = DeclaredOf(records[n])
    BY KeeperSees
  <2> QED BY <1>3, <2>2, <2>3
<1>5. RestartsDue' = IF desired = "running" THEN RestartsDue \ {n} ELSE RestartsDue
  <2>1. CASE desired = "running"
    <3>1. track' = [track EXCEPT ![n] = Forced] /\ ~ Forced.restart
      BY <2>1, NoRestart DEF SetDesired
    <3> QED BY <2>1, <3>1, RestartSeen
  <2>2. CASE desired # "running"
    BY <2>2, SeenSame DEF SetDesired
  <2> QED BY <2>1, <2>2
<1>6. DeclaredNow[n].state # "none"
  BY <1>1, KeeperSees DEF State, Record
<1>7. Overlooked' = Overlooked /\ OrderOf(call)' = OrderOf(call) /\ MadeNow' = MadeNow
  BY <1>1, OrderStands, SeenSame
<1>8. Keeper!Say(n, desired)
  BY <1>4, <1>5, <1>6, <1>7 DEF Keeper!Say
<1> QED BY <1>8 DEF Keeper!Next

(* The second half of a restart asks for it.                               *)
LEMMA RestartAsked ==
  ASSUME TypeOK, NEW n \in Names, FinishRestart(n)
  PROVE  [Keeper!Next]_Keeper!vars
<1>1. /\ UNCHANGED <<ctr, records, pc, view, todo, call>>
      /\ track' = [track EXCEPT ![n] = [track[n] EXCEPT !.restart = TRUE]]
  BY DEF FinishRestart, engineVars, passVars
<1>2. [track[n] EXCEPT !.restart = TRUE].restart
  BY TrackType DEF Tracking
<1>3. RestartsDue' = RestartsDue \cup {n}
  BY <1>1, <1>2, RestartSeen
<1>4. /\ Overlooked' = Overlooked /\ OrderOf(call)' = OrderOf(call)
      /\ MadeNow' = MadeNow /\ DeclaredNow' = DeclaredNow
  BY <1>1, OrderStands, SeenSame
<1>5. Keeper!AskRestart(n)
  BY <1>3, <1>4 DEF Keeper!AskRestart
<1> QED BY <1>5 DEF Keeper!Next

(* What is declared of a name is a declaration.                            *)
LEMMA DeclaredType ==
  ASSUME NEW recs \in [Names -> Record \cup {None}]
  PROVE  [n \in Names |-> DeclaredOf(recs[n])] \in [Names -> Keeper!Declarations]
<1> SUFFICES ASSUME NEW n \in Names PROVE DeclaredOf(recs[n]) \in Keeper!Declarations
  OBVIOUS
<1>1. CASE recs[n] = None
  BY <1>1 DEF DeclaredOf, State, Keeper!Declarations, Keeper!Undeclared
<1>2. CASE recs[n] # None
  <2>1. recs[n].desired \in {"stopped", "running"} /\ Hash(recs[n].spec) \in Hashes
    BY <1>2, HashType DEF Record
  <2> QED BY <1>2, <2>1 DEF DeclaredOf, State, Keeper!Declarations
<1> QED BY <1>1, <1>2

(* A name that store calls D take from one project and give to another is  *)
(* given another project.                                                  *)
Anew(F, D) ==
  \A n \in Names : Does(D, "drop", n) /\ Does(D, "put", n) =>
    records[n] # None /\ SpecOf(F, n).project # Sp(n).project

(* What calls are done of some are done of all of them.                    *)
LEMMA DoesMore ==
  ASSUME NEW steps, NEW D \in SUBSET steps, NEW op, NEW x, Does(D, op, x)
  PROVE  Does(steps, op, x)
BY DEF Does

(* So it is in every declaration: a file drops no name it puts, and the    *)
(* declaration of every project drops a name only from the project that    *)
(* had it.                                                                 *)
LEMMA StepsAnew ==
  /\ \A f \in Files : \A D \in SUBSET DeclareSteps(f) : Anew({f}, D)
  /\ \A F \in SUBSET Files : \A D \in SUBSET SetSteps(F) : Anew(F, D)
  /\ \A p \in Projects : \A D \in SUBSET DeleteSteps(p) : Anew({}, D)
<1>1. ASSUME NEW f \in Files, NEW D \in SUBSET DeclareSteps(f) PROVE Anew({f}, D)
  <2> SUFFICES ASSUME NEW n \in Names, Does(D, "drop", n), Does(D, "put", n) PROVE FALSE
    BY DEF Anew
  <2>1. Does(DeclareSteps(f), "drop", n) /\ Does(DeclareSteps(f), "put", n)
    BY DoesMore
  <2>2. n \notin Services(f)
    BY <2>1, DeclareDoes
  <2>3. n \in Services(f)
    BY <2>1, DeclareDoes
  <2> QED BY <2>2, <2>3
<1>2. ASSUME NEW F \in SUBSET Files, NEW D \in SUBSET SetSteps(F) PROVE Anew(F, D)
  <2> SUFFICES ASSUME NEW n \in Names, Does(D, "drop", n), Does(D, "put", n)
               PROVE  records[n] # None /\ SpecOf(F, n).project # Sp(n).project
    BY DEF Anew
  <2>1. Does(SetSteps(F), "drop", n) /\ Does(SetSteps(F), "put", n)
    BY DoesMore
  <2>2. n \in Declared(records) /\ ~ \E f \in F : f.project = Sp(n).project /\ n \in Services(f)
    BY <2>1, SetDoes
  <2>3. \E f \in F : n \in Services(f)
    BY <2>1, SetDoes
  <2>4. PICK f \in F : n \in Services(f) /\ SpecOf(F, n) = f.services[n]
    BY <2>3 DEF SpecOf
  <2>5. f.services[n].project = f.project
    BY <2>4, FilesAssumption
  <2>6. f.project # Sp(n).project
    BY <2>2, <2>4
  <2> QED BY <2>2, <2>4, <2>5, <2>6 DEF Declared
<1>3. ASSUME NEW p \in Projects, NEW D \in SUBSET DeleteSteps(p) PROVE Anew({}, D)
  <2> SUFFICES ASSUME NEW n \in Names, Does(D, "drop", n), Does(D, "put", n) PROVE FALSE
    BY DEF Anew
  <2>1. Does(DeleteSteps(p), "put", n)
    BY DoesMore
  <2> QED BY <2>1, DeleteDoes
<1> QED BY <1>1, <1>2, <1>3

(* A container that is given up rests.                                     *)
LEMMA FatalRests ==
  ASSUME FatalInv, CustodyInv, NEW n \in Names, track[n].phase = "fatal"
  PROVE  ~ Running(ctr[n])
<1>1. Resting(ctr[n], n)
  BY DEF FatalInv, Told, GivenUp
<1> QED BY <1>1 DEF Resting, Running, CustodyInv

(* Store calls of a declaration declare.                                   *)
LEMMA CommitDeclares ==
  ASSUME TypeOK, FatalInv, CustodyInv, NEW F \in SUBSET Files, NEW D, Grounded(F, D), Anew(F, D),
         Commit(F, D)
  PROVE  [Keeper!Next]_Keeper!vars
<1>1. /\ records' = RecordsAfter(records, F, D) /\ track' = TrackAfter(D)
      /\ UNCHANGED <<ctr, pc, view, todo, call>>
  BY DEF Commit, engineVars, passVars
<1>2. records' \in [Names -> Record \cup {None}]
  BY <1>1, AfterType DEF TypeOK
<1>3. DeclaredNow' \in [Names -> Keeper!Declarations]
  BY <1>2, DeclaredType DEF DeclaredNow
<1>4. ASSUME NEW n \in Names
      PROVE  \/ track'[n] = track[n]
             \/ Does(D, "drop", n) /\ (track'[n] = ZeroTracking \/ track'[n] = Forced)
             \/ track[n].phase = "fatal" /\ track'[n] = Forced
  BY <1>1, Zenon DEF TrackAfter
<1>5. RestartsDue' \subseteq RestartsDue
  <2> SUFFICES ASSUME NEW n \in Names, track'[n].restart PROVE track[n].restart
    BY DEF RestartsDue
  <2> QED BY <1>4, NoRestart
<1>6. ASSUME NEW n \in RestartsDue \ RestartsDue', Keeper!Runs(n)
      PROVE  DeclaredNow'[n].state = "none" \/ DeclaredNow'[n].label # DeclaredNow[n].label
  <2>1. n \in Names /\ track'[n] # track[n] /\ Running(ctr[n])
    BY <1>6, KeeperSees DEF RestartsDue, Keeper!Runs
  <2>2. Does(D, "drop", n)
    BY <1>4, <2>1, FatalRests
  <2>3. DeclaredNow'[n] = DeclaredOf(records'[n])
    BY <2>1 DEF DeclaredNow
  <2>4. CASE ~ Does(D, "put", n)
    <3>1. records'[n] = None
      BY <1>1, <2>1, <2>2, <2>4 DEF RecordsAfter
    <3> QED BY <2>3, <3>1 DEF DeclaredOf, State
  <2>5. CASE Does(D, "put", n)
    <3>1. records[n] # None /\ SpecOf(F, n).project # Sp(n).project
      BY <2>1, <2>2, <2>5 DEF Anew
    <3>2. records'[n] # None /\ records'[n].spec = SpecOf(F, n)
      <4>1. records'[n] # None
        BY <1>1, <2>1, <2>5, PutDeclares
      <4> QED BY <1>1, <2>1, <2>5, <4>1 DEF RecordsAfter
    <3>3. DeclaredNow'[n].label = Hash(SpecOf(F, n))
      BY <2>3, <3>2 DEF DeclaredOf
    <3>4. DeclaredNow[n].label = Hash(Sp(n))
      BY <2>1, <3>1, KeeperSees DEF Sp
    <3>5. Hash(SpecOf(F, n)).project # Hash(Sp(n)).project
      BY <3>1 DEF Hash
    <3> QED BY <3>3, <3>4, <3>5
  <2> QED BY <2>4, <2>5
<1>7. Overlooked' = Overlooked /\ OrderOf(call)' = OrderOf(call) /\ MadeNow' = MadeNow
  BY <1>1, OrderStands, SeenSame
<1>8. Keeper!Declare
  BY <1>3, <1>5, <1>6, <1>7 DEF Keeper!Declare
<1> QED BY <1>8 DEF Keeper!Next

(* Every API call asks, declares, or says nothing yet.                     *)
LEMMA ApiGiven ==
  ASSUME TypeOK, FatalInv, CustodyInv, Api
  PROVE  [Keeper!Next]_Keeper!vars
<1>1. ASSUME UNCHANGED <<ctr, records, track, pc, view, todo, call>>
      PROVE  [Keeper!Next]_Keeper!vars
  BY <1>1, OrderStands, SeenSame, Unseen
<1>2. ASSUME NEW n \in Names, Start(n) \/ Stop(n) \/ Restart(n)
      PROVE  [Keeper!Next]_Keeper!vars
  BY <1>2, DesiredSaid DEF Start, Stop, Restart
<1>3. ASSUME NEW n \in Names, NEW desired, SetDesiredFails(n, desired)
      PROVE  [Keeper!Next]_Keeper!vars
  BY <1>1, <1>3 DEF SetDesiredFails, engineVars, memVars, passVars, callVars
<1>4. ASSUME NEW req, NEW S, Request(req, S) PROVE [Keeper!Next]_Keeper!vars
  BY <1>1, <1>4 DEF Request, engineVars, memVars, passVars, callVars
<1>5. ASSUME NEW F \in SUBSET Files, NEW steps,
             Carried(F, steps) \/ Completed(F, steps) \/ CutShort(F, steps),
             \A D \in SUBSET steps : Grounded(F, D) /\ Anew(F, D)
      PROVE  [Keeper!Next]_Keeper!vars
  <2>1. PICK D \in SUBSET steps : Commit(F, D)
    BY <1>5, CarriedSteps DEF Done
  <2> QED BY <1>5, <2>1, CommitDeclares
<1>6. ASSUME NEW f \in Files, FinishPut(f) PROVE [Keeper!Next]_Keeper!vars
  <2>1. CASE Conflict(f)
    BY <1>1, <1>6, <2>1 DEF FinishPut, engineVars, memVars, passVars, callVars
  <2>2. CASE ~ Conflict(f)
    BY <1>5, <1>6, <2>2, StepsGrounded, StepsAnew DEF FinishPut
  <2> QED BY <2>1, <2>2
<1>7. ASSUME NEW F \in SUBSET Files, FinishSet(F) PROVE [Keeper!Next]_Keeper!vars
  BY <1>5, <1>7, StepsGrounded, StepsAnew DEF FinishSet
<1>8. ASSUME NEW p \in Projects, DeleteProject(p) PROVE [Keeper!Next]_Keeper!vars
  <2>1. Completed({}, DeleteSteps(p)) \/ CutShort({}, DeleteSteps(p))
    BY <1>8 DEF DeleteProject
  <2> QED BY <1>5, <2>1, StepsGrounded, StepsAnew
<1>9. CASE FinishRequest
  BY <1>6, <1>7, <1>9, RestartAsked DEF FinishRequest
<1> QED BY <1>2, <1>3, <1>4, <1>8, <1>9 DEF Api, PutProject, PutProjects

(* The start of the daemon declares what the store has.                    *)
LEMMA StartDaemonDeclares ==
  ASSUME TypeOK, StartDaemon
  PROVE  [Keeper!Next]_Keeper!vars
<1>1. /\ pc = "down" /\ pc' = "idle" /\ records' = Loaded
      /\ UNCHANGED <<ctr, track, view, todo, call>>
  BY DEF StartDaemon, engineVars, callVars
<1>2. DeclaredNow' \in [Names -> Keeper!Declarations]
  BY <1>1, LoadedType, DeclaredType DEF DeclaredNow
<1>3. /\ Overlooked' = Overlooked /\ OrderOf(call)' = OrderOf(call)
      /\ MadeNow' = MadeNow /\ RestartsDue' = RestartsDue
  BY <1>1, SeenSame DEF Overlooked, OrderOf
<1>4. Keeper!Declare
  BY <1>2, <1>3 DEF Keeper!Declare
<1> QED BY <1>4 DEF Keeper!Next

(* A container exits, or time passes.                                      *)
LEMMA EnvironmentGiven ==
  ASSUME TypeOK, NoDisturbance, Environment
  PROVE  [Keeper!Next]_Keeper!vars
<1> PICK n \in Names :
      \/ ContainerExits(n) \/ RunConfirmed(n) \/ RunIsLong(n)
      \/ GapEnds(n) \/ CheckComesDue(n)
      \/ HandRun(n) \/ HandStart(n) \/ HandRemove(n)
  BY DEF Environment
<1>1. ~ (HandRun(n) \/ HandStart(n) \/ HandRemove(n))
  BY DEF HandRun, HandStart, HandRemove, ByHand, Spend, NoDisturbance
<1>2. UNCHANGED <<records, pc, view, todo, call>>
  BY <1>1
  DEF ContainerExits, RunConfirmed, RunIsLong, GapEnds, CheckComesDue, memVars, passVars, callVars
<1>3. ASSUME NEW c \in Container, Running(ctr[n]), ctr' = [ctr EXCEPT ![n] = c]
      PROVE  /\ MadeNow' = [MadeNow EXCEPT ![n] = MadeOf(c)]
             /\ \A m \in Names : ctr'[m] = None <=> ctr[m] = None
  <2>1. ctr'[n] = c /\ \A m \in Names \ {n} : ctr'[m] = ctr[m]
    BY <1>3 DEF TypeOK
  <2>2. c # None /\ ctr[n] # None
    BY <1>3, AbsentAssumption DEF Running
  <2> QED BY <2>1, <2>2 DEF MadeNow
<1>4. CASE ContainerExits(n)
  <2>1. PICK b \in BOOLEAN : ctr' = [ctr EXCEPT ![n] = Exited(ctr[n], b)]
    BY <1>4 DEF ContainerExits
  <2>2. Running(ctr[n]) /\ ctr[n] \in Container /\ track' = track
    BY <1>4 DEF ContainerExits, TypeOK, Running, memVars
  <2>3. Exited(ctr[n], b) \in Container
    BY <2>2, SameContainer
  <2>4. MadeNow' = [MadeNow EXCEPT ![n] = Keeper!Down(MadeNow[n])]
    <3>1. MadeNow' = [MadeNow EXCEPT ![n] = MadeOf(Exited(ctr[n], b))]
      BY <1>3, <2>1, <2>2, <2>3
    <3>2. MadeOf(Exited(ctr[n], b)) = Keeper!Down(MadeOf(ctr[n]))
      BY <2>2, Lowered
    <3>3. MadeOf(ctr[n]) = MadeNow[n]
      BY KeeperSees
    <3> QED BY <3>1, <3>2, <3>3
  <2>5. Keeper!Runs(n)
    BY <2>2, KeeperSees DEF Keeper!Runs
  <2>6. /\ Overlooked' = Overlooked /\ OrderOf(call)' = OrderOf(call)
        /\ DeclaredNow' = DeclaredNow /\ RestartsDue' = RestartsDue
    BY <1>2, <1>3, <2>1, <2>2, <2>3, OrderStands, SeenSame
  <2>7. Keeper!Exit(n)
    BY <2>4, <2>5, <2>6 DEF Keeper!Exit
  <2> QED BY <2>7 DEF Keeper!Next
<1>5. CASE RunConfirmed(n) \/ RunIsLong(n)
  <2>1. PICK ran \in {"ok", "long"} : ctr' = [ctr EXCEPT ![n].ran = ran]
    BY <1>5 DEF RunConfirmed, RunIsLong
  <2>2. Running(ctr[n]) /\ ctr[n] \in Container /\ track' = track
    BY <1>5 DEF RunConfirmed, RunIsLong, TypeOK, Running, memVars
  <2> DEFINE c == [ctr[n] EXCEPT !.ran = ran]
  <2>3. c \in Container /\ c.hash = ctr[n].hash /\ c.state = ctr[n].state
    BY <2>2 DEF Container, Ages
  <2>4. ctr' = [ctr EXCEPT ![n] = c]
    BY <2>1
  <2> HIDE DEF c
  <2>5. MadeOf(c) = MadeOf(ctr[n])
    BY <2>2, <2>3, AbsentAssumption DEF MadeOf, Running
  <2>6. MadeNow' = MadeNow
    <3>1. MadeNow' = [MadeNow EXCEPT ![n] = MadeOf(c)]
      BY <1>3, <2>2, <2>3, <2>4
    <3>2. MadeOf(c) = MadeNow[n]
      BY <2>5, KeeperSees
    <3> QED BY <3>1, <3>2 DEF MadeNow
  <2>7. /\ Overlooked' = Overlooked /\ OrderOf(call)' = OrderOf(call)
        /\ DeclaredNow' = DeclaredNow /\ RestartsDue' = RestartsDue
    BY <1>2, <1>3, <2>2, <2>3, <2>4, OrderStands, SeenSame
  <2> QED BY <2>6, <2>7, Unseen
<1>6. CASE GapEnds(n) \/ CheckComesDue(n)
  <2>1. /\ ctr' = ctr
        /\ \/ track' = [track EXCEPT ![n] = [track[n] EXCEPT !.due = TRUE]]
           \/ track' = [track EXCEPT ![n] = [track[n] EXCEPT !.check = "due"]]
    BY <1>6 DEF GapEnds, CheckComesDue, engineVars
  <2>2. /\ [track[n] EXCEPT !.due = TRUE].restart = track[n].restart
        /\ [track[n] EXCEPT !.check = "due"].restart = track[n].restart
    BY TrackType DEF Tracking
  <2>3. RestartsDue' = RestartsDue
    <3>1. RestartsDue' = IF track[n].restart THEN RestartsDue \cup {n} ELSE RestartsDue \ {n}
      BY <2>1, <2>2, RestartSeen
    <3> QED BY <3>1, KeeperSees
  <2> QED BY <1>2, <2>1, <2>3, OrderStands, SeenSame, Unseen
<1> QED BY <1>1, <1>4, <1>5, <1>6

(* The start is Custody's.                                                 *)
LEMMA InitKeeper == Init => Keeper!Init
<1> SUFFICES ASSUME Init PROVE Keeper!Init
  OBVIOUS
<1>1. MadeNow = [n \in Names |-> Keeper!Absent]
  BY DEF Init, Empty, MadeNow, MadeOf, Running, Keeper!Absent
<1>2. DeclaredNow = [n \in Names |-> Keeper!Undeclared]
  BY DEF Init, Empty, DeclaredNow, DeclaredOf, State, Keeper!Undeclared
<1>3. RestartsDue = {}
  <2>1. ~ ZeroTracking.restart
    BY Zenon DEF ZeroTracking
  <2> QED BY <2>1 DEF Init, RestartsDue
<1>4. Overlooked = {}
  BY DEF Init, Overlooked
<1>5. OrderOf(call) = Keeper!NoOrder
  BY IdleOrder DEF Init, Idle
<1> QED BY <1>1, <1>2, <1>3, <1>4, <1>5 DEF Keeper!Init

(* Every step is one of Custody, or none of it.                            *)
LEMMA NextKeeper ==
  TypeOK /\ Flight /\ FatalInv /\ Grounds /\ CustodyInv /\ [Next]_vars
    => [Keeper!Next]_Keeper!vars
<1> SUFFICES ASSUME TypeOK, Flight, FatalInv, Grounds, CustodyInv, [Next]_vars
             PROVE  [Keeper!Next]_Keeper!vars
  OBVIOUS
<1>1. NoDisturbance /\ ~ Failure
  BY NoFailure DEF FatalInv
<1>2. CASE Pass
  BY <1>2, PassesOn, SweepGiven, ReconcileGiven, EngineObeys, ReturnGiven DEF Pass
<1>3. CASE UNCHANGED vars
  BY <1>3, OrderStands, SeenSame, Unseen DEF vars
<1> QED BY <1>1, <1>2, <1>3, ApiGiven, StartDaemonDeclares, EnvironmentGiven DEF Next

(* The daemon acts on its containers only by orders that follow from what  *)
(* is declared of them, one at a time, each carried out as it was given    *)
(* however declarations, exits and failed calls interleave, and forgets no *)
(* restart, as long as it does not crash and nobody runs or removes        *)
(* containers by hand.                                                     *)
THEOREM ContainersInCustody ==
  ASSUME Crashes = 0, Hands = 0
  PROVE  Spec => ActsInCustody
<1>1. Init => FatalInv /\ Labelled /\ Grounds /\ CustodyInv
  <2>1. Init => Labelled /\ Grounds
    BY DEF Init, Empty, Labelled, Grounds
  <2> QED BY <2>1, InitFatal, InitCustody
<1>2. Inv => TypeOK /\ Flight
  BY DEF Inv
<1>3. Spec => Keeper!Init /\ [][Keeper!Next]_Keeper!vars
  BY <1>1, <1>2, InitInv, NextInv, NextFatal, NextGrounds, NextCustody, InitKeeper, NextKeeper, PTL
  DEF Spec
<1> QED BY <1>3 DEF ActsInCustody, Keeper!Spec
=============================================================================
