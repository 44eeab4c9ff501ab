------------------------- MODULE RestartClockProofs -------------------------
(***************************************************************************)
(* Proofs about the restarts of a container in time, for every policy, all *)
(* restart timings, any length of a tick and any number of disturbances.   *)
(***************************************************************************)
EXTENDS RestartClock, TLAPS

(* Whole seconds: what a difference of stamps says of the instants.        *)
LEMMA Scale ==
  ASSUME NEW S \in Nat \ {0}, NEW x \in Int, NEW y \in Int, x <= y
  PROVE  S * x <= S * y
OBVIOUS

LEMMA DivBounds ==
  ASSUME NEW S \in Nat \ {0}, NEW x \in Int
  PROVE  x \div S \in Int /\ S * (x \div S) <= x /\ x < S * (x \div S) + S
OBVIOUS

(* Stamps less than n seconds apart are of instants less than n seconds    *)
(* apart.                                                                  *)
LEMMA StampsNear ==
  ASSUME NEW S \in Nat \ {0}, NEW a \in Int, NEW b \in Int, NEW n \in Int,
         (b \div S) - (a \div S) < n
  PROVE  b - a < n * S
<1> DEFINE p == a \div S  q == b \div S
<1>1. p \in Int /\ q \in Int /\ S * p <= a /\ b < S * q + S
  BY DivBounds
<1>2. q + 1 - p \in Int /\ q + 1 - p <= n
  BY <1>1
<1> HIDE DEF p, q
<1>3. S * (q + 1 - p) <= S * n
  BY <1>2, Scale
<1> QED BY <1>1, <1>3

(* Stamps more than n seconds apart are of instants more than n seconds    *)
(* apart.                                                                  *)
LEMMA StampsFar ==
  ASSUME NEW S \in Nat \ {0}, NEW a \in Int, NEW b \in Int, NEW n \in Int,
         (b \div S) - (a \div S) > n
  PROVE  b - a > n * S
<1> DEFINE p == a \div S  q == b \div S
<1>1. p \in Int /\ q \in Int /\ S * q <= b /\ a < S * p + S
  BY DivBounds
<1>2. q - p - 1 \in Int /\ n <= q - p - 1
  BY <1>1
<1> HIDE DEF p, q
<1>3. S * n <= S * (q - p - 1)
  BY <1>2, Scale
<1> QED BY <1>1, <1>3

(* A later instant has no earlier stamp. *)
LEMMA StampsOrdered ==
  ASSUME NEW S \in Nat \ {0}, NEW a \in Int, NEW b \in Int, a <= b
  PROVE  a \div S <= b \div S
<1> DEFINE p == a \div S  q == b \div S
<1>1. p \in Int /\ q \in Int /\ S * p <= a /\ b < S * q + S
  BY DivBounds
<1> HIDE DEF p, q
<1>2. SUFFICES ASSUME q + 1 <= p PROVE FALSE
  BY <1>1 DEF p, q
<1>3. S * (q + 1) <= S * p
  BY <1>1, <1>2, Scale
<1> QED BY <1>1, <1>3

LEMMA GapType == ASSUME NEW n \in Nat PROVE Gap(n) \in Nat
BY SecondAssumption, TimingsAssumption DEF Gap

-----------------------------------------------------------------------------
(* The inductive invariant.                                                *)

(* Until the clock is set, the stamps of a container are those of its      *)
(* instants, which are after the boot.                                     *)
Placed(c) ==
  /\ c.state # "none" => c.startedAt = (c.began + Epoch) \div Second /\ c.began >= 0
  /\ c.state = "exited" => c.exitedAt = (c.ended + Epoch) \div Second /\ c.ended >= 0

Stamps ==
  ~ stepped => /\ skew = Epoch /\ bootTime = Epoch \div Second
               /\ Placed(ctr) /\ Placed(seen)

(* What a pass and a start in flight go together with.                     *)
Flight ==
  /\ call.state # "none" => pass = "idle"
  /\ call.state # "none" /\ call.touched => t.phase = "none"
  /\ call.state = "started" => ctr.state # "none"
  /\ seen.state # "none" => ctr.state # "none"
  /\ t.phase \in {"starting", "running", "exited"} =>
       ctr.state # "none" /\ (pass = "listed" => seen.state # "none")

(* The next deadline is the gap owed after the last start.                 *)
Pacing ==
  /\ tally.last <= now
  /\ call.state # "none" /\ ~ call.touched => call.at = tally.last
  /\ t.phase = "none" /\ (call.state = "none" \/ call.touched) => tally.owed = 0
  /\ t.phase = "backoff" /\ call.state = "none" => t.nextAttempt >= tally.last + tally.owed

(* An attempt that counts was refused or truly short. *)
Counted == ~ stepped => t.startAttempts <= tally.short

(* A start is in flight, and a container given up or in a gap waits, only  *)
(* when nothing runs; so a pass sees an exited container as it is.         *)
Resting ==
  /\ pass = "idle" => seen.state = "none"
  /\ pass = "listed" /\ seen.state # "running" => ctr = seen
  /\ \/ call.state \in {"asked", "refused"}
     \/ t.phase \in {"backoff", "fatal"} /\ call.state # "started"
     => ctr.state # "running" /\ seen.state # "running"

(* A gap that follows an exit follows one that calls for a restart, within *)
(* the restarts there are.                                                 *)
Decisions ==
  ~ stepped =>
    /\ call.state # "none" /\ ~ call.touched => t.phase \in {"none", "backoff"}
    /\ t.phase = "backoff" /\ call.state # "started" /\ ctr.state = "exited"
       /\ t.handledExit = ctr.exitedAt => ExitCallsForRestart
    /\ MaxRestarts > 0 /\ t.phase # "fatal" => t.restarts <= MaxRestarts

(* Tallies begin with no exit noted, and count every long enough run. *)
Repeats ==
  /\ t.phase = "none" => t.handledExit = 0
  /\ tally.again <= t.restarts

IInv ==
  /\ TypeOK /\ Stamps /\ Flight /\ Pacing /\ Counted /\ FatalDeserved
  /\ Resting /\ Decisions /\ Repeats

-----------------------------------------------------------------------------
(* Types.                                                                  *)

LEMMA BackoffType ==
  ASSUME NEW track \in Tracking, NEW n \in Nat, NEW most \in Nat, NEW from \in Int
  PROVE  Backoff(track, n, most, from) \in Tracking
<1>1. from + Gap(n) \in Int
  BY GapType
<1> QED BY <1>1 DEF Backoff, Tracking, Phases

LEMMA NotedType ==
  ASSUME TypeOK PROVE Noted \in Tracking /\ NotedTally \in Tally
BY DEF TypeOK, Noted, NotedTally, Tracking, Tally, Container

LEMMA BlankType ==
  ASSUME now \in Nat
  PROVE  Blank \in Tracking /\ NoTally \in Tally /\ NoCall \in Call /\ NoContainer \in Container
<1>1. 0 \in Int /\ 0 \in Nat /\ now \in Int
  OBVIOUS
<1> QED BY <1>1, Zenon DEF Blank, NoTally, NoCall, NoContainer, Tracking, Phases, Tally, Call, Container

LEMMA IssuedType ==
  ASSUME TypeOK, NEW tl \in Tally PROVE Issued(tl) \in Tally
<1>1. Gap(1) \in Int /\ now \in Int
  BY GapType DEF TypeOK
<1> QED BY <1>1, Zenon DEF Issued, Tally

LEMMA IssueType == ASSUME TypeOK, IssueStart PROVE call' \in Call
<1>1. now \in Int
  BY DEF TypeOK
<1> QED BY <1>1, Zenon DEF IssueStart, Call

(* The tally after an attempt that is to be repeated after gap n. *)
LEMMA OwedType ==
  ASSUME NEW tl \in Tally, NEW n \in Nat
  PROVE  /\ [tl EXCEPT !.owed = Gap(n)] \in Tally
         /\ [tl EXCEPT !.owed = Gap(n), !.short = tl.short + 1] \in Tally
<1>1. Gap(n) \in Int /\ tl.short + 1 \in Nat
  BY GapType DEF Tally
<1> QED BY <1>1, Zenon DEF Tally

(* What the decision on an exit after a run leaves of the tally. *)
LEMMA RunTally ==
  ASSUME TypeOK, NEW n \in Nat,
         tally' = [NotedTally EXCEPT !.owed = Gap(n), !.again = IF TrulyShort THEN @ ELSE @ + 1]
  PROVE  /\ tally' \in Tally
         /\ tally'.last = NotedTally.last /\ tally'.owed = Gap(n)
         /\ tally'.short = NotedTally.short /\ tally'.again <= NotedTally.again + 1
<1> DEFINE k == IF TrulyShort THEN NotedTally.again ELSE NotedTally.again + 1
<1>1. NotedTally \in Tally
  BY NotedType
<1>2. NotedTally.again \in Nat
  BY <1>1 DEF Tally
<1>3. k \in Nat /\ k <= NotedTally.again + 1
  BY <1>2
<1>4. tally' = [NotedTally EXCEPT !.owed = Gap(n), !.again = k]
  BY <1>1, Zenon DEF Tally
<1>5. Gap(n) \in Int
  BY GapType
<1> HIDE DEF k
<1>6. tally' \in Tally
  BY <1>1, <1>3, <1>4, <1>5, Zenon DEF Tally
<1>7. /\ tally'.last = NotedTally.last /\ tally'.owed = Gap(n)
      /\ tally'.short = NotedTally.short /\ tally'.again = k
  BY <1>1, <1>4, Zenon DEF Tally
<1> QED BY <1>3, <1>6, <1>7

LEMMA StampType == ASSUME TypeOK PROVE Stamp(now) \in Int /\ BootStamp \in Int
BY SecondAssumption, DivBounds DEF TypeOK, Stamp, BootStamp

LEMMA InitIInv == Init => IInv
<1> SUFFICES ASSUME Init PROVE IInv
  OBVIOUS
<1>1. TypeOK
  <2>1. now \in Nat /\ skew \in Nat /\ budget \in Nat /\ bootTime \in Int
    BY SecondAssumption, EpochAssumption, BoundsAssumption, DivBounds DEF Init, BootStamp
  <2>2. t \in Tracking /\ tally \in Tally /\ call \in Call /\ ctr \in Container /\ seen \in Container
    BY <2>1, BlankType DEF Init
  <2> QED BY <2>1, <2>2 DEF Init, TypeOK
<1>2. t.phase = "none" /\ t.startAttempts = 0 /\ tally = [last |-> 0, owed |-> 0, short |-> 0, again |-> 0]
      /\ call.state = "none" /\ ctr.state = "none" /\ seen.state = "none"
  BY DEF Init, Blank, NoTally, NoCall, NoContainer
<1>3. Stamps /\ Flight
  BY <1>2 DEF Init, BootStamp, Stamps, Placed, Flight
<1>4. Pacing
  BY <1>2 DEF Init, Pacing
<1>5. Counted /\ FatalDeserved
  BY <1>2 DEF Counted, FatalDeserved
<1>6. t.restarts = 0 /\ t.handledExit = 0
  BY DEF Init, Blank
<1>7. seen = NoContainer /\ ctr = NoContainer /\ pass = "idle"
  BY DEF Init
<1>8. Resting
  BY <1>2, <1>7 DEF Resting
<1>9. Decisions /\ Repeats
  BY <1>2, <1>6, PolicyAssumption DEF Decisions, Repeats
<1> QED BY <1>1, <1>3, <1>4, <1>5, <1>8, <1>9 DEF IInv

(* Every step keeps the types. *)
LEMMA TypeStep == ASSUME TypeOK, [Next]_vars PROVE TypeOK'
<1>1. CASE UNCHANGED vars
  BY <1>1 DEF TypeOK, vars
<1>2. CASE List
  BY <1>2 DEF List, TypeOK
<1>3. CASE ReconcileRunning
  BY <1>3, BlankType DEF ReconcileRunning, Reconciling, TypeOK, Tracking, Phases
<1>4. CASE ReconcileNothing
  BY <1>4, BlankType DEF ReconcileNothing, Reconciling, TypeOK
<1>5. CASE ReconcileFresh
  <2>1. t' \in Tracking /\ tally' \in Tally
    BY <1>5, BlankType, IssuedType DEF ReconcileFresh, TypeOK
  <2>2. call' \in Call
    BY <1>5, IssueType DEF ReconcileFresh
  <2> QED BY <1>5, <2>1, <2>2, BlankType DEF ReconcileFresh, Reconciling, TypeOK
<1>6. CASE ReconcileDue
  <2>1. tally' \in Tally
    BY <1>6, IssuedType DEF ReconcileDue, TypeOK
  <2>2. call' \in Call
    BY <1>6, IssueType DEF ReconcileDue
  <2> QED BY <1>6, <2>1, <2>2, BlankType DEF ReconcileDue, Reconciling, TypeOK
<1>7. CASE ExitStays
  <2>1. t' \in Tracking /\ tally' \in Tally
    BY <1>7, NotedType DEF ExitStays, Tracking, Phases
  <2> QED BY <1>7, <2>1, BlankType DEF ExitStays, Exit, Reconciling, TypeOK
<1>8. CASE ExitNeverRan
  <2> DEFINE n == Noted.startAttempts + 1
  <2>1. n \in Nat /\ [Noted EXCEPT !.startAttempts = n] \in Tracking
    BY NotedType DEF Tracking
  <2> HIDE DEF n
  <2>2. now \in Int /\ StartRetries \in Nat
    BY TimingsAssumption DEF TypeOK
  <2>3. t' = Backoff([Noted EXCEPT !.startAttempts = n], n, StartRetries, now)
        /\ tally' = [NotedTally EXCEPT !.owed = Gap(n), !.short = IF TrulyShort THEN @ + 1 ELSE @]
    BY <1>8, Zenon DEF ExitNeverRan, n
  <2>4. t' \in Tracking
    BY <2>1, <2>2, <2>3, BackoffType
  <2>5. tally' \in Tally
    <3>1. CASE TrulyShort
      <4>1. tally' = [NotedTally EXCEPT !.owed = Gap(n), !.short = NotedTally.short + 1]
        BY <2>3, <3>1
      <4> QED BY <2>1, <4>1, NotedType, OwedType
    <3>2. CASE ~ TrulyShort
      <4>1. NotedTally \in Tally
        BY NotedType
      <4>2. tally' = [NotedTally EXCEPT !.owed = Gap(n)]
        BY <2>3, <3>2, <4>1 DEF Tally
      <4> QED BY <2>1, <4>1, <4>2, OwedType
    <3> QED BY <3>1, <3>2
  <2> QED BY <1>8, <2>4, <2>5, BlankType DEF ExitNeverRan, Exit, Reconciling, TypeOK
<1>9. CASE ExitOfRun
  <2> DEFINE n == Noted.restarts + 1
             most == IF MaxRestarts = 0 THEN n ELSE MaxRestarts
  <2>1. n \in Nat /\ most \in Nat /\ [Noted EXCEPT !.restarts = n] \in Tracking
    BY NotedType, PolicyAssumption DEF Tracking
  <2>2. now \in Int
    BY DEF TypeOK
  <2>3. t' \in Tracking
    BY <1>9, <2>1, <2>2, BackoffType DEF ExitOfRun
  <2>4. tally' \in Tally
    BY <1>9, <2>1, RunTally DEF ExitOfRun
  <2> QED BY <1>9, <2>3, <2>4, BlankType DEF ExitOfRun, Exit, Reconciling, TypeOK
<1>10. CASE PodmanStarts
  <2>1. now \in Int /\ Stamp(now) \in Int /\ NoContainer \in Container
    BY StampType, BlankType DEF TypeOK
  <2>2. ctr' \in Container
    BY <1>10, <2>1, Zenon DEF PodmanStarts, Container
  <2> QED BY <1>10, <2>2 DEF PodmanStarts, TypeOK, Call
<1>11. CASE PodmanRefuses
  BY <1>11 DEF PodmanRefuses, Disturb, TypeOK, Call
<1>12. CASE ReturnStale
  BY <1>12, BlankType DEF ReturnStale, TypeOK
<1>13. CASE ReturnStarted
  BY <1>13, BlankType DEF ReturnStarted, TypeOK, Tracking, Phases
<1>14. CASE ReturnRefused
  <2> DEFINE n == t.startAttempts + 1
  <2>1. n \in Nat /\ [t EXCEPT !.force = FALSE, !.startAttempts = n] \in Tracking /\ call.at \in Int
    <3>1. t \in Tracking /\ call \in Call
      BY DEF TypeOK
    <3>2. n \in Nat /\ call.at \in Int
      BY <3>1 DEF Tracking, Call
    <3> QED BY <3>1, <3>2, Zenon DEF Tracking
  <2>2. t' \in Tracking
    BY <1>14, <2>1, BackoffType, TimingsAssumption DEF ReturnRefused
  <2>3. tally' \in Tally
    BY <1>14, <2>1, OwedType DEF ReturnRefused, TypeOK
  <2> QED BY <1>14, <2>2, <2>3, BlankType DEF ReturnRefused, TypeOK
<1>15. CASE Start
  <2>1. t' \in Tracking
    BY <1>15, BlankType DEF Start, TypeOK, Tracking
  <2>2. tally' \in Tally /\ call' \in Call
    BY <1>15, BlankType DEF Start, TypeOK, Call
  <2> QED BY <1>15, <2>1, <2>2 DEF Start, Disturb, TypeOK
<1>16. CASE DaemonRestarts
  BY <1>16, BlankType, StampType DEF DaemonRestarts, Disturb, TypeOK
<1>17. CASE ContainerExits
  <2>1. now \in Int /\ Stamp(now) \in Int /\ ctr \in Container
    BY StampType DEF TypeOK
  <2>2. ctr' \in Container
    BY <1>17, <2>1, Zenon DEF ContainerExits, Container
  <2> QED BY <1>17, <2>2 DEF ContainerExits, TypeOK
<1>18. CASE Tick
  BY <1>18 DEF Tick, TypeOK
<1>19. CASE ClockStep
  BY <1>19, SecondAssumption, EpochAssumption DEF ClockStep, Disturb, TypeOK
<1> QED BY <1>1, <1>2, <1>3, <1>4, <1>5, <1>6, <1>7, <1>8, <1>9, <1>10, <1>11, <1>12, <1>13,
           <1>14, <1>15, <1>16, <1>17, <1>18, <1>19 DEF Next, Reconcile

-----------------------------------------------------------------------------
(* Stamps.                                                                 *)

LEMMA StampsStep == ASSUME IInv, [Next]_vars PROVE Stamps'
<1> SUFFICES ASSUME ~ stepped' PROVE Stamps'
  BY DEF Stamps
<1>1. ~ stepped
  BY DEF Next, Reconcile, vars, List, ReconcileRunning, ReconcileNothing, ReconcileFresh,
         ReconcileDue, ExitStays, ExitNeverRan, ExitOfRun, PodmanStarts, PodmanRefuses,
         ReturnStale, ReturnStarted, ReturnRefused, Start, DaemonRestarts, ContainerExits,
         Tick, ClockStep
<1>2. /\ skew = Epoch /\ bootTime = Epoch \div Second /\ Placed(ctr) /\ Placed(seen)
      /\ ctr \in Container /\ seen \in Container /\ now \in Nat
  BY <1>1 DEF IInv, Stamps, TypeOK
<1>3. Placed(NoContainer)
  BY DEF Placed, NoContainer
<1>4. CASE PodmanStarts
  <2>1. ctr'.state = "running" /\ ctr'.began = now /\ ctr'.startedAt = (now + Epoch) \div Second
    BY <1>2, <1>4 DEF PodmanStarts, NoContainer, Stamp
  <2> QED BY <1>2, <1>4, <2>1 DEF PodmanStarts, Stamps, Placed
<1>5. CASE ContainerExits
  <2>1. /\ ctr'.state = "exited" /\ ctr'.ended = now /\ ctr'.exitedAt = (now + Epoch) \div Second
        /\ ctr'.began = ctr.began /\ ctr'.startedAt = ctr.startedAt /\ ctr.state = "running"
    BY <1>2, <1>5 DEF ContainerExits, Container, Stamp
  <2> QED BY <1>2, <1>5, <2>1 DEF ContainerExits, Stamps, Placed
<1>6. CASE DaemonRestarts
  BY <1>2, <1>3, <1>6 DEF DaemonRestarts, BootStamp, Stamps
<1>7. CASE List
  BY <1>2, <1>7 DEF List, Stamps
<1>8. CASE Reconcile
  BY <1>2, <1>3, <1>8 DEF Reconcile, ReconcileRunning, ReconcileNothing, ReconcileFresh, ReconcileDue,
     ExitStays, ExitNeverRan, ExitOfRun, Exit, Reconciling, Stamps
<1>9. CASE PodmanRefuses \/ ReturnStale \/ ReturnStarted \/ ReturnRefused \/ Start \/ Tick
           \/ UNCHANGED vars
  BY <1>2, <1>9 DEF PodmanRefuses, ReturnStale, ReturnStarted, ReturnRefused, Start, Tick, vars, Stamps
<1>10. ~ ClockStep
  BY DEF ClockStep
<1> QED BY <1>4, <1>5, <1>6, <1>7, <1>8, <1>9, <1>10 DEF Next

(* What the decisions read in them: a run is only short or long in the     *)
(* stamps when it was.                                                     *)
LEMMA Judged ==
  ASSUME IInv, ~ stepped, seen.state = "exited"
  PROVE  /\ Short => TrulyShort
         /\ Long => seen.ended - seen.began > BackoffMaxSeconds * Second
         /\ seen.startedAt >= bootTime
<1> DEFINE a == seen.began + Epoch  b == seen.ended + Epoch
<1>1. /\ seen.startedAt = a \div Second /\ seen.exitedAt = b \div Second
      /\ bootTime = Epoch \div Second /\ seen.began >= 0
  BY DEF IInv, Stamps, Placed
<1>2. /\ seen.began \in Int /\ seen.ended \in Int /\ Epoch \in Nat /\ Second \in Nat \ {0}
      /\ StartSeconds \in Int /\ BackoffMaxSeconds \in Int
  BY SecondAssumption, TimingsAssumption, EpochAssumption DEF IInv, TypeOK, Container
<1>3. a \in Int /\ b \in Int /\ b - a = seen.ended - seen.began /\ Epoch <= a
  BY <1>1, <1>2
<1> HIDE DEF a, b
<1>4. ASSUME Short PROVE TrulyShort
  <2>1. (b \div Second) - (a \div Second) < StartSeconds
    BY <1>1, <1>4 DEF Short, Ran
  <2>2. b - a < StartSeconds * Second
    BY <1>2, <1>3, <2>1, StampsNear
  <2> QED BY <1>3, <2>2 DEF TrulyShort
<1>5. ASSUME Long PROVE seen.ended - seen.began > BackoffMaxSeconds * Second
  <2>1. (b \div Second) - (a \div Second) > BackoffMaxSeconds
    BY <1>1, <1>5 DEF Long, Ran
  <2>2. b - a > BackoffMaxSeconds * Second
    BY <1>2, <1>3, <2>1, StampsFar
  <2> QED BY <1>3, <2>2
<1>6. Epoch \div Second <= a \div Second
  BY <1>2, <1>3, StampsOrdered
<1>7. seen.startedAt >= bootTime
  <2>1. a \div Second \in Int /\ Epoch \div Second \in Int
    BY <1>2, <1>3, DivBounds
  <2> QED BY <1>1, <1>6, <2>1
<1> QED BY <1>4, <1>5, <1>7

-----------------------------------------------------------------------------
(* Passes, starts in flight and their pace.                                *)

LEMMA FlightStep == ASSUME IInv, [Next]_vars PROVE Flight'
<1> USE DEF Flight
<1>1. Flight /\ t \in Tracking /\ call \in Call /\ ctr \in Container
  BY DEF IInv, TypeOK
<1>2. CASE List
  BY <1>1, <1>2 DEF List
<1>3. CASE ReconcileRunning
  BY <1>1, <1>3 DEF ReconcileRunning, Reconciling, NoContainer, Tracking
<1>4. CASE ReconcileNothing
  BY <1>1, <1>4 DEF ReconcileNothing, Reconciling, NoContainer
<1>5. CASE ReconcileFresh
  BY <1>1, <1>5 DEF ReconcileFresh, Reconciling, IssueStart, NoContainer, Blank
<1>6. CASE ReconcileDue
  BY <1>1, <1>6 DEF ReconcileDue, Reconciling, IssueStart, NoContainer
<1>7. CASE ExitStays
  <2>1. t'.phase = "exited" /\ seen.state # "none"
    BY <1>1, <1>7 DEF ExitStays, Exit, Fresh, Noted, Tracking
  <2> QED BY <1>1, <1>7, <2>1 DEF ExitStays, Exit, Reconciling, NoContainer
<1>8. CASE ExitNeverRan
  <2>1. t'.phase \in {"backoff", "fatal"}
    BY <1>1, <1>8 DEF ExitNeverRan, Backoff, Noted, Tracking
  <2> QED BY <1>1, <1>8, <2>1 DEF ExitNeverRan, Exit, Reconciling, NoContainer
<1>9. CASE ExitOfRun
  <2>1. t'.phase \in {"backoff", "fatal"}
    BY <1>1, <1>9 DEF ExitOfRun, Backoff, Noted, Tracking
  <2> QED BY <1>1, <1>9, <2>1 DEF ExitOfRun, Exit, Reconciling, NoContainer
<1>10. CASE PodmanStarts
  BY <1>1, <1>10 DEF PodmanStarts, NoContainer, Call
<1>11. CASE PodmanRefuses
  BY <1>1, <1>11 DEF PodmanRefuses, Call
<1>12. CASE ReturnStale
  BY <1>1, <1>12 DEF ReturnStale, NoCall
<1>13. CASE ReturnStarted
  BY <1>1, <1>13 DEF ReturnStarted, NoCall, Tracking
<1>14. CASE ReturnRefused
  <2>1. t'.phase \in {"backoff", "fatal"}
    BY <1>1, <1>14 DEF ReturnRefused, Backoff, Tracking
  <2> QED BY <1>1, <1>14, <2>1 DEF ReturnRefused, NoCall
<1>15. CASE Start
  BY <1>1, <1>15 DEF Start, Blank, Call
<1>16. CASE DaemonRestarts
  BY <1>1, <1>16 DEF DaemonRestarts, Blank, NoCall, NoContainer
<1>17. CASE ContainerExits
  BY <1>1, <1>17 DEF ContainerExits, Container
<1>18. CASE Tick \/ ClockStep \/ UNCHANGED vars
  BY <1>1, <1>18 DEF Tick, ClockStep, vars
<1> QED BY <1>2, <1>3, <1>4, <1>5, <1>6, <1>7, <1>8, <1>9, <1>10, <1>11, <1>12, <1>13,
           <1>14, <1>15, <1>16, <1>17, <1>18 DEF Next, Reconcile

LEMMA PacingStep == ASSUME IInv, [Next]_vars PROVE Pacing'
<1> USE DEF Pacing
<1>1. /\ Pacing /\ Flight /\ t \in Tracking /\ call \in Call /\ tally \in Tally /\ now \in Nat
      /\ tally.last \in Int /\ tally.owed \in Int /\ t.nextAttempt \in Int /\ call.at \in Int
  BY DEF IInv, TypeOK, Tracking, Call, Tally
<1>2. Gap(1) \in Nat /\ \A n \in Nat : Gap(n) \in Nat
  BY GapType
<1>3. ASSUME IssueStart, \E tl \in Tally : tally' = Issued(tl), now' = now
      PROVE  Pacing'
  <2>1. tally'.last = now /\ tally'.owed = Gap(1)
    BY <1>3 DEF Issued, Tally
  <2>2. call'.state = "asked" /\ call'.at = now /\ ~ call'.touched
    BY <1>3 DEF IssueStart
  <2> QED BY <1>1, <1>3, <2>1, <2>2
<1>5. CASE List
  BY <1>1, <1>5 DEF List
<1>6. CASE ReconcileRunning
  BY <1>1, <1>6 DEF ReconcileRunning, Reconciling, Tracking
<1>7. CASE ReconcileNothing
  BY <1>1, <1>7 DEF ReconcileNothing
<1>8. CASE ReconcileFresh
  <2>1. \E tl \in Tally : tally' = Issued(tl)
    BY <1>1, <1>8, BlankType DEF ReconcileFresh
  <2> QED BY <1>3, <1>8, <2>1 DEF ReconcileFresh
<1>9. CASE ReconcileDue
  BY <1>1, <1>3, <1>9 DEF ReconcileDue
<1>10. CASE ExitStays
  <2>1. t'.phase = "exited"
    BY <1>1, <1>10 DEF ExitStays, Noted, Tracking
  <2>2. tally'.last = tally.last
    BY <1>1, <1>10 DEF ExitStays, NotedTally, Tally
  <2> QED BY <1>1, <1>10, <2>1, <2>2 DEF ExitStays, Exit, Reconciling
<1>11. CASE ExitNeverRan
  <2> DEFINE n == Noted.startAttempts + 1
  <2>1. Noted \in Tracking /\ NotedTally \in Tally /\ NotedTally.last = tally.last
    BY <1>1, NotedType DEF IInv, NotedTally, Tally
  <2>2. n \in Nat /\ [Noted EXCEPT !.startAttempts = n] \in Tracking /\ StartRetries \in Nat
    BY <2>1, TimingsAssumption DEF Tracking
  <2> HIDE DEF n
  <2>3. t' = Backoff([Noted EXCEPT !.startAttempts = n], n, StartRetries, now)
        /\ tally' = [NotedTally EXCEPT !.owed = Gap(n), !.short = IF TrulyShort THEN @ + 1 ELSE @]
    BY <1>11, Zenon DEF ExitNeverRan, n
  <2>4. tally'.last = tally.last /\ tally'.owed = Gap(n)
    BY <2>1, <2>3 DEF Tally
  <2>5. call.state = "none" /\ call' = call /\ now' = now
    BY <1>11 DEF ExitNeverRan, Exit, Reconciling
  <2>6. t'.phase = "fatal" \/ (t'.phase = "backoff" /\ t'.nextAttempt = now + Gap(n))
    BY <2>2, <2>3 DEF Backoff, Tracking
  <2> QED BY <1>1, <1>2, <2>2, <2>4, <2>5, <2>6
<1>12. CASE ExitOfRun
  <2> DEFINE n == Noted.restarts + 1
             most == IF MaxRestarts = 0 THEN n ELSE MaxRestarts
  <2>1. Noted \in Tracking /\ NotedTally \in Tally /\ NotedTally.last = tally.last
    BY <1>1, NotedType DEF IInv, NotedTally, Tally
  <2>2. n \in Nat /\ [Noted EXCEPT !.restarts = n] \in Tracking /\ most \in Nat
    BY <2>1, PolicyAssumption DEF Tracking
  <2>3. t' = Backoff([Noted EXCEPT !.restarts = n], n, most, now)
        /\ tally' = [NotedTally EXCEPT !.owed = Gap(n), !.again = IF TrulyShort THEN @ ELSE @ + 1]
    BY <1>12, Zenon DEF ExitOfRun
  <2> HIDE DEF n, most
  <2>4. tally'.last = tally.last /\ tally'.owed = Gap(n)
    BY <2>1, <2>2, <2>3, RunTally DEF IInv
  <2>5. call.state = "none" /\ call' = call /\ now' = now
    BY <1>12 DEF ExitOfRun, Exit, Reconciling
  <2>6. t'.phase = "fatal" \/ (t'.phase = "backoff" /\ t'.nextAttempt = now + Gap(n))
    BY <2>2, <2>3 DEF Backoff, Tracking
  <2> QED BY <1>1, <1>2, <2>2, <2>4, <2>5, <2>6
<1>13. CASE PodmanStarts
  BY <1>1, <1>13 DEF PodmanStarts, Call
<1>14. CASE PodmanRefuses
  BY <1>1, <1>14 DEF PodmanRefuses, Call
<1>15. CASE ReturnStale
  BY <1>1, <1>15 DEF ReturnStale, NoCall, Flight
<1>16. CASE ReturnStarted
  BY <1>1, <1>16 DEF ReturnStarted, NoCall, Tracking
<1>17. CASE ReturnRefused
  <2> DEFINE n == t.startAttempts + 1
  <2>1. n \in Nat /\ [t EXCEPT !.force = FALSE, !.startAttempts = n] \in Tracking
    <3>1. n \in Nat
      BY <1>1 DEF Tracking
    <3> QED BY <1>1, <3>1, Zenon DEF Tracking
  <2> HIDE DEF n
  <2>2. /\ t' = Backoff([t EXCEPT !.force = FALSE, !.startAttempts = n], n, StartRetries, call.at)
        /\ tally' = [tally EXCEPT !.owed = Gap(n), !.short = @ + 1]
    BY <1>17, Zenon DEF ReturnRefused, n
  <2>3. tally'.last = tally.last /\ tally'.owed = Gap(n)
    BY <1>1, <2>2 DEF Tally
  <2>4. call' = NoCall /\ now' = now /\ call.at = tally.last
    BY <1>1, <1>17 DEF ReturnRefused
  <2>5. t'.phase = "fatal" \/ (t'.phase = "backoff" /\ t'.nextAttempt = call.at + Gap(n))
    BY <2>1, <2>2 DEF Backoff, Tracking
  <2> QED BY <1>1, <1>2, <2>1, <2>3, <2>4, <2>5 DEF NoCall
<1>18. CASE Start
  <2>1. t'.phase = "none" /\ tally'.last = now /\ tally'.owed = 0 /\ now' = now
    BY <1>18 DEF Start, Blank, NoTally
  <2>2. call' = [call EXCEPT !.touched = call.state # "none"]
    BY <1>18 DEF Start
  <2>3. call'.state = call.state /\ (call'.touched <=> call.state # "none")
    BY <1>1, <2>2, Zenon DEF Call
  <2> QED BY <1>1, <2>1, <2>3
<1>19. CASE DaemonRestarts
  BY <1>1, <1>19 DEF DaemonRestarts, Blank, NoTally, NoCall
<1>20. CASE ContainerExits \/ ClockStep \/ UNCHANGED vars
  BY <1>1, <1>20 DEF ContainerExits, ClockStep, vars
<1>21. CASE Tick
  BY <1>1, <1>21 DEF Tick
<1> QED BY <1>5, <1>6, <1>7, <1>8, <1>9, <1>10, <1>11, <1>12, <1>13, <1>14, <1>15, <1>16,
           <1>17, <1>18, <1>19, <1>20, <1>21 DEF Next, Reconcile

-----------------------------------------------------------------------------
(* Attempts.                                                               *)

(* A container that stopped is seen exited. *)
LEMMA ExitSeen == ASSUME IInv, Exit PROVE seen.state = "exited"
BY DEF IInv, TypeOK, Exit, Fresh, Container

LEMMA CountedStep ==
  ASSUME IInv, [Next]_vars, Stamps' PROVE Counted' /\ FatalDeserved'
<1> SUFFICES ASSUME ~ stepped' PROVE t'.startAttempts <= tally'.short /\ FatalDeserved'
  BY DEF Counted, FatalDeserved
<1> USE DEF FatalDeserved
<1>1. ~ stepped
  BY DEF Next, Reconcile, vars, List, ReconcileRunning, ReconcileNothing, ReconcileFresh,
         ReconcileDue, ExitStays, ExitNeverRan, ExitOfRun, PodmanStarts, PodmanRefuses,
         ReturnStale, ReturnStarted, ReturnRefused, Start, DaemonRestarts, ContainerExits,
         Tick, ClockStep
<1>2. /\ t.startAttempts <= tally.short /\ FatalDeserved
      /\ t \in Tracking /\ tally \in Tally
      /\ t.startAttempts \in Nat /\ t.restarts \in Nat /\ tally.short \in Nat
      /\ StartRetries \in Nat /\ MaxRestarts \in Nat
  BY <1>1, TimingsAssumption, PolicyAssumption DEF IInv, Counted, TypeOK, Tracking, Tally
<1>3. /\ Noted \in Tracking /\ NotedTally \in Tally
      /\ Noted.startAttempts \in Nat /\ Noted.restarts \in Nat /\ NotedTally.short \in Nat
      /\ Noted.startAttempts <= NotedTally.short
  <2>1. Noted \in Tracking /\ NotedTally \in Tally
    BY NotedType DEF IInv
  <2>2. Noted.startAttempts <= NotedTally.short
    BY <1>2 DEF Noted, NotedTally, Tracking, Tally
  <2> QED BY <2>1, <2>2 DEF Tracking, Tally
<1>4. CASE ReconcileRunning
  BY <1>2, <1>4 DEF ReconcileRunning, Tracking
<1>5. CASE ReconcileFresh
  <2>1. CASE t' = Blank
    <3>1. tally'.short \in Nat
      BY <1>5, TypeStep DEF IInv, TypeOK, Tally
    <3> QED BY <2>1, <3>1 DEF Blank
  <2>2. CASE t' = t /\ tally' = Issued(tally)
    <3>1. tally'.short = tally.short
      BY <1>2, <2>2, Zenon DEF Issued, Tally
    <3> QED BY <1>1, <1>2, <2>2, <3>1
  <2> QED BY <1>5, <2>1, <2>2 DEF ReconcileFresh
<1>6. CASE ReconcileDue
  BY <1>2, <1>6 DEF ReconcileDue, Issued, Tally
<1>7. CASE ExitStays
  BY <1>3, <1>7 DEF ExitStays, Tracking
<1>8. CASE ExitNeverRan
  <2> DEFINE n == Noted.startAttempts + 1
  <2>1. TrulyShort
    BY <1>1, <1>8, ExitSeen, Judged DEF ExitNeverRan
  <2>2. n \in Nat /\ [Noted EXCEPT !.startAttempts = n] \in Tracking
    BY <1>3 DEF Tracking
  <2>3. n <= NotedTally.short + 1
    BY <1>3
  <2>4. [Noted EXCEPT !.startAttempts = n].startAttempts = n
    BY <1>3 DEF Tracking
  <2> HIDE DEF n
  <2>5. t' = Backoff([Noted EXCEPT !.startAttempts = n], n, StartRetries, now)
        /\ tally' = [NotedTally EXCEPT !.owed = Gap(n), !.short = IF TrulyShort THEN @ + 1 ELSE @]
    BY <1>8, Zenon DEF ExitNeverRan, n
  <2>6. tally'.short = NotedTally.short + 1
    BY <1>3, <2>1, <2>5 DEF Tally
  <2>7. t'.startAttempts = n /\ (t'.phase = "fatal" => n > StartRetries)
    BY <2>2, <2>4, <2>5 DEF Backoff, Tracking
  <2> QED BY <1>2, <1>3, <2>2, <2>3, <2>6, <2>7
<1>9. CASE ExitOfRun
  <2> DEFINE n == Noted.restarts + 1
             most == IF MaxRestarts = 0 THEN n ELSE MaxRestarts
  <2>1. n \in Nat /\ [Noted EXCEPT !.restarts = n] \in Tracking
    BY <1>3 DEF Tracking
  <2>2. n > most => MaxRestarts > 0 /\ n > MaxRestarts
    BY <1>2, <2>1
  <2>3. t' = Backoff([Noted EXCEPT !.restarts = n], n, most, now)
        /\ tally' = [NotedTally EXCEPT !.owed = Gap(n), !.again = IF TrulyShort THEN @ ELSE @ + 1]
    BY <1>9, Zenon DEF ExitOfRun
  <2>4. [Noted EXCEPT !.restarts = n].restarts = n
        /\ [Noted EXCEPT !.restarts = n].startAttempts = Noted.startAttempts
    BY <1>3 DEF Tracking
  <2> HIDE DEF n, most
  <2>5. tally'.short = NotedTally.short
    BY <2>1, <2>3, RunTally DEF IInv
  <2>6. t'.startAttempts = Noted.startAttempts /\ t'.restarts = n /\ (t'.phase = "fatal" => n > most)
    BY <2>1, <2>3, <2>4 DEF Backoff, Tracking
  <2> QED BY <1>3, <2>2, <2>5, <2>6
<1>10. CASE ReturnStarted
  BY <1>2, <1>10 DEF ReturnStarted, Tracking
<1>11. CASE ReturnRefused
  <2> DEFINE n == t.startAttempts + 1
  <2>1. n \in Nat
    BY <1>2
  <2>2. n <= tally.short + 1
    BY <1>2
  <2> HIDE DEF n
  <2>3. [t EXCEPT !.force = FALSE, !.startAttempts = n] \in Tracking
        /\ [t EXCEPT !.force = FALSE, !.startAttempts = n].startAttempts = n
    BY <1>2, <2>1, Zenon DEF Tracking
  <2>4. /\ t' = Backoff([t EXCEPT !.force = FALSE, !.startAttempts = n], n, StartRetries, call.at)
        /\ tally' = [tally EXCEPT !.owed = Gap(n), !.short = @ + 1]
    BY <1>11, Zenon DEF ReturnRefused, n
  <2>5. tally'.short = tally.short + 1
    BY <1>2, <2>4 DEF Tally
  <2>6. t'.startAttempts = n /\ (t'.phase = "fatal" => n > StartRetries)
    BY <2>1, <2>3, <2>4 DEF Backoff, Tracking
  <2> QED BY <1>2, <2>1, <2>2, <2>5, <2>6
<1>12. CASE Start \/ DaemonRestarts
  BY <1>12 DEF Start, DaemonRestarts, Blank, NoTally
<1>13. CASE List \/ ReconcileNothing \/ PodmanStarts \/ PodmanRefuses \/ ReturnStale
            \/ ContainerExits \/ Tick \/ UNCHANGED vars
  BY <1>2, <1>13 DEF List, ReconcileNothing, PodmanStarts, PodmanRefuses, ReturnStale,
     ContainerExits, Tick, vars
<1>14. ~ ClockStep
  BY DEF ClockStep
<1> QED BY <1>4, <1>5, <1>6, <1>7, <1>8, <1>9, <1>10, <1>11, <1>12, <1>13, <1>14 DEF Next, Reconcile

(* Until the clock is set, a container that exited is never taken for one  *)
(* that did not run since the boot.                                        *)
LEMMA FreshNever ==
  ASSUME IInv, ~ stepped, ~ t.force, Fresh, seen.state # "running"
  PROVE  seen.state = "none"
<1>1. SUFFICES ASSUME seen.state = "exited" PROVE FALSE
  BY DEF IInv, TypeOK, Container
<1>2. seen.startedAt >= bootTime /\ seen.startedAt < bootTime
  BY <1>1, Judged DEF Fresh
<1>3. seen.startedAt \in Int /\ bootTime \in Int
  BY DEF IInv, TypeOK, Container
<1> QED BY <1>2, <1>3

-----------------------------------------------------------------------------
(* Decisions.                                                              *)

(* What a decision on an exit leaves of the tracking.                      *)
LEMMA ExitTracked ==
  ASSUME TypeOK, Exit, ExitNeverRan \/ ExitOfRun
  PROVE  /\ t'.phase \in {"backoff", "fatal"} /\ t'.handledExit = seen.exitedAt
         /\ t'.restarts \in {Noted.restarts, Noted.restarts + 1}
         /\ t'.phase = "backoff" /\ MaxRestarts > 0 =>
              t'.restarts = Noted.restarts \/ t'.restarts <= MaxRestarts
<1>1. Noted \in Tracking /\ Noted.handledExit = seen.exitedAt
  BY NotedType DEF Noted, Tracking, TypeOK
<1>2. CASE ExitNeverRan
  BY <1>1, <1>2 DEF ExitNeverRan, Backoff, Tracking
<1>3. CASE ExitOfRun
  BY <1>1, <1>3, PolicyAssumption DEF ExitOfRun, Backoff, Tracking
<1> QED BY <1>2, <1>3

(* And a refused start.                                                    *)
LEMMA RefusedTracked ==
  ASSUME TypeOK, ReturnRefused
  PROVE  /\ t'.phase \in {"backoff", "fatal"}
         /\ t'.handledExit = t.handledExit /\ t'.restarts = t.restarts
BY DEF ReturnRefused, Backoff, TypeOK, Tracking

LEMMA RestingStep == ASSUME IInv, [Next]_vars PROVE Resting'
<1> USE DEF Resting
<1>1. Resting /\ Flight /\ TypeOK /\ t \in Tracking /\ call \in Call
  BY DEF IInv, TypeOK
<1>2. CASE List
  BY <1>1, <1>2 DEF List
<1>3. CASE ReconcileRunning
  <2>1. t'.phase \in {"starting", "running"}
    BY <1>1, <1>3 DEF ReconcileRunning, Tracking
  <2> QED BY <1>1, <1>3, <2>1 DEF ReconcileRunning, Reconciling, NoContainer
<1>4. CASE ReconcileNothing
  BY <1>1, <1>4 DEF ReconcileNothing, Reconciling, NoContainer
<1>5. CASE ReconcileFresh
  BY <1>1, <1>5 DEF ReconcileFresh, Reconciling, NoContainer
<1>6. CASE ReconcileDue
  BY <1>1, <1>6 DEF ReconcileDue, Reconciling, NoContainer
<1>7. CASE ExitStays \/ ExitNeverRan \/ ExitOfRun
  BY <1>1, <1>7 DEF ExitStays, ExitNeverRan, ExitOfRun, Exit, Reconciling, NoContainer
<1>8. CASE PodmanStarts
  BY <1>1, <1>8 DEF PodmanStarts, Call, Flight
<1>9. CASE PodmanRefuses
  BY <1>1, <1>9 DEF PodmanRefuses, Call
<1>10. CASE ReturnStale
  BY <1>1, <1>10 DEF ReturnStale, NoCall, Flight
<1>11. CASE ReturnStarted
  BY <1>1, <1>11 DEF ReturnStarted, NoCall, Tracking
<1>12. CASE ReturnRefused
  BY <1>1, <1>12 DEF ReturnRefused, NoCall
<1>13. CASE Start
  <2>1. t'.phase = "none" /\ call'.state = call.state
    BY <1>1, <1>13 DEF Start, Blank, Call
  <2> QED BY <1>1, <1>13, <2>1 DEF Start
<1>14. CASE DaemonRestarts
  BY <1>1, <1>14 DEF DaemonRestarts, Blank, NoCall, NoContainer
<1>15. CASE ContainerExits
  <2>1. ctr'.state = "exited"
    BY <1>15, <1>1 DEF ContainerExits, TypeOK, Container
  <2> QED BY <1>1, <1>15, <2>1 DEF ContainerExits
<1>16. CASE Tick \/ ClockStep \/ UNCHANGED vars
  BY <1>1, <1>16 DEF Tick, ClockStep, vars
<1> QED BY <1>2, <1>3, <1>4, <1>5, <1>6, <1>7, <1>8, <1>9, <1>10, <1>11, <1>12, <1>13,
           <1>14, <1>15, <1>16 DEF Next, Reconcile

LEMMA RepeatsStep == ASSUME IInv, [Next]_vars PROVE Repeats'
<1> USE DEF Repeats
<1>1. /\ Repeats /\ TypeOK /\ t \in Tracking /\ tally \in Tally
      /\ t.restarts \in Nat /\ tally.again \in Nat
  BY DEF IInv, TypeOK, Tracking, Tally
<1>2. /\ Noted.restarts \in Nat /\ NotedTally.again \in Nat /\ NotedTally.again <= Noted.restarts
      /\ Noted \in Tracking /\ NotedTally \in Tally
  BY <1>1, NotedType DEF Noted, NotedTally, Tracking, Tally
<1>3. CASE ReconcileRunning \/ ReturnStarted
  BY <1>1, <1>3 DEF ReconcileRunning, ReturnStarted, Tracking
<1>4. CASE ReconcileFresh
  <2>1. CASE t' = Blank /\ tally' = Issued(NoTally)
    BY <2>1 DEF Blank, Issued, NoTally
  <2>2. CASE t' = t /\ tally' = Issued(tally)
    BY <1>1, <2>2 DEF Issued, Tally
  <2> QED BY <1>4, <2>1, <2>2 DEF ReconcileFresh
<1>5. CASE ReconcileDue
  BY <1>1, <1>5 DEF ReconcileDue, Issued, Tally
<1>6. CASE ExitStays
  <2>1. t'.restarts = Noted.restarts /\ t'.phase = "exited" /\ tally' = NotedTally
    BY <1>2, <1>6 DEF ExitStays, Tracking
  <2> QED BY <1>2, <2>1
<1>7. CASE ExitNeverRan
  <2>1. t'.restarts = Noted.restarts /\ t'.phase \in {"backoff", "fatal"}
    BY <1>2, <1>7 DEF ExitNeverRan, Backoff, Tracking
  <2>2. tally'.again = NotedTally.again
    BY <1>2, <1>7 DEF ExitNeverRan, Tally
  <2> QED BY <1>2, <2>1, <2>2
<1>8. CASE ExitOfRun
  <2>1. t'.restarts = Noted.restarts + 1 /\ t'.phase \in {"backoff", "fatal"}
    BY <1>2, <1>8 DEF ExitOfRun, Backoff, Tracking
  <2>2. tally'.again <= NotedTally.again + 1 /\ tally' \in Tally
    <3> DEFINE n == Noted.restarts + 1
    <3>1. n \in Nat
      BY <1>2
    <3>2. tally' = [NotedTally EXCEPT !.owed = Gap(n),
                                      !.again = IF TrulyShort THEN @ ELSE @ + 1]
      BY <1>8, Zenon DEF ExitOfRun
    <3> HIDE DEF n
    <3> QED BY <1>1, <3>1, <3>2, RunTally
  <2> QED BY <1>2, <2>1, <2>2 DEF Tally
<1>9. CASE ReturnRefused
  <2>1. tally'.again = tally.again
    BY <1>1, <1>9 DEF ReturnRefused, Tally
  <2> QED BY <1>1, <1>9, <2>1, RefusedTracked
<1>10. CASE Start \/ DaemonRestarts
  BY <1>10 DEF Start, DaemonRestarts, Blank, NoTally
<1>11. CASE List \/ ReconcileNothing \/ PodmanStarts \/ PodmanRefuses \/ ReturnStale
            \/ ContainerExits \/ Tick \/ ClockStep \/ UNCHANGED vars
  BY <1>1, <1>11 DEF List, ReconcileNothing, PodmanStarts, PodmanRefuses, ReturnStale,
     ContainerExits, Tick, ClockStep, vars
<1> QED BY <1>3, <1>4, <1>5, <1>6, <1>7, <1>8, <1>9, <1>10, <1>11 DEF Next, Reconcile

(* Every stamp of an exit is later than the zero time. *)
LEMMA StampsLate ==
  ASSUME IInv, ~ stepped, ctr.state = "exited"
  PROVE  ctr.exitedAt # 0
<1> DEFINE b == ctr.ended + Epoch
<1>1. ctr.exitedAt = b \div Second /\ ctr.ended >= 0 /\ ctr.ended \in Int
  BY DEF IInv, Stamps, Placed, TypeOK, Container
<1>2. b \in Int /\ b >= Second /\ Second \in Nat \ {0}
  BY <1>1, SecondAssumption, EpochAssumption
<1> HIDE DEF b
<1>3. b < Second * (b \div Second) + Second
  BY <1>2, DivBounds
<1> QED BY <1>1, <1>2, <1>3

LEMMA DecisionsStep == ASSUME IInv, [Next]_vars PROVE Decisions'
<1> SUFFICES ASSUME ~ stepped' PROVE Decisions'
  BY DEF Decisions
<1> USE DEF Decisions
<1>1. ~ stepped
  BY DEF Next, Reconcile, vars, List, ReconcileRunning, ReconcileNothing, ReconcileFresh,
         ReconcileDue, ExitStays, ExitNeverRan, ExitOfRun, PodmanStarts, PodmanRefuses,
         ReturnStale, ReturnStarted, ReturnRefused, Start, DaemonRestarts, ContainerExits,
         Tick, ClockStep
<1>2. /\ Decisions /\ Resting /\ Repeats /\ Flight /\ TypeOK
      /\ t \in Tracking /\ call \in Call /\ ctr \in Container /\ seen \in Container
      /\ t.restarts \in Nat /\ MaxRestarts \in Nat
  BY PolicyAssumption DEF IInv, TypeOK, Tracking
<1> USE DEF ExitCallsForRestart
<1>3. CASE List \/ ReconcileNothing \/ Tick \/ UNCHANGED vars
  BY <1>1, <1>2, <1>3 DEF List, ReconcileNothing, Tick, vars
<1>4. CASE ReconcileRunning
  <2>1. t'.phase \in {"starting", "running"} /\ t'.restarts = t.restarts /\ call' = call
        /\ call.state = "none" /\ seen.state = "running"
    BY <1>2, <1>4 DEF ReconcileRunning, Reconciling, Tracking
  <2>2. t.phase # "fatal"
    BY <1>2, <2>1 DEF Resting
  <2> QED BY <1>1, <1>2, <2>1, <2>2
<1>5. CASE ReconcileFresh
  <2>1. call'.state = "asked" /\ ctr' = ctr /\ call.state = "none" /\ pass = "listed"
        /\ seen.state # "running" /\ Fresh /\ ~ Held
    BY <1>5 DEF ReconcileFresh, Reconciling, IssueStart
  <2>2. CASE t' = Blank
    BY <1>2, <2>1, <2>2 DEF Blank
  <2>3. CASE t' = t /\ ~ t.force /\ t.phase # "none"
    <3>1. seen.state = "none"
      BY <1>1, <2>1, <2>3, FreshNever
    <3>2. t.phase = "backoff"
      BY <1>2, <2>1, <2>3, <3>1 DEF Flight, Held, Tracking, Phases
    <3> QED BY <1>1, <1>2, <2>1, <2>3, <3>2
  <2> QED BY <1>5, <2>2, <2>3 DEF ReconcileFresh
<1>6. CASE ReconcileDue
  BY <1>1, <1>2, <1>6 DEF ReconcileDue, Reconciling, IssueStart
<1>7. CASE ExitStays
  <2>1. t'.phase = "exited" /\ call'.state = "none"
    BY <1>2, NotedType, <1>7 DEF ExitStays, Exit, Reconciling, Tracking
  <2>2. t'.restarts \in {0, t.restarts} /\ t.phase # "fatal"
    BY <1>2, <1>7 DEF ExitStays, Exit, Noted, Decided, Tracking
  <2> QED BY <1>1, <1>2, <2>1, <2>2
<1>8. CASE ExitNeverRan \/ ExitOfRun
  <2>1. /\ Exit /\ RestartWanted /\ ctr' = ctr /\ call' = call /\ call.state = "none"
        /\ t.phase # "fatal" /\ pass = "listed" /\ seen.state # "running"
    BY <1>8 DEF ExitNeverRan, ExitOfRun, Exit, Reconciling, Decided
  <2>2. ctr = seen
    BY <1>2, <2>1 DEF Resting
  <2>3. ExitCallsForRestart'
    BY <2>1, <2>2 DEF RestartWanted
  <2>4. Noted.restarts \in {0, t.restarts}
    BY <1>2 DEF Noted, Tracking
  <2>5. MaxRestarts > 0 /\ t'.phase # "fatal" => t'.restarts <= MaxRestarts
    BY <1>1, <1>2, <1>8, <2>1, <2>4, ExitTracked
  <2> QED BY <2>1, <2>3, <2>5
<1>9. CASE PodmanStarts
  BY <1>1, <1>2, <1>9 DEF PodmanStarts, Call
<1>10. CASE PodmanRefuses
  BY <1>1, <1>2, <1>10 DEF PodmanRefuses, Call
<1>11. CASE ReturnStale
  BY <1>1, <1>2, <1>11 DEF ReturnStale, NoCall, Flight
<1>12. CASE ReturnStarted
  <2>1. t'.phase = "starting" /\ t'.restarts = t.restarts /\ call' = NoCall /\ t.phase # "fatal"
    BY <1>1, <1>2, <1>12 DEF ReturnStarted, Tracking
  <2> QED BY <1>1, <1>2, <2>1 DEF NoCall
<1>13. CASE ReturnRefused
  <2>1. call' = NoCall /\ ctr' = ctr /\ call.state = "refused" /\ ~ call.touched
    BY <1>13 DEF ReturnRefused
  <2>2. t.phase \in {"none", "backoff"}
    BY <1>1, <1>2, <2>1
  <2>3. t.phase = "none" /\ ctr.state = "exited" => t.handledExit # ctr.exitedAt
    BY <1>1, <1>2, StampsLate DEF Repeats
  <2> QED BY <1>1, <1>2, <1>13, <2>1, <2>2, <2>3, RefusedTracked DEF NoCall
<1>14. CASE Start
  <2>1. t'.phase = "none" /\ t'.restarts = 0
    BY <1>14 DEF Start, Blank
  <2> QED BY <1>2, <2>1
<1>15. CASE DaemonRestarts
  BY <1>2, <1>15 DEF DaemonRestarts, Blank, NoCall
<1>16. CASE ContainerExits
  <2>1. t.phase # "backoff" \/ call.state = "started"
    BY <1>2, <1>16 DEF ContainerExits, Resting
  <2> QED BY <1>1, <1>2, <1>16, <2>1 DEF ContainerExits
<1>17. ~ ClockStep
  BY DEF ClockStep
<1> QED BY <1>3, <1>4, <1>5, <1>6, <1>7, <1>8, <1>9, <1>10, <1>11, <1>12, <1>13,
           <1>14, <1>15, <1>16, <1>17 DEF Next, Reconcile

-----------------------------------------------------------------------------
(* The properties.                                                         *)

LEMMA Inductive == Spec => []IInv
<1>1. IInv /\ [Next]_vars => IInv'
  BY TypeStep, StampsStep, FlightStep, PacingStep, CountedStep, RestingStep, DecisionsStep,
     RepeatsStep DEF IInv
<1> QED BY <1>1, InitIInv, PTL DEF Spec

(* Every variable keeps its type, the tallies natural numbers among them.  *)
THEOREM TypeCorrect == Spec => []TypeOK
<1>1. IInv => TypeOK
  BY DEF IInv
<1> QED BY <1>1, Inductive, PTL

(* A container given up for never having run had more than StartRetries    *)
(* attempts refused or ended within StartSeconds of true time; one given   *)
(* up for stopping had all its restarts.                                   *)
THEOREM GivenUpDeservedly == Spec => []FatalDeserved
<1>1. IInv => FatalDeserved
  BY DEF IInv
<1> QED BY <1>1, Inductive, PTL

(* Only a fresh start or one whose gap ended is issued. *)
LEMMA Issues ==
  ASSUME IInv, [Next]_vars, IssuedOnItsOwn
  PROVE  ReconcileFresh \/ ReconcileDue
<1>1. call.state = "none" /\ call'.state = "asked" /\ call \in Call
  BY DEF IInv, TypeOK, IssuedOnItsOwn
<1>2. call' # call /\ call' # NoCall
  BY <1>1 DEF NoCall
<1>3. ~ Start
  <2>1. ASSUME Start PROVE call'.state = call.state
    BY <1>1, <2>1 DEF Start, Call
  <2> QED BY <1>1, <2>1
<1>4. ~ (PodmanStarts \/ PodmanRefuses \/ ReturnStale \/ ReturnStarted \/ ReturnRefused)
  BY <1>1 DEF PodmanStarts, PodmanRefuses, ReturnStale, ReturnStarted, ReturnRefused
<1>5. ~ (List \/ ReconcileRunning \/ ReconcileNothing \/ ExitStays \/ ExitNeverRan \/ ExitOfRun
         \/ DaemonRestarts \/ ContainerExits \/ Tick \/ ClockStep \/ UNCHANGED vars)
  BY <1>2 DEF List, ReconcileRunning, ReconcileNothing, ExitStays, ExitNeverRan, ExitOfRun,
     DaemonRestarts, ContainerExits, Tick, ClockStep, vars
<1> QED BY <1>3, <1>4, <1>5 DEF Next, Reconcile

(* Two starts the supervisor issues on its own are the gap of the tally    *)
(* apart, whatever passes, engine calls and API calls come between.        *)
THEOREM StartsPaced == Spec => Paced
<1>1. ASSUME IInv, [Next]_vars, IssuedOnItsOwn, ~ stepped PROVE now - tally.last >= tally.owed
  <2>1. /\ Pacing /\ Flight /\ call.state = "none" /\ now \in Nat /\ t \in Tracking
        /\ tally.last \in Int /\ tally.owed \in Int /\ t.nextAttempt \in Int
    BY <1>1 DEF IInv, TypeOK, IssuedOnItsOwn, Tracking, Tally
  <2>2. CASE ReconcileDue
    BY <2>1, <2>2 DEF ReconcileDue, Pacing
  <2>3. CASE ReconcileFresh
    <3>1. pass = "listed" /\ seen.state # "running" /\ Fresh /\ ~ Held /\ ~ t.force
      BY <1>1, <2>3 DEF ReconcileFresh, Reconciling, IssuedOnItsOwn
    <3>2. seen.state = "none"
      BY <1>1, <3>1, FreshNever
    <3>3. t.phase \in {"none", "backoff"} /\ (t.phase = "backoff" => now >= t.nextAttempt)
      BY <2>1, <3>1, <3>2 DEF Flight, Held, Tracking, Phases
    <3> QED BY <2>1, <3>3 DEF Pacing
  <2> QED BY <1>1, <2>2, <2>3, Issues
<1>2. IInv /\ [Next]_vars => [IssuedOnItsOwn /\ ~ stepped => now - tally.last >= tally.owed]_vars
  BY <1>1
<1> QED BY <1>2, Inductive, PTL DEF Spec, Paced

(* Tallies are only reset by the API, a new daemon, or a run that truly    *)
(* was longer than BackoffMaxSeconds.                                      *)
THEOREM ResetsEarned == Spec => ResetEarned
<1>1. ASSUME IInv, [Next]_vars, Tallied(t') < Tallied(t), ~ t'.force, t'.phase # "none", ~ stepped
      PROVE  seen.ended - seen.began > BackoffMaxSeconds * Second
  <2> USE DEF Tallied
  <2>1. /\ t \in Tracking /\ t.startAttempts \in Nat /\ t.restarts \in Nat
    BY <1>1 DEF IInv, TypeOK, Tracking
  <2>2. ASSUME Exit, ~ Long, t'.startAttempts >= Noted.startAttempts, t'.restarts >= Noted.restarts
        PROVE  FALSE
    <3>1. Noted.startAttempts = t.startAttempts /\ Noted.restarts = t.restarts
      BY <2>1, <2>2 DEF Noted, Tracking
    <3>2. t' \in Tracking
      BY <1>1, TypeStep DEF IInv, TypeOK
    <3>3. t'.startAttempts \in Nat /\ t'.restarts \in Nat
      BY <3>2 DEF Tracking
    <3> QED BY <1>1, <2>1, <2>2, <3>1, <3>3
  <2>3. Noted \in Tracking /\ Noted.startAttempts \in Nat /\ Noted.restarts \in Nat
    BY <1>1, NotedType DEF IInv, Tracking
  <2>4. ASSUME Exit, t'.startAttempts >= Noted.startAttempts, t'.restarts >= Noted.restarts
        PROVE  seen.ended - seen.began > BackoffMaxSeconds * Second
    BY <1>1, <2>2, <2>4, ExitSeen, Judged
  <2>5. CASE ExitStays
    <3>1. t'.startAttempts = Noted.startAttempts /\ t'.restarts = Noted.restarts
      BY <2>3, <2>5 DEF ExitStays, Tracking
    <3> QED BY <2>3, <2>4, <2>5, <3>1 DEF ExitStays
  <2>6. CASE ExitNeverRan
    <3>1. t'.startAttempts = Noted.startAttempts + 1 /\ t'.restarts = Noted.restarts
      BY <2>3, <2>6 DEF ExitNeverRan, Backoff, Tracking
    <3> QED BY <2>3, <2>4, <2>6, <3>1 DEF ExitNeverRan
  <2>7. CASE ExitOfRun
    <3>1. t'.startAttempts = Noted.startAttempts /\ t'.restarts = Noted.restarts + 1
      BY <2>3, <2>7 DEF ExitOfRun, Backoff, Tracking
    <3> QED BY <2>3, <2>4, <2>7, <3>1 DEF ExitOfRun
  <2>8. CASE ReturnRefused
    <3>1. t'.startAttempts = t.startAttempts + 1 /\ t'.restarts = t.restarts
      BY <2>1, <2>8 DEF ReturnRefused, Backoff, Tracking
    <3> QED BY <1>1, <2>1, <3>1
  <2>9. CASE ReconcileRunning \/ ReturnStarted
    <3>1. t'.startAttempts = t.startAttempts /\ t'.restarts = t.restarts
      BY <2>1, <2>9 DEF ReconcileRunning, ReturnStarted, Tracking
    <3> QED BY <1>1, <2>1, <3>1
  <2>10. CASE t' = t
    BY <1>1, <2>1, <2>10
  <2>11. CASE t' = Blank \/ t' = [Blank EXCEPT !.force = TRUE]
    BY <1>1, <2>11 DEF Blank
  <2>12. \/ ExitStays \/ ExitNeverRan \/ ExitOfRun \/ ReturnRefused \/ ReconcileRunning \/ ReturnStarted
         \/ t' = t \/ t' = Blank \/ t' = [Blank EXCEPT !.force = TRUE]
    BY <1>1 DEF Next, Reconcile, vars, List, ReconcileNothing, ReconcileFresh, ReconcileDue,
       PodmanStarts, PodmanRefuses, ReturnStale, Start, DaemonRestarts, ContainerExits, Tick, ClockStep
  <2> QED BY <2>5, <2>6, <2>7, <2>8, <2>9, <2>10, <2>11, <2>12
<1>2. IInv /\ [Next]_vars =>
        [ Tallied(t') < Tallied(t) /\ ~ t'.force /\ t'.phase # "none" /\ ~ stepped
          => seen.ended - seen.began > BackoffMaxSeconds * Second ]_vars
  BY <1>1
<1> QED BY <1>2, Inductive, PTL DEF Spec, ResetEarned

(* An exited container that nobody asked to start is only started again    *)
(* when its policy and the code of that exit say so, at most MaxRestarts   *)
(* times after runs that truly were StartSeconds long.                     *)
THEOREM PolicyHolds == Spec => PolicyKept
<1>1. ASSUME IInv, [Next]_vars, IssuedOnItsOwn, ctr.state = "exited", ~ stepped
      PROVE  RestartDue
  <2>1. /\ Resting /\ Decisions /\ Repeats /\ call.state = "none" /\ ~ t.force
        /\ t \in Tracking /\ t.restarts \in Nat /\ tally.again \in Nat /\ MaxRestarts \in Nat
    BY <1>1, PolicyAssumption DEF IInv, IssuedOnItsOwn, TypeOK, Tracking, Tally
  <2>2. CASE ReconcileDue
    <3>1. t.phase = "backoff" /\ pass = "listed" /\ seen.state # "running"
          /\ seen.exitedAt = t.handledExit
      BY <2>2 DEF ReconcileDue, Reconciling, Decided
    <3>2. ctr = seen
      BY <2>1, <3>1 DEF Resting
    <3>3. ExitCallsForRestart /\ (MaxRestarts > 0 => t.restarts <= MaxRestarts)
      BY <1>1, <2>1, <3>1, <3>2 DEF Decisions
    <3> QED BY <2>1, <3>3 DEF RestartDue, Repeats
  <2>3. CASE ReconcileFresh
    <3>1. pass = "listed" /\ seen.state # "running" /\ Fresh
      BY <2>3 DEF ReconcileFresh, Reconciling
    <3>2. seen.state = "none" /\ ctr = seen
      BY <1>1, <2>1, <3>1, FreshNever DEF Resting
    <3> QED BY <1>1, <3>2
  <2> QED BY <1>1, <2>2, <2>3, Issues
<1>2. IInv /\ [Next]_vars =>
        [IssuedOnItsOwn /\ ctr.state = "exited" /\ ~ stepped => RestartDue]_vars
  BY <1>1
<1> QED BY <1>2, Inductive, PTL DEF Spec, PolicyKept
=============================================================================
