---------------------------- MODULE RestartClock ----------------------------
(***************************************************************************)
(* The restarts of one container in time: what reconcile and start do with *)
(* the whole-second stamps of podman ps, the boot time of /proc/stat and   *)
(* the deadlines they keep.  The container is declared to run, waits for   *)
(* no other, and its declaration does not change; the rest of reconcile is *)
(* module Supervisor, which has classes where this module has instants.    *)
(*                                                                         *)
(* now counts ticks from the boot and never goes back: it is Go's          *)
(* monotonic reading, which deadlines are compared by.  The wall clock,    *)
(* which podman and the kernel stamp with, is skew ahead of it, and can be *)
(* set.                                                                    *)
(***************************************************************************)
EXTENDS Integers

CONSTANTS
  Second,             \* ticks in a second
  StartRetries, StartSeconds, BackoffSeconds, BackoffMaxSeconds,  \* of spec.go
  Epoch,              \* the wall clock at the boot, in ticks
  Shift,              \* what a step of the wall clock is
  Policy,             \* the restart policy the container is declared with
  MaxRestarts,        \* the N of on-failure:N, 0 for none
  Horizon,            \* bound: ticks
  Disturbances        \* bound: starts through the API, starts podman refuses,
                      \* restarts of the daemon and steps of the clock, together

ASSUME SecondAssumption == Second \in Nat \ {0}

ASSUME TimingsAssumption ==
  /\ StartRetries \in Nat /\ StartSeconds \in Nat \ {0}
  /\ BackoffSeconds \in Nat \ {0} /\ BackoffMaxSeconds \in Nat \ {0}

(* Stamps are later than the zero time. *)
ASSUME EpochAssumption == Epoch \in Nat /\ Epoch >= Second /\ Shift \in Nat

ASSUME PolicyAssumption ==
  Policy \in {"no", "on-failure", "always"} /\ MaxRestarts \in Nat

ASSUME BoundsAssumption ==
  Horizon \in Nat /\ Disturbances \in Nat

VARIABLES
  now,      \* ticks since the boot
  skew,     \* the wall clock less now
  ctr,      \* the container
  seen,     \* the container as the pass listed it
  pass,     \* "idle", "listed"
  t,        \* its tracking
  bootTime, \* Options.BootTime of the daemon that runs
  call,     \* the start in flight
  tally,    \* history: of the attempts
  stepped,  \* history: the wall clock was set
  budget    \* disturbances left

vars == <<now, skew, ctr, seen, pass, t, bootTime, call, tally, stepped, budget>>

(* startedAt and exitedAt are stamps; began and ended are when it was. *)
Container ==
  [ state : {"none", "running", "exited"}, failed : BOOLEAN,
    began : Int, ended : Int, startedAt : Int, exitedAt : Int ]

NoContainer ==
  [ state |-> "none", failed |-> FALSE, began |-> 0, ended |-> 0,
    startedAt |-> 0, exitedAt |-> 0 ]

(* "none" is the phase of a container nothing is known of yet. *)
Phases == {"none", "starting", "running", "backoff", "exited", "fatal"}

Tracking ==
  [ phase : Phases, force : BOOLEAN, startAttempts : Nat, restarts : Nat,
    nextAttempt : Int, handledExit : Int ]

Blank ==
  [ phase |-> "none", force |-> FALSE, startAttempts |-> 0, restarts |-> 0,
    nextAttempt |-> 0, handledExit |-> 0 ]

Call == [state : {"none", "asked", "started", "refused"}, at : Int, touched : BOOLEAN]

NoCall == [state |-> "none", at |-> 0, touched |-> FALSE]

(* last: the instant the last start was issued, or the tallies forgotten;  *)
(* owed: the gap to the next one; short: the attempts counted since the    *)
(* tallies were zero that were refused or ended within StartSeconds, by    *)
(* true time; again: the runs since then that were longer, and that a      *)
(* restart was decided on after.                                           *)
Tally == [last : Int, owed : Int, short : Nat, again : Nat]

NoTally == [last |-> now, owed |-> 0, short |-> 0, again |-> 0]

Disturb == budget > 0 /\ budget' = budget - 1

-----------------------------------------------------------------------------
(* Instants.                                                               *)

Wall == now + skew

(* podman ps has whole seconds. *)
Stamp(instant) == (instant + skew) \div Second

(* btime: the wall clock of the boot, as the wall clock is set now. *)
BootStamp == skew \div Second

Gap(n) ==
  Second * (IF n * BackoffSeconds < BackoffMaxSeconds THEN n * BackoffSeconds
                                                      ELSE BackoffMaxSeconds)

-----------------------------------------------------------------------------
(* The decisions of reconcile.                                             *)

Ran == seen.exitedAt - seen.startedAt

(* Mutant: a run of exactly StartSeconds counts as one that never ran. *)
ShortOrExact == Ran <= StartSeconds

Short == Ran < StartSeconds

(* Mutant: a run of exactly BackoffMaxSeconds resets the tallies. *)
LongOrExact == Ran >= BackoffMaxSeconds

Long == Ran > BackoffMaxSeconds

(* Started through the API, never created, or not since this boot. *)
Fresh == t.force \/ seen.state = "none" \/ seen.startedAt < bootTime

(* Mutant: the exit code is of no account. *)
RestartOnAnyExit == Policy # "no"

RestartWanted ==
  \/ Policy = "always"
  \/ Policy = "on-failure" /\ seen.failed

(* Mutant: the gap after a refused start is not waited out. *)
HeldFatalOnly == ~ t.force /\ t.phase = "fatal"

(* A fresh start that is given up or not yet due. *)
Held == ~ t.force /\ (t.phase = "fatal" \/ (t.phase = "backoff" /\ now < t.nextAttempt))

(* Whether the exit seen has been decided on. *)
Decided == t.phase = "fatal" \/ (t.phase \in {"exited", "backoff"} /\ seen.exitedAt = t.handledExit)

(* start: mu is released, and the engine asked.  touched: an API call came *)
(* meanwhile.                                                              *)
IssueStart == call' = [state |-> "asked", at |-> now, touched |-> FALSE]

(* The next start is at least the first gap away. *)
Issued(tl) == [tl EXCEPT !.last = now, !.owed = Gap(1)]

(* Giving up, or the gap before the next attempt, counted from "from". *)
Backoff(track, n, most, from) ==
  IF n > most THEN [track EXCEPT !.phase = "fatal"]
  ELSE [track EXCEPT !.phase = "backoff", !.nextAttempt = from + Gap(n)]

-----------------------------------------------------------------------------
(* A pass.                                                                 *)

(* passMu: one pass at a time. *)
List ==
  /\ pass = "idle" /\ call.state = "none"
  /\ pass' = "listed" /\ seen' = ctr
  /\ UNCHANGED <<now, skew, ctr, t, bootTime, call, tally, stepped, budget>>

(* The listing is of no use after the pass. *)
Reconciling ==
  /\ pass = "listed" /\ call.state = "none"
  /\ pass' = "idle" /\ seen' = NoContainer

ReconcileRunning ==
  /\ Reconciling /\ seen.state = "running"
  /\ t' = [t EXCEPT !.force = FALSE,
                    !.phase = IF Wall < (seen.startedAt + StartSeconds) * Second
                              THEN "starting" ELSE "running"]
  /\ UNCHANGED <<now, skew, ctr, bootTime, call, tally, stepped, budget>>

(* Nothing is due: reconcile returns. *)
ReconcileNothing ==
  /\ Reconciling /\ seen.state # "running"
  /\ IF Fresh THEN Held
     ELSE Decided /\ (t.phase = "backoff" => now < t.nextAttempt)
  /\ UNCHANGED <<now, skew, ctr, t, bootTime, call, tally, stepped, budget>>

ReconcileFresh ==
  /\ Reconciling /\ seen.state # "running" /\ Fresh /\ ~ Held
  /\ IF t.force \/ t.phase = "none" THEN t' = Blank /\ tally' = Issued(NoTally)
                                ELSE t' = t /\ tally' = Issued(tally)
  /\ IssueStart
  /\ UNCHANGED <<now, skew, ctr, bootTime, stepped, budget>>

(* The gap has ended. *)
ReconcileDue ==
  /\ Reconciling /\ seen.state # "running" /\ ~ Fresh /\ Decided
  /\ t.phase = "backoff" /\ now >= t.nextAttempt
  /\ IssueStart /\ tally' = Issued(tally)
  /\ UNCHANGED <<now, skew, ctr, t, bootTime, stepped, budget>>

(* Mutant: a long run takes one attempt back. *)
NotedTakingBack ==
  IF Long THEN [t EXCEPT !.handledExit = seen.exitedAt, !.startAttempts = @ - 1]
  ELSE [t EXCEPT !.handledExit = seen.exitedAt]

(* An exit not yet decided on, once the tallies are reset after a long run *)
(* and the exit noted.                                                     *)
Noted ==
  IF Long THEN [t EXCEPT !.handledExit = seen.exitedAt, !.startAttempts = 0, !.restarts = 0]
  ELSE [t EXCEPT !.handledExit = seen.exitedAt]

NotedTally == IF Long THEN [tally EXCEPT !.short = 0, !.again = 0] ELSE tally

TrulyShort == seen.ended - seen.began < StartSeconds * Second

Exit == Reconciling /\ seen.state # "running" /\ ~ Fresh /\ ~ Decided

ExitStays ==
  /\ Exit /\ ~ RestartWanted
  /\ t' = [Noted EXCEPT !.phase = "exited"] /\ tally' = NotedTally
  /\ UNCHANGED <<now, skew, ctr, bootTime, call, stepped, budget>>

ExitNeverRan ==
  /\ Exit /\ RestartWanted /\ Short
  /\ LET n == Noted.startAttempts + 1
     IN  /\ t' = Backoff([Noted EXCEPT !.startAttempts = n], n, StartRetries, now)
         /\ tally' = [NotedTally EXCEPT !.owed = Gap(n),
                                        !.short = IF TrulyShort THEN @ + 1 ELSE @]
  /\ UNCHANGED <<now, skew, ctr, bootTime, call, stepped, budget>>

(* MaxRestarts 0 is no bound. *)
ExitOfRun ==
  /\ Exit /\ RestartWanted /\ ~ Short
  /\ LET n    == Noted.restarts + 1
         most == IF MaxRestarts = 0 THEN n ELSE MaxRestarts
     IN  /\ t' = Backoff([Noted EXCEPT !.restarts = n], n, most, now)
         /\ tally' = [NotedTally EXCEPT !.owed = Gap(n),
                                        !.again = IF TrulyShort THEN @ ELSE @ + 1]
  /\ UNCHANGED <<now, skew, ctr, bootTime, call, stepped, budget>>

-----------------------------------------------------------------------------
(* The start in flight.                                                    *)

PodmanStarts ==
  /\ call.state = "asked"
  /\ call' = [call EXCEPT !.state = "started"]
  /\ ctr' = [NoContainer EXCEPT !.state = "running", !.began = now, !.startedAt = Stamp(now)]
  /\ UNCHANGED <<now, skew, seen, pass, t, bootTime, tally, stepped, budget>>

PodmanRefuses ==
  /\ call.state = "asked" /\ Disturb
  /\ call' = [call EXCEPT !.state = "refused"]
  /\ UNCHANGED <<now, skew, ctr, seen, pass, t, bootTime, tally, stepped>>

(* unlocked reports false: nothing is stored. *)
ReturnStale ==
  /\ call.state \in {"started", "refused"} /\ call.touched
  /\ call' = NoCall
  /\ UNCHANGED <<now, skew, ctr, seen, pass, t, bootTime, tally, stepped, budget>>

ReturnStarted ==
  /\ call.state = "started" /\ ~ call.touched
  /\ call' = NoCall /\ t' = [t EXCEPT !.force = FALSE, !.phase = "starting"]
  /\ UNCHANGED <<now, skew, ctr, seen, pass, bootTime, tally, stepped, budget>>

(* The gap counts from before the call. *)
ReturnRefused ==
  /\ call.state = "refused" /\ ~ call.touched
  /\ call' = NoCall
  /\ LET n == t.startAttempts + 1
     IN  /\ t' = Backoff([t EXCEPT !.force = FALSE, !.startAttempts = n], n, StartRetries, call.at)
         /\ tally' = [tally EXCEPT !.owed = Gap(n), !.short = @ + 1]
  /\ UNCHANGED <<now, skew, ctr, seen, pass, bootTime, stepped, budget>>

-----------------------------------------------------------------------------
(* The API, the daemon, the container and the clock.                       *)

(* Start, with mu free: outside of the stretches above. *)
Start ==
  /\ Disturb
  /\ t' = [Blank EXCEPT !.force = TRUE] /\ tally' = NoTally
  /\ call' = [call EXCEPT !.touched = call.state # "none"]
  /\ UNCHANGED <<now, skew, ctr, seen, pass, bootTime, stepped>>

(* The daemon is killed and started again while podman is not at work for  *)
(* it (what it leaves at work is in Supervisor).                           *)
DaemonRestarts ==
  /\ call.state # "asked" /\ Disturb
  /\ t' = Blank /\ tally' = NoTally /\ call' = NoCall /\ pass' = "idle"
  /\ seen' = NoContainer /\ bootTime' = BootStamp
  /\ UNCHANGED <<now, skew, ctr, stepped>>

ContainerExits ==
  /\ ctr.state = "running"
  /\ \E failed \in BOOLEAN :
       ctr' = [ctr EXCEPT !.state = "exited", !.failed = failed,
                          !.ended = now, !.exitedAt = Stamp(now)]
  /\ UNCHANGED <<now, skew, seen, pass, t, bootTime, call, tally, stepped, budget>>

Tick ==
  /\ now < Horizon
  /\ now' = now + 1
  /\ UNCHANGED <<skew, ctr, seen, pass, t, bootTime, call, tally, stepped, budget>>

(* The wall clock is set; the boot stays after the zero time. *)
ClockStep ==
  /\ Disturb
  /\ \E s \in {skew - Shift, skew + Shift} : s >= Second /\ skew' = s
  /\ stepped' = TRUE
  /\ UNCHANGED <<now, ctr, seen, pass, t, bootTime, call, tally>>

Init ==
  /\ now = 0 /\ skew = Epoch
  /\ ctr = NoContainer /\ seen = NoContainer /\ pass = "idle" /\ t = Blank /\ bootTime = BootStamp
  /\ call = NoCall /\ tally = NoTally /\ stepped = FALSE
  /\ budget = Disturbances

Reconcile ==
  \/ ReconcileRunning \/ ReconcileNothing \/ ReconcileFresh \/ ReconcileDue
  \/ ExitStays \/ ExitNeverRan \/ ExitOfRun

Next ==
  \/ List \/ Reconcile
  \/ PodmanStarts \/ PodmanRefuses \/ ReturnStale \/ ReturnStarted \/ ReturnRefused
  \/ Start \/ DaemonRestarts \/ ContainerExits \/ Tick \/ ClockStep

Spec == Init /\ [][Next]_vars

-----------------------------------------------------------------------------
(* Properties.                                                             *)

(* The type of every variable. *)
TypeOK ==
  /\ now \in Nat /\ skew \in Nat
  /\ ctr \in Container /\ seen \in Container /\ pass \in {"idle", "listed"}
  /\ t \in Tracking /\ bootTime \in Int /\ call \in Call
  /\ tally \in Tally /\ stepped \in BOOLEAN
  /\ budget \in Nat

(* The starts the supervisor makes on its own are paced: each is issued    *)
(* the gap of its tally after the one before, however long passes and      *)
(* engine calls take, unless the wall clock was set.                       *)
IssuedOnItsOwn == call.state = "none" /\ call'.state = "asked" /\ ~ t.force

Paced == [][ IssuedOnItsOwn /\ ~ stepped => now - tally.last >= tally.owed ]_vars

(* Of a container that is given up for never having run, more than         *)
(* StartRetries attempts were refused or truly ended within StartSeconds,  *)
(* and of one given up for stopping every restart was used: the stamps     *)
(* without fractions never make a run of StartSeconds one that never ran.  *)
FatalDeserved ==
  t.phase = "fatal" /\ ~ stepped =>
    \/ tally.short > StartRetries
    \/ MaxRestarts > 0 /\ t.restarts > MaxRestarts

(* The tallies of a container that stopped are only reset when its run was *)
(* longer than BackoffMaxSeconds, so that a container that keeps stopping  *)
(* sooner is given up in the end.                                          *)
Tallied(track) == track.startAttempts + track.restarts

ResetEarned ==
  [][ Tallied(t') < Tallied(t) /\ ~ t'.force /\ t'.phase # "none" /\ ~ stepped
      => seen.ended - seen.began > BackoffMaxSeconds * Second ]_vars

(* An exited container that nobody asked to start is started again only    *)
(* when its policy and the exit code of that very exit say so, the repeats *)
(* of a start podman refused among them; and no more than MaxRestarts      *)
(* times after runs of StartSeconds or more, by true time.  This goes      *)
(* through restarts of the daemon, which may come at any second of the     *)
(* boot or of a run, and through decisions kept over a gap, which are      *)
(* found again by the second of the exit they were made on.                *)
ExitCallsForRestart == Policy = "always" \/ (Policy = "on-failure" /\ ctr.failed)

RestartDue ==
  /\ ExitCallsForRestart
  /\ MaxRestarts > 0 => tally.again <= MaxRestarts

PolicyKept ==
  [][ IssuedOnItsOwn /\ ctr.state = "exited" /\ ~ stepped => RestartDue ]_vars
=============================================================================
