----------------------------- MODULE PhaseFeed -----------------------------
(***************************************************************************)
(* What the API tells of phases: GET /v1/containers, which reads them with *)
(* mu held, and GET /v1/events, the changes that publish sends after a     *)
(* pass through a channel per subscriber, which drops what has no room.    *)
(* How a pass comes to a phase is module Supervisor: here it moves a       *)
(* phase, as the calls of the API do that change the tracking.             *)
(*                                                                         *)
(* A client does what a client of the two can: it opens the stream, lists  *)
(* once it has the head of the answer, and takes each change for what the  *)
(* container is in from then on.                                           *)
(***************************************************************************)
EXTENDS Naturals, FiniteSets, Sequences

CONSTANTS
  Names,    \* container names, as ranks
  Clients,  \* those that open the stream
  Readers,  \* the clients that go on reading it
  Room,     \* the capacity of a channel: 64
  Moves,    \* bound: phases moved by passes
  Calls,    \* bound: calls of the API
  Opens,    \* bound: streams opened
  Crashes   \* bound: restarts of the daemon

ASSUME NamesAssumption == Names \subseteq Nat /\ IsFiniteSet(Names)

ASSUME ClientsAssumption == Readers \subseteq Clients

ASSUME RoomAssumption == Room \in Nat \ {0}

ASSUME BoundsAssumption == Moves \in Nat /\ Calls \in Nat /\ Opens \in Nat /\ Crashes \in Nat

(* "deleted" is not declared; "running" stands for every phase a pass      *)
(* comes to but "stopped".                                                 *)
Phases == {"stopped", "running"}
Told == Phases \cup {"deleted"}

Change == [name : Names, phase : Told]

VARIABLES
  phase,      \* what GET says of each name
  lastPhase,  \* what publish said last
  pass,       \* "idle", "walking"
  stream,     \* of each client: "off", "opened" (the head is on its way), "read"
  subs,       \* the clients whose channel is in Supervisor.subs
  queue,      \* what is in each channel
  view,       \* what each client holds of each name, "unread" before it listed
  told,       \* history: what each client was told since it subscribed, or "untold"
  before,     \* history: what publish had said last when it subscribed
  missed,     \* history: the clients a change was dropped for
  glimpsed,   \* history: names a client read between two changes, not told of since
  budget      \* what is left of each bound

clientVars == <<stream, subs, queue, view, told, before, missed, glimpsed>>
vars == <<phase, lastPhase, pass, clientVars, budget>>

Spend(what) == budget[what] > 0 /\ budget' = [budget EXCEPT ![what] = @ - 1]

Everything(value) == [n \in Names |-> value]

-----------------------------------------------------------------------------
(* Phases move.                                                            *)

BeginPass ==
  /\ pass = "idle" /\ pass' = "walking"
  /\ UNCHANGED <<phase, lastPhase, clientVars, budget>>

(* reconcile stores a phase of a declared container. *)
Reconcile(n) ==
  /\ pass = "walking" /\ phase[n] # "deleted" /\ Spend("moves")
  /\ \E p \in Phases \ {phase[n]} : phase' = [phase EXCEPT ![n] = p]
  /\ UNCHANGED <<lastPhase, pass, clientVars>>

(* Mutant: what is said of a start is not told. *)
RetrackedAsSaid(n) ==
  /\ Spend("calls")
  /\ phase' = [phase EXCEPT ![n] = "stopped"]
  /\ lastPhase' = [lastPhase EXCEPT ![n] = "stopped"]
  /\ UNCHANGED <<pass, clientVars>>

(* A start, and a declaration of a fatal container, replace the tracking   *)
(* by an empty one, whatever the container is doing: its phase reads       *)
(* stopped.  A new declaration has none.                                   *)
Retracked(n) ==
  /\ Spend("calls")
  /\ phase' = [phase EXCEPT ![n] = "stopped"]
  /\ UNCHANGED <<lastPhase, pass, clientVars>>

Delete(n) ==
  /\ phase[n] # "deleted" /\ Spend("calls")
  /\ phase' = [phase EXCEPT ![n] = "deleted"]
  /\ UNCHANGED <<lastPhase, pass, clientVars>>

-----------------------------------------------------------------------------
(* publish.                                                                *)

Changed == {n \in Names : phase[n] # lastPhase[n]}

(* The i-th of some names, in their order. *)
Nth(ns, i) == CHOOSE n \in ns : Cardinality({m \in ns : m <= n}) = i

(* The phases of names, one after the other. *)
PhasesOf(ns) == [i \in 1 .. Cardinality(ns) |-> [name |-> Nth(ns, i), phase |-> phase[Nth(ns, i)]]]

(* Mutant: what is no longer declared is forgotten and not told. *)
ChangesOfDeclared == PhasesOf({n \in Changed : phase[n] # "deleted"})

(* The changes since the last pass, by name. *)
Changes == PhasesOf(Changed)

(* Mutant: the channel has no bound. *)
SentUnbounded(q) == q \o Changes

(* What is in a channel once each change was sent that had room. *)
Sent(q) == LET all == q \o Changes IN IF Len(all) <= Room THEN all ELSE SubSeq(all, 1, Room)

Dropped(c) == Len(queue[c]) + Len(Changes) > Room

(* Mutant: publish waits for room, with mu held. *)
PublishWaiting ==
  /\ pass = "walking" /\ \A c \in subs : ~ Dropped(c)
  /\ pass' = "idle" /\ lastPhase' = phase
  /\ queue' = [c \in Clients |-> IF c \in subs THEN Sent(queue[c]) ELSE queue[c]]
  /\ UNCHANGED <<phase, stream, subs, view, told, before, missed, glimpsed, budget>>

(* The end of a pass. *)
Publish ==
  /\ pass = "walking"
  /\ pass' = "idle" /\ lastPhase' = phase
  /\ queue' = [c \in Clients |-> IF c \in subs THEN Sent(queue[c]) ELSE queue[c]]
  /\ missed' = missed \cup {c \in subs : Dropped(c)}
  /\ UNCHANGED <<phase, stream, subs, view, told, before, glimpsed, budget>>

-----------------------------------------------------------------------------
(* The events handler, and its client.                                     *)

Fresh(c) ==
  /\ told' = [told EXCEPT ![c] = Everything("untold")]
  /\ before' = [before EXCEPT ![c] = lastPhase]
  /\ missed' = missed \ {c}

(* Mutant: the head is flushed before there is a channel. *)
EventsBeforeSubscribe(c) ==
  /\ stream[c] = "off" /\ Spend("opens")
  /\ stream' = [stream EXCEPT ![c] = "opened"]
  /\ Fresh(c)
  /\ UNCHANGED <<phase, lastPhase, pass, subs, queue, view, glimpsed>>

(* Subscribe, then the head of the answer is flushed. *)
Events(c) ==
  /\ stream[c] = "off" /\ Spend("opens")
  /\ stream' = [stream EXCEPT ![c] = "opened"]
  /\ subs' = subs \cup {c} /\ Fresh(c)
  /\ UNCHANGED <<phase, lastPhase, pass, queue, view, glimpsed>>

(* The client has the head, and reads every phase: List. *)
List(c) ==
  /\ stream[c] = "opened"
  /\ stream' = [stream EXCEPT ![c] = "read"]
  /\ view' = [view EXCEPT ![c] = phase]
  /\ glimpsed' = [glimpsed EXCEPT ![c] = {n \in Names : phase[n] # lastPhase[n]}]
  /\ UNCHANGED <<phase, lastPhase, pass, subs, queue, told, before, missed, budget>>

(* The handler writes the next change, and the client has it. *)
Deliver(c) ==
  /\ stream[c] = "read" /\ queue[c] # <<>>
  /\ LET change == Head(queue[c])
     IN  /\ view' = [view EXCEPT ![c][change.name] = change.phase]
         /\ told' = [told EXCEPT ![c][change.name] = change.phase]
         /\ glimpsed' = [glimpsed EXCEPT ![c] = @ \ {change.name}]
  /\ queue' = [queue EXCEPT ![c] = Tail(@)]
  /\ UNCHANGED <<phase, lastPhase, pass, stream, subs, before, missed, budget>>

Forgotten(cs) ==
  /\ queue' = [c \in Clients |-> IF c \in cs THEN <<>> ELSE queue[c]]
  /\ view' = [c \in Clients |-> IF c \in cs THEN Everything("unread") ELSE view[c]]
  /\ told' = [c \in Clients |-> IF c \in cs THEN Everything("untold") ELSE told[c]]
  /\ before' = [c \in Clients |-> IF c \in cs THEN Everything("deleted") ELSE before[c]]
  /\ glimpsed' = [c \in Clients |-> IF c \in cs THEN {} ELSE glimpsed[c]]
  /\ missed' = missed \ cs

(* The client closes: cancel removes its channel and closes it. *)
Cancel(c) ==
  /\ stream[c] # "off"
  /\ stream' = [stream EXCEPT ![c] = "off"]
  /\ subs' = subs \ {c} /\ Forgotten({c})
  /\ UNCHANGED <<phase, lastPhase, pass, budget>>

(* The daemon is killed and started again: phases and streams are gone. *)
Restart ==
  /\ Spend("crashes")
  /\ phase' = [n \in Names |-> IF phase[n] = "deleted" THEN "deleted" ELSE "stopped"]
  /\ lastPhase' = Everything("deleted") /\ pass' = "idle"
  /\ stream' = [c \in Clients |-> "off"] /\ subs' = {}
  /\ Forgotten(Clients)

Init ==
  /\ phase \in [Names -> {"stopped", "deleted"}] /\ lastPhase = Everything("deleted")
  /\ pass = "idle"
  /\ stream = [c \in Clients |-> "off"] /\ subs = {}
  /\ queue = [c \in Clients |-> <<>>]
  /\ view = [c \in Clients |-> Everything("unread")]
  /\ told = [c \in Clients |-> Everything("untold")]
  /\ before = [c \in Clients |-> lastPhase]
  /\ missed = {} /\ glimpsed = [c \in Clients |-> {}]
  /\ budget = [moves |-> Moves, calls |-> Calls, opens |-> Opens, crashes |-> Crashes]

Next ==
  \/ BeginPass \/ Publish \/ Restart
  \/ \E n \in Names : Reconcile(n) \/ Retracked(n) \/ Delete(n)
  \/ \E c \in Clients : Events(c) \/ List(c) \/ Deliver(c) \/ Cancel(c)

(* Passes go on; the clients that go on reading list and read.  The others *)
(* owe nothing.                                                            *)
Fairness ==
  /\ WF_vars(BeginPass) /\ WF_vars(Publish)
  /\ \A c \in Readers : WF_vars(List(c)) /\ WF_vars(Deliver(c))

Spec == Init /\ [][Next]_vars /\ Fairness

-----------------------------------------------------------------------------
(* Properties.                                                             *)

(* The type of every variable; no channel is above its capacity. *)
TypeOK ==
  /\ phase \in [Names -> Told] /\ lastPhase \in [Names -> Told]
  /\ pass \in {"idle", "walking"}
  /\ stream \in [Clients -> {"off", "opened", "read"}]
  /\ subs \subseteq Clients
  /\ queue \in [Clients -> Seq(Change)] /\ \A c \in Clients : Len(queue[c]) <= Room
  /\ view \in [Clients -> [Names -> Told \cup {"unread"}]]
  /\ told \in [Clients -> [Names -> Told \cup {"untold"}]]
  /\ before \in [Clients -> [Names -> Told]]
  /\ missed \subseteq Clients /\ glimpsed \in [Clients -> SUBSET Names]
  /\ budget \in [moves : Nat, calls : Nat, opens : Nat, crashes : Nat]

(* What is in the channel of c about n, by its place. *)
About(c, n) == {i \in DOMAIN queue[c] : queue[c][i].name = n}

(* A subscriber no change was dropped for is told everything publish had   *)
(* to say since it subscribed, in its order: what it is about to be told   *)
(* of a name last, or else was told last, is what publish said last,       *)
(* deletions included, and of a name it was told nothing nothing changed.  *)
NothingMissed ==
  \A c \in subs \ missed, n \in Names :
    IF About(c, n) # {}
    THEN \E i \in About(c, n) : (\A j \in About(c, n) : j <= i) /\ queue[c][i].phase = lastPhase[n]
    ELSE lastPhase[n] = IF told[c][n] = "untold" THEN before[c][n] ELSE told[c][n]

(* A client that listed, and has read what it was sent of a container,     *)
(* holds of it what publish said last, if nothing was dropped for it: what *)
(* was on its way when it listed sets it back for no longer than it takes  *)
(* to read it.  Of a name it listed between two changes it may not.        *)
CaughtUp ==
  \A c \in Clients \ missed, n \in Names :
    stream[c] = "read" /\ About(c, n) = {} => view[c][n] = lastPhase[n] \/ n \in glimpsed[c]

(* A reader that dropped nothing comes to hold of every container what GET *)
(* says of it, but for a name it listed while its phase was between two    *)
(* changes (a start resets the tracking of a running container, and the    *)
(* pass finds it running again).                                           *)
ReadersLearn ==
  \A c \in Readers :
    <>[](c \notin missed => \A n \in Names : view[c][n] \in {"unread", phase[n]} \/ n \in glimpsed[c])

(* Everything is published in the end, though there are subscribers that   *)
(* read nothing.                                                           *)
EverythingPublished == <>[](phase = lastPhase)
=============================================================================
