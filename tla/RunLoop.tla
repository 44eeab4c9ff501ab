------------------------------ MODULE RunLoop ------------------------------
(***************************************************************************)
(* When passes begin: Supervisor.Run, its timer, the wake channel that API *)
(* calls put a token in, and the stream of podman events, which Podman     *)
(* reads from a process that ends and is started again.  A pass is taken   *)
(* for the two moments at which it looks: at the engine when it lists, at  *)
(* the declarations once it has mu.  What it does is module Supervisor.    *)
(***************************************************************************)
EXTENDS Naturals

CONSTANTS
  Changes,  \* bound: changes of declarations, and changes of containers
  Faults,   \* bound: listings that fail
  Breaks    \* bound: ends of the podman events process

ASSUME BoundsAssumption == Changes \in Nat /\ Faults \in Nat /\ Breaks \in Nat

VARIABLES
  loop,      \* where Run is: "list", "read", "walk", "select", "restart"
  wake,      \* tokens in the wake channel
  timer,     \* what the last pass set the timer to: "deadline", "resync", "none"
  stream,    \* the podman events process, and the channels it is read through
  backlog,   \* events podman has written and Run has not received
  unread,    \* a declaration changed since a pass read them
  unlisted,  \* containers changed since a pass listed them: "told" by an event, "untold"
  failed,    \* the last listing failed
  budget     \* what is left of each bound

vars == <<loop, wake, timer, stream, backlog, unread, unlisted, failed, budget>>

(* "ended": the process has, what it wrote is still being received.        *)
(* "broken": the error is in errs and both channels are closed.  "nil":    *)
(* and Run has set events to nil.                                          *)
Streams == {"starting", "up", "ended", "broken", "nil"}

Spend(what) == budget[what] > 0 /\ budget' = [budget EXCEPT ![what] = @ - 1]

-----------------------------------------------------------------------------
(* Pass.                                                                   *)

List ==
  /\ loop = "list"
  /\ loop' = "read" /\ failed' = FALSE /\ unlisted' = {}
  /\ UNCHANGED <<wake, timer, stream, backlog, unread, budget>>

(* The pass ends with no deadline. *)
ListFails ==
  /\ loop = "list" /\ Spend("faults")
  /\ loop' = "select" /\ failed' = TRUE /\ timer' = "resync"
  /\ UNCHANGED <<wake, stream, backlog, unread, unlisted>>

ReadDeclarations ==
  /\ loop = "read"
  /\ loop' = "walk" /\ unread' = FALSE
  /\ UNCHANGED <<wake, timer, stream, backlog, unlisted, failed, budget>>

(* Mutant: the timer is set to a deadline only. *)
WaitForDeadline(deadline) == IF deadline THEN "deadline" ELSE "none"

Wait(deadline) == IF deadline THEN "deadline" ELSE "resync"

(* The pass returned, with a deadline of its own or none. *)
EndPass ==
  /\ loop = "walk"
  /\ loop' = "select"
  /\ \E deadline \in BOOLEAN : timer' = Wait(deadline)
  /\ UNCHANGED <<wake, stream, backlog, unread, unlisted, failed, budget>>

-----------------------------------------------------------------------------
(* Run's select.                                                           *)

Woken ==
  /\ loop = "select" /\ wake > 0
  /\ loop' = "list" /\ wake' = wake - 1
  /\ UNCHANGED <<timer, stream, backlog, unread, unlisted, failed, budget>>

TimerFires ==
  /\ loop = "select" /\ timer # "none"
  /\ loop' = "list"
  /\ UNCHANGED <<wake, timer, stream, backlog, unread, unlisted, failed, budget>>

ReceiveEvent ==
  /\ loop = "select" /\ backlog > 0
  /\ loop' = "list" /\ backlog' = backlog - 1
  /\ UNCHANGED <<wake, timer, stream, unread, unlisted, failed, budget>>

EventsClosed ==
  /\ loop = "select" /\ stream = "broken"
  /\ loop' = "list" /\ stream' = "nil"
  /\ UNCHANGED <<wake, timer, backlog, unread, unlisted, failed, budget>>

ReceiveError ==
  /\ loop = "select" /\ stream \in {"broken", "nil"}
  /\ loop' = "restart"
  /\ UNCHANGED <<wake, timer, stream, backlog, unread, unlisted, failed, budget>>

(* restartEvents, after a second. *)
RestartEvents ==
  /\ loop = "restart"
  /\ loop' = "list" /\ stream' = "starting"
  /\ UNCHANGED <<wake, timer, backlog, unread, unlisted, failed, budget>>

-----------------------------------------------------------------------------
(* Podman.Events and the podman events process.                            *)

Connected ==
  /\ stream = "starting" /\ stream' = "up"
  /\ UNCHANGED <<loop, wake, timer, backlog, unread, unlisted, failed, budget>>

ProcessEnds ==
  /\ stream \in {"starting", "up"} /\ Spend("breaks")
  /\ stream' = "ended"
  /\ UNCHANGED <<loop, wake, timer, backlog, unread, unlisted, failed>>

(* Mutant: the error is sent while events are still to be received. *)
SendErrorEarly ==
  /\ stream = "ended"
  /\ stream' = "broken" /\ backlog' = 0
  /\ UNCHANGED <<loop, wake, timer, unread, unlisted, failed, budget>>

(* Every line has been scanned, and its event received. *)
SendError ==
  /\ stream = "ended" /\ backlog = 0
  /\ stream' = "broken"
  /\ UNCHANGED <<loop, wake, timer, backlog, unread, unlisted, failed, budget>>

(* A container changes.  podman events tells of it when it is connected,   *)
(* and only of a container with the managed label.                         *)
ContainerChanges ==
  /\ Spend("containers")
  /\ \E managed \in BOOLEAN :
     IF managed /\ stream = "up"
     THEN backlog' = backlog + 1 /\ unlisted' = unlisted \cup {"told"}
     ELSE backlog' = backlog /\ unlisted' = unlisted \cup {"untold"}
  /\ UNCHANGED <<loop, wake, timer, stream, unread, failed>>

-----------------------------------------------------------------------------
(* The API.                                                                *)

(* Mutant: a wake channel without a buffer. *)
PokeUnbuffered == IF loop = "select" THEN 1 ELSE wake

(* Mutant: every poke puts a token. *)
PokeAlways == wake + 1

(* poke: one token is enough. *)
Poke == 1

(* touch: a declaration changes with mu held, and its token is put. *)
DeclarationChanges ==
  /\ Spend("declarations")
  /\ unread' = TRUE /\ wake' = Poke
  /\ UNCHANGED <<loop, timer, stream, backlog, unlisted, failed>>

Init ==
  /\ loop = "list" /\ wake = 0 /\ timer = "none" /\ stream = "starting" /\ backlog = 0
  /\ unread = TRUE /\ unlisted = {"untold"} /\ failed = FALSE
  /\ budget = [declarations |-> Changes, containers |-> Changes,
               faults |-> Faults, breaks |-> Breaks]

Run ==
  \/ List \/ ListFails \/ ReadDeclarations \/ EndPass
  \/ Woken \/ TimerFires \/ ReceiveEvent \/ EventsClosed \/ ReceiveError \/ RestartEvents

Next == Run \/ Connected \/ ProcessEnds \/ SendError \/ ContainerChanges \/ DeclarationChanges

(* Run's goroutine goes on; Go's select leaves no ready case out for ever, *)
(* and the goroutine of Events runs.                                       *)
Fairness ==
  /\ WF_vars(Run) /\ SF_vars(ReceiveEvent) /\ SF_vars(ReceiveError)
  /\ WF_vars(Connected) /\ WF_vars(SendError)

Spec == Init /\ [][Next]_vars /\ Fairness

-----------------------------------------------------------------------------
(* Properties.                                                             *)

(* The type of every variable. *)
TypeOK ==
  /\ loop \in {"list", "read", "walk", "select", "restart"}
  /\ wake \in 0..1 /\ timer \in {"deadline", "resync", "none"}
  /\ stream \in Streams /\ backlog \in Nat
  /\ unread \in BOOLEAN /\ unlisted \subseteq {"told", "untold"} /\ failed \in BOOLEAN
  /\ budget \in [declarations : Nat, containers : Nat, faults : Nat, breaks : Nat]

(* A declaration that changed at any moment of a pass, of a wait or of a   *)
(* restart of the stream has a pass to come that reads it, without waiting *)
(* for the timer, unless a listing failed meanwhile.                       *)
NoLostWake == unread /\ ~ failed => wake > 0 \/ loop \in {"list", "read"}

(* A container that changed while podman told of changes has a listing to  *)
(* come, however the stream ends, unless one failed meanwhile.             *)
NoLostEvent == "told" \in unlisted /\ ~ failed => backlog > 0 \/ loop = "list"

(* Every change is seen by some pass, those of the gaps of the stream and  *)
(* those whose token or event a failed listing used up as well; and a      *)
(* stream that ended is started again.                                     *)
EverythingSeen ==
  /\ unread ~> ~ unread
  /\ unlisted # {} ~> unlisted = {}
  /\ stream = "ended" ~> stream = "starting"
=============================================================================
