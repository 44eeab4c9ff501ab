----------------------------- MODULE StoreFiles -----------------------------
(***************************************************************************)
(* Package store, file by file: one file for each container's record, two  *)
(* for each project (its directory and its Compose file), and the boot id. *)
(* A file is replaced by a temporary one that is written, synced and       *)
(* renamed over it, and then its directory is synced; it is removed by an  *)
(* unlink and a sync of its directory.  Any of these steps can fail, the   *)
(* daemon can be killed between two of them, and the power can fail.       *)
(*                                                                         *)
(* The supervisor makes one call of the store at a time: New before it     *)
(* serves, every other with mu held.                                       *)
(***************************************************************************)
EXTENDS Naturals

CONSTANTS
  Names,     \* containers
  Records,   \* what a record can say
  Projects,  \* projects
  Composes,  \* Compose files
  Dirs,      \* project directories
  Boots,     \* boot ids
  None,      \* no file, no directory given, no call
  Torn,      \* the content of a file that was not wholly written
  Calls,     \* bound: store calls
  Faults,    \* bound: steps that fail
  Crashes    \* bound: crashes of the daemon, power failures

ASSUME ConstantsAssumption ==
  /\ Calls \in Nat /\ Faults \in Nat /\ Crashes \in Nat
  /\ None \notin Records \cup Composes \cup Dirs \cup Boots \cup {Torn}
  /\ Torn \notin Records \cup Composes \cup Dirs \cup Boots

VARIABLES
  entry,  \* the file each path names, as a process sees it
  left,   \* the files a power failure may leave each path naming
  temp,   \* the temporary file of the write in progress
  call,   \* the store call in progress
  acked,  \* history: for each key, what the last call promised, if it stands
  budget  \* what is left of each bound

vars == <<entry, left, temp, call, acked, budget>>

-----------------------------------------------------------------------------

RecordKeys  == {"record"} \X Names
ProjectKeys == {"project"} \X Projects
Boot        == <<"boot", None>>
Keys        == RecordKeys \cup ProjectKeys \cup {Boot}

(* A record and the boot id are kept in the file of their key. *)
Yaml(p) == <<"yaml", p>>
Dir(p)  == <<"dir", p>>
Paths   == RecordKeys \cup {Boot} \cup ({"yaml", "dir"} \X Projects)

(* projects/ is a directory of its own. *)
SameDir(q, r) == (q[1] \in {"yaml", "dir"}) = (r[1] \in {"yaml", "dir"})

Contents == Records \cup Composes \cup Dirs \cup Boots \cup {Torn}

(* A file: what it says, and whether that has been synced. *)
File == [content : Contents, synced : BOOLEAN]

Content(f) == IF f = None THEN None ELSE f.content

Project == [compose : Composes, dir : Dirs \cup {None}]

(* Load, Projects and BootID: what the store says under a key.  A record   *)
(* that does not parse is reported, and nothing is loaded of it.           *)
Parsed(f) == IF Content(f) = Torn THEN None ELSE Content(f)

ProjectOf(yaml, dir) ==
  IF yaml = None THEN None ELSE [compose |-> Content(yaml), dir |-> Content(dir)]

Loaded(k) ==
  CASE k[1] = "project" -> ProjectOf(entry[Yaml(k[2])], entry[Dir(k[2])])
    [] k[1] = "record"  -> Parsed(entry[k])
    [] k[1] = "boot"    -> Content(entry[k])

(* A call changes one file, or a project's two in order: writes a file, or *)
(* with None removes it.                                                   *)
Step == [path : Paths, content : Contents \cup {None}]

To(path, content) == [path |-> path, content |-> content]

Ats == {"start", "created", "written", "synced", "named", "over"}

StoreCall ==
  [ key     : Keys,
    value   : Records \cup Boots \cup Project \cup {None},
    now     : Step,
    then    : Step \cup {None},
    at      : Ats,
    changed : BOOLEAN,
    was     : Contents \cup {None}
                \cup [compose : Contents \cup {None}, dir : Contents \cup {None}] ]

ASSUME NoneAssumption ==
  /\ None \notin File /\ None \notin Project /\ None \notin Step /\ None \notin StoreCall
  /\ None \notin [key : RecordKeys, value : Records \cup {None}]

(* changed: some file was changed by it; was: history, what it found.      *)
NewCall(k, v, now, then) ==
  [ key |-> k, value |-> v, now |-> now, then |-> then, at |-> "start",
    changed |-> FALSE, was |-> Loaded(k) ]

(* Mutant: a directory is only written, never removed. *)
PutProjectKeepingDir(p, v) ==
  IF v.dir = None THEN NewCall(<<"project", p>>, v, To(Yaml(p), v.compose), None)
  ELSE NewCall(<<"project", p>>, v, To(Dir(p), v.dir), To(Yaml(p), v.compose))

PutProject(p, v) ==
  NewCall(<<"project", p>>, v, To(Dir(p), v.dir), To(Yaml(p), v.compose))

(* Mutant: the directory goes first. *)
DeleteProjectDirFirst(p) ==
  NewCall(<<"project", p>>, None, To(Dir(p), None), To(Yaml(p), None))

DeleteProject(p) ==
  NewCall(<<"project", p>>, None, To(Yaml(p), None), To(Dir(p), None))

(* Put, Delete, SetBootID. *)
PutFile(k, v) == NewCall(k, v, To(k, v), None)

Spend(what) == budget[what] > 0 /\ budget' = [budget EXCEPT ![what] = @ - 1]

-----------------------------------------------------------------------------
(* A store call.                                                           *)

Begin(c) ==
  /\ call = None /\ Spend("calls")
  /\ call' = c
  /\ UNCHANGED <<entry, left, temp, acked>>

BeginRecord(n, v)  == Begin(PutFile(<<"record", n>>, v))
BeginBoot(b)       == Begin(PutFile(Boot, b))
BeginProject(p, v) == Begin(IF v = None THEN DeleteProject(p) ELSE PutProject(p, v))

InStep(at) == call # None /\ call.at = at

Now == call.now

GoTo(at) == call' = [call EXCEPT !.at = at]

(* The next file, if there is one. *)
StepDone ==
  call' = IF call.then = None THEN [call EXCEPT !.at = "over"]
          ELSE [call EXCEPT !.now = call.then, !.then = None, !.at = "start"]

(* write: os.CreateTemp, f.Write, f.Sync, os.Rename, syncDir. *)
CreateTemp ==
  /\ InStep("start") /\ Now.content # None
  /\ temp' = [content |-> Torn, synced |-> FALSE]
  /\ GoTo("created")
  /\ UNCHANGED <<entry, left, acked, budget>>

Write ==
  /\ InStep("created")
  /\ temp' = [temp EXCEPT !.content = Now.content]
  /\ GoTo("written")
  /\ UNCHANGED <<entry, left, acked, budget>>

(* Mutant: the file is renamed without having been synced. *)
NoSync ==
  /\ InStep("written")
  /\ GoTo("synced")
  /\ UNCHANGED <<entry, left, temp, acked, budget>>

Sync ==
  /\ InStep("written")
  /\ temp' = [temp EXCEPT !.synced = TRUE]
  /\ GoTo("synced")
  /\ UNCHANGED <<entry, left, acked, budget>>

(* From here on what was promised of the key does not stand. *)
Changes(file) ==
  /\ entry' = [entry EXCEPT ![Now.path] = file]
  /\ left' = [left EXCEPT ![Now.path] = @ \cup {file}]
  /\ acked' = [acked EXCEPT ![call.key] = {}]
  /\ call' = [call EXCEPT !.at = "named", !.changed = TRUE]

Rename ==
  /\ InStep("synced")
  /\ Changes(temp)
  /\ temp' = None
  /\ UNCHANGED budget

(* remove: os.Remove, syncDir; a missing file is not an error, and its     *)
(* directory is not synced.                                                *)
Remove ==
  /\ InStep("start") /\ Now.content = None
  /\ IF entry[Now.path] = None THEN StepDone /\ UNCHANGED <<entry, left, acked>>
     ELSE Changes(None)
  /\ UNCHANGED <<temp, budget>>

SyncDir ==
  /\ InStep("named")
  /\ left' = [q \in Paths |-> IF SameDir(q, Now.path) THEN {entry[q]} ELSE left[q]]
  /\ StepDone
  /\ UNCHANGED <<entry, temp, acked, budget>>

(* The call returns nil.  A delete that found nothing promises no more     *)
(* than stood before it.                                                   *)
Return ==
  /\ InStep("over")
  /\ acked' = IF call.changed THEN [acked EXCEPT ![call.key] = {call.value}] ELSE acked
  /\ call' = None
  /\ UNCHANGED <<entry, left, temp, budget>>

(* Mutant: the temporary file of a write that failed is left behind. *)
FailLeavingTemp ==
  /\ call # None /\ call.at # "over" /\ Spend("faults")
  /\ call' = None
  /\ UNCHANGED <<entry, left, temp, acked>>

(* Some step returns an error; the temporary file is removed. *)
Fail ==
  /\ call # None /\ call.at # "over" /\ Spend("faults")
  /\ call' = None /\ temp' = None
  /\ UNCHANGED <<entry, left, acked>>

(* The daemon is killed.  A temporary file it leaves has a name of its own *)
(* that starts with a dot: nothing reads it.                               *)
Crash ==
  /\ Spend("crashes")
  /\ call' = None /\ temp' = None
  /\ UNCHANGED <<entry, left, acked>>

(* What a path names once the power is back: one of the files left, whole  *)
(* only if it was synced.                                                  *)
Survivors(q) ==
  left[q] \cup {[content |-> Torn, synced |-> TRUE] : f \in {g \in left[q] \ {None} : ~ g.synced}}

Unsettled == {q \in Paths : Survivors(q) # {entry[q]}}

PowerFailure ==
  /\ Spend("crashes")
  /\ \E back \in [Unsettled -> UNION {Survivors(q) : q \in Unsettled}] :
       /\ \A q \in Unsettled : back[q] \in Survivors(q)
       /\ entry' = [q \in Paths |-> IF q \in Unsettled THEN back[q] ELSE entry[q]]
  /\ left' = [q \in Paths |-> {entry'[q]}]
  /\ call' = None /\ temp' = None
  /\ UNCHANGED acked

Init ==
  /\ entry = [q \in Paths |-> None]
  /\ left = [q \in Paths |-> {None}]
  /\ temp = None /\ call = None
  /\ acked = [k \in Keys |-> {}]
  /\ budget = [calls |-> Calls, faults |-> Faults, crashes |-> Crashes]

Next ==
  \/ \E n \in Names, v \in Records \cup {None} : BeginRecord(n, v)
  \/ \E b \in Boots : BeginBoot(b)
  \/ \E p \in Projects, v \in Project \cup {None} : BeginProject(p, v)
  \/ CreateTemp \/ Write \/ Sync \/ Rename \/ Remove \/ SyncDir \/ Return
  \/ Fail \/ Crash \/ PowerFailure

Spec == Init /\ [][Next]_vars
-----------------------------------------------------------------------------
(* Properties.                                                             *)

Value(k) ==
  CASE k[1] = "record"  -> Records \cup {None}
    [] k[1] = "project" -> Project \cup {None}
    [] k[1] = "boot"    -> Boots \cup {None}

(* The type of every variable.  There is a temporary file only during the  *)
(* write it belongs to: none outlives a call that failed.                  *)
TypeOK ==
  /\ entry \in [Paths -> File \cup {None}]
  /\ left \in [Paths -> SUBSET (File \cup {None})]
  /\ temp \in File \cup {None}
  /\ call \in StoreCall \cup {None}
  /\ call # None => call.value \in Value(call.key)
  /\ temp # None => call # None /\ call.at \in {"created", "written", "synced"}
  /\ DOMAIN acked = Keys /\ \A k \in Keys : acked[k] \subseteq Value(k)
  /\ budget \in [calls : Nat, faults : Nat, crashes : Nat]

(* What a call that succeeded put under a key is what is loaded from then  *)
(* on until another call changes it, through crashes, power failures and   *)
(* calls on other keys that fail: a project is the whole of the one        *)
(* declared, with no directory of a project that was there before.         *)
AckedKept == \A k \in Keys : \A v \in acked[k] : Loaded(k) = v

CallOn(K) ==
  IF call # None /\ call.key \in K THEN [key |-> call.key, value |-> call.value] ELSE None

RecordsStore == INSTANCE AtomicStore WITH
  Keys <- RecordKeys, Values <- Records,
  value <- [k \in RecordKeys |-> Loaded(k)],
  left  <- [k \in RecordKeys |-> {Parsed(f) : f \in Survivors(k)}],
  call  <- CallOn(RecordKeys),
  acked <- [k \in RecordKeys |-> acked[k]]

(* Each record is kept atomically: "a crash leaves the old file or the new *)
(* one", and once Put returned the new one.                                *)
RecordsAtomic == RecordsStore!Spec

Ends(k) == call # None /\ call.key = k /\ call' = None

(* A project is deleted as a whole: whatever ends the call but a power     *)
(* failure, the project is loaded as it was or not at all.                 *)
DeletedWhole ==
  [][\A k \in ProjectKeys :
       Ends(k) /\ call.value = None /\ entry' = entry => Loaded(k)' \in {call.was, None}]_vars

(* "PutProject writes a project atomically": whatever ends the call, the   *)
(* project is loaded as it was or as it was put.                           *)
ProjectsAtomic ==
  [][\A k \in ProjectKeys : Ends(k) => Loaded(k)' \in {call.was, call.value}]_vars
=============================================================================
