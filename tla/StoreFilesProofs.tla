-------------------------- MODULE StoreFilesProofs --------------------------
(***************************************************************************)
(* Proofs about the files of the store: what a call that succeeded put is  *)
(* what is loaded, a project is deleted as a whole, and each record is     *)
(* kept atomically, for any number of containers, projects, calls, failing *)
(* steps, crashes and power failures.                                      *)
(***************************************************************************)
EXTENDS StoreFiles, TLAPS

(* The files a key is kept in. *)
PathsOf(k) == IF k[1] = "project" THEN {Yaml(k[2]), Dir(k[2])} ELSE {k}

(* Every file a path can name is wholly written and synced. *)
Whole ==
  \A q \in Paths : entry[q] \in left[q]
                   /\ \A f \in left[q] : f # None => f.synced /\ f.content # Torn

(* How far a write has come. *)
Ready ==
  call # None /\ call.at \in {"created", "written", "synced"} =>
    /\ temp # None /\ call.now.content # None
    /\ call.at # "created" => temp.content = call.now.content
    /\ call.at = "synced" => temp.synced

(* The files of a call, and those of them that are done. *)
Shape ==
  call # None =>
    IF call.key \notin ProjectKeys
    THEN call.now = To(call.key, call.value) /\ call.then = None
    ELSE LET p == call.key[2] v == call.value IN
         IF v = None
         THEN \/ call.now = To(Yaml(p), None) /\ call.then = To(Dir(p), None)
              \/ call.now = To(Dir(p), None) /\ call.then = None /\ entry[Yaml(p)] = None
         ELSE \/ call.now = To(Dir(p), v.dir) /\ call.then = To(Yaml(p), v.compose)
              \/ /\ call.now = To(Yaml(p), v.compose) /\ call.then = None
                 /\ Content(entry[Dir(p)]) = v.dir

Settled(q) == left[q] = {entry[q]}

Done ==
  call # None =>
    /\ call.at \in {"named", "over"} => Content(entry[call.now.path]) = call.now.content
    /\ call.at = "named" => call.changed
    /\ call.at = "over" => call.then = None
    /\ call.changed /\ call.at # "named" => \A q \in PathsOf(call.key) : Settled(q)
    /\ call.at = "over" /\ call.value # None => call.changed

Kept ==
  \A k \in Keys : \A v \in acked[k] :
    Loaded(k) = v /\ \A q \in PathsOf(k) : Settled(q)

(* The files of a record only ever say records. *)
RecordFiles ==
  \A k \in RecordKeys : \A f \in left[k] : Content(f) \in Records \cup {None}

IInv == TypeOK /\ Whole /\ Ready /\ Shape /\ Done /\ Kept /\ RecordFiles

-----------------------------------------------------------------------------

(* A key is kept in files of its own. *)
LEMMA PathFacts ==
  /\ \A k \in Keys : PathsOf(k) \subseteq Paths
  /\ \A k \in Keys, j \in Keys : k # j => PathsOf(k) \cap PathsOf(j) = {}
  /\ \A p \in Projects : <<"project", p>> \in ProjectKeys /\ <<"project", p>>[2] = p
  /\ \A k \in ProjectKeys : k[2] \in Projects /\ PathsOf(k) = {Yaml(k[2]), Dir(k[2])}
  /\ \A k \in Keys \ ProjectKeys : PathsOf(k) = {k}
  /\ RecordKeys \cap ProjectKeys = {} /\ Boot \notin ProjectKeys /\ Boot \notin RecordKeys
<1>1. ASSUME NEW k \in ProjectKeys
      PROVE  k[1] = "project" /\ k[2] \in Projects
  BY <1>1 DEF ProjectKeys
<1>2. ASSUME NEW k \in RecordKeys
      PROVE  k[1] = "record"
  BY <1>2 DEF RecordKeys
<1>3. Boot[1] = "boot"
  BY DEF Boot
<1>4. \A p \in Projects : Yaml(p) # Dir(p) /\ Yaml(p) \in Paths /\ Dir(p) \in Paths
  BY DEF Yaml, Dir, Paths
<1>5. \A p \in Projects : Yaml(p)[1] = "yaml" /\ Dir(p)[1] = "dir" /\ Yaml(p)[2] = p /\ Dir(p)[2] = p
  BY DEF Yaml, Dir
<1>6. \A k \in ProjectKeys, j \in ProjectKeys : k # j => k[2] # j[2]
  BY DEF ProjectKeys
<1>7. \A k \in Keys : PathsOf(k) \subseteq Paths
  BY <1>1, <1>2, <1>3, <1>4 DEF PathsOf, Keys, Paths
<1>8. \A k \in Keys, j \in Keys : k # j => PathsOf(k) \cap PathsOf(j) = {}
  BY <1>1, <1>2, <1>3, <1>5, <1>6 DEF PathsOf, Keys
<1>9. \A p \in Projects : <<"project", p>> \in ProjectKeys /\ <<"project", p>>[2] = p
  BY DEF ProjectKeys
<1>10. \A k \in Keys \ ProjectKeys : PathsOf(k) = {k}
  BY <1>2, <1>3 DEF PathsOf, Keys
<1>11. \A k \in ProjectKeys : PathsOf(k) = {Yaml(k[2]), Dir(k[2])}
  BY <1>1 DEF PathsOf
<1>12. RecordKeys \cap ProjectKeys = {} /\ Boot \notin ProjectKeys /\ Boot \notin RecordKeys
  BY <1>1, <1>2, <1>3
<1> QED BY <1>1, <1>7, <1>8, <1>9, <1>10, <1>11, <1>12

(* What is loaded under a key depends on its files only. *)
LEMMA LoadedFrom ==
  ASSUME NEW k \in Keys, \A q \in PathsOf(k) : entry'[q] = entry[q]
  PROVE  Loaded(k)' = Loaded(k)
<1>1. k[1] \in {"project", "record", "boot"}
  BY DEF Keys, ProjectKeys, RecordKeys, Boot
<1>2. k[1] = "project" => Yaml(k[2]) \in PathsOf(k) /\ Dir(k[2]) \in PathsOf(k)
  BY DEF PathsOf
<1>3. k[1] # "project" => k \in PathsOf(k)
  BY DEF PathsOf
<1> QED BY <1>1, <1>2, <1>3 DEF Loaded

(* The files a key is kept in are in one directory.                        *)
LEMMA OneDirectory ==
  \A k \in Keys : \A q \in PathsOf(k), r \in PathsOf(k) : SameDir(q, r)
<1> SUFFICES ASSUME NEW k \in Keys, NEW q \in PathsOf(k), NEW r \in PathsOf(k)
             PROVE  SameDir(q, r)
  OBVIOUS
<1>1. CASE k[1] = "project"
  BY <1>1 DEF PathsOf, SameDir, Yaml, Dir
<1>2. CASE k[1] # "project"
  BY <1>2 DEF PathsOf, SameDir
<1> QED BY <1>1, <1>2

(* No file says None, and no value is the content of a torn file. *)
LEMMA ContentFacts ==
  /\ \A f \in File : Content(f) = f.content /\ f.content \in Contents /\ f.content # None
  /\ Content(None) = None
  /\ \A k \in Keys : k \notin ProjectKeys => \A v \in Value(k) : v # Torn
<1>1. \A f \in File : Content(f) = f.content /\ f.content \in Contents /\ f.content # None
  BY ConstantsAssumption, NoneAssumption DEF File, Content, Contents
<1>2. \A k \in Keys : k \notin ProjectKeys => \A v \in Value(k) : v # Torn
  BY ConstantsAssumption DEF Keys, RecordKeys, ProjectKeys, Boot, Value
<1> QED BY <1>1, <1>2 DEF Content

(* In the initial states nothing is kept, and no call is in progress. *)
LEMMA InitIInv == Init => IInv
<1> SUFFICES ASSUME Init PROVE IInv
  OBVIOUS
<1>1. TypeOK
  BY ConstantsAssumption DEF Init, TypeOK
<1>2. Whole
  BY DEF Init, Whole
<1>3. Ready /\ Shape /\ Done
  BY DEF Init, Ready, Shape, Done
<1>4. Kept
  BY DEF Init, Kept
<1>5. RecordFiles
  <2>1. \A k \in RecordKeys : k \in Paths
    BY DEF Paths
  <2> QED BY <2>1 DEF Init, RecordFiles, Content
<1> QED BY <1>1, <1>2, <1>3, <1>4, <1>5 DEF IInv

-----------------------------------------------------------------------------

(* A call changes a file its key is kept in, one step of it at a time. *)
LEMMA CallFacts ==
  ASSUME TypeOK, Shape, call # None
  PROVE  /\ call \in StoreCall /\ call.key \in Keys /\ call.value \in Value(call.key)
         /\ Now.path \in PathsOf(call.key) /\ Now.path \in Paths
         /\ Now.content \in Contents \cup {None}
         /\ call.then # None => call.then.path \in PathsOf(call.key)
<1>1. call \in StoreCall /\ call.key \in Keys /\ call.value \in Value(call.key)
  BY DEF TypeOK, StoreCall
<1>2. Now \in Step /\ Now.path \in Paths /\ Now.content \in Contents \cup {None}
  BY <1>1 DEF StoreCall, Step, Now
<1>3. CASE call.key \in ProjectKeys
  <2>1. PathsOf(call.key) = {Yaml(call.key[2]), Dir(call.key[2])}
    BY <1>3, PathFacts
  <2>2. \A q, c : To(q, c).path = q
    BY DEF To
  <2> QED BY <1>1, <1>2, <1>3, <2>1, <2>2 DEF Shape, Now
<1>4. CASE call.key \notin ProjectKeys
  BY <1>1, <1>2, <1>4, PathFacts DEF Shape, Now, To
<1> QED BY <1>1, <1>2, <1>3, <1>4

(* What was promised of other keys stands while one key's files change. *)
LEMMA OthersKept ==
  ASSUME Kept, NEW key \in Keys, DOMAIN acked = Keys,
         \A q \in Paths : q \notin PathsOf(key) => entry'[q] = entry[q] /\ left'[q] = left[q],
         acked' = [acked EXCEPT ![key] = {}]
  PROVE  Kept'
<1> SUFFICES ASSUME NEW k \in Keys, NEW v \in acked'[k]
             PROVE  Loaded(k)' = v /\ \A q \in PathsOf(k) : Settled(q)'
  BY DEF Kept
<1>1. k # key /\ v \in acked[k]
  OBVIOUS
<1>2. \A q \in PathsOf(k) : q \in Paths /\ q \notin PathsOf(key)
  BY <1>1, PathFacts
<1>3. Loaded(k)' = Loaded(k)
  BY <1>2, LoadedFrom
<1> QED BY <1>1, <1>2, <1>3 DEF Kept, Settled

(* What is loaded under a key. *)
LEMMA LoadedType ==
  ASSUME TypeOK, NEW k \in Keys
  PROVE  Loaded(k) \in Contents \cup {None}
                         \cup [compose : Contents \cup {None}, dir : Contents \cup {None}]
<1>1. \A f \in File \cup {None} : Content(f) \in Contents \cup {None}
  BY ContentFacts
<1>2. \A q \in Paths : entry[q] \in File \cup {None}
  BY DEF TypeOK
<1>3. CASE k \in ProjectKeys
  <2>1. k[1] = "project" /\ Yaml(k[2]) \in Paths /\ Dir(k[2]) \in Paths
    BY <1>3 DEF ProjectKeys, Yaml, Dir, Paths
  <2> QED BY <1>1, <1>2, <2>1 DEF Loaded, ProjectOf
<1>4. CASE k \notin ProjectKeys
  <2>1. k \in Paths /\ k[1] \in {"record", "boot"}
    BY <1>4 DEF Keys, Paths, RecordKeys, Boot
  <2> QED BY <1>1, <1>2, <2>1 DEF Loaded, Parsed
<1> QED BY <1>3, <1>4

(* A call that begins has changed nothing. *)
LEMMA BeginIInv ==
  ASSUME IInv, NEW c, Begin(c), NEW k \in Keys, NEW v \in Value(k),
         NEW now \in Step, NEW then \in Step \cup {None},
         c = NewCall(k, v, now, then),
         Shape'
  PROVE  IInv' /\ call' # None
<1>1. TypeOK /\ call = None /\ temp = None
  BY DEF IInv, TypeOK, Begin
<1>2. v \in Records \cup Boots \cup Project \cup {None}
  BY DEF Value, Keys, RecordKeys, ProjectKeys, Boot
<1>3. c \in StoreCall /\ c.key = k /\ c.value = v /\ c.at = "start" /\ c.changed = FALSE
  BY <1>1, <1>2, LoadedType DEF NewCall, StoreCall, Ats
<1>4. call' = c /\ entry' = entry /\ left' = left /\ temp' = temp /\ acked' = acked
  BY DEF Begin
<1>5. TypeOK'
  <2>1. budget' \in [calls : Nat, faults : Nat, crashes : Nat]
    BY <1>1 DEF TypeOK, Begin, Spend
  <2> QED BY <1>1, <1>3, <1>4, <2>1 DEF TypeOK
<1>6. Whole' /\ RecordFiles'
  BY <1>4 DEF IInv, Whole, RecordFiles
<1>7. Ready' /\ Done'
  BY <1>3, <1>4 DEF Ready, Done
<1>8. Kept'
  <2>1. \A j \in Keys : Loaded(j)' = Loaded(j)
    BY <1>4, LoadedFrom
  <2> QED BY <1>4, <2>1 DEF IInv, Kept, Settled
<1>9. call' # None
  BY <1>3, <1>4, NoneAssumption
<1> QED BY <1>5, <1>6, <1>7, <1>8, <1>9 DEF IInv

(* Put and Delete begin. *)
LEMMA BeginRecordIInv ==
  ASSUME IInv, NEW n \in Names, NEW v \in Records \cup {None}, BeginRecord(n, v)
  PROVE  IInv' /\ call' # None
<1> DEFINE k == <<"record", n>>
<1>1. k \in RecordKeys /\ k \in Keys /\ k \in Paths /\ k \notin ProjectKeys /\ v \in Value(k)
  BY PathFacts DEF RecordKeys, Keys, Paths, Value
<1>2. To(k, v) \in Step
  BY <1>1 DEF To, Step, Contents
<1>3. Begin(NewCall(k, v, To(k, v), None))
  BY DEF BeginRecord, PutFile
<1>4. Shape'
  BY <1>1, <1>3 DEF Begin, NewCall, Shape
<1> QED BY <1>1, <1>2, <1>3, <1>4, BeginIInv

(* SetBootID begins. *)
LEMMA BeginBootIInv ==
  ASSUME IInv, NEW b \in Boots, BeginBoot(b)
  PROVE  IInv' /\ call' # None
<1>1. Boot \in Keys /\ Boot \in Paths /\ Boot \notin ProjectKeys /\ b \in Value(Boot)
  BY PathFacts DEF Boot, Keys, Paths, Value
<1>2. To(Boot, b) \in Step
  BY <1>1 DEF To, Step, Contents
<1>3. Begin(NewCall(Boot, b, To(Boot, b), None))
  BY DEF BeginBoot, PutFile
<1>4. Shape'
  BY <1>1, <1>3 DEF Begin, NewCall, Shape
<1> QED BY <1>1, <1>2, <1>3, <1>4, BeginIInv

(* PutProject and DeleteProject begin. *)
LEMMA BeginProjectIInv ==
  ASSUME IInv, NEW p \in Projects, NEW v \in Project \cup {None}, BeginProject(p, v)
  PROVE  IInv' /\ call' # None
<1> DEFINE k == <<"project", p>>
<1>1. k \in ProjectKeys /\ k \in Keys /\ v \in Value(k) /\ k[2] = p
  BY PathFacts DEF ProjectKeys, Keys, Value
<1>2. Yaml(p) \in Paths /\ Dir(p) \in Paths
  BY DEF Yaml, Dir, Paths
<1>3. CASE v = None
  <2>1. To(Yaml(p), None) \in Step /\ To(Dir(p), None) \in Step
    BY <1>2 DEF To, Step
  <2>2. Begin(NewCall(k, v, To(Yaml(p), None), To(Dir(p), None)))
    BY <1>3 DEF BeginProject, DeleteProject
  <2>3. Shape'
    BY <1>1, <1>3, <2>2 DEF Begin, NewCall, Shape
  <2> QED BY <1>1, <2>1, <2>2, <2>3, BeginIInv
<1>4. CASE v # None
  <2>1. To(Dir(p), v.dir) \in Step /\ To(Yaml(p), v.compose) \in Step
    BY <1>2, <1>4 DEF To, Step, Project, Contents
  <2>2. Begin(NewCall(k, v, To(Dir(p), v.dir), To(Yaml(p), v.compose)))
    BY <1>4 DEF BeginProject, PutProject
  <2>3. Shape'
    BY <1>1, <1>4, <2>2 DEF Begin, NewCall, Shape
  <2> QED BY <1>1, <2>1, <2>2, <2>3, BeginIInv
<1> QED BY <1>3, <1>4

-----------------------------------------------------------------------------

(* A step that changes no file that a path names, and no promise, keeps    *)
(* what is said of those.                                                  *)
LEMMA FilesKept ==
  ASSUME IInv, UNCHANGED <<entry, left, acked>>
  PROVE  Whole' /\ Kept' /\ RecordFiles'
<1>1. \A j \in Keys : Loaded(j)' = Loaded(j)
  BY LoadedFrom
<1>2. Whole' /\ RecordFiles'
  BY DEF IInv, Whole, RecordFiles
<1>3. Kept'
  BY <1>1 DEF IInv, Kept, Settled
<1> QED BY <1>2, <1>3

(* A call that goes on to another step of the same write. *)
LEMMA GoToFacts ==
  ASSUME TypeOK, call # None, NEW at \in Ats, GoTo(at)
  PROVE  /\ call' \in StoreCall /\ call' # None /\ call'.at = at
         /\ call'.key = call.key /\ call'.value = call.value
         /\ call'.now = call.now /\ call'.then = call.then /\ call'.changed = call.changed
<1>1. call \in StoreCall
  BY DEF TypeOK
<1>2. call' \in StoreCall
  BY <1>1 DEF GoTo, StoreCall
<1>3. call' # None
  BY <1>2, NoneAssumption
<1> QED BY <1>1, <1>2, <1>3 DEF GoTo, StoreCall

(* A step of a write that no path names yet. *)
LEMMA TempStepIInv ==
  ASSUME IInv, call # None, NEW at \in {"created", "written", "synced"}, GoTo(at),
         temp' \in File, UNCHANGED <<entry, left, acked, budget>>,
         call.now.content # None,
         at # "created" => temp'.content = call.now.content,
         at = "synced" => temp'.synced,
         call.at \notin {"named", "over"}
  PROVE  IInv'
<1>1. /\ call' \in StoreCall /\ call' # None /\ call'.at = at
      /\ call'.key = call.key /\ call'.value = call.value
      /\ call'.now = call.now /\ call'.then = call.then /\ call'.changed = call.changed
  BY GoToFacts DEF IInv, Ats
<1>2. temp' # None
  BY NoneAssumption
<1>3. TypeOK'
  BY <1>1 DEF IInv, TypeOK
<1>4. Ready'
  BY <1>1, <1>2 DEF Ready
<1>5. Shape'
  BY <1>1 DEF IInv, Shape
<1>6. Done'
  BY <1>1 DEF IInv, Done, Settled
<1> QED BY <1>3, <1>4, <1>5, <1>6, FilesKept DEF IInv

(* The temporary file is created. *)
LEMMA CreateTempIInv == ASSUME IInv, CreateTemp PROVE IInv'
<1>1. [content |-> Torn, synced |-> FALSE] \in File
  BY DEF File, Contents
<1> QED BY <1>1, TempStepIInv DEF CreateTemp, InStep, Now

(* The temporary file of a write in progress. *)
LEMMA TempFacts ==
  ASSUME IInv, call # None, call.at \in {"created", "written", "synced"}
  PROVE  /\ temp \in File /\ call.now.content # None
         /\ call.at # "created" => temp.content = call.now.content
         /\ call.at = "synced" => temp.synced
BY DEF IInv, TypeOK, Ready

(* The temporary file is written. *)
LEMMA WriteIInv == ASSUME IInv, Write PROVE IInv'
<1>1. call # None /\ call.at = "created" /\ temp' = [temp EXCEPT !.content = Now.content]
  BY DEF Write, InStep
<1>2. temp \in File /\ Now.content # None
  BY <1>1, TempFacts DEF Now
<1>3. Now.content \in Contents
  BY <1>1, <1>2, CallFacts DEF IInv
<1>4. temp' \in File /\ temp'.content = call.now.content
  BY <1>1, <1>2, <1>3 DEF File, Now
<1> QED BY <1>1, <1>2, <1>4, TempStepIInv DEF Write, InStep, Now

(* The temporary file is synced. *)
LEMMA SyncIInv == ASSUME IInv, Sync PROVE IInv'
<1>1. call # None /\ call.at = "written" /\ temp' = [temp EXCEPT !.synced = TRUE]
  BY DEF Sync, InStep
<1>2. temp \in File /\ call.now.content # None /\ temp.content = call.now.content
  BY <1>1, TempFacts
<1>3. temp' \in File /\ temp'.content = call.now.content /\ temp'.synced
  BY <1>1, <1>2 DEF File
<1> QED BY <1>1, <1>2, <1>3, TempStepIInv DEF Sync, InStep, Now

(* A call that ends without having returned nil. *)
LEMMA EndsIInv ==
  ASSUME IInv, call' = None, temp' = None, UNCHANGED <<entry, left, acked>>,
         budget' \in [calls : Nat, faults : Nat, crashes : Nat]
  PROVE  IInv'
<1>1. TypeOK'
  BY DEF IInv, TypeOK
<1>2. Ready' /\ Shape' /\ Done'
  BY DEF Ready, Shape, Done
<1> QED BY <1>1, <1>2, FilesKept DEF IInv

(* A bound that is spent stays a bound. *)
LEMMA SpendType ==
  ASSUME TypeOK, NEW what \in {"calls", "faults", "crashes"}, Spend(what)
  PROVE  budget' \in [calls : Nat, faults : Nat, crashes : Nat]
BY DEF TypeOK, Spend

(* A step of a call fails. *)
LEMMA FailIInv == ASSUME IInv, Fail PROVE IInv'
BY EndsIInv, SpendType DEF Fail, IInv

(* The daemon is killed. *)
LEMMA CrashIInv == ASSUME IInv, Crash PROVE IInv'
BY EndsIInv, SpendType DEF Crash, IInv

-----------------------------------------------------------------------------

(* No call writes what a torn file says, and a record's writes a record. *)
LEMMA ContentOfCall ==
  ASSUME TypeOK, Shape, call # None
  PROVE  /\ Now.content # Torn
         /\ \A k \in RecordKeys : Now.path = k => Now.content \in Records \cup {None}
<1>1. call.key \in Keys /\ call.value \in Value(call.key)
  BY CallFacts
<1>2. CASE call.key \notin ProjectKeys
  <2>1. Now.content = call.value /\ Now.path = call.key
    BY <1>2 DEF Shape, Now, To
  <2>2. call.key \in RecordKeys => Value(call.key) = Records \cup {None}
    BY DEF RecordKeys, Value
  <2> QED BY <1>1, <1>2, <2>1, <2>2, ContentFacts
<1>3. CASE call.key \in ProjectKeys
  <2>1. call.value \in Project \cup {None}
    BY <1>1, <1>3 DEF ProjectKeys, Value
  <2>2. Now.content # Torn
    BY <1>3, <2>1, ConstantsAssumption DEF Shape, Now, To, Project
  <2>3. \A k \in RecordKeys : k \in PathsOf(k) /\ k # call.key /\ k \in Keys
    BY <1>3, PathFacts DEF Keys
  <2>4. Now.path \in PathsOf(call.key)
    BY CallFacts
  <2>5. \A k \in RecordKeys : Now.path # k
    BY <1>1, <2>3, <2>4, PathFacts
  <2> QED BY <2>2, <2>5
<1> QED BY <1>2, <1>3

(* A file takes the place of the one its path names. *)
LEMMA ChangesIInv ==
  ASSUME IInv, call # None, NEW file \in File \cup {None}, Changes(file),
         file # None => file.synced,
         Content(file) = Now.content,
         temp' = None, UNCHANGED budget
  PROVE  IInv'
<1>1. TypeOK /\ Shape /\ Whole /\ Kept /\ RecordFiles
  BY DEF IInv
<1>2. /\ call \in StoreCall /\ call.key \in Keys /\ call.value \in Value(call.key)
      /\ Now.path \in PathsOf(call.key) /\ Now.path \in Paths
  BY <1>1, CallFacts
<1>3. /\ call' \in StoreCall /\ call'.at = "named" /\ call'.changed = TRUE
      /\ call'.key = call.key /\ call'.value = call.value
      /\ call'.now = call.now /\ call'.then = call.then
  BY <1>2 DEF Changes, StoreCall, Ats
<1>4. call' # None
  BY <1>3, NoneAssumption
<1>5. /\ entry' = [entry EXCEPT ![Now.path] = file]
      /\ left' = [left EXCEPT ![Now.path] = @ \cup {file}]
      /\ acked' = [acked EXCEPT ![call.key] = {}]
  BY DEF Changes
<1>6. /\ entry'[Now.path] = file
      /\ left'[Now.path] = left[Now.path] \cup {file}
      /\ \A q \in Paths : q # Now.path => entry'[q] = entry[q] /\ left'[q] = left[q]
  BY <1>1, <1>2, <1>5 DEF TypeOK
<1>7. TypeOK'
  <2>1. entry' \in [Paths -> File \cup {None}]
    BY <1>1, <1>2, <1>5 DEF TypeOK
  <2>2. left' \in [Paths -> SUBSET (File \cup {None})]
    BY <1>1, <1>2, <1>5 DEF TypeOK
  <2>3. DOMAIN acked' = Keys /\ \A k \in Keys : acked'[k] \subseteq Value(k)
    BY <1>1, <1>2, <1>5 DEF TypeOK
  <2> QED BY <1>1, <1>2, <1>3, <2>1, <2>2, <2>3 DEF TypeOK
<1>8. Whole'
  <2>1. file # None => file.content # Torn
    BY <1>1, ContentOfCall, ContentFacts
  <2>2. ASSUME NEW q \in Paths
        PROVE  entry'[q] \in left'[q] /\ \A f \in left'[q] : f # None => f.synced /\ f.content # Torn
    BY <1>1, <1>6, <2>1, <2>2 DEF Whole
  <2> QED BY <2>2 DEF Whole
<1>9. Ready'
  BY <1>3 DEF Ready
<1>10. Shape'
  <2>1. CASE call.key \notin ProjectKeys
    BY <1>1, <1>3, <2>1 DEF Shape
  <2>2. CASE call.key \in ProjectKeys
    <3>1. Yaml(call.key[2]) \in Paths /\ Dir(call.key[2]) \in Paths
          /\ Yaml(call.key[2]) # Dir(call.key[2])
      BY <2>2, PathFacts DEF Yaml, Dir, Paths
    <3>2. Now.path # Yaml(call.key[2]) => entry'[Yaml(call.key[2])] = entry[Yaml(call.key[2])]
      BY <1>6, <3>1
    <3>3. Now.path # Dir(call.key[2]) => entry'[Dir(call.key[2])] = entry[Dir(call.key[2])]
      BY <1>6, <3>1
    <3>4. \A q, c : To(q, c).path = q
      BY DEF To
    <3> QED BY <1>1, <1>3, <2>2, <3>1, <3>2, <3>3, <3>4 DEF Shape, Now, Content
  <2> QED BY <2>1, <2>2
<1>11. Done'
  BY <1>3, <1>6 DEF Done, Now, Content
<1>12. Kept'
  <2>1. \A q \in Paths : q \notin PathsOf(call.key) => entry'[q] = entry[q] /\ left'[q] = left[q]
    BY <1>2, <1>6
  <2>2. DOMAIN acked = Keys
    BY <1>1 DEF TypeOK
  <2> QED BY <1>1, <1>2, <1>5, <2>1, <2>2, OthersKept
<1>13. RecordFiles'
  <2> SUFFICES ASSUME NEW k \in RecordKeys, NEW f \in left'[k]
               PROVE  Content(f) \in Records \cup {None}
    BY DEF RecordFiles, Content
  <2>1. k \in Paths
    BY DEF Paths
  <2>2. CASE f \in left[k]
    BY <1>1, <2>2 DEF RecordFiles
  <2>3. CASE f \notin left[k]
    <3>1. k = Now.path /\ f = file
      BY <1>6, <2>1, <2>3
    <3> QED BY <1>1, <3>1, ContentOfCall
  <2> QED BY <2>2, <2>3
<1> QED BY <1>7, <1>8, <1>9, <1>10, <1>11, <1>12, <1>13 DEF IInv

(* The temporary file is renamed over the one it replaces. *)
LEMMA RenameIInv == ASSUME IInv, Rename PROVE IInv'
<1>1. call # None /\ call.at = "synced" /\ Changes(temp) /\ temp' = None /\ UNCHANGED budget
  BY DEF Rename, InStep
<1>2. temp \in File /\ temp.content = call.now.content /\ temp.synced
  BY <1>1, TempFacts
<1>3. Content(temp) = Now.content
  BY <1>2, ContentFacts DEF Now
<1> QED BY <1>1, <1>2, <1>3, ChangesIInv

(* A call whose file is what it should be goes on to its next file. *)
LEMMA StepDoneFacts ==
  ASSUME TypeOK, Shape, call # None, StepDone, entry' = entry,
         Content(entry[Now.path]) = Now.content
  PROVE  /\ call' \in StoreCall /\ call' # None /\ call'.at \in {"start", "over"}
         /\ call'.key = call.key /\ call'.value = call.value /\ call'.changed = call.changed
         /\ call'.at = "over" => call'.now = call.now /\ call'.then = None /\ call.then = None
         /\ Shape'
<1>1. call \in StoreCall /\ call.key \in Keys /\ call.value \in Value(call.key)
      /\ Now.path \in Paths
  BY CallFacts
<1>2. CASE call.then = None
  <2>1. call' = [call EXCEPT !.at = "over"]
    BY <1>2 DEF StepDone
  <2>2. /\ call' \in StoreCall /\ call'.at = "over"
        /\ call'.key = call.key /\ call'.value = call.value /\ call'.changed = call.changed
        /\ call'.now = call.now /\ call'.then = call.then
    BY <1>1, <2>1 DEF StoreCall, Ats
  <2>3. Shape'
    BY <2>2 DEF Shape, Content
  <2> QED BY <1>2, <2>2, <2>3, NoneAssumption
<1>3. CASE call.then # None
  <2>1. call' = [call EXCEPT !.now = call.then, !.then = None, !.at = "start"]
    BY <1>3 DEF StepDone
  <2>2. call.then \in Step
    BY <1>1, <1>3 DEF StoreCall
  <2>3. /\ call' \in StoreCall /\ call'.at = "start"
        /\ call'.key = call.key /\ call'.value = call.value /\ call'.changed = call.changed
        /\ call'.now = call.then /\ call'.then = None
    BY <1>1, <2>1, <2>2 DEF StoreCall, Ats
  <2>4. Shape'
    <3>1. call.key \in ProjectKeys
      BY <1>3 DEF Shape
    <3>2. call.value # None => call.now = To(Dir(call.key[2]), call.value.dir)
                               /\ call.then = To(Yaml(call.key[2]), call.value.compose)
      BY <1>3, <3>1 DEF Shape
    <3>3. call.value = None => call.now = To(Yaml(call.key[2]), None)
                               /\ call.then = To(Dir(call.key[2]), None)
      BY <1>3, <3>1 DEF Shape
    <3>4. call.value # None => Content(entry[Dir(call.key[2])]) = call.value.dir
      BY <3>2 DEF To, Now
    <3>5. call.value = None => entry[Yaml(call.key[2])] = None
      <4>1. \A q \in Paths : entry[q] # None => Content(entry[q]) # None
        BY ContentFacts DEF TypeOK
      <4>2. call.value = None => Now.path = Yaml(call.key[2]) /\ Now.content = None
        BY <3>3 DEF To, Now
      <4> QED BY <1>1, <4>1, <4>2
    <3>6. CASE call.value = None
      BY <2>3, <3>1, <3>3, <3>5, <3>6 DEF Shape
    <3>7. CASE call.value # None
      BY <2>3, <3>1, <3>2, <3>4, <3>7 DEF Shape, Content
    <3> QED BY <3>6, <3>7
  <2> QED BY <2>3, <2>4, NoneAssumption
<1> QED BY <1>2, <1>3

(* Nothing is removed: the file was not there. *)
LEMMA NothingToRemoveIInv ==
  ASSUME IInv, call # None, call.at = "start", Now.content = None, entry[Now.path] = None,
         StepDone, UNCHANGED <<entry, left, acked, temp, budget>>
  PROVE  IInv'
<1>1. TypeOK /\ Shape /\ Done /\ temp = None
  BY DEF IInv, TypeOK
<1>2. /\ call' \in StoreCall /\ call' # None /\ call'.at \in {"start", "over"}
      /\ call'.key = call.key /\ call'.value = call.value /\ call'.changed = call.changed
      /\ call'.at = "over" => call'.now = call.now /\ call'.then = None /\ call.then = None
      /\ Shape'
  BY <1>1, StepDoneFacts DEF Content
<1>3. TypeOK'
  BY <1>1, <1>2 DEF TypeOK
<1>4. Ready'
  BY <1>2 DEF Ready
<1>5. call'.at = "over" => call.value = None
  <2>1. CASE call.key \in ProjectKeys
    <3>1. call.value \in Project \cup {None}
      BY <1>1, <2>1, CallFacts DEF ProjectKeys, Value
    <3> SUFFICES ASSUME call'.at = "over", call.value # None PROVE FALSE
      OBVIOUS
    <3>2. call.value.compose \in Composes /\ call.key[2] \in Projects
      BY <2>1, <3>1, PathFacts DEF Project
    <3>3. To(Yaml(call.key[2]), call.value.compose) \in Step
      BY <3>2 DEF To, Step, Contents, Yaml, Paths
    <3>4. call.now = To(Yaml(call.key[2]), call.value.compose)
      BY <1>1, <1>2, <2>1, <3>3, NoneAssumption DEF Shape
    <3> QED BY <3>2, <3>4, ConstantsAssumption DEF Now, To
  <2>2. CASE call.key \notin ProjectKeys
    BY <1>1, <2>2 DEF Shape, Now, To
  <2> QED BY <2>1, <2>2
<1>6. Done'
  BY <1>1, <1>2, <1>5 DEF Done, Settled, Content, Now
<1> QED BY <1>2, <1>3, <1>4, <1>6, FilesKept DEF IInv

(* A file is removed, or was not there. *)
LEMMA RemoveIInv == ASSUME IInv, Remove PROVE IInv'
<1>1. call # None /\ call.at = "start" /\ Now.content = None /\ UNCHANGED <<temp, budget>>
  BY DEF Remove, InStep
<1>2. CASE entry[Now.path] = None
  <2>1. StepDone /\ UNCHANGED <<entry, left, acked>>
    BY <1>2 DEF Remove
  <2> QED BY <1>1, <1>2, <2>1, NothingToRemoveIInv
<1>3. CASE entry[Now.path] # None
  <2>1. Changes(None)
    BY <1>3 DEF Remove
  <2>2. temp' = None
    BY <1>1 DEF IInv, TypeOK
  <2> QED BY <1>1, <2>1, <2>2, ChangesIInv DEF Content
<1> QED BY <1>2, <1>3

(* The directory is synced: what a process sees is what is left. *)
LEMMA SyncDirIInv == ASSUME IInv, SyncDir PROVE IInv'
<1>1. /\ TypeOK /\ Shape /\ Done /\ Kept /\ Whole /\ RecordFiles
      /\ call # None /\ call.at = "named" /\ temp = None
  BY DEF SyncDir, InStep, IInv, TypeOK
<1>2. StepDone /\ UNCHANGED <<entry, temp, acked, budget>>
      /\ left' = [q \in Paths |-> IF SameDir(q, Now.path) THEN {entry[q]} ELSE left[q]]
  BY DEF SyncDir
<1>3. Content(entry[Now.path]) = Now.content /\ call.changed
  BY <1>1 DEF Done, Now
<1>4. /\ call' \in StoreCall /\ call' # None /\ call'.at \in {"start", "over"}
      /\ call'.key = call.key /\ call'.value = call.value /\ call'.changed = call.changed
      /\ call'.at = "over" => call'.now = call.now /\ call'.then = None /\ call.then = None
      /\ Shape'
  BY <1>1, <1>2, <1>3, StepDoneFacts
<1>5. \A q \in Paths : left'[q] = {entry[q]} \/ left'[q] = left[q]
  BY <1>2
<1>6. TypeOK'
  <2>1. left' \in [Paths -> SUBSET (File \cup {None})]
    <3>1. \A q \in Paths : {entry[q]} \subseteq File \cup {None} /\ left[q] \subseteq File \cup {None}
      BY <1>1 DEF TypeOK
    <3> QED BY <1>2, <3>1
  <2> QED BY <1>1, <1>2, <1>4, <2>1 DEF TypeOK
<1>7. Whole'
  BY <1>1, <1>2, <1>5 DEF Whole
<1>8. Ready'
  BY <1>4 DEF Ready
<1>9. Done'
  <2>1. \A q \in PathsOf(call.key) : q \in Paths /\ SameDir(q, Now.path)
    BY <1>1, CallFacts, OneDirectory, PathFacts
  <2>2. \A q \in PathsOf(call.key) : Settled(q)'
    BY <1>2, <2>1 DEF Settled
  <2> QED BY <1>2, <1>3, <1>4, <2>2 DEF Done, Now, Content
<1>10. Kept'
  <2>1. \A j \in Keys : Loaded(j)' = Loaded(j) /\ PathsOf(j) \subseteq Paths
    BY <1>2, LoadedFrom, PathFacts
  <2> QED BY <1>1, <1>2, <1>5, <2>1 DEF Kept, Settled
<1>11. RecordFiles'
  <2>1. \A k \in RecordKeys : k \in Paths /\ entry[k] \in left[k]
    BY <1>1 DEF Paths, Whole
  <2> QED BY <1>1, <1>5, <2>1 DEF RecordFiles, Content
<1> QED BY <1>4, <1>6, <1>7, <1>8, <1>9, <1>10, <1>11 DEF IInv

(* The call returns nil: what it put is loaded, and settled. *)
LEMMA ReturnIInv == ASSUME IInv, Return PROVE IInv'
<1>1. /\ TypeOK /\ Shape /\ Done /\ Kept
      /\ call # None /\ call.at = "over" /\ temp = None
      /\ call' = None /\ UNCHANGED <<entry, left, temp, budget>>
  BY DEF Return, InStep, IInv, TypeOK
<1>2. call.key \in Keys /\ call.value \in Value(call.key)
  BY <1>1, CallFacts
<1>3. acked' = IF call.changed THEN [acked EXCEPT ![call.key] = {call.value}] ELSE acked
  BY DEF Return
<1>4. TypeOK'
  <2>1. DOMAIN acked' = Keys /\ \A k \in Keys : acked'[k] \subseteq Value(k)
    BY <1>1, <1>2, <1>3 DEF TypeOK
  <2> QED BY <1>1, <2>1 DEF TypeOK
<1>5. Ready' /\ Shape' /\ Done'
  BY <1>1 DEF Ready, Shape, Done
<1>6. Whole' /\ RecordFiles'
  BY <1>1 DEF IInv, Whole, RecordFiles
<1>7. Kept'
  <2> SUFFICES ASSUME NEW k \in Keys, NEW v \in acked'[k]
               PROVE  Loaded(k)' = v /\ \A q \in PathsOf(k) : Settled(q)'
    BY DEF Kept
  <2>1. Loaded(k)' = Loaded(k) /\ \A q \in PathsOf(k) : Settled(q)' = Settled(q)
    BY <1>1, LoadedFrom DEF Settled
  <2>2. CASE v \in acked[k]
    BY <1>1, <2>1, <2>2 DEF Kept
  <2>3. CASE v \notin acked[k]
    <3>1. call.changed /\ k = call.key /\ v = call.value
      BY <1>1, <1>2, <1>3, <2>3 DEF TypeOK
    <3>2. Content(entry[Now.path]) = Now.content /\ call.then = None
          /\ \A q \in PathsOf(call.key) : Settled(q)
      BY <1>1, <3>1 DEF Done, Now
    <3>3. Loaded(call.key) = call.value
      <4>1. CASE call.key \notin ProjectKeys
        <5>1. Now.path = call.key /\ Now.content = call.value
          BY <1>1, <4>1 DEF Shape, Now, To
        <5>2. call.value # Torn /\ call.key[1] \in {"record", "boot"}
          BY <1>2, <4>1, ContentFacts DEF Keys, RecordKeys, Boot
        <5> QED BY <3>2, <5>1, <5>2 DEF Loaded, Parsed
      <4>2. CASE call.key \in ProjectKeys
        <5> DEFINE p == call.key[2]
        <5>1. call.key[1] = "project" /\ p \in Projects /\ Yaml(p) \in Paths /\ Dir(p) \in Paths
          BY <4>2 DEF ProjectKeys, Yaml, Dir, Paths
        <5>2. call.value \in Project \cup {None}
          BY <1>2, <5>1 DEF Value
        <5>3. CASE call.value = None
          <6>1. To(Dir(p), None) \in Step
            BY <5>1 DEF To, Step
          <6>2. entry[Yaml(p)] = None
            BY <1>1, <3>2, <4>2, <5>3, <6>1, NoneAssumption DEF Shape
          <6> QED BY <5>1, <5>3, <6>2 DEF Loaded, ProjectOf
        <5>4. CASE call.value # None
          <6>1. call.value.compose \in Composes
            BY <5>2, <5>4 DEF Project
          <6>2. To(Yaml(p), call.value.compose) \in Step
            BY <5>1, <6>1 DEF To, Step, Contents
          <6>3. call.now = To(Yaml(p), call.value.compose) /\ Content(entry[Dir(p)]) = call.value.dir
            BY <1>1, <3>2, <4>2, <5>4, <6>2, NoneAssumption DEF Shape
          <6>4. Content(entry[Yaml(p)]) = call.value.compose
            BY <3>2, <6>3 DEF Now, To
          <6>5. entry[Yaml(p)] # None
            BY <6>1, <6>4, ConstantsAssumption DEF Content
          <6>6. call.value = [compose |-> call.value.compose, dir |-> call.value.dir]
            BY <5>2, <5>4 DEF Project
          <6> QED BY <5>1, <6>3, <6>4, <6>5, <6>6 DEF Loaded, ProjectOf
        <5> QED BY <5>3, <5>4
      <4> QED BY <4>1, <4>2
    <3> QED BY <2>1, <3>1, <3>2, <3>3
  <2> QED BY <2>2, <2>3
<1> QED BY <1>4, <1>5, <1>6, <1>7 DEF IInv

(* As every file a path can name is synced, a power failure tears none. *)
LEMMA SurvivorsOfWhole ==
  ASSUME Whole, NEW q \in Paths
  PROVE  Survivors(q) = left[q]
BY DEF Whole, Survivors

(* The power fails: what was promised is settled, and comes back. *)
LEMMA PowerFailureIInv == ASSUME IInv, PowerFailure PROVE IInv'
<1>1. TypeOK /\ Whole /\ Kept /\ RecordFiles
  BY DEF IInv
<1>2. call' = None /\ temp' = None /\ acked' = acked /\ Spend("crashes")
      /\ left' = [q \in Paths |-> {entry'[q]}]
  BY DEF PowerFailure
<1>3. PICK back \in [Unsettled -> UNION {Survivors(q) : q \in Unsettled}] :
         /\ \A q \in Unsettled : back[q] \in Survivors(q)
         /\ entry' = [q \in Paths |-> IF q \in Unsettled THEN back[q] ELSE entry[q]]
  BY DEF PowerFailure
<1>4. \A q \in Paths : entry'[q] \in left[q]
  BY <1>1, <1>3, SurvivorsOfWhole DEF Whole
<1>5. \A q \in Paths : Settled(q) => entry'[q] = entry[q]
  BY <1>1, <1>4 DEF Settled
<1>6. entry' \in [Paths -> File \cup {None}]
  <2>1. \A q \in Paths : left[q] \subseteq File \cup {None}
    BY <1>1 DEF TypeOK
  <2> QED BY <1>3, <1>4, <2>1
<1>7. TypeOK'
  <2>1. left' \in [Paths -> SUBSET (File \cup {None})]
    <3>1. \A q \in Paths : {entry'[q]} \subseteq File \cup {None}
      BY <1>6
    <3> QED BY <1>2, <3>1
  <2>2. budget' \in [calls : Nat, faults : Nat, crashes : Nat]
    BY <1>1, <1>2, SpendType
  <2> QED BY <1>1, <1>2, <1>6, <2>1, <2>2 DEF TypeOK
<1>8. Whole'
  BY <1>1, <1>2, <1>4 DEF Whole
<1>9. Ready' /\ Shape' /\ Done'
  BY <1>2 DEF Ready, Shape, Done
<1>10. Kept'
  <2> SUFFICES ASSUME NEW k \in Keys, NEW v \in acked[k]
               PROVE  Loaded(k)' = v /\ \A q \in PathsOf(k) : Settled(q)'
    BY <1>2 DEF Kept
  <2>1. Loaded(k) = v /\ \A q \in PathsOf(k) : q \in Paths /\ Settled(q)
    BY <1>1, PathFacts DEF Kept
  <2>2. Loaded(k)' = Loaded(k)
    BY <1>5, <2>1, LoadedFrom
  <2> QED BY <1>2, <2>1, <2>2 DEF Settled
<1>11. RecordFiles'
  <2>1. \A k \in RecordKeys : k \in Paths
    BY DEF Paths
  <2> QED BY <1>1, <1>2, <1>4, <2>1 DEF RecordFiles, Content
<1> QED BY <1>7, <1>8, <1>9, <1>10, <1>11 DEF IInv

(* Every step keeps the invariant. *)
LEMMA NextIInv == IInv /\ [Next]_vars => IInv'
<1> SUFFICES ASSUME IInv, [Next]_vars PROVE IInv'
  OBVIOUS
<1>1. CASE UNCHANGED vars
  <2>1. TypeOK' /\ Ready'
    BY <1>1 DEF IInv, vars, TypeOK, Ready
  <2>2. Shape' /\ Done'
    BY <1>1 DEF IInv, vars, Shape, Done, Settled, Content
  <2> QED BY <1>1, <2>1, <2>2, FilesKept DEF IInv, vars
<1>2. CASE \E n \in Names, v \in Records \cup {None} : BeginRecord(n, v)
  BY <1>2, BeginRecordIInv
<1>3. CASE \E b \in Boots : BeginBoot(b)
  BY <1>3, BeginBootIInv
<1>4. CASE \E p \in Projects, v \in Project \cup {None} : BeginProject(p, v)
  BY <1>4, BeginProjectIInv
<1>5. CASE CreateTemp
  BY <1>5, CreateTempIInv
<1>6. CASE Write
  BY <1>6, WriteIInv
<1>7. CASE Sync
  BY <1>7, SyncIInv
<1>8. CASE Rename
  BY <1>8, RenameIInv
<1>9. CASE Remove
  BY <1>9, RemoveIInv
<1>10. CASE SyncDir
  BY <1>10, SyncDirIInv
<1>11. CASE Return
  BY <1>11, ReturnIInv
<1>12. CASE Fail
  BY <1>12, FailIInv
<1>13. CASE Crash
  BY <1>13, CrashIInv
<1>14. CASE PowerFailure
  BY <1>14, PowerFailureIInv
<1> QED BY <1>1, <1>2, <1>3, <1>4, <1>5, <1>6, <1>7, <1>8, <1>9, <1>10, <1>11, <1>12,
           <1>13, <1>14 DEF Next

(* The inductive invariant. *)
LEMMA Inductive == Spec => []IInv
BY InitIInv, NextIInv, PTL DEF Spec

(* Every variable has its type, and no temporary file outlives its write   *)
(* (store.go's write removes it whichever step fails).                     *)
THEOREM FilesTypeCorrect == Spec => []TypeOK
<1>1. IInv => TypeOK
  BY DEF IInv
<1> QED BY <1>1, Inductive, PTL

(* What a call of the store that returned nil put under a key is what is   *)
(* loaded, whatever fails, crashes or loses power afterwards, until        *)
(* another call changes that key.                                          *)
THEOREM AcknowledgedStands == Spec => []AckedKept
<1>1. IInv => AckedKept
  BY DEF IInv, Kept, AckedKept
<1> QED BY <1>1, Inductive, PTL

-----------------------------------------------------------------------------

(* During the deletion of a project it is loaded as it was, or not at all. *)
AsItWas ==
  call # None /\ call.key \in ProjectKeys /\ call.value = None =>
    Loaded(call.key) \in {call.was, None}

(* A step of a call that leaves what it found and what is loaded alone.    *)
LEMMA SameAsItWas ==
  ASSUME TypeOK, AsItWas, call # None, entry' = entry,
         call'.key = call.key, call'.value = call.value, call'.was = call.was
  PROVE  AsItWas'
<1>1. call.key \in Keys
  BY DEF TypeOK, StoreCall
<1>2. Loaded(call.key)' = Loaded(call.key)
  BY <1>1, LoadedFrom
<1> QED BY <1>2 DEF AsItWas

(* A call that begins finds what is loaded. *)
LEMMA BeginAsItWas ==
  ASSUME NEW k \in Keys, NEW v, NEW now, NEW then, Begin(NewCall(k, v, now, then))
  PROVE  AsItWas'
<1>1. call' = NewCall(k, v, now, then) /\ entry' = entry
  BY DEF Begin
<1>2. call'.key = k /\ call'.was = Loaded(k)
  BY <1>1 DEF NewCall
<1>3. Loaded(k)' = Loaded(k)
  BY <1>1, LoadedFrom
<1> QED BY <1>2, <1>3 DEF AsItWas

(* When a deletion changes a file, no Compose file is left: it went first. *)
LEMMA ChangesAsItWas ==
  ASSUME IInv, call # None, call.value = None => Now.content = None,
         NEW file \in File \cup {None}, Now.content = None => file = None, Changes(file)
  PROVE  AsItWas'
<1>1. TypeOK /\ Shape /\ call \in StoreCall
  BY DEF IInv, TypeOK
<1>2. call'.key = call.key /\ call'.value = call.value
  BY <1>1 DEF Changes, StoreCall
<1> SUFFICES ASSUME call.key \in ProjectKeys, call.value = None
             PROVE  Loaded(call.key)' = None
  BY <1>2 DEF AsItWas
<1> DEFINE p == call.key[2]
<1>3. file = None /\ Now.path \in Paths /\ call.key[1] = "project" /\ Yaml(p) \in Paths
  <2>1. Now.path \in Paths
    BY <1>1, CallFacts
  <2> QED BY <2>1 DEF ProjectKeys, Yaml, Paths
<1>4. entry' = [entry EXCEPT ![Now.path] = None]
  BY <1>3 DEF Changes
<1>5. Now.path = Yaml(p) \/ entry[Yaml(p)] = None
  BY <1>1 DEF Shape, To, Now
<1>6. entry'[Yaml(p)] = None
  BY <1>1, <1>3, <1>4, <1>5 DEF TypeOK
<1> QED BY <1>2, <1>3, <1>6 DEF Loaded, ProjectOf

(* A step of a call that goes on keeps its key, its value and what it      *)
(* found.                                                                  *)
LEMMA StepAsItWas ==
  ASSUME IInv, AsItWas, CreateTemp \/ Write \/ Sync \/ Rename \/ Remove \/ SyncDir
  PROVE  AsItWas'
<1>1. TypeOK /\ Shape /\ call # None /\ call \in StoreCall
  BY DEF IInv, TypeOK, CreateTemp, Write, Sync, Rename, Remove, SyncDir, InStep
<1>2. ASSUME NEW at, GoTo(at), entry' = entry PROVE AsItWas'
  <2>1. call'.key = call.key /\ call'.value = call.value /\ call'.was = call.was
    BY <1>1, <1>2 DEF GoTo, StoreCall
  <2> QED BY <1>1, <1>2, <2>1, SameAsItWas
<1>3. ASSUME StepDone, entry' = entry PROVE AsItWas'
  <2>1. call'.key = call.key /\ call'.value = call.value /\ call'.was = call.was
    BY <1>1, <1>3 DEF StepDone, StoreCall
  <2> QED BY <1>1, <1>3, <2>1, SameAsItWas
<1>4. CASE CreateTemp \/ Write \/ Sync
  BY <1>2, <1>4 DEF CreateTemp, Write, Sync
<1>5. CASE Rename
  <2>1. temp \in File /\ Now.content # None
    BY <1>5, TempFacts DEF Rename, InStep, Now
  <2>2. call.key \in ProjectKeys /\ call.value = None => Now.content = None
    BY <1>1 DEF Shape, To, Now
  <2>3. CASE call.key \in ProjectKeys
    BY <1>1, <1>5, <2>1, <2>2, <2>3, ChangesAsItWas DEF Rename
  <2>4. CASE call.key \notin ProjectKeys
    <3>1. call'.key = call.key
      BY <1>1, <1>5 DEF Rename, Changes, StoreCall
    <3> QED BY <2>4, <3>1 DEF AsItWas
  <2> QED BY <2>3, <2>4
<1>6. CASE Remove
  <2>1. CASE entry[Now.path] = None
    BY <1>3, <1>6, <2>1 DEF Remove
  <2>2. CASE entry[Now.path] # None
    BY <1>1, <1>6, <2>2, ChangesAsItWas DEF Remove
  <2> QED BY <2>1, <2>2
<1>7. CASE SyncDir
  BY <1>3, <1>7 DEF SyncDir
<1> QED BY <1>4, <1>5, <1>6, <1>7

(* Every step keeps it. *)
LEMMA NextAsItWas ==
  ASSUME IInv, AsItWas, [Next]_vars
  PROVE  AsItWas'
<1>1. CASE UNCHANGED vars
  <2>1. CASE call = None
    BY <1>1, <2>1 DEF AsItWas, vars
  <2>2. CASE call # None
    BY <1>1, <2>2, SameAsItWas DEF IInv, vars
  <2> QED BY <2>1, <2>2
<1>2. CASE \E n \in Names, v \in Records \cup {None} : BeginRecord(n, v)
  <2>1. \A n \in Names : <<"record", n>> \in Keys
    BY DEF Keys, RecordKeys
  <2> QED BY <1>2, <2>1, BeginAsItWas DEF BeginRecord, PutFile
<1>3. CASE \E b \in Boots : BeginBoot(b)
  <2>1. Boot \in Keys
    BY DEF Keys
  <2> QED BY <1>3, <2>1, BeginAsItWas DEF BeginBoot, PutFile
<1>4. CASE \E p \in Projects, v \in Project \cup {None} : BeginProject(p, v)
  <2>1. PICK p \in Projects, v \in Project \cup {None} : BeginProject(p, v)
    BY <1>4
  <2>2. <<"project", p>> \in Keys
    BY DEF Keys, ProjectKeys
  <2>3. CASE v = None
    BY <2>1, <2>2, <2>3, BeginAsItWas DEF BeginProject, DeleteProject
  <2>4. CASE v # None
    BY <2>1, <2>2, <2>4, BeginAsItWas DEF BeginProject, PutProject
  <2> QED BY <2>3, <2>4
<1>5. CASE CreateTemp \/ Write \/ Sync \/ Rename \/ Remove \/ SyncDir
  BY <1>5, StepAsItWas
<1>6. CASE Return \/ Fail \/ Crash \/ PowerFailure
  BY <1>6 DEF Return, Fail, Crash, PowerFailure, AsItWas
<1> QED BY <1>1, <1>2, <1>3, <1>4, <1>5, <1>6 DEF Next

(* A deletion that returns, fails or is cut short by a kill leaves the     *)
(* project loaded as it was, or nothing of it: DeleteProject removes the   *)
(* Compose file before the directory.                                      *)
THEOREM DeletionsWhole == Spec => DeletedWhole
<1>1. Init => AsItWas
  BY DEF Init, AsItWas
<1>2. IInv /\ AsItWas /\ [Next]_vars => AsItWas'
  BY NextAsItWas
<1>3. IInv /\ AsItWas /\ [Next]_vars =>
        [\A k \in ProjectKeys :
           Ends(k) /\ call.value = None /\ entry' = entry =>
             Loaded(k)' \in {call.was, None}]_vars
  <2> SUFFICES ASSUME IInv, AsItWas, NEW k \in ProjectKeys,
                      Ends(k), call.value = None, entry' = entry
               PROVE  Loaded(k)' \in {call.was, None}
    OBVIOUS
  <2>1. k \in Keys
    BY DEF Keys
  <2>2. Loaded(k)' = Loaded(k)
    BY <2>1, LoadedFrom
  <2> QED BY <2>2 DEF Ends, AsItWas
<1> QED BY <1>1, <1>2, <1>3, Inductive, InitIInv, PTL DEF Spec, DeletedWhole

-----------------------------------------------------------------------------

(* What a reader finds under a record's key, and what a power failure may  *)
(* leave there, are what its files say.                                    *)
View ==
  \A k \in RecordKeys :
    /\ Loaded(k) = Content(entry[k])
    /\ {Parsed(f) : f \in Survivors(k)} = {Content(f) : f \in left[k]}

(* The view holds in every reachable state. *)
LEMMA ViewOfFiles == IInv => View
<1> SUFFICES ASSUME IInv, NEW k \in RecordKeys
             PROVE  /\ Loaded(k) = Content(entry[k])
                    /\ {Parsed(f) : f \in Survivors(k)} = {Content(f) : f \in left[k]}
  BY DEF View
<1>1. k \in Paths /\ k[1] = "record" /\ entry[k] \in left[k]
  BY DEF Paths, RecordKeys, IInv, Whole
<1>2. Survivors(k) = left[k]
  BY <1>1, SurvivorsOfWhole DEF IInv
<1>3. \A f \in left[k] : Parsed(f) = Content(f)
  BY ConstantsAssumption DEF IInv, RecordFiles, Parsed
<1> QED BY <1>1, <1>2, <1>3 DEF Loaded

(* A step that leaves the records' files and the call on a record alone. *)
LEMMA RecordsStutter ==
  ASSUME View, View', CallOn(RecordKeys)' = CallOn(RecordKeys),
         \A k \in RecordKeys : entry'[k] = entry[k] /\ left'[k] = left[k]
                               /\ acked'[k] = acked[k]
  PROVE  UNCHANGED RecordsStore!vars
<1>1. \A k \in RecordKeys : Loaded(k)' = Loaded(k)
  BY DEF View, Content
<1>2. \A k \in RecordKeys : {Parsed(f) : f \in Survivors(k)}' = {Parsed(f) : f \in Survivors(k)}
  BY DEF View, Content
<1> QED BY <1>1, <1>2 DEF RecordsStore!vars

(* The call in progress, as the records see it. *)
LEMMA CallOnFacts ==
  ASSUME TypeOK
  PROVE  /\ call = None => CallOn(RecordKeys) = None
         /\ call # None /\ call.key \notin RecordKeys => CallOn(RecordKeys) = None
         /\ call # None /\ call.key \in RecordKeys =>
              /\ CallOn(RecordKeys) = [key |-> call.key, value |-> call.value]
              /\ CallOn(RecordKeys) # None
<1>1. ASSUME call # None, call.key \in RecordKeys
      PROVE  [key |-> call.key, value |-> call.value] # None
  <2>1. call.value \in Records \cup {None}
    BY <1>1 DEF TypeOK, Value, RecordKeys
  <2> QED BY <1>1, <2>1, NoneAssumption
<1> QED BY <1>1 DEF CallOn

(* A file of a call on a record is that record's, any other is no record's. *)
LEMMA RecordPath ==
  ASSUME TypeOK, Shape, call # None
  PROVE  /\ call.key \in RecordKeys => Now.path = call.key /\ Now.content = call.value
                                       /\ call.then = None
                                       /\ call.value \in Records \cup {None}
         /\ call.key \notin RecordKeys => \A k \in RecordKeys : k # Now.path
<1>1. call.key \in Keys /\ call.value \in Value(call.key) /\ Now.path \in PathsOf(call.key)
  BY CallFacts
<1>2. CASE call.key \in RecordKeys
  <2>1. call.value \in Records \cup {None}
    BY <1>1, <1>2 DEF Value, RecordKeys
  <2> QED BY <1>2, <2>1, PathFacts DEF Shape, Now, To
<1>3. CASE call.key \notin RecordKeys
  <2>1. \A k \in RecordKeys : k \in Keys /\ k \in PathsOf(k) /\ k # call.key
    BY <1>3, PathFacts DEF Keys
  <2> QED BY <1>1, <1>3, <2>1, PathFacts
<1> QED BY <1>2, <1>3

(* A file taking the place of a record's is the instant it is changed. *)
LEMMA ChangesTake ==
  ASSUME IInv, IInv', View, View', call # None, NEW file,
         Content(file) = Now.content, Changes(file)
  PROVE  [RecordsStore!Next]_RecordsStore!vars
<1>1. TypeOK /\ Shape /\ TypeOK' /\ call \in StoreCall /\ Now.path \in Paths
  BY CallFacts DEF IInv
<1>2. /\ entry' = [entry EXCEPT ![Now.path] = file]
      /\ left' = [left EXCEPT ![Now.path] = @ \cup {file}]
      /\ call' = [call EXCEPT !.at = "named", !.changed = TRUE]
  BY DEF Changes
<1>3. /\ entry'[Now.path] = file /\ left'[Now.path] = left[Now.path] \cup {file}
      /\ \A q \in Paths : q # Now.path => entry'[q] = entry[q] /\ left'[q] = left[q]
  BY <1>1, <1>2 DEF TypeOK
<1>4. call'.key = call.key /\ call'.value = call.value /\ call' # None
  <2>1. call'.key = call.key /\ call'.value = call.value
    BY <1>1, <1>2 DEF StoreCall
  <2>2. call' \in StoreCall
    BY <1>1, <1>2 DEF StoreCall, Ats
  <2> QED BY <2>1, <2>2, NoneAssumption
<1>5. CallOn(RecordKeys)' = CallOn(RecordKeys)
  BY <1>4 DEF CallOn
<1>6. \A k \in RecordKeys : k \in Paths
  BY DEF Paths
<1>7. /\ acked' = [acked EXCEPT ![call.key] = {}]
      /\ DOMAIN acked = Keys /\ RecordKeys \subseteq Keys
  BY <1>1 DEF Changes, TypeOK, Keys
<1>8. CASE call.key \in RecordKeys
  <2>1. Now.path = call.key /\ Content(file) = call.value
    BY <1>1, <1>8, RecordPath
  <2>2. CallOn(RecordKeys) # None /\ CallOn(RecordKeys).key = call.key
        /\ CallOn(RecordKeys).value = call.value
    BY <1>1, <1>8, CallOnFacts
  <2>3. [k \in RecordKeys |-> Loaded(k)]'
          = [[k \in RecordKeys |-> Loaded(k)] EXCEPT ![call.key] = call.value]
    <3>1. \A k \in RecordKeys : Loaded(k)' = IF k = call.key THEN call.value ELSE Loaded(k)
      BY <1>3, <1>6, <2>1 DEF View, Content
    <3> QED BY <3>1
  <2>4. [k \in RecordKeys |-> {Parsed(f) : f \in Survivors(k)}]'
          = [[k \in RecordKeys |-> {Parsed(f) : f \in Survivors(k)}]
               EXCEPT ![call.key] = @ \cup {call.value}]
    <3>1. ASSUME NEW k \in RecordKeys
          PROVE  {Parsed(f) : f \in Survivors(k)}'
                   = IF k = call.key THEN {Parsed(f) : f \in Survivors(k)} \cup {call.value}
                     ELSE {Parsed(f) : f \in Survivors(k)}
      <4>1. {Parsed(f) : f \in Survivors(k)}' = {Content(f) : f \in left'[k]}
        BY DEF View, Content
      <4>2. {Parsed(f) : f \in Survivors(k)} = {Content(f) : f \in left[k]}
        BY DEF View
      <4>3. CASE k = call.key
        <5>1. left'[k] = left[k] \cup {file}
          BY <1>3, <2>1, <4>3
        <5> QED BY <2>1, <4>1, <4>2, <4>3, <5>1
      <4>4. CASE k # call.key
        <5>1. left'[k] = left[k]
          BY <1>3, <1>6, <2>1, <4>4
        <5> QED BY <4>1, <4>2, <4>4, <5>1
      <4> QED BY <4>3, <4>4
    <3> QED BY <3>1
  <2>5. [k \in RecordKeys |-> acked[k]]' = [[k \in RecordKeys |-> acked[k]] EXCEPT ![call.key] = {}]
    <3>1. \A k \in RecordKeys : acked'[k] = IF k = call.key THEN {} ELSE acked[k]
      BY <1>1, <1>2, <1>7
    <3> QED BY <3>1
  <2>6. RecordsStore!Take
    BY <1>5, <2>2, <2>3, <2>4, <2>5 DEF RecordsStore!Take
  <2> QED BY <2>6 DEF RecordsStore!Next
<1>9. CASE call.key \notin RecordKeys
  <2>1. \A k \in RecordKeys : entry'[k] = entry[k] /\ left'[k] = left[k] /\ acked'[k] = acked[k]
    BY <1>1, <1>3, <1>6, <1>9, <1>7, RecordPath
  <2> QED BY <1>5, <2>1, RecordsStutter
<1> QED BY <1>8, <1>9

(* A call that goes on to another step of the same write, or of the same   *)
(* call, is still the same call for the records.                           *)
LEMMA SameCall ==
  ASSUME call # None, call' # None, call'.key = call.key, call'.value = call.value
  PROVE  CallOn(RecordKeys)' = CallOn(RecordKeys)
BY DEF CallOn

(* A call begins: one on a record begins there too. *)
LEMMA BeginRefines ==
  ASSUME IInv, View, View', NEW k \in Keys, NEW v, NEW now, NEW then,
         Begin(NewCall(k, v, now, then)), IInv', call' # None,
         k \in RecordKeys => v \in Records \cup {None}
  PROVE  [RecordsStore!Next]_RecordsStore!vars
<1>1. /\ call = None /\ call' = NewCall(k, v, now, then) /\ call'.key = k /\ call'.value = v
      /\ UNCHANGED <<entry, left, acked>>
  BY DEF Begin, NewCall
<1>2. \A j \in RecordKeys : Loaded(j)' = Loaded(j)
                            /\ {Parsed(f) : f \in Survivors(j)}' = {Parsed(f) : f \in Survivors(j)}
  BY <1>1 DEF View, Content
<1>3. CallOn(RecordKeys) = None
  BY <1>1 DEF CallOn
<1>4. CASE k \in RecordKeys
  <2>1. CallOn(RecordKeys)' = [key |-> k, value |-> v]
    BY <1>1, <1>4 DEF CallOn
  <2>2. RecordsStore!Begin(k, v)
    BY <1>1, <1>2, <1>3, <2>1 DEF RecordsStore!Begin
  <2> QED BY <1>4, <2>2 DEF RecordsStore!Next
<1>5. CASE k \notin RecordKeys
  <2>1. CallOn(RecordKeys)' = None
    BY <1>1, <1>5 DEF CallOn
  <2> QED BY <1>1, <1>3, <2>1, RecordsStutter
<1> QED BY <1>4, <1>5

(* A step of a write that no path names yet is no step of the records. *)
LEMMA WriteStepRefines ==
  ASSUME IInv, View, View', call # None, NEW at \in Ats, GoTo(at), UNCHANGED <<entry, left, acked>>
  PROVE  [RecordsStore!Next]_RecordsStore!vars
<1>1. call' # None /\ call'.key = call.key /\ call'.value = call.value
  BY GoToFacts DEF IInv
<1> QED BY <1>1, SameCall, RecordsStutter

(* A removal takes effect, or goes on. *)
LEMMA RemoveRefines ==
  ASSUME IInv, IInv', View, View', Remove
  PROVE  [RecordsStore!Next]_RecordsStore!vars
<1>1. call # None /\ Now.content = None /\ TypeOK /\ Shape
  BY DEF Remove, InStep, IInv
<1>2. CASE entry[Now.path] = None
  <2>1. StepDone /\ UNCHANGED <<entry, left, acked>>
    BY <1>2 DEF Remove
  <2>2. CallOn(RecordKeys)' = CallOn(RecordKeys)
    BY <1>1, <1>2, <2>1, StepDoneFacts, SameCall DEF Content
  <2> QED BY <2>1, <2>2, RecordsStutter
<1>3. CASE entry[Now.path] # None
  <2>1. Changes(None)
    BY <1>3 DEF Remove
  <2> QED BY <1>1, <2>1, ChangesTake DEF Content
<1> QED BY <1>2, <1>3

(* A sync of the directory of the records settles them all. *)
LEMMA SyncDirRefines ==
  ASSUME IInv, IInv', View, View', SyncDir
  PROVE  [RecordsStore!Next]_RecordsStore!vars
<1>1. /\ call # None /\ TypeOK /\ Shape /\ StepDone /\ UNCHANGED <<entry, acked>>
      /\ Content(entry[Now.path]) = Now.content
      /\ left' = [q \in Paths |-> IF SameDir(q, Now.path) THEN {entry[q]} ELSE left[q]]
  BY DEF SyncDir, InStep, IInv, Done, Now
<1>2. CallOn(RecordKeys)' = CallOn(RecordKeys)
  BY <1>1, StepDoneFacts, SameCall
<1>3. \A k \in RecordKeys : k \in Paths /\ k[1] = "record"
  BY DEF Paths, RecordKeys
<1>4. CASE Now.path[1] \in {"yaml", "dir"}
  <2>1. \A k \in RecordKeys : entry'[k] = entry[k] /\ left'[k] = left[k] /\ acked'[k] = acked[k]
    BY <1>1, <1>3, <1>4 DEF SameDir
  <2> QED BY <1>2, <2>1, RecordsStutter
<1>5. CASE Now.path[1] \notin {"yaml", "dir"}
  <2>1. \A k \in RecordKeys : left'[k] = {entry[k]}
    BY <1>1, <1>3, <1>5 DEF SameDir
  <2>2. \A k \in RecordKeys : Loaded(k)' = Loaded(k)
    BY <1>1 DEF View, Content
  <2>3. ASSUME NEW k \in RecordKeys
        PROVE  {Parsed(f) : f \in Survivors(k)}' = {Loaded(k)}
    <3>1. {Parsed(f) : f \in Survivors(k)}' = {Content(f) : f \in left'[k]}
      BY DEF View, Content
    <3>2. left'[k] = {entry[k]} /\ Loaded(k) = Content(entry[k])
      BY <2>1 DEF View
    <3> QED BY <3>1, <3>2
  <2>4. [k \in RecordKeys |-> {Parsed(f) : f \in Survivors(k)}]'
          = [k \in RecordKeys |-> {Loaded(k)}]
    BY <2>3
  <2>5. [k \in RecordKeys |-> Loaded(k)]' = [k \in RecordKeys |-> Loaded(k)]
    BY <2>2
  <2>6. [k \in RecordKeys |-> acked[k]]' = [k \in RecordKeys |-> acked[k]]
    BY <1>1
  <2>7. RecordsStore!Settle(RecordKeys)
    BY <1>2, <2>4, <2>5, <2>6 DEF RecordsStore!Settle
  <2>8. RecordKeys \in SUBSET RecordKeys
    OBVIOUS
  <2> QED BY <2>7, <2>8 DEF RecordsStore!Next
<1> QED BY <1>4, <1>5

(* A call that ends without success, or with nothing done.                 *)
LEMMA AbandonRefines ==
  ASSUME IInv, IInv', View, View', call' = None, UNCHANGED <<entry, left, acked>>
  PROVE  [RecordsStore!Next]_RecordsStore!vars
<1>1. \A j \in RecordKeys : Loaded(j)' = Loaded(j)
                            /\ {Parsed(f) : f \in Survivors(j)}' = {Parsed(f) : f \in Survivors(j)}
  BY DEF View, Content
<1>2. CallOn(RecordKeys)' = None
  BY DEF CallOn
<1>3. CASE CallOn(RecordKeys) = None
  BY <1>2, <1>3, RecordsStutter
<1>4. CASE CallOn(RecordKeys) # None
  <2>1. RecordsStore!Abandon
    BY <1>1, <1>2, <1>4 DEF RecordsStore!Abandon
  <2> QED BY <2>1 DEF RecordsStore!Next
<1> QED BY <1>3, <1>4

(* A call on a record that returns nil is acknowledged. *)
LEMMA ReturnRefines ==
  ASSUME IInv, IInv', View, View', Return
  PROVE  [RecordsStore!Next]_RecordsStore!vars
<1>1. /\ call # None /\ call.at = "over" /\ TypeOK /\ Shape /\ Done
      /\ call' = None /\ UNCHANGED <<entry, left>>
      /\ acked' = IF call.changed THEN [acked EXCEPT ![call.key] = {call.value}] ELSE acked
  BY DEF Return, InStep, IInv
<1>2. DOMAIN acked = Keys /\ RecordKeys \subseteq Keys /\ call.key \in Keys
  BY <1>1, CallFacts DEF TypeOK, Keys
<1>3. CASE ~ call.changed
  BY <1>1, <1>3, AbandonRefines
<1>4. CASE call.changed /\ call.key \notin RecordKeys
  <2>1. CallOn(RecordKeys) = None /\ CallOn(RecordKeys)' = None
    BY <1>1, <1>4 DEF CallOn
  <2>2. \A k \in RecordKeys : acked'[k] = acked[k]
    BY <1>1, <1>2, <1>4
  <2> QED BY <1>1, <2>1, <2>2, RecordsStutter
<1>5. CASE call.changed /\ call.key \in RecordKeys
  <2>1. /\ CallOn(RecordKeys)' = None /\ CallOn(RecordKeys) # None
        /\ CallOn(RecordKeys).key = call.key /\ CallOn(RecordKeys).value = call.value
    BY <1>1, <1>5, CallOnFacts DEF CallOn
  <2>2. Content(entry[call.key]) = call.value
    BY <1>1, <1>5, RecordPath DEF Done, Now
  <2>3. left[call.key] = {entry[call.key]}
    <3>1. call.key \in PathsOf(call.key)
      BY <1>2, <1>5, PathFacts
    <3> QED BY <1>1, <1>5, <3>1 DEF Done, Settled
  <2>4. \A j \in RecordKeys : Loaded(j)' = Loaded(j)
                            /\ {Parsed(f) : f \in Survivors(j)}' = {Parsed(f) : f \in Survivors(j)}
    BY <1>1 DEF View, Content
  <2>5. Loaded(call.key) = call.value /\ {Parsed(f) : f \in Survivors(call.key)} = {call.value}
    BY <1>5, <2>2, <2>3 DEF View
  <2>6. [k \in RecordKeys |-> acked[k]]'
          = [[k \in RecordKeys |-> acked[k]] EXCEPT ![call.key] = {call.value}]
    <3>1. \A k \in RecordKeys : acked'[k] = IF k = call.key THEN {call.value} ELSE acked[k]
      BY <1>1, <1>2, <1>5
    <3> QED BY <3>1
  <2>7. RecordsStore!Acknowledge
    BY <1>5, <2>1, <2>4, <2>5, <2>6 DEF RecordsStore!Acknowledge
  <2> QED BY <2>7 DEF RecordsStore!Next
<1> QED BY <1>3, <1>4, <1>5

(* A power failure leaves one of the values that could be left. *)
LEMMA PowerFailureRefines ==
  ASSUME IInv, IInv', View, View', PowerFailure
  PROVE  [RecordsStore!Next]_RecordsStore!vars
<1>1. TypeOK /\ Whole /\ TypeOK' /\ call' = None /\ acked' = acked
      /\ left' = [q \in Paths |-> {entry'[q]}]
  BY DEF IInv, PowerFailure
<1>2. CallOn(RecordKeys)' = None
  BY <1>1 DEF CallOn
<1>3. \A k \in RecordKeys : k \in Paths /\ entry'[k] \in left[k]
  <2>1. PICK back \in [Unsettled -> UNION {Survivors(q) : q \in Unsettled}] :
           /\ \A q \in Unsettled : back[q] \in Survivors(q)
           /\ entry' = [q \in Paths |-> IF q \in Unsettled THEN back[q] ELSE entry[q]]
    BY DEF PowerFailure
  <2>2. \A q \in Paths : entry'[q] \in left[q]
    BY <1>1, <2>1, SurvivorsOfWhole DEF Whole
  <2> QED BY <2>2 DEF Paths
<1>4. ASSUME NEW k \in RecordKeys
      PROVE  /\ Loaded(k)' = Content(entry'[k])
             /\ Loaded(k)' \in {Parsed(f) : f \in Survivors(k)}
             /\ {Parsed(f) : f \in Survivors(k)}' = {Loaded(k)'}
             /\ Loaded(k)' \in Records \cup {None}
  <2>1. Loaded(k)' = Content(entry'[k])
    BY DEF View, Content
  <2>2. {Parsed(f) : f \in Survivors(k)} = {Content(f) : f \in left[k]}
    BY DEF View
  <2>3. {Parsed(f) : f \in Survivors(k)}' = {Content(f) : f \in left'[k]}
    BY DEF View, Content
  <2>4. left'[k] = {entry'[k]}
    BY <1>1, <1>3
  <2>5. Content(entry'[k]) \in Records \cup {None}
    BY <1>3 DEF IInv, RecordFiles
  <2> QED BY <1>3, <2>1, <2>2, <2>3, <2>4, <2>5
<1>5. [k \in RecordKeys |-> Loaded(k)]' \in [RecordKeys -> Records \cup {None}]
  BY <1>4
<1>6. \A k \in RecordKeys : [j \in RecordKeys |-> Loaded(j)]'[k]
                              \in [j \in RecordKeys |-> {Parsed(f) : f \in Survivors(j)}][k]
  BY <1>4
<1>7. [k \in RecordKeys |-> {Parsed(f) : f \in Survivors(k)}]'
        = [k \in RecordKeys |-> {[j \in RecordKeys |-> Loaded(j)]'[k]}]
  BY <1>4
<1>8. RecordsStore!PowerFailure
  BY <1>1, <1>2, <1>5, <1>6, <1>7 DEF RecordsStore!PowerFailure
<1> QED BY <1>8 DEF RecordsStore!Next

(* The store is empty at first. *)
LEMMA InitRefines == Init => RecordsStore!Init
<1> SUFFICES ASSUME Init PROVE RecordsStore!Init
  OBVIOUS
<1>1. \A k \in RecordKeys : k \in Paths /\ k \in Keys /\ k[1] = "record"
  BY DEF Paths, Keys, RecordKeys
<1>2. \A k \in RecordKeys : Loaded(k) = None
  BY <1>1 DEF Init, Loaded, Parsed, Content
<1>3. \A k \in RecordKeys : {Parsed(f) : f \in Survivors(k)} = {None}
  <2>1. \A k \in RecordKeys : Survivors(k) = {None}
    BY <1>1 DEF Init, Survivors
  <2>2. Parsed(None) = None
    BY DEF Parsed, Content
  <2> QED BY <2>1, <2>2
<1>4. CallOn(RecordKeys) = None
  BY DEF Init, CallOn
<1>5. \A k \in RecordKeys : acked[k] = {}
  BY <1>1 DEF Init
<1> QED BY <1>2, <1>3, <1>4, <1>5 DEF RecordsStore!Init

(* Every step is a step of the atomic store, or none of it. *)
LEMMA NextRefines ==
  IInv /\ IInv' /\ View /\ View' /\ [Next]_vars => [RecordsStore!Next]_RecordsStore!vars
<1> SUFFICES ASSUME IInv, IInv', View, View', [Next]_vars
             PROVE  [RecordsStore!Next]_RecordsStore!vars
  OBVIOUS
<1>1. CASE UNCHANGED vars
  <2>1. CallOn(RecordKeys)' = CallOn(RecordKeys)
    BY <1>1 DEF vars, CallOn
  <2> QED BY <1>1, <2>1, RecordsStutter DEF vars
<1>2. ASSUME NEW n \in Names, NEW v \in Records \cup {None}, BeginRecord(n, v)
      PROVE  [RecordsStore!Next]_RecordsStore!vars
  <2>1. <<"record", n>> \in RecordKeys /\ <<"record", n>> \in Keys
    BY DEF RecordKeys, Keys
  <2>2. Begin(NewCall(<<"record", n>>, v, To(<<"record", n>>, v), None))
    BY <1>2 DEF BeginRecord, PutFile
  <2>3. call' # None
    BY <1>2, BeginRecordIInv
  <2> QED BY <2>1, <2>2, <2>3, BeginRefines
<1>3. ASSUME NEW b \in Boots, BeginBoot(b)
      PROVE  [RecordsStore!Next]_RecordsStore!vars
  <2>1. Boot \in Keys /\ Boot \notin RecordKeys
    BY PathFacts DEF Keys
  <2>2. Begin(NewCall(Boot, b, To(Boot, b), None))
    BY <1>3 DEF BeginBoot, PutFile
  <2>3. call' # None
    BY <1>3, BeginBootIInv
  <2> QED BY <2>1, <2>2, <2>3, BeginRefines
<1>4. ASSUME NEW p \in Projects, NEW v \in Project \cup {None}, BeginProject(p, v)
      PROVE  [RecordsStore!Next]_RecordsStore!vars
  <2>1. <<"project", p>> \in Keys /\ <<"project", p>> \notin RecordKeys
    BY PathFacts DEF Keys
  <2>2. PICK now, then : Begin(NewCall(<<"project", p>>, v, now, then))
    BY <1>4 DEF BeginProject, DeleteProject, PutProject
  <2>3. call' # None
    BY <1>4, BeginProjectIInv
  <2> QED BY <2>1, <2>2, <2>3, BeginRefines
<1>5. CASE CreateTemp
  BY <1>5, WriteStepRefines DEF CreateTemp, InStep, Ats
<1>6. CASE Write
  BY <1>6, WriteStepRefines DEF Write, InStep, Ats
<1>7. CASE Sync
  BY <1>7, WriteStepRefines DEF Sync, InStep, Ats
<1>8. CASE Rename
  <2>1. call # None /\ call.at = "synced" /\ Changes(temp)
    BY <1>8 DEF Rename, InStep
  <2>2. Content(temp) = Now.content
    BY <2>1, TempFacts, ContentFacts DEF Now
  <2> QED BY <2>1, <2>2, ChangesTake
<1>9. CASE Remove
  BY <1>9, RemoveRefines
<1>10. CASE SyncDir
  BY <1>10, SyncDirRefines
<1>11. CASE Return
  BY <1>11, ReturnRefines
<1>12. CASE Fail
  BY <1>12, AbandonRefines DEF Fail
<1>13. CASE Crash
  BY <1>13, AbandonRefines DEF Crash
<1>14. CASE PowerFailure
  BY <1>14, PowerFailureRefines
<1> QED BY <1>1, <1>2, <1>3, <1>4, <1>5, <1>6, <1>7, <1>8, <1>9, <1>10, <1>11, <1>12,
           <1>13, <1>14 DEF Next

(* The record of a container is kept atomically: whatever step of a call   *)
(* fails, whenever the daemon dies and whatever the power leaves on the    *)
(* disk, a record is the old one or the new one, and the new one once the  *)
(* call returned nil ("a crash leaves the old file or the new one").       *)
THEOREM RecordsKeptAtomically == Spec => RecordsAtomic
<1>1. Spec => RecordsStore!Init /\ [][RecordsStore!Next]_RecordsStore!vars
  BY InitRefines, NextRefines, Inductive, ViewOfFiles, PTL DEF Spec
<1> QED BY <1>1 DEF RecordsAtomic, RecordsStore!Spec
=============================================================================
