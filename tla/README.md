# Verification of mica-containerd

TLA+ models of `mica-containerd`, the daemon of this repository that keeps the
containers of Compose projects running through podman. The program is the Go
code under `src/mica-containerd/`; paths and line numbers below are of that
tree. The models are checked with TLC on small instances, and the properties
named under "Proofs" are proved with TLAPS for every value of the constants.

Every definition that stands for code is listed with its lines in
`PROJECT.json` under `map`; `hazards` lists what can go wrong in this code and
which property looks at it.

## The system

| part | code | state | operations |
|---|---|---|---|
| supervisor: passes | `internal/supervisor/supervisor.go` `Pass`, `reconcile`, `start`, `unready`, `health`, `removeNetworks`, `unlocked` | tracking of each container (phase, tallies, the exit decided on, health), the last listing | one pass: list the engine, remove what nothing declares, reconcile each declared container by name, remove unused networks |
| supervisor: declarations | the same file, `PutProject(s)`, `DeleteProject`, `Start`, `Stop`, `Restart`, `declare`, `put`, `delete` | records and projects, in memory and in the store | called by the API while a pass runs |
| supervisor: start | `New`, and `cmd/mica-containerd/main.go`, `deb/mica-containerd.service` | whether this boot has been recorded | load the store; once in a boot, make every container desired running |
| supervisor: run loop | `Run`, `restartEvents`, `poke` | timer, wake channel, event channels | begins a pass on a token, an event, a deadline, or after a minute |
| supervisor: phase feed | `publish`, `Subscribe`, `api.go` `events` | what was published last, a channel of 64 changes per subscriber | tells subscribers of phase changes after each pass |
| store | `internal/store/store.go` | a file per record, two per project, the boot id | `Put`, `Delete`, `PutProject`, `DeleteProject`, `SetBootID`, `Load`, `Projects`, `BootID` |
| engine | `internal/engine/podman.go`, `engine.go` | none of its own: podman has the containers | `List`, `Run`, `Start`, `Stop`, `Remove`, `RemoveNetwork`, `HealthCheck`, `Events`, `Logs` |
| spec | `internal/spec/spec.go` | none | defaults, validation, the hash a container is labelled with, restart timings |
| Compose loader | `internal/compose/compose.go` | none | a Compose file to specs, or a refusal |
| HTTP API, ctl, check | `internal/api/api.go`, `cmd/mica-containerd/` | none | routes to supervisor calls; clients that find a project and declare or check its file |
| packaging, pins, release, tests | `deb/`, `locks/`, `tools/`, `tests/` | none at run time | |

How they interact: `Run` calls `Pass`; a pass holds `Supervisor.mu` except
around its engine calls (`unlocked`), which is when API calls come in. An API
call writes the store first, then memory, then marks the container as changed
and puts a token in the wake channel. Podman is asked by name through a new
process for each call. Events come from one long-lived podman process.
Containers, and a podman process at work, outlive the daemon.

What is hard here: the listing of a pass is older than everything decided from
it; results of engine calls come back into a state that has changed; engine
and store calls fail half done; the daemon is killed between any two store
calls, and a podman process it started goes on; containers exit at any time;
people use podman by hand on the same names; phases and tallies are memory
while declarations are on disk; dependencies are judged from memory that
belongs to the previous pass for names that come later; instants are known to
the second, and the clock they come from can be set; a subscriber may not read;
a Compose file is loaded on a host whose directories change.

What makes each part correct: passes get every container to its declaration and
leave alone what they should (`Converges`, `NoNeedlessStop`, `HolderUntouched`),
give up when they should and only then (`TriesBounded`, `FatalStays`,
`FatalDeserved`), wait out gaps (`Paced`) and dependencies
(`DependenciesInOrder`), follow the policy (`PolicyKept`), and do to a container
only what its declaration orders (`ActsInCustody`); what was asked is kept
(`DesiredAsAsked`, `InFlightCurrent`, `ServicesMatchFile`); the store loads what
it promised (`AckedKept`, `RecordsAtomic`, `DeletedWhole`); the run loop
misses nothing (`NoLostWake`, `NoLostEvent`, `EverythingSeen`); subscribers are
told what GET says (`NothingMissed`, `CaughtUp`, `ReadersLearn`,
`EverythingPublished`); a file is run as written or refused (`RunAsWritten`,
`LoadsAsAssumed`, `BindsLead`), and the check says which beforehand
(`CheckForetells`).

## Modules

| module | models | state and actions |
|---|---|---|
| `Declarations` | spec, records, Compose files as what they load to | constants and operators: `Service` (the fields the supervisor decides from), `Record`, `Hash` (everything but policy, retries' bound and dependencies), `RestartWanted` |
| `Podman` | one container as podman has it, and what each engine call does to it | operators: `Container` (managed, hash, running, run, exit code, age class, boot), and the outcomes of `Run`, `Start`, `Stop`, `Remove`, the partial failures included |
| `Supervisor` | the supervisor over podman and the store | see below |
| `Custody` | what the supervisor promises of the containers in its keeping | `made` (what the engine has of each name), `declared`, `asks` (restarts asked for), `doomed` (undeclared containers whose removal was ordered), `order` (what the engine was told and has not done yet) |
| `SupervisorClaims` | claims of comments and of the README the code does not keep | three properties |
| `MCSupervisor` | instances for TLC | the Compose files of each run |
| `SupervisorProofs` | theorems about `Supervisor`: four as it is, one without failing store calls and crashes, and one without crashes and hand-made changes | |
| `UndisturbedProofs` | three more without them, of containers left alone, of dependencies and, without long runs besides, of attempts that are bounded | |
| `CustodyProofs` | that `Supervisor` implements `Custody` | |
| `StoreFiles` | the store on the file system | `entry` (the file a path names, for a process), `left` (what a power failure may leave it naming), the temporary file, the call in progress and how far it has come |
| `AtomicStore` | what a file of the store promises | `value`, `left`, `call`, `acked`: a call takes effect at one instant, and holds once acknowledged |
| `StoreFilesProofs` | theorems about `StoreFiles`, its refinement of `AtomicStore` among them | |
| `RunLoop` | `Run` and `Podman.Events` | where `Run` is, the wake token, the timer, the stream and its backlog, changes not seen yet |
| `RunLoopProofs` | theorems about `RunLoop` | |
| `RestartClock` | the restarts of one container in time: `reconcile` and `start` with the stamps of `podman ps`, `readBootTime`, `gap` | a monotonic clock and the wall clock, the container with its true times and its stamps, the tracking, the start in flight |
| `RestartClockProofs` | theorems about `RestartClock` | |
| `PhaseFeed` | `publish`, `Subscribe`, the `events` handler, `List`, and clients of both | phases, what was published last, a queue and a view per client |
| `PhaseFeedProofs` | theorems about `PhaseFeed` | |
| `HostPaths` | the host's directories: links, what `resolve` and `creatable` find, what `MkdirAll` leaves | operators on a host, a function from paths to what is there |
| `Compose` | package `compose`, `Normalized` and `Validate` | operators: `Load` of a file is its specs or a refusal |
| `Declare` | a person who edits a Compose file on a host that changes, and asks; `ctl up`, `compose check` and a `PUT` with no directory | the file, the host, the answer to a request; operators for the clients |
| `MCDeclare` | what is written and what a host has, for TLC | |
| `DeclareProofs` | theorems about `Declare`, `Compose` and `HostPaths` | |

### Supervisor

A stretch of code that holds `mu` is one action. `List` is the listing (no
`mu`); `BeginPass` takes `mu`; `Sweep` issues the removal of a container
nothing declares; `Reconcile(n)` is one of the ways through `reconcile` for the
next name, each an action named for what it does (`Recreate`,
`ReconcileStopped`, `ReconcileRestart`, `ReconcileRunning`,
`ReconcileFreshStart`, `ReconcileDecided`, `ReconcileExit`), with what the code
does before and after in the same stretch (`ObservedRunning`, `Judged`,
`StartStep`). An engine call is three steps: it is issued with `mu` released
(`call`), podman carries it out (`EngineDo`, with each outcome the code can
meet), and it returns under `mu` (`Return...`). When the call's name was
touched meanwhile, `unlocked` returns false and `ReturnStale` drops the result.
API calls happen when `mu` is free (`MuFree`). `Restart`, `PutProject` and
`PutProjects` have two critical sections: the request is in `pending` between
them. `PutProject` and the others write the store one call after the other;
`Prefixes` are the calls that can have been made when one fails
(`Faults`) or the daemon is killed (`CrashWhileDeclaring`). A store call fails
with or without effect: its directory sync can fail once the rename is done.
So `Commit` is what memory gets (the calls that succeeded), `StoreSteps` what
the store gets (`CutShort`: one more, maybe), and `SetDesiredFails` is a start
or stop that reports an error though the store has it.

`Crash` kills the daemon; an engine call in flight becomes `orphan`, a podman
process that still carries out its work (`KillMode=process` in the unit).
`Reboot` ends every run. `StartDaemon` is `New`, `BootInterrupted` is `New`
killed in the loop that brings records to this boot.

Times are abstracted. An instant podman reports is the number of a run
(`run`), 0 for none; a run's age is a class (`short`, `ok`, `long` against the
confirmation of 1 s and the 60 s that reset the tallies); deadlines are bits
that the environment sets (`RunConfirmed`, `GapEnds`, `CheckComesDue`). Eight
run numbers are enough: seven at most are in use by a container, the listing
and the tracking, which `FreshRunType` proves.

Six variables are history, read by no action of the code: `asked` (what may be
asked of each name: the last answered call, and those that failed since; none,
when that was a deletion), `unsure` (the keys of the store whose last call
failed after it took effect), `tried` (starts since running), `gaveUp` (fatal and not
started again), `wanted` (explicit starts not carried out), `left` (names whose
engine call in this pass failed or was overtaken, so that their tracking is an
earlier pass's). `budget` holds the
bounds; it guards only what the environment does.

### Custody

`Supervisor` decides from a listing that is older than the container it acts
on, about a declaration that may change while the engine is at work. `Custody`
has neither the listing nor the pass: an order (`Clear`, `Replace`, `Stop`,
`Start`) follows from what is declared and from how the container *is* when the
order is given, and `Obey` carries out that order, whole, in part or not at all,
whatever is declared by then. A restart that was asked for is forgotten only when
nothing runs (`Forget`, `Start`), when what runs is no longer what is declared
(`Declare`), or when a start is asked for after it (`Say`).
Under the mapping of `Supervisor` (`Keeper`) `made` is the containers, by their
hash and whether they run, `declared` the records in memory, `asks` the
`restart` bits, and `order` the call in flight until the engine has done it
(`OrderOf`; a health check is no order). A daemon that acts on a stale view
would give an order no step of `Custody` gives.

One case is an exception, and `doomed` is there for it: a container nothing
declares whose removal fails, and whose name is declared again before the pass
comes to that name, is taken for removed, and `podman run --replace` replaces
it, as it may run by then (`Overlooked`).

### StoreFiles

`write` is `CreateTemp`, `Write`, `Sync`, `Rename`, `SyncDir`; `remove` is
`Remove` (which goes on when there is nothing) and `SyncDir`. `PutProject` and
`DeleteProject` are two of these in order. `Fail` ends a call with an error at
any step; `Crash` kills the daemon; `PowerFailure` lets each name become any of
the files in `left`, torn when it was not synced. `acked[k]` is what the last
call that returned nil promised for key `k`, empty once a later call changed a
file of `k`. A delete that finds nothing returns nil without a sync of the
directory, so that it promises only what stood before: after a delete whose
sync failed, a retry returns nil, and a power failure can bring the record
back.

### RunLoop

A pass is the two moments at which it looks: `List` at the engine,
`ReadDeclarations` when it has `mu`. `unread` and `unlisted` say what changed
since. An event is told only of containers with the label and only while
podman events is connected; `Stream` goes from `starting` through `up`,
`ended`, `broken` (error in `errs`, both channels closed) to `nil` (Run has
dropped `events`).

### RestartClock

`Supervisor` has classes of a run's age; here are instants. `now` counts ticks
of a fraction of a second (`Second` ticks each) and is what Go compares
deadlines by; the wall clock is `skew` ahead of it. A stamp is the wall clock
in whole seconds (`Stamp`), the boot time is recomputed from the wall clock as
it is set when the daemon starts (`BootStamp`), as btime of `/proc/stat` is.
Each way through `reconcile` of a container that is to run and depends on
nothing is an action: `ReconcileRunning`, `ReconcileNothing`,
`ReconcileFresh`, `ReconcileDue`, `ExitStays`, `ExitNeverRan`, `ExitOfRun`; a
start is issued, carried out or refused by podman, and returns. `tally` is
history: when the last start was issued, the gap owed, how many attempts
were truly short, and how many restarts were decided on after runs that were
not (`again`). `stepped` says that the clock was set, after which the code
promises nothing (see below).

### PhaseFeed

A phase is `stopped`, `deleted`, or `running` for every other one: publish
compares phases for being the same and no more. `Reconcile`, `Retracked` (a
start, which leaves an empty tracking) and `Delete` move it; `Publish`, at the
end of a pass, sends every change to every channel that has room. A client
opens the stream (`Events`), lists once it has the head of the answer, and
takes changes one by one (`Deliver`). The changes of one pass come in the order
of their names (`Changes`). `view` is what it holds of each name; `told`, `before`, `missed` and `glimpsed`
are history.

### HostPaths, Compose, Declare

The loader is a function of the project, the file, its directory and the host,
and is modelled as one: `Load` is the conjunction of the checks in their four
stages (`Raw` on what is written, `Parsed` by compose-go, `Named`, and
`ServiceAccepted` with `Valid` for each service), and `ToSpec` is what a
service becomes. A service has at most one value of each key (three ports at
most); strings are names of cases. Numbers are numbers, in units small enough
for every bound and rounding: memory in bytes, cpus in ten thousandths,
durations in half seconds. In `Declare` a person writes one key after the other
and the host's directories change under the file, and at any time runs a client
(`Ask`, with `-f`, `-p`, `--project-dir`): `answered` holds what `compose check`,
`ctl up` and a `PUT` without a directory come to. `Asked` is what the table of
`src/README.md` says a service becomes, read off the file without the loader,
and `Becomes` reads the same off the spec.

How a path is followed is the kernel's: `Walk` takes it name by name, `Step`
being one name or one link further. A walk is over after as many steps as the
path and the links it may still follow have names, of which a link has at most
`Parts`; `EvalSymlinks` is where it is then.

## Runs

Each run is a `.cfg` of the same name. A property holds within the bounds
given: `Names`, API calls (A), exits (E), failing calls (F), crashes and
reboots (C), hand-made changes (H).

| run | instance | what it shows |
|---|---|---|
| `services` | 1 name, three declarations of it (another policy, another image) and one by a second project, A2 E1 H2, long runs | `TypeOK`; `InFlightCurrent`: no result of an engine call overwrites a change that came during it; `NoNeedlessStop`: a container that runs as declared is not stopped, a policy change in particular recreates nothing; `HolderUntouched`: a listed container without the label is not touched; `ServicesMatchFile`: the containers declared for a project are its file's |
| `dependencies` | 2 names, the second waits for the first to be healthy, both declared again with another image, 1 retry, A1 E1 F2 | `DependenciesInOrder`; `TriesBounded` and `FatalStays` of each of the two; `ActsInCustody` (refinement of `Custody`): every engine call follows from what is declared and how the container is, and no restart is forgotten |
| `converges` | a container that moves from one project to another, A1 E1 F1 C2, with fairness | `DesiredAsAsked`: what was asked, a store call that fails after it took effect included, is on disk; `Converges`: everything gets to what is declared and stays there |
| `store_files` | 2 records, 1 project, boot id; 3 calls, 1 failing step, 2 kills or power failures | `TypeOK`, `AckedKept`, `RecordsAtomic` (refinement of `AtomicStore`), `DeletedWhole` |
| `run_loop` | 2 changes of each kind, 1 failing listing, 2 ends of the stream, with fairness | `TypeOK`, `NoLostWake`, `NoLostEvent`, `EverythingSeen` |
| `restart_clock` | ticks of half a second, 6 s, 1 retry, on-failure:1, confirmation 1 s, cap 2 s, 2 disturbances | `Paced`: starts are the gap apart; `FatalDeserved`: given up only after more short runs and refusals than the retries, by true time; `ResetEarned`: tallies are reset only by a run that truly was that long; `PolicyKept`: what is started again is a container whose policy calls for it after the code of that very exit, retries of refused starts included, and not more often than its restarts allow, through restarts of the daemon |
| `phase_feed` | 2 names, a reader and a client that may stall, room for 2 changes, 2 moves, 1 call, 2 streams, 1 restart, with fairness | `TypeOK`; `NothingMissed`: changes add up to what publish said, unless one was dropped; `CaughtUp`: a client that has read what it was sent of a container holds what publish said last of it; `ReadersLearn`: such a reader comes to hold what GET says; `EverythingPublished`: a client that stalls holds nobody up |
| `declare` | 1 or 2 services, every pair of edits out of 104 values of 20 keys and 14 changes of the host, then one of 7 requests | `RunAsWritten`: a file that is accepted becomes what it says; `LoadsAsAssumed`: what the supervisor takes for granted of specs; `BindsLead`: a bind names the directory its path leads to; `CheckForetells`: `compose check` says what the daemon answers |
| `lost_start` | violation of `StartIsKept` | a start that was answered and not carried out is given up when the next pass judges the container's old exit |
| `policy_change` | violation of `PolicyDecides` | a container that policy `no` left exited stays so after it is declared again with `always` |
| `torn_project` | violation of `ProjectsAtomic` | a kill between a project's two files leaves parts of two declarations |
| `stop_holds` | violation of `StopHolds`, 1 name, A3 F1 C1 | a stop that is answered after a start that failed in the sync of its directory is not on disk, and the next start of the daemon runs the container |

Why the bounds are enough. Two API calls are what an interleaving with one
engine call needs: one to begin it and one to come during it. Two failures
with one retry reach fatal and go past it. In `dependencies` an exit lets
the dependency run, end and run again between the two passes that matter, and
each failure may be a run that ends at once. Two crashes let the second hit the recovery of the first,
and the podman process the first left. In `store_files` three calls and two
power failures let a call be made, torn, and made again on another key, in the
same directory and in the other. In `run_loop` the counters at two let a change
come while the token of another is still in the channel. In `restart_clock`
half seconds tell apart what whole-second stamps do not, and six seconds hold
a confirmation, both gaps, a run longer than the cap, and what follows; two
disturbances let a refused start meet a restart of the daemon. In `phase_feed`
room for two changes is a full channel after two, as 64 is after 64, and holds
the two changes of one pass or two of one name; two names changing in two
passes overflow it; two streams let a client come back, or two be open. In
`declare` the values of each key include every case the loader tells apart and
the numbers on both sides of each bound it compares with; its refusals look at
one key or relate two, be they of one service, of two, or of a service and the
host, which every pair of edits covers.

`ActsInCustody` was checked too with 1 name, two or three calls of the API and
one or two failures, among them a container that moves from one project to
another, where the exception of `doomed` comes up: it takes a deletion, a
removal that fails and a declaration, more calls than `dependencies` has. Its
theorem holds for every bound. It is stated without crashes and hand-made
changes: a `podman` process that outlives the daemon carries out an order of the
last one beside those of the next, and a person gives orders of their own.

`DependenciesInOrder` speaks of dependencies reconciled earlier in the pass;
for the later ones, and for one whose own engine call failed or was overtaken
by the API (`left`), the code does otherwise (see Known divergences). Its run
has one call of the API; with two or three and fewer failures it was checked
too, and its theorem holds for every bound. It is stated without crashes and
hand-made changes: a removal by hand during the engine call of a start leaves
the phase of an absent container at running until the next pass.
`TriesBounded` counts anew when a person changes the container. `FatalStays` is
checked without crashes: the phase is memory, and a restarted daemon starts a
fatal container again. `ServicesMatchFile` is checked without failing store
calls and crashes: a declaration is several store calls. A listing that fails
is a pass that does nothing, and is not an action of `Supervisor` (it is one of
`RunLoop`).

`ReadersLearn` exempts a name a client listed while its phase was between two
changes (`glimpsed`): that the client then holds on to the wrong phase is
recorded below. `RunAsWritten` exempts what the loader lets through
(`LetThrough`), each case of which is recorded below and needed.

`CHECK_DEADLOCK FALSE` stands in the runs of `StoreFiles`, `RestartClock` and
`Declare`: when every bound is used up there may be nothing more to do.

### Fairness

`FairSpec` (runs `converges` and `policy_change`): the daemon is started again
(`Restart=on-failure` in the unit), passes go on (`Run` passes at least every
Resync, engine calls end), the podman process of an earlier daemon ends, a run
gets to its confirmation and a gap of backoff ends (time passes). The second
critical section of a request is strongly fair, as `sync.Mutex` hands the lock
to a waiter it has kept waiting. Nothing is assumed of exits, API calls or
failures. `RunLoop`: `Run` goes on, Go's `select` leaves no case out for ever
that is ready again and again, the goroutine of `Events` runs. `PhaseFeed`: passes
begin and end, as `Run` makes them; the clients in `Readers` list and go on
reading, and the handler writes what is in their channel. The other clients owe
nothing, and no call, stream or crash is assumed to come or to end.

## Proofs

Checked by TLAPS, from the named assumptions of the modules (the bounds are
natural numbers, `None` and `Torn` are no values, installed files do not claim
each other's names, what is written of a key is of its kind, what is at a path
is a node whose link has at most `Parts` names, the working directory is not
the root). A theorem that needs some bound to be zero says so.

| theorem | module | says | argument |
|---|---|---|---|
| `TypeCorrect` | `SupervisorProofs` | `Spec => []TypeOK` | `Inv == TypeOK /\ Flight` is inductive: what comes back from an engine call is stored, so its type rests on that of the call, and a removal by `Sweep` must not find a record |
| `UnlockedProtocol` | `SupervisorProofs` | `Spec => []InFlightCurrent` | the same `Inv`; `Flight` says which records a call in flight can have been decided from |
| `DesiredKept` | `SupervisorProofs` | `Spec => []DesiredAsAsked` | `DesiredInv`: what would be loaded now was asked (`LoadedAsAsked`), memory mirrors the store (`Mirrored`), both but for the keys that are unsure, and while the daemon is up the boot is recorded, so that an interrupted `New` is taken up again and a finished one never. `StoredAsAsked`: of the store calls of a declaration, those of a key are all done or the last of them failed |
| `HoldersSpared` | `SupervisorProofs` | `Spec => HolderUntouched` | each call in flight names a container the listing showed managed, or none: `CallsSpareHolders` |
| `FilesMatched` | `SupervisorProofs` | `Faults = 0, Crashes = 0` imply `Spec => []ServicesMatchFile` | `Whole(records, projects)` is inductive when the store calls of each declaration touch all or nothing of a project (`Covers`): `Conflict`, decided in the second half of a declaration, keeps its names its own, and the files of a request that is pending are `Distinct` |
| `FatalKept` | `SupervisorProofs` | `Crashes = 0, Hands = 0` imply `Spec => []FatalStays` | `FatalInv`: a name that is given up is fatal and unforced, or declared stopped, and its container rests (`Resting`: not running, as declared), so that no branch of `reconcile` calls the engine about it. A name is given up by the listing or by a failed start, so the listing must show what is there, but for exits since (`Linked`), and a start that fails with an attempt counted must be of a container that rests (`Called`) |
| `RunningSpared` | `UndisturbedProofs` | `Crashes = 0, Hands = 0` imply `Spec => NoNeedlessStop` | `Grounds`: what a call in flight was decided for still holds when the engine carries it out (a stop, that the container is declared stopped; a removal, that it was created from another declaration; a start, that it is not running), since the listed container, or a later run of it, is still there (`Kept`). It rests on `FatalInv` for what the listing shows and on `InFlightCurrent` for the declaration. `Labelled` (a managed container has the hash of some declaration) makes fields that agree a hash that agrees |
| `StartedInOrder` | `UndisturbedProofs` | `Crashes = 0, Hands = 0` imply `Spec => DependenciesInOrder` | `WalkInv`: a name this pass is through with (`Walked`) and that was not left has the phase the listing gives it, and its health is of the listed run if it is healthy (`Shown`); the call in flight is of the name whose turn it is. A health check that returns needs its own clause (`Asking`), since its answer is stored for the run the listing showed. An API call only eases it: it stops, deletes or resets the tracking (`Eased`) |
| `TriesKept` | `UndisturbedProofs` | `Crashes = 0, Hands = 0, LongRuns = FALSE` imply `Spec => []TriesBounded` | `TallyInv`: the starts of a name are those its tracking counts (`startAttempts`), or one more, and that one is the run that goes on, ended unjudged, or ended in a way the policy wants no restart for (`Uncounted`); and no call removes, replaces or starts a container with a run not counted (`Replaces`). That a pass judges the exit it has not counted needs the listing to show the container as it is unless it showed it running (`Seen`) |
| `ContainersInCustody` | `CustodyProofs` | `Crashes = 0, Hands = 0` imply `Spec => ActsInCustody` | step simulation, over `Inv`, `FatalInv` and `Grounds` and one more inductive invariant, `CustodyInv`: every container is the daemon's own, a listing just made misses none, and a call other than `run` is about a container that was listed, a start or a restart about one that is as declared. A step of `reconcile` that issues a call is the order (`Clear`, `Replace`, `Stop`, `Start`), `EngineDo` is `Obey`, a start or stop through the API is `Say`, a declaration, a deletion or a start of the daemon `Declare`, the end of a name's reconciling `Forget`. That the order follows from the container as it is and not as it was listed is `Linked` of `FatalInv` (the listing shows what is there but for exits since); that `track` forgets no restart is shown for each way `reconcile` rewrites it (`ObservedRunning`, `Judged`, `StartFailed`, ...) |
| `FilesTypeCorrect` | `StoreFilesProofs` | `Spec => []TypeOK` | one inductive invariant, `IInv`, for this and the next three |
| `AcknowledgedStands` | `StoreFilesProofs` | `Spec => []AckedKept` | `Kept`: what is promised is loaded and its names are settled; that this survives a rename in the same directory needs `Done` (how far the call in progress has settled its files) and `Shape` (which file it is at) |
| `DeletionsWhole` | `StoreFilesProofs` | `Spec => DeletedWhole` | `AsItWas`: while a deletion is in progress the project is loaded as the call found it, or not at all, since a file is only taken away when it is the Compose file or that is gone (`Shape`) |
| `RecordsKeptAtomically` | `StoreFilesProofs` | `Spec => RecordsAtomic` | step simulation: a rename or an unlink of a record's file is `Take`, a sync of its directory is `Settle`, a return is `Acknowledge`, a failure or a kill `Abandon`; `Whole` (every file a name can come to name is synced) makes the survivors of a power failure whole |
| `TypeCorrect` | `RestartClockProofs` | `Spec => []TypeOK` | one inductive invariant for the five: `IInv`: `TypeOK`, `Stamps`, `Flight`, `Pacing`, `Counted`, `FatalDeserved`, `Resting`, `Decisions` and `Repeats`, from the assumptions on the restart timings and the epoch |
| `GivenUpDeservedly` | `RestartClockProofs` | `Spec => []FatalDeserved` | `Counted`: a tally is at most what truly happened since the last reset. It rests on `Stamps`: a stamp is the wall clock's second when the thing happened, so two stamps a whole confirmation apart are of moments that far apart (`StampsNear`, `StampsFar`, `StampsOrdered`: what `\div` makes of an interval) |
| `StartsPaced` | `RestartClockProofs` | `Spec => Paced` | `Pacing`: the next start is not due before the gap of the last one is over, for the tally it was made with |
| `ResetsEarned` | `RestartClockProofs` | `Spec => ResetEarned` | an action property from the same invariant; `Flight` says from which container a start in flight was decided |
| `PolicyHolds` | `RestartClockProofs` | `Spec => PolicyKept` | every start of an exited container comes after a gap, since one that ran was started in this boot (`FreshNever`). `Decisions`: a gap that is kept for the exit the container has follows from its policy and the code of that exit; the decision is found again by the second of the exit, which a tracking without decisions never has (`StampsLate`). `Resting`: while a gap is waited out the container does not run, so that its exit stays the one decided on, and a pass that lists an exited container sees it as it is. `Repeats`: a tally of restarts is at least the runs a restart was decided on after |
| `TypeCorrect`, `NoWakeLost`, `NoEventLost` | `RunLoopProofs` | `Spec => []TypeOK`, `Spec => []NoLostWake`, `Spec => []NoLostEvent` | both are nearly inductive; `Backlogs` adds that the stream is started again only once every event was received |
| `TypeCorrect` | `PhaseFeedProofs` | `Spec => []TypeOK` | `FeedInv == TypeOK /\ Channels /\ NothingMissed /\ CaughtUp` is inductive, for any `Room`, names and clients |
| `SubscribersTold` | `PhaseFeedProofs` | `Spec => []NothingMissed` | what publish sends has one change of each name whose phase is another than it said last: `Nth` counts the names before one, so that each place of the queue has one name and each name one place; the last change of a name in the queue stands for its phase |
| `ViewsCaughtUp` | `PhaseFeedProofs` | `Spec => []CaughtUp` | from `NothingMissed`: when no change of a name is left in the queue, what it was told last is what it was sent last |
| `RunsAsWritten` | `DeclareProofs` | `Spec => []RunAsWritten` | `Inv`: the file can be written, the host has nodes, an answer is `Answer` of its request with both as they are. Then each key of an accepted service is compared with its part of the spec: memory is a whole number of its unit (`MemoryWhole`), of two forms of a limit that agree one is picked (`OnePicked`), durations that are whole seconds lose nothing (`CheckWhole`), names that are apart give a dependency back (`DependenciesWhole`) |
| `LoadedAsAssumed` | `DeclareProofs` | `Spec => []LoadsAsAssumed` | the same `Inv`; names are a bijection between services and containers |
| `BindsLed` | `DeclareProofs` | `Spec => []BindsLead` | the same `Inv`. `StepPays`: a step takes a name off the rest of a walk or a link off those that may come, so that every walk ends (`WalkEnds`). What a walk is done with has no link on it (`WalkPlain`), and a path of which nothing is a link is walked straight (`Straight`). What `resolve` finds is the longest part that can be followed and the rest, of which the next name is not there (`FollowedIs`); directories made below it are where no walk of that part went (`SameWalk`), so that the path is walked as before to it and straight on (`LedBelow`). That naturals have a least element stands for the induction |
| `Foretold` | `DeclareProofs` | `Spec => []CheckForetells` | the same `Inv`; the directories of the two clients are compared case by case |

Only model-checked is what happens under fairness (`Converges`,
`EverythingSeen`, `ReadersLearn`, `EverythingPublished`): liveness needs
`ENABLED`, which TLAPS 1.4 does not reason about. Every other property of a
passing run has its theorem. No library theorem of induction is used, since
those take an operator: `Ascends` and `Iterates` of `DeclareProofs` rest on the
least element of a set of naturals.

What the hypotheses of the theorems about `Supervisor` exclude is no
weakness of the proofs: an orphaned `podman`, or a person, who starts a
container with devices between a listing and a `podman run --replace` has it
replaced as it runs; and with runs beyond `BackoffMaxSeconds`, the exit of an
old one that is judged again, after a start through the API was refused, resets
the tally, and one attempt more is made (TLC finds the 44 steps with one name,
`LongRuns`, A1 E2 F2).

## Known divergences

Where the code does otherwise than a comment or `src/README.md` says. The
first four have a run that shows it (`findings` in `PROJECT.json`).

- `lost_start`: a start that was not carried out (refused, waiting for a
  dependency, or taken for carried out from an older listing) is given up when
  the next pass judges the container's old exit, where `supervisor.go:473` says
  that `Start` makes a container desired running.
- `policy_change`: a container left exited under policy `no` stays so when it
  is declared again with `always`, where `src/README.md:74` says that restarts
  follow from the declaration, never from memory.
- `torn_project`: a project is two files, and a kill between them leaves parts
  of two declarations, where `store.go:167` says it is written atomically.
- `stop_holds`: a container that is declared stopped, a start whose store call
  fails after the rename (`store.go:228`), and a stop again: it is answered,
  and stores nothing, since memory says stopped already (`supervisor.go:545`).
  The next start of the daemon runs the container, where `src/README.md:150`
  says that a stop holds until a start.

Met while modelling, not shown by a run of its own:

- In the same way a record whose put failed after the rename is in no memory: a
  deletion of its project, answered, leaves it on disk, and the next start of
  the daemon runs the container, of a project that is not declared
  (`src/README.md:164`). `DesiredAsAsked` exempts keys that are `unsure`.
- A name taken by hand between the listing and the call: `podman run
  --replace` (`supervisor.go:852`, from a listing that is older) removes a
  container the daemon does not manage, which `supervisor.go:11` and
  `src/README.md:83` exclude. `HolderUntouched` speaks of listed ones.
- A dependency that is reconciled later in a pass is looked at as the pass
  before left it (`supervisor.go:887`), so that a dependent can be started
  while the dependency is down (`src/README.md:79`). `DependenciesInOrder`
  speaks of the others.
- A dependency whose removal or stop fails (`supervisor.go:705`), or whose
  engine call is overtaken by a call of the API (`supervisor.go:703`), keeps the
  phase and the health of an earlier pass, so that a dependent reconciled after
  it is started while it is down (`src/README.md:79`). `DependenciesInOrder`
  exempts it (`left`).
- The boot time is the `btime` of `/proc/stat`, which moves with the wall clock
  (`main.go:139`, `supervisor.go:770`): after the clock is set forward and the
  daemon restarted, a container that exited is taken for one of an earlier boot
  and started whatever its policy (`src/README.md:74`); set back, every exit
  counts as one of this boot, and a run stays `starting`. `RestartClock` has
  such steps, and its properties but `TypeOK` are about runs without
  (`stepped`).
- The stamps are whole seconds: a run of a tenth of a second across a second
  counts as one of one second, against a confirmation of one (`src/README.md:70`),
  `running` is reported up to a second early, and the gap of a refused start
  is counted from before the call.
- An exit that was judged is judged again after a start through the API was
  refused, and counts twice, or resets the tally if that run was long.
- The loader lets through, though `compose.go:1-3` and `src/README.md:98` say
  that nothing is ignored: `entrypoint: []`; a health check without a test;
  `retries` above 1000 (clamped); a fourth decimal of `cpus`, and a negative
  number of them; `pids: -1` under `deploy`; options of a short volume such as
  `:rshared` and `:z`, but `nocopy` of a named one; `mem_limit: 0` beside a limit
  under `deploy`. `LetThrough` names them, but for the last, which `Asked` takes
  for no limit.
- `compose check -` of a file with relative paths and no `--project-dir` takes
  the volumes directory, `ctl up` of the same file the working directory.
- A listing made between a start and the end of its pass reports `stopped`
  and, with no change following, a client keeps that (`glimpsed`).
- A `Start`, `Stop` or `Restart` answers 404 when the container is deleted
  between its two critical sections, though it took effect.

## Not modelled

- YAML itself, interpolation, merging and the texts of problems: `Compose`
  begins at the keys and values. Which characters a name, a user or a path may
  have is a case of its own (`Bad`).
- The arguments of podman and the parsing of its output, but for the stamps
  (`RestartClock`), the JSON of the API, logs: pure functions of one input
  with unit tests, or pure I/O.
- The end of the daemon on a signal: it cancels the context, and every state
  it can leave is one a kill leaves.
- Build, packaging, pins, release scripts, the end-to-end tests.

## Plan

Done: `Declarations`, `Podman`, `Supervisor` over `Custody`, `StoreFiles` over
`AtomicStore`, `RunLoop`, `RestartClock`, `PhaseFeed`, `HostPaths`, `Compose` and
`Declare`, with the proofs above. What is left: `Supervisor` composed with
`StoreFiles`, for a declaration loaded from the files a kill or a power failure
left, where `Supervisor` has whole records.
