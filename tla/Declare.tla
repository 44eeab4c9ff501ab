------------------------------ MODULE Declare ------------------------------
(***************************************************************************)
(* A person writes a Compose file, on a host that changes, and declares it *)
(* with ctl up or holds it to compose check: cmd/mica-containerd and what  *)
(* package compose makes of the file, compared with what the README's      *)
(* table says each key becomes.                                            *)
(***************************************************************************)
EXTENDS Compose

CONSTANTS
  ServiceNames,  \* what services can be called
  Blank,      \* a service with its image alone
  Values,     \* of each key, the values that are written
  Homes,      \* of each path that changes, what can be there
  Base,       \* the host at first
  Cwd,        \* the working directory, which has a compose.yaml
  Requests,   \* how ctl up and compose check are called
  Edits       \* bound: what is written and what the host changes

(* What can be written of each key of a service: of restart, the count is  *)
(* that of on-failure:<count>, and no environment is written as that of a  *)
(* file is read.                                                           *)
Ports == [host : Optional(Nat), target : Nat, udp : BOOLEAN, form : STRING]

Mountings ==
  [ type : STRING, short : BOOLEAN, absolute : BOOLEAN, path : Seq(STRING), ro : BOOLEAN,
    option : Optional(STRING), tilde : BOOLEAN ]

Restarting ==
  {r \in [policy : STRING, max : Optional(Int)] : r.max # None => r.policy = "on-failure"}

Testing ==
  [ test : Optional(STRING), disable : BOOLEAN, interval : Optional(Int), timeout : Optional(Int),
    start_period : Optional(Int), retries : Optional(Nat), start_interval : BOOLEAN ]

Deploying ==
  [ replicas : Optional(Int), memory : Optional(Nat), cpus : Optional(Int), pids : Optional(Int),
    other : Optional(STRING) ]

Keys ==
  [ image |-> STRING, entrypoint |-> Optional(STRING), user |-> Optional(STRING),
    environment |-> Optional(STRING \ {"of the file"}),
    env_file |-> Optional([absolute : BOOLEAN, path : Seq(STRING), required : BOOLEAN, tilde : BOOLEAN]),
    ports |-> Seq(Ports), volume |-> Optional(Mountings),
    device |-> Optional([absolute : BOOLEAN, path : Seq(STRING), permissions : Optional(STRING)]),
    cap |-> Optional(STRING), restart |-> Optional(Restarting),
    depends_on |-> Optional([on : STRING, condition : Optional(STRING), required : BOOLEAN, restart : BOOLEAN]),
    health |-> Optional(Testing), mem_limit |-> Optional(Nat), cpus |-> Optional(Int),
    pids_limit |-> Optional(Int), deploy |-> Optional(Deploying), networks |-> Optional(STRING),
    network_mode |-> Optional(STRING), container_name |-> Optional(Seq(STRING)), extra |-> Optional(STRING) ]

IsService(svc) ==
  /\ svc = [key \in DOMAIN Keys |-> svc[key]]
  /\ \A key \in DOMAIN Keys : svc[key] \in Keys[key]

ASSUME WritingAssumption ==
  /\ IsFiniteSet(ServiceNames)
  /\ IsService(Blank)
  /\ \A key \in DOMAIN Values : key \in DOMAIN Keys /\ Values[key] \subseteq Keys[key]

ASSUME HostAssumption ==
  /\ \A path \in DOMAIN Base : Base[path] \in Nodes
  /\ \A path \in DOMAIN Homes : Homes[path] \subseteq Nodes

ASSUME AskingAssumption ==
  /\ Cwd \in Seq(STRING) \ {<<>>}
  /\ Requests \subseteq [file : STRING, dir : Seq(STRING), project : Optional(STRING)]

VARIABLES
  file,       \* the Compose file as it stands
  host,       \* what is at each path
  answered,   \* what a request comes to, if asked: by compose check, by ctl up,
              \* and by a PUT of the project with no directory
  edits       \* what is left of the bound

vars == <<file, host, answered, edits>>

Init ==
  /\ \E ss \in SUBSET ServiceNames \ {{}} : file = [name |-> None, options |-> FALSE, services |-> [s \in ss |-> Blank]]
  /\ host = Base /\ answered = None /\ edits = Edits

(* What comes after an answer starts from the same file and host. *)
Edited == edits > 0 /\ answered = None /\ edits' = edits - 1 /\ UNCHANGED answered

Write(s, key) ==
  /\ Edited /\ file.services[s][key] = Blank[key]
  /\ \E value \in Values[key] : file' = [file EXCEPT !.services[s][key] = value]
  /\ UNCHANGED host

WriteTop ==
  /\ Edited
  /\ \/ \E n \in {"p", "other", "!"} : file.name = None /\ file' = [file EXCEPT !.name = n]
     \/ ~ file.options /\ file' = [file EXCEPT !.options = TRUE]
  /\ UNCHANGED host

HostChanges(path) ==
  /\ Edited
  /\ \E node \in Homes[path] \ {host[path]} : host' = [host EXCEPT ![path] = node]
  /\ UNCHANGED file

-----------------------------------------------------------------------------
(* The clients.                                                            *)

(* loader.NormalizeProjectName of a directory's name. *)
NormalizeProjectName(base) == IF base = "!" THEN "" ELSE base

(* The directory of a request: --project-directory, or that of the file.   *)
Directory(req) ==
  IF req.dir # <<>> THEN req.dir ELSE IF req.file = "other" THEN <<"q">> ELSE Cwd

(* Its name: -p, the file's name key, or its directory. *)
ProjectName(req, f) ==
  Or(req.project, Or(f.name, NormalizeProjectName(Last(Directory(req)))))

(* What a client can ask with; without a directory or a name it asks nothing. *)
Targeted(req, f) ==
  /\ req.dir # <<>> => Stat(host, req.dir) \in {"dir", "locked"}
  /\ ProjectName(req, f) # ""

(* What a client leaves with: 1 when the file is refused, or 0 and the     *)
(* containers; 2 when it asks nothing.                                     *)
Outcome(dir, loaded) == [code |-> IF loaded.accepted THEN 0 ELSE 1, dir |-> dir, specs |-> loaded.specs]
AsksNothing == [code |-> 2, dir |-> <<>>, specs |-> <<>>]

(* The daemon's answer to a project declared in dir. *)
Put(project, f, dir) == Outcome(dir, Load(project, f, dir, host))

(* ctl up names the directory. *)
Up(req, f) == Put(ProjectName(req, f), f, Directory(req))

(* Mutant: every file is held to the volumes directory. *)
CheckedDirInVolumes(req, f) == Dir(ProjectName(req, f))

(* compose check does too, but takes the one the daemon would for a file   *)
(* of stdin.                                                               *)
CheckedDir(req, f) ==
  IF req.file = "-" /\ req.dir = <<>> THEN Dir(ProjectName(req, f)) ELSE Directory(req)

Check(req, f) ==
  Outcome(CheckedDir(req, f), Load(ProjectName(req, f), f, CheckedDir(req, f), host))

Answer(req) ==
  IF Targeted(req, file)
  THEN [ req |-> req, check |-> Check(req, file), up |-> Up(req, file),
         bare |-> Put(ProjectName(req, file), file, <<>>) ]
  ELSE [req |-> req, check |-> AsksNothing, up |-> AsksNothing, bare |-> AsksNothing]

Ask(req) ==
  /\ answered = None /\ answered' = Answer(req)
  /\ UNCHANGED <<file, host, edits>>

Next ==
  \/ \E s \in Services(file), key \in DOMAIN Values : Write(s, key)
  \/ WriteTop
  \/ \E path \in DOMAIN Homes : HostChanges(path)
  \/ \E req \in Requests : Ask(req)

Spec == Init /\ [][Next]_vars

-----------------------------------------------------------------------------
(* What the README's table says a service becomes, read off the file.      *)

(* A limit of 0 is none; of two, the one that is a limit. *)
Pick(a, b) == IF Or(a, 0) # 0 THEN a ELSE b

Asked(svc) ==
  [ entrypoint |-> svc.entrypoint, user |-> svc.user, image |-> svc.image,
    replicas   |-> Or(Limit(svc, "replicas"), 1),
    environment |-> svc.environment,
    ports      |-> {<<Or(p.host, 0), p.target, p.udp, p.form>> : p \in ToSet(svc.ports)},
    volumes    |-> {[option |-> v.option, ro |-> v.ro] : v \in {svc.volume} \ {None}},
    device     |-> IF svc.device = None THEN None ELSE [path |-> svc.device.path, permissions |-> Or(svc.device.permissions, "rwm")],
    cap        |-> svc.cap \notin {None}, all |-> svc.cap \in {"ALL", "all"},
    restart    |-> IF svc.restart = None THEN <<"no", 0>>
                   ELSE <<IF svc.restart.policy = "unless-stopped" THEN "always" ELSE svc.restart.policy, Or(svc.restart.max, 0)>>,
    after      |-> IF svc.depends_on = None THEN {} ELSE {<<svc.depends_on.on, svc.depends_on.condition = "healthy">>},
    check      |-> IF svc.health = None \/ svc.health.disable \/ svc.health.test = "NONE" THEN None
                   ELSE [ test |-> svc.health.test, interval |-> Or(svc.health.interval, 60),
                          timeout |-> Or(svc.health.timeout, 20), period |-> Or(svc.health.start_period, 0),
                          retries |-> Or(svc.health.retries, 3) ],
    memory     |-> Or(Pick(svc.mem_limit, Limit(svc, "memory")), 0),
    cpus       |-> Or(Pick(svc.cpus, Limit(svc, "cpus")), 0),
    pids       |-> Or(Pick(svc.pids_limit, Limit(svc, "pids")), 0),
    network    |-> svc.network_mode ]

(* The same of a container, from its spec. *)
Becomes(spec, f) ==
  LET sp == Normalized(spec)
  IN
  [ entrypoint |-> sp.entrypoint, user |-> sp.user, image |-> sp.image,
    replicas   |-> 1,
    environment |-> IF sp.environment \ {"of the file"} = {} THEN None ELSE CHOOSE e \in sp.environment \ {"of the file"} : TRUE,
    ports      |-> {<<p.host, p.target, p.udp, "plain">> : p \in ToSet(sp.publish)},
    volumes    |-> {[option |-> None, ro |-> m.ro] : m \in sp.volumes},
    device     |-> sp.device,
    cap        |-> sp.cap # None, all |-> sp.cap = "ALL",
    restart    |-> <<sp.policy, sp.max>>,
    after      |-> {<<CHOOSE s \in Services(f) : NameOf(f, sp.project, s) = d.name, d.ready = "healthy">> : d \in sp.deps},
    check      |-> IF sp.health = None THEN None
                   ELSE [ test |-> sp.health.command, interval |-> sp.health.interval * 2,
                          timeout |-> sp.health.timeout * 2, period |-> sp.health.period * 2,
                          retries |-> sp.health.retries ],
    memory     |-> IF sp.memory = None THEN 0 ELSE sp.memory.n * sp.memory.unit,
    cpus       |-> Or(sp.cpu, 0) * 10,
    pids       |-> sp.pids,
    network    |-> IF sp.networks = {} THEN sp.mode ELSE None ]

-----------------------------------------------------------------------------
(* Properties.                                                             *)

(* What the loader accepts and yet does not carry out as written: an empty *)
(* entrypoint, the rest of a health check without a test, retries above    *)
(* 1000, a fourth decimal of cpus, a negative number of cpus or, under     *)
(* deploy, of pids, and the options of the short form of a volume, but     *)
(* nocopy of a named one.                                                  *)
LetThrough(svc) ==
  \/ svc.entrypoint = "empty"
  \/ svc.health # None /\ (svc.health.test = None \/ Or(svc.health.retries, 0) > 1000)
  \/ LimitOf(svc, svc.cpus, "cpus") % 10 # 0
  \/ \E amount \in {svc.cpus, Limit(svc, "cpus"), Limit(svc, "pids")} : Or(amount, 0) < 0
  \/ /\ svc.volume # None /\ svc.volume.option # None
     /\ svc.volume.type = "volume" => svc.volume.option # "nocopy"

Accepted == answered # None /\ answered.up.code = 0

(* A file is run as written or not at all: but for what is let through,    *)
(* the spec of every service of an accepted file has each thing the file   *)
(* asks for, in its place and its amount.                                  *)
RunAsWritten ==
  Accepted =>
    \A s \in Services(file) :
      \/ LetThrough(file.services[s])
      \/ Asked(file.services[s]) = Becomes(answered.up.specs[s], file)

(* What the supervisor takes for granted of the specs of a file (module    *)
(* Declarations): a name is of one container, a dependency is another      *)
(* container of the file, each has a policy it knows.                      *)
LoadsAsAssumed ==
  Accepted =>
    LET specs == answered.up.specs
        names == {specs[s].name : s \in Services(file)}
    IN  /\ Cardinality(names) = Cardinality(Services(file))
        /\ \A s \in Services(file) :
             /\ \A d \in specs[s].deps : d.name \in names \ {specs[s].name}
             /\ specs[s].policy \in {"no", "on-failure", "always"}
             /\ specs[s].max > 0 => specs[s].policy = "on-failure"

(* Path leads to target, by no link when it is target itself. *)
Leads(made, path, target) == EvalSymlinks(made, path) = [path |-> target, error |-> None]

LeadsOnce(made, v, mount) ==
  Leads(made, HostPath(answered.up.dir, v), mount.host) /\ Leads(made, mount.host, mount.host)

(* A bind that was accepted names the directory the written path leads to, *)
(* once the engine has made what was missing: no link is left on it, and   *)
(* it can be made.                                                         *)
BindsLead ==
  Accepted =>
    \A s \in Services(file) :
      LET v == file.services[s].volume
      IN  v # None /\ v.type = "bind" =>
            \E mount \in answered.up.specs[s].volumes :
              LeadsOnce(IF mount.make THEN MkdirAll(host, mount.host) ELSE host, v, mount)

(* compose check exits and becomes what the daemon answers: to ctl up of   *)
(* the same file, or, for a file of stdin with no directory, to a project  *)
(* declared without one.                                                   *)
CheckForetells ==
  answered # None =>
    LET foretold == IF answered.req.file = "-" /\ answered.req.dir = <<>>
                    THEN answered.bare ELSE answered.up
    IN  answered.check.code = foretold.code /\ answered.check.specs = foretold.specs
=============================================================================
