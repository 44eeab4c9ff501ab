------------------------------ MODULE Compose ------------------------------
(***************************************************************************)
(* Package compose: what a Compose file becomes, or that it is refused.    *)
(*                                                                         *)
(* A service as written is a record of its keys, None for one that is not  *)
(* written; other keys are the value of `extra`.  A value is what tells    *)
(* the outcomes apart: a number where one is computed with, else the name  *)
(* of a case.  Memory is in bytes, cpus in ten thousandths, a duration in  *)
(* half seconds.  A container name is the sequence of its parts, the       *)
(* default one <<project, service>>.                                       *)
(***************************************************************************)
EXTENDS HostPaths, Integers, FiniteSets, SequencesExt

CONSTANTS
  Volumes   \* the directory of the named volumes

KiB == 1024
MiB == 1048576
GiB == 1073741824
MaxUint16 == 65535
MaxPids == 65536

Optional(S) == S \cup {None}

(* An amount of memory, and the health check of a container. *)
Amounts == [n : Int, unit : {KiB, MiB, GiB}]
Checks == [command : STRING, interval : Int, timeout : Int, period : Int, retries : Int]

(* None is no value that a key or a part of a spec can have; the strings   *)
(* named are in STRING, which the provers do not know.                     *)
ASSUME NoneAssumption ==
  /\ None \notin Int \cup STRING \cup Seq(STRING) \cup Amounts \cup Checks
  /\ None \notin {"ALL", "all", "CAP_NET_ADMIN", "net_admin", "of the file"}
  /\ None \notin {"not a directory", "missing", "too many links"}

(* A file is [name, options, services]: the top-level name key, whether a  *)
(* volume or a network has options, and the services.                      *)
Services(f) == DOMAIN f.services

ContainerName(project, service) == <<project, service>>
NetworkName(project) == <<project, "default">>
Dir(project) == Append(Volumes, project)

ValidProject(project) == project \notin {"", "Bad"}
ValidName(name) == name # <<"Bad">>

Or(value, default) == IF value = None THEN default ELSE value
Written(value) == value # None

(* The host path of a volume or an env_file: in dir unless absolute. *)
HostPath(dir, p) == IF p.absolute THEN p.path ELSE dir \o p.path

-----------------------------------------------------------------------------
(* What is written, before the parser fills its defaults in.               *)

(* The keys of each level that are not read are refused, but an x- one. *)
Raw(f, project) ==
  /\ f.name \in {None, project} /\ ~ f.options
  /\ Services(f) # {}
  /\ \A s \in Services(f) :
       LET svc == f.services[s]
       IN  /\ svc.extra \in {None, "x-"}
           /\ svc.volume # None => ~ svc.volume.tilde
           /\ svc.env_file # None => ~ svc.env_file.tilde
           /\ svc.health # None => ~ svc.health.start_interval
           /\ svc.deploy # None => svc.deploy.other = None
           /\ svc.networks \in {None, "default"}
           /\ Written(svc.network_mode) => ~ Written(svc.networks)

(* What compose-go refuses. *)
Limit(svc, key) == IF svc.deploy = None THEN None ELSE svc.deploy[key]

LimitsWritten(svc) == \E key \in {"memory", "cpus", "pids"} : Written(Limit(svc, key))

Agree(svc, own, key) ==
  Or(own, 0) # 0 /\ LimitsWritten(svc) => own = Or(Limit(svc, key), 0)

ReadEnvFile(svc, dir, host) ==
  /\ svc.env_file # None
  /\ Stat(host, HostPath(dir, svc.env_file)) = "file"

(* Only a file that is not there may be left out: a directory is an error. *)
LoadEnvFile(svc, dir, host) ==
  \/ ReadEnvFile(svc, dir, host)
  \/ ~ svc.env_file.required /\ IsNotExist(host, HostPath(dir, svc.env_file))

Parsed(f, dir, host) ==
  /\ \A s \in Services(f) :
       LET svc == f.services[s]
       IN  /\ svc.image # ""
           /\ svc.env_file # None => LoadEnvFile(svc, dir, host)
           /\ Agree(svc, svc.mem_limit, "memory") /\ Agree(svc, svc.cpus, "cpus")
           /\ Agree(svc, svc.pids_limit, "pids")
           /\ svc.health # None => svc.health.test # "other"
           /\ svc.depends_on # None => svc.depends_on.on \in Services(f)
  /\ ~ \E walk \in [1 .. Cardinality(Services(f)) + 1 -> Services(f)] :
         \A i \in 1 .. Cardinality(Services(f)) :
           f.services[walk[i]].depends_on # None /\ f.services[walk[i]].depends_on.on = walk[i + 1]

-----------------------------------------------------------------------------
(* A service becomes a container.                                          *)

NameOf(f, project, s) == Or(f.services[s].container_name, ContainerName(project, s))

(* Mutant: only the names that are written are held against each other. *)
NamedWritten(f, project) ==
  /\ \A s \in Services(f) : ValidName(NameOf(f, project, s))
  /\ \A s, t \in {u \in Services(f) : Written(f.services[u].container_name)} :
       NameOf(f, project, s) = NameOf(f, project, t) => s = t

(* Every name is one, and of one service. *)
Named(f, project) ==
  /\ \A s \in Services(f) : ValidName(NameOf(f, project, s))
  /\ \A s, t \in Services(f) : NameOf(f, project, s) = NameOf(f, project, t) => s = t

PortAccepted(p) ==
  /\ p.form = "plain" /\ Written(p.host)
  /\ p.host \in 0 .. MaxUint16 /\ p.target \in 0 .. MaxUint16

(* The mount of a bind whose host path resolves to r; error: it is refused. *)
Bind(v, r, host) ==
  [ error  |-> \/ r.resolved = None
               \/ r.resolved # r.existing /\ (~ v.short \/ ~ Creatable(host, r.existing)),
    host   |-> r.resolved, ro |-> v.ro, make |-> v.short ]

Volume(v, project, dir, host) ==
  CASE v.type = "bind" -> Bind(v, Resolve(host, HostPath(dir, v)), host)
    [] v.type = "volume" ->
         [error |-> v.path = <<>> \/ v.option = "nocopy",
          host  |-> Dir(project) \o v.path, ro |-> v.ro, make |-> TRUE]
    [] OTHER -> [error |-> TRUE, host |-> <<>>, ro |-> FALSE, make |-> FALSE]

DeviceAccepted(d, host) ==
  d.absolute /\ Stat(host, d.path) = "device"

CapabilityOf(c) == CASE c = "net_admin" -> "CAP_NET_ADMIN" [] c = "all" -> "ALL" [] OTHER -> c

Policy(restart) ==
  CASE restart = None -> "no"
    [] restart # None -> IF restart.policy = "unless-stopped" THEN "always" ELSE restart.policy

(* A health check that has a test; durations are still in half seconds. *)
HasCheck(h) == h # None /\ ~ h.disable /\ h.test \notin {None, "NONE"}

WholeSeconds(d) == Or(d, 0) >= 0 /\ Or(d, 0) % 2 = 0

HealthAccepted(h) ==
  /\ WholeSeconds(h.interval) /\ WholeSeconds(h.timeout) /\ WholeSeconds(h.start_period)
  /\ h.interval # 0 /\ h.timeout # 0 /\ h.retries # 0

(* A value of 0 is the default, which Normalized fills in. *)
Health(h) ==
  IF ~ HasCheck(h) THEN None
  ELSE [ command  |-> h.test,
         interval |-> Or(h.interval, 0) \div 2, timeout |-> Or(h.timeout, 0) \div 2,
         period   |-> Or(h.start_period, 0) \div 2,
         retries  |-> IF Or(h.retries, 0) > 1000 THEN 1000 ELSE Or(h.retries, 0) ]

Larger(a, b) == IF a > b THEN a ELSE b

LimitOf(svc, own, key) == Larger(Or(own, 0), Or(Limit(svc, key), 0))
Pids(svc) ==
  IF LimitsWritten(svc) THEN LimitOf(svc, svc.pids_limit, "pids") ELSE Or(svc.pids_limit, 0)

(* Mutant: what is not a whole number of MiB loses the rest. *)
MemoryInMiB(bytes) ==
  IF bytes <= 0 THEN None
  ELSE IF bytes % GiB = 0 THEN [n |-> bytes \div GiB, unit |-> GiB]
  ELSE [n |-> bytes \div MiB, unit |-> MiB]

(* <n>g, <n>m or <n>k: in the largest unit that divides it. *)
Memory(bytes) ==
  IF bytes <= 0 THEN None
  ELSE LET units == {u \in {KiB, MiB, GiB} : bytes % u = 0}
           unit  == CHOOSE u \in units : \A w \in units : w <= u
       IN  [n |-> bytes \div unit, unit |-> unit]

(* Rounded to three decimals; 0 is written 0 and refused by Validate. *)
Cpu(cpus) == IF cpus > 0 THEN (cpus + 5) \div 10 ELSE None

(* mounts is what Volume makes of the service's volume, if it has one. *)
ServiceAccepted(svc, mounts, host) ==
  /\ svc.network_mode \in {None, "host", "none"}
  /\ svc.network_mode = "host" => svc.ports = <<>>
  /\ Or(svc.cap, "ALL") # "WIZARD"
  /\ svc.environment # "bare"
  /\ \A i \in DOMAIN svc.ports : PortAccepted(svc.ports[i])
  /\ \A m \in mounts : ~ m.error
  /\ svc.device # None => DeviceAccepted(svc.device, host)
  /\ Policy(svc.restart) \in {"no", "always", "on-failure"}
  /\ svc.restart # None => Or(svc.restart.max, 1) >= 1
  /\ svc.depends_on # None =>
       /\ svc.depends_on.condition # "completed"
       /\ svc.depends_on.required /\ ~ svc.depends_on.restart
  /\ HasCheck(svc.health) => HealthAccepted(svc.health)
  /\ Or(Limit(svc, "replicas"), 1) = 1
  /\ Pids(svc) >= 0
  /\ LET memory == LimitOf(svc, svc.mem_limit, "memory") IN memory <= 0 \/ memory % KiB = 0

ToSpec(f, s, project, mounts, dir, host) ==
  LET svc == f.services[s]
  IN  [ name    |-> NameOf(f, project, s), project |-> project, service |-> s,
        image   |-> svc.image, entrypoint |-> IF svc.entrypoint = "empty" THEN None ELSE svc.entrypoint,
        user    |-> svc.user,
        environment |->
          (IF Written(svc.environment) THEN {svc.environment} ELSE {})
            \cup (IF ReadEnvFile(svc, dir, host) THEN {"of the file"} ELSE {}),
        networks |-> IF Written(svc.network_mode) THEN {} ELSE {NetworkName(project)},
        aliases |-> IF Written(svc.network_mode) THEN {} ELSE {s},
        mode    |-> svc.network_mode,
        cap     |-> CapabilityOf(svc.cap),
        publish |-> [i \in DOMAIN svc.ports |->
                       [host |-> svc.ports[i].host, target |-> svc.ports[i].target, udp |-> svc.ports[i].udp]],
        volumes |-> {[host |-> m.host, ro |-> m.ro, make |-> m.make] : m \in mounts},
        device  |-> IF svc.device = None THEN None
                    ELSE [path |-> svc.device.path, permissions |-> Or(svc.device.permissions, "rwm")],
        policy  |-> Policy(svc.restart), max |-> IF svc.restart = None THEN 0 ELSE Or(svc.restart.max, 0),
        deps    |-> IF svc.depends_on = None THEN {}
                    ELSE {[name  |-> NameOf(f, project, svc.depends_on.on),
                           ready |-> IF svc.depends_on.condition = "healthy" THEN "healthy" ELSE "running"]},
        health  |-> Health(svc.health),
        memory  |-> Memory(LimitOf(svc, svc.mem_limit, "memory")),
        cpu     |-> Cpu(LimitOf(svc, svc.cpus, "cpus")),
        pids    |-> IF Pids(svc) < 0 THEN 0 ELSE Pids(svc) ]

-----------------------------------------------------------------------------
(* spec.Validate, of the normalized spec.                                  *)

Default(value, default) == IF value = 0 THEN default ELSE value

Timed(check) ==
  [ command |-> check.command, interval |-> Default(check.interval, 30),
    timeout |-> Default(check.timeout, 10), period |-> check.period,
    retries |-> Default(check.retries, 3) ]

Normalized(sp) == [sp EXCEPT !.health = IF @ = None THEN None ELSE Timed(@)]

Valid(spec) ==
  LET sp == Normalized(spec)
  IN  /\ sp.image \notin {"", "-i"} /\ sp.user # "a b"
      /\ \A i \in DOMAIN sp.publish : sp.publish[i].host # 0 /\ sp.publish[i].target # 0
      /\ \A i, j \in DOMAIN sp.publish :
           sp.publish[i].host = sp.publish[j].host /\ sp.publish[i].udp = sp.publish[j].udp => i = j
      /\ sp.device # None => sp.device.permissions # "x"
      /\ sp.pids \in 0 .. MaxPids /\ sp.cpu # 0
      /\ sp.health # None => sp.health.command # "CMD alone" /\ sp.health.timeout <= sp.health.interval
      /\ \A d \in sp.deps : d.name # sp.name

Refused == [accepted |-> FALSE, specs |-> <<>>]

Mounts(f, project, dir, host) ==
  [s \in Services(f) |->
     {Volume(v, project, dir, host) : v \in {f.services[s].volume} \ {None}}]

Judge(f, project, mounts, dir, host) ==
  LET specs == [s \in Services(f) |-> ToSpec(f, s, project, mounts[s], dir, host)]
  IN  IF /\ ValidProject(project) /\ Raw(f, project) /\ Parsed(f, dir, host) /\ Named(f, project)
         /\ \A s \in Services(f) : ServiceAccepted(f.services[s], mounts[s], host) /\ Valid(specs[s])
      THEN [accepted |-> TRUE, specs |-> specs]
      ELSE Refused

LoadIn(project, f, dir, host) == Judge(f, project, Mounts(f, project, dir, host), dir, host)

(* Load of a file declared for project, in dir, or <<>> when none is given. *)
Load(project, f, given, host) ==
  LoadIn(project, f, IF given = <<>> THEN Dir(project) ELSE given, host)
=============================================================================
