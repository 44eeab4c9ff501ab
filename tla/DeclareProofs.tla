--------------------------- MODULE DeclareProofs ---------------------------
(***************************************************************************)
(* Proofs about what a Compose file becomes, for every file that can be    *)
(* written, every host and every way to ask: it is run as written or not   *)
(* at all, what it becomes is what the supervisor takes for granted, a     *)
(* bind leads where its path is written to, and compose check foretells    *)
(* what the daemon answers.                                                *)
(*                                                                         *)
(* An answer stands for the file and the host it was asked with, since     *)
(* nothing changes after one (Inv).  What is left is about the loader      *)
(* alone: each key of an accepted service is compared with its part of the *)
(* spec; and, of a bind, about the steps its path is followed by, which    *)
(* are counted by the names and links they take (WalkEnds).                *)
(***************************************************************************)
EXTENDS Declare, FiniteSetTheorems, SequenceTheorems, WellFoundedInduction, TLAPS

(* A file that can be written. *)
IsFile(f) ==
  /\ f = [ name |-> f.name, options |-> f.options,
           services |-> [s \in Services(f) |-> f.services[s]] ]
  /\ Services(f) \in SUBSET ServiceNames \ {{}}
  /\ \A s \in Services(f) : IsService(f.services[s])

(* The inductive invariant: an answer is of the file and host as they are. *)
Inv ==
  /\ IsFile(file)
  /\ \A path \in DOMAIN host : host[path] \in Nodes
  /\ answered = None \/ \E req \in Requests : answered = Answer(req)

(* None is no number, string or path. *)
LEMMA NoneApart ==
  /\ None \notin Int /\ None \notin STRING /\ None \notin Seq(STRING)
  /\ None \notin Amounts /\ None \notin Checks
BY NoneAssumption DEF NoneAssumption

-----------------------------------------------------------------------------
(* The inductive invariant.                                                *)

(* A service of which one key is written can be written. *)
LEMMA KeyWritten ==
  ASSUME NEW svc, IsService(svc), NEW key \in DOMAIN Values, NEW value \in Values[key]
  PROVE  IsService([svc EXCEPT ![key] = value])
<1>1. key \in DOMAIN Keys /\ value \in Keys[key]
  BY WritingAssumption DEF WritingAssumption
<1> DEFINE new == [svc EXCEPT ![key] = value]
<1>2. DOMAIN svc = DOMAIN Keys
  BY DEF IsService
<1>3. DOMAIN new = DOMAIN Keys /\ new = [k \in DOMAIN Keys |-> IF k = key THEN value ELSE svc[k]]
  BY <1>2
<1>4. \A k \in DOMAIN Keys : new[k] \in Keys[k]
  BY <1>1, <1>3 DEF IsService
<1> QED
  BY <1>3, <1>4 DEF IsService

(* The first file can be written. *)
LEMMA InitInv == Init => Inv
<1> SUFFICES ASSUME Init
             PROVE  Inv
  OBVIOUS
<1>1. PICK ss \in SUBSET ServiceNames \ {{}} :
        file = [name |-> None, options |-> FALSE, services |-> [s \in ss |-> Blank]]
  BY DEF Init
<1>2. file.name = None /\ file.options = FALSE /\ file.services = [s \in ss |-> Blank] /\ Services(file) = ss
  BY <1>1 DEF Services
<1>3. \A s \in ss : file.services[s] = Blank /\ IsService(file.services[s])
  BY <1>2, WritingAssumption DEF WritingAssumption
<1> QED
  BY <1>1, <1>2, <1>3, HostAssumption DEF HostAssumption, Init, Inv, IsFile, Optional

(* An answer stands while the file and the host do. *)
LEMMA AnswerStands ==
  ASSUME UNCHANGED <<file, host>>, NEW req
  PROVE  Answer(req)' = Answer(req)
BY DEF Answer, Targeted, Check, Up, Put

(* A file of which a service has one more key written can be written. *)
LEMMA WriteFile ==
  ASSUME Inv, NEW s \in Services(file), NEW key \in DOMAIN Values, Write(s, key)
  PROVE  IsFile(file')
<1>1. PICK value \in Values[key] : file' = [file EXCEPT !.services[s][key] = value]
  BY DEF Write
<1> DEFINE old == file.services
           new == [file.services[s] EXCEPT ![key] = value]
<1>2. file = [name |-> file.name, options |-> file.options, services |-> [t \in Services(file) |-> old[t]]]
  BY DEF Inv, IsFile
<1>3. file' = [file EXCEPT !.services = [old EXCEPT ![s] = new]]
  BY <1>1
<1>4. /\ file'.name = file.name /\ file'.options = file.options
      /\ file'.services = [t \in Services(file) |-> IF t = s THEN new ELSE old[t]]
  BY <1>2, <1>3 DEF Services
<1>5. IsService(new)
  BY KeyWritten DEF Inv, IsFile
<1>6. Services(file') = Services(file)
  BY <1>4 DEF Services
<1>7. \A t \in Services(file') : file'.services[t] = (IF t = s THEN new ELSE old[t]) /\ IsService(file'.services[t])
  BY <1>4, <1>5, <1>6 DEF Inv, IsFile
<1>8. file' = [name |-> file'.name, options |-> file'.options, services |-> file'.services]
  BY <1>2, <1>3
<1>9. file'.services = [t \in Services(file') |-> file'.services[t]]
  BY <1>4, <1>6
<1> HIDE DEF new, old
<1> QED
  BY <1>4, <1>6, <1>7, <1>8, <1>9 DEF Inv, IsFile

(* A file with one more key at the top can be written. *)
LEMMA WriteTopFile ==
  ASSUME Inv, WriteTop
  PROVE  IsFile(file')
<1>1. /\ file = [name |-> file.name, options |-> file.options, services |-> file.services]
      /\ file.services = [t \in Services(file) |-> file.services[t]]
  BY DEF Inv, IsFile
<1>2. /\ file'.services = file.services
      /\ file' = [name |-> file'.name, options |-> file'.options, services |-> file'.services]
  BY <1>1 DEF WriteTop
<1>3. Services(file') = Services(file)
  BY <1>2 DEF Services
<1> QED
  BY <1>1, <1>2, <1>3 DEF Inv, IsFile

(* Every step keeps the invariant. *)
LEMMA NextInv == Inv /\ [Next]_vars => Inv'
<1> SUFFICES ASSUME Inv, [Next]_vars
             PROVE  Inv'
  OBVIOUS
<1>1. ASSUME NEW s \in Services(file), NEW key \in DOMAIN Values, Write(s, key)
      PROVE  Inv'
  BY <1>1, WriteFile DEF Inv, Write, Edited
<1>2. CASE WriteTop
  BY <1>2, WriteTopFile DEF Inv, WriteTop, Edited
<1>3. ASSUME NEW path \in DOMAIN Homes, HostChanges(path)
      PROVE  Inv'
  <2>1. PICK node \in Homes[path] : host' = [host EXCEPT ![path] = node]
    BY <1>3 DEF HostChanges
  <2>2. node \in Nodes
    BY HostAssumption DEF HostAssumption
  <2>3. \A q \in DOMAIN host' : host'[q] \in Nodes
    BY <2>1, <2>2 DEF Inv
  <2> QED
    BY <1>3, <2>3 DEF Inv, HostChanges, Edited
<1>4. ASSUME NEW req \in Requests, Ask(req)
      PROVE  Inv'
  <2>1. answered' = Answer(req)'
    BY <1>4, AnswerStands DEF Ask
  <2> QED
    BY <1>4, <2>1 DEF Inv, Ask
<1>5. CASE UNCHANGED vars
  <2>1. ASSUME NEW req \in Requests, answered = Answer(req)
        PROVE  answered' = Answer(req)'
    BY <1>5, <2>1, AnswerStands DEF vars
  <2> QED
    BY <1>5, <2>1 DEF Inv, vars
<1> QED
  BY <1>1, <1>2, <1>3, <1>4, <1>5 DEF Next

(* The inductive invariant holds in every state. *)
LEMMA InvHolds == Spec => []Inv
BY InitInv, NextInv, PTL DEF Spec

-----------------------------------------------------------------------------
(* What a request comes to.                                                *)

(* A request names a directory: a path of one name at least. *)
LEMMA DirectoryNamed ==
  ASSUME NEW req \in Requests
  PROVE  Directory(req) \in Seq(STRING \cup {"q"}) \ {<<>>}
<1>1. /\ req.dir \in Seq(STRING \cup {"q"})
      /\ Cwd \in Seq(STRING \cup {"q"}) \ {<<>>}
  BY AskingAssumption DEF AskingAssumption
<1>2. <<"q">> \in Seq(STRING \cup {"q"}) \ {<<>>}
  OBVIOUS
<1> QED
  BY <1>1, <1>2 DEF Directory

(* An answer that accepts is what the loader makes of the file as it is,   *)
(* for some project, in the directory of the request.                      *)
LEMMA AcceptedLoaded ==
  ASSUME Inv, Accepted
  PROVE  \E req \in Requests : \E project :
           /\ answered.up.dir = Directory(req)
           /\ answered.up.specs = LoadIn(project, file, Directory(req), host).specs
           /\ LoadIn(project, file, Directory(req), host).accepted
<1>1. PICK req \in Requests : answered = Answer(req)
  BY DEF Inv, Accepted
<1>2. Directory(req) # <<>>
  BY DirectoryNamed
<1> DEFINE dir == Directory(req)
           project == ProjectName(req, file)
           loaded == LoadIn(project, file, dir, host)
<1>3. answered.up.code = 0
  BY DEF Accepted
<1>4. Targeted(req, file)
  BY <1>1, <1>3 DEF Answer, AsksNothing
<1>5. answered.up = Up(req, file)
  BY <1>1, <1>4 DEF Answer
<1>6. Up(req, file) = Outcome(dir, loaded)
  BY <1>2 DEF Up, Put, Load
<1> HIDE DEF loaded
<1>7. loaded.accepted /\ answered.up.dir = dir /\ answered.up.specs = loaded.specs
  BY <1>3, <1>5, <1>6 DEF Outcome
<1> QED
  BY <1>7 DEF loaded

(* What an accepted file is judged by, and its specs. *)
LEMMA Judged ==
  ASSUME NEW f, NEW project, NEW dir, NEW at,
         LoadIn(project, f, dir, at).accepted
  PROVE  LET mounts == Mounts(f, project, dir, at)
             specs == [s \in Services(f) |-> ToSpec(f, s, project, mounts[s], dir, at)]
         IN  /\ LoadIn(project, f, dir, at).specs = specs
             /\ Parsed(f, dir, at) /\ Named(f, project)
             /\ \A s \in Services(f) : ServiceAccepted(f.services[s], mounts[s], at) /\ Valid(specs[s])
<1> DEFINE mounts == Mounts(f, project, dir, at)
<1> HIDE DEF mounts
<1> DEFINE specs == [s \in Services(f) |-> ToSpec(f, s, project, mounts[s], dir, at)]
           fine == /\ ValidProject(project) /\ Raw(f, project) /\ Parsed(f, dir, at) /\ Named(f, project)
                   /\ \A s \in Services(f) : ServiceAccepted(f.services[s], mounts[s], at) /\ Valid(specs[s])
<1>1. LoadIn(project, f, dir, at) = IF fine THEN [accepted |-> TRUE, specs |-> specs] ELSE Refused
  BY DEF LoadIn, Judge, mounts
<1> HIDE DEF specs, fine
<1>2. fine
  BY <1>1 DEF Refused
<1>3. LoadIn(project, f, dir, at).specs = specs
  BY <1>1, <1>2
<1> QED
  BY <1>2, <1>3 DEF mounts, specs, fine

-----------------------------------------------------------------------------
(* The parts of a spec, each beside the key it is made of.                 *)

(* The keys of a service have the values that can be written. *)
LEMMA KeysTyped ==
  ASSUME NEW svc, IsService(svc)
  PROVE  /\ svc.image \in STRING /\ svc.environment \in Optional(STRING \ {"of the file"})
         /\ svc.ports \in Seq(Ports) /\ svc.volume \in Optional(Mountings)
         /\ svc.cap \in Optional(STRING) /\ svc.restart \in Optional(Restarting)
         /\ svc.health \in Optional(Testing) /\ svc.mem_limit \in Optional(Nat)
         /\ svc.cpus \in Optional(Int) /\ svc.pids_limit \in Optional(Int)
         /\ svc.deploy \in Optional(Deploying)
BY DEF IsService, Keys

(* A limit is an amount, and without a deploy key there is none. *)
LEMMA LimitsTyped ==
  ASSUME NEW svc, IsService(svc)
  PROVE  /\ Limit(svc, "memory") \in Optional(Nat) /\ Limit(svc, "cpus") \in Optional(Int)
         /\ Limit(svc, "pids") \in Optional(Int)
BY KeysTyped DEF Limit, Deploying, Optional

(* The larger of two forms that agree is the one that is a limit. *)
LEMMA OnePicked ==
  ASSUME NEW svc, IsService(svc), NEW own \in Optional(Int), NEW key \in {"memory", "cpus", "pids"},
         Agree(svc, own, key), Or(own, 0) >= 0, Or(Limit(svc, key), 0) >= 0
  PROVE  LimitOf(svc, own, key) = Or(Pick(own, Limit(svc, key)), 0) /\ LimitOf(svc, own, key) \in Nat
<1> DEFINE limit == Limit(svc, key)
<1>1. limit \in Optional(Int)
  BY LimitsTyped, Nat \subseteq Int DEF Optional
<1>2. Or(own, 0) # 0 => limit = None \/ own = Or(limit, 0)
  BY DEF Agree, LimitsWritten, Written
<1> HIDE DEF limit
<1>3. Larger(Or(own, 0), Or(limit, 0)) = Or(Pick(own, limit), 0) /\ Larger(Or(own, 0), Or(limit, 0)) \in Nat
  BY <1>1, <1>2, NoneApart DEF Larger, Or, Pick, Optional, limit
<1> QED
  BY <1>3 DEF LimitOf, limit

(* Memory that is a whole number of KiB is written in a unit that loses    *)
(* none of it.                                                             *)
LEMMA MemoryWhole ==
  ASSUME NEW bytes \in Nat, bytes <= 0 \/ bytes % KiB = 0
  PROVE  bytes = IF Memory(bytes) = None THEN 0 ELSE Memory(bytes).n * Memory(bytes).unit
<1>1. CASE bytes = 0
  BY <1>1 DEF Memory
<1>2. CASE bytes # 0
  <2> DEFINE units == {u \in {KiB, MiB, GiB} : bytes % u = 0}
             unit == CHOOSE u \in units : \A w \in units : w <= u
  <2>1. KiB \in units
    BY <1>2
  <2>2. units \subseteq {KiB, MiB, GiB} /\ KiB < MiB /\ MiB < GiB /\ KiB \in Nat /\ MiB \in Nat /\ GiB \in Nat
    BY DEF KiB, MiB, GiB
  <2>3. \E u \in units : \A w \in units : w <= u
    <3>1. CASE GiB \in units
      BY <2>2, <3>1
    <3>2. CASE GiB \notin units /\ MiB \in units
      BY <2>2, <3>2
    <3>3. CASE GiB \notin units /\ MiB \notin units
      BY <2>1, <2>2, <3>3
    <3> QED
      BY <3>1, <3>2, <3>3
  <2> HIDE DEF units
  <2>4. unit \in units
    BY <2>3
  <2> HIDE DEF unit
  <2>5. unit \in {KiB, MiB, GiB} /\ bytes % unit = 0
    BY <2>4 DEF units
  <2>6. bytes = (bytes \div unit) * unit /\ bytes \div unit \in Int
    <3>1. CASE unit = KiB
      BY <2>5, <3>1 DEF KiB
    <3>2. CASE unit = MiB
      BY <2>5, <3>2 DEF MiB
    <3>3. CASE unit = GiB
      BY <2>5, <3>3 DEF GiB
    <3> QED
      BY <2>5, <3>1, <3>2, <3>3
  <2>7. Memory(bytes) = [n |-> bytes \div unit, unit |-> unit]
    BY <1>2 DEF Memory, unit, units
  <2>8. Memory(bytes) \in Amounts
    BY <2>5, <2>6, <2>7 DEF Amounts
  <2> QED
    BY <2>6, <2>7, <2>8, NoneApart
<1> QED
  BY <1>1, <1>2

(* Cpus of three decimals are written as they are. *)
LEMMA CpuWhole ==
  ASSUME NEW cpus \in Nat, cpus % 10 = 0
  PROVE  Or(Cpu(cpus), 0) * 10 = cpus
<1>1. (cpus + 5) \div 10 \in Int /\ ((cpus + 5) \div 10) * 10 = cpus
  OBVIOUS
<1> QED
  BY <1>1, NoneApart DEF Cpu, Or

(* Pids that are a limit are written as they are. *)
LEMMA PidsWhole ==
  ASSUME NEW svc, IsService(svc), Agree(svc, svc.pids_limit, "pids"), Pids(svc) >= 0,
         Or(Limit(svc, "pids"), 0) >= 0
  PROVE  Pids(svc) = Or(Pick(svc.pids_limit, Limit(svc, "pids")), 0) /\ Pids(svc) \in Int
<1> DEFINE own == svc.pids_limit
           limit == Limit(svc, "pids")
<1>1. own \in Optional(Int) /\ limit \in Optional(Int)
  BY KeysTyped, LimitsTyped
<1>2. CASE LimitsWritten(svc)
  <2>1. Or(own, 0) # 0 => own = Or(limit, 0)
    BY <1>2 DEF Agree
  <2> HIDE DEF own, limit
  <2>2. Or(limit, 0) >= 0 =>
          /\ Larger(Or(own, 0), Or(limit, 0)) = Or(Pick(own, limit), 0)
          /\ Larger(Or(own, 0), Or(limit, 0)) \in Int
    BY <1>1, <2>1, NoneApart DEF Larger, Or, Pick, Optional
  <2> QED
    BY <1>2, <2>2 DEF Pids, LimitOf, own, limit
<1>3. CASE ~ LimitsWritten(svc)
  <2>1. limit = None
    BY <1>3 DEF LimitsWritten, Written
  <2> HIDE DEF own, limit
  <2>2. Or(own, 0) = Or(Pick(own, limit), 0) /\ Or(own, 0) \in Int
    BY <1>1, <2>1, NoneApart DEF Or, Pick, Optional
  <2> QED
    BY <1>3, <2>2 DEF Pids, own, limit
<1> QED
  BY <1>2, <1>3

(* A health check of which the interval, the timeout and the grace period  *)
(* are whole seconds has them as written, and the defaults of the rest.    *)
LEMMA CheckWhole ==
  ASSUME NEW h \in Testing, HasCheck(h), HealthAccepted(h), Or(h.retries, 0) <= 1000
  PROVE  LET made == Timed(Health(h))
         IN  /\ Health(h) \in Checks /\ made \in Checks /\ made.command = h.test
             /\ made.interval * 2 = Or(h.interval, 60) /\ made.timeout * 2 = Or(h.timeout, 20)
             /\ made.period * 2 = Or(h.start_period, 0) /\ made.retries = Or(h.retries, 3)
<1> DEFINE made == Timed(Health(h))
           i == Or(h.interval, 0)
           t == Or(h.timeout, 0)
           p == Or(h.start_period, 0)
           r == Or(h.retries, 0)
<1>1. /\ i \in Nat /\ i % 2 = 0 /\ t \in Nat /\ t % 2 = 0 /\ p \in Nat /\ p % 2 = 0 /\ r \in Nat
      /\ i = 0 => h.interval = None
      /\ t = 0 => h.timeout = None
      /\ r = 0 => h.retries = None
  BY NoneApart DEF HealthAccepted, WholeSeconds, Or, Testing, Optional
<1>2. h.test \in STRING
  BY DEF HasCheck, Testing, Optional
<1>3. /\ i \div 2 \in Nat /\ (i \div 2) * 2 = i /\ (i \div 2 = 0 <=> i = 0)
      /\ t \div 2 \in Nat /\ (t \div 2) * 2 = t /\ (t \div 2 = 0 <=> t = 0)
      /\ p \div 2 \in Nat /\ (p \div 2) * 2 = p
  <2> HIDE DEF i, t, p, r
  <2> QED
    BY <1>1
<1>4. Health(h) = [command |-> h.test, interval |-> i \div 2, timeout |-> t \div 2, period |-> p \div 2, retries |-> r]
  BY <1>1 DEF Health
<1>5. /\ Or(h.interval, 60) = IF i = 0 THEN 60 ELSE i
      /\ Or(h.timeout, 20) = IF t = 0 THEN 20 ELSE t
      /\ Or(h.retries, 3) = IF r = 0 THEN 3 ELSE r
  BY <1>1, NoneApart DEF Or
<1> HIDE DEF i, t, p, r
<1>6. Health(h) \in Checks
  BY <1>1, <1>2, <1>3, <1>4 DEF Checks
<1>7. made = [command |-> h.test, interval |-> Default(i \div 2, 30), timeout |-> Default(t \div 2, 10),
              period |-> p \div 2, retries |-> Default(r, 3)]
  BY <1>4 DEF Timed
<1>8. /\ Default(i \div 2, 30) \in Nat /\ Default(i \div 2, 30) * 2 = Or(h.interval, 60)
      /\ Default(t \div 2, 10) \in Nat /\ Default(t \div 2, 10) * 2 = Or(h.timeout, 20)
      /\ Default(r, 3) \in Nat /\ Default(r, 3) = Or(h.retries, 3)
  BY <1>1, <1>3, <1>5 DEF Default
<1> HIDE DEF made
<1>9. made \in Checks
  BY <1>2, <1>3, <1>7, <1>8 DEF Checks
<1>10. /\ made.interval * 2 = Or(h.interval, 60) /\ made.timeout * 2 = Or(h.timeout, 20)
       /\ made.period * 2 = p /\ made.retries = Or(h.retries, 3)
       /\ made.command = h.test
  BY <1>3, <1>7, <1>8
<1> QED
  BY <1>6, <1>9, <1>10 DEF made, p

(* The ports are published as they are written. *)
LEMMA PortsWhole ==
  ASSUME NEW ports \in Seq(Ports), \A i \in DOMAIN ports : PortAccepted(ports[i])
  PROVE  LET publish == [i \in DOMAIN ports |->
                           [host |-> ports[i].host, target |-> ports[i].target, udp |-> ports[i].udp]]
         IN  {<<Or(p.host, 0), p.target, p.udp, p.form>> : p \in ToSet(ports)}
               = {<<p.host, p.target, p.udp, "plain">> : p \in ToSet(publish)}
<1> DEFINE publish == [i \in DOMAIN ports |->
                         [host |-> ports[i].host, target |-> ports[i].target, udp |-> ports[i].udp]]
           asked(p) == <<Or(p.host, 0), p.target, p.udp, p.form>>
           becomes(p) == <<p.host, p.target, p.udp, "plain">>
<1>1. \A i \in DOMAIN ports : asked(ports[i]) = becomes(publish[i])
  <2> SUFFICES ASSUME NEW i \in DOMAIN ports
               PROVE  asked(ports[i]) = becomes(publish[i])
    OBVIOUS
  <2> DEFINE port == ports[i]
  <2>1. PortAccepted(port)
    OBVIOUS
  <2> HIDE DEF port
  <2>3. port.form = "plain" /\ port.host # None
    BY <2>1, SMT DEF PortAccepted, Written
  <2>4. Or(port.host, 0) = port.host
    BY <2>3, Zenon DEF Or
  <2>2. publish[i] = [host |-> ports[i].host, target |-> ports[i].target, udp |-> ports[i].udp]
    OBVIOUS
  <2> HIDE DEF publish
  <2> QED
    BY <2>2, <2>3, <2>4 DEF port
<1>2. ToSet(ports) = {ports[i] : i \in DOMAIN ports} /\ ToSet(publish) = {publish[i] : i \in DOMAIN ports}
  BY DEF ToSet
<1> HIDE DEF publish, asked, becomes
<1>3. {asked(p) : p \in ToSet(ports)} = {becomes(p) : p \in ToSet(publish)}
  BY <1>1, <1>2
<1> QED
  BY <1>3 DEF publish, asked, becomes

(* The environment, without what is read of a file. *)
LEMMA EnvironmentWhole ==
  ASSUME NEW written \in Optional(STRING \ {"of the file"}), NEW read
  PROVE  LET env == (IF Written(written) THEN {written} ELSE {}) \cup (IF read THEN {"of the file"} ELSE {})
             rest == env \ {"of the file"}
         IN  written = IF rest = {} THEN None ELSE CHOOSE e \in rest : TRUE
<1> DEFINE env == (IF Written(written) THEN {written} ELSE {}) \cup (IF read THEN {"of the file"} ELSE {})
           rest == env \ {"of the file"}
<1>1. None # "of the file" /\ written # "of the file"
  BY NoneAssumption DEF NoneAssumption, Optional
<1>2. rest = IF written = None THEN {} ELSE {written}
  BY <1>1 DEF Written
<1> HIDE DEF rest
<1> QED
  BY <1>2 DEF rest

(* The mounts that are not refused are of the volume as it is written, but *)
(* for the options that are let through.                                   *)
LEMMA VolumesWhole ==
  ASSUME NEW v \in Optional(Mountings), NEW project, NEW dir, NEW at,
         v # None /\ v.option # None => v.type = "volume" /\ v.option = "nocopy",
         \A m \in {Volume(u, project, dir, at) : u \in {v} \ {None}} : ~ m.error
  PROVE  LET mounts == {Volume(u, project, dir, at) : u \in {v} \ {None}}
             volumes == {[host |-> m.host, ro |-> m.ro, make |-> m.make] : m \in mounts}
         IN  {[option |-> u.option, ro |-> u.ro] : u \in {v} \ {None}}
               = {[option |-> None, ro |-> m.ro] : m \in volumes}
<1> DEFINE mount == Volume(v, project, dir, at)
           mounts == {Volume(u, project, dir, at) : u \in {v} \ {None}}
           volumes == {[host |-> m.host, ro |-> m.ro, make |-> m.make] : m \in mounts}
<1>1. CASE v = None
  BY <1>1
<1>2. CASE v # None
  <2>1. ~ mount.error
    BY <1>2
  <2>2. mount.ro = v.ro /\ v.option = None
    <3>1. CASE v.type = "bind"
      BY <1>2, <2>1, <3>1 DEF Volume, Bind
    <3>2. CASE v.type = "volume"
      BY <1>2, <2>1, <3>2 DEF Volume
    <3>3. CASE v.type \notin {"bind", "volume"}
      BY <1>2, <2>1, <3>3 DEF Volume
    <3> QED
      BY <3>1, <3>2, <3>3
  <2>3. mounts = {mount}
    BY <1>2
  <2> HIDE DEF mount, mounts
  <2>4. volumes = {[host |-> mount.host, ro |-> mount.ro, make |-> mount.make]}
    BY <2>3
  <2> HIDE DEF volumes
  <2>5. {[option |-> None, ro |-> m.ro] : m \in volumes} = {[option |-> None, ro |-> mount.ro]}
    BY <2>4
  <2> QED
    BY <1>2, <2>2, <2>5 DEF mounts, mount, volumes
<1> QED
  BY <1>1, <1>2

(* A capability stays one, and ALL stays ALL. *)
LEMMA CapabilityWhole ==
  ASSUME NEW cap \in Optional(STRING)
  PROVE  /\ (cap \notin {None}) = (CapabilityOf(cap) # None)
         /\ (cap \in {"ALL", "all"}) = (CapabilityOf(cap) = "ALL")
<1>1. None # "ALL" /\ None # "CAP_NET_ADMIN"
  BY NoneAssumption DEF NoneAssumption
<1> DEFINE becomes == CapabilityOf(cap)
<1>2. CASE cap = "net_admin"
  <2>1. becomes = "CAP_NET_ADMIN" /\ cap # None
    BY <1>2, NoneAssumption DEF NoneAssumption, CapabilityOf
  <2> QED
    BY <1>1, <1>2, <2>1
<1>3. CASE cap = "all"
  <2>1. becomes = "ALL" /\ cap # None
    BY <1>3, NoneAssumption DEF NoneAssumption, CapabilityOf
  <2> QED
    BY <1>1, <1>3, <2>1
<1>4. CASE cap \notin {"net_admin", "all"}
  <2>1. becomes = cap
    BY <1>4 DEF CapabilityOf
  <2> QED
    BY <1>4, <2>1
<1> QED
  BY <1>2, <1>3, <1>4

(* The name of a container of the file is of one service. *)
LEMMA NameFound ==
  ASSUME NEW f, NEW project, Named(f, project), NEW on \in Services(f)
  PROVE  (CHOOSE s \in Services(f) : NameOf(f, project, s) = NameOf(f, project, on)) = on
BY DEF Named

(* The dependencies are those that are written. *)
LEMMA DependenciesWhole ==
  ASSUME NEW f, NEW project, Named(f, project), NEW d, d # None => d.on \in Services(f)
  PROVE  LET deps == IF d = None THEN {}
                     ELSE {[name  |-> NameOf(f, project, d.on),
                            ready |-> IF d.condition = "healthy" THEN "healthy" ELSE "running"]}
         IN  (IF d = None THEN {} ELSE {<<d.on, d.condition = "healthy">>})
               = {<<CHOOSE s \in Services(f) : NameOf(f, project, s) = e.name, e.ready = "healthy">> : e \in deps}
<1>1. CASE d = None
  BY <1>1
<1>2. CASE d # None
  <2> DEFINE name == NameOf(f, project, d.on)
             ready == IF d.condition = "healthy" THEN "healthy" ELSE "running"
             dep == [name |-> name, ready |-> ready]
             of(e) == CHOOSE s \in Services(f) : NameOf(f, project, s) = e.name
  <2>1. of(dep) = d.on
    BY <1>2, NameFound
  <2>2. (ready = "healthy") = (d.condition = "healthy")
    OBVIOUS
  <2>3. dep.ready = ready
    OBVIOUS
  <2> HIDE DEF dep, of, ready
  <2>4. {<<of(e), e.ready = "healthy">> : e \in {dep}} = {<<of(dep), dep.ready = "healthy">>}
    BY Zenon
  <2>5. {<<of(dep), dep.ready = "healthy">>} = {<<d.on, d.condition = "healthy">>}
    BY <2>1, <2>2, <2>3, Zenon
  <2> QED
    BY <1>2, <2>4, <2>5, Zenon DEF dep, of, ready
<1> QED
  BY <1>1, <1>2

(* What a container becomes is a record of these fields.                   *)
LEMMA BecomesWhole ==
  ASSUME NEW spec, NEW f, NEW b, b = Becomes(spec, f)
  PROVE  b = [ entrypoint |-> b.entrypoint, user |-> b.user, image |-> b.image, replicas |-> b.replicas,
               environment |-> b.environment, ports |-> b.ports, volumes |-> b.volumes,
               device |-> b.device, cap |-> b.cap, all |-> b.all, restart |-> b.restart,
               after |-> b.after, check |-> b.check, memory |-> b.memory, cpus |-> b.cpus,
               pids |-> b.pids, network |-> b.network ]
BY DEF Becomes

(* Those of them that are copied from the spec.                            *)
LEMMA BecomesCopies ==
  ASSUME NEW spec, NEW f, NEW b, b = Becomes(spec, f)
  PROVE  /\ b.entrypoint = Normalized(spec).entrypoint /\ b.user = Normalized(spec).user
         /\ b.image = Normalized(spec).image /\ b.device = Normalized(spec).device
BY DEF Becomes

(* What the spec has of them, from the service it is made of.              *)
LEMMA ToSpecCopies ==
  ASSUME NEW f, NEW s, NEW project, NEW mounts, NEW dir, NEW at, NEW nm,
         nm = Normalized(ToSpec(f, s, project, mounts, dir, at))
  PROVE  LET svc == f.services[s]
         IN  /\ nm.image = svc.image /\ nm.user = svc.user
             /\ nm.entrypoint = IF svc.entrypoint = "empty" THEN None ELSE svc.entrypoint
             /\ nm.device = IF svc.device = None THEN None
                            ELSE [path |-> svc.device.path,
                                  permissions |-> Or(svc.device.permissions, "rwm")]
<1>1. nm.image = f.services[s].image
  BY DEF Normalized, ToSpec
<1>2. nm.user = f.services[s].user
  BY DEF Normalized, ToSpec
<1>3. nm.entrypoint = IF f.services[s].entrypoint = "empty" THEN None ELSE f.services[s].entrypoint
  BY DEF Normalized, ToSpec
<1>4. nm.device = IF f.services[s].device = None THEN None
                  ELSE [path |-> f.services[s].device.path,
                        permissions |-> Or(f.services[s].device.permissions, "rwm")]
  BY DEF Normalized, ToSpec
<1> QED BY <1>1, <1>2, <1>3, <1>4

(* A service that was accepted becomes what is written, but for what is    *)
(* let through.                                                            *)
LEMMA AsWritten ==
  ASSUME NEW f, IsFile(f), NEW project, NEW dir, NEW at,
         LoadIn(project, f, dir, at).accepted,
         NEW s \in Services(f), ~ LetThrough(f.services[s])
  PROVE  Asked(f.services[s]) = Becomes(LoadIn(project, f, dir, at).specs[s], f)
<1> DEFINE svc == f.services[s]
           mounts == {Volume(v, project, dir, at) : v \in {svc.volume} \ {None}}
           sp == ToSpec(f, s, project, mounts, dir, at)
           nm == Normalized(sp)
<1>1. IsService(svc)
  BY DEF IsFile
<1>2. Mounts(f, project, dir, at)[s] = mounts
  BY DEF Mounts
<1>3. /\ LoadIn(project, f, dir, at).specs[s] = sp
      /\ Parsed(f, dir, at) /\ Named(f, project)
      /\ ServiceAccepted(svc, mounts, at) /\ Valid(sp)
  <2> DEFINE every == Mounts(f, project, dir, at)
             specs == [t \in Services(f) |-> ToSpec(f, t, project, every[t], dir, at)]
  <2>1. /\ LoadIn(project, f, dir, at).specs = specs
        /\ Parsed(f, dir, at) /\ Named(f, project)
        /\ \A t \in Services(f) : ServiceAccepted(f.services[t], every[t], at) /\ Valid(specs[t])
    BY Judged
  <2>2. specs[s] = sp
    BY <1>2
  <2> HIDE DEF specs, sp, mounts
  <2> QED
    BY <1>2, <2>1, <2>2
<1> DEFINE a == Asked(svc)
           b == Becomes(sp, f)
<1> HIDE DEF mounts, sp, nm, a, b
<1>22. b.entrypoint = nm.entrypoint /\ b.user = nm.user /\ b.image = nm.image /\ b.device = nm.device
  BY BecomesCopies DEF b, nm
<1>23. /\ nm.image = svc.image /\ nm.user = svc.user
       /\ nm.entrypoint = IF svc.entrypoint = "empty" THEN None ELSE svc.entrypoint
       /\ nm.device = IF svc.device = None THEN None
                      ELSE [path |-> svc.device.path,
                            permissions |-> Or(svc.device.permissions, "rwm")]
  <2>1. nm = Normalized(ToSpec(f, s, project, mounts, dir, at))
    BY DEF nm, sp
  <2> QED
    BY <2>1, ToSpecCopies
<1>4. a.entrypoint = b.entrypoint
  <2>1. a.entrypoint = svc.entrypoint
    BY DEF a, Asked
  <2> QED
    BY <1>22, <1>23, <2>1 DEF LetThrough
<1>5. /\ a.user = b.user /\ a.image = b.image
  <2>1. a.user = svc.user /\ a.image = svc.image
    BY DEF a, Asked
  <2> QED
    BY <1>22, <1>23, <2>1
<1>6. a.replicas = b.replicas
  BY <1>3 DEF a, Asked, b, Becomes, ServiceAccepted
<1>7. a.environment = b.environment
  <2> DEFINE env == (IF Written(svc.environment) THEN {svc.environment} ELSE {})
                      \cup (IF ReadEnvFile(svc, dir, at) THEN {"of the file"} ELSE {})
             rest == env \ {"of the file"}
             left == IF rest = {} THEN None ELSE CHOOSE e \in rest : TRUE
  <2>1. svc.environment \in Optional(STRING \ {"of the file"})
    BY <1>1, KeysTyped
  <2>2. \A read : LET was == ((IF Written(svc.environment) THEN {svc.environment} ELSE {})
                               \cup (IF read THEN {"of the file"} ELSE {})) \ {"of the file"}
                  IN  svc.environment = IF was = {} THEN None ELSE CHOOSE e \in was : TRUE
    BY <2>1, EnvironmentWhole
  <2>3. svc.environment = left
    BY <2>2
  <2> HIDE DEF env
  <2>4. nm.environment = env
    BY DEF nm, Normalized, sp, ToSpec, env
  <2>5. a.environment = svc.environment /\ b.environment = left
    BY <2>4 DEF a, Asked, b, Becomes, nm
  <2> QED
    BY <2>3, <2>5
<1>8. a.ports = b.ports
  <2> DEFINE publish == [i \in DOMAIN svc.ports |->
                          [host |-> svc.ports[i].host, target |-> svc.ports[i].target, udp |-> svc.ports[i].udp]]
             asked == {<<Or(p.host, 0), p.target, p.udp, p.form>> : p \in ToSet(svc.ports)}
  <2>1. svc.ports \in Seq(Ports) /\ \A i \in DOMAIN svc.ports : PortAccepted(svc.ports[i])
    BY <1>1, <1>3, KeysTyped DEF ServiceAccepted
  <2>2. asked = {<<p.host, p.target, p.udp, "plain">> : p \in ToSet(publish)}
    BY <2>1, PortsWhole
  <2> HIDE DEF publish, asked
  <2>3. nm.publish = publish
    BY DEF nm, Normalized, sp, ToSpec, publish
  <2>4. a.ports = asked
    BY DEF a, Asked, asked
  <2>5. b.ports = {<<p.host, p.target, p.udp, "plain">> : p \in ToSet(publish)}
    BY <2>3 DEF b, Becomes, nm
  <2> QED
    BY <2>2, <2>4, <2>5
<1>9. a.volumes = b.volumes
  <2> DEFINE volumes == {[host |-> m.host, ro |-> m.ro, make |-> m.make] : m \in mounts}
             asked == {[option |-> v.option, ro |-> v.ro] : v \in {svc.volume} \ {None}}
  <2>1. svc.volume \in Optional(Mountings) /\ \A m \in mounts : ~ m.error
    BY <1>1, <1>3, KeysTyped DEF ServiceAccepted
  <2>2. svc.volume # None /\ svc.volume.option # None
          => svc.volume.type = "volume" /\ svc.volume.option = "nocopy"
    BY DEF LetThrough
  <2>3. asked = {[option |-> None, ro |-> m.ro] : m \in volumes}
    BY <2>1, <2>2, VolumesWhole DEF mounts
  <2> HIDE DEF volumes, asked
  <2>4. nm.volumes = volumes
    BY DEF nm, Normalized, sp, ToSpec, volumes
  <2>5. a.volumes = asked
    BY DEF a, Asked, asked
  <2>6. b.volumes = {[option |-> None, ro |-> m.ro] : m \in volumes}
    BY <2>4 DEF b, Becomes, nm
  <2> QED
    BY <2>3, <2>5, <2>6
<1>10. a.device = b.device
  <2>1. a.device = IF svc.device = None THEN None
                   ELSE [path |-> svc.device.path,
                         permissions |-> Or(svc.device.permissions, "rwm")]
    BY DEF a, Asked
  <2> QED
    BY <1>22, <1>23, <2>1
<1>11. a.cap = b.cap /\ a.all = b.all
  <2>1. svc.cap \in Optional(STRING)
    BY <1>1, KeysTyped
  <2>2. nm.cap = CapabilityOf(svc.cap)
    BY DEF nm, Normalized, sp, ToSpec
  <2>3. a.cap = (svc.cap \notin {None}) /\ a.all = (svc.cap \in {"ALL", "all"})
    BY DEF a, Asked
  <2>4. b.cap = (nm.cap # None) /\ b.all = (nm.cap = "ALL")
    BY DEF b, Becomes, nm
  <2> QED
    BY <2>1, <2>2, <2>3, <2>4, CapabilityWhole, Zenon
<1>12. a.restart = b.restart
  <2>1. nm.policy = Policy(svc.restart) /\ nm.max = IF svc.restart = None THEN 0 ELSE Or(svc.restart.max, 0)
    BY DEF nm, Normalized, sp, ToSpec
  <2>2. b.restart = <<nm.policy, nm.max>>
    BY DEF b, Becomes, nm
  <2>3. CASE svc.restart = None
    BY <2>1, <2>2, <2>3 DEF a, Asked, Policy
  <2>4. CASE svc.restart # None
    BY <2>1, <2>2, <2>4 DEF a, Asked, Policy
  <2> QED
    BY <2>3, <2>4
<1>13. a.after = b.after
  <2> DEFINE d == svc.depends_on
             deps == IF d = None THEN {}
                     ELSE {[name  |-> NameOf(f, project, d.on),
                            ready |-> IF d.condition = "healthy" THEN "healthy" ELSE "running"]}
             asked == IF d = None THEN {} ELSE {<<d.on, d.condition = "healthy">>}
             found(e) == CHOOSE t \in Services(f) : NameOf(f, project, t) = e.name
  <2>1. d # None => d.on \in Services(f)
    BY <1>3 DEF Parsed
  <2>2. asked = {<<found(e), e.ready = "healthy">> : e \in deps}
    BY <1>3, <2>1, DependenciesWhole
  <2> HIDE DEF deps, asked
  <2>3. nm.deps = deps /\ nm.project = project
    BY DEF nm, Normalized, sp, ToSpec, deps
  <2>4. a.after = asked
    BY DEF a, Asked, asked
  <2>5. b.after = {<<found(e), e.ready = "healthy">> : e \in deps}
    BY <2>3 DEF b, Becomes, nm
  <2> QED
    BY <2>2, <2>4, <2>5
<1>14. a.check = b.check
  <2> DEFINE h == svc.health
  <2>1. h \in Optional(Testing) /\ (HasCheck(h) => HealthAccepted(h))
    BY <1>1, <1>3, KeysTyped DEF ServiceAccepted
  <2>2. h # None => h.test # None /\ ~ (Or(h.retries, 0) > 1000)
    BY DEF LetThrough
  <2> HIDE DEF h
  <2>3. CASE ~ HasCheck(h)
    <3>1. nm.health = None
      BY <2>3 DEF nm, Normalized, sp, ToSpec, Health, h
    <3>2. h = None \/ h.disable \/ h.test = "NONE"
      BY <2>2, <2>3 DEF HasCheck
    <3> QED
      BY <3>1, <3>2 DEF a, Asked, b, Becomes, nm, h
  <2>4. CASE HasCheck(h)
    <3> DEFINE made == Timed(Health(h))
    <3>1. h \in Testing /\ h # None /\ ~ h.disable /\ h.test # "NONE" /\ Or(h.retries, 0) <= 1000
      BY <2>1, <2>2, <2>4, NoneApart DEF HasCheck, Optional, Testing, Or
    <3>2. /\ Health(h) \in Checks /\ made \in Checks /\ made.command = h.test
          /\ made.interval * 2 = Or(h.interval, 60) /\ made.timeout * 2 = Or(h.timeout, 20)
          /\ made.period * 2 = Or(h.start_period, 0) /\ made.retries = Or(h.retries, 3)
      BY <2>1, <2>4, <3>1, CheckWhole
    <3> HIDE DEF made
    <3>3. nm.health = made /\ made # None
      BY <3>2, NoneApart DEF nm, Normalized, sp, ToSpec, made, h
    <3> QED
      BY <3>1, <3>2, <3>3 DEF a, Asked, b, Becomes, nm, h
  <2> QED
    BY <2>3, <2>4
<1>15. a.memory = b.memory
  <2> DEFINE bytes == LimitOf(svc, svc.mem_limit, "memory")
  <2>1. /\ Agree(svc, svc.mem_limit, "memory")
        /\ svc.mem_limit \in Optional(Nat) /\ Limit(svc, "memory") \in Optional(Nat)
    BY <1>1, <1>3, KeysTyped, LimitsTyped DEF Parsed
  <2>2. /\ svc.mem_limit \in Optional(Int)
        /\ Or(svc.mem_limit, 0) >= 0 /\ Or(Limit(svc, "memory"), 0) >= 0
    BY <2>1 DEF Optional, Or
  <2>3. bytes = Or(Pick(svc.mem_limit, Limit(svc, "memory")), 0) /\ bytes \in Nat
    BY <1>1, <2>1, <2>2, OnePicked
  <2>4. bytes <= 0 \/ bytes % KiB = 0
    BY <1>3 DEF ServiceAccepted
  <2> HIDE DEF bytes
  <2>5. bytes = IF Memory(bytes) = None THEN 0 ELSE Memory(bytes).n * Memory(bytes).unit
    BY <2>3, <2>4, MemoryWhole
  <2>6. nm.memory = Memory(bytes)
    BY DEF nm, Normalized, sp, ToSpec, bytes
  <2>7. b.memory = IF Memory(bytes) = None THEN 0 ELSE Memory(bytes).n * Memory(bytes).unit
    BY <2>6 DEF b, Becomes, nm
  <2>8. a.memory = bytes
    BY <2>3 DEF a, Asked
  <2> QED
    BY <2>5, <2>7, <2>8
<1>16. a.cpus = b.cpus
  <2> DEFINE cpus == LimitOf(svc, svc.cpus, "cpus")
  <2>1. Agree(svc, svc.cpus, "cpus") /\ svc.cpus \in Optional(Int) /\ Limit(svc, "cpus") \in Optional(Int)
    BY <1>1, <1>3, KeysTyped, LimitsTyped DEF Parsed
  <2>2. ~ (Or(svc.cpus, 0) < 0) /\ ~ (Or(Limit(svc, "cpus"), 0) < 0) /\ cpus % 10 = 0
    BY DEF LetThrough
  <2>3. Or(svc.cpus, 0) >= 0 /\ Or(Limit(svc, "cpus"), 0) >= 0
    BY <2>1, <2>2, NoneApart DEF Optional, Or
  <2>4. cpus = Or(Pick(svc.cpus, Limit(svc, "cpus")), 0) /\ cpus \in Nat
    BY <1>1, <2>1, <2>3, OnePicked
  <2> HIDE DEF cpus
  <2>5. Or(Cpu(cpus), 0) * 10 = cpus
    BY <2>2, <2>4, CpuWhole
  <2>6. nm.cpu = Cpu(cpus)
    BY DEF nm, Normalized, sp, ToSpec, cpus
  <2>7. b.cpus = Or(Cpu(cpus), 0) * 10
    BY <2>6 DEF b, Becomes, nm
  <2>8. a.cpus = cpus
    BY <2>4 DEF a, Asked
  <2> QED
    BY <2>5, <2>7, <2>8
<1>17. a.pids = b.pids
  <2> DEFINE pids == Pids(svc)
  <2>1. Agree(svc, svc.pids_limit, "pids") /\ pids >= 0 /\ Limit(svc, "pids") \in Optional(Int)
    BY <1>1, <1>3, LimitsTyped DEF Parsed, ServiceAccepted
  <2>2. ~ (Or(Limit(svc, "pids"), 0) < 0)
    BY DEF LetThrough
  <2>3. Or(Limit(svc, "pids"), 0) >= 0
    BY <2>1, <2>2, NoneApart DEF Optional, Or
  <2>4. pids = Or(Pick(svc.pids_limit, Limit(svc, "pids")), 0) /\ pids \in Int
    BY <1>1, <2>1, <2>3, PidsWhole
  <2> HIDE DEF pids
  <2>5. nm.pids = IF pids < 0 THEN 0 ELSE pids
    BY DEF nm, Normalized, sp, ToSpec, pids
  <2>6. nm.pids = pids
    BY <2>1, <2>4, <2>5
  <2>7. b.pids = nm.pids
    BY DEF b, Becomes, nm
  <2>8. a.pids = pids
    BY <2>4 DEF a, Asked
  <2> QED
    BY <2>6, <2>7, <2>8
<1>18. a.network = b.network
  <2>1. nm.networks = (IF Written(svc.network_mode) THEN {} ELSE {NetworkName(project)}) /\ nm.mode = svc.network_mode
    BY DEF nm, Normalized, sp, ToSpec
  <2>2. b.network = IF nm.networks = {} THEN nm.mode ELSE None
    BY DEF b, Becomes, nm
  <2>3. a.network = svc.network_mode
    BY DEF a, Asked
  <2> QED
    BY <2>1, <2>2, <2>3 DEF Written
<1>19. a = [ entrypoint |-> a.entrypoint, user |-> a.user, image |-> a.image, replicas |-> a.replicas,
             environment |-> a.environment, ports |-> a.ports, volumes |-> a.volumes,
             device |-> a.device, cap |-> a.cap, all |-> a.all, restart |-> a.restart,
             after |-> a.after, check |-> a.check, memory |-> a.memory, cpus |-> a.cpus,
             pids |-> a.pids, network |-> a.network ]
  BY DEF a, Asked
<1>20. b = [ entrypoint |-> b.entrypoint, user |-> b.user, image |-> b.image, replicas |-> b.replicas,
             environment |-> b.environment, ports |-> b.ports, volumes |-> b.volumes,
             device |-> b.device, cap |-> b.cap, all |-> b.all, restart |-> b.restart,
             after |-> b.after, check |-> b.check, memory |-> b.memory, cpus |-> b.cpus,
             pids |-> b.pids, network |-> b.network ]
  BY BecomesWhole DEF b
<1>21. a = b
  BY <1>4, <1>5, <1>6, <1>7, <1>8, <1>9, <1>10, <1>11, <1>12, <1>13, <1>14, <1>15, <1>16, <1>17,
     <1>18, <1>19, <1>20
<1> QED
  BY <1>3, <1>21 DEF a, b

-----------------------------------------------------------------------------
(* Following a path, one name after the other.                             *)

(* A set of natural numbers has a least one.                               *)
LEMMA Least ==
  ASSUME NEW T \in SUBSET Nat, T # {}
  PROVE  \E x \in T : \A y \in T : x <= y
<1> DEFINE R == OpToRel(<, Nat)
<1>1. IsWellFoundedOn(R, Nat)
  BY NatLessThanWellFounded
<1>2. \A x, y \in Nat : x < y => <<x, y>> \in R
  BY Zenon DEF OpToRel
<1> HIDE DEF R
<1>3. PICK x \in T : \A y \in T : ~ (<<y, x>> \in R)
  BY <1>1, WFMin, Zenon
<1>4. ASSUME NEW y \in T PROVE x <= y
  <2>1. ~ (y < x)
    BY <1>2, <1>3
  <2> QED BY <2>1
<1> QED BY <1>4

(* What holds of 0, and of a number more than any it holds of, holds of    *)
(* all natural numbers.                                                    *)
LEMMA Ascends ==
  ASSUME NEW S, 0 \in S, \A k \in Nat : k \in S => k + 1 \in S
  PROVE  \A k \in Nat : k \in S
<1> SUFFICES ASSUME Nat \ S # {} PROVE FALSE
  OBVIOUS
<1>1. PICK x \in Nat \ S : \A y \in Nat \ S : x <= y
  <2>1. Nat \ S \in SUBSET Nat
    OBVIOUS
  <2> QED BY <2>1, Least
<1>2. x \in Nat /\ x # 0 /\ x - 1 \in Nat /\ ~ (x <= x - 1)
  OBVIOUS
<1>3. x - 1 \in S
  BY <1>1, <1>2
<1>4. (x - 1) + 1 = x
  BY <1>2
<1>5. x \in S
  BY <1>2, <1>3, <1>4
<1> QED
  BY <1>5

(* F applies next again and again, from start. *)
Iterated(f, W, start, next) ==
  f \in [Nat -> W] /\ f[0] = start /\ \A k \in Nat : f[k + 1] = next[f[k]]

(* A function on a set can be applied again and again.                     *)
LEMMA Iterates ==
  ASSUME NEW W, NEW start \in W, NEW next \in [W -> W]
  PROVE  \E f : Iterated(f, W, start, next)
<1> DEFINE Runs(n) == { f \in [0 .. n -> W] :
                          f[0] = start /\ \A k \in 0 .. n - 1 : f[k + 1] = next[f[k]] }
           Longest == {n \in Nat : Runs(n) # {}}
           Alike == { k \in Nat : \A n, m \in Nat : k <= n /\ k <= m =>
                        \A f \in Runs(n), g \in Runs(m) : f[k] = g[k] }
<1>1. \A n \in Nat : n \in Longest
  <2>1. 0 \in Longest
    <3>1. [k \in 0 .. 0 |-> start] \in Runs(0)
      OBVIOUS
    <3> QED BY <3>1
  <2>2. ASSUME NEW n \in Nat, n \in Longest PROVE n + 1 \in Longest
    <3>1. PICK f \in Runs(n) : TRUE
      BY <2>2
    <3> DEFINE g == [k \in 0 .. n + 1 |-> IF k = n + 1 THEN next[f[n]] ELSE f[k]]
    <3>2. \A k \in 0 .. n : f[k] \in W /\ g[k] = f[k]
      BY <3>1
    <3>6. next[f[n]] \in W
      BY <3>2
    <3>7. \A k \in 0 .. n + 1 : k = n + 1 \/ k \in 0 .. n
      OBVIOUS
    <3>8. /\ DOMAIN g = 0 .. n + 1 /\ n + 1 \in 0 .. n + 1 /\ 0 \in 0 .. n
          /\ g[n + 1] = next[f[n]] /\ f[0] = start
      BY <3>1
    <3>3. g \in [0 .. n + 1 -> W] /\ g[0] = start /\ g[n + 1] = next[f[n]]
      <4>1. \A k \in 0 .. n + 1 : g[k] \in W
        BY <3>2, <3>6, <3>7, <3>8
      <4>2. g \in [0 .. n + 1 -> W]
        BY <4>1
      <4> QED BY <3>2, <3>8, <4>2
    <3>4. \A k \in 0 .. n : g[k + 1] = next[g[k]]
      <4> TAKE k \in 0 .. n
      <4>1. CASE k = n
        BY <4>1, <3>2, <3>3
      <4>2. CASE k # n
        <5>1. k \in 0 .. n - 1 /\ k + 1 \in 0 .. n
          BY <4>2
        <5> QED BY <3>1, <3>2, <5>1
      <4> QED BY <4>1, <4>2
    <3>5. g \in Runs(n + 1)
      <4>1. (n + 1) - 1 = n
        OBVIOUS
      <4> HIDE DEF g
      <4> QED BY <3>3, <3>4, <4>1
    <3> HIDE DEF Runs, g
    <3> QED BY <3>5
  <2> HIDE DEF Longest
  <2> QED BY <2>1, <2>2, Ascends
<1>2. \A k \in Nat : k \in Alike
  <2>1. 0 \in Alike
    OBVIOUS
  <2>2. ASSUME NEW k \in Nat, k \in Alike PROVE k + 1 \in Alike
    <3>3. k + 1 \in Nat
      OBVIOUS
    <3> SUFFICES ASSUME NEW n \in Nat, NEW m \in Nat, k + 1 <= n, k + 1 <= m,
                        NEW f \in Runs(n), NEW g \in Runs(m)
                 PROVE  f[k + 1] = g[k + 1]
      <4> HIDE DEF Runs
      <4> QED BY <3>3
    <3>1. f[k] = g[k]
      <4>1. k <= n /\ k <= m
        OBVIOUS
      <4> HIDE DEF Runs
      <4> QED BY <2>2, <4>1
    <3>2. k \in 0 .. n - 1 /\ k \in 0 .. m - 1
      OBVIOUS
    <3> QED BY <3>1, <3>2
  <2> HIDE DEF Alike
  <2> QED BY <2>1, <2>2, Ascends
<1> DEFINE run == [n \in Nat |-> CHOOSE f \in Runs(n) : TRUE]
           all == [n \in Nat |-> run[n][n]]
<1>3. \A n \in Nat : run[n] \in Runs(n)
  <2> HIDE DEF Runs
  <2> QED BY <1>1
<1>4. all \in [Nat -> W] /\ all[0] = start
  <2>1. \A n \in Nat : all[n] = run[n][n]
    BY DEF all
  <2> HIDE DEF run
  <2>2. ASSUME NEW n \in Nat PROVE run[n][n] \in W /\ run[n][0] = start
    <3>1. run[n] \in [0 .. n -> W] /\ run[n][0] = start
      BY <1>3
    <3> QED BY <3>1
  <2> QED BY <2>1, <2>2
<1>5. ASSUME NEW k \in Nat PROVE all[k + 1] = next[all[k]]
  <2>1. run[k] \in Runs(k) /\ run[k + 1] \in Runs(k + 1)
    <3>1. k + 1 \in Nat
      OBVIOUS
    <3> HIDE DEF run, Runs
    <3> QED BY <1>3, <3>1
  <2>2. run[k][k] = run[k + 1][k]
    <3>1. k \in Alike /\ k <= k /\ k <= k + 1 /\ k + 1 \in Nat
      BY <1>2
    <3> HIDE DEF run, Runs
    <3> QED BY <2>1, <3>1
  <2>3. run[k + 1][k + 1] = next[run[k + 1][k]]
    <3> HIDE DEF run
    <3>1. k \in 0 .. (k + 1) - 1
      OBVIOUS
    <3>2. \A j \in 0 .. (k + 1) - 1 : run[k + 1][j + 1] = next[run[k + 1][j]]
      BY <2>1
    <3> QED BY <3>1, <3>2
  <2> HIDE DEF run
  <2> QED BY <2>2, <2>3
<1> QED
  BY <1>4, <1>5 DEF Iterated

(* The names of a path: that of the directory of the other file is one too. *)
Spelt == STRING \cup {"q"}

(* A host whose links have as many parts as a link can have. *)
Mapped(at) == \A p \in DOMAIN at : at[p].link \in Seq(Spelt) /\ Len(at[p].link) <= Parts

Walks ==
  [ done : Seq(Spelt), rest : Seq(Spelt), links : Nat,
    error : {None, "not a directory", "missing", "too many links"} ]

(* A path that is followed further. *)
Going(w) == w.rest # <<>> /\ w.error = None

(* The next name of it. *)
Ahead(w) == Append(w.done, Head(w.rest))

(* What comes of it when that is no link, and when it is.                  *)
Passed(w) == [done |-> Ahead(w), rest |-> Tail(w.rest), links |-> w.links, error |-> None]
Led(w, link) == [done |-> <<>>, rest |-> link \o Tail(w.rest), links |-> w.links - 1, error |-> None]

(* An error is none of the kinds of success.                               *)
LEMMA ErrorsAreErrors ==
  /\ None # "not a directory" /\ None # "missing" /\ None # "too many links"
BY NoneAssumption DEF NoneAssumption

(* The host is one of these.                                               *)
LEMMA HostMapped == Inv => Mapped(host)
<1> SUFFICES ASSUME Inv, NEW path \in DOMAIN host
             PROVE  host[path].link \in Seq(Spelt) /\ Len(host[path].link) <= Parts
  BY DEF Mapped
<1>1. host[path].link \in Seq(STRING) /\ Len(host[path].link) <= Parts
  BY DEF Inv, Nodes
<1>2. STRING \subseteq Spelt
  BY DEF Spelt
<1> QED
  BY <1>1, <1>2, SeqMonotonic

(* A link at any path of a host.                                           *)
LEMMA NodeMapped ==
  ASSUME NEW at, Mapped(at), NEW p
  PROVE  Node(at, p).link \in Seq(Spelt) /\ Len(Node(at, p).link) <= Parts
<1>1. Here("dir").link = <<>> /\ Here("nothing").link = <<>> /\ <<>> \in Seq(Spelt) /\ Len(<<>>) = 0
  BY DEF Here
<1>2. Parts \in Nat
  BY LinksAssumption DEF LinksAssumption
<1>3. 0 <= Parts
  BY <1>2
<1> QED
  BY <1>1, <1>3 DEF Mapped, Node

(* The parts of a walk.                                                    *)
LEMMA WalkParts ==
  ASSUME NEW w \in Walks
  PROVE  /\ w.done \in Seq(Spelt) /\ w.rest \in Seq(Spelt) /\ w.links \in Nat
         /\ w.error \in {None, "not a directory", "missing", "too many links"}
         /\ w = [done |-> w.done, rest |-> w.rest, links |-> w.links, error |-> w.error]
BY DEF Walks

(* A walk that is over stays.                                              *)
LEMMA StepOver ==
  ASSUME NEW at, NEW w, ~ Going(w)
  PROVE  Step(at, w) = w
BY DEF Step, Going

(* One name further, or an error.                                          *)
LEMMA StepTaken ==
  ASSUME NEW at, NEW w \in Walks, Going(w)
  PROVE  LET node == Node(at, Ahead(w))
         IN  \/ /\ IsDir(Node(at, w.done)) /\ node.kind \notin {"nothing", "link"}
                /\ Step(at, w) = Passed(w)
             \/ /\ IsDir(Node(at, w.done)) /\ node.kind = "link" /\ w.links # 0
                /\ Step(at, w) = Led(w, node.link)
             \/ /\ ~ IsDir(Node(at, w.done)) \/ node.kind = "nothing" \/ (node.kind = "link" /\ w.links = 0)
                /\ \E e \in {"not a directory", "missing", "too many links"} :
                     Step(at, w) = [done |-> w.done, rest |-> w.rest, links |-> w.links, error |-> e]
<1> DEFINE node == Node(at, Ahead(w))
           stopped(e) == [w EXCEPT !.error = e]
<1>1. \A e : stopped(e) = [done |-> w.done, rest |-> w.rest, links |-> w.links, error |-> e]
  <2> DEFINE d == w.done  r == w.rest  l == w.links  o == w.error
  <2>1. w = [done |-> d, rest |-> r, links |-> l, error |-> o]
    BY WalkParts
  <2> HIDE DEF d, r, l, o
  <2>2. \A e : stopped(e) = [done |-> d, rest |-> r, links |-> l, error |-> e]
    BY <2>1
  <2> QED BY <2>2 DEF d, r, l
<1>2. Step(at, w) =
        IF ~ IsDir(Node(at, w.done)) THEN stopped("not a directory")
        ELSE IF node.kind = "nothing" THEN stopped("missing")
        ELSE IF node.kind # "link" THEN Passed(w)
        ELSE IF w.links = 0 THEN stopped("too many links")
        ELSE Led(w, node.link)
  BY Zenon DEF Step, Going, Passed, Led, Ahead
<1> HIDE DEF node, stopped
<1>3. CASE ~ IsDir(Node(at, w.done))
  BY <1>1, <1>2, <1>3
<1>4. CASE IsDir(Node(at, w.done)) /\ node.kind = "nothing"
  BY <1>1, <1>2, <1>4 DEF node
<1>5. CASE IsDir(Node(at, w.done)) /\ node.kind \notin {"nothing", "link"}
  BY <1>2, <1>5 DEF node
<1>6. CASE IsDir(Node(at, w.done)) /\ node.kind = "link" /\ w.links = 0
  <2>1. Step(at, w) = stopped("too many links")
    BY <1>2, <1>6
  <2> QED BY <1>1, <1>6, <2>1 DEF node
<1>7. CASE IsDir(Node(at, w.done)) /\ node.kind = "link" /\ w.links # 0
  <2>1. Step(at, w) = Led(w, node.link)
    BY <1>2, <1>7
  <2> QED BY <1>7, <2>1 DEF node
<1> QED
  BY <1>3, <1>4, <1>5, <1>6, <1>7

(* What a step may make of a walk is one.                                  *)
LEMMA StepType ==
  ASSUME NEW at, Mapped(at), NEW w \in Walks
  PROVE  Step(at, w) \in Walks
<1>1. CASE ~ Going(w)
  BY <1>1, StepOver
<1>2. CASE Going(w)
  <2>1. /\ Head(w.rest) \in Spelt /\ Tail(w.rest) \in Seq(Spelt)
        /\ w.done \in Seq(Spelt) /\ w.links \in Nat
    BY <1>2, WalkParts, HeadTailProperties DEF Going
  <2>2. Ahead(w) \in Seq(Spelt)
    BY <2>1, AppendProperties DEF Ahead
  <2>3. Passed(w) \in Walks
    BY <2>1, <2>2 DEF Passed, Walks
  <2>4. ASSUME NEW link \in Seq(Spelt), w.links # 0 PROVE Led(w, link) \in Walks
    <3>1. link \o Tail(w.rest) \in Seq(Spelt) /\ w.links - 1 \in Nat /\ <<>> \in Seq(Spelt)
      BY <2>1, <2>4, ConcatProperties
    <3> QED BY <3>1 DEF Led, Walks
  <2>5. \A e \in {"not a directory", "missing", "too many links"} :
          [done |-> w.done, rest |-> w.rest, links |-> w.links, error |-> e] \in Walks
    BY WalkParts DEF Walks
  <2>6. \/ Step(at, w) = Passed(w)
        \/ w.links # 0 /\ Step(at, w) = Led(w, Node(at, Ahead(w)).link)
        \/ \E e \in {"not a directory", "missing", "too many links"} :
             Step(at, w) = [done |-> w.done, rest |-> w.rest, links |-> w.links, error |-> e]
    BY <1>2, StepTaken
  <2>7. Node(at, Ahead(w)).link \in Seq(Spelt)
    BY NodeMapped
  <2> QED
    BY <2>3, <2>4, <2>5, <2>6, <2>7
<1> QED
  BY <1>1, <1>2

(* The walk of path, from its start.                                       *)
Follows(f, at, path) ==
  f \in [Nat -> Walks] /\ f[0] = Start(path) /\ \A k \in Nat : f[k + 1] = Step(at, f[k])

(* The most steps of a walk. *)
Most(path) == Len(path) + Links * Parts

(* The bounds are numbers.                                                 *)
LEMMA BoundsTyped == Links \in Nat /\ Parts \in Nat /\ Links * Parts \in Nat
<1>1. Links \in Nat /\ Parts \in Nat
  BY LinksAssumption DEF LinksAssumption
<1> QED BY <1>1

(* There is a walk of every path.                                          *)
LEMMA WalkExists ==
  ASSUME NEW at, Mapped(at), NEW path \in Seq(Spelt)
  PROVE  \E f : Follows(f, at, path)
<1>1. PICK next \in [Walks -> Walks] : \A w \in Walks : next[w] = Step(at, w)
  <2>1. [w \in Walks |-> Step(at, w)] \in [Walks -> Walks]
    BY StepType
  <2> QED BY <2>1
<1>2. Start(path) \in Walks
  <2>1. <<>> \in Seq(Spelt) /\ Links \in Nat
    BY BoundsTyped
  <2> QED BY <2>1 DEF Start, Walks
<1>3. PICK f : Iterated(f, Walks, Start(path), next)
  BY <1>1, <1>2, Iterates
<1>4. f \in [Nat -> Walks] /\ f[0] = Start(path) /\ \A k \in Nat : f[k + 1] = next[f[k]]
  BY <1>3 DEF Iterated
<1>5. \A k \in Nat : f[k + 1] = Step(at, f[k])
  BY <1>1, <1>4
<1> QED
  BY <1>4, <1>5 DEF Follows

(* Walk is it.                                                             *)
LEMMA WalkFollows ==
  ASSUME NEW at, Mapped(at), NEW path \in Seq(Spelt)
  PROVE  Follows(Walk(at, path), at, path)
<1> DEFINE IsWalk(f) == f = [k \in Nat |-> IF k = 0 THEN Start(path) ELSE Step(at, f[k - 1])]
<1>1. PICK f : Follows(f, at, path)
  BY WalkExists
<1>2. IsWalk(f)
  <2>1. ASSUME NEW k \in Nat, k # 0 PROVE f[k] = Step(at, f[k - 1])
    <3>1. k - 1 \in Nat /\ (k - 1) + 1 = k
      BY <2>1
    <3> QED BY <1>1, <3>1 DEF Follows
  <2>2. f = [k \in Nat |-> f[k]] /\ f[0] = Start(path)
    BY <1>1 DEF Follows
  <2> QED BY <2>1, <2>2
<1>3. Walk(at, path) = CHOOSE g : IsWalk(g)
  BY DEF Walk
<1> DEFINE g == Walk(at, path)
<1>4. IsWalk(g)
  <2> HIDE DEF IsWalk
  <2> QED BY <1>2, <1>3
<1> HIDE DEF g
<1>5. g[0] = Start(path) /\ \A k \in Nat : g[k + 1] = Step(at, g[k])
  <2>1. g[0] = Start(path)
    BY <1>4
  <2>2. ASSUME NEW k \in Nat PROVE g[k + 1] = Step(at, g[k])
    <3>1. k + 1 \in Nat /\ k + 1 # 0 /\ (k + 1) - 1 = k
      OBVIOUS
    <3>2. g[k + 1] = IF k + 1 = 0 THEN Start(path) ELSE Step(at, g[(k + 1) - 1])
      BY <1>4, <3>1
    <3> QED BY <3>1, <3>2
  <2> QED BY <2>1, <2>2
<1>6. \A k \in Nat : g[k] \in Walks
  <2> DEFINE S == {k \in Nat : g[k] \in Walks}
  <2>1. 0 \in S
    BY <1>1, <1>5 DEF Follows
  <2>2. \A k \in Nat : k \in S => k + 1 \in S
    <3> SUFFICES ASSUME NEW k \in Nat, g[k] \in Walks PROVE g[k + 1] \in Walks
      OBVIOUS
    <3>1. g[k + 1] = Step(at, g[k])
      BY <1>5
    <3> QED BY <3>1, StepType
  <2> HIDE DEF S
  <2>3. \A k \in Nat : k \in S
    BY <2>1, <2>2, Ascends
  <2> QED BY <2>3 DEF S
<1>7. g \in [Nat -> Walks]
  <2>1. DOMAIN g = Nat /\ g = [k \in Nat |-> g[k]]
    <3> DEFINE body == [k \in Nat |-> IF k = 0 THEN Start(path) ELSE Step(at, g[k - 1])]
    <3>1. g = body
      BY <1>4
    <3>2. DOMAIN body = Nat
      OBVIOUS
    <3> HIDE DEF body
    <3>3. DOMAIN g = Nat
      BY <3>1, <3>2
    <3>4. g = [k \in DOMAIN body |-> body[k]]
      BY <3>1 DEF body
    <3> QED BY <3>1, <3>2, <3>3, <3>4
  <2> QED BY <1>6, <2>1
<1> QED
  BY <1>5, <1>7 DEF Follows, g

(* A walk that is over stays so.                                           *)
LEMMA WalkStays ==
  ASSUME NEW at, NEW path, NEW f, Follows(f, at, path), NEW k \in Nat, ~ Going(f[k]),
         NEW i \in Nat
  PROVE  f[k + i] = f[k]
<1> DEFINE S == {j \in Nat : f[k + j] = f[k]}
<1>1. 0 \in S
  OBVIOUS
<1>2. ASSUME NEW j \in Nat, j \in S PROVE j + 1 \in S
  <2>1. k + j \in Nat /\ k + (j + 1) = (k + j) + 1
    OBVIOUS
  <2>2. f[k + (j + 1)] = Step(at, f[k + j])
    BY <2>1 DEF Follows
  <2>3. f[k + j] = f[k]
    BY <1>2
  <2>4. f[k + (j + 1)] = f[k]
    BY <2>2, <2>3, StepOver
  <2> QED BY <2>4
<1> HIDE DEF S
<1>3. \A j \in Nat : j \in S
  BY <1>1, <1>2, Ascends
<1> QED BY <1>3 DEF S

(* The same, between two of its steps.                                     *)
LEMMA WalkOver ==
  ASSUME NEW at, NEW path, NEW f, Follows(f, at, path), NEW k \in Nat, ~ Going(f[k]),
         NEW j \in Nat, k <= j
  PROVE  f[j] = f[k]
<1>1. j - k \in Nat /\ k + (j - k) = j
  OBVIOUS
<1>2. f[k + (j - k)] = f[k]
  BY <1>1, WalkStays
<1> QED
  BY <1>1, <1>2

(* One of the things there are n of, and the others.                       *)
LEMMA OneOfMany ==
  ASSUME NEW n \in Nat, n # 0, NEW m \in Nat
  PROVE  (n - 1) * m + m = n * m /\ (n - 1) * m \in Nat /\ n * m \in Nat
<1>1. (n - 1) * m + m = n * m
  OBVIOUS
<1>2. n - 1 \in Nat
  OBVIOUS
<1>3. \A k \in Nat : k * m \in Nat
  OBVIOUS
<1> QED
  BY <1>1, <1>2, <1>3

(* Every step of a walk is paid for by a name of its rest, or by a link.   *)
LEMMA StepPays ==
  ASSUME NEW at, Mapped(at), NEW w \in Walks, Going(w), Going(Step(at, w))
  PROVE  Len(Step(at, w).rest) + Step(at, w).links * Parts + 1 <= Len(w.rest) + w.links * Parts
<1>1. /\ w.links \in Nat /\ w.rest \in Seq(Spelt) /\ w.rest # <<>> /\ w.error = None
  BY WalkParts DEF Going
<1>2. /\ Len(w.rest) \in Nat /\ Tail(w.rest) \in Seq(Spelt) /\ Len(Tail(w.rest)) = Len(w.rest) - 1
  BY <1>1, HeadTailProperties, LenProperties
<1>3. CASE Step(at, w) = Passed(w)
  <2>1. Step(at, w).rest = Tail(w.rest) /\ Step(at, w).links = w.links
    BY <1>3 DEF Passed
  <2>2. w.links * Parts \in Nat
    BY <1>1, BoundsTyped
  <2> QED BY <1>2, <2>1, <2>2
<1>4. CASE w.links # 0 /\ Step(at, w) = Led(w, Node(at, Ahead(w)).link)
  <2> DEFINE link == Node(at, Ahead(w)).link
  <2>1. Step(at, w).rest = link \o Tail(w.rest) /\ Step(at, w).links = w.links - 1
    <3>1. Step(at, w) = Led(w, link)
      BY <1>4
    <3> HIDE DEF link
    <3>2. Led(w, link).rest = link \o Tail(w.rest) /\ Led(w, link).links = w.links - 1
      BY DEF Led
    <3> QED BY <3>1, <3>2
  <2>2. link \in Seq(Spelt) /\ Len(link) \in Nat /\ Len(link) <= Parts
    BY NodeMapped, LenProperties
  <2> HIDE DEF link
  <2>3. Len(link \o Tail(w.rest)) = Len(link) + (Len(w.rest) - 1)
    BY <1>2, <2>2, ConcatProperties
  <2>4. (w.links - 1) * Parts + Parts = w.links * Parts /\ (w.links - 1) * Parts \in Nat /\ w.links * Parts \in Nat
    BY <1>1, <1>4, BoundsTyped, OneOfMany
  <2> DEFINE a == (w.links - 1) * Parts  b == w.links * Parts
  <2> HIDE DEF a, b
  <2>5. a \in Nat /\ b \in Nat /\ a + Parts = b /\ Parts \in Nat
    BY <2>4, BoundsTyped DEF a, b
  <2>6. Len(link) + (Len(w.rest) - 1) + a + 1 <= Len(w.rest) + b
    BY <1>2, <2>2, <2>5
  <2> QED BY <2>1, <2>3, <2>6 DEF a, b
<1>5. ASSUME NEW e \in {"not a directory", "missing", "too many links"},
             Step(at, w) = [done |-> w.done, rest |-> w.rest, links |-> w.links, error |-> e]
      PROVE  FALSE
  <2> DEFINE stopped == [done |-> w.done, rest |-> w.rest, links |-> w.links, error |-> e]
  <2>0. stopped.error = e
    OBVIOUS
  <2>1. Step(at, w).error = e
    BY <1>5, <2>0
  <2> QED BY <2>1, ErrorsAreErrors DEF Going
<1> QED
  BY <1>3, <1>4, <1>5, StepTaken

(* A walk is over after as many steps as it can take.                      *)
LEMMA WalkEnds ==
  ASSUME NEW at, Mapped(at), NEW path \in Seq(Spelt), NEW f, Follows(f, at, path)
  PROVE  Most(path) \in Nat /\ ~ Going(f[Most(path)])
<1> DEFINE owed(w) == Len(w.rest) + w.links * Parts
           S == {k \in Nat : Going(f[k]) => owed(f[k]) + k <= Most(path)}
<1>1. Most(path) \in Nat
  BY BoundsTyped, LenProperties DEF Most
<1>2. \A w \in Walks : Len(w.rest) \in Nat /\ w.links * Parts \in Nat /\ owed(w) \in Nat
  <2> TAKE w \in Walks
  <2>1. Len(w.rest) \in Nat /\ w.links \in Nat
    BY WalkParts, LenProperties
  <2>2. w.links * Parts \in Nat
    BY <2>1, BoundsTyped
  <2> QED BY <2>1, <2>2
<1>3. 0 \in S
  <2>1. f[0].rest = path /\ f[0].links = Links
    BY DEF Follows, Start
  <2>2. owed(f[0]) = Most(path)
    BY <2>1 DEF Most
  <2> HIDE DEF owed
  <2> QED BY <1>1, <2>2
<1>4. ASSUME NEW k \in Nat, k \in S PROVE k + 1 \in S
  <2> SUFFICES ASSUME Going(f[k + 1]) PROVE owed(f[k + 1]) + (k + 1) <= Most(path)
    OBVIOUS
  <2>1. f[k] \in Walks /\ f[k + 1] \in Walks /\ f[k + 1] = Step(at, f[k])
    <3>1. k + 1 \in Nat
      OBVIOUS
    <3> QED BY <3>1 DEF Follows
  <2>2. Going(f[k])
    BY <2>1, StepOver
  <2>3. owed(f[k + 1]) + 1 <= owed(f[k])
    BY <2>1, <2>2, StepPays
  <2>4. owed(f[k]) + k <= Most(path)
    BY <1>4, <2>2
  <2>5. owed(f[k]) \in Nat /\ owed(f[k + 1]) \in Nat
    BY <1>2, <2>1
  <2> HIDE DEF owed
  <2> QED BY <1>1, <2>3, <2>4, <2>5
<1> HIDE DEF S
<1>5. Most(path) \in S
  BY <1>1, <1>3, <1>4, Ascends
<1>6. ASSUME Going(f[Most(path)]) PROVE FALSE
  <2> DEFINE w == f[Most(path)]
  <2>1. w \in Walks /\ owed(w) + Most(path) <= Most(path)
    BY <1>1, <1>5, <1>6 DEF Follows, S
  <2>2. owed(w) = 0 /\ Len(w.rest) \in Nat /\ w.links * Parts \in Nat
    <3>1. owed(w) \in Nat /\ Len(w.rest) \in Nat /\ w.links * Parts \in Nat
      BY <1>2, <2>1
    <3> HIDE DEF owed, w
    <3> QED BY <1>1, <2>1, <3>1
  <2>3. Len(w.rest) = 0 /\ w.rest \in Seq(Spelt)
    <3> HIDE DEF w
    <3>1. w.rest \in Seq(Spelt)
      BY <2>1, WalkParts
    <3> QED BY <2>2, <3>1
  <2>4. w.rest = <<>>
    <3> HIDE DEF w
    <3> QED BY <2>3, EmptySeq
  <2> QED BY <1>6, <2>4 DEF Going
<1> QED
  BY <1>1, <1>6

(* What a walk that is over has come to, however many steps it took.       *)
LEMMA Ending ==
  ASSUME NEW at, Mapped(at), NEW path \in Seq(Spelt), NEW f, Follows(f, at, path),
         NEW k \in Nat, ~ Going(f[k])
  PROVE  f[Most(path)] = f[k]
<1>1. Most(path) \in Nat /\ ~ Going(f[Most(path)])
  BY WalkEnds
<1>2. k <= Most(path) => f[Most(path)] = f[k]
  BY <1>1, WalkOver
<1>3. Most(path) <= k => f[k] = f[Most(path)]
  BY <1>1, WalkOver
<1> QED
  BY <1>1, <1>2, <1>3

-----------------------------------------------------------------------------
(* Where a path leads.                                                     *)

(* The first name of a sequence and the rest, and of one that goes on.     *)
LEMMA ConcatHeadTail ==
  ASSUME NEW S, NEW s \in Seq(S), s # <<>>, NEW t \in Seq(S)
  PROVE  /\ s \o t # <<>> /\ s \o t \in Seq(S)
         /\ Head(s \o t) = Head(s) /\ Tail(s \o t) = Tail(s) \o t
<1>1. /\ Len(s) \in Nat \ {0} /\ Len(t) \in Nat
      /\ s \o t \in Seq(S) /\ Len(s \o t) = Len(s) + Len(t)
      /\ \A i \in 1 .. Len(s) + Len(t) : (s \o t)[i] = IF i <= Len(s) THEN s[i] ELSE t[i - Len(s)]
  BY ConcatProperties, EmptySeq, LenProperties
<1>2. s \o t # <<>>
  BY <1>1, EmptySeq
<1>3. /\ Tail(s) \in Seq(S) /\ Len(Tail(s)) = Len(s) - 1
      /\ \A i \in 1 .. Len(Tail(s)) : Tail(s)[i] = s[i + 1]
      /\ Tail(s \o t) \in Seq(S) /\ Len(Tail(s \o t)) = Len(s \o t) - 1
      /\ \A i \in 1 .. Len(Tail(s \o t)) : Tail(s \o t)[i] = (s \o t)[i + 1]
  BY <1>1, <1>2, HeadTailProperties
<1>4. /\ Tail(s) \o t \in Seq(S) /\ Len(Tail(s) \o t) = Len(s) - 1 + Len(t)
      /\ \A i \in 1 .. Len(s) - 1 + Len(t) :
           (Tail(s) \o t)[i] = IF i <= Len(s) - 1 THEN Tail(s)[i] ELSE t[i - (Len(s) - 1)]
  BY <1>3, ConcatProperties
<1>5. Head(s \o t) = (s \o t)[1] /\ Head(s) = s[1]
  OBVIOUS
<1>6. Head(s \o t) = Head(s)
  BY <1>1, <1>5
<1>7. \A i \in 1 .. Len(Tail(s \o t)) : Tail(s \o t)[i] = (Tail(s) \o t)[i]
  <2> TAKE i \in 1 .. Len(Tail(s \o t))
  <2>1. i \in 1 .. Len(s) - 1 + Len(t) /\ i + 1 \in 1 .. Len(s) + Len(t)
    BY <1>1, <1>3
  <2>2. Tail(s \o t)[i] = IF i + 1 <= Len(s) THEN s[i + 1] ELSE t[(i + 1) - Len(s)]
    BY <1>1, <1>3, <2>1
  <2>3. CASE i <= Len(s) - 1
    <3>1. Tail(s)[i] = s[i + 1] /\ i + 1 <= Len(s)
      BY <1>1, <1>3, <2>1, <2>3
    <3> QED BY <1>4, <2>1, <2>2, <2>3, <3>1
  <2>4. CASE ~ (i <= Len(s) - 1)
    <3>1. ~ (i + 1 <= Len(s)) /\ (i + 1) - Len(s) = i - (Len(s) - 1)
      BY <1>1, <2>1, <2>4
    <3> QED BY <1>4, <2>1, <2>2, <2>4, <3>1
  <2> QED BY <2>3, <2>4
<1>8. Tail(s \o t) = Tail(s) \o t
  <2>1. Len(Tail(s \o t)) = Len(Tail(s) \o t)
    BY <1>1, <1>3, <1>4
  <2> QED BY <1>3, <1>4, <1>7, <2>1, SeqEqual
<1> QED
  BY <1>1, <1>2, <1>6, <1>8

(* A walk whose path goes on. *)
Longer(w, q) == [done |-> w.done, rest |-> w.rest \o q, links |-> w.links, error |-> w.error]

(* What follows a path does not change how it is followed.                 *)
LEMMA StepLonger ==
  ASSUME NEW at, Mapped(at), NEW w \in Walks, Going(w), Step(at, w).error = None, NEW q \in Seq(Spelt)
  PROVE  Step(at, Longer(w, q)) = Longer(Step(at, w), q)
<1> DEFINE l == Longer(w, q)
<1>1. /\ w.rest \in Seq(Spelt) /\ w.rest # <<>> /\ w.error = None
      /\ Tail(w.rest) \in Seq(Spelt)
  BY WalkParts, HeadTailProperties DEF Going
<1>2. /\ l.done = w.done /\ l.rest = w.rest \o q /\ l.links = w.links /\ l.error = None
  BY <1>1 DEF Longer
<1>3. l.rest # <<>> /\ Head(l.rest) = Head(w.rest) /\ Tail(l.rest) = Tail(w.rest) \o q
  <2> HIDE DEF l
  <2>1. /\ w.rest \o q # <<>> /\ Head(w.rest \o q) = Head(w.rest)
        /\ Tail(w.rest \o q) = Tail(w.rest) \o q
    BY <1>1, ConcatHeadTail
  <2> QED BY <1>2, <2>1
<1>4. l \in Walks
  <2>1. w.rest \o q \in Seq(Spelt)
    BY <1>1, ConcatHeadTail
  <2> QED BY <2>1, WalkParts DEF Longer, Walks
<1> HIDE DEF l
<1>5. Going(l) /\ Ahead(l) = Ahead(w)
  BY <1>2, <1>3 DEF Going, Ahead
<1> DEFINE node == Node(at, Ahead(w))
<1>6. \A e \in {"not a directory", "missing", "too many links"} :
        Step(at, w) # [done |-> w.done, rest |-> w.rest, links |-> w.links, error |-> e]
  <2> TAKE e \in {"not a directory", "missing", "too many links"}
  <2> DEFINE stopped == [done |-> w.done, rest |-> w.rest, links |-> w.links, error |-> e]
  <2>1. stopped.error = e /\ e # None
    BY ErrorsAreErrors
  <2> HIDE DEF stopped
  <2> QED BY <2>1 DEF stopped
<1>7. CASE node.kind # "link"
  <2>1. IsDir(Node(at, w.done)) /\ node.kind # "nothing" /\ Step(at, w) = Passed(w)
    BY <1>6, <1>7, StepTaken
  <2>2. Step(at, l) = Passed(l)
    BY <1>2, <1>4, <1>5, <1>7, <2>1, StepTaken
  <2>3. Passed(l) = Longer(Passed(w), q)
    BY <1>2, <1>3, <1>5 DEF Passed, Longer
  <2> QED BY <2>1, <2>2, <2>3 DEF l
<1>8. CASE node.kind = "link"
  <2>1. IsDir(Node(at, w.done)) /\ w.links # 0 /\ Step(at, w) = Led(w, node.link)
    BY <1>6, <1>8, StepTaken
  <2>2. Step(at, l) = Led(l, node.link)
    BY <1>2, <1>4, <1>5, <1>8, <2>1, StepTaken
  <2>3. node.link \o (Tail(w.rest) \o q) = (node.link \o Tail(w.rest)) \o q
    <3>1. \A link \in Seq(Spelt) : link \o (Tail(w.rest) \o q) = (link \o Tail(w.rest)) \o q
      <4>1. \A s, t, u \in Seq(Spelt) : (s \o t) \o u = s \o (t \o u)
        BY ConcatAssociative
      <4> QED BY <1>1, <4>1, Zenon
    <3>2. node.link \in Seq(Spelt)
      BY NodeMapped
    <3> HIDE DEF node
    <3> QED BY <3>1, <3>2
  <2>4. Led(l, node.link) = Longer(Led(w, node.link), q)
    <3> DEFINE link == node.link
    <3> HIDE DEF link
    <3>1. Longer(Led(w, link), q) =
            [done |-> <<>>, rest |-> (link \o Tail(w.rest)) \o q, links |-> w.links - 1, error |-> None]
      BY DEF Led, Longer
    <3>2. Led(l, link) =
            [done |-> <<>>, rest |-> link \o (Tail(w.rest) \o q), links |-> w.links - 1, error |-> None]
      BY <1>2, <1>3 DEF Led
    <3> QED BY <2>3, <3>1, <3>2 DEF link
  <2> QED BY <2>1, <2>2, <2>4 DEF l
<1> QED
  BY <1>7, <1>8

(* The walk of a longer path comes by where that of its first part comes.  *)
LEMMA WalkLonger ==
  ASSUME NEW at, Mapped(at), NEW p \in Seq(Spelt), NEW q \in Seq(Spelt),
         NEW f, Follows(f, at, p), NEW g, Follows(g, at, p \o q),
         NEW k \in Nat, f[k].error = None
  PROVE  \E j \in Nat : g[j] = Longer(f[k], q)
<1> DEFINE S == {i \in Nat : f[i].error = None => \E j \in Nat : g[j] = Longer(f[i], q)}
<1>1. 0 \in S
  <2>1. g[0] = Longer(f[0], q)
    BY DEF Follows, Start, Longer
  <2> QED BY <2>1
<1>2. ASSUME NEW i \in Nat, i \in S PROVE i + 1 \in S
  <2> SUFFICES ASSUME f[i + 1].error = None PROVE \E j \in Nat : g[j] = Longer(f[i + 1], q)
    OBVIOUS
  <2>1. f[i] \in Walks /\ f[i + 1] = Step(at, f[i])
    BY DEF Follows
  <2>2. f[i].error = None
    BY <2>1, StepOver DEF Going
  <2>3. PICK j \in Nat : g[j] = Longer(f[i], q)
    BY <1>2, <2>2
  <2>4. CASE ~ Going(f[i])
    BY <2>1, <2>3, <2>4, StepOver
  <2>5. CASE Going(f[i])
    <3>1. Step(at, g[j]) = Longer(f[i + 1], q)
      BY <2>1, <2>3, <2>5, StepLonger
    <3>2. j + 1 \in Nat /\ g[j + 1] = Step(at, g[j])
      BY DEF Follows
    <3> QED BY <3>1, <3>2
  <2> QED BY <2>4, <2>5
<1> HIDE DEF S
<1>3. \A i \in Nat : i \in S
  BY <1>1, <1>2, Ascends
<1> QED BY <1>3 DEF S

(* The first e parts of d, in place on a host: directories but for the     *)
(* last, which is there, and no links.                                     *)
Plain(at, d, e) ==
  \A m \in 1 .. e :
    /\ Node(at, SubSeq(d, 1, m)).kind \notin {"nothing", "link"}
    /\ m < e => IsDir(Node(at, SubSeq(d, 1, m)))

(* The parts of a path with one name more.                                 *)
LEMMA AppendParts ==
  ASSUME NEW d \in Seq(Spelt), NEW x \in Spelt
  PROVE  /\ Append(d, x) \in Seq(Spelt) /\ Len(Append(d, x)) = Len(d) + 1 /\ Len(d) \in Nat
         /\ \A m \in 0 .. Len(d) : SubSeq(Append(d, x), 1, m) = SubSeq(d, 1, m)
         /\ SubSeq(Append(d, x), 1, Len(d) + 1) = Append(d, x)
         /\ SubSeq(d, 1, Len(d)) = d
<1>1. /\ Append(d, x) \in Seq(Spelt) /\ Len(Append(d, x)) = Len(d) + 1 /\ Len(d) \in Nat
      /\ \A i \in 1 .. Len(d) : Append(d, x)[i] = d[i] /\ d[i] \in Spelt
  BY AppendProperties, LenProperties, ElementOfSeq
<1>2. ASSUME NEW m \in 0 .. Len(d) PROVE SubSeq(Append(d, x), 1, m) = SubSeq(d, 1, m)
  <2>1. /\ \A i \in 1 .. m : d[i] \in Spelt /\ Append(d, x)[i] \in Spelt /\ Append(d, x)[i] = d[i]
        /\ m \in Int /\ 1 \in Int
    BY <1>1
  <2> DEFINE a == SubSeq(Append(d, x), 1, m)  b == SubSeq(d, 1, m)
  <2>2. /\ a \in Seq(Spelt) /\ Len(a) = m /\ \A i \in 1 .. m : a[i] = Append(d, x)[i]
        /\ b \in Seq(Spelt) /\ Len(b) = m /\ \A i \in 1 .. m : b[i] = d[i]
    <3>1. /\ a \in Seq(Spelt) /\ Len(a) = (IF 1 <= m THEN m - 1 + 1 ELSE 0)
          /\ \A i \in 1 .. m - 1 + 1 : a[i] = Append(d, x)[1 + i - 1]
      BY <2>1, SubSeqProperties
    <3>2. /\ b \in Seq(Spelt) /\ Len(b) = (IF 1 <= m THEN m - 1 + 1 ELSE 0)
          /\ \A i \in 1 .. m - 1 + 1 : b[i] = d[1 + i - 1]
      BY <2>1, SubSeqProperties
    <3> HIDE DEF a, b
    <3>3. m - 1 + 1 = m /\ (IF 1 <= m THEN m - 1 + 1 ELSE 0) = m /\ \A i \in 1 .. m : 1 + i - 1 = i
      BY <1>1
    <3> QED BY <3>1, <3>2, <3>3
  <2> HIDE DEF a, b
  <2>3. a = b
    BY <2>1, <2>2, SeqEqual
  <2> QED BY <2>3 DEF a, b
<1> QED
  BY <1>1, <1>2, SubSeqFull

(* What a walk is done with is in place.                                   *)
LEMMA WalkPlain ==
  ASSUME NEW at, Mapped(at), NEW path, NEW f, Follows(f, at, path), NEW k \in Nat
  PROVE  Plain(at, f[k].done, Len(f[k].done))
<1> DEFINE S == {i \in Nat : Plain(at, f[i].done, Len(f[i].done))}
<1>1. ASSUME NEW d, d = <<>> PROVE Plain(at, d, Len(d))
  BY <1>1 DEF Plain
<1>2. 0 \in S
  <2>1. f[0].done = <<>>
    BY DEF Follows, Start
  <2> QED BY <1>1, <2>1
<1>3. ASSUME NEW i \in Nat, i \in S PROVE i + 1 \in S
  <2> DEFINE w == f[i]
  <2>1. w \in Walks /\ f[i + 1] = Step(at, w) /\ Plain(at, w.done, Len(w.done))
    BY <1>3 DEF Follows
  <2> SUFFICES Plain(at, Step(at, w).done, Len(Step(at, w).done))
    BY <2>1
  <2> HIDE DEF w, S
  <2>2. CASE ~ Going(w)
    BY <2>1, <2>2, StepOver
  <2>3. CASE Going(w) /\ \E e : Step(at, w) = [done |-> w.done, rest |-> w.rest, links |-> w.links, error |-> e]
    <3>1. Step(at, w).done = w.done
      BY <2>3
    <3> QED BY <2>1, <3>1
  <2>4. CASE Going(w) /\ Step(at, w) = Led(w, Node(at, Ahead(w)).link)
    <3>1. Step(at, w).done = <<>>
      BY <2>4 DEF Led
    <3> QED BY <1>1, <3>1
  <2>5. CASE /\ Going(w) /\ Step(at, w) = Passed(w)
             /\ IsDir(Node(at, w.done)) /\ Node(at, Ahead(w)).kind \notin {"nothing", "link"}
    <3> DEFINE d == w.done  x == Head(w.rest)
    <3>1. d \in Seq(Spelt) /\ x \in Spelt
      BY <2>1, <2>5, WalkParts, HeadTailProperties DEF Going
    <3>2. Step(at, w).done = Append(d, x) /\ Ahead(w) = Append(d, x)
      BY <2>5 DEF Passed, Ahead
    <3> HIDE DEF d, x
    <3>3. Plain(at, Append(d, x), Len(d) + 1)
      <4> SUFFICES ASSUME NEW m \in 1 .. Len(d) + 1
                   PROVE  /\ Node(at, SubSeq(Append(d, x), 1, m)).kind \notin {"nothing", "link"}
                          /\ m < Len(d) + 1 => IsDir(Node(at, SubSeq(Append(d, x), 1, m)))
        BY DEF Plain
      <4>1. CASE m = Len(d) + 1
        <5>1. SubSeq(Append(d, x), 1, m) = Append(d, x) /\ Len(d) \in Nat
          BY <3>1, <4>1, AppendParts
        <5>2. Node(at, SubSeq(Append(d, x), 1, m)).kind \notin {"nothing", "link"}
          BY <2>5, <3>2, <5>1
        <5> QED BY <4>1, <5>1, <5>2
      <4>2. CASE m \in 1 .. Len(d)
        <5>1. SubSeq(Append(d, x), 1, m) = SubSeq(d, 1, m) /\ Len(d) \in Nat /\ SubSeq(d, 1, Len(d)) = d
          BY <3>1, <4>2, AppendParts
        <5>2. /\ Node(at, SubSeq(d, 1, m)).kind \notin {"nothing", "link"}
              /\ m < Len(d) => IsDir(Node(at, SubSeq(d, 1, m)))
          BY <2>1, <4>2 DEF Plain, d
        <5>3. IsDir(Node(at, d))
          BY <2>5 DEF d
        <5>4. m = Len(d) \/ m < Len(d)
          <6>1. Len(d) \in Nat
            BY <3>1, LenProperties
          <6> QED BY <4>2, <6>1
        <5> QED BY <5>1, <5>2, <5>3, <5>4
      <4>3. Len(d) \in Nat
        BY <3>1, LenProperties
      <4> QED BY <4>1, <4>2, <4>3
    <3> QED BY <3>1, <3>2, <3>3, AppendParts
  <2> QED
    BY <2>1, <2>2, <2>3, <2>4, <2>5, StepTaken
<1> HIDE DEF S
<1>4. k \in S
  BY <1>2, <1>3, Ascends
<1> QED BY <1>4 DEF S

(* A walk along path that has come to its n-th part by no link. *)
At(path, n, l) ==
  [done |-> SubSeq(path, 1, n), rest |-> SubSeq(path, n + 1, Len(path)), links |-> l, error |-> None]

(* Its parts: what is done, the next name, and the rest.                   *)
LEMMA AtParts ==
  ASSUME NEW path \in Seq(Spelt), NEW n \in 0 .. Len(path), NEW l \in Nat
  PROVE  /\ At(path, n, l) \in Walks
         /\ At(path, n, l).done = SubSeq(path, 1, n) /\ At(path, n, l).links = l
         /\ Going(At(path, n, l)) <=> n < Len(path)
         /\ n < Len(path) => /\ Ahead(At(path, n, l)) = SubSeq(path, 1, n + 1)
                             /\ Passed(At(path, n, l)) = At(path, n + 1, l)
<1> DEFINE a == SubSeq(path, 1, n)  b == SubSeq(path, n + 1, Len(path))  w == At(path, n, l)
<1>1. Len(path) \in Nat /\ \A i \in 1 .. Len(path) : path[i] \in Spelt
  BY LenProperties, ElementOfSeq
<1>2. a \in Seq(Spelt) /\ b \in Seq(Spelt) /\ (n < Len(path) <=> b # <<>>)
  <2>1. a \in Seq(Spelt)
    <3>1. 1 \in Int /\ n \in Int /\ \A i \in 1 .. n : path[i] \in Spelt
      BY <1>1
    <3> QED BY <3>1, SubSeqProperties
  <2>2. b \in Seq(Spelt) /\ Len(b) = IF n + 1 <= Len(path) THEN Len(path) - (n + 1) + 1 ELSE 0
    <3>1. n + 1 \in Int /\ Len(path) \in Int /\ \A i \in n + 1 .. Len(path) : path[i] \in Spelt
      BY <1>1
    <3> QED BY <3>1, SubSeqProperties
  <2> HIDE DEF a, b
  <2>3. b # <<>> <=> Len(b) # 0
    BY <2>2, EmptySeq
  <2>4. n < Len(path) <=> Len(b) # 0
    BY <1>1, <2>2
  <2> QED BY <2>1, <2>2, <2>3, <2>4
<1> HIDE DEF a, b
<1>3. w = [done |-> a, rest |-> b, links |-> l, error |-> None]
  BY DEF At, a, b
<1>4. w \in Walks /\ w.done = a /\ w.links = l /\ w.rest = b /\ w.error = None
  BY <1>2, <1>3 DEF Walks
<1>5. ASSUME n < Len(path)
      PROVE  Ahead(w) = SubSeq(path, 1, n + 1) /\ Passed(w) = At(path, n + 1, l)
  <2>1. n + 1 \in 1 .. Len(path) /\ Len(path) \in n + 1 .. Len(path) /\ n + 1 \in 1 .. (n + 1)
    BY <1>1, <1>5
  <2>2. Head(b) = path[n + 1] /\ Tail(b) = SubSeq(path, (n + 1) + 1, Len(path))
    BY <2>1, HeadTailOfSubSeq DEF b
  <2>3. SubSeq(path, 1, n + 1) = SubSeq(path, 1, (n + 1) - 1) \o <<path[n + 1]>>
    <3>1. 1 \in 1 .. Len(path) /\ n + 1 \in 1 .. Len(path)
      BY <1>1, <1>5
    <3> QED BY <3>1, SubSeqRecursiveSecond
  <2>4. (n + 1) - 1 = n
    OBVIOUS
  <2>5. SubSeq(path, 1, n + 1) = Append(a, path[n + 1])
    <3>1. path[n + 1] \in Spelt
      BY <1>1, <2>1
    <3>2. Append(a, path[n + 1]) = a \o <<path[n + 1]>>
      BY <1>2, <3>1, AppendIsConcat
    <3> QED BY <2>3, <2>4, <3>2 DEF a
  <2> HIDE DEF w
  <2>6. Ahead(w) = SubSeq(path, 1, n + 1)
    BY <1>4, <2>2, <2>5 DEF Ahead
  <2>7. Passed(w) = At(path, n + 1, l)
    BY <1>4, <2>2, <2>6 DEF Passed, At
  <2> QED BY <2>6, <2>7
<1>6. Going(w) <=> n < Len(path)
  <2> HIDE DEF w
  <2> QED BY <1>2, <1>4 DEF Going
<1> QED
  BY <1>4, <1>5, <1>6 DEF a

(* The root is a directory. *)
LEMMA RootIsDir ==
  ASSUME NEW at, NEW d, d = <<>>
  PROVE  IsDir(Node(at, d))
BY DEF Node, IsDir, Here

(* A walk goes straight where what it is about to come by is in place.     *)
LEMMA Straight ==
  ASSUME NEW at, NEW path, NEW f, Follows(f, at, path), NEW k \in Nat,
         NEW d \in Seq(Spelt), NEW n \in 0 .. Len(d), NEW l \in Nat, f[k] = At(d, n, l),
         NEW e \in n .. Len(d), Plain(at, d, e)
  PROVE  f[k + (e - n)] = At(d, e, l)
<1> DEFINE S == {i \in Nat : n + i <= e => f[k + i] = At(d, n + i, l)}
<1>1. Len(d) \in Nat /\ n \in Nat /\ e \in Nat /\ n <= e /\ e <= Len(d)
  BY LenProperties
<1>2. 0 \in S
  BY <1>1
<1>3. ASSUME NEW i \in Nat, i \in S PROVE i + 1 \in S
  <2> SUFFICES ASSUME n + (i + 1) <= e PROVE f[k + (i + 1)] = At(d, n + (i + 1), l)
    OBVIOUS
  <2> DEFINE m == n + i
             w == At(d, m, l)
  <2>1. m \in 0 .. Len(d) /\ m < Len(d) /\ m + 1 = n + (i + 1) /\ m + 1 \in 1 .. e /\ m < e
    BY <1>1
  <2>2. f[k + i] = w
    BY <1>1, <1>3
  <2>3. f[k + (i + 1)] = Step(at, f[k + i])
    <3>1. k + i \in Nat /\ k + (i + 1) = (k + i) + 1
      OBVIOUS
    <3> QED BY <3>1 DEF Follows
  <2>4. /\ w \in Walks /\ Going(w) /\ w.done = SubSeq(d, 1, m)
        /\ Ahead(w) = SubSeq(d, 1, m + 1) /\ Passed(w) = At(d, m + 1, l)
    <3> HIDE DEF m
    <3> QED BY <2>1, AtParts
  <2>5. Node(at, Ahead(w)).kind \notin {"nothing", "link"}
    BY <2>1, <2>4 DEF Plain
  <2>6. IsDir(Node(at, w.done))
    <3>1. CASE m = 0
      <4>1. w.done = <<>>
        <5>1. SubSeq(d, 1, 0) = <<>>
          BY SubSeqEmpty
        <5> QED BY <2>4, <3>1, <5>1
      <4> QED BY <4>1, RootIsDir
    <3>2. CASE m # 0
      <4>1. m \in 1 .. e
        BY <1>1, <2>1, <3>2
      <4> HIDE DEF m, w
      <4> QED BY <2>1, <2>4, <4>1 DEF Plain
    <3> QED BY <3>1, <3>2
  <2> HIDE DEF w
  <2>7. Step(at, w) = Passed(w)
    BY <2>4, <2>5, <2>6, StepTaken
  <2> QED BY <2>1, <2>2, <2>3, <2>4, <2>7
<1>4. e - n \in Nat /\ n + (e - n) = e
  BY <1>1
<1> HIDE DEF S
<1>5. e - n \in S
  BY <1>2, <1>3, <1>4, Ascends
<1>6. n + (e - n) <= e => f[k + (e - n)] = At(d, n + (e - n), l)
  BY <1>4, <1>5 DEF S
<1> QED
  BY <1>1, <1>4, <1>6

(* What a path leads to, from any step at which its walk is over.          *)
LEMMA Resolves ==
  ASSUME NEW at, Mapped(at), NEW path \in Seq(Spelt), NEW k \in Nat, ~ Going(Walk(at, path)[k])
  PROVE  LET w == Walk(at, path)[k]
         IN  EvalSymlinks(at, path) = [path |-> IF w.error = None THEN w.done ELSE <<>>, error |-> w.error]
<1> DEFINE f == Walk(at, path)
<1>1. Follows(f, at, path)
  BY WalkFollows
<1>2. EvalSymlinks(at, path) =
        LET w == f[Most(path)] IN [path |-> IF w.error = None THEN w.done ELSE <<>>, error |-> w.error]
  BY DEF EvalSymlinks, Most
<1> HIDE DEF f
<1>3. f[Most(path)] = f[k]
  BY <1>1, Ending DEF f
<1> QED
  BY <1>2, <1>3 DEF f

(* The walk of a path starts straight along it.                            *)
LEMMA StartAt ==
  ASSUME NEW at, Mapped(at), NEW path \in Seq(Spelt)
  PROVE  Walk(at, path)[0] = At(path, 0, Links)
<1>1. SubSeq(path, 1, 0) = <<>>
  BY SubSeqEmpty
<1>2. SubSeq(path, 0 + 1, Len(path)) = path
  <2>1. 0 + 1 = 1
    OBVIOUS
  <2> QED BY <2>1, SubSeqFull
<1>3. Walk(at, path)[0] = Start(path)
  BY WalkFollows DEF Follows
<1> QED
  BY <1>1, <1>2, <1>3 DEF Start, At

(* A part of a path, and its parts.                                        *)
LEMMA PartOf ==
  ASSUME NEW path \in Seq(Spelt), NEW m \in 0 .. Len(path)
  PROVE  /\ SubSeq(path, 1, m) \in Seq(Spelt) /\ Len(SubSeq(path, 1, m)) = m
         /\ \A j \in 0 .. m : SubSeq(SubSeq(path, 1, m), 1, j) = SubSeq(path, 1, j)
<1>1. Len(path) \in Nat /\ \A i \in 1 .. Len(path) : path[i] \in Spelt
  BY LenProperties, ElementOfSeq
<1>2. ASSUME NEW j \in 0 .. m
      PROVE  SubSeq(path, 1, j) \in Seq(Spelt) /\ Len(SubSeq(path, 1, j)) = j
  <2>1. 1 \in Int /\ j \in Int /\ \A i \in 1 .. j : path[i] \in Spelt
    BY <1>1
  <2>2. /\ SubSeq(path, 1, j) \in Seq(Spelt)
        /\ Len(SubSeq(path, 1, j)) = IF 1 <= j THEN j - 1 + 1 ELSE 0
    BY <2>1, SubSeqProperties
  <2>3. (IF 1 <= j THEN j - 1 + 1 ELSE 0) = j
    BY <1>1
  <2> QED BY <2>2, <2>3
<1>3. m \in 0 .. m
  BY <1>1
<1>4. SubSeq(path, 1, m) \in Seq(Spelt) /\ Len(SubSeq(path, 1, m)) = m
  BY <1>2, <1>3
<1>5. ASSUME NEW j \in 0 .. m PROVE SubSeq(SubSeq(path, 1, m), 1, j) = SubSeq(path, 1, j)
  <2>1. CASE j = 0
    <3>1. SubSeq(SubSeq(path, 1, m), 1, 0) = <<>> /\ SubSeq(path, 1, 0) = <<>>
      BY SubSeqEmpty
    <3> QED BY <2>1, <3>1
  <2>2. CASE j # 0
    <3>1. 1 \in 1 .. Len(path) /\ m \in 1 .. Len(path) /\ 1 \in 1 .. m - 1 + 1 /\ j \in 1 .. m - 1 + 1
      BY <1>1, <2>2
    <3>2. SubSeq(SubSeq(path, 1, m), 1, j) = SubSeq(path, 1 + 1 - 1, 1 + j - 1)
      BY <3>1, SubSeqOfSubSeq
    <3>3. 1 + 1 - 1 = 1 /\ 1 + j - 1 = j
      BY <1>1
    <3> QED BY <3>2, <3>3
  <2> QED BY <2>1, <2>2
<1> QED
  BY <1>4, <1>5

(* A part of a path that is in place leads to itself.                      *)
LEMMA PlainResolved ==
  ASSUME NEW at, Mapped(at), NEW path \in Seq(Spelt), NEW e \in 0 .. Len(path), Plain(at, path, e),
         NEW m \in 0 .. e
  PROVE  EvalSymlinks(at, SubSeq(path, 1, m)) = [path |-> SubSeq(path, 1, m), error |-> None]
<1> DEFINE p == SubSeq(path, 1, m)
           f == Walk(at, p)
<1>1. m \in 0 .. Len(path) /\ m \in Nat /\ e \in Nat /\ m <= e
  BY LenProperties
<1>2. p \in Seq(Spelt) /\ Len(p) = m /\ \A j \in 0 .. m : SubSeq(p, 1, j) = SubSeq(path, 1, j)
  BY <1>1, PartOf
<1> HIDE DEF p
<1>3. Plain(at, p, m)
  <2> SUFFICES ASSUME NEW j \in 1 .. m
               PROVE  /\ Node(at, SubSeq(p, 1, j)).kind \notin {"nothing", "link"}
                      /\ j < m => IsDir(Node(at, SubSeq(p, 1, j)))
    BY DEF Plain
  <2>1. j \in 0 .. m /\ j \in 1 .. e /\ (j < m => j < e)
    BY <1>1
  <2>2. SubSeq(p, 1, j) = SubSeq(path, 1, j)
    BY <1>2, <2>1
  <2> QED BY <2>1, <2>2 DEF Plain
<1>4. Follows(f, at, p) /\ f[0] = At(p, 0, Links)
  BY <1>2, WalkFollows, StartAt
<1> HIDE DEF f
<1>5. f[0 + (m - 0)] = At(p, m, Links)
  <2>1. 0 \in 0 .. Len(p) /\ m \in 0 .. Len(p) /\ 0 \in Nat /\ Links \in Nat
    BY <1>1, <1>2, BoundsTyped
  <2> QED BY <1>2, <1>3, <1>4, <2>1, Straight
<1>6. f[m] = At(p, m, Links)
  <2>1. 0 + (m - 0) = m
    BY <1>1
  <2> QED BY <1>5, <2>1
<1>7. ~ Going(f[m]) /\ f[m].done = SubSeq(p, 1, m) /\ f[m].error = None
  <2>1. m \in 0 .. Len(p) /\ ~ (m < Len(p))
    BY <1>1, <1>2
  <2>2. ~ Going(At(p, m, Links)) /\ At(p, m, Links).done = SubSeq(p, 1, m)
    BY <1>2, <2>1, AtParts, BoundsTyped
  <2>3. At(p, m, Links).error = None
    BY DEF At
  <2> QED BY <1>6, <2>2, <2>3
<1>8. SubSeq(p, 1, m) = p
  BY <1>2, SubSeqFull
<1>9. EvalSymlinks(at, p) = [path |-> p, error |-> None]
  BY <1>1, <1>2, <1>7, <1>8, Resolves DEF f
<1> QED
  BY <1>9 DEF p

(* A path that goes on where there is nothing leads nowhere.               *)
LEMMA NothingUnresolved ==
  ASSUME NEW at, Mapped(at), NEW path \in Seq(Spelt), NEW e \in 0 .. Len(path), Plain(at, path, e),
         NEW m \in e + 1 .. Len(path), Node(at, SubSeq(path, 1, e + 1)).kind = "nothing"
  PROVE  EvalSymlinks(at, SubSeq(path, 1, m)).error # None
<1> DEFINE p == SubSeq(path, 1, m)
           f == Walk(at, p)
<1>1. m \in 0 .. Len(path) /\ m \in Nat /\ e \in Nat /\ e < m /\ e \in 0 .. m /\ e + 1 \in 0 .. m
  BY LenProperties
<1>2. p \in Seq(Spelt) /\ Len(p) = m /\ \A j \in 0 .. m : SubSeq(p, 1, j) = SubSeq(path, 1, j)
  BY <1>1, PartOf
<1> HIDE DEF p
<1>3. Plain(at, p, e)
  <2> SUFFICES ASSUME NEW j \in 1 .. e
               PROVE  /\ Node(at, SubSeq(p, 1, j)).kind \notin {"nothing", "link"}
                      /\ j < e => IsDir(Node(at, SubSeq(p, 1, j)))
    BY DEF Plain
  <2>1. j \in 0 .. m
    BY <1>1
  <2>2. SubSeq(p, 1, j) = SubSeq(path, 1, j)
    BY <1>2, <2>1
  <2> QED BY <2>2 DEF Plain
<1>4. Follows(f, at, p) /\ f[0] = At(p, 0, Links)
  BY <1>2, WalkFollows, StartAt
<1> HIDE DEF f
<1>5. f[0 + (e - 0)] = At(p, e, Links)
  <2>1. 0 \in 0 .. Len(p) /\ e \in 0 .. Len(p) /\ 0 \in Nat /\ Links \in Nat
    BY <1>1, <1>2, BoundsTyped
  <2> QED BY <1>2, <1>3, <1>4, <2>1, Straight
<1>6. f[e] = At(p, e, Links) /\ f[e + 1] = Step(at, f[e]) /\ f[e + 1] \in Walks
  <2>1. 0 + (e - 0) = e /\ e + 1 \in Nat
    BY <1>1
  <2> QED BY <1>1, <1>4, <1>5, <2>1 DEF Follows
<1>7. f[e] \in Walks /\ Going(f[e]) /\ Ahead(f[e]) = SubSeq(path, 1, e + 1)
  <2>1. e \in 0 .. Len(p) /\ e < Len(p)
    BY <1>1, <1>2
  <2>2. At(p, e, Links) \in Walks /\ Going(At(p, e, Links)) /\ Ahead(At(p, e, Links)) = SubSeq(p, 1, e + 1)
    BY <1>2, <2>1, AtParts, BoundsTyped
  <2> QED BY <1>1, <1>2, <1>6, <2>2
<1>8. f[e + 1].error # None
  <2>1. Node(at, Ahead(f[e])).kind = "nothing"
    BY <1>7
  <2>2. PICK x \in {"not a directory", "missing", "too many links"} :
          Step(at, f[e]) = [done |-> f[e].done, rest |-> f[e].rest, links |-> f[e].links, error |-> x]
    BY <1>7, <2>1, StepTaken
  <2> DEFINE stopped == [done |-> f[e].done, rest |-> f[e].rest, links |-> f[e].links, error |-> x]
  <2>3. stopped.error = x /\ x # None
    BY ErrorsAreErrors
  <2> HIDE DEF stopped
  <2> QED BY <1>6, <2>2, <2>3 DEF stopped
<1>9. EvalSymlinks(at, p).error = f[e + 1].error
  <2>1. ~ Going(f[e + 1]) /\ e + 1 \in Nat
    BY <1>1, <1>8 DEF Going
  <2>2. EvalSymlinks(at, p) =
          [path |-> IF f[e + 1].error = None THEN f[e + 1].done ELSE <<>>, error |-> f[e + 1].error]
    BY <1>2, <2>1, Resolves DEF f
  <2> DEFINE x == f[e + 1].error  d == f[e + 1].done
  <2> HIDE DEF x, d
  <2> QED BY <2>2 DEF x, d
<1> QED
  BY <1>8, <1>9 DEF p

(* A path at or below cut. *)
Beyond(p, cut) == Len(p) >= Len(cut) /\ SubSeq(p, 1, Len(cut)) = cut

(* Hosts that differ only at and below cut, where one of them has nothing. *)
Apart(at, to, cut) ==
  /\ cut \in Seq(Spelt) /\ cut # <<>> /\ Node(at, cut).kind = "nothing"
  /\ \A p \in Seq(Spelt) : ~ Beyond(p, cut) => Node(to, p) = Node(at, p)

(* They are walked the same while that one is walked without an error.     *)
LEMMA SameWalk ==
  ASSUME NEW at, Mapped(at), NEW to, NEW path,
         NEW cut, Apart(at, to, cut), NEW f, Follows(f, at, path), NEW g, Follows(g, to, path),
         NEW k \in Nat, f[k].error = None
  PROVE  g[k] = f[k]
<1> DEFINE S == {i \in Nat : f[i].error = None => g[i] = f[i]}
<1>1. 0 \in S
  BY DEF Follows
<1>2. ASSUME NEW i \in Nat, i \in S PROVE i + 1 \in S
  <2> SUFFICES ASSUME f[i + 1].error = None PROVE g[i + 1] = f[i + 1]
    OBVIOUS
  <2> DEFINE w == f[i]
  <2>1. w \in Walks /\ f[i + 1] = Step(at, w) /\ g[i + 1] = Step(to, g[i])
    BY DEF Follows
  <2>2. w.error = None
    BY <2>1, StepOver DEF Going
  <2>3. g[i] = w
    BY <1>2, <2>2
  <2> HIDE DEF w, S
  <2>4. CASE ~ Going(w)
    BY <2>1, <2>3, <2>4, StepOver
  <2>5. CASE Going(w)
    <3> DEFINE d == w.done  x == Head(w.rest)
    <3>1. d \in Seq(Spelt) /\ x \in Spelt
      BY <2>1, <2>5, WalkParts, HeadTailProperties DEF Going
    <3>2. Ahead(w) = Append(d, x)
      BY DEF Ahead
    <3>3. Plain(at, d, Len(d))
      BY WalkPlain DEF w
    <3>4. Node(at, Ahead(w)).kind # "nothing"
      <4>1. ASSUME NEW e \in {"not a directory", "missing", "too many links"},
                   Step(at, w) = [done |-> w.done, rest |-> w.rest, links |-> w.links, error |-> e]
            PROVE  FALSE
        <5> DEFINE stopped == [done |-> w.done, rest |-> w.rest, links |-> w.links, error |-> e]
        <5>1. stopped.error = e /\ e # None
          BY ErrorsAreErrors
        <5> HIDE DEF stopped
        <5> QED BY <2>1, <4>1, <5>1 DEF stopped
      <4> QED BY <2>1, <2>5, <4>1, StepTaken
    <3> HIDE DEF d, x
    <3>5. /\ Append(d, x) \in Seq(Spelt) /\ Len(Append(d, x)) = Len(d) + 1 /\ Len(d) \in Nat
          /\ \A m \in 0 .. Len(d) : SubSeq(Append(d, x), 1, m) = SubSeq(d, 1, m)
          /\ SubSeq(Append(d, x), 1, Len(d) + 1) = Append(d, x)
      BY <3>1, AppendParts
    <3>6. Len(cut) \in Nat /\ Len(cut) # 0
      BY EmptySeq DEF Apart
    <3>7. ~ Beyond(d, cut)
      <4> SUFFICES ASSUME Beyond(d, cut) PROVE FALSE
        OBVIOUS
      <4>1. Len(cut) \in 1 .. Len(d) /\ SubSeq(d, 1, Len(cut)) = cut
        BY <3>5, <3>6 DEF Beyond
      <4> QED BY <3>3, <4>1 DEF Plain, Apart
    <3>8. ~ Beyond(Append(d, x), cut)
      <4> SUFFICES ASSUME Beyond(Append(d, x), cut) PROVE FALSE
        OBVIOUS
      <4>1. Len(cut) <= Len(d) + 1 /\ SubSeq(Append(d, x), 1, Len(cut)) = cut
        BY <3>5 DEF Beyond
      <4>2. CASE Len(cut) = Len(d) + 1
        BY <3>2, <3>4, <3>5, <4>1, <4>2 DEF Apart
      <4>3. CASE Len(cut) # Len(d) + 1
        <5>1. Len(cut) \in 0 .. Len(d) /\ Len(cut) <= Len(d)
          <6>1. Len(d) \in Nat
            BY <3>5
          <6>2. Len(cut) <= Len(d) + 1
            BY <4>1
          <6> QED BY <3>6, <4>3, <6>1, <6>2
        <5>2. SubSeq(d, 1, Len(cut)) = cut
          BY <3>5, <4>1, <5>1
        <5> QED BY <3>5, <3>6, <3>7, <5>1, <5>2 DEF Beyond
      <4> QED BY <4>2, <4>3
    <3>9. Node(to, w.done) = Node(at, w.done) /\ Node(to, Ahead(w)) = Node(at, Ahead(w))
      BY <3>1, <3>2, <3>5, <3>7, <3>8 DEF d, Apart
    <3>10. Step(to, w) = Step(at, w)
      BY <3>9, Zenon DEF Step, Ahead
    <3> QED BY <2>1, <2>3, <3>10
  <2> QED BY <2>4, <2>5
<1> HIDE DEF S
<1>3. \A i \in Nat : i \in S
  BY <1>1, <1>2, Ascends
<1> QED BY <1>3 DEF S

-----------------------------------------------------------------------------
(* What resolve finds, and what MkdirAll makes.                            *)

(* The longest part that can be followed, which there is.                  *)
LEMMA FollowedIs ==
  ASSUME NEW at, Mapped(at), NEW path \in Seq(Spelt)
  PROVE  LET along == Along(at, path)
             n == Followed(along)
         IN  /\ DOMAIN along = 0 .. Len(path)
             /\ \A m \in 0 .. Len(path) : along[m] = EvalSymlinks(at, SubSeq(path, 1, m))
             /\ n \in 0 .. Len(path) /\ along[n].error = None
             /\ \A m \in 0 .. Len(path) : m > n => along[m].error # None
<1> DEFINE along == Along(at, path)
           Highest(n) == along[n].error = None /\ \A m \in DOMAIN along : m > n => along[m].error # None
<1>1. /\ DOMAIN along = 0 .. Len(path)
      /\ \A m \in 0 .. Len(path) : along[m] = EvalSymlinks(at, SubSeq(path, 1, m))
  BY DEF Along
<1>2. Len(path) \in Nat
  BY LenProperties
<1>3. along[0].error = None
  <2>1. Plain(at, path, 0)
    BY DEF Plain
  <2>2. EvalSymlinks(at, SubSeq(path, 1, 0)) = [path |-> SubSeq(path, 1, 0), error |-> None]
    <3>1. 0 \in 0 .. Len(path) /\ 0 \in 0 .. 0
      BY <1>2
    <3> QED BY <2>1, <3>1, PlainResolved
  <2>3. 0 \in 0 .. Len(path)
    BY <1>2
  <2>4. along[0] = [path |-> SubSeq(path, 1, 0), error |-> None]
    BY <1>1, <2>2, <2>3
  <2> HIDE DEF along
  <2> QED BY <2>4
<1> HIDE DEF along
<1> DEFINE T == {j \in Nat : j <= Len(path) /\ along[Len(path) - j].error = None}
<1>4. Len(path) \in T
  BY <1>2, <1>3
<1>5. PICK j \in T : \A i \in T : j <= i
  <2>1. T \in SUBSET Nat /\ T # {}
    BY <1>4
  <2> HIDE DEF T
  <2> QED BY <2>1, Least
<1> DEFINE n == Len(path) - j
<1>6. n \in DOMAIN along /\ Highest(n)
  <2>1. n \in 0 .. Len(path) /\ along[n].error = None
    BY <1>2, <1>5
  <2>2. ASSUME NEW m \in 0 .. Len(path), m > n PROVE along[m].error # None
    <3>1. Len(path) - m \in Nat /\ Len(path) - m < j /\ Len(path) - (Len(path) - m) = m
      BY <1>2, <1>5, <2>1, <2>2
    <3>2. Len(path) - m \notin T
      <4> HIDE DEF T, n
      <4>1. j \in Nat
        BY <1>5 DEF T
      <4> QED BY <1>5, <3>1, <4>1
    <3>3. Len(path) - m <= Len(path)
      BY <1>2, <3>1
    <3> QED BY <3>1, <3>2, <3>3
  <2> QED BY <1>1, <2>1, <2>2
<1>7. Followed(along) \in DOMAIN along /\ Highest(Followed(along))
  <2>1. Followed(along) = CHOOSE i \in DOMAIN along : Highest(i)
    BY DEF Followed
  <2> HIDE DEF Highest, n
  <2> QED BY <1>6, <2>1
<1> QED
  BY <1>1, <1>7 DEF along

(* MkdirAll makes nothing of a directory that is there.                    *)
LEMMA MadeNothing ==
  ASSUME NEW at, Mapped(at), NEW path \in Seq(Spelt), Plain(at, path, Len(path))
  PROVE  MkdirAll(at, path) = at
<1> DEFINE along == Along(at, path)
<1>1. \A m \in DOMAIN along : along[m].error = None
  <2> SUFFICES ASSUME NEW m \in DOMAIN along PROVE along[m].error = None
    OBVIOUS
  <2>1. m \in 0 .. Len(path) /\ along[m] = EvalSymlinks(at, SubSeq(path, 1, m))
    BY FollowedIs
  <2>2. Len(path) \in 0 .. Len(path)
    BY LenProperties
  <2>3. EvalSymlinks(at, SubSeq(path, 1, m)) = [path |-> SubSeq(path, 1, m), error |-> None]
    BY <2>1, <2>2, PlainResolved
  <2> HIDE DEF along
  <2> QED BY <2>1, <2>3
<1> HIDE DEF along
<1>2. {m \in DOMAIN along : along[m].error # None} = {}
  BY <1>1
<1>3. Made(at, path, along) = at
  BY <1>2 DEF Made
<1> QED
  BY <1>3 DEF MkdirAll, along

(* The parts of path below its e-th. *)
Below(path, e) == {SubSeq(path, 1, m) : m \in e + 1 .. Len(path)}

(* A host with directories at the paths of dirs. *)
With(at, dirs) == [p \in DOMAIN at \cup dirs |-> IF p \in dirs THEN Here("dir") ELSE at[p]]

(* MkdirAll of a path whose first e parts are in place and which goes on   *)
(* where there is nothing makes the others.                                *)
LEMMA MadeBelow ==
  ASSUME NEW at, Mapped(at), NEW path \in Seq(Spelt), NEW e \in 0 .. Len(path), e < Len(path),
         Plain(at, path, e), Creatable(at, SubSeq(path, 1, e)),
         Node(at, SubSeq(path, 1, e + 1)).kind = "nothing"
  PROVE  MkdirAll(at, path) = With(at, Below(path, e))
<1> DEFINE along == Along(at, path)
           missing == {m \in DOMAIN along : along[m].error # None}
<1>1. Len(path) \in Nat /\ e \in Nat
  BY LenProperties
<1>2. /\ DOMAIN along = 0 .. Len(path)
      /\ \A m \in 0 .. Len(path) : along[m] = EvalSymlinks(at, SubSeq(path, 1, m))
      /\ Followed(along) \in 0 .. Len(path) /\ along[Followed(along)].error = None
      /\ \A m \in 0 .. Len(path) : m > Followed(along) => along[m].error # None
  BY FollowedIs
<1>3. ASSUME NEW m \in 0 .. e PROVE along[m] = [path |-> SubSeq(path, 1, m), error |-> None]
  <2>1. m \in 0 .. Len(path)
    BY <1>1
  <2>2. EvalSymlinks(at, SubSeq(path, 1, m)) = [path |-> SubSeq(path, 1, m), error |-> None]
    BY PlainResolved
  <2> QED BY <1>2, <2>1, <2>2
<1>4. ASSUME NEW m \in e + 1 .. Len(path) PROVE along[m].error # None
  <2>1. m \in 0 .. Len(path)
    BY <1>1
  <2>2. EvalSymlinks(at, SubSeq(path, 1, m)).error # None
    BY NothingUnresolved
  <2> QED BY <1>2, <2>1, <2>2
<1> HIDE DEF along
<1>5. along[e].error = None /\ along[e].path = SubSeq(path, 1, e)
  <2>1. e \in 0 .. e
    BY <1>1
  <2>2. along[e] = [path |-> SubSeq(path, 1, e), error |-> None]
    BY <1>3, <2>1
  <2> QED BY <2>2
<1>6. Followed(along) = e
  <2>1. ~ (Followed(along) > e)
    <3> SUFFICES ASSUME Followed(along) > e PROVE FALSE
      OBVIOUS
    <3>1. Followed(along) \in e + 1 .. Len(path)
      BY <1>1, <1>2
    <3> QED BY <1>2, <1>4, <3>1
  <2>2. ~ (e > Followed(along))
    BY <1>1, <1>2, <1>5
  <2> QED BY <1>1, <1>2, <2>1, <2>2
<1>7. missing = e + 1 .. Len(path)
  <2>1. \A m \in 0 .. e : along[m].error = None
    <3> SUFFICES ASSUME NEW m \in 0 .. e PROVE along[m].error = None
      OBVIOUS
    <3>1. along[m] = [path |-> SubSeq(path, 1, m), error |-> None]
      BY <1>3
    <3> QED BY <3>1
  <2>2. \A m \in 0 .. Len(path) : m \in 0 .. e \/ m \in e + 1 .. Len(path)
    BY <1>1
  <2>3. \A m \in e + 1 .. Len(path) : m \in 0 .. Len(path)
    BY <1>1
  <2> QED BY <1>2, <1>4, <2>1, <2>2, <2>3
<1>8. ASSUME NEW m \in e + 1 .. Len(path) PROVE ~ Lstat(at, path, along, m)
  <2>1. m # 0
    BY <1>1
  <2>2. CASE m = e + 1
    <3>1. m - 1 = e
      BY <1>1, <2>2
    <3>2. Append(SubSeq(path, 1, e), path[e + 1]) = SubSeq(path, 1, e + 1)
      <4>1. /\ e + 1 \in 1 .. Len(path) /\ 1 \in 1 .. Len(path) /\ e + 1 \in 1 .. Len(path)
            /\ (e + 1) - 1 = e /\ e \in 0 .. Len(path)
        BY <1>1
      <4>2. SubSeq(path, 1, e + 1) = SubSeq(path, 1, (e + 1) - 1) \o <<path[e + 1]>>
        BY <4>1, SubSeqRecursiveSecond
      <4>3. path[e + 1] \in Spelt /\ SubSeq(path, 1, e) \in Seq(Spelt)
        BY <4>1, ElementOfSeq, PartOf
      <4>4. Append(SubSeq(path, 1, e), path[e + 1]) = SubSeq(path, 1, e) \o <<path[e + 1]>>
        BY <4>3, AppendIsConcat
      <4> QED BY <4>1, <4>2, <4>4
    <3>3. Node(at, Append(along[m - 1].path, path[m])).kind = "nothing"
      BY <1>5, <2>2, <3>1, <3>2
    <3> QED BY <2>1, <3>3 DEF Lstat
  <2>3. CASE m # e + 1
    <3>1. m - 1 \in e + 1 .. Len(path)
      BY <1>1, <2>3
    <3>2. along[m - 1].error # None
      BY <1>4, <3>1
    <3> QED BY <2>1, <3>2 DEF Lstat
  <2> QED BY <2>2, <2>3
<1>9. missing # {}
  <2>1. e + 1 \in e + 1 .. Len(path)
    BY <1>1
  <2> HIDE DEF missing
  <2> QED BY <1>7, <2>1
<1>10. Creatable(at, along[Followed(along)].path)
  BY <1>5, <1>6
<1> HIDE DEF missing
<1>11. Made(at, path, along) = With(at, {SubSeq(path, 1, m) : m \in missing})
  <2>1. ~ \E m \in missing : Lstat(at, path, along, m)
    BY <1>7, <1>8
  <2> QED BY <1>9, <1>10, <2>1 DEF Made, With, missing
<1>12. {SubSeq(path, 1, m) : m \in missing} = Below(path, e)
  BY <1>7 DEF Below
<1> QED
  BY <1>11, <1>12 DEF MkdirAll, along

(* What is on a host with the parts of a path below its e-th.              *)
LEMMA NodesBelow ==
  ASSUME NEW at, Mapped(at), NEW path \in Seq(Spelt), NEW e \in 0 .. Len(path)
  PROVE  LET to == With(at, Below(path, e))
         IN  /\ Mapped(to)
             /\ \A m \in e + 1 .. Len(path) : Node(to, SubSeq(path, 1, m)) = Here("dir")
             /\ \A p \in Seq(Spelt) : p \notin Below(path, e) => Node(to, p) = Node(at, p)
<1> DEFINE dirs == Below(path, e)
           to == With(at, dirs)
<1>1. DOMAIN to = DOMAIN at \cup dirs /\ \A p \in DOMAIN to : to[p] = IF p \in dirs THEN Here("dir") ELSE at[p]
  BY DEF With
<1> HIDE DEF to
<1>2. Mapped(to)
  <2> SUFFICES ASSUME NEW p \in DOMAIN to PROVE to[p].link \in Seq(Spelt) /\ Len(to[p].link) <= Parts
    BY DEF Mapped
  <2>1. CASE p \in dirs
    <3>1. to[p] = Here("dir")
      BY <1>1, <2>1
    <3>2. Here("dir").link = <<>> /\ <<>> \in Seq(Spelt) /\ Len(<<>>) = 0 /\ 0 <= Parts
      BY BoundsTyped DEF Here
    <3> QED BY <3>1, <3>2
  <2>2. CASE p \notin dirs
    BY <1>1, <2>2 DEF Mapped
  <2> QED BY <2>1, <2>2
<1>3. ASSUME NEW m \in e + 1 .. Len(path) PROVE Node(to, SubSeq(path, 1, m)) = Here("dir")
  <2>1. SubSeq(path, 1, m) \in dirs
    BY DEF Below
  <2>2. to[SubSeq(path, 1, m)] = Here("dir") /\ SubSeq(path, 1, m) \in DOMAIN to
    BY <1>1, <2>1
  <2> QED BY <2>2 DEF Node
<1>4. ASSUME NEW p \in Seq(Spelt), p \notin dirs PROVE Node(to, p) = Node(at, p)
  <2>1. p \in DOMAIN to <=> p \in DOMAIN at
    BY <1>1, <1>4
  <2>2. p \in DOMAIN to => to[p] = at[p]
    BY <1>1, <1>4
  <2> QED BY <2>1, <2>2 DEF Node
<1> QED
  BY <1>2, <1>3, <1>4 DEF to

(* None of them is the e-th part, or above, and all are at or below the    *)
(* next.                                                                   *)
LEMMA BelowTheNext ==
  ASSUME NEW path \in Seq(Spelt), NEW e \in 0 .. Len(path), e < Len(path)
  PROVE  /\ SubSeq(path, 1, e + 1) \in Seq(Spelt) /\ SubSeq(path, 1, e + 1) # <<>>
         /\ \A m \in 0 .. e : SubSeq(path, 1, m) \in Seq(Spelt) \ Below(path, e)
         /\ \A p \in Below(path, e) : Beyond(p, SubSeq(path, 1, e + 1))
<1>1. Len(path) \in Nat /\ e \in Nat /\ e + 1 \in 0 .. Len(path)
  BY LenProperties
<1>2. \A m \in 0 .. Len(path) : SubSeq(path, 1, m) \in Seq(Spelt) /\ Len(SubSeq(path, 1, m)) = m
  BY PartOf
<1>3. SubSeq(path, 1, e + 1) \in Seq(Spelt) /\ Len(SubSeq(path, 1, e + 1)) = e + 1
  BY <1>1, <1>2
<1>4. SubSeq(path, 1, e + 1) # <<>>
  BY <1>1, <1>3, EmptySeq
<1>5. ASSUME NEW m \in 0 .. e PROVE SubSeq(path, 1, m) \in Seq(Spelt) \ Below(path, e)
  <2>1. m \in 0 .. Len(path)
    BY <1>1
  <2>2. ASSUME NEW i \in e + 1 .. Len(path) PROVE SubSeq(path, 1, m) # SubSeq(path, 1, i)
    <3>1. i \in 0 .. Len(path) /\ i # m
      BY <1>1
    <3>2. Len(SubSeq(path, 1, m)) = m /\ Len(SubSeq(path, 1, i)) = i
      BY <1>2, <2>1, <3>1
    <3> QED BY <3>1, <3>2
  <2> QED BY <1>2, <2>1, <2>2 DEF Below
<1>6. ASSUME NEW m \in e + 1 .. Len(path) PROVE Beyond(SubSeq(path, 1, m), SubSeq(path, 1, e + 1))
  <2>1. m \in 0 .. Len(path) /\ e + 1 \in 0 .. m /\ m >= e + 1
    BY <1>1
  <2>2. Len(SubSeq(path, 1, m)) = m /\ SubSeq(SubSeq(path, 1, m), 1, e + 1) = SubSeq(path, 1, e + 1)
    BY <2>1, PartOf
  <2> QED BY <1>3, <2>1, <2>2 DEF Beyond
<1> QED
  BY <1>3, <1>4, <1>5, <1>6 DEF Below
-----------------------------------------------------------------------------
(* A bind, and what becomes of it.                                         *)

(* A path that can be followed: what its walk has come to is in place, and *)
(* its end, and leads to itself.                                           *)
LEMMA Ended ==
  ASSUME NEW at, Mapped(at), NEW path \in Seq(Spelt), EvalSymlinks(at, path).error = None
  PROVE  LET d == EvalSymlinks(at, path).path
         IN  /\ EvalSymlinks(at, path) = [path |-> d, error |-> None]
             /\ d \in Seq(Spelt) /\ Plain(at, d, Len(d))
             /\ \E k, l \in Nat : Walk(at, path)[k] = At(d, Len(d), l)
<1> DEFINE f == Walk(at, path)
           k == Most(path)
           w == f[k]
           d == EvalSymlinks(at, path).path
<1>1. Follows(f, at, path)
  BY WalkFollows
<1>2. k \in Nat /\ ~ Going(w)
  <2> HIDE DEF f
  <2> QED BY <1>1, WalkEnds
<1>3. EvalSymlinks(at, path) = [path |-> IF w.error = None THEN w.done ELSE <<>>, error |-> w.error]
  <2> HIDE DEF k
  <2> QED BY <1>2, Resolves
<1>4. w.error = None /\ d = w.done
  <2> DEFINE x == w.error  y == w.done
  <2> HIDE DEF x, y
  <2>1. EvalSymlinks(at, path) = [path |-> IF x = None THEN y ELSE <<>>, error |-> x]
    BY <1>3 DEF x, y
  <2> QED BY <2>1 DEF x, y
<1>5. EvalSymlinks(at, path) = [path |-> d, error |-> None]
  <2> HIDE DEF d, w
  <2> QED BY <1>3, <1>4
<1> HIDE DEF f, k, d
<1>6. w \in Walks /\ Plain(at, w.done, Len(w.done))
  BY <1>1, <1>2, WalkPlain DEF Follows
<1> HIDE DEF w
<1>7. w.done \in Seq(Spelt) /\ w.rest = <<>> /\ w.links \in Nat
  BY <1>2, <1>4, <1>6, WalkParts DEF Going
<1>8. w = At(d, Len(d), w.links)
  <2>1. SubSeq(d, 1, Len(d)) = d
    BY <1>4, <1>7, SubSeqFull
  <2>2. SubSeq(d, Len(d) + 1, Len(d)) = <<>>
    <3>1. Len(d) \in Int /\ Len(d) + 1 \in Int /\ Len(d) < Len(d) + 1
      BY <1>4, <1>7, LenProperties
    <3> QED BY <3>1, SubSeqEmpty
  <2>3. w = [done |-> w.done, rest |-> w.rest, links |-> w.links, error |-> w.error]
    BY <1>6, WalkParts
  <2> QED BY <1>4, <1>7, <2>1, <2>2, <2>3 DEF At
<1> QED
  BY <1>2, <1>4, <1>5, <1>6, <1>7, <1>8 DEF d, w, f

(* A path and what is written after it.                                    *)
LEMMA Joined ==
  ASSUME NEW d \in Seq(Spelt), NEW q \in Seq(Spelt), q # <<>>
  PROVE  /\ d \o q \in Seq(Spelt) /\ Len(d) \in 0 .. Len(d \o q) /\ Len(d) < Len(d \o q)
         /\ \A m \in 0 .. Len(d) : SubSeq(d \o q, 1, m) = SubSeq(d, 1, m)
         /\ SubSeq(d \o q, 1, Len(d)) = d
         /\ SubSeq(d \o q, 1, Len(d) + 1) = Append(d, q[1])
         /\ \A l : Longer(At(d, Len(d), l), q) = At(d \o q, Len(d), l)
<1> DEFINE r == d \o q
<1>1. Len(d) \in Nat /\ Len(q) \in Nat /\ Len(q) # 0
  BY LenProperties, EmptySeq
<1>2. r \in Seq(Spelt) /\ Len(r) = Len(d) + Len(q) /\ r[Len(d) + 1] = q[1]
  <2>1. /\ r \in Seq(Spelt) /\ Len(r) = Len(d) + Len(q)
        /\ \A i \in 1 .. Len(d) + Len(q) : r[i] = IF i <= Len(d) THEN d[i] ELSE q[i - Len(d)]
    BY ConcatProperties
  <2> HIDE DEF r
  <2>2. Len(d) + 1 \in 1 .. Len(d) + Len(q) /\ ~ (Len(d) + 1 <= Len(d)) /\ (Len(d) + 1) - Len(d) = 1
    BY <1>1
  <2> QED BY <2>1, <2>2
<1>3. Len(d) \in 0 .. Len(r) /\ Len(d) < Len(r) /\ Len(d) + 1 \in 1 .. Len(r)
  <2> HIDE DEF r
  <2> QED BY <1>1, <1>2
<1>4. SubSeq(r, 1, Len(d)) = d /\ SubSeq(r, Len(d) + 1, Len(r)) = q
  <2>1. SubSeq(d \o q, 1, Len(d)) = d
    BY SubSeqOfConcat1, SubSeqFull
  <2>2. SubSeq(d \o q, Len(d) + 1, Len(d \o q)) = q
    BY SubSeqOfConcat2, SubSeqFull
  <2> QED BY <2>1, <2>2
<1> HIDE DEF r
<1>5. \A m \in 0 .. Len(d) : SubSeq(r, 1, m) = SubSeq(d, 1, m)
  <2>1. \A m \in 0 .. Len(d) : SubSeq(SubSeq(r, 1, Len(d)), 1, m) = SubSeq(r, 1, m)
    BY <1>2, <1>3, PartOf
  <2> QED BY <1>4, <2>1
<1>6. SubSeq(r, 1, Len(d) + 1) = Append(d, q[1])
  <2>1. SubSeq(r, 1, Len(d) + 1) = SubSeq(r, 1, (Len(d) + 1) - 1) \o <<r[Len(d) + 1]>>
    <3>1. 1 \in 1 .. Len(r)
      BY <1>3
    <3> QED BY <1>2, <1>3, <3>1, SubSeqRecursiveSecond
  <2>2. (Len(d) + 1) - 1 = Len(d)
    BY <1>1
  <2>3. q[1] \in Spelt
    <3>1. 1 \in 1 .. Len(q)
      BY <1>1
    <3> QED BY <3>1, ElementOfSeq
  <2>4. Append(d, q[1]) = d \o <<q[1]>>
    BY <2>3, AppendIsConcat
  <2> QED BY <1>2, <1>4, <2>1, <2>2, <2>4
<1>7. ASSUME NEW l PROVE Longer(At(d, Len(d), l), q) = At(r, Len(d), l)
  <2>1. SubSeq(d, 1, Len(d)) = d
    BY SubSeqFull
  <2>2. SubSeq(d, Len(d) + 1, Len(d)) = <<>>
    <3>1. Len(d) \in Int /\ Len(d) + 1 \in Int /\ Len(d) < Len(d) + 1
      BY <1>1
    <3> QED BY <3>1, SubSeqEmpty
  <2>3. <<>> \o q = q
    BY ConcatEmptySeq
  <2>4. At(d, Len(d), l) = [done |-> d, rest |-> <<>>, links |-> l, error |-> None]
    BY <2>1, <2>2 DEF At
  <2>5. At(r, Len(d), l) = [done |-> d, rest |-> q, links |-> l, error |-> None]
    BY <1>4 DEF At
  <2> QED BY <2>3, <2>4, <2>5 DEF Longer
<1> QED
  BY <1>2, <1>3, <1>4, <1>5, <1>6, <1>7 DEF r

(* A directory made where a path goes on, on a host: the path is walked to *)
(* it by no link but those of the part that was there.                     *)
LEMMA LedBelow ==
  ASSUME NEW at, Mapped(at), NEW p \in Seq(Spelt), NEW q \in Seq(Spelt), q # <<>>,
         EvalSymlinks(at, p).error = None,
         Creatable(at, EvalSymlinks(at, p).path),
         Node(at, Append(EvalSymlinks(at, p).path, q[1])).kind = "nothing"
  PROVE  LET r == EvalSymlinks(at, p).path \o q
             made == MkdirAll(at, r)
         IN  /\ EvalSymlinks(made, p \o q) = [path |-> r, error |-> None]
             /\ EvalSymlinks(made, r) = [path |-> r, error |-> None]
<1> DEFINE d == EvalSymlinks(at, p).path
           r == d \o q
           e == Len(d)
           made == MkdirAll(at, r)
<1>1. d \in Seq(Spelt) /\ Plain(at, d, e)
  BY Ended
<1>2. PICK k, l \in Nat : Walk(at, p)[k] = At(d, e, l)
  BY Ended
<1>3. Creatable(at, d) /\ Node(at, Append(d, q[1])).kind = "nothing"
  OBVIOUS
<1> HIDE DEF d
<1>4. /\ r \in Seq(Spelt) /\ e \in 0 .. Len(r) /\ e < Len(r)
      /\ \A m \in 0 .. e : SubSeq(r, 1, m) = SubSeq(d, 1, m)
      /\ SubSeq(r, 1, e) = d
      /\ SubSeq(r, 1, e + 1) = Append(d, q[1])
      /\ \A i : Longer(At(d, e, i), q) = At(r, e, i)
  BY <1>1, Joined
<1> HIDE DEF r, e
<1>5. Len(r) \in Nat /\ e \in Nat
  BY <1>4, LenProperties
<1>6. Plain(at, r, e)
  <2> SUFFICES ASSUME NEW m \in 1 .. e
               PROVE  /\ Node(at, SubSeq(r, 1, m)).kind \notin {"nothing", "link"}
                      /\ m < e => IsDir(Node(at, SubSeq(r, 1, m)))
    BY DEF Plain
  <2>1. m \in 0 .. e
    BY <1>5
  <2>2. SubSeq(r, 1, m) = SubSeq(d, 1, m)
    BY <1>4, <2>1
  <2> QED BY <1>1, <2>2 DEF Plain
<1> DEFINE cut == SubSeq(r, 1, e + 1)
<1>7. made = With(at, Below(r, e))
  BY <1>3, <1>4, <1>6, MadeBelow
<1> HIDE DEF made
<1>8. /\ Mapped(made)
      /\ \A m \in e + 1 .. Len(r) : Node(made, SubSeq(r, 1, m)) = Here("dir")
      /\ \A path \in Seq(Spelt) : path \notin Below(r, e) => Node(made, path) = Node(at, path)
  BY <1>4, <1>7, NodesBelow
<1>9. /\ cut \in Seq(Spelt) /\ cut # <<>>
      /\ \A m \in 0 .. e : SubSeq(r, 1, m) \in Seq(Spelt) \ Below(r, e)
      /\ \A path \in Below(r, e) : Beyond(path, cut)
  BY <1>4, BelowTheNext
<1>10. Node(at, cut).kind = "nothing"
  BY <1>3, <1>4
<1> HIDE DEF cut
<1>11. Plain(made, r, Len(r))
  <2> SUFFICES ASSUME NEW m \in 1 .. Len(r)
               PROVE  /\ Node(made, SubSeq(r, 1, m)).kind \notin {"nothing", "link"}
                      /\ m < Len(r) => IsDir(Node(made, SubSeq(r, 1, m)))
    BY DEF Plain
  <2>1. CASE m \in 1 .. e
    <3>1. m \in 0 .. e
      BY <1>5, <2>1
    <3>2. Node(made, SubSeq(r, 1, m)) = Node(at, SubSeq(r, 1, m))
      BY <1>8, <1>9, <3>1
    <3>3. CASE m = e
      <4>1. Node(at, SubSeq(r, 1, m)).kind = "dir"
        BY <1>3, <1>4, <3>3 DEF Creatable
      <4> QED BY <3>2, <4>1 DEF IsDir
    <3>4. CASE m # e
      <4>1. m < e
        BY <1>5, <2>1, <3>4
      <4> QED BY <1>6, <2>1, <3>2, <4>1 DEF Plain
    <3> QED BY <3>3, <3>4
  <2>2. CASE m \in e + 1 .. Len(r)
    <3>1. Node(made, SubSeq(r, 1, m)) = Here("dir")
      BY <1>8, <2>2
    <3> QED BY <3>1 DEF Here, IsDir
  <2>3. m \in 1 .. e \/ m \in e + 1 .. Len(r)
    BY <1>5
  <2> QED BY <2>1, <2>2, <2>3
<1>12. Walk(made, p)[k] = At(d, e, l)
  <2>1. Follows(Walk(at, p), at, p) /\ Follows(Walk(made, p), made, p)
    BY <1>8, WalkFollows
  <2>2. At(d, e, l).error = None
    BY DEF At
  <2>3. Apart(at, made, cut)
    BY <1>8, <1>9, <1>10 DEF Apart
  <2> DEFINE f == Walk(at, p)  g == Walk(made, p)
  <2> HIDE DEF f, g
  <2>4. Follows(f, at, p) /\ Follows(g, made, p) /\ f[k] = At(d, e, l) /\ f[k].error = None
    BY <1>2, <2>1, <2>2 DEF f, g
  <2>5. g[k] = f[k]
    <3>1. ASSUME NEW to, Apart(at, to, cut), NEW a, Follows(a, at, p), NEW b, Follows(b, to, p), a[k].error = None
          PROVE  b[k] = a[k]
      <4>1. Mapped(at) /\ k \in Nat
        OBVIOUS
      <4> QED BY <3>1, <4>1, SameWalk
    <3> QED BY <2>3, <2>4, <3>1
  <2> QED BY <2>4, <2>5 DEF g
<1>13. PICK j \in Nat : Walk(made, p \o q)[j] = At(r, e, l)
  <2> DEFINE f == Walk(made, p)  g == Walk(made, p \o q)
  <2>1. p \o q \in Seq(Spelt)
    BY ConcatProperties
  <2>2. Follows(f, made, p) /\ Follows(g, made, p \o q)
    BY <1>8, <2>1, WalkFollows
  <2>3. f[k] = At(d, e, l) /\ f[k].error = None
    BY <1>12 DEF At
  <2> HIDE DEF f, g
  <2>4. \E j \in Nat : g[j] = Longer(f[k], q)
    BY <1>8, <2>2, <2>3, WalkLonger
  <2> QED BY <1>4, <2>3, <2>4 DEF g
<1>14. EvalSymlinks(made, p \o q) = [path |-> r, error |-> None]
  <2> DEFINE f == Walk(made, p \o q)
             n == j + (Len(r) - e)
  <2>1. p \o q \in Seq(Spelt)
    BY ConcatProperties
  <2>2. Follows(f, made, p \o q) /\ f[j] = At(r, e, l)
    BY <1>8, <1>13, <2>1, WalkFollows
  <2> HIDE DEF f
  <2>3. Len(r) \in e .. Len(r) /\ n \in Nat /\ Len(r) \in 0 .. Len(r) /\ ~ (Len(r) < Len(r))
    BY <1>5, <1>4
  <2>4. f[n] = At(r, Len(r), l)
    BY <1>4, <1>11, <2>2, <2>3, Straight
  <2>5. ~ Going(f[n]) /\ f[n].done = SubSeq(r, 1, Len(r)) /\ f[n].error = None
    <3>1. ~ Going(At(r, Len(r), l)) /\ At(r, Len(r), l).done = SubSeq(r, 1, Len(r))
      BY <1>4, <2>3, AtParts
    <3>2. At(r, Len(r), l).error = None
      BY DEF At
    <3> QED BY <2>4, <3>1, <3>2
  <2> HIDE DEF n
  <2>6. EvalSymlinks(made, p \o q) = [path |-> IF f[n].error = None THEN f[n].done ELSE <<>>, error |-> f[n].error]
    BY <1>8, <2>1, <2>3, <2>5, Resolves DEF f
  <2>7. SubSeq(r, 1, Len(r)) = r
    BY <1>4, SubSeqFull
  <2> QED BY <2>5, <2>6, <2>7
<1>15. EvalSymlinks(made, r) = [path |-> r, error |-> None]
  <2>1. Len(r) \in 0 .. Len(r)
    BY <1>5
  <2>2. SubSeq(r, 1, Len(r)) = r
    BY <1>4, SubSeqFull
  <2>3. EvalSymlinks(made, SubSeq(r, 1, Len(r))) = [path |-> SubSeq(r, 1, Len(r)), error |-> None]
    BY <1>4, <1>8, <1>11, <2>1, PlainResolved
  <2> QED BY <2>2, <2>3
<1> QED
  BY <1>14, <1>15 DEF d, r, made

(* A bind that is accepted: the path as written leads to what resolve has  *)
(* found, once that is made, and what it has found leads to itself.        *)
LEMMA BindLeads ==
  ASSUME NEW at, Mapped(at), NEW path \in Seq(Spelt), NEW make \in BOOLEAN,
         Resolve(at, path).resolved # None,
         \/ Resolve(at, path).resolved = Resolve(at, path).existing
         \/ make /\ Creatable(at, Resolve(at, path).existing)
  PROVE  LET r == Resolve(at, path).resolved
             made == IF make THEN MkdirAll(at, r) ELSE at
         IN  /\ EvalSymlinks(made, path) = [path |-> r, error |-> None]
             /\ EvalSymlinks(made, r) = [path |-> r, error |-> None]
<1> DEFINE along == Along(at, path)
           n == Followed(along)
           p == SubSeq(path, 1, n)
           q == SubSeq(path, n + 1, Len(path))
           d == EvalSymlinks(at, p).path
           res == Resolve(at, path)
<1>1. /\ DOMAIN along = 0 .. Len(path)
      /\ \A m \in 0 .. Len(path) : along[m] = EvalSymlinks(at, SubSeq(path, 1, m))
      /\ n \in 0 .. Len(path) /\ along[n].error = None
  BY FollowedIs
<1>2. Len(path) \in Nat
  BY LenProperties
<1> DEFINE stuck == \E m \in DOMAIN along : m > n /\ (Lstat(at, path, along, m) \/ along[m].error = "too many links")
<1>3. ~ stuck /\ res = Past(path, along, n)
  <2>1. res = IF stuck THEN [resolved |-> None, existing |-> None] ELSE Past(path, along, n)
    BY DEF Resolve, Resolved
  <2>2. res.resolved # None
    OBVIOUS
  <2> HIDE DEF stuck, res, along, n
  <2>3. CASE stuck
    BY <2>1, <2>2, <2>3
  <2> QED BY <2>1, <2>3
<1>4. \A m \in 0 .. Len(path) : m > n => ~ Lstat(at, path, along, m)
  BY <1>1, <1>3
<1>5. \/ res.resolved = res.existing
      \/ make /\ Creatable(at, res.existing)
  OBVIOUS
<1> HIDE DEF along, n, stuck, res
<1>6. p \in Seq(Spelt) /\ along[n] = EvalSymlinks(at, p) /\ EvalSymlinks(at, p).error = None
  BY <1>1, PartOf
<1>7. q \in Seq(Spelt) /\ Len(q) = Len(path) - n
  <2>1. n + 1 \in Int /\ Len(path) \in Int /\ \A i \in n + 1 .. Len(path) : path[i] \in Spelt
    BY <1>1, <1>2, ElementOfSeq
  <2>2. q \in Seq(Spelt) /\ Len(q) = IF n + 1 <= Len(path) THEN Len(path) - (n + 1) + 1 ELSE 0
    BY <2>1, SubSeqProperties
  <2> HIDE DEF q
  <2> QED BY <1>1, <1>2, <2>2
<1>8. p \o q = path
  <2>1. 1 \in 1 .. Len(path) + 1 /\ n \in 1 - 1 .. Len(path) /\ Len(path) \in n .. Len(path)
    BY <1>1, <1>2
  <2>2. p \o q = SubSeq(path, 1, Len(path))
    BY <2>1, ConcatAdjacentSubSeq
  <2> QED BY <2>2, SubSeqFull
<1>9. res.resolved = d \o q /\ res.existing = d
  BY <1>3, <1>6 DEF Past
<1>10. d \in Seq(Spelt) /\ Plain(at, d, Len(d)) /\ EvalSymlinks(at, p) = [path |-> d, error |-> None]
  BY <1>6, Ended
<1> DEFINE r == d \o q
           made == IF make THEN MkdirAll(at, r) ELSE at
<1>11. /\ EvalSymlinks(made, path) = [path |-> r, error |-> None]
       /\ EvalSymlinks(made, r) = [path |-> r, error |-> None]
  <2>1. CASE q = <<>>
    <3>1. r = d
      BY <1>10, <2>1, ConcatEmptySeq
    <3>2. p = path
      BY <1>6, <1>8, <2>1, ConcatEmptySeq
    <3> HIDE DEF d, p, q, r
    <3>3. made = at
      BY <1>10, <3>1, MadeNothing
    <3>4. EvalSymlinks(at, d) = [path |-> d, error |-> None]
      <4>1. Len(d) \in 0 .. Len(d)
        BY <1>10, LenProperties
      <4>2. SubSeq(d, 1, Len(d)) = d
        BY <1>10, SubSeqFull
      <4>3. EvalSymlinks(at, SubSeq(d, 1, Len(d))) = [path |-> SubSeq(d, 1, Len(d)), error |-> None]
        BY <1>10, <4>1, PlainResolved
      <4> QED BY <4>2, <4>3
    <3> HIDE DEF made
    <3> QED BY <1>10, <3>1, <3>2, <3>3, <3>4
  <2>2. CASE q # <<>>
    <3> HIDE DEF p, q
    <3>1. r # d
      BY <1>7, <1>10, <2>2, ConcatEqualIffEmpty
    <3>2. make /\ Creatable(at, d)
      <4> HIDE DEF d, r
      <4> QED BY <1>5, <1>9, <3>1 DEF r
    <3>3. n + 1 \in 0 .. Len(path) /\ n + 1 > n /\ n + 1 # 0 /\ (n + 1) - 1 = n /\ n + 1 \in 1 .. Len(path)
      <4>1. Len(q) # 0
        BY <1>7, <2>2, EmptySeq
      <4> QED BY <1>1, <1>2, <1>7, <4>1
    <3>4. q[1] = path[n + 1]
      <4>1. Len(path) \in n + 1 .. Len(path) /\ n + 1 \in 1 .. Len(path)
        BY <1>2, <3>3
      <4>2. Head(SubSeq(path, n + 1, Len(path))) = path[n + 1]
        BY <4>1, HeadTailOfSubSeq
      <4>3. Head(q) = q[1]
        BY <1>7, <2>2
      <4> QED BY <4>2, <4>3 DEF q
    <3>5. Node(at, Append(d, q[1])).kind = "nothing"
      <4>1. ~ Lstat(at, path, along, n + 1)
        BY <1>4, <3>3
      <4>2. along[n].error = None /\ along[n].path = d
        BY <1>1, <1>6
      <4> HIDE DEF d
      <4> QED BY <3>3, <3>4, <4>1, <4>2 DEF Lstat
    <3>6. /\ EvalSymlinks(MkdirAll(at, r), p \o q) = [path |-> r, error |-> None]
          /\ EvalSymlinks(MkdirAll(at, r), r) = [path |-> r, error |-> None]
      BY <1>6, <1>7, <2>2, <3>2, <3>5, LedBelow
    <3> HIDE DEF r, d
    <3> QED BY <1>8, <3>2, <3>6
  <2> QED BY <2>1, <2>2
<1> QED
  <2> HIDE DEF d, q, p
  <2> QED BY <1>9, <1>11 DEF res

(* The mount of a bind that is accepted leads where the path written does. *)
LEMMA MountLeads ==
  ASSUME NEW at, Mapped(at), NEW dir, NEW v, HostPath(dir, v) \in Seq(Spelt), v.short \in BOOLEAN,
         NEW mount, mount = Bind(v, Resolve(at, HostPath(dir, v)), at), ~ mount.error
  PROVE  LET made == IF mount.make THEN MkdirAll(at, mount.host) ELSE at
         IN  /\ Leads(made, HostPath(dir, v), mount.host)
             /\ Leads(made, mount.host, mount.host)
<1> DEFINE path == HostPath(dir, v)
           r == Resolve(at, path)
<1> HIDE DEF r
<1>1. /\ mount.host = r.resolved /\ mount.make = v.short
      /\ ~ (\/ r.resolved = None
            \/ r.resolved # r.existing /\ (~ v.short \/ ~ Creatable(at, r.existing)))
  BY DEF Bind, r
<1>2. /\ r.resolved # None
      /\ r.resolved = r.existing \/ (v.short /\ Creatable(at, r.existing))
  BY <1>1
<1> DEFINE made == IF v.short THEN MkdirAll(at, r.resolved) ELSE at
<1>3. /\ EvalSymlinks(made, path) = [path |-> r.resolved, error |-> None]
      /\ EvalSymlinks(made, r.resolved) = [path |-> r.resolved, error |-> None]
  <2> HIDE DEF path
  <2> QED BY <1>2, BindLeads DEF r, path
<1> QED
  BY <1>1, <1>3 DEF Leads

-----------------------------------------------------------------------------
(* The theorems.                                                           *)

(* A file is run as written or not at all: but for what is let through,    *)
(* the spec of every service of an accepted file has each thing the file   *)
(* asks for, in its place and its amount.                                  *)
THEOREM RunsAsWritten == Spec => []RunAsWritten
<1>1. Inv => RunAsWritten
  <2> SUFFICES ASSUME Inv, Accepted, NEW s \in Services(file), ~ LetThrough(file.services[s])
               PROVE  Asked(file.services[s]) = Becomes(answered.up.specs[s], file)
    BY DEF RunAsWritten
  <2>0. PICK req \in Requests : \E project :
          /\ answered.up.specs = LoadIn(project, file, Directory(req), host).specs
          /\ LoadIn(project, file, Directory(req), host).accepted
    BY AcceptedLoaded
  <2>1. PICK project :
          /\ answered.up.specs = LoadIn(project, file, Directory(req), host).specs
          /\ LoadIn(project, file, Directory(req), host).accepted
    BY <2>0
  <2> QED
    BY <2>1, AsWritten DEF Inv
<1> QED
  BY <1>1, InvHolds, PTL

(* What the supervisor takes for granted of the specs of a file: a name is *)
(* of one container, a dependency is another container of the file, each   *)
(* has a policy it knows, and only one that restarts on failure a count.   *)
THEOREM LoadedAsAssumed == Spec => []LoadsAsAssumed
<1>1. Inv => LoadsAsAssumed
  <2> SUFFICES ASSUME Inv, Accepted
               PROVE  LoadsAsAssumed
    BY DEF LoadsAsAssumed
  <2> DEFINE specs == answered.up.specs
             names == {specs[s].name : s \in Services(file)}
             name == [s \in Services(file) |-> specs[s].name]
  <2>0. PICK req \in Requests : \E project :
          /\ specs = LoadIn(project, file, Directory(req), host).specs
          /\ LoadIn(project, file, Directory(req), host).accepted
    BY AcceptedLoaded
  <2>1. PICK project :
          /\ specs = LoadIn(project, file, Directory(req), host).specs
          /\ LoadIn(project, file, Directory(req), host).accepted
    BY <2>0
  <2> DEFINE dir == Directory(req)
             mounts == Mounts(file, project, dir, host)
             spec(s) == ToSpec(file, s, project, mounts[s], dir, host)
  <2>2. /\ specs = [s \in Services(file) |-> spec(s)]
        /\ Parsed(file, dir, host) /\ Named(file, project)
        /\ \A s \in Services(file) : ServiceAccepted(file.services[s], mounts[s], host) /\ Valid(spec(s))
    <3> DEFINE every == [s \in Services(file) |-> spec(s)]
    <3>1. /\ specs = every /\ Parsed(file, dir, host) /\ Named(file, project)
          /\ \A s \in Services(file) : ServiceAccepted(file.services[s], mounts[s], host) /\ Valid(every[s])
      BY <2>1, Judged
    <3>2. \A s \in Services(file) : every[s] = spec(s)
      OBVIOUS
    <3> HIDE DEF every
    <3> QED
      BY <3>1, <3>2 DEF every
  <2> HIDE DEF specs, spec, mounts
  <2>3. \A s \in Services(file) : specs[s] = spec(s) /\ specs[s].name = NameOf(file, project, s)
    <3>1. \A s \in Services(file) : spec(s).name = NameOf(file, project, s)
      BY DEF spec, ToSpec
    <3> QED
      BY <2>2, <3>1
  <2>4. \A s, t \in Services(file) : specs[s].name = specs[t].name => s = t
    BY <2>2, <2>3 DEF Named
  <2>5. Cardinality(names) = Cardinality(Services(file))
    <3>1. IsFiniteSet(Services(file))
      BY WritingAssumption, FS_Subset DEF WritingAssumption, Inv, IsFile
    <3>2. name \in Bijection(Services(file), names)
      BY <2>4 DEF Bijection, Injection, IsInjective, Surjection
    <3> QED
      BY <3>1, <3>2, FS_Bijection DEF ExistsBijection
  <2>6. ASSUME NEW s \in Services(file)
        PROVE  /\ \A d \in specs[s].deps : d.name \in names \ {specs[s].name}
               /\ specs[s].policy \in {"no", "on-failure", "always"}
               /\ specs[s].max > 0 => specs[s].policy = "on-failure"
    <3> DEFINE svc == file.services[s]
    <3>1. IsService(svc) /\ svc.restart \in Optional(Restarting)
      BY KeysTyped DEF Inv, IsFile
    <3>2. /\ specs[s].deps = IF svc.depends_on = None THEN {}
                             ELSE {[name  |-> NameOf(file, project, svc.depends_on.on),
                                    ready |-> IF svc.depends_on.condition = "healthy" THEN "healthy" ELSE "running"]}
          /\ specs[s].policy = Policy(svc.restart)
          /\ specs[s].max = IF svc.restart = None THEN 0 ELSE Or(svc.restart.max, 0)
      <4>1. /\ spec(s).deps = IF svc.depends_on = None THEN {}
                              ELSE {[name  |-> NameOf(file, project, svc.depends_on.on),
                                     ready |-> IF svc.depends_on.condition = "healthy" THEN "healthy" ELSE "running"]}
            /\ spec(s).policy = Policy(svc.restart)
            /\ spec(s).max = IF svc.restart = None THEN 0 ELSE Or(svc.restart.max, 0)
        BY DEF spec, ToSpec
      <4> QED
        BY <2>3, <4>1
    <3>3. ASSUME NEW d \in specs[s].deps
          PROVE  d.name \in names \ {specs[s].name}
      <4>1. svc.depends_on # None /\ d.name = NameOf(file, project, svc.depends_on.on)
        BY <3>2, <3>3
      <4>2. svc.depends_on.on \in Services(file)
        BY <2>2, <4>1 DEF Parsed
      <4>3. d.name \in names
        BY <2>3, <4>1, <4>2
      <4>4. d.name # specs[s].name
        <5>1. \A e \in Normalized(spec(s)).deps : e.name # Normalized(spec(s)).name
          <6> DEFINE nm == Normalized(spec(s))
          <6> HIDE DEF nm
          <6>1. Valid(spec(s)) => \A e \in nm.deps : e.name # nm.name
            BY Zenon DEF Valid, nm
          <6> QED
            BY <2>2, <6>1 DEF nm
        <5>2. /\ Normalized(spec(s)).deps = spec(s).deps /\ Normalized(spec(s)).name = spec(s).name
          BY DEF Normalized, spec, ToSpec
        <5> QED
          BY <2>3, <3>3, <5>1, <5>2
      <4> QED
        BY <4>3, <4>4
    <3>4. Policy(svc.restart) \in {"no", "on-failure", "always"}
      BY <2>2 DEF ServiceAccepted
    <3>5. specs[s].max > 0 => specs[s].policy = "on-failure"
      <4>1. CASE svc.restart = None
        BY <3>2, <4>1
      <4>2. CASE svc.restart # None
        <5>1. svc.restart.max # None => svc.restart.policy = "on-failure"
          BY <3>1, <4>2 DEF Optional, Restarting
        <5>2. CASE svc.restart.max = None
          BY <3>2, <4>2, <5>2 DEF Or
        <5>3. CASE svc.restart.max # None
          BY <3>2, <4>2, <5>1, <5>3 DEF Policy
        <5> QED
          BY <5>2, <5>3
      <4> QED
        BY <4>1, <4>2
    <3> QED
      BY <3>2, <3>3, <3>4, <3>5
  <2> QED
    BY <2>5, <2>6 DEF LoadsAsAssumed, specs
<1> QED
  BY <1>1, InvHolds, PTL

(* compose check exits and becomes what the daemon answers: to ctl up of   *)
(* the same file, or, for a file of stdin with no directory, to a project  *)
(* declared without one.                                                   *)
THEOREM Foretold == Spec => []CheckForetells
<1>1. Inv => CheckForetells
  <2> SUFFICES ASSUME Inv, answered # None
               PROVE  LET foretold == IF answered.req.file = "-" /\ answered.req.dir = <<>>
                                      THEN answered.bare ELSE answered.up
                      IN  answered.check.code = foretold.code /\ answered.check.specs = foretold.specs
    BY DEF CheckForetells
  <2>1. PICK req \in Requests : answered = Answer(req)
    BY DEF Inv
  <2>2. CASE ~ Targeted(req, file)
    BY <2>1, <2>2 DEF Answer
  <2>3. CASE Targeted(req, file)
    <3> DEFINE project == ProjectName(req, file)
    <3>1. /\ answered.req = req /\ answered.check = Check(req, file)
          /\ answered.up = Up(req, file) /\ answered.bare = Put(project, file, <<>>)
      BY <2>1, <2>3 DEF Answer
    <3>2. CASE req.file = "-" /\ req.dir = <<>>
      <4>1. CheckedDir(req, file) = Dir(project)
        BY <3>2 DEF CheckedDir
      <4>2. Load(project, file, Dir(project), host) = LoadIn(project, file, Dir(project), host)
        BY DEF Load
      <4>3. Load(project, file, <<>>, host) = LoadIn(project, file, Dir(project), host)
        BY DEF Load
      <4> QED
        BY <3>1, <3>2, <4>1, <4>2, <4>3 DEF Check, Put, Outcome
    <3>3. CASE ~ (req.file = "-" /\ req.dir = <<>>)
      <4>1. CheckedDir(req, file) = Directory(req)
        BY <3>3 DEF CheckedDir
      <4> QED
        BY <3>1, <3>3, <4>1 DEF Check, Up, Put, Outcome
    <3> QED
      BY <3>2, <3>3
  <2> QED
    BY <2>2, <2>3
<1> QED
  BY <1>1, InvHolds, PTL

(* A bind that was accepted names the directory the written path leads to, *)
(* once the engine has made what was missing: no link is left on it, and   *)
(* it can be made.                                                         *)
THEOREM BindsLed == Spec => []BindsLead
<1>1. Inv => BindsLead
  <2> SUFFICES ASSUME Inv, Accepted, NEW s \in Services(file),
                      file.services[s].volume # None, file.services[s].volume.type = "bind"
               PROVE  \E mount \in answered.up.specs[s].volumes :
                        LeadsOnce(IF mount.make THEN MkdirAll(host, mount.host) ELSE host,
                                  file.services[s].volume, mount)
    BY DEF BindsLead
  <2>0. PICK req \in Requests : \E project :
          /\ answered.up.dir = Directory(req)
          /\ answered.up.specs = LoadIn(project, file, Directory(req), host).specs
          /\ LoadIn(project, file, Directory(req), host).accepted
    BY AcceptedLoaded
  <2>1. PICK project :
          /\ answered.up.specs = LoadIn(project, file, Directory(req), host).specs
          /\ LoadIn(project, file, Directory(req), host).accepted
    BY <2>0
  <2> DEFINE v == file.services[s].volume
             dir == Directory(req)
             mount == Bind(v, Resolve(host, HostPath(dir, v)), host)
             mounts == Mounts(file, project, dir, host)
             specs == [t \in Services(file) |-> ToSpec(file, t, project, mounts[t], dir, host)]
             volume == [host |-> mount.host, ro |-> mount.ro, make |-> mount.make]
  <2>2. v \in Mountings
    BY KeysTyped DEF Inv, IsFile, Optional
  <2>3. HostPath(dir, v) \in Seq(Spelt)
    <3>1. dir \in Seq(Spelt)
      BY DirectoryNamed DEF Spelt
    <3>2. v.path \in Seq(Spelt)
      <4>1. v.path \in Seq(STRING) /\ STRING \subseteq Spelt
        BY <2>2 DEF Mountings, Spelt
      <4> QED BY <4>1, SeqMonotonic
    <3> HIDE DEF dir, v
    <3> QED BY <3>1, <3>2, ConcatProperties DEF HostPath
  <2>4. answered.up.specs = specs /\ \A m \in mounts[s] : ~ m.error
    <3>1. /\ answered.up.specs = specs
          /\ \A t \in Services(file) : ServiceAccepted(file.services[t], mounts[t], host)
      BY <2>1, Judged
    <3> HIDE DEF mounts, specs
    <3> QED BY <3>1 DEF ServiceAccepted
  <2>5. mounts[s] = {mount}
    <3>1. mounts[s] = {Volume(u, project, dir, host) : u \in {v} \ {None}}
      BY DEF Mounts
    <3>2. Volume(v, project, dir, host) = mount
      BY DEF Volume
    <3> HIDE DEF mount, mounts
    <3> QED BY <3>1, <3>2
  <2>6. ~ mount.error
    <3> HIDE DEF mount, mounts
    <3> QED BY <2>4, <2>5
  <2>7. volume \in answered.up.specs[s].volumes
    <3>1. answered.up.specs[s].volumes = {[host |-> m.host, ro |-> m.ro, make |-> m.make] : m \in mounts[s]}
      <4>1. specs[s].volumes = {[host |-> m.host, ro |-> m.ro, make |-> m.make] : m \in mounts[s]}
        BY DEF ToSpec
      <4> HIDE DEF specs
      <4> QED BY <2>4, <4>1
    <3> HIDE DEF mount, mounts
    <3> QED BY <2>5, <3>1
  <2>8. Mapped(host)
    BY HostMapped
  <2>9. LET made == IF mount.make THEN MkdirAll(host, mount.host) ELSE host
        IN  Leads(made, HostPath(dir, v), mount.host) /\ Leads(made, mount.host, mount.host)
    <3>1. v.short \in BOOLEAN
      BY <2>2 DEF Mountings
    <3> HIDE DEF v, dir, mount
    <3> QED BY <2>3, <2>6, <2>8, <3>1, MountLeads DEF mount
  <2>10. volume.host = mount.host /\ volume.make = mount.make
    BY DEF volume
  <2>11. LeadsOnce(IF volume.make THEN MkdirAll(host, volume.host) ELSE host, v, volume)
    <3> HIDE DEF volume, mount, dir, v
    <3> QED BY <2>0, <2>9, <2>10 DEF LeadsOnce, dir
  <2> QED
    BY <2>7, <2>11
<1> QED
  BY <1>1, InvHolds, PTL
=============================================================================
