---------------------------- MODULE Declarations ----------------------------
(***************************************************************************)
(* What is declared to mica-containerd, and the pure decisions it takes on *)
(* a declaration: package spec, the records of package store, and what     *)
(* package compose hands to the supervisor.                                *)
(*                                                                         *)
(* A name is a natural number: its place in the order sort.Strings gives   *)
(* the names, which is the order of a pass.  Projects are numbered for the *)
(* same reason.  Every field of a service that only ends up in the hash of *)
(* its runtime part is one value of Images.                                *)
(***************************************************************************)
EXTENDS Naturals, FiniteSets

CONSTANTS
  Names,     \* container names that occur, as ranks
  Projects,  \* project names that occur, as ranks
  Images,    \* the different runtime parts a service can have
  Files,     \* the Compose files that occur, as what they load to
  None       \* no container, no record, no file, no call

Policies == {"no", "on-failure", "always"}

Dependency == [name : Names, ready : {"running", "healthy"}]

(* One declared container.  retries = 0 stands for no health check; grace  *)
(* says that the check has a start period.                                 *)
Service ==
  [ project : Projects,
    image   : Images,
    net     : BOOLEAN,
    devices : BOOLEAN,
    retries : Nat,
    grace   : BOOLEAN,
    policy  : Policies,
    max     : Nat,
    deps    : SUBSET Dependency ]

Record == [spec : Service, desired : {"running", "stopped"}]

(* A Compose file that compose.Load accepts is what it loads to: the       *)
(* project, and its services as a function of their container names.       *)
Services(f) == DOMAIN f.services

ASSUME NamesAssumption == Names \subseteq Nat /\ IsFiniteSet(Names)

ASSUME ProjectsAssumption == Projects \subseteq Nat /\ IsFiniteSet(Projects)

(* None is neither a record nor a file.                                    *)
ASSUME NoneAssumption == None \notin Record /\ None \notin Files

(* compose.Load names the project in every service and resolves depends_on *)
(* within the file.                                                        *)
ASSUME FilesAssumption ==
  \A f \in Files :
    /\ f.project \in Projects
    /\ Services(f) \subseteq Names
    /\ \A n \in Services(f) :
        /\ f.services[n] \in Service
        /\ f.services[n].project = f.project
        /\ \A d \in f.services[n].deps : d.name \in Services(f) \ {n}

-----------------------------------------------------------------------------

(* The part of a spec a container is created from: the restart policy and  *)
(* the dependencies are the supervisor's and are not in it.                *)
Hashes ==
  [ project : Projects, image : Images, net : BOOLEAN, devices : BOOLEAN,
    retries : Nat, grace : BOOLEAN ]

(* Mutant: the restart policy is hashed too. *)
HashWithPolicy(sp) ==
  [ project |-> sp.project, image |-> sp.image, net |-> sp.net,
    devices |-> sp.devices, retries |-> sp.retries, grace |-> sp.grace,
    policy |-> sp.policy ]

Hash(sp) ==
  [ project |-> sp.project, image |-> sp.image, net |-> sp.net,
    devices |-> sp.devices, retries |-> sp.retries, grace |-> sp.grace ]

(* Whether a container that stopped on its own is to be restarted. *)
RestartWanted(sp, failed) ==
  \/ sp.policy = "always"
  \/ sp.policy = "on-failure" /\ failed
=============================================================================
