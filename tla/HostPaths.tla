----------------------------- MODULE HostPaths -----------------------------
(***************************************************************************)
(* The host's directories as the loader and the engine see them: how a     *)
(* path is followed, and what resolve, creatable and MkdirAll make of it.  *)
(* A path is the sequence of its names, cleaned; a host gives every path   *)
(* that may occur what is there.  Following a path is the kernel's, and    *)
(* filepath.EvalSymlinks does the same.                                    *)
(***************************************************************************)
EXTENDS Naturals, Sequences

CONSTANTS
  Links,   \* bound: links followed before a path is given up: 255
  Parts,   \* bound: names in a link: as many as PATH_MAX lets there be
  None     \* no error, no path; a key that is not written

ASSUME LinksAssumption == Links \in Nat /\ Parts \in Nat

(* What is at a path: "nothing", "dir", "locked" (a directory nobody can    *)
(* make anything in), "file", "device", or a link.                         *)
Here(kind) == [kind |-> kind, link |-> <<>>]
LinkTo(path) == [kind |-> "link", link |-> path]

Nodes ==
  [ kind : {"nothing", "dir", "locked", "file", "device", "link"},
    link : {path \in Seq(STRING) : Len(path) <= Parts} ]

Node(host, path) ==
  IF path = <<>> THEN Here("dir") ELSE IF path \in DOMAIN host THEN host[path] ELSE Here("nothing")

IsDir(node) == node.kind \in {"dir", "locked"}

(* A path that is followed: the part done, with no link on it, the rest,   *)
(* how many links may come yet, and why it goes no further.                *)
Start(path) == [done |-> <<>>, rest |-> path, links |-> Links, error |-> None]

(* One name further. *)
Step(host, walk) ==
  LET next == Append(walk.done, Head(walk.rest))
      node == Node(host, next)
  IN  IF walk.rest = <<>> \/ walk.error # None THEN walk
      ELSE IF ~ IsDir(Node(host, walk.done)) THEN [walk EXCEPT !.error = "not a directory"]
      ELSE IF node.kind = "nothing" THEN [walk EXCEPT !.error = "missing"]
      ELSE IF node.kind # "link" THEN [done |-> next, rest |-> Tail(walk.rest), links |-> walk.links, error |-> None]
      ELSE IF walk.links = 0 THEN [walk EXCEPT !.error = "too many links"]
      ELSE [done |-> <<>>, rest |-> node.link \o Tail(walk.rest), links |-> walk.links - 1, error |-> None]

Walk(host, path) ==
  LET walk[k \in Nat] == IF k = 0 THEN Start(path) ELSE Step(host, walk[k - 1]) IN walk

(* The path with no link on it that path leads to, or why there is none:   *)
(* no walk takes more steps, if no link has more than Parts names.         *)
EvalSymlinks(host, path) ==
  LET last == Walk(host, path)[Len(path) + Links * Parts]
  IN  [path |-> IF last.error = None THEN last.done ELSE <<>>, error |-> last.error]

(* The kind of what path leads to. *)
Stat(host, path) ==
  LET followed == EvalSymlinks(host, path)
  IN  IF followed.error = None THEN Node(host, followed.path).kind ELSE "nothing"

(* os.IsNotExist of Stat: not so below a file, or in a loop of links. *)
IsNotExist(host, path) == EvalSymlinks(host, path).error = "missing"

-----------------------------------------------------------------------------
(* Where each part of path leads, the whole of it last. *)
Along(host, path) == [m \in 0 .. Len(path) |-> EvalSymlinks(host, SubSeq(path, 1, m))]

(* The longest part that can be followed; at is Along(host, path). *)
Followed(at) ==
  CHOOSE n \in DOMAIN at : at[n].error = None /\ \A m \in DOMAIN at : m > n => at[m].error # None

(* Something is at the m-th part itself, be it a link to nothing. *)
Lstat(host, path, at, m) ==
  \/ m = 0
  \/ at[m - 1].error = None /\ Node(host, Append(at[m - 1].path, path[m])).kind # "nothing"

(* That part as it is followed, and the rest as it is written. *)
Past(path, at, n) ==
  [resolved |-> at[n].path \o SubSeq(path, n + 1, Len(path)), existing |-> at[n].path]

(* Mutant: a link to nothing is taken for a name that is not there. *)
ResolvedThroughDangling(host, path, at) ==
  IF \E m \in DOMAIN at : m > Followed(at) /\ at[m].error = "too many links"
  THEN [resolved |-> None, existing |-> None]
  ELSE Past(path, at, Followed(at))

(* Path with every link of its existing part followed, and that part: going *)
(* up from path, unless what cannot be followed is there or is not missing. *)
Resolved(host, path, at) ==
  IF \E m \in DOMAIN at :
       m > Followed(at) /\ (Lstat(host, path, at, m) \/ at[m].error = "too many links")
  THEN [resolved |-> None, existing |-> None]
  ELSE Past(path, at, Followed(at))

Resolve(host, path) == Resolved(host, path, Along(host, path))

(* A directory can be made in path, which exists. *)
Creatable(host, path) == Node(host, path).kind = "dir"

(* What os.MkdirAll of a path leaves, or host itself when it fails. *)
Made(host, path, at) ==
  LET missing == {m \in DOMAIN at : at[m].error # None}
  IN  IF /\ missing # {} /\ Creatable(host, at[Followed(at)].path)
         /\ ~ \E m \in missing : Lstat(host, path, at, m)
      THEN LET made == {SubSeq(path, 1, m) : m \in missing}
           IN  [q \in DOMAIN host \cup made |-> IF q \in made THEN Here("dir") ELSE host[q]]
      ELSE host

MkdirAll(host, path) == Made(host, path, Along(host, path))
=============================================================================
