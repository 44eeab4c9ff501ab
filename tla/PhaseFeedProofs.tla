-------------------------- MODULE PhaseFeedProofs ---------------------------
(***************************************************************************)
(* Theorems about what subscribers are told of phases, for every number of *)
(* names and clients and every capacity of a channel.                      *)
(***************************************************************************)
EXTENDS PhaseFeed, FiniteSetTheorems, SequenceTheorems, TLAPS

(* Who has a channel has a stream, and a channel that is not is empty. *)
Channels ==
  \A c \in Clients : /\ stream[c] = "off" <=> c \notin subs
                     /\ c \notin subs => queue[c] = <<>>

FeedInv == TypeOK /\ Channels /\ NothingMissed /\ CaughtUp

-----------------------------------------------------------------------------
(* The order of the changes.                                               *)

(* Of the names up to n there are fewer than of those up to a later k.     *)
LEMMA RanksGrow ==
  ASSUME NEW ns \in SUBSET Nat, IsFiniteSet(ns), NEW n \in ns, NEW k \in ns, n < k
  PROVE  Cardinality({m \in ns : m <= n}) < Cardinality({m \in ns : m <= k})
<1> DEFINE upTo(x) == {m \in ns : m <= x}
<1>1. IsFiniteSet(upTo(k)) /\ Cardinality(upTo(k)) \in Nat
  BY FS_Subset, FS_CardinalityType
<1>2. upTo(n) \in SUBSET upTo(k) /\ k \in upTo(k) /\ k \notin upTo(n)
  <2>1. k \in Nat /\ n \in Nat /\ \A m \in ns : m \in Nat
    OBVIOUS
  <2>2. \A m \in ns : m <= n => m <= k
    BY <2>1
  <2>3. k <= k /\ ~ (k <= n)
    BY <2>1
  <2> QED BY <2>2, <2>3, Zenon
<1> HIDE DEF upTo
<1>3. /\ Cardinality(upTo(n)) \in Nat /\ Cardinality(upTo(n)) <= Cardinality(upTo(k))
      /\ Cardinality(upTo(n)) # Cardinality(upTo(k))
  BY <1>1, <1>2, FS_Subset, FS_CardinalityType
<1>4. Cardinality(upTo(n)) < Cardinality(upTo(k))
  BY <1>1, <1>3
<1> QED BY <1>4 DEF upTo

(* Nth goes through finitely many names, each at one place.                *)
LEMMA NthEnumerates ==
  ASSUME NEW ns \in SUBSET Nat, IsFiniteSet(ns)
  PROVE  /\ Cardinality(ns) \in Nat
         /\ \A i \in 1 .. Cardinality(ns) : Nth(ns, i) \in ns
         /\ \A i, j \in 1 .. Cardinality(ns) : Nth(ns, i) = Nth(ns, j) => i = j
         /\ \A n \in ns : \E i \in 1 .. Cardinality(ns) : Nth(ns, i) = n
<1> DEFINE upTo(x) == {m \in ns : m <= x}
           rank    == [n \in ns |-> Cardinality(upTo(n))]
           places  == 1 .. Cardinality(ns)
<1>1. Cardinality(ns) \in Nat /\ IsFiniteSet(places) /\ Cardinality(places) = Cardinality(ns)
  BY FS_CardinalityType, FS_Interval
<1>2. ASSUME NEW n \in ns PROVE rank[n] \in places
  <2>1. upTo(n) \in SUBSET ns /\ n \in upTo(n)
    OBVIOUS
  <2>2. /\ IsFiniteSet(upTo(n)) /\ Cardinality(upTo(n)) \in Nat
        /\ Cardinality(upTo(n)) <= Cardinality(ns) /\ Cardinality(upTo(n)) # 0
    <3> HIDE DEF upTo
    <3> QED BY <2>1, FS_Subset, FS_CardinalityType, FS_EmptySet
  <2>3. rank[n] = Cardinality(upTo(n))
    OBVIOUS
  <2> HIDE DEF upTo, rank
  <2> QED BY <1>1, <2>2, <2>3
<1>3. ASSUME NEW n \in ns, NEW k \in ns, rank[n] = rank[k] PROVE n = k
  <2>1. rank[n] \in Nat /\ rank[k] \in Nat
    BY <1>2
  <2>2. n < k => rank[n] < rank[k]
    BY RanksGrow
  <2>3. k < n => rank[k] < rank[n]
    BY RanksGrow
  <2> HIDE DEF rank
  <2> QED BY <1>3, <2>1, <2>2, <2>3
<1>4. rank \in [ns -> places]
  BY <1>2
<1>5. rank \in Injection(ns, places)
  BY <1>3, <1>4 DEF Injection, IsInjective
<1>6. rank \in Surjection(ns, places)
  BY <1>1, <1>5, FS_Injection
<1>7. ASSUME NEW i \in places PROVE Nth(ns, i) \in ns /\ rank[Nth(ns, i)] = i
  <2>1. PICK n \in ns : rank[n] = i
    BY <1>6 DEF Surjection
  <2> QED BY <2>1 DEF Nth
<1>8. ASSUME NEW n \in ns PROVE \E i \in places : Nth(ns, i) = n
  BY <1>2, <1>3, <1>7
<1>9. \A i, j \in places : Nth(ns, i) = Nth(ns, j) => i = j
  <2> HIDE DEF rank
  <2> QED BY <1>7
<1> QED BY <1>1, <1>7, <1>8, <1>9

(* The changes are of the names whose phase is not what was said last, and *)
(* say the phase each is in.                                               *)
LEMMA ChangesSay ==
  ASSUME TypeOK
  PROVE  /\ Changes \in Seq(Change)
         /\ \A i \in 1 .. Len(Changes) :
              Changes[i].name \in Changed /\ Changes[i].phase = phase[Changes[i].name]
         /\ \A i, j \in 1 .. Len(Changes) : Changes[i].name = Changes[j].name => i = j
         /\ \A n \in Changed : \E i \in 1 .. Len(Changes) : Changes[i].name = n
<1>1. Changed \in SUBSET Nat /\ Changed \subseteq Names /\ IsFiniteSet(Changed)
  BY NamesAssumption, FS_Subset DEF Changed
<1>2. /\ Cardinality(Changed) \in Nat
      /\ \A i \in 1 .. Cardinality(Changed) : Nth(Changed, i) \in Changed
      /\ \A i, j \in 1 .. Cardinality(Changed) : Nth(Changed, i) = Nth(Changed, j) => i = j
      /\ \A n \in Changed : \E i \in 1 .. Cardinality(Changed) : Nth(Changed, i) = n
  BY <1>1, NthEnumerates
<1>3. Changes = [i \in 1 .. Cardinality(Changed) |->
                   [name |-> Nth(Changed, i), phase |-> phase[Nth(Changed, i)]]]
  BY DEF Changes, PhasesOf
<1>4. ASSUME NEW i \in 1 .. Cardinality(Changed)
      PROVE  [name |-> Nth(Changed, i), phase |-> phase[Nth(Changed, i)]] \in Change
  BY <1>1, <1>2 DEF TypeOK, Change
<1>5. Changes \in Seq(Change) /\ Len(Changes) = Cardinality(Changed)
  BY <1>2, <1>3, <1>4
<1> QED BY <1>2, <1>3, <1>5

-----------------------------------------------------------------------------
(* Types, and channels.                                                    *)

(* What publish leaves in a channel is changes, and no more than has room. *)
LEMMA SentType ==
  ASSUME TypeOK, NEW q \in Seq(Change), Len(q) <= Room
  PROVE  /\ Sent(q) \in Seq(Change) /\ Len(Sent(q)) <= Room
         /\ Len(q) + Len(Changes) <= Room => Sent(q) = q \o Changes
<1>1. q \o Changes \in Seq(Change) /\ Len(q \o Changes) = Len(q) + Len(Changes)
  BY ChangesSay, ConcatProperties
<1> DEFINE all == q \o Changes
<1>2. CASE Len(all) <= Room
  BY <1>1, <1>2 DEF Sent
<1>3. CASE ~ (Len(all) <= Room)
  <2>1. Len(all) \in Nat /\ Room \in Nat /\ Room < Len(all)
    BY <1>1, <1>3, RoomAssumption
  <2>2. Sent(q) = SubSeq(all, 1, Room)
    BY <1>3 DEF Sent
  <2>3. \A i \in 1 .. Room : all[i] \in Change
    BY <1>1, <2>1, ElementOfSeq
  <2> HIDE DEF all
  <2>4. Sent(q) \in Seq(Change) /\ Len(Sent(q)) = Room
    BY <2>1, <2>2, <2>3, SubSeqProperties, RoomAssumption
  <2> QED BY <1>1, <1>3, <2>1, <2>4 DEF all
<1> QED BY <1>2, <1>3

(* What is of every name is a function of the names.                       *)
LEMMA EverythingType ==
  ASSUME NEW S, NEW value \in S
  PROVE  Everything(value) \in [Names -> S]
BY DEF Everything

(* What is forgotten leaves types as they are.                             *)
LEMMA ForgottenType ==
  ASSUME TypeOK, NEW cs \in SUBSET Clients, Forgotten(cs)
  PROVE  /\ queue' \in [Clients -> Seq(Change)] /\ \A c \in Clients : Len(queue'[c]) <= Room
         /\ view' \in [Clients -> [Names -> Told \cup {"unread"}]]
         /\ told' \in [Clients -> [Names -> Told \cup {"untold"}]]
         /\ before' \in [Clients -> [Names -> Told]]
         /\ missed' \subseteq Clients /\ glimpsed' \in [Clients -> SUBSET Names]
<1>1. /\ Everything("unread") \in [Names -> Told \cup {"unread"}]
      /\ Everything("untold") \in [Names -> Told \cup {"untold"}]
      /\ Everything("deleted") \in [Names -> Told]
  BY EverythingType DEF Told
<1>2. <<>> \in Seq(Change) /\ Len(<<>>) <= Room
  BY EmptySeq, RoomAssumption
<1> QED BY <1>1, <1>2 DEF TypeOK, Forgotten

(* What is spent of a bound was left of it.                                *)
Bounds == [moves : Nat, calls : Nat, opens : Nat, crashes : Nat]

LEMMA SpendType ==
  ASSUME budget \in Bounds, NEW what \in {"moves", "calls", "opens", "crashes"}, Spend(what)
  PROVE  budget' \in Bounds
<1>1. budget[what] \in Nat \ {0}
  BY DEF Bounds, Spend
<1>2. budget[what] - 1 \in Nat
  BY <1>1
<1> QED BY <1>2 DEF Bounds, Spend

(* Every step keeps the types. *)
LEMMA NextType ==
  ASSUME TypeOK, Channels, [Next]_vars
  PROVE  TypeOK'
<1>0. budget \in Bounds
  BY DEF TypeOK, Bounds
<1>1. CASE UNCHANGED vars
  BY <1>1 DEF vars, clientVars, TypeOK
<1>2. CASE BeginPass
  BY <1>2 DEF BeginPass, clientVars, TypeOK
<1>3. CASE Publish
  <2>1. queue' \in [Clients -> Seq(Change)] /\ \A c \in Clients : Len(queue'[c]) <= Room
    BY <1>3, SentType DEF Publish, TypeOK
  <2>2. missed' \subseteq Clients
    BY <1>3 DEF Publish, TypeOK
  <2> QED BY <1>3, <2>1, <2>2 DEF Publish, TypeOK
<1>4. CASE Restart
  <2>1. lastPhase' \in [Names -> Told]
    BY <1>4, EverythingType DEF Restart, Told
  <2>2. phase' \in [Names -> Told]
    BY <1>4 DEF Restart, Told, Phases, TypeOK
  <2>3. budget' \in Bounds
    BY <1>0, <1>4, SpendType DEF Restart
  <2>4. Forgotten(Clients)
    BY <1>4 DEF Restart
  <2> QED BY <1>4, <2>1, <2>2, <2>3, <2>4, ForgottenType DEF Restart, TypeOK, Bounds
<1>5. ASSUME NEW n \in Names, Reconcile(n) \/ Retracked(n) \/ Delete(n) PROVE TypeOK'
  <2>1. budget' \in Bounds
    BY <1>0, <1>5, SpendType DEF Reconcile, Retracked, Delete
  <2>2. phase' \in [Names -> Told]
    <3>1. \A p \in Told : [phase EXCEPT ![n] = p] \in [Names -> Told]
      BY DEF TypeOK
    <3> QED BY <1>5, <3>1 DEF Reconcile, Retracked, Delete, Told, Phases
  <2>3. UNCHANGED <<lastPhase, pass, clientVars>>
    BY <1>5 DEF Reconcile, Retracked, Delete
  <2> QED BY <2>1, <2>2, <2>3 DEF TypeOK, clientVars, Bounds
<1>6. ASSUME NEW c \in Clients, Events(c) PROVE TypeOK'
  <2>1. told' \in [Clients -> [Names -> Told \cup {"untold"}]]
    BY <1>6, EverythingType DEF Events, Fresh, TypeOK
  <2>2. before' \in [Clients -> [Names -> Told]]
    BY <1>6 DEF Events, Fresh, TypeOK
  <2>3. budget' \in Bounds
    BY <1>0, <1>6, SpendType DEF Events
  <2>4. stream' \in [Clients -> {"off", "opened", "read"}] /\ subs' \subseteq Clients
    BY <1>6 DEF Events, TypeOK
  <2>5. missed' \subseteq Clients
    BY <1>6 DEF Events, Fresh, TypeOK
  <2>6. UNCHANGED <<phase, lastPhase, pass, queue, view, glimpsed>>
    BY <1>6 DEF Events
  <2> QED BY <2>1, <2>2, <2>3, <2>4, <2>5, <2>6 DEF TypeOK, Bounds
<1>7. ASSUME NEW c \in Clients, List(c) PROVE TypeOK'
  BY <1>7 DEF List, TypeOK
<1>8. ASSUME NEW c \in Clients, Deliver(c) PROVE TypeOK'
  <2>1. /\ Head(queue[c]) \in Change /\ Tail(queue[c]) \in Seq(Change)
        /\ Len(Tail(queue[c])) = Len(queue[c]) - 1
    BY <1>8, HeadTailProperties DEF Deliver, TypeOK
  <2>2. Len(Tail(queue[c])) <= Room
    BY <2>1, RoomAssumption, LenProperties DEF TypeOK
  <2>3. queue' \in [Clients -> Seq(Change)] /\ \A d \in Clients : Len(queue'[d]) <= Room
    BY <1>8, <2>1, <2>2 DEF Deliver, TypeOK
  <2>4. Head(queue[c]).name \in Names /\ Head(queue[c]).phase \in Told
    BY <2>1 DEF Change
  <2> QED BY <1>8, <2>3, <2>4 DEF Deliver, TypeOK
<1>9. ASSUME NEW c \in Clients, Cancel(c) PROVE TypeOK'
  <2>1. Forgotten({c})
    BY <1>9 DEF Cancel
  <2> QED BY <1>9, <2>1, ForgottenType DEF Cancel, TypeOK
<1> QED
  BY <1>1, <1>2, <1>3, <1>4, <1>5, <1>6, <1>7, <1>8, <1>9 DEF Next

(* Every step keeps channels with streams. *)
LEMMA NextChannels ==
  ASSUME TypeOK, Channels, [Next]_vars
  PROVE  Channels'
<1> USE DEF Channels, clientVars
<1>1. CASE UNCHANGED vars
  BY <1>1 DEF vars
<1>2. CASE BeginPass
  BY <1>2 DEF BeginPass
<1>3. CASE Publish
  BY <1>3 DEF Publish
<1>4. CASE Restart
  BY <1>4 DEF Restart, Forgotten
<1>5. ASSUME NEW n \in Names, Reconcile(n) \/ Retracked(n) \/ Delete(n) PROVE Channels'
  BY <1>5 DEF Reconcile, Retracked, Delete
<1>6. ASSUME NEW c \in Clients, Events(c) PROVE Channels'
  BY <1>6 DEF Events, TypeOK
<1>7. ASSUME NEW c \in Clients, List(c) PROVE Channels'
  BY <1>7 DEF List, TypeOK
<1>8. ASSUME NEW c \in Clients, Deliver(c) PROVE Channels'
  BY <1>8 DEF Deliver, TypeOK
<1>9. ASSUME NEW c \in Clients, Cancel(c) PROVE Channels'
  BY <1>9 DEF Cancel, Forgotten, TypeOK
<1> QED
  BY <1>1, <1>2, <1>3, <1>4, <1>5, <1>6, <1>7, <1>8, <1>9 DEF Next

-----------------------------------------------------------------------------
(* What clients are told.                                                  *)

(* The clause of NothingMissed for one client and one name.                *)
ToldOf(c, n) ==
  IF About(c, n) # {}
  THEN \E i \in About(c, n) : (\A j \in About(c, n) : j <= i) /\ queue[c][i].phase = lastPhase[n]
  ELSE lastPhase[n] = IF told[c][n] = "untold" THEN before[c][n] ELSE told[c][n]

(* It is about what it names, and nothing else.                            *)
LEMMA ToldUnmoved ==
  ASSUME NEW c \in Clients, NEW n \in Names, ToldOf(c, n), UNCHANGED lastPhase,
         queue'[c] = queue[c], told'[c] = told[c], before'[c] = before[c]
  PROVE  ToldOf(c, n)'
<1>1. About(c, n)' = About(c, n)
  BY DEF About
<1> QED BY <1>1 DEF ToldOf

(* A client whose channel had room for all changes is about to be told.    *)
LEMMA PublishTells ==
  ASSUME TypeOK, NEW c \in Clients, NEW n \in Names, ToldOf(c, n), Publish, c \in subs, ~ Dropped(c)
  PROVE  ToldOf(c, n)'
<1> DEFINE q == queue[c]
           k == Len(q)
           r == queue'[c]
<1>1. /\ q \in Seq(Change) /\ k \in Nat /\ Changes \in Seq(Change) /\ Len(Changes) \in Nat
      /\ k + Len(Changes) <= Room
  BY ChangesSay, LenProperties, RoomAssumption DEF TypeOK, Dropped
<1>2. r = q \o Changes
  BY <1>1, SentType DEF Publish, TypeOK
<1>3. /\ DOMAIN r = 1 .. k + Len(Changes)
      /\ \A i \in 1 .. k : r[i] = q[i]
      /\ \A i \in 1 .. Len(Changes) : r[k + i] = Changes[i]
  <2> HIDE DEF q, k, r
  <2>1. r \in Seq(Change) /\ Len(r) = Len(q) + Len(Changes)
    BY <1>1, <1>2, ConcatProperties
  <2>2. \A i \in 1 .. Len(q) + Len(Changes) : r[i] = IF i <= Len(q) THEN q[i] ELSE Changes[i - Len(q)]
    BY <1>1, <1>2, ConcatProperties
  <2>3. Len(q) = k
    BY DEF k
  <2>4. \A i \in 1 .. k : r[i] = q[i]
    BY <1>1, <2>2, <2>3
  <2>5. \A i \in 1 .. Len(Changes) : /\ k + i \in 1 .. k + Len(Changes) /\ ~ (k + i <= k)
                                    /\ (k + i) - k = i
    BY <1>1
  <2>6. \A i \in 1 .. Len(Changes) : r[k + i] = Changes[i]
    BY <2>2, <2>3, <2>5
  <2> QED BY <2>1, <2>3, <2>4, <2>6, LenProperties
<1>4. DOMAIN q = 1 .. k
  BY <1>1, LenProperties
<1>5. lastPhase' = phase /\ told' = told /\ before' = before
  BY DEF Publish
<1>6. About(c, n) = {i \in 1 .. k : q[i].name = n}
  BY <1>4 DEF About
<1>7. About(c, n)' = {i \in 1 .. k + Len(Changes) : r[i].name = n}
  BY <1>3 DEF About
<1> HIDE DEF q, k, r
<1>8. \A i \in 1 .. k + Len(Changes) : i > k => i - k \in 1 .. Len(Changes) /\ k + (i - k) = i
  BY <1>1
<1>9. \A i \in 1 .. k : i \in 1 .. k + Len(Changes)
  BY <1>1
<1>10. CASE n \in Changed
  <2>1. PICK j \in 1 .. Len(Changes) : Changes[j].name = n
    BY <1>10, ChangesSay
  <2>2. k + j \in 1 .. k + Len(Changes) /\ r[k + j] = Changes[j]
    BY <1>1, <1>3
  <2>3. k + j \in About(c, n)'
    BY <1>7, <2>1, <2>2
  <2>4. ASSUME NEW i \in About(c, n)' PROVE i <= k + j
    <3>1. i \in 1 .. k + Len(Changes) /\ r[i].name = n
      BY <1>7, <2>4
    <3>2. CASE i > k
      <4>1. i - k \in 1 .. Len(Changes) /\ r[i] = Changes[i - k]
        BY <1>3, <1>8, <3>1, <3>2
      <4>2. i - k = j
        BY <2>1, <3>1, <4>1, ChangesSay
      <4> QED BY <1>1, <3>1, <4>2
    <3> QED BY <1>1, <3>1, <3>2
  <2>5. r[k + j].phase = phase[n]
    BY <2>1, <2>2, ChangesSay
  <2>6. queue'[c][k + j].phase = lastPhase'[n]
    BY <1>5, <2>5 DEF r
  <2> QED BY <2>3, <2>4, <2>6 DEF ToldOf
<1>11. CASE n \notin Changed
  <2>1. \A i \in 1 .. k + Len(Changes) : i > k => r[i].name # n
    BY <1>3, <1>8, <1>11, ChangesSay
  <2>2. \A i \in 1 .. k + Len(Changes) : ~ (i > k) => i \in 1 .. k
    BY <1>1
  <2>3. About(c, n)' = About(c, n)
    BY <1>3, <1>6, <1>7, <1>9, <2>1, <2>2
  <2>4. lastPhase'[n] = lastPhase[n]
    BY <1>5, <1>11 DEF Changed
  <2>5. \A i \in About(c, n) : queue'[c][i] = queue[c][i]
    BY <1>3, <1>6 DEF q, r
  <2> QED BY <1>5, <2>3, <2>4, <2>5 DEF ToldOf
<1> QED BY <1>10, <1>11

(* A client that is told the next change of its channel.                   *)
LEMMA DeliverTells ==
  ASSUME TypeOK, NEW c \in Clients, NEW n \in Names, ToldOf(c, n), Deliver(c)
  PROVE  ToldOf(c, n)'
<1> DEFINE q == queue[c]
           r == queue'[c]
<1>1. /\ q \in Seq(Change) /\ q # <<>> /\ r = Tail(q) /\ Len(q) \in Nat \ {0}
      /\ DOMAIN q = 1 .. Len(q)
  <2>1. q \in Seq(Change)
    BY DEF TypeOK
  <2>2. q # <<>> /\ r = Tail(q)
    BY DEF Deliver, TypeOK
  <2> HIDE DEF q
  <2> QED BY <2>1, <2>2, LenProperties, EmptySeq
<1>2. /\ DOMAIN r = 1 .. Len(q) - 1
      /\ \A i \in 1 .. Len(q) - 1 : r[i] = q[i + 1]
  <2> HIDE DEF q, r
  <2>1. r \in Seq(Change) /\ Len(r) = Len(q) - 1 /\ \A i \in 1 .. Len(r) : r[i] = q[i + 1]
    BY <1>1, HeadTailProperties
  <2> QED BY <2>1, LenProperties
<1>3. Head(q) = q[1]
  BY <1>1
<1>4. /\ lastPhase' = lastPhase /\ before' = before
      /\ told'[c][n] = IF n = q[1].name THEN q[1].phase ELSE told[c][n]
  BY <1>3 DEF Deliver, TypeOK
<1>5. About(c, n) = {i \in 1 .. Len(q) : q[i].name = n}
  BY <1>1 DEF About
<1>6. About(c, n)' = {i \in 1 .. Len(q) - 1 : q[i + 1].name = n}
  BY <1>2 DEF About
<1>7. ToldOf(c, n)' <=>
        IF About(c, n)' # {}
        THEN \E i \in About(c, n)' : (\A j \in About(c, n)' : j <= i) /\ r[i].phase = lastPhase'[n]
        ELSE lastPhase'[n] = IF told'[c][n] = "untold" THEN before'[c][n] ELSE told'[c][n]
  BY DEF ToldOf
<1>8. lastPhase[n] # "untold" /\ q[1].phase # "untold"
  <2>1. lastPhase[n] \in Told
    BY DEF TypeOK
  <2>2. q[1] \in Change
    BY <1>1
  <2> QED BY <2>1, <2>2 DEF Told, Phases, Change
<1>9. IF About(c, n) # {}
      THEN \E i \in About(c, n) : (\A j \in About(c, n) : j <= i) /\ q[i].phase = lastPhase[n]
      ELSE lastPhase[n] = IF told[c][n] = "untold" THEN before[c][n] ELSE told[c][n]
  BY DEF ToldOf
<1> HIDE DEF q, r
<1>10. CASE About(c, n)' # {}
  <2>1. PICK k \in 1 .. Len(q) - 1 : q[k + 1].name = n
    BY <1>6, <1>10
  <2>2. k + 1 \in 1 .. Len(q)
    BY <1>1
  <2>3. k + 1 \in About(c, n)
    BY <1>5, <2>1, <2>2
  <2>4. PICK i \in About(c, n) : (\A j \in About(c, n) : j <= i) /\ q[i].phase = lastPhase[n]
    BY <1>9, <2>3
  <2>5. i \in 1 .. Len(q) /\ q[i].name = n /\ k + 1 <= i
    BY <1>5, <2>3, <2>4
  <2>6. i - 1 \in 1 .. Len(q) - 1 /\ (i - 1) + 1 = i
    BY <1>1, <2>5
  <2>7. i - 1 \in About(c, n)' /\ r[i - 1].phase = lastPhase'[n]
    BY <1>2, <1>4, <1>6, <2>4, <2>5, <2>6
  <2>8. ASSUME NEW j \in About(c, n)' PROVE j <= i - 1
    <3>1. j \in 1 .. Len(q) - 1 /\ q[j + 1].name = n
      BY <1>6, <2>8
    <3>2. j + 1 \in 1 .. Len(q)
      BY <1>1, <3>1
    <3>3. j + 1 <= i
      BY <1>5, <2>4, <3>1, <3>2
    <3> QED BY <2>5, <3>1, <3>3
  <2> QED BY <1>7, <1>10, <2>7, <2>8
<1>11. CASE About(c, n)' = {}
  <2>1. ASSUME NEW i \in About(c, n) PROVE i = 1
    <3>1. i \in 1 .. Len(q) /\ q[i].name = n
      BY <1>5, <2>1
    <3>2. i # 1 => i - 1 \in 1 .. Len(q) - 1 /\ (i - 1) + 1 = i
      BY <1>1, <3>1
    <3> QED BY <1>6, <1>11, <3>1, <3>2
  <2>2. CASE About(c, n) # {}
    <3>1. q[1].name = n /\ q[1].phase = lastPhase[n]
      BY <1>5, <1>9, <2>1, <2>2
    <3> QED BY <1>4, <1>7, <1>8, <1>11, <3>1
  <2>3. CASE About(c, n) = {}
    <3>1. 1 \in 1 .. Len(q)
      BY <1>1
    <3>2. q[1].name # n
      BY <1>5, <2>3, <3>1
    <3> QED BY <1>4, <1>7, <1>9, <1>11, <2>3, <3>2
  <2> QED BY <2>2, <2>3
<1> QED BY <1>10, <1>11

(* Every step leaves those that dropped nothing told.                      *)
LEMMA NextTells ==
  ASSUME FeedInv, [Next]_vars
  PROVE  NothingMissed'
<1> SUFFICES ASSUME NEW c \in subs' \ missed', NEW n \in Names
             PROVE  ToldOf(c, n)'
  BY DEF NothingMissed, ToldOf
<1>1. TypeOK /\ Channels /\ TypeOK' /\ Channels'
  BY NextType, NextChannels DEF FeedInv
<1>2. c \in Clients /\ (c \in subs \ missed => ToldOf(c, n))
  BY <1>1 DEF FeedInv, NothingMissed, ToldOf, TypeOK
<1> DEFINE Quiet == /\ UNCHANGED lastPhase /\ c \in subs \ missed
                    /\ queue'[c] = queue[c] /\ told'[c] = told[c] /\ before'[c] = before[c]
<1>3. Quiet => ToldOf(c, n)'
  BY <1>2, ToldUnmoved
<1>4. CASE UNCHANGED vars
  BY <1>3, <1>4 DEF vars, clientVars
<1>5. CASE BeginPass
  BY <1>3, <1>5 DEF BeginPass, clientVars
<1>6. CASE Publish
  <2>1. c \in subs \ missed /\ ~ Dropped(c)
    BY <1>6 DEF Publish
  <2> QED BY <1>1, <1>2, <1>6, <2>1, PublishTells
<1>7. CASE Restart
  BY <1>7 DEF Restart
<1>8. ASSUME NEW k \in Names, Reconcile(k) \/ Retracked(k) \/ Delete(k) PROVE ToldOf(c, n)'
  BY <1>3, <1>8 DEF Reconcile, Retracked, Delete, clientVars
<1>9. ASSUME NEW d \in Clients, Events(d) PROVE ToldOf(c, n)'
  <2>1. CASE c = d
    <3>1. About(c, n)' = {}
      BY <1>1, <1>9, <2>1 DEF Events, Channels, About
    <3>2. told'[c][n] = "untold" /\ before'[c] = lastPhase /\ lastPhase' = lastPhase
      BY <1>1, <1>2, <1>9, <2>1 DEF Events, Fresh, Everything, TypeOK
    <3> QED BY <3>1, <3>2 DEF ToldOf
  <2>2. CASE c # d
    BY <1>1, <1>2, <1>3, <1>9, <2>2 DEF Events, Fresh, TypeOK
  <2> QED BY <2>1, <2>2
<1>10. ASSUME NEW d \in Clients, List(d) PROVE ToldOf(c, n)'
  BY <1>3, <1>10 DEF List
<1>11. ASSUME NEW d \in Clients, Deliver(d) PROVE ToldOf(c, n)'
  <2>1. c \in subs \ missed
    BY <1>11 DEF Deliver
  <2>2. CASE c = d
    BY <1>1, <1>2, <1>11, <2>1, <2>2, DeliverTells
  <2>3. CASE c # d
    BY <1>1, <1>2, <1>3, <1>11, <2>1, <2>3 DEF Deliver, TypeOK
  <2> QED BY <2>2, <2>3
<1>12. ASSUME NEW d \in Clients, Cancel(d) PROVE ToldOf(c, n)'
  BY <1>1, <1>2, <1>3, <1>12 DEF Cancel, Forgotten, TypeOK
<1> QED
  BY <1>4, <1>5, <1>6, <1>7, <1>8, <1>9, <1>10, <1>11, <1>12 DEF Next

(* What is in a channel publish leaves there, and adds what changed to.    *)
LEMMA PublishAbout ==
  ASSUME TypeOK, NEW c \in Clients, NEW n \in Names, Publish, c \in subs, ~ Dropped(c),
         About(c, n)' = {}
  PROVE  About(c, n) = {} /\ n \notin Changed
<1> DEFINE q == queue[c]
<1>1. /\ q \in Seq(Change) /\ Len(q) \in Nat /\ Changes \in Seq(Change) /\ Len(Changes) \in Nat
      /\ Len(q) + Len(Changes) <= Room
  BY ChangesSay, LenProperties, RoomAssumption DEF TypeOK, Dropped
<1>2. queue'[c] = q \o Changes
  BY <1>1, SentType DEF Publish, TypeOK
<1>3. About(c, n)' = {i \in 1 .. Len(q) + Len(Changes) : (q \o Changes)[i].name = n}
  BY <1>1, <1>2, ConcatProperties, LenProperties DEF About
<1>4. About(c, n) = {i \in 1 .. Len(q) : q[i].name = n}
  BY <1>1, LenProperties DEF About
<1> HIDE DEF q
<1>5. ASSUME NEW i \in 1 .. Len(q), q[i].name = n PROVE FALSE
  <2>1. i \in 1 .. Len(q) + Len(Changes) /\ (q \o Changes)[i] = q[i]
    BY <1>1, ConcatProperties
  <2> QED BY <1>3, <1>5, <2>1
<1>6. ASSUME NEW i \in 1 .. Len(Changes), Changes[i].name = n PROVE FALSE
  <2>1. Len(q) + i \in 1 .. Len(q) + Len(Changes) /\ ~ (Len(q) + i <= Len(q)) /\ (Len(q) + i) - Len(q) = i
    BY <1>1
  <2>2. (q \o Changes)[Len(q) + i] = Changes[i]
    BY <1>1, <2>1, ConcatProperties
  <2> QED BY <1>3, <1>6, <2>1, <2>2
<1> QED BY <1>4, <1>5, <1>6, ChangesSay

(* Only the change that is told leaves a channel.                          *)
LEMMA DeliverAbout ==
  ASSUME TypeOK, NEW c \in Clients, NEW n \in Names, Deliver(c), About(c, n)' = {},
         n # Head(queue[c]).name
  PROVE  About(c, n) = {}
<1> DEFINE q == queue[c]
           r == queue'[c]
<1>1. q \in Seq(Change)
  BY DEF TypeOK
<1>2. q # <<>> /\ r = Tail(q)
  BY DEF Deliver, TypeOK
<1>3. About(c, n) = {i \in DOMAIN q : q[i].name = n} /\ About(c, n)' = {i \in DOMAIN r : r[i].name = n}
  BY DEF About
<1> HIDE DEF q, r
<1>4. /\ Len(q) \in Nat \ {0} /\ DOMAIN q = 1 .. Len(q) /\ DOMAIN r = 1 .. Len(q) - 1
      /\ \A i \in 1 .. Len(q) - 1 : r[i] = q[i + 1]
  BY <1>1, <1>2, HeadTailProperties, LenProperties, EmptySeq
<1>5. q[1].name # n
  BY <1>1, <1>2 DEF q
<1>6. ASSUME NEW i \in 1 .. Len(q), q[i].name = n PROVE FALSE
  <2>1. i # 1 => i - 1 \in 1 .. Len(q) - 1 /\ (i - 1) + 1 = i
    BY <1>4
  <2> QED BY <1>3, <1>4, <1>5, <1>6, <2>1
<1> QED BY <1>3, <1>4, <1>6

(* Every step leaves those that dropped nothing caught up.                 *)
LEMMA NextCaughtUp ==
  ASSUME FeedInv, [Next]_vars
  PROVE  CaughtUp'
<1> SUFFICES ASSUME NEW c \in Clients \ missed', NEW n \in Names,
                    stream'[c] = "read", About(c, n)' = {}
             PROVE  view'[c][n] = lastPhase'[n] \/ n \in glimpsed'[c]
  BY DEF CaughtUp
<1> DEFINE Goal == view'[c][n] = lastPhase'[n] \/ n \in glimpsed'[c]
<1>1. TypeOK /\ Channels /\ NothingMissed'
  BY NextTells DEF FeedInv
<1>2. c \notin missed /\ stream[c] = "read" /\ About(c, n) = {} =>
        view[c][n] = lastPhase[n] \/ n \in glimpsed[c]
  BY DEF FeedInv, CaughtUp
<1> DEFINE Quiet == /\ UNCHANGED lastPhase /\ c \notin missed
                    /\ queue'[c] = queue[c] /\ stream'[c] = stream[c]
                    /\ view'[c] = view[c] /\ glimpsed'[c] = glimpsed[c]
<1>3. ASSUME Quiet PROVE Goal
  <2>1. About(c, n)' = About(c, n)
    BY <1>3 DEF About
  <2> QED BY <1>2, <1>3, <2>1
<1>4. CASE UNCHANGED vars
  BY <1>3, <1>4 DEF vars, clientVars
<1>5. CASE BeginPass
  BY <1>3, <1>5 DEF BeginPass, clientVars
<1>6. CASE Publish
  <2>1. c \notin missed /\ (c \in subs => ~ Dropped(c)) /\ stream' = stream
    BY <1>6 DEF Publish
  <2>2. c \in subs
    BY <1>1, <2>1 DEF Channels
  <2>3. About(c, n) = {} /\ n \notin Changed
    BY <1>1, <1>6, <2>1, <2>2, PublishAbout
  <2>4. lastPhase'[n] = lastPhase[n] /\ view' = view /\ glimpsed' = glimpsed
    BY <1>6, <2>3 DEF Publish, Changed
  <2> QED BY <1>2, <2>1, <2>3, <2>4
<1>7. CASE Restart
  BY <1>7 DEF Restart
<1>8. ASSUME NEW k \in Names, Reconcile(k) \/ Retracked(k) \/ Delete(k) PROVE Goal
  BY <1>3, <1>8 DEF Reconcile, Retracked, Delete, clientVars
<1>9. ASSUME NEW d \in Clients, Events(d) PROVE Goal
  <2>1. c # d
    BY <1>1, <1>9 DEF Events, TypeOK
  <2> QED BY <1>1, <1>3, <1>9, <2>1 DEF Events, Fresh, TypeOK
<1>10. ASSUME NEW d \in Clients, List(d) PROVE Goal
  <2>1. CASE c = d
    BY <1>1, <1>10, <2>1 DEF List, TypeOK
  <2>2. CASE c # d
    BY <1>1, <1>3, <1>10, <2>2 DEF List, TypeOK
  <2> QED BY <2>1, <2>2
<1>11. ASSUME NEW d \in Clients, Deliver(d) PROVE Goal
  <2>1. CASE c = d /\ n = Head(queue[c]).name
    <3>1. /\ view'[c][n] = Head(queue[c]).phase /\ told'[c][n] = Head(queue[c]).phase
          /\ missed' = missed /\ subs' = subs
      BY <1>1, <1>11, <2>1 DEF Deliver, TypeOK
    <3>2. Head(queue[c]).phase # "untold"
      <4>1. Head(queue[c]) \in Change
        BY <1>1, <1>11, <2>1, HeadTailProperties DEF Deliver, TypeOK
      <4> QED BY <4>1 DEF Change, Told, Phases
    <3>3. c \in subs' \ missed'
      BY <1>1, <1>11, <2>1, <3>1 DEF Deliver, Channels
    <3>4. lastPhase'[n] = IF told'[c][n] = "untold" THEN before'[c][n] ELSE told'[c][n]
      BY <1>1, <3>3 DEF NothingMissed
    <3> QED BY <3>1, <3>2, <3>4
  <2>2. CASE c = d /\ n # Head(queue[c]).name
    <3>1. About(c, n) = {}
      BY <1>1, <1>11, <2>2, DeliverAbout
    <3>2. /\ view'[c][n] = view[c][n] /\ lastPhase' = lastPhase /\ missed' = missed
          /\ stream' = stream /\ (n \in glimpsed[c] => n \in glimpsed'[c])
      BY <1>1, <1>11, <2>2 DEF Deliver, TypeOK
    <3> QED BY <1>2, <3>1, <3>2
  <2>3. CASE c # d
    BY <1>1, <1>3, <1>11, <2>3 DEF Deliver, TypeOK
  <2> QED BY <2>1, <2>2, <2>3
<1>12. ASSUME NEW d \in Clients, Cancel(d) PROVE Goal
  <2>1. c # d
    BY <1>1, <1>12 DEF Cancel, TypeOK
  <2> QED BY <1>1, <1>3, <1>12, <2>1 DEF Cancel, Forgotten, TypeOK
<1> QED
  BY <1>4, <1>5, <1>6, <1>7, <1>8, <1>9, <1>10, <1>11, <1>12 DEF Next

(* Nobody has a channel at first.                                          *)
LEMMA InitFeed == Init => FeedInv
<1> SUFFICES ASSUME Init PROVE FeedInv
  OBVIOUS
<1>1. /\ Everything("unread") \in [Names -> Told \cup {"unread"}]
      /\ Everything("untold") \in [Names -> Told \cup {"untold"}]
      /\ Everything("deleted") \in [Names -> Told]
  BY EverythingType DEF Told
<1>2. <<>> \in Seq(Change) /\ Len(<<>>) <= Room
  BY EmptySeq, RoomAssumption
<1>3. phase \in [Names -> Told]
  BY DEF Init, Told, Phases
<1>4. TypeOK
  BY <1>1, <1>2, <1>3, BoundsAssumption DEF Init, TypeOK
<1>5. Channels /\ NothingMissed /\ CaughtUp
  BY DEF Init, Channels, NothingMissed, CaughtUp
<1> QED BY <1>4, <1>5 DEF FeedInv

-----------------------------------------------------------------------------
(* Theorems.                                                               *)

(* The invariant the theorems rest on.                                     *)
LEMMA FeedKept == Spec => []FeedInv
<1>1. FeedInv /\ [Next]_vars => FeedInv'
  BY NextType, NextChannels, NextTells, NextCaughtUp DEF FeedInv
<1> QED BY <1>1, InitFeed, PTL DEF Spec

(* Every variable keeps its type, and no channel is ever above its         *)
(* capacity, whoever does not read.                                        *)
THEOREM TypeCorrect == Spec => []TypeOK
<1>1. FeedInv => TypeOK
  BY DEF FeedInv
<1> QED BY <1>1, FeedKept, PTL

(* A subscriber no change was dropped for is told the last phase publish   *)
(* had of every container, deletions included, whatever passes, calls and  *)
(* restarts of the daemon come between.                                    *)
THEOREM SubscribersTold == Spec => []NothingMissed
<1>1. FeedInv => NothingMissed
  BY DEF FeedInv
<1> QED BY <1>1, FeedKept, PTL

(* A client that listed once it had the head of its stream, and has read   *)
(* what it was sent, holds of every container what publish said last, but  *)
(* for those it listed between two changes.                                *)
THEOREM ViewsCaughtUp == Spec => []CaughtUp
<1>1. FeedInv => CaughtUp
  BY DEF FeedInv
<1> QED BY <1>1, FeedKept, PTL
=============================================================================
