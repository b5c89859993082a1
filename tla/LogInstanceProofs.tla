------------------------- MODULE LogInstanceProofs -------------------------
(***************************************************************************)
(* One log under any number of user threads, for all configurations and    *)
(* without bounds on the calls: an entry meets one configuration, a flush  *)
(* delivers what the buffer hands out and a second one everything, what an *)
(* appender wrote can be read back, and the text of a snapshot ends what   *)
(* was kept for it.                                                        *)
(*                                                                         *)
(* None says anything about locks, so none is inductive.  LocksInv adds    *)
(* who holds logs_lock_ and spin_lock_ at which place, and that the parts  *)
(* of a configuration differ only while reset_config is between them,      *)
(* which it is with the lock in hand.  FlushInv adds that an entry not yet *)
(* committed has a number no flush can be waiting for, that nobody is at   *)
(* work once the buffer's empty answer counts, and that every appender has *)
(* its place in out and flushed.  ReaderInv adds what the entries in hand, *)
(* in the buffer and in the outputs were written with, and how far the     *)
(* walk over the appenders has come.  SnapInv adds what                    *)
(* the ring of the snapshot holds, and that an uninterrupted text stands   *)
(* right in front of it.                                                   *)
(***************************************************************************)
EXTENDS LogInstance, FiniteSetTheorems, WellFoundedInduction, TLAPS

\* An entry is in hand; a configuration is being changed.
Work == {"chunk", "filter", "deliver", "snapshot", "done"}
Resetting == {"reset", "reset_mask", "reset_snapshot"}
Labels == {"idle", "put", "sync", "flush", "read", "unlock", "taken"} \cup Work \cup Resetting

PlacesKnown ==
  /\ mode \in {"async", "sync"}
  /\ pc \in [Threads -> Labels]
  /\ pc[Worker] \in {"idle", "read", "unlock"} \cup Work
  /\ pc[Worker] # "idle" => mode = "async"
  /\ \A u \in Users : /\ mode = "sync" => pc[u] \notin {"put", "flush", "read"}
                      /\ mode = "async" => pc[u] # "sync"

\* What the locks record is where the threads are.
LocksHeld ==
  /\ logs_lock \in [writer : Users \cup {None}, readers : SUBSET {Worker}]
  /\ Worker \in logs_lock.readers <=> pc[Worker] # "idle"
  /\ logs_lock.writer # None => logs_lock.readers = {}
  /\ \A u \in Users :
       /\ logs_lock.writer = u <=> \/ pc[u] \in {"read", "unlock"} \cup Resetting
                                   \/ mode = "async" /\ pc[u] \in Work
       /\ mode = "sync" => (spin_lock = u <=> pc[u] \in Work)

\* The parts of the configuration agree unless it is being changed.
Generations ==
  /\ gen \in [apps : Nat, mask : Nat, snap : Nat]
  /\ (\A u \in Users : pc[u] \notin {"reset_mask", "reset_snapshot"}) =>
        gen.mask = gen.apps /\ gen.snap = gen.apps
  /\ (\E u \in Users : pc[u] = "reset_snapshot") => gen.mask = gen.apps

\* An entry in hand has met nothing but the configuration of now.
MetNow ==
  /\ used \in [Threads -> SUBSET Nat]
  /\ \A t \in Threads : /\ used[t] \subseteq {gen.apps}
                        /\ pc[t] \notin Work \ {"chunk"} => used[t] = {}

LocksInv == PlacesKnown /\ LocksHeld /\ Generations /\ MetNow

Entries == [id : Nat, cat : Nat, lvl : Levels, size : Nat, ts : Nat, old : BOOLEAN, valid : BOOLEAN,
            by : Users \cup {None}]

\* Entries are in the buffer or in somebody's hands.
EntriesKnown ==
  /\ queue \in Seq(Entries) /\ clock \in Nat
  /\ DOMAIN cur = Threads
  /\ \A t \in Threads : /\ pc[t] \in {"put", "sync"} \cup Work => cur[t] \in Entries
                        /\ pc[t] \in Resetting => cur[t] \in Configs
  /\ pc[Worker] \notin Work => cur[Worker] = None

\* The numbers do_log has not given out yet.
Future == MaxOld + 1 .. MaxOld + budget.writes

BudgetKinds == {"writes", "resets", "takes", "flushes", "enables", "faults", "calls"}

\* An entry that is not committed yet has a number nobody else has, and no
\* number is given out twice.
NumbersUnique ==
  /\ DOMAIN budget = BudgetKinds /\ budget.writes \in Nat
  /\ \A i \in 1..Len(queue) : queue[i].id \notin Future
  /\ pc[Worker] \in Work => cur[Worker].id \notin Future
  /\ \A t \in Threads : want[t] \cap Future = {}
  /\ \A u \in Users : pc[u] = "put" =>
       /\ cur[u].id \notin Future
       /\ \A i \in 1..Len(queue) : queue[i].id # cur[u].id
       /\ \A t \in Threads : cur[u].id \notin want[t]
       /\ \A v \in Users : pc[v] = "put" /\ v # u => cur[v].id # cur[u].id
       /\ pc[Worker] \in Work => cur[Worker].id # cur[u].id

\* Only a flush wants something.
WantKnown ==
  /\ DOMAIN want = Threads
  /\ \A t \in Threads : want[t] # {} =>
       t \in Users /\ mode = "async" /\ pc[t] \in {"flush", "read", "unlock"} \cup Work

Fields == {"name", "type", "levels", "cats", "enable", "dest", "id"}

\* Every appender has its place in out and flushed.
AppendersKnown ==
  /\ out \in Seq(Range(out)) /\ flushed \in Seq(Range(flushed)) /\ Len(flushed) = Len(out)
  /\ appenders \in Seq(Range(appenders))
  /\ \A a \in Range(appenders) : DOMAIN a = Fields /\ a.id \in 1..Len(out)

\* The buffer's empty answer counts as long as nobody is at work.
Answered ==
  /\ said_empty \in BOOLEAN /\ sure \subseteq Users
  /\ said_empty => \A u \in Users : pc[u] # "put"
  /\ sure # {} => said_empty

\* A flush that has come to its end has emptied the caches, and the buffer if
\* its empty answer counted before.
Delivered ==
  \A t \in Users : pc[t] = "unlock" /\ want[t] # {} =>
    /\ t \in sure => \A i \in 1..Len(queue) : queue[i].id \notin want[t]
    /\ \A a \in Range(appenders) : IsFile(a) => flushed[a.id] = Len(out[a.id])

FlushInv == EntriesKnown /\ NumbersUnique /\ WantKnown /\ AppendersKnown /\ Answered /\ Delivered

IInv == LocksInv /\ FlushInv

-----------------------------------------------------------------------------
\* Who is who.
LEMMA Roles ==
  /\ Worker \in Threads /\ Worker \notin Users /\ Worker # None
  /\ \A u \in Users : u \in Threads /\ u # None /\ u # Worker
  /\ \A t \in Threads : t \in Users \/ t = Worker
  BY InstanceConstants DEF Threads

\* Sequences that are given as functions.
LEMMA SeqOfFcn ==
  ASSUME NEW n \in Nat, NEW f, f = [i \in 1..n |-> f[i]]
  PROVE  f \in Seq(Range(f)) /\ Len(f) = n
  BY DEF Range

LEMMA SeqIsFcn ==
  ASSUME NEW f, f \in Seq(Range(f))
  PROVE  /\ Len(f) \in Nat /\ DOMAIN f = 1..Len(f)
         /\ \A x : x \in Range(f) <=> \E i \in 1..Len(f) : x = f[i]
  BY DEF Range

\* Sequences put together.
LEMMA JoinedPlaces ==
  ASSUME NEW R, NEW S, NEW f, f \in Seq(R), NEW g, g \in Seq(S), NEW h, h = f \o g
  PROVE  /\ h \in Seq(R \cup S) /\ Len(h) = Len(f) + Len(g)
         /\ \A i \in 1..Len(f) + Len(g) : h[i] = IF i <= Len(f) THEN f[i] ELSE g[i - Len(f)]
  <1>1. f \in Seq(R \cup S) /\ g \in Seq(R \cup S)
    OBVIOUS
  <1> QED BY <1>1

LEMMA OwnRange ==
  ASSUME NEW X, NEW h, h \in Seq(X)
  PROVE  h \in Seq(Range(h))
  <1>1. Len(h) \in Nat /\ h = [i \in 1..Len(h) |-> h[i]]
    OBVIOUS
  <1> QED BY <1>1, SeqOfFcn

LEMMA Filled ==
  ASSUME NEW n \in Nat, NEW x
  PROVE  [i \in 1..n |-> x] \in Seq({x}) /\ Len([i \in 1..n |-> x]) = n
  OBVIOUS

\* Calls are counted, and only do_log gives out a number.
LEMMA Spending ==
  ASSUME NumbersUnique, NEW k \in BudgetKinds \ {"calls"}, Spend(k)
  PROVE  /\ DOMAIN budget' = BudgetKinds /\ budget'.writes \in Nat
         /\ budget'.writes = IF k = "writes" THEN budget.writes - 1 ELSE budget.writes
         /\ k = "writes" => budget.writes > 0
         /\ Future' \subseteq Future
  <1>1. /\ DOMAIN budget' = BudgetKinds
        /\ budget'.writes = IF k = "writes" THEN budget.writes - 1 ELSE budget.writes
        /\ k = "writes" => budget.writes > 0
    BY DEF NumbersUnique, Spend, BudgetKinds
  <1>2. budget'.writes \in Nat /\ budget'.writes <= budget.writes
    BY <1>1 DEF NumbersUnique
  <1> QED BY <1>1, <1>2, InstanceConstants DEF NumbersUnique, Future

\* While an entry is processed in async mode nobody is within reset_config.
LEMMA NoReset ==
  ASSUME LocksInv, NEW t \in Threads, pc[t] \in Work, mode = "async"
  PROVE  gen.mask = gen.apps /\ gen.snap = gen.apps
  <1>1. \A u \in Users : pc[u] \notin Resetting
    BY Roles DEF LocksInv, PlacesKnown, LocksHeld, Work, Resetting
  <1> QED BY <1>1 DEF LocksInv, Generations, Resetting

\* What flush_write_cache does to the files of all appenders.
LEMMA FlushCache ==
  ASSUME AppendersKnown
  PROVE  /\ flush_appenders_cache(flushed, out) \in Seq(Range(flush_appenders_cache(flushed, out)))
         /\ Len(flush_appenders_cache(flushed, out)) = Len(flushed)
         /\ \A a \in Range(appenders) :
              IsFile(a) => flush_appenders_cache(flushed, out)[a.id] = Len(out[a.id])
  <1>1. Len(flushed) \in Nat
    BY SeqIsFcn DEF AppendersKnown
  <1> DEFINE f == flush_appenders_cache(flushed, out)
  <1>2. f = [i \in 1..Len(flushed) |-> f[i]]
    BY DEF flush_appenders_cache
  <1>3. f \in Seq(Range(f)) /\ Len(f) = Len(flushed)
    BY <1>1, <1>2, SeqOfFcn
  <1>4. \A a \in Range(appenders) : IsFile(a) => f[a.id] = Len(out[a.id])
    BY DEF flush_appenders_cache, AppendersKnown
  <1> QED BY <1>3, <1>4

\* Telling appenders something keeps the number of appenders.
LEMMA Telling ==
  ASSUME NEW o, o \in Seq(Range(o)), NEW ids, NEW e
  PROVE  Tell(o, ids, e) \in Seq(Range(Tell(o, ids, e))) /\ Len(Tell(o, ids, e)) = Len(o)
  <1>1. Len(o) \in Nat
    BY SeqIsFcn
  <1> DEFINE f == Tell(o, ids, e)
  <1>2. f = [i \in 1..Len(o) |-> f[i]]
    BY DEF Tell
  <1>3. f \in Seq(Range(f)) /\ Len(f) = Len(o)
    BY <1>1, <1>2, SeqOfFcn
  <1> QED BY <1>3

\* The time of an entry is put right; everything else about it stays.
LEMMA Ticking ==
  ASSUME EntriesKnown, PlacesKnown, NEW t \in Threads, pc[t] = "chunk", Tick(t)
  PROVE  /\ clock' \in Nat /\ DOMAIN cur' = Threads
         /\ cur'[t] \in Entries /\ cur'[t].id = cur[t].id
         /\ \A v \in Threads \ {t} : cur'[v] = cur[v]
  <1>1. cur[t] \in Entries /\ clock \in Nat /\ DOMAIN cur = Threads
    BY DEF EntriesKnown, Work
  <1>2. clock' \in Nat
    BY <1>1 DEF Tick, Entries
  <1>3. cur'[t] = [cur[t] EXCEPT !.ts = clock'] /\ DOMAIN cur' = Threads
    BY <1>1 DEF Tick
  <1> QED BY <1>1, <1>2, <1>3 DEF Tick, Entries

\* A natural number is the least one of its kind: what takes the place of
\* induction below.
LEMMA LeastNumber ==
  ASSUME NEW S, S \subseteq Nat, S # {}
  PROVE  \E x \in S : \A y \in S : x <= y
  <1>1. PICK x \in S : \A y \in S : ~(<<y, x>> \in OpToRel(<, Nat))
    BY WFMin, NatLessThanWellFounded
  <1>2. \A y \in Nat : y < x => <<y, x>> \in OpToRel(<, Nat)
    <2> SUFFICES ASSUME NEW y \in Nat, y < x PROVE <<y, x>> \in OpToRel(<, Nat)
      OBVIOUS
    <2>1. <<y, x>> \in Nat \X Nat /\ <<y, x>>[1] = y /\ <<y, x>>[2] = x
      OBVIOUS
    <2> QED BY <2>1, Zenon DEF OpToRel
  <1>3. \A y \in S : ~(y < x)
    BY <1>1, <1>2, Zenon
  <1> QED BY <1>3

\* set_basic_configs changes an appender, and not which one it is.
LEMMA BasicConfigs ==
  ASSUME NEW a, DOMAIN a = Fields, NEW c
  PROVE  DOMAIN set_basic_configs(a, c) = Fields /\ set_basic_configs(a, c).id = a.id
  BY DEF set_basic_configs, Fields

LEMMA NewAppender ==
  ASSUME NEW name, NEW c, NEW id
  PROVE  DOMAIN init_appender(name, c, id) = Fields /\ init_appender(name, c, id).id = id
  <1> DEFINE a == [name |-> name, type |-> None, levels |-> {}, cats |-> {},
                   enable |-> TRUE, dest |-> None, id |-> id]
  <1>1. DOMAIN a = Fields /\ a.id = id
    BY DEF Fields
  <1>2. init_appender(name, c, id) = set_basic_configs(a, c)
    BY DEF init_appender
  <1> HIDE DEF a
  <1> QED BY <1>1, <1>2, BasicConfigs

\* Names in some order.
LEMMA NamesInOrder ==
  ASSUME NEW S, IsFiniteSet(S)
  PROVE  SetToSeq(S) \in Seq(S) /\ Len(SetToSeq(S)) \in Nat
  <1>1. PICK n \in Nat : ExistsBijection(1..n, S)
    BY FS_NatBijection
  <1>2. Cardinality(S) = n
    BY <1>1, FS_CountingElements
  <1>3. \E f \in [1..Cardinality(S) -> S] : IsInjective(f)
    BY <1>1, <1>2 DEF ExistsBijection, Bijection, Injection, IsInjective
  <1>4. SetToSeq(S) \in [1..Cardinality(S) -> S]
    BY <1>3 DEF SetToSeq
  <1> QED BY <1>2, <1>4

\* reset_config walks over appenders_list_ and keeps some, with new settings.
LEMMA SurvivorsKnown ==
  ASSUME AppendersKnown, NEW c
  PROVE  /\ Survivors(c) \in Seq({set_basic_configs(a, c.apps[a.name]) : a \in Range(appenders)})
  <1> DEFINE R == {set_basic_configs(a, c.apps[a.name]) : a \in Range(appenders)}
             Ok(a) == a.name \in DOMAIN c.apps /\ reset_ok(a, c.apps[a.name])
             New(a) == set_basic_configs(a, c.apps[a.name])
             D(f, i) == IF i = 0 THEN <<>>
                        ELSE IF Ok(appenders[i]) THEN Append(f[i - 1], New(appenders[i])) ELSE f[i - 1]
             Walk(f, n) == f = [i \in 0..n |-> D(f, i)]
             Kept == CHOOSE f : Walk(f, Len(appenders))
  <1>0. Len(appenders) \in Nat /\ \A i \in 1..Len(appenders) : New(appenders[i]) \in R
    BY SeqIsFcn DEF AppendersKnown
  <1>1. \A n \in Nat : \E f : Walk(f, n)
    <2> DEFINE T == {n \in Nat : ~ \E f : Walk(f, n)}
    <2> SUFFICES ASSUME T # {} PROVE FALSE
      OBVIOUS
    <2>1. PICK n \in T : \A y \in T : n <= y
      BY LeastNumber
    <2>2. CASE n = 0
      <3>1. Walk([i \in 0..0 |-> <<>>], 0)
        OBVIOUS
      <3> QED BY <2>1, <2>2, <3>1
    <2>3. CASE n # 0
      <3> HIDE DEF Walk
      <3>1. n \in Nat /\ n - 1 \in Nat /\ n - 1 \notin T
        BY <2>1, <2>3
      <3>2. PICK f : Walk(f, n - 1)
        BY <3>1
      <3>3. \A i \in 0..n - 1 : f[i] = D(f, i)
        BY <3>2 DEF Walk
      <3> HIDE DEF D, T
      <3> DEFINE g == [i \in 0..n |-> IF i = n THEN D(f, n) ELSE f[i]]
      <3>4. \A i \in 0..n : i # 0 => g[i - 1] = f[i - 1]
        BY <3>1
      <3>5. \A i \in 0..n : D(g, i) = D(f, i)
        BY <3>4 DEF D
      <3>6. \A i \in 0..n : g[i] = D(g, i)
        BY <3>1, <3>3, <3>5
      <3>7. Walk(g, n)
        BY <3>6 DEF Walk
      <3> QED BY <3>7 DEF T
    <2> QED BY <2>2, <2>3
  <1>2. Walk(Kept, Len(appenders))
    BY <1>0, <1>1
  <1>3. Survivors(c) = Kept[Len(appenders)]
    BY DEF Survivors
  <1>4. \A i \in 0..Len(appenders) : Kept[i] = D(Kept, i)
    BY <1>2
  <1>5. \A i \in 0..Len(appenders) : Kept[i] \in Seq(R)
    <2> HIDE DEF Kept, R, Ok, New, Walk
    <2> DEFINE T == {n \in 0..Len(appenders) : Kept[n] \notin Seq(R)}
    <2> SUFFICES ASSUME T # {} PROVE FALSE
      OBVIOUS
    <2>0. T \subseteq Nat /\ \A n \in T : n \in 0..Len(appenders) /\ Kept[n] \notin Seq(R)
      BY <1>0
    <2>1. PICK n \in T : \A y \in T : n <= y
      <3> HIDE DEF T
      <3> QED BY <2>0, LeastNumber
    <2>2. n # 0
      <3>1. 0 \in 0..Len(appenders) /\ D(Kept, 0) = <<>>
        BY <1>0
      <3>2. Kept[0] = <<>>
        BY <1>4, <3>1
      <3>3. <<>> \in Seq(R)
        OBVIOUS
      <3> HIDE DEF T, D
      <3> QED BY <2>0, <2>1, <3>2, <3>3
    <2>3. n - 1 \in 0..Len(appenders) /\ n \in 1..Len(appenders) /\ n - 1 \notin T
      BY <1>0, <2>1, <2>2
    <2>4. Kept[n - 1] \in Seq(R) /\ New(appenders[n]) \in R
      BY <1>0, <2>3
    <2>5. Kept[n] \in {Append(Kept[n - 1], New(appenders[n])), Kept[n - 1]}
      BY <1>4, <2>2, <2>3
    <2>6. Kept[n] \in Seq(R)
      <3> HIDE DEF D, T
      <3> QED BY <2>4, <2>5, SMTT(30)
    <2> QED BY <2>0, <2>1, <2>6
  <1> QED BY <1>0, <1>3, <1>5

\* The new list of appenders, with a place in out and flushed for each.
LEMMA ResetList ==
  ASSUME AppendersKnown, NEW t \in Threads, reset_appenders(t), cur[t] \in Configs
  PROVE  AppendersKnown'
  <1> DEFINE c == cur[t]
             stay == Survivors(c)
             new == Created(c, stay)
             fresh == {n \in DOMAIN c.apps : /\ n \notin {stay[i].name : i \in 1..Len(stay)}
                                             /\ init_ok(c.apps[n])}
             names == SetToSeq(fresh)
             flush == flush_appenders_cache(flushed, out)
  <1>1. /\ appenders' = stay \o new
        /\ flushed' = flush \o [i \in 1..Len(new) |-> 0]
        /\ out' = out \o [i \in 1..Len(new) |-> <<>>]
    BY DEF reset_appenders
  <1>2. IsFiniteSet(fresh)
    BY InstanceConstants, FS_Subset DEF reset_appenders
  <1>3. Len(names) \in Nat
    BY <1>2, NamesInOrder
  <1>4. new = [i \in 1..Len(names) |-> init_appender(names[i], c.apps[names[i]], Len(out) + i)]
    BY DEF Created
  <1>5. new \in Seq(Range(new)) /\ Len(new) = Len(names)
    <2>1. new = [i \in 1..Len(names) |-> new[i]]
      BY <1>4
    <2> HIDE DEF new
    <2> QED BY <1>3, <2>1, SeqOfFcn
  <1>6. \A i \in 1..Len(new) : DOMAIN new[i] = Fields /\ new[i].id = Len(out) + i
    <2> HIDE DEF names, c
    <2> QED BY <1>4, <1>5, NewAppender
  <1>7. stay \in Seq({set_basic_configs(a, c.apps[a.name]) : a \in Range(appenders)})
    BY SurvivorsKnown
  <1>8. Len(out) \in Nat /\ Len(flush) = Len(out) /\ flush \in Seq(Range(flush))
    BY SeqIsFcn, FlushCache DEF AppendersKnown
  <1>9. Len(stay) \in Nat /\ \A i \in 1..Len(stay) : DOMAIN stay[i] = Fields /\ stay[i].id \in 1..Len(out)
    <2>1. \A a \in Range(appenders) : /\ DOMAIN set_basic_configs(a, c.apps[a.name]) = Fields
                                      /\ set_basic_configs(a, c.apps[a.name]).id \in 1..Len(out)
      BY BasicConfigs DEF AppendersKnown
    <2> HIDE DEF stay, c
    <2> QED BY <1>7, <2>1
  <1> HIDE DEF stay, new, names, c, flush
  <1> DEFINE K == {set_basic_configs(a, c.apps[a.name]) : a \in Range(appenders)}
             none == [i \in 1..Len(new) |-> 0]
             quiet == [i \in 1..Len(new) |-> <<>>]
  <1>14. /\ none \in Seq({0}) /\ Len(none) = Len(new)
         /\ quiet \in Seq({<<>>}) /\ Len(quiet) = Len(new)
    BY <1>3, <1>5, Filled
  <1>15. stay \in Seq(K)
    BY <1>7
  <1>16. appenders' = stay \o new
    BY <1>1
  <1>17. flushed' = flush \o none
    BY <1>1
  <1>18. out' = out \o quiet
    BY <1>1
  <1> HIDE DEF K, none, quiet
  <1>19. new \in Seq(Range(new))
    BY <1>5
  <1>10. /\ appenders' \in Seq(Range(appenders')) /\ Len(appenders') = Len(stay) + Len(new)
         /\ \A i \in 1..Len(stay) + Len(new) :
               appenders'[i] = IF i <= Len(stay) THEN stay[i] ELSE new[i - Len(stay)]
    <2>1. appenders' \in Seq(Range(appenders')) /\ Len(appenders') = Len(stay) + Len(new)
      <3>1. appenders' \in Seq(K \cup Range(new)) /\ Len(appenders') = Len(stay) + Len(new)
        BY <1>15, <1>16, <1>19, JoinedPlaces
      <3>2. appenders' \in Seq(Range(appenders'))
        BY <3>1, OwnRange
      <3> QED BY <3>1, <3>2
    <2>2. \A i \in 1..Len(stay) + Len(new) :
               appenders'[i] = IF i <= Len(stay) THEN stay[i] ELSE new[i - Len(stay)]
      BY <1>15, <1>16, <1>19, JoinedPlaces
    <2> QED BY <2>1, <2>2
  <1>11. out' \in Seq(Range(out')) /\ Len(out') = Len(out) + Len(new)
    <2>1. out \in Seq(Range(out))
      BY DEF AppendersKnown
    <2>2. quiet \in Seq({<<>>})
      BY <1>14
    <2>3. out' \in Seq(Range(out')) /\ Len(out') = Len(out) + Len(quiet)
      <3>1. out' \in Seq(Range(out) \cup {<<>>}) /\ Len(out') = Len(out) + Len(quiet)
        BY <1>18, <2>1, <2>2, JoinedPlaces
      <3>2. out' \in Seq(Range(out'))
        BY <3>1, OwnRange
      <3> QED BY <3>1, <3>2
    <2> QED BY <1>14, <2>3
  <1>12. flushed' \in Seq(Range(flushed')) /\ Len(flushed') = Len(out) + Len(new)
    <2>1. flush \in Seq(Range(flush))
      BY <1>8
    <2>2. none \in Seq({0})
      BY <1>14
    <2>3. flushed' \in Seq(Range(flushed')) /\ Len(flushed') = Len(flush) + Len(none)
      <3>1. flushed' \in Seq(Range(flush) \cup {0}) /\ Len(flushed') = Len(flush) + Len(none)
        BY <1>17, <2>1, <2>2, JoinedPlaces
      <3>2. flushed' \in Seq(Range(flushed'))
        BY <3>1, OwnRange
      <3> QED BY <3>1, <3>2
    <2> QED BY <1>8, <1>14, <2>3
  <1>13. \A x \in Range(appenders') : DOMAIN x = Fields /\ x.id \in 1..Len(out) + Len(new)
    <2>0. \A x \in Range(appenders') : \E i \in 1..Len(stay) + Len(new) : x = appenders'[i]
      BY <1>10, SeqIsFcn, SMTT(30)
    <2> SUFFICES ASSUME NEW i \in 1..Len(stay) + Len(new)
                 PROVE  DOMAIN appenders'[i] = Fields /\ appenders'[i].id \in 1..Len(out) + Len(new)
      BY <2>0
    <2>1. CASE i <= Len(stay)
      BY <1>3, <1>5, <1>8, <1>9, <1>10, <2>1
    <2>2. CASE ~(i <= Len(stay))
      <3>1. i - Len(stay) \in 1..Len(new)
        BY <1>3, <1>5, <1>9, <2>2
      <3> QED BY <1>3, <1>5, <1>6, <1>8, <1>9, <1>10, <2>2, <3>1
    <2> QED BY <2>1, <2>2
  <1> QED BY <1>10, <1>11, <1>12, <1>13 DEF AppendersKnown

LEMMA StepDoLog == ASSUME IInv, NEW t \in Threads, do_log(t) PROVE IInv'
  <1> USE Roles DEF IInv, LocksInv, FlushInv, do_log, Goto, Spend, config_vars, output_vars, recovery_vars, lock_vars, answer_vars
  <1>k. PICK k \in Kinds : cur' = [cur EXCEPT ![t] =
                    [id |-> MaxOld + budget.writes, cat |-> k.cat, lvl |-> k.lvl,
                     size |-> k.size, ts |-> k.ts, old |-> FALSE, valid |-> TRUE,
                     by |-> t]]
    OBVIOUS
  <1>e. /\ cur'[t] = [id |-> MaxOld + budget.writes, cat |-> k.cat, lvl |-> k.lvl,
                      size |-> k.size, ts |-> k.ts, old |-> FALSE, valid |-> TRUE,
                      by |-> t]
        /\ \A v \in Threads \ {t} : cur'[v] = cur[v] /\ pc'[v] = pc[v]
        /\ DOMAIN cur' = Threads
    BY <1>k DEF EntriesKnown, PlacesKnown
  <1>f. cur'[t] \in Entries /\ cur'[t].id = MaxOld + budget.writes
    <2>1. budget.writes \in Nat
      BY DEF NumbersUnique
    <2> HIDE DEF do_log, IInv
    <2>2. k \in [cat : Nat, lvl : Levels, size : Nat, ts : Nat] /\ MaxOld + budget.writes \in Nat
      BY <2>1, InstanceConstants
    <2>3. t \in Users
      BY DEF do_log
    <2> QED BY <1>e, <2>2, <2>3 DEF Entries
  <1>1. PlacesKnown'
    BY DEF PlacesKnown, Labels, Work, Resetting
  <1>2. LocksHeld'
    BY DEF PlacesKnown, LocksHeld, Work, Resetting
  <1>3. Generations'
    BY ZenonT(30) DEF PlacesKnown, LocksHeld, Generations, Resetting
  <1>4. MetNow'
    BY DEF PlacesKnown, MetNow, Work
  <1>5. EntriesKnown'
    BY <1>e, <1>f DEF PlacesKnown, EntriesKnown, Work, Resetting
  <1>6. NumbersUnique'
    <2>1. /\ DOMAIN budget' = BudgetKinds /\ budget'.writes \in Nat /\ Future' \subseteq Future
          /\ budget.writes > 0 /\ budget'.writes = budget.writes - 1
      BY Spending DEF BudgetKinds
    <2>2. cur'[t].id \in Future /\ cur'[t].id \notin Future'
      <3>1. budget.writes \in Nat /\ MaxOld \in Nat
        BY InstanceConstants DEF NumbersUnique
      <3> HIDE DEF do_log, IInv
      <3> QED BY <1>f, <2>1, <3>1 DEF Future
    <2>3. t \in Users /\ UNCHANGED <<queue, want>> /\ pc[t] = "idle" /\ NumbersUnique
      OBVIOUS
    <2>4. pc[Worker] \in Work => pc'[Worker] = pc[Worker] /\ cur'[Worker] = cur[Worker]
      BY <1>e
    <2>5. pc'[Worker] = pc[Worker]
      BY <1>e, <2>3
    <2> HIDE DEF do_log, IInv
    <2> QED BY <1>e, <2>1, <2>2, <2>3, <2>4, <2>5 DEF NumbersUnique
  <1>7. WantKnown'
    BY DEF PlacesKnown, WantKnown, Work
  <1>8. AppendersKnown'
    BY DEF AppendersKnown
  <1>9. Delivered'
    BY DEF PlacesKnown, LocksHeld, WantKnown, Delivered, Work
  <1>10. Answered'
    BY DEF PlacesKnown, Answered
  <1> QED BY <1>1, <1>2, <1>3, <1>4, <1>5, <1>6, <1>7, <1>8, <1>9, <1>10

LEMMA StepCommit == ASSUME IInv, NEW t \in Threads, commit(t) PROVE IInv'
  <1> USE Roles DEF IInv, LocksInv, FlushInv, commit, Goto, config_vars, output_vars, recovery_vars, lock_vars, answer_vars
  <1>1. PlacesKnown'
    BY DEF PlacesKnown, Labels, Work, Resetting
  <1>2. LocksHeld'
    BY DEF PlacesKnown, LocksHeld, Work, Resetting
  <1>3. Generations'
    BY DEF PlacesKnown, LocksHeld, Generations, Resetting
  <1>4. MetNow'
    BY DEF PlacesKnown, MetNow, Work
  <1>5. EntriesKnown'
    BY DEF PlacesKnown, EntriesKnown, Work, Resetting
  <1>6. NumbersUnique'
    BY DEF PlacesKnown, EntriesKnown, NumbersUnique, Future, Work
  <1>7. WantKnown'
    BY DEF PlacesKnown, WantKnown, Work
  <1>8. AppendersKnown'
    BY DEF AppendersKnown
  <1>9. Delivered'
    <2>1. \A i \in 1..Len(queue') : queue'[i] = cur[t] \/ \E j \in 1..Len(queue) : queue'[i] = queue[j]
      BY DEF EntriesKnown, Work, PlacesKnown
    <2>2. t \in Users /\ \A v \in Users : cur[t].id \notin want[v]
      BY DEF NumbersUnique, PlacesKnown, Work
    <2>3. \A v \in Users : pc'[v] = "unlock" => pc[v] = "unlock"
      BY DEF PlacesKnown
    <2> QED BY <2>1, <2>2, <2>3 DEF Delivered
  <1>10. Answered'
    BY DEF PlacesKnown, Answered
  <1> QED BY <1>1, <1>2, <1>3, <1>4, <1>5, <1>6, <1>7, <1>8, <1>9, <1>10

LEMMA StepSyncProcess == ASSUME IInv, NEW t \in Threads, sync_process(t) PROVE IInv'
  <1> USE Roles DEF IInv, LocksInv, FlushInv, sync_process, Goto, config_vars, output_vars, recovery_vars, lock_vars, answer_vars
  <1>1. PlacesKnown'
    BY DEF PlacesKnown, Labels, Work, Resetting
  <1>2. LocksHeld'
    BY DEF PlacesKnown, LocksHeld, Work, Resetting
  <1>3. Generations'
    BY DEF PlacesKnown, LocksHeld, Generations, Resetting
  <1>4. MetNow'
    BY DEF PlacesKnown, MetNow, Work
  <1>5. EntriesKnown'
    BY DEF PlacesKnown, EntriesKnown, Work, Resetting
  <1>6. NumbersUnique'
    BY DEF PlacesKnown, EntriesKnown, NumbersUnique, Future, Work
  <1>7. WantKnown'
    BY DEF PlacesKnown, WantKnown, Work
  <1>8. AppendersKnown'
    BY DEF AppendersKnown
  <1>9. Delivered'
    BY DEF PlacesKnown, LocksHeld, WantKnown, Delivered, Work
  <1>10. Answered'
    BY DEF PlacesKnown, Answered
  <1> QED BY <1>1, <1>2, <1>3, <1>4, <1>5, <1>6, <1>7, <1>8, <1>9, <1>10

LEMMA StepProcessByWorker == ASSUME IInv, process_by_worker PROVE IInv'
  <1> USE Roles DEF IInv, LocksInv, FlushInv, process_by_worker, Goto, config_vars, output_vars, recovery_vars, lock_vars, answer_vars
  <1>1. PlacesKnown'
    BY DEF PlacesKnown, Labels, Work, Resetting
  <1>2. LocksHeld'
    BY DEF PlacesKnown, LocksHeld, Work, Resetting
  <1>3. Generations'
    BY DEF PlacesKnown, LocksHeld, Generations, Resetting
  <1>4. MetNow'
    BY DEF PlacesKnown, MetNow, Work
  <1>5. EntriesKnown'
    BY DEF PlacesKnown, EntriesKnown, Work, Resetting
  <1>6. NumbersUnique'
    BY DEF PlacesKnown, EntriesKnown, NumbersUnique, Future, Work
  <1>7. WantKnown'
    BY DEF PlacesKnown, WantKnown, Work
  <1>8. AppendersKnown'
    BY DEF AppendersKnown
  <1>9. Delivered'
    BY DEF PlacesKnown, LocksHeld, WantKnown, Delivered, Work
  <1>10. Answered'
    BY DEF PlacesKnown, Answered
  <1> QED BY <1>1, <1>2, <1>3, <1>4, <1>5, <1>6, <1>7, <1>8, <1>9, <1>10

LEMMA StepForceFlush == ASSUME IInv, NEW t \in Threads, force_flush(t) PROVE IInv'
  <1> USE Roles DEF IInv, LocksInv, FlushInv, force_flush, Goto, Spend, config_vars, output_vars, recovery_vars, lock_vars, answer_vars
  <1>1. PlacesKnown'
    BY DEF PlacesKnown, Labels, Work, Resetting
  <1>2. LocksHeld'
    BY ZenonT(30) DEF PlacesKnown, LocksHeld, Work, Resetting
  <1>3. Generations'
    BY DEF PlacesKnown, LocksHeld, Generations, Resetting
  <1>4. MetNow'
    BY DEF PlacesKnown, MetNow, Work
  <1>5. EntriesKnown'
    BY DEF PlacesKnown, EntriesKnown, Work, Resetting
  <1>6. NumbersUnique'
    <2>1. /\ DOMAIN budget' = BudgetKinds /\ budget'.writes \in Nat /\ budget'.writes = budget.writes
      BY Spending DEF BudgetKinds
    <2>2. Future' = Future
      BY <2>1 DEF Future
    <2>3. \A x \in want'[t] : \/ \E i \in 1..Len(queue) : x = queue[i].id
                              \/ pc[Worker] \in Work /\ x = cur[Worker].id
      BY DEF WantKnown, EntriesKnown
    <2>4. \A v \in Threads \ {t} : want'[v] = want[v] /\ pc'[v] = pc[v]
      BY DEF WantKnown, PlacesKnown
    <2>a. NumbersUnique /\ pc'[t] = "flush"
      BY DEF PlacesKnown
    <2>5. \A v \in Threads : want'[v] \cap Future' = {}
      <3> HIDE DEF force_flush, IInv
      <3> QED BY <2>a, <2>2, <2>3, <2>4 DEF NumbersUnique
    <2>6. \A u \in Users : pc'[u] = "put" => pc[u] = "put" /\ \A v \in Threads : cur[u].id \notin want'[v]
      <3> HIDE DEF force_flush, IInv
      <3> QED BY <2>a, <2>3, <2>4 DEF NumbersUnique
    <2> QED BY <2>1, <2>2, <2>5, <2>6 DEF PlacesKnown, NumbersUnique, Work
  <1>7. WantKnown'
    BY DEF PlacesKnown, WantKnown, Work
  <1>8. AppendersKnown'
    BY DEF AppendersKnown
  <1>9. Delivered'
    BY DEF PlacesKnown, LocksHeld, WantKnown, Delivered, Work
  <1>10. Answered'
    BY DEF PlacesKnown, Answered
  <1> QED BY <1>1, <1>2, <1>3, <1>4, <1>5, <1>6, <1>7, <1>8, <1>9, <1>10

LEMMA StepFlushLock == ASSUME IInv, NEW t \in Threads, flush_lock(t) PROVE IInv'
  <1> USE Roles DEF IInv, LocksInv, FlushInv, flush_lock, Goto, CanWrite, config_vars, output_vars, recovery_vars, lock_vars, answer_vars
  <1>1. PlacesKnown'
    BY DEF PlacesKnown, Labels, Work, Resetting
  <1>2. LocksHeld'
    BY DEF PlacesKnown, LocksHeld, Work, Resetting
  <1>3. Generations'
    BY DEF PlacesKnown, LocksHeld, Generations, Resetting
  <1>4. MetNow'
    BY DEF PlacesKnown, MetNow, Work
  <1>5. EntriesKnown'
    BY DEF PlacesKnown, EntriesKnown, Work, Resetting
  <1>6. NumbersUnique'
    BY DEF PlacesKnown, EntriesKnown, NumbersUnique, Future, Work
  <1>7. WantKnown'
    BY DEF PlacesKnown, WantKnown, Work
  <1>8. AppendersKnown'
    BY DEF AppendersKnown
  <1>9. Delivered'
    BY DEF PlacesKnown, LocksHeld, WantKnown, Delivered, Work
  <1>10. Answered'
    BY DEF PlacesKnown, Answered
  <1> QED BY <1>1, <1>2, <1>3, <1>4, <1>5, <1>6, <1>7, <1>8, <1>9, <1>10

\* What read_chunk takes out of the buffer, and what it leaves.
LEMMA Taking ==
  ASSUME queue \in Seq(Entries), NEW t \in Threads, read_chunk(t), DOMAIN cur = Threads
  PROVE  \E i \in 1..Len(queue) :
           /\ Foremost(i) /\ cur'[t] = queue[i]
           /\ queue' \in Seq(Entries) /\ Len(queue) \in Nat /\ Len(queue') = Len(queue) - 1
           /\ \A k \in 1..Len(queue') : /\ queue'[k] = queue[IF k < i THEN k ELSE k + 1]
                                       /\ (IF k < i THEN k ELSE k + 1) \in 1..Len(queue)
  <1>1. PICK i \in 1..Len(queue) : /\ Foremost(i) /\ queue' = RemoveAt(queue, i)
                                   /\ cur' = [cur EXCEPT ![t] = queue[i]]
    BY DEF read_chunk
  <1>2. cur'[t] = queue[i]
    BY <1>1
  <1>3. Len(queue) \in Nat /\ i \in Nat /\ 1 <= i /\ i <= Len(queue)
    OBVIOUS
  <1> DEFINE before == SubSeq(queue, 1, i - 1)
             after == SubSeq(queue, i + 1, Len(queue))
  <1>4. queue' = before \o after
    BY <1>1 DEF RemoveAt
  <1>5. /\ before \in Seq(Entries) /\ Len(before) = i - 1
        /\ \A k \in 1..i - 1 : before[k] = queue[k]
    BY <1>3
  <1>6. /\ after \in Seq(Entries) /\ Len(after) = Len(queue) - i
        /\ \A k \in 1..Len(queue) - i : after[k] = queue[k + i]
    BY <1>3
  <1> HIDE DEF before, after
  <1>7. queue' \in Seq(Entries) /\ Len(queue') = Len(queue) - 1
    BY <1>3, <1>4, <1>5, <1>6
  <1>8. ASSUME NEW k \in 1..Len(queue')
        PROVE  /\ queue'[k] = queue[IF k < i THEN k ELSE k + 1]
               /\ (IF k < i THEN k ELSE k + 1) \in 1..Len(queue)
    <2>1. CASE k < i
      BY <1>3, <1>4, <1>5, <1>6, <1>7, <2>1
    <2>2. CASE ~(k < i)
      <3>1. k - (i - 1) \in 1..Len(queue) - i /\ k - (i - 1) + i = k + 1
        BY <1>3, <1>7, <2>2
      <3>2. queue'[k] = after[k - (i - 1)]
        BY <1>3, <1>4, <1>5, <1>6, <1>7, <2>2
      <3> QED BY <1>3, <1>6, <1>7, <2>2, <3>1, <3>2
    <2> QED BY <2>1, <2>2
  <1> QED BY <1>1, <1>2, <1>3, <1>7, <1>8

LEMMA StepReadChunk == ASSUME IInv, NEW t \in Threads, read_chunk(t) PROVE IInv'
  <1> USE Roles DEF IInv, LocksInv, FlushInv, Goto, config_vars, output_vars, recovery_vars, lock_vars, answer_vars
  <1>a. PICK i \in 1..Len(queue) :
           /\ cur'[t] = queue[i] /\ queue' \in Seq(Entries)
           /\ \A k \in 1..Len(queue') : \E j \in 1..Len(queue) : queue'[k] = queue[j]
    BY Taking DEF EntriesKnown
  <1>b. /\ pc[t] = "read" /\ pc' = [pc EXCEPT ![t] = "chunk"] /\ cur' = [cur EXCEPT ![t] = cur'[t]]
        /\ UNCHANGED <<mode, recovery, answer_vars, config_vars, output_vars,
                       recovery_vars, clock, snap, lock_vars, at, budget, used, kept, want>>
    BY DEF read_chunk, EntriesKnown
  <1>c. queue \in Seq(Entries) /\ queue[i] \in Entries
    BY <1>a DEF EntriesKnown
  <1>1. PlacesKnown'
    BY <1>a, <1>b, <1>c DEF PlacesKnown, Labels, Work, Resetting
  <1>2. LocksHeld'
    BY <1>a, <1>b, <1>c DEF PlacesKnown, LocksHeld, Work, Resetting
  <1>3. Generations'
    BY <1>a, <1>b, <1>c DEF PlacesKnown, LocksHeld, Generations, Resetting
  <1>4. MetNow'
    BY <1>a, <1>b, <1>c DEF PlacesKnown, MetNow, Work
  <1>5. EntriesKnown'
    BY <1>a, <1>b, <1>c DEF PlacesKnown, EntriesKnown, Work, Resetting
  <1>6. NumbersUnique'
    <2>1. /\ DOMAIN cur = Threads /\ pc \in [Threads -> Labels] /\ NumbersUnique
          /\ Future' = Future /\ queue[i].id \notin Future
      BY <1>a, <1>b DEF PlacesKnown, EntriesKnown, NumbersUnique, Future
    <2>2. \A u \in Threads \ {t} : pc'[u] = pc[u] /\ cur'[u] = cur[u]
      BY <1>b, <2>1
    <2>3. pc'[t] = "chunk" /\ cur'[t] = queue[i] /\ UNCHANGED <<budget, want>>
      BY <1>a, <1>b, <2>1
    <2>4. \A k \in 1..Len(queue') : queue'[k].id \notin Future'
      BY <1>a, <2>1 DEF NumbersUnique
    <2>5. pc'[Worker] \in Work => cur'[Worker].id \notin Future'
      BY <2>1, <2>2, <2>3 DEF NumbersUnique
    <2>6. ASSUME NEW u \in Users, pc'[u] = "put"
          PROVE  /\ cur'[u].id \notin Future'
                 /\ \A k \in 1..Len(queue') : queue'[k].id # cur'[u].id
                 /\ \A v \in Threads : cur'[u].id \notin want'[v]
                 /\ \A v \in Users : pc'[v] = "put" /\ v # u => cur'[v].id # cur'[u].id
                 /\ pc'[Worker] \in Work => cur'[Worker].id # cur'[u].id
      <3>1. u # t /\ pc[u] = "put" /\ cur'[u] = cur[u]
        BY <2>2, <2>3, <2>6
      <3>2. \A v \in Users : pc'[v] = "put" => v # t /\ pc[v] = "put" /\ cur'[v] = cur[v]
        BY <2>2, <2>3
      <3>3. pc'[Worker] \in Work => (cur'[Worker] = queue[i]
                                     \/ (pc[Worker] \in Work /\ cur'[Worker] = cur[Worker]))
        <4>1. CASE t = Worker
          BY <2>3, <4>1
        <4>2. CASE t # Worker
          <5>1. pc'[Worker] = pc[Worker] /\ cur'[Worker] = cur[Worker]
            BY <2>2, <4>2, Roles
          <5> QED BY <5>1
        <4> QED BY <4>1, <4>2
      <3> HIDE DEF IInv
      <3> QED BY <1>a, <2>1, <2>3, <3>1, <3>2, <3>3 DEF NumbersUnique
    <2> HIDE DEF IInv
    <2> QED BY <1>b, <2>1, <2>3, <2>4, <2>5, <2>6 DEF NumbersUnique
  <1>7. WantKnown'
    BY <1>a, <1>b, <1>c DEF PlacesKnown, WantKnown, Work
  <1>8. AppendersKnown'
    BY <1>a, <1>b, <1>c DEF AppendersKnown
  <1>9. Delivered'
    BY <1>a, <1>b, <1>c DEF PlacesKnown, LocksHeld, WantKnown, Delivered, Work
  <1>10. Answered'
    BY <1>a, <1>b, <1>c DEF PlacesKnown, Answered
  <1> QED BY <1>1, <1>2, <1>3, <1>4, <1>5, <1>6, <1>7, <1>8, <1>9, <1>10

LEMMA StepProcessEnd == ASSUME IInv, NEW t \in Threads, process_end(t) PROVE IInv'
  <1> USE Roles DEF IInv, LocksInv, FlushInv, process_end, SaysEmpty, Goto, config_vars, output_vars, recovery_vars, lock_vars, answer_vars
  <1>1. PlacesKnown'
    BY DEF PlacesKnown, Labels, Work, Resetting
  <1>2. LocksHeld'
    BY DEF PlacesKnown, LocksHeld, Work, Resetting
  <1>3. Generations'
    BY DEF PlacesKnown, LocksHeld, Generations, Resetting
  <1>4. MetNow'
    BY DEF PlacesKnown, MetNow, Work
  <1>5. EntriesKnown'
    BY DEF PlacesKnown, EntriesKnown, Work, Resetting
  <1>6. NumbersUnique'
    BY DEF PlacesKnown, EntriesKnown, NumbersUnique, Future, Work
  <1>7. WantKnown'
    BY DEF PlacesKnown, WantKnown, Work
  <1>8. AppendersKnown'
    BY FlushCache DEF AppendersKnown
  <1>9. Delivered'
    <2>1. \A v \in Users : pc'[v] = "unlock" /\ want[v] # {} => v = t
      BY DEF PlacesKnown, LocksHeld
    <2>2. t \in Users => \A a \in Range(appenders) : IsFile(a) => flushed'[a.id] = Len(out'[a.id])
      BY FlushCache
    <2>3. sure # {} => queue' = <<>>
      BY DEF Answered
    <2> QED BY <2>1, <2>2, <2>3 DEF Delivered
  <1>10. Answered'
    <2>1. PICK counts \in BOOLEAN :
             said_empty' = (said_empty \/ (counts /\ \A u \in Users : pc[u] # "put"))
      OBVIOUS
    <2> QED BY <2>1 DEF PlacesKnown, Answered
  <1> QED BY <1>1, <1>2, <1>3, <1>4, <1>5, <1>6, <1>7, <1>8, <1>9, <1>10

LEMMA StepProcessUnlock == ASSUME IInv, NEW t \in Threads, process_unlock(t) PROVE IInv'
  <1> USE Roles DEF IInv, LocksInv, FlushInv, process_unlock, Goto, config_vars, output_vars, recovery_vars, lock_vars, answer_vars
  <1>1. PlacesKnown'
    BY DEF PlacesKnown, Labels, Work, Resetting
  <1>2. LocksHeld'
    BY DEF PlacesKnown, LocksHeld, Work, Resetting
  <1>3. Generations'
    BY DEF PlacesKnown, LocksHeld, Generations, Resetting
  <1>4. MetNow'
    BY DEF PlacesKnown, MetNow, Work
  <1>5. EntriesKnown'
    BY DEF PlacesKnown, EntriesKnown, Work, Resetting
  <1>6. NumbersUnique'
    BY DEF PlacesKnown, EntriesKnown, NumbersUnique, Future, Work
  <1>7. WantKnown'
    BY DEF PlacesKnown, WantKnown, Work
  <1>8. AppendersKnown'
    BY DEF AppendersKnown
  <1>9. Delivered'
    BY DEF PlacesKnown, LocksHeld, WantKnown, Delivered, Work
  <1>10. Answered'
    BY DEF PlacesKnown, Answered
  <1> QED BY <1>1, <1>2, <1>3, <1>4, <1>5, <1>6, <1>7, <1>8, <1>9, <1>10

LEMMA StepDone == ASSUME IInv, NEW t \in Threads, done(t) PROVE IInv'
  <1> USE Roles DEF IInv, LocksInv, FlushInv, done, Goto, config_vars, output_vars, recovery_vars, lock_vars, answer_vars
  <1>1. PlacesKnown'
    BY DEF PlacesKnown, Labels, Work, Resetting
  <1>2. LocksHeld'
    BY DEF PlacesKnown, LocksHeld, Work, Resetting
  <1>3. Generations'
    BY DEF PlacesKnown, LocksHeld, Generations, Resetting
  <1>4. MetNow'
    BY DEF PlacesKnown, MetNow, Work
  <1>5. EntriesKnown'
    BY DEF PlacesKnown, EntriesKnown, Work, Resetting
  <1>6. NumbersUnique'
    BY DEF PlacesKnown, EntriesKnown, NumbersUnique, Future, Work
  <1>7. WantKnown'
    BY DEF PlacesKnown, WantKnown, Work
  <1>8. AppendersKnown'
    BY FlushCache DEF AppendersKnown
  <1>9. Delivered'
    BY DEF PlacesKnown, LocksHeld, WantKnown, Delivered, Work
  <1>10. Answered'
    BY DEF PlacesKnown, Answered
  <1> QED BY <1>1, <1>2, <1>3, <1>4, <1>5, <1>6, <1>7, <1>8, <1>9, <1>10

LEMMA StepDropCorrupted == ASSUME IInv, NEW t \in Threads, drop_corrupted(t) PROVE IInv'
  <1> USE Roles DEF IInv, LocksInv, FlushInv, drop_corrupted, Goto, config_vars, output_vars, recovery_vars, lock_vars, answer_vars
  <1>1. PlacesKnown'
    BY DEF PlacesKnown, Labels, Work, Resetting
  <1>2. LocksHeld'
    BY DEF PlacesKnown, LocksHeld, Work, Resetting
  <1>3. Generations'
    BY DEF PlacesKnown, LocksHeld, Generations, Resetting
  <1>4. MetNow'
    BY DEF PlacesKnown, MetNow, Work
  <1>5. EntriesKnown'
    BY DEF PlacesKnown, EntriesKnown, Work, Resetting
  <1>6. NumbersUnique'
    BY DEF PlacesKnown, EntriesKnown, NumbersUnique, Future, Work
  <1>7. WantKnown'
    BY DEF PlacesKnown, WantKnown, Work
  <1>8. AppendersKnown'
    BY DEF AppendersKnown
  <1>9. Delivered'
    BY DEF PlacesKnown, LocksHeld, WantKnown, Delivered, Work
  <1>10. Answered'
    BY DEF PlacesKnown, Answered
  <1> QED BY <1>1, <1>2, <1>3, <1>4, <1>5, <1>6, <1>7, <1>8, <1>9, <1>10

LEMMA StepNewBegin == ASSUME IInv, NEW t \in Threads, new_begin(t) PROVE IInv'
  <1> USE Roles DEF IInv, LocksInv, FlushInv, new_begin, Goto, Tick, config_vars, output_vars, recovery_vars, lock_vars, answer_vars
  <1>1. PlacesKnown'
    BY DEF PlacesKnown, Labels, Work, Resetting
  <1>2. LocksHeld'
    BY DEF PlacesKnown, LocksHeld, Work, Resetting
  <1>3. Generations'
    BY DEF PlacesKnown, LocksHeld, Generations, Resetting
  <1>4. MetNow'
    BY DEF PlacesKnown, MetNow, Work, Generations
  <1>5. EntriesKnown'
    <2>1. clock' \in Nat /\ DOMAIN cur' = Threads /\ cur'[t] \in Entries /\ \A v \in Threads \ {t} : cur'[v] = cur[v]
      BY Ticking
    <2> QED BY <2>1 DEF PlacesKnown, EntriesKnown, Work, Resetting
  <1>6. NumbersUnique'
    BY DEF PlacesKnown, EntriesKnown, NumbersUnique, Future, Work
  <1>7. WantKnown'
    BY DEF PlacesKnown, WantKnown, Work
  <1>8. AppendersKnown'
    <2>1. out' \in Seq(Range(out')) /\ Len(out') = Len(out)
      BY Telling DEF AppendersKnown
    <2> QED BY <2>1 DEF AppendersKnown
  <1>9. Delivered'
    BY DEF PlacesKnown, LocksHeld, WantKnown, Delivered, Work
  <1>10. Answered'
    BY DEF PlacesKnown, Answered
  <1> QED BY <1>1, <1>2, <1>3, <1>4, <1>5, <1>6, <1>7, <1>8, <1>9, <1>10

LEMMA StepRecoveryBegin == ASSUME IInv, NEW t \in Threads, recovery_begin(t) PROVE IInv'
  <1> USE Roles DEF IInv, LocksInv, FlushInv, recovery_begin, Goto, Tick, config_vars, output_vars, recovery_vars, lock_vars, answer_vars
  <1>1. PlacesKnown'
    BY DEF PlacesKnown, Labels, Work, Resetting
  <1>2. LocksHeld'
    BY DEF PlacesKnown, LocksHeld, Work, Resetting
  <1>3. Generations'
    BY DEF PlacesKnown, LocksHeld, Generations, Resetting
  <1>4. MetNow'
    BY DEF PlacesKnown, MetNow, Work, Generations
  <1>5. EntriesKnown'
    <2>1. clock' \in Nat /\ DOMAIN cur' = Threads /\ cur'[t] \in Entries /\ \A v \in Threads \ {t} : cur'[v] = cur[v]
      BY Ticking
    <2> QED BY <2>1 DEF PlacesKnown, EntriesKnown, Work, Resetting
  <1>6. NumbersUnique'
    BY DEF PlacesKnown, EntriesKnown, NumbersUnique, Future, Work
  <1>7. WantKnown'
    BY DEF PlacesKnown, WantKnown, Work
  <1>8. AppendersKnown'
    <2>1. out' \in Seq(Range(out')) /\ Len(out') = Len(out)
      BY Telling DEF AppendersKnown
    <2> QED BY <2>1 DEF AppendersKnown
  <1>9. Delivered'
    BY DEF PlacesKnown, LocksHeld, WantKnown, Delivered, Work
  <1>10. Answered'
    BY DEF PlacesKnown, Answered
  <1> QED BY <1>1, <1>2, <1>3, <1>4, <1>5, <1>6, <1>7, <1>8, <1>9, <1>10

LEMMA StepSamePhase == ASSUME IInv, NEW t \in Threads, same_phase(t) PROVE IInv'
  <1> USE Roles DEF IInv, LocksInv, FlushInv, same_phase, Goto, Tick, config_vars, output_vars, recovery_vars, lock_vars, answer_vars
  <1>1. PlacesKnown'
    BY DEF PlacesKnown, Labels, Work, Resetting
  <1>2. LocksHeld'
    BY DEF PlacesKnown, LocksHeld, Work, Resetting
  <1>3. Generations'
    BY DEF PlacesKnown, LocksHeld, Generations, Resetting
  <1>4. MetNow'
    BY DEF PlacesKnown, MetNow, Work, Generations
  <1>5. EntriesKnown'
    <2>1. clock' \in Nat /\ DOMAIN cur' = Threads /\ cur'[t] \in Entries /\ \A v \in Threads \ {t} : cur'[v] = cur[v]
      BY Ticking
    <2> QED BY <2>1 DEF PlacesKnown, EntriesKnown, Work, Resetting
  <1>6. NumbersUnique'
    BY DEF PlacesKnown, EntriesKnown, NumbersUnique, Future, Work
  <1>7. WantKnown'
    BY DEF PlacesKnown, WantKnown, Work
  <1>8. AppendersKnown'
    BY DEF AppendersKnown
  <1>9. Delivered'
    BY DEF PlacesKnown, LocksHeld, WantKnown, Delivered, Work
  <1>10. Answered'
    BY DEF PlacesKnown, Answered
  <1> QED BY <1>1, <1>2, <1>3, <1>4, <1>5, <1>6, <1>7, <1>8, <1>9, <1>10

LEMMA StepFilter == ASSUME IInv, NEW t \in Threads, filter(t) PROVE IInv'
  <1> USE Roles DEF IInv, LocksInv, FlushInv, filter, Goto, config_vars, output_vars, recovery_vars, lock_vars, answer_vars
  <1>1. PlacesKnown'
    BY DEF PlacesKnown, Labels, Work, Resetting
  <1>2. LocksHeld'
    BY DEF PlacesKnown, LocksHeld, Work, Resetting
  <1>3. Generations'
    BY DEF PlacesKnown, LocksHeld, Generations, Resetting
  <1>4. MetNow'
    BY NoReset DEF PlacesKnown, MetNow, Work, Generations
  <1>5. EntriesKnown'
    BY DEF PlacesKnown, EntriesKnown, Work, Resetting
  <1>6. NumbersUnique'
    BY DEF PlacesKnown, EntriesKnown, NumbersUnique, Future, Work
  <1>7. WantKnown'
    BY DEF PlacesKnown, WantKnown, Work
  <1>8. AppendersKnown'
    BY DEF AppendersKnown
  <1>9. Delivered'
    BY DEF PlacesKnown, LocksHeld, WantKnown, Delivered, Work
  <1>10. Answered'
    BY DEF PlacesKnown, Answered
  <1> QED BY <1>1, <1>2, <1>3, <1>4, <1>5, <1>6, <1>7, <1>8, <1>9, <1>10

LEMMA StepDeliver == ASSUME IInv, NEW t \in Threads, deliver(t) PROVE IInv'
  <1> USE Roles DEF IInv, LocksInv, FlushInv, deliver, Goto, config_vars, output_vars, recovery_vars, lock_vars, answer_vars
  <1>1. PlacesKnown'
    BY DEF PlacesKnown, Labels, Work, Resetting
  <1>2. LocksHeld'
    BY DEF PlacesKnown, LocksHeld, Work, Resetting
  <1>3. Generations'
    BY DEF PlacesKnown, LocksHeld, Generations, Resetting
  <1>4. MetNow'
    BY DEF PlacesKnown, MetNow, Work, Generations
  <1>5. EntriesKnown'
    BY DEF PlacesKnown, EntriesKnown, Work, Resetting
  <1>6. NumbersUnique'
    BY DEF PlacesKnown, EntriesKnown, NumbersUnique, Future, Work
  <1>7. WantKnown'
    BY DEF PlacesKnown, WantKnown, Work
  <1>8. AppendersKnown'
    <2>1. out' \in Seq(Range(out')) /\ Len(out') = Len(out)
      BY Telling DEF AppendersKnown
    <2> QED BY <2>1 DEF AppendersKnown
  <1>9. Delivered'
    BY DEF PlacesKnown, LocksHeld, WantKnown, Delivered, Work
  <1>10. Answered'
    BY DEF PlacesKnown, Answered
  <1> QED BY <1>1, <1>2, <1>3, <1>4, <1>5, <1>6, <1>7, <1>8, <1>9, <1>10

LEMMA StepSnapshotEnabled == ASSUME IInv, NEW t \in Threads, snapshot_enabled(t) PROVE IInv'
  <1> USE Roles DEF IInv, LocksInv, FlushInv, snapshot_enabled, Goto, config_vars, output_vars, recovery_vars, lock_vars, answer_vars
  <1>1. PlacesKnown'
    BY DEF PlacesKnown, Labels, Work, Resetting
  <1>2. LocksHeld'
    BY DEF PlacesKnown, LocksHeld, Work, Resetting
  <1>3. Generations'
    BY DEF PlacesKnown, LocksHeld, Generations, Resetting
  <1>4. MetNow'
    BY DEF PlacesKnown, MetNow, Work
  <1>5. EntriesKnown'
    BY DEF PlacesKnown, EntriesKnown, Work, Resetting
  <1>6. NumbersUnique'
    BY DEF PlacesKnown, EntriesKnown, NumbersUnique, Future, Work
  <1>7. WantKnown'
    BY DEF PlacesKnown, WantKnown, Work
  <1>8. AppendersKnown'
    BY DEF AppendersKnown
  <1>9. Delivered'
    BY DEF PlacesKnown, LocksHeld, WantKnown, Delivered, Work
  <1>10. Answered'
    BY DEF PlacesKnown, Answered
  <1> QED BY <1>1, <1>2, <1>3, <1>4, <1>5, <1>6, <1>7, <1>8, <1>9, <1>10

LEMMA StepWriteData == ASSUME IInv, NEW t \in Threads, write_data(t) PROVE IInv'
  <1> USE Roles DEF IInv, LocksInv, FlushInv, write_data, Goto, config_vars, output_vars, recovery_vars, lock_vars, answer_vars
  <1>1. PlacesKnown'
    BY DEF PlacesKnown, Labels, Work, Resetting
  <1>2. LocksHeld'
    BY DEF PlacesKnown, LocksHeld, Work, Resetting
  <1>3. Generations'
    BY DEF PlacesKnown, LocksHeld, Generations, Resetting
  <1>4. MetNow'
    BY NoReset DEF PlacesKnown, MetNow, Work, Generations
  <1>5. EntriesKnown'
    BY DEF PlacesKnown, EntriesKnown, Work, Resetting
  <1>6. NumbersUnique'
    BY DEF PlacesKnown, EntriesKnown, NumbersUnique, Future, Work
  <1>7. WantKnown'
    BY DEF PlacesKnown, WantKnown, Work
  <1>8. AppendersKnown'
    BY DEF AppendersKnown
  <1>9. Delivered'
    BY DEF PlacesKnown, LocksHeld, WantKnown, Delivered, Work
  <1>10. Answered'
    BY DEF PlacesKnown, Answered
  <1> QED BY <1>1, <1>2, <1>3, <1>4, <1>5, <1>6, <1>7, <1>8, <1>9, <1>10

LEMMA StepResetConfig == ASSUME IInv, NEW t \in Threads, reset_config(t) PROVE IInv'
  <1> USE Roles DEF IInv, LocksInv, FlushInv, reset_config, Goto, CanWrite, Spend, config_vars, output_vars, recovery_vars, lock_vars, answer_vars
  <1>1. PlacesKnown'
    BY DEF PlacesKnown, Labels, Work, Resetting
  <1>2. LocksHeld'
    BY ZenonT(30) DEF PlacesKnown, LocksHeld, Work, Resetting
  <1>3. Generations'
    BY DEF PlacesKnown, LocksHeld, Generations, Resetting
  <1>4. MetNow'
    BY DEF PlacesKnown, MetNow, Work
  <1>5. EntriesKnown'
    BY DEF PlacesKnown, EntriesKnown, Work, Resetting
  <1>6. NumbersUnique'
    <2>1. /\ DOMAIN budget' = BudgetKinds /\ budget'.writes \in Nat /\ Future' \subseteq Future
      BY Spending DEF BudgetKinds
    <2>2. /\ \A v \in Threads \ {t} : cur'[v] = cur[v] /\ pc'[v] = pc[v]
          /\ pc'[t] = "reset" /\ t # Worker /\ UNCHANGED <<queue, want>> /\ NumbersUnique
      BY DEF EntriesKnown, PlacesKnown
    <2> HIDE DEF reset_config, IInv
    <2> QED BY <2>1, <2>2 DEF NumbersUnique
  <1>7. WantKnown'
    BY DEF PlacesKnown, WantKnown, Work
  <1>8. AppendersKnown'
    BY DEF AppendersKnown
  <1>9. Delivered'
    BY DEF PlacesKnown, LocksHeld, WantKnown, Delivered, Work
  <1>10. Answered'
    BY DEF PlacesKnown, Answered
  <1> QED BY <1>1, <1>2, <1>3, <1>4, <1>5, <1>6, <1>7, <1>8, <1>9, <1>10

LEMMA StepResetInvalid == ASSUME IInv, NEW t \in Threads, reset_invalid(t) PROVE IInv'
  <1> USE Roles DEF IInv, LocksInv, FlushInv, reset_invalid, Goto, config_vars, output_vars, recovery_vars, lock_vars, answer_vars
  <1>1. PlacesKnown'
    BY DEF PlacesKnown, Labels, Work, Resetting
  <1>2. LocksHeld'
    BY DEF PlacesKnown, LocksHeld, Work, Resetting
  <1>3. Generations'
    BY DEF PlacesKnown, LocksHeld, Generations, Resetting
  <1>4. MetNow'
    BY DEF PlacesKnown, MetNow, Work
  <1>5. EntriesKnown'
    BY DEF PlacesKnown, EntriesKnown, Work, Resetting
  <1>6. NumbersUnique'
    BY DEF PlacesKnown, EntriesKnown, NumbersUnique, Future, Work
  <1>7. WantKnown'
    BY DEF PlacesKnown, WantKnown, Work
  <1>8. AppendersKnown'
    BY DEF AppendersKnown
  <1>9. Delivered'
    BY DEF PlacesKnown, LocksHeld, WantKnown, Delivered, Work
  <1>10. Answered'
    BY DEF PlacesKnown, Answered
  <1> QED BY <1>1, <1>2, <1>3, <1>4, <1>5, <1>6, <1>7, <1>8, <1>9, <1>10

LEMMA StepResetAppenders == ASSUME IInv, NEW t \in Threads, reset_appenders(t) PROVE IInv'
  <1> USE Roles DEF IInv, LocksInv, FlushInv, reset_appenders, Goto, config_vars, output_vars, recovery_vars, lock_vars, answer_vars
  <1>a. /\ pc[t] = "reset" /\ spin_lock = None /\ pc' = [pc EXCEPT ![t] = "reset_mask"]
        /\ gen' = [gen EXCEPT !.apps = @ + 1]
        /\ UNCHANGED <<mode, queue, logs_lock, spin_lock, want, used, cur>>
    OBVIOUS
  <1>b. t \in Users /\ \A v \in Users \ {t} : pc[v] \notin Resetting \cup {"unlock"}
    BY <1>a DEF PlacesKnown, LocksHeld, Resetting, Work
  <1>c. \A v \in Threads : pc[v] \notin Work
    <2>1. /\ logs_lock.writer = t /\ logs_lock.readers = {} /\ pc[Worker] = "idle"
      BY <1>a, <1>b DEF LocksHeld, Resetting
    <2>2. \A v \in Users : pc[v] \notin Work
      BY <1>a, <1>b, <2>1 DEF PlacesKnown, LocksHeld, Resetting, Work
    <2> QED BY <2>1, <2>2 DEF Work
  <1>1. PlacesKnown'
    BY DEF PlacesKnown, Labels, Work, Resetting
  <1>2. LocksHeld'
    BY DEF PlacesKnown, LocksHeld, Work, Resetting
  <1>3. Generations'
    <2>1. gen \in [apps : Nat, mask : Nat, snap : Nat] /\ pc \in [Threads -> Labels]
      BY DEF Generations, PlacesKnown
    <2> HIDE DEF reset_appenders, IInv
    <2> QED BY <1>a, <1>b, <2>1 DEF Generations, Resetting
  <1>4. MetNow'
    <2>1. \A v \in Threads : used[v] = {}
      BY <1>c DEF MetNow
    <2>2. used \in [Threads -> SUBSET Nat]
      BY DEF MetNow
    <2> HIDE DEF reset_appenders, IInv
    <2> QED BY <1>a, <2>1, <2>2 DEF MetNow
  <1>5. EntriesKnown'
    BY DEF PlacesKnown, EntriesKnown, Work, Resetting
  <1>6. NumbersUnique'
    BY DEF PlacesKnown, EntriesKnown, NumbersUnique, Future, Work
  <1>7. WantKnown'
    BY DEF PlacesKnown, WantKnown, Work
  <1>8. AppendersKnown'
    BY <1>a, ResetList DEF AppendersKnown, EntriesKnown, Resetting
  <1>9. Delivered'
    <2>1. \A v \in Users : pc'[v] # "unlock"
      BY <1>a, <1>b DEF PlacesKnown
    <2> QED BY <2>1 DEF Delivered
  <1>10. Answered'
    BY DEF PlacesKnown, Answered
  <1> QED BY <1>1, <1>2, <1>3, <1>4, <1>5, <1>6, <1>7, <1>8, <1>9, <1>10

LEMMA StepResetMask == ASSUME IInv, NEW t \in Threads, reset_mask(t) PROVE IInv'
  <1> USE Roles DEF IInv, LocksInv, FlushInv, reset_mask, Goto, config_vars, output_vars, recovery_vars, lock_vars, answer_vars
  <1>1. PlacesKnown'
    BY DEF PlacesKnown, Labels, Work, Resetting
  <1>2. LocksHeld'
    BY DEF PlacesKnown, LocksHeld, Work, Resetting
  <1>3. Generations'
    BY DEF PlacesKnown, LocksHeld, Generations, Resetting
  <1>4. MetNow'
    BY DEF PlacesKnown, MetNow, Work
  <1>5. EntriesKnown'
    BY DEF PlacesKnown, EntriesKnown, Work, Resetting
  <1>6. NumbersUnique'
    BY DEF PlacesKnown, EntriesKnown, NumbersUnique, Future, Work
  <1>7. WantKnown'
    BY DEF PlacesKnown, WantKnown, Work
  <1>8. AppendersKnown'
    BY DEF AppendersKnown
  <1>9. Delivered'
    BY DEF PlacesKnown, LocksHeld, WantKnown, Delivered, Work
  <1>10. Answered'
    BY DEF PlacesKnown, Answered
  <1> QED BY <1>1, <1>2, <1>3, <1>4, <1>5, <1>6, <1>7, <1>8, <1>9, <1>10

LEMMA StepResetSnapshot == ASSUME IInv, NEW t \in Threads, reset_snapshot(t) PROVE IInv'
  <1> USE Roles DEF IInv, LocksInv, FlushInv, reset_snapshot, Goto, config_vars, output_vars, recovery_vars, lock_vars, answer_vars
  <1>1. PlacesKnown'
    BY DEF PlacesKnown, Labels, Work, Resetting
  <1>2. LocksHeld'
    BY DEF PlacesKnown, LocksHeld, Work, Resetting
  <1>3. Generations'
    BY DEF PlacesKnown, LocksHeld, Generations, Resetting
  <1>4. MetNow'
    BY DEF PlacesKnown, MetNow, Work
  <1>5. EntriesKnown'
    BY DEF PlacesKnown, EntriesKnown, Work, Resetting
  <1>6. NumbersUnique'
    BY DEF PlacesKnown, EntriesKnown, NumbersUnique, Future, Work
  <1>7. WantKnown'
    BY DEF PlacesKnown, WantKnown, Work
  <1>8. AppendersKnown'
    BY DEF AppendersKnown
  <1>9. Delivered'
    BY DEF PlacesKnown, LocksHeld, WantKnown, Delivered, Work
  <1>10. Answered'
    BY DEF PlacesKnown, Answered
  <1> QED BY <1>1, <1>2, <1>3, <1>4, <1>5, <1>6, <1>7, <1>8, <1>9, <1>10

LEMMA StepSetAppenderEnable == ASSUME IInv, NEW t \in Threads, set_appender_enable(t) PROVE IInv'
  <1> USE Roles DEF IInv, LocksInv, FlushInv, set_appender_enable, Spend, config_vars, output_vars, recovery_vars, lock_vars, answer_vars
  <1>s. PICK names \in SUBSET {a.name : a \in Range(appenders)}, b \in BOOLEAN :
          appenders' = [i \in 1..Len(appenders) |->
                          IF appenders[i].name \in names
                          THEN [appenders[i] EXCEPT !.enable = b] ELSE appenders[i]]
    OBVIOUS
  <1>a. Len(appenders) \in Nat /\ \A i \in 1..Len(appenders) : appenders[i] \in Range(appenders)
    BY SeqIsFcn DEF AppendersKnown
  <1>b. \A i \in 1..Len(appenders) :
          /\ DOMAIN appenders'[i] = Fields /\ appenders'[i].id = appenders[i].id
          /\ appenders'[i].type = appenders[i].type
    BY <1>s, <1>a, ZenonT(90) DEF AppendersKnown, Fields
  <1>c. appenders' \in Seq(Range(appenders')) /\ Len(appenders') = Len(appenders)
    <2>1. appenders' = [i \in 1..Len(appenders) |-> appenders'[i]]
      BY <1>s
    <2> QED BY <1>a, <2>1, SeqOfFcn
  <1>d. \A x \in Range(appenders') : \E a \in Range(appenders) :
          DOMAIN x = Fields /\ x.id = a.id /\ x.type = a.type
    <2> HIDE Roles DEF set_appender_enable, IInv
    <2>1. \A x \in Range(appenders') : \E i \in 1..Len(appenders) : x = appenders'[i]
      BY <1>c, SeqIsFcn
    <2> QED BY <1>a, <1>b, <2>1
  <1>1. PlacesKnown'
    BY DEF PlacesKnown, Labels, Work, Resetting
  <1>2. LocksHeld'
    BY DEF PlacesKnown, LocksHeld, Work, Resetting
  <1>3. Generations'
    BY DEF PlacesKnown, LocksHeld, Generations, Resetting
  <1>4. MetNow'
    BY DEF PlacesKnown, MetNow, Work
  <1>5. EntriesKnown'
    BY DEF PlacesKnown, EntriesKnown, Work, Resetting
  <1>6. NumbersUnique'
    <2>1. /\ DOMAIN budget' = BudgetKinds /\ budget'.writes \in Nat /\ Future' \subseteq Future
      BY Spending DEF BudgetKinds
    <2> QED BY <2>1 DEF PlacesKnown, EntriesKnown, NumbersUnique, Work
  <1>7. WantKnown'
    BY DEF PlacesKnown, WantKnown, Work
  <1>8. AppendersKnown'
    BY <1>c, <1>d DEF AppendersKnown
  <1>9. Delivered'
    <2>1. Delivered /\ UNCHANGED <<flushed, out, queue, pc, want, sure>>
      OBVIOUS
    <2> HIDE Roles DEF set_appender_enable, IInv
    <2> QED BY <1>d, <2>1 DEF Delivered, IsFile
  <1>10. Answered'
    BY DEF PlacesKnown, Answered
  <1> QED BY <1>1, <1>2, <1>3, <1>4, <1>5, <1>6, <1>7, <1>8, <1>9, <1>10

LEMMA StepTakeSnapshotString == ASSUME IInv, NEW t \in Threads, take_snapshot_string(t) PROVE IInv'
  <1> USE Roles DEF IInv, LocksInv, FlushInv, take_snapshot_string, Goto, Spend, config_vars, output_vars, recovery_vars, lock_vars, answer_vars
  <1>1. PlacesKnown'
    BY DEF PlacesKnown, Labels, Work, Resetting
  <1>2. LocksHeld'
    BY ZenonT(30) DEF PlacesKnown, LocksHeld, Work, Resetting
  <1>3. Generations'
    BY ZenonT(30) DEF PlacesKnown, LocksHeld, Generations, Resetting
  <1>4. MetNow'
    BY DEF PlacesKnown, MetNow, Work
  <1>5. EntriesKnown'
    BY DEF PlacesKnown, EntriesKnown, Work, Resetting
  <1>6. NumbersUnique'
    <2>1. /\ DOMAIN budget' = BudgetKinds /\ budget'.writes \in Nat /\ Future' \subseteq Future
      BY Spending DEF BudgetKinds
    <2> QED BY <2>1 DEF PlacesKnown, EntriesKnown, NumbersUnique, Work
  <1>7. WantKnown'
    BY DEF PlacesKnown, WantKnown, Work
  <1>8. AppendersKnown'
    BY DEF AppendersKnown
  <1>9. Delivered'
    BY DEF PlacesKnown, LocksHeld, WantKnown, Delivered, Work
  <1>10. Answered'
    BY DEF PlacesKnown, Answered
  <1> QED BY <1>1, <1>2, <1>3, <1>4, <1>5, <1>6, <1>7, <1>8, <1>9, <1>10

LEMMA StepReleaseSnapshotString == ASSUME IInv, NEW t \in Threads, release_snapshot_string(t) PROVE IInv'
  <1> USE Roles DEF IInv, LocksInv, FlushInv, release_snapshot_string, Goto, config_vars, output_vars, recovery_vars, lock_vars, answer_vars
  <1>1. PlacesKnown'
    BY DEF PlacesKnown, Labels, Work, Resetting
  <1>2. LocksHeld'
    BY DEF PlacesKnown, LocksHeld, Work, Resetting
  <1>3. Generations'
    BY DEF PlacesKnown, LocksHeld, Generations, Resetting
  <1>4. MetNow'
    BY DEF PlacesKnown, MetNow, Work
  <1>5. EntriesKnown'
    BY DEF PlacesKnown, EntriesKnown, Work, Resetting
  <1>6. NumbersUnique'
    BY DEF PlacesKnown, EntriesKnown, NumbersUnique, Future, Work
  <1>7. WantKnown'
    BY DEF PlacesKnown, WantKnown, Work
  <1>8. AppendersKnown'
    BY DEF AppendersKnown
  <1>9. Delivered'
    BY DEF PlacesKnown, LocksHeld, WantKnown, Delivered, Work
  <1>10. Answered'
    BY DEF PlacesKnown, Answered
  <1> QED BY <1>1, <1>2, <1>3, <1>4, <1>5, <1>6, <1>7, <1>8, <1>9, <1>10

\* Init: nobody has begun, and every appender has its place.
LEMMA InitIInv == Init => IInv
  <1> SUFFICES ASSUME Init PROVE IInv
    OBVIOUS
  <1>1. /\ mode \in {"async", "sync"} /\ logs_lock = [writer |-> None, readers |-> {}]
        /\ spin_lock = None /\ pc = [t \in Threads |-> "idle"]
        /\ cur = [t \in Threads |-> None] /\ clock = 0
        /\ gen = [apps |-> 0, mask |-> 0, snap |-> 0]
        /\ used = [t \in Threads |-> {}] /\ want = [t \in Threads |-> {}]
        /\ DOMAIN budget = BudgetKinds /\ budget.writes = MaxWrites
        /\ said_empty = FALSE /\ sure = {}
    BY InstanceConstants DEF Init, BudgetKinds
  <1>2. PlacesKnown
    BY <1>1, Roles DEF PlacesKnown, Labels
  <1>3. LocksHeld
    BY <1>1, Roles DEF LocksHeld, Work, Resetting
  <1>4. Generations
    BY <1>1 DEF Generations
  <1>5. MetNow
    BY <1>1 DEF MetNow
  <1>6. \E n \in 0..MaxOld : \E v \in [1..n -> BOOLEAN] : queue = [i \in 1..n |-> OldEntry(i, v[i])]
    BY DEF Init
  <1>7. PICK n \in 0..MaxOld : \E v \in [1..n -> BOOLEAN] : queue = [i \in 1..n |-> OldEntry(i, v[i])]
    BY <1>6
  <1>8. PICK v \in [1..n -> BOOLEAN] : queue = [i \in 1..n |-> OldEntry(i, v[i])]
    BY <1>7
  <1>9. \A i \in 1..n : OldEntry(i, v[i]) \in Entries /\ OldEntry(i, v[i]).id = i
    <2>1. (CHOOSE l \in Levels : TRUE) \in Levels
      BY InstanceConstants
    <2> QED BY <1>8, <2>1 DEF OldEntry, Entries
  <1>10. n \in Nat /\ queue \in Seq(Entries) /\ Len(queue) = n /\ \A i \in 1..n : queue[i].id = i
    <2>1. n \in Nat
      BY InstanceConstants
    <2> QED BY <1>8, <1>9, <2>1
  <1>11. EntriesKnown
    BY <1>1, <1>10, Roles DEF EntriesKnown, Work, Resetting
  <1>12. NumbersUnique
    <2>1. MaxOld \in Nat /\ MaxWrites \in Nat /\ n <= MaxOld
      BY <1>10, InstanceConstants
    <2>2. Future = MaxOld + 1 .. MaxOld + MaxWrites
      BY <1>1 DEF Future
    <2>3. \A i \in 1..Len(queue) : queue[i].id \notin Future
      BY <1>10, <2>1, <2>2
    <2>4. \A t \in Threads : pc[t] = "idle" /\ want[t] = {}
      BY <1>1
    <2> QED BY <1>1, <2>1, <2>3, <2>4, Roles DEF NumbersUnique, Work
  <1>13. WantKnown
    BY <1>1 DEF WantKnown
  <1>14. AppendersKnown
    <2> DEFINE fresh == {x \in DOMAIN First.apps : init_ok(First.apps[x])}
               names == SetToSeq(fresh)
    <2>1. IsFiniteSet(fresh)
      <3>1. IsFiniteSet(DOMAIN First.apps)
        BY InstanceConstants
      <3> QED BY <3>1, FS_Subset
    <2>2. Len(names) \in Nat
      BY <2>1, NamesInOrder
    <2>3. /\ appenders = [i \in 1..Len(names) |-> init_appender(names[i], First.apps[names[i]], i)]
          /\ out = [i \in 1..Len(appenders) |-> <<>>] /\ flushed = [i \in 1..Len(appenders) |-> 0]
      BY DEF Init
    <2> HIDE DEF names
    <2>4. \A i \in 1..Len(names) : DOMAIN appenders[i] = Fields /\ appenders[i].id = i
      BY <2>3, NewAppender
    <2>5. appenders \in Seq(Range(appenders)) /\ Len(appenders) = Len(names)
      <3>1. appenders = [i \in 1..Len(names) |-> appenders[i]]
        BY <2>3
      <3> QED BY <2>2, <3>1, SeqOfFcn
    <2>6. /\ out \in Seq({<<>>}) /\ Len(out) = Len(names)
          /\ flushed \in Seq({0}) /\ Len(flushed) = Len(names)
      BY <2>2, <2>3, <2>5, Filled
    <2>7. out \in Seq(Range(out)) /\ flushed \in Seq(Range(flushed))
      BY <2>6, OwnRange
    <2>8. \A a \in Range(appenders) : DOMAIN a = Fields /\ a.id \in 1..Len(out)
      <3>1. \A a \in Range(appenders) : \E i \in 1..Len(names) : a = appenders[i]
        BY <2>5, SeqIsFcn
      <3> QED BY <2>4, <2>6, <3>1
    <2> QED BY <2>5, <2>6, <2>7, <2>8 DEF AppendersKnown
  <1>15. Delivered
    <2>1. \A t \in Users : pc[t] # "unlock"
      BY <1>1, Roles
    <2> QED BY <2>1 DEF Delivered
  <1>16. Answered
    BY <1>1 DEF Answered
  <1> QED BY <1>2, <1>3, <1>4, <1>5, <1>11, <1>12, <1>13, <1>14, <1>15, <1>16 DEF IInv, LocksInv, FlushInv

\* A step that changes nothing.
LEMMA StepNothing == ASSUME IInv, UNCHANGED vars PROVE IInv'
  <1> USE DEF vars
  <1>1. PlacesKnown' /\ LocksHeld' /\ Generations' /\ MetNow'
    BY DEF IInv, LocksInv, PlacesKnown, LocksHeld, Generations, MetNow
  <1>2. EntriesKnown' /\ NumbersUnique' /\ WantKnown'
    BY DEF IInv, FlushInv, EntriesKnown, NumbersUnique, WantKnown, Future
  <1>3. AppendersKnown' /\ Answered' /\ Delivered'
    BY DEF IInv, FlushInv, AppendersKnown, Answered, Delivered
  <1> QED BY <1>1, <1>2, <1>3 DEF IInv, LocksInv, FlushInv

LEMMA Inductive == IInv /\ [Next]_vars => IInv'
  <1> SUFFICES ASSUME IInv, [Next]_vars PROVE IInv'
    OBVIOUS
  <1>0. CASE UNCHANGED vars \/ rest
    BY <1>0, StepNothing DEF rest
  <1>1. CASE process_by_worker
    BY <1>1, StepProcessByWorker
  <1>2. CASE \E t \in Threads :
               \/ do_log(t) \/ commit(t) \/ sync_process(t)
               \/ force_flush(t) \/ flush_lock(t) \/ read_chunk(t) \/ process_end(t)
               \/ process_unlock(t) \/ done(t)
    BY <1>2, StepDoLog, StepCommit, StepSyncProcess, StepForceFlush, StepFlushLock,
       StepReadChunk, StepProcessEnd, StepProcessUnlock, StepDone
  <1>3. CASE \E t \in Threads :
               \/ drop_corrupted(t) \/ new_begin(t) \/ recovery_begin(t) \/ same_phase(t)
               \/ filter(t) \/ deliver(t) \/ snapshot_enabled(t) \/ write_data(t)
    BY <1>3, StepDropCorrupted, StepNewBegin, StepRecoveryBegin, StepSamePhase,
       StepFilter, StepDeliver, StepSnapshotEnabled, StepWriteData
  <1>4. CASE \E t \in Threads :
               \/ reset_config(t) \/ reset_invalid(t) \/ reset_appenders(t)
               \/ reset_mask(t) \/ reset_snapshot(t) \/ set_appender_enable(t)
               \/ take_snapshot_string(t) \/ release_snapshot_string(t)
    BY <1>4, StepResetConfig, StepResetInvalid, StepResetAppenders, StepResetMask,
       StepResetSnapshot, StepSetAppenderEnable, StepTakeSnapshotString,
       StepReleaseSnapshotString
  <1> QED BY <1>0, <1>1, <1>2, <1>3, <1>4 DEF Next

-----------------------------------------------------------------------------
(* The invariant behind the two properties below holds in every state:     *)
(* the locks of log_imp record where the threads are, entries have one     *)
(* place, and every appender of appenders_list_ has its output.            *)
THEOREM Invariance == Spec => []IInv
  BY InitIInv, Inductive, PTL DEF Spec

(* An entry in process_log_chunk meets the appenders, the categories and   *)
(* the snapshot of one configuration, with any number of threads, entries  *)
(* and calls of reset_config.                                              *)
THEOREM EntryMeetsOneConfiguration == Spec => []OneConfiguration
  <1>1. IInv => OneConfiguration
    <2> SUFFICES ASSUME IInv, NEW t \in Threads PROVE Cardinality(used[t]) <= 1
      BY DEF OneConfiguration
    <2>1. used[t] \subseteq {gen.apps}
      BY DEF IInv, LocksInv, MetNow
    <2>2. IsFiniteSet({gen.apps}) /\ Cardinality({gen.apps}) = 1
      BY FS_Singleton
    <2> QED BY <2>1, <2>2, FS_Subset
  <1> QED BY <1>1, Invariance, PTL

(* A flush that is about to return has left nothing that was committed     *)
(* before it began in the worker's hands, and the files hold all that the  *)
(* appenders were told; it has left nothing of it in the buffer either     *)
(* when the buffer had said before that it is empty and nobody has written *)
(* since, although it need not be the first empty answer that is true      *)
(* (force_flush_log, process).                                             *)
THEOREM FlushAlwaysDelivers == Spec => []FlushDelivers
  <1>1. IInv => FlushDelivers
    <2> SUFFICES ASSUME IInv, NEW t \in Users, pc[t] = "unlock", want[t] # {}
                 PROVE  /\ cur[Worker] # None => cur[Worker].id \notin want[t]
                        /\ \A a \in Range(appenders) : IsFile(a) => flushed[a.id] = Len(out[a.id])
                        /\ t \in sure => \A i \in 1..Len(queue) : queue[i].id \notin want[t]
      BY DEF FlushDelivers
    <2>1. logs_lock.writer = t /\ logs_lock.readers = {} /\ pc[Worker] = "idle"
      BY Roles DEF IInv, LocksInv, LocksHeld
    <2>2. cur[Worker] = None
      BY <2>1 DEF IInv, FlushInv, EntriesKnown, Work
    <2> QED BY <2>2 DEF IInv, FlushInv, Delivered
  <1> QED BY <1>1, Invariance, PTL

-----------------------------------------------------------------------------
(* What the appenders were told: the invariant behind OutputReadable.      *)

Marks == [kind : {"begin", "end", "new", "old", "entry"}, id : Nat, ts : Nat]

\* The last marker an appender was told is a start.
OpenNow(o) == Opened(o, Len(o) + 1)

\* What OutputReadable says of one output.
Readable(m, o) ==
  \A i \in 1..Len(o) :
     /\ o[i].kind \in {"old", "end"} => Opened(o, i)
     /\ o[i].kind = "begin" => ~Opened(o, i)
     /\ o[i].kind = "entry" /\ m = "async" => ~Opened(o, i)
     /\ \A j \in 1..i : (o[i].ts # 0 /\ o[j].ts # 0) => o[j].ts <= o[i].ts

\* recovery_appenders_ are the living appenders within a recovery, and nothing
\* was told a time later than the log's own.
Outputs ==
  /\ mode \in {"async", "sync"} /\ clock \in Nat
  /\ out \in Seq(Seq(Marks))
  /\ status \in {"not_started", "in_recovering", "recovered"}
  /\ status # "in_recovering" => recoverers = {}
  /\ recoverers \subseteq Ids(appenders) /\ Ids(appenders) \subseteq 1..Len(out)
  /\ \A i \in Ids(appenders) : OpenNow(out[i]) <=> i \in recoverers
  /\ \A i \in 1..Len(out) : Readable(mode, out[i]) /\ \A j \in 1..Len(out[i]) : out[i][j].ts <= clock

\* Entries of an earlier process come before those of this one, and the state
\* of the recovery is that of the entry in hand.
Hands ==
  /\ \A t \in Threads : pc[t] \in {"put", "sync"} => ~cur[t].old
  /\ \A t \in Threads : pc[t] \in {"filter", "deliver"} => cur[t].ts = clock
  /\ mode = "sync" => \A t \in Threads : pc[t] \in Work => ~cur[t].old
  /\ mode = "async" =>
       /\ \A i, j \in 1..Len(queue) : i < j /\ queue[j].old => queue[i].old
       /\ \A t \in Threads : pc[t] \in Work /\ ~cur[t].old => \A i \in 1..Len(queue) : ~queue[i].old
       /\ status = "recovered" => /\ \A i \in 1..Len(queue) : ~queue[i].old
                                  /\ \A t \in Threads : pc[t] \in Work \ {"done"} => ~cur[t].old
       /\ \A t \in Threads : pc[t] \in {"filter", "deliver"} =>
            status = IF cur[t].old THEN "in_recovering" ELSE "recovered"

\* A walk over the appenders has begun at the first one.
Walks == at \in [Threads -> Nat] /\ \A t \in Threads : pc[t] = "deliver" => at[t] # 0

ReaderInv == Outputs /\ Hands /\ Walks

\* What one more mark makes of an output.
After(k, open) == k = "begin" \/ (k # "end" /\ open)

Extended(o, x, p) ==
  /\ p \in Seq(Marks) /\ Len(p) = Len(o) + 1 /\ p[Len(o) + 1] = x
  /\ \A i \in 1..Len(o) : p[i] = o[i]
  /\ \A i \in 1..Len(o) + 1 : Opened(p, i) <=> Opened(o, i)
  /\ OpenNow(p) <=> After(x.kind, OpenNow(o))

LEMMA OpenedAppend ==
  ASSUME NEW o \in Seq(Marks), NEW x \in Marks, NEW p, p = Append(o, x)
  PROVE  Extended(o, x, p)
  <1> DEFINE n == Len(o)
  <1>1. n \in Nat /\ p \in Seq(Marks) /\ Len(p) = n + 1 /\ p[n + 1] = x /\ \A i \in 1..n : p[i] = o[i]
    OBVIOUS
  <1> HIDE DEF n
  <1>2. \A i \in 1..n + 1 : Opened(p, i) <=> Opened(o, i)
    <2> SUFFICES ASSUME NEW i \in 1..n + 1 PROVE Opened(p, i) <=> Opened(o, i)
      OBVIOUS
    <2>1. \A j \in 1..i - 1 : j \in 1..n /\ p[j] = o[j]
      BY <1>1
    <2>2. \A j \in 1..i - 1 : \A k \in j + 1..i - 1 : k \in 1..i - 1
      BY <1>1
    <2> DEFINE Start(q, j) == q[j].kind = "begin" /\ \A k \in j + 1..i - 1 : q[k].kind # "end"
    <2>3. \A j \in 1..i - 1 : Start(p, j) <=> Start(o, j)
      BY <2>1, <2>2
    <2>4. /\ Opened(p, i) <=> \E j \in 1..i - 1 : Start(p, j)
          /\ Opened(o, i) <=> \E j \in 1..i - 1 : Start(o, j)
      BY DEF Opened
    <2> HIDE DEF Start
    <2> QED BY <2>3, <2>4
  <1>3. Opened(p, n + 2) <=> After(x.kind, Opened(o, n + 1))
    <2> DEFINE Start(q, m, j) == q[j].kind = "begin" /\ \A k \in j + 1..m : q[k].kind # "end"
    <2>1. Opened(p, n + 2) <=> \E j \in 1..n + 1 : Start(p, n + 1, j)
      BY <1>1, SMTT(90) DEF Opened
    <2>2. Opened(o, n + 1) <=> \E j \in 1..n : Start(o, n, j)
      BY <1>1 DEF Opened
    <2>3. Start(p, n + 1, n + 1) <=> x.kind = "begin"
      BY <1>1
    <2>4. ASSUME NEW j \in 1..n PROVE Start(p, n + 1, j) <=> x.kind # "end" /\ Start(o, n, j)
      <3>1. j + 1..n + 1 = (j + 1..n) \cup {n + 1}
        BY <1>1
      <3>2. \A k \in j + 1..n : k \in 1..n
        BY <1>1
      <3> QED BY <1>1, <3>1, <3>2
    <2> HIDE DEF Start
    <2>5. \A j \in 1..n + 1 : j \in 1..n \/ j = n + 1
      BY <1>1
    <2>6. n + 1 \in 1..n + 1 /\ \A j \in 1..n : j \in 1..n + 1
      BY <1>1
    <2> QED BY <2>1, <2>2, <2>3, <2>4, <2>5, <2>6 DEF After
  <1>4. Len(p) + 1 = n + 2
    BY <1>1
  <1> QED BY <1>1, <1>2, <1>3, <1>4 DEF Extended, OpenNow, n

\* A mark that suits what came before it.
Suits(m, o, x) ==
  /\ x.kind \in {"old", "end"} => OpenNow(o)
  /\ x.kind = "begin" => ~OpenNow(o)
  /\ x.kind = "entry" /\ m = "async" => ~OpenNow(o)
  /\ x.ts # 0 => \A j \in 1..Len(o) : o[j].ts <= x.ts

LEMMA ReadableAppend ==
  ASSUME NEW m, NEW o \in Seq(Marks), NEW x \in Marks, NEW p, p = Append(o, x), Readable(m, o), Suits(m, o, x)
  PROVE  Readable(m, p)
  <1> DEFINE n == Len(o)
  <1>1. /\ p \in Seq(Marks) /\ Len(p) = n + 1 /\ p[n + 1] = x
        /\ \A i \in 1..n : p[i] = o[i]
        /\ \A i \in 1..n + 1 : Opened(p, i) <=> Opened(o, i)
        /\ n \in Nat
    <2>1. Extended(o, x, p)
      BY OpenedAppend
    <2> QED BY <2>1 DEF Extended
  <1> HIDE DEF n
  <1>2. ASSUME NEW i \in 1..n
        PROVE  /\ p[i].kind \in {"old", "end"} => Opened(p, i)
               /\ p[i].kind = "begin" => ~Opened(p, i)
               /\ p[i].kind = "entry" /\ m = "async" => ~Opened(p, i)
               /\ \A j \in 1..i : (p[i].ts # 0 /\ p[j].ts # 0) => p[j].ts <= p[i].ts
    <2>1. p[i] = o[i] /\ (Opened(p, i) <=> Opened(o, i)) /\ \A j \in 1..i : p[j] = o[j]
      BY <1>1
    <2>2. i \in 1..Len(o)
      BY DEF n
    <2> QED BY <2>1, <2>2 DEF Readable
  <1>3. /\ p[n + 1].kind \in {"old", "end"} => Opened(p, n + 1)
        /\ p[n + 1].kind = "begin" => ~Opened(p, n + 1)
        /\ p[n + 1].kind = "entry" /\ m = "async" => ~Opened(p, n + 1)
        /\ \A j \in 1..n + 1 : (p[n + 1].ts # 0 /\ p[j].ts # 0) => p[j].ts <= p[n + 1].ts
    <2>1. Opened(p, n + 1) <=> OpenNow(o)
      BY <1>1 DEF OpenNow, n
    <2>2. \A j \in 1..n + 1 : p[j] = IF j = n + 1 THEN x ELSE o[j]
      BY <1>1
    <2>3. x.ts \in Nat /\ (x.ts # 0 => \A j \in 1..n : o[j].ts <= x.ts)
      BY DEF Suits, Marks, n
    <2>4. \A j \in 1..n + 1 : (p[n + 1].ts # 0 /\ p[j].ts # 0) => p[j].ts <= p[n + 1].ts
      BY <1>1, <2>2, <2>3
    <2> QED BY <1>1, <2>1, <2>4 DEF Suits
  <1>4. \A i \in 1..Len(p) : i \in 1..n \/ i = n + 1
    BY <1>1
  <1> QED BY <1>2, <1>3, <1>4 DEF Readable

\* Telling some appenders what suits each of them.
Told(m, o, ids, x, p) ==
  /\ p \in Seq(Seq(Marks)) /\ Len(p) = Len(o)
  /\ \A i \in 1..Len(o) :
       /\ Readable(m, p[i])
       /\ OpenNow(p[i]) <=> IF i \in ids THEN After(x.kind, OpenNow(o[i])) ELSE OpenNow(o[i])
       /\ \A j \in 1..Len(p[i]) : p[i][j] = x \/ \E k \in 1..Len(o[i]) : p[i][j] = o[i][k]

LEMMA ToldWell ==
  ASSUME NEW m, NEW o \in Seq(Seq(Marks)), \A i \in 1..Len(o) : Readable(m, o[i]),
         NEW ids, NEW x \in Marks, \A i \in 1..Len(o) : i \in ids => Suits(m, o[i], x),
         NEW p, p = Tell(o, ids, x)
  PROVE  Told(m, o, ids, x, p)
  <1> DEFINE n == Len(o)
  <1>1. n \in Nat /\ \A i \in 1..n : o[i] \in Seq(Marks)
    OBVIOUS
  <1>2. p = [i \in 1..n |-> IF i \in ids THEN Append(o[i], x) ELSE o[i]]
    BY DEF Tell
  <1> HIDE DEF n
  <1>3. ASSUME NEW i \in 1..n
        PROVE  /\ p[i] \in Seq(Marks) /\ Readable(m, p[i])
               /\ OpenNow(p[i]) <=> IF i \in ids THEN After(x.kind, OpenNow(o[i])) ELSE OpenNow(o[i])
               /\ \A j \in 1..Len(p[i]) : p[i][j] = x \/ \E k \in 1..Len(o[i]) : p[i][j] = o[i][k]
    <2>0. o[i] \in Seq(Marks) /\ Readable(m, o[i]) /\ (i \in ids => Suits(m, o[i], x))
      BY <1>1 DEF n
    <2>1. CASE i \notin ids
      <3>1. p[i] = o[i]
        BY <1>2, <2>1
      <3> QED BY <2>0, <2>1, <3>1
    <2>2. CASE i \in ids
      <3>1. p[i] = Append(o[i], x)
        BY <1>2, <2>2
      <3> DEFINE q == p[i]
                 s == o[i]
      <3>2. /\ q \in Seq(Marks) /\ Len(q) = Len(s) + 1 /\ q[Len(s) + 1] = x
            /\ \A j \in 1..Len(s) : q[j] = s[j]
            /\ OpenNow(q) <=> After(x.kind, OpenNow(s))
        <4>1. Extended(s, x, q)
          BY <2>0, <3>1, OpenedAppend
        <4> QED BY <4>1 DEF Extended
      <3>3. Readable(m, q)
        BY <2>0, <2>2, <3>1, ReadableAppend
      <3>4. Len(s) \in Nat
        BY <2>0
      <3> HIDE DEF q, s
      <3>5. \A j \in 1..Len(q) : q[j] = x \/ \E k \in 1..Len(s) : q[j] = s[k]
        BY <3>2, <3>4, SMTT(30)
      <3> QED BY <2>2, <3>2, <3>3, <3>5 DEF q, s
    <2> QED BY <2>1, <2>2
  <1>4. p \in Seq(Seq(Marks)) /\ Len(p) = n
    <2>1. p = [i \in 1..n |-> p[i]]
      BY <1>2
    <2>2. \A i \in 1..n : p[i] \in Seq(Marks)
      BY <1>3
    <2> QED BY <1>1, <2>1, <2>2
  <1> QED BY <1>3, <1>4 DEF n, Told

\* An entry is in hand with the lock in hand, so only one thread has one.
LEMMA Alone ==
  ASSUME LocksInv, NEW t \in Threads, NEW u \in Threads, pc[t] \in Work \cup {"read"}, pc[u] \in Work
  PROVE  t = u
  <1> USE Roles DEF LocksInv
  <1>1. CASE mode = "sync"
    <2>1. t \in Users /\ u \in Users /\ pc[t] \in Work
      BY <1>1 DEF PlacesKnown, Work
    <2> QED BY <1>1, <2>1 DEF LocksHeld
  <1>2. CASE mode = "async"
    <2>1. CASE t \in Users /\ u \in Users
      BY <1>2, <2>1 DEF LocksHeld
    <2>2. CASE t = Worker /\ u \in Users
      BY <1>2, <2>2 DEF LocksHeld, Work
    <2>3. CASE t \in Users /\ u = Worker
      BY <1>2, <2>3 DEF LocksHeld, Work
    <2>4. CASE t = Worker /\ u = Worker
      BY <2>4
    <2> QED BY <2>1, <2>2, <2>3, <2>4
  <1> QED BY <1>1, <1>2 DEF PlacesKnown

LEMMA SameOutputs ==
  ASSUME Outputs, UNCHANGED <<mode, out, status, recoverers, clock>>, Ids(appenders') = Ids(appenders)
  PROVE  Outputs'
  BY DEF Outputs

\* A thread that takes no entry leaves what is said of the entries.
LEMMA HandsStay ==
  ASSUME Hands, NEW t \in Threads, UNCHANGED <<mode, status, clock, queue>>,
         \A u \in Threads \ {t} : pc'[u] = pc[u] /\ cur'[u] = cur[u],
         pc'[t] \in {"put", "sync"} => ~cur'[t].old,
         pc'[t] \in Work => pc[t] \in Work \ {"done"} /\ cur'[t] = cur[t],
         pc'[t] \in {"filter", "deliver"} => pc[t] \in {"filter", "deliver"}
  PROVE  Hands'
  <1>1. \A u \in Threads : pc'[u] \in {"put", "sync"} => ~cur'[u].old
    BY DEF Hands
  <1>2. \A u \in Threads : pc'[u] \in Work => pc[u] \in Work /\ cur'[u] = cur[u]
    OBVIOUS
  <1>3. \A u \in Threads : pc'[u] \in Work \ {"done"} => pc[u] \in Work \ {"done"} /\ cur'[u] = cur[u]
    BY DEF Work
  <1>4. \A u \in Threads : pc'[u] \in {"filter", "deliver"} =>
                              pc[u] \in {"filter", "deliver"} /\ cur'[u] = cur[u]
    BY DEF Work
  <1>5. \A u \in Threads : pc'[u] \in {"filter", "deliver"} => cur'[u].ts = clock'
    BY <1>4 DEF Hands
  <1>6. mode' = "sync" => \A u \in Threads : pc'[u] \in Work => ~cur'[u].old
    BY <1>2 DEF Hands
  <1>7. mode' = "async" =>
       /\ \A i, j \in 1..Len(queue') : i < j /\ queue'[j].old => queue'[i].old
       /\ \A u \in Threads : pc'[u] \in Work /\ ~cur'[u].old => \A i \in 1..Len(queue') : ~queue'[i].old
       /\ status' = "recovered" => /\ \A i \in 1..Len(queue') : ~queue'[i].old
                                   /\ \A u \in Threads : pc'[u] \in Work \ {"done"} => ~cur'[u].old
       /\ \A u \in Threads : pc'[u] \in {"filter", "deliver"} =>
            status' = IF cur'[u].old THEN "in_recovering" ELSE "recovered"
    BY <1>2, <1>3, <1>4 DEF Hands
  <1> QED BY <1>1, <1>5, <1>6, <1>7 DEF Hands

LEMMA SameWalks ==
  ASSUME Walks, NEW t \in Threads, at' = at, \A u \in Threads \ {t} : pc'[u] = pc[u],
         pc'[t] = "deliver" => pc[t] = "deliver"
  PROVE  Walks'
  BY DEF Walks

LEMMA QuietStep ==
  ASSUME ReaderInv, NEW t \in Threads, UNCHANGED <<mode, out, status, recoverers, clock, queue, at>>,
         Ids(appenders') = Ids(appenders),
         \A u \in Threads \ {t} : pc'[u] = pc[u] /\ cur'[u] = cur[u],
         pc'[t] \in {"put", "sync"} => ~cur'[t].old,
         pc'[t] \in Work => pc[t] \in Work \ {"done"} /\ cur'[t] = cur[t],
         pc'[t] \in {"filter", "deliver"} => pc'[t] = pc[t]
  PROVE  ReaderInv'
  <1>1. Outputs'
    BY SameOutputs DEF ReaderInv
  <1>2. Hands'
    BY HandsStay DEF ReaderInv
  <1>3. Walks'
    BY SameWalks DEF ReaderInv
  <1> QED BY <1>1, <1>2, <1>3 DEF ReaderInv

\* The steps that neither tell an appender anything nor take an entry.
LEMMA ReadQuiet ==
  ASSUME IInv, ReaderInv, NEW t \in Threads,
         \/ do_log(t) \/ force_flush(t) \/ flush_lock(t) \/ process_end(t) \/ process_unlock(t)
         \/ done(t) \/ drop_corrupted(t) \/ snapshot_enabled(t) \/ write_data(t)
         \/ reset_config(t) \/ reset_invalid(t) \/ reset_mask(t) \/ reset_snapshot(t)
         \/ take_snapshot_string(t) \/ release_snapshot_string(t)
  PROVE  ReaderInv'
  <1> USE DEF Goto, config_vars, output_vars, recovery_vars, lock_vars, answer_vars
  <1>0. pc \in [Threads -> Labels] /\ DOMAIN cur = Threads
    BY DEF IInv, LocksInv, FlushInv, PlacesKnown, EntriesKnown
  <1>1. CASE do_log(t)
    <2>1. pc'[t] \in {"put", "sync"} /\ ~cur'[t].old /\ appenders' = appenders
      BY <1>0, <1>1 DEF do_log
    <2>2. /\ UNCHANGED <<mode, out, status, recoverers, clock, queue, at>>
          /\ \A u \in Threads \ {t} : pc'[u] = pc[u] /\ cur'[u] = cur[u]
      BY <1>0, <1>1 DEF do_log
    <2>3. pc'[t] \notin Work
      BY <2>1 DEF Work
    <2> QED BY <2>1, <2>2, <2>3, QuietStep
  <1>2. CASE force_flush(t) \/ flush_lock(t)
    <2>1. pc'[t] \in {"flush", "read"} /\ appenders' = appenders
      BY <1>0, <1>2 DEF force_flush, flush_lock
    <2>2. /\ UNCHANGED <<mode, out, status, recoverers, clock, queue, at>>
          /\ \A u \in Threads \ {t} : pc'[u] = pc[u] /\ cur'[u] = cur[u]
      BY <1>0, <1>2 DEF force_flush, flush_lock
    <2>3. pc'[t] \notin Work
      BY <2>1 DEF Work
    <2> QED BY <2>1, <2>2, <2>3, QuietStep
  <1>3. CASE process_end(t) \/ process_unlock(t) \/ done(t)
    <2>1. pc'[t] \in {"unlock", "idle", "read"} /\ appenders' = appenders
      BY <1>0, <1>3 DEF process_end, process_unlock, done
    <2>2. /\ UNCHANGED <<mode, out, status, recoverers, clock, queue, at>>
          /\ \A u \in Threads \ {t} : pc'[u] = pc[u] /\ cur'[u] = cur[u]
      BY <1>0, <1>3 DEF process_end, process_unlock, done
    <2>3. pc'[t] \notin Work
      BY <2>1 DEF Work
    <2> QED BY <2>1, <2>2, <2>3, QuietStep
  <1>4. CASE drop_corrupted(t) \/ snapshot_enabled(t) \/ write_data(t)
    <2>1. pc'[t] \in {"done", "snapshot"} /\ appenders' = appenders /\ cur'[t] = cur[t]
      BY <1>0, <1>4 DEF drop_corrupted, snapshot_enabled, write_data
    <2>2. /\ UNCHANGED <<mode, out, status, recoverers, clock, queue, at>>
          /\ \A u \in Threads \ {t} : pc'[u] = pc[u] /\ cur'[u] = cur[u]
      BY <1>0, <1>4 DEF drop_corrupted, snapshot_enabled, write_data
    <2>3. pc[t] \in Work \ {"done"}
      BY <1>4 DEF drop_corrupted, snapshot_enabled, write_data, Work
    <2> QED BY <2>1, <2>2, <2>3, QuietStep
  <1>5. CASE reset_config(t) \/ reset_invalid(t) \/ reset_mask(t) \/ reset_snapshot(t)
    <2>1. pc'[t] \in {"reset", "unlock", "reset_snapshot"} /\ appenders' = appenders
      BY <1>0, <1>5 DEF reset_config, reset_invalid, reset_mask, reset_snapshot
    <2>2. /\ UNCHANGED <<mode, out, status, recoverers, clock, queue, at>>
          /\ \A u \in Threads \ {t} : pc'[u] = pc[u] /\ cur'[u] = cur[u]
      BY <1>0, <1>5 DEF reset_config, reset_invalid, reset_mask, reset_snapshot
    <2>3. pc'[t] \notin Work
      BY <2>1 DEF Work
    <2> QED BY <2>1, <2>2, <2>3, QuietStep
  <1>6. CASE take_snapshot_string(t) \/ release_snapshot_string(t)
    <2>1. pc'[t] \in {"taken", "idle"} /\ appenders' = appenders
      BY <1>0, <1>6 DEF take_snapshot_string, release_snapshot_string
    <2>2. /\ UNCHANGED <<mode, out, status, recoverers, clock, queue, at>>
          /\ \A u \in Threads \ {t} : pc'[u] = pc[u] /\ cur'[u] = cur[u]
      BY <1>0, <1>6 DEF take_snapshot_string, release_snapshot_string
    <2>3. pc'[t] \notin Work
      BY <2>1 DEF Work
    <2> QED BY <2>1, <2>2, <2>3, QuietStep
  <1> QED BY <1>1, <1>2, <1>3, <1>4, <1>5, <1>6

LEMMA ReadProcess ==
  ASSUME IInv, ReaderInv, process_by_worker
  PROVE  ReaderInv'
  <1> USE DEF Goto, config_vars, output_vars, recovery_vars, lock_vars, answer_vars
  <1>0. pc \in [Threads -> Labels] /\ Worker \in Threads
    BY Roles DEF IInv, LocksInv, PlacesKnown
  <1>1. pc'[Worker] = "read" /\ appenders' = appenders
    BY <1>0 DEF process_by_worker
  <1>2. /\ UNCHANGED <<mode, out, status, recoverers, clock, queue, at>>
        /\ \A u \in Threads \ {Worker} : pc'[u] = pc[u] /\ cur'[u] = cur[u]
    BY <1>0 DEF process_by_worker
  <1>3. pc'[Worker] \notin Work
    BY <1>1 DEF Work
  <1> QED BY <1>0, <1>1, <1>2, <1>3, QuietStep

LEMMA ReadEnable ==
  ASSUME IInv, ReaderInv, NEW t \in Threads, set_appender_enable(t)
  PROVE  ReaderInv'
  <1>0. AppendersKnown
    BY DEF IInv, FlushInv
  <1>1. PICK names, b : appenders' = [i \in 1..Len(appenders) |->
                          IF appenders[i].name \in names
                          THEN [appenders[i] EXCEPT !.enable = b] ELSE appenders[i]]
    BY DEF set_appender_enable
  <1>2. Len(appenders) \in Nat /\ \A i \in 1..Len(appenders) : DOMAIN appenders[i] = Fields
    BY <1>0, SeqIsFcn DEF AppendersKnown
  <1>3. Len(appenders') = Len(appenders)
    BY <1>1, <1>2
  <1>4. \A i \in 1..Len(appenders) : appenders'[i].id = appenders[i].id
    BY <1>1, <1>2 DEF Fields
  <1>5. Ids(appenders') = Ids(appenders)
    BY <1>3, <1>4 DEF Ids
  <1>6. UNCHANGED <<mode, out, status, recoverers, clock, queue, at, pc, cur>> /\ pc[t] = "idle"
    BY DEF set_appender_enable, output_vars, recovery_vars
  <1> QED BY <1>5, <1>6, QuietStep DEF Work

LEMMA ReadFilter ==
  ASSUME IInv, ReaderInv, NEW t \in Threads, filter(t)
  PROVE  ReaderInv'
  <1> USE DEF Goto, config_vars, output_vars, recovery_vars, lock_vars, answer_vars
  <1>0. pc \in [Threads -> Labels]
    BY DEF IInv, LocksInv, PlacesKnown
  <1>1. /\ pc[t] = "filter" /\ pc'[t] \in {"deliver", "done"} /\ cur' = cur
        /\ \A u \in Threads \ {t} : pc'[u] = pc[u]
        /\ UNCHANGED <<mode, out, status, recoverers, clock, queue, appenders>>
        /\ at' = [at EXCEPT ![t] = 1]
    BY <1>0 DEF filter
  <1> HIDE DEF filter
  <1>2. Outputs'
    BY <1>1, SameOutputs DEF ReaderInv
  <1>3. Hands'
    <2>1. pc[t] \in Work \ {"done"} /\ pc[t] \in {"filter", "deliver"}
      BY <1>1 DEF Work
    <2> QED BY <1>1, <2>1, HandsStay DEF ReaderInv
  <1>4. Walks'
    BY <1>1 DEF ReaderInv, Walks
  <1> QED BY <1>2, <1>3, <1>4 DEF ReaderInv

LEMMA ReadCommit ==
  ASSUME IInv, ReaderInv, NEW t \in Threads, commit(t)
  PROVE  ReaderInv'
  <1> USE DEF Goto, config_vars, output_vars, recovery_vars, lock_vars, answer_vars
  <1>0. pc \in [Threads -> Labels] /\ DOMAIN cur = Threads /\ queue \in Seq(Entries)
    BY DEF IInv, LocksInv, FlushInv, PlacesKnown, EntriesKnown
  <1>1. /\ pc[t] = "put" /\ pc'[t] = "idle" /\ queue' = Append(queue, cur[t])
        /\ \A u \in Threads \ {t} : pc'[u] = pc[u] /\ cur'[u] = cur[u]
        /\ UNCHANGED <<mode, out, status, recoverers, clock, appenders, at>>
    BY <1>0 DEF commit
  <1> HIDE DEF commit
  <1>2. Outputs'
    BY <1>1, SameOutputs DEF ReaderInv
  <1>3. Walks'
    BY <1>1, SameWalks DEF ReaderInv
  <1>4. cur[t] \in Entries /\ ~cur[t].old
    BY <1>1 DEF IInv, FlushInv, EntriesKnown, ReaderInv, Hands
  <1>5. /\ Len(queue') = Len(queue) + 1 /\ Len(queue) \in Nat /\ queue'[Len(queue) + 1] = cur[t]
        /\ \A i \in 1..Len(queue) : queue'[i] = queue[i]
    BY <1>0, <1>1, <1>4
  <1>6. \A u \in Threads : pc'[u] \in Work \cup {"put", "sync"} => pc'[u] = pc[u] /\ cur'[u] = cur[u]
    BY <1>1 DEF Work
  <1>7. ~queue'[Len(queue) + 1].old
    BY <1>4, <1>5
  <1>8. (\A i \in 1..Len(queue) : ~queue[i].old) => \A i \in 1..Len(queue') : ~queue'[i].old
    BY <1>5, <1>7
  <1>9. (\A i, j \in 1..Len(queue) : i < j /\ queue[j].old => queue[i].old)
           => \A i, j \in 1..Len(queue') : i < j /\ queue'[j].old => queue'[i].old
    BY <1>5, <1>7
  <1>10. Hands'
    BY <1>1, <1>6, <1>8, <1>9 DEF ReaderInv, Hands, Work
  <1> QED BY <1>2, <1>3, <1>10 DEF ReaderInv

LEMMA ReadSync ==
  ASSUME IInv, ReaderInv, NEW t \in Threads, sync_process(t)
  PROVE  ReaderInv'
  <1> USE DEF Goto, config_vars, output_vars, recovery_vars, lock_vars, answer_vars
  <1>0. pc \in [Threads -> Labels] /\ Worker \in Threads
    BY Roles DEF IInv, LocksInv, PlacesKnown
  <1>1. /\ pc[t] = "sync" /\ pc'[t] = "chunk" /\ cur' = cur
        /\ \A u \in Threads \ {t} : pc'[u] = pc[u]
        /\ UNCHANGED <<mode, out, status, recoverers, clock, queue, appenders, at>>
    BY <1>0 DEF sync_process
  <1> HIDE DEF sync_process
  <1>2. mode = "sync"
    BY <1>1, Roles DEF IInv, LocksInv, PlacesKnown, Work
  <1>3. Outputs'
    BY <1>1, SameOutputs DEF ReaderInv
  <1>4. Walks'
    BY <1>1, SameWalks DEF ReaderInv
  <1>5. Hands'
    BY <1>1, <1>2 DEF ReaderInv, Hands
  <1> QED BY <1>3, <1>4, <1>5 DEF ReaderInv

LEMMA ReadChunk ==
  ASSUME IInv, ReaderInv, NEW t \in Threads, read_chunk(t)
  PROVE  ReaderInv'
  <1> USE DEF Goto, config_vars, output_vars, recovery_vars, lock_vars, answer_vars
  <1>0. pc \in [Threads -> Labels] /\ DOMAIN cur = Threads /\ queue \in Seq(Entries)
    BY DEF IInv, LocksInv, FlushInv, PlacesKnown, EntriesKnown
  <1>1. /\ pc[t] = "read" /\ pc'[t] = "chunk"
        /\ \A u \in Threads \ {t} : pc'[u] = pc[u] /\ cur'[u] = cur[u]
        /\ UNCHANGED <<mode, out, status, recoverers, clock, appenders, at>>
    BY <1>0 DEF read_chunk
  <1>a. read_chunk(t)
    OBVIOUS
  <1> HIDE DEF read_chunk
  <1>2. Outputs'
    BY <1>1, SameOutputs DEF ReaderInv
  <1>3. Walks'
    BY <1>1, SameWalks DEF ReaderInv
  <1>4. mode = "async"
    BY <1>1, Roles DEF IInv, LocksInv, PlacesKnown, Work
  <1>5. \A u \in Threads \ {t} : pc[u] \notin Work
    BY <1>1, Alone DEF IInv
  <1>6. PICK n \in 1..Len(queue) :
           /\ Foremost(n) /\ cur'[t] = queue[n] /\ Len(queue) \in Nat /\ Len(queue') = Len(queue) - 1
           /\ \A k \in 1..Len(queue') : /\ queue'[k] = queue[IF k < n THEN k ELSE k + 1]
                                       /\ (IF k < n THEN k ELSE k + 1) \in 1..Len(queue)
    BY <1>0, <1>a, Taking
  <1>7. /\ \A i, j \in 1..Len(queue) : i < j /\ queue[j].old => queue[i].old
        /\ status = "recovered" => \A i \in 1..Len(queue) : ~queue[i].old
    BY <1>4 DEF ReaderInv, Hands
  <1>8. \A i, j \in 1..Len(queue') : i < j /\ queue'[j].old => queue'[i].old
    <2> SUFFICES ASSUME NEW i \in 1..Len(queue'), NEW j \in 1..Len(queue'), i < j, queue'[j].old
                 PROVE  queue'[i].old
      OBVIOUS
    <2> DEFINE From(k) == IF k < n THEN k ELSE k + 1
    <2>1. From(i) \in 1..Len(queue) /\ From(j) \in 1..Len(queue) /\ From(i) < From(j)
      BY <1>6
    <2>2. queue'[i] = queue[From(i)] /\ queue'[j] = queue[From(j)]
      BY <1>6
    <2> QED BY <1>7, <2>1, <2>2
  <1>9. ~cur'[t].old => \A i \in 1..Len(queue') : ~queue'[i].old
    <2>1. ASSUME ~queue[n].old, NEW j \in 1..Len(queue) PROVE ~queue[j].old
      <3>1. CASE j < n
        BY <1>6, <2>1, <3>1 DEF Foremost
      <3>2. CASE ~(j < n)
        BY <1>6, <1>7, <2>1, <3>2
      <3> QED BY <3>1, <3>2
    <2> QED BY <1>6, <2>1
  <1>10. status' = "recovered" => ~cur'[t].old /\ \A i \in 1..Len(queue') : ~queue'[i].old
    BY <1>1, <1>6, <1>7
  <1>11. \A u \in Threads \ {t} : pc'[u] \notin Work
    BY <1>1, <1>5
  <1>12. \A u \in Threads : pc'[u] \in {"put", "sync"} => ~cur'[u].old
    BY <1>1 DEF ReaderInv, Hands
  <1>13. Hands'
    BY <1>1, <1>4, <1>8, <1>9, <1>10, <1>11, <1>12 DEF Hands, Work
  <1> QED BY <1>2, <1>3, <1>13 DEF ReaderInv

\* The first steps with an entry: its time is put right, and the entry stays
\* what it was.
LEMMA TickFacts ==
  ASSUME IInv, ReaderInv, NEW t \in Threads, pc[t] = "chunk", Tick(t)
  PROVE  /\ clock' \in Nat /\ clock <= clock'
         /\ cur'[t].ts = clock' /\ cur'[t].old = cur[t].old
         /\ pc'[t] = "filter" /\ \A u \in Threads \ {t} : pc'[u] = pc[u] /\ cur'[u] = cur[u]
         /\ UNCHANGED <<mode, queue, appenders, at>>
         /\ \A u \in Threads \ {t} : pc[u] \notin Work
         /\ cur[t].old \in BOOLEAN
  <1>0. pc \in [Threads -> Labels] /\ DOMAIN cur = Threads /\ cur[t] \in Entries /\ clock \in Nat
    BY DEF IInv, LocksInv, FlushInv, PlacesKnown, EntriesKnown, Work
  <1>1. cur[t].ts \in Nat /\ cur[t].old \in BOOLEAN
    BY <1>0 DEF Entries
  <1>2. clock' \in Nat /\ clock <= clock'
    BY <1>0, <1>1 DEF Tick
  <1>3. cur' = [cur EXCEPT ![t].ts = clock']
    BY DEF Tick
  <1>4. cur'[t].ts = clock' /\ cur'[t].old = cur[t].old
    BY <1>0, <1>3 DEF Entries
  <1>5. /\ pc'[t] = "filter" /\ \A u \in Threads \ {t} : pc'[u] = pc[u] /\ cur'[u] = cur[u]
        /\ UNCHANGED <<mode, queue, appenders, at>>
    BY <1>0, <1>3 DEF Tick, Goto, config_vars
  <1>6. \A u \in Threads \ {t} : pc[u] \notin Work
    BY Alone DEF IInv, Work
  <1> QED BY <1>1, <1>2, <1>4, <1>5, <1>6

\* What is left to show for the three of them.
LEMMA TickHands ==
  ASSUME IInv, ReaderInv, NEW t \in Threads, pc[t] = "chunk", Tick(t),
         mode = "async" => /\ status' = IF cur[t].old THEN "in_recovering" ELSE "recovered"
  PROVE  Hands' /\ Walks'
  <1>1. /\ clock' \in Nat /\ clock <= clock'
        /\ cur'[t].ts = clock' /\ cur'[t].old = cur[t].old
        /\ pc'[t] = "filter" /\ \A u \in Threads \ {t} : pc'[u] = pc[u] /\ cur'[u] = cur[u]
        /\ UNCHANGED <<mode, queue, appenders, at>>
        /\ \A u \in Threads \ {t} : pc[u] \notin Work
        /\ cur[t].old \in BOOLEAN
    BY TickFacts
  <1>2. Walks'
    BY <1>1, SameWalks DEF ReaderInv
  <1>3. \A u \in Threads \ {t} : pc'[u] \notin Work
    BY <1>1
  <1>4. \A u \in Threads : pc'[u] \in {"put", "sync"} => ~cur'[u].old
    BY <1>1 DEF ReaderInv, Hands
  <1>5. \A u \in Threads : pc'[u] \in {"filter", "deliver"} => cur'[u].ts = clock'
    BY <1>1, <1>3 DEF Work
  <1>6. mode' = "sync" => \A u \in Threads : pc'[u] \in Work => ~cur'[u].old
    BY <1>1, <1>3 DEF ReaderInv, Hands, Work
  <1>7. mode' = "async" =>
       /\ \A i, j \in 1..Len(queue') : i < j /\ queue'[j].old => queue'[i].old
       /\ \A u \in Threads : pc'[u] \in Work /\ ~cur'[u].old => \A i \in 1..Len(queue') : ~queue'[i].old
       /\ status' = "recovered" => /\ \A i \in 1..Len(queue') : ~queue'[i].old
                                   /\ \A u \in Threads : pc'[u] \in Work \ {"done"} => ~cur'[u].old
       /\ \A u \in Threads : pc'[u] \in {"filter", "deliver"} =>
            status' = IF cur'[u].old THEN "in_recovering" ELSE "recovered"
    <2> SUFFICES ASSUME mode = "async"
                 PROVE  /\ \A i, j \in 1..Len(queue) : i < j /\ queue[j].old => queue[i].old
                        /\ ~cur[t].old => \A i \in 1..Len(queue) : ~queue[i].old
                        /\ status' = "recovered" => ~cur[t].old
                        /\ status' = IF cur[t].old THEN "in_recovering" ELSE "recovered"
      BY <1>1, <1>3 DEF Work
    <2>1. /\ \A i, j \in 1..Len(queue) : i < j /\ queue[j].old => queue[i].old
          /\ ~cur[t].old => \A i \in 1..Len(queue) : ~queue[i].old
      BY DEF ReaderInv, Hands, Work
    <2> QED BY <1>1, <2>1
  <1>8. Hands'
    BY <1>4, <1>5, <1>6, <1>7 DEF Hands
  <1> QED BY <1>2, <1>8

LEMMA ReadSamePhase ==
  ASSUME IInv, ReaderInv, NEW t \in Threads, same_phase(t)
  PROVE  ReaderInv'
  <1>1. pc[t] = "chunk" /\ Tick(t) /\ UNCHANGED <<status, recoverers, out>>
    BY DEF same_phase, recovery_vars
  <1>2. /\ clock' \in Nat /\ clock <= clock' /\ UNCHANGED <<mode, queue, appenders, at>>
    BY <1>1, TickFacts
  <1>3. mode = "async" => status = IF cur[t].old THEN "in_recovering" ELSE "recovered"
    <2> SUFFICES ASSUME mode = "async"
                 PROVE  status = IF cur[t].old THEN "in_recovering" ELSE "recovered"
      OBVIOUS
    <2>1. Old(cur[t]) = cur[t].old
      BY DEF Old
    <2>2. IF cur[t].old THEN status # "not_started" ELSE status = "recovered"
      BY <2>1 DEF same_phase
    <2>3. status = "recovered" => ~cur[t].old
      BY <1>1 DEF ReaderInv, Hands, Work
    <2>4. status \in {"not_started", "in_recovering", "recovered"}
      BY DEF ReaderInv, Outputs
    <2> QED BY <2>2, <2>3, <2>4
  <1>4. Hands' /\ Walks'
    BY <1>1, <1>3, TickHands
  <1>5. Outputs'
    <2>1. \A i \in 1..Len(out) : \A j \in 1..Len(out[i]) : out[i][j].ts <= clock'
      <3> SUFFICES ASSUME NEW i \in 1..Len(out), NEW j \in 1..Len(out[i]) PROVE out[i][j].ts <= clock'
        OBVIOUS
      <3>1. out[i] \in Seq(Marks) /\ out[i][j].ts <= clock /\ clock \in Nat
        BY DEF ReaderInv, Outputs
      <3>2. out[i][j] \in Marks
        BY <3>1
      <3>3. out[i][j].ts \in Nat
        BY <3>2 DEF Marks
      <3> QED BY <1>2, <3>1, <3>3
    <2> QED BY <1>1, <1>2, <2>1 DEF ReaderInv, Outputs
  <1> QED BY <1>4, <1>5 DEF ReaderInv

LEMMA ToldTimes ==
  ASSUME NEW m, NEW o \in Seq(Seq(Marks)), NEW ids, NEW x \in Marks, NEW p, Told(m, o, ids, x, p),
         NEW c \in Nat, NEW d \in Nat, c <= d, x.ts <= d,
         \A i \in 1..Len(o) : \A j \in 1..Len(o[i]) : o[i][j].ts <= c
  PROVE  \A i \in 1..Len(p) : \A j \in 1..Len(p[i]) : p[i][j].ts <= d
  <1> SUFFICES ASSUME NEW i \in 1..Len(p), NEW j \in 1..Len(p[i]) PROVE p[i][j].ts <= d
    OBVIOUS
  <1>1. i \in 1..Len(o) /\ (p[i][j] = x \/ \E k \in 1..Len(o[i]) : p[i][j] = o[i][k])
    BY DEF Told
  <1>2. ASSUME NEW k \in 1..Len(o[i]) PROVE o[i][k].ts <= d
    <2>1. o[i] \in Seq(Marks)
      BY <1>1
    <2>2. o[i][k] \in Marks
      BY <2>1
    <2>3. o[i][k].ts \in Nat /\ o[i][k].ts <= c
      BY <1>1, <2>2 DEF Marks
    <2> QED BY <2>3
  <1> QED BY <1>1, <1>2

LEMMA HookMarks ==
  \A k \in {"begin", "end", "new"} : Event(k) \in Marks /\ Event(k).kind = k /\ Event(k).ts = 0
  BY DEF Event, Marks

LEMMA ReadNewBegin ==
  ASSUME IInv, ReaderInv, NEW t \in Threads, new_begin(t)
  PROVE  ReaderInv'
  <1> DEFINE A == Ids(appenders)
             R == recoverers
             mid == Tell(out, R, Event("end"))
  <1>1. /\ pc[t] = "chunk" /\ Tick(t) /\ ~Old(cur[t]) /\ status' = "recovered" /\ recoverers' = {}
        /\ out' = Tell(mid, A, Event("new"))
    BY DEF new_begin
  <1>2. clock' \in Nat /\ clock <= clock' /\ UNCHANGED <<mode, queue, appenders, at>>
    BY <1>1, TickFacts
  <1>3. Hands' /\ Walks'
    <2>1. mode = "async" => ~cur[t].old
      BY <1>1 DEF Old
    <2> QED BY <1>1, <2>1, TickHands
  <1>4. /\ mode \in {"async", "sync"} /\ clock \in Nat /\ out \in Seq(Seq(Marks))
        /\ R \subseteq A /\ A \subseteq 1..Len(out)
        /\ \A i \in A : OpenNow(out[i]) <=> i \in R
        /\ \A i \in 1..Len(out) : Readable(mode, out[i])
        /\ \A i \in 1..Len(out) : \A j \in 1..Len(out[i]) : out[i][j].ts <= clock
    BY DEF ReaderInv, Outputs
  <1> HIDE DEF A, R, mid
  <1>5. Told(mode, out, R, Event("end"), mid)
    <2>1. \A i \in 1..Len(out) : i \in R => Suits(mode, out[i], Event("end"))
      BY <1>4, HookMarks DEF Suits
    <2>2. Event("end") \in Marks
      BY HookMarks
    <2>3. mid = Tell(out, R, Event("end"))
      BY DEF mid
    <2> QED BY <1>4, <2>1, <2>2, <2>3, ToldWell
  <1>6. /\ mid \in Seq(Seq(Marks)) /\ Len(mid) = Len(out)
        /\ \A i \in 1..Len(mid) : Readable(mode, mid[i])
        /\ \A i \in A : ~OpenNow(mid[i])
    <2>1. \A i \in 1..Len(out) : OpenNow(mid[i]) <=> IF i \in R THEN After("end", OpenNow(out[i]))
                                                     ELSE OpenNow(out[i])
      BY <1>5, HookMarks DEF Told
    <2>2. ~After("end", TRUE) /\ ~After("end", FALSE)
      BY DEF After
    <2>3. \A i \in A : ~OpenNow(mid[i])
      BY <1>4, <2>1, <2>2 DEF After
    <2> QED BY <1>5, <2>3 DEF Told
  <1>7. \A i \in 1..Len(mid) : \A j \in 1..Len(mid[i]) : mid[i][j].ts <= clock
    <2>1. Event("end") \in Marks /\ Event("end").ts <= clock /\ clock <= clock
      BY <1>4, HookMarks
    <2> QED BY <1>4, <1>5, <2>1, ToldTimes, ZenonT(30)
  <1>8. Told(mode, mid, A, Event("new"), out')
    <2>1. \A i \in 1..Len(mid) : i \in A => Suits(mode, mid[i], Event("new"))
      BY HookMarks DEF Suits
    <2>2. Event("new") \in Marks
      BY HookMarks
    <2> QED BY <1>1, <1>6, <2>1, <2>2, ToldWell
  <1>9. /\ out' \in Seq(Seq(Marks)) /\ Len(out') = Len(out)
        /\ \A i \in 1..Len(out') : Readable(mode, out'[i])
        /\ \A i \in A : ~OpenNow(out'[i])
    <2>1. \A i \in 1..Len(mid) : OpenNow(out'[i]) <=> IF i \in A THEN After("new", OpenNow(mid[i]))
                                                      ELSE OpenNow(mid[i])
      BY <1>8, HookMarks DEF Told
    <2>2. \A i \in A : ~OpenNow(out'[i])
      BY <1>4, <1>6, <2>1 DEF After
    <2> QED BY <1>6, <1>8, <2>2 DEF Told
  <1>10. \A i \in 1..Len(out') : \A j \in 1..Len(out'[i]) : out'[i][j].ts <= clock'
    <2>1. Event("new") \in Marks /\ Event("new").ts <= clock'
      BY <1>2, HookMarks
    <2> QED BY <1>2, <1>4, <1>6, <1>7, <1>8, <2>1, ToldTimes, ZenonT(30)
  <1>11. Outputs'
    BY <1>1, <1>2, <1>4, <1>9, <1>10 DEF Outputs, A
  <1> QED BY <1>3, <1>11 DEF ReaderInv

LEMMA ReadRecoveryBegin ==
  ASSUME IInv, ReaderInv, NEW t \in Threads, recovery_begin(t)
  PROVE  ReaderInv'
  <1> DEFINE A == Ids(appenders)
             R == recoverers
  <1>1. pc[t] = "chunk" /\ Tick(t) /\ Old(cur[t]) /\ status' = "in_recovering"
    BY DEF recovery_begin
  <1>2. PICK N : N \subseteq A \ R /\ recoverers' = R \cup N /\ out' = Tell(out, N, Event("begin"))
    BY DEF recovery_begin
  <1>3. clock' \in Nat /\ clock <= clock' /\ UNCHANGED <<mode, queue, appenders, at>>
    BY <1>1, TickFacts
  <1>4. Hands' /\ Walks'
    <2>1. mode = "async" => cur[t].old
      BY <1>1 DEF Old
    <2> QED BY <1>1, <2>1, TickHands
  <1>5. /\ mode \in {"async", "sync"} /\ clock \in Nat /\ out \in Seq(Seq(Marks))
        /\ R \subseteq A /\ A \subseteq 1..Len(out)
        /\ \A i \in A : OpenNow(out[i]) <=> i \in R
        /\ \A i \in 1..Len(out) : Readable(mode, out[i])
        /\ \A i \in 1..Len(out) : \A j \in 1..Len(out[i]) : out[i][j].ts <= clock
    BY DEF ReaderInv, Outputs
  <1> HIDE DEF A, R
  <1>6. Told(mode, out, N, Event("begin"), out')
    <2>1. \A i \in 1..Len(out) : i \in N => Suits(mode, out[i], Event("begin"))
      BY <1>2, <1>5, HookMarks DEF Suits
    <2>2. Event("begin") \in Marks
      BY HookMarks
    <2> QED BY <1>2, <1>5, <2>1, <2>2, ToldWell
  <1>7. /\ out' \in Seq(Seq(Marks)) /\ Len(out') = Len(out)
        /\ \A i \in 1..Len(out') : Readable(mode, out'[i])
        /\ \A i \in A : OpenNow(out'[i]) <=> i \in R \cup N
    <2>1. \A i \in 1..Len(out) : OpenNow(out'[i]) <=> IF i \in N THEN After("begin", OpenNow(out[i]))
                                                      ELSE OpenNow(out[i])
      BY <1>6, HookMarks DEF Told
    <2>2. \A i \in A : OpenNow(out'[i]) <=> i \in R \cup N
      BY <1>5, <2>1 DEF After
    <2> QED BY <1>6, <2>2 DEF Told
  <1>8. \A i \in 1..Len(out') : \A j \in 1..Len(out'[i]) : out'[i][j].ts <= clock'
    <2>1. Event("begin") \in Marks /\ Event("begin").ts <= clock'
      BY <1>3, HookMarks
    <2> QED BY <1>3, <1>5, <1>6, <2>1, ToldTimes, ZenonT(30)
  <1>9. Outputs'
    BY <1>1, <1>2, <1>3, <1>5, <1>7, <1>8 DEF Outputs, A
  <1> QED BY <1>4, <1>9 DEF ReaderInv

LEMMA ReadDeliver ==
  ASSUME IInv, ReaderInv, NEW t \in Threads, deliver(t)
  PROVE  ReaderInv'
  <1> USE DEF config_vars, recovery_vars, lock_vars, answer_vars
  <1> DEFINE A == Ids(appenders)
             R == recoverers
             a == appenders[at[t]]
             e == cur[t]
             x == [kind |-> IF e.old THEN "old" ELSE "entry", id |-> e.id, ts |-> e.ts]
  <1>1. /\ pc[t] = "deliver" /\ at[t] <= Len(appenders)
        /\ out' = IF Accepts(a, e) /\ (Recovered(t) => a.id \in R) THEN Tell(out, {a.id}, x) ELSE out
        /\ at' = [at EXCEPT ![t] = @ + 1]
        /\ UNCHANGED <<mode, queue, appenders, status, recoverers, clock, pc, cur>>
    BY DEF deliver
  <1>2. Hands'
    <2>1. pc[t] \in Work \ {"done"}
      BY <1>1 DEF Work
    <2> QED BY <1>1, <2>1, HandsStay DEF ReaderInv
  <1>3. Walks'
    BY <1>1 DEF ReaderInv, Walks
  <1>4. CASE ~(Accepts(a, e) /\ (Recovered(t) => a.id \in R))
    <2>1. out' = out
      BY <1>1, <1>4
    <2>2. Outputs'
      BY <1>1, <2>1, SameOutputs DEF ReaderInv
    <2> QED BY <1>2, <1>3, <2>2 DEF ReaderInv
  <1>5. CASE Recovered(t) => a.id \in R
    <2>1. /\ mode \in {"async", "sync"} /\ clock \in Nat /\ out \in Seq(Seq(Marks))
          /\ R \subseteq A /\ A \subseteq 1..Len(out)
          /\ \A i \in A : OpenNow(out[i]) <=> i \in R
          /\ \A i \in 1..Len(out) : Readable(mode, out[i])
          /\ \A i \in 1..Len(out) : \A j \in 1..Len(out[i]) : out[i][j].ts <= clock
          /\ status # "in_recovering" => R = {}
      BY DEF ReaderInv, Outputs
    <2>2. a.id \in A
      <3>1. at[t] \in Nat /\ at[t] # 0 /\ Len(appenders) \in Nat
        BY <1>1, SeqIsFcn DEF ReaderInv, Walks, IInv, FlushInv, AppendersKnown
      <3>2. at[t] \in 1..Len(appenders)
        BY <1>1, <3>1
      <3> QED BY <3>2 DEF Ids
    <2>3. e \in Entries /\ e.ts = clock
      BY <1>1 DEF IInv, FlushInv, EntriesKnown, Work, ReaderInv, Hands
    <2>4. x \in Marks /\ x.ts = clock /\ x.kind = IF e.old THEN "old" ELSE "entry"
      BY <2>3 DEF Entries, Marks
    <2>5. Suits(mode, out[a.id], x)
      <3>1. CASE e.old
        <4>1. mode = "async" /\ status = "in_recovering"
          BY <1>1, <2>1, <3>1 DEF ReaderInv, Hands, Work
        <4>2. a.id \in R
          BY <1>5, <3>1, <4>1 DEF Recovered, Old
        <4>3. OpenNow(out[a.id])
          BY <2>1, <2>2, <4>2
        <4>4. x.kind = "old"
          BY <2>4, <3>1
        <4> HIDE DEF x
        <4> QED BY <2>1, <2>2, <2>4, <4>3, <4>4 DEF Suits
      <3>2. CASE ~e.old
        <4>1. mode = "async" => ~OpenNow(out[a.id])
          <5>1. mode = "async" => status = "recovered"
            BY <1>1, <3>2 DEF ReaderInv, Hands
          <5> QED BY <2>1, <2>2, <5>1
        <4>2. x.kind = "entry"
          BY <2>4, <3>2
        <4> HIDE DEF x
        <4> QED BY <2>1, <2>2, <2>4, <4>1, <4>2 DEF Suits
      <3> QED BY <3>1, <3>2
    <2> HIDE DEF x, a, A, R, e
    <2>6. CASE out' = Tell(out, {a.id}, x)
      <3> DEFINE one == {a.id}
      <3>1. Told(mode, out, one, x, out')
        <4>1. \A i \in 1..Len(out) : i \in one => Suits(mode, out[i], x)
          BY <2>5
        <4> QED BY <2>1, <2>4, <2>6, <4>1, ToldWell
      <3> HIDE DEF one
      <3>2. \A i \in 1..Len(out') : \A j \in 1..Len(out'[i]) : out'[i][j].ts <= clock
        <4>1. x \in Marks /\ x.ts <= clock /\ clock <= clock
          BY <2>1, <2>4
        <4>2. /\ clock \in Nat /\ out \in Seq(Seq(Marks))
              /\ \A i \in 1..Len(out) : \A j \in 1..Len(out[i]) : out[i][j].ts <= clock
          BY <2>1
        <4> QED BY <3>1, <4>1, <4>2, ToldTimes, ZenonT(30)
      <3>3. /\ out' \in Seq(Seq(Marks)) /\ Len(out') = Len(out)
            /\ \A i \in 1..Len(out') : Readable(mode, out'[i])
            /\ \A i \in A : OpenNow(out'[i]) <=> OpenNow(out[i])
        <4>1. \A i \in 1..Len(out) : OpenNow(out'[i]) <=> OpenNow(out[i])
          <5>1. \A b : After(x.kind, b) <=> b
            BY <2>4 DEF After
          <5> QED BY <3>1, <5>1 DEF Told
        <4> QED BY <2>1, <3>1, <4>1 DEF Told
      <3>4. Outputs'
        BY <1>1, <2>1, <3>2, <3>3 DEF ReaderInv, Outputs, A, R
      <3> QED BY <1>2, <1>3, <3>4 DEF ReaderInv
    <2> QED BY <1>1, <1>4, <2>6 DEF x, a, R, e
  <1> QED BY <1>4, <1>5

\* The appenders after reset_config: some of the old ones and n new ones.
Relisted(S, n) ==
  /\ S \subseteq Ids(appenders) /\ Ids(appenders') = S \cup (Len(out) + 1..Len(out) + n)
  /\ out' = out \o [i \in 1..n |-> <<>>]
  /\ recoverers' = IF status = "in_recovering" THEN recoverers \cap S ELSE recoverers

LEMMA ResetIds ==
  ASSUME IInv, NEW t \in Threads, reset_appenders(t)
  PROVE  \E S : \E n \in Nat : Relisted(S, n)
  <1> DEFINE c == cur[t]
             stay == Survivors(c)
             new == Created(c, stay)
             fresh == {n \in DOMAIN c.apps : /\ n \notin {stay[i].name : i \in 1..Len(stay)}
                                             /\ init_ok(c.apps[n])}
             names == SetToSeq(fresh)
             K == {set_basic_configs(a, c.apps[a.name]) : a \in Range(appenders)}
  <1>0. c \in Configs /\ AppendersKnown /\ c.apps # None
    BY DEF IInv, FlushInv, EntriesKnown, reset_appenders, Resetting
  <1>1. /\ appenders' = stay \o new /\ out' = out \o [i \in 1..Len(new) |-> <<>>]
        /\ recoverers' = IF status = "in_recovering" THEN recoverers \cap Ids(stay) ELSE recoverers
    BY DEF reset_appenders
  <1>2. IsFiniteSet(fresh)
    BY <1>0, InstanceConstants, FS_Subset
  <1>3. Len(names) \in Nat
    BY <1>2, NamesInOrder
  <1>4. new = [i \in 1..Len(names) |-> init_appender(names[i], c.apps[names[i]], Len(out) + i)]
    BY DEF Created
  <1>5. new \in Seq(Range(new)) /\ Len(new) = Len(names)
    <2>1. new = [i \in 1..Len(names) |-> new[i]]
      BY <1>4
    <2> HIDE DEF new
    <2> QED BY <1>3, <2>1, SeqOfFcn
  <1>6. \A i \in 1..Len(new) : new[i].id = Len(out) + i
    <2> HIDE DEF names, c
    <2> QED BY <1>4, <1>5, NewAppender
  <1>7. stay \in Seq(K)
    BY <1>0, SurvivorsKnown
  <1>8. \A y \in K : y.id \in Ids(appenders)
    <2> SUFFICES ASSUME NEW y \in K PROVE y.id \in Ids(appenders)
      OBVIOUS
    <2>1. PICK a \in Range(appenders) : y = set_basic_configs(a, c.apps[a.name])
      OBVIOUS
    <2> HIDE DEF K, c
    <2>2. y.id = a.id
      BY <1>0, <2>1, BasicConfigs DEF AppendersKnown
    <2>3. \E i \in 1..Len(appenders) : a = appenders[i]
      BY <1>0, SeqIsFcn DEF AppendersKnown
    <2> QED BY <2>2, <2>3 DEF Ids
  <1> HIDE DEF stay, new, names, c, K
  <1>9. Len(stay) \in Nat /\ Len(new) \in Nat /\ Len(out) \in Nat /\ \A i \in 1..Len(stay) : stay[i] \in K
    BY <1>0, <1>3, <1>5, <1>7, SeqIsFcn DEF AppendersKnown
  <1>10. Ids(stay) \subseteq Ids(appenders)
    <2>1. \A i \in 1..Len(stay) : stay[i].id \in Ids(appenders)
      BY <1>8, <1>9
    <2> HIDE DEF stay
    <2> QED BY <2>1 DEF Ids
  <1>11. /\ Len(appenders') = Len(stay) + Len(new)
         /\ \A i \in 1..Len(stay) + Len(new) :
               appenders'[i] = IF i <= Len(stay) THEN stay[i] ELSE new[i - Len(stay)]
    <2>1. new \in Seq(Range(new)) /\ appenders' = stay \o new
      BY <1>1, <1>5
    <2> QED BY <1>7, <2>1, JoinedPlaces
  <1>12. Ids(appenders') = Ids(stay) \cup (Len(out) + 1..Len(out) + Len(new))
    <2>1. ASSUME NEW i \in 1..Len(stay) + Len(new)
          PROVE  appenders'[i].id \in Ids(stay) \cup (Len(out) + 1..Len(out) + Len(new))
      <3>1. CASE i <= Len(stay)
        <4>1. i \in 1..Len(stay) /\ appenders'[i] = stay[i]
          BY <1>9, <1>11, <3>1
        <4> QED BY <4>1 DEF Ids
      <3>2. CASE ~(i <= Len(stay))
        <4>1. i - Len(stay) \in 1..Len(new) /\ appenders'[i] = new[i - Len(stay)]
          BY <1>9, <1>11, <3>2
        <4>2. appenders'[i].id = Len(out) + (i - Len(stay))
          BY <1>6, <4>1
        <4> QED BY <1>9, <4>1, <4>2
      <3> QED BY <3>1, <3>2
    <2>2. ASSUME NEW i \in 1..Len(stay) PROVE stay[i].id \in Ids(appenders')
      <3>1. i \in 1..Len(stay) + Len(new) /\ appenders'[i] = stay[i]
        BY <1>9, <1>11
      <3> QED BY <1>11, <3>1 DEF Ids
    <2>3. ASSUME NEW k \in Len(out) + 1..Len(out) + Len(new) PROVE k \in Ids(appenders')
      <3> DEFINE j == k - Len(out)
                 i == Len(stay) + j
      <3>1. j \in 1..Len(new) /\ i \in 1..Len(stay) + Len(new) /\ ~(i <= Len(stay)) /\ i - Len(stay) = j
        BY <1>9
      <3>2. new[j].id = k
        <4>1. new[j].id = Len(out) + j
          BY <1>6, <3>1
        <4> QED BY <1>9, <4>1
      <3> HIDE DEF i, j
      <3>3. appenders'[i] = new[j]
        BY <1>11, <3>1
      <3> QED BY <1>11, <3>1, <3>2, <3>3 DEF Ids
    <2>4. Ids(appenders') \subseteq Ids(stay) \cup (Len(out) + 1..Len(out) + Len(new))
      BY <1>11, <2>1 DEF Ids
    <2>5. Ids(stay) \subseteq Ids(appenders')
      <3>1. \A y \in Ids(stay) : \E i \in 1..Len(stay) : y = stay[i].id
        BY DEF Ids
      <3> QED BY <2>2, <3>1
    <2> QED BY <2>3, <2>4, <2>5
  <1>13. Relisted(Ids(stay), Len(new))
    BY <1>1, <1>10, <1>12 DEF Relisted
  <1> QED BY <1>9, <1>13

LEMMA ReadReset ==
  ASSUME IInv, ReaderInv, NEW t \in Threads, reset_appenders(t)
  PROVE  ReaderInv'
  <1>0. pc \in [Threads -> Labels]
    BY DEF IInv, LocksInv, PlacesKnown
  <1>1. /\ pc'[t] = "reset_mask" /\ \A u \in Threads \ {t} : pc'[u] = pc[u]
        /\ UNCHANGED <<mode, status, clock, queue, cur, at>>
    BY <1>0 DEF reset_appenders, Goto
  <1>2. Hands'
    BY <1>1, HandsStay DEF ReaderInv, Work
  <1>3. Walks'
    BY <1>1, SameWalks DEF ReaderInv
  <1>4. PICK S : \E n \in Nat : Relisted(S, n)
    BY ResetIds
  <1>5. PICK n \in Nat : Relisted(S, n)
    BY <1>4
  <1> DEFINE quiet == [i \in 1..n |-> <<>>]
  <1>6. /\ mode \in {"async", "sync"} /\ clock \in Nat /\ out \in Seq(Seq(Marks))
        /\ recoverers \subseteq Ids(appenders) /\ Ids(appenders) \subseteq 1..Len(out)
        /\ \A i \in Ids(appenders) : OpenNow(out[i]) <=> i \in recoverers
        /\ \A i \in 1..Len(out) : Readable(mode, out[i])
        /\ \A i \in 1..Len(out) : \A j \in 1..Len(out[i]) : out[i][j].ts <= clock
        /\ status \in {"not_started", "in_recovering", "recovered"}
        /\ status # "in_recovering" => recoverers = {}
    BY DEF ReaderInv, Outputs
  <1>7. quiet \in Seq({<<>>}) /\ Len(quiet) = n /\ out' = out \o quiet
    BY <1>5, Filled DEF Relisted
  <1>8. \A i \in 1..n : quiet[i] = <<>>
    OBVIOUS
  <1> HIDE DEF quiet
  <1>9. /\ Len(out') = Len(out) + n /\ out' \in Seq(Seq(Marks) \cup {<<>>})
        /\ \A i \in 1..Len(out) + n : out'[i] = IF i <= Len(out) THEN out[i] ELSE quiet[i - Len(out)]
    <2>1. out \in Seq(Seq(Marks))
      BY <1>6
    <2>2. quiet \in Seq({<<>>}) /\ out' = out \o quiet
      BY <1>7
    <2>3. /\ Len(out') = Len(out) + Len(quiet) /\ out' \in Seq(Seq(Marks) \cup {<<>>})
          /\ \A i \in 1..Len(out) + Len(quiet) :
                out'[i] = IF i <= Len(out) THEN out[i] ELSE quiet[i - Len(out)]
      BY <2>1, <2>2, JoinedPlaces
    <2> QED BY <1>7, <2>3
  <1>10. Len(out) \in Nat /\ <<>> \in Seq(Marks)
    BY <1>6
  <1>11. out' \in Seq(Seq(Marks))
    <2>1. Seq(Marks) \cup {<<>>} = Seq(Marks)
      BY <1>10
    <2> QED BY <1>9, <2>1
  <1>12. /\ \A i \in 1..Len(out) : out'[i] = out[i]
         /\ \A i \in Len(out) + 1..Len(out) + n : out'[i] = <<>>
    <2>1. \A i \in 1..Len(out) : out'[i] = out[i]
      BY <1>9, <1>10
    <2>2. ASSUME NEW i \in Len(out) + 1..Len(out) + n PROVE out'[i] = <<>>
      <3>1. i \in 1..Len(out) + n /\ ~(i <= Len(out)) /\ i - Len(out) \in 1..n
        BY <1>10
      <3> QED BY <1>8, <1>9, <3>1
    <2> QED BY <2>1, <2>2
  <1>13. ~OpenNow(<<>>) /\ Readable(mode, <<>>)
    BY DEF OpenNow, Opened, Readable
  <1>14. \A i \in 1..Len(out') : /\ Readable(mode, out'[i])
                                 /\ \A j \in 1..Len(out'[i]) : out'[i][j].ts <= clock
    <2> SUFFICES ASSUME NEW i \in 1..Len(out) + n
                 PROVE  /\ Readable(mode, out'[i])
                        /\ \A j \in 1..Len(out'[i]) : out'[i][j].ts <= clock
      BY <1>9
    <2>1. i \in 1..Len(out) \/ i \in Len(out) + 1..Len(out) + n
      BY <1>10
    <2>2. CASE i \in 1..Len(out)
      BY <1>6, <1>12, <2>2
    <2>3. CASE i \in Len(out) + 1..Len(out) + n
      <3>1. out'[i] = <<>> /\ Len(<<>>) = 0
        BY <1>12, <2>3
      <3> QED BY <1>13, <3>1
    <2> QED BY <2>1, <2>2, <2>3
  <1>15. /\ S \subseteq Ids(appenders) /\ Ids(appenders') = S \cup (Len(out) + 1..Len(out) + n)
         /\ recoverers' = recoverers \cap S
    BY <1>5, <1>6 DEF Relisted
  <1>16. Ids(appenders') \subseteq 1..Len(out') /\ recoverers' \subseteq Ids(appenders')
    <2>1. \A i \in 1..Len(out) : i \in 1..Len(out) + n
      BY <1>10
    <2>2. \A i \in Len(out) + 1..Len(out) + n : i \in 1..Len(out) + n
      BY <1>10
    <2> QED BY <1>6, <1>9, <1>15, <2>1, <2>2
  <1>17. ASSUME NEW i \in Ids(appenders') PROVE OpenNow(out'[i]) <=> i \in recoverers'
    <2>1. CASE i \in S
      <3>1. i \in Ids(appenders) /\ i \in 1..Len(out) /\ out'[i] = out[i]
        BY <1>6, <1>12, <1>15, <2>1
      <3> QED BY <1>6, <1>15, <2>1, <3>1
    <2>2. CASE i \in Len(out) + 1..Len(out) + n
      <3>1. out'[i] = <<>> /\ i \notin 1..Len(out)
        BY <1>10, <1>12, <2>2
      <3>2. i \notin recoverers'
        BY <1>6, <1>15, <3>1
      <3> QED BY <1>13, <3>1, <3>2
    <2> QED BY <1>15, <2>1, <2>2
  <1>18. status' # "in_recovering" => recoverers' = {}
    BY <1>1, <1>6, <1>15
  <1>19. Outputs'
    BY <1>1, <1>6, <1>11, <1>14, <1>16, <1>17, <1>18 DEF Outputs
  <1> QED BY <1>2, <1>3, <1>19 DEF ReaderInv

LEMMA ReadInit == Init => ReaderInv
  <1> SUFFICES ASSUME Init PROVE ReaderInv
    OBVIOUS
  <1>1. IInv
    BY InitIInv
  <1>2. mode \in {"async", "sync"} /\ clock = 0 /\ status = "not_started" /\ recoverers = {}
    BY InstanceConstants DEF Init
  <1>3. Len(appenders) \in Nat /\ out = [i \in 1..Len(appenders) |-> <<>>]
    BY <1>1, SeqIsFcn DEF Init, IInv, FlushInv, AppendersKnown
  <1>4. out \in Seq(Seq(Marks)) /\ Len(out) = Len(appenders) /\ \A i \in 1..Len(out) : out[i] = <<>>
    BY <1>3
  <1>5. Ids(appenders) \subseteq 1..Len(out)
    <2>1. \A i \in 1..Len(appenders) : appenders[i].id \in 1..Len(out)
      BY <1>1, SeqIsFcn DEF IInv, FlushInv, AppendersKnown
    <2> QED BY <2>1 DEF Ids
  <1>6. ~OpenNow(<<>>) /\ Readable(mode, <<>>) /\ Len(<<>>) = 0
    BY DEF OpenNow, Opened, Readable
  <1>7. Outputs
    BY <1>2, <1>4, <1>5, <1>6 DEF Outputs
  <1>8. PICK n \in 0..MaxOld : \E v \in [1..n -> BOOLEAN] : queue = [i \in 1..n |-> OldEntry(i, v[i])]
    BY DEF Init
  <1>9. PICK v \in [1..n -> BOOLEAN] : queue = [i \in 1..n |-> OldEntry(i, v[i])]
    BY <1>8
  <1>10. \A i \in 1..Len(queue) : queue[i].old
    <2>1. n \in Nat
      BY InstanceConstants
    <2>2. Len(queue) = n /\ \A i \in 1..n : queue[i] = OldEntry(i, v[i])
      BY <1>9, <2>1
    <2> QED BY <2>2 DEF OldEntry
  <1>11. \A t \in Threads : pc[t] = "idle"
    BY DEF Init
  <1>12. Hands
    BY <1>2, <1>10, <1>11 DEF Hands, Work
  <1>13. Walks
    BY <1>11 DEF Init, Walks
  <1> QED BY <1>7, <1>12, <1>13 DEF ReaderInv

LEMMA ReadNothing ==
  ASSUME IInv, ReaderInv, UNCHANGED vars
  PROVE  ReaderInv'
  BY DEF vars, ReaderInv, Outputs, Hands, Walks

LEMMA ReadNext == IInv /\ ReaderInv /\ [Next]_vars => ReaderInv'
  <1> SUFFICES ASSUME IInv, ReaderInv, [Next]_vars PROVE ReaderInv'
    OBVIOUS
  <1>0. CASE UNCHANGED vars \/ rest
    BY <1>0, ReadNothing DEF rest
  <1>1. CASE process_by_worker
    BY <1>1, ReadProcess
  <1>2. CASE \E t \in Threads :
               \/ do_log(t) \/ force_flush(t) \/ flush_lock(t) \/ process_end(t) \/ process_unlock(t)
               \/ done(t) \/ drop_corrupted(t) \/ snapshot_enabled(t) \/ write_data(t)
               \/ reset_config(t) \/ reset_invalid(t) \/ reset_mask(t) \/ reset_snapshot(t)
               \/ take_snapshot_string(t) \/ release_snapshot_string(t)
    BY <1>2, ReadQuiet
  <1>3. CASE \E t \in Threads :
               \/ commit(t) \/ sync_process(t) \/ read_chunk(t) \/ new_begin(t) \/ recovery_begin(t)
               \/ same_phase(t) \/ filter(t) \/ deliver(t) \/ reset_appenders(t) \/ set_appender_enable(t)
    BY <1>3, ReadCommit, ReadSync, ReadChunk, ReadNewBegin, ReadRecoveryBegin, ReadSamePhase,
       ReadFilter, ReadDeliver, ReadReset, ReadEnable
  <1> QED BY <1>0, <1>1, <1>2, <1>3 DEF Next

(* For any number of threads, entries, configurations and calls: an entry  *)
(* of an earlier process lies between a start and an end marker, markers    *)
(* alternate, times never go back, no entry of this process is taken for a  *)
(* recovered one in async mode, and recovery_appenders_ names living        *)
(* appenders only (process_log_chunk, on_recovery_begin, reset_config).     *)
THEOREM OutputAlwaysReadable == Spec => []OutputReadable
  <1>1. IInv /\ ReaderInv => OutputReadable
    <2> SUFFICES ASSUME ReaderInv PROVE OutputReadable
      OBVIOUS
    <2>1. recoverers \subseteq Ids(appenders) /\ out \in Seq(Seq(Marks))
      BY DEF ReaderInv, Outputs
    <2>2. \A o \in Range(out) : Readable(mode, o)
      BY <2>1 DEF ReaderInv, Outputs, Range
    <2> QED BY <2>1, <2>2 DEF OutputReadable, Readable
  <1> QED BY <1>1, InitIInv, Inductive, ReadInit, ReadNext, PTL DEF Spec

-----------------------------------------------------------------------------
(* The snapshot.  SnapshotIsTail is not inductive: that a text is the end  *)
(* of what was kept follows from where the entries of the ring stand in    *)
(* kept, and from the text before standing right in front of them as long  *)
(* as snapshot_text_continuous_ is set.                                    *)

\* The sequence x is the end of y.
Ends(S, x, y) ==
  /\ x \in Seq(S) /\ y \in Seq(S) /\ Len(x) <= Len(y)
  /\ \A i \in 1..Len(x) : x[i] = y[Len(y) - Len(x) + i]

Letters == Nat \X {1, 2}

\* What was kept before the entries that are in the ring q now.
Before(k, q) == SubSeq(k, 1, Len(k) - Len(q))

\* Entries in a ring fit into it.
RingFields == {"cap", "wr", "q"}
RingOk(r) ==
  /\ DOMAIN r = RingFields /\ r.cap \in Nat
  /\ r.q \in Seq(Range(r.q))
  /\ \A i \in 1..Len(r.q) : r.q[i].e \in Entries /\ ~(r.q[i].e.size > r.cap)

SnapFields == {"on", "size", "ring", "text", "index", "continuous", "live", "levels", "cats", "lock"}
SnapOk(s) ==
  /\ DOMAIN s = SnapFields /\ s.on \in BOOLEAN /\ s.size \in Nat
  /\ RingOk(s.ring)
  /\ DOMAIN s.text = {1, 2} /\ s.text[1] \in Seq(Letters) /\ s.text[2] \in Seq(Letters)
  /\ s.index \in {1, 2} /\ s.continuous \in BOOLEAN

\* The ring holds the end of what was kept, and an uninterrupted text the end
\* of what was kept before.
TextFits(s, k) ==
  /\ SnapOk(s)
  /\ Ends(Nat, IdsOf(s.ring.q), k)
  /\ s.continuous => s.on /\ Ends(Letters, s.text[s.index], Chars(Before(k, s.ring.q)))

\* Whoever holds a text has the lock of the snapshot.
TextHeld ==
  \A t \in Threads : pc[t] = "taken" =>
    snap.lock = t /\ Ends(Letters, snap.text[snap.index], Chars(kept))

SnapInv == TextFits(snap, kept) /\ TextHeld

LEMMA SameSeq ==
  ASSUME NEW S, NEW x \in Seq(S), NEW y \in Seq(S), Len(x) = Len(y),
         \A i \in 1..Len(x) : x[i] = y[i]
  PROVE  x = y
  OBVIOUS

LEMMA EndsMeansSuffix ==
  ASSUME NEW S, NEW x, NEW y, Ends(S, x, y)
  PROVE  IsSuffix(x, y)
  <1>1. /\ Len(x) \in Nat /\ Len(y) \in Nat /\ Len(x) <= Len(y)
        /\ \A i \in 1..Len(x) : x[i] = y[Len(y) - Len(x) + i]
    BY DEF Ends
  <1> DEFINE m == Len(x)  n == Len(y)  a == Reverse(x)  b == Reverse(y)
  <1>2. x \in Seq(S) /\ y \in Seq(S)
    BY DEF Ends
  <1>3. \A i \in 1..m : x[m - i + 1] \in S
    BY <1>1, <1>2
  <1>4. \A i \in 1..n : y[n - i + 1] \in S
    BY <1>1, <1>2
  <1>5. a \in Seq(S) /\ Len(a) = m /\ \A i \in 1..m : a[i] = x[m - i + 1]
    BY <1>1, <1>3 DEF Reverse
  <1>6. b \in Seq(S) /\ Len(b) = n /\ \A i \in 1..n : b[i] = y[n - i + 1]
    BY <1>1, <1>4 DEF Reverse
  <1>7. \A i \in 1..m : a[i] = b[i]
    <2> SUFFICES ASSUME NEW i \in 1..m PROVE a[i] = b[i]
      OBVIOUS
    <2>1. m - i + 1 \in 1..m /\ n - m + (m - i + 1) = n - i + 1 /\ i \in 1..n
      BY <1>1
    <2>2. x[m - i + 1] = y[n - i + 1]
      BY <1>1, <2>1
    <2> QED BY <1>5, <1>6, <2>1, <2>2
  <1> HIDE DEF a, b, m, n
  <1>8. m \in Nat /\ n \in Nat /\ m <= n
    BY <1>1 DEF m, n
  <1>9. SubSeq(a, 1, m) \in Seq(S) /\ Len(SubSeq(a, 1, m)) = m /\ \A i \in 1..m : SubSeq(a, 1, m)[i] = a[i]
    BY <1>5, <1>8
  <1>10. SubSeq(b, 1, m) \in Seq(S) /\ Len(SubSeq(b, 1, m)) = m /\ \A i \in 1..m : SubSeq(b, 1, m)[i] = b[i]
    BY <1>6, <1>8
  <1>11. SubSeq(a, 1, m) = SubSeq(b, 1, m)
    BY <1>7, <1>9, <1>10, SameSeq
  <1> QED BY <1>5, <1>6, <1>8, <1>11 DEF IsSuffix, IsPrefix, a, b

LEMMA EndsOfAppend ==
  ASSUME NEW S, NEW x, NEW y, Ends(S, x, y), NEW e \in S
  PROVE  Ends(S, Append(x, e), Append(y, e))
  <1>1. x \in Seq(S) /\ y \in Seq(S) /\ Len(x) \in Nat /\ Len(y) \in Nat /\ Len(x) <= Len(y)
    BY DEF Ends
  <1>2. \A i \in 1..Len(x) : x[i] = y[Len(y) - Len(x) + i]
    BY DEF Ends
  <1>3. Append(x, e) \in Seq(S) /\ Len(Append(x, e)) = Len(x) + 1
    BY <1>1
  <1>4. Append(y, e) \in Seq(S) /\ Len(Append(y, e)) = Len(y) + 1
    BY <1>1
  <1>5. ASSUME NEW i \in 1..Len(x) + 1
        PROVE  Append(x, e)[i] = Append(y, e)[Len(y) + 1 - (Len(x) + 1) + i]
    <2>1. CASE i = Len(x) + 1
      BY <1>1, <2>1
    <2>2. CASE i # Len(x) + 1
      <3>1. i \in 1..Len(x) /\ Len(y) - Len(x) + i \in 1..Len(y) /\ Len(y) + 1 - (Len(x) + 1) + i = Len(y) - Len(x) + i
        BY <1>1, <2>2
      <3>2. Append(x, e)[i] = x[i] /\ Append(y, e)[Len(y) - Len(x) + i] = y[Len(y) - Len(x) + i]
        BY <1>1, <3>1
      <3> QED BY <1>2, <3>1, <3>2
    <2> QED BY <2>1, <2>2
  <1> QED BY <1>1, <1>3, <1>4, <1>5 DEF Ends

LEMMA EndsOfEnds ==
  ASSUME NEW S, NEW x, NEW y, NEW z, Ends(S, x, y), Ends(S, y, z)
  PROVE  Ends(S, x, z)
  <1>1. /\ x \in Seq(S) /\ z \in Seq(S)
        /\ Len(x) \in Nat /\ Len(y) \in Nat /\ Len(z) \in Nat /\ Len(x) <= Len(y) /\ Len(y) <= Len(z)
    BY DEF Ends
  <1>2. ASSUME NEW i \in 1..Len(x) PROVE x[i] = z[Len(z) - Len(x) + i]
    <2>1. x[i] = y[Len(y) - Len(x) + i]
      BY DEF Ends
    <2>2. Len(y) - Len(x) + i \in 1..Len(y) /\ Len(z) - Len(y) + (Len(y) - Len(x) + i) = Len(z) - Len(x) + i
      BY <1>1
    <2>3. y[Len(y) - Len(x) + i] = z[Len(z) - Len(y) + (Len(y) - Len(x) + i)]
      BY <2>2 DEF Ends
    <2> QED BY <2>1, <2>2, <2>3
  <1> QED BY <1>1, <1>2 DEF Ends

LEMMA EndsOfSame ==
  ASSUME NEW S, NEW x \in Seq(S)
  PROVE  Ends(S, x, x) /\ Ends(S, <<>>, x)
  <1>1. Len(x) \in Nat
    OBVIOUS
  <1>2. Ends(S, x, x)
    BY <1>1 DEF Ends
  <1>3. <<>> \in Seq(S) /\ Len(<<>>) = 0
    OBVIOUS
  <1>4. Ends(S, <<>>, x)
    BY <1>1, <1>3 DEF Ends
  <1> QED BY <1>2, <1>4

\* What is left of a sequence without its first n.
LEMMA EndsOfRest ==
  ASSUME NEW S, NEW x \in Seq(S), NEW n \in 0..Len(x)
  PROVE  /\ Ends(S, SubSeq(x, n + 1, Len(x)), x)
         /\ Len(SubSeq(x, n + 1, Len(x))) = Len(x) - n
         /\ \A i \in 1..Len(x) - n : SubSeq(x, n + 1, Len(x))[i] = x[n + i]
  <1> DEFINE y == SubSeq(x, n + 1, Len(x))
  <1>1. Len(x) \in Nat /\ n \in Nat /\ n <= Len(x)
    OBVIOUS
  <1>2. y \in Seq(S) /\ Len(y) = Len(x) - n /\ \A i \in 1..Len(x) - n : y[i] = x[n + i]
    BY <1>1
  <1> HIDE DEF y
  <1>3. \A i \in 1..Len(y) : Len(x) - Len(y) + i = n + i
    BY <1>1, <1>2
  <1>4. Ends(S, y, x)
    BY <1>1, <1>2, <1>3 DEF Ends
  <1> QED BY <1>2, <1>4 DEF y

\* Put something in front of both, or of the longer one only.
LEMMA EndsOfJoin ==
  ASSUME NEW S, NEW x, NEW y, Ends(S, x, y), NEW z \in Seq(S)
  PROVE  /\ Ends(S, x \o z, y \o z)
         /\ Ends(S, z, y \o z)
  <1>1. x \in Seq(S) /\ y \in Seq(S) /\ Len(x) \in Nat /\ Len(y) \in Nat /\ Len(z) \in Nat /\ Len(x) <= Len(y)
    BY DEF Ends
  <1> DEFINE a == x \o z  b == y \o z
  <1>2. /\ a \in Seq(S) /\ Len(a) = Len(x) + Len(z)
        /\ \A i \in 1..Len(x) + Len(z) : a[i] = IF i <= Len(x) THEN x[i] ELSE z[i - Len(x)]
    BY <1>1
  <1>3. /\ b \in Seq(S) /\ Len(b) = Len(y) + Len(z)
        /\ \A i \in 1..Len(y) + Len(z) : b[i] = IF i <= Len(y) THEN y[i] ELSE z[i - Len(y)]
    BY <1>1
  <1> HIDE DEF a, b
  <1>4. ASSUME NEW i \in 1..Len(a) PROVE a[i] = b[Len(b) - Len(a) + i]
    <2>1. Len(b) - Len(a) + i = Len(y) - Len(x) + i /\ Len(y) - Len(x) + i \in 1..Len(y) + Len(z)
      BY <1>1, <1>2, <1>3
    <2>2. CASE i <= Len(x)
      <3>1. i \in 1..Len(x) /\ Len(y) - Len(x) + i <= Len(y)
        BY <1>1, <1>2, <2>2
      <3>2. x[i] = y[Len(y) - Len(x) + i]
        BY <3>1 DEF Ends
      <3> QED BY <1>2, <1>3, <2>1, <2>2, <3>1, <3>2
    <2>3. CASE ~(i <= Len(x))
      <3>1. ~(Len(y) - Len(x) + i <= Len(y)) /\ Len(y) - Len(x) + i - Len(y) = i - Len(x)
        BY <1>1, <1>2, <2>3
      <3> QED BY <1>2, <1>3, <2>1, <2>3, <3>1, SMTT(30)
    <2> QED BY <2>2, <2>3
  <1>5. Ends(S, a, b)
    BY <1>1, <1>2, <1>3, <1>4 DEF Ends
  <1>6. ASSUME NEW i \in 1..Len(z) PROVE z[i] = b[Len(b) - Len(z) + i]
    <2>1. /\ Len(b) - Len(z) + i = Len(y) + i /\ Len(y) + i \in 1..Len(y) + Len(z)
          /\ ~(Len(y) + i <= Len(y)) /\ Len(y) + i - Len(y) = i
      BY <1>1, <1>3
    <2> QED BY <1>3, <2>1
  <1>7. Ends(S, z, b)
    BY <1>1, <1>3, <1>6 DEF Ends
  <1> QED BY <1>5, <1>7 DEF a, b

\* The text of a sequence of entries.
LEMMA CharsIs ==
  ASSUME NEW x \in Seq(Nat)
  PROVE  /\ Chars(x) \in Seq(Letters) /\ Len(Chars(x)) = 2 * Len(x)
         /\ \A k \in 1..2 * Len(x) : Chars(x)[k] = <<x[(k + 1) \div 2], 2 - (k % 2)>>
  <1>1. Len(x) \in Nat /\ 2 * Len(x) \in Nat
    OBVIOUS
  <1>2. \A k \in 1..2 * Len(x) : (k + 1) \div 2 \in 1..Len(x) /\ 2 - (k % 2) \in {1, 2}
    BY <1>1
  <1>3. \A k \in 1..2 * Len(x) : <<x[(k + 1) \div 2], 2 - (k % 2)>> \in Letters
    BY <1>1, <1>2 DEF Letters
  <1> DEFINE f(k) == <<x[(k + 1) \div 2], 2 - (k % 2)>>
  <1> HIDE DEF f
  <1>4. Chars(x) = [k \in 1..2 * Len(x) |-> f(k)]
    BY DEF Chars, f
  <1>5. \A k \in 1..2 * Len(x) : f(k) \in Letters
    BY <1>3 DEF f
  <1>6. Chars(x) \in Seq(Letters) /\ Len(Chars(x)) = 2 * Len(x) /\ \A k \in 1..2 * Len(x) : Chars(x)[k] = f(k)
    BY <1>1, <1>4, <1>5
  <1> QED BY <1>6 DEF f

LEMMA Halves ==
  ASSUME NEW m \in Nat, NEW l \in Nat, NEW k, k = l + 2 * m, l >= 1
  PROVE  /\ ~((k + 1) \div 2 <= m)
         /\ (k + 1) \div 2 - m = (l + 1) \div 2
         /\ k % 2 = l % 2
  <1> DEFINE h == (l + 1) \div 2
  <1>1. h \in Nat /\ h >= 1 /\ 2 * h <= l + 1 /\ l + 1 < 2 * h + 2
    OBVIOUS
  <1>2. (k + 1) \div 2 = h + m
    OBVIOUS
  <1>3. k % 2 = l % 2
    OBVIOUS
  <1> HIDE DEF h
  <1>4. (k + 1) \div 2 - m = h /\ ~((k + 1) \div 2 <= m)
    BY <1>1, <1>2
  <1> QED BY <1>3, <1>4 DEF h

LEMMA CharsOfJoin ==
  ASSUME NEW x \in Seq(Nat), NEW y \in Seq(Nat)
  PROVE  Chars(x \o y) = Chars(x) \o Chars(y)
  <1> DEFINE z == x \o y
  <1>0. Len(x) \in Nat /\ Len(y) \in Nat
    OBVIOUS
  <1>1. /\ z \in Seq(Nat) /\ Len(z) = Len(x) + Len(y)
        /\ \A i \in 1..Len(x) + Len(y) : z[i] = IF i <= Len(x) THEN x[i] ELSE y[i - Len(x)]
    OBVIOUS
  <1> HIDE DEF z
  <1> DEFINE a == Chars(x)  b == Chars(y)  c == Chars(z)  d == a \o b
  <1>2. a \in Seq(Letters) /\ Len(a) = 2 * Len(x) /\ \A k \in 1..2 * Len(x) : a[k] = <<x[(k + 1) \div 2], 2 - (k % 2)>>
    BY CharsIs
  <1>3. b \in Seq(Letters) /\ Len(b) = 2 * Len(y) /\ \A k \in 1..2 * Len(y) : b[k] = <<y[(k + 1) \div 2], 2 - (k % 2)>>
    BY CharsIs
  <1>4. c \in Seq(Letters) /\ Len(c) = 2 * Len(z) /\ \A k \in 1..2 * Len(z) : c[k] = <<z[(k + 1) \div 2], 2 - (k % 2)>>
    BY <1>1, CharsIs
  <1> HIDE DEF a, b, c
  <1>5. d \in Seq(Letters) /\ Len(d) = Len(a) + Len(b)
        /\ \A k \in 1..Len(a) + Len(b) : d[k] = IF k <= Len(a) THEN a[k] ELSE b[k - Len(a)]
    <2>1. a \in Seq(Letters) /\ b \in Seq(Letters) /\ Len(a) \in Nat /\ Len(b) \in Nat
      BY <1>2, <1>3
    <2> QED BY <2>1
  <1> HIDE DEF d
  <1>6. ASSUME NEW k \in 1..Len(c) PROVE c[k] = d[k]
    <2>0. k \in 1..2 * (Len(x) + Len(y)) /\ k \in 1..Len(a) + Len(b) /\ k \in 1..2 * Len(z)
      BY <1>0, <1>1, <1>2, <1>3, <1>4
    <2>1. (k + 1) \div 2 \in 1..Len(x) + Len(y)
      BY <1>0, <2>0
    <2>2. CASE k <= 2 * Len(x)
      <3>1. (k + 1) \div 2 <= Len(x) /\ k \in 1..2 * Len(x) /\ k <= Len(a)
        BY <1>0, <1>2, <2>0, <2>2
      <3>2. z[(k + 1) \div 2] = x[(k + 1) \div 2]
        BY <1>1, <2>1, <3>1
      <3>3. d[k] = <<x[(k + 1) \div 2], 2 - (k % 2)>>
        BY <1>2, <1>5, <2>0, <3>1
      <3> QED BY <1>4, <2>0, <3>2, <3>3
    <2>3. CASE ~(k <= 2 * Len(x))
      <3> DEFINE l == k - 2 * Len(x)
      <3>1. l \in 1..2 * Len(y) /\ ~(k <= Len(a)) /\ k - Len(a) = l
        BY <1>0, <1>2, <2>0, <2>3
      <3>2. ~((k + 1) \div 2 <= Len(x)) /\ (k + 1) \div 2 - Len(x) = (l + 1) \div 2 /\ k % 2 = l % 2
        <4>1. l \in Nat /\ k = l + 2 * Len(x) /\ l >= 1
          BY <1>0, <2>0, <2>3
        <4> HIDE DEF l
        <4> QED BY <1>0, <4>1, Halves
      <3>3. z[(k + 1) \div 2] = y[(l + 1) \div 2]
        BY <1>1, <2>1, <3>2, SMTT(30)
      <3> HIDE DEF l
      <3>4. d[k] = <<y[(l + 1) \div 2], 2 - (l % 2)>>
        BY <1>3, <1>5, <2>0, <3>1
      <3> QED BY <1>4, <2>0, <3>2, <3>3, <3>4
    <2> QED BY <2>2, <2>3
  <1>7. Len(c) = Len(d)
    BY <1>0, <1>1, <1>2, <1>3, <1>4, <1>5
  <1>8. c = d
    BY <1>4, <1>5, <1>6, <1>7, SameSeq
  <1> QED BY <1>8 DEF a, b, c, d, z

\* The numbers of the entries in a ring.
LEMMA IdsOfIs ==
  ASSUME NEW q, q \in Seq(Range(q)), \A i \in 1..Len(q) : q[i].e \in Entries
  PROVE  /\ IdsOf(q) \in Seq(Nat) /\ Len(IdsOf(q)) = Len(q) /\ Len(q) \in Nat
         /\ \A i \in 1..Len(q) : IdsOf(q)[i] = q[i].e.id
  <1>1. Len(q) \in Nat
    OBVIOUS
  <1>2. \A i \in 1..Len(q) : q[i].e.id \in Nat
    BY DEF Entries
  <1> DEFINE f(i) == q[i].e.id
  <1> HIDE DEF f
  <1>3. \A i \in 1..Len(q) : f(i) \in Nat
    BY <1>2 DEF f
  <1>4. IdsOf(q) = [i \in 1..Len(q) |-> f(i)]
    BY DEF IdsOf, f
  <1>5. IdsOf(q) \in Seq(Nat) /\ Len(IdsOf(q)) = Len(q) /\ \A i \in 1..Len(q) : IdsOf(q)[i] = f(i)
    BY <1>1, <1>3, <1>4
  <1> QED BY <1>1, <1>5 DEF f

LEMMA AppendIs ==
  ASSUME NEW X, NEW s \in Seq(X), NEW x \in X
  PROVE  /\ Append(s, x) \in Seq(X) /\ Len(Append(s, x)) = Len(s) + 1 /\ Len(s) \in Nat
         /\ Append(s, x)[Len(s) + 1] = x
         /\ \A i \in 1..Len(s) : Append(s, x)[i] = s[i]
  OBVIOUS

\* Entries at the end of a ring after its first n were given up, and a new one.
FitsIn(x, r) == x.e \in Entries /\ ~(x.e.size > r.cap)
Shifted(q, r, n, x) == n \in 0..Len(r.q) /\ q = Append(SubSeq(r.q, n + 1, Len(r.q)), x)
Refill(q, r, n, x, k) ==
  /\ q \in Seq(Range(q)) /\ Len(q) = Len(r.q) - n + 1
  /\ \A i \in 1..Len(q) : q[i].e \in Entries /\ ~(q[i].e.size > r.cap)
  /\ Ends(Nat, IdsOf(q), Append(k, x.e.id))

LEMMA Refilled ==
  ASSUME NEW r, RingOk(r), NEW x, FitsIn(x, r), NEW n, NEW q, Shifted(q, r, n, x),
         NEW k, Ends(Nat, IdsOf(r.q), k)
  PROVE  Refill(q, r, n, x, k)
  <1> DEFINE X == Range(r.q) \cup {x}
             o == r.q
             s == SubSeq(o, n + 1, Len(o))
  <1>0. x.e \in Entries /\ ~(x.e.size > r.cap)
    BY DEF FitsIn
  <1>1. o \in Seq(X) /\ Len(o) \in Nat /\ n \in 0..Len(o) /\ x \in X
    BY DEF RingOk, Shifted
  <1>2. \A i \in 1..Len(o) : o[i].e \in Entries /\ ~(o[i].e.size > r.cap)
    BY DEF RingOk
  <1>3. o \in Seq(Range(o))
    BY DEF RingOk
  <1> HIDE DEF X, o
  <1>4. s \in Seq(X) /\ Len(s) = Len(o) - n /\ \A i \in 1..Len(o) - n : s[i] = o[n + i]
    BY <1>1, EndsOfRest DEF Ends
  <1> HIDE DEF s
  <1>5. q = Append(s, x)
    BY DEF s, o, Shifted
  <1>6. q \in Seq(X) /\ Len(q) = Len(s) + 1 /\ q[Len(s) + 1] = x /\ \A i \in 1..Len(s) : q[i] = s[i]
    <2>1. s \in Seq(X)
      BY <1>4
    <2>2. x \in X
      BY <1>1
    <2>3. /\ Append(s, x) \in Seq(X) /\ Len(Append(s, x)) = Len(s) + 1
          /\ Append(s, x)[Len(s) + 1] = x /\ \A i \in 1..Len(s) : Append(s, x)[i] = s[i]
      BY <2>1, <2>2, AppendIs
    <2> QED BY <1>5, <2>3
  <1>7. q \in Seq(Range(q))
    BY <1>6, OwnRange
  <1>8. Len(s) \in Nat /\ Len(q) = Len(o) - n + 1 /\ Len(q) \in Nat
    BY <1>1, <1>4, <1>6
  <1>9. ASSUME NEW i \in 1..Len(q) PROVE q[i].e \in Entries /\ ~(q[i].e.size > r.cap)
    <2>1. CASE i = Len(s) + 1
      BY <1>0, <1>6, <2>1
    <2>2. CASE i # Len(s) + 1
      <3>1. i \in 1..Len(s) /\ i \in 1..Len(o) - n /\ n + i \in 1..Len(o)
        <4>1. Len(o) \in Nat /\ n \in Nat /\ n <= Len(o) /\ Len(s) = Len(o) - n /\ i \in 1..Len(s) + 1
          BY <1>1, <1>4, <1>6
        <4> QED BY <2>2, <4>1
      <3>2. q[i] = o[n + i]
        BY <1>4, <1>6, <3>1
      <3> QED BY <1>2, <3>1, <3>2
    <2> QED BY <2>1, <2>2
  <1> DEFINE a == IdsOf(o)  b == SubSeq(a, n + 1, Len(a))  c == IdsOf(q)
  <1>10. a \in Seq(Nat) /\ Len(a) = Len(o) /\ \A i \in 1..Len(o) : a[i] = o[i].e.id
    BY <1>2, <1>3, IdsOfIs
  <1>11. c \in Seq(Nat) /\ Len(c) = Len(q) /\ \A i \in 1..Len(q) : c[i] = q[i].e.id
    BY <1>7, <1>9, IdsOfIs
  <1>12. Ends(Nat, a, k)
    BY DEF o
  <1> HIDE DEF a, c
  <1>13. Ends(Nat, b, a) /\ Len(b) = Len(a) - n /\ \A i \in 1..Len(a) - n : b[i] = a[n + i]
    BY <1>1, <1>10, EndsOfRest
  <1> HIDE DEF b
  <1>14. x.e.id \in Nat
    BY <1>0 DEF Entries
  <1>15. Ends(Nat, Append(b, x.e.id), Append(k, x.e.id))
    BY <1>12, <1>13, <1>14, EndsOfEnds, EndsOfAppend
  <1>16. b \in Seq(Nat) /\ Len(b) = Len(s)
    BY <1>4, <1>10, <1>13 DEF Ends
  <1> DEFINE d == Append(b, x.e.id)
  <1>17. d \in Seq(Nat) /\ Len(d) = Len(s) + 1 /\ d[Len(s) + 1] = x.e.id /\ \A i \in 1..Len(s) : d[i] = b[i]
    <2>1. b \in Seq(Nat)
      BY <1>16
    <2> QED BY <1>14, <1>16, <2>1, AppendIs
  <1> HIDE DEF d
  <1>18. ASSUME NEW i \in 1..Len(c) PROVE c[i] = d[i]
    <2>1. CASE i = Len(s) + 1
      BY <1>6, <1>11, <1>17, <2>1
    <2>2. CASE i # Len(s) + 1
      <3>1. i \in 1..Len(s) /\ i \in 1..Len(o) - n /\ n + i \in 1..Len(o) /\ i \in 1..Len(q)
        <4>1. Len(o) \in Nat /\ n \in Nat /\ n <= Len(o) /\ Len(s) = Len(o) - n
              /\ Len(q) = Len(s) + 1 /\ i \in 1..Len(s) + 1
          BY <1>1, <1>4, <1>6, <1>11
        <4> QED BY <2>2, <4>1
      <3>2. q[i] = o[n + i]
        BY <1>4, <1>6, <3>1
      <3>3. d[i] = a[n + i]
        BY <1>10, <1>13, <1>17, <3>1
      <3> QED BY <1>10, <1>11, <3>1, <3>2, <3>3
    <2> QED BY <2>1, <2>2
  <1>19. c = d
    BY <1>6, <1>11, <1>17, <1>18, SameSeq
  <1> QED BY <1>7, <1>8, <1>9, <1>15, <1>19 DEF c, d, o, Refill

\* write_data gives up the oldest entries of the ring and nothing else.
Stored(p, r, e, k) ==
  /\ RingOk(p.ring) /\ p.ring.cap = r.cap /\ p.dropped \in BOOLEAN
  /\ IF e.size > r.cap
     THEN p.ring = r /\ ~p.dropped
     ELSE /\ Ends(Nat, IdsOf(p.ring.q), Append(k, e.id))
          /\ ~p.dropped => Len(p.ring.q) = Len(r.q) + 1

LEMMA PutStores ==
  ASSUME NEW r, RingOk(r), NEW e \in Entries, NEW k, Ends(Nat, IdsOf(r.q), k)
  PROVE  Stored(Put(r, e), r, e, k)
  <1> DEFINE p == Put(r, e)
             fit == {j \in 0..Len(r.q) : Span(SubSeq(r.q, j + 1, Len(r.q))) + Need(r, e.size) <= r.cap}
             n == CHOOSE i \in fit : \A j \in fit : i <= j
  <1>1. CASE e.size > r.cap
    <2>1. p.ring = r /\ p.dropped = FALSE
      BY <1>1 DEF Put
    <2> QED BY <1>1, <2>1 DEF Stored
  <1>2. CASE ~(e.size > r.cap) /\ fit # {}
    <2> DEFINE x == [e |-> e, span |-> Need(r, e.size)]
               q == Append(SubSeq(r.q, n + 1, Len(r.q)), x)
    <2>1. p.ring = [r EXCEPT !.wr = (@ + Need(r, e.size)) % r.cap, !.q = q] /\ p.dropped = (n > 0)
      BY <1>2 DEF Put
    <2>2. x.e = e
      OBVIOUS
    <2>3. fit \subseteq Nat
      OBVIOUS
    <2>4. n \in fit
      <3> HIDE DEF fit
      <3>1. \E i \in fit : \A j \in fit : i <= j
        BY <1>2, <2>3, LeastNumber
      <3> QED BY <3>1
    <2>5. n \in 0..Len(r.q)
      BY <2>4
    <2> HIDE DEF n, fit, x
    <2>6. /\ q \in Seq(Range(q)) /\ Len(q) = Len(r.q) - n + 1
          /\ \A i \in 1..Len(q) : q[i].e \in Entries /\ ~(q[i].e.size > r.cap)
          /\ Ends(Nat, IdsOf(q), Append(k, e.id))
      <3> HIDE DEF q
      <3>1. Shifted(q, r, n, x)
        BY <2>5 DEF q, Shifted
      <3>2. FitsIn(x, r)
        BY <1>2, <2>2 DEF FitsIn
      <3>3. Refill(q, r, n, x, k)
        BY <3>1, <3>2, Refilled
      <3> QED BY <2>2, <3>3 DEF Refill
    <2> HIDE DEF q
    <2>7. DOMAIN r = RingFields /\ r.cap \in Nat /\ Len(r.q) \in Nat
      BY DEF RingOk
    <2>8. DOMAIN p.ring = RingFields /\ p.ring.cap = r.cap /\ p.ring.q = q
      <3> HIDE DEF p
      <3> QED BY <2>1, <2>7 DEF RingFields
    <2>9. p.dropped \in BOOLEAN /\ (~p.dropped => n = 0)
      <3> HIDE DEF p
      <3>1. n \in Nat /\ (n > 0) \in BOOLEAN /\ (~(n > 0) => n = 0)
        BY <2>5, <2>7
      <3> QED BY <2>1, <3>1
    <2> HIDE DEF p
    <2>10. RingOk(p.ring)
      BY <2>6, <2>7, <2>8 DEF RingOk
    <2>11. ~p.dropped => Len(p.ring.q) = Len(r.q) + 1
      BY <2>6, <2>7, <2>8, <2>9
    <2> QED BY <1>2, <2>6, <2>8, <2>9, <2>10, <2>11 DEF Stored, p
  <1>3. CASE ~(e.size > r.cap) /\ fit = {}
    <2> DEFINE x == [e |-> e, span |-> e.size]
               q == Append(SubSeq(r.q, Len(r.q) + 1, Len(r.q)), x)
    <2>1. p.ring = [NewRing(r.cap) EXCEPT !.wr = e.size % r.cap, !.q = <<x>>] /\ p.dropped = TRUE
      BY <1>3 DEF Put
    <2>2. x.e = e
      OBVIOUS
    <2>3. DOMAIN r = RingFields /\ r.cap \in Nat /\ Len(r.q) \in Nat /\ r.q \in Seq(Range(r.q))
      BY DEF RingOk
    <2> HIDE DEF x
    <2>4. SubSeq(r.q, Len(r.q) + 1, Len(r.q)) = <<>>
      BY <2>3
    <2>5. q = <<x>>
      <3>1. Append(<<>>, x) = <<x>>
        OBVIOUS
      <3> QED BY <2>4, <3>1, Zenon
    <2>6. /\ q \in Seq(Range(q))
          /\ \A i \in 1..Len(q) : q[i].e \in Entries /\ ~(q[i].e.size > r.cap)
          /\ Ends(Nat, IdsOf(q), Append(k, e.id))
      <3> HIDE DEF q
      <3>1. Shifted(q, r, Len(r.q), x)
        BY <2>3 DEF q, Shifted
      <3>2. FitsIn(x, r)
        BY <1>3, <2>2 DEF FitsIn
      <3>3. Refill(q, r, Len(r.q), x, k)
        BY <3>1, <3>2, Refilled
      <3> QED BY <2>2, <3>3 DEF Refill
    <2> HIDE DEF q
    <2>7. DOMAIN p.ring = RingFields /\ p.ring.cap = r.cap /\ p.ring.q = q
      <3> HIDE DEF p
      <3> QED BY <2>1, <2>5 DEF RingFields, NewRing
    <2> HIDE DEF p
    <2>8. RingOk(p.ring)
      BY <2>3, <2>6, <2>7 DEF RingOk
    <2> QED BY <1>3, <2>1, <2>6, <2>7, <2>8 DEF Stored, p
  <1> QED BY <1>1, <1>2, <1>3

\* The two walks over the entries of a ring: one picks those that fit into
\* another ring, one copies them.
FitStep(f, q, cap, i) ==
  IF i = 0 THEN <<>>
  ELSE IF q[i].e.size > cap THEN f[i - 1] ELSE Append(f[i - 1], q[i].e.id)
FitWalk(f, q, cap, n) == f = [i \in 0..n |-> FitStep(f, q, cap, i)]

CopyStep(f, q, cap, i) ==
  IF i = 0 THEN [ring |-> NewRing(cap), dropped |-> FALSE, rebuilt |-> FALSE]
  ELSE LET p == Put(f[i - 1].ring, q[i].e)
       IN  [ring    |-> p.ring,
            dropped |-> f[i - 1].dropped \/ p.dropped,
            rebuilt |-> f[i - 1].rebuilt \/ p.rebuilt]
CopyWalk(f, q, cap, n) == f = [i \in 0..n |-> CopyStep(f, q, cap, i)]

LEMMA FitWalkExists ==
  ASSUME NEW q, NEW cap
  PROVE  \A n \in Nat : \E f : FitWalk(f, q, cap, n)
  <1> DEFINE T == {n \in Nat : ~ \E f : FitWalk(f, q, cap, n)}
  <1> SUFFICES ASSUME T # {} PROVE FALSE
    OBVIOUS
  <1>1. PICK n \in T : \A y \in T : n <= y
    BY LeastNumber
  <1>2. CASE n = 0
    <2>1. FitWalk([i \in 0..0 |-> <<>>], q, cap, 0)
      BY DEF FitWalk, FitStep
    <2> QED BY <1>1, <1>2, <2>1
  <1>3. CASE n # 0
    <2>1. n \in Nat /\ n - 1 \in Nat /\ n - 1 \notin T
      BY <1>1, <1>3
    <2>2. PICK f : FitWalk(f, q, cap, n - 1)
      BY <2>1
    <2>3. \A i \in 0..n - 1 : f[i] = FitStep(f, q, cap, i)
      BY <2>2 DEF FitWalk
    <2> HIDE DEF T
    <2> DEFINE g == [i \in 0..n |-> IF i = n THEN FitStep(f, q, cap, n) ELSE f[i]]
    <2>4. \A i \in 0..n : i # 0 => g[i - 1] = f[i - 1]
      BY <2>1
    <2>5. \A i \in 0..n : FitStep(g, q, cap, i) = FitStep(f, q, cap, i)
      BY <2>4 DEF FitStep
    <2>6. \A i \in 0..n : g[i] = FitStep(g, q, cap, i)
      BY <2>1, <2>3, <2>5
    <2>7. FitWalk(g, q, cap, n)
      BY <2>6 DEF FitWalk
    <2> QED BY <2>7 DEF T
  <1> QED BY <1>2, <1>3

LEMMA CopyWalkExists ==
  ASSUME NEW q, NEW cap
  PROVE  \A n \in Nat : \E f : CopyWalk(f, q, cap, n)
  <1> DEFINE T == {n \in Nat : ~ \E f : CopyWalk(f, q, cap, n)}
  <1> SUFFICES ASSUME T # {} PROVE FALSE
    OBVIOUS
  <1>1. PICK n \in T : \A y \in T : n <= y
    BY LeastNumber
  <1>2. CASE n = 0
    <2>1. CopyWalk([i \in 0..0 |-> [ring |-> NewRing(cap), dropped |-> FALSE, rebuilt |-> FALSE]], q, cap, 0)
      BY DEF CopyWalk, CopyStep
    <2> QED BY <1>1, <1>2, <2>1
  <1>3. CASE n # 0
    <2>1. n \in Nat /\ n - 1 \in Nat /\ n - 1 \notin T
      BY <1>1, <1>3
    <2>2. PICK f : CopyWalk(f, q, cap, n - 1)
      BY <2>1
    <2>3. \A i \in 0..n - 1 : f[i] = CopyStep(f, q, cap, i)
      BY <2>2 DEF CopyWalk
    <2> HIDE DEF T
    <2> DEFINE g == [i \in 0..n |-> IF i = n THEN CopyStep(f, q, cap, n) ELSE f[i]]
    <2>4. \A i \in 0..n : i # 0 => g[i - 1] = f[i - 1]
      BY <2>1
    <2>5. \A i \in 0..n : CopyStep(g, q, cap, i) = CopyStep(f, q, cap, i)
      BY <2>4 DEF CopyStep
    <2>6. \A i \in 0..n : g[i] = CopyStep(g, q, cap, i)
      BY <2>1, <2>3, <2>5
    <2>7. CopyWalk(g, q, cap, n)
      BY <2>6 DEF CopyWalk
    <2> QED BY <2>7 DEF T
  <1> QED BY <1>2, <1>3

LEMMA FittingIs ==
  ASSUME NEW q, Len(q) \in Nat, NEW cap
  PROVE  \E f : /\ Fitting(q, cap) = f[Len(q)]
                /\ \A i \in 0..Len(q) : f[i] = FitStep(f, q, cap, i)
  <1> DEFINE f == CHOOSE g : FitWalk(g, q, cap, Len(q))
  <1>1. FitWalk(f, q, cap, Len(q))
    BY FitWalkExists
  <1>2. Fitting(q, cap) = f[Len(q)]
    BY DEF Fitting, FitWalk, FitStep
  <1> HIDE DEF f
  <1>3. \A i \in 0..Len(q) : f[i] = FitStep(f, q, cap, i)
    BY <1>1 DEF FitWalk
  <1> QED BY <1>2, <1>3

LEMMA CopyIs ==
  ASSUME NEW q, Len(q) \in Nat, NEW cap
  PROVE  \E f : /\ CopyInto(cap, q) = f[Len(q)]
                /\ \A i \in 0..Len(q) : f[i] = CopyStep(f, q, cap, i)
  <1> DEFINE f == CHOOSE g : CopyWalk(g, q, cap, Len(q))
  <1>1. CopyWalk(f, q, cap, Len(q))
    BY CopyWalkExists
  <1>2. CopyInto(cap, q) = f[Len(q)]
    BY DEF CopyInto, CopyWalk, CopyStep
  <1> HIDE DEF f
  <1>3. \A i \in 0..Len(q) : f[i] = CopyStep(f, q, cap, i)
    BY <1>1 DEF CopyWalk
  <1> QED BY <1>2, <1>3

\* A ring that fits is copied as a whole.
LEMMA AllFit ==
  ASSUME NEW r, RingOk(r)
  PROVE  Fitting(r.q, r.cap) = IdsOf(r.q)
  <1> DEFINE q == r.q
  <1>1. q \in Seq(Range(q)) /\ Len(q) \in Nat
    BY DEF RingOk
  <1>2. \A i \in 1..Len(q) : q[i].e \in Entries /\ ~(q[i].e.size > r.cap)
    BY DEF RingOk
  <1> HIDE DEF q
  <1>3. PICK f : /\ Fitting(q, r.cap) = f[Len(q)]
                 /\ \A i \in 0..Len(q) : f[i] = FitStep(f, q, r.cap, i)
    BY <1>1, FittingIs
  <1>4. IdsOf(q) \in Seq(Nat) /\ Len(IdsOf(q)) = Len(q) /\ \A i \in 1..Len(q) : IdsOf(q)[i] = q[i].e.id
    BY <1>1, <1>2, IdsOfIs
  <1> DEFINE Right(i) == f[i] \in Seq(Nat) /\ Len(f[i]) = i /\ \A j \in 1..i : f[i][j] = q[j].e.id
  <1>5. ASSUME NEW i \in 0..Len(q) PROVE Right(i)
    <2> DEFINE T == {j \in 0..Len(q) : ~Right(j)}
    <2> SUFFICES ASSUME T # {} PROVE FALSE
      OBVIOUS
    <2> HIDE DEF Right
    <2>1. T \subseteq Nat
      BY <1>1
    <2>2. PICK n \in T : \A y \in T : n <= y
      <3> HIDE DEF T
      <3> QED BY <2>1, LeastNumber
    <2>3. n \in 0..Len(q) /\ ~Right(n)
      BY <2>2
    <2>4. CASE n = 0
      <3>1. f[0] = <<>>
        BY <1>3, <2>3, <2>4 DEF FitStep
      <3>2. Right(0)
        BY <3>1 DEF Right
      <3> QED BY <2>3, <2>4, <3>2
    <2>5. CASE n # 0
      <3> DEFINE m == n - 1
      <3>1. m \in 0..Len(q) /\ n \in 1..Len(q) /\ m \in Nat /\ n = m + 1 /\ ~(n <= m)
        BY <1>1, <2>3, <2>5
      <3>2. Right(m)
        BY <2>2, <3>1
      <3> HIDE DEF T
      <3>3. f[n] = Append(f[m], q[n].e.id)
        BY <1>2, <1>3, <2>3, <2>5, <3>1 DEF FitStep
      <3>4. q[n].e.id \in Nat
        BY <1>2, <3>1 DEF Entries
      <3> HIDE DEF m
      <3>5. f[m] \in Seq(Nat) /\ Len(f[m]) = m /\ \A j \in 1..m : f[m][j] = q[j].e.id
        BY <3>2 DEF Right
      <3>6. /\ f[n] \in Seq(Nat) /\ Len(f[n]) = m + 1
            /\ f[n][m + 1] = q[n].e.id /\ \A j \in 1..m : f[n][j] = f[m][j]
        <4>1. f[m] \in Seq(Nat)
          BY <3>5
        <4>2. /\ Append(f[m], q[n].e.id) \in Seq(Nat) /\ Len(Append(f[m], q[n].e.id)) = m + 1
              /\ Append(f[m], q[n].e.id)[m + 1] = q[n].e.id
              /\ \A j \in 1..m : Append(f[m], q[n].e.id)[j] = f[m][j]
          BY <3>4, <3>5, <4>1, AppendIs
        <4> QED BY <3>3, <4>2
      <3>7. ASSUME NEW j \in 1..n PROVE f[n][j] = q[j].e.id
        <4>1. j = m + 1 \/ j \in 1..m
          BY <3>1
        <4> QED BY <3>1, <3>5, <3>6, <4>1
      <3>8. Right(n)
        BY <3>1, <3>6, <3>7 DEF Right
      <3> QED BY <2>3, <3>8
    <2> QED BY <2>4, <2>5
  <1>6. Right(Len(q))
    BY <1>1, <1>5
  <1>7. Fitting(q, r.cap) = IdsOf(q)
    <2> DEFINE a == f[Len(q)]  b == IdsOf(q)
    <2>1. a \in Seq(Nat) /\ Len(a) = Len(q) /\ \A j \in 1..Len(q) : a[j] = q[j].e.id
      BY <1>6
    <2>2. b \in Seq(Nat) /\ Len(b) = Len(q) /\ \A j \in 1..Len(q) : b[j] = q[j].e.id
      BY <1>4
    <2> HIDE DEF a, b
    <2>3. a = b
      BY <2>1, <2>2, SameSeq
    <2> QED BY <1>3, <2>3 DEF a, b
  <1> QED BY <1>7 DEF q

\* The copy of a ring c holds the end of the entries k that fit, all of them if
\* none was given up for room.
Copied(c, k, cap) ==
  /\ RingOk(c.ring) /\ c.ring.cap = cap /\ c.dropped \in BOOLEAN
  /\ Ends(Nat, IdsOf(c.ring.q), k)
  /\ ~c.dropped => Len(c.ring.q) = Len(k)

LEMMA NewRingOk ==
  ASSUME NEW cap \in Nat
  PROVE  /\ RingOk(NewRing(cap)) /\ NewRing(cap).cap = cap
         /\ NewRing(cap).q = <<>> /\ IdsOf(NewRing(cap).q) = <<>>
  <1>1. DOMAIN NewRing(cap) = RingFields /\ NewRing(cap).cap = cap /\ NewRing(cap).q = <<>>
    BY DEF NewRing, RingFields
  <1>2. <<>> \in Seq(Range(<<>>)) /\ Len(<<>>) = 0
    OBVIOUS
  <1>3. IdsOf(<<>>) = <<>>
    BY DEF IdsOf
  <1>4. RingOk(NewRing(cap))
    BY <1>1, <1>2 DEF RingOk
  <1> QED BY <1>1, <1>3, <1>4

LEMMA CopyIsRight ==
  ASSUME NEW r, RingOk(r), NEW cap \in Nat
  PROVE  Copied(CopyInto(cap, r.q), Fitting(r.q, cap), cap)
  <1> DEFINE q == r.q
  <1>1. Len(q) \in Nat
    BY DEF RingOk
  <1>2. \A i \in 1..Len(q) : q[i].e \in Entries
    BY DEF RingOk
  <1> HIDE DEF q
  <1>3. PICK f : /\ Fitting(q, cap) = f[Len(q)]
                 /\ \A i \in 0..Len(q) : f[i] = FitStep(f, q, cap, i)
    BY <1>1, FittingIs
  <1>4. PICK c : /\ CopyInto(cap, q) = c[Len(q)]
                 /\ \A i \in 0..Len(q) : c[i] = CopyStep(c, q, cap, i)
    BY <1>1, CopyIs
  <1>5. ASSUME NEW i \in 0..Len(q) PROVE Copied(c[i], f[i], cap)
    <2> DEFINE T == {j \in 0..Len(q) : ~Copied(c[j], f[j], cap)}
    <2> SUFFICES ASSUME T # {} PROVE FALSE
      OBVIOUS
    <2>1. T \subseteq Nat
      BY <1>1
    <2>2. PICK n \in T : \A y \in T : n <= y
      <3> HIDE DEF T
      <3> QED BY <2>1, LeastNumber
    <2>3. n \in 0..Len(q) /\ ~Copied(c[n], f[n], cap)
      BY <2>2
    <2>4. CASE n = 0
      <3>1. f[0] = <<>>
        BY <1>3, <2>3, <2>4 DEF FitStep
      <3>2. c[0].ring = NewRing(cap) /\ c[0].dropped = FALSE
        <4>1. c[0] = CopyStep(c, q, cap, 0)
          BY <1>4, <2>3, <2>4
        <4>2. CopyStep(c, q, cap, 0) = [ring |-> NewRing(cap), dropped |-> FALSE, rebuilt |-> FALSE]
          BY DEF CopyStep
        <4> QED BY <4>1, <4>2
      <3>3. RingOk(c[0].ring) /\ c[0].ring.cap = cap /\ c[0].ring.q = <<>> /\ IdsOf(c[0].ring.q) = <<>>
        BY <3>2, NewRingOk
      <3>4. <<>> \in Seq(Nat) /\ Len(<<>>) = 0
        OBVIOUS
      <3>5. Ends(Nat, <<>>, <<>>)
        BY <3>4, EndsOfSame
      <3>6. Copied(c[0], f[0], cap)
        BY <3>1, <3>2, <3>3, <3>4, <3>5 DEF Copied
      <3> QED BY <2>3, <2>4, <3>6
    <2>5. CASE n # 0
      <3> DEFINE m == n - 1
      <3>1. m \in 0..Len(q) /\ n \in 1..Len(q) /\ ~(n <= m)
        BY <1>1, <2>3, <2>5
      <3>2. Copied(c[m], f[m], cap)
        BY <2>2, <3>1
      <3> DEFINE s == c[m].ring
                 e == q[n].e
                 p == Put(s, e)
      <3>3. c[n].ring = p.ring /\ c[n].dropped = (c[m].dropped \/ p.dropped)
        <4>1. c[n] = CopyStep(c, q, cap, n)
          BY <1>4, <2>3
        <4>2. CopyStep(c, q, cap, n) = [ring |-> p.ring, dropped |-> c[m].dropped \/ p.dropped,
                                        rebuilt |-> c[m].rebuilt \/ p.rebuilt]
          BY <2>5 DEF CopyStep
        <4> HIDE DEF p
        <4> QED BY <4>1, <4>2
      <3>4. f[n] = IF e.size > cap THEN f[m] ELSE Append(f[m], e.id)
        BY <1>3, <2>3, <2>5 DEF FitStep
      <3> HIDE DEF T, m
      <3>5. RingOk(s) /\ s.cap = cap /\ c[m].dropped \in BOOLEAN /\ Ends(Nat, IdsOf(s.q), f[m])
        BY <3>2 DEF Copied
      <3>6. e \in Entries
        BY <1>2, <3>1
      <3> HIDE DEF s, e
      <3>7. Stored(p, s, e, f[m])
        BY <3>5, <3>6, PutStores
      <3> HIDE DEF p
      <3>8. RingOk(p.ring) /\ p.ring.cap = cap /\ p.dropped \in BOOLEAN
        BY <3>5, <3>7 DEF Stored
      <3>9. c[n].dropped \in BOOLEAN /\ (~c[n].dropped => ~c[m].dropped /\ ~p.dropped)
        BY <3>3, <3>5, <3>8
      <3>10. ~c[m].dropped => Len(s.q) = Len(f[m])
        BY <3>2 DEF Copied, s
      <3>11. CASE e.size > cap
        <4>1. p.ring = s /\ f[n] = f[m]
          BY <3>4, <3>5, <3>7, <3>11 DEF Stored
        <4>2. Copied(c[n], f[n], cap)
          BY <3>3, <3>5, <3>8, <3>9, <3>10, <4>1 DEF Copied
        <4> QED BY <2>3, <4>2
      <3>12. CASE ~(e.size > cap)
        <4>1. f[n] = Append(f[m], e.id)
          BY <3>4, <3>12
        <4>2. Ends(Nat, IdsOf(p.ring.q), f[n]) /\ (~p.dropped => Len(p.ring.q) = Len(s.q) + 1)
          BY <3>5, <3>7, <3>12, <4>1 DEF Stored
        <4>3. e.id \in Nat /\ f[m] \in Seq(Nat)
          BY <3>5, <3>6 DEF Entries, Ends
        <4>4. Len(f[n]) = Len(f[m]) + 1
          BY <4>1, <4>3, AppendIs
        <4>5. ~c[n].dropped => Len(p.ring.q) = Len(f[n])
          BY <3>9, <3>10, <4>2, <4>4
        <4>6. Copied(c[n], f[n], cap)
          BY <3>3, <3>8, <3>9, <4>2, <4>5 DEF Copied
        <4> QED BY <2>3, <4>6
      <3> QED BY <3>11, <3>12
    <2> QED BY <2>4, <2>5
  <1>6. Copied(c[Len(q)], f[Len(q)], cap)
    BY <1>1, <1>5
  <1> QED BY <1>3, <1>4, <1>6 DEF q

\* What was kept is what was kept before and the entries of the ring.
LEMMA KeptSplits ==
  ASSUME NEW k, NEW r, RingOk(r), Ends(Nat, IdsOf(r.q), k)
  PROVE  /\ Before(k, r.q) \in Seq(Nat) /\ Len(Before(k, r.q)) = Len(k) - Len(r.q)
         /\ IdsOf(r.q) \in Seq(Nat) /\ k \in Seq(Nat)
         /\ k = Before(k, r.q) \o IdsOf(r.q)
  <1> DEFINE y == IdsOf(r.q)  n == Len(r.q)  b == Before(k, r.q)  z == b \o y
  <1>1. y \in Seq(Nat) /\ Len(y) = n /\ n \in Nat
    BY IdsOfIs DEF RingOk
  <1>0. Ends(Nat, y, k)
    OBVIOUS
  <1>3. b = SubSeq(k, 1, Len(k) - n)
    BY DEF Before
  <1> HIDE DEF y, n, b
  <1>2. k \in Seq(Nat) /\ Len(k) \in Nat /\ n <= Len(k) /\ \A i \in 1..n : y[i] = k[Len(k) - n + i]
    BY <1>0, <1>1 DEF Ends
  <1>4. b \in Seq(Nat) /\ Len(b) = Len(k) - n /\ \A i \in 1..Len(k) - n : b[i] = k[i]
    BY <1>1, <1>2, <1>3
  <1>5. /\ z \in Seq(Nat) /\ Len(z) = Len(b) + n
        /\ \A i \in 1..Len(b) + n : z[i] = IF i <= Len(b) THEN b[i] ELSE y[i - Len(b)]
    <2>1. b \in Seq(Nat) /\ y \in Seq(Nat) /\ Len(b) \in Nat /\ Len(y) = n
      BY <1>1, <1>4
    <2> QED BY <2>1, SMTT(30)
  <1> HIDE DEF z
  <1>6. Len(z) = Len(k)
    BY <1>1, <1>2, <1>4, <1>5
  <1>7. ASSUME NEW i \in 1..Len(k) PROVE z[i] = k[i]
    <2>0. n \in Nat /\ Len(k) \in Nat /\ n <= Len(k) /\ Len(b) = Len(k) - n /\ i \in 1..Len(b) + n
      BY <1>1, <1>2, <1>4
    <2>1. CASE i <= Len(b)
      <3>1. i \in 1..Len(k) - n
        BY <2>0, <2>1
      <3> QED BY <1>4, <1>5, <2>0, <2>1, <3>1
    <2>2. CASE ~(i <= Len(b))
      <3>1. i - Len(b) \in 1..n /\ Len(k) - n + (i - Len(b)) = i
        BY <2>0, <2>2
      <3>2. y[i - Len(b)] = k[i]
        BY <1>2, <3>1
      <3> QED BY <1>5, <2>0, <2>2, <3>2
    <2> QED BY <2>1, <2>2
  <1>8. z = k
    BY <1>2, <1>5, <1>6, <1>7, SameSeq
  <1> QED BY <1>1, <1>2, <1>4, <1>8 DEF y, n, b, z

\* A new entry in the ring, or a ring without the entries that do not fit, leave
\* what was kept before.
LEMMA BeforeAppend ==
  ASSUME NEW k \in Seq(Nat), NEW x \in Nat, NEW q, NEW p, Len(q) \in Nat, Len(q) <= Len(k), Len(p) = Len(q) + 1
  PROVE  Before(Append(k, x), p) = Before(k, q)
  <1> DEFINE l == Append(k, x)  n == Len(k) - Len(q)
  <1>1. l \in Seq(Nat) /\ Len(l) = Len(k) + 1 /\ Len(k) \in Nat /\ \A i \in 1..Len(k) : l[i] = k[i]
    BY AppendIs
  <1>2. n \in Nat /\ n <= Len(k) /\ Len(l) - Len(p) = n
    BY <1>1
  <1>3. Before(l, p) = SubSeq(l, 1, n) /\ Before(k, q) = SubSeq(k, 1, n)
    BY <1>2 DEF Before
  <1> HIDE DEF l, n
  <1>4. SubSeq(l, 1, n) \in Seq(Nat) /\ Len(SubSeq(l, 1, n)) = n /\ \A i \in 1..n : SubSeq(l, 1, n)[i] = l[i]
    BY <1>1, <1>2, SMTT(30)
  <1>5. SubSeq(k, 1, n) \in Seq(Nat) /\ Len(SubSeq(k, 1, n)) = n /\ \A i \in 1..n : SubSeq(k, 1, n)[i] = k[i]
    BY <1>1, <1>2
  <1>6. \A i \in 1..n : i \in 1..Len(k)
    BY <1>1, <1>2
  <1>7. SubSeq(l, 1, n) = SubSeq(k, 1, n)
    BY <1>1, <1>4, <1>5, <1>6, SameSeq
  <1> QED BY <1>3, <1>7 DEF l

LEMMA BeforeJoin ==
  ASSUME NEW g \in Seq(Nat), NEW f \in Seq(Nat), NEW q, Len(q) = Len(f)
  PROVE  Before(g \o f, q) = g
  <1> DEFINE h == g \o f
  <1>1. /\ h \in Seq(Nat) /\ Len(h) = Len(g) + Len(f) /\ Len(g) \in Nat /\ Len(f) \in Nat
        /\ \A i \in 1..Len(g) + Len(f) : h[i] = IF i <= Len(g) THEN g[i] ELSE f[i - Len(g)]
    OBVIOUS
  <1> HIDE DEF h
  <1>2. Len(h) - Len(q) = Len(g)
    BY <1>1
  <1>3. Before(h, q) = SubSeq(h, 1, Len(g))
    BY <1>2 DEF Before
  <1>4. /\ SubSeq(h, 1, Len(g)) \in Seq(Nat) /\ Len(SubSeq(h, 1, Len(g))) = Len(g)
        /\ \A i \in 1..Len(g) : SubSeq(h, 1, Len(g))[i] = h[i]
    BY <1>1
  <1>5. \A i \in 1..Len(g) : i \in 1..Len(g) + Len(f) /\ i <= Len(g)
    BY <1>1
  <1>6. \A i \in 1..Len(g) : h[i] = g[i]
    BY <1>1, <1>5
  <1>7. SubSeq(h, 1, Len(g)) = g
    BY <1>4, <1>6, SameSeq
  <1> QED BY <1>3, <1>7 DEF h

\* take_snapshot_string: the text is the end of what was kept.
LEMMA TextIsEnd ==
  ASSUME NEW s, NEW k, TextFits(s, k)
  PROVE  Ends(Letters, take_text(s), Chars(k))
  <1> DEFINE q == s.ring.q
             other == s.text[s.index]
             fresh == Chars(IdsOf(q))
             room  == IF Len(fresh) < s.size THEN Least(s.size - Len(fresh), Len(other)) ELSE 0
             g == Before(k, q)
  <1>1. SnapOk(s) /\ Ends(Nat, IdsOf(q), k) /\ (s.continuous => Ends(Letters, other, Chars(g)))
    BY DEF TextFits
  <1>2. RingOk(s.ring) /\ other \in Seq(Letters) /\ s.size \in Nat
    BY <1>1 DEF SnapOk
  <1>3. g \in Seq(Nat) /\ IdsOf(q) \in Seq(Nat) /\ k = g \o IdsOf(q)
    BY <1>1, <1>2, KeptSplits
  <1>4. Chars(k) = Chars(g) \o fresh
    BY <1>3, CharsOfJoin
  <1>5. fresh \in Seq(Letters) /\ Chars(g) \in Seq(Letters)
    BY <1>3, CharsIs
  <1>6. take_text(s) = IF s.continuous THEN Ending(other, room) \o fresh ELSE fresh
    BY DEF take_text
  <1> HIDE DEF q, other, fresh, g
  <1>7. Len(fresh) \in Nat /\ Len(other) \in Nat
    BY <1>2, <1>5
  <1>8. room \in Nat /\ room <= Len(other)
    BY <1>2, <1>7 DEF Least
  <1> HIDE DEF room
  <1>9. CASE s.continuous
    <2> DEFINE n == Len(other) - room
    <2>1. n \in 0..Len(other) /\ Len(other) - room + 1 = n + 1
      BY <1>7, <1>8
    <2>2. Ending(other, room) = SubSeq(other, n + 1, Len(other))
      BY <2>1 DEF Ending
    <2> HIDE DEF n
    <2>3. Ends(Letters, SubSeq(other, n + 1, Len(other)), other)
      BY <1>2, <2>1, EndsOfRest
    <2>4. Ends(Letters, SubSeq(other, n + 1, Len(other)), Chars(g))
      BY <1>1, <1>9, <2>3, EndsOfEnds
    <2>5. Ends(Letters, SubSeq(other, n + 1, Len(other)) \o fresh, Chars(g) \o fresh)
      BY <1>5, <2>4, EndsOfJoin
    <2> QED BY <1>4, <1>6, <1>9, <2>2, <2>5
  <1>10. CASE ~s.continuous
    <2>1. Ends(Letters, Chars(g), Chars(g))
      BY <1>5, EndsOfSame
    <2>2. Ends(Letters, fresh, Chars(g) \o fresh)
      BY <1>5, <2>1, EndsOfJoin
    <2> QED BY <1>4, <1>6, <1>10, <2>2
  <1> QED BY <1>9, <1>10

\* reset_config of the snapshot: entries move to the new ring, and a text goes
\* on only if none of them was given up.
LEMMA ResetFits ==
  ASSUME NEW s, NEW k, TextFits(s, k), NEW c, c.size \in Nat, c.cap \in Nat,
         NEW z, z = snapshot_reset(s, c),
         NEW l, l = IF z.on THEN Before(k, s.ring.q) \o Fitting(s.ring.q, z.ring.cap) ELSE <<>>
  PROVE  TextFits(z, l)
  <1> DEFINE q == s.ring.q  g == Before(k, q)
             copy == CopyInto(c.cap, q)
             far == s.ring.cap > c.size + Slack \/ c.size > s.ring.cap + Slack
             a1 == [NoSnapshot EXCEPT !.levels = s.levels, !.cats = s.cats, !.lock = s.lock]
             a2 == [s EXCEPT !.on = TRUE, !.size = c.size, !.ring = NewRing(c.cap)]
             a3 == [s EXCEPT !.size = c.size, !.ring = copy.ring, !.live = @ /\ ~copy.rebuilt,
                             !.continuous = @ /\ ~copy.dropped]
             a4 == [s EXCEPT !.size = c.size]
  <1>1. SnapOk(s) /\ Ends(Nat, IdsOf(q), k)
    BY DEF TextFits
  <1>2. s.continuous => s.on /\ Ends(Letters, s.text[s.index], Chars(g))
    BY DEF TextFits
  <1>3. RingOk(s.ring)
    BY <1>1 DEF SnapOk
  <1>4. g \in Seq(Nat) /\ IdsOf(q) \in Seq(Nat) /\ k = g \o IdsOf(q) /\ k \in Seq(Nat)
    BY <1>1, <1>3, KeptSplits
  <1>5. Copied(copy, Fitting(q, c.cap), c.cap)
    BY <1>3, CopyIsRight
  <1>6. z = Filters(IF c.size = 0 THEN a1 ELSE IF ~s.on THEN a2 ELSE IF far THEN a3 ELSE a4, c)
    <2>1. s.on \in BOOLEAN
      BY <1>1 DEF SnapOk
    <2>2. CASE c.size = 0
      BY <2>2 DEF snapshot_reset
    <2>3. CASE c.size # 0 /\ ~s.on
      BY <2>3 DEF snapshot_reset
    <2>4. CASE c.size # 0 /\ s.on /\ far
      BY <2>4 DEF snapshot_reset
    <2>5. CASE c.size # 0 /\ s.on /\ ~far
      BY <2>5 DEF snapshot_reset
    <2> QED BY <2>1, <2>2, <2>3, <2>4, <2>5
  <1> HIDE DEF q, g, copy, far
  <1>7. ASSUME NEW a, DOMAIN a = SnapFields, z = Filters(a, c)
        PROVE  /\ DOMAIN z = SnapFields /\ z.on = a.on /\ z.size = a.size /\ z.ring = a.ring
               /\ z.text = a.text /\ z.index = a.index /\ z.continuous = a.continuous
    BY <1>7 DEF Filters, SnapFields
  <1>8. /\ DOMAIN s = SnapFields /\ s.on \in BOOLEAN /\ s.size \in Nat
        /\ DOMAIN s.text = {1, 2} /\ s.text[1] \in Seq(Letters) /\ s.text[2] \in Seq(Letters)
        /\ s.index \in {1, 2} /\ s.continuous \in BOOLEAN
    BY <1>1 DEF SnapOk
  <1>9. l = IF z.on THEN g \o Fitting(q, z.ring.cap) ELSE <<>>
    BY DEF g, q
  <1>10. CASE c.size = 0
    <2>1. z = Filters(a1, c)
      BY <1>6, <1>10
    <2>2. /\ DOMAIN a1 = SnapFields /\ a1.on = FALSE /\ a1.size = 0 /\ a1.ring = NewRing(1)
          /\ a1.text = <<<<>>, <<>>>> /\ a1.index = 1 /\ a1.continuous = FALSE
      BY DEF NoSnapshot, SnapFields
    <2> HIDE DEF a1
    <2>3. /\ DOMAIN z = SnapFields /\ z.on = FALSE /\ z.size = 0 /\ z.ring = NewRing(1)
          /\ z.text = <<<<>>, <<>>>> /\ z.index = 1 /\ z.continuous = FALSE
      BY <1>7, <2>1, <2>2
    <2>4. RingOk(z.ring) /\ IdsOf(z.ring.q) = <<>>
      BY <2>3, NewRingOk
    <2>5. DOMAIN z.text = {1, 2} /\ z.text[1] = <<>> /\ z.text[2] = <<>>
      BY <2>3
    <2>6. <<>> \in Seq(Letters) /\ <<>> \in Seq(Nat)
      OBVIOUS
    <2>7. SnapOk(z)
      <3>1. z.on \in BOOLEAN /\ z.size \in Nat /\ z.index \in {1, 2} /\ z.continuous \in BOOLEAN
        <4>1. z.size \in Nat /\ z.index \in {1, 2}
          BY <2>3
        <4>2. z.on \in BOOLEAN /\ z.continuous \in BOOLEAN
          BY <2>3, Zenon
        <4> QED BY <4>1, <4>2
      <3>2. z.text[1] \in Seq(Letters) /\ z.text[2] \in Seq(Letters) /\ DOMAIN z.text = {1, 2}
        BY <2>5, <2>6
      <3>3. DOMAIN z = SnapFields
        BY <2>3
      <3> QED BY <2>4, <3>1, <3>2, <3>3, Zenon DEF SnapOk
    <2>8. Ends(Nat, <<>>, <<>>)
      BY <2>6, EndsOfSame
    <2> QED BY <1>9, <2>3, <2>4, <2>7, <2>8 DEF TextFits
  <1>11. CASE c.size # 0 /\ ~s.on
    <2>1. z = Filters(a2, c)
      BY <1>6, <1>11
    <2>2. /\ DOMAIN a2 = SnapFields /\ a2.on = TRUE /\ a2.size = c.size /\ a2.ring = NewRing(c.cap)
          /\ a2.text = s.text /\ a2.index = s.index /\ a2.continuous = s.continuous
      BY <1>8 DEF SnapFields
    <2> HIDE DEF a2
    <2>3. /\ DOMAIN z = SnapFields /\ z.on = TRUE /\ z.size = c.size /\ z.ring = NewRing(c.cap)
          /\ z.text = s.text /\ z.index = s.index /\ z.continuous = s.continuous
      BY <1>7, <2>1, <2>2
    <2>4. RingOk(z.ring) /\ z.ring.cap = c.cap /\ IdsOf(z.ring.q) = <<>>
      BY <2>3, NewRingOk
    <2>5. SnapOk(z)
      BY <1>8, <2>3, <2>4 DEF SnapOk
    <2>6. l = g \o Fitting(q, c.cap) /\ Fitting(q, c.cap) \in Seq(Nat)
      BY <1>5, <1>9, <2>3, <2>4 DEF Copied, Ends
    <2>7. l \in Seq(Nat)
      <3> DEFINE f == Fitting(q, c.cap)
      <3>1. g \in Seq(Nat) /\ f \in Seq(Nat)
        BY <1>4, <2>6
      <3> HIDE DEF f
      <3>2. g \o f \in Seq(Nat)
        BY <3>1
      <3> QED BY <2>6, <3>2 DEF f
    <2>8. Ends(Nat, <<>>, l)
      BY <2>7, EndsOfSame
    <2>9. ~z.continuous
      BY <1>2, <1>8, <1>11, <2>3
    <2> QED BY <2>4, <2>5, <2>8, <2>9 DEF TextFits
  <1>12. CASE c.size # 0 /\ s.on /\ far
    <2>1. z = Filters(a3, c)
      BY <1>6, <1>12
    <2>2. /\ DOMAIN a3 = SnapFields /\ a3.on = s.on /\ a3.size = c.size /\ a3.ring = copy.ring
          /\ a3.text = s.text /\ a3.index = s.index /\ a3.continuous = (s.continuous /\ ~copy.dropped)
      BY <1>8 DEF SnapFields
    <2> HIDE DEF a3
    <2>3. /\ DOMAIN z = SnapFields /\ z.on = s.on /\ z.size = c.size /\ z.ring = copy.ring
          /\ z.text = s.text /\ z.index = s.index /\ z.continuous = (s.continuous /\ ~copy.dropped)
      BY <1>7, <2>1, <2>2
    <2> DEFINE f == Fitting(q, c.cap)
    <2>4. /\ RingOk(z.ring) /\ z.ring.cap = c.cap /\ copy.dropped \in BOOLEAN
          /\ Ends(Nat, IdsOf(z.ring.q), f) /\ (~copy.dropped => Len(z.ring.q) = Len(f))
      BY <1>5, <2>3 DEF Copied
    <2> HIDE DEF f
    <2>5. z.continuous \in BOOLEAN /\ (z.continuous => s.continuous /\ ~copy.dropped)
      BY <1>8, <2>3, <2>4
    <2>6. SnapOk(z)
      BY <1>8, <2>3, <2>4, <2>5 DEF SnapOk
    <2>7. l = g \o f /\ f \in Seq(Nat)
      BY <1>9, <1>12, <2>3, <2>4 DEF f, Ends
    <2>8. Ends(Nat, f, l)
      <3>1. Ends(Nat, g, g)
        BY <1>4, EndsOfSame
      <3> QED BY <2>7, <3>1, EndsOfJoin
    <2>9. Ends(Nat, IdsOf(z.ring.q), l)
      BY <2>4, <2>8, EndsOfEnds
    <2>10. ASSUME z.continuous PROVE z.on /\ Ends(Letters, z.text[z.index], Chars(Before(l, z.ring.q)))
      <3>1. Len(z.ring.q) = Len(f)
        BY <2>4, <2>5, <2>10
      <3>2. Before(l, z.ring.q) = g
        <4> DEFINE y == z.ring.q
        <4>1. g \in Seq(Nat) /\ f \in Seq(Nat) /\ Len(y) = Len(f)
          BY <1>4, <2>7, <3>1
        <4> HIDE DEF y
        <4>2. Before(g \o f, y) = g
          BY <4>1, BeforeJoin
        <4> QED BY <2>7, <4>2 DEF y
      <3> QED BY <1>2, <1>12, <2>3, <2>5, <2>10, <3>2
    <2> QED BY <2>6, <2>9, <2>10 DEF TextFits
  <1>13. CASE c.size # 0 /\ s.on /\ ~far
    <2>1. z = Filters(a4, c)
      BY <1>6, <1>13
    <2>2. /\ DOMAIN a4 = SnapFields /\ a4.on = s.on /\ a4.size = c.size /\ a4.ring = s.ring
          /\ a4.text = s.text /\ a4.index = s.index /\ a4.continuous = s.continuous
      BY <1>8 DEF SnapFields
    <2> HIDE DEF a4
    <2>3. /\ DOMAIN z = SnapFields /\ z.on = s.on /\ z.size = c.size /\ z.ring = s.ring
          /\ z.text = s.text /\ z.index = s.index /\ z.continuous = s.continuous
      BY <1>7, <2>1, <2>2
    <2>4. Fitting(q, z.ring.cap) = IdsOf(q)
      BY <1>3, <2>3, AllFit DEF q
    <2>5. l = k
      BY <1>4, <1>9, <1>13, <2>3, <2>4
    <2>6. SnapOk(z)
      BY <1>3, <1>8, <2>3 DEF SnapOk
    <2>7. Ends(Nat, IdsOf(z.ring.q), l)
      BY <1>1, <2>3, <2>5 DEF q
    <2>8. z.continuous => z.on /\ Ends(Letters, z.text[z.index], Chars(Before(l, z.ring.q)))
      BY <1>2, <2>3, <2>5 DEF g, q
    <2> QED BY <2>6, <2>7, <2>8 DEF TextFits
  <1> QED BY <1>8, <1>10, <1>11, <1>12, <1>13

\* write_data: a new entry in the ring.
LEMMA WriteFits ==
  ASSUME NEW s, NEW k, TextFits(s, k), NEW e \in Entries, s.on,
         NEW z, z = [s EXCEPT !.ring = Put(s.ring, e).ring, !.continuous = @ /\ ~Put(s.ring, e).dropped],
         NEW l, l = IF e.size > s.ring.cap THEN k ELSE Append(k, e.id)
  PROVE  TextFits(z, l)
  <1> DEFINE p == Put(s.ring, e)  r == s.ring
  <1>1. SnapOk(s) /\ Ends(Nat, IdsOf(r.q), k)
    BY DEF TextFits
  <1>2. s.continuous => Ends(Letters, s.text[s.index], Chars(Before(k, r.q)))
    BY DEF TextFits
  <1>3. RingOk(r)
    BY <1>1 DEF SnapOk
  <1>4. Stored(p, r, e, k)
    BY <1>1, <1>3, PutStores
  <1>5. /\ DOMAIN s = SnapFields /\ s.on \in BOOLEAN /\ s.size \in Nat
        /\ DOMAIN s.text = {1, 2} /\ s.text[1] \in Seq(Letters) /\ s.text[2] \in Seq(Letters)
        /\ s.index \in {1, 2} /\ s.continuous \in BOOLEAN
    BY <1>1 DEF SnapOk
  <1> HIDE DEF p
  <1>6. /\ DOMAIN z = SnapFields /\ z.on = s.on /\ z.size = s.size /\ z.ring = p.ring
        /\ z.text = s.text /\ z.index = s.index /\ z.continuous = (s.continuous /\ ~p.dropped)
    BY <1>5 DEF SnapFields, p
  <1>7. RingOk(p.ring) /\ p.dropped \in BOOLEAN
    BY <1>4 DEF Stored
  <1>8. z.continuous \in BOOLEAN /\ (z.continuous => s.continuous /\ ~p.dropped)
    BY <1>5, <1>6, <1>7
  <1>9. SnapOk(z)
    BY <1>5, <1>6, <1>7, <1>8 DEF SnapOk
  <1> HIDE DEF r
  <1>10. CASE e.size > r.cap
    <2>1. p.ring = r /\ l = k
      BY <1>4, <1>10 DEF Stored, r
    <2> QED BY <1>1, <1>2, <1>6, <1>8, <1>9, <2>1 DEF TextFits
  <1>11. CASE ~(e.size > r.cap)
    <2>1. l = Append(k, e.id)
      BY <1>11 DEF r
    <2>2. Ends(Nat, IdsOf(p.ring.q), l) /\ (~p.dropped => Len(p.ring.q) = Len(r.q) + 1)
      BY <1>4, <1>11, <2>1 DEF Stored
    <2>3. e.id \in Nat /\ k \in Seq(Nat) /\ Len(IdsOf(r.q)) <= Len(k)
      BY <1>1 DEF Entries, Ends
    <2>4. Len(r.q) \in Nat /\ Len(IdsOf(r.q)) = Len(r.q)
      BY <1>3, IdsOfIs DEF RingOk
    <2>5. ASSUME z.continuous PROVE Ends(Letters, z.text[z.index], Chars(Before(l, p.ring.q)))
      <3>1. Len(p.ring.q) = Len(r.q) + 1
        BY <1>8, <2>2, <2>5
      <3>2. Len(r.q) <= Len(k)
        BY <2>3, <2>4
      <3> DEFINE x == e.id  pq == p.ring.q  q == r.q
      <3>3. x \in Nat /\ k \in Seq(Nat) /\ Len(q) \in Nat /\ Len(q) <= Len(k) /\ Len(pq) = Len(q) + 1
        BY <2>3, <2>4, <3>1, <3>2
      <3> HIDE DEF x, pq, q
      <3>4. Before(Append(k, x), pq) = Before(k, q)
        BY <3>3, BeforeAppend
      <3> QED BY <1>2, <1>6, <1>8, <2>1, <2>5, <3>4 DEF x, pq, q
    <2> QED BY <1>6, <1>9, <2>2, <2>5 DEF TextFits
  <1> QED BY <1>10, <1>11

\* While nobody takes a text, nobody holds one.
LEMMA NobodyHolds ==
  ASSUME IInv, SnapInv, snap.lock = None, NEW t \in Threads, NEW l, pc' = [pc EXCEPT ![t] = l], l # "taken"
  PROVE  TextHeld'
  <1>1. pc \in [Threads -> Labels]
    BY DEF IInv, LocksInv, PlacesKnown
  <1>2. \A u \in Threads : pc[u] # "taken"
    BY Roles DEF SnapInv, TextHeld
  <1>3. \A u \in Threads : pc'[u] # "taken"
    BY <1>1, <1>2
  <1> QED BY <1>3 DEF TextHeld

\* Steps that have nothing to do with the snapshot.
LEMMA SnapQuiet ==
  ASSUME SnapInv, UNCHANGED <<snap, kept>>, \A u \in Threads : pc'[u] = "taken" => pc[u] = "taken"
  PROVE  SnapInv'
  <1>1. TextFits(snap, kept)' /\ TextHeld
    BY DEF SnapInv
  <1>2. TextHeld'
    BY <1>1 DEF TextHeld
  <1> QED BY <1>1, <1>2 DEF SnapInv

LEMMA SnapOthers ==
  ASSUME IInv, SnapInv, NEW t \in Threads,
         \/ do_log(t) \/ commit(t) \/ sync_process(t) \/ force_flush(t) \/ flush_lock(t)
         \/ read_chunk(t) \/ process_end(t) \/ process_unlock(t) \/ done(t) \/ drop_corrupted(t)
         \/ new_begin(t) \/ recovery_begin(t) \/ same_phase(t) \/ filter(t) \/ deliver(t)
         \/ snapshot_enabled(t) \/ reset_config(t) \/ reset_invalid(t) \/ reset_appenders(t)
         \/ reset_mask(t) \/ set_appender_enable(t)
  PROVE  SnapInv'
  <1> USE DEF Goto, config_vars, output_vars, recovery_vars, lock_vars, answer_vars
  <1>0. pc \in [Threads -> Labels]
    BY DEF IInv, LocksInv, PlacesKnown
  <1>1. CASE do_log(t) \/ commit(t) \/ sync_process(t)
    <2>1. UNCHANGED <<snap, kept>> /\ \A u \in Threads : pc'[u] = "taken" => pc[u] = "taken"
      BY <1>0, <1>1 DEF do_log, commit, sync_process
    <2> QED BY <2>1, SnapQuiet
  <1>2. CASE force_flush(t) \/ flush_lock(t) \/ read_chunk(t)
    <2>1. UNCHANGED <<snap, kept>> /\ \A u \in Threads : pc'[u] = "taken" => pc[u] = "taken"
      BY <1>0, <1>2 DEF force_flush, flush_lock, read_chunk
    <2> QED BY <2>1, SnapQuiet
  <1>3. CASE process_end(t) \/ process_unlock(t) \/ done(t) \/ drop_corrupted(t)
    <2>1. UNCHANGED <<snap, kept>> /\ \A u \in Threads : pc'[u] = "taken" => pc[u] = "taken"
      BY <1>0, <1>3 DEF process_end, process_unlock, done, drop_corrupted
    <2> QED BY <2>1, SnapQuiet
  <1>4. CASE new_begin(t) \/ recovery_begin(t) \/ same_phase(t)
    <2>1. UNCHANGED <<snap, kept>> /\ \A u \in Threads : pc'[u] = "taken" => pc[u] = "taken"
      <3>1. Tick(t)
        BY <1>4 DEF new_begin, recovery_begin, same_phase
      <3> QED BY <1>0, <3>1 DEF Tick
    <2> QED BY <2>1, SnapQuiet
  <1>5. CASE filter(t) \/ deliver(t) \/ snapshot_enabled(t)
    <2>1. UNCHANGED <<snap, kept>> /\ \A u \in Threads : pc'[u] = "taken" => pc[u] = "taken"
      BY <1>0, <1>5 DEF filter, deliver, snapshot_enabled
    <2> QED BY <2>1, SnapQuiet
  <1>6. CASE reset_config(t) \/ reset_invalid(t) \/ reset_appenders(t)
    <2>1. UNCHANGED <<snap, kept>> /\ \A u \in Threads : pc'[u] = "taken" => pc[u] = "taken"
      BY <1>0, <1>6 DEF reset_config, reset_invalid, reset_appenders
    <2> QED BY <2>1, SnapQuiet
  <1>7. CASE reset_mask(t) \/ set_appender_enable(t)
    <2>1. UNCHANGED <<snap, kept>> /\ \A u \in Threads : pc'[u] = "taken" => pc[u] = "taken"
      BY <1>0, <1>7 DEF reset_mask, set_appender_enable
    <2> QED BY <2>1, SnapQuiet
  <1> QED BY <1>1, <1>2, <1>3, <1>4, <1>5, <1>6, <1>7

LEMMA SnapWrite ==
  ASSUME IInv, SnapInv, NEW t \in Threads, write_data(t)
  PROVE  SnapInv'
  <1>1. pc[t] = "snapshot" /\ snap.lock = None /\ pc' = [pc EXCEPT ![t] = "done"]
    BY DEF write_data, Goto
  <1>2. cur[t] \in Entries
    BY <1>1 DEF IInv, FlushInv, EntriesKnown, Work
  <1>3. TextHeld'
    BY <1>1, NobodyHolds
  <1>4. TextFits(snap, kept)
    BY DEF SnapInv
  <1> DEFINE e == cur[t]
             p == Put(snap.ring, e)
             In == e.lvl \in snap.levels /\ e.cat \in snap.cats
  <1>5. CASE In /\ snap.on
    <2>1. snap' = [snap EXCEPT !.ring = p.ring, !.continuous = @ /\ ~p.dropped]
      BY <1>5 DEF write_data
    <2>2. kept' = IF e.size > snap.ring.cap THEN kept ELSE Append(kept, e.id)
      BY <1>5 DEF write_data
    <2> HIDE DEF e
    <2>3. e \in Entries /\ snap.on
      BY <1>2, <1>5 DEF e
    <2>4. TextFits(snap', kept')
      BY <1>4, <2>1, <2>2, <2>3, WriteFits
    <2> QED BY <1>3, <2>4 DEF SnapInv
  <1>6. CASE In /\ ~snap.on
    <2>1. snap' = snap /\ kept' = kept
      BY <1>6 DEF write_data
    <2>2. TextFits(snap', kept')
      BY <1>4, <2>1
    <2> QED BY <1>3, <2>2 DEF SnapInv
  <1>7. CASE ~In
    <2>1. snap' = [snap EXCEPT !.continuous = FALSE] /\ kept' = kept
      BY <1>7 DEF write_data
    <2>2. SnapOk(snap) /\ Ends(Nat, IdsOf(snap.ring.q), kept)
      BY <1>4 DEF TextFits
    <2>3. /\ DOMAIN snap' = SnapFields /\ snap'.on = snap.on /\ snap'.size = snap.size
          /\ snap'.ring = snap.ring /\ snap'.text = snap.text /\ snap'.index = snap.index
          /\ snap'.continuous = FALSE
      BY <2>1, <2>2 DEF SnapOk, SnapFields
    <2>4. SnapOk(snap')
      <3>1. snap'.continuous \in BOOLEAN
        BY <2>3, Zenon
      <3> QED BY <2>2, <2>3, <3>1 DEF SnapOk
    <2>5. TextFits(snap', kept')
      BY <2>1, <2>2, <2>3, <2>4 DEF TextFits
    <2> QED BY <1>3, <2>5 DEF SnapInv
  <1> QED BY <1>5, <1>6, <1>7

LEMMA SnapReset ==
  ASSUME IInv, SnapInv, NEW t \in Threads, reset_snapshot(t)
  PROVE  SnapInv'
  <1>1. pc[t] = "reset_snapshot" /\ snap.lock = None /\ pc' = [pc EXCEPT ![t] = "unlock"]
    BY DEF reset_snapshot, Goto
  <1>2. cur[t] \in Configs
    BY <1>1 DEF IInv, FlushInv, EntriesKnown, Resetting
  <1>3. TextHeld'
    BY <1>1, NobodyHolds
  <1> DEFINE c == cur[t].snap
  <1>4. c.size \in Nat /\ c.cap \in Nat
    BY <1>2, InstanceConstants
  <1>5. snap' = snapshot_reset(snap, c)
    BY DEF reset_snapshot
  <1>6. kept' = IF snap'.on THEN Before(kept, snap.ring.q) \o Fitting(snap.ring.q, snap'.ring.cap) ELSE <<>>
    BY DEF reset_snapshot, Before
  <1> HIDE DEF c
  <1>7. TextFits(snap, kept)
    BY DEF SnapInv
  <1>8. TextFits(snap', kept')
    BY <1>4, <1>5, <1>6, <1>7, ResetFits
  <1> QED BY <1>3, <1>8 DEF SnapInv

LEMMA SnapTake ==
  ASSUME IInv, SnapInv, NEW t \in Threads, take_snapshot_string(t)
  PROVE  SnapInv'
  <1>1. pc[t] = "idle" /\ snap.lock = None /\ pc' = [pc EXCEPT ![t] = "taken"] /\ kept' = kept
    BY DEF take_snapshot_string, Goto
  <1>2. pc \in [Threads -> Labels]
    BY DEF IInv, LocksInv, PlacesKnown
  <1>3. \A u \in Threads : pc'[u] = "taken" => u = t
    <2>1. \A u \in Threads : pc[u] # "taken"
      BY <1>1, Roles DEF SnapInv, TextHeld
    <2> QED BY <1>1, <1>2, <2>1
  <1>4. TextFits(snap, kept)
    BY DEF SnapInv
  <1>5. SnapOk(snap) /\ Ends(Nat, IdsOf(snap.ring.q), kept) /\ (snap.continuous => snap.on)
    BY <1>4 DEF TextFits
  <1>6. /\ DOMAIN snap = SnapFields /\ snap.on \in BOOLEAN /\ snap.size \in Nat /\ RingOk(snap.ring)
        /\ DOMAIN snap.text = {1, 2} /\ snap.text[1] \in Seq(Letters) /\ snap.text[2] \in Seq(Letters)
        /\ snap.index \in {1, 2} /\ snap.continuous \in BOOLEAN
    BY <1>5 DEF SnapOk
  <1>7. kept \in Seq(Nat) /\ Chars(kept) \in Seq(Letters)
    BY <1>5, CharsIs DEF Ends
  <1> DEFINE other == 3 - snap.index
  <1>8. other \in {1, 2}
    BY <1>6
  <1>9. CASE snap.on
    <2> DEFINE x == take_text(snap)
    <2>1. snap' = [snap EXCEPT !.lock = t, !.index = other, !.text[other] = x,
                               !.ring.q = <<>>, !.continuous = TRUE]
      BY <1>9 DEF take_snapshot_string
    <2>2. Ends(Letters, x, Chars(kept))
      BY <1>4, TextIsEnd
    <2> HIDE DEF x, other
    <2>3. /\ DOMAIN snap' = SnapFields /\ snap'.on = snap.on /\ snap'.size = snap.size
          /\ snap'.ring = [snap.ring EXCEPT !.q = <<>>] /\ snap'.index = other /\ snap'.lock = t
          /\ snap'.text = [snap.text EXCEPT ![other] = x]
      BY <1>6, <2>1 DEF SnapFields
    <2>4. snap'.continuous \in BOOLEAN
      <3>1. snap'.continuous = TRUE
        BY <1>6, <2>1 DEF SnapFields
      <3> QED BY <3>1, Zenon
    <2>5. x \in Seq(Letters)
      BY <2>2 DEF Ends
    <2>6. DOMAIN snap'.text = {1, 2} /\ snap'.text[1] \in Seq(Letters) /\ snap'.text[2] \in Seq(Letters)
          /\ snap'.text[snap'.index] = x
      BY <1>6, <1>8, <2>3, <2>5
    <2>7. DOMAIN snap'.ring = RingFields /\ snap'.ring.cap = snap.ring.cap /\ snap'.ring.q = <<>>
      BY <1>6, <2>3 DEF RingOk, RingFields
    <2>8. RingOk(snap'.ring)
      <3>1. <<>> \in Seq(Range(<<>>)) /\ Len(<<>>) = 0
        OBVIOUS
      <3> QED BY <1>6, <2>7, <3>1 DEF RingOk
    <2>9. SnapOk(snap')
      BY <1>6, <1>8, <2>3, <2>4, <2>6, <2>8 DEF SnapOk
    <2>10. IdsOf(snap'.ring.q) = <<>> /\ Before(kept, snap'.ring.q) = kept
      <3>1. IdsOf(<<>>) = <<>>
        BY DEF IdsOf
      <3>2. Before(kept, <<>>) = kept
        BY <1>7 DEF Before
      <3> QED BY <2>7, <3>1, <3>2
    <2>11. Ends(Nat, <<>>, kept)
      BY <1>7, EndsOfSame
    <2>12. TextFits(snap', kept')
      BY <1>1, <1>9, <2>2, <2>3, <2>6, <2>9, <2>10, <2>11 DEF TextFits
    <2>13. TextHeld'
      BY <1>1, <1>3, <2>2, <2>3, <2>6 DEF TextHeld
    <2> QED BY <2>12, <2>13 DEF SnapInv
  <1>10. CASE ~snap.on
    <2>1. snap' = [snap EXCEPT !.lock = t, !.index = other, !.text[other] = <<>>]
      BY <1>10 DEF take_snapshot_string
    <2> HIDE DEF other
    <2>2. /\ DOMAIN snap' = SnapFields /\ snap'.on = snap.on /\ snap'.size = snap.size
          /\ snap'.ring = snap.ring /\ snap'.index = other /\ snap'.lock = t
          /\ snap'.text = [snap.text EXCEPT ![other] = <<>>] /\ snap'.continuous = snap.continuous
      BY <1>6, <2>1 DEF SnapFields
    <2>3. <<>> \in Seq(Letters)
      OBVIOUS
    <2>4. DOMAIN snap'.text = {1, 2} /\ snap'.text[1] \in Seq(Letters) /\ snap'.text[2] \in Seq(Letters)
          /\ snap'.text[snap'.index] = <<>>
      BY <1>6, <1>8, <2>2, <2>3
    <2>5. SnapOk(snap')
      BY <1>6, <1>8, <2>2, <2>4 DEF SnapOk
    <2>6. ~snap'.continuous
      BY <1>5, <1>10, <2>2
    <2>7. TextFits(snap', kept')
      BY <1>1, <1>5, <2>2, <2>5, <2>6 DEF TextFits
    <2>8. Ends(Letters, <<>>, Chars(kept))
      BY <1>7, EndsOfSame
    <2>9. TextHeld'
      BY <1>1, <1>3, <2>2, <2>4, <2>8 DEF TextHeld
    <2> QED BY <2>7, <2>9 DEF SnapInv
  <1> QED BY <1>9, <1>10

LEMMA SnapRelease ==
  ASSUME IInv, SnapInv, NEW t \in Threads, release_snapshot_string(t)
  PROVE  SnapInv'
  <1>1. pc[t] = "taken" /\ snap' = [snap EXCEPT !.lock = None] /\ pc' = [pc EXCEPT ![t] = "idle"] /\ kept' = kept
    BY DEF release_snapshot_string, Goto
  <1>2. pc \in [Threads -> Labels]
    BY DEF IInv, LocksInv, PlacesKnown
  <1>3. \A u \in Threads : pc[u] = "taken" => snap.lock = u
    BY DEF SnapInv, TextHeld
  <1>4. \A u \in Threads : pc'[u] # "taken"
    BY <1>1, <1>2, <1>3
  <1>5. TextFits(snap, kept)
    BY DEF SnapInv
  <1>6. SnapOk(snap)
    BY <1>5 DEF TextFits
  <1>7. /\ DOMAIN snap' = SnapFields /\ snap'.on = snap.on /\ snap'.size = snap.size
        /\ snap'.ring = snap.ring /\ snap'.text = snap.text /\ snap'.index = snap.index
        /\ snap'.continuous = snap.continuous
    BY <1>1, <1>6 DEF SnapOk, SnapFields
  <1>8. SnapOk(snap')
    BY <1>6, <1>7 DEF SnapOk
  <1>9. TextFits(snap', kept')
    BY <1>1, <1>5, <1>7, <1>8 DEF TextFits
  <1>10. TextHeld'
    BY <1>4 DEF TextHeld
  <1> QED BY <1>9, <1>10 DEF SnapInv

LEMMA SnapInit == Init => SnapInv
  <1> SUFFICES ASSUME Init PROVE SnapInv
    OBVIOUS
  <1> DEFINE s == NoSnapshot  c == First.snap
  <1>1. /\ DOMAIN s = SnapFields /\ s.on = FALSE /\ s.size = 0 /\ s.ring = NewRing(1)
        /\ s.text = <<<<>>, <<>>>> /\ s.index = 1 /\ s.continuous = FALSE
    BY DEF NoSnapshot, SnapFields
  <1>2. snap = snapshot_reset(s, c) /\ kept = <<>> /\ \A t \in Threads : pc[t] = "idle"
    BY DEF Init
  <1>3. c.size \in Nat /\ c.cap \in Nat
    BY InstanceConstants
  <1> HIDE DEF s, c
  <1>4. RingOk(s.ring) /\ IdsOf(s.ring.q) = <<>> /\ s.ring.q = <<>>
    BY <1>1, NewRingOk
  <1>5. <<>> \in Seq(Letters) /\ <<>> \in Seq(Nat)
    OBVIOUS
  <1>6. TextFits(s, <<>>)
    <2>1. s.size \in Nat /\ s.index \in {1, 2}
      BY <1>1
    <2>2. s.on \in BOOLEAN /\ s.continuous \in BOOLEAN
      BY <1>1, Zenon
    <2>3. DOMAIN s.text = {1, 2} /\ s.text[1] \in Seq(Letters) /\ s.text[2] \in Seq(Letters)
      BY <1>1, <1>5
    <2>4. SnapOk(s)
      BY <1>1, <1>4, <2>1, <2>2, <2>3 DEF SnapOk
    <2>5. Ends(Nat, <<>>, <<>>)
      BY <1>5, EndsOfSame
    <2> QED BY <1>1, <1>4, <2>4, <2>5 DEF TextFits
  <1>7. Before(<<>>, <<>>) = <<>>
    BY DEF Before
  <1>8. \A cap : Fitting(<<>>, cap) = <<>>
    <2> SUFFICES ASSUME NEW cap PROVE Fitting(<<>>, cap) = <<>>
      OBVIOUS
    <2> DEFINE q == <<>>
    <2>1. Len(q) = 0
      OBVIOUS
    <2> HIDE DEF q
    <2>2. PICK f : Fitting(q, cap) = f[Len(q)] /\ \A i \in 0..Len(q) : f[i] = FitStep(f, q, cap, i)
      BY <2>1, FittingIs
    <2>3. f[0] = <<>>
      BY <2>1, <2>2 DEF FitStep
    <2> QED BY <2>1, <2>2, <2>3 DEF q
  <1>9. kept = IF snap.on THEN Before(<<>>, s.ring.q) \o Fitting(s.ring.q, snap.ring.cap) ELSE <<>>
    <2>1. <<>> \o <<>> = <<>>
      OBVIOUS
    <2> QED BY <1>2, <1>4, <1>7, <1>8, <2>1
  <1>10. TextFits(snap, kept)
    BY <1>2, <1>3, <1>6, <1>9, ResetFits
  <1> QED BY <1>2, <1>10 DEF SnapInv, TextHeld

LEMMA SnapNext == IInv /\ SnapInv /\ [Next]_vars => SnapInv'
  <1> SUFFICES ASSUME IInv, SnapInv, [Next]_vars PROVE SnapInv'
    OBVIOUS
  <1>0. CASE UNCHANGED vars \/ rest
    <2>1. UNCHANGED <<snap, kept>> /\ pc' = pc
      BY <1>0 DEF rest, vars
    <2> QED BY <2>1, SnapQuiet
  <1>1. CASE process_by_worker
    <2>1. pc \in [Threads -> Labels]
      BY DEF IInv, LocksInv, PlacesKnown
    <2>2. UNCHANGED <<snap, kept>> /\ \A u \in Threads : pc'[u] = "taken" => pc[u] = "taken"
      BY <1>1, <2>1 DEF process_by_worker, Goto
    <2> QED BY <2>2, SnapQuiet
  <1>2. CASE \E t \in Threads :
               \/ do_log(t) \/ commit(t) \/ sync_process(t) \/ force_flush(t) \/ flush_lock(t)
               \/ read_chunk(t) \/ process_end(t) \/ process_unlock(t) \/ done(t) \/ drop_corrupted(t)
               \/ new_begin(t) \/ recovery_begin(t) \/ same_phase(t) \/ filter(t) \/ deliver(t)
               \/ snapshot_enabled(t) \/ reset_config(t) \/ reset_invalid(t) \/ reset_appenders(t)
               \/ reset_mask(t) \/ set_appender_enable(t)
    BY <1>2, SnapOthers
  <1>3. CASE \E t \in Threads :
               \/ write_data(t) \/ reset_snapshot(t) \/ take_snapshot_string(t) \/ release_snapshot_string(t)
    BY <1>3, SnapWrite, SnapReset, SnapTake, SnapRelease
  <1> QED BY <1>0, <1>1, <1>2, <1>3 DEF Next

(* The text that take_snapshot_string returns is the end of what the       *)
(* snapshot was given, complete to the latest entry and without a gap,     *)
(* for any number of threads, over entries given up for room, changes of   *)
(* the ring's size and of filters, and texts taken in between.             *)
THEOREM SnapshotAlwaysTail == Spec => []SnapshotIsTail
  <1>1. SnapInv => SnapshotIsTail
    <2> SUFFICES ASSUME SnapInv, NEW t \in Threads, pc[t] = "taken"
                 PROVE  IsSuffix(snap.text[snap.index], Chars(kept))
      BY DEF SnapshotIsTail
    <2>1. Ends(Letters, snap.text[snap.index], Chars(kept))
      BY DEF SnapInv, TextHeld
    <2> QED BY <2>1, EndsMeansSuffix
  <1> QED BY <1>1, InitIInv, Inductive, SnapInit, SnapNext, PTL DEF Spec

=============================================================================
