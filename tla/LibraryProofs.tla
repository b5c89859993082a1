---------------------------- MODULE LibraryProofs ----------------------------
(***************************************************************************)
(* The parts of the Library run that keep state over calls, and the        *)
(* reader-writer lock, for every number of handles, buffers, paths,        *)
(* threads and calls.                                                      *)
(*                                                                         *)
(* Files: HandlesExact and FileExclusive are invariants of the file        *)
(* manager with the buffers over it, and resizing a buffer keeps the bytes *)
(* that fit (ResizeKeeps).  A call of the file manager is a chain of a few *)
(* steps on the world: a file is opened, a reference is added, a handle is *)
(* closed, bytes are written.  Each of them is shown once to keep the      *)
(* accounts, for any assignment of handles to places; an action then is    *)
(* such a chain, the handles of its local variables being in the places of *)
(* Temp.  Exact says that every place has a reference of its own.  Guarded *)
(* and Covered are what FileExclusive needs: the table of exclusive files  *)
(* and the record lock protect every file that is written, and the file of *)
(* a mapped buffer is known to that buffer alone, so that nobody else      *)
(* shortens it.                                                            *)
(*                                                                         *)
(* Console: one buffer is left, it gives back what it took once and in     *)
(* order as long as no two fetching threads passed the test together, and  *)
(* no entry goes two ways.  ConsoleExact looks at what was taken, fetched  *)
(* and shown.  It is made inductive by saying where the threads are: a     *)
(* thread about to put an entry has the buffer all others have, the entry  *)
(* in its hands is the last one it began and has gone nowhere yet, and     *)
(* only the thread that fetch_thread_id_ names reads.                      *)
(*                                                                         *)
(* Lock: Exclusion of spin_lock_rw_crazy is not inductive.  A writer is    *)
(* let in by a counter of 0, so the counter has to mean exactly who is     *)
(* inside (CounterExact), and write_unlock keeps that meaning only because *)
(* readers are on their way out while a writer is inside and at no other   *)
(* time (PassingMeetsWriter).                                              *)
(***************************************************************************)
EXTENDS NormalBuffer, Console, RWSpinLock, TLAPS, FiniteSetTheorems, WellFoundedInduction

-----------------------------------------------------------------------------
(* Files                                                                   *)

Flags == {"read", "write", "auto_create", "exclusive"}
SlotSet == [inode : Inodes \cup {NoInode}, mode : SUBSET Flags, pos : Nat,
            seq : 0 .. SeqWidth - 1, ref : Nat]
World == [link : [Paths -> Inodes \cup {NoInode}], data : [Inodes -> Seq(Nat)],
          desc : Seq(SlotSet), gen : 0 .. SeqWidth - 1,
          cache : [Inodes -> SUBSET Flags], lock : [Inodes -> {"free", "ours", "theirs"}],
          weak : SUBSET Inodes, lost : Seq(Nat)]
HandleSet == [idx : Nat, seq : 0 .. SeqWidth - 1]

\* the places of a call's local handles
Temp == {<<"temp", "one">>, <<"temp", "two">>}
Keys == Held \cup Temp
Assignments == [Keys -> HandleSet]

With(a, k, x) == [a EXCEPT ![k] = x]
Holders(a, i) == {k \in Keys : a[k].idx = i}
Count(a, i) == Cardinality(Holders(a, i))

\* The descriptors, and the handles a place has, agree.
Sound(v) ==
    /\ v \in World
    /\ Len(v.lost) = Len(v.desc)
    /\ \A i \in DOMAIN v.desc : v.desc[i].inode = NoInode => v.lost[i] = 0
Counted(v, a) == \A i \in OpenSlots(v) : v.desc[i].ref = v.lost[i] + Count(a, i)
Named(v, a) ==
    \A k \in Keys : /\ a[k].idx = 0 => a[k] = NoFile
                    /\ a[k].idx # 0 => /\ a[k].idx \in OpenSlots(v)
                                       /\ v.desc[a[k].idx].seq = a[k].seq
Exact(v, a) == a \in Assignments /\ Sound(v) /\ Counted(v, a) /\ Named(v, a)

-----------------------------------------------------------------------------
(* Counting                                                                 *)

\* There are finitely many places for a handle.
LEMMA KeysFinite == IsFiniteSet(Keys)
  <1>1. ASSUME NEW S, IsFiniteSet(S), NEW c
        PROVE  IsFiniteSet({<<c, x>> : x \in S})
    <2> DEFINE T == {<<c, x>> : x \in S}
               f == [x \in S |-> <<c, x>>]
    <2>1. f \in Surjection(S, T)
      BY DEF Surjection
    <2> HIDE DEF T, f
    <2>2. IsFiniteSet(T)
      BY <1>1, <2>1, FS_Surjection
    <2> QED BY <2>2 DEF T
  <1>2. IsFiniteSet(Handles) /\ IsFiniteSet(Bufs)
    BY FileManagerAssumption, NormalBufferAssumption
  <1>0. \A x, y : IsFiniteSet({x, y})
    <2> SUFFICES ASSUME NEW x, NEW y PROVE IsFiniteSet({x, y})
      OBVIOUS
    <2>1. IsFiniteSet({x})
      BY FS_Singleton
    <2>2. {x, y} = {x} \cup {y}
      OBVIOUS
    <2> QED BY <2>1, <2>2, FS_AddElement
  <1>3. IsFiniteSet({"src", "dst"}) /\ IsFiniteSet(Temp)
    BY <1>0 DEF Temp
  <1>4. /\ IsFiniteSet({<<"hv", h>> : h \in Handles})
        /\ IsFiniteSet({<<"task", s>> : s \in {"src", "dst"}})
        /\ IsFiniteSet({<<"file", b>> : b \in Bufs})
        /\ IsFiniteSet({<<"map", b>> : b \in Bufs})
    BY <1>1, <1>2, <1>3
  <1> QED BY <1>3, <1>4, FS_Union DEF Keys, Held

\* One place of an assignment is changed.
LEMMA WithType ==
    ASSUME NEW a \in Assignments, NEW k \in Keys, NEW x \in HandleSet
    PROVE  /\ With(a, k, x) \in Assignments
           /\ \A j \in Keys : With(a, k, x)[j] = IF j = k THEN x ELSE a[j]
  BY DEF Assignments, With

\* A handle put into a place changes two counts by one.
LEMMA CountPut ==
    ASSUME NEW a \in Assignments, NEW k \in Keys, NEW x \in HandleSet, NEW i \in Nat
    PROVE  /\ Count(a, i) \in Nat /\ Count(With(a, k, x), i) \in Nat
           /\ Count(With(a, k, x), i) = Count(a, i) + (IF x.idx = i THEN 1 ELSE 0)
                                        - (IF a[k].idx = i THEN 1 ELSE 0)
           /\ a[k].idx = i => Count(a, i) >= 1
  <1> DEFINE R == Holders(a, i) \ {k}
             b == With(a, k, x)
  <1>2. IsFiniteSet(Holders(a, i)) /\ IsFiniteSet(Holders(b, i))
    BY KeysFinite, FS_Subset DEF Holders
  <1>3. /\ IsFiniteSet(R) /\ Cardinality(R) \in Nat
        /\ Cardinality(R) = IF a[k].idx = i THEN Count(a, i) - 1 ELSE Count(a, i)
    BY <1>2, FS_RemoveElement, FS_CardinalityType DEF Holders, Count
  <1>4. Count(a, i) \in Nat /\ Count(b, i) \in Nat
    BY <1>2, FS_CardinalityType DEF Count
  <1>0. \A j \in Keys : b[j] = IF j = k THEN x ELSE a[j]
    BY WithType
  <1>5. CASE x.idx = i
    <2>1. Holders(b, i) = R \cup {k}
      BY <1>0, <1>5 DEF Holders
    <2>2. Count(b, i) = Cardinality(R) + 1
      BY <1>3, <2>1, FS_AddElement, ZenonT(30) DEF Count
    <2> QED BY <1>3, <1>4, <1>5, <2>2
  <1>6. CASE x.idx # i
    <2>1. Holders(b, i) = R
      BY <1>0, <1>6 DEF Holders
    <2>2. Count(b, i) = Cardinality(R)
      BY <2>1 DEF Count
    <2> QED BY <1>3, <1>4, <1>6, <2>2
  <1> QED BY <1>5, <1>6

\* Nobody holds what is counted zero times, and the other way round.
LEMMA CountZero ==
    ASSUME NEW a \in Assignments, NEW i
    PROVE  Count(a, i) = 0 <=> \A k \in Keys : a[k].idx # i
  <1>1. IsFiniteSet(Holders(a, i))
    BY KeysFinite, FS_Subset DEF Holders
  <1> QED BY <1>1, FS_EmptySet DEF Count, Holders

-----------------------------------------------------------------------------
(* The steps a call is made of                                              *)

\* What the kinds of records are for.
LEMMA Constants ==
    /\ SeqWidth \in Nat /\ SeqWidth > 0 /\ NoInode \notin Inodes
    /\ NoFile \in HandleSet /\ NoFile.idx = 0 /\ Slot0 \in SlotSet
  <1>1. SeqWidth \in Nat /\ SeqWidth > 0 /\ NoInode \notin Inodes
    BY FileManagerAssumption DEF NoInode
  <1>2. NoFile \in HandleSet /\ NoFile.idx = 0
    BY <1>1 DEF NoFile, HandleSet
  <1>3. Slot0 \in SlotSet
    BY <1>1 DEF Slot0, SlotSet
  <1> QED BY <1>1, <1>2, <1>3

\* An emptied place.
LEMMA CountTake ==
    ASSUME NEW a \in Assignments, NEW k \in Keys, NEW j \in Nat, j # 0
    PROVE  /\ Count(a, j) \in Nat /\ Count(With(a, k, NoFile), j) \in Nat
           /\ Count(With(a, k, NoFile), j) = IF a[k].idx = j THEN Count(a, j) - 1 ELSE Count(a, j)
           /\ a[k].idx = j => Count(a, j) >= 1
  <1> DEFINE b == With(a, k, NoFile)
  <1>1. NoFile \in HandleSet /\ NoFile.idx = 0
    BY Constants
  <1>2. NoFile \in HandleSet
    BY <1>1
  <1>3. /\ Count(a, j) \in Nat /\ Count(b, j) \in Nat
        /\ Count(b, j) = Count(a, j) + (IF NoFile.idx = j THEN 1 ELSE 0)
                                     - (IF a[k].idx = j THEN 1 ELSE 0)
        /\ a[k].idx = j => Count(a, j) >= 1
    BY <1>2, CountPut
  <1> QED BY <1>1, <1>3

\* An empty place that is filled.
LEMMA CountGive ==
    ASSUME NEW a \in Assignments, NEW k \in Keys, NEW x \in HandleSet, NEW j \in Nat,
           j # 0, a[k] = NoFile
    PROVE  /\ Count(a, j) \in Nat /\ Count(With(a, k, x), j) \in Nat
           /\ Count(With(a, k, x), j) = IF x.idx = j THEN Count(a, j) + 1 ELSE Count(a, j)
  <1> DEFINE b == With(a, k, x)
  <1>1. a[k].idx = 0
    BY Constants
  <1>3. /\ Count(a, j) \in Nat /\ Count(b, j) \in Nat
        /\ Count(b, j) = Count(a, j) + (IF x.idx = j THEN 1 ELSE 0)
                                     - (IF a[k].idx = j THEN 1 ELSE 0)
        /\ a[k].idx = j => Count(a, j) >= 1
    BY CountPut
  <1> QED BY <1>1, <1>3

\* An open slot is a slot, and its inode a file.
LEMMA OpenSlot ==
    ASSUME NEW v \in World, NEW i \in OpenSlots(v)
    PROVE  /\ i \in DOMAIN v.desc /\ i \in Nat /\ i # 0
           /\ v.desc[i] \in SlotSet /\ v.desc[i].inode \in Inodes
  <1>1. v.desc \in Seq(SlotSet)
    BY DEF World
  <1>2. i \in DOMAIN v.desc /\ v.desc[i].inode # NoInode
    BY DEF OpenSlots
  <1>3. i \in Nat /\ i # 0 /\ v.desc[i] \in SlotSet
    BY <1>1, <1>2
  <1> QED BY <1>2, <1>3 DEF SlotSet

\* Steps that only move bytes and positions, or names, locks and the table of
\* exclusive files, leave every account as it is.
LEMMA SameSlots ==
    ASSUME NEW v, NEW a, Exact(v, a), NEW u \in World,
           u.lost = v.lost, Len(u.desc) = Len(v.desc),
           \A i \in DOMAIN v.desc : /\ u.desc[i].inode = v.desc[i].inode
                                    /\ u.desc[i].seq = v.desc[i].seq
                                    /\ u.desc[i].ref = v.desc[i].ref
    PROVE  Exact(u, a)
  <1>0. v \in World
    BY DEF Exact, Sound
  <1>1. DOMAIN u.desc = DOMAIN v.desc
    BY <1>0 DEF World
  <1>2. OpenSlots(u) = OpenSlots(v)
    BY <1>1 DEF OpenSlots
  <1>3. Sound(u)
    BY <1>1 DEF Exact, Sound
  <1>4. Counted(u, a)
    BY <1>2 DEF Exact, Counted, OpenSlots
  <1>5. Named(u, a)
    BY <1>2 DEF Exact, Named, OpenSlots
  <1> QED BY <1>3, <1>4, <1>5 DEF Exact

\* remove_file_execlusive_check and close touch the file's entry and lock only.
ClosedFile(v, u, f, left) ==
    /\ u \in World
    /\ u.link = v.link /\ u.data = v.data /\ u.desc = v.desc
    /\ u.gen = v.gen /\ u.lost = v.lost
    /\ \A g \in Inodes : u.cache[g] = IF g = f THEN {} ELSE v.cache[g]
    /\ \A g \in Inodes : u.lock[g] = IF g = f /\ v.lock[g] = "ours" THEN "free" ELSE v.lock[g]
    /\ u.weak = IF left # {} THEN v.weak \cup {f} ELSE v.weak \ {f}

LEMMA PlatformCloseFields ==
    ASSUME NEW v \in World, NEW f \in Inodes, NEW left
    PROVE  ClosedFile(v, PlatformClose(v, f, left), f, left)
  <1> DEFINE u == PlatformClose(v, f, left)
             c == [v EXCEPT !.cache[f] = {}]
  <1>1. /\ c \in World
        /\ c.link = v.link /\ c.data = v.data /\ c.desc = v.desc
        /\ c.gen = v.gen /\ c.lost = v.lost
        /\ \A g \in Inodes : c.cache[g] = IF g = f THEN {} ELSE v.cache[g]
        /\ c.lock = v.lock /\ c.weak = v.weak
    BY DEF World
  <1>2. u = [c EXCEPT !.lock[f] = IF @ = "ours" THEN "free" ELSE @,
                      !.weak    = IF left # {} THEN @ \cup {f} ELSE @ \ {f}]
    BY DEF PlatformClose, RawClose
  <1> HIDE DEF c, u
  <1>3. /\ u.link = c.link /\ u.data = c.data /\ u.desc = c.desc
        /\ u.gen = c.gen /\ u.lost = c.lost /\ u.cache = c.cache
        /\ \A g \in Inodes : u.lock[g] = IF g = f /\ c.lock[g] = "ours" THEN "free" ELSE c.lock[g]
        /\ u.weak = IF left # {} THEN c.weak \cup {f} ELSE c.weak \ {f}
    BY <1>1, <1>2 DEF World
  <1>4. /\ u.lock \in [Inodes -> {"free", "ours", "theirs"}]
        /\ u.weak \in SUBSET Inodes
    BY <1>1, <1>2, <1>3 DEF World
  <1>5. u \in World
    BY <1>1, <1>2, <1>3, <1>4 DEF World
  <1>6. ClosedFile(v, u, f, left)
    BY <1>1, <1>3, <1>5 DEF ClosedFile
  <1> QED BY <1>6 DEF u

\* What two worlds agree on apart from slot i.
Beside(v, u, i) ==
    /\ u.link = v.link /\ u.data = v.data
    /\ Len(u.desc) = Len(v.desc)
    /\ \A j \in DOMAIN v.desc : j # i => u.desc[j] = v.desc[j]

\* dec_ref: one reference less, or the descriptor is closed.
DroppedRef(v, u, i) ==
    /\ u \in World /\ u.gen = v.gen /\ u.lost = v.lost /\ Beside(v, u, i)
    /\ v.desc[i].ref > 1 =>
          /\ u.desc[i] = [v.desc[i] EXCEPT !.ref = @ - 1]
          /\ u.cache = v.cache /\ u.lock = v.lock /\ u.weak = v.weak
    /\ ~(v.desc[i].ref > 1) =>
          /\ u.desc[i] = Slot0
          /\ LET f == v.desc[i].inode
                 left == OpenOn(v, f) \ {i}
             IN  /\ \A g \in Inodes : u.cache[g] = IF g = f THEN {} ELSE v.cache[g]
                 /\ \A g \in Inodes : u.lock[g] = IF g = f /\ v.lock[g] = "ours"
                                                 THEN "free" ELSE v.lock[g]
                 /\ u.weak = IF left # {} THEN v.weak \cup {f} ELSE v.weak \ {f}

LEMMA DropRefFields ==
    ASSUME NEW v \in World, NEW i \in OpenSlots(v)
    PROVE  DroppedRef(v, DropRef(v, i), i)
  <1> DEFINE u == DropRef(v, i)
             f == v.desc[i].inode
             left == OpenOn(v, f) \ {i}
  <1>0. i \in DOMAIN v.desc /\ v.desc[i] \in SlotSet /\ f \in Inodes
    BY OpenSlot
  <1>1. CASE v.desc[i].ref > 1
    <2>1. u = [v EXCEPT !.desc[i].ref = @ - 1]
      BY <1>1 DEF DropRef
    <2>2. /\ u.link = v.link /\ u.data = v.data /\ u.gen = v.gen /\ u.lost = v.lost
          /\ u.desc = [v.desc EXCEPT ![i].ref = @ - 1]
          /\ u.cache = v.cache /\ u.lock = v.lock /\ u.weak = v.weak
      BY <2>1 DEF World
    <2>3. u.desc \in Seq(SlotSet)
      <3>1. [v.desc[i] EXCEPT !.ref = @ - 1] \in SlotSet
        BY <1>0, <1>1 DEF SlotSet
      <3>2. u.desc = [v.desc EXCEPT ![i] = [v.desc[i] EXCEPT !.ref = @ - 1]]
        BY <2>2
      <3> QED BY <1>0, <3>1, <3>2 DEF World
    <2>4. u \in World
      BY <2>1, <2>2, <2>3 DEF World
    <2>5. Beside(v, u, i) /\ u.desc[i] = [v.desc[i] EXCEPT !.ref = @ - 1]
      BY <1>0, <2>2 DEF Beside, World
    <2> QED BY <1>1, <2>2, <2>4, <2>5 DEF DroppedRef
  <1>2. CASE ~(v.desc[i].ref > 1)
    <2> DEFINE c == [v EXCEPT !.desc[i] = Slot0]
    <2>1. /\ c \in World
          /\ c.link = v.link /\ c.data = v.data /\ c.gen = v.gen /\ c.lost = v.lost
          /\ c.desc = [v.desc EXCEPT ![i] = Slot0]
          /\ c.cache = v.cache /\ c.lock = v.lock /\ c.weak = v.weak
      <3>1. [v.desc EXCEPT ![i] = Slot0] \in Seq(SlotSet)
        BY <1>0, Constants DEF World
      <3> QED BY <3>1 DEF World
    <2>2. u = PlatformClose(c, f, left)
      BY <1>2 DEF DropRef
    <2>3. c \in World /\ f \in Inodes
      BY <1>0, <2>1
    <2> HIDE DEF c, u, f, left
    <2>4. ClosedFile(c, u, f, left)
      BY <2>2, <2>3, PlatformCloseFields
    <2>5. Beside(v, u, i) /\ u.desc[i] = Slot0
      BY <1>0, <2>1, <2>4 DEF Beside, World, ClosedFile
    <2>6. DroppedRef(v, u, i)
      BY <1>2, <2>1, <2>4, <2>5 DEF DroppedRef, ClosedFile, f, left
    <2> QED BY <2>6 DEF u
  <1> QED BY <1>1, <1>2

\* A handle that is overwritten: its reference is lost.
LEMMA ForgetExact ==
    ASSUME NEW v, NEW a, Exact(v, a), NEW k \in Keys, a[k] # NoFile,
           NEW u, u = [v EXCEPT !.lost[a[k].idx] = @ + 1]
    PROVE  Exact(u, With(a, k, NoFile)) /\ Beside(v, u, a[k].idx)
  <1> DEFINE i == a[k].idx
             b == With(a, k, NoFile)
  <1>0. /\ a \in Assignments /\ v \in World /\ Sound(v) /\ Counted(v, a) /\ Named(v, a)
        /\ i \in Nat /\ NoFile \in HandleSet /\ NoFile.idx = 0
    BY Constants DEF Exact, Sound, Assignments, HandleSet
  <1>1. ASSUME NEW j \in Nat, j # 0
        PROVE  /\ Count(a, j) \in Nat /\ Count(b, j) \in Nat
               /\ Count(b, j) = IF i = j THEN Count(a, j) - 1 ELSE Count(a, j)
               /\ i = j => Count(a, j) >= 1
    BY <1>0, <1>1, CountTake
  <1>2. b \in Assignments /\ \A j \in Keys : b[j] = IF j = k THEN NoFile ELSE a[j]
    BY <1>0, WithType
  <1> SUFFICES Exact(u, b) /\ Beside(v, u, i)
    OBVIOUS
  <1> HIDE DEF b
  <1>3. i # 0 /\ i \in OpenSlots(v)
    BY <1>0 DEF Named
  <1>4. v.lost \in Seq(Nat) /\ v.desc \in Seq(SlotSet) /\ Len(v.lost) = Len(v.desc)
    BY <1>0 DEF Sound, World
  <1>5. i \in DOMAIN v.lost /\ v.lost[i] \in Nat
    BY <1>3, <1>4, SMTT(30) DEF OpenSlots
  <1>6. /\ u.link = v.link /\ u.data = v.data /\ u.desc = v.desc
        /\ u.lost = [v.lost EXCEPT ![i] = @ + 1]
    BY <1>0 DEF World
  <1>7. u.lost \in Seq(Nat) /\ Len(u.lost) = Len(v.lost)
    BY <1>4, <1>5, <1>6
  <1>8. u \in World
    BY <1>0, <1>7 DEF World
  <1>9. OpenSlots(u) = OpenSlots(v)
    BY <1>6 DEF OpenSlots
  <1>10. Sound(u)
    BY <1>0, <1>3, <1>4, <1>6, <1>7, <1>8 DEF Sound, OpenSlots
  <1>11. Counted(u, b)
    <2> SUFFICES ASSUME NEW j \in OpenSlots(u)
                 PROVE  u.desc[j].ref = u.lost[j] + Count(b, j)
      BY DEF Counted
    <2>1. j \in Nat /\ j # 0 /\ v.desc[j].ref = v.lost[j] + Count(a, j) /\ j \in DOMAIN v.desc
      BY <1>0, <1>9, OpenSlot DEF Counted
    <2>2. v.lost[j] \in Nat
      BY <1>4, <2>1
    <2>3. u.lost[j] = IF j = i THEN v.lost[j] + 1 ELSE v.lost[j]
      BY <1>4, <1>5, <1>6, <2>1
    <2> QED BY <1>0, <1>1, <1>6, <2>1, <2>2, <2>3
  <1>12. Named(u, b)
    BY <1>0, <1>2, <1>6, <1>9 DEF Named
  <1> QED BY <1>2, <1>6, <1>10, <1>11, <1>12 DEF Exact, Beside

\* A handle that is given back: its place is empty, the others hold what they held.
LEMMA CloseExact ==
    ASSUME NEW v, NEW a, Exact(v, a), NEW k \in Keys,
           NEW u, u = Close(v, a[k])
    PROVE  Exact(u, With(a, k, NoFile)) /\ Beside(v, u, a[k].idx)
  <1> DEFINE h == a[k]
             i == a[k].idx
             b == With(a, k, NoFile)
  <1>0. /\ a \in Assignments /\ v \in World /\ Sound(v) /\ Counted(v, a) /\ Named(v, a)
        /\ h \in HandleSet /\ i \in Nat /\ NoFile \in HandleSet /\ NoFile.idx = 0
    BY Constants DEF Exact, Sound, Assignments, HandleSet
  <1>1. \A j \in Nat : j # 0 => /\ Count(a, j) \in Nat /\ Count(b, j) \in Nat
                                /\ Count(b, j) = IF i = j THEN Count(a, j) - 1 ELSE Count(a, j)
                                /\ i = j => Count(a, j) >= 1
    BY <1>0, CountTake
  <1>2. b \in Assignments /\ \A j \in Keys : b[j] = IF j = k THEN NoFile ELSE a[j]
    BY <1>0, WithType
  <1> SUFFICES Exact(u, b) /\ Beside(v, u, i)
    OBVIOUS
  <1> HIDE DEF b
  <1>3. CASE i = 0
    <2>1. h = NoFile /\ u = v
      BY <1>0, <1>3 DEF Named, Close, IsValid, IsOpen
    <2>2. b = a
      BY <1>0, <1>2, <2>1 DEF Assignments
    <2> QED BY <2>1, <2>2, <1>3 DEF Beside
  <1>4. CASE i # 0
    <2>1. i \in OpenSlots(v) /\ v.desc[i].seq = h.seq
      BY <1>0, <1>4 DEF Named
    <2>2. /\ i \in DOMAIN v.desc /\ v.desc[i] \in SlotSet /\ v.desc[i].inode \in Inodes
          /\ v.lost[i] \in Nat /\ DOMAIN v.lost = DOMAIN v.desc
      <3>1. /\ i \in DOMAIN v.desc /\ i \in Nat /\ i # 0
            /\ v.desc[i] \in SlotSet /\ v.desc[i].inode \in Inodes
        BY <1>0, <2>1, OpenSlot
      <3>2. v.lost \in Seq(Nat) /\ v.desc \in Seq(SlotSet) /\ Len(v.lost) = Len(v.desc)
        BY <1>0 DEF Sound, World
      <3> QED BY <3>1, <3>2
    <2>3. IndexOf(v, h) = i
      BY <2>1, <2>2 DEF IndexOf
    <2>4. CASE h.seq > 0
      <3>1. u = DropRef(v, i)
        BY <1>4, <2>3, <2>4 DEF Close, IsValid, IsOpen
      <3>2. /\ u \in World /\ Beside(v, u, i) /\ u.lost = v.lost
            /\ v.desc[i].ref > 1 => u.desc[i] = [v.desc[i] EXCEPT !.ref = @ - 1]
            /\ ~(v.desc[i].ref > 1) => u.desc[i] = Slot0
        <4>1. v \in World
          BY <1>0
        <4>2. DroppedRef(v, u, i)
          BY <2>1, <3>1, <4>1, DropRefFields
        <4> QED BY <4>2 DEF DroppedRef
      <3>3. Beside(v, u, i) /\ DOMAIN u.desc = DOMAIN v.desc
        BY <1>0, <3>2 DEF Beside, World
      <3>4. CASE v.desc[i].ref > 1
        <4>1. u.desc[i] = [v.desc[i] EXCEPT !.ref = @ - 1]
          BY <3>2, <3>4
        <4>2. OpenSlots(u) = OpenSlots(v)
          BY <2>2, <3>3, <4>1, SMTT(30) DEF OpenSlots, Beside, SlotSet
        <4>3. Sound(u)
          BY <1>0, <2>2, <3>2, <3>3, <4>1, SMTT(30) DEF Sound, Beside, SlotSet
        <4>4. Counted(u, b)
          <5> SUFFICES ASSUME NEW j \in OpenSlots(u)
                       PROVE  u.desc[j].ref = u.lost[j] + Count(b, j)
            BY DEF Counted
          <5>1. j \in Nat /\ j # 0 /\ v.desc[j].ref = v.lost[j] + Count(a, j) /\ j \in DOMAIN v.desc
            BY <1>0, <4>2, OpenSlot DEF Counted
          <5>2. v.lost[j] \in Nat
            BY <1>0, <2>2, <5>1 DEF World
          <5>3. CASE j = i
            BY <1>0, <1>1, <2>2, <3>2, <4>1, <5>1, <5>2, <5>3 DEF SlotSet
          <5>4. CASE j # i
            BY <1>0, <1>1, <3>2, <3>3, <5>1, <5>2, <5>4 DEF Beside
          <5> QED BY <5>3, <5>4
        <4>5. Named(u, b)
          <5>1. \A j \in OpenSlots(v) : u.desc[j].seq = v.desc[j].seq
            BY <2>2, <3>3, <4>1 DEF Beside, SlotSet, OpenSlots
          <5> QED BY <1>0, <1>2, <4>2, <5>1 DEF Named
        <4> QED BY <1>2, <3>3, <4>3, <4>4, <4>5 DEF Exact
      <3>5. CASE ~(v.desc[i].ref > 1)
        <4>1. u.desc[i] = Slot0
          BY <3>2, <3>5
        <4>2. OpenSlots(u) = OpenSlots(v) \ {i}
          BY <2>2, <3>3, <4>1 DEF OpenSlots, Beside, Slot0
        <4>3. v.lost[i] = 0 /\ Count(b, i) = 0
          <5>1. v.desc[i].ref = v.lost[i] + Count(a, i) /\ Count(a, i) >= 1 /\ Count(a, i) \in Nat
            BY <1>0, <1>1, <1>4, <2>1 DEF Counted
          <5>2. v.desc[i].ref \in Nat /\ v.desc[i].ref <= 1
            BY <2>2, <3>5 DEF SlotSet
          <5>3. v.lost[i] = 0 /\ Count(a, i) = 1
            BY <2>2, <5>1, <5>2
          <5> QED BY <1>0, <1>1, <1>4, <5>3
        <4>4. Sound(u)
          BY <1>0, <2>2, <3>2, <3>3, <4>1, <4>3 DEF Sound, Beside
        <4>5. Counted(u, b)
          <5> SUFFICES ASSUME NEW j \in OpenSlots(u)
                       PROVE  u.desc[j].ref = u.lost[j] + Count(b, j)
            BY DEF Counted
          <5>1. j \in Nat /\ j # 0 /\ j # i /\ v.desc[j].ref = v.lost[j] + Count(a, j) /\ j \in DOMAIN v.desc
            BY <1>0, <4>2, OpenSlot DEF Counted
          <5> QED BY <1>0, <1>1, <3>2, <3>3, <5>1 DEF Beside
        <4>6. Named(u, b)
          <5>1. \A j \in Keys : b[j].idx # i
            BY <1>2, <4>3, CountZero
          <5> QED BY <1>0, <1>2, <2>2, <3>3, <4>2, <5>1 DEF Named, Beside, OpenSlots
        <4> QED BY <1>2, <3>3, <4>4, <4>5, <4>6 DEF Exact
      <3> QED BY <3>4, <3>5
    <2>5. CASE ~(h.seq > 0)
      <3>1. u = [v EXCEPT !.lost[i] = @ + 1]
        BY <1>4, <2>3, <2>5 DEF Close, IsValid, IsOpen
      <3>2. a[k] # NoFile
        BY <1>0, <1>4
      <3> QED BY <3>1, <3>2, ForgetExact DEF b
    <2> QED BY <2>4, <2>5
  <1> QED BY <1>3, <1>4

\* One more holder of a descriptor that somebody holds.
LEMMA IncRefExact ==
    ASSUME NEW v, NEW a, Exact(v, a), NEW k \in Keys, NEW g \in Keys,
           a[k] = NoFile, a[g] # NoFile, NEW u, u = IncRef(v, a[g])
    PROVE  /\ Exact(u, With(a, k, a[g])) /\ Beside(v, u, a[g].idx)
           /\ u = [v EXCEPT !.desc[a[g].idx].ref = @ + 1]
  <1> DEFINE i == a[g].idx
             b == With(a, k, a[g])
  <1>0. /\ a \in Assignments /\ v \in World /\ Sound(v) /\ Counted(v, a) /\ Named(v, a)
        /\ a[g] \in HandleSet /\ i \in Nat
    BY DEF Exact, Sound, Assignments, HandleSet
  <1>1. ASSUME NEW j \in Nat, j # 0
        PROVE  /\ Count(a, j) \in Nat /\ Count(b, j) \in Nat
               /\ Count(b, j) = IF i = j THEN Count(a, j) + 1 ELSE Count(a, j)
    BY <1>0, <1>1, CountGive
  <1>2. b \in Assignments /\ \A j \in Keys : b[j] = IF j = k THEN a[g] ELSE a[j]
    BY <1>0, WithType
  <1>3. i # 0 /\ i \in OpenSlots(v) /\ v.desc[i].seq = a[g].seq
    BY <1>0 DEF Named
  <1>4. v.lost \in Seq(Nat) /\ v.desc \in Seq(SlotSet) /\ Len(v.lost) = Len(v.desc)
    BY <1>0 DEF Sound, World
  <1>5. i \in DOMAIN v.desc /\ v.desc[i] \in SlotSet
    BY <1>0, <1>3, OpenSlot
  <1>6. u = [v EXCEPT !.desc[i].ref = @ + 1]
    BY <1>3, <1>5 DEF IncRef, IndexOf
  <1> SUFFICES Exact(u, b) /\ Beside(v, u, i)
    BY <1>6
  <1> HIDE DEF b
  <1>7. /\ u.link = v.link /\ u.data = v.data /\ u.lost = v.lost
        /\ u.desc = [v.desc EXCEPT ![i] = [v.desc[i] EXCEPT !.ref = @ + 1]]
    BY <1>0, <1>6 DEF World
  <1>8. [v.desc[i] EXCEPT !.ref = @ + 1] \in SlotSet
    BY <1>5 DEF SlotSet
  <1>9. u.desc \in Seq(SlotSet) /\ Len(u.desc) = Len(v.desc)
    BY <1>4, <1>5, <1>7, <1>8
  <1>10. u \in World
    BY <1>0, <1>6, <1>9 DEF World
  <1>11. \A j \in DOMAIN v.desc :
            u.desc[j] = IF j = i THEN [v.desc[i] EXCEPT !.ref = @ + 1] ELSE v.desc[j]
    BY <1>4, <1>5, <1>7
  <1>12. DOMAIN u.desc = DOMAIN v.desc
    BY <1>4, <1>9
  <1>13. OpenSlots(u) = OpenSlots(v)
    BY <1>5, <1>11, <1>12 DEF OpenSlots, SlotSet
  <1>14. Sound(u)
    <2>1. \A j \in DOMAIN u.desc : u.desc[j].inode = v.desc[j].inode
      BY <1>5, <1>11, <1>12 DEF SlotSet
    <2>2. Len(u.lost) = Len(u.desc)
      BY <1>4, <1>7, <1>9
    <2>3. \A j \in DOMAIN v.desc : v.desc[j].inode = NoInode => v.lost[j] = 0
      BY <1>0 DEF Sound
    <2> QED BY <1>7, <1>10, <1>12, <2>1, <2>2, <2>3 DEF Sound
  <1>15. Counted(u, b)
    <2> SUFFICES ASSUME NEW j \in OpenSlots(u)
                 PROVE  u.desc[j].ref = u.lost[j] + Count(b, j)
      BY DEF Counted
    <2>1. j \in Nat /\ j # 0 /\ v.desc[j].ref = v.lost[j] + Count(a, j) /\ j \in DOMAIN v.desc
      BY <1>0, <1>13, OpenSlot DEF Counted
    <2>2. v.lost[j] \in Nat
      BY <1>4, <2>1
    <2>3. u.desc[j].ref = IF j = i THEN v.desc[j].ref + 1 ELSE v.desc[j].ref
      BY <1>5, <1>11, <2>1 DEF SlotSet
    <2> QED BY <1>0, <1>1, <1>7, <2>1, <2>2, <2>3
  <1>16. Named(u, b)
    <2>1. \A j \in OpenSlots(v) : u.desc[j].seq = v.desc[j].seq
      BY <1>5, <1>11 DEF OpenSlots, SlotSet
    <2> QED BY <1>0, <1>2, <1>3, <1>13, <2>1 DEF Named
  <1>17. Beside(v, u, i)
    BY <1>7, <1>9, <1>11 DEF Beside
  <1> QED BY <1>2, <1>14, <1>15, <1>16, <1>17 DEF Exact

\* A handle that changes its place.
LEMMA MoveExact ==
    ASSUME NEW v, NEW a, Exact(v, a), NEW k \in Keys, NEW g \in Keys, k # g, a[k] = NoFile
    PROVE  Exact(v, With(With(a, k, a[g]), g, NoFile))
  <1> DEFINE x == a[g]
             c == With(a, k, x)
             b == With(c, g, NoFile)
  <1>0. /\ a \in Assignments /\ v \in World /\ Counted(v, a) /\ Named(v, a)
        /\ x \in HandleSet /\ NoFile \in HandleSet /\ NoFile.idx = 0
    BY Constants DEF Exact, Sound, Assignments
  <1>1. c \in Assignments /\ \A j \in Keys : c[j] = IF j = k THEN x ELSE a[j]
    <2>1. a \in Assignments
      BY <1>0
    <2>2. x \in HandleSet
      BY <1>0
    <2> HIDE DEF x
    <2> QED BY <2>1, <2>2, WithType
  <1>2. c \in Assignments
    BY <1>1
  <1>3. b \in Assignments /\ \A j \in Keys : b[j] = IF j = g THEN NoFile ELSE c[j]
    BY <1>0, <1>2, WithType
  <1>4. c[g] = x
    BY <1>1
  <1>5. ASSUME NEW j \in Nat, j # 0
        PROVE  Count(b, j) = Count(a, j)
    <2>1. /\ Count(a, j) \in Nat /\ Count(c, j) \in Nat
          /\ Count(c, j) = IF x.idx = j THEN Count(a, j) + 1 ELSE Count(a, j)
      BY <1>0, <1>5, CountGive
    <2> HIDE DEF c
    <2>2. Count(b, j) = IF c[g].idx = j THEN Count(c, j) - 1 ELSE Count(c, j)
      BY <1>2, <1>5, CountTake
    <2> QED BY <1>4, <2>1, <2>2
  <1> HIDE DEF b, c
  <1>6. Counted(v, b)
    BY <1>0, <1>5, OpenSlot DEF Counted
  <1>7. Named(v, b)
    BY <1>0, <1>1, <1>3 DEF Named
  <1>8. Exact(v, b)
    BY <1>3, <1>6, <1>7 DEF Exact
  <1> QED BY <1>8 DEF b, c

\* add_file_execlusive_check touches the file's entry and lock only.
Writing(m) == m \cap {"write", "exclusive"} # {}
CheckedFile(v, c, f, m) ==
    /\ c.v \in World
    /\ c.v.link = v.link /\ c.v.data = v.data /\ c.v.desc = v.desc
    /\ c.v.gen = v.gen /\ c.v.lost = v.lost /\ c.v.weak = v.weak
    /\ ~Writing(m) => c.ok /\ c.v = v
    /\ Writing(m) /\ "exclusive" \in m /\ v.lock[f] = "theirs" => ~c.ok /\ c.v = v
    /\ Writing(m) /\ ~("exclusive" \in m /\ v.lock[f] = "theirs") =>
          /\ c.ok <=> v.cache[f] = {} \/ "exclusive" \notin v.cache[f] \cup m
          /\ \A g \in Inodes : c.v.lock[g] = IF g = f /\ "exclusive" \in m THEN "ours" ELSE v.lock[g]
          /\ \A g \in Inodes : c.v.cache[g] = IF g = f /\ v.cache[f] = {} THEN m ELSE v.cache[g]

LEMMA CheckFields ==
    ASSUME NEW v \in World, NEW f \in Inodes, NEW m \in SUBSET Flags
    PROVE  CheckedFile(v, ExclusiveCheck(v, f, m), f, m)
  <1> DEFINE locked == IF "exclusive" \in m THEN [v EXCEPT !.lock[f] = "ours"] ELSE v
             c == ExclusiveCheck(v, f, m)
             e == IF v.cache[f] = {} THEN [locked EXCEPT !.cache[f] = m] ELSE locked
  <1>1. /\ locked \in World
        /\ locked.link = v.link /\ locked.data = v.data /\ locked.desc = v.desc
        /\ locked.gen = v.gen /\ locked.lost = v.lost /\ locked.weak = v.weak
        /\ locked.cache = v.cache
        /\ \A g \in Inodes : locked.lock[g] = IF g = f /\ "exclusive" \in m THEN "ours" ELSE v.lock[g]
    <2>1. CASE "exclusive" \in m
      BY <2>1 DEF World
    <2>2. CASE "exclusive" \notin m
      BY <2>2
    <2> QED BY <2>1, <2>2
  <1>2. CASE ~Writing(m)
    <2>1. c = [ok |-> TRUE, v |-> v]
      BY <1>2 DEF ExclusiveCheck, Writing
    <2> QED BY <1>2, <2>1 DEF CheckedFile
  <1>3. CASE Writing(m) /\ "exclusive" \in m /\ v.lock[f] = "theirs"
    <2>1. c = [ok |-> FALSE, v |-> v]
      BY <1>3 DEF ExclusiveCheck, Writing
    <2> QED BY <1>3, <2>1 DEF CheckedFile
  <1>4. CASE Writing(m) /\ ~("exclusive" \in m /\ v.lock[f] = "theirs")
    <2>1. c = [ok |-> v.cache[f] = {} \/ "exclusive" \notin v.cache[f] \cup m, v |-> e]
      BY <1>4 DEF ExclusiveCheck, Writing
    <2> HIDE DEF locked, c
    <2>2. /\ e \in World
          /\ e.link = v.link /\ e.data = v.data /\ e.desc = v.desc
          /\ e.gen = v.gen /\ e.lost = v.lost /\ e.weak = v.weak /\ e.lock = locked.lock
          /\ \A g \in Inodes : e.cache[g] = IF g = f /\ v.cache[f] = {} THEN m ELSE v.cache[g]
      <3>1. CASE v.cache[f] = {}
        BY <1>1, <3>1 DEF World
      <3>2. CASE v.cache[f] # {}
        BY <1>1, <3>2
      <3> QED BY <3>1, <3>2
    <2> HIDE DEF e
    <2>3. c.v = e /\ (c.ok <=> v.cache[f] = {} \/ "exclusive" \notin v.cache[f] \cup m)
      BY <2>1
    <2>4. CheckedFile(v, c, f, m)
      BY <1>1, <1>4, <2>2, <2>3 DEF CheckedFile
    <2> QED BY <2>4 DEF c
  <1> QED BY <1>2, <1>3, <1>4

\* A set of numbers that is not empty has a first one.
LEMMA FirstNumber ==
    ASSUME NEW S, S \subseteq Nat, S # {}
    PROVE  \E x \in S : \A y \in S : x <= y
  <1>1. PICK x \in S : \A y \in S : ~(<<y, x>> \in OpToRel(<, Nat))
    BY WFMin, NatLessThanWellFounded
  <1>2. \A y \in Nat : y < x => <<y, x>> \in OpToRel(<, Nat)
    <2> SUFFICES ASSUME NEW y \in Nat, y < x PROVE <<y, x>> \in OpToRel(<, Nat)
      OBVIOUS
    <2>1. <<y, x>> \in Nat \X Nat /\ <<y, x>>[1] = y /\ <<y, x>>[2] = x
      OBVIOUS
    <2> QED BY <2>1, Zenon DEF OpToRel
  <1>3. \A y \in S : ~(y < x)
    BY <1>1, <1>2, Zenon
  <1> QED BY <1>3

\* What open_file does to the files: path p leads to f, which was there or is new.
Fresh(v, p) == v.link[p] = NoInode
FileOf(v, p, f) ==
    /\ f \in Inodes
    /\ IF Fresh(v, p) THEN f \in FreeInodes(v) ELSE f = v.link[p]
SameFiles(v, u, p, f) ==
    /\ u \in World
    /\ \A q \in Paths : u.link[q] = IF q = p THEN f ELSE v.link[q]
    /\ \A g \in Inodes : u.data[g] = IF Fresh(v, p) /\ g = f THEN <<>> ELSE v.data[g]

\* The exclusive check lets the file be opened.
Allowed(v, f, m) ==
    Writing(m) => /\ ~("exclusive" \in m /\ v.lock[f] = "theirs")
                  /\ v.cache[f] = {} \/ "exclusive" \notin v.cache[f] \cup m

\* A file that was opened and closed again: its lock is gone.
OpenRefused(v, o, p, m, f) ==
    /\ o.h = NoFile /\ FileOf(v, p, f) /\ SameFiles(v, o.v, p, f)
    /\ ~Allowed(v, f, m)
    /\ o.v.desc = v.desc /\ o.v.lost = v.lost
    /\ \A g \in Inodes : g # f => o.v.lock[g] = v.lock[g]
    /\ \A g \in Inodes : o.v.cache[g] = v.cache[g]
    /\ o.v.weak = IF OpenOn(v, f) # {} THEN v.weak \cup {f} ELSE v.weak \ {f}

\* A file that was opened: slot i was empty and is its descriptor.
OpenedSlot(v, o, p, m, f, i) ==
    /\ FileOf(v, p, f) /\ SameFiles(v, o.v, p, f) /\ Allowed(v, f, m)
    /\ o.h \in HandleSet /\ o.h.idx = i
    /\ i \in 1 .. Len(v.desc) + 1 /\ i \notin OpenSlots(v)
    /\ Len(o.v.desc) = IF i = Len(v.desc) + 1 THEN i ELSE Len(v.desc)
    /\ Len(o.v.lost) = IF i = Len(v.desc) + 1 THEN i ELSE Len(v.lost)
    /\ \A j \in DOMAIN v.desc : j # i => o.v.desc[j] = v.desc[j]
    /\ \A j \in DOMAIN v.desc : o.v.lost[j] = v.lost[j]
    /\ i \notin DOMAIN v.desc => o.v.lost[i] = 0
    /\ o.v.desc[i].inode = f /\ o.v.desc[i].mode = m
    /\ o.v.desc[i].seq = o.h.seq /\ o.v.desc[i].ref = 1
    /\ o.v.weak = v.weak
    /\ \A g \in Inodes : o.v.lock[g] = IF g = f /\ "exclusive" \in m THEN "ours" ELSE v.lock[g]
    /\ \A g \in Inodes : o.v.cache[g] = IF g = f /\ Writing(m) /\ v.cache[f] = {} THEN m ELSE v.cache[g]

\* The three outcomes of open_file.
OpenOutcome(v, o, p, m) ==
    \/ o.h = NoFile /\ o.v = v
    \/ \E f \in Inodes : OpenRefused(v, o, p, m, f)
    \/ \E f \in Inodes, i \in Nat : OpenedSlot(v, o, p, m, f, i)

LEMMA OpenFields ==
    ASSUME NEW v, Sound(v), NEW p \in Paths, NEW m \in SUBSET Flags, NEW works \in BOOLEAN,
           CanOpen(v, p) \/ "auto_create" \notin m
    PROVE  OpenOutcome(v, Open(v, p, m, works), p, m)
  <1> DEFINE fresh == v.link[p] = NoInode
             f == IF fresh THEN CHOOSE x \in FreeInodes(v) : TRUE ELSE v.link[p]
             made == IF fresh THEN [v EXCEPT !.link[p] = f, !.data[f] = <<>>] ELSE v
             chk == ExclusiveCheck(made, f, m)
             empty == {j \in DOMAIN v.desc : v.desc[j] = Slot0}
             i == IF empty = {} THEN Len(v.desc) + 1
                  ELSE CHOOSE x \in empty : \A y \in empty : x <= y
             gen == (v.gen + 1) % SeqWidth
             slot == [inode |-> f, mode |-> m, pos |-> Len(made.data[f]), seq |-> gen, ref |-> 1]
             o == Open(v, p, m, works)
  <1>0. v \in World /\ v.desc \in Seq(SlotSet) /\ v.lost \in Seq(Nat) /\ Len(v.lost) = Len(v.desc)
    BY DEF Sound, World
  <1>1. CASE ~works \/ (fresh /\ "auto_create" \notin m)
    <2>1. o = [v |-> v, h |-> NoFile]
      BY <1>1 DEF Open
    <2>2. o.v = v /\ o.h = NoFile
      BY <2>1
    <2> QED BY <2>2 DEF OpenOutcome
  <1>2. CASE ~(~works \/ (fresh /\ "auto_create" \notin m))
    <2>1. FileOf(v, p, f)
      BY <1>0, <1>2, Constants DEF CanOpen, FileOf, Fresh, FreeInodes, World
    <2>2. f \in Inodes
      BY <2>1 DEF FileOf
    <2> HIDE DEF f
    <2>3. /\ made \in World /\ SameFiles(v, made, p, f)
          /\ made.desc = v.desc /\ made.lost = v.lost /\ made.gen = v.gen
          /\ made.cache = v.cache /\ made.lock = v.lock /\ made.weak = v.weak
      <3>1. CASE fresh
        <4>1. made = [v EXCEPT !.link[p] = f, !.data[f] = <<>>]
          BY <3>1
        <4>2. v.link \in [Paths -> Inodes \cup {NoInode}] /\ v.data \in [Inodes -> Seq(Nat)]
          BY <1>0 DEF World
        <4>3. /\ made.link = [v.link EXCEPT ![p] = f] /\ made.data = [v.data EXCEPT ![f] = <<>>]
              /\ made.desc = v.desc /\ made.lost = v.lost /\ made.gen = v.gen
              /\ made.cache = v.cache /\ made.lock = v.lock /\ made.weak = v.weak
          BY <1>0, <4>1 DEF World
        <4>4. /\ made.link \in [Paths -> Inodes \cup {NoInode}] /\ made.data \in [Inodes -> Seq(Nat)]
          BY <2>2, <4>2, <4>3
        <4>5. made \in World
          BY <1>0, <4>1, <4>4 DEF World
        <4>6. SameFiles(v, made, p, f)
          BY <2>2, <3>1, <4>2, <4>3, <4>5 DEF SameFiles, Fresh
        <4> QED BY <4>3, <4>5, <4>6
      <3>2. CASE ~fresh
        BY <1>0, <2>1, <3>2 DEF World, SameFiles, Fresh, FileOf
      <3> QED BY <3>1, <3>2
    <2>4. CheckedFile(made, chk, f, m)
      BY <2>2, <2>3, CheckFields
    <2>5. o = IF ~chk.ok THEN [v |-> RawClose(chk.v, f, OpenOn(v, f)), h |-> NoFile]
              ELSE [v |-> [chk.v EXCEPT !.gen  = gen,
                             !.desc = IF empty = {} THEN Append(@, slot) ELSE [@ EXCEPT ![i] = slot],
                             !.lost = IF empty = {} THEN Append(@, 0) ELSE @],
                    h |-> [idx |-> i, seq |-> gen]]
      BY <1>2 DEF Open, f
    <2> HIDE DEF made, chk, o
    <2>6. Allowed(v, f, m) <=> chk.ok
      BY <2>3, <2>4 DEF Allowed, CheckedFile
    <2>7. /\ chk.v \in World /\ chk.v.link = made.link /\ chk.v.data = made.data
          /\ chk.v.desc = v.desc /\ chk.v.lost = v.lost /\ chk.v.weak = v.weak
      BY <2>3, <2>4 DEF CheckedFile
    <2>8. CASE ~chk.ok
      <3> DEFINE c == chk.v
                 u == RawClose(c, f, OpenOn(v, f))
      <3>1. o.v = u /\ o.h = NoFile
        BY <2>5, <2>8
      <3>2. /\ u.link = c.link /\ u.data = c.data /\ u.desc = c.desc
            /\ u.gen = c.gen /\ u.lost = c.lost /\ u.cache = c.cache
            /\ \A g \in Inodes : g # f => u.lock[g] = c.lock[g]
            /\ u.lock \in [Inodes -> {"free", "ours", "theirs"}]
            /\ u.weak = IF OpenOn(v, f) # {} THEN c.weak \cup {f} ELSE c.weak \ {f}
        BY <2>2, <2>7 DEF World, RawClose
      <3>3. u.weak \in SUBSET Inodes
        BY <2>2, <2>7, <3>2 DEF World
      <3>4. u \in World
        BY <2>7, <3>2, <3>3 DEF World, RawClose
      <3> HIDE DEF u
      <3>5. SameFiles(v, u, p, f)
        BY <2>3, <2>7, <3>2, <3>4 DEF SameFiles
      <3>6. /\ \A g \in Inodes : g # f => c.lock[g] = v.lock[g]
            /\ \A g \in Inodes : c.cache[g] = v.cache[g]
        BY <2>3, <2>4, <2>8 DEF CheckedFile
      <3>7. OpenRefused(v, o, p, m, f)
        BY <2>1, <2>6, <2>7, <2>8, <3>1, <3>2, <3>5, <3>6 DEF OpenRefused
      <3> QED BY <2>2, <3>7 DEF OpenOutcome, o
    <2>9. CASE chk.ok
      <3>1. gen \in 0 .. SeqWidth - 1
        BY <1>0, Constants DEF World
      <3>2. /\ i \in 1 .. Len(v.desc) + 1 /\ i \notin OpenSlots(v)
            /\ empty = {} => i = Len(v.desc) + 1
            /\ empty # {} => i \in DOMAIN v.desc
        <4>1. CASE empty = {}
          BY <1>0, <4>1 DEF OpenSlots
        <4>2. CASE empty # {}
          <5>1. empty \subseteq Nat
            BY <1>0
          <5>2. \E x \in empty : \A y \in empty : x <= y
            <6> HIDE DEF empty
            <6> QED BY <4>2, <5>1, FirstNumber
          <5>3. i \in empty
            BY <4>2, <5>2
          <5>4. i \in DOMAIN v.desc /\ v.desc[i].inode = NoInode
            <6>1. i \in DOMAIN v.desc /\ v.desc[i] = Slot0
              <7> HIDE DEF i
              <7> QED BY <5>3
            <6> HIDE DEF i
            <6> QED BY <6>1 DEF Slot0
          <5> HIDE DEF i
          <5> QED BY <1>0, <4>2, <5>4 DEF OpenSlots
        <4> QED BY <4>1, <4>2
      <3>3. slot \in SlotSet
        <4>1. made.data[f] \in Seq(Nat)
          BY <2>2, <2>3 DEF World
        <4>2. Len(made.data[f]) \in Nat
          BY <4>1
        <4> HIDE DEF gen
        <4> QED BY <2>2, <3>1, <4>2 DEF SlotSet
      <3> DEFINE d == IF empty = {} THEN Append(v.desc, slot) ELSE [v.desc EXCEPT ![i] = slot]
                 l == IF empty = {} THEN Append(v.lost, 0) ELSE v.lost
      <3>4. /\ slot.inode = f /\ slot.mode = m /\ slot.seq = gen /\ slot.ref = 1
        OBVIOUS
      <3> HIDE DEF i, gen, slot, empty
      <3>5. /\ d \in Seq(SlotSet) /\ l \in Seq(Nat)
            /\ Len(d) = IF i = Len(v.desc) + 1 THEN i ELSE Len(v.desc)
            /\ Len(l) = IF i = Len(v.desc) + 1 THEN i ELSE Len(v.lost)
            /\ \A j \in DOMAIN v.desc : j # i => d[j] = v.desc[j]
            /\ \A j \in DOMAIN v.desc : l[j] = v.lost[j]
            /\ i \notin DOMAIN v.desc => l[i] = 0
            /\ d[i] = slot
        <4>1. CASE empty = {}
          BY <1>0, <3>2, <3>3, <4>1
        <4>2. CASE empty # {}
          BY <1>0, <3>2, <3>3, <4>2
        <4> QED BY <4>1, <4>2
      <3>6. /\ o.v = [chk.v EXCEPT !.gen = gen, !.desc = d, !.lost = l]
            /\ o.h = [idx |-> i, seq |-> gen]
        BY <2>5, <2>7, <2>9
      <3> HIDE DEF d, l
      <3>7. /\ o.v.link = made.link /\ o.v.data = made.data /\ o.v.desc = d /\ o.v.lost = l
            /\ o.v.weak = v.weak /\ o.v.lock = chk.v.lock /\ o.v.cache = chk.v.cache
            /\ o.v \in World
        BY <2>7, <3>1, <3>5, <3>6, ZenonT(30) DEF World
      <3>8. o.h \in HandleSet /\ o.h.idx = i /\ o.h.seq = gen
        BY <3>1, <3>2, <3>6 DEF HandleSet
      <3>9. SameFiles(v, o.v, p, f)
        BY <2>3, <3>7 DEF SameFiles
      <3>10. /\ \A g \in Inodes : o.v.lock[g] = IF g = f /\ "exclusive" \in m THEN "ours" ELSE v.lock[g]
             /\ \A g \in Inodes : o.v.cache[g] = IF g = f /\ Writing(m) /\ v.cache[f] = {} THEN m ELSE v.cache[g]
        <4>1. CASE Writing(m)
          BY <2>3, <2>4, <2>9, <3>7, <4>1 DEF CheckedFile
        <4>2. CASE ~Writing(m)
          BY <2>3, <2>4, <3>7, <4>2 DEF CheckedFile, Writing
        <4> QED BY <4>1, <4>2
      <3>11. OpenedSlot(v, o, p, m, f, i)
        BY <2>1, <2>6, <2>9, <3>2, <3>4, <3>5, <3>7, <3>8, <3>9, <3>10 DEF OpenedSlot
      <3>12. i \in Nat
        BY <1>0, <3>2
      <3> QED BY <2>2, <3>11, <3>12 DEF OpenOutcome, o
    <2> QED BY <2>8, <2>9
  <1> QED BY <1>1, <1>2

\* A file opened into an empty place: its slot was nobody's.
LEMMA OpenExact ==
    ASSUME NEW v, NEW a, Exact(v, a), NEW k \in Keys, a[k] = NoFile,
           NEW p, NEW m, NEW o, OpenOutcome(v, o, p, m)
    PROVE  Exact(o.v, With(a, k, o.h))
  <1>0. /\ a \in Assignments /\ v \in World /\ Sound(v) /\ Counted(v, a) /\ Named(v, a)
        /\ v.lost \in Seq(Nat) /\ v.desc \in Seq(SlotSet) /\ Len(v.lost) = Len(v.desc)
    BY DEF Exact, Sound, World
  <1>1. CASE o.h = NoFile /\ o.v = v
    <2>1. With(a, k, NoFile) = a
      BY <1>0 DEF With, Assignments
    <2> QED BY <1>1, <2>1
  <1>2. ASSUME NEW f \in Inodes, OpenRefused(v, o, p, m, f)
        PROVE  Exact(o.v, With(a, k, o.h))
    <2>1. /\ o.h = NoFile /\ o.v \in World /\ o.v.desc = v.desc /\ o.v.lost = v.lost
      BY <1>2 DEF OpenRefused, SameFiles
    <2>2. With(a, k, NoFile) = a
      BY <1>0 DEF With, Assignments
    <2>3. Exact(o.v, a)
      BY <2>1, SameSlots
    <2> QED BY <2>1, <2>2, <2>3
  <1>3. ASSUME NEW f \in Inodes, NEW i \in Nat, OpenedSlot(v, o, p, m, f, i)
        PROVE  Exact(o.v, With(a, k, o.h))
    <2> DEFINE u == o.v
               x == o.h
               b == With(a, k, x)
    <2>1. /\ u \in World /\ x \in HandleSet /\ x.idx = i /\ i \in 1 .. Len(v.desc) + 1
          /\ Len(u.desc) = IF i = Len(v.desc) + 1 THEN i ELSE Len(v.desc)
          /\ Len(u.lost) = IF i = Len(v.desc) + 1 THEN i ELSE Len(v.lost)
          /\ \A j \in DOMAIN v.desc : j # i => u.desc[j] = v.desc[j]
          /\ \A j \in DOMAIN v.desc : u.lost[j] = v.lost[j]
          /\ i \notin DOMAIN v.desc => u.lost[i] = 0
          /\ u.desc[i].inode = f /\ u.desc[i].seq = x.seq /\ u.desc[i].ref = 1
      BY <1>3 DEF OpenedSlot, SameFiles
    <2>2. i \notin OpenSlots(v)
      BY <1>3 DEF OpenedSlot
    <2>3. x \in HandleSet
      BY <2>1
    <2> HIDE DEF u, x
    <2>4. a \in Assignments
      BY <1>0
    <2>5. b \in Assignments /\ \A j \in Keys : b[j] = IF j = k THEN x ELSE a[j]
      BY <2>3, <2>4, WithType
    <2>6. ASSUME NEW j \in Nat, j # 0
          PROVE  /\ Count(a, j) \in Nat /\ Count(b, j) \in Nat
                 /\ Count(b, j) = IF x.idx = j THEN Count(a, j) + 1 ELSE Count(a, j)
      BY <2>3, <2>4, <2>6, CountGive
    <2> HIDE DEF b
    <2>7. Count(a, i) = 0
      <3>1. \A j \in Keys : a[j].idx # i
        BY <1>0, <2>1, <2>2 DEF Named
      <3> QED BY <2>4, <3>1, CountZero
    <2>8. u.desc \in Seq(SlotSet) /\ u.lost \in Seq(Nat)
      BY <2>1 DEF World
    <2>9. /\ DOMAIN u.desc = DOMAIN v.desc \cup {i} /\ i # 0
          /\ DOMAIN u.desc = 1 .. Len(u.desc) /\ Len(u.lost) = Len(u.desc)
      BY <1>0, <2>1, <2>8
    <2>10. OpenSlots(u) = OpenSlots(v) \cup {i}
      BY <2>1, <2>2, <2>9, Constants DEF OpenSlots
    <2>11. u.lost[i] = 0
      BY <1>0, <2>1, <2>2 DEF Sound, OpenSlots
    <2>12. Sound(u)
      BY <1>0, <2>1, <2>9, <2>11 DEF Sound
    <2>13. Counted(u, b)
      <3> SUFFICES ASSUME NEW j \in OpenSlots(u)
                   PROVE  u.desc[j].ref = u.lost[j] + Count(b, j)
        BY DEF Counted
      <3>1. CASE j = i
        BY <2>1, <2>6, <2>7, <2>9, <2>11, <3>1
      <3>2. CASE j # i
        <4>1. j \in OpenSlots(v)
          BY <2>10, <3>2
        <4>2. j \in Nat /\ j # 0 /\ j \in DOMAIN v.desc /\ v.desc[j].ref = v.lost[j] + Count(a, j)
          BY <1>0, <4>1, OpenSlot DEF Counted
        <4> QED BY <2>1, <2>6, <3>2, <4>2
      <3> QED BY <3>1, <3>2
    <2>14. Named(u, b)
      <3> SUFFICES ASSUME NEW j \in Keys
                   PROVE  /\ b[j].idx = 0 => b[j] = NoFile
                          /\ b[j].idx # 0 => b[j].idx \in OpenSlots(u) /\ u.desc[b[j].idx].seq = b[j].seq
        BY DEF Named
      <3>1. CASE j = k
        BY <2>1, <2>5, <2>9, <2>10, <3>1
      <3>2. CASE j # k
        <4>1. b[j] = a[j]
          BY <2>5, <3>2
        <4>2. /\ a[j].idx = 0 => a[j] = NoFile
              /\ a[j].idx # 0 => a[j].idx \in OpenSlots(v) /\ v.desc[a[j].idx].seq = a[j].seq
          BY <1>0 DEF Named
        <4> QED BY <2>1, <2>2, <2>10, <4>1, <4>2 DEF OpenSlots
      <3> QED BY <3>1, <3>2
    <2>15. Exact(u, b)
      BY <2>5, <2>12, <2>13, <2>14 DEF Exact
    <2> QED BY <2>15 DEF u, b, x
  <1> QED BY <1>1, <1>2, <1>3 DEF OpenOutcome

\* Steps that leave the descriptors as they are but for their positions.
SameDesc(v, u) ==
    /\ u \in World /\ u.lost = v.lost /\ Len(u.desc) = Len(v.desc)
    /\ \A i \in DOMAIN v.desc : /\ u.desc[i].inode = v.desc[i].inode
                                /\ u.desc[i].seq = v.desc[i].seq
                                /\ u.desc[i].ref = v.desc[i].ref
                                /\ u.desc[i].mode = v.desc[i].mode

LEMMA SameDescExact ==
    ASSUME NEW v, NEW a, Exact(v, a), NEW u, SameDesc(v, u)
    PROVE  Exact(u, a)
  <1>1. u \in World
    BY DEF SameDesc
  <1> QED BY <1>1, SameSlots DEF SameDesc

\* A seek.
Seeked(v, u) ==
    /\ SameDesc(v, u) /\ u.link = v.link /\ u.data = v.data
    /\ u.cache = v.cache /\ u.lock = v.lock /\ u.weak = v.weak

LEMMA PosFields ==
    ASSUME NEW v \in World, NEW i \in OpenSlots(v), NEW x \in Nat,
           NEW u, u = [v EXCEPT !.desc[i].pos = x]
    PROVE  Seeked(v, u)
  <1> DEFINE s == [v.desc[i] EXCEPT !.pos = x]
  <1>1. /\ u.link = v.link /\ u.data = v.data /\ u.lost = v.lost
        /\ u.cache = v.cache /\ u.lock = v.lock /\ u.weak = v.weak
        /\ u.desc = [v.desc EXCEPT ![i] = s]
    BY DEF World
  <1>2. i \in DOMAIN v.desc /\ v.desc[i] \in SlotSet
    BY OpenSlot
  <1>3. s \in SlotSet /\ s.inode = v.desc[i].inode /\ s.seq = v.desc[i].seq
        /\ s.ref = v.desc[i].ref /\ s.mode = v.desc[i].mode
    BY <1>2 DEF SlotSet
  <1> HIDE DEF s
  <1>4. v.desc \in Seq(SlotSet)
    BY DEF World
  <1> DEFINE d == v.desc
             e == u.desc
  <1>8. d \in Seq(SlotSet) /\ i \in DOMAIN d /\ s \in SlotSet /\ e = [d EXCEPT ![i] = s]
    BY <1>1, <1>2, <1>3, <1>4
  <1> HIDE DEF d, e
  <1>9. e \in Seq(SlotSet) /\ Len(e) = Len(d)
        /\ \A j \in DOMAIN d : e[j] = IF j = i THEN s ELSE d[j]
    BY <1>8
  <1>5. /\ u.desc \in Seq(SlotSet) /\ Len(u.desc) = Len(v.desc)
        /\ \A j \in DOMAIN v.desc : u.desc[j] = IF j = i THEN s ELSE v.desc[j]
    BY <1>9 DEF d, e
  <1>6. u \in World
    BY <1>5 DEF World
  <1>7. SameDesc(v, u)
    BY <1>1, <1>3, <1>5, <1>6 DEF SameDesc
  <1> QED BY <1>1, <1>7 DEF Seeked

-----------------------------------------------------------------------------
(* Bytes and names                                                          *)

\* The bytes of file f and the positions of descriptors changed, nothing else.
Edited(v, u, f) ==
    /\ SameDesc(v, u) /\ u.link = v.link
    /\ u.cache = v.cache /\ u.lock = v.lock /\ u.weak = v.weak
    /\ \A g \in Inodes : g # f => u.data[g] = v.data[g]

LEMMA NotEdited ==
    ASSUME NEW v \in World, NEW f
    PROVE  Edited(v, v, f)
  BY DEF Edited, SameDesc

\* File f has the bytes s.
Rewritten(v, u, f, s) == Edited(v, u, f) /\ u.data[f] = s

LEMMA EditFields ==
    ASSUME NEW v \in World, NEW i \in OpenSlots(v), NEW s \in Seq(Nat), NEW x \in Nat,
           NEW f \in Inodes, NEW u, u = [v EXCEPT !.data[f] = s, !.desc[i].pos = x]
    PROVE  Rewritten(v, u, f, s)
  <1> DEFINE c == [v EXCEPT !.data[f] = s]
  <1>1. /\ c.data = [v.data EXCEPT ![f] = s] /\ c.desc = v.desc
        /\ c.link = v.link /\ c.lost = v.lost /\ c.gen = v.gen
        /\ c.cache = v.cache /\ c.lock = v.lock /\ c.weak = v.weak
    BY DEF World
  <1>2. c.data \in [Inodes -> Seq(Nat)]
    BY <1>1 DEF World
  <1>3. c \in World
    BY <1>1, <1>2 DEF World
  <1>4. u = [c EXCEPT !.desc[i].pos = x]
    BY DEF World
  <1>5. i \in OpenSlots(c)
    BY <1>1 DEF OpenSlots
  <1>6. v.data \in [Inodes -> Seq(Nat)]
    BY DEF World
  <1> HIDE DEF c
  <1>10. Seeked(c, u)
    BY <1>3, <1>4, <1>5, PosFields
  <1>7. /\ SameDesc(c, u) /\ u.link = c.link /\ u.data = c.data
        /\ u.cache = c.cache /\ u.lock = c.lock /\ u.weak = c.weak
    BY <1>10 DEF Seeked
  <1>8. SameDesc(v, u)
    BY <1>1, <1>7 DEF SameDesc
  <1>9. \A g \in Inodes : u.data[g] = IF g = f THEN s ELSE v.data[g]
    BY <1>1, <1>6, <1>7
  <1> QED BY <1>1, <1>7, <1>8, <1>9 DEF Edited, Rewritten

LEMMA PutType ==
    ASSUME NEW s \in Seq(Nat), NEW b \in Seq(Nat), NEW pos \in Nat
    PROVE  Put(s, pos, b) \in Seq(Nat) /\ Len(Put(s, pos, b)) >= Len(s)
  <1> DEFINE n == IF pos + Len(b) > Len(s) THEN pos + Len(b) ELSE Len(s)
             r == [i \in 1 .. n |-> IF i \in pos + 1 .. pos + Len(b) THEN b[i - pos]
                                    ELSE IF i <= Len(s) THEN s[i] ELSE 0]
  <1>1. Put(s, pos, b) = r
    BY DEF Put
  <1>2. Len(b) \in Nat /\ Len(s) \in Nat /\ n \in Nat /\ n >= Len(s)
    OBVIOUS
  <1> HIDE DEF n
  <1>3. ASSUME NEW i \in 1 .. n
        PROVE  (IF i \in pos + 1 .. pos + Len(b) THEN b[i - pos]
                ELSE IF i <= Len(s) THEN s[i] ELSE 0) \in Nat
    <2>1. i \in pos + 1 .. pos + Len(b) => b[i - pos] \in Nat
      <3> SUFFICES ASSUME i \in pos + 1 .. pos + Len(b) PROVE b[i - pos] \in Nat
        OBVIOUS
      <3>1. i - pos \in 1 .. Len(b)
        BY <1>2
      <3> QED BY <3>1
    <2>2. i <= Len(s) => s[i] \in Nat
      BY <1>2
    <2> QED BY <2>1, <2>2
  <1>4. r \in Seq(Nat) /\ Len(r) = n
    BY <1>2, <1>3
  <1> QED BY <1>1, <1>2, <1>4

\* write_file: the bytes of the descriptor's file, which does not become shorter.
LEMMA WriteFields ==
    ASSUME NEW v \in World, NEW h, h.idx \in OpenSlots(v), NEW b \in Nat, NEW n, NEW k \in Nat,
           NEW opt, NEW u, u = Write(v, h, b, n, k, opt)
    PROVE  /\ Edited(v, u, v.desc[h.idx].inode)
           /\ \A g \in Inodes : Len(u.data[g]) >= Len(v.data[g])
  <1> DEFINE i == h.idx
             f == v.desc[i].inode
             pos == CASE opt = "begin" -> 0 [] opt = "end" -> Len(v.data[f]) [] OTHER -> v.desc[i].pos
             bytes == [j \in 1 .. k |-> b]
             s == IF k = 0 THEN v.data[f] ELSE Put(v.data[f], pos, bytes)
  <1>1. i \in OpenSlots(v) /\ v.desc[i] \in SlotSet /\ f \in Inodes
    BY OpenSlot
  <1>2. v.data \in [Inodes -> Seq(Nat)] /\ v.data[f] \in Seq(Nat)
    BY <1>1 DEF World
  <1>3. v.desc[i].pos \in Nat /\ Len(v.data[f]) \in Nat
    BY <1>1, <1>2 DEF SlotSet
  <1>4. pos \in Nat
    BY <1>3
  <1>5. bytes \in Seq(Nat)
    OBVIOUS
  <1>6. u = IF n = 0 THEN v
            ELSE IF "write" \notin v.desc[i].mode THEN [v EXCEPT !.desc[i].pos = pos]
            ELSE [v EXCEPT !.data[f] = s, !.desc[i].pos = pos + k]
    <2>1. [v EXCEPT !.data[f] = IF k = 0 THEN @ ELSE Put(@, pos, bytes), !.desc[i].pos = pos + k]
            = [v EXCEPT !.data[f] = s, !.desc[i].pos = pos + k]
      OBVIOUS
    <2> QED BY <2>1 DEF Write
  <1> HIDE DEF pos, bytes, f, i
  <1>7. s \in Seq(Nat) /\ Len(s) >= Len(v.data[f])
    BY <1>2, <1>4, <1>5, PutType
  <1>8. \A g \in Inodes : Len(v.data[g]) \in Nat
    BY <1>2
  <1> HIDE DEF s
  <1>9. CASE n = 0
    BY <1>6, <1>8, <1>9, NotEdited DEF i, f
  <1>10. CASE n # 0 /\ "write" \notin v.desc[i].mode
    <2>1. u = [v EXCEPT !.desc[i].pos = pos]
      BY <1>6, <1>10
    <2>2. Seeked(v, u)
      BY <1>1, <1>4, <2>1, PosFields
    <2> QED BY <1>8, <2>2 DEF Edited, Seeked
  <1>11. CASE n # 0 /\ "write" \in v.desc[i].mode
    <2>1. u = [v EXCEPT !.data[f] = s, !.desc[i].pos = pos + k]
      BY <1>6, <1>11
    <2>2. pos + k \in Nat
      BY <1>4
    <2>5. i \in OpenSlots(v)
      BY <1>1
    <2>6. f \in Inodes
      BY <1>1
    <2>7. s \in Seq(Nat)
      BY <1>7
    <2>3. Rewritten(v, u, f, s)
      BY <2>1, <2>2, <2>5, <2>6, <2>7, EditFields
    <2>4. ASSUME NEW g \in Inodes
          PROVE  Len(u.data[g]) >= Len(v.data[g])
      BY <1>7, <1>8, <2>3 DEF Edited, Rewritten
    <2> QED BY <2>3, <2>4 DEF i, f, Rewritten
  <1> QED BY <1>9, <1>10, <1>11

\* truncate_file: the bytes of the descriptor's file, which gets the length asked for.
LEMMA TruncateFields ==
    ASSUME NEW v \in World, NEW h, h.idx \in OpenSlots(v), NEW n \in Nat, NEW how,
           NEW u, u = Truncate(v, h, n, how)
    PROVE  /\ Edited(v, u, v.desc[h.idx].inode)
           /\ "write" \notin v.desc[h.idx].mode => u.data = v.data
           /\ how # "fails" /\ "write" \in v.desc[h.idx].mode =>
                 Len(u.data[v.desc[h.idx].inode]) = n
  <1> DEFINE i == h.idx
             f == v.desc[i].inode
             s == [j \in 1 .. n |-> IF j <= Len(v.data[f]) THEN v.data[f][j] ELSE 0]
             x == IF how = "unchecked" THEN v.desc[i].pos ELSE n
  <1>1. i \in OpenSlots(v) /\ v.desc[i] \in SlotSet /\ f \in Inodes
    BY OpenSlot
  <1>2. v.data[f] \in Seq(Nat)
    BY <1>1 DEF World
  <1>3. x \in Nat
    BY <1>1 DEF SlotSet
  <1>4. u = IF how = "fails" \/ "write" \notin v.desc[i].mode THEN v
            ELSE [v EXCEPT !.data[f] = s, !.desc[i].pos = x]
    BY DEF Truncate
  <1>5. s \in Seq(Nat) /\ Len(s) = n
    <2> DEFINE d == v.data[f]
    <2>4. d \in Seq(Nat)
      BY <1>2
    <2>2. s = [j \in 1 .. n |-> IF j <= Len(d) THEN d[j] ELSE 0]
      OBVIOUS
    <2> HIDE DEF d, s
    <2>1. d \in Seq(Nat) /\ Len(d) \in Nat
      BY <2>4
    <2>3. \A j \in 1 .. n : (IF j <= Len(d) THEN d[j] ELSE 0) \in Nat
      BY <2>1
    <2> QED BY <2>2, <2>3
  <1> HIDE DEF s, x, f, i
  <1>6. CASE how = "fails" \/ "write" \notin v.desc[i].mode
    BY <1>4, <1>6, NotEdited DEF i, f
  <1>7. CASE ~(how = "fails" \/ "write" \notin v.desc[i].mode)
    <2>1. u = [v EXCEPT !.data[f] = s, !.desc[i].pos = x]
      BY <1>4, <1>7
    <2>3. i \in OpenSlots(v)
      BY <1>1
    <2>4. f \in Inodes
      BY <1>1
    <2>5. s \in Seq(Nat)
      BY <1>5
    <2>2. Rewritten(v, u, f, s)
      BY <1>3, <2>1, <2>3, <2>4, <2>5, EditFields
    <2> QED BY <1>5, <1>7, <2>2 DEF i, f, Rewritten
  <1> QED BY <1>6, <1>7

\* A removed name.
LEMMA UnlinkFields ==
    ASSUME NEW v \in World, NEW p \in Paths, NEW u, u = Unlink(v, p)
    PROVE  /\ SameDesc(v, u) /\ u.desc = v.desc /\ u.data = v.data
           /\ u.cache = v.cache /\ u.lock = v.lock /\ u.weak = v.weak
  <1>1. /\ u.desc = v.desc /\ u.data = v.data /\ u.gen = v.gen /\ u.lost = v.lost
        /\ u.cache = v.cache /\ u.lock = v.lock /\ u.weak = v.weak
        /\ u.link = [v.link EXCEPT ![p] = NoInode]
    BY DEF World, Unlink
  <1>2. u.link \in [Paths -> Inodes \cup {NoInode}]
    BY <1>1 DEF World
  <1>3. u \in World
    BY <1>1, <1>2 DEF World, Unlink
  <1> QED BY <1>1, <1>3 DEF SameDesc

\* A changed record lock.
LEMMA LockFields ==
    ASSUME NEW v \in World, NEW f \in Inodes, NEW x \in {"free", "ours", "theirs"},
           NEW u, u = [v EXCEPT !.lock[f] = x]
    PROVE  /\ SameDesc(v, u) /\ u.desc = v.desc /\ u.data = v.data
           /\ u.cache = v.cache /\ u.weak = v.weak
           /\ \A g \in Inodes : u.lock[g] = IF g = f THEN x ELSE v.lock[g]
  <1>1. /\ u.desc = v.desc /\ u.data = v.data /\ u.gen = v.gen /\ u.lost = v.lost
        /\ u.cache = v.cache /\ u.weak = v.weak
        /\ u.lock = [v.lock EXCEPT ![f] = x]
    BY DEF World
  <1>2. v.lock \in [Inodes -> {"free", "ours", "theirs"}]
    BY DEF World
  <1>3. u.lock \in [Inodes -> {"free", "ours", "theirs"}]
    BY <1>1, <1>2
  <1>4. u \in World
    BY <1>1, <1>3 DEF World
  <1> QED BY <1>1, <1>2, <1>4 DEF SameDesc

-----------------------------------------------------------------------------
(* Files opened exclusively, and the buffers mapped from them                *)

FileKey(b) == <<"file", b>>
MapKey(b)  == <<"map", b>>

LEMMA BufKeys ==
    ASSUME NEW b \in Bufs
    PROVE  FileKey(b) \in Keys /\ MapKey(b) \in Keys /\ FileKey(b) # MapKey(b)
  <1>1. FileKey(b) \in Held /\ MapKey(b) \in Held
    BY DEF FileKey, MapKey, Held
  <1>2. FileKey(b) # MapKey(b)
    BY DEF FileKey, MapKey
  <1> QED BY <1>1, <1>2 DEF Keys

\* A descriptor that writes is in the table, and an exclusive one is the only
\* one that writes, unless a close took the protection away.
Protected(v, f, i) ==
    /\ v.cache[f] # {}
    /\ "exclusive" \in v.desc[i].mode =>
          /\ "exclusive" \in v.cache[f] /\ v.lock[f] = "ours"
          /\ \A j \in OpenOn(v, f) \ {i} : ~Writing(v.desc[j].mode)
Guarded(v) ==
    \A f \in Inodes :
        /\ v.cache[f] # {} => OpenOn(v, f) # {}
        /\ \A i \in OpenOn(v, f) : f \notin v.weak /\ Writing(v.desc[i].mode) => Protected(v, f, i)

\* The file of a mapped buffer is its own, and has the z[b] bytes of the buffer.
Alone(a, b, i) == \A k \in Keys : a[k].idx = i => k \in {FileKey(b), MapKey(b)}
Covers(v, a, b, i, n) ==
    /\ {"write", "exclusive"} \subseteq v.desc[i].mode
    /\ Alone(a, b, i)
    /\ v.desc[i].inode \notin v.weak => n <= Len(v.data[v.desc[i].inode])
Covered(v, a, z) ==
    \A b \in Bufs : a[MapKey(b)].idx # 0 => Covers(v, a, b, a[MapKey(b)].idx, z[b])

Safe(v, a, z) == Exact(v, a) /\ Guarded(v) /\ z \in [Bufs -> Nat] /\ Covered(v, a, z)

\* A step that opens and closes nothing, takes no protection away and shortens no file.
Tame(v, u) ==
    /\ OpenSlots(u) = OpenSlots(v)
    /\ \A i \in OpenSlots(v) : u.desc[i].inode = v.desc[i].inode /\ u.desc[i].mode = v.desc[i].mode
    /\ u.cache = v.cache /\ u.weak = v.weak
    /\ \A f \in Inodes : v.lock[f] = "ours" => u.lock[f] = "ours"
    /\ \A f \in Inodes : Len(u.data[f]) >= Len(v.data[f])

LEMMA TameGuarded ==
    ASSUME NEW v, NEW u, Guarded(v), Tame(v, u)
    PROVE  Guarded(u)
  <1>1. \A f \in Inodes : OpenOn(u, f) = OpenOn(v, f)
    BY DEF Tame, OpenOn
  <1>2. \A f \in Inodes : \A i \in OpenOn(v, f) : i \in OpenSlots(v) /\ u.desc[i].mode = v.desc[i].mode
    BY DEF Tame, OpenOn
  <1> SUFFICES ASSUME NEW f \in Inodes
               PROVE  /\ u.cache[f] # {} => OpenOn(u, f) # {}
                      /\ \A i \in OpenOn(u, f) : f \notin u.weak /\ Writing(u.desc[i].mode) => Protected(u, f, i)
    BY DEF Guarded
  <1>3. u.cache[f] = v.cache[f] /\ u.weak = v.weak /\ (v.lock[f] = "ours" => u.lock[f] = "ours")
    BY DEF Tame
  <1>4. u.cache[f] # {} => OpenOn(u, f) # {}
    BY <1>1, <1>3 DEF Guarded
  <1>5. ASSUME NEW i \in OpenOn(u, f), f \notin u.weak, Writing(u.desc[i].mode)
        PROVE  Protected(u, f, i)
    <2>1. i \in OpenOn(v, f) /\ u.desc[i].mode = v.desc[i].mode
      BY <1>1, <1>2
    <2>2. Protected(v, f, i)
      BY <1>3, <1>5, <2>1 DEF Guarded
    <2>3. \A j \in OpenOn(u, f) \ {i} : u.desc[j].mode = v.desc[j].mode /\ j \in OpenOn(v, f) \ {i}
      BY <1>1, <1>2
    <2> QED BY <1>3, <2>1, <2>2, <2>3 DEF Protected
  <1> QED BY <1>4, <1>5

\* What a slot covers stays covered while it is open.
LEMMA MapSlot ==
    ASSUME NEW v, NEW a, Exact(v, a), NEW b \in Bufs, a[MapKey(b)].idx # 0
    PROVE  /\ a[MapKey(b)].idx \in OpenSlots(v)
           /\ v.desc[a[MapKey(b)].idx].inode \in Inodes
  <1>1. a[MapKey(b)].idx \in OpenSlots(v)
    BY BufKeys DEF Exact, Named
  <1>2. v \in World
    BY DEF Exact, Sound
  <1> QED BY <1>1, <1>2, OpenSlot

LEMMA TameCovered ==
    ASSUME NEW v, NEW u, NEW a, NEW z \in [Bufs -> Nat], Exact(v, a), u \in World,
           Covered(v, a, z), Tame(v, u)
    PROVE  Covered(u, a, z)
  <1> SUFFICES ASSUME NEW b \in Bufs, a[MapKey(b)].idx # 0
               PROVE  Covers(u, a, b, a[MapKey(b)].idx, z[b])
    BY DEF Covered
  <1> DEFINE i == a[MapKey(b)].idx
             f == v.desc[i].inode
             n == z[b]
  <1>1. i \in OpenSlots(v) /\ f \in Inodes
    BY MapSlot
  <1>2. Covers(v, a, b, i, n)
    BY DEF Covered
  <1>3. n \in Nat
    OBVIOUS
  <1>4. v \in World
    BY DEF Exact, Sound
  <1> HIDE DEF i, n
  <1>5. u.desc[i].inode = f /\ u.desc[i].mode = v.desc[i].mode /\ u.weak = v.weak
    BY <1>1 DEF Tame
  <1> HIDE DEF f
  <1>6. Len(u.data[f]) >= Len(v.data[f]) /\ Len(u.data[f]) \in Nat /\ Len(v.data[f]) \in Nat
    <2>1. u.data[f] \in Seq(Nat) /\ v.data[f] \in Seq(Nat)
      BY <1>1, <1>4 DEF World
    <2> QED BY <1>1, <2>1 DEF Tame
  <1>8. /\ {"write", "exclusive"} \subseteq v.desc[i].mode /\ Alone(a, b, i)
        /\ f \notin v.weak => n <= Len(v.data[f])
    BY <1>2 DEF Covers, f
  <1>9. f \notin u.weak => n <= Len(u.data[f])
    BY <1>3, <1>5, <1>6, <1>8
  <1>7. Covers(u, a, b, i, n)
    BY <1>5, <1>8, <1>9 DEF Covers
  <1> QED BY <1>7 DEF i, n

LEMMA SafeExact ==
    ASSUME NEW v, NEW a, NEW z, Safe(v, a, z)
    PROVE  /\ Exact(v, a) /\ Guarded(v) /\ z \in [Bufs -> Nat] /\ Covered(v, a, z)
           /\ Sound(v) /\ v \in World /\ a \in Assignments
  BY DEF Safe, Exact, Sound

LEMMA TameSafe ==
    ASSUME NEW v, NEW a, NEW z, Safe(v, a, z), NEW u, Exact(u, a), Tame(v, u)
    PROVE  Safe(u, a, z)
  <1>1. Exact(v, a) /\ Guarded(v) /\ z \in [Bufs -> Nat] /\ Covered(v, a, z) /\ u \in World
    BY DEF Safe, Exact, Sound
  <1>2. Guarded(u)
    BY <1>1, TameGuarded
  <1>3. Covered(u, a, z)
    BY <1>1, TameCovered
  <1> QED BY <1>1, <1>2, <1>3 DEF Safe

\* Steps on bytes, positions, names and locks.
LEMMA SameDescTame ==
    ASSUME NEW v \in World, NEW u, SameDesc(v, u), u.cache = v.cache, u.weak = v.weak,
           \A f \in Inodes : v.lock[f] = "ours" => u.lock[f] = "ours",
           \A f \in Inodes : Len(u.data[f]) >= Len(v.data[f])
    PROVE  Tame(v, u)
  <1>1. DOMAIN u.desc = DOMAIN v.desc
    BY DEF SameDesc, World
  <1> QED BY <1>1 DEF Tame, SameDesc, OpenSlots

LEMMA LenSame ==
    ASSUME NEW v \in World, NEW u, u.data = v.data
    PROVE  \A f \in Inodes : Len(u.data[f]) >= Len(v.data[f])
  <1> SUFFICES ASSUME NEW f \in Inodes PROVE Len(u.data[f]) >= Len(v.data[f])
    OBVIOUS
  <1>1. v.data[f] \in Seq(Nat)
    BY DEF World
  <1>2. Len(v.data[f]) \in Nat
    BY <1>1
  <1> QED BY <1>2

LEMMA SeekSafe ==
    ASSUME NEW v, NEW a, NEW z, Safe(v, a, z), NEW u, Seeked(v, u)
    PROVE  Safe(u, a, z)
  <1>1. v \in World /\ Exact(v, a)
    BY SafeExact
  <1>2. Exact(u, a)
    BY <1>1, SameDescExact DEF Seeked
  <1>3. \A f \in Inodes : Len(u.data[f]) >= Len(v.data[f])
    BY <1>1, LenSame DEF Seeked
  <1>4. Tame(v, u)
    BY <1>1, <1>3, SameDescTame DEF Seeked
  <1> QED BY <1>2, <1>4, TameSafe

LEMMA EditSafe ==
    ASSUME NEW v, NEW a, NEW z, Safe(v, a, z), NEW u, NEW f, Edited(v, u, f),
           \A g \in Inodes : Len(u.data[g]) >= Len(v.data[g])
    PROVE  Safe(u, a, z)
  <1>1. v \in World /\ Exact(v, a)
    BY SafeExact
  <1>2. Exact(u, a)
    BY <1>1, SameDescExact DEF Edited
  <1>3. Tame(v, u)
    BY <1>1, SameDescTame DEF Edited
  <1> QED BY <1>2, <1>3, TameSafe

LEMMA UnlinkSafe ==
    ASSUME NEW v, NEW a, NEW z, Safe(v, a, z), NEW p \in Paths, NEW u, u = Unlink(v, p)
    PROVE  Safe(u, a, z)
  <1>1. v \in World /\ Exact(v, a)
    BY SafeExact
  <1>2. /\ SameDesc(v, u) /\ u.desc = v.desc /\ u.data = v.data
        /\ u.cache = v.cache /\ u.lock = v.lock /\ u.weak = v.weak
    BY <1>1, UnlinkFields
  <1>3. Exact(u, a)
    BY <1>1, <1>2, SameDescExact
  <1>4. \A f \in Inodes : Len(u.data[f]) >= Len(v.data[f])
    BY <1>1, <1>2, LenSame
  <1>5. Tame(v, u)
    BY <1>1, <1>2, <1>4, SameDescTame
  <1> QED BY <1>3, <1>5, TameSafe

LEMMA LockSafe ==
    ASSUME NEW v, NEW a, NEW z, Safe(v, a, z), NEW f \in Inodes, NEW x \in {"free", "ours", "theirs"},
           NEW u, u = [v EXCEPT !.lock[f] = x], v.lock[f] # "ours"
    PROVE  Safe(u, a, z)
  <1>1. v \in World /\ Exact(v, a)
    BY SafeExact
  <1>2. /\ SameDesc(v, u) /\ u.desc = v.desc /\ u.data = v.data
        /\ u.cache = v.cache /\ u.weak = v.weak
        /\ \A g \in Inodes : u.lock[g] = IF g = f THEN x ELSE v.lock[g]
    BY <1>1, LockFields
  <1>3. Exact(u, a)
    BY <1>1, <1>2, SameDescExact
  <1>4. \A g \in Inodes : Len(u.data[g]) >= Len(v.data[g])
    BY <1>1, <1>2, LenSame
  <1>6. \A g \in Inodes : v.lock[g] = "ours" => u.lock[g] = "ours"
    BY <1>2
  <1>5. Tame(v, u)
    BY <1>1, <1>2, <1>4, <1>6, SameDescTame
  <1> QED BY <1>3, <1>5, TameSafe

\* A place that is emptied takes nothing from a buffer that stays mapped.
LEMMA EmptiedCovered ==
    ASSUME NEW v, NEW u, NEW a, NEW z, Exact(v, a), NEW k \in Keys, Covered(u, a, z)
    PROVE  Covered(u, With(a, k, NoFile), z)
  <1> DEFINE c == With(a, k, NoFile)
  <1>1. a \in Assignments /\ NoFile \in HandleSet /\ NoFile.idx = 0
    BY Constants DEF Exact
  <1>2. \A j \in Keys : c[j] = IF j = k THEN NoFile ELSE a[j]
    BY <1>1, WithType
  <1> HIDE DEF c
  <1> SUFFICES ASSUME NEW b \in Bufs, c[MapKey(b)].idx # 0
               PROVE  Covers(u, c, b, c[MapKey(b)].idx, z[b])
    BY DEF Covered, c
  <1>3. c[MapKey(b)] = a[MapKey(b)] /\ MapKey(b) # k /\ a[MapKey(b)].idx # 0
    BY <1>1, <1>2, BufKeys
  <1> DEFINE i == a[MapKey(b)].idx
  <1>4. Covers(u, a, b, i, z[b])
    BY <1>3 DEF Covered
  <1>5. Alone(c, b, i)
    <2>1. i # 0
      BY <1>3
    <2> HIDE DEF i
    <2> QED BY <1>1, <1>2, <1>4, <2>1 DEF Alone, Covers
  <1> HIDE DEF i
  <1>6. Covers(u, c, b, i, z[b])
    BY <1>4, <1>5 DEF Covers
  <1> QED BY <1>3, <1>6 DEF i

LEMMA ForgetSafe ==
    ASSUME NEW v, NEW a, NEW z, Safe(v, a, z), NEW k \in Keys, a[k] # NoFile,
           NEW u, u = [v EXCEPT !.lost[a[k].idx] = @ + 1]
    PROVE  Safe(u, With(a, k, NoFile), z) /\ Tame(v, u)
  <1>1. Exact(v, a) /\ Guarded(v) /\ z \in [Bufs -> Nat] /\ Covered(v, a, z) /\ v \in World
    BY SafeExact
  <1>2. Exact(u, With(a, k, NoFile))
    BY <1>1, ForgetExact
  <1>3. /\ u.desc = v.desc /\ u.cache = v.cache /\ u.weak = v.weak /\ u.lock = v.lock /\ u.data = v.data
    BY <1>1 DEF World
  <1>4. \A f \in Inodes : Len(u.data[f]) >= Len(v.data[f])
    BY <1>1, <1>3, LenSame
  <1>5. Tame(v, u)
    BY <1>3, <1>4 DEF Tame, OpenSlots
  <1>6. Guarded(u) /\ u \in World
    BY <1>1, <1>2, <1>5, TameGuarded DEF Exact, Sound
  <1>7. Covered(u, a, z)
    BY <1>1, <1>5, <1>6, TameCovered
  <1>8. Covered(u, With(a, k, NoFile), z)
    BY <1>1, <1>7, EmptiedCovered
  <1> QED BY <1>1, <1>2, <1>5, <1>6, <1>8 DEF Safe

\* The descriptor in slot i was closed.
Gone(v, u, i) ==
    /\ i \in OpenSlots(v) /\ OpenSlots(u) = OpenSlots(v) \ {i}
    /\ \A j \in OpenSlots(v) : j # i => u.desc[j] = v.desc[j]
    /\ u.data = v.data
    /\ LET f == v.desc[i].inode
           left == OpenOn(v, f) \ {i}
       IN  /\ \A g \in Inodes : u.cache[g] = IF g = f THEN {} ELSE v.cache[g]
           /\ \A g \in Inodes : u.lock[g] = IF g = f /\ v.lock[g] = "ours" THEN "free" ELSE v.lock[g]
           /\ u.weak = IF left # {} THEN v.weak \cup {f} ELSE v.weak \ {f}

LEMMA CloseCases ==
    ASSUME NEW v, NEW a, Exact(v, a), NEW k \in Keys, NEW u, u = Close(v, a[k])
    PROVE  Tame(v, u) \/ Gone(v, u, a[k].idx)
  <1> DEFINE h == a[k]
             i == h.idx
  <1>1. v \in World /\ Sound(v) /\ Named(v, a)
    BY DEF Exact, Sound
  <1>2. CASE i = 0
    <2>1. u = v
      BY <1>2 DEF Close, IsValid, IsOpen
    <2>2. \A f \in Inodes : Len(u.data[f]) >= Len(v.data[f])
      BY <1>1, <2>1, LenSame
    <2> QED BY <2>1, <2>2 DEF Tame
  <1>3. CASE i # 0
    <2>1. i \in OpenSlots(v) /\ v.desc[i].seq = h.seq
      BY <1>1, <1>3 DEF Named
    <2>2. i \in DOMAIN v.desc /\ v.desc[i] \in SlotSet /\ v.desc[i].inode \in Inodes
      BY <1>1, <2>1, OpenSlot
    <2>3. IndexOf(v, h) = i
      BY <2>1, <2>2 DEF IndexOf
    <2>4. CASE h.seq > 0
      <3>1. u = DropRef(v, i)
        BY <1>3, <2>3, <2>4 DEF Close, IsValid, IsOpen
      <3> HIDE DEF i, h
      <3>2. DroppedRef(v, u, i)
        BY <1>1, <2>1, <3>1, DropRefFields
      <3>3. DOMAIN u.desc = DOMAIN v.desc /\ u.data = v.data
        BY <1>1, <3>2 DEF DroppedRef, Beside, World
      <3>4. \A f \in Inodes : Len(u.data[f]) >= Len(v.data[f])
        BY <1>1, <3>3, LenSame
      <3>5. CASE v.desc[i].ref > 1
        <4>1. /\ u.desc[i] = [v.desc[i] EXCEPT !.ref = @ - 1]
              /\ u.cache = v.cache /\ u.lock = v.lock /\ u.weak = v.weak
              /\ \A j \in DOMAIN v.desc : j # i => u.desc[j] = v.desc[j]
          BY <3>2, <3>5 DEF DroppedRef, Beside
        <4>2. u.desc[i].inode = v.desc[i].inode /\ u.desc[i].mode = v.desc[i].mode
          BY <2>2, <4>1 DEF SlotSet
        <4>3. OpenSlots(u) = OpenSlots(v)
          BY <3>3, <4>1, <4>2 DEF OpenSlots
        <4>4. Tame(v, u)
          BY <3>4, <4>1, <4>2, <4>3 DEF Tame, OpenSlots
        <4> QED BY <4>4
      <3>6. CASE ~(v.desc[i].ref > 1)
        <4>1. /\ u.desc[i] = Slot0
              /\ \A j \in DOMAIN v.desc : j # i => u.desc[j] = v.desc[j]
          BY <3>2, <3>6 DEF DroppedRef, Beside
        <4>2. u.desc[i].inode = NoInode
          BY <4>1 DEF Slot0
        <4>3. OpenSlots(u) = OpenSlots(v) \ {i}
          BY <3>3, <4>1, <4>2 DEF OpenSlots
        <4>4. Gone(v, u, i)
          BY <2>1, <3>2, <3>3, <3>6, <4>1, <4>3 DEF Gone, DroppedRef, OpenSlots
        <4> QED BY <4>4 DEF i, h
      <3> QED BY <3>5, <3>6
    <2>5. CASE ~(h.seq > 0)
      <3>1. u = [v EXCEPT !.lost[i] = @ + 1]
        BY <1>3, <2>3, <2>5 DEF Close, IsValid, IsOpen
      <3>2. /\ u.desc = v.desc /\ u.cache = v.cache /\ u.weak = v.weak /\ u.lock = v.lock /\ u.data = v.data
        BY <1>1, <3>1 DEF World
      <3>3. \A f \in Inodes : Len(u.data[f]) >= Len(v.data[f])
        BY <1>1, <3>2, LenSame
      <3> QED BY <3>2, <3>3 DEF Tame, OpenSlots
    <2> QED BY <2>4, <2>5
  <1> QED BY <1>2, <1>3

\* A close takes the protection of its file away, if other descriptors stay.
LEMMA GoneGuarded ==
    ASSUME NEW v, NEW u, NEW i, Guarded(v), Gone(v, u, i)
    PROVE  Guarded(u)
  <1> DEFINE f == v.desc[i].inode
             left == OpenOn(v, f) \ {i}
  <1>1. /\ OpenSlots(u) = OpenSlots(v) \ {i}
        /\ \A j \in OpenSlots(v) : j # i => u.desc[j] = v.desc[j]
        /\ \A g \in Inodes : u.cache[g] = IF g = f THEN {} ELSE v.cache[g]
        /\ \A g \in Inodes : u.lock[g] = IF g = f /\ v.lock[g] = "ours" THEN "free" ELSE v.lock[g]
        /\ u.weak = IF left # {} THEN v.weak \cup {f} ELSE v.weak \ {f}
    BY DEF Gone
  <1>2. \A g : g # f => OpenOn(u, g) = OpenOn(v, g)
    BY <1>1 DEF OpenOn
  <1>3. OpenOn(u, f) = left
    BY <1>1 DEF OpenOn
  <1>4. \A g : \A j \in OpenOn(u, g) : j \in OpenSlots(v) /\ j # i /\ u.desc[j] = v.desc[j]
    BY <1>1 DEF OpenOn
  <1> HIDE DEF f, left
  <1> SUFFICES ASSUME NEW g \in Inodes
               PROVE  /\ u.cache[g] # {} => OpenOn(u, g) # {}
                      /\ \A j \in OpenOn(u, g) : g \notin u.weak /\ Writing(u.desc[j].mode) => Protected(u, g, j)
    BY DEF Guarded
  <1>5. CASE g = f
    <2>1. u.cache[g] = {}
      BY <1>1, <1>5
    <2>2. OpenOn(u, g) # {} => g \in u.weak
      BY <1>1, <1>3, <1>5
    <2> QED BY <2>1, <2>2
  <1>6. CASE g # f
    <2>1. /\ u.cache[g] = v.cache[g] /\ u.lock[g] = v.lock[g] /\ OpenOn(u, g) = OpenOn(v, g)
          /\ g \in u.weak <=> g \in v.weak
      BY <1>1, <1>2, <1>6
    <2>2. ASSUME NEW j \in OpenOn(u, g), g \notin u.weak, Writing(u.desc[j].mode)
          PROVE  Protected(u, g, j)
      <3>1. Protected(v, g, j)
        BY <1>4, <2>1, <2>2 DEF Guarded
      <3> QED BY <1>4, <2>1, <3>1 DEF Protected
    <2>3. u.cache[g] # {} => OpenOn(u, g) # {}
      BY <2>1 DEF Guarded
    <2> QED BY <2>2, <2>3
  <1> QED BY <1>5, <1>6

LEMMA CloseSafe ==
    ASSUME NEW v, NEW a, NEW z, Safe(v, a, z), NEW k \in Keys, NEW u, u = Close(v, a[k])
    PROVE  Safe(u, With(a, k, NoFile), z)
  <1> DEFINE i == a[k].idx
             c == With(a, k, NoFile)
  <1>1. Exact(v, a) /\ Guarded(v) /\ z \in [Bufs -> Nat] /\ Covered(v, a, z) /\ v \in World
    BY SafeExact
  <1>2. Exact(u, c)
    BY <1>1, CloseExact
  <1>3. u \in World
    BY <1>2 DEF Exact, Sound
  <1>4. CASE Tame(v, u)
    <2>1. Guarded(u)
      BY <1>1, <1>4, TameGuarded
    <2>2. Covered(u, a, z)
      BY <1>1, <1>3, <1>4, TameCovered
    <2>3. Covered(u, c, z)
      BY <1>1, <2>2, EmptiedCovered
    <2> QED BY <1>1, <1>2, <2>1, <2>3 DEF Safe
  <1>5. CASE Gone(v, u, i)
    <2>1. Guarded(u)
      BY <1>1, <1>5, GoneGuarded
    <2>2. \A j \in Keys : c[j] = IF j = k THEN NoFile ELSE a[j]
      BY <1>1, Constants, WithType DEF Exact
    <2> HIDE DEF c
    <2>3. Covered(u, c, z)
      <3> SUFFICES ASSUME NEW b \in Bufs, c[MapKey(b)].idx # 0
                   PROVE  Covers(u, c, b, c[MapKey(b)].idx, z[b])
        BY DEF Covered
      <3> DEFINE m == c[MapKey(b)].idx
      <3>1. MapKey(b) # k /\ c[MapKey(b)] = a[MapKey(b)]
        BY <2>2, BufKeys, Constants
      <3>2. a[MapKey(b)].idx = m /\ m # 0
        BY <3>1
      <3>3. m \in OpenSlots(u)
        BY <1>2, BufKeys DEF Exact, Named
      <3>4. Covers(v, a, b, m, z[b])
        BY <1>1, <3>2 DEF Covered
      <3> HIDE DEF m, i
      <3>5. m # i /\ m \in OpenSlots(v) /\ u.desc[m] = v.desc[m] /\ u.data = v.data
        BY <1>5, <3>3 DEF Gone
      <3>6. v.desc[m].inode \notin u.weak => v.desc[m].inode \notin v.weak
        <4>1. v.desc[m].inode = v.desc[i].inode => m \in OpenOn(v, v.desc[i].inode) \ {i}
          BY <3>5 DEF OpenOn
        <4> QED BY <1>5, <4>1 DEF Gone
      <3>7. Alone(c, b, m)
        BY <2>2, <3>2, <3>4, Constants DEF Alone, Covers
      <3>8. Covers(u, c, b, m, z[b])
        BY <3>4, <3>5, <3>6, <3>7 DEF Covers
      <3> QED BY <3>8 DEF m
    <2> QED BY <1>1, <1>2, <2>1, <2>3 DEF Safe, c
  <1>6. Tame(v, u) \/ Gone(v, u, i)
    BY <1>1, CloseCases
  <1> QED BY <1>4, <1>5, <1>6

\* A handle that no buffer has, given to another place that is none of a buffer's.
LEMMA GivenCovered ==
    ASSUME NEW v, NEW a \in Assignments, NEW z, NEW k \in Keys, NEW x \in HandleSet,
           \A b \in Bufs : k # MapKey(b) /\ (a[MapKey(b)].idx # 0 => x.idx # a[MapKey(b)].idx),
           Covered(v, a, z)
    PROVE  Covered(v, With(a, k, x), z)
  <1> DEFINE c == With(a, k, x)
  <1>1. a \in Assignments
    OBVIOUS
  <1>2. \A j \in Keys : c[j] = IF j = k THEN x ELSE a[j]
    BY <1>1, WithType
  <1> HIDE DEF c
  <1> SUFFICES ASSUME NEW b \in Bufs, c[MapKey(b)].idx # 0
               PROVE  Covers(v, c, b, c[MapKey(b)].idx, z[b])
    BY DEF Covered, c
  <1> DEFINE i == a[MapKey(b)].idx
  <1>3. c[MapKey(b)] = a[MapKey(b)]
    BY <1>2, BufKeys
  <1>4. i # 0 /\ x.idx # i
    BY <1>3
  <1>5. Covers(v, a, b, i, z[b])
    BY <1>4 DEF Covered
  <1> HIDE DEF i
  <1>6. Alone(c, b, i)
    BY <1>2, <1>4, <1>5 DEF Alone, Covers
  <1>7. Covers(v, c, b, i, z[b])
    BY <1>5, <1>6 DEF Covers
  <1> QED BY <1>3, <1>7 DEF i

\* A place outside the buffers.
Plain(k) == \A b \in Bufs : k # FileKey(b) /\ k # MapKey(b)

LEMMA PlainApart ==
    ASSUME NEW v, NEW a, NEW z, Safe(v, a, z), NEW k \in Keys, Plain(k),
           NEW b \in Bufs, a[MapKey(b)].idx # 0
    PROVE  a[k].idx # a[MapKey(b)].idx
  <1>1. Covers(v, a, b, a[MapKey(b)].idx, z[b])
    BY SafeExact DEF Covered
  <1> QED BY <1>1 DEF Covers, Alone, Plain

LEMMA MoveSafe ==
    ASSUME NEW v, NEW a, NEW z, Safe(v, a, z), NEW k \in Keys, NEW g \in Keys, k # g, a[k] = NoFile,
           Plain(k), Plain(g)
    PROVE  Safe(v, With(With(a, k, a[g]), g, NoFile), z)
  <1> DEFINE x == a[g]
             c == With(a, k, x)
  <1>1. /\ Exact(v, a) /\ Guarded(v) /\ z \in [Bufs -> Nat] /\ Covered(v, a, z) /\ v \in World
        /\ a \in Assignments
    BY SafeExact
  <1>2. Exact(v, With(c, g, NoFile))
    BY <1>1, MoveExact
  <1>3. x \in HandleSet
    BY <1>1 DEF Assignments
  <1>4. \A b \in Bufs : k # MapKey(b) /\ (a[MapKey(b)].idx # 0 => x.idx # a[MapKey(b)].idx)
    BY PlainApart DEF Plain
  <1> HIDE DEF x
  <1>5. Covered(v, c, z)
    BY <1>1, <1>3, <1>4, GivenCovered
  <1>6. Covered(v, With(c, g, NoFile), z)
    <2> DEFINE d == With(c, g, NoFile)
    <2>1. c \in Assignments
      BY <1>1, <1>3, WithType
    <2> HIDE DEF c
    <2>2. NoFile \in HandleSet /\ NoFile.idx = 0
      BY Constants
    <2>3. \A j \in Keys : d[j] = IF j = g THEN NoFile ELSE c[j]
      BY <2>1, <2>2, WithType
    <2> HIDE DEF d
    <2> SUFFICES ASSUME NEW b \in Bufs, d[MapKey(b)].idx # 0
                 PROVE  Covers(v, d, b, d[MapKey(b)].idx, z[b])
      BY DEF Covered, d
    <2> DEFINE i == c[MapKey(b)].idx
    <2>4. d[MapKey(b)] = c[MapKey(b)]
      BY <2>3, BufKeys DEF Plain
    <2>5. i # 0
      BY <2>4
    <2>6. Covers(v, c, b, i, z[b])
      BY <1>5, <2>5 DEF Covered
    <2> HIDE DEF i
    <2>7. Alone(d, b, i)
      BY <2>2, <2>3, <2>5, <2>6 DEF Alone, Covers
    <2>8. Covers(v, d, b, i, z[b])
      BY <2>6, <2>7 DEF Covers
    <2> QED BY <2>4, <2>8 DEF i
  <1> QED BY <1>1, <1>2, <1>6 DEF Safe, x

\* A reference more.
LEMMA IncRefTame ==
    ASSUME NEW v \in World, NEW i \in OpenSlots(v), NEW u, u = [v EXCEPT !.desc[i].ref = @ + 1]
    PROVE  Tame(v, u)
  <1>1. /\ u.data = v.data /\ u.cache = v.cache /\ u.lock = v.lock /\ u.weak = v.weak
        /\ u.desc = [v.desc EXCEPT ![i] = [v.desc[i] EXCEPT !.ref = @ + 1]]
    BY DEF World
  <1>2. i \in DOMAIN v.desc /\ v.desc[i] \in SlotSet /\ v.desc \in Seq(SlotSet)
    BY OpenSlot DEF World
  <1>3. /\ DOMAIN u.desc = DOMAIN v.desc
        /\ \A j \in DOMAIN v.desc :
              u.desc[j] = IF j = i THEN [v.desc[i] EXCEPT !.ref = @ + 1] ELSE v.desc[j]
    BY <1>1, <1>2
  <1>4. \A j \in DOMAIN v.desc : u.desc[j].inode = v.desc[j].inode /\ u.desc[j].mode = v.desc[j].mode
    BY <1>2, <1>3, SMTT(30) DEF SlotSet
  <1>5. \A f \in Inodes : Len(u.data[f]) >= Len(v.data[f])
    BY <1>1, LenSame
  <1> QED BY <1>1, <1>3, <1>4, <1>5 DEF Tame, OpenSlots

LEMMA IncRefSafe ==
    ASSUME NEW v, NEW a, NEW z, Safe(v, a, z), NEW k \in Keys, NEW g \in Keys,
           a[k] = NoFile, a[g] # NoFile, Plain(k), Plain(g), NEW u, u = IncRef(v, a[g])
    PROVE  Safe(u, With(a, k, a[g]), z)
  <1> DEFINE x == a[g]
             c == With(a, k, x)
  <1>1. /\ Exact(v, a) /\ Guarded(v) /\ z \in [Bufs -> Nat] /\ Covered(v, a, z) /\ v \in World
        /\ a \in Assignments
    BY SafeExact
  <1>2. Exact(u, c) /\ u = [v EXCEPT !.desc[x.idx].ref = @ + 1]
    BY <1>1, IncRefExact
  <1>3. x \in HandleSet /\ x.idx \in OpenSlots(v)
    BY <1>1, Constants DEF Assignments, Exact, Named
  <1>4. \A b \in Bufs : k # MapKey(b) /\ (a[MapKey(b)].idx # 0 => x.idx # a[MapKey(b)].idx)
    BY PlainApart DEF Plain
  <1>5. u \in World
    BY <1>2 DEF Exact, Sound
  <1> HIDE DEF x
  <1>6. Covered(v, c, z)
    BY <1>1, <1>3, <1>4, GivenCovered
  <1>7. Tame(v, u)
    BY <1>1, <1>2, <1>3, IncRefTame
  <1>8. Guarded(u)
    BY <1>1, <1>7, TameGuarded
  <1>9. Covered(u, c, z)
    <2> SUFFICES ASSUME NEW b \in Bufs, c[MapKey(b)].idx # 0
                 PROVE  Covers(u, c, b, c[MapKey(b)].idx, z[b])
      BY DEF Covered
    <2> DEFINE i == c[MapKey(b)].idx
    <2>1. \A j \in Keys : c[j] = IF j = k THEN x ELSE a[j]
      BY <1>1, <1>3, WithType
    <2>2. a[MapKey(b)].idx # 0 /\ c[MapKey(b)] = a[MapKey(b)]
      BY <1>4, <2>1, BufKeys
    <2>3. Covered(u, a, z)
      BY <1>1, <1>5, <1>7, TameCovered
    <2>4. Covers(u, a, b, i, z[b])
      BY <2>2, <2>3 DEF Covered
    <2>5. Covers(v, c, b, i, z[b])
      BY <1>6 DEF Covered
    <2> HIDE DEF i, c
    <2> QED BY <2>4, <2>5 DEF Covers, i
  <1> QED BY <1>1, <1>2, <1>8, <1>9 DEF Safe, x

\* A file that is opened and let go again loses the protection it had.
LEMMA RefusedSafe ==
    ASSUME NEW v, NEW a, NEW z, Safe(v, a, z), NEW p, NEW m, NEW o, NEW f \in Inodes,
           OpenRefused(v, o, p, m, f), Exact(o.v, a)
    PROVE  Safe(o.v, a, z)
  <1> DEFINE u == o.v
  <1>1. Exact(v, a) /\ Guarded(v) /\ z \in [Bufs -> Nat] /\ Covered(v, a, z) /\ v \in World
    BY SafeExact
  <1>2. /\ u.desc = v.desc /\ Exact(u, a)
        /\ \A g \in Inodes : g # f => u.lock[g] = v.lock[g]
        /\ \A g \in Inodes : u.cache[g] = v.cache[g]
        /\ u.weak = IF OpenOn(v, f) # {} THEN v.weak \cup {f} ELSE v.weak \ {f}
        /\ \A g \in Inodes : u.data[g] = IF Fresh(v, p) /\ g = f THEN <<>> ELSE v.data[g]
    BY DEF OpenRefused, SameFiles
  <1>3. Fresh(v, p) => OpenOn(v, f) = {}
    BY DEF OpenRefused, FileOf, FreeInodes
  <1> HIDE DEF u
  <1>4. OpenSlots(u) = OpenSlots(v) /\ \A g : OpenOn(u, g) = OpenOn(v, g)
    BY <1>2 DEF OpenSlots, OpenOn
  <1>5. Guarded(u)
    <2> SUFFICES ASSUME NEW g \in Inodes
                 PROVE  /\ u.cache[g] # {} => OpenOn(u, g) # {}
                        /\ \A i \in OpenOn(u, g) : g \notin u.weak /\ Writing(u.desc[i].mode) => Protected(u, g, i)
      BY DEF Guarded
    <2>1. u.cache[g] # {} => OpenOn(u, g) # {}
      BY <1>1, <1>2, <1>4 DEF Guarded
    <2>2. ASSUME NEW i \in OpenOn(u, g), g \notin u.weak, Writing(u.desc[i].mode)
          PROVE  Protected(u, g, i)
      <3>1. g # f /\ g \notin v.weak
        BY <1>2, <1>4, <2>2
      <3>2. Protected(v, g, i)
        BY <1>1, <1>2, <1>4, <2>2, <3>1 DEF Guarded
      <3> QED BY <1>2, <1>4, <3>1, <3>2 DEF Protected
    <2> QED BY <2>1, <2>2
  <1>6. Covered(u, a, z)
    <2> SUFFICES ASSUME NEW b \in Bufs, a[MapKey(b)].idx # 0
                 PROVE  Covers(u, a, b, a[MapKey(b)].idx, z[b])
      BY DEF Covered
    <2> DEFINE i == a[MapKey(b)].idx
               g == v.desc[i].inode
    <2>1. i \in OpenSlots(v) /\ g \in Inodes
      BY <1>1, MapSlot
    <2>2. Covers(v, a, b, i, z[b])
      BY <1>1 DEF Covered
    <2>3. i \in OpenOn(v, g)
      BY <2>1 DEF OpenOn
    <2> HIDE DEF i
    <2>4. u.desc[i] = v.desc[i] /\ (g \notin u.weak => g \notin v.weak) /\ u.data[g] = v.data[g]
      <3>1. u.desc[i] = v.desc[i]
        BY <1>2
      <3> HIDE DEF g
      <3> QED BY <1>2, <1>3, <2>1, <2>3, <3>1
    <2>5. Covers(u, a, b, i, z[b])
      BY <2>2, <2>4 DEF Covers
    <2> QED BY <2>5 DEF i
  <1> QED BY <1>1, <1>2, <1>5, <1>6 DEF Safe, u

\* A descriptor that add_file_execlusive_check lets pass is protected.
LEMMA OpenedGuarded ==
    ASSUME NEW v, Guarded(v), NEW p, NEW m, NEW o, NEW f \in Inodes, NEW i \in Nat,
           OpenedSlot(v, o, p, m, f, i), OpenSlots(o.v) = OpenSlots(v) \cup {i}
    PROVE  Guarded(o.v)
  <1> DEFINE u == o.v
  <1>1. /\ i \notin OpenSlots(v) /\ Allowed(v, f, m)
        /\ \A j \in DOMAIN v.desc : j # i => u.desc[j] = v.desc[j]
        /\ u.desc[i].inode = f /\ u.desc[i].mode = m /\ u.weak = v.weak
        /\ \A g \in Inodes : u.lock[g] = IF g = f /\ "exclusive" \in m THEN "ours" ELSE v.lock[g]
        /\ \A g \in Inodes : u.cache[g] = IF g = f /\ Writing(m) /\ v.cache[f] = {} THEN m ELSE v.cache[g]
    BY DEF OpenedSlot
  <1>2. OpenSlots(u) = OpenSlots(v) \cup {i}
    OBVIOUS
  <1> HIDE DEF u
  <1>3. \A j \in OpenSlots(v) : j # i /\ u.desc[j] = v.desc[j]
    BY <1>1 DEF OpenSlots
  <1>4. OpenOn(u, f) = OpenOn(v, f) \cup {i} /\ \A g : g # f => OpenOn(u, g) = OpenOn(v, g)
    BY <1>1, <1>2, <1>3 DEF OpenOn
  <1>5. \A g : \A j \in OpenOn(v, g) : j # i /\ u.desc[j] = v.desc[j]
    BY <1>3 DEF OpenOn
  <1> SUFFICES ASSUME NEW g \in Inodes
               PROVE  /\ u.cache[g] # {} => OpenOn(u, g) # {}
                      /\ \A j \in OpenOn(u, g) : g \notin u.weak /\ Writing(u.desc[j].mode) => Protected(u, g, j)
    BY DEF Guarded, u
  <1>6. CASE g # f
    <2>1. u.cache[g] = v.cache[g] /\ u.lock[g] = v.lock[g] /\ OpenOn(u, g) = OpenOn(v, g)
      BY <1>1, <1>4, <1>6
    <2>2. ASSUME NEW j \in OpenOn(u, g), g \notin u.weak, Writing(u.desc[j].mode)
          PROVE  Protected(u, g, j)
      <3>1. Protected(v, g, j)
        BY <1>1, <1>5, <2>1, <2>2 DEF Guarded
      <3> QED BY <1>5, <2>1, <3>1 DEF Protected
    <2>3. u.cache[g] # {} => OpenOn(u, g) # {}
      BY <2>1 DEF Guarded
    <2> QED BY <2>2, <2>3
  <1>7. CASE g = f
    <2>1. OpenOn(u, f) # {}
      BY <1>4
    <2>2. ASSUME f \notin u.weak, Writing(m)
          PROVE  Protected(u, f, i)
      <3>1. u.cache[f] # {}
        BY <1>1, <2>2 DEF Writing
      <3>2. ASSUME "exclusive" \in m
            PROVE  /\ "exclusive" \in u.cache[f] /\ u.lock[f] = "ours"
                   /\ \A j \in OpenOn(u, f) \ {i} : ~Writing(u.desc[j].mode)
        <4>1. v.cache[f] = {}
          BY <1>1, <2>2, <3>2 DEF Allowed
        <4>2. "exclusive" \in u.cache[f] /\ u.lock[f] = "ours"
          BY <1>1, <2>2, <3>2, <4>1
        <4>3. ASSUME NEW j \in OpenOn(u, f) \ {i}, Writing(u.desc[j].mode)
              PROVE  FALSE
          <5>1. j \in OpenOn(v, f) /\ Writing(v.desc[j].mode)
            BY <1>4, <1>5, <4>3
          <5>2. Protected(v, f, j)
            BY <1>1, <2>2, <5>1 DEF Guarded
          <5> QED BY <4>1, <5>2 DEF Protected
        <4> QED BY <4>2, <4>3
      <3> QED BY <1>1, <3>1, <3>2 DEF Protected
    <2>3. ASSUME NEW j \in OpenOn(v, f), f \notin u.weak, Writing(u.desc[j].mode)
          PROVE  Protected(u, f, j)
      <3>1. Protected(v, f, j) /\ u.desc[j] = v.desc[j]
        BY <1>1, <1>5, <2>3 DEF Guarded
      <3>2. u.cache[f] = v.cache[f] /\ v.cache[f] # {}
        BY <1>1, <3>1 DEF Protected
      <3>3. ASSUME "exclusive" \in u.desc[j].mode
            PROVE  /\ "exclusive" \in u.cache[f] /\ u.lock[f] = "ours"
                   /\ \A l \in OpenOn(u, f) \ {j} : ~Writing(u.desc[l].mode)
        <4>1. /\ "exclusive" \in v.cache[f] /\ v.lock[f] = "ours"
              /\ \A l \in OpenOn(v, f) \ {j} : ~Writing(v.desc[l].mode)
          BY <3>1, <3>3 DEF Protected
        <4>2. ~Writing(m)
          BY <1>1, <3>2, <4>1 DEF Allowed
        <4> QED BY <1>1, <1>4, <1>5, <3>2, <4>1, <4>2
      <3> QED BY <3>2, <3>3 DEF Protected
    <2> QED BY <1>1, <1>4, <1>7, <2>1, <2>2, <2>3
  <1> QED BY <1>6, <1>7

\* open_file into an empty place that is not the mapping of a buffer.
LEMMA OpenSafe ==
    ASSUME NEW v, NEW a, NEW z, Safe(v, a, z), NEW k \in Keys, a[k] = NoFile,
           \A b \in Bufs : k # MapKey(b),
           NEW p, NEW m, NEW o, OpenOutcome(v, o, p, m)
    PROVE  Safe(o.v, With(a, k, o.h), z)
  <1>1. /\ Exact(v, a) /\ Guarded(v) /\ z \in [Bufs -> Nat] /\ Covered(v, a, z) /\ v \in World
        /\ a \in Assignments
    BY SafeExact
  <1>2. Exact(o.v, With(a, k, o.h))
    BY <1>1, OpenExact
  <1>3. With(a, k, NoFile) = a
    BY <1>1 DEF With, Assignments
  <1>4. CASE o.h = NoFile /\ o.v = v
    BY <1>3, <1>4
  <1>5. ASSUME NEW f \in Inodes, OpenRefused(v, o, p, m, f)
        PROVE  Safe(o.v, With(a, k, o.h), z)
    <2>1. o.h = NoFile
      BY <1>5 DEF OpenRefused
    <2>2. Exact(o.v, a)
      BY <1>2, <1>3, <2>1
    <2>3. Safe(o.v, a, z)
      BY <1>5, <2>2, RefusedSafe
    <2> QED BY <1>3, <2>1, <2>3
  <1>6. ASSUME NEW f \in Inodes, NEW i \in Nat, OpenedSlot(v, o, p, m, f, i)
        PROVE  Safe(o.v, With(a, k, o.h), z)
    <2> DEFINE u == o.v
    <2>1. /\ o.h \in HandleSet /\ o.h.idx = i /\ i \notin OpenSlots(v)
          /\ \A j \in DOMAIN v.desc : j # i => u.desc[j] = v.desc[j]
          /\ u.desc[i].inode = f /\ u.weak = v.weak
          /\ i \in 1 .. Len(v.desc) + 1
          /\ Len(u.desc) = IF i = Len(v.desc) + 1 THEN i ELSE Len(v.desc)
          /\ \A g \in Inodes : u.data[g] = IF Fresh(v, p) /\ g = f THEN <<>> ELSE v.data[g]
      BY <1>6 DEF OpenedSlot, SameFiles
    <2>2. Fresh(v, p) => OpenOn(v, f) = {}
      BY <1>6 DEF OpenedSlot, FileOf, FreeInodes
    <2>3. u \in World
      BY <1>6 DEF OpenedSlot, SameFiles
    <2> HIDE DEF u
    <2>4. OpenSlots(u) = OpenSlots(v) \cup {i}
      <3>1. u.desc \in Seq(SlotSet) /\ v.desc \in Seq(SlotSet)
        BY <1>1, <2>3 DEF World
      <3>2. DOMAIN u.desc = DOMAIN v.desc \cup {i}
        BY <2>1, <3>1
      <3> QED BY <2>1, <3>2, Constants DEF OpenSlots
    <2>5. Guarded(u)
      BY <1>1, <1>6, <2>4, OpenedGuarded DEF u
    <2>6. Covered(u, a, z)
      <3> SUFFICES ASSUME NEW b \in Bufs, a[MapKey(b)].idx # 0
                   PROVE  Covers(u, a, b, a[MapKey(b)].idx, z[b])
        BY DEF Covered
      <3> DEFINE j == a[MapKey(b)].idx
                 g == v.desc[j].inode
      <3>1. j \in OpenSlots(v) /\ g \in Inodes
        BY <1>1, MapSlot
      <3>2. Covers(v, a, b, j, z[b])
        BY <1>1 DEF Covered
      <3>3. j \in OpenOn(v, g) /\ j \in DOMAIN v.desc /\ j # i
        BY <2>1, <3>1 DEF OpenOn, OpenSlots
      <3> HIDE DEF j
      <3>4. u.desc[j] = v.desc[j] /\ u.data[g] = v.data[g]
        <4>1. u.desc[j] = v.desc[j]
          BY <2>1, <3>3
        <4> HIDE DEF g
        <4> QED BY <2>1, <2>2, <3>1, <3>3, <4>1
      <3>5. Covers(u, a, b, j, z[b])
        BY <2>1, <3>2, <3>4 DEF Covers
      <3> QED BY <3>5 DEF j
    <2>7. \A b \in Bufs : k # MapKey(b) /\ (a[MapKey(b)].idx # 0 => o.h.idx # a[MapKey(b)].idx)
      BY <1>1, <2>1, MapSlot
    <2>8. Covered(u, With(a, k, o.h), z)
      BY <1>1, <2>1, <2>6, <2>7, GivenCovered
    <2> QED BY <1>1, <1>2, <2>5, <2>8 DEF Safe, u
  <1> QED BY <1>4, <1>5, <1>6 DEF OpenOutcome

\* The places of buffers are apart.
LEMMA BufApart ==
    ASSUME NEW b, NEW c
    PROVE  /\ FileKey(b) = FileKey(c) <=> b = c
           /\ MapKey(b) = MapKey(c) <=> b = c
           /\ FileKey(b) # MapKey(c)
  BY DEF FileKey, MapKey

LEMMA SameDescGuarded ==
    ASSUME NEW v \in World, NEW u, Guarded(v), SameDesc(v, u),
           u.cache = v.cache, u.lock = v.lock, u.weak = v.weak
    PROVE  Guarded(u)
  <1>1. DOMAIN u.desc = DOMAIN v.desc
    BY DEF SameDesc, World
  <1>2. OpenSlots(u) = OpenSlots(v)
    BY <1>1 DEF SameDesc, OpenSlots
  <1>3. \A g : OpenOn(u, g) = OpenOn(v, g)
    BY <1>2 DEF SameDesc, OpenSlots, OpenOn
  <1>4. \A g : \A i \in OpenOn(v, g) : u.desc[i].mode = v.desc[i].mode
    BY DEF SameDesc, OpenSlots, OpenOn
  <1> SUFFICES ASSUME NEW g \in Inodes
               PROVE  /\ u.cache[g] # {} => OpenOn(u, g) # {}
                      /\ \A i \in OpenOn(u, g) : g \notin u.weak /\ Writing(u.desc[i].mode) => Protected(u, g, i)
    BY DEF Guarded
  <1>5. u.cache[g] # {} => OpenOn(u, g) # {}
    BY <1>3 DEF Guarded
  <1>6. ASSUME NEW i \in OpenOn(u, g), g \notin u.weak, Writing(u.desc[i].mode)
        PROVE  Protected(u, g, i)
    <2>1. Protected(v, g, i)
      BY <1>3, <1>4, <1>6 DEF Guarded
    <2> QED BY <1>3, <1>4, <1>6, <2>1 DEF Protected
  <1> QED BY <1>5, <1>6

\* A place whose file no buffer has mapped.
Loose(a, k) == \A b \in Bufs : k # MapKey(b) /\ (k = FileKey(b) => a[MapKey(b)] = NoFile)

LEMMA PlainLoose ==
    ASSUME NEW a, NEW k, Plain(k)
    PROVE  Loose(a, k)
  BY DEF Plain, Loose

\* Who may cut a file does not share it with a mapped buffer, while it is protected.
LEMMA TruncateSafe ==
    ASSUME NEW v, NEW a, NEW z, Safe(v, a, z), NEW k \in Keys, a[k] # NoFile, Loose(a, k),
           NEW n \in Nat, NEW how, NEW u, u = Truncate(v, a[k], n, how)
    PROVE  Safe(u, a, z)
  <1> DEFINE i == a[k].idx
             f == v.desc[i].inode
  <1>1. Exact(v, a) /\ Guarded(v) /\ z \in [Bufs -> Nat] /\ Covered(v, a, z) /\ v \in World
    BY SafeExact
  <1>2. i \in OpenSlots(v) /\ i # 0
    BY <1>1, Constants DEF Exact, Named
  <1>3. /\ Edited(v, u, f)
        /\ "write" \notin v.desc[i].mode => u.data = v.data
    BY <1>1, <1>2, TruncateFields
  <1>4. CASE "write" \notin v.desc[i].mode
    <2>1. u.data = v.data
      BY <1>3, <1>4
    <2>2. \A g \in Inodes : Len(u.data[g]) >= Len(v.data[g])
      BY <1>1, <2>1, LenSame
    <2> HIDE DEF f
    <2> QED BY <1>3, <2>2, EditSafe
  <1>5. CASE "write" \in v.desc[i].mode
    <2>1. SameDesc(v, u) /\ u.cache = v.cache /\ u.lock = v.lock /\ u.weak = v.weak
      BY <1>3 DEF Edited
    <2>2. Guarded(u)
      BY <1>1, <2>1, SameDescGuarded
    <2>3. Exact(u, a)
      BY <1>1, <2>1, SameDescExact
    <2>4. Covered(u, a, z)
      <3> SUFFICES ASSUME NEW b \in Bufs, a[MapKey(b)].idx # 0
                   PROVE  Covers(u, a, b, a[MapKey(b)].idx, z[b])
        BY DEF Covered
      <3> DEFINE j == a[MapKey(b)].idx
                 g == v.desc[j].inode
      <3>1. j \in OpenSlots(v) /\ g \in Inodes
        BY <1>1, MapSlot
      <3>2. Covers(v, a, b, j, z[b])
        BY <1>1 DEF Covered
      <3>3. a[MapKey(b)] # NoFile
        BY Constants
      <3>4. i # j
        <4>1. i = j => k \in {FileKey(b), MapKey(b)}
          BY <3>2 DEF Covers, Alone
        <4> QED BY <3>3, <4>1 DEF Loose
      <3>5. u.desc[j].mode = v.desc[j].mode /\ u.desc[j].inode = g
        BY <2>1, <3>1 DEF SameDesc, OpenSlots
      <3> HIDE DEF i, j
      <3>6. CASE g # f
        <4>1. u.data[g] = v.data[g]
          BY <1>3, <3>1, <3>6 DEF Edited
        <4>2. Covers(u, a, b, j, z[b])
          BY <2>1, <3>2, <3>5, <4>1 DEF Covers
        <4> QED BY <4>2 DEF j
      <3>7. CASE g = f
        <4>1. j \in OpenOn(v, g) /\ i \in OpenOn(v, g) \ {j}
          BY <1>2, <3>1, <3>4, <3>7 DEF OpenOn
        <4>2. "exclusive" \in v.desc[j].mode /\ Writing(v.desc[j].mode) /\ Writing(v.desc[i].mode)
          BY <1>5, <3>2 DEF Covers, Writing
        <4>3. g \in v.weak
          <5> SUFFICES ASSUME g \notin v.weak PROVE FALSE
            OBVIOUS
          <5>1. Protected(v, g, j)
            BY <1>1, <3>1, <4>1, <4>2 DEF Guarded
          <5> QED BY <4>1, <4>2, <5>1 DEF Protected
        <4>4. Covers(u, a, b, j, z[b])
          BY <2>1, <3>2, <3>5, <4>3 DEF Covers
        <4> QED BY <4>4 DEF j
      <3> QED BY <3>6, <3>7
    <2> QED BY <1>1, <2>2, <2>3, <2>4 DEF Safe
  <1> QED BY <1>4, <1>5

\* The file of a buffer is open for it alone.
Owns(v, a, b) ==
    /\ {"write", "exclusive"} \subseteq v.desc[a[FileKey(b)].idx].mode
    /\ Alone(a, b, a[FileKey(b)].idx)
LongEnough(v, a, b, n) ==
    LET f == v.desc[a[FileKey(b)].idx].inode IN f \notin v.weak => n <= Len(v.data[f])

\* The file of a buffer is mapped.
LEMMA MapSafe ==
    ASSUME NEW v, NEW a, NEW z, Safe(v, a, z), NEW b \in Bufs,
           a[FileKey(b)] # NoFile, a[MapKey(b)] = NoFile,
           Owns(v, a, b), LongEnough(v, a, b, z[b]),
           NEW u, u = IncRef(v, a[FileKey(b)])
    PROVE  Safe(u, With(a, MapKey(b), a[FileKey(b)]), z)
  <1> DEFINE F == FileKey(b)
             M == MapKey(b)
             x == a[F]
             i == x.idx
             c == With(a, M, x)
  <1>0. F \in Keys /\ M \in Keys /\ F # M
    BY BufKeys
  <1>1. /\ Exact(v, a) /\ Guarded(v) /\ z \in [Bufs -> Nat] /\ Covered(v, a, z) /\ v \in World
        /\ a \in Assignments
    BY SafeExact
  <1>2. Exact(u, c) /\ u = [v EXCEPT !.desc[x.idx].ref = @ + 1]
    BY <1>0, <1>1, IncRefExact
  <1>3. x \in HandleSet /\ i \in OpenSlots(v) /\ i # 0
    BY <1>0, <1>1, Constants DEF Assignments, Exact, Named
  <1>4. u \in World
    BY <1>2 DEF Exact, Sound
  <1>5. /\ {"write", "exclusive"} \subseteq v.desc[i].mode /\ Alone(a, b, i)
        /\ v.desc[i].inode \notin v.weak => z[b] <= Len(v.data[v.desc[i].inode])
    BY DEF Owns, LongEnough
  <1> HIDE DEF x
  <1>6. Tame(v, u)
    BY <1>1, <1>2, <1>3, IncRefTame
  <1>7. Guarded(u)
    BY <1>1, <1>6, TameGuarded
  <1>8. Covered(u, a, z)
    BY <1>1, <1>4, <1>6, TameCovered
  <1>9. \A j \in Keys : c[j] = IF j = M THEN x ELSE a[j]
    BY <1>0, <1>1, <1>3, WithType
  <1> HIDE DEF c
  <1>10. Covered(u, c, z)
    <2> SUFFICES ASSUME NEW d \in Bufs, c[MapKey(d)].idx # 0
                 PROVE  Covers(u, c, d, c[MapKey(d)].idx, z[d])
      BY DEF Covered
    <2>1. CASE d = b
      <3>1. c[MapKey(d)].idx = i
        BY <1>0, <1>9, <2>1
      <3>2. Alone(c, b, i)
        BY <1>5, <1>9 DEF Alone
      <3> DEFINE f == v.desc[i].inode
      <3>3. u.desc[i].inode = f /\ u.desc[i].mode = v.desc[i].mode /\ u.weak = v.weak
        BY <1>3, <1>6 DEF Tame
      <3>4. f \in Inodes
        BY <1>1, <1>3, OpenSlot
      <3> HIDE DEF f, i
      <3>5. Len(u.data[f]) >= Len(v.data[f]) /\ Len(u.data[f]) \in Nat /\ Len(v.data[f]) \in Nat
        <4>1. u.data[f] \in Seq(Nat) /\ v.data[f] \in Seq(Nat)
          BY <1>1, <1>4, <3>4 DEF World
        <4> QED BY <1>6, <3>4, <4>1 DEF Tame
      <3>6. z[b] \in Nat
        BY <1>1
      <3>7. f \notin u.weak => z[b] <= Len(u.data[f])
        BY <1>5, <3>3, <3>5, <3>6, SMTT(30) DEF f
      <3>8. Covers(u, c, b, i, z[b])
        BY <1>5, <3>2, <3>3, <3>7 DEF Covers
      <3> QED BY <2>1, <3>1, <3>8
    <2>2. CASE d # b
      <3> DEFINE j == a[MapKey(d)].idx
      <3>1. MapKey(d) # M /\ F # FileKey(d) /\ F # MapKey(d) /\ MapKey(d) \in Keys
        BY <2>2, BufApart, BufKeys
      <3>2. c[MapKey(d)] = a[MapKey(d)] /\ j # 0
        BY <1>9, <3>1
      <3>3. Covers(u, a, d, j, z[d])
        BY <1>8, <3>2 DEF Covered
      <3>4. i # j
        BY <1>0, <3>1, <3>3 DEF Covers, Alone, x
      <3> HIDE DEF j
      <3>5. Alone(c, d, j)
        BY <1>9, <3>3, <3>4 DEF Covers, Alone
      <3>6. Covers(u, c, d, j, z[d])
        BY <3>3, <3>5 DEF Covers
      <3> QED BY <3>2, <3>6 DEF j
    <2> QED BY <2>1, <2>2
  <1> QED BY <1>1, <1>2, <1>7, <1>10 DEF Safe, c, x

\* The size of a buffer that is not mapped matters to nobody.
LEMMA SizeFree ==
    ASSUME NEW v, NEW a, NEW z, Safe(v, a, z), NEW b \in Bufs, a[MapKey(b)] = NoFile, NEW n \in Nat
    PROVE  Safe(v, a, [z EXCEPT ![b] = n])
  <1> DEFINE y == [z EXCEPT ![b] = n]
  <1>1. Exact(v, a) /\ Guarded(v) /\ z \in [Bufs -> Nat] /\ Covered(v, a, z)
    BY SafeExact
  <1>2. y \in [Bufs -> Nat] /\ \A d \in Bufs : d # b => y[d] = z[d]
    BY <1>1
  <1> HIDE DEF y
  <1>3. Covered(v, a, y)
    BY <1>1, <1>2, Constants DEF Covered
  <1> QED BY <1>1, <1>2, <1>3 DEF Safe, y

-----------------------------------------------------------------------------
(* Chains of steps, as the calls make them                                  *)

One == <<"temp", "one">>

LEMMA OneKey ==
    /\ One \in Keys /\ Plain(One)
    /\ \A b : One # FileKey(b) /\ One # MapKey(b)
  <1>1. One \in Keys
    BY DEF One, Keys, Temp
  <1>2. \A b : One # FileKey(b) /\ One # MapKey(b)
    BY DEF One, FileKey, MapKey
  <1> QED BY <1>1, <1>2 DEF Plain

\* Assignments that agree everywhere are one.
LEMMA SameAssignment ==
    ASSUME NEW a \in Assignments, NEW b \in Assignments, \A k \in Keys : a[k] = b[k]
    PROVE  a = b
  BY DEF Assignments

LEMMA OutcomeHandle ==
    ASSUME NEW v, NEW o, NEW p, NEW m, OpenOutcome(v, o, p, m)
    PROVE  o.h \in HandleSet
  BY Constants DEF OpenOutcome, OpenRefused, OpenedSlot

\* h = open_file(): opened into a place, whose earlier handle is closed.
LEMMA ReopenSafe ==
    ASSUME NEW v, NEW a, NEW z, Safe(v, a, z), NEW k \in Keys, k # One, Plain(k), a[One] = NoFile,
           NEW p, NEW m, NEW o, OpenOutcome(v, o, p, m), NEW u, u = Close(o.v, a[k])
    PROVE  Safe(u, With(a, k, o.h), z)
  <1> DEFINE b == With(a, One, o.h)
             c == With(b, k, NoFile)
             d == With(c, k, c[One])
             e == With(d, One, NoFile)
             t == With(a, k, o.h)
  <1>1. a \in Assignments /\ o.h \in HandleSet /\ NoFile \in HandleSet /\ One \in Keys
    BY OutcomeHandle, Constants, OneKey DEF Safe, Exact
  <1>2. Safe(o.v, b, z)
    BY <1>1, OneKey, OpenSafe
  <1>3. b \in Assignments /\ \A j \in Keys : b[j] = IF j = One THEN o.h ELSE a[j]
    BY <1>1, WithType, SMTT(30)
  <1>4. t \in Assignments /\ \A j \in Keys : t[j] = IF j = k THEN o.h ELSE a[j]
    BY <1>1, WithType, SMTT(30)
  <1> HIDE DEF b, t
  <1>5. b[k] = a[k] /\ b[One] = o.h
    BY <1>1, <1>3
  <1>6. u = Close(o.v, b[k])
    BY <1>5
  <1>7. Safe(u, c, z)
    BY <1>2, <1>6, CloseSafe
  <1>8. c \in Assignments /\ \A j \in Keys : c[j] = IF j = k THEN NoFile ELSE b[j]
    BY <1>1, <1>3, WithType
  <1> HIDE DEF c
  <1>9. c[k] = NoFile /\ c[One] = o.h
    BY <1>1, <1>5, <1>8
  <1>10. Safe(u, e, z)
    BY <1>1, <1>7, <1>9, OneKey, MoveSafe
  <1>15. d = With(c, k, o.h)
    BY <1>9
  <1> HIDE DEF d
  <1>11. d \in Assignments /\ \A j \in Keys : d[j] = IF j = k THEN o.h ELSE c[j]
    <2>1. c \in Assignments
      BY <1>8
    <2>2. o.h \in HandleSet
      BY <1>1
    <2>3. /\ With(c, k, o.h) \in Assignments
          /\ \A j \in Keys : With(c, k, o.h)[j] = IF j = k THEN o.h ELSE c[j]
      BY <2>1, <2>2, WithType
    <2> QED BY <1>15, <2>3
  <1>12. e \in Assignments /\ \A j \in Keys : e[j] = IF j = One THEN NoFile ELSE d[j]
    BY <1>1, <1>11, WithType
  <1> HIDE DEF e
  <1>13. \A j \in Keys : e[j] = t[j]
    BY <1>1, <1>3, <1>4, <1>8, <1>11, <1>12
  <1>14. e = t
    BY <1>4, <1>12, <1>13, SameAssignment
  <1> QED BY <1>10, <1>14 DEF t

\* A file opened and closed in one call.
LEMMA VisitSafe ==
    ASSUME NEW v, NEW a, NEW z, Safe(v, a, z), a[One] = NoFile,
           NEW p, NEW m, NEW o, OpenOutcome(v, o, p, m), NEW u, u = Close(o.v, o.h)
    PROVE  Safe(u, a, z)
  <1> DEFINE b == With(a, One, o.h)
             c == With(b, One, NoFile)
  <1>1. a \in Assignments /\ o.h \in HandleSet /\ NoFile \in HandleSet /\ One \in Keys
    BY OutcomeHandle, Constants, OneKey DEF Safe, Exact
  <1>2. Safe(o.v, b, z)
    BY <1>1, OneKey, OpenSafe
  <1>3. b \in Assignments /\ \A j \in Keys : b[j] = IF j = One THEN o.h ELSE a[j]
    BY <1>1, WithType
  <1> HIDE DEF b
  <1>4. u = Close(o.v, b[One])
    BY <1>1, <1>3
  <1>5. Safe(u, c, z)
    BY <1>1, <1>2, <1>4, CloseSafe
  <1>6. c \in Assignments /\ \A j \in Keys : c[j] = IF j = One THEN NoFile ELSE b[j]
    BY <1>1, <1>3, WithType
  <1> HIDE DEF c
  <1>7. \A j \in Keys : c[j] = a[j]
    BY <1>3, <1>6
  <1>8. c = a
    BY <1>1, <1>6, <1>7, SameAssignment
  <1> QED BY <1>5, <1>8

\* get_file_size(path)
LEMMA SizeSafe ==
    ASSUME NEW v, NEW a, NEW z, Safe(v, a, z), a[One] = NoFile, NEW p \in Paths, NEW works \in BOOLEAN
    PROVE  Safe(SizeOf(v, p, works).v, a, z) /\ SizeOf(v, p, works).size \in Nat
  <1> DEFINE o == Open(v, p, {"read"}, works)
  <1>1. CASE v.link[p] = NoInode
    BY <1>1 DEF SizeOf
  <1>2. CASE v.link[p] # NoInode
    <2>1. OpenOutcome(v, o, p, {"read"})
      <3>1. {"read"} \in SUBSET Flags /\ "auto_create" \notin {"read"} /\ Sound(v)
        BY SafeExact DEF Flags
      <3> QED BY <3>1, OpenFields
    <2>2. v.data \in [Inodes -> Seq(Nat)] /\ v.link[p] \in Inodes
      BY <1>2, SafeExact DEF World
    <2>3. v.data[v.link[p]] \in Seq(Nat)
      BY <2>2
    <2>4. Len(v.data[v.link[p]]) \in Nat
      BY <2>3
    <2> HIDE DEF o
    <2>5. Safe(Close(o.v, o.h), a, z)
      BY <2>1, VisitSafe
    <2>6. SizeOf(v, p, works) =
            [v    |-> Close(o.v, o.h),
             size |-> IF IsOpen(o.h) THEN Len(v.data[v.link[p]]) ELSE 0]
      BY <1>2 DEF SizeOf, o
    <2> QED BY <2>4, <2>5, <2>6
  <1> QED BY <1>1, <1>2

\* The copy assignment over an open handle.
LEMMA AssignSafe ==
    ASSUME NEW v, NEW a, NEW z, Safe(v, a, z), NEW k \in Keys, NEW g \in Keys, k # One, g # One, Plain(k), Plain(g),
           a[One] = NoFile, a[k] # NoFile, a[g] # NoFile,
           NEW c, c = IncRef(v, a[g]), NEW u, u = [c EXCEPT !.lost[a[k].idx] = @ + 1]
    PROVE  Safe(u, With(a, k, a[g]), z)
  <1> DEFINE x == a[g]
             b == With(a, One, x)
             d == With(b, k, NoFile)
             e == With(d, k, d[One])
             f == With(e, One, NoFile)
             t == With(a, k, x)
  <1>1. a \in Assignments /\ x \in HandleSet /\ NoFile \in HandleSet /\ One \in Keys
    BY Constants, OneKey DEF Safe, Exact, Assignments
  <1>2. Safe(c, b, z)
    BY <1>1, OneKey, IncRefSafe
  <1>3. b \in Assignments /\ \A j \in Keys : b[j] = IF j = One THEN x ELSE a[j]
    BY <1>1, WithType, ZenonT(30)
  <1>4. t \in Assignments /\ \A j \in Keys : t[j] = IF j = k THEN x ELSE a[j]
    BY <1>1, WithType
  <1> HIDE DEF b, t, x
  <1>5. b[k] = a[k] /\ b[One] = x
    BY <1>1, <1>3
  <1>6. b[k] # NoFile /\ u = [c EXCEPT !.lost[b[k].idx] = @ + 1]
    BY <1>5
  <1>7. Safe(u, d, z)
    BY <1>2, <1>6, ForgetSafe
  <1>8. d \in Assignments /\ \A j \in Keys : d[j] = IF j = k THEN NoFile ELSE b[j]
    BY <1>1, <1>3, WithType
  <1> HIDE DEF d
  <1>9. d[k] = NoFile /\ d[One] = x
    BY <1>1, <1>5, <1>8
  <1>10. Safe(u, f, z)
    BY <1>1, <1>7, <1>9, OneKey, MoveSafe
  <1>11. e \in Assignments /\ \A j \in Keys : e[j] = IF j = k THEN x ELSE d[j]
    BY <1>1, <1>8, <1>9, WithType
  <1> HIDE DEF e
  <1>12. f \in Assignments /\ \A j \in Keys : f[j] = IF j = One THEN NoFile ELSE e[j]
    BY <1>1, <1>11, WithType
  <1> HIDE DEF f
  <1>13. \A j \in Keys : f[j] = t[j]
    BY <1>1, <1>3, <1>4, <1>8, <1>11, <1>12
  <1>14. f = t
    BY <1>4, <1>12, <1>13, SameAssignment
  <1> QED BY <1>10, <1>14 DEF t, x

\* The move assignment.
LEMMA HandOverSafe ==
    ASSUME NEW v, NEW a, NEW z, Safe(v, a, z), NEW k \in Keys, NEW g \in Keys, k # g, Plain(k), Plain(g),
           NEW u, u = Close(v, a[k])
    PROVE  Safe(u, With(With(a, k, a[g]), g, NoFile), z)
  <1> DEFINE x == a[g]
             b == With(a, k, NoFile)
             c == With(b, k, b[g])
             t == With(a, k, x)
  <1>1. a \in Assignments /\ x \in HandleSet /\ NoFile \in HandleSet
    BY Constants DEF Safe, Exact, Assignments
  <1>2. Safe(u, b, z)
    BY CloseSafe
  <1>3. b \in Assignments /\ \A j \in Keys : b[j] = IF j = k THEN NoFile ELSE a[j]
    BY <1>1, WithType
  <1>10. a \in Assignments
    BY <1>1
  <1>11. x \in HandleSet
    BY <1>1
  <1>4. t \in Assignments /\ \A j \in Keys : t[j] = IF j = k THEN x ELSE a[j]
    <2> HIDE DEF x
    <2> QED BY <1>10, <1>11, WithType
  <1> HIDE DEF b, t
  <1>5. b[k] = NoFile /\ b[g] = x
    BY <1>3
  <1>6. Safe(u, With(c, g, NoFile), z)
    BY <1>2, <1>5, MoveSafe
  <1> HIDE DEF x
  <1>7. c \in Assignments /\ \A j \in Keys : c[j] = IF j = k THEN x ELSE b[j]
    BY <1>1, <1>3, <1>5, WithType
  <1> HIDE DEF c
  <1>8. \A j \in Keys : c[j] = t[j]
    BY <1>3, <1>4, <1>7
  <1>9. c = t
    BY <1>4, <1>7, <1>8, SameAssignment
  <1> QED BY <1>6, <1>9 DEF t, x

-----------------------------------------------------------------------------
(* The two places of a buffer                                               *)

Filled(a, b, x, y) == With(With(a, FileKey(b), x), MapKey(b), y)

LEMMA FilledType ==
    ASSUME NEW a \in Assignments, NEW b \in Bufs, NEW x \in HandleSet, NEW y \in HandleSet
    PROVE  /\ Filled(a, b, x, y) \in Assignments
           /\ \A j \in Keys : Filled(a, b, x, y)[j] =
                 IF j = MapKey(b) THEN y ELSE IF j = FileKey(b) THEN x ELSE a[j]
  <1> DEFINE c == With(a, FileKey(b), x)
             d == With(c, MapKey(b), y)
  <1>1. FileKey(b) \in Keys
    BY BufKeys
  <1>2. MapKey(b) \in Keys
    BY BufKeys
  <1>3. c \in Assignments /\ \A j \in Keys : c[j] = IF j = FileKey(b) THEN x ELSE a[j]
    BY <1>1, WithType
  <1> HIDE DEF c
  <1>4. c \in Assignments
    BY <1>3
  <1>5. d \in Assignments /\ \A j \in Keys : d[j] = IF j = MapKey(b) THEN y ELSE c[j]
    BY <1>2, <1>4, WithType
  <1> HIDE DEF d
  <1>6. d = Filled(a, b, x, y)
    BY DEF Filled, c, d
  <1> QED BY <1>3, <1>5, <1>6

LEMMA FilledIs ==
    ASSUME NEW a \in Assignments, NEW b \in Bufs, NEW c \in Assignments,
           \A j \in Keys : j # FileKey(b) /\ j # MapKey(b) => c[j] = a[j]
    PROVE  c = Filled(a, b, c[FileKey(b)], c[MapKey(b)])
  <1> DEFINE x == c[FileKey(b)]
             y == c[MapKey(b)]
             d == Filled(a, b, x, y)
  <1>0. FileKey(b) \in Keys /\ MapKey(b) \in Keys /\ FileKey(b) # MapKey(b)
    BY BufKeys
  <1>1. x \in HandleSet /\ y \in HandleSet
    BY <1>0 DEF Assignments
  <1> HIDE DEF x, y
  <1>2. d \in Assignments /\ \A j \in Keys : d[j] = IF j = MapKey(b) THEN y ELSE IF j = FileKey(b) THEN x ELSE a[j]
    BY <1>1, FilledType
  <1> HIDE DEF d
  <1>3. \A j \in Keys : c[j] = d[j]
    BY <1>0, <1>2 DEF x, y
  <1>4. c = d
    BY <1>2, <1>3, SameAssignment
  <1> QED BY <1>4 DEF d, x, y

\* A handle closed and its file removed.
LEMMA GiveUpSafe ==
    ASSUME NEW v, NEW a, NEW z, Safe(v, a, z), NEW k \in Keys, NEW p \in Paths,
           NEW r, r = GiveUp(v, a[k], p)
    PROVE  Safe(r.v, With(a, k, NoFile), z) /\ r.file = NoFile /\ r.map = NoFile
  <1> DEFINE c == Close(v, a[k])
             b == With(a, k, NoFile)
  <1>1. Safe(c, b, z)
    BY CloseSafe
  <1>2. r.v = Unlink(c, p) /\ r.file = NoFile /\ r.map = NoFile
    BY DEF GiveUp
  <1> HIDE DEF c, b
  <1>5. Safe(r.v, b, z)
    BY <1>1, <1>2, UnlinkSafe
  <1> QED BY <1>2, <1>5 DEF b

\* A file that is mapped, or closed and removed.
LEMMA MappedSafe ==
    ASSUME NEW v, NEW a, NEW z, Safe(v, a, z), NEW b \in Bufs, NEW p \in Paths, NEW fail,
           a[FileKey(b)] # NoFile, a[MapKey(b)] = NoFile,
           Owns(v, a, b), fail # "map" => LongEnough(v, a, b, z[b]),
           NEW r, r = Mapped(v, a[FileKey(b)], p, fail)
    PROVE  /\ Safe(r.v, Filled(a, b, r.file, r.map), z) /\ r.file = r.map
           /\ r.file = IF fail = "map" THEN NoFile ELSE a[FileKey(b)]
  <1> DEFINE F == FileKey(b)
             M == MapKey(b)
  <1>0. F \in Keys /\ M \in Keys /\ F # M /\ a \in Assignments /\ NoFile \in HandleSet
    BY BufKeys, SafeExact, Constants
  <1> HIDE DEF F, M
  <1>1. a[F] # NoFile /\ a[M] = NoFile /\ r = Mapped(v, a[F], p, fail)
    BY DEF F, M
  <1>2. CASE fail = "map"
    <2> DEFINE c == With(a, F, NoFile)
    <2>1. r = GiveUp(v, a[F], p)
      BY <1>1, <1>2 DEF Mapped
    <2>2. Safe(r.v, c, z) /\ r.file = NoFile /\ r.map = NoFile
      BY <1>0, <2>1, GiveUpSafe
    <2>3. c \in Assignments /\ \A j \in Keys : c[j] = IF j = F THEN NoFile ELSE a[j]
      BY <1>0, WithType
    <2> HIDE DEF c
    <2>4. c[F] = NoFile /\ c[M] = NoFile
      BY <1>0, <1>1, <2>3
    <2>5. c = Filled(a, b, c[FileKey(b)], c[MapKey(b)])
      BY <1>0, <2>3, FilledIs DEF F, M
    <2> QED BY <1>2, <2>2, <2>4, <2>5 DEF F, M
  <1>3. CASE fail # "map"
    <2> DEFINE x == a[F]
               c == With(a, M, x)
    <2>1. r.v = IncRef(v, x) /\ r.file = x /\ r.map = x
      BY <1>1, <1>3 DEF Mapped
    <2>2. Safe(r.v, c, z)
      BY <1>3, <2>1, MapSafe DEF F, M
    <2>6. x \in HandleSet
      BY <1>0 DEF Assignments
    <2>3. c \in Assignments /\ \A j \in Keys : c[j] = IF j = M THEN x ELSE a[j]
      <3> HIDE DEF x
      <3> QED BY <1>0, <2>6, WithType
    <2> HIDE DEF c
    <2>4. c[F] = x /\ c[M] = x
      BY <1>0, <2>3
    <2>5. c = Filled(a, b, c[FileKey(b)], c[MapKey(b)])
      BY <1>0, <2>3, FilledIs DEF F, M
    <2> QED BY <1>3, <2>1, <2>2, <2>4, <2>5 DEF F, M
  <1> QED BY <1>2, <1>3

LEMMA PageUpType ==
    ASSUME NEW n \in Nat
    PROVE  PageUp(n) \in Nat /\ PageUp(n) >= n
  <1>1. Page \in Nat /\ Page > 0
    BY NormalBufferAssumption
  <1> DEFINE q == (n + Page - 1) \div Page
             r == (n + Page - 1) % Page
  <1>2. q \in Nat /\ r \in 0 .. Page - 1 /\ n + Page - 1 = Page * q + r
    BY <1>1
  <1> HIDE DEF q, r
  <1>3. q * Page \in Nat /\ q * Page >= n
    BY <1>1, <1>2
  <1> QED BY <1>3 DEF PageUp, q

\* An empty place stays so.
LEMMA WithNothing ==
    ASSUME NEW a \in Assignments, NEW k \in Keys, a[k] = NoFile, NEW x \in HandleSet
    PROVE  With(With(a, k, x), k, NoFile) = a
  <1> DEFINE b == With(a, k, x)
             c == With(b, k, NoFile)
  <1>1. b \in Assignments /\ \A j \in Keys : b[j] = IF j = k THEN x ELSE a[j]
    BY WithType
  <1> HIDE DEF b
  <1>2. b \in Assignments
    BY <1>1
  <1>3. NoFile \in HandleSet
    BY Constants
  <1>4. c \in Assignments /\ \A j \in Keys : c[j] = IF j = k THEN NoFile ELSE b[j]
    BY <1>2, <1>3, WithType
  <1> HIDE DEF c
  <1>5. c \in Assignments
    BY <1>4
  <1>6. \A j \in Keys : c[j] = a[j]
    BY <1>1, <1>4
  <1>7. c = a
    BY <1>5, <1>6, SameAssignment
  <1> QED BY <1>7 DEF c, b

\* A handle that names an open file.
LEMMA HeldOpen ==
    ASSUME NEW v, NEW a, NEW z, Safe(v, a, z), NEW k \in Keys
    PROVE  /\ a[k].idx = 0 <=> a[k] = NoFile
           /\ a[k].idx # 0 => a[k].idx \in OpenSlots(v) /\ v.desc[a[k].idx].seq = a[k].seq
  BY Constants DEF Safe, Exact, Named

MapMode(auto) == {"read", "write", "exclusive"} \cup (IF auto THEN {"auto_create"} ELSE {})

\* normal_buffer::create_memory_map, for a buffer that has nothing yet.
LEMMA CreateSafe ==
    ASSUME NEW v, NEW a, NEW z, Safe(v, a, z), NEW b \in Bufs, NEW p \in Paths, NEW n \in Nat,
           NEW auto \in BOOLEAN, NEW fail, auto => CanOpen(v, p),
           a[FileKey(b)] = NoFile, a[MapKey(b)] = NoFile, z[b] = PageUp(n),
           NEW r, r = create_memory_map(v, n, p, auto, fail)
    PROVE  Safe(r.v, Filled(a, b, r.file, r.map), z) /\ r.file = r.map
  <1> DEFINE F == FileKey(b)
             M == MapKey(b)
             mode == MapMode(auto)
             o == Open(v, p, mode, fail # "open")
             size == PageUp(n)
             same == Len(o.v.data[InodeOf(o.v, o.h)]) = size
             cut  == IF same THEN o.v
                     ELSE Truncate(o.v, o.h, size, IF fail = "truncate" THEN "fails" ELSE "works")
             mp   == Mapped(cut, o.h, p, fail)
             none == [v |-> v, file |-> NoFile, map |-> NoFile]
             back == [v |-> Close(o.v, o.h), file |-> NoFile, map |-> NoFile]
             c == With(a, F, o.h)
  <1>0. F \in Keys /\ M \in Keys /\ F # M /\ a \in Assignments /\ NoFile \in HandleSet
    BY BufKeys, SafeExact, Constants
  <1>00. a[F] = NoFile /\ a[M] = NoFile
    OBVIOUS
  <1>1. r = IF ~auto /\ v.link[p] = NoInode THEN none
            ELSE IF ~IsValid(o.v, o.h) THEN back
            ELSE IF fail = "truncate" /\ ~same THEN GiveUp(cut, o.h, p)
            ELSE IF fail = "align" THEN GiveUp(Close(mp.v, mp.map), mp.file, p)
            ELSE mp
    BY DEF create_memory_map, MapMode
  <1>2. OpenOutcome(v, o, p, mode)
    <2>1. mode \in SUBSET Flags /\ (fail # "open") \in BOOLEAN
      BY DEF Flags, MapMode
    <2>2. CanOpen(v, p) \/ "auto_create" \notin mode
      BY DEF MapMode
    <2>3. Sound(v)
      BY SafeExact
    <2> HIDE DEF mode
    <2> QED BY <2>1, <2>2, <2>3, OpenFields
  <1> HIDE DEF o, F, M
  <1>01. \A d \in Bufs : F # MapKey(d) /\ (F = FileKey(d) => d = b)
    BY BufApart DEF F
  <1>3. Safe(o.v, c, z) /\ o.h \in HandleSet
    <2>1. \A d \in Bufs : F # MapKey(d)
      BY <1>01
    <2> QED BY <1>0, <1>00, <1>2, <2>1, OpenSafe, OutcomeHandle
  <1>4. c \in Assignments /\ \A j \in Keys : c[j] = IF j = F THEN o.h ELSE a[j]
    BY <1>0, <1>3, WithType
  <1>5. a = Filled(a, b, NoFile, NoFile)
    <2>1. a = Filled(a, b, a[FileKey(b)], a[MapKey(b)])
      BY <1>0, FilledIs
    <2> QED BY <1>00, <2>1 DEF F, M
  <1>6. With(c, F, NoFile) = a
    BY <1>0, <1>00, <1>3, WithNothing
  <1> HIDE DEF c
  <1>7. c[F] = o.h /\ c[M] = NoFile
    BY <1>0, <1>00, <1>4
  <1>8. CASE ~auto /\ v.link[p] = NoInode
    <2>1. r.v = v /\ r.file = NoFile /\ r.map = NoFile
      BY <1>1, <1>8
    <2> QED BY <1>5, <2>1
  <1>9. CASE ~(~auto /\ v.link[p] = NoInode) /\ ~IsValid(o.v, o.h)
    <2>1. r.v = Close(o.v, c[F]) /\ r.file = NoFile /\ r.map = NoFile
      BY <1>1, <1>7, <1>9
    <2>2. Safe(r.v, With(c, F, NoFile), z)
      BY <1>0, <1>3, <2>1, CloseSafe
    <2> QED BY <1>5, <1>6, <2>1, <2>2
  <1>10. CASE ~(~auto /\ v.link[p] = NoInode) /\ IsValid(o.v, o.h)
    <2>1. o.h.idx # 0 /\ o.h.idx \in OpenSlots(o.v) /\ o.h # NoFile
      BY <1>0, <1>3, <1>7, <1>10, HeldOpen DEF IsValid, IsOpen
    <2>2. o.v \in World /\ size \in Nat
      BY <1>3, SafeExact, PageUpType
    <2>3. Owns(o.v, c, b) /\ o.h.idx = c[F].idx
      <3>1. PICK f \in Inodes, i \in Nat : OpenedSlot(v, o, p, mode, f, i)
        BY <1>2, <2>1, Constants DEF OpenOutcome, OpenRefused
      <3>2. o.h.idx = i /\ i \notin OpenSlots(v) /\ o.v.desc[i].mode = mode /\ c[F].idx = i
        BY <1>7, <3>1 DEF OpenedSlot
      <3>3. {"write", "exclusive"} \subseteq mode
        BY DEF MapMode
      <3>4. \A j \in Keys : a[j].idx # i
        <4>1. Named(v, a)
          BY DEF Safe, Exact
        <4> QED BY <2>1, <3>2, <4>1 DEF Named
      <3>5. Alone(c, b, i)
        BY <1>4, <3>4 DEF Alone, F
      <3> QED BY <3>2, <3>3, <3>5 DEF Owns, F
    <2>4. SameDesc(o.v, cut) /\ Safe(cut, c, z)
      <3>1. CASE same
        BY <1>3, <2>2, <3>1, NotEdited DEF Edited
      <3>2. CASE ~same
        <4> DEFINE how == IF fail = "truncate" THEN "fails" ELSE "works"
        <4>1. cut = Truncate(o.v, o.h, size, how)
          BY <3>2
        <4>2. Loose(c, F)
          BY <1>01, <1>7 DEF Loose, M
        <4> HIDE DEF how, size, cut
        <4>3. Edited(o.v, cut, o.v.desc[o.h.idx].inode)
          BY <2>1, <2>2, <4>1, TruncateFields
        <4>4. cut = Truncate(o.v, c[F], size, how) /\ c[F] # NoFile
          BY <1>7, <2>1, <4>1
        <4>5. Safe(cut, c, z)
          BY <1>0, <1>3, <2>2, <4>2, <4>4, TruncateSafe
        <4> QED BY <4>3, <4>5 DEF Edited
      <3> QED BY <3>1, <3>2
    <2>5. Safe(cut, c, z)
      BY <2>4
    <2>14. Owns(cut, c, b) /\ cut.desc[o.h.idx].inode = InodeOf(o.v, o.h)
      <3> HIDE DEF cut
      <3> QED BY <2>1, <2>3, <2>4 DEF Owns, SameDesc, OpenSlots, InodeOf, F
    <2>15. ~(fail = "truncate" /\ ~same) => Len(cut.data[InodeOf(o.v, o.h)]) = size
      <3>1. CASE same
        BY <3>1
      <3>2. CASE ~same /\ fail # "truncate"
        <4>1. cut = Truncate(o.v, o.h, size, "works")
          BY <3>2
        <4>2. "write" \in o.v.desc[o.h.idx].mode
          BY <2>3 DEF Owns, F
        <4> HIDE DEF size, cut
        <4>3. Len(cut.data[o.v.desc[o.h.idx].inode]) = size
          BY <2>1, <2>2, <4>1, <4>2, TruncateFields
        <4> QED BY <4>3 DEF InodeOf
      <3> QED BY <3>1, <3>2
    <2>16. ~(fail = "truncate" /\ ~same) => LongEnough(cut, c, b, z[b])
      <3> HIDE DEF cut, same
      <3> QED BY <2>2, <2>3, <2>14, <2>15 DEF LongEnough, F
    <2> HIDE DEF cut, same
    <2>6. CASE fail = "truncate" /\ ~same
      <3>1. r = GiveUp(cut, c[F], p)
        BY <1>1, <1>7, <1>10, <2>6
      <3>2. Safe(r.v, With(c, F, NoFile), z) /\ r.file = NoFile /\ r.map = NoFile
        BY <1>0, <2>5, <3>1, GiveUpSafe
      <3> QED BY <1>5, <1>6, <3>2
    <2>7. ~(fail = "truncate" /\ ~same) =>
            r = IF fail = "align" THEN GiveUp(Close(mp.v, mp.map), mp.file, p) ELSE mp
      BY <1>1, <1>10
    <2>8. mp = Mapped(cut, c[FileKey(b)], p, fail) /\ c[FileKey(b)] # NoFile /\ c[MapKey(b)] = NoFile
      BY <1>7, <2>1 DEF F, M
    <2> HIDE DEF mp
    <2>17. SUFFICES ASSUME ~(fail = "truncate" /\ ~same)
                    PROVE  Safe(r.v, Filled(a, b, r.file, r.map), z) /\ r.file = r.map
      BY <2>6
    <2>9. /\ Safe(mp.v, Filled(c, b, mp.file, mp.map), z) /\ mp.file = mp.map
          /\ mp.file = IF fail = "map" THEN NoFile ELSE c[FileKey(b)]
      BY <2>5, <2>8, <2>14, <2>16, <2>17, MappedSafe
    <2>10. mp.file \in HandleSet /\ mp.map \in HandleSet
      BY <1>0, <1>3, <1>7, <2>9 DEF F
    <2>11. Filled(c, b, mp.file, mp.map) = Filled(a, b, mp.file, mp.map)
      <3> DEFINE d == Filled(c, b, mp.file, mp.map)
                 x == mp.file
                 y == mp.map
      <3>1. /\ d \in Assignments
            /\ \A j \in Keys : d[j] = IF j = MapKey(b) THEN y ELSE IF j = FileKey(b) THEN x ELSE c[j]
        BY <1>4, <2>10, FilledType
      <3> HIDE DEF d, x, y
      <3>2. d[F] = x /\ d[M] = y
        BY <1>0, <3>1 DEF F, M
      <3>3. \A j \in Keys : j # FileKey(b) /\ j # MapKey(b) => d[j] = a[j]
        BY <1>4, <3>1 DEF F
      <3>4. d = Filled(a, b, d[FileKey(b)], d[MapKey(b)])
        BY <1>0, <3>1, <3>3, FilledIs
      <3>5. d = Filled(a, b, x, y)
        BY <3>2, <3>4 DEF F, M
      <3> QED BY <3>5 DEF d, x, y
    <2>12. CASE ~(fail = "truncate" /\ ~same) /\ fail # "align"
      BY <2>7, <2>9, <2>11, <2>12
    <2>13. CASE ~(fail = "truncate" /\ ~same) /\ fail = "align"
      <3> DEFINE d == Filled(a, b, mp.file, mp.map)
                 q == Close(mp.v, mp.map)
                 e == With(d, M, NoFile)
      <3>1. r = GiveUp(q, mp.file, p) /\ mp.file = o.h /\ mp.map = o.h
        BY <1>7, <2>7, <2>9, <2>13 DEF F
      <3>2. Safe(mp.v, d, z)
        BY <2>9, <2>11
      <3>3. /\ d \in Assignments
            /\ \A j \in Keys : d[j] = IF j = MapKey(b) THEN mp.map ELSE IF j = FileKey(b) THEN mp.file ELSE a[j]
        BY <1>0, <2>10, FilledType
      <3> HIDE DEF d
      <3>4. q = Close(mp.v, d[M])
        BY <1>0, <3>3 DEF M
      <3> HIDE DEF q
      <3>5. Safe(q, e, z)
        BY <1>0, <3>2, <3>4, CloseSafe
      <3>6. e \in Assignments /\ \A j \in Keys : e[j] = IF j = M THEN NoFile ELSE d[j]
        BY <1>0, <3>3, WithType
      <3> HIDE DEF e
      <3>7. r = GiveUp(q, e[F], p)
        BY <1>0, <3>1, <3>3, <3>6 DEF F, M
      <3>8. Safe(r.v, With(e, F, NoFile), z) /\ r.file = NoFile /\ r.map = NoFile
        BY <1>0, <3>5, <3>7, GiveUpSafe
      <3> DEFINE g == With(e, F, NoFile)
      <3>9. g \in Assignments /\ \A j \in Keys : g[j] = IF j = F THEN NoFile ELSE e[j]
        BY <1>0, <3>6, WithType
      <3> HIDE DEF g
      <3>10. \A j \in Keys : g[j] = a[j]
        BY <1>00, <3>3, <3>6, <3>9 DEF F, M
      <3>11. g = a
        BY <1>0, <3>9, <3>10, SameAssignment
      <3> QED BY <1>5, <3>8, <3>11 DEF g
    <2> QED BY <2>6, <2>12, <2>13
  <1> QED BY <1>8, <1>9, <1>10

-----------------------------------------------------------------------------
(* Where the handles of a state are                                         *)

TaskSet == [op : {"none", "append", "write", "copy"},
            at : {"", "open", "truncate", "chunk", "text"},
            src : HandleSet, dst : HandleSet, path : Paths \cup {""}, size : Nat, done : Nat]
BufSet == [st : {"none", "heap", "mapped"}, file : HandleSet, map : HandleSet,
           path : Paths \cup {""}, mem : Seq(Nat), size : Nat]
Typed(x, t, n) == x \in [Handles -> HandleSet] /\ t \in TaskSet /\ n \in [Bufs -> BufSet]

Place(x, t, n, k) == CASE k[1] = "hv"   -> x[k[2]]
                       [] k[1] = "task" -> t[k[2]]
                       [] k[1] = "file" -> n[k[2]].file
                       [] OTHER         -> n[k[2]].map
Places(x, t, n) == [k \in Keys |-> IF k \in Temp THEN NoFile ELSE Place(x, t, n, k)]

HvKey(h) == <<"hv", h>>
SrcKey   == <<"task", "src">>
DstKey   == <<"task", "dst">>
Tasked(a, s, d) == With(With(a, SrcKey, s), DstKey, d)

\* The kinds of places are apart.
LEMMA KeyKinds ==
    /\ \A h \in Handles : HvKey(h) \in Keys \ Temp
    /\ SrcKey \in Keys \ Temp /\ DstKey \in Keys \ Temp /\ SrcKey # DstKey
    /\ \A b \in Bufs : FileKey(b) \in Keys \ Temp /\ MapKey(b) \in Keys \ Temp
    /\ \A h, g : HvKey(h) = HvKey(g) <=> h = g
    /\ \A b, c : /\ FileKey(b) = FileKey(c) <=> b = c
                 /\ MapKey(b) = MapKey(c) <=> b = c
                 /\ FileKey(b) # MapKey(c)
    /\ \A h, b : /\ HvKey(h) # FileKey(b) /\ HvKey(h) # MapKey(b)
                 /\ HvKey(h) # SrcKey /\ HvKey(h) # DstKey
                 /\ SrcKey # FileKey(b) /\ SrcKey # MapKey(b)
                 /\ DstKey # FileKey(b) /\ DstKey # MapKey(b)
    /\ One \in Temp
  <1>1. /\ \A h \in Handles : HvKey(h) \in Keys
        /\ SrcKey \in Keys /\ DstKey \in Keys
        /\ \A b \in Bufs : FileKey(b) \in Keys /\ MapKey(b) \in Keys
    BY DEF HvKey, SrcKey, DstKey, FileKey, MapKey, Keys, Held
  <1>2. /\ \A h : HvKey(h) \notin Temp
        /\ SrcKey \notin Temp /\ DstKey \notin Temp
        /\ \A b : FileKey(b) \notin Temp /\ MapKey(b) \notin Temp
    BY DEF HvKey, SrcKey, DstKey, FileKey, MapKey, Temp
  <1>3. /\ \A h, g : HvKey(h) = HvKey(g) <=> h = g
        /\ \A b, c : FileKey(b) = FileKey(c) <=> b = c
        /\ \A b, c : MapKey(b) = MapKey(c) <=> b = c
        /\ \A b, c : FileKey(b) # MapKey(c)
    BY DEF HvKey, FileKey, MapKey
  <1>4. /\ SrcKey # DstKey
        /\ \A h, b : HvKey(h) # FileKey(b) /\ HvKey(h) # MapKey(b)
        /\ \A h : HvKey(h) # SrcKey /\ HvKey(h) # DstKey
        /\ \A b : /\ SrcKey # FileKey(b) /\ SrcKey # MapKey(b)
                  /\ DstKey # FileKey(b) /\ DstKey # MapKey(b)
    BY DEF HvKey, SrcKey, DstKey, FileKey, MapKey
  <1>5. One \in Temp
    BY DEF One, Temp
  <1> QED BY <1>1, <1>2, <1>3, <1>4, <1>5

LEMMA KeyCases ==
    ASSUME NEW k \in Keys
    PROVE  \/ \E h \in Handles : k = HvKey(h)
           \/ k = SrcKey \/ k = DstKey
           \/ \E b \in Bufs : k = FileKey(b)
           \/ \E b \in Bufs : k = MapKey(b)
           \/ k \in Temp
  BY DEF HvKey, SrcKey, DstKey, FileKey, MapKey, Keys, Held

\* What a place has.
PlacesAre(a, x, t, n) ==
    /\ a \in Assignments
    /\ \A h \in Handles : a[HvKey(h)] = x[h]
    /\ a[SrcKey] = t.src /\ a[DstKey] = t.dst
    /\ \A b \in Bufs : a[FileKey(b)] = n[b].file /\ a[MapKey(b)] = n[b].map
    /\ \A k \in Temp : a[k] = NoFile

LEMMA PlacesAt ==
    ASSUME NEW x, NEW t, NEW n, Typed(x, t, n)
    PROVE  PlacesAre(Places(x, t, n), x, t, n)
  <1> DEFINE P == Places(x, t, n)
  <1>1. /\ \A h \in Handles : Place(x, t, n, HvKey(h)) = x[h]
        /\ Place(x, t, n, SrcKey) = t.src /\ Place(x, t, n, DstKey) = t.dst
        /\ \A b : Place(x, t, n, FileKey(b)) = n[b].file
        /\ \A b : Place(x, t, n, MapKey(b)) = n[b].map
    BY DEF Place, HvKey, SrcKey, DstKey, FileKey, MapKey, Typed, TaskSet
  <1>2. /\ DOMAIN P = Keys /\ P = [k \in Keys |-> P[k]]
        /\ \A k \in Keys : P[k] = IF k \in Temp THEN NoFile ELSE Place(x, t, n, k)
    BY DEF Places
  <1> HIDE DEF P
  <1>3. /\ \A h \in Handles : P[HvKey(h)] = x[h]
        /\ P[SrcKey] = t.src /\ P[DstKey] = t.dst
        /\ \A b \in Bufs : P[FileKey(b)] = n[b].file /\ P[MapKey(b)] = n[b].map
        /\ \A k \in Temp : P[k] = NoFile
    <2>1. \A h \in Handles : P[HvKey(h)] = x[h]
      BY <1>1, <1>2, KeyKinds
    <2>2. P[SrcKey] = t.src /\ P[DstKey] = t.dst
      BY <1>1, <1>2, KeyKinds
    <2>3. \A b \in Bufs : P[FileKey(b)] = n[b].file /\ P[MapKey(b)] = n[b].map
      BY <1>1, <1>2, KeyKinds
    <2>4. \A k \in Temp : P[k] = NoFile
      BY <1>2 DEF Keys
    <2> QED BY <2>1, <2>2, <2>3, <2>4
  <1>4. ASSUME NEW k \in Keys PROVE P[k] \in HandleSet
    <2>1. /\ \A h \in Handles : x[h] \in HandleSet
          /\ t.src \in HandleSet /\ t.dst \in HandleSet /\ NoFile \in HandleSet
      BY Constants DEF Typed, TaskSet
    <2>2. \A b \in Bufs : n[b].file \in HandleSet /\ n[b].map \in HandleSet
      BY DEF Typed, BufSet
    <2> QED BY <1>3, <2>1, <2>2, KeyCases
  <1>5. P \in Assignments
    BY <1>2, <1>4 DEF Assignments
  <1>6. PlacesAre(P, x, t, n)
    BY <1>3, <1>5 DEF PlacesAre
  <1> QED BY <1>6 DEF P

LEMMA PlacesUnique ==
    ASSUME NEW a, NEW b, NEW x, NEW t, NEW n, PlacesAre(a, x, t, n), PlacesAre(b, x, t, n)
    PROVE  a = b
  <1>1. a \in Assignments /\ b \in Assignments
    BY DEF PlacesAre
  <1>2. \A k \in Keys : a[k] = b[k]
    BY KeyCases DEF PlacesAre
  <1> QED BY <1>1, <1>2, SameAssignment

-----------------------------------------------------------------------------
(* The inductive invariant                                                  *)

\* copy_file and the text calls have the files open that their next step uses.
TaskOK(t) ==
    /\ t \in TaskSet
    /\ t.at = "open" => t.src # NoFile /\ t.dst = NoFile /\ t.path \in Paths
    /\ t.at \in {"chunk", "truncate", "text"} => t.dst # NoFile
    /\ t.at = "chunk" \/ t.op = "copy" => t.src # NoFile
    /\ t.at = "text" \/ t.op = "write" => t.src = NoFile

\* A mapped buffer has its file twice, another one has none.
BufOK(m) ==
    /\ m \in BufSet
    /\ m.st = "mapped" => m.file # NoFile /\ m.map = m.file /\ m.path \in Paths
    /\ m.st # "mapped" => m.file = NoFile /\ m.map = NoFile

Current == Places(hv, task, nb)
Now == [b \in Bufs |-> nb[b].size]
FilesInv ==
    /\ hv \in [Handles -> HandleSet] /\ TaskOK(task)
    /\ nb \in [Bufs -> BufSet] /\ \A b \in Bufs : BufOK(nb[b])
    /\ Safe(w, Current, Now)

LEMMA InvFacts ==
    ASSUME FilesInv
    PROVE  /\ Typed(hv, task, nb) /\ PlacesAre(Current, hv, task, nb)
           /\ Current[One] = NoFile /\ w \in World /\ Sound(w) /\ Current \in Assignments
  <1>1. Typed(hv, task, nb)
    BY DEF FilesInv, Typed, TaskOK
  <1>2. PlacesAre(Current, hv, task, nb)
    BY <1>1, PlacesAt DEF Current
  <1>3. Current[One] = NoFile
    BY <1>2, KeyKinds DEF PlacesAre
  <1>4. w \in World /\ Sound(w) /\ Current \in Assignments
    BY SafeExact DEF FilesInv
  <1> QED BY <1>1, <1>2, <1>3, <1>4

LEMMA Settle ==
    ASSUME NEW v, NEW c, NEW x, NEW t, NEW n, NEW z, Safe(v, c, z), Typed(x, t, n), PlacesAre(c, x, t, n)
    PROVE  Safe(v, Places(x, t, n), z)
  <1>1. PlacesAre(Places(x, t, n), x, t, n)
    BY PlacesAt
  <1>2. Places(x, t, n) = c
    BY <1>1, PlacesUnique
  <1> QED BY <1>2

\* A step that moves no handle.
LEMMA AfterNone ==
    ASSUME FilesInv, hv' = hv, task' = task, nb' = nb, Safe(w', Current, Now)
    PROVE  FilesInv'
  <1>1. Current' = Current /\ Now' = Now
    BY DEF Current, Places, Place, Now
  <1> QED BY <1>1 DEF FilesInv

\* A step that changes one handle of the program.
LEMMA AfterHv ==
    ASSUME FilesInv, NEW h \in Handles, NEW y \in HandleSet,
           hv' = [hv EXCEPT ![h] = y], task' = task, nb' = nb,
           Safe(w', With(Current, HvKey(h), y), Now)
    PROVE  FilesInv'
  <1> DEFINE a == Current
             c == With(a, HvKey(h), y)
  <1>1. a \in Assignments /\ PlacesAre(a, hv, task, nb) /\ Typed(hv, task, nb)
    BY InvFacts
  <1>2. HvKey(h) \in Keys
    BY KeyKinds
  <1>3. Safe(w', c, Now)
    OBVIOUS
  <1> HIDE DEF a
  <1>4. c \in Assignments /\ \A j \in Keys : c[j] = IF j = HvKey(h) THEN y ELSE a[j]
    BY <1>1, <1>2, WithType
  <1> HIDE DEF c
  <1>5. hv' \in [Handles -> HandleSet] /\ \A g \in Handles : hv'[g] = IF g = h THEN y ELSE hv[g]
    BY <1>1 DEF Typed
  <1>6. Typed(hv', task', nb')
    BY <1>1, <1>5 DEF Typed
  <1>7. PlacesAre(c, hv', task', nb')
    <2>1. \A g \in Handles : c[HvKey(g)] = hv'[g]
      BY <1>1, <1>4, <1>5, KeyKinds DEF PlacesAre
    <2>2. c[SrcKey] = task.src /\ c[DstKey] = task.dst
      BY <1>1, <1>4, KeyKinds DEF PlacesAre
    <2>3. \A b \in Bufs : c[FileKey(b)] = nb[b].file /\ c[MapKey(b)] = nb[b].map
      BY <1>1, <1>4, KeyKinds DEF PlacesAre
    <2>4. \A k \in Temp : c[k] = NoFile
      <3>1. \A k \in Temp : k \in Keys /\ k # HvKey(h)
        BY KeyKinds DEF Keys
      <3> QED BY <1>1, <1>4, <3>1 DEF PlacesAre
    <2> QED BY <1>4, <2>1, <2>2, <2>3, <2>4 DEF PlacesAre
  <1>8. Safe(w', Places(hv', task', nb'), Now)
    BY <1>3, <1>6, <1>7, Settle
  <1>9. Now' = Now
    BY DEF Now
  <1> QED BY <1>5, <1>8, <1>9 DEF FilesInv, Current

\* A step of the text calls or of copy_file.
LEMMA AfterTask ==
    ASSUME FilesInv, hv' = hv, nb' = nb, TaskOK(task'), NEW c \in Assignments,
           \A j \in Keys : j # SrcKey /\ j # DstKey => c[j] = Current[j],
           c[SrcKey] = task'.src, c[DstKey] = task'.dst, Safe(w', c, Now)
    PROVE  FilesInv'
  <1> DEFINE a == Current
  <1>1. a \in Assignments /\ PlacesAre(a, hv, task, nb) /\ Typed(hv, task, nb)
    BY InvFacts
  <1>2. \A j \in Keys : j # SrcKey /\ j # DstKey => c[j] = a[j]
    OBVIOUS
  <1> HIDE DEF a
  <1>3. Typed(hv', task', nb')
    BY <1>1 DEF Typed, TaskOK
  <1>4. PlacesAre(c, hv', task', nb')
    <2>1. \A g \in Handles : c[HvKey(g)] = hv'[g]
      BY <1>1, <1>2, KeyKinds DEF PlacesAre
    <2>3. \A b \in Bufs : c[FileKey(b)] = nb[b].file /\ c[MapKey(b)] = nb[b].map
      BY <1>1, <1>2, KeyKinds DEF PlacesAre
    <2>4. \A k \in Temp : c[k] = NoFile
      <3>1. \A k \in Temp : k \in Keys /\ k # SrcKey /\ k # DstKey
        BY KeyKinds DEF Keys
      <3> QED BY <1>1, <1>2, <3>1 DEF PlacesAre
    <2> QED BY <2>1, <2>3, <2>4 DEF PlacesAre
  <1>5. Safe(w', Places(hv', task', nb'), Now)
    BY <1>3, <1>4, Settle
  <1>6. Now' = Now
    BY DEF Now
  <1> QED BY <1>5, <1>6 DEF FilesInv, Current

\* A step of a buffer.
LEMMA AfterBuf ==
    ASSUME FilesInv, NEW b \in Bufs, NEW m, BufOK(m),
           hv' = hv, task' = task, nb' = [nb EXCEPT ![b] = m],
           Safe(w', Filled(Current, b, m.file, m.map), [Now EXCEPT ![b] = m.size])
    PROVE  FilesInv'
  <1> DEFINE a == Current
             c == Filled(a, b, m.file, m.map)
             y == [Now EXCEPT ![b] = m.size]
  <1>1. a \in Assignments /\ PlacesAre(a, hv, task, nb) /\ Typed(hv, task, nb)
    BY InvFacts
  <1>2. m \in BufSet /\ m.file \in HandleSet /\ m.map \in HandleSet
    BY DEF BufOK, BufSet
  <1>3. Safe(w', c, y)
    OBVIOUS
  <1> HIDE DEF a
  <1>4. /\ c \in Assignments
        /\ \A j \in Keys : c[j] = IF j = MapKey(b) THEN m.map ELSE IF j = FileKey(b) THEN m.file ELSE a[j]
    BY <1>1, <1>2, FilledType
  <1> HIDE DEF c
  <1>5. nb' \in [Bufs -> BufSet] /\ \A d \in Bufs : nb'[d] = IF d = b THEN m ELSE nb[d]
    BY <1>1, <1>2 DEF Typed
  <1>6. Typed(hv', task', nb')
    BY <1>1, <1>5 DEF Typed
  <1>7. PlacesAre(c, hv', task', nb')
    <2>1. \A g \in Handles : c[HvKey(g)] = hv'[g]
      BY <1>1, <1>4, KeyKinds DEF PlacesAre
    <2>2. c[SrcKey] = task.src /\ c[DstKey] = task.dst
      BY <1>1, <1>4, KeyKinds DEF PlacesAre
    <2>3. \A d \in Bufs : c[FileKey(d)] = nb'[d].file /\ c[MapKey(d)] = nb'[d].map
      BY <1>1, <1>4, <1>5, KeyKinds DEF PlacesAre
    <2>4. \A k \in Temp : c[k] = NoFile
      <3>1. \A k \in Temp : k \in Keys /\ k # FileKey(b) /\ k # MapKey(b)
        BY KeyKinds DEF Keys
      <3> QED BY <1>1, <1>4, <3>1 DEF PlacesAre
    <2> QED BY <1>4, <2>1, <2>2, <2>3, <2>4 DEF PlacesAre
  <1>8. Safe(w', Places(hv', task', nb'), y)
    BY <1>3, <1>6, <1>7, Settle
  <1>9. \A d \in Bufs : BufOK(nb'[d])
    BY <1>5 DEF FilesInv
  <1>10. Now' = y
    BY <1>5 DEF Now
  <1> QED BY <1>5, <1>8, <1>9, <1>10 DEF FilesInv, Current

-----------------------------------------------------------------------------
(* Every step keeps it                                                      *)

\* A handle of the program, by its place.
LEMMA HvAt ==
    ASSUME FilesInv, NEW h \in Handles
    PROVE  /\ HvKey(h) \in Keys /\ HvKey(h) # One /\ Plain(HvKey(h)) /\ hv[h] = Current[HvKey(h)]
           /\ hv[h] \in HandleSet
           /\ hv[h].idx = 0 <=> hv[h] = NoFile
           /\ hv[h].idx # 0 => hv[h].idx \in OpenSlots(w) /\ w.desc[hv[h].idx].seq = hv[h].seq
  <1>1. HvKey(h) \in Keys /\ HvKey(h) # One /\ Plain(HvKey(h))
    BY KeyKinds DEF Plain
  <1>2. hv[h] = Current[HvKey(h)]
    BY InvFacts DEF PlacesAre
  <1>3. hv[h] \in HandleSet
    BY DEF FilesInv
  <1>4. Safe(w, Current, Now)
    BY DEF FilesInv
  <1>5. /\ Current[HvKey(h)].idx = 0 <=> Current[HvKey(h)] = NoFile
        /\ Current[HvKey(h)].idx # 0 =>
              /\ Current[HvKey(h)].idx \in OpenSlots(w)
              /\ w.desc[Current[HvKey(h)].idx].seq = Current[HvKey(h)].seq
    BY <1>1, <1>4, HeldOpen
  <1> QED BY <1>1, <1>2, <1>3, <1>5

\* The outcomes of an open in a state.
LEMMA OpenNow ==
    ASSUME FilesInv, NEW p \in Paths, NEW m \in SUBSET Flags, NEW works \in BOOLEAN,
           CanOpen(w, p) \/ "auto_create" \notin m, NEW o, o = Open(w, p, m, works)
    PROVE  OpenOutcome(w, o, p, m)
  BY InvFacts, OpenFields

LEMMA StepOpen ==
    ASSUME FilesInv, NEW h \in Handles, NEW p \in Paths, NEW m \in Modes,
           open_file(h, p, m), nb' = nb
    PROVE  FilesInv'
  <1>1. PICK works \in BOOLEAN :
            /\ CanOpen(w, p) /\ w' = Close(Open(w, p, m, works).v, hv[h])
            /\ hv' = [hv EXCEPT ![h] = Open(w, p, m, works).h] /\ Quiet
    BY DEF open_file
  <1> DEFINE o == Open(w, p, m, works)
  <1>2. m \in SUBSET Flags
    BY FileManagerAssumption DEF Flags
  <1>3. OpenOutcome(w, o, p, m)
    BY <1>1, <1>2, OpenNow
  <1>4. w' = Close(o.v, hv[h]) /\ hv' = [hv EXCEPT ![h] = o.h] /\ task' = task
    BY <1>1 DEF Quiet
  <1> HIDE DEF o
  <1>5. o.h \in HandleSet
    BY <1>3, OutcomeHandle
  <1>6. w' = Close(o.v, Current[HvKey(h)]) /\ HvKey(h) \in Keys /\ HvKey(h) # One /\ Plain(HvKey(h))
    BY <1>4, HvAt
  <1>7. Safe(w, Current, Now) /\ Current[One] = NoFile
    BY InvFacts DEF FilesInv
  <1>8. Safe(w', With(Current, HvKey(h), o.h), Now)
    BY <1>3, <1>6, <1>7, ReopenSafe
  <1> QED BY <1>4, <1>5, <1>8, AfterHv

\* A handle closed and cleared.
LEMMA StepCleared ==
    ASSUME FilesInv, NEW h \in Handles, w' = Close(w, hv[h]),
           hv' = [hv EXCEPT ![h] = NoFile], task' = task, nb' = nb
    PROVE  FilesInv'
  <1>1. w' = Close(w, Current[HvKey(h)]) /\ HvKey(h) \in Keys
    BY HvAt
  <1>2. Safe(w, Current, Now) /\ NoFile \in HandleSet
    BY Constants DEF FilesInv
  <1>3. Safe(w', With(Current, HvKey(h), NoFile), Now)
    BY <1>1, <1>2, CloseSafe
  <1> QED BY <1>2, <1>3, AfterHv

LEMMA StepClose ==
    ASSUME FilesInv, NEW h \in Handles, close_file(h) \/ invalid(h), nb' = nb
    PROVE  FilesInv'
  <1>1. w' = Close(w, hv[h])
    BY DEF close_file, invalid, Close
  <1>2. hv' = [hv EXCEPT ![h] = NoFile] /\ task' = task
    BY DEF close_file, invalid, Quiet
  <1> QED BY <1>1, <1>2, StepCleared

LEMMA StepCopy ==
    ASSUME FilesInv, NEW h \in Handles, NEW g \in Handles, copy_handle(h, g), nb' = nb
    PROVE  FilesInv'
  <1>1. /\ hv[h] = NoFile /\ hv[g] # NoFile /\ w' = IncRef(w, hv[g])
        /\ hv' = [hv EXCEPT ![h] = hv[g]] /\ task' = task
    BY DEF copy_handle, Quiet
  <1>2. /\ HvKey(h) \in Keys /\ Plain(HvKey(h)) /\ Plain(HvKey(g)) /\ Current[HvKey(h)] = hv[h]
        /\ HvKey(g) \in Keys /\ Current[HvKey(g)] = hv[g] /\ hv[g] \in HandleSet
    BY HvAt
  <1>3. Safe(w, Current, Now)
    BY DEF FilesInv
  <1>4. /\ Current[HvKey(h)] = NoFile /\ Current[HvKey(g)] # NoFile
        /\ w' = IncRef(w, Current[HvKey(g)])
    BY <1>1, <1>2
  <1>5. Safe(w', With(Current, HvKey(h), Current[HvKey(g)]), Now)
    BY <1>2, <1>3, <1>4, IncRefSafe
  <1>6. Safe(w', With(Current, HvKey(h), hv[g]), Now)
    BY <1>2, <1>5
  <1> QED BY <1>1, <1>2, <1>6, AfterHv

LEMMA StepAssign ==
    ASSUME FilesInv, NEW h \in Handles, NEW g \in Handles, copy_assign(h, g), nb' = nb
    PROVE  FilesInv'
  <1> DEFINE v == IncRef(w, hv[g])
  <1>1. /\ hv[h] # NoFile /\ hv[g] # NoFile /\ w' = [v EXCEPT !.lost[hv[h].idx] = @ + 1]
        /\ hv' = [hv EXCEPT ![h] = hv[g]] /\ task' = task
    BY DEF copy_assign
  <1>2. /\ Plain(HvKey(h)) /\ Plain(HvKey(g))
        /\ HvKey(h) \in Keys /\ HvKey(h) # One /\ Current[HvKey(h)] = hv[h]
        /\ HvKey(g) \in Keys /\ HvKey(g) # One /\ Current[HvKey(g)] = hv[g] /\ hv[g] \in HandleSet
    BY HvAt
  <1>3. Safe(w, Current, Now) /\ Current[One] = NoFile
    BY InvFacts DEF FilesInv
  <1>4. /\ Current[HvKey(h)] # NoFile /\ Current[HvKey(g)] # NoFile
        /\ v = IncRef(w, Current[HvKey(g)])
        /\ w' = [v EXCEPT !.lost[Current[HvKey(h)].idx] = @ + 1]
    BY <1>1, <1>2
  <1> HIDE DEF v
  <1>5. Safe(w', With(Current, HvKey(h), Current[HvKey(g)]), Now)
    BY <1>2, <1>3, <1>4, AssignSafe
  <1>6. Safe(w', With(Current, HvKey(h), hv[g]), Now)
    BY <1>2, <1>5
  <1> QED BY <1>1, <1>2, <1>6, AfterHv

LEMMA StepMove ==
    ASSUME FilesInv, NEW h \in Handles, NEW g \in Handles, move_handle(h, g), nb' = nb
    PROVE  FilesInv'
  <1> DEFINE a == Current
             b == With(a, HvKey(h), hv[g])
             c == With(b, HvKey(g), NoFile)
  <1>1. /\ h # g /\ w' = Close(w, hv[h])
        /\ hv' = [hv EXCEPT ![h] = hv[g], ![g] = NoFile] /\ task' = task
    BY DEF move_handle, Quiet
  <1>2. /\ HvKey(h) \in Keys /\ Plain(HvKey(h)) /\ Plain(HvKey(g)) /\ a[HvKey(h)] = hv[h]
        /\ HvKey(g) \in Keys /\ a[HvKey(g)] = hv[g] /\ hv[g] \in HandleSet
    BY HvAt
  <1>3. /\ Safe(w, a, Now) /\ a \in Assignments /\ PlacesAre(a, hv, task, nb) /\ Typed(hv, task, nb)
        /\ NoFile \in HandleSet
    BY InvFacts, Constants DEF FilesInv
  <1>4. HvKey(h) # HvKey(g)
    BY <1>1, KeyKinds
  <1> HIDE DEF a
  <1>5. w' = Close(w, a[HvKey(h)])
    BY <1>1, <1>2
  <1>6. Safe(w', With(With(a, HvKey(h), a[HvKey(g)]), HvKey(g), NoFile), Now)
    BY <1>2, <1>3, <1>4, <1>5, HandOverSafe
  <1>7. Safe(w', c, Now)
    BY <1>2, <1>6
  <1>8. b \in Assignments /\ \A j \in Keys : b[j] = IF j = HvKey(h) THEN hv[g] ELSE a[j]
    BY <1>2, <1>3, WithType
  <1> HIDE DEF b
  <1>9. c \in Assignments /\ \A j \in Keys : c[j] = IF j = HvKey(g) THEN NoFile ELSE b[j]
    BY <1>2, <1>3, <1>8, WithType
  <1> HIDE DEF c
  <1>10. /\ hv' \in [Handles -> HandleSet]
         /\ \A x \in Handles : hv'[x] = IF x = g THEN NoFile ELSE IF x = h THEN hv[g] ELSE hv[x]
    BY <1>1, <1>2, <1>3 DEF Typed
  <1>11. Typed(hv', task', nb')
    BY <1>1, <1>3, <1>10 DEF Typed
  <1>12. PlacesAre(c, hv', task', nb')
    <2>1. \A x \in Handles : c[HvKey(x)] = hv'[x]
      BY <1>3, <1>8, <1>9, <1>10, KeyKinds DEF PlacesAre
    <2>2. c[SrcKey] = task.src /\ c[DstKey] = task.dst
      BY <1>3, <1>8, <1>9, KeyKinds DEF PlacesAre
    <2>3. \A d \in Bufs : c[FileKey(d)] = nb[d].file /\ c[MapKey(d)] = nb[d].map
      BY <1>3, <1>8, <1>9, KeyKinds DEF PlacesAre
    <2>4. \A k \in Temp : c[k] = NoFile
      <3>1. \A k \in Temp : k \in Keys /\ k # HvKey(h) /\ k # HvKey(g)
        BY KeyKinds DEF Keys
      <3> QED BY <1>3, <1>8, <1>9, <3>1 DEF PlacesAre
    <2> QED BY <1>1, <1>9, <2>1, <2>2, <2>3, <2>4 DEF PlacesAre
  <1>13. Safe(w', Places(hv', task', nb'), Now)
    BY <1>7, <1>11, <1>12, Settle
  <1>14. Now' = Now
    BY DEF Now
  <1> QED BY <1>1, <1>10, <1>13, <1>14 DEF FilesInv, Current

LEMMA ReadsType ==
    ASSUME NEW v \in World, NEW h, h.idx \in OpenSlots(v), NEW n \in Nat
    PROVE  Reads(v, h, n) \in Seq(Nat) /\ Len(Reads(v, h, n)) \in Nat
  <1> DEFINE s == v.data[InodeOf(v, h)]
             pos == v.desc[h.idx].pos
             m == IF pos >= Len(s) THEN 0 ELSE IF Len(s) - pos < n THEN Len(s) - pos ELSE n
  <1>1. v.desc[h.idx] \in SlotSet /\ v.desc[h.idx].inode \in Inodes
    BY OpenSlot
  <1>2. pos \in Nat /\ s \in Seq(Nat)
    BY <1>1 DEF SlotSet, World, InodeOf
  <1>3. Reads(v, h, n) = IF "read" \notin v.desc[h.idx].mode THEN <<>> ELSE SubSeq(s, pos + 1, pos + m)
    BY DEF Reads
  <1> HIDE DEF s, pos
  <1>4. m \in Nat /\ (m > 0 => pos + m <= Len(s))
    BY <1>2
  <1> HIDE DEF m
  <1>5. <<>> \in Seq(Nat) /\ Len(<<>>) = 0
    OBVIOUS
  <1>6. SubSeq(s, pos + 1, pos + m) \in Seq(Nat) /\ Len(SubSeq(s, pos + 1, pos + m)) \in Nat
    <2>1. CASE m = 0
      <3>1. SubSeq(s, pos + 1, pos + m) = <<>>
        BY <1>2, <2>1
      <3> QED BY <1>5, <3>1
    <2>2. CASE m > 0
      BY <1>2, <1>4, <2>2
    <2> QED BY <1>4, <2>1, <2>2
  <1> QED BY <1>3, <1>5, <1>6

\* read_file moves the position.
LEMMA ReadFields ==
    ASSUME NEW v \in World, NEW h, h.idx \in OpenSlots(v), NEW n \in Nat,
           NEW u, u = [v EXCEPT !.desc[h.idx].pos = @ + Len(Reads(v, h, n))]
    PROVE  Seeked(v, u)
  <1> DEFINE i == h.idx
             x == v.desc[i].pos + Len(Reads(v, h, n))
  <1>1. v.desc[i] \in SlotSet /\ i \in DOMAIN v.desc
    BY OpenSlot
  <1>2. Len(Reads(v, h, n)) \in Nat
    BY ReadsType
  <1>3. x \in Nat
    BY <1>1, <1>2 DEF SlotSet
  <1>4. u = [v EXCEPT !.desc[i].pos = x]
    BY <1>1 DEF World
  <1> HIDE DEF x
  <1> QED BY <1>3, <1>4, PosFields

LEMMA StepBytes ==
    ASSUME FilesInv, NEW h \in Handles, NEW n \in Lengths, nb' = nb,
           \/ read_file(h, n) \/ truncate_file(h, n)
           \/ \E opt \in {"current", "begin", "end"} : write_file(h, n, opt)
    PROVE  FilesInv'
  <1>1. n \in Nat /\ w \in World
    BY FileManagerAssumption, InvFacts
  <1>2. IsOpen(hv[h]) /\ hv' = hv /\ task' = task
    BY DEF read_file, truncate_file, write_file, Quiet
  <1>3. hv[h].idx \in OpenSlots(w)
    BY <1>2, HvAt DEF IsOpen
  <1>7. Safe(w, Current, Now)
    BY DEF FilesInv
  <1>4. CASE read_file(h, n)
    <2>1. w' = [w EXCEPT !.desc[hv[h].idx].pos = @ + Len(Reads(w, hv[h], n))]
      BY <1>4 DEF read_file
    <2>2. Seeked(w, w')
      BY <1>1, <1>3, <2>1, ReadFields
    <2>3. Safe(w', Current, Now)
      BY <1>7, <2>2, SeekSafe
    <2> QED BY <1>2, <2>3, AfterNone
  <1>5. CASE truncate_file(h, n)
    <2>1. PICK how : w' = Truncate(w, hv[h], n, how)
      BY <1>5 DEF truncate_file
    <2>2. Current[HvKey(h)] # NoFile /\ HvKey(h) \in Keys /\ Loose(Current, HvKey(h))
      BY <1>2, HvAt, PlainLoose, Constants DEF IsOpen
    <2>3. w' = Truncate(w, Current[HvKey(h)], n, how)
      BY <2>1, HvAt
    <2>4. Safe(w', Current, Now)
      BY <1>1, <1>7, <2>2, <2>3, TruncateSafe
    <2> QED BY <1>2, <2>4, AfterNone
  <1>6. ASSUME NEW opt \in {"current", "begin", "end"}, write_file(h, n, opt)
        PROVE  FilesInv'
    <2>1. PICK k \in 0 .. n : w' = Write(w, hv[h], 1, n, k, opt)
      BY <1>6 DEF write_file
    <2>2. k \in Nat /\ 1 \in Nat
      BY <1>1
    <2>3. /\ Edited(w, w', w.desc[hv[h].idx].inode)
          /\ \A g \in Inodes : Len(w'.data[g]) >= Len(w.data[g])
      BY <1>1, <1>3, <2>1, <2>2, WriteFields
    <2>4. Safe(w', Current, Now)
      BY <1>7, <2>3, EditSafe
    <2> QED BY <1>2, <2>4, AfterNone
  <1> QED BY <1>4, <1>5, <1>6

LEMMA StepNames ==
    ASSUME FilesInv, nb' = nb,
           \/ \E h \in Handles : lock_file(h)
           \/ \E p \in Paths : remove_file_or_dir(p)
           \/ \E f \in Inodes : other_process(f)
    PROVE  FilesInv'
  <1>1. w \in World /\ Safe(w, Current, Now)
    BY InvFacts DEF FilesInv
  <1>2. ASSUME NEW h \in Handles, lock_file(h) PROVE FilesInv'
    <2> DEFINE f == w.desc[hv[h].idx].inode
    <2>1. /\ IsOpen(hv[h]) /\ w' = [w EXCEPT !.lock[f] = "ours"] /\ w.lock[f] = "free"
          /\ hv' = hv /\ task' = task
      BY <1>2 DEF lock_file, Quiet, InodeOf
    <2>2. hv[h].idx \in OpenSlots(w)
      BY <2>1, HvAt DEF IsOpen
    <2>3. f \in Inodes
      BY <1>1, <2>2, OpenSlot
    <2> HIDE DEF f
    <2>4. "ours" \in {"free", "ours", "theirs"} /\ w.lock[f] # "ours"
      BY <2>1
    <2>5. Safe(w', Current, Now)
      BY <1>1, <2>1, <2>3, <2>4, LockSafe
    <2> QED BY <2>1, <2>5, AfterNone
  <1>3. ASSUME NEW p \in Paths, remove_file_or_dir(p) PROVE FilesInv'
    <2>1. w' = Unlink(w, p) /\ hv' = hv /\ task' = task
      BY <1>3 DEF remove_file_or_dir, Quiet
    <2>2. Safe(w', Current, Now)
      BY <1>1, <2>1, UnlinkSafe
    <2> QED BY <2>1, <2>2, AfterNone
  <1>4. ASSUME NEW f \in Inodes, other_process(f) PROVE FilesInv'
    <2> DEFINE x == IF w.lock[f] = "free" THEN "theirs" ELSE "free"
    <2>1. w' = [w EXCEPT !.lock[f] = x] /\ w.lock[f] # "ours" /\ hv' = hv /\ task' = task
      BY <1>4 DEF other_process, Quiet
    <2>2. x \in {"free", "ours", "theirs"}
      OBVIOUS
    <2> HIDE DEF x
    <2>3. Safe(w', Current, Now)
      BY <1>1, <2>1, <2>2, LockSafe
    <2> QED BY <2>1, <2>3, AfterNone
  <1> QED BY <1>2, <1>3, <1>4

\* The handles of the thread inside a call, by their places.
LEMMA TaskAt ==
    ASSUME FilesInv
    PROVE  /\ SrcKey \in Keys /\ DstKey \in Keys /\ SrcKey # DstKey
           /\ SrcKey # One /\ DstKey # One /\ Plain(SrcKey) /\ Plain(DstKey)
           /\ task.src = Current[SrcKey] /\ task.dst = Current[DstKey]
           /\ task.src # NoFile => task.src.idx \in OpenSlots(w)
           /\ task.dst # NoFile => task.dst.idx \in OpenSlots(w)
  <1>1. /\ SrcKey \in Keys /\ DstKey \in Keys /\ SrcKey # DstKey
        /\ SrcKey # One /\ DstKey # One /\ Plain(SrcKey) /\ Plain(DstKey)
    BY KeyKinds DEF Plain
  <1>2. task.src = Current[SrcKey] /\ task.dst = Current[DstKey]
    BY InvFacts DEF PlacesAre
  <1>3. Safe(w, Current, Now)
    BY DEF FilesInv
  <1>4. Current[SrcKey].idx = 0 <=> Current[SrcKey] = NoFile
    BY <1>1, <1>3, HeldOpen
  <1>5. Current[SrcKey].idx # 0 => Current[SrcKey].idx \in OpenSlots(w)
    BY <1>1, <1>3, HeldOpen
  <1>6. Current[DstKey].idx = 0 <=> Current[DstKey] = NoFile
    BY <1>1, <1>3, HeldOpen
  <1>7. Current[DstKey].idx # 0 => Current[DstKey].idx \in OpenSlots(w)
    BY <1>1, <1>3, HeldOpen
  <1> QED BY <1>1, <1>2, <1>4, <1>5, <1>6, <1>7

LEMMA IdleOK == TaskOK(Idle) /\ Idle.src = NoFile /\ Idle.dst = NoFile
  <1>1. NoFile \in HandleSet
    BY Constants
  <1>2. Idle.src = NoFile /\ Idle.dst = NoFile
    BY DEF Idle
  <1> HIDE DEF NoFile
  <1>3. Idle \in TaskSet
    BY <1>1 DEF Idle, TaskSet
  <1> QED BY <1>2, <1>3 DEF TaskOK, Idle

\* Steps that end with the thread as it was: get_file_size, read_all_text.
LEMMA StepVisit ==
    ASSUME FilesInv, NEW p \in Paths, get_file_size(p) \/ read_all_text(p), nb' = nb
    PROVE  FilesInv'
  <1>1. hv' = hv /\ task' = task
    BY DEF get_file_size, read_all_text, Quiet
  <1>2. Safe(w, Current, Now) /\ Current[One] = NoFile
    BY InvFacts DEF FilesInv
  <1>3. CASE get_file_size(p)
    <2>1. PICK works \in BOOLEAN : w' = SizeOf(w, p, works).v
      BY <1>3 DEF get_file_size
    <2>2. Safe(w', Current, Now)
      BY <1>2, <2>1, SizeSafe
    <2> QED BY <1>1, <2>2, AfterNone
  <1>4. CASE read_all_text(p)
    <2>1. PICK works \in BOOLEAN :
              CanOpen(w, p) /\ w' = Close(Open(w, p, {"read"}, works).v, Open(w, p, {"read"}, works).h)
      BY <1>4 DEF read_all_text
    <2> DEFINE m == {"read"}
               o == Open(w, p, m, works)
    <2>2. m \in SUBSET Flags
      BY DEF Flags
    <2>3. w' = Close(o.v, o.h)
      BY <2>1
    <2> HIDE DEF m
    <2>4. OpenOutcome(w, o, p, m)
      BY <2>1, <2>2, OpenNow
    <2> HIDE DEF o
    <2>5. Safe(w', Current, Now)
      BY <1>2, <2>3, <2>4, VisitSafe
    <2> QED BY <1>1, <2>5, AfterNone
  <1> QED BY <1>3, <1>4

\* The text calls open their file; one whose number is 0 is given up.
LEMMA StepTextBegin ==
    ASSUME FilesInv, NEW p \in Paths, NEW op \in {"append", "write"}, text_begin(op, p), nb' = nb
    PROVE  FilesInv'
  <1> DEFINE m == {"read", "write", "auto_create"}
  <1>1. PICK works \in BOOLEAN :
            LET o == Open(w, p, m, works) IN
            /\ CanOpen(w, p) /\ task = Idle /\ hv' = hv
            /\ w'    = Close(o.v, IF IsOpen(o.h) THEN NoFile ELSE o.h)
            /\ task' = IF ~IsOpen(o.h) THEN Idle
                       ELSE [Idle EXCEPT !.op = op, !.at = IF op = "write" THEN "truncate" ELSE "text", !.dst = o.h]
    BY DEF text_begin
  <1> DEFINE o == Open(w, p, m, works)
             a == Current
             c == With(a, DstKey, o.h)
  <1>2. m \in SUBSET Flags
    BY DEF Flags
  <1>3. /\ CanOpen(w, p) /\ task = Idle /\ hv' = hv
        /\ w'    = Close(o.v, IF IsOpen(o.h) THEN NoFile ELSE o.h)
        /\ task' = IF ~IsOpen(o.h) THEN Idle
                   ELSE [Idle EXCEPT !.op = op, !.at = IF op = "write" THEN "truncate" ELSE "text", !.dst = o.h]
    BY <1>1
  <1> HIDE DEF m
  <1>4. OpenOutcome(w, o, p, m)
    BY <1>2, <1>3, OpenNow
  <1>5. /\ SrcKey \in Keys /\ DstKey \in Keys /\ SrcKey # DstKey
        /\ a[SrcKey] = NoFile /\ a[DstKey] = NoFile
        /\ \A b \in Bufs : SrcKey # MapKey(b) /\ DstKey # MapKey(b)
    BY <1>3, TaskAt, IdleOK DEF Plain
  <1>6. Safe(w, a, Now) /\ a[One] = NoFile /\ a \in Assignments
    BY InvFacts DEF FilesInv
  <1> HIDE DEF o
  <1>7. o.h \in HandleSet
    BY <1>4, OutcomeHandle
  <1>8. CASE IsOpen(o.h)
    <2>1. o.h # NoFile
      BY <1>8, Constants DEF IsOpen
    <2>2. w' = Close(o.v, NoFile)
      BY <1>3, <1>8
    <2>3. w' = o.v
      BY <2>2, Constants DEF Close, IsValid, IsOpen
    <2> HIDE DEF a
    <2>4. Safe(w', c, Now)
      BY <1>4, <1>5, <1>6, <2>3, OpenSafe
    <2>5. c \in Assignments /\ \A j \in Keys : c[j] = IF j = DstKey THEN o.h ELSE a[j]
      BY <1>5, <1>6, <1>7, WithType
    <2> HIDE DEF c
    <2>6. task' = [Idle EXCEPT !.op = op, !.at = IF op = "write" THEN "truncate" ELSE "text", !.dst = o.h]
      BY <1>3, <1>8
    <2>7. TaskOK(task') /\ task'.src = NoFile /\ task'.dst = o.h
      <3>1. NoFile \in HandleSet
        BY Constants
      <3> HIDE DEF NoFile
      <3>2. task' \in TaskSet
        BY <1>7, <2>6, <3>1 DEF TaskSet, Idle
      <3>3. /\ task'.src = NoFile /\ task'.dst = o.h /\ task'.op = op
            /\ task'.at = IF op = "write" THEN "truncate" ELSE "text"
        BY <2>6 DEF Idle
      <3> QED BY <2>1, <3>2, <3>3 DEF TaskOK
    <2>8. \A j \in Keys : j # SrcKey /\ j # DstKey => c[j] = a[j]
      BY <2>5
    <2>9. c[SrcKey] = task'.src /\ c[DstKey] = task'.dst
      BY <1>5, <2>5, <2>7
    <2>10. \A j \in Keys : j # SrcKey /\ j # DstKey => c[j] = Current[j]
      BY <2>8 DEF a
    <2> QED BY <1>3, <2>4, <2>5, <2>7, <2>9, <2>10, AfterTask
  <1>9. CASE ~IsOpen(o.h)
    <2>1. w' = Close(o.v, o.h) /\ task' = task
      BY <1>3, <1>9
    <2>2. Safe(w', a, Now)
      BY <1>4, <1>6, <2>1, VisitSafe
    <2> QED BY <1>3, <2>1, <2>2, AfterNone
  <1> QED BY <1>8, <1>9

LEMMA StepTextTruncate ==
    ASSUME FilesInv, text_truncate \/ copy_truncate, nb' = nb
    PROVE  FilesInv'
  <1>1. PICK how :
            /\ task.at = "truncate" /\ hv' = hv /\ w' = Truncate(w, task.dst, 0, how)
            /\ task' = [task EXCEPT !.at = "text"] \/ task' = [task EXCEPT !.at = "chunk"]
            /\ task' = [task EXCEPT !.at = "text"] => task.op = "write"
            /\ task' = [task EXCEPT !.at = "chunk"] => task.op = "copy"
    <2>1. CASE text_truncate
      <3>1. PICK how : /\ task.op = "write" /\ task.at = "truncate" /\ hv' = hv
                       /\ w' = Truncate(w, task.dst, 0, how) /\ task' = [task EXCEPT !.at = "text"]
        BY <2>1 DEF text_truncate
      <3>2. task' # [task EXCEPT !.at = "chunk"]
        BY <3>1 DEF FilesInv, TaskOK, TaskSet
      <3> QED BY <3>1, <3>2
    <2>2. CASE copy_truncate
      <3>1. PICK how : /\ task.op = "copy" /\ task.at = "truncate" /\ hv' = hv
                       /\ w' = Truncate(w, task.dst, 0, how) /\ task' = [task EXCEPT !.at = "chunk"]
        BY <2>2 DEF copy_truncate
      <3>2. task' # [task EXCEPT !.at = "text"]
        BY <3>1 DEF FilesInv, TaskOK, TaskSet
      <3> QED BY <3>1, <3>2
    <2> QED BY <2>1, <2>2
  <1>2. TaskOK(task) /\ task.dst # NoFile
    BY <1>1 DEF FilesInv, TaskOK
  <1>3. /\ w' = Truncate(w, Current[DstKey], 0, how) /\ Current[DstKey] # NoFile
        /\ DstKey \in Keys /\ Loose(Current, DstKey) /\ 0 \in Nat
    BY <1>1, <1>2, TaskAt, PlainLoose
  <1>5. Safe(w, Current, Now) /\ Current \in Assignments
    BY InvFacts DEF FilesInv
  <1>6. Safe(w', Current, Now)
    BY <1>3, <1>5, TruncateSafe
  <1>7. TaskOK(task') /\ task'.src = task.src /\ task'.dst = task.dst
    <2> HIDE DEF NoFile
    <2>1. CASE task' = [task EXCEPT !.at = "text"]
      BY <1>1, <1>2, <2>1 DEF TaskOK, TaskSet
    <2>2. CASE task' = [task EXCEPT !.at = "chunk"]
      BY <1>1, <1>2, <2>2 DEF TaskOK, TaskSet
    <2> QED BY <1>1, <2>1, <2>2
  <1>8. Current[SrcKey] = task'.src /\ Current[DstKey] = task'.dst
    BY <1>7, TaskAt
  <1> QED BY <1>1, <1>5, <1>6, <1>7, <1>8, AfterTask

LEMMA StepTextWrite ==
    ASSUME FilesInv, text_write, nb' = nb
    PROVE  FilesInv'
  <1> DEFINE a == Current
             c == With(a, DstKey, NoFile)
  <1>1. PICK k \in 0 .. 1 :
            /\ task.at = "text" /\ hv' = hv /\ task' = Idle
            /\ w' = Close(Write(w, task.dst, 2, 1, k, "current"), task.dst)
    BY DEF text_write
  <1>2. TaskOK(task) /\ task.dst # NoFile /\ task.src = NoFile
    BY <1>1 DEF FilesInv, TaskOK
  <1> DEFINE v == Write(w, task.dst, 2, 1, k, "current")
  <1>3. task.dst.idx \in OpenSlots(w) /\ w \in World /\ k \in Nat /\ 2 \in Nat
    BY <1>2, TaskAt, InvFacts
  <1>4. /\ Edited(w, v, w.desc[task.dst.idx].inode)
        /\ \A g \in Inodes : Len(v.data[g]) >= Len(w.data[g])
    BY <1>3, WriteFields
  <1>5. Safe(w, a, Now) /\ a \in Assignments
    BY InvFacts DEF FilesInv
  <1>6. w' = Close(v, a[DstKey]) /\ DstKey \in Keys /\ SrcKey \in Keys /\ SrcKey # DstKey /\ a[SrcKey] = NoFile
    BY <1>1, <1>2, TaskAt
  <1> HIDE DEF v
  <1>7. Safe(v, a, Now)
    BY <1>4, <1>5, EditSafe
  <1>8. Safe(w', c, Now)
    BY <1>6, <1>7, CloseSafe
  <1>9. c \in Assignments /\ \A j \in Keys : c[j] = IF j = DstKey THEN NoFile ELSE a[j]
    BY <1>5, <1>6, Constants, WithType
  <1> HIDE DEF c
  <1>10. TaskOK(task') /\ c[SrcKey] = task'.src /\ c[DstKey] = task'.dst
    BY <1>1, <1>6, <1>9, IdleOK
  <1>11. \A j \in Keys : j # SrcKey /\ j # DstKey => c[j] = Current[j]
    BY <1>9
  <1> QED BY <1>1, <1>8, <1>9, <1>10, <1>11, AfterTask

LEMMA StepCopyBegin ==
    ASSUME FilesInv, NEW p \in Paths, NEW q \in Paths, copy_begin(p, q), nb' = nb
    PROVE  FilesInv'
  <1> DEFINE m == {"read"}
  <1>1. PICK works \in BOOLEAN, sized \in BOOLEAN :
            LET sz == SizeOf(w, p, sized) o == Open(sz.v, p, m, works) IN
            /\ task = Idle /\ hv' = hv
            /\ w'    = IF IsOpen(o.h) THEN [o.v EXCEPT !.desc[o.h.idx].pos = 0] ELSE Close(o.v, o.h)
            /\ task' = IF ~IsOpen(o.h) THEN Idle
                       ELSE [Idle EXCEPT !.op = "copy", !.at = "open", !.src = o.h, !.path = q, !.size = sz.size]
    BY ZenonT(30) DEF copy_begin
  <1> DEFINE sz == SizeOf(w, p, sized)
             s == sz.v
             n == sz.size
             o == Open(s, p, m, works)
             a == Current
             c == With(a, SrcKey, o.h)
  <1>2. m \in SUBSET Flags /\ "auto_create" \notin m
    BY DEF Flags
  <1>3. /\ task = Idle /\ hv' = hv
        /\ w'    = IF IsOpen(o.h) THEN [o.v EXCEPT !.desc[o.h.idx].pos = 0] ELSE Close(o.v, o.h)
        /\ task' = IF ~IsOpen(o.h) THEN Idle
                   ELSE [Idle EXCEPT !.op = "copy", !.at = "open", !.src = o.h, !.path = q, !.size = n]
    BY <1>1
  <1>4. Safe(w, a, Now) /\ a[One] = NoFile /\ a \in Assignments
    BY InvFacts DEF FilesInv
  <1>5. Safe(s, a, Now) /\ n \in Nat
    BY <1>4, SizeSafe
  <1> HIDE DEF m, s, n
  <1>6. Sound(s)
    BY <1>5, SafeExact
  <1>7. OpenOutcome(s, o, p, m)
    BY <1>2, <1>6, OpenFields
  <1>8. /\ SrcKey \in Keys /\ DstKey \in Keys /\ SrcKey # DstKey
        /\ a[SrcKey] = NoFile /\ a[DstKey] = NoFile
        /\ \A b \in Bufs : SrcKey # MapKey(b) /\ DstKey # MapKey(b)
    BY <1>3, TaskAt, IdleOK DEF Plain
  <1> HIDE DEF o
  <1>9. o.h \in HandleSet
    BY <1>7, OutcomeHandle
  <1>10. CASE IsOpen(o.h)
    <2>1. o.h.idx # 0
      BY <1>10 DEF IsOpen
    <2>2. w' = [o.v EXCEPT !.desc[o.h.idx].pos = 0]
      BY <1>3, <1>10
    <2> HIDE DEF a
    <2>3. Safe(o.v, c, Now)
      BY <1>5, <1>7, <1>8, OpenSafe
    <2>4. c \in Assignments /\ \A j \in Keys : c[j] = IF j = SrcKey THEN o.h ELSE a[j]
      BY <1>4, <1>8, <1>9, WithType
    <2> HIDE DEF c
    <2>5. c[SrcKey] = o.h /\ c[DstKey] = NoFile
      BY <1>8, <2>4
    <2>6. o.h # NoFile /\ o.h.idx \in OpenSlots(o.v)
      BY <1>8, <2>1, <2>3, <2>5, HeldOpen
    <2>7. o.v \in World /\ 0 \in Nat
      BY <2>3, SafeExact
    <2>8. Seeked(o.v, w')
      BY <2>2, <2>6, <2>7, PosFields
    <2>9. Safe(w', c, Now)
      BY <2>3, <2>8, SeekSafe
    <2>10. task' = [Idle EXCEPT !.op = "copy", !.at = "open", !.src = o.h, !.path = q, !.size = n]
      BY <1>3, <1>10
    <2>11. TaskOK(task') /\ task'.src = o.h /\ task'.dst = NoFile
      <3>1. NoFile \in HandleSet
        BY Constants
      <3> HIDE DEF NoFile
      <3>2. task' \in TaskSet
        BY <1>5, <1>9, <2>10, <3>1 DEF TaskSet, Idle
      <3>3. /\ task'.src = o.h /\ task'.dst = NoFile /\ task'.op = "copy" /\ task'.at = "open"
            /\ task'.path = q
        BY <2>10 DEF Idle
      <3> QED BY <2>6, <3>2, <3>3 DEF TaskOK
    <2>12. c[SrcKey] = task'.src /\ c[DstKey] = task'.dst
      BY <2>5, <2>11
    <2>13. \A j \in Keys : j # SrcKey /\ j # DstKey => c[j] = Current[j]
      BY <2>4 DEF a
    <2> QED BY <1>3, <2>4, <2>9, <2>11, <2>12, <2>13, AfterTask
  <1>11. CASE ~IsOpen(o.h)
    <2>1. w' = Close(o.v, o.h) /\ task' = task
      BY <1>3, <1>11
    <2>2. Safe(w', a, Now)
      BY <1>4, <1>5, <1>7, <2>1, VisitSafe
    <2> QED BY <1>3, <2>1, <2>2, AfterNone
  <1> QED BY <1>10, <1>11

LEMMA StepCopyOpen ==
    ASSUME FilesInv, copy_open, nb' = nb
    PROVE  FilesInv'
  <1> DEFINE m == {"write", "auto_create"}
             p == task.path
             a == Current
  <1>1. PICK works \in BOOLEAN :
            LET o == Open(w, p, m, works) IN
            /\ task.at = "open" /\ CanOpen(w, p) /\ hv' = hv
            /\ w'    = IF IsOpen(o.h) THEN o.v ELSE Close(Close(o.v, o.h), task.src)
            /\ task' = IF IsOpen(o.h) THEN [task EXCEPT !.at = "truncate", !.dst = o.h] ELSE Idle
    BY DEF copy_open
  <1> DEFINE o == Open(w, p, m, works)
  <1>2. m \in SUBSET Flags
    BY DEF Flags
  <1>3. /\ task.at = "open" /\ CanOpen(w, p) /\ hv' = hv
        /\ w'    = IF IsOpen(o.h) THEN o.v ELSE Close(Close(o.v, o.h), task.src)
        /\ task' = IF IsOpen(o.h) THEN [task EXCEPT !.at = "truncate", !.dst = o.h] ELSE Idle
    BY <1>1
  <1>4. Safe(w, a, Now) /\ a[One] = NoFile /\ a \in Assignments
    BY InvFacts DEF FilesInv
  <1>5. TaskOK(task) /\ p \in Paths /\ task.src # NoFile /\ task.dst = NoFile
    BY <1>3 DEF FilesInv, TaskOK
  <1> HIDE DEF m, p
  <1>6. OpenOutcome(w, o, p, m)
    BY <1>2, <1>3, <1>5, OpenNow
  <1>7. /\ SrcKey \in Keys /\ DstKey \in Keys /\ SrcKey # DstKey
        /\ a[SrcKey] = task.src /\ a[DstKey] = NoFile
        /\ \A b \in Bufs : DstKey # MapKey(b)
    BY <1>5, TaskAt DEF Plain
  <1> HIDE DEF o
  <1>8. o.h \in HandleSet /\ NoFile \in HandleSet
    BY <1>6, OutcomeHandle, Constants
  <1>9. CASE IsOpen(o.h)
    <2> DEFINE c == With(a, DstKey, o.h)
    <2>1. o.h # NoFile
      BY <1>9, Constants DEF IsOpen
    <2>2. w' = o.v /\ task' = [task EXCEPT !.at = "truncate", !.dst = o.h]
      BY <1>3, <1>9
    <2> HIDE DEF a
    <2>3. Safe(w', c, Now)
      BY <1>4, <1>6, <1>7, <2>2, OpenSafe
    <2>4. c \in Assignments /\ \A j \in Keys : c[j] = IF j = DstKey THEN o.h ELSE a[j]
      BY <1>4, <1>7, <1>8, WithType, SMTT(30)
    <2> HIDE DEF c
    <2>5. TaskOK(task') /\ task'.src = task.src /\ task'.dst = o.h
      <3> HIDE DEF NoFile
      <3>1. task' \in TaskSet
        BY <1>5, <1>8, <2>2 DEF TaskSet, TaskOK
      <3>2. /\ task'.src = task.src /\ task'.dst = o.h /\ task'.op = task.op /\ task'.at = "truncate"
        BY <1>5, <2>2 DEF TaskOK, TaskSet
      <3> QED BY <1>5, <2>1, <3>1, <3>2 DEF TaskOK
    <2>6. c[SrcKey] = task'.src /\ c[DstKey] = task'.dst
      BY <1>7, <2>4, <2>5
    <2>7. \A j \in Keys : j # SrcKey /\ j # DstKey => c[j] = Current[j]
      BY <2>4 DEF a
    <2> QED BY <1>3, <2>3, <2>4, <2>5, <2>6, <2>7, AfterTask
  <1>10. CASE ~IsOpen(o.h)
    <2> DEFINE c == With(a, SrcKey, NoFile)
               v == Close(o.v, o.h)
    <2>1. w' = Close(v, a[SrcKey]) /\ task' = Idle
      BY <1>3, <1>7, <1>10
    <2> HIDE DEF a
    <2>2. Safe(v, a, Now)
      BY <1>4, <1>6, VisitSafe
    <2> HIDE DEF v
    <2>3. Safe(w', c, Now)
      BY <1>7, <2>1, <2>2, CloseSafe
    <2>4. c \in Assignments /\ \A j \in Keys : c[j] = IF j = SrcKey THEN NoFile ELSE a[j]
      BY <1>4, <1>7, <1>8, WithType
    <2> HIDE DEF c
    <2>5. TaskOK(task') /\ c[SrcKey] = task'.src /\ c[DstKey] = task'.dst
      BY <1>7, <2>1, <2>4, IdleOK
    <2>6. \A j \in Keys : j # SrcKey /\ j # DstKey => c[j] = Current[j]
      BY <2>4 DEF a
    <2> QED BY <1>3, <2>3, <2>4, <2>5, <2>6, AfterTask
  <1> QED BY <1>9, <1>10

LEMMA StepCopyChunk ==
    ASSUME FilesInv, copy_chunk, nb' = nb
    PROVE  FilesInv'
  <1> DEFINE got == Reads(w, task.src, ChunkSize)
             rd  == [w EXCEPT !.desc[task.src.idx].pos = @ + Len(got)]
             f   == InodeOf(w, task.dst)
             out == [rd EXCEPT !.data[f] = Put(@, w.desc[task.dst.idx].pos, got),
                               !.desc[task.dst.idx].pos = @ + Len(got)]
  <1>1. /\ task.at = "chunk" /\ task.done < task.size /\ hv' = hv
        /\ w' = rd \/ w' = out
        /\ task' = task \/ task' = [task EXCEPT !.done = @ + ChunkSize]
    BY DEF copy_chunk
  <1>2. TaskOK(task) /\ task.src # NoFile /\ task.dst # NoFile /\ task.size \in Nat /\ task.done \in Nat
    BY <1>1 DEF FilesInv, TaskOK, TaskSet
  <1>3. ChunkSize \in Nat
    BY <1>1, <1>2, FileManagerAssumption DEF ChunkSize
  <1>4. /\ w \in World /\ task.src.idx \in OpenSlots(w) /\ task.dst.idx \in OpenSlots(w)
        /\ Safe(w, Current, Now) /\ Current \in Assignments
    BY <1>2, TaskAt, InvFacts DEF FilesInv
  <1>5. got \in Seq(Nat) /\ Len(got) \in Nat
    BY <1>3, <1>4, ReadsType
  <1>6. Seeked(w, rd)
    BY <1>3, <1>4, ReadFields
  <1> HIDE DEF got, rd
  <1>7. Safe(rd, Current, Now) /\ rd \in World
    <2>1. Safe(rd, Current, Now)
      BY <1>4, <1>6, SeekSafe
    <2> QED BY <2>1, SafeExact
  <1>8. Safe(out, Current, Now)
    <2> DEFINE i == task.dst.idx
               s == Put(rd.data[f], w.desc[i].pos, got)
               x == rd.desc[i].pos + Len(got)
    <2>1. i \in OpenSlots(rd)
      BY <1>4, <1>6, <1>7 DEF Seeked, SameDesc, OpenSlots, World
    <2>2. f \in Inodes /\ w.desc[i].pos \in Nat
      BY <1>4, OpenSlot DEF InodeOf, SlotSet
    <2>3. rd.desc[i].pos \in Nat
      BY <1>7, <2>1, OpenSlot DEF SlotSet
    <2>4. x \in Nat
      BY <1>5, <2>3
    <2> HIDE DEF f
    <2>5. rd.data[f] \in Seq(Nat)
      BY <1>7, <2>2 DEF World
    <2>6. s \in Seq(Nat) /\ Len(s) >= Len(rd.data[f])
      BY <1>5, <2>2, <2>5, PutType
    <2>7. i \in DOMAIN rd.desc
      BY <1>7, <2>1, OpenSlot
    <2>8. out = [rd EXCEPT !.data[f] = s, !.desc[i].pos = x]
      BY <1>7, <2>2, <2>7 DEF World
    <2> HIDE DEF s, x, i, out
    <2>9. Rewritten(rd, out, f, s)
      BY <1>7, <2>1, <2>2, <2>4, <2>6, <2>8, EditFields
    <2>10. \A g \in Inodes : Len(rd.data[g]) \in Nat
      <3>1. \A g \in Inodes : rd.data[g] \in Seq(Nat)
        BY <1>7 DEF World
      <3> QED BY <3>1
    <2>11. \A g \in Inodes : Len(out.data[g]) >= Len(rd.data[g])
      BY <2>6, <2>9, <2>10 DEF Rewritten, Edited
    <2>12. Edited(rd, out, f)
      BY <2>9 DEF Rewritten
    <2> QED BY <1>7, <2>11, <2>12, EditSafe
  <1> HIDE DEF out
  <1>9. Safe(w', Current, Now)
    BY <1>1, <1>7, <1>8
  <1>10. TaskOK(task') /\ task'.src = task.src /\ task'.dst = task.dst
    <2> HIDE DEF NoFile
    <2>1. CASE task' = task
      BY <1>2, <2>1
    <2>2. CASE task' = [task EXCEPT !.done = @ + ChunkSize]
      <3>1. task.done + ChunkSize \in Nat
        BY <1>2, <1>3
      <3> HIDE DEF ChunkSize
      <3>2. task' \in TaskSet
        BY <1>2, <2>2, <3>1 DEF TaskOK, TaskSet
      <3>3. /\ task'.op = task.op /\ task'.at = task.at /\ task'.src = task.src
            /\ task'.dst = task.dst /\ task'.path = task.path
        BY <1>2, <2>2 DEF TaskOK, TaskSet
      <3> QED BY <1>2, <3>2, <3>3 DEF TaskOK
    <2> QED BY <1>1, <2>1, <2>2
  <1>11. Current[SrcKey] = task'.src /\ Current[DstKey] = task'.dst
    BY <1>10, TaskAt
  <1> QED BY <1>1, <1>4, <1>9, <1>10, <1>11, AfterTask

LEMMA StepCopyEnd ==
    ASSUME FilesInv, copy_end, nb' = nb
    PROVE  FilesInv'
  <1> DEFINE a == Current
             b == With(a, SrcKey, NoFile)
             c == With(b, DstKey, NoFile)
             v == Close(w, task.src)
  <1>1. hv' = hv /\ task' = Idle /\ w' = Close(v, task.dst)
    BY DEF copy_end
  <1>2. /\ Safe(w, a, Now) /\ a \in Assignments /\ NoFile \in HandleSet
        /\ SrcKey \in Keys /\ DstKey \in Keys /\ SrcKey # DstKey
        /\ a[SrcKey] = task.src /\ a[DstKey] = task.dst
    BY TaskAt, InvFacts, Constants DEF FilesInv
  <1>3. v = Close(w, a[SrcKey])
    BY <1>2
  <1> HIDE DEF a, v
  <1>4. Safe(v, b, Now)
    BY <1>2, <1>3, CloseSafe
  <1>5. b \in Assignments /\ \A j \in Keys : b[j] = IF j = SrcKey THEN NoFile ELSE a[j]
    BY <1>2, WithType
  <1> HIDE DEF b
  <1>6. w' = Close(v, b[DstKey])
    BY <1>1, <1>2, <1>5
  <1>7. Safe(w', c, Now)
    BY <1>2, <1>4, <1>6, CloseSafe
  <1>8. c \in Assignments /\ \A j \in Keys : c[j] = IF j = DstKey THEN NoFile ELSE b[j]
    BY <1>2, <1>5, WithType
  <1> HIDE DEF c
  <1>9. TaskOK(task') /\ c[SrcKey] = task'.src /\ c[DstKey] = task'.dst
    BY <1>1, <1>2, <1>5, <1>8, IdleOK
  <1>10. \A j \in Keys : j # SrcKey /\ j # DstKey => c[j] = Current[j]
    BY <1>5, <1>8 DEF a
  <1> QED BY <1>1, <1>7, <1>8, <1>9, <1>10, AfterTask

\* The handles of a buffer, by their places.
LEMMA BufAt ==
    ASSUME FilesInv, NEW b \in Bufs
    PROVE  /\ FileKey(b) \in Keys /\ MapKey(b) \in Keys /\ FileKey(b) # MapKey(b)
           /\ nb[b].file = Current[FileKey(b)] /\ nb[b].map = Current[MapKey(b)]
           /\ BufOK(nb[b]) /\ nb[b].file \in HandleSet /\ nb[b].map \in HandleSet
           /\ nb[b].file # NoFile => nb[b].file.idx \in OpenSlots(w)
  <1>1. FileKey(b) \in Keys /\ MapKey(b) \in Keys /\ FileKey(b) # MapKey(b)
    BY BufKeys
  <1>2. nb[b].file = Current[FileKey(b)] /\ nb[b].map = Current[MapKey(b)]
    BY InvFacts DEF PlacesAre
  <1>3. BufOK(nb[b])
    BY DEF FilesInv
  <1>4. nb[b].file \in HandleSet /\ nb[b].map \in HandleSet
    BY <1>3 DEF BufOK, BufSet
  <1>5. Safe(w, Current, Now)
    BY DEF FilesInv
  <1>6. Current[FileKey(b)].idx = 0 <=> Current[FileKey(b)] = NoFile
    BY <1>1, <1>5, HeldOpen
  <1>7. Current[FileKey(b)].idx # 0 => Current[FileKey(b)].idx \in OpenSlots(w)
    BY <1>1, <1>5, HeldOpen
  <1> QED BY <1>1, <1>2, <1>3, <1>4, <1>6, <1>7

\* A buffer on the heap.
LEMMA HeapOK ==
    ASSUME NEW n \in Nat, NEW s \in Seq(Nat)
    PROVE  BufOK(Heap(n, s)) /\ Heap(n, s).file = NoFile /\ Heap(n, s).map = NoFile
  <1>1. NoFile \in HandleSet
    BY Constants
  <1> HIDE DEF NoFile
  <1> DEFINE m == Heap(n, s)
  <1>2. /\ m.st = "heap" /\ m.file = NoFile /\ m.map = NoFile /\ m.path = "" /\ m.mem = s /\ m.size = n
        /\ m \in BufSet
    BY <1>1 DEF Heap, NoBuf, BufSet
  <1> HIDE DEF m
  <1>3. BufOK(m)
    BY <1>2 DEF BufOK
  <1> QED BY <1>2, <1>3 DEF m

LEMMA NoBufOK == BufOK(NoBuf) /\ NoBuf.file = NoFile /\ NoBuf.map = NoFile
  <1>1. NoFile \in HandleSet
    BY Constants
  <1>2. <<>> \in Seq(Nat)
    OBVIOUS
  <1> HIDE DEF NoFile
  <1>3. NoBuf \in BufSet /\ NoBuf.file = NoFile /\ NoBuf.map = NoFile /\ NoBuf.st = "none"
    BY <1>1, <1>2 DEF NoBuf, BufSet
  <1> QED BY <1>3 DEF BufOK

LEMMA FilledHandle ==
    ASSUME NEW a \in Assignments, NEW b \in Bufs, NEW x, NEW y, Filled(a, b, x, y) \in Assignments
    PROVE  y \in HandleSet
  <1> DEFINE c == With(a, FileKey(b), x)
             d == With(c, MapKey(b), y)
  <1>1. MapKey(b) \in Keys
    BY BufKeys
  <1>2. DOMAIN c = Keys
    BY DEF With, Assignments
  <1> HIDE DEF c
  <1>3. d[MapKey(b)] = y
    BY <1>1, <1>2 DEF With
  <1>4. d \in Assignments
    BY DEF Filled, c
  <1> HIDE DEF d
  <1> QED BY <1>1, <1>3, <1>4 DEF Assignments

\* A buffer that is not mapped may have any size.
LEMMA Resized ==
    ASSUME NEW v, NEW a \in Assignments, NEW b \in Bufs, NEW x, NEW n \in Nat,
           Safe(v, Filled(a, b, NoFile, NoFile), [Now EXCEPT ![b] = x])
    PROVE  Safe(v, Filled(a, b, NoFile, NoFile), [Now EXCEPT ![b] = n])
  <1> DEFINE c == Filled(a, b, NoFile, NoFile)
             z == [Now EXCEPT ![b] = x]
  <1>1. NoFile \in HandleSet /\ MapKey(b) \in Keys
    BY Constants, BufKeys
  <1>2. c[MapKey(b)] = NoFile
    BY <1>1, FilledType
  <1>3. [z EXCEPT ![b] = n] = [Now EXCEPT ![b] = n]
    BY DEF Now
  <1> HIDE DEF c, z
  <1>4. Safe(v, c, z)
    BY DEF c, z
  <1>5. Safe(v, c, [z EXCEPT ![b] = n])
    BY <1>2, <1>4, SizeFree
  <1> QED BY <1>3, <1>5 DEF c

LEMMA StepConstruct ==
    ASSUME FilesInv, NEW b \in Bufs, NEW p \in Paths, NEW n \in Sizes, construct(b, p, n)
    PROVE  FilesInv'
  <1> DEFINE a == Current
  <1>1. PICK auto \in BOOLEAN, fail \in {"nothing", "open", "truncate", "map", "align"} :
            LET r == create_memory_map(w, n, p, auto, fail) IN
            /\ nb[b].st = "none" /\ (auto => CanOpen(w, p)) /\ w' = r.v
            /\ nb' = [nb EXCEPT ![b] =
                         IF r.map = NoFile THEN Heap(n, [i \in 1 .. n |-> Unset])
                         ELSE [NoBuf EXCEPT !.st = "mapped", !.file = r.file, !.map = r.map,
                                            !.path = p, !.size = PageUp(n)]]
            /\ hv' = hv /\ task' = task
    BY ZenonT(30) DEF construct, Quiet
  <1> DEFINE r == create_memory_map(w, n, p, auto, fail)
             m == IF r.map = NoFile THEN Heap(n, [i \in 1 .. n |-> Unset])
                  ELSE [NoBuf EXCEPT !.st = "mapped", !.file = r.file, !.map = r.map,
                                     !.path = p, !.size = PageUp(n)]
  <1>2. /\ nb[b].st = "none" /\ (auto => CanOpen(w, p)) /\ w' = r.v
        /\ nb' = [nb EXCEPT ![b] = m] /\ hv' = hv /\ task' = task
    BY <1>1
  <1>3. n \in Nat /\ PageUp(n) \in Nat
    BY NormalBufferAssumption, PageUpType
  <1>4. a[FileKey(b)] = NoFile /\ a[MapKey(b)] = NoFile
    BY <1>2, BufAt DEF BufOK
  <1>5. Safe(w, a, Now) /\ a \in Assignments
    BY InvFacts DEF FilesInv
  <1> DEFINE z == [Now EXCEPT ![b] = PageUp(n)]
  <1>6. Safe(r.v, Filled(a, b, r.file, r.map), z) /\ r.file = r.map
    <2> HIDE DEF a
    <2>1. Safe(w, a, z)
      BY <1>3, <1>4, <1>5, SizeFree
    <2>2. z[b] = PageUp(n)
      BY DEF Now
    <2> HIDE DEF z
    <2> QED BY <1>2, <1>3, <1>4, <2>1, <2>2, CreateSafe
  <1> HIDE DEF r
  <1>7. r.map \in HandleSet /\ r.file \in HandleSet
    <2> HIDE DEF a
    <2>1. Filled(a, b, r.file, r.map) \in Assignments
      BY <1>6, SafeExact
    <2> QED BY <1>5, <1>6, <2>1, FilledHandle
  <1>8. /\ BufOK(m) /\ m.file = r.file /\ m.map = r.map
        /\ r.map # NoFile => m.size = PageUp(n)
    <2>1. CASE r.map = NoFile
      <3>1. [i \in 1 .. n |-> Unset] \in Seq(Nat)
        BY <1>3 DEF Unset
      <3>2. m = Heap(n, [i \in 1 .. n |-> Unset])
        BY <2>1
      <3> QED BY <1>3, <1>6, <2>1, <3>1, <3>2, HeapOK
    <2>2. CASE r.map # NoFile
      <3>1. m = [NoBuf EXCEPT !.st = "mapped", !.file = r.file, !.map = r.map,
                              !.path = p, !.size = PageUp(n)]
        BY <2>2
      <3>2. <<>> \in Seq(Nat)
        OBVIOUS
      <3> HIDE DEF m, NoFile
      <3>3. /\ m.st = "mapped" /\ m.file = r.file /\ m.map = r.map /\ m.path = p
            /\ m \in BufSet /\ m.size = PageUp(n)
        BY <1>3, <1>7, <3>1, <3>2 DEF NoBuf, BufSet
      <3> QED BY <1>6, <2>2, <3>3 DEF BufOK
    <2> QED BY <2>1, <2>2
  <1> HIDE DEF m
  <1>9. Safe(w', Filled(Current, b, m.file, m.map), [Now EXCEPT ![b] = m.size])
    <2>1. Safe(w', Filled(Current, b, m.file, m.map), z)
      BY <1>2, <1>6, <1>8
    <2>2. CASE r.map # NoFile
      BY <1>8, <2>1, <2>2
    <2>3. CASE r.map = NoFile
      <3>1. m.file = NoFile /\ m.map = NoFile /\ m.size \in Nat
        BY <1>6, <1>8, <2>3 DEF BufOK, BufSet
      <3>2. Safe(w', Filled(Current, b, NoFile, NoFile), z)
        BY <2>1, <3>1
      <3>3. Safe(w', Filled(Current, b, NoFile, NoFile), [Now EXCEPT ![b] = m.size])
        BY <1>5, <3>1, <3>2, Resized
      <3> QED BY <3>1, <3>3
    <2> QED BY <2>2, <2>3
  <1> QED BY <1>2, <1>8, <1>9, AfterBuf

\* Bytes written in memory.
LEMMA DataFields ==
    ASSUME NEW v \in World, NEW f \in Inodes, NEW s \in Seq(Nat), NEW u, u = [v EXCEPT !.data[f] = s]
    PROVE  Rewritten(v, u, f, s)
  <1>1. /\ u.data = [v.data EXCEPT ![f] = s] /\ u.desc = v.desc
        /\ u.link = v.link /\ u.lost = v.lost /\ u.gen = v.gen
        /\ u.cache = v.cache /\ u.lock = v.lock /\ u.weak = v.weak
    BY DEF World
  <1>2. v.data \in [Inodes -> Seq(Nat)]
    BY DEF World
  <1>3. u.data \in [Inodes -> Seq(Nat)] /\ \A g \in Inodes : u.data[g] = IF g = f THEN s ELSE v.data[g]
    BY <1>1, <1>2
  <1>4. u \in World
    BY <1>1, <1>3 DEF World
  <1> QED BY <1>1, <1>3, <1>4 DEF Rewritten, Edited, SameDesc

\* Bytes that replace as many others.
LEMMA RewriteSafe ==
    ASSUME NEW v, NEW a, NEW z, Safe(v, a, z), NEW u, NEW f, NEW s, Rewritten(v, u, f, s),
           Len(s) = Len(v.data[f])
    PROVE  Safe(u, a, z)
  <1>1. v \in World
    BY SafeExact
  <1>2. \A g \in Inodes : v.data[g] \in Seq(Nat)
    BY <1>1 DEF World
  <1>3. \A g \in Inodes : Len(v.data[g]) \in Nat
    BY <1>2
  <1>4. \A g \in Inodes : Len(u.data[g]) >= Len(v.data[g])
    BY <1>3 DEF Rewritten, Edited
  <1>5. Edited(v, u, f)
    BY DEF Rewritten
  <1> QED BY <1>4, <1>5, EditSafe

LEMMA FilledSame ==
    ASSUME FilesInv, NEW b \in Bufs
    PROVE  Current = Filled(Current, b, nb[b].file, nb[b].map)
  <1>1. Current \in Assignments
    BY InvFacts
  <1>2. Current = Filled(Current, b, Current[FileKey(b)], Current[MapKey(b)])
    BY <1>1, FilledIs
  <1> QED BY <1>2, BufAt

\* One byte changed.
LEMMA ByteSet ==
    ASSUME NEW s \in Seq(Nat), NEW i
    PROVE  [s EXCEPT ![i] = 3] \in Seq(Nat) /\ Len([s EXCEPT ![i] = 3]) = Len(s)
  <1> DEFINE n == Len(s)
             r == [j \in 1 .. n |-> IF j = i THEN 3 ELSE s[j]]
  <1>1. n \in Nat /\ DOMAIN s = 1 .. n /\ \A j \in 1 .. n : s[j] \in Nat
    OBVIOUS
  <1>2. s = [j \in 1 .. n |-> s[j]]
    BY <1>1
  <1> HIDE DEF n
  <1>3. [s EXCEPT ![i] = 3] = r
    BY <1>1, <1>2
  <1>4. r \in Seq(Nat) /\ Len(r) = n
    BY <1>1
  <1> QED BY <1>3, <1>4 DEF n

LEMMA StepFill ==
    ASSUME FilesInv, NEW b \in Bufs, fill(b, 3)
    PROVE  FilesInv'
  <1>1. hv' = hv /\ task' = task /\ nb[b].st # "none"
    BY DEF fill, Quiet
  <1>2. BufOK(nb[b]) /\ nb[b] \in BufSet
    BY BufAt DEF BufOK
  <1>3. CASE nb[b].st = "heap"
    <2> DEFINE z == [nb[b].mem EXCEPT ![nb[b].size] = 3]
               m == [nb[b] EXCEPT !.mem = z]
    <2>1. nb' = [nb EXCEPT ![b].mem[nb[b].size] = 3] /\ w' = w
      BY <1>3 DEF fill
    <2>2. nb' = [nb EXCEPT ![b] = m]
      BY <2>1
    <2>3. nb[b].mem \in Seq(Nat)
      BY <1>2 DEF BufSet
    <2>4. z \in Seq(Nat)
      <3> DEFINE s == nb[b].mem
                 i == nb[b].size
      <3>1. s \in Seq(Nat)
        BY <2>3
      <3> HIDE DEF s, i
      <3>2. [s EXCEPT ![i] = 3] \in Seq(Nat)
        BY <3>1, ByteSet
      <3> QED BY <3>2 DEF s, i
    <2> HIDE DEF z
    <2>5. m \in BufSet /\ m.st = nb[b].st /\ m.file = nb[b].file /\ m.map = nb[b].map /\ m.path = nb[b].path
          /\ m.size = nb[b].size
      BY <1>2, <2>4 DEF BufSet
    <2> HIDE DEF m
    <2>6. BufOK(m)
      BY <1>2, <2>5 DEF BufOK
    <2>7. Safe(w', Filled(Current, b, m.file, m.map), [Now EXCEPT ![b] = m.size])
      <3>1. [Now EXCEPT ![b] = m.size] = Now
        BY <2>5 DEF Now
      <3> QED BY <2>1, <2>5, <3>1, FilledSame DEF FilesInv
    <2> QED BY <1>1, <2>2, <2>6, <2>7, AfterBuf
  <1>4. CASE nb[b].st # "heap"
    <2> DEFINE f == InodeOf(w, nb[b].map)
               s == [w.data[f] EXCEPT ![nb[b].size] = 3]
    <2>1. w' = [w EXCEPT !.data[f][nb[b].size] = 3] /\ nb' = nb
      BY <1>4 DEF fill
    <2>2. nb[b].file # NoFile /\ nb[b].map = nb[b].file
      BY <1>1, <1>2, <1>4 DEF BufOK, BufSet
    <2>3. w \in World /\ nb[b].map.idx \in OpenSlots(w)
      BY <2>2, BufAt, InvFacts
    <2>4. f \in Inodes
      BY <2>3, OpenSlot DEF InodeOf
    <2> HIDE DEF f
    <2>5. w.data[f] \in Seq(Nat)
      BY <2>3, <2>4 DEF World
    <2>6. s \in Seq(Nat) /\ Len(s) = Len(w.data[f])
      <3> DEFINE d == w.data[f]
                 i == nb[b].size
      <3>1. d \in Seq(Nat)
        BY <2>5
      <3> HIDE DEF d, i
      <3>2. [d EXCEPT ![i] = 3] \in Seq(Nat) /\ Len([d EXCEPT ![i] = 3]) = Len(d)
        BY <3>1, ByteSet
      <3> QED BY <3>2 DEF d, i
    <2>7. w' = [w EXCEPT !.data[f] = s]
      BY <2>1
    <2> HIDE DEF s
    <2>8. Rewritten(w, w', f, s)
      BY <2>3, <2>4, <2>6, <2>7, DataFields
    <2>9. Safe(w', Current, Now)
      BY <2>6, <2>8, RewriteSafe DEF FilesInv
    <2> QED BY <1>1, <2>1, <2>9, AfterNone
  <1> QED BY <1>3, <1>4

LEMMA PrefixType ==
    ASSUME NEW s \in Seq(Nat), NEW n \in Nat
    PROVE  Prefix(s, n) \in Seq(Nat) /\ Len(Prefix(s, n)) <= Len(s)
  <1> DEFINE k == Lesser(n, Len(s))
  <1>1. k \in Nat /\ k <= Len(s) /\ Len(s) \in Nat
    BY DEF Lesser
  <1> HIDE DEF k
  <1>2. SubSeq(s, 1, k) \in Seq(Nat) /\ Len(SubSeq(s, 1, k)) = k
    <2>1. CASE k = 0
      <3>1. SubSeq(s, 1, k) = <<>>
        BY <2>1
      <3> QED BY <2>1, <3>1
    <2>2. CASE k > 0
      BY <1>1, <2>2
    <2> QED BY <1>1, <2>1, <2>2
  <1> QED BY <1>1, <1>2 DEF Prefix, k

LEMMA OverType ==
    ASSUME NEW s \in Seq(Nat), NEW t \in Seq(Nat)
    PROVE  Over(s, t) \in Seq(Nat) /\ Len(Over(s, t)) = Len(s)
  <1> DEFINE n == Len(s)
             r == [i \in 1 .. n |-> IF i <= Len(t) THEN t[i] ELSE s[i]]
  <1>1. n \in Nat /\ Len(t) \in Nat
    OBVIOUS
  <1>2. \A i \in 1 .. n : (IF i <= Len(t) THEN t[i] ELSE s[i]) \in Nat
    BY <1>1
  <1>3. Over(s, t) = r
    BY DEF Over
  <1> HIDE DEF n
  <1>4. r \in Seq(Nat) /\ Len(r) = n
    BY <1>1, <1>2
  <1> QED BY <1>3, <1>4 DEF n

\* A buffer's two handles are closed.
LEMMA ReleaseSafe ==
    ASSUME NEW v, NEW a, NEW z, Safe(v, a, z), NEW b \in Bufs,
           NEW u, u = Close(Close(v, a[MapKey(b)]), a[FileKey(b)])
    PROVE  Safe(u, Filled(a, b, NoFile, NoFile), z)
  <1> DEFINE F == FileKey(b)
             M == MapKey(b)
             c == With(a, M, NoFile)
             d == With(c, F, NoFile)
             x == Close(v, a[M])
  <1>0. F \in Keys /\ M \in Keys /\ F # M /\ a \in Assignments /\ NoFile \in HandleSet
    BY BufKeys, SafeExact, Constants
  <1>1. u = Close(x, a[F])
    OBVIOUS
  <1>2. Safe(x, c, z)
    <2> HIDE DEF M
    <2> QED BY <1>0, CloseSafe
  <1> HIDE DEF x, F, M
  <1>3. c \in Assignments /\ \A j \in Keys : c[j] = IF j = M THEN NoFile ELSE a[j]
    BY <1>0, WithType
  <1> HIDE DEF c
  <1>4. u = Close(x, c[F])
    BY <1>0, <1>1, <1>3
  <1>5. Safe(u, d, z)
    BY <1>0, <1>2, <1>4, CloseSafe
  <1>6. d \in Assignments /\ \A j \in Keys : d[j] = IF j = F THEN NoFile ELSE c[j]
    BY <1>0, <1>3, WithType
  <1> HIDE DEF d
  <1>7. d[F] = NoFile /\ d[M] = NoFile
    BY <1>0, <1>3, <1>6
  <1>8. \A j \in Keys : j # FileKey(b) /\ j # MapKey(b) => d[j] = a[j]
    BY <1>3, <1>6 DEF F, M
  <1>9. d = Filled(a, b, d[FileKey(b)], d[MapKey(b)])
    BY <1>0, <1>6, <1>8, FilledIs
  <1> QED BY <1>5, <1>7, <1>9 DEF F, M

LEMMA StepDestruct ==
    ASSUME FilesInv, NEW b \in Bufs, destruct(b)
    PROVE  FilesInv'
  <1> DEFINE m == nb[b]
             v == Close(Close(w, m.map), m.file)
  <1>1. PICK del \in BOOLEAN :
            /\ w' = IF m.st = "mapped" /\ del THEN Unlink(v, m.path) ELSE v
            /\ nb' = [nb EXCEPT ![b] = NoBuf] /\ hv' = hv /\ task' = task
    BY DEF destruct, Quiet
  <1>2. v = Close(Close(w, Current[MapKey(b)]), Current[FileKey(b)])
    BY BufAt
  <1>3. Safe(w, Current, Now)
    BY DEF FilesInv
  <1> HIDE DEF v
  <1>4. Safe(v, Filled(Current, b, NoFile, NoFile), Now)
    BY <1>2, <1>3, ReleaseSafe
  <1>5. Safe(w', Filled(Current, b, NoFile, NoFile), Now)
    <2>1. CASE m.st = "mapped" /\ del
      <3>1. m.path \in Paths /\ v \in World
        BY <1>4, <2>1, BufAt, SafeExact DEF BufOK
      <3>2. w' = Unlink(v, m.path)
        BY <1>1, <2>1
      <3> HIDE DEF m
      <3> QED BY <1>4, <3>1, <3>2, UnlinkSafe
    <2>2. CASE ~(m.st = "mapped" /\ del)
      BY <1>1, <1>4, <2>2
    <2> QED BY <2>1, <2>2
  <1>6. Safe(w', Filled(Current, b, NoBuf.file, NoBuf.map), [Now EXCEPT ![b] = NoBuf.size])
    <2>1. NoBuf.size = 0 /\ 0 \in Nat
      BY DEF NoBuf
    <2>2. [Now EXCEPT ![b] = nb[b].size] = Now
      BY DEF Now
    <2>3. Safe(w', Filled(Current, b, NoFile, NoFile), [Now EXCEPT ![b] = 0])
      BY <1>5, <2>1, <2>2, InvFacts, Resized
    <2> QED BY <2>1, <2>3, NoBufOK
  <1> QED BY <1>1, <1>6, NoBufOK, AfterBuf

\* A buffer that let go of its mapping has its file for itself.
LEMMA Unmapped ==
    ASSUME FilesInv, NEW b \in Bufs, nb[b].st = "mapped",
           NEW rel, rel = Close(w, nb[b].map), NEW c, c = With(Current, MapKey(b), NoFile)
    PROVE  /\ Safe(rel, c, Now) /\ rel \in World /\ Owns(rel, c, b)
           /\ c \in Assignments
           /\ \A j \in Keys : c[j] = IF j = MapKey(b) THEN NoFile ELSE Current[j]
           /\ c[FileKey(b)] = nb[b].file /\ c[MapKey(b)] = NoFile
           /\ nb[b].file.idx \in OpenSlots(rel) /\ nb[b].file.idx # 0
  <1> DEFINE a == Current
             F == FileKey(b)
             M == MapKey(b)
             x == nb[b].file
             i == x.idx
  <1>1. /\ Safe(w, a, Now) /\ a \in Assignments /\ w \in World /\ NoFile \in HandleSet
        /\ F \in Keys /\ M \in Keys /\ F # M /\ x = a[F] /\ x = a[M] /\ x # NoFile
    BY BufAt, InvFacts, Constants DEF FilesInv, BufOK
  <1>2. rel = Close(w, a[M]) /\ c = With(a, M, NoFile)
    BY BufAt
  <1> HIDE DEF a, F, M, x
  <1>3. c \in Assignments /\ \A j \in Keys : c[j] = IF j = M THEN NoFile ELSE a[j]
    BY <1>1, <1>2, WithType
  <1>4. Safe(rel, c, Now)
    BY <1>1, <1>2, CloseSafe
  <1>5. c[F] = x /\ c[M] = NoFile
    BY <1>1, <1>3
  <1>6. i \in OpenSlots(rel) /\ i # 0
    <2>1. /\ c[F].idx = 0 <=> c[F] = NoFile
          /\ c[F].idx # 0 => c[F].idx \in OpenSlots(rel) /\ rel.desc[c[F].idx].seq = c[F].seq
      BY <1>1, <1>4, HeldOpen
    <2> QED BY <1>1, <1>5, <2>1
  <1>7. Covers(w, a, b, i, Now[b])
    <2>1. Covered(w, a, Now)
      BY <1>1, SafeExact
    <2> QED BY <1>1, <1>6, <2>1 DEF Covered, M
  <1>8. Tame(w, rel)
    <2>1. Exact(w, a)
      BY <1>1, SafeExact
    <2>2. Tame(w, rel) \/ Gone(w, rel, a[M].idx)
      BY <1>1, <1>2, <2>1, CloseCases
    <2> QED BY <1>1, <1>6, <2>2 DEF Gone
  <1>9. rel.desc[i].mode = w.desc[i].mode
    BY <1>6, <1>8 DEF Tame
  <1>10. Alone(c, b, i)
    <2>1. NoFile.idx = 0
      BY Constants
    <2> QED BY <1>3, <1>6, <1>7, <2>1 DEF Covers, Alone
  <1>11. Owns(rel, c, b)
    BY <1>5, <1>7, <1>9, <1>10 DEF Owns, Covers, F
  <1>12. rel \in World
    BY <1>4, SafeExact
  <1> QED BY <1>3, <1>4, <1>5, <1>6, <1>11, <1>12 DEF a, F, M, x

LEMMA StepResize ==
    ASSUME FilesInv, NEW b \in Bufs, NEW n \in Sizes, resize(b, n)
    PROVE  FilesInv'
  <1> DEFINE a == Current
             F == FileKey(b)
             M == MapKey(b)
             m == nb[b]
             saved == Prefix(Content(w, m), m.size)
             rel   == Close(w, m.map)
             size  == PageUp(n)
             heap  == IF m.st = "heap" THEN n ELSE size
             Cut(fail) == Truncate(rel, m.file, size, IF fail = "truncate" THEN "fails" ELSE "works")
             R(fail) == IF fail = "truncate" THEN GiveUp(Cut(fail), m.file, m.path)
                        ELSE Mapped(Cut(fail), m.file, m.path, fail)
  <1>1. PICK fail \in {"nothing", "truncate", "map"} :
            /\ m.st # "none" /\ hv' = hv /\ task' = task
            /\ IF m.st = "mapped" /\ R(fail).map # NoFile
               THEN /\ nb' = [nb EXCEPT ![b].size = size, ![b].map = R(fail).map]
                    /\ w'  = [R(fail).v EXCEPT !.data[InodeOf(R(fail).v, R(fail).map)] =
                                                   Over(@, Prefix(saved, size))]
               ELSE /\ nb' = [nb EXCEPT ![b] = Heap(heap, Over([i \in 1 .. heap |-> Unset], Prefix(saved, heap)))]
                    /\ w'  = IF m.st = "mapped" THEN R(fail).v ELSE w
    BY DEF resize, Quiet
  <1> DEFINE cut == Cut(fail)
             r == R(fail)
             mem == Over([i \in 1 .. heap |-> Unset], Prefix(saved, heap))
  <1>2. /\ m.st # "none" /\ hv' = hv /\ task' = task
        /\ m.st = "mapped" /\ r.map # NoFile =>
              /\ nb' = [nb EXCEPT ![b].size = size, ![b].map = r.map]
              /\ w'  = [r.v EXCEPT !.data[InodeOf(r.v, r.map)] = Over(@, Prefix(saved, size))]
        /\ ~(m.st = "mapped" /\ r.map # NoFile) =>
              /\ nb' = [nb EXCEPT ![b] = Heap(heap, mem)]
              /\ w'  = IF m.st = "mapped" THEN r.v ELSE w
    BY <1>1
  <1>3. n \in Nat /\ size \in Nat /\ heap \in Nat
    BY NormalBufferAssumption, PageUpType
  <1>4. /\ Safe(w, a, Now) /\ a \in Assignments /\ w \in World /\ NoFile \in HandleSet
        /\ F \in Keys /\ M \in Keys /\ F # M /\ m.file = a[F] /\ m.map = a[M]
        /\ BufOK(m) /\ m \in BufSet /\ m.size \in Nat /\ m.mem \in Seq(Nat)
    BY BufAt, InvFacts, Constants DEF FilesInv, BufOK, BufSet
  <1>5. m.st = "mapped" => m.file # NoFile /\ m.map = m.file /\ m.path \in Paths /\ m.file.idx \in OpenSlots(w)
    BY BufAt DEF BufOK
  <1>6. saved \in Seq(Nat)
    <2>1. Content(w, m) \in Seq(Nat)
      <3>1. CASE m.st = "mapped"
        <4>1. w.desc[m.map.idx].inode \in Inodes
          BY <1>4, <1>5, <3>1, OpenSlot
        <4>2. w.data[InodeOf(w, m.map)] \in Seq(Nat)
          BY <1>4, <4>1 DEF World, InodeOf
        <4> QED BY <3>1, <4>2 DEF Content
      <3>2. CASE m.st # "mapped"
        BY <1>4, <3>2 DEF Content
      <3> QED BY <3>1, <3>2
    <2> HIDE DEF m
    <2> QED BY <1>4, <2>1, PrefixType
  <1> HIDE DEF saved, size
  <1>10. [Now EXCEPT ![b] = m.size] = Now
    BY DEF Now
  <1>7. /\ Heap(heap, mem).file = NoFile /\ Heap(heap, mem).map = NoFile /\ BufOK(Heap(heap, mem))
        /\ Heap(heap, mem).size = heap
    <2> HIDE DEF heap
    <2>1. Prefix(saved, heap) \in Seq(Nat)
      BY <1>3, <1>6, PrefixType
    <2>2. [i \in 1 .. heap |-> Unset] \in Seq(Nat)
      BY <1>3 DEF Unset
    <2>3. mem \in Seq(Nat)
      BY <2>1, <2>2, OverType
    <2> HIDE DEF mem
    <2>4. Heap(heap, mem).size = heap
      BY DEF Heap, NoBuf
    <2> QED BY <1>3, <2>3, <2>4, HeapOK
  <1> HIDE DEF heap, mem
  <1>8. CASE m.st # "mapped"
    <2>1. nb' = [nb EXCEPT ![b] = Heap(heap, mem)] /\ w' = w
      BY <1>2, <1>8
    <2>2. m.file = NoFile /\ m.map = NoFile
      BY <1>4, <1>8 DEF BufOK
    <2>3. a = Filled(a, b, NoFile, NoFile)
      BY <2>2, FilledSame
    <2>5. Safe(w', Filled(a, b, NoFile, NoFile), [Now EXCEPT ![b] = m.size])
      BY <1>4, <1>10, <2>1, <2>3
    <2>6. Safe(w', Filled(a, b, NoFile, NoFile), [Now EXCEPT ![b] = heap])
      BY <1>3, <1>4, <2>5, Resized
    <2>4. Safe(w', Filled(Current, b, Heap(heap, mem).file, Heap(heap, mem).map),
               [Now EXCEPT ![b] = Heap(heap, mem).size])
      BY <1>7, <2>6
    <2> QED BY <1>2, <1>7, <2>1, <2>4, AfterBuf
  <1>9. CASE m.st = "mapped"
    <2> DEFINE c == With(a, M, NoFile)
    <2>1. rel = Close(w, a[M])
      BY <1>4
    <2>2. m.file # NoFile /\ m.map = m.file /\ m.path \in Paths
      BY <1>5, <1>9
    <2>3. cut = Truncate(rel, m.file, size, IF fail = "truncate" THEN "fails" ELSE "works")
      OBVIOUS
    <2>4. r = IF fail = "truncate" THEN GiveUp(cut, m.file, m.path)
              ELSE Mapped(cut, m.file, m.path, fail)
      OBVIOUS
    <2> HIDE DEF rel, cut, r, a, F, M
    <2> DEFINE z == [Now EXCEPT ![b] = size]
               how == IF fail = "truncate" THEN "fails" ELSE "works"
               x == m.file
    <2>6. c \in Assignments /\ \A j \in Keys : c[j] = IF j = M THEN NoFile ELSE a[j]
      BY <1>4, WithType
    <2>15. /\ Safe(rel, c, Now) /\ rel \in World /\ Owns(rel, c, b)
           /\ c[F] = x /\ c[M] = NoFile /\ x.idx \in OpenSlots(rel) /\ x.idx # 0
      BY <1>9, Unmapped DEF rel, a, F, M
    <2> HIDE DEF c, how
    <2>7. c[F] = x /\ c[M] = NoFile
      BY <2>15
    <2>5. Safe(rel, c, z)
      BY <1>3, <2>7, <2>15, SizeFree DEF M
    <2>16. z[b] = size
      BY DEF Now
    <2>8. x.idx \in OpenSlots(rel) /\ x.idx # 0
      BY <2>15
    <2>17. /\ x \in HandleSet /\ x # NoFile /\ rel \in World
           /\ cut = Truncate(rel, x, size, how)
      BY <1>4, <2>2, <2>3, <2>15 DEF how, BufSet
    <2> HIDE DEF z, x
    <2>18. Owns(rel, c, b)
      BY <2>15
    <2>19. Loose(c, F)
      BY <2>7, BufApart DEF Loose, F, M
    <2>9. Safe(cut, c, z)
      <3>1. cut = Truncate(rel, c[F], size, how) /\ c[F] # NoFile
        BY <2>7, <2>17
      <3> QED BY <1>3, <1>4, <2>5, <2>19, <3>1, TruncateSafe
    <2>20. /\ Edited(rel, cut, rel.desc[x.idx].inode)
           /\ how # "fails" /\ "write" \in rel.desc[x.idx].mode =>
                 Len(cut.data[rel.desc[x.idx].inode]) = size
      BY <1>3, <2>8, <2>17, TruncateFields
    <2>21. cut.desc[x.idx].inode = rel.desc[x.idx].inode /\ cut.desc[x.idx].mode = rel.desc[x.idx].mode
      BY <2>8, <2>20 DEF Edited, SameDesc, OpenSlots
    <2>22. Owns(cut, c, b)
      BY <2>7, <2>18, <2>21 DEF Owns, F
    <2>23. fail # "truncate" => LongEnough(cut, c, b, z[b])
      <3> SUFFICES ASSUME fail # "truncate" PROVE LongEnough(cut, c, b, z[b])
        OBVIOUS
      <3>1. how # "fails"
        BY DEF how
      <3>2. "write" \in rel.desc[x.idx].mode
        BY <2>7, <2>18 DEF Owns, F
      <3>3. Len(cut.data[cut.desc[x.idx].inode]) = size
        BY <2>20, <2>21, <3>1, <3>2
      <3> QED BY <1>3, <2>7, <2>16, <3>3 DEF LongEnough, F
    <2>24. x = m.file
      BY DEF x
    <2>10. \E d \in Assignments :
              /\ Safe(r.v, d, z) /\ r.map \in {NoFile, m.file}
              /\ \A j \in Keys : j # F /\ j # M => d[j] = c[j]
              /\ d[F] = r.map /\ d[M] = r.map
      <3>1. CASE fail = "truncate"
        <4> DEFINE d == With(c, F, NoFile)
        <4>1. r = GiveUp(cut, c[F], m.path)
          BY <2>4, <2>7, <2>24, <3>1
        <4>2. Safe(r.v, d, z) /\ r.file = NoFile /\ r.map = NoFile
          BY <1>4, <2>2, <2>9, <4>1, GiveUpSafe
        <4>3. d \in Assignments /\ \A j \in Keys : d[j] = IF j = F THEN NoFile ELSE c[j]
          BY <1>4, <2>6, WithType
        <4> HIDE DEF d
        <4> QED BY <1>4, <2>7, <4>2, <4>3
      <3>2. CASE fail # "truncate"
        <4> DEFINE d == Filled(c, b, r.file, r.map)
        <4>1. /\ r = Mapped(cut, c[FileKey(b)], m.path, fail)
              /\ c[FileKey(b)] # NoFile /\ c[MapKey(b)] = NoFile
          BY <2>2, <2>4, <2>7, <2>24, <3>2 DEF F, M
        <4>2. /\ Safe(r.v, d, z) /\ r.file = r.map
              /\ r.file = IF fail = "map" THEN NoFile ELSE c[FileKey(b)]
          <5> DEFINE p == m.path
          <5>1. p \in Paths /\ r = Mapped(cut, c[FileKey(b)], p, fail)
            BY <2>2, <4>1
          <5> HIDE DEF m, p, d
          <5>2. Safe(r.v, Filled(c, b, r.file, r.map), z) /\ r.file = r.map
                /\ r.file = IF fail = "map" THEN NoFile ELSE c[FileKey(b)]
            BY <2>9, <2>22, <2>23, <3>2, <4>1, <5>1, MappedSafe
          <5> QED BY <5>2 DEF d
        <4>3. r.map \in {NoFile, m.file} /\ r.file \in HandleSet /\ r.map \in HandleSet
          BY <1>4, <2>7, <2>17, <2>24, <4>2 DEF F, Assignments
        <4>4. /\ d \in Assignments
              /\ \A j \in Keys : d[j] = IF j = MapKey(b) THEN r.map ELSE IF j = FileKey(b) THEN r.file ELSE c[j]
          BY <2>6, <4>3, FilledType
        <4> HIDE DEF d
        <4> QED BY <1>4, <4>2, <4>3, <4>4 DEF F, M
      <3> QED BY <3>1, <3>2
    <2>11. PICK d \in Assignments :
              /\ Safe(r.v, d, z) /\ r.map \in {NoFile, m.file}
              /\ \A j \in Keys : j # F /\ j # M => d[j] = c[j]
              /\ d[F] = r.map /\ d[M] = r.map
      BY <2>10
    <2>12. d = Filled(a, b, r.map, r.map)
      <3>1. \A j \in Keys : j # FileKey(b) /\ j # MapKey(b) => d[j] = a[j]
        BY <2>6, <2>11 DEF F, M
      <3>2. d = Filled(a, b, d[FileKey(b)], d[MapKey(b)])
        BY <1>4, <3>1, FilledIs
      <3> QED BY <2>11, <3>2 DEF F, M
    <2>13. CASE r.map = NoFile
      <3>1. nb' = [nb EXCEPT ![b] = Heap(heap, mem)] /\ w' = r.v
        BY <1>2, <1>9, <2>13
      <3>3. Safe(w', Filled(a, b, NoFile, NoFile), [Now EXCEPT ![b] = size])
        BY <2>11, <2>12, <2>13, <3>1 DEF z
      <3>4. Safe(w', Filled(a, b, NoFile, NoFile), [Now EXCEPT ![b] = heap])
        BY <1>3, <1>4, <3>3, Resized
      <3>2. Safe(w', Filled(Current, b, Heap(heap, mem).file, Heap(heap, mem).map),
                 [Now EXCEPT ![b] = Heap(heap, mem).size])
        BY <1>7, <3>4 DEF a
      <3> QED BY <1>2, <1>7, <3>1, <3>2, AfterBuf
    <2>14. CASE r.map # NoFile
      <3> DEFINE f == InodeOf(r.v, r.map)
                 s == Over(r.v.data[f], Prefix(saved, size))
                 e == [m EXCEPT !.size = size, !.map = r.map]
      <3>1. r.map = m.file
        BY <2>11, <2>14
      <3>2. nb' = [nb EXCEPT ![b] = e]
        BY <1>2, <1>9, <2>14
      <3>3. w' = [r.v EXCEPT !.data[f] = s]
        BY <1>2, <1>9, <2>14
      <3>4. /\ e \in BufSet /\ e.st = "mapped" /\ e.file = m.file /\ e.map = r.map /\ e.path = m.path
            /\ e.size = size
        <4> HIDE DEF NoFile
        <4>1. r.map \in HandleSet
          BY <1>4, <3>1 DEF BufSet
        <4> QED BY <1>3, <1>4, <1>9, <4>1 DEF BufSet
      <3> HIDE DEF e
      <3>5. BufOK(e)
        BY <2>2, <3>1, <3>4 DEF BufOK
      <3>6. /\ d[F].idx = 0 <=> d[F] = NoFile
            /\ d[F].idx # 0 => d[F].idx \in OpenSlots(r.v) /\ r.v.desc[d[F].idx].seq = d[F].seq
        BY <1>4, <2>11, HeldOpen
      <3>7. r.v \in World /\ r.map.idx \in OpenSlots(r.v)
        BY <2>11, <2>14, <3>6, SafeExact
      <3>8. f \in Inodes
        BY <3>7, OpenSlot DEF InodeOf
      <3> HIDE DEF f
      <3>9. r.v.data[f] \in Seq(Nat)
        BY <3>7, <3>8 DEF World
      <3>10. Prefix(saved, size) \in Seq(Nat)
        BY <1>3, <1>6, PrefixType
      <3>11. s \in Seq(Nat) /\ Len(s) = Len(r.v.data[f])
        BY <3>9, <3>10, OverType
      <3> HIDE DEF s
      <3>12. Rewritten(r.v, w', f, s)
        BY <3>3, <3>7, <3>8, <3>11, DataFields
      <3>13. Safe(w', d, z)
        BY <2>11, <3>11, <3>12, RewriteSafe
      <3>14. Safe(w', Filled(Current, b, e.file, e.map), [Now EXCEPT ![b] = e.size])
        BY <2>12, <3>1, <3>4, <3>13 DEF a, z
      <3> QED BY <1>2, <3>2, <3>5, <3>14, AfterBuf
    <2> QED BY <2>13, <2>14
  <1> QED BY <1>8, <1>9

\* At the start nothing is open.
LEMMA FilesInvStart == FilesInit => FilesInv
  <1> SUFFICES ASSUME FilesInit PROVE FilesInv
    OBVIOUS
  <1>1. /\ w = WorldInit /\ hv = [h \in Handles |-> NoFile] /\ task = Idle
        /\ nb = [b \in Bufs |-> NoBuf]
    BY DEF FilesInit, FmInit
  <1>2. NoFile \in HandleSet /\ NoFile.idx = 0 /\ BufOK(NoBuf) /\ TaskOK(Idle)
    BY Constants, NoBufOK, IdleOK
  <1>3. /\ hv \in [Handles -> HandleSet] /\ TaskOK(task)
        /\ nb \in [Bufs -> BufSet] /\ \A b \in Bufs : BufOK(nb[b])
    BY <1>1, <1>2 DEF BufOK
  <1>4. w \in World /\ w.desc = <<>> /\ w.lost = <<>>
    <2>1. FirstSeq \in 0 .. SeqWidth - 1
      BY FileManagerAssumption
    <2>2. <<>> \in Seq(SlotSet) /\ <<>> \in Seq(Nat)
      OBVIOUS
    <2> QED BY <1>1, <2>1, <2>2 DEF WorldInit, World
  <1>5. OpenSlots(w) = {} /\ Sound(w)
    BY <1>4 DEF OpenSlots, Sound
  <1>6. Typed(hv, task, nb)
    BY <1>3 DEF Typed, TaskOK
  <1>7. PlacesAre(Current, hv, task, nb)
    BY <1>6, PlacesAt DEF Current
  <1>8. \A k \in Keys : Current[k] = NoFile
    <2>1. /\ \A h \in Handles : hv[h] = NoFile
          /\ task.src = NoFile /\ task.dst = NoFile
          /\ \A b \in Bufs : nb[b].file = NoFile /\ nb[b].map = NoFile
      BY <1>1, NoBufOK, IdleOK
    <2> QED BY <1>7, <2>1, KeyCases DEF PlacesAre
  <1>9. Exact(w, Current)
    BY <1>2, <1>5, <1>7, <1>8 DEF Exact, Counted, Named, PlacesAre
  <1>10. Guarded(w)
    <2>1. \A f \in Inodes : w.cache[f] = {} /\ OpenOn(w, f) = {}
      BY <1>1, <1>5 DEF WorldInit, OpenOn
    <2> QED BY <2>1 DEF Guarded
  <1>11. Now \in [Bufs -> Nat]
    BY <1>3 DEF Now, BufSet
  <1>12. Covered(w, Current, Now)
    BY <1>2, <1>8, BufKeys DEF Covered
  <1> QED BY <1>3, <1>9, <1>10, <1>11, <1>12 DEF FilesInv, Safe

LEMMA FilesInvStep ==
    ASSUME FilesInv, [FilesNext]_filesvars
    PROVE  FilesInv'
  <1>1. CASE UNCHANGED filesvars
    <2>1. w' = w /\ hv' = hv /\ task' = task /\ nb' = nb
      BY <1>1 DEF filesvars, fmvars
    <2>2. Safe(w', Current, Now)
      BY <2>1 DEF FilesInv
    <2> QED BY <2>1, <2>2, AfterNone
  <1>2. CASE FmNext /\ nb' = nb
    <2>1. ASSUME NEW h \in Handles, NEW p \in Paths, NEW m \in Modes, open_file(h, p, m) PROVE FilesInv'
      BY <1>2, <2>1, StepOpen
    <2>2. ASSUME NEW h \in Handles, close_file(h) \/ invalid(h) PROVE FilesInv'
      BY <1>2, <2>2, StepClose
    <2>3. ASSUME NEW h \in Handles, lock_file(h) PROVE FilesInv'
      BY <1>2, <2>3, StepNames
    <2>4. ASSUME NEW h \in Handles, NEW g \in Handles, copy_handle(h, g) PROVE FilesInv'
      BY <1>2, <2>4, StepCopy
    <2>5. ASSUME NEW h \in Handles, NEW g \in Handles, copy_assign(h, g) PROVE FilesInv'
      BY <1>2, <2>5, StepAssign
    <2>6. ASSUME NEW h \in Handles, NEW g \in Handles, move_handle(h, g) PROVE FilesInv'
      BY <1>2, <2>6, StepMove
    <2>7. ASSUME NEW h \in Handles, NEW n \in Lengths,
                 \/ read_file(h, n) \/ truncate_file(h, n)
                 \/ \E opt \in {"current", "begin", "end"} : write_file(h, n, opt)
          PROVE  FilesInv'
      BY <1>2, <2>7, StepBytes
    <2>8. ASSUME NEW p \in Paths, get_file_size(p) \/ read_all_text(p) PROVE FilesInv'
      BY <1>2, <2>8, StepVisit
    <2>9. ASSUME NEW p \in Paths, remove_file_or_dir(p) PROVE FilesInv'
      BY <1>2, <2>9, StepNames
    <2>10. ASSUME NEW p \in Paths, NEW op \in {"append", "write"}, text_begin(op, p) PROVE FilesInv'
      BY <1>2, <2>10, StepTextBegin
    <2>11. ASSUME NEW p \in Paths, NEW q \in Paths, copy_begin(p, q) PROVE FilesInv'
      BY <1>2, <2>11, StepCopyBegin
    <2>12. ASSUME NEW f \in Inodes, other_process(f) PROVE FilesInv'
      BY <1>2, <2>12, StepNames
    <2>13. ASSUME text_truncate \/ copy_truncate PROVE FilesInv'
      BY <1>2, <2>13, StepTextTruncate
    <2>14. ASSUME text_write PROVE FilesInv'
      BY <1>2, <2>14, StepTextWrite
    <2>15. ASSUME copy_open PROVE FilesInv'
      BY <1>2, <2>15, StepCopyOpen
    <2>16. ASSUME copy_chunk PROVE FilesInv'
      BY <1>2, <2>16, StepCopyChunk
    <2>17. ASSUME copy_end PROVE FilesInv'
      BY <1>2, <2>17, StepCopyEnd
    <2> QED BY <1>2, <2>1, <2>2, <2>3, <2>4, <2>5, <2>6, <2>7, <2>8, <2>9, <2>10, <2>11,
               <2>12, <2>13, <2>14, <2>15, <2>16, <2>17, Zenon DEF FmNext
  <1>3. ASSUME NEW b \in Bufs,
               \/ \E p \in Paths, n \in Sizes : construct(b, p, n)
               \/ fill(b, 3) \/ destruct(b)
               \/ \E n \in Sizes : resize(b, n)
        PROVE  FilesInv'
    BY <1>3, StepConstruct, StepFill, StepDestruct, StepResize
  <1> QED BY <1>1, <1>2, <1>3 DEF FilesNext

\* The bytes that are saved and copied back are the first ones of before.
LEMMA KeptBytes ==
    ASSUME NEW s \in Seq(Nat), NEW c \in Seq(Nat), NEW old \in Nat, old <= Len(c),
           NEW n \in Nat, Len(s) = n, NEW k, k = Lesser(old, n)
    PROVE  Prefix(Over(s, Prefix(Prefix(c, old), n)), k) = Prefix(c, k)
  <1> DEFINE p == Prefix(c, old)
             q == Prefix(p, n)
             r == Over(s, q)
  <1>0. Len(c) \in Nat /\ k \in Nat /\ k <= old /\ k <= n
    BY DEF Lesser
  <1>1. p = SubSeq(c, 1, old)
    <2>1. Lesser(old, Len(c)) = old
      BY <1>0 DEF Lesser
    <2> QED BY <2>1 DEF Prefix
  <1>2. p \in Seq(Nat) /\ Len(p) = old /\ \A i \in 1 .. old : p[i] = c[i]
    <2>1. CASE old = 0
      BY <1>1, <2>1
    <2>2. CASE old > 0
      BY <1>0, <1>1, <2>2
    <2> QED BY <2>1, <2>2
  <1> HIDE DEF p
  <1>3. q = SubSeq(p, 1, k)
    <2>1. Lesser(n, Len(p)) = k
      BY <1>0, <1>2 DEF Lesser
    <2> QED BY <2>1 DEF Prefix
  <1> HIDE DEF q
  <1>4. q \in Seq(Nat) /\ Len(q) = k /\ \A i \in 1 .. k : q[i] = c[i]
    <2>1. CASE k = 0
      BY <1>2, <1>3, <2>1
    <2>2. CASE k > 0
      <3>0. DEFINE u == SubSeq(p, 1, k)
      <3>1. k <= Len(p) /\ p \in Seq(Nat)
        BY <1>0, <1>2
      <3>2. u \in Seq(Nat) /\ Len(u) = k /\ \A i \in 1 .. k : u[i] = p[i]
        BY <1>0, <2>2, <3>1, SMTT(30)
      <3>3. q = u
        BY <1>3
      <3> HIDE DEF u
      <3>4. \A i \in 1 .. k : q[i] = c[i]
        BY <1>0, <1>2, <3>2, <3>3, SMTT(30)
      <3> QED BY <3>2, <3>3, <3>4
    <2> QED BY <1>0, <2>1, <2>2
  <1>5. r \in Seq(Nat) /\ Len(r) = n
    BY <1>4, OverType
  <1>6. \A i \in 1 .. k : r[i] = c[i]
    BY <1>0, <1>4, SMTT(30) DEF Over
  <1> HIDE DEF r
  <1>7. Prefix(r, k) = SubSeq(r, 1, k) /\ Prefix(c, k) = SubSeq(c, 1, k)
    <2>1. Lesser(k, Len(r)) = k /\ Lesser(k, Len(c)) = k
      BY <1>0, <1>5 DEF Lesser
    <2> QED BY <2>1 DEF Prefix
  <1>8. SubSeq(r, 1, k) = SubSeq(c, 1, k)
    <2>1. CASE k = 0
      BY <1>5, <2>1
    <2>2. CASE k > 0
      <3> DEFINE u == SubSeq(r, 1, k)
                 cut == SubSeq(c, 1, k)
      <3>1. k <= Len(r) /\ k <= Len(c) /\ k \in Nat /\ c \in Seq(Nat) /\ r \in Seq(Nat)
        BY <1>0, <1>5
      <3>2. u \in Seq(Nat) /\ Len(u) = k /\ \A i \in 1 .. k : u[i] = r[i]
        BY <2>2, <3>1
      <3>3. cut \in Seq(Nat) /\ Len(cut) = k /\ \A i \in 1 .. k : cut[i] = c[i]
        BY <2>2, <3>1
      <3> HIDE DEF u, cut
      <3>5. u = [i \in 1 .. k |-> u[i]] /\ cut = [i \in 1 .. k |-> cut[i]]
        BY <3>2, <3>3
      <3>6. \A i \in 1 .. k : u[i] = cut[i]
        BY <1>6, <3>2, <3>3
      <3>4. u = cut
        BY <3>5, <3>6
      <3> QED BY <3>4 DEF u, cut
    <2> QED BY <1>0, <2>1, <2>2
  <1> QED BY <1>7, <1>8 DEF r, q, p

\* Another holder of a slot leaves the files as they are.
LEMMA IncRefKeeps ==
    ASSUME NEW v \in World, NEW x, x.idx \in OpenSlots(v), NEW u, u = IncRef(v, x)
    PROVE  u.data = v.data /\ u.desc[x.idx].inode = v.desc[x.idx].inode /\ u \in World
  <1> DEFINE i == x.idx
             y == [v.desc[i] EXCEPT !.ref = @ + 1]
  <1>1. CASE IndexOf(v, x) = 0
    BY <1>1 DEF IncRef
  <1>2. CASE IndexOf(v, x) # 0
    <2>1. u = [v EXCEPT !.desc[i].ref = @ + 1]
      BY <1>2 DEF IncRef
    <2>2. i \in DOMAIN v.desc /\ v.desc[i] \in SlotSet /\ v.desc \in Seq(SlotSet)
      BY OpenSlot DEF World
    <2>3. /\ u.link = v.link /\ u.data = v.data /\ u.gen = v.gen /\ u.cache = v.cache
          /\ u.lock = v.lock /\ u.weak = v.weak /\ u.lost = v.lost
          /\ u.desc = [v.desc EXCEPT ![i] = [v.desc[i] EXCEPT !.ref = @ + 1]]
      BY <2>1 DEF World
    <2>4. y \in SlotSet /\ y.inode = v.desc[i].inode
      <3> DEFINE d == v.desc[i]
      <3>1. d \in SlotSet
        BY <2>2
      <3> HIDE DEF d
      <3>2. d.ref + 1 \in Nat
        BY <3>1 DEF SlotSet
      <3>3. [d EXCEPT !.ref = @ + 1] \in SlotSet /\ [d EXCEPT !.ref = @ + 1].inode = d.inode
        BY <3>1, <3>2 DEF SlotSet
      <3> QED BY <3>3 DEF d
    <2>5. u.desc \in Seq(SlotSet) /\ u.desc[i].inode = v.desc[i].inode
      <3> HIDE DEF y
      <3>1. u.desc = [v.desc EXCEPT ![i] = y]
        BY <2>3 DEF y
      <3>2. u.desc \in Seq(SlotSet) /\ u.desc[i] = y
        BY <2>2, <2>4, <3>1
      <3> QED BY <2>4, <3>2
    <2>6. u \in World
      BY <2>1, <2>3, <2>5 DEF World
    <2> QED BY <2>3, <2>5, <2>6
  <1> QED BY <1>1, <1>2

\* What a resized buffer contains.
Resaved(s, t, old, n) == \E d \in Seq(Nat) : Len(d) = n /\ t = Over(d, Prefix(Prefix(s, old), n))

LEMMA ResizeBytes ==
    ASSUME FilesInv, NEW b \in Bufs, NEW n \in Sizes, resize(b, n)
    PROVE  /\ \A d \in Bufs : d # b => nb'[d] = nb[d]
           /\ nb'[b].size \in Nat
           /\ Resaved(Content(w, nb[b]), Content(w', nb'[b]), nb[b].size, nb'[b].size)
  <1> DEFINE m == nb[b]
             s == Content(w, m)
             saved == Prefix(s, m.size)
             rel   == Close(w, m.map)
             size  == PageUp(n)
             heap  == IF m.st = "heap" THEN n ELSE size
             Cut(fail) == Truncate(rel, m.file, size, IF fail = "truncate" THEN "fails" ELSE "works")
             R(fail) == IF fail = "truncate" THEN GiveUp(Cut(fail), m.file, m.path)
                        ELSE Mapped(Cut(fail), m.file, m.path, fail)
             old == [i \in 1 .. heap |-> Unset]
             mem == Over(old, Prefix(saved, heap))
  <1>1. PICK fail \in {"nothing", "truncate", "map"} :
            IF m.st = "mapped" /\ R(fail).map # NoFile
            THEN /\ nb' = [nb EXCEPT ![b].size = size, ![b].map = R(fail).map]
                 /\ w'  = [R(fail).v EXCEPT !.data[InodeOf(R(fail).v, R(fail).map)] =
                                                Over(@, Prefix(saved, size))]
            ELSE nb' = [nb EXCEPT ![b] = Heap(heap, mem)]
    BY DEF resize
  <1>2. n \in Nat /\ size \in Nat /\ heap \in Nat
    BY NormalBufferAssumption, PageUpType
  <1>3. nb \in [Bufs -> BufSet] /\ m \in BufSet /\ BufOK(m)
    BY DEF FilesInv
  <1> DEFINE cut == Cut(fail)
             r == R(fail)
  <1>4. CASE ~(m.st = "mapped" /\ r.map # NoFile)
    <2>1. nb' = [nb EXCEPT ![b] = Heap(heap, mem)]
      BY <1>1, <1>4
    <2> HIDE DEF heap, mem, s
    <2>2. nb'[b] = Heap(heap, mem) /\ \A d \in Bufs : d # b => nb'[d] = nb[d]
      BY <1>3, <2>1
    <2>3. nb'[b].st = "heap" /\ nb'[b].mem = mem /\ nb'[b].size = heap
      BY <2>2 DEF Heap, NoBuf
    <2>4. Content(w', nb'[b]) = mem
      BY <2>3 DEF Content
    <2>5. old \in Seq(Nat) /\ Len(old) = heap
      BY <1>2 DEF Unset
    <2> HIDE DEF old
    <2>6. Resaved(s, mem, m.size, heap)
      BY <2>5 DEF Resaved, mem
    <2> QED BY <1>2, <2>2, <2>3, <2>4, <2>6 DEF s
  <1>5. CASE m.st = "mapped" /\ r.map # NoFile
    <2> DEFINE x == m.file
               i == x.idx
               f == rel.desc[i].inode
               c == With(Current, MapKey(b), NoFile)
    <2>1. /\ nb' = [nb EXCEPT ![b].size = size, ![b].map = r.map]
          /\ w' = [r.v EXCEPT !.data[InodeOf(r.v, r.map)] = Over(@, Prefix(saved, size))]
      BY <1>1, <1>5
    <2>2. /\ Safe(rel, c, Now) /\ rel \in World /\ Owns(rel, c, b) /\ c[FileKey(b)] = x
          /\ i \in OpenSlots(rel)
      BY <1>5, Unmapped
    <2>3. cut = Truncate(rel, x, size, IF fail = "truncate" THEN "fails" ELSE "works")
      OBVIOUS
    <2>4. r = IF fail = "truncate" THEN GiveUp(cut, x, m.path) ELSE Mapped(cut, x, m.path, fail)
      OBVIOUS
    <2> HIDE DEF cut, r, rel
    <2>5. fail # "truncate" /\ fail # "map"
      BY <1>5, <2>4 DEF GiveUp, Mapped
    <2>6. cut = Truncate(rel, x, size, "works") /\ r.v = IncRef(cut, x) /\ r.map = x
      BY <2>3, <2>4, <2>5 DEF Mapped
    <2>7. "write" \in rel.desc[i].mode /\ f \in Inodes
      BY <2>2, OpenSlot DEF Owns
    <2> HIDE DEF x, saved, s, size, c
    <2>8. Edited(rel, cut, f) /\ Len(cut.data[f]) = size
      BY <1>2, <2>2, <2>6, <2>7, TruncateFields
    <2> HIDE DEF f
    <2>9. cut \in World /\ i \in OpenSlots(cut) /\ cut.desc[i].inode = f
      BY <2>2, <2>8 DEF Edited, SameDesc, OpenSlots, World, f
    <2> DEFINE v == r.v
               g == Prefix(saved, size)
    <2>10. v.data = cut.data /\ v.desc[i].inode = f /\ v \in World
      BY <2>2, <2>6, <2>8, <2>9, IncRefKeeps DEF i
    <2>11. InodeOf(v, r.map) = f
      BY <2>6, <2>10 DEF InodeOf, i
    <2>12. w' = [v EXCEPT !.data[f] = Over(@, g)]
      BY <2>1, <2>11
    <2> HIDE DEF v, g
    <2>13. w'.data[f] = Over(cut.data[f], g) /\ w'.desc = v.desc
      BY <2>7, <2>10, <2>12 DEF World
    <2>14. nb'[b] = [m EXCEPT !.size = size, !.map = x] /\ \A d \in Bufs : d # b => nb'[d] = nb[d]
      BY <1>3, <2>1, <2>6
    <2>15. nb'[b].st = "mapped" /\ nb'[b].map = x /\ nb'[b].size = size
      BY <1>3, <1>5, <2>14 DEF BufSet
    <2>16. InodeOf(w', x) = f
      BY <2>10, <2>13 DEF InodeOf, i
    <2>17. Content(w', nb'[b]) = Over(cut.data[f], g)
      BY <2>13, <2>15, <2>16 DEF Content
    <2>18. cut.data[f] \in Seq(Nat)
      BY <2>7, <2>9 DEF World
    <2>19. Resaved(s, Over(cut.data[f], g), m.size, size)
      BY <2>8, <2>18 DEF Resaved, g, saved
    <2> QED BY <1>2, <2>14, <2>15, <2>17, <2>19 DEF s, size
  <1> QED BY <1>4, <1>5

\* The accounts say what HandlesExact says.
LEMMA FilesInvExact == FilesInv => HandlesExact
  <1> SUFFICES ASSUME FilesInv PROVE HandlesExact
    OBVIOUS
  <1>1. /\ Typed(hv, task, nb) /\ PlacesAre(Current, hv, task, nb) /\ Current \in Assignments
        /\ w \in World /\ Exact(w, Current)
    BY InvFacts DEF FilesInv, Safe
  <1>2. \A k \in Held : k \in Keys /\ k \notin Temp
    BY DEF Held, Keys, Temp
  <1>3. \A k \in Held : Current[k] = At(k)
    BY <1>2 DEF Current, Places, Place, At
  <1>4. ASSUME NEW i \in OpenSlots(w)
        PROVE  w.desc[i].ref = w.lost[i] + Cardinality({k \in Held : At(k).idx = i})
    <2>1. i # 0 /\ w.desc[i].ref = w.lost[i] + Count(Current, i)
      BY <1>1, <1>4, OpenSlot DEF Exact, Counted
    <2>2. \A k \in Temp : Current[k].idx # i
      BY <1>1, <2>1, Constants DEF PlacesAre
    <2>3. Holders(Current, i) = {k \in Held : At(k).idx = i}
      BY <1>2, <1>3, <2>2 DEF Holders, Keys
    <2> QED BY <2>1, <2>3 DEF Count
  <1>5. ASSUME NEW k \in Held, At(k).idx # 0
        PROVE  At(k).idx \in OpenSlots(w) /\ w.desc[At(k).idx].seq = At(k).seq
    <2>1. k \in Keys /\ Current[k] = At(k)
      BY <1>2, <1>3
    <2> HIDE DEF At
    <2> QED BY <1>1, <1>5, <2>1 DEF Exact, Named
  <1> QED BY <1>4, <1>5 DEF HandlesExact

\* A file that is opened exclusively is protected, and covers the buffer mapped from it.
LEMMA FilesInvExclusive == FilesInv => FileExclusive
  <1> SUFFICES ASSUME FilesInv, NEW f \in Inodes
               PROVE  /\ w.cache[f] # {} => OpenOn(w, f) # {}
                      /\ \A i \in OpenOn(w, f) :
                            "exclusive" \in w.desc[i].mode /\ f \notin w.weak =>
                               /\ w.lock[f] = "ours"
                               /\ \A j \in OpenOn(w, f) \ {i} : w.desc[j].mode \cap {"write", "exclusive"} = {}
                               /\ \A b \in Bufs : nb[b].map.idx = i => nb[b].size <= Len(w.data[f])
    BY DEF FileExclusive
  <1>1. Exact(w, Current) /\ Guarded(w) /\ Covered(w, Current, Now) /\ w \in World
    BY SafeExact DEF FilesInv
  <1>2. w.cache[f] # {} => OpenOn(w, f) # {}
    BY <1>1 DEF Guarded
  <1>3. ASSUME NEW i \in OpenOn(w, f), "exclusive" \in w.desc[i].mode, f \notin w.weak
        PROVE  /\ w.lock[f] = "ours"
               /\ \A j \in OpenOn(w, f) \ {i} : w.desc[j].mode \cap {"write", "exclusive"} = {}
               /\ \A b \in Bufs : nb[b].map.idx = i => nb[b].size <= Len(w.data[f])
    <2>1. Writing(w.desc[i].mode)
      BY <1>3 DEF Writing
    <2>2. Protected(w, f, i)
      BY <1>1, <1>3, <2>1 DEF Guarded
    <2>3. i \in OpenSlots(w) /\ w.desc[i].inode = f
      BY <1>3 DEF OpenOn
    <2>4. i # 0
      BY <1>1, <2>3, OpenSlot
    <2>5. ASSUME NEW b \in Bufs, nb[b].map.idx = i
          PROVE  nb[b].size <= Len(w.data[f])
      <3>1. Current[MapKey(b)].idx = i /\ Now[b] = nb[b].size
        BY <2>5, BufAt DEF Now
      <3>2. Covers(w, Current, b, i, nb[b].size)
        BY <1>1, <2>4, <3>1 DEF Covered
      <3> QED BY <1>3, <2>3, <3>2 DEF Covers
    <2> QED BY <1>3, <2>2, <2>5 DEF Protected, Writing
  <1> QED BY <1>2, <1>3

(***************************************************************************)
(* For every number of handles, buffers, paths and files, for every width  *)
(* of the sequence numbers, and after any number of calls: a descriptor's  *)
(* count is the number of handles that name it plus the references that    *)
(* were lost, and no handle names a slot that was closed or used again     *)
(* (file_manager's open, copy, move and close, the text calls, copy_file,  *)
(* and the two handles of a mapped buffer).                                *)
(***************************************************************************)
THEOREM HandlesAlwaysExact == FilesSpec => []HandlesExact
  <1>1. FilesInit => FilesInv
    BY FilesInvStart
  <1>2. FilesInv /\ [FilesNext]_filesvars => FilesInv'
    BY FilesInvStep
  <1>3. FilesInv => HandlesExact
    BY FilesInvExact
  <1> QED BY <1>1, <1>2, <1>3, PTL DEF FilesSpec

(***************************************************************************)
(* In the same generality: a file that is open exclusively has no other    *)
(* writer, is locked against other processes, and has every byte of the    *)
(* buffer mapped from it, unless a descriptor of it was closed while        *)
(* another stayed open; and a file nobody has open is in nobody's way       *)
(* (add_file_execlusive_check, remove_file_execlusive_check, and the        *)
(* creation and the resizing of mapped buffers).                           *)
(***************************************************************************)
THEOREM ExclusiveFilesProtected == FilesSpec => []FileExclusive
  <1>1. FilesInit => FilesInv
    BY FilesInvStart
  <1>2. FilesInv /\ [FilesNext]_filesvars => FilesInv'
    BY FilesInvStep
  <1>3. FilesInv => FileExclusive
    BY FilesInvExclusive
  <1> QED BY <1>1, <1>2, <1>3, PTL DEF FilesSpec

\* What ResizeKeeps asks of one buffer.
KeepsBytes(b) ==
    (nb[b].st # "none" /\ nb'[b].st # "none" /\ nb'[b].size # nb[b].size
     /\ nb[b].size <= Len(Content(w, nb[b]))) =>
       LET n == Lesser(nb[b].size, nb'[b].size)
       IN  Prefix(Content(w', nb'[b]), n) = Prefix(Content(w, nb[b]), n)

\* A buffer's content is bytes.
LEMMA ContentType ==
    ASSUME FilesInv, NEW b \in Bufs
    PROVE  Content(w, nb[b]) \in Seq(Nat)
  <1>1. w \in World
    BY InvFacts
  <1>2. nb[b] \in BufSet /\ BufOK(nb[b])
    BY DEF FilesInv
  <1>3. CASE nb[b].st # "mapped"
    BY <1>2, <1>3 DEF Content, BufSet
  <1>4. CASE nb[b].st = "mapped"
    <2> DEFINE i == nb[b].map.idx
    <2>1. i \in OpenSlots(w)
      BY <1>2, <1>4, BufAt DEF BufOK
    <2>2. w.desc[i].inode \in Inodes
      BY <1>1, <2>1, OpenSlot
    <2> QED BY <1>1, <1>4, <2>2 DEF Content, InodeOf, World
  <1> QED BY <1>3, <1>4

\* Only a resize changes a live buffer's size, and it keeps the bytes.
LEMMA KeepsStep ==
    ASSUME FilesInv, FilesNext, NEW d \in Bufs
    PROVE  KeepsBytes(d)
  <1>0. nb \in [Bufs -> BufSet]
    BY DEF FilesInv
  <1>1. CASE nb' = nb
    BY <1>1 DEF KeepsBytes
  <1>2. ASSUME NEW b \in Bufs, NEW p \in Paths, NEW n \in Sizes, construct(b, p, n)
        PROVE  KeepsBytes(d)
    <2>1. nb[b].st = "none" /\ \A e \in Bufs : e # b => nb'[e] = nb[e]
      BY <1>0, <1>2 DEF construct
    <2> QED BY <2>1 DEF KeepsBytes
  <1>3. ASSUME NEW b \in Bufs, fill(b, 3)
        PROVE  KeepsBytes(d)
    <2>1. nb[b].st = "heap" => nb' = [nb EXCEPT ![b].mem[nb[b].size] = 3]
      BY <1>3 DEF fill
    <2>2. nb[b].st # "heap" => nb' = nb
      BY <1>3 DEF fill
    <2>3. nb[b] \in BufSet
      BY <1>0
    <2>4. CASE nb[b].st = "heap"
      <3> DEFINE z == [nb[b].mem EXCEPT ![nb[b].size] = 3]
                 m == [nb[b] EXCEPT !.mem = z]
      <3>1. nb' = [nb EXCEPT ![b] = m]
        BY <2>1, <2>4
      <3> HIDE DEF z
      <3>2. m.size = nb[b].size
        BY <2>3 DEF BufSet
      <3> HIDE DEF m
      <3>3. nb'[d].size = nb[d].size
        BY <1>0, <3>1, <3>2
      <3> QED BY <3>3 DEF KeepsBytes
    <2>5. CASE nb[b].st # "heap"
      BY <1>1, <2>2, <2>5
    <2> QED BY <2>4, <2>5
  <1>4. ASSUME NEW b \in Bufs, destruct(b)
        PROVE  KeepsBytes(d)
    <2>1. nb' = [nb EXCEPT ![b] = NoBuf]
      BY <1>4 DEF destruct
    <2>2. nb'[b].st = "none" /\ \A e \in Bufs : e # b => nb'[e] = nb[e]
      BY <1>0, <2>1 DEF NoBuf
    <2> QED BY <2>2 DEF KeepsBytes
  <1>5. ASSUME NEW b \in Bufs, NEW n \in Sizes, resize(b, n)
        PROVE  KeepsBytes(d)
    <2>1. /\ \A e \in Bufs : e # b => nb'[e] = nb[e]
          /\ nb'[b].size \in Nat
          /\ Resaved(Content(w, nb[b]), Content(w', nb'[b]), nb[b].size, nb'[b].size)
      BY <1>5, ResizeBytes
    <2>2. CASE d # b
      BY <2>1, <2>2 DEF KeepsBytes
    <2>3. CASE d = b
      <3> DEFINE c == Content(w, nb[b])
                 t == Content(w', nb'[b])
                 old == nb[b].size
                 size == nb'[b].size
                 k == Lesser(old, size)
      <3>1. c \in Seq(Nat) /\ old \in Nat /\ size \in Nat
        BY <1>0, <2>1, ContentType DEF BufSet
      <3> HIDE DEF c, t, old, size
      <3>2. PICK s \in Seq(Nat) : Len(s) = size /\ t = Over(s, Prefix(Prefix(c, old), size))
        BY <2>1 DEF Resaved, c, t, old, size
      <3>3. old <= Len(c) => Prefix(t, k) = Prefix(c, k)
        BY <3>1, <3>2, KeptBytes
      <3> QED BY <2>3, <3>3 DEF KeepsBytes, c, t, old, size
    <2> QED BY <2>2, <2>3
  <1> QED BY <1>1, <1>2, <1>3, <1>4, <1>5 DEF FilesNext

(***************************************************************************)
(* In the same generality: a buffer that changes its size keeps the bytes  *)
(* that fit, whether it stays mapped or moves to the heap because its file *)
(* could not be cut or mapped again, whatever else holds or has held the   *)
(* descriptors of its file (normal_buffer::resize).                        *)
(***************************************************************************)
THEOREM ResizeAlwaysKeeps == FilesSpec => ResizeKeeps
  <1>1. FilesInit => FilesInv
    BY FilesInvStart
  <1>2. FilesInv /\ [FilesNext]_filesvars => FilesInv'
    BY FilesInvStep
  <1>3. FilesInv /\ [FilesNext]_filesvars => [\A b \in Bufs : KeepsBytes(b)]_filesvars
    BY KeepsStep
  <1>4. FilesSpec => [][\A b \in Bufs : KeepsBytes(b)]_filesvars
    BY <1>1, <1>2, <1>3, PTL DEF FilesSpec
  <1> QED BY <1>4 DEF ResizeKeeps, KeepsBytes

-----------------------------------------------------------------------------
(* Console                                                                 *)

Texts == [by : Loggers \cup {Nobody}, n : Nat]
Spots == {"idle", "insert", "create", "put", "print", "call", "null_call"}

\* The values the variables take.
Cons  == [enable : BOOLEAN, buf : Loggers \cup {Nobody}, data : [Loggers -> [Loggers -> Seq(Texts)]],
          live : SUBSET Loggers, cb : BOOLEAN, out : BOOLEAN,
          fetcher : Fetchers \cup {Nobody}, mutex : BOOLEAN]
Lgs   == [at : Spots, buf : Loggers \cup {Nobody}, text : Texts, tls : Texts, n : Nat]
Fts   == [at : {"idle", "claim", "read", "return"}, of : Loggers \cup {Nobody}]
Seens == [taken : [Loggers -> Seq(Texts)], fetched : [Loggers -> Seq(Texts)],
          told : SUBSET [text : Texts, tls : Texts],
          shown : SUBSET Texts, crossed : BOOLEAN]

Known == con \in Cons /\ lg \in [Loggers -> Lgs] /\ ft \in [Fetchers -> Fts] /\ seen \in Seens

\* One buffer is left, and every thread about to put something has that one.
OneBuffer ==
    /\ con.live \subseteq {con.buf}
    /\ \A t \in Loggers : lg[t].at = "put" => con.buf # Nobody /\ lg[t].buf = con.buf
    /\ con.buf = Nobody => \A b, u \in Loggers : con.data[b][u] = <<>>

\* What the buffer still owes of a thread, and who may ask for it.
Owes(u) ==
    /\ Lent(u) => con.buf # Nobody /\ con.data[con.buf][u] # <<>>
    /\ seen.taken[u] = seen.fetched[u] \o Left(u)
Fetching ==
    ~seen.crossed =>
        /\ \A t \in Fetchers : ft[t].at \in {"read", "return"} => con.fetcher = t
        /\ \A u \in Loggers : Owes(u)

\* The last entry a thread began.
Own(t)  == [by |-> t, n |-> lg[t].n]
TakenOf(t) == {seen.taken[t][i] : i \in DOMAIN seen.taken[t]}
Taken   == UNION {TakenOf(t) : t \in Loggers}
Printed == (seen.shown \cup {c.text : c \in seen.told}) \ {NoEntry}

\* An entry goes one way: the one in hand has gone nowhere yet.
Apart ==
    /\ Taken \cap Printed = {}
    /\ \A e \in Taken \cup Printed : e.by \in Loggers /\ e.n <= lg[e.by].n
    /\ \A t \in Loggers : lg[t].at \in {"insert", "create", "put"} =>
          lg[t].text = Own(t) /\ Own(t) \notin Taken \cup Printed
    /\ \A t \in Loggers : lg[t].at \in {"print", "call"} /\ lg[t].text # NoEntry =>
          lg[t].text = Own(t) /\ lg[t].tls = Own(t) /\ Own(t) \notin Taken
    /\ \A c \in seen.told : c.text # NoEntry => c.tls = c.text

ConInv == Known /\ OneBuffer /\ Fetching /\ Apart

-----------------------------------------------------------------------------
(* The first state satisfies the invariant. *)
LEMMA InitHolds == ConInit => ConInv
<1> SUFFICES ASSUME ConInit PROVE ConInv OBVIOUS
<1>1. Known
  <2>1. NoEntry \in Texts BY DEF NoEntry, Texts
  <2>2. Logger0 \in Lgs BY <2>1 DEF Logger0, Lgs, Spots
  <2>3. [t \in Loggers |-> <<>>] \in [Loggers -> Seq(Texts)] OBVIOUS
  <2>8. [b \in Loggers |-> [t \in Loggers |-> <<>>]] \in [Loggers -> [Loggers -> Seq(Texts)]] BY <2>3
  <2>4. con \in Cons BY <2>8 DEF ConInit, Cons
  <2>5. seen \in Seens BY <2>3 DEF ConInit, Seens
  <2>6. lg \in [Loggers -> Lgs] BY <2>2 DEF ConInit
  <2>7. ft \in [Fetchers -> Fts] BY DEF ConInit, Fts, Fetcher0
  <2> QED BY <2>4, <2>5, <2>6, <2>7 DEF Known
<1>2. OneBuffer BY DEF OneBuffer, ConInit, Logger0
<1>3. \A u \in Loggers : ~Lent(u) BY DEF Lent, ConInit, Fetcher0
<1>4. Fetching
  <2>1. \A u \in Loggers : Left(u) = <<>> BY DEF Left, ConInit
  <2>2. <<>> \o <<>> = <<>> OBVIOUS
  <2>3. \A u \in Loggers : seen.taken[u] = <<>> /\ seen.fetched[u] = <<>> BY DEF ConInit
  <2>4. \A u \in Loggers : Owes(u) BY <1>3, <2>1, <2>2, <2>3 DEF Owes
  <2> QED BY <2>4 DEF Fetching, ConInit, Fetcher0
<1>5. Apart
  <2>1. Taken = {} BY DEF Taken, TakenOf, ConInit
  <2>2. Printed = {} BY DEF Printed, ConInit
  <2> QED BY <2>1, <2>2 DEF Apart, ConInit, Logger0
<1> QED BY <1>1, <1>2, <1>4, <1>5 DEF ConInv

(* Each action keeps every variable in the set of its values. *)
LEMMA KnownStep == ASSUME Known, ConNext PROVE Known'
<1> USE ConsoleAssumption
<1>0. /\ con \in Cons /\ lg \in [Loggers -> Lgs] /\ ft \in [Fetchers -> Fts] /\ seen \in Seens
  BY DEF Known
<1>n. NoEntry \in Texts BY DEF NoEntry, Texts
<1> SUFFICES con' \in Cons /\ lg' \in [Loggers -> Lgs] /\ ft' \in [Fetchers -> Fts] /\ seen' \in Seens
  BY DEF Known
<1>1. ASSUME NEW t \in Loggers, console_log(t) PROVE con' \in Cons /\ lg' \in [Loggers -> Lgs] /\ ft' \in [Fetchers -> Fts] /\ seen' \in Seens
  <2>1. [by |-> t, n |-> lg[t].n + 1] \in Texts BY <1>0 DEF Texts, Lgs
  <2>2. lg[t].n + 1 \in Nat BY <1>0 DEF Lgs
  <2>3. lg' \in [Loggers -> Lgs] BY <1>0, <1>1, <2>1, <2>2 DEF console_log, Lgs, Spots
  <2> QED BY <1>0, <1>1, <2>3 DEF console_log
<1>2. ASSUME NEW t \in Loggers, insert_entry(t) PROVE con' \in Cons /\ lg' \in [Loggers -> Lgs] /\ ft' \in [Fetchers -> Fts] /\ seen' \in Seens
  <2>1. con.buf \in Loggers \cup {Nobody} BY <1>0 DEF Cons
  <2> DEFINE p == IF ~con.enable THEN "idle" ELSE IF con.buf = Nobody THEN "create" ELSE "put"
  <2>3. p \in Spots BY DEF Spots
  <2>4. lg' = [lg EXCEPT ![t].at = p, ![t].buf = con.buf] BY <1>2 DEF insert_entry
  <2> HIDE DEF p
  <2>2. lg' \in [Loggers -> Lgs] BY <1>0, <2>1, <2>3, <2>4 DEF Lgs
  <2> QED BY <1>0, <1>2, <2>2 DEF insert_entry
<1>3. ASSUME NEW t \in Loggers, create_buffer(t) PROVE con' \in Cons /\ lg' \in [Loggers -> Lgs] /\ ft' \in [Fetchers -> Fts] /\ seen' \in Seens
  <2>1. con' \in Cons BY <1>0, <1>3 DEF create_buffer, Cons
  <2>2. con'.buf \in Loggers \cup {Nobody} BY <2>1 DEF Cons
  <2>4. lg' = [lg EXCEPT ![t].at = "put", ![t].buf = con'.buf] BY <1>3 DEF create_buffer
  <2>5. "put" \in Spots BY DEF Spots
  <2>3. lg' \in [Loggers -> Lgs] BY <1>0, <2>2, <2>4, <2>5 DEF Lgs
  <2> QED BY <1>0, <1>3, <2>1, <2>3 DEF create_buffer
<1>4. ASSUME NEW t \in Loggers, put_entry(t) PROVE con' \in Cons /\ lg' \in [Loggers -> Lgs] /\ ft' \in [Fetchers -> Fts] /\ seen' \in Seens
  <2>1. lg' \in [Loggers -> Lgs] BY <1>0, <1>4 DEF put_entry, Step, Lgs, Spots
  <2>2. lg[t].text \in Texts BY <1>0 DEF Lgs
  <2>0. \A s \in Seq(Texts) : Append(s, lg[t].text) \in Seq(Texts) BY <2>2
  <2>4. seen' \in Seens
    <3> DEFINE z == [seen.taken EXCEPT ![t] = Append(@, lg[t].text)]
    <3>1. seen.taken \in [Loggers -> Seq(Texts)] BY <1>0 DEF Seens
    <3>2. z \in [Loggers -> Seq(Texts)] BY <2>0, <3>1
    <3>3. seen' = seen \/ seen' = [seen EXCEPT !.taken = z] BY <1>0, <1>4 DEF put_entry, Seens
    <3> HIDE DEF z
    <3> QED BY <1>0, <3>2, <3>3 DEF Seens
  <2>5. con' \in Cons
    <3> DEFINE r == [con.data[lg[t].buf] EXCEPT ![t] = Append(@, lg[t].text)]
               d == [con.data EXCEPT ![lg[t].buf] = r]
    <3>3. con.data \in [Loggers -> [Loggers -> Seq(Texts)]] BY <1>0 DEF Cons
    <3>4. lg[t].buf \in Loggers => r \in [Loggers -> Seq(Texts)] BY <2>0, <3>3
    <3>2. con' = con \/ con' = [con EXCEPT !.data = d] BY <1>0, <1>4 DEF put_entry, Cons
    <3> HIDE DEF r
    <3>1. d \in [Loggers -> [Loggers -> Seq(Texts)]] BY <3>3, <3>4
    <3> HIDE DEF d
    <3> QED BY <1>0, <3>1, <3>2 DEF Cons
  <2> QED BY <1>0, <1>4, <2>1, <2>4, <2>5 DEF put_entry
<1>5. ASSUME NEW t \in Loggers, console_note(t) PROVE con' \in Cons /\ lg' \in [Loggers -> Lgs] /\ ft' \in [Fetchers -> Fts] /\ seen' \in Seens
  <2>1. lg' = [lg EXCEPT ![t].at = "print", ![t].text = NoEntry] BY <1>5 DEF console_note
  <2>2. "print" \in Spots BY DEF Spots
  <2>3. lg' \in [Loggers -> Lgs] BY <1>0, <1>n, <2>1, <2>2 DEF Lgs
  <2> QED BY <1>0, <1>5, <2>3 DEF console_note
<1>6. ASSUME NEW t \in Loggers, print(t) PROVE con' \in Cons /\ lg' \in [Loggers -> Lgs] /\ ft' \in [Fetchers -> Fts] /\ seen' \in Seens
  <2>1. lg' \in [Loggers -> Lgs] BY <1>0, <1>6 DEF print, Step, Lgs, Spots
  <2>2. seen.shown \cup {lg[t].text} \in SUBSET Texts BY <1>0 DEF Lgs, Seens
  <2>3. seen' \in Seens BY <1>0, <1>6, <2>2 DEF print, Seens
  <2> QED BY <1>0, <1>6, <2>1, <2>3 DEF print
<1>7. ASSUME NEW t \in Loggers, call_back(t) PROVE con' \in Cons /\ lg' \in [Loggers -> Lgs] /\ ft' \in [Fetchers -> Fts] /\ seen' \in Seens
  <2>4. PICK p \in Spots : lg' = [lg EXCEPT ![t].at = p, ![t].tls = NoEntry]
    BY <1>7 DEF call_back, Spots
  <2>1. lg' \in [Loggers -> Lgs] BY <1>0, <1>n, <2>4 DEF Lgs
  <2>2. seen.told \cup {[text |-> lg[t].text, tls |-> lg[t].tls]} \in SUBSET [text : Texts, tls : Texts]
    BY <1>0 DEF Lgs, Seens
  <2>3. seen' \in Seens BY <1>0, <1>7, <2>2 DEF call_back, Seens
  <2> QED BY <1>0, <1>7, <2>1, <2>3 DEF call_back
<1>8. ASSUME NEW t \in Fetchers, fetch(t) PROVE con' \in Cons /\ lg' \in [Loggers -> Lgs] /\ ft' \in [Fetchers -> Fts] /\ seen' \in Seens
  BY <1>0, <1>8 DEF fetch, Fts
<1>9. ASSUME NEW t \in Fetchers, claim(t) PROVE con' \in Cons /\ lg' \in [Loggers -> Lgs] /\ ft' \in [Fetchers -> Fts] /\ seen' \in Seens
  <2>1. con' \in Cons BY <1>0, <1>9 DEF claim, Cons
  <2>2. seen' \in Seens BY <1>0, <1>9 DEF claim, Seens
  <2> QED BY <1>0, <1>9, <2>1, <2>2 DEF claim, Fts
<1>10. ASSUME NEW t \in Fetchers, read_entry(t) PROVE con' \in Cons /\ lg' \in [Loggers -> Lgs] /\ ft' \in [Fetchers -> Fts] /\ seen' \in Seens
  <2>1. ft' \in [Fetchers -> Fts] BY <1>0, <1>10 DEF read_entry, Fts, Fetcher0
  <2>2. seen' \in Seens
    <3>1. ASSUME NEW u \in Loggers, con.buf # Nobody, con.data[con.buf][u] # <<>>,
                 seen' = [seen EXCEPT !.fetched[u] = Append(@, Head(con.data[con.buf][u]))]
          PROVE  seen' \in Seens
      <4> DEFINE h == Head(con.data[con.buf][u])
                 z == [seen.fetched EXCEPT ![u] = Append(@, h)]
      <4>1. con.data[con.buf][u] \in Seq(Texts) BY <1>0, <3>1 DEF Cons
      <4>2. h \in Texts BY <4>1, <3>1
      <4>3. \A s \in Seq(Texts) : Append(s, h) \in Seq(Texts) BY <4>2
      <4>4. seen' = [seen EXCEPT !.fetched = z] BY <1>0, <3>1 DEF Seens
      <4>5. seen.fetched \in [Loggers -> Seq(Texts)] BY <1>0 DEF Seens
      <4> HIDE DEF h
      <4>6. z \in [Loggers -> Seq(Texts)] BY <4>3, <4>5
      <4> HIDE DEF z
      <4> QED BY <1>0, <4>4, <4>6 DEF Seens
    <3>2. CASE seen' = seen BY <1>0, <3>2
    <3> QED BY <1>10, <3>1, <3>2 DEF read_entry
  <2> QED BY <1>0, <1>10, <2>1, <2>2 DEF read_entry
<1>11. ASSUME NEW t \in Fetchers, return_entry(t) PROVE con' \in Cons /\ lg' \in [Loggers -> Lgs] /\ ft' \in [Fetchers -> Fts] /\ seen' \in Seens
  <2>1. ft' \in [Fetchers -> Fts] BY <1>0, <1>11 DEF return_entry, Fts, Fetcher0
  <2>2. con' \in Cons
    <3> DEFINE r == [con.data[con.buf] EXCEPT ![ft[t].of] = IF @ = <<>> THEN @ ELSE Tail(@)]
               d == [con.data EXCEPT ![con.buf] = r]
    <3>1. \A s \in Seq(Texts) : (IF s = <<>> THEN s ELSE Tail(s)) \in Seq(Texts) OBVIOUS
    <3>4. con.data \in [Loggers -> [Loggers -> Seq(Texts)]] BY <1>0 DEF Cons
    <3>5. con.buf \in Loggers => r \in [Loggers -> Seq(Texts)] BY <3>1, <3>4
    <3>3. con' = [con EXCEPT !.data = d] BY <1>0, <1>11 DEF return_entry, Cons
    <3> HIDE DEF r
    <3>2. d \in [Loggers -> [Loggers -> Seq(Texts)]] BY <3>4, <3>5
    <3> HIDE DEF d
    <3> QED BY <1>0, <3>2, <3>3 DEF Cons
  <2> QED BY <1>0, <1>11, <2>1, <2>2 DEF return_entry
<1>12. ASSUME register_callback \/ set_console_output_callback \/ set_enable
       PROVE con' \in Cons /\ lg' \in [Loggers -> Lgs] /\ ft' \in [Fetchers -> Fts] /\ seen' \in Seens
  <2>2. CASE register_callback BY <1>0, <2>2 DEF register_callback, Cons
  <2>3. CASE set_console_output_callback BY <1>0, <2>3 DEF set_console_output_callback, Cons
  <2>4. CASE set_enable BY <1>0, <2>4 DEF set_enable, Cons
  <2> QED BY <1>12, <2>2, <2>3, <2>4
<1> QED BY <1>1, <1>2, <1>3, <1>4, <1>5, <1>6, <1>7, <1>8, <1>9, <1>10, <1>11, <1>12 DEF ConNext

-----------------------------------------------------------------------------
(* One buffer.  Only create_buffer names a buffer, and only the first one    *)
(* does; a thread gets to put through insert, which read the name, or        *)
(* through create_buffer.                                                    *)
LEMMA OneBufferStep == ASSUME Known, OneBuffer, ConNext PROVE OneBuffer'
<1> USE ConsoleAssumption
<1>0. /\ con \in Cons /\ lg \in [Loggers -> Lgs] /\ ft \in [Fetchers -> Fts] /\ seen \in Seens
  BY DEF Known
<1>s. ASSUME con'.live = con.live, con'.buf = con.buf,
             con.buf = Nobody => con'.data = con.data,
             \A t \in Loggers : lg'[t].at = "put" =>
                \/ lg[t].at = "put" /\ lg'[t].buf = lg[t].buf
                \/ con.buf # Nobody /\ lg'[t].buf = con.buf
      PROVE OneBuffer'
  BY <1>s DEF OneBuffer
<1>1. ASSUME NEW t \in Loggers, console_log(t) PROVE OneBuffer'
  <2>1. \A u \in Loggers : lg'[u].at = "put" => lg'[u] = lg[u] BY <1>0, <1>1 DEF console_log, Lgs
  <2> QED BY <1>1, <1>s, <2>1 DEF console_log
<1>2. ASSUME NEW t \in Loggers, insert_entry(t) PROVE OneBuffer'
  <2>1. lg'[t].at = "put" => con.buf # Nobody /\ lg'[t].buf = con.buf BY <1>0, <1>2 DEF insert_entry, Lgs
  <2>2. \A u \in Loggers \ {t} : lg'[u] = lg[u] BY <1>0, <1>2 DEF insert_entry
  <2> QED BY <1>2, <1>s, <2>1, <2>2 DEF insert_entry
<1>3. ASSUME NEW t \in Loggers, create_buffer(t) PROVE OneBuffer'
  <2>1. lg'[t].buf = con'.buf BY <1>0, <1>3 DEF create_buffer, Lgs
  <2>2. \A u \in Loggers \ {t} : lg'[u] = lg[u] BY <1>0, <1>3 DEF create_buffer
  <2>3. con'.data = con.data BY <1>0, <1>3 DEF create_buffer, Cons
  <2>4. CASE con.buf = Nobody
    <3>1. con'.buf = t /\ con'.live = {t} BY <1>0, <1>3, <2>4 DEF create_buffer, Cons
    <3>2. \A u \in Loggers : lg[u].at # "put" BY <2>4 DEF OneBuffer
    <3> QED BY <2>1, <2>2, <2>3, <3>1, <3>2 DEF OneBuffer
  <2>5. CASE con.buf # Nobody
    <3>1. con'.buf = con.buf /\ con'.live = con.live BY <1>0, <1>3, <2>5 DEF create_buffer, Cons
    <3> QED BY <1>s, <2>1, <2>2, <2>3, <2>5, <3>1
  <2> QED BY <2>4, <2>5
<1>4. ASSUME NEW t \in Loggers, put_entry(t) PROVE OneBuffer'
  <2>1. \A u \in Loggers : lg'[u].at = "put" => lg'[u] = lg[u] BY <1>0, <1>4 DEF put_entry, Step, Lgs
  <2>2. con'.live = con.live /\ con'.buf = con.buf BY <1>0, <1>4 DEF put_entry, Cons
  <2>3. con.buf # Nobody BY <1>4 DEF put_entry, OneBuffer
  <2> QED BY <1>s, <2>1, <2>2, <2>3
<1>5. ASSUME NEW t \in Loggers, console_note(t) PROVE OneBuffer'
  <2>1. \A u \in Loggers : lg'[u].at = "put" => lg'[u] = lg[u] BY <1>0, <1>5 DEF console_note, Lgs
  <2> QED BY <1>5, <1>s, <2>1 DEF console_note
<1>6. ASSUME NEW t \in Loggers, print(t) PROVE OneBuffer'
  <2>1. \A u \in Loggers : lg'[u].at = "put" => lg'[u] = lg[u] BY <1>0, <1>6 DEF print, Step, Lgs
  <2> QED BY <1>6, <1>s, <2>1 DEF print
<1>7. ASSUME NEW t \in Loggers, call_back(t) PROVE OneBuffer'
  <2>1. PICK p \in {"idle", "null_call"} : lg' = [lg EXCEPT ![t].at = p, ![t].tls = NoEntry]
    BY <1>7 DEF call_back
  <2>2. \A u \in Loggers : lg'[u].at = "put" => lg'[u] = lg[u] BY <1>0, <2>1 DEF Lgs
  <2>3. con' = con BY <1>7 DEF call_back
  <2> QED BY <1>s, <2>2, <2>3
<1>8. ASSUME NEW t \in Fetchers, fetch(t) \/ read_entry(t) PROVE OneBuffer'
  BY <1>8, <1>s DEF fetch, read_entry
<1>9. ASSUME NEW t \in Fetchers, claim(t) PROVE OneBuffer'
  <2>1. con'.live = con.live /\ con'.buf = con.buf /\ con'.data = con.data BY <1>0, <1>9 DEF claim, Cons
  <2> QED BY <1>9, <1>s, <2>1 DEF claim
<1>10. ASSUME NEW t \in Fetchers, return_entry(t) PROVE OneBuffer'
  <2>1. con'.live = con.live /\ con'.buf = con.buf BY <1>0, <1>10 DEF return_entry, Cons
  <2>2. ASSUME con.buf = Nobody PROVE con'.data = con.data
    <3>1. con'.data = [con.data EXCEPT ![con.buf][ft[t].of] = IF @ = <<>> THEN @ ELSE Tail(@)]
      BY <1>0, <1>10 DEF return_entry, Cons
    <3>2. con.data \in [Loggers -> [Loggers -> Seq(Texts)]] /\ con.buf \notin Loggers BY <1>0, <2>2 DEF Cons
    <3> QED BY <3>1, <3>2
  <2>3. lg' = lg BY <1>10 DEF return_entry
  <2> QED BY <1>s, <2>1, <2>2, <2>3
<1>11. ASSUME register_callback \/ set_console_output_callback \/ set_enable PROVE OneBuffer'
  <2>1. con'.live = con.live /\ con'.buf = con.buf /\ con'.data = con.data
    BY <1>0, <1>11 DEF register_callback, set_console_output_callback, set_enable, Cons
  <2> QED BY <1>11, <1>s, <2>1 DEF register_callback, set_console_output_callback, set_enable
<1> QED BY <1>1, <1>2, <1>3, <1>4, <1>5, <1>6, <1>7, <1>8, <1>9, <1>10, <1>11 DEF ConNext
-----------------------------------------------------------------------------
\* The first element is handed over and the rest is owed.
LEMMA HandOver ==
  ASSUME NEW S, NEW f \in Seq(S), NEW d \in Seq(S), d # <<>>
  PROVE  f \o d = Append(f, Head(d)) \o Tail(d)
OBVIOUS

\* An element more is owed at the end.
LEMMA OweMore ==
  ASSUME NEW S, NEW f \in Seq(S), NEW d \in Seq(S), NEW x \in S
  PROVE  f \o Append(d, x) = Append(f \o d, x)
OBVIOUS

\* Adding at the end of what is not empty leaves the head alone.
LEMMA TailOfMore ==
  ASSUME NEW S, NEW d \in Seq(S), d # <<>>, NEW x \in S
  PROVE  Tail(Append(d, x)) = Append(Tail(d), x) /\ Append(d, x) # <<>>
OBVIOUS

\* There is something after adding.
LEMMA NotEmptyAfter ==
  ASSUME NEW S, NEW d \in Seq(S), NEW x \in S
  PROVE  Append(d, x) # <<>>
<1>1. Len(Append(d, x)) = Len(d) + 1 /\ Len(d) \in Nat OBVIOUS
<1>2. Len(<<>>) = 0 OBVIOUS
<1> QED BY <1>1, <1>2

(* While no two threads passed the fetching test together, what was taken of *)
(* a thread is what was fetched of it and then what is left.                 *)
LEMMA FetchingStep == ASSUME Known, OneBuffer, Fetching, ConNext PROVE Fetching'
<1> USE ConsoleAssumption
<1>0. /\ con \in Cons /\ lg \in [Loggers -> Lgs] /\ ft \in [Fetchers -> Fts] /\ seen \in Seens
  BY DEF Known
<1>s. ASSUME con'.buf = con.buf, con'.data = con.data, con'.fetcher = con.fetcher, ft' = ft,
             seen'.taken = seen.taken, seen'.fetched = seen.fetched, seen'.crossed = seen.crossed
      PROVE Fetching'
  <2>1. \A u \in Loggers : Lent(u)' <=> Lent(u) BY <1>s DEF Lent
  <2>2. \A u \in Loggers : Left(u)' = Left(u) BY <1>s, <2>1 DEF Left
  <2> QED BY <1>s, <2>1, <2>2 DEF Fetching, Owes
\* What is lent of a thread, and the thread's part of the buffer, are left alone.
<1>k. ASSUME NEW u \in Loggers, con'.buf = con.buf, con.buf # Nobody => con'.data[con.buf][u] = con.data[con.buf][u],
             Lent(u)' <=> Lent(u), seen'.taken[u] = seen.taken[u], seen'.fetched[u] = seen.fetched[u], Owes(u)
      PROVE Owes(u)'
  BY <1>k DEF Owes, Left
<1>1. ASSUME NEW t \in Loggers, console_log(t) \/ insert_entry(t) \/ console_note(t) PROVE Fetching'
  BY <1>1, <1>s DEF console_log, insert_entry, console_note
<1>2. ASSUME NEW t \in Loggers, print(t) PROVE Fetching'
  <2>1. seen'.taken = seen.taken /\ seen'.fetched = seen.fetched /\ seen'.crossed = seen.crossed
    BY <1>0, <1>2 DEF print, Seens
  <2> QED BY <1>2, <1>s, <2>1 DEF print
<1>3. ASSUME NEW t \in Loggers, call_back(t) PROVE Fetching'
  <2>1. seen'.taken = seen.taken /\ seen'.fetched = seen.fetched /\ seen'.crossed = seen.crossed
    BY <1>0, <1>3 DEF call_back, Seens
  <2>2. con' = con /\ ft' = ft BY <1>3 DEF call_back
  <2> QED BY <1>s, <2>1, <2>2
<1>4. ASSUME NEW t \in Loggers, create_buffer(t) PROVE Fetching'
  <2>1. con'.data = con.data /\ con'.fetcher = con.fetcher BY <1>0, <1>4 DEF create_buffer, Cons
  <2>2. ft' = ft /\ seen' = seen BY <1>4 DEF create_buffer
  <2>3. CASE con.buf # Nobody
    <3>1. con'.buf = con.buf BY <1>0, <1>4, <2>3 DEF create_buffer, Cons
    <3> QED BY <1>s, <2>1, <2>2, <3>1
  <2>4. CASE con.buf = Nobody
    <3>1. con'.buf = t BY <1>0, <1>4, <2>4 DEF create_buffer, Cons
    <3> SUFFICES ASSUME ~seen'.crossed, NEW u \in Loggers PROVE Owes(u)'
      BY <2>1, <2>2 DEF Fetching
    <3>2. con'.data[con'.buf][u] = <<>> BY <2>1, <2>4, <3>1 DEF OneBuffer
    <3>0. Owes(u) BY <2>2 DEF Fetching
    <3>3. ~Lent(u) BY <2>4, <3>0 DEF Owes
    <3>4. ~Lent(u)' BY <2>2, <3>3 DEF Lent
    <3>5. Left(u) = <<>> BY <2>4 DEF Left
    <3>6. Left(u)' = <<>> BY <3>1, <3>2, <3>4 DEF Left
    <3> QED BY <2>2, <3>0, <3>4, <3>5, <3>6 DEF Owes
  <2> QED BY <2>3, <2>4
<1>5. ASSUME NEW t \in Loggers, put_entry(t) PROVE Fetching'
  <2>1. ft' = ft BY <1>5 DEF put_entry
  <2>2. CASE con' = con /\ seen' = seen BY <1>s, <2>1, <2>2
  <2>3. CASE /\ con'  = [con EXCEPT !.data[lg[t].buf][t] = Append(@, lg[t].text)]
             /\ seen' = [seen EXCEPT !.taken[t] = Append(@, lg[t].text)]
    <3> DEFINE b == con.buf
               d == con.data[b][t]
               x == lg[t].text
               f == seen.fetched[t]
    <3>1. b # Nobody /\ lg[t].buf = b BY <1>5 DEF put_entry, OneBuffer
    <3>2. b \in Loggers /\ d \in Seq(Texts) /\ x \in Texts BY <1>0, <3>1 DEF Cons, Lgs
    <3>3. con'.buf = b /\ con'.fetcher = con.fetcher BY <1>0, <2>3 DEF Cons
    <3>a. con'.data = [con.data EXCEPT ![b][t] = Append(@, x)] BY <1>0, <2>3, <3>1 DEF Cons
    <3>b. con.data \in [Loggers -> [Loggers -> Seq(Texts)]] BY <1>0 DEF Cons
    <3>4. con'.data[b][t] = Append(d, x) BY <3>2, <3>a, <3>b
    <3>c. \A u \in Loggers \ {t} : con'.data[b][u] = con.data[b][u] BY <3>2, <3>a, <3>b
    <3>5. seen'.taken = [seen.taken EXCEPT ![t] = Append(@, x)] /\ seen'.fetched = seen.fetched /\ seen'.crossed = seen.crossed
      BY <1>0, <2>3 DEF Seens
    <3>d. seen.taken \in [Loggers -> Seq(Texts)] BY <1>0 DEF Seens
    <3>e. seen'.taken[t] = Append(seen.taken[t], x) /\ \A u \in Loggers \ {t} : seen'.taken[u] = seen.taken[u]
      BY <3>5, <3>d
    <3>6. f \in Seq(Texts) BY <1>0 DEF Seens
    <3>7. \A u \in Loggers : Lent(u)' <=> Lent(u) BY <2>1 DEF Lent
    <3>f. ASSUME ~seen'.crossed, NEW u \in Loggers \ {t} PROVE Owes(u)'
      <4>1. Owes(u) BY <3>5, <3>f DEF Fetching
      <4> QED BY <1>k, <3>3, <3>5, <3>7, <3>c, <3>e, <4>1
    <3>g. ASSUME ~seen'.crossed PROVE Owes(t)'
      <4>0. Owes(t) BY <3>5, <3>g DEF Fetching
      <4>1. seen.taken[t] = f \o Left(t) /\ (Lent(t) => d # <<>>) BY <4>0 DEF Owes
      <4>2. Left(t) = IF Lent(t) THEN Tail(d) ELSE d BY <3>1 DEF Left
      <4>3. Left(t)' = IF Lent(t)' THEN Tail(con'.data[b][t]) ELSE con'.data[b][t] BY <3>1, <3>3 DEF Left
      <4>9. seen'.taken[t] = Append(f \o Left(t), x) /\ seen'.fetched[t] = f BY <3>5, <3>e, <4>1
      <4>8. Lent(t)' <=> Lent(t) BY <3>7
      <4>10. Append(d, x) # <<>> BY <3>2, NotEmptyAfter
      <4>7. SUFFICES seen'.taken[t] = seen'.fetched[t] \o Left(t)'
        BY <3>1, <3>3, <3>4, <4>10 DEF Owes
      <4> HIDE DEF b, d, x, f
      <4>5. CASE Lent(t)
        <5>1. d # <<>> BY <4>1, <4>5
        <5>2. Tail(d) \in Seq(Texts) BY <3>2, <5>1
        <5>3. Left(t)' = Append(Tail(d), x) BY <3>2, <3>4, <4>3, <4>5, <4>8, <5>1, TailOfMore
        <5>4. f \o Append(Tail(d), x) = Append(f \o Tail(d), x) BY <3>2, <3>6, <5>2, OweMore
        <5> QED BY <4>2, <4>5, <4>9, <5>3, <5>4
      <4>6. CASE ~Lent(t)
        <5>1. f \o Append(d, x) = Append(f \o d, x) BY <3>2, <3>6, OweMore
        <5> QED BY <3>4, <4>2, <4>3, <4>6, <4>8, <4>9, <5>1
      <4> QED BY <4>5, <4>6
    <3>h. ~seen'.crossed => \A u \in Loggers : Owes(u)' BY <3>f, <3>g
    <3>i. ~seen'.crossed => \A u \in Fetchers : ft'[u].at \in {"read", "return"} => con'.fetcher = u
      BY <2>1, <3>3, <3>5 DEF Fetching
    <3> QED BY <3>h, <3>i DEF Fetching
  <2> QED BY <1>5, <2>2, <2>3 DEF put_entry
<1>6. ASSUME NEW t \in Fetchers, fetch(t) PROVE Fetching'
  <2>1. con' = con /\ seen' = seen BY <1>6 DEF fetch
  <2>4. ft'[t].at = "read" => con.fetcher = t BY <1>0, <1>6 DEF fetch, Fts
  <2>5. ft'[t].at \in {"claim", "read"} /\ ft[t].at = "idle" BY <1>0, <1>6 DEF fetch, Fts
  <2>6. \A u \in Fetchers \ {t} : ft'[u] = ft[u] BY <1>0, <1>6 DEF fetch
  <2>2. \A u \in Loggers : Lent(u)' <=> Lent(u) BY <2>5, <2>6 DEF Lent
  <2>3. \A u \in Loggers : Left(u)' = Left(u) BY <2>1, <2>2 DEF Left
  <2>7. \A u \in Loggers : Owes(u) => Owes(u)' BY <2>1, <2>2, <2>3 DEF Owes
  <2> QED BY <2>1, <2>4, <2>5, <2>6, <2>7 DEF Fetching
<1>7. ASSUME NEW t \in Fetchers, claim(t) PROVE Fetching'
  <2>1. con'.buf = con.buf /\ con'.data = con.data /\ con'.fetcher = t BY <1>0, <1>7 DEF claim, Cons
  <2>2. seen'.taken = seen.taken /\ seen'.fetched = seen.fetched
        /\ (~seen'.crossed => ~seen.crossed /\ con.fetcher = Nobody)
    BY <1>0, <1>7 DEF claim, Seens
  <2>5. \A u \in Fetchers \ {t} : ft'[u] = ft[u] BY <1>0, <1>7 DEF claim
  <2>7. ft[t].at = "claim" /\ ft'[t].at = "read" BY <1>0, <1>7 DEF claim, Fts
  <2>3. \A u \in Loggers : Lent(u)' <=> Lent(u) BY <2>5, <2>7 DEF Lent
  <2>4. \A u \in Loggers : Left(u)' = Left(u) BY <2>1, <2>3 DEF Left
  <2>8. \A u \in Loggers : Owes(u) => Owes(u)' BY <2>1, <2>2, <2>3, <2>4 DEF Owes
  <2>6. ~seen'.crossed => \A u \in Fetchers : ft[u].at \notin {"read", "return"} BY <2>2 DEF Fetching
  <2> QED BY <2>1, <2>2, <2>5, <2>6, <2>8 DEF Fetching
<1>8. ASSUME NEW t \in Fetchers, read_entry(t) PROVE Fetching'
  <2>1. con' = con BY <1>8 DEF read_entry
  <2>2. \A u \in Fetchers \ {t} : ft'[u] = ft[u] BY <1>0, <1>8 DEF read_entry
  <2>3. ft[t].at = "read" BY <1>8 DEF read_entry
  <2>4. ASSUME NEW k \in Loggers, con.buf # Nobody, con.data[con.buf][k] # <<>>,
               ft' = [ft EXCEPT ![t] = [at |-> "return", of |-> k]],
               seen' = [seen EXCEPT !.fetched[k] = Append(@, Head(con.data[con.buf][k]))]
        PROVE  Fetching'
    <3> DEFINE d == con.data[con.buf][k]
    <3>0. seen.fetched \in [Loggers -> Seq(Texts)] BY <1>0 DEF Seens
    <3>1. seen'.taken = seen.taken /\ seen'.fetched = [seen.fetched EXCEPT ![k] = Append(@, Head(d))] /\ seen'.crossed = seen.crossed
      BY <1>0, <2>4 DEF Seens
    <3>a. seen'.fetched[k] = Append(seen.fetched[k], Head(d)) /\ \A u \in Loggers \ {k} : seen'.fetched[u] = seen.fetched[u]
      BY <3>0, <3>1
    <3>2. ft'[t].at = "return" /\ ft'[t].of = k BY <1>0, <2>4
    <3>3. Lent(k)' BY <3>2 DEF Lent
    <3>b. \A u \in Loggers \ {k} : Lent(u)' <=> Lent(u) BY <2>2, <2>3, <3>2 DEF Lent
    <3> SUFFICES ASSUME ~seen'.crossed
                 PROVE  /\ \A u \in Fetchers : ft'[u].at \in {"read", "return"} => con'.fetcher = u
                        /\ \A u \in Loggers : Owes(u)'
      BY DEF Fetching
    <3>4. con.fetcher = t /\ \A u \in Fetchers \ {t} : ft[u].at \notin {"read", "return"} BY <2>3, <3>1 DEF Fetching
    <3>5. ~Lent(k) BY <2>3, <3>4 DEF Lent
    <3>6. Left(k) = d BY <2>4, <3>5 DEF Left
    <3>7. Left(k)' = Tail(d) BY <2>1, <2>4, <3>3 DEF Left
    <3>8. d \in Seq(Texts) /\ seen.fetched[k] \in Seq(Texts) BY <1>0, <2>4, <3>0 DEF Cons
    <3>9. seen.fetched[k] \o d = Append(seen.fetched[k], Head(d)) \o Tail(d) BY <2>4, <3>8, HandOver
    <3>10. \A u \in Loggers : Owes(u) BY <3>1 DEF Fetching
    <3>11. seen.taken[k] = seen.fetched[k] \o Left(k) BY <3>10 DEF Owes
    <3>12. seen'.taken[k] = seen'.fetched[k] \o Left(k)' BY <3>1, <3>6, <3>7, <3>9, <3>11, <3>a
    <3>13. Owes(k)' BY <2>1, <2>4, <3>12 DEF Owes
    <3>14. \A u \in Loggers \ {k} : Owes(u)' BY <1>k, <2>1, <3>1, <3>10, <3>a, <3>b
    <3> QED BY <2>1, <2>2, <3>4, <3>13, <3>14
  <2>5. ASSUME ft' = [ft EXCEPT ![t] = Fetcher0], seen' = seen PROVE Fetching'
    <3>2. ft'[t].at = "idle" BY <1>0, <2>5 DEF Fetcher0
    <3>3. \A u \in Loggers : Lent(u)' <=> Lent(u) BY <2>2, <2>3, <3>2 DEF Lent
    <3>4. \A u \in Loggers : Owes(u) => Owes(u)' BY <1>k, <2>1, <2>5, <3>3
    <3> QED BY <2>1, <2>2, <2>5, <3>2, <3>4 DEF Fetching
  <2> QED BY <1>8, <2>4, <2>5 DEF read_entry
<1>9. ASSUME NEW t \in Fetchers, return_entry(t) PROVE Fetching'
  <2> DEFINE k == ft[t].of
  <2>1. con'.buf = con.buf /\ con'.fetcher = con.fetcher BY <1>0, <1>9 DEF return_entry, Cons
  <2>2. con'.data = [con.data EXCEPT ![con.buf][k] = IF @ = <<>> THEN @ ELSE Tail(@)]
    BY <1>0, <1>9 DEF return_entry, Cons
  <2>3. \A u \in Fetchers \ {t} : ft'[u] = ft[u] BY <1>0, <1>9 DEF return_entry
  <2>4. ft[t].at = "return" /\ ft'[t].at = "idle" BY <1>0, <1>9 DEF return_entry, Fetcher0
  <2>5. seen' = seen BY <1>9 DEF return_entry
  <2>10. con.data \in [Loggers -> [Loggers -> Seq(Texts)]] /\ con.buf \in Loggers \cup {Nobody} BY <1>0 DEF Cons
  <2> SUFFICES ASSUME ~seen'.crossed
               PROVE  /\ \A u \in Fetchers : ft'[u].at \in {"read", "return"} => con'.fetcher = u
                      /\ \A u \in Loggers : Owes(u)'
    BY DEF Fetching
  <2>6. \A u \in Fetchers \ {t} : ft[u].at \notin {"read", "return"} BY <2>4, <2>5 DEF Fetching
  <2>7. \A u \in Loggers : Lent(u) <=> u = k BY <2>4, <2>6 DEF Lent
  <2>8. \A u \in Loggers : ~Lent(u)' BY <2>3, <2>4, <2>6 DEF Lent
  <2>11. \A u \in Loggers : Owes(u) BY <2>5 DEF Fetching
  <2>12. ASSUME NEW u \in Loggers \ {k} PROVE Owes(u)'
    <3>1. con.buf # Nobody => con'.data[con.buf][u] = con.data[con.buf][u] BY <2>2, <2>10
    <3>2. Lent(u)' <=> Lent(u) BY <2>7, <2>8
    <3> QED BY <1>k, <2>1, <2>5, <2>11, <3>1, <3>2
  <2>13. ASSUME NEW u \in Loggers, u = k PROVE Owes(u)'
    <3>1. Lent(u) BY <2>7, <2>13
    <3>2. Owes(u) BY <2>11
    <3>3. con.buf # Nobody /\ con.data[con.buf][u] # <<>> BY <3>1, <3>2 DEF Owes
    <3>4. con'.data[con.buf][u] = Tail(con.data[con.buf][u]) BY <2>2, <2>10, <2>13, <3>3
    <3>7. ~Lent(u)' BY <2>8
    <3>8. Left(u) = Tail(con.data[con.buf][u]) BY <3>1, <3>3 DEF Left
    <3>9. Left(u)' = con'.data[con.buf][u] BY <2>1, <3>3, <3>7 DEF Left
    <3> QED BY <2>5, <3>2, <3>4, <3>7, <3>8, <3>9 DEF Owes
  <2>14. \A u \in Loggers : Owes(u)' BY <2>12, <2>13
  <2> QED BY <2>1, <2>3, <2>4, <2>5, <2>14 DEF Fetching
<1>10. ASSUME register_callback \/ set_console_output_callback \/ set_enable PROVE Fetching'
  <2>1. con'.buf = con.buf /\ con'.data = con.data /\ con'.fetcher = con.fetcher
    BY <1>0, <1>10 DEF register_callback, set_console_output_callback, set_enable, Cons
  <2> QED BY <1>10, <1>s, <2>1 DEF register_callback, set_console_output_callback, set_enable
<1> QED BY <1>1, <1>2, <1>3, <1>4, <1>5, <1>6, <1>7, <1>8, <1>9, <1>10 DEF ConNext

-----------------------------------------------------------------------------
\* What an append adds to the set of a sequence's elements.
LEMMA OneMore ==
  ASSUME NEW S, NEW s \in Seq(S), NEW x \in S, NEW z \in Seq(S), z = Append(s, x)
  PROVE  {z[i] : i \in DOMAIN z} = {s[i] : i \in DOMAIN s} \cup {x}
<1>1. DOMAIN s = 1 .. Len(s) /\ DOMAIN z = 1 .. Len(s) + 1 /\ Len(s) \in Nat OBVIOUS
<1>2. \A i \in 1 .. Len(s) : z[i] = s[i] OBVIOUS
<1>3. z[Len(s) + 1] = x OBVIOUS
<1>4. \A i \in 1 .. Len(s) + 1 : i \in 1 .. Len(s) \/ i = Len(s) + 1 BY <1>1
<1>5. \A i \in 1 .. Len(s) : i \in 1 .. Len(s) + 1 BY <1>1
<1>6. Len(s) + 1 \in 1 .. Len(s) + 1 BY <1>1
<1> QED BY <1>1, <1>2, <1>3, <1>4, <1>5, <1>6

(* An entry goes one way: a thread numbers its entries, puts each one down    *)
(* once, and has none but its last in hand.                                  *)
LEMMA ApartStep == ASSUME Known, Apart, ConNext PROVE Apart'
<1> USE ConsoleAssumption
<1>0. /\ con \in Cons /\ lg \in [Loggers -> Lgs] /\ ft \in [Fetchers -> Fts] /\ seen \in Seens
  BY DEF Known
<1>o. \A t \in Loggers : Own(t) # NoEntry BY DEF Own, NoEntry
\* A step that gives an entry to no one, and in which every thread keeps
\* what it had in hand or puts it down.
<1>s. ASSUME Taken' = Taken, Printed' = Printed, seen'.told = seen.told,
             \A t \in Loggers : lg'[t].n = lg[t].n,
             \A t \in Loggers : lg'[t].at \in {"insert", "create", "put"} =>
                 lg[t].at \in {"insert", "create", "put"} /\ lg'[t].text = lg[t].text,
             \A t \in Loggers : lg'[t].at \in {"print", "call"} /\ lg'[t].text # NoEntry =>
                 lg[t].at \in {"print", "call"} /\ lg'[t].text = lg[t].text /\ lg'[t].tls = lg[t].tls
      PROVE Apart'
  <2>1. \A t \in Loggers : Own(t)' = Own(t) BY <1>s DEF Own
  <2>2. \A t \in Loggers : lg'[t].at \in {"insert", "create", "put"} =>
            lg'[t].text = Own(t)' /\ Own(t)' \notin Taken' \cup Printed'
    BY <1>s, <2>1 DEF Apart
  <2>3. \A t \in Loggers : lg'[t].at \in {"print", "call"} /\ lg'[t].text # NoEntry =>
            lg'[t].text = Own(t)' /\ lg'[t].tls = Own(t)' /\ Own(t)' \notin Taken'
    BY <1>s, <2>1 DEF Apart
  <2>4. \A e \in Taken' \cup Printed' : e.by \in Loggers /\ e.n <= lg'[e.by].n BY <1>s DEF Apart
  <2>5. Taken' \cap Printed' = {} BY <1>s DEF Apart
  <2>6. \A c \in seen'.told : c.text # NoEntry => c.tls = c.text BY <1>s DEF Apart
  <2> QED BY <2>2, <2>3, <2>4, <2>5, <2>6 DEF Apart
\* A step in which thread t puts down the entry it had in hand: into the
\* buffer, or to the console.
<1>p. ASSUME NEW t \in Loggers, lg'[t].at \in {"idle", "null_call"},
             \A u \in Loggers \ {t} : lg'[u] = lg[u], lg'[t].n = lg[t].n,
             lg[t].text = Own(t),
             \/ Own(t) \notin Printed /\ Taken' = Taken \cup {lg[t].text} /\ Printed' = Printed
             \/ Own(t) \notin Taken /\ Taken' = Taken /\ Printed' = Printed \cup {lg[t].text},
             \A c \in seen'.told : c.text # NoEntry => c.tls = c.text
      PROVE Apart'
  <2>1. \A u \in Loggers : Own(u)' = Own(u) BY <1>p DEF Own
  <2>2. \A u \in Loggers \ {t} : Own(u) # Own(t) BY DEF Own
  <2>3. \A u \in Loggers : lg'[u].at \in {"insert", "create", "put"} =>
            lg'[u].text = Own(u)' /\ Own(u)' \notin Taken' \cup Printed'
    BY <1>p, <2>1, <2>2 DEF Apart
  <2>4. \A u \in Loggers : lg'[u].at \in {"print", "call"} /\ lg'[u].text # NoEntry =>
            lg'[u].text = Own(u)' /\ lg'[u].tls = Own(u)' /\ Own(u)' \notin Taken'
    BY <1>p, <2>1, <2>2 DEF Apart
  <2>5. Own(t).by = t /\ Own(t).n = lg[t].n /\ lg[t].n \in Nat BY <1>0 DEF Own, Lgs
  <2>6. \A e \in Taken' \cup Printed' : e \in Taken \cup Printed \/ e = Own(t) BY <1>p
  <2>7. \A u \in Loggers : lg'[u].n = lg[u].n BY <1>p
  <2>8. \A e \in Taken' \cup Printed' : e.by \in Loggers /\ e.n <= lg'[e.by].n
    BY <2>5, <2>6, <2>7 DEF Apart
  <2>9. Taken' \cap Printed' = {} BY <1>p DEF Apart
  <2> QED BY <1>p, <2>3, <2>4, <2>8, <2>9 DEF Apart
<1>u. ASSUME seen'.taken = seen.taken, seen'.shown = seen.shown, seen'.told = seen.told
      PROVE Taken' = Taken /\ Printed' = Printed
  BY <1>u DEF Taken, TakenOf, Printed
<1>1. ASSUME NEW t \in Loggers, console_log(t) PROVE Apart'
  <2> DEFINE e0 == [by |-> t, n |-> lg[t].n + 1]
  <2>1. seen' = seen BY <1>1 DEF console_log
  <2>2. Taken' = Taken /\ Printed' = Printed BY <2>1, <1>u
  <2>3. lg'[t].n = lg[t].n + 1 /\ lg'[t].text = e0 /\ lg'[t].tls = e0 BY <1>0, <1>1 DEF console_log
  <2>4. \A u \in Loggers \ {t} : lg'[u] = lg[u] BY <1>0, <1>1 DEF console_log
  <2>5. Own(t)' = e0 BY <2>3 DEF Own
  <2>6. \A u \in Loggers \ {t} : Own(u)' = Own(u) BY <2>4 DEF Own
  <2>7. lg[t].n \in Nat BY <1>0 DEF Lgs
  <2>8. e0.by = t /\ e0.n = lg[t].n + 1 OBVIOUS
  <2>9. \A e \in Taken \cup Printed : e.by \in Loggers /\ e.n <= lg[e.by].n BY DEF Apart
  <2> HIDE DEF e0
  <2>10. e0 \notin Taken \cup Printed BY <2>7, <2>8, <2>9
  <2>11. \A e \in Taken \cup Printed : e.n \in Nat
    <3>1. \A e \in Taken : e \in Texts BY <1>0 DEF Taken, TakenOf, Seens
    <3>2. \A e \in Printed : e \in Texts BY <1>0 DEF Printed, Seens
    <3> QED BY <3>1, <3>2 DEF Texts
  <2>12. \A e \in Taken' \cup Printed' : e.by \in Loggers /\ e.n <= lg'[e.by].n
    <3> SUFFICES ASSUME NEW e \in Taken \cup Printed PROVE e.by \in Loggers /\ e.n <= lg'[e.by].n
      BY <2>2
    <3>1. e.by \in Loggers /\ e.n <= lg[e.by].n /\ e.n \in Nat BY <2>9, <2>11
    <3>2. CASE e.by = t BY <2>3, <2>7, <3>1, <3>2
    <3>3. CASE e.by # t BY <2>4, <3>1, <3>3
    <3> QED BY <3>2, <3>3
  <2>13. \A u \in Loggers : lg'[u].at \in {"insert", "create", "put"} =>
            lg'[u].text = Own(u)' /\ Own(u)' \notin Taken' \cup Printed'
    BY <2>2, <2>3, <2>4, <2>5, <2>6, <2>10 DEF Apart
  <2>14. \A u \in Loggers : lg'[u].at \in {"print", "call"} /\ lg'[u].text # NoEntry =>
            lg'[u].text = Own(u)' /\ lg'[u].tls = Own(u)' /\ Own(u)' \notin Taken'
    BY <2>2, <2>3, <2>4, <2>5, <2>6, <2>10 DEF Apart
  <2> QED BY <2>1, <2>2, <2>12, <2>13, <2>14 DEF Apart
<1>2. ASSUME NEW t \in Loggers, insert_entry(t) PROVE Apart'
  <2>1. seen' = seen BY <1>2 DEF insert_entry
  <2>2. lg'[t].n = lg[t].n /\ lg'[t].text = lg[t].text /\ lg'[t].at \in {"idle", "create", "put"}
    BY <1>0, <1>2 DEF insert_entry, Lgs
  <2>3. \A u \in Loggers \ {t} : lg'[u] = lg[u] BY <1>0, <1>2 DEF insert_entry
  <2>4. lg[t].at = "insert" BY <1>2 DEF insert_entry
  <2> QED BY <1>s, <1>u, <2>1, <2>2, <2>3, <2>4
<1>3. ASSUME NEW t \in Loggers, create_buffer(t) PROVE Apart'
  <2>1. seen' = seen BY <1>3 DEF create_buffer
  <2>2. lg'[t].n = lg[t].n /\ lg'[t].text = lg[t].text /\ lg'[t].at = "put"
    BY <1>0, <1>3 DEF create_buffer, Lgs
  <2>3. \A u \in Loggers \ {t} : lg'[u] = lg[u] BY <1>0, <1>3 DEF create_buffer
  <2>4. lg[t].at = "create" BY <1>3 DEF create_buffer
  <2> QED BY <1>s, <1>u, <2>1, <2>2, <2>3, <2>4
<1>4. ASSUME NEW t \in Loggers, put_entry(t) PROVE Apart'
  <2>1. lg'[t].n = lg[t].n /\ lg'[t].at = "idle" BY <1>0, <1>4 DEF put_entry, Step, Lgs
  <2>2. \A u \in Loggers \ {t} : lg'[u] = lg[u] BY <1>0, <1>4 DEF put_entry, Step
  <2>3. CASE seen' = seen BY <1>s, <1>u, <2>1, <2>2, <2>3
  <2>4. CASE seen' = [seen EXCEPT !.taken[t] = Append(@, lg[t].text)]
    <3>1. /\ seen'.taken = [seen.taken EXCEPT ![t] = Append(@, lg[t].text)]
          /\ seen'.shown = seen.shown /\ seen'.told = seen.told
      BY <1>0, <2>4 DEF Seens
    <3>2. lg[t].text = Own(t) /\ Own(t) \notin Printed BY <1>4 DEF put_entry, Apart
    <3>3. Printed' = Printed BY <3>1 DEF Printed
    <3>4. seen.taken \in [Loggers -> Seq(Texts)] /\ lg[t].text \in Texts BY <1>0 DEF Seens, Lgs
    <3>5. /\ seen'.taken[t] = Append(seen.taken[t], lg[t].text) /\ seen.taken[t] \in Seq(Texts)
          /\ \A u \in Loggers \ {t} : seen'.taken[u] = seen.taken[u]
      BY <3>1, <3>4
    <3>8. seen'.taken[t] \in Seq(Texts) BY <3>4, <3>5
    <3>9. TakenOf(t)' = TakenOf(t) \cup {lg[t].text}
      <4> DEFINE a == seen.taken[t]
                 z == seen'.taken[t]
                 x == lg[t].text
      <4>1. a \in Seq(Texts) /\ z \in Seq(Texts) /\ x \in Texts /\ z = Append(a, x) BY <3>4, <3>5, <3>8
      <4>2. TakenOf(t) = {a[i] : i \in DOMAIN a} /\ TakenOf(t)' = {z[i] : i \in DOMAIN z} BY DEF TakenOf
      <4> HIDE DEF a, z, x
      <4>3. {z[i] : i \in DOMAIN z} = {a[i] : i \in DOMAIN a} \cup {x} BY <4>1, OneMore
      <4> QED BY <4>2, <4>3 DEF x
    <3>10. \A u \in Loggers \ {t} : TakenOf(u)' = TakenOf(u) BY <3>5 DEF TakenOf
    <3>6. Taken' = Taken \cup {lg[t].text}
      <4>1. \A e : e \in Taken <=> \E u \in Loggers : e \in TakenOf(u) BY DEF Taken
      <4>2. \A e : e \in Taken' <=> \E u \in Loggers : e \in TakenOf(u)' BY DEF Taken
      <4> QED BY <3>9, <3>10, <4>1, <4>2
    <3>7. \A c \in seen'.told : c.text # NoEntry => c.tls = c.text BY <3>1 DEF Apart
    <3> QED BY <1>p, <2>1, <2>2, <3>2, <3>3, <3>6, <3>7
  <2> QED BY <1>4, <2>3, <2>4 DEF put_entry
<1>5. ASSUME NEW t \in Loggers, console_note(t) PROVE Apart'
  <2>1. seen' = seen BY <1>5 DEF console_note
  <2>2. lg'[t].n = lg[t].n /\ lg'[t].text = NoEntry /\ lg'[t].at = "print"
    BY <1>0, <1>5 DEF console_note, Lgs
  <2>3. \A u \in Loggers \ {t} : lg'[u] = lg[u] BY <1>0, <1>5 DEF console_note
  <2> QED BY <1>s, <1>u, <2>1, <2>2, <2>3
<1>6. ASSUME NEW t \in Loggers, print(t) PROVE Apart'
  <2>1. lg'[t].n = lg[t].n /\ lg'[t].text = lg[t].text /\ lg'[t].tls = lg[t].tls /\ lg'[t].at \in {"call", "idle"}
    BY <1>0, <1>6 DEF print, Step, Lgs
  <2>2. \A u \in Loggers \ {t} : lg'[u] = lg[u] BY <1>0, <1>6 DEF print, Step
  <2>3. lg[t].at = "print" BY <1>6 DEF print
  <2>4. CASE seen' = seen BY <1>s, <1>u, <2>1, <2>2, <2>3, <2>4
  <2>5. CASE lg'[t].at = "idle" /\ seen' = [seen EXCEPT !.shown = @ \cup {lg[t].text}]
    <3>1. seen'.taken = seen.taken /\ seen'.shown = seen.shown \cup {lg[t].text} /\ seen'.told = seen.told
      BY <1>0, <2>5 DEF Seens
    <3>2. Taken' = Taken BY <3>1 DEF Taken, TakenOf
    <3>3. CASE lg[t].text = NoEntry
      <4>1. Printed' = Printed BY <3>1, <3>3 DEF Printed
      <4> QED BY <1>s, <2>1, <2>2, <2>3, <3>1, <3>2, <4>1
    <3>4. CASE lg[t].text # NoEntry
      <4>1. Printed' = Printed \cup {lg[t].text} BY <3>1, <3>4 DEF Printed
      <4>2. lg[t].text = Own(t) /\ Own(t) \notin Taken BY <2>3, <3>4 DEF Apart
      <4>3. \A c \in seen'.told : c.text # NoEntry => c.tls = c.text BY <3>1 DEF Apart
      <4> QED BY <1>p, <2>1, <2>2, <2>5, <3>2, <4>1, <4>2, <4>3
    <3> QED BY <3>3, <3>4
  <2>6. seen' = seen \/ (lg'[t].at = "idle" /\ seen' = [seen EXCEPT !.shown = @ \cup {lg[t].text}])
    BY <1>0, <1>6 DEF print, Step, Lgs
  <2> QED BY <2>4, <2>5, <2>6
<1>7. ASSUME NEW t \in Loggers, call_back(t) PROVE Apart'
  <2>0. PICK p \in {"idle", "null_call"} : lg' = [lg EXCEPT ![t].at = p, ![t].tls = NoEntry]
    BY <1>7 DEF call_back
  <2>1. lg'[t].n = lg[t].n /\ lg'[t].at \in {"idle", "null_call"} BY <1>0, <2>0 DEF Lgs
  <2>2. \A u \in Loggers \ {t} : lg'[u] = lg[u] BY <1>0, <2>0
  <2>3. lg[t].at = "call" BY <1>7 DEF call_back
  <2>4. CASE seen' = seen BY <1>s, <1>u, <2>1, <2>2, <2>3, <2>4
  <2>5. CASE seen' = [seen EXCEPT !.told = @ \cup {[text |-> lg[t].text, tls |-> lg[t].tls]}]
    <3> DEFINE c0 == [text |-> lg[t].text, tls |-> lg[t].tls]
    <3>0. c0.text = lg[t].text /\ c0.tls = lg[t].tls OBVIOUS
    <3>1. seen'.taken = seen.taken /\ seen'.shown = seen.shown /\ seen'.told = seen.told \cup {c0}
      BY <1>0, <2>5 DEF Seens
    <3> HIDE DEF c0
    <3>2. Taken' = Taken BY <3>1 DEF Taken, TakenOf
    <3>3. {c.text : c \in seen'.told} = {c.text : c \in seen.told} \cup {lg[t].text} BY <3>0, <3>1
    <3>4. lg[t].text # NoEntry => lg[t].text = Own(t) /\ lg[t].tls = Own(t) /\ Own(t) \notin Taken
      BY <2>3 DEF Apart
    <3>5. \A c \in seen'.told : c.text # NoEntry => c.tls = c.text BY <3>0, <3>1, <3>4 DEF Apart
    <3>6. CASE lg[t].text = NoEntry
      <4>1. Printed' = Printed BY <3>1, <3>3, <3>6 DEF Printed
      <4>2. Taken' \cap Printed' = {} BY <3>2, <4>1 DEF Apart
      <4>3. \A u \in Loggers : lg'[u].n = lg[u].n BY <2>1, <2>2
      <4>4. \A u \in Loggers : Own(u)' = Own(u) BY <4>3 DEF Own
      <4>5. \A e \in Taken' \cup Printed' : e.by \in Loggers /\ e.n <= lg'[e.by].n BY <3>2, <4>1, <4>3 DEF Apart
      <4>6. \A u \in Loggers : lg'[u].at \in {"insert", "create", "put"} =>
              lg'[u].text = Own(u)' /\ Own(u)' \notin Taken' \cup Printed'
        BY <2>1, <2>2, <3>2, <4>1, <4>4 DEF Apart
      <4>7. \A u \in Loggers : lg'[u].at \in {"print", "call"} /\ lg'[u].text # NoEntry =>
              lg'[u].text = Own(u)' /\ lg'[u].tls = Own(u)' /\ Own(u)' \notin Taken'
        BY <2>1, <2>2, <3>2, <4>4 DEF Apart
      <4> QED BY <3>5, <4>2, <4>5, <4>6, <4>7 DEF Apart
    <3>7. CASE lg[t].text # NoEntry
      <4>1. Printed' = Printed \cup {lg[t].text} BY <3>1, <3>3, <3>7 DEF Printed
      <4>2. lg[t].text = Own(t) /\ Own(t) \notin Taken BY <3>4, <3>7
      <4> QED BY <1>p, <2>1, <2>2, <3>2, <3>5, <4>1, <4>2
    <3> QED BY <3>6, <3>7
  <2> QED BY <1>7, <2>4, <2>5 DEF call_back
<1>8. ASSUME NEW t \in Fetchers, fetch(t) \/ return_entry(t) PROVE Apart'
  <2>1. lg' = lg /\ seen' = seen BY <1>8 DEF fetch, return_entry
  <2> QED BY <1>s, <1>u, <2>1
<1>9. ASSUME NEW t \in Fetchers, claim(t) \/ read_entry(t) PROVE Apart'
  <2>1. lg' = lg BY <1>9 DEF claim, read_entry
  <2>2. seen'.taken = seen.taken /\ seen'.shown = seen.shown /\ seen'.told = seen.told
    BY <1>0, <1>9 DEF claim, read_entry, Seens
  <2> QED BY <1>s, <1>u, <2>1, <2>2
<1>10. ASSUME register_callback \/ set_console_output_callback \/ set_enable PROVE Apart'
  <2>1. lg' = lg /\ seen' = seen BY <1>10 DEF register_callback, set_console_output_callback, set_enable
  <2> QED BY <1>s, <1>u, <2>1
<1> QED BY <1>1, <1>2, <1>3, <1>4, <1>5, <1>6, <1>7, <1>8, <1>9, <1>10 DEF ConNext
-----------------------------------------------------------------------------
(* The inductive invariant says what ConsoleExact says, and more. *)
LEMMA ConInvImplies == ConInv => ConsoleExact
BY DEF ConInv, OneBuffer, Fetching, Owes, Apart, Taken, TakenOf, Printed, ConsoleExact

(* However many threads make the console buffer, fetch from it, print and    *)
(* are called back at once, one buffer is left, what it took is fetched once, *)
(* the entries of a thread in the order it put them, unless two fetching     *)
(* threads passed the test together, and an entry goes to the buffer or to   *)
(* the console, never to both                                                *)
(* (console_buffer::insert, fetch_and_remove, log_impl, the dispatcher).     *)
THEOREM ConsoleAlwaysExact == ConSpec => []ConsoleExact
<1>1. ConInit => ConInv BY InitHolds
<1>2. ConInv /\ [ConNext]_convars => ConInv'
  <2> SUFFICES ASSUME ConInv, [ConNext]_convars PROVE ConInv' OBVIOUS
  <2>1. CASE ConNext
    <3>1. Known' BY <2>1, KnownStep DEF ConInv
    <3>2. OneBuffer' BY <2>1, OneBufferStep DEF ConInv
    <3>3. Fetching' BY <2>1, FetchingStep DEF ConInv
    <3>4. Apart' BY <2>1, ApartStep DEF ConInv
    <3> QED BY <3>1, <3>2, <3>3, <3>4 DEF ConInv
  <2>2. CASE UNCHANGED convars
    <3>1. con' = con /\ lg' = lg /\ ft' = ft /\ seen' = seen BY <2>2 DEF convars
    <3>2. Known' BY <3>1 DEF ConInv, Known
    <3>3. OneBuffer' BY <3>1 DEF ConInv, OneBuffer
    <3>4. \A u \in Loggers : Lent(u)' = Lent(u) BY <3>1 DEF Lent
    <3>9. \A u \in Loggers : Left(u)' = Left(u) BY <3>1, <3>4 DEF Left
    <3>5. Fetching' BY <3>1, <3>4, <3>9 DEF ConInv, Fetching, Owes
    <3>6. Taken' = Taken /\ Printed' = Printed BY <3>1 DEF Taken, TakenOf, Printed
    <3>7. \A t \in Loggers : Own(t)' = Own(t) BY <3>1 DEF Own
    <3>8. Apart' BY <3>1, <3>6, <3>7 DEF ConInv, Apart
    <3> QED BY <3>2, <3>3, <3>5, <3>8 DEF ConInv
  <2> QED BY <2>1, <2>2
<1>3. ConInv => ConsoleExact BY ConInvImplies
<1> QED BY <1>1, <1>2, <1>3, PTL DEF ConSpec

-----------------------------------------------------------------------------
(* The reader-writer lock                                                  *)

\* Readers pass through only while a writer is inside.
PassingMeetsWriter == Writers = {} => Passing = {}

PlacesKnown == pc \in [Threads -> Labels]

LockInv == PlacesKnown /\ Exclusion /\ CounterExact /\ PassingMeetsWriter

-----------------------------------------------------------------------------
\* Sets of threads are finite and have fewer members than the mark.
LEMMA Counts ==
    ASSUME NEW S \in SUBSET Threads
    PROVE  /\ IsFiniteSet(S) /\ Cardinality(S) \in Nat
           /\ Cardinality(S) <= Cardinality(Threads)
           /\ Cardinality(Threads) \in Nat
           /\ Cardinality(S) = 0 <=> S = {}
  BY LockAssumption, FS_Subset, FS_CardinalityType, FS_EmptySet

LEMMA AddOne ==
    ASSUME NEW S \in SUBSET Threads, NEW t \in Threads, t \notin S
    PROVE  Cardinality(S \cup {t}) = Cardinality(S) + 1
  BY Counts, FS_AddElement

LEMMA RemoveOne ==
    ASSUME NEW S \in SUBSET Threads, NEW t \in S
    PROVE  Cardinality(S \ {t}) = Cardinality(S) - 1
  BY Counts, FS_RemoveElement

\* The mark of a writer: there is at most one.
LEMMA WritersCount ==
    ASSUME Exclusion
    PROVE  /\ Writers = {} => Cardinality(Writers) = 0
           /\ \A x \in Writers : Writers = {x} /\ Cardinality(Writers) = 1
  <1>1. Cardinality({}) = 0
    BY FS_EmptySet
  <1>2. \A x : Cardinality({x}) = 1
    BY FS_Singleton
  <1> QED BY <1>1, <1>2 DEF Exclusion

\* What the sign of the counter says about the threads inside.
LEMMA CounterTells ==
    ASSUME Exclusion, CounterExact, PassingMeetsWriter
    PROVE  /\ counter >= 0 <=> Writers = {}
           /\ counter = 0 => Readers = {} /\ Passing = {} /\ Writers = {}
           /\ counter = -Mark => Passing = {} /\ Readers = {}
           /\ Cardinality(Readers) \in Nat /\ Cardinality(Passing) \in Nat
           /\ Mark \in Nat
  <1>1. /\ Readers \in SUBSET Threads /\ Passing \in SUBSET Threads
        /\ Writers \in SUBSET Threads
    BY DEF Readers, Passing, Writers, Doing
  <1>2. /\ Cardinality(Readers) \in Nat /\ Cardinality(Passing) \in Nat
        /\ Cardinality(Readers) = 0 <=> Readers = {}
        /\ Cardinality(Passing) = 0 <=> Passing = {}
        /\ Cardinality(Passing) <= Cardinality(Threads)
        /\ Cardinality(Threads) \in Nat
    BY <1>1, Counts
  <1>3. Mark \in Nat /\ Mark > Cardinality(Threads)
    BY LockAssumption
  <1>4. CASE Writers = {}
    <2>1. Cardinality(Writers) = 0
      BY <1>4, WritersCount
    <2>2. counter = Cardinality(Readers) + Cardinality(Passing)
      BY <1>2, <1>3, <2>1 DEF CounterExact
    <2> QED BY <1>2, <1>3, <1>4, <2>2
  <1>5. CASE Writers # {}
    <2>1. Cardinality(Writers) = 1 /\ Readers = {}
      BY <1>5, WritersCount DEF Exclusion
    <2>2. counter = Cardinality(Passing) - Mark
      BY <1>2, <1>3, <2>1 DEF CounterExact
    <2> QED BY <1>2, <1>3, <1>5, <2>1, <2>2
  <1> QED BY <1>4, <1>5

\* The bounds of TypeOK follow from the meaning of the counter.
LEMMA Bounds ==
    ASSUME PlacesKnown, Exclusion, CounterExact
    PROVE  TypeOK
  <1>1. /\ Readers \cup Passing \in SUBSET Threads /\ Readers \in SUBSET Threads
        /\ Passing \in SUBSET Threads /\ Writers \in SUBSET Threads
        /\ Readers \cap Passing = {}
    BY DEF Readers, Passing, Writers, Doing
  <1>2. Cardinality(Readers \cup Passing) = Cardinality(Readers) + Cardinality(Passing)
    <2>1. Cardinality(Readers \cap Passing) = 0
      BY <1>1, FS_EmptySet
    <2>2. /\ IsFiniteSet(Readers) /\ IsFiniteSet(Passing)
          /\ Cardinality(Readers) \in Nat /\ Cardinality(Passing) \in Nat
      BY <1>1, Counts
    <2>3. Cardinality(Readers \cup Passing)
            = Cardinality(Readers) + Cardinality(Passing) - Cardinality(Readers \cap Passing)
      BY <2>2, FS_Union
    <2> QED BY <2>1, <2>2, <2>3
  <1>3. Cardinality(Writers) \in {0, 1}
    BY WritersCount
  <1>4. counter \in -Mark .. Cardinality(Threads)
    BY <1>1, <1>2, <1>3, Counts, LockAssumption DEF CounterExact
  <1> QED BY <1>4 DEF TypeOK, PlacesKnown

\* A move between two places changes the sets of threads only by that thread.
LEMMA Moves ==
    ASSUME PlacesKnown, NEW t \in Threads, NEW to, Move(t, to)
    PROVE  /\ Readers' = IF to = "reading" THEN Readers \cup {t} ELSE Readers \ {t}
           /\ Writers' = IF to \in {"writing", "unlock"}
                         THEN Writers \cup {t} ELSE Writers \ {t}
           /\ Passing' = IF to \in {"backoff", "try_backoff"}
                         THEN Passing \cup {t} ELSE Passing \ {t}
  BY DEF PlacesKnown, Move, Readers, Writers, Passing, Doing

-----------------------------------------------------------------------------
LEMMA LockStep == LockInv /\ [Next]_vars => LockInv'
  <1> SUFFICES ASSUME LockInv, [Next]_vars PROVE LockInv'
    OBVIOUS
  <1> USE DEF LockInv
  <1>1. /\ Readers \in SUBSET Threads /\ Passing \in SUBSET Threads
        /\ Writers \in SUBSET Threads /\ Mark \in Nat
    BY LockAssumption DEF Readers, Passing, Writers, Doing
  <1>2. ASSUME NEW t \in Threads, read_lock(t) \/ try_read_lock(t) PROVE LockInv'
    <2>1. /\ t \notin Readers /\ t \notin Passing /\ t \notin Writers
          /\ counter' = counter + 1
      BY <1>2 DEF read_lock, try_read_lock, Readers, Passing, Writers, Doing
    <2>2. CASE counter >= 0
      <3>1. Move(t, "reading")
        BY <1>2, <2>2 DEF read_lock, try_read_lock, entered
      <3>2. Readers' = Readers \cup {t} /\ Writers' = Writers /\ Passing' = Passing
        <4>1. /\ Readers' = Readers \cup {t} /\ Writers' = Writers \ {t}
              /\ Passing' = Passing \ {t}
          BY <3>1, Moves
        <4> QED BY <2>1, <4>1
      <3>3. Writers = {}
        BY <2>2, CounterTells
      <3>4. CounterExact'
        BY <1>1, <2>1, <3>2, AddOne, Counts, CounterTells DEF CounterExact
      <3>5. Exclusion' /\ PassingMeetsWriter'
        BY <3>2, <3>3 DEF Exclusion, PassingMeetsWriter
      <3>6. PlacesKnown'
        BY <3>1, <3>4, <3>5 DEF PlacesKnown, Labels, Move
      <3> QED BY <3>4, <3>5, <3>6
    <2>3. CASE ~(counter >= 0)
      <3>1. PICK to \in {"backoff", "try_backoff"} : Move(t, to)
        BY <1>2, <2>3 DEF read_lock, try_read_lock, entered
      <3>2. Readers' = Readers /\ Writers' = Writers /\ Passing' = Passing \cup {t}
        BY <2>1, <3>1, Moves
      <3>3. Writers # {}
        BY <2>3, CounterTells
      <3>4. CounterExact'
        BY <1>1, <2>1, <3>2, AddOne, Counts, CounterTells DEF CounterExact
      <3>5. Exclusion' /\ PassingMeetsWriter'
        BY <3>2, <3>3 DEF Exclusion, PassingMeetsWriter
      <3>6. PlacesKnown'
        BY <3>1, <3>4, <3>5 DEF PlacesKnown, Labels, Move
      <3> QED BY <3>4, <3>5, <3>6
    <2> QED BY <2>2, <2>3
  <1>3. ASSUME NEW t \in Threads, backoff(t) PROVE LockInv'
    <2>1. /\ t \in Passing /\ t \notin Readers /\ t \notin Writers
          /\ counter' = counter - 1
      BY <1>3 DEF backoff, Readers, Passing, Writers, Doing
    <2>2. PICK to \in {"spin", "idle"} : Move(t, to)
      BY <1>3 DEF backoff
    <2>3. Readers' = Readers /\ Writers' = Writers /\ Passing' = Passing \ {t}
      BY <2>1, <2>2, Moves
    <2>4. CounterExact'
      BY <1>1, <2>1, <2>3, RemoveOne, Counts, CounterTells DEF CounterExact
    <2>5. Exclusion' /\ PassingMeetsWriter'
      BY <2>3 DEF Exclusion, PassingMeetsWriter
    <2>6. PlacesKnown'
      BY <2>2, <2>4, <2>5 DEF PlacesKnown, Labels, Move
    <2> QED BY <2>4, <2>5, <2>6
  <1>4. ASSUME NEW t \in Threads, spin(t) \/ want_write_lock(t) PROVE LockInv'
    <2>1. /\ t \notin Passing /\ t \notin Readers /\ t \notin Writers
          /\ counter' = counter
      BY <1>4 DEF spin, want_write_lock, Readers, Passing, Writers, Doing
    <2>2. PICK to \in {"retry", "want_write"} : Move(t, to)
      BY <1>4 DEF spin, want_write_lock
    <2>3. Readers' = Readers /\ Writers' = Writers /\ Passing' = Passing
      BY <2>1, <2>2, Moves
    <2>4. CounterExact' /\ Exclusion' /\ PassingMeetsWriter'
      BY <2>1, <2>3 DEF CounterExact, Exclusion, PassingMeetsWriter
    <2>5. PlacesKnown'
      BY <2>2, <2>4 DEF PlacesKnown, Labels, Move
    <2> QED BY <2>4, <2>5
  <1>5. ASSUME NEW t \in Threads, read_unlock(t) PROVE LockInv'
    <2>1. /\ t \notin Passing /\ t \in Readers /\ t \notin Writers
          /\ counter' = counter - 1 /\ Move(t, "idle")
      BY <1>5 DEF read_unlock, Readers, Passing, Writers, Doing
    <2>2. Readers' = Readers \ {t} /\ Writers' = Writers /\ Passing' = Passing
      BY <2>1, Moves
    <2>3. CounterExact'
      BY <1>1, <2>1, <2>2, RemoveOne, Counts, CounterTells DEF CounterExact
    <2>4. Exclusion' /\ PassingMeetsWriter'
      BY <2>2 DEF Exclusion, PassingMeetsWriter
    <2>5. PlacesKnown'
      BY <2>1, <2>3, <2>4 DEF PlacesKnown, Labels, Move
    <2> QED BY <2>3, <2>4, <2>5
  <1>6. ASSUME NEW t \in Threads, write_lock(t) \/ try_write_lock(t) PROVE LockInv'
    <2>1. counter = 0 /\ counter' = -Mark /\ Move(t, "writing")
      BY <1>6 DEF write_lock, try_write_lock, cas_to_mark
    <2>2. Readers = {} /\ Passing = {} /\ Writers = {}
      BY <2>1, CounterTells
    <2>3. Readers' = {} /\ Passing' = {} /\ Writers' = {t}
      BY <2>1, <2>2, Moves
    <2>4. Cardinality(Readers') = 0 /\ Cardinality(Passing') = 0 /\ Cardinality(Writers') = 1
      BY <2>3, FS_EmptySet, FS_Singleton
    <2>5. CounterExact'
      BY <1>1, <2>1, <2>4 DEF CounterExact
    <2>6. Exclusion' /\ PassingMeetsWriter'
      BY <2>3 DEF Exclusion, PassingMeetsWriter
    <2>7. PlacesKnown'
      BY <2>1, <2>5, <2>6 DEF PlacesKnown, Labels, Move
    <2> QED BY <2>5, <2>6, <2>7
  <1>7. ASSUME NEW t \in Threads, begin_write_unlock(t) PROVE LockInv'
    <2>1. /\ t \notin Passing /\ t \notin Readers /\ t \in Writers
          /\ counter' = counter /\ Move(t, "unlock")
      BY <1>7 DEF begin_write_unlock, Readers, Passing, Writers, Doing
    <2>2. Readers' = Readers /\ Writers' = Writers /\ Passing' = Passing
      BY <2>1, Moves
    <2>3. CounterExact' /\ Exclusion' /\ PassingMeetsWriter'
      BY <2>1, <2>2 DEF CounterExact, Exclusion, PassingMeetsWriter
    <2>4. PlacesKnown'
      BY <2>1, <2>3 DEF PlacesKnown, Labels, Move
    <2> QED BY <2>3, <2>4
  <1>8. ASSUME NEW t \in Threads, write_unlock(t) PROVE LockInv'
    <2>1. counter = -Mark /\ counter' = 0 /\ Move(t, "idle") /\ t \in Writers
      BY <1>8 DEF write_unlock, Writers, Doing
    <2>2. Readers = {} /\ Passing = {} /\ Writers = {t}
      BY <2>1, CounterTells DEF Exclusion
    <2>3. Readers' = {} /\ Passing' = {} /\ Writers' = {}
      BY <2>1, <2>2, Moves
    <2>4. Cardinality(Readers') = 0 /\ Cardinality(Passing') = 0 /\ Cardinality(Writers') = 0
      BY <2>3, FS_EmptySet
    <2>5. CounterExact'
      BY <1>1, <2>1, <2>4 DEF CounterExact
    <2>6. Exclusion' /\ PassingMeetsWriter'
      BY <2>3 DEF Exclusion, PassingMeetsWriter
    <2>7. PlacesKnown'
      BY <2>1, <2>5, <2>6 DEF PlacesKnown, Labels, Move
    <2> QED BY <2>5, <2>6, <2>7
  <1>9. CASE UNCHANGED vars
    BY <1>9 DEF vars, PlacesKnown, Exclusion, CounterExact, PassingMeetsWriter,
                Readers, Writers, Passing, Doing
  <1> QED BY <1>2, <1>3, <1>4, <1>5, <1>6, <1>7, <1>8, <1>9 DEF Next

LEMMA LockStart == Init => LockInv
  <1> SUFFICES ASSUME Init PROVE LockInv
    OBVIOUS
  <1>1. Readers = {} /\ Passing = {} /\ Writers = {}
    BY DEF Init, Readers, Passing, Writers, Doing
  <1>2. CounterExact
    BY <1>1, FS_EmptySet, LockAssumption DEF Init, CounterExact
  <1>3. Exclusion /\ PassingMeetsWriter
    BY <1>1 DEF Exclusion, PassingMeetsWriter
  <1>4. PlacesKnown
    BY DEF Init, PlacesKnown, Labels
  <1> QED BY <1>2, <1>3, <1>4 DEF LockInv

LEMMA LockKept == Spec => []LockInv
  BY LockStart, LockStep, PTL DEF Spec

\* Every thread that uses spin_lock_rw_crazy is at a known place and the counter
\* stays clear of the mark and of overflow.
THEOREM LockTyping == Spec => []TypeOK
  <1>1. LockInv => TypeOK
    BY Bounds DEF LockInv
  <1> QED BY <1>1, LockKept, PTL

\* spin_lock_rw_crazy: a writer is alone, for any number of threads.
THEOREM MutualExclusion == Spec => []Exclusion
  <1>1. LockInv => Exclusion
    BY DEF LockInv
  <1> QED BY <1>1, LockKept, PTL

\* The counter of spin_lock_rw_crazy counts exactly the readers that are inside
\* or passing and the writer, so no increment is lost in write_unlock.
THEOREM NobodyLost == Spec => []CounterExact
  <1>1. LockInv => CounterExact
    BY DEF LockInv
  <1> QED BY <1>1, LockKept, PTL

=============================================================================
