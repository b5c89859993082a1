--------------------------- MODULE LogBufferProofs ---------------------------
(***************************************************************************)
(* Proof that the log buffer takes away neither a thread's record nor the  *)
(* oversize buffer it writes into while somebody needs it.                 *)
(*                                                                         *)
(* NothingTakenAway alone is not inductive.  Whether the reader frees a    *)
(* record too early is a matter of numbers: those of a thread's contexts   *)
(* are between what the reader expects and what the thread gives next, all *)
(* different, and the mark of its end is on the last.  Whether it takes a  *)
(* buffer away is a matter of order: every entry of an oversize buffer has *)
(* a reference in the shared ring, and one that is being filled comes      *)
(* behind all the reader has passed.                                       *)
(***************************************************************************)
EXTENDS LogBuffer, FiniteSetTheorems, WellFoundedInduction, TLAPS

-----------------------------------------------------------------------------
(***************************************************************************)
(* The inductive invariant.                                                *)
(***************************************************************************)
Places == {"idle", "hp", "lp", "os", "filled", "ref", "exit", "gone"}
Writing == {"lp", "os", "filled", "ref", "exit"}   \* a reservation in the shared ring is open

Entries == [run : 0 .. MaxCrashes, tls : Threads, n : Int]
VersionIds == 0 .. Versions - 1
LpContexts == [ver : VersionIds, tls : Threads, seq : Int, fin : BOOLEAN, ext : BOOLEAN,
               st : {"reserved", "used"}, e : Entries]
BlockRecords == [ver : VersionIds, tls : Threads, seq : Int, fin : BOOLEAN,
                 removed : BOOLEAN, realloc : BOOLEAN, q : Seq(Entries)]
Chunks == [ver : VersionIds, tls : Threads, seq : Int, st : {"reserved", "used"}, e : Entries]
Buffers == [id : Nat, ver : VersionIds, tls : Threads, q : Seq(Chunks), fin : BOOLEAN,
            locked : BOOLEAN]
ThreadRecords == [pc : Places, cur : 0 .. Blocks, wseq : Int, rseq : Int, target : Nat,
                  rec : {"live", "freed"}]
ReaderFields == {"call", "st", "hand", "again", "laps", "e", "cur", "last", "ver", "records", "endWorks", "end",
                 "gone", "verify", "batch", "at", "target"}

IsReader(r) == DOMAIN r = ReaderFields /\ r.ver \in VersionIds /\ r.batch \in Nat

TypeInv ==
    /\ version \in VersionIds
    /\ crashes \in 0 .. MaxCrashes
    /\ sent \in [0 .. MaxCrashes -> [Threads -> Int]]
    /\ lp \in Seq(LpContexts)
    /\ used \in Seq(BlockIds) /\ stage \in Seq(BlockIds)
    /\ blk \in [BlockIds -> BlockRecords]
    /\ ovs \subseteq Buffers
    /\ th \in [Threads -> ThreadRecords]
    /\ IsReader(rd)

\* Every block is in one place of one list; the reader stands at a block of used_
\* or at none, and at none while it reads the shared ring, but at one while it
\* reads a block.
Once(s) == \A i, j \in DOMAIN s : s[i] = s[j] => i = j
ListInv ==
    /\ Once(used) /\ Once(stage)
    /\ \A i \in DOMAIN used, j \in DOMAIN stage : used[i] # stage[j]
    /\ rd.cur # 0 => \E i \in DOMAIN used : used[i] = rd.cur
    /\ rd.st \in {"lp_buffer_reading", "recycle"} => rd.cur = 0
    /\ rd.st = "hp_block_reading" => rd.cur # 0

\* What of this version is still expected by the reader: in the shared ring,
\* without the reference whose entry was just given back, and among the blocks.
LpLive(k) == lp[k].ver = version /\ (k = 1 => ~Handed("ref"))
BlkLive(b) == b \in Taken /\ blk[b].ver = version

\* The numbers of a thread's live contexts are between what the reader expects
\* and what the thread gives next, and no two are the same.
InWindow(c) == th[c.tls].rseq <= c.seq /\ c.seq < th[c.tls].wseq
Apart(c, d) == c.tls = d.tls => c.seq # d.seq
SeqInv ==
    /\ \A u \in Threads : th[u].rseq <= th[u].wseq
    /\ \A k \in DOMAIN lp : LpLive(k) => InWindow(lp[k])
    /\ \A b \in BlockIds : BlkLive(b) => InWindow(blk[b])
    /\ \A j, k \in DOMAIN lp : LpLive(j) /\ LpLive(k) /\ j # k => Apart(lp[j], lp[k])
    /\ \A a, b \in BlockIds : BlkLive(a) /\ BlkLive(b) /\ a # b => Apart(blk[a], blk[b])
    /\ \A k \in DOMAIN lp, b \in BlockIds : LpLive(k) /\ BlkLive(b) => Apart(lp[k], blk[b])

\* The mark of an ended thread is on its last number.
FinInv ==
    /\ \A k \in DOMAIN lp : LpLive(k) /\ lp[k].fin =>
            th[lp[k].tls].pc \in {"exit", "gone"} /\ lp[k].seq = th[lp[k].tls].wseq - 1
    /\ \A b \in BlockIds : BlkLive(b) /\ blk[b].fin =>
            th[blk[b].tls].pc = "gone" /\ blk[b].seq = th[blk[b].tls].wseq - 1

\* A thread between reservation and commit has one open reservation, its last
\* number, and holds no block; nobody else has one.
Reservation(k, t) ==
    /\ lp[k].st = "reserved" /\ lp[k].tls = t /\ lp[k].ver = version
    /\ lp[k].seq = th[t].wseq - 1
    /\ lp[k].fin = (th[t].pc = "exit")
    /\ lp[k].ext = (th[t].pc \in {"os", "filled", "ref"})
OpenInv ==
    /\ \A t \in Threads : th[t].pc \in Writing =>
            th[t].cur = 0 /\ \E k \in DOMAIN lp : Reservation(k, t)
    /\ \A k \in DOMAIN lp : lp[k].st = "reserved" =>
            th[lp[k].tls].pc \in Writing /\ Reservation(k, lp[k].tls)

\* The block a thread writes into is its last number and not to be left.
BlockInv ==
    \A t \in Threads : th[t].pc # "gone" /\ th[t].cur # 0 =>
        LET b == blk[th[t].cur]
        IN  /\ BlkLive(th[t].cur) /\ b.tls = t /\ b.seq = th[t].wseq - 1
            /\ ~b.removed /\ ~b.fin

\* What the reader found out about the block it stands at stays true, and so does
\* what it found out about the chunk it handed out.
ReaderInv ==
    /\ rd.cur # 0 /\ rd.gone /\ blk[rd.cur].ver = version => blk[rd.cur].removed /\ rd.verify = "valid"
    /\ rd.cur # 0 /\ rd.verify = "valid" /\ blk[rd.cur].ver = version =>
            blk[rd.cur].seq = th[blk[rd.cur].tls].rseq
    /\ Handed("lp") \/ Handed("os") \/ Handed("ref") =>
            /\ rd.st = "lp_buffer_reading"
            /\ lp # <<>> /\ lp[1].st = "used" /\ ~lp[1].fin
            /\ Handed("lp") => ~lp[1].ext
            /\ (lp[1].ver = version /\ ~Handed("ref")) => lp[1].seq = th[lp[1].tls].rseq
    /\ Handed("os") =>
            \E o \in ovs : /\ o.id = rd.target /\ Matches(o, lp[1]) /\ o.q # <<>>
                           /\ lp[1].ver = version => o.q[1].seq = lp[1].seq

\* Oversize buffers have names of their own; they are of this version or the two
\* before; a thread that fills one holds its lock.
Named(os) == IsFiniteSet(os) /\ \A o, p \in os : o.id = p.id => o = p
BufferInv ==
    /\ Named(ovs)
    /\ \A o \in ovs : Mod(version - o.ver) <= MAX_RECOVERY_VERSION_RANGE
HeldInv ==
    \A t \in Threads : th[t].pc = "filled" =>
        \E o \in ovs : o.id = th[t].target /\ o.ver = version /\ o.tls = t /\ o.locked

\* Every entry in a buffer of this version has its reference in the shared ring;
\* only one that is being filled is not committed; the numbers grow along a buffer
\* and are in one buffer only.
RefOf(k, o, c) == LpLive(k) /\ lp[k].tls = o.tls /\ lp[k].seq = c.seq /\ lp[k].ext /\ ~lp[k].fin
HasRef(o, c) == \E k \in DOMAIN lp : RefOf(k, o, c)
FillState(o, c) ==
    /\ c.st = "reserved" =>
         th[o.tls].pc = "filled" /\ th[o.tls].target = o.id /\ c.seq = th[o.tls].wseq - 1
    /\ c.seq = th[o.tls].wseq - 1 => th[o.tls].pc # "os"
Ordered(o) == \A i, j \in DOMAIN o.q : i < j => o.q[i].seq < o.q[j].seq
Separate(o, p) == \A i \in DOMAIN o.q, j \in DOMAIN p.q : o.q[i].seq # p.q[j].seq
RefInv == \A o \in ovs : o.ver = version => \A i \in DOMAIN o.q : HasRef(o, o.q[i])
FillInv == \A o \in ovs : o.ver = version => \A i \in DOMAIN o.q : FillState(o, o.q[i])
ChunkInv ==
    /\ \A o \in ovs : o.ver = version => Ordered(o)
    /\ \A o, p \in ovs : o.ver = version /\ p.ver = version /\ o.tls = p.tls /\ o # p => Separate(o, p)

LbInv ==
    /\ TypeInv /\ ListInv /\ SeqInv /\ FinInv /\ OpenInv /\ BlockInv /\ ReaderInv
    /\ BufferInv /\ HeldInv /\ RefInv /\ FillInv /\ ChunkInv /\ RecordLive

-----------------------------------------------------------------------------
(***************************************************************************)
(* Least elements, versions and the parts of sequences.                    *)
(***************************************************************************)
LEMMA LeastNumber ==
  ASSUME NEW S, S \subseteq Nat, S # {}
  PROVE  \E x \in S : \A y \in S : x <= y
  <1>1. PICK x \in S : \A y \in S : ~(<<y, x>> \in OpToRel(<, Nat))
    BY WFMin, NatLessThanWellFounded
  <1>2. \A y \in Nat : y < x => <<y, x>> \in OpToRel(<, Nat)
    <2> SUFFICES ASSUME NEW y \in Nat, y < x PROVE <<y, x>> \in OpToRel(<, Nat)
      OBVIOUS
    <2>1. <<y, x>> \in Nat \X Nat /\ <<y, x>>[1] = y /\ <<y, x>>[2] = x
      OBVIOUS
    <2> QED BY <2>1, Zenon DEF OpToRel
  <1>3. \A y \in S : ~(y < x)
    BY <1>1, <1>2, Zenon
  <1> QED BY <1>3

LEMMA MinIs ==
  ASSUME NEW S, S \subseteq Nat, S # {}
  PROVE  Min(S) \in S /\ \A y \in S : Min(S) <= y
  <1>1. \E x \in S : \A y \in S : x <= y
    BY LeastNumber
  <1> QED BY <1>1 DEF Min

LEMMA ModType ==
  ASSUME NEW n \in Int
  PROVE  Mod(n) \in VersionIds
  BY LogBufferAssumption DEF Mod, VersionIds

\* The version after this one is another one, and so is the one before the two
\* that recovery looks at.
LEMMA ModNext ==
  ASSUME NEW v \in VersionIds
  PROVE  Mod(v + 1) = IF v + 1 = Versions THEN 0 ELSE v + 1
  <1>1. Versions \in Nat /\ Versions > 4
    BY LogBufferAssumption
  <1>2. CASE v + 1 = Versions
    BY <1>1, <1>2 DEF Mod
  <1>3. CASE v + 1 # Versions
    <2>1. v + 1 \in 0 .. Versions - 1
      BY <1>1, <1>3 DEF VersionIds
    <2>2. (v + 1) % Versions = v + 1
      BY <1>1, <2>1
    <2> QED BY <1>3, <2>2 DEF Mod
  <1> QED BY <1>2, <1>3

LEMMA ModBack ==
  ASSUME NEW v \in VersionIds
  PROVE  Mod(v - Mod(v + 1)) = Versions - 1
  <1>1. Versions \in Nat /\ Versions > 4
    BY LogBufferAssumption
  <1>2. CASE v + 1 = Versions
    <2>1. Mod(v + 1) = 0 /\ v = Versions - 1
      BY <1>1, <1>2, ModNext DEF VersionIds
    <2>2. (Versions - 1) % Versions = Versions - 1
      BY <1>1
    <2> QED BY <1>1, <2>1, <2>2 DEF Mod
  <1>3. CASE v + 1 # Versions
    <2>1. Mod(v + 1) = v + 1 /\ v \in Int
      BY <1>1, <1>3, ModNext DEF VersionIds
    <2>2. v - Mod(v + 1) = -1
      BY <2>1
    <2>3. (-1) % Versions = Versions - 1
      BY <1>1
    <2> QED BY <2>2, <2>3 DEF Mod
  <1> QED BY <1>2, <1>3

LEMMA OtherVersion ==
  ASSUME NEW v \in VersionIds
  PROVE  /\ Mod(v + 1) \in VersionIds /\ Mod(v + 1) # v
         /\ \A w \in VersionIds : Mod(v - w) <= MAX_RECOVERY_VERSION_RANGE => w # Mod(v + 1)
  <1>1. Versions \in Nat /\ Versions > 4
    BY LogBufferAssumption
  <1>2. Mod(v + 1) \in VersionIds /\ Mod(v + 1) # v
    BY <1>1, ModNext DEF VersionIds
  <1>3. Mod(v - Mod(v + 1)) = Versions - 1
    BY ModBack
  <1> QED BY <1>1, <1>2, <1>3 DEF MAX_RECOVERY_VERSION_RANGE

LEMMA SinceIs ==
  ASSUME NEW S, NEW q \in Seq(S), NEW kept \in SUBSET DOMAIN q
  PROVE  /\ Since(q, kept) \in Seq(S)
         /\ \E m \in Nat : /\ \A i \in DOMAIN Since(q, kept) :
                                 i + m \in DOMAIN q /\ Since(q, kept)[i] = q[i + m]
                           /\ kept # {} => m + 1 \in kept
                           /\ \A k \in kept : k - m \in DOMAIN Since(q, kept)
                           /\ \A k \in kept : k >= m + 1
  <1>1. CASE kept = {}
    BY <1>1 DEF Since
  <1>2. CASE kept # {}
    <2>1. kept \subseteq Nat
      OBVIOUS
    <2>2. Min(kept) \in kept /\ \A y \in kept : Min(kept) <= y
      BY <1>2, <2>1, MinIs
    <2> DEFINE m == Min(kept)
    <2>3. m \in 1 .. Len(q) /\ Len(q) \in Nat
      BY <2>2
    <2>4. Since(q, kept) = SubSeq(q, m, Len(q))
      BY <1>2 DEF Since
    <2> HIDE DEF m
    <2>5. /\ SubSeq(q, m, Len(q)) \in Seq(S)
          /\ Len(SubSeq(q, m, Len(q))) = Len(q) - m + 1
          /\ \A i \in 1 .. Len(q) - m + 1 : SubSeq(q, m, Len(q))[i] = q[m + i - 1]
      BY <2>3
    <2>6. m - 1 \in Nat /\ kept # {} /\ m \in kept /\ \A y \in kept : m <= y
      BY <1>2, <2>2, <2>3 DEF m
    <2>7. DOMAIN SubSeq(q, m, Len(q)) = 1 .. Len(q) - m + 1
      BY <2>5
    <2>8. \A i \in 1 .. Len(q) - m + 1 : i + (m - 1) \in 1 .. Len(q) /\ q[m + i - 1] = q[i + (m - 1)]
      BY <2>3
    <2>9. \A k \in kept : k - (m - 1) \in 1 .. Len(q) - m + 1 /\ k >= (m - 1) + 1
      BY <2>3, <2>6
    <2>10. DOMAIN q = 1 .. Len(q)
      OBVIOUS
    <2>11. \A i \in DOMAIN Since(q, kept) : i + (m - 1) \in DOMAIN q /\ Since(q, kept)[i] = q[i + (m - 1)]
      BY <2>4, <2>5, <2>7, <2>8, <2>10
    <2>12. \A k \in kept : k - (m - 1) \in DOMAIN Since(q, kept) /\ k >= (m - 1) + 1
      BY <2>4, <2>7, <2>9
    <2>13. (m - 1) + 1 \in kept
      BY <2>3, <2>6
    <2>14. Since(q, kept) \in Seq(S)
      BY <2>4, <2>5
    <2> QED BY <2>6, <2>11, <2>12, <2>13, <2>14
  <1> QED BY <1>1, <1>2

LEMMA FcnSeq ==
  ASSUME NEW S, NEW n \in Nat, NEW g, g = [i \in 1 .. n |-> g[i]], \A i \in 1 .. n : g[i] \in S
  PROVE  g \in Seq(S) /\ Len(g) = n
  <1>1. g \in [1 .. n -> S]
    OBVIOUS
  <1> QED BY <1>1

LEMMA CommittedIs ==
  ASSUME NEW S, NEW q \in Seq(S)
  PROVE  /\ Committed(q) \in Seq(S)
         /\ Len(Committed(q)) <= Len(q)
         /\ \A k \in DOMAIN Committed(q) : Committed(q)[k] = q[k] /\ q[k].st # "reserved"
  <1> DEFINE open == {k \in DOMAIN q : q[k].st = "reserved"}
  <1>1. CASE open = {}
    BY <1>1 DEF Committed
  <1>2. CASE open # {}
    <2>1. open \subseteq Nat
      OBVIOUS
    <2>2. Min(open) \in open /\ \A y \in open : Min(open) <= y
      BY <1>2, <2>1, MinIs
    <2> DEFINE m == Min(open) - 1
    <2>21. PICK x \in open : x = Min(open) /\ \A y \in open : x <= y
      BY <2>2
    <2>22. x \in 1 .. Len(q) /\ Len(q) \in Nat /\ m = x - 1 /\ \A y \in open : y \in Nat /\ x <= y
      BY <2>1, <2>21
    <2> HIDE DEF m, open
    <2>3. m \in 0 .. Len(q) - 1 /\ Len(q) \in Nat /\ \A y \in open : m < y
      BY <2>22
    <2>4. Committed(q) = SubSeq(q, 1, m)
      BY <1>2 DEF Committed, m, open
    <2>5. /\ SubSeq(q, 1, m) \in Seq(S) /\ Len(SubSeq(q, 1, m)) = m
          /\ \A i \in 1 .. m : SubSeq(q, 1, m)[i] = q[i]
      BY <2>3
    <2>6. \A i \in 1 .. m : i \in DOMAIN q /\ i \notin open
      BY <2>3
    <2>7. \A i \in 1 .. m : q[i].st # "reserved"
      BY <2>6 DEF open
    <2>8. DOMAIN SubSeq(q, 1, m) = 1 .. m
      BY <2>5
    <2> QED BY <2>3, <2>4, <2>5, <2>7, <2>8
  <1> QED BY <1>1, <1>2

-----------------------------------------------------------------------------
(***************************************************************************)
(* What the parts of an action do to the reader.                           *)
(***************************************************************************)
SamePlace(q, r) ==
    /\ IsReader(r)
    /\ r.cur = q.cur /\ r.gone = q.gone /\ r.verify = q.verify /\ r.target = q.target
SameCall(q, r) == r.call = q.call /\ r.hand = q.hand

LEMMA EndMarkIs ==
  ASSUME NEW r, IsReader(r)
  PROVE  SamePlace(r, EndMark(r)) /\ SameCall(r, EndMark(r)) /\ EndMark(r).st = r.st
  BY DEF EndMark, SamePlace, SameCall, ReaderFields, IsReader

LEMMA NextVersionIs ==
  ASSUME NEW r, IsReader(r)
  PROVE  SamePlace(r, NextVersion(r)) /\ SameCall(r, NextVersion(r)) /\ NextVersion(r).st = r.st
  BY ModType DEF NextVersion, SamePlace, SameCall, ReaderFields, IsReader, VersionIds

LEMMA DeregisterIs ==
  ASSUME NEW c, NEW r, IsReader(r)
  PROVE  SamePlace(r, Deregister(c, r)) /\ SameCall(r, Deregister(c, r)) /\ Deregister(c, r).st = r.st
  <1> DEFINE s == [r EXCEPT !.records = DeregisteredRecords(c)]
  <1>1. SamePlace(r, s) /\ SameCall(r, s) /\ s.st = r.st
    BY DEF SamePlace, SameCall, ReaderFields, IsReader
  <1>2. Deregister(c, r) = EndMark(s)
    BY DEF Deregister
  <1> HIDE DEF s
  <1>3. SamePlace(s, EndMark(s)) /\ SameCall(s, EndMark(s)) /\ EndMark(s).st = s.st
    BY <1>1, EndMarkIs DEF SamePlace
  <1> QED BY <1>1, <1>2, <1>3 DEF SamePlace, SameCall

\* The call ends or goes on.
Ends(q, r) == (SameCall(q, r) \/ (r.call = "idle" /\ r.hand = "empty"))

LEMMA CompletedIs ==
  ASSUME NEW r, IsReader(r)
  PROVE  /\ SamePlace(r, TraversalCompleted(r)) /\ Ends(r, TraversalCompleted(r))
         /\ TraversalCompleted(r).st = IF r.cur # 0 THEN "hp_block_reading" ELSE "lp_buffer_reading"
  BY DEF TraversalCompleted, SamePlace, SameCall, ReaderFields, IsReader, Ends

LEMMA ArriveIs ==
  ASSUME NEW r, NEW v, IsReader(r), r.st = "next_block_finding", r.cur # 0
  PROVE  /\ SamePlace(r, Arrive(r, v)) /\ Ends(r, Arrive(r, v))
         /\ Arrive(r, v).st \in {"next_block_finding", "hp_block_reading"}
  <1> DEFINE seqPending == v = "seq_pending" /\ r.ver = version
             atEnd == ~seqPending /\ r.endWorks /\ r.end = r.cur
             done == atEnd /\ r.ver = version
             marked == IF seqPending THEN [r EXCEPT !.endWorks = FALSE]
                  ELSE IF atEnd THEN IF done THEN TraversalCompleted(r) ELSE NextVersion(r)
                  ELSE IF ~r.endWorks /\ ~r.gone THEN [r EXCEPT !.endWorks = TRUE, !.end = r.cur]
                  ELSE r
  <1>1. Arrive(r, v) = IF v = "valid" /\ ~done THEN [marked EXCEPT !.st = "hp_block_reading"] ELSE marked
    BY DEF Arrive
  <1>2. /\ SamePlace(r, [r EXCEPT !.endWorks = FALSE]) /\ SameCall(r, [r EXCEPT !.endWorks = FALSE])
        /\ [r EXCEPT !.endWorks = FALSE].st = r.st
    BY DEF SamePlace, SameCall, ReaderFields, IsReader
  <1>3. /\ SamePlace(r, [r EXCEPT !.endWorks = TRUE, !.end = r.cur])
        /\ SameCall(r, [r EXCEPT !.endWorks = TRUE, !.end = r.cur])
        /\ [r EXCEPT !.endWorks = TRUE, !.end = r.cur].st = r.st
    BY DEF SamePlace, SameCall, ReaderFields, IsReader
  <1>4. SamePlace(r, r) /\ SameCall(r, r)
    BY DEF SamePlace, SameCall
  <1>5. SamePlace(r, NextVersion(r)) /\ SameCall(r, NextVersion(r)) /\ NextVersion(r).st = r.st
    BY NextVersionIs
  <1>6. SamePlace(r, TraversalCompleted(r)) /\ Ends(r, TraversalCompleted(r))
        /\ TraversalCompleted(r).st = "hp_block_reading"
    BY CompletedIs
  <1>7. SamePlace(r, marked) /\ Ends(r, marked) /\ marked.st \in {"next_block_finding", "hp_block_reading"}
    BY <1>2, <1>3, <1>4, <1>5, <1>6, Zenon DEF Ends
  <1> HIDE DEF marked, done
  <1>8. SamePlace(r, [marked EXCEPT !.st = "hp_block_reading"]) /\ Ends(r, [marked EXCEPT !.st = "hp_block_reading"])
        /\ [marked EXCEPT !.st = "hp_block_reading"].st = "hp_block_reading"
    BY <1>7 DEF SamePlace, SameCall, Ends, ReaderFields, IsReader
  <1> QED BY <1>1, <1>7, <1>8

LEMMA NoNextGroupIs ==
  ASSUME NEW r, IsReader(r)
  PROVE  /\ IsReader(NoNextGroup(r)) /\ NoNextGroup(r).cur = 0
         /\ Ends(r, NoNextGroup(r)) /\ NoNextGroup(r).st = "lp_buffer_reading"
  <1> DEFINE q == [r EXCEPT !.st = "lp_buffer_reading", !.cur = 0, !.last = 0]
  <1>1. NoNextGroup(r) = IF ~q.endWorks THEN [q EXCEPT !.endWorks = TRUE, !.end = 0]
        ELSE IF q.end # 0 THEN q
        ELSE IF q.ver = version THEN TraversalCompleted(q)
        ELSE NextVersion(q)
    BY DEF NoNextGroup
  <1>2. IsReader(q) /\ q.cur = 0 /\ q.st = "lp_buffer_reading" /\ SameCall(r, q)
    BY DEF ReaderFields, IsReader, SameCall
  <1> HIDE DEF q
  <1>3. IsReader([q EXCEPT !.endWorks = TRUE, !.end = 0])
        /\ [q EXCEPT !.endWorks = TRUE, !.end = 0].cur = 0
        /\ [q EXCEPT !.endWorks = TRUE, !.end = 0].st = "lp_buffer_reading"
        /\ SameCall(q, [q EXCEPT !.endWorks = TRUE, !.end = 0])
    BY <1>2 DEF ReaderFields, IsReader, SameCall
  <1>4. SamePlace(q, NextVersion(q)) /\ SameCall(q, NextVersion(q)) /\ NextVersion(q).st = q.st
    BY <1>2, NextVersionIs
  <1>5. SamePlace(q, TraversalCompleted(q)) /\ Ends(q, TraversalCompleted(q))
        /\ TraversalCompleted(q).st = "lp_buffer_reading"
    BY <1>2, CompletedIs
  <1> QED BY <1>1, <1>2, <1>3, <1>4, <1>5 DEF SameCall, SamePlace, Ends

-----------------------------------------------------------------------------
(***************************************************************************)
(* The lists of blocks.                                                    *)
(***************************************************************************)
LEMMA AppendOnce ==
  ASSUME NEW S, NEW s \in Seq(S), NEW x \in S, Once(s), x \notin ToSet(s)
  PROVE  Append(s, x) \in Seq(S) /\ Once(Append(s, x)) /\ ToSet(Append(s, x)) = ToSet(s) \cup {x}
  <1>1. /\ Append(s, x) \in Seq(S) /\ Len(Append(s, x)) = Len(s) + 1 /\ Len(s) \in Nat
        /\ DOMAIN Append(s, x) = 1 .. Len(s) + 1 /\ DOMAIN s = 1 .. Len(s)
        /\ \A i \in 1 .. Len(s) : Append(s, x)[i] = s[i]
        /\ Append(s, x)[Len(s) + 1] = x
    OBVIOUS
  <1> DEFINE a == Append(s, x)
  <1> HIDE DEF a
  <1>2. \A i \in 1 .. Len(s) : s[i] # x
    BY <1>1 DEF ToSet
  <1>3. Once(a)
    BY <1>1, <1>2 DEF Once, a
  <1>4. \A y : y \in ToSet(a) <=> y \in ToSet(s) \/ y = x
    BY <1>1 DEF ToSet, a
  <1> QED BY <1>1, <1>3, <1>4 DEF a

LEMMA FrontOnce ==
  ASSUME NEW S, NEW s \in Seq(S), s # <<>>, Once(s)
  PROVE  /\ Front(s) \in Seq(S) /\ Once(Front(s)) /\ ToSet(Front(s)) = ToSet(s) \ {Last(s)}
         /\ Last(s) \in ToSet(s)
  <1> DEFINE n == Len(s)
  <1>1. n \in Nat /\ n >= 1 /\ DOMAIN s = 1 .. n
    OBVIOUS
  <1>2. Front(s) = SubSeq(s, 1, n - 1) /\ Last(s) = s[n]
    BY DEF Front, Last
  <1>3. /\ SubSeq(s, 1, n - 1) \in Seq(S) /\ Len(SubSeq(s, 1, n - 1)) = n - 1
        /\ \A i \in 1 .. n - 1 : SubSeq(s, 1, n - 1)[i] = s[i]
    BY <1>1
  <1> DEFINE f == SubSeq(s, 1, n - 1)
  <1>4. DOMAIN f = 1 .. n - 1
    BY <1>3
  <1> HIDE DEF f, n
  <1>5. f \in Seq(S) /\ \A i \in 1 .. n - 1 : f[i] = s[i]
    BY <1>3 DEF f
  <1>6. Once(f)
    BY <1>1, <1>4, <1>5 DEF Once
  <1>7. \A y : y \in ToSet(f) <=> y \in ToSet(s) /\ y # s[n]
    BY <1>1, <1>4, <1>5 DEF ToSet, Once
  <1>8. s[n] \in ToSet(s)
    BY <1>1 DEF ToSet
  <1> QED BY <1>2, <1>5, <1>6, <1>7, <1>8 DEF f

LEMMA RemoveAtOnce ==
  ASSUME NEW S, NEW s \in Seq(S), NEW p \in DOMAIN s, Once(s)
  PROVE  /\ RemoveAt(s, p) \in Seq(S) /\ Once(RemoveAt(s, p))
         /\ ToSet(RemoveAt(s, p)) = ToSet(s) \ {s[p]}
  <1> DEFINE n == Len(s)
             a == SubSeq(s, 1, p - 1)
             b == SubSeq(s, p + 1, n)
  <1>1. n \in Nat /\ DOMAIN s = 1 .. n /\ p \in 1 .. n
    OBVIOUS
  <1>2. RemoveAt(s, p) = a \o b
    BY DEF RemoveAt
  <1>3. /\ a \in Seq(S) /\ Len(a) = p - 1 /\ \A i \in 1 .. p - 1 : a[i] = s[i]
        /\ b \in Seq(S) /\ Len(b) = n - p /\ \A i \in 1 .. n - p : b[i] = s[p + i]
    <2>1. a \in Seq(S) /\ Len(a) = p - 1 /\ \A i \in 1 .. p - 1 : a[i] = s[i]
      BY <1>1
    <2>2. b \in Seq(S) /\ Len(b) = n - p /\ \A i \in 1 .. n - p : b[i] = s[(p + 1) + i - 1]
      BY <1>1
    <2>3. \A i \in 1 .. n - p : (p + 1) + i - 1 = p + i
      BY <1>1
    <2> HIDE DEF a, b
    <2> QED BY <2>1, <2>2, <2>3
  <1> HIDE DEF a, b, n
  <1> DEFINE r == a \o b
  <1>4. /\ r \in Seq(S) /\ Len(r) = n - 1
        /\ \A i \in 1 .. n - 1 : r[i] = IF i <= p - 1 THEN a[i] ELSE b[i - (p - 1)]
    <2>0. a \in Seq(S) /\ b \in Seq(S)
      BY <1>3
    <2>1. r \in Seq(S) /\ Len(r) = Len(a) + Len(b)
      BY <2>0
    <2>3. \A i \in 1 .. Len(a) + Len(b) : r[i] = IF i <= Len(a) THEN a[i] ELSE b[i - Len(a)]
      BY <2>0
    <2>4. Len(a) + Len(b) = n - 1
      BY <1>1, <1>3
    <2> HIDE DEF r
    <2> QED BY <1>3, <2>1, <2>3, <2>4
  <1>5. DOMAIN r = 1 .. n - 1
    BY <1>4
  <1> HIDE DEF r
  <1>6. \A i \in 1 .. n - 1 : r[i] = IF i <= p - 1 THEN s[i] ELSE s[i + 1]
    <2> SUFFICES ASSUME NEW i \in 1 .. n - 1 PROVE r[i] = IF i <= p - 1 THEN s[i] ELSE s[i + 1]
      OBVIOUS
    <2>1. CASE i <= p - 1
      <3>1. i \in 1 .. p - 1
        BY <1>1, <2>1
      <3> QED BY <1>3, <1>4, <2>1, <3>1
    <2>2. CASE ~(i <= p - 1)
      <3>1. i - (p - 1) \in 1 .. n - p /\ p + (i - (p - 1)) = i + 1
        BY <1>1, <2>2
      <3> QED BY <1>3, <1>4, <2>2, <3>1
    <2> QED BY <2>1, <2>2
  <1> DEFINE From(i) == IF i <= p - 1 THEN i ELSE i + 1
  <1>61. \A i \in 1 .. n - 1 : r[i] = s[From(i)] /\ From(i) \in 1 .. n /\ From(i) # p
    BY <1>1, <1>6
  <1>62. \A i, j \in 1 .. n - 1 : From(i) = From(j) => i = j
    BY <1>1
  <1> HIDE DEF From
  <1>7. Once(r)
    BY <1>1, <1>5, <1>61, <1>62 DEF Once
  <1>81. \A i \in 1 .. n - 1 : r[i] # s[p]
    BY <1>1, <1>61 DEF Once
  <1>8. \A y \in ToSet(r) : y \in ToSet(s) /\ y # s[p]
    BY <1>1, <1>5, <1>61, <1>81 DEF ToSet
  <1>9. \A y \in ToSet(s) : y # s[p] => y \in ToSet(r)
    <2> SUFFICES ASSUME NEW i \in 1 .. n, s[i] # s[p] PROVE \E j \in 1 .. n - 1 : r[j] = s[i]
      BY <1>1, <1>5 DEF ToSet
    <2>1. CASE i < p
      BY <1>1, <1>6, <2>1
    <2>2. CASE i > p
      <3>1. i - 1 \in 1 .. n - 1 /\ ~(i - 1 <= p - 1) /\ (i - 1) + 1 = i
        BY <1>1, <2>2
      <3> QED BY <1>6, <3>1
    <2>3. i # p
      OBVIOUS
    <2> QED BY <1>1, <2>1, <2>2, <2>3
  <1> QED BY <1>2, <1>4, <1>7, <1>8, <1>9 DEF r

LEMMA FreeBlockIs ==
  ASSUME TypeInv, Taken # BlockIds
  PROVE  FreeBlock \in BlockIds /\ FreeBlock \notin Taken
  <1>1. Taken \subseteq BlockIds
    BY DEF TypeInv, Taken, ToSet
  <1>21. BlockIds \ Taken # {}
    BY <1>1
  <1>22. BlockIds \subseteq Nat
    BY LogBufferAssumption DEF BlockIds
  <1>2. BlockIds \ Taken # {} /\ BlockIds \ Taken \subseteq Nat
    BY <1>21, <1>22
  <1>3. \E b \in BlockIds \ Taken : \A c \in BlockIds \ Taken : b <= c
    BY <1>2, LeastNumber
  <1> QED BY <1>3 DEF FreeBlock

LEMMA FollowingIs ==
  ASSUME TypeInv, ListInv
  PROVE  /\ Following(rd.cur) \in {0} \cup BlockIds
         /\ Following(rd.cur) # 0 => Following(rd.cur) # rd.cur
         /\ Following(rd.cur) # 0 =>
               \/ Following(rd.cur) \in ToSet(used) /\ Following(rd.cur) \notin ToSet(stage)
               \/ /\ stage # <<>> /\ Following(rd.cur) = Last(stage)
                  /\ Following(rd.cur) \in ToSet(stage) /\ Following(rd.cur) \notin ToSet(used)
         /\ rd.cur # 0 => Place(rd.cur) \in DOMAIN used /\ used[Place(rd.cur)] = rd.cur
  <1>1. used \in Seq(BlockIds) /\ stage \in Seq(BlockIds) /\ Once(stage) /\ Once(used)
    BY DEF TypeInv, ListInv
  <1>2. rd.cur # 0 => Place(rd.cur) \in DOMAIN used /\ used[Place(rd.cur)] = rd.cur
    BY DEF ListInv, Place
  <1> DEFINE i == IF rd.cur = 0 THEN 0 ELSE Place(rd.cur)
  <1>3. DOMAIN used = 1 .. Len(used) /\ Len(used) \in Nat /\ DOMAIN stage = 1 .. Len(stage) /\ Len(stage) \in Nat
    BY <1>1
  <1>4. i \in 0 .. Len(used)
    BY <1>2, <1>3
  <1>5. Following(rd.cur) = IF i < Len(used) THEN used[i + 1] ELSE IF stage # <<>> THEN Last(stage) ELSE 0
    BY DEF Following
  <1>6. rd.cur # 0 => i \in DOMAIN used /\ used[i] = rd.cur
    BY <1>2
  <1> HIDE DEF i
  <1>7. CASE i < Len(used)
    <2>1. i + 1 \in DOMAIN used /\ Following(rd.cur) = used[i + 1] /\ i + 1 # i
      BY <1>3, <1>4, <1>5, <1>7
    <2>2. used[i + 1] \in BlockIds /\ used[i + 1] \in ToSet(used)
      BY <1>1, <2>1 DEF ToSet
    <2>3. used[i + 1] \notin ToSet(stage)
      BY <2>1 DEF ListInv, ToSet
    <2>4. used[i + 1] # rd.cur
      <3>1. CASE rd.cur = 0
        BY <2>2, <3>1, LogBufferAssumption DEF BlockIds
      <3>2. CASE rd.cur # 0
        BY <1>1, <1>6, <2>1, <3>2 DEF Once
      <3> QED BY <3>1, <3>2
    <2> QED BY <1>2, <2>1, <2>2, <2>3, <2>4
  <1>8. CASE ~(i < Len(used)) /\ stage # <<>>
    <2>1. Following(rd.cur) = Last(stage)
      BY <1>5, <1>8
    <2>2. Last(stage) \in ToSet(stage)
      BY <1>1, <1>8, FrontOnce
    <2>3. Last(stage) \in BlockIds
      BY <1>1, <2>2 DEF ToSet
    <2>4. Last(stage) \notin ToSet(used)
      BY <2>2 DEF ToSet, ListInv
    <2>5. Last(stage) # rd.cur
      <3>1. CASE rd.cur = 0
        BY <2>3, <3>1, LogBufferAssumption DEF BlockIds
      <3>2. CASE rd.cur # 0
        BY <1>6, <2>4, <3>2 DEF ToSet
      <3> QED BY <3>1, <3>2
    <2> QED BY <1>2, <1>8, <2>1, <2>2, <2>3, <2>4, <2>5
  <1>9. CASE ~(i < Len(used)) /\ stage = <<>>
    BY <1>2, <1>5, <1>9
  <1> QED BY <1>7, <1>8, <1>9

\* The block under way to the reader's hand leaves stage_ for used_; the block it
\* leaves for good is in no list.
LEMMA ListsIs ==
  ASSUME TypeInv, ListInv, NEW b, b = Following(rd.cur), Lists(b)
  PROVE  /\ used' \in Seq(BlockIds) /\ stage' \in Seq(BlockIds) /\ Once(used') /\ Once(stage')
         /\ \A x \in ToSet(used') : x \notin ToSet(stage')
         /\ ToSet(used') \cup ToSet(stage') = IF Leaves THEN Taken \ {rd.cur} ELSE Taken
         /\ b # 0 => b \in ToSet(used')
  <1>1. /\ used \in Seq(BlockIds) /\ stage \in Seq(BlockIds) /\ Once(stage) /\ Once(used)
        /\ \A x \in ToSet(used) : x \notin ToSet(stage)
    BY DEF TypeInv, ListInv, ToSet
  <1> DEFINE all == IF b # 0 /\ b \notin ToSet(used) THEN Append(used, b) ELSE used
             st == IF b # 0 /\ b \in ToSet(stage) THEN Front(stage) ELSE stage
  <1>2. stage' = st /\ used' = IF Leaves THEN RemoveAt(all, Place(rd.cur)) ELSE all
    BY DEF Lists
  <1>3. b \in {0} \cup BlockIds /\ (b # 0 => b # rd.cur)
    BY FollowingIs
  <1>4. b # 0 => \/ b \in ToSet(used) /\ b \notin ToSet(stage)
                 \/ stage # <<>> /\ b = Last(stage) /\ b \in ToSet(stage) /\ b \notin ToSet(used)
    BY FollowingIs
  <1>5. rd.cur # 0 => Place(rd.cur) \in DOMAIN used /\ used[Place(rd.cur)] = rd.cur
    BY FollowingIs
  <1>6. /\ all \in Seq(BlockIds) /\ Once(all) /\ st \in Seq(BlockIds) /\ Once(st)
        /\ ToSet(all) \cup ToSet(st) = Taken /\ (\A x \in ToSet(all) : x \notin ToSet(st))
        /\ (b # 0 => b \in ToSet(all))
    <2>1. CASE b = 0 \/ b \in ToSet(used)
      <3>1. all = used /\ st = stage
        BY <1>1, <1>4, <2>1
      <3> QED BY <1>1, <2>1, <3>1 DEF Taken
    <2>2. CASE b # 0 /\ b \notin ToSet(used)
      <3>1. stage # <<>> /\ b = Last(stage) /\ b \in ToSet(stage) /\ b \in BlockIds
        BY <1>3, <1>4, <2>2
      <3>2. all = Append(used, b) /\ st = Front(stage)
        BY <2>2, <3>1
      <3>3. Append(used, b) \in Seq(BlockIds) /\ Once(Append(used, b)) /\ ToSet(Append(used, b)) = ToSet(used) \cup {b}
        BY <1>1, <2>2, <3>1, AppendOnce
      <3>4. Front(stage) \in Seq(BlockIds) /\ Once(Front(stage)) /\ ToSet(Front(stage)) = ToSet(stage) \ {b}
        BY <1>1, <3>1, FrontOnce
      <3> HIDE DEF all, st
      <3> QED BY <1>1, <3>1, <3>2, <3>3, <3>4, Zenon DEF Taken
    <2> QED BY <2>1, <2>2
  <1>7. CASE ~Leaves
    BY <1>2, <1>6, <1>7
  <1>8. CASE Leaves
    <2>1. rd.cur # 0
      BY <1>8 DEF Leaves
    <2>2. Place(rd.cur) \in DOMAIN all /\ all[Place(rd.cur)] = rd.cur
      BY <1>1, <1>3, <1>5, <2>1
    <2>3. rd.cur \in ToSet(all)
      BY <2>2 DEF ToSet
    <2> HIDE DEF all, st
    <2>4. RemoveAt(all, Place(rd.cur)) \in Seq(BlockIds) /\ Once(RemoveAt(all, Place(rd.cur)))
          /\ ToSet(RemoveAt(all, Place(rd.cur))) = ToSet(all) \ {rd.cur}
      BY <1>6, <2>2, RemoveAtOnce
    <2>5. used' = RemoveAt(all, Place(rd.cur)) /\ stage' = st
      BY <1>2, <1>8
    <2>6. /\ used' \in Seq(BlockIds) /\ Once(used') /\ stage' \in Seq(BlockIds) /\ Once(stage')
          /\ ToSet(used') = ToSet(all) \ {rd.cur} /\ ToSet(stage') = ToSet(st)
      BY <1>6, <2>4, <2>5
    <2>7. /\ \A x \in ToSet(used') : x \notin ToSet(stage')
          /\ ToSet(used') \cup ToSet(stage') = Taken \ {rd.cur}
          /\ b # 0 => b \in ToSet(used')
      BY <1>3, <1>6, <2>3, <2>6, Zenon
    <2> QED BY <1>8, <2>6, <2>7
  <1> QED BY <1>7, <1>8

-----------------------------------------------------------------------------
(***************************************************************************)
(* The array of oversize buffers.                                          *)
(***************************************************************************)
LEMMA FiniteImage ==
  ASSUME NEW S, IsFiniteSet(S), NEW f, DOMAIN f = S
  PROVE  /\ IsFiniteSet({f[x] : x \in S})
         /\ Cardinality({f[x] : x \in S}) <= Cardinality(S)
  <1> DEFINE T == {f[x] : x \in S}
             g == [x \in S |-> f[x]]
  <1>1. g \in [S -> T] /\ \A y \in T : \E x \in S : g[x] = y
    OBVIOUS
  <1>2. g \in Surjection(S, T)
    BY <1>1 DEF Surjection
  <1> HIDE DEF g, T
  <1>3. IsFiniteSet(T) /\ Cardinality(T) <= Cardinality(S)
    BY <1>2, FS_Surjection
  <1> QED BY <1>3 DEF T

LEMMA NewIdIs ==
  ASSUME IsFiniteSet(ovs)
  PROVE  NewId \in Nat /\ NewId \notin OsIds
  <1> DEFINE f == [o \in ovs |-> o.id]
             n == Cardinality(ovs)
  <1>1. OsIds = {f[o] : o \in ovs} /\ DOMAIN f = ovs
    BY DEF OsIds
  <1> HIDE DEF f
  <1>2. IsFiniteSet(OsIds) /\ Cardinality(OsIds) <= n
    BY <1>1, FiniteImage
  <1>3. n \in Nat /\ Cardinality(OsIds) \in Nat
    BY <1>2, FS_CardinalityType
  <1> HIDE DEF n
  <1>4. IsFiniteSet(1 .. n + 1) /\ Cardinality(1 .. n + 1) = n + 1
    BY <1>3, FS_Interval
  <1>5. ~(1 .. n + 1 \subseteq OsIds)
    <2> SUFFICES ASSUME 1 .. n + 1 \subseteq OsIds PROVE FALSE
      OBVIOUS
    <2>1. 1 .. n + 1 \in SUBSET OsIds
      OBVIOUS
    <2>2. Cardinality(1 .. n + 1) <= Cardinality(OsIds)
      BY <1>2, <2>1, FS_Subset
    <2> QED BY <1>2, <1>3, <1>4, <2>2
  <1>6. \E i \in 1 .. n + 1 : i \notin OsIds
    BY <1>5
  <1>7. NewId \in 1 .. n + 1 /\ NewId \notin OsIds
    BY <1>6 DEF NewId, n
  <1> QED BY <1>3, <1>7

LEMMA NamedKept ==
  ASSUME NEW S, Named(S), NEW f, DOMAIN f = S, \A o \in S : f[o].id = o.id,
         NEW T, T \subseteq {f[o] : o \in S}
  PROVE  Named(T)
  <1>1. IsFiniteSet({f[o] : o \in S})
    BY FiniteImage DEF Named
  <1>2. IsFiniteSet(T)
    BY <1>1, FS_Subset
  <1>3. ASSUME NEW p \in T, NEW q \in T, p.id = q.id PROVE p = q
    <2>1. PICK o \in S : p = f[o]
      OBVIOUS
    <2>2. PICK u \in S : q = f[u]
      OBVIOUS
    <2>3. o.id = u.id
      BY <1>3, <2>1, <2>2
    <2>4. o = u
      BY <2>3 DEF Named
    <2> QED BY <2>1, <2>2, <2>4
  <1> QED BY <1>2, <1>3 DEF Named

-----------------------------------------------------------------------------
(***************************************************************************)
(* What keeps a part of the invariant, whatever the action is.             *)
(***************************************************************************)
Parts ==
    /\ TypeInv /\ ListInv /\ SeqInv /\ FinInv /\ OpenInv /\ BlockInv /\ ReaderInv
    /\ BufferInv /\ HeldInv /\ RefInv /\ FillInv /\ ChunkInv /\ RecordLive

LEMMA PartsAre == LbInv => Parts
  BY DEF LbInv, Parts

LEMMA TypesAre ==
  ASSUME TypeInv
  PROVE  /\ version \in VersionIds /\ crashes \in 0 .. MaxCrashes
         /\ DOMAIN lp = 1 .. Len(lp) /\ Len(lp) \in Nat /\ \A k \in DOMAIN lp : lp[k] \in LpContexts
         /\ DOMAIN th = Threads /\ \A u \in Threads : th[u] \in ThreadRecords
         /\ DOMAIN blk = BlockIds /\ \A b \in BlockIds : blk[b] \in BlockRecords
         /\ \A o \in ovs : o \in Buffers
         /\ Taken \subseteq BlockIds
  BY DEF TypeInv, Taken, ToSet

\* The contexts of the shared ring are d places further on; none was added.
LpFrom(d) ==
    \A k \in DOMAIN lp' :
        /\ k + d \in DOMAIN lp
        /\ lp'[k].tls = lp[k + d].tls /\ lp'[k].seq = lp[k + d].seq /\ lp'[k].fin = lp[k + d].fin
        /\ (LpLive(k))' => LpLive(k + d)
BlkNumbers ==
    \A b \in BlockIds : (BlkLive(b))' => BlkLive(b) /\ blk'[b].tls = blk[b].tls /\ blk'[b].seq = blk[b].seq
BlkFrom ==
    \A b \in BlockIds : (BlkLive(b))' =>
        BlkLive(b) /\ blk'[b].tls = blk[b].tls /\ blk'[b].seq = blk[b].seq /\ blk'[b].fin = blk[b].fin
Windows ==
    /\ \A u \in Threads : th'[u].rseq <= th'[u].wseq
    /\ \A k \in DOMAIN lp' : (LpLive(k))' => (InWindow(lp[k]))'
    /\ \A b \in BlockIds : (BlkLive(b))' => (InWindow(blk[b]))'

LEMMA SeqKept ==
  ASSUME SeqInv, TypeInv, NEW d \in Nat, DOMAIN lp' \subseteq Nat, LpFrom(d), BlkNumbers, Windows
  PROVE  SeqInv'
  <1>1. \A j, k \in DOMAIN lp' : (LpLive(j))' /\ (LpLive(k))' /\ j # k => Apart(lp'[j], lp'[k])
    <2> SUFFICES ASSUME NEW j \in DOMAIN lp', NEW k \in DOMAIN lp', (LpLive(j))', (LpLive(k))', j # k
                 PROVE  Apart(lp'[j], lp'[k])
      OBVIOUS
    <2>1. j \in Nat /\ k \in Nat /\ j + d # k + d
      OBVIOUS
    <2>2. j + d \in DOMAIN lp /\ k + d \in DOMAIN lp /\ LpLive(j + d) /\ LpLive(k + d)
          /\ lp'[j].tls = lp[j + d].tls /\ lp'[j].seq = lp[j + d].seq
          /\ lp'[k].tls = lp[k + d].tls /\ lp'[k].seq = lp[k + d].seq
      BY DEF LpFrom
    <2>3. Apart(lp[j + d], lp[k + d])
      BY <2>1, <2>2, Zenon DEF SeqInv
    <2> QED BY <2>2, <2>3 DEF Apart
  <1>2. \A a, b \in BlockIds : (BlkLive(a))' /\ (BlkLive(b))' /\ a # b => Apart(blk'[a], blk'[b])
    <2> SUFFICES ASSUME NEW a \in BlockIds, NEW b \in BlockIds, (BlkLive(a))', (BlkLive(b))', a # b
                 PROVE  Apart(blk'[a], blk'[b])
      OBVIOUS
    <2>2. BlkLive(a) /\ BlkLive(b)
          /\ blk'[a].tls = blk[a].tls /\ blk'[a].seq = blk[a].seq
          /\ blk'[b].tls = blk[b].tls /\ blk'[b].seq = blk[b].seq
      BY DEF BlkNumbers
    <2>3. Apart(blk[a], blk[b])
      BY <2>2, Zenon DEF SeqInv
    <2> QED BY <2>2, <2>3 DEF Apart
  <1>3. \A k \in DOMAIN lp', b \in BlockIds : (LpLive(k))' /\ (BlkLive(b))' => Apart(lp'[k], blk'[b])
    <2> SUFFICES ASSUME NEW k \in DOMAIN lp', NEW b \in BlockIds, (LpLive(k))', (BlkLive(b))'
                 PROVE  Apart(lp'[k], blk'[b])
      OBVIOUS
    <2>2. k + d \in DOMAIN lp /\ LpLive(k + d) /\ BlkLive(b)
          /\ lp'[k].tls = lp[k + d].tls /\ lp'[k].seq = lp[k + d].seq
          /\ blk'[b].tls = blk[b].tls /\ blk'[b].seq = blk[b].seq
      BY DEF BlkNumbers, LpFrom
    <2>3. Apart(lp[k + d], blk[b])
      BY <2>2, Zenon DEF SeqInv
    <2> QED BY <2>2, <2>3 DEF Apart
  <1>4. /\ \A k \in DOMAIN lp' : (LpLive(k))' => (InWindow(lp[k]))'
        /\ \A b \in BlockIds : (BlkLive(b))' => (InWindow(blk[b]))'
        /\ \A u \in Threads : th'[u].rseq <= th'[u].wseq
    BY DEF Windows
  <1>5. BlockIds' = BlockIds
    BY DEF BlockIds
  <1> QED BY <1>1, <1>2, <1>3, <1>4, <1>5 DEF SeqInv, Apart

\* Nobody's numbers go back, and the reader expects what it expected.
Forward == \A u \in Threads : th'[u].rseq = th[u].rseq /\ th'[u].wseq >= th[u].wseq

LEMMA WindowsKept ==
  ASSUME SeqInv, TypeInv, TypeInv', NEW d \in Nat, LpFrom(d), BlkNumbers, Forward
  PROVE  Windows
  <1>1. ASSUME NEW k \in DOMAIN lp', (LpLive(k))' PROVE (InWindow(lp[k]))'
    <2>1. k + d \in DOMAIN lp /\ lp'[k].tls = lp[k + d].tls /\ lp'[k].seq = lp[k + d].seq /\ LpLive(k + d)
      BY <1>1 DEF LpFrom
    <2>2. InWindow(lp[k + d])
      BY <2>1 DEF SeqInv
    <2>3. lp[k + d] \in LpContexts
      BY <2>1, TypesAre
    <2>4. lp[k + d].tls \in Threads /\ lp[k + d].seq \in Int
      BY <2>3 DEF LpContexts
    <2>5. \A u \in Threads : th[u].rseq \in Int /\ th[u].wseq \in Int /\ th'[u].wseq \in Int
      BY DEF TypeInv, ThreadRecords
    <2> QED BY <2>1, <2>2, <2>4, <2>5 DEF InWindow, Forward
  <1>2. ASSUME NEW b \in BlockIds, (BlkLive(b))' PROVE (InWindow(blk[b]))'
    <2>1. blk'[b].tls = blk[b].tls /\ blk'[b].seq = blk[b].seq /\ BlkLive(b)
      BY <1>2 DEF BlkNumbers
    <2>2. InWindow(blk[b])
      BY <2>1 DEF SeqInv
    <2>3. blk[b] \in BlockRecords
      BY <2>1, TypesAre
    <2>4. blk[b].tls \in Threads /\ blk[b].seq \in Int
      BY <2>3 DEF BlockRecords
    <2>5. \A u \in Threads : th[u].rseq \in Int /\ th[u].wseq \in Int /\ th'[u].wseq \in Int
      BY DEF TypeInv, ThreadRecords
    <2> QED BY <2>1, <2>2, <2>4, <2>5 DEF InWindow, Forward
  <1>3. \A u \in Threads : th'[u].rseq <= th'[u].wseq
    <2>1. \A u \in Threads : th[u].rseq \in Int /\ th[u].wseq \in Int /\ th'[u].wseq \in Int /\ th[u].rseq <= th[u].wseq
      BY DEF TypeInv, ThreadRecords, SeqInv
    <2> QED BY <2>1 DEF Forward
  <1> QED BY <1>1, <1>2, <1>3 DEF Windows

\* An ended thread stays ended.
StayEnded ==
    \A u \in Threads :
        /\ th[u].pc \in {"exit", "gone"} => th'[u].pc \in {"exit", "gone"} /\ th'[u].wseq = th[u].wseq
        /\ th[u].pc = "gone" => th'[u].pc = "gone"

LEMMA FinKept ==
  ASSUME FinInv, TypeInv, NEW d \in Nat, LpFrom(d), BlkFrom, StayEnded
  PROVE  FinInv'
  <1>1. ASSUME NEW k \in DOMAIN lp', (LpLive(k))', lp'[k].fin
        PROVE  th'[lp'[k].tls].pc \in {"exit", "gone"} /\ lp'[k].seq = th'[lp'[k].tls].wseq - 1
    <2>1. k + d \in DOMAIN lp /\ lp'[k].tls = lp[k + d].tls /\ lp'[k].seq = lp[k + d].seq
          /\ LpLive(k + d) /\ lp[k + d].fin
      BY <1>1 DEF LpFrom
    <2>2. th[lp[k + d].tls].pc \in {"exit", "gone"} /\ lp[k + d].seq = th[lp[k + d].tls].wseq - 1
      BY <2>1 DEF FinInv
    <2>3. lp[k + d].tls \in Threads
      BY <2>1, TypesAre DEF LpContexts
    <2> QED BY <2>1, <2>2, <2>3 DEF StayEnded
  <1>2. ASSUME NEW b \in BlockIds, (BlkLive(b))', blk'[b].fin
        PROVE  th'[blk'[b].tls].pc = "gone" /\ blk'[b].seq = th'[blk'[b].tls].wseq - 1
    <2>1. blk'[b].tls = blk[b].tls /\ blk'[b].seq = blk[b].seq /\ BlkLive(b) /\ blk[b].fin
      BY <1>2 DEF BlkFrom
    <2>2. th[blk[b].tls].pc = "gone" /\ blk[b].seq = th[blk[b].tls].wseq - 1
      BY <2>1 DEF FinInv
    <2>3. blk[b].tls \in Threads
      BY <2>1, TypesAre DEF BlockRecords
    <2> QED BY <2>1, <2>2, <2>3 DEF StayEnded
  <1>3. BlockIds' = BlockIds
    BY DEF BlockIds
  <1> QED BY <1>1, <1>2, <1>3 DEF FinInv

\* The reservations stay d places further on and their threads where they are.
OpenFrom(d) ==
    /\ \A k \in DOMAIN lp' : k + d \in DOMAIN lp /\ (lp'[k].st = "reserved" => lp'[k] = lp[k + d])
    /\ \A k \in DOMAIN lp : lp[k].st = "reserved" => k - d \in DOMAIN lp' /\ lp'[k - d] = lp[k]
OpenThreads ==
    \A u \in Threads :
        /\ th'[u].pc \in Writing <=> th[u].pc \in Writing
        /\ th[u].pc \in Writing =>
             /\ th'[u].wseq = th[u].wseq /\ th'[u].cur = th[u].cur
             /\ th'[u].pc = "exit" <=> th[u].pc = "exit"
             /\ th'[u].pc \in {"os", "filled", "ref"} <=> th[u].pc \in {"os", "filled", "ref"}

LEMMA OpenKept ==
  ASSUME OpenInv, TypeInv, NEW d \in Nat, OpenFrom(d), OpenThreads, version' = version
  PROVE  OpenInv'
  <1>0. ASSUME NEW u \in Threads, NEW k \in DOMAIN lp, NEW j \in DOMAIN lp', lp'[j] = lp[k],
               th[u].pc \in Writing, Reservation(k, u)
        PROVE  (Reservation(j, u))'
    BY <1>0 DEF Reservation, OpenThreads
  <1>1. ASSUME NEW u \in Threads, th'[u].pc \in Writing
        PROVE  th'[u].cur = 0 /\ \E k \in DOMAIN lp' : (Reservation(k, u))'
    <2>1. th[u].pc \in Writing /\ th'[u].cur = th[u].cur
      BY <1>1 DEF OpenThreads
    <2>2. PICK k \in DOMAIN lp : Reservation(k, u)
      BY <2>1 DEF OpenInv
    <2>3. k - d \in DOMAIN lp' /\ lp'[k - d] = lp[k]
      BY <2>2 DEF OpenFrom, Reservation
    <2>4. (Reservation(k - d, u))'
      BY <1>0, <2>1, <2>2, <2>3
    <2>5. th[u].cur = 0
      BY <2>1 DEF OpenInv
    <2> QED BY <2>1, <2>3, <2>4, <2>5
  <1>2. ASSUME NEW k \in DOMAIN lp', lp'[k].st = "reserved"
        PROVE  th'[lp'[k].tls].pc \in Writing /\ (Reservation(k, lp[k].tls))'
    <2>1. k + d \in DOMAIN lp /\ lp'[k] = lp[k + d]
      BY <1>2 DEF OpenFrom
    <2>2. th[lp[k + d].tls].pc \in Writing /\ Reservation(k + d, lp[k + d].tls)
      BY <1>2, <2>1 DEF OpenInv
    <2>3. lp[k + d].tls \in Threads
      BY <2>1, TypesAre DEF LpContexts
    <2>4. (Reservation(k, lp[k].tls))'
      <3>0. PICK u \in Threads : u = lp[k + d].tls
        BY <2>3
      <3>1. lp'[k].tls = u
        BY <2>1, <3>0
      <3>2. (Reservation(k, u))' => (Reservation(k, lp[k].tls))'
        BY <3>1 DEF Reservation
      <3>3. Reservation(k + d, u) /\ th[u].pc \in Writing
        BY <2>2, <3>0
      <3>4. (Reservation(k, u))'
        BY <1>0, <2>1, <3>3
      <3> QED BY <3>2, <3>4
    <2> QED BY <2>1, <2>2, <2>3, <2>4 DEF OpenThreads
  <1> QED BY <1>1, <1>2 DEF OpenInv

\* A thread that holds a block still holds it, and the block is as it was.
StayHolding ==
    \A u \in Threads : th'[u].pc # "gone" /\ th'[u].cur # 0 =>
        /\ th[u].pc # "gone" /\ th'[u].cur = th[u].cur /\ th'[u].wseq = th[u].wseq
        /\ th[u].cur \in Taken' /\ blk'[th[u].cur].ver = blk[th[u].cur].ver
        /\ blk'[th[u].cur].tls = blk[th[u].cur].tls /\ blk'[th[u].cur].seq = blk[th[u].cur].seq
        /\ blk'[th[u].cur].removed = blk[th[u].cur].removed /\ blk'[th[u].cur].fin = blk[th[u].cur].fin

LEMMA BlockKept ==
  ASSUME BlockInv, StayHolding, version' = version
  PROVE  BlockInv'
  <1> SUFFICES ASSUME NEW u \in Threads, th'[u].pc # "gone", th'[u].cur # 0
               PROVE  /\ th'[u].cur \in Taken' /\ blk'[th'[u].cur].ver = version'
                      /\ blk'[th'[u].cur].tls = u /\ blk'[th'[u].cur].seq = th'[u].wseq - 1
                      /\ ~blk'[th'[u].cur].removed /\ ~blk'[th'[u].cur].fin
    BY DEF BlockInv, BlkLive
  <1>1. /\ th[u].pc # "gone" /\ th'[u].cur = th[u].cur /\ th'[u].wseq = th[u].wseq
        /\ th[u].cur \in Taken' /\ blk'[th[u].cur].ver = blk[th[u].cur].ver
        /\ blk'[th[u].cur].tls = blk[th[u].cur].tls /\ blk'[th[u].cur].seq = blk[th[u].cur].seq
        /\ blk'[th[u].cur].removed = blk[th[u].cur].removed /\ blk'[th[u].cur].fin = blk[th[u].cur].fin
    BY DEF StayHolding
  <1>2. /\ blk[th[u].cur].ver = version
        /\ blk[th[u].cur].tls = u /\ blk[th[u].cur].seq = th[u].wseq - 1
        /\ ~blk[th[u].cur].removed /\ ~blk[th[u].cur].fin
    BY <1>1 DEF BlockInv, BlkLive
  <1> QED BY <1>1, <1>2

\* A reference in the ring keeps the record for what it refers to.
LEMMA RecordFromRefs ==
  ASSUME RefInv, TypeInv,
         ~destructed => /\ \A b \in Taken : blk[b].ver = version => th[blk[b].tls].rec = "live"
                        /\ \A k \in DOMAIN lp : lp[k].ver = version => th[lp[k].tls].rec = "live"
  PROVE  RecordLive
  <1>1. ASSUME ~destructed, NEW o \in ovs, o.ver = version, o.q # <<>> PROVE th[o.tls].rec = "live"
    <2>1. o.q \in Seq(Chunks)
      BY DEF TypeInv, Buffers
    <2>2. 1 \in DOMAIN o.q
      BY <1>1, <2>1
    <2>3. PICK k \in DOMAIN lp : RefOf(k, o, o.q[1])
      BY <1>1, <2>2 DEF RefInv, HasRef
    <2> QED BY <1>1, <2>3 DEF RefOf, LpLive
  <1> QED BY <1>1 DEF RecordLive

RecFrom(d) ==
    \A k \in DOMAIN lp' :
        /\ k + d \in DOMAIN lp /\ lp'[k].tls = lp[k + d].tls
        /\ lp'[k].ver = version' => lp[k + d].ver = version
RecStay == \A u \in Threads : th[u].rec = "live" => th'[u].rec = "live"

LEMMA RecordKept ==
  ASSUME RecordLive, TypeInv, TypeInv', RefInv', destructed => destructed',
         NEW d \in Nat, RecFrom(d), BlkNumbers, RecStay
  PROVE  RecordLive'
  <1>1. ASSUME ~destructed', NEW b \in Taken', blk'[b].ver = version' PROVE th'[blk'[b].tls].rec = "live"
    <2>1. b \in BlockIds
      BY DEF TypeInv, Taken, ToSet
    <2>2. BlkLive(b) /\ blk'[b].tls = blk[b].tls
      BY <1>1, <2>1 DEF BlkNumbers, BlkLive
    <2>3. th[blk[b].tls].rec = "live"
      BY <1>1, <2>2 DEF RecordLive, BlkLive
    <2>4. blk[b].tls \in Threads
      BY <2>1, TypesAre DEF BlockRecords
    <2> QED BY <2>2, <2>3, <2>4 DEF RecStay
  <1>2. ASSUME ~destructed', NEW k \in DOMAIN lp', lp'[k].ver = version' PROVE th'[lp'[k].tls].rec = "live"
    <2>1. k + d \in DOMAIN lp /\ lp'[k].tls = lp[k + d].tls /\ lp[k + d].ver = version
      BY <1>2 DEF RecFrom
    <2>2. th[lp[k + d].tls].rec = "live"
      BY <1>2, <2>1 DEF RecordLive
    <2>3. lp[k + d].tls \in Threads
      BY <2>1, TypesAre DEF LpContexts
    <2> QED BY <2>1, <2>2, <2>3 DEF RecStay
  <1>3. (RefInv /\ TypeInv /\
         (~destructed => /\ \A b \in Taken : blk[b].ver = version => th[blk[b].tls].rec = "live"
                         /\ \A k \in DOMAIN lp : lp[k].ver = version => th[lp[k].tls].rec = "live"))'
    BY <1>1, <1>2
  <1> QED BY <1>3, RecordFromRefs, PTL

\* Buffer o became p: a front part of its entries is gone, some are committed.
Became(o, p) ==
    /\ p.id = o.id /\ p.ver = o.ver /\ p.tls = o.tls
    /\ \E m \in Nat : \A i \in DOMAIN p.q :
          /\ i + m \in DOMAIN o.q /\ p.q[i].seq = o.q[i + m].seq
          /\ p.q[i].st = "reserved" => o.q[i + m].st = "reserved"
OvsFrom == Named(ovs') /\ \A p \in ovs' : \E o \in ovs : Became(o, p)

LEMMA BecameItself ==
  ASSUME NEW o \in Buffers PROVE Became(o, o)
  <1>1. \A i \in DOMAIN o.q : i + 0 \in DOMAIN o.q /\ o.q[i + 0] = o.q[i]
    BY DEF Buffers
  <1> QED BY <1>1 DEF Became

LEMMA OvsSame ==
  ASSUME TypeInv, BufferInv, ovs' = ovs PROVE OvsFrom
  BY BecameItself DEF TypeInv, BufferInv, OvsFrom

LEMMA BufferKept ==
  ASSUME BufferInv, OvsFrom, version' = version
  PROVE  BufferInv'
  BY DEF BufferInv, OvsFrom, Became, Mod, MAX_RECOVERY_VERSION_RANGE

LEMMA ChunkKept ==
  ASSUME ChunkInv, TypeInv, TypeInv', OvsFrom, version' = version
  PROVE  ChunkInv'
  <1>1. ASSUME NEW p \in ovs', p.ver = version' PROVE Ordered(p)
    <2>1. PICK o \in ovs : Became(o, p)
      BY DEF OvsFrom
    <2>2. Ordered(o)
      BY <1>1, <2>1 DEF ChunkInv, Became
    <2>3. DOMAIN p.q \subseteq Nat
      BY DEF TypeInv, Buffers
    <2>4. PICK m \in Nat : \A i \in DOMAIN p.q : i + m \in DOMAIN o.q /\ p.q[i].seq = o.q[i + m].seq
      BY <2>1 DEF Became
    <2> SUFFICES ASSUME NEW i \in DOMAIN p.q, NEW j \in DOMAIN p.q, i < j PROVE p.q[i].seq < p.q[j].seq
      BY DEF Ordered
    <2>5. i + m < j + m
      BY <2>3
    <2>6. o.q[i + m].seq < o.q[j + m].seq
      BY <2>2, <2>4, <2>5 DEF Ordered
    <2> QED BY <2>4, <2>6
  <1>2. ASSUME NEW p \in ovs', NEW r \in ovs', p.ver = version', r.ver = version', p.tls = r.tls, p # r
        PROVE  Separate(p, r)
    <2>1. PICK o \in ovs : Became(o, p)
      BY DEF OvsFrom
    <2>2. PICK u \in ovs : Became(u, r)
      BY DEF OvsFrom
    <2>3. o # u
      BY <1>2, <2>1, <2>2 DEF Became, OvsFrom, Named
    <2>4. Separate(o, u)
      BY <1>2, <2>1, <2>2, <2>3 DEF ChunkInv, Became
    <2>5. PICK m \in Nat : \A i \in DOMAIN p.q : i + m \in DOMAIN o.q /\ p.q[i].seq = o.q[i + m].seq
      BY <2>1 DEF Became
    <2>6. PICK n \in Nat : \A i \in DOMAIN r.q : i + n \in DOMAIN u.q /\ r.q[i].seq = u.q[i + n].seq
      BY <2>2 DEF Became
    <2> QED BY <2>4, <2>5, <2>6 DEF Separate
  <1> QED BY <1>1, <1>2 DEF ChunkInv, Ordered, Separate

\* Every entry still there has its reference still there.
RefsStay ==
    \A p \in ovs' : p.ver = version => \A i \in DOMAIN p.q, k \in DOMAIN lp : RefOf(k, p, p.q[i]) =>
        \E j \in DOMAIN lp' : /\ (LpLive(j))' /\ lp'[j].tls = lp[k].tls /\ lp'[j].seq = lp[k].seq
                              /\ lp'[j].ext = lp[k].ext /\ lp'[j].fin = lp[k].fin
LpStays ==
    \A k \in DOMAIN lp : LpLive(k) =>
        /\ k \in DOMAIN lp' /\ (LpLive(k))' /\ lp'[k].tls = lp[k].tls /\ lp'[k].seq = lp[k].seq
        /\ lp'[k].ext = lp[k].ext /\ lp'[k].fin = lp[k].fin

LEMMA RefsOfLp ==
  ASSUME LpStays PROVE RefsStay
  BY DEF LpStays, RefsStay, RefOf

LEMMA RefKept ==
  ASSUME RefInv, OvsFrom, RefsStay, version' = version
  PROVE  RefInv'
  <1> SUFFICES ASSUME NEW p \in ovs', p.ver = version, NEW i \in DOMAIN p.q
               PROVE  \E j \in DOMAIN lp' : /\ (LpLive(j))' /\ lp'[j].tls = p.tls /\ lp'[j].seq = p.q[i].seq
                                            /\ lp'[j].ext /\ ~lp'[j].fin
    BY DEF RefInv, HasRef, RefOf
  <1>1. PICK o \in ovs : Became(o, p)
    BY DEF OvsFrom
  <1>2. PICK m \in Nat : i + m \in DOMAIN o.q /\ p.q[i].seq = o.q[i + m].seq
    BY <1>1 DEF Became
  <1>3. PICK k \in DOMAIN lp : RefOf(k, o, o.q[i + m])
    BY <1>1, <1>2 DEF RefInv, HasRef, Became
  <1>4. RefOf(k, p, p.q[i])
    BY <1>1, <1>2, <1>3 DEF RefOf, Became
  <1>5. PICK j \in DOMAIN lp' : /\ (LpLive(j))' /\ lp'[j].tls = lp[k].tls /\ lp'[j].seq = lp[k].seq
                                /\ lp'[j].ext = lp[k].ext /\ lp'[j].fin = lp[k].fin
    BY <1>4 DEF RefsStay
  <1> QED BY <1>4, <1>5 DEF RefOf

FillStay ==
    \A u \in Threads :
        /\ th[u].pc = "filled" =>
             th'[u].pc = "filled" /\ th'[u].target = th[u].target /\ th'[u].wseq = th[u].wseq
        /\ th'[u].pc = "os" => th[u].pc = "os" /\ th'[u].wseq = th[u].wseq

LEMMA FillKept ==
  ASSUME FillInv, TypeInv, OvsFrom, FillStay, version' = version
  PROVE  FillInv'
  <1> SUFFICES ASSUME NEW p \in ovs', p.ver = version, NEW i \in DOMAIN p.q
               PROVE  /\ p.q[i].st = "reserved" =>
                           /\ th'[p.tls].pc = "filled" /\ th'[p.tls].target = p.id
                           /\ p.q[i].seq = th'[p.tls].wseq - 1
                      /\ p.q[i].seq = th'[p.tls].wseq - 1 => th'[p.tls].pc # "os"
    BY DEF FillInv, FillState
  <1>1. PICK o \in ovs : Became(o, p)
    BY DEF OvsFrom
  <1>2. PICK m \in Nat : /\ i + m \in DOMAIN o.q /\ p.q[i].seq = o.q[i + m].seq
                         /\ p.q[i].st = "reserved" => o.q[i + m].st = "reserved"
    BY <1>1 DEF Became
  <1>3. FillState(o, o.q[i + m]) /\ o.tls = p.tls /\ o.id = p.id
    BY <1>1, <1>2 DEF FillInv, Became
  <1>4. o.tls \in Threads
    BY TypesAre DEF Buffers
  <1> QED BY <1>2, <1>3, <1>4 DEF FillState, FillStay

\* The buffer a thread fills stays locked.
LockStays ==
    \A o \in ovs : o.locked => \E p \in ovs' : p.id = o.id /\ p.ver = o.ver /\ p.tls = o.tls /\ p.locked
HoldStay == \A u \in Threads : th'[u].pc = "filled" => th[u].pc = "filled" /\ th'[u].target = th[u].target

LEMMA HeldKept ==
  ASSUME HeldInv, LockStays, HoldStay, version' = version
  PROVE  HeldInv'
  <1> SUFFICES ASSUME NEW u \in Threads, th'[u].pc = "filled"
               PROVE  \E p \in ovs' : p.id = th'[u].target /\ p.ver = version /\ p.tls = u /\ p.locked
    BY DEF HeldInv
  <1>1. th[u].pc = "filled" /\ th'[u].target = th[u].target
    BY DEF HoldStay
  <1>2. PICK o \in ovs : o.id = th[u].target /\ o.ver = version /\ o.tls = u /\ o.locked
    BY <1>1 DEF HeldInv
  <1>3. PICK p \in ovs' : p.id = o.id /\ p.ver = o.ver /\ p.tls = o.tls /\ p.locked
    BY <1>2 DEF LockStays
  <1> QED BY <1>1, <1>2, <1>3

\* Nothing the reader has in its hands is touched by anybody else.
HandsOff ==
    /\ rd' = rd
    /\ rd.cur # 0 =>
         /\ blk'[rd.cur].ver = blk[rd.cur].ver /\ blk'[rd.cur].tls = blk[rd.cur].tls
         /\ blk'[rd.cur].seq = blk[rd.cur].seq /\ (blk[rd.cur].removed => blk'[rd.cur].removed)
    /\ lp # <<>> /\ lp[1].st = "used" => lp' # <<>> /\ lp'[1] = lp[1]
    /\ \A u \in Threads : th'[u].rseq = th[u].rseq
    /\ \A o \in ovs : o.q # <<>> =>
         \E p \in ovs' : /\ p.id = o.id /\ p.ver = o.ver /\ p.tls = o.tls /\ p.q # <<>>
                         /\ p.q[1].seq = o.q[1].seq

LEMMA ReaderKept ==
  ASSUME ReaderInv, TypeInv, ListInv, HandsOff, version' = version
  PROVE  ReaderInv'
  <1>1. rd.cur # 0 => rd.cur \in BlockIds
    BY DEF TypeInv, ListInv
  <1>2. rd.cur # 0 => blk[rd.cur].tls \in Threads
    BY <1>1, TypesAre DEF BlockRecords
  <1>3. lp # <<>> => lp[1].tls \in Threads
    BY TypesAre DEF LpContexts
  <1>4. (rd.cur # 0 /\ rd.gone /\ blk[rd.cur].ver = version => blk[rd.cur].removed /\ rd.verify = "valid")'
    BY DEF ReaderInv, HandsOff
  <1>5. (rd.cur # 0 /\ rd.verify = "valid" /\ blk[rd.cur].ver = version =>
            blk[rd.cur].seq = th[blk[rd.cur].tls].rseq)'
    BY <1>2 DEF ReaderInv, HandsOff
  <1>6. (Handed("lp") \/ Handed("os") \/ Handed("ref") =>
            /\ rd.st = "lp_buffer_reading"
            /\ lp # <<>> /\ lp[1].st = "used" /\ ~lp[1].fin
            /\ Handed("lp") => ~lp[1].ext
            /\ (lp[1].ver = version /\ ~Handed("ref")) => lp[1].seq = th[lp[1].tls].rseq)'
    BY <1>3 DEF ReaderInv, HandsOff, Handed
  <1>7. ASSUME (Handed("os"))'
        PROVE  \E p \in ovs' : /\ p.id = rd'.target /\ Matches(p, lp'[1]) /\ p.q # <<>>
                               /\ lp'[1].ver = version' => p.q[1].seq = lp'[1].seq
    <2>1. Handed("os") /\ lp'[1] = lp[1] /\ rd' = rd
      BY <1>7 DEF ReaderInv, HandsOff, Handed
    <2>2. PICK o \in ovs : /\ o.id = rd.target /\ Matches(o, lp[1]) /\ o.q # <<>>
                           /\ lp[1].ver = version => o.q[1].seq = lp[1].seq
      BY <2>1 DEF ReaderInv
    <2>3. PICK p \in ovs' : /\ p.id = o.id /\ p.ver = o.ver /\ p.tls = o.tls /\ p.q # <<>>
                            /\ p.q[1].seq = o.q[1].seq
      BY <2>2 DEF HandsOff
    <2> QED BY <2>1, <2>2, <2>3 DEF Matches
  <1> QED BY <1>4, <1>5, <1>6, <1>7 DEF ReaderInv, Matches

LEMMA ListKept ==
  ASSUME ListInv, used' = used, stage' = stage, rd'.cur = rd.cur, rd'.st = rd.st
  PROVE  ListInv'
  BY DEF ListInv

\* The shared ring as it was, but for commits.
LpSame ==
    /\ DOMAIN lp' = DOMAIN lp
    /\ \A k \in DOMAIN lp : /\ lp'[k].ver = lp[k].ver /\ lp'[k].tls = lp[k].tls /\ lp'[k].seq = lp[k].seq
                            /\ lp'[k].fin = lp[k].fin /\ lp'[k].ext = lp[k].ext

LEMMA LpSameKeeps ==
  ASSUME TypeInv, LpSame, version' = version, rd'.call = rd.call, rd'.hand = rd.hand
  PROVE  LpFrom(0) /\ RecFrom(0) /\ LpStays
  <1>1. \A k \in DOMAIN lp : k + 0 = k
    BY DEF TypeInv
  <1> QED BY <1>1 DEF LpSame, LpFrom, RecFrom, LpStays, LpLive, Handed

LEMMA LpUnchanged ==
  ASSUME TypeInv, lp' = lp
  PROVE  LpSame /\ OpenFrom(0)
  <1>1. \A k \in DOMAIN lp : k + 0 = k /\ k - 0 = k
    BY DEF TypeInv
  <1> QED BY <1>1 DEF LpSame, OpenFrom

\* The blocks as they were, but for what they hold and the marks on them.
BlkSame ==
    /\ used' = used /\ stage' = stage
    /\ \A b \in BlockIds : /\ blk'[b].ver = blk[b].ver /\ blk'[b].tls = blk[b].tls
                           /\ blk'[b].seq = blk[b].seq /\ blk'[b].fin = blk[b].fin

LEMMA BlkSameKeeps ==
  ASSUME BlkSame, version' = version
  PROVE  BlkFrom /\ BlkNumbers
  BY DEF BlkSame, BlkFrom, BlkNumbers, BlkLive, Taken

\* The thread t goes from one place to another; its numbers and its block are as
\* they were.
Moves(t, to) ==
    /\ th' \in [Threads -> ThreadRecords]
    /\ \A u \in Threads : u # t => th'[u] = th[u]
    /\ th'[t].pc = to /\ th'[t].cur = th[t].cur /\ th'[t].wseq = th[t].wseq /\ th'[t].rseq = th[t].rseq
    /\ th'[t].rec = th[t].rec

LEMMA MovesIs ==
  ASSUME TypeInv, NEW t \in Threads, NEW to \in Places, th' = [th EXCEPT ![t].pc = to]
  PROVE  Moves(t, to) /\ th'[t].target = th[t].target
  <1>1. th \in [Threads -> ThreadRecords] /\ th[t] \in ThreadRecords
    BY DEF TypeInv
  <1> QED BY <1>1 DEF Moves, ThreadRecords

LEMMA MovesKeeps ==
  ASSUME TypeInv, NEW t \in Threads, NEW to \in Places, Moves(t, to)
  PROVE  Forward /\ RecStay
  <1>1. \A u \in Threads : th[u].wseq \in Int
    BY DEF TypeInv, ThreadRecords
  <1> QED BY <1>1 DEF Moves, Forward, RecStay

\* What is kept when nothing is added and no number is taken back.
LEMMA MostKept ==
  ASSUME LbInv, TypeInv', ListInv', version' = version, destructed => destructed', NEW d \in Nat,
         LpFrom(d), RecFrom(d), BlkFrom, Windows, StayEnded, OpenInv', StayHolding, ReaderInv',
         OvsFrom, RefsStay, FillInv', HeldInv', RecStay
  PROVE  LbInv'
  <1>0. Parts
    BY PartsAre
  <1>1. DOMAIN lp' \subseteq Nat /\ BlkNumbers
    BY DEF TypeInv, BlkFrom, BlkNumbers
  <1>2. SeqInv'
    BY <1>0, <1>1, SeqKept DEF Parts
  <1>3. FinInv'
    BY <1>0, FinKept DEF Parts
  <1>4. BlockInv'
    BY <1>0, BlockKept DEF Parts
  <1>5. BufferInv' /\ ChunkInv' /\ RefInv'
    BY <1>0, BufferKept, ChunkKept, RefKept DEF Parts
  <1>6. RecordLive'
    BY <1>0, <1>1, <1>5, RecordKept DEF Parts
  <1> QED BY <1>2, <1>3, <1>4, <1>5, <1>6 DEF LbInv

LEMMA AllKept ==
  ASSUME LbInv, TypeInv', ListInv', version' = version, destructed => destructed', NEW d \in Nat,
         LpFrom(d), RecFrom(d), BlkFrom, Windows, StayEnded, OpenInv', StayHolding, ReaderInv',
         OvsFrom, RefsStay, FillStay, LockStays, HoldStay, RecStay
  PROVE  LbInv'
  <1>0. Parts
    BY PartsAre
  <1>1. FillInv' /\ HeldInv'
    BY <1>0, FillKept, HeldKept DEF Parts
  <1> QED BY <1>1, MostKept

-----------------------------------------------------------------------------
(***************************************************************************)
(* Writing keeps the invariant.                                            *)
(***************************************************************************)
LEMMA CommitHigh ==
  ASSUME LbInv, NEW t \in Threads, commit_high(t)
  PROVE  LbInv'
  <1>0. Parts
    BY PartsAre
  <1>00. TypeInv /\ ListInv /\ BlockInv
    BY <1>0 DEF Parts
  <1>1. /\ th[t].pc = "hp" /\ th' = [th EXCEPT ![t].pc = "idle"]
        /\ version' = version /\ lp' = lp /\ used' = used /\ stage' = stage /\ ovs' = ovs /\ rd' = rd
        /\ destructed' = destructed /\ sent' = sent /\ crashes' = crashes
        /\ blk' = [blk EXCEPT ![th[t].cur].q = Append(@, [run |-> crashes, tls |-> t, n |-> sent[crashes][t]])]
    BY DEF commit_high, ghosts, bounds
  <1>2. Moves(t, "idle") /\ th'[t].target = th[t].target
    BY <1>00, <1>1, MovesIs DEF Places
  <1>3. /\ blk' \in [BlockIds -> BlockRecords]
        /\ \A b \in BlockIds : /\ blk'[b].ver = blk[b].ver /\ blk'[b].tls = blk[b].tls /\ blk'[b].seq = blk[b].seq
                               /\ blk'[b].fin = blk[b].fin /\ blk'[b].removed = blk[b].removed
    <2>1. PICK e : e = [run |-> crashes, tls |-> t, n |-> sent[crashes][t]]
      OBVIOUS
    <2>2. sent[crashes][t] \in Int /\ crashes \in 0 .. MaxCrashes
      BY <1>00 DEF TypeInv
    <2>3. e \in Entries
      BY <2>1, <2>2 DEF Entries
    <2>4. blk \in [BlockIds -> BlockRecords]
      BY <1>00 DEF TypeInv
    <2>5. \A b \in BlockIds : Append(blk[b].q, e) \in Seq(Entries)
      BY <2>3, <2>4 DEF BlockRecords
    <2>6. PICK g : g = th[t].cur /\ blk' = [blk EXCEPT ![g].q = Append(@, e)]
      BY <1>1, <2>1
    <2>7. CASE g \notin BlockIds
      <3>1. blk' = blk
        BY <2>4, <2>6, <2>7
      <3> QED BY <2>4, <3>1
    <2>8. CASE g \in BlockIds
      <3>1. PICK s \in Seq(Entries) : s = Append(blk[g].q, e)
        BY <2>5, <2>8
      <3>2. blk' = [blk EXCEPT ![g].q = s]
        BY <2>6, <3>1
      <3> QED BY <2>4, <2>8, <3>2 DEF BlockRecords
    <2> QED BY <2>7, <2>8
  <1>4. TypeInv'
    BY <1>00, <1>1, <1>2, <1>3 DEF TypeInv, Moves
  <1>5. LpFrom(0) /\ RecFrom(0) /\ LpStays /\ OpenFrom(0)
    BY <1>00, <1>1, LpUnchanged, LpSameKeeps
  <1>6. BlkFrom /\ BlkNumbers
    BY <1>1, <1>3, BlkSameKeeps DEF BlkSame
  <1>7. OvsFrom /\ RefsStay
    BY <1>0, <1>1, <1>5, OvsSame, RefsOfLp DEF Parts
  <1>8. Forward /\ RecStay
    BY <1>00, <1>2, MovesKeeps DEF Places
  <1>9. StayEnded /\ OpenThreads /\ FillStay /\ HoldStay
    BY <1>1, <1>2 DEF StayEnded, OpenThreads, FillStay, HoldStay, Moves, Writing
  <1>10. StayHolding
    <2>1. Taken' = Taken
      BY <1>1 DEF Taken
    <2>2. \A u \in Threads : th[u].pc # "gone" /\ th[u].cur # 0 => th[u].cur \in Taken /\ th[u].cur \in BlockIds
      BY <1>00, TypesAre DEF BlockInv, BlkLive
    <2> QED BY <1>1, <1>2, <1>3, <2>1, <2>2 DEF StayHolding, Moves
  <1>11. HandsOff
    <2>1. rd.cur # 0 => rd.cur \in BlockIds
      BY <1>00 DEF TypeInv, ListInv
    <2> QED BY <1>1, <1>2, <1>3, <2>1 DEF HandsOff, Moves
  <1>12. LockStays
    BY <1>1 DEF LockStays
  <1>13. Windows
    BY <1>0, <1>4, <1>5, <1>6, <1>8, WindowsKept DEF Parts
  <1>14. OpenInv'
    BY <1>0, <1>1, <1>5, <1>9, OpenKept DEF Parts
  <1>15. ReaderInv'
    BY <1>0, <1>1, <1>11, ReaderKept DEF Parts
  <1>16. ListInv'
    BY <1>0, <1>1, ListKept DEF Parts
  <1> QED BY <1>1, <1>4, <1>5, <1>6, <1>7, <1>8, <1>9, <1>10, <1>12, <1>13, <1>14, <1>15, <1>16, AllKept

\* A thread stays with its block when only marks of other blocks are set.
LEMMA HoldersApart ==
  ASSUME TypeInv, BlockInv, NEW t \in Threads, NEW u \in Threads, u # t,
         th[t].pc # "gone", th[u].pc # "gone", th[u].cur # 0
  PROVE  th[u].cur # th[t].cur /\ th[u].cur \in Taken /\ th[u].cur \in BlockIds
  <1>1. th[u].cur \in Taken /\ blk[th[u].cur].tls = u
    BY DEF BlockInv, BlkLive
  <1>2. th[t].cur # 0 => blk[th[t].cur].tls = t
    BY DEF BlockInv
  <1> QED BY <1>1, <1>2, TypesAre

LEMMA LeaveBlockIs ==
  ASSUME TypeInv, NEW t \in Threads
  PROVE  /\ LeaveBlock(t) \in [BlockIds -> BlockRecords]
         /\ \A b \in BlockIds :
              /\ LeaveBlock(t)[b].ver = blk[b].ver /\ LeaveBlock(t)[b].tls = blk[b].tls
              /\ LeaveBlock(t)[b].seq = blk[b].seq /\ LeaveBlock(t)[b].fin = blk[b].fin
              /\ blk[b].removed => LeaveBlock(t)[b].removed
              /\ b # th[t].cur => LeaveBlock(t)[b] = blk[b]
  <1>1. blk \in [BlockIds -> BlockRecords]
    BY DEF TypeInv
  <1>2. CASE th[t].cur = 0
    BY <1>1, <1>2 DEF LeaveBlock
  <1>3. CASE th[t].cur # 0
    <2>1. PICK g \in BlockIds : g = th[t].cur
      BY <1>3 DEF TypeInv, ThreadRecords, BlockIds
    <2>2. LeaveBlock(t) = [blk EXCEPT ![g].removed = TRUE]
      BY <1>3, <2>1 DEF LeaveBlock, Removed
    <2>3. PICK x : x = [blk EXCEPT ![g].removed = TRUE]
      OBVIOUS
    <2>4. x \in [BlockIds -> BlockRecords]
      <3>1. PICK y : y = [blk[g] EXCEPT !.removed = TRUE]
        OBVIOUS
      <3>2. y \in BlockRecords
        BY <1>1, <2>1, <3>1 DEF BlockRecords
      <3>3. x = [blk EXCEPT ![g] = y]
        BY <2>3, <3>1
      <3> QED BY <1>1, <3>2, <3>3
    <2>5. /\ \A b \in BlockIds : b # g => x[b] = blk[b]
          /\ x[g].ver = blk[g].ver /\ x[g].tls = blk[g].tls /\ x[g].seq = blk[g].seq /\ x[g].fin = blk[g].fin
          /\ x[g].removed
      BY <1>1, <2>1, <2>3 DEF BlockRecords
    <2> QED BY <2>1, <2>2, <2>3, <2>4, <2>5
  <1> QED BY <1>2, <1>3

LEMMA CommitRing ==
  ASSUME LbInv, NEW t \in Threads, NEW to \in Places, CommitLp(t), th' = [th EXCEPT ![t].pc = to],
         \/ th[t].pc \in {"lp", "ref"} /\ to = "idle"
         \/ th[t].pc = "exit" /\ to = "gone",
         UNCHANGED <<version, used, stage, blk, ovs, rd, destructed, sent, crashes>>
  PROVE  LbInv'
  <1>0. Parts
    BY PartsAre
  <1>00. TypeInv /\ ListInv /\ BlockInv /\ OpenInv
    BY <1>0 DEF Parts
  <1>1. lp' = [k \in DOMAIN lp |->
             IF lp[k].tls = t /\ lp[k].st = "reserved" THEN [lp[k] EXCEPT !.st = "used"] ELSE lp[k]]
    BY DEF CommitLp
  <1>2. Moves(t, to) /\ th'[t].target = th[t].target
    BY <1>00, MovesIs
  <1>3. /\ \A k \in DOMAIN lp : lp[k] \in LpContexts
        /\ lp \in Seq(LpContexts) /\ DOMAIN lp = 1 .. Len(lp) /\ Len(lp) \in Nat
    BY <1>00, TypesAre DEF TypeInv
  <1>31. \A k \in DOMAIN lp : /\ lp'[k] \in LpContexts /\ lp'[k] = [lp[k] EXCEPT !.st = lp'[k].st]
                              /\ lp'[k].st = IF lp[k].tls = t THEN "used" ELSE lp[k].st
                              /\ lp[k].st = "used" => lp'[k] = lp[k]
                              /\ lp[k].tls # t => lp'[k] = lp[k]
    BY <1>1, <1>3 DEF LpContexts
  <1>32. lp' \in Seq(LpContexts) /\ DOMAIN lp' = DOMAIN lp
    <2>1. DOMAIN lp' = 1 .. Len(lp)
      BY <1>1, <1>3
    <2>2. lp' = [k \in 1 .. Len(lp) |-> lp'[k]]
      BY <1>1, <1>3
    <2>3. \A k \in 1 .. Len(lp) : lp'[k] \in LpContexts
      BY <1>3, <1>31
    <2>4. [k \in 1 .. Len(lp) |-> lp'[k]] \in Seq(LpContexts)
      BY <1>3, <2>3
    <2> QED BY <1>3, <2>1, <2>2, <2>4
  <1>33. LpSame
    BY <1>3, <1>31, <1>32 DEF LpSame, LpContexts
  <1>4. TypeInv'
    BY <1>00, <1>2, <1>32 DEF TypeInv, Moves
  <1>5. LpFrom(0) /\ RecFrom(0) /\ LpStays
    BY <1>00, <1>33, LpSameKeeps
  <1>6. BlkFrom /\ BlkNumbers
    BY BlkSameKeeps DEF BlkSame
  <1>7. OvsFrom /\ RefsStay
    BY <1>0, <1>5, OvsSame, RefsOfLp DEF Parts
  <1>8. Forward /\ RecStay
    BY <1>00, <1>2, MovesKeeps
  <1>9. StayEnded /\ FillStay /\ HoldStay
    BY <1>2 DEF StayEnded, FillStay, HoldStay, Moves, Writing
  <1>91. th[t].cur = 0 /\ th[t].pc \in Writing /\ to \notin Writing
    BY <1>00 DEF OpenInv, Writing
  <1>10. StayHolding
    <2>1. Taken' = Taken
      BY DEF Taken
    <2>2. \A u \in Threads : th[u].pc # "gone" /\ th[u].cur # 0 => th[u].cur \in Taken /\ th[u].cur \in BlockIds
      BY <1>00, TypesAre DEF BlockInv, BlkLive
    <2> QED BY <1>2, <1>91, <2>1, <2>2 DEF StayHolding, Moves
  <1>11. HandsOff
    <2>1. lp # <<>> /\ lp[1].st = "used" => lp' # <<>> /\ lp'[1] = lp[1]
      BY <1>3, <1>31, <1>32
    <2> QED BY <1>2, <2>1 DEF HandsOff, Moves
  <1>12. LockStays
    BY DEF LockStays
  <1>13. Windows
    BY <1>0, <1>4, <1>5, <1>6, <1>8, WindowsKept DEF Parts
  <1>14. OpenInv'
    <2>1. ASSUME NEW u \in Threads, th'[u].pc \in Writing
          PROVE  th'[u].cur = 0 /\ \E k \in DOMAIN lp' : (Reservation(k, u))'
      <3>1. u # t /\ th'[u] = th[u]
        BY <1>2, <1>91, <2>1 DEF Moves
      <3>2. PICK k \in DOMAIN lp : Reservation(k, u)
        BY <1>00, <2>1, <3>1 DEF OpenInv
      <3>3. lp'[k] = lp[k] /\ k \in DOMAIN lp'
        BY <1>31, <1>32, <3>1, <3>2 DEF Reservation
      <3>4. (Reservation(k, u))'
        BY <3>1, <3>2, <3>3 DEF Reservation
      <3> QED BY <1>00, <2>1, <3>1, <3>3, <3>4 DEF OpenInv
    <2>2. ASSUME NEW k \in DOMAIN lp', lp'[k].st = "reserved"
          PROVE  th'[lp'[k].tls].pc \in Writing /\ (Reservation(k, lp[k].tls))'
      <3>1. k \in DOMAIN lp /\ lp[k].tls # t /\ lp'[k] = lp[k] /\ lp[k].tls \in Threads
        BY <1>3, <1>31, <1>32, <2>2 DEF LpContexts
      <3>2. th'[lp[k].tls] = th[lp[k].tls]
        BY <1>2, <3>1 DEF Moves
      <3>3. th[lp[k].tls].pc \in Writing /\ Reservation(k, lp[k].tls)
        BY <1>00, <2>2, <3>1 DEF OpenInv
      <3> QED BY <3>1, <3>2, <3>3 DEF Reservation
    <2> QED BY <2>1, <2>2 DEF OpenInv
  <1>15. ReaderInv'
    BY <1>0, <1>11, ReaderKept DEF Parts
  <1>16. ListInv'
    BY <1>0, ListKept DEF Parts
  <1> QED BY <1>4, <1>5, <1>6, <1>7, <1>8, <1>9, <1>10, <1>12, <1>13, <1>14, <1>15, <1>16, AllKept

LEMMA CommitLow ==
  ASSUME LbInv, NEW t \in Threads, commit_low(t) \/ exit_commit(t)
  PROVE  LbInv'
  <1>1. CASE commit_low(t)
    <2>1. /\ CommitLp(t) /\ th' = [th EXCEPT ![t].pc = "idle"] /\ th[t].pc \in {"lp", "ref"}
          /\ UNCHANGED <<version, used, stage, blk, ovs, rd, destructed, sent, crashes>>
      BY <1>1 DEF commit_low, ghosts, bounds
    <2> QED BY <2>1, CommitRing DEF Places
  <1>2. CASE exit_commit(t)
    <2>1. /\ CommitLp(t) /\ th' = [th EXCEPT ![t].pc = "gone"] /\ th[t].pc = "exit"
          /\ UNCHANGED <<version, used, stage, blk, ovs, rd, destructed, sent, crashes>>
      BY <1>2 DEF exit_commit, ghosts, bounds
    <2> QED BY <2>1, CommitRing DEF Places
  <1> QED BY <1>1, <1>2

LEMMA AllocRefused ==
  ASSUME LbInv, NEW t \in Threads, alloc_refused(t)
  PROVE  LbInv'
  <1>0. Parts
    BY PartsAre
  <1>00. TypeInv /\ ListInv /\ BlockInv
    BY <1>0 DEF Parts
  <1>1. /\ th[t].pc = "idle" /\ th' = [th EXCEPT ![t].cur = 0] /\ blk' = LeaveBlock(t)
        /\ version' = version /\ lp' = lp /\ used' = used /\ stage' = stage /\ ovs' = ovs /\ rd' = rd
        /\ destructed' = destructed /\ sent' = sent /\ crashes' = crashes
    BY DEF alloc_refused, bounds, MayWrite
  <1>2. /\ th' \in [Threads -> ThreadRecords] /\ \A u \in Threads : u # t => th'[u] = th[u]
        /\ th'[t].pc = th[t].pc /\ th'[t].cur = 0 /\ th'[t].wseq = th[t].wseq /\ th'[t].rseq = th[t].rseq
        /\ th'[t].rec = th[t].rec /\ th'[t].target = th[t].target /\ th[t].wseq \in Int
    <2>1. th \in [Threads -> ThreadRecords] /\ th[t] \in ThreadRecords /\ 0 \in 0 .. Blocks
      BY <1>00, LogBufferAssumption DEF TypeInv
    <2> QED BY <1>1, <2>1 DEF ThreadRecords
  <1>3. /\ blk' \in [BlockIds -> BlockRecords]
        /\ \A b \in BlockIds :
              /\ blk'[b].ver = blk[b].ver /\ blk'[b].tls = blk[b].tls
              /\ blk'[b].seq = blk[b].seq /\ blk'[b].fin = blk[b].fin
              /\ blk[b].removed => blk'[b].removed
              /\ b # th[t].cur => blk'[b] = blk[b]
    BY <1>00, <1>1, LeaveBlockIs
  <1>4. TypeInv'
    BY <1>00, <1>1, <1>2, <1>3 DEF TypeInv
  <1>5. LpFrom(0) /\ RecFrom(0) /\ LpStays /\ OpenFrom(0)
    BY <1>00, <1>1, LpUnchanged, LpSameKeeps
  <1>6. BlkFrom /\ BlkNumbers
    BY <1>1, <1>3, BlkSameKeeps DEF BlkSame
  <1>7. OvsFrom /\ RefsStay
    BY <1>0, <1>1, <1>5, OvsSame, RefsOfLp DEF Parts
  <1>8. Forward /\ RecStay
    <2>1. \A u \in Threads : th[u].wseq \in Int
      BY <1>00 DEF TypeInv, ThreadRecords
    <2> QED BY <1>2, <2>1 DEF Forward, RecStay
  <1>9. StayEnded /\ OpenThreads /\ FillStay /\ HoldStay
    BY <1>1, <1>2 DEF StayEnded, OpenThreads, FillStay, HoldStay, Writing
  <1>10. StayHolding
    <2>1. Taken' = Taken
      BY <1>1 DEF Taken
    <2>2. \A u \in Threads : u # t /\ th[u].pc # "gone" /\ th[u].cur # 0 =>
              th[u].cur # th[t].cur /\ th[u].cur \in Taken /\ th[u].cur \in BlockIds
      BY <1>00, <1>1, HoldersApart
    <2> QED BY <1>2, <1>3, <2>1, <2>2 DEF StayHolding
  <1>11. HandsOff
    <2>1. rd.cur # 0 => rd.cur \in BlockIds
      BY <1>00 DEF TypeInv, ListInv
    <2> QED BY <1>1, <1>2, <1>3, <2>1 DEF HandsOff
  <1>12. LockStays
    BY <1>1 DEF LockStays
  <1>13. Windows
    BY <1>0, <1>4, <1>5, <1>6, <1>8, WindowsKept DEF Parts
  <1>14. OpenInv'
    BY <1>0, <1>1, <1>5, <1>9, OpenKept DEF Parts
  <1>15. ReaderInv'
    BY <1>0, <1>1, <1>11, ReaderKept DEF Parts
  <1>16. ListInv'
    BY <1>0, <1>1, ListKept DEF Parts
  <1> QED BY <1>1, <1>4, <1>5, <1>6, <1>7, <1>8, <1>9, <1>10, <1>12, <1>13, <1>14, <1>15, <1>16, AllKept

\* Destruction of the log, and a thread that finds it gone: only records change,
\* and nobody looks at them any more.
LEMMA AfterDestruct ==
  ASSUME LbInv, destructed', UNCHANGED <<version, lp, used, stage, blk, ovs, rd, sent, crashes>>,
         \/ th' = th
         \/ \E t \in Threads : th[t].pc = "idle" /\ th' = [th EXCEPT ![t].pc = "gone", ![t].rec = "freed"]
  PROVE  LbInv'
  <1>0. Parts
    BY PartsAre
  <1>00. TypeInv /\ ListInv /\ BlockInv
    BY <1>0 DEF Parts
  <1>2. /\ th' \in [Threads -> ThreadRecords]
        /\ \A u \in Threads : /\ th'[u].cur = th[u].cur /\ th'[u].wseq = th[u].wseq /\ th'[u].rseq = th[u].rseq
                              /\ th'[u].target = th[u].target
                              /\ th'[u].pc = th[u].pc \/ (th[u].pc = "idle" /\ th'[u].pc = "gone")
    <2>1. th \in [Threads -> ThreadRecords]
      BY <1>00 DEF TypeInv
    <2>2. CASE th' = th
      BY <2>1, <2>2
    <2>3. ASSUME NEW t \in Threads, th[t].pc = "idle", th' = [th EXCEPT ![t].pc = "gone", ![t].rec = "freed"]
          PROVE  /\ th' \in [Threads -> ThreadRecords]
        /\ \A u \in Threads : /\ th'[u].cur = th[u].cur /\ th'[u].wseq = th[u].wseq /\ th'[u].rseq = th[u].rseq
                              /\ th'[u].target = th[u].target
                              /\ th'[u].pc = th[u].pc \/ (th[u].pc = "idle" /\ th'[u].pc = "gone")
      BY <2>1, <2>3 DEF ThreadRecords, Places
    <2> QED BY <2>2, <2>3
  <1>4. TypeInv'
    BY <1>00, <1>2 DEF TypeInv
  <1>5. LpFrom(0) /\ RecFrom(0) /\ LpStays /\ OpenFrom(0)
    BY <1>00, LpUnchanged, LpSameKeeps
  <1>6. BlkFrom /\ BlkNumbers
    BY BlkSameKeeps DEF BlkSame
  <1>7. OvsFrom /\ RefsStay
    BY <1>0, <1>5, OvsSame, RefsOfLp DEF Parts
  <1>8. Forward
    <2>1. \A u \in Threads : th[u].wseq \in Int
      BY <1>00 DEF TypeInv, ThreadRecords
    <2> QED BY <1>2, <2>1 DEF Forward
  <1>9. StayEnded /\ OpenThreads /\ FillStay /\ HoldStay
    BY <1>2 DEF StayEnded, OpenThreads, FillStay, HoldStay, Writing
  <1>10. StayHolding
    <2>1. Taken' = Taken
      BY DEF Taken
    <2>2. \A u \in Threads : th[u].pc # "gone" /\ th[u].cur # 0 => th[u].cur \in Taken
      BY <1>00 DEF BlockInv, BlkLive
    <2> QED BY <1>2, <2>1, <2>2 DEF StayHolding
  <1>11. HandsOff
    BY <1>2 DEF HandsOff
  <1>12. LockStays
    BY DEF LockStays
  <1>13. Windows
    BY <1>0, <1>4, <1>5, <1>6, <1>8, WindowsKept DEF Parts
  <1>14. OpenInv'
    BY <1>0, <1>5, <1>9, OpenKept DEF Parts
  <1>15. ReaderInv'
    BY <1>0, <1>11, ReaderKept DEF Parts
  <1>16. ListInv'
    BY <1>0, ListKept DEF Parts
  <1>17. SeqInv' /\ FinInv' /\ BlockInv'
    <2>1. DOMAIN lp' \subseteq Nat
      BY <1>00 DEF TypeInv
    <2> QED BY <1>0, <1>5, <1>6, <1>9, <1>10, <1>13, <2>1, SeqKept, FinKept, BlockKept DEF Parts
  <1>18. BufferInv' /\ ChunkInv' /\ RefInv' /\ FillInv' /\ HeldInv'
    BY <1>0, <1>4, <1>7, <1>9, <1>12, BufferKept, ChunkKept, RefKept, FillKept, HeldKept DEF Parts
  <1>19. RecordLive'
    BY DEF RecordLive
  <1> QED BY <1>4, <1>14, <1>15, <1>16, <1>17, <1>18, <1>19 DEF LbInv

\* A new thread at the address of a freed record: nothing of this version names it.
LEMMA StartThread ==
  ASSUME LbInv, NEW t \in Threads, start_thread(t)
  PROVE  LbInv'
  <1>0. Parts
    BY PartsAre
  <1>00. TypeInv /\ ListInv /\ BlockInv /\ RecordLive /\ SeqInv /\ FinInv /\ ReaderInv /\ FillInv
    BY <1>0 DEF Parts
  <1>1. /\ th[t].pc = "gone" /\ th[t].rec = "freed" /\ ~destructed /\ th' = [th EXCEPT ![t] = NewThread]
        /\ version' = version /\ lp' = lp /\ used' = used /\ stage' = stage /\ ovs' = ovs /\ rd' = rd
        /\ blk' = blk /\ destructed' = destructed /\ sent' = sent /\ crashes' = crashes
    BY DEF start_thread, ghosts, bounds, files
  <1>2. /\ th' \in [Threads -> ThreadRecords] /\ \A u \in Threads : u # t => th'[u] = th[u]
        /\ th'[t].pc = "idle" /\ th'[t].cur = 0 /\ th'[t].rec = "live"
    <2>1. th \in [Threads -> ThreadRecords] /\ 0 \in 0 .. Blocks
      BY <1>00, LogBufferAssumption DEF TypeInv
    <2> QED BY <1>1, <2>1 DEF ThreadRecords, NewThread, Places
  <1>3. /\ \A k \in DOMAIN lp : lp[k].ver = version => lp[k].tls # t /\ lp[k].tls \in Threads
        /\ \A b \in BlockIds : BlkLive(b) => blk[b].tls # t /\ blk[b].tls \in Threads
        /\ \A o \in ovs : o.ver = version /\ o.q # <<>> => o.tls # t /\ o.tls \in Threads
    <2>1. \A k \in DOMAIN lp : lp[k].tls \in Threads
      BY <1>00, TypesAre DEF LpContexts
    <2>2. \A b \in BlockIds : blk[b].tls \in Threads
      BY <1>00, TypesAre DEF BlockRecords
    <2>3. \A o \in ovs : o.tls \in Threads
      BY <1>00, TypesAre DEF Buffers
    <2> QED BY <1>00, <1>1, <2>1, <2>2, <2>3 DEF RecordLive, BlkLive
  <1>4. TypeInv'
    BY <1>00, <1>1, <1>2 DEF TypeInv
  <1>5. LpFrom(0) /\ RecFrom(0) /\ LpStays /\ OpenFrom(0)
    BY <1>00, <1>1, LpUnchanged, LpSameKeeps
  <1>6. BlkFrom /\ BlkNumbers
    BY <1>1, BlkSameKeeps DEF BlkSame
  <1>7. OvsFrom /\ RefsStay
    BY <1>0, <1>1, <1>5, OvsSame, RefsOfLp DEF Parts
  <1>8. RecStay
    BY <1>2 DEF RecStay
  <1>9. OpenThreads /\ HoldStay
    BY <1>1, <1>2 DEF OpenThreads, HoldStay, Writing
  <1>10. StayHolding
    <2>1. Taken' = Taken
      BY <1>1 DEF Taken
    <2>2. \A u \in Threads : th[u].pc # "gone" /\ th[u].cur # 0 => th[u].cur \in Taken
      BY <1>00 DEF BlockInv, BlkLive
    <2> QED BY <1>1, <1>2, <2>1, <2>2 DEF StayHolding
  <1>12. LockStays
    BY <1>1 DEF LockStays
  <1>20. /\ \A k \in DOMAIN lp' : (LpLive(k))' => LpLive(k) /\ lp'[k] = lp[k] /\ th'[lp[k].tls] = th[lp[k].tls]
         /\ \A b \in BlockIds : (BlkLive(b))' => BlkLive(b) /\ blk'[b] = blk[b] /\ th'[blk[b].tls] = th[blk[b].tls]
         /\ DOMAIN lp' = DOMAIN lp
    <2>1. \A k \in DOMAIN lp' : (LpLive(k))' => LpLive(k)
      BY <1>1 DEF LpLive, Handed
    <2>2. \A b \in BlockIds : (BlkLive(b))' => BlkLive(b)
      BY <1>1 DEF BlkLive, Taken
    <2>3. \A k \in DOMAIN lp : LpLive(k) => th'[lp[k].tls] = th[lp[k].tls]
      BY <1>2, <1>3 DEF LpLive
    <2>4. \A b \in BlockIds : BlkLive(b) => th'[blk[b].tls] = th[blk[b].tls]
      BY <1>2, <1>3
    <2> QED BY <1>1, <2>1, <2>2, <2>3, <2>4
  <1>13. Windows
    <2>1. \A u \in Threads : th'[u].rseq <= th'[u].wseq
      <3>1. th'[t] = NewThread
        BY <1>00, <1>1 DEF TypeInv
      <3> QED BY <1>00, <1>2, <3>1 DEF NewThread, SeqInv
    <2> QED BY <1>00, <1>1, <1>20, <2>1 DEF Windows, SeqInv, InWindow
  <1>21. FinInv'
    <2>1. BlockIds' = BlockIds
      BY DEF BlockIds
    <2> QED BY <1>00, <1>1, <1>20, <2>1 DEF FinInv
  <1>14. OpenInv'
    BY <1>0, <1>1, <1>5, <1>9, OpenKept DEF Parts
  <1>15. ReaderInv'
    <2>1. rd.cur # 0 => rd.cur \in Taken /\ rd.cur \in BlockIds
      BY <1>00 DEF TypeInv, ListInv, Taken, ToSet
    <2>2. rd.cur # 0 /\ blk[rd.cur].ver = version => th'[blk[rd.cur].tls] = th[blk[rd.cur].tls]
      BY <1>2, <1>3, <2>1 DEF BlkLive
    <2>3. lp # <<>> => 1 \in DOMAIN lp
      BY <1>00 DEF TypeInv
    <2>4. lp # <<>> /\ lp[1].ver = version => th'[lp[1].tls] = th[lp[1].tls]
      BY <1>2, <1>3, <2>3
    <2> QED BY <1>00, <1>1, <2>2, <2>4 DEF ReaderInv, Handed
  <1>16. ListInv'
    BY <1>0, <1>1, ListKept DEF Parts
  <1>17. SeqInv' /\ BlockInv'
    <2>1. DOMAIN lp' \subseteq Nat
      BY <1>4 DEF TypeInv
    <2> QED BY <1>0, <1>1, <1>5, <1>6, <1>10, <1>13, <2>1, SeqKept, BlockKept DEF Parts
  <1>22. FillInv'
    <2>1. \A o \in ovs : \A i \in DOMAIN o.q : o.q # <<>>
      OBVIOUS
    <2>2. \A o \in ovs : o.ver = version => \A i \in DOMAIN o.q : th'[o.tls] = th[o.tls]
      BY <1>2, <1>3, <2>1
    <2> QED BY <1>00, <1>1, <2>2 DEF FillInv, FillState
  <1>18. BufferInv' /\ ChunkInv' /\ RefInv' /\ HeldInv'
    BY <1>0, <1>1, <1>4, <1>7, <1>9, <1>12, BufferKept, ChunkKept, RefKept, HeldKept DEF Parts
  <1>19. RecordLive'
    BY <1>0, <1>1, <1>4, <1>5, <1>6, <1>8, <1>18, RecordKept DEF Parts
  <1> QED BY <1>4, <1>14, <1>15, <1>16, <1>17, <1>18, <1>19, <1>21, <1>22 DEF LbInv

LEMMA CommitOversize ==
  ASSUME LbInv, NEW t \in Threads, commit_oversize(t)
  PROVE  LbInv'
  <1>0. Parts
    BY PartsAre
  <1>00. TypeInv /\ ListInv /\ BlockInv /\ OpenInv /\ FillInv /\ BufferInv /\ HeldInv
    BY <1>0 DEF Parts
  <1> DEFINE Done(q) == [k \in DOMAIN q |-> [q[k] EXCEPT !.st = "used"]]
             f == [o \in ovs |-> IF o.id = th[t].target
                                 THEN [o EXCEPT !.locked = FALSE, !.q = Done(o.q)] ELSE o]
  <1>1. /\ th[t].pc = "filled" /\ th' = [th EXCEPT ![t].pc = "ref", ![t].target = 0]
        /\ version' = version /\ lp' = lp /\ used' = used /\ stage' = stage /\ blk' = blk /\ rd' = rd
        /\ destructed' = destructed /\ sent' = sent /\ crashes' = crashes
        /\ ovs' = {f[o] : o \in ovs}
    BY DEF commit_oversize, ghosts, bounds
  <1>2. Moves(t, "ref") /\ th'[t].target = 0
    <2>1. th \in [Threads -> ThreadRecords] /\ th[t] \in ThreadRecords
      BY <1>00 DEF TypeInv
    <2> QED BY <1>1, <2>1 DEF Moves, ThreadRecords, Places
  <1>3. ASSUME NEW o \in ovs
        PROVE  /\ f[o] \in Buffers /\ f[o].id = o.id /\ f[o].ver = o.ver /\ f[o].tls = o.tls
               /\ DOMAIN f[o].q = DOMAIN o.q
               /\ \A i \in DOMAIN o.q : /\ f[o].q[i].seq = o.q[i].seq
                                        /\ f[o].q[i].st = IF o.id = th[t].target THEN "used" ELSE o.q[i].st
               /\ o.id # th[t].target => f[o] = o
    <2>1. o \in Buffers /\ o.q \in Seq(Chunks)
      BY <1>00 DEF TypeInv, Buffers
    <2>2. DOMAIN o.q = 1 .. Len(o.q) /\ Len(o.q) \in Nat /\ \A i \in DOMAIN o.q : o.q[i] \in Chunks
      BY <2>1
    <2>3. /\ DOMAIN Done(o.q) = 1 .. Len(o.q)
          /\ \A i \in 1 .. Len(o.q) : /\ Done(o.q)[i] \in Chunks /\ Done(o.q)[i].seq = o.q[i].seq
                                      /\ Done(o.q)[i].st = "used"
      BY <2>2 DEF Chunks
    <2>4. Done(o.q) \in Seq(Chunks)
      <3>1. Done(o.q) = [i \in 1 .. Len(o.q) |-> Done(o.q)[i]]
        BY <2>2
      <3> HIDE DEF Done
      <3> QED BY <2>2, <2>3, <3>1, FcnSeq
    <2> HIDE DEF Done
    <2>5. f[o] = IF o.id = th[t].target THEN [o EXCEPT !.locked = FALSE, !.q = Done(o.q)] ELSE o
      OBVIOUS
    <2>6. CASE o.id = th[t].target
      <3>1. f[o] = [o EXCEPT !.locked = FALSE, !.q = Done(o.q)]
        BY <2>5, <2>6
      <3>2. f[o] \in Buffers /\ f[o].id = o.id /\ f[o].ver = o.ver /\ f[o].tls = o.tls /\ f[o].q = Done(o.q)
        BY <2>1, <2>4, <3>1 DEF Buffers
      <3> QED BY <2>2, <2>3, <2>6, <3>2
    <2>7. CASE o.id # th[t].target
      BY <2>1, <2>5, <2>7
    <2> QED BY <2>6, <2>7
  <1>31. DOMAIN f = ovs
    OBVIOUS
  <1> HIDE DEF f, Done
  <1>4. TypeInv'
    BY <1>00, <1>1, <1>2, <1>3 DEF TypeInv, Moves
  <1>5. LpFrom(0) /\ RecFrom(0) /\ LpStays /\ OpenFrom(0)
    BY <1>00, <1>1, LpUnchanged, LpSameKeeps
  <1>6. BlkFrom /\ BlkNumbers
    BY <1>1, BlkSameKeeps DEF BlkSame
  <1>7. OvsFrom
    <2>1. Named(ovs')
      BY <1>00, <1>1, <1>3, <1>31, NamedKept DEF BufferInv
    <2>2. ASSUME NEW o \in ovs PROVE Became(o, f[o])
      <3>1. \A i \in DOMAIN o.q : i + 0 = i
        BY <1>00 DEF TypeInv, Buffers
      <3>2. \A i \in DOMAIN f[o].q :
              /\ i + 0 \in DOMAIN o.q /\ f[o].q[i].seq = o.q[i + 0].seq
              /\ f[o].q[i].st = "reserved" => o.q[i + 0].st = "reserved"
        BY <1>3, <3>1
      <3> QED BY <1>3, <3>2 DEF Became
    <2> QED BY <1>1, <2>1, <2>2 DEF OvsFrom
  <1>71. RefsStay
    BY <1>5, RefsOfLp
  <1>8. Forward /\ RecStay
    BY <1>00, <1>2, MovesKeeps DEF Places
  <1>9. StayEnded /\ OpenThreads /\ HoldStay
    BY <1>1, <1>2 DEF StayEnded, OpenThreads, HoldStay, Moves, Writing
  <1>91. th[t].cur = 0
    BY <1>00, <1>1 DEF OpenInv, Writing
  <1>10. StayHolding
    <2>1. Taken' = Taken
      BY <1>1 DEF Taken
    <2>2. \A u \in Threads : th[u].pc # "gone" /\ th[u].cur # 0 => th[u].cur \in Taken
      BY <1>00 DEF BlockInv, BlkLive
    <2> QED BY <1>1, <1>2, <1>91, <2>1, <2>2 DEF StayHolding, Moves
  <1>11. HandsOff
    <2>1. ASSUME NEW o \in ovs, o.q # <<>>
          PROVE  \E p \in ovs' : /\ p.id = o.id /\ p.ver = o.ver /\ p.tls = o.tls /\ p.q # <<>>
                                 /\ p.q[1].seq = o.q[1].seq
      <3>1. 1 \in DOMAIN o.q
        BY <1>00, <2>1 DEF TypeInv, Buffers
      <3>2. f[o].q # <<>> /\ f[o].q[1].seq = o.q[1].seq
        BY <1>3, <3>1
      <3> QED BY <1>1, <1>3, <3>2
    <2> QED BY <1>1, <1>2, <2>1 DEF HandsOff, Moves
  <1>12. HeldInv'
    <2> SUFFICES ASSUME NEW u \in Threads, th'[u].pc = "filled"
                 PROVE  \E p \in ovs' : p.id = th'[u].target /\ p.ver = version /\ p.tls = u /\ p.locked
      BY <1>1 DEF HeldInv
    <2>1. u # t /\ th'[u] = th[u]
      BY <1>2 DEF Moves
    <2>2. PICK o \in ovs : o.id = th[u].target /\ o.ver = version /\ o.tls = u /\ o.locked
      BY <1>00, <2>1 DEF HeldInv
    <2>3. PICK p \in ovs : p.id = th[t].target /\ p.tls = t
      BY <1>00, <1>1 DEF HeldInv
    <2>4. o.id # th[t].target
      BY <1>00, <2>1, <2>2, <2>3 DEF BufferInv, Named
    <2>5. f[o] = o
      BY <1>3, <2>4
    <2> QED BY <1>1, <2>1, <2>2, <2>5
  <1>17. FillInv'
    <2> SUFFICES ASSUME NEW p \in ovs', p.ver = version, NEW i \in DOMAIN p.q
                 PROVE  /\ p.q[i].st = "reserved" =>
                             /\ th'[p.tls].pc = "filled" /\ th'[p.tls].target = p.id
                             /\ p.q[i].seq = th'[p.tls].wseq - 1
                        /\ p.q[i].seq = th'[p.tls].wseq - 1 => th'[p.tls].pc # "os"
      BY <1>1 DEF FillInv, FillState
    <2>0. PICK o \in ovs : p = f[o]
      BY <1>1
    <2>1. FillState(o, o.q[i]) /\ o.tls \in Threads /\ i \in DOMAIN o.q
      BY <1>00, <1>3, <2>0, TypesAre DEF FillInv, Buffers
    <2>2. CASE o.tls = t
      BY <1>2, <1>3, <2>0, <2>1, <2>2 DEF FillState, Moves
    <2>3. CASE o.tls # t
      BY <1>2, <1>3, <2>0, <2>1, <2>3 DEF FillState, Moves
    <2> QED BY <2>2, <2>3
  <1>13. Windows
    BY <1>0, <1>4, <1>5, <1>6, <1>8, WindowsKept DEF Parts
  <1>14. OpenInv'
    BY <1>0, <1>1, <1>5, <1>9, OpenKept DEF Parts
  <1>15. ReaderInv'
    BY <1>0, <1>1, <1>11, ReaderKept DEF Parts
  <1>16. ListInv'
    BY <1>0, <1>1, ListKept DEF Parts
  <1> QED BY <1>1, <1>4, <1>5, <1>6, <1>7, <1>71, <1>8, <1>9, <1>10, <1>12, <1>13, <1>14, <1>15, <1>16, <1>17, MostKept

LEMMA SentIs ==
  ASSUME TypeInv, NEW t \in Threads
  PROVE  /\ [sent EXCEPT ![crashes][t] = @ + 1] \in [0 .. MaxCrashes -> [Threads -> Int]]
         /\ Entry(t) \in Entries
  <1>1. /\ sent \in [0 .. MaxCrashes -> [Threads -> Int]] /\ crashes \in 0 .. MaxCrashes
        /\ sent[crashes] \in [Threads -> Int] /\ sent[crashes][t] \in Int
    BY DEF TypeInv
  <1>2. sent[crashes][t] + 1 \in Int
    BY <1>1
  <1> QED BY <1>1, <1>2 DEF Entry, Entries

LEMMA ChunkIs ==
  ASSUME TypeInv, NEW t \in Threads
  PROVE  Chunk(t) \in Chunks /\ Chunk(t).seq = th[t].wseq - 1 /\ Chunk(t).st = "reserved"
  <1>1. version \in VersionIds /\ th[t].wseq \in Int /\ Entry(t) \in Entries
    BY SentIs DEF TypeInv, ThreadRecords
  <1> QED BY <1>1 DEF Chunk, Chunks

\* The reader does not have an open reservation in its hands.
LEMMA ReservationLive ==
  ASSUME ReaderInv, NEW k, NEW t, Reservation(k, t)
  PROVE  LpLive(k)
  BY DEF Reservation, LpLive, ReaderInv, Handed

\* The entries a thread has in the buffers are older than the one it is about to add.
LEMMA Older ==
  ASSUME TypeInv, SeqInv, RefInv, FillInv, NEW o \in ovs, o.ver = version, NEW i \in DOMAIN o.q,
         th[o.tls].pc = "os"
  PROVE  o.q[i].seq < th[o.tls].wseq - 1 /\ o.q[i].st # "reserved" /\ o.q[i].seq \in Int
  <1>1. PICK k \in DOMAIN lp : RefOf(k, o, o.q[i])
    BY DEF RefInv, HasRef
  <1>2. lp[k].seq < th[o.tls].wseq
    BY <1>1 DEF SeqInv, RefOf, InWindow
  <1>3. o.q[i].seq # th[o.tls].wseq - 1 /\ o.q[i].st # "reserved"
    BY DEF FillInv, FillState
  <1>4. o.tls \in Threads /\ o.q[i] \in Chunks
    BY TypesAre DEF Buffers
  <1>5. o.q[i].seq \in Int /\ th[o.tls].wseq \in Int
    BY <1>4 DEF Chunks, TypeInv, ThreadRecords
  <1> QED BY <1>1, <1>2, <1>3, <1>5 DEF RefOf

\* A buffer n of thread t takes the entry behind the entries q; the buffers rest are
\* as they were.
Fills(t, n, q, rest) ==
    /\ n \in Buffers /\ n.ver = version /\ n.tls = t /\ n.locked /\ n.q = Append(q, Chunk(t))
    /\ q \in Seq(Chunks)
    /\ rest \subseteq ovs /\ ovs' = rest \cup {n} /\ \A p \in rest : p.id # n.id
    /\ q = <<>> \/ \E o \in ovs : o.q = q /\ o.ver = version /\ o.tls = t /\ o \notin rest
    /\ \A o \in ovs : o \in rest \/ (o.id = n.id /\ o.ver = version /\ o.tls = t /\ o.q = q)

LEMMA FillBuffers ==
  ASSUME Parts, TypeInv', NEW t \in Threads, th[t].pc = "os", NEW n, NEW q, NEW rest, Fills(t, n, q, rest),
         Moves(t, "filled"), th'[t].target = n.id,
         version' = version, lp' = lp, rd' = rd
  PROVE  BufferInv' /\ HeldInv' /\ RefInv' /\ FillInv' /\ ChunkInv'
  <1>0. TypeInv /\ SeqInv /\ OpenInv /\ ReaderInv /\ BufferInv /\ HeldInv /\ RefInv /\ FillInv /\ ChunkInv
    BY DEF Parts
  <1>1. /\ n \in Buffers /\ n.ver = version /\ n.tls = t /\ n.locked /\ n.q = Append(q, Chunk(t))
        /\ q \in Seq(Chunks)
        /\ rest \subseteq ovs /\ ovs' = rest \cup {n} /\ \A p \in rest : p.id # n.id
        /\ q = <<>> \/ \E o \in ovs : o.q = q /\ o.ver = version /\ o.tls = t /\ o \notin rest
        /\ \A o \in ovs : o \in rest \/ (o.id = n.id /\ o.ver = version /\ o.tls = t /\ o.q = q)
    BY DEF Fills
  <1>2. Chunk(t) \in Chunks /\ Chunk(t).seq = th[t].wseq - 1 /\ Chunk(t).st = "reserved"
    BY <1>0, ChunkIs
  <1>3. PICK m \in Nat : m = Len(q) /\ DOMAIN q = 1 .. m
    BY <1>1
  <1>4. /\ DOMAIN n.q = 1 .. m + 1 /\ n.q[m + 1] = Chunk(t) /\ \A i \in 1 .. m : n.q[i] = q[i]
    BY <1>1, <1>2, <1>3
  <1>41. th[t].wseq \in Int
    BY <1>0 DEF TypeInv, ThreadRecords
  <1>5. \A i \in 1 .. m : q[i].seq < th[t].wseq - 1 /\ q[i].st # "reserved" /\ q[i].seq \in Int
    <2> SUFFICES ASSUME NEW i \in 1 .. m
                 PROVE  q[i].seq < th[t].wseq - 1 /\ q[i].st # "reserved" /\ q[i].seq \in Int
      OBVIOUS
    <2>1. q # <<>>
      BY <1>3
    <2>2. PICK o \in ovs : o.q = q /\ o.ver = version /\ o.tls = t
      BY <1>1, <2>1
    <2> QED BY <1>0, <1>3, <2>2, Older
  <1>6. BufferInv'
    <2>1. IsFiniteSet(ovs')
      <3>1. IsFiniteSet(rest)
        BY <1>0, <1>1, FS_Subset DEF BufferInv, Named
      <3> QED BY <1>1, <3>1, FS_AddElement
    <2>2. \A o, p \in ovs' : o.id = p.id => o = p
      BY <1>0, <1>1 DEF BufferInv, Named
    <2>3. Mod(version - n.ver) = 0
      <3>1. version - n.ver = 0
        BY <1>0, <1>1 DEF TypeInv, VersionIds
      <3> QED BY <3>1, LogBufferAssumption DEF Mod
    <2>4. \A o \in ovs' : Mod(version' - o.ver) <= MAX_RECOVERY_VERSION_RANGE
      BY <1>0, <1>1, <2>3 DEF BufferInv, MAX_RECOVERY_VERSION_RANGE
    <2> QED BY <2>1, <2>2, <2>4 DEF BufferInv, Named, Mod, MAX_RECOVERY_VERSION_RANGE
  <1>7. HeldInv'
    <2> SUFFICES ASSUME NEW u \in Threads, th'[u].pc = "filled"
                 PROVE  \E p \in ovs' : p.id = th'[u].target /\ p.ver = version /\ p.tls = u /\ p.locked
      BY DEF HeldInv
    <2>1. CASE u = t
      BY <1>1, <2>1
    <2>2. CASE u # t
      <3>1. th'[u] = th[u]
        BY <2>2 DEF Moves
      <3>2. PICK o \in ovs : o.id = th[u].target /\ o.ver = version /\ o.tls = u /\ o.locked
        BY <1>0, <3>1 DEF HeldInv
      <3>3. o \in rest
        BY <1>1, <2>2, <3>2
      <3> QED BY <1>1, <3>1, <3>2, <3>3
    <2> QED BY <2>1, <2>2
  <1>8. RefInv'
    <2>1. \A k \in DOMAIN lp : LpLive(k) => (LpLive(k))'
      BY DEF LpLive, Handed
    <2>2. \A p, c : HasRef(p, c) => \E j \in DOMAIN lp' : (LpLive(j))' /\ lp'[j].tls = p.tls /\ lp'[j].seq = c.seq
                                                           /\ lp'[j].ext /\ ~lp'[j].fin
      BY <2>1 DEF HasRef, RefOf
    <2>3. ASSUME NEW p \in ovs', p.ver = version, NEW i \in DOMAIN p.q PROVE HasRef(p, p.q[i])
      <3>1. CASE p \in rest
        BY <1>0, <1>1, <2>3, <3>1 DEF RefInv
      <3>2. CASE p = n /\ i \in 1 .. m
        <4>1. PICK o \in ovs : o.q = q /\ o.ver = version /\ o.tls = t
          BY <1>1, <1>3, <3>2
        <4>2. HasRef(o, o.q[i])
          BY <1>0, <1>3, <3>2, <4>1 DEF RefInv
        <4> QED BY <1>1, <1>4, <3>2, <4>1, <4>2 DEF HasRef, RefOf
      <3>3. CASE p = n /\ i = m + 1
        <4>1. PICK k \in DOMAIN lp : Reservation(k, t)
          BY <1>0 DEF OpenInv, Writing
        <4>2. LpLive(k)
          BY <1>0, <4>1, ReservationLive
        <4>3. RefOf(k, p, p.q[i])
          BY <1>1, <1>2, <1>4, <3>3, <4>1, <4>2 DEF RefOf, Reservation
        <4> QED BY <4>3 DEF HasRef
      <3> QED BY <1>1, <1>4, <2>3, <3>1, <3>2, <3>3
    <2> QED BY <2>2, <2>3 DEF RefInv, HasRef, RefOf
  <1>9. FillInv'
    <2> SUFFICES ASSUME NEW p \in ovs', p.ver = version, NEW i \in DOMAIN p.q
                 PROVE  /\ p.q[i].st = "reserved" =>
                             /\ th'[p.tls].pc = "filled" /\ th'[p.tls].target = p.id
                             /\ p.q[i].seq = th'[p.tls].wseq - 1
                        /\ p.q[i].seq = th'[p.tls].wseq - 1 => th'[p.tls].pc # "os"
      BY DEF FillInv, FillState
    <2>1. CASE p \in rest /\ p.tls # t
      <3>1. p.tls \in Threads /\ p \in ovs
        BY <1>0, <1>1, <2>1, TypesAre DEF Buffers
      <3>2. th'[p.tls] = th[p.tls]
        BY <2>1, <3>1 DEF Moves
      <3>3. FillState(p, p.q[i])
        BY <1>0, <3>1 DEF FillInv
      <3> QED BY <3>2, <3>3 DEF FillState
    <2>2. CASE p \in rest /\ p.tls = t
      <3>1. p.q[i].st # "reserved"
        BY <1>0, <1>1, <2>2, Older
      <3> QED BY <2>2, <3>1 DEF Moves
    <2>3. CASE p = n
      <3>1. CASE i \in 1 .. m
        BY <1>1, <1>4, <1>5, <2>3, <3>1 DEF Moves
      <3>2. CASE i = m + 1
        BY <1>1, <1>2, <1>4, <2>3, <3>2 DEF Moves
      <3> QED BY <1>4, <2>3, <3>1, <3>2
    <2> QED BY <1>1, <2>1, <2>2, <2>3
  <1>10. ChunkInv'
    <2>1. Ordered(n)
      <3> SUFFICES ASSUME NEW i \in 1 .. m + 1, NEW j \in 1 .. m + 1, i < j PROVE n.q[i].seq < n.q[j].seq
        BY <1>4 DEF Ordered
      <3>1. i \in 1 .. m
        BY <1>3
      <3>2. CASE j = m + 1
        BY <1>2, <1>4, <1>5, <3>1, <3>2
      <3>3. CASE j \in 1 .. m
        <4>1. PICK o \in ovs : o.q = q /\ o.ver = version /\ o.tls = t
          BY <1>1, <1>3, <3>1
        <4>2. Ordered(o)
          BY <1>0, <4>1 DEF ChunkInv
        <4> QED BY <1>3, <1>4, <3>1, <3>3, <4>1, <4>2 DEF Ordered
      <3> QED BY <1>3, <3>2, <3>3
    <2>2. ASSUME NEW p \in rest, p.ver = version, p.tls = t PROVE Separate(n, p) /\ Separate(p, n)
      <3>1. \A j \in DOMAIN p.q : p.q[j].seq # th[t].wseq - 1
        BY <1>0, <1>1, <1>41, <2>2, Older
      <3>2. \A i \in 1 .. m, j \in DOMAIN p.q : q[i].seq # p.q[j].seq
        <4> SUFFICES ASSUME NEW i \in 1 .. m, NEW j \in DOMAIN p.q PROVE q[i].seq # p.q[j].seq
          OBVIOUS
        <4>1. PICK o \in ovs : o.q = q /\ o.ver = version /\ o.tls = t /\ o \notin rest
          BY <1>1, <1>3
        <4>2. Separate(o, p)
          BY <1>0, <1>1, <2>2, <4>1 DEF ChunkInv
        <4> QED BY <1>3, <4>1, <4>2 DEF Separate
      <3>3. \A i \in DOMAIN n.q, j \in DOMAIN p.q : n.q[i].seq # p.q[j].seq
        BY <1>2, <1>3, <1>4, <3>1, <3>2
      <3> QED BY <3>3 DEF Separate
    <2>3. \A o \in ovs' : o.ver = version => Ordered(o)
      BY <1>0, <1>1, <2>1 DEF ChunkInv
    <2>4. ASSUME NEW o \in ovs', NEW p \in ovs', o.ver = version, p.ver = version, o.tls = p.tls, o # p
          PROVE  Separate(o, p)
      <3>1. CASE o = n
        BY <1>1, <2>2, <2>4, <3>1
      <3>2. CASE p = n
        BY <1>1, <2>2, <2>4, <3>2
      <3>3. CASE o \in rest /\ p \in rest
        BY <1>0, <1>1, <2>4, <3>3 DEF ChunkInv
      <3> QED BY <1>1, <3>1, <3>2, <3>3
    <2> QED BY <2>3, <2>4 DEF ChunkInv, Ordered, Separate
  <1> QED BY <1>6, <1>7, <1>8, <1>9, <1>10

LEMMA FillStep ==
  ASSUME LbInv, NEW t \in Threads, th[t].pc = "os", NEW n, NEW q, NEW rest, Fills(t, n, q, rest),
         th' = [th EXCEPT ![t].pc = "filled", ![t].target = n.id],
         sent' = [sent EXCEPT ![crashes][t] = @ + 1],
         version' = version, lp' = lp, used' = used, stage' = stage, blk' = blk, rd' = rd,
         destructed' = destructed, crashes' = crashes
  PROVE  LbInv'
  <1>0. Parts
    BY PartsAre
  <1>00. TypeInv /\ ListInv /\ BlockInv /\ OpenInv /\ FillInv /\ BufferInv /\ HeldInv
    BY <1>0 DEF Parts
  <1>1. /\ n \in Buffers /\ n.ver = version /\ n.tls = t /\ n.q = Append(q, Chunk(t)) /\ q \in Seq(Chunks)
        /\ rest \subseteq ovs /\ ovs' = rest \cup {n}
        /\ \A o \in ovs : o \in rest \/ (o.id = n.id /\ o.ver = version /\ o.tls = t /\ o.q = q)
    BY DEF Fills
  <1>2. Moves(t, "filled") /\ th'[t].target = n.id
    <2>1. th \in [Threads -> ThreadRecords] /\ th[t] \in ThreadRecords /\ n.id \in Nat
      BY <1>00, <1>1 DEF TypeInv, Buffers
    <2> QED BY <2>1 DEF Moves, ThreadRecords, Places
  <1>3. sent' \in [0 .. MaxCrashes -> [Threads -> Int]]
    BY <1>00, SentIs
  <1>4. TypeInv'
    BY <1>00, <1>1, <1>2, <1>3 DEF TypeInv, Moves
  <1>5. LpFrom(0) /\ RecFrom(0) /\ LpStays /\ OpenFrom(0)
    BY <1>00, LpUnchanged, LpSameKeeps
  <1>6. BlkFrom /\ BlkNumbers
    BY BlkSameKeeps DEF BlkSame
  <1>7. BufferInv' /\ HeldInv' /\ RefInv' /\ FillInv' /\ ChunkInv'
    BY <1>0, <1>2, <1>4, FillBuffers
  <1>8. Forward /\ RecStay
    BY <1>00, <1>2, MovesKeeps DEF Places
  <1>9. StayEnded /\ OpenThreads
    BY <1>2 DEF StayEnded, OpenThreads, Moves, Writing
  <1>91. th[t].cur = 0
    BY <1>00 DEF OpenInv, Writing
  <1>10. StayHolding
    <2>1. Taken' = Taken
      BY DEF Taken
    <2>2. \A u \in Threads : th[u].pc # "gone" /\ th[u].cur # 0 => th[u].cur \in Taken
      BY <1>00 DEF BlockInv, BlkLive
    <2> QED BY <1>2, <1>91, <2>1, <2>2 DEF StayHolding, Moves
  <1>11. HandsOff
    <2>1. ASSUME NEW o \in ovs, o.q # <<>>
          PROVE  \E p \in ovs' : /\ p.id = o.id /\ p.ver = o.ver /\ p.tls = o.tls /\ p.q # <<>>
                                 /\ p.q[1].seq = o.q[1].seq
      <3>1. CASE o \in rest
        BY <1>1, <2>1, <3>1
      <3>2. CASE o \notin rest
        <4>1. o.id = n.id /\ o.ver = n.ver /\ o.tls = n.tls /\ q # <<>> /\ o.q = q
          BY <1>1, <2>1, <3>2
        <4>2. n.q # <<>> /\ n.q[1] = q[1]
          BY <1>00, <1>1, <4>1, ChunkIs
        <4> QED BY <1>1, <4>1, <4>2
      <3> QED BY <3>1, <3>2
    <2> QED BY <1>2, <2>1 DEF HandsOff, Moves
  <1>13. Windows
    BY <1>0, <1>4, <1>5, <1>6, <1>8, WindowsKept DEF Parts
  <1>14. OpenInv'
    BY <1>0, <1>5, <1>9, OpenKept DEF Parts
  <1>15. ReaderInv'
    BY <1>0, <1>11, ReaderKept DEF Parts
  <1>16. ListInv'
    BY <1>0, ListKept DEF Parts
  <1>17. SeqInv' /\ FinInv' /\ BlockInv'
    <2>1. DOMAIN lp' \subseteq Nat
      BY <1>4 DEF TypeInv
    <2> QED BY <1>0, <1>5, <1>6, <1>9, <1>10, <1>13, <2>1, SeqKept, FinKept, BlockKept DEF Parts
  <1>19. RecordLive'
    BY <1>0, <1>4, <1>5, <1>6, <1>7, <1>8, RecordKept DEF Parts
  <1> QED BY <1>4, <1>7, <1>14, <1>15, <1>16, <1>17, <1>19 DEF LbInv

LEMMA AllocOversize ==
  ASSUME LbInv, NEW t \in Threads, alloc_oversize(t) \/ alloc_oversize_new(t)
  PROVE  LbInv'
  <1>0. Parts
    BY PartsAre
  <1>00. TypeInv /\ BufferInv
    BY <1>0 DEF Parts
  <1>1. Chunk(t) \in Chunks /\ version \in VersionIds
    BY <1>00, ChunkIs DEF TypeInv
  <1>2. CASE alloc_oversize(t)
    <2>1. PICK o \in ovs : /\ RoomFor(t, o)
                           /\ ovs' = (ovs \ {o}) \cup {[o EXCEPT !.q = Append(@, Chunk(t)), !.locked = TRUE]}
                           /\ OversizeStep(t, o, "filled") /\ th[t].pc = "os"
      BY <1>2 DEF alloc_oversize
    <2> DEFINE n == [o EXCEPT !.q = Append(@, Chunk(t)), !.locked = TRUE]
    <2>2. o \in Buffers /\ o.ver = version /\ o.tls = t
      BY <1>00, <2>1 DEF TypeInv, RoomFor
    <2>3. Append(o.q, Chunk(t)) \in Seq(Chunks) /\ o.q \in Seq(Chunks)
      BY <1>1, <2>2 DEF Buffers
    <2>4. n \in Buffers /\ n.id = o.id /\ n.ver = version /\ n.tls = t /\ n.locked /\ n.q = Append(o.q, Chunk(t))
      BY <2>2, <2>3 DEF Buffers
    <2>41. ovs' = (ovs \ {o}) \cup {n}
      BY <2>1
    <2> HIDE DEF n
    <2>5. \A p \in ovs \ {o} : p.id # n.id
      BY <1>00, <2>4 DEF BufferInv, Named
    <2>6. Fills(t, n, o.q, ovs \ {o})
      BY <2>1, <2>2, <2>3, <2>4, <2>41, <2>5 DEF Fills
    <2>7. /\ th' = [th EXCEPT ![t].pc = "filled", ![t].target = n.id]
          /\ sent' = [sent EXCEPT ![crashes][t] = @ + 1]
          /\ version' = version /\ lp' = lp /\ used' = used /\ stage' = stage /\ blk' = blk /\ rd' = rd
          /\ destructed' = destructed /\ crashes' = crashes
      BY <2>1, <2>4 DEF OversizeStep, bounds
    <2> QED BY <2>1, <2>6, <2>7, FillStep
  <1>3. CASE alloc_oversize_new(t)
    <2> DEFINE n == [id |-> NewId, ver |-> version, tls |-> t, q |-> <<Chunk(t)>>,
                     fin |-> FALSE, locked |-> TRUE]
    <2>1. ovs' = ovs \cup {n} /\ OversizeStep(t, n, "filled") /\ th[t].pc = "os"
      BY <1>3 DEF alloc_oversize_new
    <2>2. NewId \in Nat /\ NewId \notin OsIds
      BY <1>00, NewIdIs DEF BufferInv, Named
    <2>3. <<Chunk(t)>> \in Seq(Chunks) /\ <<Chunk(t)>> = Append(<<>>, Chunk(t)) /\ <<>> \in Seq(Chunks)
      BY <1>1
    <2>4. n \in Buffers /\ n.id = NewId /\ n.ver = version /\ n.tls = t /\ n.locked /\ n.q = Append(<<>>, Chunk(t))
      BY <1>1, <2>2, <2>3 DEF Buffers
    <2> HIDE DEF n
    <2>5. \A p \in ovs : p.id # n.id
      BY <2>2, <2>4 DEF OsIds
    <2>6. Fills(t, n, <<>>, ovs)
      BY <2>1, <2>3, <2>4, <2>5 DEF Fills
    <2>7. /\ th' = [th EXCEPT ![t].pc = "filled", ![t].target = n.id]
          /\ sent' = [sent EXCEPT ![crashes][t] = @ + 1]
          /\ version' = version /\ lp' = lp /\ used' = used /\ stage' = stage /\ blk' = blk /\ rd' = rd
          /\ destructed' = destructed /\ crashes' = crashes
      BY <2>1, <2>4 DEF OversizeStep, bounds
    <2> QED BY <2>1, <2>6, <2>7, FillStep
  <1> QED BY <1>2, <1>3

-----------------------------------------------------------------------------
(***************************************************************************)
(* A thread takes its next number, for place i of the shared ring or for   *)
(* block f; the other one of the two is 0.                                 *)
(***************************************************************************)
TakesNumber(t) ==
    /\ th' \in [Threads -> ThreadRecords] /\ \A u \in Threads : u # t => th'[u] = th[u]
    /\ th[t].pc = "idle" /\ th'[t].pc \notin {"filled", "ref", "gone"}
    /\ th[t].rec = "live" /\ th'[t].rec = "live"
    /\ th'[t].wseq = th[t].wseq + 1 /\ th'[t].rseq = th[t].rseq
LpAdded(t, i) ==
    /\ \A k \in DOMAIN lp : k \in DOMAIN lp' /\ k # i /\ lp'[k] = lp[k]
    /\ \A k \in DOMAIN lp' : k # i => k \in DOMAIN lp
    /\ i \in DOMAIN lp' => /\ lp'[i].tls = t /\ lp'[i].seq = th[t].wseq
                           /\ lp'[i].fin => th'[t].pc = "exit"
BlkAdded(t, f) ==
    /\ \A b \in BlockIds : (BlkLive(b))' /\ b # f =>
         BlkLive(b) /\ blk'[b].tls = blk[b].tls /\ blk'[b].seq = blk[b].seq /\ blk'[b].fin = blk[b].fin
    /\ f \in BlockIds => blk'[f].tls = t /\ blk'[f].seq = th[t].wseq /\ ~blk'[f].fin

LEMMA AddedSeq ==
  ASSUME TypeInv, TypeInv', SeqInv, NEW t \in Threads, NEW i, NEW f, TakesNumber(t), LpAdded(t, i), BlkAdded(t, f),
         i = 0 \/ f = 0, version' = version, rd' = rd
  PROVE  SeqInv'
  <1>1. /\ \A k \in DOMAIN lp' : k # i /\ (LpLive(k))' => k \in DOMAIN lp /\ LpLive(k) /\ lp'[k] = lp[k]
        /\ 0 \notin DOMAIN lp' /\ 0 \notin BlockIds
    <2>1. DOMAIN lp' = 1 .. Len(lp') /\ 0 \notin BlockIds
      BY DEF TypeInv, BlockIds
    <2> QED BY <2>1 DEF LpLive, Handed, LpAdded
  <1>2. /\ \A k \in DOMAIN lp : LpLive(k) => InWindow(lp[k]) /\ lp[k].tls \in Threads /\ lp[k].seq \in Int
        /\ \A b \in BlockIds : BlkLive(b) => InWindow(blk[b]) /\ blk[b].tls \in Threads /\ blk[b].seq \in Int
    BY TypesAre DEF SeqInv, LpContexts, BlockRecords
  <1>3. /\ th[t].wseq \in Int /\ th[t].rseq \in Int
        /\ \A u \in Threads : th[u].wseq \in Int /\ th[u].rseq \in Int /\ th'[u].rseq = th[u].rseq
                              /\ (u # t => th'[u].wseq = th[u].wseq)
        /\ th'[t].wseq = th[t].wseq + 1
    BY DEF TypeInv, ThreadRecords, TakesNumber
  <1>4. \A c : c.tls \in Threads /\ c.seq \in Int /\ InWindow(c) =>
            /\ th'[c.tls].rseq <= c.seq /\ c.seq < th'[c.tls].wseq
            /\ c.tls = t => c.seq # th[t].wseq
    BY <1>3 DEF InWindow
  <1>5. /\ \A k \in DOMAIN lp' : k # i /\ (LpLive(k))' =>
              /\ th'[lp'[k].tls].rseq <= lp'[k].seq /\ lp'[k].seq < th'[lp'[k].tls].wseq
              /\ lp'[k].tls = t => lp'[k].seq # th[t].wseq
        /\ \A b \in BlockIds : b # f /\ (BlkLive(b))' =>
              /\ th'[blk'[b].tls].rseq <= blk'[b].seq /\ blk'[b].seq < th'[blk'[b].tls].wseq
              /\ blk'[b].tls = t => blk'[b].seq # th[t].wseq
    BY <1>1, <1>2, <1>4 DEF BlkAdded
  <1>6. /\ i \in DOMAIN lp' => th'[lp'[i].tls].rseq <= lp'[i].seq /\ lp'[i].seq < th'[lp'[i].tls].wseq
        /\ f \in BlockIds => th'[blk'[f].tls].rseq <= blk'[f].seq /\ blk'[f].seq < th'[blk'[f].tls].wseq
    <2>1. th[t].rseq <= th[t].wseq
      BY DEF SeqInv
    <2> QED BY <1>3, <2>1 DEF LpAdded, BlkAdded
  <1>7. \A u \in Threads : th'[u].rseq <= th'[u].wseq
    BY <1>3 DEF SeqInv
  <1>8. ASSUME NEW j \in DOMAIN lp', NEW k \in DOMAIN lp', (LpLive(j))', (LpLive(k))', j # k, lp'[j].tls = lp'[k].tls
        PROVE  lp'[j].seq # lp'[k].seq
    <2>1. CASE j = i
      BY <1>5, <1>8, <2>1 DEF LpAdded
    <2>2. CASE k = i
      BY <1>5, <1>8, <2>2 DEF LpAdded
    <2>3. CASE j # i /\ k # i
      <3>1. LpLive(j) /\ LpLive(k) /\ lp'[j] = lp[j] /\ lp'[k] = lp[k] /\ j \in DOMAIN lp /\ k \in DOMAIN lp
        BY <1>1, <1>8, <2>3
      <3>2. Apart(lp[j], lp[k])
        BY <1>8, <3>1 DEF SeqInv
      <3> QED BY <1>8, <3>1, <3>2 DEF Apart
    <2> QED BY <2>1, <2>2, <2>3
  <1>9. ASSUME NEW a \in BlockIds, NEW b \in BlockIds, (BlkLive(a))', (BlkLive(b))', a # b, blk'[a].tls = blk'[b].tls
        PROVE  blk'[a].seq # blk'[b].seq
    <2>1. CASE a = f
      BY <1>5, <1>9, <2>1 DEF BlkAdded
    <2>2. CASE b = f
      BY <1>5, <1>9, <2>2 DEF BlkAdded
    <2>3. CASE a # f /\ b # f
      <3>1. /\ BlkLive(a) /\ BlkLive(b) /\ blk'[a].tls = blk[a].tls /\ blk'[a].seq = blk[a].seq
            /\ blk'[b].tls = blk[b].tls /\ blk'[b].seq = blk[b].seq
        BY <1>9, <2>3 DEF BlkAdded
      <3>2. Apart(blk[a], blk[b])
        BY <1>9, <3>1 DEF SeqInv
      <3> QED BY <1>9, <3>1, <3>2 DEF Apart
    <2> QED BY <2>1, <2>2, <2>3
  <1>10. ASSUME NEW k \in DOMAIN lp', NEW b \in BlockIds, (LpLive(k))', (BlkLive(b))', lp'[k].tls = blk'[b].tls
         PROVE  lp'[k].seq # blk'[b].seq
    <2>1. CASE k = i
      <3>1. b # f
        BY <1>1, <1>10, <2>1
      <3> QED BY <1>5, <1>10, <2>1, <3>1 DEF LpAdded
    <2>2. CASE k # i /\ b = f
      BY <1>5, <1>10, <2>2 DEF BlkAdded
    <2>3. CASE k # i /\ b # f
      <3>1. /\ LpLive(k) /\ BlkLive(b) /\ k \in DOMAIN lp /\ lp'[k] = lp[k]
            /\ blk'[b].tls = blk[b].tls /\ blk'[b].seq = blk[b].seq
        BY <1>1, <1>10, <2>3 DEF BlkAdded
      <3>2. Apart(lp[k], blk[b])
        BY <1>10, <3>1 DEF SeqInv
      <3> QED BY <1>10, <3>1, <3>2 DEF Apart
    <2> QED BY <2>1, <2>2, <2>3
  <1>11. /\ \A k \in DOMAIN lp' : (LpLive(k))' => (InWindow(lp[k]))'
         /\ \A b \in BlockIds : (BlkLive(b))' => (InWindow(blk[b]))'
    BY <1>5, <1>6 DEF InWindow
  <1>12. BlockIds' = BlockIds
    BY DEF BlockIds
  <1> QED BY <1>7, <1>8, <1>9, <1>10, <1>11, <1>12 DEF SeqInv, Apart

LEMMA AddedFin ==
  ASSUME TypeInv, TypeInv', FinInv, NEW t \in Threads, NEW i, NEW f, TakesNumber(t), LpAdded(t, i), BlkAdded(t, f),
         version' = version, rd' = rd
  PROVE  FinInv'
  <1>1. ASSUME NEW k \in DOMAIN lp', (LpLive(k))', lp'[k].fin
        PROVE  th'[lp'[k].tls].pc \in {"exit", "gone"} /\ lp'[k].seq = th'[lp'[k].tls].wseq - 1
    <2>1. CASE k = i
      <3>1. th[t].wseq \in Int
        BY DEF TypeInv, ThreadRecords
      <3> QED BY <1>1, <2>1, <3>1 DEF LpAdded, TakesNumber
    <2>2. CASE k # i
      <3>1. LpLive(k) /\ k \in DOMAIN lp /\ lp'[k] = lp[k]
        BY <1>1, <2>2 DEF LpLive, Handed, LpAdded
      <3>2. th[lp[k].tls].pc \in {"exit", "gone"} /\ lp[k].seq = th[lp[k].tls].wseq - 1
        BY <1>1, <3>1 DEF FinInv
      <3>3. lp[k].tls \in Threads /\ lp[k].tls # t
        BY <3>1, <3>2, TypesAre DEF LpContexts, TakesNumber
      <3> QED BY <3>1, <3>2, <3>3 DEF TakesNumber
    <2> QED BY <2>1, <2>2
  <1>2. ASSUME NEW b \in BlockIds, (BlkLive(b))', blk'[b].fin
        PROVE  th'[blk'[b].tls].pc = "gone" /\ blk'[b].seq = th'[blk'[b].tls].wseq - 1
    <2>1. b # f
      BY <1>2 DEF BlkAdded
    <2>2. BlkLive(b) /\ blk'[b].tls = blk[b].tls /\ blk'[b].seq = blk[b].seq /\ blk[b].fin
      BY <1>2, <2>1 DEF BlkAdded
    <2>3. th[blk[b].tls].pc = "gone" /\ blk[b].seq = th[blk[b].tls].wseq - 1
      BY <2>2 DEF FinInv
    <2>4. blk[b].tls \in Threads /\ blk[b].tls # t
      BY <2>3, TypesAre DEF BlockRecords, TakesNumber
    <2> QED BY <2>2, <2>3, <2>4 DEF TakesNumber
  <1>3. BlockIds' = BlockIds
    BY DEF BlockIds
  <1> QED BY <1>1, <1>2, <1>3 DEF FinInv

LEMMA AddedFill ==
  ASSUME TypeInv, TypeInv', SeqInv, RefInv, FillInv, OvsFrom, NEW t \in Threads, TakesNumber(t), version' = version
  PROVE  FillInv'
  <1> SUFFICES ASSUME NEW p \in ovs', p.ver = version, NEW i \in DOMAIN p.q
               PROVE  /\ p.q[i].st = "reserved" =>
                           /\ th'[p.tls].pc = "filled" /\ th'[p.tls].target = p.id
                           /\ p.q[i].seq = th'[p.tls].wseq - 1
                      /\ p.q[i].seq = th'[p.tls].wseq - 1 => th'[p.tls].pc # "os"
    BY DEF FillInv, FillState
  <1>1. PICK o \in ovs : Became(o, p)
    BY DEF OvsFrom
  <1>2. PICK m \in Nat : /\ i + m \in DOMAIN o.q /\ p.q[i].seq = o.q[i + m].seq
                         /\ p.q[i].st = "reserved" => o.q[i + m].st = "reserved"
    BY <1>1 DEF Became
  <1>3. p.id = o.id /\ p.tls = o.tls /\ o.ver = version
    BY <1>1 DEF Became
  <1>4. FillState(o, o.q[i + m])
    BY <1>2, <1>3 DEF FillInv
  <1>5. o.tls \in Threads
    BY TypesAre DEF Buffers
  <1>6. CASE o.tls # t
    BY <1>2, <1>3, <1>4, <1>5, <1>6 DEF FillState, TakesNumber
  <1>7. CASE o.tls = t
    <2>1. PICK k \in DOMAIN lp : RefOf(k, o, o.q[i + m])
      BY <1>2, <1>3 DEF RefInv, HasRef
    <2>2. lp[k].seq < th[t].wseq /\ lp[k].seq = o.q[i + m].seq
      BY <1>7, <2>1 DEF SeqInv, RefOf, InWindow
    <2>3. lp[k].seq \in Int /\ th[t].wseq \in Int
      BY TypesAre DEF LpContexts, ThreadRecords
    <2>4. p.q[i].seq # th[t].wseq + 1 - 1
      BY <1>2, <2>2, <2>3
    <2>5. p.q[i].st # "reserved"
      BY <1>2, <1>4, <1>7 DEF FillState, TakesNumber
    <2>6. p.tls = t /\ th'[t].wseq = th[t].wseq + 1
      BY <1>3, <1>7 DEF TakesNumber
    <2>7. p.q[i].seq # th'[p.tls].wseq - 1
      BY <2>3, <2>4, <2>6
    <2> QED BY <2>5, <2>7
  <1> QED BY <1>6, <1>7

LEMMA AddedRecord ==
  ASSUME TypeInv, TypeInv', RecordLive, RefInv', NEW t \in Threads, NEW i, NEW f,
         TakesNumber(t), LpAdded(t, i), BlkAdded(t, f), version' = version, destructed' = destructed
  PROVE  RecordLive'
  <1>1. \A u \in Threads : th[u].rec = "live" => th'[u].rec = "live"
    BY DEF TakesNumber
  <1>2. ~destructed' => \A b \in Taken' : blk'[b].ver = version' => th'[blk'[b].tls].rec = "live"
    <2> SUFFICES ASSUME ~destructed', NEW b \in Taken', blk'[b].ver = version' PROVE th'[blk'[b].tls].rec = "live"
      OBVIOUS
    <2>1. b \in BlockIds
      BY DEF Taken, TypeInv, ToSet
    <2>2. (BlkLive(b))'
      BY DEF BlkLive
    <2>3. CASE b = f
      BY <2>1, <2>3 DEF BlkAdded, TakesNumber
    <2>4. CASE b # f
      <3>1. BlkLive(b) /\ blk'[b].tls = blk[b].tls
        BY <2>1, <2>2, <2>4 DEF BlkAdded
      <3>2. th[blk[b].tls].rec = "live" /\ blk[b].tls \in Threads
        BY <2>1, <3>1, TypesAre DEF RecordLive, BlkLive, BlockRecords
      <3> QED BY <1>1, <3>1, <3>2
    <2> QED BY <2>3, <2>4
  <1>3. ~destructed' => \A k \in DOMAIN lp' : lp'[k].ver = version' => th'[lp'[k].tls].rec = "live"
    <2> SUFFICES ASSUME ~destructed', NEW k \in DOMAIN lp', lp'[k].ver = version' PROVE th'[lp'[k].tls].rec = "live"
      OBVIOUS
    <2>1. CASE k = i
      BY <2>1 DEF LpAdded, TakesNumber
    <2>2. CASE k # i
      <3>1. k \in DOMAIN lp /\ lp'[k] = lp[k]
        BY <2>2 DEF LpAdded
      <3>2. th[lp[k].tls].rec = "live" /\ lp[k].tls \in Threads
        BY <3>1, TypesAre DEF RecordLive, LpContexts
      <3> QED BY <1>1, <3>1, <3>2
    <2> QED BY <2>1, <2>2
  <1>4. (RefInv /\ TypeInv /\
         (~destructed => /\ \A b \in Taken : blk[b].ver = version => th[blk[b].tls].rec = "live"
                         /\ \A k \in DOMAIN lp : lp[k].ver = version => th[lp[k].tls].rec = "live"))'
    BY <1>2, <1>3
  <1> QED BY <1>4, RecordFromRefs, PTL

LEMMA AllAdded ==
  ASSUME LbInv, TypeInv', ListInv', NEW t \in Threads, NEW i, NEW f,
         TakesNumber(t), LpAdded(t, i), BlkAdded(t, f), i = 0 \/ f = 0,
         version' = version, rd' = rd, destructed' = destructed,
         OpenInv', BlockInv', ReaderInv', OvsFrom, LockStays
  PROVE  LbInv'
  <1>0. Parts
    BY PartsAre
  <1>00. /\ TypeInv /\ SeqInv /\ FinInv /\ BufferInv /\ HeldInv /\ RefInv /\ FillInv /\ ChunkInv /\ RecordLive
    BY <1>0 DEF Parts
  <1>1. LpStays
    BY DEF LpStays, LpLive, Handed, LpAdded
  <1>2. RefsStay
    BY <1>1, RefsOfLp
  <1>3. HoldStay
    BY DEF HoldStay, TakesNumber
  <1>4. BufferInv' /\ ChunkInv' /\ RefInv' /\ HeldInv'
    BY <1>00, <1>2, <1>3, BufferKept, ChunkKept, RefKept, HeldKept
  <1>5. SeqInv'
    BY <1>00, AddedSeq
  <1>6. FinInv'
    BY <1>00, AddedFin
  <1>7. FillInv'
    BY <1>00, AddedFill
  <1>8. RecordLive'
    BY <1>00, <1>4, AddedRecord
  <1> QED BY <1>4, <1>5, <1>6, <1>7, <1>8 DEF LbInv

LEMMA LpHeadIs ==
  ASSUME TypeInv, NEW t \in Threads, NEW ext \in BOOLEAN, NEW fin \in BOOLEAN
  PROVE  /\ LpHead(t, ext, fin) \in LpContexts
         /\ LpHead(t, ext, fin).ver = version /\ LpHead(t, ext, fin).tls = t
         /\ LpHead(t, ext, fin).seq = th[t].wseq /\ LpHead(t, ext, fin).fin = fin
         /\ LpHead(t, ext, fin).ext = ext /\ LpHead(t, ext, fin).st = "reserved"
  <1>1. version \in VersionIds /\ th[t].wseq \in Int /\ Entry(t) \in Entries
    BY SentIs DEF TypeInv, ThreadRecords
  <1> QED BY <1>1 DEF LpHead, LpContexts

\* A thread puts a context into the shared ring: the reservation of an entry, of the
\* reference to one, or its mark.
LEMMA AddToRing ==
  ASSUME LbInv, NEW t \in Threads, MayWrite(t), NEW to \in {"lp", "os", "exit"},
         lp' = Append(lp, LpHead(t, to = "os", to = "exit")),
         th' = [th EXCEPT ![t].wseq = @ + 1, ![t].cur = 0, ![t].pc = to],
         blk' = LeaveBlock(t), used' = used, stage' = stage,
         version' = version, rd' = rd, destructed' = destructed, crashes' = crashes,
         sent' \in [0 .. MaxCrashes -> [Threads -> Int]],
         ovs' \subseteq Buffers, OvsFrom, LockStays,
         \A o \in ovs : \E p \in ovs' : p.id = o.id /\ p.ver = o.ver /\ p.tls = o.tls /\ p.q = o.q
  PROVE  LbInv'
  <1>0. Parts
    BY PartsAre
  <1>00. TypeInv /\ ListInv /\ OpenInv /\ BlockInv
    BY <1>0 DEF Parts
  <1>1. PICK c : c = LpHead(t, to = "os", to = "exit")
    OBVIOUS
  <1>2. /\ c \in LpContexts /\ c.ver = version /\ c.tls = t /\ c.seq = th[t].wseq /\ c.fin = (to = "exit")
        /\ c.ext = (to = "os") /\ c.st = "reserved"
    BY <1>00, <1>1, LpHeadIs
  <1>3. PICK n \in Nat : n = Len(lp) /\ DOMAIN lp = 1 .. n
    BY <1>00, TypesAre
  <1>4. /\ lp' \in Seq(LpContexts) /\ DOMAIN lp' = 1 .. n + 1 /\ lp'[n + 1] = c
        /\ \A k \in 1 .. n : lp'[k] = lp[k]
    BY <1>00, <1>1, <1>2, <1>3 DEF TypeInv
  <1>5. /\ th' \in [Threads -> ThreadRecords] /\ \A u \in Threads : u # t => th'[u] = th[u]
        /\ th'[t].pc = to /\ th'[t].cur = 0 /\ th'[t].wseq = th[t].wseq + 1 /\ th'[t].rseq = th[t].rseq
        /\ th'[t].rec = th[t].rec /\ th[t].wseq \in Int
    <2>01. to \in Places
      BY DEF Places
    <2>02. 0 \in 0 .. Blocks
      BY LogBufferAssumption
    <2>1. th \in [Threads -> ThreadRecords] /\ 0 \in 0 .. Blocks /\ th[t] \in ThreadRecords /\ to \in Places
      BY <1>00, <2>01, <2>02 DEF TypeInv
    <2>2. th[t].wseq \in Int /\ th[t].wseq + 1 \in Int
      BY <2>1 DEF ThreadRecords
    <2> QED BY <2>1, <2>2 DEF ThreadRecords
  <1>6. th[t].pc = "idle" /\ th[t].rec = "live"
    BY DEF MayWrite
  <1>7. TakesNumber(t)
    BY <1>5, <1>6 DEF TakesNumber
  <1>8. LpAdded(t, n + 1)
    <2>1. \A k \in 1 .. n : k \in 1 .. n + 1 /\ k # n + 1
      OBVIOUS
    <2>2. \A k \in 1 .. n + 1 : k # n + 1 => k \in 1 .. n
      OBVIOUS
    <2> QED BY <1>2, <1>3, <1>4, <1>5, <2>1, <2>2 DEF LpAdded
  <1>9. /\ blk' \in [BlockIds -> BlockRecords]
        /\ \A b \in BlockIds : /\ blk'[b].ver = blk[b].ver /\ blk'[b].tls = blk[b].tls /\ blk'[b].seq = blk[b].seq
                               /\ blk'[b].fin = blk[b].fin /\ (blk[b].removed => blk'[b].removed)
                               /\ b # th[t].cur => blk'[b] = blk[b]
    BY <1>00, LeaveBlockIs
  <1>10. TypeInv'
    BY <1>00, <1>4, <1>5, <1>9 DEF TypeInv
  <1>11. BlkFrom
    BY <1>9, BlkSameKeeps DEF BlkSame
  <1>12. BlkAdded(t, 0)
    <2>1. 0 \notin BlockIds
      BY DEF BlockIds
    <2> QED BY <1>11, <2>1 DEF BlkAdded, BlkFrom
  <1>13. StayHolding
    <2>1. Taken' = Taken
      BY DEF Taken
    <2>2. \A u \in Threads : u # t /\ th[u].pc # "gone" /\ th[u].cur # 0 =>
              th[u].cur # th[t].cur /\ th[u].cur \in Taken /\ th[u].cur \in BlockIds
      BY <1>00, <1>6, HoldersApart
    <2> QED BY <1>5, <1>9, <2>1, <2>2 DEF StayHolding
  <1>14. BlockInv'
    BY <1>00, <1>13, BlockKept
  <1>15. OpenInv'
    <2>1. ASSUME NEW u \in Threads, th'[u].pc \in Writing
          PROVE  th'[u].cur = 0 /\ \E k \in DOMAIN lp' : (Reservation(k, u))'
      <3>1. CASE u = t
        <4>1. n + 1 \in DOMAIN lp'
          BY <1>4
        <4>2. th'[t].wseq - 1 = th[t].wseq
          BY <1>5
        <4>3. (Reservation(n + 1, t))'
          BY <1>2, <1>4, <1>5, <4>2 DEF Reservation
        <4> QED BY <1>5, <3>1, <4>1, <4>3
      <3>2. CASE u # t
        <4>1. th'[u] = th[u]
          BY <1>5, <3>2
        <4>2. PICK k \in DOMAIN lp : Reservation(k, u) /\ th[u].cur = 0
          BY <1>00, <2>1, <4>1 DEF OpenInv
        <4>3. k \in DOMAIN lp' /\ lp'[k] = lp[k]
          BY <1>3, <1>4
        <4>4. (Reservation(k, u))'
          BY <4>1, <4>2, <4>3 DEF Reservation
        <4> QED BY <4>1, <4>2, <4>3, <4>4
      <3> QED BY <3>1, <3>2
    <2>2. ASSUME NEW k \in DOMAIN lp', lp'[k].st = "reserved"
          PROVE  th'[lp'[k].tls].pc \in Writing /\ (Reservation(k, lp[k].tls))'
      <3>1. CASE k = n + 1
        <4>2. th'[t].wseq - 1 = th[t].wseq
          BY <1>5
        <4>3. lp'[k] = c
          BY <1>4, <3>1
        <4>4. (Reservation(k, t))' /\ lp'[k].tls = t
          BY <1>2, <1>5, <4>2, <4>3 DEF Reservation
        <4>5. th'[t].pc \in Writing
          BY <1>5 DEF Writing
        <4> QED BY <4>4, <4>5 DEF Reservation
      <3>2. CASE k \in DOMAIN lp
        <4>1. lp'[k] = lp[k] /\ lp[k].tls \in Threads
          BY <1>00, <1>3, <1>4, <3>2, TypesAre DEF LpContexts
        <4>2. th[lp[k].tls].pc \in Writing /\ Reservation(k, lp[k].tls)
          BY <1>00, <2>2, <3>2, <4>1 DEF OpenInv
        <4>3. lp[k].tls # t
          BY <1>6, <4>2 DEF Writing
        <4>4. th'[lp[k].tls] = th[lp[k].tls]
          BY <1>5, <4>1, <4>3
        <4> QED BY <4>1, <4>2, <4>4 DEF Reservation
      <3> QED BY <1>3, <1>4, <3>1, <3>2
    <2> QED BY <2>1, <2>2 DEF OpenInv
  <1>16. ReaderInv'
    <2>1. HandsOff
      <3>1. rd.cur # 0 => rd.cur \in BlockIds
        BY <1>00 DEF TypeInv, ListInv
      <3>2. lp # <<>> => lp' # <<>> /\ lp'[1] = lp[1]
        <4>1. lp # <<>> => 1 \in 1 .. n
          BY <1>00, <1>3 DEF TypeInv
        <4>2. 1 \in 1 .. n => 1 \in 1 .. n + 1
          OBVIOUS
        <4> QED BY <1>4, <4>1, <4>2
      <3>3. \A o \in ovs : o.q # <<>> =>
              \E p \in ovs' : /\ p.id = o.id /\ p.ver = o.ver /\ p.tls = o.tls /\ p.q # <<>>
                              /\ p.q[1].seq = o.q[1].seq
        <4> SUFFICES ASSUME NEW o \in ovs, o.q # <<>>
                     PROVE  \E p \in ovs' : /\ p.id = o.id /\ p.ver = o.ver /\ p.tls = o.tls /\ p.q # <<>>
                                            /\ p.q[1].seq = o.q[1].seq
          OBVIOUS
        <4>1. PICK p \in ovs' : p.id = o.id /\ p.ver = o.ver /\ p.tls = o.tls /\ p.q = o.q
          OBVIOUS
        <4> QED BY <4>1
      <3> QED BY <1>5, <1>9, <3>1, <3>2, <3>3 DEF HandsOff
    <2> QED BY <1>0, <2>1, ReaderKept DEF Parts
  <1>17. ListInv'
    BY <1>00, ListKept
  <1> QED BY <1>7, <1>8, <1>10, <1>12, <1>14, <1>15, <1>16, <1>17, AllAdded

\* The mark on the buffers of an ended thread leaves their entries alone.
LEMMA FinishedIs ==
  ASSUME TypeInv, BufferInv, NEW t \in Threads, ovs' = FinishedOversize(t)
  PROVE  /\ ovs' \subseteq Buffers /\ OvsFrom /\ LockStays
         /\ \A o \in ovs : \E p \in ovs' : p.id = o.id /\ p.ver = o.ver /\ p.tls = o.tls /\ p.q = o.q
  <1> DEFINE f == [o \in ovs |-> [o EXCEPT !.fin = @ \/ (o.tls = t /\ o.ver = version)]]
  <1>1. ovs' = {f[o] : o \in ovs} /\ DOMAIN f = ovs
    BY DEF FinishedOversize
  <1>2. ASSUME NEW o \in ovs
        PROVE  /\ f[o] \in Buffers /\ f[o].id = o.id /\ f[o].ver = o.ver /\ f[o].tls = o.tls
               /\ f[o].q = o.q /\ f[o].locked = o.locked
    <2>1. o \in Buffers
      BY DEF TypeInv
    <2>2. PICK y \in BOOLEAN : y = (o.fin \/ (o.tls = t /\ o.ver = version))
      OBVIOUS
    <2>3. f[o] = [o EXCEPT !.fin = y]
      BY <2>2
    <2> HIDE DEF f
    <2> QED BY <2>1, <2>3 DEF Buffers
  <1> HIDE DEF f
  <1>3. Named(ovs')
    BY <1>1, <1>2, NamedKept DEF BufferInv
  <1>4. ASSUME NEW o \in ovs PROVE Became(o, f[o])
    <2>1. \A i \in DOMAIN o.q : i + 0 = i
      BY DEF TypeInv, Buffers
    <2>2. \A i \in DOMAIN f[o].q :
            /\ i + 0 \in DOMAIN o.q /\ f[o].q[i].seq = o.q[i + 0].seq
            /\ f[o].q[i].st = "reserved" => o.q[i + 0].st = "reserved"
      BY <1>2, <2>1
    <2> QED BY <1>2, <2>2 DEF Became
  <1>5. OvsFrom
    BY <1>1, <1>3, <1>4 DEF OvsFrom
  <1>6. LockStays
    BY <1>1, <1>2 DEF LockStays
  <1>7. ovs' \subseteq Buffers
    BY <1>1, <1>2
  <1>8. \A o \in ovs : \E p \in ovs' : p.id = o.id /\ p.ver = o.ver /\ p.tls = o.tls /\ p.q = o.q
    BY <1>1, <1>2
  <1> QED BY <1>5, <1>6, <1>7, <1>8

LEMMA AllocRing ==
  ASSUME LbInv, NEW t \in Threads, alloc_low(t) \/ alloc_oversize_parent(t) \/ exit_mark(t)
  PROVE  LbInv'
  <1>0. Parts
    BY PartsAre
  <1>00. TypeInv /\ BufferInv
    BY <1>0 DEF Parts
  <1>1. ovs' = ovs => /\ ovs' \subseteq Buffers /\ OvsFrom /\ LockStays
                      /\ \A o \in ovs : \E p \in ovs' : p.id = o.id /\ p.ver = o.ver /\ p.tls = o.tls /\ p.q = o.q
    <2> SUFFICES ASSUME ovs' = ovs
                 PROVE  /\ ovs' \subseteq Buffers /\ OvsFrom /\ LockStays
                        /\ \A o \in ovs : \E p \in ovs' : p.id = o.id /\ p.ver = o.ver /\ p.tls = o.tls /\ p.q = o.q
      OBVIOUS
    <2>1. ovs' \subseteq Buffers
      BY <1>00 DEF TypeInv
    <2>2. OvsFrom
      BY <1>00, OvsSame
    <2>3. LockStays
      BY DEF LockStays
    <2> QED BY <2>1, <2>2, <2>3
  <1>2. CASE alloc_low(t)
    <2> DEFINE to == "lp"
    <2>1. /\ MayWrite(t) /\ lp' = Append(lp, LpHead(t, FALSE, FALSE))
          /\ th' = [th EXCEPT ![t].wseq = @ + 1, ![t].cur = 0, ![t].pc = to]
          /\ blk' = LeaveBlock(t) /\ used' = used /\ stage' = stage /\ ovs' = ovs
          /\ version' = version /\ rd' = rd /\ destructed' = destructed /\ crashes' = crashes
          /\ sent' = [sent EXCEPT ![crashes][t] = @ + 1]
      BY <1>2 DEF alloc_low, Allocated
    <2>2. sent' \in [0 .. MaxCrashes -> [Threads -> Int]]
      BY <1>00, <2>1, SentIs
    <2>3. lp' = Append(lp, LpHead(t, to = "os", to = "exit")) /\ to \in {"lp", "os", "exit"}
      <3>1. (to = "os") = FALSE /\ (to = "exit") = FALSE
        OBVIOUS
      <3> QED BY <2>1, <3>1, Zenon
    <2> HIDE DEF to
    <2> QED BY <1>1, <2>1, <2>2, <2>3, AddToRing
  <1>3. CASE alloc_oversize_parent(t)
    <2> DEFINE to == "os"
    <2>1. /\ MayWrite(t) /\ lp' = Append(lp, LpHead(t, TRUE, FALSE))
          /\ th' = [th EXCEPT ![t].wseq = @ + 1, ![t].cur = 0, ![t].pc = to]
          /\ blk' = LeaveBlock(t) /\ used' = used /\ stage' = stage /\ ovs' = ovs
          /\ version' = version /\ rd' = rd /\ destructed' = destructed /\ crashes' = crashes
          /\ sent' = sent
      BY <1>3 DEF alloc_oversize_parent
    <2>2. sent' \in [0 .. MaxCrashes -> [Threads -> Int]]
      BY <1>00, <2>1 DEF TypeInv
    <2>3. lp' = Append(lp, LpHead(t, to = "os", to = "exit")) /\ to \in {"lp", "os", "exit"}
      <3>1. (to = "os") = TRUE /\ (to = "exit") = FALSE
        OBVIOUS
      <3> QED BY <2>1, <3>1, Zenon
    <2> HIDE DEF to
    <2> QED BY <1>1, <2>1, <2>2, <2>3, AddToRing
  <1>4. CASE exit_mark(t)
    <2> DEFINE to == "exit"
    <2>1. /\ MayWrite(t) /\ lp' = Append(lp, LpHead(t, FALSE, TRUE)) /\ th[t].cur = 0
          /\ th' = [th EXCEPT ![t].pc = to, ![t].wseq = @ + 1]
          /\ blk' = blk /\ used' = used /\ stage' = stage /\ ovs' = FinishedOversize(t)
          /\ version' = version /\ rd' = rd /\ destructed' = destructed /\ crashes' = crashes
          /\ sent' = sent
      BY <1>4 DEF exit_mark
    <2>2. sent' \in [0 .. MaxCrashes -> [Threads -> Int]]
      BY <1>00, <2>1 DEF TypeInv
    <2>3. lp' = Append(lp, LpHead(t, to = "os", to = "exit")) /\ to \in {"lp", "os", "exit"}
      <3>1. (to = "os") = FALSE /\ (to = "exit") = TRUE
        OBVIOUS
      <3> QED BY <2>1, <3>1, Zenon
    <2>4. th' = [th EXCEPT ![t].wseq = @ + 1, ![t].cur = 0, ![t].pc = to]
      <3>1. th \in [Threads -> ThreadRecords] /\ th[t] \in ThreadRecords
        BY <1>00 DEF TypeInv
      <3>2. [[th[t] EXCEPT !.pc = to] EXCEPT !.wseq = @ + 1] = [[[th[t] EXCEPT !.wseq = @ + 1] EXCEPT !.cur = 0] EXCEPT !.pc = to]
        BY <2>1, <3>1 DEF ThreadRecords
      <3> QED BY <2>1, <3>1, <3>2
    <2>5. blk' = LeaveBlock(t)
      BY <2>1 DEF LeaveBlock
    <2>6. /\ ovs' \subseteq Buffers /\ OvsFrom /\ LockStays
          /\ \A o \in ovs : \E p \in ovs' : p.id = o.id /\ p.ver = o.ver /\ p.tls = o.tls /\ p.q = o.q
      BY <1>00, <2>1, FinishedIs
    <2> HIDE DEF to
    <2> QED BY <2>1, <2>2, <2>3, <2>4, <2>5, <2>6, AddToRing
  <1> QED BY <1>2, <1>3, <1>4

LEMMA BlankIs ==
  Blank \in BlockRecords /\ Blank.ver = 0
  <1>1. PICK t \in Threads : t = (CHOOSE u \in Threads : TRUE)
    BY LogBufferAssumption
  <1>2. 0 \in VersionIds /\ <<>> \in Seq(Entries)
    BY LogBufferAssumption DEF VersionIds
  <1>3. Blank = [ver |-> 0, tls |-> t, seq |-> 0, fin |-> FALSE, removed |-> FALSE, realloc |-> FALSE, q |-> <<>>]
    BY <1>1 DEF Blank
  <1> QED BY <1>2, <1>3 DEF BlockRecords

LEMMA AllocNewBlock ==
  ASSUME LbInv, NEW t \in Threads, alloc_high(t), NeedsBlock(t), alloc_new_hp_block(t)
  PROVE  LbInv'
  <1>0. Parts
    BY PartsAre
  <1>00. TypeInv /\ ListInv /\ OpenInv /\ BlockInv /\ BufferInv
    BY <1>0 DEF Parts
  <1>1. /\ th[t].pc = "idle" /\ th[t].rec = "live" /\ lp' = lp /\ used' = used /\ ovs' = ovs
        /\ version' = version /\ rd' = rd /\ destructed' = destructed /\ crashes' = crashes
        /\ sent' = [sent EXCEPT ![crashes][t] = @ + 1]
    BY DEF alloc_high, MayWrite, Allocated
  <1>2. PICK g \in BlockIds : g = FreeBlock /\ g \notin Taken
    BY <1>00, FreeBlockIs DEF alloc_new_hp_block
  <1>3. PICK n : n = [Blank EXCEPT !.ver = version, !.tls = t, !.seq = th[t].wseq]
    OBVIOUS
  <1>4. /\ blk' = [LeaveBlock(t) EXCEPT ![g] = n] /\ stage' = Append(stage, g)
        /\ th' = [th EXCEPT ![t].cur = g, ![t].wseq = @ + 1, ![t].pc = "hp"]
    BY <1>2, <1>3 DEF alloc_new_hp_block, NewBlock
  <1>5. /\ n \in BlockRecords /\ n.ver = version /\ n.tls = t /\ n.seq = th[t].wseq /\ ~n.fin /\ ~n.removed
    <2>1. version \in VersionIds /\ th[t].wseq \in Int
      BY <1>00 DEF TypeInv, ThreadRecords
    <2>2. Blank \in BlockRecords /\ ~Blank.fin /\ ~Blank.removed
      BY BlankIs DEF Blank
    <2> QED BY <1>3, <2>1, <2>2 DEF BlockRecords
  <1>6. /\ th' \in [Threads -> ThreadRecords] /\ \A u \in Threads : u # t => th'[u] = th[u]
        /\ th'[t].pc = "hp" /\ th'[t].cur = g /\ th'[t].wseq = th[t].wseq + 1 /\ th'[t].rseq = th[t].rseq
        /\ th'[t].rec = th[t].rec /\ th[t].wseq \in Int
    <2>1. th \in [Threads -> ThreadRecords] /\ g \in 0 .. Blocks /\ th[t] \in ThreadRecords
      BY <1>00 DEF TypeInv, BlockIds
    <2>2. th[t].wseq \in Int /\ th[t].wseq + 1 \in Int
      BY <2>1 DEF ThreadRecords
    <2> QED BY <1>4, <2>1, <2>2 DEF ThreadRecords, Places
  <1>7. TakesNumber(t)
    BY <1>1, <1>6 DEF TakesNumber
  <1>8. LpAdded(t, 0)
    <2>1. 0 \notin DOMAIN lp /\ DOMAIN lp = 1 .. Len(lp)
      BY <1>00, TypesAre
    <2> QED BY <1>1, <2>1 DEF LpAdded
  <1>9. /\ blk' \in [BlockIds -> BlockRecords] /\ blk'[g] = n
        /\ \A b \in BlockIds : b # g =>
              /\ blk'[b].ver = blk[b].ver /\ blk'[b].tls = blk[b].tls /\ blk'[b].seq = blk[b].seq
              /\ blk'[b].fin = blk[b].fin /\ (blk[b].removed => blk'[b].removed)
              /\ b # th[t].cur => blk'[b] = blk[b]
    <2>1. /\ LeaveBlock(t) \in [BlockIds -> BlockRecords]
          /\ \A b \in BlockIds :
               /\ LeaveBlock(t)[b].ver = blk[b].ver /\ LeaveBlock(t)[b].tls = blk[b].tls
               /\ LeaveBlock(t)[b].seq = blk[b].seq /\ LeaveBlock(t)[b].fin = blk[b].fin
               /\ blk[b].removed => LeaveBlock(t)[b].removed
               /\ b # th[t].cur => LeaveBlock(t)[b] = blk[b]
      BY <1>00, LeaveBlockIs
    <2> QED BY <1>4, <1>5, <2>1
  <1>10. /\ stage' \in Seq(BlockIds) /\ Once(stage') /\ ToSet(stage') = ToSet(stage) \cup {g}
         /\ Taken' = Taken \cup {g}
    <2>1. stage \in Seq(BlockIds) /\ Once(stage) /\ g \notin ToSet(stage)
      BY <1>00, <1>2 DEF TypeInv, ListInv, Taken
    <2>2. stage' \in Seq(BlockIds) /\ Once(stage') /\ ToSet(stage') = ToSet(stage) \cup {g}
      BY <1>4, <2>1, AppendOnce
    <2> QED BY <1>1, <2>2 DEF Taken
  <1>11. TypeInv'
    <2>1. sent' \in [0 .. MaxCrashes -> [Threads -> Int]]
      BY <1>00, <1>1, SentIs
    <2> QED BY <1>00, <1>1, <1>6, <1>9, <1>10, <2>1 DEF TypeInv
  <1>12. BlkAdded(t, g)
    <2>1. \A b \in BlockIds : (BlkLive(b))' /\ b # g => BlkLive(b)
      BY <1>1, <1>9, <1>10 DEF BlkLive
    <2> QED BY <1>5, <1>9, <2>1 DEF BlkAdded
  <1>13. \A u \in Threads : u # t /\ th[u].pc # "gone" /\ th[u].cur # 0 =>
              th[u].cur # th[t].cur /\ th[u].cur \in Taken /\ th[u].cur \in BlockIds /\ th[u].cur # g
    BY <1>00, <1>1, <1>2, HoldersApart
  <1>14. BlockInv'
    <2> SUFFICES ASSUME NEW u \in Threads, th'[u].pc # "gone", th'[u].cur # 0
                 PROVE  /\ th'[u].cur \in Taken' /\ blk'[th'[u].cur].ver = version'
                        /\ blk'[th'[u].cur].tls = u /\ blk'[th'[u].cur].seq = th'[u].wseq - 1
                        /\ ~blk'[th'[u].cur].removed /\ ~blk'[th'[u].cur].fin
      BY DEF BlockInv, BlkLive
    <2>1. CASE u = t
      <3>1. th'[t].wseq - 1 = th[t].wseq
        BY <1>6
      <3> QED BY <1>1, <1>5, <1>6, <1>9, <1>10, <2>1, <3>1
    <2>2. CASE u # t
      <3>1. th'[u] = th[u]
        BY <1>6, <2>2
      <3>2. /\ BlkLive(th[u].cur) /\ blk[th[u].cur].tls = u /\ blk[th[u].cur].seq = th[u].wseq - 1
            /\ ~blk[th[u].cur].removed /\ ~blk[th[u].cur].fin
        BY <1>00, <3>1 DEF BlockInv
      <3>3. blk'[th[u].cur] = blk[th[u].cur]
        BY <1>9, <1>13, <2>2, <3>1
      <3> QED BY <1>1, <1>10, <3>1, <3>2, <3>3 DEF BlkLive
    <2> QED BY <2>1, <2>2
  <1>15. OpenInv'
    <2>1. OpenFrom(0)
      BY <1>00, <1>1, LpUnchanged
    <2>2. OpenThreads
      BY <1>1, <1>6 DEF OpenThreads, Writing
    <2> QED BY <1>00, <1>1, <2>1, <2>2, OpenKept
  <1>16. ReaderInv'
    <2>1. rd.cur # 0 => rd.cur \in BlockIds /\ rd.cur # g
      BY <1>00, <1>2 DEF TypeInv, ListInv, Taken, ToSet
    <2>2. HandsOff
      BY <1>1, <1>6, <1>9, <2>1 DEF HandsOff
    <2> QED BY <1>0, <1>1, <2>2, ReaderKept DEF Parts
  <1>17. ListInv'
    <2>1. \A i \in DOMAIN used : used[i] \in ToSet(used)
      BY DEF ToSet
    <2>2. \A j \in DOMAIN stage' : stage'[j] \in ToSet(stage) \cup {g}
      BY <1>10 DEF ToSet
    <2>3. \A i \in DOMAIN used, x \in ToSet(stage) \cup {g} : used[i] # x
      BY <1>00, <1>2, <2>1 DEF ListInv, Taken, ToSet
    <2>4. \A i \in DOMAIN used', j \in DOMAIN stage' : used'[i] # stage'[j]
      BY <1>1, <2>2, <2>3
    <2> QED BY <1>00, <1>1, <1>10, <2>4 DEF ListInv
  <1>18. OvsFrom /\ LockStays
    BY <1>00, <1>1, OvsSame DEF LockStays
  <1> QED BY <1>1, <1>7, <1>8, <1>11, <1>12, <1>14, <1>15, <1>16, <1>17, <1>18, AllAdded

LEMMA AllocSameBlock ==
  ASSUME LbInv, NEW t \in Threads, alloc_high(t), th' = [th EXCEPT ![t].pc = "hp"], UNCHANGED <<stage, blk>>
  PROVE  LbInv'
  <1>0. Parts
    BY PartsAre
  <1>00. TypeInv /\ ListInv /\ BlockInv
    BY <1>0 DEF Parts
  <1>1. /\ th[t].pc = "idle" /\ lp' = lp /\ used' = used /\ ovs' = ovs /\ stage' = stage /\ blk' = blk
        /\ version' = version /\ rd' = rd /\ destructed' = destructed /\ crashes' = crashes
        /\ sent' = [sent EXCEPT ![crashes][t] = @ + 1]
    BY DEF alloc_high, MayWrite, Allocated
  <1>2. Moves(t, "hp") /\ th'[t].target = th[t].target
    BY <1>00, MovesIs DEF Places
  <1>4. TypeInv'
    <2>1. sent' \in [0 .. MaxCrashes -> [Threads -> Int]]
      BY <1>00, <1>1, SentIs
    <2> QED BY <1>00, <1>1, <1>2, <2>1 DEF TypeInv, Moves
  <1>5. LpFrom(0) /\ RecFrom(0) /\ LpStays /\ OpenFrom(0)
    BY <1>00, <1>1, LpUnchanged, LpSameKeeps
  <1>6. BlkFrom /\ BlkNumbers
    BY <1>1, BlkSameKeeps DEF BlkSame
  <1>7. OvsFrom /\ RefsStay
    BY <1>0, <1>1, <1>5, OvsSame, RefsOfLp DEF Parts
  <1>8. Forward /\ RecStay
    BY <1>00, <1>2, MovesKeeps DEF Places
  <1>9. StayEnded /\ OpenThreads /\ FillStay /\ HoldStay
    BY <1>1, <1>2 DEF StayEnded, OpenThreads, FillStay, HoldStay, Moves, Writing
  <1>10. StayHolding
    <2>1. Taken' = Taken
      BY <1>1 DEF Taken
    <2>2. \A u \in Threads : th[u].pc # "gone" /\ th[u].cur # 0 => th[u].cur \in Taken
      BY <1>00 DEF BlockInv, BlkLive
    <2> QED BY <1>1, <1>2, <2>1, <2>2 DEF StayHolding, Moves
  <1>11. HandsOff
    BY <1>1, <1>2 DEF HandsOff, Moves
  <1>12. LockStays
    BY <1>1 DEF LockStays
  <1>13. Windows
    BY <1>0, <1>4, <1>5, <1>6, <1>8, WindowsKept DEF Parts
  <1>14. OpenInv'
    BY <1>0, <1>1, <1>5, <1>9, OpenKept DEF Parts
  <1>15. ReaderInv'
    BY <1>0, <1>1, <1>11, ReaderKept DEF Parts
  <1>16. ListInv'
    BY <1>0, <1>1, ListKept DEF Parts
  <1> QED BY <1>1, <1>4, <1>5, <1>6, <1>7, <1>8, <1>9, <1>10, <1>12, <1>13, <1>14, <1>15, <1>16, AllKept

LEMMA AllocHigh ==
  ASSUME LbInv, NEW t \in Threads, alloc_high(t)
  PROVE  LbInv'
  BY AllocNewBlock, AllocSameBlock DEF alloc_high

LEMMA ExitBlock ==
  ASSUME LbInv, NEW t \in Threads, exit_block(t)
  PROVE  LbInv'
  <1>0. Parts
    BY PartsAre
  <1>00. TypeInv /\ ListInv /\ OpenInv /\ BlockInv /\ BufferInv /\ FinInv
    BY <1>0 DEF Parts
  <1>1. /\ th[t].pc = "idle" /\ th[t].cur # 0 /\ lp' = lp /\ used' = used /\ stage' = stage
        /\ version' = version /\ rd' = rd /\ destructed' = destructed /\ crashes' = crashes /\ sent' = sent
        /\ ovs' = FinishedOversize(t) /\ th' = [th EXCEPT ![t].pc = "gone"]
        /\ blk' = [Removed(th[t].cur) EXCEPT ![th[t].cur].fin = TRUE]
    BY DEF exit_block, MayWrite
  <1>2. Moves(t, "gone") /\ th'[t].target = th[t].target
    BY <1>00, <1>1, MovesIs DEF Places
  <1>3. /\ ovs' \subseteq Buffers /\ OvsFrom /\ LockStays
        /\ \A o \in ovs : \E p \in ovs' : p.id = o.id /\ p.ver = o.ver /\ p.tls = o.tls /\ p.q = o.q
    BY <1>00, <1>1, FinishedIs
  <1>4. PICK g \in BlockIds : g = th[t].cur
    BY <1>00, <1>1, TypesAre DEF BlockInv, BlkLive
  <1>5. BlkLive(g) /\ blk[g].tls = t /\ blk[g].seq = th[t].wseq - 1
    BY <1>00, <1>1, <1>4 DEF BlockInv
  <1>6. /\ blk' \in [BlockIds -> BlockRecords]
        /\ \A b \in BlockIds : /\ blk'[b].ver = blk[b].ver /\ blk'[b].tls = blk[b].tls /\ blk'[b].seq = blk[b].seq
                               /\ blk[b].removed => blk'[b].removed
                               /\ b # g => blk'[b] = blk[b]
    <2>1. blk \in [BlockIds -> BlockRecords] /\ blk' = [[blk EXCEPT ![g].removed = TRUE] EXCEPT ![g].fin = TRUE]
      BY <1>00, <1>1, <1>4 DEF TypeInv, Removed
    <2> QED BY <2>1 DEF BlockRecords
  <1>7. TypeInv'
    BY <1>00, <1>1, <1>2, <1>3, <1>6 DEF TypeInv, Moves
  <1>8. LpFrom(0) /\ RecFrom(0) /\ LpStays /\ OpenFrom(0)
    BY <1>00, <1>1, LpUnchanged, LpSameKeeps
  <1>9. BlkNumbers
    BY <1>1, <1>6 DEF BlkNumbers, BlkLive, Taken
  <1>10. Forward /\ RecStay
    BY <1>00, <1>2, MovesKeeps DEF Places
  <1>11. OpenThreads /\ FillStay /\ HoldStay
    BY <1>1, <1>2 DEF OpenThreads, FillStay, HoldStay, Moves, Writing
  <1>12. Windows
    BY <1>0, <1>7, <1>8, <1>9, <1>10, WindowsKept DEF Parts
  <1>13. SeqInv'
    <2>1. DOMAIN lp' \subseteq Nat
      BY <1>7 DEF TypeInv
    <2> QED BY <1>0, <1>8, <1>9, <1>12, <2>1, SeqKept DEF Parts
  <1>14. FinInv'
    <2>1. ASSUME NEW k \in DOMAIN lp', (LpLive(k))', lp'[k].fin
          PROVE  th'[lp'[k].tls].pc \in {"exit", "gone"} /\ lp'[k].seq = th'[lp'[k].tls].wseq - 1
      <3>1. LpLive(k) /\ k \in DOMAIN lp /\ lp'[k] = lp[k]
        BY <1>1, <2>1 DEF LpLive, Handed
      <3>2. th[lp[k].tls].pc \in {"exit", "gone"} /\ lp[k].seq = th[lp[k].tls].wseq - 1
        BY <1>00, <2>1, <3>1 DEF FinInv
      <3>3. lp[k].tls \in Threads
        BY <1>00, <3>1, TypesAre DEF LpContexts
      <3> QED BY <1>2, <3>1, <3>2, <3>3 DEF Moves
    <2>2. ASSUME NEW b \in BlockIds, (BlkLive(b))', blk'[b].fin
          PROVE  th'[blk'[b].tls].pc = "gone" /\ blk'[b].seq = th'[blk'[b].tls].wseq - 1
      <3>1. CASE b = g
        BY <1>2, <1>5, <1>6, <3>1 DEF Moves
      <3>2. CASE b # g
        <4>1. BlkLive(b) /\ blk'[b] = blk[b]
          BY <1>6, <1>9, <2>2, <3>2 DEF BlkNumbers
        <4>2. th[blk[b].tls].pc = "gone" /\ blk[b].seq = th[blk[b].tls].wseq - 1
          BY <1>00, <2>2, <4>1 DEF FinInv
        <4>3. blk[b].tls \in Threads
          BY <1>00, TypesAre DEF BlockRecords
        <4> QED BY <1>2, <4>1, <4>2, <4>3 DEF Moves
      <3> QED BY <3>1, <3>2
    <2>3. BlockIds' = BlockIds
      BY DEF BlockIds
    <2> QED BY <2>1, <2>2, <2>3 DEF FinInv
  <1>15. BlockInv'
    <2>1. Taken' = Taken
      BY <1>1 DEF Taken
    <2>2. \A u \in Threads : u # t /\ th[u].pc # "gone" /\ th[u].cur # 0 =>
              th[u].cur # th[t].cur /\ th[u].cur \in Taken /\ th[u].cur \in BlockIds
      BY <1>00, <1>1, HoldersApart
    <2>3. StayHolding
      BY <1>2, <1>4, <1>6, <2>1, <2>2 DEF StayHolding, Moves
    <2> QED BY <1>00, <1>1, <2>3, BlockKept
  <1>16. OpenInv'
    BY <1>0, <1>1, <1>8, <1>11, OpenKept DEF Parts
  <1>17. ReaderInv'
    <2>1. rd.cur # 0 => rd.cur \in BlockIds
      BY <1>00 DEF TypeInv, ListInv
    <2>2. \A o \in ovs : o.q # <<>> =>
            \E p \in ovs' : /\ p.id = o.id /\ p.ver = o.ver /\ p.tls = o.tls /\ p.q # <<>>
                            /\ p.q[1].seq = o.q[1].seq
      <3> SUFFICES ASSUME NEW o \in ovs, o.q # <<>>
                   PROVE  \E p \in ovs' : /\ p.id = o.id /\ p.ver = o.ver /\ p.tls = o.tls /\ p.q # <<>>
                                          /\ p.q[1].seq = o.q[1].seq
        OBVIOUS
      <3>1. PICK p \in ovs' : p.id = o.id /\ p.ver = o.ver /\ p.tls = o.tls /\ p.q = o.q
        BY <1>3
      <3> QED BY <3>1
    <2>3. HandsOff
      BY <1>1, <1>2, <1>6, <2>1, <2>2 DEF HandsOff, Moves
    <2> QED BY <1>0, <1>1, <2>3, ReaderKept DEF Parts
  <1>18. ListInv'
    BY <1>0, <1>1, ListKept DEF Parts
  <1>19. RefsStay
    BY <1>8, RefsOfLp
  <1>20. BufferInv' /\ ChunkInv' /\ RefInv' /\ FillInv' /\ HeldInv'
    BY <1>0, <1>1, <1>3, <1>7, <1>11, <1>19, BufferKept, ChunkKept, RefKept, FillKept, HeldKept DEF Parts
  <1>21. RecordLive'
    BY <1>0, <1>1, <1>7, <1>8, <1>9, <1>10, <1>20, RecordKept DEF Parts
  <1> QED BY <1>7, <1>13, <1>14, <1>15, <1>16, <1>17, <1>18, <1>20, <1>21 DEF LbInv

\* The number is taken back, and the reference is of no version the reader looks at.
LEMMA AllocOversizeFailed ==
  ASSUME LbInv, NEW t \in Threads, alloc_oversize_failed(t)
  PROVE  LbInv'
  <1>0. Parts
    BY PartsAre
  <1>00. TypeInv /\ ListInv /\ OpenInv /\ BlockInv /\ BufferInv /\ FinInv /\ SeqInv /\ ReaderInv /\ RefInv /\ FillInv
    BY <1>0 DEF Parts
  <1>1. PICK i : /\ i = (CHOOSE k \in DOMAIN lp : lp[k].tls = t /\ lp[k].st = "reserved")
                 /\ lp' = [lp EXCEPT ![i].ver = Mod(version + 1), ![i].st = "used"]
    BY DEF alloc_oversize_failed
  <1>2. /\ th[t].pc = "os" /\ th' = [th EXCEPT ![t].pc = "idle", ![t].wseq = @ - 1]
        /\ version' = version /\ used' = used /\ stage' = stage /\ blk' = blk /\ ovs' = ovs /\ rd' = rd
        /\ destructed' = destructed /\ sent' = sent /\ crashes' = crashes
    BY DEF alloc_oversize_failed, ghosts, bounds
  <1>3. i \in DOMAIN lp /\ Reservation(i, t) /\ LpLive(i)
    <2>1. \E k \in DOMAIN lp : lp[k].tls = t /\ lp[k].st = "reserved"
      BY <1>00, <1>2 DEF OpenInv, Writing, Reservation
    <2>2. i \in DOMAIN lp /\ lp[i].tls = t /\ lp[i].st = "reserved"
      BY <1>1, <2>1
    <2>3. Reservation(i, t)
      BY <1>00, <2>2 DEF OpenInv
    <2> QED BY <1>00, <2>2, <2>3, ReservationLive
  <1>4. /\ th' \in [Threads -> ThreadRecords] /\ \A u \in Threads : u # t => th'[u] = th[u]
        /\ th'[t].pc = "idle" /\ th'[t].cur = th[t].cur /\ th'[t].wseq = th[t].wseq - 1 /\ th'[t].rseq = th[t].rseq
        /\ th'[t].rec = th[t].rec /\ th[t].wseq \in Int /\ th[t].rseq \in Int
    <2>1. th \in [Threads -> ThreadRecords] /\ th[t] \in ThreadRecords
      BY <1>00 DEF TypeInv
    <2>2. th[t].wseq \in Int /\ th[t].wseq - 1 \in Int /\ th[t].rseq \in Int
      BY <2>1 DEF ThreadRecords
    <2> QED BY <1>2, <2>1, <2>2 DEF ThreadRecords, Places
  <1>5. /\ Mod(version + 1) \in VersionIds /\ Mod(version + 1) # version
    BY <1>00, OtherVersion DEF TypeInv
  <1>6. /\ lp' \in Seq(LpContexts) /\ DOMAIN lp' = DOMAIN lp
        /\ \A k \in DOMAIN lp : k # i => lp'[k] = lp[k]
        /\ lp'[i].ver = Mod(version + 1) /\ lp'[i].st = "used" /\ lp'[i].tls = t
        /\ lp'[i].seq = lp[i].seq /\ lp'[i].fin = lp[i].fin
    <2>1. PICK n \in Nat : n = Len(lp) /\ DOMAIN lp = 1 .. n
      BY <1>00, TypesAre
    <2>2. \A k \in DOMAIN lp : lp[k] \in LpContexts
      BY <1>00, TypesAre
    <2>3. PICK c : c = [[lp[i] EXCEPT !.ver = Mod(version + 1)] EXCEPT !.st = "used"]
      OBVIOUS
    <2>4. /\ c \in LpContexts /\ c.ver = Mod(version + 1) /\ c.st = "used" /\ c.tls = t
          /\ c.seq = lp[i].seq /\ c.fin = lp[i].fin
      BY <1>3, <1>5, <2>2, <2>3 DEF LpContexts, Reservation
    <2>5. lp \in [1 .. n -> LpContexts]
      BY <1>00, <2>1 DEF TypeInv
    <2>6. DOMAIN lp' = 1 .. n /\ lp'[i] = c /\ \A k \in 1 .. n : k # i => lp'[k] = lp[k]
      BY <1>1, <1>3, <2>1, <2>3, <2>5
    <2>61. PICK a : a = [lp EXCEPT ![i].ver = Mod(version + 1)]
      OBVIOUS
    <2>62. lp' = [a EXCEPT ![i].st = "used"]
      BY <1>1, <2>61
    <2>63. DOMAIN a = 1 .. n
      BY <2>5, <2>61
    <2>7. lp' = [k \in 1 .. n |-> lp'[k]]
      BY <2>62, <2>63
    <2>71. \A k \in 1 .. n : lp'[k] \in LpContexts
      BY <2>1, <2>2, <2>4, <2>6
    <2>8. lp' \in Seq(LpContexts)
      BY <2>7, <2>71, FcnSeq
    <2> QED BY <1>3, <2>1, <2>4, <2>6, <2>8
  <1>7. TypeInv'
    BY <1>00, <1>2, <1>4, <1>6 DEF TypeInv
  <1>8. /\ \A k \in DOMAIN lp' : k \in DOMAIN lp /\ lp'[k].tls = lp[k].tls /\ lp'[k].seq = lp[k].seq
                                 /\ lp'[k].fin = lp[k].fin
        /\ \A k \in DOMAIN lp' : (LpLive(k))' <=> LpLive(k) /\ k # i
        /\ \A k \in DOMAIN lp' : lp'[k].ver = version' <=> lp[k].ver = version /\ k # i
    BY <1>2, <1>3, <1>5, <1>6 DEF LpLive, Handed, Reservation
  <1>9. LpFrom(0) /\ RecFrom(0)
    <2>1. \A k \in DOMAIN lp : k + 0 = k
      BY <1>00 DEF TypeInv
    <2> QED BY <1>8, <2>1 DEF LpFrom, RecFrom
  <1>10. BlkFrom /\ BlkNumbers
    BY <1>2, BlkSameKeeps DEF BlkSame
  <1>11. \A u \in Threads : th'[u].rseq = th[u].rseq
    BY <1>4
  <1>12. Windows
    <2>1. lp[i].seq = th[t].wseq - 1 /\ lp[i].tls = t /\ th[t].rseq <= lp[i].seq
      BY <1>00, <1>3 DEF Reservation, SeqInv, InWindow
    <2>2. \A u \in Threads : th'[u].rseq <= th'[u].wseq
      BY <1>00, <1>4, <2>1 DEF SeqInv
    <2>3. ASSUME NEW k \in DOMAIN lp', (LpLive(k))' PROVE th'[lp'[k].tls].rseq <= lp'[k].seq /\ lp'[k].seq < th'[lp'[k].tls].wseq
      <3>1. LpLive(k) /\ k # i /\ k \in DOMAIN lp /\ lp'[k] = lp[k]
        BY <1>6, <1>8, <2>3
      <3>2. InWindow(lp[k]) /\ Apart(lp[k], lp[i])
        BY <1>00, <1>3, <3>1 DEF SeqInv
      <3>3. lp[k].tls \in Threads /\ lp[k].seq \in Int
        BY <1>00, <3>1, TypesAre DEF LpContexts
      <3>4. CASE lp[k].tls = t
        BY <1>4, <2>1, <3>1, <3>2, <3>3, <3>4 DEF InWindow, Apart
      <3>5. CASE lp[k].tls # t
        BY <1>4, <3>1, <3>2, <3>3, <3>5 DEF InWindow
      <3> QED BY <3>4, <3>5
    <2>4. ASSUME NEW b \in BlockIds, (BlkLive(b))' PROVE th'[blk'[b].tls].rseq <= blk'[b].seq /\ blk'[b].seq < th'[blk'[b].tls].wseq
      <3>1. BlkLive(b) /\ blk'[b] = blk[b]
        BY <1>2, <1>10, <2>4 DEF BlkFrom
      <3>2. InWindow(blk[b]) /\ Apart(lp[i], blk[b])
        BY <1>00, <1>3, <3>1 DEF SeqInv
      <3>3. blk[b].tls \in Threads /\ blk[b].seq \in Int
        BY <1>00, TypesAre DEF BlockRecords
      <3>4. CASE blk[b].tls = t
        BY <1>4, <2>1, <3>1, <3>2, <3>3, <3>4 DEF InWindow, Apart
      <3>5. CASE blk[b].tls # t
        BY <1>4, <3>1, <3>2, <3>3, <3>5 DEF InWindow
      <3> QED BY <3>4, <3>5
    <2> QED BY <2>2, <2>3, <2>4 DEF Windows, InWindow
  <1>13. StayEnded /\ FillStay /\ HoldStay /\ RecStay
    BY <1>2, <1>4 DEF StayEnded, FillStay, HoldStay, RecStay
  <1>14. StayHolding
    <2>1. Taken' = Taken /\ th[t].cur = 0
      BY <1>00, <1>2 DEF Taken, OpenInv, Writing
    <2>2. \A u \in Threads : th[u].pc # "gone" /\ th[u].cur # 0 => th[u].cur \in Taken
      BY <1>00 DEF BlockInv, BlkLive
    <2> QED BY <1>2, <1>4, <2>1, <2>2 DEF StayHolding
  <1>15. OpenInv'
    <2>1. ASSUME NEW u \in Threads, th'[u].pc \in Writing
          PROVE  th'[u].cur = 0 /\ \E k \in DOMAIN lp' : (Reservation(k, u))'
      <3>1. u # t /\ th'[u] = th[u]
        BY <1>4, <2>1 DEF Writing
      <3>2. PICK k \in DOMAIN lp : Reservation(k, u) /\ th[u].cur = 0
        BY <1>00, <2>1, <3>1 DEF OpenInv
      <3>3. k # i
        BY <1>3, <3>1, <3>2 DEF Reservation
      <3>4. lp'[k] = lp[k] /\ k \in DOMAIN lp'
        BY <1>6, <3>3
      <3>5. (Reservation(k, u))'
        BY <1>2, <3>1, <3>2, <3>4 DEF Reservation
      <3> QED BY <3>1, <3>2, <3>4, <3>5
    <2>2. ASSUME NEW k \in DOMAIN lp', lp'[k].st = "reserved"
          PROVE  th'[lp'[k].tls].pc \in Writing /\ (Reservation(k, lp[k].tls))'
      <3>1. k # i /\ k \in DOMAIN lp /\ lp'[k] = lp[k] /\ lp[k].tls \in Threads
        BY <1>00, <1>6, <2>2, TypesAre DEF LpContexts
      <3>2. th[lp[k].tls].pc \in Writing /\ Reservation(k, lp[k].tls)
        BY <1>00, <2>2, <3>1 DEF OpenInv
      <3>3. LpLive(k) /\ Apart(lp[k], lp[i])
        BY <1>00, <1>3, <3>1, <3>2, ReservationLive DEF SeqInv
      <3>4. lp[k].tls # t
        BY <1>3, <3>2, <3>3 DEF Apart, Reservation
      <3>5. th'[lp[k].tls] = th[lp[k].tls]
        BY <1>4, <3>1, <3>4
      <3> QED BY <1>2, <3>1, <3>2, <3>5 DEF Reservation
    <2> QED BY <2>1, <2>2 DEF OpenInv
  <1>16. ReaderInv'
    <2>1. lp # <<>> /\ lp[1].st = "used" => lp' # <<>> /\ lp'[1] = lp[1]
      <3>1. lp # <<>> => 1 \in DOMAIN lp
        BY <1>00 DEF TypeInv
      <3>2. lp[1].st = "used" => 1 # i
        BY <1>3 DEF Reservation
      <3>3. 1 \in DOMAIN lp' => lp' # <<>>
        BY <1>7 DEF TypeInv
      <3> QED BY <1>6, <3>1, <3>2, <3>3
    <2>2. HandsOff
      BY <1>2, <1>11, <2>1 DEF HandsOff
    <2> QED BY <1>0, <1>2, <2>2, ReaderKept DEF Parts
  <1>17. ListInv'
    BY <1>0, <1>2, ListKept DEF Parts
  <1>18. OvsFrom /\ LockStays
    BY <1>00, <1>2, OvsSame DEF LockStays
  <1>19. RefsStay
    <2> SUFFICES ASSUME NEW p \in ovs', p.ver = version, NEW j \in DOMAIN p.q, NEW k \in DOMAIN lp, RefOf(k, p, p.q[j])
                 PROVE  \E m \in DOMAIN lp' : /\ (LpLive(m))' /\ lp'[m].tls = lp[k].tls /\ lp'[m].seq = lp[k].seq
                                              /\ lp'[m].ext = lp[k].ext /\ lp'[m].fin = lp[k].fin
      BY DEF RefsStay
    <2>1. k # i
      <3> SUFFICES ASSUME k = i PROVE FALSE
        OBVIOUS
      <3>1. p.tls = t /\ p.q[j].seq = th[t].wseq - 1 /\ p \in ovs
        BY <1>2, <1>3 DEF RefOf, Reservation
      <3>2. p.q[j].seq < th[p.tls].wseq - 1 /\ p.q[j].seq \in Int
        BY <1>00, <1>2, <3>1, Older
      <3> QED BY <1>4, <3>1, <3>2
    <2>2. k \in DOMAIN lp' /\ lp'[k] = lp[k] /\ (LpLive(k))'
      BY <1>6, <1>8, <2>1 DEF RefOf
    <2> QED BY <2>2
  <1> QED BY <1>2, <1>7, <1>9, <1>10, <1>12, <1>13, <1>14, <1>15, <1>16, <1>17, <1>18, <1>19, AllKept

-----------------------------------------------------------------------------
(***************************************************************************)
(* Reading keeps the invariant.  First what the reader's verdict means for *)
(* a context of this version.                                              *)
(***************************************************************************)
LEMMA ValidIs ==
  ASSUME NEW c, NEW tls, NEW records, c.ver = version, verify_context(c, tls, records) = "valid"
  PROVE  c.seq = tls[c.tls].rseq
  BY DEF verify_context, Compare

LEMMA InvalidIs ==
  ASSUME TypeInv, NEW c, NEW tls, NEW records, c.ver = version, Invalid(verify_context(c, tls, records))
  PROVE  c.seq < tls[c.tls].rseq
  <1>1. CASE c.ver = rd.ver
    BY <1>1 DEF verify_context, Compare, Invalid
  <1>2. CASE c.ver # rd.ver
    <2>1. version - version = 0 /\ rd.ver \in Int /\ version \in Int
      BY DEF TypeInv, IsReader, VersionIds
    <2>2. Mod(version - rd.ver) \in VersionIds
      BY <2>1, ModType
    <2>3. Mod(0) = 0
      BY LogBufferAssumption DEF Mod
    <2>4. is_version_valid(c.ver)
      BY <2>1, <2>2, <2>3 DEF is_version_valid, VersionIds
    <2> QED BY <1>2, <2>4 DEF verify_context, Invalid
  <1> QED BY <1>1, <1>2

\* Only the reader moves, and what it takes off the buffers.
LEMMA ReaderTakes ==
  ASSUME LbInv, UNCHANGED <<version, lp, used, stage, blk, th, destructed, sent, crashes>>,
         IsReader(rd'), ~Handed("ref"), ~(Handed("ref"))', ListInv', ReaderInv',
         ovs' \subseteq Buffers, OvsFrom, LockStays
  PROVE  LbInv'
  <1>0. Parts
    BY PartsAre
  <1>00. TypeInv /\ BlockInv /\ OpenInv /\ SeqInv
    BY <1>0 DEF Parts
  <1>4. TypeInv'
    BY <1>00 DEF TypeInv
  <1>5. LpFrom(0) /\ RecFrom(0) /\ LpStays /\ OpenFrom(0)
    <2>1. \A k \in DOMAIN lp : k + 0 = k /\ k - 0 = k
      BY <1>00 DEF TypeInv
    <2>2. \A k \in DOMAIN lp : (LpLive(k))' <=> LpLive(k)
      BY DEF LpLive
    <2>3. LpFrom(0)
      BY <2>1, <2>2 DEF LpFrom
    <2>4. RecFrom(0) /\ LpStays
      BY <2>1, <2>2 DEF RecFrom, LpStays
    <2>5. OpenFrom(0)
      BY <2>1 DEF OpenFrom
    <2> QED BY <2>3, <2>4, <2>5
  <1>6. BlkFrom /\ BlkNumbers
    BY BlkSameKeeps DEF BlkSame
  <1>7. RefsStay
    BY <1>5, RefsOfLp
  <1>8. Forward /\ RecStay
    <2>1. \A u \in Threads : th[u].wseq \in Int
      BY <1>00 DEF TypeInv, ThreadRecords
    <2> QED BY <2>1 DEF Forward, RecStay
  <1>9. StayEnded /\ OpenThreads /\ FillStay /\ HoldStay
    BY DEF StayEnded, OpenThreads, FillStay, HoldStay
  <1>10. StayHolding
    <2>1. Taken' = Taken
      BY DEF Taken
    <2>2. \A u \in Threads : th[u].pc # "gone" /\ th[u].cur # 0 => th[u].cur \in Taken
      BY <1>00 DEF BlockInv, BlkLive
    <2> QED BY <2>1, <2>2 DEF StayHolding
  <1>13. Windows
    BY <1>0, <1>4, <1>5, <1>6, <1>8, WindowsKept DEF Parts
  <1>14. OpenInv'
    BY <1>0, <1>5, <1>9, OpenKept DEF Parts
  <1> QED BY <1>4, <1>5, <1>6, <1>7, <1>8, <1>9, <1>10, <1>13, <1>14, AllKept

\* Steps that change nothing but what the reader remembers.
LEMMA ReaderOnly ==
  ASSUME LbInv, UNCHANGED <<version, lp, used, stage, blk, ovs, th, destructed, sent, crashes>>,
         IsReader(rd'), ~Handed("ref"), ~(Handed("ref"))', ListInv', ReaderInv'
  PROVE  LbInv'
  <1>1. TypeInv /\ BufferInv
    BY DEF LbInv
  <1>2. ovs' \subseteq Buffers /\ OvsFrom /\ LockStays
    BY <1>1, OvsSame DEF TypeInv, LockStays
  <1> QED BY <1>2, ReaderTakes

\* The reader stays where it is and has nothing of the shared ring in its hands.
LEMMA ReaderStays ==
  ASSUME ReaderInv, ListInv, UNCHANGED <<version, lp, used, stage, blk, ovs, th>>,
         rd'.cur = rd.cur, rd'.gone = rd.gone, rd'.verify = rd.verify,
         ~(Handed("lp"))', ~(Handed("os"))', ~(Handed("ref"))',
         rd'.st \in {"lp_buffer_reading", "recycle"} => rd.cur = 0,
         rd'.st = "hp_block_reading" => rd.cur # 0
  PROVE  ListInv' /\ ReaderInv'
  <1>1. ListInv'
    BY DEF ListInv
  <1>2. ReaderInv'
    BY DEF ReaderInv
  <1> QED BY <1>1, <1>2

LEMMA ReadInBlock ==
  ASSUME LbInv, read_next \/ read_chunk \/ lp_none \/ hp_take \/ hp_empty
  PROVE  LbInv'
  <1>0. Parts
    BY PartsAre
  <1>00. TypeInv /\ ListInv /\ ReaderInv /\ IsReader(rd)
    BY <1>0 DEF Parts, TypeInv
  <1>1. UNCHANGED <<version, lp, used, stage, blk, ovs, th, destructed, sent, crashes>>
    BY DEF read_next, read_chunk, lp_none, hp_take, hp_empty, files, ghosts, bounds
  <1>2. /\ IsReader(rd') /\ rd'.cur = rd.cur /\ rd'.gone = rd.gone /\ rd'.verify = rd.verify
        /\ ~Handed("ref") /\ ~(Handed("lp"))' /\ ~(Handed("os"))' /\ ~(Handed("ref"))'
        /\ rd'.st \in {"lp_buffer_reading", "recycle"} => rd.cur = 0
        /\ rd'.st = "hp_block_reading" => rd.cur # 0
    <2>0. /\ rd.st \in {"lp_buffer_reading", "recycle"} => rd.cur = 0
          /\ rd.st = "hp_block_reading" => rd.cur # 0
      BY <1>00 DEF ListInv
    <2>1. CASE read_next
      <3>1. PICK e : rd' = [[rd EXCEPT !.at = @ + 1] EXCEPT !.call = "handed", !.hand = "hp", !.e = e]
        BY <2>1 DEF read_next, HandOut
      <3> QED BY <1>00, <2>0, <2>1, <3>1 DEF read_next, IsReader, ReaderFields, Handed
    <2>2. CASE read_chunk
      <3>1. PICK q : q = EndMark(rd) /\ SamePlace(rd, q) /\ q.st = rd.st
        BY <1>00, EndMarkIs
      <3>2. PICK y : rd' = [q EXCEPT !.call = "busy", !.hand = "none", !.again = y, !.laps = 0, !.at = 0, !.batch = 0]
        BY <2>2, <3>1 DEF read_chunk
      <3> QED BY <1>00, <2>0, <2>2, <3>1, <3>2 DEF read_chunk, IsReader, ReaderFields, Handed, SamePlace
    <2>3. CASE lp_none
      <3>1. PICK y : \/ rd' = [[rd EXCEPT !.laps = y] EXCEPT !.st = "next_block_finding"]
                     \/ rd' = [[rd EXCEPT !.laps = y] EXCEPT !.st = "recycle"]
        BY <2>3 DEF lp_none, NextGroup
      <3>2. rd.call = "busy" /\ rd.cur = 0
        BY <2>0, <2>3 DEF lp_none, Reading
      <3>3. PICK x : rd' = [[rd EXCEPT !.laps = y] EXCEPT !.st = x] /\ x # "hp_block_reading"
        BY <3>1
      <3>4. /\ IsReader(rd') /\ rd'.cur = rd.cur /\ rd'.gone = rd.gone /\ rd'.verify = rd.verify
            /\ rd'.call = rd.call /\ rd'.st = x
        BY <1>00, <3>3 DEF IsReader, ReaderFields
      <3> QED BY <3>2, <3>3, <3>4 DEF Handed
    <2>4. CASE hp_take
      <3>0. Len(blk[rd.cur].q) \in Nat
        <4>1. rd.cur \in BlockIds
          BY <1>00, <2>0, <2>4 DEF hp_take, Reading, ListInv, TypeInv
        <4>2. blk[rd.cur] \in BlockRecords
          BY <1>00, <4>1, TypesAre
        <4> QED BY <4>2 DEF BlockRecords
      <3>1. PICK e : \E y \in Nat : rd' = [[rd EXCEPT !.batch = y, !.at = 1] EXCEPT !.call = "handed", !.hand = "hp", !.e = e]
        BY <2>4, <3>0 DEF hp_take, HandOut
      <3> QED BY <1>00, <2>0, <2>4, <3>1 DEF hp_take, IsReader, ReaderFields, Handed, Reading
    <2>5. CASE hp_empty
      BY <1>00, <2>0, <2>5 DEF hp_empty, IsReader, ReaderFields, Handed, Reading
    <2> QED BY <2>1, <2>2, <2>3, <2>4, <2>5
  <1>3. ListInv' /\ ReaderInv'
    BY <1>00, <1>1, <1>2, ReaderStays
  <1> QED BY <1>1, <1>2, <1>3, ReaderOnly

LEMMA LpTake ==
  ASSUME LbInv, lp_take
  PROVE  LbInv'
  <1>0. Parts
    BY PartsAre
  <1>00. TypeInv /\ ListInv /\ ReaderInv /\ IsReader(rd)
    BY <1>0 DEF Parts, TypeInv
  <1>1. UNCHANGED <<version, lp, used, stage, blk, ovs, th, destructed, sent, crashes>>
    BY DEF lp_take, files, bounds
  <1>2. PICK e : rd' = [rd EXCEPT !.call = "handed", !.hand = "lp", !.e = e]
    BY DEF lp_take, HandOut
  <1>3. /\ IsReader(rd') /\ rd'.cur = rd.cur /\ rd'.gone = rd.gone /\ rd'.verify = rd.verify
        /\ rd'.call = "handed" /\ rd'.hand = "lp" /\ rd'.st = rd.st
    BY <1>00, <1>2 DEF IsReader, ReaderFields
  <1>4. /\ rd.call = "busy" /\ rd.st = "lp_buffer_reading" /\ lp # <<>> /\ Head(lp).st = "used"
        /\ Verify(Head(lp)) = "valid" /\ ~Head(lp).fin /\ ~Head(lp).ext
    BY DEF lp_take, Reading, LpReady, LpVerdict
  <1>5. Head(lp) = lp[1]
    BY <1>00, <1>4 DEF TypeInv
  <1>6. lp[1].ver = version => lp[1].seq = th[lp[1].tls].rseq
    BY <1>4, <1>5, ValidIs DEF Verify
  <1>7. ~Handed("ref") /\ ~(Handed("ref"))' /\ ~(Handed("os"))'
    BY <1>3, <1>4 DEF Handed
  <1>8. ListInv'
    BY <1>00, <1>1, <1>3, ListKept
  <1>9. ReaderInv'
    BY <1>00, <1>1, <1>3, <1>4, <1>5, <1>6, <1>7 DEF ReaderInv
  <1> QED BY <1>1, <1>3, <1>7, <1>8, <1>9, ReaderOnly

-----------------------------------------------------------------------------
(***************************************************************************)
(* The reader takes entries off the front of oversize buffers.             *)
(***************************************************************************)
SameBuffer(o, p) ==
    p \in Buffers /\ p.id = o.id /\ p.ver = o.ver /\ p.tls = o.tls /\ p.locked = o.locked /\ Became(o, p)

LEMMA SinceBecame ==
  ASSUME NEW o \in Buffers, NEW kept \in SUBSET DOMAIN o.q, NEW p, p = [o EXCEPT !.q = Since(o.q, kept)]
  PROVE  SameBuffer(o, p) /\ (p.q # <<>> => \E k \in kept : p.q[1] = o.q[k])
  <1>1. o.q \in Seq(Chunks)
    BY DEF Buffers
  <1>2. PICK s : s = Since(o.q, kept)
    OBVIOUS
  <1>3. s \in Seq(Chunks)
    BY <1>1, <1>2, SinceIs
  <1>4. PICK m \in Nat : /\ \A i \in DOMAIN s : i + m \in DOMAIN o.q /\ s[i] = o.q[i + m]
                         /\ kept # {} => m + 1 \in kept
    BY <1>1, <1>2, SinceIs
  <1>5. p \in Buffers /\ p.id = o.id /\ p.ver = o.ver /\ p.tls = o.tls /\ p.locked = o.locked /\ p.q = s
    BY <1>2, <1>3 DEF Buffers
  <1>6. \A i \in DOMAIN p.q : i + m \in DOMAIN o.q /\ p.q[i].seq = o.q[i + m].seq
                              /\ (p.q[i].st = "reserved" => o.q[i + m].st = "reserved")
    BY <1>4, <1>5
  <1>7. Became(o, p)
    BY <1>5, <1>6 DEF Became
  <1>8. p.q # <<>> => \E k \in kept : p.q[1] = o.q[k]
    <2> SUFFICES ASSUME p.q # <<>> PROVE \E k \in kept : p.q[1] = o.q[k]
      OBVIOUS
    <2>1. kept # {}
      BY <1>2, <1>5 DEF Since
    <2>2. 1 \in DOMAIN s
      BY <1>3, <1>5
    <2>3. s[1] = o.q[1 + m] /\ 1 + m = m + 1
      BY <1>4, <2>2
    <2> QED BY <1>4, <1>5, <2>1, <2>3
  <1> QED BY <1>5, <1>7, <1>8 DEF SameBuffer

LEMMA SelfBuffer ==
  ASSUME NEW o \in Buffers PROVE SameBuffer(o, o)
  BY BecameItself DEF SameBuffer

\* What the reader has passed is taken off; the first entry left is young.
LEMMA PrunedIs ==
  ASSUME NEW o \in Buffers, NEW c
  PROVE  /\ SameBuffer(o, Pruned(o, c))
         /\ Pruned(o, c).q # <<>> => Pruned(o, c).q[1].st = "reserved" \/ Pruned(o, c).q[1].seq >= c.seq
  <1> DEFINE young == {k \in DOMAIN o.q : o.q[k].st = "reserved" \/ o.q[k].seq >= c.seq}
  <1>1. young \in SUBSET DOMAIN o.q
    OBVIOUS
  <1>2. PICK p : p = Pruned(o, c)
    OBVIOUS
  <1>3. p = [o EXCEPT !.q = Since(o.q, young)]
    BY <1>2 DEF Pruned
  <1>4. \A k \in young : o.q[k].st = "reserved" \/ o.q[k].seq >= c.seq
    OBVIOUS
  <1> HIDE DEF young
  <1>5. SameBuffer(o, p) /\ (p.q # <<>> => \E k \in young : p.q[1] = o.q[k])
    BY <1>1, <1>3, SinceBecame
  <1> QED BY <1>2, <1>4, <1>5

LEMMA MappedBuffers ==
  ASSUME TypeInv, BufferInv, NEW f, DOMAIN f = ovs, \A o \in ovs : SameBuffer(o, f[o]),
         ovs' \subseteq {f[o] : o \in ovs}
  PROVE  ovs' \subseteq Buffers /\ OvsFrom
  <1>1. \A o \in ovs : f[o].id = o.id /\ f[o] \in Buffers /\ Became(o, f[o])
    BY DEF SameBuffer
  <1>2. Named(ovs')
    BY <1>1, NamedKept DEF BufferInv
  <1> QED BY <1>1, <1>2 DEF OvsFrom

LEMMA MappedAll ==
  ASSUME TypeInv, BufferInv, NEW f, DOMAIN f = ovs, \A o \in ovs : SameBuffer(o, f[o]),
         ovs' = {f[o] : o \in ovs}
  PROVE  ovs' \subseteq Buffers /\ OvsFrom /\ LockStays
  <1>1. ovs' \subseteq Buffers /\ OvsFrom
    BY MappedBuffers
  <1>2. LockStays
    BY DEF LockStays, SameBuffer
  <1> QED BY <1>1, <1>2

LEMMA PrunedAllIs ==
  ASSUME TypeInv, BufferInv, NEW os, NEW c, ovs' = PrunedAll(os, c)
  PROVE  ovs' \subseteq Buffers /\ OvsFrom /\ LockStays
  <1>1. PICK f : f = [o \in ovs |-> IF o \in os THEN Pruned(o, c) ELSE o]
    OBVIOUS
  <1>2. DOMAIN f = ovs /\ ovs' = {f[o] : o \in ovs}
    BY <1>1 DEF PrunedAll
  <1>3. \A o \in ovs : SameBuffer(o, f[o])
    <2> SUFFICES ASSUME NEW o \in ovs PROVE SameBuffer(o, f[o])
      OBVIOUS
    <2>1. o \in Buffers
      BY DEF TypeInv
    <2> QED BY <1>1, <2>1, PrunedIs, SelfBuffer
  <1> QED BY <1>2, <1>3, MappedAll

LEMMA LpTakeOversize ==
  ASSUME LbInv, lp_take_oversize
  PROVE  LbInv'
  <1>0. Parts
    BY PartsAre
  <1>00. TypeInv /\ ListInv /\ ReaderInv /\ BufferInv /\ IsReader(rd)
    BY <1>0 DEF Parts, TypeInv
  <1>1. UNCHANGED <<version, lp, used, stage, blk, th, destructed, sent, crashes>>
    BY DEF lp_take_oversize, bounds
  <1>2. /\ rd.call = "busy" /\ rd.st = "lp_buffer_reading" /\ lp # <<>> /\ Head(lp).st = "used"
        /\ Verify(Head(lp)) = "valid" /\ ~Head(lp).fin
    BY DEF lp_take_oversize, Reading, LpReady, LpVerdict
  <1>3. Head(lp) = lp[1]
    BY <1>00, <1>2 DEF TypeInv
  <1>4. PICK o \in Targets(lp[1]) :
            /\ HandOut([rd EXCEPT !.target = o.id], "os", Head(Pruned(o, lp[1]).q).e)
            /\ \E os \in SUBSET {p \in ovs \ {o} : Matches(p, lp[1])} : ovs' = PrunedAll(os \cup {o}, lp[1])
    BY <1>3 DEF lp_take_oversize
  <1>5. PICK os : ovs' = PrunedAll(os \cup {o}, lp[1])
    BY <1>4
  <1>6. PICK e : rd' = [[rd EXCEPT !.target = o.id] EXCEPT !.call = "handed", !.hand = "os", !.e = e]
    BY <1>4 DEF HandOut
  <1>7. /\ IsReader(rd') /\ rd'.cur = rd.cur /\ rd'.gone = rd.gone /\ rd'.verify = rd.verify
        /\ rd'.call = "handed" /\ rd'.hand = "os" /\ rd'.st = rd.st /\ rd'.target = o.id
    BY <1>00, <1>6 DEF IsReader, ReaderFields
  <1>8. lp[1].ver = version => lp[1].seq = th[lp[1].tls].rseq
    BY <1>2, <1>3, ValidIs DEF Verify
  <1>9. ~Handed("ref") /\ ~(Handed("ref"))' /\ ~(Handed("lp"))'
    BY <1>2, <1>7 DEF Handed
  <1>10. ListInv'
    BY <1>00, <1>1, <1>7, ListKept
  <1>11. ovs' \subseteq Buffers /\ OvsFrom /\ LockStays
    BY <1>00, <1>5, PrunedAllIs
  <1>12. PICK p \in ovs' : /\ p.id = rd'.target /\ Matches(p, lp[1]) /\ p.q # <<>> /\ p.q[1].seq = lp[1].seq
    <2>1. o \in ovs /\ o \in Buffers /\ Matches(o, lp[1]) /\ Holds(Pruned(o, lp[1]), lp[1])
      BY <1>00, <1>4 DEF Targets, TypeInv
    <2>2. PICK p : p = Pruned(o, lp[1])
      OBVIOUS
    <2>3. p \in ovs'
      BY <1>5, <2>1, <2>2 DEF PrunedAll
    <2>4. p \in Buffers /\ p.id = o.id /\ p.ver = o.ver /\ p.tls = o.tls
      BY <2>1, <2>2, PrunedIs DEF SameBuffer
    <2>5. p.q # <<>> /\ Head(p.q).seq = lp[1].seq
      BY <2>1, <2>2 DEF Holds
    <2>6. Head(p.q) = p.q[1]
      BY <2>4, <2>5 DEF Buffers
    <2> QED BY <1>7, <2>1, <2>3, <2>4, <2>5, <2>6 DEF Matches
  <1>13. ReaderInv'
    <2>1. \E x \in ovs' : /\ x.id = rd'.target /\ x.ver = lp'[1].ver /\ x.tls = lp'[1].tls /\ x.q # <<>>
                          /\ lp'[1].ver = version' => x.q[1].seq = lp'[1].seq
      BY <1>1, <1>12 DEF Matches
    <2> QED BY <1>00, <1>1, <1>2, <1>3, <1>7, <1>8, <1>9, <2>1 DEF ReaderInv, Matches
  <1> QED BY <1>1, <1>7, <1>9, <1>10, <1>11, <1>13, ReaderTakes

LEMMA Recycle ==
  ASSUME LbInv, recycle_oversize_buffers
  PROVE  LbInv'
  <1>0. Parts
    BY PartsAre
  <1>00. TypeInv /\ ListInv /\ ReaderInv /\ BufferInv /\ IsReader(rd)
    BY <1>0 DEF Parts, TypeInv
  <1>1. UNCHANGED <<version, lp, used, stage, blk, th, destructed, sent, crashes>>
    BY DEF recycle_oversize_buffers, bounds, ghosts
  <1>2. /\ IsReader(rd') /\ rd'.cur = rd.cur /\ rd'.gone = rd.gone /\ rd'.verify = rd.verify
        /\ rd'.call = "busy" /\ rd'.st = "next_block_finding" /\ rd.call = "busy"
    BY <1>00 DEF recycle_oversize_buffers, NextGroup, Reading, IsReader, ReaderFields
  <1>3. ~Handed("ref") /\ ~(Handed("ref"))' /\ ~(Handed("lp"))' /\ ~(Handed("os"))'
    BY <1>2 DEF Handed
  <1>4. ListInv'
    BY <1>00, <1>1, <1>2 DEF ListInv
  <1>5. ReaderInv'
    BY <1>00, <1>1, <1>2, <1>3 DEF ReaderInv
  <1>6. ovs' \subseteq Buffers /\ OvsFrom /\ LockStays
    <2>1. CASE ovs' = ovs
      BY <1>00, <2>1, OvsSame DEF TypeInv, LockStays
    <2>2. CASE ovs' # ovs
      <3>1. PICK guess \in BOOLEAN :
               ovs' = {o \in {IF Unlocked(p) THEN Recycled(p, guess) ELSE p : p \in ovs} : Unlocked(o) => o.q # <<>>}
        BY <2>2 DEF recycle_oversize_buffers
      <3>2. PICK f : f = [p \in ovs |-> IF Unlocked(p) THEN Recycled(p, guess) ELSE p]
        OBVIOUS
      <3>3. DOMAIN f = ovs /\ ovs' = {o \in {f[p] : p \in ovs} : Unlocked(o) => o.q # <<>>}
        BY <3>1, <3>2
      <3>4. ASSUME NEW o \in ovs PROVE SameBuffer(o, f[o]) /\ (o.locked => f[o] = o)
        <4>1. o \in Buffers
          BY <1>00 DEF TypeInv
        <4>2. CASE Unlocked(o)
          <5>1. f[o] = Recycled(o, guess) /\ ~o.locked
            BY <3>2, <4>2 DEF Unlocked
          <5>2. PICK kept \in SUBSET DOMAIN o.q : f[o] = [o EXCEPT !.q = Since(o.q, kept)]
            BY <5>1 DEF Recycled
          <5> QED BY <4>1, <5>1, <5>2, SinceBecame
        <4>3. CASE ~Unlocked(o)
          BY <3>2, <4>1, <4>3, SelfBuffer
        <4> QED BY <4>2, <4>3
      <3>5. ovs' \subseteq Buffers /\ OvsFrom
        BY <1>00, <3>3, <3>4, MappedBuffers
      <3>6. LockStays
        BY <3>3, <3>4 DEF LockStays, Unlocked
      <3> QED BY <3>5, <3>6
    <2> QED BY <2>1, <2>2
  <1> QED BY <1>1, <1>2, <1>3, <1>4, <1>5, <1>6, ReaderTakes

-----------------------------------------------------------------------------
(***************************************************************************)
(* The reader passes a context c: its thread's next number is expected, or *)
(* its record is freed.                                                    *)
(***************************************************************************)
Settled ==
    \A u \in Threads : /\ th'[u].pc = th[u].pc /\ th'[u].cur = th[u].cur
                       /\ th'[u].wseq = th[u].wseq /\ th'[u].target = th[u].target
RecsLive ==
    ~destructed => /\ \A b \in Taken : blk[b].ver = version => th[blk[b].tls].rec = "live"
                   /\ \A k \in DOMAIN lp : lp[k].ver = version => th[lp[k].tls].rec = "live"

\* c was expected, and a mark is on its thread's last number
Passes(c) ==
    /\ c.ver = version /\ c.tls \in Threads /\ c.seq \in Int
    /\ c.seq = th[c.tls].rseq /\ c.seq < th[c.tls].wseq
    /\ c.fin => c.seq = th[c.tls].wseq - 1
\* nothing that is left has its number
Others(c) ==
    /\ \A k \in DOMAIN lp' : (LpLive(k))' => Apart(lp'[k], c)
    /\ \A b \in BlockIds : (BlkLive(b))' => Apart(blk'[b], c)

LEMMA SettledKept ==
  ASSUME LbInv, TypeInv', ListInv', ReaderInv', version' = version, NEW d \in Nat,
         LpFrom(d), OpenFrom(d), BlkFrom, Windows, Settled, StayHolding, OvsFrom, LockStays, RefsStay, RecsLive'
  PROVE  LbInv'
  <1>0. Parts
    BY PartsAre
  <1>00. /\ TypeInv /\ SeqInv /\ FinInv /\ OpenInv /\ BlockInv /\ BufferInv /\ HeldInv /\ RefInv
         /\ FillInv /\ ChunkInv
    BY <1>0 DEF Parts
  <1>1. StayEnded /\ OpenThreads /\ FillStay /\ HoldStay
    BY DEF Settled, StayEnded, OpenThreads, FillStay, HoldStay
  <1>2. DOMAIN lp' \subseteq Nat /\ BlkNumbers
    BY DEF TypeInv, BlkFrom, BlkNumbers
  <1>3. SeqInv'
    BY <1>00, <1>2, SeqKept
  <1>4. FinInv'
    BY <1>00, <1>1, FinKept
  <1>5. OpenInv'
    BY <1>00, <1>1, OpenKept
  <1>6. BlockInv'
    BY <1>00, BlockKept
  <1>7. BufferInv' /\ ChunkInv' /\ RefInv'
    BY <1>00, BufferKept, ChunkKept, RefKept
  <1>8. FillInv' /\ HeldInv'
    BY <1>00, <1>1, FillKept, HeldKept
  <1>12. RecordLive'
    <2>1. (RefInv /\ TypeInv /\
           (~destructed => /\ \A b \in Taken : blk[b].ver = version => th[blk[b].tls].rec = "live"
                           /\ \A k \in DOMAIN lp : lp[k].ver = version => th[lp[k].tls].rec = "live"))'
      BY <1>7 DEF RecsLive
    <2> QED BY <2>1, RecordFromRefs, PTL
  <1> QED BY <1>3, <1>4, <1>5, <1>6, <1>7, <1>8, <1>12 DEF LbInv

LEMMA DeregIs ==
  ASSUME TypeInv, NEW c, Passes(c), th' = DeregisteredTls(c)
  PROVE  /\ th' \in [Threads -> ThreadRecords] /\ Settled
         /\ \A u \in Threads : u # c.tls => th'[u] = th[u]
         /\ c.fin => th'[c.tls].rseq = th[c.tls].rseq
         /\ ~c.fin => th'[c.tls].rseq = th[c.tls].rseq + 1 /\ th'[c.tls].rec = th[c.tls].rec
  <1>1. th \in [Threads -> ThreadRecords] /\ c.tls \in Threads /\ th[c.tls] \in ThreadRecords /\ c.ver = version
    BY DEF TypeInv, Passes
  <1>2. th[c.tls].rseq + 1 \in Int
    BY <1>1 DEF ThreadRecords
  <1>3. PICK t \in Threads : t = c.tls
    BY <1>1
  <1>4. CASE c.fin
    <2>1. th' = [th EXCEPT ![t].rec = "freed"]
      BY <1>1, <1>3, <1>4 DEF DeregisteredTls
    <2> QED BY <1>1, <1>3, <1>4, <2>1 DEF Settled, ThreadRecords
  <1>5. CASE ~c.fin
    <2>1. th' = [th EXCEPT ![t].rseq = @ + 1]
      BY <1>1, <1>3, <1>5 DEF DeregisteredTls
    <2> QED BY <1>1, <1>2, <1>3, <1>5, <2>1 DEF Settled, ThreadRecords
  <1> QED BY <1>4, <1>5

LEMMA DeregWindows ==
  ASSUME TypeInv, TypeInv', SeqInv, NEW c, Passes(c), th' = DeregisteredTls(c), NEW d \in Nat,
         LpFrom(d), BlkNumbers, Others(c)
  PROVE  Windows
  <1>1. /\ \A u \in Threads : u # c.tls => th'[u] = th[u]
        /\ c.fin => th'[c.tls].rseq = th[c.tls].rseq
        /\ ~c.fin => th'[c.tls].rseq = th[c.tls].rseq + 1
        /\ \A u \in Threads : th'[u].wseq = th[u].wseq
    BY DeregIs DEF Settled
  <1>2. \A u \in Threads : th[u].wseq \in Int /\ th[u].rseq \in Int /\ th[u].rseq <= th[u].wseq
    BY DEF TypeInv, ThreadRecords, SeqInv
  <1>3. c.tls \in Threads /\ c.seq \in Int /\ c.seq = th[c.tls].rseq /\ c.seq < th[c.tls].wseq
    BY DEF Passes
  <1>4. \A u \in Threads : th'[u].rseq <= th'[u].wseq
    <2> SUFFICES ASSUME NEW u \in Threads PROVE th'[u].rseq <= th'[u].wseq
      OBVIOUS
    <2>1. CASE u # c.tls
      BY <1>1, <1>2, <2>1
    <2>2. CASE u = c.tls /\ c.fin
      BY <1>1, <1>2, <2>2
    <2>3. CASE u = c.tls /\ ~c.fin
      <3>1. th'[u].rseq = th[u].rseq + 1 /\ th'[u].wseq = th[u].wseq /\ th[u].rseq < th[u].wseq
        BY <1>1, <1>3, <2>3
      <3> QED BY <1>2, <3>1
    <2> QED BY <2>1, <2>2, <2>3
  <1>5. ASSUME NEW x, x.tls \in Threads, x.seq \in Int, InWindow(x), Apart(x, c)
        PROVE  th'[x.tls].rseq <= x.seq /\ x.seq < th'[x.tls].wseq
    <2>0. th[x.tls].rseq <= x.seq /\ x.seq < th[x.tls].wseq
      BY <1>5 DEF InWindow
    <2>1. CASE x.tls # c.tls
      BY <1>1, <1>5, <2>0, <2>1
    <2>2. CASE x.tls = c.tls
      <3>1. x.seq # th[x.tls].rseq
        BY <1>3, <1>5, <2>2 DEF Apart
      <3>2. th[x.tls].rseq \in Int /\ th[x.tls].wseq \in Int
        BY <1>2, <1>5
      <3>3. th[x.tls].rseq + 1 <= x.seq
        BY <1>5, <2>0, <3>1, <3>2
      <3>4. th'[x.tls].wseq = th[x.tls].wseq
        BY <1>1, <1>5
      <3>5. th'[x.tls].rseq = th[x.tls].rseq \/ th'[x.tls].rseq = th[x.tls].rseq + 1
        BY <1>1, <2>2
      <3> QED BY <2>0, <3>3, <3>4, <3>5
    <2> QED BY <2>1, <2>2
  <1>6. ASSUME NEW k \in DOMAIN lp', (LpLive(k))' PROVE (InWindow(lp[k]))'
    <2>1. k + d \in DOMAIN lp /\ lp'[k].tls = lp[k + d].tls /\ lp'[k].seq = lp[k + d].seq /\ LpLive(k + d)
      BY <1>6 DEF LpFrom
    <2>2. lp[k + d] \in LpContexts
      BY <2>1, TypesAre
    <2>3. InWindow(lp'[k]) /\ lp'[k].tls \in Threads /\ lp'[k].seq \in Int /\ Apart(lp'[k], c)
      BY <1>6, <2>1, <2>2 DEF SeqInv, InWindow, LpContexts, Others
    <2>4. th'[lp'[k].tls].rseq <= lp'[k].seq /\ lp'[k].seq < th'[lp'[k].tls].wseq
      BY <1>5, <2>3
    <2> QED BY <2>4 DEF InWindow
  <1>7. ASSUME NEW b \in BlockIds, (BlkLive(b))' PROVE (InWindow(blk[b]))'
    <2>1. blk'[b].tls = blk[b].tls /\ blk'[b].seq = blk[b].seq /\ BlkLive(b)
      BY <1>7 DEF BlkNumbers
    <2>2. blk[b] \in BlockRecords
      BY TypesAre
    <2>3. InWindow(blk'[b]) /\ blk'[b].tls \in Threads /\ blk'[b].seq \in Int /\ Apart(blk'[b], c)
      BY <1>7, <2>1, <2>2 DEF SeqInv, InWindow, BlockRecords, Others
    <2>4. th'[blk'[b].tls].rseq <= blk'[b].seq /\ blk'[b].seq < th'[blk'[b].tls].wseq
      BY <1>5, <2>3
    <2> QED BY <2>4 DEF InWindow
  <1> QED BY <1>4, <1>6, <1>7 DEF Windows

LEMMA DeregRecs ==
  ASSUME TypeInv, TypeInv', SeqInv, RecordLive, NEW c, Passes(c), th' = DeregisteredTls(c), NEW d \in Nat,
         destructed' = destructed, version' = version, LpFrom(d), RecFrom(d), BlkNumbers, Others(c),
         c.fin => \A k \in DOMAIN lp' : lp'[k].ver = version' => (LpLive(k))'
  PROVE  RecsLive'
  <1>1. /\ \A u \in Threads : u # c.tls => th'[u] = th[u]
        /\ ~c.fin => th'[c.tls].rec = th[c.tls].rec
    BY DeregIs
  <1>2. ASSUME NEW x, x.tls \in Threads, x.seq \in Int, th[x.tls].rec = "live", c.fin => InWindow(x) /\ Apart(x, c)
        PROVE  th'[x.tls].rec = "live"
    <2>1. CASE x.tls # c.tls \/ ~c.fin
      BY <1>1, <1>2, <2>1
    <2>2. CASE x.tls = c.tls /\ c.fin
      <3>1. th[x.tls].rseq <= x.seq /\ x.seq < th[x.tls].wseq /\ x.seq # c.seq
        BY <1>2, <2>2 DEF InWindow, Apart
      <3>2. c.seq = th[x.tls].rseq /\ c.seq = th[x.tls].wseq - 1 /\ c.seq \in Int /\ th[x.tls].wseq \in Int
        BY <1>2, <2>2 DEF Passes, TypeInv, ThreadRecords
      <3> QED BY <1>2, <3>1, <3>2
    <2> QED BY <2>1, <2>2
  <1>3. ASSUME ~destructed', NEW b \in Taken', blk'[b].ver = version' PROVE th'[blk'[b].tls].rec = "live"
    <2>1. b \in BlockIds /\ (BlkLive(b))'
      BY <1>3 DEF TypeInv, Taken, ToSet, BlkLive
    <2>2. BlkLive(b) /\ blk'[b].tls = blk[b].tls /\ blk'[b].seq = blk[b].seq
      BY <2>1 DEF BlkNumbers
    <2>3. th[blk[b].tls].rec = "live" /\ blk[b].tls \in Threads /\ blk[b].seq \in Int
      BY <1>3, <2>1, <2>2, TypesAre DEF RecordLive, BlkLive, BlockRecords
    <2>4. InWindow(blk'[b]) /\ Apart(blk'[b], c)
      BY <2>1, <2>2 DEF SeqInv, InWindow, Others
    <2> QED BY <1>2, <2>2, <2>3, <2>4
  <1>4. ASSUME ~destructed', NEW k \in DOMAIN lp', lp'[k].ver = version' PROVE th'[lp'[k].tls].rec = "live"
    <2>1. k + d \in DOMAIN lp /\ lp'[k].tls = lp[k + d].tls /\ lp[k + d].ver = version
      BY <1>4 DEF RecFrom
    <2>2. lp'[k].seq = lp[k + d].seq
      BY DEF LpFrom
    <2>3. th[lp[k + d].tls].rec = "live" /\ lp[k + d].tls \in Threads /\ lp[k + d].seq \in Int
      BY <1>4, <2>1, TypesAre DEF RecordLive, LpContexts
    <2>4. c.fin => InWindow(lp'[k]) /\ Apart(lp'[k], c)
      <3> SUFFICES ASSUME c.fin PROVE InWindow(lp'[k]) /\ Apart(lp'[k], c)
        OBVIOUS
      <3>1. (LpLive(k))' /\ LpLive(k + d)
        BY <1>4 DEF LpFrom
      <3> QED BY <2>1, <2>2, <3>1 DEF SeqInv, InWindow, Others
    <2> QED BY <1>2, <2>1, <2>2, <2>3, <2>4
  <1> QED BY <1>3, <1>4 DEF RecsLive

LEMMA SameRecs ==
  ASSUME TypeInv, TypeInv', RecordLive, th' = th, NEW d \in Nat,
         destructed' = destructed, version' = version, RecFrom(d), BlkNumbers
  PROVE  RecsLive'
  <1>3. ASSUME ~destructed', NEW b \in Taken', blk'[b].ver = version' PROVE th'[blk'[b].tls].rec = "live"
    <2>1. b \in BlockIds /\ (BlkLive(b))'
      BY <1>3 DEF TypeInv, Taken, ToSet, BlkLive
    <2>2. BlkLive(b) /\ blk'[b].tls = blk[b].tls
      BY <2>1 DEF BlkNumbers
    <2> QED BY <1>3, <2>2 DEF RecordLive, BlkLive
  <1>4. ASSUME ~destructed', NEW k \in DOMAIN lp', lp'[k].ver = version' PROVE th'[lp'[k].tls].rec = "live"
    BY <1>4 DEF RecFrom, RecordLive
  <1> QED BY <1>3, <1>4 DEF RecsLive

\* The front of the shared ring goes.
LEMMA TailIs ==
  ASSUME TypeInv, lp # <<>>, lp[1].st = "used", lp' = Tail(lp), version' = version, ~(Handed("ref"))'
  PROVE  /\ lp' \in Seq(LpContexts) /\ 1 \in DOMAIN lp
         /\ LpFrom(1) /\ RecFrom(1) /\ OpenFrom(1)
         /\ \A k \in DOMAIN lp' : k + 1 \in DOMAIN lp /\ lp'[k] = lp[k + 1] /\ k + 1 # 1
                                  /\ (lp'[k].ver = version' => (LpLive(k))')
         /\ \A k \in DOMAIN lp : k # 1 => k - 1 \in DOMAIN lp' /\ lp'[k - 1] = lp[k]
                                          /\ (LpLive(k) => (LpLive(k - 1))')
  <1>1. PICK n \in Nat : n = Len(lp) /\ DOMAIN lp = 1 .. n /\ n # 0
    BY TypesAre DEF TypeInv
  <1>2. /\ lp' \in Seq(LpContexts) /\ DOMAIN lp' = 1 .. n - 1 /\ \A k \in 1 .. n - 1 : lp'[k] = lp[k + 1]
    BY <1>1 DEF TypeInv
  <1>3. /\ \A k \in 1 .. n - 1 : k + 1 \in 1 .. n /\ k + 1 # 1
        /\ \A k \in 1 .. n : k # 1 => k - 1 \in 1 .. n - 1 /\ (k - 1) + 1 = k
        /\ 1 \in 1 .. n
    BY <1>1
  <1>4. /\ \A k \in DOMAIN lp' : k + 1 \in DOMAIN lp /\ lp'[k] = lp[k + 1] /\ k + 1 # 1
        /\ \A k \in DOMAIN lp : k # 1 => k - 1 \in DOMAIN lp' /\ lp'[k - 1] = lp[k]
        /\ 1 \in DOMAIN lp
    BY <1>1, <1>2, <1>3
  <1>5. \A k \in DOMAIN lp' : (LpLive(k))' <=> lp'[k].ver = version'
    BY DEF LpLive
  <1>6. \A k \in DOMAIN lp : k # 1 => (LpLive(k) <=> lp[k].ver = version)
    BY DEF LpLive
  <1>7. LpFrom(1)
    BY <1>4, <1>5, <1>6 DEF LpFrom
  <1>8. RecFrom(1)
    BY <1>4 DEF RecFrom
  <1>9. OpenFrom(1)
    BY <1>4 DEF OpenFrom
  <1> QED BY <1>2, <1>4, <1>5, <1>6, <1>7, <1>8, <1>9

NoRefToHead == \A p \in ovs' : p.ver = version => \A i \in DOMAIN p.q : ~RefOf(1, p, p.q[i])

LEMMA DropHead ==
  ASSUME LbInv, lp # <<>>, lp[1].st = "used", lp' = Tail(lp),
         UNCHANGED <<version, used, stage, blk, destructed, sent, crashes>>,
         IsReader(rd'), rd.st = "lp_buffer_reading", rd'.st = rd.st, rd'.cur = rd.cur,
         ~(Handed("lp"))', ~(Handed("os"))', ~(Handed("ref"))',
         ovs' \subseteq Buffers, OvsFrom, LockStays, NoRefToHead,
         \/ th' = th /\ ~LpLive(1)
         \/ th' = DeregisteredTls(lp[1]) /\ LpLive(1) /\ lp[1].seq = th[lp[1].tls].rseq
  PROVE  LbInv'
  <1>0. Parts
    BY PartsAre
  <1>00. TypeInv /\ ListInv /\ SeqInv /\ FinInv /\ BlockInv /\ RecordLive
    BY <1>0 DEF Parts
  <1>1. /\ lp' \in Seq(LpContexts) /\ 1 \in DOMAIN lp /\ LpFrom(1) /\ RecFrom(1) /\ OpenFrom(1)
        /\ \A k \in DOMAIN lp' : k + 1 \in DOMAIN lp /\ lp'[k] = lp[k + 1] /\ k + 1 # 1
                                 /\ (lp'[k].ver = version' => (LpLive(k))')
        /\ \A k \in DOMAIN lp : k # 1 => k - 1 \in DOMAIN lp' /\ lp'[k - 1] = lp[k]
                                         /\ (LpLive(k) => (LpLive(k - 1))')
    BY <1>00, TailIs
  <1>2. BlkFrom /\ BlkNumbers
    BY BlkSameKeeps DEF BlkSame
  <1>3. RefsStay
    <2> SUFFICES ASSUME NEW p \in ovs', p.ver = version, NEW i \in DOMAIN p.q, NEW k \in DOMAIN lp, RefOf(k, p, p.q[i])
                 PROVE  \E j \in DOMAIN lp' : /\ (LpLive(j))' /\ lp'[j].tls = lp[k].tls /\ lp'[j].seq = lp[k].seq
                                              /\ lp'[j].ext = lp[k].ext /\ lp'[j].fin = lp[k].fin
      BY DEF RefsStay
    <2>1. k # 1
      BY DEF NoRefToHead
    <2> QED BY <1>1, <2>1 DEF RefOf
  <1>4. ListInv' /\ ReaderInv'
    <2>1. ListInv'
      BY <1>00, ListKept
    <2>2. rd'.cur = 0
      BY <1>00 DEF ListInv
    <2> QED BY <2>1, <2>2 DEF ReaderInv
  <1>5. LpLive(1) /\ lp[1].seq = th[lp[1].tls].rseq => Passes(lp[1]) /\ Others(lp[1])
    <2> SUFFICES ASSUME LpLive(1), lp[1].seq = th[lp[1].tls].rseq PROVE Passes(lp[1]) /\ Others(lp[1])
      OBVIOUS
    <2>1. Passes(lp[1])
      BY <1>00, <1>1, TypesAre DEF Passes, SeqInv, FinInv, InWindow, LpContexts, LpLive
    <2>2. ASSUME NEW k \in DOMAIN lp', (LpLive(k))' PROVE Apart(lp'[k], lp[1])
      <3>1. LpLive(k + 1) /\ k + 1 \in DOMAIN lp /\ lp'[k] = lp[k + 1] /\ k + 1 # 1
        BY <1>1, <2>2 DEF LpFrom
      <3>2. Apart(lp[k + 1], lp[1])
        BY <1>00, <1>1, <3>1, Zenon DEF SeqInv
      <3> QED BY <3>1, <3>2
    <2>3. ASSUME NEW b \in BlockIds, (BlkLive(b))' PROVE Apart(blk'[b], lp[1])
      <3>1. BlkLive(b) /\ blk'[b] = blk[b]
        BY <1>2, <2>3 DEF BlkFrom
      <3>2. Apart(lp[1], blk[b])
        BY <1>00, <1>1, <3>1 DEF SeqInv
      <3> QED BY <3>1, <3>2 DEF Apart
    <2> QED BY <2>1, <2>2, <2>3 DEF Others
  <1>6. th' \in [Threads -> ThreadRecords] /\ Settled
    <2>1. CASE th' = th
      BY <1>00, <2>1 DEF TypeInv, Settled
    <2>2. CASE th' # th
      BY <1>00, <1>5, <2>2, DeregIs
    <2> QED BY <2>1, <2>2
  <1>7. TypeInv'
    BY <1>00, <1>1, <1>6 DEF TypeInv
  <1>8. StayHolding
    <2>1. Taken' = Taken
      BY DEF Taken
    <2>2. \A u \in Threads : th[u].pc # "gone" /\ th[u].cur # 0 => th[u].cur \in Taken
      BY <1>00 DEF BlockInv, BlkLive
    <2> QED BY <1>6, <2>1, <2>2 DEF StayHolding, Settled
  <1>9. Windows /\ RecsLive'
    <2>1. CASE th' = th /\ ~LpLive(1)
      <3>1. Forward
        <4>1. \A u \in Threads : th[u].wseq \in Int
          BY <1>00 DEF TypeInv, ThreadRecords
        <4> QED BY <2>1, <4>1 DEF Forward
      <3>2. Windows
        BY <1>00, <1>1, <1>2, <1>7, <3>1, WindowsKept
      <3>3. RecsLive'
        BY <1>00, <1>1, <1>2, <1>7, <2>1, SameRecs
      <3> QED BY <3>2, <3>3
    <2>2. CASE th' = DeregisteredTls(lp[1]) /\ LpLive(1) /\ lp[1].seq = th[lp[1].tls].rseq
      <3>1. Windows
        BY <1>00, <1>1, <1>2, <1>5, <1>7, <2>2, DeregWindows
      <3>2. RecsLive'
        BY <1>00, <1>1, <1>2, <1>5, <1>7, <2>2, DeregRecs
      <3> QED BY <3>1, <3>2
    <2> QED BY <2>1, <2>2
  <1> QED BY <1>1, <1>2, <1>3, <1>4, <1>6, <1>7, <1>8, <1>9, SettledKept

LEMMA LpInvalid ==
  ASSUME LbInv, lp_invalid
  PROVE  LbInv'
  <1>0. Parts
    BY PartsAre
  <1>00. TypeInv /\ ListInv /\ SeqInv /\ BufferInv /\ IsReader(rd)
    BY <1>0 DEF Parts, TypeInv
  <1>1. /\ UNCHANGED <<version, used, stage, blk, ovs, th, rd, destructed, sent, crashes>>
        /\ rd.call = "busy" /\ rd.st = "lp_buffer_reading" /\ lp # <<>> /\ Head(lp).st = "used"
        /\ Invalid(Verify(Head(lp))) /\ lp' = Tail(lp)
    BY DEF lp_invalid, Reading, LpReady, LpVerdict, ghosts, bounds
  <1>2. Head(lp) = lp[1] /\ 1 \in DOMAIN lp
    BY <1>00, <1>1 DEF TypeInv
  <1>3. lp[1].ver # version
    <2> SUFFICES ASSUME lp[1].ver = version PROVE FALSE
      OBVIOUS
    <2>1. lp[1].seq < th[lp[1].tls].rseq
      BY <1>00, <1>1, <1>2, InvalidIs DEF Verify
    <2>2. InWindow(lp[1])
      BY <1>00, <1>1, <1>2 DEF SeqInv, LpLive, Handed
    <2>3. lp[1].tls \in Threads /\ lp[1].seq \in Int
      BY <1>00, <1>2, TypesAre DEF LpContexts
    <2>4. th[lp[1].tls].rseq \in Int
      BY <1>00, <2>3 DEF TypeInv, ThreadRecords
    <2> QED BY <2>1, <2>2, <2>3, <2>4 DEF InWindow
  <1>4. NoRefToHead /\ ~LpLive(1)
    BY <1>3 DEF NoRefToHead, RefOf, LpLive
  <1>5. ~(Handed("lp"))' /\ ~(Handed("os"))' /\ ~(Handed("ref"))'
    BY <1>1 DEF Handed
  <1>6. ovs' \subseteq Buffers /\ OvsFrom /\ LockStays
    BY <1>00, <1>1, OvsSame DEF TypeInv, LockStays
  <1>7. IsReader(rd') /\ rd'.st = rd.st /\ rd'.cur = rd.cur /\ lp[1].st = "used" /\ th' = th
    BY <1>00, <1>1, <1>2
  <1> QED BY <1>1, <1>4, <1>5, <1>6, <1>7, DropHead

LEMMA ReturnParent ==
  ASSUME LbInv, return_parent
  PROVE  LbInv'
  <1>0. Parts
    BY PartsAre
  <1>00. TypeInv /\ ReaderInv /\ BufferInv /\ IsReader(rd)
    BY <1>0 DEF Parts, TypeInv
  <1>1. /\ UNCHANGED <<version, used, stage, blk, ovs, th, destructed, sent, crashes>>
        /\ Handed("ref") /\ lp' = Tail(lp) /\ rd' = [rd EXCEPT !.call = "idle"]
    BY DEF return_parent, ghosts, bounds
  <1>2. rd.st = "lp_buffer_reading" /\ lp # <<>> /\ lp[1].st = "used"
    BY <1>00, <1>1 DEF ReaderInv
  <1>3. NoRefToHead /\ ~LpLive(1)
    BY <1>1 DEF NoRefToHead, RefOf, LpLive
  <1>4. IsReader(rd') /\ rd'.st = rd.st /\ rd'.cur = rd.cur /\ rd'.call = "idle"
    BY <1>00, <1>1 DEF IsReader, ReaderFields
  <1>5. ~(Handed("lp"))' /\ ~(Handed("os"))' /\ ~(Handed("ref"))'
    BY <1>4 DEF Handed
  <1>6. ovs' \subseteq Buffers /\ OvsFrom /\ LockStays
    BY <1>00, <1>1, OvsSame DEF TypeInv, LockStays
  <1>7. th' = th
    BY <1>1
  <1> QED BY <1>1, <1>2, <1>3, <1>4, <1>5, <1>6, <1>7, DropHead

LEMMA ReturnLp ==
  ASSUME LbInv, return_lp
  PROVE  LbInv'
  <1>0. Parts
    BY PartsAre
  <1>00. TypeInv /\ ReaderInv /\ BufferInv /\ IsReader(rd)
    BY <1>0 DEF Parts, TypeInv
  <1>1. /\ UNCHANGED <<version, used, stage, blk, ovs, destructed, sent, crashes>>
        /\ Handed("lp") /\ lp' = Tail(lp) /\ th' = DeregisteredTls(Head(lp))
        /\ rd' = [Deregister(Head(lp), rd) EXCEPT !.call = "idle"]
    BY DEF return_lp, bounds
  <1>2. rd.st = "lp_buffer_reading" /\ lp # <<>> /\ lp[1].st = "used" /\ ~Handed("ref") /\ ~lp[1].ext
    BY <1>00, <1>1 DEF ReaderInv, Handed
  <1>21. Head(lp) = lp[1]
    BY <1>00, <1>2 DEF TypeInv
  <1>3. NoRefToHead
    BY <1>2 DEF NoRefToHead, RefOf
  <1>4. IsReader(rd') /\ rd'.st = rd.st /\ rd'.cur = rd.cur /\ rd'.call = "idle"
    <2>1. PICK r : r = Deregister(Head(lp), rd) /\ SamePlace(rd, r) /\ r.st = rd.st
      BY <1>00, DeregisterIs
    <2>2. rd' = [r EXCEPT !.call = "idle"]
      BY <1>1, <2>1
    <2> QED BY <2>1, <2>2 DEF IsReader, ReaderFields, SamePlace
  <1>5. ~(Handed("lp"))' /\ ~(Handed("os"))' /\ ~(Handed("ref"))'
    BY <1>4 DEF Handed
  <1>6. ovs' \subseteq Buffers /\ OvsFrom /\ LockStays
    BY <1>00, <1>1, OvsSame DEF TypeInv, LockStays
  <1>7. \/ th' = th /\ ~LpLive(1)
        \/ th' = DeregisteredTls(lp[1]) /\ LpLive(1) /\ lp[1].seq = th[lp[1].tls].rseq
    <2>1. CASE lp[1].ver = version
      BY <1>00, <1>1, <1>2, <1>21, <2>1 DEF LpLive, ReaderInv
    <2>2. CASE lp[1].ver # version
      BY <1>1, <1>21, <2>2 DEF LpLive, DeregisteredTls
    <2> QED BY <2>1, <2>2
  <1> QED BY <1>1, <1>2, <1>3, <1>4, <1>5, <1>6, <1>7, DropHead

\* When no buffer holds the entry a reference is to, no entry is left that needs it.
LEMMA LostEntry ==
  ASSUME LbInv, LpLive(1), 1 \in DOMAIN lp, lp[1].st = "used", Targets(lp[1]) = {},
         ovs' = PrunedAll({o \in ovs : Matches(o, lp[1])}, lp[1])
  PROVE  NoRefToHead
  <1>0. Parts
    BY PartsAre
  <1>00. TypeInv /\ SeqInv /\ OpenInv /\ ReaderInv /\ BufferInv /\ FillInv /\ ChunkInv
    BY <1>0 DEF Parts
  <1> SUFFICES ASSUME NEW p \in ovs', p.ver = version, NEW i \in DOMAIN p.q, RefOf(1, p, p.q[i]) PROVE FALSE
    BY DEF NoRefToHead
  <1>1. PICK c : c = lp[1] /\ c \in LpContexts /\ c.ver = version
    BY <1>00, TypesAre DEF LpLive
  <1>2. c.tls = p.tls /\ c.seq = p.q[i].seq /\ c.seq \in Int
    BY <1>1 DEF RefOf, LpContexts
  <1>3. PICK o \in ovs : p = IF o \in {x \in ovs : Matches(x, c)} THEN Pruned(o, c) ELSE o
    BY <1>1 DEF PrunedAll
  <1>4. o \in Buffers /\ SameBuffer(o, Pruned(o, c))
    BY <1>00, PrunedIs DEF TypeInv
  <1>5. o.ver = p.ver /\ o.tls = p.tls
    BY <1>3, <1>4 DEF SameBuffer
  <1>6. Matches(o, c) /\ p = Pruned(o, c)
    BY <1>1, <1>2, <1>3, <1>5 DEF Matches
  <1>7. ~Holds(p, c)
    BY <1>1, <1>6 DEF Targets
  <1>8. p \in Buffers /\ p.q \in Seq(Chunks) /\ p.q # <<>>
    BY <1>4, <1>6 DEF SameBuffer, Buffers
  <1>9. Head(p.q) = p.q[1] /\ p.q[1] \in Chunks /\ i \in Nat /\ i >= 1 /\ 1 \in DOMAIN p.q
    BY <1>8
  <1>10. p.q[1].seq \in Int /\ p.q[1].st \in {"reserved", "used"}
    BY <1>9 DEF Chunks
  <1>11. PICK m \in Nat : \A j \in DOMAIN p.q : j + m \in DOMAIN o.q /\ p.q[j].seq = o.q[j + m].seq
                              /\ (p.q[j].st = "reserved" => o.q[j + m].st = "reserved")
    BY <1>4, <1>6 DEF SameBuffer, Became
  <1>12. p.q[1].seq <= c.seq
    <2>1. CASE i = 1
      BY <1>2, <1>10, <2>1
    <2>2. CASE i # 1
      <3>1. 1 + m < i + m
        BY <1>9, <2>2
      <3>2. o.q[1 + m].seq < o.q[i + m].seq
        BY <1>00, <1>5, <1>9, <1>11, <3>1 DEF ChunkInv, Ordered
      <3> QED BY <1>2, <1>9, <1>10, <1>11, <3>2
    <2> QED BY <2>1, <2>2
  <1>13. p.q[1].st = "reserved"
    <2> SUFFICES ASSUME p.q[1].st = "used" PROVE FALSE
      BY <1>10
    <2>1. p.q[1].seq >= c.seq
      BY <1>4, <1>6, <1>8, PrunedIs
    <2>2. p.q[1].seq = c.seq
      BY <1>2, <1>10, <1>12, <2>1
    <2> QED BY <1>7, <1>8, <1>9, <2>2 DEF Holds
  <1>14. FillState(o, o.q[1 + m]) /\ o.q[1 + m].st = "reserved" /\ o.q[1 + m].seq = p.q[1].seq
    BY <1>00, <1>5, <1>9, <1>11, <1>13 DEF FillInv
  <1>15. c.tls \in Threads /\ th[c.tls].pc = "filled" /\ p.q[1].seq = th[c.tls].wseq - 1 /\ th[c.tls].wseq \in Int
    BY <1>00, <1>1, <1>2, <1>5, <1>14 DEF FillState, LpContexts, TypeInv, ThreadRecords
  <1>16. c.seq < th[c.tls].wseq
    BY <1>00, <1>1 DEF SeqInv, InWindow
  <1>17. c.seq = th[c.tls].wseq - 1
    BY <1>2, <1>10, <1>12, <1>15, <1>16
  <1>18. PICK k \in DOMAIN lp : Reservation(k, c.tls)
    BY <1>00, <1>15 DEF OpenInv, Writing
  <1>19. k # 1 /\ LpLive(k)
    BY <1>00, <1>18, ReservationLive DEF Reservation
  <1>20. Apart(lp[k], lp[1])
    BY <1>00, <1>19 DEF SeqInv
  <1> QED BY <1>1, <1>17, <1>18, <1>20 DEF Apart, Reservation

LEMMA LpDeregister ==
  ASSUME LbInv, lp_deregister
  PROVE  LbInv'
  <1>0. Parts
    BY PartsAre
  <1>00. TypeInv /\ ReaderInv /\ BufferInv /\ IsReader(rd)
    BY <1>0 DEF Parts, TypeInv
  <1>1. /\ UNCHANGED <<version, used, stage, blk, destructed, sent, crashes>>
        /\ rd.call = "busy" /\ rd.st = "lp_buffer_reading" /\ lp # <<>> /\ Head(lp).st = "used"
        /\ Verify(Head(lp)) = "valid" /\ lp' = Tail(lp)
        /\ th' = DeregisteredTls(Head(lp)) /\ rd' = Deregister(Head(lp), rd)
        /\ \/ Head(lp).fin /\ ovs' = ovs
           \/ /\ Targets(Head(lp)) = {}
              /\ ovs' = PrunedAll({o \in ovs : Matches(o, Head(lp))}, Head(lp))
    BY DEF lp_deregister, Reading, LpReady, LpVerdict, ghosts, bounds
  <1>2. Head(lp) = lp[1] /\ 1 \in DOMAIN lp
    BY <1>00, <1>1 DEF TypeInv
  <1>3. IsReader(rd') /\ rd'.st = rd.st /\ rd'.cur = rd.cur /\ rd'.call = "busy"
    BY <1>00, <1>1, DeregisterIs DEF SamePlace, SameCall
  <1>4. ~(Handed("lp"))' /\ ~(Handed("os"))' /\ ~(Handed("ref"))' /\ ~Handed("ref")
    BY <1>1, <1>3 DEF Handed
  <1>5. ovs' \subseteq Buffers /\ OvsFrom /\ LockStays
    <2>1. CASE ovs' = ovs
      BY <1>00, <2>1, OvsSame DEF TypeInv, LockStays
    <2>2. CASE ovs' = PrunedAll({o \in ovs : Matches(o, Head(lp))}, Head(lp))
      BY <1>00, <2>2, PrunedAllIs
    <2> QED BY <1>1, <2>1, <2>2
  <1>6. \/ th' = th /\ ~LpLive(1)
        \/ th' = DeregisteredTls(lp[1]) /\ LpLive(1) /\ lp[1].seq = th[lp[1].tls].rseq
    <2>1. CASE lp[1].ver = version
      <3>1. lp[1].seq = th[lp[1].tls].rseq
        BY <1>1, <1>2, <2>1, ValidIs DEF Verify
      <3> QED BY <1>1, <1>2, <1>4, <2>1, <3>1 DEF LpLive
    <2>2. CASE lp[1].ver # version
      BY <1>1, <1>2, <2>2 DEF LpLive, DeregisteredTls
    <2> QED BY <2>1, <2>2
  <1>7. NoRefToHead
    <2>1. CASE lp[1].fin \/ ~LpLive(1)
      BY <2>1 DEF NoRefToHead, RefOf
    <2>2. CASE ~lp[1].fin /\ LpLive(1)
      <3> SUFFICES ASSUME NEW p \in ovs', p.ver = version, NEW i \in DOMAIN p.q, RefOf(1, p, p.q[i]) PROVE FALSE
        BY DEF NoRefToHead
      <3>1. ovs' = PrunedAll({o \in ovs : Matches(o, lp[1])}, lp[1]) /\ Targets(lp[1]) = {}
        BY <1>1, <1>2, <2>2
      <3>2. NoRefToHead
        BY <1>1, <1>2, <2>2, <3>1, LostEntry
      <3> QED BY <3>2 DEF NoRefToHead
    <2> QED BY <2>1, <2>2
  <1>8. lp[1].st = "used"
    BY <1>1, <1>2
  <1> QED BY <1>1, <1>3, <1>4, <1>5, <1>6, <1>7, <1>8, DropHead

\* The entry is given back first: from then on its reference counts no more.
LEMMA ReturnOversize ==
  ASSUME LbInv, return_oversize
  PROVE  LbInv'
  <1>0. Parts
    BY PartsAre
  <1>00. TypeInv /\ ListInv /\ SeqInv /\ ReaderInv /\ BufferInv /\ BlockInv /\ ChunkInv /\ RecordLive /\ IsReader(rd)
    BY <1>0 DEF Parts, TypeInv
  <1>1. /\ UNCHANGED <<version, lp, used, stage, blk, destructed, sent, crashes>>
        /\ Handed("os") /\ th' = DeregisteredTls(Head(lp))
        /\ rd' = [Deregister(Head(lp), rd) EXCEPT !.hand = "ref"]
        /\ ovs' = {IF o.id = rd.target THEN [o EXCEPT !.q = Tail(@)] ELSE o : o \in ovs}
    BY DEF return_oversize, bounds
  <1>2. /\ rd.st = "lp_buffer_reading" /\ lp # <<>> /\ lp[1].st = "used" /\ ~Handed("ref") /\ ~lp[1].fin
        /\ lp[1].ver = version => lp[1].seq = th[lp[1].tls].rseq
    BY <1>00, <1>1 DEF ReaderInv, Handed
  <1>3. Head(lp) = lp[1] /\ 1 \in DOMAIN lp
    BY <1>00, <1>2 DEF TypeInv
  <1>4. /\ IsReader(rd') /\ rd'.st = rd.st /\ rd'.cur = rd.cur /\ rd'.call = "handed" /\ rd'.hand = "ref"
    <2>1. PICK r : r = Deregister(Head(lp), rd) /\ SamePlace(rd, r) /\ SameCall(rd, r) /\ r.st = rd.st
      BY <1>00, DeregisterIs
    <2>2. rd' = [r EXCEPT !.hand = "ref"]
      BY <1>1, <2>1
    <2> QED BY <1>1, <2>1, <2>2 DEF IsReader, ReaderFields, SamePlace, SameCall, Handed
  <1>5. (Handed("ref"))' /\ ~(Handed("lp"))' /\ ~(Handed("os"))'
    BY <1>4 DEF Handed
  <1>6. PICK g \in ovs : /\ g.id = rd.target /\ Matches(g, lp[1]) /\ g.q # <<>>
                         /\ lp[1].ver = version => g.q[1].seq = lp[1].seq
    BY <1>00, <1>1 DEF ReaderInv
  <1>7. PICK f : f = [o \in ovs |-> IF o.id = rd.target THEN [o EXCEPT !.q = Tail(@)] ELSE o]
    OBVIOUS
  <1>8. DOMAIN f = ovs /\ ovs' = {f[o] : o \in ovs}
    BY <1>1, <1>7
  <1>9. /\ g \in Buffers /\ f[g].q = Tail(g.q) /\ SameBuffer(g, f[g])
        /\ \A i \in DOMAIN f[g].q : i + 1 \in DOMAIN g.q /\ 1 < i + 1 /\ f[g].q[i] = g.q[i + 1]
        /\ 1 \in DOMAIN g.q
    <2>1. g \in Buffers /\ g.q \in Seq(Chunks)
      BY <1>00, <1>6 DEF TypeInv, Buffers
    <2>2. f[g] = [g EXCEPT !.q = Tail(g.q)]
      BY <1>6, <1>7
    <2>3. PICK s : s = Tail(g.q)
      OBVIOUS
    <2>4. /\ s \in Seq(Chunks) /\ 1 \in DOMAIN g.q
          /\ \A i \in DOMAIN s : i + 1 \in DOMAIN g.q /\ 1 < i + 1 /\ s[i] = g.q[i + 1]
      BY <1>6, <2>1, <2>3
    <2>5. f[g] \in Buffers /\ f[g].id = g.id /\ f[g].ver = g.ver /\ f[g].tls = g.tls /\ f[g].locked = g.locked
          /\ f[g].q = s
      BY <2>1, <2>2, <2>3, <2>4 DEF Buffers
    <2>6. Became(g, f[g])
      <3>0. PICK m \in Nat : m = 1
        OBVIOUS
      <3>1. \A i \in DOMAIN f[g].q : /\ i + m \in DOMAIN g.q /\ f[g].q[i].seq = g.q[i + m].seq
                                     /\ f[g].q[i].st = "reserved" => g.q[i + m].st = "reserved"
        BY <2>4, <2>5, <3>0
      <3> QED BY <2>5, <3>1 DEF Became
    <2> QED BY <2>1, <2>3, <2>4, <2>5, <2>6 DEF SameBuffer
  <1>10. \A o \in ovs : o # g => f[o] = o
    BY <1>00, <1>6, <1>7 DEF BufferInv, Named
  <1>11. ovs' \subseteq Buffers /\ OvsFrom /\ LockStays
    <2>1. ASSUME NEW o \in ovs PROVE SameBuffer(o, f[o])
      <3>1. o \in Buffers
        BY <1>00 DEF TypeInv
      <3> QED BY <1>9, <1>10, <3>1, SelfBuffer
    <2> QED BY <1>00, <1>8, <2>1, MappedAll
  <1>12. NoRefToHead
    <2> SUFFICES ASSUME NEW p \in ovs', p.ver = version, NEW i \in DOMAIN p.q, RefOf(1, p, p.q[i]) PROVE FALSE
      BY DEF NoRefToHead
    <2>1. lp[1].ver = version /\ lp[1].tls = p.tls /\ lp[1].seq = p.q[i].seq
      BY DEF RefOf, LpLive
    <2>2. g.ver = version /\ g.tls = p.tls /\ g.q[1].seq = p.q[i].seq
      BY <1>6, <2>1 DEF Matches
    <2>3. PICK o \in ovs : p = f[o]
      BY <1>8
    <2>4. CASE o = g
      <3>1. i + 1 \in DOMAIN g.q /\ 1 < i + 1 /\ p.q[i] = g.q[i + 1] /\ 1 \in DOMAIN g.q
        BY <1>9, <2>3, <2>4
      <3>2. g.q[1].seq < g.q[i + 1].seq
        BY <1>00, <2>2, <3>1 DEF ChunkInv, Ordered
      <3>3. g.q[1].seq \in Int
        <4>1. g.q \in Seq(Chunks)
          BY <1>9 DEF Buffers
        <4>2. g.q[1] \in Chunks
          BY <1>9, <4>1
        <4> QED BY <4>2 DEF Chunks
      <3> QED BY <2>2, <3>1, <3>2, <3>3
    <2>5. CASE o # g
      <3>1. p = o
        BY <1>10, <2>3, <2>5
      <3>2. Separate(o, g)
        BY <1>00, <2>2, <2>5, <3>1 DEF ChunkInv
      <3> QED BY <1>9, <2>2, <3>1, <3>2 DEF Separate
    <2> QED BY <2>4, <2>5
  <1>13. \A k \in DOMAIN lp : (LpLive(k))' <=> LpLive(k) /\ k # 1
    BY <1>1, <1>2, <1>5 DEF LpLive
  <1>14. LpFrom(0) /\ RecFrom(0) /\ OpenFrom(0)
    <2>1. \A k \in DOMAIN lp : k + 0 = k /\ k - 0 = k
      BY <1>00 DEF TypeInv
    <2> QED BY <1>1, <1>13, <2>1 DEF LpFrom, RecFrom, OpenFrom
  <1>15. BlkFrom /\ BlkNumbers
    BY <1>1, BlkSameKeeps DEF BlkSame
  <1>16. RefsStay
    BY <1>1, <1>12, <1>13 DEF RefsStay, NoRefToHead, RefOf
  <1>17. ListInv'
    BY <1>00, <1>1, <1>4, ListKept
  <1>18. ReaderInv'
    <2>1. rd'.cur = 0
      BY <1>00, <1>2, <1>4 DEF ListInv
    <2> QED BY <1>1, <1>2, <1>4, <1>5, <2>1 DEF ReaderInv
  <1>19. lp[1].ver = version => Passes(lp[1]) /\ Others(lp[1])
    <2> SUFFICES ASSUME lp[1].ver = version PROVE Passes(lp[1]) /\ Others(lp[1])
      OBVIOUS
    <2>1. LpLive(1)
      BY <1>2 DEF LpLive
    <2>2. Passes(lp[1])
      BY <1>00, <1>2, <1>3, <2>1, TypesAre DEF Passes, SeqInv, InWindow, LpContexts
    <2>3. ASSUME NEW k \in DOMAIN lp', (LpLive(k))' PROVE Apart(lp'[k], lp[1])
      <3>1. LpLive(k) /\ k \in DOMAIN lp /\ lp'[k] = lp[k] /\ k # 1
        BY <1>1, <1>13, <2>3
      <3> QED BY <1>00, <1>3, <2>1, <3>1 DEF SeqInv
    <2>4. ASSUME NEW b \in BlockIds, (BlkLive(b))' PROVE Apart(blk'[b], lp[1])
      <3>1. BlkLive(b) /\ blk'[b] = blk[b]
        BY <1>1, <1>15, <2>4 DEF BlkFrom
      <3>2. Apart(lp[1], blk[b])
        BY <1>00, <1>3, <2>1, <3>1 DEF SeqInv
      <3> QED BY <3>1, <3>2 DEF Apart
    <2> QED BY <2>2, <2>3, <2>4 DEF Others
  <1>20. lp[1].ver # version => th' = th
    BY <1>1, <1>3 DEF DeregisteredTls
  <1>21. th' \in [Threads -> ThreadRecords] /\ Settled
    <2>1. CASE th' = th
      BY <1>00, <2>1 DEF TypeInv, Settled
    <2>2. CASE th' # th
      BY <1>00, <1>1, <1>3, <1>19, <1>20, <2>2, DeregIs
    <2> QED BY <2>1, <2>2
  <1>22. TypeInv'
    BY <1>00, <1>1, <1>4, <1>11, <1>21 DEF TypeInv
  <1>23. StayHolding
    <2>1. Taken' = Taken
      BY <1>1 DEF Taken
    <2>2. \A u \in Threads : th[u].pc # "gone" /\ th[u].cur # 0 => th[u].cur \in Taken
      BY <1>00 DEF BlockInv, BlkLive
    <2> QED BY <1>1, <1>21, <2>1, <2>2 DEF StayHolding, Settled
  <1>24. Windows /\ RecsLive'
    <2>1. CASE lp[1].ver # version
      <3>1. Forward
        <4>1. \A u \in Threads : th[u].wseq \in Int
          BY <1>00 DEF TypeInv, ThreadRecords
        <4> QED BY <1>20, <2>1, <4>1 DEF Forward
      <3>2. Windows
        BY <1>00, <1>14, <1>15, <1>22, <3>1, WindowsKept
      <3>3. RecsLive'
        BY <1>00, <1>1, <1>14, <1>15, <1>20, <1>22, <2>1, SameRecs
      <3> QED BY <3>2, <3>3
    <2>2. CASE lp[1].ver = version
      <3>1. Windows
        BY <1>00, <1>1, <1>3, <1>14, <1>15, <1>19, <1>22, <2>2, DeregWindows
      <3>2. RecsLive'
        BY <1>00, <1>1, <1>2, <1>3, <1>14, <1>15, <1>19, <1>22, <2>2, DeregRecs
      <3> QED BY <3>1, <3>2
    <2> QED BY <2>1, <2>2
  <1> QED BY <1>1, <1>11, <1>14, <1>15, <1>16, <1>17, <1>18, <1>21, <1>22, <1>23, <1>24, SettledKept

LEMMA ReturnHp ==
  ASSUME LbInv, return_hp
  PROVE  LbInv'
  <1>0. Parts
    BY PartsAre
  <1>00. TypeInv /\ ListInv /\ SeqInv /\ ReaderInv /\ BufferInv /\ BlockInv /\ RecordLive /\ IsReader(rd)
    BY <1>0 DEF Parts, TypeInv
  <1>1. /\ UNCHANGED <<version, lp, used, stage, ovs, th, destructed, sent, crashes>>
        /\ rd.call = "handed" /\ rd.hand = "hp" /\ rd' = [rd EXCEPT !.call = "idle"]
        /\ blk' = blk \/ blk' = [blk EXCEPT ![rd.cur].q = SubSeq(@, rd.batch + 1, Len(@))]
    BY DEF return_hp, Handed, bounds
  <1>2. /\ IsReader(rd') /\ rd'.cur = rd.cur /\ rd'.st = rd.st /\ rd'.gone = rd.gone /\ rd'.verify = rd.verify
        /\ rd'.call = "idle"
    BY <1>00, <1>1 DEF IsReader, ReaderFields
  <1>3. ~Handed("ref") /\ ~(Handed("lp"))' /\ ~(Handed("os"))' /\ ~(Handed("ref"))'
    BY <1>1, <1>2 DEF Handed
  <1>4. /\ blk' \in [BlockIds -> BlockRecords]
        /\ \A b \in BlockIds : /\ blk'[b].ver = blk[b].ver /\ blk'[b].tls = blk[b].tls
                               /\ blk'[b].seq = blk[b].seq /\ blk'[b].fin = blk[b].fin
                               /\ blk'[b].removed = blk[b].removed
    <2>1. blk \in [BlockIds -> BlockRecords]
      BY <1>00 DEF TypeInv
    <2>2. CASE blk' = blk
      BY <2>1, <2>2
    <2>3. CASE blk' # blk
      <3>1. PICK g : g = rd.cur
        OBVIOUS
      <3>2. blk' = [blk EXCEPT ![g].q = SubSeq(@, rd.batch + 1, Len(@))]
        BY <1>1, <2>3, <3>1
      <3>3. g \in BlockIds
        <4> SUFFICES ASSUME g \notin BlockIds PROVE blk' = blk
          BY <2>3
        <4> QED BY <2>1, <3>2
      <3>4. blk[g].q \in Seq(Entries) /\ rd.batch \in Nat
        BY <1>00, <2>1, <3>3 DEF BlockRecords, IsReader
      <3>5. PICK s \in Seq(Entries) : s = SubSeq(blk[g].q, rd.batch + 1, Len(blk[g].q))
        <4>1. PICK q \in Seq(Entries), m \in Nat, n \in Nat : q = blk[g].q /\ m = rd.batch + 1 /\ n = Len(q) /\ m >= 1
          BY <3>4
        <4>2. SubSeq(q, m, n) \in Seq(Entries)
          <5>1. CASE m <= n
            BY <4>1, <5>1
          <5>2. CASE m > n
            BY <4>1, <5>2
          <5> QED BY <5>1, <5>2
        <4> QED BY <4>1, <4>2
      <3>6. blk' = [blk EXCEPT ![g].q = s]
        BY <3>2, <3>5
      <3> QED BY <2>1, <3>3, <3>6 DEF BlockRecords
    <2> QED BY <2>2, <2>3
  <1>5. TypeInv'
    BY <1>00, <1>1, <1>2, <1>4 DEF TypeInv
  <1>6. BlkFrom /\ BlkNumbers
    BY <1>1, <1>4, BlkSameKeeps DEF BlkSame
  <1>7. LpFrom(0) /\ RecFrom(0) /\ LpStays /\ OpenFrom(0)
    <2>1. \A k \in DOMAIN lp : k + 0 = k /\ k - 0 = k
      BY <1>00 DEF TypeInv
    <2>2. \A k \in DOMAIN lp : (LpLive(k))' <=> LpLive(k)
      BY <1>1, <1>3 DEF LpLive
    <2> QED BY <1>1, <2>1, <2>2 DEF LpFrom, RecFrom, LpStays, OpenFrom
  <1>8. ListInv' /\ ReaderInv'
    <2>1. ListInv'
      BY <1>00, <1>1, <1>2, ListKept
    <2>2. rd.cur # 0 => rd.cur \in BlockIds
      BY <1>00 DEF TypeInv, ListInv
    <2> QED BY <1>00, <1>1, <1>2, <1>3, <1>4, <2>1, <2>2 DEF ReaderInv
  <1>9. OvsFrom /\ RefsStay /\ LockStays
    BY <1>00, <1>1, <1>7, OvsSame, RefsOfLp DEF LockStays
  <1>10. Forward /\ Settled
    <2>1. \A u \in Threads : th[u].wseq \in Int
      BY <1>00 DEF TypeInv, ThreadRecords
    <2> QED BY <1>1, <2>1 DEF Forward, Settled
  <1>11. Windows
    BY <1>00, <1>5, <1>6, <1>7, <1>10, WindowsKept
  <1>12. StayHolding
    <2>1. Taken' = Taken
      BY <1>1 DEF Taken
    <2>2. \A u \in Threads : th[u].pc # "gone" /\ th[u].cur # 0 => th[u].cur \in Taken /\ th[u].cur \in BlockIds
      BY <1>00, TypesAre DEF BlockInv, BlkLive
    <2> QED BY <1>1, <1>4, <2>1, <2>2 DEF StayHolding
  <1>13. RecsLive'
    BY <1>00, <1>1, <1>5, <1>6, <1>7, SameRecs
  <1> QED BY <1>1, <1>5, <1>6, <1>7, <1>8, <1>9, <1>10, <1>11, <1>12, <1>13, SettledKept

-----------------------------------------------------------------------------
(***************************************************************************)
(* The reader goes on to the next block, or past the last one, and passes  *)
(* the block it leaves for good.                                           *)
(***************************************************************************)
OthersSame ==
    /\ blk' \in [BlockIds -> BlockRecords]
    /\ \A x \in BlockIds : (Leaves => x # rd.cur) =>
            /\ blk'[x].ver = blk[x].ver /\ blk'[x].tls = blk[x].tls /\ blk'[x].seq = blk[x].seq
            /\ blk'[x].fin = blk[x].fin /\ blk'[x].removed = blk[x].removed
WalkedOn ==
    /\ TypeInv' /\ LpFrom(0) /\ OpenFrom(0) /\ LpStays /\ BlkFrom /\ Windows /\ Settled
    /\ StayHolding /\ RecsLive'

LEMMA LeftBlock ==
  ASSUME LbInv, Leaves
  PROVE  /\ rd.cur \in BlockIds /\ rd.cur \in Taken
         /\ blk[rd.cur].ver = version =>
                /\ blk[rd.cur].removed /\ Passed
                /\ BlkLive(rd.cur) /\ Passes(blk[rd.cur])
  <1>0. Parts
    BY PartsAre
  <1>00. TypeInv /\ ListInv /\ SeqInv /\ FinInv /\ ReaderInv
    BY <1>0 DEF Parts
  <1>1. rd.cur # 0 /\ rd.gone
    BY DEF Leaves
  <1>2. PICK i \in DOMAIN used : used[i] = rd.cur
    BY <1>00, <1>1 DEF ListInv
  <1>3. rd.cur \in ToSet(used) /\ rd.cur \in BlockIds
    BY <1>00, <1>2 DEF ToSet, TypeInv
  <1>4. rd.cur \in Taken
    BY <1>3 DEF Taken
  <1>5. ASSUME blk[rd.cur].ver = version
        PROVE  blk[rd.cur].removed /\ Passed /\ BlkLive(rd.cur) /\ Passes(blk[rd.cur])
    <2>1. blk[rd.cur].removed /\ rd.verify = "valid" /\ blk[rd.cur].seq = th[blk[rd.cur].tls].rseq
      BY <1>00, <1>1, <1>5 DEF ReaderInv
    <2>2. BlkLive(rd.cur) /\ Passed
      BY <1>4, <1>5, <2>1 DEF BlkLive, Passed
    <2>3. blk[rd.cur].tls \in Threads /\ blk[rd.cur].seq \in Int
      BY <1>00, <1>3, TypesAre DEF BlockRecords
    <2>4. InWindow(blk[rd.cur]) /\ (blk[rd.cur].fin => blk[rd.cur].seq = th[blk[rd.cur].tls].wseq - 1)
      BY <1>00, <1>3, <2>2 DEF SeqInv, FinInv
    <2> QED BY <1>5, <2>1, <2>2, <2>3, <2>4 DEF Passes, InWindow
  <1> QED BY <1>3, <1>4, <1>5

LEMMA WalkOn ==
  ASSUME LbInv, NEW b, b = Following(rd.cur), Lists(b), UNCHANGED <<version, lp, ovs, destructed, sent, crashes>>,
         th' = PassedTls, IsReader(rd'), ~Handed("ref"), ~(Handed("ref"))', OthersSame
  PROVE  WalkedOn
  <1>0. Parts
    BY PartsAre
  <1>00. TypeInv /\ ListInv /\ SeqInv /\ BlockInv /\ RecordLive
    BY <1>0 DEF Parts
  <1>1. /\ used' \in Seq(BlockIds) /\ stage' \in Seq(BlockIds)
        /\ Taken' = IF Leaves THEN Taken \ {rd.cur} ELSE Taken
    BY <1>00, ListsIs DEF Taken
  <1>2. LpFrom(0) /\ RecFrom(0) /\ LpStays /\ OpenFrom(0)
    <2>1. \A k \in DOMAIN lp : k + 0 = k /\ k - 0 = k
      BY <1>00 DEF TypeInv
    <2>2. \A k \in DOMAIN lp : (LpLive(k))' <=> LpLive(k)
      BY DEF LpLive
    <2> QED BY <2>1, <2>2 DEF LpFrom, RecFrom, LpStays, OpenFrom
  <1>3. ASSUME NEW x \in BlockIds, (BlkLive(x))'
        PROVE  /\ BlkLive(x) /\ (Leaves => x # rd.cur)
               /\ blk'[x].tls = blk[x].tls /\ blk'[x].seq = blk[x].seq /\ blk'[x].fin = blk[x].fin
    <2>1. x \in Taken' /\ blk'[x].ver = version
      BY <1>3 DEF BlkLive
    <2>2. x \in Taken /\ (Leaves => x # rd.cur)
      BY <1>1, <2>1
    <2> QED BY <2>1, <2>2 DEF OthersSame, BlkLive
  <1>4. BlkFrom /\ BlkNumbers
    BY <1>3 DEF BlkFrom, BlkNumbers
  <1>5. \/ th' = th
        \/ /\ Leaves /\ blk[rd.cur].ver = version /\ th' = DeregisteredTls(blk[rd.cur])
           /\ BlkLive(rd.cur) /\ Passes(blk[rd.cur]) /\ rd.cur \in BlockIds
    <2>1. CASE ~Passed
      BY <2>1 DEF PassedTls
    <2>2. CASE Passed /\ blk[rd.cur].ver # version
      BY <2>2 DEF PassedTls, DeregisteredTls
    <2>3. CASE Passed /\ blk[rd.cur].ver = version
      BY <2>3, LeftBlock DEF PassedTls, Passed
    <2> QED BY <2>1, <2>2, <2>3
  <1>6. th' # th => Others(blk[rd.cur])
    <2> SUFFICES ASSUME th' # th PROVE Others(blk[rd.cur])
      OBVIOUS
    <2>1. PICK c \in BlockIds : c = rd.cur /\ BlkLive(c) /\ Leaves
      BY <1>5
    <2>2. ASSUME NEW k \in DOMAIN lp', (LpLive(k))' PROVE Apart(lp'[k], blk[c])
      <3>1. LpLive(k) /\ k \in DOMAIN lp /\ lp'[k] = lp[k]
        BY <2>2 DEF LpLive
      <3> QED BY <1>00, <2>1, <3>1 DEF SeqInv
    <2>3. ASSUME NEW x \in BlockIds, (BlkLive(x))' PROVE Apart(blk'[x], blk[c])
      <3>1. BlkLive(x) /\ x # c /\ blk'[x].tls = blk[x].tls /\ blk'[x].seq = blk[x].seq
        BY <1>3, <2>1, <2>3
      <3>2. Apart(blk[x], blk[c])
        BY <1>00, <2>1, <3>1 DEF SeqInv
      <3> QED BY <3>1, <3>2 DEF Apart
    <2> QED BY <2>1, <2>2, <2>3 DEF Others
  <1>7. th' \in [Threads -> ThreadRecords] /\ Settled
    <2>1. CASE th' = th
      BY <1>00, <2>1 DEF TypeInv, Settled
    <2>2. CASE th' # th
      BY <1>00, <1>5, <2>2, DeregIs
    <2> QED BY <2>1, <2>2
  <1>8. TypeInv'
    BY <1>00, <1>1, <1>7 DEF TypeInv, OthersSame
  <1>9. StayHolding
    <2> SUFFICES ASSUME NEW u \in Threads, th[u].pc # "gone", th[u].cur # 0
                 PROVE  /\ th[u].cur \in Taken' /\ blk'[th[u].cur].ver = blk[th[u].cur].ver
                        /\ blk'[th[u].cur].tls = blk[th[u].cur].tls /\ blk'[th[u].cur].seq = blk[th[u].cur].seq
                        /\ blk'[th[u].cur].removed = blk[th[u].cur].removed
                        /\ blk'[th[u].cur].fin = blk[th[u].cur].fin
      BY <1>7 DEF StayHolding, Settled
    <2>1. th[u].cur \in Taken /\ blk[th[u].cur].ver = version /\ ~blk[th[u].cur].removed
      BY <1>00 DEF BlockInv, BlkLive
    <2>2. Leaves => th[u].cur # rd.cur
      BY <2>1, LeftBlock
    <2>3. th[u].cur \in BlockIds
      BY <1>00, <2>1, TypesAre
    <2> QED BY <1>1, <2>1, <2>2, <2>3 DEF OthersSame
  <1>10. Windows /\ RecsLive'
    <2>1. CASE th' = th
      <3>1. Forward
        <4>1. \A u \in Threads : th[u].wseq \in Int
          BY <1>00 DEF TypeInv, ThreadRecords
        <4> QED BY <2>1, <4>1 DEF Forward
      <3>2. Windows
        BY <1>00, <1>2, <1>4, <1>8, <3>1, WindowsKept
      <3>3. RecsLive'
        BY <1>00, <1>2, <1>4, <1>8, <2>1, SameRecs
      <3> QED BY <3>2, <3>3
    <2>2. CASE th' # th
      <3>0. PICK c : c = blk[rd.cur] /\ Passes(c) /\ Others(c) /\ th' = DeregisteredTls(c)
        BY <1>5, <1>6, <2>2
      <3>1. Windows
        BY <1>00, <1>2, <1>4, <1>8, <3>0, DeregWindows
      <3>2. \A k \in DOMAIN lp' : lp'[k].ver = version' => (LpLive(k))'
        BY DEF LpLive
      <3>3. RecsLive'
        BY <1>00, <1>2, <1>4, <1>8, <3>0, <3>2, DeregRecs
      <3> QED BY <3>1, <3>3
    <2> QED BY <2>1, <2>2
  <1> QED BY <1>2, <1>4, <1>7, <1>8, <1>9, <1>10 DEF WalkedOn

LEMMA PassedReader ==
  ASSUME IsReader(rd)
  PROVE  SamePlace(rd, PassedBlock) /\ SameCall(rd, PassedBlock) /\ PassedBlock.st = rd.st
  <1>1. CASE Passed
    BY <1>1, DeregisterIs DEF PassedBlock
  <1>2. CASE ~Passed
    BY <1>2 DEF PassedBlock, SamePlace, SameCall
  <1> QED BY <1>1, <1>2

LEMMA PassedBlocksAre ==
  ASSUME LbInv
  PROVE  /\ PassedBlocks \in [BlockIds -> BlockRecords]
         /\ \A x \in BlockIds : (Leaves => x # rd.cur) => PassedBlocks[x] = blk[x]
  <1>1. blk \in [BlockIds -> BlockRecords]
    BY DEF LbInv, TypeInv
  <1>2. CASE ~Leaves
    BY <1>1, <1>2 DEF PassedBlocks
  <1>3. CASE Leaves
    <2>1. PICK g \in BlockIds : g = rd.cur
      BY <1>3, LeftBlock
    <2>2. PassedBlocks = [blk EXCEPT ![g] = Blank]
      BY <1>3, <2>1 DEF PassedBlocks
    <2> QED BY <1>1, <1>3, <2>1, <2>2, BlankIs
  <1> QED BY <1>2, <1>3

\* What is left to show of a step of the walk: where the reader stands now.
LEMMA Walked ==
  ASSUME LbInv, WalkedOn, version' = version, ovs' = ovs, ListInv', ReaderInv'
  PROVE  LbInv'
  <1>0. TypeInv /\ BufferInv
    BY DEF LbInv
  <1>1. OvsFrom /\ LockStays
    BY <1>0, OvsSame DEF LockStays
  <1>2. RefsStay
    BY <1>1, RefsOfLp DEF WalkedOn
  <1> QED BY <1>1, <1>2, SettledKept DEF WalkedOn

LEMMA WalkedLists ==
  ASSUME TypeInv, ListInv, NEW b, b = Following(rd.cur), Lists(b), rd'.cur = b,
         b = 0 => rd'.st = "lp_buffer_reading",
         b # 0 => rd'.st \in {"next_block_finding", "hp_block_reading"}
  PROVE  ListInv' /\ (b # 0 => b \in BlockIds /\ b \in Taken' /\ b # rd.cur)
  <1>1. /\ Once(used') /\ Once(stage') /\ \A x \in ToSet(used') : x \notin ToSet(stage')
        /\ b # 0 => b \in ToSet(used')
    BY ListsIs
  <1>2. b # 0 => b \in BlockIds /\ b # rd.cur
    BY FollowingIs
  <1>3. \A i \in DOMAIN used', j \in DOMAIN stage' : used'[i] # stage'[j]
    BY <1>1 DEF ToSet
  <1>4. b # 0 => \E i \in DOMAIN used' : used'[i] = b
    BY <1>1 DEF ToSet
  <1>5. ListInv'
    BY <1>1, <1>3, <1>4 DEF ListInv, Once
  <1> QED BY <1>1, <1>2, <1>5 DEF Taken

LEMMA NextBlock ==
  ASSUME LbInv, next_block
  PROVE  LbInv'
  <1>0. Parts
    BY PartsAre
  <1>00. TypeInv /\ ListInv /\ ReaderInv /\ IsReader(rd)
    BY <1>0 DEF Parts, TypeInv
  <1>01. PICK b : b = Following(rd.cur)
    OBVIOUS
  <1>02. PICK v : v = verify_context(blk[b], PassedTls, PassedBlock.records)
    OBVIOUS
  <1>03. PICK r : r = [PassedBlock EXCEPT !.cur = b, !.last = LastBlock, !.gone = IsGone(v, b), !.verify = v]
    OBVIOUS
  <1>04. b # 0 /\ Lists(b) /\ rd' = Arrive(r, v)
    BY <1>01, <1>02, <1>03 DEF next_block
  <1>05. PICK move \in 0 .. 1 : blk' = [PassedBlocks EXCEPT ![b].realloc = @ \/ move = 1]
    BY <1>01 DEF next_block
  <1>1. /\ b = Following(rd.cur) /\ v = verify_context(blk[b], PassedTls, PassedBlock.records)
        /\ b # 0 /\ Lists(b)
        /\ r = [PassedBlock EXCEPT !.cur = b, !.last = LastBlock, !.gone = IsGone(v, b), !.verify = v]
        /\ rd' = Arrive(r, v)
        /\ blk' = [PassedBlocks EXCEPT ![b].realloc = @ \/ move = 1]
    BY <1>01, <1>02, <1>03, <1>04, <1>05
  <1>2. /\ UNCHANGED <<version, lp, ovs, destructed, sent, crashes>> /\ th' = PassedTls
        /\ rd.call = "busy" /\ rd.st = "next_block_finding"
    BY DEF next_block, Reading, ghosts
  <1>3. /\ IsReader(r) /\ r.cur = b /\ r.gone = IsGone(v, b) /\ r.verify = v
        /\ r.call = "busy" /\ r.st = "next_block_finding"
    <2>1. PICK q : q = PassedBlock /\ SamePlace(rd, q) /\ SameCall(rd, q) /\ q.st = rd.st
      BY <1>00, PassedReader
    <2>2. PICK l, g : r = [q EXCEPT !.cur = b, !.last = l, !.gone = g, !.verify = v] /\ g = IsGone(v, b)
      BY <1>1, <2>1
    <2> QED BY <1>2, <2>1, <2>2 DEF SamePlace, SameCall, IsReader, ReaderFields
  <1>4. /\ SamePlace(r, rd') /\ Ends(r, rd') /\ rd'.st \in {"next_block_finding", "hp_block_reading"}
    BY <1>1, <1>3, ArriveIs
  <1>5. /\ IsReader(rd') /\ rd'.cur = b /\ rd'.gone = IsGone(v, b) /\ rd'.verify = v
        /\ rd'.call \in {"busy", "idle"}
    BY <1>3, <1>4 DEF SamePlace, Ends, SameCall
  <1>6. ~Handed("ref") /\ ~(Handed("lp"))' /\ ~(Handed("os"))' /\ ~(Handed("ref"))'
    BY <1>2, <1>5 DEF Handed
  <1>7. ListInv' /\ b \in BlockIds /\ b \in Taken' /\ b # rd.cur
    <2>1. b = Following(rd.cur) /\ b # 0 /\ Lists(b)
      BY <1>1
    <2>2. rd'.cur = b /\ rd'.st \in {"next_block_finding", "hp_block_reading"}
      BY <1>4, <1>5
    <2> QED BY <1>00, <2>1, <2>2, WalkedLists
  <1>8. OthersSame
    <2>1. PICK p \in [BlockIds -> BlockRecords] :
             p = PassedBlocks /\ \A x \in BlockIds : (Leaves => x # rd.cur) => p[x] = blk[x]
      BY PassedBlocksAre
    <2>2. PICK y : y = (p[b].realloc \/ move = 1)
      OBVIOUS
    <2>3. y \in BOOLEAN
      BY <2>2, Zenon
    <2>4. blk' = [p EXCEPT ![b].realloc = y]
      BY <1>1, <2>1, <2>2
    <2>5. /\ blk' \in [BlockIds -> BlockRecords]
          /\ \A x \in BlockIds : /\ blk'[x].ver = p[x].ver /\ blk'[x].tls = p[x].tls /\ blk'[x].seq = p[x].seq
                                 /\ blk'[x].fin = p[x].fin /\ blk'[x].removed = p[x].removed
      BY <1>7, <2>3, <2>4 DEF BlockRecords
    <2> QED BY <2>1, <2>5 DEF OthersSame
  <1>9. WalkedOn
    BY <1>1, <1>2, <1>5, <1>6, <1>8, WalkOn
  <1>10. /\ blk'[b].ver = blk[b].ver /\ blk'[b].tls = blk[b].tls /\ blk'[b].seq = blk[b].seq
         /\ blk'[b].removed = blk[b].removed
    BY <1>7, <1>8 DEF OthersSame
  <1>11. ASSUME blk[b].ver = version
         PROVE  /\ rd'.gone => blk[b].removed /\ rd'.verify = "valid"
                /\ rd'.verify = "valid" => blk[b].seq = th'[blk[b].tls].rseq
    <2>1. (BlkLive(b))'
      BY <1>2, <1>7, <1>10, <1>11 DEF BlkLive
    <2>2. th'[blk[b].tls].rseq <= blk[b].seq
      BY <1>7, <1>9, <1>10, <2>1 DEF WalkedOn, Windows, InWindow
    <2>3. blk[b].tls \in Threads /\ blk[b].seq \in Int
      BY <1>00, <1>7, TypesAre DEF BlockRecords
    <2>4. th'[blk[b].tls].rseq \in Int
      BY <1>9, <2>3 DEF WalkedOn, TypeInv, ThreadRecords
    <2>5. ~Invalid(v)
      <3> SUFFICES ASSUME Invalid(v) PROVE FALSE
        OBVIOUS
      <3>1. blk[b].seq < th'[blk[b].tls].rseq
        BY <1>00, <1>1, <1>2, <1>11, InvalidIs
      <3> QED BY <2>2, <2>3, <2>4, <3>1
    <2>6. v = "valid" => blk[b].seq = th'[blk[b].tls].rseq
      BY <1>1, <1>2, <1>11, ValidIs
    <2> QED BY <1>5, <1>11, <2>5, <2>6 DEF IsGone
  <1>12. ReaderInv'
    BY <1>2, <1>5, <1>6, <1>10, <1>11 DEF ReaderInv
  <1> QED BY <1>2, <1>7, <1>9, <1>12, Walked

LEMMA NoNextBlock ==
  ASSUME LbInv, no_next_block
  PROVE  LbInv'
  <1>0. Parts
    BY PartsAre
  <1>00. TypeInv /\ ListInv /\ ReaderInv /\ IsReader(rd)
    BY <1>0 DEF Parts, TypeInv
  <1>1. PICK b, r : /\ b = 0 /\ b = Following(rd.cur) /\ Lists(b)
                    /\ r = [PassedBlock EXCEPT !.gone = FALSE, !.verify = "version_invalid"]
                    /\ rd' = NoNextGroup(r)
    BY DEF no_next_block
  <1>2. /\ UNCHANGED <<version, lp, ovs, destructed, sent, crashes>> /\ th' = PassedTls /\ blk' = PassedBlocks
        /\ rd.call = "busy"
    BY DEF no_next_block, Reading, ghosts, bounds
  <1>3. IsReader(r) /\ r.call = "busy"
    <2>1. PICK q : q = PassedBlock /\ SamePlace(rd, q) /\ SameCall(rd, q) /\ q.st = rd.st
      BY <1>00, PassedReader
    <2>2. r = [q EXCEPT !.gone = FALSE, !.verify = "version_invalid"]
      BY <1>1, <2>1
    <2> QED BY <1>2, <2>1, <2>2 DEF SamePlace, SameCall, IsReader, ReaderFields
  <1>4. /\ IsReader(rd') /\ rd'.cur = b /\ rd'.st = "lp_buffer_reading" /\ rd'.call \in {"busy", "idle"}
    BY <1>1, <1>3, NoNextGroupIs DEF Ends, SameCall
  <1>5. ~Handed("ref") /\ ~(Handed("lp"))' /\ ~(Handed("os"))' /\ ~(Handed("ref"))'
    BY <1>2, <1>4 DEF Handed
  <1>6. ListInv'
    BY <1>00, <1>1, <1>4, WalkedLists
  <1>7. OthersSame
    BY <1>2, PassedBlocksAre DEF OthersSame
  <1>8. WalkedOn
    BY <1>1, <1>2, <1>4, <1>5, <1>7, WalkOn
  <1>9. ReaderInv'
    BY <1>1, <1>4, <1>5 DEF ReaderInv
  <1> QED BY <1>2, <1>6, <1>8, <1>9, Walked

-----------------------------------------------------------------------------
(***************************************************************************)
(* A start, the first or one after a crash: nothing is of this version, no *)
(* thread has begun and the reader stands at the shared ring.              *)
(***************************************************************************)
Fresh ==
    /\ TypeInv /\ ListInv /\ BufferInv
    /\ \A k \in DOMAIN lp : lp[k].ver # version /\ lp[k].st # "reserved"
    /\ \A b \in Taken : blk[b].ver # version
    /\ \A o \in ovs : o.ver # version
    /\ \A t \in Threads : th[t].pc = "idle" /\ th[t].cur = 0 /\ th[t].wseq = 0 /\ th[t].rseq = 0
    /\ rd.cur = 0 /\ rd.call = "idle"

LEMMA FreshIs == Fresh => LbInv
  <1> SUFFICES ASSUME Fresh PROVE LbInv
    OBVIOUS
  <1>1. TypeInv /\ ListInv /\ BufferInv
    BY DEF Fresh
  <1>2. (\A k \in DOMAIN lp : ~LpLive(k)) /\ (\A b \in BlockIds : ~BlkLive(b))
    BY DEF Fresh, LpLive, BlkLive
  <1>3. SeqInv
    <2>1. \A u \in Threads : th[u].rseq <= th[u].wseq
      BY DEF Fresh
    <2> QED BY <1>2, <2>1 DEF SeqInv
  <1>4. FinInv
    BY <1>2 DEF FinInv
  <1>5. OpenInv /\ BlockInv
    BY DEF Fresh, OpenInv, BlockInv, Writing
  <1>6. ReaderInv
    BY DEF Fresh, ReaderInv, Handed
  <1>7. HeldInv /\ RefInv /\ FillInv /\ ChunkInv
    BY DEF Fresh, HeldInv, RefInv, FillInv, ChunkInv
  <1>8. RecordLive
    BY DEF Fresh, RecordLive
  <1> QED BY <1>1, <1>3, <1>4, <1>5, <1>6, <1>7, <1>8 DEF LbInv

LEMMA NewThreadIs == NewThread \in ThreadRecords
  BY LogBufferAssumption DEF NewThread, ThreadRecords, Places

LEMMA NewReaderIs ==
  ASSUME NEW v \in VersionIds, NEW records, NEW r, r = NewReader(v, records)
  PROVE  IsReader(r) /\ r.cur = 0 /\ r.call = "idle" /\ r.st = "lp_buffer_reading"
  <1>1. v - MAX_RECOVERY_VERSION_RANGE \in Int
    BY DEF VersionIds, MAX_RECOVERY_VERSION_RANGE
  <1>2. Mod(v - MAX_RECOVERY_VERSION_RANGE) \in VersionIds
    BY <1>1, ModType
  <1> QED BY <1>2 DEF NewReader, IsReader, ReaderFields

LEMMA Initially ==
  ASSUME Init
  PROVE  LbInv
  <1>1. version \in VersionIds /\ crashes \in 0 .. MaxCrashes /\ FirstVersion \in VersionIds
    BY LogBufferAssumption DEF Init, VersionIds
  <1>2. sent \in [0 .. MaxCrashes -> [Threads -> Int]]
    BY DEF Init, NoneYet
  <1>3. /\ lp \in Seq(LpContexts) /\ used \in Seq(BlockIds) /\ stage \in Seq(BlockIds)
        /\ DOMAIN lp = {} /\ DOMAIN used = {} /\ DOMAIN stage = {}
    BY DEF Init
  <1>4. blk \in [BlockIds -> BlockRecords]
    BY BlankIs DEF Init
  <1>5. th \in [Threads -> ThreadRecords] /\ \A t \in Threads : th[t] = NewThread
    BY NewThreadIs DEF Init
  <1>6. IsReader(rd) /\ rd.cur = 0 /\ rd.call = "idle" /\ rd.st = "lp_buffer_reading"
    <2>1. PICK r : /\ r = NewReader(FirstVersion, [age \in 0 .. MAX_RECOVERY_VERSION_RANGE - 1 |-> NoRecord])
                   /\ IsReader(r) /\ r.cur = 0 /\ r.call = "idle" /\ r.st = "lp_buffer_reading"
      BY <1>1, NewReaderIs
    <2>2. rd = [r EXCEPT !.ver = FirstVersion, !.endWorks = TRUE]
      BY <2>1 DEF Init
    <2> QED BY <1>1, <2>1, <2>2 DEF IsReader, ReaderFields
  <1>7. ovs = {} /\ IsFiniteSet({})
    BY FS_EmptySet DEF Init
  <1>8. TypeInv
    BY <1>1, <1>2, <1>3, <1>4, <1>5, <1>6, <1>7 DEF TypeInv
  <1>9. ListInv
    BY <1>3, <1>6 DEF ListInv, Once
  <1>10. BufferInv
    BY <1>7 DEF BufferInv, Named
  <1>11. Taken = {}
    BY <1>3 DEF Taken, ToSet
  <1>12. \A t \in Threads : th[t].pc = "idle" /\ th[t].cur = 0 /\ th[t].wseq = 0 /\ th[t].rseq = 0
    BY <1>5 DEF NewThread
  <1>13. Fresh
    BY <1>3, <1>6, <1>7, <1>8, <1>9, <1>10, <1>11, <1>12 DEF Fresh
  <1> QED BY <1>13, FreshIs

LEMMA FixedIs ==
  ASSUME NEW c, NEW v \in VersionIds, NEW d, d = Fixed(c, v)
  PROVE  /\ c \in LpContexts => d \in LpContexts /\ d.ver # v /\ d.st = c.st
         /\ c \in BlockRecords => d \in BlockRecords /\ d.ver # v
  <1>1. Mod(v + 1) \in VersionIds /\ Mod(v + 1) # v
    BY OtherVersion
  <1>2. CASE c.ver = v
    <2>1. PICK w \in VersionIds : w = Mod(v + 1) /\ w # v
      BY <1>1
    <2>2. d = [c EXCEPT !.ver = w]
      BY <1>2, <2>1 DEF Fixed
    <2> QED BY <2>1, <2>2 DEF LpContexts, BlockRecords
  <1>3. CASE c.ver # v
    BY <1>3 DEF Fixed
  <1> QED BY <1>2, <1>3

\* What is left of an oversize file.
LEMMA RecoveredIs ==
  ASSUME NEW o \in Buffers, NEW p, p = [o EXCEPT !.q = Committed(@), !.locked = FALSE, !.fin = FALSE]
  PROVE  p \in Buffers /\ p.id = o.id /\ p.ver = o.ver
  <1>1. o.q \in Seq(Chunks)
    BY DEF Buffers
  <1>2. PICK s \in Seq(Chunks) : s = Committed(o.q)
    BY <1>1, CommittedIs
  <1>3. p = [o EXCEPT !.q = s, !.locked = FALSE, !.fin = FALSE]
    BY <1>2
  <1> QED BY <1>3 DEF Buffers

LEMMA Crash ==
  ASSUME LbInv, crash
  PROVE  LbInv'
  <1>0. Parts
    BY PartsAre
  <1>00. TypeInv /\ ListInv /\ BufferInv
    BY <1>0 DEF Parts
  <1>1. PICK v : v = Mod(version + 1)
    OBVIOUS
  <1>2. PICK kept \in {stage} \cup (IF Reading("next_block_finding") /\ stage # <<>> THEN {Front(stage)} ELSE {}) :
           \E records : /\ version' = v /\ stage' = kept /\ used' = used /\ sent' = sent
                        /\ lp' = [k \in DOMAIN Committed(lp) |-> Fixed(Committed(lp)[k], v)]
                        /\ blk' = [b \in BlockIds |-> Fixed(blk[b], v)]
                        /\ ovs' = RecoveredOversize(v)
                        /\ rd' = NewReader(v, records)
                        /\ th' = [t \in Threads |-> NewThread]
    BY <1>1 DEF crash
  <1>3. v \in VersionIds /\ \A w \in VersionIds : Mod(version - w) <= MAX_RECOVERY_VERSION_RANGE => w # v
    BY <1>00, <1>1, OtherVersion DEF TypeInv
  <1>4. crashes' \in 0 .. MaxCrashes
    BY <1>00, LogBufferAssumption DEF crash, MayCrash, TypeInv
  <1>5. lp' \in Seq(LpContexts) /\ \A k \in DOMAIN lp' : lp'[k].ver # v /\ lp'[k].st # "reserved"
    <2>1. PICK q : q = Committed(lp)
      OBVIOUS
    <2>2. q \in Seq(LpContexts) /\ \A k \in DOMAIN q : q[k].st # "reserved"
      BY <1>00, <2>1, CommittedIs DEF TypeInv
    <2>3. PICK n \in Nat : DOMAIN q = 1 .. n
      BY <2>2
    <2>4. DOMAIN lp' = 1 .. n /\ \A k \in 1 .. n : lp'[k] = Fixed(q[k], v) /\ q[k] \in LpContexts
      BY <1>2, <2>1, <2>2, <2>3
    <2>5. \A k \in 1 .. n : lp'[k] \in LpContexts /\ lp'[k].ver # v /\ lp'[k].st # "reserved"
      BY <1>3, <2>2, <2>3, <2>4, FixedIs
    <2>6. lp' = [k \in 1 .. n |-> lp'[k]]
      BY <1>2, <2>1, <2>3, <2>4
    <2>7. lp' \in Seq(LpContexts)
      BY <2>5, <2>6, FcnSeq
    <2> QED BY <2>4, <2>5, <2>7
  <1>6. blk' \in [BlockIds -> BlockRecords] /\ \A b \in BlockIds : blk'[b].ver # v
    <2>1. \A b \in BlockIds : blk[b] \in BlockRecords
      BY <1>00, TypesAre
    <2>2. \A b \in BlockIds : blk'[b] = Fixed(blk[b], v)
      BY <1>2
    <2>3. \A b \in BlockIds : blk'[b] \in BlockRecords /\ blk'[b].ver # v
      BY <1>3, <2>1, <2>2, FixedIs
    <2>4. blk' = [b \in BlockIds |-> blk'[b]]
      BY <1>2
    <2> QED BY <2>3, <2>4
  <1>7. /\ ovs' \subseteq Buffers /\ Named(ovs')
        /\ \A p \in ovs' : p.ver # v /\ Mod(v - p.ver) <= MAX_RECOVERY_VERSION_RANGE
    <2>1. PICK f : f = [o \in ovs |-> [o EXCEPT !.q = Committed(@), !.locked = FALSE, !.fin = FALSE]]
      OBVIOUS
    <2>2. DOMAIN f = ovs /\ \A o \in ovs : f[o] \in Buffers /\ f[o].id = o.id /\ f[o].ver = o.ver
      <3> SUFFICES ASSUME NEW o \in ovs PROVE f[o] \in Buffers /\ f[o].id = o.id /\ f[o].ver = o.ver
        BY <2>1
      <3>1. o \in Buffers /\ f[o] = [o EXCEPT !.q = Committed(@), !.locked = FALSE, !.fin = FALSE]
        BY <1>00, <2>1 DEF TypeInv
      <3> QED BY <3>1, RecoveredIs
    <2>3. \A p \in ovs' : \E o \in ovs : p = f[o] /\ Mod(v - o.ver) <= MAX_RECOVERY_VERSION_RANGE
      BY <1>2, <2>1 DEF RecoveredOversize
    <2>4. ovs' \subseteq {f[o] : o \in ovs}
      BY <2>3
    <2>5. Named(ovs')
      BY <1>00, <2>2, <2>4, NamedKept DEF BufferInv
    <2>6. \A o \in ovs : o.ver # v
      BY <1>00, <1>3 DEF BufferInv, TypeInv, Buffers
    <2> QED BY <2>2, <2>3, <2>5, <2>6
  <1>8. th' \in [Threads -> ThreadRecords] /\ \A t \in Threads : th'[t] = NewThread
    BY <1>2, NewThreadIs
  <1>9. IsReader(rd') /\ rd'.cur = 0 /\ rd'.call = "idle" /\ rd'.st = "lp_buffer_reading"
    BY <1>2, <1>3, NewReaderIs
  <1>10. stage' \in Seq(BlockIds) /\ Once(stage') /\ ToSet(stage') \subseteq ToSet(stage)
    <2>1. stage \in Seq(BlockIds) /\ Once(stage)
      BY <1>00 DEF TypeInv, ListInv
    <2>2. CASE stage' = stage
      BY <2>1, <2>2
    <2>3. CASE stage' # stage
      <3>1. stage # <<>> /\ stage' = Front(stage)
        BY <1>2, <2>3
      <3> QED BY <2>1, <3>1, FrontOnce
    <2> QED BY <2>2, <2>3
  <1>11. TypeInv'
    BY <1>00, <1>2, <1>3, <1>4, <1>5, <1>6, <1>7, <1>8, <1>9, <1>10 DEF TypeInv
  <1>12. ListInv'
    <2>1. Once(used) /\ \A x \in ToSet(used) : x \notin ToSet(stage)
      BY <1>00 DEF ListInv, ToSet
    <2>2. \A i \in DOMAIN used', j \in DOMAIN stage' : used'[i] # stage'[j]
      BY <1>2, <1>10, <2>1 DEF ToSet
    <2> QED BY <1>2, <1>9, <1>10, <2>1, <2>2 DEF ListInv, Once
  <1>13. BufferInv'
    BY <1>2, <1>7 DEF BufferInv, Named
  <1>14. \A b \in Taken' : blk'[b].ver # v
    BY <1>6, <1>11 DEF TypeInv, Taken, ToSet
  <1>15. \A t \in Threads : th'[t].pc = "idle" /\ th'[t].cur = 0 /\ th'[t].wseq = 0 /\ th'[t].rseq = 0
    BY <1>8 DEF NewThread
  <1>16. Fresh'
    BY <1>2, <1>5, <1>7, <1>9, <1>11, <1>12, <1>13, <1>14, <1>15 DEF Fresh
  <1> QED BY <1>16, FreshIs, PTL

-----------------------------------------------------------------------------
(***************************************************************************)
(* The invariant is inductive.                                             *)
(***************************************************************************)
LEMMA Stutter ==
  ASSUME LbInv, UNCHANGED vars
  PROVE  LbInv'
  <1>0. Parts
    BY PartsAre
  <1>1. UNCHANGED <<version, lp, used, stage, blk, ovs, th, rd, destructed, sent, crashes>>
    BY DEF vars, files, ghosts, bounds
  <1>2. TypeInv' /\ ListInv' /\ BufferInv' /\ HeldInv' /\ ChunkInv'
    BY <1>0, <1>1 DEF Parts, TypeInv, ListInv, BufferInv, HeldInv, ChunkInv
  <1>3. SeqInv' /\ FinInv'
    BY <1>0, <1>1 DEF Parts, SeqInv, FinInv, LpLive, BlkLive, Taken, InWindow, Handed
  <1>4. OpenInv' /\ BlockInv'
    BY <1>0, <1>1 DEF Parts, OpenInv, BlockInv, Reservation, BlkLive, Taken
  <1>5. ReaderInv'
    BY <1>0, <1>1 DEF Parts, ReaderInv, Handed, Matches
  <1>6. RefInv' /\ FillInv'
    BY <1>0, <1>1 DEF Parts, RefInv, FillInv, HasRef, RefOf, LpLive, Handed, FillState
  <1>7. RecordLive'
    BY <1>0, <1>1 DEF Parts, RecordLive, Taken
  <1> QED BY <1>2, <1>3, <1>4, <1>5, <1>6, <1>7 DEF LbInv

LEMMA Inductive ==
  ASSUME LbInv, [Next]_vars
  PROVE  LbInv'
  <1>1. ASSUME NEW t \in Threads, Finish(t) PROVE LbInv'
    BY <1>1, CommitHigh, CommitLow, CommitOversize, AllocOversize DEF Finish
  <1>2. ASSUME NEW t \in Threads, Begin(t) PROVE LbInv'
    <2>1. CASE exit_destructed(t)
      <3>1. /\ destructed' /\ UNCHANGED <<version, lp, used, stage, blk, ovs, rd, sent, crashes>>
            /\ th[t].pc = "idle" /\ th' = [th EXCEPT ![t].pc = "gone", ![t].rec = "freed"]
        BY <2>1 DEF exit_destructed, files, ghosts, bounds
      <3> QED BY <3>1, AfterDestruct
    <2> QED BY <1>2, <2>1, AllocHigh, AllocRing, AllocRefused, AllocOversizeFailed, ExitBlock, StartThread DEF Begin
  <1>3. CASE read_next \/ read_chunk \/ lp_none \/ hp_take \/ hp_empty
    BY <1>3, ReadInBlock
  <1>4. CASE ReadStep
    BY <1>3, <1>4, LpTake, LpTakeOversize, LpDeregister, LpInvalid, Recycle, NextBlock, NoNextBlock DEF ReadStep
  <1>5. CASE ReturnStep
    BY <1>5, ReturnHp, ReturnLp, ReturnOversize, ReturnParent DEF ReturnStep
  <1>6. CASE destruct
    <2>1. destructed' /\ UNCHANGED <<version, lp, used, stage, blk, ovs, rd, sent, crashes>> /\ th' = th
      BY <1>6 DEF destruct, files, ghosts
    <2> QED BY <2>1, AfterDestruct
  <1>7. CASE crash
    BY <1>7, Crash
  <1>8. CASE UNCHANGED vars
    BY <1>8, Stutter
  <1> QED BY <1>1, <1>2, <1>3, <1>4, <1>5, <1>6, <1>7, <1>8 DEF Next

\* The record of a thread is not freed while anything of this version that the
\* reader may still look at names it (deregister_seq frees it at the thread's last
\* number), and the oversize buffer a thread writes into is there until its commit:
\* neither pruning (rt_read_oversize_chunk) nor recycling
\* (rt_recycle_oversize_buffers) takes it away.
THEOREM NothingAlwaysTakenAway == Spec => []NothingTakenAway
  <1>1. Init => LbInv
    BY Initially
  <1>2. LbInv /\ [Next]_vars => LbInv'
    BY Inductive
  <1>3. LbInv => NothingTakenAway
    BY DEF LbInv, HeldInv, OversizeHeld, OsIds, NothingTakenAway
  <1> QED BY <1>1, <1>2, <1>3, PTL DEF Spec

=============================================================================
