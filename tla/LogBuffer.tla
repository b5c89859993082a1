------------------------------ MODULE LogBuffer ------------------------------
(***************************************************************************)
(* log_buffer: one log's memory.  A thread's entries go through the ring   *)
(* all threads share (lp_buffer_), through blocks of its own (hp_buffer_)  *)
(* or, when they are too big for both, through an oversize buffer behind a *)
(* reference in the shared ring.  One reader puts them together again by   *)
(* the sequence number in every context_head, and after a crash it reads   *)
(* what the mapped files hold of the two versions before.                  *)
(*                                                                         *)
(* MisoRing, SisoRing and GroupList have the rings and the lists in        *)
(* detail; here a ring is a sequence of what it holds and the groups are   *)
(* one group.  The clock decides which way an entry takes and whether an   *)
(* oversize buffer is old, the policy what a full ring means: free choices *)
(* of every call.                                                          *)
(***************************************************************************)
EXTENDS Integers, Sequences, FiniteSets, SequencesExt, FiniteSetsExt

CONSTANTS
    Threads,     \* the addresses of the threads' records (log_tls_buffer_info)
    LpCap,       \* entries the shared ring holds
    HpCap,       \* entries a block holds
    Blocks,      \* bound: blocks at a time, 1 .. Blocks
    OsCap,       \* entries an oversize buffer holds
    Versions,    \* number of versions, in the code 2^16
    FirstVersion,\* version_ of the first run
    MaxWrites,   \* bound: entries of all threads over all runs
    MaxBig,      \* bound: how many of them may be oversize
    MaxRare,     \* bound: threads that end, blocks that are to be left, ends of
                 \* the log
    MaxTrouble,  \* bound: those, oversize entries and crashes together
    MaxCrashes   \* bound: crashes

ASSUME LogBufferAssumption ==
    /\ Threads # {}
    /\ LpCap \in Nat \ {0} /\ HpCap \in Nat \ {0} /\ Blocks \in Nat
    /\ Versions \in Nat /\ Versions > 4 /\ FirstVersion \in 0 .. Versions - 1
    /\ MaxWrites \in Nat /\ MaxCrashes \in Nat

MAX_RECOVERY_VERSION_RANGE == 2

VARIABLES
    version,     \* version_: the saved version, one more with every start
    lp,          \* lp_buffer_: contexts, each reserved or used
    used, stage, \* the lists of the group's blocks, and
    blk,         \* the blocks: context, entries, marks
    ovs,         \* buffers_array_ of the oversize buffers
    th,          \* the threads and their records
    rd,          \* current_reading_ and mem_optimize_
    destructed,  \* destruction_mark::is_destructed_
    sent, got, back, \* ghosts: entries of a run's thread allocated, read, given back
    due,         \* ghost: entries the last recovery found whole
    quiet,       \* ghost: no thread was at work since the call of read_chunk began
    writes, bigs, rare, crashes

files == <<version, lp, used, stage, blk, ovs>>
ghosts == <<sent, got, back, due, quiet>>
bounds == <<writes, bigs, rare, crashes>>
vars == <<files, th, rd, destructed, ghosts, bounds>>

MayTrouble == rare + bigs + crashes < MaxTrouble
MayRare == rare < MaxRare /\ MayTrouble
MayBig == bigs < MaxBig /\ MayTrouble
MayCrash == crashes < MaxCrashes /\ MayTrouble

Mod(n) == n % Versions
NoRecord == [t \in Threads |-> -1]
BlockIds == 1 .. Blocks

\* a thread that holds no record yet, and one that has just made it
NewThread == [pc |-> "idle", cur |-> 0, wseq |-> 0, rseq |-> 0, target |-> 0, rec |-> "live"]

\* the entry that thread t is about to write
Entry(t) == [run |-> crashes, tls |-> t, n |-> sent[crashes][t] + 1]


Taken == ToSet(used) \cup ToSet(stage)
FreeBlock == CHOOSE b \in BlockIds \ Taken : \A c \in BlockIds \ Taken : b <= c

-----------------------------------------------------------------------------
(***************************************************************************)
(* What the reader thinks of a context.  tls and records are passed in,    *)
(* because the reader may have moved them in the same step.                *)
(***************************************************************************)
is_version_valid(v) == Mod(version - v) <= Mod(version - rd.ver)

Compare(seq, expected) ==
    IF seq = expected THEN "valid"
    ELSE IF seq < expected THEN "seq_invalid" ELSE "seq_pending"

\* Where the records of a version before this one are: 0 the last, 1 the one before
Age(v) == Mod(version - 1 - v)

verify_context_any_seq(c, tls, records) ==
    IF c.ver = rd.ver THEN "valid"
    ELSE IF is_version_valid(c.ver) THEN "version_pending" ELSE "version_invalid"

verify_context(c, tls, records) ==
    IF c.ver = rd.ver
    THEN IF c.ver = version THEN Compare(c.seq, tls[c.tls].rseq)
         ELSE Compare(c.seq, records[Age(c.ver)][c.tls])
    ELSE IF is_version_valid(c.ver) THEN "version_pending" ELSE "version_invalid"

Verify(c) == verify_context(c, th, rd.records)
Invalid(v) == v \in {"version_invalid", "seq_invalid"}

\* deregister_seq: the thread's next entry is expected, or its record is freed
DeregisteredTls(c) ==
    IF c.ver # version THEN th
    ELSE IF c.fin THEN [th EXCEPT ![c.tls].rec = "freed"]
    ELSE [th EXCEPT ![c.tls].rseq = @ + 1]

DeregisteredRecords(c) ==
    IF c.ver = version THEN rd.records
    ELSE [rd.records EXCEPT ![Age(c.ver)][c.tls] = @ + 1]

\* refresh_traverse_end_mark
EndMark(r) ==
    IF r.gone /\ r.cur # 0 THEN [r EXCEPT !.endWorks = FALSE]
    ELSE [r EXCEPT !.endWorks = TRUE, !.end = r.cur]

\* rt_try_traverse_to_next_version
NextVersion(r) ==
    [r EXCEPT !.records[Age(r.ver)] = NoRecord, !.ver = Mod(r.ver + 1)]

Deregister(c, r) == EndMark([r EXCEPT !.records = DeregisteredRecords(c)])

-----------------------------------------------------------------------------
(***************************************************************************)
(* Writing.                                                                *)
(***************************************************************************)
MayWrite(t) == th[t].pc = "idle" /\ ~destructed /\ th[t].rec = "live"

Removed(b) == [blk EXCEPT ![b].removed = TRUE]

\* mark_block_removed on the block a thread holds, if it holds one
LeaveBlock(t) == IF th[t].cur = 0 THEN blk ELSE Removed(th[t].cur)

\* alloc_new_hp_block: the block stands for one sequence number of its thread,
\* and whatever is written into it has that one
Blank == [ver |-> 0, tls |-> CHOOSE t \in Threads : TRUE, seq |-> 0,
          fin |-> FALSE, removed |-> FALSE, realloc |-> FALSE, q |-> <<>>]

NewBlock(t, blocks) ==
    [blocks EXCEPT ![FreeBlock] =
        [Blank EXCEPT !.ver = version, !.tls = t, !.seq = th[t].wseq]]

alloc_new_hp_block(t) ==
    /\ Taken # BlockIds
    /\ blk' = NewBlock(t, LeaveBlock(t))
    /\ stage' = Append(stage, FreeBlock)
    /\ th' = [th EXCEPT ![t].cur = FreeBlock, ![t].wseq = @ + 1, ![t].pc = "hp"]

\* alloc_write_chunk at a high rate: into the thread's block, or into a new one
\* when it has none, when the reader wants it to move, or when it is full.  (With
\* a policy that does not expand the call fails when it is full.)
NeedsBlock(t) ==
    th[t].cur # 0 => LET b == blk[th[t].cur]
                     IN  b.realloc \/ Len(b.q) = HpCap

Allocated(t) ==
    /\ writes < MaxWrites /\ writes' = writes + 1
    /\ sent' = [sent EXCEPT ![crashes][t] = @ + 1]
    /\ quiet' = FALSE
    /\ UNCHANGED <<version, rd, destructed, got, back, due, rare, crashes>>

alloc_high(t) ==
    /\ MayWrite(t)
    /\ \/ NeedsBlock(t) /\ alloc_new_hp_block(t)
       \/ /\ ~NeedsBlock(t)
          /\ th' = [th EXCEPT ![t].pc = "hp"]
          /\ UNCHANGED <<stage, blk>>
    /\ Allocated(t)
    /\ UNCHANGED <<lp, used, ovs, bigs>>

\* its context_head, with the next sequence number of its thread
LpHead(t, ext, fin) ==
    [ver |-> version, tls |-> t, seq |-> th[t].wseq, fin |-> fin, ext |-> ext,
     st |-> "reserved", e |-> Entry(t)]

\* alloc_write_chunk at a low rate: into the shared ring; a block that is still
\* held is left
alloc_low(t) ==
    /\ MayWrite(t) /\ Len(lp) < LpCap
    /\ lp' = Append(lp, LpHead(t, FALSE, FALSE))
    /\ blk' = LeaveBlock(t)
    /\ th' = [th EXCEPT ![t].wseq = @ + 1, ![t].cur = 0, ![t].pc = "lp"]
    /\ Allocated(t)
    /\ UNCHANGED <<used, stage, ovs, bigs>>

\* ... which is full: a policy that expands writes at the high rate instead; with
\* the others, and for an oversize entry, the call fails, but the block has been
\* left.
alloc_refused(t) ==
    /\ MayWrite(t) /\ Len(lp) = LpCap /\ th[t].cur # 0
    /\ blk' = LeaveBlock(t)
    /\ th' = [th EXCEPT ![t].cur = 0]
    /\ quiet' = FALSE
    /\ UNCHANGED <<version, lp, used, stage, ovs, rd, destructed, sent, got, back, due, bounds>>

\* wt_alloc_oversize_write_chunk: first the reference in the shared ring
alloc_oversize_parent(t) ==
    /\ MayWrite(t) /\ MayBig /\ Len(lp) < LpCap /\ writes < MaxWrites
    /\ lp' = Append(lp, LpHead(t, TRUE, FALSE))
    /\ blk' = LeaveBlock(t)
    /\ th' = [th EXCEPT ![t].wseq = @ + 1, ![t].cur = 0, ![t].pc = "os"]
    /\ writes' = writes + 1 /\ bigs' = bigs + 1 /\ quiet' = FALSE
    /\ UNCHANGED <<version, used, stage, ovs, rd, destructed, sent, got, back, due,
                   rare, crashes>>

\* the room an entry takes in an oversize buffer; its number is its reference's
Chunk(t) ==
    [ver |-> version, tls |-> t, seq |-> th[t].wseq - 1, st |-> "reserved", e |-> Entry(t)]

\* an oversize buffer of thread t that has room
RoomFor(t, o) == o.ver = version /\ o.tls = t /\ ~o.fin /\ Len(o.q) < OsCap
OsIds == {o.id : o \in ovs}
NewId == CHOOSE i \in 1 .. Cardinality(ovs) + 1 : i \notin OsIds

OversizeStep(t, o, pc) ==
    /\ th' = [th EXCEPT ![t].pc = pc, ![t].target = o.id]
    /\ sent' = [sent EXCEPT ![crashes][t] = @ + 1]
    /\ UNCHANGED <<version, lp, used, stage, blk, rd, destructed, got, back, due, quiet, bounds>>

\* ... then room in a buffer the thread made earlier: read locked until the commit
alloc_oversize(t) ==
    /\ th[t].pc = "os"
    /\ \E o \in ovs :
        /\ RoomFor(t, o)
        /\ ovs' = (ovs \ {o}) \cup {[o EXCEPT !.q = Append(@, Chunk(t)), !.locked = TRUE]}
        /\ OversizeStep(t, o, "filled")

\* ... or in one made for it, twice its size
alloc_oversize_new(t) ==
    /\ th[t].pc = "os"
    /\ \A o \in ovs : ~RoomFor(t, o)
    /\ LET o == [id |-> NewId, ver |-> version, tls |-> t, q |-> <<Chunk(t)>>,
                 fin |-> FALSE, locked |-> TRUE]
       IN  ovs' = ovs \cup {o} /\ OversizeStep(t, o, "filled")

\* ... which fails: the sequence number is taken back and the reference gets a
\* version that no reader accepts
alloc_oversize_failed(t) ==
    /\ th[t].pc = "os"
    /\ \A o \in ovs : ~RoomFor(t, o)
    /\ LET i == CHOOSE k \in DOMAIN lp : lp[k].tls = t /\ lp[k].st = "reserved"
       IN  lp' = [lp EXCEPT ![i].ver = Mod(version + 1), ![i].st = "used"]
    /\ th' = [th EXCEPT ![t].pc = "idle", ![t].wseq = @ - 1]
    /\ UNCHANGED <<version, used, stage, blk, ovs, rd, destructed, ghosts, bounds>>

\* commit_write_chunk
CommitLp(t) ==
    lp' = [k \in DOMAIN lp |->
             IF lp[k].tls = t /\ lp[k].st = "reserved" THEN [lp[k] EXCEPT !.st = "used"] ELSE lp[k]]

commit_high(t) ==
    /\ th[t].pc = "hp"
    /\ blk' = [blk EXCEPT ![th[t].cur].q = Append(@, [run |-> crashes, tls |-> t, n |-> sent[crashes][t]])]
    /\ th' = [th EXCEPT ![t].pc = "idle"]
    /\ UNCHANGED <<version, lp, used, stage, ovs, rd, destructed, ghosts, bounds>>

commit_low(t) ==
    /\ th[t].pc \in {"lp", "ref"}
    /\ CommitLp(t)
    /\ th' = [th EXCEPT ![t].pc = "idle"]
    /\ UNCHANGED <<version, used, stage, blk, ovs, rd, destructed, ghosts, bounds>>

\* wt_commit_oversize_write_chunk: the entry, the lock, and then the reference
commit_oversize(t) ==
    /\ th[t].pc = "filled"
    /\ ovs' = {IF o.id = th[t].target
               THEN [o EXCEPT !.locked = FALSE,
                              !.q = [k \in DOMAIN @ |-> [@[k] EXCEPT !.st = "used"]]]
               ELSE o : o \in ovs}
    /\ th' = [th EXCEPT ![t].pc = "ref", ![t].target = 0]
    /\ UNCHANGED <<version, lp, used, stage, blk, rd, destructed, ghosts, bounds>>

-----------------------------------------------------------------------------
(***************************************************************************)
(* A thread ends (~log_tls_info) or the log does (~log_buffer).            *)
(***************************************************************************)
FinishedOversize(t) == {[o EXCEPT !.fin = @ \/ (o.tls = t /\ o.ver = version)] : o \in ovs}

\* The last thing a thread has is its block: the block carries the mark
exit_block(t) ==
    /\ MayWrite(t) /\ MayRare /\ th[t].cur # 0
    /\ ovs' = FinishedOversize(t)
    /\ blk' = [Removed(th[t].cur) EXCEPT ![th[t].cur].fin = TRUE]
    /\ th' = [th EXCEPT ![t].pc = "gone"]
    /\ rare' = rare + 1 /\ quiet' = FALSE
    /\ UNCHANGED <<version, lp, used, stage, rd, destructed, sent, got, back, due,
                   writes, bigs, crashes>>

\* ... or it puts a mark into the shared ring, and waits for the room it takes
exit_mark(t) ==
    /\ MayWrite(t) /\ MayRare /\ th[t].cur = 0 /\ Len(lp) < LpCap
    /\ ovs' = FinishedOversize(t)
    /\ lp' = Append(lp, LpHead(t, FALSE, TRUE))
    /\ th' = [th EXCEPT ![t].pc = "exit", ![t].wseq = @ + 1]
    /\ rare' = rare + 1 /\ quiet' = FALSE
    /\ UNCHANGED <<version, used, stage, blk, rd, destructed, sent, got, back, due,
                   writes, bigs, crashes>>

exit_commit(t) ==
    /\ th[t].pc = "exit"
    /\ CommitLp(t)
    /\ th' = [th EXCEPT ![t].pc = "gone"]
    /\ UNCHANGED <<version, used, stage, blk, ovs, rd, destructed, ghosts, bounds>>

\* ... or frees its record itself, when the log is gone
exit_destructed(t) ==
    /\ destructed /\ th[t].pc = "idle"
    /\ th' = [th EXCEPT ![t].pc = "gone", ![t].rec = "freed"]
    /\ UNCHANGED <<files, rd, destructed, ghosts, bounds>>

\* get_buffer_info in a new thread, whose record gets the address of a freed one
start_thread(t) ==
    /\ th[t].pc = "gone" /\ th[t].rec = "freed" /\ ~destructed
    /\ th' = [th EXCEPT ![t] = NewThread]
    /\ UNCHANGED <<files, rd, destructed, ghosts, bounds>>

destruct ==
    /\ ~destructed /\ rd.call = "idle" /\ MayRare
    /\ \A t \in Threads : th[t].pc \in {"idle", "gone"}
    /\ destructed' = TRUE
    /\ rare' = rare + 1
    /\ UNCHANGED <<files, th, rd, ghosts, writes, bigs, crashes>>

-----------------------------------------------------------------------------
(***************************************************************************)
(* Reading: read_chunk hands out a chunk, return_read_chunk takes it back. *)
(* read_chunk_full_impl is a loop over the states in rd.st; a turn is an   *)
(* action, together with the turns behind it that only the reader sees     *)
(* (next_group_finding and traversal_completed).                           *)
(***************************************************************************)
Reading(st) == rd.call = "busy" /\ rd.st = st

HandOut(r, hand, e) ==
    /\ rd' = [r EXCEPT !.call = "handed", !.hand = hand, !.e = e]
    /\ got' = [got EXCEPT ![e.run][e.tls] = e.n]
    /\ due' = due \ {e}

\* the rest of a batch is handed out without looking at anything else
read_next ==
    /\ rd.call = "idle" /\ rd.at < rd.batch
    /\ HandOut([rd EXCEPT !.at = @ + 1], "hp", blk[rd.cur].q[rd.at + 1])
    /\ UNCHANGED <<files, th, destructed, sent, back, quiet, bounds>>

\* ghost: the call before this one found nothing and nothing was written since
SaidEmpty == rd.call = "idle" /\ rd.hand = "empty" /\ quiet

read_chunk ==
    /\ rd.call = "idle" /\ rd.at = rd.batch /\ ~destructed
    /\ rd' = [EndMark(rd) EXCEPT !.call = "busy", !.hand = "none", !.again = quiet /\ (@ \/ rd.hand = "empty"), !.laps = 0, !.at = 0, !.batch = 0]
    /\ quiet' = \A t \in Threads : th[t].pc \in {"idle", "gone"}
    /\ UNCHANGED <<files, th, destructed, sent, got, back, due, bounds>>

\* rt_try_traverse_to_next_group: there is one ...
NextGroup(r) == [r EXCEPT !.st = "next_block_finding"]

LpReady == lp # <<>> /\ Head(lp).st = "used"
LpVerdict == Verify(Head(lp))

\* rt_read_from_lp_buffer finds nothing, or nothing whose turn it is
lp_none ==
    /\ Reading("lp_buffer_reading")
    /\ LpReady => LpVerdict \in {"seq_pending", "version_pending"}
    /\ LET r == [rd EXCEPT !.laps = IF quiet THEN @ + 1 ELSE 0]
       IN  rd' = IF ovs = {} THEN NextGroup(r) ELSE [r EXCEPT !.st = "recycle"]
    /\ UNCHANGED <<files, th, destructed, ghosts, bounds>>

lp_take ==
    /\ Reading("lp_buffer_reading") /\ LpReady /\ LpVerdict = "valid"
    /\ ~Head(lp).fin /\ ~Head(lp).ext
    /\ HandOut(rd, "lp", Head(lp).e)
    /\ UNCHANGED <<files, th, destructed, sent, back, quiet, bounds>>

\* rt_read_oversize_chunk: the buffers of the reference's thread and version,
\* without what is older than the reference
Matches(o, c) == o.ver = c.ver /\ o.tls = c.tls
Since(q, kept) == IF kept = {} THEN <<>> ELSE SubSeq(q, Min(kept), Len(q))
Pruned(o, c) ==
    LET young == {k \in DOMAIN o.q : o.q[k].st = "reserved" \/ o.q[k].seq >= c.seq}
    IN  [o EXCEPT !.q = Since(o.q, young)]
Holds(o, c) == o.q # <<>> /\ Head(o.q).st = "used" /\ Head(o.q).seq = c.seq
Targets(c) == {o \in ovs : Matches(o, c) /\ Holds(Pruned(o, c), c)}
PrunedAll(os, c) == {IF o \in os THEN Pruned(o, c) ELSE o : o \in ovs}

\* The search ends at the buffer that holds the entry; which of the others are in
\* front of it is open.
lp_take_oversize ==
    /\ Reading("lp_buffer_reading") /\ LpReady /\ LpVerdict = "valid"
    /\ ~Head(lp).fin /\ Head(lp).ext
    /\ \E o \in Targets(Head(lp)) :
        /\ HandOut([rd EXCEPT !.target = o.id], "os", Head(Pruned(o, Head(lp)).q).e)
        /\ \E os \in SUBSET {p \in ovs \ {o} : Matches(p, Head(lp))} :
              ovs' = PrunedAll(os \cup {o}, Head(lp))
    /\ UNCHANGED <<version, lp, used, stage, blk, th, destructed, sent, back, quiet, bounds>>

\* ... a mark of an ended thread, or a reference whose entry is lost
lp_deregister ==
    /\ Reading("lp_buffer_reading") /\ LpReady /\ LpVerdict = "valid"
    /\ LET c == Head(lp)
       IN  /\ \/ c.fin /\ UNCHANGED ovs
              \/ ~c.fin /\ c.ext /\ Targets(c) = {}
                 /\ ovs' = PrunedAll({o \in ovs : Matches(o, c)}, c)
           /\ th' = DeregisteredTls(c) /\ rd' = Deregister(c, rd)
    /\ lp' = Tail(lp)
    /\ UNCHANGED <<version, used, stage, blk, destructed, ghosts, bounds>>

lp_invalid ==
    /\ Reading("lp_buffer_reading") /\ LpReady /\ Invalid(LpVerdict)
    /\ lp' = Tail(lp)
    /\ UNCHANGED <<version, used, stage, blk, ovs, th, rd, destructed, ghosts, bounds>>

\* rt_recycle_oversize_buffers.  The verdict on an entry of an old version whose
\* thread left no other trace is read through an end iterator: any.
Unknown(c) == c.ver = rd.ver /\ c.ver # version /\ rd.records[Age(c.ver)][c.tls] = -1
Unlocked_blind(o) == o.id # rd.target
Unlocked(o) == ~o.locked /\ o.id # rd.target
Recycled(o, guess) ==
    LET Stays(c) == IF Unknown(c) THEN ~guess ELSE ~Invalid(Verify(c))
        kept == {k \in DOMAIN o.q : o.q[k].st = "used" /\ Stays(o.q[k])}
    IN  [o EXCEPT !.q = Since(o.q, kept)]

recycle_oversize_buffers ==
    /\ Reading("recycle")
    /\ rd' = NextGroup(rd)
    /\ \E old \in BOOLEAN, guess \in BOOLEAN :
        IF old THEN LET seen == {IF Unlocked(o) THEN Recycled(o, guess) ELSE o : o \in ovs}
                    IN  ovs' = {o \in seen : Unlocked(o) => o.q # <<>>}
        ELSE UNCHANGED ovs
    /\ UNCHANGED <<version, lp, used, stage, blk, th, destructed, ghosts, bounds>>

\* hp_block_reading: everything the block has now becomes a batch
hp_take ==
    /\ Reading("hp_block_reading") /\ blk[rd.cur].q # <<>>
    /\ HandOut([rd EXCEPT !.batch = Len(blk[rd.cur].q), !.at = 1], "hp", Head(blk[rd.cur].q))
    /\ UNCHANGED <<files, th, destructed, sent, back, quiet, bounds>>

hp_empty ==
    /\ Reading("hp_block_reading") /\ blk[rd.cur].q = <<>>
    /\ rd' = [rd EXCEPT !.st = "next_block_finding"]
    /\ UNCHANGED <<files, th, destructed, ghosts, bounds>>

\* rt_try_traverse_to_next_block_in_group, and what the loop does with the result
Place(b) == CHOOSE k \in DOMAIN used : used[k] = b
Following(b) ==
    LET i == IF b = 0 THEN 0 ELSE Place(b)
    IN  IF i < Len(used) THEN used[i + 1] ELSE IF stage # <<>> THEN Last(stage) ELSE 0

\* the block the reader comes from is left for good
Leaves == rd.cur # 0 /\ rd.gone
Passed == Leaves /\ rd.verify = "valid"

\* the call returns an empty chunk, which is given back without effect; the next
\* call goes on here
TraversalCompleted(r) ==
    [r EXCEPT !.call = "idle", !.hand = "empty",
              !.st = IF r.cur # 0 THEN "hp_block_reading" ELSE "lp_buffer_reading"]

\* the rest of the turn, for a block judged v by reader r
Arrive(r, v) ==
    LET seqPending == v = "seq_pending" /\ r.ver = version
        atEnd == ~seqPending /\ r.endWorks /\ r.end = r.cur
        done == atEnd /\ r.ver = version
        marked == IF seqPending THEN [r EXCEPT !.endWorks = FALSE]
                  ELSE IF atEnd THEN IF done THEN TraversalCompleted(r) ELSE NextVersion(r)
                  ELSE IF ~r.endWorks /\ ~r.gone THEN [r EXCEPT !.endWorks = TRUE, !.end = r.cur]
                  ELSE r
    IN  IF v = "valid" /\ ~done THEN [marked EXCEPT !.st = "hp_block_reading"] ELSE marked

IsGone_late(v, b) == Invalid(v)
IsGone(v, b) == (v = "valid" /\ (blk[b].removed \/ blk[b].ver # version)) \/ Invalid(v)

PassedBlock == IF Passed THEN Deregister(blk[rd.cur], rd) ELSE rd
PassedBlocks == IF Leaves THEN [blk EXCEPT ![rd.cur] = Blank] ELSE blk
PassedTls == IF Passed THEN DeregisteredTls(blk[rd.cur]) ELSE th
LastBlock == IF ~Leaves THEN rd.cur ELSE rd.last
Lists(b) ==
    /\ stage' = IF b # 0 /\ b \in ToSet(stage) THEN Front(stage) ELSE stage
    /\ used' = LET all == IF b # 0 /\ b \notin ToSet(used) THEN Append(used, b) ELSE used
               IN  IF Leaves THEN RemoveAt(all, Place(rd.cur)) ELSE all

next_block ==
    /\ Reading("next_block_finding")
    /\ LET b == Following(rd.cur)
           v == verify_context(blk[b], PassedTls, PassedBlock.records)
       IN  /\ b # 0 /\ Lists(b)
           /\ rd' = Arrive([PassedBlock EXCEPT !.cur = b, !.last = LastBlock,
                                               !.gone = IsGone(v, b), !.verify = v], v)
           \* holes in the groups before this one: its thread is asked to move
           /\ \E move \in 0 .. 1 :
                 /\ move = 1 => MayRare
                 /\ rare' = rare + move
                 /\ blk' = [PassedBlocks EXCEPT ![b].realloc = @ \/ move = 1]
    /\ th' = PassedTls
    /\ UNCHANGED <<version, lp, ovs, destructed, ghosts, writes, bigs, crashes>>

\* ... and behind it none: the shared ring is next, or the walk is complete
NoNextGroup_unmarked(r) ==
    LET q == [r EXCEPT !.st = "lp_buffer_reading", !.cur = 0, !.last = 0]
    IN  IF ~q.endWorks \/ q.end # 0 THEN q
        ELSE IF q.ver = version THEN TraversalCompleted(q)
        ELSE NextVersion(q)

NoNextGroup(r) ==
    LET q == [r EXCEPT !.st = "lp_buffer_reading", !.cur = 0, !.last = 0]
    IN  IF ~q.endWorks THEN [q EXCEPT !.endWorks = TRUE, !.end = 0]
        ELSE IF q.end # 0 THEN q
        ELSE IF q.ver = version THEN TraversalCompleted(q)
        ELSE NextVersion(q)

no_next_block ==
    /\ Reading("next_block_finding") /\ Following(rd.cur) = 0
    /\ Lists(0)
    /\ rd' = NoNextGroup([PassedBlock EXCEPT !.gone = FALSE, !.verify = "version_invalid"])
    /\ th' = PassedTls /\ blk' = PassedBlocks
    /\ UNCHANGED <<version, lp, ovs, destructed, ghosts, bounds>>

\* return_read_chunk
Returned == [back EXCEPT ![rd.e.run][rd.e.tls] = rd.e.n]
Handed(hand) == rd.call = "handed" /\ rd.hand = hand

return_hp ==
    /\ Handed("hp")
    /\ rd' = [rd EXCEPT !.call = "idle"]
    /\ IF rd.at < rd.batch THEN UNCHANGED <<blk, back>>
       ELSE /\ blk' = [blk EXCEPT ![rd.cur].q = SubSeq(@, rd.batch + 1, Len(@))]
            /\ back' = Returned
    /\ UNCHANGED <<version, lp, used, stage, ovs, th, destructed, sent, got, due, quiet, bounds>>

return_lp ==
    /\ Handed("lp")
    /\ th' = DeregisteredTls(Head(lp))
    /\ rd' = [Deregister(Head(lp), rd) EXCEPT !.call = "idle"]
    /\ lp' = Tail(lp) /\ back' = Returned
    /\ UNCHANGED <<version, used, stage, blk, ovs, destructed, sent, got, due, quiet, bounds>>

\* rt_return_oversize_read_chunk: the entry, then the reference
return_oversize ==
    /\ Handed("os")
    /\ th' = DeregisteredTls(Head(lp))
    /\ rd' = [Deregister(Head(lp), rd) EXCEPT !.hand = "ref"]
    /\ ovs' = {IF o.id = rd.target THEN [o EXCEPT !.q = Tail(@)] ELSE o : o \in ovs}
    /\ back' = Returned
    /\ UNCHANGED <<version, lp, used, stage, blk, destructed, sent, got, due, quiet, bounds>>

return_parent ==
    /\ Handed("ref")
    /\ lp' = Tail(lp)
    /\ rd' = [rd EXCEPT !.call = "idle"]
    /\ UNCHANGED <<version, used, stage, blk, ovs, th, destructed, ghosts, bounds>>

-----------------------------------------------------------------------------
(***************************************************************************)
(* The process is killed and started again: the rings, the lists and the   *)
(* oversize files are what they were, less what no commit had reached.     *)
(***************************************************************************)
NewReader(v, records) ==
    [call |-> "idle", st |-> "lp_buffer_reading", hand |-> "none", again |-> FALSE, laps |-> 0, e |-> [run |-> 0],
     cur |-> 0, last |-> 0, ver |-> Mod(v - MAX_RECOVERY_VERSION_RANGE),
     records |-> records, endWorks |-> FALSE, end |-> 0, gone |-> FALSE,
     verify |-> "version_invalid", batch |-> 0, at |-> 0, target |-> 0]

\* A ring's recovery keeps what is in front of the first reservation that was not
\* committed
Committed(q) ==
    LET open == {k \in DOMAIN q : q[k].st = "reserved"}
    IN  IF open = {} THEN q ELSE SubSeq(q, 1, Min(open) - 1)

\* a context that carries the new version by accident is made invalid
Fixed(c, v) == IF c.ver = v THEN [c EXCEPT !.ver = Mod(v + 1)] ELSE c

Contexts(l, ids) == ToSet(l) \cup {blk[b] : b \in ids}

\* prepare_and_fix_recovery_data: the smallest number of every thread and version
MinSeqs_last(cs, v) ==
    [age \in 0 .. MAX_RECOVERY_VERSION_RANGE - 1 |-> [t \in Threads |->
        LET seqs == {c.seq : c \in {d \in cs : d.tls = t /\ d.ver = Mod(v - 1 - age)}}
        IN  IF seqs = {} THEN -1 ELSE Max(seqs)]]

MinSeqs(cs, v) ==
    [age \in 0 .. MAX_RECOVERY_VERSION_RANGE - 1 |-> [t \in Threads |->
        LET seqs == {c.seq : c \in {d \in cs : d.tls = t /\ d.ver = Mod(v - 1 - age)}}
        IN  IF seqs = {} THEN -1 ELSE Min(seqs)]]

RecoveredOversize(v) ==
    {[o EXCEPT !.q = Committed(@), !.locked = FALSE, !.fin = FALSE] :
        o \in {p \in ovs : Mod(v - p.ver) <= MAX_RECOVERY_VERSION_RANGE}}

\* What the next life owes: a version's entries, if none of its threads misses one
Whole(cs, v) ==
    \A c \in cs : c.ver = v => \A s \in MinSeqs(cs, Mod(v + 1))[0][c.tls] .. c.seq :
        \E d \in cs : d.ver = v /\ d.tls = c.tls /\ d.seq = s

Owed(l, ids, os, v) ==
    LET cs == Contexts(l, ids)
        old == {Mod(v - 1 - age) : age \in 0 .. MAX_RECOVERY_VERSION_RANGE - 1}
        whole == {w \in old : Whole(cs, w)}
        direct == {l[k].e : k \in {i \in DOMAIN l : l[i].ver \in whole /\ ~l[i].fin /\ ~l[i].ext}}
        refs == {l[k] : k \in {i \in DOMAIN l : l[i].ver \in whole /\ l[i].ext}}
        big == UNION {{o.q[k].e : k \in DOMAIN o.q} : o \in os}
    IN  direct \cup {c.e : c \in {r \in refs : r.e \in big}}
               \cup UNION {ToSet(blk[b].q) : b \in {i \in ids : blk[i].ver \in whole}}

\* The reader may have had the block on top of the stage list in its hands
crash ==
    /\ MayCrash /\ crashes' = crashes + 1
    /\ \E kept \in {stage} \cup (IF Reading("next_block_finding") /\ stage # <<>>
                                  THEN {Front(stage)} ELSE {}) :
        LET v == Mod(version + 1)
            ids == ToSet(used) \cup ToSet(kept)
            l == [k \in DOMAIN Committed(lp) |-> Fixed(Committed(lp)[k], v)]
        IN  /\ version' = v /\ lp' = l /\ stage' = kept
            /\ blk' = [b \in BlockIds |-> Fixed(blk[b], v)]
            /\ ovs' = RecoveredOversize(v)
            /\ rd' = NewReader(v, MinSeqs(Contexts(l, ids), v))
            /\ due' = Owed(l, ids, RecoveredOversize(v), v)
    /\ th' = [t \in Threads |-> NewThread]
    /\ destructed' = FALSE /\ quiet' = FALSE
    /\ got' = back
    /\ UNCHANGED <<used, sent, back, writes, bigs, rare>>

-----------------------------------------------------------------------------
NoneYet == [r \in 0 .. MaxCrashes |-> [t \in Threads |-> 0]]

\* The files are new and the reader has passed the versions before
Init ==
    /\ version = FirstVersion
    /\ lp = <<>> /\ used = <<>> /\ stage = <<>> /\ ovs = {}
    /\ blk = [b \in BlockIds |-> Blank]
    /\ th = [t \in Threads |-> NewThread]
    /\ rd = [NewReader(FirstVersion, [age \in 0 .. MAX_RECOVERY_VERSION_RANGE - 1 |-> NoRecord])
                EXCEPT !.ver = FirstVersion, !.endWorks = TRUE]
    /\ destructed = FALSE /\ due = {} /\ quiet = FALSE
    /\ sent = NoneYet /\ got = NoneYet /\ back = NoneYet
    /\ writes = 0 /\ bigs = 0 /\ rare = 0 /\ crashes = 0

Finish(t) ==
    \/ commit_high(t) \/ commit_low(t) \/ commit_oversize(t) \/ exit_commit(t)
    \/ alloc_oversize(t) \/ alloc_oversize_new(t)

Begin(t) ==
    \/ alloc_high(t) \/ alloc_low(t) \/ alloc_refused(t) \/ alloc_oversize_parent(t)
    \/ alloc_oversize_failed(t) \/ exit_block(t) \/ exit_mark(t) \/ exit_destructed(t)
    \/ start_thread(t)

ReadStep ==
    \/ lp_none \/ lp_take \/ lp_take_oversize \/ lp_deregister \/ lp_invalid
    \/ recycle_oversize_buffers \/ hp_take \/ hp_empty \/ next_block \/ no_next_block

ReturnStep == return_hp \/ return_lp \/ return_oversize \/ return_parent

Next ==
    \/ \E t \in Threads : Finish(t) \/ Begin(t)
    \/ read_next \/ read_chunk \/ ReadStep \/ ReturnStep
    \/ destruct \/ crash

Spec == Init /\ [][Next]_vars

-----------------------------------------------------------------------------
(***************************************************************************)
(* Properties.                                                             *)
(***************************************************************************)
MaxLaps == 3

Delivers == rd'.call = "handed" /\ rd.call # "handed" /\ rd'.hand # "empty"

\* Whichever way the entries of a thread took, the reader hands each out once
\* and in the thread's order: in this life every one, of the lives before it
\* those that survived; and nothing of a life while it owes one of an earlier.
InOrder ==
    [][Delivers => LET e == rd'.e
                       last == got[e.run][e.tls]
                   IN  /\ IF e.run = crashes THEN e.n = last + 1 ELSE e.n > last
                       /\ \A d \in due : d.run >= e.run]_vars

\* What recovery found whole is handed out before the reader gives up the
\* version it belongs to.
RecoveredAllRead == \A e \in due : is_version_valid(Mod(FirstVersion + e.run))

AllRead == lp = <<>> /\ \A b \in Taken : blk[b].q = <<>>

\* A flush (log_imp::process) reads until read_chunk says that there is nothing:
\* then everything committed before the call is read.
FlushReadsAll == SaidEmpty => AllRead

\* It is not so when the reader stops at a block: one that its thread left after
\* the reader had come to it, or one it came to while it read older versions.
\* What is left then is read by the next calls: once a call has found nothing
\* and nobody is at work, the next one that finds nothing means that there is
\* nothing, whatever was read between them.
EmptyMeansRead == SaidEmpty /\ rd.again => AllRead

\* The record of a thread is there as long as the reader can look at it, that
\* is while anything of this version names it; nobody else frees it before the
\* log itself is gone.
RecordLive ==
    ~destructed =>
        /\ \A b \in Taken : blk[b].ver = version => th[blk[b].tls].rec = "live"
        /\ \A k \in DOMAIN lp : lp[k].ver = version => th[lp[k].tls].rec = "live"
        /\ \A o \in ovs : o.ver = version /\ o.q # <<>> => th[o.tls].rec = "live"

\* An oversize buffer is not taken away from the thread that writes into it.
OversizeHeld == \A t \in Threads : th[t].pc = "filled" => th[t].target \in OsIds

\* Neither a thread's record nor the buffer it writes into is taken away while
\* somebody needs it (RecordLive, OversizeHeld).
NothingTakenAway == RecordLive /\ OversizeHeld

\* A call of read_chunk ends: while no thread is at work its walk passes the
\* shared ring at most MaxLaps times for each version it has to read, even when
\* it meets entries whose turn has not come.
WalkEnds ==
    quiet /\ rd.call = "busy" => rd.laps <= MaxLaps * (1 + MAX_RECOVERY_VERSION_RANGE)
=============================================================================
