------------------------------ MODULE GroupList ------------------------------
(***************************************************************************)
(* The blocks of the high-frequency producers: group_list, its groups and   *)
(* the three block_lists of each group.  Every producer of high frequency   *)
(* writes a block (a SisoRing) of its own.  Blocks go round:                *)
(*                                                                          *)
(*   free --(a producer pops)--> stage --(the reader pops)--> used          *)
(*     ^                                                        |           *)
(*     +---------(the reader recycles a removed block)----------+           *)
(*                                                                          *)
(* free and stage are lock-free stacks whose head carries a mark against    *)
(* the ABA problem, used belongs to the reader.  Groups form a linked list, *)
(* each link with a reader-writer lock (RWSpinLock) that producers pass     *)
(* hand over hand; the reader takes an empty group out of the list and puts *)
(* it into a pool.  Everything but the locks, the pool and the links lives  *)
(* in memory-mapped files and survives a crash.                             *)
(***************************************************************************)
EXTENDS Integers, FiniteSets, Sequences, SequencesExt

CONSTANTS
    Producers,
    Reader,         \* the worker thread
    B,              \* max_block_count_per_group_
    Marks,          \* number of values of aba_mark, in the code 2^16
    MaxGroups,      \* bound: groups ever created
    MaxAllocs,      \* bound: calls of alloc_new_block
    MaxCrashes,     \* bound: crashes of the process
    AllocsAfter     \* bound: calls of alloc_new_block after a crash

ASSUME GroupListAssumption ==
    /\ Reader \notin Producers
    /\ B \in Nat \ {0} /\ Marks \in Nat \ {0} /\ MaxGroups \in Nat
    /\ MaxAllocs \in Nat /\ MaxCrashes \in Nat /\ AllocsAfter \in 0 .. MaxAllocs

Threads == Producers \cup {Reader}
Groups == 1 .. MaxGroups
Blocks == 0 .. B - 1
Empty == B              \* the empty index, in the code 65535
Links == 0 .. MaxGroups \* 0 is head_ of the group_list, g the next_ of group g
Lists == {"free", "stage", "used"}

VARIABLES
    \* in the mapped file of a group
    head,       \* head_ of each list: index and mark
    next,       \* next_ of each block
    type,       \* type_ of each block
    removed,    \* block_misc_data::is_removed
    old,        \* the block's context is of a version before this process
    unread,     \* the ring of the block holds something
    \* in the memory of the process
    current,    \* current_group_index_
    link,       \* the group each link leads to, 0 for none
    readers,    \* who holds the lock of a link for reading
    writer,     \* and who for writing
    pool,       \* pool_, head first
    at,         \* what each thread does
    hold,       \* cur_block_ of each producer
    rd,         \* current_reading_ and mem_optimize_ of the reader
    allocs, crashes

files == <<head, next, type, removed, old, unread>>
locks == <<readers, writer>>
bounds == <<allocs, crashes>>
vars == <<files, current, link, locks, pool, at, hold, rd, bounds>>

Nobody == "nobody"
NoBlock == <<0, Empty>>
Idle == [pc |-> "idle", ptr |-> 0, grp |-> 0, blk |-> Empty,
         seen |-> [index |-> Empty, mark |-> 0], nxt |-> Empty]
Start == [cg |-> 0, lg |-> 0, cb |-> Empty, lb |-> Empty, nb |-> Empty,
          ng |-> 0, marked |-> FALSE, using |-> 0]

\* The elements met from x on along f, up to the end mark
Along(f, x, end, count) ==
    LET walk[n \in 0 .. count] ==
            IF n = 0 THEN x
            ELSE IF walk[n - 1] = end THEN end ELSE f[walk[n - 1]]
    IN  [n \in 0 .. count |-> walk[n]]

Chain(g, l) == Along(next[g], head[g][l].index, Empty, B)
InList(g, l) == {Chain(g, l)[n] : n \in 0 .. B} \ {Empty}
Listed == LET walk == Along(link, link[0], 0, MaxGroups)
          IN  {walk[n] : n \in 0 .. MaxGroups} \ {0}

Go(t, pc) == at' = [at EXCEPT ![t].pc = pc]
Grp(t) == at[t].grp

-----------------------------------------------------------------------------
\* The lists.  A producer pops from free and pushes to stage, the reader pops
\* from stage and pushes to free.
pop_list(t) == IF t = Reader THEN "stage" ELSE "free"
push_list(t) == IF t = Reader THEN "free" ELSE "stage"

\* Defect: the mark stays, so a head that came back looks unchanged
Bump_not(mark) == mark

\* aba_mark() + 1
Bump(mark) == (mark + 1) % Marks

SetHead(g, l, h) == head' = [head EXCEPT ![g][l] = h]

\* What pop does with a copy of the head
SeenHead(t, h) ==
    at' = [at EXCEPT ![t].seen = h,
                     ![t].pc = IF h.index = Empty THEN "empty" ELSE "pop_next"]

pop_load(t) ==
    /\ at[t].pc = "pop"
    /\ SeenHead(t, head[Grp(t)][pop_list(t)])
    /\ UNCHANGED <<files, current, link, locks, pool, hold, rd, bounds>>

pop_next(t) ==
    /\ at[t].pc = "pop_next"
    /\ at' = [at EXCEPT ![t].nxt = next[Grp(t)][at[t].seen.index], ![t].pc = "pop_cas"]
    /\ UNCHANGED <<files, current, link, locks, pool, hold, rd, bounds>>

\* Defect: a compare-exchange that fails is tried again with the same copy
pop_cas_stale(t) ==
    LET g == Grp(t)
        l == pop_list(t)
    IN  /\ at[t].pc = "pop_cas"
        /\ \/ /\ head[g][l] = at[t].seen
              /\ SetHead(g, l, [index |-> at[t].nxt, mark |-> Bump(at[t].seen.mark)])
              /\ at' = [at EXCEPT ![t].blk = at[t].seen.index, ![t].pc = "popped"]
           \/ /\ head[g][l] # at[t].seen
              /\ Go(t, "pop_next")
              /\ UNCHANGED head
        /\ UNCHANGED <<next, type, removed, old, unread,
                       current, link, locks, pool, hold, rd, bounds>>

pop_cas(t) ==
    LET g == Grp(t)
        l == pop_list(t)
    IN  /\ at[t].pc = "pop_cas"
        /\ \/ /\ head[g][l] = at[t].seen
              /\ SetHead(g, l, [index |-> at[t].nxt, mark |-> Bump(at[t].seen.mark)])
              /\ at' = [at EXCEPT ![t].blk = at[t].seen.index, ![t].pc = "popped"]
           \/ /\ head[g][l] # at[t].seen
              /\ SeenHead(t, head[g][l])
              /\ UNCHANGED head
        /\ UNCHANGED <<next, type, removed, old, unread,
                       current, link, locks, pool, hold, rd, bounds>>

\* Defect: the block keeps the type of the list it was in
push_begin_untyped(t, ty, nx) ==
    LET g == Grp(t)
        h == head[g][push_list(t)]
    IN  /\ type' = ty
        /\ next' = [nx EXCEPT ![g][at[t].blk] = h.index]
        /\ at' = [at EXCEPT ![t].seen = h, ![t].pc = "push_cas"]

\* set_type, the copy of the head and the block's next_
push_begin(t, ty, nx) ==
    LET g == Grp(t)
        h == head[g][push_list(t)]
    IN  /\ type' = [ty EXCEPT ![g][at[t].blk] = push_list(t)]
        /\ next' = [nx EXCEPT ![g][at[t].blk] = h.index]
        /\ at' = [at EXCEPT ![t].seen = h, ![t].pc = "push_cas"]

push_cas(t) ==
    LET g == Grp(t)
        l == push_list(t)
        h == head[g][l]
    IN  /\ at[t].pc = "push_cas"
        /\ \/ /\ h = at[t].seen
              /\ SetHead(g, l, [index |-> at[t].blk, mark |-> Bump(h.mark)])
              /\ Go(t, "pushed")
              /\ UNCHANGED next
           \/ /\ h # at[t].seen
              /\ next' = [next EXCEPT ![g][at[t].blk] = h.index]
              /\ at' = [at EXCEPT ![t].seen = h]
              /\ UNCHANGED head
        /\ UNCHANGED <<type, removed, old, unread,
                       current, link, locks, pool, hold, rd, bounds>>

-----------------------------------------------------------------------------
\* alloc_new_block
MayRead(lk) == writer[lk] = Nobody                      \* read_lock gets in
MayWrite(lk) == writer[lk] = Nobody /\ readers[lk] = {} \* write_lock gets in

\* first(read_lock)
first(p) ==
    /\ at[p].pc = "idle" /\ hold[p] = NoBlock
    /\ allocs < MaxAllocs /\ allocs' = allocs + 1
    /\ MayRead(0)
    /\ \/ /\ link[0] = 0
          /\ Go(p, "grow")
          /\ UNCHANGED readers
       \/ /\ link[0] # 0
          /\ readers' = [readers EXCEPT ![0] = @ \cup {p}]
          /\ at' = [at EXCEPT ![p].pc = "pop", ![p].ptr = 0, ![p].grp = link[0]]
    /\ UNCHANGED <<files, current, link, writer, pool, hold, rd, crashes>>

\* next(iter, read_lock), once the free list of the group was empty
next_group(p) ==
    LET g == Grp(p)
        lk == at[p].ptr
    IN  /\ at[p].pc = "empty" /\ writer[lk] # p
        /\ MayRead(g)
        /\ \/ /\ link[g] = 0
              /\ Go(p, "grow")
              /\ readers' = [readers EXCEPT ![lk] = @ \ {p}]
           \/ /\ link[g] # 0
              /\ at' = [at EXCEPT ![p].pc = "pop", ![p].ptr = g, ![p].grp = link[g]]
              /\ readers' = [readers EXCEPT ![lk] = @ \ {p}, ![g] = @ \cup {p}]
        /\ UNCHANGED <<files, current, link, writer, pool, hold, rd, bounds>>

\* head_.lock_.write_lock() and the second try in the first group
lock_head(p) ==
    /\ at[p].pc = "grow"
    /\ MayWrite(0)
    /\ writer' = [writer EXCEPT ![0] = p]
    /\ at' = [at EXCEPT ![p].ptr = 0, ![p].grp = link[0],
                        ![p].pc = IF link[0] = 0 THEN "empty" ELSE "pop"]
    /\ UNCHANGED <<files, current, link, readers, pool, hold, rd, bounds>>

\* A group from the pool or a new one, its first block, and the group becomes
\* the first of the list.  Nobody sees the group before it is linked.
FreshFree == [n \in Blocks |-> IF n = 0 THEN Empty ELSE n - 1]

add_group(p) ==
    /\ at[p].pc = "empty" /\ writer[0] = p
    /\ \/ /\ pool # <<>>
          /\ pool' = Tail(pool)
          /\ LET g == Head(pool)
                 h == head[g]["free"]
             IN  /\ SetHead(g, "free", [index |-> next[g][h.index], mark |-> Bump(h.mark)])
                 /\ at' = [at EXCEPT ![p].grp = g, ![p].blk = h.index, ![p].pc = "popped"]
                 /\ link' = [link EXCEPT ![g] = link[0], ![0] = g]
          /\ UNCHANGED <<next, type, current>>
       \/ /\ pool = <<>> /\ current < MaxGroups
          /\ LET g == current + 1
             IN  /\ current' = g
                 /\ next' = [next EXCEPT ![g] = FreshFree]
                 /\ type' = [type EXCEPT ![g] = [b \in Blocks |-> "free"]]
                 /\ SetHead(g, "free", [index |-> FreshFree[B - 1], mark |-> (B + 1) % Marks])
                 /\ at' = [at EXCEPT ![p].grp = g, ![p].blk = B - 1, ![p].pc = "popped"]
                 /\ link' = [link EXCEPT ![g] = link[0], ![0] = g]
          /\ UNCHANGED pool
    /\ UNCHANGED <<removed, old, unread, locks, hold, rd, bounds>>

\* set_misc_data, renew and the push to stage
stage_block(p) ==
    LET g == Grp(p)
        b == at[p].blk
    IN  /\ p # Reader /\ at[p].pc = "popped"
        /\ removed' = [removed EXCEPT ![g][b] = FALSE]
        /\ old' = [old EXCEPT ![g][b] = FALSE]
        /\ unread' = [unread EXCEPT ![g][b] = FALSE]
        /\ push_begin(p, type, next)
        /\ UNCHANGED <<head, current, link, locks, pool, hold, rd, bounds>>

\* The lock is given back and the producer has its block
got_block(p) ==
    LET lk == at[p].ptr
    IN  /\ p # Reader /\ at[p].pc = "pushed"
        /\ readers' = [readers EXCEPT ![lk] = @ \ {p}]
        /\ writer' = [writer EXCEPT ![lk] = IF @ = p THEN Nobody ELSE @]
        /\ hold' = [hold EXCEPT ![p] = <<Grp(p), at[p].blk>>]
        /\ at' = [at EXCEPT ![p] = Idle]
        /\ UNCHANGED <<files, current, link, pool, rd, bounds>>

-----------------------------------------------------------------------------
\* What producers do with their block: an entry is committed into its ring, or
\* the block is given up (the thread exits, became slow, needs a bigger block)
commit(p) ==
    /\ at[p].pc = "idle" /\ hold[p] # NoBlock
    /\ unread' = [unread EXCEPT ![hold[p][1]][hold[p][2]] = TRUE]
    /\ UNCHANGED <<head, next, type, removed, old, current, link, locks, pool, at, hold, rd, bounds>>

mark_block_removed(p) ==
    /\ at[p].pc = "idle" /\ hold[p] # NoBlock
    /\ removed' = [removed EXCEPT ![hold[p][1]][hold[p][2]] = TRUE]
    /\ hold' = [hold EXCEPT ![p] = NoBlock]
    /\ UNCHANGED <<head, next, type, old, unread, current, link, locks, pool, at, rd, bounds>>

-----------------------------------------------------------------------------
\* The reader.  rt_try_traverse_to_next_block_in_group: the block after the
\* current one in used, else one from stage
ReaderAt(pc) == at[Reader].pc = pc

find_block ==
    LET g == rd.cg
        n == IF rd.cb = Empty THEN head[g]["used"].index ELSE next[g][rd.cb]
    IN  /\ ReaderAt("block")
        /\ rd' = [rd EXCEPT !.nb = n]
        /\ at' = [at EXCEPT ![Reader].grp = g,
                            ![Reader].pc = IF n = Empty THEN "pop" ELSE "leave"]
        /\ UNCHANGED <<files, current, link, locks, pool, hold, bounds>>

stage_empty ==
    /\ ReaderAt("empty")
    /\ Go(Reader, "leave")
    /\ UNCHANGED <<files, current, link, locks, pool, hold, rd, bounds>>

\* A list in which the link that led to x leads to y.  prev is the block before,
\* Empty if x is the first
Relink(g, prev, y, nx) ==
    IF prev = Empty
    THEN SetHead(g, "used", [index |-> y, mark |-> head[g]["used"].mark]) /\ next' = nx
    ELSE UNCHANGED head /\ next' = [nx EXCEPT ![g][prev] = y]

PrevIndex(g, prev) == IF prev = Empty THEN head[g]["used"].index ELSE next[g][prev]

\* push_after_thread_unsafe(cur_block_, next_block)
use_block ==
    LET g == rd.cg
        b == at[Reader].blk
    IN  /\ ReaderAt("popped")
        /\ type' = [type EXCEPT ![g][b] = "used"]
        /\ Relink(g, rd.cb, b, [next EXCEPT ![g][b] = PrevIndex(g, rd.cb)])
        /\ rd' = [rd EXCEPT !.nb = b]
        /\ Go(Reader, "leave")
        /\ UNCHANGED <<removed, old, unread, current, link, locks, pool, hold, bounds>>

\* The current block is left: recycled if it was marked, counted otherwise
keep_block ==
    /\ ReaderAt("leave") /\ ~rd.marked
    /\ rd' = [rd EXCEPT !.using = @ + (IF rd.cb = Empty THEN 0 ELSE 1), !.lb = rd.cb]
    /\ Go(Reader, "arrive")
    /\ UNCHANGED <<files, current, link, locks, pool, hold, bounds>>

\* recycle_block_thread_unsafe: remove_thread_unsafe ...
recycle_block ==
    LET g == rd.cg
    IN  /\ ReaderAt("leave") /\ rd.marked
        /\ Relink(g, rd.lb, next[g][rd.cb], next)
        /\ at' = [at EXCEPT ![Reader].blk = rd.cb, ![Reader].pc = "removed"]
        /\ UNCHANGED <<type, removed, old, unread, current, link, locks, pool, hold, rd, bounds>>

\* ... and free_.push
free_block ==
    /\ ReaderAt("removed")
    /\ push_begin(Reader, type, next)
    /\ UNCHANGED <<head, removed, old, unread, current, link, locks, pool, hold, rd, bounds>>

block_freed ==
    /\ ReaderAt("pushed")
    /\ rd' = [rd EXCEPT !.marked = FALSE]
    /\ Go(Reader, "arrive")
    /\ UNCHANGED <<files, current, link, locks, pool, hold, bounds>>

\* verify_context of the block found.  A pending block is passed over; a valid
\* one is read, and marked if its producer has given it up or is no more.
arrive ==
    LET g == rd.cg
        b == rd.nb
    IN  /\ ReaderAt("arrive") /\ b # Empty
        /\ \E valid \in BOOLEAN :
              /\ rd' = [rd EXCEPT !.cb = b, !.marked = valid /\ (removed[g][b] \/ old[g][b])]
              /\ Go(Reader, IF valid THEN "read" ELSE "block")
        /\ UNCHANGED <<files, current, link, locks, pool, hold, bounds>>

no_more_blocks ==
    /\ ReaderAt("arrive") /\ rd.nb = Empty
    /\ rd' = [rd EXCEPT !.marked = FALSE]
    /\ Go(Reader, "group")
    /\ UNCHANGED <<files, current, link, locks, pool, hold, bounds>>

\* hp_block_reading: the reader stays while batch_read finds something
read_batch ==
    /\ ReaderAt("read")
    /\ unread[rd.cg][rd.cb]
    /\ unread' = [unread EXCEPT ![rd.cg][rd.cb] = FALSE]
    /\ UNCHANGED <<head, next, type, removed, old, current, link, locks, pool, at, hold, rd, bounds>>

read_empty ==
    /\ ReaderAt("read")
    /\ ~unread[rd.cg][rd.cb]
    /\ Go(Reader, "block")
    /\ UNCHANGED <<files, current, link, locks, pool, hold, rd, bounds>>

-----------------------------------------------------------------------------
\* rt_try_traverse_to_next_group.  The links are read without their locks.
Advance(to, last) ==
    /\ rd' = [Start EXCEPT !.cg = to, !.lg = last]
    /\ at' = [at EXCEPT ![Reader] = [Idle EXCEPT !.pc = IF to = 0 THEN "group" ELSE "block"]]

pass_group ==
    /\ ReaderAt("group")
    /\ rd.cg = 0 \/ rd.using > 0
    /\ Advance(link[rd.cg], rd.cg)
    /\ UNCHANGED <<files, current, link, locks, pool, hold, bounds>>

\* No block is in use: the lock of the link to the group, from the last group
\* or from the head
find_group ==
    /\ ReaderAt("group")
    /\ rd.cg # 0 /\ rd.using = 0
    /\ MayWrite(rd.lg)
    /\ writer' = [writer EXCEPT ![rd.lg] = Reader]
    /\ rd' = [rd EXCEPT !.ng = link[rd.cg]]
    /\ at' = [at EXCEPT ![Reader].ptr = rd.lg, ![Reader].pc = "locking"]
    /\ UNCHANGED <<files, current, link, readers, pool, hold, bounds>>

Target == link[at[Reader].ptr]

\* Groups that producers have put in front meanwhile are walked past
walk_on ==
    /\ ReaderAt("locking") /\ rd.lg = 0 /\ Target # rd.cg
    /\ MayWrite(Target)
    /\ writer' = [writer EXCEPT ![at[Reader].ptr] = Nobody, ![Target] = Reader]
    /\ at' = [at EXCEPT ![Reader].ptr = Target]
    /\ UNCHANGED <<files, current, link, readers, pool, hold, rd, bounds>>

ReachedGroup == ReaderAt("locking") /\ (rd.lg # 0 \/ Target = rd.cg)

IsEmpty(g) == head[g]["used"].index = Empty /\ head[g]["stage"].index = Empty

keep_group ==
    /\ ReachedGroup /\ ~IsEmpty(Target)
    /\ writer' = [writer EXCEPT ![at[Reader].ptr] = Nobody]
    /\ Advance(rd.ng, rd.cg)
    /\ UNCHANGED <<files, current, link, readers, pool, hold, bounds>>

delete_group ==
    /\ ReachedGroup /\ IsEmpty(Target)
    /\ Go(Reader, "unlink")
    /\ UNCHANGED <<files, current, link, locks, pool, hold, rd, bounds>>

\* delete_and_unlock_thread_unsafe: whoever stands on the group's own link is
\* waited for, then the group leaves the list
delete_and_unlock ==
    LET lk == at[Reader].ptr
    IN  /\ ReaderAt("unlink")
        /\ MayWrite(Target)
        /\ link' = [link EXCEPT ![lk] = link[Target]]
        /\ writer' = [writer EXCEPT ![lk] = Nobody]
        /\ pool' = <<Target>> \o pool
        /\ Advance(rd.ng, rd.lg)
        /\ UNCHANGED <<files, current, readers, hold, bounds>>

\* garbage_collect: the oldest group of the pool goes, its file stays
garbage_collect ==
    /\ pool # <<>> /\ ReaderAt("group")
    /\ pool' = SubSeq(pool, 1, Len(pool) - 1)
    /\ UNCHANGED <<files, current, link, locks, at, hold, rd, bounds>>

-----------------------------------------------------------------------------
\* The process dies and its memory with it.  The next one builds a group from
\* every file it finds.
\* try_recover_from_memory_map: the list leads through blocks of its own type
Valid(g, l) ==
    /\ Chain(g, l)[B] = Empty
    /\ \A b \in InList(g, l) : type[g][b] = l

Kept(g, l) == IF Valid(g, l) THEN InList(g, l) ELSE {}

Live(g) == Kept(g, "used") \cup Kept(g, "stage")

\* The others are constructed anew and pushed to free in ascending order
NewFree(g, b) ==
    LET below == {c \in Blocks \ Live(g) : c < b}
    IN  IF below = {} THEN Empty ELSE CHOOSE c \in below : \A d \in below : d <= c

recover_head(g, l) ==
    CASE l = "free" -> [index |-> NewFree(g, B), mark |-> Cardinality(Blocks \ Live(g)) % Marks]
      [] Valid(g, l) -> head[g][l]
      [] OTHER -> [index |-> Empty, mark |-> 0]

crash ==
    /\ crashes < MaxCrashes /\ crashes' = crashes + 1
    /\ head' = [g \in Groups |-> IF g > current THEN head[g]
                                 ELSE [l \in Lists |-> recover_head(g, l)]]
    /\ next' = [g \in Groups |-> IF g > current THEN next[g]
                  ELSE [b \in Blocks |-> IF b \in Live(g) THEN next[g][b] ELSE NewFree(g, b)]]
    /\ type' = [g \in Groups |-> IF g > current THEN type[g]
                  ELSE [b \in Blocks |-> IF b \in Live(g) THEN type[g][b] ELSE "free"]]
    /\ removed' = [g \in Groups |-> [b \in Blocks |-> b \in Live(g) /\ removed[g][b]]]
    /\ unread' = [g \in Groups |-> [b \in Blocks |-> b \in Live(g) /\ unread[g][b]]]
    /\ old' = [g \in Groups |-> [b \in Blocks |-> b \in Live(g)]]
    /\ \E order \in {f \in [1 .. current -> 1 .. current] : \A i, j \in 1 .. current : f[i] = f[j] => i = j} :
          link' = [lk \in Links |->
                     IF lk > current THEN 0
                     ELSE LET i == IF lk = 0 THEN 0 ELSE CHOOSE k \in 1 .. current : order[k] = lk
                          IN  IF i = current THEN 0 ELSE order[i + 1]]
    /\ readers' = [lk \in Links |-> {}]
    /\ writer' = [lk \in Links |-> Nobody]
    /\ pool' = <<>>
    /\ at' = [t \in Threads |-> IF t = Reader THEN [Idle EXCEPT !.pc = "group"] ELSE Idle]
    /\ hold' = [p \in Producers |-> NoBlock]
    /\ rd' = Start
    /\ allocs' = IF allocs < MaxAllocs - AllocsAfter THEN MaxAllocs - AllocsAfter ELSE allocs
    /\ UNCHANGED current

-----------------------------------------------------------------------------
Init ==
    /\ head = [g \in Groups |-> [l \in Lists |-> [index |-> Empty, mark |-> 0]]]
    /\ next = [g \in Groups |-> [b \in Blocks |-> Empty]]
    /\ type = [g \in Groups |-> [b \in Blocks |-> "none"]]
    /\ removed = [g \in Groups |-> [b \in Blocks |-> FALSE]]
    /\ old = removed /\ unread = removed
    /\ current = 0 /\ pool = <<>>
    /\ link = [lk \in Links |-> 0]
    /\ readers = [lk \in Links |-> {}]
    /\ writer = [lk \in Links |-> Nobody]
    /\ at = [t \in Threads |-> IF t = Reader THEN [Idle EXCEPT !.pc = "group"] ELSE Idle]
    /\ hold = [p \in Producers |-> NoBlock]
    /\ rd = Start
    /\ allocs = 0 /\ crashes = 0

StackStep(t) == pop_load(t) \/ pop_next(t) \/ pop_cas(t) \/ push_cas(t)

AllocStep(p) ==
    StackStep(p) \/ next_group(p) \/ lock_head(p) \/ add_group(p) \/ stage_block(p) \/ got_block(p)

ReaderStep ==
    \/ StackStep(Reader)
    \/ find_block \/ stage_empty \/ use_block \/ keep_block \/ recycle_block
    \/ free_block \/ block_freed \/ arrive \/ no_more_blocks \/ read_batch \/ read_empty
    \/ pass_group \/ find_group \/ walk_on \/ keep_group \/ delete_group \/ delete_and_unlock

Next ==
    \/ \E p \in Producers : first(p) \/ AllocStep(p) \/ commit(p) \/ mark_block_removed(p)
    \/ ReaderStep
    \/ garbage_collect
    \/ crash

Spec == Init /\ [][Next]_vars

\* A thread that is inside alloc_new_block goes on, and so does the reader
FairSpec == Spec /\ WF_vars(ReaderStep) /\ \A p \in Producers : WF_vars(AllocStep(p))

-----------------------------------------------------------------------------
Heads == [index : 0 .. B, mark : 0 .. Marks - 1]
Places == {"idle", "pop", "empty", "pop_next", "pop_cas", "popped", "push_cas", "pushed",
           "grow", "block", "leave", "arrive", "removed", "read", "group", "locking", "unlink"}

\* Heads, links, locks, handles and cursors have the types of block_list,
\* group_list and current_reading_.
TypeOK ==
    /\ head \in [Groups -> [Lists -> Heads]]
    /\ next \in [Groups -> [Blocks -> 0 .. B]]
    /\ type \in [Groups -> [Blocks -> Lists \cup {"none"}]]
    /\ {removed, old, unread} \subseteq [Groups -> [Blocks -> BOOLEAN]]
    /\ current \in 0 .. MaxGroups
    /\ link \in [Links -> Links]
    /\ readers \in [Links -> SUBSET Producers]
    /\ writer \in [Links -> Threads \cup {Nobody}]
    /\ pool \in Seq(Groups)
    /\ at \in [Threads -> [pc : Places, ptr : Links, grp : Links, blk : 0 .. B,
                           seen : Heads, nxt : 0 .. B]]
    /\ hold \in [Producers -> Links \X (0 .. B)]
    /\ rd \in [cg : Links, lg : Links, cb : 0 .. B, lb : 0 .. B, nb : 0 .. B,
               ng : Links, marked : BOOLEAN, using : 0 .. B]
    /\ allocs \in 0 .. MaxAllocs /\ crashes \in 0 .. MaxCrashes

InHand(t, g, b) ==
    /\ at[t].grp = g /\ at[t].blk = b
    /\ at[t].pc \in {"popped", "removed", "push_cas"}

\* A block is never in two lists, never in a list and in the hand of a thread,
\* never in two hands, and never nowhere: the copies of the head that pop and
\* push work from cannot go stale unnoticed (block_list::pop, push).
OnePlace ==
    \A g \in 1 .. current :
        /\ \A l \in Lists : Chain(g, l)[B] = Empty
        /\ \A b \in Blocks :
              Cardinality({l \in Lists : b \in InList(g, l)})
                + Cardinality({t \in Threads : InHand(t, g, b)}) = 1

\* The group a producer walks over, and the group of the block it writes, stays
\* in the list: the reader takes out only groups nobody can stand on
\* (group_list::next, delete_and_unlock_thread_unsafe), and the block of a
\* producer is not handed to another one.
NobodyLeftBehind ==
    \A p \in Producers :
        /\ at[p].pc \notin {"idle", "grow"} /\ Grp(p) # 0 => Grp(p) \in Listed
        /\ hold[p] # NoBlock =>
              /\ hold[p][1] \in Listed
              /\ hold[p][2] \notin InList(hold[p][1], "free")
              /\ \A q \in Producers \ {p} : hold[q] # hold[p]

\* "all blocks should be free when group is removed" (log_buffer.cpp:1126)
PooledAreFree ==
    \A g \in 1 .. current \ Listed : InList(g, "free") = Blocks

\* The reader locks the link of the group it wants to remove, although
\* producers add groups in front of it ("try lock removing group failed").
LocksItsGroup ==
    ReachedGroup \/ ReaderAt("unlink") => Target = rd.cg

\* A block goes back to free only when all that was committed into it has been
\* read: is_removed is looked at before the last batch_read, not after it.
NothingForgotten ==
    \A g \in 1 .. current : \A b \in InList(g, "free") : ~unread[g][b]

\* A group can be taken out of the list under the producers: the lists of its
\* blocks, the producers' places and the reader's locks never contradict one
\* another, and no block comes back with entries in it.
ListsSound ==
    TypeOK /\ OnePlace /\ NobodyLeftBehind /\ PooledAreFree /\ LocksItsGroup /\ NothingForgotten

\* After a crash every block with unread entries is still in a list of the
\* reader, except one that the reader was moving from stage to used.
UnreadSurvives ==
    [][crashes' # crashes =>
          \A g \in 1 .. current : \A b \in Blocks :
              unread[g][b] /\ ~InHand(Reader, g, b) => unread'[g][b]]_vars

\* alloc_new_block returns, however the reader and other producers disturb its
\* compare-exchanges and locks.
AllocReturns ==
    \A p \in Producers : []<>(at[p].pc = "idle")
=============================================================================
