------------------------------ MODULE MisoRing ------------------------------
(***************************************************************************)
(* miso_ring_buffer: the multi-producer single-consumer ring every thread   *)
(* writes its low-frequency entries to.                                     *)
(*                                                                          *)
(* A producer reserves blocks with fetch_add and looks only afterwards      *)
(* whether they exist; if not it tries to move the write cursor back, which *)
(* works only while its reservation is the last one.  The consumer finds    *)
(* out from the status byte in the first block of a chunk whether the chunk *)
(* is there: no cursor tells it.  So every block that is handed out must    *)
(* carry status `unused`, also the ones whose status byte was last part of  *)
(* somebody's payload.                                                      *)
(*                                                                          *)
(* Every action makes at most one access to state that another thread       *)
(* writes.  Sizes are counted in blocks: need_block_count.                  *)
(***************************************************************************)
EXTENDS RingArith, Sequences, FiniteSets, SequencesExt

CONSTANTS
    Producers,
    Needs,      \* block counts the producers ask for
    Start,      \* where the cursors stand at first
    MaxCalls,   \* bound: calls of alloc_write_chunk
    MaxCrashes, \* bound: crashes
    NoCache     \* a thread that has not used this buffer yet (is_new_created)

\* The range of a cursor has room for the ring and for a reservation too many
\* of every thread.
ASSUME MisoAssumption ==
    /\ N % 4 = 0
    /\ IsFiniteSet(Producers) /\ Laps > Cardinality(Producers) + 1
    /\ Needs \subseteq 1 .. N
    /\ Start \in Cursor
    /\ NoCache \notin Cursor

VARIABLES
    blocks,              \* aligned_blocks_: status and block_num of every block
    write_cursor,        \* shared by the producers
    read_cursor,         \* published by the consumer
    read_cursor_cache,   \* next block the consumer looks at; persistent
    read_cursor_start_cache, \* first block not cleared yet; persistent
    rpc,                 \* where the consumer is
    prod,                \* where each producer is, with its local variables
    wt_read_cursor_cache,\* thread-local copy of read_cursor, per producer
    tickets,             \* history: the reservations from read_cursor to write_cursor
    calls, crashes       \* for the bounds

cursors == <<write_cursor, read_cursor, read_cursor_cache, read_cursor_start_cache>>
bounds == <<calls, crashes>>
vars == <<blocks, cursors, rpc, prod, wt_read_cursor_cache, tickets, bounds>>

\* `data` is a status byte overwritten by payload
Statuses == {"unused", "used", "invalid", "data"}
Kinds == {"tentative", "open", "used", "invalid", "read"}
Idle == [pc |-> "idle", need |-> 0, cursor |-> 0, low_space_flag |-> FALSE]

\* What a producer's reservation would end at
NextCursor(p) == Plus(prod[p].cursor, prod[p].need)

\* The chunk does not fit before the end of the array
Wraps(c, n) == Index(c) + n > N

\* (used_blocks_count << 1) >= aligned_blocks_count_ in uint32_t
HalfFull(used) == (2 * used) % M >= N

Goto(p, pc) == prod' = [prod EXCEPT ![p].pc = pc]
SetView(p) == wt_read_cursor_cache' = [wt_read_cursor_cache EXCEPT ![p] = read_cursor]

\* The reservation a producer is working on
Mine(p) == CHOOSE i \in DOMAIN tickets :
             tickets[i].owner = p /\ tickets[i].kind \in {"tentative", "open"}
Mark(p, kind) == tickets' = [tickets EXCEPT ![Mine(p)].kind = kind]

-----------------------------------------------------------------------------
(* alloc_write_chunk *)

\* used_blocks_count + need_block_count, from a write cursor and a view of the
\* read cursor that need not belong together
LowSpaceGuess(c, r, n) == HalfFull((Minus(c, r) + n) % M)

load_write_cursor(p, n) ==
    /\ prod[p].pc = "idle" /\ rpc # "down"
    /\ calls < MaxCalls /\ calls' = calls + 1
    /\ prod' = [prod EXCEPT ![p] =
         [pc |-> IF wt_read_cursor_cache[p] = NoCache THEN "view" ELSE "check",
          need |-> n, cursor |-> write_cursor,
          low_space_flag |-> wt_read_cursor_cache[p] # NoCache
                             /\ LowSpaceGuess(write_cursor, wt_read_cursor_cache[p], n)]]
    /\ UNCHANGED <<blocks, cursors, rpc, wt_read_cursor_cache, tickets, crashes>>

\* The first call of a thread, or any call of one whose thread-local storage
\* is gone already
load_read_cursor(p) ==
    /\ prod[p].pc = "view"
    /\ SetView(p)
    /\ prod' = [prod EXCEPT ![p].pc = "check", ![p].low_space_flag =
                  LowSpaceGuess(prod[p].cursor, read_cursor, prod[p].need)]
    /\ UNCHANGED <<blocks, cursors, rpc, tickets, bounds>>

tls_recycled(p) ==
    /\ prod[p].pc = "idle" /\ wt_read_cursor_cache[p] # NoCache
    /\ wt_read_cursor_cache' = [wt_read_cursor_cache EXCEPT ![p] = NoCache]
    /\ UNCHANGED <<blocks, cursors, rpc, prod, tickets, bounds>>

\* err_not_enough_space, or err_alloc_size_invalid for more than half the ring
Fail(p) == prod' = [prod EXCEPT ![p] = Idle]

LooksFull(p, r) == Minus(NextCursor(p), r) > N

\* The check before the reservation: a view without room is reloaded once
reload_view(p) ==
    /\ prod[p].pc = "check"
    /\ LooksFull(p, wt_read_cursor_cache[p])
    /\ SetView(p)
    /\ IF LooksFull(p, read_cursor) THEN Fail(p) ELSE UNCHANGED prod
    /\ UNCHANGED <<blocks, cursors, rpc, tickets, bounds>>

\* The check after the reservation is stricter: one block always stays free
Overruns(c, n, r) == Minus(Plus(c, n), r) >= N

reserve(p) ==
    LET c == write_cursor
        n == prod[p].need
        overruns == Overruns(c, n, wt_read_cursor_cache[p])
    IN  /\ prod[p].pc = "check"
        /\ ~LooksFull(p, wt_read_cursor_cache[p])
        /\ write_cursor' = Plus(c, n)
        /\ prod' = [prod EXCEPT ![p].cursor = c,
                                ![p].pc = IF overruns THEN "rollback" ELSE "write"]
        /\ tickets' = Append(tickets, [owner |-> p, at |-> c, n |-> n,
                         kind |-> IF overruns THEN "tentative" ELSE "open"])
        /\ UNCHANGED <<blocks, read_cursor, read_cursor_cache, read_cursor_start_cache,
                       rpc, wt_read_cursor_cache, bounds>>

\* The loop that waits for room or for being the last reservation
rollback_load(p) ==
    /\ prod[p].pc = "rollback"
    /\ SetView(p)
    /\ IF Overruns(prod[p].cursor, prod[p].need, read_cursor)
       THEN Goto(p, "cas") /\ UNCHANGED tickets
       ELSE Goto(p, "write") /\ Mark(p, "open")
    /\ UNCHANGED <<blocks, cursors, rpc, bounds>>

\* Defect: the cursor is set back without comparing
rollback_store(p) ==
    /\ prod[p].pc = "cas"
    /\ write_cursor' = prod[p].cursor
    /\ tickets' = RemoveAt(tickets, Mine(p))
    /\ Fail(p)
    /\ UNCHANGED <<blocks, read_cursor, read_cursor_cache, read_cursor_start_cache,
                   rpc, wt_read_cursor_cache, bounds>>

rollback_cas(p) ==
    /\ prod[p].pc = "cas"
    /\ IF write_cursor = NextCursor(p)
       THEN /\ write_cursor' = prod[p].cursor
            /\ tickets' = RemoveAt(tickets, Mine(p))
            /\ Fail(p)
       ELSE Goto(p, "rollback") /\ UNCHANGED <<write_cursor, tickets>>
    /\ UNCHANGED <<blocks, read_cursor, read_cursor_cache, read_cursor_start_cache,
                   rpc, wt_read_cursor_cache, bounds>>

\* set_block_num overwrites the status byte with 0; a chunk that does not fit
\* is marked invalid as a whole and the call tries again behind it
write_head(p) ==
    LET c == prod[p].cursor
        n == prod[p].need
    IN  /\ prod[p].pc = "write"
        /\ blocks' = [blocks EXCEPT ![Index(c)] =
             [status |-> IF Wraps(c, n) THEN "invalid" ELSE "unused", block_num |-> n]]
        /\ IF Wraps(c, n)
           THEN Goto(p, "check") /\ Mark(p, "invalid")
           ELSE /\ Goto(p, IF prod[p].low_space_flag THEN "low" ELSE "fill")
                /\ UNCHANGED tickets
        /\ UNCHANGED <<cursors, rpc, wt_read_cursor_cache, bounds>>

confirm_low_space(p) ==
    /\ prod[p].pc = "low"
    /\ SetView(p)
    /\ prod' = [prod EXCEPT ![p].pc = "fill", ![p].low_space_flag =
                  HalfFull(Minus(NextCursor(p), read_cursor))]
    /\ UNCHANGED <<blocks, cursors, rpc, tickets, bounds>>

\* The caller writes its payload over the status bytes of the blocks behind the head
fill(p) ==
    LET i == Index(prod[p].cursor)
    IN  /\ prod[p].pc = "fill"
        /\ blocks' = [j \in Slot |-> IF j \in i + 1 .. i + prod[p].need - 1
                                     THEN [blocks[j] EXCEPT !.status = "data"]
                                     ELSE blocks[j]]
        /\ Goto(p, "commit")
        /\ UNCHANGED <<cursors, rpc, wt_read_cursor_cache, tickets, bounds>>

commit_write_chunk(p) ==
    /\ prod[p].pc = "commit"
    /\ blocks' = [blocks EXCEPT ![Index(prod[p].cursor)].status = "used"]
    /\ Mark(p, "used")
    /\ prod' = [prod EXCEPT ![p] = Idle]
    /\ UNCHANGED <<cursors, rpc, wt_read_cursor_cache, bounds>>

-----------------------------------------------------------------------------
(* The consumer *)

Head_ == blocks[Index(read_cursor_cache)]

\* The reservation at the consumer's cursor has been passed
Passed == tickets' = [i \in DOMAIN tickets |->
                        IF tickets[i].at = read_cursor_cache
                        THEN [tickets[i] EXCEPT !.kind = "read"] ELSE tickets[i]]

\* One round of the loop of read_chunk
read_chunk ==
    /\ rpc = "idle"
    /\ rpc' = CASE Head_.status = "used"    -> "lent"
                [] Head_.status = "invalid" -> "skip"
                [] OTHER -> "empty"
    /\ blocks' = IF Head_.status = "invalid"
                 THEN [blocks EXCEPT ![Index(read_cursor_cache)].status = "unused"]
                 ELSE blocks
    /\ UNCHANGED <<cursors, prod, wt_read_cursor_cache, tickets, bounds>>

\* Defect: only the blocks before the end of the array are skipped
skip_invalid_to_end ==
    /\ rpc = "skip"
    /\ read_cursor_cache' = Plus(read_cursor_cache, N - Index(read_cursor_cache))
    /\ Passed
    /\ rpc' = "idle"
    /\ UNCHANGED <<blocks, write_cursor, read_cursor, read_cursor_start_cache,
                   prod, wt_read_cursor_cache, bounds>>

skip_invalid ==
    /\ rpc = "skip"
    /\ read_cursor_cache' = Plus(read_cursor_cache, Head_.block_num)
    /\ Passed
    /\ rpc' = "idle"
    /\ UNCHANGED <<blocks, write_cursor, read_cursor, read_cursor_start_cache,
                   prod, wt_read_cursor_cache, bounds>>

read_an_empty_chunk ==
    /\ rpc = "idle" /\ rpc' = "empty"
    /\ UNCHANGED <<blocks, cursors, prod, wt_read_cursor_cache, tickets, bounds>>

discard_read_chunk ==
    /\ rpc \in {"lent", "empty"} /\ rpc' = "idle"
    /\ UNCHANGED <<blocks, cursors, prod, wt_read_cursor_cache, tickets, bounds>>

\* The blocks passed since the last flush, with their status bytes cleared
ClearedTo(next) ==
    [j \in Slot |->
        IF \E k \in 0 .. Minus(next, read_cursor_start_cache) - 1 :
              j = Index(Plus(read_cursor_start_cache, k))
        THEN [blocks[j] EXCEPT !.status = "unused"]
        ELSE blocks[j]]

\* return_read_chunk up to the store to read_cursor_: a flush on an empty
\* handle or after a quarter of the ring
return_read_chunk ==
    LET next == IF rpc = "lent" THEN Plus(read_cursor_cache, Head_.block_num)
                                ELSE read_cursor_cache
        passed == Minus(next, read_cursor_start_cache)
        flush == passed > 0 /\ (rpc = "empty" \/ passed >= N \div 4)
    IN  /\ rpc \in {"lent", "empty"}
        /\ read_cursor_cache' = next
        /\ IF rpc = "lent" THEN Passed ELSE UNCHANGED tickets
        /\ IF flush
           THEN /\ blocks' = ClearedTo(next)
                /\ read_cursor_start_cache' = next
                /\ rpc' = "publish"
           ELSE /\ UNCHANGED <<blocks, read_cursor_start_cache>>
                /\ rpc' = "idle"
        /\ UNCHANGED <<write_cursor, read_cursor, prod, wt_read_cursor_cache, bounds>>

\* The consumer has passed the first reservations of the history
Unread ==
    LET passed == Cardinality({i \in DOMAIN tickets : tickets[i].kind = "read"})
    IN  SubSeq(tickets, passed + 1, Len(tickets))

publish_read_cursor ==
    /\ rpc = "publish"
    /\ read_cursor' = read_cursor_cache
    /\ tickets' = Unread
    /\ rpc' = "idle"
    /\ UNCHANGED <<blocks, write_cursor, read_cursor_cache, read_cursor_start_cache,
                   prod, wt_read_cursor_cache, bounds>>

\* Defect: the walk moves on by one block
data_traverse_by_block ==
    LET walk[k \in 0 .. 2 * N] ==
            LET c == Plus(read_cursor, k)
                b == blocks[Index(c)]
            IN  IF k >= N \/ b.status = "unused" THEN <<>>
                ELSE (IF b.status = "used" THEN <<c>> ELSE <<>>) \o walk[k + 1]
    IN  walk[0]

\* The chunks data_traverse calls back for, from the published read cursor on
data_traverse ==
    LET walk[k \in 0 .. 2 * N] ==
            LET c == Plus(read_cursor, k)
                b == blocks[Index(c)]
            IN  IF k >= N \/ b.status \in {"unused", "data"} THEN <<>>
                ELSE (IF b.status = "used" THEN <<c>> ELSE <<>>) \o walk[k + b.block_num]
    IN  walk[0]

-----------------------------------------------------------------------------
(* Crash of the process and recovery from the memory-mapped file *)

crash ==
    /\ rpc # "down" /\ crashes < MaxCrashes
    /\ crashes' = crashes + 1
    /\ rpc' = "down"
    /\ prod' = [p \in Producers |-> Idle]
    /\ wt_read_cursor_cache' = [p \in Producers |-> NoCache]
    /\ UNCHANGED <<blocks, cursors, tickets, calls>>

Failed == N + 1

\* Defect: the walk does not pass invalid chunks
Parsed_stops_at_invalid(i) ==
    LET parse[k \in 0 .. 2 * N] ==
            LET b == blocks[Index(i + k)]
            IN  IF k < N /\ b.status = "used" THEN parse[k + b.block_num] ELSE k
    IN  parse[0]

\* Blocks recognised by the walk of try_recover_from_exist_memory_map, which
\* starts at index i; Failed if it gives up.  The check of an invalid chunk
\* looks at the cursor behind it.
Parsed(i) ==
    LET parse[k \in 0 .. 2 * N] ==
            LET b == blocks[Index(i + k)]
                checked == IF b.status = "used" THEN i + k ELSE i + k + b.block_num
            IN  IF k >= N THEN IF k = N THEN N ELSE Failed
                ELSE IF b.status = "unused" THEN k
                ELSE IF b.status = "data" \/ Wraps(checked, b.block_num) THEN Failed
                ELSE parse[k + b.block_num]
    IN  parse[0]

recovered_blocks(i, k) ==
    [j \in Slot |-> IF \E d \in k .. N - 1 : j = Index(i + d)
                    THEN [blocks[j] EXCEPT !.status = "unused"] ELSE blocks[j]]

\* The cursors restart in the first lap; a ring that cannot be parsed is emptied
recover ==
    LET parsed == Parsed(Index(read_cursor_cache))
        ok == parsed # Failed
        i == IF ok THEN Index(read_cursor_cache) ELSE 0
        k == IF ok THEN parsed ELSE 0
    IN  /\ rpc = "down"
        /\ read_cursor_cache' = i /\ read_cursor_start_cache' = i /\ read_cursor' = i
        /\ write_cursor' = i + k
        /\ blocks' = recovered_blocks(i, k)
        /\ tickets' = LET d(t) == Minus(t.at, read_cursor_cache)
                          kept == Cardinality({j \in DOMAIN Unread : d(Unread[j]) < k})
                      IN  [j \in 1 .. kept |-> [Unread[j] EXCEPT !.at = i + d(Unread[j])]]
        /\ rpc' = "idle"
        /\ UNCHANGED <<prod, wt_read_cursor_cache, bounds>>

-----------------------------------------------------------------------------
\* init_with_memory, or the same buffer after a long run that left it empty
Init ==
    /\ blocks = [i \in Slot |-> [status |-> "unused", block_num |-> 0]]
    /\ write_cursor = Start /\ read_cursor = Start
    /\ read_cursor_cache = Start /\ read_cursor_start_cache = Start
    /\ rpc = "idle"
    /\ prod = [p \in Producers |-> Idle]
    /\ wt_read_cursor_cache = [p \in Producers |-> NoCache]
    /\ tickets = <<>>
    /\ calls = 0 /\ crashes = 0

alloc_step(p) ==
    \/ load_read_cursor(p) \/ reload_view(p) \/ reserve(p)
    \/ rollback_load(p) \/ rollback_cas(p)
    \/ write_head(p) \/ confirm_low_space(p)

producer(p) == alloc_step(p) \/ fill(p) \/ commit_write_chunk(p)

\* The consumer's loop: read, return, publish
consumer == read_chunk \/ skip_invalid \/ return_read_chunk \/ publish_read_cursor

Next ==
    \/ \E p \in Producers, n \in Needs : load_write_cursor(p, n)
    \/ \E p \in Producers : producer(p) \/ tls_recycled(p)
    \/ consumer \/ read_an_empty_chunk \/ discard_read_chunk
    \/ crash \/ recover

Spec == Init /\ [][Next]_vars

\* A thread that entered alloc_write_chunk keeps running and its caller commits;
\* the worker keeps reading, and does not discard the same chunk for ever.
Fairness ==
    /\ \A p \in Producers : WF_vars(producer(p))
    /\ WF_vars(skip_invalid \/ return_read_chunk \/ publish_read_cursor)
    /\ SF_vars(read_chunk) /\ SF_vars(rpc = "lent" /\ return_read_chunk)

FairSpec == Spec /\ Fairness

-----------------------------------------------------------------------------
(* Properties *)

\* Every variable keeps its type.
TypeOK ==
    /\ blocks \in [Slot -> [status : Statuses, block_num : 0 .. N]]
    /\ write_cursor \in Cursor /\ read_cursor \in Cursor
    /\ read_cursor_cache \in Cursor /\ read_cursor_start_cache \in Cursor
    /\ rpc \in {"idle", "skip", "lent", "empty", "publish", "down"}
    /\ \A p \in Producers :
        /\ prod[p].pc \in {"idle", "view", "check", "rollback", "cas", "write",
                           "low", "fill", "commit"}
        /\ prod[p].need \in Needs \cup {0} /\ prod[p].cursor \in Cursor
        /\ prod[p].low_space_flag \in BOOLEAN
        /\ wt_read_cursor_cache[p] \in Cursor \cup {NoCache}
    /\ \A i \in DOMAIN tickets :
        tickets[i] \in [owner : Producers, at : Cursor, n : Needs, kind : Kinds]

Behind(t) == Plus(t.at, t.n)
Kept(t) == t.kind # "tentative"

\* The reservations lie gapless from read_cursor_ to write_cursor_: however the
\* fetch_adds and the compare-exchanges of the rollback loops interleave, the
\* write cursor is never moved back over a reservation somebody still holds.
NoHoles ==
    LET ends == <<read_cursor>> \o [i \in DOMAIN tickets |-> Behind(tickets[i])]
    IN  /\ \A i \in DOMAIN tickets : tickets[i].at = ends[i]
        /\ write_cursor = ends[Len(ends)]

\* The reservations that passed the check after fetch_add fit into the ring
\* together and leave a block free, although each was checked against a copy
\* of read_cursor_ of its own age.  So no two of them share a block, and a
\* consumer that ran through all of them stops at an unused block instead of
\* starting over with chunks it has read.
OneBlockFree ==
    \A i \in DOMAIN tickets :
        Kept(tickets[i]) => Minus(Behind(tickets[i]), read_cursor) < N

Occupied(j) ==
    \E i \in DOMAIN tickets :
        Kept(tickets[i]) /\ \E k \in 0 .. tickets[i].n - 1 :
                                j = Index(Plus(tickets[i].at, k))

\* A block that belongs to no kept reservation has status `unused`, so whoever
\* gets it next, as the head of a chunk not committed yet, cannot be mistaken
\* for one that is committed, whatever the bytes were before.
FreeBlocksClean ==
    /\ \A j \in Slot : ~Occupied(j) => blocks[j].status = "unused"
    /\ \A i \in DOMAIN tickets :
        tickets[i].kind = "open" => blocks[Index(tickets[i].at)].status = "unused"

\* The consumer passes the reservations in their order, each once: the ones
\* behind its cursor have been read or skipped and no other has.  A chunk it
\* hands out is one that was committed, with the size it was reserved for.
ReadInOrder ==
    /\ \A i \in DOMAIN tickets :
        (tickets[i].kind = "read") <=>
            Minus(tickets[i].at, read_cursor) < Minus(read_cursor_cache, read_cursor)
    /\ rpc = "lent" =>
        \E i \in DOMAIN tickets :
            /\ tickets[i].kind = "used" /\ tickets[i].at = read_cursor_cache
            /\ tickets[i].n = Head_.block_num

\* The reader cleared the status of an invalid chunk and was stopped before it
\* moved its cursor behind it
TornSkip ==
    \E i \in DOMAIN tickets :
        /\ tickets[i].at = read_cursor_cache /\ tickets[i].kind = "invalid"
        /\ Head_.status = "unused"

\* Reservations recovery can know of: the committed ones in front of the first
\* that was not written
CommittedPrefix ==
    LET open == {i \in DOMAIN Unread : Unread[i].kind \notin {"used", "invalid"}}
        last == IF open = {} THEN Len(Unread) ELSE Min(open) - 1
    IN  SubSeq(Unread, 1, last)

\* An invalid chunk of more than half the ring fails the check that recovery
\* makes behind it instead of at it
LongInvalid == \E i \in DOMAIN Unread : Unread[i].kind = "invalid" /\ 2 * Unread[i].n > N

Shape(ts) == [i \in DOMAIN ts |-> <<ts[i].owner, ts[i].n, ts[i].kind>>]

\* Recovery from the mapped file hands out nothing that was not committed, no
\* chunk twice and all of them in order; and it loses no committed chunk in
\* front of the first unfinished one unless the crash hit the two stores of a
\* skip or a chunk of more than half the ring was marked invalid.
RecoveryExact ==
    [][recover => /\ IsPrefix(Shape(tickets'), Shape(CommittedPrefix))
                  /\ TornSkip \/ LongInvalid \/ Shape(tickets') = Shape(CommittedPrefix)]_vars

\* While no thread writes and nothing passed is left to flush, data_traverse
\* visits exactly the committed chunks, each once and in their order: this is how
\* log_buffer, after a recovery, learns which entries belong to which old thread.
TraversalComplete ==
    ( /\ \A p \in Producers : prod[p].pc = "idle"
      /\ rpc = "idle" /\ read_cursor = read_cursor_cache )
        => LET used == {i \in DOMAIN tickets : tickets[i].kind = "used"}
               visited == data_traverse
               far(i) == Minus(visited[i], read_cursor)
           IN  /\ ToSet(visited) = {tickets[i].at : i \in used}
               /\ \A i, j \in DOMAIN visited : i < j => far(i) < far(j)

\* Reservations by fetch_add with a rollback keep the ring sound: TypeOK,
\* NoHoles, OneBlockFree and FreeBlocksClean together.
ReservationsSound == TypeOK /\ NoHoles /\ OneBlockFree /\ FreeBlocksClean

\* Both ways to go through the ring, the consumer's and data_traverse's, find
\* the committed chunks and nothing else.
ChunksFound == ReadInOrder /\ TraversalComplete

\* What the code takes for granted of the threads' copies of read_cursor_: the
\* consumer does not come close to a full cycle of the cursors' range while a
\* thread keeps its copy and reserves with it.
ViewsFresh ==
    \A p \in Producers :
        wt_read_cursor_cache[p] # NoCache =>
            Minus(read_cursor, wt_read_cursor_cache[p]) <= M - N * (Cardinality(Producers) + 1)

\* A producer that reserved too much gets out of its rollback loop, even though
\* it depends on everybody who reserved after it; and what was committed is
\* read, also when it lies behind chunks that were reserved earlier and
\* committed later.  (The calls of a behaviour are bounded, so there is a time
\* when nothing committed is left.)
Progress ==
    /\ \A p \in Producers : []<>(prod[p].pc \notin {"rollback", "cas"})
    /\ []<>(rpc = "down" \/ \A i \in DOMAIN tickets : tickets[i].kind # "used")

=============================================================================
