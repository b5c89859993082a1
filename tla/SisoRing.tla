------------------------------ MODULE SisoRing ------------------------------
(***************************************************************************)
(* siso_ring_buffer: the single-producer single-consumer ring behind every  *)
(* high-performance block, oversize buffer and snapshot.                    *)
(*                                                                          *)
(* The producer allocates a chunk, fills its payload and commits it; the    *)
(* consumer reads chunk by chunk (read_chunk) or takes a batch.  Each side  *)
(* works on private copies of the two shared cursors and reloads the other  *)
(* side's cursor only when its copy says there is no room or no data.  The  *)
(* ring may live in a memory-mapped file: a crash keeps the blocks and the  *)
(* two persistent cursors, and the next process revalidates them.           *)
(*                                                                          *)
(* Sizes are counted in blocks of payload: every condition of the code      *)
(* depends on the byte size only through ceil(size / 8).                    *)
(***************************************************************************)
EXTENDS RingArith

CONSTANTS
    Sizes,    \* payload sizes a producer asks for, in blocks
    Payload,  \* what a block of payload may hold
    Junk      \* what memory holds before anybody wrote it

ASSUME SisoAssumption == Sizes \subseteq Nat

VARIABLES
    blocks,                   \* aligned_blocks_: a chunk head or payload per block
    rt_reading_cursor_cache,  \* next chunk to read; persistent
    rt_writing_cursor_cache,  \* the reader's copy of writing_cursor
    wt_reading_cursor_cache,  \* the writer's copy of reading_cursor
    wt_writing_cursor_cache,  \* next chunk to write; persistent
    reading_cursor,           \* published by the reader
    writing_cursor,           \* published by the writer
    wpc,                      \* where the writer is
    write_handle,             \* the chunk the writer is filling
    rpc,                      \* where the reader is
    read_handle,              \* the cursor of the chunk the reader looks at
    batch_end,                \* end_cursor_ of the outstanding batch
    starts                    \* history: the cursors of committed chunks whose
                              \* blocks the reader has not released

cursors == <<rt_reading_cursor_cache, rt_writing_cursor_cache,
             wt_reading_cursor_cache, wt_writing_cursor_cache,
             reading_cursor, writing_cursor>>
writer == <<wpc, write_handle>>
reader == <<rpc, read_handle, batch_end>>
vars == <<blocks, cursors, writer, reader, starts>>

Heads == [block_num : 1 .. N, data_size : Sizes]
Handles == [size : Sizes \cup {0}, payload : Payload \cup {Junk},
            todo : SUBSET Slot, low_space_flag : BOOLEAN]
NoHandle == [size |-> 0, payload |-> Junk, todo |-> {}, low_space_flag |-> FALSE]

\* Blocks left before the end of the array
TailBlocks(c) == N - Index(c)

\* The head stays at the end of the array and the payload starts at block 0
Wraps(c, s) == s + 1 > TailBlocks(c)

SizeInvalid(c, s) ==
    \/ s + 1 > N
    \/ Wraps(c, s) /\ s + TailBlocks(c) > N

\* The blocks a chunk at cursor c takes, the skipped tail included
ChunkBlocks(c, s) == IF Wraps(c, s) THEN TailBlocks(c) + s ELSE s + 1

\* get_block_data_addr: the blocks that hold the payload
PayloadSlots(c, s) ==
    IF Wraps(c, s) THEN 0 .. s - 1 ELSE Index(c) + 1 .. Index(c) + s

\* The head at a cursor, and the cursor behind that chunk
HeadAt(c) == blocks[Index(c)]

\* Defect: the tail skipped by a wrapped payload is not counted
Behind_ignores_tail(c) == Plus(c, HeadAt(c).data_size + 1)

Behind(c) == Plus(c, HeadAt(c).block_num)

\* Defect: one block too many is taken for free
FreeBlocks_off_by_one(r) == Minus(Plus(r, N), wt_writing_cursor_cache) + 1

\* free_blocks as the writer computes it from a copy r of the reader's cursor
FreeBlocks(r) == Minus(Plus(r, N), wt_writing_cursor_cache)

-----------------------------------------------------------------------------
(* The producer *)

\* The copy of the reader's cursor the allocation decides on: the cached one,
\* or the published one when the cached one leaves too little room
WriterView(s) ==
    IF FreeBlocks(wt_reading_cursor_cache) < ChunkBlocks(wt_writing_cursor_cache, s)
    THEN reading_cursor
    ELSE wt_reading_cursor_cache

\* The allocation takes the ring from below to above half full
CrossesHalf(used, need) == 2 * used < N /\ 2 * (used + need) >= N

alloc_write_chunk(s, p) ==
    LET c    == wt_writing_cursor_cache
        need == ChunkBlocks(c, s)
        view == WriterView(s)
        free == FreeBlocks(view)
    IN  /\ wpc = "idle"
        /\ ~SizeInvalid(c, s)
        /\ free >= need
        /\ wt_reading_cursor_cache' = view
        /\ blocks' = [blocks EXCEPT ![Index(c)] =
                        [block_num |-> need, data_size |-> s]]
        /\ write_handle' = [size |-> s, payload |-> p,
                            todo |-> PayloadSlots(c, s),
                            low_space_flag |-> CrossesHalf(N - free, need)]
        /\ wpc' = IF CrossesHalf(N - free, need) THEN "confirm" ELSE "fill"
        /\ UNCHANGED <<rt_reading_cursor_cache, rt_writing_cursor_cache,
                       wt_writing_cursor_cache, reading_cursor, writing_cursor,
                       reader, starts>>

\* err_not_enough_space; err_alloc_size_invalid leaves everything as it was
alloc_fails(s) ==
    /\ wpc = "idle"
    /\ ~SizeInvalid(wt_writing_cursor_cache, s)
    /\ FreeBlocks(WriterView(s)) < ChunkBlocks(wt_writing_cursor_cache, s)
    /\ wt_reading_cursor_cache' = WriterView(s)
    /\ UNCHANGED <<blocks, rt_reading_cursor_cache, rt_writing_cursor_cache,
                   wt_writing_cursor_cache, reading_cursor, writing_cursor,
                   writer, reader, starts>>

\* Before it asks for a wake-up the allocation looks at the reader's cursor again
confirm_low_space ==
    LET need == HeadAt(wt_writing_cursor_cache).block_num
    IN  /\ wpc = "confirm"
        /\ wt_reading_cursor_cache' = reading_cursor
        /\ write_handle' = [write_handle EXCEPT !.low_space_flag =
                              2 * (N - FreeBlocks(reading_cursor) + need) >= N]
        /\ wpc' = "fill"
        /\ UNCHANGED <<blocks, rt_reading_cursor_cache, rt_writing_cursor_cache,
                       wt_writing_cursor_cache, reading_cursor, writing_cursor,
                       reader, starts>>

\* The caller copies its data into the chunk, block by block
fill ==
    /\ wpc = "fill"
    /\ \E i \in write_handle.todo :
        /\ blocks' = [blocks EXCEPT ![i] = write_handle.payload]
        /\ write_handle' = [write_handle EXCEPT !.todo = @ \ {i}]
    /\ UNCHANGED <<cursors, wpc, reader, starts>>

commit_write_chunk ==
    LET next == Behind(wt_writing_cursor_cache)
    IN  /\ wpc = "fill"
        /\ write_handle.todo = {}
        /\ wt_writing_cursor_cache' = next
        /\ writing_cursor' = next
        /\ starts' = starts \cup {wt_writing_cursor_cache}
        /\ wpc' = "idle" /\ write_handle' = NoHandle
        /\ UNCHANGED <<blocks, rt_reading_cursor_cache, rt_writing_cursor_cache,
                       wt_reading_cursor_cache, reading_cursor, reader>>

-----------------------------------------------------------------------------
(* The consumer *)

\* The reader reloads writing_cursor only when its copy is used up
ReaderView ==
    IF rt_writing_cursor_cache = rt_reading_cursor_cache
    THEN writing_cursor
    ELSE rt_writing_cursor_cache

\* The chunks between two positions of the reading cursor are released
Release(next) ==
    /\ reading_cursor' = next
    /\ starts' = {c \in starts : Minus(c, reading_cursor) >= Minus(next, reading_cursor)}

ReaderIdle == rpc' = "idle" /\ read_handle' = 0 /\ batch_end' = 0

\* read_chunk; with nothing to read the handle says err_empty_log_buffer
read_chunk ==
    /\ rpc = "idle"
    /\ rt_writing_cursor_cache' = ReaderView
    /\ IF ReaderView = rt_reading_cursor_cache
       THEN UNCHANGED <<rpc, read_handle>>
       ELSE rpc' = "lent" /\ read_handle' = rt_reading_cursor_cache
    /\ UNCHANGED <<blocks, rt_reading_cursor_cache, wt_reading_cursor_cache,
                   wt_writing_cursor_cache, reading_cursor, writing_cursor,
                   writer, batch_end, starts>>

return_read_chunk ==
    /\ rpc = "lent"
    /\ rt_reading_cursor_cache' = Behind(rt_reading_cursor_cache)
    /\ Release(Behind(rt_reading_cursor_cache))
    /\ ReaderIdle
    /\ UNCHANGED <<blocks, rt_writing_cursor_cache, wt_reading_cursor_cache,
                   wt_writing_cursor_cache, writing_cursor, writer>>

\* The chunk is read again later
discard_read_chunk ==
    /\ rpc = "lent"
    /\ ReaderIdle
    /\ UNCHANGED <<blocks, cursors, writer, starts>>

batch_read ==
    /\ rpc = "idle"
    /\ rt_writing_cursor_cache' = ReaderView
    /\ IF ReaderView = rt_reading_cursor_cache
       THEN UNCHANGED <<rpc, batch_end>>
       ELSE rpc' = "batch" /\ batch_end' = ReaderView
    /\ UNCHANGED <<blocks, rt_reading_cursor_cache, wt_reading_cursor_cache,
                   wt_writing_cursor_cache, reading_cursor, writing_cursor,
                   writer, read_handle, starts>>

\* next() moves the persistent cursor before the caller has seen the chunk
batch_next ==
    /\ rpc \in {"batch", "batch_lent"}
    /\ rt_reading_cursor_cache # batch_end
    /\ read_handle' = rt_reading_cursor_cache
    /\ rt_reading_cursor_cache' = Behind(rt_reading_cursor_cache)
    /\ rpc' = "batch_lent"
    /\ UNCHANGED <<blocks, rt_writing_cursor_cache, wt_reading_cursor_cache,
                   wt_writing_cursor_cache, reading_cursor, writing_cursor,
                   writer, batch_end, starts>>

\* log_buffer returns a batch once has_next() is false
return_batch_read_chunks ==
    /\ rpc = "batch_lent"
    /\ rt_reading_cursor_cache = batch_end
    /\ Release(rt_reading_cursor_cache)
    /\ ReaderIdle
    /\ UNCHANGED <<blocks, rt_reading_cursor_cache, rt_writing_cursor_cache,
                   wt_reading_cursor_cache, wt_writing_cursor_cache,
                   writing_cursor, writer>>

\* Walks every committed chunk; all it leaves behind is a fresh copy of writing_cursor
data_traverse ==
    /\ rpc = "idle"
    /\ rt_writing_cursor_cache' = writing_cursor
    /\ UNCHANGED <<blocks, rt_reading_cursor_cache, wt_reading_cursor_cache,
                   wt_writing_cursor_cache, reading_cursor, writing_cursor,
                   writer, reader, starts>>

-----------------------------------------------------------------------------
(* Life cycle *)

\* All copies of the reading cursor are at r, all of the writing cursor at w
SetCursors(r, w) ==
    /\ rt_reading_cursor_cache' = r /\ wt_reading_cursor_cache' = r
    /\ reading_cursor' = r
    /\ rt_writing_cursor_cache' = w /\ wt_writing_cursor_cache' = w
    /\ writing_cursor' = w

\* Defect: the writer's copy of the reading cursor is not reset
init_cursors_keeps_view ==
    /\ rt_reading_cursor_cache' = 0 /\ rt_writing_cursor_cache' = 0
    /\ wt_writing_cursor_cache' = 0
    /\ reading_cursor' = 0 /\ writing_cursor' = 0
    /\ starts' = {}
    /\ UNCHANGED wt_reading_cursor_cache

init_cursors == SetCursors(0, 0) /\ starts' = {}

\* group_list gives a recycled block, drained by the reader, to a new producer
renew ==
    /\ wpc = "idle" /\ rpc = "idle"
    /\ rt_reading_cursor_cache = wt_writing_cursor_cache
    /\ init_cursors
    /\ UNCHANGED <<blocks, writer, reader>>

crash ==
    /\ wpc # "down"
    /\ wpc' = "down" /\ write_handle' = NoHandle
    /\ rpc' = "down" /\ read_handle' = 0 /\ batch_end' = 0
    /\ UNCHANGED <<blocks, cursors, starts>>

\* The walk of try_recover_from_exist_memory_map over the `rem` blocks before
\* the saved writing cursor
ValidSnapshot ==
    LET valid[rem \in 0 .. N] ==
            \/ rem = 0
            \/ LET c == Minus(wt_writing_cursor_cache, rem)
                   h == HeadAt(c)
               IN  /\ h \in Heads
                   /\ h.block_num <= rem
                   /\ ~SizeInvalid(c, h.data_size)
                   /\ h.block_num = ChunkBlocks(c, h.data_size)
                   /\ valid[rem - h.block_num]
        remaining == Minus(wt_writing_cursor_cache, rt_reading_cursor_cache)
    IN  remaining <= N /\ valid[remaining]

\* Defect: recovery starts from the published reading cursor
recover_from_published ==
    /\ wpc = "down"
    /\ SetCursors(reading_cursor, wt_writing_cursor_cache)
    /\ wpc' = "idle" /\ rpc' = "idle"
    /\ UNCHANGED <<blocks, write_handle, read_handle, batch_end, starts>>

\* The next process maps the same file; an invalid snapshot starts an empty ring
recover ==
    /\ wpc = "down"
    /\ IF ValidSnapshot
       THEN /\ SetCursors(rt_reading_cursor_cache, wt_writing_cursor_cache)
            /\ starts' = {c \in starts : Minus(c, reading_cursor) >=
                            Minus(rt_reading_cursor_cache, reading_cursor)}
       ELSE init_cursors
    /\ wpc' = "idle" /\ rpc' = "idle"
    /\ UNCHANGED <<blocks, write_handle, read_handle, batch_end>>

-----------------------------------------------------------------------------
Init ==
    /\ blocks = [i \in Slot |-> Junk]
    /\ rt_reading_cursor_cache = 0 /\ rt_writing_cursor_cache = 0
    /\ wt_reading_cursor_cache = 0 /\ wt_writing_cursor_cache = 0
    /\ reading_cursor = 0 /\ writing_cursor = 0
    /\ wpc = "idle" /\ rpc = "idle"
    /\ write_handle = NoHandle
    /\ read_handle = 0 /\ batch_end = 0
    /\ starts = {}

Next ==
    \/ \E s \in Sizes, p \in Payload : alloc_write_chunk(s, p)
    \/ \E s \in Sizes : alloc_fails(s)
    \/ confirm_low_space \/ fill \/ commit_write_chunk
    \/ read_chunk \/ return_read_chunk \/ discard_read_chunk
    \/ batch_read \/ batch_next \/ return_batch_read_chunks
    \/ data_traverse \/ renew \/ crash \/ recover

Spec == Init /\ [][Next]_vars

-----------------------------------------------------------------------------
(* Properties *)

\* Every cursor stays a cursor and every handle a handle.
TypeOK ==
    /\ blocks \in [Slot -> Heads \cup Payload \cup {Junk}]
    /\ rt_reading_cursor_cache \in Cursor /\ rt_writing_cursor_cache \in Cursor
    /\ wt_reading_cursor_cache \in Cursor /\ wt_writing_cursor_cache \in Cursor
    /\ reading_cursor \in Cursor /\ writing_cursor \in Cursor
    /\ wpc \in {"idle", "confirm", "fill", "down"}
    /\ write_handle \in Handles
    /\ rpc \in {"idle", "lent", "batch", "batch_lent", "down"}
    /\ (wpc = "down") <=> (rpc = "down")
    /\ read_handle \in Cursor /\ batch_end \in Cursor
    /\ starts \subseteq Cursor

\* Distance from the oldest block the writer still believes to be taken
Off(c) == Minus(c, wt_reading_cursor_cache)

\* Seen from the writer's stale copy of the reader's cursor, the six cursors
\* never overtake one another, and the window they span never exceeds the ring,
\* whatever the cursors do at the wrap of the uint32_t.  This is what the two
\* asserts free_blocks <= block_count in alloc_write_chunk rely on.
CursorOrder ==
    /\ Off(reading_cursor) <= Off(rt_reading_cursor_cache)
    /\ Off(rt_reading_cursor_cache) <= Off(rt_writing_cursor_cache)
    /\ Off(rt_writing_cursor_cache) <= Off(writing_cursor)
    /\ writing_cursor = wt_writing_cursor_cache
    /\ Off(wt_writing_cursor_cache) <= N

\* The cursors at which a committed chunk may begin, or where the next one will
Boundary == starts \cup {wt_writing_cursor_cache}

\* The heads of all committed, unreleased chunks are intact and chained without
\* gap or overlap up to the writing cursor, and every cursor of the reader
\* stands on one of them: next() and return never step into a payload.
ChunkChain ==
    /\ \A c \in starts :
        /\ Off(reading_cursor) <= Off(c)
        /\ HeadAt(c) \in Heads
        /\ HeadAt(c).block_num = ChunkBlocks(c, HeadAt(c).data_size)
        /\ Off(c) + HeadAt(c).block_num <= Off(wt_writing_cursor_cache)
        /\ Behind(c) \in Boundary
        /\ \A d \in starts : Off(d) <= Off(c) \/ Off(d) >= Off(c) + HeadAt(c).block_num
    /\ {reading_cursor, rt_reading_cursor_cache, rt_writing_cursor_cache} \subseteq Boundary

\* The blocks of a chunk: its head and its payload
ChunkSlots(c, s) == {Index(c)} \cup PayloadSlots(c, s)

\* The blocks the writer is filling belong to no chunk the reader can still
\* look at: an allocation never reuses a block before it is released.
NoClobber ==
    wpc \in {"confirm", "fill"} =>
        \A c \in starts :
            ChunkSlots(wt_writing_cursor_cache, write_handle.size)
                \cap ChunkSlots(c, HeadAt(c).data_size) = {}

=============================================================================
