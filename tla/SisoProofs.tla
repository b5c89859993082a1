----------------------------- MODULE SisoProofs -----------------------------
(***************************************************************************)
(* Proofs about SisoRing, for every ring size, every range of the cursors   *)
(* and every set of payload sizes.                                          *)
(*                                                                          *)
(* CursorOrder alone is not inductive: a return moves the reading cursor by *)
(* the block_num it finds in memory, so the heads of all unreleased chunks  *)
(* must be known to be intact and chained (ChunkChain), and for that the    *)
(* blocks the writer fills must lie outside of them (WriterInv).            *)
(*                                                                          *)
(* The second half shows that the ring is a FIFO queue of whole chunks.     *)
(* The queue is what a walk from head to head finds in the blocks.  The     *)
(* walk is a recursive function, so each fact about it is proved along the  *)
(* chain of chunks: it holds at the writing cursor, and at a chunk if it    *)
(* holds behind it (AlongTheChain).                                         *)
(***************************************************************************)
EXTENDS SisoQueue, RingArithProofs, SequenceTheorems, WellFoundedInduction

\* What an allocated chunk guarantees until it is committed.
WriterInv ==
    wpc \in {"confirm", "fill"} =>
        LET c == wt_writing_cursor_cache
        IN  /\ write_handle.size \in Sizes
            /\ HeadAt(c) = [block_num |-> ChunkBlocks(c, write_handle.size),
                            data_size |-> write_handle.size]
            /\ ChunkBlocks(c, write_handle.size) \in 1 .. N
            /\ Off(c) + ChunkBlocks(c, write_handle.size) <= N
            /\ write_handle.todo \subseteq PayloadSlots(c, write_handle.size)

\* What the reader's handles say about its cursors.
ReaderInv ==
    /\ rpc = "lent" => rt_reading_cursor_cache # rt_writing_cursor_cache
    /\ rpc \in {"batch", "batch_lent"} => batch_end = rt_writing_cursor_cache

IInv == TypeOK /\ CursorOrder /\ ChunkChain /\ WriterInv /\ ReaderInv

-----------------------------------------------------------------------------
\* The blocks of a chunk are the ones its cursor range denotes.
LEMMA ChunkRange ==
    ASSUME NEW c \in Cursor, NEW s \in Nat, ChunkBlocks(c, s) \in 1 .. N,
           NEW i \in ChunkSlots(c, s)
    PROVE  \E k \in 0 .. N - 1 : k < ChunkBlocks(c, s) /\ i = Index(Plus(c, k))
  <1>1. N \in Nat /\ N >= 2 /\ Index(c) \in 0 .. N - 1
    BY RangeFacts, IndexType DEF Slot
  <1>2. CASE i = Index(c)
    <2>1. Plus(c, 0) = c
      BY RangeFacts DEF Plus, Cursor
    <2> QED BY <1>1, <1>2, <2>1
  <1>3. CASE i \in PayloadSlots(c, s) /\ Wraps(c, s)
    <2>1. PICK k \in 0 .. N - 1 : k = TailBlocks(c) + i
      BY <1>1, <1>3 DEF PayloadSlots, ChunkBlocks, TailBlocks
    <2>2. k < ChunkBlocks(c, s) /\ Index(c) + k = N + i /\ k \in 0 .. N /\ i \in Int
      BY <1>1, <1>3, <2>1 DEF PayloadSlots, ChunkBlocks, TailBlocks
    <2>3. Index(Plus(c, k)) = Index(c) + k - N
      BY <1>1, <1>3, <2>1, <2>2, IndexPlus DEF PayloadSlots
    <2> QED BY <1>1, <2>2, <2>3
  <1>4. CASE i \in PayloadSlots(c, s) /\ ~Wraps(c, s)
    <2>1. PICK k \in 0 .. N - 1 : k = i - Index(c)
      BY <1>1, <1>4 DEF PayloadSlots, Wraps, TailBlocks
    <2>2. k < ChunkBlocks(c, s) /\ Index(c) + k = i /\ i < N /\ k \in 0 .. N /\ i \in Int
      BY <1>1, <1>4, <2>1 DEF PayloadSlots, ChunkBlocks, Wraps, TailBlocks
    <2>3. Index(Plus(c, k)) = Index(c) + k
      BY <1>1, <2>1, <2>2, IndexPlus
    <2> QED BY <1>1, <2>2, <2>3
  <1> QED BY <1>2, <1>3, <1>4 DEF ChunkSlots

\* Two chunks that lie one behind the other in a window of at most one lap
\* have no block in common.
LEMMA DisjointChunks ==
    ASSUME NEW b \in Cursor, NEW c \in Cursor, NEW d \in Cursor,
           NEW s \in Nat, NEW t \in Nat,
           ChunkBlocks(c, s) \in 1 .. N, ChunkBlocks(d, t) \in 1 .. N,
           Minus(c, b) + ChunkBlocks(c, s) <= Minus(d, b),
           Minus(d, b) + ChunkBlocks(d, t) <= N
    PROVE  ChunkSlots(c, s) \cap ChunkSlots(d, t) = {}
  <1> SUFFICES ASSUME NEW i \in ChunkSlots(c, s), i \in ChunkSlots(d, t)
               PROVE  FALSE
    OBVIOUS
  <1>1. PICK j \in 0 .. N - 1 : j < ChunkBlocks(c, s) /\ i = Index(Plus(c, j))
    BY ChunkRange
  <1>2. PICK k \in 0 .. N - 1 : k < ChunkBlocks(d, t) /\ i = Index(Plus(d, k))
    BY ChunkRange
  <1>3. /\ N \in Nat /\ M \in Nat /\ M >= 2 * N /\ N >= 2
        /\ Minus(c, b) \in 0 .. M - 1 /\ Minus(d, b) \in 0 .. M - 1
        /\ j \in 0 .. N /\ k \in 0 .. N
    BY RangeFacts, PlusType, MinusType DEF Cursor
  <1>4. /\ Plus(c, j) \in Cursor /\ Minus(Plus(c, j), b) = Minus(c, b) + j
        /\ Plus(d, k) \in Cursor /\ Minus(Plus(d, k), b) = Minus(d, b) + k
    <2>1. Minus(c, b) + j < M /\ Minus(d, b) + k < M
      BY <1>1, <1>2, <1>3
    <2> QED BY <1>3, <2>1, PlusDistance, PlusType
  <1>5. Minus(Plus(d, k), Plus(c, j)) = Minus(d, b) + k - (Minus(c, b) + j)
    BY <1>1, <1>2, <1>3, <1>4, Rebase
  <1>6. Minus(Plus(d, k), Plus(c, j)) \in 1 .. N - 1
    BY <1>1, <1>2, <1>3, <1>5
  <1> QED BY <1>1, <1>2, <1>4, <1>6, DistinctSlots

\* In a window of at most one lap, the writer's arithmetic on uint32_t gives
\* the number of free blocks.
LEMMA FreeIs ==
    ASSUME NEW r \in Cursor, NEW w \in Cursor, Minus(w, r) <= N
    PROVE  Minus(Plus(r, N), w) = N - Minus(w, r)
  BY RangeFacts DEF Plus, Minus, Cursor

-----------------------------------------------------------------------------
\* Every unreleased chunk ends at or before the writing cursor, so a chunk is
\* never empty and every boundary lies between the two ends of the window.
LEMMA Window ==
    ASSUME TypeOK, CursorOrder, ChunkChain
    PROVE  /\ \A c \in Boundary :
                /\ c \in Cursor /\ Off(c) \in 0 .. N
                /\ Off(reading_cursor) <= Off(c)
                /\ Off(c) <= Off(wt_writing_cursor_cache)
           /\ \A c \in starts :
                /\ HeadAt(c).block_num \in 1 .. N
                /\ Behind(c) \in Cursor
                /\ Off(Behind(c)) = Off(c) + HeadAt(c).block_num
  <1>1. N \in Nat /\ N >= 2 /\ M \in Nat /\ M >= 2 * N
    BY RangeFacts
  <1>2. \A c \in Boundary : c \in Cursor /\ Off(c) \in 0 .. M - 1
    <2> TAKE c \in Boundary
    <2>1. c \in Cursor /\ wt_reading_cursor_cache \in Cursor
      BY DEF TypeOK, Boundary
    <2> QED BY <2>1, MinusType, <1>1 DEF Off, Cursor
  <1>3. reading_cursor \in Boundary /\ wt_writing_cursor_cache \in Boundary
    BY DEF ChunkChain, Boundary
  <1>4. \A c \in starts : HeadAt(c).block_num \in 1 .. N
    BY DEF ChunkChain, Heads
  <1>5. \A c \in starts : Off(c) <= Off(wt_writing_cursor_cache)
    BY <1>1, <1>2, <1>3, <1>4 DEF ChunkChain, Boundary
  <1>6. Off(wt_writing_cursor_cache) <= N
    BY DEF CursorOrder
  <1>7. Off(reading_cursor) <= Off(wt_writing_cursor_cache)
    <2>1. {reading_cursor, rt_reading_cursor_cache, rt_writing_cursor_cache} \subseteq Boundary
      BY DEF ChunkChain
    <2>2. /\ Off(reading_cursor) \in Int /\ Off(rt_reading_cursor_cache) \in Int
          /\ Off(rt_writing_cursor_cache) \in Int
          /\ Off(wt_writing_cursor_cache) \in Int
      BY <1>1, <1>2, <1>3, <2>1
    <2> QED BY <2>2 DEF CursorOrder
  <1>8. \A c \in Boundary : Off(reading_cursor) <= Off(c)
    BY <1>7 DEF ChunkChain, Boundary
  <1>9. \A c \in starts : Behind(c) \in Cursor /\ Off(Behind(c)) = Off(c) + HeadAt(c).block_num
    <2> TAKE c \in starts
    <2>1. /\ c \in Cursor /\ wt_reading_cursor_cache \in Cursor
          /\ HeadAt(c).block_num \in 0 .. N
          /\ Off(c) \in 0 .. M - 1 /\ Off(c) <= N
      BY <1>1, <1>2, <1>3, <1>4, <1>5, <1>6 DEF TypeOK, Boundary
    <2>2. Minus(c, wt_reading_cursor_cache) + HeadAt(c).block_num < M
      <3>1. Off(c) + HeadAt(c).block_num <= Off(wt_writing_cursor_cache)
        BY DEF ChunkChain
      <3>2. Off(wt_writing_cursor_cache) \in 0 .. M - 1
        BY <1>2, <1>3
      <3> QED BY <1>1, <2>1, <3>1, <3>2 DEF Off
    <2> QED BY <2>1, <2>2, PlusDistance, PlusType, MinusType DEF Behind, Off
  <1> QED BY <1>1, <1>2, <1>3, <1>4, <1>5, <1>6, <1>8, <1>9 DEF Boundary

\* A step that leaves the writing cursor and the heads of all chunks alone and
\* moves the other cursors up to later boundaries keeps the order of the
\* cursors and the chain of the chunks.
LEMMA Shift ==
    ASSUME TypeOK, CursorOrder, ChunkChain,
           UNCHANGED <<wt_writing_cursor_cache, writing_cursor>>,
           reading_cursor' \in Boundary,
           rt_reading_cursor_cache' \in Boundary,
           rt_writing_cursor_cache' \in Boundary,
           Minus(reading_cursor', wt_reading_cursor_cache)
               <= Minus(rt_reading_cursor_cache', wt_reading_cursor_cache),
           Minus(rt_reading_cursor_cache', wt_reading_cursor_cache)
               <= Minus(rt_writing_cursor_cache', wt_reading_cursor_cache),
           wt_reading_cursor_cache' \in {wt_reading_cursor_cache, reading_cursor'},
           starts' = {c \in starts : Minus(c, wt_reading_cursor_cache)
                                 >= Minus(reading_cursor', wt_reading_cursor_cache)},
           \A c \in starts : HeadAt(c)' = HeadAt(c)
    PROVE  CursorOrder' /\ ChunkChain'
  <1> DEFINE base == wt_reading_cursor_cache
  <1> DEFINE kept == {c \in Boundary : Off(c) >= Minus(reading_cursor', base)}
  <1>1. N \in Nat /\ N >= 2 /\ M \in Nat /\ M >= 2 * N /\ base \in Cursor
    BY RangeFacts DEF TypeOK
  <1>2. \A c \in Boundary : c \in Cursor /\ Off(c) \in 0 .. N
                            /\ Off(c) <= Off(wt_writing_cursor_cache)
    BY Window
  <1>3. \E delta \in 0 .. N :
            /\ delta <= Minus(reading_cursor', base)
            /\ \A c \in kept : Off(c)' = Off(c) - delta
    <2>1. CASE wt_reading_cursor_cache' = base
      <3>1. \A c \in kept : Off(c)' = Off(c) - 0
        BY <1>2, <2>1 DEF Off
      <3>2. 0 <= Minus(reading_cursor', base)
        BY <1>2 DEF Off
      <3> QED BY <1>1, <3>1, <3>2
    <2>2. CASE wt_reading_cursor_cache' = reading_cursor'
      <3>1. \A c \in kept : Off(c)' = Off(c) - Minus(reading_cursor', base)
        <4> TAKE c \in kept
        <4>1. c \in Cursor /\ reading_cursor' \in Cursor
          BY <1>2
        <4>2. Minus(reading_cursor', base) <= Minus(c, base)
          BY <1>2 DEF Off
        <4> QED BY <1>1, <2>2, <4>1, <4>2, Rebase DEF Off
      <3>2. Minus(reading_cursor', base) \in 0 .. N
        BY <1>2 DEF Off
      <3> QED BY <3>1, <3>2
    <2> QED BY <2>1, <2>2
  <1>4. PICK delta \in 0 .. N :
            /\ delta <= Minus(reading_cursor', base)
            /\ \A c \in kept : Off(c)' = Off(c) - delta
    BY <1>3
  <1>5. /\ reading_cursor' \in kept /\ rt_reading_cursor_cache' \in kept
        /\ rt_writing_cursor_cache' \in kept /\ wt_writing_cursor_cache' \in kept
    <2>1. wt_writing_cursor_cache' \in Boundary
      BY DEF Boundary
    <2>2. Off(wt_writing_cursor_cache) >= Minus(reading_cursor', base)
      BY <1>2 DEF Off
    <2>3. /\ Minus(reading_cursor', base) \in Int
          /\ Minus(rt_reading_cursor_cache', base) \in Int
          /\ Minus(rt_writing_cursor_cache', base) \in Int
      BY <1>2 DEF Off
    <2> QED BY <2>1, <2>2, <2>3 DEF Off
  <1>6. kept = starts' \cup {wt_writing_cursor_cache'} /\ kept = Boundary'
    BY <1>5 DEF Boundary, Off
  <1>7. \A c \in kept : /\ Off(c) \in 0 .. N /\ Off(c) >= Minus(reading_cursor', base)
                        /\ Off(c) <= Off(wt_writing_cursor_cache)
    BY <1>2
  <1>8. CursorOrder'
    <2>1. /\ Off(reading_cursor') <= Off(rt_reading_cursor_cache')
          /\ Off(rt_reading_cursor_cache') <= Off(rt_writing_cursor_cache')
          /\ Off(rt_writing_cursor_cache') <= Off(wt_writing_cursor_cache')
      BY <1>5, <1>7 DEF Off
    <2>2. /\ Off(reading_cursor)' = Off(reading_cursor') - delta
          /\ Off(rt_reading_cursor_cache)' = Off(rt_reading_cursor_cache') - delta
          /\ Off(rt_writing_cursor_cache)' = Off(rt_writing_cursor_cache') - delta
          /\ Off(wt_writing_cursor_cache)' = Off(wt_writing_cursor_cache') - delta
      BY <1>4, <1>5 DEF Off
    <2>3. writing_cursor' = wt_writing_cursor_cache'
      BY DEF CursorOrder
    <2>4. /\ Off(reading_cursor') \in 0 .. N /\ Off(rt_reading_cursor_cache') \in 0 .. N
          /\ Off(rt_writing_cursor_cache') \in 0 .. N
          /\ Off(wt_writing_cursor_cache') \in 0 .. N
      BY <1>5, <1>7
    <2>5. Off(writing_cursor)' = Off(wt_writing_cursor_cache)'
      BY <2>3 DEF Off
    <2> QED BY <1>1, <2>1, <2>2, <2>3, <2>4, <2>5 DEF CursorOrder
  <1>9. ASSUME NEW c \in starts'
        PROVE  /\ c \in kept /\ c \in starts
               /\ HeadAt(c)' = HeadAt(c) /\ Behind(c)' = Behind(c)
               /\ HeadAt(c).block_num \in 1 .. N
               /\ Behind(c) \in kept
    <2>1. c \in kept /\ c \in starts /\ HeadAt(c)' = HeadAt(c)
      BY <1>6, <1>9
    <2>2. /\ HeadAt(c).block_num \in 1 .. N /\ Behind(c) \in Boundary
          /\ Off(Behind(c)) = Off(c) + HeadAt(c).block_num
      BY <2>1, Window DEF ChunkChain
    <2>3. Off(Behind(c)) >= Minus(reading_cursor', base)
      BY <1>5, <1>7, <2>1, <2>2 DEF Off
    <2> QED BY <2>1, <2>2, <2>3 DEF Behind
  <1>10. ChunkChain'
    <2>1. ASSUME NEW c \in starts'
          PROVE  /\ Off(reading_cursor)' <= Off(c)'
                 /\ HeadAt(c)' \in Heads
                 /\ HeadAt(c)'.block_num = ChunkBlocks(c, HeadAt(c)'.data_size)
                 /\ Off(c)' + HeadAt(c)'.block_num <= Off(wt_writing_cursor_cache)'
                 /\ Behind(c)' \in Boundary'
                 /\ \A d \in starts' : \/ Off(d)' <= Off(c)'
                                       \/ Off(d)' >= Off(c)' + HeadAt(c)'.block_num
      <3>1. /\ c \in kept /\ c \in starts /\ HeadAt(c)' = HeadAt(c)
            /\ Behind(c)' = Behind(c) /\ Behind(c) \in kept
            /\ HeadAt(c).block_num \in 1 .. N
        BY <1>9, <2>1
      <3>2. Off(c)' = Off(c) - delta /\ Off(c) \in 0 .. N
        BY <1>4, <1>7, <3>1
      <3>3. Off(reading_cursor)' = Off(reading_cursor') - delta
            /\ Off(reading_cursor') \in 0 .. N
            /\ Off(reading_cursor') <= Off(c)
        BY <1>4, <1>5, <1>7, <3>1 DEF Off
      <3>4. Off(reading_cursor)' <= Off(c)'
        BY <1>1, <3>2, <3>3
      <3>5. /\ HeadAt(c) \in Heads
            /\ HeadAt(c).block_num = ChunkBlocks(c, HeadAt(c).data_size)
            /\ Off(c) + HeadAt(c).block_num <= Off(wt_writing_cursor_cache)
        BY <3>1 DEF ChunkChain
      <3>6. /\ Off(wt_writing_cursor_cache)' = Off(wt_writing_cursor_cache) - delta
            /\ Off(wt_writing_cursor_cache) \in 0 .. N
        BY <1>4, <1>5, <1>7 DEF Off
      <3>7. Off(c)' + HeadAt(c)'.block_num <= Off(wt_writing_cursor_cache)'
        BY <1>1, <3>1, <3>2, <3>5, <3>6
      <3>8. ASSUME NEW d \in starts'
            PROVE  Off(d)' <= Off(c)' \/ Off(d)' >= Off(c)' + HeadAt(c)'.block_num
        <4>1. d \in kept /\ d \in starts
          BY <1>9, <3>8
        <4>2. Off(d)' = Off(d) - delta /\ Off(d) \in 0 .. N
          BY <1>4, <1>7, <4>1
        <4>3. Off(d) <= Off(c) \/ Off(d) >= Off(c) + HeadAt(c).block_num
          BY <3>1, <4>1 DEF ChunkChain
        <4> QED BY <1>1, <3>1, <3>2, <4>2, <4>3
      <3> QED BY <1>6, <3>1, <3>4, <3>5, <3>7, <3>8
    <2>2. {reading_cursor', rt_reading_cursor_cache', rt_writing_cursor_cache'} \subseteq Boundary'
      BY <1>5, <1>6
    <2>3. \A c \in starts' : ChunkBlocks(c, HeadAt(c)'.data_size)
                             = ChunkBlocks(c, HeadAt(c).data_size)'
      BY <1>9
    <2> QED BY <2>1, <2>2, <2>3 DEF ChunkChain
  <1> QED BY <1>8, <1>10

-----------------------------------------------------------------------------
\* Writing blocks of the chunk that is being filled leaves all heads alone.
LEMMA HeadsKept ==
    ASSUME TypeOK, CursorOrder, ChunkChain, NEW s \in Nat,
           ChunkBlocks(wt_writing_cursor_cache, s) \in 1 .. N,
           NEW r \in Boundary, Off(r) <= Off(reading_cursor),
           Minus(wt_writing_cursor_cache, r)
               + ChunkBlocks(wt_writing_cursor_cache, s) <= N,
           NEW c \in starts
    PROVE  ChunkSlots(c, HeadAt(c).data_size)
             \cap ChunkSlots(wt_writing_cursor_cache, s) = {}
  <1>1. /\ c \in Cursor /\ wt_writing_cursor_cache \in Cursor /\ r \in Cursor
        /\ wt_reading_cursor_cache \in Cursor
        /\ Off(c) \in 0 .. N /\ Off(r) \in 0 .. N
        /\ Off(wt_writing_cursor_cache) \in 0 .. N
        /\ Off(r) <= Off(c) /\ Off(r) <= Off(wt_writing_cursor_cache)
    <2>1. c \in Boundary /\ wt_writing_cursor_cache \in Boundary /\ reading_cursor \in Boundary
      BY DEF Boundary, ChunkChain
    <2>2. Off(r) \in 0 .. N /\ Off(reading_cursor) \in 0 .. N
      BY <2>1, Window
    <2> QED BY <2>1, <2>2, Window DEF TypeOK
  <1>2. /\ HeadAt(c).data_size \in Nat
        /\ HeadAt(c).block_num = ChunkBlocks(c, HeadAt(c).data_size)
        /\ ChunkBlocks(c, HeadAt(c).data_size) \in 1 .. N
        /\ Off(c) + HeadAt(c).block_num <= Off(wt_writing_cursor_cache)
    BY SisoAssumption DEF ChunkChain, Heads
  <1>3. /\ Minus(c, r) = Off(c) - Off(r)
        /\ Minus(wt_writing_cursor_cache, r) = Off(wt_writing_cursor_cache) - Off(r)
    BY <1>1, Rebase DEF Off
  <1>4. Minus(c, r) + ChunkBlocks(c, HeadAt(c).data_size)
          <= Minus(wt_writing_cursor_cache, r)
    BY <1>1, <1>2, <1>3
  <1> QED BY <1>1, <1>2, <1>4, DisjointChunks

\* The head of a chunk is not one of its payload blocks.
LEMMA HeadNotPayload ==
    ASSUME NEW c \in Cursor, NEW s \in Nat, ChunkBlocks(c, s) \in 1 .. N
    PROVE  Index(c) \notin PayloadSlots(c, s) /\ PayloadSlots(c, s) \subseteq Slot
  <1>1. N \in Nat /\ N >= 2 /\ Index(c) \in 0 .. N - 1
    BY RangeFacts, IndexType DEF Slot
  <1> QED BY <1>1 DEF PayloadSlots, ChunkBlocks, Wraps, TailBlocks, Slot

\* A size that is not rejected gives a chunk that fits into the ring.
LEMMA AcceptedFits ==
    ASSUME NEW c \in Cursor, NEW s \in Nat, ~SizeInvalid(c, s)
    PROVE  ChunkBlocks(c, s) \in 1 .. N
  <1>1. N \in Nat /\ N >= 2 /\ Index(c) \in 0 .. N - 1
    BY RangeFacts, IndexType DEF Slot
  <1> QED BY <1>1 DEF SizeInvalid, ChunkBlocks, Wraps, TailBlocks

\* What the writer computes as free is what is left of the ring behind its view.
LEMMA FreeRoom ==
    ASSUME TypeOK, CursorOrder, ChunkChain,
           NEW r \in {wt_reading_cursor_cache, reading_cursor}
    PROVE  /\ FreeBlocks(r) = N - Minus(wt_writing_cursor_cache, r)
           /\ Minus(wt_writing_cursor_cache, r) \in 0 .. N
           /\ Minus(wt_writing_cursor_cache, r) <= Off(wt_writing_cursor_cache)
  <1>1. /\ wt_writing_cursor_cache \in Cursor /\ r \in Cursor
        /\ wt_reading_cursor_cache \in Cursor
        /\ reading_cursor \in Cursor
    BY DEF TypeOK
  <1>2. reading_cursor \in Boundary /\ wt_writing_cursor_cache \in Boundary
    BY DEF ChunkChain, Boundary
  <1>3. /\ Off(wt_writing_cursor_cache) \in 0 .. N /\ Off(reading_cursor) \in 0 .. N
        /\ Off(reading_cursor) <= Off(wt_writing_cursor_cache)
    BY <1>2, Window
  <1>4. Minus(wt_writing_cursor_cache, reading_cursor)
          = Off(wt_writing_cursor_cache) - Off(reading_cursor)
    BY <1>1, <1>3, Rebase DEF Off
  <1>5. /\ Minus(wt_writing_cursor_cache, r) \in 0 .. N
        /\ Minus(wt_writing_cursor_cache, r) <= Off(wt_writing_cursor_cache)
    <2>1. CASE r = wt_reading_cursor_cache
      BY <1>3, <2>1 DEF Off
    <2>2. CASE r = reading_cursor
      BY <1>3, <1>4, <2>2, RangeFacts
    <2> QED BY <2>1, <2>2
  <1> QED BY <1>1, <1>5, FreeIs, RangeFacts DEF FreeBlocks

\* The reader's cursors as Shift needs them, when the reader does not move.
LEMMA ReaderStays ==
    ASSUME TypeOK, CursorOrder, ChunkChain
    PROVE  /\ reading_cursor \in Boundary /\ rt_reading_cursor_cache \in Boundary
           /\ rt_writing_cursor_cache \in Boundary /\ writing_cursor \in Boundary
           /\ starts = {c \in starts : Minus(c, wt_reading_cursor_cache)
                                   >= Minus(reading_cursor, wt_reading_cursor_cache)}
           /\ Off(reading_cursor) \in 0 .. N /\ Off(rt_reading_cursor_cache) \in 0 .. N
           /\ Off(rt_writing_cursor_cache) \in 0 .. N
           /\ Off(wt_writing_cursor_cache) \in 0 .. N
  <1>1. /\ reading_cursor \in Boundary /\ rt_reading_cursor_cache \in Boundary
        /\ rt_writing_cursor_cache \in Boundary /\ writing_cursor \in Boundary
        /\ wt_writing_cursor_cache \in Boundary
    BY DEF ChunkChain, CursorOrder, Boundary
  <1>2. \A c \in starts : Off(c) \in 0 .. N /\ Off(reading_cursor) <= Off(c)
    BY Window DEF Boundary
  <1>3. Off(reading_cursor) \in 0 .. N
    BY <1>1, Window
  <1>4. \A c \in starts : Minus(c, wt_reading_cursor_cache)
                          >= Minus(reading_cursor, wt_reading_cursor_cache)
    BY <1>2, <1>3 DEF Off
  <1> QED BY <1>1, <1>4, Window

\* The chunk the reader stands on, when its copy of the writing cursor says
\* there is one: the cursor behind it is a boundary the reader may move to.
LEMMA NextChunk ==
    ASSUME TypeOK, CursorOrder, ChunkChain,
           rt_reading_cursor_cache # rt_writing_cursor_cache
    PROVE  /\ rt_reading_cursor_cache \in starts
           /\ Behind(rt_reading_cursor_cache) \in Boundary
           /\ Off(rt_reading_cursor_cache) <= Off(Behind(rt_reading_cursor_cache))
           /\ Off(Behind(rt_reading_cursor_cache)) <= Off(rt_writing_cursor_cache)
  <1> DEFINE r == rt_reading_cursor_cache
  <1> DEFINE w == rt_writing_cursor_cache
  <1>1. /\ r \in Boundary /\ w \in Boundary /\ r \in Cursor /\ w \in Cursor
        /\ wt_reading_cursor_cache \in Cursor
        /\ Off(r) \in 0 .. N /\ Off(w) \in 0 .. N
        /\ Off(wt_writing_cursor_cache) \in 0 .. N
        /\ Off(r) <= Off(w) /\ Off(w) <= Off(wt_writing_cursor_cache)
    BY ReaderStays, Window DEF TypeOK, CursorOrder
  <1>2. Off(r) # Off(w)
    BY <1>1, SameDistance DEF Off
  <1>3. r \in starts
    <2>1. r # wt_writing_cursor_cache
      BY <1>1, <1>2
    <2> QED BY <1>1, <2>1 DEF Boundary
  <1>4. /\ Behind(r) \in Boundary /\ HeadAt(r).block_num \in 1 .. N
        /\ Off(Behind(r)) = Off(r) + HeadAt(r).block_num
        /\ Off(r) + HeadAt(r).block_num <= Off(wt_writing_cursor_cache)
    BY <1>3, Window DEF ChunkChain
  <1>5. Off(Behind(r)) <= Off(w)
    <2>1. CASE w = wt_writing_cursor_cache
      BY <1>4, <2>1
    <2>2. CASE w \in starts
      <3>1. Off(w) <= Off(r) \/ Off(w) >= Off(r) + HeadAt(r).block_num
        BY <1>3, <2>2 DEF ChunkChain
      <3> QED BY <1>1, <1>2, <1>4, <3>1
    <2> QED BY <1>1, <2>1, <2>2 DEF Boundary
  <1> QED BY <1>1, <1>3, <1>4, <1>5

-----------------------------------------------------------------------------
(* Every action preserves the invariant *)

LEMMA AllocStep ==
    ASSUME IInv, NEW s \in Sizes, NEW p \in Payload, alloc_write_chunk(s, p)
    PROVE  IInv'
  <1> DEFINE c == wt_writing_cursor_cache
  <1> DEFINE need == ChunkBlocks(c, s)
  <1> DEFINE view == WriterView(s)
  <1> USE DEF IInv
  <1>1. c \in Cursor /\ s \in Nat /\ need \in 1 .. N /\ Index(c) \in Slot
    BY AcceptedFits, IndexType, SisoAssumption DEF TypeOK, alloc_write_chunk
  <1>2. view \in {wt_reading_cursor_cache, reading_cursor}
    BY DEF WriterView
  <1>3. /\ Minus(c, view) \in 0 .. N
        /\ Minus(c, view) + need <= N
    <2>1. FreeBlocks(view) = N - Minus(c, view) /\ Minus(c, view) \in 0 .. N
      BY <1>2, FreeRoom
    <2>2. FreeBlocks(view) >= need
      BY DEF alloc_write_chunk
    <2> QED BY <1>1, <2>1, <2>2, RangeFacts
  <1>4. \A d \in starts : HeadAt(d)' = HeadAt(d)
    <2> TAKE d \in starts
    <2>1. ChunkSlots(d, HeadAt(d).data_size) \cap ChunkSlots(c, s) = {}
      <3>1. Minus(c, reading_cursor) <= Minus(c, view)
        BY <1>2, FreeRoom DEF Off
      <3>2. Minus(c, reading_cursor) + need <= N /\ reading_cursor \in Boundary
        BY <1>1, <1>2, <1>3, <3>1, FreeRoom, RangeFacts, ReaderStays
      <3>3. Off(reading_cursor) <= Off(reading_cursor)
        BY ReaderStays
      <3> QED BY <1>1, <3>2, <3>3, HeadsKept
    <2>2. Index(d) # Index(c)
      BY <2>1 DEF ChunkSlots
    <2> QED BY <1>1, <2>2 DEF HeadAt, alloc_write_chunk, TypeOK
  <1>5. CursorOrder' /\ ChunkChain'
    <2>1. /\ Minus(reading_cursor, wt_reading_cursor_cache)
               <= Minus(rt_reading_cursor_cache, wt_reading_cursor_cache)
          /\ Minus(rt_reading_cursor_cache, wt_reading_cursor_cache)
               <= Minus(rt_writing_cursor_cache, wt_reading_cursor_cache)
      BY DEF CursorOrder, Off
    <2>2. /\ UNCHANGED <<rt_reading_cursor_cache, rt_writing_cursor_cache,
                         wt_writing_cursor_cache, reading_cursor, writing_cursor, starts>>
          /\ wt_reading_cursor_cache' \in {wt_reading_cursor_cache, reading_cursor'}
      BY <1>2 DEF alloc_write_chunk
    <2> QED BY <1>4, <2>1, <2>2, ReaderStays, Shift
  <1>6. TypeOK'
    <2>1. [block_num |-> need, data_size |-> s] \in Heads
      BY <1>1 DEF Heads
    <2>2. blocks' \in [Slot -> Heads \cup Payload \cup {Junk}]
      BY <1>1, <2>1 DEF TypeOK, alloc_write_chunk
    <2>3. write_handle' \in Handles /\ wpc' \in {"confirm", "fill"} /\ rpc # "down"
      BY <1>1, HeadNotPayload DEF TypeOK, alloc_write_chunk, Handles, CrossesHalf
    <2> QED BY <1>2, <2>2, <2>3 DEF TypeOK, alloc_write_chunk, reader
  <1>7. WriterInv'
    <2>1. blocks'[Index(c)] = [block_num |-> need, data_size |-> s]
      BY <1>1 DEF alloc_write_chunk, TypeOK
    <2>2. /\ wt_reading_cursor_cache' = view /\ wt_writing_cursor_cache' = c
          /\ write_handle'.size = s /\ write_handle'.todo = PayloadSlots(c, s)
      BY DEF alloc_write_chunk
    <2> QED BY <1>1, <1>3, <2>1, <2>2 DEF WriterInv, HeadAt, Off
  <1>8. ReaderInv'
    BY DEF ReaderInv, alloc_write_chunk, reader
  <1> QED BY <1>5, <1>6, <1>7, <1>8

LEMMA AllocFailsStep ==
    ASSUME IInv, NEW s \in Sizes, alloc_fails(s)
    PROVE  IInv'
  <1> USE DEF IInv
  <1>1. /\ UNCHANGED <<blocks, rt_reading_cursor_cache, rt_writing_cursor_cache,
                       wt_writing_cursor_cache, reading_cursor, writing_cursor,
                       wpc, write_handle, rpc, read_handle, batch_end, starts>>
        /\ wt_reading_cursor_cache' \in {wt_reading_cursor_cache, reading_cursor'}
        /\ wpc = "idle"
    BY DEF alloc_fails, WriterView, writer, reader
  <1>2. /\ Minus(reading_cursor, wt_reading_cursor_cache)
             <= Minus(rt_reading_cursor_cache, wt_reading_cursor_cache)
        /\ Minus(rt_reading_cursor_cache, wt_reading_cursor_cache)
             <= Minus(rt_writing_cursor_cache, wt_reading_cursor_cache)
    BY DEF CursorOrder, Off
  <1>3. CursorOrder' /\ ChunkChain'
    BY <1>1, <1>2, ReaderStays, Shift DEF HeadAt
  <1>4. TypeOK' /\ WriterInv' /\ ReaderInv'
    BY <1>1 DEF TypeOK, WriterInv, ReaderInv
  <1> QED BY <1>3, <1>4

LEMMA ConfirmStep ==
    ASSUME IInv, confirm_low_space
    PROVE  IInv'
  <1> DEFINE c == wt_writing_cursor_cache
  <1> DEFINE need == ChunkBlocks(c, write_handle.size)
  <1> USE DEF IInv
  <1>1. /\ UNCHANGED <<blocks, rt_reading_cursor_cache, rt_writing_cursor_cache,
                       wt_writing_cursor_cache, reading_cursor, writing_cursor,
                       rpc, read_handle, batch_end, starts>>
        /\ wt_reading_cursor_cache' = reading_cursor
        /\ wpc = "confirm" /\ wpc' = "fill"
        /\ write_handle' = [write_handle EXCEPT !.low_space_flag = write_handle'.low_space_flag]
        /\ write_handle'.low_space_flag \in BOOLEAN
    BY DEF confirm_low_space, reader, TypeOK, Handles
  <1>2. /\ Minus(reading_cursor, wt_reading_cursor_cache)
             <= Minus(rt_reading_cursor_cache, wt_reading_cursor_cache)
        /\ Minus(rt_reading_cursor_cache, wt_reading_cursor_cache)
             <= Minus(rt_writing_cursor_cache, wt_reading_cursor_cache)
    BY DEF CursorOrder, Off
  <1>3. CursorOrder' /\ ChunkChain'
    BY <1>1, <1>2, ReaderStays, Shift DEF HeadAt
  <1>4. TypeOK' /\ ReaderInv'
    BY <1>1 DEF TypeOK, ReaderInv, Handles
  <1>5. WriterInv'
    <2>1. write_handle'.size = write_handle.size /\ write_handle'.todo = write_handle.todo
      BY <1>1 DEF TypeOK, Handles
    <2>2. need \in 1 .. N /\ Off(c) + need <= N
      BY <1>1 DEF WriterInv
    <2>3. Minus(c, reading_cursor) \in 0 .. N /\ Minus(c, reading_cursor) <= Off(c)
          /\ Off(c) \in 0 .. N
      BY FreeRoom, ReaderStays
    <2>4. Minus(c, reading_cursor) + need <= N
      BY <2>2, <2>3, RangeFacts
    <2> QED BY <1>1, <2>1, <2>4 DEF WriterInv, HeadAt, Off
  <1> QED BY <1>3, <1>4, <1>5

LEMMA FillStep ==
    ASSUME IInv, fill
    PROVE  IInv'
  <1> DEFINE c == wt_writing_cursor_cache
  <1> DEFINE s == write_handle.size
  <1> USE DEF IInv
  <1>1. PICK i \in write_handle.todo :
            /\ blocks' = [blocks EXCEPT ![i] = write_handle.payload]
            /\ write_handle' = [write_handle EXCEPT !.todo = @ \ {i}]
    BY DEF fill
  <1>2. /\ UNCHANGED <<rt_reading_cursor_cache, rt_writing_cursor_cache,
                       wt_reading_cursor_cache, wt_writing_cursor_cache,
                       reading_cursor, writing_cursor,
                       wpc, rpc, read_handle, batch_end, starts>>
        /\ wpc = "fill"
    BY DEF fill, cursors, reader
  <1>3. /\ c \in Cursor /\ s \in Sizes /\ s \in Nat
        /\ HeadAt(c) = [block_num |-> ChunkBlocks(c, s), data_size |-> s]
        /\ ChunkBlocks(c, s) \in 1 .. N
        /\ Off(c) + ChunkBlocks(c, s) <= N
        /\ write_handle.todo \subseteq PayloadSlots(c, s)
    BY <1>2, SisoAssumption DEF WriterInv, TypeOK
  <1>4. i \in PayloadSlots(c, s) /\ i \in Slot /\ i # Index(c) /\ Index(c) \in Slot
    BY <1>1, <1>3, HeadNotPayload, IndexType
  <1>5. \A d \in starts : HeadAt(d)' = HeadAt(d)
    <2> TAKE d \in starts
    <2>1. Minus(c, reading_cursor) + ChunkBlocks(c, s) <= N
      BY <1>3, FreeRoom, ReaderStays, RangeFacts
    <2>2. ChunkSlots(d, HeadAt(d).data_size) \cap ChunkSlots(c, s) = {}
      <3>1. reading_cursor \in Boundary /\ Off(reading_cursor) <= Off(reading_cursor)
        BY ReaderStays
      <3> QED BY <1>3, <2>1, <3>1, HeadsKept
    <2>3. i # Index(d)
      BY <1>4, <2>2 DEF ChunkSlots
    <2> QED BY <1>1, <2>3 DEF HeadAt, TypeOK
  <1>6. CursorOrder' /\ ChunkChain'
    <2>1. /\ Minus(reading_cursor, wt_reading_cursor_cache)
               <= Minus(rt_reading_cursor_cache, wt_reading_cursor_cache)
          /\ Minus(rt_reading_cursor_cache, wt_reading_cursor_cache)
               <= Minus(rt_writing_cursor_cache, wt_reading_cursor_cache)
      BY DEF CursorOrder, Off
    <2> QED BY <1>2, <1>5, <2>1, ReaderStays, Shift
  <1>7. TypeOK' /\ ReaderInv'
    <2>1. blocks' \in [Slot -> Heads \cup Payload \cup {Junk}]
      BY <1>1, <1>4 DEF TypeOK, Handles
    <2>2. write_handle' \in Handles
      BY <1>1 DEF TypeOK, Handles
    <2> QED BY <1>2, <2>1, <2>2 DEF TypeOK, ReaderInv
  <1>8. WriterInv'
    <2>1. HeadAt(c)' = HeadAt(c)
      BY <1>1, <1>2, <1>4 DEF HeadAt, TypeOK
    <2>2. write_handle'.size = s /\ write_handle'.todo \subseteq write_handle.todo
      BY <1>1 DEF TypeOK, Handles
    <2> QED BY <1>2, <1>3, <2>1, <2>2 DEF WriterInv, Off, HeadAt
  <1> QED BY <1>6, <1>7, <1>8

LEMMA CommitStep ==
    ASSUME IInv, commit_write_chunk
    PROVE  IInv'
  <1> DEFINE c == wt_writing_cursor_cache
  <1> DEFINE need == ChunkBlocks(c, write_handle.size)
  <1> USE DEF IInv
  <1>1. /\ UNCHANGED <<blocks, rt_reading_cursor_cache, rt_writing_cursor_cache,
                       wt_reading_cursor_cache, reading_cursor,
                       rpc, read_handle, batch_end>>
        /\ wt_writing_cursor_cache' = Behind(c) /\ writing_cursor' = Behind(c)
        /\ starts' = starts \cup {c}
        /\ wpc = "fill" /\ wpc' = "idle" /\ write_handle' = NoHandle
    BY DEF commit_write_chunk, reader
  <1>2. /\ c \in Cursor /\ wt_reading_cursor_cache \in Cursor
        /\ HeadAt(c) \in Heads /\ HeadAt(c).block_num = need
        /\ HeadAt(c).block_num = ChunkBlocks(c, HeadAt(c).data_size)
        /\ need \in 1 .. N /\ Off(c) + need <= N
    BY <1>1 DEF WriterInv, TypeOK, Heads
  <1>3. N \in Nat /\ N >= 2 /\ M \in Nat /\ M >= 2 * N
    BY RangeFacts
  <1>4. \A d \in Boundary : d \in Cursor /\ Off(d) \in 0 .. N /\ Off(d) <= Off(c)
    BY Window
  <1>5. Behind(c) \in Cursor /\ Off(Behind(c)) = Off(c) + need /\ Off(c) \in 0 .. N
    <2>1. Off(c) \in 0 .. N
      BY <1>4 DEF Boundary
    <2>2. Minus(c, wt_reading_cursor_cache) + need < M
      BY <1>2, <1>3, <2>1 DEF Off
    <2> QED BY <1>2, <2>1, <2>2, PlusDistance, PlusType DEF Behind, Off
  <1>6. /\ reading_cursor \in Boundary /\ rt_reading_cursor_cache \in Boundary
        /\ rt_writing_cursor_cache \in Boundary
    BY ReaderStays
  <1>7. \A d : Off(d)' = Off(d) /\ HeadAt(d)' = HeadAt(d) /\ Behind(d)' = Behind(d)
    BY <1>1 DEF Off, HeadAt, Behind
  <1>8. Off(wt_writing_cursor_cache)' = Off(c) + need
    BY <1>1, <1>5 DEF Off
  <1>9. CursorOrder'
    <2>1. Off(writing_cursor)' = Off(c) + need
      BY <1>1, <1>5 DEF Off
    <2>2. /\ Off(reading_cursor)' = Off(reading_cursor)
          /\ Off(rt_reading_cursor_cache)' = Off(rt_reading_cursor_cache)
          /\ Off(rt_writing_cursor_cache)' = Off(rt_writing_cursor_cache)
          /\ Off(rt_writing_cursor_cache) <= Off(c)
          /\ Off(rt_writing_cursor_cache) \in 0 .. N
      BY <1>1, <1>4, <1>6 DEF Off
    <2>3. Off(rt_writing_cursor_cache)' <= Off(writing_cursor)'
      <3> HIDE DEF need
      <3>1. Off(c) \in Int /\ need \in Int /\ need >= 0 /\ Off(rt_writing_cursor_cache) \in Int
        BY <1>2, <1>3, <1>5, <2>2
      <3> QED BY <2>1, <2>2, <3>1
    <2>4. /\ Off(reading_cursor)' <= Off(rt_reading_cursor_cache)'
          /\ Off(rt_reading_cursor_cache)' <= Off(rt_writing_cursor_cache)'
      BY <2>2 DEF CursorOrder
    <2>5. Off(wt_writing_cursor_cache)' <= N /\ writing_cursor' = wt_writing_cursor_cache'
      BY <1>1, <1>2, <1>8
    <2> QED BY <2>3, <2>4, <2>5 DEF CursorOrder
  <1>10. Boundary' = Boundary \cup {Behind(c)}
    BY <1>1 DEF Boundary
  <1>11. ChunkChain'
    <2>1. ASSUME NEW d \in starts
          PROVE  /\ Off(reading_cursor) <= Off(d)
                 /\ HeadAt(d) \in Heads
                 /\ HeadAt(d).block_num = ChunkBlocks(d, HeadAt(d).data_size)
                 /\ Off(d) + HeadAt(d).block_num <= Off(c) + need
                 /\ Behind(d) \in Boundary
                 /\ \A e \in starts \cup {c} :
                      Off(e) <= Off(d) \/ Off(e) >= Off(d) + HeadAt(d).block_num
      <3>1. /\ Off(d) \in 0 .. N /\ HeadAt(d).block_num \in 1 .. N
            /\ Off(d) + HeadAt(d).block_num <= Off(c)
        BY <1>4, Window DEF Boundary, ChunkChain
      <3>2. Off(d) + HeadAt(d).block_num <= Off(c) + need
        BY <1>2, <1>5, <3>1
      <3> QED BY <3>1, <3>2 DEF ChunkChain
    <2>2. /\ Off(reading_cursor) <= Off(c)
          /\ \A e \in starts \cup {c} : Off(e) <= Off(c)
      BY <1>4, <1>6 DEF Boundary
    <2>3. ASSUME NEW d \in starts'
          PROVE  /\ Off(reading_cursor)' <= Off(d)'
                 /\ HeadAt(d)' \in Heads
                 /\ HeadAt(d)'.block_num = ChunkBlocks(d, HeadAt(d)'.data_size)
                 /\ Off(d)' + HeadAt(d)'.block_num <= Off(wt_writing_cursor_cache)'
                 /\ Behind(d)' \in Boundary'
                 /\ \A e \in starts' :
                      Off(e)' <= Off(d)' \/ Off(e)' >= Off(d)' + HeadAt(d)'.block_num
      <3>1. Off(reading_cursor)' = Off(reading_cursor)
        BY <1>1 DEF Off
      <3>2. CASE d \in starts
        BY <1>1, <1>7, <1>8, <1>10, <2>1, <3>1, <3>2
      <3>3. CASE d = c
        <4>1. Off(d)' = Off(c) /\ HeadAt(d)' = HeadAt(c) /\ Behind(d)' = Behind(c)
          BY <1>7, <3>3
        <4>2. Off(reading_cursor)' <= Off(d)'
          BY <2>2, <3>1, <4>1
        <4>3. Off(d)' + HeadAt(d)'.block_num <= Off(wt_writing_cursor_cache)'
          <5> HIDE DEF need
          <5>1. Off(c) \in Int /\ need \in Int /\ HeadAt(c).block_num = need
            BY <1>2, <1>3, <1>5
          <5> QED BY <1>8, <4>1, <5>1
        <4>4. Behind(d)' \in Boundary'
          BY <1>10, <4>1
        <4>5. \A e \in starts' : Off(e)' <= Off(d)'
          BY <1>1, <1>7, <2>2, <4>1
        <4> QED BY <1>2, <3>3, <4>1, <4>2, <4>3, <4>4, <4>5
      <3> QED BY <1>1, <2>3, <3>2, <3>3
    <2>4. {reading_cursor', rt_reading_cursor_cache', rt_writing_cursor_cache'} \subseteq Boundary'
      BY <1>1, <1>6, <1>10
    <2>5. \A d \in starts' : ChunkBlocks(d, HeadAt(d)'.data_size)
                             = ChunkBlocks(d, HeadAt(d).data_size)'
      BY <1>7
    <2> QED BY <2>3, <2>4, <2>5 DEF ChunkChain
  <1>12. TypeOK'
    BY <1>1, <1>2, <1>5 DEF TypeOK, NoHandle, Handles
  <1>13. WriterInv' /\ ReaderInv'
    BY <1>1 DEF WriterInv, ReaderInv
  <1> QED BY <1>9, <1>11, <1>12, <1>13

\* Steps of the reader leave the writer's half of the invariant alone.
LEMMA WriterUntouched ==
    ASSUME WriterInv, UNCHANGED <<blocks, wt_reading_cursor_cache,
                                  wt_writing_cursor_cache, wpc, write_handle>>
    PROVE  WriterInv'
  BY DEF WriterInv, HeadAt, Off

\* read_chunk, batch_read and data_traverse: only the copy of the writing
\* cursor moves.
LEMMA ReloadStep ==
    ASSUME IInv, read_chunk \/ batch_read \/ data_traverse
    PROVE  IInv'
  <1> USE DEF IInv
  <1>1. /\ UNCHANGED <<blocks, rt_reading_cursor_cache, wt_reading_cursor_cache,
                       wt_writing_cursor_cache, reading_cursor, writing_cursor,
                       wpc, write_handle, starts>>
        /\ rt_writing_cursor_cache' \in {rt_writing_cursor_cache, writing_cursor}
    BY DEF read_chunk, batch_read, data_traverse, ReaderView, writer
  <1>2. /\ Minus(reading_cursor, wt_reading_cursor_cache)
             <= Minus(rt_reading_cursor_cache, wt_reading_cursor_cache)
        /\ Minus(rt_reading_cursor_cache, wt_reading_cursor_cache)
             <= Minus(rt_writing_cursor_cache', wt_reading_cursor_cache)
    <2>1. /\ Off(rt_reading_cursor_cache) \in 0 .. N /\ Off(rt_writing_cursor_cache) \in 0 .. N
          /\ Off(writing_cursor) \in 0 .. N
      BY ReaderStays DEF CursorOrder
    <2> QED BY <1>1, <2>1 DEF CursorOrder, Off
  <1>3. CursorOrder' /\ ChunkChain'
    <2>1. rt_writing_cursor_cache' \in Boundary
      BY <1>1, ReaderStays
    <2> QED BY <1>1, <1>2, <2>1, ReaderStays, Shift DEF HeadAt
  <1>4. WriterInv'
    BY <1>1, WriterUntouched
  <1>5. CASE read_chunk
    BY <1>1, <1>3, <1>4, <1>5 DEF read_chunk, TypeOK, ReaderInv
  <1>6. CASE batch_read
    BY <1>1, <1>3, <1>4, <1>6 DEF batch_read, TypeOK, ReaderInv
  <1>7. CASE data_traverse
    BY <1>1, <1>3, <1>4, <1>7 DEF data_traverse, TypeOK, ReaderInv, reader
  <1> QED BY <1>5, <1>6, <1>7

\* Releasing chunks measured from the reading cursor is the same as measuring
\* from the writer's view of it.
LEMMA ReleaseIs ==
    ASSUME TypeOK, CursorOrder, ChunkChain, NEW next \in Boundary,
           Off(reading_cursor) <= Off(next)
    PROVE  {c \in starts : Minus(c, reading_cursor) >= Minus(next, reading_cursor)}
           = {c \in starts : Minus(c, wt_reading_cursor_cache)
                         >= Minus(next, wt_reading_cursor_cache)}
  <1>1. \A c \in Boundary : /\ c \in Cursor /\ Off(c) \in 0 .. N
                            /\ Off(reading_cursor) <= Off(c)
    BY Window
  <1>2. /\ reading_cursor \in Cursor /\ wt_reading_cursor_cache \in Cursor
        /\ Off(reading_cursor) \in 0 .. N
    BY ReaderStays DEF TypeOK
  <1>3. \A c \in Boundary : Minus(c, reading_cursor) = Off(c) - Off(reading_cursor)
    BY <1>1, <1>2, Rebase DEF Off
  <1>4. \A c \in starts : /\ Minus(c, reading_cursor) >= Minus(next, reading_cursor)
                             <=> Off(c) >= Off(next)
    BY <1>1, <1>2, <1>3 DEF Boundary
  <1> QED BY <1>4 DEF Off

LEMMA ReturnStep ==
    ASSUME IInv, return_read_chunk
    PROVE  IInv'
  <1> DEFINE next == Behind(rt_reading_cursor_cache)
  <1> USE DEF IInv
  <1>1. /\ UNCHANGED <<blocks, rt_writing_cursor_cache, wt_reading_cursor_cache,
                       wt_writing_cursor_cache, writing_cursor, wpc, write_handle>>
        /\ rt_reading_cursor_cache' = next /\ reading_cursor' = next
        /\ starts' = {c \in starts : Minus(c, reading_cursor) >= Minus(next, reading_cursor)}
        /\ rpc = "lent" /\ rpc' = "idle" /\ read_handle' = 0 /\ batch_end' = 0
    BY DEF return_read_chunk, Release, ReaderIdle, writer
  <1>2. /\ next \in Boundary
        /\ Off(rt_reading_cursor_cache) <= Off(next)
        /\ Off(next) <= Off(rt_writing_cursor_cache)
    BY <1>1, NextChunk DEF ReaderInv
  <1>3. /\ Off(next) \in 0 .. N /\ next \in Cursor
        /\ Off(reading_cursor) <= Off(next)
    BY <1>2, Window
  <1>4. CursorOrder' /\ ChunkChain'
    <2>1. starts' = {c \in starts : Minus(c, wt_reading_cursor_cache)
                                >= Minus(next, wt_reading_cursor_cache)}
      BY <1>1, <1>2, <1>3, ReleaseIs
    <2>2. Minus(next, wt_reading_cursor_cache) <= Minus(next, wt_reading_cursor_cache)
      BY <1>3 DEF Off
    <2>3. Minus(next, wt_reading_cursor_cache)
            <= Minus(rt_writing_cursor_cache, wt_reading_cursor_cache)
      BY <1>2 DEF Off
    <2>4. \A c \in starts : HeadAt(c)' = HeadAt(c)
      BY <1>1 DEF HeadAt
    <2>5. rt_writing_cursor_cache' \in Boundary
      BY <1>1, ReaderStays
    <2> HIDE DEF next
    <2> QED BY <1>1, <1>2, <2>1, <2>2, <2>3, <2>4, <2>5, Shift
  <1>5. WriterInv'
    BY <1>1, WriterUntouched
  <1>6. TypeOK' /\ ReaderInv'
    <2>1. 0 \in Cursor
      BY RangeFacts DEF Cursor
    <2>2. starts' \subseteq Cursor /\ wpc # "down"
      BY <1>1 DEF TypeOK
    <2> HIDE DEF next
    <2> QED BY <1>1, <1>3, <2>1, <2>2 DEF TypeOK, ReaderInv
  <1> QED BY <1>4, <1>5, <1>6

LEMMA BatchNextStep ==
    ASSUME IInv, batch_next
    PROVE  IInv'
  <1> DEFINE next == Behind(rt_reading_cursor_cache)
  <1> USE DEF IInv
  <1>1. /\ UNCHANGED <<blocks, rt_writing_cursor_cache, wt_reading_cursor_cache,
                       wt_writing_cursor_cache, reading_cursor, writing_cursor,
                       wpc, write_handle, batch_end, starts>>
        /\ rt_reading_cursor_cache' = next /\ read_handle' = rt_reading_cursor_cache
        /\ rt_reading_cursor_cache # batch_end
        /\ rpc \in {"batch", "batch_lent"} /\ rpc' = "batch_lent"
    BY DEF batch_next, writer
  <1>2. /\ next \in Boundary
        /\ Off(rt_reading_cursor_cache) <= Off(next)
        /\ Off(next) <= Off(rt_writing_cursor_cache)
    BY <1>1, NextChunk DEF ReaderInv
  <1>3. /\ Off(next) \in 0 .. N /\ next \in Cursor
        /\ Off(reading_cursor) <= Off(next)
    BY <1>2, Window
  <1>4. CursorOrder' /\ ChunkChain'
    <2>1. /\ starts' = {c \in starts : Minus(c, wt_reading_cursor_cache)
                                   >= Minus(reading_cursor, wt_reading_cursor_cache)}
          /\ rt_writing_cursor_cache' \in Boundary /\ reading_cursor' \in Boundary
      BY <1>1, ReaderStays
    <2>2. Minus(reading_cursor, wt_reading_cursor_cache)
            <= Minus(next, wt_reading_cursor_cache)
      BY <1>3 DEF Off
    <2>3. Minus(next, wt_reading_cursor_cache)
            <= Minus(rt_writing_cursor_cache, wt_reading_cursor_cache)
      BY <1>2 DEF Off
    <2>4. \A c \in starts : HeadAt(c)' = HeadAt(c)
      BY <1>1 DEF HeadAt
    <2> HIDE DEF next
    <2> QED BY <1>1, <1>2, <2>1, <2>2, <2>3, <2>4, Shift
  <1>5. WriterInv'
    BY <1>1, WriterUntouched
  <1>6. TypeOK' /\ ReaderInv'
    <2>1. wpc # "down"
      BY <1>1 DEF TypeOK
    <2> HIDE DEF next
    <2> QED BY <1>1, <1>3, <2>1 DEF TypeOK, ReaderInv
  <1> QED BY <1>4, <1>5, <1>6

LEMMA ReturnBatchStep ==
    ASSUME IInv, return_batch_read_chunks
    PROVE  IInv'
  <1> DEFINE next == rt_reading_cursor_cache
  <1> USE DEF IInv
  <1>1. /\ UNCHANGED <<blocks, rt_reading_cursor_cache, rt_writing_cursor_cache,
                       wt_reading_cursor_cache, wt_writing_cursor_cache,
                       writing_cursor, wpc, write_handle>>
        /\ reading_cursor' = next
        /\ starts' = {c \in starts : Minus(c, reading_cursor) >= Minus(next, reading_cursor)}
        /\ rpc = "batch_lent" /\ rpc' = "idle" /\ read_handle' = 0 /\ batch_end' = 0
    BY DEF return_batch_read_chunks, Release, ReaderIdle, writer
  <1>2. /\ next \in Boundary /\ Off(next) \in 0 .. N
        /\ Off(reading_cursor) <= Off(next)
        /\ Off(next) <= Off(rt_writing_cursor_cache)
    BY ReaderStays DEF CursorOrder
  <1>3. CursorOrder' /\ ChunkChain'
    <2>1. starts' = {c \in starts : Minus(c, wt_reading_cursor_cache)
                                >= Minus(next, wt_reading_cursor_cache)}
      BY <1>1, <1>2, ReleaseIs
    <2>2. Minus(next, wt_reading_cursor_cache) <= Minus(next, wt_reading_cursor_cache)
      BY <1>2 DEF Off
    <2>3. Minus(next, wt_reading_cursor_cache)
            <= Minus(rt_writing_cursor_cache, wt_reading_cursor_cache)
      BY <1>2 DEF Off
    <2>4. \A c \in starts : HeadAt(c)' = HeadAt(c)
      BY <1>1 DEF HeadAt
    <2>5. rt_writing_cursor_cache' \in Boundary
      BY <1>1, ReaderStays
    <2> QED BY <1>1, <1>2, <2>1, <2>2, <2>3, <2>4, <2>5, Shift
  <1>4. WriterInv'
    BY <1>1, WriterUntouched
  <1>5. TypeOK' /\ ReaderInv'
    <2>1. 0 \in Cursor
      BY RangeFacts DEF Cursor
    <2>2. starts' \subseteq Cursor /\ wpc # "down" /\ next \in Cursor
      BY <1>1 DEF TypeOK
    <2> QED BY <1>1, <2>1, <2>2 DEF TypeOK, ReaderInv
  <1> QED BY <1>3, <1>4, <1>5

\* Steps that touch neither a block nor a cursor keep the order and the chain.
LEMMA RingUntouched ==
    ASSUME CursorOrder, ChunkChain, UNCHANGED <<blocks, cursors, starts>>
    PROVE  CursorOrder' /\ ChunkChain'
  BY DEF CursorOrder, ChunkChain, cursors, Off, HeadAt, Behind, Boundary

LEMMA DiscardOrCrashStep ==
    ASSUME IInv, discard_read_chunk \/ crash
    PROVE  IInv'
  <1> USE DEF IInv
  <1>1. CursorOrder' /\ ChunkChain'
    <2>1. UNCHANGED <<blocks, cursors, starts>>
      BY DEF discard_read_chunk, crash
    <2> QED BY <2>1, RingUntouched
  <1>2. 0 \in Cursor /\ NoHandle \in Handles
    BY RangeFacts DEF Cursor, NoHandle, Handles
  <1>3. CASE discard_read_chunk
    <2>1. WriterInv'
      BY <1>3, WriterUntouched DEF discard_read_chunk, cursors, writer
    <2>2. TypeOK' /\ ReaderInv'
      BY <1>2, <1>3 DEF discard_read_chunk, ReaderIdle, cursors, writer, TypeOK, ReaderInv
    <2> QED BY <1>1, <2>1, <2>2
  <1>4. CASE crash
    BY <1>1, <1>2, <1>4 DEF crash, cursors, TypeOK, WriterInv, ReaderInv
  <1> QED BY <1>3, <1>4

\* An empty ring with all cursors at zero satisfies the invariant.
LEMMA FreshRing ==
    ASSUME TypeOK', reading_cursor' = 0, rt_reading_cursor_cache' = 0,
           rt_writing_cursor_cache' = 0, wt_reading_cursor_cache' = 0,
           wt_writing_cursor_cache' = 0, writing_cursor' = 0, starts' = {},
           wpc' = "idle", rpc' = "idle"
    PROVE  IInv'
  <1>1. Minus(0, 0) = 0 /\ N \in Nat
    BY RangeFacts DEF Minus
  <1> QED BY <1>1 DEF IInv, CursorOrder, ChunkChain, WriterInv, ReaderInv, Off, Boundary

LEMMA RenewStep ==
    ASSUME IInv, renew
    PROVE  IInv'
  <1>1. 0 \in Cursor
    BY RangeFacts DEF Cursor
  <1>2. TypeOK'
    BY <1>1 DEF IInv, TypeOK, renew, init_cursors, SetCursors, writer, reader
  <1> QED BY <1>2, FreshRing DEF renew, init_cursors, SetCursors, writer, reader

LEMMA RecoverStep ==
    ASSUME IInv, recover
    PROVE  IInv'
  <1> DEFINE next == rt_reading_cursor_cache
  <1> USE DEF IInv
  <1>1. /\ UNCHANGED <<blocks, write_handle, read_handle, batch_end>>
        /\ wpc' = "idle" /\ rpc' = "idle"
    BY DEF recover
  <1>2. CASE ValidSnapshot
    <2>1. /\ reading_cursor' = next /\ rt_reading_cursor_cache' = next
          /\ wt_reading_cursor_cache' = next
          /\ rt_writing_cursor_cache' = wt_writing_cursor_cache
          /\ wt_writing_cursor_cache' = wt_writing_cursor_cache
          /\ writing_cursor' = writing_cursor
          /\ starts' = {c \in starts : Minus(c, reading_cursor) >= Minus(next, reading_cursor)}
      BY <1>2 DEF recover, SetCursors, CursorOrder
    <2>2. /\ next \in Boundary /\ Off(next) \in 0 .. N
          /\ Off(reading_cursor) <= Off(next)
          /\ Off(next) <= Off(wt_writing_cursor_cache)
      BY ReaderStays, Window DEF CursorOrder
    <2>3. CursorOrder' /\ ChunkChain'
      <3>1. starts' = {c \in starts : Minus(c, wt_reading_cursor_cache)
                                  >= Minus(next, wt_reading_cursor_cache)}
        BY <2>1, <2>2, ReleaseIs
      <3>2. Minus(next, wt_reading_cursor_cache) <= Minus(next, wt_reading_cursor_cache)
        BY <2>2 DEF Off
      <3>3. Minus(next, wt_reading_cursor_cache)
              <= Minus(wt_writing_cursor_cache, wt_reading_cursor_cache)
        BY <2>2 DEF Off
      <3>4. \A c \in starts : HeadAt(c)' = HeadAt(c)
        BY <1>1 DEF HeadAt
      <3>5. rt_writing_cursor_cache' \in Boundary
        BY <2>1 DEF Boundary
      <3> QED BY <2>1, <2>2, <3>1, <3>2, <3>3, <3>4, <3>5, Shift
    <2>4. TypeOK' /\ WriterInv' /\ ReaderInv'
      <3>1. starts' \subseteq Cursor
        BY <2>1 DEF TypeOK
      <3> QED BY <1>1, <2>1, <3>1 DEF TypeOK, WriterInv, ReaderInv
    <2> QED BY <2>3, <2>4
  <1>3. CASE ~ValidSnapshot
    <2>1. 0 \in Cursor /\ init_cursors
      BY <1>3, RangeFacts DEF Cursor, recover
    <2>2. TypeOK'
      BY <1>1, <2>1 DEF TypeOK, init_cursors, SetCursors
    <2> QED BY <1>1, <2>1, <2>2, FreshRing DEF init_cursors, SetCursors
  <1> QED BY <1>2, <1>3

-----------------------------------------------------------------------------
LEMMA Initially == Init => IInv
  <1> SUFFICES ASSUME Init PROVE IInv
    OBVIOUS
  <1>1. Minus(0, 0) = 0 /\ N \in Nat /\ 0 \in Cursor /\ NoHandle \in Handles
    BY RangeFacts DEF Minus, Cursor, NoHandle, Handles
  <1>2. TypeOK
    BY <1>1 DEF Init, TypeOK
  <1> QED BY <1>1, <1>2
       DEF Init, IInv, CursorOrder, ChunkChain, WriterInv, ReaderInv, Off, Boundary

LEMMA Inductive == IInv /\ [Next]_vars => IInv'
  <1> SUFFICES ASSUME IInv, [Next]_vars PROVE IInv'
    OBVIOUS
  <1>1. ASSUME NEW s \in Sizes, NEW p \in Payload, alloc_write_chunk(s, p) PROVE IInv'
    BY <1>1, AllocStep
  <1>2. ASSUME NEW s \in Sizes, alloc_fails(s) PROVE IInv'
    BY <1>2, AllocFailsStep
  <1>3. CASE confirm_low_space
    BY <1>3, ConfirmStep
  <1>4. CASE fill
    BY <1>4, FillStep
  <1>5. CASE commit_write_chunk
    BY <1>5, CommitStep
  <1>6. CASE read_chunk \/ batch_read \/ data_traverse
    BY <1>6, ReloadStep
  <1>7. CASE return_read_chunk
    BY <1>7, ReturnStep
  <1>8. CASE batch_next
    BY <1>8, BatchNextStep
  <1>9. CASE return_batch_read_chunks
    BY <1>9, ReturnBatchStep
  <1>10. CASE discard_read_chunk \/ crash
    BY <1>10, DiscardOrCrashStep
  <1>11. CASE renew
    BY <1>11, RenewStep
  <1>12. CASE recover
    BY <1>12, RecoverStep
  <1>13. CASE UNCHANGED vars
    <2>1. CursorOrder' /\ ChunkChain'
      BY <1>13, RingUntouched DEF IInv, vars
    <2>2. TypeOK' /\ WriterInv' /\ ReaderInv'
      BY <1>13, WriterUntouched
         DEF IInv, vars, cursors, writer, reader, TypeOK, ReaderInv
    <2> QED BY <2>1, <2>2 DEF IInv
  <1> QED BY <1>1, <1>2, <1>3, <1>4, <1>5, <1>6, <1>7, <1>8, <1>9, <1>10,
             <1>11, <1>12, <1>13 DEF Next

LEMMA Invariance == Spec => []IInv
  BY Initially, Inductive, PTL DEF Spec

\* All cursors of siso_ring_buffer stay in the range of uint32_t and all its
\* handles describe chunks of the ring.
THEOREM Typing == Spec => []TypeOK
  <1>1. IInv => TypeOK
    BY DEF IInv
  <1> QED BY <1>1, Invariance, PTL

\* The six cursors of siso_ring_buffer never overtake one another, across
\* reloads of the private copies, renew, crash and recovery, and never span
\* more than one lap of the ring.
THEOREM CursorsOrdered == Spec => []CursorOrder
  <1>1. IInv => CursorOrder
    BY DEF IInv
  <1> QED BY <1>1, Invariance, PTL

\* What read_chunk, next() and return find at their cursor is always the intact
\* head of a committed chunk.
THEOREM ChunksChained == Spec => []ChunkChain
  <1>1. IInv => ChunkChain
    BY DEF IInv
  <1> QED BY <1>1, Invariance, PTL

\* alloc_write_chunk never hands out a block of a chunk that the reader has
\* not released.
THEOREM NothingClobbered == Spec => []NoClobber
  <1>1. ASSUME IInv PROVE NoClobber
    <2> SUFFICES ASSUME wpc \in {"confirm", "fill"}, NEW c \in starts
                 PROVE  ChunkSlots(wt_writing_cursor_cache, write_handle.size)
                          \cap ChunkSlots(c, HeadAt(c).data_size) = {}
      BY DEF NoClobber
    <2> DEFINE w == wt_writing_cursor_cache
    <2> DEFINE need == ChunkBlocks(w, write_handle.size)
    <2> USE DEF IInv
    <2>1. write_handle.size \in Nat /\ need \in 1 .. N /\ Off(w) + need <= N
      BY SisoAssumption, <1>1 DEF WriterInv
    <2>2. Minus(w, reading_cursor) + need <= N
      BY <1>1, <2>1, FreeRoom, ReaderStays, RangeFacts
    <2>3. reading_cursor \in Boundary /\ Off(reading_cursor) <= Off(reading_cursor)
      BY <1>1, ReaderStays
    <2>4. ChunkSlots(c, HeadAt(c).data_size) \cap ChunkSlots(w, write_handle.size) = {}
      BY <1>1, <2>1, <2>2, <2>3, HeadsKept
    <2> QED BY <2>4
  <1>2. IInv => NoClobber
    BY <1>1
  <1> QED BY <1>2, Invariance, PTL

-----------------------------------------------------------------------------
(* The ring is a FIFO queue *)

\* What the refinement needs besides IInv: the handle of the reader is the
\* oldest chunk or one its batch has passed, and what the writer has filled
\* holds its payload.
HandleInv ==
    /\ rpc = "lent" => read_handle = rt_reading_cursor_cache
    /\ rpc \in {"lent", "batch_lent"} => read_handle \in starts
    /\ wpc \in {"confirm", "fill"} =>
         /\ write_handle.payload \in Payload
         /\ \A i \in PayloadSlots(wt_writing_cursor_cache, write_handle.size) \ write_handle.todo :
              blocks[i] = write_handle.payload

QInv == IInv /\ HandleInv

\* The walk of Queue, and what it finds from a cursor on.
WalkRule(f, rem) ==
    LET c == Minus(wt_writing_cursor_cache, rem)
    IN  IF rem # 0 /\ HeadAt(c) \in Heads /\ HeadAt(c).block_num <= rem
        THEN <<Decode(c)>> \o f[rem - HeadAt(c).block_num]
        ELSE <<>>

Walk == CHOOSE f : f = [rem \in 0 .. N |-> WalkRule(f, rem)]

Rest(c) == Walk[Minus(wt_writing_cursor_cache, c)]

-----------------------------------------------------------------------------
\* The walk is well defined, whatever the blocks hold.
LEMMA WalkIs == \A rem \in 0 .. N : Walk[rem] = WalkRule(Walk, rem)
  <1> DEFINE Is(f, n) == f = [rem \in 0 .. n |-> WalkRule(f, rem)]
  <1>0. N \in Nat
    BY RangeFacts
  <1>1. \A n \in Nat : \E f : Is(f, n)
    <2> DEFINE T == {n \in Nat : ~ \E f : Is(f, n)}
    <2> SUFFICES ASSUME T # {} PROVE FALSE
      OBVIOUS
    <2>1. PICK n \in T : \A y \in T : n <= y
      <3>1. T \subseteq Nat
        OBVIOUS
      <3> HIDE DEF T
      <3> QED BY <3>1, LeastNumber
    <2>2. CASE n = 0
      <3>1. Is([rem \in 0 .. 0 |-> <<>>], 0)
        BY DEF WalkRule
      <3> QED BY <2>1, <2>2, <3>1
    <2>3. CASE n # 0
      <3> HIDE DEF Is
      <3>1. n \in Nat /\ n - 1 \in Nat /\ n - 1 \notin T
        BY <2>1, <2>3
      <3>2. PICK f : Is(f, n - 1)
        BY <3>1
      <3>3. \A i \in 0 .. n - 1 : f[i] = WalkRule(f, i)
        BY <3>2 DEF Is
      <3> HIDE DEF T
      <3> DEFINE g == [i \in 0 .. n |-> IF i = n THEN WalkRule(f, n) ELSE f[i]]
      <3>4. \A i \in 0 .. n - 1 : g[i] = f[i]
        BY <3>1
      <3> HIDE DEF g
      <3>5. \A i \in 0 .. n : WalkRule(g, i) = WalkRule(f, i)
        BY <3>1, <3>4 DEF WalkRule, Heads
      <3>6. \A i \in 0 .. n : g[i] = WalkRule(g, i)
        BY <3>1, <3>3, <3>5 DEF g
      <3>7. Is(g, n)
        BY <3>6 DEF Is, g
      <3> QED BY <3>7 DEF T
    <2> QED BY <2>2, <2>3
  <1>2. Is(Walk, N)
    BY <1>0, <1>1 DEF Walk
  <1> QED BY <1>2

LEMMA WalkIsNext == (\A rem \in 0 .. N : Walk[rem] = WalkRule(Walk, rem))'
  BY WalkIs, PTL

LEMMA QueueIs == Queue = Rest(rt_reading_cursor_cache)
  BY DEF Queue, Rest, Walk, WalkRule

LEMMA QueueIsNext == (Queue = Rest(rt_reading_cursor_cache))'
  BY QueueIs, PTL

-----------------------------------------------------------------------------
\* How far a boundary is from the writing cursor.
LEMMA Distances ==
    ASSUME IInv
    PROVE  /\ wt_writing_cursor_cache \in Boundary /\ wt_writing_cursor_cache \in Cursor
           /\ Minus(wt_writing_cursor_cache, wt_writing_cursor_cache) = 0
           /\ \A c \in Boundary :
                /\ c \in Cursor
                /\ Minus(wt_writing_cursor_cache, c) \in 0 .. N
                /\ Minus(wt_writing_cursor_cache, c) = Off(wt_writing_cursor_cache) - Off(c)
                /\ Minus(wt_writing_cursor_cache, Minus(wt_writing_cursor_cache, c)) = c
           /\ \A c \in starts :
                /\ HeadAt(c) \in Heads /\ HeadAt(c).block_num \in 1 .. N
                /\ Behind(c) \in Boundary
                /\ HeadAt(c).block_num <= Minus(wt_writing_cursor_cache, c)
                /\ Minus(wt_writing_cursor_cache, c) - HeadAt(c).block_num
                     = Minus(wt_writing_cursor_cache, Behind(c))
  <1> DEFINE w == wt_writing_cursor_cache
  <1>1. /\ N \in Nat /\ N >= 2 /\ M \in Nat /\ M >= 2 * N
        /\ w \in Cursor /\ wt_reading_cursor_cache \in Cursor /\ w \in Boundary
    BY RangeFacts DEF IInv, TypeOK, Boundary
  <1>2. \A c \in Boundary : c \in Cursor /\ Off(c) \in 0 .. N /\ Off(c) <= Off(w)
    BY Window DEF IInv
  <1>3. \A c \in Boundary : Minus(w, c) = Off(w) - Off(c)
    BY <1>1, <1>2, Rebase DEF Off
  <1>4. \A c \in Boundary : Minus(w, c) \in 0 .. N
    BY <1>1, <1>2, <1>3
  <1>5. \A c \in Boundary : Minus(w, Minus(w, c)) = c
    BY <1>1, <1>2 DEF Minus, Cursor
  <1>6. \A c \in starts : /\ HeadAt(c) \in Heads /\ HeadAt(c).block_num \in 1 .. N
                          /\ Behind(c) \in Boundary /\ c \in Boundary
                          /\ Off(Behind(c)) = Off(c) + HeadAt(c).block_num
    BY Window DEF IInv, ChunkChain, Boundary
  <1>7. \A c \in starts : /\ HeadAt(c).block_num <= Minus(w, c)
                          /\ Minus(w, c) - HeadAt(c).block_num = Minus(w, Behind(c))
    <2> TAKE c \in starts
    <2>1. /\ Minus(w, c) = Off(w) - Off(c) /\ Minus(w, Behind(c)) = Off(w) - Off(Behind(c))
          /\ Minus(w, Behind(c)) \in 0 .. N
          /\ Off(w) \in 0 .. N /\ Off(c) \in 0 .. N
      BY <1>1, <1>2, <1>3, <1>4, <1>6
    <2> QED BY <1>1, <1>6, <2>1
  <1>8. Minus(w, w) = 0
    BY <1>1 DEF Minus, Cursor
  <1> QED BY <1>1, <1>2, <1>3, <1>4, <1>5, <1>6, <1>7, <1>8

\* Induction along the chain: what is true of the writing cursor, and of every
\* chunk if it is true of the one behind it, is true of all.
LEMMA AlongTheChain ==
    ASSUME IInv, NEW G, wt_writing_cursor_cache \in G,
           \A c \in starts : Behind(c) \in G => c \in G
    PROVE  Boundary \subseteq G
  <1> DEFINE w == wt_writing_cursor_cache
             T == {Minus(w, c) : c \in Boundary \ G}
  <1> SUFFICES ASSUME Boundary \ G # {} PROVE FALSE
    OBVIOUS
  <1>1. T \subseteq Nat /\ T # {}
    BY Distances
  <1>2. PICK n \in T : \A y \in T : n <= y
    <2> HIDE DEF T
    <2> QED BY <1>1, LeastNumber
  <1>3. PICK c \in Boundary \ G : n = Minus(w, c)
    BY <1>2
  <1>4. c \in starts
    BY <1>3 DEF Boundary
  <1>5. Behind(c) \in Boundary /\ Minus(w, Behind(c)) < n
    <2>1. /\ Behind(c) \in Boundary /\ HeadAt(c).block_num \in 1 .. N
          /\ Minus(w, c) \in 0 .. N
          /\ Minus(w, c) - HeadAt(c).block_num = Minus(w, Behind(c))
      BY <1>3, <1>4, Distances
    <2> QED BY <1>3, <2>1, RangeFacts
  <1>6. Behind(c) \in G
    <2> SUFFICES ASSUME Behind(c) \notin G PROVE FALSE
      OBVIOUS
    <2>1. Minus(w, Behind(c)) \in T
      BY <1>5
    <2>2. n \in Nat /\ Minus(w, Behind(c)) \in Nat
      BY <1>1, <1>2, <2>1
    <2> HIDE DEF T
    <2> QED BY <1>2, <1>5, <2>1, <2>2
  <1> QED BY <1>3, <1>4, <1>6

\* What the walk finds at the writing cursor and at a chunk.
LEMMA RestIs ==
    ASSUME IInv
    PROVE  /\ Rest(wt_writing_cursor_cache) = <<>>
           /\ \A c \in starts : Rest(c) = <<Decode(c)>> \o Rest(Behind(c))
  <1> DEFINE w == wt_writing_cursor_cache
  <1>1. Rest(w) = <<>>
    <2>1. 0 \in 0 .. N /\ Minus(w, w) = 0
      BY RangeFacts, Distances
    <2> QED BY <2>1, WalkIs DEF Rest, WalkRule
  <1>2. ASSUME NEW c \in starts PROVE Rest(c) = <<Decode(c)>> \o Rest(Behind(c))
    <2> DEFINE rem == Minus(w, c)
    <2>1. /\ rem \in 0 .. N /\ rem # 0 /\ Minus(w, rem) = c
          /\ HeadAt(c) \in Heads /\ HeadAt(c).block_num <= rem
          /\ rem - HeadAt(c).block_num = Minus(w, Behind(c))
      BY Distances, RangeFacts DEF Boundary
    <2> HIDE DEF rem
    <2>2. Walk[rem] = <<Decode(c)>> \o Walk[Minus(w, Behind(c))]
      BY <2>1, WalkIs DEF WalkRule
    <2> QED BY <2>2 DEF Rest, rem
  <1> QED BY <1>1, <1>2

\* It is a sequence of chunks, with the oldest one at its head.
LEMMA RestSeq ==
    ASSUME IInv
    PROVE  /\ \A c \in Boundary : Rest(c) \in Seq({Decode(d) : d \in starts})
           /\ \A c \in starts : /\ Rest(c) # <<>> /\ Head(Rest(c)) = Decode(c)
                                /\ Tail(Rest(c)) = Rest(Behind(c))
  <1> DEFINE X == {Decode(d) : d \in starts}
             G == {c \in Boundary : Rest(c) \in Seq(X)}
  <1>1. wt_writing_cursor_cache \in G
    BY RestIs, Distances
  <1>2. ASSUME NEW c \in starts, Behind(c) \in G PROVE c \in G
    <2>1. Decode(c) \in X /\ Rest(Behind(c)) \in Seq(X) /\ c \in Boundary
      BY <1>2 DEF Boundary
    <2>2. Rest(c) = <<Decode(c)>> \o Rest(Behind(c))
      BY RestIs
    <2> HIDE DEF X
    <2> QED BY <2>1, <2>2
  <1>3. Boundary \subseteq G
    <2> HIDE DEF G
    <2> QED BY <1>1, <1>2, AlongTheChain
  <1>4. ASSUME NEW c \in starts
        PROVE  Rest(c) # <<>> /\ Head(Rest(c)) = Decode(c) /\ Tail(Rest(c)) = Rest(Behind(c))
    <2>1. Decode(c) \in X /\ Rest(Behind(c)) \in Seq(X)
      BY <1>3, Distances
    <2>2. Rest(c) = <<Decode(c)>> \o Rest(Behind(c))
      BY RestIs
    <2> DEFINE r == Rest(Behind(c))
    <2> HIDE DEF X, r
    <2>3. /\ <<Decode(c)>> \o r # <<>> /\ Head(<<Decode(c)>> \o r) = Decode(c)
          /\ Tail(<<Decode(c)>> \o r) = r
      BY <2>1 DEF r
    <2> QED BY <2>2, <2>3 DEF r
  <1> QED BY <1>3, <1>4

-----------------------------------------------------------------------------
\* A step that leaves the writing cursor and all chunks alone leaves alone
\* what the walk finds.
LEMMA RestKept ==
    ASSUME IInv, wt_writing_cursor_cache' = wt_writing_cursor_cache,
           \A c \in starts : HeadAt(c)' = HeadAt(c) /\ Decode(c)' = Decode(c)
    PROVE  \A c \in Boundary : Walk'[Minus(wt_writing_cursor_cache, c)] = Rest(c)
  <1> DEFINE w == wt_writing_cursor_cache
             G == {c \in Boundary : Walk'[Minus(w, c)] = Rest(c)}
  <1>1. w \in G
    <2>1. 0 \in 0 .. N /\ Minus(w, w) = 0 /\ w \in Boundary
      BY RangeFacts, Distances
    <2>2. Walk'[0] = <<>>
      BY <2>1, WalkIsNext DEF WalkRule
    <2> QED BY <2>1, <2>2, RestIs
  <1>2. ASSUME NEW c \in starts, Behind(c) \in G PROVE c \in G
    <2> DEFINE rem == Minus(w, c)
    <2>1. /\ rem \in 0 .. N /\ rem # 0 /\ Minus(w, rem) = c
          /\ HeadAt(c) \in Heads /\ HeadAt(c).block_num <= rem
          /\ rem - HeadAt(c).block_num = Minus(w, Behind(c)) /\ c \in Boundary
      BY Distances, RangeFacts DEF Boundary
    <2>2. Walk'[Minus(w, Behind(c))] = Rest(Behind(c))
      BY <1>2
    <2> HIDE DEF rem, G
    <2>3. Walk'[rem] = <<Decode(c)>> \o Walk'[Minus(w, Behind(c))]
      BY <2>1, WalkIsNext DEF WalkRule
    <2> QED BY <2>1, <2>2, <2>3, RestIs DEF rem, G
  <1>3. Boundary \subseteq G
    <2> HIDE DEF G
    <2> QED BY <1>1, <1>2, AlongTheChain
  <1> QED BY <1>3

\* So the queue begins where the reader's cursor is now.
LEMMA QueueAfter ==
    ASSUME IInv, wt_writing_cursor_cache' = wt_writing_cursor_cache,
           rt_reading_cursor_cache' \in Boundary,
           \A c \in starts : HeadAt(c)' = HeadAt(c) /\ Decode(c)' = Decode(c)
    PROVE  Queue' = Rest(rt_reading_cursor_cache')
  <1>1. Queue' = Walk'[Minus(wt_writing_cursor_cache, rt_reading_cursor_cache')]
    BY QueueIsNext DEF Rest
  <1> QED BY <1>1, RestKept

\* The reader's cursor, and the chunk at it.
LEMMA ReaderAt ==
    ASSUME IInv
    PROVE  /\ rt_reading_cursor_cache \in Boundary
           /\ rt_reading_cursor_cache # rt_writing_cursor_cache =>
                /\ rt_reading_cursor_cache \in starts
                /\ Behind(rt_reading_cursor_cache) \in Boundary
  BY ReaderStays, NextChunk DEF IInv

\* Without a write to the blocks no chunk changes.
LEMMA ChunksKept ==
    ASSUME UNCHANGED blocks
    PROVE  \A c \in starts : HeadAt(c)' = HeadAt(c) /\ Decode(c)' = Decode(c)
  BY DEF HeadAt, Decode

\* A write to the blocks of the chunk being made changes no other chunk.
LEMMA ChunksSafe ==
    ASSUME IInv, NEW s \in Nat, ChunkBlocks(wt_writing_cursor_cache, s) \in 1 .. N,
           Minus(wt_writing_cursor_cache, reading_cursor)
             + ChunkBlocks(wt_writing_cursor_cache, s) <= N,
           NEW i \in ChunkSlots(wt_writing_cursor_cache, s), NEW x,
           blocks' = [blocks EXCEPT ![i] = x]
    PROVE  \A c \in starts : HeadAt(c)' = HeadAt(c) /\ Decode(c)' = Decode(c)
  <1> TAKE c \in starts
  <1> DEFINE z == HeadAt(c).data_size
  <1>1. reading_cursor \in Boundary /\ Off(reading_cursor) <= Off(reading_cursor)
    BY ReaderStays DEF IInv
  <1>2. ChunkSlots(c, z) \cap ChunkSlots(wt_writing_cursor_cache, s) = {}
    BY <1>1, HeadsKept DEF IInv
  <1>3. \A j \in ChunkSlots(c, z) : j # i
    BY <1>2
  <1>4. DOMAIN blocks = Slot
    BY DEF IInv, TypeOK
  <1>5. ChunkSlots(c, z) \subseteq Slot
    <2>1. /\ c \in Cursor /\ HeadAt(c) \in Heads /\ HeadAt(c).block_num \in 1 .. N
          /\ HeadAt(c).block_num = ChunkBlocks(c, z)
      BY Distances DEF IInv, ChunkChain, Boundary
    <2>2. z \in Nat /\ ChunkBlocks(c, z) \in 1 .. N
      BY <2>1, SisoAssumption DEF Heads
    <2> QED BY <2>1, <2>2, HeadNotPayload, IndexType DEF ChunkSlots
  <1>6. \A j \in ChunkSlots(c, z) : blocks'[j] = blocks[j]
    BY <1>3, <1>4, <1>5
  <1>7. HeadAt(c)' = HeadAt(c)
    BY <1>6 DEF HeadAt, ChunkSlots
  <1>8. \A j \in PayloadSlots(c, z) : blocks'[j] = blocks[j]
    BY <1>6 DEF ChunkSlots
  <1> HIDE DEF z
  <1>9. {blocks'[j] : j \in PayloadSlots(c, z)} = {blocks[j] : j \in PayloadSlots(c, z)}
    BY <1>8
  <1> QED BY <1>7, <1>9 DEF Decode, z

-----------------------------------------------------------------------------
\* commit_write_chunk puts its chunk at the end of what the walk finds.
LEMMA QueueCommitted ==
    ASSUME QInv, commit_write_chunk
    PROVE  /\ Queue' = Append(Queue, Decode(wt_writing_cursor_cache))
           /\ Decode(wt_writing_cursor_cache) \in Chunk
  <1> DEFINE w == wt_writing_cursor_cache
             s == write_handle.size
             need == ChunkBlocks(w, s)
             d == Decode(w)
             X == {Decode(e) : e \in starts}
  <1>1. /\ UNCHANGED <<blocks, rt_reading_cursor_cache>>
        /\ wt_writing_cursor_cache' = Behind(w) /\ wpc = "fill" /\ write_handle.todo = {}
    BY DEF commit_write_chunk
  <1>2. /\ s \in Sizes /\ s \in Nat /\ need \in 1 .. N /\ Off(w) + need <= N
        /\ HeadAt(w) = [block_num |-> need, data_size |-> s] /\ HeadAt(w) \in Heads
        /\ Behind(w) = Plus(w, need) /\ w \in Cursor
    <2>1. /\ s \in Sizes /\ need \in 1 .. N /\ Off(w) + need <= N
          /\ HeadAt(w) = [block_num |-> need, data_size |-> s]
      BY <1>1 DEF QInv, IInv, WriterInv
    <2>2. w \in Cursor /\ s \in Nat
      BY <2>1, SisoAssumption DEF QInv, IInv, TypeOK
    <2> HIDE DEF need, s
    <2>3. HeadAt(w) \in Heads
      BY <2>1 DEF Heads
    <2>4. Behind(w) = Plus(w, need)
      BY <2>1 DEF Behind
    <2> QED BY <2>1, <2>2, <2>3, <2>4
  <1>3. d \in Chunk
    <2>1. \A i \in PayloadSlots(w, s) : blocks[i] = write_handle.payload
      BY <1>1 DEF QInv, HandleInv
    <2>2. write_handle.payload \in Payload
      BY <1>1 DEF QInv, HandleInv
    <2>3. {blocks[i] : i \in PayloadSlots(w, s)} \in {{}} \cup {{p} : p \in Payload}
      <3>1. {blocks[i] : i \in PayloadSlots(w, s)} \in {{}, {write_handle.payload}}
        BY <2>1
      <3> QED BY <2>2, <3>1
    <2>4. d = [size |-> s, data |-> {blocks[i] : i \in PayloadSlots(w, s)}]
      BY <1>2 DEF Decode
    <2> DEFINE data == {blocks[i] : i \in PayloadSlots(w, s)}
    <2>5. data \in {{}} \cup {{p} : p \in Payload} /\ d = [size |-> s, data |-> data]
      BY <2>3, <2>4
    <2> HIDE DEF data, d, s
    <2> QED BY <1>2, <2>5 DEF Chunk
  <1>4. \A c \in Boundary : /\ Minus(Behind(w), c) = Minus(w, c) + need
                            /\ Minus(w, c) + need \in 1 .. N
                            /\ Minus(Behind(w), Minus(w, c) + need) = c
    <2> TAKE c \in Boundary
    <2>1. /\ c \in Cursor /\ Minus(w, c) \in 0 .. N /\ Minus(w, c) = Off(w) - Off(c)
          /\ Off(c) \in 0 .. N /\ Off(w) \in 0 .. N
      BY Distances, Window, ReaderStays DEF QInv, IInv
    <2>2. Minus(w, c) + need \in 1 .. N
      BY <1>2, <2>1, RangeFacts
    <2>3. Minus(Behind(w), c) = Minus(w, c) + need
      <3>1. need \in 0 .. N /\ Minus(w, c) + need < M
        BY <1>2, <2>2, RangeFacts
      <3> QED BY <1>2, <2>1, <3>1, PlusDistance
    <2>4. Behind(w) \in Cursor
      BY <1>2, PlusType, RangeFacts
    <2>5. Minus(Behind(w), Minus(Behind(w), c)) = c
      BY <2>1, <2>4, RangeFacts DEF Minus, Cursor
    <2> QED BY <2>2, <2>3, <2>5
  <1>5. \A c \in Boundary : Rest(c) \in Seq(X)
    BY RestSeq DEF QInv
  <1> DEFINE G == {c \in Boundary : Walk'[Minus(w, c) + need] = Rest(c) \o <<d>>}
  <1>6. w \in G
    <2>1. /\ Minus(w, w) = 0 /\ w \in Boundary /\ Rest(w) = <<>>
          /\ need \in 0 .. N /\ need # 0 /\ 0 \in 0 .. N
      BY <1>2, Distances, RestIs, RangeFacts DEF QInv
    <2>2. Minus(Behind(w), need) = w
      BY <1>2, <1>4, <2>1
    <2>4. Walk'[0] = <<>>
      BY <2>1, WalkIsNext DEF WalkRule
    <2>5. \A rem \in 0 .. N :
            LET c == Minus(Behind(w), rem)
            IN  Walk'[rem] = IF rem # 0 /\ HeadAt(c) \in Heads /\ HeadAt(c).block_num <= rem
                             THEN <<Decode(c)>> \o Walk'[rem - HeadAt(c).block_num]
                             ELSE <<>>
      BY <1>1, WalkIsNext DEF WalkRule, HeadAt, Decode
    <2> HIDE DEF need, d
    <2>6. Walk'[need] = <<Decode(w)>> \o Walk'[0]
      <3>1. HeadAt(w) \in Heads /\ HeadAt(w).block_num = need /\ need - need = 0 /\ need <= need
        BY <1>2, <2>1
      <3> QED BY <2>1, <2>2, <2>5, <3>1
    <2>7. Walk'[0 + need] = <<>> \o <<d>>
      BY <1>2, <2>4, <2>6 DEF d
    <2> QED BY <2>1, <2>7
  <1>7. ASSUME NEW c \in starts, Behind(c) \in G PROVE c \in G
    <2> DEFINE rem == Minus(w, c) + need
               r == Rest(Behind(c))
    <2>1. /\ HeadAt(c) \in Heads /\ HeadAt(c).block_num \in 1 .. N /\ c \in Boundary
          /\ HeadAt(c).block_num <= Minus(w, c)
          /\ Minus(w, c) - HeadAt(c).block_num = Minus(w, Behind(c))
          /\ Minus(w, c) \in 0 .. N
      BY Distances DEF QInv, Boundary
    <2>2. /\ rem \in 0 .. N /\ rem # 0 /\ Minus(Behind(w), rem) = c
          /\ HeadAt(c).block_num <= rem
          /\ rem - HeadAt(c).block_num = Minus(w, Behind(c)) + need
      BY <1>2, <1>4, <2>1, RangeFacts
    <2>3. Walk'[Minus(w, Behind(c)) + need] = r \o <<d>>
      BY <1>7
    <2>4. \A i \in 0 .. N :
            LET b == Minus(Behind(w), i)
            IN  Walk'[i] = IF i # 0 /\ HeadAt(b) \in Heads /\ HeadAt(b).block_num <= i
                           THEN <<Decode(b)>> \o Walk'[i - HeadAt(b).block_num]
                           ELSE <<>>
      BY <1>1, WalkIsNext DEF WalkRule, HeadAt, Decode
    <2> HIDE DEF rem, d, G, need, r, X
    <2>5. Walk'[rem] = <<Decode(c)>> \o (r \o <<d>>)
      BY <2>1, <2>2, <2>3, <2>4
    <2>6. r \in Seq(X) /\ Decode(c) \in X
      BY <1>5, Distances DEF QInv, r, X
    <2>7. <<Decode(c)>> \o (r \o <<d>>) = (<<Decode(c)>> \o r) \o <<d>>
      <3>1. r \in Seq(X \cup {d}) /\ <<Decode(c)>> \in Seq(X \cup {d}) /\ <<d>> \in Seq(X \cup {d})
        BY <2>6
      <3> QED BY <3>1, ConcatAssociative
    <2>8. Rest(c) = <<Decode(c)>> \o r
      BY RestIs DEF QInv, r
    <2> QED BY <2>1, <2>5, <2>7, <2>8 DEF G, rem
  <1>8. Boundary \subseteq G
    <2> HIDE DEF G
    <2> QED BY <1>6, <1>7, AlongTheChain DEF QInv
  <1>9. rt_reading_cursor_cache \in Boundary
    BY ReaderAt DEF QInv
  <1>10. Queue' = Walk'[Minus(w, rt_reading_cursor_cache) + need]
    BY <1>1, <1>4, <1>9, QueueIsNext DEF Rest
  <1>11. Queue' = Queue \o <<d>> /\ Queue \in Seq(X)
    BY <1>5, <1>8, <1>9, <1>10, QueueIs
  <1> HIDE DEF d, X
  <1>12. Queue' = Append(Queue, d)
    BY <1>11
  <1> QED BY <1>3, <1>12 DEF d

-----------------------------------------------------------------------------
\* The check of a saved ring, as a walk of its own.
ValidRule(f, rem) ==
    \/ rem = 0
    \/ LET c == Minus(wt_writing_cursor_cache, rem)
           h == HeadAt(c)
       IN  /\ h \in Heads
           /\ h.block_num <= rem
           /\ ~SizeInvalid(c, h.data_size)
           /\ h.block_num = ChunkBlocks(c, h.data_size)
           /\ f[rem - h.block_num]

Valid == CHOOSE f : f = [rem \in 0 .. N |-> ValidRule(f, rem)]

LEMMA ValidIs == \A rem \in 0 .. N : Valid[rem] = ValidRule(Valid, rem)
  <1> DEFINE Is(f, n) == f = [rem \in 0 .. n |-> ValidRule(f, rem)]
  <1>0. N \in Nat
    BY RangeFacts
  <1>1. \A n \in Nat : \E f : Is(f, n)
    <2> DEFINE T == {n \in Nat : ~ \E f : Is(f, n)}
    <2> SUFFICES ASSUME T # {} PROVE FALSE
      OBVIOUS
    <2>1. PICK n \in T : \A y \in T : n <= y
      <3>1. T \subseteq Nat
        OBVIOUS
      <3> HIDE DEF T
      <3> QED BY <3>1, LeastNumber
    <2>2. CASE n = 0
      <3>1. Is([rem \in 0 .. 0 |-> TRUE], 0)
        BY DEF ValidRule
      <3> QED BY <2>1, <2>2, <3>1
    <2>3. CASE n # 0
      <3> HIDE DEF Is
      <3>1. n \in Nat /\ n - 1 \in Nat /\ n - 1 \notin T
        BY <2>1, <2>3
      <3>2. PICK f : Is(f, n - 1)
        BY <3>1
      <3>3. \A i \in 0 .. n - 1 : f[i] = ValidRule(f, i)
        BY <3>2 DEF Is
      <3> HIDE DEF T
      <3> DEFINE g == [i \in 0 .. n |-> IF i = n THEN ValidRule(f, n) ELSE f[i]]
      <3>4. \A i \in 0 .. n - 1 : g[i] = f[i]
        BY <3>1
      <3> HIDE DEF g
      <3>5. \A i \in 0 .. n : ValidRule(g, i) = ValidRule(f, i)
        BY <3>1, <3>4 DEF ValidRule, Heads
      <3>6. \A i \in 0 .. n : g[i] = ValidRule(g, i)
        BY <3>1, <3>3, <3>5 DEF g
      <3>7. Is(g, n)
        BY <3>6 DEF Is, g
      <3> QED BY <3>7 DEF T
    <2> QED BY <2>2, <2>3
  <1>2. Is(Valid, N)
    BY <1>0, <1>1 DEF Valid
  <1> QED BY <1>2

\* try_recover_from_exist_memory_map accepts every ring this program can leave
\* behind, so a crash loses no committed chunk.
LEMMA SnapshotValid ==
    ASSUME IInv
    PROVE  ValidSnapshot
  <1> DEFINE w == wt_writing_cursor_cache
             G == {c \in Boundary : Valid[Minus(w, c)] = TRUE}
  <1>1. w \in G
    <2>1. 0 \in 0 .. N /\ Minus(w, w) = 0 /\ w \in Boundary
      BY RangeFacts, Distances
    <2>2. ValidRule(Valid, 0) = TRUE
      BY DEF ValidRule
    <2> QED BY <2>1, <2>2, ValidIs
  <1>2. ASSUME NEW c \in starts, Behind(c) \in G PROVE c \in G
    <2> DEFINE rem == Minus(w, c)
               z == HeadAt(c).data_size
    <2>1. /\ rem \in 0 .. N /\ Minus(w, rem) = c
          /\ HeadAt(c) \in Heads /\ HeadAt(c).block_num <= rem
          /\ rem - HeadAt(c).block_num = Minus(w, Behind(c)) /\ c \in Boundary
          /\ HeadAt(c).block_num \in 1 .. N /\ HeadAt(c).block_num = ChunkBlocks(c, z)
      BY Distances DEF IInv, ChunkChain, Boundary
    <2>2. Valid[Minus(w, Behind(c))] = TRUE
      BY <1>2
    <2>3. ~SizeInvalid(c, z)
      <3>1. z \in Nat /\ N \in Nat /\ N >= 2 /\ Index(c) \in 0 .. N - 1
        BY <2>1, SisoAssumption, RangeFacts, IndexType, Distances DEF Heads, Slot
      <3> HIDE DEF z
      <3> QED BY <2>1, <3>1 DEF SizeInvalid, ChunkBlocks, Wraps, TailBlocks
    <2> HIDE DEF rem, G
    <2>4. ValidRule(Valid, rem) = TRUE
      BY <2>1, <2>2, <2>3 DEF ValidRule
    <2> QED BY <2>1, <2>4, ValidIs DEF rem, G
  <1>3. Boundary \subseteq G
    <2> HIDE DEF G
    <2> QED BY <1>1, <1>2, AlongTheChain
  <1>4. Valid[Minus(w, rt_reading_cursor_cache)] /\ Minus(w, rt_reading_cursor_cache) <= N
    BY <1>3, ReaderAt, Distances, RangeFacts
  <1> QED BY <1>4 DEF ValidSnapshot, Valid, ValidRule

-----------------------------------------------------------------------------
\* The handles, step by step.
LEMMA HandleWriter ==
    ASSUME QInv,
           \/ \E s \in Sizes, p \in Payload : alloc_write_chunk(s, p)
           \/ \E s \in Sizes : alloc_fails(s)
           \/ confirm_low_space \/ fill \/ commit_write_chunk
    PROVE  HandleInv'
  <1>1. ASSUME NEW s \in Sizes, NEW p \in Payload, alloc_write_chunk(s, p) PROVE HandleInv'
    <2>1. /\ UNCHANGED <<rpc, read_handle, rt_reading_cursor_cache, wt_writing_cursor_cache, starts>>
          /\ write_handle'.payload = p /\ write_handle'.size = s
          /\ write_handle'.todo = PayloadSlots(wt_writing_cursor_cache, s)
      BY <1>1 DEF alloc_write_chunk, reader
    <2> QED BY <2>1 DEF HandleInv, QInv
  <1>2. ASSUME NEW s \in Sizes, alloc_fails(s) PROVE HandleInv'
    BY <1>2 DEF alloc_fails, HandleInv, QInv, writer, reader
  <1>3. CASE confirm_low_space
    <2>1. /\ UNCHANGED <<rpc, read_handle, rt_reading_cursor_cache, wt_writing_cursor_cache,
                         starts, blocks>>
          /\ wpc = "confirm" /\ write_handle \in Handles
          /\ write_handle' = [write_handle EXCEPT !.low_space_flag = write_handle'.low_space_flag]
      BY <1>3 DEF confirm_low_space, reader, QInv, IInv, TypeOK, Handles
    <2>2. /\ write_handle'.payload = write_handle.payload /\ write_handle'.size = write_handle.size
          /\ write_handle'.todo = write_handle.todo
      BY <2>1 DEF Handles
    <2> QED BY <2>1, <2>2 DEF HandleInv, QInv
  <1>4. CASE fill
    <2>1. PICK i \in write_handle.todo :
            /\ blocks' = [blocks EXCEPT ![i] = write_handle.payload]
            /\ write_handle' = [write_handle EXCEPT !.todo = @ \ {i}]
      BY <1>4 DEF fill
    <2>2. /\ UNCHANGED <<rpc, read_handle, rt_reading_cursor_cache, wt_writing_cursor_cache, starts>>
          /\ wpc = "fill" /\ write_handle \in Handles /\ i \in Slot /\ DOMAIN blocks = Slot
      BY <1>4, <2>1 DEF fill, reader, cursors, QInv, IInv, TypeOK, Handles
    <2>3. /\ write_handle'.payload = write_handle.payload /\ write_handle'.size = write_handle.size
          /\ write_handle'.todo = write_handle.todo \ {i}
      BY <2>1, <2>2 DEF Handles
    <2>4. HandleInv /\ blocks'[i] = write_handle.payload /\ \A j \in Slot \ {i} : blocks'[j] = blocks[j]
      BY <2>1, <2>2 DEF QInv
    <2>5. PayloadSlots(wt_writing_cursor_cache, write_handle.size) \subseteq Slot
      BY <2>2, HeadNotPayload, SisoAssumption DEF QInv, IInv, WriterInv, TypeOK
    <2> QED BY <2>2, <2>3, <2>4, <2>5 DEF HandleInv
  <1>5. CASE commit_write_chunk
    BY <1>5 DEF commit_write_chunk, HandleInv, QInv, reader
  <1> QED BY <1>1, <1>2, <1>3, <1>4, <1>5

LEMMA HandleReader ==
    ASSUME QInv,
           \/ read_chunk \/ return_read_chunk \/ discard_read_chunk
           \/ batch_read \/ batch_next \/ return_batch_read_chunks \/ data_traverse
    PROVE  HandleInv'
  <1>0. UNCHANGED <<blocks, wt_writing_cursor_cache, wpc, write_handle>>
    BY DEF read_chunk, return_read_chunk, discard_read_chunk, batch_read, batch_next,
           return_batch_read_chunks, data_traverse, writer, cursors
  <1>1. CASE read_chunk
    <2>1. CASE ReaderView = rt_reading_cursor_cache
      BY <1>0, <1>1, <2>1 DEF read_chunk, HandleInv, QInv
    <2>2. CASE ReaderView # rt_reading_cursor_cache
      <3>1. rt_reading_cursor_cache \in starts
        <4>1. CASE rt_reading_cursor_cache # rt_writing_cursor_cache
          BY <4>1, ReaderAt DEF QInv
        <4>2. CASE rt_reading_cursor_cache = rt_writing_cursor_cache
          <5>1. rt_reading_cursor_cache # wt_writing_cursor_cache
            BY <2>2, <4>2 DEF ReaderView, QInv, IInv, CursorOrder
          <5> QED BY <5>1, ReaderAt DEF QInv, Boundary
        <4> QED BY <4>1, <4>2
      <3> QED BY <1>0, <1>1, <2>2, <3>1 DEF read_chunk, HandleInv, QInv
    <2> QED BY <2>1, <2>2
  <1>2. CASE return_read_chunk \/ discard_read_chunk \/ return_batch_read_chunks
    <2>1. rpc' = "idle"
      BY <1>2 DEF return_read_chunk, discard_read_chunk, return_batch_read_chunks, ReaderIdle
    <2> QED BY <1>0, <2>1 DEF HandleInv, QInv
  <1>3. CASE batch_read
    <2>1. rpc' \in {"idle", "batch"}
      BY <1>3 DEF batch_read
    <2> QED BY <1>0, <2>1 DEF HandleInv, QInv
  <1>4. CASE batch_next
    <2>1. /\ rt_reading_cursor_cache # rt_writing_cursor_cache
          /\ rpc' = "batch_lent" /\ read_handle' = rt_reading_cursor_cache /\ UNCHANGED starts
      BY <1>4 DEF batch_next, QInv, IInv, ReaderInv
    <2>2. rt_reading_cursor_cache \in starts
      BY <2>1, ReaderAt DEF QInv
    <2> QED BY <1>0, <2>1, <2>2 DEF HandleInv, QInv
  <1>5. CASE data_traverse
    BY <1>0, <1>5 DEF data_traverse, HandleInv, QInv, reader
  <1> QED BY <1>1, <1>2, <1>3, <1>4, <1>5

LEMMA HandleLife ==
    ASSUME QInv, renew \/ crash \/ recover
    PROVE  HandleInv'
  <1>1. rpc' \in {"idle", "down"} /\ wpc' \in {"idle", "down"}
    BY DEF renew, crash, recover, writer, reader
  <1> QED BY <1>1 DEF HandleInv

\* The invariant of the refinement.
LEMMA QInvariance == Spec => []QInv
  <1>1. Init => HandleInv
    BY DEF Init, HandleInv
  <1>2. QInv /\ [Next]_vars => HandleInv'
    <2> SUFFICES ASSUME QInv, [Next]_vars PROVE HandleInv'
      OBVIOUS
    <2>1. CASE UNCHANGED vars
      BY <2>1 DEF vars, cursors, writer, reader, HandleInv, QInv
    <2>2. CASE Next
      BY <2>2, HandleWriter, HandleReader, HandleLife DEF Next
    <2> QED BY <2>1, <2>2
  <1>3. QInv /\ [Next]_vars => QInv'
    BY <1>2, Inductive DEF QInv
  <1>4. Init => QInv
    BY <1>1, Initially DEF QInv
  <1> QED BY <1>3, <1>4, PTL DEF Spec

-----------------------------------------------------------------------------
\* The chunk that is lent stays as it is as long as no chunk changes.
LEMMA LentKept ==
    ASSUME QInv, UNCHANGED <<rpc, read_handle>>,
           \A c \in starts : HeadAt(c)' = HeadAt(c) /\ Decode(c)' = Decode(c)
    PROVE  Lent' = Lent
  BY DEF Lent, QInv, HandleInv

\* A step of the writer puts one chunk into the queue or changes nothing of it.
LEMMA WriterRefines ==
    ASSUME QInv,
           \/ \E s \in Sizes, p \in Payload : alloc_write_chunk(s, p)
           \/ \E s \in Sizes : alloc_fails(s)
           \/ confirm_low_space \/ fill \/ commit_write_chunk
    PROVE  Fifo!Put \/ UNCHANGED <<Queue, Lent>>
  <1> DEFINE w == wt_writing_cursor_cache
             Same == \A c \in starts : HeadAt(c)' = HeadAt(c) /\ Decode(c)' = Decode(c)
  <1>0. ASSUME Same, UNCHANGED <<rpc, read_handle, rt_reading_cursor_cache, wt_writing_cursor_cache>>
        PROVE  UNCHANGED <<Queue, Lent>>
    <2>1. rt_reading_cursor_cache \in Boundary
      BY ReaderAt DEF QInv
    <2>2. Queue' = Rest(rt_reading_cursor_cache)
      BY <1>0, <2>1, QueueAfter DEF QInv
    <2>3. Lent' = Lent
      BY <1>0, LentKept
    <2> QED BY <2>2, <2>3, QueueIs
  <1>1. ASSUME NEW s \in Sizes, NEW p \in Payload, alloc_write_chunk(s, p)
        PROVE  UNCHANGED <<Queue, Lent>>
    <2> DEFINE view == WriterView(s)
               need == ChunkBlocks(w, s)
    <2>1. w \in Cursor /\ s \in Nat /\ need \in 1 .. N
      BY <1>1, AcceptedFits, SisoAssumption DEF QInv, IInv, TypeOK, alloc_write_chunk
    <2>2. view \in {wt_reading_cursor_cache, reading_cursor}
      BY DEF WriterView
    <2>3. Minus(w, view) \in 0 .. N /\ Minus(w, view) + need <= N
      <3>1. FreeBlocks(view) = N - Minus(w, view) /\ Minus(w, view) \in 0 .. N
        BY <2>2, FreeRoom DEF QInv, IInv
      <3>2. FreeBlocks(view) >= need
        BY <1>1 DEF alloc_write_chunk
      <3> QED BY <2>1, <3>1, <3>2, RangeFacts
    <2>4. Minus(w, reading_cursor) + need <= N
      <3>1. Minus(w, reading_cursor) <= Minus(w, view) /\ Minus(w, reading_cursor) \in 0 .. N
        BY <2>2, FreeRoom DEF QInv, IInv, Off
      <3> QED BY <2>1, <2>3, <3>1, RangeFacts
    <2>5. /\ blocks' = [blocks EXCEPT ![Index(w)] = [block_num |-> need, data_size |-> s]]
          /\ UNCHANGED <<rpc, read_handle, rt_reading_cursor_cache, wt_writing_cursor_cache>>
      BY <1>1 DEF alloc_write_chunk, reader
    <2>6. Index(w) \in ChunkSlots(w, s)
      BY DEF ChunkSlots
    <2>7. Same
      <3> HIDE DEF need
      <3> QED BY <2>1, <2>4, <2>5, <2>6, ChunksSafe DEF QInv, need
    <2> QED BY <1>0, <2>5, <2>7
  <1>2. ASSUME NEW s \in Sizes, alloc_fails(s) PROVE UNCHANGED <<Queue, Lent>>
    BY <1>0, <1>2, ChunksKept DEF alloc_fails, reader
  <1>3. CASE confirm_low_space
    BY <1>0, <1>3, ChunksKept DEF confirm_low_space, reader
  <1>4. CASE fill
    <2> DEFINE s == write_handle.size
               need == ChunkBlocks(w, s)
    <2>1. PICK i \in write_handle.todo : blocks' = [blocks EXCEPT ![i] = write_handle.payload]
      BY <1>4 DEF fill
    <2>2. /\ s \in Nat /\ need \in 1 .. N /\ Off(w) + need <= N
          /\ i \in PayloadSlots(w, s)
      BY <1>4, <2>1, SisoAssumption DEF fill, QInv, IInv, WriterInv
    <2>3. Minus(w, reading_cursor) + need <= N
      BY <2>2, FreeRoom, ReaderStays, RangeFacts DEF QInv, IInv
    <2>4. i \in ChunkSlots(w, s)
      BY <2>2 DEF ChunkSlots
    <2>5. Same
      BY <2>1, <2>2, <2>3, <2>4, ChunksSafe DEF QInv
    <2> QED BY <1>0, <1>4, <2>5 DEF fill, reader, cursors
  <1>5. CASE commit_write_chunk
    <2>1. Queue' = Append(Queue, Decode(w)) /\ Decode(w) \in Chunk
      BY <1>5, QueueCommitted
    <2>2. Lent' = Lent
      BY <1>5, ChunksKept, LentKept DEF commit_write_chunk, reader
    <2> QED BY <2>1, <2>2 DEF Fifo!Put
  <1> QED BY <1>1, <1>2, <1>3, <1>4, <1>5

\* The queue when no chunk is written, and the chunk the reader stands before.
LEMMA Reading ==
    ASSUME QInv, UNCHANGED <<blocks, wt_writing_cursor_cache>>
    PROVE  /\ rt_reading_cursor_cache' \in Boundary => Queue' = Rest(rt_reading_cursor_cache')
           /\ rt_reading_cursor_cache \in Boundary
           /\ rt_reading_cursor_cache \in starts =>
                /\ Queue # <<>> /\ Head(Queue) = Decode(rt_reading_cursor_cache)
                /\ Tail(Queue) = Rest(Behind(rt_reading_cursor_cache))
                /\ Behind(rt_reading_cursor_cache) \in Boundary
           /\ \A c : Decode(c)' = Decode(c)
  <1>1. rt_reading_cursor_cache' \in Boundary => Queue' = Rest(rt_reading_cursor_cache')
    BY ChunksKept, QueueAfter DEF QInv
  <1>2. rt_reading_cursor_cache \in Boundary
    BY ReaderAt DEF QInv
  <1>3. ASSUME rt_reading_cursor_cache \in starts
        PROVE  /\ Queue # <<>> /\ Head(Queue) = Decode(rt_reading_cursor_cache)
               /\ Tail(Queue) = Rest(Behind(rt_reading_cursor_cache))
               /\ Behind(rt_reading_cursor_cache) \in Boundary
    BY <1>3, QueueIs, RestSeq, Distances DEF QInv
  <1>4. \A c : Decode(c)' = Decode(c)
    BY DEF Decode, HeadAt
  <1> QED BY <1>1, <1>2, <1>3, <1>4

\* A step of the reader looks at the oldest chunk, consumes it, puts it back or
\* takes it out of the queue.
LEMMA ReaderRefines ==
    ASSUME QInv,
           \/ read_chunk \/ return_read_chunk \/ discard_read_chunk
           \/ batch_read \/ batch_next \/ return_batch_read_chunks \/ data_traverse
    PROVE  Fifo!Next \/ UNCHANGED <<Queue, Lent>>
  <1> DEFINE r == rt_reading_cursor_cache
  <1>0. UNCHANGED <<blocks, wt_writing_cursor_cache>>
    BY DEF read_chunk, return_read_chunk, discard_read_chunk, batch_read, batch_next,
           return_batch_read_chunks, data_traverse, cursors
  <1>a. ASSUME UNCHANGED rt_reading_cursor_cache PROVE Queue' = Queue
    BY <1>0, <1>a, Reading, QueueIs
  <1>1. CASE read_chunk
    <2>1. UNCHANGED rt_reading_cursor_cache
      BY <1>1 DEF read_chunk
    <2>2. CASE UNCHANGED <<rpc, read_handle>>
      <3>1. Lent' = Lent
        BY <1>0, <2>2, ChunksKept, LentKept
      <3> QED BY <1>a, <2>1, <3>1
    <2>3. CASE rpc' = "lent" /\ read_handle' = r
      <3>1. r \in starts
        <4>1. HandleInv'
          BY <1>1, HandleReader
        <4>2. UNCHANGED starts
          BY <1>1 DEF read_chunk
        <4> QED BY <2>3, <4>1, <4>2 DEF HandleInv
      <3>2. Lent' = Decode(r)
        BY <1>0, <2>3, Reading DEF Lent
      <3>3. Queue # <<>> /\ Head(Queue) = Decode(r)
        BY <1>0, <3>1, Reading
      <3> QED BY <1>a, <2>1, <3>2, <3>3 DEF Fifo!Next, Fifo!Peek
    <2> QED BY <1>1, <2>2, <2>3 DEF read_chunk
  <1>2. CASE return_read_chunk
    <2>1. r \in starts /\ Lent = Decode(r)
      BY <1>2 DEF return_read_chunk, QInv, HandleInv, Lent
    <2>2. rt_reading_cursor_cache' = Behind(r) /\ Lent' = None
      BY <1>2 DEF return_read_chunk, ReaderIdle, Lent
    <2>3. /\ Queue # <<>> /\ Head(Queue) = Decode(r) /\ Tail(Queue) = Rest(Behind(r))
          /\ Queue' = Rest(Behind(r))
      BY <1>0, <2>1, <2>2, Reading
    <2> QED BY <2>1, <2>2, <2>3 DEF Fifo!Next, Fifo!Consume
  <1>3. CASE discard_read_chunk \/ return_batch_read_chunks
    <2>1. UNCHANGED rt_reading_cursor_cache /\ Lent' = None
      BY <1>3 DEF discard_read_chunk, return_batch_read_chunks, ReaderIdle, Lent, cursors
    <2> QED BY <1>a, <2>1 DEF Fifo!Next, Fifo!GiveBack
  <1>4. CASE batch_read
    <2>1. UNCHANGED rt_reading_cursor_cache /\ Lent' = None
      BY <1>4 DEF batch_read, Lent
    <2> QED BY <1>a, <2>1 DEF Fifo!Next, Fifo!GiveBack
  <1>5. CASE batch_next
    <2>1. /\ rt_reading_cursor_cache # rt_writing_cursor_cache
          /\ rpc' = "batch_lent" /\ read_handle' = r /\ rt_reading_cursor_cache' = Behind(r)
      BY <1>5 DEF batch_next, QInv, IInv, ReaderInv
    <2>2. r \in starts
      BY <2>1, ReaderAt DEF QInv
    <2>3. Lent' = Decode(r)
      BY <1>0, <2>1, Reading DEF Lent
    <2>4. /\ Queue # <<>> /\ Head(Queue) = Decode(r) /\ Tail(Queue) = Rest(Behind(r))
          /\ Queue' = Rest(Behind(r))
      BY <1>0, <2>1, <2>2, Reading
    <2> QED BY <2>3, <2>4 DEF Fifo!Next, Fifo!Take
  <1>6. CASE data_traverse
    <2>1. UNCHANGED <<rt_reading_cursor_cache, rpc, read_handle>>
      BY <1>6 DEF data_traverse, reader
    <2>2. Lent' = Lent
      BY <1>0, <2>1, ChunksKept, LentKept
    <2> QED BY <1>a, <2>1, <2>2
  <1> QED BY <1>1, <1>2, <1>3, <1>4, <1>5, <1>6

\* A crash takes away the loan and nothing else, a recovery finds the same
\* queue, and a renewed ring was empty.
LEMMA LifeRefines ==
    ASSUME QInv, renew \/ crash \/ recover
    PROVE  Fifo!Next \/ UNCHANGED <<Queue, Lent>>
  <1>1. CASE crash \/ recover
    <2>1. UNCHANGED <<blocks, wt_writing_cursor_cache, rt_reading_cursor_cache>>
      BY <1>1, SnapshotValid DEF crash, recover, SetCursors, cursors, QInv
    <2>2. Queue' = Queue
      BY <2>1, Reading, QueueIs
    <2>3. Lent' = None
      BY <1>1 DEF crash, recover, Lent
    <2> QED BY <2>2, <2>3 DEF Fifo!Next, Fifo!GiveBack
  <1>2. CASE renew
    <2>1. Queue = <<>>
      BY <1>2, QueueIs, RestIs DEF renew, QInv
    <2>2. Queue' = <<>>
      <3>1. wt_writing_cursor_cache' = 0 /\ rt_reading_cursor_cache' = 0
        BY <1>2 DEF renew, init_cursors, SetCursors
      <3>2. Minus(0, 0) = 0 /\ 0 \in 0 .. N
        BY RangeFacts DEF Minus
      <3>3. Queue' = Walk'[0]
        BY <3>1, <3>2, QueueIsNext DEF Rest
      <3> QED BY <3>2, <3>3, WalkIsNext DEF WalkRule
    <2>3. Lent' = None
      BY <1>2 DEF renew, reader, Lent
    <2> QED BY <2>1, <2>2, <2>3 DEF Fifo!Next, Fifo!GiveBack
  <1> QED BY <1>1, <1>2

\* siso_ring_buffer is a FIFO queue of whole chunks: everything committed is
\* delivered once, in order and unaltered while it is lent, across the wrap of
\* the array and of the uint32_t, across renew and across a crash between any
\* two steps of writer and reader.
THEOREM RingIsFifo == Spec => IsFifo
  <1>1. Init => Fifo!Init
    <2> SUFFICES ASSUME Init PROVE Fifo!Init
      OBVIOUS
    <2>1. IInv
      BY Initially
    <2>2. Queue = <<>>
      BY <2>1, QueueIs, RestIs DEF Init
    <2>3. Lent = None
      BY DEF Init, Lent
    <2> QED BY <2>2, <2>3 DEF Fifo!Init
  <1>2. QInv /\ [Next]_vars => [Fifo!Next]_(Fifo!vars)
    <2> SUFFICES ASSUME QInv, [Next]_vars PROVE Fifo!Next \/ UNCHANGED <<Queue, Lent>>
      BY DEF Fifo!vars
    <2>1. CASE UNCHANGED vars
      <3>1. UNCHANGED <<blocks, wt_writing_cursor_cache, rt_reading_cursor_cache, rpc, read_handle>>
        BY <2>1 DEF vars, cursors, writer, reader
      <3>2. Queue' = Queue
        BY <3>1, Reading, QueueIs
      <3>3. Lent' = Lent
        BY <3>1, ChunksKept, LentKept
      <3> QED BY <3>2, <3>3
    <2>2. CASE Next
      BY <2>2, WriterRefines, ReaderRefines, LifeRefines DEF Next, Fifo!Next
    <2> QED BY <2>1, <2>2
  <1> QED BY <1>1, <1>2, QInvariance, PTL DEF Spec, IsFifo, Fifo!Spec

=============================================================================
