------------------------------ MODULE SisoQueue -----------------------------
(***************************************************************************)
(* siso_ring_buffer implements the FIFO queue of whole chunks: the abstract *)
(* queue is decoded from the bytes of the ring, the way the reader decodes  *)
(* it.  A payload overwritten too early, a head read at the wrong block, a  *)
(* chunk lost by a crash or delivered twice is a step no queue can take.    *)
(***************************************************************************)
EXTENDS SisoRing, Sequences

CONSTANT None

\* What the reader sees of the chunk at c: its size and the payload blocks
Decode(c) ==
    LET s == HeadAt(c).data_size
    IN  [size |-> s, data |-> {blocks[i] : i \in PayloadSlots(c, s)}]

Chunk == [size : Sizes, data : {{}} \cup {{p} : p \in Payload}]

\* The committed chunks from the persistent reading cursor on, oldest first,
\* each found by the head of the one before it; a walk that met no head would
\* end there.  Chunks that a batch has already handed out are consumed.
Queue ==
    LET from[rem \in 0 .. N] ==
            LET c == Minus(wt_writing_cursor_cache, rem)
            IN  IF rem # 0 /\ HeadAt(c) \in Heads /\ HeadAt(c).block_num <= rem
                THEN <<Decode(c)>> \o from[rem - HeadAt(c).block_num]
                ELSE <<>>
    IN  from[Minus(wt_writing_cursor_cache, rt_reading_cursor_cache)]

Lent == IF rpc \in {"lent", "batch_lent"} THEN Decode(read_handle) ELSE None

Fifo == INSTANCE ChunkQueue WITH q <- Queue, lent <- Lent

\* The ring is a FIFO queue of whole chunks: what is committed is delivered
\* once, in order and unaltered while it is lent, across wrap-around and across
\* a crash between any two steps.
IsFifo == Fifo!Spec

=============================================================================
