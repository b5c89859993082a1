----------------------------- MODULE ChunkQueue -----------------------------
(***************************************************************************)
(* What a ring buffer with one reader promises: a FIFO queue of whole       *)
(* chunks.  q holds the committed chunks the reader has not consumed, lent  *)
(* the chunk the reader currently looks at.  A crash takes the loan away    *)
(* and nothing else.                                                        *)
(***************************************************************************)
EXTENDS Sequences

CONSTANTS
    Chunk,  \* the chunks a producer may commit
    None    \* no chunk is lent

VARIABLES q, lent

vars == <<q, lent>>

Init == q = <<>> /\ lent = None

\* A producer commits a chunk.
Put == \E c \in Chunk : q' = Append(q, c) /\ UNCHANGED lent

\* The reader looks at the oldest chunk and leaves it in the queue ...
Peek == q # <<>> /\ lent' = Head(q) /\ UNCHANGED q

\* ... and consumes it, or puts it back.
Consume == q # <<>> /\ lent = Head(q) /\ q' = Tail(q) /\ lent' = None
GiveBack == lent' = None /\ UNCHANGED q

\* The reader takes the oldest chunk out of the queue and looks at it.
Take == q # <<>> /\ lent' = Head(q) /\ q' = Tail(q)

Next == Put \/ Peek \/ Consume \/ GiveBack \/ Take

Spec == Init /\ [][Next]_vars

=============================================================================
