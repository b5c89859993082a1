----------------------------- MODULE RingArith -----------------------------
(***************************************************************************)
(* The arithmetic both ring buffers of QLog do on their cursors.  A cursor  *)
(* is a uint32_t that only grows and wraps; the block it denotes is         *)
(* cursor & (N - 1).  A w-bit cursor is modelled by a modulus M = N * Laps  *)
(* (in the code 2^32), so the ring is passed Laps times before the cursor   *)
(* itself wraps.                                                            *)
(***************************************************************************)
EXTENDS Integers

CONSTANTS
    N,      \* aligned_blocks_count_: blocks in the ring
    Laps    \* how often the ring fits into the range of a cursor

\* The code asks for at least two blocks and asserts that their number stays
\* far below the range of the cursor.
ASSUME RingAssumption ==
    /\ N \in Nat /\ N >= 2
    /\ Laps \in Nat /\ Laps >= 2

M == N * Laps
Cursor == 0 .. M - 1
Slot == 0 .. N - 1

\* uint32_t addition c + k, for a count 0 <= k <= M
Plus(c, k) == IF c + k < M THEN c + k ELSE c + k - M

\* uint32_t subtraction c - d
Minus(c, d) == IF c >= d THEN c - d ELSE c - d + M

\* cursor & (aligned_blocks_count_ - 1)
Index(c) == c % N

=============================================================================
