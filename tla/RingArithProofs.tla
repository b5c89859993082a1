--------------------------- MODULE RingArithProofs --------------------------
(***************************************************************************)
(* Facts about the cursors of a ring that the proofs of both rings use.     *)
(***************************************************************************)
EXTENDS RingArith, WellFoundedInduction, TLAPS

\* The range of a cursor: several laps of the ring.
LEMMA RangeFacts == /\ N \in Nat /\ N >= 2
                    /\ M \in Nat /\ M >= 2 * N
  <1>1. N \in Nat /\ N >= 2 /\ Laps \in Nat /\ Laps >= 2
    BY RingAssumption
  <1>2. N * Laps >= N * 2
    BY <1>1
  <1> QED BY <1>1, <1>2 DEF M

\* uint32_t addition and subtraction stay within the range of a cursor.
LEMMA PlusType ==
    ASSUME NEW c \in Cursor, NEW k \in 0 .. N
    PROVE  Plus(c, k) \in Cursor
  BY RangeFacts DEF Plus, Cursor

LEMMA MinusType ==
    ASSUME NEW c \in Cursor, NEW d \in Cursor
    PROVE  Minus(c, d) \in Cursor
  BY RangeFacts DEF Minus, Cursor

\* Moving the point that distances are measured from.
LEMMA Rebase ==
    ASSUME NEW a \in Cursor, NEW b \in Cursor, NEW c \in Cursor,
           Minus(a, c) <= Minus(b, c)
    PROVE  Minus(b, a) = Minus(b, c) - Minus(a, c)
  BY RangeFacts DEF Minus, Cursor

\* Two cursors at the same distance are the same cursor.
LEMMA SameDistance ==
    ASSUME NEW a \in Cursor, NEW b \in Cursor, NEW c \in Cursor,
           Minus(a, c) = Minus(b, c)
    PROVE  a = b
  BY RangeFacts DEF Minus, Cursor

\* Adding a count moves a cursor that far, as long as the distance fits.
LEMMA PlusDistance ==
    ASSUME NEW a \in Cursor, NEW c \in Cursor, NEW k \in 0 .. N,
           Minus(a, c) + k < M
    PROVE  Minus(Plus(a, k), c) = Minus(a, c) + k
  BY RangeFacts DEF Plus, Minus, Cursor

\* A multiple of a positive number is zero or at least that number.
LEMMA Multiples ==
    ASSUME NEW q \in Int, NEW n \in Nat, n > 0, -n < n * q, n * q < n
    PROVE  q = 0
  <1>1. CASE q >= 1
    <2>1. n * q >= n * 1  BY <1>1
    <2> QED BY <2>1
  <1>2. CASE q <= -1
    <2>1. n * q <= n * (-1)  BY <1>2
    <2> QED BY <2>1
  <1> QED BY <1>1, <1>2

\* Division with remainder is unique.
LEMMA Division ==
    ASSUME NEW x \in Int
    PROVE  \E q \in Int, r \in Slot : x = N * q + r /\ x % N = r
  <1>1. ASSUME NEW n \in Nat, n > 0
        PROVE  \E q \in Int, r \in 0 .. n - 1 : x = n * q + r /\ x % n = r
    BY <1>1
  <1> QED BY <1>1, RangeFacts DEF Slot

LEMMA Remainder ==
    ASSUME NEW x \in Int, NEW q \in Int, NEW r \in Slot, x = N * q + r
    PROVE  x % N = r
  <1>1. N \in Nat /\ N > 0  BY RangeFacts
  <1>2. PICK q0 \in Int, r0 \in Slot : x = N * q0 + r0 /\ x % N = r0
    BY Division
  <1>3. N * (q0 - q) = r - r0
    BY <1>1, <1>2 DEF Slot
  <1>4. -N < N * (q0 - q) /\ N * (q0 - q) < N
    BY <1>1, <1>2, <1>3 DEF Slot
  <1>5. q0 - q = 0
    BY <1>1, <1>2, <1>4, Multiples
  <1>6. N * (q0 - q) = 0
    BY <1>1, <1>5
  <1>7. r = r0
    BY <1>2, <1>3, <1>6 DEF Slot
  <1> QED BY <1>2, <1>7

\* The block a cursor denotes.
LEMMA IndexType == ASSUME NEW c \in Cursor PROVE Index(c) \in Slot
  <1>1. c \in Int
    BY RangeFacts DEF Cursor
  <1>2. PICK q \in Int, r \in Slot : c = N * q + r /\ c % N = r
    BY <1>1, Division
  <1> QED BY <1>2 DEF Index

\* The block k places behind a cursor: behind it in the array, or from block 0 on.
LEMMA IndexPlus ==
    ASSUME NEW c \in Cursor, NEW k \in 0 .. N
    PROVE  /\ Plus(c, k) \in Cursor
           /\ Index(c) + k < N  => Index(Plus(c, k)) = Index(c) + k
           /\ Index(c) + k >= N /\ k < N => Index(Plus(c, k)) = Index(c) + k - N
  <1>1. N \in Nat /\ N >= 2 /\ M \in Nat /\ M >= 2 * N /\ Laps \in Nat
    BY RangeFacts, RingAssumption
  <1>2. PICK q \in Int, r \in Slot : c = N * q + r /\ c % N = r
    BY Division DEF Cursor
  <1>3. Plus(c, k) \in Cursor
    BY PlusType
  <1>4. PICK e \in {0, Laps} : Plus(c, k) = c + k - N * e
    BY <1>1 DEF Plus, M, Cursor
  <1>5. q - e \in Int /\ q - e + 1 \in Int /\ Plus(c, k) \in Int
    BY <1>1, <1>2, <1>3, <1>4 DEF Cursor
  <1>6. N * (q - e) = N * q - N * e /\ N * (q - e + 1) = N * q - N * e + N
    BY <1>1, <1>4
  <1>7. Index(c) = r
    BY <1>2 DEF Index
  <1>8. CASE r + k < N
    <2>1. Plus(c, k) = N * (q - e) + (r + k)
      BY <1>1, <1>2, <1>4, <1>6 DEF Cursor, Slot
    <2>2. r + k \in Slot
      BY <1>1, <1>2, <1>8 DEF Slot
    <2>3. Index(Plus(c, k)) = r + k
      BY <1>5, <2>1, <2>2, Remainder DEF Index
    <2>4. ~(r + k >= N)
      BY <1>1, <1>8 DEF Slot
    <2> QED BY <1>3, <1>7, <2>3, <2>4
  <1>9. CASE r + k >= N /\ k < N
    <2>1. Plus(c, k) = N * (q - e + 1) + (r + k - N)
      BY <1>1, <1>2, <1>4, <1>6 DEF Cursor, Slot
    <2>2. r + k - N \in Slot
      BY <1>1, <1>2, <1>9 DEF Slot
    <2>3. Index(Plus(c, k)) = r + k - N
      BY <1>5, <2>1, <2>2, Remainder DEF Index
    <2>4. ~(r + k < N)
      BY <1>1, <1>9 DEF Slot
    <2> QED BY <1>3, <1>7, <2>3, <2>4
  <1> QED BY <1>3, <1>7, <1>8, <1>9

\* Two cursors less than a lap apart denote different blocks.
LEMMA DistinctSlots ==
    ASSUME NEW a \in Cursor, NEW b \in Cursor, Minus(a, b) \in 1 .. N - 1
    PROVE  Index(a) # Index(b)
  <1>1. PICK k \in 0 .. N : k = Minus(a, b) /\ k >= 1 /\ k < N
    BY RangeFacts
  <1>2. a = Plus(b, k)
    BY <1>1, RangeFacts DEF Plus, Minus, Cursor
  <1>3. Index(b) \in 0 .. N - 1
    BY IndexType DEF Slot
  <1>4. \/ Index(Plus(b, k)) = Index(b) + k
        \/ Index(Plus(b, k)) = Index(b) + k - N
    BY <1>1, <1>3, IndexPlus, RangeFacts
  <1> QED BY <1>1, <1>2, <1>3, <1>4, RangeFacts

\* A natural number is the least one of its kind: what takes the place of
\* induction.
LEMMA LeastNumber ==
    ASSUME NEW S, S \subseteq Nat, S # {}
    PROVE  \E x \in S : \A y \in S : x <= y
  <1>1. PICK x \in S : \A y \in S : ~(<<y, x>> \in OpToRel(<, Nat))
    BY WFMin, NatLessThanWellFounded
  <1>2. \A y \in Nat : y < x => <<y, x>> \in OpToRel(<, Nat)
    <2> SUFFICES ASSUME NEW y \in Nat, y < x PROVE <<y, x>> \in OpToRel(<, Nat)
      OBVIOUS
    <2>1. <<y, x>> \in Nat \X Nat /\ <<y, x>>[1] = y /\ <<y, x>>[2] = x
      OBVIOUS
    <2> QED BY <2>1, Zenon DEF OpToRel
  <1>3. \A y \in S : ~(y < x)
    BY <1>1, <1>2, Zenon
  <1> QED BY <1>3

=============================================================================
