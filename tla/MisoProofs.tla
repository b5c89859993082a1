----------------------------- MODULE MisoProofs -----------------------------
(***************************************************************************)
(* Proofs about MisoRing, for every ring size, every number of threads and  *)
(* every range of the cursors that has room for one reservation too many of *)
(* each thread.                                                             *)
(*                                                                          *)
(* ReservationsSound is not inductive.  Whether a reservation fits is       *)
(* decided by a subtraction in the cursors' arithmetic, so the reservations *)
(* that did not fit must be bounded too: each of them belongs to another    *)
(* thread (Holders), hence there are at most as many as threads.  Whether a *)
(* released block is clean depends on the consumer's cursors standing       *)
(* between two reservations (Reader), and these move by what it finds in    *)
(* the heads (HeadsRight).                                                  *)
(***************************************************************************)
EXTENDS MisoRing, RingArithProofs, FiniteSetTheorems, SequenceTheorems,
        WellFoundedInduction

Pcs == {"idle", "view", "check", "rollback", "cas", "write", "low", "fill", "commit"}
Local == [pc : Pcs, need : Needs \cup {0}, cursor : Cursor, low_space_flag : BOOLEAN]
Ticket == [owner : Producers, at : Cursor, n : Needs, kind : Kinds]
Block == [status : Statuses, block_num : 0 .. N]

Types ==
    /\ blocks \in [Slot -> Block]
    /\ write_cursor \in Cursor /\ read_cursor \in Cursor
    /\ read_cursor_cache \in Cursor /\ read_cursor_start_cache \in Cursor
    /\ rpc \in {"idle", "skip", "lent", "empty", "publish", "down"}
    /\ prod \in [Producers -> Local]
    /\ wt_read_cursor_cache \in [Producers -> Cursor \cup {NoCache}]
    /\ tickets \in Seq(Ticket)

\* Where a reservation begins and ends, counted from a read cursor.
From(t, r) == Minus(t.at, r)
To(t, r) == Minus(t.at, r) + t.n

\* The reservations ts fill the blocks from the read cursor r to the write
\* cursor w one behind the other, within the range of a cursor.
Gapless(ts, r, w) ==
    /\ ts \in Seq(Ticket) /\ r \in Cursor /\ w \in Cursor
    /\ \A i \in 1 .. Len(ts) : To(ts[i], r) < M
    /\ \A i, j \in 1 .. Len(ts) : i < j => To(ts[i], r) <= From(ts[j], r)
    /\ \A i \in 1 .. Len(ts) : i # 1 => From(ts[i], r) = To(ts[i - 1], r)
    /\ \A i, j \in 1 .. Len(ts) : i <= j => To(ts[j], r) - To(ts[i], r) <= N * (j - i)
    /\ Len(ts) # 0 => From(ts[1], r) = 0 /\ To(ts[Len(ts)], r) = Minus(w, r)
    /\ Len(ts) = 0 => w = r

Undone == {"rollback", "cas"}
Writing == {"write", "low", "fill", "commit"}
Pending == {"tentative", "open"}

\* The thread p, with the local variables l, works on the reservation t.
Holds(p, l, t, kind) ==
    /\ t.owner = p /\ t.kind = kind
    /\ t.at = l.cursor /\ t.n = l.need

\* Threads inside the loop of alloc_write_chunk or before their commit, and the
\* reservations that are not settled, correspond to each other one to one.
Holders ==
    /\ \A p \in Producers : prod[p].pc # "idle" => prod[p].need \in Needs
    /\ \A p \in Producers : prod[p].pc \notin {"idle", "view"} => wt_read_cursor_cache[p] # NoCache
    /\ rpc = "down" => \A p \in Producers : prod[p].pc = "idle"
    /\ \A p \in Producers : prod[p].pc \in Undone =>
         \E i \in 1 .. Len(tickets) : Holds(p, prod[p], tickets[i], "tentative")
    /\ \A p \in Producers : prod[p].pc \in Writing =>
         \E i \in 1 .. Len(tickets) : Holds(p, prod[p], tickets[i], "open")
    /\ \A i \in 1 .. Len(tickets) : rpc # "down" =>
         /\ tickets[i].kind = "tentative" => prod[tickets[i].owner].pc \in Undone
         /\ tickets[i].kind = "open" => prod[tickets[i].owner].pc \in Writing
    /\ \A i, j \in 1 .. Len(tickets) :
         /\ tickets[i].kind \in Pending /\ tickets[j].kind \in Pending
         /\ tickets[i].owner = tickets[j].owner
         => i = j

\* Reservations that passed the check leave a block of the ring free.
Fits == \A i \in 1 .. Len(tickets) :
          Kept(tickets[i]) => To(tickets[i], read_cursor) < N

\* What the head of a reservation says, by its kind.
HeadsRight ==
    /\ \A j \in Slot : blocks[j].status \in {"used", "invalid"} => blocks[j].block_num # 0
    /\ \A i \in 1 .. Len(tickets) : tickets[i].kind = "used" =>
         /\ blocks[Index(tickets[i].at)].status = "used"
         /\ blocks[Index(tickets[i].at)].block_num = tickets[i].n
         /\ ~Wraps(tickets[i].at, tickets[i].n)
    /\ \A i \in 1 .. Len(tickets) : tickets[i].kind = "invalid" =>
         /\ blocks[Index(tickets[i].at)].block_num = tickets[i].n
         /\ Wraps(tickets[i].at, tickets[i].n)
         /\ \/ blocks[Index(tickets[i].at)].status = "invalid"
            \/ /\ blocks[Index(tickets[i].at)].status = "unused"
               /\ tickets[i].at = read_cursor_cache /\ rpc \in {"skip", "down"}
    /\ \A i \in 1 .. Len(tickets) : tickets[i].kind = "open" =>
         /\ blocks[Index(tickets[i].at)].status = "unused"
         /\ prod[tickets[i].owner].pc \in {"low", "fill", "commit"} =>
              /\ blocks[Index(tickets[i].at)].block_num = tickets[i].n
              /\ ~Wraps(tickets[i].at, tickets[i].n)

\* The block d places behind the cursor r.
Place(r, d) == Index(Plus(r, d))

Covers(t, r, d) == From(t, r) <= d /\ d < To(t, r)

\* Blocks that no kept reservation covers carry the status unused.
FreeClean ==
    \A d \in 0 .. N - 1 :
        (\A i \in 1 .. Len(tickets) :
            Kept(tickets[i]) => ~Covers(tickets[i], read_cursor, d))
        => blocks[Place(read_cursor, d)].status = "unused"

\* The consumer stands between two reservations: it has passed the ones behind
\* its cursor and no other, and has cleared those it is about to release.
Reader ==
    /\ \A i \in 1 .. Len(tickets) :
         (tickets[i].kind = "read") <=>
            From(tickets[i], read_cursor) < Minus(read_cursor_cache, read_cursor)
    /\ \/ read_cursor_cache = read_cursor
       \/ \E i \in 1 .. Len(tickets) :
            /\ tickets[i].kind = "read"
            /\ To(tickets[i], read_cursor) = Minus(read_cursor_cache, read_cursor)
    /\ rpc \notin {"publish", "down"} => read_cursor_start_cache = read_cursor
    /\ rpc = "publish" =>
         /\ read_cursor_start_cache = read_cursor_cache
         /\ \A d \in 0 .. Minus(read_cursor_cache, read_cursor) - 1 :
              blocks[Place(read_cursor, d)].status = "unused"
    /\ rpc = "skip" =>
         \E i \in 1 .. Len(tickets) :
            tickets[i].kind = "invalid" /\ tickets[i].at = read_cursor_cache
    /\ rpc = "lent" =>
         \E i \in 1 .. Len(tickets) :
            tickets[i].kind = "used" /\ tickets[i].at = read_cursor_cache

Geometry == Gapless(tickets, read_cursor, write_cursor)

IInv == Types /\ Geometry /\ Holders /\ Fits /\ HeadsRight /\ FreeClean /\ Reader

-----------------------------------------------------------------------------
(* The cursors *)

P == Cardinality(Producers)

LEMMA Facts == /\ N \in Nat /\ N >= 2 /\ M \in Nat /\ M >= 2 * N
               /\ P \in Nat /\ M >= N * (P + 2)
               /\ \A n \in Needs : n \in Nat /\ n >= 1 /\ n <= N
               /\ \A c \in Cursor : c \in Nat /\ c < M
  <1>1. N \in Nat /\ N >= 2 /\ M \in Nat /\ M >= 2 * N
    BY RangeFacts
  <1>2. P \in Nat
    BY MisoAssumption, FS_CardinalityType DEF P
  <1>3. Laps \in Nat /\ Laps >= P + 2
    BY <1>2, MisoAssumption, RingAssumption DEF P
  <1>4. N * Laps >= N * (P + 2)
    <2>1. \E k \in Nat : Laps = P + 2 + k
      <3>1. Laps - (P + 2) \in Nat /\ Laps = P + 2 + (Laps - (P + 2))
        BY <1>2, <1>3
      <3> QED BY <3>1
    <2>2. PICK k \in Nat : Laps = P + 2 + k
      BY <2>1
    <2>3. N * Laps = N * (P + 2) + N * k
      BY <1>1, <1>2, <2>2
    <2>4. N * k \in Nat
      BY <1>1, <2>2
    <2>5. N * (P + 2) \in Nat
      BY <1>1, <1>2
    <2> QED BY <2>3, <2>4, <2>5
  <1>5. \A n \in Needs : n \in Nat /\ n >= 1 /\ n <= N
    BY <1>1, MisoAssumption
  <1>6. \A c \in Cursor : c \in Nat /\ c < M
    BY <1>1 DEF Cursor
  <1> QED BY <1>1, <1>2, <1>4, <1>5, <1>6 DEF M

\* A distance measured from an older cursor.
LEMMA Older ==
    ASSUME NEW x \in Cursor, NEW r \in Cursor, NEW v \in Cursor,
           Minus(x, r) + Minus(r, v) < M
    PROVE  Minus(x, v) = Minus(x, r) + Minus(r, v)
  BY RangeFacts DEF Minus, Cursor

\* A cursor is where its distance says, and the distance is a number.
LEMMA Distance ==
    ASSUME NEW c \in Cursor, NEW r \in Cursor
    PROVE  /\ Minus(c, r) \in Nat /\ Minus(c, r) < M
           /\ Plus(r, Minus(c, r)) = c
           /\ Minus(c, r) = 0 <=> c = r
           /\ Minus(r, r) = 0
  BY RangeFacts DEF Minus, Plus, Cursor

\* The places behind a cursor are the blocks of the ring, each once.
LEMMA PlaceType ==
    ASSUME NEW r \in Cursor, NEW d \in 0 .. N
    PROVE  Plus(r, d) \in Cursor /\ Place(r, d) \in Slot /\ Minus(Plus(r, d), r) = d
  <1>1. Plus(r, d) \in Cursor
    BY PlusType
  <1>2. Minus(Plus(r, d), r) = d
    BY RangeFacts DEF Plus, Minus, Cursor
  <1> QED BY <1>1, <1>2, IndexType DEF Place

LEMMA PlaceOnce ==
    ASSUME NEW r \in Cursor, NEW d \in 0 .. N - 1, NEW e \in 0 .. N - 1,
           Place(r, d) = Place(r, e)
    PROVE  d = e
  <1>0. N \in Nat /\ d \in 0 .. N /\ e \in 0 .. N
    BY RangeFacts
  <1>1. Index(r) \in 0 .. N - 1
    BY IndexType DEF Slot
  <1>2. /\ Index(r) + d < N  => Place(r, d) = Index(r) + d
        /\ Index(r) + d >= N => Place(r, d) = Index(r) + d - N
    BY <1>0, IndexPlus DEF Place
  <1>3. /\ Index(r) + e < N  => Place(r, e) = Index(r) + e
        /\ Index(r) + e >= N => Place(r, e) = Index(r) + e - N
    BY <1>0, IndexPlus DEF Place
  <1> QED BY <1>0, <1>1, <1>2, <1>3

LEMMA PlaceAll ==
    ASSUME NEW r \in Cursor, NEW j \in Slot
    PROVE  \E d \in 0 .. N - 1 : j = Place(r, d)
  <1>0. N \in Nat /\ j \in 0 .. N - 1
    BY RangeFacts DEF Slot
  <1>1. Index(r) \in 0 .. N - 1
    BY IndexType DEF Slot
  <1>2. CASE j >= Index(r)
    <2>1. j - Index(r) \in 0 .. N /\ j - Index(r) \in 0 .. N - 1
      BY <1>0, <1>1, <1>2
    <2>2. Place(r, j - Index(r)) = Index(r) + (j - Index(r))
      BY <1>0, <1>1, <2>1, IndexPlus DEF Place
    <2> QED BY <1>0, <1>1, <2>1, <2>2
  <1>3. CASE j < Index(r)
    <2>1. j - Index(r) + N \in 0 .. N /\ j - Index(r) + N \in 0 .. N - 1
      BY <1>0, <1>1, <1>3
    <2>2. Place(r, j - Index(r) + N) = Index(r) + (j - Index(r) + N) - N
      BY <1>0, <1>1, <2>1, IndexPlus DEF Place
    <2> QED BY <1>0, <1>1, <2>1, <2>2
  <1> QED BY <1>0, <1>1, <1>2, <1>3

-----------------------------------------------------------------------------
(* Reservations in a row *)

LEMMA TicketType ==
    ASSUME NEW t \in Ticket, NEW r \in Cursor
    PROVE  /\ t.owner \in Producers /\ t.at \in Cursor /\ t.n \in Needs /\ t.kind \in Kinds
           /\ t.n \in Nat /\ t.n >= 1 /\ t.n <= N
           /\ From(t, r) \in Nat /\ From(t, r) < M
           /\ To(t, r) \in Nat /\ To(t, r) = From(t, r) + t.n
           /\ Behind(t) \in Cursor
           /\ To(t, r) < M => Minus(Behind(t), r) = To(t, r)
  <1>1. t.owner \in Producers /\ t.at \in Cursor /\ t.n \in Needs /\ t.kind \in Kinds
    BY DEF Ticket
  <1>2. t.n \in Nat /\ t.n >= 1 /\ t.n <= N
    BY <1>1, Facts
  <1>3. From(t, r) \in Nat /\ From(t, r) < M
    BY <1>1, Distance DEF From
  <1>4. To(t, r) \in Nat /\ To(t, r) = From(t, r) + t.n
    BY <1>2, <1>3 DEF From, To
  <1>5. t.n \in 0 .. N
    BY <1>2, Facts
  <1>6. Behind(t) \in Cursor
    BY <1>1, <1>5, PlusType DEF Behind
  <1>7. To(t, r) < M => Minus(Behind(t), r) = To(t, r)
    BY <1>1, <1>5, PlusDistance DEF Behind, To
  <1> QED BY <1>1, <1>2, <1>3, <1>4, <1>6, <1>7

LEMMA InRow ==
    ASSUME NEW ts, NEW r, NEW w, Gapless(ts, r, w)
    PROVE  /\ r \in Cursor /\ w \in Cursor /\ Len(ts) \in Nat
           /\ \A i \in 1 .. Len(ts) :
                /\ ts[i] \in Ticket
                /\ ts[i].at \in Cursor /\ ts[i].n \in Nat /\ ts[i].n >= 1 /\ ts[i].n <= N
                /\ From(ts[i], r) \in Nat /\ To(ts[i], r) \in Nat
                /\ To(ts[i], r) = From(ts[i], r) + ts[i].n /\ To(ts[i], r) < M
                /\ From(ts[i], r) < To(ts[i], r) /\ To(ts[i], r) <= Minus(w, r)
  <1>1. ts \in Seq(Ticket) /\ r \in Cursor /\ w \in Cursor
    BY DEF Gapless
  <1>2. Len(ts) \in Nat /\ \A i \in 1 .. Len(ts) : ts[i] \in Ticket
    BY <1>1
  <1>3. \A i \in 1 .. Len(ts) :
          /\ ts[i].at \in Cursor /\ ts[i].n \in Nat /\ ts[i].n >= 1 /\ ts[i].n <= N
          /\ From(ts[i], r) \in Nat /\ To(ts[i], r) \in Nat
          /\ To(ts[i], r) = From(ts[i], r) + ts[i].n
    BY <1>1, <1>2, TicketType
  <1>4. \A i \in 1 .. Len(ts) : To(ts[i], r) < M
    BY DEF Gapless
  <1>5. \A i \in 1 .. Len(ts) : To(ts[i], r) <= Minus(w, r)
    <2> SUFFICES ASSUME NEW i \in 1 .. Len(ts) PROVE To(ts[i], r) <= Minus(w, r)
      OBVIOUS
    <2>1. Len(ts) \in 1 .. Len(ts) /\ Len(ts) # 0
      BY <1>2
    <2>2. To(ts[Len(ts)], r) = Minus(w, r)
      BY <2>1 DEF Gapless
    <2>3. i < Len(ts) => To(ts[i], r) <= From(ts[Len(ts)], r)
      BY <2>1 DEF Gapless
    <2> QED BY <1>2, <1>3, <2>1, <2>2, <2>3
  <1> QED BY <1>1, <1>2, <1>3, <1>4, <1>5

\* The order of reservations in the row is that of their places.
LEMMA RowOrder ==
    ASSUME NEW ts, NEW r, NEW w, Gapless(ts, r, w),
           NEW i \in 1 .. Len(ts), NEW j \in 1 .. Len(ts)
    PROVE  /\ i < j => To(ts[i], r) <= From(ts[j], r)
           /\ From(ts[i], r) < To(ts[j], r) /\ From(ts[j], r) < To(ts[i], r) => i = j
           /\ To(ts[i], r) <= From(ts[j], r) => i < j
           /\ ts[i].at = ts[j].at => i = j
  <1>1. /\ i < j => To(ts[i], r) <= From(ts[j], r)
        /\ j < i => To(ts[j], r) <= From(ts[i], r)
    BY DEF Gapless
  <1>2. /\ From(ts[i], r) \in Nat /\ To(ts[i], r) \in Nat /\ From(ts[i], r) < To(ts[i], r)
        /\ From(ts[j], r) \in Nat /\ To(ts[j], r) \in Nat /\ From(ts[j], r) < To(ts[j], r)
    <2>1. \A k \in 1 .. Len(ts) : /\ From(ts[k], r) \in Nat /\ To(ts[k], r) \in Nat
                                  /\ From(ts[k], r) < To(ts[k], r)
      BY InRow
    <2> QED BY <2>1
  <1>3. i \in Nat /\ j \in Nat
    BY InRow
  <1>4. From(ts[i], r) < To(ts[j], r) /\ From(ts[j], r) < To(ts[i], r) => i = j
    BY <1>1, <1>2, <1>3
  <1>5. To(ts[i], r) <= From(ts[j], r) => i < j
    BY <1>1, <1>2, <1>3
  <1>6. ts[i].at = ts[j].at => From(ts[i], r) = From(ts[j], r)
    BY DEF From
  <1> QED BY <1>1, <1>2, <1>4, <1>5, <1>6

\* A row with the same lengths at the same distances.
LEMMA SameRow ==
    ASSUME NEW ts, NEW r, NEW w, Gapless(ts, r, w),
           NEW us \in Seq(Ticket), NEW s \in Cursor, NEW v \in Cursor,
           Len(us) = Len(ts), Minus(v, s) = Minus(w, r),
           \A i \in 1 .. Len(ts) : From(us[i], s) = From(ts[i], r) /\ us[i].n = ts[i].n
    PROVE  Gapless(us, s, v)
  <1>1. \A i \in 1 .. Len(ts) : To(us[i], s) = To(ts[i], r)
    BY DEF To, From
  <1>2. Len(ts) = 0 => v = s
    <2> SUFFICES ASSUME Len(ts) = 0 PROVE v = s
      OBVIOUS
    <2>1. w = r /\ r \in Cursor
      BY DEF Gapless
    <2> QED BY <2>1, Distance
  <1>3. Len(ts) \in Nat
    BY InRow
  <1>4. \A i \in 1 .. Len(us) : To(us[i], s) < M
    BY <1>1 DEF Gapless
  <1>5. \A i, j \in 1 .. Len(us) : i < j => To(us[i], s) <= From(us[j], s)
    BY <1>1 DEF Gapless
  <1>6. \A i \in 1 .. Len(us) : i # 1 => From(us[i], s) = To(us[i - 1], s)
    <2> SUFFICES ASSUME NEW i \in 1 .. Len(us), i # 1
                 PROVE  From(us[i], s) = To(us[i - 1], s)
      OBVIOUS
    <2>1. i - 1 \in 1 .. Len(ts) /\ i \in 1 .. Len(ts)
      BY <1>3
    <2>2. From(ts[i], r) = To(ts[i - 1], r)
      BY <2>1 DEF Gapless
    <2> QED BY <2>1, <2>2, <1>1
  <1>7. \A i, j \in 1 .. Len(us) : i <= j => To(us[j], s) - To(us[i], s) <= N * (j - i)
    BY <1>1 DEF Gapless
  <1>8. Len(us) # 0 => From(us[1], s) = 0 /\ To(us[Len(us)], s) = Minus(v, s)
    <2> SUFFICES ASSUME Len(us) # 0
                 PROVE  From(us[1], s) = 0 /\ To(us[Len(us)], s) = Minus(v, s)
      OBVIOUS
    <2>1. 1 \in 1 .. Len(ts) /\ Len(ts) \in 1 .. Len(ts)
      BY <1>3
    <2>2. From(ts[1], r) = 0 /\ To(ts[Len(ts)], r) = Minus(w, r)
      BY <2>1 DEF Gapless
    <2> QED BY <2>1, <2>2, <1>1
  <1> QED BY <1>2, <1>4, <1>5, <1>6, <1>7, <1>8 DEF Gapless

\* fetch_add: one more reservation, from the write cursor on.
LEMMA AppendRow ==
    ASSUME NEW ts, NEW r, NEW w, Gapless(ts, r, w),
           NEW t \in Ticket, t.at = w, Minus(w, r) + t.n < M
    PROVE  Gapless(Append(ts, t), r, Behind(t))
  <1> DEFINE us == Append(ts, t)
  <1>0. ts \in Seq(Ticket) /\ r \in Cursor /\ w \in Cursor
    BY DEF Gapless
  <1>1. /\ us \in Seq(Ticket) /\ Len(us) = Len(ts) + 1 /\ Len(ts) \in Nat
        /\ \A i \in 1 .. Len(ts) : us[i] = ts[i]
        /\ us[Len(ts) + 1] = t
    BY <1>0
  <1> HIDE DEF us
  <1>2. /\ From(t, r) = Minus(w, r) /\ To(t, r) = Minus(w, r) + t.n /\ To(t, r) < M
        /\ t.n \in Nat /\ t.n >= 1 /\ t.n <= N /\ Minus(w, r) \in Nat
        /\ Behind(t) \in Cursor /\ Minus(Behind(t), r) = To(t, r)
    <2>1. From(t, r) = Minus(w, r) /\ To(t, r) = Minus(w, r) + t.n /\ To(t, r) < M
      BY DEF From, To
    <2>2. /\ t.n \in Nat /\ t.n >= 1 /\ t.n <= N
          /\ Behind(t) \in Cursor /\ Minus(Behind(t), r) = To(t, r)
      BY <1>0, <2>1, TicketType
    <2> QED BY <1>0, <2>1, <2>2, Distance
  <1>3. \A i \in 1 .. Len(ts) : /\ From(us[i], r) \in Nat /\ To(us[i], r) \in Nat
                                /\ To(us[i], r) < M /\ To(us[i], r) <= Minus(w, r)
    BY <1>1, InRow
  <1>4. \A i \in 1 .. Len(us) : i \in 1 .. Len(ts) \/ i = Len(ts) + 1
    BY <1>1
  <1>5. \A i \in 1 .. Len(us) : To(us[i], r) < M
    BY <1>1, <1>2, <1>3, <1>4
  <1>6. \A i, j \in 1 .. Len(us) : i < j => To(us[i], r) <= From(us[j], r)
    <2> SUFFICES ASSUME NEW i \in 1 .. Len(us), NEW j \in 1 .. Len(us), i < j
                 PROVE  To(us[i], r) <= From(us[j], r)
      OBVIOUS
    <2>1. i \in 1 .. Len(ts)
      BY <1>1
    <2>2. CASE j \in 1 .. Len(ts)
      BY <1>1, <2>1, <2>2 DEF Gapless
    <2>3. CASE j = Len(ts) + 1
      BY <1>1, <1>2, <1>3, <2>1, <2>3
    <2> QED BY <1>4, <2>2, <2>3
  <1>7. Len(ts) # 0 => /\ From(ts[1], r) = 0 /\ To(ts[Len(ts)], r) = Minus(w, r)
    BY DEF Gapless
  <1>8. \A i \in 1 .. Len(us) : i # 1 => From(us[i], r) = To(us[i - 1], r)
    <2> SUFFICES ASSUME NEW i \in 1 .. Len(us), i # 1
                 PROVE  From(us[i], r) = To(us[i - 1], r)
      OBVIOUS
    <2>1. i - 1 \in 1 .. Len(ts)
      BY <1>1
    <2>2. CASE i \in 1 .. Len(ts)
      BY <1>1, <2>1, <2>2 DEF Gapless
    <2>3. CASE i = Len(ts) + 1
      BY <1>1, <1>2, <1>7, <2>1, <2>3
    <2> QED BY <1>4, <2>2, <2>3
  <1>9. \A i, j \in 1 .. Len(us) : i <= j => To(us[j], r) - To(us[i], r) <= N * (j - i)
    <2> SUFFICES ASSUME NEW i \in 1 .. Len(us), NEW j \in 1 .. Len(us), i <= j
                 PROVE  To(us[j], r) - To(us[i], r) <= N * (j - i)
      OBVIOUS
    <2>1. CASE j \in 1 .. Len(ts)
      <3>1. i \in 1 .. Len(ts)
        BY <1>1, <2>1
      <3> QED BY <1>1, <2>1, <3>1 DEF Gapless
    <2>2. CASE j = Len(ts) + 1 /\ i = j
      <3>1. N * (j - i) = 0
        BY <2>2, <1>1, Facts
      <3> QED BY <1>1, <1>2, <2>2, <3>1
    <2>3. CASE j = Len(ts) + 1 /\ i # j
      <3>1. i \in 1 .. Len(ts) /\ Len(ts) \in 1 .. Len(ts) /\ i <= Len(ts)
        BY <1>1, <2>3
      <3>2. To(ts[Len(ts)], r) - To(ts[i], r) <= N * (Len(ts) - i)
        BY <3>1 DEF Gapless
      <3>3. N * (j - i) = N * (Len(ts) - i) + N
        BY <2>3, <3>1, <1>1, Facts
      <3>4. N * (Len(ts) - i) \in Int
        BY <3>1, <1>1, Facts
      <3>5. To(us[i], r) = To(ts[i], r) /\ To(us[i], r) \in Nat /\ N \in Nat
        BY <1>1, <1>3, <3>1, Facts
      <3>6. To(us[j], r) = Minus(w, r) + t.n
        BY <1>1, <1>2, <2>3
      <3>7. To(ts[Len(ts)], r) = Minus(w, r)
        BY <1>7, <3>1
      <3> HIDE DEF us
      <3> QED BY <1>2, <3>2, <3>3, <3>4, <3>5, <3>6, <3>7
    <2> QED BY <1>4, <2>1, <2>2, <2>3
  <1>10. From(us[1], r) = 0 /\ To(us[Len(us)], r) = Minus(Behind(t), r)
    <2>1. CASE Len(ts) = 0
      <3>1. w = r
        BY <2>1 DEF Gapless
      <3> QED BY <1>0, <1>1, <1>2, <2>1, <3>1, Distance
    <2>2. CASE Len(ts) # 0
      <3>1. 1 \in 1 .. Len(ts)
        BY <1>1, <2>2
      <3> QED BY <1>1, <1>2, <1>7, <2>2, <3>1
    <2> QED BY <2>1, <2>2
  <1>11. Len(us) # 0
    BY <1>1
  <1> QED BY <1>0, <1>1, <1>2, <1>5, <1>6, <1>8, <1>9, <1>10, <1>11 DEF Gapless, us

\* The reservations number a to b of a row are a row.
LEMMA PartOfRow ==
    ASSUME NEW ts, NEW r, NEW w, Gapless(ts, r, w),
           NEW a \in 1 .. Len(ts) + 1, NEW b \in 0 .. Len(ts), a <= b + 1,
           NEW us \in Seq(Ticket), Len(us) = b - a + 1,
           \A i \in 1 .. b - a + 1 : us[i] = ts[a - 1 + i],
           NEW s \in Cursor, s = IF a <= Len(ts) THEN ts[a].at ELSE w,
           NEW v \in Cursor, v = IF b < Len(ts) THEN ts[b + 1].at ELSE w
    PROVE  /\ Gapless(us, s, v)
           /\ \A i \in 1 .. b - a + 1 :
                /\ From(us[i], s) = From(ts[a - 1 + i], r) - Minus(s, r)
                /\ To(us[i], s) = To(ts[a - 1 + i], r) - Minus(s, r)
  <1>0. /\ r \in Cursor /\ w \in Cursor /\ Len(ts) \in Nat
        /\ \A i \in 1 .. Len(ts) :
             /\ ts[i].at \in Cursor /\ ts[i].n \in Nat /\ ts[i].n >= 1 /\ ts[i].n <= N
             /\ From(ts[i], r) \in Nat /\ To(ts[i], r) \in Nat
             /\ To(ts[i], r) = From(ts[i], r) + ts[i].n /\ To(ts[i], r) < M
             /\ From(ts[i], r) < To(ts[i], r) /\ To(ts[i], r) <= Minus(w, r)
    BY InRow
  <1>1. \A i \in 1 .. b - a + 1 : a - 1 + i \in 1 .. Len(ts) /\ a <= Len(ts)
    BY <1>0
  <1>2. Minus(s, r) \in Nat /\ Minus(v, r) \in Nat
    BY <1>0, Distance
  <1>3. \A k \in 1 .. Len(ts) : a <= k => Minus(s, r) <= From(ts[k], r)
    <2> SUFFICES ASSUME NEW k \in 1 .. Len(ts), a <= k PROVE Minus(s, r) <= From(ts[k], r)
      OBVIOUS
    <2>1. a \in 1 .. Len(ts) /\ s = ts[a].at /\ Minus(s, r) = From(ts[a], r)
      BY <1>0 DEF From
    <2>2. a < k => To(ts[a], r) <= From(ts[k], r)
      BY <2>1, RowOrder
    <2>3. /\ From(ts[a], r) \in Nat /\ To(ts[a], r) \in Nat /\ From(ts[k], r) \in Nat
          /\ From(ts[a], r) < To(ts[a], r)
      BY <1>0, <2>1
    <2>4. CASE a < k
      BY <2>1, <2>2, <2>3, <2>4
    <2>5. CASE a = k
      BY <2>1, <2>3, <2>5
    <2> QED BY <1>0, <2>1, <2>4, <2>5
  <1>4. ASSUME NEW i \in 1 .. b - a + 1
        PROVE  /\ From(us[i], s) = From(ts[a - 1 + i], r) - Minus(s, r)
               /\ To(us[i], s) = To(ts[a - 1 + i], r) - Minus(s, r)
    <2> DEFINE k == a - 1 + i
    <2>1. k \in 1 .. Len(ts) /\ a <= k /\ us[i] = ts[k]
      BY <1>0, <1>1
    <2> HIDE DEF k
    <2>2. Minus(s, r) <= Minus(ts[k].at, r)
      BY <1>3, <2>1 DEF From
    <2>3. ts[k].at \in Cursor
      BY <1>0, <2>1
    <2>4. Minus(ts[k].at, s) = Minus(ts[k].at, r) - Minus(s, r)
      BY <1>0, <2>2, <2>3, Rebase
    <2>5. From(us[i], s) = From(ts[k], r) - Minus(s, r)
      BY <2>1, <2>4 DEF From
    <2>6. To(us[i], s) = To(ts[k], r) - Minus(s, r)
      <3>1. To(us[i], s) = Minus(ts[k].at, s) + ts[k].n /\ To(ts[k], r) = Minus(ts[k].at, r) + ts[k].n
        BY <2>1 DEF To
      <3>2. Minus(ts[k].at, r) \in Nat /\ ts[k].n \in Nat
        BY <1>0, <2>1 DEF From
      <3> QED BY <1>2, <2>4, <3>1, <3>2
    <2> QED BY <2>5, <2>6 DEF k
  <1> DEFINE m == b - a + 1
             x == Minus(s, r)
  <1>5. m \in Nat /\ Len(us) = m /\ x \in Nat /\ a \in Nat /\ b \in Nat /\ a >= 1
        /\ m = b - a + 1
    BY <1>0, <1>2
  <1>6. \A i \in 1 .. m : To(us[i], s) < M
    <2> SUFFICES ASSUME NEW i \in 1 .. m PROVE To(us[i], s) < M
      OBVIOUS
    <2>1. To(us[i], s) = To(ts[a - 1 + i], r) - x /\ a - 1 + i \in 1 .. Len(ts)
      BY <1>1, <1>4
    <2>2. To(ts[a - 1 + i], r) \in Nat /\ To(ts[a - 1 + i], r) < M
      BY <1>0, <2>1
    <2> HIDE DEF x
    <2> QED BY <2>1, <2>2, <1>5, Facts, SMTT(30)
  <1>7. \A i, j \in 1 .. m : i < j => To(us[i], s) <= From(us[j], s)
    <2> SUFFICES ASSUME NEW i \in 1 .. m, NEW j \in 1 .. m, i < j
                 PROVE  To(us[i], s) <= From(us[j], s)
      OBVIOUS
    <2>1. To(us[i], s) = To(ts[a - 1 + i], r) - x /\ a - 1 + i \in 1 .. Len(ts)
      BY <1>1, <1>4
    <2>2. From(us[j], s) = From(ts[a - 1 + j], r) - x /\ a - 1 + j \in 1 .. Len(ts)
      BY <1>1, <1>4
    <2>3. a - 1 + i < a - 1 + j
      BY <1>0
    <2>4. To(ts[a - 1 + i], r) <= From(ts[a - 1 + j], r)
      BY <2>1, <2>2, <2>3 DEF Gapless
    <2>5. To(ts[a - 1 + i], r) \in Nat /\ From(ts[a - 1 + j], r) \in Nat
      BY <1>0, <2>1, <2>2
    <2> HIDE DEF x
    <2> QED BY <2>1, <2>2, <2>4, <2>5, <1>5
  <1>8. \A i \in 1 .. m : i # 1 => From(us[i], s) = To(us[i - 1], s)
    <2> SUFFICES ASSUME NEW i \in 1 .. m, i # 1 PROVE From(us[i], s) = To(us[i - 1], s)
      OBVIOUS
    <2>1. i - 1 \in 1 .. m
      BY <1>5
    <2>2. From(us[i], s) = From(ts[a - 1 + i], r) - x /\ a - 1 + i \in 1 .. Len(ts)
      BY <1>1, <1>4
    <2>3. To(us[i - 1], s) = To(ts[a - 1 + (i - 1)], r) - x
      BY <1>4, <2>1
    <2>4. a - 1 + i # 1 /\ (a - 1 + i) - 1 = a - 1 + (i - 1)
      BY <2>1, <1>5
    <2>5. From(ts[a - 1 + i], r) = To(ts[(a - 1 + i) - 1], r)
      BY <2>2, <2>4 DEF Gapless
    <2> QED BY <2>2, <2>3, <2>4, <2>5
  <1>9. \A i, j \in 1 .. m : i <= j => To(us[j], s) - To(us[i], s) <= N * (j - i)
    <2> SUFFICES ASSUME NEW i \in 1 .. m, NEW j \in 1 .. m, i <= j
                 PROVE  To(us[j], s) - To(us[i], s) <= N * (j - i)
      OBVIOUS
    <2>1. To(us[i], s) = To(ts[a - 1 + i], r) - x /\ a - 1 + i \in 1 .. Len(ts)
      BY <1>1, <1>4
    <2>2. To(us[j], s) = To(ts[a - 1 + j], r) - x /\ a - 1 + j \in 1 .. Len(ts)
      BY <1>1, <1>4
    <2>3. a - 1 + i <= a - 1 + j /\ (a - 1 + j) - (a - 1 + i) = j - i
      BY <1>0, <1>5
    <2>4. To(ts[a - 1 + j], r) - To(ts[a - 1 + i], r) <= N * ((a - 1 + j) - (a - 1 + i))
      BY <2>1, <2>2, <2>3 DEF Gapless
    <2>5. To(ts[a - 1 + j], r) - To(ts[a - 1 + i], r) <= N * (j - i)
      BY <2>3, <2>4
    <2>6. To(ts[a - 1 + i], r) \in Nat /\ To(ts[a - 1 + j], r) \in Nat
      BY <1>0, <2>1, <2>2
    <2>7. To(us[j], s) - To(us[i], s) = To(ts[a - 1 + j], r) - To(ts[a - 1 + i], r)
      <3> HIDE DEF x
      <3> QED BY <2>1, <2>2, <2>6, <1>5
    <2> QED BY <2>5, <2>7
  <1>10. m # 0 => From(us[1], s) = 0 /\ To(us[m], s) = Minus(v, s)
    <2> SUFFICES ASSUME m # 0 PROVE From(us[1], s) = 0 /\ To(us[m], s) = Minus(v, s)
      OBVIOUS
    <2>1. 1 \in 1 .. m /\ m \in 1 .. m /\ a - 1 + 1 = a /\ a - 1 + m = b
      BY <1>5
    <2>2. a \in 1 .. Len(ts) /\ b \in 1 .. Len(ts) /\ s = ts[a].at
      BY <2>1, <1>0, <1>1
    <2>3. us[1] = ts[a]
      BY <2>1
    <2>4. From(us[1], s) = 0
      BY <2>2, <2>3, <1>0, Distance DEF From
    <2>5. To(us[m], s) = To(ts[b], r) - x
      BY <2>1, <1>4
    <2>6. Minus(v, r) = To(ts[b], r)
      <3>1. CASE b < Len(ts)
        <4>1. b + 1 \in 1 .. Len(ts) /\ b + 1 # 1 /\ (b + 1) - 1 = b
          BY <3>1, <1>0, <2>2
        <4>2. From(ts[b + 1], r) = To(ts[(b + 1) - 1], r)
          BY <4>1 DEF Gapless
        <4> QED BY <3>1, <4>1, <4>2 DEF From
      <3>2. CASE ~(b < Len(ts))
        <4>1. b = Len(ts) /\ v = w /\ Len(ts) # 0
          BY <3>2, <1>0, <2>2
        <4> QED BY <4>1 DEF Gapless
      <3> QED BY <3>1, <3>2
    <2>7. Minus(s, r) <= Minus(v, r)
      <3>1. a <= b /\ Minus(s, r) <= From(ts[b], r)
        BY <1>3, <2>1, <2>2, <1>0, <1>5
      <3>2. /\ From(ts[b], r) \in Nat /\ To(ts[b], r) \in Nat
            /\ From(ts[b], r) <= To(ts[b], r)
        BY <2>2, <1>0
      <3> QED BY <2>6, <3>1, <3>2, <1>2
    <2>8. Minus(v, s) = Minus(v, r) - Minus(s, r)
      BY <2>7, <1>0, Rebase
    <2> QED BY <2>4, <2>5, <2>6, <2>8
  <1>11. m = 0 => v = s
    <2> SUFFICES ASSUME m = 0 PROVE v = s
      OBVIOUS
    <2>1. a = b + 1
      BY <1>0
    <2>2. a <= Len(ts) <=> b < Len(ts)
      BY <1>0, <2>1
    <2> QED BY <2>1, <2>2
  <1> HIDE DEF x, m
  <1>12. Gapless(us, s, v)
    BY <1>5, <1>6, <1>7, <1>8, <1>9, <1>10, <1>11 DEF Gapless
  <1> QED BY <1>4, <1>12

-----------------------------------------------------------------------------
(* How far the write cursor can be ahead *)

LEMMA Times ==
    ASSUME NEW a \in Nat, NEW b \in Nat, NEW k \in Nat, a <= b
    PROVE  k * a \in Nat /\ k * b \in Nat /\ k * a <= k * b /\ k * (a + 1) = k * a + k
  <1>1. k * a \in Nat /\ k * (b - a) \in Nat
    OBVIOUS
  <1>2. k * b = k * a + k * (b - a)
    OBVIOUS
  <1> QED BY <1>1, <1>2

\* A thread that is about to reserve holds no reservation, every other at most
\* one; so what lies behind the kept ones is less than a ring per thread.
LEMMA WriteCursorBound ==
    ASSUME Types, Geometry, Holders, Fits, rpc # "down",
           NEW p \in Producers, prod[p].pc = "check"
    PROVE  Minus(write_cursor, read_cursor) < N * P
  <1> DEFINE L == Len(tickets)
             D == Minus(write_cursor, read_cursor)
             E(i) == To(tickets[i], read_cursor)
  <1>0. L \in Nat /\ D \in Nat /\ N \in Nat /\ N >= 2 /\ P \in Nat
    <2>1. L \in Nat /\ D \in Nat
      BY InRow, Distance DEF Geometry
    <2> QED BY <2>1, Facts
  <1>1. \A i \in 1 .. L : E(i) \in Nat /\ tickets[i] \in Ticket /\ tickets[i].n <= N
    BY InRow DEF Geometry
  <1>2. \A i \in 1 .. L : tickets[i].owner \in Producers /\ tickets[i].kind \in Kinds
    BY <1>1 DEF Ticket
  <1> DEFINE S == {j \in 0 .. L : \A k \in j + 1 .. L : ~Kept(tickets[k])}
  <1>3. PICK j \in S : \A y \in S : j <= y
    <2>1. L \in S
      BY <1>0
    <2>2. S \subseteq Nat
      BY <1>0
    <2> HIDE DEF S
    <2> QED BY <2>1, <2>2, LeastNumber
  <1>4. j \in Nat /\ j <= L /\ \A k \in j + 1 .. L : tickets[k].kind = "tentative"
    BY <1>0, <1>3 DEF Kept
  <1>5. j # 0 => Kept(tickets[j]) /\ j \in 1 .. L
    <2> SUFFICES ASSUME j # 0, ~Kept(tickets[j]) PROVE FALSE
      BY <1>0, <1>4
    <2>1. j - 1 \in 0 .. L /\ \A k \in (j - 1) + 1 .. L : k = j \/ k \in j + 1 .. L
      BY <1>0, <1>4
    <2>2. \A k \in j + 1 .. L : ~Kept(tickets[k])
      BY <1>3
    <2>3. \A k \in (j - 1) + 1 .. L : ~Kept(tickets[k])
      BY <2>1, <2>2
    <2>4. j - 1 \in S
      BY <2>1, <2>3
    <2>5. j <= j - 1
      BY <1>3, <2>4
    <2> QED BY <1>4, <2>5
  <1> HIDE DEF S
  <1>6. L - j <= P - 1 /\ P >= 1
    <2> DEFINE f == [k \in j + 1 .. L |-> tickets[k].owner]
               Others == Producers \ {p}
    <2>1. \A k \in j + 1 .. L : k \in 1 .. L
      BY <1>0, <1>4
    <2>2. \A k \in j + 1 .. L : tickets[k].owner \in Others
      <3> SUFFICES ASSUME NEW k \in j + 1 .. L PROVE tickets[k].owner \in Others
        OBVIOUS
      <3>1. k \in 1 .. L /\ tickets[k].kind = "tentative"
        BY <1>4, <2>1
      <3>2. prod[tickets[k].owner].pc \in Undone
        BY <3>1 DEF Holders
      <3>3. tickets[k].owner # p
        BY <3>2 DEF Undone
      <3> QED BY <1>2, <3>1, <3>3
    <2>3. \A k, l \in j + 1 .. L : tickets[k].owner = tickets[l].owner => k = l
      <3> SUFFICES ASSUME NEW k \in j + 1 .. L, NEW l \in j + 1 .. L,
                          tickets[k].owner = tickets[l].owner
                   PROVE  k = l
        OBVIOUS
      <3>1. k \in 1 .. L /\ l \in 1 .. L
        BY <2>1
      <3>2. tickets[k].kind \in Pending /\ tickets[l].kind \in Pending
        BY <1>4 DEF Pending
      <3> QED BY <3>1, <3>2 DEF Holders
    <2>4. f \in Injection(j + 1 .. L, Others)
      <3>1. f \in [j + 1 .. L -> Others]
        BY <2>2
      <3>2. IsInjective(f)
        <4>1. DOMAIN f = j + 1 .. L
          OBVIOUS
        <4>2. \A k, l \in j + 1 .. L : f[k] = f[l] => k = l
          BY <2>3
        <4> QED BY <4>1, <4>2, Zenon DEF IsInjective
      <3> QED BY <3>1, <3>2, Zenon DEF Injection
    <2>5. IsFiniteSet(Others) /\ Cardinality(Others) = P - 1
      BY MisoAssumption, FS_RemoveElement DEF P
    <2>6. Cardinality(j + 1 .. L) <= P - 1
      BY <2>4, <2>5, FS_Injection
    <2>7. Cardinality(j + 1 .. L) = IF j + 1 > L THEN 0 ELSE L - (j + 1) + 1
      <3>1. j + 1 \in Int /\ L \in Int
        BY <1>0, <1>4
      <3> HIDE DEF L
      <3> QED BY <3>1, FS_Interval
    <2>8. P - 1 \in Nat
      BY <2>5, FS_CardinalityType
    <2> QED BY <1>0, <1>4, <2>6, <2>7, <2>8
  <1>7. N * (L - j) <= N * (P - 1) /\ N * (P - 1) + N = N * P
        /\ N * (L - j) \in Nat /\ N * (P - 1) \in Nat
    <2>1. L - j \in Nat /\ P - 1 \in Nat
      BY <1>0, <1>4, <1>6
    <2>2. N * (L - j) <= N * (P - 1) /\ N * (L - j) \in Nat /\ N * (P - 1) \in Nat
      BY <1>0, <1>6, <2>1, Times
    <2>3. N * (P - 1) + N = N * P
      BY <1>0
    <2> QED BY <2>2, <2>3
  <1>8. CASE L = 0
    <2>1. D = 0
      BY <1>8, Distance DEF Geometry, Gapless
    <2> HIDE DEF D, L
    <2> QED BY <1>0, <1>7, <2>1 DEF D
  <1>9. CASE L # 0 /\ j = 0
    <2>1. 1 \in 1 .. L /\ L \in 1 .. L /\ 1 <= L
      BY <1>0, <1>9
    <2>2. /\ From(tickets[1], read_cursor) = 0 /\ E(L) = D
          /\ E(L) - E(1) <= N * (L - 1)
      BY <1>9, <2>1 DEF Geometry, Gapless
    <2>3. E(1) <= N
      BY <1>1, <2>1, <2>2, InRow DEF Geometry
    <2>4. N * (L - j) = N * (L - 1) + N
      BY <1>0, <1>9
    <2>5. N * (L - 1) \in Int /\ E(1) \in Nat
      BY <1>0, <1>1, <2>1
    <2>6. D <= N * (L - j)
      <3> HIDE DEF D, L, E
      <3> QED BY <1>0, <2>2, <2>3, <2>4, <2>5
    <2> HIDE DEF D, L
    <2> QED BY <1>0, <1>7, <2>6 DEF D
  <1>10. CASE L # 0 /\ j # 0
    <2>1. j \in 1 .. L /\ L \in 1 .. L /\ j <= L
      BY <1>0, <1>4, <1>10
    <2>2. E(L) = D /\ E(L) - E(j) <= N * (L - j)
      BY <1>10, <2>1 DEF Geometry, Gapless
    <2>3. E(j) < N
      BY <1>5, <1>10 DEF Fits
    <2>4. E(j) \in Nat
      BY <1>1, <2>1
    <2>5. D < N + N * (L - j)
      <3> HIDE DEF D, L, E
      <3> QED BY <1>0, <1>7, <2>2, <2>3, <2>4
    <2> HIDE DEF D, L
    <2> QED BY <1>0, <1>7, <2>5 DEF D
  <1> QED BY <1>8, <1>9, <1>10

-----------------------------------------------------------------------------
(* The producers *)

Views == [Producers -> Cursor \cup {NoCache}]
Settled == Pcs \ (Undone \cup Writing)

\* What a step of one thread leaves alone.
Others(p) == \A q \in Producers : q # p =>
    prod'[q] = prod[q] /\ wt_read_cursor_cache'[q] = wt_read_cursor_cache[q]

\* What holds of a thread's own variables.
LocalOK(p) ==
    /\ prod' \in [Producers -> Local] /\ wt_read_cursor_cache' \in Views
    /\ prod'[p].pc # "idle" => prod'[p].need \in Needs
    /\ prod'[p].pc \notin {"idle", "view"} => wt_read_cursor_cache'[p] # NoCache
    /\ rpc' = "down" => prod'[p].pc = "idle"

\* A step that only changes a thread's own variables, and neither begins nor
\* settles a reservation.
LEMMA LocalStep ==
    ASSUME IInv, NEW p \in Producers, UNCHANGED <<blocks, cursors, rpc, tickets>>,
           Others(p), LocalOK(p),
           \/ prod[p].pc \in Settled /\ prod'[p].pc \in Settled
           \/ /\ prod'[p].cursor = prod[p].cursor /\ prod'[p].need = prod[p].need
              /\ \/ prod[p].pc \in Undone /\ prod'[p].pc \in Undone
                 \/ /\ prod[p].pc \in {"low", "fill", "commit"}
                    /\ prod'[p].pc \in {"low", "fill", "commit"}
    PROVE  IInv'
  <1>1. /\ blocks' = blocks /\ tickets' = tickets /\ rpc' = rpc
        /\ write_cursor' = write_cursor /\ read_cursor' = read_cursor
        /\ read_cursor_cache' = read_cursor_cache
        /\ read_cursor_start_cache' = read_cursor_start_cache
    BY DEF cursors
  <1>2. Types'
    BY <1>1 DEF IInv, Types, LocalOK, Views
  <1>3. Geometry' /\ Fits'
    BY <1>1 DEF IInv, Geometry, Fits
  <1>4. FreeClean'
    BY <1>1 DEF IInv, FreeClean
  <1>5. Reader'
    BY <1>1 DEF IInv, Reader
  <1>6. \A i \in 1 .. Len(tickets) : tickets[i].owner \in Producers
    <2>1. \A i \in 1 .. Len(tickets) : tickets[i] \in Ticket
      BY DEF IInv, Types
    <2> QED BY <2>1 DEF Ticket
  <1>7. \A q \in Producers :
          /\ (prod'[q].pc \in {"low", "fill", "commit"}) <=> (prod[q].pc \in {"low", "fill", "commit"})
          /\ (prod'[q].pc \in Undone) <=> (prod[q].pc \in Undone)
          /\ (prod'[q].pc \in Writing) <=> (prod[q].pc \in Writing)
    BY DEF Others, Settled, Undone, Writing
  <1>8. \A q \in Producers : prod'[q].pc \in Undone \cup Writing =>
          prod'[q].cursor = prod[q].cursor /\ prod'[q].need = prod[q].need
    BY DEF Others, Settled, Undone, Writing
  <1>9. HeadsRight'
    BY <1>1, <1>6, <1>7 DEF IInv, HeadsRight
  <1>10. Holders'
    <2>1. \A q \in Producers :
            /\ prod'[q].pc # "idle" => prod'[q].need \in Needs
            /\ prod'[q].pc \notin {"idle", "view"} => wt_read_cursor_cache'[q] # NoCache
            /\ rpc' = "down" => prod'[q].pc = "idle"
      BY <1>1 DEF IInv, Holders, LocalOK, Others
    <2>2. \A q \in Producers, i \in 1 .. Len(tickets) :
            prod'[q].pc \in Undone \cup Writing =>
              \A k \in Kinds : Holds(q, prod[q], tickets[i], k) => Holds(q, prod'[q], tickets[i], k)
      BY <1>8 DEF Holds
    <2>3. \A q \in Producers : prod'[q].pc \in Undone =>
            \E i \in 1 .. Len(tickets) : Holds(q, prod'[q], tickets[i], "tentative")
      BY <1>7, <2>2 DEF IInv, Holders, Kinds
    <2>4. \A q \in Producers : prod'[q].pc \in Writing =>
            \E i \in 1 .. Len(tickets) : Holds(q, prod'[q], tickets[i], "open")
      BY <1>7, <2>2 DEF IInv, Holders, Kinds
    <2>5. \A i \in 1 .. Len(tickets) : rpc # "down" =>
            /\ tickets[i].kind = "tentative" => prod'[tickets[i].owner].pc \in Undone
            /\ tickets[i].kind = "open" => prod'[tickets[i].owner].pc \in Writing
      BY <1>6, <1>7 DEF IInv, Holders
    <2>6. \A i, j \in 1 .. Len(tickets) :
            /\ tickets[i].kind \in Pending /\ tickets[j].kind \in Pending
            /\ tickets[i].owner = tickets[j].owner
            => i = j
      BY DEF IInv, Holders
    <2> QED BY <1>1, <2>1, <2>3, <2>4, <2>5, <2>6 DEF Holders
  <1> QED BY <1>2, <1>3, <1>4, <1>5, <1>9, <1>10 DEF IInv

LEMMA ProdType ==
    ASSUME Types, NEW p \in Producers
    PROVE  /\ prod \in [Producers -> Local] /\ prod[p] \in Local
           /\ prod[p].pc \in Pcs /\ prod[p].need \in Needs \cup {0}
           /\ prod[p].cursor \in Cursor /\ prod[p].low_space_flag \in BOOLEAN
           /\ prod[p] = [pc |-> prod[p].pc, need |-> prod[p].need, cursor |-> prod[p].cursor,
                         low_space_flag |-> prod[p].low_space_flag]
           /\ wt_read_cursor_cache \in Views /\ wt_read_cursor_cache[p] \in Cursor \cup {NoCache}
           /\ blocks \in [Slot -> Block] /\ write_cursor \in Cursor /\ read_cursor \in Cursor
  <1>1. prod \in [Producers -> Local] /\ prod[p] \in Local
    BY DEF Types
  <1>2. wt_read_cursor_cache \in Views /\ wt_read_cursor_cache[p] \in Cursor \cup {NoCache}
    BY DEF Types, Views
  <1>3. blocks \in [Slot -> Block] /\ write_cursor \in Cursor /\ read_cursor \in Cursor
    BY DEF Types
  <1>4. /\ prod[p].pc \in Pcs /\ prod[p].need \in Needs \cup {0}
        /\ prod[p].cursor \in Cursor /\ prod[p].low_space_flag \in BOOLEAN
        /\ prod[p] = [pc |-> prod[p].pc, need |-> prod[p].need, cursor |-> prod[p].cursor,
                      low_space_flag |-> prod[p].low_space_flag]
    BY <1>1 DEF Local
  <1> QED BY <1>1, <1>2, <1>3, <1>4

\* Goto changes the place a thread is at and nothing else.
LEMMA GotoIs ==
    ASSUME Types, NEW p \in Producers, NEW pc \in Pcs, Goto(p, pc)
    PROVE  /\ prod' \in [Producers -> Local] /\ prod'[p].pc = pc
           /\ prod'[p].need = prod[p].need /\ prod'[p].cursor = prod[p].cursor
           /\ prod'[p].low_space_flag = prod[p].low_space_flag
           /\ \A q \in Producers : q # p => prod'[q] = prod[q]
  <1>1. /\ prod \in [Producers -> Local] /\ prod[p].pc \in Pcs
        /\ prod[p].need \in Needs \cup {0}
        /\ prod[p].cursor \in Cursor /\ prod[p].low_space_flag \in BOOLEAN
        /\ prod[p] = [pc |-> prod[p].pc, need |-> prod[p].need, cursor |-> prod[p].cursor,
                      low_space_flag |-> prod[p].low_space_flag]
    BY ProdType
  <1> DEFINE l == [pc |-> pc, need |-> prod[p].need, cursor |-> prod[p].cursor,
                   low_space_flag |-> prod[p].low_space_flag]
  <1>2. l \in Local
    BY <1>1 DEF Local
  <1>3. [prod[p] EXCEPT !.pc = pc] = l
    BY <1>1
  <1>4. prod' = [prod EXCEPT ![p] = [prod[p] EXCEPT !.pc = pc]]
    BY DEF Goto
  <1>5. prod' = [prod EXCEPT ![p] = l]
    BY <1>3, <1>4
  <1>6. /\ l.pc = pc /\ l.need = prod[p].need /\ l.cursor = prod[p].cursor
        /\ l.low_space_flag = prod[p].low_space_flag
    OBVIOUS
  <1> HIDE DEF l
  <1> QED BY <1>1, <1>2, <1>5, <1>6

\* The end of a call.
LEMMA IdleIs ==
    ASSUME Types, NEW p \in Producers, prod' = [prod EXCEPT ![p] = Idle]
    PROVE  /\ prod' \in [Producers -> Local] /\ prod'[p].pc = "idle"
           /\ \A q \in Producers : q # p => prod'[q] = prod[q]
  <1>1. prod \in [Producers -> Local]
    BY DEF Types
  <1>2. 0 \in Cursor
    BY Facts DEF Cursor
  <1>3. Idle \in Local /\ Idle.pc = "idle"
    BY <1>2 DEF Idle, Local, Pcs
  <1> QED BY <1>1, <1>3

LEMMA SetViewIs ==
    ASSUME Types, NEW p \in Producers, SetView(p)
    PROVE  /\ wt_read_cursor_cache' \in Views
           /\ wt_read_cursor_cache'[p] = read_cursor /\ wt_read_cursor_cache'[p] # NoCache
           /\ \A q \in Producers : q # p => wt_read_cursor_cache'[q] = wt_read_cursor_cache[q]
  <1>1. wt_read_cursor_cache \in Views /\ read_cursor \in Cursor
    BY DEF Types, Views
  <1>2. read_cursor # NoCache
    BY <1>1, MisoAssumption
  <1> QED BY <1>1, <1>2 DEF SetView, Views

LEMMA LoadWriteCursorStep ==
    ASSUME IInv, NEW p \in Producers, NEW n \in Needs, load_write_cursor(p, n)
    PROVE  IInv'
  <1>1. Types
    BY DEF IInv
  <1>2. /\ prod \in [Producers -> Local] /\ wt_read_cursor_cache \in Views
        /\ write_cursor \in Cursor
    BY <1>1, ProdType
  <1>3. /\ prod[p].pc = "idle" /\ rpc # "down"
        /\ UNCHANGED <<blocks, cursors, rpc, tickets>>
        /\ wt_read_cursor_cache' = wt_read_cursor_cache /\ rpc' = rpc
    BY DEF load_write_cursor
  <1>4. PICK l : /\ prod' = [prod EXCEPT ![p] = l]
                 /\ l = [pc |-> IF wt_read_cursor_cache[p] = NoCache THEN "view" ELSE "check",
                         need |-> n, cursor |-> write_cursor,
                         low_space_flag |-> wt_read_cursor_cache[p] # NoCache
                             /\ LowSpaceGuess(write_cursor, wt_read_cursor_cache[p], n)]
    BY DEF load_write_cursor
  <1>5. l \in Local
    BY <1>2, <1>4 DEF Local, Pcs
  <1>6. /\ l.pc \in {"view", "check"} /\ l.need = n
        /\ l.pc = "check" => wt_read_cursor_cache[p] # NoCache
    BY <1>4
  <1>7. prod' \in [Producers -> Local] /\ prod'[p] = l /\ \A q \in Producers : q # p => prod'[q] = prod[q]
    BY <1>2, <1>4, <1>5
  <1>8. Others(p) /\ LocalOK(p)
    BY <1>2, <1>3, <1>6, <1>7 DEF Others, LocalOK
  <1>9. prod[p].pc \in Settled /\ prod'[p].pc \in Settled
    BY <1>3, <1>6, <1>7 DEF Settled, Pcs, Undone, Writing
  <1> QED BY <1>3, <1>8, <1>9, LocalStep

LEMMA LoadReadCursorStep ==
    ASSUME IInv, NEW p \in Producers, load_read_cursor(p) \/ confirm_low_space(p)
    PROVE  IInv'
  <1>1. Types
    BY DEF IInv
  <1>2. /\ prod \in [Producers -> Local] /\ prod[p].need \in Needs \cup {0}
        /\ prod[p].cursor \in Cursor
        /\ prod[p] = [pc |-> prod[p].pc, need |-> prod[p].need, cursor |-> prod[p].cursor,
                      low_space_flag |-> prod[p].low_space_flag]
    BY <1>1, ProdType
  <1>3. PICK b, to : /\ prod' = [prod EXCEPT ![p].pc = to, ![p].low_space_flag = b]
                     /\ b \in BOOLEAN
                     /\ \/ prod[p].pc = "view" /\ to = "check"
                        \/ prod[p].pc = "low" /\ to = "fill"
    <2>1. CASE load_read_cursor(p)
      <3> DEFINE b == LowSpaceGuess(prod[p].cursor, read_cursor, prod[p].need)
      <3>1. b \in BOOLEAN
        BY DEF LowSpaceGuess, HalfFull
      <3>2. prod' = [prod EXCEPT ![p].pc = "check", ![p].low_space_flag = b] /\ prod[p].pc = "view"
        BY <2>1 DEF load_read_cursor
      <3> HIDE DEF b
      <3> QED BY <3>1, <3>2
    <2>2. CASE confirm_low_space(p)
      <3> DEFINE b == HalfFull(Minus(NextCursor(p), read_cursor))
      <3>1. b \in BOOLEAN
        BY DEF HalfFull
      <3>2. prod' = [prod EXCEPT ![p].pc = "fill", ![p].low_space_flag = b] /\ prod[p].pc = "low"
        BY <2>2 DEF confirm_low_space
      <3> HIDE DEF b
      <3> QED BY <3>1, <3>2
    <2> QED BY <2>1, <2>2
  <1>4. SetView(p) /\ UNCHANGED <<blocks, cursors, rpc, tickets>> /\ rpc' = rpc
    BY DEF load_read_cursor, confirm_low_space
  <1> DEFINE l == [pc |-> to, need |-> prod[p].need, cursor |-> prod[p].cursor,
                   low_space_flag |-> b]
  <1>5. l \in Local
    BY <1>2, <1>3 DEF Local, Pcs
  <1>6. /\ l.pc = to /\ l.need = prod[p].need /\ l.cursor = prod[p].cursor
    OBVIOUS
  <1>7. prod'[p] = l
    <2>1. prod'[p] = [prod[p] EXCEPT !.pc = to, !.low_space_flag = b]
      BY <1>2, <1>3
    <2> QED BY <1>2, <2>1
  <1> HIDE DEF l
  <1>8. prod' \in [Producers -> Local] /\ prod'[p] = l /\ \A q \in Producers : q # p => prod'[q] = prod[q]
    <2>1. /\ \A q \in Producers : q # p => prod'[q] = prod[q]
          /\ prod' = [q \in Producers |-> prod'[q]]
      BY <1>2, <1>3
    <2>2. \A q \in Producers : prod'[q] \in Local
      BY <1>2, <1>5, <1>7, <2>1
    <2> QED BY <1>7, <2>1, <2>2
  <1>9. /\ wt_read_cursor_cache' \in Views /\ wt_read_cursor_cache'[p] # NoCache
        /\ \A q \in Producers : q # p => wt_read_cursor_cache'[q] = wt_read_cursor_cache[q]
    BY <1>1, <1>4, SetViewIs
  <1>10. prod[p].need \in Needs /\ rpc # "down"
    BY <1>3 DEF IInv, Holders
  <1>11. Others(p) /\ LocalOK(p)
    BY <1>4, <1>6, <1>8, <1>9, <1>10 DEF Others, LocalOK
  <1>12. \/ prod[p].pc \in Settled /\ prod'[p].pc \in Settled
         \/ /\ prod'[p].cursor = prod[p].cursor /\ prod'[p].need = prod[p].need
            /\ prod[p].pc \in {"low", "fill", "commit"}
            /\ prod'[p].pc \in {"low", "fill", "commit"}
    BY <1>3, <1>6, <1>8 DEF Settled, Pcs, Undone, Writing
  <1> QED BY <1>4, <1>11, <1>12, LocalStep

LEMMA TlsRecycledStep ==
    ASSUME IInv, NEW p \in Producers, tls_recycled(p)
    PROVE  IInv'
  <1>1. Types
    BY DEF IInv
  <1>2. /\ prod \in [Producers -> Local] /\ wt_read_cursor_cache \in Views
    BY <1>1, ProdType
  <1>3. /\ prod[p].pc = "idle" /\ prod' = prod /\ rpc' = rpc
        /\ UNCHANGED <<blocks, cursors, rpc, tickets>>
        /\ wt_read_cursor_cache' = [wt_read_cursor_cache EXCEPT ![p] = NoCache]
    BY DEF tls_recycled
  <1>4. Others(p) /\ LocalOK(p)
    BY <1>2, <1>3 DEF Others, LocalOK, Views
  <1>5. prod[p].pc \in Settled /\ prod'[p].pc \in Settled
    BY <1>3 DEF Settled, Pcs, Undone, Writing
  <1> QED BY <1>3, <1>4, <1>5, LocalStep

LEMMA ReloadViewStep ==
    ASSUME IInv, NEW p \in Producers, reload_view(p)
    PROVE  IInv'
  <1>1. Types
    BY DEF IInv
  <1>2. /\ prod[p].pc = "check" /\ SetView(p) /\ rpc' = rpc
        /\ UNCHANGED <<blocks, cursors, rpc, tickets>>
        /\ prod' = prod \/ prod' = [prod EXCEPT ![p] = Idle]
    BY DEF reload_view, Fail
  <1>3. prod[p].need \in Needs /\ rpc # "down"
    BY <1>2 DEF IInv, Holders
  <1>4. /\ prod' \in [Producers -> Local] /\ prod'[p].pc \in {"check", "idle"}
        /\ prod'[p].pc # "idle" => prod'[p].need \in Needs
        /\ \A q \in Producers : q # p => prod'[q] = prod[q]
    <2>1. CASE prod' = prod
      BY <1>1, <1>2, <1>3, <2>1, ProdType
    <2>2. CASE prod' = [prod EXCEPT ![p] = Idle]
      BY <1>1, <2>2, IdleIs
    <2> QED BY <1>2, <2>1, <2>2
  <1>5. /\ wt_read_cursor_cache' \in Views /\ wt_read_cursor_cache'[p] # NoCache
        /\ \A q \in Producers : q # p => wt_read_cursor_cache'[q] = wt_read_cursor_cache[q]
    BY <1>1, <1>2, SetViewIs
  <1>6. Others(p) /\ LocalOK(p)
    BY <1>2, <1>3, <1>4, <1>5 DEF Others, LocalOK
  <1>7. prod[p].pc \in Settled /\ prod'[p].pc \in Settled
    BY <1>2, <1>4 DEF Settled, Pcs, Undone, Writing
  <1> QED BY <1>2, <1>6, <1>7, LocalStep

\* The consumer's cursor is not beyond the write cursor, and a reservation it
\* has passed ends before it.
LEMMA ReaderBehind ==
    ASSUME Geometry, Reader, read_cursor_cache \in Cursor
    PROVE  /\ Minus(read_cursor_cache, read_cursor) \in Nat
           /\ Minus(read_cursor_cache, read_cursor) <= Minus(write_cursor, read_cursor)
           /\ \A i \in 1 .. Len(tickets) :
                /\ tickets[i].kind = "read" =>
                     To(tickets[i], read_cursor) <= Minus(read_cursor_cache, read_cursor)
                /\ tickets[i].kind # "read" =>
                     Minus(read_cursor_cache, read_cursor) <= From(tickets[i], read_cursor)
  <1> DEFINE D == Minus(read_cursor_cache, read_cursor)
  <1>1. /\ read_cursor \in Cursor /\ write_cursor \in Cursor
        /\ \A i \in 1 .. Len(tickets) :
             /\ From(tickets[i], read_cursor) \in Nat /\ To(tickets[i], read_cursor) \in Nat
             /\ From(tickets[i], read_cursor) < To(tickets[i], read_cursor)
             /\ To(tickets[i], read_cursor) <= Minus(write_cursor, read_cursor)
    BY InRow DEF Geometry
  <1>2. D \in Nat /\ Minus(write_cursor, read_cursor) \in Nat /\ Minus(read_cursor, read_cursor) = 0
    BY <1>1, Distance
  <1>3. D <= Minus(write_cursor, read_cursor)
    <2>1. CASE read_cursor_cache = read_cursor
      BY <1>2, <2>1
    <2>2. CASE \E i \in 1 .. Len(tickets) : To(tickets[i], read_cursor) = D
      BY <1>1, <2>2
    <2> QED BY <2>1, <2>2 DEF Reader
  <1>4. ASSUME NEW i \in 1 .. Len(tickets), tickets[i].kind = "read"
        PROVE  To(tickets[i], read_cursor) <= D
    <2>1. From(tickets[i], read_cursor) < D
      BY <1>4 DEF Reader
    <2>2. PICK j \in 1 .. Len(tickets) : To(tickets[j], read_cursor) = D
      BY <1>1, <1>2, <2>1 DEF Reader
    <2>3. i \in Nat /\ j \in Nat
      BY InRow DEF Geometry
    <2>4. i < j => To(tickets[i], read_cursor) <= From(tickets[j], read_cursor)
      BY RowOrder DEF Geometry
    <2>5. j < i => To(tickets[j], read_cursor) <= From(tickets[i], read_cursor)
      BY RowOrder DEF Geometry
    <2>6. CASE i < j
      BY <1>1, <1>2, <2>2, <2>4, <2>6
    <2>7. CASE j < i
      BY <1>1, <1>2, <2>1, <2>2, <2>5, <2>7
    <2>8. CASE i = j
      BY <1>2, <2>2, <2>8
    <2> QED BY <2>3, <2>6, <2>7, <2>8
  <1>5. ASSUME NEW i \in 1 .. Len(tickets), tickets[i].kind # "read"
        PROVE  D <= From(tickets[i], read_cursor)
    BY <1>1, <1>2, <1>5 DEF Reader
  <1> QED BY <1>2, <1>3, <1>4, <1>5

\* The head of a reservation is at its place, and no other kept one covers it.
LEMMA HeadPlace ==
    ASSUME Geometry, Fits, NEW i \in 1 .. Len(tickets), Kept(tickets[i])
    PROVE  /\ From(tickets[i], read_cursor) \in 0 .. N - 1
           /\ Index(tickets[i].at) = Place(read_cursor, From(tickets[i], read_cursor))
           /\ Index(tickets[i].at) \in Slot
  <1>1. /\ read_cursor \in Cursor /\ tickets[i].at \in Cursor
        /\ From(tickets[i], read_cursor) \in Nat /\ To(tickets[i], read_cursor) \in Nat
        /\ From(tickets[i], read_cursor) < To(tickets[i], read_cursor)
    BY InRow DEF Geometry
  <1>2. To(tickets[i], read_cursor) < N
    BY DEF Fits
  <1>3. From(tickets[i], read_cursor) \in 0 .. N - 1
    BY <1>1, <1>2, Facts
  <1>4. Plus(read_cursor, From(tickets[i], read_cursor)) = tickets[i].at
    BY <1>1, Distance DEF From
  <1> QED BY <1>1, <1>3, <1>4, IndexType DEF Place

LEMMA ReserveStep ==
    ASSUME IInv, ViewsFresh, NEW p \in Producers, reserve(p)
    PROVE  IInv'
  <1> DEFINE r == read_cursor
             w == write_cursor
             n == prod[p].need
             v == wt_read_cursor_cache[p]
             D == Minus(w, r)
  <1>0. Types /\ Geometry /\ Holders /\ Fits /\ HeadsRight /\ FreeClean /\ Reader
    BY DEF IInv
  <1>1. /\ prod \in [Producers -> Local] /\ prod[p].pc \in Pcs
        /\ prod[p].cursor \in Cursor /\ prod[p].low_space_flag \in BOOLEAN
        /\ prod[p] = [pc |-> prod[p].pc, need |-> prod[p].need, cursor |-> prod[p].cursor,
                      low_space_flag |-> prod[p].low_space_flag]
        /\ wt_read_cursor_cache \in Views /\ v \in Cursor \cup {NoCache}
        /\ w \in Cursor /\ r \in Cursor
    BY <1>0, ProdType
  <1>2. /\ prod[p].pc = "check"
        /\ write_cursor' = Plus(w, n)
        /\ prod' = [prod EXCEPT ![p].cursor = w,
                                ![p].pc = IF Overruns(w, n, v) THEN "rollback" ELSE "write"]
        /\ tickets' = Append(tickets, [owner |-> p, at |-> w, n |-> n,
                         kind |-> IF Overruns(w, n, v) THEN "tentative" ELSE "open"])
        /\ blocks' = blocks /\ read_cursor' = r /\ read_cursor_cache' = read_cursor_cache
        /\ read_cursor_start_cache' = read_cursor_start_cache /\ rpc' = rpc
        /\ wt_read_cursor_cache' = wt_read_cursor_cache
    BY DEF reserve
  <1>3. n \in Needs /\ v # NoCache /\ rpc # "down"
    BY <1>0, <1>2 DEF Holders
  <1>4. n \in Nat /\ n >= 1 /\ n <= N /\ N \in Nat /\ M \in Nat /\ P \in Nat
    BY <1>3, Facts
  <1>5. D \in Nat /\ D < N * P
    BY <1>0, <1>1, <1>2, <1>3, Distance, WriteCursorBound
  <1>6. N * P \in Nat /\ N * (P + 1) = N * P + N /\ N * (P + 2) = N * P + N + N /\ M >= N * (P + 2)
    BY <1>4, Facts
  <1>7. D + n < M
    <2> HIDE DEF D, n
    <2> QED BY <1>4, <1>5, <1>6
  <1> DEFINE t == [owner |-> p, at |-> w, n |-> n,
                   kind |-> IF Overruns(w, n, v) THEN "tentative" ELSE "open"]
             us == Append(tickets, t)
             L == Len(tickets)
  <1>8. /\ t \in Ticket /\ t.at = w /\ t.n = n /\ t.owner = p
        /\ t.kind \in {"tentative", "open"} /\ (t.kind = "open" <=> ~Overruns(w, n, v))
        /\ Behind(t) = Plus(w, n)
    BY <1>1, <1>3 DEF Ticket, Kinds, Behind
  <1>9. tickets' = us
    BY <1>2
  <1>10. tickets \in Seq(Ticket) /\ L \in Nat
    BY <1>0 DEF Types
  <1>11. /\ us \in Seq(Ticket) /\ Len(us) = L + 1 /\ us[L + 1] = t
         /\ \A i \in 1 .. L : us[i] = tickets[i]
    BY <1>8, <1>10
  <1>12. \A i \in 1 .. Len(us) : i \in 1 .. L \/ i = L + 1
    BY <1>10, <1>11
  <1>13. \A i \in 1 .. L : i \in 1 .. Len(us)
    BY <1>10, <1>11
  <1>14. L + 1 \in 1 .. Len(us)
    BY <1>10, <1>11
  <1> HIDE DEF t, us
  <1>15. Gapless(us, r, Plus(w, n))
    <2>1. Gapless(tickets, r, w)
      BY <1>0 DEF Geometry
    <2>2. Minus(w, r) + t.n < M
      BY <1>7, <1>8
    <2> QED BY <1>8, <2>1, <2>2, AppendRow DEF us
  <1>16. Geometry'
    BY <1>2, <1>9, <1>15 DEF Geometry
  <1>17. /\ From(t, r) = D /\ To(t, r) = D + n
    BY <1>8 DEF From, To
  <1>18. t.kind = "open" => To(t, r) < N
    <2> SUFFICES ASSUME ~Overruns(w, n, v) PROVE To(t, r) < N
      BY <1>8
    <2>1. v \in Cursor
      BY <1>1, <1>3
    <2> DEFINE x == Plus(w, n)
               a == Minus(r, v)
    <2>2. x \in Cursor /\ Minus(x, r) = D + n
      <3>1. To(t, r) < M
        BY <1>7, <1>17
      <3>2. Behind(t) \in Cursor /\ Minus(Behind(t), r) = To(t, r)
        BY <1>1, <1>8, <3>1, TicketType
      <3> QED BY <1>8, <1>17, <3>2
    <2>3. a \in Nat /\ a <= M - N * (P + 1)
      BY <1>1, <1>3, <2>1, Distance DEF ViewsFresh, P
    <2>4. Minus(x, r) + a < M
      <3> HIDE DEF x, a, D, n
      <3> QED BY <1>4, <1>5, <1>6, <2>2, <2>3
    <2>5. Minus(x, v) = Minus(x, r) + a
      BY <1>1, <2>1, <2>2, <2>4, Older
    <2>6. ~(Minus(x, v) >= N)
      BY DEF Overruns
    <2> HIDE DEF x, a, D, n
    <2> QED BY <1>4, <1>5, <1>17, <2>2, <2>3, <2>5, <2>6
  <1>19. Fits'
    <2>1. \A i \in 1 .. Len(us) : Kept(us[i]) => To(us[i], r) < N
      BY <1>0, <1>8, <1>11, <1>12, <1>18 DEF Fits, Kept
    <2> QED BY <1>2, <1>9, <2>1 DEF Fits
  <1>20. FreeClean'
    <2>1. \A d \in 0 .. N - 1 :
            (\A i \in 1 .. Len(us) : Kept(us[i]) => ~Covers(us[i], r, d))
            => blocks[Place(r, d)].status = "unused"
      BY <1>0, <1>11, <1>13 DEF FreeClean
    <2> QED BY <1>2, <1>9, <2>1 DEF FreeClean
  <1>21. Reader'
    <2>1. /\ read_cursor_cache \in Cursor
      BY <1>0 DEF Types
    <2>2. /\ Minus(read_cursor_cache, r) \in Nat /\ Minus(read_cursor_cache, r) <= D
      BY <1>0, <2>1, ReaderBehind
    <2>3. \A i \in 1 .. Len(us) :
            (us[i].kind = "read") <=> From(us[i], r) < Minus(read_cursor_cache, r)
      <3> SUFFICES ASSUME NEW i \in 1 .. Len(us)
                   PROVE (us[i].kind = "read") <=> From(us[i], r) < Minus(read_cursor_cache, r)
        OBVIOUS
      <3>1. CASE i \in 1 .. L
        BY <1>0, <1>11, <3>1 DEF Reader
      <3>2. CASE i = L + 1
        <4>1. us[i] = t /\ t.kind # "read"
          BY <1>8, <1>11, <3>2
        <4> HIDE DEF D
        <4> QED BY <1>5, <1>17, <2>2, <4>1
      <3> QED BY <1>12, <3>1, <3>2
    <2>4. \/ read_cursor_cache = r
          \/ \E i \in 1 .. Len(us) :
               us[i].kind = "read" /\ To(us[i], r) = Minus(read_cursor_cache, r)
      BY <1>0, <1>11, <1>13 DEF Reader
    <2>5. rpc = "skip" => \E i \in 1 .. Len(us) :
             us[i].kind = "invalid" /\ us[i].at = read_cursor_cache
      BY <1>0, <1>11, <1>13 DEF Reader
    <2>6. rpc = "lent" => \E i \in 1 .. Len(us) :
             us[i].kind = "used" /\ us[i].at = read_cursor_cache
      BY <1>0, <1>11, <1>13 DEF Reader
    <2>7. /\ rpc \notin {"publish", "down"} => read_cursor_start_cache = r
          /\ rpc = "publish" =>
               /\ read_cursor_start_cache = read_cursor_cache
               /\ \A d \in 0 .. Minus(read_cursor_cache, r) - 1 :
                    blocks[Place(r, d)].status = "unused"
      BY <1>0 DEF Reader
    <2> QED BY <1>2, <1>9, <2>3, <2>4, <2>5, <2>6, <2>7 DEF Reader
  <1>22. /\ prod' \in [Producers -> Local]
         /\ prod'[p].cursor = w /\ prod'[p].need = n
         /\ prod'[p].pc = (IF Overruns(w, n, v) THEN "rollback" ELSE "write")
         /\ \A q \in Producers : q # p => prod'[q] = prod[q]
    <2> DEFINE to == IF Overruns(w, n, v) THEN "rollback" ELSE "write"
               l == [pc |-> to, need |-> n, cursor |-> w,
                     low_space_flag |-> prod[p].low_space_flag]
    <2>1. to \in Pcs
      BY DEF Pcs
    <2> HIDE DEF to
    <2>2. l \in Local /\ l.cursor = w /\ l.need = n /\ l.pc = to
      BY <1>1, <1>3, <2>1 DEF Local
    <2>3. prod' = [prod EXCEPT ![p].cursor = w, ![p].pc = to]
      BY <1>2 DEF to
    <2>4. prod'[p] = [prod[p] EXCEPT !.cursor = w, !.pc = to]
      BY <1>1, <2>3
    <2>5. prod'[p] = l
      BY <1>1, <2>4
    <2> HIDE DEF l
    <2>6. /\ \A q \in Producers : q # p => prod'[q] = prod[q]
          /\ prod' = [q \in Producers |-> prod'[q]]
      BY <1>1, <2>3
    <2>7. \A q \in Producers : prod'[q] \in Local
      BY <1>1, <2>2, <2>5, <2>6
    <2> QED BY <2>2, <2>5, <2>6, <2>7 DEF to
  <1>23. Types'
    <2>1. write_cursor' \in Cursor
      BY <1>2, <1>15 DEF Gapless
    <2> QED BY <1>0, <1>2, <1>9, <1>11, <1>22, <2>1 DEF Types
  <1>24. \A i \in 1 .. L : tickets[i].owner \in Producers
    <2>1. \A i \in 1 .. L : tickets[i] \in Ticket
      BY <1>10
    <2> QED BY <2>1 DEF Ticket
  <1>25. \A i \in 1 .. L : tickets[i].kind \in Pending => tickets[i].owner # p
    BY <1>0, <1>2, <1>3 DEF Holders, Pending, Undone, Writing
  <1>26. HeadsRight'
    <2>1. \A i \in 1 .. Len(us) : us[i].kind \in {"used", "invalid"} => i \in 1 .. L /\ us[i] = tickets[i]
      BY <1>8, <1>11, <1>12
    <2>2. ASSUME NEW i \in 1 .. Len(us), us[i].kind = "open"
          PROVE  /\ blocks[Index(us[i].at)].status = "unused"
                 /\ prod'[us[i].owner].pc \in {"low", "fill", "commit"} =>
                      /\ blocks[Index(us[i].at)].block_num = us[i].n
                      /\ ~Wraps(us[i].at, us[i].n)
      <3>1. CASE i \in 1 .. L
        <4>1. us[i] = tickets[i] /\ tickets[i].owner # p /\ tickets[i].owner \in Producers
          BY <1>11, <1>24, <1>25, <2>2, <3>1 DEF Pending
        <4>2. prod'[us[i].owner] = prod[tickets[i].owner]
          BY <1>22, <4>1
        <4> QED BY <1>0, <2>2, <3>1, <4>1, <4>2 DEF HeadsRight
      <3>2. CASE i = L + 1
        <4>1. us[i] = t /\ t.kind = "open" /\ To(t, r) < N
          BY <1>11, <1>18, <2>2, <3>2
        <4>2. D \in 0 .. N - 1
          <5> HIDE DEF D, n
          <5> QED BY <1>4, <1>5, <1>17, <4>1
        <4>3. \A k \in 1 .. L : Kept(tickets[k]) => ~Covers(tickets[k], r, D)
          <5>1. \A k \in 1 .. L : To(tickets[k], r) <= D /\ To(tickets[k], r) \in Nat
            BY <1>0, InRow DEF Geometry
          <5> HIDE DEF D
          <5> QED BY <1>5, <5>1 DEF Covers
        <4>4. blocks[Place(r, D)].status = "unused"
          BY <1>0, <4>2, <4>3 DEF FreeClean
        <4>5. Place(r, D) = Index(t.at)
          BY <1>1, <1>8, Distance DEF Place
        <4>6. prod'[us[i].owner].pc = "write"
          BY <1>8, <1>22, <4>1
        <4> QED BY <4>1, <4>4, <4>5, <4>6
      <3> QED BY <1>12, <3>1, <3>2
    <2>3. /\ \A i \in 1 .. Len(us) : us[i].kind = "used" =>
               /\ blocks[Index(us[i].at)].status = "used"
               /\ blocks[Index(us[i].at)].block_num = us[i].n
               /\ ~Wraps(us[i].at, us[i].n)
          /\ \A i \in 1 .. Len(us) : us[i].kind = "invalid" =>
               /\ blocks[Index(us[i].at)].block_num = us[i].n
               /\ Wraps(us[i].at, us[i].n)
               /\ \/ blocks[Index(us[i].at)].status = "invalid"
                  \/ /\ blocks[Index(us[i].at)].status = "unused"
                     /\ us[i].at = read_cursor_cache /\ rpc \in {"skip", "down"}
      BY <1>0, <2>1 DEF HeadsRight
    <2>4. \A j \in Slot : blocks[j].status \in {"used", "invalid"} => blocks[j].block_num # 0
      BY <1>0 DEF HeadsRight
    <2> QED BY <1>2, <1>9, <2>2, <2>3, <2>4, ZenonT(30) DEF HeadsRight
  <1>27. Holders'
    <2>1. \A q \in Producers :
            /\ prod'[q].pc # "idle" => prod'[q].need \in Needs
            /\ prod'[q].pc \notin {"idle", "view"} => wt_read_cursor_cache'[q] # NoCache
      BY <1>0, <1>2, <1>3, <1>22 DEF Holders
    <2>2. \A q \in Producers : prod'[q].pc \in Undone =>
            \E i \in 1 .. Len(us) : Holds(q, prod'[q], us[i], "tentative")
      <3> SUFFICES ASSUME NEW q \in Producers, prod'[q].pc \in Undone
                   PROVE  \E i \in 1 .. Len(us) : Holds(q, prod'[q], us[i], "tentative")
        OBVIOUS
      <3>1. CASE q = p
        <4>1. us[L + 1].owner = p /\ us[L + 1].kind = "tentative"
              /\ us[L + 1].at = prod'[p].cursor /\ us[L + 1].n = prod'[p].need
          BY <1>8, <1>11, <1>22, <3>1 DEF Undone
        <4> QED BY <1>14, <3>1, <4>1 DEF Holds
      <3>2. CASE q # p
        <4>1. prod'[q] = prod[q]
          BY <1>22, <3>2
        <4>2. PICK i \in 1 .. L : Holds(q, prod[q], tickets[i], "tentative")
          BY <1>0, <4>1 DEF Holders
        <4> QED BY <1>11, <1>13, <4>1, <4>2
      <3> QED BY <3>1, <3>2
    <2>3. \A q \in Producers : prod'[q].pc \in Writing =>
            \E i \in 1 .. Len(us) : Holds(q, prod'[q], us[i], "open")
      <3> SUFFICES ASSUME NEW q \in Producers, prod'[q].pc \in Writing
                   PROVE  \E i \in 1 .. Len(us) : Holds(q, prod'[q], us[i], "open")
        OBVIOUS
      <3>1. CASE q = p
        <4>1. us[L + 1].owner = p /\ us[L + 1].kind = "open"
              /\ us[L + 1].at = prod'[p].cursor /\ us[L + 1].n = prod'[p].need
          BY <1>8, <1>11, <1>22, <3>1 DEF Writing
        <4> QED BY <1>14, <3>1, <4>1 DEF Holds
      <3>2. CASE q # p
        <4>1. prod'[q] = prod[q]
          BY <1>22, <3>2
        <4>2. PICK i \in 1 .. L : Holds(q, prod[q], tickets[i], "open")
          BY <1>0, <4>1 DEF Holders
        <4> QED BY <1>11, <1>13, <4>1, <4>2
      <3> QED BY <3>1, <3>2
    <2>4. \A i \in 1 .. Len(us) :
            /\ us[i].kind = "tentative" => prod'[us[i].owner].pc \in Undone
            /\ us[i].kind = "open" => prod'[us[i].owner].pc \in Writing
      <3> SUFFICES ASSUME NEW i \in 1 .. Len(us)
                   PROVE  /\ us[i].kind = "tentative" => prod'[us[i].owner].pc \in Undone
                          /\ us[i].kind = "open" => prod'[us[i].owner].pc \in Writing
        OBVIOUS
      <3>1. CASE i \in 1 .. L
        <4>1. us[i] = tickets[i] /\ tickets[i].owner \in Producers
          BY <1>11, <1>24, <3>1
        <4>2. tickets[i].kind \in Pending => prod'[us[i].owner] = prod[tickets[i].owner]
          BY <1>22, <1>25, <3>1, <4>1
        <4> QED BY <1>0, <1>3, <3>1, <4>1, <4>2 DEF Holders, Pending
      <3>2. CASE i = L + 1
        BY <1>8, <1>11, <1>22, <3>2 DEF Undone, Writing
      <3> QED BY <1>12, <3>1, <3>2
    <2>5. \A i, j \in 1 .. Len(us) :
            /\ us[i].kind \in Pending /\ us[j].kind \in Pending
            /\ us[i].owner = us[j].owner
            => i = j
      BY <1>0, <1>8, <1>11, <1>12, <1>25 DEF Holders
    <2> QED BY <1>2, <1>3, <1>9, <2>1, <2>2, <2>3, <2>4, <2>5 DEF Holders
  <1> QED BY <1>0, <1>16, <1>19, <1>20, <1>21, <1>23, <1>26, <1>27 DEF IInv

\* The blocks outside of a reservation keep their contents.
OutsideSame(t) ==
    \A d \in 0 .. N - 1 : ~Covers(t, read_cursor, d) =>
        blocks'[Place(read_cursor, d)] = blocks[Place(read_cursor, d)]

\* Only the kind of reservation m changes.
OnlyKind(m) ==
    /\ tickets' \in Seq(Ticket) /\ Len(tickets') = Len(tickets)
    /\ \A i \in 1 .. Len(tickets) : i # m => tickets'[i] = tickets[i]
    /\ tickets'[m].owner = tickets[m].owner
    /\ tickets'[m].at = tickets[m].at /\ tickets'[m].n = tickets[m].n

\* What the step of its holder makes of a reservation.
NewHead(p, t) ==
    /\ t.kind \in {"open", "used", "invalid"}
    /\ t.kind = "open" =>
         /\ blocks'[Index(t.at)].status = "unused"
         /\ prod'[p].pc \in {"low", "fill", "commit"} =>
              blocks'[Index(t.at)].block_num = t.n /\ ~Wraps(t.at, t.n)
         /\ prod'[p].pc \in Writing /\ prod'[p].cursor = t.at /\ prod'[p].need = t.n
    /\ t.kind = "used" =>
         /\ blocks'[Index(t.at)].status = "used"
         /\ blocks'[Index(t.at)].block_num = t.n /\ ~Wraps(t.at, t.n)
    /\ t.kind = "invalid" =>
         /\ blocks'[Index(t.at)].status = "invalid"
         /\ blocks'[Index(t.at)].block_num = t.n
         /\ Wraps(t.at, t.n)
    /\ t.kind # "open" => prod'[p].pc \in Settled

NumbersKept == \A j \in Slot : blocks'[j].status \in {"used", "invalid"} => blocks'[j].block_num # 0

\* A thread works on the reservation it holds and on its blocks.
LEMMA OwnStep ==
    ASSUME IInv, NEW p \in Producers, NEW m \in 1 .. Len(tickets),
           tickets[m].owner = p, tickets[m].kind \in Pending, rpc # "down",
           UNCHANGED <<cursors, rpc>>, Others(p), LocalOK(p), OnlyKind(m),
           To(tickets[m], read_cursor) < N, blocks' \in [Slot -> Block],
           OutsideSame(tickets[m]), NewHead(p, tickets'[m]), NumbersKept
    PROVE  IInv'
  <1> DEFINE r == read_cursor
             L == Len(tickets)
  <1>0. Types /\ Geometry /\ Holders /\ Fits /\ HeadsRight /\ FreeClean /\ Reader
    BY DEF IInv
  <1>1. /\ rpc' = rpc /\ write_cursor' = write_cursor /\ read_cursor' = r
        /\ read_cursor_cache' = read_cursor_cache
        /\ read_cursor_start_cache' = read_cursor_start_cache
    BY DEF cursors
  <1>2. /\ tickets' \in Seq(Ticket) /\ Len(tickets') = L /\ L \in Nat
        /\ \A i \in 1 .. L : i # m => tickets'[i] = tickets[i]
        /\ tickets'[m].owner = p
        /\ tickets'[m].at = tickets[m].at /\ tickets'[m].n = tickets[m].n
    BY <1>0 DEF OnlyKind, Types
  <1>3. \A i \in 1 .. L : /\ tickets'[i].at = tickets[i].at /\ tickets'[i].n = tickets[i].n
                          /\ tickets'[i].owner = tickets[i].owner
    BY <1>2
  <1>4. \A i \in 1 .. L : From(tickets'[i], r) = From(tickets[i], r) /\ To(tickets'[i], r) = To(tickets[i], r)
    BY <1>3 DEF From, To
  <1>5. Types'
    BY <1>0, <1>1, <1>2 DEF Types, LocalOK, Views
  <1>6. Geometry'
    <2>1. Gapless(tickets, r, write_cursor)
      BY <1>0 DEF Geometry
    <2>2. r \in Cursor /\ write_cursor \in Cursor
      BY <1>0 DEF Types
    <2>3. Gapless(tickets', r, write_cursor)
      BY <1>2, <1>3, <1>4, <2>1, <2>2, SameRow
    <2> QED BY <1>1, <2>3 DEF Geometry
  <1>7. tickets'[m].kind \in {"open", "used", "invalid"} /\ Kept(tickets'[m])
    BY DEF NewHead, Kept
  <1>8. \A i \in 1 .. L : i # m => Kept(tickets'[i]) = Kept(tickets[i])
    BY <1>2
  <1>9. Fits'
    <2>1. \A i \in 1 .. L : Kept(tickets'[i]) => To(tickets'[i], r) < N
      BY <1>0, <1>2, <1>4 DEF Fits
    <2> QED BY <1>1, <1>2, <2>1 DEF Fits
  <1>10. FreeClean'
    <2>1. ASSUME NEW d \in 0 .. N - 1,
                 \A i \in 1 .. L : Kept(tickets'[i]) => ~Covers(tickets'[i], r, d)
          PROVE  blocks'[Place(r, d)].status = "unused"
      <3>1. ~Covers(tickets[m], r, d)
        BY <1>4, <1>7, <2>1 DEF Covers
      <3>2. \A i \in 1 .. L : Kept(tickets[i]) => ~Covers(tickets[i], r, d)
        BY <1>2, <2>1, <3>1
      <3>3. blocks[Place(r, d)].status = "unused"
        BY <1>0, <3>2 DEF FreeClean
      <3> QED BY <3>1, <3>3 DEF OutsideSame
    <2> QED BY <1>1, <1>2, <2>1 DEF FreeClean
  <1>11. ASSUME NEW i \in 1 .. L, i # m, Kept(tickets[i])
         PROVE  blocks'[Index(tickets[i].at)] = blocks[Index(tickets[i].at)]
    <2>1. /\ From(tickets[i], r) \in 0 .. N - 1
          /\ Index(tickets[i].at) = Place(r, From(tickets[i], r))
      BY <1>0, <1>11, HeadPlace
    <2>2. From(tickets[m], r) < To(tickets[i], r) /\ From(tickets[i], r) < To(tickets[m], r) => i = m
      BY <1>0, RowOrder DEF Geometry
    <2>3. From(tickets[i], r) < To(tickets[i], r) /\ From(tickets[m], r) \in Nat
          /\ From(tickets[i], r) \in Nat /\ To(tickets[i], r) \in Nat
      BY <1>0, InRow DEF Geometry
    <2>4. ~Covers(tickets[m], r, From(tickets[i], r))
      BY <1>11, <2>2, <2>3 DEF Covers
    <2> QED BY <2>1, <2>4 DEF OutsideSame
  <1>12. \A i \in 1 .. L : i # m /\ tickets[i].kind \in Pending => tickets[i].owner # p
    BY <1>0 DEF Holders
  <1>13. \A i \in 1 .. L : tickets[i].owner \in Producers
    <2>1. \A i \in 1 .. L : tickets[i] \in Ticket
      BY <1>0 DEF Types
    <2> QED BY <2>1 DEF Ticket
  <1>14. \A i \in 1 .. L : i # m /\ tickets[i].kind \in Pending =>
            prod'[tickets[i].owner] = prod[tickets[i].owner]
    BY <1>12, <1>13 DEF Others
  <1>15. HeadsRight'
    <2>1. ASSUME NEW i \in 1 .. L, tickets'[i].kind = "used"
          PROVE  /\ blocks'[Index(tickets'[i].at)].status = "used"
                 /\ blocks'[Index(tickets'[i].at)].block_num = tickets'[i].n
                 /\ ~Wraps(tickets'[i].at, tickets'[i].n)
      <3>1. CASE i = m
        BY <2>1, <3>1 DEF NewHead
      <3>2. CASE i # m
        <4>1. tickets'[i] = tickets[i] /\ Kept(tickets[i])
          BY <1>2, <2>1, <3>2 DEF Kept
        <4> QED BY <1>0, <1>11, <2>1, <3>2, <4>1 DEF HeadsRight
      <3> QED BY <3>1, <3>2
    <2>2. ASSUME NEW i \in 1 .. L, tickets'[i].kind = "invalid"
          PROVE  /\ blocks'[Index(tickets'[i].at)].block_num = tickets'[i].n
                 /\ Wraps(tickets'[i].at, tickets'[i].n)
                 /\ \/ blocks'[Index(tickets'[i].at)].status = "invalid"
                    \/ /\ blocks'[Index(tickets'[i].at)].status = "unused"
                       /\ tickets'[i].at = read_cursor_cache /\ rpc \in {"skip", "down"}
      <3>1. CASE i = m
        BY <2>2, <3>1 DEF NewHead
      <3>2. CASE i # m
        <4>1. tickets'[i] = tickets[i] /\ Kept(tickets[i])
          BY <1>2, <2>2, <3>2 DEF Kept
        <4> QED BY <1>0, <1>11, <2>2, <3>2, <4>1 DEF HeadsRight
      <3> QED BY <3>1, <3>2
    <2>3. ASSUME NEW i \in 1 .. L, tickets'[i].kind = "open"
          PROVE  /\ blocks'[Index(tickets'[i].at)].status = "unused"
                 /\ prod'[tickets'[i].owner].pc \in {"low", "fill", "commit"} =>
                      /\ blocks'[Index(tickets'[i].at)].block_num = tickets'[i].n
                      /\ ~Wraps(tickets'[i].at, tickets'[i].n)
      <3>1. CASE i = m
        BY <1>2, <2>3, <3>1 DEF NewHead
      <3>2. CASE i # m
        <4>1. tickets'[i] = tickets[i] /\ Kept(tickets[i]) /\ tickets[i].kind \in Pending
          BY <1>2, <2>3, <3>2 DEF Kept, Pending
        <4>2. prod'[tickets[i].owner] = prod[tickets[i].owner]
          BY <1>14, <3>2, <4>1
        <4>3. blocks'[Index(tickets[i].at)] = blocks[Index(tickets[i].at)]
          BY <1>11, <3>2, <4>1
        <4> QED BY <1>0, <2>3, <4>1, <4>2, <4>3 DEF HeadsRight
      <3> QED BY <3>1, <3>2
    <2> QED BY <1>1, <1>2, <2>1, <2>2, <2>3 DEF HeadsRight, NumbersKept
  <1>16. Reader'
    <2> DEFINE D == Minus(read_cursor_cache, r)
    <2>1. read_cursor_cache \in Cursor
      BY <1>0 DEF Types
    <2>2. D \in Nat /\ D <= From(tickets[m], r)
      BY <1>0, <2>1, ReaderBehind DEF Pending
    <2>3. \A i \in 1 .. L : (tickets'[i].kind = "read") <=> From(tickets'[i], r) < D
      <3> SUFFICES ASSUME NEW i \in 1 .. L
                   PROVE  (tickets'[i].kind = "read") <=> From(tickets'[i], r) < D
        OBVIOUS
      <3>1. CASE i = m
        <4>1. From(tickets[m], r) \in Nat
          BY <1>0, InRow DEF Geometry
        <4> QED BY <1>4, <1>7, <2>2, <3>1, <4>1
      <3>2. CASE i # m
        BY <1>0, <1>2, <3>2 DEF Reader
      <3> QED BY <3>1, <3>2
    <2>4. \/ read_cursor_cache = r
          \/ \E i \in 1 .. L : tickets'[i].kind = "read" /\ To(tickets'[i], r) = D
      BY <1>0, <1>2 DEF Reader, Pending
    <2>5. rpc = "publish" => \A d \in 0 .. D - 1 : blocks'[Place(r, d)].status = "unused"
      <3> SUFFICES ASSUME rpc = "publish", NEW d \in 0 .. D - 1
                   PROVE  blocks'[Place(r, d)].status = "unused"
        OBVIOUS
      <3>1. /\ From(tickets[m], r) \in Nat /\ To(tickets[m], r) \in Nat
            /\ From(tickets[m], r) < To(tickets[m], r) /\ N \in Nat
        BY <1>0, InRow, Facts DEF Geometry
      <3>2. d \in 0 .. N - 1 /\ ~Covers(tickets[m], r, d)
        BY <2>2, <3>1 DEF Covers
      <3>3. blocks[Place(r, d)].status = "unused"
        BY <1>0 DEF Reader
      <3> QED BY <3>2, <3>3 DEF OutsideSame
    <2>6. rpc = "skip" => \E i \in 1 .. L :
            tickets'[i].kind = "invalid" /\ tickets'[i].at = read_cursor_cache
      BY <1>0, <1>2 DEF Reader, Pending
    <2>7. rpc = "lent" => \E i \in 1 .. L :
            tickets'[i].kind = "used" /\ tickets'[i].at = read_cursor_cache
      BY <1>0, <1>2 DEF Reader, Pending
    <2>8. /\ rpc \notin {"publish", "down"} => read_cursor_start_cache = r
          /\ rpc = "publish" => read_cursor_start_cache = read_cursor_cache
      BY <1>0 DEF Reader
    <2> QED BY <1>1, <1>2, <2>3, <2>4, <2>5, <2>6, <2>7, <2>8 DEF Reader
  <1>17. Holders'
    <2>1. \A q \in Producers :
            /\ prod'[q].pc # "idle" => prod'[q].need \in Needs
            /\ prod'[q].pc \notin {"idle", "view"} => wt_read_cursor_cache'[q] # NoCache
      BY <1>0 DEF Holders, LocalOK, Others
    <2>2. \A q \in Producers : prod'[q].pc \in Undone =>
            \E i \in 1 .. L : Holds(q, prod'[q], tickets'[i], "tentative")
      <3> SUFFICES ASSUME NEW q \in Producers, prod'[q].pc \in Undone
                   PROVE  \E i \in 1 .. L : Holds(q, prod'[q], tickets'[i], "tentative")
        OBVIOUS
      <3>1. q # p
        BY <1>7 DEF NewHead, Settled, Undone, Writing
      <3>2. prod'[q] = prod[q]
        BY <3>1 DEF Others
      <3>3. PICK i \in 1 .. L : Holds(q, prod[q], tickets[i], "tentative")
        BY <1>0, <3>2 DEF Holders
      <3>4. i # m
        BY <3>1, <3>3 DEF Holds
      <3> QED BY <1>2, <3>2, <3>3, <3>4
    <2>3. \A q \in Producers : prod'[q].pc \in Writing =>
            \E i \in 1 .. L : Holds(q, prod'[q], tickets'[i], "open")
      <3> SUFFICES ASSUME NEW q \in Producers, prod'[q].pc \in Writing
                   PROVE  \E i \in 1 .. L : Holds(q, prod'[q], tickets'[i], "open")
        OBVIOUS
      <3>1. CASE q = p
        <4>1. Holds(q, prod'[q], tickets'[m], "open")
          BY <1>2, <3>1 DEF NewHead, Settled, Holds
        <4> QED BY <4>1
      <3>2. CASE q # p
        <4>1. prod'[q] = prod[q]
          BY <3>2 DEF Others
        <4>2. PICK i \in 1 .. L : Holds(q, prod[q], tickets[i], "open")
          BY <1>0, <4>1 DEF Holders
        <4>3. i # m
          BY <3>2, <4>2 DEF Holds
        <4> QED BY <1>2, <4>1, <4>2, <4>3
      <3> QED BY <3>1, <3>2
    <2>4. \A i \in 1 .. L :
            /\ tickets'[i].kind = "tentative" => prod'[tickets'[i].owner].pc \in Undone
            /\ tickets'[i].kind = "open" => prod'[tickets'[i].owner].pc \in Writing
      <3> SUFFICES ASSUME NEW i \in 1 .. L
                   PROVE  /\ tickets'[i].kind = "tentative" => prod'[tickets'[i].owner].pc \in Undone
                          /\ tickets'[i].kind = "open" => prod'[tickets'[i].owner].pc \in Writing
        OBVIOUS
      <3>1. CASE i = m
        BY <1>2, <1>7, <3>1 DEF NewHead
      <3>2. CASE i # m
        BY <1>0, <1>2, <1>14, <3>2 DEF Holders, Pending
      <3> QED BY <3>1, <3>2
    <2>5. \A i, j \in 1 .. L :
            /\ tickets'[i].kind \in Pending /\ tickets'[j].kind \in Pending
            /\ tickets'[i].owner = tickets'[j].owner
            => i = j
      BY <1>0, <1>2, <1>12 DEF Holders
    <2> QED BY <1>1, <1>2, <2>1, <2>2, <2>3, <2>4, <2>5 DEF Holders
  <1> QED BY <1>5, <1>6, <1>9, <1>10, <1>15, <1>16, <1>17 DEF IInv

\* Mine finds the one reservation a thread holds.
LEMMA MineIs ==
    ASSUME IInv, NEW p \in Producers, prod[p].pc \in Undone \cup Writing
    PROVE  /\ Mine(p) \in 1 .. Len(tickets) /\ rpc # "down"
           /\ tickets[Mine(p)].owner = p /\ tickets[Mine(p)].kind \in Pending
           /\ tickets[Mine(p)].at = prod[p].cursor /\ tickets[Mine(p)].n = prod[p].need
           /\ prod[p].pc \in Undone => tickets[Mine(p)].kind = "tentative"
           /\ prod[p].pc \in Writing => tickets[Mine(p)].kind = "open"
           /\ prod[p].need \in Needs /\ wt_read_cursor_cache[p] # NoCache
  <1>1. Holders /\ tickets \in Seq(Ticket)
    BY DEF IInv, Types
  <1>2. DOMAIN tickets = 1 .. Len(tickets)
    BY <1>1
  <1>3. PICK i \in 1 .. Len(tickets) :
          \/ prod[p].pc \in Undone /\ Holds(p, prod[p], tickets[i], "tentative")
          \/ prod[p].pc \in Writing /\ Holds(p, prod[p], tickets[i], "open")
    BY <1>1 DEF Holders
  <1>4. tickets[i].owner = p /\ tickets[i].kind \in {"tentative", "open"}
    BY <1>3 DEF Holds
  <1>5. /\ Mine(p) \in 1 .. Len(tickets)
        /\ tickets[Mine(p)].owner = p /\ tickets[Mine(p)].kind \in {"tentative", "open"}
    BY <1>2, <1>4 DEF Mine
  <1>6. Mine(p) = i
    BY <1>1, <1>4, <1>5 DEF Holders, Pending
  <1>7. Undone \cap Writing = {}
    BY DEF Undone, Writing
  <1>8. rpc # "down" /\ prod[p].need \in Needs /\ wt_read_cursor_cache[p] # NoCache
    BY <1>1 DEF Holders, Undone, Writing
  <1> QED BY <1>3, <1>5, <1>6, <1>7, <1>8 DEF Holds, Pending

LEMMA MarkIs ==
    ASSUME tickets \in Seq(Ticket), NEW p, NEW k \in Kinds, Mark(p, k),
           Mine(p) \in 1 .. Len(tickets)
    PROVE  OnlyKind(Mine(p)) /\ tickets'[Mine(p)].kind = k
  <1> DEFINE m == Mine(p)
             t == [tickets[m] EXCEPT !.kind = k]
  <1>1. tickets[m] \in Ticket
    OBVIOUS
  <1>2. /\ t \in Ticket /\ t.kind = k /\ t.owner = tickets[m].owner
        /\ t.at = tickets[m].at /\ t.n = tickets[m].n
    BY <1>1 DEF Ticket
  <1>3. tickets' = [tickets EXCEPT ![m] = t]
    BY DEF Mark
  <1> HIDE DEF t, m
  <1>4. m \in 1 .. Len(tickets)
    BY DEF m
  <1>5. /\ tickets' \in Seq(Ticket) /\ Len(tickets') = Len(tickets) /\ tickets'[m] = t
        /\ \A i \in 1 .. Len(tickets) : i # m => tickets'[i] = tickets[i]
    BY <1>2, <1>3, <1>4
  <1> QED BY <1>2, <1>5 DEF OnlyKind, m

\* The unused head of a reservation that fits, from FreeClean.
LEMMA HeadUnused ==
    ASSUME Geometry, Fits, FreeClean, NEW m \in 1 .. Len(tickets), ~Kept(tickets[m]),
           To(tickets[m], read_cursor) < N
    PROVE  blocks[Index(tickets[m].at)].status = "unused"
  <1> DEFINE r == read_cursor
             d == From(tickets[m], r)
  <1>1. /\ r \in Cursor /\ tickets[m].at \in Cursor /\ d \in Nat /\ To(tickets[m], r) \in Nat
        /\ d < To(tickets[m], r) /\ N \in Nat
    BY InRow, Facts DEF Geometry
  <1>2. d \in 0 .. N - 1
    <2> HIDE DEF d
    <2> QED BY <1>1
  <1>3. \A i \in 1 .. Len(tickets) : Kept(tickets[i]) => ~Covers(tickets[i], r, d)
    <2> SUFFICES ASSUME NEW i \in 1 .. Len(tickets), Kept(tickets[i]), Covers(tickets[i], r, d)
                 PROVE  FALSE
      OBVIOUS
    <2>1. i # m
      OBVIOUS
    <2>2. From(tickets[i], r) < To(tickets[m], r) /\ From(tickets[m], r) < To(tickets[i], r)
      <3>1. From(tickets[i], r) \in Nat /\ To(tickets[i], r) \in Nat
        BY InRow DEF Geometry
      <3> QED BY <1>1, <3>1 DEF Covers
    <2> QED BY <2>1, <2>2, RowOrder DEF Geometry
  <1>4. Plus(r, d) = tickets[m].at
    BY <1>1, Distance DEF From
  <1> QED BY <1>2, <1>3, <1>4 DEF FreeClean, Place

LEMMA RollbackLoadStep ==
    ASSUME IInv, NEW p \in Producers, rollback_load(p)
    PROVE  IInv'
  <1> DEFINE m == Mine(p)
             t == tickets[m]
             r == read_cursor
  <1>0. Types /\ Geometry /\ Holders /\ Fits /\ HeadsRight /\ FreeClean /\ Reader
    BY DEF IInv
  <1>1. /\ prod[p].pc = "rollback" /\ SetView(p) /\ rpc' = rpc /\ blocks' = blocks
        /\ UNCHANGED <<cursors, rpc>>
    BY DEF rollback_load
  <1>2. prod[p].pc \in Undone
    BY <1>1 DEF Undone
  <1>3. /\ m \in 1 .. Len(tickets) /\ rpc # "down"
        /\ t.owner = p /\ t.kind \in Pending /\ t.kind = "tentative"
        /\ t.at = prod[p].cursor /\ t.n = prod[p].need /\ prod[p].need \in Needs
    BY <1>2, MineIs
  <1> HIDE DEF m
  <1>4. /\ wt_read_cursor_cache' \in Views /\ wt_read_cursor_cache'[p] # NoCache
        /\ \A q \in Producers : q # p => wt_read_cursor_cache'[q] = wt_read_cursor_cache[q]
    BY <1>0, <1>1, SetViewIs
  <1>5. CASE Overruns(prod[p].cursor, prod[p].need, r)
    <2>1. Goto(p, "cas") /\ tickets' = tickets
      BY <1>5 DEF rollback_load
    <2>2. "cas" \in Pcs
      BY DEF Pcs
    <2>3. /\ prod' \in [Producers -> Local] /\ prod'[p].pc = "cas"
          /\ prod'[p].need = prod[p].need /\ prod'[p].cursor = prod[p].cursor
          /\ \A q \in Producers : q # p => prod'[q] = prod[q]
      BY <1>0, <2>1, <2>2, GotoIs
    <2>4. Others(p) /\ LocalOK(p)
      BY <1>1, <1>3, <1>4, <2>3 DEF Others, LocalOK
    <2>5. prod'[p].pc \in Undone
      BY <2>3 DEF Undone
    <2>6. UNCHANGED <<blocks, cursors, rpc, tickets>>
      BY <1>1, <2>1
    <2> QED BY <1>2, <2>3, <2>4, <2>5, <2>6, LocalStep
  <1>6. CASE ~Overruns(prod[p].cursor, prod[p].need, r)
    <2>1. Goto(p, "write") /\ Mark(p, "open")
      BY <1>6 DEF rollback_load
    <2>2. "write" \in Pcs /\ "open" \in Kinds
      BY DEF Pcs, Kinds
    <2>3. /\ prod' \in [Producers -> Local] /\ prod'[p].pc = "write"
          /\ prod'[p].need = prod[p].need /\ prod'[p].cursor = prod[p].cursor
          /\ \A q \in Producers : q # p => prod'[q] = prod[q]
      BY <1>0, <2>1, <2>2, GotoIs
    <2>4. Others(p) /\ LocalOK(p)
      BY <1>1, <1>3, <1>4, <2>3 DEF Others, LocalOK
    <2>5. OnlyKind(m) /\ tickets'[m].kind = "open"
      <3>1. tickets \in Seq(Ticket)
        BY <1>0 DEF Types
      <3> QED BY <1>3, <2>1, <2>2, <3>1, MarkIs DEF m
    <2>6. To(t, r) < N
      <3>1. t \in Ticket /\ r \in Cursor /\ To(t, r) < M
        BY <1>0, <1>3, InRow DEF Geometry
      <3>2. Minus(Behind(t), r) = To(t, r) /\ To(t, r) \in Nat
        BY <3>1, TicketType
      <3>3. ~(Minus(Behind(t), r) >= N)
        BY <1>3, <1>6 DEF Overruns, Behind
      <3> QED BY <3>2, <3>3, Facts
    <2>7. blocks[Index(t.at)].status = "unused"
      BY <1>0, <1>3, <2>6, HeadUnused DEF Kept
    <2>8. NewHead(p, tickets'[m])
      BY <1>1, <1>3, <2>3, <2>5, <2>7 DEF NewHead, OnlyKind, Writing
    <2>9. OutsideSame(t) /\ NumbersKept /\ blocks' \in [Slot -> Block]
      BY <1>0, <1>1 DEF OutsideSame, NumbersKept, HeadsRight, Types
    <2> QED BY <1>1, <1>3, <2>4, <2>5, <2>6, <2>8, <2>9, OwnStep
  <1> QED BY <1>5, <1>6

\* A store to the head of a reservation.
LEMMA HeadOnly ==
    ASSUME Geometry, Fits, NEW m \in 1 .. Len(tickets), Kept(tickets[m]),
           \A j \in Slot : j # Index(tickets[m].at) => blocks'[j] = blocks[j]
    PROVE  OutsideSame(tickets[m])
  <1> DEFINE t == tickets[m]
             r == read_cursor
  <1> SUFFICES ASSUME NEW d \in 0 .. N - 1, ~Covers(t, r, d)
               PROVE  blocks'[Place(r, d)] = blocks[Place(r, d)]
    BY DEF OutsideSame
  <1>1. /\ From(t, r) \in 0 .. N - 1 /\ Index(t.at) = Place(r, From(t, r))
        /\ r \in Cursor
    BY HeadPlace, InRow DEF Geometry
  <1>2. d # From(t, r)
    <2>1. From(t, r) \in Nat /\ To(t, r) \in Nat /\ From(t, r) < To(t, r)
      BY InRow DEF Geometry
    <2> QED BY <2>1 DEF Covers
  <1>3. Place(r, d) # Index(t.at)
    BY <1>1, <1>2, PlaceOnce
  <1>4. d \in 0 .. N
    BY Facts
  <1>5. Place(r, d) \in Slot
    BY <1>1, <1>4, PlaceType
  <1> QED BY <1>3, <1>5

LEMMA CommitStep ==
    ASSUME IInv, NEW p \in Producers, commit_write_chunk(p)
    PROVE  IInv'
  <1> DEFINE m == Mine(p)
             t == tickets[m]
             r == read_cursor
  <1>0. Types /\ Geometry /\ Holders /\ Fits /\ HeadsRight /\ FreeClean /\ Reader
    BY DEF IInv
  <1>1. /\ prod[p].pc = "commit" /\ rpc' = rpc
        /\ blocks' = [blocks EXCEPT ![Index(prod[p].cursor)].status = "used"]
        /\ Mark(p, "used") /\ prod' = [prod EXCEPT ![p] = Idle]
        /\ UNCHANGED <<cursors, rpc>> /\ wt_read_cursor_cache' = wt_read_cursor_cache
    BY DEF commit_write_chunk
  <1>2. prod[p].pc \in Writing
    BY <1>1 DEF Writing
  <1>3. /\ m \in 1 .. Len(tickets) /\ rpc # "down"
        /\ t.owner = p /\ t.kind \in Pending /\ t.kind = "open"
        /\ t.at = prod[p].cursor /\ t.n = prod[p].need /\ prod[p].need \in Needs
    BY <1>2, MineIs
  <1> HIDE DEF m
  <1>4. /\ prod' \in [Producers -> Local] /\ prod'[p].pc = "idle"
        /\ \A q \in Producers : q # p => prod'[q] = prod[q]
    BY <1>0, <1>1, IdleIs
  <1>5. Others(p) /\ LocalOK(p)
    <2>1. wt_read_cursor_cache \in Views
      BY <1>0 DEF Types, Views
    <2> QED BY <1>1, <1>3, <1>4, <2>1 DEF Others, LocalOK
  <1>6. OnlyKind(m) /\ tickets'[m].kind = "used"
    <2>1. tickets \in Seq(Ticket)
      BY <1>0 DEF Types
    <2>2. "used" \in Kinds
      BY DEF Kinds
    <2> QED BY <1>1, <1>3, <2>1, <2>2, MarkIs DEF m
  <1>7. Kept(t) /\ To(t, r) < N
    BY <1>0, <1>3 DEF Kept, Fits
  <1>8. /\ From(t, r) \in 0 .. N - 1 /\ Index(t.at) = Place(r, From(t, r))
        /\ Index(t.at) \in Slot
    BY <1>0, <1>3, <1>7, HeadPlace
  <1>9. /\ blocks \in [Slot -> Block] /\ r \in Cursor
        /\ \A j \in Slot : blocks[j].status \in {"used", "invalid"} => blocks[j].block_num # 0
    BY <1>0 DEF Types, HeadsRight
  <1>10. blocks[Index(t.at)].block_num = t.n /\ ~Wraps(t.at, t.n)
    BY <1>0, <1>1, <1>3 DEF HeadsRight
  <1> DEFINE h == Index(t.at)
             b == [blocks[h] EXCEPT !.status = "used"]
  <1>11. b \in Block /\ b.status = "used" /\ b.block_num = t.n
    BY <1>8, <1>9, <1>10 DEF Block, Statuses
  <1>12. blocks' = [blocks EXCEPT ![h] = b]
    BY <1>1, <1>3
  <1> HIDE DEF b, h
  <1>13. /\ blocks' \in [Slot -> Block] /\ blocks'[h] = b
         /\ \A j \in Slot : j # h => blocks'[j] = blocks[j]
    BY <1>8, <1>9, <1>11, <1>12 DEF h
  <1>14. NumbersKept
    <2>1. t.n # 0
      BY <1>3, Facts
    <2> QED BY <1>9, <1>11, <1>13, <2>1 DEF NumbersKept
  <1>15. NewHead(p, tickets'[m])
    BY <1>4, <1>6, <1>10, <1>11, <1>13 DEF NewHead, OnlyKind, h, Settled, Pcs, Undone, Writing
  <1>16. OutsideSame(t)
    BY <1>0, <1>3, <1>7, <1>13, HeadOnly DEF h
  <1> QED BY <1>1, <1>3, <1>5, <1>6, <1>7, <1>13, <1>14, <1>15, <1>16, OwnStep

LEMMA WriteHeadStep ==
    ASSUME IInv, NEW p \in Producers, write_head(p)
    PROVE  IInv'
  <1> DEFINE m == Mine(p)
             t == tickets[m]
             r == read_cursor
  <1>0. Types /\ Geometry /\ Holders /\ Fits /\ HeadsRight /\ FreeClean /\ Reader
    BY DEF IInv
  <1>1. /\ prod[p].pc = "write" /\ rpc' = rpc
        /\ blocks' = [blocks EXCEPT ![Index(prod[p].cursor)] =
             [status |-> IF Wraps(prod[p].cursor, prod[p].need) THEN "invalid" ELSE "unused",
              block_num |-> prod[p].need]]
        /\ Wraps(prod[p].cursor, prod[p].need) => Goto(p, "check") /\ Mark(p, "invalid")
        /\ ~Wraps(prod[p].cursor, prod[p].need) =>
             Goto(p, IF prod[p].low_space_flag THEN "low" ELSE "fill") /\ tickets' = tickets
        /\ UNCHANGED <<cursors, rpc>> /\ wt_read_cursor_cache' = wt_read_cursor_cache
    BY DEF write_head
  <1>2. prod[p].pc \in Writing
    BY <1>1 DEF Writing
  <1>3. /\ m \in 1 .. Len(tickets) /\ rpc # "down"
        /\ t.owner = p /\ t.kind \in Pending /\ t.kind = "open"
        /\ t.at = prod[p].cursor /\ t.n = prod[p].need /\ prod[p].need \in Needs
        /\ wt_read_cursor_cache[p] # NoCache
    BY <1>2, MineIs
  <1>4. tickets \in Seq(Ticket) /\ blocks \in [Slot -> Block] /\ wt_read_cursor_cache \in Views
    BY <1>0 DEF Types, Views
  <1>5. Kept(t) /\ To(t, r) < N
    BY <1>0, <1>3 DEF Kept, Fits
  <1>6. Index(t.at) \in Slot
    BY <1>0, <1>3, <1>5, HeadPlace
  <1>7. t.n \in 0 .. N /\ t.n # 0
    BY <1>3, Facts
  <1> DEFINE h == Index(t.at)
             b == [status |-> IF Wraps(t.at, t.n) THEN "invalid" ELSE "unused", block_num |-> t.n]
  <1>8. /\ b \in Block /\ b.block_num = t.n
        /\ Wraps(t.at, t.n) => b.status = "invalid"
        /\ ~Wraps(t.at, t.n) => b.status = "unused"
    BY <1>7 DEF Block, Statuses
  <1>9. blocks' = [blocks EXCEPT ![h] = b]
    BY <1>1, <1>3
  <1> HIDE DEF b
  <1>10. /\ blocks' \in [Slot -> Block] /\ blocks'[h] = b
         /\ \A j \in Slot : j # h => blocks'[j] = blocks[j]
    BY <1>4, <1>6, <1>8, <1>9
  <1>11. NumbersKept
    BY <1>0, <1>7, <1>8, <1>10 DEF NumbersKept, HeadsRight
  <1>12. OutsideSame(t)
    BY <1>0, <1>3, <1>5, <1>10, HeadOnly
  <1>13. CASE Wraps(t.at, t.n)
    <2>1. Goto(p, "check") /\ Mark(p, "invalid")
      BY <1>1, <1>3, <1>13
    <2>2. "check" \in Pcs /\ "invalid" \in Kinds
      BY DEF Pcs, Kinds
    <2>3. /\ prod' \in [Producers -> Local] /\ prod'[p].pc = "check"
          /\ prod'[p].need = prod[p].need
          /\ \A q \in Producers : q # p => prod'[q] = prod[q]
      BY <1>0, <2>1, <2>2, GotoIs
    <2>4. Others(p) /\ LocalOK(p)
      BY <1>1, <1>3, <1>4, <2>3 DEF Others, LocalOK
    <2>5. OnlyKind(m) /\ tickets'[m].kind = "invalid"
      BY <1>3, <1>4, <2>1, <2>2, MarkIs
    <2> HIDE DEF m
    <2>6. NewHead(p, tickets'[m])
      BY <1>8, <1>10, <1>13, <2>3, <2>5 DEF NewHead, OnlyKind, Settled, Pcs, Undone, Writing
    <2> QED BY <1>1, <1>3, <1>5, <1>10, <1>11, <1>12, <2>4, <2>5, <2>6, OwnStep
  <1>14. CASE ~Wraps(t.at, t.n)
    <2> DEFINE to == IF prod[p].low_space_flag THEN "low" ELSE "fill"
    <2>1. Goto(p, to) /\ tickets' = tickets
      BY <1>1, <1>3, <1>14
    <2>2. to \in Pcs /\ to \in {"low", "fill"}
      BY DEF Pcs
    <2> HIDE DEF to
    <2>3. /\ prod' \in [Producers -> Local] /\ prod'[p].pc = to
          /\ prod'[p].need = prod[p].need /\ prod'[p].cursor = prod[p].cursor
          /\ \A q \in Producers : q # p => prod'[q] = prod[q]
      BY <1>0, <2>1, <2>2, GotoIs
    <2>4. Others(p) /\ LocalOK(p)
      BY <1>1, <1>3, <1>4, <2>3 DEF Others, LocalOK
    <2> HIDE DEF m
    <2>5. OnlyKind(m) /\ tickets'[m].kind = "open"
      BY <1>3, <1>4, <2>1 DEF OnlyKind
    <2>6. NewHead(p, tickets'[m])
      BY <1>3, <1>8, <1>10, <1>14, <2>1, <2>2, <2>3, <2>5 DEF NewHead, Writing
    <2> QED BY <1>1, <1>3, <1>5, <1>10, <1>11, <1>12, <2>4, <2>5, <2>6, OwnStep
  <1> QED BY <1>13, <1>14

LEMMA FillStep ==
    ASSUME IInv, NEW p \in Producers, fill(p)
    PROVE  IInv'
  <1> DEFINE m == Mine(p)
             t == tickets[m]
             r == read_cursor
             h == Index(t.at)
  <1>0. Types /\ Geometry /\ Holders /\ Fits /\ HeadsRight /\ FreeClean /\ Reader
    BY DEF IInv
  <1>1. /\ prod[p].pc = "fill" /\ rpc' = rpc
        /\ blocks' = [j \in Slot |->
             IF j \in Index(prod[p].cursor) + 1 .. Index(prod[p].cursor) + prod[p].need - 1
             THEN [blocks[j] EXCEPT !.status = "data"] ELSE blocks[j]]
        /\ Goto(p, "commit") /\ tickets' = tickets
        /\ UNCHANGED <<cursors, rpc>> /\ wt_read_cursor_cache' = wt_read_cursor_cache
    BY DEF fill
  <1>2. prod[p].pc \in Writing
    BY <1>1 DEF Writing
  <1>3. /\ m \in 1 .. Len(tickets) /\ rpc # "down"
        /\ t.owner = p /\ t.kind \in Pending /\ t.kind = "open"
        /\ t.at = prod[p].cursor /\ t.n = prod[p].need /\ prod[p].need \in Needs
        /\ wt_read_cursor_cache[p] # NoCache
    BY <1>2, MineIs
  <1> HIDE DEF m
  <1>4. tickets \in Seq(Ticket) /\ blocks \in [Slot -> Block] /\ wt_read_cursor_cache \in Views
    BY <1>0 DEF Types, Views
  <1>5. Kept(t) /\ To(t, r) < N
    BY <1>0, <1>3 DEF Kept, Fits
  <1>6. h \in Slot /\ h \in Nat
    BY <1>0, <1>3, <1>5, HeadPlace, Facts DEF Slot
  <1>7. t.n \in Nat /\ t.n >= 1 /\ t.n <= N /\ N \in Nat
    BY <1>3, Facts
  <1>8. /\ blocks[h].status = "unused" /\ blocks[h].block_num = t.n /\ ~Wraps(t.at, t.n)
    BY <1>0, <1>1, <1>3 DEF HeadsRight
  <1>9. /\ "commit" \in Pcs
    BY DEF Pcs
  <1>10. /\ prod' \in [Producers -> Local] /\ prod'[p].pc = "commit"
         /\ prod'[p].need = prod[p].need /\ prod'[p].cursor = prod[p].cursor
         /\ \A q \in Producers : q # p => prod'[q] = prod[q]
    BY <1>0, <1>1, <1>9, GotoIs
  <1>11. Others(p) /\ LocalOK(p)
    BY <1>1, <1>3, <1>4, <1>10 DEF Others, LocalOK
  <1>12. OnlyKind(m) /\ tickets'[m].kind = "open" /\ tickets'[m] = t
    BY <1>1, <1>3, <1>4 DEF OnlyKind
  <1>13. \A j \in Slot : [blocks[j] EXCEPT !.status = "data"] \in Block
           /\ [blocks[j] EXCEPT !.status = "data"].status = "data"
    <2>1. \A j \in Slot : blocks[j] \in Block
      BY <1>4
    <2> QED BY <2>1 DEF Block, Statuses
  <1>14. /\ \A j \in Slot : j \in h + 1 .. h + t.n - 1 =>
              blocks'[j] = [blocks[j] EXCEPT !.status = "data"]
         /\ \A j \in Slot : j \notin h + 1 .. h + t.n - 1 => blocks'[j] = blocks[j]
         /\ blocks' = [j \in Slot |-> blocks'[j]]
    BY <1>1, <1>3
  <1>15. /\ blocks' \in [Slot -> Block]
    <2>1. \A j \in Slot : blocks'[j] \in Block
      BY <1>4, <1>13, <1>14
    <2> QED BY <1>14, <2>1
  <1>16. NumbersKept
    BY <1>0, <1>13, <1>14 DEF NumbersKept, HeadsRight
  <1>17. blocks'[h] = blocks[h]
    BY <1>6, <1>7, <1>14
  <1>18. NewHead(p, tickets'[m])
    BY <1>3, <1>8, <1>10, <1>12, <1>17 DEF NewHead, Writing
  <1>19. OutsideSame(t)
    <2> SUFFICES ASSUME NEW d \in 0 .. N - 1, ~Covers(t, r, d)
                 PROVE  blocks'[Place(r, d)] = blocks[Place(r, d)]
      BY DEF OutsideSame
    <2>1. r \in Cursor /\ t.at \in Cursor /\ From(t, r) \in Nat /\ To(t, r) = From(t, r) + t.n
      BY <1>0, <1>3, InRow DEF Geometry
    <2>2. d \in 0 .. N /\ d \in Nat
      BY <1>7
    <2>3. Place(r, d) \in Slot
      BY <2>1, <2>2, PlaceType
    <2>4. Place(r, d) \notin h + 1 .. h + t.n - 1
      <3> SUFFICES ASSUME Place(r, d) \in h + 1 .. h + t.n - 1 PROVE FALSE
        OBVIOUS
      <3>1. PICK k \in 1 .. t.n - 1 : Place(r, d) = h + k
        <4>1. Place(r, d) - h \in 1 .. t.n - 1 /\ Place(r, d) = h + (Place(r, d) - h)
          BY <1>6, <1>7
        <4> QED BY <4>1
      <3>2. k \in 0 .. N /\ h + k < N
        BY <1>6, <1>7, <1>8 DEF Wraps
      <3>3. Index(Plus(t.at, k)) = h + k /\ Plus(t.at, k) \in Cursor
        BY <2>1, <3>2, IndexPlus
      <3>4. Minus(t.at, r) = From(t, r)
        BY DEF From
      <3>5. From(t, r) + k \in 0 .. N - 1
        BY <1>5, <1>7, <2>1, <3>1
      <3>6. Minus(t.at, r) + k < M
        BY <2>1, <3>4, <3>5, Facts
      <3>7. Minus(Plus(t.at, k), r) = From(t, r) + k
        BY <2>1, <3>2, <3>4, <3>6, PlusDistance
      <3>8. Plus(r, From(t, r) + k) = Plus(t.at, k)
        BY <2>1, <3>3, <3>7, Distance
      <3>9. Place(r, From(t, r) + k) = Place(r, d)
        BY <3>1, <3>3, <3>8 DEF Place
      <3>10. From(t, r) + k = d
        BY <2>1, <3>5, <3>9, PlaceOnce
      <3> QED BY <1>7, <2>1, <2>2, <3>1, <3>10 DEF Covers
    <2> QED BY <1>14, <2>3, <2>4
  <1> QED BY <1>1, <1>3, <1>5, <1>11, <1>12, <1>15, <1>16, <1>18, <1>19, OwnStep

LEMMA RemoveLast ==
    ASSUME NEW S, NEW s \in Seq(S), NEW l, l = Len(s), l # 0
    PROVE  /\ RemoveAt(s, l) \in Seq(S) /\ Len(RemoveAt(s, l)) = l - 1
           /\ \A i \in 1 .. l - 1 : RemoveAt(s, l)[i] = s[i]
  <1> DEFINE f == SubSeq(s, 1, l - 1)
             g == SubSeq(s, l + 1, l)
  <1>1. l \in Nat /\ l >= 1
    OBVIOUS
  <1>2. f \in Seq(S) /\ Len(f) = l - 1 /\ \A i \in 1 .. l - 1 : f[i] = s[i]
    BY <1>1
  <1>3. g \in Seq(S) /\ Len(g) = 0
    BY <1>1
  <1>4. RemoveAt(s, l) = f \o g
    BY DEF RemoveAt
  <1> HIDE DEF f, g
  <1>5. f \o g \in Seq(S) /\ Len(f \o g) = l - 1 /\ \A i \in 1 .. l - 1 : (f \o g)[i] = f[i]
    BY <1>1, <1>2, <1>3
  <1> QED BY <1>2, <1>4, <1>5

LEMMA RollbackCasStep ==
    ASSUME IInv, NEW p \in Producers, rollback_cas(p)
    PROVE  IInv'
  <1> DEFINE m == Mine(p)
             t == tickets[m]
             r == read_cursor
             L == Len(tickets)
  <1>0. Types /\ Geometry /\ Holders /\ Fits /\ HeadsRight /\ FreeClean /\ Reader
    BY DEF IInv
  <1>1. /\ prod[p].pc = "cas" /\ rpc' = rpc /\ blocks' = blocks
        /\ read_cursor' = r /\ read_cursor_cache' = read_cursor_cache
        /\ read_cursor_start_cache' = read_cursor_start_cache
        /\ wt_read_cursor_cache' = wt_read_cursor_cache
    BY DEF rollback_cas
  <1>2. prod[p].pc \in Undone
    BY <1>1 DEF Undone
  <1>3. /\ m \in 1 .. L /\ rpc # "down"
        /\ t.owner = p /\ t.kind = "tentative"
        /\ t.at = prod[p].cursor /\ t.n = prod[p].need /\ prod[p].need \in Needs
        /\ wt_read_cursor_cache[p] # NoCache
    BY <1>2, MineIs
  <1>4. tickets \in Seq(Ticket) /\ wt_read_cursor_cache \in Views /\ L \in Nat /\ r \in Cursor
        /\ write_cursor \in Cursor
    BY <1>0 DEF Types, Views
  <1>5. CASE write_cursor # NextCursor(p)
    <2>1. Goto(p, "rollback") /\ tickets' = tickets /\ write_cursor' = write_cursor
      BY <1>5 DEF rollback_cas
    <2>2. "rollback" \in Pcs
      BY DEF Pcs
    <2>3. /\ prod' \in [Producers -> Local] /\ prod'[p].pc = "rollback"
          /\ prod'[p].need = prod[p].need /\ prod'[p].cursor = prod[p].cursor
          /\ \A q \in Producers : q # p => prod'[q] = prod[q]
      BY <1>0, <2>1, <2>2, GotoIs
    <2>4. Others(p) /\ LocalOK(p)
      BY <1>1, <1>3, <1>4, <2>3 DEF Others, LocalOK
    <2>5. prod'[p].pc \in Undone
      BY <2>3 DEF Undone
    <2>6. UNCHANGED <<blocks, cursors, rpc, tickets>>
      BY <1>1, <2>1 DEF cursors
    <2> QED BY <1>2, <2>3, <2>4, <2>5, <2>6, LocalStep
  <1>6. CASE write_cursor = NextCursor(p)
    <2>1. /\ write_cursor' = t.at /\ tickets' = RemoveAt(tickets, m)
          /\ prod' = [prod EXCEPT ![p] = Idle]
      BY <1>3, <1>6 DEF rollback_cas, Fail
    <2> HIDE DEF m
    <2>2. /\ t \in Ticket /\ t.at \in Cursor /\ To(t, r) < M /\ To(t, r) \in Nat
          /\ tickets[L] \in Ticket /\ To(tickets[L], r) \in Nat
          /\ From(tickets[L], r) < To(tickets[L], r) /\ From(tickets[L], r) \in Nat
          /\ L \in 1 .. L
      <3>1. L \in 1 .. L
        BY <1>3, <1>4
      <3> QED BY <1>0, <1>3, <3>1, InRow DEF Geometry
    <2>3. m = L
      <3>1. To(t, r) = Minus(write_cursor, r)
        <4>1. Behind(t) = write_cursor
          BY <1>3, <1>6 DEF Behind, NextCursor
        <4> QED BY <1>4, <2>2, <4>1, TicketType
      <3>2. To(tickets[L], r) = Minus(write_cursor, r)
        BY <1>0, <2>2 DEF Geometry, Gapless
      <3>3. m < L => To(t, r) <= From(tickets[L], r)
        BY <1>0, <1>3, <2>2, RowOrder DEF Geometry
      <3> QED BY <1>3, <1>4, <2>2, <3>1, <3>2, <3>3
    <2>4. /\ tickets' \in Seq(Ticket) /\ Len(tickets') = L - 1
          /\ \A i \in 1 .. L - 1 : tickets'[i] = tickets[i]
      BY <1>3, <1>4, <2>1, <2>3, RemoveLast
    <2>5. \A i \in 1 .. L : i \in 1 .. L - 1 \/ i = m
      BY <1>4, <2>3
    <2>6. \A i \in 1 .. L - 1 : i \in 1 .. L /\ i # m
      BY <1>4, <2>3
    <2>7. Geometry'
      <3> DEFINE s == tickets[1].at
      <3>1. 1 \in 1 .. L /\ L # 0
        BY <1>4, <2>2
      <3>2. s \in Cursor
        BY <1>0, <3>1, InRow DEF Geometry
      <3>3. s = r
        <4>1. Minus(s, r) = 0
          BY <1>0, <3>1 DEF Geometry, Gapless, From
        <4> QED BY <1>4, <3>2, <4>1, Distance
      <3>4. Gapless(tickets, r, write_cursor)
        BY <1>0 DEF Geometry
      <3> DEFINE a == 1
                 b == L - 1
      <3>5. a \in 1 .. L + 1 /\ b \in 0 .. L /\ a <= b + 1 /\ b - a + 1 = L - 1
            /\ b < L /\ b + 1 = m /\ a <= L
        BY <1>4, <2>2, <2>3
      <3>6. \A i \in 1 .. b - a + 1 : tickets'[i] = tickets[a - 1 + i]
        BY <2>4
      <3>7. s = IF a <= L THEN tickets[a].at ELSE write_cursor
        BY <3>5
      <3>8. t.at = IF b < L THEN tickets[b + 1].at ELSE write_cursor
        BY <3>5
      <3>9. Len(tickets') = b - a + 1
        BY <2>4, <3>5
      <3> HIDE DEF a, b, s
      <3>10. Gapless(tickets', s, t.at)
        <4>1. a \in 1 .. Len(tickets) + 1
          BY <3>5
        <4>2. b \in 0 .. Len(tickets)
          BY <3>5
        <4>3. a <= b + 1
          BY <3>5
        <4>4. tickets' \in Seq(Ticket)
          BY <2>4
        <4>5. t.at \in Cursor
          BY <2>2
        <4> HIDE DEF t
        <4> QED BY <3>2, <3>4, <3>6, <3>7, <3>8, <3>9, <4>1, <4>2, <4>3, <4>4, <4>5, PartOfRow
      <3> QED BY <1>1, <2>1, <3>3, <3>10 DEF Geometry
    <2>8. /\ prod' \in [Producers -> Local] /\ prod'[p].pc = "idle"
          /\ \A q \in Producers : q # p => prod'[q] = prod[q]
      BY <1>0, <2>1, IdleIs
    <2>9. Types'
      BY <1>0, <1>1, <2>1, <2>2, <2>4, <2>8 DEF Types
    <2>10. Fits'
      BY <1>0, <1>1, <2>4, <2>6 DEF Fits
    <2>11. FreeClean'
      <3>1. ~Kept(t)
        BY <1>3 DEF Kept
      <3> QED BY <1>0, <1>1, <2>4, <2>5, <3>1 DEF FreeClean
    <2>12. Reader'
      <3>1. \A i \in 1 .. L : tickets[i].kind # "tentative" => i \in 1 .. L - 1
        BY <1>3, <2>5
      <3> QED BY <1>0, <1>1, <2>4, <2>6, <3>1 DEF Reader
    <2>13. \A i \in 1 .. L : tickets[i].owner \in Producers
      <3>1. \A i \in 1 .. L : tickets[i] \in Ticket
        BY <1>4
      <3> QED BY <3>1 DEF Ticket
    <2>14. \A i \in 1 .. L - 1 : tickets[i].kind \in Pending =>
             /\ tickets[i].owner # p /\ prod'[tickets[i].owner] = prod[tickets[i].owner]
      <3> SUFFICES ASSUME NEW i \in 1 .. L - 1, tickets[i].kind \in Pending
                   PROVE  tickets[i].owner # p
        BY <2>6, <2>8, <2>13
      <3>1. i \in 1 .. L /\ i # m /\ t.kind \in Pending
        BY <1>3, <2>6 DEF Pending
      <3> QED BY <1>0, <1>3, <3>1 DEF Holders
    <2>15. HeadsRight'
      <3>1. \A i \in 1 .. L - 1 : tickets'[i] = tickets[i] /\ i \in 1 .. L
        BY <2>4, <2>6
      <3>2. \A i \in 1 .. L - 1 : tickets[i].kind = "open" =>
              prod'[tickets[i].owner] = prod[tickets[i].owner]
        BY <2>14 DEF Pending
      <3>3. \A i \in 1 .. L - 1 : tickets[i].kind = "open" =>
              /\ blocks[Index(tickets[i].at)].status = "unused"
              /\ prod'[tickets[i].owner].pc \in {"low", "fill", "commit"} =>
                   /\ blocks[Index(tickets[i].at)].block_num = tickets[i].n
                   /\ ~Wraps(tickets[i].at, tickets[i].n)
        BY <1>0, <3>1, <3>2 DEF HeadsRight
      <3>4. /\ \A i \in 1 .. L - 1 : tickets[i].kind = "used" =>
                 /\ blocks[Index(tickets[i].at)].status = "used"
                 /\ blocks[Index(tickets[i].at)].block_num = tickets[i].n
                 /\ ~Wraps(tickets[i].at, tickets[i].n)
            /\ \A i \in 1 .. L - 1 : tickets[i].kind = "invalid" =>
                 /\ blocks[Index(tickets[i].at)].block_num = tickets[i].n
                 /\ Wraps(tickets[i].at, tickets[i].n)
                 /\ \/ blocks[Index(tickets[i].at)].status = "invalid"
                    \/ /\ blocks[Index(tickets[i].at)].status = "unused"
                       /\ tickets[i].at = read_cursor_cache /\ rpc \in {"skip", "down"}
            /\ \A j \in Slot : blocks[j].status \in {"used", "invalid"} => blocks[j].block_num # 0
        BY <1>0, <3>1 DEF HeadsRight
      <3> QED BY <1>1, <2>4, <3>1, <3>3, <3>4, SMTT(30) DEF HeadsRight
    <2>16. Holders'
      <3>1. \A q \in Producers :
              /\ prod'[q].pc # "idle" => prod'[q].need \in Needs
              /\ prod'[q].pc \notin {"idle", "view"} => wt_read_cursor_cache'[q] # NoCache
        BY <1>0, <1>1, <2>8 DEF Holders
      <3>2. \A q \in Producers, k \in Pending :
              q # p => \A i \in 1 .. L :
                Holds(q, prod[q], tickets[i], k) => i \in 1 .. L - 1 /\ Holds(q, prod'[q], tickets'[i], k)
        <4> SUFFICES ASSUME NEW q \in Producers, NEW k \in Pending, q # p,
                            NEW i \in 1 .. L, Holds(q, prod[q], tickets[i], k)
                     PROVE  i \in 1 .. L - 1 /\ Holds(q, prod'[q], tickets'[i], k)
          OBVIOUS
        <4>1. i # m
          BY <1>3 DEF Holds
        <4>2. i \in 1 .. L - 1
          BY <2>5, <4>1
        <4> QED BY <2>4, <2>8, <4>2
      <3>3. \A q \in Producers : prod'[q].pc \in Undone =>
              \E i \in 1 .. L - 1 : Holds(q, prod'[q], tickets'[i], "tentative")
        BY <1>0, <2>8, <3>2 DEF Holders, Undone, Pending
      <3>4. \A q \in Producers : prod'[q].pc \in Writing =>
              \E i \in 1 .. L - 1 : Holds(q, prod'[q], tickets'[i], "open")
        BY <1>0, <2>8, <3>2 DEF Holders, Writing, Pending
      <3>5. \A i \in 1 .. L - 1 :
              /\ tickets'[i].kind = "tentative" => prod'[tickets'[i].owner].pc \in Undone
              /\ tickets'[i].kind = "open" => prod'[tickets'[i].owner].pc \in Writing
        <4>1. \A i \in 1 .. L - 1 : tickets'[i] = tickets[i] /\ i \in 1 .. L
          BY <2>4, <2>6
        <4>2. \A i \in 1 .. L - 1 : tickets[i].kind \in {"tentative", "open"} =>
                prod'[tickets[i].owner] = prod[tickets[i].owner]
          BY <2>14 DEF Pending
        <4>3. \A i \in 1 .. L :
                /\ tickets[i].kind = "tentative" => prod[tickets[i].owner].pc \in Undone
                /\ tickets[i].kind = "open" => prod[tickets[i].owner].pc \in Writing
          BY <1>0, <1>3 DEF Holders
        <4> QED BY <4>1, <4>2, <4>3
      <3>6. \A i, j \in 1 .. L - 1 :
              /\ tickets'[i].kind \in Pending /\ tickets'[j].kind \in Pending
              /\ tickets'[i].owner = tickets'[j].owner
              => i = j
        BY <1>0, <2>4, <2>6 DEF Holders
      <3> QED BY <1>1, <1>3, <2>4, <3>1, <3>3, <3>4, <3>5, <3>6 DEF Holders
    <2> QED BY <2>7, <2>9, <2>10, <2>11, <2>12, <2>15, <2>16 DEF IInv
  <1> QED BY <1>5, <1>6

LEMMA ProducerStep ==
    ASSUME IInv, ViewsFresh, NEW p \in Producers, producer(p) \/ tls_recycled(p)
    PROVE  IInv'
  <1>1. CASE load_read_cursor(p) \/ confirm_low_space(p)
    BY <1>1, LoadReadCursorStep
  <1>2. CASE reload_view(p)
    BY <1>2, ReloadViewStep
  <1>3. CASE reserve(p)
    BY <1>3, ReserveStep
  <1>4. CASE rollback_load(p)
    BY <1>4, RollbackLoadStep
  <1>5. CASE rollback_cas(p)
    BY <1>5, RollbackCasStep
  <1>6. CASE write_head(p)
    BY <1>6, WriteHeadStep
  <1>7. CASE fill(p)
    BY <1>7, FillStep
  <1>8. CASE commit_write_chunk(p)
    BY <1>8, CommitStep
  <1>9. CASE tls_recycled(p)
    BY <1>9, TlsRecycledStep
  <1> QED BY <1>1, <1>2, <1>3, <1>4, <1>5, <1>6, <1>7, <1>8, <1>9 DEF producer, alloc_step

-----------------------------------------------------------------------------
(* The consumer *)

\* A place that no kept reservation reaches over is free, or one begins there.
LEMMA AtBoundary ==
    ASSUME IInv, NEW d \in 0 .. N - 1,
           \A i \in 1 .. Len(tickets) : Kept(tickets[i]) =>
              To(tickets[i], read_cursor) <= d \/ d <= From(tickets[i], read_cursor)
    PROVE  \/ blocks[Place(read_cursor, d)].status = "unused"
           \/ \E i \in 1 .. Len(tickets) :
                /\ Kept(tickets[i]) /\ From(tickets[i], read_cursor) = d
                /\ Index(tickets[i].at) = Place(read_cursor, d)
  <1>1. CASE \A i \in 1 .. Len(tickets) : Kept(tickets[i]) => ~Covers(tickets[i], read_cursor, d)
    BY <1>1 DEF IInv, FreeClean
  <1>2. ASSUME NEW i \in 1 .. Len(tickets), Kept(tickets[i]), Covers(tickets[i], read_cursor, d)
        PROVE  /\ Kept(tickets[i]) /\ From(tickets[i], read_cursor) = d
               /\ Index(tickets[i].at) = Place(read_cursor, d)
    <2>1. From(tickets[i], read_cursor) \in Nat /\ To(tickets[i], read_cursor) \in Nat
      BY InRow DEF IInv, Geometry
    <2>2. From(tickets[i], read_cursor) = d
      BY <1>2, <2>1 DEF Covers
    <2> QED BY <1>2, <2>2, HeadPlace DEF IInv
  <1> QED BY <1>1, <1>2

\* What the consumer finds at its cursor.
LEMMA AtCursor ==
    ASSUME IInv
    PROVE  /\ Minus(read_cursor_cache, read_cursor) \in 0 .. N - 1
           /\ Index(read_cursor_cache) = Place(read_cursor, Minus(read_cursor_cache, read_cursor))
           /\ Index(read_cursor_cache) \in Slot
           /\ \/ Head_.status = "unused"
              \/ \E i \in 1 .. Len(tickets) :
                   /\ tickets[i].at = read_cursor_cache
                   /\ \/ tickets[i].kind = "used" /\ Head_.status = "used"
                      \/ tickets[i].kind = "invalid" /\ Head_.status = "invalid"
                   /\ Head_.block_num = tickets[i].n
  <1> DEFINE r == read_cursor
             c == read_cursor_cache
             D == Minus(c, r)
  <1>0. Types /\ Geometry /\ Holders /\ Fits /\ HeadsRight /\ FreeClean /\ Reader
    BY DEF IInv
  <1>1. r \in Cursor /\ c \in Cursor
    BY <1>0 DEF Types
  <1>2. D \in Nat /\ Plus(r, D) = c /\ (D = 0 <=> c = r) /\ N \in Nat /\ N >= 2
    BY <1>1, Distance, Facts
  <1>3. D < N
    <2>1. CASE c = r
      <3> HIDE DEF D
      <3> QED BY <1>2, <2>1
    <2>2. CASE \E i \in 1 .. Len(tickets) : tickets[i].kind = "read" /\ To(tickets[i], r) = D
      BY <1>0, <2>2 DEF Fits, Kept
    <2> QED BY <1>0, <2>1, <2>2 DEF Reader
  <1>4. D \in 0 .. N - 1
    <2> HIDE DEF D
    <2> QED BY <1>2, <1>3
  <1>5. Index(c) = Place(r, D)
    BY <1>2 DEF Place
  <1>6. \A i \in 1 .. Len(tickets) :
          /\ tickets[i].kind = "read" => To(tickets[i], r) <= D
          /\ tickets[i].kind # "read" => D <= From(tickets[i], r)
    BY <1>0, <1>1, ReaderBehind
  <1>7. \A i \in 1 .. Len(tickets) : Kept(tickets[i]) =>
          To(tickets[i], r) <= D \/ D <= From(tickets[i], r)
    BY <1>6
  <1>8. ASSUME NEW i \in 1 .. Len(tickets), Kept(tickets[i]), From(tickets[i], r) = D
        PROVE  /\ tickets[i].at = c /\ tickets[i].kind \in {"open", "used", "invalid"}
    <2>1. tickets[i].at \in Cursor /\ tickets[i] \in Ticket
          /\ From(tickets[i], r) \in Nat /\ To(tickets[i], r) \in Nat
          /\ From(tickets[i], r) < To(tickets[i], r)
      BY <1>0, InRow DEF Geometry
    <2>2. tickets[i].at = c
      BY <1>1, <1>8, <2>1, SameDistance DEF From
    <2>3. tickets[i].kind # "read"
      BY <1>0, <1>2, <1>8 DEF Reader
    <2>4. tickets[i].kind \in Kinds
      BY <2>1 DEF Ticket
    <2> QED BY <1>8, <2>2, <2>3, <2>4 DEF Kept, Kinds
  <1>9. \/ Head_.status = "unused"
        \/ \E i \in 1 .. Len(tickets) : Kept(tickets[i]) /\ From(tickets[i], r) = D
    BY <1>4, <1>5, <1>7, AtBoundary DEF Head_
  <1>10. ASSUME NEW i \in 1 .. Len(tickets), tickets[i].at = c,
                tickets[i].kind \in {"open", "used", "invalid"}, Head_.status # "unused"
         PROVE  /\ \/ tickets[i].kind = "used" /\ Head_.status = "used"
                   \/ tickets[i].kind = "invalid" /\ Head_.status = "invalid"
                /\ Head_.block_num = tickets[i].n
    BY <1>0, <1>10 DEF HeadsRight, Head_
  <1>11. Index(c) \in Slot
    BY <1>1, IndexType
  <1> QED BY <1>4, <1>5, <1>8, <1>9, <1>10, <1>11

\* The consumer takes up or puts away a handle.
LEMMA HandleStep ==
    ASSUME IInv, rpc \in {"idle", "lent", "empty"}, rpc' \in {"idle", "lent", "empty"},
           UNCHANGED <<blocks, cursors, prod, wt_read_cursor_cache, tickets>>,
           rpc' = "lent" => \E i \in 1 .. Len(tickets) :
               tickets[i].kind = "used" /\ tickets[i].at = read_cursor_cache
    PROVE  IInv'
  <1>0. Types /\ Geometry /\ Holders /\ Fits /\ HeadsRight /\ FreeClean /\ Reader
    BY DEF IInv
  <1>1. /\ blocks' = blocks /\ tickets' = tickets /\ prod' = prod
        /\ wt_read_cursor_cache' = wt_read_cursor_cache
        /\ write_cursor' = write_cursor /\ read_cursor' = read_cursor
        /\ read_cursor_cache' = read_cursor_cache
        /\ read_cursor_start_cache' = read_cursor_start_cache
    BY DEF cursors
  <1>2. Types' /\ Geometry' /\ Fits' /\ FreeClean'
    BY <1>0, <1>1 DEF Types, Geometry, Fits, FreeClean
  <1>3. Holders'
    BY <1>0, <1>1 DEF Holders
  <1>4. HeadsRight'
    BY <1>0, <1>1 DEF HeadsRight
  <1>5. Reader'
    BY <1>0, <1>1 DEF Reader
  <1> QED BY <1>2, <1>3, <1>4, <1>5 DEF IInv

LEMMA CrashStep ==
    ASSUME IInv, crash
    PROVE  IInv'
  <1>0. Types /\ Geometry /\ Holders /\ Fits /\ HeadsRight /\ FreeClean /\ Reader
    BY DEF IInv
  <1>1. /\ blocks' = blocks /\ tickets' = tickets /\ rpc' = "down" /\ rpc # "down"
        /\ prod' = [p \in Producers |-> Idle]
        /\ wt_read_cursor_cache' = [p \in Producers |-> NoCache]
        /\ write_cursor' = write_cursor /\ read_cursor' = read_cursor
        /\ read_cursor_cache' = read_cursor_cache
        /\ read_cursor_start_cache' = read_cursor_start_cache
    BY DEF cursors, crash
  <1>2. Idle \in Local /\ Idle.pc = "idle"
    <2>1. 0 \in Cursor
      BY Facts DEF Cursor
    <2> QED BY <2>1 DEF Idle, Local, Pcs
  <1>3. /\ prod' \in [Producers -> Local] /\ \A p \in Producers : prod'[p].pc = "idle"
        /\ wt_read_cursor_cache' \in Views
    BY <1>1, <1>2 DEF Views
  <1>4. Types' /\ Geometry' /\ Fits' /\ FreeClean'
    BY <1>0, <1>1, <1>3 DEF Types, Geometry, Fits, FreeClean, Views
  <1>5. Holders'
    BY <1>0, <1>1, <1>3 DEF Holders, Undone, Writing
  <1>6. \A i \in 1 .. Len(tickets) : prod'[tickets[i].owner].pc = "idle"
    <2>1. \A i \in 1 .. Len(tickets) : tickets[i] \in Ticket
      BY <1>0 DEF Types
    <2> QED BY <1>3, <2>1 DEF Ticket
  <1>7. HeadsRight'
    BY <1>0, <1>1, <1>6 DEF HeadsRight
  <1>8. Reader'
    BY <1>0, <1>1 DEF Reader
  <1> QED BY <1>4, <1>5, <1>7, <1>8 DEF IInv

LEMMA ReadChunkStep ==
    ASSUME IInv, read_chunk
    PROVE  IInv'
  <1> DEFINE r == read_cursor
             c == read_cursor_cache
             h == Index(c)
             L == Len(tickets)
  <1>0. Types /\ Geometry /\ Holders /\ Fits /\ HeadsRight /\ FreeClean /\ Reader
    BY DEF IInv
  <1>1. /\ rpc = "idle" /\ UNCHANGED <<cursors, prod, wt_read_cursor_cache, tickets>>
        /\ Head_.status = "used" => rpc' = "lent" /\ blocks' = blocks
        /\ Head_.status = "invalid" =>
             rpc' = "skip" /\ blocks' = [blocks EXCEPT ![h].status = "unused"]
        /\ Head_.status \notin {"used", "invalid"} => rpc' = "empty" /\ blocks' = blocks
    BY DEF read_chunk
  <1>2. /\ h \in Slot
        /\ \/ Head_.status = "unused"
           \/ \E i \in 1 .. L :
                /\ tickets[i].at = c
                /\ \/ tickets[i].kind = "used" /\ Head_.status = "used"
                   \/ tickets[i].kind = "invalid" /\ Head_.status = "invalid"
                /\ Head_.block_num = tickets[i].n
    BY AtCursor
  <1>3. CASE Head_.status = "used"
    <2>1. \E i \in 1 .. L : tickets[i].kind = "used" /\ tickets[i].at = c
      BY <1>2, <1>3
    <2>2. rpc \in {"idle", "lent", "empty"} /\ rpc' \in {"idle", "lent", "empty"}
          /\ UNCHANGED <<blocks, cursors, prod, wt_read_cursor_cache, tickets>>
      BY <1>1, <1>3
    <2> QED BY <2>1, <2>2, HandleStep
  <1>4. CASE Head_.status \notin {"used", "invalid"}
    <2>1. rpc \in {"idle", "lent", "empty"} /\ rpc' \in {"idle", "lent", "empty"} /\ rpc' # "lent"
          /\ UNCHANGED <<blocks, cursors, prod, wt_read_cursor_cache, tickets>>
      BY <1>1, <1>4
    <2> QED BY <2>1, HandleStep
  <1>5. CASE Head_.status = "invalid"
    <2>1. PICK i \in 1 .. L : /\ tickets[i].at = c /\ tickets[i].kind = "invalid"
                              /\ Head_.block_num = tickets[i].n
      BY <1>2, <1>5
    <2>2. /\ rpc' = "skip" /\ tickets' = tickets /\ prod' = prod
          /\ wt_read_cursor_cache' = wt_read_cursor_cache
          /\ write_cursor' = write_cursor /\ read_cursor' = r /\ read_cursor_cache' = c
          /\ read_cursor_start_cache' = read_cursor_start_cache
      BY <1>1, <1>5 DEF cursors
    <2>3. blocks \in [Slot -> Block]
      BY <1>0 DEF Types
    <2> DEFINE b == [blocks[h] EXCEPT !.status = "unused"]
    <2>4. b \in Block /\ b.status = "unused" /\ b.block_num = tickets[i].n
      BY <1>2, <2>1, <2>3 DEF Block, Statuses, Head_
    <2>5. blocks' = [blocks EXCEPT ![h] = b]
      BY <1>1, <1>5
    <2> HIDE DEF b
    <2>6. /\ blocks' \in [Slot -> Block] /\ blocks'[h] = b
          /\ \A j \in Slot : j # h => blocks'[j] = blocks[j]
      BY <1>2, <2>3, <2>4, <2>5
    <2>7. Types' /\ Geometry' /\ Fits'
      BY <1>0, <2>2, <2>6 DEF Types, Geometry, Fits
    <2>8. Holders'
      BY <1>0, <1>1, <2>2 DEF Holders
    <2>9. \A d \in 0 .. N - 1 : Place(r, d) \in Slot
      <3>1. \A d \in 0 .. N - 1 : d \in 0 .. N
        BY Facts
      <3>2. r \in Cursor
        BY <1>0 DEF Types
      <3> QED BY <3>1, <3>2, PlaceType
    <2>10. FreeClean'
      BY <1>0, <2>2, <2>4, <2>6, <2>9 DEF FreeClean
    <2>11. Reader'
      <3>1. /\ \A k \in 1 .. L : (tickets[k].kind = "read") <=> From(tickets[k], r) < Minus(c, r)
            /\ \/ c = r
               \/ \E k \in 1 .. L : tickets[k].kind = "read" /\ To(tickets[k], r) = Minus(c, r)
            /\ read_cursor_start_cache = r
        BY <1>0, <1>1 DEF Reader
      <3> QED BY <2>1, <2>2, <3>1 DEF Reader
    <2>12. ASSUME NEW k \in 1 .. L, k # i, Kept(tickets[k])
           PROVE  blocks'[Index(tickets[k].at)] = blocks[Index(tickets[k].at)]
      <3>1. /\ From(tickets[k], r) \in 0 .. N - 1
            /\ Index(tickets[k].at) = Place(r, From(tickets[k], r))
            /\ Index(tickets[k].at) \in Slot
        BY <1>0, <2>12, HeadPlace
      <3>2. Kept(tickets[i])
        BY <2>1 DEF Kept
      <3>3. /\ From(tickets[i], r) \in 0 .. N - 1
            /\ Index(tickets[i].at) = Place(r, From(tickets[i], r))
        BY <1>0, <3>2, HeadPlace
      <3>4. r \in Cursor
        BY <1>0 DEF Types
      <3>5. Index(tickets[k].at) = h => From(tickets[k], r) = From(tickets[i], r)
        BY <2>1, <3>1, <3>3, <3>4, PlaceOnce
      <3>6. From(tickets[k], r) = From(tickets[i], r) => tickets[k].at = tickets[i].at
        <4>1. tickets[k].at \in Cursor /\ tickets[i].at \in Cursor
          BY <1>0, InRow DEF Geometry
        <4> QED BY <3>4, <4>1, SameDistance DEF From
      <3>7. tickets[k].at = tickets[i].at => k = i
        BY <1>0, RowOrder DEF Geometry
      <3> QED BY <2>6, <2>12, <3>1, <3>5, <3>6, <3>7
    <2>13. HeadsRight'
      <3>1. \A k \in 1 .. L : tickets[k].kind = "used" =>
              /\ blocks'[Index(tickets[k].at)].status = "used"
              /\ blocks'[Index(tickets[k].at)].block_num = tickets[k].n
              /\ ~Wraps(tickets[k].at, tickets[k].n)
        BY <1>0, <2>1, <2>12 DEF HeadsRight, Kept
      <3>2. \A k \in 1 .. L : tickets[k].kind = "invalid" =>
              /\ blocks'[Index(tickets[k].at)].block_num = tickets[k].n
              /\ Wraps(tickets[k].at, tickets[k].n)
              /\ \/ blocks'[Index(tickets[k].at)].status = "invalid"
                 \/ blocks'[Index(tickets[k].at)].status = "unused" /\ tickets[k].at = c
        <4> SUFFICES ASSUME NEW k \in 1 .. L, tickets[k].kind = "invalid"
                     PROVE  /\ blocks'[Index(tickets[k].at)].block_num = tickets[k].n
                            /\ Wraps(tickets[k].at, tickets[k].n)
                            /\ \/ blocks'[Index(tickets[k].at)].status = "invalid"
                               \/ blocks'[Index(tickets[k].at)].status = "unused" /\ tickets[k].at = c
          OBVIOUS
        <4>1. CASE k = i
          <5>1. Wraps(tickets[k].at, tickets[k].n)
            BY <1>0 DEF HeadsRight
          <5> QED BY <2>1, <2>4, <2>6, <4>1, <5>1
        <4>2. CASE k # i
          BY <1>0, <1>1, <2>12, <4>2 DEF HeadsRight, Kept
        <4> QED BY <4>1, <4>2
      <3>3. \A k \in 1 .. L : tickets[k].kind = "open" =>
              /\ blocks'[Index(tickets[k].at)].status = "unused"
              /\ prod[tickets[k].owner].pc \in {"low", "fill", "commit"} =>
                   /\ blocks'[Index(tickets[k].at)].block_num = tickets[k].n
                   /\ ~Wraps(tickets[k].at, tickets[k].n)
        BY <1>0, <2>1, <2>12 DEF HeadsRight, Kept
      <3>4. \A j \in Slot : blocks'[j].status \in {"used", "invalid"} => blocks'[j].block_num # 0
        BY <1>0, <2>4, <2>6 DEF HeadsRight
      <3> QED BY <2>2, <3>1, <3>2, <3>3, <3>4 DEF HeadsRight
    <2> QED BY <2>7, <2>8, <2>10, <2>11, <2>13 DEF IInv
  <1> QED BY <1>3, <1>4, <1>5

\* Where the consumer stands after a step: the reservations behind it are read.
StandsAt(ts, c) ==
    /\ c \in Cursor
    /\ \A i \in 1 .. Len(ts) :
         (ts[i].kind = "read") <=> From(ts[i], read_cursor) < Minus(c, read_cursor)
    /\ \/ c = read_cursor
       \/ \E i \in 1 .. Len(ts) :
            ts[i].kind = "read" /\ To(ts[i], read_cursor) = Minus(c, read_cursor)

\* Reservations are only ever marked read.
OnlyRead ==
    /\ tickets' \in Seq(Ticket) /\ Len(tickets') = Len(tickets)
    /\ \A i \in 1 .. Len(tickets) :
         /\ tickets'[i].at = tickets[i].at /\ tickets'[i].n = tickets[i].n
         /\ tickets'[i].owner = tickets[i].owner
         /\ tickets'[i].kind # "read" => tickets'[i] = tickets[i]
         /\ tickets'[i].kind = "read" => tickets[i].kind \in {"read", "used", "invalid"}

\* Status bytes change only where the consumer has been, to unused.
OnlyCleared(D) ==
    /\ blocks' \in [Slot -> Block]
    /\ \A d \in 0 .. N - 1 :
         /\ d >= D => blocks'[Place(read_cursor, d)] = blocks[Place(read_cursor, d)]
         /\ \/ blocks'[Place(read_cursor, d)] = blocks[Place(read_cursor, d)]
            \/ blocks'[Place(read_cursor, d)].status = "unused"

\* The consumer moves its cursor, and clears what it has passed or does not.
LEMMA MoveStep ==
    ASSUME IInv, rpc # "down", rpc' \in {"idle", "publish"},
           UNCHANGED <<write_cursor, read_cursor, prod, wt_read_cursor_cache>>,
           read_cursor_start_cache' \in Cursor,
           OnlyRead, StandsAt(tickets', read_cursor_cache'),
           OnlyCleared(Minus(read_cursor_cache', read_cursor)),
           \A i \in 1 .. Len(tickets) : tickets'[i].kind = "invalid" =>
              blocks[Index(tickets[i].at)].status = "invalid",
           rpc' = "idle" => read_cursor_start_cache' = read_cursor,
           rpc' = "publish" =>
              /\ read_cursor_start_cache' = read_cursor_cache'
              /\ \A d \in 0 .. Minus(read_cursor_cache', read_cursor) - 1 :
                   blocks'[Place(read_cursor, d)].status = "unused"
    PROVE  IInv'
  <1> DEFINE r == read_cursor
             L == Len(tickets)
             D == Minus(read_cursor_cache', r)
  <1>0. Types /\ Geometry /\ Holders /\ Fits /\ HeadsRight /\ FreeClean /\ Reader
    BY DEF IInv
  <1>1. /\ tickets' \in Seq(Ticket) /\ Len(tickets') = L /\ L \in Nat
        /\ \A i \in 1 .. L :
             /\ tickets'[i].at = tickets[i].at /\ tickets'[i].n = tickets[i].n
             /\ tickets'[i].owner = tickets[i].owner
             /\ tickets'[i].kind # "read" => tickets'[i] = tickets[i]
             /\ tickets'[i].kind = "read" => tickets[i].kind \in {"read", "used", "invalid"}
    BY <1>0 DEF OnlyRead, Types
  <1>2. /\ read_cursor' = r /\ write_cursor' = write_cursor /\ prod' = prod
        /\ wt_read_cursor_cache' = wt_read_cursor_cache
    OBVIOUS
  <1>3. Types'
    BY <1>0, <1>1, <1>2 DEF Types, OnlyCleared, StandsAt
  <1>4. \A i \in 1 .. L : From(tickets'[i], r) = From(tickets[i], r) /\ To(tickets'[i], r) = To(tickets[i], r)
    BY <1>1 DEF From, To
  <1>5. Geometry'
    <2>1. Gapless(tickets, r, write_cursor)
      BY <1>0 DEF Geometry
    <2>2. r \in Cursor /\ write_cursor \in Cursor
      BY <1>0 DEF Types
    <2>3. Gapless(tickets', r, write_cursor)
      BY <1>1, <1>4, <2>1, <2>2, SameRow
    <2> QED BY <1>2, <2>3 DEF Geometry
  <1>6. \A i \in 1 .. L : Kept(tickets'[i]) <=> Kept(tickets[i])
    BY <1>1 DEF Kept
  <1>7. Fits'
    BY <1>0, <1>1, <1>2, <1>4, <1>6 DEF Fits
  <1>8. FreeClean'
    <2>1. ASSUME NEW d \in 0 .. N - 1,
                 \A i \in 1 .. L : Kept(tickets'[i]) => ~Covers(tickets'[i], r, d)
          PROVE  blocks'[Place(r, d)].status = "unused"
      <3>1. \A i \in 1 .. L : Kept(tickets[i]) => ~Covers(tickets[i], r, d)
        BY <1>4, <1>6, <2>1 DEF Covers
      <3>2. blocks[Place(r, d)].status = "unused"
        BY <1>0, <3>1 DEF FreeClean
      <3> QED BY <3>2 DEF OnlyCleared
    <2> QED BY <1>1, <1>2, <2>1 DEF FreeClean
  <1>9. Reader'
    BY <1>1, <1>2 DEF Reader, StandsAt
  <1>10. Holders'
    <2>1. \A q \in Producers, i \in 1 .. L, k \in Pending :
            Holds(q, prod[q], tickets[i], k) => Holds(q, prod[q], tickets'[i], k)
      BY <1>1 DEF Holds, Pending
    <2>2. \A i \in 1 .. L : tickets'[i].kind \in Pending => tickets'[i] = tickets[i]
      BY <1>1 DEF Pending
    <2>3. \A q \in Producers : prod[q].pc \in Undone =>
            \E i \in 1 .. L : Holds(q, prod[q], tickets'[i], "tentative")
      BY <1>0, <2>1 DEF Holders, Pending
    <2>4. \A q \in Producers : prod[q].pc \in Writing =>
            \E i \in 1 .. L : Holds(q, prod[q], tickets'[i], "open")
      BY <1>0, <2>1 DEF Holders, Pending
    <2>5. \A i \in 1 .. L :
            /\ tickets'[i].kind = "tentative" => prod[tickets'[i].owner].pc \in Undone
            /\ tickets'[i].kind = "open" => prod[tickets'[i].owner].pc \in Writing
      BY <1>0, <2>2 DEF Holders, Pending
    <2>6. \A i, j \in 1 .. L :
            /\ tickets'[i].kind \in Pending /\ tickets'[j].kind \in Pending
            /\ tickets'[i].owner = tickets'[j].owner
            => i = j
      BY <1>0, <2>2 DEF Holders
    <2>7. \A q \in Producers :
            /\ prod[q].pc # "idle" => prod[q].need \in Needs
            /\ prod[q].pc \notin {"idle", "view"} => wt_read_cursor_cache[q] # NoCache
      BY <1>0 DEF Holders
    <2> QED BY <1>1, <1>2, <2>3, <2>4, <2>5, <2>6, <2>7 DEF Holders
  <1>11. ASSUME NEW i \in 1 .. L, tickets'[i].kind \in {"used", "invalid", "open"}
         PROVE  /\ tickets'[i] = tickets[i]
                /\ blocks'[Index(tickets[i].at)] = blocks[Index(tickets[i].at)]
    <2>1. tickets'[i] = tickets[i] /\ Kept(tickets[i])
      BY <1>1, <1>11 DEF Kept
    <2>2. /\ From(tickets[i], r) \in 0 .. N - 1
          /\ Index(tickets[i].at) = Place(r, From(tickets[i], r))
      BY <1>0, <2>1, HeadPlace
    <2>3. ~(From(tickets[i], r) < D)
      BY <1>1, <1>4, <1>11 DEF StandsAt
    <2>4. D \in Nat /\ From(tickets[i], r) \in Nat
      <3>1. r \in Cursor /\ read_cursor_cache' \in Cursor
        BY <1>0 DEF Types, StandsAt
      <3> QED BY <2>2, <3>1, Distance
    <2> QED BY <2>1, <2>2, <2>3, <2>4 DEF OnlyCleared
  <1>12. HeadsRight'
    <2>1. \A i \in 1 .. L : tickets'[i].kind = "used" =>
            /\ blocks'[Index(tickets'[i].at)].status = "used"
            /\ blocks'[Index(tickets'[i].at)].block_num = tickets'[i].n
            /\ ~Wraps(tickets'[i].at, tickets'[i].n)
      BY <1>0, <1>11 DEF HeadsRight
    <2>2. \A i \in 1 .. L : tickets'[i].kind = "invalid" =>
            /\ blocks'[Index(tickets'[i].at)].block_num = tickets'[i].n
            /\ Wraps(tickets'[i].at, tickets'[i].n)
            /\ blocks'[Index(tickets'[i].at)].status = "invalid"
      BY <1>0, <1>11 DEF HeadsRight
    <2>3. \A i \in 1 .. L : tickets'[i].kind = "open" =>
            /\ blocks'[Index(tickets'[i].at)].status = "unused"
            /\ prod[tickets'[i].owner].pc \in {"low", "fill", "commit"} =>
                 /\ blocks'[Index(tickets'[i].at)].block_num = tickets'[i].n
                 /\ ~Wraps(tickets'[i].at, tickets'[i].n)
      BY <1>0, <1>11 DEF HeadsRight
    <2>4. \A j \in Slot : blocks'[j].status \in {"used", "invalid"} => blocks'[j].block_num # 0
      <3> SUFFICES ASSUME NEW j \in Slot, blocks'[j].status \in {"used", "invalid"}
                   PROVE  blocks'[j].block_num # 0
        OBVIOUS
      <3>1. r \in Cursor
        BY <1>0 DEF Types
      <3>2. PICK d \in 0 .. N - 1 : j = Place(r, d)
        BY <3>1, PlaceAll
      <3>3. blocks'[j] = blocks[j]
        BY <3>2 DEF OnlyCleared
      <3> QED BY <1>0, <3>3 DEF HeadsRight
    <2> QED BY <1>1, <1>2, <2>1, <2>2, <2>3, <2>4 DEF HeadsRight
  <1> QED BY <1>3, <1>5, <1>7, <1>8, <1>9, <1>10, <1>12 DEF IInv

\* The consumer passes the reservation at its cursor.
LEMMA PassedIs ==
    ASSUME IInv, Passed, NEW m \in 1 .. Len(tickets), tickets[m].at = read_cursor_cache,
           tickets[m].kind \in {"used", "invalid"}
    PROVE  /\ OnlyRead /\ StandsAt(tickets', Plus(read_cursor_cache, tickets[m].n))
           /\ tickets'[m].kind = "read"
           /\ Minus(Plus(read_cursor_cache, tickets[m].n), read_cursor)
                = To(tickets[m], read_cursor)
           /\ To(tickets[m], read_cursor) < N
           /\ \A i \in 1 .. Len(tickets) : tickets[i].at = read_cursor_cache => i = m
  <1> DEFINE r == read_cursor
             c == read_cursor_cache
             t == tickets[m]
             L == Len(tickets)
             u == [t EXCEPT !.kind = "read"]
             x == Plus(c, t.n)
  <1>0. Types /\ Geometry /\ Fits /\ Reader
    BY DEF IInv
  <1>1. /\ tickets \in Seq(Ticket) /\ L \in Nat /\ r \in Cursor /\ c \in Cursor
        /\ DOMAIN tickets = 1 .. L
    BY <1>0 DEF Types
  <1>2. \A i \in 1 .. L : tickets[i].at = c => i = m
    BY <1>0, RowOrder DEF Geometry
  <1>3. t \in Ticket
    BY <1>1
  <1>4. u \in Ticket /\ u.kind = "read" /\ u.at = t.at /\ u.n = t.n /\ u.owner = t.owner
    BY <1>3 DEF Ticket, Kinds
  <1>5. tickets' = [i \in 1 .. L |-> IF tickets[i].at = c
                                     THEN [tickets[i] EXCEPT !.kind = "read"] ELSE tickets[i]]
    BY <1>1 DEF Passed
  <1>6. /\ tickets'[m] = u
        /\ \A i \in 1 .. L : i # m => tickets'[i] = tickets[i]
    BY <1>2, <1>5
  <1> HIDE DEF u
  <1>7. tickets' \in Seq(Ticket) /\ Len(tickets') = L
    <2>1. \A i \in 1 .. L : tickets'[i] \in Ticket
      BY <1>1, <1>4, <1>6
    <2>2. tickets' = [i \in 1 .. L |-> tickets'[i]]
      BY <1>5
    <2>3. tickets' \in [1 .. L -> Ticket]
      BY <2>1, <2>2
    <2> QED BY <1>1, <2>3
  <1>8. OnlyRead
    BY <1>4, <1>6, <1>7 DEF OnlyRead
  <1>9. Kept(t) /\ To(t, r) < N /\ To(t, r) < M
    BY <1>0, Facts, InRow DEF Fits, Kept, Geometry
  <1>10. x \in Cursor /\ Minus(x, r) = To(t, r)
    BY <1>1, <1>3, <1>9, TicketType DEF Behind
  <1>11. StandsAt(tickets', x)
    <2>1. \A i \in 1 .. L : (tickets'[i].kind = "read") <=> From(tickets'[i], r) < To(t, r)
      <3> SUFFICES ASSUME NEW i \in 1 .. L
                   PROVE  (tickets'[i].kind = "read") <=> From(tickets'[i], r) < To(t, r)
        OBVIOUS
      <3>0. /\ From(tickets[i], r) \in Nat /\ To(tickets[i], r) \in Nat
            /\ From(tickets[i], r) < To(tickets[i], r)
            /\ From(t, r) \in Nat /\ To(t, r) \in Nat /\ From(t, r) < To(t, r)
        BY <1>0, InRow DEF Geometry
      <3>1. CASE i = m
        BY <1>4, <1>6, <3>0, <3>1 DEF From
      <3>2. CASE i # m
        <4>1. tickets'[i] = tickets[i]
          BY <1>6, <3>2
        <4>2. (tickets[i].kind = "read") <=> From(tickets[i], r) < From(t, r)
          BY <1>0 DEF Reader, From
        <4>3. From(t, r) < To(tickets[i], r) /\ From(tickets[i], r) < To(t, r) => i = m
          BY <1>0, RowOrder DEF Geometry
        <4> QED BY <3>0, <3>2, <4>1, <4>2, <4>3
      <3> QED BY <3>1, <3>2
    <2>2. tickets'[m].kind = "read" /\ To(tickets'[m], r) = To(t, r)
      BY <1>4, <1>6 DEF To
    <2> QED BY <1>7, <1>10, <2>1, <2>2 DEF StandsAt
  <1> QED BY <1>2, <1>4, <1>6, <1>8, <1>9, <1>10, <1>11

LEMMA SkipStep ==
    ASSUME IInv, skip_invalid
    PROVE  IInv'
  <1> DEFINE c == read_cursor_cache
             L == Len(tickets)
  <1>0. Types /\ Geometry /\ HeadsRight /\ Reader
    BY DEF IInv
  <1>1. /\ rpc = "skip" /\ rpc' = "idle" /\ Passed /\ blocks' = blocks
        /\ read_cursor_cache' = Plus(c, Head_.block_num)
        /\ UNCHANGED <<write_cursor, read_cursor, prod, wt_read_cursor_cache>>
        /\ read_cursor_start_cache' = read_cursor_start_cache
    BY DEF skip_invalid
  <1>2. PICK m \in 1 .. L : tickets[m].kind = "invalid" /\ tickets[m].at = c
    BY <1>0, <1>1 DEF Reader
  <1>3. Head_.block_num = tickets[m].n
    BY <1>0, <1>2 DEF HeadsRight, Head_
  <1>4. /\ OnlyRead /\ StandsAt(tickets', read_cursor_cache')
        /\ tickets'[m].kind = "read"
        /\ \A i \in 1 .. L : tickets[i].at = c => i = m
    BY <1>1, <1>2, <1>3, PassedIs
  <1>5. \A i \in 1 .. L : tickets'[i].kind = "invalid" =>
          blocks[Index(tickets[i].at)].status = "invalid"
    BY <1>0, <1>1, <1>4 DEF HeadsRight, OnlyRead
  <1>6. OnlyCleared(Minus(read_cursor_cache', read_cursor))
    BY <1>0, <1>1 DEF OnlyCleared, Types
  <1>7. read_cursor_start_cache' = read_cursor /\ read_cursor \in Cursor
    BY <1>0, <1>1 DEF Reader, Types
  <1> QED BY <1>1, <1>4, <1>5, <1>6, <1>7, MoveStep

\* return_read_chunk's loop clears the status bytes it has passed.
LEMMA ClearedIs ==
    ASSUME Types, NEW x \in Cursor, read_cursor_start_cache = read_cursor,
           Minus(x, read_cursor) <= N - 1, blocks' = ClearedTo(x)
    PROVE  /\ OnlyCleared(Minus(x, read_cursor))
           /\ \A d \in 0 .. Minus(x, read_cursor) - 1 :
                blocks'[Place(read_cursor, d)].status = "unused"
  <1> DEFINE r == read_cursor
             D == Minus(x, r)
  <1>1. r \in Cursor /\ blocks \in [Slot -> Block]
    BY DEF Types
  <1>2. D \in Nat /\ D <= N - 1 /\ N \in Nat
    BY <1>1, Distance, Facts
  <1>3. blocks' = [j \in Slot |-> IF \E k \in 0 .. D - 1 : j = Place(r, k)
                                  THEN [blocks[j] EXCEPT !.status = "unused"] ELSE blocks[j]]
    BY DEF ClearedTo, Place
  <1>4. \A j \in Slot : /\ [blocks[j] EXCEPT !.status = "unused"] \in Block
                        /\ [blocks[j] EXCEPT !.status = "unused"].status = "unused"
    <2>1. \A j \in Slot : blocks[j] \in Block
      BY <1>1
    <2> QED BY <2>1 DEF Block, Statuses
  <1> HIDE DEF D
  <1>5. /\ \A j \in Slot : (\E k \in 0 .. D - 1 : j = Place(r, k)) =>
             blocks'[j] = [blocks[j] EXCEPT !.status = "unused"]
        /\ \A j \in Slot : ~(\E k \in 0 .. D - 1 : j = Place(r, k)) => blocks'[j] = blocks[j]
        /\ blocks' = [j \in Slot |-> blocks'[j]]
    BY <1>3
  <1>6. blocks' \in [Slot -> Block]
    <2>1. \A j \in Slot : blocks'[j] \in Block
      BY <1>1, <1>4, <1>5
    <2> QED BY <1>5, <2>1
  <1>7. \A d \in 0 .. N - 1 : Place(r, d) \in Slot
    <2>1. \A d \in 0 .. N - 1 : d \in 0 .. N
      BY <1>2
    <2> QED BY <1>1, <2>1, PlaceType
  <1>8. ASSUME NEW d \in 0 .. N - 1, d >= D
        PROVE  blocks'[Place(r, d)] = blocks[Place(r, d)]
    <2>1. ASSUME NEW k \in 0 .. D - 1, Place(r, d) = Place(r, k) PROVE FALSE
      <3>1. k \in 0 .. N - 1
        BY <1>2
      <3>2. d = k
        BY <1>1, <2>1, <3>1, PlaceOnce
      <3> QED BY <1>2, <1>8, <3>2
    <2> QED BY <1>5, <1>7, <2>1
  <1>9. ASSUME NEW d \in 0 .. N - 1
        PROVE  \/ blocks'[Place(r, d)] = blocks[Place(r, d)]
               \/ blocks'[Place(r, d)].status = "unused"
    BY <1>4, <1>5, <1>7, ZenonT(30)
  <1>10. ASSUME NEW d \in 0 .. D - 1 PROVE blocks'[Place(r, d)].status = "unused"
    <2>1. d \in 0 .. N - 1
      BY <1>2
    <2> QED BY <1>4, <1>5, <1>7, <2>1
  <1>11. OnlyCleared(D)
    BY <1>6, <1>8, <1>9 DEF OnlyCleared
  <1> QED BY <1>10, <1>11 DEF D

LEMMA ReturnStep ==
    ASSUME IInv, return_read_chunk
    PROVE  IInv'
  <1> DEFINE c == read_cursor_cache
             r == read_cursor
             L == Len(tickets)
             x == IF rpc = "lent" THEN Plus(c, Head_.block_num) ELSE c
  <1>0. Types /\ Geometry /\ Fits /\ HeadsRight /\ Reader
    BY DEF IInv
  <1>1. /\ rpc \in {"lent", "empty"} /\ read_cursor_cache' = x
        /\ rpc = "lent" => Passed
        /\ rpc # "lent" => tickets' = tickets
        /\ UNCHANGED <<write_cursor, read_cursor, prod, wt_read_cursor_cache>>
    BY DEF return_read_chunk
  <1>2. \/ blocks' = ClearedTo(x) /\ read_cursor_start_cache' = x /\ rpc' = "publish"
        \/ /\ blocks' = blocks /\ read_cursor_start_cache' = read_cursor_start_cache
           /\ rpc' = "idle"
    BY DEF return_read_chunk
  <1>3. read_cursor_start_cache = r /\ r \in Cursor /\ c \in Cursor /\ tickets \in Seq(Ticket)
    BY <1>0, <1>1 DEF Reader, Types
  <1>4. OnlyRead /\ StandsAt(tickets', x) /\ Minus(x, r) <= N - 1
    <2>1. CASE rpc = "lent"
      <3>1. PICK m \in 1 .. L : tickets[m].kind = "used" /\ tickets[m].at = c
        BY <1>0, <2>1 DEF Reader
      <3>2. Head_.block_num = tickets[m].n
        BY <1>0, <3>1 DEF HeadsRight, Head_
      <3>3. x = Plus(c, tickets[m].n)
        BY <2>1, <3>2
      <3>4. /\ OnlyRead /\ StandsAt(tickets', x)
            /\ Minus(x, r) = To(tickets[m], r) /\ To(tickets[m], r) < N
        BY <1>1, <2>1, <3>1, <3>3, PassedIs
      <3>5. To(tickets[m], r) \in Nat
        BY <1>0, InRow DEF Geometry
      <3> QED BY <3>4, <3>5, Facts
    <2>2. CASE rpc # "lent"
      <3>1. x = c /\ tickets' = tickets
        BY <1>1, <2>2
      <3>2. OnlyRead
        BY <1>3, <3>1 DEF OnlyRead
      <3>3. StandsAt(tickets', c)
        BY <1>0, <1>3, <3>1 DEF StandsAt, Reader
      <3>4. Minus(c, r) \in 0 .. N - 1
        BY AtCursor
      <3> QED BY <3>1, <3>2, <3>3, <3>4
    <2> QED BY <2>1, <2>2
  <1>5. \A i \in 1 .. L : tickets'[i].kind = "invalid" =>
          blocks[Index(tickets[i].at)].status = "invalid"
    BY <1>0, <1>1, <1>4 DEF HeadsRight, OnlyRead
  <1>6. x \in Cursor
    BY <1>4 DEF StandsAt
  <1> HIDE DEF x
  <1>7. CASE blocks' = ClearedTo(x) /\ read_cursor_start_cache' = x /\ rpc' = "publish"
    <2>1. /\ OnlyCleared(Minus(x, r))
          /\ \A d \in 0 .. Minus(x, r) - 1 : blocks'[Place(r, d)].status = "unused"
      BY <1>0, <1>3, <1>4, <1>6, <1>7, ClearedIs
    <2> QED BY <1>1, <1>4, <1>5, <1>6, <1>7, <2>1, MoveStep
  <1>8. CASE /\ blocks' = blocks /\ read_cursor_start_cache' = read_cursor_start_cache
             /\ rpc' = "idle"
    <2>1. OnlyCleared(Minus(x, r))
      BY <1>0, <1>8 DEF OnlyCleared, Types
    <2> QED BY <1>1, <1>3, <1>4, <1>5, <1>8, <2>1, MoveStep
  <1> QED BY <1>2, <1>7, <1>8

\* The consumer has passed the first c reservations and stands at the next one,
\* or at the write cursor.
ReadUpTo(c) ==
    /\ c \in 0 .. Len(tickets)
    /\ \A i \in 1 .. Len(tickets) : tickets[i].kind = "read" <=> i <= c
    /\ read_cursor_cache = IF c + 1 <= Len(tickets) THEN tickets[c + 1].at ELSE write_cursor
    /\ c = Cardinality({i \in DOMAIN tickets : tickets[i].kind = "read"})

LEMMA ReadUpToIs ==
    ASSUME IInv
    PROVE  \E c \in 0 .. Len(tickets) : ReadUpTo(c)
  <1> DEFINE r == read_cursor
             D == Minus(read_cursor_cache, r)
             L == Len(tickets)
  <1>0. Types /\ Geometry /\ Reader
    BY DEF IInv
  <1>1. /\ tickets \in Seq(Ticket) /\ L \in Nat /\ DOMAIN tickets = 1 .. L
        /\ r \in Cursor /\ read_cursor_cache \in Cursor /\ write_cursor \in Cursor
    BY <1>0 DEF Types
  <1>2. \A i \in 1 .. L : /\ From(tickets[i], r) \in Nat /\ To(tickets[i], r) \in Nat
                          /\ From(tickets[i], r) < To(tickets[i], r)
                          /\ tickets[i].at \in Cursor
    BY <1>0, InRow DEF Geometry
  <1>3. D \in Nat
    BY <1>1, Distance
  <1>4. \A i \in 1 .. L : tickets[i].kind = "read" <=> From(tickets[i], r) < D
    BY <1>0 DEF Reader
  <1>5. \E c \in 0 .. L :
          /\ \A i \in 1 .. L : tickets[i].kind = "read" <=> i <= c
          /\ c = 0 => D = 0
          /\ c # 0 => To(tickets[c], r) = D
    <2>1. CASE read_cursor_cache = r
      <3>1. D = 0
        BY <1>1, <2>1, Distance
      <3> HIDE DEF D
      <3>2. \A i \in 1 .. L : ~(tickets[i].kind = "read")
        BY <1>2, <1>4, <3>1
      <3>3. 0 \in 0 .. L /\ \A i \in 1 .. L : ~(i <= 0)
        BY <1>1
      <3> QED BY <3>1, <3>2, <3>3
    <2>2. CASE \E i \in 1 .. L : tickets[i].kind = "read" /\ To(tickets[i], r) = D
      <3>1. PICK c \in 1 .. L : tickets[c].kind = "read" /\ To(tickets[c], r) = D
        BY <2>2
      <3>2. ASSUME NEW i \in 1 .. L PROVE From(tickets[i], r) < D <=> i <= c
        <4>1. /\ i < c => To(tickets[i], r) <= From(tickets[c], r)
              /\ c < i => To(tickets[c], r) <= From(tickets[i], r)
          BY <1>0, RowOrder DEF Geometry
        <4>2. /\ From(tickets[i], r) \in Nat /\ To(tickets[i], r) \in Nat
              /\ From(tickets[i], r) < To(tickets[i], r)
              /\ From(tickets[c], r) \in Nat /\ From(tickets[c], r) < D
          BY <1>2, <3>1
        <4> HIDE DEF D
        <4>3. CASE i < c
          BY <1>3, <4>1, <4>2, <4>3
        <4>4. CASE i = c
          BY <4>2, <4>4
        <4>5. CASE c < i
          BY <1>3, <3>1, <4>1, <4>2, <4>5
        <4> QED BY <1>1, <4>3, <4>4, <4>5
      <3>3. c \in 0 .. L /\ c # 0
        BY <1>1
      <3> HIDE DEF D
      <3> QED BY <1>4, <3>1, <3>2, <3>3
    <2> QED BY <1>0, <2>1, <2>2 DEF Reader
  <1>6. PICK c \in 0 .. L :
          /\ \A i \in 1 .. L : tickets[i].kind = "read" <=> i <= c
          /\ c = 0 => D = 0
          /\ c # 0 => To(tickets[c], r) = D
    BY <1>5
  <1>7. read_cursor_cache = IF c + 1 <= L THEN tickets[c + 1].at ELSE write_cursor
    <2>1. CASE c + 1 <= L
      <3>1. c + 1 \in 1 .. L /\ L # 0 /\ (c # 0 => c + 1 # 1 /\ (c + 1) - 1 = c) /\ (c = 0 => c + 1 = 1)
        BY <1>1, <2>1
      <3>2. From(tickets[c + 1], r) = D
        <4>1. CASE c = 0
          <5>1. From(tickets[1], r) = 0
            BY <1>0, <3>1 DEF Geometry, Gapless
          <5> QED BY <1>6, <3>1, <4>1, <5>1
        <4>2. CASE c # 0
          <5>1. From(tickets[c + 1], r) = To(tickets[(c + 1) - 1], r)
            BY <1>0, <3>1, <4>2 DEF Geometry, Gapless
          <5>2. (c + 1) - 1 = c
            BY <3>1, <4>2
          <5> QED BY <1>6, <4>2, <5>1, <5>2
        <4> QED BY <4>1, <4>2
      <3>3. Minus(tickets[c + 1].at, r) = Minus(read_cursor_cache, r)
        BY <3>2 DEF From
      <3>4. tickets[c + 1].at \in Cursor
        BY <1>2, <3>1
      <3> QED BY <1>1, <2>1, <3>3, <3>4, SameDistance
    <2>2. CASE ~(c + 1 <= L)
      <3>0. c \in Nat /\ c <= L /\ L \in Nat
        BY <1>1, <1>6
      <3>1. c = L
        BY <2>2, <3>0
      <3>2. D = Minus(write_cursor, r)
        <4>1. CASE L = 0
          <5>1. write_cursor = r
            BY <1>0, <4>1 DEF Geometry, Gapless
          <5> QED BY <1>1, <1>6, <3>1, <4>1, <5>1, Distance
        <4>2. CASE L # 0
          <5>1. To(tickets[L], r) = Minus(write_cursor, r)
            BY <1>0, <4>2 DEF Geometry, Gapless
          <5> QED BY <1>6, <3>1, <4>2, <5>1
        <4> QED BY <4>1, <4>2
      <3> QED BY <1>1, <2>2, <3>2, SameDistance
    <2> QED BY <2>1, <2>2
  <1>8. c = Cardinality({i \in DOMAIN tickets : tickets[i].kind = "read"})
    <2>1. {i \in DOMAIN tickets : tickets[i].kind = "read"} = 1 .. c
      BY <1>1, <1>6
    <2>2. 1 \in Int /\ c \in Int /\ c \in Nat
      BY <1>1
    <2>3. Cardinality(1 .. c) = IF 1 > c THEN 0 ELSE c - 1 + 1
      BY <2>2, FS_Interval
    <2>4. c = IF 1 > c THEN 0 ELSE c - 1 + 1
      BY <2>2
    <2>5. Cardinality(1 .. c) = c
      BY <2>3, <2>4
    <2> QED BY <2>1, <2>5
  <1> QED BY <1>6, <1>7, <1>8 DEF ReadUpTo

\* The reservations still to be read are a row from the consumer's cursor on.
LEMMA UnreadIs ==
    ASSUME IInv, NEW c, ReadUpTo(c)
    PROVE  /\ Gapless(Unread, read_cursor_cache, write_cursor)
           /\ Len(Unread) = Len(tickets) - c
           /\ \A i \in 1 .. Len(Unread) :
                /\ c + i \in 1 .. Len(tickets) /\ Unread[i] = tickets[c + i]
                /\ Unread[i].kind # "read"
                /\ From(Unread[i], read_cursor_cache)
                     = From(Unread[i], read_cursor) - Minus(read_cursor_cache, read_cursor)
                /\ To(Unread[i], read_cursor_cache)
                     = To(Unread[i], read_cursor) - Minus(read_cursor_cache, read_cursor)
           /\ \A i \in 1 .. Len(tickets) : tickets[i].kind # "read" =>
                i - c \in 1 .. Len(Unread) /\ Unread[i - c] = tickets[i]
  <1> DEFINE L == Len(tickets)
             U == Unread
             a == c + 1
  <1>0. Types /\ Geometry
    BY DEF IInv
  <1>1. /\ tickets \in Seq(Ticket) /\ L \in Nat
        /\ read_cursor_cache \in Cursor /\ write_cursor \in Cursor
        /\ c \in 0 .. L /\ c \in Nat /\ c <= L
    BY <1>0 DEF Types, ReadUpTo
  <1>2. U = SubSeq(tickets, c + 1, L)
    BY DEF Unread, ReadUpTo
  <1>3. /\ U \in Seq(Ticket) /\ Len(U) = L - c
        /\ \A i \in 1 .. L - c : U[i] = tickets[c + i]
    <2>1. a \in Int /\ L \in Int
      BY <1>1
    <2>2. \A i \in a .. L : i \in 1 .. L
      BY <1>1
    <2>3. \A i \in a .. L : tickets[i] \in Ticket
      BY <1>1, <2>2
    <2> HIDE DEF a
    <2>4. /\ SubSeq(tickets, a, L) \in Seq(Ticket)
          /\ Len(SubSeq(tickets, a, L)) = IF a <= L THEN L - a + 1 ELSE 0
          /\ \A i \in 1 .. L - a + 1 : SubSeq(tickets, a, L)[i] = tickets[a + i - 1]
      BY <2>1, <2>3, SubSeqProperties
    <2>5. L - a + 1 = L - c /\ (a <= L => L - a + 1 = L - c) /\ (~(a <= L) => L - c = 0)
      BY <1>1 DEF a
    <2>6. \A i \in 1 .. L - c : a + i - 1 = c + i
      BY <1>1 DEF a
    <2>7. Len(SubSeq(tickets, a, L)) = L - c
      BY <2>4, <2>5
    <2>8. \A i \in 1 .. L - c : SubSeq(tickets, a, L)[i] = tickets[c + i]
      BY <2>4, <2>5, <2>6
    <2> QED BY <1>2, <2>4, <2>7, <2>8 DEF a
  <1> HIDE DEF U
  <1>4. /\ Gapless(U, read_cursor_cache, write_cursor)
        /\ \A i \in 1 .. L - a + 1 :
             /\ From(U[i], read_cursor_cache)
                  = From(tickets[a - 1 + i], read_cursor) - Minus(read_cursor_cache, read_cursor)
             /\ To(U[i], read_cursor_cache)
                  = To(tickets[a - 1 + i], read_cursor) - Minus(read_cursor_cache, read_cursor)
    <2>1. Gapless(tickets, read_cursor, write_cursor)
      BY <1>0 DEF Geometry
    <2>2. a \in 1 .. Len(tickets) + 1 /\ L \in 0 .. Len(tickets) /\ a <= L + 1
      BY <1>1
    <2>3. L - a + 1 = L - c /\ Len(U) = L - a + 1
      BY <1>1, <1>3
    <2>4. \A i \in 1 .. L - a + 1 : U[i] = tickets[a - 1 + i]
      <3>1. \A i \in 1 .. L - a + 1 : a - 1 + i = c + i /\ i \in 1 .. L - c
        BY <1>1, <2>3
      <3> QED BY <1>3, <3>1
    <2>5. read_cursor_cache = IF a <= Len(tickets) THEN tickets[a].at ELSE write_cursor
      BY DEF ReadUpTo
    <2>6. write_cursor = IF L < Len(tickets) THEN tickets[L + 1].at ELSE write_cursor
      BY <1>1
    <2>7. Len(U) = L - a + 1 /\ U \in Seq(Ticket)
      BY <1>3, <2>3
    <2>8. read_cursor_cache \in Cursor /\ write_cursor \in Cursor
      BY <1>1
    <2> HIDE DEF a, L
    <2> QED BY <2>1, <2>2, <2>4, <2>5, <2>6, <2>7, <2>8, PartOfRow
  <1>5. ASSUME NEW i \in 1 .. Len(U)
        PROVE  /\ c + i \in 1 .. L /\ U[i] = tickets[c + i] /\ U[i].kind # "read"
               /\ From(U[i], read_cursor_cache)
                    = From(U[i], read_cursor) - Minus(read_cursor_cache, read_cursor)
               /\ To(U[i], read_cursor_cache)
                    = To(U[i], read_cursor) - Minus(read_cursor_cache, read_cursor)
    <2>1. i \in 1 .. L - c /\ i \in 1 .. L - a + 1 /\ a - 1 + i = c + i
      BY <1>1, <1>3
    <2>2. c + i \in 1 .. L /\ ~(c + i <= c)
      BY <1>1, <2>1
    <2>3. U[i] = tickets[c + i]
      BY <1>3, <2>1
    <2>4. U[i].kind # "read"
      BY <2>2, <2>3 DEF ReadUpTo
    <2> HIDE DEF a
    <2> QED BY <1>4, <2>1, <2>2, <2>3, <2>4
  <1>6. ASSUME NEW i \in 1 .. L, tickets[i].kind # "read"
        PROVE  i - c \in 1 .. Len(U) /\ U[i - c] = tickets[i]
    <2>1. ~(i <= c)
      BY <1>6 DEF ReadUpTo
    <2>2. i - c \in 1 .. L - c /\ c + (i - c) = i
      BY <1>1, <2>1
    <2> QED BY <1>3, <2>2
  <1> QED BY <1>3, <1>4, <1>5, <1>6 DEF U

\* The places behind a cursor, counted from an older one.
LEMMA PlaceShift ==
    ASSUME NEW r \in Cursor, NEW c \in Cursor, Minus(c, r) \in 0 .. N - 1, NEW e \in 0 .. N - 1
    PROVE  /\ Minus(c, r) + e < N => Place(c, e) = Place(r, Minus(c, r) + e)
           /\ Minus(c, r) + e >= N => Place(c, e) = Place(r, Minus(c, r) + e - N)
  <1> DEFINE D == Minus(c, r)
  <1>0. N \in Nat /\ N >= 2 /\ D \in 0 .. N /\ D \in 0 .. N - 1 /\ e \in 0 .. N
    BY Facts
  <1>1. Plus(r, D) = c
    BY Distance
  <1>2. Index(r) \in 0 .. N - 1 /\ Index(c) \in 0 .. N - 1
    BY IndexType DEF Slot
  <1> HIDE DEF D
  <1>3. /\ Index(r) + D < N  => Index(c) = Index(r) + D
        /\ Index(r) + D >= N => Index(c) = Index(r) + D - N
    <2>1. /\ Index(r) + D < N  => Index(Plus(r, D)) = Index(r) + D
          /\ Index(r) + D >= N /\ D < N => Index(Plus(r, D)) = Index(r) + D - N
      BY <1>0, IndexPlus
    <2> QED BY <1>0, <1>1, <2>1
  <1>4. \A x \in Cursor, d \in 0 .. N - 1 :
          /\ Index(x) + d < N  => Place(x, d) = Index(x) + d
          /\ Index(x) + d >= N => Place(x, d) = Index(x) + d - N
    <2>1. \A d \in 0 .. N - 1 : d \in 0 .. N /\ d < N
      BY <1>0
    <2> QED BY <2>1, IndexPlus DEF Place
  <1>5. /\ Index(c) + e < N  => Place(c, e) = Index(c) + e
        /\ Index(c) + e >= N => Place(c, e) = Index(c) + e - N
    BY <1>4
  <1>6. CASE D + e < N
    <2>1. D + e \in 0 .. N - 1
      BY <1>0, <1>6
    <2>2. /\ Index(r) + (D + e) < N  => Place(r, D + e) = Index(r) + (D + e)
          /\ Index(r) + (D + e) >= N => Place(r, D + e) = Index(r) + (D + e) - N
      BY <1>4, <2>1
    <2>3. Place(c, e) = Place(r, D + e)
      BY <1>0, <1>2, <1>3, <1>5, <1>6, <2>2
    <2> QED BY <1>0, <1>6, <2>3 DEF D
  <1>7. CASE D + e >= N
    <2>1. D + e - N \in 0 .. N - 1
      BY <1>0, <1>7
    <2>2. /\ Index(r) + (D + e - N) < N  => Place(r, D + e - N) = Index(r) + (D + e - N)
          /\ Index(r) + (D + e - N) >= N => Place(r, D + e - N) = Index(r) + (D + e - N) - N
      BY <1>4, <2>1
    <2>3. Place(c, e) = Place(r, D + e - N)
      BY <1>0, <1>2, <1>3, <1>5, <1>7, <2>2
    <2> QED BY <1>0, <1>7, <2>3 DEF D
  <1> QED BY <1>0, <1>6, <1>7

\* The blocks behind the consumer's cursor that no unread reservation covers,
\* up to the blocks it has passed.
LEMMA FreeBehind ==
    ASSUME IInv, NEW e \in 0 .. N - 1, Minus(read_cursor_cache, read_cursor) + e < N,
           \A i \in 1 .. Len(Unread) :
              Kept(Unread[i]) => ~Covers(Unread[i], read_cursor_cache, e)
    PROVE  blocks[Place(read_cursor_cache, e)].status = "unused"
  <1> DEFINE r == read_cursor
             c == read_cursor_cache
             D == Minus(c, r)
  <1>0. Types /\ Geometry /\ Reader /\ FreeClean
    BY DEF IInv
  <1>1. r \in Cursor /\ c \in Cursor /\ D \in 0 .. N - 1
    BY <1>0, AtCursor DEF Types
  <1>2. Place(c, e) = Place(r, D + e)
    BY <1>1, PlaceShift
  <1>3. D + e \in 0 .. N - 1 /\ D \in Nat /\ e \in Nat
    <2>1. N \in Nat
      BY Facts
    <2> HIDE DEF D
    <2> QED BY <1>1, <2>1 DEF D
  <1>4. PICK k \in 0 .. Len(tickets) : ReadUpTo(k)
    BY ReadUpToIs
  <1>5. ASSUME NEW i \in 1 .. Len(tickets), Kept(tickets[i]), Covers(tickets[i], r, D + e)
        PROVE  FALSE
    <2>1. From(tickets[i], r) \in Nat /\ To(tickets[i], r) \in Nat
      BY <1>0, InRow DEF Geometry
    <2>2. From(tickets[i], r) <= D + e /\ D + e < To(tickets[i], r)
      BY <1>5 DEF Covers
    <2>3. CASE tickets[i].kind = "read"
      <3>1. To(tickets[i], r) <= D
        BY <1>0, <1>1, <2>3, ReaderBehind
      <3> HIDE DEF D
      <3> QED BY <1>3, <2>1, <2>2, <3>1
    <2>4. CASE tickets[i].kind # "read"
      <3> DEFINE u == Unread[i - k]
      <3>1. i - k \in 1 .. Len(Unread) /\ u = tickets[i]
        BY <1>4, <2>4, UnreadIs
      <3>2. From(u, c) = From(u, r) - D /\ To(u, c) = To(u, r) - D
        BY <1>4, <3>1, UnreadIs
      <3>3. ~Covers(u, c, e)
        BY <1>5, <3>1
      <3> HIDE DEF D, u
      <3> QED BY <1>3, <2>1, <2>2, <3>1, <3>2, <3>3 DEF Covers
    <2> QED BY <2>3, <2>4
  <1>6. blocks[Place(r, D + e)].status = "unused"
    <2> HIDE DEF D
    <2> QED BY <1>0, <1>3, <1>5 DEF FreeClean
  <1> QED BY <1>2, <1>6

LEMMA PublishStep ==
    ASSUME IInv, publish_read_cursor
    PROVE  IInv'
  <1> DEFINE r == read_cursor
             c == read_cursor_cache
             D == Minus(c, r)
             L == Len(tickets)
             U == Unread
  <1>0. Types /\ Geometry /\ Holders /\ Fits /\ HeadsRight /\ FreeClean /\ Reader
    BY DEF IInv
  <1>1. /\ rpc = "publish" /\ rpc' = "idle" /\ read_cursor' = c /\ tickets' = U
        /\ UNCHANGED <<blocks, write_cursor, read_cursor_cache, read_cursor_start_cache,
                       prod, wt_read_cursor_cache>>
    BY DEF publish_read_cursor
  <1>2. PICK k \in 0 .. L : ReadUpTo(k)
    BY ReadUpToIs
  <1>3. /\ Gapless(U, c, write_cursor)
        /\ \A i \in 1 .. Len(U) :
             /\ k + i \in 1 .. L /\ U[i] = tickets[k + i] /\ U[i].kind # "read"
             /\ From(U[i], c) = From(U[i], r) - D /\ To(U[i], c) = To(U[i], r) - D
        /\ \A i \in 1 .. L : tickets[i].kind # "read" =>
             i - k \in 1 .. Len(U) /\ U[i - k] = tickets[i]
    BY <1>2, UnreadIs
  <1>4. /\ r \in Cursor /\ c \in Cursor /\ D \in 0 .. N - 1 /\ k \in Nat /\ N \in Nat
        /\ L \in Nat /\ U \in Seq(Ticket) /\ Len(U) \in Nat
    BY <1>0, <1>3, AtCursor, Facts DEF Types, Gapless
  <1> HIDE DEF U
  <1>5. Types'
    BY <1>0, <1>1, <1>4 DEF Types
  <1>6. Geometry'
    BY <1>1, <1>3 DEF Geometry
  <1>7. \A i \in 1 .. Len(U) : k + i \in 1 .. L /\ tickets'[i] = tickets[k + i]
    BY <1>1, <1>3
  <1>8. Fits'
    <2> SUFFICES ASSUME NEW i \in 1 .. Len(U), Kept(U[i]) PROVE To(U[i], c) < N
      BY <1>1 DEF Fits
    <2>1. U[i] = tickets[k + i] /\ k + i \in 1 .. L /\ To(U[i], c) = To(U[i], r) - D
      BY <1>3
    <2>2. To(tickets[k + i], r) < N /\ To(tickets[k + i], r) \in Nat
      BY <1>0, <2>1, InRow DEF Fits, Geometry
    <2> HIDE DEF D
    <2> QED BY <1>4, <2>1, <2>2
  <1>9. FreeClean'
    <2>1. ASSUME NEW e \in 0 .. N - 1,
                 \A i \in 1 .. Len(U) : Kept(U[i]) => ~Covers(U[i], c, e)
          PROVE  blocks[Place(c, e)].status = "unused"
      <3>1. CASE D + e < N
        BY <2>1, <3>1, FreeBehind DEF U
      <3>2. CASE D + e >= N
        <4>1. Place(c, e) = Place(r, D + e - N)
          BY <1>4, <3>2, PlaceShift
        <4>2. D + e - N \in 0 .. D - 1
          <5> HIDE DEF D
          <5> QED BY <1>4, <3>2
        <4>3. \A d \in 0 .. D - 1 : blocks[Place(r, d)].status = "unused"
          BY <1>0, <1>1 DEF Reader
        <4> HIDE DEF D
        <4> QED BY <4>1, <4>2, <4>3
      <3> HIDE DEF D
      <3> QED BY <1>4, <3>1, <3>2
    <2> QED BY <1>1, <2>1 DEF FreeClean
  <1>10. Reader'
    <2>1. Minus(c, c) = 0
      BY <1>4, Distance
    <2>2. \A i \in 1 .. Len(U) : ~(From(U[i], c) < 0)
      <3>1. \A i \in 1 .. Len(U) : From(U[i], c) \in Nat
        BY <1>3, InRow
      <3> QED BY <3>1
    <2>3. \A i \in 1 .. Len(U) : (U[i].kind = "read") <=> From(U[i], c) < Minus(c, c)
      BY <1>3, <2>1, <2>2
    <2>4. read_cursor_start_cache = c
      BY <1>0, <1>1 DEF Reader
    <2> QED BY <1>1, <2>3, <2>4 DEF Reader
  <1>11. HeadsRight'
    <2>1. \A i \in 1 .. L : tickets[i].kind = "invalid" =>
            /\ blocks[Index(tickets[i].at)].block_num = tickets[i].n
            /\ Wraps(tickets[i].at, tickets[i].n)
            /\ blocks[Index(tickets[i].at)].status = "invalid"
      BY <1>0, <1>1 DEF HeadsRight
    <2>2. \A i \in 1 .. Len(U) : U[i].kind = "used" =>
            /\ blocks[Index(U[i].at)].status = "used"
            /\ blocks[Index(U[i].at)].block_num = U[i].n
            /\ ~Wraps(U[i].at, U[i].n)
      BY <1>0, <1>3 DEF HeadsRight
    <2>3. \A i \in 1 .. Len(U) : U[i].kind = "invalid" =>
            /\ blocks[Index(U[i].at)].block_num = U[i].n
            /\ Wraps(U[i].at, U[i].n)
            /\ blocks[Index(U[i].at)].status = "invalid"
      BY <1>3, <2>1, SMTT(30)
    <2>4. \A i \in 1 .. Len(U) : U[i].kind = "open" =>
            /\ blocks[Index(U[i].at)].status = "unused"
            /\ prod[U[i].owner].pc \in {"low", "fill", "commit"} =>
                 /\ blocks[Index(U[i].at)].block_num = U[i].n
                 /\ ~Wraps(U[i].at, U[i].n)
      BY <1>0, <1>3 DEF HeadsRight
    <2>5. \A j \in Slot : blocks[j].status \in {"used", "invalid"} => blocks[j].block_num # 0
      BY <1>0 DEF HeadsRight
    <2> QED BY <1>1, <2>2, <2>3, <2>4, <2>5 DEF HeadsRight
  <1>12. Holders'
    <2>1. \A q \in Producers :
            /\ prod[q].pc # "idle" => prod[q].need \in Needs
            /\ prod[q].pc \notin {"idle", "view"} => wt_read_cursor_cache[q] # NoCache
      BY <1>0 DEF Holders
    <2>2. ASSUME NEW q \in Producers, NEW kind \in Pending,
                 \E i \in 1 .. L : Holds(q, prod[q], tickets[i], kind)
          PROVE  \E i \in 1 .. Len(U) : Holds(q, prod[q], U[i], kind)
      <3>1. PICK i \in 1 .. L : Holds(q, prod[q], tickets[i], kind)
        BY <2>2
      <3>2. tickets[i].kind # "read"
        BY <3>1 DEF Holds, Pending
      <3>3. i - k \in 1 .. Len(U) /\ U[i - k] = tickets[i]
        BY <1>3, <3>2
      <3> QED BY <3>1, <3>3
    <2>3. \A q \in Producers : prod[q].pc \in Undone =>
            \E i \in 1 .. Len(U) : Holds(q, prod[q], U[i], "tentative")
      BY <1>0, <2>2 DEF Holders, Pending
    <2>4. \A q \in Producers : prod[q].pc \in Writing =>
            \E i \in 1 .. Len(U) : Holds(q, prod[q], U[i], "open")
      BY <1>0, <2>2 DEF Holders, Pending
    <2>5. \A i \in 1 .. Len(U) :
            /\ U[i].kind = "tentative" => prod[U[i].owner].pc \in Undone
            /\ U[i].kind = "open" => prod[U[i].owner].pc \in Writing
      BY <1>0, <1>1, <1>3 DEF Holders
    <2>6. \A i, j \in 1 .. Len(U) :
            /\ U[i].kind \in Pending /\ U[j].kind \in Pending
            /\ U[i].owner = U[j].owner
            => i = j
      <3> SUFFICES ASSUME NEW i \in 1 .. Len(U), NEW j \in 1 .. Len(U),
                          U[i].kind \in Pending, U[j].kind \in Pending,
                          U[i].owner = U[j].owner
                   PROVE  i = j
        OBVIOUS
      <3>1. /\ k + i \in 1 .. L /\ U[i] = tickets[k + i]
            /\ k + j \in 1 .. L /\ U[j] = tickets[k + j]
        BY <1>3
      <3>2. k + i = k + j
        BY <1>0, <3>1 DEF Holders
      <3> QED BY <1>4, <3>2
    <2> QED BY <1>1, <2>1, <2>3, <2>4, <2>5, <2>6 DEF Holders
  <1> QED BY <1>5, <1>6, <1>8, <1>9, <1>10, <1>11, <1>12 DEF IInv

-----------------------------------------------------------------------------
(* Recovery *)

\* One step of recovery's walk over the chunks, and the whole walk.
ParseRule(f, i, k) ==
    LET b == blocks[Index(i + k)]
        checked == IF b.status = "used" THEN i + k ELSE i + k + b.block_num
    IN  IF k >= N THEN IF k = N THEN N ELSE Failed
        ELSE IF b.status = "unused" THEN k
        ELSE IF b.status = "data" \/ Wraps(checked, b.block_num) THEN Failed
        ELSE f[k + b.block_num]

Parse(i) == CHOOSE f : f = [k \in 0 .. 2 * N |-> ParseRule(f, i, k)]

LEMMA ParsedIs == ASSUME NEW i PROVE Parsed(i) = Parse(i)[0]
  BY DEF Parsed, Parse, ParseRule

\* The walk starts at an index instead of a cursor, which denotes the same blocks.
LEMMA IndexPlace ==
    ASSUME NEW c \in Cursor, NEW k \in 0 .. N - 1
    PROVE  /\ Index(c) \in 0 .. N - 1 /\ Index(c) \in Cursor /\ Index(c) + k \in Cursor
           /\ Index(Index(c) + k) = Place(c, k) /\ Place(Index(c), k) = Place(c, k)
           /\ Minus(Index(c) + k, Index(c)) = k
           /\ Place(c, k) \in Slot
  <1> DEFINE i == Index(c)
  <1>0. N \in Nat /\ N >= 2 /\ M \in Nat /\ M >= 2 * N /\ k \in 0 .. N /\ k \in Nat /\ k < N
    BY Facts
  <1>1. i \in Slot /\ i \in 0 .. N - 1
    BY IndexType DEF Slot
  <1> HIDE DEF i
  <1>2. i \in Cursor /\ i + k \in Cursor /\ i + k < M /\ i \in Int
    BY <1>0, <1>1 DEF Cursor
  <1>3. Index(i) = i
    <2>1. i = N * 0 + i /\ 0 \in Int
      BY <1>0, <1>2
    <2> QED BY <1>1, <1>2, <2>1, Remainder DEF Index
  <1>4. Plus(i, k) = i + k
    BY <1>2 DEF Plus
  <1>5. /\ i + k < N  => Place(i, k) = i + k
        /\ i + k >= N => Place(i, k) = i + k - N
    BY <1>0, <1>2, <1>3, IndexPlus DEF Place
  <1>6. /\ i + k < N  => Place(c, k) = i + k
        /\ i + k >= N => Place(c, k) = i + k - N
    BY <1>0, IndexPlus DEF Place, i
  <1>7. Place(i, k) = Place(c, k)
    BY <1>0, <1>1, <1>5, <1>6
  <1>8. Minus(i + k, i) = k
    BY <1>0, <1>1 DEF Minus
  <1>9. Place(c, k) \in Slot
    BY <1>0, PlaceType
  <1> QED BY <1>1, <1>2, <1>4, <1>7, <1>8, <1>9 DEF Place, i

\* Every chunk the walk steps over has a length.
LEMMA WalkBlock ==
    ASSUME IInv, NEW k \in 0 .. N - 1
    PROVE  LET b == blocks[Index(Index(read_cursor_cache) + k)]
           IN  /\ b.status \in Statuses /\ b.block_num \in 0 .. N
               /\ b.status \in {"used", "invalid"} => b.block_num \in 1 .. N
  <1>1. read_cursor_cache \in Cursor /\ blocks \in [Slot -> Block] /\ HeadsRight
    BY DEF IInv, Types
  <1>2. Index(Index(read_cursor_cache) + k) \in Slot
    BY <1>1, IndexPlace
  <1> DEFINE j == Index(Index(read_cursor_cache) + k)
  <1> HIDE DEF j
  <1>3. j \in Slot /\ blocks[j] \in Block
    BY <1>1, <1>2 DEF j
  <1>4. blocks[j].status \in Statuses /\ blocks[j].block_num \in 0 .. N
    BY <1>3 DEF Block
  <1>5. blocks[j].status \in {"used", "invalid"} => blocks[j].block_num # 0
    BY <1>1, <1>3 DEF HeadsRight
  <1>6. N \in Nat
    BY Facts
  <1> QED BY <1>4, <1>5, <1>6 DEF j

\* The recursive function that is the walk exists.
LEMMA ParseIs ==
    ASSUME IInv
    PROVE  \A k \in 0 .. 2 * N :
             Parse(Index(read_cursor_cache))[k]
               = ParseRule(Parse(Index(read_cursor_cache)), Index(read_cursor_cache), k)
  <1> DEFINE i == Index(read_cursor_cache)
             Is(f, n) == f = [k \in 2 * N - n .. 2 * N |-> ParseRule(f, i, k)]
             T == {n \in 0 .. 2 * N : ~ \E f : Is(f, n)}
  <1>0. N \in Nat /\ N >= 2
    BY Facts
  <1>1. ASSUME T # {} PROVE FALSE
    <2>1. PICK n \in T : \A y \in T : n <= y
      <3>1. T \subseteq Nat
        BY <1>0
      <3> HIDE DEF T
      <3> QED BY <1>1, <3>1, LeastNumber
    <2>2. CASE n = 0
      <3>1. 2 * N - 0 = 2 * N /\ 2 * N \in Nat /\ 2 * N >= N /\ 2 * N # N
        BY <1>0
      <3> DEFINE f == [k \in 2 * N .. 2 * N |-> Failed]
      <3>2. \A k \in 2 * N .. 2 * N : k >= N /\ k # N
        BY <3>1, <1>0
      <3>3. \A k \in 2 * N .. 2 * N : ParseRule(f, i, k) = Failed
        BY <3>2 DEF ParseRule
      <3>4. f = [k \in 2 * N - 0 .. 2 * N |-> ParseRule(f, i, k)]
        BY <3>1, <3>3
      <3> QED BY <2>1, <2>2, <3>4
    <2>3. CASE n # 0
      <3> HIDE DEF Is
      <3>1. n \in Nat /\ n >= 1 /\ n <= 2 * N /\ n - 1 \in 0 .. 2 * N /\ n - 1 \notin T
        BY <1>0, <2>1, <2>3
      <3>2. PICK f : Is(f, n - 1)
        BY <3>1
      <3>3. \A k \in 2 * N - (n - 1) .. 2 * N : f[k] = ParseRule(f, i, k)
        BY <3>2 DEF Is
      <3> HIDE DEF T
      <3> DEFINE a == 2 * N - n
                 g == [k \in a .. 2 * N |-> IF k = a THEN ParseRule(f, i, a) ELSE f[k]]
      <3>4. a \in Nat /\ 2 * N - (n - 1) = a + 1 /\ a <= 2 * N
        BY <1>0, <3>1
      <3> HIDE DEF a
      <3>5. \A k \in a + 1 .. 2 * N : k \in a .. 2 * N /\ k # a
        BY <1>0, <3>4
      <3>6. \A k \in a + 1 .. 2 * N : g[k] = f[k]
        BY <3>5
      <3> HIDE DEF g
      <3>7. ASSUME NEW k \in a .. 2 * N PROVE ParseRule(g, i, k) = ParseRule(f, i, k)
        <4>1. CASE k >= N
          BY <4>1 DEF ParseRule
        <4>2. CASE ~(k >= N)
          <5>1. k \in 0 .. N - 1 /\ k \in Nat /\ k < N
            BY <1>0, <3>4, <4>2
          <5> DEFINE b == blocks[Index(i + k)]
          <5>2. /\ b.status \in Statuses
                /\ b.status \in {"used", "invalid"} => b.block_num \in 1 .. N
            BY <5>1, WalkBlock
          <5>3. b.status \in {"used", "invalid"} => k + b.block_num \in a + 1 .. 2 * N
            <6> HIDE DEF b
            <6> QED BY <1>0, <3>4, <5>1, <5>2
          <5>4. b.status \in {"used", "invalid"} => g[k + b.block_num] = f[k + b.block_num]
            BY <3>6, <5>3
          <5> QED BY <4>2, <5>2, <5>4 DEF ParseRule, Statuses
        <4> QED BY <4>1, <4>2
      <3>8. \A k \in a .. 2 * N : g[k] = ParseRule(g, i, k)
        <4> SUFFICES ASSUME NEW k \in a .. 2 * N PROVE g[k] = ParseRule(f, i, k)
          BY <3>7
        <4>1. CASE k = a
          BY <4>1 DEF g
        <4>2. CASE k # a
          <5>1. k \in a + 1 .. 2 * N
            BY <1>0, <3>4, <4>2
          <5> QED BY <3>3, <3>4, <3>6, <5>1
        <4> QED BY <4>1, <4>2
      <3>9. Is(g, n)
        <4>1. g = [k \in a .. 2 * N |-> g[k]]
          BY DEF g
        <4>2. g = [k \in a .. 2 * N |-> ParseRule(g, i, k)]
          BY <3>8, <4>1
        <4> QED BY <4>2 DEF Is, a
      <3> QED BY <2>1, <3>9 DEF T
    <2> QED BY <2>2, <2>3
  <1>2. \E f : Is(f, 2 * N)
    <2>1. 2 * N \in 0 .. 2 * N
      BY <1>0
    <2> HIDE DEF Is
    <2> QED BY <1>1, <2>1
  <1>3. 2 * N - 2 * N = 0
    BY <1>0
  <1>4. \E f : f = [k \in 0 .. 2 * N |-> ParseRule(f, i, k)]
    BY <1>2, <1>3
  <1>5. Parse(i) = [k \in 0 .. 2 * N |-> ParseRule(Parse(i), i, k)]
    BY <1>4 DEF Parse
  <1> HIDE DEF i
  <1>6. \A k \in 0 .. 2 * N : Parse(i)[k] = ParseRule(Parse(i), i, k)
    BY <1>5
  <1> QED BY <1>6 DEF i

\* How far the walk is when it has stepped over j reservations, and the ones it
\* can step over: finished, and not an invalid one whose status the consumer
\* has cleared already.
Done == {"used", "invalid"}
Edge(j) == IF j = 0 THEN 0 ELSE To(Unread[j], read_cursor_cache)
Legible(j) == \A m \in 1 .. j : /\ Unread[m].kind \in Done
                                /\ blocks[Index(Unread[m].at)].status = Unread[m].kind

LEMMA EdgeIs ==
    ASSUME IInv, NEW j \in 0 .. Len(Unread), Legible(j)
    PROVE  /\ Edge(j) \in 0 .. N - 1
           /\ Minus(read_cursor_cache, read_cursor) + Edge(j) < N
           /\ j # 0 => Edge(j) > 0
           /\ j < Len(Unread) =>
                /\ j + 1 \in 1 .. Len(Unread) /\ j + 1 \in 0 .. Len(Unread)
                /\ Unread[j + 1] \in Ticket
                /\ From(Unread[j + 1], read_cursor_cache) = Edge(j)
                /\ Edge(j + 1) = Edge(j) + Unread[j + 1].n
                /\ Index(Index(read_cursor_cache) + Edge(j)) = Index(Unread[j + 1].at)
           /\ \A m \in 1 .. Len(Unread) :
                /\ m <= j => To(Unread[m], read_cursor_cache) <= Edge(j)
                /\ m > j => Edge(j) <= From(Unread[m], read_cursor_cache)
                /\ m > j + 1 => Edge(j) < From(Unread[m], read_cursor_cache)
  <1> DEFINE U == Unread
             c == read_cursor_cache
             r == read_cursor
             D == Minus(c, r)
             L == Len(Unread)
  <1>0. Types /\ Geometry /\ Fits
    BY DEF IInv
  <1>1. PICK q \in 0 .. Len(tickets) : ReadUpTo(q)
    BY ReadUpToIs
  <1>2. /\ Gapless(U, c, write_cursor)
        /\ \A i \in 1 .. L :
             /\ q + i \in 1 .. Len(tickets) /\ U[i] = tickets[q + i]
             /\ To(U[i], c) = To(U[i], r) - D
    BY <1>1, UnreadIs
  <1>3. /\ c \in Cursor /\ r \in Cursor /\ D \in 0 .. N - 1 /\ D \in Nat /\ D < N /\ N \in Nat
        /\ L \in Nat /\ j \in Nat /\ j <= L
    BY <1>0, <1>2, AtCursor, Facts, InRow DEF Types
  <1>4. \A m \in 1 .. L :
          /\ U[m] \in Ticket /\ U[m].n \in Nat /\ U[m].n >= 1 /\ U[m].at \in Cursor
          /\ From(U[m], c) \in Nat /\ To(U[m], c) \in Nat
          /\ From(U[m], c) < To(U[m], c) /\ To(U[m], c) = From(U[m], c) + U[m].n
    BY <1>2, InRow
  <1>5. /\ Edge(j) \in 0 .. N - 1 /\ D + Edge(j) < N /\ (j # 0 => Edge(j) > 0)
    <2>1. CASE j = 0
      <3>1. Edge(j) = 0
        BY <2>1 DEF Edge
      <3> HIDE DEF D
      <3> QED BY <1>3, <2>1, <3>1
    <2>2. CASE j # 0
      <3>1. j \in 1 .. L /\ Edge(j) = To(U[j], c) /\ j \in 1 .. j
        BY <1>3, <2>2 DEF Edge
      <3>2. U[j].kind \in Done
        BY <3>1 DEF Legible
      <3>3. Kept(U[j])
        BY <3>2 DEF Kept, Done
      <3>4. To(U[j], r) < N /\ To(U[j], r) \in Nat
        <4>1. q + j \in 1 .. Len(tickets) /\ U[j] = tickets[q + j]
          BY <1>2, <3>1
        <4> QED BY <1>0, <3>3, <4>1, InRow DEF Fits, Geometry
      <3>5. To(U[j], c) = To(U[j], r) - D
        BY <1>2, <3>1
      <3>6. To(U[j], c) \in Nat /\ To(U[j], c) > 0
        BY <1>4, <3>1
      <3> HIDE DEF D
      <3> QED BY <1>3, <3>1, <3>4, <3>5, <3>6
    <2> QED BY <2>1, <2>2
  <1>6. ASSUME j < L
        PROVE  /\ j + 1 \in 1 .. L /\ j + 1 \in 0 .. L
               /\ U[j + 1] \in Ticket
               /\ From(U[j + 1], c) = Edge(j) /\ Edge(j + 1) = Edge(j) + U[j + 1].n
               /\ Index(Index(c) + Edge(j)) = Index(U[j + 1].at)
    <2>1. j + 1 \in 1 .. L /\ j + 1 \in 0 .. L /\ j + 1 # 0 /\ (j # 0 => j + 1 # 1)
          /\ (j + 1) - 1 = j /\ L # 0
      BY <1>3, <1>6
    <2>2. From(U[j + 1], c) = Edge(j)
      <3>1. CASE j = 0
        <4>1. From(U[1], c) = 0
          BY <1>2, <2>1 DEF Gapless
        <4>2. j + 1 = 1 /\ Edge(j) = 0
          BY <3>1 DEF Edge
        <4> QED BY <4>1, <4>2
      <3>2. CASE j # 0
        <4>1. From(U[j + 1], c) = To(U[(j + 1) - 1], c)
          BY <1>2, <2>1, <3>2 DEF Gapless
        <4>2. Edge(j) = To(U[j], c)
          BY <3>2 DEF Edge
        <4> QED BY <2>1, <4>1, <4>2
      <3> QED BY <3>1, <3>2
    <2>3. Edge(j + 1) = To(U[j + 1], c)
      BY <2>1 DEF Edge
    <2>4. Edge(j + 1) = Edge(j) + U[j + 1].n
      BY <1>4, <2>1, <2>2, <2>3
    <2>5. U[j + 1].at \in Cursor /\ Plus(c, Minus(U[j + 1].at, c)) = U[j + 1].at
      BY <1>3, <1>4, <2>1, Distance
    <2>6. Plus(c, Edge(j)) = U[j + 1].at
      BY <2>2, <2>5 DEF From
    <2>7. Index(Index(c) + Edge(j)) = Place(c, Edge(j))
      BY <1>3, <1>5, IndexPlace
    <2> QED BY <1>4, <2>1, <2>2, <2>4, <2>6, <2>7 DEF Place
  <1>7. ASSUME NEW m \in 1 .. L, m <= j PROVE To(U[m], c) <= Edge(j)
    <2>1. j \in 1 .. L /\ j # 0 /\ m \in Nat
      BY <1>3, <1>7
    <2>2. Edge(j) = To(U[j], c)
      BY <2>1 DEF Edge
    <2>3. m < j => To(U[m], c) <= From(U[j], c)
      BY <1>2, <2>1, RowOrder
    <2>4. /\ To(U[m], c) \in Nat /\ From(U[j], c) \in Nat /\ To(U[j], c) \in Nat
          /\ From(U[j], c) < To(U[j], c)
      BY <1>4, <2>1
    <2>5. CASE m < j
      BY <2>2, <2>3, <2>4, <2>5
    <2>6. CASE m = j
      BY <2>2, <2>4, <2>6
    <2> QED BY <1>3, <1>7, <2>1, <2>5, <2>6
  <1>8. ASSUME NEW m \in 1 .. L, m > j
        PROVE  Edge(j) <= From(U[m], c) /\ (m > j + 1 => Edge(j) < From(U[m], c))
    <2>1. j < L /\ m \in Nat
      BY <1>3, <1>8
    <2>2. j + 1 \in 1 .. L /\ From(U[j + 1], c) = Edge(j)
      BY <1>6, <2>1
    <2>3. /\ From(U[m], c) \in Nat /\ From(U[j + 1], c) \in Nat /\ To(U[j + 1], c) \in Nat
          /\ From(U[j + 1], c) < To(U[j + 1], c)
      BY <1>4, <2>2
    <2>4. j + 1 < m => To(U[j + 1], c) <= From(U[m], c)
      BY <1>2, <2>2, RowOrder
    <2>5. CASE m = j + 1
      BY <1>3, <2>2, <2>3, <2>5
    <2>6. CASE m > j + 1
      <3>1. j + 1 < m
        BY <1>3, <2>1, <2>6
      <3> QED BY <2>2, <2>3, <2>4, <3>1
    <2> QED BY <1>3, <1>8, <2>1, <2>5, <2>6
  <1> QED BY <1>5, <1>6, <1>7, <1>8

\* What the walk does at the next reservation.
LEMMA WalkStep ==
    ASSUME IInv, NEW j \in 0 .. Len(Unread), Legible(j)
    PROVE  LET f == Parse(Index(read_cursor_cache))
           IN  \/ f[Edge(j)] = Edge(j)
                  /\ (j = Len(Unread) \/ Unread[j + 1].kind \notin Done \/ TornSkip)
               \/ f[Edge(j)] = Failed /\ LongInvalid
               \/ /\ f[Edge(j)] = f[Edge(j + 1)]
                  /\ j + 1 \in 0 .. Len(Unread) /\ Legible(j + 1)
  <1> DEFINE U == Unread
             c == read_cursor_cache
             i == Index(c)
             f == Parse(i)
             L == Len(Unread)
             k == Edge(j)
             b == blocks[Index(i + k)]
             t == U[j + 1]
  <1>0. Types /\ HeadsRight
    BY DEF IInv
  <1>1. /\ k \in 0 .. N - 1 /\ Minus(c, read_cursor) + k < N
        /\ (j # 0 => k > 0) /\ N \in Nat /\ N >= 2 /\ L \in Nat /\ j \in Nat /\ j <= L
    <2>1. PICK q \in 0 .. Len(tickets) : ReadUpTo(q)
      BY ReadUpToIs
    <2>2. L \in Nat
      BY <2>1, UnreadIs, InRow
    <2> QED BY <2>2, EdgeIs, Facts
  <1>2. j < L =>
          /\ j + 1 \in 1 .. L /\ j + 1 \in 0 .. L
          /\ t \in Ticket
          /\ From(t, c) = k /\ Edge(j + 1) = k + t.n
          /\ Index(i + k) = Index(t.at)
    BY EdgeIs
  <1>3. \A m \in 1 .. L : /\ m <= j => To(U[m], c) <= k
                          /\ m > j + 1 => k < From(U[m], c)
    BY EdgeIs
  <1>4. f[k] = ParseRule(f, i, k) /\ ~(k >= N)
    <2>1. k \in 0 .. 2 * N /\ ~(k >= N)
      <3> HIDE DEF k
      <3> QED BY <1>1
    <2> HIDE DEF k
    <2> QED BY <2>1, ParseIs
  <1>5. b.status = "unused" => f[k] = k
    <2> HIDE DEF k, f, i
    <2> QED BY <1>4 DEF ParseRule
  <1>6. PICK q \in 0 .. Len(tickets) : ReadUpTo(q)
    BY ReadUpToIs
  <1>7. \A m \in 1 .. L : /\ q + m \in 1 .. Len(tickets) /\ U[m] = tickets[q + m]
                          /\ U[m].kind # "read"
    BY <1>6, UnreadIs
  <1>8. \A m \in 1 .. L : From(U[m], c) \in Nat /\ To(U[m], c) \in Nat
    BY <1>6, UnreadIs, InRow
  <1>9. CASE j = L \/ t.kind = "tentative"
    <2>1. ASSUME NEW m \in 1 .. L, Kept(U[m]) PROVE ~Covers(U[m], c, k)
      <3>1. m # j + 1
        BY <1>1, <1>9, <2>1 DEF Kept
      <3>2. m \in Nat
        BY <1>1
      <3>3. CASE m <= j
        <4>1. To(U[m], c) <= k
          BY <1>3, <3>3
        <4> HIDE DEF k
        <4> QED BY <1>1, <1>8, <4>1 DEF Covers
      <3>4. CASE m > j + 1
        <4>1. k < From(U[m], c)
          BY <1>3, <3>4
        <4> HIDE DEF k
        <4> QED BY <1>1, <1>8, <4>1 DEF Covers
      <3> QED BY <1>1, <3>1, <3>2, <3>3, <3>4
    <2>2. blocks[Place(c, k)].status = "unused"
      BY <1>1, <2>1, FreeBehind
    <2>3. Index(i + k) = Place(c, k)
      BY <1>0, <1>1, IndexPlace DEF Types
    <2>4. t.kind = "tentative" => t.kind \notin Done
      BY DEF Done
    <2> HIDE DEF k, f, i
    <2> QED BY <1>5, <1>9, <2>2, <2>3, <2>4 DEF k, f, i
  <1>10. CASE j < L /\ t.kind = "open"
    <2>1. b.status = "unused"
      BY <1>0, <1>2, <1>7, <1>10 DEF HeadsRight
    <2> QED BY <1>5, <1>10, <2>1 DEF Done
  <1>11. CASE j < L /\ t.kind = "used"
    <2>0. j + 1 \in 1 .. L /\ t = tickets[q + (j + 1)] /\ q + (j + 1) \in 1 .. Len(tickets)
      BY <1>2, <1>7, <1>11
    <2>1. b.status = "used" /\ b.block_num = t.n /\ ~Wraps(t.at, t.n)
      BY <1>0, <1>2, <1>11, <2>0 DEF HeadsRight
    <2>2. ~Wraps(i + k, b.block_num)
      BY <1>2, <1>11, <2>1 DEF Wraps
    <2>3. f[k] = f[k + t.n]
      <3> HIDE DEF k, f, i, t
      <3> QED BY <1>4, <2>1, <2>2 DEF ParseRule
    <2>4. Legible(j + 1)
      <3>1. \A m \in 1 .. j + 1 : m \in 1 .. j \/ m = j + 1
        BY <1>1
      <3>2. t.kind \in Done /\ blocks[Index(t.at)].status = t.kind
        BY <1>2, <1>11, <2>1 DEF Done
      <3> QED BY <3>1, <3>2 DEF Legible
    <2> QED BY <1>2, <1>11, <2>3, <2>4
  <1>12. CASE j < L /\ t.kind = "invalid"
    <2>0. j + 1 \in 1 .. L /\ t = tickets[q + (j + 1)] /\ q + (j + 1) \in 1 .. Len(tickets)
      BY <1>2, <1>7, <1>12
    <2>1. /\ b.block_num = t.n /\ Wraps(t.at, t.n)
          /\ b.status = "invalid" \/ (b.status = "unused" /\ t.at = c)
      BY <1>0, <1>2, <1>12, <2>0 DEF HeadsRight
    <2>2. CASE b.status = "unused" /\ t.at = c
      <3>1. b = Head_
        BY <1>2, <1>12, <2>2 DEF Head_
      <3>2. TornSkip
        <4>1. q + (j + 1) \in DOMAIN tickets
          BY <1>0, <2>0 DEF Types
        <4> QED BY <1>12, <2>0, <2>2, <3>1, <4>1 DEF TornSkip
      <3> QED BY <1>5, <2>2, <3>2
    <2>3. CASE b.status = "invalid"
      <3>1. Legible(j + 1)
        <4>1. \A m \in 1 .. j + 1 : m \in 1 .. j \/ m = j + 1
          BY <1>1
        <4>2. t.kind \in Done /\ blocks[Index(t.at)].status = t.kind
          BY <1>2, <1>12, <2>3 DEF Done
        <4> QED BY <4>1, <4>2 DEF Legible
      <3>2. CASE ~Wraps(i + k + t.n, t.n)
        <4>1. f[k] = f[k + t.n]
          <5> HIDE DEF k, f, i, t
          <5> QED BY <1>4, <2>1, <2>3, <3>2 DEF ParseRule
        <4> QED BY <1>2, <1>12, <3>1, <4>1
      <3>3. CASE Wraps(i + k + t.n, t.n)
        <4>1. f[k] = Failed
          <5> HIDE DEF k, f, i, t
          <5> QED BY <1>4, <2>1, <2>3, <3>3 DEF ParseRule
        <4>2. k + t.n \in 0 .. N - 1
          BY <1>2, <1>12, <3>1, EdgeIs
        <4>3. t.n \in Nat /\ t.n >= 1 /\ t.at \in Cursor
          BY <1>0, <1>2, <1>12, TicketType DEF Types
        <4>4. c \in Cursor /\ Minus(t.at, c) = k /\ i \in 0 .. N - 1
          BY <1>0, <1>2, <1>12, IndexType DEF From, Types, Slot
        <4>5. t.n \in 0 .. N - 1 /\ t.n \in 0 .. N /\ t.n < N /\ k \in Nat
          <5> HIDE DEF k, t
          <5> QED BY <1>1, <4>2, <4>3
        <4>6. Place(t.at, t.n) = Place(c, k + t.n)
          <5>1. Minus(t.at, c) + t.n < N
            <6> HIDE DEF k, t
            <6> QED BY <1>1, <4>2, <4>3, <4>4
          <5>2. Minus(t.at, c) \in 0 .. N - 1
            BY <1>1, <4>4
          <5>3. Place(t.at, t.n) = Place(c, Minus(t.at, c) + t.n)
            BY <4>3, <4>4, <4>5, <5>1, <5>2, PlaceShift
          <5> QED BY <4>4, <5>3
        <4>7. Index(i + (k + t.n)) = Place(c, k + t.n)
          BY <4>2, <4>4, IndexPlace
        <4>8. i + (k + t.n) = i + k + t.n
          <5> HIDE DEF k, t, i
          <5> QED BY <4>3, <4>4, <4>5
        <4>9. Index(t.at) \in 0 .. N - 1
          BY <4>3, IndexType DEF Slot
        <4>10. Index(t.at) + t.n >= N
          <5> HIDE DEF t
          <5> QED BY <1>1, <2>1, <4>3, <4>9 DEF Wraps
        <4>11. Place(t.at, t.n) = Index(t.at) + t.n - N
          BY <4>3, <4>5, <4>10, IndexPlus DEF Place
        <4>12. Index(i + k + t.n) + t.n > N
          BY <3>3 DEF Wraps
        <4>13. Index(i + k + t.n) = Index(t.at) + t.n - N
          BY <4>6, <4>7, <4>8, <4>11
        <4>14. 2 * t.n > N
          <5> HIDE DEF t, k, i
          <5> QED BY <1>1, <4>3, <4>9, <4>12, <4>13
        <4>15. LongInvalid
          <5>1. j + 1 \in DOMAIN U
            <6>1. U \in Seq(Ticket)
              BY <1>6, UnreadIs DEF Gapless
            <6> QED BY <2>0, <6>1
          <5> QED BY <1>12, <4>14, <5>1 DEF LongInvalid
        <4> QED BY <4>1, <4>15
      <3> QED BY <3>2, <3>3
    <2> QED BY <2>1, <2>2, <2>3
  <1>13. j < L => t.kind \in {"tentative", "open", "used", "invalid"}
    BY <1>2, <1>7 DEF Ticket, Kinds
  <1> QED BY <1>1, <1>9, <1>10, <1>11, <1>12, <1>13

\* Where the walk ends: behind a reservation, or nowhere.
WalkEndsAt(m) ==
    /\ m \in 0 .. Len(Unread) /\ Legible(m)
    /\ m = Len(Unread) \/ Unread[m + 1].kind \notin Done \/ TornSkip

LEMMA ParsedEnds ==
    ASSUME IInv
    PROVE  \/ Parsed(Index(read_cursor_cache)) = Failed /\ LongInvalid
           \/ \E m \in 0 .. Len(Unread) :
                WalkEndsAt(m) /\ Parsed(Index(read_cursor_cache)) = Edge(m)
  <1> DEFINE f == Parse(Index(read_cursor_cache))
             L == Len(Unread)
             Ends(x) == \/ x = Failed /\ LongInvalid
                        \/ \E m \in 0 .. L : WalkEndsAt(m) /\ x = Edge(m)
             Bad == {j \in 0 .. L : Legible(j) /\ ~Ends(f[Edge(j)])}
             T == {n \in 0 .. L : L - n \in Bad}
  <1>0. L \in Nat
    <2>1. PICK q \in 0 .. Len(tickets) : ReadUpTo(q)
      BY ReadUpToIs
    <2> QED BY <2>1, UnreadIs, InRow
  <1>1. ASSUME T # {} PROVE FALSE
    <2>1. PICK n \in T : \A y \in T : n <= y
      <3>1. T \subseteq Nat
        BY <1>0
      <3> HIDE DEF T
      <3> QED BY <1>1, <3>1, LeastNumber
    <2> DEFINE j == L - n
    <2>2. n \in Nat /\ n <= L /\ j \in 0 .. L /\ j \in Nat /\ n = L - j /\ j \in Bad
      <3> HIDE DEF Bad
      <3> QED BY <1>0, <2>1
    <2> HIDE DEF j
    <2>3. Legible(j) /\ ~Ends(f[Edge(j)])
      <3> HIDE DEF Ends, f
      <3> QED BY <2>2
    <2>4. \/ f[Edge(j)] = Edge(j) /\ (j = L \/ Unread[j + 1].kind \notin Done \/ TornSkip)
          \/ f[Edge(j)] = Failed /\ LongInvalid
          \/ f[Edge(j)] = f[Edge(j + 1)] /\ j + 1 \in 0 .. L /\ Legible(j + 1)
      BY <2>2, <2>3, WalkStep
    <2>5. CASE f[Edge(j)] = Edge(j) /\ (j = L \/ Unread[j + 1].kind \notin Done \/ TornSkip)
      <3>1. WalkEndsAt(j)
        BY <2>2, <2>3, <2>5 DEF WalkEndsAt
      <3> QED BY <2>2, <2>3, <2>5, <3>1
    <2>6. CASE f[Edge(j)] = Failed /\ LongInvalid
      BY <2>3, <2>6
    <2>7. CASE f[Edge(j)] = f[Edge(j + 1)] /\ j + 1 \in 0 .. L /\ Legible(j + 1)
      <3>1. j + 1 \in Bad
        <4> HIDE DEF Ends, f
        <4> QED BY <2>3, <2>7
      <3> HIDE DEF Bad
      <3>2. n - 1 \in 0 .. L /\ L - (n - 1) = j + 1
        BY <1>0, <2>2, <2>7
      <3>3. n - 1 \in T
        BY <3>1, <3>2
      <3> HIDE DEF T
      <3> QED BY <2>1, <2>2, <3>3
    <2> QED BY <2>4, <2>5, <2>6, <2>7
  <1>2. 0 \in 0 .. L /\ L \in 0 .. L /\ L - L = 0
    BY <1>0
  <1>3. 0 \notin Bad
    <2>1. L \notin T
      BY <1>1, <1>2
    <2> HIDE DEF Bad
    <2> QED BY <1>2, <2>1
  <1>4. Legible(0) /\ Edge(0) = 0
    BY DEF Legible, Edge
  <1>5. Ends(f[Edge(0)])
    <2> HIDE DEF Ends, f
    <2> QED BY <1>2, <1>3, <1>4
  <1>6. Parsed(Index(read_cursor_cache)) = f[Edge(0)]
    BY <1>4, ParsedIs
  <1> QED BY <1>5, <1>6

\* A row covers every place up to its end.
LEMMA RowCovers ==
    ASSUME NEW ts, NEW r, NEW w, Gapless(ts, r, w), NEW d \in Nat, d < Minus(w, r)
    PROVE  \E i \in 1 .. Len(ts) : Covers(ts[i], r, d)
  <1> DEFINE L == Len(ts)
             T == {i \in 1 .. L : d < To(ts[i], r)}
  <1>1. /\ r \in Cursor /\ w \in Cursor /\ L \in Nat
        /\ \A i \in 1 .. L : From(ts[i], r) \in Nat /\ To(ts[i], r) \in Nat
    BY InRow
  <1>2. L # 0
    <2> SUFFICES ASSUME L = 0 PROVE FALSE
      OBVIOUS
    <2>1. w = r
      BY DEF Gapless
    <2> QED BY <1>1, <2>1, Distance
  <1>3. L \in 1 .. L /\ To(ts[L], r) = Minus(w, r) /\ From(ts[1], r) = 0
    BY <1>1, <1>2 DEF Gapless
  <1>4. T # {} /\ T \subseteq Nat
    BY <1>1, <1>3
  <1>5. PICK i \in T : \A y \in T : i <= y
    <2> HIDE DEF T
    <2> QED BY <1>4, LeastNumber
  <1>6. i \in 1 .. L /\ d < To(ts[i], r)
    BY <1>5
  <1>7. From(ts[i], r) <= d
    <2>1. CASE i = 1
      BY <1>3, <2>1
    <2>2. CASE i # 1
      <3>1. i - 1 \in 1 .. L /\ ~(i <= i - 1)
        BY <1>1, <1>6, <2>2
      <3>2. i - 1 \notin T
        <4> HIDE DEF T
        <4> QED BY <1>5, <3>1
      <3>3. ~(d < To(ts[i - 1], r))
        BY <3>1, <3>2
      <3>4. From(ts[i], r) = To(ts[i - 1], r)
        BY <1>6, <2>2 DEF Gapless
      <3> QED BY <1>1, <3>1, <3>3, <3>4
    <2> QED BY <2>1, <2>2
  <1> QED BY <1>6, <1>7 DEF Covers

LEMMA IndexSlot ==
    ASSUME NEW i \in Slot
    PROVE  i \in Cursor /\ Index(i) = i
  <1>1. N \in Nat /\ N >= 2 /\ M \in Nat /\ M >= 2 * N /\ i \in 0 .. N - 1
    BY Facts DEF Slot
  <1>2. i \in Cursor /\ i \in Int
    BY <1>1 DEF Cursor
  <1>3. i = N * 0 + i /\ 0 \in Int
    BY <1>1
  <1> QED BY <1>2, <1>3, Remainder DEF Index

\* Recovery keeps the first m unread reservations and puts them, from the index
\* i on, into the first lap.
RecoversTo(m, i) ==
    /\ rpc = "down" /\ rpc' = "idle"
    /\ read_cursor_cache' = i /\ read_cursor_start_cache' = i /\ read_cursor' = i
    /\ write_cursor' = i + Edge(m)
    /\ blocks' = recovered_blocks(i, Edge(m))
    /\ tickets' = [j \in 1 .. m |->
                     [Unread[j] EXCEPT !.at = i + From(Unread[j], read_cursor_cache)]]
    /\ prod' = prod /\ wt_read_cursor_cache' = wt_read_cursor_cache
    /\ m \in 0 .. Len(Unread) /\ Legible(m)
    /\ i \in Slot /\ (m # 0 => i = Index(read_cursor_cache))

LEMMA RecoverIs ==
    ASSUME IInv, recover
    PROVE  \E m \in 0 .. Len(Unread), i \in Slot :
             RecoversTo(m, i) /\ (WalkEndsAt(m) \/ (m = 0 /\ LongInvalid))
  <1> DEFINE c == read_cursor_cache
             parsed == Parsed(Index(c))
             ok == parsed # Failed
             i == IF ok THEN Index(c) ELSE 0
             k == IF ok THEN parsed ELSE 0
             U == Unread
             L == Len(Unread)
             kept == Cardinality({j \in DOMAIN U : From(U[j], c) < k})
  <1>0. PICK q \in 0 .. Len(tickets) : ReadUpTo(q)
    BY ReadUpToIs
  <1>1. /\ U \in Seq(Ticket) /\ L \in Nat /\ DOMAIN U = 1 .. L /\ c \in Cursor
        /\ \A j \in 1 .. L : /\ From(U[j], c) \in Nat /\ To(U[j], c) \in Nat
                             /\ From(U[j], c) < To(U[j], c)
    <2>1. Gapless(U, c, write_cursor)
      BY <1>0, UnreadIs
    <2>2. U \in Seq(Ticket)
      BY <2>1 DEF Gapless
    <2> QED BY <2>1, <2>2, InRow
  <1>2. /\ rpc = "down" /\ rpc' = "idle"
        /\ c' = i /\ read_cursor_start_cache' = i /\ read_cursor' = i
        /\ write_cursor' = i + k /\ blocks' = recovered_blocks(i, k)
        /\ prod' = prod /\ wt_read_cursor_cache' = wt_read_cursor_cache
        /\ tickets' = [j \in 1 .. kept |-> [U[j] EXCEPT !.at = i + From(U[j], c)]]
    BY DEF recover, From
  <1>3. Index(c) \in Slot /\ 0 \in Slot /\ N \in Nat /\ N >= 2
    BY <1>1, IndexType, Facts DEF Slot
  <1>4. \E m \in 0 .. L :
          /\ k = Edge(m) /\ Legible(m) /\ (m # 0 => i = Index(c)) /\ i \in Slot
          /\ WalkEndsAt(m) \/ (m = 0 /\ LongInvalid)
    <2>1. CASE ~ok
      <3>1. LongInvalid
        <4>1. ASSUME NEW m \in 0 .. L, WalkEndsAt(m), parsed = Edge(m) PROVE FALSE
          <5>1. Edge(m) \in 0 .. N - 1
            BY <4>1, EdgeIs DEF WalkEndsAt
          <5>2. Edge(m) = N + 1
            BY <2>1, <4>1 DEF Failed
          <5> QED BY <1>3, <5>1, <5>2
        <4> QED BY <4>1, ParsedEnds
      <3>2. 0 \in 0 .. L /\ Edge(0) = 0 /\ Legible(0)
        BY <1>1 DEF Edge, Legible
      <3>3. k = 0 /\ i = 0
        BY <2>1
      <3> HIDE DEF k, i
      <3> QED BY <1>3, <3>1, <3>2, <3>3
    <2>2. CASE ok
      <3>1. PICK m \in 0 .. L : WalkEndsAt(m) /\ parsed = Edge(m)
        BY <2>2, ParsedEnds
      <3>2. k = Edge(m) /\ i = Index(c)
        BY <2>2, <3>1
      <3>3. Legible(m)
        BY <3>1 DEF WalkEndsAt
      <3> HIDE DEF k, i
      <3> QED BY <1>3, <3>1, <3>2, <3>3
    <2> QED BY <2>1, <2>2
  <1> HIDE DEF k, i
  <1>5. PICK m \in 0 .. L :
          /\ k = Edge(m) /\ Legible(m) /\ (m # 0 => i = Index(c)) /\ i \in Slot
          /\ WalkEndsAt(m) \/ (m = 0 /\ LongInvalid)
    BY <1>4
  <1>6. kept = m
    <2>1. \A j \in 1 .. L : From(U[j], c) < k <=> j <= m
      <3> SUFFICES ASSUME NEW j \in 1 .. L PROVE From(U[j], c) < k <=> j <= m
        OBVIOUS
      <3>1. /\ j <= m => To(U[j], c) <= k
            /\ j > m => k <= From(U[j], c)
        BY <1>5, EdgeIs
      <3>2. k \in 0 .. N - 1 /\ k \in Nat
        BY <1>3, <1>5, EdgeIs
      <3>3. From(U[j], c) \in Nat /\ To(U[j], c) \in Nat /\ From(U[j], c) < To(U[j], c)
        BY <1>1
      <3>4. CASE j <= m
        BY <3>1, <3>2, <3>3, <3>4
      <3>5. CASE j > m
        BY <1>1, <3>1, <3>2, <3>3, <3>5
      <3> QED BY <1>1, <3>4, <3>5
    <2>2. m \in Nat /\ m <= L /\ m \in Int /\ 1 \in Int
      BY <1>1
    <2>3. {j \in DOMAIN U : From(U[j], c) < k} = 1 .. m
      <3>1. \A j : j \in {x \in DOMAIN U : From(U[x], c) < k} <=> j \in 1 .. L /\ j <= m
        BY <1>1, <2>1
      <3>2. \A j : j \in 1 .. m <=> j \in 1 .. L /\ j <= m
        BY <1>1, <2>2
      <3> HIDE DEF U, L
      <3> QED BY <3>1, <3>2
    <2>4. Cardinality(1 .. m) = IF 1 > m THEN 0 ELSE m - 1 + 1
      BY <2>2, FS_Interval
    <2>5. m = IF 1 > m THEN 0 ELSE m - 1 + 1
      BY <2>2
    <2> QED BY <2>3, <2>4, <2>5
  <1> HIDE DEF kept
  <1>7. RecoversTo(m, i)
    BY <1>2, <1>5, <1>6 DEF RecoversTo
  <1> QED BY <1>5, <1>7

\* What recovery leaves of the blocks and of the reservations.
LEMMA RecoveredRing ==
    ASSUME IInv, NEW m \in 0 .. Len(Unread), NEW i \in Slot, RecoversTo(m, i)
    PROVE  /\ i \in Cursor /\ i + Edge(m) \in Cursor /\ Minus(i + Edge(m), i) = Edge(m)
           /\ blocks' \in [Slot -> Block]
           /\ \A j \in Slot : \/ blocks'[j] = blocks[j]
                              \/ blocks'[j].status = "unused"
           /\ \A d \in 0 .. N - 1 :
                /\ d >= Edge(m) => blocks'[Place(i, d)].status = "unused"
                /\ d < Edge(m) => blocks'[Place(i, d)] = blocks[Place(i, d)]
           /\ tickets' \in Seq(Ticket) /\ Len(tickets') = m
           /\ \A j \in 1 .. m :
                /\ j \in 1 .. Len(Unread)
                /\ tickets'[j].owner = Unread[j].owner /\ tickets'[j].n = Unread[j].n
                /\ tickets'[j].kind = Unread[j].kind
                /\ From(tickets'[j], i) = From(Unread[j], read_cursor_cache)
                /\ To(tickets'[j], i) = To(Unread[j], read_cursor_cache)
                /\ Index(tickets'[j].at) = Index(Unread[j].at)
                /\ blocks'[Index(tickets'[j].at)] = blocks[Index(Unread[j].at)]
  <1> DEFINE U == Unread
             c == read_cursor_cache
             L == Len(Unread)
             k == Edge(m)
  <1>0. /\ blocks' = recovered_blocks(i, k)
        /\ tickets' = [j \in 1 .. m |-> [U[j] EXCEPT !.at = i + From(U[j], c)]]
        /\ Legible(m) /\ (m # 0 => i = Index(c))
    BY DEF RecoversTo
  <1>1. k \in 0 .. N - 1 /\ N \in Nat /\ N >= 2 /\ k \in Nat /\ k < N
    BY <1>0, EdgeIs, Facts
  <1>2. i \in Cursor /\ Index(i) = i
    BY IndexSlot
  <1>3. \A d \in 0 .. N - 1 :
          /\ i + d \in Cursor /\ Index(i + d) = Place(i, d) /\ Minus(i + d, i) = d
          /\ Place(i, d) \in Slot
    BY <1>2, IndexPlace
  <1>4. i + k \in Cursor /\ Minus(i + k, i) = k
    BY <1>1, <1>3
  <1> HIDE DEF k
  <1>5. blocks' = [j \in Slot |-> IF \E d \in k .. N - 1 : j = Place(i, d)
                                  THEN [blocks[j] EXCEPT !.status = "unused"] ELSE blocks[j]]
    <2>1. \A j : (\E d \in k .. N - 1 : j = Index(i + d)) <=> \E d \in k .. N - 1 : j = Place(i, d)
      <3>1. \A d \in k .. N - 1 : d \in 0 .. N - 1
        BY <1>1
      <3> QED BY <1>3, <3>1
    <2> QED BY <1>0, <2>1 DEF recovered_blocks
  <1>6. \A j \in Slot : /\ [blocks[j] EXCEPT !.status = "unused"] \in Block
                        /\ [blocks[j] EXCEPT !.status = "unused"].status = "unused"
    <2>1. \A j \in Slot : blocks[j] \in Block
      BY DEF IInv, Types
    <2> QED BY <2>1 DEF Block, Statuses
  <1>7. /\ \A j \in Slot : (\E d \in k .. N - 1 : j = Place(i, d)) =>
             blocks'[j] = [blocks[j] EXCEPT !.status = "unused"]
        /\ \A j \in Slot : ~(\E d \in k .. N - 1 : j = Place(i, d)) => blocks'[j] = blocks[j]
        /\ blocks' = [j \in Slot |-> blocks'[j]]
    BY <1>5
  <1>8. blocks' \in [Slot -> Block]
    <2>1. \A j \in Slot : blocks[j] \in Block
      BY DEF IInv, Types
    <2>2. \A j \in Slot : blocks'[j] \in Block
      BY <1>6, <1>7, <2>1
    <2> QED BY <1>7, <2>2
  <1>9. \A j \in Slot : blocks'[j] = blocks[j] \/ blocks'[j].status = "unused"
    BY <1>6, <1>7
  <1>10. ASSUME NEW d \in 0 .. N - 1
         PROVE  /\ d >= k => blocks'[Place(i, d)].status = "unused"
                /\ d < k => blocks'[Place(i, d)] = blocks[Place(i, d)]
    <2>1. CASE d >= k
      <3>1. d \in k .. N - 1
        BY <1>1, <2>1
      <3>2. Place(i, d) \in Slot
        BY <1>3
      <3>3. \E e \in k .. N - 1 : Place(i, d) = Place(i, e)
        BY <3>1
      <3>4. blocks'[Place(i, d)].status = "unused"
        BY <1>6, <1>7, <3>2, <3>3
      <3>5. ~(d < k)
        BY <1>1, <2>1
      <3> QED BY <3>4, <3>5
    <2>2. CASE d < k
      <3>1. ASSUME NEW e \in k .. N - 1, Place(i, d) = Place(i, e) PROVE FALSE
        <4>1. e \in 0 .. N - 1
          BY <1>1
        <4>2. d = e
          BY <1>2, <3>1, <4>1, PlaceOnce
        <4> QED BY <1>1, <2>2, <4>2
      <3>2. Place(i, d) \in Slot
        BY <1>3
      <3> QED BY <1>1, <1>7, <2>2, <3>1, <3>2
    <2> QED BY <1>1, <2>1, <2>2
  <1>11. PICK q \in 0 .. Len(tickets) : ReadUpTo(q)
    BY ReadUpToIs
  <1>12. /\ L \in Nat /\ c \in Cursor /\ m \in Nat /\ m <= L
         /\ \A j \in 1 .. L : /\ U[j] \in Ticket /\ U[j].at \in Cursor
                              /\ From(U[j], c) \in Nat /\ To(U[j], c) \in Nat
                              /\ From(U[j], c) < To(U[j], c)
                              /\ To(U[j], c) = From(U[j], c) + U[j].n
    <2>1. Gapless(U, c, write_cursor)
      BY <1>11, UnreadIs
    <2> QED BY <2>1, InRow
  <1>13. ASSUME NEW j \in 1 .. m
         PROVE  /\ j \in 1 .. L /\ tickets'[j] \in Ticket
                /\ tickets'[j].owner = U[j].owner /\ tickets'[j].n = U[j].n
                /\ tickets'[j].kind = U[j].kind
                /\ From(tickets'[j], i) = From(U[j], c)
                /\ To(tickets'[j], i) = To(U[j], c)
                /\ Index(tickets'[j].at) = Index(U[j].at)
                /\ blocks'[Index(tickets'[j].at)] = blocks[Index(U[j].at)]
    <2> DEFINE F == From(U[j], c)
    <2>1. j \in 1 .. L /\ j <= m /\ m # 0
      BY <1>12
    <2>2. To(U[j], c) <= k
      BY <1>0, <2>1, EdgeIs DEF k
    <2>3. U[j] \in Ticket /\ U[j].at \in Cursor /\ F \in Nat /\ F < To(U[j], c)
          /\ To(U[j], c) \in Nat /\ To(U[j], c) = F + U[j].n
      BY <1>12, <2>1
    <2>4. F \in 0 .. N - 1 /\ F < k
      <3> HIDE DEF F
      <3> QED BY <1>1, <2>2, <2>3
    <2>5. Plus(c, F) = U[j].at
      BY <1>12, <2>3, Distance DEF From
    <2> HIDE DEF F
    <2>6. tickets'[j] = [U[j] EXCEPT !.at = i + F]
      BY <1>0 DEF F
    <2>7. i + F \in Cursor /\ Minus(i + F, i) = F /\ Index(i + F) = Place(i, F)
      BY <1>3, <2>4
    <2>8. /\ tickets'[j] \in Ticket
          /\ tickets'[j].owner = U[j].owner /\ tickets'[j].n = U[j].n
          /\ tickets'[j].kind = U[j].kind /\ tickets'[j].at = i + F
      BY <2>3, <2>6, <2>7 DEF Ticket
    <2>9. From(tickets'[j], i) = F /\ To(tickets'[j], i) = F + U[j].n
      BY <2>7, <2>8 DEF From, To
    <2>10. Place(i, F) = Place(c, F) /\ i = Index(c)
      BY <1>0, <1>12, <2>1, <2>4, IndexPlace
    <2>11. Index(tickets'[j].at) = Place(i, F) /\ Index(U[j].at) = Place(i, F)
      BY <2>5, <2>7, <2>8, <2>10 DEF Place
    <2>12. blocks'[Place(i, F)] = blocks[Place(i, F)]
      BY <1>10, <2>4
    <2>13. To(tickets'[j], i) = To(U[j], c)
      BY <2>3, <2>9
    <2> QED BY <2>1, <2>8, <2>9, <2>11, <2>12, <2>13 DEF F
  <1>14. tickets' \in Seq(Ticket) /\ Len(tickets') = m
    <2>1. \A j \in 1 .. m : tickets'[j] \in Ticket
      BY <1>13
    <2>2. tickets' = [j \in 1 .. m |-> tickets'[j]]
      BY <1>0
    <2>3. tickets' \in [1 .. m -> Ticket]
      BY <2>1, <2>2
    <2> QED BY <1>12, <2>3
  <1> QED BY <1>2, <1>4, <1>8, <1>9, <1>10, <1>13, <1>14 DEF k

LEMMA RecoveredRow ==
    ASSUME IInv, NEW m \in 0 .. Len(Unread), NEW i \in Slot, RecoversTo(m, i)
    PROVE  Gapless(tickets', i, i + Edge(m))
  <1> DEFINE U == Unread
             c == read_cursor_cache
             L == Len(Unread)
             us == [j \in 1 .. m |-> U[j]]
             v == IF m < L THEN U[m + 1].at ELSE write_cursor
  <1>0. PICK q \in 0 .. Len(tickets) : ReadUpTo(q)
    BY ReadUpToIs
  <1>1. Gapless(U, c, write_cursor)
    BY <1>0, UnreadIs
  <1>2. /\ L \in Nat /\ c \in Cursor /\ m \in Nat /\ m <= L /\ write_cursor \in Cursor
        /\ \A j \in 1 .. L : U[j] \in Ticket /\ U[j].at \in Cursor
    BY <1>1, InRow
  <1>3. us \in Seq(Ticket) /\ Len(us) = m /\ \A j \in 1 .. m : us[j] = U[j]
    <2>1. \A j \in 1 .. m : U[j] \in Ticket
      BY <1>2
    <2>2. us \in [1 .. m -> Ticket]
      BY <2>1
    <2> QED BY <1>2, <2>2
  <1> HIDE DEF us
  <1>4. Legible(m)
    BY DEF RecoversTo
  <1>5. v \in Cursor /\ Minus(v, c) = Edge(m)
    <2>1. CASE m < L
      <3>1. m + 1 \in 1 .. L /\ From(U[m + 1], c) = Edge(m)
        BY <1>4, <2>1, EdgeIs
      <3> QED BY <1>2, <2>1, <3>1 DEF From
    <2>2. CASE ~(m < L)
      <3>1. m = L /\ v = write_cursor
        BY <1>2, <2>2
      <3>2. CASE L = 0
        <4>1. write_cursor = c
          BY <1>1, <3>2 DEF Gapless
        <4>2. Edge(m) = 0
          BY <3>1, <3>2 DEF Edge
        <4> QED BY <1>2, <3>1, <4>1, <4>2, Distance
      <3>3. CASE L # 0
        <4>1. To(U[L], c) = Minus(write_cursor, c)
          BY <1>1, <3>3 DEF Gapless
        <4>2. Edge(m) = To(U[L], c)
          BY <3>1, <3>3 DEF Edge
        <4> QED BY <1>2, <3>1, <4>1, <4>2
      <3> QED BY <3>2, <3>3
    <2> QED BY <2>1, <2>2
  <1>6. c = IF 1 <= L THEN U[1].at ELSE write_cursor
    <2>1. CASE 1 <= L
      <3>1. 1 \in 1 .. L /\ L # 0
        BY <1>2, <2>1
      <3>2. From(U[1], c) = 0
        BY <1>1, <3>1 DEF Gapless
      <3>3. U[1].at \in Cursor
        BY <1>2, <3>1
      <3> QED BY <1>2, <2>1, <3>2, <3>3, Distance DEF From
    <2>2. CASE ~(1 <= L)
      <3>1. L = 0
        BY <1>2, <2>2
      <3> QED BY <1>1, <2>2, <3>1 DEF Gapless
    <2> QED BY <2>1, <2>2
  <1> HIDE DEF v
  <1>7. Gapless(us, c, v)
    <2> DEFINE a == 1
    <2>1. a \in 1 .. Len(U) + 1 /\ m \in 0 .. Len(U) /\ a <= m + 1
      BY <1>2
    <2>2. m - a + 1 = m /\ \A j \in 1 .. m - a + 1 : a - 1 + j = j /\ j \in 1 .. m
      BY <1>2
    <2>3. Len(us) = m - a + 1 /\ \A j \in 1 .. m - a + 1 : us[j] = U[a - 1 + j]
      BY <1>3, <2>2
    <2>4. c = IF a <= Len(U) THEN U[a].at ELSE write_cursor
      BY <1>6
    <2>5. v = IF m < Len(U) THEN U[m + 1].at ELSE write_cursor
      BY DEF v
    <2>6. us \in Seq(Ticket) /\ c \in Cursor /\ v \in Cursor
      BY <1>2, <1>3, <1>5
    <2> HIDE DEF a
    <2> QED BY <1>1, <2>1, <2>3, <2>4, <2>5, <2>6, PartOfRow
  <1>8. /\ i \in Cursor /\ i + Edge(m) \in Cursor /\ Minus(i + Edge(m), i) = Edge(m)
        /\ tickets' \in Seq(Ticket) /\ Len(tickets') = m
        /\ \A j \in 1 .. m : tickets'[j].n = U[j].n /\ From(tickets'[j], i) = From(U[j], c)
    BY RecoveredRing
  <1>9. Len(tickets') = Len(us) /\ Minus(i + Edge(m), i) = Minus(v, c)
    BY <1>3, <1>5, <1>8
  <1>10. \A j \in 1 .. Len(us) : From(tickets'[j], i) = From(us[j], c) /\ tickets'[j].n = us[j].n
    BY <1>3, <1>8
  <1> QED BY <1>7, <1>8, <1>9, <1>10, SameRow

LEMMA RecoverStep ==
    ASSUME IInv, recover
    PROVE  IInv'
  <1> DEFINE U == Unread
             c == read_cursor_cache
             L == Len(Unread)
  <1>0. Types /\ Holders /\ HeadsRight
    BY DEF IInv
  <1>1. PICK m \in 0 .. L, i \in Slot : RecoversTo(m, i)
    BY RecoverIs
  <1> DEFINE k == Edge(m)
  <1>2. /\ rpc = "down" /\ rpc' = "idle"
        /\ read_cursor_cache' = i /\ read_cursor_start_cache' = i /\ read_cursor' = i
        /\ write_cursor' = i + k
        /\ prod' = prod /\ wt_read_cursor_cache' = wt_read_cursor_cache
        /\ Legible(m)
    BY <1>1 DEF RecoversTo
  <1>3. /\ i \in Cursor /\ i + k \in Cursor /\ Minus(i + k, i) = k
        /\ blocks' \in [Slot -> Block]
        /\ \A j \in Slot : blocks'[j] = blocks[j] \/ blocks'[j].status = "unused"
        /\ \A d \in 0 .. N - 1 : d >= k => blocks'[Place(i, d)].status = "unused"
        /\ tickets' \in Seq(Ticket) /\ Len(tickets') = m
        /\ \A j \in 1 .. m :
             /\ j \in 1 .. L
             /\ tickets'[j].owner = U[j].owner /\ tickets'[j].n = U[j].n
             /\ tickets'[j].kind = U[j].kind
             /\ From(tickets'[j], i) = From(U[j], c) /\ To(tickets'[j], i) = To(U[j], c)
             /\ Index(tickets'[j].at) = Index(U[j].at)
             /\ blocks'[Index(tickets'[j].at)] = blocks[Index(U[j].at)]
    BY <1>1, RecoveredRing
  <1>4. Gapless(tickets', i, i + k)
    BY <1>1, RecoveredRow
  <1>5. k \in 0 .. N - 1 /\ k \in Nat /\ k < N /\ N \in Nat
    BY <1>2, EdgeIs, Facts
  <1>6. \A j \in 1 .. m : /\ tickets'[j].kind \in Done
                          /\ blocks'[Index(tickets'[j].at)].status = tickets'[j].kind
    BY <1>2, <1>3 DEF Legible
  <1> HIDE DEF k
  <1>7. Types'
    BY <1>0, <1>2, <1>3 DEF Types
  <1>8. Geometry'
    BY <1>2, <1>4 DEF Geometry
  <1>9. Holders'
    <2>1. \A p \in Producers : prod[p].pc = "idle"
      BY <1>0, <1>2 DEF Holders
    <2>2. \A j \in 1 .. m : tickets'[j].kind \notin Pending
      BY <1>6 DEF Pending, Done
    <2>3. \A j \in 1 .. m : tickets'[j].kind # "tentative" /\ tickets'[j].kind # "open"
      BY <1>6 DEF Done
    <2> QED BY <1>2, <1>3, <2>1, <2>2, <2>3 DEF Holders, Undone, Writing
  <1>10. Fits'
    <2>1. \A j \in 1 .. m : To(tickets'[j], i) < N
      <3> SUFFICES ASSUME NEW j \in 1 .. m PROVE To(tickets'[j], i) < N
        OBVIOUS
      <3>1. j \in 1 .. L /\ To(tickets'[j], i) = To(U[j], c) /\ To(tickets'[j], i) \in Nat
        BY <1>3, <1>4, InRow
      <3>2. j <= m
        BY <1>3
      <3>3. To(U[j], c) <= k
        BY <1>2, <3>1, <3>2, EdgeIs DEF k
      <3> QED BY <1>5, <3>1, <3>3
    <2> QED BY <1>2, <1>3, <2>1 DEF Fits
  <1>11. HeadsRight'
    <2>1. \A j \in Slot : blocks'[j].status \in {"used", "invalid"} => blocks'[j].block_num # 0
      BY <1>0, <1>3 DEF HeadsRight
    <2>2. PICK q \in 0 .. Len(tickets) : ReadUpTo(q)
      BY ReadUpToIs
    <2>3. \A j \in 1 .. L : q + j \in 1 .. Len(tickets) /\ U[j] = tickets[q + j]
      BY <2>2, UnreadIs
    <2>4. \A j \in 1 .. L : U[j].kind = "used" =>
            blocks[Index(U[j].at)].block_num = U[j].n /\ ~Wraps(U[j].at, U[j].n)
      BY <1>0, <2>3 DEF HeadsRight
    <2>5. \A j \in 1 .. L : U[j].kind = "invalid" =>
            blocks[Index(U[j].at)].block_num = U[j].n /\ Wraps(U[j].at, U[j].n)
      BY <1>0, <2>3 DEF HeadsRight
    <2>6. \A j \in 1 .. m : tickets'[j].kind = "used" =>
            /\ blocks'[Index(tickets'[j].at)].status = "used"
            /\ blocks'[Index(tickets'[j].at)].block_num = tickets'[j].n
            /\ ~Wraps(tickets'[j].at, tickets'[j].n)
      BY <1>3, <1>6, <2>4 DEF Wraps
    <2>7. \A j \in 1 .. m : tickets'[j].kind = "invalid" =>
            /\ blocks'[Index(tickets'[j].at)].block_num = tickets'[j].n
            /\ Wraps(tickets'[j].at, tickets'[j].n)
            /\ blocks'[Index(tickets'[j].at)].status = "invalid"
      BY <1>3, <1>6, <2>5 DEF Wraps
    <2>8. \A j \in 1 .. m : tickets'[j].kind # "open"
      BY <1>6 DEF Done
    <2> QED BY <1>2, <1>3, <2>1, <2>6, <2>7, <2>8 DEF HeadsRight
  <1>12. FreeClean'
    <2>1. ASSUME NEW d \in 0 .. N - 1,
                 \A j \in 1 .. m : Kept(tickets'[j]) => ~Covers(tickets'[j], i, d)
          PROVE  blocks'[Place(i, d)].status = "unused"
      <3>1. CASE d >= k
        BY <1>3, <3>1
      <3>2. CASE d < k
        <4>1. d \in Nat /\ d < Minus(i + k, i)
          BY <1>3, <1>5, <3>2
        <4>2. \E j \in 1 .. m : Covers(tickets'[j], i, d)
          BY <1>3, <1>4, <4>1, RowCovers
        <4>3. \A j \in 1 .. m : Kept(tickets'[j])
          BY <1>6 DEF Kept, Done
        <4> QED BY <2>1, <4>2, <4>3
      <3> QED BY <1>5, <3>1, <3>2
    <2> QED BY <1>2, <1>3, <2>1 DEF FreeClean
  <1>13. Reader'
    <2>1. Minus(i, i) = 0
      BY <1>3, Distance
    <2>2. \A j \in 1 .. m : From(tickets'[j], i) \in Nat
      BY <1>3, <1>4, InRow
    <2>3. \A j \in 1 .. m : tickets'[j].kind # "read" /\ ~(From(tickets'[j], i) < 0)
      BY <1>6, <2>2 DEF Done
    <2>4. \A j \in 1 .. m : (tickets'[j].kind = "read") <=> From(tickets'[j], i) < Minus(i, i)
      BY <2>1, <2>3
    <2> QED BY <1>2, <1>3, <2>4 DEF Reader
  <1> QED BY <1>7, <1>8, <1>9, <1>10, <1>11, <1>12, <1>13 DEF IInv

-----------------------------------------------------------------------------
(* The theorems *)

LEMMA Initially == Init => IInv
  <1> SUFFICES ASSUME Init PROVE IInv
    OBVIOUS
  <1>1. /\ blocks = [i \in Slot |-> [status |-> "unused", block_num |-> 0]]
        /\ write_cursor = Start /\ read_cursor = Start
        /\ read_cursor_cache = Start /\ read_cursor_start_cache = Start
        /\ rpc = "idle" /\ tickets = <<>>
        /\ prod = [p \in Producers |-> Idle]
        /\ wt_read_cursor_cache = [p \in Producers |-> NoCache]
    BY DEF Init
  <1>2. Start \in Cursor /\ N \in Nat
    BY MisoAssumption, Facts
  <1>3. Idle \in Local /\ Idle.pc = "idle"
    <2>1. 0 \in Cursor
      BY Facts DEF Cursor
    <2> QED BY <2>1 DEF Idle, Local, Pcs
  <1>4. [status |-> "unused", block_num |-> 0] \in Block
    BY <1>2 DEF Block, Statuses
  <1>5. tickets \in Seq(Ticket) /\ Len(tickets) = 0 /\ 1 .. Len(tickets) = {}
    BY <1>1
  <1>6. /\ blocks \in [Slot -> Block]
        /\ \A j \in Slot : blocks[j].status = "unused"
    BY <1>1, <1>4
  <1>7. /\ prod \in [Producers -> Local] /\ \A p \in Producers : prod[p].pc = "idle"
        /\ wt_read_cursor_cache \in [Producers -> Cursor \cup {NoCache}]
    BY <1>1, <1>3
  <1>8. Types
    BY <1>1, <1>2, <1>5, <1>6, <1>7 DEF Types
  <1>9. Geometry
    BY <1>1, <1>2, <1>5 DEF Geometry, Gapless
  <1>10. Holders /\ Fits /\ HeadsRight
    BY <1>1, <1>5, <1>6, <1>7 DEF Holders, Fits, HeadsRight, Undone, Writing
  <1>11. FreeClean
    <2>1. \A d \in 0 .. N - 1 : d \in 0 .. N
      BY <1>2
    <2>2. \A d \in 0 .. N - 1 : Place(read_cursor, d) \in Slot
      BY <1>1, <1>2, <2>1, PlaceType
    <2> QED BY <1>6, <2>2 DEF FreeClean
  <1>12. Reader
    BY <1>1, <1>5 DEF Reader
  <1> QED BY <1>8, <1>9, <1>10, <1>11, <1>12 DEF IInv

LEMMA NextStep == IInv /\ ViewsFresh /\ [Next]_vars => IInv'
  <1> SUFFICES ASSUME IInv, ViewsFresh, [Next]_vars PROVE IInv'
    OBVIOUS
  <1>1. CASE \E p \in Producers, n \in Needs : load_write_cursor(p, n)
    BY <1>1, LoadWriteCursorStep
  <1>2. CASE \E p \in Producers : producer(p) \/ tls_recycled(p)
    BY <1>2, ProducerStep
  <1>3. CASE consumer
    BY <1>3, ReadChunkStep, SkipStep, ReturnStep, PublishStep DEF consumer
  <1>4. CASE read_an_empty_chunk \/ discard_read_chunk
    <2>1. /\ rpc \in {"idle", "lent", "empty"} /\ rpc' \in {"idle", "empty"}
          /\ UNCHANGED <<blocks, cursors, prod, wt_read_cursor_cache, tickets>>
      BY <1>4 DEF read_an_empty_chunk, discard_read_chunk
    <2> QED BY <2>1, HandleStep
  <1>5. CASE crash \/ recover
    BY <1>5, CrashStep, RecoverStep
  <1>6. CASE UNCHANGED vars
    BY <1>6 DEF vars, cursors, IInv, Types, Geometry, Holders, Fits, HeadsRight, FreeClean, Reader
  <1> QED BY <1>1, <1>2, <1>3, <1>4, <1>5, <1>6 DEF Next

\* The inductive invariant of the ring, from which the theorems below follow.
LEMMA Invariance == Spec /\ []ViewsFresh => []IInv
  BY Initially, NextStep, PTL DEF Spec

LEMMA RowHasNoHoles == ASSUME IInv PROVE NoHoles
  <1> DEFINE r == read_cursor
             L == Len(tickets)
             behind == [i \in DOMAIN tickets |-> Behind(tickets[i])]
             ends == <<r>> \o behind
  <1>1. /\ tickets \in Seq(Ticket) /\ L \in Nat /\ DOMAIN tickets = 1 .. L /\ r \in Cursor
        /\ Gapless(tickets, r, write_cursor) /\ write_cursor \in Cursor
    BY DEF IInv, Types, Geometry
  <1>2. \A i \in 1 .. L :
          /\ tickets[i].at \in Cursor /\ Behind(tickets[i]) \in Cursor
          /\ Minus(Behind(tickets[i]), r) = To(tickets[i], r)
    <2>1. \A i \in 1 .. L : tickets[i] \in Ticket /\ To(tickets[i], r) < M
      BY <1>1, InRow
    <2> QED BY <1>1, <2>1, TicketType
  <1>3. behind \in Seq(Cursor) /\ Len(behind) = L
    <2>1. behind \in [1 .. L -> Cursor]
      BY <1>1, <1>2
    <2>2. DOMAIN behind = 1 .. L
      BY <1>1
    <2> QED BY <1>1, <2>1, <2>2
  <1>4. \A i \in 1 .. L : behind[i] = Behind(tickets[i])
    BY <1>1
  <1> HIDE DEF behind
  <1>5. /\ Len(ends) = L + 1 /\ ends[1] = r
        /\ \A i \in 1 .. L : ends[i + 1] = behind[i]
    <2>1. <<r>> \in Seq(Cursor) /\ Len(<<r>>) = 1 /\ <<r>>[1] = r
      BY <1>1
    <2>2. /\ Len(ends) = 1 + L
          /\ \A i \in 1 .. 1 + L : ends[i] = IF i <= 1 THEN <<r>>[i] ELSE behind[i - 1]
      BY <1>1, <1>3, <2>1, ConcatProperties
    <2> HIDE DEF ends
    <2>3. \A i \in 1 .. L : i + 1 \in 1 .. 1 + L /\ ~(i + 1 <= 1) /\ (i + 1) - 1 = i
      BY <1>1
    <2>4. 1 \in 1 .. 1 + L /\ 1 <= 1
      BY <1>1
    <2> QED BY <1>1, <2>1, <2>2, <2>3, <2>4
  <1> HIDE DEF ends
  <1>6. ASSUME NEW i \in 1 .. L PROVE tickets[i].at = ends[i]
    <2>1. CASE i = 1
      <3>1. L # 0
        BY <1>1
      <3>2. From(tickets[1], r) = 0
        BY <1>1, <3>1 DEF Gapless
      <3> QED BY <1>1, <1>2, <1>5, <2>1, <3>2, Distance DEF From
    <2>2. CASE i # 1
      <3>1. i - 1 \in 1 .. L /\ (i - 1) + 1 = i
        BY <1>1, <2>2
      <3>2. From(tickets[i], r) = To(tickets[i - 1], r)
        BY <1>1, <2>2 DEF Gapless
      <3>3. ends[i] = Behind(tickets[i - 1])
        BY <1>4, <1>5, <3>1
      <3>4. Minus(tickets[i].at, r) = Minus(Behind(tickets[i - 1]), r)
        BY <1>2, <3>1, <3>2 DEF From
      <3> QED BY <1>1, <1>2, <3>1, <3>3, <3>4, SameDistance
    <2> QED BY <2>1, <2>2
  <1>7. write_cursor = ends[Len(ends)]
    <2>1. CASE L = 0
      <3>1. write_cursor = r
        BY <1>1, <2>1 DEF Gapless
      <3> QED BY <1>5, <2>1, <3>1
    <2>2. CASE L # 0
      <3>1. L \in 1 .. L /\ To(tickets[L], r) = Minus(write_cursor, r)
        BY <1>1, <2>2 DEF Gapless
      <3>2. ends[Len(ends)] = Behind(tickets[L])
        BY <1>4, <1>5, <3>1
      <3> QED BY <1>1, <1>2, <3>1, <3>2, SameDistance
    <2> QED BY <2>1, <2>2
  <1> QED BY <1>1, <1>6, <1>7 DEF NoHoles, ends, behind

LEMMA FreeIsClean == ASSUME IInv PROVE FreeBlocksClean
  <1> DEFINE r == read_cursor
             L == Len(tickets)
  <1>1. DOMAIN tickets = 1 .. L /\ r \in Cursor /\ N \in Nat
    BY Facts DEF IInv, Types
  <1>2. ASSUME NEW j \in Slot, ~Occupied(j) PROVE blocks[j].status = "unused"
    <2>1. PICK d \in 0 .. N - 1 : j = Place(r, d)
      BY <1>1, PlaceAll
    <2>2. ASSUME NEW i \in 1 .. L, Kept(tickets[i]), Covers(tickets[i], r, d) PROVE FALSE
      <3> DEFINE t == tickets[i]
                 F == From(t, r)
                 k == d - F
      <3>1. F \in 0 .. N - 1
        BY <2>2, HeadPlace DEF IInv
      <3>2. t.at \in Cursor /\ t.n \in Nat /\ To(t, r) = F + t.n /\ Minus(t.at, r) = F
        BY InRow DEF IInv, Geometry, From
      <3>3. F <= d /\ d < To(t, r)
        BY <2>2 DEF Covers
      <3> HIDE DEF F, t
      <3>4. k \in 0 .. t.n - 1 /\ k \in 0 .. N - 1 /\ F + k = d /\ d < N
        BY <1>1, <3>1, <3>2, <3>3
      <3> HIDE DEF k
      <3>5. Place(t.at, k) = Place(r, d)
        BY <1>1, <3>1, <3>2, <3>4, PlaceShift
      <3>6. j = Index(Plus(t.at, k))
        BY <2>1, <3>5 DEF Place
      <3> QED BY <1>1, <1>2, <2>2, <3>4, <3>6 DEF Occupied, t
    <2> QED BY <2>1, <2>2 DEF IInv, FreeClean
  <1> QED BY <1>1, <1>2 DEF FreeBlocksClean, IInv, HeadsRight

LEMMA Sound == IInv => ReservationsSound
  <1> SUFFICES ASSUME IInv PROVE ReservationsSound
    OBVIOUS
  <1>0. Types /\ Geometry /\ Fits
    BY DEF IInv
  <1>1. TypeOK
    <2>1. \A i \in DOMAIN tickets : tickets[i] \in Ticket
      BY <1>0 DEF Types
    <2>2. \A p \in Producers : prod[p] \in Local /\ wt_read_cursor_cache[p] \in Cursor \cup {NoCache}
      BY <1>0 DEF Types
    <2>3. \A p \in Producers :
            /\ prod[p].pc \in Pcs /\ prod[p].need \in Needs \cup {0}
            /\ prod[p].cursor \in Cursor /\ prod[p].low_space_flag \in BOOLEAN
      BY <2>2 DEF Local
    <2> QED BY <1>0, <2>1, <2>2, <2>3 DEF TypeOK, Types, Block, Ticket, Pcs
  <1>2. OneBlockFree
    <2> SUFFICES ASSUME NEW i \in DOMAIN tickets, Kept(tickets[i])
                 PROVE  Minus(Behind(tickets[i]), read_cursor) < N
      BY DEF OneBlockFree
    <2>1. i \in 1 .. Len(tickets)
      BY <1>0 DEF Types
    <2>2. tickets[i] \in Ticket /\ To(tickets[i], read_cursor) < M /\ read_cursor \in Cursor
      BY <1>0, <2>1, InRow DEF Geometry
    <2> QED BY <1>0, <2>1, <2>2, TicketType DEF Fits
  <1> QED BY <1>1, <1>2, RowHasNoHoles, FreeIsClean DEF ReservationsSound

\* While the threads' copies of the read cursor are fresh, the reservations of
\* miso_ring_buffer by fetch_add and the rollback loop keep the ring sound, for
\* every number of threads and every ring: no gap and no overlap between the
\* reservations however the cursor is moved back, one block always free, and
\* every block that is free, or reserved and not committed, shows `unused`.
THEOREM ReservationsAreSound == Spec /\ []ViewsFresh => []ReservationsSound
  BY Invariance, Sound, PTL

LEMMA InOrder == IInv => ReadInOrder
  <1> SUFFICES ASSUME IInv PROVE ReadInOrder
    OBVIOUS
  <1>1. DOMAIN tickets = 1 .. Len(tickets) /\ HeadsRight /\ Reader
    BY DEF IInv, Types
  <1>2. \A i \in DOMAIN tickets :
          (tickets[i].kind = "read") <=>
             Minus(tickets[i].at, read_cursor) < Minus(read_cursor_cache, read_cursor)
    BY <1>1 DEF Reader, From
  <1>3. ASSUME rpc = "lent"
        PROVE  \E i \in DOMAIN tickets :
                 /\ tickets[i].kind = "used" /\ tickets[i].at = read_cursor_cache
                 /\ tickets[i].n = Head_.block_num
    <2>1. PICK i \in DOMAIN tickets : tickets[i].kind = "used" /\ tickets[i].at = read_cursor_cache
      BY <1>1, <1>3 DEF Reader
    <2>2. tickets[i].n = Head_.block_num
      BY <1>1, <2>1 DEF HeadsRight, Head_
    <2> QED BY <2>1, <2>2
  <1> QED BY <1>2, <1>3 DEF ReadInOrder

LEMMA SameSeq ==
    ASSUME NEW S, NEW s \in Seq(S), NEW t \in Seq(S), Len(s) = Len(t),
           \A i \in 1 .. Len(s) : s[i] = t[i]
    PROVE  s = t
  OBVIOUS

\* The shape of a sequence of reservations.
Shapes == Producers \X Needs \X Kinds

LEMMA ShapeIs ==
    ASSUME NEW ts \in Seq(Ticket)
    PROVE  /\ Shape(ts) \in Seq(Shapes) /\ Len(Shape(ts)) = Len(ts)
           /\ \A i \in 1 .. Len(ts) : Shape(ts)[i] = <<ts[i].owner, ts[i].n, ts[i].kind>>
  <1> DEFINE s == [i \in 1 .. Len(ts) |-> <<ts[i].owner, ts[i].n, ts[i].kind>>]
  <1>1. Len(ts) \in Nat /\ DOMAIN ts = 1 .. Len(ts) /\ \A i \in 1 .. Len(ts) : ts[i] \in Ticket
    OBVIOUS
  <1>2. Shape(ts) = s
    BY <1>1 DEF Shape
  <1>3. \A i \in 1 .. Len(ts) : <<ts[i].owner, ts[i].n, ts[i].kind>> \in Shapes
    BY <1>1 DEF Ticket, Shapes
  <1>4. s \in [1 .. Len(ts) -> Shapes] /\ \A i \in 1 .. Len(ts) : s[i] = <<ts[i].owner, ts[i].n, ts[i].kind>>
    BY <1>3
  <1> HIDE DEF s
  <1>5. s \in Seq(Shapes) /\ Len(s) = Len(ts)
    BY <1>1, <1>4
  <1> QED BY <1>2, <1>4, <1>5

\* The prefix that recovery can know of reaches at least as far as the walk, and
\* no farther unless the walk was misled.
LEMMA PrefixIs ==
    ASSUME IInv, NEW m \in 0 .. Len(Unread), Legible(m)
    PROVE  \E last \in m .. Len(Unread) :
             /\ CommittedPrefix = SubSeq(Unread, 1, last)
             /\ WalkEndsAt(m) /\ ~TornSkip => last = m
  <1> DEFINE U == Unread
             L == Len(Unread)
             open == {i \in DOMAIN U : U[i].kind \notin {"used", "invalid"}}
             last == IF open = {} THEN L ELSE Min(open) - 1
  <1>0. PICK q \in 0 .. Len(tickets) : ReadUpTo(q)
    BY ReadUpToIs
  <1>1. U \in Seq(Ticket) /\ L \in Nat /\ DOMAIN U = 1 .. L /\ m \in Nat /\ m <= L
    <2>1. Gapless(U, read_cursor_cache, write_cursor)
      BY <1>0, UnreadIs
    <2>2. U \in Seq(Ticket)
      BY <2>1 DEF Gapless
    <2> QED BY <2>2
  <1>1a. L \in Nat /\ m \in Nat /\ m <= L
    BY <1>1
  <1>2. CommittedPrefix = SubSeq(U, 1, last)
    BY DEF CommittedPrefix
  <1>3. \A i \in open : i \in 1 .. L /\ i \in Nat /\ i > m
    <2> SUFFICES ASSUME NEW i \in open PROVE i \in 1 .. L /\ i \in Nat /\ i > m
      OBVIOUS
    <2>1. i \in 1 .. L /\ i \in Nat /\ U[i].kind \notin Done
      BY <1>1 DEF Done
    <2>2. ~(i \in 1 .. m)
      BY <2>1 DEF Legible
    <2> QED BY <1>1, <2>1, <2>2
  <1>4. open # {} => Min(open) \in open /\ \A y \in open : Min(open) <= y
    <2> SUFFICES ASSUME open # {} PROVE Min(open) \in open /\ \A y \in open : Min(open) <= y
      OBVIOUS
    <2>1. open \subseteq Nat
      BY <1>3
    <2> HIDE DEF open
    <2>2. \E x \in open : \A y \in open : x <= y
      BY <2>1, LeastNumber
    <2> QED BY <2>2 DEF Min
  <1>5. CASE open = {}
    <2>1. last = L
      BY <1>5
    <2>2. WalkEndsAt(m) /\ ~TornSkip => m = L
      <3> SUFFICES ASSUME WalkEndsAt(m), ~TornSkip, m # L PROVE FALSE
        OBVIOUS
      <3>1. U[m + 1].kind \notin Done
        BY DEF WalkEndsAt
      <3>2. m + 1 \in 1 .. L
        BY <1>1a
      <3>3. m + 1 \in open
        BY <1>1, <3>1, <3>2 DEF Done
      <3> QED BY <1>5, <3>3
    <2>3. last \in m .. L
      BY <1>1, <2>1
    <2> QED BY <1>2, <2>1, <2>2, <2>3
  <1>6. CASE open # {}
    <2> DEFINE x == Min(open)
    <2>1. last = x - 1 /\ x \in open /\ \A y \in open : x <= y
      BY <1>4, <1>6
    <2>2. x \in 1 .. L /\ x \in Nat /\ x > m
      BY <1>3, <2>1
    <2> HIDE DEF x
    <2>3. WalkEndsAt(m) /\ ~TornSkip => x = m + 1
      <3> SUFFICES ASSUME WalkEndsAt(m), ~TornSkip PROVE x = m + 1
        OBVIOUS
      <3>1. m # L
        BY <1>1a, <2>2
      <3>2. U[m + 1].kind \notin Done
        BY <3>1 DEF WalkEndsAt
      <3>3. m + 1 \in 1 .. L
        BY <1>1a, <3>1
      <3>4. m + 1 \in open
        BY <1>1, <3>2, <3>3 DEF Done
      <3> HIDE DEF open
      <3>5. x <= m + 1
        BY <2>1, <3>4
      <3> QED BY <1>1, <2>2, <3>5
    <2> HIDE DEF open
    <2>4. last \in m .. L /\ (WalkEndsAt(m) /\ ~TornSkip => last = m)
      <3> HIDE DEF last
      <3> QED BY <1>1, <2>1, <2>2, <2>3
    <2> HIDE DEF last
    <2> QED BY <1>2, <2>4
  <1> QED BY <1>5, <1>6

LEMMA RecoverIsExact ==
    ASSUME IInv, recover
    PROVE  /\ IsPrefix(Shape(tickets'), Shape(CommittedPrefix))
           /\ TornSkip \/ LongInvalid \/ Shape(tickets') = Shape(CommittedPrefix)
  <1> DEFINE U == Unread
             L == Len(Unread)
             ts == tickets'
             cp == CommittedPrefix
  <1>1. PICK m \in 0 .. L, i \in Slot :
          RecoversTo(m, i) /\ (WalkEndsAt(m) \/ (m = 0 /\ LongInvalid))
    BY RecoverIs
  <1>2. /\ ts \in Seq(Ticket) /\ Len(ts) = m
        /\ \A j \in 1 .. m : /\ ts[j].owner = U[j].owner /\ ts[j].n = U[j].n
                             /\ ts[j].kind = U[j].kind
    BY <1>1, RecoveredRing
  <1>3. Legible(m)
    BY <1>1 DEF RecoversTo
  <1>4. PICK last \in m .. L :
          /\ cp = SubSeq(U, 1, last)
          /\ WalkEndsAt(m) /\ ~TornSkip => last = m
    BY <1>3, PrefixIs
  <1>5. U \in Seq(Ticket) /\ L \in Nat /\ m \in Nat /\ m <= L
    <2>1. PICK q \in 0 .. Len(tickets) : ReadUpTo(q)
      BY ReadUpToIs
    <2>2. Gapless(U, read_cursor_cache, write_cursor)
      BY <2>1, UnreadIs
    <2>3. U \in Seq(Ticket)
      BY <2>2 DEF Gapless
    <2> QED BY <2>3
  <1>6. last \in Nat /\ m <= last /\ last <= L /\ last \in Int /\ 1 \in Int
    BY <1>4, <1>5
  <1>7. /\ cp \in Seq(Ticket) /\ Len(cp) = last
        /\ \A j \in 1 .. last : cp[j] = U[j]
    <2>1. \A j \in 1 .. last : U[j] \in Ticket
      BY <1>5, <1>6
    <2>2. /\ SubSeq(U, 1, last) \in Seq(Ticket)
          /\ Len(SubSeq(U, 1, last)) = IF 1 <= last THEN last - 1 + 1 ELSE 0
          /\ \A j \in 1 .. last - 1 + 1 : SubSeq(U, 1, last)[j] = U[1 + j - 1]
      BY <1>6, <2>1, SubSeqProperties
    <2>3. /\ last - 1 + 1 = last /\ (~(1 <= last) => last = 0)
          /\ \A j \in 1 .. last : 1 + j - 1 = j
      BY <1>6
    <2> QED BY <1>4, <2>2, <2>3
  <1> DEFINE s == Shape(ts)
             t == Shape(cp)
  <1> HIDE DEF ts, cp, U
  <1>8. /\ s \in Seq(Shapes) /\ Len(s) = m
        /\ \A j \in 1 .. m : s[j] = <<ts[j].owner, ts[j].n, ts[j].kind>>
    BY <1>2, ShapeIs
  <1>9. /\ t \in Seq(Shapes) /\ Len(t) = last
        /\ \A j \in 1 .. last : t[j] = <<cp[j].owner, cp[j].n, cp[j].kind>>
    BY <1>7, ShapeIs
  <1> HIDE DEF s, t
  <1>10. ASSUME NEW j \in 1 .. m PROVE s[j] = t[j] /\ j \in 1 .. last
    <2>1. j \in 1 .. last
      BY <1>5, <1>6
    <2>2. /\ ts[j].owner = cp[j].owner /\ ts[j].n = cp[j].n /\ ts[j].kind = cp[j].kind
      BY <1>2, <1>7, <2>1
    <2>3. s[j] = <<ts[j].owner, ts[j].n, ts[j].kind>>
      BY <1>8
    <2>4. t[j] = <<cp[j].owner, cp[j].n, cp[j].kind>>
      BY <1>9, <2>1
    <2> QED BY <2>1, <2>2, <2>3, <2>4
  <1>11. last = m => s = t
    BY <1>8, <1>9, <1>10, SameSeq
  <1>12. IsPrefix(s, t)
    <2>1. \A j \in 1 .. m : s[j] \in Shapes /\ t[j] \in Shapes
      BY <1>8, <1>10
    <2>2. m \in Int /\ m - 1 + 1 = m /\ (~(1 <= m) => m = 0) /\ \A j \in 1 .. m : 1 + j - 1 = j
      BY <1>5
    <2>3. /\ SubSeq(s, 1, m) \in Seq(Shapes)
          /\ Len(SubSeq(s, 1, m)) = IF 1 <= m THEN m - 1 + 1 ELSE 0
          /\ \A j \in 1 .. m - 1 + 1 : SubSeq(s, 1, m)[j] = s[1 + j - 1]
      BY <1>6, <2>1, <2>2, SubSeqProperties
    <2>4. /\ SubSeq(t, 1, m) \in Seq(Shapes)
          /\ Len(SubSeq(t, 1, m)) = IF 1 <= m THEN m - 1 + 1 ELSE 0
          /\ \A j \in 1 .. m - 1 + 1 : SubSeq(t, 1, m)[j] = t[1 + j - 1]
      BY <1>6, <2>1, <2>2, SubSeqProperties
    <2>5. Len(SubSeq(s, 1, m)) = m /\ Len(SubSeq(t, 1, m)) = m
      BY <2>2, <2>3, <2>4
    <2>6. \A j \in 1 .. m : SubSeq(s, 1, m)[j] = SubSeq(t, 1, m)[j]
      BY <1>10, <2>2, <2>3, <2>4
    <2>7. SubSeq(s, 1, m) = SubSeq(t, 1, m)
      BY <2>3, <2>4, <2>5, <2>6, SameSeq
    <2> QED BY <1>6, <1>8, <1>9, <2>7 DEF IsPrefix
  <1>13. TornSkip \/ LongInvalid \/ s = t
    BY <1>1, <1>4, <1>11
  <1> QED BY <1>12, <1>13 DEF s, t, ts, cp

\* Recovery after a crash between any two steps of any thread hands out the
\* committed chunks in front of the first unfinished one, in order and no other;
\* it stops short of that only when the crash tore a skip, or when more than
\* half of the ring was marked invalid at once.
THEOREM RecoveryIsExact == Spec /\ []ViewsFresh => RecoveryExact
  <1>1. IInv /\ [Next]_vars =>
          [recover => /\ IsPrefix(Shape(tickets'), Shape(CommittedPrefix))
                      /\ TornSkip \/ LongInvalid \/ Shape(tickets') = Shape(CommittedPrefix)]_vars
    BY RecoverIsExact
  <1> QED BY <1>1, Invariance, PTL DEF Spec, RecoveryExact

-----------------------------------------------------------------------------
(* data_traverse *)

\* One step of the walk of data_traverse, and the whole walk.
TraverseRule(f, k) ==
    LET c == Plus(read_cursor, k)
        b == blocks[Index(c)]
    IN  IF k >= N \/ b.status \in {"unused", "data"} THEN <<>>
        ELSE (IF b.status = "used" THEN <<c>> ELSE <<>>) \o f[k + b.block_num]

Traverse == CHOOSE f : f = [k \in 0 .. 2 * N |-> TraverseRule(f, k)]

LEMMA DataTraverseIs == data_traverse = Traverse[0]
  BY DEF data_traverse, Traverse, TraverseRule

LEMMA TraverseBlock ==
    ASSUME IInv, NEW k \in 0 .. N - 1
    PROVE  LET b == blocks[Index(Plus(read_cursor, k))]
           IN  /\ b.status \in Statuses
               /\ b.status \in {"used", "invalid"} => b.block_num \in 1 .. N
  <1>1. read_cursor \in Cursor /\ blocks \in [Slot -> Block] /\ HeadsRight
    BY DEF IInv, Types
  <1>2. Place(read_cursor, k) \in Slot
    BY <1>1, IndexPlace
  <1> DEFINE j == Index(Plus(read_cursor, k))
  <1> HIDE DEF j
  <1>3. j \in Slot /\ blocks[j] \in Block
    BY <1>1, <1>2 DEF j, Place
  <1>4. blocks[j].status \in Statuses /\ blocks[j].block_num \in 0 .. N
    BY <1>3 DEF Block
  <1>5. blocks[j].status \in {"used", "invalid"} => blocks[j].block_num # 0
    BY <1>1, <1>3 DEF HeadsRight
  <1>6. N \in Nat
    BY Facts
  <1> QED BY <1>4, <1>5, <1>6 DEF j

\* The recursive function that is the walk exists.
LEMMA TraverseIs ==
    ASSUME IInv
    PROVE  \A k \in 0 .. 2 * N : Traverse[k] = TraverseRule(Traverse, k)
  <1> DEFINE Is(f, n) == f = [k \in 2 * N - n .. 2 * N |-> TraverseRule(f, k)]
             T == {n \in 0 .. 2 * N : ~ \E f : Is(f, n)}
  <1>0. N \in Nat /\ N >= 2
    BY Facts
  <1>1. ASSUME T # {} PROVE FALSE
    <2>1. PICK n \in T : \A y \in T : n <= y
      <3>1. T \subseteq Nat
        BY <1>0
      <3> HIDE DEF T
      <3> QED BY <1>1, <3>1, LeastNumber
    <2>2. CASE n = 0
      <3>1. 2 * N - 0 = 2 * N /\ 2 * N \in Nat /\ 2 * N >= N
        BY <1>0
      <3> DEFINE f == [k \in 2 * N .. 2 * N |-> <<>>]
      <3>2. \A k \in 2 * N .. 2 * N : k >= N
        BY <3>1, <1>0
      <3>3. \A k \in 2 * N .. 2 * N : TraverseRule(f, k) = <<>>
        BY <3>2 DEF TraverseRule
      <3>4. f = [k \in 2 * N - 0 .. 2 * N |-> TraverseRule(f, k)]
        BY <3>1, <3>3
      <3> QED BY <2>1, <2>2, <3>4
    <2>3. CASE n # 0
      <3> HIDE DEF Is
      <3>1. n \in Nat /\ n >= 1 /\ n <= 2 * N /\ n - 1 \in 0 .. 2 * N /\ n - 1 \notin T
        BY <1>0, <2>1, <2>3
      <3>2. PICK f : Is(f, n - 1)
        BY <3>1
      <3>3. \A k \in 2 * N - (n - 1) .. 2 * N : f[k] = TraverseRule(f, k)
        BY <3>2 DEF Is
      <3> HIDE DEF T
      <3> DEFINE a == 2 * N - n
                 g == [k \in a .. 2 * N |-> IF k = a THEN TraverseRule(f, a) ELSE f[k]]
      <3>4. a \in Nat /\ 2 * N - (n - 1) = a + 1 /\ a <= 2 * N
        BY <1>0, <3>1
      <3> HIDE DEF a
      <3>5. \A k \in a + 1 .. 2 * N : k \in a .. 2 * N /\ k # a
        BY <1>0, <3>4
      <3>6. \A k \in a + 1 .. 2 * N : g[k] = f[k]
        BY <3>5
      <3> HIDE DEF g
      <3>7. ASSUME NEW k \in a .. 2 * N PROVE TraverseRule(g, k) = TraverseRule(f, k)
        <4>1. CASE k >= N
          BY <4>1 DEF TraverseRule
        <4>2. CASE ~(k >= N)
          <5>1. k \in 0 .. N - 1 /\ k \in Nat /\ k < N
            BY <1>0, <3>4, <4>2
          <5> DEFINE b == blocks[Index(Plus(read_cursor, k))]
          <5>2. /\ b.status \in Statuses
                /\ b.status \in {"used", "invalid"} => b.block_num \in 1 .. N
            BY <5>1, TraverseBlock
          <5>3. b.status \in {"used", "invalid"} => k + b.block_num \in a + 1 .. 2 * N
            <6> HIDE DEF b
            <6> QED BY <1>0, <3>4, <5>1, <5>2
          <5>4. b.status \in {"used", "invalid"} => g[k + b.block_num] = f[k + b.block_num]
            BY <3>6, <5>3
          <5>5. CASE b.status \in {"used", "invalid"}
            BY <5>4, <5>5 DEF TraverseRule
          <5>6. CASE b.status \in {"unused", "data"}
            BY <5>6 DEF TraverseRule
          <5> QED BY <5>2, <5>5, <5>6 DEF Statuses
        <4> QED BY <4>1, <4>2
      <3>8. \A k \in a .. 2 * N : g[k] = TraverseRule(g, k)
        <4> SUFFICES ASSUME NEW k \in a .. 2 * N PROVE g[k] = TraverseRule(f, k)
          BY <3>7
        <4>1. CASE k = a
          BY <4>1 DEF g
        <4>2. CASE k # a
          <5>1. k \in a + 1 .. 2 * N
            BY <1>0, <3>4, <4>2
          <5> QED BY <3>3, <3>4, <3>6, <5>1
        <4> QED BY <4>1, <4>2
      <3>9. Is(g, n)
        <4>1. g = [k \in a .. 2 * N |-> g[k]]
          BY DEF g
        <4>2. g = [k \in a .. 2 * N |-> TraverseRule(g, k)]
          BY <3>8, <4>1
        <4> QED BY <4>2 DEF Is, a
      <3> QED BY <2>1, <3>9 DEF T
    <2> QED BY <2>2, <2>3
  <1>2. \E f : Is(f, 2 * N)
    <2>1. 2 * N \in 0 .. 2 * N
      BY <1>0
    <2> HIDE DEF Is
    <2> QED BY <1>1, <2>1
  <1>3. 2 * N - 2 * N = 0
    BY <1>0
  <1>4. \E f : f = [k \in 0 .. 2 * N |-> TraverseRule(f, k)]
    BY <1>2, <1>3
  <1>5. Traverse = [k \in 0 .. 2 * N |-> TraverseRule(Traverse, k)]
    BY <1>4 DEF Traverse
  <1> QED BY <1>5

\* No thread writes and nothing passed is left to flush.
Quiet == /\ \A p \in Producers : prod[p].pc = "idle"
         /\ rpc = "idle" /\ read_cursor = read_cursor_cache

\* Then every reservation is finished and none has been read.
LEMMA QuietIs ==
    ASSUME IInv, Quiet
    PROVE  /\ Len(Unread) = Len(tickets) /\ Len(tickets) \in Nat
           /\ \A i \in 1 .. Len(tickets) : Unread[i] = tickets[i]
           /\ \A j \in 0 .. Len(tickets) : Legible(j)
  <1> DEFINE L == Len(tickets)
  <1>0. Types /\ Geometry /\ Holders /\ HeadsRight /\ Reader
    BY DEF IInv
  <1>1. /\ L \in Nat /\ read_cursor \in Cursor
        /\ \A i \in 1 .. L : tickets[i] \in Ticket /\ From(tickets[i], read_cursor) \in Nat
    BY <1>0, InRow DEF Geometry
  <1>2. Minus(read_cursor_cache, read_cursor) = 0
    BY <1>1, Distance DEF Quiet
  <1>3. ASSUME NEW i \in 1 .. L
        PROVE  /\ tickets[i].kind \in Done
               /\ blocks[Index(tickets[i].at)].status = tickets[i].kind
    <2>1. tickets[i].kind # "read"
      <3>1. tickets[i].kind = "read" => From(tickets[i], read_cursor) < 0
        BY <1>0, <1>2 DEF Reader
      <3> QED BY <1>1, <3>1
    <2>2. tickets[i].kind \in Kinds /\ tickets[i].owner \in Producers
      BY <1>1 DEF Ticket
    <2>3. prod[tickets[i].owner].pc = "idle"
      BY <2>2 DEF Quiet
    <2>4. tickets[i].kind # "tentative" /\ tickets[i].kind # "open"
      BY <1>0, <2>3 DEF Holders, Quiet, Undone, Writing
    <2>5. tickets[i].kind \in Done
      BY <2>1, <2>2, <2>4 DEF Kinds, Done
    <2> QED BY <1>0, <2>5 DEF HeadsRight, Done, Quiet
  <1>4. PICK c \in 0 .. L : ReadUpTo(c)
    BY ReadUpToIs
  <1>5. c = 0
    <2> SUFFICES ASSUME c # 0 PROVE FALSE
      OBVIOUS
    <2>1. c \in 1 .. L /\ c <= c
      BY <1>1
    <2>2. tickets[c].kind = "read"
      BY <1>4, <2>1 DEF ReadUpTo
    <2> QED BY <1>3, <2>1, <2>2 DEF Done
  <1>6. /\ Len(Unread) = L - c
        /\ \A i \in 1 .. Len(Unread) : Unread[i] = tickets[c + i]
    BY <1>4, UnreadIs
  <1>7. L - c = L /\ \A i \in 1 .. L : c + i = i
    BY <1>1, <1>5
  <1>8. Len(Unread) = L /\ \A i \in 1 .. L : Unread[i] = tickets[i]
    BY <1>6, <1>7
  <1>9. ASSUME NEW j \in 0 .. L PROVE Legible(j)
    <2>1. \A m \in 1 .. j : m \in 1 .. L
      BY <1>1
    <2> QED BY <1>3, <1>8, <2>1 DEF Legible
  <1> QED BY <1>1, <1>8, <1>9

\* What data_traverse does at the next reservation.
LEMMA TraverseStep ==
    ASSUME IInv, Quiet, NEW j \in 0 .. Len(tickets)
    PROVE  /\ j = Len(tickets) => Traverse[Edge(j)] = <<>>
           /\ j # Len(tickets) =>
                /\ tickets[j + 1].kind = "used" =>
                     Traverse[Edge(j)] = <<tickets[j + 1].at>> \o Traverse[Edge(j + 1)]
                /\ tickets[j + 1].kind # "used" =>
                     Traverse[Edge(j)] = <<>> \o Traverse[Edge(j + 1)]
  <1> DEFINE L == Len(tickets)
             r == read_cursor
             k == Edge(j)
             t == tickets[j + 1]
             b == blocks[Index(Plus(r, k))]
  <1>0. HeadsRight /\ r \in Cursor /\ r = read_cursor_cache /\ N \in Nat
    BY Facts DEF IInv, Types, Quiet
  <1>1. /\ Len(Unread) = L /\ L \in Nat /\ j \in Nat /\ j <= L
        /\ \A i \in 1 .. L : Unread[i] = tickets[i]
        /\ Legible(j) /\ (j # L => Legible(j + 1))
    <2>1. L \in Nat
      BY QuietIs
    <2>2. j # L => j + 1 \in 0 .. L
      BY <2>1
    <2> QED BY <2>1, <2>2, QuietIs
  <1>2. k \in 0 .. N - 1 /\ Minus(r, r) + k < N
    BY <1>0, <1>1, EdgeIs
  <1>3. Traverse[k] = TraverseRule(Traverse, k) /\ ~(k >= N)
    <2>1. k \in 0 .. 2 * N /\ ~(k >= N)
      <3> HIDE DEF k
      <3> QED BY <1>0, <1>2
    <2> HIDE DEF k
    <2> QED BY <2>1, TraverseIs
  <1>4. CASE j = L
    <2>1. ASSUME NEW m \in 1 .. L, Kept(Unread[m]) PROVE ~Covers(Unread[m], r, k)
      <3>1. m <= j
        BY <1>1, <1>4
      <3>2. To(Unread[m], r) <= k
        BY <1>0, <1>1, <3>1, EdgeIs
      <3>3. To(Unread[m], r) \in Nat
        BY <1>1, InRow DEF IInv, Geometry
      <3> HIDE DEF k
      <3> QED BY <1>0, <1>2, <3>2, <3>3 DEF Covers
    <2>2. blocks[Place(r, k)].status = "unused"
      BY <1>0, <1>1, <1>2, <2>1, FreeBehind
    <2>3. b.status = "unused"
      BY <2>2 DEF Place
    <2>4. Traverse[k] = <<>>
      <3> HIDE DEF k
      <3> QED BY <1>3, <2>3 DEF TraverseRule
    <2> QED BY <1>4, <2>4
  <1>5. CASE j # L
    <2>0. j < L
      BY <1>1, <1>5
    <2>1. /\ j + 1 \in 1 .. L /\ Unread[j + 1] = t /\ t \in Ticket
          /\ From(t, r) = k /\ Edge(j + 1) = k + t.n
      BY <1>0, <1>1, <2>0, EdgeIs
    <2>2. t.at \in Cursor
      BY <2>1 DEF Ticket
    <2>3. Plus(r, k) = t.at
      BY <1>0, <2>1, <2>2, Distance DEF From
    <2>4. t.kind \in Done /\ blocks[Index(t.at)].status = t.kind
      <3>1. j + 1 \in 1 .. j + 1
        BY <1>1
      <3> QED BY <1>1, <1>5, <2>1, <3>1 DEF Legible
    <2>5. b.block_num = t.n /\ b.status = t.kind
      BY <1>0, <2>1, <2>3, <2>4 DEF HeadsRight, Done
    <2>6. b.status \notin {"unused", "data"}
      BY <2>4, <2>5 DEF Done
    <2>7. Traverse[k] = (IF t.kind = "used" THEN <<t.at>> ELSE <<>>) \o Traverse[k + t.n]
      <3> HIDE DEF k, t
      <3> QED BY <1>3, <2>3, <2>5, <2>6 DEF TraverseRule
    <2> QED BY <1>5, <2>1, <2>7
  <1> QED BY <1>4, <1>5

LEMMA Prepend ==
    ASSUME NEW S, NEW s \in Seq(S), NEW x \in S
    PROVE  /\ <<x>> \o s \in Seq(S) /\ DOMAIN (<<x>> \o s) = 1 .. Len(s) + 1
           /\ (<<x>> \o s)[1] = x
           /\ \A i \in 2 .. Len(s) + 1 : i - 1 \in 1 .. Len(s) /\ (<<x>> \o s)[i] = s[i - 1]
           /\ ToSet(<<x>> \o s) = {x} \cup ToSet(s)
           /\ DOMAIN s = 1 .. Len(s) /\ Len(s) \in Nat
  <1> DEFINE u == <<x>> \o s
  <1>1. <<x>> \in Seq(S) /\ Len(<<x>>) = 1 /\ <<x>>[1] = x /\ Len(s) \in Nat /\ DOMAIN s = 1 .. Len(s)
    OBVIOUS
  <1>2. /\ u \in Seq(S) /\ Len(u) = 1 + Len(s)
        /\ \A i \in 1 .. 1 + Len(s) : u[i] = IF i <= 1 THEN <<x>>[i] ELSE s[i - 1]
    BY <1>1, ConcatProperties
  <1>3. 1 + Len(s) = Len(s) + 1
    BY <1>1
  <1>4. DOMAIN u = 1 .. Len(s) + 1
    BY <1>2, <1>3
  <1> HIDE DEF u
  <1>5. u[1] = x
    <2>1. 1 \in 1 .. 1 + Len(s) /\ 1 <= 1
      BY <1>1
    <2> QED BY <1>1, <1>2, <2>1
  <1>6. ASSUME NEW i \in 2 .. Len(s) + 1 PROVE i - 1 \in 1 .. Len(s) /\ u[i] = s[i - 1]
    <2>1. i \in 1 .. 1 + Len(s) /\ ~(i <= 1) /\ i - 1 \in 1 .. Len(s)
      BY <1>1
    <2> QED BY <1>2, <2>1
  <1>7. ToSet(u) = {x} \cup ToSet(s)
    <2>1. ASSUME NEW y \in ToSet(u) PROVE y \in {x} \cup ToSet(s)
      <3>1. PICK i \in 1 .. Len(s) + 1 : y = u[i]
        BY <1>4, <2>1 DEF ToSet
      <3>2. i = 1 \/ i \in 2 .. Len(s) + 1
        BY <1>1
      <3> QED BY <1>1, <1>5, <1>6, <3>1, <3>2 DEF ToSet
    <2>2. x \in ToSet(u)
      <3>1. 1 \in 1 .. Len(s) + 1
        BY <1>1
      <3> QED BY <1>4, <1>5, <3>1 DEF ToSet
    <2>3. ASSUME NEW y \in ToSet(s) PROVE y \in ToSet(u)
      <3>1. PICK i \in 1 .. Len(s) : y = s[i]
        BY <1>1, <2>3 DEF ToSet
      <3>2. i + 1 \in 2 .. Len(s) + 1 /\ (i + 1) - 1 = i /\ i + 1 \in 1 .. Len(s) + 1
        BY <1>1
      <3>3. u[i + 1] = y
        BY <1>6, <3>1, <3>2
      <3> QED BY <1>4, <3>2, <3>3 DEF ToSet
    <2> QED BY <2>1, <2>2, <2>3
  <1> QED BY <1>1, <1>2, <1>4, <1>5, <1>6, <1>7 DEF u

\* From the reservation number j on, s lists the committed ones in their order.
UsedFrom(j) == {i \in 1 .. Len(tickets) : i > j /\ tickets[i].kind = "used"}
Lists(s, j) ==
    /\ s \in Seq(Cursor)
    /\ ToSet(s) = {tickets[i].at : i \in UsedFrom(j)}
    /\ \A a, b \in DOMAIN s : a < b => Minus(s[a], read_cursor) < Minus(s[b], read_cursor)

LEMMA ListsMore ==
    ASSUME IInv, NEW j \in Nat, j + 1 \in 1 .. Len(tickets), NEW s, Lists(s, j + 1)
    PROVE  /\ tickets[j + 1].kind # "used" => Lists(s, j)
           /\ tickets[j + 1].kind = "used" => Lists(<<tickets[j + 1].at>> \o s, j)
  <1> DEFINE L == Len(tickets)
             r == read_cursor
             t == tickets[j + 1]
             u == <<t.at>> \o s
  <1>1. /\ L \in Nat /\ Gapless(tickets, r, write_cursor)
        /\ \A i \in 1 .. L : /\ tickets[i].at \in Cursor
                             /\ From(tickets[i], r) \in Nat /\ To(tickets[i], r) \in Nat
                             /\ From(tickets[i], r) < To(tickets[i], r)
    BY InRow DEF IInv, Geometry
  <1>2. \A i \in 1 .. L : i > j <=> i > j + 1 \/ i = j + 1
    BY <1>1
  <1>3. CASE t.kind # "used"
    <2>1. UsedFrom(j) = UsedFrom(j + 1)
      BY <1>2, <1>3 DEF UsedFrom
    <2> QED BY <1>3, <2>1 DEF Lists
  <1>4. CASE t.kind = "used"
    <2>0. /\ s \in Seq(Cursor)
          /\ ToSet(s) = {tickets[i].at : i \in UsedFrom(j + 1)}
          /\ \A a, b \in DOMAIN s : a < b => Minus(s[a], r) < Minus(s[b], r)
      BY DEF Lists
    <2>1. UsedFrom(j) = {j + 1} \cup UsedFrom(j + 1)
      BY <1>2, <1>4 DEF UsedFrom
    <2>2. t.at \in Cursor
      BY <1>1
    <2>3. /\ u \in Seq(Cursor) /\ DOMAIN u = 1 .. Len(s) + 1
          /\ u[1] = t.at
          /\ \A i \in 2 .. Len(s) + 1 : i - 1 \in 1 .. Len(s) /\ u[i] = s[i - 1]
          /\ ToSet(u) = {t.at} \cup ToSet(s)
          /\ DOMAIN s = 1 .. Len(s) /\ Len(s) \in Nat
      BY <2>0, <2>2, Prepend
    <2> HIDE DEF u
    <2>4. ToSet(u) = {tickets[i].at : i \in UsedFrom(j)}
      BY <2>0, <2>1, <2>3
    <2>5. ASSUME NEW x \in 1 .. Len(s) PROVE Minus(t.at, r) < Minus(s[x], r)
      <3>1. s[x] \in ToSet(s)
        BY <2>3 DEF ToSet
      <3>2. PICK i \in UsedFrom(j + 1) : s[x] = tickets[i].at
        BY <2>0, <3>1
      <3>3. i \in 1 .. L /\ j + 1 < i
        BY <1>1, <3>2 DEF UsedFrom
      <3>4. To(t, r) <= From(tickets[i], r)
        BY <1>1, <3>3, RowOrder
      <3>5. /\ From(t, r) \in Nat /\ To(t, r) \in Nat /\ From(t, r) < To(t, r)
            /\ From(tickets[i], r) \in Nat
        BY <1>1, <3>3
      <3>6. From(t, r) < From(tickets[i], r)
        <4> HIDE DEF t
        <4> QED BY <3>4, <3>5
      <3> QED BY <3>2, <3>6 DEF From
    <2>6. ASSUME NEW a \in DOMAIN u, NEW b \in DOMAIN u, a < b
          PROVE  Minus(u[a], r) < Minus(u[b], r)
      <3>1. b \in 2 .. Len(s) + 1 /\ (a = 1 \/ a \in 2 .. Len(s) + 1)
        BY <2>3, <2>6
      <3>2. b - 1 \in 1 .. Len(s) /\ u[b] = s[b - 1]
        BY <2>3, <3>1
      <3>3. CASE a = 1
        BY <2>3, <2>5, <3>2, <3>3
      <3>4. CASE a \in 2 .. Len(s) + 1
        <4>1. a - 1 \in 1 .. Len(s) /\ u[a] = s[a - 1]
          BY <2>3, <3>4
        <4>2. a - 1 < b - 1
          BY <2>3, <2>6, <3>1, <3>4
        <4> QED BY <2>0, <2>3, <3>2, <4>1, <4>2
      <3> QED BY <3>1, <3>3, <3>4
    <2>7. Lists(u, j)
      BY <2>3, <2>4, <2>6 DEF Lists
    <2> QED BY <1>4, <2>7 DEF u
  <1> QED BY <1>3, <1>4

LEMMA TraverseAll ==
    ASSUME IInv, Quiet
    PROVE  Lists(Traverse[0], 0)
  <1> DEFINE L == Len(tickets)
             Bad == {j \in 0 .. L : ~Lists(Traverse[Edge(j)], j)}
             T == {n \in 0 .. L : L - n \in Bad}
  <1>0. L \in Nat
    BY QuietIs
  <1>1. ASSUME T # {} PROVE FALSE
    <2>1. PICK n \in T : \A y \in T : n <= y
      <3>1. T \subseteq Nat
        BY <1>0
      <3> HIDE DEF T
      <3> QED BY <1>1, <3>1, LeastNumber
    <2> DEFINE j == L - n
    <2>2. n \in Nat /\ n <= L /\ j \in 0 .. L /\ j \in Nat /\ n = L - j /\ j \in Bad
      <3> HIDE DEF Bad
      <3> QED BY <1>0, <2>1
    <2> HIDE DEF j
    <2>3. ~Lists(Traverse[Edge(j)], j)
      BY <2>2
    <2>4. CASE j = L
      <3>1. Traverse[Edge(j)] = <<>>
        BY <2>2, <2>4, TraverseStep
      <3>2. UsedFrom(j) = {}
        BY <1>0, <2>4 DEF UsedFrom
      <3>3. <<>> \in Seq(Cursor) /\ DOMAIN <<>> = {} /\ ToSet(<<>>) = {}
        BY DEF ToSet
      <3>4. Lists(<<>>, j)
        BY <3>2, <3>3 DEF Lists
      <3> QED BY <2>3, <3>1, <3>4
    <2>5. CASE j # L
      <3>1. j + 1 \in 0 .. L /\ j + 1 \in 1 .. L /\ n - 1 \in 0 .. L /\ L - (n - 1) = j + 1
        BY <1>0, <2>2, <2>5
      <3>2. j + 1 \notin Bad
        <4>1. ~(n <= n - 1)
          BY <2>2
        <4>2. n - 1 \notin T
          <5> HIDE DEF T
          <5> QED BY <2>1, <4>1
        <4> HIDE DEF Bad
        <4> QED BY <3>1, <4>2
      <3> DEFINE s == Traverse[Edge(j + 1)]
      <3>3. Lists(s, j + 1)
        BY <3>1, <3>2
      <3>4. CASE tickets[j + 1].kind = "used"
        <4>1. Traverse[Edge(j)] = <<tickets[j + 1].at>> \o s
          BY <2>2, <2>5, <3>4, TraverseStep
        <4> HIDE DEF s
        <4>2. Lists(<<tickets[j + 1].at>> \o s, j)
          BY <2>2, <3>1, <3>3, <3>4, ListsMore
        <4> QED BY <2>3, <4>1, <4>2
      <3>5. CASE tickets[j + 1].kind # "used"
        <4>1. Traverse[Edge(j)] = <<>> \o s
          BY <2>2, <2>5, <3>5, TraverseStep
        <4> HIDE DEF s
        <4>2. s \in Seq(Cursor)
          BY <3>3 DEF Lists
        <4>3. <<>> \o s = s
          BY <4>2, ConcatEmptySeq
        <4>4. Lists(s, j)
          BY <2>2, <3>1, <3>3, <3>5, ListsMore
        <4> QED BY <2>3, <4>1, <4>3, <4>4
      <3> QED BY <3>4, <3>5
    <2> QED BY <2>4, <2>5
  <1>2. 0 \in 0 .. L /\ L \in 0 .. L /\ L - L = 0
    BY <1>0
  <1>3. 0 \notin Bad
    <2>1. L \notin T
      BY <1>1, <1>2
    <2> HIDE DEF Bad
    <2> QED BY <1>2, <2>1
  <1>4. Edge(0) = 0
    BY DEF Edge
  <1> QED BY <1>2, <1>3, <1>4

LEMMA Found == IInv => ChunksFound
  <1> SUFFICES ASSUME IInv PROVE TraversalComplete
    BY InOrder DEF ChunksFound
  <1> SUFFICES ASSUME Quiet
               PROVE  /\ ToSet(data_traverse)
                           = {tickets[i].at : i \in {x \in DOMAIN tickets : tickets[x].kind = "used"}}
                      /\ \A i, j \in DOMAIN data_traverse : i < j =>
                           Minus(data_traverse[i], read_cursor) < Minus(data_traverse[j], read_cursor)
    BY DEF TraversalComplete, Quiet
  <1>1. DOMAIN tickets = 1 .. Len(tickets) /\ Len(tickets) \in Nat
    BY DEF IInv, Types
  <1>2. Lists(data_traverse, 0)
    BY TraverseAll, DataTraverseIs
  <1>3. UsedFrom(0) = {x \in DOMAIN tickets : tickets[x].kind = "used"}
    BY <1>1 DEF UsedFrom
  <1> QED BY <1>2, <1>3 DEF Lists

\* Both ways to go through the ring find the committed chunks and nothing else:
\* the consumer passes the reservations in order, each once, and lends only
\* what was committed; data_traverse, in a ring at rest, calls back for exactly
\* the committed chunks in their order.  For every number of threads and every
\* ring, while the threads' copies of the read cursor are fresh.
THEOREM ChunksAreFound == Spec /\ []ViewsFresh => []ChunksFound
  BY Invariance, Found, PTL

=============================================================================
