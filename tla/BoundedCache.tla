---------------------------- MODULE BoundedCache ----------------------------
(***************************************************************************)
(* bounded_hash_cache.hpp: linear probing in a table that doubles at half   *)
(* load up to max_size_ entries; at the limit one missed insert in          *)
(* `Divisor` is let in and takes the place of the entry under a clock hand, *)
(* which is erased by shifting back what probed past it.  A token of a      *)
(* missed find saves the insert its probe when the table did not change.    *)
(* Slots count from 0; a value of 0 stands for invalid_value.               *)
(***************************************************************************)
EXTENDS Naturals, FiniteSets

CONSTANTS
    CacheKeys,
    Hashes,         \* functions get_table_hash may be, of which one is in force
    MinCapacity,    \* 8 in the code
    MaxSizes,       \* limits that set_max_size is given
    Divisor,        \* 64 in the code
    MaxCacheCalls,  \* bound on the calls of a behaviour
    MaxNoMemory     \* bound on failing allocations

ASSUME BoundedCacheAssumption ==
    /\ MinCapacity \in Nat \ {0} /\ Divisor \in Nat \ {0}
    /\ \A n \in MaxSizes : n >= MinCapacity

VARIABLES
    bc,         \* the cache
    token,      \* insert_token of the last missed find, with its key
    kept,       \* ghost: the value last stored for a key
    cacheCalls, noMemory
bcvars == <<bc, token, kept, cacheCalls, noMemory>>

NoSlot   == 1000    \* UINT32_MAX
Hole     == [key |-> 0, val |-> 0]
NoTable  == [i \in {} |-> Hole]
NoToken  == [key |-> 0, slot |-> NoSlot, rev |-> 0]
Capacity(c) == Cardinality(DOMAIN c.tab)
Home(c, k, n) == c.hash[k] % n
Occupied(c) == {i \in DOMAIN c.tab : c.tab[i].val # 0}

(* find_slot_or_empty: the slot of k, or the hole where its probe ends *)
RECURSIVE Probe(_, _, _, _)
Probe(tab, k, i, fuel) ==
    IF fuel = 0 THEN NoSlot
    ELSE IF tab[i].val = 0 \/ tab[i].key = k THEN i
    ELSE Probe(tab, k, (i + 1) % Cardinality(DOMAIN tab), fuel - 1)
SlotOf(c, k) ==
    IF c.tab = NoTable THEN NoSlot ELSE Probe(c.tab, k, Home(c, k, Capacity(c)), Capacity(c) + 1)
Found(c, k) == LET i == SlotOf(c, k) IN i \in DOMAIN c.tab /\ c.tab[i].val # 0

(* resize: every entry probed into a table of n slots, in slot order *)
RECURSIVE Rehash(_, _, _)
Rehash(c, i, new) ==
    IF i = Capacity(c) THEN new
    ELSE LET e == c.tab[i] n == Cardinality(DOMAIN new)
         IN  Rehash(c, i + 1, IF e.val = 0 THEN new
                              ELSE [new EXCEPT ![Probe(new, e.key, Home(c, e.key, n), n + 1)] = e])
resize_table(c, n) ==
    [c EXCEPT !.tab = Rehash(c, 0, [i \in 0 .. n - 1 |-> Hole]), !.victim = 0, !.rev = @ + 1]

(* erase: what lies behind moves back unless it would come before its home *)
RECURSIVE ShiftBack(_, _, _, _)
ShiftBack(c, tab, empty, cur) ==
    LET n == Capacity(c) home == Home(c, tab[cur].key, n) IN
    IF tab[cur].val = 0 THEN [tab EXCEPT ![empty] = Hole]
    ELSE IF (cur + n - home) % n > (empty + n - home) % n
         THEN ShiftBack(c, [tab EXCEPT ![empty] = tab[cur]], cur, (cur + 1) % n)
         ELSE ShiftBack(c, tab, empty, (cur + 1) % n)

EraseSlot(c, i) ==
    [c EXCEPT !.tab = ShiftBack(c, c.tab, i, (i + 1) % Capacity(c)), !.size = @ - 1, !.rev = @ + 1]

(* the clock hand: the first entry from victim_ on *)
RECURSIVE HandFrom(_, _)
HandFrom(c, i) == IF c.tab[i].val # 0 THEN i ELSE HandFrom(c, (i + 1) % Capacity(c))
Evict(c) == LET v == HandFrom(c, c.victim)
            IN  EraseSlot([c EXCEPT !.victim = (v + 1) % Capacity(c)], v)

Full(c)  == c.tab # NoTable /\ c.size >= c.max
Grows(c) == c.tab = NoTable \/ (c.size < c.max /\ 2 * c.size >= Capacity(c))
Admitted(c) == (c.admission + 1) % Divisor = 0

(* insert_new, once there is room: at the token's hole when the table is the *)
(* one the token was made for, else where the probe ends                     *)
Store(c, k, x, t) ==
    LET i == IF t.rev = c.rev /\ t.slot \in DOMAIN c.tab /\ c.tab[t.slot].val = 0 THEN t.slot ELSE SlotOf(c, k)
        e == [key |-> k, val |-> x]
    IN  IF c.tab[i].val # 0 THEN [c EXCEPT !.tab[i] = e]
        ELSE [c EXCEPT !.tab[i] = e, !.size = @ + 1, !.rev = @ + 1]

Room(c) == IF c.tab = NoTable THEN resize_table(c, MinCapacity)
           ELSE IF Grows(c) THEN resize_table(c, 2 * Capacity(c))
           ELSE IF Full(c) THEN Evict([c EXCEPT !.admission = @ + 1])
           ELSE c
-----------------------------------------------------------------------------
BcInit ==
    /\ \E h \in Hashes, n \in MaxSizes :
          bc = [tab |-> NoTable, size |-> 0, victim |-> 0, admission |-> 0, max |-> n, rev |-> 0, hash |-> h]
    /\ token = NoToken /\ kept = [k \in CacheKeys |-> 0] /\ cacheCalls = 0 /\ noMemory = 0

CacheCall == cacheCalls < MaxCacheCalls /\ cacheCalls' = cacheCalls + 1

find_in_cache(k) ==
    /\ CacheCall /\ ~Found(bc, k)
    /\ token' = [key |-> k, slot |-> SlotOf(bc, k), rev |-> bc.rev]
    /\ UNCHANGED <<bc, kept, noMemory>>

(* insert_new: refused at the limit, given up without memory, or stored *)
insert_new(k, x, t) ==
    \/ /\ Full(bc) /\ ~Admitted(bc)
       /\ bc' = [bc EXCEPT !.admission = @ + 1] /\ UNCHANGED <<kept, noMemory>>
    \/ /\ Grows(bc) /\ noMemory < MaxNoMemory /\ noMemory' = noMemory + 1
       /\ UNCHANGED <<bc, kept>>
    \/ /\ Full(bc) => Admitted(bc)
       /\ bc' = Store(Room(bc), k, x, t) /\ kept' = [kept EXCEPT ![k] = x] /\ UNCHANGED noMemory

(* insert: a resident key is only given the new value *)
insert(k, x) ==
    /\ CacheCall /\ UNCHANGED token
    /\ IF Found(bc, k)
       THEN /\ bc' = [bc EXCEPT !.tab[SlotOf(bc, k)].val = x] /\ kept' = [kept EXCEPT ![k] = x]
            /\ UNCHANGED noMemory
       ELSE insert_new(k, x, NoToken)

insert_with_token(x) ==
    /\ CacheCall /\ token # NoToken /\ insert_new(token.key, x, token) /\ token' = NoToken

set_max_size(n) ==
    /\ CacheCall /\ n # bc.max /\ (bc.size = 0 \/ n > bc.max)
    /\ bc' = [bc EXCEPT !.max = n] /\ UNCHANGED <<token, kept, noMemory>>

clear_cache ==
    /\ CacheCall /\ bc.tab # NoTable
    /\ bc' = [bc EXCEPT !.tab = NoTable, !.size = 0, !.victim = 0, !.admission = 0, !.rev = @ + 1]
    /\ UNCHANGED <<token, kept, noMemory>>

BcNext ==
    \/ \E k \in CacheKeys : find_in_cache(k) \/ insert(k, 1)
    \/ insert_with_token(2)
    \/ \E n \in MaxSizes : set_max_size(n)
    \/ clear_cache
-----------------------------------------------------------------------------
(* Every entry of the table is found from its key and has the value stored    *)
(* last, so no shift, growth or token puts it past a hole; the count is the  *)
(* number of entries and within the limit, and half of the table is empty, so *)
(* that a probe ends (find_slot_or_empty, erase, resize, insert_new).        *)
CacheFinds ==
    /\ \A i \in Occupied(bc) : SlotOf(bc, bc.tab[i].key) = i /\ bc.tab[i].val = kept[bc.tab[i].key]
    /\ bc.size = Cardinality(Occupied(bc)) /\ bc.size <= bc.max /\ 2 * bc.size <= Capacity(bc)
=============================================================================
