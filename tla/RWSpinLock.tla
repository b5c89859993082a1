----------------------------- MODULE RWSpinLock -----------------------------
(***************************************************************************)
(* spin_lock_rw_crazy: the reader-writer lock of log_manager, group_list    *)
(* and the oversize buffers.  Its whole state is one counter: the readers,  *)
(* plus the smallest value of the type while a writer holds the lock.       *)
(*                                                                          *)
(* A reader adds itself before it knows whether it may, and takes itself    *)
(* out again if a writer was there.  In between the counter is off by one,  *)
(* which the compare-exchange of write_unlock runs into.                    *)
(***************************************************************************)
EXTENDS Integers, FiniteSets

CONSTANTS
    Threads,
    Triers,     \* the threads that call try_read_lock and try_write_lock
    Mark        \* - write_lock_mark_value, in the code 2^63

ASSUME LockAssumption ==
    /\ IsFiniteSet(Threads)
    /\ Triers \subseteq Threads
    /\ Mark \in Nat /\ Mark > Cardinality(Threads)

VARIABLES
    counter,    \* counter_
    pc          \* what each thread does with the lock

vars == <<counter, pc>>

Labels == {"idle", "retry", "reading", "backoff", "try_backoff", "spin",
           "want_write", "writing", "unlock"}

Move(t, to) == pc' = [pc EXCEPT ![t] = to]

-----------------------------------------------------------------------------
\* What follows the fetch_add of a reader
entered(t, failed) == Move(t, IF counter >= 0 THEN "reading" ELSE failed)

read_lock(t) ==
    /\ pc[t] \in {"idle", "retry"}
    /\ counter' = counter + 1
    /\ entered(t, "backoff")

try_read_lock(t) ==
    /\ t \in Triers /\ pc[t] = "idle"
    /\ counter' = counter + 1
    /\ entered(t, "try_backoff")

backoff(t) ==
    /\ pc[t] \in {"backoff", "try_backoff"}
    /\ counter' = counter - 1
    /\ Move(t, IF pc[t] = "backoff" THEN "spin" ELSE "idle")

\* Defect: a reader tries again at once
spin_not_at_all(t) ==
    /\ pc[t] = "spin"
    /\ Move(t, "retry")
    /\ UNCHANGED counter

\* The inner loop of read_lock leaves once no writer is there
spin(t) ==
    /\ pc[t] = "spin"
    /\ counter >= 0
    /\ Move(t, "retry")
    /\ UNCHANGED counter

read_unlock(t) ==
    /\ pc[t] = "reading"
    /\ counter' = counter - 1
    /\ Move(t, "idle")

-----------------------------------------------------------------------------
want_write_lock(t) ==
    /\ pc[t] = "idle"
    /\ Move(t, "want_write")
    /\ UNCHANGED counter

\* Defect: readers that are inside are not waited for
cas_to_mark_any(t) ==
    /\ counter >= 0
    /\ counter' = counter - Mark
    /\ Move(t, "writing")

\* The compare-exchange from 0 to write_lock_mark_value
cas_to_mark(t) ==
    /\ counter = 0
    /\ counter' = -Mark
    /\ Move(t, "writing")

\* The round of the loop that succeeds; the others change nothing
write_lock(t) ==
    /\ pc[t] = "want_write"
    /\ cas_to_mark(t)

try_write_lock(t) ==
    /\ t \in Triers /\ pc[t] = "idle"
    /\ cas_to_mark(t)

begin_write_unlock(t) ==
    /\ pc[t] = "writing"
    /\ Move(t, "unlock")
    /\ UNCHANGED counter

\* Defect: the counter is set to 0 whoever is trying to enter
write_unlock_store(t) ==
    /\ pc[t] = "unlock"
    /\ counter' = 0
    /\ Move(t, "idle")

\* Only succeeds while no reader is on its way in and out again
write_unlock(t) ==
    /\ pc[t] = "unlock"
    /\ counter = -Mark
    /\ counter' = 0
    /\ Move(t, "idle")

-----------------------------------------------------------------------------
Init ==
    /\ counter = 0
    /\ pc = [t \in Threads |-> "idle"]

\* What a thread does once it has called into the lock
step(t) ==
    \/ pc[t] = "retry" /\ read_lock(t)
    \/ backoff(t) \/ spin(t) \/ read_unlock(t)
    \/ begin_write_unlock(t) \/ write_unlock(t)

Next == \E t \in Threads :
    \/ read_lock(t) \/ try_read_lock(t) \/ backoff(t) \/ spin(t) \/ read_unlock(t)
    \/ want_write_lock(t) \/ write_lock(t) \/ try_write_lock(t)
    \/ begin_write_unlock(t) \/ write_unlock(t)

Spec == Init /\ [][Next]_vars

\* A thread that is inside a call, or holds the lock, goes on; nobody has to
\* ask for the lock.
FairSpec == Spec /\ \A t \in Threads : WF_vars(step(t))

-----------------------------------------------------------------------------
(* Properties *)

Doing(labels) == {t \in Threads : pc[t] \in labels}
Readers == Doing({"reading"})
Writers == Doing({"writing", "unlock"})
Passing == Doing({"backoff", "try_backoff"})

\* Every thread is at a known place, and the counter leaves room for every
\* thread on both sides of the mark.
TypeOK ==
    /\ counter \in -Mark .. Cardinality(Threads)
    /\ pc \in [Threads -> Labels]

\* A writer is alone: no other writer and no reader is inside, although readers
\* change the counter before they know whether they may enter.
Exclusion ==
    \A w \in Writers : Writers = {w} /\ Readers = {}

\* The counter never loses or invents anybody: it is the number of readers
\* inside or on their way out again, less the mark of a writer.
CounterExact ==
    counter = Cardinality(Readers) + Cardinality(Passing)
                - Mark * Cardinality(Writers)

\* write_unlock returns although readers that keep trying make its
\* compare-exchange fail: each of them waits, after it has taken itself out,
\* until the writer is gone.  Callers of try_read_lock do not wait; they must
\* not go on for ever.
UnlockReturns ==
    <>[](Doing({"try_backoff"}) = {}) =>
        \A t \in Threads : pc[t] = "unlock" ~> pc[t] = "idle"

=============================================================================
