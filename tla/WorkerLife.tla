------------------------------ MODULE WorkerLife ------------------------------
(***************************************************************************)
(* The threads around the log buffers: the public worker and the workers   *)
(* of independent logs (log_worker::run), the producers that fill a buffer *)
(* and wake its worker (log_write_begin, log_worker::awake), flushes from  *)
(* other threads, create_log, uninit, and the watch-dog that restarts a    *)
(* worker whose thread was ended from outside, for example in the console  *)
(* callback (try_restart_worker).                                          *)
(*                                                                         *)
(* A buffer is the number of its unread entries; the rings themselves are  *)
(* SisoRing and MisoRing.  logs_lock_ is what RWSpinLock is proved to be:  *)
(* a reader counts itself in first and goes on when there is no writer, a  *)
(* writer enters when nobody is counted in.  Threads and the condition     *)
(* variable are the POSIX ones.  A log that is created again only has its  *)
(* configuration reset, under the same lock, which changes nothing here.   *)
(***************************************************************************)
EXTENDS Naturals, Sequences, FiniteSets, SequencesExt

CONSTANTS
    Logs,        \* names of the logs that may be created
    Async,       \* those in thread mode async; the others are independent
    Blocking,    \* those with policy block_when_full; the others discard
    Producers,   \* threads that write entries
    Flushers,    \* threads that call force_flush, force_flush_all, try_flush_all
    Stoppers,    \* threads that call uninit (log::uninit, ~log_manager)
    Pub,         \* the public worker; the worker of an independent log is
                 \* known by the name of the log
    None,
    Cap,         \* entries a buffer holds
    MaxWrites, MaxFlushes, MaxKills   \* bounds on what the environment does

ASSUME WorkerConstants ==
    /\ Async \subseteq Logs /\ Blocking \subseteq Logs
    /\ Pub \notin Logs
    /\ Cap \in Nat \ {0}

Workers == {Pub} \cup (Logs \ Async)
Consumers == Workers \cup Flushers
Threads == Consumers \cup Producers \cup Stoppers

\* A thread has one part to play.
ASSUME ThreadRoles ==
    /\ Workers \cap (Flushers \cup Producers \cup Stoppers) = {}
    /\ Flushers \cap (Producers \cup Stoppers) = {} /\ Producers \cap Stoppers = {}
    /\ None \notin Threads \cup Logs

VARIABLES
    phase,        \* log_manager::phase_
    log_imp_list, \* the created logs, in order
    fill,         \* fill[l]: unread entries in the buffer of log l
    readers,      \* threads counted in at logs_lock_
    writer,       \* the thread that holds logs_lock_ for writing, or None
    uninit_lock,  \* the thread that holds uninit_lock_, or None
    pc,           \* what each thread does next
    todo,         \* todo[t]: logs t still has to process, workers it has to cancel
    on,           \* on[t]: the log a producer writes to, the log a flusher
                  \* flushes, the worker a stopper cancels
    back,         \* back[t]: where t goes on after log_worker::awake
    status,       \* thread::status_ of each worker
    awake_flag,   \* log_worker::awake_flag_
    mutex,        \* the thread that holds log_worker::mutex_, or None
    did_work,     \* did_work[w]: the last process_by_worker found an entry
    spent         \* what the environment has done, against its bounds

locks == <<readers, writer, uninit_lock>>
worker_obj == <<status, awake_flag, mutex>>
vars == <<phase, log_imp_list, fill, locks, pc, todo, on, back, worker_obj, did_work, spent>>

Goto(t, l) == pc' = [pc EXCEPT ![t] = l]
Spend(what) == spent' = [spent EXCEPT ![what] = @ + 1]

WorkerOf(l) == IF l \in Async THEN Pub ELSE l
\* The logs a worker looks at: the public worker walks over all of them,
\* and passes over those that are not in thread mode async.
Walk(w) == IF w = Pub THEN log_imp_list ELSE <<w>>
\* Mutant: the public worker does not look at the thread mode of a log.
Serves_any_mode(t, l) == TRUE
Serves(t, l) == t = Pub => l \in Async
Created == Range(log_imp_list)

-----------------------------------------------------------------------------
(* process_by_worker, and log_imp::process within it                        *)

\* The worker counts itself in at logs_lock_.
read_lock(w) ==
    /\ pc[w] = "enter"
    /\ readers' = readers \cup {w}
    /\ Goto(w, "entering")
    /\ UNCHANGED <<phase, log_imp_list, fill, writer, uninit_lock, todo, on, back, worker_obj, did_work, spent>>

\* Inside the lock the phase decides whether anything is processed.
process_by_worker(w) ==
    /\ pc[w] = "entering" /\ writer = None
    /\ IF phase = "working"
       THEN /\ todo' = [todo EXCEPT ![w] = Walk(w)]
            /\ Goto(w, "process")
            /\ UNCHANGED readers
       ELSE /\ readers' = readers \ {w}
            /\ Goto(w, "check")
            /\ UNCHANGED todo
    /\ UNCHANGED <<phase, log_imp_list, fill, writer, uninit_lock, on, back, worker_obj, did_work, spent>>

\* log_imp::process reads until the buffer is empty, then comes the next log.
process_chunk(t) ==
    /\ pc[t] = "process" /\ todo[t] # <<>>
    /\ LET l == Head(todo[t])
       IN IF Serves(t, l) /\ fill[l] > 0
          THEN /\ fill' = [fill EXCEPT ![l] = @ - 1]
               /\ did_work' = [w \in Workers |-> w = t \/ did_work[w]]
               /\ UNCHANGED todo
          ELSE /\ todo' = [todo EXCEPT ![t] = Tail(@)]
               /\ UNCHANGED <<fill, did_work>>
    /\ UNCHANGED <<phase, log_imp_list, locks, pc, on, back, worker_obj, spent>>

process_end(t) ==
    /\ pc[t] = "process" /\ todo[t] = <<>>
    /\ Goto(t, IF t \in Workers THEN "check" ELSE "out")
    /\ readers' = readers \ {t}
    /\ writer' = IF writer = t THEN None ELSE writer
    /\ UNCHANGED <<phase, log_imp_list, fill, uninit_lock, todo, on, back, worker_obj, did_work, spent>>

-----------------------------------------------------------------------------
(* The rest of log_worker::run                                              *)

\* is_cancelled ends run, and internal_run marks the thread released; after
\* work the worker looks again at once, otherwise it goes to sleep.
check_cancel(w) ==
    /\ pc[w] = "check"
    /\ IF status[w] = "pendding_cancel"
       THEN status' = [status EXCEPT ![w] = "released"] /\ Goto(w, "dog")
       ELSE Goto(w, IF did_work[w] THEN "enter" ELSE "sleep") /\ UNCHANGED status
    /\ did_work' = [did_work EXCEPT ![w] = FALSE]
    /\ UNCHANGED <<phase, log_imp_list, fill, locks, todo, on, back, awake_flag, mutex, spent>>

\* mutex_.lock(); awake_flag_ = true
sleep(w) ==
    /\ pc[w] = "sleep" /\ mutex[w] = None
    /\ mutex' = [mutex EXCEPT ![w] = w]
    /\ awake_flag' = [awake_flag EXCEPT ![w] = TRUE]
    /\ Goto(w, "armed")
    /\ UNCHANGED <<phase, log_imp_list, fill, locks, todo, on, back, status, did_work, spent>>

\* trigger_.wait_for gives the mutex back and waits, in one step.
wait_for(w) ==
    /\ pc[w] = "armed"
    /\ mutex' = [mutex EXCEPT ![w] = None]
    /\ Goto(w, "waiting")
    /\ UNCHANGED <<phase, log_imp_list, fill, locks, todo, on, back, status, awake_flag, did_work, spent>>

\* Mutant: wait in place of wait_for.
timeout_never(w) == pc[w] = "waiting" /\ FALSE /\ UNCHANGED vars

\* process_interval_ms have passed.
timeout(w) ==
    /\ pc[w] = "waiting"
    /\ Goto(w, "woken")
    /\ UNCHANGED <<phase, log_imp_list, fill, locks, todo, on, back, worker_obj, did_work, spent>>

\* wait_for takes the mutex again; awake_flag_ = false; mutex_.unlock()
wake_up(w) ==
    /\ pc[w] = "woken" /\ mutex[w] = None
    /\ awake_flag' = [awake_flag EXCEPT ![w] = FALSE]
    /\ Goto(w, "enter")
    /\ UNCHANGED <<phase, log_imp_list, fill, locks, todo, on, back, status, mutex, did_work, spent>>

-----------------------------------------------------------------------------
(* A worker thread ended from outside, and its watch-dog                    *)

\* The thread is ended in a callback of the entry it processes: unwinding
\* gives back the entry and the lock, and the destructors of the thread-local
\* variables run next.
killed(w) ==
    /\ spent.kills < MaxKills /\ Spend("kills")
    /\ pc[w] = "process" /\ todo[w] # <<>>
    /\ Serves(w, Head(todo[w])) /\ fill[Head(todo[w])] > 0
    /\ fill' = [fill EXCEPT ![Head(todo[w])] = @ - 1]
    /\ readers' = readers \ {w}
    /\ todo' = [todo EXCEPT ![w] = <<>>]
    /\ did_work' = [did_work EXCEPT ![w] = FALSE]
    /\ Goto(w, "dog")
    /\ UNCHANGED <<phase, log_imp_list, writer, uninit_lock, on, back, worker_obj>>

\* ~log_worker_watch_dog: the first look at the phase, outside the lock.  A
\* worker that was cancelled comes here too.
watch_dog(w) ==
    /\ pc[w] = "dog"
    /\ Goto(w, IF phase = "working" THEN "restart" ELSE "gone")
    /\ UNCHANGED <<phase, log_imp_list, fill, locks, todo, on, back, worker_obj, did_work, spent>>

\* Under uninit_lock_: the second look, and a new worker object with a new
\* thread in place of the old one.
try_restart_worker(w) ==
    /\ pc[w] = "restart" /\ uninit_lock = None
    /\ IF phase = "working"
       THEN /\ status' = [status EXCEPT ![w] = "running"]
            /\ awake_flag' = [awake_flag EXCEPT ![w] = FALSE]
            /\ mutex' = [mutex EXCEPT ![w] = None]
            /\ Goto(w, "enter")
       ELSE Goto(w, "gone") /\ UNCHANGED worker_obj
    /\ UNCHANGED <<phase, log_imp_list, fill, locks, todo, on, back, did_work, spent>>

-----------------------------------------------------------------------------
(* log_worker::awake, called by producers and by uninit                     *)

Target(t) == IF t \in Producers THEN WorkerOf(on[t]) ELSE on[t]

\* awake() is left: only a retrying producer still needs its log.
LeaveAwake(t) ==
    /\ on' = [on EXCEPT ![t] = IF back[t] = "retry" THEN @ ELSE None]
    /\ back' = [back EXCEPT ![t] = "out"]

\* awake_flag_.exchange(false): only the one who saw it set notifies.
awake(t) ==
    /\ pc[t] = "awake"
    /\ awake_flag' = [awake_flag EXCEPT ![Target(t)] = FALSE]
    /\ IF awake_flag[Target(t)]
       THEN Goto(t, "lock") /\ UNCHANGED <<on, back>>
       ELSE Goto(t, back[t]) /\ LeaveAwake(t)
    /\ UNCHANGED <<phase, log_imp_list, fill, locks, todo, status, mutex, did_work, spent>>

\* Mutant: notify without the mutex.
awake_lock_not(t) ==
    /\ pc[t] = "lock"
    /\ Goto(t, "notify")
    /\ UNCHANGED <<phase, log_imp_list, fill, locks, todo, on, back, worker_obj, did_work, spent>>

awake_lock(t) ==
    /\ pc[t] = "lock" /\ mutex[Target(t)] = None
    /\ mutex' = [mutex EXCEPT ![Target(t)] = t]
    /\ Goto(t, "notify")
    /\ UNCHANGED <<phase, log_imp_list, fill, locks, todo, on, back, status, awake_flag, did_work, spent>>

\* notify_all and unlock.  The mutex is recursive, so unlocking the mutex of a
\* worker object that was rebuilt meanwhile fails and changes nothing.
awake_notify(t) ==
    LET w == Target(t)
    IN /\ pc[t] = "notify"
       /\ pc' = [pc EXCEPT ![t] = back[t], ![w] = IF @ = "waiting" THEN "woken" ELSE @]
       /\ mutex' = [mutex EXCEPT ![w] = IF @ = t THEN None ELSE @]
       /\ LeaveAwake(t)
       /\ UNCHANGED <<phase, log_imp_list, fill, locks, todo, status, awake_flag, did_work, spent>>

-----------------------------------------------------------------------------
(* log_write_begin                                                          *)

\* An entry that fits is written; the worker is woken if the buffer was
\* found half full, which the rings may or may not notice.  A full buffer
\* wakes the worker once, then the producer gives up or tries again and again.
log_write_begin(p, l) ==
    /\ pc[p] = "out" /\ l \in Created
    /\ spent.writes < MaxWrites /\ Spend("writes")
    /\ \/ /\ fill[l] < Cap
          /\ fill' = [fill EXCEPT ![l] = @ + 1]
          /\ \/ UNCHANGED <<pc, on>>
             \/ 2 * (fill[l] + 1) >= Cap /\ on' = [on EXCEPT ![p] = l] /\ Goto(p, "awake")
          /\ UNCHANGED back
       \/ /\ fill[l] = Cap
          /\ on' = [on EXCEPT ![p] = l]
          /\ back' = [back EXCEPT ![p] = IF l \in Blocking THEN "retry" ELSE "out"]
          /\ Goto(p, "awake")
          /\ UNCHANGED fill
    /\ UNCHANGED <<phase, log_imp_list, locks, todo, worker_obj, did_work>>

\* The retries of err_wait_and_retry, of which only the successful one counts.
retry(p) ==
    /\ pc[p] = "retry" /\ fill[on[p]] < Cap
    /\ fill' = [fill EXCEPT ![on[p]] = @ + 1]
    /\ on' = [on EXCEPT ![p] = None]
    /\ Goto(p, "out")
    /\ UNCHANGED <<phase, log_imp_list, locks, todo, back, worker_obj, did_work, spent>>

-----------------------------------------------------------------------------
(* Flushes from other threads, under logs_lock_ held for writing            *)

CanWrite == writer = None /\ readers = {}

\* force_flush_all and try_flush_all take every log, force_flush takes one.
flush_begin(f) ==
    /\ pc[f] = "out" /\ CanWrite
    /\ spent.flushes < MaxFlushes /\ Spend("flushes")
    /\ writer' = f
    /\ \E s \in {log_imp_list} \cup {<<l>> : l \in Created} : todo' = [todo EXCEPT ![f] = s]
    /\ Goto(f, "process")
    /\ UNCHANGED <<phase, log_imp_list, fill, readers, uninit_lock, on, back, worker_obj, did_work>>

-----------------------------------------------------------------------------
(* create_log and log_imp::init, within one hold of logs_lock_              *)

\* Mutant: the phase is not looked at.
create_log_any_phase(l) ==
    /\ CanWrite /\ l \notin Created
    /\ log_imp_list' = Append(log_imp_list, l)
    /\ IF l \in Async
       THEN UNCHANGED <<pc, status>>
       ELSE status' = [status EXCEPT ![l] = "running"] /\ Goto(l, "enter")
    /\ UNCHANGED <<phase, fill, locks, todo, on, back, awake_flag, mutex, did_work, spent>>

create_log(l) ==
    /\ CanWrite /\ phase = "working" /\ l \notin Created
    /\ log_imp_list' = Append(log_imp_list, l)
    /\ IF l \in Async
       THEN UNCHANGED <<pc, status>>
       ELSE status' = [status EXCEPT ![l] = "running"] /\ Goto(l, "enter")
    /\ UNCHANGED <<phase, fill, locks, todo, on, back, awake_flag, mutex, did_work, spent>>

-----------------------------------------------------------------------------
(* uninit                                                                   *)

\* thread::cancel
cancel(w) == status' = [status EXCEPT ![w] = IF @ = "running" THEN "pendding_cancel" ELSE @]

uninit_call(u) ==
    /\ pc[u] = "out"
    /\ readers' = readers \cup {u}
    /\ Goto(u, "uninit")
    /\ UNCHANGED <<phase, log_imp_list, fill, writer, uninit_lock, todo, on, back, worker_obj, did_work, spent>>

\* Both locks are held: the phase decides who is first.
uninit(u) ==
    /\ pc[u] = "uninit" /\ writer = None /\ uninit_lock = None
    /\ IF phase = "working"
       THEN /\ uninit_lock' = u /\ phase' = "uninitialized" /\ Goto(u, "cancel_pub")
            /\ UNCHANGED readers
       ELSE /\ readers' = readers \ {u} /\ Goto(u, "returned")
            /\ UNCHANGED <<uninit_lock, phase>>
    /\ UNCHANGED <<log_imp_list, fill, writer, todo, on, back, worker_obj, did_work, spent>>

uninit_cancel(u, w, then) ==
    /\ cancel(w)
    /\ on' = [on EXCEPT ![u] = w]
    /\ back' = [back EXCEPT ![u] = then]
    /\ Goto(u, "awake")
    /\ UNCHANGED <<phase, log_imp_list, fill, locks, awake_flag, mutex, did_work, spent>>

cancel_public(u) == pc[u] = "cancel_pub" /\ uninit_cancel(u, Pub, "join_pub") /\ UNCHANGED todo

join_public(u) ==
    /\ pc[u] = "join_pub" /\ pc[Pub] = "gone"
    /\ todo' = [todo EXCEPT ![u] = log_imp_list]
    /\ Goto(u, "cancel")
    /\ UNCHANGED <<phase, log_imp_list, fill, locks, on, back, worker_obj, did_work, spent>>

\* The walk over log_imp_list_, for the independent ones.
cancel_next(u) ==
    /\ pc[u] = "cancel" /\ todo[u] # <<>>
    /\ todo' = [todo EXCEPT ![u] = Tail(@)]
    /\ \/ Head(todo[u]) \notin Async /\ uninit_cancel(u, Head(todo[u]), "cancel")
       \/ /\ Head(todo[u]) \in Async
          /\ UNCHANGED <<phase, log_imp_list, fill, locks, pc, on, back, worker_obj, did_work, spent>>

\* The joins in turn, and the locks go.
uninit_end(u) ==
    /\ pc[u] = "cancel" /\ todo[u] = <<>>
    /\ \A w \in Created \ Async : pc[w] = "gone"
    /\ readers' = readers \ {u} /\ uninit_lock' = None
    /\ Goto(u, "returned")
    /\ UNCHANGED <<phase, log_imp_list, fill, writer, todo, on, back, worker_obj, did_work, spent>>

-----------------------------------------------------------------------------
\* The manager has been constructed: the public worker runs, there is no log.
Init ==
    /\ phase = "working" /\ log_imp_list = <<>>
    /\ fill = [l \in Logs |-> 0]
    /\ readers = {} /\ writer = None /\ uninit_lock = None
    /\ pc = [t \in Threads |-> IF t = Pub THEN "enter" ELSE IF t \in Workers THEN "unborn" ELSE "out"]
    /\ todo = [t \in Consumers \cup Stoppers |-> <<>>]
    /\ on = [t \in Producers \cup Stoppers |-> None]
    /\ back = [t \in Producers \cup Stoppers |-> "out"]
    /\ status = [w \in Workers |-> IF w = Pub THEN "running" ELSE "init"]
    /\ awake_flag = [w \in Workers |-> FALSE]
    /\ mutex = [w \in Workers |-> None]
    /\ did_work = [w \in Workers |-> FALSE]
    /\ spent = [writes |-> 0, flushes |-> 0, kills |-> 0]

Processing(t) == process_chunk(t) \/ process_end(t)
WorkerStep(w) ==
    \/ read_lock(w) \/ process_by_worker(w) \/ Processing(w) \/ check_cancel(w)
    \/ sleep(w) \/ wait_for(w) \/ timeout(w) \/ wake_up(w)
    \/ watch_dog(w) \/ try_restart_worker(w)
AwakeStep(t) == awake(t) \/ awake_lock(t) \/ awake_notify(t)
StopStep(u) ==
    \/ uninit(u) \/ cancel_public(u) \/ join_public(u) \/ cancel_next(u) \/ uninit_end(u)
    \/ AwakeStep(u)

Next ==
    \/ \E w \in Workers : WorkerStep(w) \/ killed(w)
    \/ \E p \in Producers : (\E l \in Logs : log_write_begin(p, l)) \/ retry(p) \/ AwakeStep(p)
    \/ \E f \in Flushers : flush_begin(f) \/ Processing(f)
    \/ \E l \in Logs : create_log(l)
    \/ \E u \in Stoppers : uninit_call(u) \/ StopStep(u)

Spec == Init /\ [][Next]_vars

\* Every thread that has begun something goes on with it; nobody has to begin.
\* A sleep ends, because time passes.  A thread counted in at logs_lock_ keeps
\* new writers out, so that weak fairness is enough for it.
FairSpec ==
    /\ Spec
    /\ \A w \in Workers : WF_vars(WorkerStep(w))
    /\ \A p \in Producers : WF_vars(retry(p) \/ AwakeStep(p))
    /\ \A f \in Flushers : WF_vars(Processing(f))
    /\ \A u \in Stoppers : WF_vars(StopStep(u))

-----------------------------------------------------------------------------
(* Properties                                                               *)

Labels == {"unborn", "out", "enter", "entering", "process", "check", "sleep", "armed", "waiting",
           "woken", "dog", "restart", "gone", "awake", "lock", "notify", "retry", "uninit",
           "cancel_pub", "join_pub", "cancel", "returned"}

\* Everything has its type; in particular a buffer never holds more than it can.
TypeOK ==
    /\ phase \in {"working", "uninitialized"}
    /\ log_imp_list \in Seq(Logs) /\ IsInjective(log_imp_list)
    /\ fill \in [Logs -> 0 .. Cap]
    /\ readers \subseteq Workers \cup Stoppers
    /\ writer \in Flushers \cup {None} /\ uninit_lock \in Stoppers \cup {None}
    /\ pc \in [Threads -> Labels]
    /\ todo \in [Consumers \cup Stoppers -> Seq(Created)]
    /\ on \in [Producers \cup Stoppers -> Created \cup Workers \cup {None}]
    /\ back \in [Producers \cup Stoppers -> {"out", "retry", "join_pub", "cancel"}]
    /\ status \in [Workers -> {"init", "running", "pendding_cancel", "released"}]
    /\ awake_flag \in [Workers -> BOOLEAN]
    /\ mutex \in [Workers -> Threads \cup {None}]
    /\ did_work \in [Workers -> BOOLEAN]
    /\ spent \in [{"writes", "flushes", "kills"} -> Nat]

Reads(t, l) == pc[t] = "process" /\ todo[t] # <<>> /\ Head(todo[t]) = l /\ Serves(t, l)

\* A log buffer has one reader.  log_imp::process is called by the public
\* worker, by the worker of the log, by a worker restarted in place of a dead
\* one and by threads that flush, and never by two of them at a time for the
\* same log (the rings have a single consumer and the appenders no lock).
SingleConsumer == \A l \in Logs, t1, t2 \in Consumers : Reads(t1, l) /\ Reads(t2, l) => t1 = t2

\* A worker that sleeps with its awake_flag_ taken down is about to be
\* notified: whoever exchanged the flag is still on the way to notify_all.  No
\* awake() that saw the flag is lost between the flag and the wait.
NotifyComing ==
    \A w \in Workers : pc[w] \in {"armed", "waiting"} /\ ~awake_flag[w] =>
        \E t \in Producers \cup Stoppers : pc[t] \in {"lock", "notify"} /\ Target(t) = w

\* When uninit has returned there is no worker thread any more, and none will
\* be started: neither by a create_log that was under way nor by the watch-dog
\* of a worker that died at the same time.
NoWorkerLeft ==
    (\E u \in Stoppers : pc[u] = "returned") => \A w \in Workers : pc[w] \in {"unborn", "gone"}

\* Threads, locks and buffers are as they should be at all times and no worker is
\* left at the end (TypeOK, NoWorkerLeft).
WorkersSound == TypeOK /\ NoWorkerLeft

\* The watch-dog of a dying worker looked at the phase before uninit changed
\* it, and now waits for uninit_lock_, which uninit holds until it has joined
\* that very thread.  log_worker.cpp calls the restart "Reliable in most
\* cases, except log_manager is destructing in other thread".
WatchDogTrapped == \E w \in Workers : pc[w] = "restart" /\ uninit_lock # None

\* uninit returns: the workers it cancels see it, asleep or at work, whether or
\* not the wake-up reaches them, unless it traps a watch-dog.
UninitReturns == \A u \in Stoppers : []<>(pc[u] \in {"out", "returned"} \/ WatchDogTrapped)

\* A producer held up by a full buffer (err_wait_and_retry) gets its entry in
\* as long as the manager works, although it wakes the worker only once and
\* the worker may have missed it, may sleep, or may just have been killed.
BlockedServed ==
    \A p \in Producers : []<>(pc[p] # "retry" \/ phase # "working")

\* Nobody waits for ever on a worker: UninitReturns and BlockedServed.
NobodyStuck == UninitReturns /\ BlockedServed
=============================================================================
