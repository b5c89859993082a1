-------------------------- MODULE WorkerLifeProofs --------------------------
(***************************************************************************)
(* The workers, the manager's locks and log_worker::awake, for any number   *)
(* of logs, producers, flushing threads and threads that call uninit, and   *)
(* without a bound on what they do.                                         *)
(*                                                                         *)
(* None of the three results is inductive.  SingleConsumer rests on what    *)
(* being counted in at logs_lock_ says about the place of a thread, and on  *)
(* the walk of a worker staying within the logs it serves; NotifyComing on  *)
(* the mutex, which keeps everybody who took the flag of a worker that has  *)
(* armed but does not wait yet from notifying too early; NoWorkerLeft on    *)
(* the order of uninit's joins and on the phase being decided once.         *)
(***************************************************************************)
EXTENDS WorkerLife, TLAPS

WorkerPlaces == {"unborn", "enter", "entering", "process", "check", "sleep", "armed", "waiting",
                 "woken", "dog", "restart", "gone"}
AwakePlaces == {"awake", "lock", "notify"}
UninitPlaces == {"cancel_pub", "join_pub", "cancel"} \cup AwakePlaces

\* Each kind of thread stays within its own part of the program.
PlacesKnown ==
    /\ \A w \in Workers : pc[w] \in WorkerPlaces
    /\ \A f \in Flushers : pc[f] \in {"out", "process"}
    /\ \A p \in Producers : pc[p] \in {"out", "retry"} \cup AwakePlaces
    /\ \A u \in Stoppers : pc[u] \in {"out", "uninit", "returned"} \cup UninitPlaces

\* An independent log has a worker thread from its creation on, which walks
\* over this log only.
WorkersBorn ==
    \A w \in Logs \ Async : (pc[w] = "unborn" <=> w \notin Created) /\ todo[w] \in Seq({w})

\* What is recorded in logs_lock_ and uninit_lock_ is where the threads are.
LocksHeld ==
    /\ \A w \in Workers : w \in readers <=> pc[w] \in {"entering", "process"}
    /\ \A u \in Stoppers : u \in readers <=> pc[u] \in {"uninit"} \cup UninitPlaces
    /\ \A f \in Flushers : writer = f <=> pc[f] = "process"
    /\ writer # None => \A w \in Workers : pc[w] # "process"
    /\ \A u \in Stoppers : uninit_lock = u <=> pc[u] \in UninitPlaces

\* Whoever is in awake() knows whom it wakes and where it goes on.
AwakeKnown ==
    /\ \A p \in Producers : back[p] \in {"out", "retry"} /\ (pc[p] # "out" => on[p] \in Created)
    /\ \A u \in Stoppers : pc[u] \in AwakePlaces => on[u] \in Workers /\ back[u] \in {"join_pub", "cancel"}

\* The phase is left once, under uninit_lock_, which is given back after the
\* joins; the public worker is joined before the others are cancelled.
PhaseLeft ==
    /\ phase = "working" => uninit_lock = None
    /\ phase # "working" /\ uninit_lock = None => \A w \in Workers : pc[w] \in {"unborn", "gone"}
    /\ \A u \in Stoppers :
        /\ pc[u] = "returned" => phase # "working" /\ uninit_lock = None
        /\ pc[u] = "cancel" \/ (pc[u] \in AwakePlaces /\ back[u] = "cancel") => pc[Pub] = "gone"

Callers == Producers \cup Stoppers

\* The flag of a worker that has armed was taken by somebody who still needs
\* the mutex; once the worker waits he may have it.
FlagTaken ==
    \A w \in Workers :
        /\ pc[w] = "armed" =>
            /\ mutex[w] = w
            /\ awake_flag[w] \/ \E t \in Callers : pc[t] = "lock" /\ Target(t) = w
        /\ pc[w] = "waiting" =>
            awake_flag[w] \/ \E t \in Callers : pc[t] \in {"lock", "notify"} /\ Target(t) = w

IInv == TypeOK /\ PlacesKnown /\ WorkersBorn /\ LocksHeld /\ AwakeKnown /\ PhaseLeft /\ FlagTaken

-----------------------------------------------------------------------------
\* Who is who: the parts of ThreadRoles as the steps use them.
LEMMA Roles ==
    /\ Pub \in Workers
    /\ \A w \in Workers : /\ w \in Threads /\ w \in Consumers /\ w # None
                          /\ w \notin Flushers /\ w \notin Producers /\ w \notin Stoppers
                          /\ w = Pub \/ w \in Logs \ Async
    /\ \A w \in Logs \ Async : w \in Workers /\ w # Pub
    /\ \A f \in Flushers : /\ f \in Threads /\ f \in Consumers /\ f # None
                           /\ f \notin Producers /\ f \notin Stoppers
    /\ \A p \in Producers : p \in Threads /\ p \notin Stoppers /\ p \notin Consumers /\ p # None
    /\ \A u \in Stoppers : u \in Threads /\ u \notin Consumers /\ u # None
    /\ \A t \in Consumers : t \in Workers \/ t \in Flushers
    /\ \A t \in Threads : t \in Workers \/ t \in Flushers \/ t \in Producers \/ t \in Stoppers
  BY WorkerConstants, ThreadRoles DEF Workers, Consumers, Threads

\* The created logs are a set of logs, and depend on log_imp_list_ alone.
LEMMA CreatedLogs == TypeOK => Created \subseteq Logs /\ log_imp_list \in Seq(Created)
  BY DEF TypeOK, Created, Range

LEMMA SameCreated == UNCHANGED log_imp_list => Created' = Created
  BY DEF Created

\* Whom a thread in awake() wakes depends on what it has in hand.
LEMMA SameTargets == UNCHANGED on => \A t : Target(t)' = Target(t)
  BY DEF Target

LEMMA CallersRoles == \A t \in Callers : t \in Threads /\ t \notin Workers /\ t \notin Flushers
  BY Roles DEF Callers

LEMMA TargetKnown ==
    ASSUME IInv, NEW t \in Callers, pc[t] \in AwakePlaces
    PROVE  Target(t) \in Workers
  <1>1. CASE t \in Producers
    <2>1. on[t] \in Logs
      BY <1>1, CreatedLogs DEF IInv, AwakeKnown, AwakePlaces
    <2> QED BY <1>1, <2>1, Roles DEF Target, WorkerOf
  <1>2. CASE t \in Stoppers
    BY <1>2, Roles DEF IInv, AwakeKnown, Target
  <1> QED BY <1>1, <1>2 DEF Callers

\* Sequences: what is left of a walk.
LEMMA TailStays == ASSUME NEW S, NEW s \in Seq(S), s # <<>>
                   PROVE  Head(s) \in S /\ Tail(s) \in Seq(S)
  OBVIOUS

LEMMA OneSeq == ASSUME NEW S, NEW x \in S PROVE <<x>> \in Seq(S)
  OBVIOUS

LEMMA SeqGrows == ASSUME NEW S, NEW R, S \subseteq R PROVE Seq(S) \subseteq Seq(R)
  OBVIOUS

\* create_log puts one log at the end.
LEMMA AppendCreated ==
    ASSUME TypeOK, NEW l \in Logs, l \notin Created, log_imp_list' = Append(log_imp_list, l)
    PROVE  /\ Created' = Created \cup {l}
           /\ log_imp_list' \in Seq(Logs) /\ IsInjective(log_imp_list')
  <1>1. log_imp_list' \in Seq(Logs) /\ Len(log_imp_list') = Len(log_imp_list) + 1
    BY DEF TypeOK
  <1>2. log_imp_list'[Len(log_imp_list) + 1] = l
    BY DEF TypeOK
  <1>3. \A i \in 1 .. Len(log_imp_list) : log_imp_list'[i] = log_imp_list[i]
    BY DEF TypeOK
  <1>4. Created = {log_imp_list[i] : i \in 1 .. Len(log_imp_list)}
    BY DEF TypeOK, Created, Range
  <1>5. Created' = {log_imp_list'[i] : i \in 1 .. Len(log_imp_list) + 1}
    BY <1>1 DEF Created, Range
  <1>6. Len(log_imp_list) \in Nat
    BY DEF TypeOK
  <1>7. 1 .. Len(log_imp_list) + 1 = (1 .. Len(log_imp_list)) \cup {Len(log_imp_list) + 1}
    BY <1>6
  <1>8. Created' = Created \cup {l}
    BY <1>2, <1>3, <1>4, <1>5, <1>7
  <1>9. IsInjective(log_imp_list')
    BY <1>1, <1>2, <1>3, <1>4, <1>6, <1>7 DEF TypeOK, IsInjective
  <1> QED BY <1>1, <1>8, <1>9

\* A flag that was taken stays taken while those who took it are on the way.
LEMMA FlagStays ==
    ASSUME FlagTaken,
           \A v \in Workers : pc'[v] \in {"armed", "waiting"} =>
                                pc'[v] = pc[v] /\ awake_flag'[v] = awake_flag[v],
           \A v \in Workers : pc[v] = "armed" => mutex'[v] = mutex[v],
           \A v \in Workers, x \in Callers :
                /\ pc'[v] = "armed" /\ pc[x] = "lock" /\ Target(x) = v =>
                        pc'[x] = "lock" /\ Target(x)' = v
                /\ pc'[v] = "waiting" /\ pc[x] \in {"lock", "notify"} /\ Target(x) = v =>
                        pc'[x] \in {"lock", "notify"} /\ Target(x)' = v
    PROVE  FlagTaken'
  BY DEF FlagTaken, Callers

-----------------------------------------------------------------------------
LEMMA InitIInv == Init => IInv
  <1> SUFFICES ASSUME Init PROVE IInv
    OBVIOUS
  <1> USE Roles DEF Init
  <1>1. Created = {}
    BY DEF Created, Range
  <1>2. TypeOK
    BY <1>1, WorkerConstants DEF TypeOK, Labels, IsInjective
  <1>3. PlacesKnown
    BY DEF PlacesKnown, WorkerPlaces
  <1>4. WorkersBorn
    BY <1>1 DEF WorkersBorn
  <1>5. LocksHeld
    BY DEF LocksHeld, UninitPlaces, AwakePlaces
  <1>6. AwakeKnown
    BY DEF AwakeKnown, AwakePlaces
  <1>7. PhaseLeft
    BY DEF PhaseLeft, AwakePlaces
  <1>8. FlagTaken
    BY DEF FlagTaken
  <1> QED BY <1>2, <1>3, <1>4, <1>5, <1>6, <1>7, <1>8 DEF IInv

-----------------------------------------------------------------------------
(* The steps of a worker                                                    *)

LEMMA StepReadLock == ASSUME IInv, NEW w \in Workers, read_lock(w) PROVE IInv'
  <1> USE Roles DEF IInv, TypeOK, read_lock, Goto, worker_obj
  <1>0. Created' = Created
    BY SameCreated
  <1>1. TypeOK'
    BY <1>0 DEF Labels
  <1>2. PlacesKnown'
    BY DEF PlacesKnown, WorkerPlaces, AwakePlaces, UninitPlaces
  <1>3. WorkersBorn'
    BY <1>0 DEF WorkersBorn
  <1>4. LocksHeld'
    BY DEF LocksHeld, UninitPlaces, AwakePlaces
  <1>5. AwakeKnown'
    BY <1>0 DEF AwakeKnown, AwakePlaces
  <1>6. PhaseLeft'
    BY DEF PhaseLeft, AwakePlaces
  <1>7. FlagTaken'
    BY CallersRoles, SameTargets DEF FlagTaken
  <1> QED BY <1>1, <1>2, <1>3, <1>4, <1>5, <1>6, <1>7

LEMMA StepProcessByWorker == ASSUME IInv, NEW w \in Workers, process_by_worker(w) PROVE IInv'
  <1> USE Roles DEF IInv, TypeOK
  <1>0. Created' = Created
    BY SameCreated DEF process_by_worker
  <1>a. CASE phase = "working"
    <2>0. /\ pc[w] = "entering" /\ writer = None
          /\ todo' = [todo EXCEPT ![w] = Walk(w)]
          /\ pc' = [pc EXCEPT ![w] = "process"]
          /\ UNCHANGED <<phase, log_imp_list, fill, readers, writer, uninit_lock, on, back,
                         status, awake_flag, mutex, did_work, spent>>
      BY <1>a DEF process_by_worker, Goto, worker_obj
    <2>a. w # Pub => w \in Created /\ Walk(w) = <<w>>
      BY <2>0 DEF WorkersBorn, Walk
    <2>b. w # Pub => Walk(w) \in Seq(Created) /\ Walk(w) \in Seq({w})
      <3> HIDE Roles DEF IInv, TypeOK
      <3> QED BY <2>a, OneSeq
    <2>c. w = Pub => Walk(w) \in Seq(Created)
      BY CreatedLogs DEF Walk
    <2>1. TypeOK'
      BY <1>0, <2>0, <2>b, <2>c DEF Labels
    <2>2. PlacesKnown'
      BY <2>0 DEF PlacesKnown, WorkerPlaces, AwakePlaces, UninitPlaces
    <2>3. WorkersBorn'
      BY <1>0, <2>0, <2>b DEF WorkersBorn
    <2>4. LocksHeld'
      BY <2>0 DEF LocksHeld, UninitPlaces, AwakePlaces
    <2>5. AwakeKnown'
      BY <1>0, <2>0 DEF AwakeKnown, AwakePlaces
    <2>6. PhaseLeft'
      BY <2>0 DEF PhaseLeft, AwakePlaces
    <2>7. FlagTaken'
      BY <2>0, CallersRoles, SameTargets DEF FlagTaken
    <2> QED BY <2>1, <2>2, <2>3, <2>4, <2>5, <2>6, <2>7
  <1>b. CASE phase # "working"
    <2>0. /\ pc[w] = "entering"
          /\ readers' = readers \ {w}
          /\ pc' = [pc EXCEPT ![w] = "check"]
          /\ UNCHANGED <<phase, log_imp_list, fill, writer, uninit_lock, todo, on, back, status,
                         awake_flag, mutex, did_work, spent>>
      BY <1>b DEF process_by_worker, Goto, worker_obj
    <2>1. TypeOK'
      BY <1>0, <2>0 DEF Labels
    <2>2. PlacesKnown'
      BY <2>0 DEF PlacesKnown, WorkerPlaces, AwakePlaces, UninitPlaces
    <2>3. WorkersBorn'
      BY <1>0, <2>0 DEF WorkersBorn
    <2>4. LocksHeld'
      BY <2>0 DEF LocksHeld, UninitPlaces, AwakePlaces
    <2>5. AwakeKnown'
      BY <1>0, <2>0 DEF AwakeKnown, AwakePlaces
    <2>6. PhaseLeft'
      BY <2>0 DEF PhaseLeft, AwakePlaces
    <2>7. FlagTaken'
      BY <2>0, CallersRoles, SameTargets DEF FlagTaken
    <2> QED BY <2>1, <2>2, <2>3, <2>4, <2>5, <2>6, <2>7
  <1> QED BY <1>a, <1>b

LEMMA StepProcessChunk == ASSUME IInv, NEW w \in Consumers, process_chunk(w) PROVE IInv'
  <1> USE Roles DEF IInv, TypeOK
  <1>0. Created' = Created
    BY SameCreated DEF process_chunk
  <1>x. Head(todo[w]) \in Created /\ Head(todo[w]) \in Logs /\ Tail(todo[w]) \in Seq(Created)
    BY TailStays, CreatedLogs DEF process_chunk
  <1>y. w \in Logs \ Async => Tail(todo[w]) \in Seq({w})
    BY TailStays DEF process_chunk, WorkersBorn
  <1>a. CASE Serves(w, Head(todo[w])) /\ fill[Head(todo[w])] > 0
    <2>0. /\ fill' = [fill EXCEPT ![Head(todo[w])] = @ - 1]
          /\ did_work' = [v \in Workers |-> v = w \/ did_work[v]]
          /\ UNCHANGED <<phase, log_imp_list, readers, writer, uninit_lock, pc, todo, on, back,
                         status, awake_flag, mutex, spent>>
      BY <1>a DEF process_chunk, locks, worker_obj
    <2>1. TypeOK'
      <3>1. fill[Head(todo[w])] - 1 \in 0 .. Cap
        BY <1>x, <1>a, WorkerConstants
      <3>2. fill' \in [Logs -> 0 .. Cap] /\ did_work' \in [Workers -> BOOLEAN]
        BY <2>0, <3>1
      <3> QED BY <1>0, <2>0, <3>2
    <2>2. PlacesKnown'
      BY <2>0 DEF PlacesKnown, WorkerPlaces, AwakePlaces, UninitPlaces
    <2>3. WorkersBorn'
      BY <1>0, <2>0 DEF WorkersBorn
    <2>4. LocksHeld'
      BY <2>0 DEF LocksHeld, UninitPlaces, AwakePlaces
    <2>5. AwakeKnown'
      BY <1>0, <2>0 DEF AwakeKnown, AwakePlaces
    <2>6. PhaseLeft'
      BY <2>0 DEF PhaseLeft, AwakePlaces
    <2>7. FlagTaken'
      BY <2>0, CallersRoles, SameTargets DEF FlagTaken
    <2> QED BY <2>1, <2>2, <2>3, <2>4, <2>5, <2>6, <2>7
  <1>b. CASE ~(Serves(w, Head(todo[w])) /\ fill[Head(todo[w])] > 0)
    <2>0. /\ todo' = [todo EXCEPT ![w] = Tail(@)]
          /\ UNCHANGED <<phase, log_imp_list, fill, readers, writer, uninit_lock, pc, on, back,
                         status, awake_flag, mutex, did_work, spent>>
      BY <1>b DEF process_chunk, locks, worker_obj
    <2>1. TypeOK'
      BY <1>0, <2>0, <1>x DEF Labels
    <2>2. PlacesKnown'
      BY <2>0 DEF PlacesKnown, WorkerPlaces, AwakePlaces, UninitPlaces
    <2>3. WorkersBorn'
      BY <1>0, <2>0, <1>y DEF WorkersBorn
    <2>4. LocksHeld'
      BY <2>0 DEF LocksHeld, UninitPlaces, AwakePlaces
    <2>5. AwakeKnown'
      BY <1>0, <2>0 DEF AwakeKnown, AwakePlaces
    <2>6. PhaseLeft'
      BY <2>0 DEF PhaseLeft, AwakePlaces
    <2>7. FlagTaken'
      BY <2>0, CallersRoles, SameTargets DEF FlagTaken
    <2> QED BY <2>1, <2>2, <2>3, <2>4, <2>5, <2>6, <2>7
  <1> QED BY <1>a, <1>b

LEMMA StepProcessEnd == ASSUME IInv, NEW w \in Consumers, process_end(w) PROVE IInv'
  <1> USE Roles DEF IInv, TypeOK, process_end, Goto, worker_obj
  <1>0. Created' = Created
    BY SameCreated
  <1>1. TypeOK'
    BY <1>0 DEF Labels
  <1>2. PlacesKnown'
    BY DEF PlacesKnown, WorkerPlaces, AwakePlaces, UninitPlaces
  <1>3. WorkersBorn'
    BY <1>0 DEF WorkersBorn
  <1>4. LocksHeld'
    BY DEF LocksHeld, UninitPlaces, AwakePlaces
  <1>5. AwakeKnown'
    BY <1>0 DEF AwakeKnown, AwakePlaces
  <1>6. PhaseLeft'
    BY DEF PhaseLeft, AwakePlaces
  <1>7. FlagTaken'
    BY CallersRoles, SameTargets DEF FlagTaken
  <1> QED BY <1>1, <1>2, <1>3, <1>4, <1>5, <1>6, <1>7

LEMMA StepCheckCancel == ASSUME IInv, NEW w \in Workers, check_cancel(w) PROVE IInv'
  <1> USE Roles DEF IInv, TypeOK
  <1>0. Created' = Created
    BY SameCreated DEF check_cancel, locks
  <1>a. CASE status[w] = "pendding_cancel"
    <2>0. /\ pc[w] = "check"
          /\ status' = [status EXCEPT ![w] = "released"]
          /\ pc' = [pc EXCEPT ![w] = "dog"]
          /\ did_work' = [did_work EXCEPT ![w] = FALSE]
          /\ UNCHANGED <<phase, log_imp_list, fill, readers, writer, uninit_lock, todo, on, back,
                         awake_flag, mutex, spent>>
      BY <1>a DEF check_cancel, Goto, locks
    <2>1. TypeOK'
      BY <1>0, <2>0 DEF Labels
    <2>2. PlacesKnown'
      BY <2>0 DEF PlacesKnown, WorkerPlaces, AwakePlaces, UninitPlaces
    <2>3. WorkersBorn'
      BY <1>0, <2>0 DEF WorkersBorn
    <2>4. LocksHeld'
      BY <2>0 DEF LocksHeld, UninitPlaces, AwakePlaces
    <2>5. AwakeKnown'
      BY <1>0, <2>0 DEF AwakeKnown, AwakePlaces
    <2>6. PhaseLeft'
      BY <2>0 DEF PhaseLeft, AwakePlaces
    <2>7. FlagTaken'
      BY <2>0, CallersRoles, SameTargets DEF FlagTaken
    <2> QED BY <2>1, <2>2, <2>3, <2>4, <2>5, <2>6, <2>7
  <1>b. CASE status[w] # "pendding_cancel" /\ did_work[w]
    <2>0. /\ pc[w] = "check"
          /\ pc' = [pc EXCEPT ![w] = "enter"]
          /\ did_work' = [did_work EXCEPT ![w] = FALSE]
          /\ UNCHANGED <<phase, log_imp_list, fill, readers, writer, uninit_lock, todo, on, back,
                         status, awake_flag, mutex, spent>>
      BY <1>b DEF check_cancel, Goto, locks
    <2>1. TypeOK'
      BY <1>0, <2>0 DEF Labels
    <2>2. PlacesKnown'
      BY <2>0 DEF PlacesKnown, WorkerPlaces, AwakePlaces, UninitPlaces
    <2>3. WorkersBorn'
      BY <1>0, <2>0 DEF WorkersBorn
    <2>4. LocksHeld'
      BY <2>0 DEF LocksHeld, UninitPlaces, AwakePlaces
    <2>5. AwakeKnown'
      BY <1>0, <2>0 DEF AwakeKnown, AwakePlaces
    <2>6. PhaseLeft'
      BY <2>0 DEF PhaseLeft, AwakePlaces
    <2>7. FlagTaken'
      BY <2>0, CallersRoles, SameTargets DEF FlagTaken
    <2> QED BY <2>1, <2>2, <2>3, <2>4, <2>5, <2>6, <2>7
  <1>c. CASE status[w] # "pendding_cancel" /\ ~did_work[w]
    <2>0. /\ pc[w] = "check"
          /\ pc' = [pc EXCEPT ![w] = "sleep"]
          /\ did_work' = [did_work EXCEPT ![w] = FALSE]
          /\ UNCHANGED <<phase, log_imp_list, fill, readers, writer, uninit_lock, todo, on, back,
                         status, awake_flag, mutex, spent>>
      BY <1>c DEF check_cancel, Goto, locks
    <2>1. TypeOK'
      BY <1>0, <2>0 DEF Labels
    <2>2. PlacesKnown'
      BY <2>0 DEF PlacesKnown, WorkerPlaces, AwakePlaces, UninitPlaces
    <2>3. WorkersBorn'
      BY <1>0, <2>0 DEF WorkersBorn
    <2>4. LocksHeld'
      BY <2>0 DEF LocksHeld, UninitPlaces, AwakePlaces
    <2>5. AwakeKnown'
      BY <1>0, <2>0 DEF AwakeKnown, AwakePlaces
    <2>6. PhaseLeft'
      BY <2>0 DEF PhaseLeft, AwakePlaces
    <2>7. FlagTaken'
      BY <2>0, CallersRoles, SameTargets DEF FlagTaken
    <2> QED BY <2>1, <2>2, <2>3, <2>4, <2>5, <2>6, <2>7
  <1> QED BY <1>a, <1>b, <1>c

LEMMA StepSleep == ASSUME IInv, NEW w \in Workers, sleep(w) PROVE IInv'
  <1> USE Roles DEF IInv, TypeOK, sleep, Goto, locks
  <1>0. Created' = Created
    BY SameCreated
  <1>1. TypeOK'
    BY <1>0 DEF Labels
  <1>2. PlacesKnown'
    BY DEF PlacesKnown, WorkerPlaces, AwakePlaces, UninitPlaces
  <1>3. WorkersBorn'
    BY <1>0 DEF WorkersBorn
  <1>4. LocksHeld'
    BY DEF LocksHeld, UninitPlaces, AwakePlaces
  <1>5. AwakeKnown'
    BY <1>0 DEF AwakeKnown, AwakePlaces
  <1>6. PhaseLeft'
    BY DEF PhaseLeft, AwakePlaces
  <1>7. FlagTaken'
    BY CallersRoles, SameTargets DEF FlagTaken
  <1> QED BY <1>1, <1>2, <1>3, <1>4, <1>5, <1>6, <1>7

LEMMA StepWaitFor == ASSUME IInv, NEW w \in Workers, wait_for(w) PROVE IInv'
  <1> USE Roles DEF IInv, TypeOK, wait_for, Goto, locks
  <1>0. Created' = Created
    BY SameCreated
  <1>1. TypeOK'
    BY <1>0 DEF Labels
  <1>2. PlacesKnown'
    BY DEF PlacesKnown, WorkerPlaces, AwakePlaces, UninitPlaces
  <1>3. WorkersBorn'
    BY <1>0 DEF WorkersBorn
  <1>4. LocksHeld'
    BY DEF LocksHeld, UninitPlaces, AwakePlaces
  <1>5. AwakeKnown'
    BY <1>0 DEF AwakeKnown, AwakePlaces
  <1>6. PhaseLeft'
    BY DEF PhaseLeft, AwakePlaces
  <1>7. FlagTaken'
    BY CallersRoles, SameTargets DEF FlagTaken
  <1> QED BY <1>1, <1>2, <1>3, <1>4, <1>5, <1>6, <1>7

LEMMA StepTimeout == ASSUME IInv, NEW w \in Workers, timeout(w) PROVE IInv'
  <1> USE Roles DEF IInv, TypeOK, timeout, Goto, locks, worker_obj
  <1>0. Created' = Created
    BY SameCreated
  <1>1. TypeOK'
    BY <1>0 DEF Labels
  <1>2. PlacesKnown'
    BY DEF PlacesKnown, WorkerPlaces, AwakePlaces, UninitPlaces
  <1>3. WorkersBorn'
    BY <1>0 DEF WorkersBorn
  <1>4. LocksHeld'
    BY DEF LocksHeld, UninitPlaces, AwakePlaces
  <1>5. AwakeKnown'
    BY <1>0 DEF AwakeKnown, AwakePlaces
  <1>6. PhaseLeft'
    BY DEF PhaseLeft, AwakePlaces
  <1>7. FlagTaken'
    BY CallersRoles, SameTargets DEF FlagTaken
  <1> QED BY <1>1, <1>2, <1>3, <1>4, <1>5, <1>6, <1>7

LEMMA StepWakeUp == ASSUME IInv, NEW w \in Workers, wake_up(w) PROVE IInv'
  <1> USE Roles DEF IInv, TypeOK, wake_up, Goto, locks
  <1>0. Created' = Created
    BY SameCreated
  <1>1. TypeOK'
    BY <1>0 DEF Labels
  <1>2. PlacesKnown'
    BY DEF PlacesKnown, WorkerPlaces, AwakePlaces, UninitPlaces
  <1>3. WorkersBorn'
    BY <1>0 DEF WorkersBorn
  <1>4. LocksHeld'
    BY DEF LocksHeld, UninitPlaces, AwakePlaces
  <1>5. AwakeKnown'
    BY <1>0 DEF AwakeKnown, AwakePlaces
  <1>6. PhaseLeft'
    BY DEF PhaseLeft, AwakePlaces
  <1>7. FlagTaken'
    BY CallersRoles, SameTargets DEF FlagTaken
  <1> QED BY <1>1, <1>2, <1>3, <1>4, <1>5, <1>6, <1>7

LEMMA StepKilled == ASSUME IInv, NEW w \in Workers, killed(w) PROVE IInv'
  <1> USE Roles DEF IInv, TypeOK, killed, Goto, Spend, worker_obj
  <1>0. Created' = Created
    BY SameCreated
  <1>a. Head(todo[w]) \in Logs
    BY TailStays, CreatedLogs
  <1>b. fill' \in [Logs -> 0 .. Cap]
    BY <1>a, WorkerConstants
  <1>c. spent' \in [{"writes", "flushes", "kills"} -> Nat]
    OBVIOUS
  <1>1. TypeOK'
    BY <1>0, <1>b, <1>c DEF Labels
  <1>2. PlacesKnown'
    BY DEF PlacesKnown, WorkerPlaces, AwakePlaces, UninitPlaces
  <1>3. WorkersBorn'
    BY <1>0 DEF WorkersBorn
  <1>4. LocksHeld'
    BY DEF LocksHeld, UninitPlaces, AwakePlaces
  <1>5. AwakeKnown'
    BY <1>0 DEF AwakeKnown, AwakePlaces
  <1>6. PhaseLeft'
    BY DEF PhaseLeft, AwakePlaces
  <1>7. FlagTaken'
    BY CallersRoles, SameTargets DEF FlagTaken
  <1> QED BY <1>1, <1>2, <1>3, <1>4, <1>5, <1>6, <1>7

LEMMA StepWatchDog == ASSUME IInv, NEW w \in Workers, watch_dog(w) PROVE IInv'
  <1> USE Roles DEF IInv, TypeOK, watch_dog, Goto, locks, worker_obj
  <1>0. Created' = Created
    BY SameCreated
  <1>1. TypeOK'
    BY <1>0 DEF Labels
  <1>2. PlacesKnown'
    BY DEF PlacesKnown, WorkerPlaces, AwakePlaces, UninitPlaces
  <1>3. WorkersBorn'
    BY <1>0 DEF WorkersBorn
  <1>4. LocksHeld'
    BY DEF LocksHeld, UninitPlaces, AwakePlaces
  <1>5. AwakeKnown'
    BY <1>0 DEF AwakeKnown, AwakePlaces
  <1>6. PhaseLeft'
    BY DEF PhaseLeft, AwakePlaces
  <1>7. FlagTaken'
    BY CallersRoles, SameTargets DEF FlagTaken
  <1> QED BY <1>1, <1>2, <1>3, <1>4, <1>5, <1>6, <1>7

LEMMA StepTryRestartWorker == ASSUME IInv, NEW w \in Workers, try_restart_worker(w) PROVE IInv'
  <1> USE Roles DEF IInv, TypeOK
  <1>0. Created' = Created
    BY SameCreated DEF try_restart_worker, locks
  <1>a. CASE phase = "working"
    <2>0. /\ pc[w] = "restart"
          /\ status' = [status EXCEPT ![w] = "running"]
          /\ awake_flag' = [awake_flag EXCEPT ![w] = FALSE]
          /\ mutex' = [mutex EXCEPT ![w] = None]
          /\ pc' = [pc EXCEPT ![w] = "enter"]
          /\ UNCHANGED <<phase, log_imp_list, fill, readers, writer, uninit_lock, todo, on, back,
                         did_work, spent>>
      BY <1>a DEF try_restart_worker, Goto, locks, worker_obj
    <2>1. TypeOK'
      BY <1>0, <2>0 DEF Labels
    <2>2. PlacesKnown'
      BY <2>0 DEF PlacesKnown, WorkerPlaces, AwakePlaces, UninitPlaces
    <2>3. WorkersBorn'
      BY <1>0, <2>0 DEF WorkersBorn
    <2>4. LocksHeld'
      BY <2>0 DEF LocksHeld, UninitPlaces, AwakePlaces
    <2>5. AwakeKnown'
      BY <1>0, <2>0 DEF AwakeKnown, AwakePlaces
    <2>6. PhaseLeft'
      BY <2>0 DEF PhaseLeft, AwakePlaces
    <2>7. FlagTaken'
      BY <2>0, CallersRoles, SameTargets DEF FlagTaken
    <2> QED BY <2>1, <2>2, <2>3, <2>4, <2>5, <2>6, <2>7
  <1>b. CASE phase # "working"
    <2>0. /\ pc[w] = "restart"
          /\ pc' = [pc EXCEPT ![w] = "gone"]
          /\ UNCHANGED <<phase, log_imp_list, fill, readers, writer, uninit_lock, todo, on, back,
                         status, awake_flag, mutex, did_work, spent>>
      BY <1>b DEF try_restart_worker, Goto, locks, worker_obj
    <2>1. TypeOK'
      BY <1>0, <2>0 DEF Labels
    <2>2. PlacesKnown'
      BY <2>0 DEF PlacesKnown, WorkerPlaces, AwakePlaces, UninitPlaces
    <2>3. WorkersBorn'
      BY <1>0, <2>0 DEF WorkersBorn
    <2>4. LocksHeld'
      BY <2>0 DEF LocksHeld, UninitPlaces, AwakePlaces
    <2>5. AwakeKnown'
      BY <1>0, <2>0 DEF AwakeKnown, AwakePlaces
    <2>6. PhaseLeft'
      BY <2>0 DEF PhaseLeft, AwakePlaces
    <2>7. FlagTaken'
      BY <2>0, CallersRoles, SameTargets DEF FlagTaken
    <2> QED BY <2>1, <2>2, <2>3, <2>4, <2>5, <2>6, <2>7
  <1> QED BY <1>a, <1>b

-----------------------------------------------------------------------------
(* awake, for producers and for uninit                                      *)

LEMMA StepAwake == ASSUME IInv, NEW t \in Callers, awake(t) PROVE IInv'
  <1> USE Roles DEF IInv, TypeOK
  <1>0. Created' = Created
    BY SameCreated DEF awake, locks
  <1>k. Target(t) \in Workers /\ t \in Threads /\ t \notin Consumers
    BY TargetKnown, CallersRoles DEF awake, AwakePlaces
  <1>r. /\ t \in Producers => back[t] \in {"out", "retry"} /\ on[t] \in Created
        /\ t \in Stoppers => back[t] \in {"join_pub", "cancel"} /\ on[t] \in Workers
        /\ t \in Producers \/ t \in Stoppers
    BY DEF awake, AwakeKnown, AwakePlaces, Callers
  <1>a. CASE awake_flag[Target(t)]
    <2>0. /\ pc[t] = "awake"
          /\ awake_flag' = [awake_flag EXCEPT ![Target(t)] = FALSE]
          /\ pc' = [pc EXCEPT ![t] = "lock"]
          /\ UNCHANGED <<phase, log_imp_list, fill, readers, writer, uninit_lock, todo, on, back,
                         status, mutex, did_work, spent>>
      BY <1>a DEF awake, Goto, locks, LeaveAwake
    <2>1. TypeOK'
      BY <1>0, <2>0, <1>k, <1>r DEF Labels
    <2>2. PlacesKnown'
      BY <2>0, <1>k, <1>r DEF PlacesKnown, WorkerPlaces, AwakePlaces, UninitPlaces
    <2>3. WorkersBorn'
      BY <1>0, <2>0, <1>k, <1>r DEF WorkersBorn
    <2>4. LocksHeld'
      BY <2>0, <1>k, <1>r DEF LocksHeld, UninitPlaces, AwakePlaces
    <2>5. AwakeKnown'
      BY <1>0, <2>0, <1>k, <1>r DEF AwakeKnown, AwakePlaces
    <2>6. PhaseLeft'
      BY <2>0, <1>k, <1>r DEF PhaseLeft, AwakePlaces
    <2>7. FlagTaken'
      BY <2>0, <1>k, <1>r, CallersRoles, SameTargets DEF FlagTaken
    <2> QED BY <2>1, <2>2, <2>3, <2>4, <2>5, <2>6, <2>7
  <1>b. CASE ~awake_flag[Target(t)]
    <2>0. /\ pc[t] = "awake"
          /\ awake_flag' = [awake_flag EXCEPT ![Target(t)] = FALSE]
          /\ pc' = [pc EXCEPT ![t] = back[t]]
          /\ on' = [on EXCEPT ![t] = IF back[t] = "retry" THEN @ ELSE None]
          /\ back' = [back EXCEPT ![t] = "out"]
          /\ UNCHANGED <<phase, log_imp_list, fill, readers, writer, uninit_lock, todo, status,
                         mutex, did_work, spent>>
      BY <1>b DEF awake, Goto, locks, LeaveAwake
    <2>a. \A v \in Callers : v # t => Target(v)' = Target(v)
      BY <2>0 DEF Callers, Target
    <2>b. \A v \in Workers : awake_flag'[v] = awake_flag[v]
      BY <1>b, <1>k, <2>0
    <2>1. TypeOK'
      BY <1>0, <2>0, <1>k, <1>r DEF Labels
    <2>2. PlacesKnown'
      BY <2>0, <1>k, <1>r DEF PlacesKnown, WorkerPlaces, AwakePlaces, UninitPlaces
    <2>3. WorkersBorn'
      BY <1>0, <2>0, <1>k, <1>r DEF WorkersBorn
    <2>4. LocksHeld'
      BY <2>0, <1>k, <1>r DEF LocksHeld, UninitPlaces, AwakePlaces
    <2>5. AwakeKnown'
      BY <1>0, <2>0, <1>k, <1>r DEF AwakeKnown, AwakePlaces
    <2>6. PhaseLeft'
      BY <2>0, <1>k, <1>r DEF PhaseLeft, AwakePlaces
    <2>7. FlagTaken'
      <3>1. \A v \in Workers : pc'[v] = pc[v] /\ mutex'[v] = mutex[v]
        BY <1>k, <2>0
      <3>2. \A x \in Callers : pc[x] \in {"lock", "notify"} => pc'[x] = pc[x] /\ Target(x)' = Target(x)
        BY <1>k, <2>0, <2>a, CallersRoles
      <3> QED BY <2>b, <3>1, <3>2, FlagStays
    <2> QED BY <2>1, <2>2, <2>3, <2>4, <2>5, <2>6, <2>7
  <1> QED BY <1>a, <1>b

LEMMA StepAwakeLock == ASSUME IInv, NEW t \in Callers, awake_lock(t) PROVE IInv'
  <1> USE Roles DEF IInv, TypeOK, awake_lock, Goto, locks
  <1>0. Created' = Created
    BY SameCreated
  <1>k. Target(t) \in Workers /\ t \in Threads /\ t \notin Consumers
    BY TargetKnown, CallersRoles DEF awake_lock, AwakePlaces
  <1>r. /\ t \in Producers => back[t] \in {"out", "retry"} /\ on[t] \in Created
        /\ t \in Stoppers => back[t] \in {"join_pub", "cancel"} /\ on[t] \in Workers
        /\ t \in Producers \/ t \in Stoppers
    BY DEF awake_lock, AwakeKnown, AwakePlaces, Callers
  <1>1. TypeOK'
    BY <1>0, <1>k, <1>r DEF Labels
  <1>2. PlacesKnown'
    BY <1>k, <1>r DEF PlacesKnown, WorkerPlaces, AwakePlaces, UninitPlaces
  <1>3. WorkersBorn'
    BY <1>0, <1>k, <1>r DEF WorkersBorn
  <1>4. LocksHeld'
    BY <1>k, <1>r DEF LocksHeld, UninitPlaces, AwakePlaces
  <1>5. AwakeKnown'
    BY <1>0, <1>k, <1>r DEF AwakeKnown, AwakePlaces
  <1>6. PhaseLeft'
    BY <1>k, <1>r DEF PhaseLeft, AwakePlaces
  <1>7. FlagTaken'
    BY <1>k, <1>r, CallersRoles, SameTargets DEF FlagTaken
  <1> QED BY <1>1, <1>2, <1>3, <1>4, <1>5, <1>6, <1>7

LEMMA StepAwakeNotify == ASSUME IInv, NEW t \in Callers, awake_notify(t) PROVE IInv'
  <1> USE Roles DEF IInv, TypeOK, awake_notify, locks, LeaveAwake
  <1>0. Created' = Created
    BY SameCreated
  <1>k. Target(t) \in Workers /\ t \in Threads /\ t \notin Consumers
    BY TargetKnown, CallersRoles DEF awake_notify, AwakePlaces
  <1>r. /\ t \in Producers => back[t] \in {"out", "retry"} /\ on[t] \in Created
        /\ t \in Stoppers => back[t] \in {"join_pub", "cancel"} /\ on[t] \in Workers
        /\ t \in Producers \/ t \in Stoppers
    BY DEF awake_notify, AwakeKnown, AwakePlaces, Callers
  <1>s. \A v \in Callers : v # t => Target(v)' = Target(v)
    BY DEF Callers, Target
  <1>p. /\ pc[t] = "notify"
        /\ \A v \in Threads : pc'[v] = IF v = t THEN back[t]
                                      ELSE IF v = Target(t) /\ pc[v] = "waiting" THEN "woken" ELSE pc[v]
    BY <1>k
  <1>1. TypeOK'
    BY <1>0, <1>k, <1>r DEF Labels
  <1>2. PlacesKnown'
    <2>1. \A v \in Workers : pc'[v] \in {pc[v], "woken"}
      BY <1>k, <1>p
    <2>2. \A f \in Flushers : pc'[f] = pc[f]
      BY <1>k, <1>p
    <2>3. \A p \in Producers : pc'[p] = pc[p] \/ pc'[p] \in {"out", "retry"}
      BY <1>k, <1>r, <1>p
    <2>4. \A u \in Stoppers : pc'[u] = pc[u] \/ pc'[u] \in {"join_pub", "cancel"}
      BY <1>k, <1>r, <1>p
    <2>5. PlacesKnown
      OBVIOUS
    <2> HIDE Roles DEF IInv, TypeOK, awake_notify
    <2> QED BY <2>1, <2>2, <2>3, <2>4, <2>5 DEF PlacesKnown, WorkerPlaces, AwakePlaces, UninitPlaces
  <1>3. WorkersBorn'
    BY <1>0, <1>k, <1>r DEF WorkersBorn
  <1>4. LocksHeld'
    <2>1. \A v \in Workers : pc'[v] \in {"entering", "process"} <=> pc[v] \in {"entering", "process"}
      BY <1>k, <1>p
    <2>2. \A v \in Workers : pc'[v] = "process" <=> pc[v] = "process"
      BY <1>k, <1>p
    <2>3. \A f \in Flushers : pc'[f] = pc[f]
      BY <1>k, <1>p
    <2>4. \A u \in Stoppers : pc'[u] = pc[u] \/ (u = t /\ pc[u] \in UninitPlaces /\ pc'[u] \in UninitPlaces)
      BY <1>k, <1>r, <1>p DEF UninitPlaces, AwakePlaces
    <2>5. LocksHeld /\ UNCHANGED <<readers, writer, uninit_lock>>
      OBVIOUS
    <2> HIDE Roles DEF IInv, TypeOK, awake_notify
    <2> QED BY <2>1, <2>2, <2>3, <2>4, <2>5 DEF LocksHeld, UninitPlaces
  <1>5. AwakeKnown'
    BY <1>0, <1>k, <1>r DEF AwakeKnown, AwakePlaces
  <1>6. PhaseLeft'
    BY <1>k, <1>r, <1>p, ZenonT(30) DEF PhaseLeft, AwakePlaces
  <1>7. FlagTaken'
    <2>1. \A v \in Workers : pc'[v] \in {"armed", "waiting"} => pc'[v] = pc[v]
      BY <1>k, <1>p
    <2>2. \A v \in Workers : pc[v] = "armed" => mutex'[v] = mutex[v]
      BY <1>k DEF FlagTaken
    <2>3. \A v \in Workers : pc'[v] = "waiting" => v # Target(t)
      BY <1>k, <1>p
    <2>4. \A x \in Callers : x # t => pc'[x] = pc[x] /\ Target(x)' = Target(x)
      BY <1>k, <1>s, <1>p, CallersRoles
    <2>5. \A v \in Workers, x \in Callers :
            /\ pc'[v] = "armed" /\ pc[x] = "lock" => x # t
            /\ pc'[v] = "waiting" /\ Target(x) = v => x # t
      BY <1>p, <2>3
    <2> QED BY <2>1, <2>2, <2>4, <2>5, FlagStays
  <1> QED BY <1>1, <1>2, <1>3, <1>4, <1>5, <1>6, <1>7

-----------------------------------------------------------------------------
(* Writing, flushing and creating logs                                      *)

LEMMA StepLogWriteBegin ==
    ASSUME IInv, NEW p \in Producers, NEW l \in Logs, log_write_begin(p, l)
    PROVE IInv'
  <1> USE Roles DEF IInv, TypeOK
  <1>0. Created' = Created
    BY SameCreated DEF log_write_begin, locks, worker_obj
  <1>u. /\ pc[p] = "out" /\ l \in Created
        /\ spent' \in [{"writes", "flushes", "kills"} -> Nat]
        /\ UNCHANGED <<phase, log_imp_list, readers, writer, uninit_lock, todo, status,
                       awake_flag, mutex, did_work>>
    BY DEF log_write_begin, Spend, locks, worker_obj
  <1>f. fill[l] < Cap => [fill EXCEPT ![l] = @ + 1] \in [Logs -> 0 .. Cap]
    BY WorkerConstants
  <1>a. CASE /\ fill[l] < Cap /\ fill' = [fill EXCEPT ![l] = @ + 1]
               /\ UNCHANGED <<pc, on, back>>
    <2>1. TypeOK'
      BY <1>0, <1>u, <1>a, <1>f DEF Labels
    <2>2. PlacesKnown'
      BY <1>u, <1>a DEF PlacesKnown, WorkerPlaces, AwakePlaces, UninitPlaces
    <2>3. WorkersBorn'
      BY <1>0, <1>u, <1>a DEF WorkersBorn
    <2>4. LocksHeld'
      BY <1>u, <1>a DEF LocksHeld, UninitPlaces, AwakePlaces
    <2>5. AwakeKnown'
      BY <1>0, <1>u, <1>a DEF AwakeKnown, AwakePlaces
    <2>6. PhaseLeft'
      BY <1>u, <1>a DEF PhaseLeft, AwakePlaces
    <2>7. FlagTaken'
      BY <1>u, <1>a, CallersRoles, SameTargets DEF FlagTaken
    <2> QED BY <2>1, <2>2, <2>3, <2>4, <2>5, <2>6, <2>7
  <1>b. CASE /\ fill[l] < Cap /\ fill' = [fill EXCEPT ![l] = @ + 1]
               /\ on' = [on EXCEPT ![p] = l]
               /\ pc' = [pc EXCEPT ![p] = "awake"]
               /\ UNCHANGED back
    <2>1. TypeOK'
      BY <1>0, <1>u, <1>b, <1>f DEF Labels
    <2>2. PlacesKnown'
      BY <1>u, <1>b DEF PlacesKnown, WorkerPlaces, AwakePlaces, UninitPlaces
    <2>3. WorkersBorn'
      BY <1>0, <1>u, <1>b DEF WorkersBorn
    <2>4. LocksHeld'
      BY <1>u, <1>b DEF LocksHeld, UninitPlaces, AwakePlaces
    <2>5. AwakeKnown'
      BY <1>0, <1>u, <1>b DEF AwakeKnown, AwakePlaces
    <2>6. PhaseLeft'
      BY <1>u, <1>b DEF PhaseLeft, AwakePlaces
    <2>7. FlagTaken'
        <3>1. \A v \in Workers : pc'[v] = pc[v] /\ awake_flag'[v] = awake_flag[v] /\ mutex'[v] = mutex[v]
          BY <1>u, <1>b
        <3>2. \A x \in Callers : pc[x] \in {"lock", "notify"} => pc'[x] = pc[x] /\ Target(x)' = Target(x)
          BY <1>u, <1>b DEF Callers, Target
        <3> QED BY <3>1, <3>2, FlagStays
    <2> QED BY <2>1, <2>2, <2>3, <2>4, <2>5, <2>6, <2>7
  <1>c. CASE /\ fill[l] = Cap /\ UNCHANGED fill
               /\ on' = [on EXCEPT ![p] = l]
               /\ back' = [back EXCEPT ![p] = IF l \in Blocking THEN "retry" ELSE "out"]
               /\ pc' = [pc EXCEPT ![p] = "awake"]
    <2>1. TypeOK'
      BY <1>0, <1>u, <1>c DEF Labels
    <2>2. PlacesKnown'
      BY <1>u, <1>c DEF PlacesKnown, WorkerPlaces, AwakePlaces, UninitPlaces
    <2>3. WorkersBorn'
      BY <1>0, <1>u, <1>c DEF WorkersBorn
    <2>4. LocksHeld'
      BY <1>u, <1>c DEF LocksHeld, UninitPlaces, AwakePlaces
    <2>5. AwakeKnown'
      BY <1>0, <1>u, <1>c DEF AwakeKnown, AwakePlaces
    <2>6. PhaseLeft'
      BY <1>u, <1>c DEF PhaseLeft, AwakePlaces
    <2>7. FlagTaken'
        <3>1. \A v \in Workers : pc'[v] = pc[v] /\ awake_flag'[v] = awake_flag[v] /\ mutex'[v] = mutex[v]
          BY <1>u, <1>c
        <3>2. \A x \in Callers : pc[x] \in {"lock", "notify"} => pc'[x] = pc[x] /\ Target(x)' = Target(x)
          BY <1>u, <1>c DEF Callers, Target
        <3> QED BY <3>1, <3>2, FlagStays
    <2> QED BY <2>1, <2>2, <2>3, <2>4, <2>5, <2>6, <2>7
  <1> QED BY <1>u, <1>a, <1>b, <1>c DEF log_write_begin, Goto

LEMMA StepRetry == ASSUME IInv, NEW p \in Producers, retry(p) PROVE IInv'
  <1> USE Roles DEF IInv, TypeOK, retry, Goto, locks, worker_obj
  <1>0. Created' = Created
    BY SameCreated
  <1>a. on[p] \in Logs
    BY CreatedLogs DEF AwakeKnown
  <1>b. fill' \in [Logs -> 0 .. Cap]
    BY <1>a, WorkerConstants
  <1>1. TypeOK'
    BY <1>0, <1>b DEF Labels
  <1>2. PlacesKnown'
    BY DEF PlacesKnown, WorkerPlaces, AwakePlaces, UninitPlaces
  <1>3. WorkersBorn'
    BY <1>0 DEF WorkersBorn
  <1>4. LocksHeld'
    BY DEF LocksHeld, UninitPlaces, AwakePlaces
  <1>5. AwakeKnown'
    BY <1>0 DEF AwakeKnown, AwakePlaces
  <1>6. PhaseLeft'
    BY DEF PhaseLeft, AwakePlaces
  <1>7. FlagTaken'
      <2>1. \A v \in Workers : pc'[v] = pc[v] /\ awake_flag'[v] = awake_flag[v] /\ mutex'[v] = mutex[v]
        BY Roles
      <2>2. \A x \in Callers : pc[x] \in {"lock", "notify"} => pc'[x] = pc[x] /\ Target(x)' = Target(x)
        BY Roles DEF Callers, Target
      <2> QED BY <2>1, <2>2, FlagStays
  <1> QED BY <1>1, <1>2, <1>3, <1>4, <1>5, <1>6, <1>7

LEMMA StepFlushBegin == ASSUME IInv, NEW f \in Flushers, flush_begin(f) PROVE IInv'
  <1> USE Roles DEF IInv, TypeOK, flush_begin, Goto, Spend, CanWrite, worker_obj
  <1>0. Created' = Created
    BY SameCreated
  <1>a. \A l \in Created : <<l>> \in Seq(Created)
    BY OneSeq
  <1>b. todo' \in [Consumers \cup Stoppers -> Seq(Created)]
    <2>1. PICK s \in {log_imp_list} \cup {<<l>> : l \in Created} : todo' = [todo EXCEPT ![f] = s]
      OBVIOUS
    <2>2. log_imp_list \in Seq(Created)
      BY CreatedLogs
    <2>3. s \in Seq(Created)
      <3> HIDE Roles DEF IInv, TypeOK, flush_begin
      <3> QED BY <1>a, <2>2
    <2> QED BY <2>1, <2>3
  <1>c. spent' \in [{"writes", "flushes", "kills"} -> Nat]
    OBVIOUS
  <1>d. \A w \in Logs \ Async : todo'[w] = todo[w]
    OBVIOUS
  <1>1. TypeOK'
    BY <1>0, <1>b, <1>c DEF Labels
  <1>2. PlacesKnown'
    BY DEF PlacesKnown, WorkerPlaces, AwakePlaces, UninitPlaces
  <1>3. WorkersBorn'
    BY <1>0, <1>d DEF WorkersBorn
  <1>4. LocksHeld'
    BY DEF LocksHeld, UninitPlaces, AwakePlaces
  <1>5. AwakeKnown'
    BY <1>0 DEF AwakeKnown, AwakePlaces
  <1>6. PhaseLeft'
    BY DEF PhaseLeft, AwakePlaces
  <1>7. FlagTaken'
    BY CallersRoles, SameTargets DEF FlagTaken
  <1> QED BY <1>1, <1>2, <1>3, <1>4, <1>5, <1>6, <1>7

LEMMA StepCreateLog == ASSUME IInv, NEW l \in Logs, create_log(l) PROVE IInv'
  <1> USE Roles DEF IInv, TypeOK
  <1>0. Created' = Created \cup {l}
    BY AppendCreated DEF create_log
  <1>u. /\ phase = "working" /\ writer = None /\ readers = {} /\ l \notin Created
        /\ log_imp_list' \in Seq(Logs) /\ IsInjective(log_imp_list')
        /\ UNCHANGED <<phase, fill, readers, writer, uninit_lock, todo, on, back, awake_flag,
                       mutex, did_work, spent>>
    BY AppendCreated DEF create_log, CanWrite, locks
  <1>v. Seq(Created) \subseteq Seq(Created')
    BY <1>0, SeqGrows
  <1>w. todo' \in [Consumers \cup Stoppers -> Seq(Created)']
    BY <1>u, <1>v
  <1>a. CASE /\ l \in Async
               /\ UNCHANGED <<pc, status>>
    <2>1. TypeOK'
      BY <1>0, <1>u, <1>a, <1>w DEF Labels
    <2>2. PlacesKnown'
      BY <1>u, <1>a DEF PlacesKnown, WorkerPlaces, AwakePlaces, UninitPlaces
    <2>3. WorkersBorn'
      BY <1>0, <1>u, <1>a DEF WorkersBorn
    <2>4. LocksHeld'
      BY <1>u, <1>a DEF LocksHeld, UninitPlaces, AwakePlaces
    <2>5. AwakeKnown'
      BY <1>0, <1>u, <1>a DEF AwakeKnown, AwakePlaces
    <2>6. PhaseLeft'
      BY <1>u, <1>a DEF PhaseLeft, AwakePlaces
    <2>7. FlagTaken'
      BY <1>u, <1>a, CallersRoles, SameTargets DEF FlagTaken
    <2> QED BY <2>1, <2>2, <2>3, <2>4, <2>5, <2>6, <2>7
  <1>b. CASE /\ l \notin Async
               /\ status' = [status EXCEPT ![l] = "running"]
               /\ pc' = [pc EXCEPT ![l] = "enter"]
    <2>1. TypeOK'
      BY <1>0, <1>u, <1>b, <1>w DEF Labels
    <2>2. PlacesKnown'
      BY <1>u, <1>b DEF PlacesKnown, WorkerPlaces, AwakePlaces, UninitPlaces
    <2>3. WorkersBorn'
      BY <1>0, <1>u, <1>b DEF WorkersBorn
    <2>4. LocksHeld'
      BY <1>u, <1>b DEF LocksHeld, UninitPlaces, AwakePlaces
    <2>5. AwakeKnown'
      BY <1>0, <1>u, <1>b DEF AwakeKnown, AwakePlaces
    <2>6. PhaseLeft'
      BY <1>u, <1>b DEF PhaseLeft, AwakePlaces
    <2>7. FlagTaken'
      BY <1>u, <1>b, CallersRoles, SameTargets DEF FlagTaken
    <2> QED BY <2>1, <2>2, <2>3, <2>4, <2>5, <2>6, <2>7
  <1> QED BY <1>u, <1>a, <1>b DEF create_log, Goto

-----------------------------------------------------------------------------
(* uninit                                                                   *)

LEMMA StepUninitCall == ASSUME IInv, NEW u \in Stoppers, uninit_call(u) PROVE IInv'
  <1> USE Roles DEF IInv, TypeOK, uninit_call, Goto, worker_obj
  <1>0. Created' = Created
    BY SameCreated
  <1>1. TypeOK'
    BY <1>0 DEF Labels
  <1>2. PlacesKnown'
    BY DEF PlacesKnown, WorkerPlaces, AwakePlaces, UninitPlaces
  <1>3. WorkersBorn'
    BY <1>0 DEF WorkersBorn
  <1>4. LocksHeld'
    BY DEF LocksHeld, UninitPlaces, AwakePlaces
  <1>5. AwakeKnown'
    BY <1>0 DEF AwakeKnown, AwakePlaces
  <1>6. PhaseLeft'
    BY DEF PhaseLeft, AwakePlaces
  <1>7. FlagTaken'
      <2>1. \A v \in Workers : pc'[v] = pc[v] /\ awake_flag'[v] = awake_flag[v] /\ mutex'[v] = mutex[v]
        BY Roles
      <2>2. \A x \in Callers : pc[x] \in {"lock", "notify"} => pc'[x] = pc[x] /\ Target(x)' = Target(x)
        BY Roles DEF Callers, Target
      <2> QED BY <2>1, <2>2, FlagStays
  <1> QED BY <1>1, <1>2, <1>3, <1>4, <1>5, <1>6, <1>7

LEMMA StepUninit == ASSUME IInv, NEW u \in Stoppers, uninit(u) PROVE IInv'
  <1> USE Roles DEF IInv, TypeOK
  <1>0. Created' = Created
    BY SameCreated DEF uninit
  <1>a. CASE phase = "working"
    <2>0. /\ pc[u] = "uninit" /\ uninit_lock = None
          /\ uninit_lock' = u
          /\ phase' = "uninitialized"
          /\ pc' = [pc EXCEPT ![u] = "cancel_pub"]
          /\ UNCHANGED <<log_imp_list, fill, readers, writer, todo, on, back, status, awake_flag,
                         mutex, did_work, spent>>
      BY <1>a DEF uninit, Goto, worker_obj
    <2>1. TypeOK'
      BY <1>0, <2>0 DEF Labels
    <2>2. PlacesKnown'
      BY <2>0 DEF PlacesKnown, WorkerPlaces, AwakePlaces, UninitPlaces
    <2>3. WorkersBorn'
      BY <1>0, <2>0 DEF WorkersBorn
    <2>4. LocksHeld'
      BY <2>0 DEF LocksHeld, UninitPlaces, AwakePlaces
    <2>5. AwakeKnown'
      BY <1>0, <2>0 DEF AwakeKnown, AwakePlaces
    <2>6. PhaseLeft'
      <3>1. \A v \in Workers : pc'[v] = pc[v]
        BY <2>0
      <3>2. \A v \in Stoppers : pc[v] \notin UninitPlaces
        BY <2>0 DEF LocksHeld
      <3>3. \A v \in Stoppers : v # u => pc'[v] = pc[v]
        BY <2>0
      <3> QED BY <1>a, <2>0, <3>1, <3>2, <3>3 DEF PhaseLeft, UninitPlaces, AwakePlaces
    <2>7. FlagTaken'
        <3>1. \A v \in Workers : pc'[v] = pc[v] /\ awake_flag'[v] = awake_flag[v] /\ mutex'[v] = mutex[v]
          BY <2>0
        <3>2. \A x \in Callers : pc[x] \in {"lock", "notify"} => pc'[x] = pc[x] /\ Target(x)' = Target(x)
          BY <2>0 DEF Callers, Target
        <3> QED BY <3>1, <3>2, FlagStays
    <2> QED BY <2>1, <2>2, <2>3, <2>4, <2>5, <2>6, <2>7
  <1>b. CASE phase # "working"
    <2>0. /\ pc[u] = "uninit" /\ uninit_lock = None
          /\ readers' = readers \ {u}
          /\ pc' = [pc EXCEPT ![u] = "returned"]
          /\ UNCHANGED <<phase, log_imp_list, fill, writer, uninit_lock, todo, on, back, status,
                         awake_flag, mutex, did_work, spent>>
      BY <1>b DEF uninit, Goto, worker_obj
    <2>1. TypeOK'
      BY <1>0, <2>0 DEF Labels
    <2>2. PlacesKnown'
      BY <2>0 DEF PlacesKnown, WorkerPlaces, AwakePlaces, UninitPlaces
    <2>3. WorkersBorn'
      BY <1>0, <2>0 DEF WorkersBorn
    <2>4. LocksHeld'
      BY <2>0 DEF LocksHeld, UninitPlaces, AwakePlaces
    <2>5. AwakeKnown'
      BY <1>0, <2>0 DEF AwakeKnown, AwakePlaces
    <2>6. PhaseLeft'
      <3>1. \A v \in Workers : pc'[v] = pc[v]
        BY <2>0
      <3>2. \A v \in Stoppers : pc[v] \notin UninitPlaces
        BY <2>0 DEF LocksHeld
      <3>3. \A v \in Stoppers : v # u => pc'[v] = pc[v]
        BY <2>0
      <3> QED BY <1>b, <2>0, <3>1, <3>2, <3>3 DEF PhaseLeft, UninitPlaces, AwakePlaces
    <2>7. FlagTaken'
        <3>1. \A v \in Workers : pc'[v] = pc[v] /\ awake_flag'[v] = awake_flag[v] /\ mutex'[v] = mutex[v]
          BY <2>0
        <3>2. \A x \in Callers : pc[x] \in {"lock", "notify"} => pc'[x] = pc[x] /\ Target(x)' = Target(x)
          BY <2>0 DEF Callers, Target
        <3> QED BY <3>1, <3>2, FlagStays
    <2> QED BY <2>1, <2>2, <2>3, <2>4, <2>5, <2>6, <2>7
  <1> QED BY <1>a, <1>b

LEMMA StepCancelPublic == ASSUME IInv, NEW u \in Stoppers, cancel_public(u) PROVE IInv'
  <1> USE Roles DEF IInv, TypeOK
  <1>0. Created' = Created
    BY SameCreated DEF cancel_public, uninit_cancel, locks
  <1>u. /\ pc[u] = "cancel_pub"
        /\ status' = [status EXCEPT ![Pub] = IF @ = "running" THEN "pendding_cancel" ELSE @]
        /\ on' = [on EXCEPT ![u] = Pub]
        /\ back' = [back EXCEPT ![u] = "join_pub"]
        /\ pc' = [pc EXCEPT ![u] = "awake"]
        /\ UNCHANGED <<phase, log_imp_list, fill, readers, writer, uninit_lock, todo, awake_flag,
                       mutex, did_work, spent>>
    BY DEF cancel_public, uninit_cancel, cancel, Goto, locks
  <1>1. TypeOK'
    BY <1>0, <1>u DEF Labels
  <1>2. PlacesKnown'
    BY <1>u DEF PlacesKnown, WorkerPlaces, AwakePlaces, UninitPlaces
  <1>3. WorkersBorn'
    BY <1>0, <1>u DEF WorkersBorn
  <1>4. LocksHeld'
    BY <1>u DEF LocksHeld, UninitPlaces, AwakePlaces
  <1>5. AwakeKnown'
    BY <1>0, <1>u DEF AwakeKnown, AwakePlaces
  <1>6. PhaseLeft'
    BY <1>u DEF PhaseLeft, AwakePlaces
  <1>7. FlagTaken'
      <2>1. \A v \in Workers : pc'[v] = pc[v] /\ awake_flag'[v] = awake_flag[v] /\ mutex'[v] = mutex[v]
        BY <1>u
      <2>2. \A x \in Callers : pc[x] \in {"lock", "notify"} => pc'[x] = pc[x] /\ Target(x)' = Target(x)
        BY <1>u DEF Callers, Target
      <2> QED BY <2>1, <2>2, FlagStays
  <1> QED BY <1>1, <1>2, <1>3, <1>4, <1>5, <1>6, <1>7

LEMMA StepJoinPublic == ASSUME IInv, NEW u \in Stoppers, join_public(u) PROVE IInv'
  <1> USE Roles DEF IInv, TypeOK, join_public, Goto, locks, worker_obj
  <1>0. Created' = Created
    BY SameCreated
  <1>1. TypeOK'
    BY <1>0, CreatedLogs DEF Labels
  <1>2. PlacesKnown'
    BY DEF PlacesKnown, WorkerPlaces, AwakePlaces, UninitPlaces
  <1>3. WorkersBorn'
    BY <1>0 DEF WorkersBorn
  <1>4. LocksHeld'
    BY DEF LocksHeld, UninitPlaces, AwakePlaces
  <1>5. AwakeKnown'
    BY <1>0 DEF AwakeKnown, AwakePlaces
  <1>6. PhaseLeft'
    BY DEF PhaseLeft, AwakePlaces
  <1>7. FlagTaken'
      <2>1. \A v \in Workers : pc'[v] = pc[v] /\ awake_flag'[v] = awake_flag[v] /\ mutex'[v] = mutex[v]
        BY Roles
      <2>2. \A x \in Callers : pc[x] \in {"lock", "notify"} => pc'[x] = pc[x] /\ Target(x)' = Target(x)
        BY Roles DEF Callers, Target
      <2> QED BY <2>1, <2>2, FlagStays
  <1> QED BY <1>1, <1>2, <1>3, <1>4, <1>5, <1>6, <1>7

LEMMA StepCancelNext == ASSUME IInv, NEW u \in Stoppers, cancel_next(u) PROVE IInv'
  <1> USE Roles DEF IInv, TypeOK
  <1>0. Created' = Created
    BY SameCreated DEF cancel_next, uninit_cancel, locks
  <1>u. /\ pc[u] = "cancel" /\ Head(todo[u]) \in Created /\ Tail(todo[u]) \in Seq(Created)
        /\ todo' = [todo EXCEPT ![u] = Tail(@)]
        /\ UNCHANGED <<phase, log_imp_list, fill, readers, writer, uninit_lock, awake_flag, mutex,
                       did_work, spent>>
    BY TailStays DEF cancel_next, uninit_cancel, locks, worker_obj
  <1>v. Head(todo[u]) \notin Async => Head(todo[u]) \in Workers
    BY <1>u, CreatedLogs
  <1>a. CASE /\ Head(todo[u]) \notin Async
               /\ status' = [status EXCEPT ![Head(todo[u])] = IF @ = "running" THEN "pendding_cancel" ELSE @]
               /\ on' = [on EXCEPT ![u] = Head(todo[u])]
               /\ back' = [back EXCEPT ![u] = "cancel"]
               /\ pc' = [pc EXCEPT ![u] = "awake"]
    <2>1. TypeOK'
      BY <1>0, <1>u, <1>a, <1>v DEF Labels
    <2>2. PlacesKnown'
      BY <1>u, <1>a DEF PlacesKnown, WorkerPlaces, AwakePlaces, UninitPlaces
    <2>3. WorkersBorn'
      BY <1>0, <1>u, <1>a DEF WorkersBorn
    <2>4. LocksHeld'
      BY <1>u, <1>a DEF LocksHeld, UninitPlaces, AwakePlaces
    <2>5. AwakeKnown'
      BY <1>0, <1>u, <1>a, <1>v DEF AwakeKnown, AwakePlaces
    <2>6. PhaseLeft'
      BY <1>u, <1>a DEF PhaseLeft, AwakePlaces
    <2>7. FlagTaken'
        <3>1. \A v \in Workers : pc'[v] = pc[v] /\ awake_flag'[v] = awake_flag[v] /\ mutex'[v] = mutex[v]
          BY <1>u, <1>a
        <3>2. \A x \in Callers : pc[x] \in {"lock", "notify"} => pc'[x] = pc[x] /\ Target(x)' = Target(x)
          BY <1>u, <1>a DEF Callers, Target
        <3> QED BY <3>1, <3>2, FlagStays
    <2> QED BY <2>1, <2>2, <2>3, <2>4, <2>5, <2>6, <2>7
  <1>b. CASE /\ Head(todo[u]) \in Async
               /\ UNCHANGED <<pc, on, back, status>>
    <2>1. TypeOK'
      BY <1>0, <1>u, <1>b DEF Labels
    <2>2. PlacesKnown'
      BY <1>u, <1>b DEF PlacesKnown, WorkerPlaces, AwakePlaces, UninitPlaces
    <2>3. WorkersBorn'
      BY <1>0, <1>u, <1>b DEF WorkersBorn
    <2>4. LocksHeld'
      BY <1>u, <1>b DEF LocksHeld, UninitPlaces, AwakePlaces
    <2>5. AwakeKnown'
      BY <1>0, <1>u, <1>b DEF AwakeKnown, AwakePlaces
    <2>6. PhaseLeft'
      BY <1>u, <1>b DEF PhaseLeft, AwakePlaces
    <2>7. FlagTaken'
      BY <1>u, <1>b, CallersRoles, SameTargets DEF FlagTaken
    <2> QED BY <2>1, <2>2, <2>3, <2>4, <2>5, <2>6, <2>7
  <1> QED BY <1>u, <1>a, <1>b DEF cancel_next, uninit_cancel, cancel, Goto, worker_obj

LEMMA StepUninitEnd == ASSUME IInv, NEW u \in Stoppers, uninit_end(u) PROVE IInv'
  <1> USE Roles DEF IInv, TypeOK, uninit_end, Goto, worker_obj
  <1>0. Created' = Created
    BY SameCreated
  <1>1. TypeOK'
    BY <1>0 DEF Labels
  <1>2. PlacesKnown'
    BY DEF PlacesKnown, WorkerPlaces, AwakePlaces, UninitPlaces
  <1>3. WorkersBorn'
    BY <1>0 DEF WorkersBorn
  <1>4. LocksHeld'
    BY DEF LocksHeld, UninitPlaces, AwakePlaces
  <1>5. AwakeKnown'
    BY <1>0 DEF AwakeKnown, AwakePlaces
  <1>6. PhaseLeft'
    <2>1. pc[Pub] = "gone" /\ phase # "working"
      BY DEF PhaseLeft, LocksHeld, UninitPlaces
    <2>2. \A w \in Workers : pc[w] \in {"unborn", "gone"} /\ pc'[w] = pc[w]
      BY <2>1 DEF WorkersBorn
    <2>3. \A v \in Stoppers : v # u => pc[v] \notin UninitPlaces /\ pc'[v] = pc[v]
      BY DEF LocksHeld, UninitPlaces
    <2> QED BY <2>1, <2>2, <2>3 DEF PhaseLeft, UninitPlaces, AwakePlaces
  <1>7. FlagTaken'
      <2>1. \A v \in Workers : pc'[v] = pc[v] /\ awake_flag'[v] = awake_flag[v] /\ mutex'[v] = mutex[v]
        BY Roles
      <2>2. \A x \in Callers : pc[x] \in {"lock", "notify"} => pc'[x] = pc[x] /\ Target(x)' = Target(x)
        BY Roles DEF Callers, Target
      <2> QED BY <2>1, <2>2, FlagStays
  <1> QED BY <1>1, <1>2, <1>3, <1>4, <1>5, <1>6, <1>7
-----------------------------------------------------------------------------
LEMMA Inductive == IInv /\ [Next]_vars => IInv'
  <1> SUFFICES ASSUME IInv, [Next]_vars PROVE IInv'
    OBVIOUS
  <1>1. ASSUME NEW w \in Workers, WorkerStep(w) \/ killed(w) PROVE IInv'
    BY <1>1, Roles, StepReadLock, StepProcessByWorker, StepProcessChunk, StepProcessEnd,
       StepCheckCancel, StepSleep, StepWaitFor, StepTimeout, StepWakeUp, StepKilled,
       StepWatchDog, StepTryRestartWorker
    DEF WorkerStep, Processing
  <1>2. ASSUME NEW t \in Callers, AwakeStep(t) PROVE IInv'
    BY <1>2, StepAwake, StepAwakeLock, StepAwakeNotify DEF AwakeStep
  <1>3. ASSUME NEW p \in Producers,
               (\E l \in Logs : log_write_begin(p, l)) \/ retry(p) \/ AwakeStep(p)
        PROVE  IInv'
    BY <1>2, <1>3, StepLogWriteBegin, StepRetry DEF Callers
  <1>4. ASSUME NEW f \in Flushers, flush_begin(f) \/ Processing(f) PROVE IInv'
    BY <1>4, Roles, StepFlushBegin, StepProcessChunk, StepProcessEnd DEF Processing
  <1>5. ASSUME NEW l \in Logs, create_log(l) PROVE IInv'
    BY <1>5, StepCreateLog
  <1>6. ASSUME NEW u \in Stoppers, uninit_call(u) \/ StopStep(u) PROVE IInv'
    BY <1>2, <1>6, StepUninitCall, StepUninit, StepCancelPublic, StepJoinPublic, StepCancelNext,
       StepUninitEnd
    DEF StopStep, Callers
  <1>7. CASE UNCHANGED vars
    <2> USE <1>7 DEF vars, locks, worker_obj, IInv
    <2>1. Created' = Created /\ \A t : Target(t)' = Target(t)
      BY SameCreated, SameTargets
    <2>2. TypeOK' /\ PlacesKnown' /\ WorkersBorn' /\ AwakeKnown'
      BY <2>1 DEF TypeOK, PlacesKnown, WorkersBorn, AwakeKnown
    <2>3. LocksHeld' /\ PhaseLeft'
      BY DEF LocksHeld, PhaseLeft
    <2>4. FlagTaken'
      BY <2>1, FlagStays
    <2> QED BY <2>2, <2>3, <2>4
  <1> QED BY <1>1, <1>3, <1>4, <1>5, <1>6, <1>7 DEF Next

\* The invariant the three results rest on holds at all times.
THEOREM Invariance == Spec => []IInv
  BY InitIInv, Inductive, PTL DEF Spec

-----------------------------------------------------------------------------
\* log_imp::process is never called by two threads at a time for one log: not
\* by a worker and a flush, nor by the public worker and the worker of a log.
THEOREM OneConsumer == Spec => []SingleConsumer
  <1>1. ASSUME IInv PROVE SingleConsumer
    <2> SUFFICES ASSUME NEW l \in Logs, NEW t1 \in Consumers, NEW t2 \in Consumers,
                        Reads(t1, l), Reads(t2, l)
                 PROVE  t1 = t2
      BY DEF SingleConsumer
    <2> USE <1>1, Roles DEF IInv, Reads
    <2>1. CASE t1 \in Flushers /\ t2 \in Flushers
      BY <2>1 DEF LocksHeld
    <2>2. CASE (t1 \in Flushers /\ t2 \in Workers) \/ (t2 \in Flushers /\ t1 \in Workers)
      BY <2>2 DEF LocksHeld
    <2>3. ASSUME NEW w \in Logs \ Async, Reads(w, l) PROVE l = w
      <3>1. todo[w] \in Seq({w}) /\ todo[w] # <<>> /\ Head(todo[w]) = l
        BY <2>3 DEF WorkersBorn
      <3> QED BY <3>1, TailStays
    <2>4. Reads(Pub, l) => l \in Async
      BY DEF Serves
    <2>5. CASE t1 \in Workers /\ t2 \in Workers
      BY <2>3, <2>4, <2>5
    <2> QED BY <2>1, <2>2, <2>5
  <1> QED BY <1>1, Invariance, PTL

\* A wake-up that was noticed is not lost between awake_flag_ and wait_for.
THEOREM WakeUpsArrive == Spec => []NotifyComing
  <1>1. IInv => NotifyComing
    BY DEF IInv, FlagTaken, NotifyComing, Callers
  <1> QED BY <1>1, Invariance, PTL

\* Types, locks and buffers are sound, and when uninit has returned no worker
\* thread is left or will be started, by create_log or by a watch-dog.
THEOREM WorkersAlwaysSound == Spec => []WorkersSound
  <1>1. IInv => WorkersSound
    BY DEF IInv, PhaseLeft, WorkersSound, NoWorkerLeft
  <1> QED BY <1>1, Invariance, PTL
=============================================================================
