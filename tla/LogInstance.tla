---------------------------- MODULE LogInstance ----------------------------
(***************************************************************************)
(* One log (log_imp) with its appenders, filters and snapshot, and the     *)
(* threads that use it: the worker that serves it, and user threads that   *)
(* write entries, reset the configuration, enable appenders, flush and     *)
(* take snapshots.                                                         *)
(*                                                                         *)
(* In async mode (an independent log differs only in who its worker is)    *)
(* entries go through the log buffer, whose first entries may be left by   *)
(* an earlier process, and are processed under logs_lock_; in sync mode    *)
(* the writer processes its own entry under spin_lock_.  The three locks   *)
(* are atomic here: RWSpinLock is about the first of them.                 *)
(*                                                                         *)
(* The buffer is what LogBuffer shows of it, no more: it gives back the    *)
(* entries of a thread in their order and those of an earlier process      *)
(* first (InOrder), but not those of two threads; and it may say that it   *)
(* is empty although an entry is committed (FlushReadsAll is refuted),     *)
(* until it has said so once with nobody at work (EmptyMeansRead).         *)
(*                                                                         *)
(* An appender is what its filters let through; files are the subject of   *)
(* AppenderFile and CompressedFile.                                        *)
(***************************************************************************)
EXTENDS Naturals, Sequences, FiniteSets, SequencesExt

CONSTANTS
  Worker, Users,        \* the threads
  None,                 \* no thread, no value in a configuration
  CategoryNames,        \* sequence of category names, each a tuple of characters
  Levels,               \* the log levels
  Kinds,                \* category, level, size (in blocks of a ring) and time of an entry
  Configs,              \* configurations that may be given
  First,                \* the one the log is created with
  Slack,                \* difference of sizes the snapshot does not react to
  Modes,                \* subset of {"async", "sync"}
  MaxOld, MaxWrites, MaxResets, MaxTakes, MaxFlushes, MaxEnables, MaxFaults,
  MaxCalls              \* for each mode, calls of all kinds and old entries together

ASSUME InstanceConstants ==
  /\ Worker \notin Users /\ None \notin Users \cup {Worker}
  /\ Modes \subseteq {"async", "sync"} /\ Levels # {}
  /\ Kinds \subseteq [cat : Nat, lvl : Levels, size : Nat, ts : Nat]
  /\ First \in Configs /\ First.apps # None
  /\ \A c \in Configs : /\ c.apps # None => IsFiniteSet(DOMAIN c.apps)
                        /\ c.snap.size \in Nat /\ c.snap.cap \in Nat \ {0}
  /\ MaxOld \in Nat /\ MaxWrites \in Nat

Threads == Users \cup {Worker}
Categories == 1..Len(CategoryNames)

VARIABLES
  mode, recovery,       \* thread_mode_; the buffer was asked to recover
  queue,                \* entries in the log buffer, as they were committed
  said_empty,           \* it said so, and nobody was or went to work since
  appenders,            \* appenders_list_, each with the identity of its object
  out,                  \* what each appender object was told, oldest first
  flushed,              \* how much of it flush_write_cache has written
  status, recoverers, need_begin,   \* recover_status_, recovery_appenders_, ..need_begin_
  merged, mask, stack,  \* merged and print-stack levels, categories_mask_array_
  clock,                \* last_log_entry_epoch_ms_
  snap,                 \* the log_snapshot object
  logs_lock, spin_lock, \* locks; snap has its own
  pc, cur, at,          \* per thread: where it is, its entry, its appender
  budget,               \* what is left of the bounds
  gen, used,            \* ghosts: configuration each part is at, those an entry met
  kept, want,           \* ghosts: what the snapshot took, what a flush has to deliver
  sure                  \* ghost: flushes that began when the buffer had said empty

vars == <<mode, recovery, queue, said_empty, appenders, out, flushed, status,
          recoverers, need_begin, merged, mask, stack, clock, snap,
          logs_lock, spin_lock, pc, cur, at, budget, gen, used, kept, want,
          sure>>

config_vars == <<appenders, merged, mask, stack, gen>>
output_vars == <<out, flushed>>
recovery_vars == <<status, recoverers, need_begin>>
lock_vars == <<logs_lock, spin_lock>>
answer_vars == <<said_empty, sure>>
-----------------------------------------------------------------------------
(* Filters: what a configuration says and what becomes of it.              *)

(* Levels of an array of names; None is no array, "all" every level and    *)
(* other names are ignored.                                                *)
LevelBitmap(c) ==
  CASE c = None    -> {}
    [] "all" \in c -> Levels
    [] OTHER       -> c \cap Levels

LevelsOrAll(c) == IF c = None THEN Levels ELSE LevelBitmap(c)

(* Categories of the log and of the snapshot: the mask itself or what is   *)
(* below it after a dot.                                                   *)
CategoriesMask(masks) ==
  {i \in Categories :
     LET name == CategoryNames[i] IN
     \/ masks = {}
     \/ \E m \in masks : \/ name = m
                         \/ IsPrefix(Append(m, "."), name)
     \/ i = 1 /\ <<"*", "default">> \in masks}

(* An appender's categories: whatever begins with the mask.                *)
AppenderMask(masks) ==
  {i \in Categories :
     \/ masks = {}
     \/ \E m \in masks : m = <<"*">> \/ IsPrefix(m, CategoryNames[i])}

set_basic_configs(a, c) ==
  [a EXCEPT !.type   = c.type,
            !.levels = LevelsOrAll(c.levels),
            !.cats   = AppenderMask(c.masks),
            !.enable = IF c.enable = None THEN @ ELSE c.enable,
            !.dest   = c.dest]

IsFile(a) == a.type # "console"

(* The object of a new appender; a file appender needs a file name.        *)
init_appender(name, c, id) ==
  set_basic_configs([name |-> name, type |-> None, levels |-> {}, cats |-> {},
                     enable |-> TRUE, dest |-> None, id |-> id], c)

init_ok(c) == c.type \in {"text", "compressed"} => c.dest # None

(* reset fails for another type, for a type spelled with blanks and for    *)
(* another file or key.                                                    *)
reset_ok(a, c) ==
  /\ a.type = c.type /\ ~c.padded
  /\ IsFile(a) => a.dest = c.dest

Accepts(a, e) == e.cat \in a.cats /\ e.lvl \in a.levels /\ a.enable
-----------------------------------------------------------------------------
(* The snapshot: a siso ring of whole entries and two alternating texts.   *)

Span(q) == FoldLeft(LAMBDA n, x : n + x.span, 0, q)

NewRing(cap) == [cap |-> cap, wr |-> 0, q |-> <<>>]

(* Blocks an entry takes: a chunk is contiguous, so the rest of the ring   *)
(* is skipped when it is too short.                                        *)
Need(r, n) == LET tail == r.cap - (r.wr % r.cap)
              IN  IF n <= tail THEN n ELSE tail + n

(* Write an entry, giving up the oldest until it fits; when the empty ring *)
(* has no contiguous room it is made again from the start.  Entries longer *)
(* than the ring are left out.                                             *)
Put(r, e) ==
  LET fit == {k \in 0..Len(r.q) :
                Span(SubSeq(r.q, k + 1, Len(r.q))) + Need(r, e.size) <= r.cap}
      k   == CHOOSE i \in fit : \A j \in fit : i <= j
  IN  IF e.size > r.cap THEN [ring |-> r, dropped |-> FALSE, rebuilt |-> FALSE]
      ELSE IF fit # {}
      THEN [ring    |-> [r EXCEPT !.wr = (@ + Need(r, e.size)) % r.cap,
                                  !.q  = Append(SubSeq(@, k + 1, Len(@)),
                                                [e |-> e, span |-> Need(r, e.size)])],
            dropped |-> k > 0, rebuilt |-> FALSE]
      ELSE [ring    |-> [NewRing(r.cap) EXCEPT !.wr = e.size % r.cap,
                                               !.q  = <<[e |-> e, span |-> e.size]>>],
            dropped |-> TRUE, rebuilt |-> TRUE]

(* Copy what the old ring holds into a new one.                            *)
CopyInto(cap, q) ==
  LET Copied[i \in 0..Len(q)] ==
        IF i = 0 THEN [ring |-> NewRing(cap), dropped |-> FALSE, rebuilt |-> FALSE]
        ELSE LET p == Put(Copied[i - 1].ring, q[i].e)
             IN  [ring    |-> p.ring,
                  dropped |-> Copied[i - 1].dropped \/ p.dropped,
                  rebuilt |-> Copied[i - 1].rebuilt \/ p.rebuilt]
  IN  Copied[Len(q)]

Filters(s, c) ==
  [s EXCEPT !.levels = IF c.size # 0 THEN LevelsOrAll(c.levels) ELSE @,
            !.cats   = CategoriesMask(c.masks)]

NoSnapshot == [on |-> FALSE, size |-> 0, ring |-> NewRing(1), text |-> <<<<>>, <<>>>>,
               index |-> 1, continuous |-> FALSE, live |-> TRUE,
               levels |-> {}, cats |-> {}, lock |-> None]

(* A new size of more than Slack difference moves the entries to a new     *)
(* ring.  When that ring has to be made again during the copy, the code    *)
(* makes it in the old memory, which is freed afterwards: live is FALSE.   *)
snapshot_reset(s, c) ==
  LET far  == s.ring.cap > c.size + Slack \/ c.size > s.ring.cap + Slack
      copy == CopyInto(c.cap, s.ring.q)
  IN  Filters(
        CASE c.size = 0 -> [NoSnapshot EXCEPT !.levels = s.levels, !.cats = s.cats,
                                              !.lock = s.lock]
          [] c.size # 0 /\ ~s.on -> [s EXCEPT !.on = TRUE, !.size = c.size,
                                              !.ring = NewRing(c.cap)]
          [] c.size # 0 /\ s.on /\ far ->
               [s EXCEPT !.size = c.size, !.ring = copy.ring,
                         !.live = @ /\ ~copy.rebuilt,
                         !.continuous = @ /\ ~copy.dropped]
          [] OTHER -> [s EXCEPT !.size = c.size], c)

(* The text of an entry: two characters.                                   *)
Chars(ids) == [k \in 1..2 * Len(ids) |-> <<ids[(k + 1) \div 2], 2 - (k % 2)>>]

IdsOf(q) == [i \in 1..Len(q) |-> q[i].e.id]

Ending(s, n) == SubSeq(s, Len(s) - n + 1, Len(s))
Least(a, b) == IF a <= b THEN a ELSE b

take_text(s) ==
  LET other == s.text[s.index]
      fresh == Chars(IdsOf(s.ring.q))
      room  == IF Len(fresh) < s.size THEN Least(s.size - Len(fresh), Len(other)) ELSE 0
  IN  IF s.continuous THEN Ending(other, room) \o fresh ELSE fresh
-----------------------------------------------------------------------------
(* Appenders and their hooks.                                              *)

Ids(list) == {list[i].id : i \in 1..Len(list)}

(* Tell the appenders of a set an event.                                   *)
Tell(o, ids, event) == [i \in 1..Len(o) |-> IF i \in ids THEN Append(o[i], event) ELSE o[i]]

Event(kind) == [kind |-> kind, id |-> 0, ts |-> 0]

flush_appenders_cache(f, o) ==
  [i \in 1..Len(f) |-> IF \E a \in Range(appenders) : a.id = i /\ IsFile(a)
                       THEN Len(o[i]) ELSE f[i]]

merged_of(list) == UNION {list[i].levels : i \in 1..Len(list)}

(* Appenders that cannot open or extend their file refuse to begin.        *)
Refusals(ids) ==
  {r \in SUBSET {a.id : a \in {x \in Range(appenders) : IsFile(x) /\ x.id \in ids}} :
     Cardinality(r) <= budget.faults}

(* Entries that add_appender makes of names without a usable old appender. *)
Created(c, survivors) ==
  LET names == SetToSeq({n \in DOMAIN c.apps :
                 /\ n \notin {survivors[i].name : i \in 1..Len(survivors)}
                 /\ init_ok(c.apps[n])})
  IN  [i \in 1..Len(names) |-> init_appender(names[i], c.apps[names[i]], Len(out) + i)]

(* The old appenders that can be reset, in their order, with their new     *)
(* settings.                                                               *)
Survivors(c) ==
  LET Kept[i \in 0..Len(appenders)] ==
        IF i = 0 THEN <<>>
        ELSE IF appenders[i].name \in DOMAIN c.apps
                /\ reset_ok(appenders[i], c.apps[appenders[i].name])
             THEN Append(Kept[i - 1],
                         set_basic_configs(appenders[i], c.apps[appenders[i].name]))
             ELSE Kept[i - 1]
  IN  Kept[Len(appenders)]
-----------------------------------------------------------------------------
Old(e) == IF mode = "sync" THEN recovery ELSE e.old

OldEntry(i, valid) == [id |-> i, cat |-> 1, lvl |-> CHOOSE l \in Levels : TRUE,
                       size |-> 1, ts |-> 1, old |-> TRUE, valid |-> valid, by |-> None]

Init ==
  /\ mode \in Modes /\ recovery \in BOOLEAN
  /\ \E n \in 0..MaxOld : \E v \in [1..n -> BOOLEAN] :
       /\ n > 0 => mode = "async" /\ recovery
       /\ queue = [i \in 1..n |-> OldEntry(i, v[i])]
  /\ LET names == SetToSeq({n \in DOMAIN First.apps : init_ok(First.apps[n])}) IN
     appenders = [i \in 1..Len(names) |-> init_appender(names[i], First.apps[names[i]], i)]
  /\ out = [i \in 1..Len(appenders) |-> <<>>]
  /\ flushed = [i \in 1..Len(appenders) |-> 0]
  /\ status = "not_started" /\ recoverers = {} /\ need_begin = FALSE
  /\ merged = merged_of(appenders)
  /\ mask = CategoriesMask(First.masks) /\ stack = LevelBitmap(First.stack)
  /\ clock = 0
  /\ snap = snapshot_reset(NoSnapshot, First.snap)
  /\ logs_lock = [writer |-> None, readers |-> {}] /\ spin_lock = None
  /\ pc = [t \in Threads |-> "idle"]
  /\ cur = [t \in Threads |-> None] /\ at = [t \in Threads |-> 0]
  /\ budget = [writes |-> MaxWrites, resets |-> MaxResets, takes |-> MaxTakes,
               flushes |-> MaxFlushes, enables |-> MaxEnables, faults |-> MaxFaults,
               calls |-> MaxCalls[mode] - Len(queue)]
  /\ gen = [apps |-> 0, mask |-> 0, snap |-> 0]
  /\ used = [t \in Threads |-> {}]
  /\ kept = <<>> /\ want = [t \in Threads |-> {}]
  /\ said_empty = FALSE /\ sure = {}

Goto(t, l) == pc' = [pc EXCEPT ![t] = l]
Spend(k) == /\ budget[k] > 0 /\ budget.calls > 0
            /\ budget' = [budget EXCEPT ![k] = @ - 1, !.calls = @ - 1]
-----------------------------------------------------------------------------
(* Writing an entry.                                                       *)

is_enable_for(cat, lvl) == lvl \in merged /\ cat \in mask

(* do_log: test the filters, then fill a chunk of the buffer or the        *)
(* thread's own buffer.                                                    *)
do_log(t) ==
  /\ t \in Users /\ pc[t] = "idle" /\ Spend("writes")
  /\ \E k \in Kinds :
       /\ is_enable_for(k.cat, k.lvl)
       /\ cur' = [cur EXCEPT ![t] =
                    [id |-> MaxOld + budget.writes, cat |-> k.cat, lvl |-> k.lvl,
                     size |-> k.size, ts |-> k.ts, old |-> FALSE, valid |-> TRUE,
                     by |-> t]]
  /\ said_empty' = FALSE /\ sure' = {}
  /\ Goto(t, IF mode = "sync" THEN "sync" ELSE "put")
  /\ UNCHANGED <<mode, recovery, queue, config_vars, output_vars,
                 recovery_vars, clock, snap, lock_vars, at, used, kept,
                 want>>

commit(t) ==
  /\ pc[t] = "put"
  /\ queue' = Append(queue, cur[t])
  /\ cur' = [cur EXCEPT ![t] = None]
  /\ Goto(t, "idle")
  /\ UNCHANGED <<mode, recovery, answer_vars, config_vars, output_vars,
                 recovery_vars, clock, snap, lock_vars, at, budget, used,
                 kept, want>>

sync_process(t) ==
  /\ pc[t] = "sync" /\ spin_lock = None
  /\ spin_lock' = t
  /\ Goto(t, "chunk")
  /\ UNCHANGED <<mode, recovery, queue, answer_vars, config_vars,
                 output_vars, recovery_vars, clock, snap, logs_lock, cur, at,
                 budget, used, kept, want>>
-----------------------------------------------------------------------------
(* Processing, by the worker with the lock for reading or by a flush with  *)
(* the lock for writing.                                                   *)

process_by_worker ==
  /\ mode = "async" /\ pc[Worker] = "idle"
  /\ logs_lock.writer = None
  /\ logs_lock' = [logs_lock EXCEPT !.readers = @ \cup {Worker}]
  /\ Goto(Worker, "read")
  /\ UNCHANGED <<mode, recovery, queue, answer_vars, config_vars,
                 output_vars, recovery_vars, clock, snap, spin_lock, cur, at,
                 budget, used, kept, want>>

(* Slip: the lock for writing does not wait for the worker.                *)
CanWrite_over_readers == logs_lock.writer = None

CanWrite == logs_lock.writer = None /\ logs_lock.readers = {}

force_flush(t) ==
  /\ t \in Users /\ mode = "async" /\ pc[t] = "idle" /\ Spend("flushes")
  /\ want' = [want EXCEPT ![t] = {queue[i].id : i \in 1..Len(queue)}
                                 \cup {cur[Worker].id : x \in {y \in {1} : cur[Worker] # None}}]
  /\ sure' = IF said_empty THEN sure \cup {t} ELSE sure
  /\ Goto(t, "flush")
  /\ UNCHANGED <<mode, recovery, queue, said_empty, config_vars, output_vars,
                 recovery_vars, clock, snap, lock_vars, cur, at, used, kept>>

flush_lock(t) ==
  /\ pc[t] = "flush" /\ CanWrite
  /\ logs_lock' = [logs_lock EXCEPT !.writer = t]
  /\ Goto(t, "read")
  /\ UNCHANGED <<mode, recovery, queue, answer_vars, config_vars,
                 output_vars, recovery_vars, clock, snap, spin_lock, cur, at,
                 budget, used, kept, want>>

(* What the buffer may hand out next: the oldest entry of a thread, and    *)
(* nothing of this process before what is left of an earlier one.          *)
Foremost(i) ==
  \A j \in 1..i - 1 :
    /\ queue[j].old = queue[i].old
    /\ queue[i].old \/ queue[j].by # queue[i].by

read_chunk(t) ==
  /\ pc[t] = "read"
  /\ \E i \in 1..Len(queue) :
       /\ Foremost(i)
       /\ cur' = [cur EXCEPT ![t] = queue[i]]
       /\ queue' = RemoveAt(queue, i)
  /\ Goto(t, "chunk")
  /\ UNCHANGED <<mode, recovery, answer_vars, config_vars, output_vars,
                 recovery_vars, clock, snap, lock_vars, at, budget, used,
                 kept, want>>

(* The buffer says that it is empty.  Whether somebody was at work during  *)
(* the call decides whether this counts; once it does, it is true the next *)
(* time.                                                                   *)
SaysEmpty ==
  /\ said_empty => queue = <<>>
  /\ \E counts \in BOOLEAN :
       said_empty' = (said_empty \/ (counts /\ \A u \in Users : pc[u] # "put"))

(* Slip: a forced flush, too, waits for its time.                          *)
process_end_timed(t) ==
  /\ pc[t] = "read" /\ SaysEmpty
  /\ \/ flushed' = flush_appenders_cache(flushed, out)
     \/ UNCHANGED flushed
  /\ Goto(t, "unlock")
  /\ UNCHANGED <<mode, recovery, queue, config_vars, out, recovery_vars,
                 clock, snap, lock_vars, cur, at, budget, used, kept, want,
                 sure>>

(* The loop ends at the first empty answer: flush if asked to or if time   *)
(* has passed.                                                             *)
process_end(t) ==
  /\ pc[t] = "read" /\ SaysEmpty
  /\ \/ flushed' = flush_appenders_cache(flushed, out)
     \/ t = Worker /\ UNCHANGED flushed
  /\ Goto(t, "unlock")
  /\ UNCHANGED <<mode, recovery, queue, config_vars, out, recovery_vars,
                 clock, snap, lock_vars, cur, at, budget, used, kept, want,
                 sure>>

process_unlock(t) ==
  /\ pc[t] = "unlock"
  /\ logs_lock' = [writer  |-> IF logs_lock.writer = t THEN None ELSE logs_lock.writer,
                   readers |-> logs_lock.readers \ {t}]
  /\ want' = [want EXCEPT ![t] = {}] /\ sure' = sure \ {t}
  /\ Goto(t, "idle")
  /\ UNCHANGED <<mode, recovery, queue, said_empty, config_vars, output_vars,
                 recovery_vars, clock, snap, spin_lock, cur, at, budget,
                 used, kept>>

(* The entry is done: the next one, or the end of sync_process, which      *)
(* flushes.                                                                *)
done(t) ==
  /\ pc[t] = "done"
  /\ cur' = [cur EXCEPT ![t] = None] /\ used' = [used EXCEPT ![t] = {}]
  /\ IF mode = "sync"
     THEN /\ flushed' = flush_appenders_cache(flushed, out)
          /\ spin_lock' = None /\ Goto(t, "idle")
     ELSE UNCHANGED <<flushed, spin_lock>> /\ Goto(t, "read")
  /\ UNCHANGED <<mode, recovery, queue, answer_vars, config_vars, out,
                 recovery_vars, clock, snap, logs_lock, at, budget, kept,
                 want>>
-----------------------------------------------------------------------------
(* process_log_chunk: the state of the recovery and its hooks.             *)

drop_corrupted(t) ==
  /\ pc[t] = "chunk" /\ Old(cur[t]) /\ ~cur[t].valid
  /\ Goto(t, "done")
  /\ UNCHANGED <<mode, recovery, queue, answer_vars, config_vars,
                 output_vars, recovery_vars, clock, snap, lock_vars, cur, at,
                 budget, used, kept, want>>

Tick(t) ==
  /\ clock' = IF cur[t].ts > clock THEN cur[t].ts ELSE clock
  /\ cur' = [cur EXCEPT ![t].ts = clock']
  /\ used' = [used EXCEPT ![t] = {gen.apps}]
  /\ Goto(t, "filter")
  /\ UNCHANGED <<mode, recovery, queue, answer_vars, config_vars, flushed,
                 snap, lock_vars, at, kept, want>>

new_begin(t) ==
  /\ pc[t] = "chunk" /\ status # "recovered" /\ ~Old(cur[t])
  /\ status' = "recovered" /\ recoverers' = {} /\ need_begin' = FALSE
  /\ out' = Tell(Tell(out, recoverers, Event("end")), Ids(appenders), Event("new"))
  /\ Tick(t)
  /\ UNCHANGED budget

recovery_begin(t) ==
  /\ pc[t] = "chunk" /\ Old(cur[t]) /\ cur[t].valid
  /\ \/ status = "not_started"
     \/ status = "in_recovering" /\ need_begin
  /\ LET asked == Ids(appenders) \ recoverers IN
     \E no \in Refusals(asked) :
       /\ recoverers' = recoverers \cup (asked \ no)
       /\ out' = Tell(out, asked \ no, Event("begin"))
       /\ budget' = [budget EXCEPT !.faults = @ - Cardinality(no)]
  /\ status' = "in_recovering" /\ need_begin' = FALSE
  /\ Tick(t)

same_phase(t) ==
  /\ pc[t] = "chunk"
  /\ IF Old(cur[t]) THEN /\ cur[t].valid /\ status # "not_started"
                         /\ status = "in_recovering" => ~need_begin
                    ELSE status = "recovered"
  /\ Tick(t)
  /\ UNCHANGED <<recovery_vars, out, budget>>

(* log and log_recovered: the log's categories, then one appender after    *)
(* the other, then the snapshot.                                           *)
Recovered(t) == status = "in_recovering" /\ Old(cur[t])

filter(t) ==
  /\ pc[t] = "filter"
  /\ used' = [used EXCEPT ![t] = @ \cup (IF mode = "async" THEN {gen.mask} ELSE {})]
  /\ at' = [at EXCEPT ![t] = 1]
  /\ Goto(t, IF cur[t].cat \in mask THEN "deliver" ELSE "done")
  /\ UNCHANGED <<mode, recovery, queue, answer_vars, config_vars,
                 output_vars, recovery_vars, clock, snap, lock_vars, cur,
                 budget, kept, want>>

deliver(t) ==
  /\ pc[t] = "deliver" /\ at[t] <= Len(appenders)
  /\ LET a == appenders[at[t]] e == cur[t] IN
     out' = IF Accepts(a, e) /\ (Recovered(t) => a.id \in recoverers)
            THEN Tell(out, {a.id}, [kind |-> IF e.old THEN "old" ELSE "entry",
                                    id |-> e.id, ts |-> e.ts])
            ELSE out
  /\ at' = [at EXCEPT ![t] = @ + 1]
  /\ used' = [used EXCEPT ![t] = @ \cup {gen.apps}]
  /\ UNCHANGED <<mode, recovery, queue, answer_vars, config_vars, flushed,
                 recovery_vars, clock, snap, lock_vars, pc, cur, budget,
                 kept, want>>

snapshot_enabled(t) ==
  /\ pc[t] = "deliver" /\ at[t] > Len(appenders)
  /\ Goto(t, IF snap.on THEN "snapshot" ELSE "done")
  /\ UNCHANGED <<mode, recovery, queue, answer_vars, config_vars,
                 output_vars, recovery_vars, clock, snap, lock_vars, cur, at,
                 budget, used, kept, want>>

(* Slip: entries given up for room do not interrupt the text.              *)
write_data_unbroken(t) ==
  /\ pc[t] = "snapshot" /\ snap.lock = None
  /\ LET e == cur[t] p == Put(snap.ring, e) IN
     IF e.lvl \in snap.levels /\ e.cat \in snap.cats /\ snap.on
     THEN /\ snap' = [snap EXCEPT !.ring = p.ring]
          /\ kept' = IF e.size > snap.ring.cap THEN kept ELSE Append(kept, e.id)
     ELSE UNCHANGED <<snap, kept>>
  /\ used' = [used EXCEPT ![t] = @ \cup (IF mode = "async" THEN {gen.snap} ELSE {})]
  /\ Goto(t, "done")
  /\ UNCHANGED <<mode, recovery, queue, answer_vars, config_vars,
                 output_vars, recovery_vars, clock, lock_vars, cur, at,
                 budget, want>>

write_data(t) ==
  /\ pc[t] = "snapshot" /\ snap.lock = None
  /\ LET e == cur[t] p == Put(snap.ring, e) IN
     IF e.lvl \in snap.levels /\ e.cat \in snap.cats
     THEN IF snap.on
          THEN /\ snap' = [snap EXCEPT !.ring = p.ring,
                                       !.continuous = @ /\ ~p.dropped]
               /\ kept' = IF e.size > snap.ring.cap THEN kept ELSE Append(kept, e.id)
          ELSE UNCHANGED <<snap, kept>>
     ELSE snap' = [snap EXCEPT !.continuous = FALSE] /\ UNCHANGED kept
  /\ used' = [used EXCEPT ![t] = @ \cup (IF mode = "async" THEN {gen.snap} ELSE {})]
  /\ Goto(t, "done")
  /\ UNCHANGED <<mode, recovery, queue, answer_vars, config_vars,
                 output_vars, recovery_vars, clock, lock_vars, cur, at,
                 budget, want>>
-----------------------------------------------------------------------------
(* reset_config, under logs_lock_ for writing.                             *)

reset_config(t) ==
  /\ t \in Users /\ pc[t] = "idle" /\ CanWrite /\ Spend("resets")
  /\ logs_lock' = [logs_lock EXCEPT !.writer = t]
  /\ \E c \in Configs :
       /\ cur' = [cur EXCEPT ![t] = c]
       /\ stack' = LevelBitmap(c.stack)
  /\ Goto(t, "reset")
  /\ UNCHANGED <<mode, recovery, queue, answer_vars, appenders, merged, mask,
                 gen, output_vars, recovery_vars, clock, snap, spin_lock, at,
                 used, kept, want>>

(* Without a table of appenders nothing else changes.                      *)
reset_invalid(t) ==
  /\ pc[t] = "reset" /\ spin_lock = None /\ cur[t].apps = None
  /\ Goto(t, "unlock")
  /\ cur' = [cur EXCEPT ![t] = None]
  /\ UNCHANGED <<mode, recovery, queue, answer_vars, config_vars,
                 output_vars, recovery_vars, clock, snap, lock_vars, at,
                 budget, used, kept, want>>

(* Slip: the recovery list keeps the appenders that are destroyed.         *)
reset_appenders_list_kept(t) ==
  /\ pc[t] = "reset" /\ spin_lock = None /\ cur[t].apps # None
  /\ LET stay == Survivors(cur[t]) new == Created(cur[t], stay)
     IN  /\ appenders' = stay \o new
         /\ flushed' = flush_appenders_cache(flushed, out) \o [i \in 1..Len(new) |-> 0]
         /\ out' = out \o [i \in 1..Len(new) |-> <<>>]
  /\ merged' = merged_of(appenders')
  /\ gen' = [gen EXCEPT !.apps = @ + 1]
  /\ Goto(t, "reset_mask")
  /\ UNCHANGED <<mode, recovery, queue, answer_vars, mask, stack,
                 recovery_vars, clock, snap, lock_vars, cur, at, budget,
                 used, kept, want>>

(* Flush; keep the appenders that can be reset, destroy the others, make   *)
(* the new ones; remember which of them take part in a recovery.           *)
reset_appenders(t) ==
  /\ pc[t] = "reset" /\ spin_lock = None /\ cur[t].apps # None
  /\ LET c    == cur[t]
         stay == Survivors(c)
         new  == Created(c, stay)
         rec  == status = "in_recovering"
     IN  /\ appenders' = stay \o new
         /\ flushed' = flush_appenders_cache(flushed, out) \o [i \in 1..Len(new) |-> 0]
         /\ out' = out \o [i \in 1..Len(new) |-> <<>>]
         /\ recoverers' = IF rec THEN recoverers \cap Ids(stay) ELSE recoverers
         /\ need_begin' = IF rec
                          THEN Cardinality(recoverers') # Len(stay) + Len(new)
                          ELSE need_begin
  /\ merged' = merged_of(appenders')
  /\ gen' = [gen EXCEPT !.apps = @ + 1]
  /\ Goto(t, "reset_mask")
  /\ UNCHANGED <<mode, recovery, queue, answer_vars, mask, stack, status,
                 clock, snap, lock_vars, cur, at, budget, used, kept, want>>

reset_mask(t) ==
  /\ pc[t] = "reset_mask"
  /\ mask' = CategoriesMask(cur[t].masks)
  /\ gen' = [gen EXCEPT !.mask = gen.apps]
  /\ Goto(t, "reset_snapshot")
  /\ UNCHANGED <<mode, recovery, queue, answer_vars, appenders, merged,
                 stack, output_vars, recovery_vars, clock, snap, lock_vars,
                 cur, at, budget, used, kept, want>>

(* The entries of a ring that are not longer than another one.             *)
Fitting(q, cap) ==
  LET Fits[i \in 0..Len(q)] ==
        IF i = 0 THEN <<>>
        ELSE IF q[i].e.size > cap THEN Fits[i - 1] ELSE Append(Fits[i - 1], q[i].e.id)
  IN  Fits[Len(q)]

(* Entries longer than the new ring are left out of it.                    *)
reset_snapshot(t) ==
  /\ pc[t] = "reset_snapshot" /\ snap.lock = None
  /\ snap' = snapshot_reset(snap, cur[t].snap)
  /\ LET q == snap.ring.q
         gone == SubSeq(kept, 1, Len(kept) - Len(q))
     IN  kept' = IF snap'.on THEN gone \o Fitting(q, snap'.ring.cap) ELSE <<>>
  /\ gen' = [gen EXCEPT !.snap = gen.apps]
  /\ cur' = [cur EXCEPT ![t] = None]
  /\ Goto(t, "unlock")
  /\ UNCHANGED <<mode, recovery, queue, answer_vars, appenders, merged, mask,
                 stack, output_vars, recovery_vars, clock, lock_vars, at,
                 budget, used, want>>
-----------------------------------------------------------------------------
(* The pattern of set_appender_enable stands for the names it matches.     *)
set_appender_enable(t) ==
  /\ t \in Users /\ pc[t] = "idle" /\ spin_lock = None /\ Spend("enables")
  /\ \E names \in SUBSET {a.name : a \in Range(appenders)}, b \in BOOLEAN :
       appenders' = [i \in 1..Len(appenders) |->
                       IF appenders[i].name \in names
                       THEN [appenders[i] EXCEPT !.enable = b] ELSE appenders[i]]
  /\ UNCHANGED <<mode, recovery, queue, answer_vars, output_vars,
                 recovery_vars, merged, mask, stack, clock, snap, lock_vars,
                 pc, cur, at, gen, used, kept, want>>

take_snapshot_string(t) ==
  /\ t \in Users /\ pc[t] = "idle" /\ snap.lock = None /\ Spend("takes")
  /\ LET other == 3 - snap.index IN
     snap' = IF snap.on
             THEN [snap EXCEPT !.lock = t, !.index = other,
                               !.text[other] = take_text(snap),
                               !.ring.q = <<>>, !.continuous = TRUE]
             ELSE [snap EXCEPT !.lock = t, !.index = other, !.text[other] = <<>>]
  /\ Goto(t, "taken")
  /\ UNCHANGED <<mode, recovery, queue, answer_vars, config_vars,
                 output_vars, recovery_vars, clock, lock_vars, cur, at, used,
                 kept, want>>

release_snapshot_string(t) ==
  /\ pc[t] = "taken"
  /\ snap' = [snap EXCEPT !.lock = None]
  /\ Goto(t, "idle")
  /\ UNCHANGED <<mode, recovery, queue, answer_vars, config_vars,
                 output_vars, recovery_vars, clock, lock_vars, cur, at,
                 budget, used, kept, want>>

(* Nobody has anything to do.                                              *)
rest ==
  /\ \A t \in Threads : pc[t] = "idle"
  /\ UNCHANGED vars

Next ==
  \/ process_by_worker \/ rest
  \/ \E t \in Threads :
       \/ do_log(t) \/ commit(t) \/ sync_process(t)
       \/ force_flush(t) \/ flush_lock(t) \/ read_chunk(t) \/ process_end(t)
       \/ process_unlock(t) \/ done(t)
       \/ drop_corrupted(t) \/ new_begin(t) \/ recovery_begin(t) \/ same_phase(t)
       \/ filter(t) \/ deliver(t) \/ snapshot_enabled(t) \/ write_data(t)
       \/ reset_config(t) \/ reset_invalid(t) \/ reset_appenders(t)
       \/ reset_mask(t) \/ reset_snapshot(t)
       \/ set_appender_enable(t)
       \/ take_snapshot_string(t) \/ release_snapshot_string(t)

Spec == Init /\ [][Next]_vars
-----------------------------------------------------------------------------
(* The last marker before place i of an output is a start.                 *)
Opened(o, i) ==
  \E j \in 1..i - 1 : o[j].kind = "begin" /\ \A k \in j + 1..i - 1 : o[k].kind # "end"

(* What an appender is told makes sense to a reader of its output: an      *)
(* entry of an earlier process comes after a start marker and before the   *)
(* end marker, a start is not followed by another one before its end, an   *)
(* end follows a start, times never go back, and the recovery list names   *)
(* living appenders only.  In async mode no entry of this process is       *)
(* taken for a recovered one.  (process_log_chunk and reset_config.)       *)
OutputReadable ==
  /\ recoverers \subseteq Ids(appenders)
  /\ \A o \in Range(out) : \A i \in 1..Len(o) :
       /\ o[i].kind \in {"old", "end"} => Opened(o, i)
       /\ o[i].kind = "begin" => ~Opened(o, i)
       /\ o[i].kind = "entry" /\ mode = "async" => ~Opened(o, i)
       /\ \A j \in 1..i : (o[i].ts # 0 /\ o[j].ts # 0) => o[j].ts <= o[i].ts

(* While an entry is processed the appenders stay those of one             *)
(* configuration, and in async mode the log's categories and the snapshot  *)
(* belong to the same one: reset_config waits for the lock.                *)
OneConfiguration == \A t \in Threads : Cardinality(used[t]) <= 1

(* A snapshot is the end of what the snapshot was given, complete to the   *)
(* latest entry and without a gap, over changes of size and filters; this  *)
(* is only promised as long as the ring is in memory the snapshot owns.    *)
SnapshotIsTail ==
  \A t \in Threads : pc[t] = "taken" /\ snap.live =>
    IsSuffix(snap.text[snap.index], Chars(kept))

(* When a flush is about to return, no entry that was committed before it  *)
(* began is in the worker's hands, and the files hold what their appenders *)
(* were told.  Such an entry may be left in the buffer, where an empty     *)
(* answer ended the loop too early; but not if the buffer had already said *)
(* empty before the flush began, and nobody has written since: a second    *)
(* flush delivers everything.  (process, force_flush.)                     *)
FlushDelivers ==
  \A t \in Users : pc[t] = "unlock" /\ want[t] # {} =>
    /\ cur[Worker] # None => cur[Worker].id \notin want[t]
    /\ \A a \in Range(appenders) : IsFile(a) => flushed[a.id] = Len(out[a.id])
    /\ t \in sure => \A i \in 1..Len(queue) : queue[i].id \notin want[t]
=============================================================================
