----------------------------- MODULE AppenderFile -----------------------------
(***************************************************************************)
(* The write path of a text file appender (appender_file_base with         *)
(* appender_file_text, recovery enabled): entries are copied into a write  *)
(* cache, a flush writes the finished part of the cache to the current     *)
(* file, files are rolled, a full disk makes the appender refuse new       *)
(* entries while it keeps what it has, and after a crash the cache is      *)
(* found again in its memory-mapped file and written out.  The caller is   *)
(* log_imp::process_log_chunk with its recovery status.                    *)
(*                                                                         *)
(* A text is counted in units, two for an entry and one for a recovery     *)
(* marker, so that a write may end inside an entry.  A write may be cut    *)
(* short by a full disk or fail with another error; opening a file may     *)
(* fail.  Only the process crashes, not the machine: what was stored in    *)
(* the mapped file or written to a log file is still there.  Every action  *)
(* is what the code does between two points where a crash makes a          *)
(* difference; todo holds what is left of the call being executed.         *)
(***************************************************************************)
EXTENDS Naturals, Sequences, FiniteSets, SequencesExt

CONSTANTS
    Target,       \* write_cache_target_size_, in units
    Small,        \* CACHE_READ_DEFAULT_SIZE >> 1: the use at which a cache shrinks
    MaxFile,      \* max_file_size_, in units
    Recovers,     \* whether the log buffer may hold entries of an earlier run
    MaxEntries,   \* bounds: the entries accepted,
    MaxFull,      \* writes and opens that find the disk full,
    MaxErrors,    \* writes and opens that fail otherwise,
    MaxEnds,      \* crashes and orderly ends of the process,
    MaxDays,      \* and ends of a day (enable_rolling_log_file_)
    MaxTrouble    \* all of these together

ASSUME FileConstants ==
    /\ Target \in Nat /\ Target >= 4 /\ Small \in 2 .. Target /\ MaxFile \in Nat \ {0}
    /\ Recovers \in BOOLEAN /\ MaxEntries \in Nat

VARIABLES
    files,     \* the log files in the order of their opening, sequences of units
    mm,        \* the mapped file: the cache up to cache_write_cursor_, its
               \* cache_write_finished_cursor_, and the file of file_path_ (0: none)
    cap,       \* get_cache_write_size, the size of the mapped file
    file,      \* file_: the index of the open file, 0 if there is none
    drop,      \* disk_full_drop_
    rec,       \* log_imp::recover_status_
    listed,    \* the appender is in log_imp::recovery_appenders_
    todo,      \* what is left of the call being executed
    io,        \* real_write_size and error_code of the running flush
    alive,     \* the process runs
    accepted,  \* history: the entries marked finished; numbered in their order
    given_up,  \* history: entries dropped from the cache unwritten
    repeated,  \* history: entries that a crash within a flush may write again
    spoiled,   \* history: entries in the cache when an unfinished text was moved
               \* over what a short write had left
    spent      \* what the environment has done, against its bounds

log_state == <<rec, listed>>
history == <<accepted, given_up, repeated, spoiled>>
vars == <<files, mm, cap, file, drop, log_state, todo, io, alive, history, spent>>

May(what, bound) ==
    /\ spent[what] < bound
    /\ spent["full"] + spent["errors"] + spent["ends"] + spent["days"] < MaxTrouble
Spend(what) == spent' = [spent EXCEPT ![what] = @ + 1]

Entry(e) == <<<<e, 1>>, <<e, 2>>>>
Start == <<0, 1>>    \* log_recover_start_str_
End == <<0, 2>>      \* log_recover_end_str_
EntriesIn(text) == {u[1] : u \in ToSet(text)} \ {0}

Cursor == Len(mm.cells)
Pending == SubSeq(mm.cells, 1, mm.finished)
Cleaned == [mm EXCEPT !.cells = <<>>, !.finished = 0]   \* clean_cache_write

\* memmove(cache_write_, cache_write_ + by, n)
MoveDown(cells, by, n) == SubSeq(cells, by + 1, by + n) \o SubSeq(cells, n + 1, Len(cells))

\* utility::roundup_pow_of_two
PowerOfTwo(n) ==
    LET Up[i \in 0 .. n] == IF i <= 1 THEN 1 ELSE 2 * Up[(i + 1) \div 2] IN Up[n]

At(step) == alive /\ todo # <<>> /\ Head(todo) = step
Then(steps) == todo' = steps \o Tail(todo)

-----------------------------------------------------------------------------
(* log_imp::process_log_chunk, for this appender                            *)

NewBegin == <<"flush", "refresh">>               \* on_log_item_new_begin
RecoveryBegin == <<"flush", "refresh", "start">>  \* on_log_item_recovery_begin

\* An entry of this run: the first one ends the recovery.
process_new ==
    /\ alive /\ todo = <<>> /\ Cardinality(accepted) < MaxEntries
    /\ rec' = "recovered"
    /\ listed' = FALSE
    /\ todo' = (IF rec = "in_recovering" /\ listed THEN <<"end">> ELSE <<>>)
               \o (IF rec = "recovered" THEN <<>> ELSE NewBegin) \o <<"log">>
    /\ UNCHANGED <<files, mm, cap, file, drop, io, alive, history, spent>>

\* An entry that an earlier run left in the log buffer.
process_recovered ==
    /\ Recovers /\ alive /\ todo = <<>> /\ Cardinality(accepted) < MaxEntries
    /\ rec \in {"not_started", "in_recovering"}
    /\ rec' = "in_recovering"
    /\ todo' = (IF rec = "not_started" THEN RecoveryBegin ELSE <<>>) \o <<"log_recovered">>
    /\ UNCHANGED <<files, mm, cap, file, drop, listed, io, alive, history, spent>>

\* At the end of log_imp::process; of use only if it would change something.
flush_appenders_cache ==
    /\ alive /\ todo = <<>> /\ file # 0 /\ (mm.finished > 0 \/ drop \/ cap > Target)
    /\ todo' = <<"flush">>
    /\ UNCHANGED <<files, mm, cap, file, drop, log_state, io, alive, history, spent>>

-----------------------------------------------------------------------------
(* log_impl, refresh_file_handle and open_new_indexed_file_by_name          *)

\* Mutant: entries are accepted although the disk is full.
log_impl_never_drops ==
    /\ At("log") \/ At("log_recovered")
    /\ Then(IF At("log_recovered") /\ ~listed THEN <<>> ELSE <<"refresh", "entry">>)
    /\ UNCHANGED <<files, mm, cap, file, drop, log_state, io, alive, history, spent>>

\* appender_file_base::log_impl refuses the entry while the disk is full.
\* log_recovered only reaches the appenders whose recovery could begin.
log_impl ==
    /\ At("log") \/ At("log_recovered")
    /\ Then(IF drop \/ (At("log_recovered") /\ ~listed) THEN <<>> ELSE <<"refresh", "entry">>)
    /\ UNCHANGED <<files, mm, cap, file, drop, log_state, io, alive, history, spent>>

\* A new file is needed if there is none, if it is full or if its day ended.
NeedCreateNewFile == file = 0 \/ Len(files[file]) >= MaxFile
NewFile == IF file = 0 THEN <<"open">> ELSE <<"flush", "open">>

refresh_file_handle ==
    /\ At("refresh")
    /\ \/ Then(IF NeedCreateNewFile THEN NewFile ELSE <<>>) /\ UNCHANGED spent
       \/ ~NeedCreateNewFile /\ May("days", MaxDays) /\ Spend("days") /\ Then(NewFile)
    /\ UNCHANGED <<files, mm, cap, file, drop, log_state, io, alive, history>>

\* The next index is taken; without a previous file the last one of the day is
\* used again unless it is full or always_create_new_file_ is set.
OpenIndexes ==
    {Len(files) + 1} \cup
    {i \in {Len(files)} \ {0} : file = 0 /\ Len(files[i]) < MaxFile}

\* Whatever is in the cache is dropped, then the file is opened, or is not.
open_new_indexed_file_by_name ==
    /\ At("open") /\ Tail(todo) # <<"exit">> /\ Then(<<>>)
    /\ given_up' = given_up \cup EntriesIn(Pending)
    /\ \/ /\ \E i \in OpenIndexes :
               /\ file' = i
               /\ files' = IF i > Len(files) THEN Append(files, <<>>) ELSE files
               /\ mm' = [Cleaned EXCEPT !.path = i]
          /\ UNCHANGED spent
       \/ /\ May("full", MaxFull) /\ Spend("full")
          /\ file' = 0
          /\ mm' = Cleaned
          /\ UNCHANGED files
    /\ UNCHANGED <<cap, drop, log_state, io, alive, accepted, repeated, spoiled>>

-----------------------------------------------------------------------------
(* alloc_write_cache, return_write_cache and mark_write_finished            *)

Needs(n) == Cursor + n > cap

\* alloc_write_cache flushes the cache when the text does not fit.
alloc(step, store, n) ==
    /\ At(step)
    /\ Then((IF Needs(n) THEN <<"flush">> ELSE <<>>) \o <<store>>)
    /\ UNCHANGED <<files, mm, cap, file, drop, log_state, io, alive, history, spent>>

\* The rest of alloc_write_cache, the memcpy and return_write_cache.
Store(text, finished) ==
    /\ cap' = IF Needs(Len(text)) THEN PowerOfTwo(Cursor + Len(text)) ELSE cap
    /\ mm' = [mm EXCEPT !.cells = @ \o text, !.finished = finished]

\* appender_file_text::log_impl
alloc_entry == file # 0 /\ alloc("entry", "store", 2)

\* No file could be opened, or the layout failed.
refuse_entry ==
    /\ At("entry") /\ Then(<<>>)
    /\ UNCHANGED <<files, mm, cap, file, drop, log_state, io, alive, history, spent>>

\* Entries are numbered in the order in which the cache accepts them.
Number == Cardinality(accepted) + 1

store_entry ==
    /\ At("store") /\ Then(<<>>)
    /\ Store(Entry(Number), Cursor + 2)
    /\ accepted' = accepted \cup {Number}
    /\ UNCHANGED <<files, file, drop, log_state, io, alive, given_up, repeated, spoiled, spent>>

\* appender_file_text::on_log_item_recovery_begin, after the base's: without a
\* file nothing is written and the appender is not listed for the recovery.
recovery_begin ==
    /\ IF file = 0 THEN At("start") /\ Then(<<>>) /\ UNCHANGED log_state
       ELSE At("start") /\ Then((IF Needs(1) THEN <<"flush">> ELSE <<>>) \o <<"store_start">>)
            /\ listed' = TRUE /\ UNCHANGED rec
    /\ UNCHANGED <<files, mm, cap, file, drop, io, alive, history, spent>>

recovery_end == alloc("end", "store_end", 1)

\* A marker is not marked finished: the next entry will do it.
store_marker ==
    /\ \/ At("store_start") /\ Store(<<Start>>, mm.finished)
       \/ At("store_end") /\ Store(<<End>>, mm.finished)
    /\ Then(<<>>)
    /\ UNCHANGED <<files, file, drop, log_state, io, alive, history, spent>>

-----------------------------------------------------------------------------
(* flush_write_cache                                                        *)

\* platform::write_file: all of it, or a part and a reason.
flush_write_cache ==
    /\ At("flush") /\ file # 0
    /\ \E real \in 0 .. mm.finished :
         /\ files' = [files EXCEPT ![file] = @ \o SubSeq(mm.cells, 1, real)]
         /\ \/ real = mm.finished /\ io' = [real |-> real, err |-> "none"] /\ UNCHANGED spent
            \/ /\ real < mm.finished /\ io' = [real |-> real, err |-> "full"]
               /\ May("full", MaxFull) /\ Spend("full")
            \/ /\ real < mm.finished /\ io' = [real |-> real, err |-> "other"]
               /\ May("errors", MaxErrors) /\ Spend("errors")
    /\ Then(<<"keep", "count">>)
    /\ UNCHANGED <<mm, cap, file, drop, log_state, alive, history>>

no_file_to_flush ==
    /\ At("flush") /\ file = 0 /\ Then(<<>>)
    /\ UNCHANGED <<files, mm, cap, file, drop, log_state, io, alive, history, spent>>

\* Mutant: a short write is not thought of.
KeepNoUnwritten(cells) == cells

\* The two memmoves: what was not written, and what is not finished yet.
KeepUnwritten(cells) ==
    IF io.real < mm.finished THEN MoveDown(cells, io.real, mm.finished - io.real) ELSE cells
KeepUnfinished(cells) ==
    IF Cursor > mm.finished THEN MoveDown(cells, mm.finished, Cursor - mm.finished) ELSE cells

flush_keep ==
    /\ At("keep") /\ Then(<<>>)
    /\ mm' = [mm EXCEPT !.cells = KeepUnfinished(KeepUnwritten(@))]
    /\ spoiled' = spoiled \cup
          (IF io.real < mm.finished /\ mm.finished < Cursor THEN EntriesIn(Pending) ELSE {})
    /\ UNCHANGED <<files, cap, file, drop, log_state, io, alive, accepted, given_up, repeated, spent>>

\* Mutant: disk_full_drop_ is never cleared.
flush_count_keeps_drop ==
    /\ At("count")
    /\ mm' = [mm EXCEPT !.cells = SubSeq(@, 1, Cursor - io.real), !.finished = @ - io.real]
    /\ cap' = IF cap > Target /\ Cursor - io.real <= Small THEN Target ELSE cap
    /\ drop' = (drop \/ io.err = "full")
    /\ io' = [real |-> 0, err |-> "none"]
    /\ Then(IF io.err = "other" THEN <<"open">> ELSE <<>>)
    /\ UNCHANGED <<files, file, log_state, alive, history, spent>>

\* The cursors move, the cache shrinks to its target, disk_full_drop_ follows
\* the outcome, and an error other than a full disk opens another file.
flush_count ==
    /\ At("count")
    /\ mm' = [mm EXCEPT !.cells = SubSeq(@, 1, Cursor - io.real), !.finished = @ - io.real]
    /\ cap' = IF cap > Target /\ Cursor - io.real <= Small THEN Target ELSE cap
    /\ drop' = (io.err = "full" \/ (drop /\ ~(io.err = "none" /\ io.real = mm.finished)))
    /\ io' = [real |-> 0, err |-> "none"]
    /\ Then(IF io.err = "other" THEN <<"open">> ELSE <<>>)
    /\ UNCHANGED <<files, file, log_state, alive, history, spent>>

-----------------------------------------------------------------------------
(* The end of the process, and init_impl with try_recover                   *)

\* Whatever the process kept in its own memory is gone.
Gone ==
    /\ alive' = FALSE /\ todo' = <<>> /\ file' = 0 /\ drop' = FALSE
    /\ rec' = "not_started" /\ listed' = FALSE /\ io' = [real |-> 0, err |-> "none"]

\* A crash between the write and the update of the cursor leaves in the mapped
\* file what is already in the log file.
crash ==
    /\ alive /\ May("ends", MaxEnds) /\ Spend("ends")
    /\ Gone
    /\ repeated' = repeated \cup (IF At("keep") \/ At("count") THEN EntriesIn(Pending) ELSE {})
    /\ mm' = [mm EXCEPT !.cells = Pending]
    /\ UNCHANGED <<files, cap, accepted, given_up, spoiled>>

\* ~appender_file_base: the mapped file is deleted if nothing is pending;
\* otherwise the cache is flushed and the file stays.
destruct ==
    /\ alive /\ todo = <<>> /\ May("ends", MaxEnds) /\ Spend("ends")
    /\ mm' = IF mm.finished = 0 THEN [cells |-> <<>>, finished |-> 0, path |-> 0] ELSE mm
    /\ todo' = <<"flush", "exit">>
    /\ UNCHANGED <<files, cap, file, drop, log_state, io, alive, history>>

\* In the destructor open_new_indexed_file_by_name drops the cache and then ends
\* the process by its call of the pure virtual get_file_ext_name.
open_in_destructor ==
    /\ At("open") /\ Tail(todo) = <<"exit">> /\ Gone
    /\ given_up' = given_up \cup EntriesIn(Pending)
    /\ mm' = Cleaned
    /\ UNCHANGED <<files, cap, accepted, repeated, spoiled, spent>>

exit ==
    /\ At("exit") /\ Gone
    /\ mm' = [mm EXCEPT !.cells = Pending]
    /\ UNCHANGED <<files, cap, history, spent>>

\* try_recover opens the file of file_path_; if there is something to recover it
\* writes a marker and the cache, otherwise it only closes the file.  If the
\* file cannot be opened the cache is dropped.
init_impl ==
    /\ ~alive /\ alive' = TRUE
    /\ \/ /\ mm.path # 0 /\ mm.finished > 0
          /\ file' = mm.path
          /\ todo' = <<"recover", "flush", "recovered">>
          /\ UNCHANGED <<mm, cap, given_up, spent>>
       \/ /\ IF mm.path # 0 /\ mm.finished > 0
             THEN May("errors", MaxErrors) /\ Spend("errors")
             ELSE UNCHANGED spent
          /\ mm' = Cleaned /\ cap' = Target
          /\ given_up' = given_up \cup EntriesIn(Pending)
          /\ UNCHANGED <<file, todo>>
    /\ UNCHANGED <<files, drop, log_state, io, accepted, repeated, spoiled>>

\* on_appender_file_recovery_begin and on_appender_file_recovery_end write their
\* marker directly; both write the start string.  A full disk is ignored.
DirectWrite(marker) ==
    \/ /\ files' = IF file = 0 THEN files ELSE [files EXCEPT ![file] = Append(@, marker)]
       /\ UNCHANGED spent
    \/ May("full", MaxFull) /\ Spend("full") /\ UNCHANGED files

recovery_start_marker ==
    /\ At("recover") /\ Then(<<>>)
    /\ DirectWrite(Start)
    /\ UNCHANGED <<mm, cap, file, drop, log_state, io, alive, history>>

recovery_end_marker ==
    /\ At("recovered") /\ mm.finished = 0 /\ Then(<<>>)
    /\ DirectWrite(Start)
    /\ file' = 0 /\ mm' = Cleaned /\ cap' = Target
    /\ UNCHANGED <<drop, log_state, io, alive, history>>

\* Not everything could be written: the recovery is given up.
recovery_failed ==
    /\ At("recovered") /\ mm.finished # 0 /\ Then(<<>>)
    /\ given_up' = given_up \cup EntriesIn(Pending)
    /\ file' = 0 /\ mm' = Cleaned /\ cap' = Target
    /\ UNCHANGED <<files, drop, log_state, io, alive, accepted, repeated, spoiled, spent>>

-----------------------------------------------------------------------------
Init ==
    /\ files = <<>> /\ mm = [cells |-> <<>>, finished |-> 0, path |-> 0]
    /\ cap = Target /\ file = 0 /\ drop = FALSE
    /\ rec = "not_started" /\ listed = FALSE
    /\ todo = <<>> /\ io = [real |-> 0, err |-> "none"] /\ alive = TRUE
    /\ accepted = {} /\ given_up = {} /\ repeated = {} /\ spoiled = {}
    /\ spent = [w \in {"full", "errors", "ends", "days"} |-> 0]

Call ==
    \/ log_impl \/ refresh_file_handle \/ open_new_indexed_file_by_name
    \/ alloc_entry \/ refuse_entry \/ store_entry
    \/ recovery_begin \/ recovery_end \/ store_marker
    \/ flush_write_cache \/ no_file_to_flush \/ flush_keep \/ flush_count
    \/ exit \/ open_in_destructor \/ recovery_start_marker \/ recovery_end_marker \/ recovery_failed

Next ==
    \/ process_new \/ process_recovered \/ flush_appenders_cache \/ Call
    \/ crash \/ destruct \/ init_impl

Spec == Init /\ [][Next]_vars

\* The worker finishes the calls it has begun, keeps getting entries, finds the
\* log buffer empty again and again, where it flushes (every 100 ms), and an
\* ended process is started again; nothing makes a fault happen.
FairSpec ==
    /\ Spec /\ WF_vars(Call) /\ WF_vars(init_impl)
    /\ SF_vars(process_new) /\ SF_vars(flush_appenders_cache)

-----------------------------------------------------------------------------
(* Properties                                                               *)

Steps == {"flush", "refresh", "start", "end", "log", "log_recovered", "open", "entry",
          "store", "store_start", "store_end", "keep", "count", "exit", "recover", "recovered"}

\* The cursors stay within the cache and the cache within its bounds: what is
\* pending is a part of what is stored, and that fits (alloc_write_cache).
TypeOK ==
    /\ \A i \in DOMAIN files : EntriesIn(files[i]) \subseteq accepted
    /\ mm.finished \in 0 .. Cursor /\ mm.path \in 0 .. Len(files)
    /\ Cursor <= cap /\ io.real \in 0 .. mm.finished /\ io.err \in {"none", "full", "other"}
    /\ file \in 0 .. Len(files) /\ ToSet(todo) \subseteq Steps
    /\ rec \in {"not_started", "in_recovering", "recovered"}
    /\ {drop, listed, alive} \subseteq BOOLEAN
    /\ accepted \subseteq 1 .. MaxEntries /\ given_up \cup repeated \cup spoiled \subseteq accepted

Written == FlattenSeq(files)

\* Log files and cache together hold the accepted entries but the excused ones,
\* whole, once and in their order.
Holds(excused) ==
    At("keep") \/ At("count") \/
    LET expected == SetToSortSeq(accepted \ excused, <)
    IN  SelectSeq(Written \o Pending, LAMBDA u : u[1] \notin excused \cup {0})
            = FlattenSeq([i \in DOMAIN expected |-> Entry(expected[i])])

\* Over short writes, rolled files, crashes and recoveries no accepted entry is
\* lost, torn, repeated or reordered.  Excused are entries dropped with the
\* cache, entries caught by a crash within a flush, and those the second memmove
\* of flush_write_cache runs over (open_new_indexed_file_by_name, try_recover).
FileIsFifo == Holds(given_up \cup repeated \cup spoiled)

\* What the comment on disk_full_drop_ says: whatever is in the cache when the
\* disk is full stays there until it is written (flush_write_cache).
StaysInCache == Holds(given_up \cup repeated)

\* Rolling a file, a crash, an orderly end and the recovery do not by themselves
\* lose an accepted entry: what is dropped with the cache was dropped because a
\* write or an open failed.
LossNeedsFault == spent["full"] = 0 /\ spent["errors"] = 0 => given_up = {}

\* While the disk is full the cache does not grow without bound: it holds its
\* target, the one entry that met the full disk, and a recovery marker (log_impl).
CacheBounded == TypeOK /\ Cursor <= Target + 2 + (IF Recovers THEN 1 ELSE 0)

\* No accepted entry is lost, torn, repeated or reordered without its excuse, and
\* none is dropped with the cache without a fault (FileIsFifo, LossNeedsFault).
NothingLost == FileIsFifo /\ LossNeedsFault

\* Every accepted entry reaches a log file once the disk has room again, unless
\* it was dropped with the cache (flush_write_cache is retried) or no file could
\* be opened: then only the next entry tries again (log_impl).
EventuallyWritten ==
    \A e \in 1 .. MaxEntries :
        []<>( \/ file = 0
              \/ e \notin accepted \/ e \in given_up \cup repeated \cup spoiled
              \/ ToSet(Entry(e)) \subseteq ToSet(Written) )

\* As long as a file is open, entries are accepted again some time after the
\* disk was full (disk_full_drop_ is cleared by the flush that empties the cache).
DropEndsWhileOpen == []<>(~drop \/ file = 0)

\* A full disk is overcome: EventuallyWritten and DropEndsWhileOpen.
FullDiskPasses == EventuallyWritten /\ DropEndsWhileOpen
=============================================================================
