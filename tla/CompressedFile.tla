---------------------------- MODULE CompressedFile ----------------------------
(***************************************************************************)
(* What a compressed file appender leaves on the disk: appender_file_-     *)
(* compressed over appender_file_binary over the write cache of            *)
(* appender_file_base (whose own crash points are AppenderFile's).         *)
(*                                                                         *)
(* A file is a header and a chain of segments, each linked from the one    *)
(* before it; a segment holds items: format templates and thread           *)
(* templates, and entries that name both by index and their time as the    *)
(* offset from the entry before.  The appender keeps the indexes and the   *)
(* last time in memory, finds them again when it goes on with a file of an *)
(* earlier run, and after a crash writes the cache found in its mapped     *)
(* file as a segment of its own.  With a public key every segment has its  *)
(* key, and what is written is combined with it byte by byte (XOR), at the *)
(* byte's place in the file.                                               *)
(*                                                                         *)
(* A file is a sequence of cells: its header, segment heads (with their    *)
(* encryption data), and units of items.  A long entry has two units, so   *)
(* that a write may end inside it; every other item has one.  The time of  *)
(* entry n is n.  Writes may find the disk full or fail, opening a file    *)
(* may find the disk full; the process may crash between any two actions,  *)
(* and so after any write of a segment's head and keys, and between the    *)
(* write of the cache and the store that takes it off the cache.           *)
(***************************************************************************)
EXTENDS Naturals, Integers, Sequences, FiniteSets, SequencesExt, FiniteSetsExt

CONSTANTS
    Formats, Threads,  \* format strings (with level and category), and threads
    Configs,           \* the configurations a start may have: records of enc
                       \* ("plain" or "rsa"), fp (the key's fingerprint) and meta
                       \* (time zone and categories)
    Cap,               \* the size of the write cache, in units
    MaxFile,           \* max_file_size_, in cells
    MaxEntries,        \* bounds: the entries,
    MaxFull,           \* writes and opens that find the disk full,
    MaxErrors,         \* writes that fail otherwise,
    MaxEnds,           \* ends of the process or of the appender,
    MaxTrouble         \* and all of these together

VARIABLES
    disk,      \* the log files in the order of their indexes, sequences of cells
    mm,        \* the mapped file: cells of the cache, finished cursor, file_path_
    ap,        \* the memory of the appender (and of log_imp: rec, listed, need)
    todo,      \* what is left of the call being executed
    alive,     \* the appender exists
    sent,      \* history: format, thread and file of the entries, in their order
    given_up,  \* history: entries dropped with the cache, or never stored
    garbled,   \* history: entries found encrypted in the mapped file, or written
               \* with the indexes of another file
    spoilt,    \* history: files with a place no reader can read on from
    twice,     \* history: entries of a cache that a crash left as it was although
               \* some of it had been written
    late,      \* history: those of them that had not been written to their end
    spent,     \* what the environment has done, against its bounds
    keys       \* the segment keys generated so far

history == <<sent, given_up, garbled, spoilt, twice, late>>
vars == <<disk, mm, ap, todo, alive, history, spent, keys>>

None == -1
May(what, bound) == spent[what] < bound /\ spent["full"] + spent["errors"] + spent["ends"] < MaxTrouble
Spend(what) == spent' = [spent EXCEPT ![what] = @ + 1]

At(step) == alive /\ todo # <<>> /\ Head(todo) = step
Then(steps) == todo' = steps \o Tail(todo)
InCall(step) == step \in ToSet(todo)

-----------------------------------------------------------------------------
(* Cells                                                                    *)

FileHeader == [k |-> "file"]
SegmentHead(type, enc) ==
    [k |-> "seg", type |-> type, enc |-> enc, fp |-> 0, key |-> 0, next |-> 0]

\* A unit of an item; by holds the (key, place) pairs it is combined with.
Unit(item, part, of) == [k |-> "unit", item |-> item, part |-> part, of |-> of, by |-> {}]
Units(item, n) == [p \in 1 .. n |-> Unit(item, p, n)]

Metadata(meta) == [k |-> "meta", meta |-> meta]
FormatTemplate(f) == [k |-> "fmt", f |-> f]
ThreadTemplate(t, i) == [k |-> "thr", t |-> t, i |-> i]
LogEntry(id, offset, f, t) == [k |-> "entry", id |-> id, off |-> offset, fi |-> f, ti |-> t]

EntriesOf(units) == {u.item.id : u \in {v \in ToSet(units) : v.item.k = "entry"}}

Cursor == Len(mm.cells)
Pending == SubSeq(mm.cells, 1, mm.finished)
Unwritten == EntriesOf(Pending) \ (twice \ late)         \* not in a file as well
Cleaned == [mm EXCEPT !.cells = <<>>, !.finished = 0]    \* clean_cache_write
FileSize == IF ap.file = 0 THEN 0 ELSE Len(disk[ap.file])

\* vernam_encrypt_32bytes_aligned on the pending units, for the place they will
\* have in the file; done twice it restores them.
Combine(cells, n, key, place) ==
    [i \in DOMAIN cells |->
        IF i <= n THEN [cells[i] EXCEPT !.by = SymDiff(@, {<<key, place + i>>})] ELSE cells[i]]

-----------------------------------------------------------------------------
(* Segments: scan_segment_topology and reading                              *)

\* A head, with the keys that an encrypted segment begins with.
HasKeys(head) == head.enc = "plain" \/ head.key # 0
IsHead(cells, p) == p \in DOMAIN cells /\ cells[p].k = "seg" /\ HasKeys(cells[p])

\* The chain of segment heads from p on, None at its end where it breaks.
Chain(cells) ==
    LET from[p \in 0 .. Len(cells) + 1] ==
            IF ~IsHead(cells, p) THEN <<None>>
            ELSE IF cells[p].next = 0 THEN <<p>>
            ELSE IF cells[p].next <= p THEN <<p, None>>
            ELSE <<p>> \o from[IF cells[p].next <= Len(cells) THEN cells[p].next ELSE 0]
    IN  IF Len(cells) <= 1 THEN <<>> ELSE from[2]

\* scan_segment_topology: a header, an unbroken chain, one key fingerprint.
Topology(cells) ==
    LET chain == Chain(cells)
        heads == {cells[chain[i]] : i \in {j \in DOMAIN chain : chain[j] # None}}
        prints == {h.fp : h \in {g \in heads : g.enc = "rsa"}}
    IN  [ok |-> cells # <<>> /\ None \notin ToSet(chain) /\ Cardinality(prints) <= 1,
         has_segment |-> chain # <<>>,
         plaintext |-> prints = {},
         prints |-> prints,
         last |-> IF chain = <<>> THEN 0 ELSE Last(chain)]

\* Whether an item that can be read begins at p, in a segment with this key that
\* ends before end.
Clear(cells, p, key) == cells[p].by = IF key = 0 THEN {} ELSE {<<key, p>>}
Readable(cells, p, end, key) ==
    /\ p < end /\ cells[p].k = "unit" /\ cells[p].part = 1 /\ p + cells[p].of <= end
    /\ \A i \in p .. p + cells[p].of - 1 :
         cells[i].k = "unit" /\ cells[i].item = cells[p].item /\ Clear(cells, i, key)

\* read_item_data, again and again: the places of the items from p on.
ItemsFrom(cells, first, end, key) ==
    LET from[p \in first .. end] ==
            IF Readable(cells, p, end, key) THEN <<p>> \o from[p + cells[p].of] ELSE <<>>
    IN  from[first]

\* The places of the items of the n-th segment, and the place they end at.
SegmentEnd(cells, n) ==
    IF cells[Chain(cells)[n]].next = 0 THEN Len(cells) + 1 ELSE cells[Chain(cells)[n]].next
SegmentItems(cells, n) ==
    LET head == Chain(cells)[n]
    IN  ItemsFrom(cells, head + 1, SegmentEnd(cells, n), cells[head].key)
ReadUpTo(cells, n) ==
    LET items == SegmentItems(cells, n)
    IN  IF items = <<>> THEN Chain(cells)[n] + 1 ELSE Last(items) + cells[Last(items)].of

AllItems(cells) ==
    FlattenSeq([n \in DOMAIN Chain(cells) |->
        LET places == SegmentItems(cells, n) IN [i \in DOMAIN places |-> cells[places[i]].item]])

\* What a reader makes of the items: the entries with their format, their thread
\* and their time.
ReadItem(r, item) ==
    CASE item.k = "meta" -> r
      [] item.k = "fmt" -> [r EXCEPT !.formats = Append(@, item.f)]
      [] item.k = "thr" -> [r EXCEPT !.threads = [@ EXCEPT ![item.i] = item.t]]
      [] item.k = "entry" ->
           [r EXCEPT !.time = @ + item.off,
                     !.out = Append(@, <<item.id,
                                         IF item.fi < Len(r.formats) THEN r.formats[item.fi + 1] ELSE None,
                                         r.threads[item.ti], r.time + item.off>>)]
Fresh == [formats |-> <<>>, threads |-> [i \in 0 .. 2 * MaxEntries |-> None], time |-> 0, out |-> <<>>]
ReadAll(items) == FoldLeft(ReadItem, Fresh, items)
Decoded(cells) ==
    LET items == IF None \in ToSet(Chain(cells)) THEN <<>> ELSE AllItems(cells)
    IN  IF items = <<>> \/ Head(items).k # "meta" THEN <<>> ELSE ReadAll(items).out

-----------------------------------------------------------------------------
(* parse_exist_log_file                                                     *)

\* An entry shorter than the window of read_item_data (VLQ_MAX_SIZE + 1 bytes)
\* that ends the file sets the end-of-file flag, and the loop ends before it.
EndsShort(cells) ==
    /\ ReadUpTo(cells, Len(Chain(cells))) > Len(cells)
    /\ Last(cells).k = "unit" /\ Last(cells).item.k = "entry" /\ Last(cells).of = 1

\* What the loop parses before it stops.
Parsed(cells) == IF EndsShort(cells) THEN Front(AllItems(cells)) ELSE AllItems(cells)

\* An item cut off by the end of the file ends the parsing without an error, and
\* so does a segment head that was never linked (its length reaches beyond it).
EndOfFile(cells) ==
    LET n == Len(Chain(cells))
        p == ReadUpTo(cells, n)
    IN  \/ p > Len(cells)
        \/ cells[p].k = "seg"
        \/ p = Len(cells) /\ cells[p].part = 1 /\ cells[p].of = 2

\* Only plaintext files with the same time zone and categories are used again.
parse_exist_log_file(cells) ==
    /\ ap.cfg.enc = "plain"
    /\ Topology(cells).ok /\ Topology(cells).has_segment /\ Topology(cells).plaintext
    /\ SegmentItems(cells, 1) # <<>> /\ Head(AllItems(cells)) = Metadata(ap.cfg.meta)
    /\ \A n \in 1 .. Len(Chain(cells)) - 1 : ReadUpTo(cells, n) = SegmentEnd(cells, n)
    /\ EndOfFile(cells)

\* Something at the end was not parsed: what follows may not be understood.
Skipped(cells) == EndsShort(cells) \/ ReadUpTo(cells, Len(Chain(cells))) <= Len(cells)

\* The memory after appender_file_compressed::reset, and after the parsing.
Reset(a) ==
    [a EXCEPT !.fidx = [f \in Formats |-> None], !.fmax = 0,
              !.tidx = [t \in Threads |-> None], !.tmax = 0, !.last = 0]
AfterParse(a, cells) ==
    LET r == ReadAll(Parsed(cells))
        last_index(f) == Max({i \in DOMAIN r.formats : r.formats[i] = f} \cup {0}) - 1
    IN  [Reset(a) EXCEPT !.fidx = [f \in Formats |-> last_index(f)],
                         !.fmax = Len(r.formats), !.last = r.time]

-----------------------------------------------------------------------------
(* log_imp::process_log_chunk, for this appender                            *)

This == Len(sent)    \* the entry being logged

Begin(append, begun) == <<"flush", "refresh", append, begun>>

\* An entry of this run; the first one begins a segment (on_log_item_new_begin).
process_new(f, t) ==
    /\ alive /\ todo = <<>> /\ Len(sent) < MaxEntries
    /\ sent' = Append(sent, [f |-> f, t |-> t, home |-> 0])
    /\ ap' = [ap EXCEPT !.rec = "recovered", !.listed = FALSE, !.need = FALSE]
    /\ todo' = (IF ap.rec = "recovered" THEN <<>> ELSE Begin("append_normal", "begun_new"))
               \o <<"log">>
    /\ UNCHANGED <<disk, mm, alive, given_up, garbled, spoilt, twice, late, spent, keys>>

\* An entry that an earlier run left in the log buffer; need is
\* recovery_appenders_need_begin_ for an appender made by reset_config.
process_recovered(f, t) ==
    /\ alive /\ todo = <<>> /\ Len(sent) < MaxEntries
    /\ ap.rec \in {"not_started", "in_recovering"}
    /\ sent' = Append(sent, [f |-> f, t |-> t, home |-> 0])
    /\ ap' = [ap EXCEPT !.rec = "in_recovering", !.need = FALSE]
    /\ todo' = (IF ap.rec = "not_started" \/ ap.need
                THEN Begin("append_log", "begun_log") ELSE <<>>) \o <<"log_recovered">>
    /\ UNCHANGED <<disk, mm, alive, given_up, garbled, spoilt, twice, late, spent, keys>>

flush_appenders_cache ==
    /\ alive /\ todo = <<>> /\ ap.file # 0 /\ (mm.finished > 0 \/ ap.drop)
    /\ todo' = <<"flush">>
    /\ UNCHANGED <<disk, mm, ap, alive, history, spent, keys>>

begun_new ==
    /\ At("begun_new") /\ Then(<<>>)
    /\ ap' = IF ap.ok THEN ap ELSE [ap EXCEPT !.file = 0]
    /\ UNCHANGED <<disk, mm, alive, history, spent, keys>>

\* on_log_item_recovery_begin: if the segment cannot be added to a file that
\* existed before, a new file is tried.
begun_log ==
    /\ At("begun_log") \/ At("begun_again")
    /\ IF ap.ok THEN ap' = [ap EXCEPT !.listed = TRUE] /\ Then(<<>>)
       ELSE IF At("begun_log") /\ ap.file # 0 /\ ~ap.new
       THEN Then(<<"open", "append_log", "begun_again">>) /\ UNCHANGED ap
       ELSE ap' = [ap EXCEPT !.file = 0] /\ Then(<<>>)
    /\ UNCHANGED <<disk, mm, alive, history, spent, keys>>

-----------------------------------------------------------------------------
(* refresh_file_handle, open_new_indexed_file_by_name and on_file_open      *)

refresh_file_handle ==
    /\ At("refresh")
    /\ Then(IF ap.file = 0 THEN <<"open">>
            ELSE IF FileSize >= MaxFile THEN <<"flush", "open">> ELSE <<>>)
    /\ UNCHANGED <<disk, mm, ap, alive, history, spent, keys>>

\* Without a previous file the last one is used again if it can be parsed.
Reusable(i) ==
    ap.file = 0 /\ i > 0 /\ Len(disk[i]) < MaxFile
    /\ (disk[i] # <<>> => parse_exist_log_file(disk[i]))
OpenIndex == IF Reusable(Len(disk)) THEN Len(disk) ELSE Len(disk) + 1

\* An entry that was about to be stored goes on with the indexes it has, whatever
\* file they are of.
Stale(opened) ==
    IF InCall("thr_store") \/ InCall("entry_store") \/ (~opened /\ InCall("fmt_store"))
    THEN {This} ELSE {}

\* The cache is dropped first.  In the destructor the call of a pure virtual
\* function ends the process.
open_new_indexed_file_by_name ==
    /\ At("open")
    /\ given_up' = given_up \cup Unwritten
    /\ LET i == OpenIndex
           old == i <= Len(disk) /\ disk[i] # <<>>
       IN  \/ /\ ~InCall("exit")
              /\ disk' = IF i > Len(disk) THEN Append(disk, <<>>) ELSE disk
              /\ mm' = [Cleaned EXCEPT !.path = i]
              /\ ap' = [IF old THEN AfterParse(ap, disk[i]) ELSE ap
                           EXCEPT !.file = i, !.new = ~old, !.key = 0]
              /\ spoilt' = spoilt \cup (IF old /\ Skipped(disk[i]) THEN {i} ELSE {})
              /\ garbled' = garbled \cup Stale(TRUE)
              /\ Then(IF old THEN <<>> ELSE <<"opened">>)
              /\ UNCHANGED <<alive, spent>>
           \/ /\ ~InCall("exit") /\ May("full", MaxFull) /\ Spend("full")
              /\ mm' = Cleaned /\ ap' = [ap EXCEPT !.file = 0] /\ Then(<<>>)
              /\ garbled' = garbled \cup Stale(FALSE)
              /\ UNCHANGED <<disk, alive, spoilt>>
           \/ /\ InCall("exit") /\ alive' = FALSE /\ todo' = <<>>
              /\ mm' = Cleaned /\ ap' = [ap EXCEPT !.ends = FALSE]
              /\ UNCHANGED <<disk, garbled, spoilt, spent>>
    /\ UNCHANGED <<sent, twice, late, keys>>

\* Mutant: the indexes of the file before are kept.
on_file_open_keeps_indexes ==
    /\ At("opened")
    /\ \/ /\ disk' = [disk EXCEPT ![ap.file] = <<FileHeader>>]
          /\ Then(<<"append_normal", "first">>) /\ UNCHANGED <<ap, spent>>
       \/ /\ May("full", MaxFull) /\ Spend("full")
          /\ ap' = [ap EXCEPT !.file = 0]
          /\ Then(<<>>) /\ UNCHANGED disk
    /\ UNCHANGED <<mm, alive, history, keys>>

\* on_file_open of a new file: the header, the first segment, the metadata; the
\* indexes begin again.
on_file_open ==
    /\ At("opened")
    /\ \/ /\ disk' = [disk EXCEPT ![ap.file] = <<FileHeader>>]
          /\ ap' = Reset(ap)
          /\ Then(<<"append_normal", "first">>) /\ UNCHANGED spent
       \/ /\ May("full", MaxFull) /\ Spend("full")
          /\ ap' = [Reset(ap) EXCEPT !.file = 0]
          /\ Then(<<>>) /\ UNCHANGED disk
    /\ UNCHANGED <<mm, alive, history, keys>>

write_metadata ==
    /\ At("first")
    /\ IF ap.ok
       THEN /\ mm' = [mm EXCEPT !.cells = @ \o Units(Metadata(ap.cfg.meta), 1), !.finished = Cursor + 1]
            /\ Then(<<"flush">>) /\ UNCHANGED ap
       ELSE /\ ap' = [ap EXCEPT !.file = 0]
            /\ Then(<<>>) /\ UNCHANGED mm
    /\ UNCHANGED <<disk, alive, history, spent, keys>>

-----------------------------------------------------------------------------
(* append_new_segment                                                       *)

SegmentType == CASE At("append_normal") -> "normal"
                 [] At("append_log") -> "recovery_by_log_buffer"
                 [] At("append_appender") -> "recovery_by_appender"

\* Mutant: the new segment is linked first.
WriteThenLinkSwapped == <<"link", "head">>

\* The head is written and synchronised before its predecessor points to it.
WriteThenLink == <<"head", "link">>

\* The conditions under which a segment may be added to the file.
MayAppend ==
    LET topology == Topology(disk[ap.file])
    IN  /\ topology.ok
        /\ topology.has_segment \/ ap.new
        /\ ap.cfg.enc = "rsa" => topology.prints \subseteq {ap.cfg.fp}
        /\ At("append_log") => ap.new \/ (ap.cfg.enc = "plain" /\ topology.plaintext)

append_new_segment ==
    /\ At("append_normal") \/ At("append_log") \/ At("append_appender")
    /\ IF ap.file # 0 /\ MayAppend
       THEN /\ ap' = [ap EXCEPT !.ok = FALSE, !.type = SegmentType, !.prev = Topology(disk[ap.file]).last,
                                !.at = FileSize + 1]
            /\ Then(WriteThenLink)
       ELSE ap' = [ap EXCEPT !.ok = FALSE] /\ Then(<<>>)
    /\ UNCHANGED <<disk, mm, alive, history, spent, keys>>

\* What is still in the cache belongs to the segment before: the rest of an entry
\* cut off by a short write, or the metadata.
Splits ==
    mm.finished > 0 /\ ((Head(mm.cells).k = "unit" /\ Head(mm.cells).part = 2)
                        \/ Head(mm.cells).item.k = "meta")

\* direct_write of the head, or a truncation and a failure.
write_segment_head ==
    /\ At("head")
    /\ \/ /\ disk' = [disk EXCEPT ![ap.file] = Append(@, SegmentHead(ap.type, ap.cfg.enc))]
          /\ Then(IF ap.cfg.enc = "rsa" THEN <<"keys">> ELSE <<>>) /\ UNCHANGED spent
       \/ /\ May("full", MaxFull) /\ Spend("full")
          /\ todo' = Tail(Tail(todo)) /\ UNCHANGED disk
    /\ UNCHANGED <<mm, ap, alive, history, keys>>

\* The four of the fingerprint and of the segment's key, or again a truncation and
\* a failure; a part of them is as good as none.
write_segment_keys ==
    /\ At("keys")
    /\ \/ /\ disk' = [disk EXCEPT ![ap.file][ap.at].fp = ap.cfg.fp, ![ap.file][ap.at].key = keys + 1]
          /\ keys' = keys + 1
          /\ Then(<<>>) /\ UNCHANGED spent
       \/ /\ May("full", MaxFull) /\ Spend("full")
          /\ disk' = [disk EXCEPT ![ap.file] = SubSeq(@, 1, ap.at - 1)]
          /\ todo' = Tail(Tail(todo)) /\ UNCHANGED keys
    /\ UNCHANGED <<mm, ap, alive, history>>

\* The predecessor's next_seg_pos; if that fails the new segment is cut off again.
link_segment ==
    /\ At("link") /\ Then(<<>>)
    /\ \/ /\ disk' = IF ap.prev = 0 THEN disk ELSE [disk EXCEPT ![ap.file][ap.prev].next = ap.at]
          /\ ap' = [ap EXCEPT !.ok = TRUE, !.key = IF ap.cfg.enc = "rsa" THEN keys ELSE 0]
          /\ spoilt' = spoilt \cup (IF Splits THEN {ap.file} ELSE {})
          /\ UNCHANGED spent
       \/ /\ ap.prev # 0 /\ May("errors", MaxErrors) /\ Spend("errors")
          /\ disk' = [disk EXCEPT ![ap.file] = SubSeq(@, 1, ap.at - 1)]
          /\ UNCHANGED <<ap, spoilt>>
    /\ UNCHANGED <<mm, alive, sent, given_up, garbled, twice, late, keys>>

-----------------------------------------------------------------------------
(* flush_write_cache, of appender_file_binary and of appender_file_base     *)


Encrypts == ap.cfg.enc = "rsa" /\ ap.key # 0 /\ mm.finished > 0

\* The pending units are encrypted where they are, in the mapped file.
flush_write_cache ==
    /\ At("flush")
    /\ IF Encrypts
       THEN /\ mm' = [mm EXCEPT !.cells = Combine(@, mm.finished, ap.key, FileSize)]
            /\ Then(<<"write", "revert">>)
       ELSE Then(<<"write">>) /\ UNCHANGED mm
    /\ UNCHANGED <<disk, ap, alive, history, spent, keys>>

\* The entries whose last unit is among the first n of the cache.
Ended(n) == EntriesOf(SelectSeq(SubSeq(mm.cells, 1, n), LAMBDA u : u.part = u.of))

\* The base's flush: all of it is written, or a part and a reason.  The
\* destructor's call is the base's, which knows no encryption.
write_cache ==
    /\ At("write") /\ ap.file # 0
    /\ \E real \in 0 .. mm.finished, err \in {"none", "full", "other"} :
         /\ CASE err = "none" -> real = mm.finished /\ UNCHANGED spent
              [] err = "full" -> real < mm.finished /\ May("full", MaxFull) /\ Spend("full")
              [] err = "other" -> real < mm.finished /\ May("errors", MaxErrors) /\ Spend("errors")
         /\ disk' = [disk EXCEPT ![ap.file] = @ \o SubSeq(mm.cells, 1, real)]
         /\ ap' = [ap EXCEPT !.real = real, !.err = err, !.wrote = Ended(real)]
         /\ Then((IF real < mm.finished THEN <<"unwritten">> ELSE <<>>)
                 \o (IF Cursor > mm.finished THEN <<"unfinished">> ELSE <<>>) \o <<"count">>)
         /\ spoilt' = spoilt \cup
               (IF InCall("exit") /\ ap.cfg.enc = "rsa" /\ real > 0 THEN {ap.file} ELSE {})
    /\ UNCHANGED <<mm, alive, sent, given_up, garbled, twice, late, keys>>

\* memmove(cache_write_, cache_write_ + by, n)
MoveDown(cells, by, n) == SubSeq(cells, by + 1, by + n) \o SubSeq(cells, n + 1, Len(cells))

\* What was not written goes to the front of the cache.
keep_unwritten ==
    /\ At("unwritten") /\ Then(<<>>)
    /\ mm' = [mm EXCEPT !.cells = MoveDown(@, ap.real, mm.finished - ap.real)]
    /\ UNCHANGED <<disk, ap, alive, history, spent, keys>>

\* So does what was not finished, over what a short write left there.
keep_unfinished ==
    /\ At("unfinished") /\ Then(<<>>)
    /\ mm' = [mm EXCEPT !.cells = MoveDown(@, mm.finished, Cursor - mm.finished)]
    /\ spoilt' = spoilt \cup (IF ap.real < mm.finished THEN {ap.file} ELSE {})
    /\ UNCHANGED <<disk, ap, alive, sent, given_up, garbled, twice, late, spent, keys>>

\* The cursors are set back, and the error is dealt with.
count_written ==
    /\ At("count")
    /\ mm' = [mm EXCEPT !.cells = SubSeq(@, 1, Cursor - ap.real), !.finished = @ - ap.real]
    /\ ap' = [ap EXCEPT !.drop = ap.err = "full" \/ (@ /\ ap.err # "none"),
                        !.real = 0, !.err = "none", !.wrote = {}]
    /\ Then(IF ap.err = "other" THEN <<"open">> ELSE <<>>)
    /\ UNCHANGED <<disk, alive, history, spent, keys>>

no_file_to_write ==
    /\ At("write") /\ ap.file = 0 /\ Then(<<>>)
    /\ UNCHANGED <<disk, mm, ap, alive, history, spent, keys>>

\* What was not written is made readable again, for the file as it is now.  If
\* the write opened another file and its own flush was short, it already is.
revert ==
    /\ At("revert") /\ Then(<<>>)
    /\ mm' = [mm EXCEPT !.cells = Combine(@, mm.finished, ap.key, FileSize)]
    /\ spoilt' = spoilt \cup
          (IF \E i \in 1 .. mm.finished : mm.cells[i].by = {} THEN {ap.file} ELSE {})
    /\ UNCHANGED <<disk, ap, alive, sent, given_up, garbled, twice, late, spent, keys>>

-----------------------------------------------------------------------------
(* appender_file_compressed::log_impl                                       *)

log_impl ==
    /\ At("log") \/ At("log_recovered")
    /\ Then(IF ap.drop \/ (At("log_recovered") /\ ~ap.listed) THEN <<>>
            ELSE <<"refresh", "fmt", "thr", "entry">>)
    /\ UNCHANGED <<disk, mm, ap, alive, history, spent, keys>>

\* alloc_write_cache flushes a cache without room; a text that still does not
\* fit makes the cache grow.
Alloc(n) == IF Cursor + n > Cap THEN <<"flush">> ELSE <<>>
Store(item, n, finish) ==
    mm' = [mm EXCEPT !.cells = @ \o Units(item, n), !.finished = IF finish THEN Cursor + n ELSE @]

\* The template caches are bounded: what a new template displaces is forgotten.
Remember(index, key, i) ==
    {[index EXCEPT ![key] = i], [k \in DOMAIN index |-> IF k = key THEN i ELSE None]}

\* The format's index, from the caches or of a new template.
find_format ==
    /\ At("fmt")
    /\ IF ap.file = 0 THEN todo' = <<>> /\ UNCHANGED ap
       ELSE IF ap.fidx[sent[This].f] # None
       THEN ap' = [ap EXCEPT !.lf = ap.fidx[sent[This].f]] /\ Then(<<>>)
       ELSE Then(Alloc(1) \o <<"fmt_store">>) /\ UNCHANGED ap
    /\ UNCHANGED <<disk, mm, alive, history, spent, keys>>

write_format_template ==
    /\ At("fmt_store") /\ Then(<<>>)
    /\ Store(FormatTemplate(sent[This].f), 1, FALSE)
    /\ \E index \in Remember(ap.fidx, sent[This].f, ap.fmax) :
         ap' = [ap EXCEPT !.lf = ap.fmax, !.fmax = @ + 1, !.fidx = index]
    /\ UNCHANGED <<disk, alive, history, spent, keys>>

find_thread ==
    /\ At("thr")
    /\ IF ap.tidx[sent[This].t] # None
       THEN ap' = [ap EXCEPT !.lt = ap.tidx[sent[This].t]] /\ Then(<<>>)
       ELSE Then(Alloc(1) \o <<"thr_store">>) /\ UNCHANGED ap
    /\ UNCHANGED <<disk, mm, alive, history, spent, keys>>

write_thread_template ==
    /\ At("thr_store") /\ Then(<<>>)
    /\ Store(ThreadTemplate(sent[This].t, ap.tmax), 1, FALSE)
    /\ \E index \in Remember(ap.tidx, sent[This].t, ap.tmax) :
         ap' = [ap EXCEPT !.lt = ap.tmax, !.tmax = @ + 1, !.tidx = index]
    /\ UNCHANGED <<disk, alive, history, spent, keys>>

\* An entry is short if it has no arguments and follows another one closely.
alloc_entry ==
    /\ At("entry")
    /\ \E n \in {1, 2} :
         /\ n = 1 => ap.last # 0
         /\ ap' = [ap EXCEPT !.n = n]
         /\ Then(Alloc(n) \o <<"entry_store">>)
    /\ UNCHANGED <<disk, mm, alive, history, spent, keys>>

write_log_entry ==
    /\ At("entry_store") /\ Then(<<>>)
    /\ Store(LogEntry(This, This - ap.last, ap.lf, ap.lt), ap.n, TRUE)
    /\ ap' = [ap EXCEPT !.last = This]
    /\ sent' = [sent EXCEPT ![This].home = mm.path]
    /\ UNCHANGED <<disk, alive, given_up, garbled, spoilt, twice, late, spent, keys>>

-----------------------------------------------------------------------------
(* The end of the process or of the appender, init_impl and try_recover     *)

Memory(cfg) ==
    [cfg |-> cfg, file |-> 0, new |-> FALSE, key |-> 0, drop |-> FALSE,
     rec |-> "not_started", listed |-> FALSE, need |-> FALSE,
     fidx |-> [f \in Formats |-> None], fmax |-> 0, tidx |-> [t \in Threads |-> None], tmax |-> 0,
     last |-> 0, lf |-> 0, lt |-> 0, n |-> 0,
     type |-> "normal", prev |-> 0, at |-> 0, ok |-> FALSE, ends |-> FALSE,
     real |-> 0, err |-> "none", wrote |-> {}]

\* A crash within a flush leaves encrypted units in the mapped file, and what was
\* written may still be in it.  It is the same before as after a step that leaves
\* the files and the cache alone.
crash ==
    /\ alive /\ May("ends", MaxEnds) /\ Spend("ends")
    /\ todo # <<>> => Head(todo) \in {"open", "opened", "first", "head", "keys", "link", "write",
                                     "unwritten", "unfinished", "count", "revert",
                                     "entry_store", "recovered"}
    /\ alive' = FALSE /\ todo' = <<>>
    /\ ap' = Memory(ap.cfg)
    /\ mm' = [mm EXCEPT !.cells = Pending]
    /\ garbled' = garbled \cup (EntriesOf(SelectSeq(Pending, LAMBDA u : u.by # {})) \ ap.wrote)
    /\ twice' = twice \cup (IF ap.real > 0 THEN EntriesOf(Pending) ELSE {})
    /\ late' = late \cup (IF ap.real > 0 THEN EntriesOf(Pending) \ ap.wrote ELSE {})
    /\ UNCHANGED <<disk, sent, given_up, spoilt, keys>>

\* ~appender_file_base: at the end of the process, or (ends) because reset_config
\* makes the appender anew; log_imp's recovery status is then kept.
destruct ==
    /\ alive /\ todo = <<>> /\ May("ends", MaxEnds) /\ Spend("ends")
    /\ mm' = IF mm.finished = 0 THEN [cells |-> <<>>, finished |-> 0, path |-> 0] ELSE mm
    /\ \E e \in BOOLEAN : ap' = [ap EXCEPT !.ends = e]
    /\ todo' = <<"write", "exit">>
    /\ UNCHANGED <<disk, alive, history, keys>>

exit ==
    /\ At("exit") /\ alive' = FALSE /\ todo' = <<>>
    /\ mm' = [mm EXCEPT !.cells = Pending]
    /\ UNCHANGED <<disk, ap, history, spent, keys>>

\* A new appender; try_recover adds a segment for the cache it finds.
init_impl ==
    /\ ~alive /\ alive' = TRUE
    /\ \E cfg \in Configs :
         LET base == [Memory(cfg) EXCEPT !.rec = IF ap.ends THEN ap.rec ELSE "not_started",
                                         !.need = ap.ends /\ ap.rec = "in_recovering"]
         IN  IF mm.path # 0 /\ mm.finished > 0
             THEN /\ ap' = [base EXCEPT !.file = mm.path]
                  /\ todo' = <<"append_appender", "recover">>
                  /\ UNCHANGED mm
             ELSE ap' = base /\ mm' = Cleaned /\ UNCHANGED todo
    /\ UNCHANGED <<disk, history, spent, keys>>

recover ==
    /\ At("recover")
    /\ IF ap.ok
       THEN Then(<<"flush", "recovered">>) /\ UNCHANGED <<mm, ap, given_up>>
       ELSE /\ Then(<<>>) /\ mm' = Cleaned /\ ap' = [ap EXCEPT !.file = 0]
            /\ given_up' = given_up \cup Unwritten
    /\ UNCHANGED <<disk, alive, sent, garbled, spoilt, twice, late, spent, keys>>

\* What could not be written is given up, and the file is closed.
recovered ==
    /\ At("recovered") /\ Then(<<>>)
    /\ mm' = Cleaned /\ ap' = [ap EXCEPT !.file = 0]
    /\ given_up' = given_up \cup Unwritten
    /\ UNCHANGED <<disk, alive, sent, garbled, spoilt, twice, late, spent, keys>>

-----------------------------------------------------------------------------
Init ==
    /\ disk = <<>> /\ mm = [cells |-> <<>>, finished |-> 0, path |-> 0]
    /\ \E cfg \in Configs : ap = Memory(cfg)
    /\ todo = <<>> /\ alive = TRUE
    /\ sent = <<>> /\ given_up = {} /\ garbled = {} /\ spoilt = {} /\ twice = {} /\ late = {}
    /\ spent = [w \in {"full", "errors", "ends"} |-> 0] /\ keys = 0

Next ==
    \/ \E f \in Formats, t \in Threads : process_new(f, t) \/ process_recovered(f, t)
    \/ flush_appenders_cache \/ begun_new \/ begun_log
    \/ refresh_file_handle \/ open_new_indexed_file_by_name \/ on_file_open \/ write_metadata
    \/ append_new_segment \/ write_segment_head \/ write_segment_keys \/ link_segment
    \/ flush_write_cache \/ write_cache \/ keep_unwritten \/ keep_unfinished \/ count_written
    \/ no_file_to_write \/ revert
    \/ log_impl \/ find_format \/ write_format_template \/ find_thread \/ write_thread_template
    \/ alloc_entry \/ write_log_entry
    \/ crash \/ destruct \/ exit \/ init_impl \/ recover \/ recovered

Spec == Init /\ [][Next]_vars

-----------------------------------------------------------------------------
(* Properties                                                               *)

Files == DOMAIN disk

\* The file as it will be once the cache is flushed.
Whole(i) ==
    IF i # ap.file THEN disk[i]
    ELSE disk[i] \o IF ap.key = 0 THEN Pending ELSE Combine(Pending, mm.finished, ap.key, FileSize)

\* The entries of a file with what was logged, in their order; without an open
\* file those in the cache wait for a recovery.
Waiting == IF ap.file = 0 THEN Unwritten ELSE {}
Expected(i) ==
    LET ids == SetToSortSeq({n \in DOMAIN sent : sent[n].home = i}
                                \ (given_up \cup garbled \cup Waiting), <)
    IN  [j \in DOMAIN ids |-> <<ids[j], sent[ids[j]].f, sent[ids[j]].t, ids[j]>>]

\* What a reader gets of a file, without the entries found encrypted and, of those
\* that a crash left in the cache after they were written, without the copies.
\* What such a crash caught half written is read with other indexes and times.
Got(i) ==
    LET all == SelectSeq(Decoded(Whole(i)), LAMBDA e : e[1] \notin garbled)
        again == {j \in DOMAIN all : all[j][1] \in twice /\ \E k \in 1 .. j - 1 : all[k][1] = all[j][1]}
        firsts == SetToSortSeq(DOMAIN all \ again, <)
    IN  [j \in DOMAIN firsts |-> all[firsts[j]]]
Exactly(entries) == [j \in DOMAIN entries |-> IF entries[j][1] \in late THEN <<entries[j][1]>> ELSE entries[j]]

\* Whatever was rolled, cut short, recovered, found again or encrypted with other
\* keys: a reader that follows the segments gets every entry of a file, with its
\* own format, thread and time, and only once.  Excused are files a reader cannot
\* read on in (a segment that splits an item or the metadata from the first
\* segment, the second memmove of flush_write_cache, an end that
\* parse_exist_log_file skips), entries stored with the indexes of a file that was
\* closed meanwhile or found encrypted in the mapped file, and, after a crash
\* between the write of the cache and the store of its cursor, copies of what was
\* in the cache, of which what had not been written to its end is there with
\* whatever format and time (append_new_segment, log_impl, flush_write_cache,
\* try_recover).
FilesDecode ==
    alive /\ todo = <<>> =>
        \A i \in Files \ spoilt : Exactly(Got(i)) = Exactly(Expected(i))

\* Between any two writes, and so after any crash, the segments of every file can
\* be followed to their end: a segment is linked only when it is there with its
\* keys.  Only a new file whose first head waits for its keys cannot, and nothing
\* is ever added to that file (append_new_segment, scan_segment_topology).
HeadAlone(cells) == Len(cells) = 2 /\ cells[2].k = "seg" /\ ~HasKeys(cells[2])
TopologyValid == \A i \in Files : disk[i] # <<>> => Topology(disk[i]).ok \/ HeadAlone(disk[i])

=============================================================================
