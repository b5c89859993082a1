---------------------------- MODULE FileManager ----------------------------
(***************************************************************************)
(* The file manager (file_manager.cpp) over the POSIX layer                *)
(* (platform/posix/file_io.cpp): reference-counted descriptor slots named  *)
(* by handles (index, sequence number), the table of exclusively opened    *)
(* files, the process's record lock on a file, and the calls on files.     *)
(*                                                                         *)
(* `w` is everything the calls share; the operators on it are the bodies   *)
(* of calls that other calls make (a move assignment closes, a copy opens  *)
(* twice), and the actions are the public calls.  All of them run under    *)
(* the manager's mutex or on one descriptor, so each is one step; the text *)
(* calls and copy_file, which let go of the mutex between their steps, are *)
(* taken in those steps by one thread, `task`, beside all the others.      *)
(* Left out: the last error number, which only messages show, and the      *)
(* flushes, which change nothing a running program can see.                *)
(***************************************************************************)
EXTENDS Naturals, FiniteSets, Sequences

CONSTANTS
    Paths,      \* normalised paths of regular files
    Inodes,     \* what the operating system gives a new file
    Handles,    \* file_handle variables of the program
    Modes,      \* the open modes in use, each a set of flags
    SeqWidth,     \* the width of seq_generator: it counts modulo this number
    FirstSeq,   \* the value seq_generator has reached
    Lengths,    \* lengths of a write and of a truncation
    CopyChunk,  \* copy_file's 10 MB
    MaxCalls,   \* bound on the calls of a behaviour
    MaxLeaks,   \* bound on copy assignments over an open handle
    MaxFaults   \* bound on failing system calls

ASSUME FileManagerAssumption ==
    /\ SeqWidth \in Nat \ {0} /\ FirstSeq \in 0 .. SeqWidth - 1
    /\ Lengths \subseteq Nat /\ CopyChunk \in Nat \ {0}
    /\ {MaxCalls, MaxLeaks, MaxFaults} \subseteq Nat
    /\ Modes \subseteq SUBSET {"read", "write", "auto_create", "exclusive"}
    /\ IsFiniteSet(Handles) /\ "no_inode" \notin Inodes

VARIABLES
    w,      \* the manager and the file system, see WorldInit
    hv,     \* the program's handle variables
    task,   \* the thread inside a text call or copy_file
    calls, leaks, faults

fmvars == <<w, hv, task, calls, leaks, faults>>

NoInode == "no_inode"
NoFile  == [idx |-> 0, seq |-> 0]
Slot0   == [inode |-> NoInode, mode |-> {}, pos |-> 0, seq |-> 0, ref |-> 0]
Idle    == [op |-> "none", at |-> "", src |-> NoFile, dst |-> NoFile, path |-> "",
            size |-> 0, done |-> 0]

(* link: the inode of a path; data: an inode's bytes; desc: the descriptor   *)
(* slots; cache: file_exclusive_cache_, {} where there is no entry; lock: the *)
(* record lock of a file; weak: ghost, the files of which a descriptor was    *)
(* closed while another stayed open; lost: ghost, references nobody holds.   *)
WorldInit == [link |-> [p \in Paths |-> NoInode], data |-> [f \in Inodes |-> <<>>],
              desc |-> <<>>, gen |-> FirstSeq, cache |-> [f \in Inodes |-> {}],
              lock |-> [f \in Inodes |-> "free"], weak |-> {}, lost |-> <<>>]

OpenSlots(v)    == {i \in DOMAIN v.desc : v.desc[i].inode # NoInode}
OpenOn(v, f)    == {i \in OpenSlots(v) : v.desc[i].inode = f}
InodeOf(v, h)   == v.desc[h.idx].inode

-----------------------------------------------------------------------------
(* close() of a descriptor of f while the slots `left` stay open: whatever    *)
(* the descriptor was, the process's record lock goes with it.               *)
RawClose(v, f, left) ==
    [v EXCEPT !.lock[f] = IF @ = "ours" THEN "free" ELSE @,
              !.weak    = IF left # {} THEN @ \cup {f} ELSE @ \ {f}]

(* remove_file_execlusive_check and close: the entry goes even when another  *)
(* descriptor of the file is still open, or when this one only read.         *)
PlatformClose(v, f, left) == RawClose([v EXCEPT !.cache[f] = {}], f, left)

(* file_descriptor::dec_ref and clear *)
DropRef(v, i) ==
    LET f == v.desc[i].inode IN
    IF v.desc[i].ref > 1
    THEN [v EXCEPT !.desc[i].ref = @ - 1]
    ELSE PlatformClose([v EXCEPT !.desc[i] = Slot0], f, OpenOn(v, f) \ {i})

(* get_file_descriptor_index_by_handle; 0 for -1 *)
IndexOf(v, h) ==
    IF h.idx \in DOMAIN v.desc /\ v.desc[h.idx].seq = h.seq THEN h.idx ELSE 0

(* file_handle::operator bool: a sequence number of 0 is no handle *)
IsOpen(h) == h.idx # 0 /\ h.seq > 0
IsValid(v, h) == IsOpen(h) /\ IndexOf(v, h) # 0

(* file_manager::close_file; a handle whose number wrapped to 0 stays open *)
Close(v, h) ==
    IF IsValid(v, h) THEN DropRef(v, h.idx)
    ELSE IF h.idx # 0 /\ IndexOf(v, h) # 0 THEN [v EXCEPT !.lost[h.idx] = @ + 1]
    ELSE v

(* file_manager::inc_ref *)
IncRef(v, h) == IF IndexOf(v, h) = 0 THEN v ELSE [v EXCEPT !.desc[h.idx].ref = @ + 1]

(* mutant of ExclusiveCheck: only the opener is asked whether it wants the file alone *)
ExclusiveCheck_by_us(v, f, m) ==
    LET excl   == "exclusive" \in m
        locked == IF excl THEN [v EXCEPT !.lock[f] = "ours"] ELSE v
        ok     == v.cache[f] = {} \/ "exclusive" \notin m
    IN  CASE m \cap {"write", "exclusive"} = {} -> [ok |-> TRUE, v |-> v]
          [] excl /\ v.lock[f] = "theirs"       -> [ok |-> FALSE, v |-> v]
          [] OTHER -> [ok |-> ok,
                       v  |-> IF v.cache[f] = {} THEN [locked EXCEPT !.cache[f] = m] ELSE locked]

(* add_file_execlusive_check: the record lock is tried first (against other  *)
(* processes only), then the table of this process.                          *)
ExclusiveCheck(v, f, m) ==
    LET excl   == "exclusive" \in m
        locked == IF excl THEN [v EXCEPT !.lock[f] = "ours"] ELSE v
        ok     == v.cache[f] = {} \/ "exclusive" \notin v.cache[f] \cup m
    IN  CASE m \cap {"write", "exclusive"} = {} -> [ok |-> TRUE, v |-> v]
          [] excl /\ v.lock[f] = "theirs"       -> [ok |-> FALSE, v |-> v]
          [] OTHER -> [ok |-> ok,
                       v  |-> IF v.cache[f] = {} THEN [locked EXCEPT !.cache[f] = m] ELSE locked]

FreeInodes(v) ==
    {f \in Inodes : OpenOn(v, f) = {} /\ v.lock[f] = "free" /\ \A p \in Paths : v.link[p] # f}

(* file_manager::open_file: the first empty slot, the directory, the file and *)
(* its exclusive check, the seek to the end, the slot's number.  `works` says *)
(* whether the directory can be made and open() succeeds.                    *)
Open(v, p, m, works) ==
    LET fresh == v.link[p] = NoInode
        f     == IF fresh THEN CHOOSE x \in FreeInodes(v) : TRUE ELSE v.link[p]
        made  == IF fresh THEN [v EXCEPT !.link[p] = f, !.data[f] = <<>>] ELSE v
        chk   == ExclusiveCheck(made, f, m)
        empty == {i \in DOMAIN v.desc : v.desc[i] = Slot0}
        i     == IF empty = {} THEN Len(v.desc) + 1 ELSE CHOOSE x \in empty : \A y \in empty : x <= y
        gen   == (v.gen + 1) % SeqWidth
        slot  == [inode |-> f, mode |-> m, pos |-> Len(made.data[f]), seq |-> gen, ref |-> 1]
    IN  IF ~works \/ (fresh /\ "auto_create" \notin m) THEN [v |-> v, h |-> NoFile]
        ELSE IF ~chk.ok THEN [v |-> RawClose(chk.v, f, OpenOn(v, f)), h |-> NoFile]
        ELSE [v |-> [chk.v EXCEPT !.gen  = gen,
                                  !.desc = IF empty = {} THEN Append(@, slot) ELSE [@ EXCEPT ![i] = slot],
                                  !.lost = IF empty = {} THEN Append(@, 0) ELSE @],
              h |-> [idx |-> i, seq |-> gen]]

(* whether Open may be tried in the bounds: a new file needs a free inode *)
CanOpen(v, p) == v.link[p] # NoInode \/ FreeInodes(v) # {}
-----------------------------------------------------------------------------
(* POSIX write at a position: a gap left by a truncation reads as zeros *)
Put(s, pos, bytes) ==
    LET n == IF pos + Len(bytes) > Len(s) THEN pos + Len(bytes) ELSE Len(s)
    IN  [i \in 1 .. n |-> IF i \in pos + 1 .. pos + Len(bytes) THEN bytes[i - pos]
                          ELSE IF i <= Len(s) THEN s[i] ELSE 0]

(* file_manager::write_file of n bytes b: the seek, then write until all of   *)
(* it is out or a call fails after k bytes.                                  *)
Write(v, h, b, n, k, opt) ==
    LET i   == h.idx
        f   == v.desc[i].inode
        pos == CASE opt = "begin" -> 0 [] opt = "end" -> Len(v.data[f]) [] OTHER -> v.desc[i].pos
    IN  IF n = 0 THEN v
        ELSE IF "write" \notin v.desc[i].mode THEN [v EXCEPT !.desc[i].pos = pos]
        ELSE [v EXCEPT !.data[f] = IF k = 0 THEN @ ELSE Put(@, pos, [j \in 1 .. k |-> b]),
                       !.desc[i].pos = pos + k]

(* file_manager::read_file: short reads are tried again up to ten times, a   *)
(* read at the end of the file gives nothing; what it returns.               *)
Reads(v, h, n) ==
    LET s == v.data[InodeOf(v, h)] pos == v.desc[h.idx].pos
        m == IF pos >= Len(s) THEN 0 ELSE IF Len(s) - pos < n THEN Len(s) - pos ELSE n
    IN  IF "read" \notin v.desc[h.idx].mode THEN <<>> ELSE SubSeq(s, pos + 1, pos + m)

(* file_manager::truncate_file: ftruncate, its size checked, seek to the end *)
Truncate(v, h, n, how) ==
    LET i == h.idx f == v.desc[i].inode IN
    IF how = "fails" \/ "write" \notin v.desc[i].mode THEN v
    ELSE [v EXCEPT !.data[f] = [j \in 1 .. n |-> IF j <= Len(@) THEN @[j] ELSE 0],
                   !.desc[i].pos = IF how = "unchecked" THEN @ ELSE n]

(* file_manager::get_file_size(path): opens the file to read, and closes it *)
SizeOf(v, p, works) ==
    IF v.link[p] = NoInode THEN [v |-> v, size |-> 0]
    ELSE LET o == Open(v, p, {"read"}, works)
         IN  [v    |-> Close(o.v, o.h),
              size |-> IF IsOpen(o.h) THEN Len(v.data[v.link[p]]) ELSE 0]

(* remove_file_or_dir of a file: the name goes, open descriptors stay *)
Unlink(v, p) == [v EXCEPT !.link[p] = NoInode]
-----------------------------------------------------------------------------
FmInit == /\ w = WorldInit /\ hv = [h \in Handles |-> NoFile] /\ task = Idle
          /\ calls = 0 /\ leaks = 0 /\ faults = 0

Call     == calls < MaxCalls /\ calls' = calls + 1
Fault(b) == faults' = faults + (IF b THEN 1 ELSE 0) /\ faults' <= MaxFaults
Quiet    == UNCHANGED <<task, leaks>>

(* h = open_file(p, m): the file is opened, then what h held is closed *)
open_file(h, p, m) ==
    \E works \in BOOLEAN :
        LET o == Open(w, p, m, works) IN
        /\ Call /\ Fault(~works) /\ CanOpen(w, p)
        /\ w' = Close(o.v, hv[h]) /\ hv' = [hv EXCEPT ![h] = o.h] /\ Quiet

(* close_file(h): h is cleared only when something was closed *)
close_file(h) ==
    /\ Call /\ IsValid(w, hv[h])
    /\ w' = DropRef(w, hv[h].idx) /\ hv' = [hv EXCEPT ![h] = NoFile] /\ Quiet /\ Fault(FALSE)

(* file_handle::invalid and the destructor: h is cleared in any case *)
invalid(h) ==
    /\ Call /\ hv[h] # NoFile
    /\ w' = Close(w, hv[h]) /\ hv' = [hv EXCEPT ![h] = NoFile] /\ Quiet /\ Fault(FALSE)

(* the copy constructor *)
copy_handle(h, g) ==
    /\ Call /\ hv[h] = NoFile /\ hv[g] # NoFile
    /\ w' = IncRef(w, hv[g]) /\ hv' = [hv EXCEPT ![h] = hv[g]] /\ Quiet /\ Fault(FALSE)

(* the copy assignment: nobody gives back what h referred to before *)
copy_assign(h, g) ==
    /\ Call /\ hv[h] # NoFile /\ hv[g] # NoFile /\ leaks < MaxLeaks
    /\ leaks' = leaks + 1
    /\ w' = LET v == IncRef(w, hv[g]) IN [v EXCEPT !.lost[hv[h].idx] = @ + 1]
    /\ hv' = [hv EXCEPT ![h] = hv[g]] /\ UNCHANGED task /\ Fault(FALSE)

(* mutant of move_handle: the handle moved from is not cleared *)
move_handle_kept(h, g) ==
    /\ Call /\ h # g /\ hv[g] # NoFile
    /\ w' = Close(w, hv[h]) /\ hv' = [hv EXCEPT ![h] = hv[g]] /\ Quiet /\ Fault(FALSE)

(* the move constructor and the move assignment *)
move_handle(h, g) ==
    /\ Call /\ h # g /\ hv[g] # NoFile
    /\ w' = Close(w, hv[h]) /\ hv' = [hv EXCEPT ![h] = hv[g], ![g] = NoFile] /\ Quiet /\ Fault(FALSE)

(* seek and write_file *)
write_file(h, n, opt) ==
    \E k \in 0 .. n :
        /\ Call /\ IsOpen(hv[h]) /\ Fault(k < n)
        /\ w' = Write(w, hv[h], 1, n, k, opt) /\ UNCHANGED hv /\ Quiet

(* read_file *)
read_file(h, n) ==
    /\ Call /\ IsOpen(hv[h]) /\ n > 0 /\ Fault(FALSE)
    /\ w' = LET got == Reads(w, hv[h], n) IN
            [w EXCEPT !.desc[hv[h].idx].pos = @ + Len(got)]
    /\ UNCHANGED hv /\ Quiet

(* truncate_file *)
truncate_file(h, n) ==
    \E how \in {"works", "fails", "unchecked"} :
        /\ Call /\ IsOpen(hv[h]) /\ Fault(how # "works")
        /\ w' = Truncate(w, hv[h], n, how) /\ UNCHANGED hv /\ Quiet

(* file_manager::get_file_size(path) *)
get_file_size(p) ==
    \E works \in BOOLEAN :
        /\ Call /\ Fault(~works) /\ w.link[p] # NoInode
        /\ w' = SizeOf(w, p, works).v /\ UNCHANGED hv /\ Quiet

(* lock_file: the record lock alone, nothing in the table *)
lock_file(h) ==
    /\ Call /\ IsOpen(hv[h]) /\ w.lock[InodeOf(w, hv[h])] = "free"
    /\ w' = [w EXCEPT !.lock[InodeOf(w, hv[h])] = "ours"] /\ UNCHANGED hv /\ Quiet /\ Fault(FALSE)

remove_file_or_dir(p) ==
    /\ Call /\ w.link[p] # NoInode /\ w' = Unlink(w, p) /\ UNCHANGED hv /\ Quiet /\ Fault(FALSE)

(* another process: locks a file nobody locks, and lets it go *)
other_process(f) ==
    /\ Call /\ \E p \in Paths : w.link[p] = f
    /\ w.lock[f] # "ours"
    /\ w' = [w EXCEPT !.lock[f] = IF @ = "free" THEN "theirs" ELSE "free"]
    /\ UNCHANGED hv /\ Quiet /\ Fault(FALSE)
-----------------------------------------------------------------------------
(* The calls that take several steps.  append_all_text and write_all_text    *)
(* open the file at its end and later write at that place.                   *)
text_begin(op, p) ==
    \E works \in BOOLEAN :
        LET o == Open(w, p, {"read", "write", "auto_create"}, works) IN
        /\ Call /\ Fault(~works) /\ task = Idle /\ CanOpen(w, p)
        /\ w'    = Close(o.v, IF IsOpen(o.h) THEN NoFile ELSE o.h)
        /\ task' = IF ~IsOpen(o.h) THEN Idle
                   ELSE [Idle EXCEPT !.op = op, !.at = IF op = "write" THEN "truncate" ELSE "text", !.dst = o.h]
        /\ UNCHANGED <<hv, leaks>>

text_truncate ==
    \E how \in {"works", "fails"} :
        /\ task.op = "write" /\ task.at = "truncate" /\ Fault(how # "works")
        /\ w' = Truncate(w, task.dst, 0, how) /\ task' = [task EXCEPT !.at = "text"]
        /\ UNCHANGED <<hv, calls, leaks>>

text_write ==
    \E k \in 0 .. 1 :
        /\ task.at = "text" /\ Fault(k < 1)
        /\ w' = Close(Write(w, task.dst, 2, 1, k, "current"), task.dst) /\ task' = Idle
        /\ UNCHANGED <<hv, calls, leaks>>

(* read_all_text: opened, read from the beginning, closed *)
read_all_text(p) ==
    \E works \in BOOLEAN :
        LET o == Open(w, p, {"read"}, works) IN
        /\ Call /\ Fault(~works) /\ CanOpen(w, p)
        /\ w' = Close(o.v, o.h) /\ UNCHANGED hv /\ Quiet

(* copy_file: the size by the path, then both files opened, then the chunks *)
copy_begin(p, q) ==
    \E works, sized \in BOOLEAN :
        LET sz == SizeOf(w, p, sized) o == Open(sz.v, p, {"read"}, works) IN
        /\ Call /\ Fault(~(works /\ sized)) /\ task = Idle /\ p # q /\ CanOpen(w, p)
        /\ w'    = IF IsOpen(o.h) THEN [o.v EXCEPT !.desc[o.h.idx].pos = 0] ELSE Close(o.v, o.h)
        /\ task' = IF ~IsOpen(o.h) THEN Idle
                   ELSE [Idle EXCEPT !.op = "copy", !.at = "open", !.src = o.h, !.path = q, !.size = sz.size]
        /\ UNCHANGED <<hv, leaks>>

copy_open ==
    \E works \in BOOLEAN :
        LET o == Open(w, task.path, {"write", "auto_create"}, works) IN
        /\ task.at = "open" /\ Fault(~works) /\ CanOpen(w, task.path)
        /\ w'    = IF IsOpen(o.h) THEN o.v ELSE Close(Close(o.v, o.h), task.src)
        /\ task' = IF IsOpen(o.h) THEN [task EXCEPT !.at = "truncate", !.dst = o.h] ELSE Idle
        /\ UNCHANGED <<hv, calls, leaks>>

copy_truncate ==
    \E how \in {"works", "fails"} :
        /\ task.op = "copy" /\ task.at = "truncate" /\ Fault(how # "works")
        /\ w' = Truncate(w, task.dst, 0, how)
        /\ task' = [task EXCEPT !.at = "chunk"]
        /\ UNCHANGED <<hv, calls, leaks>>

ChunkSize == IF task.size - task.done < CopyChunk THEN task.size - task.done ELSE CopyChunk

(* one round of the loop; a file that became shorter is read again for ever, *)
(* what write_file could not write is not noticed                            *)
copy_chunk ==
    \E good \in BOOLEAN :
        LET got == Reads(w, task.src, ChunkSize)
            rd  == [w EXCEPT !.desc[task.src.idx].pos = @ + Len(got)]
            f   == InodeOf(w, task.dst)
            out == [rd EXCEPT !.data[f] = Put(@, w.desc[task.dst.idx].pos, got),
                              !.desc[task.dst.idx].pos = @ + Len(got)]
        IN  /\ task.at = "chunk" /\ task.done < task.size /\ Fault(~good)
            /\ IF Len(got) < ChunkSize
               THEN good /\ w' = rd /\ UNCHANGED task
               ELSE /\ w' = IF good THEN out ELSE rd
                    /\ task' = [task EXCEPT !.done = @ + ChunkSize]
            /\ UNCHANGED <<hv, calls, leaks>>

copy_end ==
    /\ task.at = "chunk" /\ task.done = task.size
    /\ w' = Close(Close(w, task.src), task.dst) /\ task' = Idle
    /\ UNCHANGED <<hv, calls, leaks, faults>>

FmNext ==
    \/ \E h \in Handles : \/ \E p \in Paths, m \in Modes : open_file(h, p, m)
                          \/ close_file(h) \/ invalid(h) \/ lock_file(h)
                          \/ \E g \in Handles : copy_handle(h, g) \/ copy_assign(h, g) \/ move_handle(h, g)
                          \/ \E n \in Lengths : \/ read_file(h, n) \/ truncate_file(h, n)
                                                \/ \E opt \in {"current", "begin", "end"} : write_file(h, n, opt)
    \/ \E p \in Paths : \/ get_file_size(p) \/ remove_file_or_dir(p) \/ read_all_text(p)
                        \/ \E op \in {"append", "write"} : text_begin(op, p)
                        \/ \E q \in Paths : copy_begin(p, q)
    \/ \E f \in Inodes : other_process(f)
    \/ text_truncate \/ text_write \/ copy_open \/ copy_truncate \/ copy_chunk \/ copy_end
=============================================================================
