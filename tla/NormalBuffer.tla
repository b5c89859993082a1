---------------------------- MODULE NormalBuffer ----------------------------
(***************************************************************************)
(* normal_buffer.cpp over platform/posix/memory_map.cpp: a buffer mapped   *)
(* from a file of its own, or on the heap when that fails.  A mapped buffer *)
(* holds two references to its file, memory_map_file_ and the one inside   *)
(* memory_map_handle_.  The bytes of a mapped buffer are the file's.       *)
(***************************************************************************)
EXTENDS FileManager

CONSTANTS
    Bufs,       \* normal_buffer objects
    Sizes,      \* sizes asked for
    Page        \* bytes of a page

ASSUME NormalBufferAssumption ==
    Sizes \subseteq Nat \ {0} /\ Page \in Nat \ {0} /\ IsFiniteSet(Bufs)

VARIABLE nb     \* the buffers

NoBuf == [st |-> "none", file |-> NoFile, map |-> NoFile, path |-> "", mem |-> <<>>, size |-> 0]
Heap(n, bytes) == [NoBuf EXCEPT !.st = "heap", !.mem = bytes, !.size = n]

Lesser(a, b) == IF a < b THEN a ELSE b
Unset == 9      \* a byte of fresh heap memory

(* get_min_size_of_memory_map_file(0, n) *)
PageUp(n) == ((n + Page - 1) \div Page) * Page

Content(v, b) == IF b.st = "mapped" THEN v.data[InodeOf(v, b.map)] ELSE b.mem
Prefix(s, n)  == SubSeq(s, 1, Lesser(n, Len(s)))

(* what a failed attempt leaves: the file closed and removed *)
GiveUp(v, h, p) == [v |-> Unlink(Close(v, h), p), file |-> NoFile, map |-> NoFile]

(* memory_map::create_memory_map of a file of the right size: every page is  *)
(* read and written back as it is, then the mapping keeps the file open      *)
Mapped(v, h, p, fail) ==
    IF fail = "map" THEN GiveUp(v, h, p)
    ELSE [v |-> IncRef(v, h), file |-> h, map |-> h]

(* normal_buffer::create_memory_map; `fail` is the step that does not work *)
create_memory_map(v, n, p, auto, fail) ==
    LET mode == {"read", "write", "exclusive"} \cup (IF auto THEN {"auto_create"} ELSE {})
        o    == Open(v, p, mode, fail # "open")
        size == PageUp(n)
        same == Len(o.v.data[InodeOf(o.v, o.h)]) = size
        cut  == IF same THEN o.v ELSE Truncate(o.v, o.h, size, IF fail = "truncate" THEN "fails" ELSE "works")
        mp   == Mapped(cut, o.h, p, fail)
    IN  IF ~auto /\ v.link[p] = NoInode THEN [v |-> v, file |-> NoFile, map |-> NoFile]
        ELSE IF ~IsValid(o.v, o.h) THEN [v |-> Close(o.v, o.h), file |-> NoFile, map |-> NoFile]
        ELSE IF fail = "truncate" /\ ~same THEN GiveUp(cut, o.h, p)
        ELSE IF fail = "align" THEN GiveUp(Close(mp.v, mp.map), mp.file, p)
        ELSE mp

(* the constructor *)
construct(b, p, n) ==
    \E auto \in BOOLEAN, fail \in {"nothing", "open", "truncate", "map", "align"} :
        LET r == create_memory_map(w, n, p, auto, fail) IN
        /\ Call /\ nb[b].st = "none" /\ (auto => CanOpen(w, p)) /\ Fault(fail # "nothing")
        /\ w'  = r.v
        /\ nb' = [nb EXCEPT ![b] =
                     IF r.map = NoFile THEN Heap(n, [i \in 1 .. n |-> Unset])
                     ELSE [NoBuf EXCEPT !.st = "mapped", !.file = r.file, !.map = r.map,
                                        !.path = p, !.size = PageUp(n)]]
        /\ UNCHANGED hv /\ Quiet

(* the owner writes the last byte *)
fill(b, x) ==
    /\ Call /\ nb[b].st # "none" /\ Fault(FALSE)
    /\ IF nb[b].st = "heap"
       THEN nb' = [nb EXCEPT ![b].mem[nb[b].size] = x] /\ UNCHANGED w
       ELSE /\ nb[b].size \in DOMAIN Content(w, nb[b])
            /\ w' = [w EXCEPT !.data[InodeOf(w, nb[b].map)][nb[b].size] = x] /\ UNCHANGED nb
    /\ UNCHANGED hv /\ Quiet

(* mutant of Over: one byte less is copied *)
Over_late(s, saved) == [i \in 1 .. Len(s) |-> IF i < Len(saved) THEN saved[i] ELSE s[i]]

(* memcpy of the saved bytes over the first bytes of the new memory *)
Over(s, saved) == [i \in 1 .. Len(s) |-> IF i <= Len(saved) THEN saved[i] ELSE s[i]]

(* resize: a mapped buffer is saved, unmapped, its file cut and mapped again, *)
(* and goes to the heap when one of these fails                              *)
resize(b, n) ==
    \E fail \in {"nothing", "truncate", "map"} :
        LET m     == nb[b]
            saved == Prefix(Content(w, m), m.size)
            rel   == Close(w, m.map)
            size  == PageUp(n)
            cut   == Truncate(rel, m.file, size, IF fail = "truncate" THEN "fails" ELSE "works")
            r     == IF fail = "truncate" THEN GiveUp(cut, m.file, m.path) ELSE Mapped(cut, m.file, m.path, fail)
            heap  == IF m.st = "heap" THEN n ELSE size
        IN  /\ Call /\ m.st # "none" /\ n # m.size
            /\ m.st = "heap" => fail = "nothing"
            /\ Fault(fail # "nothing")
            /\ IF m.st = "mapped" /\ r.map # NoFile
               THEN /\ nb' = [nb EXCEPT ![b].size = size, ![b].map = r.map]
                    /\ w'  = [r.v EXCEPT !.data[InodeOf(r.v, r.map)] = Over(@, Prefix(saved, size))]
               ELSE /\ nb' = [nb EXCEPT ![b] = Heap(heap, Over([i \in 1 .. heap |-> Unset], Prefix(saved, heap)))]
                    /\ w'  = IF m.st = "mapped" THEN r.v ELSE w
            /\ UNCHANGED hv /\ Quiet

(* the destructor; `del` is delete_mmap_when_destruct_ *)
destruct(b) ==
    \E del \in BOOLEAN :
        LET m == nb[b] v == Close(Close(w, m.map), m.file) IN
        /\ Call /\ m.st # "none" /\ (m.st = "heap" => ~del) /\ Fault(FALSE)
        /\ w'  = IF m.st = "mapped" /\ del THEN Unlink(v, m.path) ELSE v
        /\ nb' = [nb EXCEPT ![b] = NoBuf]
        /\ UNCHANGED hv /\ Quiet

FilesInit == FmInit /\ nb = [b \in Bufs |-> NoBuf]
FilesNext ==
    \/ FmNext /\ UNCHANGED nb
    \/ \E b \in Bufs : \/ \E p \in Paths, n \in Sizes : construct(b, p, n)
                       \/ fill(b, 3) \/ destruct(b)
                       \/ \E n \in Sizes : resize(b, n)
filesvars == <<fmvars, nb>>
FilesSpec == FilesInit /\ [][FilesNext]_filesvars
-----------------------------------------------------------------------------
(* every place a handle is kept *)
Held == {<<"hv", h>> : h \in Handles} \cup {<<"task", s>> : s \in {"src", "dst"}}
        \cup {<<"file", b>> : b \in Bufs} \cup {<<"map", b>> : b \in Bufs}
At(k) == CASE k[1] = "hv"   -> hv[k[2]]
           [] k[1] = "task" -> task[k[2]]
           [] k[1] = "file" -> nb[k[2]].file
           [] OTHER         -> nb[k[2]].map

(* A descriptor is closed exactly when its last holder lets go: its count is  *)
(* the number of handles that name it plus the references that were written  *)
(* over or whose number wrapped to 0, and no handle names a slot that was     *)
(* closed or used again (file_handle's copy, move and close, dec_ref).        *)
HandlesExact ==
    /\ \A i \in OpenSlots(w) :
          w.desc[i].ref = w.lost[i] + Cardinality({k \in Held : At(k).idx = i})
    /\ \A k \in Held : At(k).idx # 0 =>
          At(k).idx \in OpenSlots(w) /\ w.desc[At(k).idx].seq = At(k).seq

(* An exclusively opened file has no other writer, is locked against other   *)
(* processes and covers every buffer mapped from it, and can be opened again *)
(* once nobody holds it - as long as no descriptor of it was closed while     *)
(* another stayed open, which takes both protections away                    *)
(* (add_file_execlusive_check, remove_file_execlusive_check).                *)
FileExclusive ==
    \A f \in Inodes :
        /\ w.cache[f] # {} => OpenOn(w, f) # {}
        /\ \A i \in OpenOn(w, f) :
              "exclusive" \in w.desc[i].mode /\ f \notin w.weak =>
                 /\ w.lock[f] = "ours"
                 /\ \A j \in OpenOn(w, f) \ {i} : w.desc[j].mode \cap {"write", "exclusive"} = {}
                 /\ \A b \in Bufs : nb[b].map.idx = i => nb[b].size <= Len(w.data[f])

(* Resizing a buffer keeps the bytes that fit, whether it stays mapped, or   *)
(* moves to the heap because its file could not be cut or mapped again       *)
(* (normal_buffer::resize).                                                  *)
ResizeKeeps ==
    [][\A b \in Bufs :
          (nb[b].st # "none" /\ nb'[b].st # "none" /\ nb'[b].size # nb[b].size
           /\ nb[b].size <= Len(Content(w, nb[b]))) =>
             LET n == Lesser(nb[b].size, nb'[b].size)
             IN  Prefix(Content(w', nb'[b]), n) = Prefix(Content(w, nb[b]), n)]_filesvars
=============================================================================
