----------------------------- MODULE MCLibrary -----------------------------
(* Library on a small instance. *)
EXTENDS Library

(* open modes in use: read a file, write one, write one that is locked *)
MCModes == {{"read"}, {"read", "write", "auto_create"}, {"read", "write", "auto_create", "exclusive"}}

(* all keys collide, none does, and a chain that goes round the table's end *)
MCHashes == {[k \in CacheKeys |-> 3], [k \in CacheKeys |-> k],
             [k \in CacheKeys |-> IF k <= 2 THEN 7 ELSE 6]}

(* texts of every form and character size, at the edges of the length codes *)
Txt(a, n, p) == [ascii |-> a, wide |-> n, pairs |-> p]
MCTexts == {[form |-> "array", width |-> 1, nul |-> TRUE, text |-> Txt(3, 0, 0)],
            [form |-> "array", width |-> 2, nul |-> FALSE, text |-> Txt(42, 0, 0)],
            [form |-> "array", width |-> 4, nul |-> TRUE, text |-> Txt(1, 1, 1)],
            [form |-> "pointer", width |-> 1, nul |-> TRUE, text |-> Txt(48, 0, 0)],
            [form |-> "pointer", width |-> 4, nul |-> TRUE, text |-> Txt(43, 0, 0)],
            [form |-> "null", width |-> 2, nul |-> TRUE, text |-> Txt(0, 0, 0)],
            [form |-> "object", width |-> 1, nul |-> FALSE, text |-> Txt(0, 0, 0)],
            [form |-> "object", width |-> 1, nul |-> FALSE, text |-> Txt(8237, 0, 0)],
            [form |-> "object", width |-> 2, nul |-> FALSE, text |-> Txt(0, 60, 2)],
            [form |-> "object", width |-> 2, nul |-> FALSE, text |-> Txt(5503, 1, 0)]}
MCNumbers == {[tag |-> t, vlq |-> n] : t \in {"int16", "uint16"}, n \in {1, 3}}
             \cup {[tag |-> t, vlq |-> n] : t \in {"int32", "uint32"}, n \in {1, 5}}
             \cup {[tag |-> t, vlq |-> n] : t \in {"int64", "uint64"}, n \in {1, 9}}
             \cup {[tag |-> t, vlq |-> 0] : t \in {"null", "pointer", "int8", "float", "double"}}
MCArguments == MCTexts \cup MCNumbers

(* arguments of every size and a text with padding *)
MCFieldArgs == {[tag |-> "int8", vlq |-> 0], [tag |-> "int32", vlq |-> 5], [tag |-> "double", vlq |-> 0],
                [form |-> "array", width |-> 1, nul |-> TRUE, text |-> Txt(3, 0, 0)],
                [form |-> "object", width |-> 2, nul |-> FALSE, text |-> Txt(5, 0, 0)]}

(***************************************************************************)
(* The parts share no state: one set of names serves as handles, logging   *)
(* and logged threads, another as buffers, outputs and fetching threads.   *)
(***************************************************************************)
Symmetry == Permutations(Handles) \cup Permutations(Bufs) \cup Permutations(Paths)
=============================================================================
