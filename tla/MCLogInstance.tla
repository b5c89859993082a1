--------------------------- MODULE MCLogInstance ---------------------------
(* Instances of LogInstance for TLC.                                       *)
EXTENDS LogInstance, TLC

MCCategoryNames == <<<<>>, <<"a", ".", "b">>>>

App(type, levels, masks, enable, dest) ==
  [type |-> type, padded |-> FALSE, levels |-> levels, masks |-> masks,
   enable |-> enable, dest |-> dest]
Snap(size, cap, levels) == [size |-> size, cap |-> cap, levels |-> levels, masks |-> {}]

(* Everything passes; a console and a file.                                *)
Open == [stack |-> None, masks |-> {}, snap |-> Snap(4, 4, None),
         apps |-> [file |-> App("text", None, {}, None, "f"),
                   con  |-> App("console", {"error"}, {}, TRUE, None)]]

(* The file becomes another one, the snapshot smaller.                     *)
Moved == [stack |-> {"all"}, masks |-> {}, snap |-> Snap(3, 3, {"error", "info"}),
          apps |-> [file |-> App("text", {"all"}, {<<"a">>}, TRUE, "g"),
                    con  |-> App("console", {"error"}, {<<"*">>}, TRUE, None)]]

(* One category, no console, a file without a name that cannot be made,    *)
(* no snapshot.                                                            *)
Narrow == [stack |-> {"error"}, masks |-> {<<"a">>}, snap |-> Snap(0, 1, None),
           apps |-> [file |-> App("text", {"error"}, {}, None, "f"),
                     more |-> App("compressed", None, {}, None, None)]]

Broken == [stack |-> {"all"}, masks |-> {}, snap |-> Snap(0, 1, None), apps |-> None]

Kind(c, l, n, t) == [cat |-> c, lvl |-> l, size |-> n, ts |-> t]
MCKinds == {Kind(1, "error", 1, 2), Kind(2, "info", 3, 1)}

MCConfigs == {Open, Moved, Narrow, Broken}
MCFirst == Open

(* A gap in a snapshot takes three writes and two takes.                   *)
MCMaxCalls == [async |-> 4, sync |-> 5]

UserSymmetry == Permutations(Users)
=============================================================================
