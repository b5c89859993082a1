------------------------------ MODULE Library ------------------------------
(***************************************************************************)
(* The parts under the logs that share no state with one another: the file *)
(* manager with the buffers mapped over its files, the hash map, the       *)
(* bounded cache, the format of a record, the layout of lines and the      *)
(* console.  A behaviour uses one of them.                                 *)
(***************************************************************************)
EXTENDS NormalBuffer, HashMap, BoundedCache, Layout, Console

VARIABLE part

libvars == <<part, filesvars, hmvars, bcvars, recvars, layvars, convars>>

Parts == {"files", "map", "cache", "record", "layout", "console"}

Init == /\ part \in Parts
        /\ FilesInit /\ HmInit /\ BcInit /\ RecInit /\ LayInit /\ ConInit
        (* a cache that nobody uses is any of the caches *)
        /\ part # "cache" => /\ bc.max = CHOOSE n \in MaxSizes : TRUE
                             /\ bc.hash = CHOOSE h \in Hashes : TRUE

Files      == part = "files"   /\ FilesNext /\ UNCHANGED <<part, hmvars, bcvars, recvars, layvars, convars>>
Maps       == part = "map"     /\ HmNext    /\ UNCHANGED <<part, filesvars, bcvars, recvars, layvars, convars>>
Caches     == part = "cache"   /\ BcNext    /\ UNCHANGED <<part, filesvars, hmvars, recvars, layvars, convars>>
Records    == part = "record"  /\ RecNext   /\ UNCHANGED <<part, filesvars, hmvars, bcvars, layvars, convars>>
Layouts    == part = "layout"  /\ LayNext   /\ UNCHANGED <<part, filesvars, hmvars, bcvars, recvars, convars>>
TheConsole == part = "console" /\ ConNext   /\ UNCHANGED <<part, filesvars, hmvars, bcvars, recvars, layvars>>

Next == Files \/ Maps \/ Caches \/ Records \/ Layouts \/ TheConsole

Spec == Init /\ [][Next]_libvars
-----------------------------------------------------------------------------
(* After any sequence of calls the hash map and the bounded cache find what   *)
(* was put in and nothing else (MapAgrees, CacheFinds).                      *)
TablesFind == MapAgrees /\ CacheFinds
=============================================================================
