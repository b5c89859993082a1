----------------------------- MODULE MCLogBuffer -----------------------------
(* LogBuffer with threads as model values, which are not interchanged: the   *)
(* contents of a free block name one of them.                                *)
EXTENDS LogBuffer
=============================================================================
