---------------------------- MODULE MCRWSpinLock ----------------------------
(* Model checking of RWSpinLock.                                            *)
EXTENDS RWSpinLock
=============================================================================
