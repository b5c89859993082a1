------------------------------- MODULE MCMiso -------------------------------
\* Two threads on a ring of eight blocks, at the wrap of the cursors.
EXTENDS MisoRing

=============================================================================
