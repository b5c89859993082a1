----------------------------- MODULE MCGroupList -----------------------------
\* Two producers, the reader, groups of two blocks.
EXTENDS GroupList
=============================================================================
