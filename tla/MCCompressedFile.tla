--------------------------- MODULE MCCompressedFile ---------------------------
(* Constants for the model checking of CompressedFile.                      *)
EXTENDS CompressedFile

MCConfigs == {[enc |-> "plain", fp |-> 0, meta |-> 1], [enc |-> "rsa", fp |-> 1, meta |-> 1]}

\* The formats are alike.
Alike == Permutations(Formats)
=============================================================================
