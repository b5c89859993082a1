---------------------------- MODULE MCAppenderFile ----------------------------
(* Constants for the model checking of AppenderFile.                        *)
EXTENDS AppenderFile
=============================================================================
