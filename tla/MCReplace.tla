------------------------------ MODULE MCReplace -------------------------------
(***************************************************************************)
(* TLC's instance of Replace; all of it is in the .cfg file.               *)
(***************************************************************************)
EXTENDS Replace
=============================================================================
