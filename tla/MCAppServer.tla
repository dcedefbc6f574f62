---------------------------- MODULE MCAppServer ----------------------------
(***************************************************************************)
(* Small instances of AppServer for TLC.                                   *)
(***************************************************************************)
EXTENDS AppServer

CONSTANTS r1, r2
=============================================================================
