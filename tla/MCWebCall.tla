----------------------------- MODULE MCWebCall -----------------------------
(***************************************************************************)
(* Small instances of the web client for TLC.                               *)
(***************************************************************************)
EXTENDS WebCall, TLC
=============================================================================
