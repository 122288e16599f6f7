----------------------------- MODULE MCXibQpLife -----------------------------
(***************************************************************************)
(* A small instance of the life of QPs for TLC.                            *)
(***************************************************************************)
EXTENDS XibQpLife
=============================================================================
