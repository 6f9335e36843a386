----------------------------- MODULE MCReconfig -----------------------------
(***************************************************************************)
(* DyscoReconfig for TLC.  The cfg files give the initial numbers values   *)
(* that make each direction's numbers wrap within the stream, and deltas   *)
(* of both signs.                                                          *)
(***************************************************************************)
EXTENDS DyscoReconfig
=============================================================================
