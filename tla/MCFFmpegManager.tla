--------------------------- MODULE MCFFmpegManager ---------------------------
(***************************************************************************)
(* Instance of FFmpegManager for TLC's safety runs: content ids and        *)
(* requests are interchangeable.                                           *)
(***************************************************************************)
EXTENDS FFmpegManager, TLC

Symmetry == Permutations(Cids) \cup Permutations(Requests)
===============================================================================
