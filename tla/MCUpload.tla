------------------------------ MODULE MCUpload ------------------------------
(***************************************************************************)
(* Model values for TLC.  Clients and sessions are interchangeable: no     *)
(* operator of Upload orders them, so permuting either set maps behaviours *)
(* to behaviours.                                                          *)
(***************************************************************************)
EXTENDS UploadRefinement, TLC

Symmetry == Permutations(Flows) \cup Permutations(Sessions)
=============================================================================
