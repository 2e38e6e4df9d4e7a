----------------------------- MODULE MCRetrieval -----------------------------
(* Instances of Retrieval for TLC: the configurations give threads and names  *)
(* as model values.                                                           *)
EXTENDS Retrieval, TLC
=============================================================================
