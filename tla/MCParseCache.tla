----------------------------- MODULE MCParseCache -----------------------------
(***************************************************************************)
(* ParseCache for TLC: requests are alike, and so are groups.              *)
(***************************************************************************)
EXTENDS ParseCache, TLC

Alike == Permutations(Requests) \cup Permutations(Groups)
==============================================================================
