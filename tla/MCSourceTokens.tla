---------------------------- MODULE MCSourceTokens ----------------------------
(***************************************************************************)
(* Small instances of SourceTokens: two concurrent ingestion requests and  *)
(* two concurrent administrators.                                          *)
(***************************************************************************)
EXTENDS SourceTokens, TLC

RequestSymmetry == Permutations(Ingests) \union Permutations(Admins)

===============================================================================
