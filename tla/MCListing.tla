------------------------------- MODULE MCListing -------------------------------
(***************************************************************************)
(* Requests of the list differ by nothing but their slot, which no         *)
(* definition of module Listing tells apart.                               *)
(***************************************************************************)
EXTENDS Listing, TLC

MCSymmetry == Permutations(Slots)
================================================================================
