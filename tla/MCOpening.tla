----------------------------- MODULE MCOpening -----------------------------
(***************************************************************************)
(* TradeOpening and OpeningClaims for TLC.  Quotes, bank accounts and      *)
(* sessions are alike: sound for the invariants and the action property.   *)
(***************************************************************************)
EXTENDS OpeningClaims, TLC

Symmetry == Permutations(Quotes) \cup Permutations(Banks) \cup Permutations(Sessions)
=============================================================================
