--------------------------- MODULE OpeningClaims ---------------------------
(***************************************************************************)
(* What documents and messages of the repository say of quotes and account *)
(* deletion and the code, modelled in TradeOpening, does not keep.  Each   *)
(* claim is the property of one run in which TLC finds a counterexample.   *)
(***************************************************************************)
EXTENDS TradeOpening

\* "Quote accepted once only."
QuoteAcceptedOnce == \A q \in Quotes : Cardinality(UsesOf(q)) <= 1

\* "Account deletion is blocked while you still have active trades or disputes."
DeletedWithoutTrades ==
  ~user.active => \A i \in DOMAIN trades : trades[i].status # "open"
=============================================================================
