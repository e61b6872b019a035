------------------------------ MODULE Pricing ------------------------------
(***************************************************************************)
(* Where the price of a quote comes from, and how old it is when a trade   *)
(* is made at it.  Concurrent requests for quotes of one coin share a      *)
(* cached price in Redis; the exchanges and Graph may fail, and then fixed *)
(* rates are used.  A price stands for the instant an exchange showed it.  *)
(***************************************************************************)
EXTENDS Integers, FiniteSets

CONSTANTS
  Desks,          \* requests of the engine that are in progress at a time
  PriceCacheTTL,  \* instants a cached price is used
  QuoteTTL,       \* instants a quote is valid
  HasFallback,    \* BYBIT_FALLBACK_ENABLED
  Fixed,          \* a price no exchange showed
  Lag,            \* bound: instants a request takes
  MaxOffers,      \* bound: quotes, before another is asked for
  MaxTrades,      \* bound: trades, before another quote is confirmed
  MaxSecond       \* bound: of the clock

ASSUME PricingAssumption ==
  /\ PriceCacheTTL \in Nat \ {0} /\ QuoteTTL \in Nat /\ HasFallback \in BOOLEAN
  /\ Lag \in Nat /\ MaxOffers \in Nat /\ MaxTrades \in Nat /\ MaxSecond \in Nat /\ Fixed \notin Nat

VARIABLES
  second,  \* the clock
  cached,  \* price:BTCUSDT: the price and the instant it disappears (at first long ago)
  desk,    \* what each request does next, since when, and the price it holds
  offers,  \* the quotes: their price and valid_until
  traded   \* the prices of trades, with the instant of the trade

pricingVars == <<second, cached, desk, offers, traded>>

Prices == Nat \cup {Fixed}
FreeDesk == [pc |-> "free", since |-> 0, price |-> Fixed]

PricingInit ==
  /\ second = 1 /\ cached = [price |-> 1, until |-> 0]
  /\ desk = [d \in Desks |-> FreeDesk]
  /\ offers = {} /\ traded = {}

Does(d, pc) == desk[d].pc = pc
Begins(d, pc, price) == desk' = [desk EXCEPT ![d] = [pc |-> pc, since |-> second, price |-> price]]
MovesOn(d, pc) == desk' = [desk EXCEPT ![d].pc = pc]
Finds(d, pc, price) == desk' = [desk EXCEPT ![d].pc = pc, ![d].price = price]
Leaves(d) == desk' = [desk EXCEPT ![d] = FreeDesk]
Offer(price) == offers' = offers \cup {[price |-> price, until |-> second + QuoteTTL]}
-----------------------------------------------------------------------------
AskQuote(d) ==
  /\ Does(d, "free") /\ Cardinality(offers) < MaxOffers /\ Begins(d, "look", Fixed)
  /\ UNCHANGED <<second, cached, offers, traded>>

InCache == second < cached.until

\* Mutant: a price that is read stays in the cache for another period.
ReadPriceAndTouch(d) ==
  /\ Does(d, "look") /\ InCache /\ Finds(d, "rate", cached.price)
  /\ cached' = [cached EXCEPT !.until = second + PriceCacheTTL]
  /\ UNCHANGED <<second, offers, traded>>

ReadCachedPrice(d) ==
  /\ Does(d, "look") /\ InCache /\ Finds(d, "rate", cached.price)
  /\ UNCHANGED <<second, cached, offers, traded>>

\* An error of Redis is like a missing key.
MissesCache(d) ==
  /\ Does(d, "look") /\ MovesOn(d, "primary")
  /\ UNCHANGED <<second, cached, offers, traded>>

PrimaryAnswers(d) ==
  /\ Does(d, "primary") /\ Finds(d, "store", second)
  /\ UNCHANGED <<second, cached, offers, traded>>

PrimaryFails(d) ==
  /\ Does(d, "primary") /\ MovesOn(d, IF HasFallback THEN "fallback" ELSE "local")
  /\ UNCHANGED <<second, cached, offers, traded>>

\* A price of the second exchange is not cached.
FallbackAnswers(d) ==
  /\ Does(d, "fallback") /\ Finds(d, "rate", second)
  /\ UNCHANGED <<second, cached, offers, traded>>

FallbackFails(d) ==
  /\ Does(d, "fallback") /\ MovesOn(d, "local")
  /\ UNCHANGED <<second, cached, offers, traded>>

\* The entry is written after the answer, over any newer one, and its time
\* runs from the write.
StorePrice(d) ==
  /\ Does(d, "store") /\ MovesOn(d, "rate")
  /\ cached' \in {cached, [price |-> desk[d].price, until |-> second + PriceCacheTTL]}
  /\ UNCHANGED <<second, offers, traded>>

RateAnswers(d) ==
  /\ Does(d, "rate") /\ Offer(desk[d].price) /\ Leaves(d)
  /\ UNCHANGED <<second, cached, traded>>

RateFails(d) ==
  /\ Does(d, "rate") /\ MovesOn(d, "local")
  /\ UNCHANGED <<second, cached, offers, traded>>

\* generateQuote answers every failure with fixed rates.
generateFallbackQuote(d) ==
  /\ Does(d, "local") /\ Offer(Fixed) /\ Leaves(d)
  /\ UNCHANGED <<second, cached, traded>>
-----------------------------------------------------------------------------
\* A confirmation looks at valid_until when it reads the quote, before its
\* transaction.
ReadOffer(d) ==
  /\ Does(d, "free") /\ Cardinality(traded) < MaxTrades
  /\ \E o \in offers : second <= o.until /\ Begins(d, "commit", o.price)
  /\ UNCHANGED <<second, cached, offers, traded>>

CommitAtPrice(d) ==
  /\ Does(d, "commit") /\ Leaves(d)
  /\ traded' = traded \cup {[price |-> desk[d].price, at |-> second]}
  /\ UNCHANGED <<second, cached, offers>>

\* A refusal, an error or a stopped engine.
Abandons(d) ==
  /\ ~ Does(d, "free") /\ Leaves(d)
  /\ UNCHANGED <<second, cached, offers, traded>>

SecondPasses ==
  /\ second < MaxSecond
  /\ \A d \in Desks : Does(d, "free") \/ second < desk[d].since + Lag
  /\ second' = second + 1
  /\ UNCHANGED <<cached, desk, offers, traded>>

PricingNext ==
  \/ SecondPasses
  \/ \E d \in Desks :
       \/ AskQuote(d) \/ ReadCachedPrice(d) \/ MissesCache(d)
       \/ PrimaryAnswers(d) \/ PrimaryFails(d) \/ FallbackAnswers(d) \/ FallbackFails(d)
       \/ StorePrice(d) \/ RateAnswers(d) \/ RateFails(d) \/ generateFallbackQuote(d)
       \/ ReadOffer(d) \/ CommitAtPrice(d) \/ Abandons(d)

PricingSpec == PricingInit /\ [][PricingNext]_pricingVars
-----------------------------------------------------------------------------
\* The cache, the requests, the quotes and the trades are well-formed.
PricingTypeOK ==
  /\ second \in Nat /\ cached \in [price : Nat, until : Nat]
  /\ desk \in [Desks -> [pc : {"free", "look", "primary", "fallback", "store", "rate", "local",
                               "commit"}, since : Nat, price : Prices]]
  /\ offers \subseteq [price : Prices, until : Nat]
  /\ traded \subseteq [price : Prices, at : Nat]

\* A trade is made at a price an exchange showed not longer ago than a cached
\* price and a quote live, and than three requests take: the one that cached
\* the price after it was shown, the one that used it, and the confirmation,
\* which looks at valid_until before it commits.  (Fixed rates are no price.)
TradedAtRecentPrice ==
  \A t \in traded : t.price # Fixed => t.at - t.price < PriceCacheTTL + QuoteTTL + 3 * Lag
=============================================================================
