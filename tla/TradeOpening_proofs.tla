------------------------ MODULE TradeOpening_proofs ------------------------
(***************************************************************************)
(* What holds of TradeOpening for every number of quotes, bank accounts,   *)
(* sessions and every limit.                                               *)
(***************************************************************************)
EXTENDS TradeOpening, FiniteSetTheorems, TLAPS

(***************************************************************************)
(* Type correctness.  TypeOK is not inductive: a trade is typed because    *)
(* the request that commits it has looked at a quote and a bank account.   *)
(***************************************************************************)
Bound(r) ==
  /\ r.pc \in {"bank", "limit", "commit"} => r.quote \in Quotes
  /\ r.pc \in {"limit", "commit"} => r.bank \in Banks
RequestsBound == \A s \in Sessions : Bound(request[s])

TInv == TypeOK /\ RequestsBound

LEMMA InitTyped == Init => TInv
  BY OpeningAssumption
  DEF Init, TInv, TypeOK, RequestsBound, Bound, NoQuote, Idle, Requests,
      Users, QuoteRows, Locks

\* Records a request may change to.
LEMMA PlainTyped ==
  ASSUME NEW pc \in {"idle", "quote", "trades", "erase", "insert", "hash"}
  PROVE  [Idle EXCEPT !.pc = pc] \in Requests /\ Bound([Idle EXCEPT !.pc = pc])
  BY DEF Idle, Requests, Locks, Bound

LEMMA IdleTyped == Idle \in Requests /\ Bound(Idle)
  BY DEF Idle, Requests, Locks, Bound

LEMMA RequestStep ==
  ASSUME TInv, NEW s \in Sessions, NEW r \in Requests, Bound(r),
         request' = [request EXCEPT ![s] = r]
  PROVE  request' \in [Sessions -> Requests] /\ RequestsBound'
  BY DEF TInv, TypeOK, RequestsBound

\* A step that sends the request to another checkpoint, or ends it.
LEMMA PlainStep ==
  ASSUME TInv, NEW s \in Sessions,
         \/ Done(s)
         \/ \E pc \in {"quote", "trades", "erase", "insert", "hash"} : GoesTo(s, pc)
  PROVE  request' \in [Sessions -> Requests] /\ RequestsBound'
<1>1. CASE Done(s)
  BY <1>1, IdleTyped, RequestStep DEF Done
<1>2. CASE \E pc \in {"quote", "trades", "erase", "insert", "hash"} : GoesTo(s, pc)
  <2>1. PICK pc \in {"quote", "trades", "erase", "insert", "hash"} : GoesTo(s, pc)
    BY <1>2
  <2>2. [Idle EXCEPT !.pc = pc] \in Requests /\ Bound([Idle EXCEPT !.pc = pc])
    BY PlainTyped
  <2>. QED BY <2>1, <2>2, RequestStep DEF GoesTo
<1>. QED BY <1>1, <1>2

LEMMA RequestTyped ==
  ASSUME TInv, NEW s \in Sessions, Request(s)
  PROVE  TInv'
<1> USE OpeningAssumption
<1>1. CASE RequestEnds(s)
  BY <1>1, PlainStep DEF RequestEnds, TInv, TypeOK
<1>2. CASE enforceQuoteTierLimits(s) \/ SetupReadsUser(s) \/ FindsNoOpenTrade(s)
  <2>1. request' \in [Sessions -> Requests] /\ RequestsBound'
    BY <1>2, PlainStep DEF enforceQuoteTierLimits, SetupReadsUser, FindsNoOpenTrade
  <2>. QED BY <1>2, <2>1 DEF enforceQuoteTierLimits, SetupReadsUser, FindsNoOpenTrade, TInv, TypeOK
<1>3. CASE InsertQuote(s)
  <2> PICK q \in Quotes : quote' = [quote EXCEPT ![q].made = TRUE]
    BY <1>3 DEF InsertQuote
  <2>3. [quote[q] EXCEPT !.made = TRUE] \in QuoteRows
    BY DEF TInv, TypeOK, QuoteRows
  <2>1. request' \in [Sessions -> Requests] /\ RequestsBound'
    BY <1>3, PlainStep DEF InsertQuote
  <2>2. quote' \in [Quotes -> QuoteRows]
    BY <2>3 DEF TInv, TypeOK
  <2>. QED BY <1>3, <2>1, <2>2 DEF InsertQuote, TInv, TypeOK
<1>4. CASE \E deleting \in BOOLEAN : ReadUser(s, deleting)
  <2>1. PICK deleting \in BOOLEAN : ReadUser(s, deleting)
    BY <1>4
  <2> DEFINE r == [Idle EXCEPT !.pc = "password", !.deleting = deleting,
                               !.attempts = user.attempts, !.lock = user.lock]
  <2>2. r \in Requests /\ Bound(r)
    BY DEF TInv, TypeOK, Idle, Requests, Users, Locks, Bound
  <2>3. request' \in [Sessions -> Requests] /\ RequestsBound'
    BY <2>1, <2>2, RequestStep DEF ReadUser
  <2>. QED BY <2>1, <2>3 DEF ReadUser, TInv, TypeOK
<1>5. CASE PasswordRight(s)
  <2>1. user' \in Users
    BY <1>5 DEF PasswordRight, TInv, TypeOK, Users, Locks
  <2>2. request' \in [Sessions -> Requests] /\ RequestsBound'
    BY <1>5, PlainStep DEF PasswordRight
  <2>. QED BY <1>5, <2>1, <2>2 DEF PasswordRight, TInv, TypeOK
<1>6. CASE PasswordWrong(s)
  <2>1. request[s].attempts \in Nat
    BY DEF TInv, TypeOK, Requests
  <2> DEFINE n == request[s].attempts + 1
             l == IF n >= MaxRetries THEN "running" ELSE "none"
  <2>4. n \in Nat /\ l \in Locks
    BY <2>1 DEF Locks
  <2>5. user' = [user EXCEPT !.attempts = n, !.lock = l]
    BY <1>6 DEF PasswordWrong
  <2> HIDE DEF n, l
  <2>2. user' \in Users
    BY <2>4, <2>5 DEF TInv, TypeOK, Users
  <2>3. request' \in [Sessions -> Requests] /\ RequestsBound'
    BY <1>6, PlainStep DEF PasswordWrong
  <2>. QED BY <1>6, <2>2, <2>3 DEF PasswordWrong, TInv, TypeOK
<1>7. CASE SetupWrites(s)
  <2>1. request' \in [Sessions -> Requests] /\ RequestsBound'
    BY <1>7, PlainStep DEF SetupWrites
  <2>. QED BY <1>7, <2>1 DEF SetupWrites, TInv, TypeOK, Users, Locks
<1>8. CASE ReadQuote(s)
  <2>1. PICK q \in Quotes :
          request' = [request EXCEPT ![s] = [Idle EXCEPT !.pc = "bank", !.quote = q]]
    BY <1>8 DEF ReadQuote
  <2> DEFINE r == [Idle EXCEPT !.pc = "bank", !.quote = q]
  <2>2. r \in Requests /\ Bound(r)
    BY DEF Idle, Requests, Locks, Bound
  <2>3. request' \in [Sessions -> Requests] /\ RequestsBound'
    BY <2>1, <2>2, RequestStep
  <2>. QED BY <1>8, <2>3 DEF ReadQuote, TInv, TypeOK
<1>9. CASE ReadBankAccount(s)
  <2>1. PICK b \in Banks :
          request' = [request EXCEPT ![s] = [@ EXCEPT !.pc = "limit", !.bank = b]]
    BY <1>9 DEF ReadBankAccount, TInv, TypeOK, Requests
  <2> DEFINE r == [request[s] EXCEPT !.pc = "limit", !.bank = b]
  <2>2. r \in Requests /\ Bound(r)
    BY <1>9 DEF ReadBankAccount, At, TInv, TypeOK, RequestsBound, Requests, Bound
  <2>3. request' \in [Sessions -> Requests] /\ RequestsBound'
    BY <2>1, <2>2, RequestStep
  <2>. QED BY <1>9, <2>3 DEF ReadBankAccount, TInv, TypeOK
<1>10. CASE enforceTradeTierLimits(s)
  <2> DEFINE r == [request[s] EXCEPT !.pc = "commit"]
  <2>1. r \in Requests /\ Bound(r)
    BY <1>10 DEF enforceTradeTierLimits, At, TInv, TypeOK, RequestsBound, Requests, Bound
  <2>2. request' = [request EXCEPT ![s] = r]
    BY <1>10 DEF enforceTradeTierLimits
  <2>3. request' \in [Sessions -> Requests] /\ RequestsBound'
    BY <2>1, <2>2, RequestStep
  <2>. QED BY <1>10, <2>3 DEF enforceTradeTierLimits, TInv, TypeOK
<1>11. CASE CommitTrade(s)
  <2>1. TradeKey(s) \in Quotes \X Banks
    BY <1>11 DEF CommitTrade, TradeKey, At, TInv, RequestsBound, Bound
  <2>2. trades' \in Seq(TradeRows)
    BY <1>11, <2>1 DEF CommitTrade, TInv, TypeOK, TradeRows
  <2>3. quote' \in [Quotes -> QuoteRows]
    BY <1>11 DEF CommitTrade, TInv, TypeOK, QuoteRows
  <2>4. request' \in [Sessions -> Requests] /\ RequestsBound'
    BY <1>11, PlainStep DEF CommitTrade
  <2>. QED BY <1>11, <2>1, <2>2, <2>3, <2>4 DEF CommitTrade, TInv, TypeOK
<1>12. CASE EraseAccount(s)
  <2>1. request' \in [Sessions -> Requests] /\ RequestsBound'
    BY <1>12, PlainStep DEF EraseAccount
  <2>2. bank' \in [Banks -> {"none", "active", "archived"}]
    BY <1>12 DEF EraseAccount
  <2>. QED BY <1>12, <2>1, <2>2 DEF EraseAccount, TInv, TypeOK, Users, Locks
<1>. QED
  BY <1>1, <1>2, <1>3, <1>4, <1>5, <1>6, <1>7, <1>8, <1>9, <1>10, <1>11, <1>12 DEF Request

LEMMA NextTyped == TInv /\ [Next]_vars => TInv'
<1> SUFFICES ASSUME TInv, [Next]_vars PROVE TInv'
  OBVIOUS
<1> USE OpeningAssumption
<1>1. CASE \E s \in Sessions : Request(s)
  BY <1>1, RequestTyped
<1>2. CASE LockEnds
  BY <1>2 DEF LockEnds, TInv, TypeOK, RequestsBound, Users, Locks
<1>3. CASE \E b \in Banks : AddBankAccount(b)
  BY <1>3 DEF AddBankAccount, TInv, TypeOK, RequestsBound
<1>4. CASE \E i \in DOMAIN trades : TradeEnds(i)
  <2>1. PICK i \in DOMAIN trades, e \in FinalStatuses :
          trades' = [trades EXCEPT ![i].status = e]
    BY <1>4 DEF TradeEnds
  <2>4. trades[i] \in TradeRows
    BY DEF TInv, TypeOK
  <2>3. [trades[i] EXCEPT !.status = e] \in TradeRows
    BY <2>4 DEF TradeRows
  <2>2. trades' \in Seq(TradeRows)
    BY <2>1, <2>3 DEF TInv, TypeOK
  <2>. QED BY <1>4, <2>2 DEF TradeEnds, TInv, TypeOK, RequestsBound
<1>5. CASE ListExpired
  BY <1>5 DEF ListExpired, GetExpiredPendingQuotes, TInv, TypeOK, RequestsBound
<1>6. CASE \E q \in Quotes : QuoteLapses(q) \/ ExpireQuote(q) \/ ExpireQuoteFails(q)
  <2>2. \A q \in Quotes, b \in BOOLEAN :
          /\ [quote[q] EXCEPT !.lapsed = TRUE] \in QuoteRows
          /\ [quote[q] EXCEPT !.expired = b] \in QuoteRows
    BY DEF TInv, TypeOK, QuoteRows
  <2>1. quote' \in [Quotes -> QuoteRows]
    <3>1. CASE \E q \in Quotes : QuoteLapses(q)
      BY <3>1, <2>2 DEF QuoteLapses, TInv, TypeOK
    <3>2. CASE \E q \in Quotes : ExpireQuote(q)
      <4>1. PICK q \in Quotes : ExpireQuote(q)
        BY <3>2
      <4>2. PICK b \in BOOLEAN : quote' = [quote EXCEPT ![q].expired = b]
        BY <4>1 DEF ExpireQuote, TInv, TypeOK, QuoteRows
      <4>. QED BY <4>2, <2>2 DEF TInv, TypeOK
    <3>3. CASE \E q \in Quotes : ExpireQuoteFails(q)
      BY <3>3 DEF ExpireQuoteFails, TInv, TypeOK
    <3>. QED BY <1>6, <3>1, <3>2, <3>3
  <2>. QED BY <1>6, <2>1 DEF QuoteLapses, ExpireQuote, ExpireQuoteFails, TInv, TypeOK,
              RequestsBound
<1>7. CASE UNCHANGED vars
  BY <1>7 DEF vars, TInv, TypeOK, RequestsBound
<1>. QED BY <1>1, <1>2, <1>3, <1>4, <1>5, <1>6, <1>7 DEF Next

\* Every reachable state is well typed, requests and rows alike.
THEOREM OpeningTyped == Spec => []TypeOK
<1>1. TInv => TypeOK
  BY DEF TInv
<1>. QED BY InitTyped, NextTyped, <1>1, PTL DEF Spec
-----------------------------------------------------------------------------
(***************************************************************************)
(* Trades, keys and accepted quotes change together, in CommitTrade only;  *)
(* a trade that ends keeps its key.                                        *)
(***************************************************************************)
LEMMA TradeSteps ==
  ASSUME TInv, [Next]_vars
  PROVE  \/ /\ trades' = trades /\ keys' = keys
            /\ \A q \in Quotes : quote'[q].accepted = quote[q].accepted
         \/ \E s \in Sessions : CommitTrade(s)
         \/ /\ keys' = keys /\ quote' = quote /\ request' = request
            /\ \E i \in DOMAIN trades, e \in FinalStatuses :
                 trades[i].status = "open" /\ trades' = [trades EXCEPT ![i].status = e]
<1> USE OpeningAssumption
<1>1. ASSUME NEW s \in Sessions, InsertQuote(s)
      PROVE  \A q \in Quotes : quote'[q].accepted = quote[q].accepted
  BY <1>1 DEF InsertQuote, TInv, TypeOK, QuoteRows
<1>2. ASSUME NEW q \in Quotes, QuoteLapses(q) \/ ExpireQuote(q)
      PROVE  \A r \in Quotes : quote'[r].accepted = quote[r].accepted
  BY <1>2 DEF QuoteLapses, ExpireQuote, TInv, TypeOK, QuoteRows
<1>3. CASE \E s \in Sessions : Request(s)
  <2>1. PICK s \in Sessions : Request(s)
    BY <1>3
  <2>2. CASE InsertQuote(s)
    BY <2>2, <1>1 DEF InsertQuote
  <2>3. CASE ~InsertQuote(s) /\ ~CommitTrade(s)
    BY <2>1, <2>3 DEF Request, RequestEnds, enforceQuoteTierLimits, ReadUser, PasswordRight,
       PasswordWrong, SetupReadsUser, SetupWrites, ReadQuote, ReadBankAccount,
       enforceTradeTierLimits, FindsNoOpenTrade, EraseAccount
  <2>. QED BY <2>2, <2>3
<1>4. CASE LockEnds \/ ListExpired \/ \E b \in Banks : AddBankAccount(b)
  BY <1>4 DEF LockEnds, ListExpired, AddBankAccount
<1>5. CASE \E i \in DOMAIN trades : TradeEnds(i)
  BY <1>5 DEF TradeEnds
<1>6. CASE \E q \in Quotes : QuoteLapses(q) \/ ExpireQuote(q) \/ ExpireQuoteFails(q)
  BY <1>6, <1>2 DEF QuoteLapses, ExpireQuote, ExpireQuoteFails
<1>7. CASE UNCHANGED vars
  BY <1>7 DEF vars
<1>. QED BY <1>3, <1>4, <1>5, <1>6, <1>7 DEF Next

\* What the two ways of changing trades do to their keys.
LEMMA AppendedKeys ==
  ASSUME TInv, NEW s \in Sessions, CommitTrade(s)
  PROVE  /\ Len(trades) \in Nat
         /\ DOMAIN trades = 1..Len(trades)
         /\ DOMAIN trades' = DOMAIN trades \cup {Len(trades) + 1}
         /\ Len(trades) + 1 \notin DOMAIN trades
         /\ \A i \in DOMAIN trades : trades'[i] = trades[i]
         /\ trades'[Len(trades) + 1] = [key |-> TradeKey(s), status |-> "open"]
  BY DEF CommitTrade, TInv, TypeOK

LEMMA EndedKeys ==
  ASSUME TInv, NEW i \in DOMAIN trades, NEW e \in FinalStatuses,
         trades' = [trades EXCEPT ![i].status = e]
  PROVE  /\ DOMAIN trades' = DOMAIN trades
         /\ \A j \in DOMAIN trades : trades'[j].key = trades[j].key
         /\ \A j \in DOMAIN trades : j # i => trades'[j] = trades[j]
<1>1. \A j \in DOMAIN trades : trades[j] \in TradeRows
  BY DEF TInv, TypeOK
<1>. QED BY <1>1 DEF TradeRows

(***************************************************************************)
(* One trade for a confirmation, and accepted quotes are traded quotes:    *)
(* inductive once every trade has its key in the table of keys.            *)
(***************************************************************************)
KeysKept == \A i \in DOMAIN trades : trades[i].key \in keys
KInv == TInv /\ KeysKept /\ OneTradePerConfirmation /\ AcceptedMeansTraded

LEMMA InitKInv == Init => KInv
<1> SUFFICES ASSUME Init PROVE KInv
  OBVIOUS
<1>1. DOMAIN trades = {}
  BY DEF Init
<1>2. \A q \in Quotes : ~quote[q].accepted
  BY DEF Init, NoQuote
<1>. QED BY <1>1, <1>2, InitTyped DEF KInv, KeysKept, OneTradePerConfirmation,
            AcceptedMeansTraded, UsesOf

LEMMA NextKInv == KInv /\ [Next]_vars => KInv'
<1> SUFFICES ASSUME KInv, [Next]_vars PROVE KInv'
  OBVIOUS
<1>0. TInv /\ TInv'
  BY NextTyped DEF KInv
<1>1. CASE /\ trades' = trades /\ keys' = keys
           /\ \A q \in Quotes : quote'[q].accepted = quote[q].accepted
  BY <1>0, <1>1 DEF KInv, KeysKept, OneTradePerConfirmation, AcceptedMeansTraded, UsesOf
<1>2. CASE \E s \in Sessions : CommitTrade(s)
  <2>1. PICK s \in Sessions : CommitTrade(s)
    BY <1>2
  <2> DEFINE n == Len(trades) + 1
  <2>2. /\ DOMAIN trades' = DOMAIN trades \cup {n} /\ n \notin DOMAIN trades
        /\ \A i \in DOMAIN trades : trades'[i] = trades[i]
        /\ trades'[n] = [key |-> TradeKey(s), status |-> "open"]
    BY <1>0, <2>1, AppendedKeys
  <2>3. TradeKey(s) \notin keys /\ keys' = keys \cup {TradeKey(s)}
    BY <2>1 DEF CommitTrade
  <2>4. TradeKey(s)[1] = request[s].quote /\ request[s].quote \in Quotes
    BY <1>0, <2>1 DEF CommitTrade, TradeKey, At, TInv, RequestsBound, Bound
  <2> HIDE DEF n
  <2>8. trades'[n].key = TradeKey(s)
    BY <2>2
  <2>5. KeysKept' /\ OneTradePerConfirmation'
    BY <2>2, <2>3, <2>8 DEF KInv, KeysKept, OneTradePerConfirmation
  <2>6. ASSUME NEW q \in Quotes
        PROVE  quote'[q].accepted <=> \E i \in DOMAIN trades' : trades'[i].key[1] = q
    <3>1. CASE q = request[s].quote
      <4>1. quote'[q].accepted
        BY <1>0, <2>1, <3>1 DEF CommitTrade, TInv, TypeOK, QuoteRows
      <4>. QED BY <4>1, <3>1, <2>2, <2>4, <2>8
    <3>2. CASE q # request[s].quote
      <4>1. quote'[q] = quote[q]
        BY <2>1, <3>2, <1>0 DEF CommitTrade, TInv, TypeOK
      <4>2. quote[q].accepted <=> \E i \in DOMAIN trades : trades[i].key[1] = q
        BY DEF KInv, AcceptedMeansTraded, UsesOf
      <4>. QED BY <4>1, <4>2, <3>2, <2>2, <2>4, <2>8
    <3>. QED BY <3>1, <3>2
  <2>7. ASSUME NEW q \in Quotes
        PROVE  quote'[q].accepted <=> UsesOf(q)' # {}
    BY <2>6 DEF UsesOf
  <2>. QED BY <1>0, <2>5, <2>7 DEF KInv, AcceptedMeansTraded
<1>3. CASE /\ keys' = keys /\ quote' = quote /\ request' = request
           /\ \E i \in DOMAIN trades, e \in FinalStatuses :
                trades[i].status = "open" /\ trades' = [trades EXCEPT ![i].status = e]
  <2>1. DOMAIN trades' = DOMAIN trades /\ \A j \in DOMAIN trades : trades'[j].key = trades[j].key
    BY <1>0, <1>3, EndedKeys
  <2>. QED BY <1>0, <1>3, <2>1 DEF KInv, KeysKept, OneTradePerConfirmation,
              AcceptedMeansTraded, UsesOf
<1>. QED BY <1>0, <1>1, <1>2, <1>3, TradeSteps

\* However requests interleave, a confirmation of a quote with a bank account opens
\* one trade.
THEOREM ConfirmedOnce == Spec => []OneTradePerConfirmation
<1>1. KInv => OneTradePerConfirmation
  BY DEF KInv
<1>. QED BY InitKInv, NextKInv, <1>1, PTL DEF Spec

\* A quote is accepted if and only if a trade was created from it.
THEOREM AcceptedTraded == Spec => []AcceptedMeansTraded
<1>1. KInv => AcceptedMeansTraded
  BY DEF KInv
<1>. QED BY InitKInv, NextKInv, <1>1, PTL DEF Spec
-----------------------------------------------------------------------------
(***************************************************************************)
(* How often a quote is used.  A request that has found the quote unused   *)
(* and has not committed yet is counted with the trades: together they are *)
(* never more than the sessions, because the check finds no trade at all.  *)
(***************************************************************************)
Using(q) ==
  { s \in Sessions : request[s].pc \in {"bank", "limit", "commit"} /\ request[s].quote = q }
UseInv == \A q \in Quotes :
            Cardinality(UsesOf(q)) + Cardinality(Using(q)) <= Cardinality(Sessions)

LEMMA SessionSets ==
  ASSUME NEW S \in SUBSET Sessions
  PROVE  IsFiniteSet(S) /\ Cardinality(S) \in Nat /\ Cardinality(S) <= Cardinality(Sessions)
  BY OpeningAssumption, FS_Subset, FS_CardinalityType

LEMMA TradeSets ==
  ASSUME TInv, NEW S \in SUBSET DOMAIN trades
  PROVE  IsFiniteSet(S) /\ Cardinality(S) \in Nat
<1>1. DOMAIN trades = 1..Len(trades) /\ Len(trades) \in Nat
  BY DEF TInv, TypeOK
<1>2. IsFiniteSet(1..Len(trades))
  BY <1>1, FS_Interval
<1>. QED BY <1>1, <1>2, FS_Subset, FS_CardinalityType

\* A request enters Using(q) by reading q unused, and leaves it by committing or ending.
LEMMA UsingSteps ==
  ASSUME TInv, NEW q \in Quotes, [Next]_vars
  PROVE  Using(q)' \subseteq Using(q) \/ (Acceptable(q) /\ trades' = trades)
<1>1. CASE \E s \in Sessions : Request(s)
  <2>1. PICK s \in Sessions : Request(s)
    BY <1>1
  <2>2. ASSUME NEW r, request' = [request EXCEPT ![s] = r],
               r.pc \notin {"bank", "limit", "commit"} \/ r.quote # q
        PROVE  Using(q)' \subseteq Using(q)
    BY <2>2 DEF Using, TInv, TypeOK
  <2>3. ASSUME NEW pc \in {"idle", "quote", "trades", "erase", "insert", "hash"}
        PROVE  [Idle EXCEPT !.pc = pc].pc = pc
    BY DEF Idle
  <2>4. Idle.pc = "idle"
    BY DEF Idle
  <2>5. CASE RequestEnds(s) \/ InsertQuote(s) \/ PasswordWrong(s) \/ SetupWrites(s)
             \/ CommitTrade(s) \/ EraseAccount(s)
    BY <2>5, <2>2, <2>4 DEF RequestEnds, InsertQuote, PasswordWrong, SetupWrites, CommitTrade,
       EraseAccount, Done
  <2>6. CASE enforceQuoteTierLimits(s) \/ SetupReadsUser(s) \/ FindsNoOpenTrade(s)
             \/ PasswordRight(s)
    BY <2>6, <2>2, <2>3 DEF enforceQuoteTierLimits, SetupReadsUser, FindsNoOpenTrade,
       PasswordRight, GoesTo
  <2>7. CASE \E deleting \in BOOLEAN : ReadUser(s, deleting)
    BY <2>7, <2>2 DEF ReadUser, Idle
  <2>8. CASE ReadQuote(s)
    <3>1. PICK p \in Quotes : /\ Acceptable(p)
            /\ request' = [request EXCEPT ![s] = [Idle EXCEPT !.pc = "bank", !.quote = p]]
      BY <2>8 DEF ReadQuote
    <3>2. [Idle EXCEPT !.pc = "bank", !.quote = p].quote = p
      BY DEF Idle
    <3>. QED BY <3>1, <3>2, <2>2, <2>8 DEF ReadQuote
  <2>9. CASE ReadBankAccount(s) \/ enforceTradeTierLimits(s)
    <3>1. request[s].pc \in {"bank", "limit"} /\ request \in [Sessions -> Requests]
      BY <2>9 DEF ReadBankAccount, enforceTradeTierLimits, At, TInv, TypeOK
    <3>2. request'[s].quote = request[s].quote
      <4>1. CASE ReadBankAccount(s)
        BY <3>1, <4>1 DEF ReadBankAccount, Requests
      <4>2. CASE enforceTradeTierLimits(s)
        BY <3>1, <4>2 DEF enforceTradeTierLimits, Requests
      <4>. QED BY <2>9, <4>1, <4>2
    <3>3. \A t \in Sessions \ {s} : request'[t] = request[t]
      BY <2>9, <3>1 DEF ReadBankAccount, enforceTradeTierLimits
    <3>. QED BY <3>1, <3>2, <3>3 DEF Using
  <2>. QED BY <2>1, <2>5, <2>6, <2>7, <2>8, <2>9 DEF Request
<1>2. CASE request' = request
  BY <1>2 DEF Using
<1>3. CASE LockEnds \/ ListExpired \/ (\E b \in Banks : AddBankAccount(b)) \/ UNCHANGED vars
           \/ \E i \in DOMAIN trades : TradeEnds(i)
  BY <1>2, <1>3 DEF LockEnds, ListExpired, AddBankAccount, TradeEnds, vars
<1>4. CASE \E r \in Quotes : QuoteLapses(r) \/ ExpireQuote(r) \/ ExpireQuoteFails(r)
  BY <1>2, <1>4 DEF QuoteLapses, ExpireQuote, ExpireQuoteFails
<1>. QED BY <1>1, <1>3, <1>4 DEF Next

LEMMA NextUseInv == KInv /\ UseInv /\ [Next]_vars => UseInv'
<1> SUFFICES ASSUME KInv, UseInv, [Next]_vars, NEW q \in Quotes
             PROVE  Cardinality(UsesOf(q)') + Cardinality(Using(q)') <= Cardinality(Sessions)
  BY DEF UseInv
<1>0. TInv /\ TInv'
  BY NextTyped DEF KInv
<1>1. /\ Using(q) \in SUBSET Sessions /\ Using(q)' \in SUBSET Sessions
      /\ UsesOf(q) \in SUBSET DOMAIN trades
  BY DEF Using, UsesOf
<1>2. /\ IsFiniteSet(Using(q)) /\ Cardinality(Using(q)) \in Nat
      /\ Cardinality(Using(q)') \in Nat /\ Cardinality(Using(q)') <= Cardinality(Sessions)
      /\ IsFiniteSet(UsesOf(q)) /\ Cardinality(UsesOf(q)) \in Nat
      /\ Cardinality(Sessions) \in Nat
  BY <1>0, <1>1, SessionSets, TradeSets, OpeningAssumption, FS_CardinalityType
<1>3. Cardinality(UsesOf(q)) + Cardinality(Using(q)) <= Cardinality(Sessions)
  BY DEF UseInv
<1>4. Using(q)' \subseteq Using(q) => Cardinality(Using(q)') <= Cardinality(Using(q))
  BY <1>2, FS_Subset
<1>5. CASE UsesOf(q)' = UsesOf(q)
  <2>1. CASE Using(q)' \subseteq Using(q)
    BY <1>2, <1>3, <1>4, <1>5, <2>1
  <2>2. CASE Acceptable(q)
    <3>1. UsesOf(q) = {}
      BY <2>2 DEF Acceptable, KInv, AcceptedMeansTraded
    <3>. QED BY <3>1, <1>2, <1>5, FS_EmptySet
  <2>. QED BY <1>0, <2>1, <2>2, UsingSteps
<1>6. CASE trades' = trades
  BY <1>5, <1>6 DEF UsesOf
<1>7. CASE \E s \in Sessions : CommitTrade(s)
  <2>1. PICK s \in Sessions : CommitTrade(s)
    BY <1>7
  <2> DEFINE n == Len(trades) + 1
  <2>2. /\ DOMAIN trades' = DOMAIN trades \cup {n} /\ n \notin DOMAIN trades
        /\ \A i \in DOMAIN trades : trades'[i] = trades[i]
        /\ trades'[n] = [key |-> TradeKey(s), status |-> "open"]
    BY <1>0, <2>1, AppendedKeys
  <2>3. trades'[n].key[1] = request[s].quote
    BY <2>2 DEF TradeKey
  <2> HIDE DEF n
  <2>4. Using(q)' = Using(q) \ {s}
    BY <2>1, <1>0 DEF CommitTrade, Done, Using, Idle, TInv, TypeOK
  <2>5. CASE request[s].quote = q
    <3>1. UsesOf(q)' = UsesOf(q) \cup {n} /\ n \notin UsesOf(q)
      BY <2>2, <2>3, <2>5 DEF UsesOf
    <3>2. s \in Using(q)
      BY <2>1, <2>5 DEF CommitTrade, At, Using
    <3>3. Cardinality(UsesOf(q)') = Cardinality(UsesOf(q)) + 1
      BY <1>2, <3>1, FS_AddElement
    <3>4. Cardinality(Using(q)') = Cardinality(Using(q)) - 1
      BY <1>2, <2>4, <3>2, FS_RemoveElement
    <3>. QED BY <1>2, <1>3, <3>3, <3>4
  <2>6. CASE request[s].quote # q
    <3>1. UsesOf(q)' = UsesOf(q)
      BY <2>2, <2>3, <2>6 DEF UsesOf
    <3>. QED BY <1>5, <3>1
  <2>. QED BY <2>5, <2>6
<1>8. CASE \E i \in DOMAIN trades, e \in FinalStatuses :
             trades[i].status = "open" /\ trades' = [trades EXCEPT ![i].status = e]
  <2>1. DOMAIN trades' = DOMAIN trades /\ \A j \in DOMAIN trades : trades'[j].key = trades[j].key
    BY <1>0, <1>8, EndedKeys
  <2>. QED BY <1>5, <2>1 DEF UsesOf
<1>. QED BY <1>0, <1>6, <1>7, <1>8, TradeSteps

\* A quote is used at most once by each session, for any number of bank accounts and
\* repetitions: the weaker form of "accepted once" that the code keeps.
THEOREM QuoteUses == Spec => []QuoteUsesBounded
<1>1. Init => KInv /\ UseInv
  <2> SUFFICES ASSUME Init PROVE UseInv
    BY InitKInv
  <2>1. \A q \in Quotes : UsesOf(q) = {} /\ Using(q) = {}
    BY DEF Init, UsesOf, Using, Idle
  <2>2. Cardinality(Sessions) \in Nat
    BY OpeningAssumption, FS_CardinalityType
  <2>. QED BY <2>1, <2>2, FS_EmptySet DEF UseInv
<1>2. KInv /\ UseInv /\ [Next]_vars => (KInv /\ UseInv)'
  BY NextKInv, NextUseInv
<1>3. KInv /\ UseInv => QuoteUsesBounded
  <2> SUFFICES ASSUME KInv, UseInv, NEW q \in Quotes
               PROVE  Cardinality(UsesOf(q)) <= Cardinality(Sessions)
    BY DEF QuoteUsesBounded
  <2>1. TInv /\ UsesOf(q) \in SUBSET DOMAIN trades /\ Using(q) \in SUBSET Sessions
    BY DEF KInv, UsesOf, Using
  <2>2. /\ Cardinality(UsesOf(q)) \in Nat /\ Cardinality(Using(q)) \in Nat
        /\ Cardinality(Sessions) \in Nat
    BY <2>1, TradeSets, SessionSets, OpeningAssumption, FS_CardinalityType
  <2>. QED BY <2>2 DEF UseInv
<1>. QED BY <1>1, <1>2, <1>3, PTL DEF Spec
-----------------------------------------------------------------------------
(***************************************************************************)
(* The tier limits.  The check admits a request if one more fits; the      *)
(* requests it has admitted are counted with what they are about to write. *)
(***************************************************************************)
Reached(pc) == { s \in Sessions : request[s].pc = pc }
TradeLimitInv ==
  Cardinality(NotCancelled) + Cardinality(Reached("commit")) <= Limit + Cardinality(Sessions) - 1
QuoteLimitInv ==
  /\ IsFiniteSet(Made)
  /\ Cardinality(Made) + Cardinality(Reached("insert")) <= Limit + Cardinality(Sessions) - 1

LEMMA ReachedSteps ==
  ASSUME TInv, NEW c \in {"commit", "insert"}, [Next]_vars
  PROVE  \/ Reached(c)' \subseteq Reached(c)
         \/ c = "commit" /\ \E s \in Sessions : enforceTradeTierLimits(s)
         \/ c = "insert" /\ \E s \in Sessions : enforceQuoteTierLimits(s)
<1>1. CASE \E s \in Sessions : Request(s)
  <2>1. PICK s \in Sessions : Request(s)
    BY <1>1
  <2>2. ASSUME NEW r, request' = [request EXCEPT ![s] = r], r.pc # c
        PROVE  Reached(c)' \subseteq Reached(c)
    BY <2>2 DEF Reached, TInv, TypeOK
  <2>3. ASSUME NEW pc PROVE [Idle EXCEPT !.pc = pc].pc = pc
    BY DEF Idle
  <2>4. Idle.pc = "idle"
    BY DEF Idle
  <2>5. CASE RequestEnds(s) \/ InsertQuote(s) \/ PasswordWrong(s) \/ SetupWrites(s)
             \/ CommitTrade(s) \/ EraseAccount(s)
    BY <2>5, <2>2, <2>4 DEF RequestEnds, InsertQuote, PasswordWrong, SetupWrites, CommitTrade,
       EraseAccount, Done
  <2>6. CASE enforceQuoteTierLimits(s)
    <3>1. request' = [request EXCEPT ![s] = [Idle EXCEPT !.pc = "insert"]]
      BY <2>6 DEF enforceQuoteTierLimits, GoesTo
    <3>. QED BY <3>1, <2>2, <2>3, <2>6
  <2>7. CASE SetupReadsUser(s) \/ FindsNoOpenTrade(s) \/ PasswordRight(s)
    <3>1. PICK pc \in {"hash", "erase", "trades", "quote"} :
            request' = [request EXCEPT ![s] = [Idle EXCEPT !.pc = pc]]
      BY <2>7 DEF SetupReadsUser, FindsNoOpenTrade, PasswordRight, GoesTo
    <3>2. [Idle EXCEPT !.pc = pc].pc # c
      BY <2>3
    <3>. QED BY <3>1, <3>2, <2>2
  <2>8. CASE \E deleting \in BOOLEAN : ReadUser(s, deleting)
    <3>1. PICK deleting \in BOOLEAN : ReadUser(s, deleting)
      BY <2>8
    <3> DEFINE r == [Idle EXCEPT !.pc = "password", !.deleting = deleting,
                                 !.attempts = user.attempts, !.lock = user.lock]
    <3>2. request' = [request EXCEPT ![s] = r] /\ r.pc = "password"
      BY <3>1 DEF ReadUser, Idle
    <3> HIDE DEF r
    <3>. QED BY <3>2, <2>2
  <2>9. CASE ReadQuote(s)
    <3>1. PICK q \in Quotes :
            request' = [request EXCEPT ![s] = [Idle EXCEPT !.pc = "bank", !.quote = q]]
      BY <2>9 DEF ReadQuote
    <3>2. [Idle EXCEPT !.pc = "bank", !.quote = q].pc = "bank"
      BY DEF Idle
    <3>. QED BY <3>1, <3>2, <2>2
  <2>10. CASE ReadBankAccount(s)
    <3>1. PICK b \in Banks :
            request' = [request EXCEPT ![s] = [@ EXCEPT !.pc = "limit", !.bank = b]]
      BY <2>10 DEF ReadBankAccount, TInv, TypeOK, Requests
    <3>2. [request[s] EXCEPT !.pc = "limit", !.bank = b].pc = "limit"
      BY DEF TInv, TypeOK, Requests
    <3>. QED BY <3>1, <3>2, <2>2
  <2>11. CASE enforceTradeTierLimits(s)
    <3>1. request' = [request EXCEPT ![s] = [request[s] EXCEPT !.pc = "commit"]]
      BY <2>11 DEF enforceTradeTierLimits
    <3>2. [request[s] EXCEPT !.pc = "commit"].pc = "commit"
      BY DEF TInv, TypeOK, Requests
    <3>. QED BY <3>1, <3>2, <2>2, <2>11
  <2>. QED BY <2>1, <2>5, <2>6, <2>7, <2>8, <2>9, <2>10, <2>11 DEF Request
<1>2. CASE request' = request
  BY <1>2 DEF Reached
<1>3. CASE LockEnds \/ ListExpired \/ (\E b \in Banks : AddBankAccount(b)) \/ UNCHANGED vars
           \/ \E i \in DOMAIN trades : TradeEnds(i)
  BY <1>2, <1>3 DEF LockEnds, ListExpired, AddBankAccount, TradeEnds, vars
<1>4. CASE \E r \in Quotes : QuoteLapses(r) \/ ExpireQuote(r) \/ ExpireQuoteFails(r)
  BY <1>2, <1>4 DEF QuoteLapses, ExpireQuote, ExpireQuoteFails
<1>. QED BY <1>1, <1>3, <1>4 DEF Next

LEMMA ReachedFinite ==
  ASSUME NEW c
  PROVE  /\ IsFiniteSet(Reached(c)) /\ Cardinality(Reached(c)) \in Nat
         /\ Cardinality(Reached(c)) <= Cardinality(Sessions)
         /\ Cardinality(Reached(c)') \in Nat
         /\ Cardinality(Reached(c)') <= Cardinality(Sessions)
         /\ Reached(c)' \subseteq Reached(c)
              => Cardinality(Reached(c)') <= Cardinality(Reached(c))
<1>1. Reached(c) \in SUBSET Sessions /\ Reached(c)' \in SUBSET Sessions
  BY DEF Reached
<1>2. IsFiniteSet(Reached(c))
  BY <1>1, SessionSets
<1>. QED BY <1>1, <1>2, SessionSets, FS_Subset

\* A request that commits, or inserts its quote, leaves the set of those admitted.
LEMMA ReachedLeft ==
  ASSUME TInv, NEW s \in Sessions, NEW c \in {"commit", "insert"}, At(s, c), Done(s)
  PROVE  Cardinality(Reached(c)') = Cardinality(Reached(c)) - 1
<1>1. Reached(c)' = Reached(c) \ {s} /\ s \in Reached(c)
  BY DEF TInv, TypeOK, At, Done, Idle, Reached
<1>. QED BY <1>1, ReachedFinite, FS_RemoveElement

LEMMA LimitNumbers == Limit \in Nat /\ Cardinality(Sessions) \in Nat /\ Cardinality(Sessions) >= 1
  BY OpeningAssumption, FS_CardinalityType, FS_EmptySet

LEMMA NextTradeLimit == TInv /\ TradeLimitInv /\ [Next]_vars => TradeLimitInv'
<1> SUFFICES ASSUME TInv, TradeLimitInv, [Next]_vars PROVE TradeLimitInv'
  OBVIOUS
<1>2. IsFiniteSet(NotCancelled) /\ Cardinality(NotCancelled) \in Nat
  BY TradeSets DEF NotCancelled
<1> DEFINE before == Cardinality(Reached("commit"))
           after == Cardinality(Reached("commit")')
<1>3. /\ before \in Nat /\ after \in Nat /\ after <= Cardinality(Sessions)
      /\ Reached("commit")' \subseteq Reached("commit") => after <= before
  BY ReachedFinite
<1>4. Cardinality(NotCancelled) + before <= Limit + Cardinality(Sessions) - 1
  BY DEF TradeLimitInv
<1> HIDE DEF before, after
<1>5. SUFFICES Cardinality(NotCancelled') + after <= Limit + Cardinality(Sessions) - 1
  BY DEF TradeLimitInv, after
<1>6. CASE NotCancelled' \subseteq NotCancelled
  <2>1. /\ Cardinality(NotCancelled') \in Nat
        /\ Cardinality(NotCancelled') <= Cardinality(NotCancelled)
    BY <1>2, <1>6, FS_Subset, FS_CardinalityType
  <2>2. CASE Reached("commit")' \subseteq Reached("commit")
    BY <1>2, <1>3, <1>4, <2>1, <2>2, LimitNumbers
  <2>3. CASE \E s \in Sessions : enforceTradeTierLimits(s)
    <3>1. Cardinality(NotCancelled) + 1 <= Limit
      BY <2>3 DEF enforceTradeTierLimits, Counted, NotCancelled
    <3>. QED BY <1>2, <1>3, <2>1, <3>1, LimitNumbers
  <2>. QED BY <2>2, <2>3, ReachedSteps
<1>7. CASE trades' = trades
  BY <1>6, <1>7 DEF NotCancelled
<1>8. CASE \E s \in Sessions : CommitTrade(s)
  <2>1. PICK s \in Sessions : CommitTrade(s)
    BY <1>8
  <2> DEFINE n == Len(trades) + 1
  <2>2. /\ DOMAIN trades' = DOMAIN trades \cup {n} /\ n \notin DOMAIN trades
        /\ \A i \in DOMAIN trades : trades'[i] = trades[i]
        /\ trades'[n] = [key |-> TradeKey(s), status |-> "open"]
    BY <2>1, AppendedKeys
  <2> HIDE DEF n
  <2>3. trades'[n].status = "open"
    BY <2>2
  <2>4. NotCancelled' = NotCancelled \cup {n} /\ n \notin NotCancelled
    BY <2>2, <2>3 DEF NotCancelled
  <2>5. Cardinality(NotCancelled') = Cardinality(NotCancelled) + 1
    BY <1>2, <2>4, FS_AddElement
  <2>6. after = before - 1
    BY <2>1, ReachedLeft DEF CommitTrade, before, after
  <2>. QED BY <1>2, <1>3, <1>4, <2>5, <2>6, LimitNumbers
<1>9. CASE \E i \in DOMAIN trades, e \in FinalStatuses :
             trades[i].status = "open" /\ trades' = [trades EXCEPT ![i].status = e]
  <2>1. PICK i \in DOMAIN trades, e \in FinalStatuses :
          trades[i].status = "open" /\ trades' = [trades EXCEPT ![i].status = e]
    BY <1>9
  <2>2. DOMAIN trades' = DOMAIN trades /\ \A j \in DOMAIN trades : j # i => trades'[j] = trades[j]
    BY <2>1, EndedKeys
  <2>3. NotCancelled' \subseteq NotCancelled
    BY <2>1, <2>2 DEF NotCancelled
  <2>. QED BY <1>6, <2>3
<1>. QED BY <1>7, <1>8, <1>9, TradeSteps

\* Concurrent confirmations pass the tier limit by at most one trade for each other
\* session.
THEOREM TradeLimit == Spec => []TradeLimitOvershoot
<1>1. Init => TInv /\ TradeLimitInv
  <2> SUFFICES ASSUME Init PROVE TradeLimitInv
    BY InitTyped
  <2>1. NotCancelled = {} /\ Reached("commit") = {}
    BY DEF Init, NotCancelled, Reached, Idle
  <2>2. Cardinality(NotCancelled) = 0 /\ Cardinality(Reached("commit")) = 0
    BY <2>1, FS_EmptySet
  <2>. QED BY <2>2, LimitNumbers DEF TradeLimitInv
<1>2. TInv /\ TradeLimitInv /\ [Next]_vars => (TInv /\ TradeLimitInv)'
  BY NextTyped, NextTradeLimit
<1>3. TInv /\ TradeLimitInv => TradeLimitOvershoot
  BY TradeSets, ReachedFinite, LimitNumbers DEF TradeLimitInv, TradeLimitOvershoot, NotCancelled
<1>. QED BY <1>1, <1>2, <1>3, PTL DEF Spec

LEMMA NextQuoteLimit == TInv /\ QuoteLimitInv /\ [Next]_vars => QuoteLimitInv'
<1> SUFFICES ASSUME TInv, QuoteLimitInv, [Next]_vars PROVE QuoteLimitInv'
  OBVIOUS
<1>1. IsFiniteSet(Made) /\ Cardinality(Made) \in Nat
  BY FS_CardinalityType DEF QuoteLimitInv
<1> DEFINE before == Cardinality(Reached("insert"))
           after == Cardinality(Reached("insert")')
<1>2. /\ before \in Nat /\ after \in Nat /\ after <= Cardinality(Sessions)
      /\ Reached("insert")' \subseteq Reached("insert") => after <= before
  BY ReachedFinite
<1>3. Cardinality(Made) + before <= Limit + Cardinality(Sessions) - 1
  BY DEF QuoteLimitInv
<1> HIDE DEF before, after
<1>4. CASE \E s \in Sessions : InsertQuote(s)
  <2>1. PICK s \in Sessions, q \in Quotes \ Made :
          InsertQuote(s) /\ quote' = [quote EXCEPT ![q].made = TRUE]
    BY <1>4 DEF InsertQuote
  <2>2. Made' = Made \cup {q}
    BY <2>1 DEF Made, TInv, TypeOK, QuoteRows
  <2>3. IsFiniteSet(Made') /\ Cardinality(Made') = Cardinality(Made) + 1
    BY <1>1, <2>1, <2>2, FS_AddElement
  <2>4. after = before - 1
    BY <2>1, ReachedLeft DEF InsertQuote, before, after
  <2>. QED BY <1>1, <1>2, <1>3, <2>3, <2>4, LimitNumbers DEF QuoteLimitInv, after
<1>5. CASE ~\E s \in Sessions : InsertQuote(s)
  <2>1. ASSUME NEW s \in Sessions, CommitTrade(s) PROVE Made' = Made
    BY <2>1 DEF CommitTrade, Made, TInv, TypeOK, QuoteRows
  <2>2. ASSUME NEW q \in Quotes, QuoteLapses(q) \/ ExpireQuote(q) PROVE Made' = Made
    BY <2>2 DEF QuoteLapses, ExpireQuote, Made, TInv, TypeOK, QuoteRows
  <2>3. ASSUME quote' = quote PROVE Made' = Made
    BY <2>3 DEF Made
  <2>7. Made' = Made
    <3>1. CASE \E s \in Sessions : Request(s)
      BY <1>5, <2>1, <2>3, <3>1 DEF Request, RequestEnds, enforceQuoteTierLimits, ReadUser,
         PasswordRight, PasswordWrong, SetupReadsUser, SetupWrites, ReadQuote, ReadBankAccount,
         enforceTradeTierLimits, FindsNoOpenTrade, EraseAccount
    <3>2. CASE LockEnds \/ ListExpired \/ (\E b \in Banks : AddBankAccount(b)) \/ UNCHANGED vars
               \/ \E i \in DOMAIN trades : TradeEnds(i)
      BY <2>3, <3>2 DEF LockEnds, ListExpired, AddBankAccount, TradeEnds, vars
    <3>3. CASE \E q \in Quotes : QuoteLapses(q) \/ ExpireQuote(q) \/ ExpireQuoteFails(q)
      BY <2>2, <2>3, <3>3 DEF ExpireQuoteFails
    <3>. QED BY <3>1, <3>2, <3>3 DEF Next
  <2>8. CASE Reached("insert")' \subseteq Reached("insert")
    BY <1>1, <1>2, <1>3, <2>7, <2>8, LimitNumbers DEF QuoteLimitInv, after
  <2>9. CASE \E s \in Sessions : enforceQuoteTierLimits(s)
    <3>1. Cardinality(Made) + 1 <= Limit
      BY <2>9 DEF enforceQuoteTierLimits
    <3>. QED BY <1>1, <1>2, <2>7, <3>1, LimitNumbers DEF QuoteLimitInv, after
  <2>. QED BY <2>8, <2>9, ReachedSteps
<1>. QED BY <1>4, <1>5

\* Concurrent requests pass the limit on quotes by at most one quote for each other
\* session.
THEOREM QuoteLimit == Spec => []QuoteLimitOvershoot
<1>1. Init => TInv /\ QuoteLimitInv
  <2> SUFFICES ASSUME Init PROVE QuoteLimitInv
    BY InitTyped
  <2>1. Made = {} /\ Reached("insert") = {}
    BY DEF Init, Made, NoQuote, Reached, Idle
  <2>2. IsFiniteSet(Made) /\ Cardinality(Made) = 0 /\ Cardinality(Reached("insert")) = 0
    BY <2>1, FS_EmptySet
  <2>. QED BY <2>2, LimitNumbers DEF QuoteLimitInv
<1>2. TInv /\ QuoteLimitInv /\ [Next]_vars => (TInv /\ QuoteLimitInv)'
  BY NextTyped, NextQuoteLimit
<1>3. TInv /\ QuoteLimitInv => QuoteLimitOvershoot
  BY ReachedFinite, FS_CardinalityType, LimitNumbers DEF QuoteLimitInv, QuoteLimitOvershoot, Made
<1>. QED BY <1>1, <1>2, <1>3, PTL DEF Spec
-----------------------------------------------------------------------------
(***************************************************************************)
(* The attempts on record and the lock are always written together, and    *)
(* from one reading of the row.                                            *)
(***************************************************************************)
LEMMA NextLock == TInv /\ LockAfterRetries /\ [Next]_vars => LockAfterRetries'
<1> SUFFICES ASSUME TInv, LockAfterRetries, [Next]_vars PROVE LockAfterRetries'
  OBVIOUS
<1> USE OpeningAssumption
<1>0. /\ user \in Users /\ MaxRetries \in Nat /\ MaxRetries > 0
      /\ \A s \in Sessions : request[s].attempts \in Nat
  BY DEF TInv, TypeOK, Requests
<1>1. CASE \E s \in Sessions : PasswordRight(s) \/ SetupWrites(s) \/ EraseAccount(s)
  <2>1. CASE user' = user
    BY <2>1 DEF LockAfterRetries
  <2>2. CASE user'.attempts = 0 /\ user'.lock = "none"
    BY <1>0, <2>2 DEF LockAfterRetries
  <2>3. ASSUME NEW s \in Sessions, PasswordRight(s)
        PROVE  user' = user \/ user' = [user EXCEPT !.attempts = 0, !.lock = "none"]
    BY <2>3 DEF PasswordRight
  <2>4. ASSUME NEW s \in Sessions, SetupWrites(s) \/ EraseAccount(s)
        PROVE  user'.attempts = 0 /\ user'.lock = "none"
    <3>1. CASE SetupWrites(s)
      BY <1>0, <3>1 DEF SetupWrites, Users
    <3>2. CASE EraseAccount(s)
      BY <3>2 DEF EraseAccount
    <3>. QED BY <2>4, <3>1, <3>2
  <2>5. [user EXCEPT !.attempts = 0, !.lock = "none"].attempts = 0
        /\ [user EXCEPT !.attempts = 0, !.lock = "none"].lock = "none"
    BY <1>0 DEF Users
  <2>. QED BY <1>1, <2>1, <2>2, <2>3, <2>4, <2>5
<1>2. CASE \E s \in Sessions : PasswordWrong(s)
  BY <1>0, <1>2 DEF PasswordWrong, LockAfterRetries, Users
<1>3. CASE LockEnds
  BY <1>0, <1>3 DEF LockEnds, LockAfterRetries, Users
<1>4. CASE user' = user
  BY <1>4 DEF LockAfterRetries
<1>5. ASSUME NEW s \in Sessions, Request(s),
             ~PasswordRight(s), ~SetupWrites(s), ~EraseAccount(s), ~PasswordWrong(s)
      PROVE  user' = user
  BY <1>5 DEF Request, RequestEnds, enforceQuoteTierLimits, InsertQuote, ReadUser, SetupReadsUser,
     ReadQuote, ReadBankAccount, enforceTradeTierLimits, CommitTrade, FindsNoOpenTrade
<1>6. \/ \E s \in Sessions : Request(s)
      \/ LockEnds
      \/ user' = user
  BY DEF Next, AddBankAccount, TradeEnds, ListExpired, QuoteLapses, ExpireQuote,
     ExpireQuoteFails, vars
<1>. QED BY <1>1, <1>2, <1>3, <1>4, <1>5, <1>6

\* The lock is set exactly when the failed attempts on record have reached the limit,
\* whichever of several concurrent requests wrote the row last.
THEOREM LockAgrees == Spec => []LockAfterRetries
<1>1. Init => LockAfterRetries
  BY OpeningAssumption DEF Init, LockAfterRetries
<1>. QED BY <1>1, InitTyped, NextTyped, NextLock, PTL DEF Spec
-----------------------------------------------------------------------------
(***************************************************************************)
(* Only ExpireQuote writes expired_at, and it looks at accepted_at itself. *)
(***************************************************************************)
LEMMA NextExpiry ==
  ASSUME TInv, [Next]_vars
  PROVE  \A q \in Quotes : quote[q].accepted /\ ~quote[q].expired => ~quote'[q].expired
<1> USE OpeningAssumption
<1>0. quote \in [Quotes -> QuoteRows]
  BY DEF TInv, TypeOK
<1>1. CASE quote' = quote
  BY <1>1
<1>2. CASE \E s \in Sessions : InsertQuote(s) \/ CommitTrade(s)
  BY <1>0, <1>2 DEF InsertQuote, CommitTrade, QuoteRows
<1>3. CASE \E q \in Quotes : QuoteLapses(q) \/ ExpireQuote(q)
  BY <1>0, <1>3 DEF QuoteLapses, ExpireQuote, QuoteRows
<1>4. ASSUME NEW s \in Sessions, Request(s), ~InsertQuote(s), ~CommitTrade(s)
      PROVE  quote' = quote
  BY <1>4 DEF Request, RequestEnds, enforceQuoteTierLimits, ReadUser, PasswordRight,
     PasswordWrong, SetupReadsUser, SetupWrites, ReadQuote, ReadBankAccount,
     enforceTradeTierLimits, FindsNoOpenTrade, EraseAccount
<1>5. \/ \E s \in Sessions : Request(s)
      \/ \E q \in Quotes : QuoteLapses(q) \/ ExpireQuote(q)
      \/ quote' = quote
  BY DEF Next, LockEnds, AddBankAccount, TradeEnds, ListExpired, ExpireQuoteFails, vars
<1>. QED BY <1>1, <1>2, <1>3, <1>4, <1>5

\* However old the worker's list is, it expires no quote that has been accepted.
THEOREM AcceptedKept == Spec => AcceptedStaysUnexpired
<1>1. TInv /\ [Next]_vars =>
        [\A q \in Quotes : quote[q].accepted /\ ~quote[q].expired => ~quote'[q].expired]_vars
  BY NextExpiry
<1>. QED BY <1>1, InitTyped, NextTyped, PTL DEF Spec, AcceptedStaysUnexpired
=============================================================================
