---------------------------- MODULE TradeOpening ----------------------------
(***************************************************************************)
(* One user's way into a trade: quotes, the transaction password, the tier *)
(* limits, the creation of the trade, the expiry of quotes that nobody     *)
(* accepted, and the deletion of the account.  What becomes of a trade     *)
(* afterwards is TradeLifecycle; here a trade is open until it ends.       *)
(*                                                                         *)
(* Each session serves one HTTP request at a time.  A request is a         *)
(* sequence of reads and checks and, at its end, one statement or          *)
(* transaction that writes: only that last step is atomic.  All quotes are *)
(* of one amount, so the tier limits count quotes and trades.              *)
(***************************************************************************)
EXTENDS Integers, FiniteSets, Sequences

CONSTANTS
  Quotes,      \* the quotes that can be made (bound)
  Banks,       \* the bank accounts that can be added (bound)
  Sessions,    \* concurrent requests
  None,        \* NULL
  Limit,       \* how many quotes, and trades, the user's tier allows in a day
  MaxRetries,  \* txnPasswordMaxRetries
  MaxAttempts, \* bound: failed attempts on record
  Ends,        \* the statuses in which a trade ends
  LegacyRoute  \* is POST /trades, which asks for no password, answered?

FinalStatuses == {"CANCELLED", "PAYOUT_COMPLETED", "PAYOUT_FAILED", "DISPUTE_CLOSED"}

ASSUME OpeningAssumption ==
  /\ IsFiniteSet(Sessions) /\ Sessions # {}
  /\ None \notin Quotes \cup Banks
  /\ {Limit, MaxRetries, MaxAttempts} \subseteq Nat
  /\ MaxRetries > 0
  /\ Ends \subseteq FinalStatuses
  /\ LegacyRoute \in BOOLEAN

VARIABLES
  user,     \* the user's row: active, a password is set, failed attempts, lock
  bank,     \* bank_accounts: not there, active or archived
  quote,    \* the quotes' rows; lapsed: valid_until has passed
  trades,   \* the trades' rows in the order of their creation
  keys,     \* financial_operation_keys of the scope trade_creation
  request,  \* what each session is doing
  expiring  \* the quotes QuoteExpiryWorker has listed and not yet handled

vars == <<user, bank, quote, trades, keys, request, expiring>>

NoQuote == [made |-> FALSE, lapsed |-> FALSE, accepted |-> FALSE, expired |-> FALSE]

Locks == {"none", "running", "over"}   \* txn_password_locked_until: NULL, ahead, past

\* pc names the next thing the request does: verify the password, look at the
\* quote, at the bank account, at the limit, commit the trade; look for open
\* trades, erase the account; insert the quote; write the new password.
Requests == [pc : {"idle", "password", "quote", "bank", "limit", "commit",
                   "trades", "erase", "insert", "hash"},
             deleting : BOOLEAN,   \* DeleteAccount, not ConfirmTrade
             attempts : Nat, lock : Locks,
             quote : Quotes \cup {None}, bank : Banks \cup {None}]
Idle == [pc |-> "idle", deleting |-> FALSE, attempts |-> 0, lock |-> "none",
         quote |-> None, bank |-> None]

Users == [active : BOOLEAN, password : BOOLEAN, attempts : Nat, lock : Locks]
QuoteRows == [made : BOOLEAN, lapsed : BOOLEAN, accepted : BOOLEAN, expired : BOOLEAN]
TradeRows == [key : Quotes \X Banks, status : {"open"} \cup FinalStatuses]

Init ==
  /\ user = [active |-> TRUE, password |-> FALSE, attempts |-> 0, lock |-> "none"]
  /\ bank = [b \in Banks |-> "none"]
  /\ quote = [q \in Quotes |-> NoQuote]
  /\ trades = <<>>
  /\ keys = {}
  /\ request = [s \in Sessions |-> Idle]
  /\ expiring = {}

At(s, pc) == request[s].pc = pc
GoesTo(s, pc) == request' = [request EXCEPT ![s] = [Idle EXCEPT !.pc = pc]]
Done(s) == request' = [request EXCEPT ![s] = Idle]
-----------------------------------------------------------------------------
(***************************************************************************)
(* A request may end at every point without further effect: a check        *)
(* refuses it, screening or monitoring asks for a review, a provider's     *)
(* preflight fails, the database reports an error, the engine stops.       *)
(***************************************************************************)
RequestEnds(s) ==
  /\ ~At(s, "idle")
  /\ Done(s)
  /\ UNCHANGED <<user, bank, quote, trades, keys, expiring>>

(***************************************************************************)
(* CreateQuote: the tier limit counts the quotes made so far; pricing,     *)
(* screening and monitoring follow, then the row is inserted.              *)
(***************************************************************************)
Made == { q \in Quotes : quote[q].made }

\* Mutant: the limit counts only the quotes still on offer.
QuoteLimitOfOffers(s) ==
  /\ At(s, "idle")
  /\ Cardinality({ q \in Made : ~quote[q].accepted }) + 1 <= Limit
  /\ GoesTo(s, "insert")
  /\ UNCHANGED <<user, bank, quote, trades, keys, expiring>>

enforceQuoteTierLimits(s) ==
  /\ At(s, "idle")
  /\ Cardinality(Made) + 1 <= Limit
  /\ GoesTo(s, "insert")
  /\ UNCHANGED <<user, bank, quote, trades, keys, expiring>>

InsertQuote(s) ==
  /\ At(s, "insert")
  /\ \E q \in Quotes \ Made : quote' = [quote EXCEPT ![q].made = TRUE]
  /\ Done(s)
  /\ UNCHANGED <<user, bank, trades, keys, expiring>>

(***************************************************************************)
(* ConfirmTrade and DeleteAccount read the user's row and verify the       *)
(* password with what they have read; a lock still running refuses.        *)
(* DeleteAccount also refuses an inactive account.  The quota of deletions *)
(* of one person is one of the refusals of RequestEnds.                    *)
(***************************************************************************)
ReadUser(s, deleting) ==
  /\ At(s, "idle")
  /\ user.password
  /\ user.lock # "running"
  /\ deleting => user.active
  /\ request' = [request EXCEPT ![s] =
       [Idle EXCEPT !.pc = "password", !.deleting = deleting,
                    !.attempts = user.attempts, !.lock = user.lock]]
  /\ UNCHANGED <<user, bank, quote, trades, keys, expiring>>

PasswordRight(s) ==
  /\ At(s, "password")
  /\ user' = IF request[s].attempts # 0 \/ request[s].lock # "none"
             THEN [user EXCEPT !.attempts = 0, !.lock = "none"] ELSE user
  /\ GoesTo(s, IF request[s].deleting THEN "trades" ELSE "quote")
  /\ UNCHANGED <<bank, quote, trades, keys, expiring>>

\* Mutant: one attempt too many before the lock.
PasswordWrongLate(s) ==
  /\ At(s, "password")
  /\ request[s].attempts < MaxAttempts
  /\ LET next == request[s].attempts + 1 IN
       user' = [user EXCEPT !.attempts = next,
                            !.lock = IF next > MaxRetries THEN "running" ELSE "none"]
  /\ Done(s)
  /\ UNCHANGED <<bank, quote, trades, keys, expiring>>

PasswordWrong(s) ==
  /\ At(s, "password")
  /\ request[s].attempts < MaxAttempts
  /\ LET next == request[s].attempts + 1 IN
       user' = [user EXCEPT !.attempts = next,
                            !.lock = IF next >= MaxRetries THEN "running" ELSE "none"]
  /\ Done(s)
  /\ UNCHANGED <<bank, quote, trades, keys, expiring>>

LockEnds ==
  /\ user.lock = "running"
  /\ user' = [user EXCEPT !.lock = "over"]
  /\ UNCHANGED <<bank, quote, trades, keys, request, expiring>>

\* SetupTransactionPassword: reads the row, hashes, writes whatever is there now.
SetupReadsUser(s) ==
  /\ At(s, "idle")
  /\ user.active
  /\ GoesTo(s, "hash")
  /\ UNCHANGED <<user, bank, quote, trades, keys, expiring>>

SetupWrites(s) ==
  /\ At(s, "hash")
  /\ user' = [user EXCEPT !.password = TRUE, !.attempts = 0, !.lock = "none"]
  /\ Done(s)
  /\ UNCHANGED <<bank, quote, trades, keys, expiring>>

\* AddBankAccount asks whether the user exists, not whether it is active.
AddBankAccount(b) ==
  /\ bank[b] = "none"
  /\ bank' = [bank EXCEPT ![b] = "active"]
  /\ UNCHANGED <<user, quote, trades, keys, request, expiring>>
-----------------------------------------------------------------------------
(***************************************************************************)
(* createTradeWithAuthorization, after the password or, on the legacy      *)
(* route, at once.                                                         *)
(***************************************************************************)
\* Mutant: accepted_at is not looked at.
AcceptableAgain(q) == quote[q].made /\ ~quote[q].expired /\ ~quote[q].lapsed

Acceptable(q) ==
  /\ quote[q].made
  /\ ~quote[q].accepted
  /\ ~quote[q].expired
  /\ ~quote[q].lapsed

ReadQuote(s) ==
  /\ At(s, "quote") \/ (LegacyRoute /\ At(s, "idle"))
  /\ \E q \in Quotes :
       /\ Acceptable(q)
       /\ request' = [request EXCEPT ![s] = [Idle EXCEPT !.pc = "bank", !.quote = q]]
  /\ UNCHANGED <<user, bank, quote, trades, keys, expiring>>

\* Mutant: the account is checked and then forgotten.
ReadBankAccountUnbound(s) ==
  /\ At(s, "bank")
  /\ \E b \in Banks : bank[b] = "active"
  /\ request' = [request EXCEPT ![s].pc = "limit"]
  /\ UNCHANGED <<user, bank, quote, trades, keys, expiring>>

ReadBankAccount(s) ==
  /\ At(s, "bank")
  /\ \E b \in Banks :
       /\ bank[b] = "active"
       /\ request' = [request EXCEPT ![s].pc = "limit", ![s].bank = b]
  /\ UNCHANGED <<user, bank, quote, trades, keys, expiring>>

\* Mutant: a trade counts once it has ended.
CountedWhenEnded == { i \in DOMAIN trades : trades[i].status \notin {"CANCELLED", "open"} }

\* The trades that count against the tier limit: all that were not cancelled.
Counted == { i \in DOMAIN trades : trades[i].status # "CANCELLED" }

enforceTradeTierLimits(s) ==
  /\ At(s, "limit")
  /\ Cardinality(Counted) + 1 <= Limit
  /\ request' = [request EXCEPT ![s].pc = "commit"]
  /\ UNCHANGED <<user, bank, quote, trades, keys, expiring>>

\* The transaction: the operation key is new, the quote accepted (whatever its
\* row says by now), the trade inserted.
TradeKey(s) == <<request[s].quote, request[s].bank>>

\* Mutant: a key that is there already does not stop the transaction.
CommitTradeAgain(s) ==
  /\ At(s, "commit")
  /\ keys' = keys \cup {TradeKey(s)}
  /\ quote' = [quote EXCEPT ![request[s].quote].accepted = TRUE]
  /\ trades' = Append(trades, [key |-> TradeKey(s), status |-> "open"])
  /\ Done(s)
  /\ UNCHANGED <<user, bank, expiring>>

\* Mutant: UPDATE quotes with AND expired_at IS NULL, the affected rows not counted.
CommitTradeUnlessExpired(s) ==
  /\ At(s, "commit")
  /\ TradeKey(s) \notin keys
  /\ keys' = keys \cup {TradeKey(s)}
  /\ quote' = [quote EXCEPT ![request[s].quote].accepted = @ \/ ~quote[request[s].quote].expired]
  /\ trades' = Append(trades, [key |-> TradeKey(s), status |-> "open"])
  /\ Done(s)
  /\ UNCHANGED <<user, bank, expiring>>

CommitTrade(s) ==
  /\ At(s, "commit")
  /\ TradeKey(s) \notin keys
  /\ keys' = keys \cup {TradeKey(s)}
  /\ quote' = [quote EXCEPT ![request[s].quote].accepted = TRUE]
  /\ trades' = Append(trades, [key |-> TradeKey(s), status |-> "open"])
  /\ Done(s)
  /\ UNCHANGED <<user, bank, expiring>>

\* TradeLifecycle ends a trade.
TradeEnds(i) ==
  /\ trades[i].status = "open"
  /\ \E e \in Ends : trades' = [trades EXCEPT ![i].status = e]
  /\ UNCHANGED <<user, bank, quote, keys, request, expiring>>
-----------------------------------------------------------------------------
(***************************************************************************)
(* DeleteAccount after the password: no trade in one of the                *)
(* activeDeletionBlockingStatuses, then one transaction that archives the  *)
(* bank accounts and empties the user's row.                               *)
(***************************************************************************)
FindsNoOpenTrade(s) ==
  /\ At(s, "trades")
  /\ \A i \in DOMAIN trades : trades[i].status # "open"
  /\ GoesTo(s, "erase")
  /\ UNCHANGED <<user, bank, quote, trades, keys, expiring>>

EraseAccount(s) ==
  /\ At(s, "erase")
  /\ bank' = [b \in Banks |-> IF bank[b] = "none" THEN "none" ELSE "archived"]
  /\ user' = [active |-> FALSE, password |-> FALSE, attempts |-> 0, lock |-> "none"]
  /\ Done(s)
  /\ UNCHANGED <<quote, trades, keys, expiring>>

(***************************************************************************)
(* The clock, and QuoteExpiryWorker: it lists the lapsed quotes and        *)
(* expires them one by one, each with a guarded UPDATE that may fail.      *)
(***************************************************************************)
QuoteLapses(q) ==
  /\ quote[q].made /\ ~quote[q].lapsed
  /\ quote' = [quote EXCEPT ![q].lapsed = TRUE]
  /\ UNCHANGED <<user, bank, trades, keys, request, expiring>>

GetExpiredPendingQuotes ==
  { q \in Quotes : quote[q].lapsed /\ ~quote[q].accepted /\ ~quote[q].expired }

ListExpired ==
  /\ expiring = {}
  /\ GetExpiredPendingQuotes # {}
  /\ expiring' = GetExpiredPendingQuotes
  /\ UNCHANGED <<user, bank, quote, trades, keys, request>>

\* Mutant: the UPDATE names the id only.
ExpireQuoteUnguarded(q) ==
  /\ q \in expiring
  /\ expiring' = expiring \ {q}
  /\ quote' = [quote EXCEPT ![q].expired = TRUE]
  /\ UNCHANGED <<user, bank, trades, keys, request>>

ExpireQuote(q) ==
  /\ q \in expiring
  /\ expiring' = expiring \ {q}
  /\ quote' = [quote EXCEPT ![q].expired = @ \/ ~quote[q].accepted]
  /\ UNCHANGED <<user, bank, trades, keys, request>>

ExpireQuoteFails(q) ==
  /\ q \in expiring
  /\ expiring' = expiring \ {q}
  /\ UNCHANGED <<user, bank, quote, trades, keys, request>>
-----------------------------------------------------------------------------
Request(s) ==
  \/ RequestEnds(s)
  \/ enforceQuoteTierLimits(s) \/ InsertQuote(s)
  \/ \E deleting \in BOOLEAN : ReadUser(s, deleting)
  \/ PasswordRight(s) \/ PasswordWrong(s)
  \/ SetupReadsUser(s) \/ SetupWrites(s)
  \/ ReadQuote(s) \/ ReadBankAccount(s) \/ enforceTradeTierLimits(s) \/ CommitTrade(s)
  \/ FindsNoOpenTrade(s) \/ EraseAccount(s)

Next ==
  \/ \E s \in Sessions : Request(s)
  \/ LockEnds
  \/ \E b \in Banks : AddBankAccount(b)
  \/ \E i \in DOMAIN trades : TradeEnds(i)
  \/ ListExpired
  \/ \E q \in Quotes : QuoteLapses(q) \/ ExpireQuote(q) \/ ExpireQuoteFails(q)

Spec == Init /\ [][Next]_vars
-----------------------------------------------------------------------------
\* Each variable has its type.
TypeOK ==
  /\ user \in Users
  /\ bank \in [Banks -> {"none", "active", "archived"}]
  /\ quote \in [Quotes -> QuoteRows]
  /\ trades \in Seq(TradeRows)
  /\ keys \subseteq Quotes \X Banks
  /\ request \in [Sessions -> Requests]
  /\ expiring \subseteq Quotes

\* One trade for a quote and a bank account, however often the confirmation is
\* repeated: the operation key trade_create is used once.
OneTradePerConfirmation ==
  \A i, j \in DOMAIN trades : trades[i].key = trades[j].key => i = j

\* accepted_at is set exactly on the quotes that a trade was created from.
UsesOf(q) == { i \in DOMAIN trades : trades[i].key[1] = q }
AcceptedMeansTraded == \A q \in Quotes : quote[q].accepted <=> UsesOf(q) # {}

\* What createTradeWithAuthorization keeps of "accepted once": a quote is used at
\* most once by each request that found it unused.
QuoteUsesBounded ==
  \A q \in Quotes : Cardinality(UsesOf(q)) <= Cardinality(Sessions)

\* What the tier limits keep when requests check them concurrently: no more than
\* one trade, and one quote, too many for each other request in flight.
NotCancelled == { i \in DOMAIN trades : trades[i].status # "CANCELLED" }
TradeLimitOvershoot ==
  Cardinality(NotCancelled) <= Limit + Cardinality(Sessions) - 1
QuoteLimitOvershoot ==
  Cardinality({ q \in Quotes : quote[q].made }) <= Limit + Cardinality(Sessions) - 1

\* The attempts on record and the lock agree, whichever requests wrote them last.
LockAfterRetries == user.attempts >= MaxRetries <=> user.lock # "none"

\* The expiry worker's list may be old, but it expires no accepted quote.
AcceptedStaysUnexpired ==
  [][\A q \in Quotes : quote[q].accepted /\ ~quote[q].expired => ~quote'[q].expired]_vars

=============================================================================
