--------------------------- MODULE LedgerBalance ---------------------------
(***************************************************************************)
(* The running balances of the ledger.  A posting reads the latest balance *)
(* of its two accounts and inserts an entry on each, inside a transaction  *)
(* at READ COMMITTED that holds no lock on the accounts.  The latest entry *)
(* is the one with the greatest created_at, which is the start of its      *)
(* transaction; between entries of one transaction a random id decides.    *)
(***************************************************************************)
EXTENDS Integers, Sequences

CONSTANTS
  Postings    \* the transactions: each a sequence of postings

LedgerAccounts == {"holding", "inventory", "fees", "wallet", "suspense"}

Posting == {p \in [debit : LedgerAccounts, credit : LedgerAccounts, amount : Nat] :
              p.debit # p.credit /\ p.amount > 0}
ASSUME LedgerAssumption == Postings \in [DOMAIN Postings -> Seq(Posting)]
Transactions == DOMAIN Postings

\* postLedgerForStatusTransitionTx, in the currency that is paid out.
ConversionPostings(gross, fee) ==
  <<[debit |-> "holding", credit |-> "inventory", amount |-> gross]>> \o
  IF fee > 0 THEN <<[debit |-> "fees", credit |-> "holding", amount |-> fee]>> ELSE <<>>
PayoutPostings(net, to) == <<[debit |-> to, credit |-> "holding", amount |-> net]>>

VARIABLES
  shown,      \* balance_after of an account's latest committed entry, and its created_at
  posting,    \* what each transaction has read and written
  clock,      \* counts the transactions begun
  total,      \* what the committed entries of an account add up to
  disturbed   \* accounts written twice in a transaction, or by transactions that overlap

ledgerVars == <<shown, posting, clock, total, disturbed>>

Unwritten == [at |-> 0, after |-> 0]
Waiting == [state |-> "waiting", at |-> 0, next |-> 1, before |-> <<>>,
            own |-> [a \in LedgerAccounts |-> Unwritten], moved |-> [a \in LedgerAccounts |-> 0]]

LedgerInit ==
  /\ shown = [a \in LedgerAccounts |-> Unwritten]
  /\ posting = [t \in Transactions |-> Waiting]
  /\ clock = 0
  /\ total = [a \in LedgerAccounts |-> 0]
  /\ disturbed = {}

Sides(p) == <<p.debit, p.credit>>
Touches(t, a) == \E i \in DOMAIN Postings[t] : a \in {Postings[t][i].debit, Postings[t][i].credit}
WrittenTwice(t, a) ==
  \E i, j \in DOMAIN Postings[t] :
    i # j /\ \A k \in {i, j} : a \in {Postings[t][k].debit, Postings[t][k].credit}
Open(t) == posting[t].state = "open"
Current(t) == Postings[t][posting[t].next]
-----------------------------------------------------------------------------
BeginTx(t) ==
  /\ posting[t].state = "waiting"
  /\ clock' = clock + 1
  /\ posting' = [posting EXCEPT ![t].state = "open", ![t].at = clock + 1]
  /\ disturbed' = disturbed \cup
       {a \in LedgerAccounts : WrittenTwice(t, a) \/
          (Touches(t, a) /\ \E u \in Transactions \ {t} : Open(u) /\ Touches(u, a))}
  /\ UNCHANGED <<shown, total>>

\* The transaction sees its own entries and the committed ones.
LatestBalance(t, a) ==
  IF posting[t].own[a].at > shown[a].at THEN posting[t].own[a].after ELSE shown[a].after

ledgerBalanceForAccountTx(t) ==
  /\ Open(t) /\ posting[t].next <= Len(Postings[t]) /\ Len(posting[t].before) < 2
  /\ LET a == Sides(Current(t))[Len(posting[t].before) + 1]
     IN posting' = [posting EXCEPT ![t].before = Append(@, LatestBalance(t, a))]
  /\ UNCHANGED <<shown, clock, total, disturbed>>

\* The entry of an account that has one from this transaction is the later
\* one or not.
EntryInserted(t, a, after) ==
  LET entry == [at |-> posting[t].at, after |-> after]
  IN IF posting[t].own[a] = Unwritten THEN {entry} ELSE {posting[t].own[a], entry}

WithEntries(row, p, d, c) ==
  LET own == [row.own EXCEPT ![p.debit] = d, ![p.credit] = c]
      moved == [row.moved EXCEPT ![p.debit] = @ + p.amount, ![p.credit] = @ - p.amount]
  IN [row EXCEPT !.next = row.next + 1, !.before = <<>>, !.own = own, !.moved = moved]

postBalancedLedgerEntryTx(t) ==
  /\ Open(t) /\ Len(posting[t].before) = 2
  /\ LET p == Current(t)
     IN \E d \in EntryInserted(t, p.debit, posting[t].before[1] + p.amount),
           c \in EntryInserted(t, p.credit, posting[t].before[2] - p.amount) :
          posting' = [posting EXCEPT ![t] = WithEntries(@, p, d, c)]
  /\ UNCHANGED <<shown, clock, total, disturbed>>

CommitTx(t) ==
  /\ Open(t) /\ posting[t].next > Len(Postings[t])
  /\ shown' = [a \in LedgerAccounts |-> IF posting[t].own[a].at > shown[a].at THEN posting[t].own[a]
                                                                        ELSE shown[a]]
  /\ total' = [a \in LedgerAccounts |-> total[a] + posting[t].moved[a]]
  /\ posting' = [posting EXCEPT ![t] = [Waiting EXCEPT !.state = "done"]]
  /\ UNCHANGED <<clock, disturbed>>

\* Mutant: the entries survive a rollback.
RollbackKeepsEntries(t) ==
  /\ Open(t)
  /\ shown' = [a \in LedgerAccounts |-> IF posting[t].own[a].at > shown[a].at
                                          THEN posting[t].own[a] ELSE shown[a]]
  /\ posting' = [posting EXCEPT ![t] = [Waiting EXCEPT !.state = "done"]]
  /\ UNCHANGED <<clock, total, disturbed>>

\* A statement fails or the engine stops.
RollbackTx(t) ==
  /\ Open(t)
  /\ posting' = [posting EXCEPT ![t] = [Waiting EXCEPT !.state = "done"]]
  /\ UNCHANGED <<shown, clock, total, disturbed>>

LedgerNext ==
  \E t \in Transactions :
    \/ BeginTx(t) \/ ledgerBalanceForAccountTx(t) \/ postBalancedLedgerEntryTx(t)
    \/ CommitTx(t) \/ RollbackTx(t)

LedgerSpec == LedgerInit /\ [][LedgerNext]_ledgerVars
-----------------------------------------------------------------------------
\* Entries, reads and transactions are well-formed.
LedgerTypeOK ==
  /\ shown \in [LedgerAccounts -> [at : Nat, after : Int]]
  /\ posting \in [Transactions -> [state : {"waiting", "open", "done"}, at : Nat, next : Nat,
                                   before : Seq(Int), own : [LedgerAccounts -> [at : Nat, after : Int]],
                                   moved : [LedgerAccounts -> Int]]]
  /\ clock \in Nat
  /\ total \in [LedgerAccounts -> Int]
  /\ disturbed \subseteq LedgerAccounts

\* The running balance of an account is what its entries add up to, unless
\* transactions that write to it overlapped or one wrote to it twice: nothing
\* else, no rollback and no order of sequential transactions, breaks it.
BalancesAddUp == \A a \in LedgerAccounts \ disturbed : shown[a].after = total[a]
=============================================================================
