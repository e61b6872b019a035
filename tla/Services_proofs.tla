--------------------------- MODULE Services_proofs ---------------------------
(***************************************************************************)
(* What holds of the ledger's balances, the review cases, the rate limiter *)
(* and the prices, for any requests, postings, limits and delays; and, at  *)
(* the end, of all the services together, as MCServices composes them.     *)
(***************************************************************************)
EXTENDS MCServices, NotificationOutbox_proofs, UserVerification_proofs, BotConversation_proofs,
        FiniteSetTheorems, TLAPS

\* The ledger's accounts and their running balances.

States == {"waiting", "open", "done"}
Entries == [at : Nat, after : Int]
Rows == [state : States, at : Nat, next : Nat, before : Seq(Int),
         own : [LedgerAccounts -> Entries], moved : [LedgerAccounts -> Int]]

\* A transaction reads the balances of a posting it has.
Reading(t) ==
  /\ posting[t].next >= 1 /\ Len(posting[t].before) <= 2
  /\ posting[t].before # <<>> => posting[t].next <= Len(Postings[t])
  /\ posting[t].state = "waiting" => posting[t] = Waiting

LInv == LedgerTypeOK /\ \A t \in Transactions : Reading(t)

LEMMA PostingTyped ==
  ASSUME NEW t \in Transactions, NEW i \in DOMAIN Postings[t]
  PROVE  /\ Postings[t] \in Seq(Posting) /\ Postings[t][i] \in Posting
         /\ Postings[t][i].debit \in LedgerAccounts /\ Postings[t][i].credit \in LedgerAccounts
         /\ Postings[t][i].debit # Postings[t][i].credit /\ Postings[t][i].amount \in Nat
<1>1. Postings[t] \in Seq(Posting)
  BY LedgerAssumption DEF Transactions
<1>2. Postings[t][i] \in Posting
  BY <1>1
<1>. QED BY <1>1, <1>2 DEF Posting

LEMMA LengthTyped ==
  ASSUME NEW t \in Transactions
  PROVE  Len(Postings[t]) \in Nat /\ DOMAIN Postings[t] = 1..Len(Postings[t])
<1>1. Postings[t] \in Seq(Posting)
  BY LedgerAssumption DEF Transactions
<1>. QED BY <1>1

LEMMA WaitingTyped == Waiting \in Rows /\ Waiting.before = <<>> /\ Waiting.next = 1
<1>1. [a \in LedgerAccounts |-> Unwritten] \in [LedgerAccounts -> Entries]
  BY DEF Unwritten, Entries
<1>2. <<>> \in Seq(Int)
  OBVIOUS
<1>. QED BY <1>1, <1>2 DEF Waiting, Rows, States

\* A transaction that has written nothing yet, or is over.
FreshRow(state, at) == [Waiting EXCEPT !.state = state, !.at = at]
Over == [Waiting EXCEPT !.state = "done"]
LEMMA FreshTyped ==
  ASSUME NEW state \in States, NEW at \in Nat
  PROVE  LET r == FreshRow(state, at)
         IN /\ r \in Rows /\ r.state = state /\ r.at = at /\ r.next = 1 /\ r.before = <<>>
            /\ Len(r.before) = 0 /\ r.own = Waiting.own /\ r.moved = Waiting.moved
<1>1. Len(<<>>) = 0
  OBVIOUS
<1>. QED BY <1>1, WaitingTyped DEF Rows, FreshRow

\* A transaction after a posting.
LEMMA WrittenRow ==
  ASSUME NEW row \in Rows, NEW p \in Posting, NEW d \in Entries, NEW c \in Entries,
         NEW r, r = WithEntries(row, p, d, c)
  PROVE  /\ r \in Rows /\ r.state = row.state /\ r.at = row.at /\ r.next = row.next + 1
         /\ r.before = <<>>
         /\ r.own = [row.own EXCEPT ![p.debit] = d, ![p.credit] = c]
         /\ r.moved = [row.moved EXCEPT ![p.debit] = row.moved[p.debit] + p.amount,
                                        ![p.credit] = row.moved[p.credit] - p.amount]
<1> DEFINE own == [row.own EXCEPT ![p.debit] = d, ![p.credit] = c]
           added == [row.moved EXCEPT ![p.debit] = @ + p.amount, ![p.credit] = @ - p.amount]
<1>1. /\ p.debit \in LedgerAccounts /\ p.credit \in LedgerAccounts /\ p.debit # p.credit
      /\ p.amount \in Nat
  BY DEF Posting
<1>2. /\ row.own \in [LedgerAccounts -> Entries] /\ row.moved \in [LedgerAccounts -> Int]
      /\ row.next \in Nat
  BY DEF Rows
<1>3. own \in [LedgerAccounts -> Entries]
  BY <1>1, <1>2
<1>4. /\ added \in [LedgerAccounts -> Int]
      /\ added = [row.moved EXCEPT ![p.debit] = row.moved[p.debit] + p.amount,
                                   ![p.credit] = row.moved[p.credit] - p.amount]
  BY <1>1, <1>2
<1>5. WithEntries(row, p, d, c)
        = [row EXCEPT !.next = row.next + 1, !.before = <<>>, !.own = own, !.moved = added]
  BY DEF WithEntries
<1>6. row.next + 1 \in Nat /\ <<>> \in Seq(Int)
  BY <1>2
<1> HIDE DEF own, added
<1>7. /\ r \in Rows /\ r.state = row.state /\ r.at = row.at /\ r.next = row.next + 1
      /\ r.before = <<>> /\ r.own = own /\ r.moved = added
  BY <1>3, <1>4, <1>5, <1>6 DEF Rows
<1>. QED BY <1>4, <1>7 DEF own

LEMMA LedgerInitTyped == LedgerInit => LInv
<1> SUFFICES ASSUME LedgerInit PROVE LInv
  OBVIOUS
<1>1. posting \in [Transactions -> Rows]
  BY WaitingTyped DEF LedgerInit
<1>2. LedgerTypeOK
  BY <1>1 DEF LedgerInit, LedgerTypeOK, Rows, States, Entries, Unwritten
<1>3. ASSUME NEW t \in Transactions PROVE Reading(t)
  <2>1. posting[t] = Waiting
    BY DEF LedgerInit
  <2>. QED BY <2>1, WaitingTyped DEF Reading
<1>. QED BY <1>2, <1>3 DEF LInv

\* A transaction that changes to a typed row.
LEMMA PostingRowStep ==
  ASSUME LInv, NEW t \in Transactions, NEW r \in Rows, posting' = [posting EXCEPT ![t] = r],
         r.next >= 1, Len(r.before) <= 2, r.state # "waiting",
         r.before # <<>> => r.next <= Len(Postings[t]),
         shown' \in [LedgerAccounts -> Entries], clock' \in Nat,
         total' \in [LedgerAccounts -> Int], disturbed' \subseteq LedgerAccounts
  PROVE  LInv'
<1>1. posting' \in [Transactions -> Rows]
  BY DEF LInv, LedgerTypeOK, Rows, States, Entries
<1>2. LedgerTypeOK'
  BY <1>1 DEF LedgerTypeOK, Rows, States, Entries
<1>3. ASSUME NEW u \in Transactions PROVE Reading(u)'
  <2>1. CASE u = t
    <3>1. posting'[u] = r
      BY <2>1 DEF LInv, LedgerTypeOK
    <3>. QED BY <2>1, <3>1 DEF Reading
  <2>2. CASE u # t
    <3>1. posting'[u] = posting[u]
      BY <2>2 DEF LInv, LedgerTypeOK
    <3>. QED BY <3>1 DEF LInv, Reading
  <2>. QED BY <2>1, <2>2
<1>. QED BY <1>2, <1>3 DEF LInv

LEMMA RowTyped ==
  ASSUME LInv, NEW t \in Transactions
  PROVE  /\ posting[t] \in Rows /\ Reading(t)
         /\ posting[t].own \in [LedgerAccounts -> Entries]
         /\ posting[t].moved \in [LedgerAccounts -> Int]
         /\ posting[t].next \in Nat /\ posting[t].at \in Nat /\ posting[t].before \in Seq(Int)
<1>1. posting[t] \in Rows
  BY DEF LInv, LedgerTypeOK, Rows, States, Entries
<1>. QED BY <1>1 DEF LInv, Rows

\* What each step makes of its transaction.
LEMMA Began ==
  ASSUME LInv, NEW t \in Transactions, BeginTx(t)
  PROVE  /\ clock + 1 \in Nat
         /\ posting' = [posting EXCEPT ![t] = FreshRow("open", clock + 1)]
<1>1. posting[t] = Waiting /\ clock \in Nat
  BY DEF BeginTx, LInv, Reading, LedgerTypeOK
<1>2. posting' = [posting EXCEPT ![t] = [posting[t] EXCEPT !.state = "open", !.at = clock + 1]]
  BY DEF BeginTx
<1>. QED BY <1>1, <1>2 DEF FreshRow

LEMMA ReadBalance ==
  ASSUME LInv, NEW t \in Transactions, ledgerBalanceForAccountTx(t)
  PROVE  LET side == Sides(Current(t))[Len(posting[t].before) + 1]
             r == [posting[t] EXCEPT !.before = Append(@, LatestBalance(t, side))]
         IN /\ posting[t].next \in DOMAIN Postings[t]
            /\ side \in LedgerAccounts /\ LatestBalance(t, side) \in Int
            /\ r \in Rows /\ posting' = [posting EXCEPT ![t] = r]
<1> DEFINE side == Sides(Current(t))[Len(posting[t].before) + 1]
           r == [posting[t] EXCEPT !.before = Append(@, LatestBalance(t, side))]
<1>1. posting[t].next \in DOMAIN Postings[t]
  BY RowTyped, LengthTyped DEF ledgerBalanceForAccountTx, Reading
<1>2. side \in LedgerAccounts
  <2>1. Current(t).debit \in LedgerAccounts /\ Current(t).credit \in LedgerAccounts
    BY <1>1, PostingTyped DEF Current
  <2>2. Len(posting[t].before) + 1 \in {1, 2}
    <3>1. Len(posting[t].before) \in Nat /\ Len(posting[t].before) < 2
      BY RowTyped DEF ledgerBalanceForAccountTx
    <3>. QED BY <3>1
  <2>3. /\ Sides(Current(t))[1] = Current(t).debit /\ Sides(Current(t))[2] = Current(t).credit
    BY DEF Sides
  <2>. QED BY <2>1, <2>2, <2>3
<1>3. LatestBalance(t, side) \in Int
  BY <1>2, RowTyped DEF LatestBalance, LInv, LedgerTypeOK, Entries
<1>4. Append(posting[t].before, LatestBalance(t, side)) \in Seq(Int)
  BY <1>3, RowTyped
<1>5. r \in Rows
  BY <1>4, RowTyped DEF Rows
<1>6. posting' = [posting EXCEPT ![t] = r]
  BY DEF ledgerBalanceForAccountTx
<1>. QED BY <1>1, <1>2, <1>3, <1>5, <1>6

LEMMA EntryMade ==
  ASSUME LInv, NEW t \in Transactions, NEW a \in LedgerAccounts, NEW after \in Int
  PROVE  EntryInserted(t, a, after) \subseteq Entries
<1>1. posting[t].own[a] \in Entries
  BY RowTyped
<1>2. [at |-> posting[t].at, after |-> after] \in Entries
  BY RowTyped DEF Entries
<1>. QED BY <1>1, <1>2 DEF EntryInserted

LEMMA Posted ==
  ASSUME LInv, NEW t \in Transactions, postBalancedLedgerEntryTx(t)
  PROVE  LET p == Current(t)
             row == posting[t]
         IN /\ row.next \in DOMAIN Postings[t] /\ p \in Posting
            /\ \E d \in EntryInserted(t, p.debit, row.before[1] + p.amount),
                  c \in EntryInserted(t, p.credit, row.before[2] - p.amount),
                  r \in Rows :
                 /\ posting' = [posting EXCEPT ![t] = r]
                 /\ r.state = "open" /\ r.at = row.at /\ r.next = row.next + 1 /\ r.before = <<>>
                 /\ r.own = [row.own EXCEPT ![p.debit] = d, ![p.credit] = c]
                 /\ r.moved = [row.moved EXCEPT ![p.debit] = row.moved[p.debit] + p.amount,
                                                ![p.credit] = row.moved[p.credit] - p.amount]
<1> DEFINE p == Current(t)
           row == posting[t]
<1>1. row.next \in DOMAIN Postings[t] /\ row.before \in Seq(Int) /\ Len(row.before) = 2
  BY RowTyped, LengthTyped DEF postBalancedLedgerEntryTx, Reading
<1>2. /\ p \in Posting /\ p.amount \in Nat /\ p.debit # p.credit
      /\ p.debit \in LedgerAccounts /\ p.credit \in LedgerAccounts
  BY <1>1, PostingTyped DEF Current
<1>3. PICK d \in EntryInserted(t, p.debit, row.before[1] + p.amount),
           c \in EntryInserted(t, p.credit, row.before[2] - p.amount) :
        posting' = [posting EXCEPT ![t] = WithEntries(row, p, d, c)]
  BY DEF postBalancedLedgerEntryTx
<1>4. row.before[1] + p.amount \in Int /\ row.before[2] - p.amount \in Int
  BY <1>1, <1>2
<1>5. d \in Entries /\ c \in Entries
  BY <1>2, <1>3, <1>4, EntryMade
<1>6. row \in Rows /\ row.state = "open"
  BY RowTyped DEF postBalancedLedgerEntryTx, Open
<1> DEFINE q == WithEntries(row, p, d, c)
<1>7. /\ q \in Rows /\ q.state = "open" /\ q.at = row.at /\ q.next = row.next + 1
      /\ q.before = <<>>
      /\ q.own = [row.own EXCEPT ![p.debit] = d, ![p.credit] = c]
      /\ q.moved = [row.moved EXCEPT ![p.debit] = row.moved[p.debit] + p.amount,
                                     ![p.credit] = row.moved[p.credit] - p.amount]
  <2> HIDE DEF p, row
  <2>1. p \in Posting
    BY <1>2
  <2>2. q = WithEntries(row, p, d, c)
    BY DEF q
  <2> HIDE DEF q
  <2>. QED BY <2>1, <2>2, <1>5, <1>6, WrittenRow
<1> HIDE DEF q, p, row
<1>8. \E r \in Rows :
        /\ posting' = [posting EXCEPT ![t] = r]
        /\ r.state = "open" /\ r.at = row.at /\ r.next = row.next + 1 /\ r.before = <<>>
        /\ r.own = [row.own EXCEPT ![p.debit] = d, ![p.credit] = c]
        /\ r.moved = [row.moved EXCEPT ![p.debit] = row.moved[p.debit] + p.amount,
                                       ![p.credit] = row.moved[p.credit] - p.amount]
  <2>1. posting' = [posting EXCEPT ![t] = q]
    BY <1>3 DEF q
  <2>. QED BY <1>7, <2>1, Zenon
<1>9. /\ row.next \in DOMAIN Postings[t] /\ p \in Posting
      /\ d \in EntryInserted(t, p.debit, row.before[1] + p.amount)
      /\ c \in EntryInserted(t, p.credit, row.before[2] - p.amount)
  BY <1>1, <1>2, <1>3
<1>. QED BY <1>8, <1>9, Zenon DEF p, row

LEMMA Finished ==
  LET r == Over
  IN /\ r \in Rows /\ r.next = 1 /\ r.before = <<>> /\ r.state = "done" /\ Len(r.before) = 0
<1>1. Len(<<>>) = 0
  OBVIOUS
<1>. QED BY <1>1, WaitingTyped DEF Rows, States, Over

LEMMA CommitTyped ==
  ASSUME LInv, NEW t \in Transactions, CommitTx(t)
  PROVE  shown' \in [LedgerAccounts -> Entries] /\ total' \in [LedgerAccounts -> Int]
<1>1. shown \in [LedgerAccounts -> Entries] /\ total \in [LedgerAccounts -> Int]
  BY DEF LInv, LedgerTypeOK, Entries
<1>2. ASSUME NEW a \in LedgerAccounts
      PROVE  total[a] + posting[t].moved[a] \in Int
  BY <1>1, RowTyped
<1>. QED BY <1>1, <1>2, RowTyped DEF CommitTx

LEMMA LedgerStepTyped == LInv /\ [LedgerNext]_ledgerVars => LInv'
<1> SUFFICES ASSUME LInv, [LedgerNext]_ledgerVars PROVE LInv'
  OBVIOUS
<1>0. /\ shown \in [LedgerAccounts -> Entries] /\ total \in [LedgerAccounts -> Int]
      /\ clock \in Nat /\ disturbed \subseteq LedgerAccounts
  BY DEF LInv, LedgerTypeOK, Entries
<1>1. CASE UNCHANGED ledgerVars
  BY <1>1 DEF ledgerVars, LInv, LedgerTypeOK, Reading
<1>2. ASSUME NEW t \in Transactions, BeginTx(t) PROVE LInv'
  <2>1. PICK r \in Rows : /\ posting' = [posting EXCEPT ![t] = r] /\ r.state = "open"
                          /\ r.next = 1 /\ r.before = <<>> /\ Len(r.before) = 0
    BY <1>2, Began, FreshTyped DEF States
  <2>3. /\ shown' = shown /\ total' = total /\ clock' \in Nat
        /\ disturbed' \subseteq LedgerAccounts
    BY <1>0, <1>2 DEF BeginTx
  <2>4. /\ shown' \in [LedgerAccounts -> Entries] /\ total' \in [LedgerAccounts -> Int]
        /\ r.next >= 1 /\ Len(r.before) <= 2 /\ r.state # "waiting"
    BY <1>0, <2>1, <2>3
  <2>. QED BY <2>1, <2>3, <2>4, PostingRowStep, Zenon
<1>3. ASSUME NEW t \in Transactions, ledgerBalanceForAccountTx(t) PROVE LInv'
  <2> DEFINE side == Sides(Current(t))[Len(posting[t].before) + 1]
             r == [posting[t] EXCEPT !.before = Append(@, LatestBalance(t, side))]
  <2>1. r \in Rows /\ posting' = [posting EXCEPT ![t] = r] /\ posting[t].next \in DOMAIN Postings[t]
        /\ LatestBalance(t, side) \in Int
    BY <1>3, ReadBalance
  <2>2. r.state = "open" /\ r.next = posting[t].next
        /\ r.before = Append(posting[t].before, LatestBalance(t, side))
    BY <1>3, RowTyped DEF ledgerBalanceForAccountTx, Open, Rows
  <2>3. Len(r.before) <= 2
    BY <1>3, <2>1, <2>2, RowTyped DEF ledgerBalanceForAccountTx
  <2>4. r.next >= 1 /\ r.next <= Len(Postings[t])
    BY <2>1, <2>2, LengthTyped
  <2>5. UNCHANGED <<shown, clock, total, disturbed>>
    BY <1>3 DEF ledgerBalanceForAccountTx
  <2> HIDE DEF r
  <2>. QED BY <1>0, <2>1, <2>2, <2>3, <2>4, <2>5, PostingRowStep
<1>4. ASSUME NEW t \in Transactions, postBalancedLedgerEntryTx(t) PROVE LInv'
  <2>1. PICK r \in Rows : /\ posting' = [posting EXCEPT ![t] = r] /\ r.state = "open"
                          /\ r.next = posting[t].next + 1 /\ r.before = <<>>
    BY <1>4, Posted
  <2>2. r.next >= 1 /\ Len(r.before) <= 2
    BY <2>1, RowTyped
  <2>3. UNCHANGED <<shown, clock, total, disturbed>>
    BY <1>4 DEF postBalancedLedgerEntryTx
  <2>. QED BY <1>0, <2>1, <2>2, <2>3, PostingRowStep
<1>5. ASSUME NEW t \in Transactions, CommitTx(t) \/ RollbackTx(t) PROVE LInv'
  <2>1. posting' = [posting EXCEPT ![t] = Over] /\ UNCHANGED <<clock, disturbed>>
    BY <1>5 DEF CommitTx, RollbackTx, Over
  <2>2. PICK r \in Rows : /\ posting' = [posting EXCEPT ![t] = r] /\ r.state = "done"
                          /\ r.next = 1 /\ r.before = <<>> /\ Len(r.before) = 0
    BY <2>1, Finished
  <2>3. shown' \in [LedgerAccounts -> Entries] /\ total' \in [LedgerAccounts -> Int]
    BY <1>0, <1>5, CommitTyped DEF RollbackTx
  <2>4. /\ clock' \in Nat /\ disturbed' \subseteq LedgerAccounts
        /\ r.next >= 1 /\ Len(r.before) <= 2 /\ r.state # "waiting"
    BY <1>0, <2>1, <2>2
  <2>. QED BY <2>2, <2>3, <2>4, PostingRowStep, Zenon
<1>. QED BY <1>1, <1>2, <1>3, <1>4, <1>5 DEF LedgerNext

\* Entries, reads and transactions are well-formed in every state.
THEOREM LedgerTyped == LedgerSpec => []LedgerTypeOK
<1>1. LInv => LedgerTypeOK
  BY DEF LInv
<1>. QED BY <1>1, LedgerInitTyped, LedgerStepTyped, PTL DEF LedgerSpec
-----------------------------------------------------------------------------
(***************************************************************************)
(* The running balances.  BalancesAddUp says nothing of the transactions   *)
(* that are still open: for an account that is not disturbed, at most one  *)
(* of them writes to it, in one posting, what it has read is what is still *)
(* shown, and its entry will be the latest when it commits.                *)
(***************************************************************************)
Names(t, i, a) == a \in {Postings[t][i].debit, Postings[t][i].credit}
ByItself(t, a) == /\ ~ WrittenTwice(t, a)
               /\ \A u \in Transactions \ {t} : Open(u) => ~ Touches(u, a)

Timed(t) == posting[t].at >= 1 /\ posting[t].at <= clock
Wrote(t, a) ==
  IF posting[t].own[a] = Unwritten
    THEN posting[t].moved[a] = 0
    ELSE /\ posting[t].own[a].at = posting[t].at
         /\ \E i \in DOMAIN Postings[t] : i < posting[t].next /\ Names(t, i, a)
Leads(t, a) ==
  a \notin disturbed /\ Touches(t, a) =>
    /\ ByItself(t, a)
    /\ shown[a].at < posting[t].at
    /\ posting[t].own[a] # Unwritten =>
         posting[t].own[a].after = shown[a].after + posting[t].moved[a]
HasRead(t, a) ==
  \A j \in 1..Len(posting[t].before) :
    a \notin disturbed /\ Sides(Current(t))[j] = a => posting[t].before[j] = shown[a].after

Accounted(t, a) == Timed(t) /\ Wrote(t, a) /\ Leads(t, a) /\ HasRead(t, a)
Shows(a) == shown[a].at <= clock /\ (a \notin disturbed => shown[a].after = total[a])

AllAccounted == \A t \in Transactions, a \in LedgerAccounts : Open(t) => Accounted(t, a)
AllShow == \A a \in LedgerAccounts : Shows(a)
BInv == LInv /\ AllShow /\ AllAccounted

LEMMA BalancesInit == LedgerInit => AllShow /\ AllAccounted
  BY DEF LedgerInit, AllShow, AllAccounted, Shows, Open, Waiting, Unwritten

\* The first posting of a transaction on an account that is not disturbed.
LEMMA FirstEntry ==
  ASSUME BInv, NEW t \in Transactions, Open(t), posting[t].next \in DOMAIN Postings[t],
         NEW a \in LedgerAccounts, Names(t, posting[t].next, a), a \notin disturbed
  PROVE  /\ posting[t].own[a] = Unwritten /\ posting[t].moved[a] = 0
         /\ Touches(t, a) /\ Leads(t, a)
<1>1. Accounted(t, a)
  BY DEF BInv, AllAccounted
<1>2. Touches(t, a)
  BY DEF Touches, Names
<1>3. ~ WrittenTwice(t, a)
  BY <1>1, <1>2 DEF Accounted, Leads, ByItself
<1>4. ASSUME NEW i \in DOMAIN Postings[t], i < posting[t].next, Names(t, i, a) PROVE FALSE
  <2>1. i # posting[t].next
    BY <1>4, LengthTyped, RowTyped DEF BInv
  <2>. QED BY <1>3, <1>4, <2>1 DEF WrittenTwice, Names
<1>5. posting[t].own[a] = Unwritten
  BY <1>1, <1>4 DEF Accounted, Wrote
<1>. QED BY <1>1, <1>2, <1>5 DEF Accounted, Wrote

LEMMA BeginSound ==
  ASSUME BInv, NEW t \in Transactions, BeginTx(t)
  PROVE  AllShow' /\ AllAccounted'
<1>0. /\ clock \in Nat /\ clock' = clock + 1 /\ disturbed \subseteq disturbed'
      /\ shown' = shown /\ total' = total
      /\ \A a \in LedgerAccounts : shown[a].at \in Nat /\ shown[a].at <= clock
  BY DEF BInv, LInv, LedgerTypeOK, BeginTx, AllShow, Shows
<1>1. AllShow'
  BY <1>0 DEF BInv, AllShow, Shows
<1>2. \A u \in Transactions \ {t} : posting'[u] = posting[u]
  BY Began DEF BInv, LInv, LedgerTypeOK
<1>3. PICK r \in Rows : /\ posting'[t] = r /\ r.at = clock + 1 /\ r.before = <<>>
                        /\ Len(r.before) = 0 /\ r.own = Waiting.own /\ r.moved = Waiting.moved
  <2>1. posting'[t] = FreshRow("open", clock + 1) /\ clock + 1 \in Nat
    BY Began DEF BInv, LInv, LedgerTypeOK
  <2>. QED BY <2>1, FreshTyped DEF States
<1>4. ASSUME NEW a \in LedgerAccounts PROVE Accounted(t, a)'
  <2>1. Timed(t)'
    BY <1>0, <1>3 DEF Timed
  <2>2. Wrote(t, a)'
    BY <1>3 DEF Wrote, Waiting
  <2>3. ASSUME a \notin disturbed', Touches(t, a) PROVE ByItself(t, a)'
    <3>1. ~ WrittenTwice(t, a) /\ \A u \in Transactions \ {t} : Open(u) => ~ Touches(u, a)
      BY <2>3 DEF BeginTx
    <3>. QED BY <1>2, <3>1 DEF ByItself, Open, Touches, WrittenTwice
  <2>4. Leads(t, a)'
    BY <1>0, <1>3, <2>3 DEF Leads, Touches, Waiting
  <2>5. HasRead(t, a)'
    BY <1>3 DEF HasRead
  <2>. QED BY <2>1, <2>2, <2>4, <2>5 DEF Accounted
<1>5. ASSUME NEW u \in Transactions \ {t}, NEW a \in LedgerAccounts, Open(u)'
      PROVE  Accounted(u, a)'
  <2>1. Accounted(u, a) /\ Open(u)
    BY <1>2, <1>5 DEF BInv, AllAccounted, Open
  <2>2. Timed(u)'
    <3>1. posting[u].at \in Nat
      BY RowTyped DEF BInv
    <3>. QED BY <1>0, <1>2, <2>1, <3>1 DEF Accounted, Timed
  <2>3. Wrote(u, a)'
    BY <1>2, <2>1 DEF Accounted, Wrote, Names
  <2>4. ASSUME a \notin disturbed', Touches(u, a) PROVE ByItself(u, a)'
    <3>1. ~ Touches(t, a)
      BY <2>1, <2>4 DEF BeginTx
    <3>2. ByItself(u, a)
      BY <1>0, <2>1, <2>4 DEF Accounted, Leads
    <3>. QED BY <1>2, <3>1, <3>2 DEF ByItself, Open, Touches, WrittenTwice
  <2>5. Leads(u, a)'
    BY <1>0, <1>2, <2>1, <2>4 DEF Accounted, Leads, Touches
  <2>6. HasRead(u, a)'
    BY <1>0, <1>2, <2>1 DEF Accounted, HasRead, Current
  <2>. QED BY <2>2, <2>3, <2>5, <2>6 DEF Accounted
<1>. QED BY <1>1, <1>4, <1>5 DEF AllAccounted

\* A step of t that changes nothing but its row leaves the others sound.
LEMMA OthersSound ==
  ASSUME BInv, NEW t \in Transactions, UNCHANGED <<shown, clock, total, disturbed>>,
         \A u \in Transactions \ {t} : posting'[u] = posting[u],
         Open(t)' => Open(t)
  PROVE  /\ AllShow'
         /\ \A u \in Transactions \ {t}, a \in LedgerAccounts : Open(u)' => Accounted(u, a)'
         /\ \A u \in Transactions, a \in LedgerAccounts : ByItself(u, a) => ByItself(u, a)'
<1>1. \A u \in Transactions, a \in LedgerAccounts : ByItself(u, a) => ByItself(u, a)'
  BY DEF ByItself, Open, Touches, WrittenTwice
<1>2. ASSUME NEW u \in Transactions \ {t}, NEW a \in LedgerAccounts, Open(u)'
      PROVE  Accounted(u, a)'
  <2>1. Accounted(u, a)
    BY <1>2 DEF BInv, AllAccounted, Open
  <2>2. Timed(u)' /\ Wrote(u, a)' /\ HasRead(u, a)'
    BY <2>1 DEF Accounted, Timed, Wrote, Names, HasRead, Current
  <2>3. Leads(u, a)'
    BY <1>1, <2>1 DEF Accounted, Leads, Touches
  <2>. QED BY <2>2, <2>3 DEF Accounted
<1>3. AllShow'
  BY DEF BInv, AllShow, Shows
<1>. QED BY <1>1, <1>2, <1>3

LEMMA ReadSound ==
  ASSUME BInv, NEW t \in Transactions, ledgerBalanceForAccountTx(t)
  PROVE  AllShow' /\ AllAccounted'
<1> DEFINE row == posting[t]
           side == Sides(Current(t))[Len(row.before) + 1]
<1>1. /\ posting' = [posting EXCEPT ![t] = [row EXCEPT !.before = Append(@, LatestBalance(t, side))]]
      /\ side \in LedgerAccounts /\ row.next \in DOMAIN Postings[t]
  BY ReadBalance DEF BInv
<1>2. /\ \A u \in Transactions \ {t} : posting'[u] = posting[u]
      /\ row \in Rows /\ row.before \in Seq(Int) /\ Open(t)
      /\ UNCHANGED <<shown, clock, total, disturbed>>
  BY <1>1, RowTyped DEF BInv, LInv, LedgerTypeOK, ledgerBalanceForAccountTx
<1>3. /\ posting'[t].state = row.state /\ posting'[t].at = row.at /\ posting'[t].next = row.next
      /\ posting'[t].own = row.own /\ posting'[t].moved = row.moved
      /\ posting'[t].before = Append(row.before, LatestBalance(t, side))
  BY <1>1, <1>2 DEF BInv, LInv, LedgerTypeOK, Rows
<1>4. /\ AllShow'
      /\ \A u \in Transactions \ {t}, a \in LedgerAccounts : Open(u)' => Accounted(u, a)'
      /\ \A u \in Transactions, a \in LedgerAccounts : ByItself(u, a) => ByItself(u, a)'
  BY <1>2, OthersSound
<1>5. ASSUME NEW a \in LedgerAccounts PROVE Accounted(t, a)'
  <2>1. Accounted(t, a)
    BY <1>2 DEF BInv, AllAccounted
  <2>2. Timed(t)' /\ Wrote(t, a)'
    BY <1>2, <1>3, <2>1 DEF Accounted, Timed, Wrote, Names
  <2>3. Leads(t, a)'
    BY <1>2, <1>3, <1>4, <2>1 DEF Accounted, Leads, Touches
  <2>4. ASSUME NEW j \in 1..Len(posting'[t].before), a \notin disturbed,
               Sides(Current(t))[j] = a
        PROVE  posting'[t].before[j] = shown[a].after
    <3>1. LatestBalance(t, side) \in Int
      BY ReadBalance DEF BInv
    <3>2. Len(posting'[t].before) = Len(row.before) + 1
      BY <1>2, <1>3, <3>1
    <3>3. CASE j \in 1..Len(row.before)
      <4>1. posting'[t].before[j] = row.before[j]
        BY <1>2, <1>3, <3>1, <3>3
      <4>. QED BY <2>1, <2>4, <3>3, <4>1 DEF Accounted, HasRead
    <3>4. CASE j = Len(row.before) + 1
      <4>1. posting'[t].before[j] = LatestBalance(t, a)
        BY <1>2, <1>3, <2>4, <3>1, <3>4
      <4>2. Names(t, row.next, a)
        <5>1. Len(row.before) \in Nat /\ Len(row.before) < 2
          BY <1>2 DEF ledgerBalanceForAccountTx
        <5>2. j = 1 \/ j = 2
          BY <3>4, <5>1
        <5>. QED BY <2>4, <5>2 DEF Names, Sides, Current
      <4>3. row.own[a] = Unwritten
        BY <1>1, <1>2, <2>4, <4>2, FirstEntry
      <4>4. shown[a].at \in Nat
        BY DEF BInv, LInv, LedgerTypeOK
      <4>5. ~ (row.own[a].at > shown[a].at)
        BY <4>3, <4>4 DEF Unwritten
      <4>. QED BY <4>1, <4>5 DEF LatestBalance
    <3>5. j \in 1..Len(row.before) \/ j = Len(row.before) + 1
      BY <1>2, <3>2
    <3>. QED BY <3>3, <3>4, <3>5
  <2>5. HasRead(t, a)'
    BY <1>2, <1>3, <2>4 DEF HasRead, Current
  <2>. QED BY <2>2, <2>3, <2>5 DEF Accounted
<1>. QED BY <1>4, <1>5 DEF AllAccounted

LEMMA PostSound ==
  ASSUME BInv, NEW t \in Transactions, postBalancedLedgerEntryTx(t)
  PROVE  AllShow' /\ AllAccounted'
<1> DEFINE row == posting[t]
           p == Current(t)
<1>1. PICK d \in EntryInserted(t, p.debit, row.before[1] + p.amount),
           c \in EntryInserted(t, p.credit, row.before[2] - p.amount),
           r \in Rows :
        /\ posting' = [posting EXCEPT ![t] = r]
        /\ r.state = "open" /\ r.at = row.at /\ r.next = row.next + 1 /\ r.before = <<>>
        /\ r.own = [row.own EXCEPT ![p.debit] = d, ![p.credit] = c]
        /\ r.moved = [row.moved EXCEPT ![p.debit] = row.moved[p.debit] + p.amount,
                                       ![p.credit] = row.moved[p.credit] - p.amount]
  BY Posted DEF BInv
<1>2. /\ row.next \in DOMAIN Postings[t] /\ p \in Posting
      /\ p.debit \in LedgerAccounts /\ p.credit \in LedgerAccounts
      /\ p.debit # p.credit /\ p.amount \in Nat
  <2>1. row.next \in DOMAIN Postings[t] /\ p \in Posting
    BY Posted DEF BInv
  <2>. QED BY <2>1, PostingTyped DEF Current
<1>3. /\ \A u \in Transactions \ {t} : posting'[u] = posting[u]
      /\ posting'[t] = r /\ Open(t) /\ UNCHANGED <<shown, clock, total, disturbed>>
  BY <1>1 DEF BInv, LInv, LedgerTypeOK, postBalancedLedgerEntryTx
<1>4. /\ AllShow'
      /\ \A u \in Transactions \ {t}, a \in LedgerAccounts : Open(u)' => Accounted(u, a)'
      /\ \A u \in Transactions, a \in LedgerAccounts : ByItself(u, a) => ByItself(u, a)'
  BY <1>3, OthersSound
<1>5. /\ row.own \in [LedgerAccounts -> Entries] /\ row.moved \in [LedgerAccounts -> Int]
      /\ row.next \in Nat /\ row.at \in Nat /\ row.at >= 1 /\ row.at <= clock
  <2>1. Timed(t)
    BY <1>2, <1>3 DEF BInv, AllAccounted, Accounted
  <2>. QED BY <2>1, RowTyped DEF Timed, BInv
<1>6. ASSUME NEW a \in LedgerAccounts, a # p.debit, a # p.credit PROVE Accounted(t, a)'
  <2>1. Accounted(t, a)
    BY <1>3 DEF BInv, AllAccounted
  <2>2. r.own[a] = row.own[a] /\ r.moved[a] = row.moved[a]
    BY <1>1, <1>2, <1>5, <1>6
  <2>3. Wrote(t, a)'
    <3>1. CASE row.own[a] = Unwritten
      BY <1>3, <2>1, <2>2, <3>1 DEF Accounted, Wrote
    <3>2. CASE row.own[a] # Unwritten
      <4>1. PICK i \in DOMAIN Postings[t] : i < row.next /\ Names(t, i, a)
        BY <2>1, <3>2 DEF Accounted, Wrote
      <4>2. i < r.next
        BY <1>1, <1>5, <4>1, LengthTyped
      <4>. QED BY <1>1, <1>3, <2>1, <2>2, <3>2, <4>1, <4>2 DEF Accounted, Wrote, Names
    <3>. QED BY <3>1, <3>2
  <2>4. Leads(t, a)'
    BY <1>1, <1>3, <1>4, <2>1, <2>2 DEF Accounted, Leads, Touches
  <2>5. Timed(t)' /\ HasRead(t, a)'
    BY <1>1, <1>3, <1>5 DEF Timed, HasRead
  <2>. QED BY <2>3, <2>4, <2>5 DEF Accounted
<1>7. ASSUME NEW a \in {p.debit, p.credit}, NEW after \in Int, NEW moves \in Int,
             r.own[a] \in EntryInserted(t, a, after), r.moved[a] = row.moved[a] + moves,
             a \notin disturbed => after = shown[a].after + moves
      PROVE  Accounted(t, a)'
  <2>1. Accounted(t, a) /\ a \in LedgerAccounts /\ Names(t, row.next, a)
    BY <1>2, <1>3 DEF BInv, AllAccounted, Names, Current
  <2>2. r.own[a] # Unwritten /\ r.own[a].at = row.at
    BY <1>5, <1>7, <2>1 DEF EntryInserted, Unwritten, Accounted, Wrote
  <2>3. Wrote(t, a)'
    <3>1. row.next < r.next
      BY <1>1, <1>5
    <3>. QED BY <1>1, <1>2, <1>3, <2>1, <2>2, <3>1 DEF Wrote, Names
  <2>4. ASSUME a \notin disturbed
        PROVE  r.own[a].after = shown[a].after + r.moved[a] /\ Leads(t, a)
    <3>1. row.own[a] = Unwritten /\ row.moved[a] = 0 /\ Leads(t, a)
      BY <1>2, <1>3, <2>1, <2>4, FirstEntry
    <3>2. r.own[a] = [at |-> row.at, after |-> after]
      BY <1>7, <3>1 DEF EntryInserted
    <3>. QED BY <1>7, <2>4, <3>1, <3>2
  <2>5. Leads(t, a)'
    BY <1>1, <1>3, <1>4, <2>1, <2>4 DEF Leads, Touches
  <2>6. Timed(t)' /\ HasRead(t, a)'
    BY <1>1, <1>3, <1>5 DEF Timed, HasRead
  <2>. QED BY <2>3, <2>5, <2>6 DEF Accounted
<1>8. row.before \in Seq(Int) /\ Len(row.before) = 2 /\ row.before[1] \in Int /\ row.before[2] \in Int
  <2>1. row.before \in Seq(Int) /\ Len(row.before) = 2
    BY RowTyped DEF BInv, postBalancedLedgerEntryTx
  <2>. QED BY <2>1
<1>9. ASSUME NEW a \in LedgerAccounts, a = p.debit PROVE Accounted(t, a)'
  <2>1. a \notin disturbed => row.before[1] = shown[a].after
    <3>1. HasRead(t, a)
      BY <1>2, <1>3 DEF BInv, AllAccounted, Accounted
    <3>2. Sides(Current(t))[1] = a /\ 1 \in 1..Len(row.before)
      BY <1>8, <1>9 DEF Sides
    <3>. QED BY <3>1, <3>2 DEF HasRead
  <2>2. r.own[a] = d /\ r.moved[a] = row.moved[a] + p.amount
    BY <1>1, <1>2, <1>5, <1>9
  <2>3. /\ p.amount \in Int /\ row.before[1] + p.amount \in Int
        /\ a \notin disturbed => row.before[1] + p.amount = shown[a].after + p.amount
    BY <1>2, <1>8, <2>1
  <2>4. r.own[a] \in EntryInserted(t, a, row.before[1] + p.amount)
    BY <1>1, <2>2, <1>9
  <2>. QED BY <1>7, <1>9, <2>2, <2>3, <2>4
<1>10. ASSUME NEW a \in LedgerAccounts, a = p.credit PROVE Accounted(t, a)'
  <2>1. a \notin disturbed => row.before[2] = shown[a].after
    <3>1. HasRead(t, a)
      BY <1>2, <1>3 DEF BInv, AllAccounted, Accounted
    <3>2. Sides(Current(t))[2] = a /\ 2 \in 1..Len(row.before)
      BY <1>8, <1>10 DEF Sides
    <3>. QED BY <3>1, <3>2 DEF HasRead
  <2>2. r.own[a] = c /\ r.moved[a] = row.moved[a] + (0 - p.amount)
    BY <1>1, <1>2, <1>5, <1>10
  <2>3. /\ 0 - p.amount \in Int /\ row.before[2] - p.amount \in Int
        /\ a \notin disturbed => row.before[2] - p.amount = shown[a].after + (0 - p.amount)
    BY <1>2, <1>8, <2>1
  <2>4. r.own[a] \in EntryInserted(t, a, row.before[2] - p.amount)
    BY <1>1, <2>2, <1>10
  <2>. QED BY <1>7, <1>10, <2>2, <2>3, <2>4
<1>11. ASSUME NEW a \in LedgerAccounts PROVE Accounted(t, a)'
  <2>1. CASE a = p.debit
    BY <1>9, <2>1
  <2>2. CASE a = p.credit
    BY <1>10, <2>2
  <2>3. CASE a # p.debit /\ a # p.credit
    BY <1>6, <2>3
  <2>. QED BY <2>1, <2>2, <2>3
<1>. QED BY <1>4, <1>11 DEF AllAccounted

LEMMA RollbackSound ==
  ASSUME BInv, NEW t \in Transactions, RollbackTx(t)
  PROVE  AllShow' /\ AllAccounted'
<1>1. /\ posting'[t].state = "done" /\ UNCHANGED <<shown, clock, total, disturbed>>
      /\ \A u \in Transactions \ {t} : posting'[u] = posting[u]
  BY DEF BInv, LInv, LedgerTypeOK, RollbackTx, Waiting
<1>. QED BY <1>1, OthersSound DEF AllAccounted, Open

LEMMA CommitSound ==
  ASSUME BInv, NEW t \in Transactions, CommitTx(t)
  PROVE  AllShow' /\ AllAccounted'
<1> DEFINE row == posting[t]
<1>0. /\ clock' = clock /\ disturbed' = disturbed /\ Open(t) /\ posting'[t].state = "done"
      /\ \A u \in Transactions \ {t} : posting'[u] = posting[u]
  BY DEF BInv, LInv, LedgerTypeOK, CommitTx, Waiting
<1>1. ASSUME NEW a \in LedgerAccounts
      PROVE  /\ shown'[a] = IF row.own[a].at > shown[a].at THEN row.own[a] ELSE shown[a]
             /\ total'[a] = total[a] + row.moved[a]
             /\ shown[a].at \in Nat /\ shown[a].after \in Int /\ total[a] \in Int
             /\ row.own[a].at \in Nat /\ row.moved[a] \in Int
             /\ Accounted(t, a) /\ Shows(a)
  BY <1>0, RowTyped DEF CommitTx, BInv, LInv, LedgerTypeOK, AllAccounted, AllShow, Entries
<1>2. ASSUME NEW a \in LedgerAccounts, row.own[a] = Unwritten
      PROVE  shown'[a] = shown[a] /\ total'[a] = total[a]
  <2>1. row.own[a].at = 0 /\ row.moved[a] = 0
    BY <1>1, <1>2 DEF Unwritten, Accounted, Wrote
  <2>. QED BY <1>1, <2>1
<1>3. ASSUME NEW a \in LedgerAccounts, row.own[a] # Unwritten
      PROVE  /\ row.own[a].at <= clock /\ Touches(t, a)
             /\ a \notin disturbed => shown'[a].after = total'[a]
  <2>1. Touches(t, a) /\ row.own[a].at = row.at
    BY <1>1, <1>3 DEF Accounted, Wrote, Touches, Names
  <2>2. row.at <= clock
    BY <1>1 DEF Accounted, Timed
  <2>3. ASSUME a \notin disturbed PROVE shown'[a].after = total'[a]
    <3>1. shown[a].at < row.own[a].at /\ row.own[a].after = shown[a].after + row.moved[a]
      BY <1>1, <1>3, <2>1, <2>3 DEF Accounted, Leads
    <3>2. shown'[a] = row.own[a]
      BY <1>1, <3>1
    <3>. QED BY <1>1, <2>3, <3>1, <3>2 DEF Shows
  <2>. QED BY <2>1, <2>2, <2>3
<1>4. AllShow'
  <2> SUFFICES ASSUME NEW a \in LedgerAccounts PROVE Shows(a)'
    BY DEF AllShow
  <2>1. CASE row.own[a] = Unwritten
    BY <1>0, <1>1, <1>2, <2>1 DEF Shows
  <2>2. CASE row.own[a] # Unwritten
    BY <1>0, <1>1, <1>3, <2>2 DEF Shows
  <2>. QED BY <2>1, <2>2
<1>5. ASSUME NEW u \in Transactions \ {t}, NEW a \in LedgerAccounts, Open(u)'
      PROVE  Accounted(u, a)'
  <2>1. Accounted(u, a) /\ Open(u) /\ posting'[u] = posting[u]
    BY <1>0, <1>5 DEF BInv, AllAccounted, Open
  <2>2. Timed(u)' /\ Wrote(u, a)'
    BY <1>0, <2>1 DEF Accounted, Timed, Wrote, Names
  <2>3. ASSUME a \notin disturbed, Touches(u, a)
        PROVE  shown'[a] = shown[a] /\ ByItself(u, a)'
    <3>1. ByItself(u, a)
      BY <2>1, <2>3 DEF Accounted, Leads
    <3>2. ~ Touches(t, a)
      BY <1>0, <3>1 DEF ByItself
    <3>3. row.own[a] = Unwritten
      BY <1>3, <3>2
    <3>4. ByItself(u, a)'
      BY <1>0, <3>1 DEF ByItself, Open, Touches, WrittenTwice
    <3>. QED BY <1>2, <3>3, <3>4
  <2>4. Leads(u, a)'
    BY <1>0, <2>1, <2>3 DEF Accounted, Leads, Touches
  <2>5. ASSUME NEW j \in 1..Len(posting[u].before), a \notin disturbed, Sides(Current(u))[j] = a
        PROVE  posting[u].before[j] = shown'[a].after
    <3>1. Touches(u, a)
      <4>1. posting[u].before \in Seq(Int) /\ Len(posting[u].before) <= 2 /\ Reading(u)
            /\ posting[u].next \in Nat
        BY RowTyped DEF BInv, Reading
      <4>2. posting[u].next \in DOMAIN Postings[u]
        BY <2>5, <4>1, LengthTyped DEF Reading
      <4>3. j = 1 \/ j = 2
        BY <4>1
      <4>4. a = Postings[u][posting[u].next].debit \/ a = Postings[u][posting[u].next].credit
        BY <2>5, <4>3 DEF Sides, Current
      <4>. QED BY <4>2, <4>4 DEF Touches
    <3>2. posting[u].before[j] = shown[a].after
      BY <2>1, <2>5 DEF Accounted, HasRead
    <3>. QED BY <2>3, <2>5, <3>1, <3>2
  <2>6. HasRead(u, a)'
    BY <1>0, <2>1, <2>5 DEF HasRead, Current
  <2>. QED BY <2>2, <2>4, <2>6 DEF Accounted
<1>6. ~ Open(t)'
  BY <1>0 DEF Open
<1>. QED BY <1>4, <1>5, <1>6 DEF AllAccounted

LEMMA BalancesStep == BInv /\ [LedgerNext]_ledgerVars => BInv'
<1> SUFFICES ASSUME BInv, [LedgerNext]_ledgerVars PROVE BInv'
  OBVIOUS
<1>1. LInv'
  BY LedgerStepTyped DEF BInv
<1>2. CASE UNCHANGED ledgerVars
  <2>1. AllShow'
    BY <1>2 DEF ledgerVars, BInv, AllShow, Shows
  <2>2. AllAccounted'
    BY <1>2 DEF ledgerVars, BInv, AllAccounted, Accounted, Timed, Wrote, Names, Leads, ByItself, HasRead,
                Open, Touches, WrittenTwice, Current
  <2>. QED BY <1>1, <2>1, <2>2 DEF BInv
<1>. QED
  BY <1>1, <1>2, BeginSound, ReadSound, PostSound, CommitSound, RollbackSound
  DEF LedgerNext, BInv

\* The running balance of an account is what its entries add up to unless two
\* open transactions, or two postings of one, have written to it: for any
\* transactions, in any interleaving, with any of them rolled back.
THEOREM BalancesKept == LedgerSpec => []BalancesAddUp
<1>1. LedgerInit => BInv
  BY LedgerInitTyped, BalancesInit DEF BInv
<1>2. BInv => BalancesAddUp
  BY DEF BInv, AllShow, Shows, BalancesAddUp
<1>. QED BY <1>1, <1>2, BalancesStep, PTL DEF LedgerSpec
-----------------------------------------------------------------------------
\* Review cases.

\* A request or an officer refers to a case exactly while its entry is due.
Referring ==
  /\ \A c \in Clients : IF client[c].pc = "entry" THEN client[c].case \in 1..Len(cases)
                                                  ELSE client[c].case = 0
  /\ \A o \in Officers : officer[o] = NoEntry \/ officer[o].case \in 1..Len(cases)

RInv == ReviewTypeOK /\ Referring

LEMMA ReviewInitTyped == ReviewInit => RInv
<1> SUFFICES ASSUME ReviewInit PROVE RInv
  OBVIOUS
<1> DEFINE CaseStates == ValidStatuses \cup {"OPEN"}
<1>1. <<>> \in Seq(CaseStates) /\ Len(cases) = 0
  BY DEF ReviewInit
<1>2. [i \in CaseIds |-> <<>>] \in [CaseIds -> Seq(CaseStates)]
  BY <1>1
<1>3. ReviewTypeOK
  <2>1. cases \in Seq(CaseStates) /\ Len(cases) <= MaxCases
    BY <1>1, ReviewAssumption DEF ReviewInit
  <2>2. timeline \in [CaseIds -> Seq(CaseStates)]
    BY <1>2 DEF ReviewInit
  <2>3. officer \in [Officers -> [case : CaseIds \cup {0}, status : CaseStates]]
    BY DEF ReviewInit, NoEntry
  <2>. QED BY <2>1, <2>2, <2>3 DEF ReviewInit, ReviewTypeOK
<1>4. Referring
  BY DEF ReviewInit, Referring
<1>. QED BY <1>3, <1>4 DEF RInv

\* A request that opens no case and has opened none.
LEMMA TurnTyped ==
  ASSUME RInv, NEW c \in Clients, client[c].pc # "entry",
         NEW pc \in {"idle", "monitor", "patterns", "insert", "refuse"}, Turns(c, pc),
         UNCHANGED <<cases, timeline, officer, blurred>>,
         recent' \in Nat, losses' \in Nat, unchecked' \in BOOLEAN
  PROVE  RInv'
<1>1. client[c] \in [pc : {"idle", "monitor", "patterns", "insert", "refuse", "entry"},
                     case : CaseIds \cup {0}]
  BY DEF RInv, ReviewTypeOK
<1>2. client' = [client EXCEPT ![c] = [pc |-> pc, case |-> client[c].case]]
  <2>1. [client[c] EXCEPT !.pc = pc] = [pc |-> pc, case |-> client[c].case]
    BY <1>1
  <2>. QED BY <2>1 DEF Turns
<1>3. ReviewTypeOK'
  BY <1>1, <1>2 DEF RInv, ReviewTypeOK
<1>4. Referring'
  <2>1. client'[c] = [pc |-> pc, case |-> 0]
    BY <1>2 DEF RInv, ReviewTypeOK, Referring
  <2>2. \A d \in Clients \ {c} : client'[d] = client[d]
    BY <1>2
  <2>3. \A d \in Clients : IF client'[d].pc = "entry" THEN client'[d].case \in 1..Len(cases)
                                                      ELSE client'[d].case = 0
    BY <2>1, <2>2 DEF RInv, Referring
  <2>. QED BY <2>3 DEF RInv, Referring
<1>. QED BY <1>3, <1>4 DEF RInv

\* A case that is opened is typed and numbered next.
LEMMA OpenedTyped ==
  ASSUME RInv, NEW c \in Clients, createAMLReviewCase(c)
  PROVE  RInv'
<1> USE ReviewAssumption DEF RInv, createAMLReviewCase
<1>1. CASE Turns(c, "idle") /\ Loss /\ UNCHANGED cases
  BY <1>1, TurnTyped DEF Loss, Doing, ReviewTypeOK
<1>2. CASE /\ Len(cases) < MaxCases
           /\ cases' = Append(cases, "OPEN")
           /\ client' = [client EXCEPT ![c] = [pc |-> "entry", case |-> Len(cases) + 1]]
           /\ UNCHANGED losses
  <2>1. Len(cases') = Len(cases) + 1 /\ cases' \in Seq(ValidStatuses \cup {"OPEN"})
    BY <1>2 DEF ReviewTypeOK
  <2>2. ReviewTypeOK'
    BY <1>2, <2>1 DEF ReviewTypeOK, CaseIds
  <2>3. Referring'
    BY <1>2, <2>1 DEF Referring, ReviewTypeOK
  <2>. QED BY <2>2, <2>3
<1>. QED BY <1>1, <1>2

LEMMA EntryTyped ==
  ASSUME RInv, NEW i \in CaseIds, NEW status \in ValidStatuses \cup {"OPEN"},
         Entered(i, status)
  PROVE  /\ timeline' \in [CaseIds -> Seq(ValidStatuses \cup {"OPEN"})]
         /\ blurred' \subseteq CaseIds /\ losses' \in Nat
<1>1. timeline[i] \in Seq(ValidStatuses \cup {"OPEN"})
  BY DEF RInv, ReviewTypeOK
<1>2. Append(timeline[i], status) \in Seq(ValidStatuses \cup {"OPEN"})
  BY <1>1
<1>3. CASE timeline' = [timeline EXCEPT ![i] = Append(@, status)] /\ UNCHANGED <<blurred, losses>>
  BY <1>2, <1>3 DEF RInv, ReviewTypeOK
<1>4. CASE blurred' = blurred \cup {i} /\ Loss /\ UNCHANGED timeline
  BY <1>4 DEF RInv, ReviewTypeOK, Loss
<1>. QED BY <1>3, <1>4 DEF Entered

LEMMA ReviewStepTyped == RInv /\ [ReviewNext]_reviewVars => RInv'
<1> SUFFICES ASSUME RInv, [ReviewNext]_reviewVars PROVE RInv'
  OBVIOUS
<1> USE ReviewAssumption DEF RInv
<1>1. CASE UNCHANGED reviewVars
  BY <1>1 DEF reviewVars, ReviewTypeOK, Referring
<1>2. CASE QuoteAges
  BY <1>2 DEF QuoteAges, ReviewTypeOK, Referring
<1>3. ASSUME NEW c \in Clients,
             evaluateScreeningChecks(c) \/ evaluateTradeMonitoring(c) \/ FindPatterns(c)
      PROVE  RInv'
  BY <1>3, TurnTyped
  DEF evaluateScreeningChecks, evaluateTradeMonitoring, FindPatterns, Doing, ReviewTypeOK
<1>4. ASSUME NEW c \in Clients, CountRecentQuotes(c) \/ InsertQuote(c)
      PROVE  RInv'
  <2>1. CASE InsertQuote(c)
    BY <2>1, TurnTyped DEF InsertQuote, Doing, ReviewTypeOK
  <2>2. CASE CountRecentQuotes(c)
    <3>1. Turns(c, "patterns") \/ Turns(c, "refuse")
      BY <2>2 DEF CountRecentQuotes, Turns
    <3>2. /\ client[c].pc # "entry" /\ UNCHANGED <<recent, cases, timeline, officer, blurred>>
          /\ losses' \in Nat /\ unchecked' \in BOOLEAN
      <4>1. CASE UNCHANGED <<unchecked, losses>>
        BY <2>2, <4>1 DEF CountRecentQuotes, Doing, ReviewTypeOK
      <4>2. CASE unchecked' = TRUE /\ Loss
        BY <2>2, <4>2 DEF CountRecentQuotes, Doing, Loss, ReviewTypeOK
      <4>. QED BY <2>2, <4>1, <4>2 DEF CountRecentQuotes
    <3>. QED BY <3>1, <3>2, TurnTyped DEF ReviewTypeOK
  <2>. QED BY <1>4, <2>1, <2>2
<1>5. ASSUME NEW c \in Clients, EnterOpened(c)
      PROVE  RInv'
  <2>1. client[c].case \in CaseIds /\ client[c].case \in 1..Len(cases)
    BY <1>5 DEF EnterOpened, Doing, ReviewTypeOK, Referring, CaseIds
  <2>2. /\ timeline' \in [CaseIds -> Seq(ValidStatuses \cup {"OPEN"})]
        /\ blurred' \subseteq CaseIds /\ losses' \in Nat
    BY <1>5, <2>1, EntryTyped DEF EnterOpened
  <2>. QED BY <1>5, <2>2 DEF EnterOpened, ReviewTypeOK, Referring
<1>6. ASSUME NEW o \in Officers, EnterDisposition(o)
      PROVE  RInv'
  <2>1. officer[o].case \in CaseIds /\ officer[o].status \in ValidStatuses \cup {"OPEN"}
    BY <1>6 DEF EnterDisposition, ReviewTypeOK, Referring, CaseIds
  <2>2. /\ timeline' \in [CaseIds -> Seq(ValidStatuses \cup {"OPEN"})]
        /\ blurred' \subseteq CaseIds /\ losses' \in Nat
    BY <1>6, <2>1, EntryTyped DEF EnterDisposition
  <2>. QED BY <1>6, <2>2 DEF EnterDisposition, ReviewTypeOK, Referring, NoEntry
<1>7. ASSUME NEW o \in Officers, NEW i \in CaseIds, NEW status \in Dispositions,
             DispositionAMLCase(o, i, status)
      PROVE  RInv'
  <2>1. /\ cases' \in Seq(ValidStatuses \cup {"OPEN"}) /\ Len(cases') = Len(cases)
        /\ i \in 1..Len(cases)
    BY <1>7 DEF DispositionAMLCase, ReviewTypeOK
  <2>. QED BY <1>7, <2>1 DEF DispositionAMLCase, ReviewTypeOK, Referring, CaseIds
<1>. QED
  BY <1>1, <1>2, <1>3, <1>4, <1>5, <1>6, <1>7, OpenedTyped DEF ReviewNext

\* Cases, timelines and requests are well-formed in every state.
THEOREM ReviewTyped == ReviewSpec => []ReviewTypeOK
<1>1. RInv => ReviewTypeOK
  BY DEF RInv
<1>. QED BY <1>1, ReviewInitTyped, ReviewStepTyped, PTL DEF ReviewSpec
-----------------------------------------------------------------------------
(***************************************************************************)
(* The velocity check.  VelocityOvershoot is not inductive: what bounds    *)
(* the quotes to come are the requests that have passed the count and not  *)
(* yet inserted their quote.                                               *)
(***************************************************************************)
Passed == {c \in Clients : client[c].pc \in {"patterns", "insert"}}
VInv == unchecked \/ recent + Cardinality(Passed) < VelocityThreshold + Cardinality(Clients)

LEMMA PassedFinite ==
  /\ IsFiniteSet(Passed) /\ Cardinality(Passed) \in Nat
  /\ Cardinality(Clients) \in Nat /\ Cardinality(Clients) > 0
  /\ Cardinality(Passed) <= Cardinality(Clients)
<1>1. Passed \subseteq Clients
  BY DEF Passed
<1>2. IsFiniteSet(Passed) /\ Cardinality(Passed) <= Cardinality(Clients)
  BY <1>1, FS_Subset, ReviewAssumption
<1>3. Cardinality(Passed) \in Nat /\ Cardinality(Clients) \in Nat
  BY <1>2, FS_CardinalityType, ReviewAssumption
<1>4. Cardinality(Clients) # 0
  BY FS_EmptySet, ReviewAssumption
<1>. QED BY <1>2, <1>3, <1>4

LEMMA PassedBefore ==
  ASSUME NEW c \in Clients \ Passed
  PROVE  Cardinality(Passed) < Cardinality(Clients)
<1>1. Passed \cup {c} \subseteq Clients
  BY DEF Passed
<1>2. Cardinality(Passed \cup {c}) <= Cardinality(Clients)
  BY <1>1, FS_Subset, ReviewAssumption
<1>3. Cardinality(Passed \cup {c}) = Cardinality(Passed) + 1
  BY PassedFinite, FS_AddElement
<1>. QED BY <1>2, <1>3, PassedFinite

LEMMA VelocityInit == ReviewInit => VInv
<1> SUFFICES ASSUME ReviewInit PROVE VInv
  OBVIOUS
<1>1. Passed = {}
  BY DEF ReviewInit, Passed
<1>2. Cardinality(Passed) = 0
  BY <1>1, FS_EmptySet
<1>. QED BY <1>2, PassedFinite, ReviewAssumption DEF ReviewInit, VInv

\* A step that lets nobody pass and inserts nothing.
LEMMA VelocityKept ==
  ASSUME VInv, RInv, Passed' \subseteq Passed, recent' <= recent, recent' \in Nat,
         unchecked => unchecked'
  PROVE  VInv'
<1>1. IsFiniteSet(Passed') /\ Cardinality(Passed') <= Cardinality(Passed)
  BY PassedFinite, FS_Subset
<1>2. Cardinality(Passed') \in Nat
  BY <1>1, FS_CardinalityType
<1>. QED BY <1>1, <1>2, PassedFinite, ReviewAssumption DEF VInv, RInv, ReviewTypeOK

LEMMA VelocityStep == RInv /\ VInv /\ [ReviewNext]_reviewVars => VInv'
<1> SUFFICES ASSUME RInv, VInv, [ReviewNext]_reviewVars PROVE VInv'
  OBVIOUS
<1>0. client \in [Clients -> [pc : {"idle", "monitor", "patterns", "insert", "refuse", "entry"},
                              case : CaseIds \cup {0}]] /\ recent \in Nat
  BY DEF RInv, ReviewTypeOK
<1>1. CASE UNCHANGED reviewVars
  BY <1>1 DEF reviewVars, VInv, Passed
<1>2. CASE QuoteAges
  <2>1. Passed' = Passed /\ recent' <= recent /\ recent' \in Nat
    BY <1>0, <1>2 DEF QuoteAges, Passed
  <2>. QED BY <1>2, <2>1, VelocityKept DEF QuoteAges
<1>3. ASSUME NEW c \in Clients,
             \/ evaluateScreeningChecks(c) \/ evaluateTradeMonitoring(c) \/ FindPatterns(c)
             \/ createAMLReviewCase(c) \/ EnterOpened(c)
      PROVE  VInv'
  <2>1. Passed' \subseteq Passed
    BY <1>0, <1>3 DEF evaluateScreeningChecks, evaluateTradeMonitoring, FindPatterns,
                      createAMLReviewCase, EnterOpened, Turns, Doing, Passed
  <2>2. recent' = recent /\ unchecked' = unchecked
    BY <1>3 DEF evaluateScreeningChecks, evaluateTradeMonitoring, FindPatterns,
                createAMLReviewCase, EnterOpened
  <2>. QED BY <1>0, <2>1, <2>2, VelocityKept
<1>4. ASSUME NEW c \in Clients, CountRecentQuotes(c)
      PROVE  VInv'
  <2>1. CASE unchecked' = TRUE
    BY <2>1 DEF VInv
  <2>2. CASE Turns(c, "refuse") /\ UNCHANGED unchecked
    <3>1. Passed' \subseteq Passed
      BY <1>0, <2>2 DEF Turns, Passed
    <3>. QED BY <1>0, <1>4, <2>2, <3>1, VelocityKept DEF CountRecentQuotes
  <2>3. CASE recent < VelocityThreshold /\ Turns(c, "patterns")
    <3>1. Passed' = Passed \cup {c} /\ c \notin Passed
      BY <1>0, <1>4, <2>3 DEF CountRecentQuotes, Doing, Turns, Passed
    <3>2. Cardinality(Passed') = Cardinality(Passed) + 1
      BY <3>1, PassedFinite, FS_AddElement
    <3>3. Cardinality(Passed) < Cardinality(Clients)
      BY <3>1, PassedBefore
    <3>. QED BY <1>0, <1>4, <2>3, <3>2, <3>3, PassedFinite, ReviewAssumption
             DEF VInv, CountRecentQuotes
  <2>4. recent >= VelocityThreshold \/ recent < VelocityThreshold
    BY <1>0, ReviewAssumption
  <2>. QED BY <1>4, <2>1, <2>2, <2>3, <2>4 DEF CountRecentQuotes, Turns
<1>5. ASSUME NEW c \in Clients, InsertQuote(c)
      PROVE  VInv'
  <2>1. Passed' = Passed \ {c} /\ c \in Passed
    BY <1>0, <1>5 DEF InsertQuote, Doing, Turns, Passed
  <2>2. Cardinality(Passed') = Cardinality(Passed) - 1
    BY <2>1, PassedFinite, FS_RemoveElement
  <2>. QED BY <1>0, <1>5, <2>2, PassedFinite, ReviewAssumption DEF VInv, InsertQuote
<1>6. ASSUME NEW o \in Officers,
             EnterDisposition(o) \/
             \E i \in CaseIds, status \in Dispositions : DispositionAMLCase(o, i, status)
      PROVE  VInv'
  BY <1>6 DEF EnterDisposition, DispositionAMLCase, VInv, Passed
<1>. QED BY <1>1, <1>2, <1>3, <1>4, <1>5, <1>6 DEF ReviewNext

\* Concurrent requests overshoot the threshold of the velocity check by fewer
\* quotes than there are requests, for any threshold and any number of them.
THEOREM VelocityBounded == ReviewSpec => []VelocityOvershoot
<1>1. RInv /\ VInv => VelocityOvershoot
  BY PassedFinite, ReviewAssumption DEF RInv, VInv, VelocityOvershoot, ReviewTypeOK
<1>. QED
  BY <1>1, ReviewInitTyped, ReviewStepTyped, VelocityInit, VelocityStep, PTL DEF ReviewSpec
-----------------------------------------------------------------------------
(***************************************************************************)
(* The timelines.  While an entry is due its writer holds the status of    *)
(* the case; after it the timeline ends with that status.                  *)
(***************************************************************************)
Told(i) == timeline[i] # <<>> /\ timeline[i][Len(timeline[i])] = cases[i]
Holds(i) ==
  /\ \A c \in Clients : client[c].case = i => cases[i] = "OPEN"
  /\ \A o \in Officers : officer[o].case = i => officer[o].status = cases[i]
  /\ EntryPending(i) \/ Told(i)
TimelineInv == \A i \in DOMAIN cases : i \in blurred \/ Holds(i)

LEMMA EntryTells ==
  ASSUME RInv, NEW i \in DOMAIN cases, Entered(i, cases[i]), UNCHANGED cases
  PROVE  i \in blurred' \/ Told(i)'
<1>1. i \in CaseIds /\ timeline[i] \in Seq(ValidStatuses \cup {"OPEN"})
  BY ReviewAssumption DEF RInv, ReviewTypeOK, CaseIds
<1>2. CASE timeline' = [timeline EXCEPT ![i] = Append(@, cases[i])]
  <2>1. timeline'[i] = Append(timeline[i], cases[i])
    BY <1>1, <1>2 DEF RInv, ReviewTypeOK
  <2>2. timeline'[i] # <<>> /\ timeline'[i][Len(timeline'[i])] = cases[i]
    BY <1>1, <2>1
  <2>. QED BY <2>2 DEF Told
<1>. QED BY <1>2 DEF Entered

\* An entry leaves the other cases alone.
LEMMA OthersTold ==
  ASSUME NEW i, NEW status, NEW j, j # i, RInv, j \in CaseIds, Entered(i, status)
  PROVE  timeline'[j] = timeline[j] /\ (j \in blurred' <=> j \in blurred)
  BY DEF Entered, RInv, ReviewTypeOK

LEMMA TimelineStep == RInv /\ RInv' /\ TimelineInv /\ [ReviewNext]_reviewVars => TimelineInv'
<1> SUFFICES ASSUME RInv, RInv', TimelineInv, [ReviewNext]_reviewVars PROVE TimelineInv'
  OBVIOUS
<1>0. /\ DOMAIN cases = 1..Len(cases) /\ DOMAIN cases \subseteq CaseIds
      /\ client \in [Clients -> [pc : {"idle", "monitor", "patterns", "insert", "refuse", "entry"},
                                 case : CaseIds \cup {0}]]
      /\ officer \in [Officers -> [case : CaseIds \cup {0}, status : ValidStatuses \cup {"OPEN"}]]
      /\ 0 \notin DOMAIN cases
  BY ReviewAssumption DEF RInv, ReviewTypeOK, CaseIds
<1>1. ASSUME UNCHANGED <<cases, timeline, officer, blurred>>,
             \A c \in Clients : client'[c].case = client[c].case
      PROVE  TimelineInv'
  BY <1>1 DEF TimelineInv, Holds, Told, EntryPending
<1>2. CASE UNCHANGED reviewVars \/ QuoteAges
  BY <1>1, <1>2 DEF reviewVars, QuoteAges
<1>3. ASSUME NEW c \in Clients,
             \/ evaluateScreeningChecks(c) \/ evaluateTradeMonitoring(c) \/ FindPatterns(c)
             \/ CountRecentQuotes(c) \/ InsertQuote(c)
      PROVE  TimelineInv'
  <2>1. \A d \in Clients : client'[d].case = client[d].case
    BY <1>0, <1>3 DEF evaluateScreeningChecks, evaluateTradeMonitoring, FindPatterns,
                      CountRecentQuotes, InsertQuote, Turns
  <2>2. UNCHANGED <<cases, timeline, officer, blurred>>
    BY <1>3 DEF evaluateScreeningChecks, evaluateTradeMonitoring, FindPatterns,
                CountRecentQuotes, InsertQuote
  <2>. QED BY <1>1, <2>1, <2>2
<1>4. ASSUME NEW c \in Clients, createAMLReviewCase(c)
      PROVE  TimelineInv'
  <2>1. CASE Turns(c, "idle") /\ UNCHANGED cases
    <3>1. \A d \in Clients : client'[d].case = client[d].case
      BY <1>0, <2>1 DEF Turns
    <3>. QED BY <1>1, <1>4, <2>1, <3>1 DEF createAMLReviewCase
  <2>2. CASE /\ cases' = Append(cases, "OPEN")
             /\ client' = [client EXCEPT ![c] = [pc |-> "entry", case |-> Len(cases) + 1]]
    <3> SUFFICES ASSUME NEW i \in DOMAIN cases', i \notin blurred' PROVE Holds(i)'
      BY DEF TimelineInv
    <3>0. UNCHANGED <<timeline, officer, blurred>>
      BY <1>4 DEF createAMLReviewCase
    <3>1. /\ cases \in Seq(ValidStatuses \cup {"OPEN"}) /\ Len(cases') = Len(cases) + 1
          /\ DOMAIN cases' = 1..Len(cases')
      BY <2>2 DEF RInv, ReviewTypeOK
    <3>2. \A d \in Clients : client[d].case \in 0..Len(cases)
      BY <3>1 DEF RInv, Referring
    <3>3. \A o \in Officers : officer[o].case \in 0..Len(cases)
      BY <3>1 DEF RInv, Referring, NoEntry
    <3>a. client[c].case = 0
      BY <1>4 DEF createAMLReviewCase, Doing, RInv, Referring
    <3>4. CASE i = Len(cases) + 1
      <4>1. cases'[i] = "OPEN" /\ client'[c].case = i
        BY <1>0, <2>2, <3>1, <3>4
      <4>2. \A o \in Officers : officer'[o].case # i
        BY <3>0, <3>1, <3>3, <3>4
      <4>. QED BY <4>1, <4>2 DEF Holds, EntryPending
    <3>5. CASE i # Len(cases) + 1
      <4>1. i \in DOMAIN cases /\ cases'[i] = cases[i] /\ i # 0
        BY <1>0, <2>2, <3>1, <3>5
      <4>2. \A d \in Clients : client'[d].case = i <=> client[d].case = i
        BY <1>0, <2>2, <3>5, <4>1, <3>1, <3>a
      <4>3. Holds(i)
        BY <3>0, <4>1 DEF TimelineInv
      <4>. QED BY <3>0, <4>1, <4>2, <4>3 DEF Holds, EntryPending, Told
    <3>. QED BY <3>4, <3>5
  <2>. QED BY <1>4, <2>1, <2>2 DEF createAMLReviewCase
<1>5. ASSUME NEW c \in Clients, EnterOpened(c)
      PROVE  TimelineInv'
  <2> DEFINE e == client[c].case
  <2>1. e \in DOMAIN cases /\ UNCHANGED <<cases, officer>> /\ Entered(e, "OPEN")
    BY <1>0, <1>5 DEF EnterOpened, Doing, RInv, Referring
  <2>2. \A d \in Clients : client'[d].case = IF d = c THEN 0 ELSE client[d].case
    BY <1>0, <1>5 DEF EnterOpened
  <2> SUFFICES ASSUME NEW i \in DOMAIN cases, i \notin blurred' PROVE Holds(i)'
    BY <2>1 DEF TimelineInv
  <2>3. i \notin blurred /\ Holds(i)
    BY <2>1 DEF Entered, TimelineInv
  <2>4. CASE i = e
    <3>1. cases[i] = "OPEN"
      BY <2>3, <2>4 DEF Holds
    <3>2. Told(i)'
      BY <2>1, <2>4, <3>1, EntryTells
    <3>. QED BY <1>0, <2>1, <2>2, <2>3, <3>2 DEF Holds
  <2>5. CASE i # e
    <3>1. timeline'[i] = timeline[i]
      BY <1>0, <2>1, <2>5, OthersTold
    <3>. QED BY <1>0, <2>1, <2>2, <2>3, <2>5, <3>1 DEF Holds, EntryPending, Told
  <2>. QED BY <2>4, <2>5
<1>6. ASSUME NEW o \in Officers, EnterDisposition(o)
      PROVE  TimelineInv'
  <2> DEFINE e == officer[o].case
  <2>1. e \in DOMAIN cases /\ UNCHANGED <<cases, client>> /\ Entered(e, officer[o].status)
    BY <1>0, <1>6 DEF EnterDisposition, RInv, Referring
  <2>2. \A p \in Officers : officer'[p] = IF p = o THEN NoEntry ELSE officer[p]
    BY <1>0, <1>6 DEF EnterDisposition
  <2> SUFFICES ASSUME NEW i \in DOMAIN cases, i \notin blurred' PROVE Holds(i)'
    BY <2>1 DEF TimelineInv
  <2>3. i \notin blurred /\ Holds(i)
    BY <2>1 DEF Entered, TimelineInv
  <2>4. CASE i = e
    <3>1. cases[i] = officer[o].status
      BY <2>3, <2>4 DEF Holds
    <3>2. Told(i)'
      BY <2>1, <2>4, <3>1, EntryTells
    <3>. QED BY <1>0, <2>1, <2>2, <2>3, <3>2 DEF Holds, NoEntry
  <2>5. CASE i # e
    <3>1. timeline'[i] = timeline[i]
      BY <1>0, <2>1, <2>5, OthersTold
    <3>. QED BY <1>0, <2>1, <2>2, <2>3, <2>5, <3>1 DEF Holds, EntryPending, Told, NoEntry
  <2>. QED BY <2>4, <2>5
<1>7. ASSUME NEW o \in Officers, NEW e \in CaseIds, NEW status \in Dispositions,
             DispositionAMLCase(o, e, status)
      PROVE  TimelineInv'
  <2>1. /\ e \in DOMAIN cases /\ cases' = [cases EXCEPT ![e] = status]
        /\ DOMAIN cases' = DOMAIN cases /\ UNCHANGED <<client, timeline>>
    BY <1>7 DEF DispositionAMLCase
  <2>2. \A p \in Officers : officer'[p] = IF p = o THEN [case |-> e, status |-> status]
                                                   ELSE officer[p]
    BY <1>0, <1>7 DEF DispositionAMLCase
  <2> SUFFICES ASSUME NEW i \in DOMAIN cases, i \notin blurred' PROVE Holds(i)'
    BY <2>1 DEF TimelineInv
  <2>3. i \notin blurred /\ Holds(i)
    BY <1>7 DEF DispositionAMLCase, TimelineInv
  <2>4. CASE i = e
    <3>1. ~ EntryPending(i)
      BY <1>7, <2>4 DEF DispositionAMLCase
    <3>2. cases'[i] = status
      BY <2>1, <2>4
    <3>. QED BY <2>1, <2>2, <2>4, <3>1, <3>2 DEF Holds, EntryPending
  <2>5. CASE i # e
    <3>1. cases'[i] = cases[i]
      BY <2>1, <2>5
    <3>2. officer[o].case = 0
      BY <1>7 DEF DispositionAMLCase, NoEntry
    <3>. QED BY <1>0, <2>1, <2>2, <2>3, <2>5, <3>1, <3>2 DEF Holds, EntryPending, Told
  <2>. QED BY <2>4, <2>5
<1>. QED BY <1>2, <1>3, <1>4, <1>5, <1>6, <1>7 DEF ReviewNext

\* The timeline of every case ends with its status once its entries are made,
\* unless an entry was lost or the case updated before the last was made.
THEOREM TimelinesTell == ReviewSpec => []TimelineTells
<1>1. ReviewInit => TimelineInv
  BY DEF ReviewInit, TimelineInv
<1>2. TimelineInv => TimelineTells
  BY DEF TimelineInv, TimelineTells, Holds, Told
<1>. QED
  BY <1>1, <1>2, ReviewInitTyped, ReviewStepTyped, TimelineStep, PTL DEF ReviewSpec
-----------------------------------------------------------------------------
\* The rate limiter.

CountingRequests == [pc : {"idle", "add", "trim", "expire", "count"}, stamp : Nat]

\* A request in progress came at most Delay instants ago.
Timely == \A w \in Workers :
            ~ At(w, "idle") => Stamp(w) \in 1..instant /\ instant <= Stamp(w) + Delay

\* The instants of the requests let through: what the set can tell.
Times == {r.at : r \in admitted}
ClockTyped ==
  /\ instant \in Nat /\ expires \in Nat /\ spoilt \in BOOLEAN
  /\ members \subseteq 1..instant /\ Times \subseteq 1..instant
  /\ request \in [Workers -> CountingRequests]

\* The set keeps every admitted request of the last Window instants and every
\* counted request in progress, and its key lives long enough for that.
AdmittedKept == \A a \in Times : a \in members \/ a + Window <= instant
Counted(w) == At(w, "trim") \/ At(w, "expire") \/ At(w, "count")
CountedKept == \A w \in Workers : Counted(w) => Stamp(w) \in members
KeyOutlives ==
  expires # 0 => \A a \in members :
                   \/ expires >= a + Window
                   \/ \E w \in Workers : (At(w, "trim") \/ At(w, "expire")) /\ Stamp(w) = a

Kept == AdmittedKept /\ CountedKept /\ KeyOutlives
\* At most Limit of these instants lie in a window.
TimesWithinLimit ==
  spoilt \/ \A t \in 1..instant :
    Cardinality({s \in Times : t - (Window - Delay) < s /\ s <= t}) <= Limit

LimiterInv ==
  /\ ClockTyped /\ instant >= 1 /\ Timely /\ (spoilt \/ Kept) /\ TimesWithinLimit

LEMMA TimesStay == UNCHANGED admitted => UNCHANGED Times
  BY DEF Times

LEMMA PassAddsTime ==
  ASSUME NEW w \in Workers, Passes(w)
  PROVE  Ends(w) /\ Times' = Times \cup {Stamp(w)}
<1> DEFINE r == [at |-> Stamp(w), nth |-> Together(Stamp(w)) + 1]
<1>1. admitted' = admitted \cup {r} /\ r.at = Stamp(w) /\ Ends(w)
  BY DEF Passes
<1> HIDE DEF r
<1>. QED BY <1>1 DEF Times

LEMMA LimiterInit1 == LimiterInit => LimiterInv
<1> SUFFICES ASSUME LimiterInit PROVE LimiterInv
  OBVIOUS
<1>1. Done \in CountingRequests /\ Done.pc = "idle" /\ \A w \in Workers : request[w] = Done
  BY DEF LimiterInit, Done, CountingRequests
<1>0. Times = {}
  BY DEF LimiterInit, Times
<1>2. ClockTyped
  BY <1>0, <1>1 DEF LimiterInit, ClockTyped, CountingRequests
<1>3. Timely
  BY <1>1 DEF Timely, At
<1>4. Kept
  BY <1>0, <1>1 DEF LimiterInit, Kept, AdmittedKept, CountedKept, Counted, KeyOutlives, At
<1>5. ASSUME NEW t \in 1..instant
      PROVE  Cardinality({s \in Times : t - (Window - Delay) < s /\ s <= t}) <= Limit
  <2>1. {s \in Times : t - (Window - Delay) < s /\ s <= t} = {}
    BY <1>0
  <2>. QED BY <2>1, FS_EmptySet, LimiterAssumption
<1>6. instant >= 1
  BY DEF LimiterInit
<1>. QED BY <1>2, <1>3, <1>4, <1>5, <1>6 DEF LimiterInv, TimesWithinLimit

\* The state of the requests after a step of one of them.
LEMMA RequestMoves ==
  ASSUME ClockTyped, NEW w \in Workers, NEW r \in CountingRequests,
         request' = [request EXCEPT ![w] = r]
  PROVE  /\ request' \in [Workers -> CountingRequests]
         /\ \A v \in Workers : request'[v] = IF v = w THEN r ELSE request[v]
  BY DEF ClockTyped, CountingRequests

LEMMA ThenMoves ==
  ASSUME ClockTyped, NEW w \in Workers,
         NEW pc \in {"idle", "add", "trim", "expire", "count"}, Then(w, pc)
  PROVE  /\ request' \in [Workers -> CountingRequests]
         /\ \A v \in Workers \ {w} : request'[v] = request[v]
         /\ request'[w].pc = pc /\ request'[w].stamp = request[w].stamp
  BY DEF ClockTyped, CountingRequests, Then

LEMMA EndMoves ==
  ASSUME ClockTyped, NEW w \in Workers, Ends(w)
  PROVE  /\ request' \in [Workers -> CountingRequests]
         /\ \A v \in Workers \ {w} : request'[v] = request[v]
         /\ request'[w].pc = "idle"
<1>1. Done \in CountingRequests /\ Done.pc = "idle"
  BY DEF Done, CountingRequests
<1>. QED BY <1>1, RequestMoves DEF Ends

\* The instants of requests let through in the window that ends at t.
Recent(t) == {s \in Times : t - (Window - Delay) < s /\ s <= t}

LEMMA IntervalFinite == ASSUME NEW n \in Nat PROVE IsFiniteSet(1..n)
<1>1. n \in Int /\ 1 \in Int
  OBVIOUS
<1>. QED BY <1>1, FS_Interval

LEMMA RecentFinite ==
  ASSUME ClockTyped, NEW t \in Int
  PROVE  IsFiniteSet(Recent(t)) /\ Cardinality(Recent(t)) \in Nat
<1>1. Recent(t) \subseteq 1..instant /\ IsFiniteSet(1..instant)
  BY IntervalFinite DEF ClockTyped, Recent
<1>. QED BY <1>1, FS_Subset, FS_CardinalityType

\* A step that admits nobody keeps the limit as it was, also when time passes:
\* a window that ends later holds only requests of one that ends now.
LEMMA NobodyAdmitted ==
  ASSUME LimiterInv, UNCHANGED Times, instant' \in {instant, instant + 1},
         spoilt => spoilt'
  PROVE  TimesWithinLimit'
<1>1. CASE spoilt
  BY <1>1 DEF TimesWithinLimit
<1>2. CASE ~ spoilt
  <2>1. /\ ClockTyped /\ instant \in Nat /\ instant \in 1..instant
        /\ Times \subseteq 1..instant
        /\ \A t \in 1..instant : Cardinality(Recent(t)) <= Limit
    BY <1>2 DEF LimiterInv, ClockTyped, TimesWithinLimit, Recent
  <2>2. Cardinality(Recent(instant + 1)) <= Limit
    <3>1. ASSUME NEW s \in Recent(instant + 1) PROVE s \in Recent(instant)
      BY <2>1, <3>1, LimiterAssumption DEF Recent
    <3>2. /\ IsFiniteSet(Recent(instant)) /\ Cardinality(Recent(instant)) \in Nat
          /\ Cardinality(Recent(instant + 1)) \in Nat
      BY <2>1, RecentFinite
    <3>3. Cardinality(Recent(instant + 1)) <= Cardinality(Recent(instant))
      BY <3>1, <3>2, FS_Subset
    <3>. QED BY <2>1, <3>2, <3>3, LimiterAssumption
  <2>3. ASSUME NEW t \in 1..instant' PROVE Cardinality(Recent(t)) <= Limit
    <3>1. t \in 1..instant \/ t = instant + 1
      BY <2>1
    <3>. QED BY <2>1, <2>2, <3>1
  <2>. QED BY <2>3 DEF TimesWithinLimit, Recent
<1>. QED BY <1>1, <1>2

\* A request is let through that was counted and is still in the set, which
\* holds at most Limit members: every window that contains it lies in the set.
LEMMA OneAdmitted ==
  ASSUME LimiterInv, ClockTyped', ~ spoilt, UNCHANGED <<instant, members>>,
         NEW w \in Workers, ~ At(w, "idle"), Stamp(w) \in members, Cardinality(members) <= Limit,
         Times' = Times \cup {Stamp(w)}
  PROVE  TimesWithinLimit'
<1>1. /\ ClockTyped /\ Kept /\ instant \in Nat /\ Times \subseteq 1..instant
      /\ Stamp(w) \in 1..instant /\ instant <= Stamp(w) + Delay
      /\ members \subseteq 1..instant
      /\ \A t \in 1..instant : Cardinality(Recent(t)) <= Limit
  BY DEF LimiterInv, ClockTyped, TimesWithinLimit, Recent, Timely
<1>2. ASSUME NEW t \in 1..instant PROVE Cardinality(Recent(t)') <= Limit
  <2> DEFINE S == Stamp(w)
  <2>1. Recent(t)' = {s \in Times \cup {S} : t - (Window - Delay) < s /\ s <= t}
    BY DEF Recent
  <2>2. CASE ~ (t - (Window - Delay) < S /\ S <= t)
    <3>1. Recent(t)' = Recent(t)
      BY <2>1, <2>2 DEF Recent
    <3>. QED BY <1>1, <3>1
  <2>3. CASE t - (Window - Delay) < S /\ S <= t
    <3>1. ASSUME NEW s \in Recent(t)' PROVE s \in members
      <4>1. CASE s = S
        BY <4>1
      <4>2. CASE s # S
        <5>1. s \in Times /\ s \in 1..instant /\ t - (Window - Delay) < s
          BY <1>1, <2>1, <3>1, <4>2
        <5>2. s + Window > instant
          BY <1>1, <2>3, <5>1, LimiterAssumption
        <5>3. s \in members \/ s + Window <= instant
          BY <1>1, <5>1 DEF Kept, AdmittedKept
        <5>. QED BY <1>1, <5>1, <5>2, <5>3, LimiterAssumption
      <4>. QED BY <4>1, <4>2
    <3>2. IsFiniteSet(members) /\ Cardinality(members) \in Nat
      BY <1>1, IntervalFinite, FS_Subset, FS_CardinalityType
    <3>3. Cardinality(Recent(t)') <= Cardinality(members) /\ Cardinality(Recent(t)') \in Nat
      BY <3>1, <3>2, FS_Subset, FS_CardinalityType
    <3>. QED BY <3>2, <3>3, LimiterAssumption
  <2>. QED BY <2>2, <2>3
<1>. QED BY <1>2 DEF TimesWithinLimit, Recent

LEMMA ArriveKeeps == ASSUME LimiterInv, NEW w \in Workers, Arrive(w) PROVE LimiterInv'
<1> DEFINE r == [pc |-> "add", stamp |-> instant]
<1>1. ClockTyped /\ instant \in Nat /\ instant >= 1
  BY DEF LimiterInv, ClockTyped
<1>2. r \in CountingRequests /\ r.pc = "add" /\ r.stamp = instant
  BY <1>1 DEF CountingRequests
<1>3. request' = [request EXCEPT ![w] = r] /\ UNCHANGED <<instant, members, expires, Times, spoilt>>
      /\ At(w, "idle")
  BY TimesStay DEF Arrive
<1> HIDE DEF r
<1>4. /\ request' \in [Workers -> CountingRequests]
      /\ \A v \in Workers : request'[v] = IF v = w THEN r ELSE request[v]
  BY <1>1, <1>2, <1>3, RequestMoves
<1>5. ClockTyped'
  BY <1>1, <1>3, <1>4 DEF ClockTyped, CountingRequests
<1>6. Timely'
  BY <1>1, <1>2, <1>3, <1>4, LimiterAssumption DEF LimiterInv, Timely, At, Stamp
<1>7. Kept => Kept'
  <2> SUFFICES ASSUME Kept PROVE Kept'
    OBVIOUS
  <2>1. AdmittedKept' /\ CountedKept'
    BY <1>2, <1>3, <1>4 DEF Kept, AdmittedKept, CountedKept, Counted, At, Stamp
  <2>2. \A v \in Workers : At(v, "trim") \/ At(v, "expire") =>
          (At(v, "trim") \/ At(v, "expire"))' /\ Stamp(v)' = Stamp(v)
    BY <1>3, <1>4 DEF At, Stamp
  <2>3. KeyOutlives'
    BY <1>3, <2>2 DEF Kept, KeyOutlives
  <2>. QED BY <2>1, <2>3 DEF Kept
<1>8. TimesWithinLimit'
  BY <1>3, NobodyAdmitted
<1>. QED BY <1>1, <1>3, <1>5, <1>6, <1>7, <1>8 DEF LimiterInv

\* A request that moves on keeps the time it took.
LEMMA TimelyMoves ==
  ASSUME LimiterInv, UNCHANGED instant, NEW w \in Workers, ~ At(w, "idle"),
         \A v \in Workers \ {w} : request'[v] = request[v],
         request'[w].pc = "idle" \/ request'[w].stamp = request[w].stamp
  PROVE  Timely'
  BY DEF LimiterInv, Timely, At, Stamp

LEMMA AddKeeps == ASSUME LimiterInv, NEW w \in Workers, ZAdd(w) PROVE LimiterInv'
<1>1. /\ ClockTyped /\ Timely /\ instant \in Nat /\ Then(w, "trim") /\ At(w, "add")
      /\ members' = members \cup {Stamp(w)} /\ UNCHANGED <<instant, expires, Times, spoilt>>
  BY TimesStay DEF LimiterInv, ClockTyped, ZAdd
<1>2. /\ request' \in [Workers -> CountingRequests]
      /\ \A v \in Workers \ {w} : request'[v] = request[v]
      /\ request'[w].pc = "trim" /\ request'[w].stamp = request[w].stamp
  BY <1>1, ThenMoves
<1>3. ~ At(w, "idle") /\ Stamp(w) \in 1..instant
  BY <1>1 DEF Timely, At
<1>4. ClockTyped'
  BY <1>1, <1>2, <1>3 DEF ClockTyped, CountingRequests
<1>5. Timely'
  BY <1>1, <1>2, <1>3, TimelyMoves
<1>6. Kept => Kept'
  <2> SUFFICES ASSUME Kept PROVE Kept'
    OBVIOUS
  <2>1. AdmittedKept' /\ CountedKept'
    BY <1>1, <1>2 DEF Kept, AdmittedKept, CountedKept, Counted, At, Stamp
  <2>2. \A v \in Workers : At(v, "trim") \/ At(v, "expire") =>
          (At(v, "trim") \/ At(v, "expire"))' /\ Stamp(v)' = Stamp(v)
    BY <1>1, <1>2 DEF At, Stamp
  <2>3. At(w, "trim")' /\ Stamp(w)' = Stamp(w)
    BY <1>2 DEF At, Stamp
  <2>4. KeyOutlives'
    BY <1>1, <2>2, <2>3 DEF Kept, KeyOutlives
  <2>. QED BY <2>1, <2>4 DEF Kept
<1>7. TimesWithinLimit'
  BY <1>1, NobodyAdmitted
<1>. QED BY <1>1, <1>4, <1>5, <1>6, <1>7 DEF LimiterInv

LEMMA TrimKeeps == ASSUME LimiterInv, NEW w \in Workers, ZRemRangeByScore(w) PROVE LimiterInv'
<1> DEFINE left == {s \in members : s > Stamp(w) - Window}
<1>1. /\ ClockTyped /\ Timely /\ instant \in Nat /\ Then(w, "expire") /\ At(w, "trim")
      /\ members' = left /\ expires' = (IF left = {} THEN 0 ELSE expires)
      /\ UNCHANGED <<instant, Times, spoilt>>
  BY TimesStay DEF LimiterInv, ClockTyped, ZRemRangeByScore
<1>2. /\ request' \in [Workers -> CountingRequests]
      /\ \A v \in Workers \ {w} : request'[v] = request[v]
      /\ request'[w].pc = "expire" /\ request'[w].stamp = request[w].stamp
  BY <1>1, ThenMoves
<1>3. ~ At(w, "idle") /\ Stamp(w) \in 1..instant
  BY <1>1 DEF Timely, At
<1>4. ClockTyped'
  BY <1>1, <1>2 DEF ClockTyped, CountingRequests
<1>5. Timely'
  BY <1>1, <1>2, <1>3, TimelyMoves
<1>6. Kept => Kept'
  <2> SUFFICES ASSUME Kept PROVE Kept'
    OBVIOUS
  <2>1. ASSUME NEW a \in members, a + Window > instant PROVE a \in members'
    <3>1. a \in Int
      BY <1>1 DEF ClockTyped
    <3>. QED BY <1>1, <1>3, <2>1, <3>1, LimiterAssumption
  <2>2. AdmittedKept'
    <3>1. \A a \in Times : a \in Int
      BY <1>1 DEF ClockTyped
    <3>. QED BY <1>1, <2>1, <3>1, LimiterAssumption DEF Kept, AdmittedKept
  <2>3. ASSUME NEW v \in Workers, Counted(v)' PROVE Stamp(v)' \in members'
    <3>1. Counted(v) /\ Stamp(v)' = Stamp(v)
      BY <1>1, <1>2, <2>3 DEF Counted, At, Stamp
    <3>2. Stamp(v) \in members /\ Stamp(v) \in 1..instant /\ instant <= Stamp(v) + Delay
      BY <1>1, <3>1 DEF Kept, CountedKept, Timely, Counted, At
    <3>3. Stamp(v) + Window > instant
      BY <1>1, <3>2, LimiterAssumption
    <3>. QED BY <2>1, <3>1, <3>2, <3>3
  <2>4. \A v \in Workers : At(v, "trim") \/ At(v, "expire") =>
          (At(v, "trim") \/ At(v, "expire"))' /\ Stamp(v)' = Stamp(v)
    BY <1>1, <1>2 DEF At, Stamp
  <2>5. KeyOutlives'
    BY <1>1, <2>4 DEF Kept, KeyOutlives
  <2>. QED BY <2>2, <2>3, <2>5 DEF Kept, CountedKept
<1>7. TimesWithinLimit'
  BY <1>1, NobodyAdmitted
<1>. QED BY <1>1, <1>4, <1>5, <1>6, <1>7 DEF LimiterInv

LEMMA ExpireKeeps == ASSUME LimiterInv, NEW w \in Workers, Expire(w) PROVE LimiterInv'
<1>1. /\ ClockTyped /\ Timely /\ instant \in Nat /\ Then(w, "count") /\ At(w, "expire")
      /\ expires' = (IF members = {} THEN 0 ELSE instant + Window)
      /\ UNCHANGED <<instant, members, Times, spoilt>>
  BY TimesStay DEF LimiterInv, ClockTyped, Expire
<1>2. /\ request' \in [Workers -> CountingRequests]
      /\ \A v \in Workers \ {w} : request'[v] = request[v]
      /\ request'[w].pc = "count" /\ request'[w].stamp = request[w].stamp
  BY <1>1, ThenMoves
<1>3. ~ At(w, "idle") /\ Stamp(w) \in 1..instant
  BY <1>1 DEF Timely, At
<1>4. ClockTyped'
  BY <1>1, <1>2, LimiterAssumption DEF ClockTyped, CountingRequests
<1>5. Timely'
  BY <1>1, <1>2, <1>3, TimelyMoves
<1>6. Kept => Kept'
  <2> SUFFICES ASSUME Kept PROVE Kept'
    OBVIOUS
  <2>1. AdmittedKept' /\ CountedKept'
    BY <1>1, <1>2 DEF Kept, AdmittedKept, CountedKept, Counted, At, Stamp
  <2>2. \A a \in members : instant + Window >= a + Window
    BY <1>1, LimiterAssumption DEF ClockTyped
  <2>3. KeyOutlives'
    BY <1>1, <2>2 DEF KeyOutlives
  <2>. QED BY <2>1, <2>3 DEF Kept
<1>7. TimesWithinLimit'
  BY <1>1, NobodyAdmitted
<1>. QED BY <1>1, <1>4, <1>5, <1>6, <1>7 DEF LimiterInv

\* A request that ends has been counted or spoils the run.
LEMMA EndKeepsSet ==
  ASSUME LimiterInv, NEW w \in Workers, ~ At(w, "idle"), Ends(w),
         UNCHANGED <<instant, members, expires>>, Times' \subseteq Times \cup {Stamp(w)},
         spoilt' \/ (At(w, "count") /\ UNCHANGED spoilt)
  PROVE  /\ ClockTyped' /\ instant' >= 1 /\ Timely' /\ (spoilt' \/ Kept')
<1>1. ClockTyped /\ Timely /\ instant \in Nat /\ instant >= 1
  BY DEF LimiterInv, ClockTyped
<1>2. /\ request' \in [Workers -> CountingRequests]
      /\ \A v \in Workers \ {w} : request'[v] = request[v]
      /\ request'[w].pc = "idle"
  BY <1>1, EndMoves
<1>3. Stamp(w) \in 1..instant
  BY <1>1 DEF Timely
<1>4. spoilt' \in BOOLEAN
  BY <1>1, Zenon DEF ClockTyped
<1>5. ClockTyped'
  BY <1>1, <1>2, <1>3, <1>4 DEF ClockTyped, CountingRequests
<1>6. Timely'
  BY <1>2, TimelyMoves
<1>7. ASSUME ~ spoilt' PROVE Kept'
  <2>1. Kept /\ At(w, "count")
    BY <1>7 DEF LimiterInv
  <2>2. Stamp(w) \in members
    BY <2>1 DEF Kept, CountedKept, Counted
  <2>3. AdmittedKept' /\ CountedKept'
    BY <1>2, <2>1, <2>2 DEF Kept, AdmittedKept, CountedKept, Counted, At, Stamp
  <2>4. \A v \in Workers : At(v, "trim") \/ At(v, "expire") =>
          (At(v, "trim") \/ At(v, "expire"))' /\ Stamp(v)' = Stamp(v)
    BY <1>2, <2>1 DEF At, Stamp
  <2>5. KeyOutlives'
    BY <2>1, <2>4 DEF Kept, KeyOutlives
  <2>. QED BY <2>3, <2>5 DEF Kept
<1>. QED BY <1>1, <1>5, <1>6, <1>7

LEMMA CountKeeps == ASSUME LimiterInv, NEW w \in Workers, ZCard(w) PROVE LimiterInv'
<1>1. /\ ClockTyped /\ instant \in Nat /\ At(w, "count") /\ ~ At(w, "idle")
      /\ UNCHANGED <<instant, members, expires, spoilt>>
  BY DEF LimiterInv, ClockTyped, ZCard, At
<1>2. Ends(w) /\ (UNCHANGED Times \/ Times' = Times \cup {Stamp(w)})
  BY TimesStay, PassAddsTime DEF ZCard
<1>3. ClockTyped' /\ instant' >= 1 /\ Timely' /\ (spoilt' \/ Kept')
  BY <1>1, <1>2, EndKeepsSet
<1>4. TimesWithinLimit'
  <2>1. CASE UNCHANGED Times
    BY <1>1, <2>1, NobodyAdmitted
  <2>2. CASE spoilt
    BY <1>1, <2>2 DEF TimesWithinLimit
  <2>3. CASE ~ spoilt /\ ~ UNCHANGED Times
    <3>1. ~ (Cardinality(members) > Limit) /\ Times' = Times \cup {Stamp(w)}
      BY <2>3, <1>2, TimesStay DEF ZCard
    <3>2. members \subseteq 1..instant
      BY <1>1 DEF ClockTyped
    <3>3. Cardinality(members) \in Nat
      BY <1>1, <3>2, IntervalFinite, FS_Subset, FS_CardinalityType
    <3>4. Cardinality(members) <= Limit
      BY <3>1, <3>3, LimiterAssumption
    <3>5. Stamp(w) \in members
      BY <1>1, <2>3 DEF LimiterInv, Kept, CountedKept, Counted
    <3>. QED BY <1>1, <1>3, <2>3, <3>1, <3>4, <3>5, OneAdmitted
  <2>. QED BY <2>1, <2>2, <2>3
<1>. QED BY <1>3, <1>4 DEF LimiterInv

LEMMA FailureKeeps == ASSUME LimiterInv, NEW w \in Workers, RedisFails(w) PROVE LimiterInv'
<1>1. /\ ClockTyped /\ Timely /\ instant \in Nat /\ instant >= 1 /\ ~ At(w, "idle") /\ spoilt'
      /\ UNCHANGED <<instant, members, expires>>
  BY DEF LimiterInv, ClockTyped, RedisFails
<1>2. TimesWithinLimit'
  BY <1>1 DEF TimesWithinLimit
<1>3. CASE At(w, "expire")
  <2>1. Then(w, "count") /\ UNCHANGED Times
    BY <1>3, TimesStay DEF RedisFails
  <2>2. /\ request' \in [Workers -> CountingRequests]
        /\ \A v \in Workers \ {w} : request'[v] = request[v]
        /\ request'[w].pc = "count" /\ request'[w].stamp = request[w].stamp
    BY <1>1, <2>1, ThenMoves
  <2>3. spoilt' \in BOOLEAN
    BY DEF RedisFails
  <2>4. ClockTyped'
    BY <1>1, <2>1, <2>2, <2>3 DEF ClockTyped, CountingRequests
  <2>5. Timely'
    BY <1>1, <2>2, TimelyMoves
  <2>. QED BY <1>1, <1>2, <2>4, <2>5 DEF LimiterInv
<1>4. CASE ~ At(w, "expire")
  <2>1. Ends(w) /\ Times' = Times \cup {Stamp(w)}
    BY <1>4, PassAddsTime DEF RedisFails
  <2>2. ClockTyped' /\ instant' >= 1 /\ Timely' /\ (spoilt' \/ Kept')
    BY <1>1, <2>1, EndKeepsSet
  <2>. QED BY <1>2, <2>2 DEF LimiterInv
<1>. QED BY <1>3, <1>4

LEMMA KeyExpiryKeeps == ASSUME LimiterInv, KeyExpires PROVE LimiterInv'
<1>1. /\ ClockTyped /\ Timely /\ instant \in Nat /\ instant >= 1
      /\ expires # 0 /\ instant >= expires /\ members' = {} /\ expires' = 0
      /\ UNCHANGED <<instant, request, Times>>
  BY TimesStay DEF LimiterInv, ClockTyped, KeyExpires
<1>2. spoilt' \in BOOLEAN
  BY Zenon DEF KeyExpires
<1>3. ClockTyped'
  BY <1>1, <1>2 DEF ClockTyped
<1>4. Timely'
  BY <1>1 DEF Timely, At, Stamp
<1>5. ASSUME ~ spoilt' PROVE Kept'
  <2>1. Kept /\ \A w \in Workers : At(w, "idle") \/ At(w, "add")
    BY <1>5 DEF LimiterInv, KeyExpires
  <2>2. \A a \in members : expires >= a + Window
    BY <1>1, <2>1 DEF Kept, KeyOutlives, At
  <2>3. \A a \in members : a \in Int
    BY <1>1 DEF ClockTyped
  <2>4. \A a \in Times : a + Window <= instant
    BY <1>1, <2>1, <2>2, <2>3, LimiterAssumption DEF Kept, AdmittedKept, ClockTyped
  <2>5. AdmittedKept'
    BY <1>1, <2>4 DEF AdmittedKept
  <2>6. CountedKept' /\ KeyOutlives'
    BY <1>1, <2>1 DEF CountedKept, Counted, KeyOutlives, At
  <2>. QED BY <2>5, <2>6 DEF Kept
<1>6. spoilt => spoilt'
  BY Zenon DEF KeyExpires
<1>7. TimesWithinLimit'
  BY <1>1, <1>6, NobodyAdmitted
<1>. QED BY <1>1, <1>3, <1>4, <1>5, <1>7 DEF LimiterInv

LEMMA TickKeeps == ASSUME LimiterInv, Tick PROVE LimiterInv'
<1>1. /\ ClockTyped /\ Timely /\ instant \in Nat /\ instant >= 1 /\ instant' = instant + 1
      /\ \A w \in Workers : At(w, "idle") \/ instant < Stamp(w) + Delay
      /\ UNCHANGED <<members, expires, request, Times, spoilt>>
  BY TimesStay DEF LimiterInv, ClockTyped, Tick
<1>2. ClockTyped'
  BY <1>1 DEF ClockTyped
<1>3. Timely'
  BY <1>1, LimiterAssumption DEF Timely, At, Stamp
<1>4. Kept => Kept'
  <2>1. AdmittedKept => AdmittedKept'
    BY <1>1, LimiterAssumption DEF AdmittedKept, ClockTyped
  <2>2. CountedKept' = CountedKept /\ KeyOutlives' = KeyOutlives
    BY <1>1 DEF CountedKept, Counted, KeyOutlives, At, Stamp
  <2>. QED BY <2>1, <2>2 DEF Kept
<1>5. TimesWithinLimit'
  BY <1>1, NobodyAdmitted
<1>. QED BY <1>1, <1>2, <1>3, <1>4, <1>5 DEF LimiterInv

LEMMA LimiterStep == LimiterInv /\ [LimiterNext]_limiterVars => LimiterInv'
<1> SUFFICES ASSUME LimiterInv, [LimiterNext]_limiterVars PROVE LimiterInv'
  OBVIOUS
<1>1. CASE UNCHANGED limiterVars
  BY <1>1, TimesStay DEF limiterVars, LimiterInv, ClockTyped, Timely, Kept, AdmittedKept, CountedKept,
              Counted, KeyOutlives, TimesWithinLimit, At, Stamp
<1>2. CASE LimiterNext
  BY <1>2, ArriveKeeps, AddKeeps, TrimKeeps, ExpireKeeps, CountKeeps, FailureKeeps,
     KeyExpiryKeeps, TickKeeps
  DEF LimiterNext
<1>. QED BY <1>1, <1>2

\* The requests let through are finitely many, each with its place in its instant.
AdmittedTyped == IsFiniteSet(admitted) /\ admitted \subseteq [at : 1..instant, nth : Nat \ {0}]

LEMMA TogetherCounts ==
  ASSUME AdmittedTyped, NEW t
  PROVE  Together(t) \in Nat
<1>1. IsFiniteSet({r \in admitted : r.at = t})
  BY FS_Subset DEF AdmittedTyped
<1>. QED BY <1>1, FS_CardinalityType DEF Together

LEMMA PassIsTyped ==
  ASSUME AdmittedTyped, NEW w \in Workers, Passes(w), Stamp(w) \in 1..instant, instant' = instant
  PROVE  AdmittedTyped'
<1> DEFINE r == [at |-> Stamp(w), nth |-> Together(Stamp(w)) + 1]
<1>1. Together(Stamp(w)) + 1 \in Nat \ {0}
  BY TogetherCounts
<1>2. r \in [at : 1..instant, nth : Nat \ {0}]
  BY <1>1
<1>3. admitted' = admitted \cup {r}
  BY DEF Passes
<1> HIDE DEF r
<1>4. IsFiniteSet(admitted \cup {r})
  BY FS_AddElement DEF AdmittedTyped
<1>. QED BY <1>2, <1>3, <1>4 DEF AdmittedTyped

LEMMA AdmittedStep ==
  AdmittedTyped /\ LimiterInv /\ [LimiterNext]_limiterVars => AdmittedTyped'
<1> SUFFICES ASSUME AdmittedTyped, LimiterInv, [LimiterNext]_limiterVars PROVE AdmittedTyped'
  OBVIOUS
<1>1. instant \in Nat /\ \A w \in Workers : ~ At(w, "idle") => Stamp(w) \in 1..instant
  BY DEF LimiterInv, ClockTyped, Timely
<1>2. ASSUME UNCHANGED admitted, instant' \in {instant, instant + 1} PROVE AdmittedTyped'
  <2>1. \A r \in admitted : r \in [at : 1..instant', nth : Nat \ {0}]
    BY <1>1, <1>2 DEF AdmittedTyped
  <2>. QED BY <1>2, <2>1 DEF AdmittedTyped
<1>3. CASE UNCHANGED limiterVars \/ Tick \/ KeyExpires
  BY <1>2, <1>3 DEF limiterVars, Tick, KeyExpires
<1>4. ASSUME NEW w \in Workers, Arrive(w) \/ ZAdd(w) \/ ZRemRangeByScore(w) \/ Expire(w)
      PROVE  AdmittedTyped'
  BY <1>2, <1>4 DEF Arrive, ZAdd, ZRemRangeByScore, Expire
<1>5. ASSUME NEW w \in Workers, ZCard(w) \/ RedisFails(w) PROVE AdmittedTyped'
  <2>1. ~ At(w, "idle") /\ instant' = instant /\ (Passes(w) \/ UNCHANGED admitted)
    BY <1>5 DEF ZCard, RedisFails, At
  <2>. QED BY <1>1, <1>2, <2>1, PassIsTyped
<1>. QED BY <1>3, <1>4, <1>5 DEF LimiterNext

LEMMA AdmittedAtFirst == LimiterInit => AdmittedTyped
  BY FS_EmptySet DEF LimiterInit, AdmittedTyped

\* The clock, the set, the requests and those let through are well-formed.
THEOREM LimiterTyped == LimiterSpec => []LimiterTypeOK
<1>1. LimiterInv /\ AdmittedTyped => LimiterTypeOK
  BY DEF LimiterInv, ClockTyped, AdmittedTyped, LimiterTypeOK, CountingRequests
<1>. QED
  BY <1>1, LimiterInit1, LimiterStep, AdmittedAtFirst, AdmittedStep, PTL DEF LimiterSpec

\* The first requests of their instants are as many as their instants, and of
\* these at most Limit lie in a window.
LEMMA FirstsWithinLimit ==
  ASSUME LimiterInv, AdmittedTyped, ~ spoilt, NEW t \in 1..instant
  PROVE  /\ IsFiniteSet(AdmittedIn(t))
         /\ Cardinality({r \in AdmittedIn(t) : ~ (r.nth > 1)}) <= Limit
<1> DEFINE firsts == {r \in AdmittedIn(t) : ~ (r.nth > 1)}
           at == [r \in firsts |-> r.at]
<1>1. IsFiniteSet(AdmittedIn(t)) /\ IsFiniteSet(firsts)
  BY FS_Subset DEF AdmittedTyped, AdmittedIn
<1>2. \A r \in firsts : r = [at |-> r.at, nth |-> 1] /\ r.at \in Recent(t)
  BY DEF AdmittedTyped, AdmittedIn, Recent, Times
<1>3. at \in Injection(firsts, Recent(t))
  <2>1. at \in [firsts -> Recent(t)]
    BY <1>2
  <2>2. \A r, q \in firsts : at[r] = at[q] => r = q
    BY <1>2
  <2>. QED BY <2>1, <2>2 DEF Injection, IsInjective
<1>4. /\ IsFiniteSet(Recent(t)) /\ Cardinality(Recent(t)) \in Nat
      /\ Cardinality(Recent(t)) <= Limit
  BY RecentFinite DEF LimiterInv, TimesWithinLimit, Recent, ClockTyped
<1>5. Cardinality(firsts) <= Cardinality(Recent(t))
  BY <1>3, <1>4, FS_Injection
<1>6. Cardinality(firsts) \in Nat
  BY <1>1, FS_CardinalityType
<1>. QED BY <1>1, <1>4, <1>5, <1>6, LimiterAssumption

\* In a window shortened by the delay of a request, at most Limit requests are
\* let through, besides those of an instant at which another one was let
\* through before.
THEOREM WindowsRespected == LimiterSpec => []AdmittedWithinLimit
<1>1. ASSUME LimiterInv, AdmittedTyped PROVE AdmittedWithinLimit
  <2>1. ASSUME ~ spoilt, NEW t \in 1..instant
        PROVE  Cardinality(AdmittedIn(t)) <=
                 Limit + Cardinality({r \in AdmittedIn(t) : r.nth > 1})
    <3> DEFINE firsts == {r \in AdmittedIn(t) : ~ (r.nth > 1)}
               others == {r \in AdmittedIn(t) : r.nth > 1}
    <3>1. /\ IsFiniteSet(AdmittedIn(t)) /\ Cardinality(firsts) <= Limit
      BY <1>1, <2>1, FirstsWithinLimit
    <3>2. /\ IsFiniteSet(firsts) /\ IsFiniteSet(others)
          /\ Cardinality(firsts) \in Nat /\ Cardinality(others) \in Nat
      BY <3>1, FS_Subset, FS_CardinalityType
    <3>3. AdmittedIn(t) = firsts \cup others /\ firsts \cap others = {}
      OBVIOUS
    <3> HIDE DEF firsts, others
    <3>4. Cardinality(firsts \cup others) = Cardinality(firsts) + Cardinality(others)
      BY <3>2, <3>3, FS_EmptySet, FS_Union
    <3>5. Cardinality(AdmittedIn(t)) <= Limit + Cardinality(others)
      BY <3>1, <3>2, <3>3, <3>4, LimiterAssumption
    <3>. QED BY <3>5 DEF others
  <2>. QED BY <2>1 DEF AdmittedWithinLimit
<1>. QED
  BY <1>1, LimiterInit1, LimiterStep, AdmittedAtFirst, AdmittedStep, PTL DEF LimiterSpec
-----------------------------------------------------------------------------
\* Prices.

DeskStates == {"free", "look", "primary", "fallback", "store", "rate", "local", "commit"}
DeskRows == [pc : DeskStates, since : Nat, price : Prices]

\* How far an instant may lie after the price was shown: the use of a cached
\* price, and what a quote of that use is good for.
CacheFresh(price, at) == price # Fixed => at < price + PriceCacheTTL + Lag
OnOffer(price, until) == price # Fixed => until < price + PriceCacheTTL + QuoteTTL + 2 * Lag

\* A request has come within Lag, and a price it holds was shown since or was
\* fresh then; one that confirms has found a quote that was valid then.
Priced(d) ==
  /\ desk[d].since <= second /\ second <= desk[d].since + Lag
  /\ desk[d].pc = "store" => desk[d].price \in Nat /\ desk[d].since <= desk[d].price
  /\ desk[d].pc \in {"store", "rate"} => CacheFresh(desk[d].price, desk[d].since)
  /\ desk[d].pc = "commit" => OnOffer(desk[d].price, desk[d].since)

PricesKept ==
  /\ cached.until <= cached.price + PriceCacheTTL + Lag
  /\ \A d \in Desks : desk[d].pc # "free" => Priced(d)
  /\ \A o \in offers : OnOffer(o.price, o.until)
  /\ TradedAtRecentPrice
PriceInv == PricingTypeOK /\ PricesKept

LEMMA PricingStarts == PricingInit => PriceInv
  BY PricingAssumption, SMT DEF PricingInit, PriceInv, PricingTypeOK, PricesKept, FreeDesk, Prices,
     TradedAtRecentPrice, OnOffer

\* What a request does for itself: a row of its own type, the others as before.
LEMMA DeskMoves ==
  ASSUME PriceInv, NEW d \in Desks, NEW r \in DeskRows, desk' = [desk EXCEPT ![d] = r],
         r.pc # "free" =>
           /\ r.since <= second /\ second <= r.since + Lag
           /\ r.pc = "store" => r.price \in Nat /\ r.since <= r.price
           /\ r.pc \in {"store", "rate"} => CacheFresh(r.price, r.since)
           /\ r.pc = "commit" => OnOffer(r.price, r.since),
         second' = second
  PROVE  /\ desk' \in [Desks -> DeskRows]
         /\ \A e \in Desks : desk'[e].pc # "free" => Priced(e)'
<1>1. desk \in [Desks -> DeskRows]
  BY DEF PriceInv, PricingTypeOK, DeskRows, DeskStates
<1>2. desk' \in [Desks -> DeskRows]
  BY <1>1
<1>3. ASSUME NEW e \in Desks, desk'[e].pc # "free"
      PROVE  Priced(e)'
  <2>1. CASE e = d
    <3>1. desk'[e] = r
      BY <1>1, <2>1
    <3> QED
      BY <1>3, <3>1 DEF Priced, CacheFresh, OnOffer
  <2>2. CASE e # d
    <3>1. desk'[e] = desk[e]
      BY <1>1, <2>2
    <3>2. Priced(e)
      BY <1>3, <3>1 DEF PriceInv, PricesKept
    <3> QED
      BY <3>1, <3>2 DEF Priced, CacheFresh, OnOffer
  <2> QED
    BY <2>1, <2>2
<1> QED
  BY <1>2, <1>3

\* A step of one request that adds at most an entry, a quote or a trade in time.
LEMMA PriceMoves ==
  ASSUME PriceInv, NEW d \in Desks, NEW r \in DeskRows, desk' = [desk EXCEPT ![d] = r],
         r.pc # "free" =>
           /\ r.since <= second /\ second <= r.since + Lag
           /\ r.pc = "store" => r.price \in Nat /\ r.since <= r.price
           /\ r.pc \in {"store", "rate"} => CacheFresh(r.price, r.since)
           /\ r.pc = "commit" => OnOffer(r.price, r.since),
         second' = second,
         cached' \in [price : Nat, until : Nat],
         cached'.until <= cached'.price + PriceCacheTTL + Lag,
         \A o \in offers' : o \in offers \/ (o \in [price : Prices, until : Nat]
                                             /\ OnOffer(o.price, o.until)),
         \A t \in traded' : t \in traded \/
           (/\ t \in [price : Prices, at : Nat]
            /\ t.price # Fixed => t.at - t.price < PriceCacheTTL + QuoteTTL + 3 * Lag)
  PROVE  PriceInv'
<1>1. /\ desk' \in [Desks -> DeskRows]
      /\ \A e \in Desks : desk'[e].pc # "free" => Priced(e)'
  BY DeskMoves
<1>2. PricingTypeOK'
  BY <1>1 DEF PriceInv, PricingTypeOK, DeskRows, DeskStates
<1>3. \A o \in offers' : OnOffer(o.price, o.until)
  BY DEF PriceInv, PricesKept
<1>4. TradedAtRecentPrice'
  BY DEF PriceInv, PricesKept, TradedAtRecentPrice
<1> QED
  BY <1>1, <1>2, <1>3, <1>4 DEF PriceInv, PricesKept, OnOffer

LEMMA PriceStep == PriceInv /\ [PricingNext]_pricingVars => PriceInv'
<1> SUFFICES ASSUME PriceInv, [PricingNext]_pricingVars
             PROVE  PriceInv'
  OBVIOUS
<1> USE PricingAssumption
<1>1. /\ second \in Nat /\ cached \in [price : Nat, until : Nat]
      /\ desk \in [Desks -> DeskRows]
      /\ cached.until <= cached.price + PriceCacheTTL + Lag
  BY DEF PriceInv, PricingTypeOK, PricesKept, DeskRows, DeskStates
<1>2. \A o \in offers : o \in [price : Prices, until : Nat] /\ OnOffer(o.price, o.until)
  BY DEF PriceInv, PricingTypeOK, PricesKept
<1>3. \A t \in traded : t.price # Fixed => t.at - t.price < PriceCacheTTL + QuoteTTL + 3 * Lag
  BY DEF PriceInv, PricesKept, TradedAtRecentPrice
<1>4. ASSUME NEW d \in Desks
      PROVE  /\ desk[d] \in DeskRows
             /\ ~ Does(d, "free") => Priced(d)
  BY <1>1, <1>4 DEF PriceInv, PricesKept, Does
<1>5. FreeDesk \in DeskRows /\ FreeDesk.pc = "free"
  BY DEF FreeDesk, DeskRows, DeskStates, Prices
<1>6. ASSUME NEW d \in Desks, NEW pc \in {"primary", "fallback", "local", "rate"}, MovesOn(d, pc),
             ~ Does(d, "free"), pc = "rate" => Does(d, "store"),
             UNCHANGED <<second, offers, traded>>, cached' = cached
      PROVE  PriceInv'
  <2> DEFINE r == [desk[d] EXCEPT !.pc = pc]
  <2>1. /\ r \in DeskRows /\ r.pc = pc /\ r.since = desk[d].since /\ r.price = desk[d].price
    BY <1>4 DEF DeskRows, DeskStates
  <2>2. desk' = [desk EXCEPT ![d] = r]
    BY <1>1, <1>6 DEF MovesOn
  <2>3. Priced(d)
    BY <1>4, <1>6
  <2> HIDE DEF r
  <2> QED
    BY <1>1, <1>2, <1>3, <1>6, <2>1, <2>2, <2>3, PriceMoves DEF Priced, Does
<1>7. CASE SecondPasses
  <2>1. second' = second + 1 /\ UNCHANGED <<cached, desk, offers, traded>>
    BY <1>7 DEF SecondPasses
  <2>2. \A d \in Desks : desk[d].pc # "free" => Priced(d)'
    <3> TAKE d \in Desks
    <3>1. HAVE desk[d].pc # "free"
    <3>2. Priced(d) /\ second < desk[d].since + Lag
      BY <1>4, <1>7, <3>1 DEF SecondPasses, Does
    <3> QED
      BY <1>1, <1>4, <2>1, <3>2 DEF Priced, CacheFresh, OnOffer, DeskRows
  <2>3. PricingTypeOK'
    BY <2>1 DEF PriceInv, PricingTypeOK
  <2> QED
    BY <2>1, <2>2, <2>3, <1>1, <1>2 DEF PriceInv, PricesKept, TradedAtRecentPrice, OnOffer
<1>8. ASSUME NEW d \in Desks, AskQuote(d)
      PROVE  PriceInv'
  <2> DEFINE r == [pc |-> "look", since |-> second, price |-> Fixed]
  <2>1. r \in DeskRows /\ r.pc = "look" /\ r.since = second
    BY <1>1 DEF DeskRows, DeskStates, Prices
  <2>2. desk' = [desk EXCEPT ![d] = r] /\ UNCHANGED <<second, cached, offers, traded>>
    BY <1>8 DEF AskQuote, Begins
  <2>3. r.since <= second /\ second <= r.since + Lag
    BY <1>1, <2>1
  <2> HIDE DEF r
  <2> QED
    BY <1>1, <1>2, <1>3, <2>1, <2>2, <2>3, PriceMoves
<1>9. ASSUME NEW d \in Desks, ReadCachedPrice(d)
      PROVE  PriceInv'
  <2> DEFINE r == [desk[d] EXCEPT !.pc = "rate", !.price = cached.price]
  <2>1. /\ r \in DeskRows /\ r.pc = "rate" /\ r.since = desk[d].since /\ r.price = cached.price
    BY <1>1, <1>4 DEF DeskRows, DeskStates, Prices
  <2>2. /\ desk' = [desk EXCEPT ![d] = r] /\ UNCHANGED <<second, cached, offers, traded>>
        /\ second < cached.until
    BY <1>1, <1>9 DEF ReadCachedPrice, Finds, InCache
  <2>3. Priced(d)
    BY <1>4, <1>9 DEF ReadCachedPrice, Does
  <2>4. desk[d].since <= second /\ second <= desk[d].since + Lag
    BY <2>3 DEF Priced
  <2>5. CacheFresh(r.price, r.since)
    BY <1>1, <1>4, <2>1, <2>2, <2>4 DEF CacheFresh, DeskRows
  <2> HIDE DEF r
  <2> QED
    BY <1>1, <1>2, <1>3, <2>1, <2>2, <2>4, <2>5, PriceMoves
<1>10. ASSUME NEW d \in Desks, NEW pc \in {"store", "rate"}, Finds(d, pc, second),
              ~ Does(d, "free"), UNCHANGED <<second, cached, offers, traded>>
       PROVE  PriceInv'
  <2> DEFINE r == [desk[d] EXCEPT !.pc = pc, !.price = second]
  <2>1. /\ r \in DeskRows /\ r.pc = pc /\ r.since = desk[d].since /\ r.price = second
    BY <1>1, <1>4 DEF DeskRows, DeskStates, Prices
  <2>2. desk' = [desk EXCEPT ![d] = r]
    BY <1>1, <1>10 DEF Finds
  <2>3. desk[d].since <= second /\ second <= desk[d].since + Lag
    BY <1>4, <1>10 DEF Priced
  <2>4. CacheFresh(r.price, r.since)
    BY <1>1, <1>4, <2>1, <2>3 DEF CacheFresh, DeskRows
  <2> HIDE DEF r
  <2> QED
    BY <1>1, <1>2, <1>3, <1>10, <2>1, <2>2, <2>3, <2>4, PriceMoves
<1>11. ASSUME NEW d \in Desks, StorePrice(d)
       PROVE  PriceInv'
  <2> DEFINE r == [desk[d] EXCEPT !.pc = "rate"]
  <2>1. /\ r \in DeskRows /\ r.pc = "rate" /\ r.since = desk[d].since /\ r.price = desk[d].price
    BY <1>4 DEF DeskRows, DeskStates
  <2>2. desk' = [desk EXCEPT ![d] = r] /\ UNCHANGED <<second, offers, traded>>
    BY <1>1, <1>11 DEF StorePrice, MovesOn
  <2>3. /\ Priced(d) /\ desk[d].price \in Nat /\ desk[d].since <= desk[d].price
        /\ second <= desk[d].since + Lag
    BY <1>4, <1>11 DEF StorePrice, Does, Priced
  <2>4. cached' \in {cached, [price |-> desk[d].price, until |-> second + PriceCacheTTL]}
    BY <1>11 DEF StorePrice
  <2>5. /\ cached' \in [price : Nat, until : Nat]
        /\ cached'.until <= cached'.price + PriceCacheTTL + Lag
    <3>1. CASE cached' = cached
      BY <1>1, <3>1
    <3>2. CASE cached' = [price |-> desk[d].price, until |-> second + PriceCacheTTL]
      BY <1>1, <1>4, <2>3, <3>2 DEF DeskRows
    <3> QED
      BY <2>4, <3>1, <3>2
  <2>6. CacheFresh(r.price, r.since)
    BY <2>1, <2>3, <1>11 DEF Priced, StorePrice, Does
  <2> HIDE DEF r
  <2> QED
    BY <1>1, <1>2, <1>3, <2>1, <2>2, <2>3, <2>5, <2>6, PriceMoves DEF Priced
<1>12. ASSUME NEW d \in Desks, NEW price \in Prices, Offer(price), Leaves(d),
              OnOffer(price, second + QuoteTTL), UNCHANGED <<second, cached, traded>>
       PROVE  PriceInv'
  <2>1. \A o \in offers' : o \in offers \/ (o \in [price : Prices, until : Nat]
                                            /\ OnOffer(o.price, o.until))
    BY <1>1, <1>12 DEF Offer
  <2> QED
    BY <1>1, <1>2, <1>3, <1>5, <1>12, <2>1, PriceMoves DEF Leaves
<1>13. ASSUME NEW d \in Desks, RateAnswers(d)
       PROVE  PriceInv'
  <2>1. Priced(d) /\ desk[d].pc = "rate"
    BY <1>4, <1>13 DEF RateAnswers, Does
  <2>2. OnOffer(desk[d].price, second + QuoteTTL)
    BY <1>1, <1>4, <2>1 DEF Priced, CacheFresh, OnOffer, DeskRows, Prices
  <2>3. desk[d].price \in Prices
    BY <1>4 DEF DeskRows
  <2> QED
    BY <1>12, <1>13, <2>2, <2>3 DEF RateAnswers
<1>14. ASSUME NEW d \in Desks, generateFallbackQuote(d)
       PROVE  PriceInv'
  <2>1. OnOffer(Fixed, second + QuoteTTL) /\ Fixed \in Prices
    BY DEF OnOffer, Prices
  <2> QED
    BY <1>12, <1>14, <2>1 DEF generateFallbackQuote
<1>15. ASSUME NEW d \in Desks, ReadOffer(d)
       PROVE  PriceInv'
  <2>1. PICK o \in offers : second <= o.until /\ Begins(d, "commit", o.price)
    BY <1>15 DEF ReadOffer
  <2>2. UNCHANGED <<second, cached, offers, traded>>
    BY <1>15 DEF ReadOffer
  <2> DEFINE r == [pc |-> "commit", since |-> second, price |-> o.price]
  <2>3. r \in DeskRows /\ r.pc = "commit" /\ r.since = second /\ r.price = o.price
    BY <1>1, <1>2 DEF DeskRows, DeskStates
  <2>4. OnOffer(r.price, r.since)
    BY <1>1, <1>2, <2>1, <2>3 DEF OnOffer, Prices
  <2>5. desk' = [desk EXCEPT ![d] = r]
    BY <2>1 DEF Begins
  <2>6. r.since <= second /\ second <= r.since + Lag
    BY <1>1, <2>3
  <2> HIDE DEF r
  <2> QED
    BY <1>1, <1>2, <1>3, <2>2, <2>3, <2>4, <2>5, <2>6, PriceMoves
<1>16. ASSUME NEW d \in Desks, CommitAtPrice(d)
       PROVE  PriceInv'
  <2>1. Priced(d) /\ desk[d].pc = "commit"
    BY <1>4, <1>16 DEF CommitAtPrice, Does
  <2>2. desk[d].price # Fixed =>
          second - desk[d].price < PriceCacheTTL + QuoteTTL + 3 * Lag
    BY <1>1, <1>4, <2>1 DEF Priced, OnOffer, DeskRows, Prices
  <2>3. traded' = traded \cup {[price |-> desk[d].price, at |-> second]}
    BY <1>16 DEF CommitAtPrice
  <2>4. \A t \in traded' : t \in traded \/
           (/\ t \in [price : Prices, at : Nat]
            /\ t.price # Fixed => t.at - t.price < PriceCacheTTL + QuoteTTL + 3 * Lag)
    BY <1>1, <1>4, <2>2, <2>3 DEF DeskRows
  <2> QED
    BY <1>1, <1>2, <1>5, <1>16, <2>4, PriceMoves DEF CommitAtPrice, Leaves
<1>17. ASSUME NEW d \in Desks, Abandons(d)
       PROVE  PriceInv'
  BY <1>1, <1>2, <1>3, <1>5, <1>17, PriceMoves DEF Abandons, Leaves
<1>18. ASSUME NEW d \in Desks, MissesCache(d)
       PROVE  PriceInv'
  BY <1>6, <1>18 DEF MissesCache, Does
<1>19. ASSUME NEW d \in Desks, PrimaryAnswers(d) \/ FallbackAnswers(d)
       PROVE  PriceInv'
  BY <1>10, <1>19 DEF PrimaryAnswers, FallbackAnswers, Does
<1>20. ASSUME NEW d \in Desks, PrimaryFails(d) \/ FallbackFails(d) \/ RateFails(d)
       PROVE  PriceInv'
  BY <1>6, <1>20 DEF PrimaryFails, FallbackFails, RateFails, Does
<1>21. CASE UNCHANGED pricingVars
  BY <1>21 DEF pricingVars, PriceInv, PricingTypeOK, PricesKept, Priced, TradedAtRecentPrice,
               OnOffer, CacheFresh
<1> QED
  BY <1>7, <1>8, <1>9, <1>11, <1>13, <1>14, <1>15, <1>16, <1>17, <1>18, <1>19, <1>20, <1>21
  DEF PricingNext

\* Quotes, trades, requests and the cached price are well-formed.
THEOREM PricesTyped == PricingSpec => []PricingTypeOK
<1>1. PriceInv => PricingTypeOK
  BY DEF PriceInv
<1> QED
  BY <1>1, PricingStarts, PriceStep, PTL DEF PricingSpec

\* generateQuote, getMarketPrice and ConfirmTrade: no trade is made at a price
\* that was shown longer ago than the cache and the quote live and three
\* requests take, whichever requests share the cache.
THEOREM TradesAtRecentPrice == PricingSpec => []TradedAtRecentPrice
<1>1. PriceInv => TradedAtRecentPrice
  BY DEF PriceInv, PricesKept
<1> QED
  BY <1>1, PricingStarts, PriceStep, PTL DEF PricingSpec

-----------------------------------------------------------------------------
(***************************************************************************)
(* The parts together.  They share no variable, so a run of all of them is *)
(* a run of each, and what is proved of a part holds of the whole.         *)
(***************************************************************************)

\* A behaviour of the parts together is one of every part.
THEOREM PartsKeepTheirSpecs ==
  ServicesSpec => /\ OutboxSpec /\ VerificationSpec /\ LedgerSpec /\ ReviewSpec
                  /\ LimiterSpec /\ PricingSpec /\ BotSpec
<1>1. ServicesInit => /\ OutboxInit /\ VerificationInit /\ LedgerInit /\ ReviewInit
                      /\ LimiterInit /\ PricingInit /\ BotInit
  BY DEF ServicesInit, BotInit
<1>2. [ServicesNext]_servicesVars =>
        /\ [OutboxNext]_outboxVars /\ [VerificationNext]_verificationVars
        /\ [LedgerNext]_ledgerVars /\ [ReviewNext]_reviewVars /\ [LimiterNext]_limiterVars
        /\ [PricingNext]_pricingVars /\ [BotNext]_botVars
  BY DEF ServicesNext, servicesVars
<1> QED
  BY <1>1, <1>2, PTL DEF ServicesSpec, OutboxSpec, VerificationSpec, LedgerSpec, ReviewSpec,
                         LimiterSpec, PricingSpec, BotSpec

\* The rows, keys, sessions and requests of all parts are well-formed (ServicesTypeOK),
\* for any values of the constants of all of them.
THEOREM ServicesTyped == ServicesSpec => []ServicesTypeOK
BY PartsKeepTheirSpecs, OutboxTyped, VerificationTyped, LedgerTyped, ReviewTyped,
   LimiterTyped, PricesTyped, ConversationTyped, PTL DEF ServicesTypeOK

=============================================================================
