--------------------------- MODULE TradeLifecycle ---------------------------
(***************************************************************************)
(* The life of a trade from PENDING_DEPOSIT on: the four background        *)
(* workers of the Go engine (deposit watcher, deposit backfill scanner,    *)
(* conversion processor, payout processor), each one goroutine, and the    *)
(* HTTP requests that also change a trade (Graph webhook deliveries, users *)
(* raising disputes, administrators resolving them), all over the          *)
(* transaction of TradeStore.                                              *)
(*                                                                         *)
(* A worker lists trades, handles the listed copies one by one, calls out  *)
(* to a provider and then calls UpdateTradeStatus, which reads the row     *)
(* again (ReadTrade) and then commits a transaction (CommitUpdate).        *)
(* Anything of the others may happen between any two of these steps.       *)
(***************************************************************************)
EXTENDS TradeStore

CONSTANTS
  Workers,         \* the background workers this deployment starts
  Hooks,           \* concurrent webhook deliveries
  Users,           \* concurrent dispute requests of users
  Admins,          \* concurrent resolve requests of administrators
  Modes,           \* the resolution modes the administrators use
  RejectedPayouts, \* the trades whose payout the provider never accepts
  MaxAttempts,     \* conversionMaxRetryAttempts
  MaxOrders,       \* bound: exchange orders executed for a trade
  MaxPayouts,      \* bound: provider payouts created for a trade
  MaxFaults        \* bound: crashes, failed transactions and lost answers

AllWorkers == {"watcher", "scanner", "converter", "payer"}
ResolutionModes == {"retry_processing", "close_no_payout", "force_complete"}
Procs == Workers \cup Hooks \cup Users \cup Admins

ASSUME LifecycleAssumption ==
  /\ Workers \subseteq AllWorkers
  /\ None \notin Procs
  /\ Modes \subseteq ResolutionModes
  /\ RejectedPayouts \subseteq Trades
  /\ {MaxAttempts, MaxOrders, MaxPayouts, MaxFaults} \subseteq Nat
  /\ MaxAttempts > 0

ASSUME ProcessesDistinct ==
  /\ Hooks \cap (AllWorkers \cup Users \cup Admins) = {}
  /\ Users \cap (AllWorkers \cup Admins) = {}
  /\ Admins \cap AllWorkers = {}

VARIABLES
  chain,      \* the deposit of each trade as CheckDeposit sees it
  expired,    \* has the deposit window (expires_at) of a trade passed?
  orders,     \* how many exchange orders were executed for a trade
  payouts,    \* the provider's payouts for a trade: the state of each
  retries,    \* ConversionProcessor.retries, in memory
  task,       \* what each process is doing
  hookDone,   \* webhook_events marked processed: <<payout ref, reported status>>
  faults      \* crashes, failed transactions and lost answers so far

envVars == <<chain, expired, orders, payouts>>
vars == <<storeVars, envVars, retries, task, hookDone, faults>>

\* Levels of a deposit: nothing found; at least the detection threshold of
\* confirmations; at least the finality threshold; found, but with another
\* network, address or amount, blocked, reversed or replaced.
Levels == {"none", "detected", "final", "bad"}
Outcomes == {"terminal", "in_progress", "failed"}   \* conversionStatusDisposition
PayoutStates == {"pending", "completed", "failed"}  \* normalizePayoutStatus

\* A listed trade: its status, and the order id or payout reference read with it.
Items == [t : Trades, status : Statuses, ref : Int]

Tasks == [pc : {"idle", "read", "commit", "ack", "ticket"}, todo : SUBSET Items,
          t : Trades \cup {None}, upd : Updates, from : Statuses \cup {None},
          result : Outcomes, ticket : Nat, clear : BOOLEAN]

NoUpdate == Update("QUOTE_PROVIDED", "trade", NoRef)
Idle == [pc |-> "idle", todo |-> {}, t |-> None, upd |-> NoUpdate, from |-> None,
         result |-> "terminal", ticket |-> 0, clear |-> FALSE]

\* The process goes back to its list, or ends its request.
Finished(p) == [Idle EXCEPT !.todo = task[p].todo]
\* Item i is taken from the list; with an update, UpdateTradeStatus is called next.
Taken(p, i) == [Idle EXCEPT !.todo = task[p].todo \ {i}]
Calling(p, i, u) == [Taken(p, i) EXCEPT !.pc = "read", !.t = i.t, !.upd = u]

Init ==
  /\ StoreInit
  /\ chain = [t \in Trades |-> [tx |-> None, level |-> "none"]]
  /\ expired = [t \in Trades |-> FALSE]
  /\ orders = [t \in Trades |-> 0]
  /\ payouts = [t \in Trades |-> <<>>]
  /\ retries = [t \in Trades |-> 0]
  /\ task = [p \in Procs |-> Idle]
  /\ hookDone = [t \in Trades |-> {}]
  /\ faults = 0
-----------------------------------------------------------------------------
(***************************************************************************)
(* The world outside: the chain as the adapters of CheckDeposit report it, *)
(* the clock and the payout provider.  The adapters answer with the newest *)
(* transfer to the address within their window of blocks, and count its    *)
(* confirmations from the tip of the chain.                                *)
(***************************************************************************)
DepositSeen(t) ==
  /\ chain[t].level = "none"
  /\ \E h \in Txs : chain' = [chain EXCEPT ![t] = [tx |-> h, level |-> "detected"]]
  /\ UNCHANGED <<storeVars, expired, orders, payouts, retries, task, hookDone, faults>>

DepositFinal(t) ==
  /\ chain[t].level = "detected"
  /\ chain' = [chain EXCEPT ![t].level = "final"]
  /\ UNCHANGED <<storeVars, expired, orders, payouts, retries, task, hookDone, faults>>

\* A reorganisation takes confirmations away, or the deposit proves wrong.
DepositDrops(t) ==
  /\ chain[t].level \in {"detected", "final"}
  /\ \E l \in {"detected", "bad"} \ {chain[t].level} :
       chain' = [chain EXCEPT ![t].level = l]
  /\ UNCHANGED <<storeVars, expired, orders, payouts, retries, task, hookDone, faults>>

\* A newer transfer to the same address takes the place of the deposit.  (One that
\* merely disappears has the engine wait, as an explorer that fails does.)
DepositReplaced(t) ==
  /\ chain[t].level # "none"
  /\ \E h \in Txs \ {chain[t].tx} :
       chain' = [chain EXCEPT ![t] = [tx |-> h, level |-> "detected"]]
  /\ UNCHANGED <<storeVars, expired, orders, payouts, retries, task, hookDone, faults>>

WindowCloses(t) ==
  /\ ~expired[t]
  /\ expired' = [expired EXCEPT ![t] = TRUE]
  /\ UNCHANGED <<storeVars, chain, orders, payouts, retries, task, hookDone, faults>>

ProviderSettles(t) ==
  /\ \E i \in DOMAIN payouts[t] :
       /\ payouts[t][i] = "pending"
       /\ \E s \in {"completed", "failed"} : payouts' = [payouts EXCEPT ![t][i] = s]
  /\ UNCHANGED <<storeVars, chain, expired, orders, retries, task, hookDone, faults>>
-----------------------------------------------------------------------------
(***************************************************************************)
(* Listing: GetTradesByStatus, and GetPendingPayouts for CONVERSION_       *)
(* COMPLETED.  A pass of a worker queries its statuses in a fixed order;   *)
(* here it may query any of them, since each query may come back empty.    *)
(***************************************************************************)
\* Mutants: one query of a pass is missing, the converter's of the orders in
\* progress, the watcher's of new trades, the watcher's of received deposits.
WatchedButInProgress(w) ==
  CASE w = "watcher"   -> {"PENDING_DEPOSIT", "DEPOSIT_RECEIVED"}
    [] w = "converter" -> {"DEPOSIT_CONFIRMED"}
    [] OTHER           -> {"CONVERSION_COMPLETED", "PAYOUT_PENDING"}
WatchedButNew(w) ==
  CASE w = "watcher"   -> {"DEPOSIT_RECEIVED"}
    [] w = "converter" -> {"DEPOSIT_CONFIRMED", "CONVERSION_IN_PROGRESS"}
    [] OTHER           -> {"CONVERSION_COMPLETED", "PAYOUT_PENDING"}
WatchedButReceived(w) ==
  CASE w = "watcher"   -> {"PENDING_DEPOSIT"}
    [] w = "converter" -> {"DEPOSIT_CONFIRMED", "CONVERSION_IN_PROGRESS"}
    [] OTHER           -> {"CONVERSION_COMPLETED", "PAYOUT_PENDING"}

Watched(w) ==
  CASE w = "watcher"   -> {"PENDING_DEPOSIT", "DEPOSIT_RECEIVED"}
    [] w = "scanner"   -> {"PENDING_DEPOSIT", "DEPOSIT_RECEIVED", "DEPOSIT_CONFIRMED",
                           "CONVERSION_IN_PROGRESS", "CONVERSION_COMPLETED",
                           "PAYOUT_PENDING"}
    [] w = "converter" -> {"DEPOSIT_CONFIRMED", "CONVERSION_IN_PROGRESS"}
    [] w = "payer"     -> {"CONVERSION_COMPLETED", "PAYOUT_PENDING"}

ListedRef(w, t) ==
  CASE w = "converter" -> trade[t].order
    [] w = "payer"     -> trade[t].payout
    [] OTHER           -> NoRef

Matching(w, s) ==
  { t \in Trades : /\ trade[t].status = s
                   /\ w = "payer" /\ s = "CONVERSION_COMPLETED" => trade[t].payout = NoRef }

ListTrades(w) ==
  /\ task[w].pc = "idle" /\ task[w].todo = {}
  /\ \E s \in Watched(w) :
       /\ Matching(w, s) # {}
       /\ task' = [task EXCEPT ![w].todo =
            { [t |-> t, status |-> s, ref |-> ListedRef(w, t)] : t \in Matching(w, s) }]
  /\ UNCHANGED <<storeVars, envVars, retries, hookDone, faults>>
-----------------------------------------------------------------------------
(***************************************************************************)
(* Deposit checks.  GetTradeByDepositTxHash returns the trade with this    *)
(* hash that was updated last; when several have it, which one is left     *)
(* open.  LooksWrong and LooksRight are CheckDeposit and the matching      *)
(* rules that both workers apply to its result.                            *)
(***************************************************************************)
WithHash(h) == { x \in Trades : trade[x].tx = h }
SomeoneElse(t) == WithHash(chain[t].tx) \ {t} # {}
NobodyElse(t) == WithHash(chain[t].tx) = {} \/ t \in WithHash(chain[t].tx)

LooksWrong(t) == chain[t].level = "bad" \/ (chain[t].level # "none" /\ SomeoneElse(t))
LooksRight(t) == chain[t].level \in {"detected", "final"} /\ NobodyElse(t)

DepositUpdate(t, to, op) == [Update(to, op, chain[t].tx) EXCEPT !.tx = chain[t].tx]
\* moveToDispute, raiseDispute: under skip_ledger_posting.
DepositDispute(t, op) == [DepositUpdate(t, "DISPUTE", op) EXCEPT !.post = FALSE]

Calls(p, i, u) ==
  /\ task' = [task EXCEPT ![p] = Calling(p, i, u)]
  /\ UNCHANGED <<storeVars, envVars, retries, hookDone, faults>>
Skips(p, i) ==
  /\ task' = [task EXCEPT ![p] = Taken(p, i)]
  /\ UNCHANGED <<storeVars, envVars, retries, hookDone, faults>>

AtItem(w, i) == task[w].pc = "idle" /\ i \in task[w].todo

\* DepositWatcher.processTrade on listed trade i, up to its UpdateTradeStatus.
WatcherChecks(i) ==
  \/ /\ i.status = "PENDING_DEPOSIT" /\ expired[i.t]
     /\ Calls("watcher", i, Update("CANCELLED", "trade_expired", NoRef))
  \/ /\ ~(i.status = "PENDING_DEPOSIT" /\ expired[i.t])
     /\ \/ /\ LooksWrong(i.t)
           /\ Calls("watcher", i, DepositDispute(i.t, "deposit_dispute"))
        \/ /\ LooksRight(i.t) /\ CanFire(i.status, "DEPOSIT_DETECTED")
           /\ Calls("watcher", i, DepositUpdate(i.t,
                FSMTarget(i.status, "DEPOSIT_DETECTED"), "deposit_detected"))
        \/ /\ LooksRight(i.t) /\ CanFire(i.status, "DEPOSIT_CONFIRMED")
           /\ chain[i.t].level = "final"
           /\ Calls("watcher", i, DepositUpdate(i.t,
                FSMTarget(i.status, "DEPOSIT_CONFIRMED"), "deposit_confirmed"))
        \/ /\ \/ chain[i.t].level = "none"
              \/ i.status = "DEPOSIT_RECEIVED" /\ chain[i.t].level = "detected"
           /\ Skips("watcher", i)

\* DepositBackfillScanner.scanTrade: no look at the deposit window.
ScannerChecks(i) ==
  \/ /\ LooksWrong(i.t)
     /\ Calls("scanner", i, DepositDispute(i.t, "backfill_dispute"))
  \/ /\ LooksRight(i.t) /\ i.status = "PENDING_DEPOSIT"
     /\ Calls("scanner", i, DepositUpdate(i.t, "DEPOSIT_RECEIVED",
                                          "backfill_deposit_detected"))
  \/ /\ LooksRight(i.t) /\ i.status = "DEPOSIT_RECEIVED" /\ chain[i.t].level = "final"
     /\ Calls("scanner", i, DepositUpdate(i.t, "DEPOSIT_CONFIRMED",
                                          "backfill_deposit_confirmed"))
  \/ /\ LooksRight(i.t) /\ i.status \notin {"PENDING_DEPOSIT", "DEPOSIT_RECEIVED"}
     /\ chain[i.t].level = "detected"
     /\ Calls("scanner", i, DepositDispute(i.t, "backfill_dispute"))
  \/ /\ \/ chain[i.t].level = "none"
        \/ i.status = "DEPOSIT_RECEIVED" /\ chain[i.t].level = "detected"
        \/ /\ i.status \notin {"PENDING_DEPOSIT", "DEPOSIT_RECEIVED"}
           /\ chain[i.t].level = "final"
     /\ Skips("scanner", i)

WatcherStep == \E i \in task["watcher"].todo : AtItem("watcher", i) /\ WatcherChecks(i)
ScannerStep == \E i \in task["scanner"].todo : AtItem("scanner", i) /\ ScannerChecks(i)

\* CheckDeposit or the lookup of the hash returns an error: the trade is left
\* to the next pass.
ExplorerFails(w) ==
  \E i \in task[w].todo : AtItem(w, i) /\ Skips(w, i)
-----------------------------------------------------------------------------
(***************************************************************************)
(* ConversionProcessor.processTrade on a confirmed trade: the order is     *)
(* executed on the exchange before anything is written.                    *)
(***************************************************************************)
\* Mutant: a trade whose order is on record is sold again.
OrderExecutedAgain(i) ==
  /\ i.status \in {"DEPOSIT_CONFIRMED", "CONVERSION_IN_PROGRESS"}
  /\ orders[i.t] < MaxOrders
  /\ orders' = [orders EXCEPT ![i.t] = @ + 1]
  /\ task' = [task EXCEPT !["converter"] =
       [Calling("converter", i,
          [Update("CONVERSION_IN_PROGRESS", "conversion_started", orders'[i.t])
             EXCEPT !.order = orders'[i.t]]) EXCEPT !.result = "in_progress"]]
  /\ UNCHANGED <<storeVars, chain, expired, payouts, retries, hookDone, faults>>

OrderExecuted(i) ==
  /\ i.status = "DEPOSIT_CONFIRMED" /\ orders[i.t] < MaxOrders
  /\ orders' = [orders EXCEPT ![i.t] = @ + 1]
  /\ retries' = [retries EXCEPT ![i.t] = 0]
  /\ \E r \in Outcomes :
       task' = [task EXCEPT !["converter"] =
         [Calling("converter", i,
            [Update("CONVERSION_IN_PROGRESS", "conversion_started", orders'[i.t])
               EXCEPT !.order = orders'[i.t]]) EXCEPT !.result = r]]
  /\ UNCHANGED <<storeVars, chain, expired, payouts, hookDone, faults>>

\* ConvertToStable: an exchange executes the order, but its answer is an error or
\* a timeout.  The call goes on with the fallback exchange, or returns the error.
OrderAnswerLost(i) ==
  /\ i.status = "DEPOSIT_CONFIRMED" /\ orders[i.t] < MaxOrders /\ faults < MaxFaults
  /\ orders' = [orders EXCEPT ![i.t] = @ + 1]
  /\ faults' = faults + 1
  /\ UNCHANGED <<storeVars, chain, expired, payouts, retries, task, hookDone>>

\* An error shouldEscalateConversionError takes for final.
OrderImpossible(i) ==
  /\ i.status = "DEPOSIT_CONFIRMED"
  /\ Calls("converter", i, Update("DISPUTE", "conversion_escalation", NoRef))

\* Any other error: one more attempt, until the attempts are used up.
OrderFails(i) ==
  /\ i.status = "DEPOSIT_CONFIRMED"
  /\ LET attempt == retries[i.t] + 1
     IN \/ /\ attempt < MaxAttempts
           /\ retries' = [retries EXCEPT ![i.t] = attempt]
           /\ task' = [task EXCEPT !["converter"] = Taken("converter", i)]
        \/ /\ attempt >= MaxAttempts
           /\ retries' = [retries EXCEPT ![i.t] = MaxAttempts]   \* as good as attempt
           /\ task' = [task EXCEPT !["converter"] =
                Calling("converter", i,
                        Update("DISPUTE", "conversion_retries_exhausted", NoRef))]
  /\ UNCHANGED <<storeVars, envVars, hookDone, faults>>

\* recoverInProgressTrades: ten minutes without an update of the listed row.
ConversionTimesOut(i) ==
  /\ i.status = "CONVERSION_IN_PROGRESS"
  /\ Calls("converter", i,
           [Update("DISPUTE", "conversion_reconcile_timeout", i.ref) EXCEPT !.order = i.ref])
ConversionStillFresh(i) == i.status = "CONVERSION_IN_PROGRESS" /\ Skips("converter", i)

ConverterStep ==
  \E i \in task["converter"].todo :
    /\ AtItem("converter", i)
    /\ \/ OrderExecuted(i) \/ OrderAnswerLost(i) \/ OrderImpossible(i) \/ OrderFails(i)
       \/ ConversionTimesOut(i) \/ ConversionStillFresh(i)

\* The second call of processTrade, once the order is on record.
ConversionResult(order, result) ==
  IF result = "terminal"
    THEN [Update("CONVERSION_COMPLETED", "conversion_completed", order) EXCEPT !.order = order]
    ELSE [Update("DISPUTE", "conversion_failed_dispute", order) EXCEPT !.order = order]

\* clearRetryAttempt after a dispute has been written.
ClearsRetries(p) ==
  task[p].upd.op \in {"conversion_escalation", "conversion_retries_exhausted",
                      "conversion_reconcile_timeout"}
-----------------------------------------------------------------------------
(***************************************************************************)
(* PayoutProcessor: the payout is created at the provider before anything  *)
(* is written; every call makes a new one.                                 *)
(***************************************************************************)
PayoutUpdate(to, op, ref) == [Update(to, op, ref) EXCEPT !.payout = ref]

\* Mutant: a payout that is pending is initiated once more.
PayoutCreatedAgain(i) ==
  /\ i.status \in {"CONVERSION_COMPLETED", "PAYOUT_PENDING"}
  /\ Len(payouts[i.t]) < MaxPayouts
  /\ payouts' = [payouts EXCEPT ![i.t] = Append(@, "pending")]
  /\ task' = [task EXCEPT !["payer"] =
       Calling("payer", i, PayoutUpdate("PAYOUT_PENDING", "payout_pending",
                                        Len(payouts[i.t]) + 1))]
  /\ UNCHANGED <<storeVars, chain, expired, orders, retries, hookDone, faults>>

PayoutCreated(i) ==
  /\ i.status = "CONVERSION_COMPLETED" /\ i.t \notin RejectedPayouts
  /\ Len(payouts[i.t]) < MaxPayouts
  /\ payouts' = [payouts EXCEPT ![i.t] = Append(@, "pending")]
  /\ task' = [task EXCEPT !["payer"] =
       Calling("payer", i, PayoutUpdate("PAYOUT_PENDING", "payout_pending",
                                        Len(payouts[i.t]) + 1))]
  /\ UNCHANGED <<storeVars, chain, expired, orders, retries, hookDone, faults>>

\* ConvertAndPay: the provider creates the payout, but the answer is lost.  The
\* next pass pays again, under a reference of its own.
PayoutAnswerLost(i) ==
  /\ i.status = "CONVERSION_COMPLETED" /\ i.t \notin RejectedPayouts
  /\ Len(payouts[i.t]) < MaxPayouts /\ faults < MaxFaults
  /\ payouts' = [payouts EXCEPT ![i.t] = Append(@, "pending")]
  /\ faults' = faults + 1
  /\ task' = [task EXCEPT !["payer"] = Taken("payer", i)]
  /\ UNCHANGED <<storeVars, chain, expired, orders, retries, hookDone>>

\* An error shouldFailPayoutPermanently takes for final: any attempt may meet one,
\* and those of RejectedPayouts meet nothing else.
PayoutRejected(i) ==
  /\ i.status = "CONVERSION_COMPLETED"
  /\ Calls("payer", i, Update("PAYOUT_FAILED", "payout_failed_initiation", NoRef))

\* reconcilePendingPayouts.
PayoutReconciled(i) ==
  /\ i.status = "PAYOUT_PENDING" /\ i.ref \in DOMAIN payouts[i.t]
  /\ \/ /\ payouts[i.t][i.ref] = "completed"
        /\ Calls("payer", i, PayoutUpdate("PAYOUT_COMPLETED", "payout_completed", i.ref))
     \/ /\ payouts[i.t][i.ref] = "failed"
        /\ Calls("payer", i, PayoutUpdate("PAYOUT_FAILED", "payout_failed", i.ref))

\* Still pending, no usable reference, or an error of the provider.
PayoutLeft(i) == Skips("payer", i)

PayerStep ==
  \E i \in task["payer"].todo :
    /\ AtItem("payer", i)
    /\ \/ PayoutCreated(i) \/ PayoutAnswerLost(i) \/ PayoutRejected(i)
       \/ PayoutReconciled(i) \/ PayoutLeft(i)
-----------------------------------------------------------------------------
(***************************************************************************)
(* HandleGraphWebhook.  An event that is marked processed is not looked at *)
(* again; it is marked also when no trade has the payout on record, and    *)
(* when the update returned an error.                                      *)
(***************************************************************************)
\* Mutant: whatever has not failed is normalised to PAYOUT_COMPLETED.
ReportedEarly(state) == {IF state = "failed" THEN "PAYOUT_FAILED" ELSE "PAYOUT_COMPLETED"}

Reported(state) ==
  {"PAYOUT_PENDING"} \cup (CASE state = "completed" -> {"PAYOUT_COMPLETED"}
                             [] state = "failed"    -> {"PAYOUT_FAILED"}
                             [] OTHER               -> {})
\* Mutant: the key is built from the status instead of the operation.
HookOpFromStatus(s) == s

HookOp(s) == CASE s = "PAYOUT_PENDING"   -> "payout_pending"
               [] s = "PAYOUT_COMPLETED" -> "payout_completed"
               [] s = "PAYOUT_FAILED"    -> "payout_failed"

\* ensureWebhookEvent: was this report of this payout marked processed before?
AlreadyProcessed(t, ref, s) == <<ref, s>> \in hookDone[t]

HookReceives(h) ==
  /\ task[h].pc = "idle"
  /\ \E t \in Trades : \E ref \in DOMAIN payouts[t] : \E s \in Reported(payouts[t][ref]) :
       /\ ~AlreadyProcessed(t, ref, s)
       /\ \/ /\ \/ trade[t].payout # ref                         \* no trade found
                \/ s = "PAYOUT_PENDING" /\ trade[t].status = s
             /\ hookDone' = [hookDone EXCEPT ![t] = @ \cup {<<ref, s>>}]
             /\ task' = task
          \/ /\ trade[t].payout = ref
             /\ ~(s = "PAYOUT_PENDING" /\ trade[t].status = s)
             /\ task' = [task EXCEPT ![h] =
                  [Idle EXCEPT !.pc = "read", !.t = t,
                               !.upd = PayoutUpdate(s, HookOp(s), ref)]]
             /\ hookDone' = hookDone
  /\ UNCHANGED <<storeVars, envVars, retries, faults>>

\* markWebhookEventProcessed after the update, whatever it returned.
HookMarksProcessed(h) ==
  /\ task[h].pc = "ack"
  /\ LET u == task[h].upd
     IN hookDone' = [hookDone EXCEPT ![task[h].t] = @ \cup {<<u.ref, u.to>>}]
  /\ task' = [task EXCEPT ![h] = Idle]
  /\ UNCHANGED <<storeVars, envVars, retries, faults>>
-----------------------------------------------------------------------------
\* RaiseDispute: a user (any caller) disputes a trade, with a reason.
UserDisputes(u) ==
  /\ task[u].pc = "idle"
  /\ \E t \in Trades, note \in Notes :
       task' = [task EXCEPT ![u] =
         [Idle EXCEPT !.pc = "read", !.t = t,
                      !.upd = [Update("DISPUTE", "trade", NoRef) EXCEPT !.note = note]]]
  /\ UNCHANGED <<storeVars, envVars, retries, hookDone, faults>>

\* ResolveTradeDispute, first read: the ticket, which must be open.
AdminFindsTicket(a) ==
  /\ task[a].pc = "idle"
  /\ \E t \in Trades : \E i \in OpenTickets(t) :
       task' = [task EXCEPT ![a] = [Idle EXCEPT !.pc = "ticket", !.t = t, !.ticket = i]]
  /\ UNCHANGED <<storeVars, envVars, retries, hookDone, faults>>

\* The update each resolution mode makes of the trade row it has read.
Resolution(row, mode, note) ==
  LET ref == IF row.payout = NoRef THEN ForcedRef ELSE row.payout
  IN CASE mode = "retry_processing" ->
            [Update(retryStatusForTrade(row), "trade", NoRef) EXCEPT !.note = note]
       [] mode = "close_no_payout" ->
            [Update("DISPUTE_CLOSED", "trade", NoRef) EXCEPT !.note = note]
       [] mode = "force_complete" ->
            [Update("PAYOUT_COMPLETED", "trade", ref)
               EXCEPT !.note = note, !.payout = ref, !.actual = TRUE]

\* Second read, the trade; then the transition check on what was read.
AdminReadsTrade(a) ==
  /\ task[a].pc = "ticket"
  /\ \E mode \in Modes, note \in Notes :
       LET row == trade[task[a].t]
           u == Resolution(row, mode, note)
       IN \/ /\ isAllowedTradeStatusTransition(row.status, u.to)
             /\ task' = [task EXCEPT ![a] =
                  [@ EXCEPT !.pc = "commit", !.upd = u, !.from = row.status,
                            !.clear = (u.to = "CONVERSION_COMPLETED")]]
          \/ /\ ~isAllowedTradeStatusTransition(row.status, u.to)
             /\ task' = [task EXCEPT ![a] = Idle]
  /\ UNCHANGED <<storeVars, envVars, retries, hookDone, faults>>

AdminCommits(a) ==
  /\ task[a].pc = "commit"
  /\ ResolveCommit(task[a].t, task[a].ticket, task[a].from, task[a].upd, task[a].clear)
  /\ task' = [task EXCEPT ![a] = Idle]
  /\ UNCHANGED <<envVars, retries, hookDone, faults>>
-----------------------------------------------------------------------------
(***************************************************************************)
(* UpdateTradeStatus: read the row and check the transition, then commit.  *)
(***************************************************************************)
AfterError(p) == IF p \in Hooks THEN [task[p] EXCEPT !.pc = "ack"] ELSE Finished(p)

AfterCommit(p) ==
  IF p \in Hooks THEN [task[p] EXCEPT !.pc = "ack"]
  ELSE IF task[p].upd.to = "CONVERSION_IN_PROGRESS" /\ task[p].result # "in_progress"
    THEN [task[p] EXCEPT !.pc = "read", !.from = None,
                         !.upd = ConversionResult(@.order, task[p].result)]
    ELSE Finished(p)

Updaters == Workers \cup Hooks \cup Users

\* Mutant: the transition is not checked.
ReadTradeUnchecked(p) ==
  /\ task[p].pc = "read"
  /\ task' = [task EXCEPT ![p].pc = "commit", ![p].from = trade[task[p].t].status]
  /\ UNCHANGED <<storeVars, envVars, retries, hookDone, faults>>

ReadTrade(p) ==
  /\ task[p].pc = "read"
  /\ LET from == trade[task[p].t].status
     IN \/ /\ isAllowedTradeStatusTransition(from, task[p].upd.to)
           /\ task' = [task EXCEPT ![p].pc = "commit", ![p].from = from]
        \/ /\ ~isAllowedTradeStatusTransition(from, task[p].upd.to)
           /\ task' = [task EXCEPT ![p] = AfterError(p)]
  /\ UNCHANGED <<storeVars, envVars, retries, hookDone, faults>>

CommitUpdate(p) ==
  /\ task[p].pc = "commit"
  /\ UpdateCommit(task[p].t, task[p].from, task[p].upd)
  /\ task' = [task EXCEPT ![p] = AfterCommit(p)]
  /\ retries' = IF ClearsRetries(p) THEN [retries EXCEPT ![task[p].t] = 0] ELSE retries
  /\ UNCHANGED <<envVars, hookDone, faults>>

\* The transaction fails and is rolled back.
CommitFails(p) ==
  /\ task[p].pc = "commit" /\ faults < MaxFaults
  /\ faults' = faults + 1
  /\ task' = [task EXCEPT ![p] = AfterError(p)]
  /\ UNCHANGED <<storeVars, envVars, retries, hookDone>>

\* The posting of the update is an error: the transaction is rolled back, which
\* is no fault of the moment, since the next attempt builds the same key.
PostingFails(p) ==
  /\ task[p].pc = "commit"
  /\ Reserves(task[p].t, task[p].upd) /\ ~ KeyFits(task[p].upd)
  /\ task' = [task EXCEPT ![p] = AfterError(p)]
  /\ UNCHANGED <<storeVars, envVars, retries, hookDone, faults>>

\* The engine stops, with whatever its goroutines and requests were doing.
Crash ==
  /\ faults < MaxFaults
  /\ faults' = faults + 1
  /\ task' = [p \in Procs |-> Idle]
  /\ retries' = [t \in Trades |-> 0]
  /\ UNCHANGED <<storeVars, envVars, hookDone>>
-----------------------------------------------------------------------------
EnvStep(t) ==
  \/ DepositSeen(t) \/ DepositFinal(t) \/ DepositDrops(t) \/ DepositReplaced(t)
  \/ WindowCloses(t) \/ ProviderSettles(t)

WorkerStep(w) ==
  \/ ListTrades(w)
  \/ w = "watcher" /\ (WatcherStep \/ ExplorerFails(w))
  \/ w = "scanner" /\ (ScannerStep \/ ExplorerFails(w))
  \/ w = "converter" /\ ConverterStep
  \/ w = "payer" /\ PayerStep

Next ==
  \/ \E t \in Trades : EnvStep(t)
  \/ \E w \in Workers : WorkerStep(w)
  \/ \E h \in Hooks : HookReceives(h) \/ HookMarksProcessed(h)
  \/ \E u \in Users : UserDisputes(u)
  \/ \E a \in Admins : AdminFindsTicket(a) \/ AdminReadsTrade(a) \/ AdminCommits(a)
  \/ \E p \in Updaters : ReadTrade(p) \/ CommitUpdate(p)
  \/ \E p \in Procs : CommitFails(p) \/ PostingFails(p)
  \/ Crash

Spec == Init /\ [][Next]_vars
-----------------------------------------------------------------------------
(***************************************************************************)
(* Safety, for any combination of workers and requests.                    *)
(***************************************************************************)

\* Every variable keeps its shape, and a process that is doing something knows
\* its trade and, before it commits, the status it has read.
TypeOK ==
  /\ StoreTypeOK
  /\ chain \in [Trades -> [tx : Txs \cup {None}, level : Levels]]
  /\ expired \in [Trades -> BOOLEAN]
  /\ orders \in [Trades -> Nat]
  /\ payouts \in [Trades -> Seq(PayoutStates)]
  /\ retries \in [Trades -> Nat]
  /\ task \in [Procs -> Tasks]
  /\ \A p \in Procs : /\ task[p].pc # "idle" => task[p].t \in Trades
                      /\ task[p].pc = "commit" => task[p].from \in Statuses
  /\ hookDone \in [Trades -> SUBSET (Refs \X Statuses)]
  /\ faults \in Nat

\* Whatever races and replays happen, the ledger holds exactly one group of
\* entries for each reserved operation key of its status: no posting without a
\* key, none twice for a key (disputes may be written without a posting).
KeysOf(t, status) == { k \in opKeys[t] : k.scope = status }
PostedOncePerKey ==
  \A t \in Trades, e \in Entries :
    IF e = "DISPUTE_ADJUSTMENT"
      THEN ledger[t][e] <= Cardinality(KeysOf(t, StatusOf(e)))
      ELSE ledger[t][e] = Cardinality(KeysOf(t, StatusOf(e)))

\* The last row of a trade's status history names its current status, also when
\* two writers overwrite each other.
AuditTrailCurrent ==
  \A t \in Trades : /\ history[t] # <<>>
                    /\ history[t][Len(history[t])][2] = trade[t].status

\* Every later row of the history is a transition the service allows, from the
\* status its writer had read (which need not be the status it overwrote).
AuditTrailAllowed ==
  \A t \in Trades : \A i \in 2..Len(history[t]) :
    isAllowedTradeStatusTransition(history[t][i][1], history[t][i][2])

\* A trade has at most one open dispute ticket, whoever raised and resolved
\* disputes concurrently.
OneOpenTicket == \A t \in Trades : Cardinality(OpenTickets(t)) <= 1

\* Every further exchange order for a trade is preceded by a further entry into
\* DEPOSIT_CONFIRMED with its ledger posting, or by a fault (a crash, a failed
\* transaction, a lost answer): stale lists alone never sell a deposit twice.
OrdersBacked == \A t \in Trades : orders[t] <= ledger[t]["DEPOSIT"] + faults

\* Likewise every further payout at the provider is preceded by a further entry
\* into CONVERSION_COMPLETED with its posting, or by a fault.
PayoutsBacked == \A t \in Trades : Len(payouts[t]) <= ledger[t]["CONVERSION"] + faults

\* A PAYOUT posting that the reconciler or the webhook made is for a payout the
\* provider has completed, however late and out of order the reports arrived.
PayoutsEvidenced ==
  \A t \in Trades : \A k \in opKeys[t] :
    k.op = "payout_completed" =>
      k.ref \in DOMAIN payouts[t] /\ payouts[t][k.ref] = "completed"

\* The operations of the pipeline.  The keys of the scanner, of users and of
\* administrators have names of their own, so the key table tells who has written
\* to a trade.
PipelineOps == OpNames \ {"trade", "backfill_deposit_detected",
                          "backfill_deposit_confirmed", "backfill_dispute"}
OnlyPipeline(t) == \A k \in opKeys[t] : k.op \in PipelineOps

\* Two trades to which only the pipeline has written, whatever scanner and people
\* were doing meanwhile, are never both funded by one transaction hash.
PipelineFundsOnce ==
  \A t, x \in Trades :
    /\ t # x /\ OnlyPipeline(t) /\ OnlyPipeline(x)
    /\ trade[t].tx # None /\ trade[t].tx = trade[x].tx
    => ledger[t]["DEPOSIT"] = 0 \/ ledger[x]["DEPOSIT"] = 0

\* A step that turns a trade's status into DISPUTE leaves a ticket open for the
\* administrators to find.
DisputesAreTicketed ==
  [][\A t \in Trades :
       trade[t].status # "DISPUTE" /\ trade'[t].status = "DISPUTE"
         => OpenTickets(t)' # {}]_vars
-----------------------------------------------------------------------------
(***************************************************************************)
(* Refinements.                                                            *)
(***************************************************************************)

\* Any combination of workers, requests and crashes keeps the once-only promise
\* of the key table: a posting always uses up a new key, and never two of them.
OnceOnly == INSTANCE OnceOnlyLedger WITH used <- opKeys, posted <- ledger
KeepsOnceOnly == OnceOnly!Spec

\* Watcher, conversion processor, payout processor and webhook deliveries alone
\* (no backfill scanner, no dispute requests), crashes included, keep the promise
\* of the state machine: they never overwrite a status they did not see.
Promise == INSTANCE TradePromise WITH
             status <- [t \in Trades |-> trade[t].status], posted <- ledger
KeepsPromise == Promise!Spec

\* In every deployment, a trade to which only the pipeline has written keeps that
\* promise: no write so far overwrote a status its writer had not seen, or went
\* without its posting, whatever the other writers have read and not yet written.
PipelineKeepsPromise ==
  [][\A t \in Trades :
       OnlyPipeline(t)' => \/ trade'[t].status = trade[t].status /\ ledger'[t] = ledger[t]
                           \/ Promise!Move(t, trade'[t].status)]_vars
-----------------------------------------------------------------------------
(***************************************************************************)
(* Liveness.  The workers run on tickers, so a list is always taken again  *)
(* and a started step is always finished, unless the engine stops.  Strong *)
(* fairness is what is assumed of the world: the explorer, the provider    *)
(* and the clock (ten minutes without an update) do not fail the engine    *)
(* forever each time it asks.                                              *)
(***************************************************************************)
PayoutRejectedForGood(i) == i.t \in RejectedPayouts /\ PayoutRejected(i)
Some(w, Step(_)) == w \in Workers /\ \E i \in task[w].todo : AtItem(w, i) /\ Step(i)

Fairness ==
  /\ \A w \in Workers : WF_vars(ListTrades(w))
  /\ \A p \in Updaters : WF_vars(ReadTrade(p)) /\ WF_vars(CommitUpdate(p) \/ PostingFails(p))
  /\ \A h \in Hooks : WF_vars(HookMarksProcessed(h))
  /\ SF_vars("watcher" \in Workers /\ WatcherStep)
  /\ SF_vars("scanner" \in Workers /\ ScannerStep)
  /\ WF_vars("converter" \in Workers /\ ConverterStep)
  /\ SF_vars(Some("converter", ConversionTimesOut))
  /\ SF_vars(Some("payer", PayoutCreated))
  /\ SF_vars(Some("payer", PayoutRejectedForGood))
  /\ SF_vars(Some("payer", PayoutReconciled))
  /\ \A t \in Trades : WF_vars(WindowCloses(t)) /\ WF_vars(ProviderSettles(t))

FairSpec == Spec /\ Fairness

\* Statuses no worker acts on: the trade is over, or waits for people.
Settled == {"PAYOUT_COMPLETED", "PAYOUT_FAILED", "DISPUTE", "DISPUTE_CLOSED", "CANCELLED"}

\* A confirmed deposit does not stay with the engine: it is converted and paid
\* out, or handed to people, through crashes, failed orders and lost reports.
ConfirmedDepositsSettle ==
  \A t \in Trades : trade[t].status = "DEPOSIT_CONFIRMED" ~> trade[t].status \in Settled

\* A trade does not wait for its deposit forever: it is found or cancelled.
PendingTradesEnd ==
  \A t \in Trades : trade[t].status = "PENDING_DEPOSIT" ~> trade[t].status # "PENDING_DEPOSIT"

\* A received deposit settles too, provided the chain makes up its mind about it
\* (DEPOSIT_RECEIVED has no deadline of its own) and its confirmation can be
\* posted: a final deposit whose hash is too long for the ledger's key stays in
\* DEPOSIT_RECEIVED, and is tried again in every pass.
Confirmable(t) == KeyFits(DepositUpdate(t, "DEPOSIT_CONFIRMED", "deposit_confirmed"))
ReceivedDepositsSettle ==
  \A t \in Trades :
    <>[](chain[t].level = "bad" \/ (chain[t].level = "final" /\ Confirmable(t)))
      => (trade[t].status = "DEPOSIT_RECEIVED" ~> trade[t].status \in Settled)
=============================================================================
