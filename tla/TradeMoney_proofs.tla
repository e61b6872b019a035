-------------------------- MODULE TradeMoney_proofs --------------------------
(***************************************************************************)
(* What keeps the engine from selling a deposit twice or paying it out     *)
(* twice, for every deployment of TradeLifecycle: invariants that relate   *)
(* the lists and the calls a worker has in hand to the row, the keys, the  *)
(* ledger and what the exchange and the provider have already done.        *)
(***************************************************************************)
EXTENDS TradeLifecycle_proofs

-----------------------------------------------------------------------------
(***************************************************************************)
(* Steps, seen from the tasks, from the ledger and from the world outside. *)
(***************************************************************************)

\* A call goes on: the same update of the same trade.
GoesOn(p) ==
  /\ task[p].pc \in {"read", "commit"}
  /\ task'[p].t = task[p].t /\ task'[p].upd = task[p].upd

\* What starts a call of process p, by its operation.
Starts(p) ==
  LET u == task'[p].upd
      t == task'[p].t
  IN \/ /\ p = "watcher" /\ WatcherStep
        /\ u.op \in {"trade_expired", "deposit_dispute", "deposit_detected",
                     "deposit_confirmed"}
        /\ u.payout = NoRef
     \/ /\ p = "scanner" /\ ScannerStep
        /\ u.op \in {"backfill_dispute", "backfill_deposit_detected",
                     "backfill_deposit_confirmed"}
        /\ u.payout = NoRef
     \/ /\ p = "converter" /\ \E i \in task[p].todo : AtItem(p, i) /\ OrderExecuted(i)
        /\ u.op = "conversion_started" /\ u.payout = NoRef
     \/ /\ p = "converter" /\ ConverterStep
        /\ u.op \in {"conversion_escalation", "conversion_retries_exhausted",
                     "conversion_reconcile_timeout"}
        /\ u.payout = NoRef
     \/ /\ p \in Updaters /\ CommitUpdate(p)
        /\ task[p].upd.to = "CONVERSION_IN_PROGRESS"
        /\ u.op \in {"conversion_completed", "conversion_failed_dispute"}
        /\ u.payout = NoRef /\ t = task[p].t
     \/ /\ p = "payer"
        /\ \E i \in task[p].todo :
             AtItem(p, i) /\ (PayoutCreated(i) \/ PayoutRejected(i) \/ PayoutReconciled(i))
     \/ p \in Hooks /\ HookReceives(p)
     \/ /\ p \in Users \cup Admins /\ u.op = "trade"
        /\ u.payout \in {NoRef, ForcedRef, trade[t].payout}

\* The updates of the deposit workers, by their operation.
LEMMA DepositUpdateParts ==
  ASSUME NEW t, NEW to, NEW op
  PROVE  /\ DepositUpdate(t, to, op).op = op /\ DepositUpdate(t, to, op).payout = NoRef
         /\ DepositUpdate(t, to, op).to = to /\ DepositUpdate(t, to, op).tx = chain[t].tx
BY DEF DepositUpdate, Update

LEMMA DepositDisputeParts ==
  ASSUME NEW t, NEW op
  PROVE  /\ DepositDispute(t, op).op = op /\ DepositDispute(t, op).payout = NoRef
         /\ DepositDispute(t, op).to = "DISPUTE" /\ DepositDispute(t, op).tx = chain[t].tx
BY DEF DepositUpdate, DepositDispute, Update

\* What Calling, Taken and Finished make of the task.
LEMMA CallingParts ==
  ASSUME NEW p \in Procs, NEW i, NEW u
  PROVE  /\ Calling(p, i, u).pc = "read" /\ Calling(p, i, u).t = i.t
         /\ Calling(p, i, u).upd = u /\ Calling(p, i, u).todo = task[p].todo \ {i}
BY DEF Calling, Taken, Idle

LEMMA TakenParts ==
  ASSUME NEW p \in Procs, NEW i
  PROVE  Taken(p, i).pc = "idle" /\ Taken(p, i).todo = task[p].todo \ {i}
BY DEF Taken, Idle

LEMMA FinishedParts ==
  ASSUME NEW p \in Procs
  PROVE  /\ Finished(p).pc = "idle" /\ Finished(p).todo = task[p].todo
         /\ Idle.pc = "idle" /\ Idle.todo = {}
BY DEF Finished, Idle

\* A call of process p that is under way after a step goes on, or has just started.
LEMMA NewTask ==
  ASSUME IInv, NEW p \in Procs, StepOf(p), task'[p].pc # "idle"
  PROVE  GoesOn(p) \/ Starts(p)
<1>1. task \in [Procs -> Tasks] /\ task[p] \in Tasks
  BY DEF IInv, TypeOK
<1>2. ASSUME NEW i, NEW u, Calls(p, i, u)
      PROVE  task'[p].upd = u /\ task'[p].t = i.t
  BY <1>1, <1>2, CallingParts DEF Calls
<1>3. ASSUME NEW i, Skips(p, i) PROVE FALSE
  BY <1>1, <1>3, TakenParts DEF Skips
<1>4. CASE p \in Workers /\ ListTrades(p)
  <2>1. PICK todo : task' = [task EXCEPT ![p].todo = todo]
    BY <1>4 DEF ListTrades
  <2>2. task[p].pc = "idle"
    BY <1>4 DEF ListTrades
  <2> QED  BY <1>1, <2>1, <2>2 DEF Tasks
<1>5. CASE p = "watcher" /\ WatcherStep
  <2>1. PICK i \in task[p].todo : WatcherChecks(i)
    BY <1>5 DEF WatcherStep
  <2>2. /\ Update("CANCELLED", "trade_expired", NoRef).op = "trade_expired"
        /\ Update("CANCELLED", "trade_expired", NoRef).payout = NoRef
    BY DEF Update
  <2>3. CASE \E to, op : /\ Calls(p, i, DepositUpdate(i.t, to, op))
                         /\ op \in {"deposit_detected", "deposit_confirmed"}
    BY <1>2, <1>5, <2>3, DepositUpdateParts DEF Starts
  <2>4. CASE Calls(p, i, DepositDispute(i.t, "deposit_dispute"))
    BY <1>2, <1>5, <2>4, DepositDisputeParts DEF Starts
  <2>5. CASE Calls(p, i, Update("CANCELLED", "trade_expired", NoRef))
    BY <1>2, <1>5, <2>2, <2>5 DEF Starts
  <2> QED  BY <1>3, <1>5, <2>1, <2>3, <2>4, <2>5 DEF WatcherChecks
<1>6. CASE p = "scanner" /\ ScannerStep
  <2>1. PICK i \in task[p].todo : ScannerChecks(i)
    BY <1>6 DEF ScannerStep
  <2>2. CASE \E to, op : /\ Calls(p, i, DepositUpdate(i.t, to, op))
                         /\ op \in {"backfill_deposit_detected", "backfill_deposit_confirmed"}
    BY <1>2, <1>6, <2>2, DepositUpdateParts DEF Starts
  <2>3. CASE Calls(p, i, DepositDispute(i.t, "backfill_dispute"))
    BY <1>2, <1>6, <2>3, DepositDisputeParts DEF Starts
  <2> QED  BY <1>3, <1>6, <2>1, <2>2, <2>3 DEF ScannerChecks
<1>7. CASE ExplorerFails(p)
  BY <1>3, <1>7 DEF ExplorerFails
<1>8. CASE p = "converter" /\ ConverterStep
  <2>1. PICK i \in task[p].todo :
          /\ AtItem(p, i)
          /\ \/ OrderExecuted(i) \/ OrderAnswerLost(i) \/ OrderImpossible(i) \/ OrderFails(i)
             \/ ConversionTimesOut(i) \/ ConversionStillFresh(i)
    BY <1>8 DEF ConverterStep
  <2>2. CASE OrderExecuted(i)
    <3> DEFINE u == [Update("CONVERSION_IN_PROGRESS", "conversion_started", orders'[i.t])
                       EXCEPT !.order = orders'[i.t]]
    <3>1. PICK r \in Outcomes :
            task' = [task EXCEPT !["converter"] = [Calling("converter", i, u) EXCEPT !.result = r]]
      BY <2>2 DEF OrderExecuted
    <3>2. u.op = "conversion_started" /\ u.payout = NoRef
      BY DEF Update
    <3> HIDE DEF u
    <3>3. task'[p].upd = u
      BY <1>1, <1>8, <3>1, CallingParts DEF Calling, Taken, Idle
    <3> QED  BY <1>8, <2>1, <2>2, <3>2, <3>3 DEF Starts
  <2>3. CASE OrderAnswerLost(i)
    BY <2>1, <2>3 DEF OrderAnswerLost, AtItem
  <2>4. CASE OrderImpossible(i)
    BY <1>2, <1>8, <2>4 DEF OrderImpossible, Starts, Update
  <2>5. CASE OrderFails(i)
    <3> DEFINE u == Update("DISPUTE", "conversion_retries_exhausted", NoRef)
    <3>1. \/ task' = [task EXCEPT !["converter"] = Taken("converter", i)]
          \/ task' = [task EXCEPT !["converter"] = Calling("converter", i, u)]
      BY <2>5 DEF OrderFails
    <3>2. u.op = "conversion_retries_exhausted" /\ u.payout = NoRef
      BY DEF Update
    <3> HIDE DEF u
    <3>3. task'[p] \in {Taken(p, i), Calling(p, i, u)}
      BY <1>1, <1>8, <3>1
    <3>4. task'[p].upd = u
      BY <3>3, CallingParts, TakenParts
    <3> QED  BY <1>8, <3>2, <3>4 DEF Starts
  <2>6. CASE ConversionTimesOut(i)
    BY <1>2, <1>8, <2>6 DEF ConversionTimesOut, Starts, Update
  <2>7. CASE ConversionStillFresh(i)
    BY <1>3, <1>8, <2>7 DEF ConversionStillFresh
  <2> QED  BY <2>1, <2>2, <2>3, <2>4, <2>5, <2>6, <2>7
<1>9. CASE p = "payer" /\ PayerStep
  <2>1. PICK i \in task[p].todo :
          /\ AtItem(p, i)
          /\ \/ PayoutCreated(i) \/ PayoutAnswerLost(i) \/ PayoutRejected(i)
             \/ PayoutReconciled(i) \/ PayoutLeft(i)
    BY <1>9 DEF PayerStep
  <2>2. CASE PayoutAnswerLost(i)
    BY <1>1, <1>9, <2>2, TakenParts DEF PayoutAnswerLost
  <2>3. CASE PayoutLeft(i)
    BY <1>3, <1>9, <2>3 DEF PayoutLeft
  <2> QED  BY <1>9, <2>1, <2>2, <2>3 DEF Starts
<1>10. CASE p \in Hooks /\ HookReceives(p)
  BY <1>10 DEF Starts
<1>11. CASE p \in Hooks /\ HookMarksProcessed(p)
  BY <1>1, <1>11, FinishedParts DEF HookMarksProcessed
<1>12. CASE p \in Users /\ UserDisputes(p)
  BY <1>1, <1>12 DEF UserDisputes, Starts, Update, Idle
<1>13. CASE p \in Admins /\ AdminFindsTicket(p)
  BY <1>1, <1>13 DEF AdminFindsTicket, Starts, Idle, NoUpdate, Update
<1>14. CASE p \in Admins /\ AdminReadsTrade(p)
  <2> DEFINE row == trade[task[p].t]
  <2>1. PICK mode \in Modes, note \in Notes :
          \/ task' = [task EXCEPT ![p] =
               [@ EXCEPT !.pc = "commit", !.upd = Resolution(row, mode, note),
                         !.from = row.status,
                         !.clear = (Resolution(row, mode, note).to = "CONVERSION_COMPLETED")]]
          \/ task' = [task EXCEPT ![p] = Idle]
    BY <1>14 DEF AdminReadsTrade
  <2> DEFINE u == Resolution(row, mode, note)
             b == (u.to = "CONVERSION_COMPLETED")
  <2>2. u.op = "trade" /\ u.payout \in {NoRef, ForcedRef, row.payout}
    BY LifecycleAssumption DEF Resolution, ResolutionModes, Update
  <2> HIDE DEF u, b
  <2>3. task'[p] = [task[p] EXCEPT !.pc = "commit", !.upd = u, !.from = row.status, !.clear = b]
    BY <1>1, <2>1, FinishedParts DEF u, b
  <2>4. task'[p].upd = u /\ task'[p].t = task[p].t
    BY <1>1, <2>3 DEF Tasks
  <2> QED  BY <1>14, <2>2, <2>4 DEF Starts
<1>15. CASE p \in Admins /\ AdminCommits(p)
  BY <1>1, <1>15, FinishedParts DEF AdminCommits
<1>16. CASE p \in Updaters /\ ReadTrade(p)
  <2>1. CASE task' = [task EXCEPT ![p] = AfterError(p)]
    BY <1>1, <1>16, <2>1, FinishedParts DEF AfterError, ReadTrade, GoesOn, Tasks
  <2>2. CASE \E s : task' = [task EXCEPT ![p].pc = "commit", ![p].from = s]
    BY <1>1, <1>16, <2>2 DEF ReadTrade, GoesOn, Tasks
  <2> QED  BY <1>16, <2>1, <2>2 DEF ReadTrade
<1>17. CASE p \in Updaters /\ CommitUpdate(p)
  <2>1. task' = [task EXCEPT ![p] = AfterCommit(p)] /\ task[p].pc = "commit"
    BY <1>17 DEF CommitUpdate
  <2>2. CASE p \in Hooks
    <3>1. task'[p] = [task[p] EXCEPT !.pc = "ack"]
      BY <1>1, <2>1, <2>2 DEF AfterCommit
    <3> QED  BY <1>1, <2>1, <3>1 DEF GoesOn, Tasks
  <2>3. CASE p \notin Hooks /\ task[p].upd.to = "CONVERSION_IN_PROGRESS"
                            /\ task[p].result # "in_progress"
    <3> DEFINE u == ConversionResult(task[p].upd.order, task[p].result)
    <3>1. AfterCommit(p) = [task[p] EXCEPT !.pc = "read", !.from = None, !.upd = u]
      BY <1>1, <2>3 DEF AfterCommit, Tasks
    <3>2. u.op \in {"conversion_completed", "conversion_failed_dispute"} /\ u.payout = NoRef
      BY DEF ConversionResult, Update
    <3> HIDE DEF u
    <3>3. task'[p].upd = u /\ task'[p].t = task[p].t
      BY <1>1, <2>1, <3>1 DEF Tasks
    <3> QED  BY <1>17, <2>3, <3>2, <3>3 DEF Starts
  <2>4. CASE p \notin Hooks /\ ~(task[p].upd.to = "CONVERSION_IN_PROGRESS"
                                /\ task[p].result # "in_progress")
    BY <1>1, <2>1, <2>4, FinishedParts DEF AfterCommit
  <2> QED  BY <2>2, <2>3, <2>4
<1>18. CASE CommitFails(p) \/ PostingFails(p)
  BY <1>1, <1>18, FinishedParts DEF CommitFails, PostingFails, AfterError, GoesOn, Tasks
<1> QED  BY <1>4, <1>5, <1>6, <1>7, <1>8, <1>9, <1>10, <1>11, <1>12, <1>13, <1>14, <1>15,
            <1>16, <1>17, <1>18 DEF StepOf, WorkerStep

\* A step of a process takes items from its list, or is a new listing of a worker.
LEMMA Todo ==
  ASSUME IInv, NEW p \in Procs, StepOf(p)
  PROVE  \/ task'[p].todo \subseteq task[p].todo
         \/ p \in Workers /\ ListTrades(p)
<1>1. task \in [Procs -> Tasks] /\ task[p] \in Tasks
  BY DEF IInv, TypeOK
<1>2. ASSUME NEW i, NEW u, Calls(p, i, u) PROVE task'[p].todo \subseteq task[p].todo
  BY <1>1, <1>2, CallingParts DEF Calls
<1>3. ASSUME NEW i, Skips(p, i) PROVE task'[p].todo \subseteq task[p].todo
  BY <1>1, <1>3, TakenParts DEF Skips
<1>4. ASSUME NEW k, task' = [task EXCEPT ![p] = k], k.todo = task[p].todo \/ k.todo = {}
      PROVE  task'[p].todo \subseteq task[p].todo
  BY <1>1, <1>4
<1>5. CASE p = "watcher" /\ WatcherStep
  BY <1>2, <1>3, <1>5 DEF WatcherStep, WatcherChecks
<1>6. CASE p = "scanner" /\ ScannerStep
  BY <1>2, <1>3, <1>6 DEF ScannerStep, ScannerChecks
<1>7. CASE ExplorerFails(p)
  BY <1>3, <1>7 DEF ExplorerFails
<1>8. CASE p = "converter" /\ ConverterStep
  <2>1. PICK i \in task[p].todo :
             \/ OrderExecuted(i) \/ OrderAnswerLost(i) \/ OrderImpossible(i) \/ OrderFails(i)
             \/ ConversionTimesOut(i) \/ ConversionStillFresh(i)
    BY <1>8 DEF ConverterStep
  <2>2. CASE OrderExecuted(i)
    <3>1. PICK u, r : task' = [task EXCEPT ![p] = [Calling(p, i, u) EXCEPT !.result = r]]
      BY <1>8, <2>2 DEF OrderExecuted
    <3>2. [Calling(p, i, u) EXCEPT !.result = r].todo = task[p].todo \ {i}
      BY DEF Calling, Taken, Idle
    <3> QED  BY <1>1, <3>1, <3>2
  <2>3. CASE OrderAnswerLost(i)
    BY <2>3 DEF OrderAnswerLost
  <2>4. CASE OrderFails(i)
    <3>1. \E u : task'[p] \in {Taken(p, i), Calling(p, i, u)}
      BY <1>1, <1>8, <2>4 DEF OrderFails
    <3> QED  BY <3>1, CallingParts, TakenParts
  <2> QED  BY <1>2, <1>3, <1>8, <2>1, <2>2, <2>3, <2>4
           DEF OrderImpossible, ConversionTimesOut, ConversionStillFresh
<1>9. CASE p = "payer" /\ PayerStep
  <2>1. PICK i \in task[p].todo :
             \/ PayoutCreated(i) \/ PayoutAnswerLost(i) \/ PayoutRejected(i)
             \/ PayoutReconciled(i) \/ PayoutLeft(i)
    BY <1>9 DEF PayerStep
  <2>2. CASE PayoutCreated(i)
    <3>1. \E u : task'[p] = Calling(p, i, u)
      BY <1>1, <1>9, <2>2 DEF PayoutCreated
    <3> QED  BY <3>1, CallingParts
  <2>3. CASE PayoutAnswerLost(i)
    BY <1>1, <1>9, <2>3, TakenParts DEF PayoutAnswerLost
  <2> QED  BY <1>2, <1>3, <1>9, <2>1, <2>2, <2>3 DEF PayoutRejected, PayoutReconciled, PayoutLeft
<1>10. CASE p \in Hooks /\ HookReceives(p)
  <2>1. ASSUME NEW t, NEW u,
               task' = [task EXCEPT ![p] = [Idle EXCEPT !.pc = "read", !.t = t, !.upd = u]]
        PROVE  task'[p].todo = {}
    BY <1>1, <2>1 DEF Idle
  <2> QED  BY <1>10, <2>1 DEF HookReceives
<1>11. CASE p \in Hooks /\ HookMarksProcessed(p)
  BY <1>4, <1>11, FinishedParts DEF HookMarksProcessed
<1>12. CASE p \in Users /\ UserDisputes(p)
  BY <1>1, <1>12 DEF UserDisputes, Idle
<1>13. CASE p \in Admins /\ AdminFindsTicket(p)
  BY <1>1, <1>13 DEF AdminFindsTicket, Idle
<1>14. CASE p \in Admins /\ AdminReadsTrade(p)
  <2>1. CASE task' = [task EXCEPT ![p] = Idle]
    BY <1>4, <2>1, FinishedParts
  <2> DEFINE row == trade[task[p].t]
  <2>2. PICK mode \in Modes, note \in Notes :
          \/ task' = [task EXCEPT ![p] =
               [@ EXCEPT !.pc = "commit", !.upd = Resolution(row, mode, note),
                         !.from = row.status,
                         !.clear = (Resolution(row, mode, note).to = "CONVERSION_COMPLETED")]]
          \/ task' = [task EXCEPT ![p] = Idle]
    BY <1>14 DEF AdminReadsTrade
  <2> DEFINE u == Resolution(row, mode, note)
             c == (u.to = "CONVERSION_COMPLETED")
             s == row.status
  <2>3. CASE task' = [task EXCEPT ![p] = [@ EXCEPT !.pc = "commit", !.upd = u, !.from = s,
                                                   !.clear = c]]
    <3> HIDE DEF u, c, s
    <3> QED  BY <1>1, <2>3 DEF Tasks
  <2> QED  BY <2>1, <2>2, <2>3
<1>15. CASE p \in Admins /\ AdminCommits(p)
  BY <1>4, <1>15, FinishedParts DEF AdminCommits
<1>16. AfterError(p).todo = task[p].todo /\ AfterCommit(p).todo = task[p].todo
  BY <1>1, FinishedParts DEF AfterError, AfterCommit, Tasks
<1>17. CASE p \in Updaters /\ ReadTrade(p)
  <2>1. CASE \E s : task' = [task EXCEPT ![p].pc = "commit", ![p].from = s]
    BY <1>1, <2>1 DEF Tasks
  <2> QED  BY <1>4, <1>16, <1>17, <2>1 DEF ReadTrade
<1>18. CASE p \in Updaters /\ CommitUpdate(p)
  BY <1>4, <1>16, <1>18 DEF CommitUpdate
<1>19. CASE CommitFails(p) \/ PostingFails(p)
  BY <1>4, <1>16, <1>19 DEF CommitFails, PostingFails
<1> QED  BY <1>5, <1>6, <1>7, <1>8, <1>9, <1>10, <1>11, <1>12, <1>13, <1>14, <1>15,
            <1>17, <1>18, <1>19 DEF StepOf, WorkerStep

\* The lists of the processes name a trade once.
OneItemEach == \A p \in Procs : \A i, j \in task[p].todo : i.t = j.t => i = j

LEMMA InitOneItem == Init => OneItemEach
BY FinishedParts DEF Init, OneItemEach

LEMMA NextOneItem == IInv /\ OneItemEach /\ [Next]_vars => OneItemEach'
<1> SUFFICES ASSUME IInv, OneItemEach, [Next]_vars, NEW q \in Procs,
                    NEW i \in task'[q].todo, NEW j \in task'[q].todo, i.t = j.t
             PROVE  i = j
  BY DEF OneItemEach
<1>1. CASE UNCHANGED vars \/ \E t \in Trades : EnvStep(t)
  <2>1. task' = task
    BY <1>1 DEF vars, EnvStep, DepositSeen, DepositFinal, DepositDrops, DepositReplaced,
                WindowCloses, ProviderSettles
  <2> QED  BY <2>1 DEF OneItemEach
<1>2. CASE Crash
  BY <1>2, FinishedParts DEF Crash
<1>3. CASE \E p \in Procs : StepOf(p)
  <2>1. PICK p \in Procs : StepOf(p)
    BY <1>3
  <2>2. CASE task'[q].todo \subseteq task[q].todo
    BY <2>2 DEF OneItemEach
  <2>3. CASE q = p /\ p \in Workers /\ ListTrades(p)
    <3>1. PICK s \in Watched(p) : task'[p].todo =
            { [t |-> t, status |-> s, ref |-> ListedRef(p, t)] : t \in Matching(p, s) }
      BY <2>3 DEF ListTrades, IInv, TypeOK, Tasks
    <3> QED  BY <2>3, <3>1
  <2> QED  BY <2>1, <2>2, <2>3, OwnTask, Todo
<1> QED  BY <1>1, <1>2, <1>3, WhoSteps

\* What one transaction leaves: either the row keeps its status because the key was
\* reserved, or the new status comes with a new key and, but for DISPUTE, a posting.
LEMMA TransactionWrites ==
  ASSUME IInv, NEW t \in Trades, NEW row, NEW from, NEW u, Transaction(t, row, from, u)
  PROVE  /\ \A x \in Trades \ {t} : /\ trade'[x] = trade[x] /\ opKeys'[x] = opKeys[x]
                                    /\ ledger'[x] = ledger[x]
         /\ \/ /\ OperationKey(u) \in opKeys[t]
               /\ opKeys' = opKeys /\ ledger' = ledger
               /\ trade'[t].status = trade[t].status /\ trade'[t].tx = trade[t].tx
               /\ trade'[t].payout \in {trade[t].payout, NoRef}
            \/ /\ OperationKey(u) \notin opKeys[t]
               /\ opKeys'[t] = opKeys[t] \cup {OperationKey(u)}
               /\ trade'[t].status = u.to
               /\ trade'[t].tx = IF u.tx = None THEN trade[t].tx ELSE u.tx
               /\ \/ u.payout = NoRef /\ trade'[t].payout \in {trade[t].payout, NoRef}
                  \/ u.payout # NoRef /\ trade'[t].payout = u.payout
               /\ \A e \in Entries :
                    ledger'[t][e] = IF u.post /\ StatusOf(e) = u.to
                                      THEN ledger[t][e] + 1 ELSE ledger[t][e]
<1>1. /\ trade \in [Trades -> Rows] /\ opKeys \in [Trades -> SUBSET Keys]
      /\ ledger \in [Trades -> [Entries -> Nat]]
  BY DEF IInv, TypeOK, StoreTypeOK
<1>2. CASE DuplicateIgnored(t, row, u)
  BY <1>1, <1>2 DEF DuplicateIgnored, Reserves, Transaction
<1>3. CASE StatusWritten(t, row, from, u)
  <2>1. trade' = [trade EXCEPT ![t] = Written(row, u)]
    BY <1>3 DEF StatusWritten
  <2>2. ledger' = [ledger EXCEPT ![t] = postLedgerForStatusTransitionTx(ledger[t], u)]
    BY <1>1, <1>3 DEF StatusWritten
  <2>3. \A e \in Entries : ledger'[t][e] = IF u.post /\ StatusOf(e) = u.to
                                             THEN ledger[t][e] + 1 ELSE ledger[t][e]
    BY <1>1, <2>2 DEF postLedgerForStatusTransitionTx, LedgerFor
  <2>4. /\ Written(row, u).status = u.to
        /\ Written(row, u).tx = IF u.tx = None THEN row.tx ELSE u.tx
        /\ Written(row, u).payout = IF u.payout = NoRef THEN row.payout ELSE u.payout
    BY DEF Written
  <2>5. /\ OperationKey(u) \notin opKeys[t]
        /\ opKeys' = [opKeys EXCEPT ![t] = opKeys[t] \cup {OperationKey(u)}]
    BY <1>1, <1>3 DEF StatusWritten, Reserves
  <2>6. /\ trade'[t].status = u.to
        /\ trade'[t].tx = IF u.tx = None THEN trade[t].tx ELSE u.tx
        /\ \/ u.payout = NoRef /\ trade'[t].payout \in {trade[t].payout, NoRef}
           \/ u.payout # NoRef /\ trade'[t].payout = u.payout
    BY <1>1, <2>1, <2>4 DEF Transaction
  <2> QED  BY <1>1, <2>1, <2>2, <2>3, <2>5, <2>6
<1> QED  BY <1>2, <1>3 DEF Transaction, updateTradeStatusTx

\* A process writes to the database only when it commits, and its own update.
LEMMA Writes ==
  ASSUME IInv, NEW p \in Procs, StepOf(p)
  PROVE  \/ UNCHANGED storeVars
         \/ /\ task[p].pc = "commit" /\ task[p].t \in Trades
            /\ UNCHANGED envVars
            /\ \/ p \in Updaters /\ CommitUpdate(p)
               \/ p \in Admins /\ AdminCommits(p)
            /\ \E row \in Rows : Transaction(task[p].t, row, task[p].from, task[p].upd)
<1>1. [Next]_vars
  BY DEF StepOf, Next, Procs, Updaters
<1>2. CASE p \in Updaters /\ CommitUpdate(p)
  <2>1. Transaction(task[p].t, trade[task[p].t], task[p].from, task[p].upd)
    BY <1>2, CommitIsTransaction
  <2>2. UNCHANGED envVars /\ task[p].pc = "commit"
    BY <1>2 DEF CommitUpdate
  <2>3. trade[task[p].t] \in Rows /\ task[p].t \in Trades
    BY <2>1 DEF Transaction
  <2> QED  BY <1>2, <2>1, <2>2, <2>3
<1>3. CASE p \in Admins /\ AdminCommits(p)
  <2>1. PICK row \in Rows : Transaction(task[p].t, row, task[p].from, task[p].upd)
    BY <1>3, ResolutionIsTransaction
  <2>2. UNCHANGED envVars /\ task[p].pc = "commit"
    BY <1>3 DEF AdminCommits
  <2> QED  BY <1>3, <2>1, <2>2 DEF Transaction
<1>4. CASE ~(p \in Updaters /\ CommitUpdate(p)) /\ ~(p \in Admins /\ AdminCommits(p))
  <2>1. CASE WorkerStep(p)
    BY <2>1 DEF WorkerStep, ListTrades, ExplorerFails, Skips, Calls, WatcherStep, WatcherChecks,
                ScannerStep, ScannerChecks, ConverterStep, OrderExecuted, OrderAnswerLost,
                OrderImpossible, OrderFails, ConversionTimesOut, ConversionStillFresh,
                PayerStep, PayoutCreated, PayoutAnswerLost, PayoutRejected,
                PayoutReconciled, PayoutLeft
  <2>2. CASE HookReceives(p) \/ HookMarksProcessed(p) \/ UserDisputes(p)
             \/ AdminFindsTicket(p) \/ AdminReadsTrade(p)
    BY <2>2 DEF HookReceives, HookMarksProcessed, UserDisputes, AdminFindsTicket,
                AdminReadsTrade
  <2>3. CASE ReadTrade(p) \/ CommitFails(p) \/ PostingFails(p)
    BY <2>3 DEF ReadTrade, CommitFails, PostingFails
  <2> QED  BY <1>4, <2>1, <2>2, <2>3 DEF StepOf
<1> QED  BY <1>2, <1>3, <1>4

\* The ledger only grows, the keys are kept, and a status that is newly written
\* comes with its posting.
LEMMA LedgerPays ==
  ASSUME IInv, [Next]_vars, NEW x \in Trades
  PROVE  /\ opKeys[x] \subseteq opKeys'[x]
         /\ \A e \in Entries :
              /\ ledger[x][e] \in Nat /\ ledger'[x][e] \in Nat /\ ledger'[x][e] >= ledger[x][e]
              /\ trade[x].status # StatusOf(e) /\ trade'[x].status = StatusOf(e)
                   /\ e # "DISPUTE_ADJUSTMENT"
                   => ledger'[x][e] = ledger[x][e] + 1
<1>1. \A e \in Entries : ledger[x][e] \in Nat
  BY DEF IInv, TypeOK, StoreTypeOK
<1>2. CASE UNCHANGED storeVars
  BY <1>1, <1>2 DEF storeVars
<1>3. CASE \E t \in Trades, row \in Rows, from \in Statuses, u \in Updates :
             Transaction(t, row, from, u)
  <2>1. PICK t \in Trades, row \in Rows, from \in Statuses, u \in Updates :
          Transaction(t, row, from, u)
    BY <1>3
  <2>2. \A e \in Entries : e # "DISPUTE_ADJUSTMENT" => StatusOf(e) # "DISPUTE"
    BY DEF StatusOf, Entries
  <2>3. ~u.post => u.to = "DISPUTE"
    BY <2>1 DEF Transaction, UpdateSound
  <2> QED  BY <1>1, <2>1, <2>2, <2>3, TransactionWrites
<1> QED  BY <1>2, <1>3, StoreTransactions

\* Faults are counted, and the world outside does not write to the database.
LEMMA EnvFrame ==
  ASSUME NEW t \in Trades, EnvStep(t)
  PROVE  UNCHANGED <<storeVars, orders, task, retries, hookDone, faults>>
BY DEF EnvStep, DepositSeen, DepositFinal, DepositDrops, DepositReplaced, WindowCloses,
       ProviderSettles

LEMMA FaultsGrow ==
  ASSUME IInv, [Next]_vars
  PROVE  faults \in Nat /\ faults' \in {faults, faults + 1}
<1>1. CASE UNCHANGED vars \/ \E t \in Trades : EnvStep(t)
  BY <1>1, EnvFrame DEF vars, IInv, TypeOK
<1>2. CASE Crash
  BY <1>2 DEF Crash, IInv, TypeOK
<1>3. CASE \E p \in Procs : StepOf(p)
  BY <1>3 DEF StepOf, WorkerStep, ListTrades, ExplorerFails, Skips, Calls, WatcherStep,
              WatcherChecks, ScannerStep, ScannerChecks, ConverterStep, OrderExecuted,
              OrderAnswerLost, OrderImpossible, OrderFails, ConversionTimesOut,
              ConversionStillFresh, PayerStep, PayoutCreated, PayoutAnswerLost,
              PayoutRejected, PayoutReconciled, PayoutLeft, HookReceives,
              HookMarksProcessed, UserDisputes, AdminFindsTicket, AdminReadsTrade,
              AdminCommits, ReadTrade, CommitUpdate, CommitFails, PostingFails, IInv, TypeOK
<1> QED  BY <1>1, <1>2, <1>3, WhoSteps

\* Only the conversion processor has orders executed, only the payout processor has
\* payouts created.
LEMMA OrderSteps ==
  ASSUME NEW p \in Procs, StepOf(p)
  PROVE  \/ orders' = orders
         \/ /\ p = "converter" /\ p \in Workers
            /\ \E i \in task[p].todo : AtItem(p, i) /\ (OrderExecuted(i) \/ OrderAnswerLost(i))
<1>1. CASE p \in Workers /\ p = "converter" /\ ConverterStep
  <2>1. PICK i \in task[p].todo :
          /\ AtItem(p, i)
          /\ \/ OrderExecuted(i) \/ OrderAnswerLost(i) \/ OrderImpossible(i) \/ OrderFails(i)
             \/ ConversionTimesOut(i) \/ ConversionStillFresh(i)
    BY <1>1 DEF ConverterStep
  <2> QED  BY <1>1, <2>1 DEF OrderImpossible, OrderFails, ConversionTimesOut,
                             ConversionStillFresh, Calls, Skips, envVars
<1>2. CASE ~(p \in Workers /\ p = "converter" /\ ConverterStep)
  BY <1>2 DEF StepOf, WorkerStep, ListTrades, ExplorerFails, Skips, Calls, WatcherStep,
              WatcherChecks, ScannerStep, ScannerChecks, PayerStep, PayoutCreated,
              PayoutAnswerLost, PayoutRejected, PayoutReconciled, PayoutLeft, HookReceives,
              HookMarksProcessed, UserDisputes, AdminFindsTicket, AdminReadsTrade,
              AdminCommits, ReadTrade, CommitUpdate, CommitFails, PostingFails, envVars
<1> QED  BY <1>1, <1>2

LEMMA PayoutSteps ==
  ASSUME NEW p \in Procs, StepOf(p)
  PROVE  \/ payouts' = payouts
         \/ /\ p = "payer" /\ p \in Workers
            /\ \E i \in task[p].todo : AtItem(p, i) /\ (PayoutCreated(i) \/ PayoutAnswerLost(i))
<1>1. CASE p \in Workers /\ p = "payer" /\ PayerStep
  <2>1. PICK i \in task[p].todo :
          /\ AtItem(p, i)
          /\ \/ PayoutCreated(i) \/ PayoutAnswerLost(i) \/ PayoutRejected(i)
             \/ PayoutReconciled(i) \/ PayoutLeft(i)
    BY <1>1 DEF PayerStep
  <2> QED  BY <1>1, <2>1 DEF PayoutRejected, PayoutReconciled, PayoutLeft, Calls, Skips, envVars
<1>2. CASE ~(p \in Workers /\ p = "payer" /\ PayerStep)
  BY <1>2 DEF StepOf, WorkerStep, ListTrades, ExplorerFails, Skips, Calls, WatcherStep,
              WatcherChecks, ScannerStep, ScannerChecks, ConverterStep, OrderExecuted,
              OrderAnswerLost, OrderImpossible, OrderFails, ConversionTimesOut,
              ConversionStillFresh, HookReceives, HookMarksProcessed, UserDisputes,
              AdminFindsTicket, AdminReadsTrade, AdminCommits, ReadTrade, CommitUpdate,
              CommitFails, PostingFails, envVars
<1> QED  BY <1>1, <1>2

\* One more payout: the others are what they were.
LEMMA PayoutAppended ==
  ASSUME IInv, NEW i \in Items, payouts' = [payouts EXCEPT ![i.t] = Append(@, "pending")],
         NEW t \in Trades
  PROVE  /\ Len(payouts'[t]) = IF t = i.t THEN Len(payouts[t]) + 1 ELSE Len(payouts[t])
         /\ \A r \in DOMAIN payouts[t] : r \in DOMAIN payouts'[t] /\ payouts'[t][r] = payouts[t][r]
<1>1. i.t \in Trades /\ payouts \in [Trades -> Seq(PayoutStates)]
  BY DEF IInv, TypeOK, Items
<1>2. CASE t = i.t
  <2>1. payouts'[t] = Append(payouts[t], "pending")
    BY <1>1, <1>2
  <2>2. payouts[t] \in Seq(PayoutStates)
    BY <1>1
  <2> QED  BY <1>2, <2>1, <2>2
<1>3. CASE t # i.t
  BY <1>1, <1>3
<1> QED  BY <1>2, <1>3

\* The payouts at the provider are never taken back, and a settled one stays.
LEMMA PayoutsGrow ==
  ASSUME IInv, [Next]_vars, NEW t \in Trades
  PROVE  /\ Len(payouts[t]) \in Nat /\ Len(payouts'[t]) \in Nat
         /\ DOMAIN payouts[t] = 1..Len(payouts[t]) /\ DOMAIN payouts'[t] = 1..Len(payouts'[t])
         /\ Len(payouts'[t]) >= Len(payouts[t])
         /\ \A r \in DOMAIN payouts[t] :
              payouts[t][r] # "pending" => payouts'[t][r] = payouts[t][r]
<1>1. payouts \in [Trades -> Seq(PayoutStates)] /\ payouts' \in [Trades -> Seq(PayoutStates)]
  BY NextIInv DEF IInv, TypeOK
<1>2. payouts[t] \in Seq(PayoutStates) /\ payouts'[t] \in Seq(PayoutStates)
  BY <1>1
<1>3. CASE payouts' = payouts
  BY <1>2, <1>3
<1>4. CASE \E x \in Trades : EnvStep(x)
  <2>1. CASE \E x \in Trades : ProviderSettles(x)
    <3>1. PICK x \in Trades : ProviderSettles(x)
      BY <2>1
    <3>2. PICK r \in DOMAIN payouts[x], s \in {"completed", "failed"} :
            payouts[x][r] = "pending" /\ payouts' = [payouts EXCEPT ![x][r] = s]
      BY <3>1 DEF ProviderSettles
    <3>3. CASE x = t
      <4>1. payouts'[t] = [payouts[t] EXCEPT ![r] = s]
        BY <1>1, <3>2, <3>3
      <4>2. Len(payouts'[t]) = Len(payouts[t])
        BY <1>2, <4>1
      <4>3. \A q \in DOMAIN payouts[t] :
              payouts[t][q] # "pending" => payouts'[t][q] = payouts[t][q]
        BY <1>2, <3>2, <3>3, <4>1
      <4> QED  BY <1>2, <4>2, <4>3
    <3>4. CASE x # t
      <4>1. payouts'[t] = payouts[t]
        BY <1>1, <3>2, <3>4
      <4> QED  BY <1>2, <4>1
    <3> QED  BY <3>3, <3>4
  <2> QED  BY <1>3, <1>4, <2>1 DEF EnvStep, DepositSeen, DepositFinal, DepositDrops,
                                   DepositReplaced, WindowCloses
<1>5. CASE Crash \/ UNCHANGED vars
  BY <1>3, <1>5 DEF Crash, vars, envVars
<1>6. CASE \E p \in Procs : StepOf(p)
  <2>1. CASE \E i \in Items : payouts' = [payouts EXCEPT ![i.t] = Append(@, "pending")]
    BY <1>2, <2>1, PayoutAppended
  <2>2. PICK p \in Procs : StepOf(p)
    BY <1>6
  <2>3. task[p].todo \in SUBSET Items
    BY DEF IInv, TypeOK, Tasks
  <2> QED  BY <1>3, <2>1, <2>2, <2>3, PayoutSteps DEF PayoutCreated, PayoutAnswerLost
<1> QED  BY <1>3, <1>4, <1>5, <1>6, WhoSteps

-----------------------------------------------------------------------------
(***************************************************************************)
(* A posted payout is a payout the provider has completed.  What a commit  *)
(* reports was read from the provider before, and settled payouts stay.    *)
(***************************************************************************)
Evidence(t, r) == r \in DOMAIN payouts[t] /\ payouts[t][r] = "completed"

EvidenceInv ==
  /\ PayoutsEvidenced
  /\ \A p \in Procs : task[p].pc # "idle" /\ task[p].upd.op = "payout_completed"
                        => Evidence(task[p].t, task[p].upd.ref)

LEMMA InitEvidence == Init => EvidenceInv
BY FinishedParts DEF Init, StoreInit, EvidenceInv, PayoutsEvidenced

\* The call a payout worker has started: its trade and its update.
LEMMA PayerCall ==
  ASSUME IInv, NEW i \in Items, "payer" \in Procs,
         PayoutCreated(i) \/ PayoutRejected(i) \/ PayoutReconciled(i)
  PROVE  LET u == task'["payer"].upd
         IN /\ task'["payer"].t = i.t /\ task'["payer"].pc = "read"
            /\ \/ /\ PayoutCreated(i)
                  /\ u = PayoutUpdate("PAYOUT_PENDING", "payout_pending", Len(payouts[i.t]) + 1)
               \/ /\ PayoutRejected(i)
                  /\ u = Update("PAYOUT_FAILED", "payout_failed_initiation", NoRef)
               \/ /\ payouts' = payouts
                  /\ i.status = "PAYOUT_PENDING" /\ i.ref \in DOMAIN payouts[i.t]
                  /\ \/ /\ payouts[i.t][i.ref] = "completed"
                        /\ u = PayoutUpdate("PAYOUT_COMPLETED", "payout_completed", i.ref)
                     \/ /\ payouts[i.t][i.ref] = "failed"
                        /\ u = PayoutUpdate("PAYOUT_FAILED", "payout_failed", i.ref)
<1>1. task \in [Procs -> Tasks]
  BY DEF IInv, TypeOK
<1>2. ASSUME NEW u, task' = [task EXCEPT !["payer"] = Calling("payer", i, u)]
      PROVE  task'["payer"].t = i.t /\ task'["payer"].pc = "read" /\ task'["payer"].upd = u
  BY <1>1, <1>2, CallingParts
<1>3. CASE PayoutCreated(i)
  BY <1>2, <1>3 DEF PayoutCreated
<1>4. CASE PayoutRejected(i)
  BY <1>2, <1>4 DEF PayoutRejected, Calls
<1>5. CASE PayoutReconciled(i)
  BY <1>2, <1>5 DEF PayoutReconciled, Calls, envVars
<1> QED  BY <1>3, <1>4, <1>5

\* The parts of the updates that carry a payout reference.
LEMMA PayoutUpdateParts ==
  ASSUME NEW to, NEW op, NEW ref
  PROVE  /\ PayoutUpdate(to, op, ref).to = to /\ PayoutUpdate(to, op, ref).op = op
         /\ PayoutUpdate(to, op, ref).ref = ref /\ PayoutUpdate(to, op, ref).payout = ref
         /\ PayoutUpdate(to, op, ref).note = None /\ PayoutUpdate(to, op, ref).tx = None
BY DEF PayoutUpdate, Update

LEMMA UpdateParts ==
  ASSUME NEW to, NEW op, NEW ref
  PROVE  /\ Update(to, op, ref).to = to /\ Update(to, op, ref).op = op
         /\ Update(to, op, ref).ref = ref /\ Update(to, op, ref).payout = NoRef
         /\ Update(to, op, ref).note = None /\ Update(to, op, ref).tx = None
BY DEF Update

\* The call a delivery has started: it reports what the provider's payout is.
LEMMA HookCall ==
  ASSUME IInv, NEW h \in Hooks, HookReceives(h), task'[h].pc # "idle"
  PROVE  \E t \in Trades : \E ref \in DOMAIN payouts[t] :
           \E s \in Reported(payouts[t][ref]) :
             /\ trade[t].payout = ref /\ payouts' = payouts
             /\ task'[h].t = t /\ task'[h].pc = "read"
             /\ task'[h].upd = PayoutUpdate(s, HookOp(s), ref)
<1>1. task \in [Procs -> Tasks] /\ h \in Procs
  BY DEF IInv, TypeOK, Procs
<1>2. PICK t \in Trades : \E ref \in DOMAIN payouts[t] : \E s \in Reported(payouts[t][ref]) :
        \/ task' = task
        \/ /\ trade[t].payout = ref
           /\ task' = [task EXCEPT ![h] = [Idle EXCEPT !.pc = "read", !.t = t,
                                            !.upd = PayoutUpdate(s, HookOp(s), ref)]]
  BY DEF HookReceives
<1>3. PICK ref \in DOMAIN payouts[t] : \E s \in Reported(payouts[t][ref]) :
        \/ task' = task
        \/ /\ trade[t].payout = ref
           /\ task' = [task EXCEPT ![h] = [Idle EXCEPT !.pc = "read", !.t = t,
                                            !.upd = PayoutUpdate(s, HookOp(s), ref)]]
  BY <1>2
<1>4. PICK s \in Reported(payouts[t][ref]) :
        \/ task' = task
        \/ /\ trade[t].payout = ref
           /\ task' = [task EXCEPT ![h] = [Idle EXCEPT !.pc = "read", !.t = t,
                                            !.upd = PayoutUpdate(s, HookOp(s), ref)]]
  BY <1>3
<1>5. task[h].pc = "idle" /\ payouts' = payouts
  BY DEF HookReceives, envVars
<1> DEFINE u == PayoutUpdate(s, HookOp(s), ref)
<1>6. /\ trade[t].payout = ref
      /\ task'[h] = [Idle EXCEPT !.pc = "read", !.t = t, !.upd = u]
  BY <1>1, <1>4, <1>5
<1> HIDE DEF u
<1>7. task'[h].t = t /\ task'[h].pc = "read" /\ task'[h].upd = u
  BY <1>6 DEF Idle
<1> QED  BY <1>5, <1>6, <1>7 DEF u

\* Reports of completion are made of completed payouts.
LEMMA EvidenceRead ==
  ASSUME IInv, NEW p \in Procs, Starts(p), task'[p].pc # "idle",
         task'[p].upd.op = "payout_completed"
  PROVE  Evidence(task[p].t, task[p].upd.ref)'
<1>1. task[p].todo \in SUBSET Items
  BY DEF IInv, TypeOK, Tasks
<1>2. CASE p \in Hooks /\ HookReceives(p)
  <2>1. PICK t, ref, s :
          /\ t \in Trades /\ ref \in DOMAIN payouts[t] /\ s \in Reported(payouts[t][ref])
          /\ payouts' = payouts /\ task'[p].t = t
          /\ task'[p].upd = PayoutUpdate(s, HookOp(s), ref)
    BY <1>2, HookCall
  <2>2. HookOp(s) = "payout_completed" /\ task'[p].upd.ref = ref
    BY <2>1, PayoutUpdateParts
  <2>3. s = "PAYOUT_COMPLETED" /\ payouts[t][ref] = "completed"
    BY <2>1, <2>2 DEF Reported, HookOp
  <2> QED  BY <2>1, <2>2, <2>3 DEF Evidence
<1>3. CASE p = "payer"
  <2>1. PICK i \in task[p].todo : PayoutCreated(i) \/ PayoutRejected(i) \/ PayoutReconciled(i)
    BY <1>3, ProcessesDistinct DEF Starts, AllWorkers
  <2> QED  BY <1>1, <1>3, <2>1, PayerCall, PayoutUpdateParts, UpdateParts DEF Evidence
<1> QED  BY <1>2, <1>3 DEF Starts

LEMMA NextEvidence == IInv /\ EvidenceInv /\ [Next]_vars => EvidenceInv'
<1> SUFFICES ASSUME IInv, EvidenceInv, [Next]_vars PROVE EvidenceInv'
  OBVIOUS
<1>1. \A t \in Trades : \A r : Evidence(t, r) => Evidence(t, r)'
  BY PayoutsGrow DEF Evidence
<1>2. \A p \in Procs : task[p].pc # "idle" => task[p].t \in Trades
  BY DEF IInv, TypeOK
<1>3. CASE UNCHANGED vars \/ \E t \in Trades : EnvStep(t)
  <2>1. task' = task /\ opKeys' = opKeys
    BY <1>3, EnvFrame DEF vars, storeVars
  <2> QED  BY <1>1, <1>2, <2>1 DEF EvidenceInv, PayoutsEvidenced, Evidence
<1>4. CASE Crash
  BY <1>1, <1>4, FinishedParts DEF Crash, storeVars, EvidenceInv, PayoutsEvidenced, Evidence
<1>5. CASE \E p \in Procs : StepOf(p)
  <2>1. PICK p \in Procs : StepOf(p)
    BY <1>5
  <2>2. ASSUME NEW q \in Procs, task'[q].pc # "idle", task'[q].upd.op = "payout_completed"
        PROVE  Evidence(task[q].t, task[q].upd.ref)'
    <3>1. CASE q # p
      BY <1>1, <1>2, <2>1, <2>2, <3>1, OwnTask DEF EvidenceInv
    <3>2. CASE q = p /\ GoesOn(p)
      BY <1>1, <1>2, <2>2, <3>2 DEF EvidenceInv, GoesOn
    <3>3. CASE q = p /\ Starts(p)
      BY <2>2, <3>3, EvidenceRead
    <3> QED  BY <2>1, <2>2, <3>1, <3>2, <3>3, NewTask
  <2>3. PayoutsEvidenced'
    <3>1. CASE UNCHANGED storeVars
      BY <1>1, <3>1 DEF storeVars, EvidenceInv, PayoutsEvidenced, Evidence
    <3>2. CASE task[p].pc = "commit" /\ \E row \in Rows :
                 Transaction(task[p].t, row, task[p].from, task[p].upd)
      <4> DEFINE u == task[p].upd
                 t == task[p].t
      <4>1. \A x \in Trades : \A k \in opKeys'[x] :
              k \in opKeys[x] \/ (x = t /\ k = OperationKey(u))
        <5>1. PICK row \in Rows : Transaction(t, row, task[p].from, u)
          BY <3>2
        <5>2. t \in Trades
          BY <5>1 DEF Transaction
        <5> HIDE DEF u, t
        <5> QED  BY <5>1, <5>2, TransactionWrites
      <4>2. u.op = "payout_completed" => Evidence(t, u.ref)
        BY <3>2 DEF EvidenceInv
      <4>3. OperationKey(u).op = u.op /\ OperationKey(u).ref = u.ref
        BY DEF OperationKey
      <4> HIDE DEF u, t
      <4> QED  BY <1>1, <4>1, <4>2, <4>3 DEF EvidenceInv, PayoutsEvidenced, Evidence
    <3> QED  BY <2>1, <3>1, <3>2, Writes
  <2> QED  BY <2>2, <2>3 DEF EvidenceInv
<1> QED  BY <1>3, <1>4, <1>5, WhoSteps

\* A PAYOUT posting that the reconciler or the webhook made is for a payout the
\* provider has completed (PayoutsEvidenced), however late the report arrived.
THEOREM PayoutsHaveEvidence == Spec => []PayoutsEvidenced
<1>1. EvidenceInv => PayoutsEvidenced
  BY DEF EvidenceInv
<1> QED  BY <1>1, InitEvidence, NextEvidence, InvariantHolds, PTL DEF Spec

-----------------------------------------------------------------------------
(***************************************************************************)
(* A deposit is sold once.  An order is due for a trade that the converter *)
(* has listed as confirmed, or that is confirmed and not being written; it *)
(* takes up one posted DEPOSIT or one fault that no order has taken yet.   *)
(***************************************************************************)
Doing(w, op, t) ==
  w \in Procs /\ task[w].pc \in {"read", "commit"} /\ task[w].t = t /\ task[w].upd.op = op
Listed(w, s, t) == w \in Procs /\ \E i \in task[w].todo : i.t = t /\ i.status = s

Ordering(t) == Doing("converter", "conversion_started", t)
OrderDue(t) == \/ Listed("converter", "DEPOSIT_CONFIRMED", t)
               \/ trade[t].status = "DEPOSIT_CONFIRMED" /\ ~Ordering(t)

OrdersPaid ==
  \A t \in Trades : /\ orders[t] <= ledger[t]["DEPOSIT"] + faults
                    /\ OrderDue(t) => orders[t] + 1 <= ledger[t]["DEPOSIT"] + faults

\* The call that records an order carries the number of the latest one...
OrderTasks ==
  \A p \in Procs :
    task[p].pc # "idle" /\ task[p].upd.op = "conversion_started"
      => /\ p = "converter" /\ task[p].upd.to = "CONVERSION_IN_PROGRESS"
         /\ task[p].upd.ref = orders[task[p].t]

\* ... so its key is new: it can only fail to be reserved if it was recorded.
OrderKeys ==
  \A t \in Trades : \A k \in opKeys[t] :
    k.op = "conversion_started"
      => k.ref \in Int /\ k.ref <= orders[t] /\ (Ordering(t) => k.ref < orders[t])

OrderInv == OrdersPaid /\ OrderTasks /\ OrderKeys

LEMMA InitOrders == Init => OrderInv
<1> SUFFICES ASSUME Init PROVE OrderInv
  OBVIOUS
<1>1. \A p \in Procs : task[p].pc = "idle" /\ task[p].todo = {}
  BY FinishedParts DEF Init
<1>2. \A t \in Trades : /\ orders[t] = 0 /\ opKeys[t] = {} /\ ledger[t]["DEPOSIT"] = 0
                        /\ trade[t].status = "PENDING_DEPOSIT"
  BY DEF Init, StoreInit, Entries
<1>3. faults = 0
  BY DEF Init
<1> QED  BY <1>1, <1>2, <1>3 DEF OrderInv, OrdersPaid, OrderTasks, OrderKeys, OrderDue, Listed

\* What the order of item i does to the converter's task.
LEMMA OrderCall ==
  ASSUME IInv, "converter" \in Procs, NEW i \in Items, OrderExecuted(i)
  PROVE  /\ orders' = [orders EXCEPT ![i.t] = @ + 1]
         /\ task'["converter"].pc = "read" /\ task'["converter"].t = i.t
         /\ task'["converter"].todo = task["converter"].todo \ {i}
         /\ task'["converter"].upd.op = "conversion_started"
         /\ task'["converter"].upd.to = "CONVERSION_IN_PROGRESS"
         /\ task'["converter"].upd.ref = orders'[i.t]
         /\ task'["converter"].upd.tx = None /\ task'["converter"].upd.payout = NoRef
         /\ UNCHANGED <<storeVars, payouts, faults>>
<1> DEFINE u == [Update("CONVERSION_IN_PROGRESS", "conversion_started", orders'[i.t])
                   EXCEPT !.order = orders'[i.t]]
<1>1. PICK r \in Outcomes :
        task' = [task EXCEPT !["converter"] = [Calling("converter", i, u) EXCEPT !.result = r]]
  BY DEF OrderExecuted
<1>2. /\ u.op = "conversion_started" /\ u.to = "CONVERSION_IN_PROGRESS"
      /\ u.ref = orders'[i.t] /\ u.tx = None /\ u.payout = NoRef
  BY DEF Update
<1> HIDE DEF u
<1>3. task'["converter"] = [Calling("converter", i, u) EXCEPT !.result = r]
  BY <1>1 DEF IInv, TypeOK
<1>4. /\ task'["converter"].pc = "read" /\ task'["converter"].t = i.t
      /\ task'["converter"].upd = u /\ task'["converter"].todo = task["converter"].todo \ {i}
  BY <1>3 DEF Calling, Taken, Idle
<1> QED  BY <1>2, <1>4 DEF OrderExecuted

\* Orders are only counted up, by the converter.
LEMMA OrdersOf ==
  ASSUME IInv, NEW p \in Procs, StepOf(p)
  PROVE  \/ orders' = orders
         \/ p = "converter" /\ task[p].pc = "idle"
              /\ \E i \in task[p].todo :
                   /\ i \in Items /\ i.t \in Trades /\ i.status = "DEPOSIT_CONFIRMED"
                   /\ orders' = [orders EXCEPT ![i.t] = @ + 1]
                   /\ UNCHANGED storeVars
                   /\ \/ OrderExecuted(i) /\ faults' = faults
                      \/ OrderAnswerLost(i) /\ faults' = faults + 1 /\ task' = task
<1>1. task[p].todo \in SUBSET Items
  BY DEF IInv, TypeOK, Tasks
<1> QED  BY <1>1, OrderSteps DEF AtItem, Items, OrderExecuted, OrderAnswerLost

\* A new call that records an order follows the order.
LEMMA OrderStarts ==
  ASSUME IInv, NEW p \in Procs, Starts(p), task'[p].pc # "idle",
         task'[p].upd.op = "conversion_started"
  PROVE  p = "converter" /\ \E i \in task[p].todo : OrderExecuted(i)
<1>1. task[p].todo \in SUBSET Items
  BY DEF IInv, TypeOK, Tasks
<1>2. CASE p \in Hooks /\ HookReceives(p)
  <2>1. PICK s, ref : task'[p].upd = PayoutUpdate(s, HookOp(s), ref) /\ \E x : s \in Reported(x)
    BY <1>2, HookCall
  <2>2. HookOp(s) = "conversion_started"
    BY <2>1, PayoutUpdateParts
  <2> QED  BY <2>1, <2>2 DEF HookOp, Reported
<1>3. CASE p = "payer" /\ \E i \in task[p].todo :
             PayoutCreated(i) \/ PayoutRejected(i) \/ PayoutReconciled(i)
  BY <1>1, <1>3, PayerCall, PayoutUpdateParts, UpdateParts
<1> QED  BY <1>2, <1>3 DEF Starts

LEMMA NextOrderTasks ==
  ASSUME IInv, OrderTasks, NEW p \in Procs, StepOf(p)
  PROVE  OrderTasks'
<1> SUFFICES ASSUME NEW q \in Procs, task'[q].pc # "idle", task'[q].upd.op = "conversion_started"
             PROVE  /\ q = "converter" /\ task'[q].upd.to = "CONVERSION_IN_PROGRESS"
                    /\ task'[q].upd.ref = orders'[task'[q].t]
  BY DEF OrderTasks
<1>1. CASE q = p /\ Starts(p)
  <2>1. PICK i \in task[p].todo : OrderExecuted(i) /\ p = "converter"
    BY <1>1, OrderStarts
  <2>2. i \in Items
    BY DEF IInv, TypeOK, Tasks
  <2> QED  BY <1>1, <2>1, <2>2, OrderCall
<1>2. CASE q = p /\ GoesOn(p)
  <2>1. task[p].pc # "idle" /\ orders' = orders
    BY <1>2, OrdersOf DEF GoesOn
  <2> QED  BY <1>2, <2>1 DEF OrderTasks, GoesOn
<1>3. CASE q # p
  <2>1. task'[q] = task[q]
    BY <1>3, OwnTask
  <2>2. q = "converter" /\ orders' = orders
    BY <1>3, <2>1, OrdersOf DEF OrderTasks
  <2> QED  BY <2>1, <2>2 DEF OrderTasks
<1> QED  BY <1>1, <1>2, <1>3, NewTask

\* What a process that has a call under way can do with it.
LEMMA Called ==
  ASSUME IInv, NEW p \in Procs, StepOf(p), task[p].pc \in {"read", "commit"}
  PROVE  \/ p \in Updaters /\ (ReadTrade(p) \/ CommitUpdate(p))
         \/ p \in Admins /\ AdminCommits(p)
         \/ CommitFails(p) \/ PostingFails(p)
BY DEF StepOf, WorkerStep, ListTrades, ExplorerFails, WatcherStep, ScannerStep, ConverterStep,
       PayerStep, AtItem, HookReceives, HookMarksProcessed, UserDisputes, AdminFindsTicket,
       AdminReadsTrade

\* A commit ends the call, and a conversion goes on to record its result.
LEMMA CommitEnds ==
  ASSUME IInv, NEW p \in Updaters, CommitUpdate(p)
  PROVE  \/ task'[p].pc \in {"idle", "ack"}
         \/ /\ task'[p].pc = "read" /\ task[p].upd.to = "CONVERSION_IN_PROGRESS"
            /\ task'[p].t = task[p].t
            /\ task'[p].upd = ConversionResult(task[p].upd.order, task[p].result)
            /\ task'[p].upd.op \in {"conversion_completed", "conversion_failed_dispute"}
<1>1. task \in [Procs -> Tasks] /\ p \in Procs
  BY DEF IInv, TypeOK, Updaters, Procs
<1>2. task'[p] = AfterCommit(p)
  BY <1>1 DEF CommitUpdate
<1> DEFINE u == ConversionResult(task[p].upd.order, task[p].result)
<1>3. u.op \in {"conversion_completed", "conversion_failed_dispute"}
  BY DEF ConversionResult, Update
<1> HIDE DEF u
<1>4. CASE task'[p] = [task[p] EXCEPT !.pc = "read", !.from = None, !.upd = u]
           /\ task[p].upd.to = "CONVERSION_IN_PROGRESS"
  BY <1>1, <1>3, <1>4 DEF Tasks, u
<1>5. CASE task'[p] \in {[task[p] EXCEPT !.pc = "ack"], Finished(p)}
  BY <1>1, <1>5, FinishedParts DEF Tasks
<1>6. task[p] \in Tasks
  BY <1>1
<1> QED  BY <1>2, <1>4, <1>5, <1>6 DEF AfterCommit, u, Tasks

\* A read that finds the transition allowed keeps the call under way.
LEMMA ReadAllowed ==
  ASSUME IInv, NEW p \in Updaters, ReadTrade(p),
         isAllowedTradeStatusTransition(trade[task[p].t].status, task[p].upd.to)
  PROVE  task'[p].pc = "commit" /\ task'[p].t = task[p].t /\ task'[p].upd = task[p].upd
<1>1. task \in [Procs -> Tasks] /\ p \in Procs
  BY DEF IInv, TypeOK, Updaters, Procs
<1> DEFINE s == trade[task[p].t].status
<1>2. task' = [task EXCEPT ![p].pc = "commit", ![p].from = s]
  BY DEF ReadTrade
<1> HIDE DEF s
<1> QED  BY <1>1, <1>2 DEF Tasks

\* The records of an order and of a payout have no entries to post, which could fail.
LEMMA NothingToPost ==
  ASSUME NEW u, u.to \in {"CONVERSION_IN_PROGRESS", "PAYOUT_PENDING"}
  PROVE  KeyFits(u)
  BY DEF KeyFits, Posts, LedgerFor, StatusOf, Entries

\* An order falls due only with a posted entry into DEPOSIT_CONFIRMED.
LEMMA OrderFallsDue ==
  ASSUME IInv, OrderInv, NEW p \in Procs, StepOf(p), NEW x \in Trades,
         faults' = faults, OrderDue(x)', ~OrderDue(x)
  PROVE  trade[x].status # "DEPOSIT_CONFIRMED" /\ trade'[x].status = "DEPOSIT_CONFIRMED"
<1>1. ~Listed("converter", "DEPOSIT_CONFIRMED", x)'
  <2> SUFFICES ASSUME "converter" \in Procs, NEW i \in task'["converter"].todo,
                      i.t = x, i.status = "DEPOSIT_CONFIRMED"
               PROVE  FALSE
    BY DEF Listed
  <2>1. i \notin task["converter"].todo
    BY DEF OrderDue, Listed
  <2>2. p = "converter" /\ ListTrades(p)
    BY <2>1, OwnTask, Todo
  <2>3. PICK s \in Watched(p) : task'[p].todo =
          { [t |-> t, status |-> s, ref |-> ListedRef(p, t)] : t \in Matching(p, s) }
    BY <2>2 DEF ListTrades, IInv, TypeOK, Tasks
  <2>4. trade[x].status = "DEPOSIT_CONFIRMED" /\ task[p].pc = "idle"
    BY <2>2, <2>3 DEF ListTrades, Matching
  <2> QED  BY <2>2, <2>4 DEF OrderDue, Ordering, Doing
<1>2. trade'[x].status = "DEPOSIT_CONFIRMED" /\ ~Ordering(x)'
  BY <1>1 DEF OrderDue
<1>3. ASSUME trade[x].status = "DEPOSIT_CONFIRMED" PROVE FALSE
  <2>1. Ordering(x)
    BY <1>3 DEF OrderDue
  <2>2. p = "converter"
    BY <1>2, <2>1, OwnTask DEF Ordering, Doing
  <2>3. /\ task[p].pc \in {"read", "commit"} /\ task[p].t = x
        /\ task[p].upd.op = "conversion_started"
        /\ task[p].upd.to = "CONVERSION_IN_PROGRESS" /\ task[p].upd.ref = orders[x]
    BY <2>1, <2>2 DEF Ordering, Doing, OrderInv, OrderTasks
  <2>4. p \notin Admins /\ p \notin Hooks
    BY <2>2, ProcessesDistinct DEF AllWorkers
  <2>5. CASE p \in Updaters /\ ReadTrade(p)
    <3>1. isAllowedTradeStatusTransition(trade[x].status, task[p].upd.to)
      BY <1>3, <2>3 DEF isAllowedTradeStatusTransition, AllowedTargets
    <3> QED  BY <1>2, <2>2, <2>3, <2>5, <3>1, ReadAllowed DEF Ordering, Doing
  <2>6. CASE p \in Updaters /\ CommitUpdate(p)
    <3>1. Transaction(x, trade[x], task[p].from, task[p].upd)
      BY <2>3, <2>6, CommitIsTransaction
    <3>2. OperationKey(task[p].upd) \notin opKeys[x]
      <4>1. orders[x] \in Nat
        BY DEF IInv, TypeOK
      <4>2. /\ OperationKey(task[p].upd).op = "conversion_started"
            /\ OperationKey(task[p].upd).ref = orders[x]
        BY <2>3 DEF OperationKey
      <4> QED  BY <2>1, <4>1, <4>2 DEF OrderInv, OrderKeys
    <3>3. trade'[x].status = "CONVERSION_IN_PROGRESS"
      BY <2>3, <3>1, <3>2, TransactionWrites
    <3> QED  BY <1>2, <3>3
  <2>7. CASE CommitFails(p) \/ PostingFails(p)
    BY <2>3, <2>7, NothingToPost DEF CommitFails, PostingFails, IInv, TypeOK
  <2> QED  BY <2>3, <2>4, <2>5, <2>6, <2>7, Called
<1> QED  BY <1>2, <1>3

LEMMA NextOrdersPaid ==
  ASSUME IInv, OneItemEach, OrderInv, NEW p \in Procs, StepOf(p), [Next]_vars
  PROVE  OrdersPaid'
<1> SUFFICES ASSUME NEW x \in Trades
             PROVE  /\ orders'[x] <= ledger'[x]["DEPOSIT"] + faults'
                    /\ OrderDue(x)' => orders'[x] + 1 <= ledger'[x]["DEPOSIT"] + faults'
  BY DEF OrdersPaid
<1>1. /\ orders[x] \in Nat /\ orders \in [Trades -> Nat]
      /\ orders[x] <= ledger[x]["DEPOSIT"] + faults
      /\ OrderDue(x) => orders[x] + 1 <= ledger[x]["DEPOSIT"] + faults
  BY DEF IInv, TypeOK, OrderInv, OrdersPaid
<1>2. /\ ledger[x]["DEPOSIT"] \in Nat /\ ledger'[x]["DEPOSIT"] \in Nat
      /\ ledger'[x]["DEPOSIT"] >= ledger[x]["DEPOSIT"]
      /\ trade[x].status # "DEPOSIT_CONFIRMED" /\ trade'[x].status = "DEPOSIT_CONFIRMED"
           => ledger'[x]["DEPOSIT"] = ledger[x]["DEPOSIT"] + 1
  BY LedgerPays DEF Entries, StatusOf
<1>3. faults \in Nat /\ faults' \in {faults, faults + 1}
  BY FaultsGrow
<1>4. CASE orders'[x] = orders[x]
  <2>1. CASE faults' = faults
    BY <1>1, <1>2, <1>3, <1>4, <2>1, OrderFallsDue
  <2>2. CASE faults' = faults + 1
    BY <1>1, <1>2, <1>3, <1>4, <2>2
  <2> QED  BY <1>3, <2>1, <2>2
<1>5. CASE orders'[x] # orders[x]
  <2>1. PICK i \in task[p].todo :
          /\ p = "converter" /\ task[p].pc = "idle" /\ i \in Items
          /\ i.status = "DEPOSIT_CONFIRMED" /\ i.t = x /\ orders'[x] = orders[x] + 1
          /\ UNCHANGED storeVars
          /\ \/ OrderExecuted(i) /\ faults' = faults
             \/ OrderAnswerLost(i) /\ faults' = faults + 1 /\ task' = task
    BY <1>1, <1>5, OrdersOf
  <2>2. OrderDue(x) /\ ledger' = ledger
    BY <2>1 DEF OrderDue, Listed, storeVars
  <2>3. CASE OrderExecuted(i) /\ faults' = faults
    <3>1. /\ task'[p].todo = task[p].todo \ {i} /\ task'[p].pc = "read" /\ task'[p].t = x
          /\ task'[p].upd.op = "conversion_started"
      BY <2>1, <2>3, OrderCall
    <3>2. ~Listed("converter", "DEPOSIT_CONFIRMED", x)'
      BY <2>1, <3>1 DEF Listed, OneItemEach
    <3>3. ~OrderDue(x)'
      BY <2>1, <3>1, <3>2 DEF OrderDue, Ordering, Doing
    <3> QED  BY <1>1, <1>2, <1>3, <2>1, <2>2, <2>3, <3>3
  <2>4. CASE faults' = faults + 1
    BY <1>1, <1>2, <1>3, <2>1, <2>2, <2>4
  <2> QED  BY <2>1, <2>3, <2>4
<1> QED  BY <1>4, <1>5

LEMMA NextOrderKeys ==
  ASSUME IInv, OrderInv, NEW p \in Procs, StepOf(p)
  PROVE  OrderKeys'
<1> SUFFICES ASSUME NEW x \in Trades, NEW k \in opKeys'[x], k.op = "conversion_started"
             PROVE  /\ k.ref \in Int /\ k.ref <= orders'[x]
                    /\ Ordering(x)' => k.ref < orders'[x]
  BY DEF OrderKeys
<1>1. /\ orders \in [Trades -> Nat] /\ orders[x] \in Nat
      /\ orders'[x] = orders[x] \/ orders'[x] = orders[x] + 1
  BY OrdersOf DEF IInv, TypeOK
<1>2. CASE k \in opKeys[x]
  <2>1. k.ref \in Int /\ k.ref <= orders[x] /\ (Ordering(x) => k.ref < orders[x])
    BY <1>2 DEF OrderInv, OrderKeys
  <2>2. ASSUME Ordering(x)', ~Ordering(x) PROVE orders'[x] = orders[x] + 1
    <3>1. p = "converter" /\ ~GoesOn(p)
      BY <2>2, OwnTask DEF Ordering, Doing, GoesOn
    <3>2. Starts(p) /\ task'[p].pc # "idle" /\ task'[p].upd.op = "conversion_started"
      BY <2>2, <3>1, NewTask DEF Ordering, Doing
    <3>3. PICK i \in task[p].todo : OrderExecuted(i)
      BY <3>2, OrderStarts
    <3>4. i \in Items /\ i.t \in Trades
      BY DEF IInv, TypeOK, Tasks, Items
    <3>5. task'[p].t = i.t /\ orders' = [orders EXCEPT ![i.t] = @ + 1]
      BY <3>1, <3>3, <3>4, OrderCall
    <3> QED  BY <1>1, <2>2, <3>1, <3>4, <3>5 DEF Ordering, Doing
  <2> QED  BY <1>1, <2>1, <2>2
<1>3. CASE k \notin opKeys[x]
  <2>1. /\ task[p].pc = "commit" /\ task[p].t \in Trades /\ orders' = orders
        /\ \/ p \in Updaters /\ CommitUpdate(p)
           \/ p \in Admins /\ AdminCommits(p)
        /\ \E row \in Rows : Transaction(task[p].t, row, task[p].from, task[p].upd)
    BY <1>3, Writes DEF storeVars, envVars
  <2>2. task[p].t = x /\ k = OperationKey(task[p].upd)
    BY <1>3, <2>1, TransactionWrites
  <2>3. task[p].upd.op = "conversion_started" /\ task[p].upd.ref = k.ref
    BY <2>2 DEF OperationKey
  <2>4. p = "converter" /\ k.ref = orders[x]
    BY <2>1, <2>2, <2>3 DEF OrderInv, OrderTasks
  <2>5. p \notin Admins
    BY <2>4, ProcessesDistinct DEF AllWorkers
  <2>6. ~Ordering(x)'
    BY <2>1, <2>4, <2>5, CommitEnds DEF Ordering, Doing
  <2> QED  BY <1>1, <2>1, <2>4, <2>6
<1> QED  BY <1>2, <1>3

LEMMA NextOrders == IInv /\ OneItemEach /\ OrderInv /\ [Next]_vars => OrderInv'
<1> SUFFICES ASSUME IInv, OneItemEach, OrderInv, [Next]_vars PROVE OrderInv'
  OBVIOUS
<1>1. CASE UNCHANGED vars \/ \E t \in Trades : EnvStep(t)
  <2>1. UNCHANGED <<trade, opKeys, ledger, orders, task, faults>>
    BY <1>1, EnvFrame DEF vars, storeVars, envVars
  <2> QED  BY <2>1 DEF OrderInv, OrdersPaid, OrderTasks, OrderKeys, OrderDue, Ordering, Doing,
                       Listed
<1>2. CASE Crash
  <2>1. \A q \in Procs : task'[q].pc = "idle"
    BY <1>2, FinishedParts DEF Crash
  <2>2. /\ ledger' = ledger /\ opKeys' = opKeys /\ orders' = orders /\ faults' = faults + 1
        /\ faults \in Nat
    BY <1>2 DEF Crash, storeVars, envVars, IInv, TypeOK
  <2>3. \A x \in Trades : /\ orders[x] \in Nat /\ ledger[x]["DEPOSIT"] \in Nat
                          /\ orders[x] <= ledger[x]["DEPOSIT"] + faults
    BY DEF IInv, TypeOK, StoreTypeOK, Entries, OrderInv, OrdersPaid
  <2>4. OrdersPaid'
    BY <2>2, <2>3 DEF OrdersPaid
  <2>5. OrderTasks' /\ OrderKeys'
    BY <2>1, <2>2 DEF OrderInv, OrderTasks, OrderKeys, Ordering, Doing
  <2> QED  BY <2>4, <2>5 DEF OrderInv
<1>3. CASE \E p \in Procs : StepOf(p)
  BY <1>3, NextOrdersPaid, NextOrderTasks, NextOrderKeys DEF OrderInv
<1> QED  BY <1>1, <1>2, <1>3, WhoSteps

\* Every further exchange order for a trade is preceded by a further posted entry
\* into DEPOSIT_CONFIRMED, or by a fault (OrdersBacked): stale lists, retries and
\* concurrent requests alone never sell a deposit twice.
THEOREM OrdersAreBacked == Spec => []OrdersBacked
<1>1. OrderInv => OrdersBacked
  BY DEF OrderInv, OrdersPaid, OrdersBacked
<1> QED  BY <1>1, InitOneItem, NextOneItem, InitOrders, NextOrders, InvariantHolds, PTL DEF Spec

-----------------------------------------------------------------------------
(***************************************************************************)
(* A trade is paid out once.  The argument is that of the orders, but the  *)
(* reference of a payout is also known to the deliveries of the provider,  *)
(* to the row and to the administrators: while a new payout is being       *)
(* recorded, theirs are older ones.                                        *)
(***************************************************************************)
Paying(t) == Doing("payer", "payout_pending", t)
PayoutDue(t) == \/ Listed("payer", "CONVERSION_COMPLETED", t)
                \/ trade[t].status = "CONVERSION_COMPLETED" /\ ~Paying(t)

PayoutsPaid ==
  \A t \in Trades :
    /\ Len(payouts[t]) <= ledger[t]["CONVERSION"] + faults
    /\ PayoutDue(t) => Len(payouts[t]) + 1 <= ledger[t]["CONVERSION"] + faults

\* A reference of trade t that does not get in the way of a payout being recorded.
OldRef(t, r) == r \in Int /\ r <= Len(payouts[t]) /\ (Paying(t) => r < Len(payouts[t]))

\* What holds of a call of process p, update u of trade t.
PayoutTask(p, t, u) ==
  /\ u.op = "payout_pending"
       => /\ u.to = "PAYOUT_PENDING" /\ u.ref = u.payout
          /\ u.ref \in DOMAIN payouts[t]
  /\ IF p = "payer" THEN /\ u.payout <= Len(payouts[t])
                         /\ Paying(t) => u.payout = Len(payouts[t])
                    ELSE OldRef(t, u.payout)

PayoutTasks ==
  \A p \in Procs : task[p].pc # "idle" => PayoutTask(p, task[p].t, task[p].upd)

PayoutRefs ==
  \A t \in Trades : /\ OldRef(t, trade[t].payout)
                    /\ \A k \in opKeys[t] : k.op = "payout_pending" => OldRef(t, k.ref)

PayoutInv == PayoutsPaid /\ PayoutTasks /\ PayoutRefs

LEMMA InitPayouts == Init => PayoutInv
<1> SUFFICES ASSUME Init PROVE PayoutInv
  OBVIOUS
<1>1. \A p \in Procs : task[p].pc = "idle" /\ task[p].todo = {}
  BY FinishedParts DEF Init
<1>2. \A t \in Trades : /\ payouts[t] = <<>> /\ opKeys[t] = {} /\ ledger[t]["CONVERSION"] = 0
                        /\ trade[t].status = "PENDING_DEPOSIT" /\ trade[t].payout = NoRef
  BY DEF Init, StoreInit, Entries
<1>3. faults = 0
  BY DEF Init
<1> QED  BY <1>1, <1>2, <1>3 DEF PayoutInv, PayoutsPaid, PayoutTasks, PayoutRefs, OldRef,
                                PayoutDue, Listed, Paying, Doing, NoRef

\* A payout being recorded is the latest one.
LEMMA PayingLatest ==
  ASSUME IInv, PayoutInv, NEW t \in Trades, Paying(t)
  PROVE  /\ "payer" \in Procs /\ task["payer"].t = t
         /\ task["payer"].upd.op = "payout_pending"
         /\ task["payer"].upd.to = "PAYOUT_PENDING"
         /\ task["payer"].upd.ref = Len(payouts[t])
         /\ task["payer"].upd.payout = Len(payouts[t]) /\ Len(payouts[t]) > 0
<1>1. payouts[t] \in Seq(PayoutStates)
  BY DEF IInv, TypeOK
<1>2. /\ "payer" \in Procs /\ task["payer"].pc # "idle" /\ task["payer"].t = t
      /\ task["payer"].upd.op = "payout_pending"
  BY DEF Paying, Doing
<1> QED  BY <1>1, <1>2 DEF PayoutInv, PayoutTasks, PayoutTask

\* Payouts are only added, by the payout processor.
LEMMA PayoutsOf ==
  ASSUME IInv, NEW p \in Procs, StepOf(p)
  PROVE  \/ payouts' = payouts
         \/ p = "payer" /\ task[p].pc = "idle" /\ UNCHANGED storeVars
              /\ \E i \in task[p].todo :
                   /\ i \in Items /\ i.t \in Trades /\ i.status = "CONVERSION_COMPLETED"
                   /\ payouts' = [payouts EXCEPT ![i.t] = Append(@, "pending")]
                   /\ task'[p].todo = task[p].todo \ {i}
                   /\ \/ /\ PayoutCreated(i) /\ faults' = faults
                         /\ task'[p].pc = "read" /\ task'[p].t = i.t
                         /\ task'[p].upd = PayoutUpdate("PAYOUT_PENDING", "payout_pending",
                                                        Len(payouts[i.t]) + 1)
                      \/ /\ PayoutAnswerLost(i) /\ faults' = faults + 1
                         /\ task'[p].pc = "idle"
<1>1. task[p].todo \in SUBSET Items /\ task \in [Procs -> Tasks]
  BY DEF IInv, TypeOK, Tasks
<1>2. CASE p = "payer" /\ \E i \in task[p].todo : AtItem(p, i) /\ PayoutCreated(i)
  <2>1. PICK i \in task[p].todo : AtItem(p, i) /\ PayoutCreated(i)
    BY <1>2
  <2> DEFINE u == PayoutUpdate("PAYOUT_PENDING", "payout_pending", Len(payouts[i.t]) + 1)
  <2>2. task'[p] = Calling(p, i, u)
    BY <1>1, <1>2, <2>1 DEF PayoutCreated
  <2> HIDE DEF u
  <2>3. task'[p].pc = "read" /\ task'[p].t = i.t /\ task'[p].upd = u
        /\ task'[p].todo = task[p].todo \ {i}
    BY <2>2, CallingParts
  <2> QED  BY <1>1, <1>2, <2>1, <2>3 DEF u, AtItem, PayoutCreated, Items
<1>3. CASE p = "payer" /\ \E i \in task[p].todo : AtItem(p, i) /\ PayoutAnswerLost(i)
  <2>1. PICK i \in task[p].todo : AtItem(p, i) /\ PayoutAnswerLost(i)
    BY <1>3
  <2>2. task'[p].pc = "idle" /\ task'[p].todo = task[p].todo \ {i}
    BY <1>1, <1>3, <2>1, TakenParts DEF PayoutAnswerLost
  <2> QED  BY <1>1, <1>3, <2>1, <2>2 DEF AtItem, PayoutAnswerLost, Items
<1> QED  BY <1>2, <1>3, PayoutSteps

\* A call that starts: the recording of a new payout, or one with an older reference.
LEMMA PayoutStarts ==
  ASSUME IInv, NEW p \in Procs, StepOf(p), Starts(p), task'[p].pc # "idle", payouts' = payouts
  PROVE  LET u == task'[p].upd
             t == task'[p].t
         IN /\ u.op = "payout_pending"
                 => /\ p \in Hooks /\ u.to = "PAYOUT_PENDING" /\ u.ref = u.payout
                    /\ u.ref \in DOMAIN payouts[t]
            /\ \/ u.payout \in {NoRef, ForcedRef, trade[t].payout}
               \/ p = "payer" /\ u.payout \in DOMAIN payouts[t]
<1>1. task[p].todo \in SUBSET Items /\ payouts \in [Trades -> Seq(PayoutStates)]
  BY DEF IInv, TypeOK, Tasks
<1>2. CASE p \in Hooks /\ HookReceives(p)
  <2>1. PICK t, ref, s :
               /\ t \in Trades /\ ref \in DOMAIN payouts[t] /\ s \in Reported(payouts[t][ref])
               /\ trade[t].payout = ref /\ task'[p].t = t
               /\ task'[p].upd = PayoutUpdate(s, HookOp(s), ref)
    BY <1>2, HookCall
  <2>2. HookOp(s) = "payout_pending" => s = "PAYOUT_PENDING"
    BY <2>1 DEF HookOp, Reported
  <2> QED  BY <1>2, <2>1, <2>2, PayoutUpdateParts
<1>3. CASE p = "payer" /\ \E i \in task[p].todo :
             PayoutCreated(i) \/ PayoutRejected(i) \/ PayoutReconciled(i)
  <2>1. PICK i \in task[p].todo : PayoutCreated(i) \/ PayoutRejected(i) \/ PayoutReconciled(i)
    BY <1>3
  <2>2. ~PayoutCreated(i)
    <3>1. payouts[i.t] \in Seq(PayoutStates) /\ i.t \in Trades
      BY <1>1 DEF Items
    <3>2. PayoutCreated(i) => Len(payouts'[i.t]) = Len(payouts[i.t]) + 1
      BY <1>1, <3>1, PayoutAppended DEF PayoutCreated
    <3> QED  BY <3>1, <3>2
  <2> QED  BY <1>1, <1>3, <2>1, <2>2, PayerCall, PayoutUpdateParts, UpdateParts
<1> QED  BY <1>2, <1>3 DEF Starts

\* A payout begins to be recorded when it has just been made.
LEMMA PayingStarts ==
  ASSUME IInv, NEW p \in Procs, StepOf(p), NEW x \in Trades, Paying(x)', ~Paying(x)
  PROVE  /\ p = "payer" /\ UNCHANGED storeVars
         /\ Len(payouts'[x]) = Len(payouts[x]) + 1
<1>1. /\ "payer" \in Procs /\ task'["payer"].pc \in {"read", "commit"} /\ task'["payer"].t = x
      /\ task'["payer"].upd.op = "payout_pending"
  BY DEF Paying, Doing
<1>2. p = "payer" /\ ~GoesOn(p)
  BY <1>1, OwnTask DEF Paying, Doing, GoesOn
<1>3. Starts(p)
  BY <1>1, <1>2, NewTask
<1>4. p \notin Hooks
  BY <1>2, ProcessesDistinct DEF AllWorkers
<1>5. payouts' # payouts
  BY <1>1, <1>2, <1>3, <1>4, PayoutStarts
<1> QED  BY <1>1, <1>2, <1>5, PayoutsOf, PayoutAppended

LEMMA NextOldRef ==
  ASSUME IInv, NEW p \in Procs, StepOf(p), [Next]_vars, NEW t \in Trades, NEW r, OldRef(t, r)
  PROVE  OldRef(t, r)'
<1>1. Len(payouts[t]) \in Nat /\ Len(payouts'[t]) \in Nat /\ Len(payouts'[t]) >= Len(payouts[t])
  BY PayoutsGrow
<1>2. CASE Paying(t)' /\ ~Paying(t)
  BY <1>1, <1>2, PayingStarts DEF OldRef
<1>3. CASE ~(Paying(t)' /\ ~Paying(t))
  BY <1>1, <1>3 DEF OldRef
<1> QED  BY <1>2, <1>3

\* No reference at all, and the administrators' own one, are never in the way.
LEMMA OldRefs ==
  ASSUME IInv, PayoutInv, NEW t \in Trades
  PROVE  OldRef(t, NoRef) /\ OldRef(t, ForcedRef) /\ OldRef(t, trade[t].payout)
<1>1. Len(payouts[t]) \in Nat
  BY DEF IInv, TypeOK
<1>2. Paying(t) => Len(payouts[t]) > 0
  BY PayingLatest
<1> QED  BY <1>1, <1>2 DEF OldRef, NoRef, ForcedRef, PayoutInv, PayoutRefs

\* A call is kept as it is by the steps of the others, and by its own.
LEMMA KeptPayoutTask ==
  ASSUME IInv, PayoutInv, NEW p \in Procs, StepOf(p), [Next]_vars,
         NEW q \in Procs, NEW t \in Trades, NEW u, PayoutTask(q, t, u),
         q = "payer" => payouts' = payouts /\ (Paying(t)' => Paying(t))
  PROVE  PayoutTask(q, t, u)'
<1>1. /\ Len(payouts[t]) \in Nat /\ Len(payouts'[t]) \in Nat
      /\ Len(payouts'[t]) >= Len(payouts[t])
      /\ DOMAIN payouts[t] = 1..Len(payouts[t]) /\ DOMAIN payouts'[t] = 1..Len(payouts'[t])
  BY PayoutsGrow
<1>2. CASE q = "payer"
  BY <1>1, <1>2 DEF PayoutTask
<1>3. CASE q # "payer"
  <2>1. OldRef(t, u.payout)'
    BY <1>3, NextOldRef DEF PayoutTask
  <2> QED  BY <1>1, <1>3, <2>1 DEF PayoutTask
<1> QED  BY <1>2, <1>3

LEMMA NextPayoutTasks ==
  ASSUME IInv, PayoutInv, NEW p \in Procs, StepOf(p), [Next]_vars
  PROVE  PayoutTasks'
<1> SUFFICES ASSUME NEW q \in Procs, NEW t \in Trades, NEW u,
                    task'[q].pc # "idle", t = task'[q].t, u = task'[q].upd
             PROVE  PayoutTask(q, t, u)'
  <2>1. \A q \in Procs : task'[q].pc # "idle" => task'[q].t \in Trades
    BY NextIInv DEF IInv, TypeOK
  <2> QED  BY <2>1 DEF PayoutTasks, PayoutTask, OldRef, Paying, Doing
<1>1. CASE q # p
  <2>1. task'[q] = task[q]
    BY <1>1, OwnTask
  <2>2. PayoutTask(q, t, u)
    BY <2>1 DEF PayoutInv, PayoutTasks
  <2>3. q = "payer" => payouts' = payouts /\ (Paying(t)' => Paying(t))
    BY <1>1, <2>1, PayoutsOf, PayingStarts
  <2> QED  BY <2>2, <2>3, KeptPayoutTask
<1>2. CASE q = p /\ GoesOn(p)
  <2>1. PayoutTask(q, t, u)
    BY <1>2 DEF PayoutInv, PayoutTasks, GoesOn
  <2>2. payouts' = payouts
    BY <1>2, PayoutsOf DEF GoesOn
  <2>3. q = "payer" => (Paying(t)' => Paying(t))
    BY <1>2 DEF Paying, Doing, GoesOn
  <2> QED  BY <2>1, <2>2, <2>3, KeptPayoutTask
<1>3. CASE q = p /\ Starts(p) /\ payouts' = payouts
  <2>1. /\ u.op = "payout_pending"
              => /\ p \in Hooks /\ u.to = "PAYOUT_PENDING" /\ u.ref = u.payout
                 /\ u.ref \in DOMAIN payouts[t]
        /\ \/ u.payout \in {NoRef, ForcedRef, trade[t].payout}
           \/ p = "payer" /\ u.payout \in DOMAIN payouts[t]
    BY <1>3, PayoutStarts
  <2>2. Len(payouts[t]) \in Nat /\ DOMAIN payouts[t] = 1..Len(payouts[t])
    BY PayoutsGrow
  <2>3. CASE p = "payer"
    <3>1. p \notin Hooks
      BY <2>3, ProcessesDistinct DEF AllWorkers
    <3>2. ~Paying(t)'
      BY <1>3, <2>1, <2>3, <3>1 DEF Paying, Doing
    <3>3. u.payout <= Len(payouts[t])
      BY <2>1, <2>2, OldRefs DEF OldRef
    <3> QED  BY <1>3, <2>1, <2>3, <3>2, <3>3 DEF PayoutTask
  <2>4. CASE p # "payer"
    <3>1. OldRef(t, u.payout)
      BY <2>1, <2>4, OldRefs
    <3>2. OldRef(t, u.payout)'
      BY <3>1, NextOldRef
    <3> QED  BY <1>3, <2>1, <2>4, <3>2 DEF PayoutTask
  <2> QED  BY <2>3, <2>4
<1>4. CASE q = p /\ Starts(p) /\ payouts' # payouts
  <2>1. PICK i \in Items : /\ p = "payer" /\ i.t = t
                           /\ payouts' = [payouts EXCEPT ![i.t] = Append(@, "pending")]
                           /\ u = PayoutUpdate("PAYOUT_PENDING", "payout_pending",
                                               Len(payouts[i.t]) + 1)
    BY <1>4, PayoutsOf
  <2>2. Len(payouts'[t]) = Len(payouts[t]) + 1
    <3>1. payouts \in [Trades -> Seq(PayoutStates)] /\ payouts[t] \in Seq(PayoutStates)
      BY DEF IInv, TypeOK
    <3>2. payouts'[t] = Append(payouts[t], "pending")
      BY <2>1, <3>1
    <3> QED  BY <3>1, <3>2
  <2>3. Len(payouts[t]) \in Nat /\ DOMAIN payouts'[t] = 1..Len(payouts'[t])
    BY PayoutsGrow
  <2>4. /\ u.to = "PAYOUT_PENDING" /\ u.ref = Len(payouts'[t]) /\ u.payout = Len(payouts'[t])
    BY <2>1, <2>2, PayoutUpdateParts
  <2> QED  BY <1>4, <2>1, <2>2, <2>3, <2>4 DEF PayoutTask
<1> QED  BY <1>1, <1>2, <1>3, <1>4, NewTask

\* A payout falls due only with a posted entry into CONVERSION_COMPLETED.
LEMMA PayoutFallsDue ==
  ASSUME IInv, PayoutInv, NEW p \in Procs, StepOf(p), NEW x \in Trades,
         faults' = faults, PayoutDue(x)', ~PayoutDue(x)
  PROVE  trade[x].status # "CONVERSION_COMPLETED" /\ trade'[x].status = "CONVERSION_COMPLETED"
<1>1. ~Listed("payer", "CONVERSION_COMPLETED", x)'
  <2> SUFFICES ASSUME "payer" \in Procs, NEW i \in task'["payer"].todo,
                      i.t = x, i.status = "CONVERSION_COMPLETED"
               PROVE  FALSE
    BY DEF Listed
  <2>1. i \notin task["payer"].todo
    BY DEF PayoutDue, Listed
  <2>2. p = "payer" /\ ListTrades(p)
    BY <2>1, OwnTask, Todo
  <2>3. PICK s \in Watched(p) : task'[p].todo =
          { [t |-> t, status |-> s, ref |-> ListedRef(p, t)] : t \in Matching(p, s) }
    BY <2>2 DEF ListTrades, IInv, TypeOK, Tasks
  <2>4. trade[x].status = "CONVERSION_COMPLETED" /\ task[p].pc = "idle"
    BY <2>2, <2>3 DEF ListTrades, Matching
  <2> QED  BY <2>2, <2>4 DEF PayoutDue, Paying, Doing
<1>2. trade'[x].status = "CONVERSION_COMPLETED" /\ ~Paying(x)'
  BY <1>1 DEF PayoutDue
<1>3. ASSUME trade[x].status = "CONVERSION_COMPLETED" PROVE FALSE
  <2>1. Paying(x)
    BY <1>3 DEF PayoutDue
  <2>2. p = "payer"
    BY <1>2, <2>1, OwnTask DEF Paying, Doing
  <2>3. /\ task[p].pc \in {"read", "commit"} /\ task[p].t = x
        /\ task[p].upd.op = "payout_pending" /\ task[p].upd.to = "PAYOUT_PENDING"
        /\ task[p].upd.ref = Len(payouts[x])
    BY <2>1, <2>2, PayingLatest DEF Paying, Doing
  <2>4. p \notin Admins /\ p \notin Hooks
    BY <2>2, ProcessesDistinct DEF AllWorkers
  <2>5. CASE p \in Updaters /\ ReadTrade(p)
    <3>1. isAllowedTradeStatusTransition(trade[x].status, task[p].upd.to)
      BY <1>3, <2>3 DEF isAllowedTradeStatusTransition, AllowedTargets
    <3> QED  BY <1>2, <2>2, <2>3, <2>5, <3>1, ReadAllowed DEF Paying, Doing
  <2>6. CASE p \in Updaters /\ CommitUpdate(p)
    <3>1. Transaction(x, trade[x], task[p].from, task[p].upd)
      BY <2>3, <2>6, CommitIsTransaction
    <3>2. OperationKey(task[p].upd) \notin opKeys[x]
      <4>1. Len(payouts[x]) \in Nat
        BY DEF IInv, TypeOK
      <4>2. /\ OperationKey(task[p].upd).op = "payout_pending"
            /\ OperationKey(task[p].upd).ref = Len(payouts[x])
        BY <2>3 DEF OperationKey
      <4> QED  BY <2>1, <4>1, <4>2 DEF PayoutInv, PayoutRefs, OldRef
    <3>3. trade'[x].status = "PAYOUT_PENDING"
      BY <2>3, <3>1, <3>2, TransactionWrites
    <3> QED  BY <1>2, <3>3
  <2>7. CASE CommitFails(p) \/ PostingFails(p)
    BY <2>3, <2>7, NothingToPost DEF CommitFails, PostingFails, IInv, TypeOK
  <2> QED  BY <2>3, <2>4, <2>5, <2>6, <2>7, Called
<1> QED  BY <1>2, <1>3

LEMMA NextPayoutsPaid ==
  ASSUME IInv, OneItemEach, PayoutInv, NEW p \in Procs, StepOf(p), [Next]_vars
  PROVE  PayoutsPaid'
<1> SUFFICES ASSUME NEW x \in Trades
             PROVE  /\ Len(payouts'[x]) <= ledger'[x]["CONVERSION"] + faults'
                    /\ PayoutDue(x)' => Len(payouts'[x]) + 1 <= ledger'[x]["CONVERSION"] + faults'
  BY DEF PayoutsPaid
<1>1. /\ Len(payouts[x]) \in Nat /\ payouts \in [Trades -> Seq(PayoutStates)]
      /\ Len(payouts[x]) <= ledger[x]["CONVERSION"] + faults
      /\ PayoutDue(x) => Len(payouts[x]) + 1 <= ledger[x]["CONVERSION"] + faults
  BY DEF IInv, TypeOK, PayoutInv, PayoutsPaid
<1>2. /\ ledger[x]["CONVERSION"] \in Nat /\ ledger'[x]["CONVERSION"] \in Nat
      /\ ledger'[x]["CONVERSION"] >= ledger[x]["CONVERSION"]
      /\ trade[x].status # "CONVERSION_COMPLETED" /\ trade'[x].status = "CONVERSION_COMPLETED"
           => ledger'[x]["CONVERSION"] = ledger[x]["CONVERSION"] + 1
  BY LedgerPays DEF Entries, StatusOf
<1>3. faults \in Nat /\ faults' \in {faults, faults + 1}
  BY FaultsGrow
<1>4. CASE payouts'[x] = payouts[x]
  <2>1. CASE faults' = faults
    BY <1>1, <1>2, <1>3, <1>4, <2>1, PayoutFallsDue
  <2>2. CASE faults' = faults + 1
    BY <1>1, <1>2, <1>3, <1>4, <2>2
  <2> QED  BY <1>3, <2>1, <2>2
<1>5. CASE payouts'[x] # payouts[x]
  <2>1. PICK i \in task[p].todo :
          /\ p = "payer" /\ task[p].pc = "idle" /\ UNCHANGED storeVars
          /\ i \in Items /\ i.status = "CONVERSION_COMPLETED" /\ i.t = x
          /\ payouts' = [payouts EXCEPT ![i.t] = Append(@, "pending")]
          /\ task'[p].todo = task[p].todo \ {i}
          /\ \/ /\ PayoutCreated(i) /\ faults' = faults
                /\ task'[p].pc = "read" /\ task'[p].t = i.t
                /\ task'[p].upd = PayoutUpdate("PAYOUT_PENDING", "payout_pending",
                                               Len(payouts[i.t]) + 1)
             \/ PayoutAnswerLost(i) /\ faults' = faults + 1
    BY <1>1, <1>5, PayoutsOf
  <2>2. PayoutDue(x) /\ ledger' = ledger
    BY <2>1 DEF PayoutDue, Listed, storeVars
  <2>3. Len(payouts'[x]) = Len(payouts[x]) + 1
    <3>1. payouts'[x] = Append(payouts[x], "pending")
      BY <1>1, <2>1
    <3> QED  BY <1>1, <3>1
  <2>4. CASE faults' = faults
    <3>1. PayoutUpdate("PAYOUT_PENDING", "payout_pending", Len(payouts[i.t]) + 1).op
            = "payout_pending"
      BY PayoutUpdateParts
    <3>2. task'[p].pc = "read" /\ task'[p].t = x /\ task'[p].upd.op = "payout_pending"
      BY <1>3, <2>1, <2>4, <3>1
    <3>3. ~Listed("payer", "CONVERSION_COMPLETED", x)'
      BY <2>1 DEF Listed, OneItemEach
    <3>4. ~PayoutDue(x)'
      BY <2>1, <3>2, <3>3 DEF PayoutDue, Paying, Doing
    <3> QED  BY <1>1, <1>2, <1>3, <2>2, <2>3, <2>4, <3>4
  <2>5. CASE faults' = faults + 1
    BY <1>1, <1>2, <1>3, <2>2, <2>3, <2>5
  <2> QED  BY <1>3, <2>4, <2>5
<1> QED  BY <1>4, <1>5

LEMMA NextPayoutRefs ==
  ASSUME IInv, PayoutInv, NEW p \in Procs, StepOf(p), [Next]_vars
  PROVE  PayoutRefs'
<1> SUFFICES ASSUME NEW x \in Trades
             PROVE  /\ OldRef(x, trade[x].payout)'
                    /\ \A k \in opKeys'[x] : k.op = "payout_pending" => OldRef(x, k.ref)'
  BY DEF PayoutRefs, OldRef
<1>1. /\ OldRef(x, trade[x].payout) /\ OldRef(x, NoRef)
      /\ \A k \in opKeys[x] : k.op = "payout_pending" => OldRef(x, k.ref)
  BY OldRefs DEF PayoutInv, PayoutRefs
<1>2. CASE trade'[x] = trade[x] /\ opKeys'[x] = opKeys[x]
  <2>1. \A r : OldRef(x, r) => OldRef(x, r)'
    BY NextOldRef
  <2> QED  BY <1>1, <1>2, <2>1 DEF OldRef
<1>3. CASE ~(trade'[x] = trade[x] /\ opKeys'[x] = opKeys[x])
  <2>1. /\ task[p].pc = "commit" /\ task[p].t \in Trades /\ payouts' = payouts
        /\ \/ p \in Updaters /\ CommitUpdate(p)
           \/ p \in Admins /\ AdminCommits(p)
    BY <1>3, Writes DEF storeVars, envVars
  <2>2. PICK row \in Rows : Transaction(task[p].t, row, task[p].from, task[p].upd)
    BY <1>3, Writes DEF storeVars, envVars
  <2> DEFINE u == task[p].upd
  <2>3. task[p].t = x
    BY <1>3, <2>1, <2>2, TransactionWrites
  <2>4. /\ trade'[x].payout \in {trade[x].payout, NoRef, u.payout}
        /\ \A k \in opKeys'[x] : k \in opKeys[x] \/ k = OperationKey(u)
    BY <2>1, <2>2, <2>3, TransactionWrites
  <2>5. PayoutTask(p, x, u)
    BY <2>1, <2>3 DEF PayoutInv, PayoutTasks
  <2>6. OperationKey(u).ref = u.ref /\ OperationKey(u).op = u.op
    BY DEF OperationKey
  <2> HIDE DEF u
  <2>7. CASE p = "payer"
    <3>1. p \notin Admins
      BY <2>7, ProcessesDistinct DEF AllWorkers
    <3>2. ~Paying(x)'
      BY <2>1, <2>7, <3>1, CommitEnds DEF Paying, Doing
    <3>3. u.payout \in Int /\ (u.op = "payout_pending" => u.ref = u.payout)
      <4>1. u \in Updates
        BY DEF u, IInv, TypeOK, Tasks
      <4> QED  BY <2>5, <4>1 DEF Updates, PayoutTask
    <3>4. u.payout <= Len(payouts[x])
      BY <2>5, <2>7 DEF PayoutTask
    <3>5. trade'[x].payout \in Int /\ trade'[x].payout <= Len(payouts[x])
      BY <1>1, <2>4, <3>3, <3>4 DEF OldRef
    <3>6. \A k \in opKeys'[x] : k.op = "payout_pending" => k.ref \in Int /\ k.ref <= Len(payouts[x])
      BY <1>1, <2>4, <2>6, <3>3, <3>4 DEF OldRef
    <3> QED  BY <2>1, <3>2, <3>5, <3>6 DEF OldRef
  <2>8. CASE p # "payer"
    <3>1. OldRef(x, u.payout) /\ (u.op = "payout_pending" => u.ref = u.payout)
      BY <2>5, <2>8 DEF PayoutTask
    <3>2. Paying(x)' => Paying(x)
      BY <2>8, PayingStarts
    <3>3. OldRef(x, trade'[x].payout)
      BY <1>1, <2>4, <3>1
    <3>4. \A k \in opKeys'[x] : k.op = "payout_pending" => OldRef(x, k.ref)
      BY <1>1, <2>4, <2>6, <3>1
    <3> QED  BY <2>1, <3>2, <3>3, <3>4 DEF OldRef
  <2> QED  BY <2>7, <2>8
<1> QED  BY <1>2, <1>3

LEMMA NextPayouts == IInv /\ OneItemEach /\ PayoutInv /\ [Next]_vars => PayoutInv'
<1> SUFFICES ASSUME IInv, OneItemEach, PayoutInv, [Next]_vars PROVE PayoutInv'
  OBVIOUS
<1>1. CASE UNCHANGED vars \/ \E t \in Trades : EnvStep(t)
  <2>1. UNCHANGED <<trade, opKeys, ledger, task, faults>>
    BY <1>1, EnvFrame DEF vars, storeVars, envVars
  <2>2. \A t \in Trades : /\ Len(payouts'[t]) = Len(payouts[t])
                          /\ DOMAIN payouts'[t] = DOMAIN payouts[t]
    <3>1. CASE \E t \in Trades : ProviderSettles(t)
      <4>1. PICK t \in Trades : \E i \in DOMAIN payouts[t], s \in {"completed", "failed"} :
              payouts' = [payouts EXCEPT ![t][i] = s]
        BY <3>1 DEF ProviderSettles
      <4>2. payouts \in [Trades -> Seq(PayoutStates)]
        BY DEF IInv, TypeOK
      <4> QED  BY <4>1, <4>2
    <3>2. CASE payouts' = payouts
      BY <3>2
    <3> QED  BY <1>1, <3>1, <3>2 DEF vars, envVars, EnvStep, DepositSeen, DepositFinal,
                                     DepositDrops, DepositReplaced, WindowCloses
  <2>3. \A p \in Procs : task[p].pc # "idle" => task[p].t \in Trades
    BY DEF IInv, TypeOK
  <2>4. \A t \in Trades : \A r : OldRef(t, r) => OldRef(t, r)'
    BY <2>1, <2>2 DEF OldRef, Paying, Doing
  <2>5. PayoutRefs'
    BY <2>1, <2>2 DEF PayoutInv, PayoutRefs, OldRef, Paying, Doing
  <2>6. PayoutTasks'
    BY <2>1, <2>2, <2>3 DEF PayoutInv, PayoutTasks, PayoutTask, OldRef, Paying, Doing
  <2>7. PayoutsPaid'
    BY <2>1, <2>2 DEF PayoutInv, PayoutsPaid, PayoutDue, Listed, Paying, Doing
  <2> QED  BY <2>5, <2>6, <2>7 DEF PayoutInv
<1>2. CASE Crash
  <2>1. \A q \in Procs : task'[q].pc = "idle"
    BY <1>2, FinishedParts DEF Crash
  <2>2. /\ UNCHANGED <<trade, ledger, opKeys, payouts>> /\ faults' = faults + 1 /\ faults \in Nat
    BY <1>2 DEF Crash, storeVars, envVars, IInv, TypeOK
  <2>3. \A x \in Trades : /\ Len(payouts[x]) \in Nat /\ ledger[x]["CONVERSION"] \in Nat
                          /\ Len(payouts[x]) <= ledger[x]["CONVERSION"] + faults
    BY DEF IInv, TypeOK, StoreTypeOK, Entries, PayoutInv, PayoutsPaid
  <2>4. PayoutsPaid'
    BY <2>2, <2>3 DEF PayoutsPaid
  <2>5. PayoutTasks' /\ PayoutRefs'
    BY <2>1, <2>2 DEF PayoutInv, PayoutTasks, PayoutRefs, OldRef, Paying, Doing
  <2> QED  BY <2>4, <2>5 DEF PayoutInv
<1>3. CASE \E p \in Procs : StepOf(p)
  BY <1>3, NextPayoutsPaid, NextPayoutTasks, NextPayoutRefs DEF PayoutInv
<1> QED  BY <1>1, <1>2, <1>3, WhoSteps

\* Every further payout for a trade is preceded by a further posted entry into
\* CONVERSION_COMPLETED, or by a fault (PayoutsBacked).
THEOREM PayoutsAreBacked == Spec => []PayoutsBacked
<1>1. PayoutInv => PayoutsBacked
  BY DEF PayoutInv, PayoutsPaid, PayoutsBacked
<1> QED  BY <1>1, InitOneItem, NextOneItem, InitPayouts, NextPayouts, InvariantHolds, PTL
         DEF Spec

=============================================================================
