------------------------- MODULE TradePromise_proofs -------------------------
(***************************************************************************)
(* What every deployment keeps for the trades that only the pipeline has   *)
(* written to: that a hash funds one of them, and that every write to one  *)
(* is a move of the state machine from the status it has.  Scanner, users  *)
(* and administrators may be in the middle of anything; their first write  *)
(* reserves a key that tells, so nothing has to be known of what they do.  *)
(***************************************************************************)
EXTENDS TradeMoney_proofs

-----------------------------------------------------------------------------
(***************************************************************************)
(* Those outside the pipeline, and the names of their keys.                *)
(***************************************************************************)
Outside == {"scanner"} \cup Users \cup Admins
Engine == (Workers \ {"scanner"}) \cup Hooks

Waiting == {"PENDING_DEPOSIT", "DEPOSIT_RECEIVED"}
Receipt == {"DEPOSIT_RECEIVED", "DEPOSIT_CONFIRMED"}

\* Whatever they call has a key of theirs (and none of them records an order).
OutsideCalls ==
  \A p \in Procs \cap Outside : task[p].pc # "idle" =>
    /\ task[p].upd.op \notin PipelineOps
    /\ p \notin Admins => task[p].upd.to # "CONVERSION_IN_PROGRESS"

LEMMA WhoIsWho ==
  /\ Procs = Engine \cup (Procs \cap Outside) /\ Engine \cap Outside = {}
  /\ Workers \ {"scanner"} \subseteq {"watcher", "converter", "payer"}
  /\ (Workers \ {"scanner"}) \cap Hooks = {} /\ Workers \subseteq Procs
  /\ \A h \in Hooks \cup Users \cup Admins : h \notin {"watcher", "scanner", "converter", "payer"}
  /\ Engine \subseteq Updaters /\ Engine \subseteq Procs /\ Admins \cap Updaters = {}
  BY LifecycleAssumption, ProcessesDistinct DEF Engine, Outside, Procs, Updaters, AllWorkers

LEMMA StepIsNext ==
  ASSUME NEW p \in Procs, StepOf(p)
  PROVE  [Next]_vars
  BY DEF StepOf, Next, Procs, Updaters

LEMMA OutsideOps ==
  {"trade", "backfill_deposit_detected", "backfill_deposit_confirmed", "backfill_dispute"}
    \cap PipelineOps = {}
  BY DEF PipelineOps

\* Keys stay: what is only the pipeline's after a step was so before it.
LEMMA OnlyPipelineBefore ==
  ASSUME IInv, [Next]_vars, NEW x \in Trades, OnlyPipeline(x)'
  PROVE  OnlyPipeline(x)
<1>1. opKeys[x] \subseteq opKeys'[x]
  BY LedgerPays
<1> QED  BY <1>1 DEF OnlyPipeline

\* A read, a failed commit and the end of a delivery's commit change no update.
LEMMA ReadGoesOn ==
  ASSUME IInv, NEW p \in Procs, (p \in Updaters /\ ReadTrade(p)) \/ CommitFails(p) \/ PostingFails(p),
         task'[p].pc # "idle"
  PROVE  GoesOn(p)
<1>1. task \in [Procs -> Tasks] /\ task[p] \in Tasks
  BY DEF IInv, TypeOK
<1>2. CASE task' = [task EXCEPT ![p] = AfterError(p)]
  BY <1>1, <1>2, FinishedParts DEF AfterError, ReadTrade, CommitFails, PostingFails, GoesOn, Tasks
<1>3. CASE ReadTrade(p) /\ \E s : task' = [task EXCEPT ![p].pc = "commit", ![p].from = s]
  BY <1>1, <1>3 DEF ReadTrade, GoesOn, Tasks
<1> QED  BY <1>2, <1>3 DEF ReadTrade, CommitFails, PostingFails

LEMMA CommitGoesOn ==
  ASSUME IInv, NEW p \in Updaters, CommitUpdate(p), task'[p].pc = "ack"
  PROVE  GoesOn(p)
<1>1. task \in [Procs -> Tasks] /\ p \in Procs /\ task'[p] = AfterCommit(p) /\ task[p].pc = "commit"
  BY DEF IInv, TypeOK, Updaters, Procs, CommitUpdate
<1>2. CASE p \in Hooks
  BY <1>1, <1>2 DEF AfterCommit, GoesOn, Tasks
<1>3. CASE p \notin Hooks
  <2> DEFINE u == ConversionResult(task[p].upd.order, task[p].result)
  <2>1. task'[p] \in {[task[p] EXCEPT !.pc = "read", !.from = None, !.upd = u], Finished(p)}
    BY <1>1, <1>3 DEF AfterCommit, Tasks
  <2> HIDE DEF u
  <2> QED  BY <1>1, <2>1, FinishedParts DEF Tasks
<1> QED  BY <1>2, <1>3

\* The calls of the scanner.
LEMMA ScannerCalls ==
  ASSUME IInv, "scanner" \in Workers, ScannerStep, task'["scanner"].pc # "idle"
  PROVE  /\ task'["scanner"].upd.op \notin PipelineOps
         /\ task'["scanner"].upd.to # "CONVERSION_IN_PROGRESS"
<1>1. task \in [Procs -> Tasks] /\ "scanner" \in Procs
  BY DEF IInv, TypeOK, Procs
<1>2. PICK i \in task["scanner"].todo : ScannerChecks(i)
  BY DEF ScannerStep
<1>3. ASSUME NEW u, Calls("scanner", i, u) PROVE task'["scanner"].upd = u
  BY <1>1, <1>3, CallingParts DEF Calls
<1>4. ASSUME NEW to \in Receipt, NEW op \in {"backfill_deposit_detected", "backfill_deposit_confirmed"},
             Calls("scanner", i, DepositUpdate(i.t, to, op))
      PROVE  /\ task'["scanner"].upd.op = op
             /\ task'["scanner"].upd.to = to
  BY <1>3, <1>4, DepositUpdateParts
<1>5. CASE Calls("scanner", i, DepositDispute(i.t, "backfill_dispute"))
  BY <1>3, <1>5, DepositDisputeParts, OutsideOps
<1>6. CASE Skips("scanner", i)
  BY <1>1, <1>6, TakenParts DEF Skips
<1> QED  BY <1>2, <1>4, <1>5, <1>6, OutsideOps DEF ScannerChecks, Receipt

LEMMA UserCalls ==
  ASSUME IInv, NEW p \in Users, UserDisputes(p)
  PROVE  task'[p].upd.op = "trade" /\ task'[p].upd.to = "DISPUTE"
<1>1. task \in [Procs -> Tasks] /\ p \in Procs
  BY DEF IInv, TypeOK, Procs
<1>2. PICK t \in Trades, note \in Notes :
        task' = [task EXCEPT ![p] =
          [Idle EXCEPT !.pc = "read", !.t = t,
                       !.upd = [Update("DISPUTE", "trade", NoRef) EXCEPT !.note = note]]]
  BY DEF UserDisputes
<1> DEFINE u == [Update("DISPUTE", "trade", NoRef) EXCEPT !.note = note]
<1>3. u.op = "trade" /\ u.to = "DISPUTE"
  BY DEF Update
<1> HIDE DEF u
<1>4. task'[p] = [Idle EXCEPT !.pc = "read", !.t = t, !.upd = u]
  BY <1>1, <1>2 DEF u
<1>5. task'[p].upd = u
  BY <1>4 DEF Idle
<1> QED  BY <1>3, <1>5

LEMMA OwnOutsideCall ==
  ASSUME IInv, OutsideCalls, NEW p \in Procs \cap Outside, StepOf(p), task'[p].pc # "idle"
  PROVE  /\ task'[p].upd.op \notin PipelineOps
         /\ p \notin Admins => task'[p].upd.to # "CONVERSION_IN_PROGRESS"
<1>1. CASE GoesOn(p)
  BY <1>1 DEF GoesOn, OutsideCalls
<1>2. CASE p \in Admins
  <2>1. /\ p \notin {"watcher", "scanner", "converter", "payer"}
        /\ p \notin Hooks /\ p \notin Updaters
    BY <1>2, WhoIsWho DEF Updaters
  <2>2. Starts(p) => task'[p].upd.op = "trade"
    BY <2>1 DEF Starts
  <2> QED  BY <1>1, <1>2, <2>2, NewTask, OutsideOps
<1>3. CASE p \in Users /\ UserDisputes(p)
  BY <1>3, UserCalls, OutsideOps
<1>4. CASE p = "scanner" /\ p \in Workers /\ WorkerStep(p)
  <2>1. task \in [Procs -> Tasks]
    BY DEF IInv, TypeOK
  <2>2. CASE ListTrades(p)
    BY <2>1, <2>2 DEF ListTrades, Tasks
  <2>3. CASE ExplorerFails(p)
    BY <2>1, <2>3, TakenParts DEF ExplorerFails, Skips
  <2> QED  BY <1>4, <2>2, <2>3, ScannerCalls DEF WorkerStep
<1>5. CASE p \in Updaters /\ p \notin Admins /\ CommitUpdate(p)
  <2>1. task[p].pc = "commit"
    BY <1>5 DEF CommitUpdate
  <2>2. task[p].upd.to # "CONVERSION_IN_PROGRESS"
    BY <1>5, <2>1 DEF OutsideCalls
  <2> QED  BY <1>1, <1>5, <2>2, CommitEnds, CommitGoesOn
<1>6. CASE (p \in Updaters /\ ReadTrade(p)) \/ CommitFails(p) \/ PostingFails(p)
  BY <1>1, <1>6, ReadGoesOn
<1>7. /\ p \in {"scanner"} \cup Users \cup Admins /\ p \notin Hooks
      /\ p \in Workers => p \notin Users \cup Admins
      /\ p \notin Workers \ {"scanner"}
  BY ProcessesDistinct, LifecycleAssumption DEF Outside, AllWorkers
<1> QED  BY <1>2, <1>3, <1>4, <1>5, <1>6, <1>7, WhoIsWho DEF StepOf

LEMMA NextOutside == IInv /\ OutsideCalls /\ [Next]_vars => OutsideCalls'
<1> SUFFICES ASSUME IInv, OutsideCalls, [Next]_vars, NEW q \in Procs \cap Outside,
                    task'[q].pc # "idle"
             PROVE  /\ task'[q].upd.op \notin PipelineOps
                    /\ q \notin Admins => task'[q].upd.to # "CONVERSION_IN_PROGRESS"
  BY DEF OutsideCalls
<1>1. CASE UNCHANGED vars \/ \E t \in Trades : EnvStep(t)
  BY <1>1, EnvFrame DEF vars, OutsideCalls
<1>2. CASE Crash
  BY <1>2, FinishedParts DEF Crash
<1>3. CASE \E p \in Procs : StepOf(p)
  <2>1. PICK p \in Procs : StepOf(p)
    BY <1>3
  <2>2. CASE p = q
    BY <2>1, <2>2, OwnOutsideCall
  <2>3. CASE p # q
    BY <2>1, <2>3, OwnTask DEF OutsideCalls
  <2> QED  BY <2>2, <2>3
<1> QED  BY <1>1, <1>2, <1>3, WhoSteps

LEMMA InitOutside == Init => OutsideCalls
  BY FinishedParts DEF Init, OutsideCalls

\* A trade that is only the pipeline's after a step of theirs was not written to.
LEMMA OutsideWrites ==
  ASSUME IInv, OutsideCalls, NEW p \in Procs \cap Outside, StepOf(p),
         NEW x \in Trades, OnlyPipeline(x)'
  PROVE  /\ trade'[x] = trade[x] /\ ledger'[x] = ledger[x] /\ opKeys'[x] = opKeys[x]
         /\ OnlyPipeline(x)
<1>1. CASE UNCHANGED storeVars
  BY <1>1 DEF storeVars, OnlyPipeline
<1>2. CASE ~ UNCHANGED storeVars
  <2>1. /\ task[p].pc = "commit" /\ task[p].t \in Trades
        /\ \E row \in Rows : Transaction(task[p].t, row, task[p].from, task[p].upd)
    BY <1>2, Writes
  <2>2. OperationKey(task[p].upd).op \notin PipelineOps
    BY <2>1 DEF OutsideCalls, OperationKey
  <2>3. OperationKey(task[p].upd) \in opKeys'[task[p].t]
    BY <2>1, TransactionWrites
  <2>4. x # task[p].t
    BY <2>2, <2>3 DEF OnlyPipeline
  <2>5. trade'[x] = trade[x] /\ ledger'[x] = ledger[x] /\ opKeys'[x] = opKeys[x]
    BY <2>1, <2>4, TransactionWrites
  <2> QED  BY <2>5 DEF OnlyPipeline
<1> QED  BY <1>1, <1>2

-----------------------------------------------------------------------------
(***************************************************************************)
(* A transaction hash funds one trade.  What the watcher looked up stays   *)
(* true until it commits: of two trades with one hash, one waits for no    *)
(* deposit, is not in the watcher's hands and has no DEPOSIT posting, and  *)
(* never gets one.  Scanner and administrators confirm deposits of trades  *)
(* the watcher does not hold, which are then no longer the pipeline's.     *)
(***************************************************************************)
Handled(t) ==
  /\ "watcher" \in Workers
  /\ \/ \E i \in task["watcher"].todo : i.t = t
     \/ task["watcher"].pc # "idle" /\ task["watcher"].t = t

CanFund(t) == trade[t].status \in Waiting \/ Handled(t) \/ ledger[t]["DEPOSIT"] > 0

Unfunded ==
  \A t \in Trades :
    OnlyPipeline(t) /\ (trade[t].status \in Waiting \/ Handled(t)) => ledger[t]["DEPOSIT"] = 0

\* The hash a call of the watcher brings is of no other trade that can be funded.
HashFree(t, h) ==
  \A x \in Trades \ {t} : OnlyPipeline(x) /\ trade[x].tx = h => ~CanFund(x)

\* The watcher's call: only an update towards a receipt may fund the trade.
WatcherCalls ==
  "watcher" \in Workers /\ task["watcher"].pc # "idle" =>
    LET k == task["watcher"]
    IN /\ \A i \in k.todo : i.t # k.t
       /\ k.upd.to \in Receipt \cup {"DISPUTE", "CANCELLED"}
       /\ k.upd.to = "CANCELLED" => k.upd.tx = None
       /\ k.upd.to \in Receipt /\ k.upd.tx # None /\ OnlyPipeline(k.t) =>
            HashFree(k.t, k.upd.tx)

\* The others bring no hash, and do not have a trade wait for a deposit or post one.
OtherCalls ==
  \A p \in Engine \ {"watcher"} : task[p].pc # "idle" =>
    task[p].upd.tx = None /\ task[p].upd.to \notin Waiting \cup Receipt

HashesApart ==
  \A t, x \in Trades :
    /\ t # x /\ OnlyPipeline(t) /\ OnlyPipeline(x)
    /\ trade[t].tx # None /\ trade[t].tx = trade[x].tx
    => ~CanFund(t) \/ ~CanFund(x)

HashInv == Unfunded /\ WatcherCalls /\ OtherCalls /\ HashesApart

LEMMA InitHash == Init => HashInv
<1> SUFFICES ASSUME Init PROVE HashInv
  OBVIOUS
<1>1. \A p \in Procs : task[p].pc = "idle" /\ task[p].todo = {}
  BY FinishedParts DEF Init
<1>2. \A t \in Trades : trade[t].tx = None /\ ledger[t]["DEPOSIT"] = 0
  BY DEF Init, StoreInit, Entries
<1>3. "watcher" \in Workers => "watcher" \in Procs
  BY DEF Procs
<1> QED
  BY <1>1, <1>2, <1>3, WhoIsWho DEF HashInv, Unfunded, WatcherCalls, OtherCalls, HashesApart

\* The watcher's own task is no one else's.
LEMMA WatcherProc ==
  /\ "watcher" \in Procs <=> "watcher" \in Workers
  /\ "watcher" \notin Hooks \cup Users \cup Admins
  /\ Workers \cap (Hooks \cup Users \cup Admins) = {}
  BY LifecycleAssumption, ProcessesDistinct DEF Procs, AllWorkers

\* A trade that is still the pipeline's: its hash is as it was, and it is not more
\* able to be funded than before.
Kept(x) ==
  OnlyPipeline(x)' =>
    OnlyPipeline(x) /\ trade'[x].tx = trade[x].tx /\ (CanFund(x)' => CanFund(x))

\* What only makes trades less able to be funded keeps the hashes apart.
LEMMA ApartKept ==
  ASSUME HashesApart, \A x \in Trades : Kept(x)
  PROVE  HashesApart'
  BY DEF HashesApart, Kept

\* A call of the watcher that a step neither begins nor changes.
Continued ==
  task'["watcher"].pc # "idle" =>
    /\ task["watcher"].pc # "idle"
    /\ task'["watcher"].t = task["watcher"].t /\ task'["watcher"].upd = task["watcher"].upd

LEMMA CallsKept ==
  ASSUME IInv, WatcherCalls, "watcher" \in Workers, Continued,
         task'["watcher"].todo \subseteq task["watcher"].todo, \A x \in Trades : Kept(x)
  PROVE  WatcherCalls'
<1> SUFFICES ASSUME task'["watcher"].pc # "idle" PROVE WatcherCalls'
  BY DEF WatcherCalls
<1>1. PICK t, u : t = task["watcher"].t /\ u = task["watcher"].upd
  OBVIOUS
<1>2. /\ t \in Trades /\ task["watcher"].pc # "idle"
      /\ task'["watcher"].t = t /\ task'["watcher"].upd = u
  BY <1>1, WatcherProc DEF IInv, TaskSound, Continued
<1>3. HashFree(t, u.tx) => HashFree(t, u.tx)'
  BY DEF HashFree, Kept
<1>4. OnlyPipeline(t)' => OnlyPipeline(t)
  BY <1>2 DEF Kept
<1>5. /\ \A i \in task'["watcher"].todo : i.t # t
      /\ u.to \in Receipt \cup {"DISPUTE", "CANCELLED"}
      /\ u.to = "CANCELLED" => u.tx = None
      /\ u.to \in Receipt /\ u.tx # None /\ OnlyPipeline(t)' => HashFree(t, u.tx)'
  BY <1>1, <1>2, <1>3, <1>4 DEF WatcherCalls
<1> QED
  BY <1>2, <1>5 DEF WatcherCalls

\* Steps that post no deposit, and give the watcher nothing new to do.
LEMMA HashFrame ==
  ASSUME IInv, HashInv,
         \A x \in Trades : OnlyPipeline(x)' =>
           /\ OnlyPipeline(x) /\ trade'[x].tx = trade[x].tx
           /\ trade'[x].status \in Waiting => trade[x].status \in Waiting
           /\ ledger'[x]["DEPOSIT"] = ledger[x]["DEPOSIT"],
         "watcher" \in Workers =>
           task'["watcher"].todo \subseteq task["watcher"].todo /\ Continued
  PROVE  Unfunded' /\ WatcherCalls' /\ HashesApart'
<1>2. \A x \in Trades : Handled(x)' => Handled(x)
  BY DEF Handled, Continued
<1>3. \A x \in Trades : Kept(x)
  BY <1>2 DEF CanFund, Kept
<1>4. Unfunded'
  BY <1>2 DEF HashInv, Unfunded
<1>5. HashesApart'
  BY <1>3, ApartKept DEF HashInv
<1>6. WatcherCalls'
  <2>1. CASE "watcher" \notin Workers
    BY <2>1 DEF WatcherCalls
  <2>2. CASE "watcher" \in Workers
    BY <1>3, <2>2, CallsKept DEF HashInv
  <2> QED  BY <2>1, <2>2
<1> QED  BY <1>4, <1>5, <1>6

\* An update that brings no hash, and neither waits for a deposit nor confirms one.
Harmless(u) == u.tx = None /\ u.to \notin Waiting \cup Receipt

LEMMA HarmlessUpdates ==
  /\ \A to, op, ref : to \notin Waiting \cup Receipt =>
       Harmless(Update(to, op, ref)) /\ Harmless(PayoutUpdate(to, op, ref))
  /\ \A order, result : Harmless(ConversionResult(order, result))
  BY UpdateParts, PayoutUpdateParts DEF Harmless, ConversionResult, Update, Waiting, Receipt

\* What the converter begins.
LEMMA ConverterHarmless ==
  ASSUME IInv, "converter" \in Procs, ConverterStep, task'["converter"].pc # "idle"
  PROVE  Harmless(task'["converter"].upd)
<1>1. /\ task \in [Procs -> Tasks] /\ task["converter"].todo \in SUBSET Items
  BY DEF IInv, TypeOK, Tasks
<1>2. PICK i \in task["converter"].todo :
        /\ AtItem("converter", i)
        /\ \/ OrderExecuted(i) \/ OrderAnswerLost(i) \/ OrderImpossible(i) \/ OrderFails(i)
           \/ ConversionTimesOut(i) \/ ConversionStillFresh(i)
  BY DEF ConverterStep
<1>3. CASE OrderExecuted(i)
  BY <1>1, <1>3, OrderCall DEF Harmless, Waiting, Receipt
<1>4. CASE OrderAnswerLost(i)
  BY <1>2, <1>4 DEF OrderAnswerLost, AtItem
<1>5. ASSUME NEW u, Calls("converter", i, u) PROVE task'["converter"].upd = u
  BY <1>1, <1>5, CallingParts DEF Calls
<1>6. CASE OrderImpossible(i)
  BY <1>5, <1>6, HarmlessUpdates DEF OrderImpossible, Waiting, Receipt
<1>7. CASE OrderFails(i)
  <2> DEFINE u == Update("DISPUTE", "conversion_retries_exhausted", NoRef)
  <2>1. Harmless(u)
    BY HarmlessUpdates DEF Waiting, Receipt
  <2>2. \/ task' = [task EXCEPT !["converter"] = Taken("converter", i)]
        \/ task' = [task EXCEPT !["converter"] = Calling("converter", i, u)]
    BY <1>7 DEF OrderFails
  <2> HIDE DEF u
  <2>3. task'["converter"] \in {Taken("converter", i), Calling("converter", i, u)}
    BY <1>1, <2>2
  <2>4. task'["converter"].upd = u
    BY <2>3, CallingParts, TakenParts
  <2> QED  BY <2>1, <2>4
<1>8. CASE ConversionTimesOut(i)
  <2> DEFINE u == [Update("DISPUTE", "conversion_reconcile_timeout", i.ref) EXCEPT !.order = i.ref]
  <2>1. Harmless(u)
    BY DEF Harmless, Update, Waiting, Receipt
  <2> HIDE DEF u
  <2>2. Calls("converter", i, u)
    BY <1>8 DEF ConversionTimesOut, u
  <2> QED  BY <1>5, <2>1, <2>2
<1>9. CASE ConversionStillFresh(i)
  BY <1>1, <1>9, TakenParts DEF ConversionStillFresh, Skips
<1> QED  BY <1>2, <1>3, <1>4, <1>6, <1>7, <1>8, <1>9

\* Whoever of the engine is not the watcher begins only harmless calls.
LEMMA OthersHarmless ==
  ASSUME IInv, OtherCalls, NEW p \in Engine \ {"watcher"}, StepOf(p), task'[p].pc # "idle"
  PROVE  Harmless(task'[p].upd)
<1>1. /\ task \in [Procs -> Tasks] /\ task[p].todo \in SUBSET Items
      /\ p \in Procs /\ p \in Updaters /\ p # "scanner" /\ p \notin Users \cup Admins
  BY LifecycleAssumption, ProcessesDistinct, WhoIsWho
  DEF IInv, TypeOK, Tasks, Procs, AllWorkers, Engine, Updaters
<1>2. CASE GoesOn(p)
  BY <1>2 DEF GoesOn, OtherCalls, Harmless
<1>3. CASE p \in Workers /\ WorkerStep(p)
  <2>1. CASE p = "converter" /\ ConverterStep
    BY <1>1, <2>1, ConverterHarmless
  <2>2. CASE p = "payer" /\ PayerStep
    <3>1. PICK i \in task[p].todo :
            /\ AtItem(p, i)
            /\ \/ PayoutCreated(i) \/ PayoutAnswerLost(i) \/ PayoutRejected(i)
               \/ PayoutReconciled(i) \/ PayoutLeft(i)
      BY <2>2 DEF PayerStep
    <3>2. CASE PayoutAnswerLost(i) \/ PayoutLeft(i)
      BY <1>1, <2>2, <3>2, TakenParts DEF PayoutAnswerLost, PayoutLeft, Skips
    <3> QED  BY <1>1, <2>2, <3>1, <3>2, PayerCall, HarmlessUpdates DEF Waiting, Receipt
  <2>3. CASE ListTrades(p)
    BY <1>1, <2>3 DEF ListTrades, Tasks
  <2> QED  BY <1>1, <1>3, <2>1, <2>2, <2>3 DEF WorkerStep
<1>4. CASE p \in Hooks /\ HookReceives(p)
  <2>1. PICK s, ref, x : s \in Reported(x) /\ task'[p].upd = PayoutUpdate(s, HookOp(s), ref)
    BY <1>4, HookCall
  <2>2. s \notin Waiting \cup Receipt
    BY <2>1 DEF Reported, Waiting, Receipt
  <2> QED  BY <2>1, <2>2, HarmlessUpdates
<1>5. CASE p \in Hooks /\ HookMarksProcessed(p)
  BY <1>1, <1>5, FinishedParts DEF HookMarksProcessed
<1>6. CASE CommitUpdate(p)
  BY <1>1, <1>2, <1>6, CommitEnds, HarmlessUpdates, CommitGoesOn
<1>7. CASE ReadTrade(p) \/ CommitFails(p) \/ PostingFails(p)
  BY <1>1, <1>2, <1>7, ReadGoesOn
<1> QED  BY <1>1, <1>3, <1>4, <1>5, <1>6, <1>7 DEF StepOf

\* A step of another process.
LEMMA OthersKeepHash ==
  ASSUME IInv, OutsideCalls, HashInv, NEW p \in Procs \ {"watcher"}, StepOf(p)
  PROVE  HashInv'
<1>1. \A q \in Procs \ {p} : task'[q] = task[q]
  BY OwnTask
<1>2. OtherCalls'
  BY <1>1, OthersHarmless, WhoIsWho DEF HashInv, OtherCalls, Harmless
<1>3. "watcher" \in Workers => Continued /\ task'["watcher"].todo \subseteq task["watcher"].todo
  BY <1>1, WatcherProc DEF Continued
<1>4. CASE UNCHANGED storeVars
  BY <1>2, <1>3, <1>4, HashFrame DEF storeVars, HashInv, OnlyPipeline
<1>5. CASE p \in Outside
  BY <1>2, <1>3, <1>5, OutsideWrites, HashFrame DEF HashInv
<1>6. CASE p \in Engine /\ ~ UNCHANGED storeVars
  <2>1. PICK row \in Rows : Transaction(task[p].t, row, task[p].from, task[p].upd)
    BY <1>6, Writes
  <2>2. task[p].pc = "commit" /\ task[p].t \in Trades
    BY <1>6, Writes
  <2>3. task[p].upd.tx = None /\ task[p].upd.to \notin Waiting \cup Receipt
    BY <1>6, <2>2 DEF HashInv, OtherCalls
  <2>4. StatusOf("DEPOSIT") = "DEPOSIT_CONFIRMED" /\ "DEPOSIT" \in Entries
    BY DEF StatusOf, Entries
  <2>5. \A x \in Trades : /\ trade'[x].tx = trade[x].tx
                          /\ trade'[x].status \in Waiting => trade[x].status \in Waiting
                          /\ ledger'[x]["DEPOSIT"] = ledger[x]["DEPOSIT"]
    BY <2>1, <2>2, <2>3, <2>4, TransactionWrites DEF Receipt
  <2>6. \A x \in Trades : OnlyPipeline(x)' => OnlyPipeline(x)
    BY StepIsNext, OnlyPipelineBefore
  <2> QED  BY <1>2, <1>3, <2>5, <2>6, HashFrame DEF HashInv
<1> QED  BY <1>4, <1>5, <1>6, WhoIsWho

\* The watcher lists trades that wait for a deposit.
LEMMA ListingKeepsHash ==
  ASSUME IInv, HashInv, "watcher" \in Workers, ListTrades("watcher")
  PROVE  Unfunded' /\ WatcherCalls' /\ HashesApart'
<1>1. PICK s \in Waiting :
        task' = [task EXCEPT !["watcher"].todo =
          { [t |-> t, status |-> s, ref |-> ListedRef("watcher", t)] : t \in Matching("watcher", s) }]
  BY DEF ListTrades, Watched, Waiting
<1>2. task \in [Procs -> Tasks] /\ "watcher" \in Procs /\ task["watcher"].pc = "idle"
  BY WatcherProc DEF IInv, TypeOK, ListTrades
<1>3. /\ task'["watcher"].pc = "idle"
      /\ \A i \in task'["watcher"].todo : trade[i.t].status \in Waiting
  BY <1>1, <1>2 DEF Matching, Tasks
<1>4. trade' = trade /\ ledger' = ledger /\ \A x : OnlyPipeline(x)' <=> OnlyPipeline(x)
  BY DEF ListTrades, storeVars, OnlyPipeline
<1>5. \A x \in Trades : Handled(x)' => trade[x].status \in Waiting
  BY <1>3 DEF Handled
<1>6. \A x \in Trades : Kept(x)
  BY <1>4, <1>5 DEF CanFund, Kept
<1>7. Unfunded'
  BY <1>4, <1>5 DEF HashInv, Unfunded
<1> QED  BY <1>3, <1>6, <1>7, ApartKept DEF HashInv, WatcherCalls

\* The events of a deposit lead to its receipt.
LEMMA ReceiptTargets ==
  ASSUME NEW s
  PROVE  /\ CanFire(s, "DEPOSIT_DETECTED") => FSMTarget(s, "DEPOSIT_DETECTED") = "DEPOSIT_RECEIVED"
         /\ CanFire(s, "DEPOSIT_CONFIRMED") => FSMTarget(s, "DEPOSIT_CONFIRMED") = "DEPOSIT_CONFIRMED"
<1>1. /\ \A r \in TradeTransitions : r[2] = "DEPOSIT_DETECTED" => r[3] = "DEPOSIT_RECEIVED"
      /\ \A r \in TradeTransitions : r[2] = "DEPOSIT_CONFIRMED" => r[3] = "DEPOSIT_CONFIRMED"
  BY DEF TradeTransitions
<1> QED  BY <1>1 DEF CanFire, FSMTarget

\* What the watcher begins: the hash it found is of no other trade it could fund.
LEMMA WatcherFinds ==
  ASSUME IInv, OneItemEach, HashInv, "watcher" \in Workers, NEW i \in task["watcher"].todo,
         AtItem("watcher", i), WatcherChecks(i), task'["watcher"].pc # "idle"
  PROVE  LET k == task'["watcher"]
         IN /\ k.t = i.t /\ k.todo = task["watcher"].todo \ {i}
            /\ \A j \in k.todo : j.t # k.t
            /\ k.upd.to \in Receipt \cup {"DISPUTE", "CANCELLED"}
            /\ k.upd.to = "CANCELLED" => k.upd.tx = None
            /\ k.upd.to \in Receipt /\ k.upd.tx # None /\ OnlyPipeline(k.t) =>
                 HashFree(k.t, k.upd.tx)
<1>1. /\ task \in [Procs -> Tasks] /\ "watcher" \in Procs /\ task["watcher"].todo \in SUBSET Items
      /\ i.t \in Trades
  BY WatcherProc DEF IInv, TypeOK, Tasks, Items
<1>2. ASSUME NEW u, Calls("watcher", i, u)
      PROVE  LET k == task'["watcher"]
             IN /\ k.upd = u /\ k.t = i.t /\ k.todo = task["watcher"].todo \ {i}
                /\ \A j \in k.todo : j.t # k.t
  <2>1. task'["watcher"] = Calling("watcher", i, u)
    BY <1>1, <1>2 DEF Calls
  <2> QED  BY <1>1, <2>1, CallingParts DEF OneItemEach
<1>3. CanFund(i.t)
  BY DEF CanFund, Handled
<1>4. ASSUME LooksRight(i.t), chain[i.t].tx # None, OnlyPipeline(i.t)
      PROVE  HashFree(i.t, chain[i.t].tx)
  <2> SUFFICES ASSUME NEW x \in Trades \ {i.t}, OnlyPipeline(x), trade[x].tx = chain[i.t].tx
               PROVE  ~CanFund(x)
    BY DEF HashFree
  <2>1. x \in WithHash(chain[i.t].tx) /\ trade[i.t].tx = chain[i.t].tx
    BY <1>4 DEF LooksRight, NobodyElse, WithHash
  <2> QED  BY <1>1, <1>3, <1>4, <2>1 DEF HashInv, HashesApart
<1>5. ASSUME NEW to \in Receipt, NEW op, LooksRight(i.t),
             Calls("watcher", i, DepositUpdate(i.t, to, op))
      PROVE  LET k == task'["watcher"]
             IN /\ k.upd.to = to
                /\ k.upd.tx # None /\ OnlyPipeline(k.t) => HashFree(k.t, k.upd.tx)
  <2>1. task'["watcher"].upd = DepositUpdate(i.t, to, op) /\ task'["watcher"].t = i.t
    BY <1>2, <1>5
  <2>2. task'["watcher"].upd.to = to /\ task'["watcher"].upd.tx = chain[i.t].tx
    BY <2>1, DepositUpdateParts
  <2> QED  BY <1>4, <1>5, <2>1, <2>2
<1>6. "DEPOSIT_RECEIVED" \in Receipt /\ "DEPOSIT_CONFIRMED" \in Receipt
      /\ "DISPUTE" \notin Receipt /\ "CANCELLED" \notin Receipt
  BY DEF Receipt
<1>7. CASE Calls("watcher", i, Update("CANCELLED", "trade_expired", NoRef))
  BY <1>2, <1>6, <1>7, UpdateParts
<1>8. CASE Calls("watcher", i, DepositDispute(i.t, "deposit_dispute"))
  BY <1>2, <1>6, <1>8, DepositDisputeParts
<1>9. CASE /\ LooksRight(i.t) /\ CanFire(i.status, "DEPOSIT_DETECTED")
           /\ Calls("watcher", i, DepositUpdate(i.t,
                FSMTarget(i.status, "DEPOSIT_DETECTED"), "deposit_detected"))
  <2>1. Calls("watcher", i, DepositUpdate(i.t, "DEPOSIT_RECEIVED", "deposit_detected"))
    BY <1>9, ReceiptTargets
  <2> QED  BY <1>2, <1>5, <1>6, <1>9, <2>1
<1>10. CASE /\ LooksRight(i.t) /\ CanFire(i.status, "DEPOSIT_CONFIRMED")
            /\ Calls("watcher", i, DepositUpdate(i.t,
                 FSMTarget(i.status, "DEPOSIT_CONFIRMED"), "deposit_confirmed"))
  <2>1. Calls("watcher", i, DepositUpdate(i.t, "DEPOSIT_CONFIRMED", "deposit_confirmed"))
    BY <1>10, ReceiptTargets
  <2> QED  BY <1>2, <1>5, <1>6, <1>10, <2>1
<1>11. CASE Skips("watcher", i)
  BY <1>1, <1>11, TakenParts DEF Skips
<1> QED  BY <1>7, <1>8, <1>9, <1>10, <1>11 DEF WatcherChecks

LEMMA CheckKeepsHash ==
  ASSUME IInv, OneItemEach, HashInv, "watcher" \in Workers, WatcherStep \/ ExplorerFails("watcher")
  PROVE  Unfunded' /\ WatcherCalls' /\ HashesApart'
<1>1. task \in [Procs -> Tasks] /\ "watcher" \in Procs
  BY WatcherProc DEF IInv, TypeOK
<1>2. PICK i \in task["watcher"].todo :
        AtItem("watcher", i) /\ (WatcherChecks(i) \/ Skips("watcher", i))
  BY DEF WatcherStep, ExplorerFails
<1>3. trade' = trade /\ ledger' = ledger /\ opKeys' = opKeys
  BY <1>2 DEF WatcherChecks, Calls, Skips, storeVars
<1>4. CASE task'["watcher"].pc = "idle"
  <2>1. task'["watcher"].todo \subseteq task["watcher"].todo
    BY <1>1, <1>2, Todo, WatcherProc DEF StepOf, WorkerStep, AtItem, ListTrades
  <2> QED  BY <1>3, <1>4, <2>1, HashFrame DEF Continued, OnlyPipeline
<1>5. CASE task'["watcher"].pc # "idle"
  <2>1. WatcherChecks(i)
    BY <1>1, <1>2, <1>5, TakenParts DEF Skips
  <2>2. task'["watcher"].t = i.t /\ task'["watcher"].todo = task["watcher"].todo \ {i}
    BY <1>2, <1>5, <2>1, WatcherFinds
  <2>3. \A x \in Trades : Handled(x)' => Handled(x)
    BY <2>2 DEF Handled
  <2>4. \A x : OnlyPipeline(x)' <=> OnlyPipeline(x)
    BY <1>3 DEF OnlyPipeline
  <2>5. \A x \in Trades : Kept(x)
    BY <1>3, <2>3, <2>4 DEF CanFund, Kept
  <2>6. Unfunded'
    BY <1>3, <2>3, <2>4 DEF HashInv, Unfunded
  <2>7. PICK k : k = task'["watcher"]
    OBVIOUS
  <2>8. HashFree(k.t, k.upd.tx) => HashFree(k.t, k.upd.tx)'
    BY <2>5 DEF HashFree, Kept
  <2>9. WatcherCalls'
    BY <1>2, <1>5, <2>1, <2>4, <2>7, <2>8, WatcherFinds DEF WatcherCalls
  <2> QED  BY <2>5, <2>6, <2>9, ApartKept DEF HashInv
<1> QED  BY <1>4, <1>5

\* The watcher's commit: a receipt funds the trade in hand with a hash of its own;
\* anything else leaves the trade without a claim to the hash.
LEMMA ReceiptKeepsHash ==
  ASSUME IInv, HashInv, "watcher" \in Workers, CommitUpdate("watcher")
  PROVE  Unfunded' /\ WatcherCalls' /\ HashesApart'
<1>1. /\ task \in [Procs -> Tasks] /\ "watcher" \in Procs /\ "watcher" \in Updaters
      /\ "watcher" \notin Hooks /\ task["watcher"].pc = "commit"
  BY WatcherProc DEF IInv, TypeOK, CommitUpdate, Updaters
<1>2. PICK t, u, from, todo :
        /\ t \in Trades /\ t = task["watcher"].t /\ u = task["watcher"].upd /\ todo = task["watcher"].todo
        /\ Transaction(t, trade[t], from, u)
  BY <1>1, CommitIsTransaction DEF Transaction
<1>3. /\ \A i \in todo : i.t # t
      /\ u.to \in Receipt \cup {"DISPUTE", "CANCELLED"}
      /\ u.to = "CANCELLED" => u.tx = None
      /\ u.to \in Receipt /\ u.tx # None /\ OnlyPipeline(t) => HashFree(t, u.tx)
  BY <1>1, <1>2 DEF HashInv, WatcherCalls
<1>4. task'["watcher"].pc = "idle" /\ task'["watcher"].todo = todo
  <2>1. task'["watcher"] = AfterCommit("watcher")
    BY <1>1 DEF CommitUpdate
  <2>2. AfterCommit("watcher") = Finished("watcher")
    BY <1>1, <1>2, <1>3 DEF AfterCommit, Receipt
  <2> QED  BY <1>1, <1>2, <2>1, <2>2, FinishedParts
<1>5. Handled(t) /\ ~Handled(t)' /\ \A x \in Trades : Handled(x)' => Handled(x)
  BY <1>1, <1>2, <1>3, <1>4 DEF Handled
<1>6. CanFund(t) /\ (OnlyPipeline(t) => ledger[t]["DEPOSIT"] = 0)
  BY <1>2, <1>5 DEF CanFund, HashInv, Unfunded
<1>7. WatcherCalls'
  BY <1>4 DEF WatcherCalls
<1>8. "DEPOSIT" \in Entries /\ StatusOf("DEPOSIT") = "DEPOSIT_CONFIRMED"
  BY DEF Entries, StatusOf
<1>9. \A x \in Trades : OnlyPipeline(x)' => OnlyPipeline(x)
  BY <1>1, StepIsNext, OnlyPipelineBefore DEF StepOf
<1>10. \A x \in Trades \ {t} :
         trade'[x] = trade[x] /\ ledger'[x] = ledger[x] /\ (CanFund(x)' => CanFund(x))
  BY <1>2, <1>5, TransactionWrites DEF CanFund
<1>11. CASE \/ ~ OnlyPipeline(t)'
            \/ /\ trade'[t].status = trade[t].status /\ trade'[t].tx = trade[t].tx
               /\ ledger' = ledger
  <2>1. \A x \in Trades : Kept(x)
    BY <1>5, <1>9, <1>10, <1>11 DEF CanFund, Kept
  <2>2. Unfunded'
    BY <1>5, <1>9, <1>10, <1>11 DEF HashInv, Unfunded
  <2> QED  BY <1>7, <2>1, <2>2, ApartKept DEF HashInv
<1>12. CASE /\ OnlyPipeline(t)
            /\ trade'[t].status = u.to
            /\ trade'[t].tx = IF u.tx = None THEN trade[t].tx ELSE u.tx
            /\ ledger'[t]["DEPOSIT"] = IF u.post /\ u.to = "DEPOSIT_CONFIRMED" THEN 1 ELSE 0
  <2>1. Unfunded'
    BY <1>5, <1>9, <1>10, <1>12 DEF HashInv, Unfunded, Waiting
  <2>2. ASSUME ~CanFund(t)' \/ \A x \in Trades \ {t} :
                  OnlyPipeline(x) /\ trade'[t].tx # None /\ trade'[t].tx = trade[x].tx => ~CanFund(x)
        PROVE  HashesApart'
    BY <1>9, <1>10, <2>2 DEF HashInv, HashesApart
  <2>3. CASE u.to \in Receipt
    <3>1. ASSUME NEW x \in Trades \ {t}, OnlyPipeline(x),
                 trade'[t].tx # None, trade'[t].tx = trade[x].tx
          PROVE  ~CanFund(x)
      <4>1. CASE u.tx = None
        BY <1>2, <1>6, <1>12, <3>1, <4>1 DEF HashInv, HashesApart
      <4>2. CASE u.tx # None
        BY <1>3, <1>12, <2>3, <3>1, <4>2 DEF HashFree
      <4> QED  BY <4>1, <4>2
    <3> QED  BY <1>7, <2>1, <2>2, <3>1 DEF HashInv
  <2>4. CASE u.to \in {"DISPUTE", "CANCELLED"}
    <3>1. ~CanFund(t)'
      BY <1>5, <1>12, <2>4 DEF CanFund, Waiting
    <3> QED  BY <1>7, <2>1, <2>2, <3>1 DEF HashInv
  <2> QED  BY <1>3, <2>3, <2>4
<1>13. OnlyPipeline(t) => ledger[t]["DEPOSIT"] + 1 = 1
  BY <1>6
<1> QED  BY <1>2, <1>6, <1>8, <1>9, <1>11, <1>12, <1>13, TransactionWrites

LEMMA WatcherKeepsHash ==
  ASSUME IInv, OneItemEach, HashInv, "watcher" \in Workers, StepOf("watcher")
  PROVE  HashInv'
<1>1. "watcher" \in Procs /\ "watcher" \notin Hooks \cup Users \cup Admins
  BY WatcherProc
<1>2. OtherCalls'
  BY <1>1, OwnTask, WhoIsWho DEF HashInv, OtherCalls
<1>3. CASE ListTrades("watcher")
  BY <1>2, <1>3, ListingKeepsHash DEF HashInv
<1>4. CASE WatcherStep \/ ExplorerFails("watcher")
  BY <1>2, <1>4, CheckKeepsHash DEF HashInv
<1>5. CASE CommitUpdate("watcher")
  BY <1>2, <1>5, ReceiptKeepsHash DEF HashInv
<1>6. CASE ("watcher" \in Updaters /\ ReadTrade("watcher")) \/ CommitFails("watcher") \/ PostingFails("watcher")
  <2>1. UNCHANGED storeVars
    BY <1>6 DEF ReadTrade, CommitFails, PostingFails
  <2>2. task'["watcher"].todo \subseteq task["watcher"].todo
    BY <1>1, <1>6, Todo DEF ListTrades, ReadTrade, CommitFails, PostingFails
  <2>3. Continued
    BY <1>1, <1>6, ReadGoesOn DEF Continued, GoesOn
  <2> QED  BY <1>2, <2>1, <2>2, <2>3, HashFrame DEF HashInv, storeVars, OnlyPipeline
<1> QED  BY <1>1, <1>3, <1>4, <1>5, <1>6 DEF StepOf, WorkerStep

LEMMA NextHash == IInv /\ OutsideCalls /\ OneItemEach /\ HashInv /\ [Next]_vars => HashInv'
<1> SUFFICES ASSUME IInv, OutsideCalls, OneItemEach, HashInv, [Next]_vars PROVE HashInv'
  OBVIOUS
<1>1. CASE UNCHANGED vars \/ \E t \in Trades : EnvStep(t)
  <2>1. UNCHANGED <<storeVars, task>>
    BY <1>1, EnvFrame DEF vars
  <2>2. OtherCalls'
    BY <2>1 DEF HashInv, OtherCalls
  <2> QED  BY <2>1, <2>2, HashFrame DEF HashInv, storeVars, Continued, OnlyPipeline
<1>2. CASE Crash
  <2>1. UNCHANGED storeVars /\ \A p \in Procs : task'[p].pc = "idle" /\ task'[p].todo = {}
    BY <1>2, FinishedParts DEF Crash
  <2>2. OtherCalls' /\ ("watcher" \in Workers => Continued /\ task'["watcher"].todo = {})
    BY <2>1, WatcherProc, WhoIsWho DEF OtherCalls, Continued
  <2> QED  BY <2>1, <2>2, HashFrame DEF HashInv, storeVars, OnlyPipeline
<1>3. CASE \E p \in Procs : StepOf(p)
  BY <1>3, WatcherProc, WatcherKeepsHash, OthersKeepHash
<1> QED  BY <1>1, <1>2, <1>3, WhoSteps

\* DepositWatcher.processTrade and GetTradeByDepositTxHash, in every deployment: of the
\* trades that neither the scanner nor people have written to, no two are funded by one
\* hash, however the chain replaces deposits and whatever is going on around them.
THEOREM HashesFundOnce == Spec => []PipelineFundsOnce
<1>1. Init => OutsideCalls /\ OneItemEach /\ HashInv
  BY InitOutside, InitOneItem, InitHash
<1>2. IInv /\ OutsideCalls /\ OneItemEach /\ HashInv /\ [Next]_vars
        => OutsideCalls' /\ OneItemEach' /\ HashInv'
  BY NextOutside, NextOneItem, NextHash
<1>3. IInv /\ HashInv => PipelineFundsOnce
  <2> SUFFICES ASSUME IInv, HashInv, NEW t \in Trades, NEW x \in Trades,
                      t # x, OnlyPipeline(t), OnlyPipeline(x),
                      trade[t].tx # None, trade[t].tx = trade[x].tx
               PROVE  ledger[t]["DEPOSIT"] = 0 \/ ledger[x]["DEPOSIT"] = 0
    BY DEF PipelineFundsOnce
  <2>1. ledger[t]["DEPOSIT"] \in Nat /\ ledger[x]["DEPOSIT"] \in Nat
    BY DEF IInv, TypeOK, StoreTypeOK, Entries
  <2> QED  BY <2>1 DEF HashInv, HashesApart, CanFund
<1> QED
  BY <1>1, <1>2, <1>3, InvariantHolds, PTL DEF Spec

-----------------------------------------------------------------------------
(***************************************************************************)
(* The promise of the state machine.  Within the pipeline each status has  *)
(* one worker that moves a trade on from it, and what this worker has      *)
(* listed or read stays true until it has moved the trade, or someone      *)
(* outside has written to it.  Only a trade that is being paid out is in   *)
(* several hands, the reconciler's and the deliveries': there the keys and *)
(* the provider's records, which never change, leave one of them something *)
(* to write.                                                               *)
(***************************************************************************)
Listers == Workers \ {"scanner"}

Paid == {"PAYOUT_PENDING", "PAYOUT_COMPLETED", "PAYOUT_FAILED"}

\* The statuses a worker moves trades on from, alone.
Owns(p) == CASE p = "watcher"   -> Waiting
             [] p = "converter" -> {"DEPOSIT_CONFIRMED", "CONVERSION_IN_PROGRESS"}
             [] p = "payer"     -> {"CONVERSION_COMPLETED"}
             [] OTHER           -> {}

PayoutKey(s, op, r) == [scope |-> s, op |-> op, ref |-> r, note |-> None]

\* A listed trade is as it was listed, or its payout has been settled since.
ItemTrue(i) ==
  IF i.status = "PAYOUT_PENDING"
    THEN trade[i.t].status \in Paid /\ i.ref = trade[i.t].payout
    ELSE i.status = trade[i.t].status

ItemsTrue ==
  \A w \in Listers : \A i \in task[w].todo :
    i.status \in Watched(w) /\ (OnlyPipeline(i.t) => ItemTrue(i))

OwnItems ==
  \A w \in Listers : task[w].pc # "idle" => \A i \in task[w].todo : i.t # task[w].t

\* A worker moves a trade on from the status it owns.
Moving(p) ==
  LET k == task[p]
      u == task[p].upd
      s == trade[task[p].t].status
  IN /\ p \in Workers /\ s \in Owns(p) /\ u.to # s
     /\ k.pc = "commit" => k.from = s
     /\ IF u.to = "PAYOUT_PENDING"
          THEN /\ u.op = "payout_pending" /\ u.ref = u.payout /\ u.note = None
               /\ u.payout \in DOMAIN payouts[k.t]
          ELSE u.payout = NoRef

\* A report of the payout on record is written to its trade.
Settling(p) ==
  LET k == task[p]
      u == task[p].upd
      t == task[p].t
  IN /\ trade[t].status \in Paid /\ u.ref = trade[t].payout /\ u.payout = u.ref /\ u.note = None
     /\ \/ u.to = "PAYOUT_PENDING" /\ u.op = "payout_pending"
        \/ /\ u.to = "PAYOUT_COMPLETED" /\ u.op = "payout_completed"
           /\ payouts[t][u.ref] = "completed"
        \/ u.to = "PAYOUT_FAILED" /\ u.op = "payout_failed" /\ payouts[t][u.ref] = "failed"
     /\ k.pc = "commit" =>
          k.from \in Paid /\ (k.from # trade[t].status => k.from = "PAYOUT_PENDING")

CallsTrue ==
  \A p \in Engine : task[p].pc \in {"read", "commit"} /\ OnlyPipeline(task[p].t)
    => Moving(p) \/ Settling(p)

\* A trade that is being paid out has its payout and its keys on record.
PaidRow(t) ==
  LET s == trade[t].status
      r == trade[t].payout
  IN /\ s \notin Paid => r = NoRef
     /\ s \in Paid => /\ r \in DOMAIN payouts[t]
                      /\ PayoutKey("PAYOUT_PENDING", "payout_pending", r) \in opKeys[t]
     /\ s = "PAYOUT_COMPLETED" => /\ payouts[t][r] = "completed"
                                  /\ PayoutKey(s, "payout_completed", r) \in opKeys[t]
     /\ s = "PAYOUT_FAILED" => /\ payouts[t][r] = "failed"
                               /\ PayoutKey(s, "payout_failed", r) \in opKeys[t]

PaidRows == \A t \in Trades : OnlyPipeline(t) => PaidRow(t)

PromiseInv == OneItemEach /\ ItemsTrue /\ OwnItems /\ CallsTrue /\ PaidRows

LEMMA InitPromise == Init => PromiseInv
<1> SUFFICES ASSUME Init PROVE PromiseInv
  OBVIOUS
<1>1. \A p \in Procs : task[p].pc = "idle" /\ task[p].todo = {}
  BY FinishedParts DEF Init
<1>2. \A t \in Trades : trade[t].status = "PENDING_DEPOSIT" /\ trade[t].payout = NoRef
  BY DEF Init, StoreInit
<1>3. Listers \subseteq Procs /\ Engine \subseteq Procs
  BY WhoIsWho DEF Listers
<1> QED
  BY <1>1, <1>2, <1>3, InitOneItem
  DEF PromiseInv, ItemsTrue, OwnItems, CallsTrue, PaidRows, PaidRow, Paid

\* Who takes part, and who owns what.
LEMMA EngineProcs ==
  /\ Listers \subseteq {"watcher", "converter", "payer"}
  /\ Listers \subseteq Engine /\ Hooks \subseteq Engine /\ Engine = Listers \cup Hooks
  /\ Engine \subseteq Procs /\ Engine \subseteq Updaters /\ Listers \cap Hooks = {}
  /\ \A p \in Engine : p \in Workers => p \in Listers
  /\ \A p \in Engine : p \notin Users \cup Admins
  /\ \A h \in Hooks : h \notin {"watcher", "converter", "payer"} /\ h \notin Workers
  /\ "scanner" \notin Engine
  BY LifecycleAssumption, ProcessesDistinct
  DEF Listers, Engine, Procs, Updaters, AllWorkers

LEMMA OwnersApart ==
  /\ \A p, q \in {"watcher", "converter", "payer"} : \A s :
       s \in Owns(p) /\ s \in Owns(q) => p = q
  /\ \A p, s : s \in Owns(p) => s \notin Paid
  /\ \A p \in {"watcher", "converter", "payer"} : \A s :
       s \in Watched(p) => s \in Owns(p) \/ (p = "payer" /\ s = "PAYOUT_PENDING")
  BY DEF Owns, Watched, Waiting, Paid

\* A call stays true when its trade and its settled payouts do.
LEMMA CallKept ==
  ASSUME IInv, [Next]_vars, NEW p \in Procs, task[p].pc \in {"read", "commit"},
         task'[p] = task[p], trade'[task[p].t] = trade[task[p].t]
  PROVE  /\ Moving(p) => Moving(p)'
         /\ PaidRow(task[p].t) /\ Settling(p) => Settling(p)'
<1>1. task[p].t \in Trades
  BY DEF IInv, TaskSound
<1> DEFINE now == payouts[task[p].t]
           next == payouts'[task[p].t]
<1>2. \A r \in DOMAIN now :
        /\ r \in DOMAIN next
        /\ now[r] # "pending" => next[r] = now[r]
  BY <1>1, PayoutsGrow
<1>3. payouts'[task'[p].t] = next
  OBVIOUS
<1> HIDE DEF now, next
<1>4. Moving(p) => Moving(p)'
  BY <1>2, <1>3 DEF Moving, now
<1>5. ASSUME PaidRow(task[p].t), Settling(p) PROVE Settling(p)'
  <2>1. task[p].upd.ref \in DOMAIN now
    BY <1>5 DEF PaidRow, Settling, now
  <2> QED
    BY <1>2, <1>3, <1>5, <2>1 DEF Settling, now
<1> QED  BY <1>4, <1>5

\* A row stays true when it, its keys and its settled payouts do.
LEMMA RowKept ==
  ASSUME IInv, [Next]_vars, NEW t \in Trades, PaidRow(t),
         trade'[t] = trade[t], opKeys[t] \subseteq opKeys'[t]
  PROVE  PaidRow(t)'
<1>1. \A r \in DOMAIN payouts[t] :
        /\ r \in DOMAIN payouts'[t]
        /\ payouts[t][r] # "pending" => payouts'[t][r] = payouts[t][r]
  BY PayoutsGrow
<1> QED
  BY <1>1 DEF PaidRow, Paid

\* Calls as they begin.
LEMMA MovingBegins ==
  ASSUME NEW p \in Workers, NEW t, NEW u,
         task'[p].pc = "read", task'[p].t = t, task'[p].upd = u,
         trade'[t].status \in Owns(p), u.to # trade'[t].status,
         u.to # "PAYOUT_PENDING", u.payout = NoRef
  PROVE  Moving(p)'
  BY DEF Moving

\* The item a worker takes up is as it was listed.
LEMMA ItemAtHand ==
  ASSUME ItemsTrue, NEW w \in Listers, NEW i \in task[w].todo, OnlyPipeline(i.t)
  PROVE  \/ i.status = trade[i.t].status /\ i.status \in Owns(w) /\ i.status # "PAYOUT_PENDING"
         \/ /\ w = "payer" /\ i.status = "PAYOUT_PENDING"
            /\ trade[i.t].status \in Paid /\ i.ref = trade[i.t].payout
<1>1. w \in {"watcher", "converter", "payer"}
  BY EngineProcs
<1>2. i.status \in Owns(w) \/ (w = "payer" /\ i.status = "PAYOUT_PENDING")
  BY <1>1, OwnersApart DEF ItemsTrue
<1>3. i.status \in Owns(w) => i.status # "PAYOUT_PENDING"
  BY OwnersApart DEF Paid
<1> QED  BY <1>2, <1>3 DEF ItemsTrue, ItemTrue

LEMMA WatcherMoves ==
  ASSUME IInv, ItemsTrue, "watcher" \in Listers, WatcherStep,
         task'["watcher"].pc # "idle", OnlyPipeline(task'["watcher"].t)
  PROVE  Moving("watcher")' /\ trade' = trade
<1>1. PICK i \in task["watcher"].todo : WatcherChecks(i)
  BY DEF WatcherStep
<1>2. task \in [Procs -> Tasks] /\ "watcher" \in Procs /\ "watcher" \in Workers
  BY EngineProcs DEF IInv, TypeOK, Listers
<1>3. /\ i.status \in Waiting
      /\ task'["watcher"].t = i.t => i.status = trade[i.t].status
  BY <1>1, ItemAtHand DEF ItemsTrue, Watched, Waiting
<1>4. ASSUME NEW u, Calls("watcher", i, u), u.to # i.status, u.to # "PAYOUT_PENDING",
             u.payout = NoRef
      PROVE  Moving("watcher")' /\ trade' = trade
  <2>1. task'["watcher"] = Calling("watcher", i, u) /\ trade' = trade
    BY <1>2, <1>4 DEF Calls, storeVars
  <2>2. task'["watcher"].pc = "read" /\ task'["watcher"].t = i.t /\ task'["watcher"].upd = u
    BY <1>2, <2>1, CallingParts
  <2>3. trade'[i.t].status \in Owns("watcher") /\ trade'[i.t].status = i.status
    BY <1>3, <2>1, <2>2 DEF Owns
  <2> QED  BY <1>2, <1>4, <2>1, <2>2, <2>3, MovingBegins
<1>5. CASE Calls("watcher", i, Update("CANCELLED", "trade_expired", NoRef))
  <2> DEFINE u == Update("CANCELLED", "trade_expired", NoRef)
  <2>1. u.to = "CANCELLED" /\ u.payout = NoRef
    BY UpdateParts
  <2> HIDE DEF u
  <2> QED  BY <1>3, <1>4, <1>5, <2>1 DEF u, Waiting
<1>6. CASE Calls("watcher", i, DepositDispute(i.t, "deposit_dispute"))
  BY <1>3, <1>4, <1>6, DepositDisputeParts DEF Waiting
<1>7. CASE /\ CanFire(i.status, "DEPOSIT_DETECTED")
           /\ Calls("watcher", i, DepositUpdate(i.t,
                FSMTarget(i.status, "DEPOSIT_DETECTED"), "deposit_detected"))
  <2>1. i.status # "DEPOSIT_RECEIVED"
    BY <1>7 DEF CanFire, TradeTransitions
  <2>2. Calls("watcher", i, DepositUpdate(i.t, "DEPOSIT_RECEIVED", "deposit_detected"))
    BY <1>7, ReceiptTargets
  <2> QED  BY <1>4, <2>1, <2>2, DepositUpdateParts
<1>8. CASE /\ CanFire(i.status, "DEPOSIT_CONFIRMED")
           /\ Calls("watcher", i, DepositUpdate(i.t,
                FSMTarget(i.status, "DEPOSIT_CONFIRMED"), "deposit_confirmed"))
  <2>1. Calls("watcher", i, DepositUpdate(i.t, "DEPOSIT_CONFIRMED", "deposit_confirmed"))
    BY <1>8, ReceiptTargets
  <2>2. i.status # "DEPOSIT_CONFIRMED"
    BY <1>3 DEF Waiting
  <2> QED  BY <1>4, <2>1, <2>2, DepositUpdateParts
<1>9. CASE Skips("watcher", i)
  BY <1>2, <1>9, TakenParts DEF Skips
<1> QED  BY <1>1, <1>5, <1>6, <1>7, <1>8, <1>9 DEF WatcherChecks

LEMMA ConverterMoves ==
  ASSUME IInv, ItemsTrue, "converter" \in Listers, ConverterStep,
         task'["converter"].pc # "idle", OnlyPipeline(task'["converter"].t)
  PROVE  Moving("converter")' /\ trade' = trade
<1>1. PICK i \in task["converter"].todo :
        /\ AtItem("converter", i)
        /\ \/ OrderExecuted(i) \/ OrderAnswerLost(i) \/ OrderImpossible(i) \/ OrderFails(i)
           \/ ConversionTimesOut(i) \/ ConversionStillFresh(i)
  BY DEF ConverterStep
<1>2. /\ task \in [Procs -> Tasks] /\ "converter" \in Procs /\ "converter" \in Workers
      /\ i \in Items
  BY EngineProcs DEF IInv, TypeOK, Tasks, Listers
<1>3. /\ i.status \in {"DEPOSIT_CONFIRMED", "CONVERSION_IN_PROGRESS"}
      /\ task'["converter"].t = i.t => i.status = trade[i.t].status
  BY <1>1, ItemAtHand DEF ItemsTrue, Watched
<1>4. ASSUME NEW u, task'["converter"].pc = "read", task'["converter"].t = i.t,
             task'["converter"].upd = u, trade' = trade, u.to # i.status,
             u.to # "PAYOUT_PENDING", u.payout = NoRef
      PROVE  Moving("converter")'
  <2>1. trade'[i.t].status \in Owns("converter") /\ trade'[i.t].status = i.status
    BY <1>3, <1>4 DEF Owns
  <2> QED  BY <1>2, <1>4, <2>1, MovingBegins
<1>5. ASSUME NEW u, task' = [task EXCEPT !["converter"] = Calling("converter", i, u)],
             u.to = "DISPUTE", u.payout = NoRef, trade' = trade
      PROVE  Moving("converter")'
  <2>1. task'["converter"] = Calling("converter", i, u)
    BY <1>2, <1>5
  <2>2. /\ task'["converter"].pc = "read" /\ task'["converter"].t = i.t
        /\ task'["converter"].upd = u
    BY <1>2, <2>1, CallingParts
  <2> QED  BY <1>3, <1>4, <1>5, <2>2
<1>6. trade' = trade
  BY <1>1 DEF OrderExecuted, OrderAnswerLost, OrderImpossible, OrderFails, ConversionTimesOut,
              ConversionStillFresh, Calls, Skips, storeVars
<1>7. CASE OrderExecuted(i)
  <2>1. i.status = "DEPOSIT_CONFIRMED"
    BY <1>7 DEF OrderExecuted
  <2> QED  BY <1>2, <1>4, <1>6, <1>7, <2>1, OrderCall
<1>8. CASE OrderAnswerLost(i)
  BY <1>1, <1>8 DEF OrderAnswerLost, AtItem
<1>9. CASE OrderImpossible(i)
  <2>1. PICK u : u = Update("DISPUTE", "conversion_escalation", NoRef)
    OBVIOUS
  <2>2. u.to = "DISPUTE" /\ u.payout = NoRef
    BY <2>1, UpdateParts
  <2> QED  BY <1>5, <1>6, <1>9, <2>1, <2>2 DEF OrderImpossible, Calls
<1>10. CASE OrderFails(i)
  <2> DEFINE u == Update("DISPUTE", "conversion_retries_exhausted", NoRef)
  <2>1. u.to = "DISPUTE" /\ u.payout = NoRef
    BY UpdateParts
  <2>2. \/ task' = [task EXCEPT !["converter"] = Taken("converter", i)]
        \/ task' = [task EXCEPT !["converter"] = Calling("converter", i, u)]
    BY <1>10 DEF OrderFails
  <2> HIDE DEF u
  <2>3. task' # [task EXCEPT !["converter"] = Taken("converter", i)]
    BY <1>2, TakenParts
  <2> QED  BY <1>5, <1>6, <2>1, <2>2, <2>3
<1>11. CASE ConversionTimesOut(i)
  <2> DEFINE u == [Update("DISPUTE", "conversion_reconcile_timeout", i.ref) EXCEPT !.order = i.ref]
  <2>1. u.to = "DISPUTE" /\ u.payout = NoRef
    BY DEF Update
  <2> HIDE DEF u
  <2>2. Calls("converter", i, u)
    BY <1>11 DEF ConversionTimesOut, u
  <2> QED  BY <1>5, <1>6, <2>1, <2>2 DEF Calls
<1>12. CASE ConversionStillFresh(i)
  BY <1>2, <1>12, TakenParts DEF ConversionStillFresh, Skips
<1> QED  BY <1>1, <1>6, <1>7, <1>8, <1>9, <1>10, <1>11, <1>12

\* A report of the payout on record, as it begins.
LEMMA SettlingBegins ==
  ASSUME NEW p \in Procs, NEW t, NEW to, NEW op, NEW ref,
         task'[p].pc = "read", task'[p].t = t, task'[p].upd = PayoutUpdate(to, op, ref),
         trade'[t].status \in Paid, trade'[t].payout = ref,
         \/ to = "PAYOUT_PENDING" /\ op = "payout_pending"
         \/ to = "PAYOUT_COMPLETED" /\ op = "payout_completed" /\ payouts'[t][ref] = "completed"
         \/ to = "PAYOUT_FAILED" /\ op = "payout_failed" /\ payouts'[t][ref] = "failed"
  PROVE  Settling(p)'
<1>1. PICK u : u = PayoutUpdate(to, op, ref)
  OBVIOUS
<1>2. /\ task'[p].upd = u /\ u.to = to /\ u.op = op /\ u.ref = ref /\ u.payout = ref
      /\ u.note = None
  BY <1>1, PayoutUpdateParts
<1> QED
  BY <1>2 DEF Settling

LEMMA PayerCalls ==
  ASSUME IInv, ItemsTrue, "payer" \in Listers, PayerStep,
         task'["payer"].pc # "idle", OnlyPipeline(task'["payer"].t)
  PROVE  (Moving("payer") \/ Settling("payer"))' /\ trade' = trade
<1>1. PICK i \in task["payer"].todo :
        /\ AtItem("payer", i)
        /\ \/ PayoutCreated(i) \/ PayoutAnswerLost(i) \/ PayoutRejected(i)
           \/ PayoutReconciled(i) \/ PayoutLeft(i)
  BY DEF PayerStep
<1>2. /\ task \in [Procs -> Tasks] /\ "payer" \in Procs /\ "payer" \in Workers
      /\ i \in Items /\ i.t \in Trades
  BY EngineProcs DEF IInv, TypeOK, Tasks, Items, Listers
<1>3. trade' = trade
  BY <1>1 DEF PayoutCreated, PayoutAnswerLost, PayoutRejected, PayoutReconciled, PayoutLeft,
              Calls, Skips, storeVars
<1>4. CASE PayoutAnswerLost(i) \/ PayoutLeft(i)
  BY <1>2, <1>4, TakenParts DEF PayoutAnswerLost, PayoutLeft, Skips
<1>5. CASE PayoutCreated(i)
  <2> DEFINE n == Len(payouts[i.t]) + 1
  <2>1. PICK u : u = PayoutUpdate("PAYOUT_PENDING", "payout_pending", n)
    OBVIOUS
  <2>2. /\ task'["payer"].pc = "read" /\ task'["payer"].t = i.t /\ task'["payer"].upd = u
    <3>1. task'["payer"] = Calling("payer", i, u)
      BY <1>2, <1>5, <2>1 DEF PayoutCreated
    <3> QED  BY <1>2, <3>1, CallingParts
  <2>3. /\ u.to = "PAYOUT_PENDING" /\ u.op = "payout_pending" /\ u.ref = n
        /\ u.payout = n /\ u.note = None
    BY <2>1, PayoutUpdateParts
  <2>4. n \in DOMAIN payouts'[i.t]
    <3>1. payouts \in [Trades -> Seq(PayoutStates)] /\ payouts[i.t] \in Seq(PayoutStates)
      BY <1>2 DEF IInv, TypeOK
    <3>2. payouts'[i.t] = Append(payouts[i.t], "pending")
      BY <1>2, <1>5, <3>1 DEF PayoutCreated
    <3> QED  BY <3>1, <3>2
  <2>5. trade'[i.t].status = "CONVERSION_COMPLETED"
    BY <1>1, <1>3, <1>5, <2>2, ItemAtHand DEF PayoutCreated
  <2> HIDE DEF n
  <2>6. Moving("payer")'
    BY <1>2, <2>2, <2>3, <2>4, <2>5 DEF Moving, Owns
  <2> QED  BY <1>3, <2>6
<1>6. CASE PayoutRejected(i)
  <2>1. PICK u : u = Update("PAYOUT_FAILED", "payout_failed_initiation", NoRef)
    OBVIOUS
  <2>2. Calls("payer", i, u)
    BY <1>6, <2>1 DEF PayoutRejected
  <2>3. task'["payer"] = Calling("payer", i, u)
    BY <1>2, <2>2 DEF Calls
  <2>4. task'["payer"].pc = "read" /\ task'["payer"].t = i.t /\ task'["payer"].upd = u
    BY <1>2, <2>3, CallingParts
  <2>5. trade'[i.t].status = "CONVERSION_COMPLETED" /\ trade'[i.t].status \in Owns("payer")
    BY <1>1, <1>3, <1>6, <2>4, ItemAtHand DEF PayoutRejected, Owns
  <2>6. u.to = "PAYOUT_FAILED" /\ u.payout = NoRef
    BY <2>1, UpdateParts
  <2> QED  BY <1>2, <1>3, <2>4, <2>5, <2>6, MovingBegins
<1>7. CASE PayoutReconciled(i)
  <2>2. payouts' = payouts
    BY <1>7 DEF PayoutReconciled, Calls, envVars
  <2>3. /\ task'["payer"].pc = "read" /\ task'["payer"].t = i.t
        /\ \/ /\ payouts[i.t][i.ref] = "completed"
              /\ task'["payer"].upd = PayoutUpdate("PAYOUT_COMPLETED", "payout_completed", i.ref)
           \/ /\ payouts[i.t][i.ref] = "failed"
              /\ task'["payer"].upd = PayoutUpdate("PAYOUT_FAILED", "payout_failed", i.ref)
    <3>1. ASSUME NEW u, Calls("payer", i, u)
          PROVE  /\ task'["payer"].pc = "read" /\ task'["payer"].t = i.t
                 /\ task'["payer"].upd = u
      <4>1. task'["payer"] = Calling("payer", i, u)
        BY <1>2, <3>1 DEF Calls
      <4> QED  BY <1>2, <4>1, CallingParts
    <3> QED  BY <1>7, <3>1 DEF PayoutReconciled
  <2>4. trade'[i.t].status \in Paid /\ trade'[i.t].payout = i.ref
    BY <1>1, <1>3, <1>7, <2>3, ItemAtHand DEF PayoutReconciled
  <2>5. Settling("payer")'
    BY <1>2, <2>2, <2>3, <2>4, SettlingBegins
  <2> QED  BY <1>3, <2>5
<1> QED  BY <1>1, <1>4, <1>5, <1>6, <1>7

\* References of payouts are positive.
LEMMA PayoutTypes ==
  ASSUME IInv, NEW t \in Trades
  PROVE  DOMAIN payouts[t] = 1..Len(payouts[t]) /\ Len(payouts[t]) \in Nat
<1>1. payouts[t] \in Seq(PayoutStates)
  BY DEF IInv, TypeOK
<1> QED  BY <1>1

LEMMA HookCalls ==
  ASSUME IInv, PaidRows, NEW h \in Hooks, HookReceives(h), task[h].pc = "idle",
         task'[h].pc # "idle", OnlyPipeline(task'[h].t)
  PROVE  Settling(h)'
<1>1. PICK t, ref, s :
        /\ t \in Trades /\ ref \in DOMAIN payouts[t] /\ s \in Reported(payouts[t][ref])
        /\ trade[t].payout = ref /\ payouts' = payouts
        /\ task'[h].t = t /\ task'[h].pc = "read"
        /\ task'[h].upd = PayoutUpdate(s, HookOp(s), ref)
  BY HookCall
<1>2. trade' = trade /\ h \in Procs
  BY DEF HookReceives, storeVars, Procs
<1>3. ref # NoRef
  BY <1>1, PayoutTypes DEF NoRef
<1>4. trade[t].status \in Paid
  BY <1>1, <1>3 DEF PaidRows, PaidRow
<1>5. \/ s = "PAYOUT_PENDING" /\ HookOp(s) = "payout_pending"
      \/ s = "PAYOUT_COMPLETED" /\ HookOp(s) = "payout_completed" /\ payouts[t][ref] = "completed"
      \/ s = "PAYOUT_FAILED" /\ HookOp(s) = "payout_failed" /\ payouts[t][ref] = "failed"
  BY <1>1 DEF Reported, HookOp
<1> QED  BY <1>1, <1>2, <1>4, <1>5, SettlingBegins

\* A worker that begins a call has taken its item off the list.
LEMMA TakesItem ==
  ASSUME IInv, NEW p \in Listers, WorkerStep(p), task'[p].pc # "idle"
  PROVE  \E i \in task[p].todo : task'[p].t = i.t /\ task'[p].todo = task[p].todo \ {i}
<1>1. /\ task \in [Procs -> Tasks] /\ p \in Procs /\ task[p].todo \in SUBSET Items
      /\ p \in {"watcher", "converter", "payer"}
  BY EngineProcs DEF IInv, TypeOK, Tasks
<1>2. ASSUME NEW i \in task[p].todo, NEW u,
             task' = [task EXCEPT ![p] = Calling(p, i, u)] \/ Calls(p, i, u)
      PROVE  task'[p].t = i.t /\ task'[p].todo = task[p].todo \ {i}
  <2>1. task'[p] = Calling(p, i, u)
    BY <1>1, <1>2 DEF Calls
  <2> QED  BY <1>1, <2>1, CallingParts
<1>3. ASSUME NEW i, Skips(p, i) PROVE FALSE
  BY <1>1, <1>3, TakenParts DEF Skips
<1>4. CASE ListTrades(p)
  BY <1>1, <1>4 DEF ListTrades, Tasks
<1>5. CASE p = "watcher" /\ (WatcherStep \/ ExplorerFails(p))
  BY <1>2, <1>3, <1>5 DEF WatcherStep, WatcherChecks, ExplorerFails
<1>6. CASE p = "converter" /\ ConverterStep
  <2>1. PICK i \in task[p].todo :
          /\ AtItem(p, i)
          /\ \/ OrderExecuted(i) \/ OrderAnswerLost(i) \/ OrderImpossible(i) \/ OrderFails(i)
             \/ ConversionTimesOut(i) \/ ConversionStillFresh(i)
    BY <1>6 DEF ConverterStep
  <2>2. CASE OrderExecuted(i)
    BY <1>1, <1>6, <2>2, OrderCall
  <2>3. CASE OrderAnswerLost(i)
    BY <2>1, <2>3 DEF OrderAnswerLost, AtItem
  <2>4. CASE OrderFails(i)
    <3>1. task' # [task EXCEPT ![p] = Taken(p, i)]
      BY <1>1, TakenParts
    <3> QED  BY <1>2, <1>6, <2>4, <3>1 DEF OrderFails
  <2> QED  BY <1>2, <1>3, <1>6, <2>1, <2>2, <2>3, <2>4
           DEF OrderImpossible, ConversionTimesOut, ConversionStillFresh
<1>7. CASE p = "payer" /\ PayerStep
  <2>1. PICK i \in task[p].todo :
             \/ PayoutCreated(i) \/ PayoutAnswerLost(i) \/ PayoutRejected(i)
             \/ PayoutReconciled(i) \/ PayoutLeft(i)
    BY <1>7 DEF PayerStep
  <2>2. CASE PayoutAnswerLost(i)
    BY <1>1, <1>7, <2>2, TakenParts DEF PayoutAnswerLost
  <2> QED  BY <1>2, <1>3, <1>7, <2>1, <2>2
           DEF PayoutCreated, PayoutRejected, PayoutReconciled, PayoutLeft
<1> QED  BY <1>1, <1>4, <1>5, <1>6, <1>7 DEF WorkerStep

\* Reading the row: what is checked is what is there.
LEMMA ReadTrue ==
  ASSUME IInv, NEW p \in Updaters, ReadTrade(p), Moving(p) \/ Settling(p),
         task'[p].pc = "commit"
  PROVE  (Moving(p) \/ Settling(p))'
<1>1. task \in [Procs -> Tasks] /\ p \in Procs /\ task[p].pc = "read"
  BY DEF IInv, TypeOK, Updaters, Procs, ReadTrade
<1>2. trade' = trade /\ payouts' = payouts
  BY DEF ReadTrade, storeVars, envVars
<1> DEFINE s == trade[task[p].t].status
<1>3. \/ task' = [task EXCEPT ![p].pc = "commit", ![p].from = s]
      \/ task' = [task EXCEPT ![p] = AfterError(p)]
  BY DEF ReadTrade
<1> HIDE DEF s
<1>4. CASE task' = [task EXCEPT ![p].pc = "commit", ![p].from = s]
  <2>1. /\ task'[p].t = task[p].t /\ task'[p].upd = task[p].upd /\ task'[p].from = s
    BY <1>1, <1>4 DEF Tasks
  <2>2. CASE Moving(p)
    BY <1>2, <2>1, <2>2 DEF Moving, s
  <2>3. CASE Settling(p)
    BY <1>2, <2>1, <2>3 DEF Settling, s
  <2> QED  BY <2>2, <2>3
<1>5. CASE task' = [task EXCEPT ![p] = AfterError(p)]
  <2>1. task'[p] \in {[task[p] EXCEPT !.pc = "ack"], Finished(p)}
    BY <1>1, <1>5 DEF AfterError
  <2>2. task'[p].pc \in {"ack", "idle"}
    BY <1>1, <2>1, FinishedParts DEF Tasks
  <2> QED  BY <2>2
<1> QED  BY <1>3, <1>4, <1>5

LEMMA ReadEnds ==
  ASSUME IInv, NEW p \in Updaters, ReadTrade(p), task'[p].pc \in {"read", "commit"}
  PROVE  task'[p].pc = "commit"
<1>1. task \in [Procs -> Tasks] /\ p \in Procs
  BY DEF IInv, TypeOK, Updaters, Procs
<1>2. CASE \E s : task' = [task EXCEPT ![p].pc = "commit", ![p].from = s]
  BY <1>1, <1>2 DEF Tasks
<1>3. CASE task' = [task EXCEPT ![p] = AfterError(p)]
  <2>1. task'[p] \in {[task[p] EXCEPT !.pc = "ack"], Finished(p)}
    BY <1>1, <1>3 DEF AfterError
  <2> QED  BY <1>1, <2>1, FinishedParts DEF Tasks
<1> QED  BY <1>2, <1>3 DEF ReadTrade

\* A trade that is still the pipeline's was not written to.
Untouched(x) ==
  OnlyPipeline(x)' =>
    OnlyPipeline(x) /\ trade'[x] = trade[x] /\ ledger'[x] = ledger[x]

\* What holds of rows, calls that go on and items that stay, when none is written to.
LEMMA RowsStay ==
  ASSUME IInv, PromiseInv, [Next]_vars, \A x \in Trades : Untouched(x)
  PROVE  /\ OneItemEach' /\ PaidRows'
         /\ \A q \in Engine : task'[q] = task[q] /\ task[q].pc \in {"read", "commit"}
                /\ OnlyPipeline(task[q].t)' => (Moving(q) \/ Settling(q))'
         /\ \A w \in Listers : \A i \in task[w].todo :
              i.status \in Watched(w) /\ (OnlyPipeline(i.t)' => ItemTrue(i)')
<1>1. OneItemEach'
  BY NextOneItem DEF PromiseInv
<1>2. ASSUME NEW x \in Trades, OnlyPipeline(x)' PROVE PaidRow(x)'
  <2>1. opKeys[x] \subseteq opKeys'[x] /\ OnlyPipeline(x) /\ trade'[x] = trade[x]
    BY <1>2, LedgerPays DEF Untouched
  <2> QED  BY <2>1, RowKept DEF PromiseInv, PaidRows
<1>3. ASSUME NEW q \in Engine, task'[q] = task[q], task[q].pc \in {"read", "commit"},
             OnlyPipeline(task[q].t)'
      PROVE  (Moving(q) \/ Settling(q))'
  <2>1. q \in Procs /\ task[q].t \in Trades
    BY <1>3, EngineProcs DEF IInv, TaskSound
  <2>2. OnlyPipeline(task[q].t) /\ trade'[task[q].t] = trade[task[q].t]
    BY <1>3, <2>1 DEF Untouched
  <2> QED  BY <1>3, <2>1, <2>2, CallKept DEF PromiseInv, CallsTrue, PaidRows
<1>4. ASSUME NEW w \in Listers, NEW i \in task[w].todo
      PROVE  i.status \in Watched(w) /\ (OnlyPipeline(i.t)' => ItemTrue(i)')
  <2>1. i.t \in Trades
    BY EngineProcs DEF IInv, TypeOK, Tasks, Items
  <2> QED  BY <2>1 DEF PromiseInv, ItemsTrue, ItemTrue, Untouched
<1> QED  BY <1>1, <1>2, <1>3, <1>4 DEF PaidRows

\* A step that writes to no trade of the pipeline.
LEMMA QuietStep ==
  ASSUME IInv, PromiseInv, NEW p \in Procs, StepOf(p), \A x \in Trades : Untouched(x),
         p \in Outside \/ ~CommitUpdate(p)
  PROVE  PromiseInv'
<1>1. [Next]_vars /\ task \in [Procs -> Tasks] /\ \A q \in Procs \ {p} : task'[q] = task[q]
  BY StepIsNext, OwnTask DEF IInv, TypeOK
<1>2. p \in Engine => UNCHANGED storeVars
  BY EngineProcs, WhoIsWho, Writes
<1>3. \/ task'[p].todo \subseteq task[p].todo
      \/ p \in Listers /\ ListTrades(p)
      \/ p \notin Listers
  BY Todo DEF Listers
<1>4. ItemsTrue'
  <2>1. CASE p \in Listers /\ ListTrades(p)
    <3>1. PICK s \in Watched(p) : task'[p].todo =
            { [t |-> t, status |-> s, ref |-> ListedRef(p, t)] : t \in Matching(p, s) }
      BY <1>1, <2>1 DEF ListTrades, Tasks
    <3>2. s = "PAYOUT_PENDING" => p = "payer"
      BY <2>1, EngineProcs DEF Watched
    <3>3. trade' = trade
      BY <2>1 DEF ListTrades, storeVars
    <3>4. \A i \in task'[p].todo :
            /\ i.status = s /\ trade'[i.t].status = s
            /\ s = "PAYOUT_PENDING" => i.ref = trade'[i.t].payout
      BY <3>1, <3>2, <3>3 DEF Matching, ListedRef
    <3>5. \A i \in task'[p].todo : i.status \in Watched(p) /\ ItemTrue(i)'
      BY <3>1, <3>4 DEF ItemTrue, Paid
    <3> QED  BY <1>1, <3>5, RowsStay, EngineProcs DEF ItemsTrue
  <2>2. CASE task'[p].todo \subseteq task[p].todo \/ p \notin Listers
    <3>1. Listers \subseteq Procs
      BY EngineProcs
    <3>2. \A w \in Listers : task'[w].todo \subseteq task[w].todo
      BY <1>1, <2>2, <3>1
    <3> QED  BY <1>1, <3>2, RowsStay DEF ItemsTrue
  <2> QED  BY <1>3, <2>1, <2>2
<1>5. OwnItems'
  <2>1. CASE p \in Listers /\ WorkerStep(p) /\ task'[p].pc # "idle"
    <3>1. PICK i \in task[p].todo : task'[p].t = i.t /\ task'[p].todo = task[p].todo \ {i}
      BY <2>1, TakesItem
    <3> QED  BY <1>1, <3>1, EngineProcs DEF PromiseInv, OwnItems, OneItemEach
  <2>2. CASE task'[p].pc # "idle" /\ GoesOn(p)
    <3>1. task'[p].todo \subseteq task[p].todo
      BY <2>2, Todo DEF GoesOn, ListTrades
    <3> QED  BY <1>1, <2>2, <3>1, EngineProcs DEF PromiseInv, OwnItems, GoesOn
  <2>3. CASE task'[p].pc = "idle" \/ p \notin Listers
    BY <1>1, <2>3, EngineProcs DEF PromiseInv, OwnItems
  <2>4. p \in Listers => p \notin Hooks \cup Users \cup Admins /\ p \notin Outside
    BY EngineProcs, WhoIsWho
  <2> QED  BY <2>1, <2>2, <2>3, <2>4, ReadGoesOn DEF StepOf
<1>6. ASSUME NEW q \in Engine, task'[q].pc \in {"read", "commit"}, OnlyPipeline(task[q].t)'
      PROVE  (Moving(q) \/ Settling(q))'
  <2>1. CASE task'[q] = task[q]
    BY <1>1, <1>6, <2>1, RowsStay
  <2>2. p = q => /\ UNCHANGED storeVars /\ OnlyPipeline(task'[q].t)
                 /\ q \notin Users \cup Admins /\ ~CommitUpdate(p)
    BY <1>2, <1>6, EngineProcs, WhoIsWho DEF storeVars, OnlyPipeline
  <2>3. CASE q = p /\ p \in Workers /\ WorkerStep(p)
    <3>1. CASE ListTrades(p)
      BY <1>1, <1>6, <2>3, <3>1 DEF ListTrades, Tasks
    <3>2. CASE ExplorerFails(p)
      BY <1>1, <1>6, <2>3, <3>2, TakenParts DEF ExplorerFails, Skips
    <3>3. p \in Listers
      BY <2>3, EngineProcs
    <3> QED
      BY <1>6, <2>2, <2>3, <3>1, <3>2, <3>3, EngineProcs, WatcherMoves, ConverterMoves, PayerCalls
      DEF WorkerStep, PromiseInv
  <2>4. CASE q = p /\ p \in Hooks /\ HookReceives(p)
    BY <1>6, <2>2, <2>4, HookCalls DEF HookReceives, PromiseInv
  <2>5. CASE q = p /\ p \in Hooks /\ HookMarksProcessed(p)
    BY <1>1, <1>6, <2>5, FinishedParts DEF HookMarksProcessed
  <2>6. CASE q = p /\ p \in Updaters /\ ReadTrade(p)
    <3>1. GoesOn(p) /\ task[p].pc = "read"
      BY <1>6, <2>6, ReadGoesOn DEF ReadTrade
    <3>2. Moving(p) \/ Settling(p)
      BY <2>2, <2>6, <3>1 DEF PromiseInv, CallsTrue, GoesOn
    <3>3. task'[p].pc = "commit"
      BY <1>1, <1>6, <2>6, ReadEnds
    <3> QED  BY <2>6, <3>2, <3>3, ReadTrue
  <2>7. CASE q = p /\ (CommitFails(p) \/ PostingFails(p))
    <3>1. task'[p] \in {[task[p] EXCEPT !.pc = "ack"], Finished(p)}
      BY <1>1, <2>7 DEF CommitFails, PostingFails, AfterError
    <3> QED  BY <1>1, <1>6, <2>7, <3>1, FinishedParts DEF Tasks
  <2> QED  BY <1>1, <2>1, <2>2, <2>3, <2>4, <2>5, <2>6, <2>7, EngineProcs DEF StepOf
<1> QED  BY <1>1, <1>4, <1>5, <1>6, RowsStay DEF PromiseInv, CallsTrue

\* What a commit does to the row it updates.
LEMMA CommitWrites ==
  ASSUME IInv, NEW p \in Updaters, CommitUpdate(p), NEW t, NEW u,
         t = task[p].t, u = task[p].upd
  PROVE  /\ t \in Trades /\ u \in Updates /\ (~u.post => u.to = "DISPUTE")
         /\ isAllowedTradeStatusTransition(task[p].from, u.to)
         /\ UNCHANGED envVars /\ task[p].pc = "commit"
         /\ \/ OperationKey(u) \in opKeys[t] /\ UNCHANGED <<trade, opKeys, ledger>>
            \/ /\ OperationKey(u) \notin opKeys[t]
               /\ trade' = [trade EXCEPT ![t] = Written(trade[t], u)]
               /\ opKeys' = [opKeys EXCEPT ![t] = opKeys[t] \cup {OperationKey(u)}]
               /\ ledger' = [ledger EXCEPT ![t] = postLedgerForStatusTransitionTx(ledger[t], u)]
<1>1. Transaction(t, trade[t], task[p].from, u)
  BY CommitIsTransaction
<1>2. /\ trade \in [Trades -> Rows] /\ opKeys \in [Trades -> SUBSET Keys]
      /\ ledger \in [Trades -> [Entries -> Nat]] /\ t \in Trades
  BY <1>1 DEF IInv, TypeOK, StoreTypeOK, Transaction
<1>3. UNCHANGED envVars /\ task[p].pc = "commit"
  BY DEF CommitUpdate
<1>4. CASE DuplicateIgnored(t, trade[t], u)
  <2>1. trade' = trade
    BY <1>2, <1>4 DEF DuplicateIgnored
  <2> QED  BY <1>1, <1>3, <1>4, <2>1 DEF DuplicateIgnored, Reserves, Transaction, UpdateSound
<1>5. CASE StatusWritten(t, trade[t], task[p].from, u)
  <2>1. /\ OperationKey(u) \notin opKeys[t]
        /\ trade' = [trade EXCEPT ![t] = Written(trade[t], u)]
        /\ opKeys' = [opKeys EXCEPT ![t] = opKeys[t] \cup {OperationKey(u)}]
    BY <1>2, <1>5 DEF StatusWritten, Reserves
  <2>2. ledger' = [ledger EXCEPT ![t] = postLedgerForStatusTransitionTx(ledger[t], u)]
    BY <1>2, <1>5 DEF StatusWritten
  <2> QED  BY <1>1, <1>3, <2>1, <2>2 DEF Transaction, UpdateSound
<1> QED  BY <1>1, <1>4, <1>5 DEF Transaction, updateTradeStatusTx

\* A commit that finds its key free moves the trade on from the status it has.
LEMMA CommitMoves ==
  ASSUME IInv, CallsTrue, PaidRows, NEW p \in Engine, CommitUpdate(p), NEW t, NEW u,
         t = task[p].t, u = task[p].upd, OperationKey(u) \notin opKeys[t], OnlyPipeline(t)
  PROVE  /\ u.to \in AllowedTargets(trade[t].status)
         /\ \/ Moving(p)
            \/ /\ Settling(p) /\ trade[t].status = "PAYOUT_PENDING"
               /\ u.to \in {"PAYOUT_COMPLETED", "PAYOUT_FAILED"}
<1>1. /\ t \in Trades /\ isAllowedTradeStatusTransition(task[p].from, u.to)
      /\ task[p].pc = "commit"
  <2>1. p \in Updaters
    BY EngineProcs
  <2> QED  BY <2>1, CommitWrites
<1>2. CASE Moving(p)
  <2>1. task[p].from = trade[t].status /\ u.to # trade[t].status
    BY <1>1, <1>2 DEF Moving
  <2> QED  BY <1>1, <1>2, <2>1 DEF isAllowedTradeStatusTransition
<1>3. CASE Settling(p)
  <2>1. /\ trade[t].status \in Paid /\ u.ref = trade[t].payout /\ u.note = None
        /\ \/ u.to = "PAYOUT_PENDING" /\ u.op = "payout_pending"
           \/ /\ u.to = "PAYOUT_COMPLETED" /\ u.op = "payout_completed"
              /\ payouts[t][u.ref] = "completed"
           \/ u.to = "PAYOUT_FAILED" /\ u.op = "payout_failed" /\ payouts[t][u.ref] = "failed"
    BY <1>3 DEF Settling
  <2>2. PayoutKey(u.to, u.op, trade[t].payout) \notin opKeys[t]
    BY <2>1 DEF OperationKey, PayoutKey
  <2>3. PaidRow(t)
    BY <1>1 DEF PaidRows
  <2>4. u.to # "PAYOUT_PENDING" /\ u.to # trade[t].status
    BY <2>1, <2>2, <2>3 DEF PaidRow, Paid
  <2>5. trade[t].status = "PAYOUT_PENDING"
    BY <2>1, <2>3, <2>4 DEF PaidRow, Paid
  <2> QED  BY <1>3, <2>1, <2>4, <2>5 DEF AllowedTargets
<1> QED  BY <1>1, <1>2, <1>3 DEF CallsTrue

\* Its row is on record as it should be.
LEMMA RowWritten ==
  ASSUME IInv, CallsTrue, PaidRows, NEW p \in Engine, CommitUpdate(p), NEW t, NEW u,
         t = task[p].t, u = task[p].upd, OperationKey(u) \notin opKeys[t], OnlyPipeline(t)
  PROVE  /\ PaidRow(t)' /\ trade'[t].status = u.to
         /\ Settling(p) => trade'[t].payout = trade[t].payout
<1>1. p \in Updaters
  BY EngineProcs
<1>2. /\ t \in Trades /\ payouts' = payouts /\ trade \in [Trades -> Rows]
      /\ opKeys \in [Trades -> SUBSET Keys]
  BY <1>1, CommitWrites DEF envVars, IInv, TypeOK, StoreTypeOK
<1>3. /\ trade'[t].status = u.to
      /\ trade'[t].payout = IF u.payout = NoRef THEN trade[t].payout ELSE u.payout
  <2>1. trade' = [trade EXCEPT ![t] = Written(trade[t], u)]
    BY <1>1, CommitWrites
  <2> QED  BY <1>2, <2>1 DEF Written
<1>4. opKeys'[t] = opKeys[t] \cup {OperationKey(u)}
  BY <1>1, <1>2, CommitWrites
<1>5. PaidRow(t) /\ u.to \in AllowedTargets(trade[t].status)
  BY <1>2, CommitMoves DEF PaidRows
<1>6. NoRef \notin DOMAIN payouts[t]
  BY <1>2, PayoutTypes DEF NoRef
<1>7. CASE Moving(p)
  <2>1. /\ trade[t].status \notin Paid
        /\ u.to \in Paid => u.to = "PAYOUT_PENDING"
    <3>1. p \in {"watcher", "converter", "payer"} /\ trade[t].status \in Owns(p)
      BY <1>7, EngineProcs DEF Moving
    <3> QED  BY <1>5, <3>1 DEF Owns, Waiting, AllowedTargets, Paid
  <2>2. trade[t].payout = NoRef
    BY <1>5, <2>1 DEF PaidRow
  <2>3. CASE u.to = "PAYOUT_PENDING"
    <3>1. /\ u.op = "payout_pending" /\ u.ref = u.payout /\ u.note = None
          /\ u.payout \in DOMAIN payouts[t]
      BY <1>7, <2>3 DEF Moving
    <3>2. OperationKey(u) = PayoutKey("PAYOUT_PENDING", "payout_pending", u.payout)
      BY <2>3, <3>1 DEF OperationKey, PayoutKey
    <3>3. trade'[t].payout = u.payout
      BY <1>3, <1>6, <3>1
    <3>4. PaidRow(t)'
      BY <1>2, <1>3, <1>4, <2>3, <3>1, <3>2, <3>3 DEF PaidRow, Paid
    <3> QED  BY <1>3, <2>1, <3>4 DEF Settling
  <2>4. CASE u.to # "PAYOUT_PENDING"
    <3>1. u.payout = NoRef
      BY <1>7, <2>4 DEF Moving
    <3>2. PaidRow(t)'
      BY <1>3, <2>1, <2>2, <2>4, <3>1 DEF PaidRow, Paid
    <3> QED  BY <1>3, <2>1, <3>2 DEF Settling
  <2> QED  BY <2>3, <2>4
<1>8. CASE Settling(p) /\ trade[t].status = "PAYOUT_PENDING"
           /\ u.to \in {"PAYOUT_COMPLETED", "PAYOUT_FAILED"}
  <2>1. /\ u.ref = trade[t].payout /\ u.payout = u.ref /\ u.note = None
        /\ \/ /\ u.to = "PAYOUT_COMPLETED" /\ u.op = "payout_completed"
              /\ payouts[t][u.ref] = "completed"
           \/ u.to = "PAYOUT_FAILED" /\ u.op = "payout_failed" /\ payouts[t][u.ref] = "failed"
    BY <1>8 DEF Settling
  <2>2. trade'[t].payout = trade[t].payout
    BY <1>3, <2>1
  <2>3. OperationKey(u) = PayoutKey(u.to, u.op, trade[t].payout)
    BY <2>1 DEF OperationKey, PayoutKey
  <2>4. PaidRow(t)'
    BY <1>2, <1>3, <1>4, <1>5, <1>8, <2>1, <2>2, <2>3 DEF PaidRow, Paid
  <2> QED  BY <1>3, <2>2, <2>4
<1> QED  BY <1>7, <1>8, CommitMoves

\* Whoever else had the trade in hand, but did not own its status.
LEMMA OneMover ==
  ASSUME NEW p \in Engine, NEW q \in Engine \ {p}, Moving(p), Moving(q)
  PROVE  task[p].t # task[q].t
<1>1. {p, q} \subseteq {"watcher", "converter", "payer"}
  BY EngineProcs DEF Moving
<1> QED  BY <1>1, OwnersApart DEF Moving

\* A conversion that goes on to record its result still owns the trade.
LEMMA ResultMoves ==
  ASSUME IInv, PromiseInv, NEW p \in Engine, CommitUpdate(p), task'[p].pc = "read",
         OnlyPipeline(task[p].t)
  PROVE  Moving(p)'
<1>1. p \in Updaters /\ task[p].pc = "commit" /\ task[p].t \in Trades
  BY EngineProcs DEF CommitUpdate, IInv, TaskSound
<1>2. /\ task[p].upd.to = "CONVERSION_IN_PROGRESS" /\ task'[p].t = task[p].t
      /\ task'[p].upd = ConversionResult(task[p].upd.order, task[p].result)
  BY <1>1, CommitEnds
<1> DEFINE t == task[p].t
<1>3. Moving(p)
  BY <1>1, <1>2 DEF PromiseInv, CallsTrue, Settling
<1>4. /\ p \in {"watcher", "converter", "payer"} /\ p \in Workers /\ task[p].from = trade[t].status
      /\ trade[t].status \in Owns(p) /\ trade[t].status # "CONVERSION_IN_PROGRESS"
  BY <1>1, <1>2, <1>3, EngineProcs DEF Moving
<1>5. "CONVERSION_IN_PROGRESS" \in AllowedTargets(trade[t].status)
  <2>1. isAllowedTradeStatusTransition(task[p].from, task[p].upd.to)
    BY <1>1, EngineProcs DEF IInv, TaskSound
  <2> QED  BY <1>2, <1>4, <2>1 DEF isAllowedTradeStatusTransition
<1>6. trade[t].status = "DEPOSIT_CONFIRMED" /\ p = "converter"
  BY <1>4, <1>5 DEF Owns, Waiting, AllowedTargets
<1>7. trade'[t].status \in {"DEPOSIT_CONFIRMED", "CONVERSION_IN_PROGRESS"}
  <2>1. PICK u : u = task[p].upd
    OBVIOUS
  <2>2. CASE OperationKey(u) \in opKeys[t]
    BY <1>1, <1>6, <2>1, <2>2, CommitWrites
  <2>3. CASE OperationKey(u) \notin opKeys[t]
    BY <1>1, <1>2, <2>1, <2>3, RowWritten DEF PromiseInv
  <2> QED  BY <2>2, <2>3
<1>8. PICK u : u = ConversionResult(task[p].upd.order, task[p].result)
  OBVIOUS
<1>9. u.to \in {"CONVERSION_COMPLETED", "DISPUTE"} /\ u.payout = NoRef
  BY <1>8 DEF ConversionResult, Update
<1>10. trade'[t].status \in Owns(p) /\ u.to # trade'[t].status
  BY <1>6, <1>7, <1>9 DEF Owns
<1> HIDE DEF t
<1> QED  BY <1>2, <1>4, <1>8, <1>9, <1>10, MovingBegins DEF t

\* A commit.
LEMMA CommitStep ==
  ASSUME IInv, PromiseInv, NEW p \in Engine, CommitUpdate(p)
  PROVE  PromiseInv'
<1>1. /\ p \in Procs /\ p \in Updaters /\ Engine \subseteq Procs /\ Listers \subseteq Engine
      /\ Listers \subseteq {"watcher", "converter", "payer"} /\ p \notin Outside
  BY EngineProcs, WhoIsWho
<1>2. StepOf(p) /\ [Next]_vars
  BY <1>1, StepIsNext DEF StepOf
<1>3. PICK t, u : t = task[p].t /\ u = task[p].upd
  OBVIOUS
<1>4. /\ t \in Trades /\ UNCHANGED envVars /\ task[p].pc = "commit"
      /\ \A q \in Procs \ {p} : task'[q] = task[q]
  BY <1>1, <1>2, <1>3, CommitWrites, OwnTask
<1>5. /\ trade \in [Trades -> Rows] /\ opKeys \in [Trades -> SUBSET Keys]
      /\ \A x \in Trades \ {t} : trade'[x] = trade[x]
      /\ \A x \in Trades : opKeys[x] \subseteq opKeys'[x]
      /\ \/ trade' = trade
         \/ OperationKey(u) \notin opKeys[t]
  <2>1. trade \in [Trades -> Rows] /\ opKeys \in [Trades -> SUBSET Keys]
    BY DEF IInv, TypeOK, StoreTypeOK
  <2>2. CASE UNCHANGED <<trade, opKeys, ledger>>
    BY <2>1, <2>2
  <2>3. CASE /\ OperationKey(u) \notin opKeys[t]
             /\ trade' = [trade EXCEPT ![t] = Written(trade[t], u)]
             /\ opKeys' = [opKeys EXCEPT ![t] = opKeys[t] \cup {OperationKey(u)}]
    BY <1>4, <2>1, <2>3
  <2> QED  BY <1>1, <1>3, <2>2, <2>3, CommitWrites
<1>6. task'[p].todo \subseteq task[p].todo
  BY <1>1, <1>2, <1>4, Todo DEF ListTrades
<1>7. ASSUME OperationKey(u) \notin opKeys[t], OnlyPipeline(t)
      PROVE  /\ PaidRow(t)' /\ trade'[t].status = u.to
             /\ Settling(p) => trade'[t].payout = trade[t].payout
             /\ \/ Moving(p)
                \/ /\ Settling(p) /\ trade[t].status = "PAYOUT_PENDING"
                   /\ u.to \in {"PAYOUT_COMPLETED", "PAYOUT_FAILED"}
  BY <1>3, <1>7, CommitMoves, RowWritten DEF PromiseInv
<1>8. OneItemEach' /\ \A x \in Trades : OnlyPipeline(x)' => OnlyPipeline(x)
  BY <1>2, NextOneItem, OnlyPipelineBefore DEF PromiseInv
<1>9. PaidRows'
  <2>1. ASSUME NEW x \in Trades, OnlyPipeline(x)' PROVE PaidRow(x)'
    <3>1. CASE trade'[x] = trade[x]
      BY <1>2, <1>5, <1>8, <2>1, <3>1, RowKept DEF PromiseInv, PaidRows
    <3> QED  BY <1>5, <1>7, <1>8, <2>1, <3>1
  <2> QED  BY <2>1 DEF PaidRows
<1>10. ItemsTrue'
  <2>1. ASSUME NEW w \in Listers, NEW i \in task[w].todo, i \in task'[w].todo,
               trade'[i.t] # trade[i.t], OnlyPipeline(i.t)'
        PROVE  /\ i.status = "PAYOUT_PENDING"
               /\ trade'[i.t].status \in Paid /\ i.ref = trade'[i.t].payout
    <3>1. i.t = t /\ OperationKey(u) \notin opKeys[t] /\ OnlyPipeline(t) /\ OnlyPipeline(i.t)
      <4>1. w \in Procs /\ i \in Items
        BY <1>1 DEF IInv, TypeOK, Tasks
      <4> QED  BY <1>4, <1>5, <1>8, <2>1, <4>1 DEF Items
    <3>2. w # p
      BY <1>3, <1>4, <2>1, <3>1 DEF PromiseInv, OwnItems
    <3>3. CASE Moving(p)
      <4>1. p \in {"watcher", "converter", "payer"} /\ trade[t].status \in Owns(p)
        BY <1>3, <3>3, EngineProcs DEF Moving
      <4>2. trade[t].status \notin Paid /\ trade[t].status \notin Owns(w)
        BY <1>1, <3>2, <4>1, OwnersApart
      <4> QED  BY <2>1, <3>1, <4>2, ItemAtHand DEF PromiseInv
    <3>4. CASE Settling(p) /\ trade[t].status = "PAYOUT_PENDING"
               /\ u.to \in {"PAYOUT_COMPLETED", "PAYOUT_FAILED"}
      <4>1. i.status = "PAYOUT_PENDING" /\ i.ref = trade[t].payout
        BY <3>1, <3>4, OwnersApart, ItemAtHand DEF PromiseInv, Paid
      <4> QED  BY <1>7, <3>1, <3>4, <4>1 DEF Paid
    <3> QED  BY <1>7, <3>1, <3>3, <3>4
  <2>2. \A w \in Listers : task'[w].todo \subseteq task[w].todo
    BY <1>1, <1>4, <1>6
  <2>3. ASSUME NEW w \in Listers, NEW i \in task'[w].todo, OnlyPipeline(i.t)'
        PROVE  ItemTrue(i)'
    <3>1. i \in task[w].todo /\ i.t \in Trades
      BY <1>1, <2>2 DEF IInv, TypeOK, Tasks, Items
    <3>2. CASE trade'[i.t] = trade[i.t]
      BY <1>8, <2>3, <3>1, <3>2 DEF PromiseInv, ItemsTrue, ItemTrue
    <3>3. CASE trade'[i.t] # trade[i.t]
      BY <2>1, <2>3, <3>1, <3>3 DEF ItemTrue
    <3> QED  BY <3>2, <3>3
  <2> QED  BY <2>2, <2>3 DEF PromiseInv, ItemsTrue
<1>11. OwnItems'
  <2>1. CASE task'[p].pc \in {"idle"}
    BY <1>1, <1>4, <2>1 DEF PromiseInv, OwnItems
  <2>2. CASE task'[p].pc # "idle"
    <3>1. task'[p].t = task[p].t
      BY <1>1, <2>2, CommitEnds, CommitGoesOn DEF GoesOn
    <3> QED  BY <1>1, <1>4, <1>6, <2>2, <3>1 DEF PromiseInv, OwnItems, CommitUpdate
  <2> QED  BY <2>1, <2>2
<1>12. ASSUME NEW q \in Engine, task'[q].pc \in {"read", "commit"}, OnlyPipeline(task[q].t)'
       PROVE  (Moving(q) \/ Settling(q))'
  <2>1. CASE q = p
    <3>1. task'[p].pc = "read" /\ task'[p].t = task[p].t
      BY <1>1, <1>12, <2>1, CommitEnds
    <3> QED  BY <1>3, <1>4, <1>8, <1>12, <2>1, <3>1, ResultMoves
  <2>2. q # p => /\ task'[q] = task[q] /\ task[q].pc \in {"read", "commit"}
                 /\ task[q].t \in Trades /\ OnlyPipeline(task[q].t) /\ q \in Procs
    BY <1>1, <1>4, <1>8, <1>12 DEF IInv, TaskSound
  <2>3. CASE q # p /\ trade'[task[q].t] = trade[task[q].t]
    BY <1>2, <2>2, <2>3, CallKept DEF PromiseInv, CallsTrue, PaidRows
  <2>4. CASE q # p /\ trade'[task[q].t] # trade[task[q].t]
    <3>1. task[q].t = t /\ OperationKey(u) \notin opKeys[t] /\ OnlyPipeline(t)
      BY <1>5, <2>2, <2>4
    <3>2. Moving(q) \/ Settling(q)
      BY <2>2, <2>4 DEF PromiseInv, CallsTrue
    <3>3. CASE Moving(p)
      <4>1. trade[t].status \notin Paid
        BY <1>3, <3>3, OwnersApart DEF Moving
      <4> QED  BY <1>3, <2>4, <3>1, <3>2, <3>3, <4>1, OneMover DEF Settling
    <3>4. CASE Settling(p) /\ trade[t].status = "PAYOUT_PENDING"
               /\ u.to \in {"PAYOUT_COMPLETED", "PAYOUT_FAILED"}
      <4>1. Settling(q)
        BY <3>1, <3>2, <3>4, OwnersApart DEF Moving, Paid
      <4>2. /\ trade'[t].status \in Paid /\ trade'[t].payout = trade[t].payout
            /\ payouts' = payouts
        BY <1>4, <1>7, <3>1, <3>4 DEF Paid, envVars
      <4>3. task[q].pc = "commit" => task[q].from = "PAYOUT_PENDING"
        BY <3>1, <3>4, <4>1 DEF Settling
      <4>4. Settling(q)'
        BY <2>2, <2>4, <3>1, <4>1, <4>2, <4>3 DEF Settling, Paid
      <4> QED  BY <4>4
    <3> QED  BY <1>7, <3>1, <3>3, <3>4
  <2> QED  BY <2>1, <2>3, <2>4
<1> QED  BY <1>8, <1>9, <1>10, <1>11, <1>12 DEF PromiseInv, CallsTrue

\* The world outside, a crash and those outside the pipeline take nothing of it away.
LEMMA NextPromise == IInv /\ OutsideCalls /\ PromiseInv /\ [Next]_vars => PromiseInv'
<1> SUFFICES ASSUME IInv, OutsideCalls, PromiseInv, [Next]_vars PROVE PromiseInv'
  OBVIOUS
<1>1. UNCHANGED storeVars => \A x \in Trades : Untouched(x)
  BY DEF storeVars, Untouched, OnlyPipeline
<1>2. CASE UNCHANGED vars \/ \E t \in Trades : EnvStep(t)
  <2>1. UNCHANGED storeVars /\ task' = task
    BY <1>2, EnvFrame DEF vars
  <2> QED  BY <1>1, <2>1, RowsStay DEF PromiseInv, ItemsTrue, OwnItems, CallsTrue
<1>3. CASE Crash
  <2>1. UNCHANGED storeVars /\ \A p \in Procs : task'[p].pc = "idle" /\ task'[p].todo = {}
    BY <1>3, FinishedParts DEF Crash
  <2>2. \A p \in Engine : task'[p].pc = "idle" /\ task'[p].todo = {}
    BY <2>1, EngineProcs
  <2> QED  BY <1>1, <2>1, <2>2, RowsStay, EngineProcs
           DEF PromiseInv, ItemsTrue, OwnItems, CallsTrue
<1>4. CASE \E p \in Procs : StepOf(p)
  <2>1. PICK p \in Procs : StepOf(p)
    BY <1>4
  <2>2. CASE p \in Outside
    <3>1. \A x \in Trades : Untouched(x)
      BY <2>1, <2>2, OutsideWrites DEF Untouched
    <3> QED  BY <2>1, <2>2, <3>1, QuietStep
  <2>3. CASE p \in Engine /\ CommitUpdate(p)
    BY <2>3, CommitStep
  <2>4. CASE p \in Engine /\ ~CommitUpdate(p)
    <3>1. UNCHANGED storeVars
      BY <2>1, <2>4, Writes, EngineProcs, WhoIsWho
    <3> QED  BY <1>1, <2>1, <2>4, <3>1, QuietStep
  <2> QED  BY <2>2, <2>3, <2>4, WhoIsWho
<1> QED  BY <1>2, <1>3, <1>4, WhoSteps

MovesOn(x) ==
  \/ trade'[x].status = trade[x].status /\ ledger'[x] = ledger[x]
  \/ Promise!Move(x, trade'[x].status)

\* What a commit of the pipeline does to its trade is a move of the state machine.
LEMMA CommitKeepsPromise ==
  ASSUME IInv, PromiseInv, NEW p \in Engine, CommitUpdate(p), NEW x \in Trades, OnlyPipeline(x)'
  PROVE  MovesOn(x)
<1> USE DEF MovesOn
<1>1. p \in Updaters /\ OnlyPipeline(x)
  BY EngineProcs, StepIsNext, OnlyPipelineBefore DEF StepOf
<1>2. PICK t, u : t = task[p].t /\ u = task[p].upd
  OBVIOUS
<1>3. /\ t \in Trades /\ u \in Updates /\ (~u.post => u.to = "DISPUTE")
      /\ trade \in [Trades -> Rows] /\ ledger \in [Trades -> [Entries -> Nat]]
  BY <1>1, <1>2, CommitWrites DEF IInv, TypeOK, StoreTypeOK
<1>4. CASE UNCHANGED <<trade, opKeys, ledger>>
  BY <1>4
<1>5. CASE /\ OperationKey(u) \notin opKeys[t]
           /\ trade' = [trade EXCEPT ![t] = Written(trade[t], u)]
           /\ ledger' = [ledger EXCEPT ![t] = postLedgerForStatusTransitionTx(ledger[t], u)]
  <2>1. CASE x # t
    BY <1>3, <1>5, <2>1
  <2>2. CASE x = t
    <3>1. u.to \in Promise!AllowedTargets([y \in Trades |-> trade[y].status][t])
      BY <1>1, <1>2, <1>3, <1>5, <2>2, CommitMoves
      DEF PromiseInv, AllowedTargets, Promise!AllowedTargets
    <3>2. [y \in Trades |-> trade'[y].status]
            = [[y \in Trades |-> trade[y].status] EXCEPT ![t] = u.to]
      BY <1>3, <1>5 DEF Written
    <3>3. \/ ledger' = [ledger EXCEPT ![t] =
                  Promise!Posting(ledger[t], Promise!LedgerFor(u.to))]
          \/ u.to = "DISPUTE" /\ ledger' = ledger
      <4>1. CASE u.post
        <5>1. postLedgerForStatusTransitionTx(ledger[t], u)
                = [e \in Entries |-> IF e \in LedgerFor(u.to) THEN ledger[t][e] + 1
                                                                ELSE ledger[t][e]]
          BY <4>1 DEF postLedgerForStatusTransitionTx
        <5>2. Promise!Posting(ledger[t], Promise!LedgerFor(u.to))
                = [e \in Entries |-> IF e \in LedgerFor(u.to) THEN ledger[t][e] + 1
                                                                ELSE ledger[t][e]]
          BY DEF Promise!Posting, Promise!LedgerFor, LedgerFor, Promise!StatusOf, StatusOf,
                 Promise!Entries, Entries
        <5> QED  BY <1>5, <5>1, <5>2
      <4>2. CASE ~u.post
        <5>1. postLedgerForStatusTransitionTx(ledger[t], u) = [e \in Entries |-> ledger[t][e]]
          BY <4>2 DEF postLedgerForStatusTransitionTx
        <5>2. ledger' = ledger
          BY <1>3, <1>5, <5>1
        <5> QED  BY <1>3, <4>2, <5>2
      <4> QED  BY <4>1, <4>2
    <3>4. trade'[x].status = u.to
      BY <1>3, <1>5, <2>2 DEF Written
    <3> QED  BY <2>2, <3>1, <3>2, <3>3, <3>4 DEF Promise!Move
  <2> QED  BY <2>1, <2>2
<1> QED  BY <1>1, <1>2, <1>4, <1>5, CommitWrites

\* PipelineKeepsPromise: in every deployment, and through crashes and lost answers, a
\* write to a trade that only watcher, conversion processor, payout processor and
\* webhook deliveries have written to is an allowed transition from the status the row
\* really has, with its posting; scanner, users and administrators may have listed or
\* read that trade, and be about to write.
THEOREM PromiseKept == Spec => PipelineKeepsPromise
<1>1. Init => OutsideCalls /\ PromiseInv
  BY InitOutside, InitPromise
<1>2. IInv /\ OutsideCalls /\ PromiseInv /\ [Next]_vars => OutsideCalls' /\ PromiseInv'
  BY NextOutside, NextPromise
<1>3. IInv /\ OutsideCalls /\ PromiseInv /\ [Next]_vars
        => [\A t \in Trades :
              OnlyPipeline(t)' => \/ trade'[t].status = trade[t].status /\ ledger'[t] = ledger[t]
                                  \/ Promise!Move(t, trade'[t].status)]_vars
  <2> SUFFICES ASSUME IInv, OutsideCalls, PromiseInv, [Next]_vars,
                      NEW t \in Trades, OnlyPipeline(t)'
               PROVE  MovesOn(t)
    BY DEF MovesOn
  <2>1. CASE UNCHANGED storeVars
    BY <2>1 DEF storeVars, MovesOn
  <2>2. CASE \E p \in Engine : CommitUpdate(p)
    BY <2>2, CommitKeepsPromise
  <2>3. CASE \E p \in Procs \cap Outside : StepOf(p)
    BY <2>3, OutsideWrites DEF MovesOn
  <2>4. \/ UNCHANGED storeVars
        \/ \E p \in Procs : StepOf(p) /\ (p \in Outside \/ CommitUpdate(p))
    BY StoreSteps DEF StepOf, Procs, Updaters, Outside
  <2> QED  BY <2>1, <2>2, <2>3, <2>4, WhoIsWho
<1> QED  BY <1>1, <1>2, <1>3, InvariantHolds, PTL DEF Spec, PipelineKeepsPromise

=============================================================================
