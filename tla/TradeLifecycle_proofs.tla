----------------------- MODULE TradeLifecycle_proofs -----------------------
(***************************************************************************)
(* Theorems about TradeLifecycle, for every set of trades, of workers and  *)
(* of requests, and every bound.                                           *)
(***************************************************************************)
EXTENDS TradeLifecycle, FiniteSetTheorems, TLAPS

-----------------------------------------------------------------------------
(***************************************************************************)
(* Operators.                                                              *)
(***************************************************************************)

\* An event that can fire leads to a status.
LEMMA FSMTargetType ==
  ASSUME NEW s, NEW e, CanFire(s, e)
  PROVE  FSMTarget(s, e) \in Statuses
<1>1. \A r \in TradeTransitions : r[3] \in Statuses
  BY DEF TradeTransitions, Statuses
<1> QED  BY <1>1 DEF CanFire, FSMTarget

\* The constructor of updates, and the parts of one that EXCEPT replaces.
LEMMA UpdateType ==
  ASSUME NEW to \in Statuses, NEW op \in OpNames, NEW ref \in Refs
  PROVE  Update(to, op, ref) \in Updates
BY DEF Update, Updates, NoRef, Refs

LEMMA NoUpdateType == NoUpdate \in Updates
BY UpdateType DEF NoUpdate, Statuses, OpNames, Refs, NoRef

LEMMA IdleType == Idle \in Tasks
BY NoUpdateType DEF Idle, Tasks, Outcomes

\* Replacing an element of a sequence, at an index or beside them, keeps its type.
LEMMA SeqExcept ==
  ASSUME NEW S, NEW seq \in Seq(S), NEW i, NEW e \in S
  PROVE  [seq EXCEPT ![i] = e] \in Seq(S)
<1>1. Len(seq) \in Nat /\ seq \in [1..Len(seq) -> S]
  OBVIOUS
<1>2. [seq EXCEPT ![i] = e] \in [1..Len(seq) -> S]
  BY <1>1
<1> QED  BY <1>1, <1>2

\* The transaction of a status change keeps the types of what it writes.
LEMMA TransactionTypes ==
  ASSUME StoreTypeOK, NEW t \in Trades, NEW row \in Rows,
         NEW from \in Statuses, NEW u \in Updates,
         updateTradeStatusTx(t, row, from, u)
  PROVE  /\ trade' \in [Trades -> Rows]
         /\ opKeys' \in [Trades -> SUBSET Keys]
         /\ ledger' \in [Trades -> [Entries -> Nat]]
         /\ history' \in [Trades -> Seq((Statuses \cup {None}) \X Statuses)]
<1>1. CASE DuplicateIgnored(t, row, u)
  BY <1>1 DEF DuplicateIgnored, StoreTypeOK
<1>2. CASE StatusWritten(t, row, from, u)
  <2>1. OperationKey(u) \in Keys
    BY DEF OperationKey, Keys, Updates
  <2>2. Written(row, u) \in Rows
    BY DEF Written, Rows, Updates
  <2>3. postLedgerForStatusTransitionTx(ledger[t], u) \in [Entries -> Nat]
    BY DEF postLedgerForStatusTransitionTx, StoreTypeOK
  <2>4. Append(history[t], <<from, u.to>>) \in Seq((Statuses \cup {None}) \X Statuses)
    BY DEF StoreTypeOK, Updates
  <2>5. opKeys' \in [Trades -> SUBSET Keys]
    BY <1>2, <2>1 DEF StatusWritten, StoreTypeOK
  <2>6. trade' \in [Trades -> Rows]
    BY <1>2, <2>2 DEF StatusWritten, StoreTypeOK
  <2>7. ledger' \in [Trades -> [Entries -> Nat]]
    BY <1>2, <2>3 DEF StatusWritten, StoreTypeOK
  <2>8. history' \in [Trades -> Seq((Statuses \cup {None}) \X Statuses)]
    BY <1>2, <2>4 DEF StatusWritten, StoreTypeOK
  <2> QED  BY <2>5, <2>6, <2>7, <2>8
<1> QED  BY <1>1, <1>2 DEF updateTradeStatusTx
-----------------------------------------------------------------------------
(***************************************************************************)
(* The inductive invariant.  A type invariant is not enough: the tasks     *)
(* carry what a later commit relies on (the transition was allowed when it *)
(* was read, and only a dispute may come without a posting), a deposit     *)
(* that was seen has a hash, and sets of keys stay finite.                 *)
(***************************************************************************)
UpdateSound(u) == u \in Updates /\ (~u.post => u.to = "DISPUTE")

TaskSound(k) ==
  /\ k \in Tasks
  /\ k.pc # "idle" => k.t \in Trades
  /\ k.pc = "commit" => /\ k.from \in Statuses
                        /\ isAllowedTradeStatusTransition(k.from, k.upd.to)
  /\ UpdateSound(k.upd)

ChainSound == \A t \in Trades : chain[t].level # "none" => chain[t].tx \in Txs

IInv ==
  /\ TypeOK
  /\ \A p \in Procs : TaskSound(task[p])
  /\ ChainSound

\* Updates are sound as they are constructed.
LEMMA SoundUpdate ==
  ASSUME NEW to \in Statuses, NEW op \in OpNames, NEW ref \in Refs
  PROVE  UpdateSound(Update(to, op, ref))
BY UpdateType DEF UpdateSound, Update

LEMMA SoundIdle == TaskSound(Idle)
<1>1. Idle \in Tasks /\ Idle.pc = "idle" /\ Idle.upd = NoUpdate
  BY IdleType DEF Idle
<1>2. UpdateSound(NoUpdate)
  BY SoundUpdate DEF NoUpdate, Statuses, OpNames, Refs, NoRef
<1> QED  BY <1>1, <1>2 DEF TaskSound

\* What a process keeps when it takes an item, calls, or ends a request.
LEMMA SoundTaken ==
  ASSUME NEW p \in Procs, TaskSound(task[p]), NEW todo \in SUBSET task[p].todo
  PROVE  TaskSound([Idle EXCEPT !.todo = todo])
<1>1. todo \in SUBSET Items
  BY DEF TaskSound, Tasks
<1>2. [Idle EXCEPT !.todo = todo] \in Tasks
  BY <1>1, IdleType DEF Tasks
<1>3. /\ [Idle EXCEPT !.todo = todo].pc = "idle"
      /\ [Idle EXCEPT !.todo = todo].upd = Idle.upd
  BY DEF Idle
<1> QED  BY <1>2, <1>3, SoundIdle DEF TaskSound

LEMMA SoundCalling ==
  ASSUME NEW p \in Procs, TaskSound(task[p]), NEW i \in task[p].todo,
         NEW u, UpdateSound(u)
  PROVE  TaskSound(Calling(p, i, u))
<1>1. i \in Items /\ i.t \in Trades
  BY DEF TaskSound, Tasks, Items
<1>2. TaskSound(Taken(p, i))
  BY SoundTaken DEF Taken
<1>3. Calling(p, i, u) \in Tasks
  BY <1>1, <1>2 DEF Calling, TaskSound, Tasks, UpdateSound
<1>4. Calling(p, i, u).pc = "read" /\ Calling(p, i, u).t = i.t /\ Calling(p, i, u).upd = u
  BY <1>2 DEF Calling, TaskSound, Tasks
<1> QED  BY <1>1, <1>3, <1>4 DEF TaskSound

\* A step of one process: its task, and the rest as typed.
LEMMA ProcessStep ==
  ASSUME IInv, NEW p \in Procs, NEW k, TaskSound(k),
         task' = [task EXCEPT ![p] = k],
         StoreTypeOK', UNCHANGED <<chain, expired>>,
         orders' \in [Trades -> Nat], payouts' \in [Trades -> Seq(PayoutStates)],
         retries' \in [Trades -> Nat],
         hookDone' \in [Trades -> SUBSET (Refs \X Statuses)], faults' \in Nat
  PROVE  IInv'
<1>1. task' \in [Procs -> Tasks]
  BY DEF IInv, TypeOK, TaskSound
<1>2. \A q \in Procs : TaskSound(task'[q])
  BY DEF IInv, TypeOK
<1>3. \A q \in Procs : /\ task'[q].pc # "idle" => task'[q].t \in Trades
                       /\ task'[q].pc = "commit" => task'[q].from \in Statuses
  BY <1>2 DEF TaskSound
<1>4. ChainSound' /\ chain' \in [Trades -> [tx : Txs \cup {None}, level : Levels]]
      /\ expired' \in [Trades -> BOOLEAN]
  BY DEF IInv, ChainSound, TypeOK
<1> QED  BY <1>1, <1>2, <1>3, <1>4 DEF IInv, TypeOK, TaskSound

\* A step of one process that leaves the database alone.
LEMMA TaskStep ==
  ASSUME IInv, NEW p \in Procs, NEW k, TaskSound(k),
         task' = [task EXCEPT ![p] = k],
         UNCHANGED <<storeVars, chain, expired>>,
         orders' \in [Trades -> Nat], payouts' \in [Trades -> Seq(PayoutStates)],
         retries' \in [Trades -> Nat],
         hookDone' \in [Trades -> SUBSET (Refs \X Statuses)], faults' \in Nat
  PROVE  IInv'
<1>1. StoreTypeOK'
  BY DEF IInv, TypeOK, StoreTypeOK, storeVars
<1> QED  BY <1>1, ProcessStep

-----------------------------------------------------------------------------
(***************************************************************************)
(* The initial states, and the steps of the world outside.                 *)
(***************************************************************************)
LEMMA InitIInv == Init => IInv
<1> SUFFICES ASSUME Init PROVE IInv
  OBVIOUS
<1>1. StoreTypeOK
  <2>1. << <<None, "PENDING_DEPOSIT">> >> \in Seq((Statuses \cup {None}) \X Statuses)
    BY DEF Statuses
  <2> QED  BY <2>1 DEF Init, StoreInit, StoreTypeOK, Rows, Statuses, NoRef
<1>2. \A p \in Procs : TaskSound(task[p])
  BY SoundIdle DEF Init
<1>3. task \in [Procs -> Tasks]
  BY IdleType DEF Init
<1>4. payouts \in [Trades -> Seq(PayoutStates)]
  BY DEF Init
<1>5. ChainSound
  BY DEF Init, ChainSound
<1>6. chain \in [Trades -> [tx : Txs \cup {None}, level : Levels]]
  BY DEF Init, Levels
<1> QED  BY <1>1, <1>2, <1>3, <1>4, <1>5, <1>6 DEF IInv, TypeOK, Init, TaskSound

LEMMA EnvIInv ==
  ASSUME IInv, NEW t \in Trades, EnvStep(t)
  PROVE  IInv'
<1> USE DEF IInv, TypeOK
<1>1. UNCHANGED <<storeVars, orders, retries, task, hookDone, faults>>
  BY DEF EnvStep, DepositSeen, DepositFinal, DepositDrops, DepositReplaced, WindowCloses,
         ProviderSettles
<1>2. StoreTypeOK'
  BY <1>1 DEF StoreTypeOK, storeVars
<1>3. CASE DepositSeen(t)
  <2>1. chain' \in [Trades -> [tx : Txs \cup {None}, level : Levels]] /\ ChainSound'
    BY <1>3 DEF DepositSeen, Levels, ChainSound
  <2> QED  BY <1>1, <1>2, <1>3, <2>1 DEF DepositSeen
<1>4. CASE DepositFinal(t)
  <2>1. chain' \in [Trades -> [tx : Txs \cup {None}, level : Levels]] /\ ChainSound'
    BY <1>4 DEF DepositFinal, Levels, ChainSound
  <2> QED  BY <1>1, <1>2, <1>4, <2>1 DEF DepositFinal
<1>5. CASE DepositDrops(t)
  <2>1. chain' \in [Trades -> [tx : Txs \cup {None}, level : Levels]] /\ ChainSound'
    BY <1>5 DEF DepositDrops, Levels, ChainSound
  <2> QED  BY <1>1, <1>2, <1>5, <2>1 DEF DepositDrops
<1>6. CASE WindowCloses(t)
  BY <1>1, <1>2, <1>6 DEF WindowCloses, ChainSound
<1>7. CASE ProviderSettles(t)
  <2>1. PICK i \in DOMAIN payouts[t], s \in {"completed", "failed"} :
         payouts' = [payouts EXCEPT ![t][i] = s]
    BY <1>7 DEF ProviderSettles
  <2>2. [payouts[t] EXCEPT ![i] = s] \in Seq(PayoutStates)
    BY SeqExcept DEF PayoutStates
  <2>3. payouts' \in [Trades -> Seq(PayoutStates)]
    BY <2>1, <2>2
  <2> QED  BY <1>1, <1>2, <1>7, <2>3 DEF ProviderSettles, ChainSound
<1>8. CASE DepositReplaced(t)
  <2>1. chain' \in [Trades -> [tx : Txs \cup {None}, level : Levels]] /\ ChainSound'
    BY <1>8 DEF DepositReplaced, Levels, ChainSound
  <2> QED  BY <1>1, <1>2, <1>8, <2>1 DEF DepositReplaced
<1> QED  BY <1>3, <1>4, <1>5, <1>6, <1>7, <1>8 DEF EnvStep

-----------------------------------------------------------------------------
(***************************************************************************)
(* The workers.                                                            *)
(***************************************************************************)
LEMMA ListIInv ==
  ASSUME IInv, NEW w \in Workers, ListTrades(w)
  PROVE  IInv'
<1>1. w \in Procs /\ w \in AllWorkers
  BY LifecycleAssumption DEF Procs
<1>2. PICK s \in Watched(w) : task' = [task EXCEPT ![w].todo =
            { [t |-> t, status |-> s, ref |-> ListedRef(w, t)] : t \in Matching(w, s) }]
  BY DEF ListTrades
<1> DEFINE todo == { [t |-> t, status |-> s, ref |-> ListedRef(w, t)] : t \in Matching(w, s) }
<1>3. s \in Statuses
  BY <1>1 DEF Watched, AllWorkers, Statuses
<1>4. todo \in SUBSET Items
  BY <1>1, <1>3 DEF Items, Matching, ListedRef, NoRef, IInv, TypeOK, StoreTypeOK, Rows
<1>5. TaskSound(task[w])
  BY <1>1 DEF IInv
<1> HIDE DEF todo
<1>6. TaskSound([task[w] EXCEPT !.todo = todo])
  BY <1>4, <1>5 DEF TaskSound, Tasks
<1>7. task' = [task EXCEPT ![w] = [task[w] EXCEPT !.todo = todo]]
  BY <1>1, <1>2 DEF IInv, TypeOK, todo
<1>8. UNCHANGED <<storeVars, envVars, retries, hookDone, faults>>
  BY DEF ListTrades
<1> QED  BY <1>1, <1>6, <1>7, <1>8, TaskStep DEF envVars, IInv, TypeOK

\* Taking an item, with or without calling UpdateTradeStatus for it.
LEMMA CallsIInv ==
  ASSUME IInv, NEW p \in Procs, NEW i \in task[p].todo,
         NEW u, UpdateSound(u), Calls(p, i, u)
  PROVE  IInv'
<1>1. TaskSound(Calling(p, i, u))
  BY SoundCalling DEF IInv
<1> QED  BY <1>1, TaskStep DEF Calls, envVars, IInv, TypeOK

LEMMA SkipsIInv ==
  ASSUME IInv, NEW p \in Procs, NEW i \in task[p].todo, Skips(p, i)
  PROVE  IInv'
<1>1. TaskSound(Taken(p, i))
  BY SoundTaken DEF IInv, Taken
<1> QED  BY <1>1, TaskStep DEF Skips, envVars, IInv, TypeOK

\* The updates of the deposit workers.
LEMMA SoundDepositUpdates ==
  ASSUME IInv, NEW t \in Trades, chain[t].level # "none", NEW op \in OpNames
  PROVE  /\ \A to \in Statuses : UpdateSound(DepositUpdate(t, to, op))
         /\ UpdateSound(DepositDispute(t, op))
<1>1. chain[t].tx \in Txs /\ chain[t].tx \in Refs
  BY DEF IInv, ChainSound, Refs
<1>2. ASSUME NEW to \in Statuses PROVE UpdateSound(DepositUpdate(t, to, op))
  <2>1. UpdateSound(Update(to, op, chain[t].tx))
    BY <1>1, SoundUpdate
  <2> QED  BY <1>1, <2>1 DEF DepositUpdate, UpdateSound, Updates
<1>3. UpdateSound(DepositUpdate(t, "DISPUTE", op))
  BY <1>2 DEF Statuses
<1>4. DepositUpdate(t, "DISPUTE", op).to = "DISPUTE"
  BY DEF DepositUpdate, Update
<1>5. UpdateSound(DepositDispute(t, op))
  BY <1>3, <1>4 DEF DepositDispute, UpdateSound, Updates
<1> QED  BY <1>2, <1>5

LEMMA WatcherIInv ==
  ASSUME IInv, "watcher" \in Workers, WatcherStep
  PROVE  IInv'
<1>1. PICK i \in task["watcher"].todo : WatcherChecks(i)
  BY DEF WatcherStep
<1>2. "watcher" \in Procs
  BY DEF Procs
<1>3. i \in Items /\ i.t \in Trades
  BY <1>2 DEF IInv, TypeOK, Tasks, Items
<1> USE <1>2, <1>3
<1>4. CASE Calls("watcher", i, Update("CANCELLED", "trade_expired", NoRef))
  <2>1. UpdateSound(Update("CANCELLED", "trade_expired", NoRef))
    BY SoundUpdate DEF Statuses, OpNames, Refs, NoRef
  <2> QED  BY <1>4, <2>1, CallsIInv
<1>5. CASE /\ LooksWrong(i.t)
           /\ Calls("watcher", i, DepositDispute(i.t, "deposit_dispute"))
  <2>1. chain[i.t].level # "none"
    BY <1>5 DEF LooksWrong
  <2>2. UpdateSound(DepositDispute(i.t, "deposit_dispute"))
    BY <2>1, SoundDepositUpdates DEF OpNames
  <2> QED  BY <1>5, <2>2, CallsIInv
<1>6. CASE /\ LooksRight(i.t) /\ CanFire(i.status, "DEPOSIT_DETECTED")
           /\ Calls("watcher", i, DepositUpdate(i.t,
                FSMTarget(i.status, "DEPOSIT_DETECTED"), "deposit_detected"))
  <2>1. chain[i.t].level # "none" /\ FSMTarget(i.status, "DEPOSIT_DETECTED") \in Statuses
    BY <1>6, FSMTargetType DEF LooksRight
  <2>2. UpdateSound(DepositUpdate(i.t, FSMTarget(i.status, "DEPOSIT_DETECTED"),
                                  "deposit_detected"))
    BY <2>1, SoundDepositUpdates DEF OpNames
  <2> QED  BY <1>6, <2>2, CallsIInv
<1>7. CASE /\ LooksRight(i.t) /\ CanFire(i.status, "DEPOSIT_CONFIRMED")
           /\ Calls("watcher", i, DepositUpdate(i.t,
                FSMTarget(i.status, "DEPOSIT_CONFIRMED"), "deposit_confirmed"))
  <2>1. chain[i.t].level # "none" /\ FSMTarget(i.status, "DEPOSIT_CONFIRMED") \in Statuses
    BY <1>7, FSMTargetType DEF LooksRight
  <2>2. UpdateSound(DepositUpdate(i.t, FSMTarget(i.status, "DEPOSIT_CONFIRMED"),
                                  "deposit_confirmed"))
    BY <2>1, SoundDepositUpdates DEF OpNames
  <2> QED  BY <1>7, <2>2, CallsIInv
<1>8. CASE Skips("watcher", i)
  BY <1>8, SkipsIInv
<1> QED  BY <1>1, <1>4, <1>5, <1>6, <1>7, <1>8 DEF WatcherChecks

LEMMA ScannerIInv ==
  ASSUME IInv, "scanner" \in Workers, ScannerStep
  PROVE  IInv'
<1>1. PICK i \in task["scanner"].todo : ScannerChecks(i)
  BY DEF ScannerStep
<1>2. "scanner" \in Procs
  BY DEF Procs
<1>3. i \in Items /\ i.t \in Trades
  BY <1>2 DEF IInv, TypeOK, Tasks, Items
<1> USE <1>2, <1>3
<1>4. CASE /\ LooksWrong(i.t) \/ LooksRight(i.t)
           /\ Calls("scanner", i, DepositDispute(i.t, "backfill_dispute"))
  <2>1. chain[i.t].level # "none"
    BY <1>4 DEF LooksWrong, LooksRight
  <2>2. UpdateSound(DepositDispute(i.t, "backfill_dispute"))
    BY <2>1, SoundDepositUpdates DEF OpNames
  <2> QED  BY <1>4, <2>2, CallsIInv
<1>5. CASE /\ LooksRight(i.t)
           /\ Calls("scanner", i, DepositUpdate(i.t, "DEPOSIT_RECEIVED",
                                                "backfill_deposit_detected"))
  <2>1. chain[i.t].level # "none"
    BY <1>5 DEF LooksRight
  <2>2. UpdateSound(DepositUpdate(i.t, "DEPOSIT_RECEIVED", "backfill_deposit_detected"))
    BY <2>1, SoundDepositUpdates DEF OpNames, Statuses
  <2> QED  BY <1>5, <2>2, CallsIInv
<1>6. CASE /\ LooksRight(i.t)
           /\ Calls("scanner", i, DepositUpdate(i.t, "DEPOSIT_CONFIRMED",
                                                "backfill_deposit_confirmed"))
  <2>1. chain[i.t].level # "none"
    BY <1>6 DEF LooksRight
  <2>2. UpdateSound(DepositUpdate(i.t, "DEPOSIT_CONFIRMED", "backfill_deposit_confirmed"))
    BY <2>1, SoundDepositUpdates DEF OpNames, Statuses
  <2> QED  BY <1>6, <2>2, CallsIInv
<1>7. CASE Skips("scanner", i)
  BY <1>7, SkipsIInv
<1> QED  BY <1>1, <1>4, <1>5, <1>6, <1>7 DEF ScannerChecks


LEMMA OrderExecutedIInv ==
  ASSUME IInv, "converter" \in Workers, NEW i \in task["converter"].todo, OrderExecuted(i)
  PROVE  IInv'
<1>1. "converter" \in Procs
  BY DEF Procs
<1>2. i.t \in Trades
  BY <1>1 DEF IInv, TypeOK, Tasks, Items
<1>3. orders' \in [Trades -> Nat] /\ orders'[i.t] \in Nat
  BY <1>2 DEF OrderExecuted, IInv, TypeOK
<1> DEFINE u == [Update("CONVERSION_IN_PROGRESS", "conversion_started", orders'[i.t])
                   EXCEPT !.order = orders'[i.t]]
<1>4. UpdateSound(u)
  <2>1. UpdateSound(Update("CONVERSION_IN_PROGRESS", "conversion_started", orders'[i.t]))
    BY <1>3, SoundUpdate DEF Statuses, OpNames, Refs
  <2> QED  BY <1>3, <2>1 DEF UpdateSound, Updates
<1>5. PICK r \in Outcomes : task' = [task EXCEPT !["converter"] =
                                       [Calling("converter", i, u) EXCEPT !.result = r]]
  BY DEF OrderExecuted
<1> HIDE DEF u
<1>6. TaskSound(Calling("converter", i, u))
  BY <1>1, <1>4, SoundCalling DEF IInv
<1>7. TaskSound([Calling("converter", i, u) EXCEPT !.result = r])
  BY <1>6 DEF TaskSound, Tasks
<1> QED  BY <1>1, <1>2, <1>3, <1>5, <1>7, TaskStep DEF OrderExecuted, IInv, TypeOK

LEMMA OrderFailsIInv ==
  ASSUME IInv, "converter" \in Workers, NEW i \in task["converter"].todo, OrderFails(i)
  PROVE  IInv'
<1>1. "converter" \in Procs
  BY DEF Procs
<1>2. i.t \in Trades
  BY <1>1 DEF IInv, TypeOK, Tasks, Items
<1>3. retries' \in [Trades -> Nat]
  <2>1. MaxAttempts \in Nat /\ retries[i.t] + 1 \in Nat
    BY <1>2, LifecycleAssumption DEF IInv, TypeOK
  <2>2. \/ retries' = [retries EXCEPT ![i.t] = retries[i.t] + 1]
        \/ retries' = [retries EXCEPT ![i.t] = MaxAttempts]
    BY DEF OrderFails
  <2> QED  BY <2>1, <2>2 DEF IInv, TypeOK
<1> DEFINE u == Update("DISPUTE", "conversion_retries_exhausted", NoRef)
<1>4. UpdateSound(u)
  BY SoundUpdate DEF Statuses, OpNames, Refs, NoRef
<1>5. \/ task' = [task EXCEPT !["converter"] = Taken("converter", i)]
      \/ task' = [task EXCEPT !["converter"] = Calling("converter", i, u)]
  BY DEF OrderFails
<1> HIDE DEF u
<1>6. TaskSound(Taken("converter", i)) /\ TaskSound(Calling("converter", i, u))
  BY <1>1, <1>4, SoundTaken, SoundCalling DEF IInv, Taken
<1>7. UNCHANGED <<storeVars, envVars, hookDone, faults>>
  BY DEF OrderFails
<1> QED  BY <1>1, <1>3, <1>5, <1>6, <1>7, TaskStep DEF envVars, IInv, TypeOK

LEMMA ConverterIInv ==
  ASSUME IInv, "converter" \in Workers, ConverterStep
  PROVE  IInv'
<1>1. PICK i \in task["converter"].todo :
        \/ OrderExecuted(i) \/ OrderAnswerLost(i) \/ OrderImpossible(i) \/ OrderFails(i)
        \/ ConversionTimesOut(i) \/ ConversionStillFresh(i)
  BY DEF ConverterStep
<1>2. "converter" \in Procs
  BY DEF Procs
<1>3. i.ref \in Int
  BY <1>2 DEF IInv, TypeOK, Tasks, Items
<1>4. CASE OrderImpossible(i)
  <2>1. UpdateSound(Update("DISPUTE", "conversion_escalation", NoRef))
    BY SoundUpdate DEF Statuses, OpNames, Refs, NoRef
  <2> QED  BY <1>2, <1>4, <2>1, CallsIInv DEF OrderImpossible
<1>5. CASE ConversionTimesOut(i)
  <2> DEFINE u == Update("DISPUTE", "conversion_reconcile_timeout", i.ref)
  <2>1. UpdateSound(u)
    BY <1>3, SoundUpdate DEF Statuses, OpNames, Refs
  <2>2. UpdateSound([u EXCEPT !.order = i.ref])
    <3> HIDE DEF u
    <3> QED  BY <1>3, <2>1 DEF UpdateSound, Updates
  <2> QED  BY <1>2, <1>5, <2>2, CallsIInv DEF ConversionTimesOut
<1>6. CASE ConversionStillFresh(i)
  BY <1>2, <1>6, SkipsIInv DEF ConversionStillFresh
<1>7. CASE OrderAnswerLost(i)
  <2>1. task' = [task EXCEPT !["converter"] = task["converter"]] /\ TaskSound(task["converter"])
    BY <1>2, <1>7 DEF OrderAnswerLost, IInv, TypeOK
  <2>2. i.t \in Trades
    BY <1>2 DEF IInv, TypeOK, Tasks, Items
  <2>3. orders' \in [Trades -> Nat] /\ faults' \in Nat
    BY <1>7, <2>2 DEF OrderAnswerLost, IInv, TypeOK
  <2> QED  BY <1>2, <1>7, <2>1, <2>3, TaskStep DEF OrderAnswerLost, IInv, TypeOK
<1> QED  BY <1>1, <1>4, <1>5, <1>6, <1>7, OrderExecutedIInv, OrderFailsIInv

\* The updates that carry a payout reference.
LEMMA SoundPayoutUpdate ==
  ASSUME NEW to \in Statuses, NEW op \in OpNames, NEW ref \in Int
  PROVE  UpdateSound(PayoutUpdate(to, op, ref))
<1>1. UpdateSound(Update(to, op, ref))
  BY SoundUpdate DEF Refs
<1> QED  BY <1>1 DEF PayoutUpdate, UpdateSound, Updates

LEMMA PayoutCreatedIInv ==
  ASSUME IInv, "payer" \in Workers, NEW i \in task["payer"].todo, PayoutCreated(i)
  PROVE  IInv'
<1>1. "payer" \in Procs
  BY DEF Procs
<1>2. i.t \in Trades
  BY <1>1 DEF IInv, TypeOK, Tasks, Items
<1>3. payouts[i.t] \in Seq(PayoutStates)
  BY <1>2 DEF IInv, TypeOK
<1>4. payouts' \in [Trades -> Seq(PayoutStates)]
  <2>1. Append(payouts[i.t], "pending") \in Seq(PayoutStates)
    BY <1>3 DEF PayoutStates
  <2> QED  BY <2>1 DEF PayoutCreated, IInv, TypeOK
<1> DEFINE u == PayoutUpdate("PAYOUT_PENDING", "payout_pending", Len(payouts[i.t]) + 1)
<1>5. UpdateSound(u)
  <2>1. Len(payouts[i.t]) + 1 \in Int
    BY <1>3
  <2> QED  BY <2>1, SoundPayoutUpdate DEF Statuses, OpNames
<1>6. TaskSound(Calling("payer", i, u))
  BY <1>1, <1>5, SoundCalling DEF IInv
<1>7. task' = [task EXCEPT !["payer"] = Calling("payer", i, u)]
  BY DEF PayoutCreated
<1> HIDE DEF u
<1> QED  BY <1>1, <1>4, <1>6, <1>7, TaskStep DEF PayoutCreated, IInv, TypeOK

LEMMA PayoutAnswerLostIInv ==
  ASSUME IInv, "payer" \in Workers, NEW i \in task["payer"].todo, PayoutAnswerLost(i)
  PROVE  IInv'
<1>1. "payer" \in Procs
  BY DEF Procs
<1>2. i.t \in Trades
  BY <1>1 DEF IInv, TypeOK, Tasks, Items
<1>3. payouts' \in [Trades -> Seq(PayoutStates)]
  <2>1. Append(payouts[i.t], "pending") \in Seq(PayoutStates)
    BY <1>2 DEF PayoutStates, IInv, TypeOK
  <2> QED  BY <2>1 DEF PayoutAnswerLost, IInv, TypeOK
<1>4. TaskSound(Taken("payer", i))
  BY <1>1, SoundTaken DEF Taken, IInv
<1>5. faults' \in Nat
  BY DEF PayoutAnswerLost, IInv, TypeOK
<1> QED  BY <1>1, <1>3, <1>4, <1>5, TaskStep DEF PayoutAnswerLost, IInv, TypeOK

LEMMA PayerIInv ==
  ASSUME IInv, "payer" \in Workers, PayerStep
  PROVE  IInv'
<1>1. PICK i \in task["payer"].todo :
        \/ PayoutCreated(i) \/ PayoutAnswerLost(i) \/ PayoutRejected(i)
        \/ PayoutReconciled(i) \/ PayoutLeft(i)
  BY DEF PayerStep
<1>2. "payer" \in Procs
  BY DEF Procs
<1>3. i.ref \in Int
  BY <1>2 DEF IInv, TypeOK, Tasks, Items
<1>4. CASE PayoutRejected(i)
  <2>1. UpdateSound(Update("PAYOUT_FAILED", "payout_failed_initiation", NoRef))
    BY SoundUpdate DEF Statuses, OpNames, Refs, NoRef
  <2> QED  BY <1>2, <1>4, <2>1, CallsIInv DEF PayoutRejected
<1>5. CASE PayoutReconciled(i)
  <2>1. /\ UpdateSound(PayoutUpdate("PAYOUT_COMPLETED", "payout_completed", i.ref))
        /\ UpdateSound(PayoutUpdate("PAYOUT_FAILED", "payout_failed", i.ref))
    BY <1>3, SoundPayoutUpdate DEF Statuses, OpNames
  <2> QED  BY <1>2, <1>5, <2>1, CallsIInv DEF PayoutReconciled
<1>6. CASE PayoutLeft(i)
  BY <1>2, <1>6, SkipsIInv DEF PayoutLeft
<1> QED  BY <1>1, <1>4, <1>5, <1>6, PayoutCreatedIInv, PayoutAnswerLostIInv

LEMMA WorkerIInv ==
  ASSUME IInv, NEW w \in Workers, WorkerStep(w)
  PROVE  IInv'
<1>1. CASE w \in {"watcher", "scanner"} /\ ExplorerFails(w)
  BY <1>1, SkipsIInv DEF ExplorerFails, Procs
<1> QED  BY <1>1, ListIInv, WatcherIInv, ScannerIInv, ConverterIInv, PayerIInv DEF WorkerStep

-----------------------------------------------------------------------------
(***************************************************************************)
(* The requests.                                                           *)
(***************************************************************************)
LEMMA HookReceivesIInv ==
  ASSUME IInv, NEW h \in Hooks, HookReceives(h)
  PROVE  IInv'
<1>1. h \in Procs
  BY DEF Procs
<1> DEFINE Received(t, ref, s) ==
             \/ /\ hookDone' = [hookDone EXCEPT ![t] = @ \cup {<<ref, s>>}]
                /\ task' = task
             \/ /\ task' = [task EXCEPT ![h] =
                     [Idle EXCEPT !.pc = "read", !.t = t,
                                  !.upd = PayoutUpdate(s, HookOp(s), ref)]]
                /\ hookDone' = hookDone
<1>2. PICK t \in Trades :
        \E ref \in DOMAIN payouts[t] : \E s \in Reported(payouts[t][ref]) : Received(t, ref, s)
  BY DEF HookReceives
<1>3. PICK ref \in DOMAIN payouts[t] :
        \E s \in Reported(payouts[t][ref]) : Received(t, ref, s)
  BY <1>2
<1>4. PICK s \in Reported(payouts[t][ref]) : Received(t, ref, s)
  BY <1>3
<1>5. s \in {"PAYOUT_PENDING", "PAYOUT_COMPLETED", "PAYOUT_FAILED"}
  BY DEF Reported
<1>6. s \in Statuses /\ HookOp(s) \in OpNames
  BY <1>5 DEF Statuses, HookOp, OpNames
<1>7. ref \in Int
  BY DEF IInv, TypeOK
<1>8. UNCHANGED <<storeVars, envVars, retries, faults>>
  BY DEF HookReceives
<1>9. CASE hookDone' = [hookDone EXCEPT ![t] = @ \cup {<<ref, s>>}] /\ task' = task
  <2>1. hookDone' \in [Trades -> SUBSET (Refs \X Statuses)]
    BY <1>6, <1>7, <1>9 DEF Refs, IInv, TypeOK
  <2>2. task' = [task EXCEPT ![h] = task[h]]
    BY <1>9 DEF IInv, TypeOK
  <2> QED  BY <1>1, <1>8, <2>1, <2>2, TaskStep DEF envVars, IInv, TypeOK
<1>10. CASE /\ task' = [task EXCEPT ![h] =
                  [Idle EXCEPT !.pc = "read", !.t = t,
                               !.upd = PayoutUpdate(s, HookOp(s), ref)]]
           /\ hookDone' = hookDone
  <2> DEFINE u == PayoutUpdate(s, HookOp(s), ref)
  <2>1. UpdateSound(u)
    BY <1>6, <1>7, SoundPayoutUpdate
  <2> HIDE DEF u
  <2>2. TaskSound([Idle EXCEPT !.pc = "read", !.t = t, !.upd = u])
    BY <2>1, IdleType DEF TaskSound, Tasks, UpdateSound
  <2> QED  BY <1>1, <1>8, <1>10, <2>2, TaskStep DEF u, envVars, IInv, TypeOK
<1> QED  BY <1>4, <1>9, <1>10

LEMMA HookMarksIInv ==
  ASSUME IInv, NEW h \in Hooks, HookMarksProcessed(h)
  PROVE  IInv'
<1>1. h \in Procs
  BY DEF Procs
<1>2. task[h].upd \in Updates /\ task[h].t \in Trades
  BY <1>1 DEF HookMarksProcessed, IInv, TaskSound, UpdateSound
<1>3. hookDone' \in [Trades -> SUBSET (Refs \X Statuses)]
  BY <1>2 DEF HookMarksProcessed, IInv, TypeOK, Updates
<1> QED  BY <1>1, <1>3, SoundIdle, TaskStep DEF HookMarksProcessed, envVars, IInv, TypeOK

LEMMA UserIInv ==
  ASSUME IInv, NEW u \in Users, UserDisputes(u)
  PROVE  IInv'
<1>1. u \in Procs
  BY DEF Procs
<1>2. PICK t \in Trades, note \in Notes :
        task' = [task EXCEPT ![u] =
          [Idle EXCEPT !.pc = "read", !.t = t,
                       !.upd = [Update("DISPUTE", "trade", NoRef) EXCEPT !.note = note]]]
  BY DEF UserDisputes
<1> DEFINE upd == Update("DISPUTE", "trade", NoRef)
<1>3. UpdateSound(upd)
  BY SoundUpdate DEF Statuses, OpNames, Refs, NoRef
<1> HIDE DEF upd
<1>4. UpdateSound([upd EXCEPT !.note = note])
  BY <1>3 DEF UpdateSound, Updates
<1>5. TaskSound([Idle EXCEPT !.pc = "read", !.t = t, !.upd = [upd EXCEPT !.note = note]])
  BY <1>4, IdleType DEF TaskSound, Tasks, UpdateSound
<1> QED  BY <1>1, <1>2, <1>5, TaskStep DEF upd, UserDisputes, envVars, IInv, TypeOK

\* The updates the resolution modes make of a row.
LEMMA SoundResolution ==
  ASSUME NEW row \in Rows, NEW mode \in ResolutionModes, NEW note \in Notes
  PROVE  UpdateSound(Resolution(row, mode, note))
<1> DEFINE ref == IF row.payout = NoRef THEN ForcedRef ELSE row.payout
           noted(to, r) == [Update(to, "trade", r) EXCEPT !.note = note]
<1>1. ref \in Int /\ NoRef \in Int
  BY DEF Rows, ForcedRef, NoRef
<1>2. ASSUME NEW to \in Statuses, NEW r \in Int
      PROVE  UpdateSound(noted(to, r))
  <2>1. UpdateSound(Update(to, "trade", r))
    BY SoundUpdate DEF OpNames, Refs
  <2> QED  BY <2>1 DEF UpdateSound, Updates
<1>3. retryStatusForTrade(row) \in Statuses
  BY DEF retryStatusForTrade, Statuses
<1>4. CASE mode = "retry_processing"
  <2>1. Resolution(row, mode, note) = noted(retryStatusForTrade(row), NoRef)
    BY <1>4 DEF Resolution
  <2> QED  BY <1>1, <1>2, <1>3, <2>1
<1>5. CASE mode = "close_no_payout"
  <2>1. Resolution(row, mode, note) = noted("DISPUTE_CLOSED", NoRef)
    BY <1>5 DEF Resolution
  <2>2. "DISPUTE_CLOSED" \in Statuses
    BY DEF Statuses
  <2> QED  BY <1>1, <1>2, <2>1, <2>2
<1>6. CASE mode = "force_complete"
  <2>1. Resolution(row, mode, note)
          = [Update("PAYOUT_COMPLETED", "trade", ref)
               EXCEPT !.note = note, !.payout = ref, !.actual = TRUE]
    BY <1>6 DEF Resolution
  <2>2. UpdateSound(Update("PAYOUT_COMPLETED", "trade", ref))
    BY <1>1, SoundUpdate DEF OpNames, Refs, Statuses
  <2> HIDE DEF ref
  <2> QED  BY <1>1, <2>1, <2>2 DEF UpdateSound, Updates
<1> QED  BY <1>4, <1>5, <1>6 DEF ResolutionModes

LEMMA AdminFindsIInv ==
  ASSUME IInv, NEW a \in Admins, AdminFindsTicket(a)
  PROVE  IInv'
<1>1. a \in Procs
  BY DEF Procs
<1>2. PICK t \in Trades : \E i \in OpenTickets(t) :
        task' = [task EXCEPT ![a] = [Idle EXCEPT !.pc = "ticket", !.t = t, !.ticket = i]]
  BY DEF AdminFindsTicket
<1>3. PICK i \in OpenTickets(t) :
        task' = [task EXCEPT ![a] = [Idle EXCEPT !.pc = "ticket", !.t = t, !.ticket = i]]
  BY <1>2
<1>4. i \in Nat
  BY DEF OpenTickets, IInv, TypeOK, StoreTypeOK
<1>5. TaskSound([Idle EXCEPT !.pc = "ticket", !.t = t, !.ticket = i])
  BY <1>4, IdleType, SoundIdle DEF TaskSound, Tasks
<1> QED  BY <1>1, <1>3, <1>5, TaskStep DEF AdminFindsTicket, envVars, IInv, TypeOK

LEMMA AdminReadsIInv ==
  ASSUME IInv, NEW a \in Admins, AdminReadsTrade(a)
  PROVE  IInv'
<1>1. a \in Procs
  BY DEF Procs
<1>2. task[a].t \in Trades /\ TaskSound(task[a])
  BY <1>1 DEF AdminReadsTrade, IInv, TaskSound
<1> DEFINE row == trade[task[a].t]
<1>3. row \in Rows
  BY <1>2 DEF IInv, TypeOK, StoreTypeOK
<1>4. PICK mode \in Modes, note \in Notes :
        \/ /\ isAllowedTradeStatusTransition(row.status, Resolution(row, mode, note).to)
           /\ task' = [task EXCEPT ![a] =
                [@ EXCEPT !.pc = "commit", !.upd = Resolution(row, mode, note),
                          !.from = row.status,
                          !.clear = (Resolution(row, mode, note).to = "CONVERSION_COMPLETED")]]
        \/ task' = [task EXCEPT ![a] = Idle]
  BY DEF AdminReadsTrade
<1> DEFINE u == Resolution(row, mode, note)
           k == [task[a] EXCEPT !.pc = "commit", !.upd = u, !.from = row.status,
                                !.clear = (u.to = "CONVERSION_COMPLETED")]
<1>5. UpdateSound(u)
  BY <1>3, LifecycleAssumption, SoundResolution
<1>6. UNCHANGED <<storeVars, envVars, retries, hookDone, faults>>
  BY DEF AdminReadsTrade
<1>7. CASE task' = [task EXCEPT ![a] = Idle]
  BY <1>1, <1>6, <1>7, SoundIdle, TaskStep DEF envVars, IInv, TypeOK
<1>8. CASE isAllowedTradeStatusTransition(row.status, u.to) /\ task' = [task EXCEPT ![a] = k]
  <2>1. row.status \in Statuses
    BY <1>3 DEF Rows
  <2> HIDE DEF row, u
  <2>2. TaskSound(k)
    BY <1>2, <1>5, <1>8, <2>1 DEF TaskSound, Tasks, UpdateSound
  <2> HIDE DEF k
  <2> QED  BY <1>1, <1>6, <1>8, <2>2, TaskStep DEF envVars, IInv, TypeOK
<1> QED  BY <1>1, <1>4, <1>7, <1>8 DEF IInv, TypeOK

-----------------------------------------------------------------------------
(***************************************************************************)
(* UpdateTradeStatus and the commits.                                      *)
(***************************************************************************)

\* What a process goes on with after an error, and after a commit.
LEMMA SoundAfter ==
  ASSUME IInv, NEW p \in Procs, task[p].pc \in {"read", "commit"}
  PROVE  /\ TaskSound(AfterError(p))
         /\ TaskSound(AfterCommit(p))
<1>1. TaskSound(task[p]) /\ task[p] \in Tasks /\ task[p].t \in Trades
  BY DEF IInv, TaskSound
<1>2. TaskSound(Finished(p))
  BY <1>1, SoundTaken DEF Finished
<1>3. TaskSound([task[p] EXCEPT !.pc = "ack"])
  BY <1>1 DEF TaskSound, Tasks
<1> DEFINE u == ConversionResult(task[p].upd.order, task[p].result)
<1>4. UpdateSound(u)
  <2>1. task[p].upd.order \in Int
    BY <1>1 DEF Tasks, Updates
  <2> DEFINE ok == Update("CONVERSION_COMPLETED", "conversion_completed", task[p].upd.order)
             bad == Update("DISPUTE", "conversion_failed_dispute", task[p].upd.order)
  <2>2. UpdateSound(ok) /\ UpdateSound(bad)
    BY <2>1, SoundUpdate DEF Statuses, OpNames, Refs
  <2>3. u \in {[ok EXCEPT !.order = task[p].upd.order], [bad EXCEPT !.order = task[p].upd.order]}
    BY DEF ConversionResult
  <2> HIDE DEF ok, bad, u
  <2> QED  BY <2>1, <2>2, <2>3 DEF UpdateSound, Updates
<1> HIDE DEF u
<1>5. TaskSound([task[p] EXCEPT !.pc = "read", !.from = None, !.upd = u])
  BY <1>1, <1>4 DEF TaskSound, Tasks, UpdateSound
<1> QED  BY <1>1, <1>2, <1>3, <1>5 DEF AfterError, AfterCommit, u, Tasks

LEMMA ReadIInv ==
  ASSUME IInv, NEW p \in Updaters, ReadTrade(p)
  PROVE  IInv'
<1>1. p \in Procs
  BY DEF Updaters, Procs
<1>2. TaskSound(task[p]) /\ task[p] \in Tasks /\ task[p].t \in Trades
  BY <1>1 DEF ReadTrade, IInv, TaskSound
<1> DEFINE from == trade[task[p].t].status
           k == [task[p] EXCEPT !.pc = "commit", !.from = from]
<1>3. from \in Statuses
  BY <1>2 DEF IInv, TypeOK, StoreTypeOK, Rows
<1>4. UNCHANGED <<storeVars, envVars, retries, hookDone, faults>>
  BY DEF ReadTrade
<1>5. CASE isAllowedTradeStatusTransition(from, task[p].upd.to)
           /\ task' = [task EXCEPT ![p].pc = "commit", ![p].from = from]
  <2>1. task' = [task EXCEPT ![p] = k]
    BY <1>1, <1>5 DEF IInv, TypeOK
  <2> HIDE DEF from
  <2>2. TaskSound(k)
    BY <1>2, <1>3, <1>5 DEF TaskSound, Tasks
  <2> HIDE DEF k
  <2> QED  BY <1>1, <1>4, <2>1, <2>2, TaskStep DEF envVars, IInv, TypeOK
<1>6. CASE task' = [task EXCEPT ![p] = AfterError(p)]
  <2>1. TaskSound(AfterError(p))
    BY <1>1, SoundAfter DEF ReadTrade
  <2> QED  BY <1>1, <1>4, <1>6, <2>1, TaskStep DEF envVars, IInv, TypeOK
<1> QED  BY <1>5, <1>6 DEF ReadTrade

\* The ticket of a dispute, found or opened.
LEMMA TicketType ==
  ASSUME StoreTypeOK, NEW t \in Trades
  PROVE  openTradeDisputeTx(t) \in Seq({"OPEN", "CLOSED"})
BY DEF openTradeDisputeTx, StoreTypeOK

LEMMA CommitIInv ==
  ASSUME IInv, NEW p \in Updaters, CommitUpdate(p)
  PROVE  IInv'
<1>1. p \in Procs
  BY DEF Updaters, Procs
<1> DEFINE t == task[p].t
           u == task[p].upd
<1>2. /\ t \in Trades /\ u \in Updates /\ task[p].from \in Statuses
      /\ trade[t] \in Rows
  BY <1>1 DEF CommitUpdate, IInv, TaskSound, UpdateSound, TypeOK, StoreTypeOK
<1>3. StoreTypeOK'
  <2>1. UpdateCommit(t, task[p].from, u)
    BY DEF CommitUpdate
  <2>2. StoreTypeOK
    BY DEF IInv, TypeOK
  <2> HIDE DEF t, u
  <2>3. disputes' \in [Trades -> Seq({"OPEN", "CLOSED"})]
    <3>1. openTradeDisputeTx(t) \in Seq({"OPEN", "CLOSED"})
      BY <1>2, <2>2, TicketType
    <3> QED  BY <1>2, <2>1, <2>2, <3>1 DEF UpdateCommit, StoreTypeOK
  <2> QED  BY <1>2, <2>1, <2>2, <2>3, TransactionTypes DEF UpdateCommit, StoreTypeOK
<1>4. TaskSound(AfterCommit(p))
  BY <1>1, SoundAfter DEF CommitUpdate
<1>5. retries' \in [Trades -> Nat]
  BY <1>2 DEF CommitUpdate, IInv, TypeOK
<1>6. task' = [task EXCEPT ![p] = AfterCommit(p)] /\ UNCHANGED <<envVars, hookDone, faults>>
  BY DEF CommitUpdate
<1> QED  BY <1>1, <1>3, <1>4, <1>5, <1>6, ProcessStep DEF envVars, IInv, TypeOK

LEMMA AdminCommitsIInv ==
  ASSUME IInv, NEW a \in Admins, AdminCommits(a)
  PROVE  IInv'
<1>1. a \in Procs
  BY DEF Procs
<1> DEFINE t == task[a].t
           u == task[a].upd
           row == IF task[a].clear THEN [trade[t] EXCEPT !.payout = NoRef] ELSE trade[t]
<1>2. /\ t \in Trades /\ u \in Updates /\ task[a].from \in Statuses
      /\ trade[t] \in Rows
  BY <1>1 DEF AdminCommits, IInv, TaskSound, UpdateSound, TypeOK, StoreTypeOK
<1>3. row \in Rows
  BY <1>2 DEF Rows, NoRef
<1>4. StoreTypeOK
  BY DEF IInv, TypeOK
<1>5. /\ updateTradeStatusTx(t, row, task[a].from, u)
      /\ disputes' = [disputes EXCEPT ![t][task[a].ticket] = "CLOSED"]
  BY DEF AdminCommits, ResolveCommit, closeTradeDisputeTx
<1>6. StoreTypeOK'
  <2> HIDE DEF t, u, row
  <2>1. [disputes[t] EXCEPT ![task[a].ticket] = "CLOSED"] \in Seq({"OPEN", "CLOSED"})
    BY <1>2, <1>4, SeqExcept DEF StoreTypeOK
  <2>2. disputes' \in [Trades -> Seq({"OPEN", "CLOSED"})]
    BY <1>2, <1>4, <1>5, <2>1 DEF StoreTypeOK
  <2> QED  BY <1>2, <1>3, <1>4, <1>5, <2>2, TransactionTypes DEF StoreTypeOK
<1>7. task' = [task EXCEPT ![a] = Idle] /\ UNCHANGED <<envVars, retries, hookDone, faults>>
  BY DEF AdminCommits
<1> QED  BY <1>1, <1>6, <1>7, SoundIdle, ProcessStep DEF envVars, IInv, TypeOK

LEMMA CommitFailsIInv ==
  ASSUME IInv, NEW p \in Procs, CommitFails(p) \/ PostingFails(p)
  PROVE  IInv'
<1>1. TaskSound(AfterError(p))
  BY SoundAfter DEF CommitFails, PostingFails
<1>2. faults' \in Nat
  BY DEF CommitFails, PostingFails, IInv, TypeOK
<1> QED  BY <1>1, <1>2, TaskStep DEF CommitFails, PostingFails, envVars, IInv, TypeOK

LEMMA CrashIInv == IInv /\ Crash => IInv'
<1> SUFFICES ASSUME IInv, Crash PROVE IInv'
  OBVIOUS
<1>1. StoreTypeOK' /\ ChainSound'
  BY DEF Crash, IInv, TypeOK, StoreTypeOK, storeVars, envVars, ChainSound
<1>2. \A p \in Procs : TaskSound(task'[p])
  BY SoundIdle DEF Crash
<1>3. task' \in [Procs -> Tasks]
  BY IdleType DEF Crash
<1>4. retries' \in [Trades -> Nat] /\ faults' \in Nat
  BY DEF Crash, IInv, TypeOK
<1>5. UNCHANGED <<envVars, hookDone>>
  BY DEF Crash
<1> QED  BY <1>1, <1>2, <1>3, <1>4, <1>5 DEF IInv, TypeOK, envVars, TaskSound

-----------------------------------------------------------------------------
\* The invariant is inductive.
LEMMA NextIInv == IInv /\ [Next]_vars => IInv'
<1> SUFFICES ASSUME IInv, [Next]_vars PROVE IInv'
  OBVIOUS
<1>1. CASE UNCHANGED vars
  BY <1>1 DEF vars, storeVars, envVars, IInv, TypeOK, StoreTypeOK, ChainSound
<1>2. CASE \E t \in Trades : EnvStep(t)
  BY <1>2, EnvIInv
<1>3. CASE \E w \in Workers : WorkerStep(w)
  BY <1>3, WorkerIInv
<1>4. CASE \E h \in Hooks : HookReceives(h) \/ HookMarksProcessed(h)
  BY <1>4, HookReceivesIInv, HookMarksIInv
<1>5. CASE \E u \in Users : UserDisputes(u)
  BY <1>5, UserIInv
<1>6. CASE \E a \in Admins : AdminFindsTicket(a) \/ AdminReadsTrade(a) \/ AdminCommits(a)
  BY <1>6, AdminFindsIInv, AdminReadsIInv, AdminCommitsIInv
<1>7. CASE \E p \in Updaters : ReadTrade(p) \/ CommitUpdate(p)
  BY <1>7, ReadIInv, CommitIInv
<1>8. CASE \E p \in Procs : CommitFails(p) \/ PostingFails(p)
  BY <1>8, CommitFailsIInv
<1>9. CASE Crash
  BY <1>9, CrashIInv
<1> QED  BY <1>1, <1>2, <1>3, <1>4, <1>5, <1>6, <1>7, <1>8, <1>9 DEF Next

\* In every reachable state the invariant holds, whatever workers, requests and
\* bounds the deployment has.
THEOREM InvariantHolds == Spec => []IInv
BY InitIInv, NextIInv, PTL DEF Spec

\* Every variable keeps its type (TypeOK), through all races and crashes.
THEOREM TypeCorrect == Spec => []TypeOK
<1>1. IInv => TypeOK
  BY DEF IInv
<1> QED  BY <1>1, InvariantHolds, PTL

-----------------------------------------------------------------------------
(***************************************************************************)
(* What the transaction of TradeStore keeps of the ledger, the history and *)
(* the tickets.  All of it follows from one lemma: a step writes to the    *)
(* database only as one transaction of one task, whose transition was      *)
(* allowed when it was read.                                               *)
(***************************************************************************)
\* What one committed transaction writes: the row seen may already have lost its
\* payout reference; the tickets are those of a dispute or of a resolution.
Transaction(t, row, from, u) ==
  /\ t \in Trades /\ row \in Rows /\ from \in Statuses /\ UpdateSound(u)
  /\ row.status = trade[t].status /\ row.tx = trade[t].tx
  /\ row.payout \in {trade[t].payout, NoRef}
  /\ isAllowedTradeStatusTransition(from, u.to)
  /\ updateTradeStatusTx(t, row, from, u)
  /\ \/ disputes' = IF u.to = "DISPUTE" /\ Reserves(t, u)
                      THEN [disputes EXCEPT ![t] = openTradeDisputeTx(t)] ELSE disputes
     \/ \E i \in Nat : disputes' = [disputes EXCEPT ![t][i] = "CLOSED"]

\* The update of a worker, a delivery or a user is a transaction.
LEMMA CommitIsTransaction ==
  ASSUME IInv, NEW p \in Updaters, CommitUpdate(p)
  PROVE  Transaction(task[p].t, trade[task[p].t], task[p].from, task[p].upd)
<1>1. p \in Procs
  BY DEF Updaters, Procs
<1>2. /\ task[p].t \in Trades /\ task[p].from \in Statuses /\ UpdateSound(task[p].upd)
      /\ isAllowedTradeStatusTransition(task[p].from, task[p].upd.to)
  BY <1>1 DEF CommitUpdate, IInv, TaskSound
<1>3. trade[task[p].t] \in Rows
  BY <1>2 DEF IInv, TypeOK, StoreTypeOK
<1> QED  BY <1>2, <1>3 DEF CommitUpdate, UpdateCommit, Transaction

\* So is the resolution of an administrator.
LEMMA ResolutionIsTransaction ==
  ASSUME IInv, NEW a \in Admins, AdminCommits(a)
  PROVE  \E row \in Rows : Transaction(task[a].t, row, task[a].from, task[a].upd)
<1>1. a \in Procs
  BY DEF Procs
<1>2. /\ task[a].t \in Trades /\ task[a].from \in Statuses /\ UpdateSound(task[a].upd)
      /\ isAllowedTradeStatusTransition(task[a].from, task[a].upd.to)
      /\ task[a].ticket \in Nat
  BY <1>1 DEF AdminCommits, IInv, TaskSound, Tasks
<1>3. trade[task[a].t] \in Rows
  BY <1>2 DEF IInv, TypeOK, StoreTypeOK
<1> DEFINE row == IF task[a].clear THEN [trade[task[a].t] EXCEPT !.payout = NoRef]
                                   ELSE trade[task[a].t]
<1>4. /\ row \in Rows /\ row.status = trade[task[a].t].status
      /\ row.tx = trade[task[a].t].tx /\ row.payout \in {trade[task[a].t].payout, NoRef}
  BY <1>3 DEF Rows, NoRef
<1>5. /\ updateTradeStatusTx(task[a].t, row, task[a].from, task[a].upd)
      /\ disputes' = [disputes EXCEPT ![task[a].t][task[a].ticket] = "CLOSED"]
  BY DEF AdminCommits, ResolveCommit, closeTradeDisputeTx
<1> HIDE DEF row
<1> QED  BY <1>2, <1>4, <1>5 DEF Transaction

\* The steps of process p itself.
StepOf(p) ==
  \/ p \in Workers /\ WorkerStep(p)
  \/ p \in Hooks /\ (HookReceives(p) \/ HookMarksProcessed(p))
  \/ p \in Users /\ UserDisputes(p)
  \/ p \in Admins /\ (AdminFindsTicket(p) \/ AdminReadsTrade(p) \/ AdminCommits(p))
  \/ p \in Updaters /\ (ReadTrade(p) \/ CommitUpdate(p))
  \/ CommitFails(p) \/ PostingFails(p)

\* Besides them there are the world outside and a crash.
LEMMA WhoSteps ==
  ASSUME [Next]_vars
  PROVE  \/ UNCHANGED vars
         \/ \E t \in Trades : EnvStep(t)
         \/ Crash
         \/ \E p \in Procs : StepOf(p)
BY DEF Next, StepOf, Procs, Updaters

\* A step of a process leaves the tasks of the others alone.
LEMMA OwnTask ==
  ASSUME IInv, NEW p \in Procs, StepOf(p)
  PROVE  /\ task' = [task EXCEPT ![p] = task'[p]]
         /\ \A q \in Procs \ {p} : task'[q] = task[q]
<1> SUFFICES \E k : task' = [task EXCEPT ![p] = k]
  BY DEF IInv, TypeOK
<1>1. task = [task EXCEPT ![p] = task[p]]
  BY DEF IInv, TypeOK
<1>2. CASE WorkerStep(p)
  <2>1. CASE ListTrades(p)
    <3>1. PICK todo : task' = [task EXCEPT ![p].todo = todo]
      BY <2>1 DEF ListTrades
    <3>2. task' = [task EXCEPT ![p] = [task[p] EXCEPT !.todo = todo]]
      BY <3>1 DEF IInv, TypeOK
    <3> QED  BY <3>2
  <2>2. CASE p = "watcher" /\ WatcherStep
    BY <2>2 DEF WatcherStep, WatcherChecks, Calls, Skips
  <2>3. CASE p = "scanner" /\ ScannerStep
    BY <2>3 DEF ScannerStep, ScannerChecks, Calls, Skips
  <2>4. CASE ExplorerFails(p)
    BY <2>4 DEF ExplorerFails, Skips
  <2>5. CASE p = "converter" /\ ConverterStep
    BY <1>1, <2>5 DEF ConverterStep, OrderExecuted, OrderAnswerLost, OrderImpossible,
                      OrderFails, ConversionTimesOut, ConversionStillFresh, Calls, Skips
  <2>6. CASE p = "payer" /\ PayerStep
    BY <2>6 DEF PayerStep, PayoutCreated, PayoutAnswerLost, PayoutRejected,
                PayoutReconciled, PayoutLeft, Calls, Skips
  <2> QED  BY <1>2, <2>1, <2>2, <2>3, <2>4, <2>5, <2>6 DEF WorkerStep
<1>3. CASE HookReceives(p) \/ HookMarksProcessed(p)
  BY <1>1, <1>3 DEF HookReceives, HookMarksProcessed
<1>4. CASE UserDisputes(p)
  BY <1>4 DEF UserDisputes
<1>5. CASE AdminFindsTicket(p) \/ AdminReadsTrade(p) \/ AdminCommits(p)
  BY <1>5 DEF AdminFindsTicket, AdminReadsTrade, AdminCommits
<1>6. CASE ReadTrade(p)
  <2>1. ASSUME NEW s, task' = [task EXCEPT ![p].pc = "commit", ![p].from = s]
        PROVE  task' = [task EXCEPT ![p] = [task[p] EXCEPT !.pc = "commit", !.from = s]]
    BY <2>1 DEF IInv, TypeOK
  <2> QED  BY <1>6, <2>1 DEF ReadTrade
<1>7. CASE CommitUpdate(p) \/ CommitFails(p) \/ PostingFails(p)
  BY <1>7 DEF CommitUpdate, CommitFails, PostingFails
<1> QED  BY <1>2, <1>3, <1>4, <1>5, <1>6, <1>7 DEF StepOf

\* Nothing but the two commits writes to the database.
LEMMA StoreSteps ==
  ASSUME [Next]_vars
  PROVE  \/ UNCHANGED storeVars
         \/ \E p \in Updaters : CommitUpdate(p)
         \/ \E a \in Admins : AdminCommits(a)
<1>1. CASE UNCHANGED vars \/ Crash
  BY <1>1 DEF vars, Crash
<1>2. CASE \E t \in Trades : EnvStep(t)
  BY <1>2 DEF EnvStep, DepositSeen, DepositFinal, DepositDrops, DepositReplaced,
              WindowCloses, ProviderSettles
<1>3. CASE \E p \in Procs : StepOf(p)
  <2>1. PICK p \in Procs : StepOf(p)
    BY <1>3
  <2>2. CASE ListTrades(p) \/ ExplorerFails(p)
    BY <2>2 DEF ListTrades, ExplorerFails, Skips
  <2>3. CASE WatcherStep
    BY <2>3 DEF WatcherStep, WatcherChecks, Calls, Skips
  <2>4. CASE ScannerStep
    BY <2>4 DEF ScannerStep, ScannerChecks, Calls, Skips
  <2>5. CASE ConverterStep
    BY <2>5 DEF ConverterStep, OrderExecuted, OrderAnswerLost, OrderImpossible, OrderFails,
                ConversionTimesOut, ConversionStillFresh, Calls, Skips
  <2>6. CASE PayerStep
    BY <2>6 DEF PayerStep, PayoutCreated, PayoutAnswerLost, PayoutRejected,
                PayoutReconciled, PayoutLeft, Calls, Skips
  <2>7. CASE HookReceives(p) \/ HookMarksProcessed(p) \/ UserDisputes(p)
             \/ AdminFindsTicket(p) \/ AdminReadsTrade(p)
    BY <2>7 DEF HookReceives, HookMarksProcessed, UserDisputes, AdminFindsTicket,
                AdminReadsTrade
  <2>8. CASE ReadTrade(p) \/ CommitFails(p) \/ PostingFails(p)
    BY <2>8 DEF ReadTrade, CommitFails, PostingFails
  <2> QED  BY <2>1, <2>2, <2>3, <2>4, <2>5, <2>6, <2>7, <2>8 DEF StepOf, WorkerStep
<1> QED  BY <1>1, <1>2, <1>3, WhoSteps

LEMMA StoreTransactions ==
  ASSUME IInv, [Next]_vars
  PROVE  \/ UNCHANGED storeVars
         \/ \E t \in Trades, row \in Rows, from \in Statuses, u \in Updates :
              Transaction(t, row, from, u)
<1>1. CASE \E p \in Updaters : CommitUpdate(p)
  <2>1. PICK p \in Updaters : CommitUpdate(p)
    BY <1>1
  <2> QED  BY <2>1, CommitIsTransaction DEF Transaction, UpdateSound
<1>2. CASE \E a \in Admins : AdminCommits(a)
  BY <1>2, ResolutionIsTransaction DEF Transaction, UpdateSound
<1> QED  BY <1>1, <1>2, StoreSteps

-----------------------------------------------------------------------------
(***************************************************************************)
(* The status history.                                                     *)
(***************************************************************************)
HistoryInv == AuditTrailCurrent /\ AuditTrailAllowed

LEMMA InitHistory == Init => HistoryInv
BY DEF Init, StoreInit, HistoryInv, AuditTrailCurrent, AuditTrailAllowed

LEMMA TransactionHistory ==
  ASSUME IInv, HistoryInv, NEW t \in Trades, NEW row, NEW from, NEW u,
         Transaction(t, row, from, u)
  PROVE  HistoryInv'
<1>1. /\ trade \in [Trades -> Rows]
      /\ history \in [Trades -> Seq((Statuses \cup {None}) \X Statuses)]
  BY DEF IInv, TypeOK, StoreTypeOK
<1>2. CASE DuplicateIgnored(t, row, u)
  <2>1. history' = history /\ \A x \in Trades : trade'[x].status = trade[x].status
    BY <1>1, <1>2 DEF DuplicateIgnored, Transaction
  <2> QED  BY <2>1 DEF HistoryInv, AuditTrailCurrent, AuditTrailAllowed
<1>3. CASE StatusWritten(t, row, from, u)
  <2>1. /\ history' = [history EXCEPT ![t] = Append(history[t], <<from, u.to>>)]
        /\ trade'[t].status = u.to
        /\ \A x \in Trades \ {t} : trade'[x] = trade[x] /\ history'[x] = history[x]
    BY <1>1, <1>3 DEF StatusWritten, Written
  <2>2. ASSUME NEW x \in Trades
        PROVE  /\ history'[x] # <<>>
               /\ history'[x][Len(history'[x])][2] = trade'[x].status
               /\ \A i \in 2..Len(history'[x]) :
                    isAllowedTradeStatusTransition(history'[x][i][1], history'[x][i][2])
    <3>1. CASE x # t
      BY <2>1, <3>1 DEF HistoryInv, AuditTrailCurrent, AuditTrailAllowed
    <3>2. CASE x = t
      <4> DEFINE old == history[t]
                 new == history'[t]
      <4>1. Len(new) = Len(old) + 1 /\ new[Len(new)] = <<from, u.to>>
            /\ \A i \in 1..Len(old) : new[i] = old[i]
        BY <1>1, <2>1
      <4>2. \A i \in 2..Len(old) : isAllowedTradeStatusTransition(old[i][1], old[i][2])
        BY DEF HistoryInv, AuditTrailAllowed
      <4>3. isAllowedTradeStatusTransition(from, u.to)
        BY DEF Transaction
      <4>4. Len(old) \in Nat
        BY <1>1
      <4> HIDE DEF old
      <4>5. new # <<>>
        BY <4>1, <4>4
      <4>6. ASSUME NEW i \in 2..Len(new)
            PROVE  isAllowedTradeStatusTransition(new[i][1], new[i][2])
        <5>1. CASE i = Len(new)
          BY <4>1, <4>3, <5>1
        <5>2. CASE i # Len(new)
          BY <4>1, <4>2, <4>4, <5>2
        <5> QED  BY <5>1, <5>2
      <4> QED  BY <2>1, <3>2, <4>1, <4>5, <4>6
    <3> QED  BY <3>1, <3>2
  <2> QED  BY <2>2 DEF HistoryInv, AuditTrailCurrent, AuditTrailAllowed
<1> QED  BY <1>2, <1>3 DEF Transaction, updateTradeStatusTx

\* Both parts of the history are kept, through all races and crashes.
LEMMA HistoryKept == Spec => []HistoryInv
<1>1. IInv /\ HistoryInv /\ [Next]_vars => HistoryInv'
  <2> SUFFICES ASSUME IInv, HistoryInv, [Next]_vars PROVE HistoryInv'
    OBVIOUS
  <2>1. CASE UNCHANGED storeVars
    BY <2>1 DEF storeVars, HistoryInv, AuditTrailCurrent, AuditTrailAllowed
  <2> QED  BY <2>1, StoreTransactions, TransactionHistory
<1> QED  BY <1>1, InitHistory, InvariantHolds, PTL DEF Spec

\* The history of a trade ends with its current status (AuditTrailCurrent), also
\* when two writers overwrite each other.
THEOREM HistoryCorrect == Spec => []AuditTrailCurrent
<1>1. HistoryInv => AuditTrailCurrent
  BY DEF HistoryInv
<1> QED  BY <1>1, HistoryKept, PTL

\* Each later row of it is a transition the service allows, from the status its
\* writer had read, which need not be the one it overwrote (AuditTrailAllowed).
THEOREM HistoryAllowed == Spec => []AuditTrailAllowed
<1>1. HistoryInv => AuditTrailAllowed
  BY DEF HistoryInv
<1> QED  BY <1>1, HistoryKept, PTL

-----------------------------------------------------------------------------
(***************************************************************************)
(* The ledger and the operation keys.                                      *)
(***************************************************************************)

\* A transaction that changes anything reserves one new key, and what it posts is
\* the group of entries of that key's scope, unless it is an unposted dispute.
LEMMA TransactionKeys ==
  ASSUME IInv, NEW t \in Trades, NEW row, NEW from, NEW u, Transaction(t, row, from, u)
  PROVE  \/ UNCHANGED <<opKeys, ledger>>
         \/ /\ OperationKey(u) \notin opKeys[t]
            /\ opKeys' = [opKeys EXCEPT ![t] = @ \cup {OperationKey(u)}]
            /\ \/ ledger' = [ledger EXCEPT ![t] =
                    [e \in Entries |-> IF e \in LedgerFor(OperationKey(u).scope)
                                         THEN ledger[t][e] + 1 ELSE ledger[t][e]]]
               \/ OperationKey(u).scope = "DISPUTE" /\ ledger' = ledger
<1>1. CASE DuplicateIgnored(t, row, u)
  BY <1>1 DEF DuplicateIgnored
<1>2. CASE StatusWritten(t, row, from, u)
  <2>1. /\ OperationKey(u) \notin opKeys[t]
        /\ opKeys' = [opKeys EXCEPT ![t] = @ \cup {OperationKey(u)}]
        /\ ledger' = [ledger EXCEPT ![t] = postLedgerForStatusTransitionTx(@, u)]
    BY <1>2 DEF StatusWritten, Reserves
  <2>2. OperationKey(u).scope = u.to
    BY DEF OperationKey
  <2>3. ledger \in [Trades -> [Entries -> Nat]]
    BY DEF IInv, TypeOK, StoreTypeOK
  <2>4. CASE u.post
    <3>1. postLedgerForStatusTransitionTx(ledger[t], u)
            = [e \in Entries |-> IF e \in LedgerFor(u.to) THEN ledger[t][e] + 1
                                                            ELSE ledger[t][e]]
      BY <2>4 DEF postLedgerForStatusTransitionTx
    <3> QED  BY <2>1, <2>2, <2>3, <3>1
  <2>5. CASE ~u.post
    <3>1. u.to = "DISPUTE"
      BY <2>5 DEF Transaction, UpdateSound
    <3>2. postLedgerForStatusTransitionTx(ledger[t], u) = [e \in Entries |-> ledger[t][e]]
      BY <2>5 DEF postLedgerForStatusTransitionTx
    <3>3. ledger' = ledger
      BY <2>1, <2>3, <3>2
    <3> QED  BY <2>1, <2>2, <3>1, <3>3
  <2> QED  BY <2>4, <2>5
<1> QED  BY <1>1, <1>2 DEF Transaction, updateTradeStatusTx

\* Any deployment keeps the once-only promise of the table of operation keys
\* (KeepsOnceOnly): it implements OnceOnlyLedger.
THEOREM OnceOnlyKept == Spec => KeepsOnceOnly
<1>1. Init => OnceOnly!Init
  BY DEF Init, StoreInit, OnceOnly!Init, Entries, OnceOnly!Entries
<1>2. IInv /\ [Next]_vars => [OnceOnly!Next]_<<opKeys, ledger>>
  <2> SUFFICES ASSUME IInv, [Next]_vars PROVE [OnceOnly!Next]_<<opKeys, ledger>>
    OBVIOUS
  <2>1. CASE UNCHANGED storeVars
    BY <2>1 DEF storeVars
  <2>2. CASE \E t \in Trades, row \in Rows, from \in Statuses, u \in Updates :
               Transaction(t, row, from, u)
    <3>1. PICK t \in Trades, row \in Rows, from \in Statuses, u \in Updates :
            Transaction(t, row, from, u)
      BY <2>2
    <3> DEFINE k == OperationKey(u)
    <3>2. CASE UNCHANGED <<opKeys, ledger>>
      BY <3>2
    <3>3. CASE /\ k \notin opKeys[t]
               /\ opKeys' = [opKeys EXCEPT ![t] = @ \cup {k}]
               /\ \/ ledger' = [ledger EXCEPT ![t] =
                       [e \in Entries |-> IF e \in LedgerFor(k.scope)
                                            THEN ledger[t][e] + 1 ELSE ledger[t][e]]]
                  \/ k.scope = "DISPUTE" /\ ledger' = ledger
      <4> HIDE DEF k
      <4>1. OnceOnly!Posting(ledger[t], OnceOnly!LedgerFor(k.scope))
              = [e \in Entries |-> IF e \in LedgerFor(k.scope)
                                     THEN ledger[t][e] + 1 ELSE ledger[t][e]]
        BY DEF OnceOnly!Posting, OnceOnly!LedgerFor, LedgerFor, OnceOnly!StatusOf,
               StatusOf, OnceOnly!Entries, Entries
      <4>2. OnceOnly!Use(t, k)
        BY <3>3, <4>1 DEF OnceOnly!Use
      <4>3. opKeys \in [Trades -> SUBSET Keys]
        BY DEF IInv, TypeOK, StoreTypeOK
      <4>4. k \in opKeys'[t]
        BY <3>3, <4>3
      <4> QED  BY <4>2, <4>4 DEF OnceOnly!Next
    <3> QED  BY <3>1, <3>2, <3>3, TransactionKeys
  <2> QED  BY <2>1, <2>2, StoreTransactions
<1> QED  BY <1>1, <1>2, InvariantHolds, PTL DEF Spec, KeepsOnceOnly, OnceOnly!Spec

\* For the postings to be counted, the keys must be finitely many.
KeysInv ==
  /\ \A t \in Trades : IsFiniteSet(opKeys[t])
  /\ PostedOncePerKey

LEMMA InitKeys == Init => KeysInv
<1> SUFFICES ASSUME Init PROVE KeysInv
  OBVIOUS
<1>1. ASSUME NEW t \in Trades
      PROVE  opKeys[t] = {} /\ \A e \in Entries : ledger[t][e] = 0 /\ KeysOf(t, StatusOf(e)) = {}
  BY DEF Init, StoreInit, KeysOf
<1> QED  BY <1>1, FS_EmptySet DEF KeysInv, PostedOncePerKey

\* The keys of one scope.
Scoped(keys, s) == { k \in keys : k.scope = s }

\* One more key is one more key of its scope, and of no other.
LEMMA KeyAdded ==
  ASSUME NEW keys, IsFiniteSet(keys), NEW k, k \notin keys, NEW s
  PROVE  /\ IsFiniteSet(keys \cup {k})
         /\ Cardinality(Scoped(keys, s)) \in Nat
         /\ Cardinality(Scoped(keys \cup {k}, s))
              = IF k.scope = s THEN Cardinality(Scoped(keys, s)) + 1
                               ELSE Cardinality(Scoped(keys, s))
<1>1. IsFiniteSet(Scoped(keys, s)) /\ Cardinality(Scoped(keys, s)) \in Nat
  BY FS_Subset, FS_CardinalityType DEF Scoped
<1>2. IsFiniteSet(keys \cup {k})
  BY FS_AddElement
<1>3. Scoped(keys \cup {k}, s) = IF k.scope = s THEN Scoped(keys, s) \cup {k} ELSE Scoped(keys, s)
  BY DEF Scoped
<1>4. k \notin Scoped(keys, s)
  BY DEF Scoped
<1> QED  BY <1>1, <1>2, <1>3, <1>4, FS_AddElement

LEMMA TransactionPosts ==
  ASSUME IInv, KeysInv, NEW t \in Trades, NEW row, NEW from, NEW u,
         Transaction(t, row, from, u)
  PROVE  KeysInv'
<1> DEFINE k == OperationKey(u)
<1>1. /\ opKeys \in [Trades -> SUBSET Keys] /\ ledger \in [Trades -> [Entries -> Nat]]
      /\ \A x \in Trades : IsFiniteSet(opKeys[x])
  BY DEF IInv, TypeOK, StoreTypeOK, KeysInv
<1>2. CASE UNCHANGED <<opKeys, ledger>>
  BY <1>2 DEF KeysInv, PostedOncePerKey, KeysOf
<1>3. CASE /\ k \notin opKeys[t]
           /\ opKeys' = [opKeys EXCEPT ![t] = @ \cup {k}]
           /\ \/ ledger' = [ledger EXCEPT ![t] =
                   [e \in Entries |-> IF e \in LedgerFor(k.scope)
                                        THEN ledger[t][e] + 1 ELSE ledger[t][e]]]
              \/ k.scope = "DISPUTE" /\ ledger' = ledger
  <2> HIDE DEF k
  <2>1. \A x \in Trades : IsFiniteSet(opKeys'[x])
    <3>1. IsFiniteSet(opKeys[t] \cup {k})
      BY <1>1, <1>3, KeyAdded
    <3>2. opKeys' = [opKeys EXCEPT ![t] = opKeys[t] \cup {k}]
      BY <1>3
    <3> QED  BY <1>1, <3>1, <3>2
  <2>2. ASSUME NEW x \in Trades, NEW e \in Entries
        PROVE  IF e = "DISPUTE_ADJUSTMENT"
                 THEN ledger'[x][e] <= Cardinality(Scoped(opKeys'[x], StatusOf(e)))
                 ELSE ledger'[x][e] = Cardinality(Scoped(opKeys'[x], StatusOf(e)))
    <3> DEFINE old == Cardinality(Scoped(opKeys[x], StatusOf(e)))
               new == Cardinality(Scoped(opKeys'[x], StatusOf(e)))
    <3>1. old \in Nat /\ new = IF x = t /\ k.scope = StatusOf(e) THEN old + 1 ELSE old
      <4>1. opKeys'[x] = IF x = t THEN opKeys[t] \cup {k} ELSE opKeys[x]
        BY <1>1, <1>3
      <4>2. IsFiniteSet(opKeys[t]) /\ IsFiniteSet(opKeys[x]) /\ k \notin opKeys[t]
        BY <1>1, <1>3
      <4>3. CASE x = t
        BY <4>1, <4>2, <4>3, KeyAdded
      <4>4. CASE x # t
        <5>1. IsFiniteSet(Scoped(opKeys[x], StatusOf(e)))
          BY <4>2, FS_Subset DEF Scoped
        <5> QED  BY <4>1, <4>4, <5>1, FS_CardinalityType
      <4> QED  BY <4>3, <4>4
    <3>2. IF e = "DISPUTE_ADJUSTMENT" THEN ledger[x][e] <= old ELSE ledger[x][e] = old
      BY DEF KeysInv, PostedOncePerKey, KeysOf, Scoped
    <3>3. ledger[x][e] \in Nat
      BY <1>1
    <3> HIDE DEF old, new
    <3>4. CASE ledger' = ledger /\ k.scope = "DISPUTE"
      <4>1. e # "DISPUTE_ADJUSTMENT" => StatusOf(e) # "DISPUTE"
        BY DEF StatusOf, Entries
      <4> QED  BY <3>1, <3>2, <3>3, <3>4, <4>1 DEF old, new
    <3>5. CASE ledger' = [ledger EXCEPT ![t] =
                   [f \in Entries |-> IF f \in LedgerFor(k.scope)
                                        THEN ledger[t][f] + 1 ELSE ledger[t][f]]]
      <4>1. ledger'[x][e] = IF x = t /\ k.scope = StatusOf(e) THEN ledger[x][e] + 1
                                                              ELSE ledger[x][e]
        BY <1>1, <3>5 DEF LedgerFor
      <4> QED  BY <3>1, <3>2, <3>3, <4>1 DEF old, new
    <3> QED  BY <1>3, <3>4, <3>5
  <2> QED  BY <2>1, <2>2 DEF KeysInv, PostedOncePerKey, KeysOf, Scoped
<1> QED  BY <1>2, <1>3, TransactionKeys

\* The ledger holds one group of entries for each reserved key of its status
\* (PostedOncePerKey), however many writers race.
THEOREM PostedOnce == Spec => []PostedOncePerKey
<1>1. IInv /\ KeysInv /\ [Next]_vars => KeysInv'
  <2> SUFFICES ASSUME IInv, KeysInv, [Next]_vars PROVE KeysInv'
    OBVIOUS
  <2>1. CASE UNCHANGED storeVars
    BY <2>1 DEF storeVars, KeysInv, PostedOncePerKey, KeysOf
  <2> QED  BY <2>1, StoreTransactions, TransactionPosts
<1>2. KeysInv => PostedOncePerKey
  BY DEF KeysInv
<1> QED  BY <1>1, <1>2, InitKeys, InvariantHolds, PTL DEF Spec

-----------------------------------------------------------------------------
(***************************************************************************)
(* The dispute tickets.                                                    *)
(***************************************************************************)
AtMostOne(tickets) ==
  \A i, j \in DOMAIN tickets : tickets[i] = "OPEN" /\ tickets[j] = "OPEN" => i = j

TicketInv == \A t \in Trades : AtMostOne(disputes[t])

\* A dispute adds an open ticket only where none is open, a resolution closes one.
LEMMA TicketsKept ==
  ASSUME NEW tickets \in Seq({"OPEN", "CLOSED"}), AtMostOne(tickets), NEW i \in Nat
  PROVE  /\ AtMostOne([tickets EXCEPT ![i] = "CLOSED"])
         /\ (\A j \in DOMAIN tickets : tickets[j] # "OPEN")
              => AtMostOne(Append(tickets, "OPEN"))
<1>1. AtMostOne([tickets EXCEPT ![i] = "CLOSED"])
  <2>1. Len(tickets) \in Nat /\ tickets \in [1..Len(tickets) -> {"OPEN", "CLOSED"}]
    OBVIOUS
  <2> QED  BY <2>1 DEF AtMostOne
<1>2. ASSUME \A j \in DOMAIN tickets : tickets[j] # "OPEN"
      PROVE  AtMostOne(Append(tickets, "OPEN"))
  <2>1. /\ DOMAIN Append(tickets, "OPEN") = 1..(Len(tickets) + 1)
        /\ \A j \in 1..Len(tickets) : Append(tickets, "OPEN")[j] = tickets[j]
        /\ Len(tickets) \in Nat /\ DOMAIN tickets = 1..Len(tickets)
    OBVIOUS
  <2>2. \A j \in DOMAIN Append(tickets, "OPEN") :
          Append(tickets, "OPEN")[j] = "OPEN" => j = Len(tickets) + 1
    BY <1>2, <2>1
  <2> QED  BY <2>2 DEF AtMostOne
<1> QED  BY <1>1, <1>2

LEMMA TransactionTickets ==
  ASSUME IInv, TicketInv, NEW t \in Trades, NEW row, NEW from, NEW u,
         Transaction(t, row, from, u)
  PROVE  TicketInv'
<1>1. disputes \in [Trades -> Seq({"OPEN", "CLOSED"})] /\ AtMostOne(disputes[t])
  BY DEF IInv, TypeOK, StoreTypeOK, TicketInv
<1>2. CASE disputes' = disputes
  BY <1>2 DEF TicketInv
<1>3. CASE disputes' = [disputes EXCEPT ![t] = openTradeDisputeTx(t)]
  <2>1. AtMostOne(openTradeDisputeTx(t))
    <3>1. CASE OpenTickets(t) = {}
      <4>1. \A j \in DOMAIN disputes[t] : disputes[t][j] # "OPEN"
        BY <3>1 DEF OpenTickets
      <4>2. AtMostOne(Append(disputes[t], "OPEN"))
        BY <1>1, <4>1, TicketsKept
      <4> QED  BY <3>1, <4>2 DEF openTradeDisputeTx
    <3>2. CASE OpenTickets(t) # {}
      BY <1>1, <3>2 DEF openTradeDisputeTx
    <3> QED  BY <3>1, <3>2
  <2> QED  BY <1>1, <1>3, <2>1 DEF TicketInv
<1>4. CASE \E i \in Nat : disputes' = [disputes EXCEPT ![t][i] = "CLOSED"]
  <2>1. PICK i \in Nat : disputes' = [disputes EXCEPT ![t][i] = "CLOSED"]
    BY <1>4
  <2>2. AtMostOne([disputes[t] EXCEPT ![i] = "CLOSED"])
    BY <1>1, TicketsKept
  <2> QED  BY <1>1, <2>1, <2>2 DEF TicketInv
<1> QED  BY <1>2, <1>3, <1>4 DEF Transaction

\* However many disputes and resolutions race, a trade has at most one open
\* ticket (OneOpenTicket).
THEOREM OneTicket == Spec => []OneOpenTicket
<1>1. Init => TicketInv
  BY DEF Init, StoreInit, TicketInv, AtMostOne
<1>2. IInv /\ TicketInv /\ [Next]_vars => TicketInv'
  <2> SUFFICES ASSUME IInv, TicketInv, [Next]_vars PROVE TicketInv'
    OBVIOUS
  <2>1. CASE UNCHANGED storeVars
    BY <2>1 DEF storeVars, TicketInv
  <2> QED  BY <2>1, StoreTransactions, TransactionTickets
<1>3. IInv /\ TicketInv => OneOpenTicket
  <2> SUFFICES ASSUME TicketInv, NEW t \in Trades PROVE Cardinality(OpenTickets(t)) <= 1
    BY DEF OneOpenTicket
  <2>1. CASE OpenTickets(t) = {}
    BY <2>1, FS_EmptySet
  <2>2. CASE OpenTickets(t) # {}
    <3>1. PICK i \in OpenTickets(t) : TRUE
      BY <2>2
    <3>2. OpenTickets(t) = {i}
      BY <3>1 DEF TicketInv, AtMostOne, OpenTickets
    <3> QED  BY <3>2, FS_Singleton
  <2> QED  BY <2>1, <2>2
<1> QED  BY <1>1, <1>2, <1>3, InvariantHolds, PTL DEF Spec

-----------------------------------------------------------------------------
(***************************************************************************)
(* Every dispute comes with a ticket.  That a resolution never writes      *)
(* DISPUTE itself is an invariant of the administrators' tasks.            *)
(***************************************************************************)
AdminInv ==
  \A a \in Admins : /\ task[a].pc \in {"idle", "ticket", "commit"}
                    /\ task[a].pc = "commit" => task[a].upd.to # "DISPUTE"

\* Only its own steps, its failing commit and a crash touch an administrator's task.
LEMMA AdminTasks ==
  ASSUME IInv, [Next]_vars, NEW a \in Admins
  PROVE  \/ task'[a] = task[a]
         \/ AdminFindsTicket(a) \/ AdminReadsTrade(a) \/ AdminCommits(a)
         \/ CommitFails(a) \/ PostingFails(a) \/ Crash
<1>1. a \in Procs /\ a \notin Workers /\ a \notin Hooks /\ a \notin Users
  BY LifecycleAssumption, ProcessesDistinct DEF Procs
<1>2. CASE UNCHANGED vars \/ \E t \in Trades : EnvStep(t)
  BY <1>2 DEF vars, EnvStep, DepositSeen, DepositFinal, DepositDrops, DepositReplaced,
              WindowCloses, ProviderSettles
<1>3. CASE \E p \in Procs : StepOf(p)
  <2>1. PICK p \in Procs : StepOf(p)
    BY <1>3
  <2>2. CASE p = a
    BY <1>1, <2>1, <2>2 DEF StepOf, Updaters
  <2> QED  BY <1>1, <2>1, <2>2, OwnTask
<1> QED  BY <1>2, <1>3, WhoSteps

\* No resolution mode asks for DISPUTE.
LEMMA ResolutionsEndDisputes ==
  ASSUME NEW row, NEW mode \in ResolutionModes, NEW note
  PROVE  Resolution(row, mode, note).to # "DISPUTE"
BY DEF Resolution, ResolutionModes, Update, retryStatusForTrade

LEMMA NextAdmin == IInv /\ AdminInv /\ [Next]_vars => AdminInv'
<1> SUFFICES ASSUME IInv, AdminInv, [Next]_vars, NEW a \in Admins
             PROVE  /\ task'[a].pc \in {"idle", "ticket", "commit"}
                    /\ task'[a].pc = "commit" => task'[a].upd.to # "DISPUTE"
  BY DEF AdminInv
<1>1. a \in Procs /\ a \notin Hooks /\ task[a] \in Tasks
  BY ProcessesDistinct DEF Procs, IInv, TypeOK
<1>2. CASE task'[a] = task[a]
  BY <1>2 DEF AdminInv
<1>3. CASE AdminFindsTicket(a)
  BY <1>1, <1>3 DEF AdminFindsTicket, Idle, IInv, TypeOK
<1>4. CASE AdminReadsTrade(a)
  <2> DEFINE row == trade[task[a].t]
  <2>1. PICK mode \in Modes, note \in Notes :
          \/ task' = [task EXCEPT ![a] =
               [@ EXCEPT !.pc = "commit", !.upd = Resolution(row, mode, note),
                         !.from = row.status,
                         !.clear = (Resolution(row, mode, note).to = "CONVERSION_COMPLETED")]]
          \/ task' = [task EXCEPT ![a] = Idle]
    BY <1>4 DEF AdminReadsTrade
  <2> DEFINE u == Resolution(row, mode, note)
  <2>2. u.to # "DISPUTE"
    BY LifecycleAssumption, ResolutionsEndDisputes
  <2>3. CASE task' = [task EXCEPT ![a] = Idle]
    BY <1>1, <2>3 DEF Idle, IInv, TypeOK
  <2>4. CASE task' = [task EXCEPT ![a] =
               [@ EXCEPT !.pc = "commit", !.upd = u, !.from = row.status,
                         !.clear = (u.to = "CONVERSION_COMPLETED")]]
    <3> HIDE DEF u, row
    <3>1. task'[a] = [task[a] EXCEPT !.pc = "commit", !.upd = u, !.from = row.status,
                                     !.clear = (u.to = "CONVERSION_COMPLETED")]
      BY <1>1, <2>4 DEF IInv, TypeOK
    <3>2. task'[a].pc = "commit" /\ task'[a].upd = u
      BY <1>1, <3>1 DEF Tasks
    <3> QED  BY <2>2, <3>2
  <2> QED  BY <2>1, <2>3, <2>4
<1>5. CASE AdminCommits(a)
  BY <1>1, <1>5 DEF AdminCommits, Idle, IInv, TypeOK
<1>6. CASE CommitFails(a) \/ PostingFails(a)
  BY <1>1, <1>6 DEF CommitFails, PostingFails, AfterError, Finished, Idle, IInv, TypeOK
<1>7. CASE Crash
  BY <1>1, <1>7 DEF Crash, Idle
<1> QED  BY <1>2, <1>3, <1>4, <1>5, <1>6, <1>7, AdminTasks

\* A transaction that writes DISPUTE finds a ticket open, or opens one.
LEMMA DisputeOpensTicket ==
  ASSUME IInv, NEW p \in Updaters, CommitUpdate(p), NEW t \in Trades,
         trade[t].status # "DISPUTE", trade'[t].status = "DISPUTE"
  PROVE  OpenTickets(t)' # {}
<1>1. p \in Procs
  BY DEF Updaters, Procs
<1> DEFINE u == task[p].upd
<1>2. /\ trade \in [Trades -> Rows] /\ disputes \in [Trades -> Seq({"OPEN", "CLOSED"})]
      /\ task[p].t \in Trades
  BY <1>1 DEF CommitUpdate, IInv, TypeOK, StoreTypeOK
<1>3. UpdateCommit(task[p].t, task[p].from, u)
  BY DEF CommitUpdate
<1> HIDE DEF u
<1>4. StatusWritten(task[p].t, trade[task[p].t], task[p].from, u)
  BY <1>2, <1>3 DEF UpdateCommit, updateTradeStatusTx, DuplicateIgnored
<1>5. t = task[p].t /\ u.to = "DISPUTE" /\ Reserves(t, u)
  BY <1>2, <1>4 DEF StatusWritten, Written
<1>6. disputes'[t] = openTradeDisputeTx(t)
  BY <1>2, <1>3, <1>5 DEF UpdateCommit
<1>7. CASE OpenTickets(t) # {}
  BY <1>6, <1>7 DEF openTradeDisputeTx, OpenTickets
<1>8. CASE OpenTickets(t) = {}
  <2>1. disputes'[t] = Append(disputes[t], "OPEN") /\ Len(disputes[t]) \in Nat
    BY <1>2, <1>6, <1>8 DEF openTradeDisputeTx
  <2>2. /\ Len(disputes[t]) + 1 \in DOMAIN disputes'[t]
        /\ disputes'[t][Len(disputes[t]) + 1] = "OPEN"
    BY <1>2, <2>1
  <2> QED  BY <2>2 DEF OpenTickets
<1> QED  BY <1>7, <1>8

\* A step that turns a trade's status into DISPUTE leaves a ticket open for the
\* administrators to find (DisputesAreTicketed).
THEOREM DisputesTicketed == Spec => DisputesAreTicketed
<1>1. Init => AdminInv
  BY DEF Init, AdminInv, Idle, Procs
<1> DEFINE Ticketed == \A t \in Trades :
             trade[t].status # "DISPUTE" /\ trade'[t].status = "DISPUTE"
               => OpenTickets(t)' # {}
<1>2. IInv /\ AdminInv /\ [Next]_vars => [Ticketed]_vars
  <2> SUFFICES ASSUME IInv, AdminInv, [Next]_vars, NEW t \in Trades,
                      trade[t].status # "DISPUTE", trade'[t].status = "DISPUTE"
               PROVE  OpenTickets(t)' # {}
    OBVIOUS
  <2>1. CASE UNCHANGED storeVars
    BY <2>1 DEF storeVars
  <2>2. CASE \E p \in Updaters : CommitUpdate(p)
    BY <2>2, DisputeOpensTicket
  <2>3. CASE \E a \in Admins : AdminCommits(a)
    <3>1. PICK a \in Admins : AdminCommits(a)
      BY <2>3
    <3>2. task[a].upd.to # "DISPUTE" /\ task[a].pc = "commit"
      BY <3>1 DEF AdminInv, AdminCommits
    <3>3. PICK row \in Rows : Transaction(task[a].t, row, task[a].from, task[a].upd)
      BY <3>1, ResolutionIsTransaction
    <3>4. trade \in [Trades -> Rows]
      BY DEF IInv, TypeOK, StoreTypeOK
    <3> QED  BY <3>2, <3>3, <3>4 DEF Transaction, updateTradeStatusTx, DuplicateIgnored,
                                     StatusWritten, Written
  <2> QED  BY <2>1, <2>2, <2>3, StoreSteps
<1> QED  BY <1>1, <1>2, NextAdmin, InvariantHolds, PTL DEF Spec, DisputesAreTicketed
=============================================================================
