--------------------------- MODULE PaymentsProofs ---------------------------
(***************************************************************************)
(* Theorems about Payments for any set of intents, users, transactions,    *)
(* calls and watchers, any finite number of overlapping polling runs and   *)
(* any bound on faults.                                                    *)
(***************************************************************************)
EXTENDS Payments, FiniteSetTheorems, TLAPS

(***************************************************************************)
(* The inductive invariant                                                 *)
(***************************************************************************)
Existing == {i \in Intents : rows[i] # NoRow}

\* Intents named anywhere have a row (no query deletes one), and a watcher
\* that serves a task serves one that was published.
ReferencesHold ==
  /\ \A t \in Txs : Mined(t) => chain[t].intent \in Existing
  /\ lapsed \subseteq Existing /\ expirable \subseteq Existing
  /\ \A k \in Ticks : tick[k].phase # "idle" => tick[k].list \subseteq Existing
  /\ \A w \in Watchers : watch[w].phase = "mark" => Mined(watch[w].tx)
  /\ \A w \in Watchers : watch[w].phase # "idle" =>
       watch[w].call = NoCall \/ tasks[watch[w].call].state # "none"

\* What each handler checked when it read the row it still holds.
SnapshotsChecked ==
  /\ \A w \in Watchers : watch[w].phase = "mark" => watch[w].row.status = "PENDING"
  /\ \A c \in Calls : calls[c].phase = "reprocess" => calls[c].row.status = "OVER_CAP"
  /\ \A k \in Ticks : tick[k].phase \in {"grant", "complete", "over_cap", "fail"}
                      => tick[k].row.status # "COMPLETED"

Inv == TypeOK /\ ReferencesHold /\ SnapshotsChecked

LEMMA InitInv == Init => Inv
<1> SUFFICES ASSUME Init PROVE Inv
  OBVIOUS
<1>1. TypeOK
  <2>1. /\ rows \in [Intents -> Row \cup {NoRow}]
        /\ chain \in [Txs -> Payment \cup {NoPayment}]
        /\ clobbers \in [Intents -> Nat] /\ aborts \in [Intents -> Nat]
        /\ lapsed \subseteq Intents /\ orphans \subseteq Intents \X Txs
        /\ expirable \subseteq Intents
        /\ faults \in 0..MaxFaults /\ sweep \in {"none", "started"}
    BY PaymentsAssumption DEF Init
  <2>2. batches \in [Intents -> Seq(Nat)]
    BY DEF Init
  <2>3. /\ up \in BOOLEAN
        /\ calls \in [Calls -> CallTypes]
        /\ tasks \in [Calls -> TaskTypes]
        /\ watch \in [Watchers -> WatchTypes]
        /\ tick \in [Ticks -> TickTypes]
    BY Zenon DEF Init, CallTypes, TaskTypes, WatchTypes, TickTypes
  <2> QED BY <2>1, <2>2, <2>3 DEF TypeOK
<1>2. ReferencesHold
  BY DEF Init, ReferencesHold, Mined, IdleWatch, IdleTick
<1>3. SnapshotsChecked
  BY DEF Init, SnapshotsChecked, IdleWatch, IdleTick, IdleCall
<1> QED BY <1>1, <1>2, <1>3 DEF Inv

\* Writing a row of the right type back keeps the table typed, and no row vanishes.
LEMMA UpdateTyped ==
  ASSUME TypeOK, NEW i \in Intents, NEW read, NEW row \in Row, updateIntent(i, read, row)
  PROVE  /\ rows' \in [Intents -> Row \cup {NoRow}]
         /\ clobbers' \in [Intents -> Nat]
         /\ Existing \subseteq Existing'
BY NoRowAssumption DEF TypeOK, updateIntent, Existing

\* What a call, a watcher and a polling run hold in the phases that hold a row.
LEMMA CallHolds ==
  ASSUME TypeOK, NEW c \in Calls, calls[c].phase \in {"publish", "watch", "reprocess"}
  PROVE  /\ calls[c].intent \in Intents /\ calls[c].row \in Row
         /\ calls[c].phase # "reprocess" => calls[c].tx \in Txs
         /\ calls[c] = [phase |-> calls[c].phase, intent |-> calls[c].intent,
                        tx |-> calls[c].tx, row |-> calls[c].row]
BY DEF TypeOK, CallTypes, IdleCall, DoneCall

LEMMA WatchHolds ==
  ASSUME TypeOK, NEW w \in Watchers, watch[w].phase \in {"wait", "mark"}
  PROVE  /\ watch[w].tx \in Txs /\ watch[w].call \in Calls \cup {NoCall}
         /\ watch[w].phase = "mark" => watch[w].row \in Row
BY DEF TypeOK, WatchTypes, IdleWatch

LEMMA TickHolds ==
  ASSUME TypeOK, NEW k \in Ticks,
         tick[k].phase \in {"grant", "complete", "over_cap", "fail"}
  PROVE  /\ tick[k].intent \in Intents /\ tick[k].row \in Row
         /\ tick[k].list \in SUBSET Intents
<1>1. tick[k] \in TickTypes
  BY DEF TypeOK
<1>2. tick[k] \in [phase : {"grant", "complete", "over_cap", "fail"}, list : SUBSET Intents,
                   intent : Intents, row : Row]
  BY <1>1 DEF TickTypes, IdleTick
<1> QED BY <1>2

LEMMA MinedPays ==
  ASSUME TypeOK, ReferencesHold, NEW t \in Txs, Mined(t)
  PROVE  chain[t] \in Payment /\ chain[t].intent \in Existing
BY DEF TypeOK, ReferencesHold, Mined
(***************************************************************************)
(* Every action keeps the invariant: users and the chain                   *)
(***************************************************************************)
LEMMA CreateStep ==
  ASSUME Inv, NEW u \in Users, NEW i \in Intents, NEW p \in Prices, createIntent(u, i, p)
  PROVE  Inv'
<1>1. [status |-> "PENDING", user |-> u, price |-> p, tx |-> NoTx, amount |-> 0] \in Row
  BY DEF Row, Statuses
<1>2. rows' \in [Intents -> Row \cup {NoRow}] /\ Existing \subseteq Existing'
  BY <1>1, NoRowAssumption DEF createIntent, Inv, TypeOK, Existing
<1>3. TypeOK'
  BY <1>2 DEF createIntent, Inv, TypeOK, worker
<1>4. ReferencesHold'
  BY <1>2 DEF createIntent, Inv, ReferencesHold, worker, Mined
<1>5. SnapshotsChecked'
  BY DEF createIntent, Inv, SnapshotsChecked, worker
<1> QED BY <1>3, <1>4, <1>5 DEF Inv

LEMMA LapseStep ==
  ASSUME Inv, NEW i \in Intents, PriceWindowLapses(i)
  PROVE  Inv'
<1>1. TypeOK'
  BY DEF PriceWindowLapses, Inv, TypeOK, worker, db
<1>2. ReferencesHold'
  BY DEF PriceWindowLapses, Inv, ReferencesHold, Existing, worker, db, Mined
<1>3. SnapshotsChecked'
  BY DEF PriceWindowLapses, Inv, SnapshotsChecked, worker
<1> QED BY <1>1, <1>2, <1>3 DEF Inv

LEMMA PayStep ==
  ASSUME Inv, NEW t \in Txs, NEW i \in Intents, NEW a \in Amounts, Pay(t, i, a)
  PROVE  Inv'
<1>1. TypeOK'
  BY DEF Pay, Inv, TypeOK, worker, db, Payment
<1>2. ReferencesHold'
  BY DEF Pay, Inv, TypeOK, ReferencesHold, Existing, worker, db, Mined
<1>3. SnapshotsChecked'
  BY DEF Pay, Inv, SnapshotsChecked, worker
<1> QED BY <1>1, <1>2, <1>3 DEF Inv

(***************************************************************************)
(* API calls                                                               *)
(***************************************************************************)
LEMMA WatchReadStep ==
  ASSUME Inv, NEW c \in Calls, NEW u \in Users, NEW i \in Intents, NEW t \in Txs,
         WatchRead(c, u, i, t)
  PROVE  Inv'
<1>1. TypeOK'
  <2>1. [phase |-> "publish", intent |-> i, tx |-> t, row |-> rows[i]] \in CallTypes
    BY DEF WatchRead, Inv, TypeOK, CallTypes
  <2> QED BY <2>1 DEF WatchRead, Inv, TypeOK, worker, db
<1>2. ReferencesHold'
  BY DEF WatchRead, Inv, ReferencesHold, Existing, worker, db, Mined
<1>3. SnapshotsChecked'
  BY DEF WatchRead, Inv, TypeOK, SnapshotsChecked, worker
<1> QED BY <1>1, <1>2, <1>3 DEF Inv

LEMMA WatchPublishStep ==
  ASSUME Inv, NEW c \in Calls, WatchPublish(c)
  PROVE  Inv'
<1>1. TypeOK'
  <2>1. /\ calls[c].intent \in Intents /\ calls[c].row \in Row /\ calls[c].tx \in Txs
        /\ calls[c] = [phase |-> "publish", intent |-> calls[c].intent,
                       tx |-> calls[c].tx, row |-> calls[c].row]
    BY CallHolds DEF WatchPublish, Inv
  <2>2. [calls[c] EXCEPT !.phase = "watch"] \in CallTypes
    BY <2>1 DEF CallTypes
  <2>3. calls' \in [Calls -> CallTypes]
    BY <2>2 DEF WatchPublish, Inv, TypeOK
  <2>4. [state |-> "queued", tx |-> calls[c].tx, retriesLeft |-> MaxRetries] \in TaskTypes
    BY <2>1, PaymentsAssumption DEF TaskTypes
  <2>5. tasks' \in [Calls -> TaskTypes]
    BY <2>4 DEF WatchPublish, Inv, TypeOK
  <2>6. faults' \in 0..MaxFaults
    BY PaymentsAssumption DEF WatchPublish, Inv, TypeOK, Fault
  <2> QED BY <2>3, <2>5, <2>6 DEF WatchPublish, Inv, TypeOK, worker, db
<1>2. ReferencesHold'
  <2>1. \A d \in Calls : tasks[d].state # "none" => tasks'[d].state # "none"
    <3>1. CASE UNCHANGED tasks
      BY <3>1
    <3>2. CASE tasks' = [tasks EXCEPT ![c] = [state |-> "queued", tx |-> calls[c].tx,
                                             retriesLeft |-> MaxRetries]]
      BY <3>2 DEF Inv, TypeOK
    <3> QED BY <3>1, <3>2 DEF WatchPublish
  <2>2. \A w \in Watchers : watch[w].phase # "idle" => watch[w].call \in Calls \cup {NoCall}
    BY DEF Inv, TypeOK, WatchTypes, IdleWatch
  <2> QED BY <2>1, <2>2 DEF WatchPublish, Inv, ReferencesHold, Existing, worker, db, Mined
<1>3. SnapshotsChecked'
  BY CallHolds DEF WatchPublish, Inv, TypeOK, SnapshotsChecked, worker
<1> QED BY <1>1, <1>2, <1>3 DEF Inv

LEMMA WatchWriteStep ==
  ASSUME Inv, NEW c \in Calls, WatchWrite(c)
  PROVE  Inv'
<1>1. calls[c].intent \in Intents /\ calls[c].row \in Row /\ calls[c].tx \in Txs
  BY CallHolds DEF WatchWrite, Inv
<1>2. [calls[c].row EXCEPT !.tx = calls[c].tx] \in Row
  BY <1>1 DEF Row
<1>3. /\ rows' \in [Intents -> Row \cup {NoRow}]
      /\ clobbers' \in [Intents -> Nat]
      /\ Existing \subseteq Existing'
  BY <1>1, <1>2, UpdateTyped DEF WatchWrite, Inv
<1>4. TypeOK'
  BY <1>3 DEF WatchWrite, Inv, TypeOK, worker, CallTypes
<1>5. ReferencesHold'
  BY <1>3 DEF WatchWrite, Inv, ReferencesHold, worker, Mined
<1>6. SnapshotsChecked'
  BY DEF WatchWrite, Inv, TypeOK, SnapshotsChecked, worker, DoneCall
<1> QED BY <1>4, <1>5, <1>6 DEF Inv

LEMMA ReprocessReadStep ==
  ASSUME Inv, NEW c \in Calls, NEW i \in Intents, ReprocessRead(c, i)
  PROVE  Inv'
<1>1. TypeOK'
  <2>1. [phase |-> "reprocess", intent |-> i, tx |-> NoTx, row |-> rows[i]] \in CallTypes
    BY DEF ReprocessRead, Inv, TypeOK, CallTypes
  <2> QED BY <2>1 DEF ReprocessRead, Inv, TypeOK, worker, db
<1>2. ReferencesHold'
  BY DEF ReprocessRead, Inv, ReferencesHold, Existing, worker, db, Mined
<1>3. SnapshotsChecked'
  BY DEF ReprocessRead, Inv, TypeOK, SnapshotsChecked, worker
<1> QED BY <1>1, <1>2, <1>3 DEF Inv

LEMMA ReprocessWriteStep ==
  ASSUME Inv, NEW c \in Calls, ReprocessWrite(c)
  PROVE  Inv'
<1>1. calls[c].intent \in Intents /\ calls[c].row \in Row
  BY CallHolds DEF ReprocessWrite, Inv
<1>2. [calls[c].row EXCEPT !.status = "CONFIRMED"] \in Row
  BY <1>1 DEF Row, Statuses
<1>3. /\ rows' \in [Intents -> Row \cup {NoRow}]
      /\ clobbers' \in [Intents -> Nat]
      /\ Existing \subseteq Existing'
  BY <1>1, <1>2, UpdateTyped DEF ReprocessWrite, Inv
<1>4. TypeOK'
  BY <1>3 DEF ReprocessWrite, Inv, TypeOK, worker, CallTypes
<1>5. ReferencesHold'
  BY <1>3 DEF ReprocessWrite, Inv, ReferencesHold, worker, Mined
<1>6. SnapshotsChecked'
  BY DEF ReprocessWrite, Inv, TypeOK, SnapshotsChecked, worker, DoneCall
<1> QED BY <1>4, <1>5, <1>6 DEF Inv

LEMMA CallFailsStep ==
  ASSUME Inv, NEW c \in Calls, CallFails(c)
  PROVE  Inv'
<1>1. TypeOK'
  BY PaymentsAssumption DEF CallFails, Inv, TypeOK, worker, db, CallTypes, Fault
<1>2. ReferencesHold'
  BY DEF CallFails, Inv, ReferencesHold, Existing, worker, db, Mined
<1>3. SnapshotsChecked'
  BY DEF CallFails, Inv, TypeOK, SnapshotsChecked, worker, DoneCall
<1> QED BY <1>1, <1>2, <1>3 DEF Inv
(***************************************************************************)
(* Watchers                                                                *)
(***************************************************************************)
LEMMA StartWatchTyped ==
  ASSUME Inv, NEW w \in Watchers, NEW t \in Txs, NEW c \in Calls \cup {NoCall},
         StartWatch(w, t, c)
  PROVE  /\ watch' \in [Watchers -> WatchTypes]
         /\ watch'[w].phase = "wait" /\ watch'[w].call = c
         /\ \A v \in Watchers : v # w => watch'[v] = watch[v]
<1>1. [phase |-> "wait", tx |-> t, call |-> c] \in WatchTypes
  BY DEF WatchTypes
<1> QED BY <1>1 DEF StartWatch, Inv, TypeOK

LEMMA TaskFields ==
  ASSUME TypeOK, NEW c \in Calls, tasks[c].state # "none"
  PROVE  /\ tasks[c].tx \in Txs /\ tasks[c].retriesLeft \in 0..MaxRetries
         /\ tasks[c] \in [state : {"queued", "delivered", "acked", "failed"}, tx : Txs,
                          retriesLeft : 0..MaxRetries]
<1>1. tasks[c] \in TaskTypes
  BY DEF TypeOK
<1> QED BY <1>1 DEF TaskTypes, NoTask

LEMMA TaskMoved ==
  ASSUME TypeOK, NEW c \in Calls, tasks[c].state # "none",
         NEW st \in {"queued", "delivered", "acked", "failed"}
  PROVE  [tasks[c] EXCEPT !.state = st] \in TaskTypes
BY TaskFields DEF TaskTypes

LEMMA OnLogsStep ==
  ASSUME Inv, NEW w \in Watchers, NEW t \in Txs, onLogs(w, t)
  PROVE  Inv'
<1>1. /\ watch' \in [Watchers -> WatchTypes]
      /\ watch'[w].phase = "wait" /\ watch'[w].call = NoCall
      /\ \A v \in Watchers : v # w => watch'[v] = watch[v]
  BY StartWatchTyped DEF onLogs
<1>2. TypeOK'
  BY <1>1 DEF onLogs, Inv, TypeOK, db
<1>3. ReferencesHold'
  BY <1>1 DEF onLogs, Inv, ReferencesHold, Existing, db, Mined
<1>4. SnapshotsChecked'
  BY <1>1 DEF onLogs, Inv, SnapshotsChecked
<1> QED BY <1>2, <1>3, <1>4 DEF Inv

LEMMA DeliverTaskStep ==
  ASSUME Inv, NEW w \in Watchers, NEW c \in Calls, DeliverTask(w, c)
  PROVE  Inv'
<1>1. tasks[c].tx \in Txs /\ [tasks[c] EXCEPT !.state = "delivered"] \in TaskTypes
  BY TaskFields, TaskMoved DEF DeliverTask, Inv
<1>2. /\ watch' \in [Watchers -> WatchTypes]
      /\ watch'[w].phase = "wait" /\ watch'[w].call = c
      /\ \A v \in Watchers : v # w => watch'[v] = watch[v]
  BY <1>1, StartWatchTyped DEF DeliverTask
<1>3. TypeOK'
  BY <1>1, <1>2 DEF DeliverTask, Inv, TypeOK, db
<1>4. ReferencesHold'
  BY <1>2 DEF DeliverTask, Inv, ReferencesHold, Existing, db, Mined
<1>5. SnapshotsChecked'
  BY <1>2 DEF DeliverTask, Inv, SnapshotsChecked
<1> QED BY <1>3, <1>4, <1>5 DEF Inv

LEMMA RecoverTxStep ==
  ASSUME Inv, NEW w \in Watchers, NEW o \in orphans, RecoverTx(w, o)
  PROVE  Inv'
<1>1. o[2] \in Txs
  BY DEF Inv, TypeOK
<1>2. /\ watch' \in [Watchers -> WatchTypes]
      /\ watch'[w].phase = "wait" /\ watch'[w].call = NoCall
      /\ \A v \in Watchers : v # w => watch'[v] = watch[v]
  BY <1>1, StartWatchTyped DEF RecoverTx
<1>3. TypeOK'
  BY <1>2 DEF RecoverTx, Inv, TypeOK, db
<1>4. ReferencesHold'
  BY <1>2 DEF RecoverTx, Inv, ReferencesHold, Existing, db, Mined
<1>5. SnapshotsChecked'
  BY <1>2 DEF RecoverTx, Inv, SnapshotsChecked
<1> QED BY <1>3, <1>4, <1>5 DEF Inv

\* Acknowledging or retrying the task a watcher serves keeps the tasks typed
\* and published.
LEMMA TasksTyped ==
  ASSUME Inv, NEW w \in Watchers, watch[w].phase \in {"wait", "mark"},
         NEW new \in {Acked(watch[w].call), Retried(watch[w].call)}
  PROVE  /\ new \in [Calls -> TaskTypes]
         /\ \A c \in Calls : tasks[c].state # "none" => new[c].state # "none"
<1> DEFINE c == watch[w].call
<1>1. c \in Calls \cup {NoCall}
  BY WatchHolds DEF Inv
<1>2. CASE c = NoCall
  BY <1>2 DEF Acked, Retried, Inv, TypeOK
<1>3. CASE c \in Calls /\ c # NoCall
  <2>1. tasks[c].state # "none"
    BY <1>3 DEF Inv, ReferencesHold
  <2>2. tasks[c].retriesLeft \in 0..MaxRetries
    BY <1>3, <2>1, TaskFields DEF Inv
  <2>3. /\ [tasks[c] EXCEPT !.state = "acked"] \in TaskTypes
        /\ [tasks[c] EXCEPT !.state = "failed"] \in TaskTypes
    BY <1>3, <2>1, TaskMoved DEF Inv
  <2>4. tasks[c].retriesLeft > 0 =>
          [tasks[c] EXCEPT !.state = "queued", !.retriesLeft = @ - 1] \in TaskTypes
    <3>1. tasks[c].retriesLeft > 0 => tasks[c].retriesLeft - 1 \in 0..MaxRetries
      BY <2>2, PaymentsAssumption
    <3> QED BY <1>3, <2>1, <3>1, TaskFields DEF Inv, TaskTypes
  <2>5. CASE new = Acked(c)
    <3>1. new = [tasks EXCEPT ![c] = [tasks[c] EXCEPT !.state = "acked"]]
      BY <1>3, <2>5 DEF Acked, Inv, TypeOK
    <3>2. [tasks[c] EXCEPT !.state = "acked"].state = "acked"
      BY <1>3, <2>1, TaskFields DEF Inv
    <3> QED BY <1>3, <2>3, <3>1, <3>2 DEF Inv, TypeOK
  <2>6. CASE new = Retried(c) /\ tasks[c].retriesLeft > 0
    <3>1. new = [tasks EXCEPT ![c] = [tasks[c] EXCEPT !.state = "queued", !.retriesLeft = @ - 1]]
      BY <1>3, <2>6 DEF Retried, Inv, TypeOK
    <3>2. [tasks[c] EXCEPT !.state = "queued", !.retriesLeft = @ - 1].state = "queued"
      BY <1>3, <2>1, TaskFields DEF Inv
    <3> QED BY <1>3, <2>4, <2>6, <3>1, <3>2 DEF Inv, TypeOK
  <2>7. CASE new = Retried(c) /\ ~(tasks[c].retriesLeft > 0)
    <3>1. new = [tasks EXCEPT ![c] = [tasks[c] EXCEPT !.state = "failed"]]
      BY <1>3, <2>7 DEF Retried, Inv, TypeOK
    <3>2. [tasks[c] EXCEPT !.state = "failed"].state = "failed"
      BY <1>3, <2>1, TaskFields DEF Inv
    <3> QED BY <1>3, <2>3, <3>1, <3>2 DEF Inv, TypeOK
  <2> QED BY <2>5, <2>6, <2>7
<1> QED BY <1>1, <1>2, <1>3
LEMMA MarkReadStep ==
  ASSUME Inv, NEW w \in Watchers, MarkRead(w)
  PROVE  Inv'
<1> DEFINE i == chain[watch[w].tx].intent
<1>1. /\ watch[w].tx \in Txs /\ watch[w].call \in Calls \cup {NoCall}
      /\ i \in Existing
  BY WatchHolds, MinedPays DEF MarkRead, Inv
<1>2. CASE rows[i].status \in PostPending
  <2>1. /\ tasks' \in [Calls -> TaskTypes]
        /\ \A c \in Calls : tasks[c].state # "none" => tasks'[c].state # "none"
    BY <1>2, TasksTyped DEF MarkRead
  <2>2. watch' = [watch EXCEPT ![w] = IdleWatch]
    BY <1>2 DEF MarkRead
  <2>3. TypeOK'
    BY <2>1, <2>2 DEF MarkRead, Inv, TypeOK, db, WatchTypes
  <2>4. \A v \in Watchers : watch[v].phase # "idle" => watch[v].call \in Calls \cup {NoCall}
    BY DEF Inv, TypeOK, WatchTypes, IdleWatch
  <2>5. \A v \in Watchers : watch'[v].phase # "idle" => watch'[v] = watch[v]
    BY <2>2 DEF Inv, TypeOK, IdleWatch
  <2>6. ReferencesHold'
    BY <2>1, <2>4, <2>5 DEF MarkRead, Inv, ReferencesHold, Existing, db, Mined
  <2>7. SnapshotsChecked'
    BY <2>5 DEF MarkRead, Inv, SnapshotsChecked
  <2> QED BY <2>3, <2>6, <2>7 DEF Inv
<1>3. CASE rows[i].status \notin PostPending
  <2> DEFINE held == [phase |-> "mark", tx |-> watch[w].tx, call |-> watch[w].call,
                      row |-> rows[i]]
  <2>1. /\ watch' = [watch EXCEPT ![w] = held] /\ UNCHANGED tasks
        /\ Mined(watch[w].tx) /\ watch[w].phase = "wait"
    BY <1>3 DEF MarkRead
  <2>2. rows[i] \in Row /\ rows[i].status = "PENDING"
    BY <1>1, <1>3 DEF Existing, Inv, TypeOK, PostPending, Row, Statuses
  <2>3. held \in WatchTypes
    BY <1>1, <2>2 DEF WatchTypes
  <2>4. TypeOK'
    BY <2>1, <2>3 DEF MarkRead, Inv, TypeOK, db
  <2>5. ReferencesHold'
    BY <2>1 DEF MarkRead, Inv, TypeOK, ReferencesHold, Existing, db, Mined
  <2>6. SnapshotsChecked'
    BY <2>1, <2>2 DEF MarkRead, Inv, TypeOK, SnapshotsChecked
  <2> QED BY <2>4, <2>5, <2>6 DEF Inv
<1> QED BY <1>2, <1>3

LEMMA MarkWriteStep ==
  ASSUME Inv, NEW w \in Watchers, MarkWrite(w)
  PROVE  Inv'
<1> DEFINE p == chain[watch[w].tx]
           new == [watch[w].row EXCEPT !.status = "CONFIRMED", !.amount = p.amount]
<1>1. /\ watch[w].tx \in Txs /\ watch[w].call \in Calls \cup {NoCall}
      /\ watch[w].row \in Row /\ p \in Payment
  BY WatchHolds, MinedPays DEF MarkWrite, Inv, ReferencesHold
<1>2. new \in Row
  BY <1>1 DEF Row, Statuses, Payment
<1>3. /\ rows' \in [Intents -> Row \cup {NoRow}]
      /\ clobbers' \in [Intents -> Nat]
      /\ Existing \subseteq Existing'
  <2>1. p.intent \in Intents
    BY <1>1 DEF Payment
  <2> HIDE DEF new
  <2> QED BY <2>1, <1>2, UpdateTyped DEF MarkWrite, Inv, new
<1>4. /\ tasks' \in [Calls -> TaskTypes]
      /\ \A c \in Calls : tasks[c].state # "none" => tasks'[c].state # "none"
  BY TasksTyped DEF MarkWrite
<1>5. TypeOK'
  BY <1>3, <1>4 DEF MarkWrite, Inv, TypeOK, WatchTypes
<1>6. \A v \in Watchers : watch[v].phase # "idle" => watch[v].call \in Calls \cup {NoCall}
  BY DEF Inv, TypeOK, WatchTypes, IdleWatch
<1>7. \A v \in Watchers : watch'[v].phase # "idle" => watch'[v] = watch[v]
  BY DEF MarkWrite, Inv, TypeOK, IdleWatch
<1>8. ReferencesHold'
  BY <1>3, <1>4, <1>6, <1>7 DEF MarkWrite, Inv, ReferencesHold, Mined
<1>9. SnapshotsChecked'
  BY <1>7 DEF MarkWrite, Inv, SnapshotsChecked
<1> QED BY <1>5, <1>8, <1>9 DEF Inv

\* A receipt that does not come and a failed query end the watch alike.
LEMMA GiveUpStep ==
  ASSUME Inv, NEW w \in Watchers, ReceiptTimesOut(w) \/ WatchFails(w)
  PROVE  Inv'
<1>1. GiveUp(w) /\ watch[w].phase \in {"wait", "mark"}
  BY DEF ReceiptTimesOut, WatchFails
<1>2. faults' \in 0..MaxFaults
  BY PaymentsAssumption DEF ReceiptTimesOut, WatchFails, Fault, Inv, TypeOK
<1>3. /\ tasks' \in [Calls -> TaskTypes]
      /\ \A c \in Calls : tasks[c].state # "none" => tasks'[c].state # "none"
  BY <1>1, TasksTyped DEF GiveUp
<1>4. TypeOK'
  BY <1>1, <1>2, <1>3 DEF GiveUp, Inv, TypeOK, db, WatchTypes
<1>5. \A v \in Watchers : watch[v].phase # "idle" => watch[v].call \in Calls \cup {NoCall}
  BY DEF Inv, TypeOK, WatchTypes, IdleWatch
<1>6. \A v \in Watchers : watch'[v].phase # "idle" => watch'[v] = watch[v]
  BY <1>1 DEF GiveUp, Inv, TypeOK, IdleWatch
<1>7. ReferencesHold'
  BY <1>1, <1>3, <1>5, <1>6 DEF GiveUp, Inv, ReferencesHold, Existing, db, Mined
<1>8. SnapshotsChecked'
  BY <1>1, <1>6 DEF GiveUp, Inv, SnapshotsChecked
<1> QED BY <1>4, <1>7, <1>8 DEF Inv

(***************************************************************************)
(* Polling runs                                                            *)
(***************************************************************************)
LEMMA LoopTyped ==
  ASSUME NEW list \in SUBSET Intents
  PROVE  Loop(list) \in TickTypes /\ Loop(list).phase \in {"idle", "loop"}
         /\ (Loop(list).phase # "idle" => Loop(list).list = list)
<1>1. [phase |-> "loop", list |-> list] \in TickTypes
  BY DEF TickTypes
<1>2. IdleTick \in TickTypes
  BY DEF TickTypes
<1> QED BY <1>1, <1>2 DEF Loop, IdleTick

\* A step that gives one polling run a typed state over existing intents, and
\* changes nothing else the invariant mentions, keeps it.
LEMMA TickMoves ==
  ASSUME Inv, NEW k \in Ticks, NEW new \in TickTypes,
         tick' = [tick EXCEPT ![k] = new],
         new.phase # "idle" => new.list \subseteq Existing,
         new.phase \in {"grant", "complete", "over_cap", "fail"} => new.row.status # "COMPLETED",
         batches' \in [Intents -> Seq(Nat)], aborts' \in [Intents -> Nat],
         faults' \in 0..MaxFaults, rows' \in [Intents -> Row \cup {NoRow}],
         clobbers' \in [Intents -> Nat], Existing \subseteq Existing',
         UNCHANGED <<lapsed, chain, calls, tasks, up, sweep, orphans, watch, expirable>>
  PROVE  Inv'
<1>1. TypeOK'
  BY DEF Inv, TypeOK
<1>2. ReferencesHold'
  BY DEF Inv, TypeOK, ReferencesHold, Mined
<1>3. SnapshotsChecked'
  BY DEF Inv, TypeOK, SnapshotsChecked
<1> QED BY <1>1, <1>2, <1>3 DEF Inv

LEMMA CheckStep ==
  ASSUME Inv, NEW k \in Ticks, checkConfirmedIntents(k)
  PROVE  Inv'
<1> DEFINE list == {i \in Intents : rows[i] # NoRow /\ rows[i].status = "CONFIRMED"}
<1>1. list \subseteq Existing /\ list \in SUBSET Intents
  BY DEF Existing
<1> DEFINE new == Loop(list)
<1>2. tick' = [tick EXCEPT ![k] = new]
  BY DEF checkConfirmedIntents
<1>3. /\ new \in TickTypes /\ new.phase \in {"idle", "loop"}
      /\ new.phase # "idle" => new.list \subseteq Existing
  BY <1>1, LoopTyped
<1>4. /\ UNCHANGED <<rows, batches, clobbers, aborts, faults>>
      /\ UNCHANGED <<lapsed, chain, calls, tasks, up, sweep, orphans, watch, expirable>>
  BY DEF checkConfirmedIntents, db
<1>5. /\ batches' \in [Intents -> Seq(Nat)] /\ aborts' \in [Intents -> Nat]
      /\ faults' \in 0..MaxFaults /\ rows' \in [Intents -> Row \cup {NoRow}]
      /\ clobbers' \in [Intents -> Nat] /\ Existing \subseteq Existing'
  BY <1>4 DEF Existing, Inv, TypeOK
<1>6. new.phase \notin {"grant", "complete", "over_cap", "fail"}
  BY <1>3
<1> HIDE DEF list, new
<1> QED BY <1>2, <1>3, <1>4, <1>5, <1>6, TickMoves

LEMMA OnConfirmedReadStep ==
  ASSUME Inv, NEW k \in Ticks, NEW i \in Intents, OnConfirmedRead(k, i)
  PROVE  Inv'
<1>1. /\ tick[k].list \in SUBSET Intents /\ tick[k].list \subseteq Existing
      /\ i \in Existing
  BY DEF OnConfirmedRead, Inv, ReferencesHold, Existing
<1>2. rows[i] \in Row
  BY <1>1 DEF Existing, Inv, TypeOK
<1>3. CASE rows[i].status = "COMPLETED" \/ rows[i].amount = 0
  <2> DEFINE new == Loop(tick[k].list \ {i})
  <2>1. tick' = [tick EXCEPT ![k] = new]
    BY <1>3 DEF OnConfirmedRead
  <2>2. tick[k].list \ {i} \in SUBSET Intents /\ tick[k].list \ {i} \subseteq Existing
    BY <1>1
  <2>3. /\ new \in TickTypes /\ new.phase \notin {"grant", "complete", "over_cap", "fail"}
        /\ new.phase # "idle" => new.list \subseteq Existing
    BY <2>2, LoopTyped
  <2> HIDE DEF new
  <2> QED BY <2>1, <2>3, TickMoves DEF OnConfirmedRead, db, Existing, Inv, TypeOK
<1>4. CASE ~(rows[i].status = "COMPLETED" \/ rows[i].amount = 0)
  <2> DEFINE new == [phase |-> IF getIntentCredits(rows[i]) = 0 THEN "fail" ELSE "grant",
                     list |-> tick[k].list \ {i}, intent |-> i, row |-> rows[i]]
  <2>1. tick' = [tick EXCEPT ![k] = new]
    BY <1>4 DEF OnConfirmedRead
  <2>2. new \in TickTypes
    BY <1>1, <1>2 DEF TickTypes
  <2>3. new.list \subseteq Existing /\ new.row.status # "COMPLETED"
    BY <1>1, <1>4
  <2> HIDE DEF new
  <2> QED BY <2>1, <2>2, <2>3, TickMoves DEF OnConfirmedRead, db, Existing, Inv, TypeOK
<1> QED BY <1>3, <1>4
LEMMA MoneyTyped == Amounts \cup {0} \subseteq Nat /\ Prices \subseteq Nat \ {0}
BY PaymentsAssumption

LEMMA AddCreditsStep ==
  ASSUME Inv, NEW k \in Ticks, AddCredits(k)
  PROVE  Inv'
<1>1. /\ tick[k].intent \in Intents /\ tick[k].row \in Row /\ tick[k].list \in SUBSET Intents
      /\ tick[k].list \subseteq Existing /\ tick[k].row.status # "COMPLETED"
  BY TickHolds DEF AddCredits, Inv, ReferencesHold, SnapshotsChecked
<1>2. getIntentCredits(tick[k].row) \in Nat
  <2>1. tick[k].row.amount \in Amounts \cup {0} /\ tick[k].row.price \in Prices
    BY <1>1 DEF Row
  <2>2. tick[k].row.amount \in Nat /\ tick[k].row.price \in Nat \ {0}
    BY <2>1, MoneyTyped
  <2> QED BY <2>2 DEF getIntentCredits
<1>3. batches' \in [Intents -> Seq(Nat)]
  <2>1. batches \in [Intents -> Seq(Nat)]
    BY DEF Inv, TypeOK
  <2>2. Append(batches[tick[k].intent], getIntentCredits(tick[k].row)) \in Seq(Nat)
    BY <1>1, <1>2, <2>1
  <2> QED BY <2>1, <2>2 DEF AddCredits
<1>4. PICK ph \in {"complete", "over_cap"} : tick' = [tick EXCEPT ![k] = Processing(k, ph)]
  BY DEF AddCredits
<1> DEFINE new == Processing(k, ph)
<1>5. /\ new \in TickTypes /\ new.list \subseteq Existing /\ new.row.status # "COMPLETED"
  BY <1>1 DEF Processing, TickTypes
<1> HIDE DEF new
<1> QED BY <1>3, <1>4, <1>5, TickMoves DEF new, AddCredits, Existing, Inv, TypeOK

LEMMA OnConfirmedWriteStep ==
  ASSUME Inv, NEW k \in Ticks, OnConfirmedWrite(k)
  PROVE  Inv'
<1> DEFINE row == [tick[k].row EXCEPT !.status = Outcome[tick[k].phase]]
           new == Loop(tick[k].list)
<1>1. /\ tick[k].intent \in Intents /\ tick[k].row \in Row /\ tick[k].list \in SUBSET Intents
      /\ tick[k].list \subseteq Existing
  BY TickHolds DEF OnConfirmedWrite, Outcome, Inv, ReferencesHold
<1>2. row \in Row
  BY <1>1 DEF Row, Statuses, OnConfirmedWrite, Outcome
<1>3. updateIntent(tick[k].intent, tick[k].row, row)
  BY DEF OnConfirmedWrite
<1>4. /\ rows' \in [Intents -> Row \cup {NoRow}]
      /\ clobbers' \in [Intents -> Nat]
      /\ Existing \subseteq Existing'
  <2> HIDE DEF row
  <2> QED BY <1>1, <1>2, <1>3, UpdateTyped DEF Inv
<1>5. /\ new \in TickTypes /\ new.phase \in {"idle", "loop"}
      /\ new.phase # "idle" => new.list \subseteq Existing
  BY <1>1, LoopTyped
<1>6. /\ tick' = [tick EXCEPT ![k] = new]
      /\ UNCHANGED <<batches, aborts, faults, lapsed, chain, calls, tasks, up, sweep, orphans,
                     watch, expirable>>
  BY DEF OnConfirmedWrite
<1> HIDE DEF new, row
<1> QED BY <1>4, <1>5, <1>6, TickMoves DEF Inv, TypeOK

LEMMA TickFailsStep ==
  ASSUME Inv, NEW k \in Ticks, TickFails(k)
  PROVE  Inv'
<1>1. faults' \in 0..MaxFaults
  BY PaymentsAssumption DEF TickFails, Fault, Inv, TypeOK
<1>2. aborts' \in [Intents -> Nat]
  <2>1. tick[k].phase = "complete" => tick[k].intent \in Intents
    BY TickHolds DEF Inv
  <2> QED BY <2>1 DEF TickFails, Inv, TypeOK
<1>3. IdleTick \in TickTypes /\ IdleTick.phase = "idle"
  BY DEF TickTypes, IdleTick
<1> QED BY <1>1, <1>2, <1>3, TickMoves DEF TickFails, db, Existing, Inv, TypeOK

(***************************************************************************)
(* Expiry job, start, sweep, crash                                         *)
(***************************************************************************)
LEMMA ExpirySelectStep ==
  ASSUME Inv, getExpiredPendingIntents
  PROVE  Inv'
<1>1. TypeOK'
  BY DEF getExpiredPendingIntents, Inv, TypeOK, db
<1>2. ReferencesHold'
  BY DEF getExpiredPendingIntents, Inv, ReferencesHold, Existing, db, Mined
<1>3. SnapshotsChecked'
  BY DEF getExpiredPendingIntents, Inv, SnapshotsChecked
<1> QED BY <1>1, <1>2, <1>3 DEF Inv

LEMMA ExpireStep ==
  ASSUME Inv, NEW i \in Intents, expireIntentIfPending(i)
  PROVE  Inv'
<1>1. i \in Existing /\ rows[i] \in Row
  BY DEF expireIntentIfPending, Inv, ReferencesHold, TypeOK, Existing
<1>2. [rows[i] EXCEPT !.status = "EXPIRED"] \in Row
  BY <1>1 DEF Row, Statuses
<1>3. rows' \in [Intents -> Row \cup {NoRow}] /\ Existing \subseteq Existing'
  BY <1>2, NoRowAssumption DEF expireIntentIfPending, Inv, TypeOK, Existing
<1>4. TypeOK'
  BY <1>3 DEF expireIntentIfPending, Inv, TypeOK
<1>5. ReferencesHold'
  BY <1>3 DEF expireIntentIfPending, Inv, ReferencesHold, Mined
<1>6. SnapshotsChecked'
  BY DEF expireIntentIfPending, Inv, SnapshotsChecked
<1> QED BY <1>4, <1>5, <1>6 DEF Inv

LEMMA StartStep ==
  ASSUME Inv, Start
  PROVE  Inv'
<1>1. TypeOK'
  BY DEF Start, Inv, TypeOK, db
<1>2. ReferencesHold'
  BY DEF Start, Inv, ReferencesHold, Existing, db, Mined
<1>3. SnapshotsChecked'
  BY DEF Start, Inv, SnapshotsChecked
<1> QED BY <1>1, <1>2, <1>3 DEF Inv

LEMMA SweepStep ==
  ASSUME Inv, recoverOrphanedTransactions
  PROVE  Inv'
<1>1. faults' \in 0..MaxFaults
  BY PaymentsAssumption DEF recoverOrphanedTransactions, Fault, Inv, TypeOK
<1>2. orphans' \subseteq Intents \X Txs
  BY DEF recoverOrphanedTransactions, Inv, TypeOK, Row
<1>3. TypeOK'
  BY <1>1, <1>2 DEF recoverOrphanedTransactions, Inv, TypeOK, db
<1>4. ReferencesHold'
  BY DEF recoverOrphanedTransactions, Inv, ReferencesHold, Existing, db, Mined
<1>5. SnapshotsChecked'
  BY DEF recoverOrphanedTransactions, Inv, SnapshotsChecked
<1> QED BY <1>3, <1>4, <1>5 DEF Inv

LEMMA InFlightFinite ==
  ASSUME NEW i \in Intents
  PROVE  IsFiniteSet(InFlight(i)) /\ Cardinality(InFlight(i)) \in Nat
BY PaymentsAssumption, FS_Subset, FS_CardinalityType DEF InFlight

LEMMA CrashStep ==
  ASSUME Inv, Crash
  PROVE  Inv'
<1>1. faults' \in 0..MaxFaults
  BY PaymentsAssumption DEF Crash, Fault, Inv, TypeOK
<1>2. aborts' \in [Intents -> Nat]
  BY InFlightFinite DEF Crash, Inv, TypeOK
<1>3. tasks' \in [Calls -> TaskTypes]
  <2>1. ASSUME NEW c \in Calls, tasks[c].state = "delivered"
        PROVE  [tasks[c] EXCEPT !.state = "queued"] \in TaskTypes
    BY <2>1, TaskMoved DEF Inv
  <2> QED BY <2>1 DEF Crash, Inv, TypeOK
<1>4. /\ watch' \in [Watchers -> WatchTypes] /\ tick' \in [Ticks -> TickTypes]
      /\ \A w \in Watchers : watch'[w].phase = "idle"
      /\ \A k \in Ticks : tick'[k].phase = "idle"
  BY DEF Crash, WatchTypes, TickTypes, IdleWatch, IdleTick
<1>5. up' \in BOOLEAN /\ sweep' = "none" /\ orphans' = {} /\ expirable' = {}
  BY DEF Crash
<1>6. TypeOK'
  BY <1>1, <1>2, <1>3, <1>4, <1>5 DEF Crash, Inv, TypeOK, db
<1>7. ReferencesHold'
  BY <1>4, <1>5 DEF Crash, Inv, ReferencesHold, Existing, db, Mined
<1>8. SnapshotsChecked'
  BY <1>4 DEF Crash, Inv, SnapshotsChecked
<1> QED BY <1>6, <1>7, <1>8 DEF Inv
LEMMA StepInv == Inv /\ [Next]_vars => Inv'
<1> SUFFICES ASSUME Inv, [Next]_vars PROVE Inv'
  OBVIOUS
<1>1. CASE Environment
  BY <1>1, CreateStep, LapseStep, PayStep DEF Environment
<1>2. ASSUME NEW c \in Calls, ApiCall(c) PROVE Inv'
  BY <1>2, WatchReadStep, WatchPublishStep, WatchWriteStep, ReprocessReadStep,
     ReprocessWriteStep, CallFailsStep DEF ApiCall
<1>3. ASSUME NEW w \in Watchers, Watching(w) PROVE Inv'
  BY <1>3, OnLogsStep, DeliverTaskStep, RecoverTxStep, MarkReadStep, MarkWriteStep, GiveUpStep
     DEF Watching
<1>4. ASSUME NEW k \in Ticks, Ticking(k) PROVE Inv'
  BY <1>4, CheckStep, OnConfirmedReadStep, AddCreditsStep, OnConfirmedWriteStep, TickFailsStep
     DEF Ticking
<1>5. CASE getExpiredPendingIntents \/ \E i \in Intents : expireIntentIfPending(i)
  BY <1>5, ExpirySelectStep, ExpireStep
<1>6. CASE Start \/ recoverOrphanedTransactions \/ Crash
  BY <1>6, StartStep, SweepStep, CrashStep
<1>7. CASE UNCHANGED vars
  BY <1>7 DEF vars, Inv, TypeOK, ReferencesHold, SnapshotsChecked, Existing, Mined
<1> QED BY <1>1, <1>2, <1>3, <1>4, <1>5, <1>6, <1>7 DEF Next

\* Every variable keeps its type, whatever calls, watchers, polling runs and
\* faults interleave.
THEOREM TypeCorrect == Spec => []TypeOK
<1>1. Inv => TypeOK
  BY DEF Inv
<1> QED BY InitInv, StepInv, <1>1, PTL DEF Spec
(***************************************************************************)
(* Extra grants are accounted for                                          *)
(*                                                                         *)
(* ExtraGrantsAccounted is inductive once Inv says what each handler still *)
(* holds: only a polling run writes COMPLETED, and it holds a row that was *)
(* not COMPLETED, so finding the row COMPLETED already is a lost update.   *)
(***************************************************************************)
LEMMA AccountTyped ==
  ASSUME Inv, NEW i \in Intents
  PROVE  /\ clobbers[i] \in Nat /\ aborts[i] \in Nat /\ Completed(i) \in {0, 1}
         /\ Cardinality(InFlight(i)) \in Nat /\ Len(batches[i]) \in Nat
BY InFlightFinite DEF Inv, TypeOK, Completed

\* Writing a row back either keeps a completed intent completed or is a lost update.
LEMMA WriteCounted ==
  ASSUME Inv, NEW j \in Intents, NEW read, NEW new \in Row, updateIntent(j, read, new),
         read.status = "COMPLETED" => new.status = "COMPLETED", NEW i \in Intents
  PROVE  /\ clobbers'[i] \in Nat /\ Completed(i)' \in {0, 1}
         /\ clobbers'[i] + Completed(i)' >= clobbers[i] + Completed(i)
<1>1. CASE i # j
  BY <1>1, AccountTyped DEF updateIntent, Completed, Inv, TypeOK
<1>2. CASE i = j /\ rows[j] = read
  <2>1. Completed(j)' >= Completed(j) /\ Completed(j)' \in {0, 1} /\ Completed(j) \in {0, 1}
    BY <1>2, NoRowAssumption DEF updateIntent, Completed, Inv, TypeOK
  <2> QED BY <1>2, <2>1, AccountTyped DEF updateIntent, Inv, TypeOK
<1>3. CASE i = j /\ rows[j] # read
  <2>1. clobbers'[j] = clobbers[j] + 1
    BY <1>3 DEF updateIntent, Inv, TypeOK
  <2>2. Completed(j)' \in {0, 1}
    BY DEF Completed
  <2> QED BY <1>3, <2>1, <2>2, AccountTyped
<1> QED BY <1>1, <1>2, <1>3

\* A polling run that writes COMPLETED over a row it did not read COMPLETED.
LEMMA CompletionCounted ==
  ASSUME Inv, NEW j \in Intents, NEW read, NEW new \in Row, updateIntent(j, read, new),
         read.status # "COMPLETED", new.status = "COMPLETED"
  PROVE  clobbers'[j] + Completed(j)' >= clobbers[j] + Completed(j) + 1
<1>1. Completed(j)' = 1
  BY NoRowAssumption DEF updateIntent, Completed, Inv, TypeOK
<1>2. CASE rows[j] = read
  <2>1. Completed(j) = 0
    BY <1>2 DEF Completed
  <2> QED BY <1>1, <1>2, <2>1, AccountTyped DEF updateIntent
<1>3. CASE rows[j] # read
  <2>1. clobbers'[j] = clobbers[j] + 1
    BY <1>3 DEF updateIntent, Inv, TypeOK
  <2> QED BY <1>1, <2>1, AccountTyped
<1> QED BY <1>2, <1>3

\* A sum stays above a number when two of its terms together do not fall.
LEMMA SumKept ==
  ASSUME NEW len \in Nat, NEW c \in Nat, NEW a \in Nat, NEW f \in Nat, NEW d \in Nat,
         NEW c2 \in Nat, NEW d2 \in Nat, len <= c + a + f + d, c2 + d2 >= c + d
  PROVE  len <= c2 + a + f + d2
OBVIOUS

\* A step outside the polling loop: no batch, no run, and no less to account with.
LEMMA SameGrants ==
  ASSUME Inv, ExtraGrantsAccounted, UNCHANGED <<batches, tick, aborts>>,
         \A i \in Intents : /\ clobbers'[i] \in Nat /\ Completed(i)' \in {0, 1}
                            /\ clobbers'[i] + Completed(i)' >= clobbers[i] + Completed(i)
  PROVE  ExtraGrantsAccounted'
<1>1. ASSUME NEW i \in Intents
      PROVE  Len(batches[i]) <= clobbers'[i] + aborts[i] + Cardinality(InFlight(i)) + Completed(i)'
  <2>1. Len(batches[i]) <= clobbers[i] + aborts[i] + Cardinality(InFlight(i)) + Completed(i)
    BY DEF ExtraGrantsAccounted
  <2>2. /\ clobbers[i] \in Nat /\ aborts[i] \in Nat /\ Completed(i) \in Nat
        /\ Cardinality(InFlight(i)) \in Nat /\ Len(batches[i]) \in Nat
    BY AccountTyped
  <2>3. clobbers'[i] + Completed(i)' >= clobbers[i] + Completed(i)
    OBVIOUS
  <2>4. clobbers'[i] \in Nat /\ Completed(i)' \in Nat
    OBVIOUS
  <2> QED BY <2>1, <2>2, <2>3, <2>4, SumKept
<1>2. ASSUME NEW i \in Intents PROVE InFlight(i)' = InFlight(i)
  BY DEF InFlight
<1> QED BY <1>1, <1>2 DEF ExtraGrantsAccounted

\* Rows that change without a write back (inserted, or expired while PENDING).
LEMMA StatusesKept ==
  ASSUME Inv, ExtraGrantsAccounted, UNCHANGED <<batches, tick, aborts, clobbers>>,
         \A i \in Intents : Completed(i)' = Completed(i)
  PROVE  ExtraGrantsAccounted'
BY SameGrants, AccountTyped

\* The runs in flight on an intent when one run moves.
LEMMA OneRunMoves ==
  ASSUME Inv, NEW k \in Ticks, NEW new, tick' = [tick EXCEPT ![k] = new], NEW i \in Intents
  PROVE  /\ (tick[k].phase # "complete" \/ tick[k].intent # i)
            /\ (new.phase # "complete" \/ new.intent # i)
              => Cardinality(InFlight(i)') = Cardinality(InFlight(i))
         /\ (tick[k].phase # "complete") /\ (new.phase = "complete" /\ new.intent = i)
              => Cardinality(InFlight(i)') = Cardinality(InFlight(i)) + 1
         /\ (tick[k].phase = "complete" /\ tick[k].intent = i) /\ (new.phase # "complete")
              => Cardinality(InFlight(i)') = Cardinality(InFlight(i)) - 1
<1>0. \A l \in Ticks : tick'[l] = IF l = k THEN new ELSE tick[l]
  BY DEF Inv, TypeOK
<1>1. ASSUME tick[k].phase # "complete" \/ tick[k].intent # i,
             new.phase # "complete" \/ new.intent # i
      PROVE  InFlight(i)' = InFlight(i)
  BY <1>0, <1>1 DEF InFlight
<1>2. ASSUME tick[k].phase # "complete", new.phase = "complete" /\ new.intent = i
      PROVE  Cardinality(InFlight(i)') = Cardinality(InFlight(i)) + 1
  <2>1. InFlight(i)' = InFlight(i) \cup {k} /\ k \notin InFlight(i)
    BY <1>0, <1>2 DEF InFlight
  <2> QED BY <2>1, InFlightFinite, FS_AddElement
<1>3. ASSUME tick[k].phase = "complete" /\ tick[k].intent = i, new.phase # "complete"
      PROVE  Cardinality(InFlight(i)') = Cardinality(InFlight(i)) - 1
  <2>1. InFlight(i)' = InFlight(i) \ {k} /\ k \in InFlight(i)
    BY <1>0, <1>3 DEF InFlight
  <2> QED BY <2>1, InFlightFinite, FS_RemoveElement
<1> QED BY <1>1, <1>2, <1>3
\* API calls and watchers write rows back.
LEMMA WriteBacksAccounted ==
  ASSUME Inv, ExtraGrantsAccounted,
         \/ \E c \in Calls : WatchWrite(c) \/ ReprocessWrite(c)
         \/ \E w \in Watchers : MarkWrite(w)
  PROVE  ExtraGrantsAccounted'
<1>1. ASSUME NEW c \in Calls, WatchWrite(c) PROVE ExtraGrantsAccounted'
  <2> DEFINE new == [calls[c].row EXCEPT !.tx = calls[c].tx]
  <2>1. calls[c].intent \in Intents /\ calls[c].row \in Row /\ calls[c].tx \in Txs
    BY <1>1, CallHolds DEF WatchWrite, Inv
  <2>2. new \in Row /\ new.status = calls[c].row.status
    BY <2>1 DEF Row
  <2>3. updateIntent(calls[c].intent, calls[c].row, new) /\ UNCHANGED <<batches, tick, aborts>>
    BY <1>1 DEF WatchWrite, worker
  <2> HIDE DEF new
  <2> QED BY <2>1, <2>2, <2>3, WriteCounted, SameGrants
<1>2. ASSUME NEW c \in Calls, ReprocessWrite(c) PROVE ExtraGrantsAccounted'
  <2> DEFINE new == [calls[c].row EXCEPT !.status = "CONFIRMED"]
  <2>1. calls[c].intent \in Intents /\ calls[c].row \in Row
    BY <1>2, CallHolds DEF ReprocessWrite, Inv
  <2>2. new \in Row /\ calls[c].row.status # "COMPLETED"
    BY <1>2, <2>1 DEF Row, Statuses, ReprocessWrite, Inv, SnapshotsChecked
  <2>3. updateIntent(calls[c].intent, calls[c].row, new) /\ UNCHANGED <<batches, tick, aborts>>
    BY <1>2 DEF ReprocessWrite, worker
  <2> HIDE DEF new
  <2> QED BY <2>1, <2>2, <2>3, WriteCounted, SameGrants
<1>3. ASSUME NEW w \in Watchers, MarkWrite(w) PROVE ExtraGrantsAccounted'
  <2> DEFINE p == chain[watch[w].tx]
             new == [watch[w].row EXCEPT !.status = "CONFIRMED", !.amount = p.amount]
  <2>1. watch[w].row \in Row /\ p \in Payment
    BY <1>3, WatchHolds, MinedPays DEF MarkWrite, Inv, ReferencesHold
  <2>2. p.intent \in Intents /\ new \in Row /\ watch[w].row.status # "COMPLETED"
    BY <1>3, <2>1 DEF Row, Statuses, Payment, MarkWrite, Inv, SnapshotsChecked
  <2>3. updateIntent(p.intent, watch[w].row, new) /\ UNCHANGED <<batches, tick, aborts>>
    BY <1>3 DEF MarkWrite
  <2> HIDE DEF p, new
  <2> QED BY <2>2, <2>3, WriteCounted, SameGrants
<1> QED BY <1>1, <1>2, <1>3

LEMMA Shift ==
  ASSUME NEW len \in Nat, NEW c \in Nat, NEW a \in Nat, NEW n \in Nat, NEW d \in Nat,
         NEW c1 \in Nat, NEW d1 \in Nat, len <= c + a + n + d
  PROVE  /\ c1 + d1 >= c + d => len <= c1 + a + n + d1
         /\ c1 + d1 >= c + d + 1 => len <= c1 + a + (n - 1) + d1
OBVIOUS

\* The grant, the write that closes it, and a run that stops.
LEMMA TicksAccounted ==
  ASSUME Inv, ExtraGrantsAccounted, NEW k \in Ticks, Ticking(k)
  PROVE  ExtraGrantsAccounted'
<1> DEFINE Bound(i) == Len(batches[i]) <= clobbers[i] + aborts[i] + Cardinality(InFlight(i))
                                          + Completed(i)
<1> SUFFICES ASSUME NEW i \in Intents PROVE Bound(i)'
  BY DEF ExtraGrantsAccounted
<1>0. Bound(i)
  BY DEF ExtraGrantsAccounted
<1>1. /\ clobbers[i] \in Nat /\ aborts[i] \in Nat /\ Completed(i) \in Nat
      /\ Cardinality(InFlight(i)) \in Nat /\ Len(batches[i]) \in Nat
  BY AccountTyped
<1>2. ASSUME checkConfirmedIntents(k) \/ \E j \in Intents : OnConfirmedRead(k, j) PROVE Bound(i)'
  <2>1. /\ tick[k].phase \in {"idle", "loop"} /\ UNCHANGED <<db, aborts>>
        /\ \E new : tick' = [tick EXCEPT ![k] = new] /\ new.phase \in {"idle", "loop", "fail", "grant"}
    BY <1>2 DEF checkConfirmedIntents, OnConfirmedRead, Loop, IdleTick
  <2>2. Cardinality(InFlight(i)') = Cardinality(InFlight(i))
    BY <2>1, OneRunMoves
  <2>3. Completed(i)' = Completed(i)
    BY <2>1 DEF Completed, db
  <2> QED BY <1>0, <2>1, <2>2, <2>3 DEF db
<1>3. ASSUME AddCredits(k) PROVE Bound(i)'
  <2>1. /\ tick[k].phase = "grant" /\ tick[k].intent \in Intents
        /\ UNCHANGED <<rows, clobbers, aborts>>
    BY <1>3, TickHolds DEF AddCredits, Inv
  <2>2. Completed(i)' = Completed(i)
    BY <2>1 DEF Completed
  <2>3. CASE /\ tick' = [tick EXCEPT ![k] = Processing(k, "complete")]
             /\ batches' = [batches EXCEPT ![tick[k].intent] =
                              Append(@, getIntentCredits(tick[k].row))]
    <3>1. Processing(k, "complete").phase = "complete"
          /\ Processing(k, "complete").intent = tick[k].intent
      BY DEF Processing
    <3>2. CASE tick[k].intent = i
      <4>1. Cardinality(InFlight(i)') = Cardinality(InFlight(i)) + 1
        BY <2>1, <2>3, <3>1, <3>2, OneRunMoves
      <4>2. batches[i] \in Seq(Nat)
        BY DEF Inv, TypeOK
      <4>3. Len(batches'[i]) = Len(batches[i]) + 1
        BY <2>3, <3>2, <4>2 DEF Inv, TypeOK
      <4> QED BY <1>0, <1>1, <2>1, <2>2, <4>1, <4>3
    <3>3. CASE tick[k].intent # i
      <4>1. Cardinality(InFlight(i)') = Cardinality(InFlight(i))
        BY <2>1, <2>3, <3>1, <3>3, OneRunMoves
      <4>2. batches'[i] = batches[i]
        BY <2>3, <3>3 DEF Inv, TypeOK
      <4> QED BY <1>0, <2>1, <2>2, <4>1, <4>2
    <3> QED BY <3>2, <3>3
  <2>4. CASE tick' = [tick EXCEPT ![k] = Processing(k, "over_cap")] /\ UNCHANGED batches
    <3>1. Processing(k, "over_cap").phase = "over_cap"
      BY DEF Processing
    <3>2. Cardinality(InFlight(i)') = Cardinality(InFlight(i))
      BY <2>1, <2>4, <3>1, OneRunMoves
    <3> QED BY <1>0, <2>1, <2>2, <2>4, <3>2
  <2> QED BY <1>3, <2>3, <2>4 DEF AddCredits
<1>4. ASSUME OnConfirmedWrite(k) PROVE Bound(i)'
  <2> DEFINE j == tick[k].intent
             row == [tick[k].row EXCEPT !.status = Outcome[tick[k].phase]]
             new == Loop(tick[k].list)
  <2>1. /\ j \in Intents /\ tick[k].row \in Row /\ tick[k].row.status # "COMPLETED"
        /\ tick[k].phase \in {"complete", "over_cap", "fail"}
    BY <1>4, TickHolds DEF OnConfirmedWrite, Outcome, Inv, SnapshotsChecked
  <2>2. row \in Row /\ (row.status = "COMPLETED" <=> tick[k].phase = "complete")
    BY <2>1 DEF Row, Statuses, Outcome
  <2>3. new.phase \in {"idle", "loop"}
    BY DEF Loop, IdleTick
  <2>4. /\ updateIntent(j, tick[k].row, row) /\ tick' = [tick EXCEPT ![k] = new]
        /\ UNCHANGED <<batches, aborts>>
    BY <1>4 DEF OnConfirmedWrite
  <2> HIDE DEF row, new
  <2>5. CASE tick[k].phase = "complete" /\ j = i
    <3>1. Cardinality(InFlight(i)') = Cardinality(InFlight(i)) - 1
      BY <2>3, <2>4, <2>5, OneRunMoves
    <3>2. clobbers'[i] + Completed(i)' >= clobbers[i] + Completed(i) + 1
      BY <2>1, <2>2, <2>4, <2>5, CompletionCounted
    <3>3. clobbers'[i] \in Nat /\ Completed(i)' \in Nat
      BY <2>1, <2>2, <2>4, UpdateTyped DEF Completed, Inv
    <3>4. Len(batches'[i]) = Len(batches[i]) /\ aborts'[i] = aborts[i]
      BY <2>4
    <3>5. Len(batches[i]) <= clobbers'[i] + aborts[i] + (Cardinality(InFlight(i)) - 1)
                             + Completed(i)'
      <4> HIDE DEF Bound
      <4>1. Len(batches[i]) <= clobbers[i] + aborts[i] + Cardinality(InFlight(i)) + Completed(i)
        BY <1>0 DEF Bound
      <4> QED BY <1>1, <3>2, <3>3, <4>1, Shift
    <3> QED BY <3>1, <3>4, <3>5
  <2>6. CASE tick[k].phase = "complete" /\ j # i
    <3>1. Cardinality(InFlight(i)') = Cardinality(InFlight(i))
      BY <2>3, <2>4, <2>6, OneRunMoves
    <3>2. clobbers'[i] = clobbers[i] /\ Completed(i)' = Completed(i)
      BY <2>4, <2>6 DEF updateIntent, Completed, Inv, TypeOK
    <3> QED BY <1>0, <2>4, <3>1, <3>2
  <2>7. CASE tick[k].phase # "complete"
    <3>1. Cardinality(InFlight(i)') = Cardinality(InFlight(i))
      BY <2>3, <2>4, <2>7, OneRunMoves
    <3>2. /\ clobbers'[i] \in Nat /\ Completed(i)' \in {0, 1}
          /\ clobbers'[i] + Completed(i)' >= clobbers[i] + Completed(i)
      BY <2>1, <2>2, <2>4, WriteCounted
    <3>3. Len(batches'[i]) = Len(batches[i]) /\ aborts'[i] = aborts[i]
      BY <2>4
    <3>4. Len(batches[i]) <= clobbers'[i] + aborts[i] + Cardinality(InFlight(i)) + Completed(i)'
      <4>1. Len(batches[i]) <= clobbers[i] + aborts[i] + Cardinality(InFlight(i)) + Completed(i)
        BY <1>0
      <4> QED BY <1>1, <3>2, <4>1, Shift
    <3> QED BY <3>1, <3>3, <3>4
  <2> QED BY <2>5, <2>6, <2>7
<1>5. ASSUME TickFails(k) PROVE Bound(i)'
  <2>1. /\ tick' = [tick EXCEPT ![k] = IdleTick] /\ IdleTick.phase = "idle"
        /\ UNCHANGED <<rows, batches, clobbers>>
    BY <1>5 DEF TickFails, IdleTick, db
  <2>2. Completed(i)' = Completed(i)
    BY <2>1 DEF Completed
  <2>3. CASE tick[k].phase = "complete" /\ tick[k].intent = i
    <3>1. Cardinality(InFlight(i)') = Cardinality(InFlight(i)) - 1
      BY <2>1, <2>3, OneRunMoves
    <3>2. aborts'[i] = aborts[i] + 1
      BY <1>5, <2>3 DEF TickFails, Inv, TypeOK
    <3> QED BY <1>0, <1>1, <2>1, <2>2, <3>1, <3>2
  <2>4. CASE ~(tick[k].phase = "complete" /\ tick[k].intent = i)
    <3>1. Cardinality(InFlight(i)') = Cardinality(InFlight(i))
      BY <2>1, <2>4, OneRunMoves
    <3>2. aborts'[i] = aborts[i]
      BY <1>5, <2>4 DEF TickFails, Inv, TypeOK
    <3> QED BY <1>0, <2>1, <2>2, <3>1, <3>2
  <2> QED BY <2>3, <2>4
<1> QED BY <1>2, <1>3, <1>4, <1>5 DEF Ticking

LEMMA CrashAccounted ==
  ASSUME Inv, ExtraGrantsAccounted, Crash
  PROVE  ExtraGrantsAccounted'
<1> SUFFICES ASSUME NEW i \in Intents
             PROVE  Len(batches'[i]) <= clobbers'[i] + aborts'[i] + Cardinality(InFlight(i)')
                                        + Completed(i)'
  BY DEF ExtraGrantsAccounted
<1>1. InFlight(i)' = {}
  BY DEF Crash, InFlight, IdleTick
<1>2. aborts'[i] = aborts[i] + Cardinality(InFlight(i))
  BY DEF Crash
<1>3. Completed(i)' = Completed(i) /\ UNCHANGED <<batches, clobbers>>
  BY DEF Crash, Completed, db
<1>4. Len(batches[i]) <= clobbers[i] + aborts[i] + Cardinality(InFlight(i)) + Completed(i)
  BY DEF ExtraGrantsAccounted
<1> QED BY <1>1, <1>2, <1>3, <1>4, AccountTyped, FS_EmptySet

\* No interleaving, crash or failed await grants an intent twice unless an
\* update was lost or a run stopped between the grant and its write.
THEOREM ExtraGrantsCounted == Spec => []ExtraGrantsAccounted
<1>1. Init => ExtraGrantsAccounted
  <2> SUFFICES ASSUME Init, NEW i \in Intents
               PROVE  Len(batches[i]) <= clobbers[i] + aborts[i] + Cardinality(InFlight(i))
                                         + Completed(i)
    BY DEF ExtraGrantsAccounted
  <2>1. Len(batches[i]) = 0 /\ clobbers[i] = 0 /\ aborts[i] = 0 /\ Completed(i) = 0
    BY DEF Init, Completed
  <2> QED BY <2>1, InFlightFinite
<1>2. Inv /\ ExtraGrantsAccounted /\ [Next]_vars => ExtraGrantsAccounted'
  <2> SUFFICES ASSUME Inv, ExtraGrantsAccounted, [Next]_vars PROVE ExtraGrantsAccounted'
    OBVIOUS
  <2>1. CASE Environment
    <3>1. UNCHANGED <<batches, tick, aborts, clobbers>>
      BY <2>1 DEF Environment, createIntent, PriceWindowLapses, Pay, worker, db
    <3>2. ASSUME NEW i \in Intents PROVE Completed(i)' = Completed(i)
      <4>1. CASE \E u \in Users, j \in Intents, q \in Prices : createIntent(u, j, q)
        BY <4>1 DEF createIntent, Completed, Inv, TypeOK
      <4>2. CASE UNCHANGED rows
        BY <4>2 DEF Completed
      <4> QED BY <2>1, <4>1, <4>2 DEF Environment, PriceWindowLapses, Pay, db
    <3> QED BY <3>1, <3>2, StatusesKept
  <2>2. ASSUME NEW c \in Calls, ApiCall(c) PROVE ExtraGrantsAccounted'
    BY <2>2, StatusesKept, WriteBacksAccounted
       DEF ApiCall, WatchRead, WatchPublish, ReprocessRead, CallFails, Completed, worker, db
  <2>3. ASSUME NEW w \in Watchers, Watching(w) PROVE ExtraGrantsAccounted'
    BY <2>3, StatusesKept, WriteBacksAccounted
       DEF Watching, onLogs, DeliverTask, RecoverTx, MarkRead, ReceiptTimesOut, WatchFails, GiveUp,
           Completed, db
  <2>4. ASSUME NEW k \in Ticks, Ticking(k) PROVE ExtraGrantsAccounted'
    BY <2>4, TicksAccounted
  <2>5. CASE getExpiredPendingIntents \/ Start \/ recoverOrphanedTransactions
    BY <2>5, StatusesKept
       DEF getExpiredPendingIntents, Start, recoverOrphanedTransactions, Completed, db
  <2>6. ASSUME NEW j \in Intents, expireIntentIfPending(j) PROVE ExtraGrantsAccounted'
    <3>1. \A i \in Intents : Completed(i)' = Completed(i)
      BY <2>6 DEF expireIntentIfPending, Completed, Inv, TypeOK, Row
    <3> QED BY <2>6, <3>1, StatusesKept DEF expireIntentIfPending
  <2>7. CASE Crash
    BY <2>7, CrashAccounted
  <2>8. CASE UNCHANGED vars
    BY <2>8 DEF vars, ExtraGrantsAccounted, InFlight, Completed
  <2> QED BY <2>1, <2>2, <2>3, <2>4, <2>5, <2>6, <2>7, <2>8 DEF Next
<1> QED BY InitInv, StepInv, <1>1, <1>2, PTL DEF Spec

(***************************************************************************)
(* Grants and rows agree with the payments                                 *)
(*                                                                         *)
(* What a handler read may be written back at any later time, so the       *)
(* invariant says of every row still held what it says of the table's.     *)
(* Payments are never taken back, batches never removed and prices never   *)
(* changed, so such a row stays truthful however stale it is.              *)
(***************************************************************************)
\* RowTruthful, with the payments and the batches it speaks of as parameters.
Truthful(ch, bs, i, r) ==
  /\ r.status \in {"PENDING", "EXPIRED"} <=> r.amount = 0
  /\ r.amount # 0 => \E t \in Txs : ch[t] = [intent |-> i, amount |-> r.amount]
  /\ r.status = "FAILED" => getIntentCredits(r) = 0
  /\ r.status = "OVER_CAP" => getIntentCredits(r) > 0
  /\ r.status = "COMPLETED" => \E n \in DOMAIN bs[i] : bs[i][n] = getIntentCredits(r)

\* A row that a handler may write back for intent i.
HeldIn(rs, ch, bs, i, r) ==
  i \in Intents /\ rs[i] # NoRow /\ r.price = rs[i].price /\ Truthful(ch, bs, i, r)

Held(i, r)     == HeldIn(rows, chain, batches, i, r)
HeldNext(i, r) == HeldIn(rows', chain', batches', i, r)

\* A polling run settles only what was paid, and says only what it did.
Settles(bs, i, r, phase) ==
  /\ r.amount # 0
  /\ phase = "fail" <=> getIntentCredits(r) = 0
  /\ phase = "complete" => \E n \in DOMAIN bs[i] : bs[i][n] = getIntentCredits(r)

\* Batch n of intent i is worth a payment, at the price of the intent's row.
Worth(rs, ch, bs, i, n) ==
  /\ rs[i] # NoRow /\ bs[i][n] > 0
  /\ \E t \in Txs : ch[t].intent = i /\ bs[i][n] = Bytes(ch[t].amount, rs[i].price)

HeldByCalls ==
  \A c \in Calls : calls[c].phase \in {"publish", "watch", "reprocess"}
                   => Held(calls[c].intent, calls[c].row)

HeldByWatchers ==
  \A w \in Watchers : watch[w].phase = "mark" => Held(chain[watch[w].tx].intent, watch[w].row)

Granting == {"grant", "complete", "over_cap", "fail"}

HeldByTicks ==
  \A k \in Ticks : tick[k].phase \in Granting =>
    /\ Held(tick[k].intent, tick[k].row)
    /\ Settles(batches, tick[k].intent, tick[k].row, tick[k].phase)

GrantsWorth == \A i \in Intents : \A n \in DOMAIN batches[i] : Worth(rows, chain, batches, i, n)

RowsHeld == \A i \in Intents : rows[i] # NoRow => Held(i, rows[i])

Truth == GrantsWorth /\ RowsHeld /\ HeldByCalls /\ HeldByWatchers /\ HeldByTicks

LEMMA TruthSuffices == Truth => PaymentsTruthful
<1> SUFFICES ASSUME Truth PROVE PaymentsTruthful
  OBVIOUS
<1>1. GrantsArePaidFor
  BY DEF Truth, GrantsWorth, Worth, GrantsArePaidFor
<1>2. RowsTruthful
  BY DEF Truth, RowsHeld, Held, HeldIn, Truthful, RowsTruthful, RowTruthful
<1> QED BY <1>1, <1>2 DEF PaymentsTruthful

LEMMA TruthAtFirst == Init => Truth
BY DEF Init, Truth, GrantsWorth, RowsHeld, HeldByCalls, HeldByWatchers, HeldByTicks, IdleCall,
       IdleWatch, IdleTick, Granting

\* What no step takes back: rows and their prices, payments, batches.
Persists ==
  /\ \A i \in Intents : rows[i] # NoRow => rows'[i] # NoRow /\ rows'[i].price = rows[i].price
  /\ \A t \in Txs : Mined(t) => chain'[t] = chain[t]
  /\ \A i \in Intents : \A n \in DOMAIN batches[i] :
       n \in DOMAIN batches'[i] /\ batches'[i][n] = batches[i][n]

LEMMA RowMoney ==
  ASSUME NEW r \in Row
  PROVE  r.amount \in Nat /\ r.price \in Nat \ {0} /\ getIntentCredits(r) \in Nat
<1>1. r.amount \in Amounts \cup {0} /\ r.price \in Prices
  BY DEF Row
<1>2. r.amount \in Nat /\ r.price \in Nat \ {0}
  BY <1>1, MoneyTyped
<1> QED BY <1>2 DEF getIntentCredits

LEMMA HeldStays ==
  ASSUME Persists, NEW i, NEW r, Held(i, r)
  PROVE  HeldNext(i, r)
<1>1. i \in Intents /\ rows[i] # NoRow /\ r.price = rows[i].price /\ Truthful(chain, batches, i, r)
  BY DEF Held, HeldIn
<1>2. rows'[i] # NoRow /\ r.price = rows'[i].price
  BY <1>1 DEF Persists
<1>3. r.amount # 0 => \E t \in Txs : chain'[t] = [intent |-> i, amount |-> r.amount]
  <2> SUFFICES ASSUME r.amount # 0
               PROVE  \E t \in Txs : chain'[t] = [intent |-> i, amount |-> r.amount]
    OBVIOUS
  <2>1. PICK t \in Txs : chain[t] = [intent |-> i, amount |-> r.amount]
    BY <1>1 DEF Truthful
  <2>2. Mined(t)
    BY <2>1 DEF Mined, NoPayment
  <2> QED BY <2>1, <2>2 DEF Persists
<1>4. \A n \in DOMAIN batches[i] : n \in DOMAIN batches'[i] /\ batches'[i][n] = batches[i][n]
  BY <1>1 DEF Persists
<1>5. Truthful(chain', batches', i, r)
  BY <1>1, <1>3, <1>4 DEF Truthful
<1> QED BY <1>1, <1>2, <1>5 DEF HeldNext, HeldIn

LEMMA WorthStays ==
  ASSUME Inv, Persists, NEW i \in Intents, NEW n \in DOMAIN batches[i],
         Worth(rows, chain, batches, i, n)
  PROVE  Worth(rows', chain', batches', i, n)
<1>1. /\ rows[i] \in Row /\ batches'[i][n] = batches[i][n]
      /\ rows'[i] # NoRow /\ rows'[i].price = rows[i].price
  BY DEF Worth, Persists, Inv, TypeOK
<1>2. PICK t \in Txs : chain[t].intent = i /\ batches[i][n] = Bytes(chain[t].amount, rows[i].price)
  BY DEF Worth
<1>3. Mined(t)
  <2> SUFFICES ASSUME chain[t] = NoPayment PROVE FALSE
    BY DEF Mined
  <2>1. rows[i].price \in Nat \ {0} /\ chain[t].amount = 0
    BY <1>1, RowMoney DEF NoPayment
  <2>2. Bytes(0, rows[i].price) = 0
    BY <2>1 DEF Bytes
  <2> QED BY <1>2, <2>1, <2>2 DEF Worth
<1>4. chain'[t] = chain[t]
  BY <1>3 DEF Persists
<1> QED BY <1>1, <1>2, <1>4 DEF Worth

\* A step keeps the agreement when what it writes, reads and grants is truthful.
LEMMA TruthKept ==
  ASSUME Inv, Truth, Persists,
         \A i \in Intents : rows'[i] # rows[i] => HeldNext(i, rows'[i]),
         \A i \in Intents : \A n \in DOMAIN batches'[i] :
           n \notin DOMAIN batches[i] => Worth(rows', chain', batches', i, n),
         \A c \in Calls : calls'[c].phase \in {"publish", "watch", "reprocess"} =>
           \/ calls[c].phase \in {"publish", "watch", "reprocess"}
              /\ calls'[c].intent = calls[c].intent /\ calls'[c].row = calls[c].row
           \/ HeldNext(calls'[c].intent, calls'[c].row),
         \A w \in Watchers : watch'[w].phase = "mark" =>
           watch'[w] = watch[w] \/ HeldNext(chain'[watch'[w].tx].intent, watch'[w].row),
         \A k \in Ticks : tick'[k].phase \in Granting =>
           \/ tick'[k] = tick[k]
           \/ /\ HeldNext(tick'[k].intent, tick'[k].row)
              /\ Settles(batches', tick'[k].intent, tick'[k].row, tick'[k].phase)
  PROVE  Truth'
<1>1. GrantsWorth'
  <2> SUFFICES ASSUME NEW i \in Intents, NEW n \in DOMAIN batches'[i]
               PROVE  Worth(rows', chain', batches', i, n)
    BY DEF GrantsWorth
  <2>1. CASE n \in DOMAIN batches[i]
    BY <2>1, WorthStays DEF Truth, GrantsWorth
  <2> QED BY <2>1
<1>2. RowsHeld'
  <2> SUFFICES ASSUME NEW i \in Intents, rows'[i] # NoRow PROVE HeldNext(i, rows'[i])
    BY DEF RowsHeld, Held, HeldNext
  <2>1. CASE rows'[i] = rows[i]
    <3>1. Held(i, rows[i])
      BY <2>1 DEF Truth, RowsHeld
    <3>2. HeldNext(i, rows[i])
      BY <3>1, HeldStays
    <3> QED BY <2>1, <3>2
  <2> QED BY <2>1
<1>3. HeldByCalls'
  <2> SUFFICES ASSUME NEW c \in Calls, calls'[c].phase \in {"publish", "watch", "reprocess"}
               PROVE  HeldNext(calls'[c].intent, calls'[c].row)
    BY DEF HeldByCalls, Held, HeldNext
  <2>1. CASE /\ calls[c].phase \in {"publish", "watch", "reprocess"}
             /\ calls'[c].intent = calls[c].intent /\ calls'[c].row = calls[c].row
    <3>1. HeldNext(calls[c].intent, calls[c].row)
      BY <2>1, HeldStays DEF Truth, HeldByCalls
    <3> QED BY <2>1, <3>1
  <2> QED BY <2>1
<1>4. HeldByWatchers'
  <2> SUFFICES ASSUME NEW w \in Watchers, watch'[w].phase = "mark"
               PROVE  HeldNext(chain'[watch'[w].tx].intent, watch'[w].row)
    BY DEF HeldByWatchers, Held, HeldNext
  <2>1. CASE watch'[w] = watch[w]
    <3>1. HeldNext(chain[watch[w].tx].intent, watch[w].row)
      BY <2>1, HeldStays DEF Truth, HeldByWatchers
    <3>2. chain'[watch[w].tx] = chain[watch[w].tx]
      BY <2>1, WatchHolds DEF Inv, ReferencesHold, Persists
    <3> QED BY <2>1, <3>1, <3>2
  <2> QED BY <2>1
<1>5. HeldByTicks'
  <2> SUFFICES ASSUME NEW k \in Ticks, tick'[k].phase \in Granting
               PROVE  /\ HeldNext(tick'[k].intent, tick'[k].row)
                      /\ Settles(batches', tick'[k].intent, tick'[k].row, tick'[k].phase)
    BY DEF HeldByTicks, Held, HeldNext
  <2>1. CASE tick'[k] = tick[k]
    <3> DEFINE i == tick[k].intent
               r == tick[k].row
    <3>1. Held(i, r) /\ Settles(batches, i, r, tick[k].phase)
      BY <2>1 DEF Truth, HeldByTicks
    <3>2. HeldNext(i, r)
      BY <3>1, HeldStays
    <3>3. i \in Intents
      BY <3>1 DEF Held, HeldIn
    <3>4. Settles(batches', i, r, tick[k].phase)
      BY <3>1, <3>3 DEF Settles, Persists
    <3> QED BY <2>1, <3>2, <3>4
  <2> QED BY <2>1
<1> QED BY <1>1, <1>2, <1>3, <1>4, <1>5 DEF Truth

\* The four ways a row is changed before it is written back.
LEMMA TxWritten ==
  ASSUME NEW ch, NEW bs, NEW i, NEW r \in Row, NEW t, Truthful(ch, bs, i, r)
  PROVE  /\ Truthful(ch, bs, i, [r EXCEPT !.tx = t])
         /\ [r EXCEPT !.tx = t].price = r.price
BY DEF Truthful, Row, getIntentCredits

WithStatus(r, st) == [r EXCEPT !.status = st]

LEMMA StatusWritten ==
  ASSUME NEW ch, NEW bs, NEW i, NEW r \in Row, Truthful(ch, bs, i, r), r.amount # 0,
         NEW st \in {"CONFIRMED", "COMPLETED", "FAILED", "OVER_CAP"},
         st = "FAILED" => getIntentCredits(r) = 0,
         st = "OVER_CAP" => getIntentCredits(r) > 0,
         st = "COMPLETED" => \E n \in DOMAIN bs[i] : bs[i][n] = getIntentCredits(r)
  PROVE  /\ Truthful(ch, bs, i, WithStatus(r, st))
         /\ WithStatus(r, st).price = r.price
<1> DEFINE q == WithStatus(r, st)
<1>1. q.status = st /\ q.amount = r.amount /\ q.price = r.price
  BY DEF Row, WithStatus
<1> HIDE DEF q
<1>2. getIntentCredits(q) = getIntentCredits(r)
  BY <1>1 DEF getIntentCredits
<1>3. Truthful(ch, bs, i, q)
  BY <1>1, <1>2 DEF Truthful
<1> QED BY <1>1, <1>3 DEF q

Confirmed(r, a) == [r EXCEPT !.status = "CONFIRMED", !.amount = a]

LEMMA PaymentWritten ==
  ASSUME NEW ch, NEW bs, NEW r \in Row, NEW t \in Txs, ch[t] \in Payment
  PROVE  /\ Truthful(ch, bs, ch[t].intent, Confirmed(r, ch[t].amount))
         /\ Confirmed(r, ch[t].amount).price = r.price
<1> DEFINE q == Confirmed(r, ch[t].amount)
<1>1. q.status = "CONFIRMED" /\ q.amount = ch[t].amount /\ q.price = r.price
  BY DEF Row, Confirmed
<1> HIDE DEF q
<1>2. ch[t].amount \in Amounts /\ ch[t] = [intent |-> ch[t].intent, amount |-> ch[t].amount]
  BY DEF Payment
<1>3. ch[t].amount # 0
  BY <1>2, PaymentsAssumption
<1> QED BY <1>1, <1>2, <1>3 DEF Truthful, q

LEMMA ExpiryWritten ==
  ASSUME NEW ch, NEW bs, NEW i, NEW r \in Row, Truthful(ch, bs, i, r), r.status = "PENDING"
  PROVE  /\ Truthful(ch, bs, i, [r EXCEPT !.status = "EXPIRED"])
         /\ [r EXCEPT !.status = "EXPIRED"].price = r.price
<1> DEFINE q == [r EXCEPT !.status = "EXPIRED"]
<1>1. q.status = "EXPIRED" /\ q.amount = r.amount /\ q.price = r.price
  BY DEF Row
<1> HIDE DEF q
<1>2. Truthful(ch, bs, i, q)
  BY <1>1 DEF Truthful
<1> QED BY <1>1, <1>2 DEF q

\* A row written back under the price it was read with takes nothing back,
\* and the table holds what was written.
LEMMA WrittenBack ==
  ASSUME Inv, NEW i \in Intents, NEW read, NEW r, NEW row \in Row, updateIntent(i, read, row),
         UNCHANGED <<chain, batches>>, Held(i, r), row.price = r.price,
         Truthful(chain, batches, i, row)
  PROVE  /\ Persists
         /\ \A j \in Intents : rows'[j] # rows[j] => HeldNext(j, rows'[j])
<1>1. /\ rows[i] # NoRow /\ row.price = rows[i].price /\ row # NoRow
  BY NoRowAssumption DEF Held, HeldIn
<1>2. rows' = [rows EXCEPT ![i] = row] /\ rows \in [Intents -> Row \cup {NoRow}]
  BY DEF updateIntent, Inv, TypeOK
<1>3. rows'[i] = row /\ \A j \in Intents : j # i => rows'[j] = rows[j]
  BY <1>2
<1>4. Persists
  BY <1>1, <1>3 DEF Persists
<1>5. HeldNext(i, row)
  BY <1>1, <1>3 DEF HeldNext, HeldIn
<1>6. \A j \in Intents : rows'[j] # rows[j] => HeldNext(j, rows'[j])
  BY <1>3, <1>5
<1> QED BY <1>4, <1>6

\* A step that writes no table takes nothing back.
LEMMA NothingWritten ==
  ASSUME UNCHANGED <<rows, chain, batches>>
  PROVE  Persists /\ \A i \in Intents : rows'[i] = rows[i]
BY DEF Persists

\* Users and the chain.
LEMMA EnvironmentTruth ==
  ASSUME Inv, Truth, Environment
  PROVE  Truth'
<1>1. UNCHANGED <<batches, calls, watch, tick>>
  BY DEF Environment, createIntent, PriceWindowLapses, Pay, worker, db
<1>2. ASSUME NEW u \in Users, NEW i \in Intents, NEW p \in Prices, createIntent(u, i, p)
      PROVE  Persists /\ \A j \in Intents : rows'[j] # rows[j] => HeldNext(j, rows'[j])
  <2> DEFINE row == [status |-> "PENDING", user |-> u, price |-> p, tx |-> NoTx, amount |-> 0]
  <2>1. row \in Row /\ row.status = "PENDING" /\ row.amount = 0
    BY DEF Row, Statuses
  <2>2. /\ rows[i] = NoRow /\ rows' = [rows EXCEPT ![i] = row]
        /\ rows \in [Intents -> Row \cup {NoRow}] /\ UNCHANGED chain
    BY <1>2 DEF createIntent, Inv, TypeOK
  <2> HIDE DEF row
  <2>3. rows'[i] = row /\ row # NoRow /\ \A j \in Intents : j # i => rows'[j] = rows[j]
    BY <2>1, <2>2, NoRowAssumption
  <2>4. Persists
    BY <1>1, <2>2, <2>3 DEF Persists
  <2>5. HeldNext(i, row)
    BY <2>1, <2>3 DEF HeldNext, HeldIn, Truthful
  <2> QED BY <2>3, <2>4, <2>5
<1>3. ASSUME NEW i \in Intents, PriceWindowLapses(i)
      PROVE  Persists /\ \A j \in Intents : rows'[j] = rows[j]
  BY <1>3, NothingWritten DEF PriceWindowLapses, db
<1>4. ASSUME NEW t \in Txs, NEW i \in Intents, NEW a \in Amounts, Pay(t, i, a)
      PROVE  Persists /\ \A j \in Intents : rows'[j] = rows[j]
  <2>1. /\ UNCHANGED <<rows, batches>> /\ ~Mined(t)
        /\ \A s \in Txs : s # t => chain'[s] = chain[s]
    BY <1>4 DEF Pay, db, Inv, TypeOK
  <2> QED BY <2>1 DEF Persists
<1>5. Persists /\ \A j \in Intents : rows'[j] # rows[j] => HeldNext(j, rows'[j])
  BY <1>2, <1>3, <1>4 DEF Environment
<1>6. \A w \in Watchers : watch'[w].phase = "mark" => watch'[w] = watch[w]
  BY <1>1
<1> QED BY <1>1, <1>5, <1>6, TruthKept

\* API calls.
LEMMA ApiCallTruth ==
  ASSUME Inv, Truth, NEW c \in Calls, ApiCall(c)
  PROVE  Truth'
<1>1. UNCHANGED <<chain, batches, watch, tick>>
  BY DEF ApiCall, WatchRead, WatchPublish, WatchWrite, ReprocessRead, ReprocessWrite, CallFails,
         worker, db
<1>2. \A d \in Calls : d # c => calls'[d] = calls[d]
  BY DEF ApiCall, WatchRead, WatchPublish, WatchWrite, ReprocessRead, ReprocessWrite, CallFails,
         Inv, TypeOK
<1>3. ASSUME NEW i \in Intents, rows[i] # NoRow PROVE Held(i, rows[i])
  BY <1>3 DEF Truth, RowsHeld
<1> DEFINE Reads == \E i \in Intents : /\ rows[i] # NoRow /\ UNCHANGED rows
                                      /\ calls'[c].intent = i /\ calls'[c].row = rows[i]
           Ends  == calls'[c].phase = "done"
           Moves == /\ calls[c].phase = "publish" /\ UNCHANGED rows
                    /\ calls'[c].intent = calls[c].intent /\ calls'[c].row = calls[c].row
           Writes == /\ Persists
                     /\ \A j \in Intents : rows'[j] # rows[j] => HeldNext(j, rows'[j])
<1>4. ASSUME NEW u \in Users, NEW i \in Intents, NEW t \in Txs, WatchRead(c, u, i, t) PROVE Reads
  BY <1>4 DEF WatchRead, Inv, TypeOK, db
<1>5. ASSUME NEW i \in Intents, ReprocessRead(c, i) PROVE Reads
  BY <1>5 DEF ReprocessRead, Inv, TypeOK, db
<1>6. ASSUME WatchPublish(c) PROVE Moves
  BY <1>6, CallHolds DEF WatchPublish, Inv, TypeOK, db
<1>7. ASSUME CallFails(c) PROVE Ends /\ UNCHANGED rows
  BY <1>7 DEF CallFails, Inv, TypeOK, db, DoneCall
<1>8. ASSUME WatchWrite(c) PROVE Ends /\ Writes
  <2> DEFINE i == calls[c].intent
             r == calls[c].row
             row == [r EXCEPT !.tx = calls[c].tx]
  <2>1. /\ i \in Intents /\ r \in Row /\ calls[c].tx \in Txs /\ Held(i, r)
        /\ updateIntent(i, r, row)
    BY <1>8, CallHolds DEF WatchWrite, Inv, Truth, HeldByCalls
  <2>2. row \in Row
    BY <2>1 DEF Row
  <2>3. Truthful(chain, batches, i, row) /\ row.price = r.price
    BY <2>1, TxWritten DEF Held, HeldIn
  <2>4. Ends
    BY <1>8 DEF WatchWrite, Inv, TypeOK, DoneCall
  <2> HIDE DEF i, r, row
  <2> QED BY <1>1, <2>1, <2>2, <2>3, <2>4, WrittenBack
<1>9. ASSUME ReprocessWrite(c) PROVE Ends /\ Writes
  <2> DEFINE i == calls[c].intent
             r == calls[c].row
             row == WithStatus(r, "CONFIRMED")
  <2>1. /\ i \in Intents /\ r \in Row /\ Held(i, r) /\ r.status = "OVER_CAP"
        /\ updateIntent(i, r, row)
    BY <1>9, CallHolds DEF WithStatus, ReprocessWrite, Inv, Truth, HeldByCalls, SnapshotsChecked
  <2>2. row \in Row
    BY <2>1 DEF Row, Statuses, WithStatus
  <2>3. r.amount # 0 /\ Truthful(chain, batches, i, r)
    BY <2>1 DEF Held, HeldIn, Truthful
  <2>4. Truthful(chain, batches, i, row) /\ row.price = r.price
    BY <2>1, <2>3, StatusWritten
  <2>5. Ends
    BY <1>9 DEF ReprocessWrite, Inv, TypeOK, DoneCall
  <2> HIDE DEF i, r, row
  <2> QED BY <1>1, <2>1, <2>2, <2>4, <2>5, WrittenBack
<1>10. UNCHANGED rows => Writes
  BY <1>1, NothingWritten
<1> HIDE DEF Writes, Reads, Moves, Ends
<1>11. Writes /\ (Ends \/ Moves \/ Reads)
  BY <1>4, <1>5, <1>6, <1>7, <1>8, <1>9, <1>10 DEF ApiCall, Reads, Moves
<1>12. CASE Reads
  <2>1. PICK i \in Intents : /\ rows[i] # NoRow
                             /\ calls'[c].intent = i /\ calls'[c].row = rows[i]
    BY <1>12 DEF Reads
  <2>2. HeldNext(i, rows[i])
    BY <1>3, <1>11, <2>1, HeldStays DEF Writes
  <2>3. \A d \in Calls : calls'[d] = calls[d] \/ HeldNext(calls'[d].intent, calls'[d].row)
    BY <1>2, <2>1, <2>2
  <2> QED BY <1>1, <1>11, <2>3, TruthKept DEF Writes
<1>13. CASE Moves
  BY <1>1, <1>2, <1>11, <1>13, TruthKept DEF Writes, Moves
<1>14. CASE Ends
  BY <1>1, <1>2, <1>11, <1>14, TruthKept DEF Writes, Ends
<1> QED BY <1>11, <1>12, <1>13, <1>14

\* Watchers.
LEMMA WatchingTruth ==
  ASSUME Inv, Truth, NEW w \in Watchers, Watching(w)
  PROVE  Truth'
<1>1. UNCHANGED <<chain, batches, calls, tick>>
  BY DEF Watching, onLogs, DeliverTask, RecoverTx, MarkRead, MarkWrite, ReceiptTimesOut,
         WatchFails, GiveUp, db
<1>2. \A v \in Watchers : v # w => watch'[v] = watch[v]
  BY DEF Watching, onLogs, DeliverTask, RecoverTx, StartWatch, MarkRead, MarkWrite,
         ReceiptTimesOut, WatchFails, GiveUp, Inv, TypeOK
<1> DEFINE Reads == /\ UNCHANGED rows
                    /\ rows[chain'[watch'[w].tx].intent] # NoRow
                    /\ chain'[watch'[w].tx].intent \in Intents
                    /\ watch'[w].row = rows[chain'[watch'[w].tx].intent]
           Leaves == watch'[w].phase # "mark"
           Writes == /\ Persists
                     /\ \A j \in Intents : rows'[j] # rows[j] => HeldNext(j, rows'[j])
<1>3. ASSUME NEW t \in Txs, onLogs(w, t) PROVE Leaves /\ UNCHANGED rows
  BY <1>3, StartWatchTyped DEF onLogs, db
<1>4. ASSUME NEW c \in Calls, DeliverTask(w, c) PROVE Leaves /\ UNCHANGED rows
  BY <1>4, StartWatchTyped, TaskFields DEF DeliverTask, db, Inv
<1>5. ASSUME NEW o \in orphans, RecoverTx(w, o) PROVE Leaves /\ UNCHANGED rows
  <2>1. o[2] \in Txs
    BY DEF Inv, TypeOK
  <2> QED BY <1>5, <2>1, StartWatchTyped DEF RecoverTx, db
<1>6. ASSUME MarkRead(w) PROVE (Leaves \/ Reads) /\ UNCHANGED rows
  <2> DEFINE t == watch[w].tx
             i == chain[t].intent
  <2>1. t \in Txs /\ i \in Existing
    BY <1>6, WatchHolds, MinedPays DEF MarkRead, Inv
  <2>2. CASE rows[i].status \in PostPending
    <3>1. watch'[w] = IdleWatch /\ UNCHANGED rows
      BY <1>6, <2>2 DEF MarkRead, Inv, TypeOK, db
    <3> QED BY <3>1 DEF IdleWatch
  <2>3. CASE rows[i].status \notin PostPending
    <3>1. /\ watch'[w].tx = t /\ watch'[w].row = rows[i] /\ UNCHANGED rows
      BY <1>6, <2>3 DEF MarkRead, Inv, TypeOK, db
    <3> QED BY <1>1, <2>1, <3>1 DEF Existing
  <2> QED BY <2>2, <2>3
<1>7. ASSUME MarkWrite(w) PROVE Leaves /\ Writes
  <2> DEFINE t == watch[w].tx
             i == chain[t].intent
             r == watch[w].row
             row == Confirmed(r, chain[t].amount)
  <2>1. t \in Txs /\ r \in Row /\ chain[t] \in Payment /\ Held(i, r)
    BY <1>7, WatchHolds, MinedPays DEF MarkWrite, Inv, ReferencesHold, Truth, HeldByWatchers
  <2>2. row \in Row /\ i \in Intents
    BY <2>1 DEF Row, Statuses, Payment, Confirmed
  <2>3. Truthful(chain, batches, i, row) /\ row.price = r.price
    <3> HIDE DEF t, r
    <3> QED BY <2>1, PaymentWritten
  <2>4. updateIntent(i, r, row) /\ Leaves
    BY <1>7 DEF MarkWrite, Inv, TypeOK, IdleWatch, Confirmed
  <2> HIDE DEF t, i, r, row
  <2> QED BY <1>1, <2>1, <2>2, <2>3, <2>4, WrittenBack
<1>8. ASSUME ReceiptTimesOut(w) \/ WatchFails(w) PROVE Leaves /\ UNCHANGED rows
  BY <1>8 DEF ReceiptTimesOut, WatchFails, GiveUp, Inv, TypeOK, db, IdleWatch
<1>9. UNCHANGED rows => Writes
  BY <1>1, NothingWritten
<1> HIDE DEF Writes, Reads, Leaves
<1>10. Writes /\ (Leaves \/ Reads)
  BY <1>3, <1>4, <1>5, <1>6, <1>7, <1>8, <1>9 DEF Watching
<1>11. CASE Reads
  <2>1. HeldNext(chain'[watch'[w].tx].intent, watch'[w].row)
    <3> DEFINE i == chain'[watch'[w].tx].intent
    <3>1. i \in Intents /\ rows[i] # NoRow /\ watch'[w].row = rows[i]
      BY <1>11 DEF Reads
    <3> HIDE DEF i
    <3>2. HeldNext(i, rows[i])
      BY <1>10, <3>1, HeldStays DEF Truth, RowsHeld, Writes
    <3> QED BY <3>1, <3>2 DEF i
  <2>2. \A v \in Watchers : watch'[v] = watch[v]
                            \/ HeldNext(chain'[watch'[v].tx].intent, watch'[v].row)
    BY <1>2, <2>1
  <2> QED BY <1>1, <1>10, <2>2, TruthKept DEF Writes
<1>12. CASE Leaves
  <2>1. \A v \in Watchers : watch'[v].phase = "mark" => watch'[v] = watch[v]
    BY <1>2, <1>12 DEF Leaves
  <2> QED BY <1>1, <1>10, <2>1, TruthKept DEF Writes
<1> QED BY <1>10, <1>11, <1>12

\* A polling run that reads, stops or only drops an intent from its list.
LEMMA TickReadTruth ==
  ASSUME Inv, Truth, NEW k \in Ticks,
         checkConfirmedIntents(k) \/ (\E i \in Intents : OnConfirmedRead(k, i)) \/ TickFails(k)
  PROVE  Truth'
<1>1. UNCHANGED <<rows, chain, batches, calls, watch>>
  BY DEF checkConfirmedIntents, OnConfirmedRead, TickFails, db
<1>2. \A l \in Ticks : l # k => tick'[l] = tick[l]
  BY DEF checkConfirmedIntents, OnConfirmedRead, TickFails, Inv, TypeOK
<1>3. Persists /\ \A i \in Intents : rows'[i] = rows[i]
  BY <1>1, NothingWritten
<1> DEFINE Held2 == tick'[k].phase \in Granting =>
                     /\ HeldNext(tick'[k].intent, tick'[k].row)
                     /\ Settles(batches', tick'[k].intent, tick'[k].row, tick'[k].phase)
<1>4. ASSUME checkConfirmedIntents(k) \/ TickFails(k) PROVE Held2
  <2>1. tick'[k].phase \in {"idle", "loop"}
    BY <1>4 DEF checkConfirmedIntents, TickFails, Loop, IdleTick, Inv, TypeOK
  <2> QED BY <2>1 DEF Granting
<1>5. ASSUME NEW i \in Intents, OnConfirmedRead(k, i) PROVE Held2
  <2>1. rows[i] # NoRow
    BY <1>5 DEF OnConfirmedRead, Inv, ReferencesHold, Existing
  <2>2. HeldNext(i, rows[i])
    BY <1>3, <2>1, HeldStays DEF Truth, RowsHeld
  <2>3. CASE rows[i].status = "COMPLETED" \/ rows[i].amount = 0
    <3>1. tick'[k].phase \in {"idle", "loop"}
      BY <1>5, <2>3 DEF OnConfirmedRead, Loop, IdleTick, Inv, TypeOK
    <3> QED BY <3>1 DEF Granting
  <2>4. CASE ~(rows[i].status = "COMPLETED" \/ rows[i].amount = 0)
    <3>1. /\ tick'[k].intent = i /\ tick'[k].row = rows[i]
          /\ tick'[k].phase = IF getIntentCredits(rows[i]) = 0 THEN "fail" ELSE "grant"
      BY <1>5, <2>4 DEF OnConfirmedRead, Inv, TypeOK
    <3>2. Settles(batches', i, rows[i], tick'[k].phase)
      BY <2>4, <3>1 DEF Settles
    <3> QED BY <2>2, <3>1, <3>2
  <2> QED BY <2>3, <2>4
<1> HIDE DEF Held2
<1>6. Held2
  BY <1>4, <1>5
<1>7. \A l \in Ticks : tick'[l].phase \in Granting =>
        \/ tick'[l] = tick[l]
        \/ /\ HeldNext(tick'[l].intent, tick'[l].row)
           /\ Settles(batches', tick'[l].intent, tick'[l].row, tick'[l].phase)
  BY <1>2, <1>6 DEF Held2
<1> QED BY <1>1, <1>3, <1>7, TruthKept

\* The grant.
LEMMA AddCreditsTruth ==
  ASSUME Inv, Truth, NEW k \in Ticks, AddCredits(k)
  PROVE  Truth'
<1> DEFINE i == tick[k].intent
           r == tick[k].row
           credits == getIntentCredits(r)
<1>1. /\ i \in Intents /\ r \in Row /\ Held(i, r) /\ Settles(batches, i, r, "grant")
      /\ UNCHANGED <<rows, chain, calls, watch>>
  BY TickHolds DEF AddCredits, Inv, Truth, HeldByTicks, Granting
<1>2. /\ credits \in Nat /\ credits > 0 /\ r.amount # 0
  BY <1>1, RowMoney DEF Settles
<1>3. PICK ph \in {"complete", "over_cap"} :
        /\ tick' = [tick EXCEPT ![k] = Processing(k, ph)]
        /\ IF ph = "complete" THEN batches' = [batches EXCEPT ![i] = Append(@, credits)]
                              ELSE UNCHANGED batches
  BY DEF AddCredits
<1>4. batches \in [Intents -> Seq(Nat)]
  BY DEF Inv, TypeOK
<1>5. /\ \A j \in Intents : \A n \in DOMAIN batches[j] :
           n \in DOMAIN batches'[j] /\ batches'[j][n] = batches[j][n]
      /\ \A j \in Intents : \A n \in DOMAIN batches'[j] :
           n \notin DOMAIN batches[j] => j = i /\ batches'[j][n] = credits
      /\ ph = "complete" => \E n \in DOMAIN batches'[i] : batches'[i][n] = credits
  <2>1. CASE ph # "complete"
    BY <1>3, <2>1
  <2>2. CASE ph = "complete"
    <3> DEFINE b == batches[i]
    <3>1. b \in Seq(Nat)
      BY <1>1, <1>4
    <3>2. batches'[i] = Append(b, credits) /\ \A j \in Intents : j # i => batches'[j] = batches[j]
      BY <1>1, <1>3, <1>4, <2>2
    <3> HIDE DEF b, credits
    <3>3. /\ \A n \in DOMAIN b : n \in DOMAIN Append(b, credits) /\ Append(b, credits)[n] = b[n]
          /\ \A n \in DOMAIN Append(b, credits) : n \notin DOMAIN b => Append(b, credits)[n] = credits
          /\ Len(b) + 1 \in DOMAIN Append(b, credits)
          /\ Append(b, credits)[Len(b) + 1] = credits
      BY <1>2, <3>1
    <3> QED BY <3>2, <3>3 DEF b
  <2> QED BY <2>1, <2>2
<1>6. Persists
  BY <1>1, <1>5 DEF Persists
<1>7. HeldNext(i, r)
  BY <1>1, <1>6, HeldStays
<1>8. /\ tick'[k].phase = ph /\ tick'[k].intent = i /\ tick'[k].row = r
      /\ \A l \in Ticks : l # k => tick'[l] = tick[l]
  BY <1>3 DEF Processing, Inv, TypeOK
<1>9. Settles(batches', i, r, ph)
  BY <1>2, <1>5 DEF Settles
<1>10. ASSUME NEW j \in Intents, NEW n \in DOMAIN batches'[j], n \notin DOMAIN batches[j]
       PROVE  Worth(rows', chain', batches', j, n)
  <2>1. j = i /\ batches'[i][n] = credits /\ rows'[i] # NoRow /\ rows'[i].price = r.price
    BY <1>5, <1>7, <1>10 DEF HeldNext, HeldIn
  <2>2. PICK t \in Txs : chain'[t] = [intent |-> i, amount |-> r.amount]
    BY <1>2, <1>7 DEF HeldNext, HeldIn, Truthful
  <2>3. chain'[t].intent = i /\ credits = Bytes(chain'[t].amount, rows'[i].price)
    BY <2>1, <2>2 DEF Bytes, getIntentCredits
  <2> HIDE DEF i, r, credits
  <2> QED BY <1>2, <2>1, <2>3 DEF Worth
<1> HIDE DEF i, r, credits
<1>11. \A l \in Ticks : tick'[l].phase \in Granting =>
        \/ tick'[l] = tick[l]
        \/ /\ HeldNext(tick'[l].intent, tick'[l].row)
           /\ Settles(batches', tick'[l].intent, tick'[l].row, tick'[l].phase)
  BY <1>7, <1>8, <1>9
<1>12. \A j \in Intents : rows'[j] = rows[j]
  BY <1>1
<1> QED BY <1>1, <1>6, <1>10, <1>11, <1>12, TruthKept

\* The write that closes it.
LEMMA OnConfirmedWriteTruth ==
  ASSUME Inv, Truth, NEW k \in Ticks, OnConfirmedWrite(k)
  PROVE  Truth'
<1> DEFINE i == tick[k].intent
           r == tick[k].row
           ph == tick[k].phase
           row == WithStatus(r, Outcome[ph])
<1>1. /\ ph \in {"complete", "over_cap", "fail"} /\ i \in Intents /\ r \in Row /\ Held(i, r)
      /\ Settles(batches, i, r, ph) /\ updateIntent(i, r, row)
      /\ UNCHANGED <<chain, batches, calls, watch>>
  BY TickHolds DEF OnConfirmedWrite, Outcome, WithStatus, Inv, Truth, HeldByTicks, Granting
<1>2. /\ tick'[k].phase \in {"idle", "loop"}
      /\ \A l \in Ticks : l # k => tick'[l] = tick[l]
  BY DEF OnConfirmedWrite, Loop, IdleTick, Inv, TypeOK
<1>3. row \in Row
  BY <1>1 DEF Row, Statuses, Outcome, WithStatus
<1>4. Truthful(chain, batches, i, row) /\ row.price = r.price
  <2>1. Truthful(chain, batches, i, r) /\ r.amount # 0 /\ getIntentCredits(r) \in Nat
    BY <1>1, RowMoney DEF Held, HeldIn, Settles
  <2>2. /\ ph = "fail" => row = WithStatus(r, "FAILED") /\ getIntentCredits(r) = 0
        /\ ph = "over_cap" => row = WithStatus(r, "OVER_CAP") /\ getIntentCredits(r) > 0
        /\ ph = "complete" => /\ row = WithStatus(r, "COMPLETED")
                              /\ \E n \in DOMAIN batches[i] : batches[i][n] = getIntentCredits(r)
    BY <1>1, <2>1 DEF Outcome, Settles
  <2>3. r \in Row
    BY <1>1
  <2> HIDE DEF i, r, row
  <2>4. CASE ph = "fail"
    BY <2>1, <2>2, <2>3, <2>4, StatusWritten
  <2>5. CASE ph = "over_cap"
    BY <2>1, <2>2, <2>3, <2>5, StatusWritten
  <2>6. CASE ph = "complete"
    BY <2>1, <2>2, <2>3, <2>6, StatusWritten
  <2> QED BY <1>1, <2>4, <2>5, <2>6
<1> HIDE DEF i, r, row
<1>5. Persists /\ \A j \in Intents : rows'[j] # rows[j] => HeldNext(j, rows'[j])
  BY <1>1, <1>3, <1>4, WrittenBack
<1>6. \A l \in Ticks : tick'[l].phase \in Granting => tick'[l] = tick[l]
  BY <1>2 DEF Granting
<1> QED BY <1>1, <1>5, <1>6, TruthKept

\* The worker's other steps, and the expiry of a row that is still PENDING.
LEMMA OthersTruth ==
  ASSUME Inv, Truth,
         \/ getExpiredPendingIntents \/ Start \/ recoverOrphanedTransactions \/ Crash
         \/ UNCHANGED vars
  PROVE  Truth'
<1>1. /\ UNCHANGED <<rows, chain, batches, calls>>
      /\ \A w \in Watchers : watch'[w].phase = "mark" => watch'[w] = watch[w]
      /\ \A k \in Ticks : tick'[k].phase \in Granting => tick'[k] = tick[k]
  BY DEF getExpiredPendingIntents, Start, recoverOrphanedTransactions, Crash, vars, db,
         IdleWatch, IdleTick, Granting
<1>2. Persists /\ \A i \in Intents : rows'[i] = rows[i]
  BY <1>1, NothingWritten
<1> QED BY <1>1, <1>2, TruthKept

LEMMA ExpireTruth ==
  ASSUME Inv, Truth, NEW i \in Intents, expireIntentIfPending(i)
  PROVE  Truth'
<1>1. UNCHANGED <<chain, batches, calls, watch, tick>>
  BY DEF expireIntentIfPending
<1>2. Persists /\ \A j \in Intents : rows'[j] # rows[j] => HeldNext(j, rows'[j])
  <2>1. CASE rows[i].status = "PENDING"
    <3> DEFINE row == [rows[i] EXCEPT !.status = "EXPIRED"]
    <3>1. rows[i] # NoRow /\ rows[i] \in Row
      BY DEF expireIntentIfPending, Inv, TypeOK, ReferencesHold, Existing
    <3>2. Held(i, rows[i])
      BY <3>1 DEF Truth, RowsHeld
    <3>3. Truthful(chain, batches, i, row) /\ row.price = rows[i].price
      BY <2>1, <3>1, <3>2, ExpiryWritten DEF Held, HeldIn
    <3>4. row \in Row /\ row # NoRow
      BY <3>1, NoRowAssumption DEF Row, Statuses
    <3>5. rows' = [rows EXCEPT ![i] = row]
      BY <2>1 DEF expireIntentIfPending
    <3> HIDE DEF row
    <3>6. rows'[i] = row /\ \A j \in Intents : j # i => rows'[j] = rows[j]
      BY <3>5 DEF Inv, TypeOK
    <3>7. Persists
      BY <1>1, <3>3, <3>4, <3>6 DEF Persists
    <3>8. HeldNext(i, row)
      BY <1>1, <3>3, <3>4, <3>6 DEF HeldNext, HeldIn
    <3> QED BY <3>6, <3>7, <3>8
  <2>2. CASE rows[i].status # "PENDING"
    BY <1>1, <2>2, NothingWritten DEF expireIntentIfPending
  <2> QED BY <2>1, <2>2
<1> QED BY <1>1, <1>2, TruthKept

LEMMA StepTruth == Inv /\ Truth /\ [Next]_vars => Truth'
<1> SUFFICES ASSUME Inv, Truth, [Next]_vars PROVE Truth'
  OBVIOUS
<1>1. CASE Environment
  BY <1>1, EnvironmentTruth
<1>2. ASSUME NEW c \in Calls, ApiCall(c) PROVE Truth'
  BY <1>2, ApiCallTruth
<1>3. ASSUME NEW w \in Watchers, Watching(w) PROVE Truth'
  BY <1>3, WatchingTruth
<1>4. ASSUME NEW k \in Ticks, Ticking(k) PROVE Truth'
  BY <1>4, TickReadTruth, AddCreditsTruth, OnConfirmedWriteTruth DEF Ticking
<1>5. ASSUME NEW i \in Intents, expireIntentIfPending(i) PROVE Truth'
  BY <1>5, ExpireTruth
<1>6. CASE \/ getExpiredPendingIntents \/ Start \/ recoverOrphanedTransactions \/ Crash
           \/ UNCHANGED vars
  BY <1>6, OthersTruth
<1> QED BY <1>1, <1>2, <1>3, <1>4, <1>5, <1>6 DEF Next

\* Every grant is worth a real payment at the locked price, and every row says
\* of its payment what the chain and the grants say, whichever stale rows are
\* written back meanwhile.
THEOREM TruthHolds == Spec => []PaymentsTruthful
<1> QED BY InitInv, StepInv, TruthAtFirst, StepTruth, TruthSuffices, PTL DEF Spec

(***************************************************************************)
(* A recorded payment is erased only by /watch                             *)
(***************************************************************************)
\* The row a step writes for an intent has a payment on record.
Recorded(i) == rows'[i] # rows[i] => rows'[i].amount # 0

LEMMA RecordedWrite ==
  ASSUME Inv, NEW j \in Intents, NEW read, NEW row, updateIntent(j, read, row), row.amount # 0,
         NEW i \in Intents
  PROVE  Recorded(i)
BY DEF updateIntent, Recorded, Inv, TypeOK

\* Only the write of a /watch request may leave an intent without the payment
\* that was on record for it.
THEOREM ErasedOnlyByWatch == Spec => PaymentErasedOnlyByWatch
<1> DEFINE Keeps ==
      \A i \in Intents :
        (rows[i] # NoRow /\ rows[i].amount # 0 /\ rows'[i].amount = 0)
        => \E c \in Calls : calls[c].phase = "watch" /\ calls[c].intent = i
                            /\ calls'[c] = DoneCall
<1>1. Inv /\ Truth /\ [Next]_vars => Keeps
  <2> SUFFICES ASSUME Inv, Truth, [Next]_vars, NEW i \in Intents,
                      rows[i] # NoRow, rows[i].amount # 0, rows'[i].amount = 0
               PROVE  \E c \in Calls : calls[c].phase = "watch" /\ calls[c].intent = i
                                       /\ calls'[c] = DoneCall
    OBVIOUS
  <2>1. ~Recorded(i)
    BY DEF Recorded
  <2>2. rows' # rows
    OBVIOUS
  <2>3. ~Environment
    <3>1. ASSUME NEW u \in Users, NEW j \in Intents, NEW p \in Prices, createIntent(u, j, p)
          PROVE  rows'[i] = rows[i]
      BY <3>1 DEF createIntent, Inv, TypeOK
    <3> QED BY <2>2, <3>1 DEF Environment, PriceWindowLapses, Pay, db
  <2>4. ASSUME NEW c \in Calls, ApiCall(c) PROVE WatchWrite(c) /\ calls[c].intent = i
    <3>1. ~ReprocessWrite(c)
      <4> SUFFICES ASSUME ReprocessWrite(c) PROVE FALSE
        OBVIOUS
      <4> DEFINE j == calls[c].intent
                 r == calls[c].row
      <4>1. /\ j \in Intents /\ r \in Row /\ Held(j, r) /\ r.status = "OVER_CAP"
            /\ updateIntent(j, r, WithStatus(r, "CONFIRMED"))
        BY CallHolds DEF ReprocessWrite, WithStatus, Inv, Truth, HeldByCalls, SnapshotsChecked
      <4>2. r.amount # 0
        BY <4>1 DEF Held, HeldIn, Truthful
      <4>3. WithStatus(r, "CONFIRMED").amount # 0
        BY <4>1, <4>2 DEF Row, WithStatus
      <4> HIDE DEF j, r
      <4> QED BY <2>1, <4>1, <4>3, RecordedWrite
    <3>2. WatchWrite(c)
      BY <2>2, <2>4, <3>1
         DEF ApiCall, WatchRead, WatchPublish, ReprocessRead, CallFails, db
    <3>3. calls[c].intent = i
      BY <3>2 DEF WatchWrite, updateIntent, Inv, TypeOK
    <3> QED BY <3>2, <3>3
  <2>5. ASSUME NEW w \in Watchers PROVE ~Watching(w)
    <3>1. ~MarkWrite(w)
      <4> SUFFICES ASSUME MarkWrite(w) PROVE FALSE
        OBVIOUS
      <4> DEFINE t == watch[w].tx
                 r == watch[w].row
      <4>1. /\ r \in Row /\ chain[t] \in Payment
            /\ updateIntent(chain[t].intent, r, Confirmed(r, chain[t].amount))
        BY WatchHolds, MinedPays DEF MarkWrite, Confirmed, Inv, ReferencesHold
      <4>2. chain[t].intent \in Intents /\ Confirmed(r, chain[t].amount).amount # 0
        BY <4>1, PaymentsAssumption DEF Row, Confirmed, Payment
      <4> HIDE DEF t, r
      <4> QED BY <2>1, <4>1, <4>2, RecordedWrite
    <3> QED BY <2>2, <3>1 DEF Watching, onLogs, DeliverTask, RecoverTx, MarkRead, ReceiptTimesOut,
                              WatchFails, GiveUp, db
  <2>6. ASSUME NEW k \in Ticks PROVE ~Ticking(k)
    <3>1. ~OnConfirmedWrite(k)
      <4> SUFFICES ASSUME OnConfirmedWrite(k) PROVE FALSE
        OBVIOUS
      <4> DEFINE j == tick[k].intent
                 r == tick[k].row
                 row == WithStatus(r, Outcome[tick[k].phase])
      <4>1. /\ j \in Intents /\ r \in Row /\ r.amount # 0 /\ updateIntent(j, r, row)
        BY TickHolds DEF OnConfirmedWrite, Outcome, WithStatus, Inv, Truth, HeldByTicks, Granting,
                         Settles
      <4>2. row.amount # 0
        BY <4>1 DEF Row, WithStatus
      <4> HIDE DEF j, r, row
      <4> QED BY <2>1, <4>1, <4>2, RecordedWrite
    <3> QED BY <2>2, <3>1 DEF Ticking, checkConfirmedIntents, OnConfirmedRead, AddCredits,
                              TickFails, db
  <2>7. ASSUME NEW j \in Intents PROVE ~expireIntentIfPending(j)
    <3> SUFFICES ASSUME expireIntentIfPending(j) PROVE FALSE
      OBVIOUS
    <3>1. rows[j] \in Row
      BY DEF expireIntentIfPending, Inv, TypeOK, ReferencesHold, Existing
    <3>2. rows'[i].amount = rows[i].amount
      BY <3>1 DEF expireIntentIfPending, Inv, TypeOK, Row
    <3> QED BY <3>2
  <2>8. ~UNCHANGED vars /\ ~getExpiredPendingIntents /\ ~Start /\ ~recoverOrphanedTransactions
        /\ ~Crash
    BY <2>2 DEF vars, getExpiredPendingIntents, Start, recoverOrphanedTransactions, Crash, db
  <2>9. PICK c \in Calls : ApiCall(c)
    BY <2>3, <2>5, <2>6, <2>7, <2>8 DEF Next
  <2> QED BY <2>4, <2>9 DEF WatchWrite, Inv, TypeOK
<1> QED BY InitInv, StepInv, TruthAtFirst, StepTruth, <1>1, PTL
        DEF Spec, PaymentErasedOnlyByWatch
=============================================================================
