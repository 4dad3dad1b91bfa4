------------------------------ MODULE Payments ------------------------------
(***************************************************************************)
(* Purchase intents: from the row created at a locked price, through the   *)
(* on-chain payment, to the credit batch granted for it.                   *)
(*                                                                         *)
(* Two processes share the `intents' table and the task queue.             *)
(*   - the API serves POST /intents, POST /intents/:id/watch and POST      *)
(*     /intents/:id/reprocess (core/users/intents.ts);                     *)
(*   - the frontend worker runs the payment manager (contract log          *)
(*     subscription, watch-intent-tx tasks, start-up sweep, the polling    *)
(*     loop over CONFIRMED intents) and the credit expiry job.             *)
(*                                                                         *)
(* Every use case reads a whole row, awaits, and writes a whole row back   *)
(* (updateIntent updates every column by id), so each is a read step and a *)
(* write step here, with the row it read kept in between.  Only            *)
(* expireIntentIfPending is one conditional UPDATE.                        *)
(***************************************************************************)
EXTENDS Naturals, Sequences, FiniteSets

CONSTANTS
  Intents,      \* intent ids
  Users,        \* users who create intents and call /watch
  Txs,          \* EVM transactions that users submit
  Prices,       \* shannonsPerByte values getPrice may lock in
  Amounts,      \* paymentAmount values of IntentPaymentReceived logs
  Calls,        \* API calls (watch or reprocess): each is made at most once
  Watchers,     \* watchTransaction calls the worker may have in flight
  Ticks,        \* polling-loop runs that may overlap (setInterval never waits)
  MaxRetries,   \* retriesLeft of a fresh task
  MaxFaults,    \* bound on crashes, failed awaits and lost publishes together
  NoTx,         \* tx_hash IS NULL
  NoRow,        \* no row with this id
  NoCall        \* a watchTransaction call that serves no task

ASSUME PaymentsAssumption ==
  /\ Prices \subseteq Nat \ {0}
  /\ Amounts \subseteq Nat \ {0}
  /\ IsFiniteSet(Ticks)
  /\ MaxRetries \in Nat
  /\ MaxFaults \in Nat
  /\ NoTx \notin Txs
  /\ NoCall \notin Calls

VARIABLES
  rows,        \* the intents table
  lapsed,      \* intents whose expires_at is in the past
  chain,       \* the payment each transaction carried once mined
  batches,     \* bytes of each purchased_credits row inserted for an intent
  calls,       \* API calls, with the row each has read
  tasks,       \* the watch-intent-tx task each call published
  up,          \* the frontend worker runs
  sweep,       \* the start-up sweep: "none", "started" (SELECT not yet done)
  orphans,     \* <<intent, tx>> pairs the sweep still has to re-watch
  watch,       \* watchTransaction calls in flight
  tick,        \* polling-loop runs in flight
  expirable,   \* rows the expiry job selected and has not yet updated
  faults,      \* faults so far
  clobbers,    \* history: writes to a row that had changed since it was read
  aborts       \* history: ticks that stopped between the grant and its write

db     == <<rows, batches, clobbers>>
worker == <<up, sweep, orphans, watch, tick, expirable>>
vars   == <<rows, lapsed, chain, batches, calls, tasks, up, sweep, orphans,
            watch, tick, expirable, faults, clobbers, aborts>>

(***************************************************************************)
(* Rows                                                                    *)
(***************************************************************************)
Statuses == {"PENDING", "CONFIRMED", "COMPLETED", "FAILED", "EXPIRED", "OVER_CAP"}

\* amount 0 stands for payment_amount IS NULL: `!intent.paymentAmount'
\* does not tell the two apart, and the contract refuses a zero payment.
Row == [status : Statuses, user : Users, price : Prices,
        tx : Txs \cup {NoTx}, amount : Amounts \cup {0}]

ASSUME NoRowAssumption == NoRow \notin Row

Payment   == [intent : Intents, amount : Amounts]
NoPayment == [intent |-> NoRow, amount |-> 0]
Mined(t)  == chain[t] # NoPayment

\* Integer division: a payment below the price of one byte buys nothing.
getIntentCredits(r) == r.amount \div r.price

\* Mutant: COMPLETED is missing from the idempotency guard.
PostPendingShort == Statuses \ {"PENDING", "COMPLETED"}

\* Statuses markIntentAsConfirmed treats as already processed.
PostPending == Statuses \ {"PENDING"}

isIntentExpired(i) ==
  \/ rows[i].status = "EXPIRED"
  \/ rows[i].status = "PENDING" /\ rows[i].tx = NoTx /\ i \in lapsed

\* updateIntent: every column, by id, whatever the row now holds.
updateIntent(i, read, row) ==
  /\ rows' = [rows EXCEPT ![i] = row]
  /\ clobbers' = IF rows[i] = read THEN clobbers
                 ELSE [clobbers EXCEPT ![i] = @ + 1]

Fault == faults < MaxFaults /\ faults' = faults + 1

(***************************************************************************)
(* Users and the chain                                                     *)
(***************************************************************************)
createIntent(u, i, p) ==
  /\ rows[i] = NoRow
  /\ rows' = [rows EXCEPT ![i] = [status |-> "PENDING", user |-> u, price |-> p,
                                  tx |-> NoTx, amount |-> 0]]
  /\ UNCHANGED <<lapsed, chain, batches, calls, tasks, worker, faults, clobbers, aborts>>

\* The clock passes expires_at.
PriceWindowLapses(i) ==
  /\ rows[i] # NoRow /\ i \notin lapsed
  /\ lapsed' = lapsed \cup {i}
  /\ UNCHANGED <<chain, db, calls, tasks, worker, faults, aborts>>

\* payIntent(intentId) is mined and emits IntentPaymentReceived: anyone may
\* pay any intent, at any time, more than once.
Pay(t, i, a) ==
  /\ ~Mined(t) /\ rows[i] # NoRow
  /\ chain' = [chain EXCEPT ![t] = [intent |-> i, amount |-> a]]
  /\ UNCHANGED <<lapsed, db, calls, tasks, worker, faults, aborts>>

(***************************************************************************)
(* API: triggerWatchIntent and reprocessOverCapIntent                      *)
(***************************************************************************)
IdleCall == [phase |-> "idle"]
DoneCall == [phase |-> "done"]

WatchRead(c, u, i, t) ==
  /\ calls[c] = IdleCall
  /\ rows[i] # NoRow
  /\ rows[i].user = u
  /\ ~isIntentExpired(i)
  /\ calls' = [calls EXCEPT ![c] = [phase |-> "publish", intent |-> i, tx |-> t,
                                    row |-> rows[i]]]
  /\ UNCHANGED <<lapsed, chain, db, tasks, worker, faults, aborts>>

\* EventRouter.publish is not awaited: a publish the broker never takes is lost.
WatchPublish(c) ==
  /\ calls[c].phase = "publish"
  /\ \/ /\ tasks' = [tasks EXCEPT ![c] = [state |-> "queued", tx |-> calls[c].tx,
                                          retriesLeft |-> MaxRetries]]
        /\ UNCHANGED faults
     \/ Fault /\ UNCHANGED tasks
  /\ calls' = [calls EXCEPT ![c].phase = "watch"]
  /\ UNCHANGED <<lapsed, chain, db, worker, aborts>>

WatchWrite(c) ==
  /\ calls[c].phase = "watch"
  /\ updateIntent(calls[c].intent, calls[c].row, [calls[c].row EXCEPT !.tx = calls[c].tx])
  /\ calls' = [calls EXCEPT ![c] = DoneCall]
  /\ UNCHANGED <<lapsed, chain, batches, tasks, worker, faults, aborts>>

\* An admin re-queues an over-cap intent.
ReprocessRead(c, i) ==
  /\ calls[c] = IdleCall
  /\ rows[i] # NoRow
  /\ rows[i].status = "OVER_CAP"
  /\ calls' = [calls EXCEPT ![c] = [phase |-> "reprocess", intent |-> i, tx |-> NoTx,
                                    row |-> rows[i]]]
  /\ UNCHANGED <<lapsed, chain, db, tasks, worker, faults, aborts>>

ReprocessWrite(c) ==
  /\ calls[c].phase = "reprocess"
  /\ updateIntent(calls[c].intent, calls[c].row, [calls[c].row EXCEPT !.status = "CONFIRMED"])
  /\ calls' = [calls EXCEPT ![c] = DoneCall]
  /\ UNCHANGED <<lapsed, chain, batches, tasks, worker, faults, aborts>>

\* The API process stops, or an awaited query fails, before the write.
CallFails(c) ==
  /\ calls[c].phase \in {"publish", "watch", "reprocess"}
  /\ Fault
  /\ calls' = [calls EXCEPT ![c] = DoneCall]
  /\ UNCHANGED <<lapsed, chain, db, tasks, worker, aborts>>

(***************************************************************************)
(* Worker: watchTransaction, from a log, a task or the start-up sweep      *)
(***************************************************************************)
IdleWatch == [phase |-> "idle"]
NoTask    == [state |-> "none"]

StartWatch(w, t, c) ==
  /\ up /\ watch[w] = IdleWatch
  /\ watch' = [watch EXCEPT ![w] = [phase |-> "wait", tx |-> t, call |-> c]]

\* watchContractEvent delivers a log, possibly again after a reconnect.
onLogs(w, t) ==
  /\ Mined(t)
  /\ StartWatch(w, t, NoCall)
  /\ UNCHANGED <<lapsed, chain, db, calls, tasks, up, sweep, orphans, tick, expirable, faults, aborts>>

DeliverTask(w, c) ==
  /\ tasks[c].state = "queued"
  /\ StartWatch(w, tasks[c].tx, c)
  /\ tasks' = [tasks EXCEPT ![c].state = "delivered"]
  /\ UNCHANGED <<lapsed, chain, db, calls, up, sweep, orphans, tick, expirable, faults, aborts>>

RecoverTx(w, o) ==
  /\ o \in orphans
  /\ StartWatch(w, o[2], NoCall)
  /\ orphans' = orphans \ {o}
  /\ UNCHANGED <<lapsed, chain, db, calls, tasks, up, sweep, tick, expirable, faults, aborts>>

\* The handler returned: the task, if there is one, is acknowledged.
Acked(c) == IF c = NoCall THEN tasks ELSE [tasks EXCEPT ![c].state = "acked"]

\* The receipt is there and markIntentAsConfirmed has read the row.
MarkRead(w) ==
  /\ watch[w].phase = "wait"
  /\ Mined(watch[w].tx)
  /\ LET i == chain[watch[w].tx].intent
     IN IF rows[i].status \in PostPending
        THEN /\ watch' = [watch EXCEPT ![w] = IdleWatch]
             /\ tasks' = Acked(watch[w].call)
        ELSE /\ watch' = [watch EXCEPT ![w] = [phase |-> "mark", tx |-> watch[w].tx,
                                               call |-> watch[w].call, row |-> rows[i]]]
             /\ UNCHANGED tasks
  /\ UNCHANGED <<lapsed, chain, db, calls, up, sweep, orphans, tick, expirable, faults, aborts>>

MarkWrite(w) ==
  /\ watch[w].phase = "mark"
  /\ LET p == chain[watch[w].tx]
     IN updateIntent(p.intent, watch[w].row,
                     [watch[w].row EXCEPT !.status = "CONFIRMED", !.amount = p.amount])
  /\ watch' = [watch EXCEPT ![w] = IdleWatch]
  /\ tasks' = Acked(watch[w].call)
  /\ UNCHANGED <<lapsed, chain, batches, calls, up, sweep, orphans, tick, expirable, faults, aborts>>

\* No receipt in time, or an RPC error or a failed query.  A task is published
\* again with one retry less, or goes to the error queue; a log or a swept
\* transaction is only reported.
Retried(c) ==
  IF c = NoCall THEN tasks
  ELSE IF tasks[c].retriesLeft > 0
       THEN [tasks EXCEPT ![c] = [tasks[c] EXCEPT !.state = "queued", !.retriesLeft = @ - 1]]
       ELSE [tasks EXCEPT ![c].state = "failed"]

\* The handler returns without awaiting that publish, so the task may also be
\* acknowledged and its retry lost.
GiveUp(w) ==
  /\ watch' = [watch EXCEPT ![w] = IdleWatch]
  /\ tasks' \in {Retried(watch[w].call), Acked(watch[w].call)}
  /\ UNCHANGED <<lapsed, chain, db, calls, up, sweep, orphans, tick, expirable, aborts>>

ReceiptTimesOut(w) ==
  /\ watch[w].phase = "wait" /\ ~Mined(watch[w].tx)
  /\ GiveUp(w)
  /\ \/ tasks' = Retried(watch[w].call) /\ UNCHANGED faults
     \/ Fault

WatchFails(w) ==
  /\ watch[w].phase \in {"wait", "mark"}
  /\ GiveUp(w) /\ Fault

(***************************************************************************)
(* Worker: the polling loop over CONFIRMED intents                         *)
(***************************************************************************)
IdleTick == [phase |-> "idle"]

\* The loop over what is left of the list; the last intent ends the run.
Loop(list) == IF list = {} THEN IdleTick ELSE [phase |-> "loop", list |-> list]

Processing(k, phase) ==
  [phase |-> phase, list |-> tick[k].list, intent |-> tick[k].intent, row |-> tick[k].row]

checkConfirmedIntents(k) ==
  /\ up /\ tick[k] = IdleTick
  /\ LET list == {i \in Intents : rows[i] # NoRow /\ rows[i].status = "CONFIRMED"}
     IN list # {} /\ tick' = [tick EXCEPT ![k] = Loop(list)]
  /\ UNCHANGED <<lapsed, chain, db, calls, tasks, up, sweep, orphans, watch, expirable, faults, aborts>>

\* Mutant: the list is trusted and the COMPLETED check is dropped.
OnConfirmedReadTrusting(k, i) ==
  /\ tick[k].phase = "loop" /\ i \in tick[k].list
  /\ tick' = [tick EXCEPT ![k] =
       [phase |-> IF getIntentCredits(rows[i]) = 0 THEN "fail" ELSE "grant",
        list |-> tick[k].list \ {i}, intent |-> i, row |-> rows[i]]]
  /\ UNCHANGED <<lapsed, chain, db, calls, tasks, up, sweep, orphans, watch, expirable, faults, aborts>>

\* Mutant: the dust guard is dropped.
OnConfirmedReadNoDust(k, i) ==
  /\ tick[k].phase = "loop" /\ i \in tick[k].list
  /\ tick' = [tick EXCEPT ![k] =
       IF rows[i].status = "COMPLETED" \/ rows[i].amount = 0
       THEN Loop(tick[k].list \ {i})
       ELSE [phase |-> "grant", list |-> tick[k].list \ {i}, intent |-> i, row |-> rows[i]]]
  /\ UNCHANGED <<lapsed, chain, db, calls, tasks, up, sweep, orphans, watch, expirable, faults, aborts>>

\* onConfirmedIntent reads the row again: the list may be stale.
OnConfirmedRead(k, i) ==
  /\ tick[k].phase = "loop"
  /\ i \in tick[k].list
  /\ tick' = [tick EXCEPT ![k] =
       IF rows[i].status = "COMPLETED" \/ rows[i].amount = 0
       THEN Loop(tick[k].list \ {i})
       ELSE [phase |-> IF getIntentCredits(rows[i]) = 0 THEN "fail" ELSE "grant",
             list |-> tick[k].list \ {i}, intent |-> i, row |-> rows[i]]]
  /\ UNCHANGED <<lapsed, chain, db, calls, tasks, up, sweep, orphans, watch, expirable, faults, aborts>>

\* addCreditsToAccount: one transaction inserts the batch, or finds that it
\* would exceed the account's cap.  The cap itself is modelled in Credits.
AddCredits(k) ==
  /\ tick[k].phase = "grant"
  /\ \/ /\ batches' = [batches EXCEPT ![tick[k].intent] =
                         Append(@, getIntentCredits(tick[k].row))]
        /\ tick' = [tick EXCEPT ![k] = Processing(k, "complete")]
     \/ /\ tick' = [tick EXCEPT ![k] = Processing(k, "over_cap")]
        /\ UNCHANGED batches
  /\ UNCHANGED <<rows, lapsed, chain, calls, tasks, up, sweep, orphans, watch, expirable,
                 faults, clobbers, aborts>>

\* Mutant: an outcome outside the status enum.
OutcomeUnknown == [complete |-> "COMPLETED", over_cap |-> "OVER_CAP", fail |-> "DUST"]

Outcome == [complete |-> "COMPLETED", over_cap |-> "OVER_CAP", fail |-> "FAILED"]

OnConfirmedWrite(k) ==
  /\ tick[k].phase \in DOMAIN Outcome
  /\ updateIntent(tick[k].intent, tick[k].row,
                  [tick[k].row EXCEPT !.status = Outcome[tick[k].phase]])
  /\ tick' = [tick EXCEPT ![k] = Loop(tick[k].list)]
  /\ UNCHANGED <<lapsed, chain, batches, calls, tasks, up, sweep, orphans, watch, expirable,
                 faults, aborts>>

\* A query throws: the rest of the list waits for a later tick.
TickFails(k) ==
  /\ tick[k].phase # "idle"
  /\ Fault
  /\ tick' = [tick EXCEPT ![k] = IdleTick]
  /\ aborts' = IF tick[k].phase = "complete"
               THEN [aborts EXCEPT ![tick[k].intent] = @ + 1] ELSE aborts
  /\ UNCHANGED <<lapsed, chain, db, calls, tasks, up, sweep, orphans, watch, expirable>>

(***************************************************************************)
(* Worker: the expiry job (cleanupExpiredIntents)                          *)
(***************************************************************************)
getExpiredPendingIntents ==
  /\ up
  /\ LET found == {i \in lapsed : rows[i].status = "PENDING" /\ rows[i].tx = NoTx}
     IN found # {} /\ expirable' = expirable \cup found
  /\ UNCHANGED <<lapsed, chain, db, calls, tasks, up, sweep, orphans, watch, tick, faults, aborts>>

\* Mutant: the row that was selected is written back whole.
expireIntentRowWritten(i) ==
  /\ i \in expirable
  /\ expirable' = expirable \ {i}
  /\ rows' = [rows EXCEPT ![i] = [@ EXCEPT !.status = "EXPIRED", !.tx = NoTx, !.amount = 0]]
  /\ UNCHANGED <<lapsed, chain, batches, calls, tasks, up, sweep, orphans, watch, tick, faults,
                 clobbers, aborts>>

expireIntentIfPending(i) ==
  /\ i \in expirable
  /\ expirable' = expirable \ {i}
  /\ rows' = IF rows[i].status = "PENDING" THEN [rows EXCEPT ![i].status = "EXPIRED"] ELSE rows
  /\ UNCHANGED <<lapsed, chain, batches, calls, tasks, up, sweep, orphans, watch, tick, faults,
                 clobbers, aborts>>

(***************************************************************************)
(* Worker: start, start-up sweep, crash                                    *)
(***************************************************************************)
\* Mutant: no sweep at start-up.
StartUnswept ==
  /\ ~up
  /\ up' = TRUE /\ sweep' = "none"
  /\ UNCHANGED <<lapsed, chain, db, calls, tasks, orphans, watch, tick, expirable, faults, aborts>>

Start ==
  /\ ~up
  /\ up' = TRUE /\ sweep' = "started"
  /\ UNCHANGED <<lapsed, chain, db, calls, tasks, orphans, watch, tick, expirable, faults, aborts>>

recoverOrphanedTransactions ==
  /\ sweep = "started"
  /\ sweep' = "none"
  /\ \/ /\ orphans' = {<<i, rows[i].tx>> : i \in
              {j \in Intents : rows[j] # NoRow /\ rows[j].status = "PENDING" /\ rows[j].tx # NoTx}}
        /\ UNCHANGED faults
     \/ Fault /\ UNCHANGED orphans     \* the SELECT fails: there is no second sweep
  /\ UNCHANGED <<lapsed, chain, db, calls, tasks, up, watch, tick, expirable, aborts>>

InFlight(i) == {k \in Ticks : tick[k].phase = "complete" /\ tick[k].intent = i}

Crash ==
  /\ up /\ Fault
  /\ up' = FALSE /\ sweep' = "none" /\ orphans' = {} /\ expirable' = {}
  /\ watch' = [w \in Watchers |-> IdleWatch]
  /\ tick' = [k \in Ticks |-> IdleTick]
  /\ tasks' = [c \in Calls |-> IF tasks[c].state = "delivered"
                               THEN [tasks[c] EXCEPT !.state = "queued"] ELSE tasks[c]]
  /\ aborts' = [i \in Intents |-> aborts[i] + Cardinality(InFlight(i))]
  /\ UNCHANGED <<lapsed, chain, db, calls>>

(***************************************************************************)
(* Specification                                                           *)
(***************************************************************************)
Init ==
  /\ rows = [i \in Intents |-> NoRow]
  /\ lapsed = {}
  /\ chain = [t \in Txs |-> NoPayment]
  /\ batches = [i \in Intents |-> <<>>]
  /\ calls = [c \in Calls |-> IdleCall]
  /\ tasks = [c \in Calls |-> NoTask]
  /\ up = FALSE /\ sweep = "none" /\ orphans = {}
  /\ watch = [w \in Watchers |-> IdleWatch]
  /\ tick = [k \in Ticks |-> IdleTick]
  /\ expirable = {} /\ faults = 0
  /\ clobbers = [i \in Intents |-> 0]
  /\ aborts = [i \in Intents |-> 0]

Environment ==
  \/ \E u \in Users, i \in Intents, p \in Prices : createIntent(u, i, p)
  \/ \E i \in Intents : PriceWindowLapses(i)
  \/ \E t \in Txs, i \in Intents, a \in Amounts : Pay(t, i, a)

ApiCall(c) ==
  \/ \E u \in Users, i \in Intents, t \in Txs : WatchRead(c, u, i, t)
  \/ \E i \in Intents : ReprocessRead(c, i)
  \/ WatchPublish(c) \/ WatchWrite(c) \/ ReprocessWrite(c) \/ CallFails(c)

Watching(w) ==
  \/ \E t \in Txs : onLogs(w, t)
  \/ \E c \in Calls : DeliverTask(w, c)
  \/ \E o \in orphans : RecoverTx(w, o)
  \/ MarkRead(w) \/ MarkWrite(w) \/ ReceiptTimesOut(w) \/ WatchFails(w)

Ticking(k) ==
  \/ checkConfirmedIntents(k)
  \/ \E i \in Intents : OnConfirmedRead(k, i)
  \/ AddCredits(k) \/ OnConfirmedWrite(k) \/ TickFails(k)

Next ==
  \/ Environment
  \/ \E c \in Calls : ApiCall(c)
  \/ \E w \in Watchers : Watching(w)
  \/ \E k \in Ticks : Ticking(k)
  \/ getExpiredPendingIntents
  \/ \E i \in Intents : expireIntentIfPending(i)
  \/ Start \/ recoverOrphanedTransactions \/ Crash

Spec == Init /\ [][Next]_vars

\* Awaited work that is under way goes on: promises settle, the consumer and
\* the interval timer run, and a stopped worker is started again.  Nothing is
\* assumed of users, of the chain or of log delivery.
Fairness ==
  /\ WF_vars(Start) /\ WF_vars(recoverOrphanedTransactions)
  /\ \A c \in Calls :
       WF_vars(WatchPublish(c)) /\ WF_vars(WatchWrite(c)) /\ WF_vars(ReprocessWrite(c))
  /\ \A w \in Watchers :
       /\ WF_vars(MarkRead(w)) /\ WF_vars(MarkWrite(w)) /\ WF_vars(ReceiptTimesOut(w))
       /\ \A c \in Calls : SF_vars(DeliverTask(w, c))
       /\ SF_vars(\E o \in orphans : RecoverTx(w, o))
  /\ \A k \in Ticks :
       /\ WF_vars(checkConfirmedIntents(k)) /\ WF_vars(AddCredits(k)) /\ WF_vars(OnConfirmedWrite(k))
       /\ WF_vars(\E i \in Intents : OnConfirmedRead(k, i))

FairSpec == Spec /\ Fairness
(***************************************************************************)
(* Type correctness                                                        *)
(***************************************************************************)
CallTypes ==
  {IdleCall, DoneCall}
  \cup [phase : {"publish", "watch"}, intent : Intents, tx : Txs, row : Row]
  \cup [phase : {"reprocess"}, intent : Intents, tx : {NoTx}, row : Row]

TaskTypes ==
  {NoTask} \cup [state : {"queued", "delivered", "acked", "failed"}, tx : Txs,
                 retriesLeft : 0..MaxRetries]

WatchTypes ==
  {IdleWatch}
  \cup [phase : {"wait"}, tx : Txs, call : Calls \cup {NoCall}]
  \cup [phase : {"mark"}, tx : Txs, call : Calls \cup {NoCall}, row : Row]

TickTypes ==
  {IdleTick}
  \cup [phase : {"loop"}, list : SUBSET Intents]
  \cup [phase : {"grant", "complete", "over_cap", "fail"}, list : SUBSET Intents,
        intent : Intents, row : Row]

\* Every variable has its type.
TypeOK ==
  /\ rows \in [Intents -> Row \cup {NoRow}]
  /\ lapsed \subseteq Intents
  /\ chain \in [Txs -> Payment \cup {NoPayment}]
  /\ batches \in [Intents -> Seq(Nat)]
  /\ calls \in [Calls -> CallTypes]
  /\ tasks \in [Calls -> TaskTypes]
  /\ up \in BOOLEAN /\ sweep \in {"none", "started"}
  /\ orphans \subseteq Intents \X Txs
  /\ watch \in [Watchers -> WatchTypes]
  /\ tick \in [Ticks -> TickTypes]
  /\ expirable \subseteq Intents
  /\ faults \in 0..MaxFaults
  /\ clobbers \in [Intents -> Nat] /\ aborts \in [Intents -> Nat]

(***************************************************************************)
(* Safety                                                                  *)
(***************************************************************************)
Bytes(amount, price) == amount \div price

\* Every batch granted for an intent is worth a payment that was really made
\* to that intent, at the price locked when it was created, and is never
\* empty - whichever stale rows were written back meanwhile.
GrantsArePaidFor ==
  \A i \in Intents : \A n \in DOMAIN batches[i] :
    /\ batches[i][n] > 0
    /\ \E t \in Txs : /\ chain[t].intent = i
                      /\ batches[i][n] = Bytes(chain[t].amount, rows[i].price)

\* What a row says about its payment: an amount is on record exactly in the
\* statuses reached by a payment, FAILED is only for dust, and COMPLETED
\* only for an intent that has the batch this row's amount buys.
RowTruthful(i, r) ==
  /\ r.status \in {"PENDING", "EXPIRED"} <=> r.amount = 0
  /\ r.amount # 0 => \E t \in Txs : chain[t] = [intent |-> i, amount |-> r.amount]
  /\ r.status = "FAILED" => getIntentCredits(r) = 0
  /\ r.status = "OVER_CAP" => getIntentCredits(r) > 0
  /\ r.status = "COMPLETED" =>
       \E n \in DOMAIN batches[i] : batches[i][n] = getIntentCredits(r)

\* Whole rows written back by overlapping handlers never mix the status of
\* one outcome with the payment of another.
RowsTruthful == \A i \in Intents : rows[i] # NoRow => RowTruthful(i, rows[i])

\* The two tables agree about money: grants with the payments, rows with both.
PaymentsTruthful == GrantsArePaidFor /\ RowsTruthful

Completed(i) == IF rows[i] # NoRow /\ rows[i].status = "COMPLETED" THEN 1 ELSE 0

\* An intent is granted a second time only if an update was lost (a handler
\* wrote back a row that had changed since it read it) or a polling run
\* stopped or overlapped another between the grant and its write: each such
\* event buys at most one extra batch.
ExtraGrantsAccounted ==
  \A i \in Intents :
    Len(batches[i]) <= clobbers[i] + aborts[i] + Cardinality(InFlight(i)) + Completed(i)

\* The only step that can erase a recorded payment is a /watch request
\* writing back the row it read before the payment was recorded: neither
\* overlapping confirmations and polling runs, nor the cleanup of expired
\* intents, which races them on the same rows, ever does.
PaymentErasedOnlyByWatch ==
  [][\A i \in Intents :
       (rows[i] # NoRow /\ rows[i].amount # 0 /\ rows'[i].amount = 0)
       => \E c \in Calls : calls[c].phase = "watch" /\ calls[c].intent = i
                           /\ calls'[c] = DoneCall]_vars

(***************************************************************************)
(* Liveness, under FairSpec                                                *)
(***************************************************************************)
Settled(i) == rows[i] # NoRow /\ rows[i].status \in {"COMPLETED", "FAILED", "OVER_CAP"}

NoCallHolds(i) == \A c \in Calls : calls[c].phase \in {"publish", "watch"} => calls[c].intent # i

\* Once a payment is on record and no /watch request is half way through on
\* that intent, the polling loop settles it, across crashes and failures.
ConfirmedIsSettled ==
  \A i \in Intents :
    (rows[i] # NoRow /\ rows[i].status = "CONFIRMED" /\ NoCallHolds(i)) ~> Settled(i)

\* The start-up sweep: if the worker is down, no further fault follows and no
\* API call is left, a PENDING intent whose recorded transaction paid for it
\* is confirmed and settled although its task and its log were both missed.
OrphanIsRecovered ==
  \A i \in Intents :
    (/\ ~up /\ faults = MaxFaults
     /\ \A c \in Calls : calls[c] = DoneCall
     /\ rows[i] # NoRow /\ rows[i].status = "PENDING"
     /\ rows[i].tx # NoTx /\ chain[rows[i].tx].intent = i) ~> Settled(i)

\* No payment is left waiting, on record or missed.
PaymentsSettle == ConfirmedIsSettled /\ OrphanIsRecovered
=============================================================================
