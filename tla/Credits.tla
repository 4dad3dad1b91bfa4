------------------------------ MODULE Credits -------------------------------
(***************************************************************************)
(* The upload credits of one account: purchased batches with an expiry, a  *)
(* free tier derived from the interaction ledger, charges that draw on     *)
(* both, purchases under a cap, expiry and administrators' refunds         *)
(* (core/users/accounts.ts, core/users/credits.ts,                         *)
(* repositories/users/purchasedCredits.ts).                                *)
(*                                                                         *)
(* Accounts share nothing.  A database transaction under row locks is one  *)
(* step; a charge stops at every await between its transactions.  Batches  *)
(* are kept in the order of their expiry, which is that of their creation  *)
(* because credits.expiryDays is the same for all.                         *)
(***************************************************************************)
EXTENDS Naturals, Sequences, FiniteSetsExt

CONSTANTS
  Charges,      \* calls of registerInteraction for an upload
  Sizes,        \* bytes they may charge
  Purchases,    \* calls of addCreditsToAccount
  Amounts,      \* bytes they may add
  Cap,          \* credits.maxBytesPerUser
  FreeLimits,   \* uploadLimit: the default, and what an administrator may set
  MaxUpdates,   \* bound on administrators' account updates
  MaxMonths,    \* bound on new calendar months
  MaxFaults     \* bound on failed queries and crashes

ASSUME CreditsAssumption ==
  /\ IsFiniteSet(Charges)
  /\ Sizes \subseteq Nat /\ Amounts \subseteq Nat \ {0} /\ FreeLimits \subseteq Nat
  /\ Cap \in Nat /\ MaxUpdates \in Nat /\ MaxMonths \in Nat /\ MaxFaults \in Nat

VARIABLES
  batches,     \* purchased_credits rows, soonest expiry first
  lapsed,      \* how many of them have expires_at in the past
  purchased,   \* interactions of source purchased, summed
  free,        \* interactions of source free_tier, summed: past months, this month
  account,     \* the accounts row: model and uploadLimit
  charge,      \* calls of registerInteraction
  purchase,    \* calls of addCreditsToAccount
  updates, months, faults,
  lost,        \* history: consumed bytes neither recorded nor given back
  voided,      \* history: bytes of refunded batches
  returned,    \* history: bytes given back by compensating refunds
  partial,     \* history: recorded bytes of charges that then failed
  overlapped   \* history: charges that ran while another did

rows   == <<batches, lapsed>>
ledger == <<purchased, free>>
hist   == <<lost, voided, returned, partial, overlapped>>
bounds == <<updates, months>>
vars   == <<rows, ledger, account, charge, purchase, bounds, faults, hist>>

Sum(f) == MapThenSumSet(LAMBDA i : f[i], DOMAIN f)
Least(m, n) == IF m < n THEN m ELSE n
Minus(m, n) == IF m > n THEN m - n ELSE 0

Idle == [phase |-> "idle"]
Ok(n)  == [phase |-> "done", size |-> n]
Failed == Ok(0)
Running(c) == charge[c].phase \notin {"idle", "done"}

Fault == faults < MaxFaults /\ faults' = faults + 1

(***************************************************************************)
(* Batches                                                                 *)
(***************************************************************************)
\* expired = FALSE AND expires_at > NOW()
Usable(i) == i > lapsed /\ ~batches[i].expired

Remaining == [i \in DOMAIN batches |-> batches[i].remaining]

\* What each usable row holds, what is left in the others, and what a usable
\* row can be given back.
Holdings == [i \in DOMAIN batches |-> IF Usable(i) THEN batches[i].remaining ELSE 0]
active   == Sum(Holdings)
Leftovers == [i \in DOMAIN batches |-> IF Usable(i) THEN 0 ELSE batches[i].remaining]

\* Mutant: what the row still holds is not subtracted.
CapacitiesWhole == [i \in DOMAIN batches |-> IF Usable(i) THEN batches[i].original ELSE 0]

Capacities == [i \in DOMAIN batches |->
                 IF Usable(i) THEN batches[i].original - batches[i].remaining ELSE 0]

\* bytes spread over the rows in FIFO order, each up to f[i].
Share(f, bytes) ==
  [i \in DOMAIN f |-> Least(f[i], Minus(bytes, Sum([j \in 1..(i - 1) |-> f[j]])))]

\* Mutant: the first usable row takes what it can.
GiveBackOnce(bytes) ==
  LET first == {i \in DOMAIN batches : Usable(i) /\ \A j \in 1..(i - 1) : ~Usable(j)}
      back  == [i \in DOMAIN batches |-> IF i \in first THEN Least(Capacities[i], bytes) ELSE 0]
  IN /\ batches' = [i \in DOMAIN batches |-> [batches[i] EXCEPT !.remaining = @ + back[i]]]
     /\ returned' = returned + Sum(back)
     /\ lost' = lost + (bytes - Sum(back))

\* refundCredits: one transaction; what no row can take is only logged.
GiveBack(bytes) ==
  LET back == Share(Capacities, bytes)
  IN /\ batches' = [i \in DOMAIN batches |-> [batches[i] EXCEPT !.remaining = @ + back[i]]]
     /\ returned' = returned + Sum(back)
     /\ lost' = lost + (bytes - Sum(back))

(***************************************************************************)
(* registerInteraction                                                     *)
(***************************************************************************)
\* The account row is read here and used until the end.
Register(c, n) ==
  /\ charge[c] = Idle
  /\ overlapped' = overlapped \cup LET others == {d \in Charges : Running(d)}
                                 IN IF others = {} THEN {} ELSE others \cup {c}
  /\ charge' = [charge EXCEPT ![c] =
       [phase |-> "consume", size |-> n, paid |-> 0, free |-> n, account |-> account]]
  /\ UNCHANGED <<rows, ledger, account, purchase, bounds, faults, lost, voided, returned, partial>>

\* The size is split; a call for nothing is done.
Split(c, taken) ==
  LET rest == charge[c].size - taken
  IN charge' = [charge EXCEPT ![c] =
       CASE rest > 0             -> [@ EXCEPT !.phase = "guard", !.paid = taken, !.free = rest]
         [] rest = 0 /\ taken > 0 -> [@ EXCEPT !.phase = "paid", !.paid = taken, !.free = 0]
         [] OTHER                -> Ok(0)]

Drawn(take) == [i \in DOMAIN batches |-> [batches[i] EXCEPT !.remaining = @ - take[i]]]

\* consumeUpTo: one transaction, never refused.
Consume(c) ==
  /\ charge[c].phase = "consume"
  /\ LET take == Share(Holdings, charge[c].size)
     IN batches' = Drawn(take) /\ Split(c, Sum(take))
  /\ UNCHANGED <<lapsed, ledger, account, purchase, bounds, faults, hist>>

spentFree(a) == free.month + (IF a.monthly THEN 0 ELSE free.past)

\* The remainder fits or not; then the paid part is recorded or given back.
Decide(c, fits) ==
  charge' = [charge EXCEPT ![c] =
    IF charge[c].paid > 0 THEN [@ EXCEPT !.phase = IF fits THEN "paid" ELSE "refund"]
    ELSE IF fits THEN [@ EXCEPT !.phase = "free"] ELSE Failed]

\* Mutant: what was spent before is not subtracted.
GuardNothingSpent(c) ==
  /\ charge[c].phase = "guard"
  /\ Decide(c, charge[c].free <= charge[c].account.limit)
  /\ UNCHANGED <<rows, ledger, account, purchase, bounds, faults, hist>>

\* The free tier must cover the remainder.
Guard(c) ==
  /\ charge[c].phase = "guard"
  /\ Decide(c, charge[c].free <= Minus(charge[c].account.limit, spentFree(charge[c].account)))
  /\ UNCHANGED <<rows, ledger, account, purchase, bounds, faults, hist>>

RecordPurchased(c) ==
  /\ charge[c].phase = "paid"
  /\ purchased' = purchased + charge[c].paid
  /\ charge' = [charge EXCEPT ![c] =
       IF charge[c].free > 0 THEN [@ EXCEPT !.phase = "free"] ELSE Ok(charge[c].size)]
  /\ UNCHANGED <<rows, free, account, purchase, bounds, faults, hist>>

\* The purchased interaction could not be written.
RecordPurchasedFails(c) ==
  /\ charge[c].phase = "paid"
  /\ Fault
  /\ charge' = [charge EXCEPT ![c].phase = "refund"]
  /\ UNCHANGED <<rows, ledger, account, purchase, bounds, hist>>

RecordFree(c) ==
  /\ charge[c].phase = "free"
  /\ free' = [free EXCEPT !.month = @ + charge[c].free]
  /\ charge' = [charge EXCEPT ![c] = Ok(charge[c].size)]
  /\ UNCHANGED <<rows, purchased, account, purchase, bounds, faults, hist>>

Refund(c) ==
  /\ charge[c].phase = "refund"
  /\ GiveBack(charge[c].paid)
  /\ charge' = [charge EXCEPT ![c] = Failed]
  /\ UNCHANGED <<lapsed, ledger, account, purchase, bounds, faults, voided, partial, overlapped>>

\* Bytes of charge c that left the batches and are not in the ledger; bytes
\* of it that are in the ledger.
InFlight(c) == IF charge[c].phase \in {"guard", "paid", "refund"} THEN charge[c].paid ELSE 0
Written(c)  == IF charge[c].phase = "free" THEN charge[c].paid ELSE 0

\* Any other query of a charge fails, and the call with it: there is no
\* compensation for the free-tier read or for the free-tier record.
RegisterFails(c) ==
  /\ charge[c].phase \in {"consume", "guard", "refund", "free"}
  /\ Fault
  /\ charge' = [charge EXCEPT ![c] = Failed]
  /\ lost' = lost + InFlight(c)
  /\ partial' = partial + Written(c)
  /\ UNCHANGED <<rows, ledger, account, purchase, bounds, voided, returned, overlapped>>

(***************************************************************************)
(* addCreditsToAccount                                                     *)
(***************************************************************************)
\* Mutant: without the advisory lock.
CapCheckUnlocked(p, n) ==
  /\ purchase[p] = Idle
  /\ purchase' = [purchase EXCEPT ![p] =
       IF active + n > Cap THEN Failed ELSE [phase |-> "insert", size |-> n]]
  /\ UNCHANGED <<rows, ledger, account, charge, bounds, faults, hist>>

\* The advisory lock is free and the cap allows the purchase, or it is refused.
CapCheck(p, n) ==
  /\ purchase[p] = Idle
  /\ \A q \in Purchases : purchase[q].phase # "insert"
  /\ purchase' = [purchase EXCEPT ![p] =
       IF active + n > Cap THEN Failed ELSE [phase |-> "insert", size |-> n]]
  /\ UNCHANGED <<rows, ledger, account, charge, bounds, faults, hist>>

\* The row is inserted and the lock released.
Insert(p) ==
  /\ purchase[p].phase = "insert"
  /\ batches' = Append(batches, [original |-> purchase[p].size, remaining |-> purchase[p].size,
                                 expired |-> FALSE, refunded |-> FALSE])
  /\ purchase' = [purchase EXCEPT ![p] = Ok(purchase[p].size)]
  /\ UNCHANGED <<lapsed, ledger, account, charge, bounds, faults, hist>>

InsertFails(p) ==
  /\ purchase[p].phase = "insert"
  /\ Fault
  /\ purchase' = [purchase EXCEPT ![p] = Failed]
  /\ UNCHANGED <<rows, ledger, account, charge, bounds, hist>>

(***************************************************************************)
(* Expiry, administrators, time, crashes                                   *)
(***************************************************************************)
Lapse ==
  /\ lapsed < Len(batches)
  /\ lapsed' = lapsed + 1
  /\ UNCHANGED <<batches, ledger, account, charge, purchase, bounds, faults, hist>>

\* Mutant: expires_at is not looked at.
markExpiredAll ==
  /\ \E i \in DOMAIN batches : ~batches[i].expired /\ batches[i].remaining > 0
  /\ batches' = [i \in DOMAIN batches |->
       IF batches[i].remaining > 0 THEN [batches[i] EXCEPT !.expired = TRUE] ELSE batches[i]]
  /\ UNCHANGED <<lapsed, ledger, account, charge, purchase, bounds, faults, hist>>

\* The expiry job: one UPDATE.  The bytes of an expired row stay in it; they
\* could not be used any more since it lapsed.
markExpiredCredits ==
  /\ \E i \in 1..lapsed : ~batches[i].expired /\ batches[i].remaining > 0
  /\ batches' = [i \in DOMAIN batches |->
       IF i <= lapsed /\ batches[i].remaining > 0
       THEN [batches[i] EXCEPT !.expired = TRUE] ELSE batches[i]]
  /\ UNCHANGED <<lapsed, ledger, account, charge, purchase, bounds, faults, hist>>

\* Rows that owe no refund.
depleted == {i \in DOMAIN batches : ~batches[i].refunded /\ batches[i].remaining = 0}

\* refundBatch and refundBatches: rows refunded before are skipped, a
\* depleted one refuses the whole request.
refundBatches(S) ==
  /\ \E i \in S : ~batches[i].refunded
  /\ S \cap depleted = {}
  /\ voided' = voided + Sum([i \in {j \in S : ~batches[j].refunded} |-> batches[i].remaining])
  /\ batches' = [i \in DOMAIN batches |->
       IF i \in S /\ ~batches[i].refunded
       THEN [batches[i] EXCEPT !.remaining = 0, !.refunded = TRUE] ELSE batches[i]]
  /\ UNCHANGED <<lapsed, ledger, account, charge, purchase, bounds, faults, lost, returned, partial, overlapped>>

updateAccount(monthly, limit) ==
  /\ updates < MaxUpdates
  /\ updates' = updates + 1
  /\ account' = [monthly |-> monthly, limit |-> limit]
  /\ UNCHANGED <<rows, ledger, charge, purchase, months, faults, hist>>

NewMonth ==
  /\ months < MaxMonths
  /\ months' = months + 1
  /\ free' = [past |-> free.past + free.month, month |-> 0]
  /\ UNCHANGED <<rows, purchased, account, charge, purchase, updates, faults, hist>>

\* The API process stops in the middle of its charges.
Crash ==
  /\ Fault
  /\ \E c \in Charges : Running(c)
  /\ charge' = [c \in Charges |-> IF Running(c) THEN Failed ELSE charge[c]]
  /\ lost' = lost + Sum([c \in Charges |-> InFlight(c)])
  /\ partial' = partial + Sum([c \in Charges |-> Written(c)])
  /\ UNCHANGED <<rows, ledger, account, purchase, bounds, voided, returned, overlapped>>

(***************************************************************************)
(* Specification                                                           *)
(***************************************************************************)
Init ==
  /\ batches = <<>> /\ lapsed = 0
  /\ purchased = 0 /\ free = [past |-> 0, month |-> 0]
  /\ account \in [monthly : BOOLEAN, limit : FreeLimits]
  /\ charge = [c \in Charges |-> Idle]
  /\ purchase = [p \in Purchases |-> Idle]
  /\ updates = 0 /\ months = 0 /\ faults = 0
  /\ lost = 0 /\ voided = 0 /\ returned = 0 /\ partial = 0 /\ overlapped = {}

ChargeNext(c) ==
  \/ \E n \in Sizes : Register(c, n)
  \/ Consume(c) \/ Guard(c) \/ RecordPurchased(c) \/ RecordPurchasedFails(c)
  \/ RecordFree(c) \/ Refund(c) \/ RegisterFails(c)

PurchaseNext(p) == (\E n \in Amounts : CapCheck(p, n)) \/ Insert(p) \/ InsertFails(p)

Next ==
  \/ \E c \in Charges : ChargeNext(c)
  \/ \E p \in Purchases : PurchaseNext(p)
  \/ Lapse \/ markExpiredCredits
  \/ \E S \in SUBSET DOMAIN batches : refundBatches(S)
  \/ \E monthly \in BOOLEAN, limit \in FreeLimits : updateAccount(monthly, limit)
  \/ NewMonth \/ Crash

Spec == Init /\ [][Next]_vars

(***************************************************************************)
(* Type correctness                                                        *)
(***************************************************************************)
Account == [monthly : BOOLEAN, limit : FreeLimits]

\* Every variable has its type; no batch holds more than was bought with it.
TypeOK ==
  /\ batches \in Seq([original : Nat, remaining : Nat, expired : BOOLEAN, refunded : BOOLEAN])
  /\ \A i \in DOMAIN batches : batches[i].remaining <= batches[i].original
  /\ lapsed \in 0..Len(batches)
  /\ purchased \in Nat /\ free \in [past : Nat, month : Nat]
  /\ account \in Account
  /\ \A c \in Charges :
       \/ charge[c] = Idle
       \/ charge[c] \in [phase : {"done"}, size : Nat]
       \/ charge[c] \in [phase : {"consume", "guard", "paid", "free", "refund"}, size : Nat,
                         paid : Nat, free : Nat, account : Account]
  /\ \A p \in Purchases : purchase[p] = Idle \/ purchase[p] \in [phase : {"insert", "done"}, size : Nat]
  /\ updates \in 0..MaxUpdates /\ months \in 0..MaxMonths /\ faults \in 0..MaxFaults
  /\ lost \in Nat /\ voided \in Nat /\ returned \in Nat /\ partial \in Nat
  /\ overlapped \subseteq Charges

(***************************************************************************)
(* Safety                                                                  *)
(***************************************************************************)
inFlight == Sum([c \in Charges |-> InFlight(c)])

\* The abstract account: what purchased credits promise their owner.  A byte
\* expires when its row lapses, long before the job marks the row: every query
\* that draws on rows compares expires_at with the time.
Ledger == INSTANCE CreditLedger WITH
  usable <- active, reserved <- inFlight, spent <- purchased,
  expired <- Sum(Leftovers), gone <- lost + voided, dates <- lapsed

\* However charges, refunds, expiry and crashes interleave, a purchased byte is
\* usable until its row lapses; only usable bytes are taken by a charge, only
\* what a charge took is spent, and what it does not spend is given back to
\* usable rows or lost with it; an expired byte can only be refunded.
LedgerKept == Ledger!Spec

\* A charge that succeeds is recorded with exactly its size, over both
\* sources, and one that fails with nothing - unless it failed between its
\* two records.
ChargedExactly ==
  purchased + free.past + free.month
    = Sum([c \in Charges |-> IF charge[c].phase = "done" THEN charge[c].size ELSE Written(c)]) + partial

\* A rejected or failed charge finds room in the batches for all it took,
\* unless a batch lapsed meanwhile or something failed.
LossNeedsExpiryOrFault == lost > 0 => lapsed > 0 \/ faults > 0

\* What charges record, take and give back adds up.
ChargesBalance == ChargedExactly /\ LossNeedsExpiryOrFault

\* Concurrent purchases do not take an account over its cap: only what
\* charges give back after a purchase was admitted can.
CapHeld == active <= Cap + returned

\* Charges draw on the usable batch that expires first, and on no lapsed one.
SpentInOrder ==
  [][\A i \in DOMAIN batches :
       batches'[i].remaining < batches[i].remaining =>
         \/ batches'[i].refunded /\ ~batches[i].refunded
         \/ Usable(i) /\ \A j \in 1..(i - 1) : Usable(j) => batches'[j].remaining = 0]_vars

\* The free-tier interaction of the charge is written.
RecordsFree(c) == charge[c].phase = "free" /\ ~Running(c)' /\ free' # free

\* What the charges that overlapped with others, if c is one of them, have been
\* charged for.
OverlapSpent(c) ==
  Sum([d \in Charges |-> IF {c, d} \subseteq overlapped /\ d # c /\ charge[d].phase = "done"
                         THEN charge[d].size ELSE 0])

\* A charge that runs alone never overdraws the free tier it was admitted
\* under, whatever changes in the account row, the calendar and the batches
\* happen while it runs; one that overlaps with others overdraws it by no more
\* than they have been charged for.
FreeTierKept ==
  [][\A c \in Charges : RecordsFree(c) =>
       free'.month + (IF charge[c].account.monthly THEN 0 ELSE free'.past)
         <= charge[c].account.limit + OverlapSpent(c)]_vars

\* Each source of credits is drawn on by its own rule.
DrawsKeepRules == SpentInOrder /\ FreeTierKept
=============================================================================
