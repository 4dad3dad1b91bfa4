------------------------- MODULE TransactionManager -------------------------
(***************************************************************************)
(* The signer of publish-nodes: submit registers an account and a nonce    *)
(* for each transaction of a call, sends them a few at a time, follows     *)
(* each to a block and reports it published once Depth blocks were built   *)
(* on that block and it is still canonical.  A transaction that fails has  *)
(* its account's nonce read again from the chain, or its account removed   *)
(* from the pool; a call with a failure is submitted again by its task.    *)
(*                                                                         *)
(* onchainPublisher/transactionManager.ts, accounts.ts, confirmation.ts.   *)
(* The chain - blocks, forks, the node's transaction pool - is external.   *)
(* A block is known by its distance from the head: what the manager holds  *)
(* of it is whether Depth blocks are above it and whether it is canonical. *)
(***************************************************************************)
EXTENDS Integers, Sequences, FiniteSets

CONSTANTS
  Accounts,    \* getAccounts: the signing accounts, in order
  Calls,       \* calls of submit: the sets of transactions they are given
  Depth,       \* chain.confirmationDepth
  Slots,       \* params.maxConcurrentUploads
  Priority,    \* which of two transactions with one nonce the node prefers
  Turns,       \* bound: trxCounter is kept modulo a multiple of every pool size
  MaxFaults    \* bound: reorganisations, lost transactions, failures, aborts

Txs == UNION Calls
Signers == {Accounts[i] : i \in DOMAIN Accounts}

ASSUME TransactionConstants ==
  /\ Accounts \in Seq(Signers) /\ Accounts # <<>> /\ IsFiniteSet(Txs)
  /\ \A i, j \in DOMAIN Accounts : Accounts[i] = Accounts[j] => i = j  \* the keyring's map
  /\ Turns \in Nat \ {0} /\ \A n \in 1..Len(Accounts) : Turns % n = 0
  /\ \A c, d \in Calls : c # d => c \cap d = {}
  /\ Depth \in Nat \ {0} /\ Slots \in Nat \ {0} /\ Priority \in [Txs -> Nat]
  /\ MaxFaults \in Nat

VARIABLES
  pool,            \* accounts: those in use, in order
  trxCounter,      \* transactions registered, modulo Turns
  nonceByAccount,  \* the next nonce of each account, in memory
  tx,              \* each transaction of each call
  fork,            \* the last Depth blocks, oldest first: sets of extrinsics
  buried,          \* extrinsics in older blocks
  mempool,         \* extrinsics the node holds
  faults,
  overlapped,      \* history: transactions on their way when their account was reset
  leaked           \* history: accounts that lost a nonce since they were reset

signers == <<pool, trxCounter, nonceByAccount>>
chain   == <<fork, buried, mempool>>
hist    == <<overlapped, leaked>>
vars    == <<signers, tx, chain, faults, hist>>

Fault == faults < MaxFaults /\ faults' = faults + 1

(***************************************************************************)
(* The chain                                                               *)
(***************************************************************************)
Extrinsic == [account : Signers, nonce : Nat, tx : Txs]

InBlocks(blocks) == UNION {blocks[i] : i \in DOMAIN blocks}

\* The nonce of an account after the extrinsics of X.
NonceAfter(X, a) == Cardinality({e \in X : e.account = a})
OnChain(a) == NonceAfter(buried \cup InBlocks(fork), a)

Holds(M, a, n) == \E e \in M : e.account = a /\ e.nonce = n

\* system.accountNextIndex: the first nonce neither on chain nor in the pool.
getOnChainNonce(a) ==
  CHOOSE n \in OnChain(a)..(OnChain(a) + Cardinality(mempool)) :
    ~Holds(mempool, a, n) /\ \A m \in OnChain(a)..(n - 1) : Holds(mempool, a, m)

\* The extrinsics of M that may follow those of X in a block.
Ready(X, M) ==
  {e \in M : \A n \in NonceAfter(X, e.account)..(e.nonce - 1) : Holds(M, e.account, n)}

Block(X, M) ==
  {S \in SUBSET Ready(X, M) :
     \A e \in S, d \in M : (d.account = e.account /\ d.nonce < e.nonce) => d \in S}

Init ==
  /\ pool = Accounts /\ trxCounter = 0 /\ nonceByAccount = [a \in Signers |-> 0]
  /\ tx = [t \in Txs |-> [phase |-> "idle"]]
  /\ fork = [i \in 1..Depth |-> {}] /\ buried = {} /\ mempool = {}
  /\ faults = 0
  /\ overlapped = {} /\ leaked = {}

(***************************************************************************)
(* Transactions                                                            *)
(***************************************************************************)
CallOf(t) == CHOOSE c \in Calls : t \in c
Phase(p) == {t \in Txs : tx[t].phase = p}
Pending == Phase("queued") \cup Phase("sent")

ExtrinsicOf(t) == [account |-> tx[t].account, nonce |-> tx[t].nonce, tx |-> t]

\* inclusionHash and inclusionNumber: "at" is the inclusionSeq they were set
\* with, "above" the blocks above the block, up to Depth.
NoBlock == [at |-> 0, above |-> 0, live |-> FALSE]

Queued(a, n) == [phase |-> "queued", account |-> a, nonce |-> n]
Sent(a, n) == [phase |-> "sent", account |-> a, nonce |-> n, inclusionSeq |-> 0,
               lookups |-> {}, target |-> NoBlock, checking |-> 0]
Settled(a, invalid) == [phase |-> "recover", account |-> a, invalid |-> invalid]
Failed == [phase |-> "failed"]
Succeeded == [phase |-> "ok"]

\* resolveOnce with a failure, for each transaction of S.
Fails(S, invalid) ==
  [t \in Txs |-> IF t \in S THEN Settled(tx[t].account, invalid) ELSE tx[t]]

\* A block of the new head is above every block the manager knows; those with
\* fewer than "dropped" blocks above them are not canonical any more.
Aged(b, dropped) ==
  IF b = NoBlock THEN b
  ELSE [b EXCEPT !.live = @ /\ b.above >= dropped,
                 !.above = IF @ < Depth THEN @ + 1 ELSE Depth]

\* The extrinsics of S get into a block with "above" blocks above it: those
\* that are watched see isInBlock, which takes a number and starts a lookup.
Watch(S, above, dropped) ==
  [t \in Txs |->
    IF tx[t].phase # "sent" THEN tx[t]
    ELSE LET old == {Aged(b, dropped) : b \in tx[t].lookups}
             hit == ExtrinsicOf(t) \in S
             seq == tx[t].inclusionSeq + 1
         IN [tx[t] EXCEPT
              !.target = Aged(@, dropped),
              !.inclusionSeq = IF hit THEN seq ELSE @,
              !.lookups = IF hit THEN old \cup {[at |-> seq, above |-> above, live |-> TRUE]} ELSE old]]

(***************************************************************************)
(* Blocks, reorganisations, the node's pool                                *)
(***************************************************************************)
Produce(S) ==
  /\ S \in Block(buried \cup InBlocks(fork), mempool)
  /\ buried' = buried \cup fork[1]
  /\ fork' = Append(Tail(fork), S)
  /\ mempool' = mempool \ S
  /\ tx' = Watch(S, 0, 0)
  /\ UNCHANGED <<signers, faults, hist>>

\* The last n blocks are replaced by n + 1.  Their extrinsics go back to the
\* pool or are lost; some are in one of the new blocks.
Reorg(n, i, lost, S) ==
  /\ Fault
  /\ LET kept    == SubSeq(fork, 1, Depth - n)
         gone    == InBlocks(SubSeq(fork, Depth - n + 1, Depth))
         back    == mempool \cup (gone \ lost)
         blocks  == kept \o [j \in 1..(n + 1) |-> IF j = i THEN S ELSE {}]
     IN /\ lost \subseteq gone /\ S \in Block(buried \cup InBlocks(kept), back)
        /\ buried' = buried \cup blocks[1] /\ fork' = Tail(blocks)
        /\ mempool' = back \ S
        /\ tx' = Watch(S, n + 1 - i, n)
        /\ leaked' = leaked \cup {e.account : e \in lost}
  /\ UNCHANGED <<signers, overlapped>>

\* The node drops an extrinsic, without a status that the manager handles.
Drop(e) ==
  /\ e \in mempool /\ Fault
  /\ mempool' = mempool \ {e} /\ leaked' = leaked \cup {e.account}
  /\ UNCHANGED <<signers, tx, fork, buried, overlapped>>

\* The node finds that an extrinsic cannot be valid (balance, key, era).
Invalidate(e) ==
  /\ e \in mempool /\ Fault
  /\ mempool' = mempool \ {e}
  /\ IF e.tx \in Phase("sent") /\ e = ExtrinsicOf(e.tx)
     THEN tx' = Fails({e.tx}, TRUE) /\ UNCHANGED leaked
     ELSE leaked' = leaked \cup {e.account} /\ UNCHANGED tx
  /\ UNCHANGED <<signers, fork, buried, overlapped>>

(***************************************************************************)
(* Accounts                                                                *)
(***************************************************************************)
\* The nonces of the accounts of S are read from the chain.
Reset(S) ==
  /\ nonceByAccount' =
       [a \in Signers |-> IF a \in S THEN getOnChainNonce(a) ELSE nonceByAccount[a]]
  /\ overlapped' = overlapped \cup {t \in Pending : tx[t].account \in S}
  /\ leaked' = leaked \ S

\* A call has failed because one of its registrations did.
Doomed(c) == c \cap Phase("failed") # {}

\* Mutant: the next transaction gets the same nonce.
RegisterSame(t, accounts, nonces) ==
  LET a == accounts[(trxCounter % Len(accounts)) + 1]
  IN /\ nonceByAccount' = nonces /\ trxCounter' = (trxCounter + 1) % Turns
     /\ tx' = [tx EXCEPT ![t] = Queued(a, nonces[a])]
     /\ UNCHANGED leaked /\ overlapped' = overlapped \ {t}

\* registerTransaction takes the accounts in turn.  What is registered for a
\* doomed call is not sent.
Register(t, accounts, nonces) ==
  LET a == accounts[(trxCounter % Len(accounts)) + 1]
  IN /\ nonceByAccount' = [nonces EXCEPT ![a] = @ + 1]
     /\ trxCounter' = (trxCounter + 1) % Turns
     /\ tx' = [tx EXCEPT ![t] = IF Doomed(CallOf(t)) THEN Failed ELSE Queued(a, nonces[a])]
     /\ leaked' = (IF pool = <<>> THEN {} ELSE leaked) \cup (IF Doomed(CallOf(t)) THEN {a} ELSE {})
     /\ overlapped' = (overlapped \cup (IF pool = <<>> THEN Pending ELSE {})) \ {t}

\* An empty pool is initialised first.
registerTransaction(t) ==
  /\ t \in Phase("register")
  /\ pool' = IF pool = <<>> THEN Accounts ELSE pool
  /\ Register(t, pool', IF pool = <<>> THEN [a \in Signers |-> getOnChainNonce(a)]
                        ELSE nonceByAccount)
  /\ UNCHANGED <<chain, faults>>

\* As long as initAccounts fails, so does the call: what it has registered is
\* lost.
registerFails(t) ==
  /\ t \in Phase("register") /\ pool = <<>>
  /\ LET c == CallOf(t) \cap Phase("queued")
     IN /\ tx' = [u \in Txs |-> IF u = t \/ u \in c THEN Failed ELSE tx[u]]
        /\ leaked' = leaked \cup {tx[u].account : u \in c}
  /\ UNCHANGED <<signers, chain, faults, overlapped>>

\* All of the call are registered, and one of the slots is free.
MaySend(t) ==
  /\ t \in Phase("queued") /\ CallOf(t) \cap Phase("register") = {}
  /\ Cardinality(Phase("sent") \cup Phase("recover")) < Slots

\* pLimit starts at once what has a slot, and the connection keeps the order:
\* the nonces are read after that.
SlotsUsed == \A t \in Txs : ~MaySend(t)

\* accounts.splice where findIndex finds the account.
Without(a) ==
  IF \A i \in DOMAIN pool : pool[i] # a THEN pool
  ELSE LET k == CHOOSE i \in DOMAIN pool : pool[i] = a
       IN SubSeq(pool, 1, k - 1) \o SubSeq(pool, k + 1, Len(pool))

\* Mutant: an account that is in the pool is added again.
WithAgain(a) == Append(pool, a)

With(a) == IF a \in {pool[i] : i \in DOMAIN pool} THEN pool ELSE Append(pool, a)

\* removeAccount for a transaction the node called invalid, resyncAccount for
\* any other failure.
recover(t) ==
  /\ t \in Phase("recover") /\ SlotsUsed
  /\ LET a == tx[t].account IN
     \/ /\ tx[t].invalid /\ Without(a) # <<>>
        /\ pool' = Without(a) /\ UNCHANGED <<nonceByAccount, overlapped, leaked>>
     \/ /\ tx[t].invalid /\ Without(a) = <<>>
        /\ pool' = Accounts /\ Reset(Signers)
     \/ /\ ~tx[t].invalid
        /\ pool' = With(a) /\ Reset({a})
  /\ tx' = [tx EXCEPT ![t] = Failed]
  /\ UNCHANGED <<trxCounter, chain, faults>>

\* The nonces cannot be read; the pool has already changed.  A pool that stays
\* empty is initialised by the next registration.
recoverFails(t) ==
  /\ t \in Phase("recover") /\ SlotsUsed
  /\ LET a == tx[t].account IN
     \/ /\ tx[t].invalid /\ Without(a) = <<>>
        /\ pool' = <<>> /\ UNCHANGED <<faults, leaked>>
     \/ /\ ~tx[t].invalid /\ Fault
        /\ pool' = With(a) /\ leaked' = leaked \cup {a}
  /\ tx' = [tx EXCEPT ![t] = Failed]
  /\ UNCHANGED <<trxCounter, nonceByAccount, chain, overlapped>>

(***************************************************************************)
(* submit                                                                  *)
(***************************************************************************)
\* A task submits its transactions, and again all of them if one failed.
submit(c) ==
  /\ \/ \A t \in c : tx[t].phase = "idle"
     \/ c \subseteq Phase("ok") \cup Phase("failed") /\ ~(c \subseteq Phase("ok"))
  /\ tx' = [t \in Txs |-> IF t \in c THEN [phase |-> "register"] ELSE tx[t]]
  /\ UNCHANGED <<signers, chain, faults, hist>>

\* The extrinsics in the pool with the nonce of t.
Rivals(t) == {e \in mempool : e.account = tx[t].account /\ e.nonce = tx[t].nonce}

\* signAndSend: the node takes the extrinsic, in place of another one maybe,
\* whose watcher is told that it was usurped.
signAndSend(t) ==
  /\ MaySend(t)
  /\ tx[t].nonce >= OnChain(tx[t].account)
  /\ \A e \in Rivals(t) : Priority[e.tx] < Priority[t]
  /\ mempool' = (mempool \ Rivals(t)) \cup {ExtrinsicOf(t)}
  /\ LET usurped == {u \in Phase("sent") : ExtrinsicOf(u) \in Rivals(t)}
     IN tx' = [Fails(usurped, FALSE) EXCEPT ![t] = Sent(tx[t].account, tx[t].nonce)]
  /\ UNCHANGED <<signers, fork, buried, faults, hist>>

\* The node does not take it: its nonce is outdated, or taken.
signAndSendFails(t) ==
  /\ MaySend(t)
  /\ \/ tx[t].nonce < OnChain(tx[t].account)
     \/ \E e \in Rivals(t) : Priority[e.tx] >= Priority[t]
  /\ tx' = Fails({t}, FALSE)
  /\ UNCHANGED <<signers, chain, faults, hist>>

\* getBlock answers; only the latest isInBlock sets the inclusion block.
targetInclusion(t, b) ==
  /\ t \in Phase("sent") /\ b \in tx[t].lookups
  /\ tx' = [tx EXCEPT ![t].lookups = @ \ {b},
                      ![t].target = IF b.at = tx[t].inclusionSeq THEN b ELSE @]
  /\ UNCHANGED <<signers, chain, faults, hist>>

\* Mutant: one block too early.
ReachedEarly(b) == b # NoBlock /\ b.above + 1 >= Depth

hasReachedConfirmationDepth(b) == b # NoBlock /\ b.above >= Depth

\* runConfirmationCheck, from a new head or the poll, asks for the block at
\* the inclusion height.
checkConfirmation(t) ==
  /\ t \in Phase("sent") /\ tx[t].checking = 0
  /\ hasReachedConfirmationDepth(tx[t].target)
  /\ tx' = [tx EXCEPT ![t].checking = tx[t].target.at]
  /\ UNCHANGED <<signers, chain, faults, hist>>

isStillCanonical(b) == b.live

\* It is judged, unless the inclusion block has changed or the call fails.
confirm(t) ==
  /\ t \in Phase("sent") /\ tx[t].checking # 0
  /\ tx' = IF tx[t].checking # tx[t].target.at THEN [tx EXCEPT ![t].checking = 0]
           ELSE IF isStillCanonical(tx[t].target) THEN [tx EXCEPT ![t] = Succeeded]
           ELSE Fails({t}, FALSE)
  /\ UNCHANGED <<signers, chain, faults, hist>>

confirmFails(t) ==
  /\ t \in Phase("sent") /\ tx[t].checking # 0 /\ Fault
  /\ tx' = [tx EXCEPT ![t].checking = 0]
  /\ UNCHANGED <<signers, chain, hist>>

\* Mutant: the clock is started by the first inclusion only.
StuckInBlock(t) == tx[t].lookups = {} /\ tx[t].target # NoBlock /\ ~tx[t].target.live

\* The extrinsic of t is in no block, and out of the node's pool or behind a
\* nonce that nobody is going to use.
Stuck(t) ==
  /\ tx[t].lookups = {} /\ tx[t].target = NoBlock
  /\ \/ ExtrinsicOf(t) \notin mempool
     \/ \E n \in OnChain(tx[t].account)..(tx[t].nonce - 1) :
          /\ ~Holds(mempool, tx[t].account, n)
          /\ \A u \in Pending : ~(tx[u].account = tx[t].account /\ tx[u].nonce = n)

Timeout(t) ==
  /\ t \in Phase("sent") /\ Stuck(t)
  /\ tx' = Fails({t}, FALSE)
  /\ UNCHANGED <<signers, chain, faults, hist>>

\* A transaction that may still get into a block times out or fails; the
\* connection reports an error to all; the task of a call is aborted.
GiveUp(S) ==
  /\ \/ \E t \in Phase("sent") : S = {t}
     \/ S = Phase("sent")
     \/ \E c \in Calls : c \cap Phase("register") = {} /\ S = c \cap Pending
  /\ S # {} /\ Fault
  /\ tx' = Fails(S, FALSE)
  /\ UNCHANGED <<signers, chain, hist>>

Following(t) ==
  \/ t \in Phase("sent") /\ \E b \in tx[t].lookups : targetInclusion(t, b)
  \/ checkConfirmation(t) \/ confirm(t)
  \/ Timeout(t) \/ recover(t)

Sending(t) ==
  \/ registerTransaction(t) \/ registerFails(t)
  \/ signAndSend(t) \/ signAndSendFails(t)
  \/ Following(t) \/ confirmFails(t) \/ recoverFails(t)

Next ==
  \/ \E c \in Calls : submit(c)
  \/ \E t \in Txs : Sending(t)
  \/ \E S \in SUBSET Txs : GiveUp(S)
  \/ \E S \in SUBSET mempool : Produce(S)
  \/ \E n \in 1..Depth : \E i \in 1..(n + 1) :
       \E lost \in SUBSET InBlocks(fork), S \in SUBSET (mempool \cup InBlocks(fork)) : Reorg(n, i, lost, S)
  \/ \E e \in mempool : Drop(e) \/ Invalidate(e)

Spec == Init /\ [][Next]_vars

\* Blocks are produced and take what is ready; awaited calls return; a stuck
\* transaction times out; a failed task is tried or enqueued again.
Fairness ==
  /\ WF_vars(Produce(Ready(buried \cup InBlocks(fork), mempool)))
  /\ \A c \in Calls : WF_vars(submit(c))
  /\ \A t \in Txs :
       /\ SF_vars(registerTransaction(t))
       /\ SF_vars(signAndSend(t) \/ signAndSendFails(t))
       /\ WF_vars(Following(t))

FairSpec == Spec /\ Fairness

(***************************************************************************)
(* Type correctness                                                        *)
(***************************************************************************)
BlockType == [at : Nat, above : 0..Depth, live : BOOLEAN]

TxTypes ==
  [phase : {"idle", "register", "failed", "ok"}]
  \cup [phase : {"queued"}, account : Signers, nonce : Nat]
  \cup [phase : {"sent"}, account : Signers, nonce : Nat, inclusionSeq : Nat,
        lookups : SUBSET BlockType, target : BlockType, checking : Nat]
  \cup [phase : {"recover"}, account : Signers, invalid : BOOLEAN]

\* Every variable has its type, and no account is in the pool twice.
TypeOK ==
  /\ pool \in Seq(Signers) /\ \A i, j \in DOMAIN pool : pool[i] = pool[j] => i = j
  /\ trxCounter \in 0..(Turns - 1)
  /\ nonceByAccount \in [Signers -> Nat]
  /\ tx \in [Txs -> TxTypes]
  /\ fork \in [1..Depth -> SUBSET Extrinsic]
  /\ buried \subseteq Extrinsic /\ mempool \subseteq Extrinsic
  /\ faults \in 0..MaxFaults
  /\ overlapped \subseteq Txs /\ leaked \subseteq Signers

(***************************************************************************)
(* Safety                                                                  *)
(***************************************************************************)
\* No phantom nodes: a transaction reported as published is in a block that no
\* reorganisation can take away, however often it changed blocks and whatever
\* the order in which lookups, checks and reorganisations happened.
PublishedIsDurable == \A t \in Phase("ok") : \E e \in buried : e.tx = t

\* Two transactions on their way use one nonce only if the nonces of their
\* account were read again while one of them was.
ReuseNeedsReset ==
  \A t, u \in Pending :
    (t # u /\ tx[t].account = tx[u].account /\ tx[t].nonce = tx[u].nonce)
      => {t, u} \cap overlapped # {}

Quiet(a) == \A t \in Pending \cup Phase("recover") : tx[t].account # a

\* When nothing of an account is on its way its next nonce is not ahead of the
\* chain, which would leave every later transaction stuck until it times out,
\* unless an extrinsic was lost after the nonces were last read.
NoGapLeft ==
  \A a \in {pool[i] : i \in DOMAIN pool} : (Quiet(a) /\ a \notin leaked) => nonceByAccount[a] <= getOnChainNonce(a)

\* The next nonce of an account is neither behind nor ahead.
NoncesSound == ReuseNeedsReset /\ NoGapLeft

(***************************************************************************)
(* Liveness, under FairSpec                                                *)
(***************************************************************************)
\* The transactions on their way have a slot each.  Those of the deployed
\* defaults have not: core/uploads/uploads.ts:616 makes batches of 50, and
\* config.ts:247 has 40 slots.
SlotsSuffice == Cardinality(Txs) <= Slots

\* With a slot for each transaction every call is published if faults come to
\* an end: nonce gaps, evicted accounts, late extrinsics of earlier attempts
\* and reorganisations heal.  With fewer slots a call is published as long as
\* nothing fails; after a failure it may fail for ever, because the nonces of
\* an account are read again while transactions that hold later ones wait.
EventuallyPublished ==
  \A c \in Calls :
    (c \cap Phase("idle") = {}) ~> (c \subseteq Phase("ok") \/ (~SlotsSuffice /\ faults > 0))
=============================================================================
