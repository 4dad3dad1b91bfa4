------------------------------ MODULE Uploads ------------------------------
(***************************************************************************)
(* One file upload served by several API processes: parts are stored and   *)
(* drained into the upload's blockstore, completion is claimed, the root   *)
(* node is derived, the account is charged, and the upload is handed to    *)
(* migration or aborted (core/uploads/uploads.ts and uploadProcessing.ts). *)
(*                                                                         *)
(* Uploads share no state but the account's credits, so one is enough.     *)
(* Each request runs in one process and stops at every await; requests of  *)
(* one process are serialised by the in-memory drain lock only around the  *)
(* storing and draining of parts.  Deleting the upload row cascades to its *)
(* blockstore, parts and processing info.                                  *)
(***************************************************************************)
EXTENDS Naturals, Sequences, FiniteSets

CONSTANTS
  Requests,     \* HTTP requests on this upload: each is made once
  Procs,        \* API server processes
  NParts,       \* parts have indices 0..NParts-1, in any order of arrival
  Data,         \* what a part may hold; every part is one unit long
  ChunkSize,    \* units per IPLD chunk
  MaxFaults,    \* bound on failed awaits, lost publishes and crashes
  Slow,         \* may a completion outlast completionClaimStaleMs?
  Ordered,      \* does the client never overlap requests of different kinds?
  Free          \* a drain lock nobody holds

ASSUME UploadsAssumption ==
  /\ NParts \in Nat /\ ChunkSize \in Nat \ {0} /\ MaxFaults \in Nat
  /\ Slow \in BOOLEAN /\ Ordered \in BOOLEAN
  /\ IsFiniteSet(Requests) /\ Free \notin Requests

VARIABLES
  status,      \* uploads.status, or "GONE" once the row is deleted
  stale,       \* updated_at is older than the window that applies to status
  parts,       \* file_parts: stored index -> data
  processed,   \* last_processed_part_index + 1
  pending,     \* pending_bytes
  chunks,      \* FileChunk rows of the blockstore, in sort order
  roots,       \* File (root) rows of the blockstore: one per distinct CID
  holder,      \* who holds each process's drain lock for this upload
  req,         \* requests
  tasks,       \* migrate-upload-nodes tasks waiting
  returned,    \* CIDs completeUpload has answered with
  charges,     \* registerInteraction calls that committed
  faults,
  takeovers,   \* history: stale claims taken over
  recharges,   \* history: completions that failed between charge and flip
  stranded,    \* history: claims whose holder died, or failed without releasing them
  torn,        \* history: blockstore writes whose companion write never happened
  undercut     \* history: an abort deleted the root of a completion at work

upload == <<status, stale>>
files  == <<parts, processed, pending>>
blocks == <<chunks, roots>>
hist   == <<takeovers, recharges, stranded, torn, undercut>>
vars   == <<upload, files, blocks, holder, req, tasks, returned, charges, faults, hist>>

Live == status # "GONE"

Idle == [phase |-> "idle"]
Done == [phase |-> "done"]

\* Phases of completeUpload while it holds the completion claim.
Claimed == {"claimed", "lock", "drain", "cursor", "check", "flush", "clear", "derive",
            "charge", "finalize", "release"}

Completing(r) == req[r].phase \in Claimed /\ req[r].kind = "complete"

\* A client that is Ordered waits for its chunks before it completes, and so on.
MayStart(r, kind) ==
  /\ req[r] = Idle
  /\ Ordered => \A s \in Requests :
                  req[s].phase \notin {"idle", "done"} => req[s].kind = kind

Fault == faults < MaxFaults /\ faults' = faults + 1

Step(r, phase)  == req' = [req EXCEPT ![r].phase = phase]
Answer(r)       == req' = [req EXCEPT ![r] = Done]
Unlocked(r)     == [p \in Procs |-> IF holder[p] = r THEN Free ELSE holder[p]]

\* Mutant: a failed completion keeps its claim.
ThrowHolding(r) == Answer(r)

\* An exception: a completion hands its claim back once it is inside its try
\* block, any other request ends.
Throw(r) == IF Completing(r) /\ req[r].phase # "claimed" THEN Step(r, "release") ELSE Answer(r)

(***************************************************************************)
(* Bytes, chunks and roots                                                 *)
(***************************************************************************)
\* processChunksToIPLDFormat: whole chunks are written, the rest is left over.
FullChunks(bytes) ==
  [k \in 1..(Len(bytes) \div ChunkSize) |->
     SubSeq(bytes, (k - 1) * ChunkSize + 1, k * ChunkSize)]
LeftOver(bytes) == SubSeq(bytes, (Len(bytes) \div ChunkSize) * ChunkSize + 1, Len(bytes))

Flatten[n \in Nat] == IF n = 0 THEN <<>> ELSE Flatten[n - 1] \o chunks[n]

\* getUploadFilePartsSize.
storedSize == Cardinality(DOMAIN parts)

\* The root covers the chunk rows found; its node_size is the parts' size.
RootNode == [size |-> storedSize, content |-> Flatten[Len(chunks)]]

(***************************************************************************)
(* The drain lock and draining                                             *)
(***************************************************************************)
AcquireLock(r) ==
  /\ req[r].phase = "lock"
  /\ holder[req[r].proc] = Free
  /\ holder' = [holder EXCEPT ![req[r].proc] = r]
  /\ Step(r, IF req[r].kind = "chunk" THEN "guard" ELSE "drain")
  /\ UNCHANGED <<upload, files, blocks, tasks, returned, charges, faults, hist>>

\* drainLoop and processChunk: the next contiguous part goes into the tree.
PutChunks(r) ==
  /\ req[r].phase = "drain"
  /\ Live /\ processed \in DOMAIN parts
  /\ LET bytes == pending \o <<parts[processed]>>
     IN /\ chunks' = chunks \o FullChunks(bytes)
        /\ req' = [req EXCEPT ![r].phase = "cursor", ![r].next = processed + 1,
                              ![r].left = LeftOver(bytes)]
  /\ UNCHANGED <<upload, files, roots, holder, tasks, returned, charges, faults, hist>>

\* The whole processing-info row is written.
SetCursor(r) ==
  /\ req[r].phase = "cursor"
  /\ IF Live THEN processed' = req[r].next /\ pending' = req[r].left
             ELSE UNCHANGED <<processed, pending>>
  /\ Step(r, "drain")
  /\ UNCHANGED <<upload, parts, blocks, holder, tasks, returned, charges, faults, hist>>

\* No further contiguous part: a chunk request is done; a completion refuses
\* a gap.  Without its row the drain throws.
DrainDone(r) ==
  /\ req[r].phase = "drain"
  /\ ~Live \/ processed \notin DOMAIN parts
  /\ holder' = Unlocked(r)
  /\ IF Live /\ req[r].kind = "complete" /\ \A i \in DOMAIN parts : i < processed
     THEN Step(r, "check") ELSE Throw(r)
  /\ UNCHANGED <<upload, files, blocks, tasks, returned, charges, faults, hist>>

(***************************************************************************)
(* uploadChunk                                                             *)
(***************************************************************************)
ChunkRead(r, p, i, d) ==
  /\ MayStart(r, "chunk")
  /\ Live
  /\ req' = [req EXCEPT ![r] = [phase |-> "lock", kind |-> "chunk", proc |-> p, index |-> i,
                                data |-> d, next |-> 0, left |-> <<>>]]
  /\ UNCHANGED <<upload, files, blocks, holder, tasks, returned, charges, faults, hist>>

\* A processed part is immutable: the same bytes are a no-op, others refused.
GuardChunk(r) ==
  /\ req[r].phase = "guard"
  /\ IF Live /\ req[r].index < processed
     THEN Answer(r) /\ holder' = Unlocked(r)
     ELSE Step(r, "store") /\ UNCHANGED holder
  /\ UNCHANGED <<upload, files, blocks, tasks, returned, charges, faults, hist>>

\* addChunk: an upsert at the declared index.
StoreChunk(r) ==
  /\ req[r].phase = "store"
  /\ IF Live
     THEN /\ parts' = [i \in DOMAIN parts \cup {req[r].index} |->
                         IF i = req[r].index THEN req[r].data ELSE parts[i]]
          /\ Step(r, "drain") /\ UNCHANGED holder
     ELSE Answer(r) /\ holder' = Unlocked(r) /\ UNCHANGED parts
  /\ UNCHANGED <<upload, processed, pending, blocks, tasks, returned, charges, faults, hist>>

(***************************************************************************)
(* completeUpload                                                          *)
(***************************************************************************)
CompleteRead(r, p) ==
  /\ MayStart(r, "complete")
  /\ status \in {"PENDING", "COMPLETING", "MIGRATING"}
  /\ req' = [req EXCEPT ![r] =
       [phase |-> IF status = "MIGRATING" THEN "resolve" ELSE "claim", kind |-> "complete",
        proc |-> p, redrive |-> status = "MIGRATING", root |-> {}, next |-> 0, left |-> <<>>]]
  /\ UNCHANGED <<upload, files, blocks, holder, tasks, returned, charges, faults, hist>>

\* Mutant: a completed upload can be claimed.
ClaimableTwice == status \in {"PENDING", "MIGRATING"} \/ (status = "COMPLETING" /\ stale)

Claimable == status = "PENDING" \/ (status = "COMPLETING" /\ stale)

\* claimUploadForCompletion: one conditional UPDATE.
Claim(r) ==
  /\ req[r].phase \in {"claim", "claimAgain"}
  /\ IF Claimable
     THEN /\ status' = "COMPLETING" /\ stale' = FALSE
          /\ takeovers' = takeovers + (IF status = "COMPLETING" THEN 1 ELSE 0)
          /\ Step(r, "claimed")
     ELSE /\ IF req[r].phase = "claim" THEN Step(r, "reread") ELSE Answer(r)
          /\ UNCHANGED <<upload, takeovers>>
  /\ UNCHANGED <<files, blocks, holder, tasks, returned, charges, faults, recharges, stranded, torn, undercut>>

\* The row is read again under the claim; if it is gone the old copy serves.
ReadClaimed(r) ==
  /\ req[r].phase = "claimed"
  /\ Step(r, "lock")
  /\ UNCHANGED <<upload, files, blocks, holder, tasks, returned, charges, faults, hist>>

\* The claim was lost: the row says to whom.
Reread(r) ==
  /\ req[r].phase = "reread"
  /\ CASE status = "MIGRATING" -> Step(r, "resolve")
       [] status = "PENDING"   -> Step(r, "claimAgain")
       [] OTHER                -> Answer(r)
  /\ UNCHANGED <<upload, files, blocks, holder, tasks, returned, charges, faults, hist>>

\* resolveAlreadyCompletedUpload: the existing CID, and a re-drive of a
\* migration that has been waiting for a whole window.
Resolve(r) ==
  /\ req[r].phase = "resolve"
  /\ IF Live /\ Cardinality(roots) = 1
     THEN /\ returned' = returned \cup roots
          /\ tasks' = IF req[r].redrive /\ stale THEN tasks + 1 ELSE tasks
     ELSE UNCHANGED <<returned, tasks>>
  /\ Answer(r)
  /\ UNCHANGED <<upload, files, blocks, holder, charges, faults, hist>>

\* Mutant: an existing root is reused whatever is stored.
CheckRootUnsized(r) ==
  /\ req[r].phase = "check"
  /\ IF Live /\ roots = {}
     THEN req' = [req EXCEPT ![r].phase = IF pending = <<>> THEN "derive" ELSE "flush",
                             ![r].left = pending, ![r].next = processed]
     ELSE IF Live /\ Cardinality(roots) = 1
          THEN req' = [req EXCEPT ![r].phase = "charge", ![r].root = roots]
          ELSE Throw(r)
  /\ UNCHANGED <<upload, files, blocks, holder, tasks, returned, charges, faults, hist>>

\* completeFileProcessing: a root that exists is reused if it still covers
\* the stored parts; otherwise the tail is flushed and a root derived.
CheckRoot(r) ==
  /\ req[r].phase = "check"
  /\ IF Live /\ roots = {}
     THEN req' = [req EXCEPT ![r].phase = IF pending = <<>> THEN "derive" ELSE "flush",
                             ![r].left = pending, ![r].next = processed]
     ELSE IF Live /\ Cardinality(roots) = 1 /\ \A n \in roots : n.size = storedSize
          THEN req' = [req EXCEPT ![r].phase = "charge", ![r].root = roots]
          ELSE Throw(r)
  /\ UNCHANGED <<upload, files, blocks, holder, tasks, returned, charges, faults, hist>>

FlushTail(r) ==
  /\ req[r].phase = "flush"
  /\ IF Live THEN chunks' = Append(chunks, req[r].left) /\ Step(r, "clear")
             ELSE Throw(r) /\ UNCHANGED chunks
  /\ UNCHANGED <<upload, files, roots, holder, tasks, returned, charges, faults, hist>>

\* Mutant: the flushed tail stays pending.
ClearTailNot(r) ==
  /\ req[r].phase = "clear"
  /\ Step(r, "derive")
  /\ UNCHANGED <<upload, files, blocks, holder, tasks, returned, charges, faults, hist>>

\* The row read before the flush is written back without its tail.
ClearTail(r) ==
  /\ req[r].phase = "clear"
  /\ IF Live THEN processed' = req[r].next /\ pending' = <<>>
             ELSE UNCHANGED <<processed, pending>>
  /\ Step(r, "derive")
  /\ UNCHANGED <<upload, parts, blocks, holder, tasks, returned, charges, faults, hist>>

\* processBufferToIPLDFormatFromChunks: the only chunk of a small file is
\* folded into the root.
DeriveRoot(r) ==
  /\ req[r].phase = "derive"
  /\ IF Live
     THEN /\ roots' = roots \cup {RootNode}
          /\ chunks' = IF Len(chunks) = 1 THEN <<>> ELSE chunks
          /\ req' = [req EXCEPT ![r].phase = "charge", ![r].root = {RootNode}]
     ELSE Throw(r) /\ UNCHANGED blocks
  /\ UNCHANGED <<upload, files, holder, tasks, returned, charges, faults, hist>>

\* handleFileUploadFinalization: one root is needed for the artifacts; then
\* the credits are enough and are charged, or they are not.
Charge(r) ==
  /\ req[r].phase = "charge"
  /\ \/ /\ Live /\ Cardinality(roots) = 1
        /\ charges' = charges + 1
        /\ Step(r, "finalize")
     \/ Throw(r) /\ UNCHANGED charges
  /\ UNCHANGED <<upload, files, blocks, holder, tasks, returned, faults, hist>>

\* finalizeCompletedUpload: the row is written by id whatever it now holds,
\* and one migrate task is published without waiting for the broker.
Finalize(r) ==
  /\ req[r].phase = "finalize"
  /\ IF Live THEN status' = "MIGRATING" /\ stale' = FALSE ELSE UNCHANGED upload
  /\ \/ tasks' = tasks + 1 /\ UNCHANGED faults
     \/ Fault /\ UNCHANGED tasks
  /\ returned' = returned \cup req[r].root
  /\ Answer(r)
  /\ UNCHANGED <<files, blocks, holder, charges, hist>>

\* releaseUploadCompletionClaim; its own failure is only logged.
Release(r) ==
  /\ req[r].phase = "release"
  /\ \/ /\ IF status = "COMPLETING" THEN status' = "PENDING" /\ stale' = FALSE
                                    ELSE UNCHANGED upload
        /\ UNCHANGED <<faults, stranded>>
     \/ Fault /\ stranded' = stranded + 1 /\ UNCHANGED upload
  /\ Answer(r)
  /\ UNCHANGED <<files, blocks, holder, tasks, returned, charges, takeovers, recharges, torn, undercut>>

(***************************************************************************)
(* abortUpload                                                             *)
(***************************************************************************)
AbortRead(r, p) ==
  /\ MayStart(r, "abort")
  /\ status \in {"PENDING", "COMPLETING"}
  /\ req' = [req EXCEPT ![r] =
       [phase |-> IF status = "PENDING" THEN "blocks" ELSE "age", kind |-> "abort", proc |-> p]]
  /\ UNCHANGED <<upload, files, blocks, holder, tasks, returned, charges, faults, hist>>

\* getUploadAgeMs, a second query: the claim may have been renewed since.
AbortAge(r) ==
  /\ req[r].phase = "age"
  /\ IF Live /\ stale THEN Step(r, "blocks") ELSE Answer(r)
  /\ UNCHANGED <<upload, files, blocks, holder, tasks, returned, charges, faults, hist>>

\* removeUploadArtifacts: blockstore entries first, then the row, whose
\* deletion cascades; the two statements after it find nothing left.
DeleteBlocks(r) ==
  /\ req[r].phase = "blocks"
  /\ chunks' = <<>> /\ roots' = {}
  /\ undercut' = (undercut \/ (roots # {} /\ \E s \in Requests : Completing(s)))
  /\ Step(r, "rows")
  /\ UNCHANGED <<upload, files, holder, tasks, returned, charges, faults,
                 takeovers, recharges, stranded, torn>>

\* Mutant: an unknown status.
RemoveRowSoft ==
  /\ status' = "DELETED" /\ stale' = FALSE
  /\ parts' = <<>> /\ processed' = 0 /\ pending' = <<>>
  /\ chunks' = <<>> /\ roots' = {}

RemoveRow ==
  /\ status' = "GONE" /\ stale' = FALSE
  /\ parts' = <<>> /\ processed' = 0 /\ pending' = <<>>
  /\ chunks' = <<>> /\ roots' = {}

DeleteRows(r) ==
  /\ req[r].phase = "rows"
  /\ RemoveRow
  /\ Answer(r)
  /\ UNCHANGED <<holder, tasks, returned, charges, faults, hist>>

(***************************************************************************)
(* Time, migration, failures                                               *)
(***************************************************************************)
GoesStale ==
  /\ status \in {"COMPLETING", "MIGRATING"} /\ ~stale
  /\ status = "COMPLETING" => Slow \/ ~\E r \in Requests : Completing(r)
  /\ stale' = TRUE
  /\ UNCHANGED <<status, files, blocks, holder, req, tasks, returned, charges, faults, hist>>

\* processMigration, as a whole (module Migration has its steps): the nodes
\* are copied and the upload removed, or the upload is parked as FAILED.
Migrate ==
  /\ tasks > 0
  /\ tasks' = tasks - 1
  /\ IF Cardinality(roots) = 1 THEN RemoveRow
     ELSE /\ status' = IF Live THEN "FAILED" ELSE status
          /\ UNCHANGED <<stale, files, blocks>>
  /\ UNCHANGED <<holder, req, returned, charges, faults, hist>>

\* Between a write to the blockstore and the row that goes with it: the
\* processing info, or the upload itself.
HalfDone(r) == req[r].phase \in {"cursor", "clear", "rows"}

\* An awaited query of a request fails.
Fail(r) ==
  /\ req[r].phase \notin {"idle", "done", "lock", "release"}
  /\ Fault
  /\ Throw(r)
  /\ holder' = Unlocked(r)
  /\ recharges' = recharges + (IF req[r].phase = "finalize" THEN 1 ELSE 0)
  /\ torn' = torn + (IF HalfDone(r) THEN 1 ELSE 0)
  /\ stranded' = stranded + (IF req[r].phase = "claimed" THEN 1 ELSE 0)
  /\ UNCHANGED <<upload, files, blocks, tasks, returned, charges, takeovers, undercut>>

Of(p) == {r \in Requests : req[r].phase \notin {"idle", "done"} /\ req[r].proc = p}

\* An API process stops: its requests and its locks are gone.
Crash(p) ==
  /\ Of(p) # {}
  /\ Fault
  /\ req' = [r \in Requests |-> IF r \in Of(p) THEN Done ELSE req[r]]
  /\ holder' = [holder EXCEPT ![p] = Free]
  /\ recharges' = recharges + Cardinality({r \in Of(p) : req[r].phase = "finalize"})
  /\ stranded' = stranded + Cardinality({r \in Of(p) : Completing(r)})
  /\ torn' = torn + Cardinality({r \in Of(p) : HalfDone(r)})
  /\ UNCHANGED <<upload, files, blocks, tasks, returned, charges, takeovers, undercut>>

(***************************************************************************)
(* Specification                                                           *)
(***************************************************************************)
Init ==
  /\ status = "PENDING" /\ stale = FALSE
  /\ parts = <<>> /\ processed = 0 /\ pending = <<>>
  /\ chunks = <<>> /\ roots = {}
  /\ holder = [p \in Procs |-> Free]
  /\ req = [r \in Requests |-> Idle]
  /\ tasks = 0 /\ returned = {} /\ charges = 0 /\ faults = 0
  /\ takeovers = 0 /\ recharges = 0 /\ stranded = 0 /\ torn = 0 /\ undercut = FALSE

Arrive(r, p) ==
  \/ \E i \in 0..(NParts - 1), d \in Data : ChunkRead(r, p, i, d)
  \/ CompleteRead(r, p)
  \/ AbortRead(r, p)

\* What a request does next, once it has started.
Proceed(r) ==
  \/ AcquireLock(r) \/ PutChunks(r) \/ SetCursor(r) \/ DrainDone(r)
  \/ GuardChunk(r) \/ StoreChunk(r)
  \/ Claim(r) \/ ReadClaimed(r) \/ Reread(r) \/ Resolve(r)
  \/ CheckRoot(r) \/ FlushTail(r) \/ ClearTail(r) \/ DeriveRoot(r)
  \/ Charge(r) \/ Finalize(r) \/ Release(r)
  \/ AbortAge(r) \/ DeleteBlocks(r) \/ DeleteRows(r)

Next ==
  \/ \E r \in Requests, p \in Procs : Arrive(r, p)
  \/ \E r \in Requests : Proceed(r) \/ Fail(r)
  \/ \E p \in Procs : Crash(p)
  \/ GoesStale \/ Migrate

Spec == Init /\ [][Next]_vars

(***************************************************************************)
(* Type correctness                                                        *)
(***************************************************************************)
Root == [size : Nat, content : Seq(Data)]

Phases == Claimed \cup {"claim", "claimAgain", "reread", "resolve", "guard", "store",
                        "age", "blocks", "rows"}

\* Every variable has its type.
TypeOK ==
  /\ status \in {"PENDING", "COMPLETING", "MIGRATING", "FAILED", "GONE"} /\ stale \in BOOLEAN
  /\ \E stored \in SUBSET (0..(NParts - 1)) : parts \in [stored -> Data]
  /\ processed \in 0..NParts /\ pending \in Seq(Data)
  /\ chunks \in Seq(Seq(Data)) /\ roots \subseteq Root
  /\ holder \in [Procs -> Requests \cup {Free}]
  /\ \A r \in Requests :
       req[r] \notin {Idle, Done} =>
         /\ req[r].phase \in Phases /\ req[r].proc \in Procs
         /\ req[r].kind \in {"chunk", "complete", "abort"}
  /\ tasks \in Nat /\ returned \subseteq Root
  /\ charges \in Nat /\ faults \in 0..MaxFaults
  /\ takeovers \in Nat /\ recharges \in Nat /\ stranded \in Nat /\ torn \in Nat
  /\ undercut \in BOOLEAN

(***************************************************************************)
(* Safety                                                                  *)
(***************************************************************************)
\* The account is charged for an upload once, plus at most once for each
\* completion that failed after its charge and for each claim taken over
\* because it looked stale - whatever calls overlap, are retried or aborted.
ChargesAccounted == charges <= 1 + recharges + takeovers

\* Every CID that completeUpload ever answers with for an upload is the same,
\* even if completions overtake each other, unless an abort that read the row
\* before it was claimed, or when the claim looked stale, deletes the root of a
\* completion that is at work.
ReturnedAgree == Cardinality(returned) <= 1 \/ undercut

\* One root node is derived for an upload, plus at most one for each claim taken
\* over because it looked stale: a completion looks for a root before it derives
\* one, in two steps, so those at work together may each find none.
RootsAccounted == Cardinality(roots) <= 1 + takeovers

\* What the owner pays and is told, and what the upload becomes, does not depend
\* on how calls overlap.
OnceChargedAndNamed == ChargesAccounted /\ ReturnedAgree /\ RootsAccounted

\* A row is COMPLETING only while some completion runs, unless a holder of
\* the claim died, could not read the row again or could not write its
\* release: every other error path of completeUpload hands the claim back.
NoStrandedClaim ==
  status = "COMPLETING" => stranded > 0 \/ \E r \in Requests : Completing(r)

\* A drain lock is held only by a request of its process that is storing or
\* draining: no early return, refusal, failed query or crash leaves it behind
\* for the other requests of the upload to wait on for ever.
LockHolderDrains ==
  \A p \in Procs :
    holder[p] # Free =>
      /\ req[holder[p]].phase \in {"guard", "store", "drain", "cursor"}
      /\ req[holder[p]].proc = p

\* Whatever fails, and wherever, a request leaves neither of the two behind.
NothingLeftHeld == NoStrandedClaim /\ LockHolderDrains

\* As long as no completion outlasts the staleness window, one root node is
\* derived for an upload, however often its completion fails and is retried.
OneRoot == Cardinality(roots) <= 1

\* When the client does not overlap its calls, a root node holds exactly the
\* stored parts it claims to cover, in order and without repetition, unless a
\* request died between a blockstore write and the write that goes with it.
RootCoversParts ==
  torn = 0 /\ Live =>
    \A n \in roots : /\ Len(n.content) = n.size
                     /\ \A k \in 1..n.size : k - 1 \in DOMAIN parts
                                              /\ n.content[k] = parts[k - 1]

\* The root of an upload is determined by its parts.
RootIsUpload == OneRoot /\ RootCoversParts

\* A completion of a client that does not overlap its calls (Ordered) never
\* flips an upload whose stored parts its root does not cover, although parts
\* may be added after a completion that failed and left its root.  A part that
\* is stored while the root is derived is not covered: that takes a client
\* that overlaps them.
CompletionCoversParts ==
  [][\A r \in Requests :
       (Completing(r) /\ req[r].phase = "finalize" /\ Live /\ status' = "MIGRATING"
        /\ req'[r] = Done)
       => \A n \in req[r].root : n.size = storedSize]_vars
=============================================================================
