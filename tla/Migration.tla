----------------------------- MODULE Migration -----------------------------
(***************************************************************************)
(* The migration of completed uploads: one migrate-upload-nodes task moves *)
(* the blockstore of a root upload (a file, or a folder with its files) to *)
(* the nodes table, deletes the upload and hands its root to the tagging   *)
(* and publishing tasks.  Tasks can be lost, repeated and redelivered, the *)
(* worker crashes and queries fail between any two statements; a periodic  *)
(* sweep drives stuck uploads again.                                       *)
(*                                                                         *)
(* core/uploads/uploads.ts (processMigration), core/objects/nodes.ts       *)
(* (migrateFromBlockstoreToNodesTable), core/uploads/migrationRecovery.ts. *)
(* Retries are counted in the message; here a failed task is either tried  *)
(* again or not, which covers every count and the loss of the retry.       *)
(***************************************************************************)
EXTENDS Integers, FiniteSets, Sequences, Functions

CONSTANTS
  Uploads,     \* root uploads, all completed
  Objects,     \* root CIDs
  Cids,        \* CIDs of nodes
  ObjectOf,    \* the root CID each upload was completed with
  Content,     \* object -> its blockstores, one sequence of CIDs per upload row
  Recorded,    \* objects with a metadata row; completion saves it first
  Handlers,    \* deliveries the worker handles at once (prefetch)
  BatchSize,   \* blockstore rows read at once
  MaxQueued,   \* bound: tasks of one upload, waiting or being handled
  MaxFaults    \* bound: crashes, redeliveries, failed queries, lost messages

ASSUME MigrationConstants ==
  /\ ObjectOf \in [Uploads -> Objects] /\ Recorded \subseteq Objects
  /\ Content \in [Objects -> Seq(Seq(Cids) \ {<<>>}) \ {<<>>}]
  /\ IsFiniteSet(Uploads) /\ IsFiniteSet(Handlers)
  /\ BatchSize \in Nat \ {0} /\ MaxQueued \in Nat \ {0} /\ MaxFaults \in Nat

VARIABLES
  status,      \* uploads.uploads: MIGRATING, FAILED, or GONE when deleted
  stale,       \* root uploads whose updated_at is older than the staleness window
  blocks,      \* root uploads whose own blockstore rows are still there
  fresh,       \* nodes rows that are not published yet: key -> how many
  published,   \* nodes rows with block_published_on: key -> how many
  tasks,       \* migrate-upload-nodes messages waiting
  run,         \* what each delivery slot of the worker is doing
  sweep,       \* uploads the recovery pass under way has selected
  tags,        \* tag-upload messages waiting
  onchain,     \* CIDs in publish-nodes messages waiting
  faults

uploads == <<status, stale, blocks>>
nodes   == <<fresh, published>>
outbox  == <<tags, onchain>>
vars    == <<uploads, nodes, tasks, run, sweep, outbox, faults>>

\* A nodes row is known by root_cid, head_cid (here the upload row) and cid.
RowsOf(o) ==
  UNION {{[root |-> o, head |-> m, cid |-> c] : c \in Range(Content[o][m])} : m \in DOMAIN Content[o]}
Rows == UNION {RowsOf(o) : o \in Objects}

Idle == [phase |-> "idle"]
Busy(h) == run[h] # Idle

\* Mutant: concurrent runs of one upload are not guarded against.
InFlightNever(u) == FALSE

\* migrationsInFlight.
InFlight(u) == \E h \in Handlers : Busy(h) /\ run[h].upload = u

Holding(u) == {h \in Handlers : Busy(h) /\ run[h].upload = u /\ run[h].unacked}
Load(u) == tasks[u] + Cardinality(Holding(u))

Fault == faults < MaxFaults /\ faults' = faults + 1

Step(h, phase) == run' = [run EXCEPT ![h].phase = phase]
End(h)         == run' = [run EXCEPT ![h] = Idle]
Object(h)      == ObjectOf[run[h].upload]

Init ==
  /\ status = [u \in Uploads |-> "MIGRATING"] /\ stale = {} /\ blocks = Uploads
  /\ fresh = [k \in Rows |-> 0] /\ published = [k \in Rows |-> 0]
  /\ tasks \in [Uploads -> {0, 1}]       \* the publish after completion may be lost
  /\ run = [h \in Handlers |-> Idle] /\ sweep = {}
  /\ tags = {} /\ onchain = {} /\ faults = 0

(***************************************************************************)
(* processMigration                                                        *)
(***************************************************************************)
Deliver(h, u) ==
  /\ tasks[u] > 0 /\ ~Busy(h) /\ ~InFlight(u)
  /\ tasks' = [tasks EXCEPT ![u] = @ - 1]
  /\ run' = [run EXCEPT ![h] = [phase |-> "read", upload |-> u, member |-> 1, at |-> 0,
                                unacked |-> TRUE]]
  /\ UNCHANGED <<uploads, nodes, sweep, outbox, faults>>

\* A second delivery for an upload being migrated is dropped.
Skip(h, u) ==
  /\ tasks[u] > 0 /\ ~Busy(h) /\ InFlight(u)
  /\ tasks' = [tasks EXCEPT ![u] = @ - 1]
  /\ UNCHANGED <<uploads, nodes, run, sweep, outbox, faults>>

\* Mutant: the root node is looked for by its CID, among all blockstores.
HasRootAnywhere(u) == \E v \in blocks : ObjectOf[v] = ObjectOf[u]

\* getUploadCID finds the upload row and one root node among its blocks.
HasRoot(u) == status[u] # "GONE" /\ u \in blocks

\* The root and the object's metadata are looked up; an upload that lacks one
\* of them cannot be recovered.
Resolve(h) ==
  /\ run[h].phase = "read"
  /\ LET u == run[h].upload
     IN Step(h, IF HasRoot(u) /\ ObjectOf[u] \in Recorded
                THEN "clear" ELSE "park")
  /\ UNCHANGED <<uploads, nodes, tasks, sweep, outbox, faults>>

removeNodeByRootCid(h) ==
  /\ run[h].phase = "clear"
  /\ fresh' = [k \in Rows |-> IF k.root = Object(h) THEN 0 ELSE fresh[k]]
  /\ published' = [k \in Rows |-> IF k.root = Object(h) THEN 0 ELSE published[k]]
  /\ Step(h, "save")
  /\ UNCHANGED <<uploads, tasks, sweep, outbox, faults>>

\* Mutant: a batch is compared with itself only.
UnseenInBatch(o, m, first, last) == {Content[o][m][n] : n \in first..last}

\* Mutant: one filter serves all the uploads of a folder.
UnseenInObject(o, m, first, last) ==
  {Content[o][m][n] : n \in first..last}
    \ UNION {{Content[o][i][n] : n \in {x \in DOMAIN Content[o][i] : i < m \/ x < first}} : i \in 1..m}

\* createNodeDeduplicator: the CIDs of a batch that no earlier batch of the
\* same upload row held.
Unseen(o, m, first, last) ==
  {Content[o][m][n] : n \in first..last} \ {Content[o][m][n] : n \in 1..(first - 1)}

\* There is no unique index on cid: an insert always adds rows.
Insert(o, m, new) ==
  /\ fresh' = [k \in Rows |-> IF k.root = o /\ k.head = m /\ k.cid \in new
                              THEN fresh[k] + 1 ELSE fresh[k]]
  /\ UNCHANGED published

\* One batch of one blockstore; a batch with nothing new writes nothing.
saveNodes(h) ==
  /\ run[h].phase = "save"
  /\ LET o == Object(h)
         m == run[h].member
         rest == Len(Content[o][m]) - run[h].at
         last == run[h].at + (IF rest < BatchSize THEN rest ELSE BatchSize)
     IN /\ Insert(o, m, Unseen(o, m, run[h].at + 1, last))
        /\ \/ rest > BatchSize /\ run' = [run EXCEPT ![h].at = last]
           \/ rest <= BatchSize /\ m < Len(Content[o])
              /\ run' = [run EXCEPT ![h].member = m + 1, ![h].at = 0]
           \/ rest <= BatchSize /\ m = Len(Content[o]) /\ Step(h, "blocks")
  /\ UNCHANGED <<uploads, tasks, sweep, outbox, faults>>

\* removeUploadArtifacts: the root's blockstore rows first, then every upload
\* row of the root; that deletion cascades to all that refers to them, so the
\* two statements after it find nothing left.
deleteBlockstoreEntries(h) ==
  /\ run[h].phase = "blocks"
  /\ blocks' = blocks \ {run[h].upload}
  /\ Step(h, "rows")
  /\ UNCHANGED <<status, stale, nodes, tasks, sweep, outbox, faults>>

deleteEntriesByRootUploadId(h) ==
  /\ run[h].phase = "rows"
  /\ status' = [status EXCEPT ![run[h].upload] = "GONE"]
  /\ stale' = stale \ {run[h].upload}
  /\ Step(h, "tag")
  /\ UNCHANGED <<blocks, nodes, tasks, sweep, outbox, faults>>

\* The publish is not awaited: it can be lost although the task is acked.
scheduleUploadTagging(h) ==
  /\ run[h].phase = "tag"
  /\ \/ tags' = tags \cup {Object(h)} /\ UNCHANGED faults
     \/ Fault /\ UNCHANGED tags
  /\ End(h)
  /\ UNCHANGED <<uploads, nodes, tasks, sweep, onchain>>

\* An unrecoverable upload is parked, best effort, and its task acked.
Park(h) ==
  /\ run[h].phase = "park"
  /\ LET u == run[h].upload
     IN \/ /\ status' = [status EXCEPT ![u] = IF @ = "GONE" THEN @ ELSE "FAILED"]
           /\ stale' = stale \ {u}
           /\ UNCHANGED faults
        \/ Fault /\ UNCHANGED <<status, stale>>
  /\ End(h)
  /\ UNCHANGED <<blocks, nodes, tasks, sweep, outbox>>

\* A failed query: the handler publishes the task again, or gives it up to
\* the error queue, which nothing migrates from; the message is acked.
QueryFails(h) ==
  /\ Busy(h) /\ run[h].phase # "park" /\ Fault
  /\ \/ Load(run[h].upload) <= MaxQueued /\ tasks' = [tasks EXCEPT ![run[h].upload] = @ + 1]
     \/ UNCHANGED tasks
  /\ End(h)
  /\ UNCHANGED <<uploads, nodes, sweep, outbox>>

Migrating(h) ==
  \/ Resolve(h) \/ removeNodeByRootCid(h) \/ saveNodes(h) \/ deleteBlockstoreEntries(h)
  \/ deleteEntriesByRootUploadId(h) \/ scheduleUploadTagging(h) \/ Park(h)

(***************************************************************************)
(* The broker and the worker process                                       *)
(***************************************************************************)
\* The connection is lost: what is not acked is delivered again, while the
\* handlers that hold it go on.
Redeliver ==
  /\ Fault /\ \E u \in Uploads : Holding(u) # {}
  /\ tasks' = [u \in Uploads |-> Load(u)]
  /\ run' = [h \in Handlers |-> IF Busy(h) THEN [run[h] EXCEPT !.unacked = FALSE] ELSE Idle]
  /\ UNCHANGED <<uploads, nodes, sweep, outbox>>

\* The worker stops and starts again, with migrationsInFlight empty.
Crash ==
  /\ Fault /\ \E h \in Handlers : Busy(h)
  /\ tasks' = [u \in Uploads |-> Load(u)]
  /\ run' = [h \in Handlers |-> Idle] /\ sweep' = {}
  /\ UNCHANGED <<uploads, nodes, outbox>>

(***************************************************************************)
(* Driving stuck uploads again                                             *)
(***************************************************************************)
\* Time passes: an upload has been migrating for longer than the window.
Age(u) ==
  /\ status[u] = "MIGRATING" /\ u \notin stale
  /\ stale' = stale \cup {u}
  /\ UNCHANGED <<status, blocks, nodes, tasks, run, sweep, outbox, faults>>

\* getStuckRootMigrations.
Stuck(u) == status[u] = "MIGRATING" /\ u \in stale

\* recover-migrations: one pass at a time; a task for every stuck upload.
recoverMigrations ==
  /\ sweep = {}
  /\ sweep' = {u \in Uploads : Stuck(u) /\ Load(u) < MaxQueued}
  /\ sweep' # {}
  /\ \/ /\ tasks' = [u \in Uploads |-> tasks[u] + (IF u \in sweep' THEN 1 ELSE 0)]
        /\ UNCHANGED faults
     \/ Fault /\ UNCHANGED tasks
  /\ UNCHANGED <<uploads, nodes, run, outbox>>

\* Then updated_at is stamped, unless that query fails.
markMigrationRecoveryAttempt ==
  /\ sweep # {} /\ sweep' = {}
  /\ \/ stale' = stale \ sweep /\ UNCHANGED faults
     \/ Fault /\ UNCHANGED stale
  /\ UNCHANGED <<status, blocks, nodes, tasks, run, outbox>>

\* resolveAlreadyCompletedUpload: a client completes the upload once more.
CompleteAgain(u) ==
  /\ Stuck(u) /\ HasRoot(u) /\ Load(u) < MaxQueued
  /\ tasks' = [tasks EXCEPT ![u] = @ + 1]
  /\ UNCHANGED <<uploads, nodes, run, sweep, outbox, faults>>

(***************************************************************************)
(* Tagging and publishing                                                  *)
(***************************************************************************)
\* Mutant: only the rows under the root's own head are scheduled.
CidsOfHead(o) == {k.cid : k \in {r \in RowsOf(o) : r.head = 1 /\ fresh[r] + published[r] > 0}}

getCidsByRootCid(o) == {k.cid : k \in {r \in RowsOf(o) : fresh[r] + published[r] > 0}}

\* tagUpload and scheduleNodesPublish, or a failure that ends in the error queue.
tagUpload(o) ==
  /\ o \in tags /\ tags' = tags \ {o}
  /\ \/ onchain' = onchain \cup getCidsByRootCid(o) /\ UNCHANGED faults
     \/ Fault /\ UNCHANGED onchain
  /\ UNCHANGED <<uploads, nodes, tasks, run, sweep>>

\* publish-nodes: every row with the CID is marked as published.
updateNodePublishedOn(c) ==
  /\ c \in onchain /\ onchain' = onchain \ {c}
  /\ published' = [k \in Rows |-> IF k.cid = c THEN fresh[k] + published[k] ELSE published[k]]
  /\ fresh' = [k \in Rows |-> IF k.cid = c THEN 0 ELSE fresh[k]]
  /\ UNCHANGED <<uploads, tasks, run, sweep, tags, faults>>

Next ==
  \/ \E h \in Handlers :
       \/ \E u \in Uploads : Deliver(h, u) \/ Skip(h, u)
       \/ Migrating(h) \/ QueryFails(h)
  \/ \E u \in Uploads : Age(u) \/ CompleteAgain(u)
  \/ recoverMigrations \/ markMigrationRecoveryAttempt
  \/ Redeliver \/ Crash
  \/ \E o \in Objects : tagUpload(o) \/ \E k \in RowsOf(o) : updateNodePublishedOn(k.cid)

Spec == Init /\ [][Next]_vars

\* The job that enqueues the sweep waits while the task queue is not empty.
QueueIsEmpty == \A u \in Uploads : tasks[u] = 0

\* Handlers go on and the broker delivers in turn; the interval timer of the
\* recovery job runs and time passes.  Nothing is assumed of clients.
Fairness ==
  /\ \A h \in Handlers : WF_vars(Migrating(h))
  /\ \A u \in Uploads :
       /\ SF_vars(\E h \in Handlers : Deliver(h, u) \/ Skip(h, u))
       /\ WF_vars(Age(u))
  /\ WF_vars(QueueIsEmpty /\ recoverMigrations) /\ WF_vars(markMigrationRecoveryAttempt)
  /\ \A o \in Objects : WF_vars(tagUpload(o)) /\ \A k \in RowsOf(o) : WF_vars(updateNodePublishedOn(k.cid))

FairSpec == Spec /\ Fairness

(***************************************************************************)
(* Type correctness                                                        *)
(***************************************************************************)
RunTypes ==
  {Idle} \cup [phase : {"read", "clear", "save", "blocks", "rows", "tag", "park"},
               upload : Uploads, member : Nat \ {0}, at : Nat, unacked : BOOLEAN]

\* Every variable has its type, and no slot works on an upload another has.
TypeOK ==
  /\ status \in [Uploads -> {"MIGRATING", "FAILED", "GONE"}]
  /\ stale \subseteq Uploads /\ blocks \subseteq Uploads
  /\ fresh \in [Rows -> Nat] /\ published \in [Rows -> Nat]
  /\ tasks \in [Uploads -> Nat]
  /\ run \in [Handlers -> RunTypes]
  /\ \A g, h \in Handlers : (g # h /\ Busy(g) /\ Busy(h)) => run[g].upload # run[h].upload
  /\ sweep \subseteq Uploads /\ tags \subseteq Objects
  /\ onchain \subseteq {k.cid : k \in Rows} /\ faults \in 0..MaxFaults

(***************************************************************************)
(* Safety                                                                  *)
(***************************************************************************)
Complete(o) == \A k \in RowsOf(o) : fresh[k] + published[k] > 0

\* The blocks of an upload are deleted only when every one of its nodes is in
\* the nodes table, and they stay there: after a crash at any point, a second
\* run, a park or a sweep, the object can still be published - from its rows,
\* or from another upload of the same object that still has its blocks.
NoNodeLost ==
  \A u \in Uploads \ blocks :
    \/ Complete(ObjectOf[u])
    \/ \E v \in blocks : ObjectOf[v] = ObjectOf[u] /\ status[v] = "MIGRATING"

\* The uploads of one content.
CopiesOf(o) == {u \in Uploads : ObjectOf[u] = o}

\* However often and from wherever a migration is driven again, the table
\* holds a node once per root and head for every upload of that root at most:
\* once, if the content was uploaded once.  No unique index says so; "deleting
\* by root_cid first makes each run produce a clean set" (core/objects/
\* nodes.ts:223-224) of one upload, but the guard there is per upload: the runs
\* of two uploads of one content may both clear, and then both insert.
NoDuplicateNode == \A k \in Rows : fresh[k] + published[k] <= Cardinality(CopiesOf(k.root))

\* A run of another upload of the content of u, which has its row and its
\* blocks, clears the object to write it anew.
TakenOver(u) ==
  \E h \in Handlers :
    /\ run[h].phase = "clear" /\ run'[h].phase = "save"
    /\ Object(h) = ObjectOf[u] /\ run[h].upload # u
    /\ run[h].upload \in blocks' /\ status'[run[h].upload] = "MIGRATING"

\* "only not-yet-published nodes are affected (a published object's upload row
\* is already gone, so it is never re-driven)" (core/objects/nodes.ts:226-228)
\* is so for content uploaded once.  removeNodeByRootCid goes by the root CID:
\* published rows of an upload that is gone are taken away only when another
\* upload of the same content is migrated, and that upload still has what it
\* takes to write them again.
PublishedNodesKept ==
  [][\A u \in Uploads : status[u] = "GONE" =>
       (\A k \in RowsOf(ObjectOf[u]) : published'[k] >= published[k]) \/ TakenOver(u)]_vars

(***************************************************************************)
(* Liveness, under FairSpec                                                *)
(***************************************************************************)
\* Every upload leaves MIGRATING, although its only task may be lost: it is
\* migrated and deleted, or parked as FAILED.
MigrationEnds == \A u \in Uploads : status[u] = "MIGRATING" ~> status[u] # "MIGRATING"

\* An object handed to tagging is published with all its nodes, those under
\* the heads of a folder's files too, if no further fault follows.
TaggedIsPublished ==
  \A o \in Objects :
    (o \in tags /\ faults = MaxFaults) ~> \A k \in RowsOf(o) : published[k] > 0

\* As long as nothing fails, every object gets to the chain: the loss of its
\* first task is no failure, the sweep makes up for it.
FaultlessIsPublished ==
  \A u \in Uploads : <>(faults > 0 \/ \A k \in RowsOf(ObjectOf[u]) : published[k] > 0)

\* No upload stays MIGRATING for ever, and what is handed to tagging reaches
\* the chain, as does everything while nothing fails.  After a failure an
\* upload may end without being tagged: half deleted and parked as FAILED, or
\* deleted with its tagging message lost.
UploadsArrive == MigrationEnds /\ TaggedIsPublished /\ FaultlessIsPublished
=============================================================================
