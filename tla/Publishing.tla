----------------------------- MODULE Publishing -----------------------------
(***************************************************************************)
(* From the nodes table to the archive.  publish-nodes tasks put the nodes *)
(* of an object on chain and record where; the network archives what is on *)
(* chain; object mappings, pushed by the network or asked for by the       *)
(* reconciliation pass, record the piece of each node; an object whose     *)
(* nodes all have a piece is marked as archived and its published rows     *)
(* lose their data.  A recovery pass enqueues what a stuck object lacks.   *)
(*                                                                         *)
(* One CID can be in several rows, of several objects: almost every query  *)
(* here goes by CID, by root or by head, and they do not agree.            *)
(*                                                                         *)
(* onchainPublisher/index.ts, core/objects/nodes.ts, reconciliation.ts,    *)
(* publishingRecovery.ts, object.ts and repositories/objects/nodes.ts.     *)
(***************************************************************************)
EXTENDS Integers, FiniteSets

CONSTANTS
  Cids,        \* CIDs of nodes; a root or a head is the CID of a node
  Rows,        \* the rows of nodes that migrations insert
  Workers,     \* publish-nodes deliveries handled at once (prefetch)
  BatchSize,   \* PUBLISH_BATCH_SIZE
  MaxFaults    \* bound: failures, crashes, redeliveries, lost messages

ASSUME PublishingConstants ==
  /\ Rows \subseteq [root : Cids, head : Cids, cid : Cids] /\ IsFiniteSet(Rows)
  /\ IsFiniteSet(Workers) /\ BatchSize \in Nat \ {0} /\ MaxFaults \in Nat

Roots == {r.root : r \in Rows}
Heads == {r.head : r \in Rows}

VARIABLES
  arrived,    \* roots whose rows a migration has inserted
  pub,        \* rows with block_published_on and tx_published_on
  piece,      \* rows with piece_index and piece_offset
  data,       \* rows with encoded_node
  archived,   \* heads whose metadata rows say is_archived
  chain,      \* CIDs with a remark in a block
  dsn,        \* CIDs that the network has archived
  queue,      \* publish-nodes messages waiting: sets of CIDs
  work,       \* what each publish worker is doing
  listening,  \* archive-objects: pieces written, the check still to come
  affected,   \* reconcile-archival: heads it has to check
  archiving,  \* object-archived messages waiting
  stripping,  \* object-archived: marked, data not removed yet
  faults

nodes   == <<arrived, pub, piece, data>>
network == <<chain, dsn>>
publish == <<queue, work>>
archive == <<listening, affected, archiving, stripping>>
vars    == <<nodes, archived, network, publish, archive, faults>>

Present == {r \in Rows : r.root \in arrived}
CidsOf(S) == {r.cid : r \in S}

\* Mutant: rows that a migration has yet to insert are written too.
RowsToCome(c) == {r \in Rows : r.cid = c}

RowsOf(c) == {r \in Present : r.cid = c}

Idle == [phase |-> "idle"]
Busy(w) == work[w] # Idle

Fault == faults < MaxFaults /\ faults' = faults + 1

Init ==
  /\ arrived = {} /\ pub = {} /\ piece = {} /\ data = {} /\ archived = {}
  /\ chain = {} /\ dsn = {}
  /\ queue = {} /\ work = [w \in Workers |-> Idle]
  /\ listening = FALSE /\ affected = {} /\ archiving = {} /\ stripping = {}
  /\ faults = 0

\* The CIDs of one publish-nodes message.
Batch == {B \in SUBSET Cids : B # {} /\ Cardinality(B) <= BatchSize}

\* The ways to cut a list of CIDs, in whatever order the query returns them,
\* into batches: all full but one.
Batches(C) ==
  {P \in SUBSET {B \in Batch : B \subseteq C} :
     /\ UNION P = C /\ \A A, B \in P : A # B => A \cap B = {}
     /\ Cardinality({B \in P : Cardinality(B) < BatchSize}) <= 1}

\* A migration has inserted the rows of a root, and tagUpload enqueues them
\* (Migration), unless a message is lost on the way.
Arrive(o) ==
  /\ o \in Roots \ arrived
  /\ arrived' = arrived \cup {o}
  /\ data' = data \cup {r \in Rows : r.root = o}
  /\ \/ \E P \in Batches(CidsOf({r \in Rows : r.root = o})) : queue' = queue \cup P
        /\ UNCHANGED faults
     \/ Fault /\ UNCHANGED queue
  /\ UNCHANGED <<pub, piece, archived, network, work, archive>>

(***************************************************************************)
(* publishNodes                                                            *)
(***************************************************************************)
\* What a worker has still to do; it is done when there is nothing to send.
Go(w, phase, task, repeated, copied, send) ==
  work' = [work EXCEPT ![w] =
    IF phase # "repeat" /\ send = {} THEN Idle
    ELSE [phase |-> phase, task |-> task, repeated |-> repeated, copied |-> copied, send |-> send]]

\* getNodesByCids and getNodesBlockchainDataBatch.  A CID that some row has
\* as published is repeated, in every row; of the published rows of a CID one
\* is read, of the latest block.  The rest is sent if it still has its data.
Deliver(w, B) ==
  /\ B \in queue /\ ~Busy(w)
  /\ queue' = queue \ {B}
  /\ LET repeated == B \cap CidsOf(pub)
     IN \E copied \in SUBSET repeated :
          /\ \A c \in repeated : \E r \in pub \cap RowsOf(c) : (r \in piece) = (c \in copied)
          /\ Go(w, IF repeated = {} THEN "submit" ELSE "repeat", B,
                {r \in Present : r.cid \in repeated}, copied, (B \cap CidsOf(data)) \ repeated)
  /\ UNCHANGED <<nodes, archived, network, archive, faults>>

\* handleRepeatedNodes, updateNodesBlockchainDataBatch: all four columns are
\* written as they were read.
handleRepeatedNodes(w) ==
  /\ work[w].phase = "repeat"
  /\ LET rows == {r \in Present : \E q \in work[w].repeated : q.root = r.root /\ q.cid = r.cid}
     IN /\ pub' = pub \cup rows
        /\ piece' = (piece \ rows) \cup {r \in rows : r.cid \in work[w].copied}
  /\ Go(w, "submit", work[w].task, {}, {}, work[w].send)
  /\ UNCHANGED <<arrived, data, archived, network, queue, archive, faults>>

\* A remark gets into a block.
Include(w, c) ==
  /\ work[w].phase = "submit" /\ c \in work[w].send \ chain
  /\ chain' = chain \cup {c}
  /\ UNCHANGED <<nodes, archived, dsn, publish, archive, faults>>

\* Mutant: the results that failed are recorded like the others.
AllSubmitted(w) == work[w].phase = "submit"

\* submit returns; if any transaction failed the task fails (Fail).
Submitted(w) == work[w].phase = "submit" /\ work[w].send \subseteq chain

submit(w) ==
  /\ Submitted(w)
  /\ work' = [work EXCEPT ![w].phase = "record"]
  /\ UNCHANGED <<nodes, archived, network, queue, archive, faults>>

\* setPublishedOn, updateNodePublishedOn: every row with the CID, and those of
\* archived heads lose their data.
setPublishedOn(w, c) ==
  /\ work[w].phase = "record" /\ c \in work[w].send
  /\ pub' = pub \cup RowsOf(c)
  /\ data' = data \ {r \in RowsOf(c) : r.head \in archived}
  /\ Go(w, "record", work[w].task, {}, {}, work[w].send \ {c})
  /\ UNCHANGED <<arrived, piece, archived, network, queue, archive, faults>>

\* A query or a transaction fails, or the handler times out: the task is
\* published again, or given up to the error queue.
Fail(w) ==
  /\ Busy(w) /\ Fault
  /\ work' = [work EXCEPT ![w] = Idle]
  /\ queue' \in {queue, queue \cup {work[w].task}}
  /\ UNCHANGED <<nodes, archived, network, archive>>

\* The connection to the broker is lost: tasks that are not acked come again,
\* and the handlers go on, or are gone with their process.
Redeliver ==
  /\ Fault /\ \E w \in Workers : Busy(w)
  /\ queue' = queue \cup {work[w].task : w \in {v \in Workers : Busy(v)}}
  /\ work' \in {work, [w \in Workers |-> Idle]}
  /\ UNCHANGED <<nodes, archived, network, archive>>

Publishing(w) == handleRepeatedNodes(w) \/ submit(w) \/ \E c \in Cids : setPublishedOn(w, c)

(***************************************************************************)
(* recover-publishing                                                      *)
(***************************************************************************)
\* getStuckPublishingRootCids.  Whether the last published block of the object
\* is old enough depends on what else is published.
Stuck(o) ==
  LET rows == {r \in Present : r.root = o} IN rows \cap pub # {} /\ (rows \ pub) \cap data # {}

recoverPublishing(o) ==
  /\ Stuck(o)
  /\ \/ \E P \in Batches(CidsOf({r \in Present \ pub : r.root = o /\ r \in data})) :
          queue' = queue \cup P /\ UNCHANGED faults
     \/ Fault /\ UNCHANGED queue
  /\ UNCHANGED <<nodes, archived, network, work, archive>>

(***************************************************************************)
(* Object mappings, from the listener and from the indexer                 *)
(***************************************************************************)
\* The network archives a block.
Archive(c) ==
  /\ c \in chain \ dsn
  /\ dsn' = dsn \cup {c}
  /\ UNCHANGED <<nodes, archived, chain, publish, archive, faults>>

SetPieces(C) == piece' = piece \cup {r \in Present : r.cid \in C}

\* archive-objects: a message holds the mappings of whatever was archived, of
\* these nodes or only of others.  It may come late, again, or never.
processNodeArchived(C) ==
  /\ C \subseteq dsn /\ ~listening /\ listening' = TRUE
  /\ SetPieces(C)
  /\ UNCHANGED <<arrived, pub, data, archived, network, publish, affected, archiving, stripping, faults>>

\* Mutant: an object is archived as soon as one of its nodes is.
SomeArchived(o) == \E r \in Present : r.root = o /\ r \in piece

hasAllNodesArchived(o) ==
  LET rows == {r \in Present : r.root = o} IN rows # {} /\ rows \subseteq piece

\* object-archived messages for heads; none of them waits for the broker.
Announce(H) ==
  \/ archiving' = archiving \cup H /\ UNCHANGED faults
  \/ H # {} /\ Fault /\ UNCHANGED archiving

\* Of all objects that are not archived, those whose nodes by root all are.
checkObjectsArchivalStatus ==
  /\ listening /\ listening' = FALSE
  /\ Announce({h \in Heads \ archived : hasAllNodesArchived(h)})
  /\ UNCHANGED <<nodes, archived, network, publish, affected, stripping>>

\* Mutant: rows that are published are taken for reconciled.
UnreconciledUnpublished == Present \ (pub \cup piece)

\* getUnreconciledNodes; a batch holds them all.
getUnreconciledNodes == pub \ piece

\* reconcile-archival, one pass at a time: what the indexer knows of the
\* unreconciled nodes is written, and for each CID one head is remembered.
reconcile ==
  /\ affected = {}
  /\ LET found == CidsOf(getUnreconciledNodes) \cap dsn
     IN /\ found # {} /\ SetPieces(found)
        /\ \E headOf \in [found -> Heads] :
             /\ \A c \in found : \E r \in getUnreconciledNodes : r.cid = c /\ r.head = headOf[c]
             /\ affected' = {headOf[c] : c \in found}
  /\ UNCHANGED <<arrived, pub, data, archived, network, publish, listening, archiving, stripping, faults>>

\* getFullyArchivedHeadCids, checkArchivalStatusForObjects: by head.
checkArchivalStatusForObjects ==
  /\ affected # {} /\ affected' = {}
  /\ Announce({h \in affected : {r \in Present : r.head = h} \subseteq piece})
  /\ UNCHANGED <<nodes, archived, network, publish, listening, stripping>>

(***************************************************************************)
(* onObjectArchived                                                        *)
(***************************************************************************)
markAsArchived(h) ==
  /\ h \in archiving /\ archiving' = archiving \ {h}
  /\ archived' = archived \cup {h}
  /\ stripping' = stripping \cup {h}
  /\ UNCHANGED <<nodes, network, publish, listening, affected, faults>>

\* Mutant: all rows of the root lose their data.
StripAll(h) == {r \in Present : r.root = h}

Strippable(h) == {r \in Present : r.root = h /\ r \in pub}

removeNodeDataByRootCid(h) ==
  /\ h \in stripping /\ stripping' = stripping \ {h}
  /\ data' = data \ Strippable(h)
  /\ UNCHANGED <<arrived, pub, piece, archived, network, publish, listening, affected, archiving, faults>>

\* The download worker fails before either statement: the task is handled
\* again or given up.  The worker of the other tasks fails, or is refused by
\* the indexer, before its check.
ArchivingFails ==
  /\ Fault
  /\ \/ \E h \in stripping : stripping' = stripping \ {h} /\ archiving' \in {archiving, archiving \cup {h}}
        /\ UNCHANGED <<listening, affected>>
     \/ \E h \in archiving : archiving' = archiving \ {h} /\ UNCHANGED <<stripping, listening, affected>>
     \/ (listening \/ affected # {}) /\ listening' = FALSE /\ affected' = {}
        /\ UNCHANGED <<archiving, stripping>>
  /\ UNCHANGED <<nodes, archived, network, publish>>

Next ==
  \/ \E o \in Roots : Arrive(o) \/ recoverPublishing(o)
  \/ \E w \in Workers :
       \/ \E B \in queue : Deliver(w, B)
       \/ \E c \in Cids : Include(w, c)
       \/ Publishing(w) \/ Fail(w)
  \/ Redeliver
  \/ \E c \in Cids : Archive(c) \/ processNodeArchived({c})
  \/ processNodeArchived({}) \/ checkObjectsArchivalStatus
  \/ reconcile \/ checkArchivalStatusForObjects
  \/ \E h \in Heads : markAsArchived(h) \/ removeNodeDataByRootCid(h)
  \/ ArchivingFails

Spec == Init /\ [][Next]_vars

\* The broker delivers in turn and handlers go on; blocks are made and
\* archived; the timers of both recovery jobs run.  Mappings of these nodes
\* may never be pushed, but those of other content keep coming.
Fairness ==
  /\ \A B \in Batch : SF_vars(\E w \in Workers : Deliver(w, B))
  /\ \A w \in Workers : WF_vars(Publishing(w) \/ \E c \in Cids : Include(w, c))
  /\ \A o \in Roots : WF_vars(recoverPublishing(o))
  /\ WF_vars(\E c \in Cids : Archive(c))
  /\ WF_vars(processNodeArchived({})) /\ WF_vars(checkObjectsArchivalStatus)
  /\ WF_vars(reconcile) /\ WF_vars(checkArchivalStatusForObjects)
  /\ WF_vars(\E h \in Heads : markAsArchived(h))

FairSpec == Spec /\ Fairness

(***************************************************************************)
(* Type correctness                                                        *)
(***************************************************************************)
WorkTypes ==
  {Idle} \cup [phase : {"repeat", "submit", "record"}, task : Batch,
               repeated : SUBSET Rows, copied : SUBSET Cids, send : SUBSET Cids]

\* Every variable has its type; what is known of a row is known of one that
\* is there.
TypeOK ==
  /\ arrived \subseteq Roots /\ pub \subseteq Present /\ piece \subseteq Present /\ data \subseteq Present
  /\ archived \subseteq Heads /\ chain \subseteq Cids /\ dsn \subseteq chain
  /\ queue \subseteq Batch /\ work \in [Workers -> WorkTypes]
  /\ listening \in BOOLEAN /\ affected \subseteq Heads
  /\ archiving \subseteq Heads /\ stripping \subseteq archived
  /\ faults \in 0..MaxFaults

(***************************************************************************)
(* Safety                                                                  *)
(***************************************************************************)
\* No node is left that was never published and has lost its data: "Unpublished
\* nodes retain their encoded_node so the publishing recovery job can still
\* re-enqueue them" (removeNodeDataByRootCid), whatever the order in which
\* publishing, archiving by another object and recovery reach the row.
NoneUnrecoverable == Present \subseteq pub \cup data

\* The table never runs ahead of the network: a row that says published has
\* its node in a block and a row with a piece has it archived, although both
\* are copied between rows and written from results read earlier.
RowsTellTruth == CidsOf(pub) \subseteq chain /\ CidsOf(piece) \subseteq dsn

\* A file or folder is marked as archived only when the network has all the
\* nodes that are its own, whichever of the two checks found it.
OwnNodesArchived == \A h \in archived : CidsOf({r \in Present : r.head = h}) \subseteq dsn

(***************************************************************************)
(* Liveness, under FairSpec                                                *)
(***************************************************************************)
Published(o) == {r \in Present : r.root = o} \subseteq pub
Begun(o)     == \E r \in pub : r.root = o

\* An object that has begun to be published is published with all its nodes,
\* although batches fail, are given up or are lost: again and again, no object
\* is half published.
PublishingEnds == []<>(\A o \in arrived : Begun(o) => Published(o))

\* An object that is published is marked as archived although no mapping of it
\* is ever pushed, a piece is overwritten by an older copy of its row, or the
\* task that marks it fails.
ArchivingEnds == []<>(\A o \in arrived : Published(o) => o \in archived)

\* An object gets all the way from its first published node to the archive.
ObjectsEnd == PublishingEnds /\ ArchivingEnds
=============================================================================
