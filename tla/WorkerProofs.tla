----------------------------- MODULE WorkerProofs -----------------------------
(***************************************************************************)
(* Theorems about a worker: how it reads its queues (RabbitConsumers), and *)
(* what the publishing tasks it reads do to the rows (Publishing).  The    *)
(* two share no variable, and the names of each are its own.               *)
(*                                                                         *)
(* Publishing, for all rows, workers, batch sizes and faults: type         *)
(* correctness and the two statements about rows share one inductive       *)
(* invariant, which adds what a worker carries from its reads to its       *)
(* writes.  That archived objects have their own nodes in the network      *)
(* needs one more, about the messages on their way to marking them.        *)
(*                                                                         *)
(* RabbitConsumers, for any number of channels, consumers, probes, retries *)
(* and losses: one inductive invariant, which says what holds before the   *)
(* callback is registered and after it is not any more.                    *)
(***************************************************************************)
EXTENDS Publishing, RabbitConsumers, TLAPS

(***************************************************************************)
(* Publishing                                                              *)
(***************************************************************************)
\* What a worker read is still true when it writes: published rows are never
\* unpublished, blocks and archives stay.
WorkHolds ==
  \A w \in Workers : Busy(w) =>
    /\ work[w].repeated \subseteq Present
    /\ CidsOf(work[w].repeated) \subseteq chain
    /\ work[w].copied \subseteq dsn
    /\ work[w].phase = "record" => work[w].send \subseteq chain

Inv == TypeOK /\ NoneUnrecoverable /\ RowsTellTruth /\ WorkHolds

-----------------------------------------------------------------------------
\* Go leaves a worker idle or with the values it was given.
LEMMA GoTypes ==
  ASSUME work \in [Workers -> WorkTypes], NEW w \in Workers,
         NEW phase \in {"repeat", "submit", "record"}, NEW msg \in Batch,
         NEW repeated \in SUBSET Rows, NEW copied \in SUBSET Cids, NEW send \in SUBSET Cids,
         Go(w, phase, msg, repeated, copied, send)
  PROVE  /\ work' \in [Workers -> WorkTypes]
         /\ \/ work'[w] = Idle
            \/ /\ work'[w].phase = phase /\ work'[w].repeated = repeated
               /\ work'[w].copied = copied /\ work'[w].send = send
         /\ \A v \in Workers : v # w => work'[v] = work[v]
  BY DEF Go, WorkTypes

\* A worker that is busy has a record.
LEMMA BusyRecord ==
  ASSUME work \in [Workers -> WorkTypes], NEW w \in Workers, Busy(w)
  PROVE  work[w] \in [phase : {"repeat", "submit", "record"}, task : Batch,
                      repeated : SUBSET Rows, copied : SUBSET Cids, send : SUBSET Cids]
  BY DEF WorkTypes, Busy

LEMMA PhaseBusy ==
  ASSUME NEW w \in Workers, work[w].phase \in {"repeat", "submit", "record"}
  PROVE  Busy(w)
  BY DEF Busy, Idle

\* Every way to cut CIDs yields messages.
LEMMA BatchesAreTasks == ASSUME NEW C, NEW P \in Batches(C) PROVE P \subseteq Batch
  BY DEF Batches

LEMMA RowFields ==
  /\ Rows \subseteq [root : Cids, head : Cids, cid : Cids]
  /\ \A r \in Rows : r.root \in Roots /\ r.head \in Heads /\ r.cid \in Cids
  /\ Roots \subseteq Cids /\ Heads \subseteq Cids
  BY PublishingConstants DEF Roots, Heads

-----------------------------------------------------------------------------
LEMMA InitInv == Init => Inv
  <1> SUFFICES ASSUME Init PROVE Inv
    OBVIOUS
  <1>1. TypeOK
    <2>1. work \in [Workers -> WorkTypes]
      BY DEF Init, WorkTypes
    <2>2. 0 \in 0..MaxFaults
      BY PublishingConstants
    <2> QED
      BY <2>1, <2>2 DEF Init, TypeOK
  <1>2. NoneUnrecoverable /\ RowsTellTruth
    BY DEF Init, NoneUnrecoverable, RowsTellTruth, CidsOf, Present
  <1>3. WorkHolds
    BY DEF Init, WorkHolds, Busy
  <1> QED
    BY <1>1, <1>2, <1>3 DEF Inv

\* Nothing that was published, put on chain or archived is taken back.
LEMMA Monotone ==
  ASSUME TypeOK, [Next]_vars
  PROVE  /\ arrived \subseteq arrived' /\ Present \subseteq Present' /\ pub \subseteq pub'
         /\ chain \subseteq chain' /\ dsn \subseteq dsn'
  <1>1. arrived \subseteq arrived' /\ pub \subseteq pub' /\ chain \subseteq chain' /\ dsn \subseteq dsn'
    <2>1. CASE UNCHANGED vars
      BY <2>1 DEF vars, nodes, network
    <2>2. CASE \E o \in Roots : Arrive(o) \/ recoverPublishing(o)
      BY <2>2 DEF Arrive, recoverPublishing, nodes, network
    <2>3. CASE \E w \in Workers : (\E B \in queue : Deliver(w, B)) \/ Fail(w)
      BY <2>3 DEF Deliver, Fail, nodes, network
    <2>4. CASE \E w \in Workers : \E c \in Cids : Include(w, c)
      BY <2>4 DEF Include, nodes
    <2>5. CASE \E w \in Workers : Publishing(w)
      BY <2>5 DEF Publishing, handleRepeatedNodes, submit, setPublishedOn, nodes, network
    <2>6. CASE Redeliver \/ checkObjectsArchivalStatus \/ checkArchivalStatusForObjects \/ ArchivingFails
      BY <2>6 DEF Redeliver, checkObjectsArchivalStatus, checkArchivalStatusForObjects, ArchivingFails,
                  nodes, network
    <2>7. CASE \E c \in Cids : Archive(c) \/ processNodeArchived({c})
      BY <2>7 DEF Archive, processNodeArchived, nodes, network
    <2>8. CASE processNodeArchived({}) \/ reconcile
      BY <2>8 DEF processNodeArchived, reconcile, network
    <2>9. CASE \E h \in Heads : markAsArchived(h) \/ removeNodeDataByRootCid(h)
      BY <2>9 DEF markAsArchived, removeNodeDataByRootCid, nodes, network
    <2> QED
      BY <2>1, <2>2, <2>3, <2>4, <2>5, <2>6, <2>7, <2>8, <2>9 DEF Next
  <1> QED
    BY <1>1 DEF Present

-----------------------------------------------------------------------------
LEMMA TypeStep == TypeOK /\ [Next]_vars => TypeOK'
  <1> SUFFICES ASSUME TypeOK, [Next]_vars PROVE TypeOK'
    OBVIOUS
  <1>m. Present \subseteq Present'
    BY Monotone
  <1>f. faults' = faults \/ Fault => faults' \in 0..MaxFaults
    BY PublishingConstants DEF TypeOK, Fault
  <1>r. \A r \in Rows : r.cid \in Cids
    BY RowFields
  <1>1. CASE UNCHANGED vars
    BY <1>1 DEF vars, nodes, network, publish, archive, TypeOK, Present
  <1>2. ASSUME NEW o \in Roots, Arrive(o) PROVE TypeOK'
    <2>1. queue' \subseteq Batch
      BY <1>2, BatchesAreTasks DEF Arrive, TypeOK
    <2>2. data' \subseteq Present'
      BY <1>2, <1>m DEF Arrive, TypeOK, Present
    <2> QED
      BY <1>2, <1>m, <1>f, <2>1, <2>2 DEF Arrive, TypeOK, network, archive
  <1>3. ASSUME NEW w \in Workers, NEW B \in queue, Deliver(w, B) PROVE TypeOK'
    <2>1. work' \in [Workers -> WorkTypes]
      <3> DEFINE repeated == B \cap CidsOf(pub)
      <3>1. PICK copied \in SUBSET repeated :
              Go(w, IF repeated = {} THEN "submit" ELSE "repeat", B,
                 {r \in Present : r.cid \in repeated}, copied, (B \cap CidsOf(data)) \ repeated)
        BY <1>3 DEF Deliver
      <3>2. B \in Batch /\ B \subseteq Cids
        BY <1>3 DEF TypeOK, Batch
      <3>3. {r \in Present : r.cid \in repeated} \in SUBSET Rows /\ copied \in SUBSET Cids
            /\ (B \cap CidsOf(data)) \ repeated \in SUBSET Cids
        BY <3>2 DEF Present
      <3>4. (IF repeated = {} THEN "submit" ELSE "repeat") \in {"repeat", "submit", "record"}
        OBVIOUS
      <3> HIDE DEF repeated
      <3> QED
        BY <3>1, <3>2, <3>3, <3>4, GoTypes DEF TypeOK
    <2> QED
      BY <1>3, <1>m, <1>f, <2>1 DEF Deliver, TypeOK, nodes, network, archive, Present
  <1>4. ASSUME NEW w \in Workers, NEW c \in Cids, Include(w, c) PROVE TypeOK'
    BY <1>4 DEF Include, TypeOK, nodes, publish, archive, Present
  <1>5. ASSUME NEW w \in Workers, handleRepeatedNodes(w) PROVE TypeOK'
    <2>1. work' \in [Workers -> WorkTypes]
      <3>1. Busy(w)
        BY <1>5, PhaseBusy DEF handleRepeatedNodes
      <3> QED
        BY <1>5, <3>1, BusyRecord, GoTypes DEF handleRepeatedNodes, TypeOK
    <2> QED
      BY <1>5, <1>m, <1>f, <2>1 DEF handleRepeatedNodes, TypeOK, network, archive, Present
  <1>6. ASSUME NEW w \in Workers, submit(w) PROVE TypeOK'
    <2>1. work' \in [Workers -> WorkTypes]
      <3>1. Busy(w)
        BY <1>6, PhaseBusy DEF submit, Submitted
      <3> QED
        BY <1>6, <3>1, BusyRecord DEF submit, TypeOK, WorkTypes
    <2> QED
      BY <1>6, <2>1 DEF submit, TypeOK, nodes, network, archive, Present
  <1>7. ASSUME NEW w \in Workers, NEW c \in Cids, setPublishedOn(w, c) PROVE TypeOK'
    <2>1. work' \in [Workers -> WorkTypes]
      <3>1. Busy(w)
        BY <1>7, PhaseBusy DEF setPublishedOn
      <3>2. work[w].task \in Batch /\ {} \in SUBSET Rows /\ {} \in SUBSET Cids
            /\ work[w].send \ {c} \in SUBSET Cids
        BY <3>1, BusyRecord DEF TypeOK
      <3> QED
        BY <1>7, <3>2, GoTypes DEF setPublishedOn, TypeOK
    <2> QED
      BY <1>7, <2>1 DEF setPublishedOn, TypeOK, network, archive, Present, RowsOf
  <1>8. ASSUME NEW w \in Workers, Fail(w) PROVE TypeOK'
    <2>1. work' \in [Workers -> WorkTypes]
      BY <1>8 DEF Fail, TypeOK, WorkTypes
    <2>2. work[w].task \in Batch
      BY <1>8, BusyRecord DEF Fail, TypeOK
    <2> QED
      BY <1>8, <1>f, <2>1, <2>2 DEF Fail, TypeOK, nodes, network, archive, Present
  <1>9. CASE Redeliver
    <2>1. work' \in [Workers -> WorkTypes]
      BY <1>9 DEF Redeliver, TypeOK, WorkTypes
    <2>2. \A w \in Workers : Busy(w) => work[w].task \in Batch
      BY BusyRecord DEF TypeOK
    <2> QED
      BY <1>9, <1>f, <2>1, <2>2 DEF Redeliver, TypeOK, nodes, network, archive, Present
  <1>10. ASSUME NEW o \in Roots, recoverPublishing(o) PROVE TypeOK'
    <2>1. queue' \subseteq Batch
      BY <1>10, BatchesAreTasks DEF recoverPublishing, TypeOK
    <2> QED
      BY <1>10, <1>f, <2>1 DEF recoverPublishing, TypeOK, nodes, network, archive, Present
  <1>11. ASSUME NEW c \in Cids, Archive(c) PROVE TypeOK'
    BY <1>11 DEF Archive, TypeOK, nodes, publish, archive, Present
  <1>12. ASSUME NEW C, processNodeArchived(C) PROVE TypeOK'
    BY <1>12 DEF processNodeArchived, SetPieces, TypeOK, network, publish, Present
  <1>13. CASE checkObjectsArchivalStatus
    BY <1>13, <1>f DEF checkObjectsArchivalStatus, Announce, TypeOK, nodes, network, publish, Present
  <1>14. CASE reconcile
    <2>1. affected' \subseteq Heads
      BY <1>14 DEF reconcile
    <2> QED
      BY <1>14, <2>1 DEF reconcile, SetPieces, TypeOK, network, publish, Present
  <1>15. CASE checkArchivalStatusForObjects
    BY <1>15, <1>f DEF checkArchivalStatusForObjects, Announce, TypeOK, nodes, network, publish, Present
  <1>16. ASSUME NEW h \in Heads, markAsArchived(h) \/ removeNodeDataByRootCid(h) PROVE TypeOK'
    BY <1>16 DEF markAsArchived, removeNodeDataByRootCid, TypeOK, nodes, network, publish, Present
  <1>17. CASE ArchivingFails
    <2>1. archiving' \subseteq Heads /\ stripping' \subseteq archived /\ affected' \subseteq Heads
          /\ listening' \in BOOLEAN
      BY <1>17 DEF ArchivingFails, TypeOK
    <2> QED
      BY <1>17, <1>f, <2>1 DEF ArchivingFails, TypeOK, nodes, network, publish, Present
  <1> QED
    BY <1>1, <1>2, <1>3, <1>4, <1>5, <1>6, <1>7, <1>8, <1>9, <1>10, <1>11, <1>12, <1>13, <1>14, <1>15,
       <1>16, <1>17 DEF Next, Publishing

-----------------------------------------------------------------------------
\* No step leaves a row without its data before it is published.
LEMMA DataStep == Inv /\ TypeOK' /\ [Next]_vars => NoneUnrecoverable'
  <1> SUFFICES ASSUME Inv, TypeOK', [Next]_vars PROVE NoneUnrecoverable'
    OBVIOUS
  <1>m. pub \subseteq pub'
    BY Monotone DEF Inv
  <1>1. CASE Present' = Present /\ data \subseteq data'
    BY <1>1, <1>m DEF Inv, NoneUnrecoverable
  <1>2. ASSUME NEW o \in Roots, Arrive(o) PROVE NoneUnrecoverable'
    <2>1. Present' \subseteq Present \cup {r \in Rows : r.root = o}
      BY <1>2 DEF Arrive, Present
    <2> QED
      BY <1>2, <2>1, <1>m DEF Arrive, Inv, NoneUnrecoverable
  <1>3. ASSUME NEW w \in Workers, NEW c \in Cids, setPublishedOn(w, c) PROVE NoneUnrecoverable'
    BY <1>3, <1>m DEF setPublishedOn, RowsOf, Present, Inv, NoneUnrecoverable
  <1>4. ASSUME NEW h \in Heads, removeNodeDataByRootCid(h) PROVE NoneUnrecoverable'
    BY <1>4 DEF removeNodeDataByRootCid, Strippable, nodes, Present, Inv, NoneUnrecoverable
  <1>5. CASE UNCHANGED vars
    BY <1>1, <1>5 DEF vars, nodes, Present
  <1>6. ASSUME NEW w \in Workers,
               (\E B \in queue : Deliver(w, B)) \/ (\E c \in Cids : Include(w, c)) \/ Fail(w)
        PROVE  NoneUnrecoverable'
    BY <1>1, <1>6 DEF Deliver, Include, Fail, nodes, Present
  <1>7. ASSUME NEW w \in Workers, handleRepeatedNodes(w) \/ submit(w) PROVE NoneUnrecoverable'
    BY <1>1, <1>7 DEF handleRepeatedNodes, submit, nodes, Present
  <1>8. CASE Redeliver \/ (\E o \in Roots : recoverPublishing(o)) \/ (\E c \in Cids : Archive(c))
    BY <1>1, <1>8 DEF Redeliver, recoverPublishing, Archive, nodes, Present
  <1>9. ASSUME NEW C, processNodeArchived(C) PROVE NoneUnrecoverable'
    BY <1>1, <1>9 DEF processNodeArchived, Present
  <1>10. CASE checkObjectsArchivalStatus \/ checkArchivalStatusForObjects \/ reconcile
    BY <1>1, <1>10 DEF checkObjectsArchivalStatus, checkArchivalStatusForObjects, reconcile, nodes, Present
  <1>11. CASE (\E h \in Heads : markAsArchived(h)) \/ ArchivingFails
    BY <1>1, <1>11 DEF markAsArchived, ArchivingFails, nodes, Present
  <1> QED
    BY <1>2, <1>3, <1>4, <1>5, <1>6, <1>7, <1>8, <1>9, <1>10, <1>11 DEF Next, Publishing

\* What a worker may carry is preserved by every step that leaves it alone.
LEMMA CarriedStays ==
  ASSUME Inv, [Next]_vars, NEW w \in Workers, work'[w] = work[w], Busy(w)'
  PROVE  /\ work'[w].repeated \subseteq Present' /\ CidsOf(work'[w].repeated) \subseteq chain'
         /\ work'[w].copied \subseteq dsn'
         /\ work'[w].phase = "record" => work'[w].send \subseteq chain'
  BY Monotone DEF Inv, WorkHolds, Busy

\* It is established by the step that reads it, and kept to the one that writes.
LEMMA WorkStep == Inv /\ [Next]_vars => WorkHolds'
  <1> SUFFICES ASSUME Inv, [Next]_vars PROVE WorkHolds'
    OBVIOUS
  <1> USE DEF Inv
  <1>m. Present \subseteq Present' /\ chain \subseteq chain' /\ dsn \subseteq dsn'
    BY Monotone
  <1>1. CASE \A v \in Workers : work'[v] = work[v] \/ work'[v] = Idle
    BY <1>1, CarriedStays DEF WorkHolds, Busy
  <1>2. ASSUME NEW w \in Workers, NEW B \in queue, Deliver(w, B) PROVE WorkHolds'
    <2>1. B \in Batch /\ B \subseteq Cids
      BY <1>2 DEF TypeOK, Batch
    <2>2. PICK phase \in {"repeat", "submit"}, rows \in SUBSET Present,
               copied \in SUBSET Cids, send \in SUBSET Cids :
            CidsOf(rows) \subseteq chain /\ copied \subseteq dsn /\ Go(w, phase, B, rows, copied, send)
      <3> DEFINE repeated == B \cap CidsOf(pub)
                 rows == {r \in Present : r.cid \in repeated}
                 send == (B \cap CidsOf(data)) \ repeated
      <3>1. PICK copied \in SUBSET repeated :
              /\ \A c \in repeated : \E r \in pub \cap RowsOf(c) : (r \in piece) = (c \in copied)
              /\ Go(w, IF repeated = {} THEN "submit" ELSE "repeat", B, rows, copied, send)
        BY <1>2 DEF Deliver
      <3>2. repeated \subseteq chain /\ copied \subseteq dsn
        BY <3>1 DEF RowsTellTruth, RowsOf, CidsOf
      <3>3. CidsOf(rows) \subseteq chain
        BY <3>2 DEF CidsOf
      <3> QED
        BY <2>1, <3>1, <3>2, <3>3
    <2>3. rows \in SUBSET Rows
      BY DEF Present
    <2>4. /\ \A v \in Workers : v # w => work'[v] = work[v]
          /\ \/ work'[w] = Idle
             \/ /\ work'[w].phase = phase /\ work'[w].repeated = rows
                /\ work'[w].copied = copied /\ work'[w].send = send
      BY <2>2 DEF Go, TypeOK
    <2> QED
      BY <2>2, <2>4, <1>m, CarriedStays DEF WorkHolds, Busy
  <1>3. ASSUME NEW w \in Workers, handleRepeatedNodes(w) PROVE WorkHolds'
    <2>1. Busy(w)
      BY <1>3, PhaseBusy DEF handleRepeatedNodes
    <2>2. work[w].task \in Batch /\ {} \in SUBSET Rows /\ {} \in SUBSET Cids /\ work[w].send \in SUBSET Cids
      BY <2>1, BusyRecord DEF TypeOK
    <2>3. /\ \A v \in Workers : v # w => work'[v] = work[v]
          /\ \/ work'[w] = Idle
             \/ work'[w].repeated = {} /\ work'[w].copied = {} /\ work'[w].phase = "submit"
      <3>1. Go(w, "submit", work[w].task, {}, {}, work[w].send)
        BY <1>3 DEF handleRepeatedNodes
      <3> QED
        BY <3>1, <2>2, GoTypes DEF TypeOK
    <2> QED
      BY <2>3, CarriedStays DEF WorkHolds, Busy, CidsOf
  <1>4. ASSUME NEW w \in Workers, submit(w) PROVE WorkHolds'
    <2>1. Busy(w)
      BY <1>4, PhaseBusy DEF submit, Submitted
    <2>2. /\ \A v \in Workers : v # w => work'[v] = work[v]
          /\ work'[w].repeated = work[w].repeated /\ work'[w].copied = work[w].copied
          /\ work'[w].send = work[w].send
      BY <1>4, <2>1, BusyRecord DEF submit, TypeOK
    <2> QED
      BY <1>4, <2>1, <2>2, <1>m, CarriedStays DEF submit, Submitted, WorkHolds, Busy
  <1>5. ASSUME NEW w \in Workers, NEW c \in Cids, setPublishedOn(w, c) PROVE WorkHolds'
    <2>1. Busy(w)
      BY <1>5, PhaseBusy DEF setPublishedOn
    <2>2. work[w].task \in Batch /\ {} \in SUBSET Rows /\ {} \in SUBSET Cids
          /\ work[w].send \ {c} \in SUBSET Cids
      BY <2>1, BusyRecord DEF TypeOK
    <2>3. work[w].send \subseteq chain
      BY <1>5, <2>1 DEF setPublishedOn, WorkHolds
    <2>4. /\ \A v \in Workers : v # w => work'[v] = work[v]
          /\ \/ work'[w] = Idle
             \/ /\ work'[w].repeated = {} /\ work'[w].copied = {}
                /\ work'[w].send = work[w].send \ {c}
      <3>1. Go(w, "record", work[w].task, {}, {}, work[w].send \ {c})
        BY <1>5 DEF setPublishedOn
      <3> QED
        BY <3>1, <2>2, GoTypes DEF TypeOK
    <2> QED
      BY <2>3, <2>4, <1>m, CarriedStays DEF WorkHolds, Busy, CidsOf
  <1>6. ASSUME NEW w \in Workers, Fail(w) PROVE WorkHolds'
    BY <1>1, <1>6 DEF Fail, TypeOK
  <1>7. CASE Redeliver
    BY <1>1, <1>7 DEF Redeliver
  <1>8. CASE work' = work
    BY <1>1, <1>8
  <1>9. ASSUME NEW w \in Workers, NEW c \in Cids, Include(w, c) PROVE WorkHolds'
    BY <1>8, <1>9 DEF Include, publish
  <1>10. ASSUME NEW o \in Roots, Arrive(o) \/ recoverPublishing(o) PROVE WorkHolds'
    BY <1>8, <1>10 DEF Arrive, recoverPublishing
  <1>11. ASSUME NEW C, processNodeArchived(C) PROVE WorkHolds'
    BY <1>8, <1>11 DEF processNodeArchived, publish
  <1>12. CASE checkObjectsArchivalStatus \/ checkArchivalStatusForObjects \/ reconcile \/ ArchivingFails
    BY <1>8, <1>12 DEF checkObjectsArchivalStatus, checkArchivalStatusForObjects, reconcile, ArchivingFails,
       publish
  <1>13. CASE (\E c \in Cids : Archive(c))
              \/ (\E h \in Heads : markAsArchived(h) \/ removeNodeDataByRootCid(h)) \/ UNCHANGED vars
    BY <1>8, <1>13 DEF Archive, markAsArchived, removeNodeDataByRootCid, vars, publish
  <1> QED
    BY <1>2, <1>3, <1>4, <1>5, <1>6, <1>7, <1>9, <1>10, <1>11, <1>12, <1>13 DEF Next, Publishing

\* Every row that becomes published or gets a piece takes it from something
\* that is on chain or in the archive.
LEMMA TruthStep == Inv /\ [Next]_vars => RowsTellTruth'
  <1> SUFFICES ASSUME Inv, [Next]_vars PROVE RowsTellTruth'
    OBVIOUS
  <1> USE DEF Inv
  <1>m. chain \subseteq chain' /\ dsn \subseteq dsn'
    BY Monotone
  <1>1. CASE CidsOf(pub') \subseteq CidsOf(pub) \cup chain /\ CidsOf(piece') \subseteq CidsOf(piece) \cup dsn
    BY <1>1, <1>m DEF RowsTellTruth, CidsOf
  <1>2. ASSUME NEW w \in Workers, handleRepeatedNodes(w) PROVE RowsTellTruth'
    <2>1. Busy(w)
      BY <1>2, PhaseBusy DEF handleRepeatedNodes
    <2>2. PICK rows \in SUBSET Present :
            /\ \A r \in rows : \E q \in work[w].repeated : q.cid = r.cid
            /\ pub' = pub \cup rows
            /\ piece' = (piece \ rows) \cup {r \in rows : r.cid \in work[w].copied}
      <3> DEFINE rows == {r \in Present : \E q \in work[w].repeated : q.root = r.root /\ q.cid = r.cid}
      <3> rows \in SUBSET Present /\ \A r \in rows : \E q \in work[w].repeated : q.cid = r.cid
        OBVIOUS
      <3> QED
        BY <1>2 DEF handleRepeatedNodes
    <2>3. CidsOf(work[w].repeated) \subseteq chain /\ work[w].copied \subseteq dsn
      BY <2>1 DEF WorkHolds
    <2> QED
      BY <1>1, <2>2, <2>3 DEF CidsOf
  <1>3. ASSUME NEW w \in Workers, NEW c \in Cids, setPublishedOn(w, c) PROVE RowsTellTruth'
    <2>1. Busy(w)
      BY <1>3, PhaseBusy DEF setPublishedOn
    <2>2. c \in chain
      BY <1>3, <2>1 DEF setPublishedOn, WorkHolds
    <2> QED
      BY <1>1, <1>3, <2>2 DEF setPublishedOn, RowsOf, CidsOf
  <1>4. ASSUME NEW C, processNodeArchived(C) PROVE RowsTellTruth'
    BY <1>1, <1>4 DEF processNodeArchived, SetPieces, CidsOf
  <1>5. CASE reconcile
    BY <1>1, <1>5 DEF reconcile, SetPieces, CidsOf
  <1>6. CASE pub' = pub /\ piece' = piece
    BY <1>1, <1>6
  <1>7. ASSUME NEW w \in Workers,
               (\E B \in queue : Deliver(w, B)) \/ (\E c \in Cids : Include(w, c)) \/ submit(w) \/ Fail(w)
        PROVE  RowsTellTruth'
    BY <1>6, <1>7 DEF Deliver, Include, submit, Fail, nodes
  <1>8. CASE Redeliver \/ checkObjectsArchivalStatus \/ checkArchivalStatusForObjects \/ ArchivingFails
    BY <1>6, <1>8 DEF Redeliver, checkObjectsArchivalStatus, checkArchivalStatusForObjects, ArchivingFails, nodes
  <1>9. CASE (\E o \in Roots : Arrive(o) \/ recoverPublishing(o)) \/ (\E c \in Cids : Archive(c))
    BY <1>6, <1>9 DEF Arrive, recoverPublishing, Archive, nodes
  <1>10. CASE (\E h \in Heads : markAsArchived(h) \/ removeNodeDataByRootCid(h)) \/ UNCHANGED vars
    BY <1>6, <1>10 DEF markAsArchived, removeNodeDataByRootCid, vars, nodes
  <1> QED
    BY <1>2, <1>3, <1>4, <1>5, <1>7, <1>8, <1>9, <1>10 DEF Next, Publishing

LEMMA InvStep == Inv /\ [Next]_vars => Inv'
  <1> SUFFICES ASSUME Inv, [Next]_vars PROVE Inv'
    OBVIOUS
  <1>1. TypeOK'
    BY TypeStep DEF Inv
  <1> QED
    BY <1>1, DataStep, WorkStep, TruthStep DEF Inv

LEMMA InvHolds == Spec => []Inv
  BY InitInv, InvStep, PTL DEF Spec

-----------------------------------------------------------------------------
\* Type correctness of the model, for any rows, workers, batches and faults.
THEOREM TypeCorrect == Spec => []TypeOK
  BY InvHolds, PTL DEF Inv

\* For every instance, a node that is not published keeps its data, so that the
\* recovery pass can enqueue it: removeNodeDataByRootCid and
\* updateNodePublishedOn never strip another.
THEOREM NothingUnrecoverable == Spec => []NoneUnrecoverable
  BY InvHolds, PTL DEF Inv

\* For every instance, published rows are on chain and rows with a piece are
\* archived, although handleRepeatedNodes writes what it read earlier.
THEOREM RowsAreTruthful == Spec => []RowsTellTruth
  BY InvHolds, PTL DEF Inv

-----------------------------------------------------------------------------
\* A head is the CID of the content under it, so the rows of a head have the
\* same CIDs under every root; and a root is the head of rows of its own.
ContentDecides ==
  /\ \A r, q \in Rows : r.head = q.head => [q EXCEPT !.root = r.root] \in Rows
  /\ \A r \in Rows : \E q \in Rows : q.root = r.root /\ q.head = r.root

OwnInDsn(h) == \A r \in Rows : r.head = h => r.cid \in dsn

\* A message that marks a head is sent only when the network has its nodes,
\* those of roots that are still to arrive too.
ArchiveHolds ==
  /\ \A h \in archived \cup archiving : OwnInDsn(h)
  /\ \A h \in affected : \E r \in Present : r.head = h

\* If all rows of a head under one root have a piece, its nodes are archived.
LEMMA OneRootDecides ==
  ASSUME ContentDecides, Inv, NEW o \in arrived, NEW h,
         \E r \in Rows : r.root = o /\ r.head = h,
         \A r \in Present : (r.root = o /\ r.head = h) => r \in piece
  PROVE  OwnInDsn(h)
  <1> SUFFICES ASSUME NEW q \in Rows, q.head = h PROVE q.cid \in dsn
    BY DEF OwnInDsn
  <1>1. PICK r \in Rows : r.root = o /\ r.head = h
    OBVIOUS
  <1> DEFINE p == [q EXCEPT !.root = r.root]
  <1>2. p \in Rows /\ p.root = o /\ p.head = h /\ p.cid = q.cid
    BY <1>1, RowFields DEF ContentDecides
  <1>3. p \in piece
    BY <1>2 DEF Present
  <1> HIDE DEF p
  <1> QED
    BY <1>2, <1>3 DEF Inv, RowsTellTruth, CidsOf

LEMMA ArchiveStep == ContentDecides /\ Inv /\ ArchiveHolds /\ [Next]_vars => ArchiveHolds'
  <1> SUFFICES ASSUME ContentDecides, Inv, ArchiveHolds, [Next]_vars PROVE ArchiveHolds'
    OBVIOUS
  <1>m. dsn \subseteq dsn' /\ Present \subseteq Present'
    BY Monotone DEF Inv
  <1>1. CASE archived' \cup archiving' \subseteq archived \cup archiving /\ affected' \subseteq affected
    BY <1>1, <1>m DEF ArchiveHolds, OwnInDsn
  <1>2. CASE checkObjectsArchivalStatus
    <2>1. ASSUME NEW h, hasAllNodesArchived(h) PROVE OwnInDsn(h)
      <3>1. PICK r \in Present : r.root = h
        BY <2>1 DEF hasAllNodesArchived
      <3>2. h \in arrived /\ \E q \in Rows : q.root = h /\ q.head = h
        BY <3>1 DEF Present, ContentDecides
      <3>3. \A q \in Present : (q.root = h /\ q.head = h) => q \in piece
        BY <2>1 DEF hasAllNodesArchived
      <3> QED
        BY <3>2, <3>3, OneRootDecides
    <2>2. archived' = archived /\ affected' = affected /\ dsn' = dsn
          /\ \A h \in archiving' \ archiving : hasAllNodesArchived(h)
      BY <1>2 DEF checkObjectsArchivalStatus, Announce, network
    <2> QED
      BY <2>1, <2>2, <1>m DEF ArchiveHolds, OwnInDsn
  <1>3. CASE checkArchivalStatusForObjects
    <2>1. ASSUME NEW h \in affected, {r \in Present : r.head = h} \subseteq piece PROVE OwnInDsn(h)
      <3>1. PICK r \in Present : r.head = h
        BY <2>1 DEF ArchiveHolds
      <3>2. r.root \in arrived /\ r \in Rows
        BY <3>1 DEF Present
      <3>3. \A q \in Present : (q.root = r.root /\ q.head = h) => q \in piece
        BY <2>1
      <3> QED
        BY <3>1, <3>2, <3>3, OneRootDecides
    <2>2. archived' = archived /\ affected' = {} /\ dsn' = dsn
          /\ \A h \in archiving' \ archiving : h \in affected /\ {r \in Present : r.head = h} \subseteq piece
      BY <1>3 DEF checkArchivalStatusForObjects, Announce, network
    <2> QED
      BY <2>1, <2>2, <1>m DEF ArchiveHolds, OwnInDsn
  <1>4. CASE reconcile
    <2>1. \A h \in affected' : \E r \in getUnreconciledNodes : r.head = h
      BY <1>4 DEF reconcile
    <2>2. getUnreconciledNodes \subseteq Present
      BY DEF getUnreconciledNodes, Inv, TypeOK
    <2>3. archived' = archived /\ archiving' = archiving
      BY <1>4 DEF reconcile
    <2> QED
      BY <2>1, <2>2, <2>3, <1>m DEF ArchiveHolds, OwnInDsn
  <1>5. ASSUME NEW h \in Heads, markAsArchived(h) \/ removeNodeDataByRootCid(h) PROVE ArchiveHolds'
    BY <1>1, <1>5 DEF markAsArchived, removeNodeDataByRootCid
  <1>6. CASE ArchivingFails
    <2>1. archived' = archived /\ archiving' \subseteq archiving \cup stripping /\ affected' \subseteq affected
      BY <1>6 DEF ArchivingFails
    <2>2. stripping \subseteq archived
      BY DEF Inv, TypeOK
    <2> QED
      BY <1>1, <2>1, <2>2
  <1>7. ASSUME NEW C, processNodeArchived(C) PROVE ArchiveHolds'
    BY <1>1, <1>7 DEF processNodeArchived
  <1>8. ASSUME NEW w \in Workers,
               (\E B \in queue : Deliver(w, B)) \/ (\E c \in Cids : Include(w, c)) \/ Fail(w)
        PROVE  ArchiveHolds'
    BY <1>1, <1>8 DEF Deliver, Include, Fail, archive
  <1>9. ASSUME NEW w \in Workers, Publishing(w) PROVE ArchiveHolds'
    BY <1>1, <1>9 DEF Publishing, handleRepeatedNodes, submit, setPublishedOn, archive
  <1>10. CASE Redeliver \/ (\E o \in Roots : Arrive(o) \/ recoverPublishing(o))
              \/ (\E c \in Cids : Archive(c)) \/ UNCHANGED vars
    BY <1>1, <1>10 DEF Redeliver, Arrive, recoverPublishing, Archive, vars, archive
  <1> QED
    BY <1>2, <1>3, <1>4, <1>5, <1>6, <1>7, <1>8, <1>9, <1>10 DEF Next

\* For all contents in which a head decides the nodes under it, an object is
\* marked as archived only when its own nodes are in the network, whichever
\* check - by root or by head - found it and whatever arrives later.
THEOREM ArchivedAreOwn == ASSUME ContentDecides PROVE Spec => []OwnNodesArchived
  <1>1. Init => ArchiveHolds
    BY DEF Init, ArchiveHolds
  <1>2. Inv /\ ArchiveHolds /\ [Next]_vars => ArchiveHolds'
    BY ArchiveStep
  <1>3. ArchiveHolds => OwnNodesArchived
    BY DEF ArchiveHolds, OwnInDsn, OwnNodesArchived, Present, CidsOf
  <1> QED
    BY <1>1, <1>2, <1>3, InvHolds, PTL DEF Spec

(***************************************************************************)
(* RabbitConsumers                                                         *)
(***************************************************************************)
\* Before startConsumer has subscribed there is nothing to re-subscribe.
Unstarted ==
  /\ ~registered /\ active = 0 /\ superseded = {} /\ stop = NoCall /\ ~slipped
  /\ \A t \in Tasks : task[t] = NoTask
  /\ \A i \in Consumers : cons[i] = NoCons

\* A callback that is not registered was not yet, or was unsubscribed; then no
\* consumer is entered for it, and no subscription waits for a channel, unless
\* one did when it was unsubscribed.
Deregistered ==
  /\ task[Main].phase = "idle" => Unstarted
  /\ slipped => stop.phase # "idle"
  /\ ~registered /\ task[Main].phase # "idle" =>
       /\ stop.phase # "idle"
       /\ \/ slipped
          \/ active = 0 /\ \A t \in Tasks : task[t].phase # "channel"

\* A consume that is asked for or answered on an open channel is known.
Known(i) ==
  \/ i = active /\ registered
  \/ i \in superseded
  \/ stop.phase = "cancel" /\ i = stop.of
  \/ slipped

ConsumersKnown ==
  \A i \in Consumers : cons[i] # NoCons /\ chan[cons[i].ch] = "open" => Known(i)

DriverInv == DriverTypeOK /\ Deregistered /\ ConsumersKnown

\* The parts of DriverTypeOK: connections, consumers, calls, and the rest.
ChanStates == {"none", "opening", "refused", "open", "closed"}
ConnTyped ==
  /\ chan \in [Channels -> ChanStates]
  /\ current \in {0} \cup Channels
  /\ current # 0 => chan[current] \in {"opening", "open", "closed"}
ConsSet == {NoCons} \cup [st : {"asked", "live"}, ch : Channels]
ReadTyped ==
  /\ active \in {0} \cup Consumers
  /\ registered \in BOOLEAN /\ superseded \subseteq Consumers \ {active}
  /\ cons \in [Consumers -> ConsSet]
  /\ \A i \in Consumers : cons[i] # NoCons => chan[cons[i].ch] \in {"open", "closed"}
TaskSet == [phase : {"idle", "channel", "consume", "start", "retry", "done", "failed"},
            of : {0} \cup Channels \cup Consumers, tries : 0..MaxRetries]
TaskFits(t, r) ==
  /\ r \in TaskSet
  /\ r.phase = "channel" => r.of \in Channels
  /\ r.phase = "consume" => r.of \in Consumers
  /\ r.phase \in {"done", "failed"} => t = Main
  /\ r.phase \in {"start", "retry"} => t # Main
TaskTyped ==
  /\ task \in [Tasks -> TaskSet]
  /\ \A t \in Tasks : TaskFits(t, task[t])
TickSet == {NoCall} \cup [phase : {"channel", "probe", "reconnect"}, of : Channels]
TickTyped == tick \in [Ticks -> TickSet]
StopTyped == stop \in {NoCall, [NoCall EXCEPT !.phase = "done"]} \cup [phase : {"cancel"}, of : Consumers]
CountTyped == losses \in 0..MaxLosses /\ slipped \in BOOLEAN

LEMMA TypeParts ==
  DriverTypeOK <=> ConnTyped /\ ReadTyped /\ TaskTyped /\ TickTyped /\ StopTyped /\ CountTyped
  BY DEF DriverTypeOK, ConnTyped, ReadTyped, TaskTyped, TaskFits, TickTyped, StopTyped, CountTyped,
         ChanStates, ConsSet, TaskSet, TickSet

LEMMA DriverConstants ==
  /\ Main \in Tasks /\ Main = 0 /\ Main \notin Channels /\ 0 \notin Consumers /\ 0 \notin Channels
  /\ Channels \subseteq Tasks
  /\ MaxRetries \in Nat /\ MaxLosses \in Nat
  BY RabbitAssumption DEF Tasks, Main, Channels, Consumers

\* No call has begun and there is no channel.
LEMMA DriverInvInit == DriverInit => DriverInv
<1> SUFFICES ASSUME DriverInit PROVE DriverInv
  OBVIOUS
<1>1. ConnTyped
  BY DEF DriverInit, ConnTyped, ChanStates
<1>2. ReadTyped
  BY DEF DriverInit, ReadTyped, ConsSet
<1>3. NoTask \in TaskSet /\ \A t \in Tasks : TaskFits(t, NoTask)
  BY DriverConstants DEF NoTask, TaskSet, TaskFits
<1>4. TaskTyped
  BY <1>3 DEF DriverInit, TaskTyped
<1>5. TickTyped /\ StopTyped
  BY DEF DriverInit, TickTyped, TickSet, StopTyped
<1>6. CountTyped
  <2>1. losses \in 0..MaxLosses
    BY DriverConstants DEF DriverInit
  <2> QED BY <2>1 DEF DriverInit, CountTyped
<1>7. Unstarted
  BY DEF DriverInit, Unstarted
<1>8. task[Main].phase = "idle"
  BY DriverConstants DEF DriverInit, NoTask
<1>9. Deregistered
  BY <1>7, <1>8 DEF DriverInit, Deregistered
<1>10. ConsumersKnown
  BY DEF DriverInit, ConsumersKnown
<1> QED BY <1>1, <1>2, <1>4, <1>5, <1>6, <1>9, <1>10, TypeParts DEF DriverInv

\* What a call becomes when it ends or is rejected is a state of that call.
LEMMA ReadyFits ==
  /\ \A t \in Tasks : TaskFits(t, NoTask) /\ TaskFits(t, Over(t))
  /\ TaskTyped => \A t \in Tasks : TaskFits(t, Rejected(t))
<1>1. \A t \in Tasks : TaskFits(t, NoTask) /\ TaskFits(t, Over(t))
  BY DriverConstants DEF NoTask, TaskSet, TaskFits, Over
<1>2. ASSUME TaskTyped, NEW t \in Tasks PROVE TaskFits(t, Rejected(t))
  <2>1. task[t] \in TaskSet
    BY <1>2 DEF TaskTyped
  <2>2. task[t].tries \in 0..MaxRetries
    BY <2>1 DEF TaskSet
  <2>3. task[t].tries < MaxRetries => task[t].tries + 1 \in 0..MaxRetries
    BY <2>2, DriverConstants
  <2> QED BY <2>3, DriverConstants DEF Rejected, NoTask, TaskSet, TaskFits
<1> QED BY <1>1, <1>2

\* Connecting takes a channel that no consumer is on.
LEMMA Connecting ==
  ASSUME ConnTyped, ReadTyped, NEW n, Connect(n)
  PROVE  /\ n \in Channels /\ current' = n /\ ConnTyped'
         /\ chan'[n] = "opening"
         /\ \A i \in Consumers : cons[i] # NoCons => chan'[cons[i].ch] = chan[cons[i].ch]
<1>1. n \in Channels /\ current' = n /\ n # 0
  BY DriverConstants DEF Connect
<1>2. chan' = [chan EXCEPT ![n] = "opening"]
  BY DEF Connect
<1>3. chan' \in [Channels -> ChanStates] /\ chan'[n] = "opening"
  BY <1>1, <1>2 DEF ConnTyped, ChanStates
<1>4. ASSUME NEW i \in Consumers, cons[i] # NoCons PROVE chan'[cons[i].ch] = chan[cons[i].ch]
  <2>1. cons[i].st # "none" /\ cons[i].ch \in Channels
    BY <1>4 DEF ReadTyped, ConsSet, NoCons
  <2>2. cons[i].ch # n
    BY <2>1 DEF Connect, Held
  <2> QED BY <1>1, <1>2, <2>1, <2>2 DEF ConnTyped
<1> QED BY <1>1, <1>3, <1>4 DEF ConnTyped

\* Every consumer on an open channel is entered, or somebody is to cancel it.
Entered ==
  \A i \in Consumers : cons[i] # NoCons /\ chan[cons[i].ch] = "open" =>
    \/ i = active \/ i \in superseded
    \/ stop.phase = "cancel" /\ i = stop.of
    \/ slipped

LEMMA EnteredOf ==
  /\ ConsumersKnown => Entered
  /\ Entered' /\ registered' => ConsumersKnown'
  BY DEF Entered, ConsumersKnown, Known

\* A call that goes on is written to task.
LEMMA TaskWritten ==
  ASSUME TaskTyped, NEW t \in Tasks, NEW r, TaskFits(t, r), task' = [task EXCEPT ![t] = r]
  PROVE  TaskTyped' /\ task'[t] = r /\ \A s \in Tasks : s # t => task'[s] = task[s]
  BY DEF TaskTyped, TaskFits

\* What becomes of a call t that goes on: its own state only, and startConsumer
\* is not before its start again.
Goes(t, phases) ==
  /\ task'[t].phase \in phases
  /\ t = Main => task'[t].phase # "idle"
  /\ \A s \in Tasks : s # t => task'[s] = task[s]

Settled == {"idle", "consume", "retry", "done", "failed"}

\* A subscribe that is rejected waits for a retry or has ended.
LEMMA RejectedPhase ==
  ASSUME NEW t \in Tasks
  PROVE  Rejected(t).phase \in {"idle", "retry", "failed"} /\ (t = Main => Rejected(t).phase = "failed")
  BY DEF Rejected, NoTask

\* A subscribe that succeeds has ended.
LEMMA OverPhase ==
  ASSUME NEW t \in Tasks
  PROVE  Over(t).phase \in {"idle", "done"} /\ (t = Main => Over(t).phase = "done")
  BY DEF Over, NoTask

\* Waiting for a consume, and for a channel.
LEMMA AwaitConsume ==
  ASSUME TaskTyped, NEW t \in Tasks, NEW i \in Consumers, Await(t, "consume", i)
  PROVE  TaskTyped' /\ Goes(t, Settled)
<1> DEFINE r == [task[t] EXCEPT !.phase = "consume", !.of = i]
<1>1. task[t] \in TaskSet
  BY DEF TaskTyped
<1>2. r \in TaskSet /\ r.phase = "consume" /\ r.of = i
  BY <1>1 DEF TaskSet
<1>3. TaskFits(t, r)
  BY <1>2 DEF TaskFits
<1>4. task' = [task EXCEPT ![t] = r]
  BY DEF Await, TaskTyped
<1> HIDE DEF r
<1> QED BY <1>2, <1>3, <1>4, TaskWritten DEF Goes, Settled

LEMMA AwaitChannel ==
  ASSUME TaskTyped, NEW t \in Tasks, NEW n \in Channels, Await(t, "channel", n)
  PROVE  TaskTyped' /\ Goes(t, {"channel"})
<1> DEFINE r == [task[t] EXCEPT !.phase = "channel", !.of = n]
<1>1. task[t] \in TaskSet
  BY DEF TaskTyped
<1>2. r \in TaskSet /\ r.phase = "channel" /\ r.of = n
  BY <1>1 DEF TaskSet
<1>3. TaskFits(t, r)
  BY <1>2 DEF TaskFits
<1>4. task' = [task EXCEPT ![t] = r]
  BY DEF Await, TaskTyped
<1> HIDE DEF r
<1> QED BY <1>2, <1>3, <1>4, TaskWritten DEF Goes

\* ensureConsumer enters the consumer of the callback, and cancels the one it had.
LEMMA Ensured ==
  ASSUME ConnTyped, ReadTyped, TaskTyped, Entered, registered' \in BOOLEAN, UNCHANGED <<stop, slipped>>,
         NEW t \in Tasks, NEW n \in Channels, chan[n] \in {"open", "closed"},
         ensureConsumer(t, n)
  PROVE  ConnTyped' /\ ReadTyped' /\ TaskTyped' /\ Entered' /\ Goes(t, Settled)
<1>0. UNCHANGED conn /\ ConnTyped'
  BY DEF ensureConsumer, conn, ConnTyped
<1>1. CASE /\ Reserved(n) /\ chan[n] = "open"
           /\ \/ cons[active].st = "asked" /\ Await(t, "consume", active)
              \/ cons[active].st = "live" /\ task' = [task EXCEPT ![t] = Over(t)]
           /\ UNCHANGED <<cons, active, superseded>>
  <2>1. ReadTyped' /\ Entered'
    BY <1>0, <1>1 DEF conn, ReadTyped, Entered
  <2>2. active \in Consumers
    BY <1>1 DEF Reserved, ReadTyped
  <2>3. CASE Await(t, "consume", active)
    BY <1>0, <2>1, <2>2, <2>3, AwaitConsume
  <2>4. CASE task' = [task EXCEPT ![t] = Over(t)]
    BY <1>0, <2>1, <2>4, ReadyFits, TaskWritten, OverPhase DEF Goes, Settled
  <2> QED BY <1>1, <2>3, <2>4
<1>2. CASE /\ Reserved(n) /\ chan[n] = "closed"
           /\ task' = [task EXCEPT ![t] = Over(t)]
           /\ UNCHANGED <<cons, active, superseded>>
  <2>1. ReadTyped' /\ Entered'
    BY <1>0, <1>2 DEF conn, ReadTyped, Entered
  <2> QED BY <1>0, <1>2, <2>1, ReadyFits, TaskWritten, OverPhase DEF Goes, Settled
<1>3. CASE /\ ~Reserved(n) /\ chan[n] = "open"
           /\ FreshConsumer \in Consumers /\ ~Kept(FreshConsumer)
           /\ cons' = [cons EXCEPT ![FreshConsumer] = [st |-> "asked", ch |-> n]]
           /\ active' = FreshConsumer
           /\ superseded' = Supersede
           /\ Await(t, "consume", FreshConsumer)
  <2> DEFINE f == FreshConsumer
  <2>1. f \in Consumers /\ f # active /\ f \notin superseded /\ f # 0
    BY <1>3, DriverConstants DEF Kept
  <2>2. superseded' = superseded \cup ({active} \ {0}) /\ active' = f
    BY <1>3 DEF Supersede
  <2>3. cons' \in [Consumers -> ConsSet] /\ cons'[f] = [st |-> "asked", ch |-> n]
        /\ \A i \in Consumers : i # f => cons'[i] = cons[i]
    BY <1>3, <2>1 DEF ReadTyped, ConsSet
  <2> HIDE DEF f
  <2>4. superseded' \subseteq Consumers \ {active'} /\ active' \in {0} \cup Consumers
    BY <2>1, <2>2 DEF ReadTyped
  <2>5. ASSUME NEW i \in Consumers, cons'[i] # NoCons PROVE chan'[cons'[i].ch] \in {"open", "closed"}
    <3>1. CASE i = f
      BY <1>0, <1>3, <2>3, <3>1 DEF conn
    <3>2. CASE i # f
      BY <1>0, <2>3, <2>5, <3>2 DEF conn, ReadTyped
    <3> QED BY <3>1, <3>2
  <2>6. ReadTyped'
    BY <2>3, <2>4, <2>5 DEF ReadTyped
  <2>7. Entered'
    <3> SUFFICES ASSUME NEW i \in Consumers, cons'[i] # NoCons, chan'[cons'[i].ch] = "open"
                 PROVE  \/ i = active' \/ i \in superseded'
                        \/ stop.phase = "cancel" /\ i = stop.of
                        \/ slipped
      BY DEF Entered
    <3>1. CASE i = f
      BY <2>2, <3>1
    <3>2. CASE i # f
      <4>1. cons[i] # NoCons /\ chan[cons[i].ch] = "open"
        BY <1>0, <2>3, <3>2 DEF conn
      <4>2. i # 0
        BY DriverConstants
      <4> QED BY <2>2, <4>1, <4>2 DEF Entered
    <3> QED BY <3>1, <3>2
  <2>8. TaskTyped' /\ Goes(t, Settled)
    BY <1>3, AwaitConsume
  <2> QED BY <1>0, <2>6, <2>7, <2>8
<1>4. CASE /\ ~Reserved(n) /\ chan[n] = "closed"
           /\ active' = 0
           /\ superseded' = Supersede
           /\ task' = [task EXCEPT ![t] = Rejected(t)]
           /\ UNCHANGED cons
  <2>1. superseded' \subseteq Consumers \ {active'} /\ active' \in {0} \cup Consumers
    BY <1>4, DriverConstants DEF Supersede, ReadTyped
  <2>2. ReadTyped'
    BY <1>0, <1>4, <2>1 DEF conn, ReadTyped
  <2>3. Entered'
    BY <1>0, <1>4, DriverConstants DEF conn, Entered, Supersede
  <2>4. TaskTyped' /\ Goes(t, Settled)
    BY <1>4, ReadyFits, TaskWritten, RejectedPhase DEF Goes, Settled
  <2> QED BY <1>0, <2>2, <2>3, <2>4
<1> QED BY <1>1, <1>2, <1>3, <1>4 DEF ensureConsumer

\* subscribe waits for a channel, or enters a consumer on the one there is.
LEMMA Subscribed ==
  ASSUME ConnTyped, ReadTyped, TaskTyped, Entered, registered' \in BOOLEAN, UNCHANGED <<stop, slipped>>,
         NEW t \in Tasks, Subscribing(t)
  PROVE  ConnTyped' /\ ReadTyped' /\ TaskTyped' /\ Entered'
         /\ Goes(t, Settled \cup {"channel"})
<1>1. CASE /\ current = 0
           /\ Connect(FreshChannel)
           /\ Await(t, "channel", current')
           /\ UNCHANGED <<cons, active, superseded>>
  <2>1. current' \in Channels /\ ConnTyped'
        /\ \A i \in Consumers : cons[i] # NoCons => chan'[cons[i].ch] = chan[cons[i].ch]
    BY <1>1, Connecting
  <2>2. ReadTyped' /\ Entered'
    BY <1>1, <2>1 DEF ReadTyped, Entered
  <2>3. TaskTyped' /\ Goes(t, {"channel"})
    BY <1>1, <2>1, AwaitChannel
  <2> QED BY <2>1, <2>2, <2>3 DEF Goes
<1>2. CASE /\ current # 0 /\ chan[current] = "opening"
           /\ Await(t, "channel", current)
           /\ UNCHANGED <<conn, cons, active, superseded>>
  <2>1. current \in Channels /\ ConnTyped'
    BY <1>2 DEF ConnTyped, conn
  <2>2. ReadTyped' /\ Entered'
    BY <1>2 DEF ReadTyped, Entered, conn
  <2>3. TaskTyped' /\ Goes(t, {"channel"})
    BY <1>2, <2>1, AwaitChannel
  <2> QED BY <2>1, <2>2, <2>3 DEF Goes
<1>3. CASE current # 0 /\ chan[current] # "opening" /\ ensureConsumer(t, current)
  <2>1. current \in Channels /\ chan[current] \in {"open", "closed"}
    BY <1>3 DEF ConnTyped
  <2> QED BY <1>3, <2>1, Ensured DEF Goes
<1> QED BY <1>1, <1>2, <1>3 DEF Subscribing

\* The invariant by its parts, and how a step keeps it part by part.
LEMMA DriverParts ==
  DriverInv <=> /\ ConnTyped /\ ReadTyped /\ TaskTyped /\ TickTyped /\ StopTyped /\ CountTyped
          /\ Deregistered /\ ConsumersKnown
  BY TypeParts DEF DriverInv

LEMMA DriverInvNext ==
  ASSUME ConnTyped', ReadTyped', TaskTyped', TickTyped', StopTyped', CountTyped',
         Deregistered', ConsumersKnown'
  PROVE  DriverInv'
<1>1. DriverTypeOK'
  BY DEF DriverTypeOK, ConnTyped, ReadTyped, TaskTyped, TaskFits, TickTyped, StopTyped, CountTyped,
         ChanStates, ConsSet, TaskSet, TickSet
<1> QED BY <1>1 DEF DriverInv

\* A subscription that goes on for a callback that is registered, or that
\* slipped past unsubscribe.
LEMMA SubscribedKeeps ==
  ASSUME DriverInv, NEW t \in Tasks, Goes(t, Settled \cup {"channel"}),
         ConnTyped', ReadTyped', TaskTyped', Entered',
         UNCHANGED <<tick, stop, losses, slipped>>,
         registered' \/ slipped, t = Main \/ task[Main].phase # "idle"
  PROVE  DriverInv'
<1>1. task'[Main].phase # "idle"
  BY DriverConstants DEF Goes
<1>2. Deregistered'
  <2>1. Deregistered /\ slipped \in BOOLEAN /\ slipped' = slipped /\ stop' = stop
    BY DriverParts DEF CountTyped
  <2>2. slipped' => stop'.phase # "idle"
    BY <2>1 DEF Deregistered
  <2>3. ~registered' => slipped'
    BY <2>1
  <2> QED BY <1>1, <2>2, <2>3 DEF Deregistered
<1>3. ConsumersKnown'
  <2>1. CASE registered'
    BY <2>1, EnteredOf
  <2>2. CASE slipped
    BY <2>2 DEF ConsumersKnown, Known
  <2> QED BY <2>1, <2>2
<1>4. TickTyped' /\ StopTyped' /\ CountTyped'
  BY DriverParts DEF TickTyped, StopTyped, CountTyped
<1> QED BY <1>2, <1>3, <1>4, DriverInvNext

-----------------------------------------------------------------------------
\* Each action keeps the invariant.
LEMMA OfSubscribe ==
  ASSUME DriverInv, Subscribe PROVE DriverInv'
<1>1. Main \in Tasks /\ registered' /\ registered' \in BOOLEAN /\ Subscribing(Main)
      /\ UNCHANGED <<tick, stop, losses, slipped>>
  BY DriverConstants DEF Subscribe
<1>2. Entered
  BY DriverParts, EnteredOf
<1>3. /\ ConnTyped' /\ ReadTyped' /\ TaskTyped' /\ Entered'
      /\ Goes(Main, Settled \cup {"channel"})
  BY <1>1, <1>2, DriverParts, Subscribed
<1> QED BY <1>1, <1>3, SubscribedKeeps

\* A call of a subscription that is neither new nor ended has a Main before it.
LEMMA Started ==
  ASSUME DriverInv, NEW t \in Tasks, task[t].phase # "idle"
  PROVE  task[Main].phase # "idle"
  BY DriverParts DEF Deregistered, Unstarted, NoTask

LEMMA OfChannelReady ==
  ASSUME DriverInv, NEW t \in Tasks, ChannelReady(t) PROVE DriverInv'
<1> DEFINE n == task[t].of
<1>1. /\ task[t].phase = "channel" /\ chan[n] = "open" /\ ensureConsumer(t, n)
      /\ UNCHANGED <<registered, tick, stop, losses, slipped>>
  BY DEF ChannelReady, Ready
<1>2. n \in Channels /\ registered' \in BOOLEAN
  BY <1>1, DriverParts DEF TaskTyped, TaskFits, ReadTyped
<1>3. task[Main].phase # "idle"
  BY <1>1, Started
<1>4. registered' \/ slipped
  BY <1>1, <1>3, DriverParts DEF Deregistered
<1>5. Entered
  BY DriverParts, EnteredOf
<1> HIDE DEF n
<1>6. ConnTyped' /\ ReadTyped' /\ TaskTyped' /\ Entered' /\ Goes(t, Settled)
  BY <1>1, <1>2, <1>5, DriverParts, Ensured
<1>7. Goes(t, Settled \cup {"channel"})
  BY <1>6 DEF Goes
<1> QED BY <1>1, <1>3, <1>4, <1>6, <1>7, SubscribedKeeps

LEMMA OfResubscribe ==
  ASSUME DriverInv, NEW t \in Tasks, Resubscribe(t) PROVE DriverInv'
<1>1. task[t].phase \in {"start", "retry"} /\ UNCHANGED <<registered, tick, stop, losses, slipped>>
  BY DEF Resubscribe
<1>2. task[Main].phase # "idle" /\ t # Main /\ registered' \in BOOLEAN
  BY <1>1, Started, DriverParts DEF TaskTyped, TaskFits, ReadTyped
<1>3. CASE registered
  <2>1. Subscribing(t) /\ Entered
    BY <1>3, DriverParts, EnteredOf DEF Resubscribe
  <2>2. /\ ConnTyped' /\ ReadTyped' /\ TaskTyped' /\ Entered'
        /\ Goes(t, Settled \cup {"channel"})
    BY <1>1, <1>2, <2>1, DriverParts, Subscribed
  <2> QED BY <1>1, <1>2, <1>3, <2>2, SubscribedKeeps
<1>4. CASE ~registered
  <2>1. task' = [task EXCEPT ![t] = NoTask] /\ UNCHANGED <<conn, cons, active, superseded>>
    BY <1>4 DEF Resubscribe
  <2>2. TaskTyped' /\ task'[t] = NoTask /\ \A s \in Tasks : s # t => task'[s] = task[s]
    BY <2>1, DriverParts, ReadyFits, TaskWritten
  <2>3. ConnTyped' /\ ReadTyped'
    BY <1>1, <2>1, DriverParts DEF conn, ConnTyped, ReadTyped
  <2>4. TickTyped' /\ StopTyped' /\ CountTyped'
    BY <1>1, DriverParts DEF TickTyped, StopTyped, CountTyped
  <2>5. Deregistered'
    BY <1>1, <1>2, <2>1, <2>2, DriverConstants, DriverParts DEF Deregistered, NoTask
  <2>6. ConsumersKnown'
    BY <1>1, <2>1, DriverParts DEF conn, ConsumersKnown, Known
  <2> QED BY <2>2, <2>3, <2>4, <2>5, <2>6, DriverInvNext
<1> QED BY <1>3, <1>4

\* A step of the connection and of the probes that no consumer is touched by.
LEMMA OnlyConnects ==
  ASSUME DriverInv, ConnTyped', TickTyped',
         \A i \in Consumers : cons[i] # NoCons => chan'[cons[i].ch] = chan[cons[i].ch],
         UNCHANGED <<read, task, stop, losses, slipped>>
  PROVE  DriverInv'
<1>1. ReadTyped' /\ TaskTyped' /\ StopTyped' /\ CountTyped'
  BY DriverParts DEF read, ReadTyped, TaskTyped, TaskFits, StopTyped, CountTyped
<1>2. Deregistered'
  BY DriverParts DEF read, Deregistered, Unstarted
<1>3. ConsumersKnown'
  BY DriverParts DEF read, ConsumersKnown, Known
<1> QED BY <1>1, <1>2, <1>3, DriverInvNext

\* keepAlive and publish only ever open a channel.
LEMMA OfKeepAlive ==
  ASSUME DriverInv, NEW k \in Ticks, KeepAlive(k) PROVE DriverInv'
<1>1. UNCHANGED <<read, task, stop, losses, slipped>>
  BY DEF KeepAlive
<1>2. /\ ConnTyped' /\ current' \in Channels
      /\ \A i \in Consumers : cons[i] # NoCons => chan'[cons[i].ch] = chan[cons[i].ch]
  <2>1. CASE current = 0
    BY <2>1, Connecting, DriverParts DEF KeepAlive
  <2>2. CASE current # 0
    BY <2>2, DriverParts DEF KeepAlive, conn, ConnTyped
  <2> QED BY <2>1, <2>2
<1>3. TickTyped'
  BY <1>2, DriverParts DEF KeepAlive, TickTyped, TickSet
<1> QED BY <1>1, <1>2, <1>3, OnlyConnects

LEMMA OfProbed ==
  ASSUME DriverInv, NEW k \in Ticks, Probed(k) PROVE DriverInv'
<1>1. UNCHANGED <<read, task, stop, losses, slipped>>
  BY DEF Probed
<1>2. CASE chan[tick[k].of] = "open"
  <2>1. ConnTyped' /\ UNCHANGED chan
    BY <1>2, DriverParts DEF Probed, conn, ConnTyped
  <2>2. TickTyped'
    BY <1>2, DriverParts DEF Probed, TickTyped, TickSet
  <2> QED BY <1>1, <2>1, <2>2, OnlyConnects
<1>3. CASE chan[tick[k].of] # "open"
  <2>1. /\ ConnTyped' /\ current' \in Channels
        /\ \A i \in Consumers : cons[i] # NoCons => chan'[cons[i].ch] = chan[cons[i].ch]
    BY <1>3, Connecting, DriverParts DEF Probed
  <2>2. TickTyped'
    BY <1>3, <2>1, DriverParts DEF Probed, TickTyped, TickSet
  <2> QED BY <1>1, <2>1, <2>2, OnlyConnects
<1> QED BY <1>2, <1>3

LEMMA OfPublish ==
  ASSUME DriverInv, Publish PROVE DriverInv'
<1>1. UNCHANGED <<read, task, tick, stop, losses, slipped>>
  BY DEF Publish
<1>2. /\ ConnTyped'
      /\ \A i \in Consumers : cons[i] # NoCons => chan'[cons[i].ch] = chan[cons[i].ch]
  BY Connecting, DriverParts DEF Publish
<1>3. TickTyped'
  BY <1>1, DriverParts DEF TickTyped
<1> QED BY <1>1, <1>2, <1>3, OnlyConnects

\* A channel that opens or is refused has no consumer yet.
LEMMA OfOpened ==
  ASSUME DriverInv, NEW n \in Channels, Opened(n) PROVE DriverInv'
<1>1. /\ chan[n] = "opening" /\ chan' = [chan EXCEPT ![n] = "open"]
      /\ UNCHANGED <<current, read, stop, losses, slipped>>
  BY DEF Opened
<1>2. \A m \in Channels : chan'[m] = IF m = n THEN "open" ELSE chan[m]
  BY <1>1, DriverParts DEF ConnTyped
<1>3. ConnTyped'
  BY <1>1, <1>2, DriverParts DEF ConnTyped, ChanStates
<1>4. ASSUME NEW i \in Consumers, cons[i] # NoCons
      PROVE  cons[i].ch \in Channels /\ cons[i].ch # n /\ chan'[cons[i].ch] = chan[cons[i].ch]
  BY <1>1, <1>2, <1>4, DriverParts DEF ReadTyped, ConsSet
<1>5. ReadTyped'
  BY <1>1, <1>4, DriverParts DEF read, ReadTyped
<1>6. ConsumersKnown'
  BY <1>1, <1>4, DriverParts DEF read, ConsumersKnown, Known
<1>7. ASSUME registered PROVE TaskTyped' /\ Deregistered'
  <2> DEFINE r == [task[n] EXCEPT !.phase = "start"]
  <2>1. task[n] \in TaskSet /\ n \in Tasks /\ n # Main
    BY DriverConstants, DriverParts DEF TaskTyped
  <2>2. r \in TaskSet /\ r.phase = "start"
    BY <2>1 DEF TaskSet
  <2>3. TaskFits(n, r) /\ task' = [task EXCEPT ![n] = r]
    BY <1>7, <2>1, <2>2 DEF TaskFits, Opened
  <2> HIDE DEF r
  <2>4. TaskTyped' /\ task'[Main] = task[Main]
    BY <2>1, <2>3, DriverConstants, DriverParts, TaskWritten
  <2>5. task[Main].phase # "idle" /\ registered' = registered
    BY <1>1, <1>7, DriverParts DEF Deregistered, Unstarted, read
  <2>6. Deregistered'
    BY <1>1, <1>7, <2>4, <2>5, DriverParts DEF Deregistered
  <2> QED BY <2>4, <2>6
<1>8. ASSUME ~registered PROVE TaskTyped' /\ Deregistered'
  <2>1. UNCHANGED <<task, read, stop, slipped>>
    BY <1>1, <1>8 DEF Opened
  <2>2. TaskTyped'
    BY <2>1, DriverParts DEF TaskTyped, TaskFits
  <2>3. Deregistered'
    BY <2>1, DriverParts DEF read, Deregistered, Unstarted
  <2> QED BY <2>2, <2>3
<1>9. TickTyped'
  <2>1. ASSUME NEW k \in Ticks
        PROVE  (IF tick[k].of # n THEN tick[k]
                ELSE IF tick[k].phase = "channel" THEN [tick[k] EXCEPT !.phase = "probe"] ELSE NoCall)
               \in TickSet
    <3>1. tick[k] \in TickSet
      BY DriverParts DEF TickTyped
    <3>2. tick[k] # NoCall => [tick[k] EXCEPT !.phase = "probe"] \in TickSet
      BY <3>1 DEF TickSet
    <3>3. tick[k] = NoCall => tick[k].of # n
      BY DriverConstants DEF NoCall
    <3>4. NoCall \in TickSet
      BY DEF TickSet
    <3> QED BY <3>1, <3>2, <3>3, <3>4
  <2> QED BY <2>1 DEF Opened, TickTyped
<1>10. StopTyped' /\ CountTyped'
  BY <1>1, DriverParts DEF StopTyped, CountTyped
<1> QED BY <1>3, <1>5, <1>6, <1>7, <1>8, <1>9, <1>10, DriverInvNext

\* Subscriptions that are rejected: the others are as they were.
LEMMA Rejects ==
  ASSUME TaskTyped, NEW B \in SUBSET Tasks,
         task' = [t \in Tasks |-> IF t \in B THEN Rejected(t) ELSE task[t]]
  PROVE  /\ TaskTyped'
         /\ \A t \in Tasks : task'[t].phase = "channel" => task[t].phase = "channel"
         /\ task'[Main].phase = "idle" => task[Main].phase = "idle"
<1>1. \A t \in Tasks : task'[t] = IF t \in B THEN Rejected(t) ELSE task[t]
  OBVIOUS
<1>2. \A t \in Tasks : TaskFits(t, task'[t])
  BY <1>1, ReadyFits DEF TaskTyped
<1>3. TaskTyped'
  BY <1>2 DEF TaskTyped, TaskFits
<1>4. \A t \in Tasks : task'[t].phase = "channel" => task[t].phase = "channel"
  BY <1>1, RejectedPhase
<1>5. task'[Main].phase = "idle" => task[Main].phase = "idle"
  BY <1>1, RejectedPhase, DriverConstants
<1> QED BY <1>3, <1>4, <1>5

LEMMA OfRefused ==
  ASSUME DriverInv, NEW n \in Channels, Refused(n) PROVE DriverInv'
<1> DEFINE B == {t \in Tasks : task[t].phase = "channel" /\ task[t].of = n}
<1>1. /\ chan[n] = "opening" /\ chan' = [chan EXCEPT ![n] = "refused"]
      /\ current' = Drop(n) /\ losses < MaxLosses /\ losses' = losses + 1
      /\ UNCHANGED <<read, stop, slipped>>
  BY DEF Refused, Lose
<1>2. task' = [t \in Tasks |-> IF t \in B THEN Rejected(t) ELSE task[t]]
  BY DEF Refused, Reject
<1>3. \A m \in Channels : chan'[m] = IF m = n THEN "refused" ELSE chan[m]
  BY <1>1, DriverParts DEF ConnTyped
<1>4. ConnTyped'
  BY <1>1, <1>3, DriverParts DEF ConnTyped, ChanStates, Drop
<1>5. ASSUME NEW i \in Consumers, cons[i] # NoCons
      PROVE  cons[i].ch \in Channels /\ cons[i].ch # n /\ chan'[cons[i].ch] = chan[cons[i].ch]
  BY <1>1, <1>3, <1>5, DriverParts DEF ReadTyped, ConsSet
<1>6. ReadTyped'
  BY <1>1, <1>5, DriverParts DEF read, ReadTyped
<1>7. ConsumersKnown'
  BY <1>1, <1>5, DriverParts DEF read, ConsumersKnown, Known
<1>8. B \subseteq Tasks /\ (task[Main].phase = "idle" => B = {})
  BY DriverParts DEF Deregistered, Unstarted, NoTask
<1> HIDE DEF B
<1>9. /\ TaskTyped'
      /\ \A t \in Tasks : task'[t].phase = "channel" => task[t].phase = "channel"
      /\ task'[Main].phase = "idle" => task[Main].phase = "idle"
  BY <1>2, <1>8, DriverParts, Rejects
<1>10. Deregistered'
  <2>1. Unstarted /\ B = {} => Unstarted'
    BY <1>1, <1>2 DEF Unstarted, read
  <2>2. task'[Main].phase = "idle" => Unstarted'
    BY <1>8, <1>9, <2>1, DriverParts DEF Deregistered
  <2>3. task'[Main].phase # "idle" => task[Main].phase # "idle"
    BY <1>2, <1>8, DriverConstants
  <2> QED BY <1>1, <1>9, <2>2, <2>3, DriverParts DEF Deregistered, read
<1>11. TickTyped'
  BY DriverParts DEF Refused, TickTyped, TickSet
<1>12. StopTyped'
  BY <1>1, DriverParts DEF StopTyped
<1>13. CountTyped'
  <2>1. losses' \in 0..MaxLosses
    BY <1>1, DriverConstants, DriverParts DEF CountTyped
  <2> QED BY <1>1, <2>1, DriverParts DEF CountTyped
<1> QED BY <1>4, <1>6, <1>7, <1>9, <1>10, <1>11, <1>12, <1>13, DriverInvNext

\* The consumers that are still asked for on a channel that dies are gone, and
\* so are the entries of theirs.
LEMMA OfLost ==
  ASSUME DriverInv, NEW n \in Channels, Lost(n) PROVE DriverInv'
<1> DEFINE A == {i \in Consumers : cons[i] = [st |-> "asked", ch |-> n]}
           B == {t \in Tasks : task[t].phase = "consume" /\ task[t].of \in A}
<1>1. /\ chan[n] = "open" /\ chan' = [chan EXCEPT ![n] = "closed"]
      /\ losses < MaxLosses /\ losses' = losses + 1
      /\ UNCHANGED <<current, registered, tick, slipped>>
  BY DEF Lost, Lose
<1>2. /\ cons' = [i \in Consumers |-> IF i \in A THEN NoCons ELSE cons[i]]
      /\ active' = IF active \in A THEN 0 ELSE active
      /\ superseded' = superseded \ A
      /\ task' = [t \in Tasks |-> IF t \in B THEN Rejected(t) ELSE task[t]]
      /\ stop' = IF stop.phase = "cancel" /\ stop.of \in A
                 THEN [NoCall EXCEPT !.phase = "done"] ELSE stop
  BY DEF Lost, ConsumesFail, Reject
<1>3. A \subseteq Consumers /\ B \subseteq Tasks
  OBVIOUS
<1>4. \A i \in A : cons[i] # NoCons
  BY DEF NoCons
<1>5. task[Main].phase = "idle" => A = {} /\ B = {} /\ Unstarted
  BY <1>3, <1>4, DriverParts DEF Deregistered, Unstarted
<1> HIDE DEF A, B
<1>6. \A m \in Channels : chan'[m] = IF m = n THEN "closed" ELSE chan[m]
  BY <1>1, DriverParts DEF ConnTyped
<1>7. ConnTyped'
  BY <1>1, <1>6, DriverParts DEF ConnTyped, ChanStates
<1>8. \A i \in Consumers : cons'[i] = IF i \in A THEN NoCons ELSE cons[i]
  BY <1>2
<1>9. ASSUME NEW i \in Consumers, cons'[i] # NoCons
      PROVE  /\ i \notin A /\ cons'[i] = cons[i] /\ cons[i].ch \in Channels
             /\ chan'[cons[i].ch] = "open" => chan[cons[i].ch] = "open"
             /\ chan'[cons[i].ch] \in {"open", "closed"}
  BY <1>6, <1>8, <1>9, DriverParts DEF ReadTyped, ConsSet
<1>10. ReadTyped'
  <2>1. cons' \in [Consumers -> ConsSet]
    BY <1>2, <1>8, DriverParts DEF ReadTyped, ConsSet
  <2>2. active' \in {0} \cup Consumers /\ superseded' \subseteq Consumers \ {active'}
    BY <1>2, DriverConstants, DriverParts DEF ReadTyped
  <2>3. registered' \in BOOLEAN
    BY <1>1, DriverParts DEF ReadTyped
  <2> QED BY <1>9, <2>1, <2>2, <2>3 DEF ReadTyped
<1>11. ConsumersKnown'
  <2> SUFFICES ASSUME NEW i \in Consumers, cons'[i] # NoCons, chan'[cons'[i].ch] = "open"
               PROVE  Known(i)'
    BY DEF ConsumersKnown
  <2>1. Known(i) /\ i \notin A
    BY <1>9, DriverParts DEF ConsumersKnown
  <2>2. CASE i = active /\ registered
    BY <1>1, <1>2, <2>1, <2>2 DEF Known
  <2>3. CASE i \in superseded
    BY <1>2, <2>1, <2>3 DEF Known
  <2>4. CASE stop.phase = "cancel" /\ i = stop.of
    BY <1>2, <2>1, <2>4 DEF Known
  <2>5. CASE slipped
    BY <1>1, <2>5 DEF Known
  <2> QED BY <2>1, <2>2, <2>3, <2>4, <2>5 DEF Known
<1>12. /\ TaskTyped'
       /\ \A t \in Tasks : task'[t].phase = "channel" => task[t].phase = "channel"
       /\ task'[Main].phase = "idle" => task[Main].phase = "idle"
  BY <1>2, <1>3, DriverParts, Rejects
<1>13. stop.phase # "idle" => stop'.phase # "idle"
  BY <1>2 DEF NoCall
<1>14. Deregistered'
  <2>1. Unstarted /\ A = {} /\ B = {} => Unstarted'
    BY <1>1, <1>2 DEF Unstarted
  <2>2. task'[Main].phase = "idle" => Unstarted'
    BY <1>5, <1>12, <2>1
  <2>3. task'[Main].phase # "idle" => task[Main].phase # "idle"
    BY <1>2, <1>5, DriverConstants
  <2>4. slipped' => stop'.phase # "idle"
    BY <1>1, <1>13, DriverParts DEF Deregistered
  <2>5. active = 0 => active' = 0
    BY <1>2, <1>3, DriverConstants
  <2> QED BY <1>1, <1>12, <1>13, <2>2, <2>3, <2>4, <2>5, DriverParts DEF Deregistered
<1>15. TickTyped'
  BY <1>1, DriverParts DEF TickTyped
<1>16. StopTyped'
  BY <1>2, DriverParts DEF StopTyped
<1>17. CountTyped'
  <2>1. losses' \in 0..MaxLosses
    BY <1>1, DriverConstants, DriverParts DEF CountTyped
  <2> QED BY <1>1, <2>1, DriverParts DEF CountTyped
<1> QED BY <1>7, <1>10, <1>11, <1>12, <1>14, <1>15, <1>16, <1>17, DriverInvNext

LEMMA OfConsumed ==
  ASSUME DriverInv, NEW i \in Consumers, Consumed(i) PROVE DriverInv'
<1> DEFINE B == {t \in Tasks : task[t].phase = "consume" /\ task[t].of = i}
<1>1. /\ cons[i].st = "asked" /\ cons' = [cons EXCEPT ![i].st = "live"]
      /\ task' = [t \in Tasks |-> IF t \in B THEN Over(t) ELSE task[t]]
      /\ UNCHANGED <<conn, registered, active, superseded, tick, stop, losses, slipped>>
  BY DEF Consumed
<1>2. cons[i] # NoCons /\ cons[i] \in ConsSet
  BY <1>1, DriverParts DEF NoCons, ReadTyped
<1>3. task[Main].phase # "idle"
  BY <1>2, DriverParts DEF Deregistered, Unstarted
<1> HIDE DEF B
<1>4. /\ cons'[i] = [st |-> "live", ch |-> cons[i].ch]
      /\ \A j \in Consumers : j # i => cons'[j] = cons[j]
      /\ cons' \in [Consumers -> ConsSet]
  BY <1>1, <1>2, DriverParts DEF ReadTyped, ConsSet, NoCons
<1>5. \A j \in Consumers : cons'[j] # NoCons => cons[j] # NoCons /\ cons'[j].ch = cons[j].ch
  BY <1>2, <1>4
<1>6. ConnTyped' /\ TickTyped' /\ StopTyped' /\ CountTyped'
  BY <1>1, DriverParts DEF conn, ConnTyped, TickTyped, StopTyped, CountTyped
<1>7. ReadTyped'
  BY <1>1, <1>4, <1>5, DriverParts DEF conn, ReadTyped
<1>8. ConsumersKnown'
  BY <1>1, <1>5, DriverParts DEF conn, ConsumersKnown, Known
<1>9. \A t \in Tasks : task'[t] = IF t \in B THEN Over(t) ELSE task[t]
  BY <1>1
<1>10. TaskTyped'
  <2>1. \A t \in Tasks : TaskFits(t, task'[t])
    BY <1>9, ReadyFits, DriverParts DEF TaskTyped
  <2> QED BY <1>1, <2>1 DEF TaskTyped, TaskFits
<1>11. /\ \A t \in Tasks : task'[t].phase = "channel" => task[t].phase = "channel"
       /\ task'[Main].phase # "idle"
  BY <1>3, <1>9, OverPhase, DriverConstants
<1>12. Deregistered'
  BY <1>1, <1>3, <1>11, DriverParts DEF Deregistered
<1> QED BY <1>6, <1>7, <1>8, <1>10, <1>12, DriverInvNext

\* A consumer whose cancel has been answered is gone.
LEMMA CancelledConsumer ==
  ASSUME DriverInv, NEW i \in Consumers, Cancelled(i), UNCHANGED conn
  PROVE  /\ cons' \in [Consumers -> ConsSet] /\ cons'[i] = NoCons
         /\ \A j \in Consumers : j # i => cons'[j] = cons[j]
         /\ \A j \in Consumers : cons'[j] # NoCons => chan'[cons'[j].ch] \in {"open", "closed"}
<1>1. /\ cons' \in [Consumers -> ConsSet] /\ cons'[i] = NoCons
      /\ \A j \in Consumers : j # i => cons'[j] = cons[j]
  BY DriverParts DEF Cancelled, ReadTyped, ConsSet
<1> QED BY <1>1, DriverParts DEF conn, ReadTyped

LEMMA OfCancelSuperseded ==
  ASSUME DriverInv, NEW i \in Consumers, CancelSuperseded(i) PROVE DriverInv'
<1>1. /\ Cancelled(i) /\ superseded' = superseded \ {i} /\ i \in superseded
      /\ UNCHANGED <<conn, registered, active, task, tick, stop, losses, slipped>>
  BY DEF CancelSuperseded
<1>2. /\ cons' \in [Consumers -> ConsSet] /\ cons'[i] = NoCons
      /\ \A j \in Consumers : j # i => cons'[j] = cons[j]
      /\ \A j \in Consumers : cons'[j] # NoCons => chan'[cons'[j].ch] \in {"open", "closed"}
  BY <1>1, CancelledConsumer
<1>3. ConnTyped' /\ TaskTyped' /\ TickTyped' /\ StopTyped' /\ CountTyped'
  BY <1>1, DriverParts DEF conn, ConnTyped, TaskTyped, TaskFits, TickTyped, StopTyped, CountTyped
<1>4. ReadTyped'
  BY <1>1, <1>2, DriverParts DEF ReadTyped
<1>5. Deregistered'
  BY <1>1, DriverParts DEF Deregistered, Unstarted
<1>6. ConsumersKnown'
  <2> SUFFICES ASSUME NEW j \in Consumers, cons'[j] # NoCons, chan'[cons'[j].ch] = "open"
               PROVE  Known(j)'
    BY DEF ConsumersKnown
  <2>1. j # i /\ Known(j)
    BY <1>1, <1>2, DriverParts DEF conn, ConsumersKnown
  <2> QED BY <1>1, <2>1 DEF Known
<1> QED BY <1>3, <1>4, <1>5, <1>6, DriverInvNext

LEMMA OfCancel ==
  ASSUME DriverInv, Cancel PROVE DriverInv'
<1> DEFINE i == stop.of
<1>1. /\ stop.phase = "cancel" /\ Cancelled(i) /\ stop' = [NoCall EXCEPT !.phase = "done"]
      /\ UNCHANGED <<conn, registered, active, superseded, task, tick, losses, slipped>>
  BY DEF Cancel
<1>2. i \in Consumers
  BY <1>1, DriverParts DEF StopTyped, NoCall
<1> HIDE DEF i
<1>3. /\ cons' \in [Consumers -> ConsSet] /\ cons'[i] = NoCons
      /\ \A j \in Consumers : j # i => cons'[j] = cons[j]
      /\ \A j \in Consumers : cons'[j] # NoCons => chan'[cons'[j].ch] \in {"open", "closed"}
  BY <1>1, <1>2, CancelledConsumer
<1>4. ConnTyped' /\ TaskTyped' /\ TickTyped' /\ StopTyped' /\ CountTyped'
  BY <1>1, DriverParts DEF conn, ConnTyped, TaskTyped, TaskFits, TickTyped, StopTyped, CountTyped
<1>5. ReadTyped'
  BY <1>1, <1>3, DriverParts DEF ReadTyped
<1>6. stop'.phase # "idle" /\ task[Main].phase # "idle"
  BY <1>1, DriverParts DEF NoCall, Deregistered, Unstarted
<1>7. Deregistered'
  BY <1>1, <1>6, DriverParts DEF Deregistered
<1>8. ConsumersKnown'
  <2> SUFFICES ASSUME NEW j \in Consumers, cons'[j] # NoCons, chan'[cons'[j].ch] = "open"
               PROVE  Known(j)'
    BY DEF ConsumersKnown
  <2>1. j # i /\ Known(j)
    BY <1>1, <1>3, DriverParts DEF conn, ConsumersKnown
  <2> QED BY <1>1, <2>1 DEF Known, i
<1> QED BY <1>4, <1>5, <1>7, <1>8, DriverInvNext

\* What was entered is what unsubscribe is going to cancel.
LEMMA OfUnsubscribe ==
  ASSUME DriverInv, Unsubscribe PROVE DriverInv'
<1>1. /\ task[Main].phase = "done" /\ stop.phase = "idle" /\ registered' = FALSE /\ active' = 0
      /\ stop' = IF active = 0 THEN [NoCall EXCEPT !.phase = "done"]
                 ELSE [phase |-> "cancel", of |-> active]
      /\ slipped' = \E t \in Tasks : task[t].phase = "channel"
      /\ UNCHANGED <<conn, cons, superseded, task, tick, losses>>
  BY DEF Unsubscribe
<1>2. registered /\ ~slipped
  BY <1>1, DriverParts DEF Deregistered
<1>3. ConnTyped' /\ TaskTyped' /\ TickTyped'
  BY <1>1, DriverParts DEF conn, ConnTyped, TaskTyped, TaskFits, TickTyped
<1>4. ReadTyped'
  BY <1>1, DriverConstants, DriverParts DEF conn, ReadTyped
<1>5. StopTyped' /\ stop'.phase # "idle"
  BY <1>1, DriverParts DEF StopTyped, ReadTyped, NoCall
<1>6. CountTyped'
  <2>1. slipped' \in BOOLEAN
    BY <1>1
  <2> QED BY <1>1, <2>1, DriverParts DEF CountTyped
<1>7. Deregistered'
  <2>1. ~slipped' => \A t \in Tasks : task'[t].phase # "channel"
    BY <1>1
  <2> QED BY <1>1, <1>5, <2>1 DEF Deregistered
<1>8. ConsumersKnown'
  <2> SUFFICES ASSUME NEW j \in Consumers, cons'[j] # NoCons, chan'[cons'[j].ch] = "open"
               PROVE  Known(j)'
    BY DEF ConsumersKnown
  <2>1. Known(j)
    BY <1>1, DriverParts DEF conn, ConsumersKnown
  <2>2. j = active \/ j \in superseded
    BY <1>1, <1>2, <2>1 DEF Known
  <2>3. CASE j = active
    BY <1>1, <2>3, DriverConstants DEF Known
  <2>4. CASE j \in superseded
    BY <1>1, <2>4 DEF Known
  <2> QED BY <2>2, <2>3, <2>4
<1> QED BY <1>3, <1>4, <1>5, <1>6, <1>7, <1>8, DriverInvNext

LEMMA OfStopWithout ==
  ASSUME DriverInv, StopWithout PROVE DriverInv'
<1>1. /\ task[Main].phase = "failed" /\ stop.phase = "idle"
      /\ stop' = [NoCall EXCEPT !.phase = "done"]
      /\ UNCHANGED <<conn, read, task, tick, losses, slipped>>
  BY DEF StopWithout
<1>2. ConnTyped' /\ ReadTyped' /\ TaskTyped' /\ TickTyped' /\ StopTyped' /\ CountTyped'
  BY <1>1, DriverParts
     DEF conn, read, ConnTyped, ReadTyped, TaskTyped, TaskFits, TickTyped, StopTyped, CountTyped
<1>3. stop'.phase # "idle"
  BY <1>1 DEF NoCall
<1>4. Deregistered'
  BY <1>1, <1>3, DriverParts DEF read, Deregistered
<1>5. ConsumersKnown'
  BY <1>1, DriverParts DEF conn, read, ConsumersKnown, Known
<1> QED BY <1>2, <1>4, <1>5, DriverInvNext

LEMMA OfRestart ==
  ASSUME DriverInv, Restart PROVE DriverInv'
<1>1. /\ chan' = [n \in Channels |-> "none"] /\ current' = 0
      /\ registered' = FALSE /\ active' = 0 /\ superseded' = {}
      /\ cons' = [i \in Consumers |-> NoCons]
      /\ task' = [t \in Tasks |-> NoTask]
      /\ tick' = [k \in Ticks |-> NoCall] /\ stop' = NoCall
      /\ slipped' = FALSE /\ UNCHANGED losses
  BY DEF Restart
<1>2. ConnTyped'
  BY <1>1 DEF ConnTyped, ChanStates
<1>3. ReadTyped'
  BY <1>1 DEF ReadTyped, ConsSet
<1>4. TaskTyped'
  <2>1. \A t \in Tasks : TaskFits(t, NoTask)
    BY ReadyFits
  <2> QED BY <1>1, <2>1 DEF TaskTyped, TaskFits
<1>5. TickTyped' /\ StopTyped'
  BY <1>1 DEF TickTyped, TickSet, StopTyped
<1>6. CountTyped'
  BY <1>1, DriverParts DEF CountTyped
<1>7. Unstarted'
  BY <1>1 DEF Unstarted
<1>8. task'[Main].phase = "idle"
  BY <1>1, DriverConstants DEF NoTask
<1>9. Deregistered'
  BY <1>1, <1>7, <1>8 DEF Deregistered
<1>10. ConsumersKnown'
  BY <1>1 DEF ConsumersKnown
<1> QED BY <1>2, <1>3, <1>4, <1>5, <1>6, <1>9, <1>10, DriverInvNext

-----------------------------------------------------------------------------
LEMMA DriverStep == DriverInv /\ [DriverNext]_driverVars => DriverInv'
<1> SUFFICES ASSUME DriverInv, [DriverNext]_driverVars PROVE DriverInv'
  OBVIOUS
<1>1. CASE Subscribe BY <1>1, OfSubscribe
<1>2. CASE Publish BY <1>2, OfPublish
<1>3. CASE Unsubscribe BY <1>3, OfUnsubscribe
<1>4. CASE Cancel BY <1>4, OfCancel
<1>5. CASE StopWithout BY <1>5, OfStopWithout
<1>6. CASE Restart BY <1>6, OfRestart
<1>7. ASSUME NEW t \in Tasks, Subscriber(t) PROVE DriverInv'
  BY <1>7, OfChannelReady, OfResubscribe DEF Subscriber
<1>8. ASSUME NEW n \in Channels, Broker(n) \/ Lost(n) PROVE DriverInv'
  BY <1>8, OfOpened, OfRefused, OfLost DEF Broker
<1>9. ASSUME NEW i \in Consumers, Consumer(i) PROVE DriverInv'
  BY <1>9, OfConsumed, OfCancelSuperseded DEF Consumer
<1>10. ASSUME NEW k \in Ticks, Prober(k) PROVE DriverInv'
  BY <1>10, OfKeepAlive, OfProbed DEF Prober
<1>11. CASE UNCHANGED driverVars
  <2>1. UNCHANGED <<chan, current, registered, cons, active, superseded, task, tick, stop, losses, slipped>>
    BY <1>11 DEF driverVars, conn, read
  <2>2. ConnTyped' /\ ReadTyped' /\ TaskTyped' /\ TickTyped' /\ StopTyped' /\ CountTyped'
    BY <2>1, DriverParts DEF ConnTyped, ReadTyped, TaskTyped, TaskFits, TickTyped, StopTyped, CountTyped
  <2>3. Deregistered' /\ ConsumersKnown'
    BY <2>1, DriverParts DEF Deregistered, Unstarted, ConsumersKnown, Known
  <2> QED BY <2>2, <2>3, DriverInvNext
<1> QED BY <1>1, <1>2, <1>3, <1>4, <1>5, <1>6, <1>7, <1>8, <1>9, <1>10, <1>11 DEF DriverNext

LEMMA DriverInvHolds == DriverSpec => []DriverInv
  BY DriverInvInit, DriverStep, PTL DEF DriverSpec

\* Every await of the driver is of a channel or a consumer that exists, no
\* refused channel is cached, and consumers are asked for on opened channels
\* only, however many channels are lost and probes overlap.
THEOREM DriverTypeCorrect == DriverSpec => []DriverTypeOK
<1>1. DriverInv => DriverTypeOK
  BY DEF DriverInv
<1> QED BY <1>1, DriverInvHolds, PTL

\* No consumer delivers behind the driver's back: what the broker serves is
\* entered for a registered callback or is about to be cancelled, but for an
\* unsubscribe that a waiting re-subscription slipped past.
THEOREM NoneStrays == DriverSpec => []NoStrayConsumer
<1>1. DriverInv => NoStrayConsumer
  <2> SUFFICES ASSUME DriverInv, NEW i \in Consumers, Serving(i) PROVE Known(i)
    BY DEF NoStrayConsumer, Known
  <2>1. cons[i] # NoCons /\ chan[cons[i].ch] = "open"
    BY DEF Serving, NoCons
  <2> QED BY <2>1 DEF DriverInv, ConsumersKnown
<1> QED BY <1>1, DriverInvHolds, PTL
=============================================================================
