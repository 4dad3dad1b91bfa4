-------------------------- MODULE MigrationProofs --------------------------
(***************************************************************************)
(* Theorems about Migration for any number of uploads, of the same or of   *)
(* different contents, any finite number of delivery slots, any batch size *)
(* and any number of faults: the model is well typed, no node is lost,     *)
(* published rows stay or are written again, and no node is in the table   *)
(* more often than its content was uploaded.                               *)
(***************************************************************************)
EXTENDS Migration, FiniteSetTheorems, TLAPS

Present(k) == fresh[k] + published[k] > 0

(***************************************************************************)
(* The inductive invariant                                                 *)
(***************************************************************************)
\* The rows a run has already written since it cleared the object.
Saved(h) ==
  \A k \in RowsOf(Object(h)) :
    \/ k.head < run[h].member
    \/ k.head = run[h].member /\ \E n \in 1..run[h].at : Content[Object(h)][k.head][n] = k.cid
    => Present(k)

\* What each phase of a run knows of its upload and of its place in it.
PhaseHolds(h) ==
  LET u == run[h].upload  o == ObjectOf[u]
  IN /\ run[h].phase \in {"read", "clear"} => run[h].member = 1 /\ run[h].at = 0
     /\ run[h].phase \in {"clear", "save", "blocks", "rows", "tag"} => o \in Recorded
     /\ run[h].phase \in {"clear", "save", "blocks"} => u \in blocks
     /\ run[h].phase = "save" => /\ run[h].member \in DOMAIN Content[o]
                                 /\ run[h].at < Len(Content[o][run[h].member])
     /\ run[h].phase \in {"rows", "tag"} => u \notin blocks
     /\ run[h].phase = "park" => u \notin blocks \/ o \notin Recorded

PhasesHold == \A h \in Handlers : Busy(h) => PhaseHolds(h)

\* An upload loses its blocks only in a run, and MIGRATING only after that.
BlocksHold ==
  \A u \in Uploads :
    /\ ObjectOf[u] \notin Recorded => u \in blocks
    /\ u \in blocks => status[u] # "GONE"
    /\ u \in blocks /\ ObjectOf[u] \in Recorded => status[u] = "MIGRATING"

\* An upload that can still restore its object: it has its blocks, and no run
\* on it has been overtaken by one that cleared the object again.
Sound(v) ==
  /\ v \in blocks
  /\ \A h \in Handlers :
       Busy(h) /\ run[h].upload = v =>
         /\ run[h].phase = "save" => Saved(h)
         /\ run[h].phase = "blocks" => Complete(ObjectOf[v])

Safe(o) == Complete(o) \/ \E v \in Uploads : ObjectOf[v] = o /\ Sound(v)

ObjectsSafe == \A u \in Uploads : ObjectOf[u] \in Recorded => Safe(ObjectOf[u])

Inv == TypeOK /\ PhasesHold /\ BlocksHold /\ ObjectsSafe

(***************************************************************************)
(* Data                                                                    *)
(***************************************************************************)
\* A row of an object names one of its blockstores and a CID found there.
LEMMA RowFacts ==
  ASSUME NEW o \in Objects, NEW k \in RowsOf(o)
  PROVE  /\ k \in Rows /\ k.root = o
         /\ k.head \in 1..Len(Content[o])
         /\ \E n \in 1..Len(Content[o][k.head]) : Content[o][k.head][n] = k.cid
<1>1. PICK m \in DOMAIN Content[o] :
        k \in {[root |-> o, head |-> m, cid |-> c] : c \in Range(Content[o][m])}
  BY DEF RowsOf
<1>2. PICK c \in Range(Content[o][m]) : k = [root |-> o, head |-> m, cid |-> c]
  BY <1>1
<1>3. Content[o] \in Seq(Seq(Cids)) /\ Content[o][m] \in Seq(Cids)
  BY MigrationConstants
<1>4. \E n \in DOMAIN Content[o][m] : Content[o][m][n] = c
  BY <1>2 DEF Range
<1>5. k \in Rows
  BY DEF Rows
<1> QED BY <1>2, <1>3, <1>4, <1>5

\* A blockstore sequence of an object is not empty.
LEMMA ContentFacts ==
  ASSUME NEW o \in Objects
  PROVE  /\ Len(Content[o]) \in Nat \ {0} /\ DOMAIN Content[o] = 1..Len(Content[o])
         /\ \A m \in DOMAIN Content[o] : Len(Content[o][m]) \in Nat \ {0}
<1>1. Content[o] \in Seq(Seq(Cids) \ {<<>>}) /\ Content[o] # <<>>
  BY MigrationConstants
<1>2. Len(Content[o]) \in Nat \ {0} /\ DOMAIN Content[o] = 1..Len(Content[o])
  BY <1>1
<1>3. ASSUME NEW m \in DOMAIN Content[o] PROVE Len(Content[o][m]) \in Nat \ {0}
  <2>1. Content[o][m] \in Seq(Cids) /\ Content[o][m] # <<>>
    BY <1>1
  <2> QED BY <2>1
<1> QED BY <1>2, <1>3

\* The number of messages of an upload is a number.
LEMMA LoadTyped ==
  ASSUME TypeOK, NEW u \in Uploads PROVE Load(u) \in Nat
<1>1. Holding(u) \subseteq Handlers
  BY DEF Holding
<1>2. IsFiniteSet(Holding(u))
  BY <1>1, MigrationConstants, FS_Subset
<1> QED BY <1>2, FS_CardinalityType DEF Load, TypeOK

(***************************************************************************)
(* Initial states                                                          *)
(***************************************************************************)
LEMMA InitInv == Init => Inv
<1> SUFFICES ASSUME Init PROVE Inv
  OBVIOUS
<1>1. TypeOK
  <2>1. run \in [Handlers -> RunTypes] /\ \A h \in Handlers : ~Busy(h)
    BY DEF Init, RunTypes, Busy
  <2>2. tasks \in [Uploads -> Nat]
    BY DEF Init
  <2>3. fresh \in [Rows -> Nat] /\ published \in [Rows -> Nat]
    BY DEF Init
  <2>4. faults \in 0..MaxFaults
    BY MigrationConstants DEF Init
  <2> QED BY <2>1, <2>2, <2>3, <2>4 DEF Init, TypeOK
<1>2. PhasesHold
  BY DEF Init, PhasesHold, Busy
<1>3. BlocksHold
  BY DEF Init, BlocksHold
<1>4. ObjectsSafe
  BY DEF Init, ObjectsSafe, Safe, Sound, Busy
<1> QED BY <1>1, <1>2, <1>3, <1>4 DEF Inv

(***************************************************************************)
(* Steps: what each does to the runs                                       *)
(***************************************************************************)
\* A busy slot has a run of the right type.
LEMMA RunTyped ==
  ASSUME TypeOK, NEW h \in Handlers, Busy(h)
  PROVE  /\ run[h] \in [phase : {"read", "clear", "save", "blocks", "rows", "tag", "park"},
                         upload : Uploads, member : Nat \ {0}, at : Nat, unacked : BOOLEAN]
         /\ run[h].upload \in Uploads /\ Object(h) \in Objects
<1>1. run[h] \in RunTypes /\ run[h] # Idle
  BY DEF TypeOK, Busy
<1>2. run[h] \in [phase : {"read", "clear", "save", "blocks", "rows", "tag", "park"},
                  upload : Uploads, member : Nat \ {0}, at : Nat, unacked : BOOLEAN]
  BY <1>1 DEF RunTypes
<1> QED BY <1>2, MigrationConstants DEF Object

\* A slot that has a phase other than idle is busy.
LEMMA PhaseBusy ==
  ASSUME NEW h \in Handlers, run[h].phase \in {"read", "clear", "save", "blocks", "rows", "tag", "park"}
  PROVE  Busy(h)
BY DEF Busy, Idle

\* Steps that only end runs (all of them, or some) keep the runs well typed.
LEMMA EndTyped ==
  ASSUME TypeOK, NEW h \in Handlers, End(h)
  PROVE  /\ run' \in [Handlers -> RunTypes]
         /\ \A f, g \in Handlers : (f # g /\ Busy(f)' /\ Busy(g)') => run'[f].upload # run'[g].upload
         /\ \A g \in Handlers : Busy(g)' => g # h /\ Busy(g) /\ run'[g] = run[g]
BY DEF End, TypeOK, RunTypes, Busy

\* A step of one run to another phase keeps the runs well typed.
LEMMA StepTyped ==
  ASSUME TypeOK, NEW h \in Handlers, Busy(h),
         NEW phase \in {"read", "clear", "save", "blocks", "rows", "tag", "park"}, Step(h, phase)
  PROVE  /\ run' \in [Handlers -> RunTypes]
         /\ \A f, g \in Handlers : (f # g /\ Busy(f)' /\ Busy(g)') => run'[f].upload # run'[g].upload
         /\ \A g \in Handlers : Busy(g)' => Busy(g) /\ (g # h => run'[g] = run[g])
         /\ run'[h] = [run[h] EXCEPT !.phase = phase]
         /\ run'[h].phase = phase /\ run'[h].upload = run[h].upload
         /\ run'[h].member = run[h].member /\ run'[h].at = run[h].at
<1>1. run[h] \in [phase : {"read", "clear", "save", "blocks", "rows", "tag", "park"},
                  upload : Uploads, member : Nat \ {0}, at : Nat, unacked : BOOLEAN]
  BY RunTyped
<1>2. /\ run' \in [Handlers -> RunTypes] /\ run'[h] = [run[h] EXCEPT !.phase = phase]
      /\ \A g \in Handlers : g # h => run'[g] = run[g]
  BY <1>1 DEF Step, TypeOK, RunTypes
<1>3. /\ run'[h].phase = phase /\ run'[h].upload = run[h].upload
      /\ run'[h].member = run[h].member /\ run'[h].at = run[h].at
  BY <1>1, <1>2
<1>4. \A g \in Handlers : Busy(g)' => Busy(g) /\ (g # h => run'[g] = run[g])
  BY <1>2 DEF Busy
<1>5. ASSUME NEW f \in Handlers, NEW g \in Handlers, f # g, Busy(f)', Busy(g)'
      PROVE  run'[f].upload # run'[g].upload
  <2>1. run'[f].upload = run[f].upload /\ run'[g].upload = run[g].upload
    BY <1>2, <1>3
  <2> QED BY <2>1, <1>4, <1>5 DEF TypeOK
<1> QED BY <1>2, <1>3, <1>4, <1>5

\* A slot does or knows nothing new in a step: its run goes on as it was.
Same(g) ==
  /\ Busy(g) /\ run'[g].phase = run[g].phase /\ run'[g].upload = run[g].upload
  /\ run'[g].member = run[g].member /\ run'[g].at = run[g].at

\* Steps that touch neither blocks nor rows, and start no phase that relies on
\* rows, keep what the runs know and every object safe.
LEMMA Quiet ==
  ASSUME Inv, UNCHANGED <<blocks, fresh, published>>,
         \A g \in Handlers : Busy(g)' =>
           Same(g) \/ (PhaseHolds(g)' /\ run'[g].phase \notin {"save", "blocks"})
  PROVE  PhasesHold' /\ ObjectsSafe'
<1>1. ASSUME NEW g \in Handlers, Busy(g)' PROVE PhaseHolds(g)'
  <2>1. CASE Same(g)
    <3>1. PhaseHolds(g)
      BY <2>1 DEF Inv, PhasesHold, Same
    <3> QED BY <2>1, <3>1 DEF Same, PhaseHolds
  <2> QED BY <1>1, <2>1
<1>2. ASSUME NEW g \in Handlers, Same(g), Saved(g) PROVE Saved(g)'
  BY <1>2 DEF Same, Saved, Object, Present
<1>3. \A o \in Objects : Complete(o) => Complete(o)'
  BY DEF Complete
<1>4. ASSUME NEW v \in Uploads, Sound(v) PROVE Sound(v)'
  <2>1. ASSUME NEW g \in Handlers, Busy(g)', run'[g].upload = v, run'[g].phase \in {"save", "blocks"}
        PROVE  /\ Same(g) /\ run[g].upload = v
               /\ run[g].phase = "save" => Saved(g)
               /\ run[g].phase = "blocks" => Complete(ObjectOf[v])
    <3>1. Same(g)
      BY <2>1
    <3> QED BY <3>1, <2>1, <1>4 DEF Same, Sound
  <2>2. v \in blocks'
    BY <1>4 DEF Sound
  <2>3. ObjectOf[v] \in Objects
    BY MigrationConstants
  <2> QED BY <2>1, <2>2, <2>3, <1>2, <1>3 DEF Sound, Same
<1>5. ASSUME NEW u \in Uploads, ObjectOf[u] \in Recorded PROVE Safe(ObjectOf[u])'
  <2>1. Safe(ObjectOf[u]) /\ ObjectOf[u] \in Objects
    BY <1>5, MigrationConstants DEF Inv, ObjectsSafe
  <2> QED BY <2>1, <1>3, <1>4 DEF Safe
<1> QED BY <1>1, <1>5 DEF PhasesHold, ObjectsSafe

(***************************************************************************)
(* One lemma per action: it keeps the invariant                            *)
(***************************************************************************)
LEMMA DeliverInv ==
  ASSUME Inv, NEW h \in Handlers, NEW u \in Uploads, Deliver(h, u)
  PROVE  Inv'
<1> DEFINE new == [phase |-> "read", upload |-> u, member |-> 1, at |-> 0, unacked |-> TRUE]
<1>1. TypeOK
  BY DEF Inv
<1>2. /\ new \in RunTypes
      /\ run' = [run EXCEPT ![h] = new] /\ run'[h] = new
      /\ \A g \in Handlers : g # h => run'[g] = run[g]
  BY <1>1 DEF Deliver, TypeOK, RunTypes
<1>3. \A g \in Handlers : g # h /\ Busy(g)' => Same(g) /\ run[g].upload # u
  BY <1>2 DEF Deliver, Same, Busy, InFlight
<1>4. TypeOK'
  <2>1. tasks' \in [Uploads -> Nat]
    BY <1>1 DEF Deliver, TypeOK
  <2>2. run' \in [Handlers -> RunTypes]
    BY <1>1, <1>2 DEF TypeOK
  <2>3. \A f, g \in Handlers : (f # g /\ Busy(f)' /\ Busy(g)') => run'[f].upload # run'[g].upload
    BY <1>1, <1>2, <1>3 DEF TypeOK, Same
  <2> QED BY <1>1, <2>1, <2>2, <2>3 DEF Deliver, TypeOK, uploads, nodes, outbox, Busy
<1>5. PhaseHolds(h)' /\ run'[h].phase \notin {"save", "blocks"}
  BY <1>2 DEF PhaseHolds
<1>6. PhasesHold' /\ ObjectsSafe'
  <2>1. \A g \in Handlers : Busy(g)' =>
          Same(g) \/ (PhaseHolds(g)' /\ run'[g].phase \notin {"save", "blocks"})
    BY <1>3, <1>5
  <2>2. UNCHANGED <<blocks, fresh, published>>
    BY DEF Deliver, uploads, nodes
  <2> QED BY <2>1, <2>2, Quiet
<1>7. BlocksHold'
  BY DEF Inv, BlocksHold, Deliver, uploads
<1> QED BY <1>4, <1>6, <1>7 DEF Inv

\* Steps that leave run, blocks and rows alone.
LEMMA IdleInv ==
  ASSUME Inv, UNCHANGED <<status, blocks, fresh, published, run>>,
         stale' \subseteq Uploads, tasks' \in [Uploads -> Nat], sweep' \subseteq Uploads,
         tags' \subseteq Objects, onchain' \subseteq {k.cid : k \in Rows}, faults' \in 0..MaxFaults
  PROVE  Inv'
<1>1. TypeOK'
  BY DEF Inv, TypeOK, Busy
<1>2. \A g \in Handlers : Busy(g)' => Same(g)
  BY DEF Same, Busy
<1>3. PhasesHold' /\ ObjectsSafe'
  BY <1>2, Quiet
<1>4. BlocksHold'
  BY DEF Inv, BlocksHold
<1> QED BY <1>1, <1>3, <1>4 DEF Inv

LEMMA FaultTyped ==
  ASSUME TypeOK, Fault PROVE faults' \in 0..MaxFaults
BY MigrationConstants DEF TypeOK, Fault

\* Steps that end runs or move none of them to a phase that relies on rows.
LEMMA RunInv ==
  ASSUME Inv, UNCHANGED <<blocks, fresh, published>>, BlocksHold',
         status' \in [Uploads -> {"MIGRATING", "FAILED", "GONE"}],
         run' \in [Handlers -> RunTypes],
         \A f, g \in Handlers : (f # g /\ Busy(f)' /\ Busy(g)') => run'[f].upload # run'[g].upload,
         \A g \in Handlers : Busy(g)' =>
           Same(g) \/ (PhaseHolds(g)' /\ run'[g].phase \notin {"save", "blocks"}),
         stale' \subseteq Uploads, tasks' \in [Uploads -> Nat], sweep' \subseteq Uploads,
         tags' \subseteq Objects, onchain' = onchain, faults' \in 0..MaxFaults
  PROVE  Inv'
<1>1. TypeOK'
  BY DEF Inv, TypeOK, Busy
<1>2. PhasesHold' /\ ObjectsSafe'
  BY Quiet
<1> QED BY <1>1, <1>2 DEF Inv

LEMMA SkipInv ==
  ASSUME Inv, NEW h \in Handlers, NEW u \in Uploads, Skip(h, u)
  PROVE  Inv'
<1>1. tasks' \in [Uploads -> Nat]
  BY DEF Skip, Inv, TypeOK
<1> QED BY <1>1, IdleInv DEF Skip, Inv, TypeOK, uploads, nodes, outbox

LEMMA ResolveInv ==
  ASSUME Inv, NEW h \in Handlers, Resolve(h)
  PROVE  Inv'
<1> DEFINE u == run[h].upload
           next == IF HasRoot(u) /\ ObjectOf[u] \in Recorded THEN "clear" ELSE "park"
<1>1. TypeOK /\ Busy(h) /\ u \in Uploads /\ Step(h, next)
  BY PhaseBusy, RunTyped DEF Inv, Resolve
<1>2. /\ run' \in [Handlers -> RunTypes]
      /\ \A f, g \in Handlers : (f # g /\ Busy(f)' /\ Busy(g)') => run'[f].upload # run'[g].upload
      /\ \A g \in Handlers : Busy(g)' => Busy(g) /\ (g # h => run'[g] = run[g])
      /\ run'[h].phase = next /\ run'[h].upload = u
      /\ run'[h].member = run[h].member /\ run'[h].at = run[h].at
  BY <1>1, StepTyped
<1>3. PhaseHolds(h)'
  <2>1. run[h].member = 1 /\ run[h].at = 0
    BY <1>1 DEF Resolve, Inv, PhasesHold, PhaseHolds
  <2>2. next = "clear" => u \in blocks /\ ObjectOf[u] \in Recorded
    BY DEF HasRoot
  <2>3. next = "park" => u \notin blocks \/ ObjectOf[u] \notin Recorded
    BY <1>1 DEF HasRoot, Inv, BlocksHold
  <2>4. blocks' = blocks
    BY DEF Resolve, uploads
  <2> QED BY <1>2, <2>1, <2>2, <2>3, <2>4 DEF PhaseHolds
<1>4. \A g \in Handlers : Busy(g)' =>
        Same(g) \/ (PhaseHolds(g)' /\ run'[g].phase \notin {"save", "blocks"})
  BY <1>2, <1>3 DEF Same
<1>5. BlocksHold'
  BY DEF Inv, BlocksHold, Resolve, uploads
<1> QED BY <1>1, <1>2, <1>4, <1>5, RunInv DEF Resolve, Inv, TypeOK, uploads, nodes, outbox

LEMMA deleteRowsInv ==
  ASSUME Inv, NEW h \in Handlers, deleteEntriesByRootUploadId(h)
  PROVE  Inv'
<1> DEFINE u == run[h].upload
<1>1. TypeOK /\ Busy(h) /\ u \in Uploads /\ Step(h, "tag")
  BY PhaseBusy, RunTyped DEF Inv, deleteEntriesByRootUploadId
<1>2. /\ run' \in [Handlers -> RunTypes]
      /\ \A f, g \in Handlers : (f # g /\ Busy(f)' /\ Busy(g)') => run'[f].upload # run'[g].upload
      /\ \A g \in Handlers : Busy(g)' => Busy(g) /\ (g # h => run'[g] = run[g])
      /\ run'[h].phase = "tag" /\ run'[h].upload = u
  BY <1>1, StepTyped
<1>3. u \notin blocks /\ ObjectOf[u] \in Recorded
  BY <1>1 DEF deleteEntriesByRootUploadId, Inv, PhasesHold, PhaseHolds
<1>4. PhaseHolds(h)'
  BY <1>2, <1>3 DEF PhaseHolds, deleteEntriesByRootUploadId
<1>5. \A g \in Handlers : Busy(g)' =>
        Same(g) \/ (PhaseHolds(g)' /\ run'[g].phase \notin {"save", "blocks"})
  BY <1>2, <1>4 DEF Same
<1>6. status' \in [Uploads -> {"MIGRATING", "FAILED", "GONE"}]
  BY <1>1 DEF deleteEntriesByRootUploadId, TypeOK
<1>7. BlocksHold'
  BY <1>1, <1>3 DEF Inv, BlocksHold, deleteEntriesByRootUploadId, TypeOK
<1> QED BY <1>1, <1>2, <1>5, <1>6, <1>7, RunInv
        DEF deleteEntriesByRootUploadId, Inv, TypeOK, nodes, outbox

\* Steps that end one run.
LEMMA EndSame ==
  ASSUME TypeOK, NEW h \in Handlers, End(h)
  PROVE  \A g \in Handlers : Busy(g)' => Same(g)
BY EndTyped DEF Same

LEMMA TagInv ==
  ASSUME Inv, NEW h \in Handlers, scheduleUploadTagging(h)
  PROVE  Inv'
<1>1. TypeOK /\ Busy(h) /\ Object(h) \in Objects /\ End(h)
  BY PhaseBusy, RunTyped DEF Inv, scheduleUploadTagging
<1>2. tags' \subseteq Objects /\ faults' \in 0..MaxFaults
  BY <1>1, FaultTyped DEF scheduleUploadTagging, TypeOK
<1>3. BlocksHold'
  BY DEF Inv, BlocksHold, scheduleUploadTagging, uploads
<1> QED BY <1>1, <1>2, <1>3, EndTyped, EndSame, RunInv
        DEF scheduleUploadTagging, TypeOK, uploads, nodes

LEMMA ParkInv ==
  ASSUME Inv, NEW h \in Handlers, Park(h)
  PROVE  Inv'
<1> DEFINE u == run[h].upload
<1>1. TypeOK /\ Busy(h) /\ u \in Uploads /\ End(h)
  BY PhaseBusy, RunTyped DEF Inv, Park
<1>2. u \notin blocks \/ ObjectOf[u] \notin Recorded
  BY <1>1 DEF Park, Inv, PhasesHold, PhaseHolds
<1>3. faults' \in 0..MaxFaults /\ stale' \subseteq Uploads
  BY <1>1, FaultTyped DEF Park, TypeOK
<1>4. status' \in [Uploads -> {"MIGRATING", "FAILED", "GONE"}]
  BY <1>1 DEF Park, TypeOK
<1>5. BlocksHold'
  BY <1>1, <1>2 DEF Inv, BlocksHold, Park, TypeOK
<1> QED BY <1>1, <1>3, <1>4, <1>5, EndTyped, EndSame, RunInv
        DEF Park, TypeOK, nodes, outbox

LEMMA QueryFailsInv ==
  ASSUME Inv, NEW h \in Handlers, QueryFails(h)
  PROVE  Inv'
<1>1. TypeOK /\ Busy(h) /\ run[h].upload \in Uploads /\ End(h)
  BY RunTyped DEF Inv, QueryFails
<1>2. faults' \in 0..MaxFaults /\ tasks' \in [Uploads -> Nat]
  BY <1>1, FaultTyped DEF QueryFails, TypeOK
<1>3. BlocksHold'
  BY DEF Inv, BlocksHold, QueryFails, uploads
<1> QED BY <1>1, <1>2, <1>3, EndTyped, EndSame, RunInv
        DEF QueryFails, TypeOK, uploads, nodes, outbox

LEMMA RedeliverInv ==
  ASSUME Inv, Redeliver
  PROVE  Inv'
<1>1. TypeOK
  BY DEF Inv
<1>2. \A u \in Uploads : Load(u) \in Nat
  BY <1>1, LoadTyped
<1>3. ASSUME NEW g \in Handlers, Busy(g)
      PROVE  /\ run'[g] \in RunTypes /\ Same(g)
  <2>1. run'[g] = [run[g] EXCEPT !.unacked = FALSE]
    BY <1>3 DEF Redeliver
  <2> QED BY <1>1, <1>3, <2>1, RunTyped DEF Same, RunTypes
<1>4. ASSUME NEW g \in Handlers, ~Busy(g) PROVE run'[g] = Idle /\ ~Busy(g)'
  BY <1>4 DEF Redeliver, Busy
<1>5. run' \in [Handlers -> RunTypes]
  <2>1. \A g \in Handlers : run'[g] \in RunTypes
    BY <1>3, <1>4 DEF RunTypes
  <2> QED BY <2>1 DEF Redeliver
<1>6. \A f, g \in Handlers : (f # g /\ Busy(f)' /\ Busy(g)') => run'[f].upload # run'[g].upload
  BY <1>1, <1>3, <1>4 DEF TypeOK, Same
<1>7. tasks' \in [Uploads -> Nat] /\ faults' \in 0..MaxFaults
  BY <1>1, <1>2, FaultTyped DEF Redeliver
<1>8. BlocksHold'
  BY DEF Inv, BlocksHold, Redeliver, uploads
<1> QED BY <1>1, <1>3, <1>4, <1>5, <1>6, <1>7, <1>8, RunInv
        DEF Redeliver, TypeOK, uploads, nodes, outbox

LEMMA CrashInv ==
  ASSUME Inv, Crash
  PROVE  Inv'
<1>1. TypeOK
  BY DEF Inv
<1>2. tasks' \in [Uploads -> Nat] /\ faults' \in 0..MaxFaults
  BY <1>1, LoadTyped, FaultTyped DEF Crash
<1>3. run' \in [Handlers -> RunTypes] /\ \A g \in Handlers : ~Busy(g)'
  BY DEF Crash, RunTypes, Busy
<1>4. BlocksHold'
  BY DEF Inv, BlocksHold, Crash, uploads
<1> QED BY <1>1, <1>2, <1>3, <1>4, RunInv DEF Crash, TypeOK, uploads, nodes, outbox

LEMMA SweepInv ==
  ASSUME Inv, recoverMigrations \/ markMigrationRecoveryAttempt
              \/ \E u \in Uploads : Age(u) \/ CompleteAgain(u)
  PROVE  Inv'
<1>1. TypeOK
  BY DEF Inv
<1>2. CASE recoverMigrations
  <2>1. tasks' \in [Uploads -> Nat] /\ faults' \in 0..MaxFaults
    BY <1>1, <1>2, FaultTyped DEF recoverMigrations, TypeOK
  <2> QED BY <1>1, <1>2, <2>1, IdleInv DEF recoverMigrations, TypeOK, uploads, nodes, outbox
<1>3. CASE markMigrationRecoveryAttempt
  <2>1. faults' \in 0..MaxFaults /\ stale' \subseteq Uploads
    BY <1>1, <1>3, FaultTyped DEF markMigrationRecoveryAttempt, TypeOK
  <2> QED BY <1>1, <1>3, <2>1, IdleInv DEF markMigrationRecoveryAttempt, TypeOK, nodes, outbox
<1>4. ASSUME NEW u \in Uploads, Age(u) PROVE Inv'
  BY <1>1, <1>4, IdleInv DEF Age, TypeOK, nodes, outbox
<1>5. ASSUME NEW u \in Uploads, CompleteAgain(u) PROVE Inv'
  <2>1. tasks' \in [Uploads -> Nat]
    BY <1>1, <1>5 DEF CompleteAgain, TypeOK
  <2> QED BY <1>1, <1>5, <2>1, IdleInv DEF CompleteAgain, TypeOK, uploads, nodes, outbox
<1> QED BY <1>2, <1>3, <1>4, <1>5

LEMMA tagUploadInv ==
  ASSUME Inv, NEW o \in Objects, tagUpload(o)
  PROVE  Inv'
<1>1. TypeOK
  BY DEF Inv
<1>2. getCidsByRootCid(o) \subseteq {k.cid : k \in Rows}
  BY RowFacts DEF getCidsByRootCid
<1>3. faults' \in 0..MaxFaults /\ tags' \subseteq Objects /\ onchain' \subseteq {k.cid : k \in Rows}
  BY <1>1, <1>2, FaultTyped DEF tagUpload, TypeOK
<1> QED BY <1>1, <1>3, IdleInv DEF tagUpload, TypeOK, uploads, nodes

(***************************************************************************)
(* Steps on blocks and rows                                                *)
(***************************************************************************)
\* Marking rows as published moves them from one count to the other.
LEMMA PublishInv ==
  ASSUME Inv, NEW c, updateNodePublishedOn(c)
  PROVE  Inv'
<1>1. TypeOK
  BY DEF Inv
<1>2. fresh' \in [Rows -> Nat] /\ published' \in [Rows -> Nat]
  BY <1>1 DEF updateNodePublishedOn, TypeOK
<1>3. \A k \in Rows : Present(k)' <=> Present(k)
  BY <1>1 DEF updateNodePublishedOn, Present, TypeOK
<1>4. TypeOK'
  BY <1>1, <1>2 DEF updateNodePublishedOn, TypeOK, uploads, Busy
<1>5. ASSUME NEW g \in Handlers, Busy(g)'
      PROVE  Busy(g) /\ PhaseHolds(g)' /\ (Saved(g) => Saved(g)')
  <2>1. Busy(g) /\ run' = run /\ blocks' = blocks
    BY <1>5 DEF updateNodePublishedOn, uploads, Busy
  <2>2. PhaseHolds(g)'
    BY <2>1 DEF Inv, PhasesHold, PhaseHolds
  <2>3. \A k \in RowsOf(Object(g)) : k \in Rows
    BY <1>1, <2>1, RunTyped, RowFacts
  <2>4. Saved(g) => Saved(g)'
    BY <1>3, <2>1, <2>3 DEF Saved, Object
  <2> QED BY <2>1, <2>2, <2>4
<1>6. \A o \in Objects : Complete(o) => Complete(o)'
  BY <1>3, RowFacts DEF Complete, Present
<1>7. ASSUME NEW v \in Uploads, Sound(v) PROVE Sound(v)'
  <2>1. ObjectOf[v] \in Objects /\ run' = run /\ blocks' = blocks
    BY MigrationConstants DEF updateNodePublishedOn, uploads
  <2> QED BY <1>5, <1>6, <1>7, <2>1 DEF Sound
<1>8. ObjectsSafe'
  <2>1. \A u \in Uploads : ObjectOf[u] \in Objects
    BY MigrationConstants
  <2> QED BY <1>6, <1>7, <2>1 DEF Inv, ObjectsSafe, Safe
<1>9. BlocksHold'
  BY DEF Inv, BlocksHold, updateNodePublishedOn, uploads
<1> QED BY <1>4, <1>5, <1>8, <1>9 DEF Inv, PhasesHold

\* Rows go, but the upload whose run removes them has its blocks and saves
\* them anew.
LEMMA ClearInv ==
  ASSUME Inv, NEW h \in Handlers, removeNodeByRootCid(h)
  PROVE  Inv'
<1> DEFINE u == run[h].upload  o == ObjectOf[u]
<1>1. /\ TypeOK /\ Busy(h) /\ u \in Uploads /\ o \in Objects /\ Object(h) = o /\ Step(h, "save")
  BY PhaseBusy, RunTyped DEF Inv, removeNodeByRootCid, Object
<1>2. /\ run' \in [Handlers -> RunTypes]
      /\ \A f, g \in Handlers : (f # g /\ Busy(f)' /\ Busy(g)') => run'[f].upload # run'[g].upload
      /\ \A g \in Handlers : Busy(g)' => Busy(g) /\ (g # h => run'[g] = run[g])
      /\ run'[h].phase = "save" /\ run'[h].upload = u
      /\ run'[h].member = run[h].member /\ run'[h].at = run[h].at
  BY <1>1, StepTyped
<1>3. run[h].member = 1 /\ run[h].at = 0 /\ u \in blocks /\ o \in Recorded
  BY <1>1 DEF removeNodeByRootCid, Inv, PhasesHold, PhaseHolds
<1>4. TypeOK'
  <2>1. fresh' \in [Rows -> Nat] /\ published' \in [Rows -> Nat]
    BY <1>1 DEF removeNodeByRootCid, TypeOK
  <2> QED BY <1>1, <1>2, <2>1 DEF removeNodeByRootCid, TypeOK, uploads, outbox, Busy
<1>5. PhasesHold'
  <2>1. blocks' = blocks
    BY DEF removeNodeByRootCid, uploads
  <2>2. PhaseHolds(h)'
    <3>1. 1 \in DOMAIN Content[o] /\ 0 < Len(Content[o][1])
      <4>1. 1 \in DOMAIN Content[o]
        BY <1>1, ContentFacts
      <4> QED BY <1>1, <4>1, ContentFacts
    <3> QED BY <1>2, <1>3, <2>1, <3>1 DEF PhaseHolds
  <2>3. ASSUME NEW g \in Handlers, Busy(g)', g # h PROVE PhaseHolds(g)'
    BY <1>2, <2>1, <2>3 DEF Inv, PhasesHold, PhaseHolds
  <2> QED BY <2>2, <2>3 DEF PhasesHold
<1>6. Sound(u)'
  <2>1. Saved(h)'
    <3>1. Object(h)' = o
      BY <1>2 DEF Object
    <3>2. ASSUME NEW k \in RowsOf(o) PROVE k.head \in Nat /\ ~(k.head < 1)
      BY <1>1, RowFacts, ContentFacts
    <3> QED BY <1>2, <1>3, <3>1, <3>2 DEF Saved
  <2>2. \A g \in Handlers : Busy(g)' /\ run'[g].upload = u => g = h
    BY <1>1, <1>2 DEF TypeOK
  <2>3. u \in blocks'
    BY <1>3 DEF removeNodeByRootCid, uploads
  <2> QED BY <1>2, <2>1, <2>2, <2>3 DEF Sound
<1>7. \A k \in Rows : k.root # o => fresh'[k] = fresh[k] /\ published'[k] = published[k]
  BY <1>1 DEF removeNodeByRootCid
<1>8. ASSUME NEW p \in Objects, p # o PROVE Complete(p) => Complete(p)'
  BY <1>7, <1>8, RowFacts DEF Complete
<1>9. ASSUME NEW v \in Uploads, ObjectOf[v] # o, Sound(v) PROVE Sound(v)'
  <2>1. v \in blocks' /\ ObjectOf[v] \in Objects
    BY <1>9, MigrationConstants DEF Sound, removeNodeByRootCid, uploads
  <2>2. ASSUME NEW g \in Handlers, Busy(g)', run'[g].upload = v
        PROVE  /\ run'[g].phase = "save" => Saved(g)'
               /\ run'[g].phase = "blocks" => Complete(ObjectOf[v])'
    <3>1. g # h /\ Busy(g) /\ run'[g] = run[g]
      BY <1>2, <1>9, <2>2
    <3>2. run[g].phase = "save" => Saved(g)
      BY <1>9, <2>2, <3>1 DEF Sound
    <3>3. Saved(g) => Saved(g)'
      <4>1. \A k \in RowsOf(ObjectOf[v]) : fresh'[k] = fresh[k] /\ published'[k] = published[k]
        BY <1>7, <1>9, <2>1, RowFacts
      <4> QED BY <2>2, <3>1, <4>1 DEF Saved, Object, Present
    <3>4. run[g].phase = "blocks" => Complete(ObjectOf[v])
      BY <1>9, <2>2, <3>1 DEF Sound
    <3> QED BY <1>8, <1>9, <2>1, <3>1, <3>2, <3>3, <3>4
  <2> QED BY <2>1, <2>2 DEF Sound
<1>10. ObjectsSafe'
  <2>1. ASSUME NEW v \in Uploads, ObjectOf[v] \in Recorded PROVE Safe(ObjectOf[v])'
    <3>1. Safe(ObjectOf[v]) /\ ObjectOf[v] \in Objects
      BY <2>1, MigrationConstants DEF Inv, ObjectsSafe
    <3>2. CASE ObjectOf[v] = o
      BY <1>1, <1>2, <1>6, <3>2 DEF Safe
    <3>3. CASE ObjectOf[v] # o
      <4>1. Complete(ObjectOf[v]) => Safe(ObjectOf[v])'
        BY <1>8, <3>1, <3>3 DEF Safe
      <4>2. ASSUME NEW w \in Uploads, ObjectOf[w] = ObjectOf[v], Sound(w)
            PROVE  Safe(ObjectOf[v])'
        BY <1>9, <3>3, <4>2 DEF Safe
      <4> QED BY <3>1, <4>1, <4>2 DEF Safe
    <3> QED BY <3>2, <3>3
  <2> QED BY <2>1 DEF ObjectsSafe
<1>11. BlocksHold'
  BY DEF Inv, BlocksHold, removeNodeByRootCid, uploads
<1> QED BY <1>4, <1>5, <1>10, <1>11 DEF Inv

\* Blocks go only after the run has saved all rows, or another upload of the
\* object can restore them.
LEMMA BlocksInv ==
  ASSUME Inv, NEW h \in Handlers, deleteBlockstoreEntries(h)
  PROVE  Inv'
<1> DEFINE u == run[h].upload
<1>1. TypeOK /\ Busy(h) /\ u \in Uploads /\ Step(h, "rows")
  BY PhaseBusy, RunTyped DEF Inv, deleteBlockstoreEntries
<1>2. /\ run' \in [Handlers -> RunTypes]
      /\ \A f, g \in Handlers : (f # g /\ Busy(f)' /\ Busy(g)') => run'[f].upload # run'[g].upload
      /\ \A g \in Handlers : Busy(g)' => Busy(g) /\ (g # h => run'[g] = run[g])
      /\ run'[h].phase = "rows" /\ run'[h].upload = u
  BY <1>1, StepTyped
<1>3. ObjectOf[u] \in Recorded /\ blocks' = blocks \ {u}
  BY <1>1 DEF deleteBlockstoreEntries, Inv, PhasesHold, PhaseHolds
<1>4. \A g \in Handlers : g # h /\ Busy(g) => run[g].upload # u
  BY <1>1 DEF TypeOK
<1>5. TypeOK'
  BY <1>1, <1>2, <1>3 DEF deleteBlockstoreEntries, TypeOK, nodes, outbox, Busy
<1>6. PhasesHold'
  <2>1. PhaseHolds(h)'
    BY <1>2, <1>3 DEF PhaseHolds
  <2>2. ASSUME NEW g \in Handlers, Busy(g)', g # h PROVE PhaseHolds(g)'
    <3>1. PhaseHolds(g) /\ run'[g] = run[g] /\ run[g].upload # u
      BY <1>2, <1>4, <2>2 DEF Inv, PhasesHold
    <3> QED BY <1>3, <3>1 DEF PhaseHolds
  <2> QED BY <2>1, <2>2 DEF PhasesHold
<1>7. \A p \in Objects : Complete(p) => Complete(p)'
  BY DEF deleteBlockstoreEntries, nodes, Complete
<1>8. Sound(u) => Complete(ObjectOf[u])
  BY <1>1 DEF Sound, deleteBlockstoreEntries
<1>9. ASSUME NEW v \in Uploads, v # u, Sound(v) PROVE Sound(v)'
  <2>1. v \in blocks' /\ ObjectOf[v] \in Objects
    BY <1>3, <1>9, MigrationConstants DEF Sound
  <2>2. ASSUME NEW g \in Handlers, Busy(g)', run'[g].upload = v
        PROVE  /\ run'[g].phase = "save" => Saved(g)'
               /\ run'[g].phase = "blocks" => Complete(ObjectOf[v])'
    <3>1. Busy(g) /\ run'[g] = run[g]
      BY <1>2, <1>9, <2>2
    <3>2. Saved(g) => Saved(g)'
      BY <3>1 DEF deleteBlockstoreEntries, nodes, Saved, Object, Present
    <3> QED BY <1>7, <1>9, <2>1, <2>2, <3>1, <3>2 DEF Sound
  <2> QED BY <2>1, <2>2 DEF Sound
<1>10. ASSUME NEW v \in Uploads, ObjectOf[v] \in Recorded PROVE Safe(ObjectOf[v])'
  <2>1. Safe(ObjectOf[v]) /\ ObjectOf[v] \in Objects
    BY <1>10, MigrationConstants DEF Inv, ObjectsSafe
  <2>2. CASE Complete(ObjectOf[v])
    BY <1>7, <2>1, <2>2 DEF Safe
  <2>3. ASSUME NEW w \in Uploads, ObjectOf[w] = ObjectOf[v], Sound(w) PROVE Safe(ObjectOf[v])'
    BY <1>7, <1>8, <1>9, <2>1, <2>3 DEF Safe
  <2> QED BY <2>1, <2>2, <2>3 DEF Safe
<1>11. BlocksHold'
  BY <1>1, <1>3 DEF Inv, BlocksHold, deleteBlockstoreEntries
<1> QED BY <1>5, <1>6, <1>10, <1>11 DEF Inv, ObjectsSafe

\* An insert only adds rows.
LEMMA InsertAdds ==
  ASSUME TypeOK, NEW o, NEW m, NEW new, Insert(o, m, new)
  PROVE  /\ fresh' \in [Rows -> Nat] /\ published' = published
         /\ \A k \in Rows : Present(k) => Present(k)'
         /\ \A k \in Rows : k.root = o /\ k.head = m /\ k.cid \in new => Present(k)'
<1>1. fresh' \in [Rows -> Nat] /\ published' = published /\ published \in [Rows -> Nat]
  BY DEF Insert, TypeOK
<1>2. ASSUME NEW k \in Rows PROVE fresh[k] \in Nat /\ published[k] \in Nat
  BY DEF TypeOK
<1>3. ASSUME NEW k \in Rows, Present(k) PROVE Present(k)'
  BY <1>1, <1>2, <1>3 DEF Insert, Present
<1>4. ASSUME NEW k \in Rows, k.root = o /\ k.head = m /\ k.cid \in new PROVE Present(k)'
  BY <1>1, <1>2, <1>4 DEF Insert, Present
<1> QED BY <1>1, <1>3, <1>4

\* What a batch adds, and where it leaves the run.
LEMMA SaveStep ==
  ASSUME TypeOK, NEW h \in Handlers, Busy(h), PhaseHolds(h), saveNodes(h),
         NEW o \in Objects, o = Object(h), NEW m, m = run[h].member, NEW at, at = run[h].at
  PROVE  \E last \in Nat :
           /\ at <= last /\ last <= Len(Content[o][m])
           /\ Insert(o, m, Unseen(o, m, at + 1, last))
           /\ \/ last < Len(Content[o][m]) /\ run' = [run EXCEPT ![h].at = last]
              \/ last = Len(Content[o][m]) /\ m < Len(Content[o])
                 /\ run' = [run EXCEPT ![h].member = m + 1, ![h].at = 0]
              \/ last = Len(Content[o][m]) /\ m = Len(Content[o]) /\ Step(h, "blocks")
<1> DEFINE len == Len(Content[o][m])
           last == at + (IF len - at < BatchSize THEN len - at ELSE BatchSize)
<1>1. /\ Insert(o, m, Unseen(o, m, at + 1, last))
      /\ \/ len - at > BatchSize /\ run' = [run EXCEPT ![h].at = last]
         \/ len - at <= BatchSize /\ m < Len(Content[o])
            /\ run' = [run EXCEPT ![h].member = m + 1, ![h].at = 0]
         \/ len - at <= BatchSize /\ m = Len(Content[o]) /\ Step(h, "blocks")
  BY DEF saveNodes
<1>2. len \in Nat /\ at \in Nat /\ at < len
  <2>1. m \in DOMAIN Content[o] /\ at < len
    BY DEF saveNodes, PhaseHolds, Object
  <2> QED BY <2>1, ContentFacts, RunTyped
<1> HIDE DEF len
<1>3. BatchSize \in Nat \ {0}
  BY MigrationConstants
<1>4. /\ last \in Nat /\ at <= last /\ last <= len
      /\ len - at > BatchSize => last < len
      /\ len - at <= BatchSize => last = len
  BY <1>2, <1>3
<1> HIDE DEF last
<1>5. last \in Nat /\ at <= last /\ last <= Len(Content[o][m])
  BY <1>4 DEF len
<1>6. \/ last < Len(Content[o][m]) /\ run' = [run EXCEPT ![h].at = last]
      \/ last = Len(Content[o][m]) /\ m < Len(Content[o])
         /\ run' = [run EXCEPT ![h].member = m + 1, ![h].at = 0]
      \/ last = Len(Content[o][m]) /\ m = Len(Content[o]) /\ Step(h, "blocks")
  BY <1>1, <1>4 DEF len
<1> QED BY <1>1, <1>5, <1>6

\* After the last batch of the last blockstore all rows of the object are
\* there, unless another run of the same object has cleared it.
LEMMA SaveInv ==
  ASSUME Inv, NEW h \in Handlers, saveNodes(h)
  PROVE  Inv'
<1>0. PICK u \in Uploads, o \in Objects, m \in Nat \ {0}, at \in Nat :
        run[h].upload = u /\ ObjectOf[u] = o /\ run[h].member = m /\ run[h].at = at
  BY PhaseBusy, RunTyped, MigrationConstants DEF Inv, saveNodes
<1>1. TypeOK /\ Busy(h) /\ Object(h) = o
  BY <1>0, PhaseBusy DEF Inv, saveNodes, Object
<1>2. /\ o \in Recorded /\ u \in blocks
      /\ m \in DOMAIN Content[o] /\ at < Len(Content[o][m]) /\ run[h].phase = "save"
      /\ PhaseHolds(h)
  BY <1>0, <1>1 DEF Inv, PhasesHold, PhaseHolds, saveNodes
<1>3. run[h] \in [phase : {"read", "clear", "save", "blocks", "rows", "tag", "park"},
                  upload : Uploads, member : Nat \ {0}, at : Nat, unacked : BOOLEAN]
  BY <1>1, RunTyped
<1>4. /\ Len(Content[o]) \in Nat \ {0} /\ DOMAIN Content[o] = 1..Len(Content[o])
      /\ Len(Content[o][m]) \in Nat \ {0}
      /\ m < Len(Content[o]) => m + 1 \in DOMAIN Content[o] /\ 0 < Len(Content[o][m + 1])
  <2>1. m < Len(Content[o]) => m + 1 \in DOMAIN Content[o]
    BY ContentFacts
  <2> QED BY <1>2, <2>1, ContentFacts
<1>5. PICK last \in Nat :
        /\ at <= last /\ last <= Len(Content[o][m])
        /\ Insert(o, m, Unseen(o, m, at + 1, last))
        /\ \/ last < Len(Content[o][m]) /\ run' = [run EXCEPT ![h].at = last]
           \/ last = Len(Content[o][m]) /\ m < Len(Content[o])
              /\ run' = [run EXCEPT ![h].member = m + 1, ![h].at = 0]
           \/ last = Len(Content[o][m]) /\ m = Len(Content[o]) /\ Step(h, "blocks")
  BY <1>0, <1>1, <1>2, SaveStep
<1> DEFINE more == /\ last < Len(Content[o][m])
                   /\ run'[h].phase = "save" /\ run'[h].member = m /\ run'[h].at = last
           over == /\ last = Len(Content[o][m]) /\ m < Len(Content[o])
                   /\ run'[h].phase = "save" /\ run'[h].member = m + 1 /\ run'[h].at = 0
           done == /\ last = Len(Content[o][m]) /\ m = Len(Content[o])
                   /\ run'[h].phase = "blocks"
<1>6. /\ run' \in [Handlers -> RunTypes] /\ run'[h].upload = u
      /\ \A g \in Handlers : g # h => run'[g] = run[g]
      /\ more \/ over \/ done
  <2>1. CASE last < Len(Content[o][m]) /\ run' = [run EXCEPT ![h].at = last]
    <3>1. run'[h] = [run[h] EXCEPT !.at = last] /\ run'[h] \in RunTypes
      BY <1>1, <1>3, <2>1 DEF TypeOK, RunTypes
    <3> QED BY <1>0, <1>1, <1>2, <1>3, <2>1, <3>1 DEF TypeOK
  <2>2. CASE last = Len(Content[o][m]) /\ m < Len(Content[o])
             /\ run' = [run EXCEPT ![h].member = m + 1, ![h].at = 0]
    <3>1. run'[h] = [run[h] EXCEPT !.member = m + 1, !.at = 0]
      BY <1>1, <2>2 DEF TypeOK
    <3>2. m + 1 \in Nat \ {0}
      OBVIOUS
    <3>3. run'[h] \in RunTypes
      <4>1. run'[h] = [[run[h] EXCEPT !.member = m + 1] EXCEPT !.at = 0]
        BY <1>3, <3>1
      <4>2. [run[h] EXCEPT !.member = m + 1]
              \in [phase : {"read", "clear", "save", "blocks", "rows", "tag", "park"},
                   upload : Uploads, member : Nat \ {0}, at : Nat, unacked : BOOLEAN]
        BY <1>3, <3>2
      <4>3. [[run[h] EXCEPT !.member = m + 1] EXCEPT !.at = 0] \in RunTypes
        BY <4>2 DEF RunTypes
      <4> QED BY <4>1, <4>3
    <3> QED BY <1>0, <1>1, <1>2, <1>3, <2>2, <3>1, <3>3 DEF TypeOK
  <2>3. CASE last = Len(Content[o][m]) /\ m = Len(Content[o]) /\ Step(h, "blocks")
    <3>1. run'[h] = [run[h] EXCEPT !.phase = "blocks"] /\ run'[h] \in RunTypes
      BY <1>1, <1>3, <2>3 DEF TypeOK, RunTypes, Step
    <3> QED BY <1>0, <1>1, <1>2, <1>3, <2>3, <3>1 DEF TypeOK, Step
  <2> QED BY <1>5, <2>1, <2>2, <2>3
<1>7. Insert(o, m, Unseen(o, m, at + 1, last))
  BY <1>5
<1> HIDE DEF more, over, done
<1>8. TypeOK'
  <2>1. fresh' \in [Rows -> Nat] /\ published' = published
    BY <1>1, <1>7, InsertAdds
  <2>2. \A g \in Handlers : Busy(g)' => Busy(g) /\ run'[g].upload = run[g].upload
    BY <1>0, <1>1, <1>6 DEF Busy
  <2>3. \A f, g \in Handlers : (f # g /\ Busy(f)' /\ Busy(g)') => run'[f].upload # run'[g].upload
    BY <1>1, <2>2 DEF TypeOK
  <2> QED BY <1>1, <1>6, <2>1, <2>3 DEF saveNodes, TypeOK, uploads, outbox, Busy
<1>9. PhasesHold'
  <2>1. blocks' = blocks
    BY DEF saveNodes, uploads
  <2>2. ASSUME NEW g \in Handlers, Busy(g)', g # h PROVE PhaseHolds(g)'
    <3>1. run'[g] = run[g] /\ PhaseHolds(g)
      BY <1>6, <2>2 DEF Inv, PhasesHold, Busy
    <3> QED BY <2>1, <3>1 DEF PhaseHolds
  <2>3. PhaseHolds(h)'
    <3>1. CASE more
      BY <1>0, <1>2, <1>6, <2>1, <3>1 DEF PhaseHolds, more
    <3>2. CASE over
      BY <1>0, <1>2, <1>4, <1>6, <2>1, <3>2 DEF PhaseHolds, over
    <3>3. CASE done
      BY <1>0, <1>2, <1>6, <2>1, <3>3 DEF PhaseHolds, done
    <3> QED BY <1>6, <3>1, <3>2, <3>3
  <2> QED BY <2>2, <2>3 DEF PhasesHold
<1>10. /\ \A k \in Rows : Present(k) => Present(k)'
       /\ \A p \in Objects : Complete(p) => Complete(p)'
  <2>1. \A k \in Rows : Present(k) => Present(k)'
    BY <1>1, <1>7, InsertAdds
  <2> QED BY <2>1, RowFacts DEF Complete, Present
<1>11. ASSUME Saved(h), NEW k \in RowsOf(o),
              \/ k.head < m
              \/ k.head = m /\ \E n \in 1..last : Content[o][m][n] = k.cid
       PROVE  Present(k)'
  <2>1. k \in Rows /\ k.root = o
    BY RowFacts
  <2>2. CASE Present(k)
    BY <1>10, <2>1, <2>2
  <2>3. ASSUME ~Present(k), k.head = m,
               NEW n \in 1..last, Content[o][m][n] = k.cid
        PROVE  Present(k)'
    <3>1. \A i \in 1..at : Content[o][m][i] # k.cid
      BY <1>0, <1>1, <1>11, <2>3 DEF Saved
    <3>2. n \in (at + 1)..last
      <4>1. n \in Nat /\ n <= last /\ n >= 1 /\ n \notin 1..at
        BY <2>3, <3>1
      <4> QED BY <4>1
    <3>3. k.cid \in Unseen(o, m, at + 1, last)
      <4>1. (at + 1) - 1 = at
        OBVIOUS
      <4>2. k.cid \notin {Content[o][m][i] : i \in 1..at}
        BY <3>1
      <4>3. k.cid \in {Content[o][m][i] : i \in (at + 1)..last}
        BY <2>3, <3>2
      <4> QED BY <4>1, <4>2, <4>3 DEF Unseen
    <3> QED BY <1>1, <1>7, <2>1, <2>3, <3>3, InsertAdds
  <2>4. k.head < m => Present(k)
    BY <1>0, <1>1, <1>11 DEF Saved
  <2> QED BY <1>11, <2>2, <2>3, <2>4
<1>12. ASSUME Saved(h)
       PROVE  /\ run'[h].phase = "save" => Saved(h)'
              /\ run'[h].phase = "blocks" => Complete(o)'
  <2>1. ASSUME NEW k \in RowsOf(o)
        PROVE  /\ k.head \in Nat /\ k.head <= Len(Content[o])
               /\ k.head = m => \E n \in 1..Len(Content[o][m]) : Content[o][m][n] = k.cid
    BY <1>4, RowFacts
  <2>2. Object(h)' = o
    BY <1>0, <1>6 DEF Object
  <2>3. CASE more
    BY <1>11, <1>12, <2>2, <2>3 DEF Saved, more
  <2>4. CASE over
    <3>1. ASSUME NEW k \in RowsOf(o),
                 \/ k.head < m + 1
                 \/ k.head = m + 1 /\ \E n \in 1..0 : Content[o][k.head][n] = k.cid
          PROVE  Present(k)'
      <4>1. k.head < m \/ k.head = m
        BY <2>1, <3>1
      <4> QED BY <1>11, <1>12, <2>1, <2>4, <4>1 DEF over
    <3> QED BY <2>2, <2>4, <3>1 DEF Saved, over
  <2>5. CASE done
    <3>1. ASSUME NEW k \in RowsOf(o) PROVE Present(k)'
      <4>1. k.head < m \/ k.head = m
        BY <2>1, <2>5 DEF done
      <4> QED BY <1>11, <1>12, <2>1, <2>5, <4>1 DEF done
    <3> QED BY <2>5, <3>1 DEF Complete, Present, done
  <2> QED BY <1>6, <2>3, <2>4, <2>5
<1>13. ASSUME NEW v \in Uploads, Sound(v) PROVE Sound(v)'
  <2>1. v \in blocks' /\ ObjectOf[v] \in Objects
    BY <1>13, MigrationConstants DEF Sound, saveNodes, uploads
  <2>2. ASSUME NEW g \in Handlers, Busy(g)', run'[g].upload = v
        PROVE  /\ run'[g].phase = "save" => Saved(g)'
               /\ run'[g].phase = "blocks" => Complete(ObjectOf[v])'
    <3>1. CASE g = h
      <4>1. v = u /\ Saved(h)
        BY <1>0, <1>1, <1>2, <1>6, <1>13, <2>2, <3>1 DEF Sound
      <4> QED BY <1>0, <1>12, <3>1, <4>1
    <3>2. CASE g # h
      <4>1. Busy(g) /\ run'[g] = run[g]
        BY <1>6, <2>2, <3>2 DEF Busy
      <4>2. \A k \in RowsOf(ObjectOf[v]) : k \in Rows
        BY <2>1, RowFacts
      <4>3. Saved(g) => Saved(g)'
        BY <1>10, <2>2, <4>1, <4>2 DEF Saved, Object
      <4>4. run[g].phase = "blocks" => Complete(ObjectOf[v])'
        BY <1>10, <1>13, <2>1, <2>2, <4>1 DEF Sound
      <4>5. run[g].phase = "save" => Saved(g)
        BY <1>13, <2>2, <4>1 DEF Sound
      <4> QED BY <4>1, <4>3, <4>4, <4>5
    <3> QED BY <3>1, <3>2
  <2> QED BY <2>1, <2>2 DEF Sound
<1>14. ASSUME NEW v \in Uploads, ObjectOf[v] \in Recorded PROVE Safe(ObjectOf[v])'
  <2>1. Safe(ObjectOf[v]) /\ ObjectOf[v] \in Objects
    BY <1>14, MigrationConstants DEF Inv, ObjectsSafe
  <2> QED BY <1>10, <1>13, <2>1 DEF Safe
<1>15. BlocksHold'
  BY DEF Inv, BlocksHold, saveNodes, uploads
<1> QED BY <1>8, <1>9, <1>14, <1>15 DEF Inv, ObjectsSafe

(***************************************************************************)
(* Theorems                                                                *)
(***************************************************************************)
LEMMA NextInv == ASSUME Inv, [Next]_vars PROVE Inv'
<1>1. CASE UNCHANGED vars
  <2>1. UNCHANGED <<status, stale, blocks, fresh, published, tasks, run, sweep, tags, onchain, faults>>
    BY <1>1 DEF vars, uploads, nodes, outbox
  <2> QED BY <2>1, IdleInv DEF Inv, TypeOK
<1>2. ASSUME NEW h \in Handlers, Migrating(h) PROVE Inv'
  BY <1>2, ResolveInv, ClearInv, SaveInv, BlocksInv, deleteRowsInv, TagInv, ParkInv DEF Migrating
<1>3. ASSUME NEW h \in Handlers, NEW u \in Uploads, Deliver(h, u) \/ Skip(h, u) PROVE Inv'
  BY <1>3, DeliverInv, SkipInv
<1>4. ASSUME NEW h \in Handlers, QueryFails(h) PROVE Inv'
  BY <1>4, QueryFailsInv
<1>5. ASSUME NEW o \in Objects, tagUpload(o) \/ \E k \in RowsOf(o) : updateNodePublishedOn(k.cid)
      PROVE  Inv'
  BY <1>5, tagUploadInv, PublishInv
<1> QED BY <1>1, <1>2, <1>3, <1>4, <1>5, SweepInv, RedeliverInv, CrashInv DEF Next

\* The variables keep their types and no two slots ever work on one upload.
THEOREM TypeCorrect == Spec => []TypeOK
<1>1. Inv => TypeOK
  BY DEF Inv
<1> QED BY <1>1, InitInv, NextInv, PTL DEF Spec

\* An upload whose blocks are gone has all its nodes, or a twin to make them.
THEOREM NodesNeverLost == Spec => []NoNodeLost
<1>1. Inv => NoNodeLost
  <2> SUFFICES ASSUME Inv, NEW u \in Uploads \ blocks
               PROVE  \/ Complete(ObjectOf[u])
                      \/ \E v \in blocks : ObjectOf[v] = ObjectOf[u] /\ status[v] = "MIGRATING"
    BY DEF NoNodeLost
  <2>1. Safe(ObjectOf[u]) /\ ObjectOf[u] \in Recorded
    BY DEF Inv, BlocksHold, ObjectsSafe
  <2> QED BY <2>1 DEF Safe, Sound, Inv, BlocksHold
<1> QED BY <1>1, InitInv, NextInv, PTL DEF Spec

\* Only clearing an object takes published rows away, and the upload of a run
\* that does so still has its row and its blocks.
LEMMA PublishedStep ==
  ASSUME Inv, [Next]_vars,
         NEW u \in Uploads, status[u] = "GONE",
         ~TakenOver(u), NEW k \in RowsOf(ObjectOf[u])
  PROVE  published'[k] >= published[k]
<1>1. TypeOK /\ ObjectOf[u] \in Objects
  BY MigrationConstants DEF Inv
<1>2. k \in Rows /\ k.root = ObjectOf[u]
  BY <1>1, RowFacts
<1>3. fresh[k] \in Nat /\ published[k] \in Nat
  BY <1>1, <1>2 DEF TypeOK
<1>4. ASSUME NEW h \in Handlers, removeNodeByRootCid(h) PROVE published'[k] = published[k]
  <2>1. /\ Busy(h) /\ run[h].upload \in Uploads /\ Object(h) = ObjectOf[run[h].upload]
        /\ PhaseHolds(h) /\ run[h].phase = "clear" /\ Step(h, "save")
    BY <1>1, <1>4, PhaseBusy, RunTyped DEF removeNodeByRootCid, Inv, PhasesHold, Object
  <2>2. run[h].upload \in blocks /\ status[run[h].upload] = "MIGRATING"
    BY <2>1 DEF PhaseHolds, Inv, BlocksHold
  <2>3. run[h].upload \in blocks' /\ status'[run[h].upload] = "MIGRATING" /\ run[h].upload # u
    BY <1>4, <2>2 DEF removeNodeByRootCid, uploads
  <2>4. run'[h].phase = "save"
    BY <1>1, <2>1, StepTyped
  <2>5. k.root # Object(h)
    BY <1>2, <2>1, <2>3, <2>4 DEF TakenOver
  <2> QED BY <1>2, <1>4, <2>5 DEF removeNodeByRootCid
<1>5. ASSUME NEW h \in Handlers, Migrating(h) PROVE published'[k] >= published[k]
  <2>1. CASE removeNodeByRootCid(h)
    BY <1>3, <1>4, <2>1
  <2>2. CASE ~removeNodeByRootCid(h)
    <3>1. published' = published
      BY <1>5, <2>2 DEF Migrating, Resolve, saveNodes, Insert, deleteBlockstoreEntries,
         deleteEntriesByRootUploadId, scheduleUploadTagging, Park, nodes
    <3> QED BY <1>3, <3>1
  <2> QED BY <2>1, <2>2
<1>6. ASSUME NEW c, updateNodePublishedOn(c) PROVE published'[k] >= published[k]
  BY <1>2, <1>3, <1>6 DEF updateNodePublishedOn
<1>7. CASE UNCHANGED published
  BY <1>3, <1>7
<1> QED
  BY <1>5, <1>6, <1>7 DEF Next, vars, nodes, Deliver, Skip, QueryFails, Age, CompleteAgain,
     recoverMigrations, markMigrationRecoveryAttempt, Redeliver, Crash, tagUpload

\* Published rows of an upload that is gone are taken away only by the
\* migration of another upload of the same content, which has the blocks to
\* write them again.
THEOREM PublishedStay == Spec => PublishedNodesKept
<1>1. ASSUME Inv, [Next]_vars
      PROVE  \A u \in Uploads : status[u] = "GONE" =>
               (\A k \in RowsOf(ObjectOf[u]) : published'[k] >= published[k]) \/ TakenOver(u)
  <2> SUFFICES ASSUME NEW u \in Uploads, status[u] = "GONE", ~TakenOver(u),
                      NEW k \in RowsOf(ObjectOf[u])
               PROVE  published'[k] >= published[k]
    OBVIOUS
  <2> QED BY <1>1, PublishedStep
<1> QED BY <1>1, InitInv, NextInv, PTL DEF Spec, PublishedNodesKept

(***************************************************************************)
(* No node twice                                                           *)
(*                                                                         *)
(* No unique index keeps a node from being inserted again.  What does is   *)
(* that a run clears the object first, that one upload has one run at a    *)
(* time, and that a batch leaves out what the rows of its blockstore held  *)
(* before it.  Uploads of the same content have runs of their own; so the  *)
(* rows of a node, with those that runs which have cleared the object have *)
(* yet to insert, are no more than the uploads of its root.                *)
(***************************************************************************)
Count(k) == fresh[k] + published[k]

\* A run that saves has come to the row k since it cleared the object.
CameTo(h, k) ==
  \/ k.head < run[h].member
  \/ k.head = run[h].member /\ \E n \in 1..run[h].at : Content[k.root][k.head][n] = k.cid

\* A run for the upload u may still insert the row k.
Yet(h, u, k) == Busy(h) /\ run[h].upload = u /\ run[h].phase = "save" /\ ~CameTo(h, k)

Pending(k) == {u \in CopiesOf(k.root) : \E h \in Handlers : Yet(h, u, k)}

Bounded == \A k \in Rows : Count(k) + Cardinality(Pending(k)) <= Cardinality(CopiesOf(k.root))

LEMMA CountTyped ==
  ASSUME TypeOK, NEW k \in Rows
  PROVE  fresh[k] \in Nat /\ published[k] \in Nat /\ Count(k) \in Nat
BY DEF TypeOK, Count

\* Every row of the table is one of the object it names.
LEMMA RowsOfRoot ==
  ASSUME NEW k \in Rows
  PROVE  k.root \in Objects /\ k \in RowsOf(k.root)
<1>1. PICK o \in Objects : k \in RowsOf(o)
  BY DEF Rows
<1> QED BY <1>1, RowFacts

\* The runs that may insert a row are no more than the uploads of its root.
LEMMA PendingTyped ==
  ASSUME NEW k
  PROVE  /\ IsFiniteSet(CopiesOf(k.root)) /\ Cardinality(CopiesOf(k.root)) \in Nat
         /\ IsFiniteSet(Pending(k)) /\ Cardinality(Pending(k)) \in Nat
         /\ Cardinality(Pending(k)) <= Cardinality(CopiesOf(k.root))
         /\ IsFiniteSet(Pending(k)') /\ Cardinality(Pending(k)') \in Nat
         /\ Cardinality(Pending(k)') <= Cardinality(CopiesOf(k.root))
<1>1. CopiesOf(k.root) \in SUBSET Uploads
  BY DEF CopiesOf
<1>2. IsFiniteSet(CopiesOf(k.root))
  BY <1>1, MigrationConstants, FS_Subset
<1>3. Pending(k) \in SUBSET CopiesOf(k.root) /\ Pending(k)' \in SUBSET CopiesOf(k.root)
  BY DEF Pending
<1> QED BY <1>2, <1>3, FS_Subset, FS_CardinalityType

\* A row that no step adds to, and no run comes to be able to insert, stays bounded.
LEMMA RowKept ==
  ASSUME NEW k, Count(k) \in Nat, Count(k)' \in Nat, Count(k)' <= Count(k),
         Pending(k)' \subseteq Pending(k),
         Count(k) + Cardinality(Pending(k)) <= Cardinality(CopiesOf(k.root))
  PROVE  Count(k)' + Cardinality(Pending(k)') <= Cardinality(CopiesOf(k.root))
<1>1. Cardinality(Pending(k)') <= Cardinality(Pending(k))
  BY PendingTyped, FS_Subset
<1> QED BY <1>1, PendingTyped

\* The number of uploads of a content does not change.
LEMMA BoundedNext ==
  ASSUME \A k \in Rows : Count(k)' + Cardinality(Pending(k)') <= Cardinality(CopiesOf(k.root))
  PROVE  Bounded'
BY DEF Bounded, CopiesOf

\* Steps that add no row and let no run come to saving keep nodes bounded.
LEMMA BoundedKept ==
  ASSUME Inv, Bounded,
         \A k \in Rows : Count(k)' \in Nat /\ Count(k)' <= Count(k),
         \A g \in Handlers : Busy(g)' /\ run'[g].phase = "save" => Same(g)
  PROVE  Bounded'
<1>1. ASSUME NEW k \in Rows
      PROVE  Count(k)' + Cardinality(Pending(k)') <= Cardinality(CopiesOf(k.root))
  <2>1. ASSUME NEW g \in Handlers, NEW u, Yet(g, u, k)' PROVE Yet(g, u, k)
    BY <2>1 DEF Yet, Same, CameTo
  <2>2. Pending(k)' \subseteq Pending(k)
    BY <2>1 DEF Pending
  <2>3. Count(k) \in Nat /\ Count(k)' \in Nat /\ Count(k)' <= Count(k)
    BY CountTyped DEF Inv
  <2> QED BY <2>2, <2>3, RowKept DEF Bounded
<1> QED BY <1>1, BoundedNext

\* Clearing leaves no row of the object, and one run at most for each upload.
LEMMA ClearBounded ==
  ASSUME Inv, Bounded, NEW h \in Handlers, removeNodeByRootCid(h)
  PROVE  Bounded'
<1>1. TypeOK /\ Busy(h) /\ Object(h) \in Objects
  BY PhaseBusy, RunTyped DEF Inv, removeNodeByRootCid
<1>2. ASSUME NEW k \in Rows
      PROVE  /\ Count(k) \in Nat /\ Count(k)' \in Nat /\ Count(k)' <= Count(k)
             /\ k.root = Object(h) => Count(k)' = 0
  BY <1>1, CountTyped DEF removeNodeByRootCid, Count
<1>3. /\ \A g \in Handlers : Busy(g)' => Busy(g) /\ (g # h => run'[g] = run[g])
      /\ run'[h].upload = run[h].upload
  BY <1>1, StepTyped DEF removeNodeByRootCid
<1>4. ASSUME NEW k \in Rows
      PROVE  Count(k)' + Cardinality(Pending(k)') <= Cardinality(CopiesOf(k.root))
  <2>1. CASE k.root = Object(h)
    BY <1>2, <2>1, PendingTyped
  <2>2. CASE k.root # Object(h)
    <3>1. ASSUME NEW g \in Handlers, NEW u \in CopiesOf(k.root), Yet(g, u, k)' PROVE Yet(g, u, k)
      <4>1. g # h
        BY <1>3, <2>2, <3>1 DEF Yet, CopiesOf, Object
      <4>2. Busy(g) /\ run'[g] = run[g]
        BY <1>3, <3>1, <4>1 DEF Yet
      <4> QED BY <3>1, <4>2 DEF Yet, CameTo
    <3>2. Pending(k)' \subseteq Pending(k)
      <4>1. CopiesOf(k.root)' = CopiesOf(k.root)
        BY DEF CopiesOf
      <4> QED BY <3>1, <4>1 DEF Pending
    <3> QED BY <1>2, <3>2, RowKept DEF Bounded
  <2> QED BY <2>1, <2>2
<1> QED BY <1>4, BoundedNext

\* A batch adds only rows that its run had not come to, and comes to them.
LEMMA SaveBounded ==
  ASSUME Inv, Bounded, NEW h \in Handlers, saveNodes(h)
  PROVE  Bounded'
<1>0. PICK u \in Uploads, o \in Objects, m \in Nat \ {0}, at \in Nat :
        run[h].upload = u /\ ObjectOf[u] = o /\ run[h].member = m /\ run[h].at = at
  BY PhaseBusy, RunTyped, MigrationConstants DEF Inv, saveNodes
<1>1. /\ TypeOK /\ Busy(h) /\ Object(h) = o /\ PhaseHolds(h)
      /\ run[h].phase = "save"
  BY <1>0, PhaseBusy DEF Inv, saveNodes, Object, PhasesHold
<1>2. run[h] \in [phase : {"read", "clear", "save", "blocks", "rows", "tag", "park"},
                  upload : Uploads, member : Nat \ {0}, at : Nat, unacked : BOOLEAN]
  BY <1>1, RunTyped
<1>3. PICK last \in Nat :
        /\ at <= last /\ last <= Len(Content[o][m])
        /\ Insert(o, m, Unseen(o, m, at + 1, last))
        /\ \/ last < Len(Content[o][m]) /\ run' = [run EXCEPT ![h].at = last]
           \/ last = Len(Content[o][m]) /\ m < Len(Content[o])
              /\ run' = [run EXCEPT ![h].member = m + 1, ![h].at = 0]
           \/ last = Len(Content[o][m]) /\ m = Len(Content[o]) /\ Step(h, "blocks")
  BY <1>0, <1>1, SaveStep
<1> DEFINE new == Unseen(o, m, at + 1, last)
           Added(k) == k.root = o /\ k.head = m /\ k.cid \in new
<1>4. /\ \A c \in new : /\ \E n \in 1..last : Content[o][m][n] = c
                        /\ ~\E n \in 1..at : Content[o][m][n] = c
  <2>1. (at + 1) - 1 = at /\ \A n \in (at + 1)..last : n \in 1..last
    BY <1>0
  <2> QED BY <2>1 DEF Unseen
<1>5. Insert(o, m, new)
  BY <1>3
<1> HIDE DEF new
<1>6. ASSUME NEW k \in Rows
      PROVE  /\ Count(k) \in Nat /\ Count(k)' \in Nat
             /\ Count(k)' = (IF Added(k) THEN Count(k) + 1 ELSE Count(k))
  <2>1. fresh \in [Rows -> Nat] /\ published' = published
        /\ fresh' = [j \in Rows |-> IF Added(j) THEN fresh[j] + 1 ELSE fresh[j]]
    BY <1>1, <1>5 DEF Insert, TypeOK
  <2>2. fresh[k] \in Nat /\ published[k] \in Nat
    BY <1>1, CountTyped
  <2> QED BY <2>1, <2>2 DEF Count
<1>7. /\ run'[h].upload = u
      /\ \A g \in Handlers : g # h => run'[g] = run[g]
      /\ run'[h].phase = "save" =>
           \/ run'[h].member = m /\ run'[h].at = last
           \/ run'[h].member = m + 1 /\ run'[h].at = 0
  <2>1. CASE run' = [run EXCEPT ![h].at = last]
    BY <1>0, <1>1, <1>2, <2>1 DEF TypeOK
  <2>2. CASE run' = [run EXCEPT ![h].member = m + 1, ![h].at = 0]
    <3>1. run'[h] = [run[h] EXCEPT !.member = m + 1, !.at = 0]
      BY <1>1, <2>2 DEF TypeOK
    <3> QED BY <1>0, <1>1, <1>2, <2>2, <3>1 DEF TypeOK
  <2>3. CASE Step(h, "blocks")
    BY <1>0, <1>1, <1>2, <2>3 DEF TypeOK, Step
  <2> QED BY <1>3, <2>1, <2>2, <2>3
<1>8. ASSUME NEW k \in Rows, NEW v \in CopiesOf(k.root), NEW g \in Handlers, Yet(g, v, k)'
      PROVE  Yet(g, v, k) /\ ~(Added(k) /\ v = u)
  <2>1. CASE g # h
    <3>1. Busy(g) /\ run'[g] = run[g]
      BY <1>7, <1>8, <2>1 DEF Yet, Busy
    <3>2. Yet(g, v, k)
      BY <1>8, <3>1 DEF Yet, CameTo
    <3>3. v # u
      BY <1>0, <1>1, <2>1, <3>1, <3>2 DEF Yet, TypeOK
    <3> QED BY <3>2, <3>3
  <2>2. CASE g = h
    <3>1. /\ v = u /\ k.root = o /\ run'[h].phase = "save" /\ k.head \in Nat
          /\ ~(k.head < run'[h].member)
          /\ ~(k.head = run'[h].member /\ \E n \in 1..run'[h].at : Content[o][k.head][n] = k.cid)
      <4>1. k.root \in Objects /\ k.head \in 1..Len(Content[k.root]) /\ Len(Content[k.root]) \in Nat
        BY RowsOfRoot, RowFacts, ContentFacts
      <4> QED BY <1>0, <1>7, <1>8, <2>2, <4>1 DEF Yet, CameTo, CopiesOf
    <3>2. k.head > m \/ (k.head = m /\ ~\E n \in 1..last : Content[o][m][n] = k.cid)
      BY <1>0, <1>7, <3>1
    <3>3. k.head > m \/ (k.head = m /\ ~\E n \in 1..at : Content[o][m][n] = k.cid)
      <4>1. \A n \in 1..at : n \in 1..last
        BY <1>0, <1>3
      <4> QED BY <3>2, <4>1
    <3>4. ~CameTo(h, k)
      BY <1>0, <3>1, <3>3 DEF CameTo
    <3>5. ~Added(k)
      <4>1. k.head > m => k.head # m
        BY <1>0, <3>1
      <4> QED BY <1>4, <3>2, <4>1
    <3> QED BY <1>0, <1>1, <2>2, <3>1, <3>4, <3>5 DEF Yet
  <2> QED BY <2>1, <2>2
<1>9. ASSUME NEW k \in Rows, Added(k) PROVE u \in Pending(k)
  <2>1. u \in CopiesOf(k.root)
    BY <1>0, <1>9 DEF CopiesOf
  <2>2. ~CameTo(h, k)
    <3>1. k.head = m /\ k.root = o /\ ~\E n \in 1..at : Content[o][m][n] = k.cid
      BY <1>4, <1>9
    <3> QED BY <1>0, <3>1 DEF CameTo
  <2>3. Yet(h, u, k)
    BY <1>0, <1>1, <2>2 DEF Yet
  <2> QED BY <2>1, <2>3 DEF Pending
<1>10. ASSUME NEW k \in Rows
       PROVE  /\ Pending(k)' \subseteq Pending(k)
              /\ Added(k) => u \notin Pending(k)'
  <2>1. CopiesOf(k.root)' = CopiesOf(k.root)
    BY DEF CopiesOf
  <2> QED BY <1>8, <2>1 DEF Pending
<1>11. ASSUME NEW k \in Rows
       PROVE  Count(k)' + Cardinality(Pending(k)') <= Cardinality(CopiesOf(k.root))
  <2>1. Count(k) + Cardinality(Pending(k)) <= Cardinality(CopiesOf(k.root))
    BY DEF Bounded
  <2>2. CASE ~Added(k)
    <3>1. Count(k)' = Count(k)
      BY <1>6, <2>2
    <3> QED BY <1>6, <1>10, <2>1, <3>1, RowKept
  <2>3. CASE Added(k)
    <3>1. /\ IsFiniteSet(Pending(k) \ {u})
          /\ Cardinality(Pending(k) \ {u}) = Cardinality(Pending(k)) - 1
      BY <1>9, <2>3, PendingTyped, FS_RemoveElement
    <3>2. Pending(k)' \in SUBSET (Pending(k) \ {u})
      BY <1>10, <2>3
    <3>3. Cardinality(Pending(k)') <= Cardinality(Pending(k)) - 1
      BY <3>1, <3>2, FS_Subset
    <3>4. Count(k)' = Count(k) + 1 /\ Count(k) \in Nat
      BY <1>6, <2>3
    <3> QED BY <2>1, <3>3, <3>4, PendingTyped
  <2> QED BY <2>2, <2>3
<1> QED BY <1>11, BoundedNext

\* No other step adds a row or lets a run begin to save.
LEMMA OthersBounded ==
  ASSUME Inv, Bounded, [Next]_vars,
         \A h \in Handlers : ~removeNodeByRootCid(h) /\ ~saveNodes(h)
  PROVE  Bounded'
<1>1. TypeOK
  BY DEF Inv
<1>2. ASSUME NEW c, updateNodePublishedOn(c)
      PROVE  \A k \in Rows : Count(k)' = Count(k)
  BY <1>1, <1>2, CountTyped DEF updateNodePublishedOn, Count
<1>3. \A k \in Rows : Count(k)' = Count(k)
  <2>1. CASE UNCHANGED <<fresh, published>>
    BY <2>1 DEF Count
  <2>2. ASSUME NEW h \in Handlers, Migrating(h) PROVE UNCHANGED <<fresh, published>>
    BY <2>2 DEF Migrating, Resolve, deleteBlockstoreEntries, deleteEntriesByRootUploadId,
                scheduleUploadTagging, Park, nodes
  <2> QED BY <1>2, <2>1, <2>2
          DEF Next, vars, nodes, Deliver, Skip, QueryFails, Age, CompleteAgain, recoverMigrations,
              markMigrationRecoveryAttempt, Redeliver, Crash, tagUpload
<1>4. ASSUME NEW g \in Handlers, Busy(g)', run'[g].phase = "save" PROVE Same(g)
  <2>1. CASE UNCHANGED run
    BY <1>4, <2>1 DEF Same, Busy
  <2>2. ASSUME NEW h \in Handlers, End(h) PROVE Same(g)
    BY <1>1, <1>4, <2>2, EndSame
  <2>3. ASSUME NEW h \in Handlers, Busy(h), NEW phase \in {"clear", "park", "rows", "tag"},
               Step(h, phase)
        PROVE  Same(g)
    BY <1>1, <1>4, <2>3, StepTyped DEF Same
  <2>4. ASSUME NEW h \in Handlers, Migrating(h) PROVE Same(g)
    <3>1. Busy(h)
      BY <2>4, PhaseBusy DEF Migrating, Resolve, deleteBlockstoreEntries,
         deleteEntriesByRootUploadId, scheduleUploadTagging, Park
    <3>2. CASE Resolve(h)
      BY <2>3, <3>1, <3>2 DEF Resolve
    <3>3. CASE deleteBlockstoreEntries(h) \/ deleteEntriesByRootUploadId(h)
      BY <2>3, <3>1, <3>3 DEF deleteBlockstoreEntries, deleteEntriesByRootUploadId
    <3>4. CASE scheduleUploadTagging(h) \/ Park(h)
      BY <2>2, <3>4 DEF scheduleUploadTagging, Park
    <3> QED BY <2>4, <3>2, <3>3, <3>4 DEF Migrating
  <2>5. ASSUME NEW h \in Handlers, NEW u \in Uploads, Deliver(h, u) PROVE Same(g)
    <3>1. g # h
      BY <1>1, <1>4, <2>5 DEF Deliver, TypeOK
    <3> QED BY <1>1, <1>4, <2>5, <3>1 DEF Deliver, Same, Busy, TypeOK
  <2>6. ASSUME Redeliver PROVE Same(g)
    <3>1. Busy(g)
      BY <1>4, <2>6 DEF Redeliver, Busy
    <3>2. run'[g] = [run[g] EXCEPT !.unacked = FALSE]
      BY <2>6, <3>1 DEF Redeliver
    <3> QED BY <1>1, <3>1, <3>2, RunTyped DEF Same
  <2>7. ~Crash
    BY <1>4 DEF Crash, Busy
  <2>8. ASSUME NEW h \in Handlers, QueryFails(h) PROVE Same(g)
    BY <2>2, <2>8 DEF QueryFails
  <2> QED BY <2>1, <2>4, <2>5, <2>6, <2>7, <2>8
          DEF Next, vars, Skip, Age, CompleteAgain, recoverMigrations, uploads,
              markMigrationRecoveryAttempt, tagUpload, updateNodePublishedOn
<1>5. \A k \in Rows : Count(k)' \in Nat /\ Count(k)' <= Count(k)
  <2>1. \A k \in Rows : Count(k) \in Nat
    BY <1>1, CountTyped
  <2> QED BY <1>3, <2>1
<1> QED BY <1>4, <1>5, BoundedKept

\* However often and from wherever a migration is driven again, each node of
\* an object is in the table once per head for every upload of the object at
\* most; once, if its content was uploaded once.
THEOREM NodesAreSingle == Spec => []NoDuplicateNode
<1>1. ASSUME Init PROVE Bounded
  <2> SUFFICES ASSUME NEW k \in Rows
               PROVE  Count(k) + Cardinality(Pending(k)) <= Cardinality(CopiesOf(k.root))
    BY DEF Bounded
  <2>1. Count(k) = 0
    BY <1>1 DEF Init, Count
  <2> QED BY <2>1, PendingTyped
<1>2. ASSUME Inv, Bounded, [Next]_vars PROVE Bounded'
  BY <1>2, ClearBounded, SaveBounded, OthersBounded
<1>3. ASSUME Inv, Bounded PROVE NoDuplicateNode
  <2> SUFFICES ASSUME NEW k \in Rows PROVE Count(k) <= Cardinality(CopiesOf(k.root))
    BY DEF NoDuplicateNode, Count
  <2>1. Count(k) + Cardinality(Pending(k)) <= Cardinality(CopiesOf(k.root)) /\ Count(k) \in Nat
    BY <1>3, CountTyped DEF Bounded, Inv
  <2> QED BY <2>1, PendingTyped
<1> QED BY <1>1, <1>2, <1>3, InitInv, NextInv, PTL DEF Spec
=============================================================================
