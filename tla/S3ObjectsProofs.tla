---------------------------- MODULE S3ObjectsProofs ----------------------------
(***************************************************************************)
(* Theorems about S3Objects for any finite set of names, and any number of *)
(* contents, multipart uploads, overlapping requests and failed queries.   *)
(***************************************************************************)
EXTENDS S3Objects, FiniteSetTheorems, TLAPS

(***************************************************************************)
(* The inductive invariant                                                 *)
(***************************************************************************)
\* The requests there may be, by kind and phase, and the multipart uploads.
Puts        == [phase : {"own", "map"}, kind : {"put"}, key : Keys, cid : Contents,
                meta : {None}, quiet : BOOLEAN, fresh : BOOLEAN]
Completions == [phase : {"own", "flip", "meta", "map", "unstage"}, kind : {"complete"},
                upload : Multiparts, key : Keys, cid : Contents, meta : Multiparts \cup {None},
                quiet : BOOLEAN, fresh : BOOLEAN]
Copies      == [phase : {"authorize", "map"}, kind : {"copy"}, key : Keys, cid : Contents,
                meta : Multiparts \cup {None}, quiet : BOOLEAN, fresh : BOOLEAN]
Aborts      == [phase : {"abort", "unstage"}, kind : {"abort"}, upload : Multiparts, cid : {None}]
Deletions   == [phase : {"count", "owns", "stamp", "hide", "recount"}, kind : {"delete"},
                key : Keys, cid : Contents, last : BOOLEAN]
Trashings   == [phase : {"owns", "stamp"}, kind : {"trash"}, cid : Contents]
Restores    == [phase : {"unown", "unhide"}, kind : {"restore"}, cid : Contents, since : Nat]
Asked       == Puts \cup Completions \cup Copies \cup Aborts \cup Deletions \cup Trashings
                 \cup Restores
Uploaded    == [status : {"open", "claimed", "done", "gone", "aborted"}, key : Keys,
                cid : Contents, meta : BOOLEAN]

Typed ==
  /\ TypeOK
  /\ req \in [Requests -> {Idle, Done} \cup Asked]
  /\ mpu \in [Multiparts -> [status : {"none"}] \cup Uploaded]

Is(r, kind)     == r \in Running /\ req[r].kind = kind
At(r, phases)   == req[r].phase \in phases
Removing        == Removals \cup {"restore"}
Promises(r)     == r \in Running /\ req[r].kind \in Writes /\ req[r].quiet
Unnamed(c)      == \A k \in Keys : ~Names(k, c)
Unpromised(c)   == \A k \in Keys : acked[k] # c

\* A completion holds the staged metadata when it names the object, and takes it
\* away after that; an abort takes it away from an upload that is gone.
MetaInHand(r) ==
  LET x == req[r].upload
  IN /\ Is(r, "complete") \/ Is(r, "abort") => mpu[x].status # "none"
     /\ Is(r, "complete") /\ At(r, {"map"}) /\ x \in staged => req[r].meta = x
     /\ Is(r, "complete") /\ At(r, {"unstage"}) /\ x \in staged => x \in written
     /\ Is(r, "abort") /\ At(r, {"unstage"}) => mpu[x].status = "aborted"

MetaInv == StagedMetaKept /\ \A r \in Requests : MetaInHand(r)

\* A write is undisturbed while no removal and no restore runs, and then what it
\* names is out of the Trash; a removal takes back what was promised of its name
\* or its content, and trashes nothing that another name promises - unless it
\* counted names without its own.
QuietIsAlone == \A r, s \in Requests : Promises(r) /\ s \in Running => req[s].kind \notin Removing

PromiseIsOut(r) ==
  Promises(r) /\ req[r].fresh /\ At(r, {"flip", "meta", "map"}) => ~isObjectDeleted(req[r].cid)

TakesBack(r) ==
  /\ Is(r, "delete") => acked[req[r].key] = None
  /\ Is(r, "trash") => Unpromised(req[r].cid)
  /\ Is(r, "delete") /\ At(r, {"owns", "stamp"}) => req[r].cid \in misled \/ Unpromised(req[r].cid)

AckInv ==
  /\ AckedIsReadable /\ QuietIsAlone
  /\ \A r \in Requests : PromiseIsOut(r) /\ TakesBack(r)

\* Removals of one content that overlap are known to; one that finds itself the
\* last only on its second count is, too.
Removes(r) == r \in Running /\ req[r].kind \in Removals
Meet(r, s) == Removes(r) /\ Removes(s) /\ req[r].cid = req[s].cid => req[r].cid \in crossed
Late(r)    ==
  /\ Is(r, "delete") /\ ~req[r].last /\ At(r, {"owns", "stamp"}) => req[r].cid \in crossed
  /\ Is(r, "delete") /\ At(r, {"recount"}) => ~req[r].last

\* The content goes to the Trash before its last name is hidden, and once.
TrashesFirst(r) ==
  /\ Is(r, "delete") /\ req[r].last /\ At(r, {"hide"}) =>
       trashedAt[req[r].cid] > 0 \/ req[r].cid \in upset
  /\ Removes(r) /\ At(r, {"stamp"}) =>
       lastHidden[req[r].cid] = None \/ req[r].cid \in upset \cup crossed

\* Content without names is in the Trash, or a deletion is about to look.
Guarding(r, c) == Is(r, "delete") /\ req[r].cid = c /\ ~req[r].last /\ At(r, {"recount", "owns", "stamp"})
Guarded ==
  \A c \in Contents :
    lastHidden[c] # None /\ c \notin upset =>
      trashedAt[c] > 0 \/ (Unnamed(c) /\ \E r \in Requests : Guarding(r, c))

\* The name that was the last was hidden after its content was trashed.
HiddenLater ==
  \A c \in Contents : \A k \in Keys :
    /\ lastHidden[c] = k /\ trashedAt[c] > 0 /\ c \notin upset \cup crossed
    /\ key[k].cid = c /\ key[k].gone > 0
    => key[k].gone >= trashedAt[c]

TrashInv ==
  /\ \A r, s \in Requests : r # s => Meet(r, s)
  /\ \A r \in Requests : Late(r) /\ TrashesFirst(r)
  /\ Guarded /\ HiddenLater

Inv == Typed /\ MetaInv /\ AckInv /\ TrashInv

(***************************************************************************)
(* Requests from one state to the next                                     *)
(***************************************************************************)
\* What a request is about does not change while it runs, and it is not made
\* undisturbed again.
SameReq(r) ==
  /\ req'[r].kind = req[r].kind /\ req'[r].cid = req[r].cid
  /\ req[r].kind \in Writes =>
       /\ req'[r].key = req[r].key /\ req'[r].fresh = req[r].fresh
       /\ req'[r].quiet => req[r].quiet
  /\ req[r].kind \in {"complete", "abort"} => req'[r].upload = req[r].upload
  /\ req[r].kind = "delete" => req'[r].key = req[r].key /\ req'[r].last = req[r].last

Stands(r) ==
  /\ r \in Running' <=> r \in Running
  /\ r \in Running => /\ SameReq(r) /\ req'[r].phase = req[r].phase
                      /\ req[r].kind \in Writes => req'[r].meta = req[r].meta

Others(r) == \A s \in Requests : s # r => Stands(s)

\* A request runs when it is one of those that may be asked.
LEMMA Runs ==
  ASSUME Typed, NEW r \in Requests
  PROVE  /\ r \in Running <=> req[r] \in Asked
         /\ r \in Running => req[r].phase \in Phases /\ req[r].cid \in Contents \cup {None}
<1>1. \A q \in Asked : /\ q # Idle /\ q # Done
                       /\ q.phase \in Phases /\ q.cid \in Contents \cup {None}
  <2>1. Idle.phase = "idle" /\ Done.phase = "done"
    BY DEF Idle, Done
  <2>2. \A q \in Asked : q.phase \in Phases /\ q.cid \in Contents \cup {None}
    BY DEF Asked, Puts, Completions, Copies, Aborts, Deletions, Trashings, Restores, Phases
  <2>3. "idle" \notin Phases /\ "done" \notin Phases
    BY DEF Phases
  <2> QED BY <2>1, <2>2, <2>3
<1> QED BY <1>1 DEF Typed, Running

\* The same in the next state.
LEMMA RunsNext ==
  ASSUME NEW r \in Requests, req' \in [Requests -> {Idle, Done} \cup Asked]
  PROVE  /\ r \in Running' <=> req'[r] \in Asked
         /\ r \in Running' => req'[r].phase \in Phases /\ req'[r].cid \in Contents \cup {None}
<1>1. \A q \in Asked : /\ q # Idle /\ q # Done
                       /\ q.phase \in Phases /\ q.cid \in Contents \cup {None}
  <2>1. Idle.phase = "idle" /\ Done.phase = "done"
    BY DEF Idle, Done
  <2>2. \A q \in Asked : q.phase \in Phases /\ q.cid \in Contents \cup {None}
    BY DEF Asked, Puts, Completions, Copies, Aborts, Deletions, Trashings, Restores, Phases
  <2>3. "idle" \notin Phases /\ "done" \notin Phases
    BY DEF Phases
  <2> QED BY <2>1, <2>2, <2>3
<1> QED BY <1>1 DEF Running

\* A request that keeps its record stands.
LEMMA Standing ==
  ASSUME NEW s \in Requests, req'[s] = req[s]
  PROVE  Stands(s)
BY DEF Stands, SameReq, Running

\* The phases of each kind.
MayGo(kind) ==
  CASE kind = "put" -> {"own", "map"}
    [] kind = "complete" -> {"own", "flip", "meta", "map", "unstage"}
    [] kind = "copy" -> {"authorize", "map"}
    [] kind = "abort" -> {"abort", "unstage"}
    [] kind = "delete" -> {"count", "owns", "stamp", "hide", "recount"}
    [] kind = "trash" -> {"owns", "stamp"}
    [] kind = "restore" -> {"unown", "unhide"}

\* A running request goes to another phase.
LEMMA StepMoves ==
  ASSUME Typed, NEW r \in Running, NEW p \in MayGo(req[r].kind), Step(r, p)
  PROVE  /\ req' \in [Requests -> {Idle, Done} \cup Asked]
         /\ r \in Running' /\ Others(r) /\ SameReq(r) /\ req'[r].phase = p
         /\ req[r].kind \in Writes => req'[r].meta = req[r].meta
<1>1. r \in Requests /\ req[r] \in Asked
  BY Runs DEF Running
<1>2. /\ req'[r] = [req[r] EXCEPT !.phase = p]
      /\ \A s \in Requests : s # r => req'[s] = req[s]
      /\ req' = [req EXCEPT ![r] = req'[r]]
  BY <1>1 DEF Step, Typed
<1>3. /\ req'[r] \in Asked /\ SameReq(r) /\ req'[r].phase = p
      /\ req[r].kind \in Writes => req'[r].meta = req[r].meta
  <2>1. CASE req[r] \in Puts
    BY <1>2, <2>1 DEF Puts, Asked, MayGo, SameReq, Writes
  <2>2. CASE req[r] \in Completions
    BY <1>2, <2>2 DEF Completions, Asked, MayGo, SameReq, Writes
  <2>3. CASE req[r] \in Copies
    BY <1>2, <2>3 DEF Copies, Asked, MayGo, SameReq, Writes
  <2>4. CASE req[r] \in Aborts
    BY <1>2, <2>4 DEF Aborts, Asked, MayGo, SameReq, Writes
  <2>5. CASE req[r] \in Deletions
    BY <1>2, <2>5 DEF Deletions, Asked, MayGo, SameReq, Writes
  <2>6. CASE req[r] \in Trashings
    BY <1>2, <2>6 DEF Trashings, Asked, MayGo, SameReq, Writes
  <2>7. CASE req[r] \in Restores
    BY <1>2, <2>7 DEF Restores, Asked, MayGo, SameReq, Writes
  <2> QED BY <1>1, <2>1, <2>2, <2>3, <2>4, <2>5, <2>6, <2>7 DEF Asked
<1>4. req' \in [Requests -> {Idle, Done} \cup Asked]
  BY <1>1, <1>2, <1>3 DEF Typed
<1>5. Others(r)
  BY <1>2, Standing DEF Others
<1> QED BY <1>1, <1>3, <1>4, <1>5, RunsNext

\* A request is answered.
LEMMA AnswerMoves ==
  ASSUME Typed, NEW r \in Requests, Answer(r)
  PROVE  /\ req' \in [Requests -> {Idle, Done} \cup Asked]
         /\ r \notin Running' /\ Others(r)
<1>1. req'[r] = Done /\ \A s \in Requests : s # r => req'[s] = req[s]
  BY DEF Answer, Typed
<1>2. Others(r)
  BY <1>1, Standing DEF Others
<1>3. req' \in [Requests -> {Idle, Done} \cup Asked]
  BY <1>1 DEF Answer, Typed
<1> QED BY <1>1, <1>2, <1>3 DEF Running

\* A request begins.
LEMMA BeginMoves ==
  ASSUME Typed, NEW r \in Requests, NEW q \in Asked, Begin(r, q)
  PROVE  /\ req' \in [Requests -> {Idle, Done} \cup Asked]
         /\ r \notin Running /\ r \in Running' /\ Others(r) /\ req'[r] = q
<1>1. req[r] = Idle /\ req'[r] = q /\ \A s \in Requests : s # r => req'[s] = req[s]
  BY DEF Begin, Typed
<1>2. Others(r)
  BY <1>1, Standing DEF Others
<1>3. req' \in [Requests -> {Idle, Done} \cup Asked]
  BY <1>1 DEF Begin, Typed
<1> QED BY <1>1, <1>2, <1>3, RunsNext DEF Running

\* ... and disturbs the writes under way.
LEMMA DisturbMoves ==
  ASSUME Typed, NEW r \in Requests, NEW q \in Asked, Disturb(r, q)
  PROVE  /\ req' \in [Requests -> {Idle, Done} \cup Asked]
         /\ r \notin Running /\ r \in Running' /\ Others(r) /\ req'[r] = q
         /\ \A s \in Requests : s # r /\ s \in Running /\ req[s].kind \in Writes => ~req'[s].quiet
<1>1. req[r] = Idle /\ req'[r] = q
  BY DEF Disturb
<1>2. ASSUME NEW s \in Requests, s # r
      PROVE  /\ req'[s] \in {Idle, Done} \cup Asked /\ Stands(s)
             /\ s \in Running /\ req[s].kind \in Writes => ~req'[s].quiet
  <2>1. CASE s \in Running /\ req[s].kind \in Writes
    <3>1. req'[s] = [req[s] EXCEPT !.quiet = FALSE]
      BY <1>2, <2>1 DEF Disturb
    <3>2. req[s] \in Puts \cup Completions \cup Copies
      BY <2>1, Runs DEF Asked, Aborts, Deletions, Trashings, Restores, Writes
    <3>3. /\ req'[s] \in Asked /\ SameReq(s) /\ req'[s].phase = req[s].phase
          /\ req'[s].meta = req[s].meta /\ ~req'[s].quiet
      <4>1. CASE req[s] \in Puts
        BY <3>1, <4>1 DEF Puts, Asked, SameReq, Writes
      <4>2. CASE req[s] \in Completions
        BY <3>1, <4>2 DEF Completions, Asked, SameReq, Writes
      <4>3. CASE req[s] \in Copies
        BY <3>1, <4>3 DEF Copies, Asked, SameReq, Writes
      <4> QED BY <3>2, <4>1, <4>2, <4>3
    <3>4. s \in Running'
      <4>1. req'[s].phase \in Phases
        BY <2>1, <3>3, Runs
      <4> QED BY <4>1 DEF Running, Idle, Done, Phases
    <3> QED BY <2>1, <3>3, <3>4 DEF Stands
  <2>2. CASE ~(s \in Running /\ req[s].kind \in Writes)
    <3>1. req'[s] = req[s]
      BY <1>2, <2>2 DEF Disturb
    <3> QED BY <2>2, <3>1, Standing DEF Typed
  <2> QED BY <2>1, <2>2
<1>3. req' \in [Requests -> {Idle, Done} \cup Asked]
  BY <1>1, <1>2 DEF Disturb
<1> QED BY <1>1, <1>2, <1>3, RunsNext DEF Others, Running

(***************************************************************************)
(* Types                                                                   *)
(***************************************************************************)
\* The types of the next state, from what it holds besides the requests.
LEMMA TypesNext ==
  ASSUME req' \in [Requests -> {Idle, Done} \cup Asked],
         mpu' \in [Multiparts -> [status : {"none"}] \cup Uploaded],
         trashedAt' \in [Contents -> 0..now'],
         key' \in [Keys -> [cid : Contents \cup {None}, gone : 0..now', meta : Multiparts \cup {None}]],
         staged' \subseteq Multiparts, written' \subseteq Multiparts,
         now' \in Nat, faults' \in 0..MaxFaults,
         lastHidden' \in [Contents -> Keys \cup {None}],
         upset' \subseteq Contents, crossed' \subseteq Contents, misled' \subseteq Contents,
         acked' \in [Keys -> Contents \cup {None}]
  PROVE  Typed'
<1>1. \A r \in Running' : req'[r].phase \in Phases /\ req'[r].cid \in Contents \cup {None}
  BY RunsNext DEF Running
<1>2. \A x \in Multiparts : mpu'[x].status \in {"none", "open", "claimed", "done", "gone", "aborted"}
  BY DEF Uploaded
<1> QED BY <1>1, <1>2 DEF Typed, TypeOK

\* A step that changes requests, uploads and staged metadata only.
LEMMA TypesKept ==
  ASSUME Typed, req' \in [Requests -> {Idle, Done} \cup Asked],
         mpu' \in [Multiparts -> [status : {"none"}] \cup Uploaded],
         staged' \subseteq Multiparts, UNCHANGED <<names, time, hist>>
  PROVE  Typed'
BY TypesNext DEF Typed, TypeOK, names, time, hist

\* The kind of a request that runs, from its phase.
LEMMA KindOf ==
  ASSUME Typed, NEW r \in Running
  PROVE  /\ r \in Requests /\ req[r] \in Asked
         /\ req[r].phase \in MayGo(req[r].kind)
         /\ req[r].kind \in {"put", "complete", "copy", "abort", "delete", "trash", "restore"}
         /\ req[r].kind # "abort" => req[r].cid \in Contents
         /\ req[r].kind \in Writes => /\ req[r].key \in Keys /\ req[r].meta \in Multiparts \cup {None}
                                      /\ req[r].quiet \in BOOLEAN /\ req[r].fresh \in BOOLEAN
         /\ req[r].kind \in {"complete", "abort"} => req[r].upload \in Multiparts
         /\ req[r].kind = "delete" => req[r].key \in Keys /\ req[r].last \in BOOLEAN
         /\ req[r].kind = "restore" => req[r].since \in Nat
<1>1. r \in Requests /\ req[r] \in Asked
  BY Runs DEF Running
<1>2. CASE req[r] \in Puts
  BY <1>1, <1>2 DEF Puts, MayGo, Writes
<1>3. CASE req[r] \in Completions
  BY <1>1, <1>3 DEF Completions, MayGo, Writes
<1>4. CASE req[r] \in Copies
  BY <1>1, <1>4 DEF Copies, MayGo, Writes
<1>5. CASE req[r] \in Aborts
  BY <1>1, <1>5 DEF Aborts, MayGo, Writes
<1>6. CASE req[r] \in Deletions
  BY <1>1, <1>6 DEF Deletions, MayGo, Writes
<1>7. CASE req[r] \in Trashings
  BY <1>1, <1>7 DEF Trashings, MayGo, Writes
<1>8. CASE req[r] \in Restores
  BY <1>1, <1>8 DEF Restores, MayGo, Writes
<1> QED BY <1>1, <1>2, <1>3, <1>4, <1>5, <1>6, <1>7, <1>8 DEF Asked

(***************************************************************************)
(* What steps leave alone, part by part of the invariant                   *)
(***************************************************************************)
LEMMA MetaFrame ==
  ASSUME Typed, MetaInv, NEW r, Others(r),
         StagedMetaKept', MetaInHand(r)', written \subseteq written',
         \A x \in Multiparts : mpu[x].status # "none" =>
           /\ mpu'[x].status # "none"
           /\ mpu[x].status = "aborted" => mpu'[x].status = "aborted"
           /\ x \in staged' => x \in staged
  PROVE  MetaInv'
<1>1. ASSUME NEW s \in Requests, s # r PROVE MetaInHand(s)'
  <2>1. Stands(s) /\ MetaInHand(s)
    BY <1>1 DEF Others, MetaInv
  <2>2. CASE Is(s, "complete") \/ Is(s, "abort")
    <3>1. /\ req[s].upload \in Multiparts /\ req'[s].upload = req[s].upload
          /\ req'[s].kind = req[s].kind /\ req'[s].phase = req[s].phase
          /\ req[s].kind = "complete" => req'[s].meta = req[s].meta
      BY <2>1, <2>2, KindOf DEF Stands, SameReq, Is, Writes
    <3> QED BY <2>1, <2>2, <3>1 DEF MetaInHand, Is, At, Stands
  <2>3. CASE ~(Is(s, "complete") \/ Is(s, "abort"))
    <3>1. ~(Is(s, "complete") \/ Is(s, "abort"))'
      BY <2>1, <2>3 DEF Stands, SameReq, Is
    <3> QED BY <3>1 DEF MetaInHand
  <2> QED BY <2>2, <2>3
<1> QED BY <1>1 DEF MetaInv

\* A step that leaves uploads and metadata alone, of a request that does not
\* come to the point where it holds metadata.
LEMMA MetaSame ==
  ASSUME Typed, MetaInv, NEW r, Others(r), UNCHANGED <<mpu, staged, written>>,
         Is(r, "complete")' \/ Is(r, "abort")' =>
           r \in Running /\ SameReq(r) /\ req'[r].phase \notin {"map", "unstage"}
  PROVE  MetaInv'
<1>1. StagedMetaKept'
  BY DEF MetaInv, StagedMetaKept
<1>2. MetaInHand(r)'
  <2>1. CASE Is(r, "complete")' \/ Is(r, "abort")'
    <3>1. /\ r \in Running /\ req'[r].kind = req[r].kind /\ req'[r].upload = req[r].upload
          /\ req'[r].phase \notin {"map", "unstage"}
      BY <2>1 DEF Is, SameReq
    <3>2. r \in Requests
      BY <3>1 DEF Running
    <3>3. MetaInHand(r)
      BY <3>2 DEF MetaInv
    <3> QED BY <3>1, <3>3 DEF MetaInHand, Is, At
  <2>2. CASE ~(Is(r, "complete")' \/ Is(r, "abort")')
    BY <2>2 DEF MetaInHand
  <2> QED BY <2>1, <2>2
<1> QED BY <1>1, <1>2, MetaFrame

LEMMA QuietFrame ==
  ASSUME QuietIsAlone, NEW r, Others(r), r \in Running' => r \in Running /\ SameReq(r)
  PROVE  QuietIsAlone'
<1>1. ASSUME NEW s \in Requests, s \in Running'
      PROVE  /\ s \in Running /\ req'[s].kind = req[s].kind
             /\ Promises(s)' => Promises(s)
  BY <1>1 DEF Others, Stands, SameReq, Promises
<1>2. SUFFICES ASSUME NEW s \in Requests, NEW t \in Requests, Promises(s)', t \in Running'
               PROVE  req'[t].kind \notin Removing
  BY DEF QuietIsAlone
<1>3. s \in Running'
  BY <1>2 DEF Promises
<1> QED BY <1>1, <1>2, <1>3 DEF QuietIsAlone

LEMMA AckFrame ==
  ASSUME Typed, AckInv, NEW r, Others(r),
         AckedIsReadable', QuietIsAlone', PromiseIsOut(r)', TakesBack(r)', misled \subseteq misled',
         \/ \A c \in Contents : isObjectDeleted(c)' => isObjectDeleted(c)
         \/ \A s \in Requests : s # r => ~Promises(s)
         \/ \A s \in Requests : s # r => ~Promises(s)',
         \/ \A k \in Keys : acked'[k] \in {acked[k], None}
         \/ \A s \in Requests : s # r /\ s \in Running => req[s].kind \notin Removing
  PROVE  AckInv'
<1>1. ASSUME NEW s \in Requests, s # r PROVE PromiseIsOut(s)'
  <2>1. SUFFICES ASSUME Promises(s)', req'[s].fresh, At(s, {"flip", "meta", "map"})'
                 PROVE  ~isObjectDeleted(req[s].cid)' /\ req'[s].cid = req[s].cid
    BY DEF PromiseIsOut, isObjectDeleted
  <2>2. /\ Promises(s) /\ req[s].fresh /\ At(s, {"flip", "meta", "map"}) /\ s \in Running
        /\ req'[s].cid = req[s].cid
    BY <1>1, <2>1 DEF Others, Stands, SameReq, Promises, At
  <2>3. ~isObjectDeleted(req[s].cid)
    BY <2>2 DEF AckInv, PromiseIsOut
  <2>4. req[s].cid \in Contents
    BY <2>2, KindOf DEF Promises, Writes
  <2> QED BY <1>1, <2>1, <2>2, <2>3, <2>4 DEF isObjectDeleted
<1>2. ASSUME NEW s \in Requests, s # r PROVE TakesBack(s)'
  <2>1. Stands(s) /\ TakesBack(s)
    BY <1>2 DEF Others, AckInv
  <2>2. CASE Is(s, "delete") \/ Is(s, "trash")
    <3>1. /\ req'[s].kind = req[s].kind /\ req'[s].phase = req[s].phase /\ req'[s].cid = req[s].cid
          /\ req[s].kind = "delete" => req'[s].key = req[s].key /\ req[s].key \in Keys
          /\ req[s].cid \in Contents /\ s \in Running /\ s \in Running'
      BY <2>1, <2>2, KindOf DEF Stands, SameReq, Is
    <3>2. \A k \in Keys : acked'[k] \in {acked[k], None}
      BY <1>2, <2>2, <3>1 DEF Is, Removing, Removals
    <3>3. Unpromised(req[s].cid) => Unpromised(req[s].cid)'
      BY <3>1, <3>2, S3Assumption DEF Unpromised
    <3>4. /\ (Is(s, "delete")' <=> Is(s, "delete")) /\ (Is(s, "trash")' <=> Is(s, "trash"))
          /\ (At(s, {"owns", "stamp"})' <=> At(s, {"owns", "stamp"}))
      BY <3>1 DEF Is, At
    <3>5. Unpromised(req[s].cid)' <=> \A k \in Keys : acked'[k] # req[s].cid
      BY <3>1 DEF Unpromised
    <3>6. Is(s, "delete") => acked'[req[s].key] = None
      BY <2>1, <3>1, <3>2 DEF TakesBack, Is
    <3> QED BY <2>1, <3>1, <3>3, <3>4, <3>6 DEF TakesBack, Unpromised, Is
  <2>3. CASE ~(Is(s, "delete") \/ Is(s, "trash"))
    <3>1. ~(Is(s, "delete") \/ Is(s, "trash"))'
      BY <2>1, <2>3 DEF Stands, SameReq, Is
    <3> QED BY <3>1 DEF TakesBack
  <2> QED BY <2>2, <2>3
<1> QED BY <1>1, <1>2 DEF AckInv

\* A step that leaves names, the Trash and promises alone.
LEMMA AckSame ==
  ASSUME Typed, AckInv, NEW r, Others(r), UNCHANGED <<trashedAt, key, acked, misled>>,
         QuietIsAlone', PromiseIsOut(r)', TakesBack(r)'
  PROVE  AckInv'
<1>1. \A c \in Contents : isObjectDeleted(c)' <=> isObjectDeleted(c)
  BY DEF isObjectDeleted
<1>2. AckedIsReadable'
  BY DEF AckInv, AckedIsReadable, Visible, Active, isObjectDeleted
<1> QED BY <1>1, <1>2, AckFrame

\* What a write may not do while it goes on, and a write begins only so.
LEMMA AckWrites ==
  ASSUME Typed, AckInv, NEW r, Others(r), UNCHANGED <<trashedAt, key, acked, misled>>,
         r \in Running' => req'[r].kind \in Writes \cup {"abort"},
         r \in Running' => \/ r \in Running /\ SameReq(r)
                           \/ r \notin Running /\ (Promises(r)' => Quiet),
         PromiseIsOut(r)'
  PROVE  AckInv'
<1>1. QuietIsAlone'
  <2>1. CASE r \in Running' => r \in Running /\ SameReq(r)
    BY <2>1, QuietFrame DEF AckInv
  <2>2. CASE r \in Running' /\ r \notin Running /\ (Promises(r)' => Quiet)
    <3>1. ASSUME NEW s \in Requests, s # r, s \in Running'
          PROVE  /\ s \in Running /\ req'[s].kind = req[s].kind
                 /\ Promises(s)' => Promises(s)
      BY <3>1 DEF Others, Stands, SameReq, Promises
    <3>2. req'[r].kind \notin Removing
      BY <2>2 DEF Writes, Removing, Removals
    <3>3. ASSUME NEW s \in Requests, NEW t \in Requests, Promises(s)', t \in Running', t # r
          PROVE  req'[t].kind \notin Removing
      <4>1. t \in Running /\ req'[t].kind = req[t].kind
        BY <3>1, <3>3
      <4>2. CASE s = r
        BY <2>2, <3>3, <4>1, <4>2 DEF Quiet, Writes, Removing, Removals
      <4>3. CASE s # r
        BY <3>1, <3>3, <4>1, <4>3 DEF AckInv, QuietIsAlone, Promises
      <4> QED BY <4>2, <4>3
    <3> QED BY <3>2, <3>3 DEF QuietIsAlone
  <2> QED BY <2>1, <2>2
<1>2. TakesBack(r)'
  BY DEF TakesBack, Is, Writes
<1> QED BY <1>1, <1>2, AckSame

LEMMA TrashFrame ==
  ASSUME Typed, TrashInv, NEW r, Others(r),
         crossed \subseteq crossed', Guarded', HiddenLater',
         \A s \in Requests : s # r => Meet(r, s)',
         Late(r)', TrashesFirst(r)',
         \A s \in Requests : s # r /\ Removes(s) =>
           LET c == req[s].cid
           IN /\ trashedAt[c] > 0 \/ c \in upset => trashedAt'[c] > 0 \/ c \in upset'
              /\ lastHidden[c] = None \/ c \in upset \cup crossed
                   => lastHidden'[c] = None \/ c \in upset' \cup crossed'
  PROVE  TrashInv'
<1>1. ASSUME NEW s \in Requests, s # r, Removes(s)'
      PROVE  /\ Removes(s) /\ s \in Running /\ s \in Running'
             /\ req'[s].cid = req[s].cid /\ req'[s].kind = req[s].kind
             /\ req'[s].phase = req[s].phase
             /\ req[s].kind = "delete" => req'[s].last = req[s].last
  BY <1>1 DEF Others, Stands, SameReq, Removes
<1>2. ASSUME NEW s \in Requests, NEW t \in Requests, s # t PROVE Meet(s, t)'
  <2>1. CASE s = r
    BY <1>2, <2>1
  <2>2. CASE t = r
    <3>1. Meet(r, s)'
      BY <1>2, <2>2
    <3> QED BY <2>2, <3>1 DEF Meet
  <2>3. CASE s # r /\ t # r
    <3>1. SUFFICES ASSUME Removes(s)', Removes(t)', req'[s].cid = req'[t].cid
                   PROVE  req'[s].cid \in crossed'
      BY DEF Meet
    <3> QED BY <1>1, <1>2, <2>3, <3>1 DEF TrashInv, Meet
  <2> QED BY <2>1, <2>2, <2>3
<1>3. ASSUME NEW s \in Requests, s # r PROVE Late(s)' /\ TrashesFirst(s)'
  <2>1. CASE Removes(s)'
    <3>1. Late(s) /\ TrashesFirst(s)
      BY DEF TrashInv
    <3>2. Late(s)'
      BY <1>1, <1>3, <2>1, <3>1 DEF Late, Is, At
    <3>3. TrashesFirst(s)'
      BY <1>1, <1>3, <2>1, <3>1 DEF TrashesFirst, Is, At
    <3> QED BY <3>2, <3>3
  <2>2. CASE ~Removes(s)'
    BY <2>2 DEF Late, TrashesFirst, Removes, Is, Removals
  <2> QED BY <2>1, <2>2
<1> QED BY <1>2, <1>3 DEF TrashInv

\* A step that leaves names and the Trash alone, of a request that removes nothing.
LEMMA TrashSame ==
  ASSUME Typed, TrashInv, NEW r, Others(r),
         UNCHANGED <<trashedAt, key, lastHidden, upset, crossed>>, ~Removes(r), ~Removes(r)'
  PROVE  TrashInv'
<1>1. Late(r)' /\ TrashesFirst(r)' /\ \A s \in Requests : Meet(r, s)'
  BY DEF Late, TrashesFirst, Meet, Removes, Is, Removals
<1>2. Guarded'
  <2>1. ASSUME NEW c \in Contents, NEW s \in Requests, Guarding(s, c) PROVE Guarding(s, c)'
    <3>1. s # r /\ s \in Running /\ req[s].kind = "delete"
      BY <2>1 DEF Guarding, Is, Removes, Removals
    <3> QED BY <2>1, <3>1 DEF Others, Stands, SameReq, Guarding, Is, At
  <2>2. \A c \in Contents : Unnamed(c) => Unnamed(c)'
    BY DEF Unnamed, Names, Active
  <2> QED BY <2>1, <2>2 DEF TrashInv, Guarded
<1>3. HiddenLater'
  BY DEF TrashInv, HiddenLater
<1> QED BY <1>1, <1>2, <1>3, TrashFrame

(***************************************************************************)
(* Names of a content                                                      *)
(***************************************************************************)
LEMMA CountNone ==
  ASSUME NEW c
  PROVE  /\ countActive(c) \in Nat
         /\ countActive(c) = 0 <=> Unnamed(c)
<1> DEFINE N == {k \in Keys : Names(k, c)}
<1>1. IsFiniteSet(N)
  BY S3Assumption, FS_Subset, N \in SUBSET Keys
<1>2. Cardinality(N) \in Nat /\ (Cardinality(N) = 0 <=> N = {})
  BY <1>1, FS_CardinalityType, FS_EmptySet
<1>3. N = {} <=> Unnamed(c)
  BY DEF Unnamed
<1> QED BY <1>2, <1>3 DEF countActive

LEMMA CountOne ==
  ASSUME NEW c, countActive(c) <= 1, NEW k \in Keys, Names(k, c), NEW j \in Keys, Names(j, c)
  PROVE  j = k
<1> DEFINE N == {i \in Keys : Names(i, c)}
<1>1. IsFiniteSet(N)
  BY S3Assumption, FS_Subset, N \in SUBSET Keys
<1>2. Cardinality(N) \in Nat /\ Cardinality(N) # 0
  BY <1>1, FS_CardinalityType, FS_EmptySet
<1>3. Cardinality(N) = 1
  BY <1>2 DEF countActive
<1>4. PICK i : N = {i}
  BY <1>1, <1>3, FS_Singleton
<1> QED BY <1>4

(***************************************************************************)
(* Steps of writes and uploads                                             *)
(***************************************************************************)
\* The status of an upload.
LEMMA StatusMoves ==
  ASSUME Typed, NEW x \in Multiparts, mpu[x].status # "none",
         NEW p \in {"open", "claimed", "done", "gone", "aborted"},
         mpu' = [mpu EXCEPT ![x].status = p]
  PROVE  /\ mpu' \in [Multiparts -> [status : {"none"}] \cup Uploaded]
         /\ mpu'[x].status = p /\ mpu'[x].meta = mpu[x].meta
         /\ \A y \in Multiparts : y # x => mpu'[y] = mpu[y]
<1>1. mpu[x] \in Uploaded
  BY DEF Typed
<1>2. mpu'[x] = [mpu[x] EXCEPT !.status = p] /\ \A y \in Multiparts : y # x => mpu'[y] = mpu[y]
  BY DEF Typed
<1>3. mpu'[x] \in Uploaded /\ mpu'[x].status = p /\ mpu'[x].meta = mpu[x].meta
  BY <1>1, <1>2 DEF Uploaded
<1> QED BY <1>2, <1>3 DEF Typed

\* A step of a write, or of an abort, that leaves the names and the Trash alone.
LEMMA WriteStep ==
  ASSUME Inv, NEW r, Others(r), UNCHANGED <<names, time, lastHidden, upset, crossed, misled, acked, written>>,
         req' \in [Requests -> {Idle, Done} \cup Asked],
         mpu' \in [Multiparts -> [status : {"none"}] \cup Uploaded], staged' \subseteq Multiparts,
         MetaInv', PromiseIsOut(r)',
         r \in Running => req[r].kind \in Writes \cup {"abort"},
         r \in Running' => req'[r].kind \in Writes \cup {"abort"},
         r \in Running' => \/ r \in Running /\ SameReq(r)
                           \/ r \notin Running /\ (Promises(r)' => Quiet)
  PROVE  Inv'
<1>1. Typed'
  BY TypesKept DEF Inv, hist
<1>2. AckInv'
  BY AckWrites DEF Inv, names
<1>3. TrashInv'
  <2>1. ~Removes(r) /\ ~Removes(r)'
    BY DEF Removes, Removals, Writes
  <2> QED BY <2>1, TrashSame DEF Inv, names
<1> QED BY <1>1, <1>2, <1>3 DEF Inv

LEMMA PutStep ==
  ASSUME Inv, NEW r \in Requests, NEW k \in Keys, NEW c \in Contents, PutObject(r, k, c)
  PROVE  Inv'
<1> DEFINE q == [phase |-> "own", kind |-> "put", key |-> k, cid |-> c, meta |-> None,
                 quiet |-> Quiet, fresh |-> TRUE]
<1>1. Quiet \in BOOLEAN
  BY DEF Quiet
<1>2. q \in Puts /\ q.kind = "put" /\ q.phase = "own" /\ q.quiet = Quiet
  BY <1>1 DEF Puts
<1>3. Begin(r, q) /\ UNCHANGED <<names, multi, time, hist>>
  BY DEF PutObject
<1> HIDE DEF q
<1>4. /\ req' \in [Requests -> {Idle, Done} \cup Asked]
      /\ r \notin Running /\ r \in Running' /\ Others(r) /\ req'[r] = q
  BY <1>2, <1>3, BeginMoves DEF Inv, Asked
<1>5. MetaInv'
  BY <1>2, <1>3, <1>4, MetaSame DEF Inv, multi, hist, Is
<1>6. PromiseIsOut(r)'
  BY <1>2, <1>4 DEF PromiseIsOut, At
<1>7. Promises(r)' => Quiet
  BY <1>2, <1>4 DEF Promises
<1> QED BY <1>2, <1>3, <1>4, <1>5, <1>6, <1>7, WriteStep DEF Inv, Typed, TypeOK, multi, hist, Writes

LEMMA CopyStep ==
  ASSUME Inv, NEW r \in Requests, NEW source \in Keys, NEW k \in Keys, NEW replace \in BOOLEAN,
         CopyObject(r, source, k, replace)
  PROVE  Inv'
<1> DEFINE q == [phase |-> "authorize", kind |-> "copy", key |-> k, cid |-> key[source].cid,
                 meta |-> IF replace THEN None ELSE key[source].meta,
                 quiet |-> Quiet, fresh |-> TRUE]
<1>1. Quiet \in BOOLEAN /\ key[source].cid \in Contents /\ key[source].meta \in Multiparts \cup {None}
  BY DEF Quiet, CopyObject, Active, Inv, Typed, TypeOK
<1>2. q \in Copies /\ q.kind = "copy" /\ q.phase = "authorize" /\ q.quiet = Quiet
  BY <1>1 DEF Copies
<1>3. Begin(r, q) /\ UNCHANGED <<names, multi, time, hist>>
  BY DEF CopyObject
<1> HIDE DEF q
<1>4. /\ req' \in [Requests -> {Idle, Done} \cup Asked]
      /\ r \notin Running /\ r \in Running' /\ Others(r) /\ req'[r] = q
  BY <1>2, <1>3, BeginMoves DEF Inv, Asked
<1>5. MetaInv'
  BY <1>2, <1>3, <1>4, MetaSame DEF Inv, multi, hist, Is
<1>6. PromiseIsOut(r)'
  BY <1>2, <1>4 DEF PromiseIsOut, At
<1>7. Promises(r)' => Quiet
  BY <1>2, <1>4 DEF Promises
<1> QED BY <1>2, <1>3, <1>4, <1>5, <1>6, <1>7, WriteStep DEF Inv, Typed, TypeOK, multi, hist, Writes

LEMMA AbortStep ==
  ASSUME Inv, NEW r \in Requests, NEW x \in Multiparts, AbortMultipart(r, x)
  PROVE  Inv'
<1> DEFINE q == [phase |-> "abort", kind |-> "abort", upload |-> x, cid |-> None]
<1>1. q \in Aborts /\ q.kind = "abort" /\ q.phase = "abort" /\ q.upload = x
  BY DEF Aborts
<1>2. Begin(r, q) /\ mpu[x].status = "open" /\ UNCHANGED <<names, multi, time, hist>>
  BY DEF AbortMultipart
<1> HIDE DEF q
<1>3. /\ req' \in [Requests -> {Idle, Done} \cup Asked]
      /\ r \notin Running /\ r \in Running' /\ Others(r) /\ req'[r] = q
  BY <1>1, <1>2, BeginMoves DEF Inv, Asked
<1>4. MetaInv'
  <2>1. MetaInHand(r)'
    BY <1>1, <1>2, <1>3 DEF MetaInHand, Is, At, multi
  <2>2. StagedMetaKept'
    BY <1>2 DEF Inv, MetaInv, StagedMetaKept, multi, hist
  <2> QED BY <1>2, <1>3, <2>1, <2>2, MetaFrame DEF Inv, multi, hist
<1>5. PromiseIsOut(r)' /\ ~Promises(r)'
  BY <1>1, <1>3 DEF PromiseIsOut, Promises, Writes
<1> QED BY <1>1, <1>2, <1>3, <1>4, <1>5, WriteStep DEF Inv, Typed, TypeOK, multi, hist

LEMMA CompleteStep ==
  ASSUME Inv, NEW r \in Requests, NEW x \in Multiparts, CompleteMultipart(r, x)
  PROVE  Inv'
<1> DEFINE q == [phase |-> IF mpu[x].status = "open" THEN "own" ELSE "meta",
                 kind |-> "complete", upload |-> x, key |-> mpu[x].key, cid |-> mpu[x].cid,
                 meta |-> None, quiet |-> Quiet, fresh |-> mpu[x].status = "open"]
<1>1. Quiet \in BOOLEAN /\ mpu[x].key \in Keys /\ mpu[x].cid \in Contents /\ mpu[x].status \in {"open", "done"}
  BY DEF Quiet, CompleteMultipart, Inv, Typed, Uploaded
<1>2. /\ q \in Completions /\ q.kind = "complete" /\ q.quiet = Quiet /\ q.upload = x
      /\ q.phase \in {"own", "meta"} /\ (q.fresh => q.phase = "own")
  BY <1>1 DEF Completions
<1>3. Begin(r, q) /\ UNCHANGED <<names, staged, time, hist>>
  BY DEF CompleteMultipart
<1>4. mpu' = mpu \/ (mpu[x].status = "open" /\ mpu' = [mpu EXCEPT ![x].status = "claimed"])
  BY DEF CompleteMultipart
<1> HIDE DEF q
<1>5. /\ req' \in [Requests -> {Idle, Done} \cup Asked]
      /\ r \notin Running /\ r \in Running' /\ Others(r) /\ req'[r] = q
  BY <1>2, <1>3, BeginMoves DEF Inv, Asked
<1>6. /\ mpu' \in [Multiparts -> [status : {"none"}] \cup Uploaded]
      /\ mpu'[x].status # "none" /\ mpu'[x].meta = mpu[x].meta
      /\ \A y \in Multiparts : y # x => mpu'[y] = mpu[y]
  <2>1. CASE mpu' = mpu
    BY <1>1, <2>1 DEF Inv, Typed
  <2>2. CASE mpu[x].status = "open" /\ mpu' = [mpu EXCEPT ![x].status = "claimed"]
    BY <2>2, StatusMoves DEF Inv
  <2> QED BY <1>4, <2>1, <2>2
<1>7. MetaInv'
  <2>1. MetaInHand(r)'
    BY <1>2, <1>5, <1>6 DEF MetaInHand, Is, At
  <2>2. StagedMetaKept'
    BY <1>1, <1>3, <1>6 DEF Inv, MetaInv, StagedMetaKept, hist
  <2> QED BY <1>1, <1>3, <1>5, <1>6, <2>1, <2>2, MetaFrame DEF Inv, hist
<1>8. PromiseIsOut(r)'
  BY <1>2, <1>5 DEF PromiseIsOut, At
<1>9. Promises(r)' => Quiet
  BY <1>2, <1>5 DEF Promises
<1> QED BY <1>2, <1>3, <1>5, <1>6, <1>7, <1>8, <1>9, WriteStep DEF Inv, Typed, TypeOK, hist, Writes

\* A write or an abort is answered, its upload and metadata as they were.
LEMMA AnswerStep ==
  ASSUME Inv, NEW r \in Running, req[r].kind \in Writes \cup {"abort"}, Answer(r),
         UNCHANGED <<names, multi, time, hist>>
  PROVE  Inv'
<1>1. /\ req' \in [Requests -> {Idle, Done} \cup Asked]
      /\ r \notin Running' /\ Others(r)
  BY AnswerMoves DEF Inv, Running
<1>2. MetaInv'
  BY <1>1, MetaSame DEF Inv, multi, hist, Is
<1>3. PromiseIsOut(r)'
  BY <1>1 DEF PromiseIsOut, Promises
<1> QED BY <1>1, <1>2, <1>3, WriteStep DEF Inv, Typed, TypeOK, multi, hist

LEMMA OwnLostStep ==
  ASSUME Inv, NEW r \in Requests, OwnLost(r)
  PROVE  Inv'
<1>1. r \in Running /\ req[r].kind \in Writes
  <2>1. r \in Running
    BY DEF OwnLost, Running, Idle, Done
  <2> QED BY <2>1, KindOf DEF Inv, OwnLost, MayGo, Writes, Lost
<1> QED BY <1>1, AnswerStep DEF OwnLost

LEMMA AuthorizeStep ==
  ASSUME Inv, NEW r \in Requests, Authorize(r)
  PROVE  Inv'
<1>1. r \in Running /\ req[r].kind = "copy" /\ req[r].phase = "authorize"
  <2>1. r \in Running /\ req[r].phase = "authorize"
    BY DEF Authorize, Running, Idle, Done
  <2> QED BY <2>1, KindOf DEF Inv, MayGo
<1>2. CASE isObjectDeleted(req[r].cid)
  BY <1>1, <1>2, AnswerStep DEF Authorize, Writes
<1>3. CASE ~isObjectDeleted(req[r].cid)
  <2>1. Step(r, "map") /\ "map" \in MayGo(req[r].kind)
    BY <1>1, <1>3 DEF Authorize, MayGo
  <2>2. /\ req' \in [Requests -> {Idle, Done} \cup Asked]
        /\ r \in Running' /\ Others(r) /\ SameReq(r) /\ req'[r].phase = "map"
    BY <1>1, <2>1, StepMoves DEF Inv
  <2>3. UNCHANGED <<names, multi, time, hist>>
    BY DEF Authorize
  <2>4. MetaInv'
    BY <1>1, <2>2, <2>3, MetaSame DEF Inv, SameReq, Is, multi, hist
  <2>5. PromiseIsOut(r)'
    BY <1>3, <2>2, <2>3 DEF PromiseIsOut, SameReq, isObjectDeleted, names
  <2>6. req'[r].kind \in Writes /\ req[r].kind \in Writes
    BY <1>1, <2>2 DEF SameReq, Writes
  <2> QED BY <1>1, <2>2, <2>3, <2>4, <2>5, <2>6, WriteStep DEF Inv, Typed, TypeOK, multi, hist
<1> QED BY <1>2, <1>3

LEMMA RemoveUploadStep ==
  ASSUME Inv, NEW r \in Requests, RemoveUpload(r)
  PROVE  Inv'
<1> DEFINE x == req[r].upload
<1>1. r \in Running /\ req[r].kind = "abort" /\ x \in Multiparts
  <2>1. r \in Running /\ req[r].phase = "abort"
    BY DEF RemoveUpload, Running, Idle, Done
  <2> QED BY <2>1, KindOf DEF Inv, MayGo
<1>2. /\ mpu' = [mpu EXCEPT ![x].status = "aborted"] /\ Step(r, "unstage")
      /\ "unstage" \in MayGo(req[r].kind) /\ UNCHANGED <<names, staged, time, hist>>
  BY <1>1 DEF RemoveUpload, MayGo
<1>3. /\ req' \in [Requests -> {Idle, Done} \cup Asked]
      /\ r \in Running' /\ Others(r) /\ SameReq(r) /\ req'[r].phase = "unstage"
  BY <1>1, <1>2, StepMoves DEF Inv
<1>4. req'[r].kind = "abort" /\ req'[r].upload = x
  BY <1>1, <1>3 DEF SameReq
<1>5. mpu[x].status # "none"
  BY <1>1 DEF Inv, MetaInv, MetaInHand, Is
<1>6. /\ mpu' \in [Multiparts -> [status : {"none"}] \cup Uploaded]
      /\ mpu'[x].status = "aborted"
      /\ \A y \in Multiparts : y # x => mpu'[y] = mpu[y]
  BY <1>1, <1>2, <1>5, StatusMoves DEF Inv
<1>7. MetaInv'
  <2>1. MetaInHand(r)'
    BY <1>4, <1>6 DEF MetaInHand, Is
  <2>2. StagedMetaKept'
    BY <1>2, <1>6 DEF Inv, MetaInv, StagedMetaKept, hist
  <2> QED BY <1>2, <1>3, <1>6, <2>1, <2>2, MetaFrame DEF Inv, hist
<1>8. PromiseIsOut(r)'
  BY <1>4 DEF PromiseIsOut, Promises, Writes
<1> QED BY <1>1, <1>2, <1>3, <1>4, <1>6, <1>7, <1>8, WriteStep DEF Inv, Typed, TypeOK, hist

LEMMA UnstageStep ==
  ASSUME Inv, NEW r \in Requests, Unstage(r)
  PROVE  Inv'
<1> DEFINE x == req[r].upload
<1>1. /\ r \in Running /\ req[r].kind \in {"complete", "abort"} /\ x \in Multiparts
      /\ req[r].phase = "unstage"
  <2>1. r \in Running /\ req[r].phase = "unstage"
    BY DEF Unstage, Running, Idle, Done
  <2> QED BY <2>1, KindOf DEF Inv, MayGo
<1>2. /\ staged' = staged \ {x} /\ UNCHANGED <<names, mpu, time, hist>>
      /\ req' \in [Requests -> {Idle, Done} \cup Asked] /\ r \notin Running' /\ Others(r)
  BY AnswerMoves DEF Unstage, Inv
<1>3. mpu[x].status = "aborted" \/ (x \in staged => x \in written)
  BY <1>1 DEF Inv, MetaInv, MetaInHand, Is, At
<1>4. MetaInv'
  <2>1. MetaInHand(r)'
    BY <1>2 DEF MetaInHand, Is
  <2>2. StagedMetaKept'
    BY <1>2, <1>3 DEF Inv, MetaInv, StagedMetaKept, hist
  <2> QED BY <1>2, <2>1, <2>2, MetaFrame DEF Inv, hist
<1>5. PromiseIsOut(r)'
  BY <1>2 DEF PromiseIsOut, Promises
<1> QED BY <1>1, <1>2, <1>4, <1>5, WriteStep DEF Inv, Typed, TypeOK, hist, Writes

LEMMA FlipStep ==
  ASSUME Inv, NEW r \in Requests, Flip(r)
  PROVE  Inv'
<1> DEFINE x == req[r].upload
<1>1. r \in Running /\ req[r].kind = "complete" /\ x \in Multiparts /\ req[r].phase = "flip"
  <2>1. r \in Running /\ req[r].phase = "flip"
    BY DEF Flip, Running, Idle, Done
  <2> QED BY <2>1, KindOf DEF Inv, MayGo
<1>2. /\ mpu' = mpu \/ (mpu[x].status # "aborted" /\ mpu' = [mpu EXCEPT ![x].status = "done"])
      /\ Step(r, "meta") /\ "meta" \in MayGo(req[r].kind)
      /\ UNCHANGED <<names, staged, time, hist>>
  BY <1>1 DEF Flip, Lost, MayGo
<1>3. /\ req' \in [Requests -> {Idle, Done} \cup Asked]
      /\ r \in Running' /\ Others(r) /\ SameReq(r) /\ req'[r].phase = "meta"
  BY <1>1, <1>2, StepMoves DEF Inv
<1>4. req'[r].kind = "complete" /\ req'[r].upload = x
  BY <1>1, <1>3 DEF SameReq
<1>5. mpu[x].status # "none"
  BY <1>1 DEF Inv, MetaInv, MetaInHand, Is
<1>6. /\ mpu' \in [Multiparts -> [status : {"none"}] \cup Uploaded]
      /\ mpu'[x].status # "none" /\ (mpu[x].status = "aborted" => mpu'[x].status = "aborted")
      /\ mpu'[x].meta = mpu[x].meta
      /\ \A y \in Multiparts : y # x => mpu'[y] = mpu[y]
  <2>1. CASE mpu' = mpu
    BY <1>5, <2>1 DEF Inv, Typed
  <2>2. CASE mpu[x].status # "aborted" /\ mpu' = [mpu EXCEPT ![x].status = "done"]
    BY <1>1, <1>5, <2>2, StatusMoves DEF Inv
  <2> QED BY <1>2, <2>1, <2>2
<1>7. MetaInv'
  <2>1. MetaInHand(r)'
    BY <1>3, <1>4, <1>6 DEF MetaInHand, Is, At
  <2>2. mpu[x].status \in {"open", "claimed", "done", "gone", "aborted"}
    BY <1>1, <1>5 DEF Inv, Typed, TypeOK
  <2>3. StagedMetaKept'
    BY <1>2, <1>6, <2>2 DEF Inv, MetaInv, StagedMetaKept, hist
  <2> QED BY <1>2, <1>3, <1>6, <2>1, <2>3, MetaFrame DEF Inv, hist
<1>8. PromiseIsOut(r)'
  <2>1. PromiseIsOut(r)
    BY DEF Inv, AckInv
  <2> QED BY <1>1, <1>2, <1>3, <2>1 DEF PromiseIsOut, Promises, SameReq, At, isObjectDeleted, names, Writes
<1> QED BY <1>1, <1>2, <1>3, <1>4, <1>6, <1>7, <1>8, WriteStep DEF Inv, Typed, TypeOK, hist, Writes

LEMMA ReadMetaStep ==
  ASSUME Inv, NEW r \in Requests, ReadMeta(r)
  PROVE  Inv'
<1> DEFINE x == req[r].upload
           m == IF x \in staged THEN x ELSE None
<1>1. r \in Running /\ req[r].kind = "complete" /\ x \in Multiparts /\ req[r].phase = "meta"
  <2>1. r \in Running /\ req[r].phase = "meta"
    BY DEF ReadMeta, Running, Idle, Done
  <2> QED BY <2>1, KindOf DEF Inv, MayGo
<1>2. req[r] \in Completions /\ r \in Requests
  BY <1>1, Runs DEF Inv, Asked, Puts, Copies, Aborts, Deletions, Trashings, Restores
<1>3. /\ req'[r] = [req[r] EXCEPT !.phase = "map", !.meta = m]
      /\ \A s \in Requests : s # r => req'[s] = req[s]
      /\ req' = [req EXCEPT ![r] = req'[r]]
      /\ UNCHANGED <<names, multi, time, hist>>
  BY DEF ReadMeta, Inv, Typed
<1>4. /\ req'[r] \in Asked /\ SameReq(r) /\ req'[r].phase = "map" /\ req'[r].meta = m
      /\ req'[r].kind = "complete" /\ req'[r].upload = x
  BY <1>1, <1>2, <1>3 DEF Completions, Asked, SameReq, Writes
<1>5. Others(r)
  BY <1>3, Standing DEF Others
<1>6. req' \in [Requests -> {Idle, Done} \cup Asked] /\ r \in Running'
  <2>1. req' \in [Requests -> {Idle, Done} \cup Asked]
    BY <1>3, <1>4 DEF Inv, Typed
  <2> QED BY <1>4, <2>1, RunsNext
<1>7. MetaInv'
  <2>1. mpu[x].status # "none"
    BY <1>1 DEF Inv, MetaInv, MetaInHand, Is
  <2>2. MetaInHand(r)'
    BY <1>3, <1>4, <2>1 DEF MetaInHand, Is, At, multi
  <2>3. StagedMetaKept'
    BY <1>3 DEF Inv, MetaInv, StagedMetaKept, multi, hist
  <2> QED BY <1>3, <1>5, <2>2, <2>3, MetaFrame DEF Inv, multi, hist
<1>8. PromiseIsOut(r)'
  <2>1. PromiseIsOut(r)
    BY DEF Inv, AckInv
  <2> QED BY <1>1, <1>3, <1>4, <2>1 DEF PromiseIsOut, Promises, SameReq, At, isObjectDeleted, names, Writes
<1> QED BY <1>1, <1>3, <1>4, <1>5, <1>6, <1>7, <1>8, WriteStep DEF Inv, Typed, TypeOK, multi, hist, Writes

\* No request moves.
LEMMA NobodyMoves ==
  ASSUME UNCHANGED req
  PROVE  \E r : r \notin Requests /\ Others(r) /\ r \notin Running /\ r \notin Running'
<1>1. PICK r : r \notin Requests
  BY NoSetContainsEverything
<1>2. \A s \in Requests : Stands(s)
  BY Standing
<1> QED BY <1>1, <1>2 DEF Others, Running

LEMMA CreateMultipartStep ==
  ASSUME Inv, NEW x \in Multiparts, NEW k \in Keys, NEW c \in Contents, NEW hasMeta \in BOOLEAN,
         CreateMultipart(x, k, c, hasMeta)
  PROVE  Inv'
<1>1. /\ mpu[x].status = "none" /\ UNCHANGED <<names, req, time, hist>>
      /\ mpu' = [mpu EXCEPT ![x] = [status |-> "open", key |-> k, cid |-> c, meta |-> hasMeta]]
      /\ staged' = IF hasMeta THEN staged \cup {x} ELSE staged
  BY DEF CreateMultipart
<1>2. /\ mpu' \in [Multiparts -> [status : {"none"}] \cup Uploaded] /\ staged' \subseteq Multiparts
      /\ mpu'[x].status = "open" /\ mpu'[x].meta = hasMeta
      /\ \A y \in Multiparts : y # x => mpu'[y] = mpu[y]
  <2>1. [status |-> "open", key |-> k, cid |-> c, meta |-> hasMeta] \in Uploaded
    BY DEF Uploaded
  <2> QED BY <1>1, <2>1 DEF Inv, Typed, TypeOK
<1>3. PICK r : r \notin Requests /\ Others(r) /\ r \notin Running /\ r \notin Running'
  BY <1>1, NobodyMoves
<1>4. MetaInv'
  <2>1. MetaInHand(r)'
    BY <1>3 DEF MetaInHand, Is
  <2>2. StagedMetaKept'
    BY <1>1, <1>2 DEF Inv, MetaInv, StagedMetaKept, hist
  <2> QED BY <1>1, <1>2, <1>3, <2>1, <2>2, MetaFrame DEF Inv, hist
<1>5. PromiseIsOut(r)'
  BY <1>3 DEF PromiseIsOut, Promises
<1>6. req' \in [Requests -> {Idle, Done} \cup Asked]
  BY <1>1 DEF Inv, Typed
<1> QED BY <1>1, <1>2, <1>3, <1>4, <1>5, <1>6, WriteStep DEF hist

LEMMA MigratedStep ==
  ASSUME Inv, NEW x \in Multiparts, Migrated(x)
  PROVE  Inv'
<1>1. /\ mpu[x].status = "done" /\ mpu' = [mpu EXCEPT ![x].status = "gone"]
      /\ UNCHANGED <<names, staged, req, time, hist>>
  BY DEF Migrated
<1>2. /\ mpu' \in [Multiparts -> [status : {"none"}] \cup Uploaded]
      /\ mpu'[x].status = "gone" /\ mpu'[x].meta = mpu[x].meta
      /\ \A y \in Multiparts : y # x => mpu'[y] = mpu[y]
  BY <1>1, StatusMoves DEF Inv
<1>3. PICK r : r \notin Requests /\ Others(r) /\ r \notin Running /\ r \notin Running'
  BY <1>1, NobodyMoves
<1>4. MetaInv'
  <2>1. MetaInHand(r)'
    BY <1>3 DEF MetaInHand, Is
  <2>2. StagedMetaKept'
    BY <1>1, <1>2 DEF Inv, MetaInv, StagedMetaKept, hist
  <2> QED BY <1>1, <1>2, <1>3, <2>1, <2>2, MetaFrame DEF Inv, hist
<1>5. PromiseIsOut(r)'
  BY <1>3 DEF PromiseIsOut, Promises
<1>6. req' \in [Requests -> {Idle, Done} \cup Asked]
  BY <1>1 DEF Inv, Typed
<1> QED BY <1>1, <1>2, <1>3, <1>4, <1>5, <1>6, WriteStep DEF Inv, Typed, TypeOK, hist

\* A content leaves the Trash, and the removals of it under way are upset.
LEMMA OutOfTrash ==
  ASSUME Inv, NEW r \in Running, NEW c \in Contents, c = req[r].cid, ~Removes(r),
         Others(r), r \in Running', SameReq(r), UNCHANGED <<key, crossed, misled, acked>>,
         trashedAt' = [trashedAt EXCEPT ![c] = 0],
         upset' = IF On(c, Removals) # {} THEN upset \cup {c} ELSE upset,
         lastHidden' = [lastHidden EXCEPT ![c] = None]
  PROVE  AckInv' /\ TrashInv'
<1>1. /\ trashedAt'[c] = 0 /\ lastHidden'[c] = None /\ upset \subseteq upset'
      /\ \A d \in Contents : d # c => trashedAt'[d] = trashedAt[d] /\ lastHidden'[d] = lastHidden[d]
  BY DEF Inv, Typed, TypeOK
<1>2. ~Removes(r)' /\ req'[r].cid = c
  BY DEF Removes, SameReq
<1>3. AckInv'
  <2>1. \A d \in Contents : isObjectDeleted(d)' => isObjectDeleted(d)
    BY <1>1 DEF isObjectDeleted
  <2>2. \A k \in Keys : Visible(k) => Visible(k)'
    <3>1. SUFFICES ASSUME NEW k \in Keys, Visible(k) PROVE Visible(k)'
      OBVIOUS
    <3>2. key[k].cid \in Contents
      BY <3>1 DEF Visible, Active, Inv, Typed, TypeOK
    <3> QED BY <2>1, <3>1, <3>2 DEF Visible, Active, isObjectDeleted
  <2>3. AckedIsReadable'
    BY <2>2 DEF Inv, AckInv, AckedIsReadable
  <2>4. QuietIsAlone'
    BY QuietFrame DEF Inv, AckInv
  <2>5. PromiseIsOut(r)'
    BY <1>1, <1>2 DEF PromiseIsOut, isObjectDeleted
  <2>6. TakesBack(r)'
    BY <1>2 DEF TakesBack, Is, Removes, Removals
  <2> QED BY <2>1, <2>3, <2>4, <2>5, <2>6, AckFrame DEF Inv
<1>4. TrashInv'
  <2>1. Late(r)' /\ TrashesFirst(r)' /\ \A s \in Requests : Meet(r, s)'
    BY <1>2 DEF Late, TrashesFirst, Meet, Removes, Is, Removals
  <2>2. Guarded'
    <3>1. ASSUME NEW d \in Contents, NEW s \in Requests, Guarding(s, d) PROVE Guarding(s, d)'
      <4>1. s # r /\ s \in Running /\ req[s].kind = "delete"
        BY <3>1 DEF Guarding, Is, Removes, Removals
      <4> QED BY <3>1, <4>1 DEF Others, Stands, SameReq, Guarding, Is, At
    <3>2. \A d \in Contents : Unnamed(d) => Unnamed(d)'
      BY DEF Unnamed, Names, Active
    <3> QED BY <1>1, <3>1, <3>2 DEF Inv, TrashInv, Guarded
  <2>3. HiddenLater'
    BY <1>1 DEF Inv, TrashInv, HiddenLater
  <2>4. ASSUME NEW s \in Requests, s # r, Removes(s)
        PROVE  LET d == req[s].cid
               IN /\ trashedAt[d] > 0 \/ d \in upset => trashedAt'[d] > 0 \/ d \in upset'
                  /\ lastHidden[d] = None \/ d \in upset \cup crossed
                       => lastHidden'[d] = None \/ d \in upset' \cup crossed'
    <3>1. req[s].cid \in Contents
      BY <2>4, KindOf DEF Removes, Removals, Inv
    <3>2. req[s].cid = c => c \in upset'
      BY <2>4 DEF On, Removes
    <3> QED BY <1>1, <3>1, <3>2
  <2> QED BY <2>1, <2>2, <2>3, <2>4, TrashFrame DEF Inv
<1> QED BY <1>3, <1>4

LEMMA OwnStep ==
  ASSUME Inv, NEW r \in Requests, Own(r)
  PROVE  Inv'
<1> DEFINE c == req[r].cid
           p == IF req[r].kind = "put" THEN "map" ELSE "flip"
<1>1. r \in Running /\ req[r].kind \in {"put", "complete"} /\ c \in Contents
  <2>1. r \in Running /\ req[r].phase = "own"
    BY DEF Own, Running, Idle, Done
  <2> QED BY <2>1, KindOf DEF Inv, MayGo
<1>2. /\ trashedAt' = [trashedAt EXCEPT ![c] = 0]
      /\ upset' = IF On(c, Removals) # {} THEN upset \cup {c} ELSE upset
      /\ lastHidden' = [lastHidden EXCEPT ![c] = None]
      /\ Step(r, p) /\ p \in MayGo(req[r].kind)
      /\ UNCHANGED <<key, multi, time, crossed, misled, acked, written>>
  BY <1>1 DEF Own, MayGo
<1>3. /\ req' \in [Requests -> {Idle, Done} \cup Asked]
      /\ r \in Running' /\ Others(r) /\ SameReq(r) /\ req'[r].phase = p
  BY <1>1, <1>2, StepMoves DEF Inv
<1>4. Typed'
  <2>1. /\ trashedAt' \in [Contents -> 0..now'] /\ upset' \subseteq Contents
        /\ lastHidden' \in [Contents -> Keys \cup {None}]
    BY <1>1, <1>2 DEF Inv, Typed, TypeOK, time
  <2> QED BY <1>2, <1>3, <2>1, TypesNext DEF Inv, Typed, TypeOK, multi, time
<1>5. MetaInv'
  <2>1. Is(r, "complete")' \/ Is(r, "abort")' => req'[r].phase \notin {"map", "unstage"}
    BY <1>1, <1>3 DEF Is, SameReq
  <2> QED BY <1>1, <1>2, <1>3, <2>1, MetaSame DEF Inv, multi
<1>6. ~Removes(r)
  BY <1>1 DEF Removes, Removals
<1>7. AckInv' /\ TrashInv'
  BY <1>1, <1>2, <1>3, <1>6, OutOfTrash
<1> QED BY <1>4, <1>5, <1>7 DEF Inv

LEMMA UntrashStep ==
  ASSUME Inv, NEW r \in Requests, Untrash(r)
  PROVE  Inv'
<1> DEFINE c == req[r].cid
<1>1. r \in Running /\ req[r].kind = "restore" /\ c \in Contents
  <2>1. r \in Running /\ req[r].phase = "unown"
    BY DEF Untrash, Running, Idle, Done
  <2> QED BY <2>1, KindOf DEF Inv, MayGo
<1>2. /\ trashedAt' = [trashedAt EXCEPT ![c] = 0]
      /\ upset' = IF On(c, Removals) # {} THEN upset \cup {c} ELSE upset
      /\ lastHidden' = [lastHidden EXCEPT ![c] = None]
      /\ Step(r, "unhide") /\ "unhide" \in MayGo(req[r].kind)
      /\ UNCHANGED <<key, multi, time, crossed, misled, acked, written>>
  BY <1>1 DEF Untrash, MayGo
<1>3. /\ req' \in [Requests -> {Idle, Done} \cup Asked]
      /\ r \in Running' /\ Others(r) /\ SameReq(r)
  BY <1>1, <1>2, StepMoves DEF Inv
<1>4. Typed'
  <2>1. /\ trashedAt' \in [Contents -> 0..now'] /\ upset' \subseteq Contents
        /\ lastHidden' \in [Contents -> Keys \cup {None}]
    BY <1>1, <1>2 DEF Inv, Typed, TypeOK, time
  <2> QED BY <1>2, <1>3, <2>1, TypesNext DEF Inv, Typed, TypeOK, multi, time
<1>5. MetaInv'
  <2>1. ~(Is(r, "complete")' \/ Is(r, "abort")')
    BY <1>1, <1>3 DEF Is, SameReq
  <2> QED BY <1>2, <1>3, <2>1, MetaSame DEF Inv, multi
<1>6. ~Removes(r)
  BY <1>1 DEF Removes, Removals
<1>7. AckInv' /\ TrashInv'
  BY <1>1, <1>2, <1>3, <1>6, OutOfTrash
<1> QED BY <1>4, <1>5, <1>7 DEF Inv

LEMMA MappingStep ==
  ASSUME Inv, NEW r \in Requests, createMapping(r)
  PROVE  Inv'
<1> DEFINE c == req[r].cid
           k == req[r].key
           m == req[r].meta
<1>1. /\ r \in Running /\ req[r].kind \in Writes /\ c \in Contents /\ k \in Keys
      /\ m \in Multiparts \cup {None} /\ req[r].phase = "map"
  <2>1. r \in Running /\ req[r].phase = "map"
    BY DEF createMapping, Running, Idle, Done
  <2>2. req[r].kind \in Writes
    BY <2>1, KindOf DEF Inv, MayGo, Writes
  <2> QED BY <2>1, <2>2, KindOf DEF Inv, Writes
<1>2. /\ key' = [key EXCEPT ![k] = [cid |-> c, gone |-> 0, meta |-> m]]
      /\ acked' = [acked EXCEPT ![k] = IF req[r].quiet /\ req[r].fresh THEN c ELSE None]
      /\ written' = IF m = None THEN written ELSE written \cup {m}
      /\ lastHidden' = IF trashedAt[c] > 0 THEN lastHidden ELSE [lastHidden EXCEPT ![c] = None]
      /\ UNCHANGED <<trashedAt, multi, time, upset, crossed, misled>>
  BY DEF createMapping, Renamed
<1>3. /\ req' \in [Requests -> {Idle, Done} \cup Asked] /\ Others(r)
      /\ \/ r \notin Running'
         \/ /\ r \in Running' /\ SameReq(r) /\ req[r].kind = "complete" /\ req'[r].phase = "unstage"
  <2>1. CASE req[r].kind = "complete"
    <3>1. Step(r, "unstage") /\ "unstage" \in MayGo(req[r].kind)
      BY <2>1 DEF createMapping, MayGo
    <3> QED BY <1>1, <2>1, <3>1, StepMoves DEF Inv
  <2>2. CASE req[r].kind # "complete"
    BY <2>2, AnswerMoves DEF createMapping, Inv
  <2> QED BY <2>1, <2>2
<1>4. /\ key'[k].cid = c /\ key'[k].gone = 0 /\ \A j \in Keys : j # k => key'[j] = key[j]
      /\ \A j \in Keys : j # k => acked'[j] = acked[j]
      /\ acked'[k] = IF req[r].quiet /\ req[r].fresh THEN c ELSE None
      /\ \A d \in Contents : \/ lastHidden'[d] = lastHidden[d]
                             \/ d = c /\ lastHidden'[d] = None
      /\ trashedAt[c] > 0 \/ lastHidden'[c] = None
  <2>1. /\ key'[k] = [cid |-> c, gone |-> 0, meta |-> m] /\ \A j \in Keys : j # k => key'[j] = key[j]
        /\ \A j \in Keys : j # k => acked'[j] = acked[j]
        /\ acked'[k] = IF req[r].quiet /\ req[r].fresh THEN c ELSE None
    BY <1>1, <1>2 DEF Inv, Typed, TypeOK
  <2>2. /\ \A d \in Contents : \/ lastHidden'[d] = lastHidden[d]
                               \/ d = c /\ lastHidden'[d] = None
        /\ trashedAt[c] > 0 \/ lastHidden'[c] = None
    BY <1>1, <1>2 DEF Inv, Typed, TypeOK
  <2> QED BY <2>1, <2>2
<1>5. Typed'
  <2>1. /\ key' \in [Keys -> [cid : Contents \cup {None}, gone : 0..now', meta : Multiparts \cup {None}]]
        /\ now' = now
    <3>1. [cid |-> c, gone |-> 0, meta |-> m]
             \in [cid : Contents \cup {None}, gone : 0..now', meta : Multiparts \cup {None}]
      BY <1>1, <1>2 DEF Inv, Typed, TypeOK, time
    <3> QED BY <1>1, <1>2, <3>1 DEF Inv, Typed, TypeOK, time
  <2>2. written' \subseteq Multiparts
    BY <1>1, <1>2 DEF Inv, Typed, TypeOK
  <2>3. acked' \in [Keys -> Contents \cup {None}] /\ lastHidden' \in [Contents -> Keys \cup {None}]
    BY <1>1, <1>2 DEF Inv, Typed, TypeOK
  <2> QED BY <1>2, <1>3, <2>1, <2>2, <2>3, TypesNext DEF Inv, Typed, TypeOK, multi, time
<1>6. MetaInv'
  <2>1. MetaInHand(r)'
    <3>1. CASE r \notin Running'
      BY <3>1 DEF MetaInHand, Is
    <3>2. CASE /\ r \in Running' /\ SameReq(r) /\ req[r].kind = "complete"
               /\ req'[r].phase = "unstage"
      <4>1. MetaInHand(r) /\ req[r].upload \in Multiparts /\ req'[r].upload = req[r].upload
            /\ req'[r].kind = "complete"
        BY <1>1, <3>2, KindOf DEF Inv, MetaInv, SameReq
      <4>2. req[r].upload \in staged => m = req[r].upload /\ m # None
        BY <1>1, <3>2, <4>1, S3Assumption DEF MetaInHand, Is, At
      <4> QED BY <1>1, <1>2, <3>2, <4>1, <4>2 DEF MetaInHand, Is, At, multi
    <3> QED BY <1>3, <3>1, <3>2
  <2>2. StagedMetaKept'
    BY <1>2 DEF Inv, MetaInv, StagedMetaKept, multi
  <2> QED BY <1>2, <1>3, <2>1, <2>2, MetaFrame DEF Inv, multi
<1>7. AckInv'
  <2>1. \A d \in Contents : isObjectDeleted(d)' <=> isObjectDeleted(d)
    BY <1>2 DEF isObjectDeleted
  <2>2. AckedIsReadable'
    <3>1. SUFFICES ASSUME NEW j \in Keys, acked'[j] \notin misled \cup {None}
                   PROVE  Visible(j)' /\ key'[j].cid = acked'[j]
      BY <1>2 DEF AckedIsReadable
    <3>2. CASE j = k
      <4>1. Promises(r) /\ req[r].fresh /\ At(r, {"flip", "meta", "map"})
        BY <1>1, <1>4, <3>1, <3>2 DEF Promises, At
      <4>2. ~isObjectDeleted(c)
        BY <4>1 DEF Inv, AckInv, PromiseIsOut
      <4> QED BY <1>1, <1>4, <2>1, <3>1, <3>2, <4>2, S3Assumption DEF Visible, Active, isObjectDeleted
    <3>3. CASE j # k
      BY <1>2, <1>4, <3>1, <3>3 DEF Inv, AckInv, AckedIsReadable, Visible, Active, isObjectDeleted
    <3> QED BY <3>2, <3>3
  <2>3. QuietIsAlone'
    BY <1>1, <1>3, QuietFrame DEF Inv, AckInv
  <2>4. PromiseIsOut(r)'
    BY <1>3 DEF PromiseIsOut, Promises, At
  <2>5. TakesBack(r)'
    BY <1>3 DEF TakesBack, Is, SameReq
  <2>6. \/ \A j \in Keys : acked'[j] \in {acked[j], None}
        \/ \A s \in Requests : s # r /\ s \in Running => req[s].kind \notin Removing
    BY <1>1, <1>4 DEF Inv, AckInv, QuietIsAlone, Promises
  <2> QED BY <1>2, <1>3, <2>1, <2>2, <2>3, <2>4, <2>5, <2>6, AckFrame DEF Inv
<1>8. TrashInv'
  <2>1. ~Removes(r)' /\ ~Removes(r)
    BY <1>1, <1>3 DEF Removes, SameReq, Removals, Writes
  <2>2. Late(r)' /\ TrashesFirst(r)' /\ \A s \in Requests : Meet(r, s)'
    BY <2>1 DEF Late, TrashesFirst, Meet, Removes, Is, Removals
  <2>3. Guarded'
    <3>1. ASSUME NEW d \in Contents, NEW s \in Requests, Guarding(s, d) PROVE Guarding(s, d)'
      <4>1. s # r /\ s \in Running /\ req[s].kind = "delete"
        BY <2>1, <3>1 DEF Guarding, Is, Removes, Removals
      <4> QED BY <1>3, <3>1, <4>1 DEF Others, Stands, SameReq, Guarding, Is, At
    <3>2. \A d \in Contents : d # c /\ Unnamed(d) => Unnamed(d)'
      BY <1>4 DEF Unnamed, Names, Active
    <3> QED BY <1>1, <1>2, <1>4, <3>1, <3>2 DEF Inv, TrashInv, Guarded
  <2>4. HiddenLater'
    BY <1>2, <1>4, S3Assumption DEF Inv, TrashInv, HiddenLater
  <2>5. \A s \in Requests : Removes(s) => req[s].cid \in Contents
    BY KindOf DEF Removes, Removals, Inv
  <2> QED BY <1>2, <1>3, <1>4, <2>2, <2>3, <2>4, <2>5, TrashFrame DEF Inv
<1> QED BY <1>5, <1>6, <1>7, <1>8 DEF Inv

LEMMA UnhideStep ==
  ASSUME Inv, NEW r \in Requests, Unhide(r)
  PROVE  Inv'
<1> DEFINE c == req[r].cid
           back == Returning(c, req[r].since)
<1>1. r \in Running /\ req[r].kind = "restore" /\ c \in Contents
  <2>1. r \in Running /\ req[r].phase = "unhide"
    BY DEF Unhide, Running, Idle, Done
  <2> QED BY <2>1, KindOf DEF Inv, MayGo
<1>2. /\ key' = [k \in Keys |-> IF k \in back THEN [key[k] EXCEPT !.gone = 0] ELSE key[k]]
      /\ back = {} => lastHidden' = lastHidden
      /\ back # {} => lastHidden' = IF trashedAt[c] > 0 THEN lastHidden
                                    ELSE [lastHidden EXCEPT ![c] = None]
      /\ UNCHANGED <<trashedAt, multi, time, upset, crossed, misled, acked, written>>
  BY DEF Unhide, Renamed
<1>3. /\ req' \in [Requests -> {Idle, Done} \cup Asked] /\ Others(r) /\ r \notin Running'
  BY AnswerMoves DEF Unhide, Inv
<1>4. /\ \A k \in Keys : /\ key'[k].cid = key[k].cid
                         /\ key'[k].gone = key[k].gone \/ (key'[k].gone = 0 /\ key[k].cid = c)
      /\ key' \in [Keys -> [cid : Contents \cup {None}, gone : 0..now, meta : Multiparts \cup {None}]]
  <2>1. ASSUME NEW k \in Keys
        PROVE  /\ key'[k].cid = key[k].cid
               /\ key'[k].gone = key[k].gone \/ (key'[k].gone = 0 /\ key[k].cid = c)
               /\ key'[k] \in [cid : Contents \cup {None}, gone : 0..now, meta : Multiparts \cup {None}]
    <3>1. key[k] \in [cid : Contents \cup {None}, gone : 0..now, meta : Multiparts \cup {None}]
          /\ now \in Nat
      BY DEF Inv, Typed, TypeOK
    <3>2. CASE k \in back
      BY <1>2, <3>1, <3>2 DEF Returning
    <3>3. CASE k \notin back
      BY <1>2, <3>1, <3>3
    <3> QED BY <3>2, <3>3
  <2> QED BY <1>2, <2>1
<1>5. /\ \A d \in Contents : lastHidden'[d] = lastHidden[d] \/ (d = c /\ lastHidden'[d] = None)
      /\ lastHidden' \in [Contents -> Keys \cup {None}]
      /\ trashedAt[c] > 0 \/ lastHidden'[c] = None \/ key' = key
  <2>1. back = {} => key' = key
    BY <1>2 DEF Inv, Typed, TypeOK
  <2> QED BY <1>1, <1>2, <2>1 DEF Inv, Typed, TypeOK
<1>6. Typed'
  BY <1>2, <1>3, <1>4, <1>5, TypesNext DEF Inv, Typed, TypeOK, multi, time
<1>7. MetaInv'
  BY <1>2, <1>3, MetaSame DEF Inv, multi, Is
<1>8. AckInv'
  <2>1. \A d \in Contents : isObjectDeleted(d)' <=> isObjectDeleted(d)
    BY <1>2 DEF isObjectDeleted
  <2>2. AckedIsReadable'
    BY <1>2, <1>4 DEF Inv, AckInv, AckedIsReadable, Visible, Active, isObjectDeleted
  <2>3. QuietIsAlone'
    BY <1>3, QuietFrame DEF Inv, AckInv
  <2>4. PromiseIsOut(r)' /\ TakesBack(r)'
    BY <1>3 DEF PromiseIsOut, Promises, TakesBack, Is
  <2> QED BY <1>2, <1>3, <2>1, <2>2, <2>3, <2>4, AckFrame DEF Inv
<1>9. TrashInv'
  <2>1. ~Removes(r)' /\ ~Removes(r)
    BY <1>1, <1>3 DEF Removes, Removals
  <2>2. Late(r)' /\ TrashesFirst(r)' /\ \A s \in Requests : Meet(r, s)'
    BY <2>1 DEF Late, TrashesFirst, Meet, Removes, Is, Removals
  <2>3. Guarded'
    <3>1. ASSUME NEW d \in Contents, NEW s \in Requests, Guarding(s, d) PROVE Guarding(s, d)'
      <4>1. s # r /\ s \in Running /\ req[s].kind = "delete"
        BY <2>1, <3>1 DEF Guarding, Is, Removes, Removals
      <4> QED BY <1>3, <3>1, <4>1 DEF Others, Stands, SameReq, Guarding, Is, At
    <3>2. \A d \in Contents : (d # c \/ key' = key) /\ Unnamed(d) => Unnamed(d)'
      BY <1>4 DEF Unnamed, Names, Active
    <3> QED BY <1>1, <1>2, <1>5, <3>1, <3>2 DEF Inv, TrashInv, Guarded
  <2>4. HiddenLater'
    BY <1>2, <1>4, <1>5, S3Assumption DEF Inv, TrashInv, HiddenLater
  <2>5. \A s \in Requests : Removes(s) => req[s].cid \in Contents
    BY KindOf DEF Removes, Removals, Inv
  <2> QED BY <1>2, <1>3, <1>5, <2>2, <2>3, <2>4, <2>5, TrashFrame DEF Inv
<1> QED BY <1>6, <1>7, <1>8, <1>9 DEF Inv

(***************************************************************************)
(* Steps of removals and restores                                          *)
(***************************************************************************)
\* A removal or a restore begins: no write is undisturbed any more.
LEMMA DisturbKeeps ==
  ASSUME Inv, NEW r \in Requests, NEW q \in Deletions \cup Trashings \cup Restores, Disturb(r, q),
         UNCHANGED <<trashedAt, key, misled, mpu, staged, written>>,
         \A k \in Keys : acked'[k] \in {acked[k], None},
         q.kind = "delete" => q.phase = "count" /\ acked'[q.key] = None,
         q.kind = "trash" => \A k \in Keys : acked'[k] # q.cid
  PROVE  /\ req' \in [Requests -> {Idle, Done} \cup Asked]
         /\ r \notin Running /\ r \in Running' /\ Others(r) /\ req'[r] = q
         /\ MetaInv' /\ AckInv'
<1>1. /\ req' \in [Requests -> {Idle, Done} \cup Asked]
      /\ r \notin Running /\ r \in Running' /\ Others(r) /\ req'[r] = q
      /\ \A s \in Requests : s # r /\ s \in Running /\ req[s].kind \in Writes => ~req'[s].quiet
  BY DisturbMoves DEF Inv, Asked
<1>2. q.kind \in Removing
  BY DEF Deletions, Trashings, Restores, Removing, Removals
<1>3. MetaInv'
  BY <1>1, <1>2, MetaSame DEF Inv, Is, Removing, Removals
<1>4. \A s \in Requests : ~Promises(s)'
  <2>1. ~Promises(r)'
    BY <1>1, <1>2 DEF Promises, Removing, Removals, Writes
  <2>2. ASSUME NEW s \in Requests, s # r PROVE ~Promises(s)'
    BY <1>1, <2>2 DEF Others, Stands, SameReq, Promises
  <2> QED BY <2>1, <2>2
<1>5. AckInv'
  <2>1. QuietIsAlone' /\ PromiseIsOut(r)'
    BY <1>4 DEF QuietIsAlone, PromiseIsOut
  <2>2. AckedIsReadable'
    BY DEF Inv, AckInv, AckedIsReadable, Visible, Active, isObjectDeleted
  <2>3. TakesBack(r)'
    BY <1>1 DEF TakesBack, Is, At, Unpromised
  <2> QED BY <1>1, <1>4, <2>1, <2>2, <2>3, AckFrame DEF Inv
<1> QED BY <1>1, <1>3, <1>5

\* The names and the Trash stay as they are when a removal begins.
LEMMA RemovalBegins ==
  ASSUME Inv, NEW r \in Requests, r \notin Running, r \in Running', Others(r), Removes(r)',
         req' \in [Requests -> {Idle, Done} \cup Asked],
         req'[r].phase \in {"count", "owns"}, req'[r].kind = "delete" => req'[r].phase = "count",
         UNCHANGED <<trashedAt, key, lastHidden, upset>>,
         crossed' = IF On(req'[r].cid, Removals) # {} THEN crossed \cup {req'[r].cid} ELSE crossed
  PROVE  TrashInv'
<1>1. crossed \subseteq crossed'
  OBVIOUS
<1>2. Late(r)' /\ TrashesFirst(r)'
  BY DEF Late, TrashesFirst, Is, At
<1>3. ASSUME NEW s \in Requests, s # r PROVE Meet(r, s)'
  <2>1. SUFFICES ASSUME Removes(s)', req'[s].cid = req'[r].cid PROVE req'[r].cid \in crossed'
    BY DEF Meet
  <2>2. s \in Running /\ req[s].kind \in Removals /\ req[s].cid = req'[r].cid
    BY <1>3, <2>1 DEF Others, Stands, SameReq, Removes
  <2>3. s \in On(req'[r].cid, Removals)
    BY <2>2 DEF On
  <2> QED BY <2>3
<1>4. Guarded'
  <2>1. ASSUME NEW d \in Contents, NEW s \in Requests, Guarding(s, d) PROVE Guarding(s, d)'
    <3>1. s # r /\ s \in Running /\ req[s].kind = "delete"
      BY <2>1 DEF Guarding, Is
    <3> QED BY <2>1, <3>1 DEF Others, Stands, SameReq, Guarding, Is, At
  <2>2. \A d \in Contents : Unnamed(d) => Unnamed(d)'
    BY DEF Unnamed, Names, Active
  <2> QED BY <2>1, <2>2 DEF Inv, TrashInv, Guarded
<1>5. HiddenLater'
  BY <1>1 DEF Inv, TrashInv, HiddenLater
<1> QED BY <1>1, <1>2, <1>3, <1>4, <1>5, TrashFrame DEF Inv

LEMMA DeleteStep ==
  ASSUME Inv, NEW r \in Requests, NEW k \in Keys, DeleteObject(r, k)
  PROVE  Inv'
<1> DEFINE q == [phase |-> "count", kind |-> "delete", key |-> k, cid |-> key[k].cid, last |-> FALSE]
<1>1. key[k].cid \in Contents
  BY DEF DeleteObject, Active, Inv, Typed, TypeOK
<1>2. q \in Deletions /\ q.kind = "delete" /\ q.phase = "count" /\ q.key = k /\ q.cid = key[k].cid
  BY <1>1 DEF Deletions
<1>3. /\ Disturb(r, q) /\ acked' = [acked EXCEPT ![k] = None]
      /\ crossed' = IF On(q.cid, Removals) # {} THEN crossed \cup {q.cid} ELSE crossed
      /\ UNCHANGED <<names, multi, time, lastHidden, upset, misled, written>>
  BY DEF DeleteObject
<1> HIDE DEF q
<1>4. \A j \in Keys : acked'[j] \in {acked[j], None}
  BY <1>3 DEF Inv, Typed, TypeOK
<1>5. acked'[k] = None
  BY <1>3 DEF Inv, Typed, TypeOK
<1>6. /\ req' \in [Requests -> {Idle, Done} \cup Asked]
      /\ r \notin Running /\ r \in Running' /\ Others(r) /\ req'[r] = q /\ MetaInv' /\ AckInv'
  BY <1>2, <1>3, <1>4, <1>5, DisturbKeeps DEF names, multi
<1>7. Typed'
  <2>1. acked' \in [Keys -> Contents \cup {None}] /\ crossed' \subseteq Contents
    BY <1>1, <1>2, <1>3 DEF Inv, Typed, TypeOK
  <2> QED BY <1>3, <1>6, <2>1, TypesNext DEF Inv, Typed, TypeOK, names, multi, time
<1>8. TrashInv'
  <2>1. Removes(r)'
    BY <1>2, <1>6 DEF Removes, Removals
  <2> QED BY <1>2, <1>3, <1>6, <2>1, RemovalBegins DEF names
<1> QED BY <1>6, <1>7, <1>8 DEF Inv

LEMMA TrashStep ==
  ASSUME Inv, NEW r \in Requests, NEW c \in Contents, TrashObject(r, c)
  PROVE  Inv'
<1> DEFINE q == [phase |-> "owns", kind |-> "trash", cid |-> c]
<1>1. q \in Trashings /\ q.kind = "trash" /\ q.phase = "owns" /\ q.cid = c
  BY DEF Trashings
<1>2. /\ Disturb(r, q) /\ acked' = [k \in Keys |-> IF acked[k] = c THEN None ELSE acked[k]]
      /\ crossed' = IF On(q.cid, Removals) # {} THEN crossed \cup {q.cid} ELSE crossed
      /\ UNCHANGED <<names, multi, time, lastHidden, upset, misled, written>>
  BY DEF TrashObject
<1> HIDE DEF q
<1>3. \A j \in Keys : acked'[j] \in {acked[j], None} /\ acked'[j] # c
  BY <1>2, S3Assumption
<1>4. /\ req' \in [Requests -> {Idle, Done} \cup Asked]
      /\ r \notin Running /\ r \in Running' /\ Others(r) /\ req'[r] = q /\ MetaInv' /\ AckInv'
  BY <1>1, <1>2, <1>3, DisturbKeeps DEF names, multi
<1>5. Typed'
  <2>1. acked' \in [Keys -> Contents \cup {None}] /\ crossed' \subseteq Contents
    BY <1>1, <1>2 DEF Inv, Typed, TypeOK
  <2> QED BY <1>2, <1>4, <2>1, TypesNext DEF Inv, Typed, TypeOK, names, multi, time
<1>6. TrashInv'
  <2>1. Removes(r)'
    BY <1>1, <1>4 DEF Removes, Removals
  <2> QED BY <1>1, <1>2, <1>4, <2>1, RemovalBegins DEF names
<1> QED BY <1>4, <1>5, <1>6 DEF Inv

LEMMA RestoreStep ==
  ASSUME Inv, NEW r \in Requests, NEW c \in Contents, RestoreObject(r, c)
  PROVE  Inv'
<1> DEFINE q == [phase |-> "unown", kind |-> "restore", cid |-> c, since |-> trashedAt[c]]
<1>1. q \in Restores /\ q.kind = "restore"
  <2>1. trashedAt[c] \in Nat
    BY DEF Inv, Typed, TypeOK
  <2> QED BY <2>1 DEF Restores
<1>2. Disturb(r, q) /\ UNCHANGED <<names, multi, time, hist>>
  BY DEF RestoreObject
<1> HIDE DEF q
<1>3. /\ req' \in [Requests -> {Idle, Done} \cup Asked]
      /\ r \notin Running /\ r \in Running' /\ Others(r) /\ req'[r] = q /\ MetaInv' /\ AckInv'
  BY <1>1, <1>2, DisturbKeeps DEF names, multi, hist
<1>4. Typed'
  BY <1>2, <1>3, TypesKept DEF Inv, Typed, TypeOK, multi
<1>5. TrashInv'
  <2>1. ~Removes(r) /\ ~Removes(r)'
    BY <1>1, <1>3 DEF Removes, Removals
  <2> QED BY <1>2, <1>3, <2>1, TrashSame DEF Inv, names, hist
<1> QED BY <1>3, <1>4, <1>5 DEF Inv

\* While a removal runs no write is undisturbed.
LEMMA NoPromises ==
  ASSUME Inv, NEW r \in Running, req[r].kind \in Removing, NEW s \in Requests
  PROVE  ~Promises(s)
BY DEF Inv, AckInv, QuietIsAlone, Running

\* What is promised of a content is among its names, unless that is excused.
LEMMA PromisedIsNamed ==
  ASSUME Inv, NEW c \in Contents, c \notin misled, NEW k \in Keys, acked[k] = c
  PROVE  Names(k, c)
BY S3Assumption DEF Inv, AckInv, AckedIsReadable, Visible, Names

\* Deletions on guard for other contents stay so, and for this one unless it is
\* the one that moves.
LEMMA GuardsStay ==
  ASSUME NEW r, Others(r), NEW c, NEW s \in Requests, s # r, Guarding(s, c)
  PROVE  Guarding(s, c)'
<1>1. s \in Running /\ req[s].kind = "delete"
  BY DEF Guarding, Is
<1> QED BY <1>1 DEF Others, Stands, SameReq, Guarding, Is, At

\* Two removals of one content have been noted when one of them goes on.
LEMMA MeetKept ==
  ASSUME Inv, NEW r \in Running, Others(r), SameReq(r), crossed \subseteq crossed',
         NEW s \in Requests, s # r
  PROVE  Meet(r, s)'
<1>1. SUFFICES ASSUME Removes(r)', Removes(s)', req'[r].cid = req'[s].cid
               PROVE  req'[r].cid \in crossed'
  BY DEF Meet
<1>2. Removes(r) /\ Removes(s) /\ req[r].cid = req[s].cid /\ req'[r].cid = req[r].cid
  BY <1>1 DEF Others, Stands, SameReq, Removes
<1>3. Meet(r, s)
  BY DEF Inv, TrashInv, Running
<1> QED BY <1>2, <1>3 DEF Meet

LEMMA CountStep ==
  ASSUME Inv, NEW r \in Requests, Count(r)
  PROVE  Inv'
<1> DEFINE c == req[r].cid
           k == req[r].key
           last == countActive(c) <= 1
           p == IF last THEN "owns" ELSE "hide"
<1>1. /\ r \in Running /\ req[r].kind = "delete" /\ c \in Contents /\ k \in Keys
      /\ req[r].phase = "count"
  <2>1. r \in Running /\ req[r].phase = "count"
    BY DEF Count, Running, Idle, Done
  <2> QED BY <2>1, KindOf DEF Inv, MayGo
<1>2. req[r] \in Deletions
  BY <1>1, Runs DEF Inv, Asked, Puts, Completions, Copies, Aborts, Trashings, Restores
<1>3. last \in BOOLEAN
  OBVIOUS
<1>4. /\ req'[r] = [req[r] EXCEPT !.last = last, !.phase = p]
      /\ \A s \in Requests : s # r => req'[s] = req[s]
      /\ req' = [req EXCEPT ![r] = req'[r]]
      /\ misled' = IF Names(k, c) THEN misled ELSE misled \cup {c}
      /\ UNCHANGED <<names, multi, time, lastHidden, upset, crossed, acked, written>>
  BY DEF Count, Inv, Typed
<1>5. p \in {"owns", "hide"} /\ (last => p = "owns") /\ (~last => p = "hide")
  OBVIOUS
<1> HIDE DEF last, p
<1>6. /\ req'[r] \in Asked /\ req'[r].phase = p /\ req'[r].last = last /\ req'[r].kind = "delete"
      /\ req'[r].cid = c /\ req'[r].key = k
  BY <1>2, <1>1, <1>3, <1>4, <1>5 DEF Deletions, Asked
<1>7. Others(r)
  BY <1>4, Standing DEF Others
<1>8. req' \in [Requests -> {Idle, Done} \cup Asked] /\ r \in Running'
  <2>1. req' \in [Requests -> {Idle, Done} \cup Asked]
    BY <1>4, <1>6 DEF Inv, Typed
  <2> QED BY <1>6, <2>1, RunsNext
<1>9. Typed'
  <2>1. misled' \subseteq Contents
    BY <1>1, <1>4 DEF Inv, Typed, TypeOK
  <2> QED BY <1>4, <1>8, <2>1, TypesNext DEF Inv, Typed, TypeOK, names, multi, time
<1>10. MetaInv'
  BY <1>4, <1>6, <1>7, MetaSame DEF Inv, multi, Is
<1>11. AckInv'
  <2>1. \A s \in Requests : ~Promises(s)
    BY <1>1, NoPromises DEF Removing, Removals
  <2>2. \A s \in Requests : ~Promises(s)'
    <3>1. ~Promises(r)'
      BY <1>6 DEF Promises, Writes
    <3>2. ASSUME NEW s \in Requests, s # r PROVE ~Promises(s)'
      BY <1>7, <2>1, <3>2 DEF Others, Stands, SameReq, Promises
    <3> QED BY <3>1, <3>2
  <2>3. QuietIsAlone' /\ PromiseIsOut(r)'
    BY <2>2 DEF QuietIsAlone, PromiseIsOut
  <2>4. AckedIsReadable'
    BY <1>4 DEF Inv, AckInv, AckedIsReadable, Visible, Active, isObjectDeleted, names
  <2>5. acked[k] = None
    BY <1>1 DEF Inv, AckInv, TakesBack, Is
  <2>6. last => c \in misled' \/ Unpromised(c)
    <3>1. SUFFICES ASSUME last, c \notin misled', NEW j \in Keys, acked[j] = c PROVE FALSE
      BY DEF Unpromised
    <3>2. Names(k, c) /\ c \notin misled
      BY <1>4, <3>1
    <3>3. Names(j, c)
      BY <1>1, <3>1, <3>2, PromisedIsNamed
    <3>4. countActive(c) <= 1
      BY <3>1 DEF last
    <3>5. j = k
      BY <1>1, <3>2, <3>3, <3>4, CountOne
    <3> QED BY <1>1, <2>5, <3>1, <3>5, S3Assumption
  <2>7. TakesBack(r)'
    BY <1>4, <1>5, <1>6, <2>5, <2>6 DEF TakesBack, Is, At, Unpromised
  <2>8. \A d \in Contents : isObjectDeleted(d)' <=> isObjectDeleted(d)
    BY <1>4 DEF isObjectDeleted, names
  <2> QED BY <1>4, <1>7, <2>3, <2>4, <2>7, <2>8, AckFrame DEF Inv
<1>12. TrashInv'
  <2>1. ASSUME NEW s \in Requests, s # r PROVE Meet(r, s)'
    <3>1. SUFFICES ASSUME Removes(s)', req'[s].cid = c PROVE c \in crossed'
      BY <1>6 DEF Meet
    <3>2. Removes(s) /\ req[s].cid = c
      BY <1>7, <2>1, <3>1 DEF Others, Stands, SameReq, Removes
    <3>3. Removes(r)
      BY <1>1 DEF Removes, Removals
    <3>4. Meet(r, s)
      BY <2>1 DEF Inv, TrashInv
    <3> QED BY <1>4, <3>2, <3>3, <3>4 DEF Meet
  <2>2. Late(r)' /\ TrashesFirst(r)'
    BY <1>5, <1>6 DEF Late, TrashesFirst, Is, At
  <2>3. Guarded'
    <3>1. \A d \in Contents, s \in Requests : Guarding(s, d) => Guarding(s, d)'
      BY <1>1, <1>7, GuardsStay DEF Guarding, At
    <3>2. \A d \in Contents : Unnamed(d) => Unnamed(d)'
      BY <1>4 DEF Unnamed, Names, Active, names
    <3> QED BY <1>4, <3>1, <3>2 DEF Inv, TrashInv, Guarded, names
  <2>4. HiddenLater'
    BY <1>4 DEF Inv, TrashInv, HiddenLater, names
  <2> QED BY <1>4, <1>7, <2>1, <2>2, <2>3, <2>4, TrashFrame DEF Inv, names
<1> QED BY <1>9, <1>10, <1>11, <1>12 DEF Inv

\* A removal goes on, or is answered, with the names as they are.
LEMMA RemovalMoves ==
  ASSUME Typed, NEW r \in Running, req[r].kind \in Removals,
         \/ Answer(r)
         \/ \E p \in MayGo(req[r].kind) : Step(r, p)
  PROVE  /\ req' \in [Requests -> {Idle, Done} \cup Asked] /\ Others(r)
         /\ \/ r \notin Running'
            \/ r \in Running' /\ SameReq(r) /\ req'[r].kind \in Removals /\ Step(r, req'[r].phase)
<1>1. CASE Answer(r)
  BY <1>1, AnswerMoves DEF Running
<1>2. ASSUME NEW p \in MayGo(req[r].kind), Step(r, p)
      PROVE  /\ req' \in [Requests -> {Idle, Done} \cup Asked] /\ Others(r)
             /\ r \in Running' /\ SameReq(r) /\ req'[r].kind \in Removals /\ Step(r, req'[r].phase)
  BY <1>2, StepMoves DEF SameReq
<1> QED BY <1>1, <1>2

\* ... which leaves uploads, metadata and promises alone.
LEMMA RemovalKeeps ==
  ASSUME Inv, NEW r \in Running, req[r].kind \in Removals, Others(r),
         r \in Running' => SameReq(r) /\ TakesBack(r)',
         UNCHANGED <<mpu, staged, written>>, misled \subseteq misled',
         \A k \in Keys : acked'[k] \in {acked[k], None}, AckedIsReadable'
  PROVE  MetaInv' /\ AckInv'
<1>1. MetaInv'
  BY MetaSame DEF Inv, Is, SameReq, Removals
<1>2. \A s \in Requests : ~Promises(s)
  BY NoPromises DEF Removing
<1>3. QuietIsAlone'
  BY QuietFrame DEF Inv, AckInv
<1>4. PromiseIsOut(r)'
  BY DEF PromiseIsOut, Promises, SameReq, Removals, Writes
<1>5. TakesBack(r)'
  BY DEF TakesBack, Is
<1> QED BY <1>1, <1>2, <1>3, <1>4, <1>5, AckFrame DEF Inv

LEMMA CheckOwnerStep ==
  ASSUME Inv, NEW r \in Requests, CheckOwner(r)
  PROVE  Inv'
<1> DEFINE c == req[r].cid
<1>1. /\ r \in Running /\ req[r].kind \in Removals /\ c \in Contents /\ req[r].phase = "owns"
      /\ r \in Requests /\ (req[r].kind = "delete" => req[r].last \in BOOLEAN)
  <2>1. r \in Running /\ req[r].phase = "owns"
    BY DEF CheckOwner, Running, Idle, Done
  <2>2. req[r].kind \in Removals
    BY <2>1, KindOf DEF Inv, MayGo, Removals
  <2> QED BY <2>1, <2>2, KindOf DEF Inv, Removals
<1>2. UNCHANGED <<names, multi, time, hist>>
  BY DEF CheckOwner
<1>3. \/ trashedAt[c] = 0 /\ Step(r, "stamp")
      \/ trashedAt[c] > 0 /\ req[r].kind = "delete" /\ req[r].last /\ Step(r, "hide")
      \/ trashedAt[c] > 0 /\ Answer(r)
  BY <1>1 DEF CheckOwner, Trashed, Inv, Typed, TypeOK
<1>4. "stamp" \in MayGo(req[r].kind) /\ (req[r].kind = "delete" => "hide" \in MayGo(req[r].kind))
  BY <1>1 DEF MayGo, Removals
<1>5. /\ req' \in [Requests -> {Idle, Done} \cup Asked] /\ Others(r)
      /\ r \in Running' => /\ SameReq(r) /\ req'[r].kind \in Removals
                           /\ \/ req'[r].phase = "stamp" /\ trashedAt[c] = 0
                              \/ req'[r].phase = "hide" /\ trashedAt[c] > 0
      /\ r \notin Running' => trashedAt[c] > 0
  <2>1. CASE trashedAt[c] = 0 /\ Step(r, "stamp")
    BY <1>1, <1>4, <2>1, StepMoves DEF SameReq, Inv
  <2>2. CASE trashedAt[c] > 0 /\ req[r].kind = "delete" /\ req[r].last /\ Step(r, "hide")
    BY <1>1, <1>4, <2>2, StepMoves DEF SameReq, Inv
  <2>3. CASE trashedAt[c] > 0 /\ Answer(r)
    BY <1>1, <2>3, AnswerMoves DEF Inv
  <2> QED BY <1>3, <2>1, <2>2, <2>3
<1>6. Typed'
  BY <1>2, <1>5, TypesKept DEF Inv, Typed, TypeOK, multi
<1>7. MetaInv' /\ AckInv'
  <2>1. r \in Running' => SameReq(r) /\ TakesBack(r)'
    <3>1. TakesBack(r)
      BY DEF Inv, AckInv
    <3> QED BY <1>1, <1>2, <1>5, <3>1 DEF TakesBack, Is, At, SameReq, Unpromised, hist
  <2>2. AckedIsReadable'
    BY <1>2 DEF Inv, AckInv, AckedIsReadable, Visible, Active, isObjectDeleted, names, hist
  <2> QED BY <1>1, <1>2, <1>5, <2>1, <2>2, RemovalKeeps DEF Inv, multi, hist
<1>8. TrashInv'
  <2>1. UNCHANGED <<trashedAt, key, lastHidden, upset, crossed>>
    BY <1>2 DEF names, hist
  <2>2. ASSUME NEW s \in Requests, s # r PROVE Meet(r, s)'
    <3>1. CASE r \in Running'
      BY <1>1, <1>5, <2>1, <2>2, <3>1, MeetKept
    <3>2. CASE r \notin Running'
      BY <3>2 DEF Meet, Removes
    <3> QED BY <3>1, <3>2
  <2>3. Late(r)'
    <3>1. Late(r)
      BY DEF Inv, TrashInv
    <3> QED BY <1>1, <1>5, <2>1, <3>1 DEF Late, Is, At, SameReq
  <2>4. trashedAt[c] = 0 => lastHidden[c] = None \/ c \in upset \cup crossed
    <3>1. SUFFICES ASSUME trashedAt[c] = 0, lastHidden[c] # None, c \notin upset PROVE c \in crossed
      OBVIOUS
    <3>2. PICK s \in Requests : Guarding(s, c)
      BY <1>1, <3>1 DEF Inv, TrashInv, Guarded
    <3>3. CASE s = r
      BY <1>1, <3>2, <3>3 DEF Guarding, Inv, TrashInv, Late, At
    <3>4. CASE s # r
      <4>1. Removes(s) /\ Removes(r) /\ req[s].cid = c
        BY <1>1, <3>2 DEF Guarding, Is, Removes, Removals
      <4>2. Meet(r, s)
        BY <3>4 DEF Inv, TrashInv
      <4> QED BY <4>1, <4>2 DEF Meet
    <3> QED BY <3>3, <3>4
  <2>5. TrashesFirst(r)'
    BY <1>1, <1>5, <2>1, <2>4 DEF TrashesFirst, Is, At, SameReq, Removes
  <2>6. Guarded'
    <3>1. ASSUME NEW d \in Contents, NEW s \in Requests, Guarding(s, d), trashedAt[d] = 0
          PROVE  Guarding(s, d)'
      <4>1. CASE s = r
        <5>1. /\ d = c /\ req[r].kind = "delete" /\ ~req[r].last /\ r \in Running'
              /\ req'[r].phase = "stamp"
          BY <1>5, <3>1, <4>1 DEF Guarding, Is
        <5> QED BY <1>5, <4>1, <5>1 DEF Guarding, Is, At, SameReq
      <4>2. CASE s # r
        BY <1>5, <3>1, <4>2, GuardsStay
      <4> QED BY <4>1, <4>2
    <3>2. \A d \in Contents : Unnamed(d) => Unnamed(d)'
      BY <2>1 DEF Unnamed, Names, Active
    <3>3. \A d \in Contents : trashedAt[d] \in Nat
      BY DEF Inv, Typed, TypeOK
    <3> QED BY <2>1, <3>1, <3>2, <3>3 DEF Inv, TrashInv, Guarded
  <2>7. HiddenLater'
    BY <2>1 DEF Inv, TrashInv, HiddenLater
  <2> QED BY <1>5, <2>1, <2>2, <2>3, <2>5, <2>6, <2>7, TrashFrame DEF Inv
<1> QED BY <1>6, <1>7, <1>8 DEF Inv

LEMMA StampStep ==
  ASSUME Inv, NEW r \in Requests, StampTrash(r)
  PROVE  Inv'
<1> DEFINE c == req[r].cid
<1>1. /\ r \in Running /\ req[r].kind \in Removals /\ c \in Contents /\ req[r].phase = "stamp"
      /\ r \in Requests /\ (req[r].kind = "delete" => req[r].last \in BOOLEAN)
  <2>1. r \in Running /\ req[r].phase = "stamp"
    BY DEF StampTrash, Running, Idle, Done
  <2>2. req[r].kind \in Removals
    BY <2>1, KindOf DEF Inv, MayGo, Removals
  <2> QED BY <2>1, <2>2, KindOf DEF Inv, Removals
<1>2. /\ trashedAt' = [trashedAt EXCEPT ![c] = now + 1] /\ now' = now + 1 /\ now \in Nat
      /\ UNCHANGED <<key, multi, faults, lastHidden, upset, crossed, misled, acked, written>>
  BY DEF StampTrash, hist, Inv, Typed, TypeOK
<1>3. \/ req[r].kind = "delete" /\ Step(r, "hide")
      \/ Answer(r)
  BY DEF StampTrash, Trashed
<1>4. req[r].kind = "delete" => "hide" \in MayGo(req[r].kind)
  BY <1>1 DEF MayGo, Removals
<1>5. /\ req' \in [Requests -> {Idle, Done} \cup Asked] /\ Others(r)
      /\ r \in Running' => SameReq(r) /\ req'[r].kind \in Removals /\ req'[r].phase = "hide"
  <2>1. CASE req[r].kind = "delete" /\ Step(r, "hide")
    BY <1>1, <1>4, <2>1, StepMoves DEF SameReq, Inv
  <2>2. CASE Answer(r)
    BY <1>1, <2>2, AnswerMoves DEF Inv
  <2> QED BY <1>3, <2>1, <2>2
<1>6. trashedAt'[c] = now + 1 /\ \A d \in Contents : d # c => trashedAt'[d] = trashedAt[d]
  BY <1>1, <1>2 DEF Inv, Typed, TypeOK
<1>7. Typed'
  <2>1. /\ trashedAt' \in [Contents -> 0..now'] /\ now' \in Nat
        /\ key' \in [Keys -> [cid : Contents \cup {None}, gone : 0..now', meta : Multiparts \cup {None}]]
    <3>1. 0..now \subseteq 0..now' /\ now + 1 \in 0..now'
      BY <1>2
    <3>2. trashedAt' \in [Contents -> 0..now']
      BY <1>2, <3>1 DEF Inv, Typed, TypeOK
    <3>3. ASSUME NEW k \in Keys
          PROVE  key[k] \in [cid : Contents \cup {None}, gone : 0..now', meta : Multiparts \cup {None}]
      <4>1. key[k] \in [cid : Contents \cup {None}, gone : 0..now, meta : Multiparts \cup {None}]
        BY DEF Inv, Typed, TypeOK
      <4> QED BY <3>1, <4>1
    <3> QED BY <1>2, <3>2, <3>3 DEF Inv, Typed, TypeOK
  <2> QED BY <1>2, <1>5, <2>1, TypesNext DEF Inv, Typed, TypeOK, multi
<1>8. MetaInv' /\ AckInv'
  <2>1. r \in Running' => SameReq(r) /\ TakesBack(r)'
    <3>1. TakesBack(r)
      BY DEF Inv, AckInv
    <3> QED BY <1>1, <1>2, <1>5, <3>1 DEF TakesBack, Is, At, SameReq, Unpromised
  <2>2. AckedIsReadable'
    <3>1. c \in misled \/ Unpromised(c)
      BY <1>1 DEF Inv, AckInv, TakesBack, Is, At, Removals
    <3>2. SUFFICES ASSUME NEW k \in Keys, acked[k] \notin misled \cup {None}
                   PROVE  Visible(k)' /\ key[k].cid = acked[k]
      BY <1>2 DEF AckedIsReadable
    <3>3. Visible(k) /\ key[k].cid = acked[k]
      BY <3>2 DEF Inv, AckInv, AckedIsReadable
    <3>4. acked[k] # c /\ acked[k] \in Contents
      BY <3>1, <3>2 DEF Unpromised, Inv, Typed, TypeOK
    <3> QED BY <1>2, <1>6, <3>3, <3>4 DEF Visible, Active, isObjectDeleted
  <2> QED BY <1>1, <1>2, <1>5, <2>1, <2>2, RemovalKeeps DEF Inv, multi
<1>9. TrashInv'
  <2>1. ASSUME NEW s \in Requests, s # r PROVE Meet(r, s)'
    <3>1. CASE r \in Running'
      BY <1>1, <1>2, <1>5, <2>1, <3>1, MeetKept
    <3>2. CASE r \notin Running'
      BY <3>2 DEF Meet, Removes
    <3> QED BY <3>1, <3>2
  <2>2. Late(r)'
    BY <1>5 DEF Late, Is, At
  <2>3. TrashesFirst(r)'
    BY <1>2, <1>5, <1>6 DEF TrashesFirst, Is, At, SameReq, Removes
  <2>4. Guarded'
    <3>1. \A d \in Contents : d # c => \A s \in Requests : Guarding(s, d) => Guarding(s, d)'
      BY <1>5, GuardsStay DEF Guarding
    <3>2. \A d \in Contents : Unnamed(d) => Unnamed(d)'
      BY <1>2 DEF Unnamed, Names, Active
    <3> QED BY <1>2, <1>6, <3>1, <3>2 DEF Inv, TrashInv, Guarded
  <2>5. HiddenLater'
    <3>1. lastHidden[c] = None \/ c \in upset \cup crossed
      BY <1>1 DEF Inv, TrashInv, TrashesFirst, Removes, At
    <3> QED BY <1>2, <1>6, <3>1, S3Assumption DEF Inv, TrashInv, HiddenLater
  <2>6. \A s \in Requests : Removes(s) => req[s].cid \in Contents
    BY KindOf DEF Removes, Removals, Inv
  <2> QED BY <1>2, <1>5, <1>6, <2>1, <2>2, <2>3, <2>4, <2>5, <2>6, TrashFrame DEF Inv
<1> QED BY <1>7, <1>8, <1>9 DEF Inv

LEMMA HideStep ==
  ASSUME Inv, NEW r \in Requests, Hide(r)
  PROVE  Inv'
<1> DEFINE c == req[r].cid
           k == req[r].key
           d == key[k].cid
<1>1. /\ r \in Running /\ req[r].kind = "delete" /\ c \in Contents /\ k \in Keys
      /\ req[r].phase = "hide" /\ r \in Requests /\ req[r].last \in BOOLEAN
  <2>1. r \in Running /\ req[r].phase = "hide"
    BY DEF Hide, Running, Idle, Done
  <2> QED BY <2>1, KindOf DEF Inv, MayGo
<1>2. /\ req' \in [Requests -> {Idle, Done} \cup Asked] /\ Others(r)
      /\ r \in Running' => SameReq(r) /\ req'[r].kind = "delete" /\ req'[r].phase = "recount"
      /\ r \notin Running' <=> req[r].last
  <2>1. CASE req[r].last
    BY <1>1, <2>1, AnswerMoves DEF Hide, Inv
  <2>2. CASE ~req[r].last
    <3>1. Step(r, "recount") /\ "recount" \in MayGo(req[r].kind)
      BY <1>1, <2>2 DEF Hide, MayGo
    <3> QED BY <1>1, <2>2, <3>1, StepMoves DEF SameReq, Inv
  <2> QED BY <2>1, <2>2
<1>3. UNCHANGED <<trashedAt, multi, faults, crossed, misled, written>>
  BY DEF Hide
<1>4. CASE ~Active(k)
  <2>1. UNCHANGED <<names, time, hist, multi>>
    BY <1>3, <1>4 DEF Hide, names, time, hist
  <2>2. Typed'
    BY <1>2, <2>1, TypesKept DEF Inv, Typed, TypeOK, multi
  <2>3. MetaInv' /\ AckInv'
    <3>1. r \in Running' => SameReq(r) /\ TakesBack(r)'
      <4>1. TakesBack(r)
        BY DEF Inv, AckInv
      <4> QED BY <1>1, <1>2, <2>1, <4>1 DEF TakesBack, Is, At, SameReq, hist
    <3>2. AckedIsReadable'
      BY <2>1 DEF Inv, AckInv, AckedIsReadable, Visible, Active, isObjectDeleted, names, hist
    <3> QED BY <1>1, <1>2, <2>1, <3>1, <3>2, RemovalKeeps DEF Inv, multi, hist, Removals
  <2>4. TrashInv'
    <3>1. UNCHANGED <<trashedAt, key, lastHidden, upset, crossed>>
      BY <2>1 DEF names, hist
    <3>2. ASSUME NEW s \in Requests, s # r PROVE Meet(r, s)'
      <4>1. CASE r \in Running'
        BY <1>1, <1>2, <3>1, <3>2, <4>1, MeetKept
      <4>2. CASE r \notin Running'
        BY <4>2 DEF Meet, Removes
      <4> QED BY <4>1, <4>2
    <3>3. Late(r)' /\ TrashesFirst(r)'
      BY <1>1, <1>2 DEF Late, TrashesFirst, Is, At, SameReq, Removes
    <3>4. Guarded'
      <4>1. \A e \in Contents, s \in Requests : Guarding(s, e) => Guarding(s, e)'
        BY <1>1, <1>2, GuardsStay DEF Guarding, At
      <4>2. \A e \in Contents : Unnamed(e) => Unnamed(e)'
        BY <3>1 DEF Unnamed, Names, Active
      <4> QED BY <3>1, <4>1, <4>2 DEF Inv, TrashInv, Guarded
    <3>5. HiddenLater'
      BY <3>1 DEF Inv, TrashInv, HiddenLater
    <3> QED BY <1>2, <3>1, <3>2, <3>3, <3>4, <3>5, TrashFrame DEF Inv
  <2> QED BY <2>2, <2>3, <2>4 DEF Inv
<1>5. CASE Active(k)
  <2>1. /\ key' = [key EXCEPT ![k].gone = now + 1] /\ now' = now + 1 /\ now \in Nat
        /\ lastHidden' = IF Emptied(d, k) THEN [lastHidden EXCEPT ![d] = k] ELSE lastHidden
        /\ upset' = IF d = c THEN upset ELSE upset \cup {d}
        /\ acked' = [acked EXCEPT ![k] = None]
        /\ d \in Contents
    <3>1. d \in Contents /\ now \in Nat
      BY <1>1, <1>5 DEF Active, Inv, Typed, TypeOK
    <3> QED BY <1>5, <3>1 DEF Hide
  <2>2. /\ key'[k].cid = d /\ key'[k].gone = now + 1
        /\ \A j \in Keys : j # k => key'[j] = key[j]
        /\ key' \in [Keys -> [cid : Contents \cup {None}, gone : 0..now', meta : Multiparts \cup {None}]]
    <3>1. ASSUME NEW j \in Keys
          PROVE  key[j] \in [cid : Contents \cup {None}, gone : 0..now', meta : Multiparts \cup {None}]
      <4>1. key[j] \in [cid : Contents \cup {None}, gone : 0..now, meta : Multiparts \cup {None}]
        BY DEF Inv, Typed, TypeOK
      <4>2. 0..now \subseteq 0..now'
        BY <2>1
      <4> QED BY <4>1, <4>2
    <3>2. key'[k] = [key[k] EXCEPT !.gone = now + 1] /\ \A j \in Keys : j # k => key'[j] = key[j]
      BY <1>1, <2>1 DEF Inv, Typed, TypeOK
    <3>3. now + 1 \in 0..now'
      BY <2>1
    <3>4. /\ key'[k] \in [cid : Contents \cup {None}, gone : 0..now', meta : Multiparts \cup {None}]
          /\ key'[k].cid = d /\ key'[k].gone = now + 1
      BY <1>1, <3>1, <3>2, <3>3
    <3>5. key' = [j \in Keys |-> key'[j]]
      BY <2>1 DEF Inv, Typed, TypeOK
    <3> QED BY <3>1, <3>2, <3>4, <3>5
  <2>3. /\ acked'[k] = None /\ \A j \in Keys : j # k => acked'[j] = acked[j]
        /\ upset \subseteq upset' /\ (d # c => d \in upset')
        /\ \A e \in Contents : lastHidden'[e] = lastHidden[e]
                               \/ (e = d /\ Emptied(d, k) /\ lastHidden'[e] = k)
        /\ lastHidden' \in [Contents -> Keys \cup {None}] /\ acked' \in [Keys -> Contents \cup {None}]
        /\ upset' \subseteq Contents
    BY <1>1, <2>1 DEF Inv, Typed, TypeOK
  <2>4. Typed'
    <3>1. trashedAt' \in [Contents -> 0..now'] /\ now' \in Nat
      <4>1. 0..now \subseteq 0..now'
        BY <2>1
      <4> QED BY <1>3, <2>1, <4>1 DEF Inv, Typed, TypeOK
    <3> QED BY <1>2, <1>3, <2>2, <2>3, <3>1, TypesNext DEF Inv, Typed, TypeOK, multi
  <2>5. MetaInv' /\ AckInv'
    <3>1. r \in Running' => SameReq(r) /\ TakesBack(r)'
      BY <1>1, <1>2, <2>3 DEF TakesBack, Is, At, SameReq
    <3>2. AckedIsReadable'
      <4>1. SUFFICES ASSUME NEW j \in Keys, acked'[j] \notin misled \cup {None}
                     PROVE  Visible(j)' /\ key'[j].cid = acked'[j]
        BY <1>3 DEF AckedIsReadable
      <4>2. j # k
        BY <2>3, <4>1
      <4> QED BY <1>3, <2>2, <2>3, <4>1, <4>2
            DEF Inv, AckInv, AckedIsReadable, Visible, Active, isObjectDeleted
    <3>3. \A j \in Keys : acked'[j] \in {acked[j], None}
      BY <2>3
    <3> QED BY <1>1, <1>2, <1>3, <3>1, <3>2, <3>3, RemovalKeeps DEF Inv, multi, Removals
  <2>6. TrashInv'
    <3>1. ASSUME NEW s \in Requests, s # r PROVE Meet(r, s)'
      <4>1. CASE r \in Running'
        BY <1>1, <1>2, <1>3, <3>1, <4>1, MeetKept
      <4>2. CASE r \notin Running'
        BY <4>2 DEF Meet, Removes
      <4> QED BY <4>1, <4>2
    <3>2. Late(r)' /\ TrashesFirst(r)'
      BY <1>1, <1>2 DEF Late, TrashesFirst, Is, At, SameReq, Removes
    <3>3. \A e \in Contents : Unnamed(e) => Unnamed(e)'
      BY <1>1, <2>2, <2>1 DEF Unnamed, Names, Active
    <3>4. ASSUME NEW e \in Contents, e = d, Emptied(d, k)
          PROVE  Unnamed(e)'
      <4>1. SUFFICES ASSUME NEW j \in Keys, Names(j, e)' PROVE FALSE
        BY DEF Unnamed
      <4>2. j # k
        BY <2>1, <2>2, <4>1 DEF Names, Active
      <4>3. Names(j, d)
        BY <2>2, <3>4, <4>1, <4>2 DEF Names, Active
      <4>4. countActive(d) <= 1 /\ Names(k, d)
        BY <3>4 DEF Emptied
      <4> QED BY <1>1, <4>2, <4>3, <4>4, CountOne
    <3>5. Guarded'
      <4>1. SUFFICES ASSUME NEW e \in Contents, lastHidden'[e] # None, e \notin upset', ~(trashedAt[e] > 0)
                     PROVE  Unnamed(e)' /\ \E s \in Requests : Guarding(s, e)'
        BY <1>3 DEF Guarded
      <4>2. CASE lastHidden'[e] = lastHidden[e]
        <5>1. Unnamed(e) /\ \E s \in Requests : Guarding(s, e)
          BY <2>3, <4>1, <4>2 DEF Inv, TrashInv, Guarded
        <5>2. \A s \in Requests : Guarding(s, e) => Guarding(s, e)'
          BY <1>1, <1>2, GuardsStay DEF Guarding, At
        <5> QED BY <3>3, <5>1, <5>2
      <4>3. CASE e = d /\ Emptied(d, k)
        <5>1. d = c /\ c \notin upset
          BY <2>3, <4>1, <4>3
        <5>2. ~req[r].last
          BY <1>1, <4>1, <4>3, <5>1 DEF Inv, TrashInv, TrashesFirst, Is, At
        <5>3. Guarding(r, e)'
          BY <1>1, <1>2, <4>3, <5>1, <5>2 DEF Guarding, Is, At, SameReq
        <5> QED BY <3>4, <4>3, <5>3
      <4> QED BY <2>3, <4>1, <4>2, <4>3
    <3>6. HiddenLater'
      <4>1. SUFFICES ASSUME NEW e \in Contents, NEW j \in Keys, lastHidden'[e] = j, trashedAt[e] > 0,
                            e \notin upset' \cup crossed, key'[j].cid = e, key'[j].gone > 0
                     PROVE  key'[j].gone >= trashedAt[e]
        BY <1>3 DEF HiddenLater
      <4>2. trashedAt[e] \in 0..now
        BY DEF Inv, Typed, TypeOK
      <4>3. CASE j = k
        BY <2>1, <2>2, <4>2, <4>3
      <4>4. CASE j # k
        <5>1. lastHidden[e] = j /\ key'[j] = key[j] /\ e \notin upset
          BY <2>2, <2>3, <4>1, <4>4
        <5> QED BY <4>1, <5>1 DEF Inv, TrashInv, HiddenLater
      <4> QED BY <4>3, <4>4
    <3>7. ASSUME NEW s \in Requests, s # r, Removes(s)
          PROVE  LET e == req[s].cid
                 IN /\ trashedAt[e] > 0 \/ e \in upset => trashedAt'[e] > 0 \/ e \in upset'
                    /\ lastHidden[e] = None \/ e \in upset \cup crossed
                         => lastHidden'[e] = None \/ e \in upset' \cup crossed'
      <4>1. req[s].cid \in Contents
        BY <3>7, KindOf DEF Removes, Removals, Inv
      <4>2. req[s].cid = c => c \in crossed
        <5>1. Meet(r, s) /\ Removes(r)
          BY <1>1, <3>7 DEF Inv, TrashInv, Removes, Removals
        <5> QED BY <3>7, <5>1 DEF Meet
      <4> QED BY <1>3, <2>3, <4>1, <4>2
    <3> QED BY <1>2, <1>3, <3>1, <3>2, <3>5, <3>6, <3>7, TrashFrame DEF Inv
  <2> QED BY <2>4, <2>5, <2>6 DEF Inv
<1> QED BY <1>4, <1>5

LEMMA RecountStep ==
  ASSUME Inv, NEW r \in Requests, Recount(r)
  PROVE  Inv'
<1> DEFINE c == req[r].cid
<1>1. /\ r \in Running /\ req[r].kind = "delete" /\ c \in Contents /\ req[r].key \in Keys
      /\ req[r].phase = "recount" /\ r \in Requests
  <2>1. r \in Running /\ req[r].phase = "recount"
    BY DEF Recount, Running, Idle, Done
  <2> QED BY <2>1, KindOf DEF Inv, MayGo
<1>2. /\ UNCHANGED <<names, multi, time, lastHidden, upset, misled, acked, written>>
      /\ \/ Unnamed(c) /\ Step(r, "owns") /\ crossed' = crossed \cup {c}
         \/ ~Unnamed(c) /\ Answer(r) /\ crossed' = crossed
  BY CountNone DEF Recount
<1>3. /\ req' \in [Requests -> {Idle, Done} \cup Asked] /\ Others(r)
      /\ r \in Running' => /\ SameReq(r) /\ req'[r].kind = "delete" /\ req'[r].phase = "owns"
                           /\ Unnamed(c) /\ c \in crossed'
      /\ r \notin Running' => ~Unnamed(c)
      /\ crossed \subseteq crossed' /\ crossed' \subseteq crossed \cup {c}
  <2>1. CASE Unnamed(c) /\ Step(r, "owns") /\ crossed' = crossed \cup {c}
    <3>1. "owns" \in MayGo(req[r].kind)
      BY <1>1 DEF MayGo
    <3> QED BY <1>1, <2>1, <3>1, StepMoves DEF SameReq, Inv
  <2>2. CASE ~Unnamed(c) /\ Answer(r) /\ crossed' = crossed
    BY <1>1, <2>2, AnswerMoves DEF Inv
  <2> QED BY <1>2, <2>1, <2>2
<1>4. Typed'
  <2>1. crossed' \subseteq Contents
    BY <1>1, <1>3 DEF Inv, Typed, TypeOK
  <2> QED BY <1>2, <1>3, <2>1, TypesNext DEF Inv, Typed, TypeOK, names, multi, time
<1>5. MetaInv' /\ AckInv'
  <2>1. r \in Running' => SameReq(r) /\ TakesBack(r)'
    <3>1. SUFFICES ASSUME r \in Running' PROVE TakesBack(r)'
      BY <1>3
    <3>2. acked[req[r].key] = None
      BY <1>1 DEF Inv, AckInv, TakesBack, Is
    <3>3. c \in misled \/ Unpromised(c)
      BY <1>1, <1>3, <3>1, PromisedIsNamed DEF Unpromised, Unnamed
    <3> QED BY <1>1, <1>2, <1>3, <3>1, <3>2, <3>3 DEF TakesBack, Is, At, SameReq, Unpromised
  <2>2. AckedIsReadable'
    BY <1>2 DEF Inv, AckInv, AckedIsReadable, Visible, Active, isObjectDeleted, names
  <2> QED BY <1>1, <1>2, <1>3, <2>1, <2>2, RemovalKeeps DEF Inv, multi, Removals
<1>6. TrashInv'
  <2>1. UNCHANGED <<trashedAt, key, lastHidden, upset>>
    BY <1>2 DEF names
  <2>2. ASSUME NEW s \in Requests, s # r PROVE Meet(r, s)'
    <3>1. CASE r \in Running'
      BY <1>1, <1>3, <2>2, <3>1, MeetKept
    <3>2. CASE r \notin Running'
      BY <3>2 DEF Meet, Removes
    <3> QED BY <3>1, <3>2
  <2>3. Late(r)' /\ TrashesFirst(r)'
    BY <1>1, <1>3 DEF Late, TrashesFirst, Is, At, SameReq, Removes
  <2>4. Guarded'
    <3>1. ASSUME NEW d \in Contents, NEW s \in Requests, Guarding(s, d), Unnamed(d)
          PROVE  Guarding(s, d)'
      <4>1. CASE s = r
        <5>1. d = c /\ ~req[r].last /\ r \in Running'
          BY <1>3, <3>1, <4>1 DEF Guarding
        <5> QED BY <1>1, <1>3, <4>1, <5>1 DEF Guarding, Is, At, SameReq
      <4>2. CASE s # r
        BY <1>3, <3>1, <4>2, GuardsStay
      <4> QED BY <4>1, <4>2
    <3>2. \A d \in Contents : Unnamed(d) => Unnamed(d)'
      BY <2>1 DEF Unnamed, Names, Active
    <3> QED BY <2>1, <3>1, <3>2 DEF Inv, TrashInv, Guarded
  <2>5. HiddenLater'
    BY <1>3, <2>1 DEF Inv, TrashInv, HiddenLater
  <2> QED BY <1>3, <2>1, <2>2, <2>3, <2>4, <2>5, TrashFrame DEF Inv
<1> QED BY <1>4, <1>5, <1>6 DEF Inv

(***************************************************************************)
(* Failures                                                                *)
(***************************************************************************)
LEMMA FailStep ==
  ASSUME Inv, NEW r \in Requests, Fail(r)
  PROVE  Inv'
<1> DEFINE c == req[r].cid
           x == req[r].upload
<1>1. /\ r \in Running /\ UNCHANGED <<names, staged, now, lastHidden, crossed, misled, acked, written>>
      /\ faults' \in 0..MaxFaults
      /\ upset' = IF req[r].kind = "delete" THEN upset \cup {c} ELSE upset
  BY S3Assumption DEF Fail, Inv, Typed, TypeOK
<1>2. req' \in [Requests -> {Idle, Done} \cup Asked] /\ Others(r) /\ r \notin Running'
  BY AnswerMoves DEF Fail, Inv
<1>3. upset' \subseteq Contents /\ upset \subseteq upset'
  BY <1>1, KindOf DEF Inv, Typed, TypeOK
<1>4. /\ mpu' \in [Multiparts -> [status : {"none"}] \cup Uploaded]
      /\ \A y \in Multiparts :
           \/ mpu'[y] = mpu[y]
           \/ mpu[y].status = "claimed" /\ mpu'[y].status = "open" /\ mpu'[y].meta = mpu[y].meta
  <2>1. CASE mpu' = mpu
    BY <2>1 DEF Inv, Typed
  <2>2. CASE req[r].kind = "complete" /\ mpu[x].status = "claimed" /\ mpu' = [mpu EXCEPT ![x].status = "open"]
    <3>1. x \in Multiparts
      BY <1>1, <2>2, KindOf DEF Inv
    <3> QED BY <2>2, <3>1, StatusMoves DEF Inv
  <2> QED BY <2>1, <2>2 DEF Fail
<1>5. Typed'
  BY <1>1, <1>2, <1>3, <1>4, TypesNext DEF Inv, Typed, TypeOK, names
<1>6. MetaInv'
  <2>1. MetaInHand(r)'
    BY <1>2 DEF MetaInHand, Is
  <2>2. StagedMetaKept'
    BY <1>1, <1>4 DEF Inv, MetaInv, StagedMetaKept
  <2> QED BY <1>1, <1>2, <1>4, <2>1, <2>2, MetaFrame DEF Inv
<1>7. AckInv'
  <2>1. QuietIsAlone'
    BY <1>2, QuietFrame DEF Inv, AckInv
  <2>2. PromiseIsOut(r)' /\ TakesBack(r)'
    BY <1>2 DEF PromiseIsOut, Promises, TakesBack, Is
  <2> QED BY <1>1, <1>2, <2>1, <2>2, AckSame DEF Inv, names
<1>8. TrashInv'
  <2>1. Late(r)' /\ TrashesFirst(r)' /\ \A s \in Requests : Meet(r, s)'
    BY <1>2 DEF Late, TrashesFirst, Meet, Removes, Is
  <2>2. Guarded'
    <3>1. \A d \in Contents : d \notin upset' => \A s \in Requests : Guarding(s, d) => Guarding(s, d)'
      BY <1>1, <1>2, GuardsStay DEF Guarding, Is
    <3>2. \A d \in Contents : Unnamed(d) => Unnamed(d)'
      BY <1>1 DEF Unnamed, Names, Active, names
    <3> QED BY <1>1, <1>3, <3>1, <3>2 DEF Inv, TrashInv, Guarded, names
  <2>3. HiddenLater'
    BY <1>1, <1>3 DEF Inv, TrashInv, HiddenLater, names
  <2> QED BY <1>1, <1>2, <1>3, <2>1, <2>2, <2>3, TrashFrame DEF Inv, names
<1> QED BY <1>5, <1>6, <1>7, <1>8 DEF Inv

(***************************************************************************)
(* The theorems                                                            *)
(***************************************************************************)
LEMMA InitInv == Init => Inv
<1> SUFFICES ASSUME Init PROVE Inv
  OBVIOUS
<1>1. Running = {}
  BY DEF Init, Running
<1>2. \A k \in Keys : key[k] \in [cid : Contents \cup {None}, gone : {0}, meta : {None}]
  BY DEF Init
<1>3. Typed
  <2>1. /\ trashedAt \in [Contents -> 0..now] /\ now \in Nat /\ faults \in 0..MaxFaults
        /\ key \in [Keys -> [cid : Contents \cup {None}, gone : 0..now, meta : Multiparts \cup {None}]]
        /\ acked \in [Keys -> Contents \cup {None}] /\ lastHidden \in [Contents -> Keys \cup {None}]
    BY <1>2, S3Assumption DEF Init
  <2>2. mpu \in [Multiparts -> [status : {"none"}] \cup Uploaded]
    BY DEF Init
  <2> QED BY <1>1, <2>1, <2>2 DEF Init, Typed, TypeOK
<1>4. MetaInv
  BY <1>1 DEF Init, MetaInv, StagedMetaKept, MetaInHand, Is
<1>5. AckInv
  <2>1. AckedIsReadable
    BY <1>2 DEF Init, AckedIsReadable, Visible, Active, isObjectDeleted
  <2> QED BY <1>1, <2>1 DEF AckInv, QuietIsAlone, PromiseIsOut, TakesBack, Promises, Is
<1>6. TrashInv
  <2>1. Guarded /\ HiddenLater
    BY S3Assumption DEF Init, Guarded, HiddenLater
  <2> QED BY <1>1, <2>1 DEF TrashInv, Meet, Late, TrashesFirst, Removes, Is
<1> QED BY <1>3, <1>4, <1>5, <1>6 DEF Inv

LEMMA NextInv == Inv /\ [Next]_vars => Inv'
<1> SUFFICES ASSUME Inv, [Next]_vars PROVE Inv'
  OBVIOUS
<1>1. ASSUME NEW r \in Requests, Arrive(r) PROVE Inv'
  BY <1>1, PutStep, CompleteStep, AbortStep, CopyStep, DeleteStep, TrashStep, RestoreStep DEF Arrive
<1>2. ASSUME NEW r \in Requests, Proceed(r) PROVE Inv'
  BY <1>2, OwnStep, OwnLostStep, FlipStep, ReadMetaStep, MappingStep, UnstageStep, AuthorizeStep,
     RemoveUploadStep, CountStep, CheckOwnerStep, StampStep, HideStep, RecountStep, UntrashStep,
     UnhideStep DEF Proceed
<1>3. ASSUME NEW r \in Requests, Fail(r) PROVE Inv'
  BY <1>3, FailStep
<1>4. ASSUME NEW x \in Multiparts, NEW k \in Keys, NEW c \in Contents, NEW hasMeta \in BOOLEAN,
             CreateMultipart(x, k, c, hasMeta)
      PROVE  Inv'
  BY <1>4, CreateMultipartStep
<1>5. ASSUME NEW x \in Multiparts, Migrated(x) PROVE Inv'
  BY <1>5, MigratedStep
<1>6. CASE UNCHANGED vars
  <2>1. UNCHANGED <<names, multi, req, time, hist>>
    BY <1>6 DEF vars
  <2>2. PICK r : r \notin Requests /\ Others(r) /\ r \notin Running /\ r \notin Running'
    BY <2>1, NobodyMoves
  <2>3. MetaInv'
    BY <2>1, <2>2, MetaSame DEF Inv, multi, hist, Is
  <2>4. PromiseIsOut(r)'
    BY <2>2 DEF PromiseIsOut, Promises
  <2> QED BY <2>1, <2>2, <2>3, <2>4, WriteStep DEF Inv, Typed, TypeOK, multi, hist
<1> QED BY <1>1, <1>2, <1>3, <1>4, <1>5, <1>6 DEF Next

LEMMA SpecInv == Spec => []Inv
BY InitInv, NextInv, PTL DEF Spec

\* Every variable keeps its type, and no name and no content bears a stamp of
\* the future, however requests overlap and fail.
THEOREM TypeCorrect == Spec => []TypeOK
<1>1. Inv => TypeOK
  BY DEF Inv, Typed
<1> QED BY SpecInv, <1>1, PTL

\* Metadata that was staged for a multipart upload is staged until it has
\* reached a name or the upload is aborted, whatever completions are retried,
\* repeated, or fail half-way.
THEOREM MetadataIsKept == Spec => []StagedMetaKept
<1>1. Inv => StagedMetaKept
  BY DEF Inv, MetaInv
<1> QED BY SpecInv, <1>1, PTL

\* What an undisturbed write has acknowledged stays readable under its name until
\* it is deleted, overwritten or trashed, whatever deletions of other names of
\* the content run, unless one of them counted when its own name was none.
THEOREM AcknowledgedIsReadable == Spec => []AckedIsReadable
<1>1. Inv => AckedIsReadable
  BY DEF Inv, AckInv
<1> QED BY SpecInv, <1>1, PTL

\* Content whose last name a deletion has hidden is in the Trash once the
\* requests about it are over: for any number of names and of deletions that
\* overlap, the check before and the check after the hiding are enough.
THEOREM EmptiedContentIsTrashed == Spec => []EmptiedIsTrashed
<1>1. Inv => EmptiedIsTrashed
  <2>1. SUFFICES ASSUME Inv, NEW c \in Contents, lastHidden[c] # None, c \notin upset,
                        \A r \in Running : req[r].cid # c
                 PROVE  trashedAt[c] > 0
    BY DEF EmptiedIsTrashed
  <2> QED BY <2>1 DEF Inv, TrashInv, Guarded, Guarding, Is
<1> QED BY SpecInv, <1>1, PTL

\* A name whose deletion sent its content to the Trash was hidden no earlier than
\* the content was trashed, so that restoring the content brings the name back.
THEOREM RestoredNameReturns == Spec => []RestoreReturnsName
<1>1. Inv => RestoreReturnsName
  <2>1. SUFFICES ASSUME Inv, NEW c \in Contents, lastHidden[c] # None, trashedAt[c] > 0,
                        c \notin upset \cup crossed, key[lastHidden[c]].cid = c,
                        ~Active(lastHidden[c])
                 PROVE  lastHidden[c] \in Returning(c, trashedAt[c])
    BY DEF RestoreReturnsName
  <2>2. lastHidden[c] \in Keys /\ key[lastHidden[c]].gone \in 0..now /\ now \in Nat
    BY <2>1 DEF Inv, Typed, TypeOK
  <2>3. key[lastHidden[c]].gone > 0
    BY <2>1, <2>2, S3Assumption DEF Active
  <2>4. key[lastHidden[c]].gone >= trashedAt[c]
    BY <2>1, <2>2, <2>3 DEF Inv, TrashInv, HiddenLater
  <2> QED BY <2>1, <2>2, <2>3, <2>4 DEF Returning
<1> QED BY SpecInv, <1>1, PTL
=============================================================================
