------------------------------- MODULE S3Objects -------------------------------
(***************************************************************************)
(* The S3 names of one user over content-addressed objects: PutObject,     *)
(* CopyObject, DeleteObject and multipart uploads (core/s3/index.ts) act   *)
(* on the same content as the Trash of the web application                 *)
(* (core/objects/object.ts), and each is several awaited statements.       *)
(*                                                                         *)
(* A name maps to a content and may be hidden; a content may be trashed.   *)
(* The names of other users are never touched.  The contents have been     *)
(* uploaded by the user before, so that each has its ownership row.  Time  *)
(* is one counter that every stamp advances: the API servers' clock, which *)
(* stamps the Trash, and the database's, which stamps names, agree.        *)
(***************************************************************************)
EXTENDS Naturals, FiniteSets

CONSTANTS
  Keys,        \* (bucket, key) pairs
  Contents,    \* CIDs
  Shared,      \* contents another owner holds, and never trashes
  Multiparts,  \* multipart uploads
  Requests,    \* requests to the API: each is made once
  MaxFaults,   \* bound on failed queries
  None         \* no content, no metadata, no name

ASSUME S3Assumption ==
  /\ IsFiniteSet(Keys) /\ Shared \subseteq Contents /\ MaxFaults \in Nat
  /\ None \notin Contents \cup Multiparts \cup Keys

VARIABLES
  trashedAt,   \* object_ownership.marked_as_deleted of the user, 0 for NULL
  key,         \* object_mappings: content, deleted_at (0 for NULL), metadata
  mpu,         \* multipart uploads: status, name, content
  staged,      \* multipart_upload_meta: uploads whose metadata is staged
  req,         \* requests
  now,         \* the last stamp
  faults,
  lastHidden,  \* history: the name whose deletion left a content without names, until it
               \* has others before it is trashed
  upset,       \* history: contents with a deletion that failed, met an un-trash, or hid another name's content
  crossed,     \* history: contents with overlapping removals, or trashed by the race guard
  misled,      \* history: contents whose names a deletion counted when its own was no longer one
  acked,       \* history: what a name must answer with: set by an undisturbed write
  written      \* history: uploads whose staged metadata reached a name

names == <<trashedAt, key>>
multi == <<mpu, staged>>
time  == <<now, faults>>
hist  == <<lastHidden, upset, crossed, misled, acked, written>>
vars  == <<names, multi, req, time, hist>>

Idle == [phase |-> "idle"]
Done == [phase |-> "done"]

Writes   == {"put", "copy", "complete"}
Removals == {"delete", "trash"}

Running == {r \in Requests : req[r] \notin {Idle, Done}}
On(c, kinds) == {r \in Running : req[r].kind \in kinds /\ req[r].cid = c}

Begin(r, fields) == req[r] = Idle /\ req' = [req EXCEPT ![r] = fields]
Step(r, phase)   == req' = [req EXCEPT ![r].phase = phase]
Answer(r)        == req' = [req EXCEPT ![r] = Done]

\* A removal or an un-trash that begins disturbs the writes under way.
Disturb(r, fields) ==
  /\ req[r] = Idle
  /\ req' = [s \in Requests |->
               IF s = r THEN fields
               ELSE IF s \in Running /\ req[s].kind \in Writes
                    THEN [req[s] EXCEPT !.quiet = FALSE] ELSE req[s]]

Quiet == \A r \in Running : req[r].kind \in Writes

(***************************************************************************)
(* Queries                                                                 *)
(***************************************************************************)
Active(k) == key[k].cid # None /\ key[k].gone = 0

\* countActiveMappingsByCid.
Names(k, c)    == Active(k) /\ key[k].cid = c
countActive(c) == Cardinality({k \in Keys : Names(k, c)})

\* isObjectDeleted: it has owners, and every one of them trashed it.
isObjectDeleted(c) == c \notin Shared /\ trashedAt[c] > 0

\* findVisibleMapping; GetObject refuses the same names (authorizeDownload).
Visible(k) == Active(k) /\ ~isObjectDeleted(key[k].cid)

\* Content that has a name again before it is trashed is not without names.
Renamed(c) ==
  lastHidden' = IF trashedAt[c] > 0 THEN lastHidden ELSE [lastHidden EXCEPT ![c] = None]

(***************************************************************************)
(* Writes: PutObject, CompleteMultipartUpload, CopyObject                  *)
(***************************************************************************)
\* putObject has uploaded the content; completeUpload finalizes it.
PutObject(r, k, c) ==
  /\ Begin(r, [phase |-> "own", kind |-> "put", key |-> k, cid |-> c, meta |-> None,
               quiet |-> Quiet, fresh |-> TRUE])
  /\ UNCHANGED <<names, multi, time, hist>>

\* An upload aborted under its completion: finalizing it throws.
Lost(r) == req[r].kind = "complete" /\ mpu[req[r].upload].status = "aborted"

\* Mutant: content that is uploaded again stays in the Trash.
OwnTrashed(r) ==
  /\ req[r].phase = "own" /\ ~Lost(r)
  /\ Step(r, IF req[r].kind = "put" THEN "map" ELSE "flip")
  /\ UNCHANGED <<names, multi, time, hist>>

\* setUserAsAdmin: the user owns the content, which leaves the Trash.
Own(r) ==
  /\ req[r].phase = "own" /\ ~Lost(r)
  /\ LET c == req[r].cid
     IN /\ trashedAt' = [trashedAt EXCEPT ![c] = 0]
        /\ upset' = IF On(c, Removals) # {} THEN upset \cup {c} ELSE upset
        /\ lastHidden' = [lastHidden EXCEPT ![c] = None]
  /\ Step(r, IF req[r].kind = "put" THEN "map" ELSE "flip")
  /\ UNCHANGED <<key, multi, time, crossed, misled, acked, written>>

\* createMultipartUpload, and its parts; the client has metadata, or none.
CreateMultipart(x, k, c, hasMeta) ==
  /\ mpu[x].status = "none"
  /\ mpu' = [mpu EXCEPT ![x] = [status |-> "open", key |-> k, cid |-> c, meta |-> hasMeta]]
  /\ staged' = IF hasMeta THEN staged \cup {x} ELSE staged
  /\ UNCHANGED <<names, req, time, hist>>

\* completeMultipartUpload: the completion is claimed, or is over, or another
\* has the claim (SlowDown) or the upload is gone.
CompleteMultipart(r, x) ==
  /\ mpu[x].status \in {"open", "done"}
  /\ Begin(r, [phase |-> IF mpu[x].status = "open" THEN "own" ELSE "meta",
               kind |-> "complete", upload |-> x, key |-> mpu[x].key, cid |-> mpu[x].cid,
               meta |-> None, quiet |-> Quiet, fresh |-> mpu[x].status = "open"])
  /\ mpu' = IF mpu[x].status = "open" THEN [mpu EXCEPT ![x].status = "claimed"] ELSE mpu
  /\ UNCHANGED <<names, staged, time, hist>>

OwnLost(r) ==
  /\ req[r].phase = "own" /\ Lost(r)
  /\ Answer(r)
  /\ UNCHANGED <<names, multi, time, hist>>

\* finalizeCompletedUpload: the upload, if it is still there, is to be migrated.
Flip(r) ==
  /\ req[r].phase = "flip"
  /\ mpu' = IF Lost(r) THEN mpu ELSE [mpu EXCEPT ![req[r].upload].status = "done"]
  /\ Step(r, "meta")
  /\ UNCHANGED <<names, staged, time, hist>>

\* Mutant: the staged metadata is taken away when it is read.
ReadMetaOnce(r) ==
  /\ req[r].phase = "meta"
  /\ req' = [req EXCEPT ![r].phase = "map",
                        ![r].meta = IF req[r].upload \in staged THEN req[r].upload ELSE None]
  /\ staged' = staged \ {req[r].upload}
  /\ UNCHANGED <<names, mpu, time, hist>>

\* getMultipartMeta.
ReadMeta(r) ==
  /\ req[r].phase = "meta"
  /\ req' = [req EXCEPT ![r].phase = "map",
                        ![r].meta = IF req[r].upload \in staged THEN req[r].upload ELSE None]
  /\ UNCHANGED <<names, multi, time, hist>>

\* createMapping: one upsert, which un-hides the name.  The write that ends
\* undisturbed promises its name to the client.
createMapping(r) ==
  /\ req[r].phase = "map"
  /\ LET k == req[r].key
     IN /\ key' = [key EXCEPT ![k] = [cid |-> req[r].cid, gone |-> 0, meta |-> req[r].meta]]
        /\ acked' = [acked EXCEPT ![k] = IF req[r].quiet /\ req[r].fresh
                                         THEN req[r].cid ELSE None]
  /\ written' = IF req[r].meta = None THEN written ELSE written \cup {req[r].meta}
  /\ Renamed(req[r].cid)
  /\ IF req[r].kind = "complete" THEN Step(r, "unstage") ELSE Answer(r)
  /\ UNCHANGED <<trashedAt, multi, time, upset, crossed, misled>>

\* deleteMultipartMeta.
Unstage(r) ==
  /\ req[r].phase = "unstage"
  /\ staged' = staged \ {req[r].upload}
  /\ Answer(r)
  /\ UNCHANGED <<names, mpu, time, hist>>

\* copyObject: the source is looked up, then checked to be readable; the
\* metadata is the source's (COPY) or the request's (REPLACE).
CopyObject(r, source, k, replace) ==
  /\ Active(source)
  /\ Begin(r, [phase |-> "authorize", kind |-> "copy", key |-> k, cid |-> key[source].cid,
               meta |-> IF replace THEN None ELSE key[source].meta,
               quiet |-> Quiet, fresh |-> TRUE])
  /\ UNCHANGED <<names, multi, time, hist>>

Authorize(r) ==
  /\ req[r].phase = "authorize"
  /\ IF isObjectDeleted(req[r].cid) THEN Answer(r) ELSE Step(r, "map")
  /\ UNCHANGED <<names, multi, time, hist>>

\* abortMultipartUpload: removeUploadArtifacts, unless the upload is being or
\* has been completed, then the staged metadata.
AbortMultipart(r, x) ==
  /\ mpu[x].status = "open"
  /\ Begin(r, [phase |-> "abort", kind |-> "abort", upload |-> x, cid |-> None])
  /\ UNCHANGED <<names, multi, time, hist>>

\* Mutant: the upload is marked instead of removed.
RemoveUploadSoft(r) ==
  /\ req[r].phase = "abort"
  /\ mpu' = [mpu EXCEPT ![req[r].upload].status = "cancelled"]
  /\ Step(r, "unstage")
  /\ UNCHANGED <<names, staged, time, hist>>

RemoveUpload(r) ==
  /\ req[r].phase = "abort"
  /\ mpu' = [mpu EXCEPT ![req[r].upload].status = "aborted"]
  /\ Step(r, "unstage")
  /\ UNCHANGED <<names, staged, time, hist>>

\* The migration of a completed upload ends: its row is gone (Migration).
Migrated(x) ==
  /\ mpu[x].status = "done"
  /\ mpu' = [mpu EXCEPT ![x].status = "gone"]
  /\ UNCHANGED <<names, staged, req, time, hist>>

(***************************************************************************)
(* Removals: DeleteObject and the Trash                                    *)
(***************************************************************************)
\* deleteObject: findByKey; nothing is to be done for a name that is hidden.
DeleteObject(r, k) ==
  /\ Active(k)
  /\ LET c == key[k].cid
     IN /\ Disturb(r, [phase |-> "count", kind |-> "delete", key |-> k, cid |-> c,
                       last |-> FALSE])
        /\ crossed' = IF On(c, Removals) # {} THEN crossed \cup {c} ELSE crossed
  /\ acked' = [acked EXCEPT ![k] = None]
  /\ UNCHANGED <<names, multi, time, lastHidden, upset, misled, written>>

\* isLastKey: the content goes to the Trash before its last name is hidden.
Count(r) ==
  /\ req[r].phase = "count"
  /\ LET last == countActive(req[r].cid) <= 1
     IN req' = [req EXCEPT ![r].last = last, ![r].phase = IF last THEN "owns" ELSE "hide"]
  /\ misled' = IF Names(req[r].key, req[r].cid) THEN misled ELSE misled \cup {req[r].cid}
  /\ UNCHANGED <<names, multi, time, lastHidden, upset, crossed, acked, written>>

\* What comes after markAsDeleted, whether or not it was allowed.
Trashed(r) == IF req[r].kind = "delete" /\ req[r].last THEN Step(r, "hide") ELSE Answer(r)

\* Mutant: content that is in the Trash already is stamped again.
CheckOwnerOnly(r) ==
  /\ req[r].phase = "owns"
  /\ Step(r, "stamp")
  /\ UNCHANGED <<names, multi, time, hist>>

\* markAsDeleted: the user must own the content, and not have trashed it.
CheckOwner(r) ==
  /\ req[r].phase = "owns"
  /\ IF trashedAt[req[r].cid] = 0 THEN Step(r, "stamp") ELSE Trashed(r)
  /\ UNCHANGED <<names, multi, time, hist>>

\* setObjectAsDeleted: the stamp is written whatever the row now holds.
StampTrash(r) ==
  /\ req[r].phase = "stamp"
  /\ trashedAt' = [trashedAt EXCEPT ![req[r].cid] = now + 1]
  /\ now' = now + 1
  /\ Trashed(r)
  /\ UNCHANGED <<key, multi, faults, hist>>

Emptied(c, k) == countActive(c) = 1 /\ Names(k, c)

\* Mutant: no second count.
HideUnguarded(r) ==
  /\ req[r].phase = "hide"
  /\ LET k == req[r].key  c == key[k].cid
     IN IF Active(k)
        THEN /\ key' = [key EXCEPT ![k].gone = now + 1]
             /\ now' = now + 1
             /\ lastHidden' = IF Emptied(c, k) THEN [lastHidden EXCEPT ![c] = k] ELSE lastHidden
             /\ upset' = IF c = req[r].cid THEN upset ELSE upset \cup {c}
             /\ acked' = [acked EXCEPT ![k] = None]
        ELSE UNCHANGED <<key, now, lastHidden, upset, acked>>
  /\ Answer(r)
  /\ UNCHANGED <<trashedAt, multi, faults, crossed, misled, written>>

\* softDeleteMapping: whatever the name maps to now is hidden.
Hide(r) ==
  /\ req[r].phase = "hide"
  /\ LET k == req[r].key  c == key[k].cid
     IN IF Active(k)
        THEN /\ key' = [key EXCEPT ![k].gone = now + 1]
             /\ now' = now + 1
             /\ lastHidden' = IF Emptied(c, k) THEN [lastHidden EXCEPT ![c] = k] ELSE lastHidden
             /\ upset' = IF c = req[r].cid THEN upset ELSE upset \cup {c}
             /\ acked' = [acked EXCEPT ![k] = None]
        ELSE UNCHANGED <<key, now, lastHidden, upset, acked>>
  /\ IF req[r].last THEN Answer(r) ELSE Step(r, "recount")
  /\ UNCHANGED <<trashedAt, multi, faults, crossed, misled, written>>

\* The race guard: a sibling name may have been hidden since the first count.
Recount(r) ==
  /\ req[r].phase = "recount"
  /\ LET c == req[r].cid
     IN IF countActive(c) = 0
        THEN Step(r, "owns") /\ crossed' = crossed \cup {c}
        ELSE Answer(r) /\ UNCHANGED crossed
  /\ UNCHANGED <<names, multi, time, lastHidden, upset, misled, acked, written>>

\* The web application moves an object to the Trash.
TrashObject(r, c) ==
  /\ Disturb(r, [phase |-> "owns", kind |-> "trash", cid |-> c])
  /\ crossed' = IF On(c, Removals) # {} THEN crossed \cup {c} ELSE crossed
  /\ acked' = [k \in Keys |-> IF acked[k] = c THEN None ELSE acked[k]]
  /\ UNCHANGED <<names, multi, time, lastHidden, upset, misled, written>>

\* restoreObject: the time of the Trash is read, the mark taken away, and the
\* names hidden at that time or later come back.
RestoreObject(r, c) ==
  /\ trashedAt[c] > 0
  /\ Disturb(r, [phase |-> "unown", kind |-> "restore", cid |-> c, since |-> trashedAt[c]])
  /\ UNCHANGED <<names, multi, time, hist>>

Untrash(r) ==
  /\ req[r].phase = "unown"
  /\ LET c == req[r].cid
     IN /\ trashedAt' = [trashedAt EXCEPT ![c] = 0]
        /\ upset' = IF On(c, Removals) # {} THEN upset \cup {c} ELSE upset
        /\ lastHidden' = [lastHidden EXCEPT ![c] = None]
  /\ Step(r, "unhide")
  /\ UNCHANGED <<key, multi, time, crossed, misled, acked, written>>

\* restoreMappingsByCid.
Returning(c, since) == {k \in Keys : key[k].cid = c /\ key[k].gone > 0 /\ key[k].gone >= since}

Unhide(r) ==
  /\ req[r].phase = "unhide"
  /\ LET back == Returning(req[r].cid, req[r].since)
     IN /\ key' = [k \in Keys |-> IF k \in back THEN [key[k] EXCEPT !.gone = 0] ELSE key[k]]
        /\ IF back = {} THEN UNCHANGED lastHidden ELSE Renamed(req[r].cid)
  /\ Answer(r)
  /\ UNCHANGED <<trashedAt, multi, time, upset, crossed, misled, acked, written>>

(***************************************************************************)
(* Failures                                                                *)
(***************************************************************************)
\* A query of a request fails: a completion gives its claim back.
Fail(r) ==
  /\ r \in Running
  /\ faults < MaxFaults /\ faults' = faults + 1
  /\ mpu' = IF /\ req[r].kind = "complete" /\ req[r].phase \in {"own", "flip"}
               /\ mpu[req[r].upload].status = "claimed"
            THEN [mpu EXCEPT ![req[r].upload].status = "open"] ELSE mpu
  /\ upset' = IF req[r].kind = "delete" THEN upset \cup {req[r].cid} ELSE upset
  /\ Answer(r)
  /\ UNCHANGED <<names, staged, now, lastHidden, crossed, misled, acked, written>>

(***************************************************************************)
(* Specification                                                           *)
(***************************************************************************)
Init ==
  /\ trashedAt = [c \in Contents |-> 0]
  /\ key \in [Keys -> [cid : Contents \cup {None}, gone : {0}, meta : {None}]]
  /\ mpu = [x \in Multiparts |-> [status |-> "none"]] /\ staged = {}
  /\ req = [r \in Requests |-> Idle]
  /\ now = 0 /\ faults = 0
  /\ lastHidden = [c \in Contents |-> None]
  /\ upset = {} /\ crossed = {} /\ misled = {} /\ written = {}
  /\ acked = [k \in Keys |-> key[k].cid]

Arrive(r) ==
  \/ \E k \in Keys, c \in Contents : PutObject(r, k, c)
  \/ \E x \in Multiparts : CompleteMultipart(r, x) \/ AbortMultipart(r, x)
  \/ \E k, source \in Keys, replace \in BOOLEAN : CopyObject(r, source, k, replace)
  \/ \E k \in Keys : DeleteObject(r, k)
  \/ \E c \in Contents : TrashObject(r, c) \/ RestoreObject(r, c)

Proceed(r) ==
  \/ Own(r) \/ OwnLost(r) \/ Flip(r) \/ ReadMeta(r) \/ createMapping(r) \/ Unstage(r)
  \/ Authorize(r) \/ RemoveUpload(r)
  \/ Count(r) \/ CheckOwner(r) \/ StampTrash(r) \/ Hide(r) \/ Recount(r)
  \/ Untrash(r) \/ Unhide(r)

Next ==
  \/ \E r \in Requests : Arrive(r) \/ Proceed(r) \/ Fail(r)
  \/ \E x \in Multiparts :
       \/ \E k \in Keys, c \in Contents, hasMeta \in BOOLEAN : CreateMultipart(x, k, c, hasMeta)
       \/ Migrated(x)

Spec == Init /\ [][Next]_vars

(***************************************************************************)
(* Properties                                                              *)
(***************************************************************************)
Phases == {"own", "flip", "meta", "map", "unstage", "authorize", "abort", "count", "owns",
           "stamp", "hide", "recount", "unown", "unhide"}

\* Every variable has its type, and no stamp is later than the clock.
TypeOK ==
  /\ trashedAt \in [Contents -> 0..now]
  /\ key \in [Keys -> [cid : Contents \cup {None}, gone : 0..now, meta : Multiparts \cup {None}]]
  /\ \A x \in Multiparts : mpu[x].status \in {"none", "open", "claimed", "done", "gone", "aborted"}
  /\ staged \subseteq Multiparts /\ written \subseteq Multiparts
  /\ \A r \in Running : req[r].phase \in Phases /\ req[r].cid \in Contents \cup {None}
  /\ now \in Nat /\ faults \in 0..MaxFaults
  /\ lastHidden \in [Contents -> Keys \cup {None}]
  /\ upset \subseteq Contents /\ crossed \subseteq Contents /\ misled \subseteq Contents
  /\ acked \in [Keys -> Contents \cup {None}]

\* Once a deletion has hidden the last name of a content, and nothing has named
\* it since, the content is in the Trash, from where the user can bring it
\* back - however the deletions of its names overlap.  Excused are a deletion that failed, one that met an
\* upload or a restore of the content, and one that hid what a concurrent
\* write had put under the name.
EmptiedIsTrashed ==
  \A c \in Contents :
    (lastHidden[c] # None /\ c \notin upset /\ countActive(c) = 0
      /\ \A r \in Running : req[r].cid # c)
    => trashedAt[c] > 0

\* A name that was written without a removal under way answers with what was
\* written, until it is deleted or overwritten or its content is trashed in
\* the web application: deleting other names of the content never takes it
\* away, unless a deletion counted the names of the content when its own name
\* was no longer one of them.  (A repeated completion of a multipart upload
\* promises less: it names the content again even if that has been trashed.)
AckedIsReadable ==
  \A k \in Keys : acked[k] \notin misled \cup {None} => Visible(k) /\ key[k].cid = acked[k]

\* What deleteObject says of its count: it includes the name being deleted,
\* so that the deletion of a name takes no other name away.
DeletionSparesOtherNames ==
  \A k \in Keys : acked[k] # None => Visible(k) /\ key[k].cid = acked[k]

\* Metadata sent when a multipart upload was created is staged until it has
\* reached a name, or the upload was aborted: a completion that fails half-way
\* and is retried does not lose it.
StagedMetaKept ==
  \A x \in Multiparts :
    mpu[x].status \in {"open", "claimed", "done", "gone"} /\ mpu[x].meta
      => x \in staged \cup written

\* Restoring a content that was trashed by the deletion of its last name
\* brings that name back, when no other removal of the content overlapped the
\* deletion and it knew beforehand that the name was the last.
RestoreReturnsName ==
  \A c \in Contents :
    (lastHidden[c] # None /\ trashedAt[c] > 0 /\ c \notin upset \cup crossed
      /\ key[lastHidden[c]].cid = c /\ ~Active(lastHidden[c])
      /\ \A r \in Running : req[r].cid # c)
    => lastHidden[c] \in Returning(c, trashedAt[c])
=============================================================================
