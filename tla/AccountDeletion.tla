---------------------------- MODULE AccountDeletion ----------------------------
(***************************************************************************)
(* The deletion of one user's account.  The user files and cancels         *)
(* requests with the auth service (auth/src/useCases/deletion.ts); checks  *)
(* in the frontend workers (deletionAnonymisationJob.ts) take the requests *)
(* whose grace period is over and erase the user's data, first in the      *)
(* backend, one statement at a time (core/users/deletion.ts), and then by  *)
(* one call to the auth service, whose handler goes on when the caller no  *)
(* longer waits for it.  Meanwhile the user still signs in, uploads and    *)
(* buys.                                                                   *)
(*                                                                         *)
(* A check is one execution of the job: two of them overlap when two       *)
(* workers run it, or when one outlasts its interval.                      *)
(***************************************************************************)
EXTENDS Naturals, FiniteSets

CONSTANTS
  MaxRows,   \* bound on deletion requests
  Calls,     \* calls of the user about the deletion: each is made once
  Checks,    \* checks that may overlap
  Renewed,   \* kinds of data the user goes on making
  MaxFaults  \* bound on failed or lost calls, failed queries and crashes

Rows     == 1..MaxRows  \* in the order they are inserted
Names    == {"username", "avatar"}
Backend  == {"ownership", "credits", "intents"}
Kinds    == Backend \cup {"keys", "membership"} \cup Names
ASSUME DeletionAssumption ==
  /\ MaxRows \in Nat /\ MaxFaults \in Nat
  /\ Renewed \subseteq Backend \cup {"keys"}

Statuses == {"none", "pending", "cancelled", "processing", "completed", "failed"}

VARIABLES
  status,    \* deletion_requests: the status of each row
  due,       \* rows whose scheduled_anonymisation_at has passed
  live,      \* the kinds of data there are: active ownership, credits, pending intents, ...
  account,   \* whether the user's organization has an account
  audit,     \* deletion_audit_log: what an entry says was done
  call,      \* the user's calls
  check,     \* checks: the rows left to process, the least first, and where they are
  handler,   \* the auth service's execution of anonymiseUser for a row
  faults,
  left,      \* history: the kinds there were when a row was claimed and are still there
  erased,    \* history: the kinds erased for a row
  stranded   \* history: claimed rows whose check crashed or could not mark them failed

job  == <<check, handler>>
user == <<live, account>>
hist == <<left, erased, stranded>>
vars == <<status, due, user, audit, call, job, faults, hist>>

Fault == faults < MaxFaults /\ faults' = faults + 1

\* Statement k of row r's erasure: what is there now goes, for every row.
Erase(r, k) ==
  /\ live' = live \ {k}
  /\ left' = [q \in Rows |-> left[q] \ {k}]
  /\ erased' = [erased EXCEPT ![r] = @ \cup {k}]
  /\ UNCHANGED <<account, stranded>>

(***************************************************************************)
(* The user                                                                *)
(***************************************************************************)
\* getUserByOAuthUser: a provider's user name and avatar replace the row's; a
\* call with an API key brings the row's own.
SignIn == live' \in {live, live \cup Names}

Pending == {r \in Rows : status[r] = "pending"}

\* getPendingByUser: the one requested last.
Latest == CHOOSE r \in Pending : \A q \in Pending : q <= r

\* requestDeletion looks for a pending request ...
RequestDeletion(c) ==
  /\ call[c] = [phase |-> "idle"]
  /\ call' = [call EXCEPT ![c] = [phase |-> IF Pending = {} THEN "insert" ELSE "done"]]
  /\ SignIn
  /\ UNCHANGED <<status, due, account, audit, job, faults, hist>>

\* ... and inserts one: no index keeps a user from having two.
createDeletionRequest(c) ==
  /\ call[c].phase = "insert"
  /\ \E r \in Rows :
       /\ status[r] = "none" /\ \A q \in Rows : q < r => status[q] # "none"
       /\ status' = [status EXCEPT ![r] = "pending"]
  /\ call' = [call EXCEPT ![c] = [phase |-> "done"]]
  /\ UNCHANGED <<due, user, audit, job, faults, hist>>

CancelDeletion(c) ==
  /\ call[c] = [phase |-> "idle"]
  /\ call' = [call EXCEPT ![c] = IF Pending = {} THEN [phase |-> "done"]
                                 ELSE [phase |-> "cancel", row |-> Latest]]
  /\ SignIn
  /\ UNCHANGED <<status, due, account, audit, job, faults, hist>>

\* Mutant: the update does not ask for a pending request.
cancelAny(c) ==
  /\ call[c].phase = "cancel"
  /\ status' = [status EXCEPT ![call[c].row] = "cancelled"]
  /\ call' = [call EXCEPT ![c] = [phase |-> "done"]]
  /\ UNCHANGED <<due, user, audit, job, faults, hist>>

\* The request that was read is cancelled if it is still pending.
cancelRequest(c) ==
  /\ call[c].phase = "cancel"
  /\ status' = IF status[call[c].row] = "pending"
               THEN [status EXCEPT ![call[c].row] = "cancelled"] ELSE status
  /\ call' = [call EXCEPT ![c] = [phase |-> "done"]]
  /\ UNCHANGED <<due, user, audit, job, faults, hist>>

GraceEnds(r) ==
  /\ status[r] = "pending" /\ r \notin due
  /\ due' = due \cup {r}
  /\ UNCHANGED <<status, user, audit, call, job, faults, hist>>

\* Uploads, restored objects, API keys, intents, credits that a payment buys.
\* Requests and tasks under way when the membership goes still write.
Use(k) ==
  /\ live' = live \cup {k}
  /\ account' \in {account, TRUE}
  /\ k = "credits" => account'
  /\ UNCHANGED <<status, due, audit, call, job, faults, hist>>

(***************************************************************************)
(* A check: runAnonymisationCheck and processAnonymisation                 *)
(***************************************************************************)
At(w, phase) == check[w].phase = phase

\* The rows come in the order of their schedule.
Row(w) == CHOOSE r \in check[w].todo : \A q \in check[w].todo : r <= q

Go(w, phase) == check' = [check EXCEPT ![w].phase = phase]

\* Mutant: the loop goes on past the last row.
LeavePast(w) == check' = [check EXCEPT ![w] = [phase |-> "claim", todo |-> @.todo \ {Row(w)}]]

\* On to the next row of the list.
Leave(w) ==
  LET rest == check[w].todo \ {Row(w)}
  IN check' = [check EXCEPT ![w] = [phase |-> IF rest = {} THEN "idle" ELSE "claim",
                                    todo |-> rest]]

Due == Pending \cap due

\* getDueForAnonymisation: a snapshot, processed one row after the other.
RunCheck(w) ==
  /\ At(w, "idle") /\ Due # {}
  /\ check' = [check EXCEPT ![w] = [phase |-> "claim", todo |-> Due]]
  /\ UNCHANGED <<status, due, user, audit, call, handler, faults, hist>>

Claimed(r) ==
  /\ status' = [status EXCEPT ![r] = "processing"]
  /\ left' = [left EXCEPT ![r] = live]
  /\ UNCHANGED <<erased, stranded>>

\* markDeletionAsProcessing; a row that is no longer pending is skipped.
Claim(w) ==
  /\ At(w, "claim")
  /\ IF status[Row(w)] = "pending"
     THEN Claimed(Row(w)) /\ Go(w, "ownership")
     ELSE Leave(w) /\ UNCHANGED <<status, hist>>
  /\ UNCHANGED <<due, user, audit, call, handler, faults>>

\* Mutant: a claim without an answer is taken for one that came too late.
ClaimLostSkips(w) ==
  /\ At(w, "claim") /\ Fault
  /\ \/ status[Row(w)] = "pending" /\ Claimed(Row(w))
     \/ UNCHANGED <<status, hist>>
  /\ Leave(w)
  /\ UNCHANGED <<due, user, audit, call, handler>>

\* The claim, or only its answer, is lost: the catch marks the row failed.
ClaimLost(w) ==
  /\ At(w, "claim") /\ Fault
  /\ \/ status[Row(w)] = "pending" /\ Claimed(Row(w))
     \/ UNCHANGED <<status, hist>>
  /\ Go(w, "fail")
  /\ UNCHANGED <<due, user, audit, call, handler>>

\* anonymiseBackendData: the ownership rows.
Ownership(w) ==
  /\ At(w, "ownership")
  /\ Erase(Row(w), "ownership")
  /\ Go(w, "log ownership")
  /\ UNCHANGED <<status, due, audit, call, handler, faults>>

\* The user, the account and its active credits are looked up; a user without
\* an organization is an error of the auth service, and without an account has
\* neither credits nor intents expired.
Lookup(w) ==
  /\ At(w, "lookup")
  /\ Go(w, IF "membership" \notin live THEN "fail"
           ELSE IF ~account THEN "log all"
           ELSE IF "credits" \in live THEN "credits" ELSE "log credits")
  /\ UNCHANGED <<status, due, user, audit, call, handler, faults, hist>>

Credits(w) ==
  /\ At(w, "credits")
  /\ Erase(Row(w), "credits")
  /\ Go(w, "log credits")
  /\ UNCHANGED <<status, due, audit, call, handler, faults>>

Intents(w) ==
  /\ At(w, "intents")
  /\ Erase(Row(w), "intents")
  /\ Go(w, "log intents")
  /\ UNCHANGED <<status, due, audit, call, handler, faults>>

\* The audit entries, each a query of its own after what it tells of.
Logs == [ownership |-> [phase |-> "log ownership", next |-> "lookup"],
         credits   |-> [phase |-> "log credits", next |-> "intents"],
         intents   |-> [phase |-> "log intents", next |-> "log all"],
         all       |-> [phase |-> "log all", next |-> "anonymise"]]

Log(w, e) ==
  /\ At(w, Logs[e].phase)
  /\ audit' = audit \cup {e}
  /\ Go(w, Logs[e].next)
  /\ UNCHANGED <<status, due, user, call, handler, faults, hist>>

\* executeAuthAnonymisation: the handler refuses a row that is not claimed.
Anonymise(w) ==
  /\ At(w, "anonymise")
  /\ handler' = [handler EXCEPT ![Row(w)] =
                   IF status[Row(w)] = "processing" THEN "keys" ELSE "failed"]
  /\ Go(w, "wait")
  /\ UNCHANGED <<status, due, user, audit, call, faults, hist>>

\* anonymiseUser: keys, organization memberships, user name, avatar.
Then == [keys |-> "membership", membership |-> "username", username |-> "avatar",
         avatar |-> "done"]

AnonymiseUser(r) ==
  /\ handler[r] \in DOMAIN Then
  /\ Erase(r, handler[r])
  /\ handler' = [handler EXCEPT ![r] = Then[@]]
  /\ UNCHANGED <<status, due, audit, call, check, faults>>

HandlerFails(r) ==
  /\ handler[r] \in DOMAIN Then /\ Fault
  /\ handler' = [handler EXCEPT ![r] = "failed"]
  /\ UNCHANGED <<status, due, user, audit, call, check, hist>>

Answered(w) ==
  /\ At(w, "wait") /\ handler[Row(w)] \in {"done", "failed"}
  /\ Go(w, IF handler[Row(w)] = "done" THEN "complete" ELSE "fail")
  /\ UNCHANGED <<status, due, user, audit, call, handler, faults, hist>>

\* markDeletionAsCompleted: a row that is no longer claimed is an error.
Complete(w) ==
  /\ At(w, "complete")
  /\ IF status[Row(w)] = "processing"
     THEN status' = [status EXCEPT ![Row(w)] = "completed"] /\ Leave(w)
     ELSE Go(w, "fail") /\ UNCHANGED status
  /\ UNCHANGED <<due, user, audit, call, handler, faults, hist>>

\* A query fails, or a call to the auth service has no answer.  The handler of
\* an unanswered call goes on, and a completion may have been made.
Throws(w) ==
  /\ check[w].phase \notin {"idle", "claim", "fail"} /\ Fault
  /\ \/ UNCHANGED status
     \/ At(w, "complete") /\ status[Row(w)] = "processing"
        /\ status' = [status EXCEPT ![Row(w)] = "completed"]
  /\ Go(w, "fail")
  /\ UNCHANGED <<due, user, audit, call, handler, hist>>

\* markDeletionAsFailed, by whoever claimed the row.
Fail(w) ==
  /\ At(w, "fail")
  /\ status' = IF status[Row(w)] = "processing"
               THEN [status EXCEPT ![Row(w)] = "failed"] ELSE status
  /\ Leave(w)
  /\ UNCHANGED <<due, user, audit, call, handler, faults, hist>>

Strand(w) == stranded' = IF status[Row(w)] = "processing" THEN stranded \cup {Row(w)} ELSE stranded

\* The failure to mark the row is only logged.
FailLost(w) ==
  /\ At(w, "fail") /\ Fault
  /\ Strand(w)
  /\ Leave(w)
  /\ UNCHANGED <<status, due, user, audit, call, handler, left, erased>>

\* The worker stops: nothing takes up a row that it had claimed.
Crash(w) ==
  /\ ~At(w, "idle") /\ Fault
  /\ Strand(w)
  /\ check' = [check EXCEPT ![w] = [phase |-> "idle", todo |-> {}]]
  /\ UNCHANGED <<status, due, user, audit, call, handler, left, erased>>

-----------------------------------------------------------------------------
Init ==
  /\ status = [r \in Rows |-> "none"] /\ due = {}
  /\ live = Kinds /\ account \in BOOLEAN
  /\ audit = {}
  /\ call = [c \in Calls |-> [phase |-> "idle"]]
  /\ check = [w \in Checks |-> [phase |-> "idle", todo |-> {}]]
  /\ handler = [r \in Rows |-> "none"]
  /\ faults = 0
  /\ left = [r \in Rows |-> {}] /\ erased = [r \in Rows |-> {}] /\ stranded = {}

User ==
  \/ \E c \in Calls : \/ RequestDeletion(c) \/ createDeletionRequest(c)
                      \/ CancelDeletion(c) \/ cancelRequest(c)
  \/ \E r \in Rows : GraceEnds(r)
  \/ \E k \in Renewed : Use(k)

Process(w) ==
  \/ RunCheck(w) \/ Claim(w) \/ Ownership(w) \/ Lookup(w) \/ Credits(w) \/ Intents(w)
  \/ \E e \in DOMAIN Logs : Log(w, e)
  \/ Anonymise(w) \/ Answered(w) \/ Complete(w) \/ Fail(w)

Next ==
  \/ User
  \/ \E w \in Checks : Process(w) \/ ClaimLost(w) \/ Throws(w) \/ FailLost(w) \/ Crash(w)
  \/ \E r \in Rows : AnonymiseUser(r) \/ HandlerFails(r)

Spec == Init /\ [][Next]_vars

\* The interval starts check after check, a check does not stop half way unless
\* the worker does, and neither does a handler.
FairSpec ==
  /\ Spec
  /\ \A w \in Checks : WF_vars(Process(w))
  /\ \A r \in Rows : WF_vars(AnonymiseUser(r))

-----------------------------------------------------------------------------
\* Type correctness.
TypeOK ==
  /\ status \in [Rows -> Statuses] /\ due \subseteq Rows
  /\ live \subseteq Kinds /\ account \in BOOLEAN
  /\ audit \subseteq DOMAIN Logs
  /\ \A c \in Calls : call[c].phase \in {"idle", "insert", "cancel", "done"}
  /\ \A w \in Checks : /\ check[w].todo \subseteq Rows
                       /\ At(w, "idle") <=> check[w].todo = {}
  /\ handler \in [Rows -> DOMAIN Then \cup {"none", "done", "failed"}]
  /\ faults \in 0..MaxFaults
  /\ left \in [Rows -> SUBSET Kinds] /\ erased \in [Rows -> SUBSET Kinds]
  /\ stranded \subseteq Rows

\* The user's answer is binding: nothing is erased for a request that was
\* cancelled, however late the cancellation and however old the list of the
\* check that holds it; and nothing before its grace period is over.
CancelledIsSpared ==
  \A r \in Rows : erased[r] # {} => r \in due /\ status[r] \notin {"pending", "cancelled"}

\* A request is completed only when everything there was when it was claimed is
\* gone, but the intents of a user without an account; the audit log tells of
\* what was erased.  What the user makes meanwhile is not covered.
CompletedIsErased ==
  /\ \A r \in Rows : status[r] = "completed" =>
       /\ left[r] \subseteq (IF "intents" \in erased[r] THEN {} ELSE {"intents", "credits"})
       /\ {"ownership", "all"} \subseteq audit
  /\ \A e \in audit \cap {"ownership", "intents"} : \E r \in Rows : e \in erased[r]

\* What is erased is what was asked for: not less than a completed request says,
\* and nothing for a request that was taken back.
ErasureFollowsRequest == CancelledIsSpared /\ CompletedIsErased

\* A request whose grace period is over is cancelled, completed or failed, unless
\* its worker crashed or could not mark it failed: no request is forgotten.
DeletionEnds ==
  \A r \in Rows :
    (r \in due) ~> (status[r] \in {"cancelled", "completed", "failed"} \/ r \in stranded)
=============================================================================
