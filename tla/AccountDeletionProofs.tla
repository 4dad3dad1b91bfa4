------------------------ MODULE AccountDeletionProofs ------------------------
(***************************************************************************)
(* Theorems about AccountDeletion for any number of requests, calls,       *)
(* checks and faults, and whatever data the user goes on making.           *)
(***************************************************************************)
EXTENDS AccountDeletion, WellFoundedInduction, TLAPS

(***************************************************************************)
(* The inductive invariant                                                 *)
(***************************************************************************)
\* The phases of a check that has claimed its row, from the first statement on.
Claiming == {"ownership", "log ownership", "lookup", "credits", "log credits", "intents",
             "log intents", "log all", "anonymise", "wait", "complete"}
Auth     == DOMAIN Then

\* What a check and a call of the user hold.
Typed ==
  /\ TypeOK
  /\ check \in [Checks -> [phase : Claiming \cup {"idle", "claim", "fail"}, todo : SUBSET Rows]]
  /\ call \in [Calls -> [phase : {"idle", "insert", "done"}] \cup [phase : {"cancel"}, row : Rows]]

\* A row that has been claimed: it stays out of reach of the user.
Taken(r) == status[r] \in {"processing", "completed", "failed"}

\* A check works on rows that are due, and past its claim on one it has
\* claimed; the auth service anonymises, and data go, for such a row only.
WorkIsClaimed ==
  /\ \A r \in Rows : Taken(r) => r \in due
  /\ \A w \in Checks : check[w].todo \subseteq due
  /\ \A w \in Checks : check[w].phase \in Claiming => Taken(Row(w))
  /\ \A r \in Rows : handler[r] # "none" \/ erased[r] # {} => Taken(r)

\* What there was at the claim and is there still, is there; and the pending
\* intents went after the credits.
LeftIsLive ==
  /\ \A r \in Rows : left[r] \subseteq live
  /\ \A r \in Rows : "intents" \in erased[r] => left[r] \cap {"credits", "intents"} = {}

\* How far a check has come with its row.
Progress(w) ==
  LET r == Row(w)
      past(P) == check[w].phase \in Claiming \ P
  IN /\ past({"ownership"}) => "ownership" \notin left[r] /\ "ownership" \in erased[r]
     /\ past({"ownership", "log ownership"}) => "ownership" \in audit
     /\ check[w].phase \in {"log credits", "intents", "log intents"} => "credits" \notin left[r]
     /\ check[w].phase = "log intents" => "intents" \in erased[r]
     /\ check[w].phase \in {"anonymise", "wait", "complete"} => "all" \in audit
     /\ check[w].phase = "complete" => left[r] \cap Auth = {}

\* The kinds that are gone when the handler has come to a phase.
Gone == [keys |-> {}, membership |-> {"keys"}, username |-> {"keys", "membership"},
         avatar |-> {"keys", "membership", "username"}, done |-> Auth]

WorkIsDone ==
  /\ \A w \in Checks : Progress(w)
  /\ \A r \in Rows : handler[r] \in DOMAIN Gone => left[r] \cap Gone[handler[r]] = {}

Inv == Typed /\ WorkIsClaimed /\ LeftIsLive /\ WorkIsDone /\ ErasureFollowsRequest

(***************************************************************************)
(* The row of a check                                                      *)
(***************************************************************************)
\* A list that is not empty has a first row.
LEMMA RowIn ==
  ASSUME Typed, NEW w \in Checks, check[w].todo # {}
  PROVE  Row(w) \in check[w].todo /\ Row(w) \in Rows
<1> DEFINE T == check[w].todo
<1>1. T \subseteq Nat /\ T \subseteq Rows
  BY DEF Typed, Rows
<1>2. PICK r \in T : \A q \in T : ~ (<<q, r>> \in OpToRel(<, Nat))
  BY <1>1, NatLessThanWellFounded, WFMin
<1>3. \A q \in T : r <= q
  <2> SUFFICES ASSUME NEW q \in T PROVE r <= q
    OBVIOUS
  <2>1. r \in Nat /\ q \in Nat
    BY <1>1, <1>2
  <2>2. ~ (q < r)
    BY <1>2, <2>1, Zenon DEF OpToRel
  <2> QED BY <2>1, <2>2
<1> QED BY <1>1, <1>3 DEF Row

\* A check keeps its row while its list stays as it is.
LEMMA RowKept ==
  ASSUME NEW w, check'[w].todo = check[w].todo
  PROVE  Row(w)' = Row(w)
BY DEF Row

\* A check that has something to do has a row, which is due.
LEMMA Working ==
  ASSUME Inv, NEW w \in Checks, ~At(w, "idle")
  PROVE  /\ check[w] \in [phase : Claiming \cup {"claim", "fail"}, todo : SUBSET Rows]
         /\ check[w].todo # {}
         /\ Row(w) \in Rows /\ Row(w) \in due
<1>1. check[w] \in [phase : Claiming \cup {"idle", "claim", "fail"}, todo : SUBSET Rows]
  BY DEF Inv, Typed
<1>2. check[w].todo # {}
  BY DEF Inv, Typed, TypeOK
<1>3. Row(w) \in check[w].todo /\ Row(w) \in Rows
  BY <1>2, RowIn DEF Inv
<1>4. Row(w) \in due
  BY <1>3 DEF Inv, WorkIsClaimed
<1> QED BY <1>1, <1>2, <1>3, <1>4 DEF At

\* A check goes on with its row.
LEMMA GoStep ==
  ASSUME Inv, NEW w \in Checks, ~At(w, "idle"),
         NEW p \in Claiming \cup {"fail"}, Go(w, p)
  PROVE  /\ check' \in [Checks -> [phase : Claiming \cup {"idle", "claim", "fail"}, todo : SUBSET Rows]]
         /\ \A v \in Checks : check'[v].todo = check[v].todo /\ Row(v)' = Row(v)
         /\ \A v \in Checks : v # w => check'[v] = check[v]
         /\ check'[w].phase = p
         /\ \A v \in Checks : (check'[v].phase = "idle") <=> (check'[v].todo = {})
<1>1. check \in [Checks -> [phase : Claiming \cup {"idle", "claim", "fail"}, todo : SUBSET Rows]]
  BY DEF Inv, Typed
<1>2. /\ \A v \in Checks : v # w => check'[v] = check[v]
      /\ check'[w].phase = p /\ check'[w].todo = check[w].todo
      /\ check' \in [Checks -> [phase : Claiming \cup {"idle", "claim", "fail"}, todo : SUBSET Rows]]
  BY <1>1 DEF Go
<1>3. \A v \in Checks : check'[v].todo = check[v].todo
  BY <1>2
<1>4. \A v \in Checks : Row(v)' = Row(v)
  BY <1>3, RowKept
<1>5. \A v \in Checks : (check'[v].phase = "idle") <=> (check'[v].todo = {})
  BY <1>2, Working DEF Inv, Typed, TypeOK, At, Claiming
<1> QED BY <1>2, <1>3, <1>4, <1>5

\* A check is done with its row.
LEMMA LeaveStep ==
  ASSUME Inv, NEW w \in Checks, ~At(w, "idle"), Leave(w)
  PROVE  /\ check' \in [Checks -> [phase : Claiming \cup {"idle", "claim", "fail"}, todo : SUBSET Rows]]
         /\ \A v \in Checks : v # w => check'[v] = check[v] /\ Row(v)' = Row(v)
         /\ check'[w].phase \in {"idle", "claim"} /\ check'[w].todo \subseteq check[w].todo
         /\ \A v \in Checks : (check'[v].phase = "idle") <=> (check'[v].todo = {})
<1>1. check \in [Checks -> [phase : Claiming \cup {"idle", "claim", "fail"}, todo : SUBSET Rows]]
  BY DEF Inv, Typed
<1>2. check'[w] = [phase |-> IF check[w].todo \ {Row(w)} = {} THEN "idle" ELSE "claim",
                   todo |-> check[w].todo \ {Row(w)}]
  BY <1>1 DEF Leave
<1>3. /\ \A v \in Checks : v # w => check'[v] = check[v]
      /\ check' \in [Checks -> [phase : Claiming \cup {"idle", "claim", "fail"}, todo : SUBSET Rows]]
  BY <1>1 DEF Leave
<1>4. \A v \in Checks : v # w => Row(v)' = Row(v)
  BY <1>3, RowKept
<1>5. \A v \in Checks : (check'[v].phase = "idle") <=> (check'[v].todo = {})
  BY <1>2, <1>3 DEF Inv, Typed, TypeOK, At
<1> QED BY <1>2, <1>3, <1>4, <1>5

(***************************************************************************)
(* What goes on growing                                                    *)
(***************************************************************************)
\* What every step but a claim of the row itself does: claimed rows stay
\* claimed, nothing that went comes back into `left`, the log keeps its entries.
Onward ==
  /\ audit \subseteq audit'
  /\ \A r \in Rows : Taken(r) => Taken(r)' /\ left'[r] \subseteq left[r]
  /\ \A r \in Rows : erased[r] \subseteq erased'[r]

\* A check that does nothing keeps its claim and its progress.
LEMMA OthersKept ==
  ASSUME Inv, Onward, NEW v \in Checks, check'[v] = check[v]
  PROVE  /\ check'[v].phase \in Claiming => Taken(Row(v))'
         /\ Progress(v)'
<1>1. Row(v)' = Row(v)
  BY RowKept
<1>2. CASE check[v].phase \in Claiming
  <2>1. Taken(Row(v)) /\ Row(v) \in Rows
    BY <1>2, Working DEF Inv, WorkIsClaimed, At, Claiming
  <2>2. Taken(Row(v))'
    BY <1>1, <2>1 DEF Onward, Taken
  <2>3. /\ left'[Row(v)] \subseteq left[Row(v)]
        /\ erased[Row(v)] \subseteq erased'[Row(v)]
        /\ audit \subseteq audit'
    BY <2>1 DEF Onward
  <2>4. Progress(v)
    BY DEF Inv, WorkIsDone
  <2>5. Progress(v)'
    BY <1>1, <2>3, <2>4 DEF Progress
  <2> QED BY <2>2, <2>5
<1>3. CASE check[v].phase \notin Claiming
  BY <1>3 DEF Progress, Claiming
<1> QED BY <1>2, <1>3

\* So does a handler.
LEMMA HandlersKept ==
  ASSUME Inv, Onward, NEW r \in Rows, handler'[r] = handler[r], handler[r] \in DOMAIN Gone
  PROVE  left'[r] \cap Gone[handler'[r]] = {}
<1>1. Taken(r)
  BY DEF Inv, WorkIsClaimed, Gone
<1>2. left'[r] \subseteq left[r]
  BY <1>1 DEF Onward
<1> QED BY <1>2 DEF Inv, WorkIsDone

\* A row that was completed, and what the log tells, stay true.
LEMMA CompletedKept ==
  ASSUME Inv, Onward, NEW r \in Rows, status[r] = "completed",
         "intents" \in erased'[r] => left'[r] \cap {"credits", "intents"} = {}
  PROVE  /\ left'[r] \subseteq (IF "intents" \in erased'[r] THEN {} ELSE {"intents", "credits"})
         /\ {"ownership", "all"} \subseteq audit'
<1>1. /\ left[r] \subseteq (IF "intents" \in erased[r] THEN {} ELSE {"intents", "credits"})
      /\ {"ownership", "all"} \subseteq audit
      /\ \A q \in Rows : erased[q] # {} => Taken(q)
  BY DEF Inv, ErasureFollowsRequest, CompletedIsErased, WorkIsClaimed
<1>2. Taken(r)
  BY DEF Taken
<1> QED BY <1>1, <1>2 DEF Onward

LEMMA LogKept ==
  ASSUME Inv, Onward, NEW e \in audit \cap {"ownership", "intents"}
  PROVE  \E r \in Rows : e \in erased'[r]
BY DEF Inv, ErasureFollowsRequest, CompletedIsErased, Onward

(***************************************************************************)
(* The user                                                                *)
(***************************************************************************)
\* The user touches neither the checks nor a row that is claimed.
LEMMA UserKeeps ==
  ASSUME Inv, Typed', UNCHANGED <<job, audit, left, erased>>,
         due \subseteq due', live \subseteq live',
         \A r \in Rows : Taken(r) \/ Taken(r)' => status'[r] = status[r]
  PROVE  Inv'
<1>1. Onward
  BY DEF Onward, Taken
<1>2. \A v \in Checks : check'[v] = check[v]
  BY DEF job
<1>3. WorkIsClaimed'
  <2>1. \A v \in Checks : check'[v].phase \in Claiming => Taken(Row(v))'
    BY <1>1, <1>2, OthersKept
  <2>2. \A v \in Checks : check'[v].todo \subseteq due'
    BY <1>2 DEF Inv, WorkIsClaimed
  <2>3. \A r \in Rows : Taken(r)' => r \in due'
    BY DEF Inv, WorkIsClaimed, Taken
  <2>4. \A r \in Rows : handler'[r] # "none" \/ erased'[r] # {} => Taken(r)'
    BY DEF Inv, WorkIsClaimed, Taken, job
  <2> QED BY <2>1, <2>2, <2>3, <2>4 DEF WorkIsClaimed
<1>4. LeftIsLive'
  BY DEF Inv, LeftIsLive
<1>5. WorkIsDone'
  <2>1. \A v \in Checks : Progress(v)'
    BY <1>1, <1>2, OthersKept
  <2> QED BY <2>1 DEF Inv, WorkIsDone, Gone, job
<1>6. ErasureFollowsRequest'
  <2>1. CancelledIsSpared'
    BY <1>3 DEF CancelledIsSpared, WorkIsClaimed, Taken
  <2>2. CompletedIsErased'
    BY DEF Inv, ErasureFollowsRequest, CompletedIsErased, Taken
  <2> QED BY <2>1, <2>2 DEF ErasureFollowsRequest
<1> QED BY <1>3, <1>4, <1>5, <1>6 DEF Inv

LEMMA SignInGrows ==
  ASSUME Inv, SignIn
  PROVE  live \subseteq live' /\ live' \subseteq Kinds
BY DEF SignIn, Inv, Typed, TypeOK, Kinds

\* The request that a cancellation finds is one of the pending ones.
LEMMA LatestIn ==
  ASSUME Inv, Pending # {}
  PROVE  Latest \in Rows
<1> DEFINE T == {MaxRows - r : r \in Pending}
<1>1. Pending \subseteq Rows /\ T \subseteq Nat /\ T # {}
  BY DeletionAssumption DEF Pending, Rows
<1>2. PICK m \in T : \A n \in T : ~ (<<n, m>> \in OpToRel(<, Nat))
  BY <1>1, NatLessThanWellFounded, WFMin
<1>3. PICK r \in Pending : m = MaxRows - r
  BY <1>2
<1>4. \A q \in Pending : q <= r
  <2> SUFFICES ASSUME NEW q \in Pending PROVE q <= r
    OBVIOUS
  <2>1. r \in Nat /\ q \in Nat /\ MaxRows - q \in T
    BY <1>1 DEF Rows
  <2>2. m \in Nat /\ MaxRows - q \in Nat
    BY <1>1, <2>1
  <2>3. ~ (MaxRows - q < m)
    BY <1>2, <2>1, <2>2, Zenon DEF OpToRel
  <2> QED BY <1>3, <2>1, <2>2, <2>3, DeletionAssumption
<1> QED BY <1>1, <1>3, <1>4 DEF Latest

LEMMA CallStep ==
  ASSUME Inv, NEW c \in Calls, RequestDeletion(c) \/ CancelDeletion(c)
  PROVE  Inv'
<1>1. live \subseteq live' /\ live' \subseteq Kinds
  BY SignInGrows DEF RequestDeletion, CancelDeletion
<1>2. UNCHANGED <<status, due, account, audit, job, faults, hist>>
  BY DEF RequestDeletion, CancelDeletion
<1>3. call' \in [Calls -> [phase : {"idle", "insert", "done"}] \cup [phase : {"cancel"}, row : Rows]]
  <2>1. CASE RequestDeletion(c)
    BY <2>1 DEF RequestDeletion, Inv, Typed
  <2>2. CASE CancelDeletion(c) /\ Pending = {}
    BY <2>2 DEF CancelDeletion, Inv, Typed
  <2>3. CASE CancelDeletion(c) /\ Pending # {}
    BY <2>3, LatestIn DEF CancelDeletion, Inv, Typed
  <2> QED BY <2>1, <2>2, <2>3
<1>4. Typed'
  BY <1>1, <1>2, <1>3 DEF Inv, Typed, TypeOK, hist, job, At
<1> QED BY <1>1, <1>2, <1>4, UserKeeps DEF hist, Taken

LEMMA CreateStep ==
  ASSUME Inv, NEW c \in Calls, createDeletionRequest(c)
  PROVE  Inv'
<1>1. PICK r \in Rows : status[r] = "none" /\ status' = [status EXCEPT ![r] = "pending"]
  BY DEF createDeletionRequest
<1>2. status' \in [Rows -> Statuses]
  BY <1>1 DEF Inv, Typed, TypeOK, Statuses
<1>3. Typed'
  BY <1>2 DEF createDeletionRequest, Inv, Typed, TypeOK, hist, job, user, At
<1>4. \A q \in Rows : Taken(q) \/ Taken(q)' => status'[q] = status[q]
  BY <1>1 DEF Inv, Typed, TypeOK, Taken
<1> QED BY <1>3, <1>4, UserKeeps DEF createDeletionRequest, user, hist

LEMMA CancelStep ==
  ASSUME Inv, NEW c \in Calls, cancelRequest(c)
  PROVE  Inv'
<1>1. status' \in [Rows -> Statuses]
  BY DEF cancelRequest, Inv, Typed, TypeOK, Statuses
<1>2. Typed'
  BY <1>1 DEF cancelRequest, Inv, Typed, TypeOK, hist, job, user, At
<1>3. \A q \in Rows : Taken(q) \/ Taken(q)' => status'[q] = status[q]
  BY DEF cancelRequest, Inv, Typed, TypeOK, Taken
<1> QED BY <1>2, <1>3, UserKeeps DEF cancelRequest, user, hist

LEMMA GraceStep ==
  ASSUME Inv, NEW r \in Rows, GraceEnds(r)
  PROVE  Inv'
<1>1. Typed'
  BY DEF GraceEnds, Inv, Typed, TypeOK, hist, job, user, At
<1> QED BY <1>1, UserKeeps DEF GraceEnds, user, hist, Taken

LEMMA UseStep ==
  ASSUME Inv, NEW k \in Renewed, Use(k)
  PROVE  Inv'
<1>1. Typed'
  BY DeletionAssumption DEF Use, Inv, Typed, TypeOK, hist, job, At, Kinds
<1> QED BY <1>1, UserKeeps DEF Use, hist, Taken

(***************************************************************************)
(* The checks                                                              *)
(***************************************************************************)
\* A check keeps its claim when it goes on from a phase that had it.
LEMMA ClaimsKept ==
  ASSUME Inv, Onward, NEW w \in Checks, NEW p \in Claiming \cup {"fail"}, Go(w, p),
         check[w].phase \in Claiming, due' = due,
         \A r \in Rows : Taken(r)' => Taken(r),
         \A r \in Rows : r = Row(w) \/ (handler'[r] = handler[r] /\ erased'[r] = erased[r])
  PROVE  WorkIsClaimed'
<1>1. ~At(w, "idle")
  BY DEF At, Claiming
<1>2. /\ \A v \in Checks : check'[v].todo = check[v].todo /\ Row(v)' = Row(v)
      /\ \A v \in Checks : v # w => check'[v] = check[v]
  BY <1>1, GoStep
<1>3. Taken(Row(w)) /\ Row(w) \in Rows
  BY <1>1, Working DEF Inv, WorkIsClaimed
<1>4. Taken(Row(w))'
  BY <1>2, <1>3 DEF Onward, Taken
<1>5. \A v \in Checks : check'[v].phase \in Claiming => Taken(Row(v))'
  BY <1>2, <1>4, OthersKept
<1>6. \A v \in Checks : check'[v].todo \subseteq due'
  BY <1>2 DEF Inv, WorkIsClaimed
<1>7. \A r \in Rows : Taken(r)' => r \in due'
  BY DEF Inv, WorkIsClaimed
<1>8. \A r \in Rows : handler'[r] # "none" \/ erased'[r] # {} => Taken(r)'
  BY <1>3 DEF Inv, WorkIsClaimed, Onward
<1> QED BY <1>5, <1>6, <1>7, <1>8 DEF WorkIsClaimed

\* What is left to show of a step of a check within its claim.
LEMMA ClaimedStep ==
  ASSUME Inv, Typed', Onward, NEW w \in Checks, NEW p \in Claiming \cup {"fail"}, Go(w, p),
         check[w].phase \in Claiming, due' = due, LeftIsLive',
         \A r \in Rows : Taken(r)' => Taken(r),
         \A r \in Rows : status'[r] = "completed" => status[r] = "completed",
         \A r \in Rows : r = Row(w) \/ erased'[r] = erased[r],
         \A r \in Rows : handler'[r] = handler[r] \/ (r = Row(w) /\ handler'[r] \in {"keys", "failed"}),
         \A e \in audit' \cap {"ownership", "intents"} : e \in audit \/ e \in erased'[Row(w)],
         Progress(w)'
  PROVE  Inv'
<1>1. ~At(w, "idle")
  BY DEF At, Claiming
<1>2. WorkIsClaimed'
  BY ClaimsKept
<1>3. WorkIsDone'
  <2>1. \A v \in Checks : Progress(v)'
    BY <1>1, GoStep, OthersKept
  <2>2. ASSUME NEW r \in Rows, handler'[r] \in DOMAIN Gone
        PROVE  left'[r] \cap Gone[handler'[r]] = {}
    BY <2>2, HandlersKept DEF Gone
  <2> QED BY <2>1, <2>2 DEF WorkIsDone, Gone
<1>4. CancelledIsSpared'
  BY <1>2 DEF CancelledIsSpared, WorkIsClaimed, Taken
<1>5. CompletedIsErased'
  <2>1. ASSUME NEW r \in Rows, status'[r] = "completed"
        PROVE  /\ left'[r] \subseteq (IF "intents" \in erased'[r] THEN {} ELSE {"intents", "credits"})
               /\ {"ownership", "all"} \subseteq audit'
    BY <2>1, CompletedKept DEF LeftIsLive
  <2>2. ASSUME NEW e \in audit' \cap {"ownership", "intents"}
        PROVE  \E r \in Rows : e \in erased'[r]
    BY <1>1, <2>2, LogKept, Working
  <2> QED BY <2>1, <2>2 DEF CompletedIsErased
<1> QED BY <1>2, <1>3, <1>4, <1>5 DEF Inv, ErasureFollowsRequest

\* A statement of the erasure: the kind goes, for the row of the check or handler.
LEMMA Erasure ==
  ASSUME Inv, NEW r \in Rows, NEW k \in Kinds, Erase(r, k)
  PROVE  /\ live' \subseteq Kinds /\ account' = account /\ stranded' = stranded
         /\ left' \in [Rows -> SUBSET Kinds] /\ erased' \in [Rows -> SUBSET Kinds]
         /\ \A q \in Rows : left'[q] = left[q] \ {k}
         /\ erased'[r] = erased[r] \cup {k}
         /\ \A q \in Rows : q # r => erased'[q] = erased[q]
         /\ \A q \in Rows : left'[q] \subseteq live'
<1>1. /\ live \subseteq Kinds
      /\ left \in [Rows -> SUBSET Kinds] /\ erased \in [Rows -> SUBSET Kinds]
  BY DEF Inv, Typed, TypeOK
<1> QED BY <1>1 DEF Erase, Inv, LeftIsLive

LEMMA OwnershipStep ==
  ASSUME Inv, NEW w \in Checks, Ownership(w)
  PROVE  Inv'
<1> DEFINE r == Row(w)
<1>1. ~At(w, "idle") /\ check[w].phase \in Claiming
  BY DEF Ownership, At, Claiming
<1>2. r \in Rows
  BY <1>1, Working
<1>3. /\ "ownership" \in Kinds /\ Go(w, "log ownership") /\ "log ownership" \in Claiming
      /\ Erase(r, "ownership")
      /\ UNCHANGED <<status, due, audit, call, handler, faults>>
  BY DEF Ownership, Kinds, Backend, Claiming
<1>4. /\ live' \subseteq Kinds /\ account' = account /\ stranded' = stranded
      /\ left' \in [Rows -> SUBSET Kinds] /\ erased' \in [Rows -> SUBSET Kinds]
      /\ \A q \in Rows : left'[q] = left[q] \ {"ownership"}
      /\ erased'[r] = erased[r] \cup {"ownership"}
      /\ \A q \in Rows : q # r => erased'[q] = erased[q]
      /\ \A q \in Rows : left'[q] \subseteq live'
  BY <1>2, <1>3, Erasure
<1>5. Typed'
  BY <1>1, <1>2, <1>3, <1>4, GoStep DEF Inv, Typed, TypeOK, At
<1>6. Onward
  BY <1>2, <1>3, <1>4 DEF Onward, Taken
<1>7. LeftIsLive'
  BY <1>2, <1>3, <1>4 DEF Inv, LeftIsLive
<1>8. Progress(w)'
  <2>1. r' = r /\ check'[w].phase = "log ownership"
    BY <1>1, <1>3, GoStep
  <2>2. "ownership" \notin left'[r] /\ "ownership" \in erased'[r]
    BY <1>2, <1>3, <1>4
  <2> QED BY <2>1, <2>2 DEF Progress, Claiming
<1>9. \A q \in Rows : q = r \/ erased'[q] = erased[q]
  BY <1>2, <1>3, <1>4
<1> QED BY <1>1, <1>3, <1>5, <1>6, <1>7, <1>8, <1>9, ClaimedStep DEF Taken

LEMMA CreditsStep ==
  ASSUME Inv, NEW w \in Checks, Credits(w)
  PROVE  Inv'
<1> DEFINE r == Row(w)
<1>1. ~At(w, "idle") /\ check[w].phase \in Claiming /\ check[w].phase = "credits"
  BY DEF Credits, At, Claiming
<1>2. r \in Rows
  BY <1>1, Working
<1>3. /\ "credits" \in Kinds /\ Go(w, "log credits") /\ "log credits" \in Claiming
      /\ Erase(r, "credits")
      /\ UNCHANGED <<status, due, audit, call, handler, faults>>
  BY DEF Credits, Kinds, Backend, Claiming
<1>4. /\ live' \subseteq Kinds /\ account' = account /\ stranded' = stranded
      /\ left' \in [Rows -> SUBSET Kinds] /\ erased' \in [Rows -> SUBSET Kinds]
      /\ \A q \in Rows : left'[q] = left[q] \ {"credits"}
      /\ erased'[r] = erased[r] \cup {"credits"}
      /\ \A q \in Rows : q # r => erased'[q] = erased[q]
      /\ \A q \in Rows : left'[q] \subseteq live'
  BY <1>2, <1>3, Erasure
<1>5. Typed'
  BY <1>1, <1>2, <1>3, <1>4, GoStep DEF Inv, Typed, TypeOK, At
<1>6. Onward
  BY <1>2, <1>3, <1>4 DEF Onward, Taken
<1>7. LeftIsLive'
  BY <1>2, <1>3, <1>4 DEF Inv, LeftIsLive
<1>8. Progress(w)'
  <2>1. r' = r /\ check'[w].phase = "log credits"
    BY <1>1, <1>3, GoStep
  <2>2. /\ "credits" \notin left'[r]
        /\ left'[r] \subseteq left[r] /\ erased[r] \subseteq erased'[r]
    BY <1>2, <1>3, <1>4
  <2>3. Progress(w)
    BY DEF Inv, WorkIsDone
  <2> QED BY <1>1, <1>3, <2>1, <2>2, <2>3 DEF Progress, Claiming
<1>9. \A q \in Rows : q = r \/ erased'[q] = erased[q]
  BY <1>2, <1>3, <1>4
<1> QED BY <1>1, <1>3, <1>5, <1>6, <1>7, <1>8, <1>9, ClaimedStep DEF Taken

LEMMA IntentsStep ==
  ASSUME Inv, NEW w \in Checks, Intents(w)
  PROVE  Inv'
<1> DEFINE r == Row(w)
<1>1. ~At(w, "idle") /\ check[w].phase \in Claiming /\ check[w].phase = "intents"
  BY DEF Intents, At, Claiming
<1>2. r \in Rows
  BY <1>1, Working
<1>3. /\ "intents" \in Kinds /\ Go(w, "log intents") /\ "log intents" \in Claiming
      /\ Erase(r, "intents")
      /\ UNCHANGED <<status, due, audit, call, handler, faults>>
  BY DEF Intents, Kinds, Backend, Claiming
<1>4. /\ live' \subseteq Kinds /\ account' = account /\ stranded' = stranded
      /\ left' \in [Rows -> SUBSET Kinds] /\ erased' \in [Rows -> SUBSET Kinds]
      /\ \A q \in Rows : left'[q] = left[q] \ {"intents"}
      /\ erased'[r] = erased[r] \cup {"intents"}
      /\ \A q \in Rows : q # r => erased'[q] = erased[q]
      /\ \A q \in Rows : left'[q] \subseteq live'
  BY <1>2, <1>3, Erasure
<1>5. Typed'
  BY <1>1, <1>2, <1>3, <1>4, GoStep DEF Inv, Typed, TypeOK, At
<1>6. Onward
  BY <1>2, <1>3, <1>4 DEF Onward, Taken
<1>7. Progress(w)
  BY DEF Inv, WorkIsDone
<1>8. "credits" \notin left[r]
  BY <1>1, <1>7 DEF Progress
<1>9. LeftIsLive'
  BY <1>2, <1>8, <1>4 DEF Inv, LeftIsLive
<1>10. Progress(w)'
  <2>1. r' = r /\ check'[w].phase = "log intents"
    BY <1>1, <1>3, GoStep
  <2>2. /\ "intents" \in erased'[r]
        /\ left'[r] \subseteq left[r] /\ erased[r] \subseteq erased'[r]
    BY <1>2, <1>3, <1>4
  <2> QED BY <1>1, <1>3, <1>7, <1>8, <2>1, <2>2 DEF Progress, Claiming
<1>11. \A q \in Rows : q = r \/ erased'[q] = erased[q]
  BY <1>2, <1>3, <1>4
<1> QED BY <1>1, <1>3, <1>5, <1>6, <1>9, <1>10, <1>11, ClaimedStep DEF Taken

LEMMA LookupStep ==
  ASSUME Inv, NEW w \in Checks, Lookup(w)
  PROVE  Inv'
<1> DEFINE r == Row(w)
<1>1. ~At(w, "idle") /\ check[w].phase \in Claiming /\ check[w].phase = "lookup"
  BY DEF Lookup, At, Claiming
<1>2. r \in Rows /\ left[r] \subseteq live /\ Progress(w)
  BY <1>1, Working DEF Inv, LeftIsLive, WorkIsDone
<1>3. PICK p \in {"fail", "log all", "credits", "log credits"} :
        Go(w, p) /\ (p = "log credits" => "credits" \notin live)
  BY DEF Lookup
<1>4. UNCHANGED <<status, due, live, account, left, erased, stranded, audit, call, handler, faults>>
  BY DEF Lookup, user, hist
<1>5. p \in Claiming \cup {"fail"}
  BY DEF Claiming
<1>6. Typed'
  BY <1>1, <1>3, <1>4, <1>5, GoStep DEF Inv, Typed, TypeOK, At
<1>7. Onward
  BY <1>4 DEF Onward, Taken
<1>8. LeftIsLive'
  BY <1>4 DEF Inv, LeftIsLive
<1>9. Progress(w)'
  <2>1. r' = r /\ check'[w].phase = p
    BY <1>1, <1>3, <1>5, GoStep
  <2> QED BY <1>1, <1>2, <1>3, <1>4, <2>1 DEF Progress, Claiming
<1> QED BY <1>1, <1>3, <1>4, <1>5, <1>6, <1>7, <1>8, <1>9, ClaimedStep DEF Taken

LEMMA LogStep ==
  ASSUME Inv, NEW w \in Checks, NEW e \in DOMAIN Logs, Log(w, e)
  PROVE  Inv'
<1> DEFINE r == Row(w)
           p == Logs[e].next
<1>1. \/ e = "ownership" /\ check[w].phase = "log ownership" /\ p = "lookup"
      \/ e = "credits" /\ check[w].phase = "log credits" /\ p = "intents"
      \/ e = "intents" /\ check[w].phase = "log intents" /\ p = "log all"
      \/ e = "all" /\ check[w].phase = "log all" /\ p = "anonymise"
  <2>1. e \in {"ownership", "credits", "intents", "all"} /\ check[w].phase = Logs[e].phase
    BY DEF Log, Logs, At
  <2>2. CASE e = "ownership"
    BY <2>1, <2>2 DEF Logs
  <2>3. CASE e = "credits"
    BY <2>1, <2>3 DEF Logs
  <2>4. CASE e = "intents"
    BY <2>1, <2>4 DEF Logs
  <2>5. CASE e = "all"
    BY <2>1, <2>5 DEF Logs
  <2> QED BY <2>1, <2>2, <2>3, <2>4, <2>5
<1>2. ~At(w, "idle") /\ check[w].phase \in Claiming /\ p \in Claiming
  BY <1>1 DEF At, Claiming
<1> HIDE DEF p
<1>3. r \in Rows /\ Progress(w)
  BY <1>2, Working DEF Inv, WorkIsDone
<1>4. /\ Go(w, p) /\ audit' = audit \cup {e}
      /\ UNCHANGED <<status, due, live, account, left, erased, stranded, call, handler, faults>>
  BY DEF Log, user, hist, p
<1>5. Typed'
  BY <1>2, <1>4, GoStep DEF Inv, Typed, TypeOK, At
<1>6. Onward
  BY <1>4 DEF Onward, Taken
<1>7. LeftIsLive'
  BY <1>4 DEF Inv, LeftIsLive
<1>8. r' = r /\ check'[w].phase = p
  BY <1>2, <1>4, GoStep
<1>9. Progress(w)'
  BY <1>1, <1>3, <1>4, <1>8 DEF Progress, Claiming
<1>10. e \in {"ownership", "intents"} => e \in erased'[r]
  BY <1>1, <1>3, <1>4 DEF Progress, Claiming
<1> QED BY <1>2, <1>4, <1>5, <1>6, <1>7, <1>9, <1>10, ClaimedStep DEF Taken

LEMMA AnonymiseStep ==
  ASSUME Inv, NEW w \in Checks, Anonymise(w)
  PROVE  Inv'
<1> DEFINE r == Row(w)
<1>1. ~At(w, "idle") /\ check[w].phase \in Claiming /\ check[w].phase = "anonymise"
  BY DEF Anonymise, At, Claiming
<1>2. r \in Rows /\ Progress(w)
  BY <1>1, Working DEF Inv, WorkIsDone
<1>3. /\ Go(w, "wait") /\ "wait" \in Claiming
      /\ UNCHANGED <<status, due, live, account, left, erased, stranded, audit, call, faults>>
  BY DEF Anonymise, user, hist, Claiming
<1>4. /\ handler' \in [Rows -> DOMAIN Then \cup {"none", "done", "failed"}]
      /\ \A q \in Rows : handler'[q] = handler[q] \/ (q = r /\ handler'[q] \in {"keys", "failed"})
  BY <1>2 DEF Anonymise, Then, Inv, Typed, TypeOK
<1>5. Typed'
  BY <1>1, <1>3, <1>4, GoStep DEF Inv, Typed, TypeOK, At
<1>6. Onward
  BY <1>3 DEF Onward, Taken
<1>7. LeftIsLive'
  BY <1>3 DEF Inv, LeftIsLive
<1>8. r' = r /\ check'[w].phase = "wait"
  BY <1>1, <1>3, GoStep
<1>9. Progress(w)'
  BY <1>1, <1>2, <1>3, <1>8 DEF Progress, Claiming
<1> QED BY <1>1, <1>3, <1>4, <1>5, <1>6, <1>7, <1>9, ClaimedStep DEF Taken

LEMMA AnsweredStep ==
  ASSUME Inv, NEW w \in Checks, Answered(w)
  PROVE  Inv'
<1> DEFINE r == Row(w)
<1>1. ~At(w, "idle") /\ check[w].phase \in Claiming /\ check[w].phase = "wait"
  BY DEF Answered, At, Claiming
<1>2. r \in Rows /\ Progress(w)
  BY <1>1, Working DEF Inv, WorkIsDone
<1>3. PICK p \in {"complete", "fail"} : Go(w, p) /\ (p = "complete" => handler[r] = "done")
  BY DEF Answered
<1>4. UNCHANGED <<status, due, live, account, left, erased, stranded, audit, call, handler, faults>>
  BY DEF Answered, user, hist
<1>5. p \in Claiming \cup {"fail"}
  BY DEF Claiming
<1>6. Typed'
  BY <1>1, <1>3, <1>4, <1>5, GoStep DEF Inv, Typed, TypeOK, At
<1>7. Onward
  BY <1>4 DEF Onward, Taken
<1>8. LeftIsLive'
  BY <1>4 DEF Inv, LeftIsLive
<1>9. p = "complete" => left[r] \cap Auth = {}
  BY <1>2, <1>3 DEF Inv, WorkIsDone, Gone
<1>10. r' = r /\ check'[w].phase = p
  BY <1>1, <1>3, <1>5, GoStep
<1>11. Progress(w)'
  BY <1>1, <1>2, <1>3, <1>4, <1>9, <1>10 DEF Progress, Claiming
<1> QED BY <1>1, <1>3, <1>4, <1>5, <1>6, <1>7, <1>8, <1>11, ClaimedStep DEF Taken

(***************************************************************************)
(* Claims, ends and faults                                                 *)
(***************************************************************************)
\* A step that ends a check's work on its row, or starts its list again.
LEMMA LeavingStep ==
  ASSUME Inv, Typed', Onward, NEW w \in Checks, due' = due, UNCHANGED <<live, left, erased, audit, handler>>,
         \A v \in Checks : v # w => check'[v] = check[v],
         check'[w].phase \notin Claiming, check'[w].todo \subseteq due,
         \A r \in Rows : Taken(r)' => Taken(r),
         \A r \in Rows : status'[r] = "completed" =>
           status[r] = "completed" \/ (r = Row(w) /\ check[w].phase = "complete")
  PROVE  Inv'
<1>1. WorkIsClaimed'
  <2>1. \A v \in Checks : check'[v].phase \in Claiming => Taken(Row(v))'
    BY OthersKept
  <2>2. \A v \in Checks : check'[v].todo \subseteq due'
    BY DEF Inv, WorkIsClaimed
  <2>3. \A r \in Rows : Taken(r)' => r \in due'
    BY DEF Inv, WorkIsClaimed
  <2>4. \A r \in Rows : handler'[r] # "none" \/ erased'[r] # {} => Taken(r)'
    BY DEF Inv, WorkIsClaimed, Onward
  <2> QED BY <2>1, <2>2, <2>3, <2>4 DEF WorkIsClaimed
<1>2. LeftIsLive'
  BY DEF Inv, LeftIsLive
<1>3. WorkIsDone'
  <2>1. ASSUME NEW v \in Checks PROVE Progress(v)'
    <3>1. CASE v # w
      BY <3>1, OthersKept
    <3>2. CASE v = w
      BY <3>2 DEF Progress, Claiming
    <3> QED BY <3>1, <3>2
  <2> QED BY <2>1 DEF Inv, WorkIsDone
<1>4. CancelledIsSpared'
  BY <1>1 DEF CancelledIsSpared, WorkIsClaimed, Taken
<1>5. CompletedIsErased'
  <2>1. ASSUME NEW r \in Rows, status'[r] = "completed"
        PROVE  /\ left'[r] \subseteq (IF "intents" \in erased'[r] THEN {} ELSE {"intents", "credits"})
               /\ {"ownership", "all"} \subseteq audit'
    <3>1. CASE status[r] = "completed"
      BY <3>1, <2>1, CompletedKept, <1>2 DEF LeftIsLive
    <3>2. CASE r = Row(w) /\ check[w].phase = "complete"
      <4>1. /\ "ownership" \notin left[r] /\ left[r] \cap Auth = {}
            /\ {"ownership", "all"} \subseteq audit
        BY <3>2 DEF Inv, WorkIsDone, Progress, Claiming
      <4>2. left[r] \subseteq Kinds
        BY DEF Inv, Typed, TypeOK
      <4>3. left[r] \subseteq {"credits", "intents"}
        BY <4>1, <4>2 DEF Kinds, Backend, Names, Auth, Then
      <4> QED BY <4>1, <4>3 DEF Inv, LeftIsLive
    <3> QED BY <2>1, <3>1, <3>2
  <2>2. \A e \in audit' \cap {"ownership", "intents"} : \E r \in Rows : e \in erased'[r]
    BY LogKept
  <2> QED BY <2>1, <2>2 DEF CompletedIsErased
<1> QED BY <1>1, <1>2, <1>3, <1>4, <1>5 DEF Inv, ErasureFollowsRequest

LEMMA RunCheckStep ==
  ASSUME Inv, NEW w \in Checks, RunCheck(w)
  PROVE  Inv'
<1>1. /\ check' = [check EXCEPT ![w] = [phase |-> "claim", todo |-> Due]]
      /\ Due # {} /\ Due \subseteq Rows /\ Due \subseteq due
      /\ UNCHANGED <<status, due, live, account, left, erased, stranded, audit, call, handler, faults>>
  BY DEF RunCheck, Due, Pending, user, hist
<1>2. Typed'
  BY <1>1 DEF Inv, Typed, TypeOK, At
<1>3. Onward
  BY <1>1 DEF Onward, Taken
<1>4. /\ \A v \in Checks : v # w => check'[v] = check[v]
      /\ check'[w].phase \notin Claiming /\ check'[w].todo \subseteq due
  BY <1>1 DEF Inv, Typed, Claiming
<1> QED BY <1>1, <1>2, <1>3, <1>4, LeavingStep DEF Taken

\* The claim of a pending row, from where the check erases or marks it failed.
LEMMA ClaimedRow ==
  ASSUME Inv, NEW w \in Checks, At(w, "claim"), status[Row(w)] = "pending", Claimed(Row(w)),
         NEW p \in {"ownership", "fail"}, Go(w, p),
         UNCHANGED <<due, user, audit, call, handler>>, faults' \in 0..MaxFaults
  PROVE  Inv'
<1> DEFINE r == Row(w)
<1>1. ~At(w, "idle") /\ p \in Claiming \cup {"fail"}
  BY DEF At, Claiming
<1>2. r \in Rows /\ r \in due
  BY <1>1, Working
<1>3. /\ ~Taken(r) /\ erased[r] = {} /\ handler[r] = "none"
      /\ \A v \in Checks : check[v].phase \in Claiming => Row(v) # r
  BY <1>2 DEF Inv, WorkIsClaimed, Taken
<1>4. /\ status' = [status EXCEPT ![r] = "processing"] /\ left' = [left EXCEPT ![r] = live]
      /\ UNCHANGED <<due, live, account, erased, stranded, audit, call, handler>>
  BY DEF Claimed, user
<1>5. /\ Taken(r)' /\ status'[r] = "processing"
      /\ \A q \in Rows : q # r => status'[q] = status[q] /\ left'[q] = left[q]
      /\ left'[r] = live
  <2>1. status \in [Rows -> Statuses] /\ left \in [Rows -> SUBSET Kinds]
    BY DEF Inv, Typed, TypeOK
  <2>2. status'[r] = "processing" /\ \A q \in Rows : q # r => status'[q] = status[q]
    BY <1>2, <1>4, <2>1
  <2>3. left'[r] = live /\ \A q \in Rows : q # r => left'[q] = left[q]
    BY <1>2, <1>4, <2>1
  <2>4. Taken(r)'
    <3>1. Row(w)' = Row(w)
      BY <1>1, GoStep
    <3> QED BY <2>2, <3>1 DEF Taken
  <2> QED BY <2>2, <2>3, <2>4
<1>6. Typed'
  <2>1. status' \in [Rows -> Statuses] /\ left' \in [Rows -> SUBSET Kinds]
    BY <1>4 DEF Inv, Typed, TypeOK, Statuses
  <2> QED BY <1>1, <1>4, <2>1, GoStep DEF Inv, Typed, TypeOK, At
<1>7. Onward
  BY <1>3, <1>4, <1>5 DEF Onward, Taken
<1>8. /\ \A v \in Checks : check'[v].todo = check[v].todo /\ Row(v)' = Row(v)
      /\ \A v \in Checks : v # w => check'[v] = check[v]
      /\ check'[w].phase = p
  BY <1>1, GoStep
<1>9. WorkIsClaimed'
  <2>1. \A v \in Checks : check'[v].phase \in Claiming => Taken(Row(v))'
    <3>1. Taken(Row(w))'
      BY <1>5, <1>8 DEF Taken
    <3> QED BY <1>7, <1>8, <3>1, OthersKept
  <2>2. \A v \in Checks : check'[v].todo \subseteq due'
    BY <1>4, <1>8 DEF Inv, WorkIsClaimed
  <2>3. \A q \in Rows : Taken(q)' => q \in due'
    BY <1>2, <1>4, <1>5 DEF Inv, WorkIsClaimed, Taken
  <2>4. \A q \in Rows : handler'[q] # "none" \/ erased'[q] # {} => Taken(q)'
    BY <1>4, <1>7 DEF Inv, WorkIsClaimed, Onward
  <2> QED BY <2>1, <2>2, <2>3, <2>4 DEF WorkIsClaimed
<1>10. LeftIsLive'
  BY <1>3, <1>4, <1>5 DEF Inv, LeftIsLive
<1>11. WorkIsDone'
  <2>1. Progress(w)'
    BY <1>8 DEF Progress, Claiming
  <2>2. \A v \in Checks : Progress(v)'
    BY <1>7, <1>8, <2>1, OthersKept
  <2>3. ASSUME NEW q \in Rows, handler'[q] \in DOMAIN Gone
        PROVE  left'[q] \cap Gone[handler'[q]] = {}
    BY <1>4, <1>7, <2>3, HandlersKept
  <2> QED BY <2>2, <2>3 DEF WorkIsDone
<1>12. CancelledIsSpared'
  BY <1>9 DEF CancelledIsSpared, WorkIsClaimed, Taken
<1>13. CompletedIsErased'
  <2>1. ASSUME NEW q \in Rows, status'[q] = "completed"
        PROVE  /\ left'[q] \subseteq (IF "intents" \in erased'[q] THEN {} ELSE {"intents", "credits"})
               /\ {"ownership", "all"} \subseteq audit'
    <3>1. status[q] = "completed"
      BY <1>5, <2>1
    <3> QED BY <1>7, <1>10, <3>1, CompletedKept DEF LeftIsLive
  <2>2. \A e \in audit' \cap {"ownership", "intents"} : \E q \in Rows : e \in erased'[q]
    BY <1>4, <1>7, LogKept
  <2> QED BY <2>1, <2>2 DEF CompletedIsErased
<1> QED BY <1>6, <1>9, <1>10, <1>11, <1>12, <1>13 DEF Inv, ErasureFollowsRequest

\* A check turns to the failure of its row, its status as it was.
LEMMA FailingStep ==
  ASSUME Inv, NEW w \in Checks, ~At(w, "idle"), Go(w, "fail"),
         UNCHANGED <<due, user, audit, call, handler, hist>>, faults' \in 0..MaxFaults,
         status' \in [Rows -> Statuses],
         \A r \in Rows : Taken(r) \/ Taken(r)' => Taken(r) /\ Taken(r)',
         \A r \in Rows : status'[r] = "completed" =>
           status[r] = "completed" \/ (r = Row(w) /\ check[w].phase = "complete")
  PROVE  Inv'
<1>1. UNCHANGED <<due, live, account, left, erased, stranded, audit, call, handler>>
  BY DEF user, hist
<1>2. /\ \A v \in Checks : v # w => check'[v] = check[v]
      /\ check'[w].phase \notin Claiming /\ check'[w].todo \subseteq due
  <2>1. check'[w].phase = "fail" /\ check'[w].todo = check[w].todo
    BY GoStep
  <2> QED BY <2>1, GoStep DEF Inv, WorkIsClaimed, Claiming
<1>3. Typed'
  BY <1>1, GoStep DEF Inv, Typed, TypeOK, At
<1>4. Onward
  BY <1>1 DEF Onward
<1> QED BY <1>1, <1>2, <1>3, <1>4, LeavingStep

\* A check leaves its row, whose status it may have changed.
LEMMA LeftStep ==
  ASSUME Inv, NEW w \in Checks, ~At(w, "idle"), Leave(w),
         UNCHANGED <<due, user, audit, call, handler, left, erased>>, faults' \in 0..MaxFaults,
         stranded' \subseteq Rows, status' \in [Rows -> Statuses],
         \A r \in Rows : Taken(r) \/ Taken(r)' => Taken(r) /\ Taken(r)',
         \A r \in Rows : status'[r] = "completed" =>
           status[r] = "completed" \/ (r = Row(w) /\ check[w].phase = "complete")
  PROVE  Inv'
<1>1. UNCHANGED <<due, live, account, left, erased, audit, call, handler>>
  BY DEF user
<1>2. /\ \A v \in Checks : v # w => check'[v] = check[v]
      /\ check'[w].phase \notin Claiming /\ check'[w].todo \subseteq due
  BY LeaveStep DEF Inv, WorkIsClaimed, Claiming
<1>3. Typed'
  BY <1>1, LeaveStep DEF Inv, Typed, TypeOK, At
<1>4. Onward
  BY <1>1 DEF Onward
<1> QED BY <1>1, <1>2, <1>3, <1>4, LeavingStep

LEMMA ClaimStep ==
  ASSUME Inv, NEW w \in Checks, Claim(w)
  PROVE  Inv'
<1>1. At(w, "claim") /\ ~At(w, "idle") /\ faults' \in 0..MaxFaults
  BY DEF Claim, At, Inv, Typed, TypeOK
<1>2. CASE status[Row(w)] = "pending"
  BY <1>1, <1>2, ClaimedRow DEF Claim
<1>3. CASE status[Row(w)] # "pending"
  BY <1>1, <1>3, LeftStep DEF Claim, hist, Taken, Inv, Typed, TypeOK
<1> QED BY <1>2, <1>3

LEMMA ClaimLostStep ==
  ASSUME Inv, NEW w \in Checks, ClaimLost(w)
  PROVE  Inv'
<1>1. At(w, "claim") /\ ~At(w, "idle") /\ faults' \in 0..MaxFaults
  BY DeletionAssumption DEF ClaimLost, Fault, At, Inv, Typed, TypeOK
<1>2. CASE status[Row(w)] = "pending" /\ Claimed(Row(w))
  BY <1>1, <1>2, ClaimedRow DEF ClaimLost
<1>3. CASE UNCHANGED <<status, hist>>
  BY <1>1, <1>3, FailingStep DEF ClaimLost, Taken, Inv, Typed, TypeOK
<1> QED BY <1>2, <1>3 DEF ClaimLost

\* What a completion does to the row of its check.
LEMMA Completing ==
  ASSUME Inv, NEW w \in Checks, At(w, "complete"), status[Row(w)] = "processing",
         status' = [status EXCEPT ![Row(w)] = "completed"]
  PROVE  /\ status' \in [Rows -> Statuses]
         /\ \A r \in Rows : Taken(r) \/ Taken(r)' => Taken(r) /\ Taken(r)'
         /\ \A r \in Rows : status'[r] = "completed" =>
              status[r] = "completed" \/ (r = Row(w) /\ check[w].phase = "complete")
BY DEF Inv, Typed, TypeOK, Statuses, Taken, At

LEMMA CompleteStep ==
  ASSUME Inv, NEW w \in Checks, Complete(w)
  PROVE  Inv'
<1>1. At(w, "complete") /\ ~At(w, "idle") /\ faults' \in 0..MaxFaults /\ stranded' \subseteq Rows
  BY DEF Complete, At, Inv, Typed, TypeOK, hist
<1>2. CASE status[Row(w)] = "processing"
  BY <1>1, <1>2, Completing, LeftStep DEF Complete, hist
<1>3. CASE status[Row(w)] # "processing"
  BY <1>1, <1>3, FailingStep DEF Complete, Taken, Inv, Typed, TypeOK
<1> QED BY <1>2, <1>3

LEMMA ThrowsStep ==
  ASSUME Inv, NEW w \in Checks, Throws(w)
  PROVE  Inv'
<1>1. ~At(w, "idle") /\ faults' \in 0..MaxFaults /\ Go(w, "fail")
      /\ UNCHANGED <<due, user, audit, call, handler, hist>>
  BY DeletionAssumption DEF Throws, Fault, At, Inv, Typed, TypeOK
<1>2. CASE UNCHANGED status
  BY <1>1, <1>2, FailingStep DEF Taken, Inv, Typed, TypeOK
<1>3. CASE /\ At(w, "complete") /\ status[Row(w)] = "processing"
           /\ status' = [status EXCEPT ![Row(w)] = "completed"]
  BY <1>1, <1>3, Completing, FailingStep
<1> QED BY <1>2, <1>3 DEF Throws

LEMMA FailStep ==
  ASSUME Inv, NEW w \in Checks, Fail(w)
  PROVE  Inv'
<1>1. ~At(w, "idle") /\ faults' \in 0..MaxFaults /\ stranded' \subseteq Rows
  BY DEF Fail, At, Inv, Typed, TypeOK, hist
<1>2. /\ status' \in [Rows -> Statuses]
      /\ \A r \in Rows : Taken(r) \/ Taken(r)' => Taken(r) /\ Taken(r)'
      /\ \A r \in Rows : status'[r] = "completed" => status[r] = "completed"
  BY DEF Fail, Inv, Typed, TypeOK, Statuses, Taken
<1> QED BY <1>1, <1>2, LeftStep DEF Fail, hist

LEMMA FailLostStep ==
  ASSUME Inv, NEW w \in Checks, FailLost(w)
  PROVE  Inv'
<1>1. ~At(w, "idle") /\ faults' \in 0..MaxFaults
  BY DeletionAssumption DEF FailLost, Fault, At, Inv, Typed, TypeOK
<1>2. stranded' \subseteq Rows
  BY <1>1, Working DEF FailLost, Strand, Inv, Typed, TypeOK
<1>3. status' \in [Rows -> Statuses] /\ status' = status
  BY DEF FailLost, Inv, Typed, TypeOK
<1> QED BY <1>1, <1>2, <1>3, LeftStep DEF FailLost, Taken

LEMMA CrashStep ==
  ASSUME Inv, NEW w \in Checks, Crash(w)
  PROVE  Inv'
<1>1. ~At(w, "idle") /\ faults' \in 0..MaxFaults
  BY DeletionAssumption DEF Crash, Fault, At, Inv, Typed, TypeOK
<1>2. stranded' \subseteq Rows
  BY <1>1, Working DEF Crash, Strand, Inv, Typed, TypeOK
<1>3. /\ check' = [check EXCEPT ![w] = [phase |-> "idle", todo |-> {}]]
      /\ UNCHANGED <<status, due, live, account, left, erased, audit, call, handler>>
  BY DEF Crash, user
<1>4. Typed'
  BY <1>1, <1>2, <1>3 DEF Inv, Typed, TypeOK, At
<1>5. Onward
  BY <1>3 DEF Onward, Taken
<1>6. /\ \A v \in Checks : v # w => check'[v] = check[v]
      /\ check'[w].phase \notin Claiming /\ check'[w].todo \subseteq due
  BY <1>3 DEF Inv, Typed, Claiming
<1> QED BY <1>3, <1>4, <1>5, <1>6, LeavingStep DEF Taken

(***************************************************************************)
(* The handler of the auth service                                         *)
(***************************************************************************)
\* A step of the handler, whether or not its statement was executed.
LEMMA HandlerStep ==
  ASSUME Inv, Typed', Onward, NEW r \in Rows, handler[r] # "none", LeftIsLive',
         UNCHANGED <<status, due, audit, check>>,
         \A q \in Rows : q # r => handler'[q] = handler[q] /\ erased'[q] = erased[q],
         handler'[r] \in DOMAIN Gone => left'[r] \cap Gone[handler'[r]] = {}
  PROVE  Inv'
<1>1. Taken(r)
  BY DEF Inv, WorkIsClaimed
<1>2. WorkIsClaimed'
  <2>1. \A v \in Checks : check'[v].phase \in Claiming => Taken(Row(v))'
    BY OthersKept
  <2>2. \A v \in Checks : check'[v].todo \subseteq due'
    BY DEF Inv, WorkIsClaimed
  <2>3. \A q \in Rows : Taken(q)' => q \in due'
    BY DEF Inv, WorkIsClaimed, Taken
  <2>4. \A q \in Rows : handler'[q] # "none" \/ erased'[q] # {} => Taken(q)'
    BY <1>1 DEF Inv, WorkIsClaimed, Onward
  <2> QED BY <2>1, <2>2, <2>3, <2>4 DEF WorkIsClaimed
<1>3. WorkIsDone'
  <2>1. \A v \in Checks : Progress(v)'
    BY OthersKept
  <2>2. ASSUME NEW q \in Rows, handler'[q] \in DOMAIN Gone
        PROVE  left'[q] \cap Gone[handler'[q]] = {}
    BY <2>2, HandlersKept
  <2> QED BY <2>1, <2>2 DEF WorkIsDone
<1>4. CancelledIsSpared'
  BY <1>2 DEF CancelledIsSpared, WorkIsClaimed, Taken
<1>5. CompletedIsErased'
  <2>1. ASSUME NEW q \in Rows, status'[q] = "completed"
        PROVE  /\ left'[q] \subseteq (IF "intents" \in erased'[q] THEN {} ELSE {"intents", "credits"})
               /\ {"ownership", "all"} \subseteq audit'
    BY <2>1, CompletedKept DEF LeftIsLive
  <2>2. \A e \in audit' \cap {"ownership", "intents"} : \E q \in Rows : e \in erased'[q]
    BY LogKept
  <2> QED BY <2>1, <2>2 DEF CompletedIsErased
<1> QED BY <1>2, <1>3, <1>4, <1>5 DEF Inv, ErasureFollowsRequest

LEMMA AnonymiseUserStep ==
  ASSUME Inv, NEW r \in Rows, AnonymiseUser(r)
  PROVE  Inv'
<1> DEFINE k == handler[r]
<1>1. /\ k \in Auth /\ k \in Kinds /\ k # "none" /\ k # "intents"
      /\ Erase(r, k) /\ handler' = [handler EXCEPT ![r] = Then[k]]
      /\ UNCHANGED <<status, due, audit, call, check, faults>>
  BY DEF AnonymiseUser, Auth, Then, Kinds, Names
<1>2. /\ live' \subseteq Kinds /\ account' = account /\ stranded' = stranded
      /\ left' \in [Rows -> SUBSET Kinds] /\ erased' \in [Rows -> SUBSET Kinds]
      /\ \A q \in Rows : left'[q] = left[q] \ {k}
      /\ erased'[r] = erased[r] \cup {k}
      /\ \A q \in Rows : q # r => erased'[q] = erased[q]
      /\ \A q \in Rows : left'[q] \subseteq live'
  BY <1>1, Erasure
<1>3. /\ handler' \in [Rows -> DOMAIN Then \cup {"none", "done", "failed"}]
      /\ handler'[r] = Then[k]
      /\ \A q \in Rows : q # r => handler'[q] = handler[q]
  BY <1>1 DEF Inv, Typed, TypeOK, Then, Auth
<1>4. Typed'
  BY <1>1, <1>2, <1>3 DEF Inv, Typed, TypeOK, At
<1>5. Onward
  BY <1>1, <1>2 DEF Onward, Taken
<1>6. LeftIsLive'
  BY <1>1, <1>2 DEF Inv, LeftIsLive
<1>7. left'[r] \cap Gone[handler'[r]] = {}
  <2>1. left[r] \cap Gone[k] = {}
    BY <1>1 DEF Inv, WorkIsDone, Gone, Auth, Then
  <2>2. Gone[Then[k]] = Gone[k] \cup {k}
    <3>1. CASE k = "keys"
      BY <3>1 DEF Gone, Then
    <3>2. CASE k = "membership"
      BY <3>2 DEF Gone, Then
    <3>3. CASE k = "username"
      BY <3>3 DEF Gone, Then
    <3>4. CASE k = "avatar"
      BY <3>4 DEF Gone, Then, Auth
    <3> QED BY <1>1, <3>1, <3>2, <3>3, <3>4 DEF Auth, Then
  <2> QED BY <1>2, <1>3, <2>1, <2>2
<1> QED BY <1>1, <1>2, <1>3, <1>4, <1>5, <1>6, <1>7, HandlerStep

LEMMA HandlerFailsStep ==
  ASSUME Inv, NEW r \in Rows, HandlerFails(r)
  PROVE  Inv'
<1>1. /\ handler[r] # "none" /\ handler' = [handler EXCEPT ![r] = "failed"]
      /\ UNCHANGED <<status, due, live, account, left, erased, stranded, audit, call, check>>
      /\ faults' \in 0..MaxFaults
  BY DeletionAssumption DEF HandlerFails, Fault, Then, user, hist, Inv, Typed, TypeOK
<1>2. Typed'
  BY <1>1 DEF Inv, Typed, TypeOK, At
<1>3. Onward
  BY <1>1 DEF Onward, Taken
<1>4. LeftIsLive'
  BY <1>1 DEF Inv, LeftIsLive
<1>5. /\ \A q \in Rows : q # r => handler'[q] = handler[q]
      /\ handler'[r] \notin DOMAIN Gone
  BY <1>1 DEF Gone, Inv, Typed, TypeOK
<1> QED BY <1>1, <1>2, <1>3, <1>4, <1>5, HandlerStep

(***************************************************************************)
(* Theorems                                                                *)
(***************************************************************************)
LEMMA InitInv == Init => Inv
<1> SUFFICES ASSUME Init PROVE Inv
  OBVIOUS
<1>1. Typed
  BY DeletionAssumption DEF Init, Typed, TypeOK, Statuses, At, Kinds, Backend, Names
<1>2. WorkIsClaimed
  BY DEF Init, WorkIsClaimed, Taken, Claiming
<1>3. LeftIsLive
  BY DEF Init, LeftIsLive
<1>4. WorkIsDone
  BY DEF Init, WorkIsDone, Progress, Claiming, Gone
<1>5. ErasureFollowsRequest
  BY DEF Init, ErasureFollowsRequest, CancelledIsSpared, CompletedIsErased
<1> QED BY <1>1, <1>2, <1>3, <1>4, <1>5 DEF Inv

LEMMA NextInv == Inv /\ [Next]_vars => Inv'
<1> SUFFICES ASSUME Inv, [Next]_vars PROVE Inv'
  OBVIOUS
<1>1. ASSUME NEW c \in Calls,
             \/ RequestDeletion(c) \/ createDeletionRequest(c)
             \/ CancelDeletion(c) \/ cancelRequest(c)
      PROVE  Inv'
  BY <1>1, CallStep, CreateStep, CancelStep
<1>2. ASSUME NEW r \in Rows, GraceEnds(r) PROVE Inv'
  BY <1>2, GraceStep
<1>3. ASSUME NEW k \in Renewed, Use(k) PROVE Inv'
  BY <1>3, UseStep
<1>4. ASSUME NEW w \in Checks, Process(w) PROVE Inv'
  BY <1>4, RunCheckStep, ClaimStep, OwnershipStep, LookupStep, CreditsStep, IntentsStep, LogStep,
     AnonymiseStep, AnsweredStep, CompleteStep, FailStep DEF Process
<1>5. ASSUME NEW w \in Checks, ClaimLost(w) \/ Throws(w) \/ FailLost(w) \/ Crash(w) PROVE Inv'
  BY <1>5, ClaimLostStep, ThrowsStep, FailLostStep, CrashStep
<1>6. ASSUME NEW r \in Rows, AnonymiseUser(r) \/ HandlerFails(r) PROVE Inv'
  BY <1>6, AnonymiseUserStep, HandlerFailsStep
<1>7. CASE UNCHANGED vars
  <2>1. UNCHANGED <<status, due, live, account, audit, call, job, faults, left, erased, stranded>>
    BY <1>7 DEF vars, user, hist
  <2>2. Typed'
    BY <2>1 DEF Inv, Typed, TypeOK, job, At
  <2> QED BY <2>1, <2>2, UserKeeps DEF Taken
<1> QED BY <1>1, <1>2, <1>3, <1>4, <1>5, <1>6, <1>7 DEF Next, User

LEMMA SpecInv == Spec => []Inv
BY InitInv, NextInv, PTL DEF Spec

\* Every variable keeps its type: in particular a check is idle exactly when
\* its list of due requests is used up, whatever fails under it.
THEOREM TypeCorrect == Spec => []TypeOK
<1>1. Inv => TypeOK
  BY DEF Inv, Typed
<1> QED BY SpecInv, <1>1, PTL

\* Nothing is erased for a request that was taken back or is not due yet, and a
\* request that says completed has erased what there was when it was claimed:
\* for any number of requests, of overlapping checks and of lost calls, and
\* whatever the user goes on making.
THEOREM ErasuresFollowRequests == Spec => []ErasureFollowsRequest
<1>1. Inv => ErasureFollowsRequest
  BY DEF Inv
<1> QED BY SpecInv, <1>1, PTL
=============================================================================
