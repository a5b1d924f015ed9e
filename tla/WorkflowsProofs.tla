--------------------------- MODULE WorkflowsProofs --------------------------
(***************************************************************************)
(* Proofs about the programs that callers build from several calls: a      *)
(* retried call does nothing twice, a walk over all pages misses nothing   *)
(* that was there throughout, tags are erased only blindly, an update      *)
(* resets no option, and a merge is neither hidden from its caller nor     *)
(* reported otherwise than it ends.                                        *)
(***************************************************************************)
EXTENDS RateLimitRetry, Pagination, TagsRoundTrip, PartialUpdate, MergeTask,
        FiniteSetTheorems, SequenceTheorems, TLAPS

-----------------------------------------------------------------------------
(* One call.                                                               *)

\* What the decoder and the type switch make of a reply that does not
\* contradict itself: a value comes from a 200, a result is never pending, and
\* an APIError has the status of the reply, or none.
LEMMA OutcomeOfReply ==
    ASSUME NEW op, NEW r, r.body.status \in {0, r.status}
    PROVE  LET o == Outcome(op, r)
           IN  /\ o.kind = "ok" => r.status = 200
               /\ o.kind # "pending"
               /\ o.kind = "api" => o.status \in {0, r.status}
<1>1. /\ Value.kind = "ok" /\ \A o : Plain(o).kind = "plain"
      /\ Empty(r.status).kind = "api" /\ Empty(r.status).status = r.status
      /\ FromProblemDetails(r.body, r.status).kind = "api"
      /\ FromProblemDetails(r.body, r.status).status \in {0, r.status}
      /\ UnexpectedResponse.kind = "api" /\ UnexpectedResponse.status = 0
  BY DEF Value, Plain, Empty, FromProblemDetails, UnexpectedResponse, APIError
<1>2. /\ Switch(op, r).kind = "ok" => r.status = 200
      /\ Switch(op, r).kind # "pending"
  BY <1>1 DEF Switch
<1>3. Switch(op, r).kind = "api" => Switch(op, r).status \in {0, r.status}
  BY <1>1 DEF Switch
<1>4. QED
  BY <1>1, <1>2, <1>3 DEF Outcome

-----------------------------------------------------------------------------
(* RateLimitRetry.                                                         *)

\* The server does not contradict itself: a problem body whose status is 429
\* under another status line would have deeds repeated.
ASSUME ConsistentAnswers ==
    \A r \in Answers : r.body.status \in {0, r.status}

\* Where the loop goes on, the server has done nothing, and err is a 429 or,
\* before the first attempt, nil.  Where it has returned, err is told by the
\* last reply.
RetryInv ==
    /\ retryPc \in {"loop", "wait", "done"}
    /\ attempt \in Nat /\ maxAttempts \in Nat /\ attempt <= maxAttempts
    /\ retryPc = "wait" => attempt < maxAttempts
    /\ fn \in Operations
    /\ applied \in {0, 1}
    /\ retryPc # "done" => applied = 0
    /\ retryPc = "loop"
         => IF attempt = 0 THEN err = Nil ELSE IsRateLimited(err)
    /\ retryPc = "wait" => IsRateLimited(err)
    /\ retryPc = "done" /\ IsRateLimited(err) => attempt = maxAttempts
    /\ retryPc = "done" /\ err = Nil => maxAttempts = 0
    /\ err.kind = "ok" => reply.status = 200 /\ applied = 1
    /\ err.kind = "pending" => err = Nil

\* The loop starts with nothing done.
LEMMA RetryInitInv == RetryInit => RetryInv
BY RetryFnsAssumption, RetryLimitsAssumption
   DEF RetryInit, RetryInv, Nil, Pending, IsRateLimited

\* Every step of the loop and of its environment preserves the invariant.
LEMMA RetryNextInv == RetryInv /\ [RetryNext]_retryVars => RetryInv'
<1> SUFFICES ASSUME RetryInv, [RetryNext]_retryVars
             PROVE  RetryInv'
  OBVIOUS
<1>1. CASE Answered
  <2>1. PICK r \in Answers, executes \in BOOLEAN :
          /\ r.status < 400 => executes
          /\ r.status \in 400 .. 499 => ~executes
          /\ reply' = r
          /\ applied' = IF executes THEN applied + 1 ELSE applied
          /\ err' = Outcome(fn, r)
          /\ retryPc' = IF IsRateLimited(err') THEN "wait" ELSE "done"
    BY <1>1 DEF Answered, Returned
  <2>2. /\ err'.kind = "ok" => r.status = 200
        /\ err'.kind # "pending"
        /\ IsRateLimited(err') => r.status = 429
    <3>1. r.body.status \in {0, r.status}
      BY ConsistentAnswers
    <3>2. /\ err'.kind = "ok" => r.status = 200
          /\ err'.kind # "pending"
          /\ err'.kind = "api" => err'.status \in {0, r.status}
      BY <2>1, <3>1, OutcomeOfReply
    <3>3. QED
      BY <3>2 DEF IsRateLimited
  <2>3. applied = 0 /\ applied' \in {0, 1}
        /\ (IsRateLimited(err') => applied' = 0)
        /\ (r.status = 200 => applied' = 1)
    BY <1>1, <2>1, <2>2 DEF Answered, RetryInv
  <2>4. Nil.kind = "pending"
    BY DEF Nil, Pending
  <2>5. QED
    BY <1>1, <2>1, <2>2, <2>3, <2>4 DEF Answered, RetryInv, IsRateLimited
<1>2. CASE Unanswered
  <2>1. applied' \in {0, 1}
    BY <1>2 DEF Unanswered, RetryInv
  <2>2. /\ err' = Plain("SendRequest") /\ err'.kind = "plain"
        /\ ~IsRateLimited(err') /\ err' # Nil
    BY <1>2 DEF Unanswered, Returned, Plain, IsRateLimited, Nil, Pending
  <2>3. retryPc' = "done"
    BY <1>2, <2>2 DEF Unanswered, Returned
  <2>4. QED
    BY <1>2, <2>1, <2>2, <2>3 DEF Unanswered, RetryInv, IsRateLimited
<1>3. CASE Elapse
  BY <1>3 DEF Elapse, RetryInv, IsRateLimited
<1>4. CASE Abandon
  <2>1. CtxErr.kind = "plain" /\ ~IsRateLimited(CtxErr) /\ CtxErr # Nil
    BY DEF CtxErr, IsRateLimited, Nil, Pending
  <2>2. QED
    BY <1>4, <2>1 DEF Abandon, RetryInv, IsRateLimited
<1>5. CASE Exhausted
  <2>1. ~IsRateLimited(Nil)
    BY DEF IsRateLimited, Nil, Pending
  <2>2. QED
    BY <1>5, <2>1 DEF Exhausted, RetryInv, IsRateLimited
<1>6. CASE Cancel
  BY <1>6 DEF Cancel, RetryInv, IsRateLimited
<1>7. CASE UNCHANGED retryVars
  BY <1>7 DEF retryVars, RetryInv, IsRateLimited
<1>8. QED
  BY <1>1, <1>2, <1>3, <1>4, <1>5, <1>6, <1>7 DEF RetryNext, RetryStep

\* The inductive invariant holds at all times.
THEOREM RetryInvariance == RetrySpec => []RetryInv
BY RetryInitInv, RetryNextInv, PTL DEF RetrySpec

\* However often the wrapper retries, the server executes the request at most
\* once.
THEOREM RetriesAreSafe == RetrySpec => []RetriesNeverRepeatADeed
<1>1. RetryInv => RetriesNeverRepeatADeed
  BY DEF RetryInv, RetriesNeverRepeatADeed
<1>2. QED
  BY <1>1, RetryInvariance, PTL

\* Nil means that the request was executed and answered with 200, and a 429 is
\* returned after the last attempt only.
THEOREM NilIsNoLie == RetrySpec => []NilMeansDone
<1>1. RetryInv => NilMeansDone
  BY DEF RetryInv, NilMeansDone
<1>2. QED
  BY <1>1, RetryInvariance, PTL

-----------------------------------------------------------------------------
(* TagsRoundTrip.                                                          *)

\* Types, and that a copy is the list unless somebody has written since.
TagsInv ==
    /\ tagsPc \in [Editors -> {"read", "write", "done"}]
    /\ copy \in [Editors -> SUBSET Tags]
    /\ blind \in [Editors -> BOOLEAN]
    /\ stale \in [Editors -> BOOLEAN]
    /\ stored \in SUBSET Tags
    /\ CopiesAreTrue

\* Before anybody reads there is nothing to be wrong about.
LEMMA TagsInitInv == TagsInit => TagsInv
BY DEF TagsInit, TagsInv, CopiesAreTrue

\* Reading, writing and failing calls keep copies true: a write makes every
\* other copy stale.
LEMMA TagsNextInv == TagsInv /\ [TagsNext]_tagVars => TagsInv'
<1> SUFFICES ASSUME TagsInv, [TagsNext]_tagVars
             PROVE  TagsInv'
  OBVIOUS
<1>1. ASSUME NEW e \in Editors, Read(e)
      PROVE  TagsInv'
  <2>1. PICK raw \in Raws :
          /\ raw.slugs = stored
          /\ copy' = [copy EXCEPT ![e] = tagsFromRaw(raw)]
          /\ blind' = [blind EXCEPT ![e] = raw.shape # "objects"]
    BY <1>1 DEF Read
  <2>2. tagsFromRaw(raw) \in SUBSET Tags
        /\ (raw.shape = "objects" => tagsFromRaw(raw) = stored)
    BY <2>1 DEF tagsFromRaw, Raws, TagsInv
  <2>3. /\ tagsPc' \in [Editors -> {"read", "write", "done"}]
        /\ copy' \in [Editors -> SUBSET Tags]
        /\ blind' \in [Editors -> BOOLEAN]
        /\ stale' \in [Editors -> BOOLEAN]
        /\ stored' \in SUBSET Tags
    BY <1>1, <2>1, <2>2 DEF Read, TagsInv
  <2>4. CopiesAreTrue'
    BY <1>1, <2>1, <2>2 DEF Read, TagsInv, CopiesAreTrue
  <2>5. QED
    BY <2>3, <2>4 DEF TagsInv
<1>2. ASSUME NEW e \in Editors, Write(e)
      PROVE  TagsInv'
  <2>1. Edited(e).slugs \in SUBSET Tags
    BY TagsAssumption DEF Edited, tagsToRaw, TagsInv
  <2>2. /\ tagsPc' \in [Editors -> {"read", "write", "done"}]
        /\ copy' \in [Editors -> SUBSET Tags]
        /\ blind' \in [Editors -> BOOLEAN]
        /\ stale' \in [Editors -> BOOLEAN]
        /\ stored' \in SUBSET Tags
    BY <1>2, <2>1 DEF Write, TagsInv
  <2>3. CopiesAreTrue'
    BY <1>2 DEF Write, TagsInv, CopiesAreTrue
  <2>4. QED
    BY <2>2, <2>3 DEF TagsInv
<1>3. ASSUME NEW e \in Editors, EditFails(e)
      PROVE  TagsInv'
  BY <1>3 DEF EditFails, TagsInv, CopiesAreTrue
<1>4. CASE UNCHANGED tagVars
  BY <1>4 DEF tagVars, TagsInv, CopiesAreTrue
<1>5. QED
  BY <1>1, <1>2, <1>3, <1>4 DEF TagsNext

\* An editor who has read the list, and whom nobody has overtaken, holds it.
THEOREM EditorsHoldTheList == TagsSpec => []CopiesAreTrue
<1>1. TagsInv => CopiesAreTrue
  BY DEF TagsInv
<1>2. QED
  BY <1>1, TagsInitInv, TagsNextInv, PTL DEF TagsSpec

\* Tags are lost only through an unreadable list or an overtaken editor.
THEOREM LossesAreBlind == TagsSpec => TagsAreErasedBlindly
<1> DEFINE Blindly == \A t \in stored \ stored' :
                         \E e \in Editors :
                            /\ tagsPc[e] = "write" /\ tagsPc'[e] # "write"
                            /\ blind[e] \/ stale[e]
<1>1. TagsInv /\ [TagsNext]_tagVars => [Blindly]_tagVars
  <2> SUFFICES ASSUME TagsInv, [TagsNext]_tagVars
               PROVE  [Blindly]_tagVars
    OBVIOUS
  <2>1. ASSUME NEW e \in Editors, Write(e)
        PROVE  Blindly
    <3>1. stored' = copy[e] \cup {Adds[e]} /\ tagsPc[e] = "write"
      BY <2>1 DEF Write, Edited, tagsToRaw
    <3>2. tagsPc'[e] # "write"
      BY <2>1 DEF Write, TagsInv
    <3>3. CASE blind[e] \/ stale[e]
      BY <3>1, <3>2, <3>3
    <3>4. CASE ~(blind[e] \/ stale[e])
      BY <3>1, <3>4 DEF TagsInv, CopiesAreTrue
    <3>5. QED
      BY <3>3, <3>4
  <2>2. ASSUME NEW e \in Editors, Read(e) \/ EditFails(e)
        PROVE  Blindly
    BY <2>2 DEF Read, EditFails
  <2>3. QED
    BY <2>1, <2>2 DEF TagsNext
<1>2. QED
  BY <1>1, TagsInitInv, TagsNextInv, PTL DEF TagsSpec, TagsAreErasedBlindly

-----------------------------------------------------------------------------
(* MergeTask.                                                              *)

\* A problem body names the status of its status line, or none.
ASSUME ConsistentMergeAnswers ==
    \A r \in StartAnswers \cup StatusAnswers : r.body.status \in {0, r.status}

Progress == {AsyncTaskSuccessful, AsyncTaskInProgress, AsyncTaskFailed}

\* What a status call says now is true for good.
Holds(t, says) ==
    /\ says \in {AsyncTaskSuccessful, AsyncTaskFailed} => task[t] = says
    /\ says = "not-found" => t \in expired
    /\ says = AsyncTaskInProgress => task[t] # "none"

\* A start that is answered with a 4xx has started nothing.
StartAnswered ==
    call.stage = "answered" /\ call.of = "start" =>
        /\ call.reply \in StartAnswers
        /\ call.id \in Tasks => call.reply.status \notin 400 .. 499

\* The answer to a status call may be old, but it is true.
StatusAnswered ==
    call.stage = "answered" /\ call.of = "status" =>
        /\ call.reply \in StatusAnswers
        /\ call.reply.status = 404 => call.id \in expired
        /\ call.says \in Progress \cup {"", "none"}
        /\ Holds(call.id, call.says)

\* The inductive invariant.
MergeInv ==
    /\ task \in [Tasks -> Progress \cup {"none"}]
    /\ verdict = [t \in Tasks |-> verdict[t]]
    /\ watching \in Tasks \cup {NoID}
    /\ call.of = "status" => call.id \in Tasks
    /\ StartAnswered /\ StatusAnswered
    /\ MergesAreAccountedFor
    /\ \A t \in Tasks : Holds(t, verdict[t])

\* No task has the number of the empty ID.
LEMMA NoTaskIsNoID == NoID \notin Tasks
BY MergeTasksAssumption DEF Tasks, NoID

\* Nothing is known at first.
LEMMA MergeInitInv == MergeInit => MergeInv
<1> SUFFICES ASSUME MergeInit PROVE MergeInv
  OBVIOUS
<1>1. call.stage = "none" /\ call.of = "none"
  BY DEF MergeInit, Nothing
<1>2. MergesAreAccountedFor
  BY DEF MergeInit, MergesAreAccountedFor
<1>3. \A t \in Tasks : Holds(t, verdict[t])
  BY DEF MergeInit, Holds, AsyncTaskSuccessful, AsyncTaskInProgress,
         AsyncTaskFailed
<1>4. QED
  BY <1>1, <1>2, <1>3 DEF MergeInit, MergeInv, StartAnswered, StatusAnswered

-----------------------------------------------------------------------------
(* The steps of the server.                                                *)

\* A start that the server takes up is accounted for by its answer.
LEMMA ServeStartInv == MergeInv /\ ServeStart => MergeInv'
<1> SUFFICES ASSUME MergeInv, ServeStart PROVE MergeInv'
  OBVIOUS
<1>1. PICK r \in StartAnswers, runs \in BOOLEAN :
        /\ r.status \in 400 .. 499 => ~runs
        /\ IF runs
           THEN \E t \in Tasks :
                  /\ \A u \in Tasks : task[u] = "none" <=> u >= t
                  /\ task' = [task EXCEPT ![t] = AsyncTaskInProgress]
                  /\ \E says \in {NoID, t} :
                       call' = Replied("start", t, r, says)
           ELSE /\ call' = Replied("start", NoID, r, NoID)
                /\ UNCHANGED task
  BY DEF ServeStart
<1>2. /\ call.stage = "sent" /\ call.of = "start"
      /\ UNCHANGED <<expired, told, watching, watches, verdict>>
  BY DEF ServeStart
<1>3. ASSUME NEW t \in Tasks, task[t] # "none"
      PROVE  told[t] \in {"id", "doubt"}
  BY <1>2, <1>3 DEF MergeInv, MergesAreAccountedFor
<1>4. CASE ~runs
  <2>1. call' = Replied("start", NoID, r, NoID) /\ UNCHANGED task
    BY <1>1, <1>4
  <2>2. /\ call'.stage = "answered" /\ call'.of = "start"
        /\ call'.id = NoID /\ call'.reply = r
    BY <2>1 DEF Replied
  <2>3. StartAnswered' /\ StatusAnswered'
    BY <2>2, NoTaskIsNoID DEF StartAnswered, StatusAnswered
  <2>4. MergesAreAccountedFor'
    BY <1>2, <1>3, <2>1 DEF MergesAreAccountedFor
  <2>5. \A t \in Tasks : Holds(t, verdict[t])'
    BY <1>2, <2>1 DEF MergeInv, Holds
  <2> QED
    BY <1>2, <2>1, <2>2, <2>3, <2>4, <2>5 DEF MergeInv
<1>5. CASE runs
  <2>1. PICK t \in Tasks :
          /\ task[t] = "none" <=> t >= t
          /\ task' = [task EXCEPT ![t] = AsyncTaskInProgress]
          /\ \E says \in {NoID, t} : call' = Replied("start", t, r, says)
    BY <1>1, <1>5
  <2>2. /\ call'.stage = "answered" /\ call'.of = "start"
        /\ call'.id = t /\ call'.reply = r
    BY <2>1 DEF Replied
  <2>3. task[t] = "none"
    <3>1. t \in Int
      BY MergeTasksAssumption DEF Tasks
    <3>2. t >= t
      BY <3>1
    <3> QED
      BY <2>1, <3>2
  <2>4. StartAnswered' /\ StatusAnswered'
    BY <1>1, <1>5, <2>2 DEF StartAnswered, StatusAnswered
  <2>5. /\ task' \in [Tasks -> Progress \cup {"none"}]
        /\ task'[t] = AsyncTaskInProgress
        /\ \A u \in Tasks : u # t => task'[u] = task[u]
    BY <2>1 DEF MergeInv, Progress
  <2>6. MergesAreAccountedFor'
    BY <1>2, <1>3, <2>2, <2>5 DEF MergesAreAccountedFor
  <2>7. \A u \in Tasks : Holds(u, verdict[u])'
    BY <1>2, <2>3, <2>5
    DEF MergeInv, Holds, AsyncTaskSuccessful, AsyncTaskInProgress,
        AsyncTaskFailed
  <2> QED
    BY <1>2, <2>2, <2>4, <2>5, <2>6, <2>7 DEF MergeInv
<1> QED
  BY <1>4, <1>5

\* The server tells of a task what is true when it reads the request.
LEMMA ServeStatusInv == MergeInv /\ ServeStatus => MergeInv'
<1> SUFFICES ASSUME MergeInv, ServeStatus PROVE MergeInv'
  OBVIOUS
<1> DEFINE known == call.id # NoID /\ call.id \notin expired
<1>1. /\ call.stage = "sent" /\ call.of = "status" /\ call.id \in Tasks
      /\ UNCHANGED <<task, expired, told, watching, watches, verdict>>
  BY DEF ServeStatus, MergeInv
<1>2. PICK r \in StatusAnswers :
        /\ r.status = 404 => ~known
        /\ \E says \in (IF known THEN {"", task[call.id]} ELSE {""}) :
             call' = Replied("status", call.id, r, says)
  BY DEF ServeStatus
<1>3. PICK says \in {"", task[call.id]} :
        call' = Replied("status", call.id, r, says)
  BY <1>2
<1>4. /\ call'.stage = "answered" /\ call'.of = "status"
      /\ call'.id = call.id /\ call'.reply = r /\ call'.says = says
  BY <1>3 DEF Replied
<1>5. r.status = 404 => call.id \in expired
  BY <1>1, <1>2, NoTaskIsNoID
<1>6. task[call.id] \in Progress \cup {"none"}
  BY <1>1 DEF MergeInv
<1>7. says \in Progress \cup {"", "none"} /\ Holds(call.id, says)
  BY <1>3, <1>6
  DEF Holds, Progress, AsyncTaskSuccessful, AsyncTaskInProgress,
      AsyncTaskFailed
<1>8. StartAnswered' /\ StatusAnswered'
  BY <1>1, <1>4, <1>5, <1>7 DEF StartAnswered, StatusAnswered, Holds
<1>9. MergesAreAccountedFor'
  BY <1>1 DEF MergeInv, MergesAreAccountedFor
<1>10. \A t \in Tasks : Holds(t, verdict[t])'
  BY <1>1 DEF MergeInv, Holds
<1> QED
  BY <1>1, <1>4, <1>8, <1>9, <1>10 DEF MergeInv

\* A task that ends was in progress: nothing final was said of it.
LEMMA FinishInv ==
    ASSUME NEW t \in Tasks, MergeInv, Finish(t)
    PROVE  MergeInv'
<1>1. PICK s \in {AsyncTaskSuccessful, AsyncTaskFailed} :
        task' = [task EXCEPT ![t] = s]
  BY DEF Finish
<1>2. /\ task[t] = AsyncTaskInProgress
      /\ UNCHANGED <<expired, call, told, watching, watches, verdict>>
  BY DEF Finish
<1>3. /\ task' \in [Tasks -> Progress \cup {"none"}]
      /\ task'[t] = s /\ \A u \in Tasks : u # t => task'[u] = task[u]
  BY <1>1 DEF MergeInv, Progress
<1>4. ASSUME NEW u \in Tasks, NEW says, Holds(u, says)
      PROVE  /\ says \in {AsyncTaskSuccessful, AsyncTaskFailed}
                  => task'[u] = says
             /\ says = "not-found" => u \in expired'
             /\ says = AsyncTaskInProgress => task'[u] # "none"
  BY <1>2, <1>3, <1>4
  DEF Holds, AsyncTaskSuccessful, AsyncTaskInProgress, AsyncTaskFailed
<1>5. StartAnswered' /\ StatusAnswered'
  <2>1. StartAnswered'
    BY <1>2 DEF MergeInv, StartAnswered
  <2>2. SUFFICES ASSUME call.stage = "answered", call.of = "status"
                 PROVE  StatusAnswered'
    BY <1>2, <2>1 DEF StatusAnswered
  <2>3. /\ call.id \in Tasks /\ call.reply \in StatusAnswers
        /\ call.reply.status = 404 => call.id \in expired
        /\ call.says \in Progress \cup {"", "none"}
        /\ Holds(call.id, call.says)
    BY <2>2 DEF MergeInv, StatusAnswered
  <2>4. /\ call.says \in {AsyncTaskSuccessful, AsyncTaskFailed}
             => task'[call.id] = call.says
        /\ call.says = "not-found" => call.id \in expired'
        /\ call.says = AsyncTaskInProgress => task'[call.id] # "none"
    BY <1>4, <2>3
  <2> QED
    BY <1>2, <2>3, <2>4 DEF StatusAnswered, Holds
<1>6. MergesAreAccountedFor'
  BY <1>2, <1>3
  DEF MergeInv, MergesAreAccountedFor, AsyncTaskInProgress
<1>7. \A u \in Tasks : Holds(u, verdict[u])'
  BY <1>2, <1>4 DEF MergeInv, Holds
<1> QED
  BY <1>2, <1>3, <1>5, <1>6, <1>7 DEF MergeInv

\* A task that expires has ended.
LEMMA ExpireInv ==
    ASSUME NEW t \in Tasks, MergeInv, Expire(t)
    PROVE  MergeInv'
<1>1. /\ UNCHANGED <<task, call, told, watching, watches, verdict>>
      /\ expired \subseteq expired'
  BY DEF Expire
<1>2. StartAnswered' /\ StatusAnswered'
  BY <1>1 DEF MergeInv, StartAnswered, StatusAnswered, Holds
<1>3. MergesAreAccountedFor'
  BY <1>1 DEF MergeInv, MergesAreAccountedFor
<1>4. \A u \in Tasks : Holds(u, verdict[u])'
  BY <1>1 DEF MergeInv, Holds
<1> QED
  BY <1>1, <1>2, <1>3, <1>4 DEF MergeInv

-----------------------------------------------------------------------------
(* The steps of the caller.                                                *)

\* A step that sends a request, or only moves the caller, keeps what holds.
LEMMA CallerMovesInv ==
    ASSUME MergeInv, UNCHANGED <<task, expired, told, verdict>>,
           watching' \in Tasks \cup {NoID}, call.stage = "none",
           \/ call' = call
           \/ call' = InFlight("start", NoID)
           \/ call' = InFlight("status", watching) /\ watching \in Tasks
    PROVE  MergeInv'
<1>1. /\ call'.stage \in {"none", "sent"}
      /\ call'.of = "status" => call'.id \in Tasks
  BY DEF InFlight, MergeInv
<1>2. StartAnswered' /\ StatusAnswered'
  BY <1>1 DEF StartAnswered, StatusAnswered
<1>3. MergesAreAccountedFor'
  BY DEF MergeInv, MergesAreAccountedFor
<1>4. \A t \in Tasks : Holds(t, verdict[t])'
  BY DEF MergeInv, Holds
<1> QED
  BY <1>1, <1>2, <1>3, <1>4 DEF MergeInv

\* A start returns: what it has started is not taken for refused.
LEMMA StartReturnsInv == MergeInv /\ StartReturns => MergeInv'
<1> SUFFICES ASSUME MergeInv, StartReturns PROVE MergeInv'
  OBVIOUS
<1> DEFINE out == Outcome(StartOp, call.reply)
           now == CASE MergeTaskID(call.reply, call.says) # NoID -> "id"
                    [] out.kind = "api" /\ out.status \in 400 .. 499
                         -> "refused"
                    [] OTHER -> "doubt"
<1>1. /\ call.stage = "answered" /\ call.of = "start"
      /\ told' = [t \in Tasks |-> IF t = call.id THEN now ELSE told[t]]
      /\ call' = Nothing
      /\ UNCHANGED <<task, expired, watching, watches, verdict>>
  BY DEF StartReturns
<1>2. /\ call.reply \in StartAnswers
      /\ call.id \in Tasks => call.reply.status \notin 400 .. 499
  BY <1>1 DEF MergeInv, StartAnswered
<1>3. ASSUME call.id \in Tasks
      PROVE  ~ (out.kind = "api" /\ out.status \in 400 .. 499)
  <2>1. out.kind = "api" => out.status \in {0, call.reply.status}
    BY <1>2, ConsistentMergeAnswers, OutcomeOfReply
  <2>2. 0 \notin 400 .. 499
    OBVIOUS
  <2> HIDE DEF out
  <2> QED
    BY <1>2, <1>3, <2>1, <2>2
<1>4. call.id \in Tasks => now \in {"id", "doubt"}
  <2> DEFINE named == MergeTaskID(call.reply, call.says) # NoID
             refused == out.kind = "api" /\ out.status \in 400 .. 499
  <2>1. now = CASE named -> "id" [] refused -> "refused"
                [] OTHER -> "doubt"
    OBVIOUS
  <2> HIDE DEF named, refused, now
  <2>2. CASE call.id \in Tasks
    <3>1. ~refused
      BY <1>3, <2>2 DEF refused
    <3>2. CASE named
      BY <2>1, <3>1, <3>2
    <3>3. CASE ~named
      BY <2>1, <3>1, <3>3
    <3> QED
      BY <3>2, <3>3
  <2> QED
    BY <2>2
<1> HIDE DEF now
<1>5. call'.stage = "none" /\ call'.of = "none"
  BY <1>1 DEF Nothing
<1>6. StartAnswered' /\ StatusAnswered'
  BY <1>5 DEF StartAnswered, StatusAnswered
<1>7. MergesAreAccountedFor'
  <2> SUFFICES ASSUME NEW t \in Tasks, task'[t] # "none"
               PROVE  told'[t] \in {"id", "doubt"}
    BY DEF MergesAreAccountedFor
  <2>1. told[t] \in {"id", "doubt"} \/ call.id = t
    BY <1>1 DEF MergeInv, MergesAreAccountedFor
  <2>2. told'[t] = IF t = call.id THEN now ELSE told[t]
    BY <1>1
  <2> QED
    BY <1>4, <2>1, <2>2
<1>8. \A t \in Tasks : Holds(t, verdict[t])'
  BY <1>1 DEF MergeInv, Holds
<1> QED
  BY <1>1, <1>5, <1>6, <1>7, <1>8 DEF MergeInv

\* A broken call leaves its merge in doubt, or the status unknown.
LEMMA MergeFailsInv == MergeInv /\ MergeFails => MergeInv'
<1> SUFFICES ASSUME MergeInv, MergeFails PROVE MergeInv'
  OBVIOUS
<1>1. /\ call' = Nothing /\ UNCHANGED <<task, expired, watches>>
      /\ call'.stage = "none" /\ call'.of = "none"
  BY DEF MergeFails, Nothing
<1>2. StartAnswered' /\ StatusAnswered'
  BY <1>1 DEF StartAnswered, StatusAnswered
<1>3. CASE call.of = "start"
  <2>1. /\ told' = [t \in Tasks |->
                      IF t = call.id THEN "doubt" ELSE told[t]]
        /\ UNCHANGED <<watching, verdict>>
    BY <1>3 DEF MergeFails
  <2>2. MergesAreAccountedFor'
    BY <1>1, <2>1 DEF MergeInv, MergesAreAccountedFor
  <2>3. \A t \in Tasks : Holds(t, verdict[t])'
    BY <1>1, <2>1 DEF MergeInv, Holds
  <2> QED
    BY <1>1, <1>2, <2>1, <2>2, <2>3 DEF MergeInv
<1>4. CASE call.of # "start"
  <2>1. /\ verdict' = [verdict EXCEPT ![call.id] = "error"]
        /\ watching' = NoID /\ UNCHANGED told
    BY <1>4 DEF MergeFails
  <2>2. MergesAreAccountedFor'
    BY <1>1, <1>4, <2>1 DEF MergeInv, MergesAreAccountedFor
  <2>3. /\ verdict' = [t \in Tasks |-> verdict'[t]]
        /\ \A t \in Tasks : verdict'[t] \in {"error", verdict[t]}
    BY <2>1 DEF MergeInv
  <2>4. \A t \in Tasks : Holds(t, verdict[t])'
    BY <1>1, <2>3
    DEF MergeInv, Holds, AsyncTaskSuccessful, AsyncTaskInProgress,
        AsyncTaskFailed
  <2> QED
    BY <1>1, <1>2, <2>1, <2>2, <2>3, <2>4 DEF MergeInv
<1> QED
  BY <1>3, <1>4

\* What MergeForkAsyncStatus makes of the answer is true of the task.
LEMMA VerdictHolds ==
    ASSUME MergeInv, call.stage = "answered", call.of = "status"
    PROVE  Holds(call.id, StatusVerdict(call.reply, call.says))
<1> DEFINE out == Outcome(StatusOp, call.reply)
           ok == out = Value
           gone == out.kind = "api" /\ out.status = 404
<1>1. /\ call.reply \in StatusAnswers /\ Holds(call.id, call.says)
      /\ call.reply.status = 404 => call.id \in expired
  BY DEF MergeInv, StatusAnswered
<1>2. gone => call.id \in expired
  <2>1. out.kind = "api" => out.status \in {0, call.reply.status}
    BY <1>1, ConsistentMergeAnswers, OutcomeOfReply
  <2> HIDE DEF out
  <2> QED
    BY <1>1, <2>1
<1>3. StatusVerdict(call.reply, call.says)
        = CASE ok -> call.says [] gone -> "not-found" [] OTHER -> "error"
  BY DEF StatusVerdict, StatusText
<1>4. ok => ~gone
  BY DEF Value
<1> HIDE DEF ok, gone
<1>5. CASE ok
  <2>1. StatusVerdict(call.reply, call.says) = call.says
    BY <1>3, <1>4, <1>5
  <2> QED
    BY <1>1, <2>1
<1>6. CASE ~ok /\ gone
  <2>1. StatusVerdict(call.reply, call.says) = "not-found"
    BY <1>3, <1>6
  <2> QED
    BY <1>2, <1>6, <2>1
    DEF Holds, AsyncTaskSuccessful, AsyncTaskInProgress, AsyncTaskFailed
<1>7. CASE ~ok /\ ~gone
  <2>1. StatusVerdict(call.reply, call.says) = "error"
    BY <1>3, <1>7
  <2> QED
    BY <2>1
    DEF Holds, AsyncTaskSuccessful, AsyncTaskInProgress, AsyncTaskFailed
<1> QED
  BY <1>5, <1>6, <1>7

\* A status call returns.
LEMMA PollReturnsInv == MergeInv /\ PollReturns => MergeInv'
<1> SUFFICES ASSUME MergeInv, PollReturns PROVE MergeInv'
  OBVIOUS
<1> DEFINE now == StatusVerdict(call.reply, call.says)
<1>1. /\ call.stage = "answered" /\ call.of = "status"
      /\ call.id \in Tasks
      /\ verdict' = [verdict EXCEPT ![call.id] = now]
      /\ watching' \in {watching, NoID} /\ call' = Nothing
      /\ UNCHANGED <<task, expired, told, watches>>
  BY DEF PollReturns, MergeInv
<1>2. Holds(call.id, now)
  BY <1>1, VerdictHolds
<1> HIDE DEF now
<1>3. call'.stage = "none" /\ call'.of = "none"
  BY <1>1 DEF Nothing
<1>4. StartAnswered' /\ StatusAnswered'
  BY <1>3 DEF StartAnswered, StatusAnswered
<1>5. MergesAreAccountedFor'
  BY <1>1 DEF MergeInv, MergesAreAccountedFor
<1>6. /\ verdict' = [t \in Tasks |-> verdict'[t]]
      /\ verdict'[call.id] = now
      /\ \A t \in Tasks : t # call.id => verdict'[t] = verdict[t]
  BY <1>1 DEF MergeInv
<1>7. \A t \in Tasks : Holds(t, verdict[t])'
  BY <1>1, <1>2, <1>6 DEF MergeInv, Holds
<1> QED
  BY <1>1, <1>3, <1>4, <1>5, <1>6, <1>7 DEF MergeInv

\* Every step keeps the invariant.
LEMMA MergeNextInv == MergeInv /\ [MergeNext]_taskVars => MergeInv'
<1> SUFFICES ASSUME MergeInv, [MergeNext]_taskVars PROVE MergeInv'
  OBVIOUS
<1>1. CASE MergeServer
  BY <1>1, ServeStartInv, ServeStatusInv, FinishInv, ExpireInv
  DEF MergeServer
<1>2. CASE StartReturns
  BY <1>2, StartReturnsInv
<1>3. CASE Poll
  <2>1. call.stage = "none" /\ watching \in Tasks
    BY <1>3 DEF Poll, Nothing, MergeInv
  <2> QED
    BY <1>3, <2>1, CallerMovesInv DEF Poll
<1>4. CASE PollReturns
  BY <1>4, PollReturnsInv
<1>5. CASE Start
  <2>1. call.stage = "none" /\ watching' \in Tasks \cup {NoID}
    BY <1>5 DEF Start, Nothing, MergeInv
  <2> QED
    BY <1>5, <2>1, CallerMovesInv DEF Start
<1>6. CASE MergeFails
  BY <1>6, MergeFailsInv
<1>7. CASE Watch
  <2>1. call.stage = "none" /\ watching' \in Tasks \cup {NoID}
    BY <1>7 DEF Watch, Nothing
  <2> QED
    BY <1>7, <2>1, CallerMovesInv DEF Watch
<1>8. CASE Rest \/ UNCHANGED taskVars
  <2>1. UNCHANGED taskVars
    BY <1>8 DEF Rest
  <2>2. UNCHANGED <<task, expired, call, told, watching, verdict>>
    BY <2>1 DEF taskVars
  <2>3. StartAnswered' /\ StatusAnswered' /\ MergesAreAccountedFor'
    BY <2>2
    DEF MergeInv, StartAnswered, StatusAnswered, Holds,
        MergesAreAccountedFor
  <2>4. \A t \in Tasks : Holds(t, verdict[t])'
    BY <2>2 DEF MergeInv, Holds
  <2> QED
    BY <2>2, <2>3, <2>4 DEF MergeInv
<1> QED
  BY <1>1, <1>2, <1>3, <1>4, <1>5, <1>6, <1>7, <1>8
  DEF MergeNext, MergeCaller

\* The invariant holds throughout.
THEOREM MergeInvariance == MergeSpec => []MergeInv
BY MergeInitInv, MergeNextInv, PTL DEF MergeSpec

\* For any number of merges: no merge runs behind the caller's back, as long
\* as the answers of the server do not contradict themselves.
THEOREM NoMergeIsHidden == MergeSpec => []MergesAreAccountedFor
<1>1. MergeInv => MergesAreAccountedFor
  BY DEF MergeInv
<1> QED
  BY <1>1, MergeInvariance, PTL

\* For any number of merges: what the caller was told of a task stays true,
\* however long the answer was under way.
THEOREM VerdictsHold == MergeSpec => []VerdictsStayTrue
<1>1. MergeInv => VerdictsStayTrue
  BY DEF MergeInv, Holds, VerdictsStayTrue
<1> QED
  BY <1>1, MergeInvariance, PTL

-----------------------------------------------------------------------------
(* Pagination.                                                             *)

\* How many members of a set of numbers are not above one of them.
RankIn(S, s) == Cardinality({t \in S : t <= s})

\* The ranks of a finite set of numbers grow with its members, within 1 .. n.
LEMMA RanksGrow ==
    ASSUME NEW S \in SUBSET Nat, IsFiniteSet(S)
    PROVE  /\ Cardinality(S) \in Nat
           /\ \A s \in S : RankIn(S, s) \in 1 .. Cardinality(S)
           /\ \A s, t \in S : s < t => RankIn(S, s) < RankIn(S, t)
<1> DEFINE B(s) == {t \in S : t <= s}
<1>1. Cardinality(S) \in Nat
  BY FS_CardinalityType
<1>2. ASSUME NEW s \in S
      PROVE  IsFiniteSet(B(s)) /\ Cardinality(B(s)) \in 1 .. Cardinality(S)
  <2>1. B(s) \in SUBSET S /\ s \in B(s)
    OBVIOUS
  <2> HIDE DEF B
  <2>2. IsFiniteSet(B(s)) /\ Cardinality(B(s)) <= Cardinality(S)
    BY <2>1, FS_Subset
  <2>3. Cardinality(B(s)) \in Nat /\ Cardinality(B(s)) # 0
    BY <2>1, <2>2, FS_CardinalityType, FS_EmptySet
  <2>4. QED
    BY <1>1, <2>2, <2>3
<1>3. ASSUME NEW s \in S, NEW t \in S, s < t
      PROVE  Cardinality(B(s)) < Cardinality(B(t))
  <2>1. s \in Nat /\ t \in Nat
    OBVIOUS
  <2>2. ASSUME NEW u \in B(s)
        PROVE  u \in B(t)
    <3>1. u \in S /\ u \in Nat /\ u <= s
      OBVIOUS
    <3>2. u <= t
      BY <1>3, <2>1, <3>1
    <3>3. QED
      BY <3>1, <3>2
  <2>3. t <= t /\ ~(t <= s)
    BY <1>3, <2>1
  <2>4. B(s) \in SUBSET B(t) /\ t \in B(t) /\ t \notin B(s)
    BY <2>2, <2>3
  <2>5. /\ IsFiniteSet(B(t))
        /\ Cardinality(B(s)) \in Nat /\ Cardinality(B(t)) \in Nat
    <3> HIDE DEF B
    <3>1. /\ IsFiniteSet(B(t)) /\ Cardinality(B(s)) \in 1 .. Cardinality(S)
          /\ Cardinality(B(t)) \in 1 .. Cardinality(S)
      BY <1>2
    <3>2. QED
      BY <1>1, <3>1
  <2> HIDE DEF B
  <2>6. /\ Cardinality(B(s)) <= Cardinality(B(t))
        /\ Cardinality(B(t)) # Cardinality(B(s))
    BY <2>4, <2>5, FS_Subset
  <2>7. QED
    BY <2>5, <2>6
<1>4. QED
  BY <1>1, <1>2, <1>3 DEF RankIn

\* A finite set of numbers is listed in order, each member once.
LEMMA InOrderLists ==
    ASSUME NEW S \in SUBSET Nat, IsFiniteSet(S)
    PROVE  /\ InOrder(S) \in [1 .. Cardinality(S) -> S]
           /\ \A i, j \in 1 .. Cardinality(S) :
                 i < j => InOrder(S)[i] < InOrder(S)[j]
           /\ \A s \in S : \E i \in 1 .. Cardinality(S) : InOrder(S)[i] = s
<1> DEFINE n == Cardinality(S)
           rank == [s \in S |-> RankIn(S, s)]
           At(k) == CHOOSE s \in S : rank[s] = k
           q == [k \in 1 .. n |-> At(k)]
<1>1. /\ n \in Nat /\ rank \in [S -> 1 .. n]
      /\ \A s, t \in S : s < t => rank[s] < rank[t]
  BY RanksGrow
<1>2. \A s, t \in S : rank[s] = rank[t] => s = t
  <2>1. SUFFICES ASSUME NEW s \in S, NEW t \in S, rank[s] = rank[t], s # t
                 PROVE  FALSE
    OBVIOUS
  <2>2. s < t \/ t < s
    BY <2>1
  <2>3. rank[s] \in Nat /\ rank[t] \in Nat
    BY <1>1
  <2> HIDE DEF rank
  <2>4. QED
    BY <1>1, <2>1, <2>2, <2>3
<1>3. rank \in Surjection(S, 1 .. n)
  <2>1. rank \in Injection(S, 1 .. n)
    BY <1>1, <1>2 DEF Injection, IsInjective
  <2>2. IsFiniteSet(1 .. n) /\ Cardinality(1 .. n) = n
    BY <1>1, FS_Interval
  <2> HIDE DEF rank
  <2>3. QED
    BY <2>1, <2>2, FS_Injection
<1> HIDE DEF rank, n
<1>4. \A k \in 1 .. n : At(k) \in S /\ rank[At(k)] = k
  <2>1. \A k \in 1 .. n : \E s \in S : rank[s] = k
    BY <1>3 DEF Surjection
  <2>2. QED
    BY <2>1
<1>5. ASSUME NEW i \in 1 .. n, NEW j \in 1 .. n, i < j
      PROVE  At(i) < At(j)
  <2>1. At(i) \in S /\ At(j) \in S /\ rank[At(i)] = i /\ rank[At(j)] = j
    BY <1>4
  <2> HIDE DEF At
  <2>2. i # j /\ i \in Nat /\ j \in Nat /\ ~(j < i)
    BY <1>1, <1>5
  <2>3. At(i) \in Nat /\ At(j) \in Nat
    BY <2>1
  <2>4. /\ At(i) \in Nat /\ At(j) \in Nat /\ At(i) # At(j)
        /\ i \in Nat /\ j \in Nat
    BY <2>1, <2>2, <2>3
  <2>5. ~(At(j) < At(i))
    BY <1>1, <2>1, <2>4, <2>2
  <2>6. QED
    BY <2>4, <2>5
<1>6. /\ q \in [1 .. n -> S]
      /\ \A i, j \in DOMAIN q : i < j => q[i] < q[j]
  BY <1>4, <1>5
<1>7. /\ InOrder(S) \in [1 .. n -> S]
      /\ \A i, j \in DOMAIN InOrder(S) : i < j => InOrder(S)[i] < InOrder(S)[j]
  <2> HIDE DEF q
  <2> QED
    BY <1>6 DEF InOrder, n
<1> DEFINE o == InOrder(S)
<1>8. o \in Surjection(1 .. n, S)
  <2> HIDE DEF o
  <2>1. o \in [1 .. n -> S]
    BY <1>7 DEF o
  <2>2. ASSUME NEW i \in 1 .. n, NEW j \in 1 .. n, o[i] = o[j], i # j
        PROVE  FALSE
    <3>1. i < j \/ j < i
      BY <1>1, <2>2
    <3>2. o[i] \in Nat /\ o[j] \in Nat /\ (o[i] < o[j] \/ o[j] < o[i])
      BY <1>7, <2>1, <3>1 DEF o
    <3>3. QED
      BY <2>2, <3>2
  <2>3. o \in Injection(1 .. n, S)
    BY <2>1, <2>2 DEF Injection, IsInjective
  <2>4. IsFiniteSet(1 .. n) /\ Cardinality(1 .. n) = n
    BY <1>1, FS_Interval
  <2>5. Cardinality(1 .. n) = Cardinality(S)
    BY <2>4 DEF n
  <2>6. QED
    BY <2>3, <2>5, FS_Injection
<1>9. \A s \in S : \E i \in 1 .. n : o[i] = s
  BY <1>8 DEF Surjection
<1>10. QED
  BY <1>7, <1>9 DEF n

\* The first and the last of a finite set of numbers that has members.
LEMMA EndsOfList ==
    ASSUME NEW S \in SUBSET Nat, IsFiniteSet(S), S # {}
    PROVE  /\ \E s \in S : \A t \in S : s <= t
           /\ Last(S) \in S
           /\ \A t \in S : t <= Last(S)
<1> DEFINE n == Cardinality(S)
           o == InOrder(S)
<1>1. /\ o \in [1 .. n -> S]
      /\ \A i, j \in 1 .. n : i < j => o[i] < o[j]
      /\ \A s \in S : \E i \in 1 .. n : o[i] = s
  BY InOrderLists
<1>2. n \in Nat
  BY FS_CardinalityType
<1> HIDE DEF n, o
<1>3. 1 \in 1 .. n /\ n \in 1 .. n
  <2>1. PICK i \in 1 .. n : TRUE
    BY <1>1
  <2>2. n >= 1
    BY <1>2, <2>1
  <2>3. QED
    BY <1>2, <2>2
<1>4. ASSUME NEW t \in S
      PROVE  o[1] <= t /\ t <= o[n]
  <2>1. PICK i \in 1 .. n : o[i] = t
    BY <1>1
  <2>2. o[1] \in Nat /\ o[n] \in Nat /\ t \in Nat
    BY <1>1, <1>3
  <2>3. (i = 1 \/ 1 < i) /\ (i = n \/ i < n)
    BY <1>2
  <2>4. (i = 1 \/ o[1] < o[i]) /\ (i = n \/ o[i] < o[n])
    BY <1>1, <1>3, <2>3
  <2>5. QED
    BY <2>1, <2>2, <2>4
<1>5. o[1] \in S /\ o[n] \in S
  BY <1>1, <1>3
<1>6. \E s \in S : \A t \in S : t <= s
  BY <1>4, <1>5
<1>7. QED
  BY <1>4, <1>5, <1>6 DEF Last

\* The first members of a finite set have no other before them, and there are
\* some unless the set is empty.
LEMMA FirstOfIsPrefix ==
    ASSUME NEW S \in SUBSET Nat, IsFiniteSet(S), NEW n \in Nat \ {0}
    PROVE  /\ FirstOf(n, S) \subseteq S
           /\ \A s \in FirstOf(n, S) : \A t \in S :
                 t < s => t \in FirstOf(n, S)
           /\ S # {} => FirstOf(n, S) # {}
<1> DEFINE Before(s) == {t \in S : t < s}
<1>1. \A s : Before(s) \in SUBSET S
  OBVIOUS
<1>2. \A s \in S : \A t \in S : t < s => Before(t) \in SUBSET Before(s)
  <2>1. SUFFICES ASSUME NEW s \in S, NEW t \in S, t < s, NEW u \in Before(t)
                 PROVE  u \in Before(s)
    OBVIOUS
  <2>2. s \in Nat /\ t \in Nat /\ u \in S /\ u \in Nat /\ u < t
    BY <2>1
  <2>3. u < s
    BY <2>1, <2>2
  <2>4. QED
    BY <2>2, <2>3
<1>3. ASSUME NEW s \in S, \A t \in S : s <= t
      PROVE  Before(s) = {}
  <2>1. ASSUME NEW t \in S, t < s
        PROVE  FALSE
    <3>1. s \in Nat /\ t \in Nat /\ s <= t
      BY <1>3
    <3>2. QED
      BY <2>1, <3>1
  <2>2. QED
    BY <2>1
<1>4. FirstOf(n, S) = {s \in S : Cardinality(Before(s)) < n}
  BY DEF FirstOf
<1> HIDE DEF Before
<1>5. ASSUME NEW s \in FirstOf(n, S), NEW t \in S, t < s
      PROVE  t \in FirstOf(n, S)
  <2>1. s \in S /\ Cardinality(Before(s)) < n
    BY <1>4, <1>5
  <2>2. IsFiniteSet(Before(s)) /\ IsFiniteSet(Before(t))
    BY <1>1, FS_Subset
  <2>3. Before(t) \in SUBSET Before(s)
    BY <1>2, <1>5, <2>1
  <2>4. Cardinality(Before(t)) <= Cardinality(Before(s))
    BY <2>2, <2>3, FS_Subset
  <2>5. Cardinality(Before(t)) \in Nat /\ Cardinality(Before(s)) \in Nat
    BY <2>2, FS_CardinalityType
  <2>6. Cardinality(Before(t)) < n
    BY <2>1, <2>4, <2>5
  <2>7. QED
    BY <1>4, <2>6
<1>6. ASSUME S # {}
      PROVE  FirstOf(n, S) # {}
  <2>1. PICK s \in S : \A t \in S : s <= t
    BY <1>6, EndsOfList
  <2>2. Cardinality(Before(s)) = 0
    BY <1>3, <2>1, FS_EmptySet
  <2>3. QED
    BY <1>4, <2>2
<1>7. QED
  BY <1>4, <1>5, <1>6

\* The caller holds the secrets up to its cursor that matched all the time,
\* and none behind it; once the loop has ended, it holds all of them, unless a
\* page without meta ended it.  No secret has come twice.
PageInv ==
    /\ found \in Nat /\ limit \in Int /\ cursor \in Nat
    /\ pagePc \in {"query", "done", "error"}
    /\ listed \in Seq(Nat)
    /\ \A i, j \in DOMAIN listed : listed[i] = listed[j] => i = j
    /\ pagePc = "query" =>
         /\ stable \subseteq Matching
         /\ \A i \in DOMAIN listed : listed[i] <= cursor
         /\ \A s \in stable : s <= cursor => s \in Handed
    /\ pagePc = "done" /\ ~truncated => stable \subseteq Handed

\* A page holds matching secrets behind the cursor, and leaves out none that
\* comes before one of its own; it is empty only if there are none.
LEMMA PageIsBehindTheCursor ==
    ASSUME PageInv, PageIsAccepted(pageLimit(limit))
    PROVE  LET behind == {s \in Matching : s > cursor}
           IN  /\ Behind(CursorSent(cursor)) = behind
               /\ Page \in SUBSET behind
               /\ Page \in SUBSET Nat
               /\ IsFiniteSet(Page)
               /\ \A s \in Page : \A t \in behind : t < s => t \in Page
               /\ behind # {} => Page # {}
<1> DEFINE behind == {s \in Matching : s > cursor}
<1>1. /\ found \in Nat /\ cursor \in Nat
      /\ pageLimit(limit) \in Nat \ {0}
  <2>1. pageLimit(limit) \in 1 .. 100
    BY DEF PageIsAccepted, maxPageLimit
  <2>2. \A n \in 1 .. 100 : n \in Nat \ {0}
    OBVIOUS
  <2>3. pageLimit(limit) \in Nat \ {0}
    BY ONLY <2>1, <2>2
  <2>4. found \in Nat /\ cursor \in Nat
    BY DEF PageInv
  <2>5. QED
    BY <2>3, <2>4
<1>2. Matching \in SUBSET (1 .. found)
  BY DEF Matching
<1>3. Behind(CursorSent(cursor)) = behind
  <2>1. ASSUME NEW s \in Matching
        PROVE  (\A c \in CursorSent(cursor) : s > c) <=> s > cursor
    <3>1. s \in Nat /\ s > 0
      BY <1>1, <1>2
    <3>2. CASE cursor = NoCursor
      BY <3>1, <3>2 DEF CursorSent, NoCursor
    <3>3. CASE cursor # NoCursor
      BY <3>3 DEF CursorSent
    <3>4. QED
      BY <3>2, <3>3
  <2>2. QED
    BY <2>1 DEF Behind
<1>4. behind \in SUBSET (1 .. found) /\ behind \in SUBSET Nat
  <2>1. \A k \in 1 .. found : k \in Nat
    BY <1>1
  <2>2. behind \in SUBSET Matching
    OBVIOUS
  <2>3. QED
    BY <1>2, <2>1, <2>2
<1>5. IsFiniteSet(behind)
  <2>1. IsFiniteSet(1 .. found)
    BY <1>1, FS_Interval
  <2> HIDE DEF behind
  <2>2. QED
    BY <1>4, <2>1, FS_Subset
<1> HIDE DEF behind
<1>6. Page = FirstOf(pageLimit(limit), behind)
  BY <1>3 DEF Page
<1>7. /\ Page \in SUBSET behind
      /\ \A s \in Page : \A t \in behind : t < s => t \in Page
      /\ behind # {} => Page # {}
  <2> HIDE DEF Page
  <2>1. QED
    BY <1>1, <1>4, <1>5, <1>6, FirstOfIsPrefix
<1>8. IsFiniteSet(Page) /\ Page \in SUBSET Nat
  BY <1>4, <1>5, <1>7, FS_Subset
<1>9. QED
  BY <1>3, <1>7, <1>8 DEF behind

\* A page is appended without repetition, and the caller holds everything it
\* held and the members of the page.
LEMMA PageIsAppended ==
    ASSUME PageInv, NEW S \in SUBSET Nat, IsFiniteSet(S),
           \A i \in DOMAIN listed : \A s \in S : listed[i] < s
    PROVE  LET l == listed \o InOrder(S)
           IN  /\ l \in Seq(Nat)
               /\ \A i, j \in DOMAIN l : l[i] = l[j] => i = j
               /\ {l[i] : i \in DOMAIN l} = Handed \cup S
<1> DEFINE l == listed \o InOrder(S)
           n == Cardinality(S)
           o == InOrder(S)
           m == Len(listed)
<1>1. /\ o \in [1 .. n -> S]
      /\ \A i, j \in 1 .. n : i < j => o[i] < o[j]
      /\ \A s \in S : \E i \in 1 .. n : o[i] = s
  BY InOrderLists
<1>2. n \in Nat
  BY FS_CardinalityType
<1>3. listed \in Seq(Nat)
  BY DEF PageInv
<1> HIDE DEF n, o
<1>4. o \in [1 .. n -> Nat] /\ \A i \in 1 .. n : o[i] \in Nat
  BY <1>1
<1>5. o \in Seq(Nat) /\ Len(o) = n
  BY <1>2, <1>4
<1>6. /\ l \in Seq(Nat) /\ Len(l) = m + n
      /\ \A i \in 1 .. m : l[i] = listed[i]
      /\ \A i \in 1 .. n : l[m + i] = o[i]
  <2>1. l = listed \o o
    BY DEF o
  <2> HIDE DEF l
  <2>2. m \in Nat
    BY <1>3
  <2>3. /\ l \in Seq(Nat) /\ Len(l) = Len(listed) + Len(o)
        /\ \A i \in 1 .. Len(listed) + Len(o) :
              l[i] = IF i <= Len(listed) THEN listed[i] ELSE o[i - Len(listed)]
    BY <1>3, <1>5, <2>1, ConcatProperties
  <2>4. /\ l \in Seq(Nat) /\ Len(l) = m + n
        /\ \A i \in 1 .. (m + n) :
              l[i] = IF i <= m THEN listed[i] ELSE o[i - m]
    BY <1>5, <2>3
  <2> HIDE DEF m
  <2>5. ASSUME NEW i \in 1 .. m
        PROVE  l[i] = listed[i]
    BY <1>2, <2>2, <2>4
  <2>6. ASSUME NEW i \in 1 .. n
        PROVE  l[m + i] = o[i]
    <3>1. m + i \in 1 .. (m + n) /\ ~(m + i <= m) /\ (m + i) - m = i
      BY <1>2, <2>2
    <3>2. l[m + i] = o[(m + i) - m]
      BY <2>4, <3>1
    <3>3. QED
      BY <3>1, <3>2
  <2>7. QED
    BY <2>4, <2>5, <2>6
<1>7. /\ m \in Nat /\ DOMAIN listed = 1 .. m /\ DOMAIN l = 1 .. (m + n)
      /\ \A i \in 1 .. m : listed[i] \in Nat
  BY <1>2, <1>3, <1>6
<1> HIDE DEF m, l
<1>8. \A k \in 1 .. (m + n) :
         \/ k \in 1 .. m /\ l[k] = listed[k]
         \/ \E i \in 1 .. n : k = m + i /\ l[k] = o[i]
  <2>1. SUFFICES ASSUME NEW k \in 1 .. (m + n)
                 PROVE  \/ k \in 1 .. m /\ l[k] = listed[k]
                        \/ \E i \in 1 .. n : k = m + i /\ l[k] = o[i]
    OBVIOUS
  <2>2. CASE k \in 1 .. m
    BY <1>6, <2>2
  <2>3. CASE k \notin 1 .. m
    <3>1. k - m \in 1 .. n /\ k = m + (k - m)
      BY <1>2, <1>7, <2>3
    <3>2. l[m + (k - m)] = o[k - m]
      BY <1>6, <3>1
    <3>3. QED
      BY <3>1, <3>2
  <2>4. QED
    BY <2>2, <2>3
<1>9. \A i, j \in 1 .. n : o[i] = o[j] => i = j
  <2>1. SUFFICES ASSUME NEW i \in 1 .. n, NEW j \in 1 .. n, o[i] = o[j], i # j
                 PROVE  FALSE
    OBVIOUS
  <2>2. i < j \/ j < i
    BY <1>2, <2>1
  <2>3. o[i] < o[j] \/ o[j] < o[i]
    BY <1>1, <2>2
  <2>4. o[i] \in Nat /\ o[j] \in Nat
    BY <1>4
  <2>5. QED
    BY <2>1, <2>3, <2>4
<1>10. \A i \in 1 .. m, j \in 1 .. n : listed[i] # o[j]
  <2>1. SUFFICES ASSUME NEW i \in 1 .. m, NEW j \in 1 .. n, listed[i] = o[j]
                 PROVE  FALSE
    OBVIOUS
  <2>2. o[j] \in S
    BY <1>1
  <2>3. listed[i] < o[j]
    BY <1>7, <2>2
  <2>4. listed[i] \in Nat /\ o[j] \in Nat
    BY <1>4, <1>7
  <2>5. QED
    BY <2>1, <2>3, <2>4
<1>11. ASSUME NEW i \in DOMAIN l, NEW j \in DOMAIN l, l[i] = l[j]
       PROVE  i = j
  <2>1. i \in 1 .. (m + n) /\ j \in 1 .. (m + n)
    BY <1>7
  <2>2. CASE i \in 1 .. m /\ j \in 1 .. m
    <3>1. listed[i] = listed[j]
      BY <1>6, <1>11, <2>2
    <3>2. QED
      BY <1>7, <2>2, <3>1 DEF PageInv
  <2>3. \/ i \in 1 .. m /\ l[i] = listed[i]
        \/ \E a \in 1 .. n : i = m + a /\ l[i] = o[a]
    BY <1>8, <2>1
  <2>4. \/ j \in 1 .. m /\ l[j] = listed[j]
        \/ \E b \in 1 .. n : j = m + b /\ l[j] = o[b]
    BY <1>8, <2>1
  <2>5. QED
    BY <1>9, <1>10, <1>11, <2>2, <2>3, <2>4
<1>12. \A k \in DOMAIN l : l[k] \in Handed \cup S
  BY <1>1, <1>7, <1>8 DEF Handed
<1>13. \A s \in Handed : \E k \in DOMAIN l : l[k] = s
  <2>1. SUFFICES ASSUME NEW s \in Handed
                 PROVE  \E k \in DOMAIN l : l[k] = s
    OBVIOUS
  <2>2. PICK i \in 1 .. m : listed[i] = s
    BY <1>7 DEF Handed
  <2>3. i \in 1 .. (m + n)
    BY <1>2, <1>7
  <2>4. QED
    BY <1>6, <1>7, <2>2, <2>3
<1>14. \A s \in S : \E k \in DOMAIN l : l[k] = s
  <2>1. SUFFICES ASSUME NEW s \in S
                 PROVE  \E k \in DOMAIN l : l[k] = s
    OBVIOUS
  <2>2. PICK i \in 1 .. n : o[i] = s
    BY <1>1
  <2>3. m + i \in 1 .. (m + n)
    BY <1>2, <1>7
  <2>4. QED
    BY <1>6, <1>7, <2>2, <2>3
<1>15. {l[i] : i \in DOMAIN l} = Handed \cup S
  BY <1>12, <1>13, <1>14
<1>16. QED
  BY <1>6, <1>11, <1>15 DEF l

\* A turn of the loop keeps the invariant.
LEMMA QueryStep ==
    ASSUME PageInv, Query
    PROVE  PageInv'
<1> DEFINE behind == {s \in Matching : s > cursor}
           sent == Behind(CursorSent(cursor))
<1>1. /\ sent = behind
      /\ Page \in SUBSET behind
      /\ Page \in SUBSET Nat
      /\ IsFiniteSet(Page)
      /\ \A s \in Page : \A t \in behind : t < s => t \in Page
      /\ behind # {} => Page # {}
  <2>1. PageIsAccepted(pageLimit(limit))
    BY DEF Query
  <2>2. QED
    BY <2>1, PageIsBehindTheCursor
<1>2. PICK meta \in BOOLEAN :
         /\ listed' = listed \o InOrder(Page)
         /\ cursor' = NextCursor(meta)
         /\ pagePc' = IF NextCursor(meta) = NoCursor THEN "done" ELSE "query"
         /\ truncated' = (truncated \/ (More /\ ~meta))
  BY DEF Query
<1>3. /\ UNCHANGED <<found, resolved, limit, stable>>
      /\ pagePc = "query"
      /\ Matching' = Matching
  BY DEF Query, Matching
<1>4. /\ found \in Nat /\ limit \in Int /\ cursor \in Nat
      /\ stable \subseteq Matching
      /\ \A i \in DOMAIN listed : listed[i] <= cursor
      /\ \A s \in stable : s <= cursor => s \in Handed
  BY <1>3 DEF PageInv
<1>5. \A i \in DOMAIN listed : listed[i] \in Nat
  BY DEF PageInv
<1>6. \A i \in DOMAIN listed : \A s \in Page : listed[i] < s
  <2>1. SUFFICES ASSUME NEW i \in DOMAIN listed, NEW s \in Page
                 PROVE  listed[i] < s
    OBVIOUS
  <2>2. s \in Nat /\ s > cursor /\ listed[i] \in Nat /\ listed[i] <= cursor
    BY <1>1, <1>4, <1>5
  <2>3. QED
    BY <1>4, <2>2
<1>7. /\ listed' \in Seq(Nat)
      /\ \A i, j \in DOMAIN listed' : listed'[i] = listed'[j] => i = j
      /\ {listed'[i] : i \in DOMAIN listed'} = Handed \cup Page
  <2>1. /\ listed' = listed \o InOrder(Page)
        /\ Page \in SUBSET Nat /\ IsFiniteSet(Page)
    BY <1>1, <1>2
  <2> HIDE DEF behind
  <2> DEFINE l == listed \o InOrder(Page)
  <2>2. /\ l \in Seq(Nat)
        /\ \A i, j \in DOMAIN l : l[i] = l[j] => i = j
        /\ {l[i] : i \in DOMAIN l} = Handed \cup Page
    BY <1>6, <2>1, PageIsAppended
  <2>3. listed' = l
    BY <2>1
  <2> HIDE DEF l
  <2>4. QED
    BY <2>2, <2>3
<1>8. Handed' = Handed \cup Page
  BY <1>7 DEF Handed
<1>9. \A s \in stable : s \in Handed \/ s \in behind
  <2>1. SUFFICES ASSUME NEW s \in stable
                 PROVE  s <= cursor \/ s > cursor
    BY <1>4
  <2>2. s \in Nat
    BY <1>4 DEF Matching
  <2>3. QED
    BY <1>4, <2>2
<1>10. More <=> behind # Page
  BY <1>1 DEF More
<1>11. ASSUME meta, More
       PROVE  /\ NextCursor(meta) = Last(Page)
              /\ Last(Page) \in Page /\ Last(Page) \in Nat
              /\ Last(Page) # NoCursor
              /\ \A s \in Page : s <= Last(Page)
  <2>1. Page # {}
    BY <1>1, <1>10, <1>11
  <2>2. Last(Page) \in Page /\ \A s \in Page : s <= Last(Page)
    BY <1>1, <2>1, EndsOfList
  <2>3. Last(Page) \in 1 .. found
    BY <1>1, <2>2 DEF Matching
  <2>4. Last(Page) \in Nat /\ Last(Page) # 0
    BY <1>4, <2>3
  <2>5. QED
    BY <1>11, <2>2, <2>4 DEF NextCursor, NoCursor
<1>12. ~(meta /\ More) => NextCursor(meta) = NoCursor
  BY DEF NextCursor
<1>13. NextCursor(meta) \in Nat
  BY <1>11, <1>12 DEF NoCursor
<1>14. ASSUME pagePc' = "query"
       PROVE  /\ \A i \in DOMAIN listed' : listed'[i] <= cursor'
              /\ \A s \in stable : s <= cursor' => s \in Handed'
  <2>1. meta /\ More
    BY <1>2, <1>12, <1>14
  <2>2. /\ cursor' \in Page /\ cursor' \in Nat /\ cursor' \in behind
        /\ \A s \in Page : s <= cursor'
    BY <1>1, <1>2, <1>11, <2>1
  <2>3. \A s \in Handed : s <= cursor'
    <3>1. SUFFICES ASSUME NEW i \in DOMAIN listed
                   PROVE  listed[i] <= cursor'
      BY DEF Handed
    <3>2. listed[i] \in Nat /\ listed[i] < cursor'
      BY <1>5, <1>6, <2>2
    <3>3. QED
      BY <2>2, <3>2
  <2>4. \A i \in DOMAIN listed' : listed'[i] <= cursor'
    BY <1>7, <2>2, <2>3
  <2>5. ASSUME NEW s \in stable, s <= cursor'
        PROVE  s \in Handed'
    <3>1. CASE s \in Handed
      BY <1>8, <3>1
    <3>2. CASE s \in behind
      <4>1. s = cursor' \/ s < cursor'
        <5>1. s \in Nat
          BY <1>4, <3>2 DEF Matching
        <5>2. QED
          BY <2>2, <2>5, <5>1
      <4>2. s \in Page
        BY <1>1, <2>2, <3>2, <4>1
      <4>3. QED
        BY <1>8, <4>2
    <3>3. QED
      BY <1>9, <3>1, <3>2
  <2>6. QED
    BY <2>4, <2>5
<1>15. ASSUME pagePc' = "done", ~truncated'
       PROVE  stable \subseteq Handed'
  <2>1. ~(meta /\ More)
    BY <1>2, <1>11, <1>15
  <2>2. ~More
    BY <1>2, <1>15, <2>1
  <2>3. behind = Page
    BY <1>10, <2>2
  <2>4. QED
    BY <1>8, <1>9, <2>3
<1>16. pagePc' \in {"query", "done", "error"}
  BY <1>2
<1> HIDE DEF behind, sent
<1>17. QED
  BY <1>2, <1>3, <1>4, <1>7, <1>13, <1>14, <1>15, <1>16 DEF PageInv

\* Whatever happens between the pages keeps the invariant.
LEMMA PageStep ==
    ASSUME PageInv, [PageNext]_pageVars
    PROVE  PageInv'
<1>1. CASE Query
  BY <1>1, QueryStep
<1>2. CASE QueryFails
  <2>1. /\ UNCHANGED <<found, resolved, limit, cursor, listed, stable,
                       truncated>>
        /\ pagePc' = "error"
    BY <1>2 DEF QueryFails
  <2>2. QED
    BY <2>1 DEF PageInv, Handed, Matching
<1>3. CASE Detect
  <2>1. /\ UNCHANGED <<resolved, limit, cursor, listed, pagePc, stable,
                       truncated>>
        /\ found' = found + 1
    BY <1>3 DEF Detect
  <2>2. found \in Nat
    BY DEF PageInv
  <2>3. found' \in Nat /\ Matching \subseteq Matching'
    BY <2>1, <2>2 DEF Matching
  <2>4. QED
    BY <2>1, <2>3 DEF PageInv, Handed
<1>4. CASE Resolve
  <2>1. PICK s \in Matching :
          /\ resolved' = resolved \cup {s}
          /\ stable' = IF pagePc = "query" THEN stable \ {s} ELSE stable
    BY <1>4 DEF Resolve
  <2>2. UNCHANGED <<found, limit, cursor, listed, pagePc, truncated>>
    BY <1>4 DEF Resolve
  <2>3. Matching' = Matching \ {s} /\ Handed' = Handed
    BY <2>1, <2>2 DEF Matching, Handed
  <2>4. /\ stable' \subseteq stable
        /\ pagePc = "query" => stable' = stable \ {s}
    BY <2>1
  <2>5. QED
    BY <2>2, <2>3, <2>4 DEF PageInv
<1>5. CASE UNCHANGED pageVars
  BY <1>5 DEF PageInv, Handed, Matching, pageVars
<1>6. QED
  BY <1>1, <1>2, <1>3, <1>4, <1>5 DEF PageNext

\* The walk keeps its invariant, whatever limit it has and however many
\* secrets are found and resolved between the pages.
THEOREM PageInvariance == PageSpec => []PageInv
<1>1. PageInit => PageInv
  <2>1. SUFFICES ASSUME PageInit
                 PROVE  PageInv
    OBVIOUS
  <2>2. found \in Nat /\ limit \in Int /\ cursor = 0
    BY <2>1, MaxSecretsAssumption, PageLimitsAssumption DEF PageInit, NoCursor
  <2>3. listed = <<>> /\ pagePc = "query" /\ stable = Matching
    BY <2>1 DEF PageInit
  <2>4. \A s \in stable : ~(s <= cursor)
    BY <2>2, <2>3 DEF Matching
  <2>5. listed \in Seq(Nat) /\ DOMAIN listed = {}
    BY <2>3
  <2>6. QED
    BY <2>2, <2>3, <2>4, <2>5 DEF PageInv
<1>2. PageInv /\ [PageNext]_pageVars => PageInv'
  BY PageStep
<1>3. QED
  BY <1>1, <1>2, PTL DEF PageSpec

\* A secret that matched throughout is in the caller's hands when the loop
\* ends, unless a page came without meta although more followed.
THEOREM WalksAreComplete == PageSpec => []WalkIsComplete
<1>1. PageInv => WalkIsComplete
  BY DEF PageInv, WalkIsComplete
<1>2. QED
  BY <1>1, PageInvariance, PTL

\* No secret is handed over twice, although the pages are cut from a list that
\* changes between them.
THEOREM SecretsComeOnce == PageSpec => []NothingTwice
<1>1. ASSUME PageInv
      PROVE  NothingTwice
  <2> DEFINE n == Len(listed)
  <2>1. /\ listed \in Seq(Nat)
        /\ \A i, j \in DOMAIN listed : listed[i] = listed[j] => i = j
    BY <1>1 DEF PageInv
  <2>2. n \in Nat /\ DOMAIN listed = 1 .. n /\ listed \in [1 .. n -> Nat]
    BY <2>1
  <2>3. IsFiniteSet(1 .. n) /\ Cardinality(1 .. n) = n
    BY <2>2, FS_Interval
  <2>4. listed \in [1 .. n -> Handed]
    BY <2>2 DEF Handed
  <2> HIDE DEF n
  <2>5. listed \in Surjection(1 .. n, Handed)
    BY <2>2, <2>4 DEF Handed, Surjection
  <2>6. listed \in Injection(1 .. n, Handed)
    BY <2>1, <2>2, <2>4 DEF Injection, IsInjective
  <2>7. Cardinality(Handed) = Cardinality(1 .. n)
    BY <2>3, <2>5, <2>6, FS_Surjection
  <2>8. QED
    BY <2>3, <2>7 DEF NothingTwice, n
<1>2. QED
  BY <1>1, PageInvariance, PTL

-----------------------------------------------------------------------------
(* PartialUpdate.                                                          *)

\* What an optional member of a request leaves on the server.
LEMMA OrLeaves ==
    ASSUME NEW x, NEW old
    PROVE  Or({}, old) = old /\ Or({x}, old) = x
<1>1. (CHOOSE y \in {x} : TRUE) \in {x}
  OBVIOUS
<1>2. QED
  BY <1>1 DEF Or

\* A flag is sent only where it is set, and a number where it is not zero; so
\* what the server holds afterwards is never the zero value of what it held.
LEMMA ZerosAreUnset ==
    /\ \A b, old \in BOOLEAN : /\ Or(onlyTrue(b), old) \in BOOLEAN
                               /\ old => Or(onlyTrue(b), old)
    /\ \A n, old \in Delays : /\ Or(intToRaw(n), old) \in Delays
                              /\ old > 0 => Or(intToRaw(n), old) > 0
<1>1. ASSUME NEW b \in BOOLEAN, NEW old \in BOOLEAN
      PROVE  Or(onlyTrue(b), old) \in BOOLEAN /\ (old => Or(onlyTrue(b), old))
  <2>1. CASE b = TRUE
    <3>1. onlyTrue(b) = {b}
      BY <2>1 DEF onlyTrue
    <3>2. Or(onlyTrue(b), old) = b
      BY <3>1, OrLeaves
    <3>3. QED
      BY <2>1, <3>2
  <2>2. CASE b = FALSE
    <3>1. onlyTrue(b) = {}
      BY <2>2 DEF onlyTrue
    <3>2. Or(onlyTrue(b), old) = old
      BY <3>1, OrLeaves
    <3>3. QED
      BY <3>2
  <2>3. QED
    BY <2>1, <2>2
<1>2. ASSUME NEW n \in Delays, NEW old \in Delays
      PROVE  /\ Or(intToRaw(n), old) \in Delays
             /\ old > 0 => Or(intToRaw(n), old) > 0
  <2>1. CASE n = 0
    <3>1. intToRaw(n) = {}
      BY <2>1 DEF intToRaw
    <3>2. Or(intToRaw(n), old) = old
      BY <3>1, OrLeaves
    <3>3. QED
      BY <3>2
  <2>2. CASE n # 0
    <3>1. intToRaw(n) = {n}
      BY <2>2 DEF intToRaw
    <3>2. Or(intToRaw(n), old) = n
      BY <3>1, OrLeaves
    <3>3. n > 0
      BY <2>2, DelaysAssumption
    <3>4. QED
      BY <3>2, <3>3
  <2>3. QED
    BY <2>1, <2>2
<1>3. QED
  BY <1>1, <1>2

\* An update leaves a monitor, whose options are as they were or zero only
\* where they were zero.
LEMMA UpdateStep ==
    ASSUME monitor \in Monitor, UpdateNext
    PROVE  /\ monitor' \in Monitor
           /\ monitor.options.followRedirects => monitor'.options.followRedirects
           /\ monitor.options.strictSsl => monitor'.options.strictSsl
           /\ monitor.options.requestDelay > 0
                => monitor'.options.requestDelay > 0
<1>1. PICK options \in {{}} \cup {{o} : o \in Options},
           active \in {{}, {TRUE}, {FALSE}} : UpdateMonitor(options, active)
  BY DEF UpdateNext
<1> DEFINE old == monitor.options
           new == monitor'.options
           api == optionsToAPI(CHOOSE o \in options : TRUE)
<1>2. monitor.active \in BOOLEAN /\ old \in Options
  BY DEF Monitor
<1>3. /\ monitor' = [active |-> Or(active, monitor.active),
                     options |-> IF options = {} THEN old
                                 ELSE [m \in DOMAIN old |-> Or(api[m], old[m])]]
  BY <1>1 DEF UpdateMonitor
<1>4. monitor'.active \in BOOLEAN
  <2>1. monitor'.active = Or(active, monitor.active)
    BY <1>3
  <2>2. \/ active = {}
        \/ active = {TRUE}
        \/ active = {FALSE}
    BY <1>1
  <2>3. Or(active, monitor.active) \in {monitor.active, TRUE, FALSE}
    BY <2>2, OrLeaves
  <2>4. QED
    BY <1>2, <2>1, <2>3
<1>5. CASE options = {}
  <2>1. new = old
    BY <1>3, <1>5
  <2>2. monitor' = [active |-> monitor'.active, options |-> old]
    BY <1>3, <1>5
  <2>3. monitor' \in Monitor
    BY <1>2, <1>4, <2>2 DEF Monitor
  <2>4. QED
    BY <2>1, <2>3
<1>6. CASE options # {}
  <2>1. PICK o \in Options : options = {o}
    BY <1>1, <1>6
  <2>2. api = optionsToAPI(o)
    <3>1. (CHOOSE x \in options : TRUE) \in options
      BY <2>1
    <3>2. (CHOOSE x \in options : TRUE) = o
      BY <2>1, <3>1
    <3>3. QED
      BY <3>2
  <2>3. /\ api.followRedirects = onlyTrue(o.followRedirects)
        /\ api.strictSsl = onlyTrue(o.strictSsl)
        /\ api.requestDelay = intToRaw(o.requestDelay)
    BY <2>2 DEF optionsToAPI
  <2>4. /\ DOMAIN old = {"followRedirects", "strictSsl", "requestDelay"}
        /\ old.followRedirects \in BOOLEAN /\ o.followRedirects \in BOOLEAN
        /\ old.strictSsl \in BOOLEAN /\ o.strictSsl \in BOOLEAN
        /\ old.requestDelay \in Delays /\ o.requestDelay \in Delays
    BY <1>2 DEF Options
  <2> HIDE DEF api, old
  <2> DEFINE set == [m \in DOMAIN old |-> Or(api[m], old[m])]
  <2>5. new = set /\ monitor' = [active |-> monitor'.active, options |-> set]
    BY <1>3, <1>6
  <2>6. /\ set.followRedirects = Or(onlyTrue(o.followRedirects),
                                    old.followRedirects)
        /\ set.strictSsl = Or(onlyTrue(o.strictSsl), old.strictSsl)
        /\ set.requestDelay = Or(intToRaw(o.requestDelay), old.requestDelay)
    BY <2>3, <2>4
  <2>7. set = [followRedirects |-> set.followRedirects,
               strictSsl |-> set.strictSsl,
               requestDelay |-> set.requestDelay]
    BY <2>4
  <2> HIDE DEF set
  <2>8. /\ set.followRedirects \in BOOLEAN
        /\ old.followRedirects => set.followRedirects
    BY <2>4, <2>6, ZerosAreUnset
  <2>9. /\ set.strictSsl \in BOOLEAN
        /\ old.strictSsl => set.strictSsl
    BY <2>4, <2>6, ZerosAreUnset
  <2>10. /\ set.requestDelay \in Delays
         /\ old.requestDelay > 0 => set.requestDelay > 0
    BY <2>4, <2>6, ZerosAreUnset
  <2>11. set \in Options
    BY <2>7, <2>8, <2>9, <2>10 DEF Options
  <2>12. monitor' \in Monitor
    BY <1>4, <2>5, <2>11 DEF Monitor
  <2>13. QED
    BY <2>5, <2>8, <2>9, <2>10, <2>12 DEF old
<1>7. QED
  BY <1>5, <1>6

\* No sequence of updates switches an option of a monitor off or resets its
\* delay, whatever delays there are and however old the callers' copies.
THEOREM ZerosResetNothing == UpdateSpec => OptionsAreNeverReset
<1>1. UpdateInit => monitor \in Monitor
  BY DEF UpdateInit
<1>2. monitor \in Monitor /\ [UpdateNext]_monitor => (monitor \in Monitor)'
  BY UpdateStep
<1>3. UpdateSpec => [](monitor \in Monitor)
  BY <1>1, <1>2, PTL DEF UpdateSpec
<1>4. monitor \in Monitor /\ [UpdateNext]_monitor =>
        [LET new == monitor'.options
             old == monitor.options
         IN  /\ old.followRedirects => new.followRedirects
             /\ old.strictSsl => new.strictSsl
             /\ old.requestDelay > 0 => new.requestDelay > 0]_monitor
  BY UpdateStep
<1>5. QED
  BY <1>3, <1>4, PTL DEF UpdateSpec, OptionsAreNeverReset

=============================================================================
