----------------------------- MODULE MergeTask ------------------------------
(***************************************************************************)
(* Asynchronous merges of forked collections: collections.MergeForkAsync   *)
(* starts a task on the server, and collections.MergeForkAsyncStatus tells *)
(* how it stands, until 24 hours after its end.  One caller starts merges, *)
(* each only once the last call has returned, and watches a task by asking *)
(* for its status as long as it is in progress.                            *)
(*                                                                         *)
(* The server is external: it runs what it accepts, may answer a start     *)
(* with a 500 though it has started the task, forgets a finished task, and *)
(* answers for the moment at which it reads the request.                   *)
(***************************************************************************)
EXTENDS ServiceCatalog, FiniteSets

CONSTANTS MaxTasks,      \* how many merges the server ever starts
          MaxWatches,    \* how often the caller begins to watch a task
          StartAnswers, StatusAnswers   \* the replies to the two operations

ASSUME MergeTasksAssumption == MaxTasks \in Nat /\ MaxWatches \in Nat
ASSUME MergeAnswersAssumption ==
    StartAnswers \cup StatusAnswers \subseteq Reply

StartOp  == Row(<<"collections", "MergeForkAsync">>)
StatusOp == Row(<<"collections", "MergeForkAsyncStatus">>)

AsyncTaskSuccessful == "successful"
AsyncTaskInProgress == "in-progress"
AsyncTaskFailed     == "failed"

Tasks == 1 .. MaxTasks
NoID  == 0                 \* the empty string

VARIABLES
    task,        \* the server: the status of each task, "none" at first
    expired,     \* the server: the finished tasks it has forgotten
    call,        \* the call in flight: [of, id] and what was answered
    told,        \* per task: what the call that started it told the caller
    watching,    \* the ID the caller polls, or "nothing"
    watches,     \* how often it began to
    verdict      \* per task: the last thing a status call said of it

taskVars == <<task, expired, call, told, watching, watches, verdict>>

(* A call in flight.  "id" is the task a status call asks for, or the one  *)
(* that a start has started; "reply" and "says" are the answer: its reply  *)
(* and the member task.id or status within a success.                      *)
Nothing == [stage |-> "none", of |-> "none", id |-> NoID]

InFlight(of, id) == [stage |-> "sent", of |-> of, id |-> id]

Replied(of, id, r, says) ==
    [stage |-> "answered", of |-> of, id |-> id, reply |-> r, says |-> says]

MergeInit ==
    /\ task = [t \in Tasks |-> "none"]
    /\ expired = {}
    /\ call = Nothing
    /\ told = [t \in Tasks |-> "nothing"]
    /\ watching = NoID
    /\ watches = 0
    /\ verdict = [t \in Tasks |-> "none"]

-----------------------------------------------------------------------------
(* What the two service methods make of a reply.                           *)

\* out.ID = t.ID.Or(""), "" as well without a task.
MergeTaskID(r, says) ==
    IF Outcome(StartOp, r) = Value THEN says ELSE NoID

\* A mutant of StatusText: a missing status is taken for "in-progress".
StatusTextInProgress(says) ==
    IF says = "" THEN AsyncTaskInProgress ELSE says

\* A mutant of StatusText: a missing status is taken for "successful".
StatusTextSuccessful(says) == IF says = "" THEN AsyncTaskSuccessful ELSE says

\* AsyncTaskStatus(r.Status.Or("")).
StatusText(says) == says

\* What MergeForkAsyncStatus says of its task: a status, or the status code
\* of an APIError, or "error".
StatusVerdict(r, says) ==
    LET out == Outcome(StatusOp, r)
    IN  CASE out = Value -> StatusText(says)
          [] out.kind = "api" /\ out.status = 404 -> "not-found"
          [] OTHER -> "error"

-----------------------------------------------------------------------------
(* The server.                                                             *)

\* It reads a start.  A 500 leaves open whether the merge runs.
ServeStart ==
    /\ call.stage = "sent" /\ call.of = "start"
    /\ \E r \in StartAnswers, runs \in BOOLEAN :
         /\ r.status < 400 => runs
         /\ r.status \in 400 .. 499 => ~runs
         /\ IF runs
            THEN \E t \in Tasks :
                   /\ \A u \in Tasks : task[u] = "none" <=> u >= t
                   /\ task' = [task EXCEPT ![t] = AsyncTaskInProgress]
                   /\ \E says \in {NoID, t} :
                        call' = Replied("start", t, r, says)
            ELSE /\ call' = Replied("start", NoID, r, NoID)
                 /\ UNCHANGED task
    /\ UNCHANGED <<expired, told, watching, watches, verdict>>

\* It reads the request for a status, and knows the task or does not.
ServeStatus ==
    /\ call.stage = "sent" /\ call.of = "status"
    /\ \E r \in StatusAnswers :
         LET known == call.id # NoID /\ call.id \notin expired
         IN  /\ r.status = 200 => known
             /\ r.status = 404 => ~known
             /\ \E says \in (IF known THEN {"", task[call.id]} ELSE {""}) :
                  call' = Replied("status", call.id, r, says)
    /\ UNCHANGED <<task, expired, told, watching, watches, verdict>>

Finish(t) ==
    /\ task[t] = AsyncTaskInProgress
    /\ \E s \in {AsyncTaskSuccessful, AsyncTaskFailed} :
         task' = [task EXCEPT ![t] = s]
    /\ UNCHANGED <<expired, call, told, watching, watches, verdict>>

Expire(t) ==
    /\ task[t] \in {AsyncTaskSuccessful, AsyncTaskFailed}
    /\ expired' = expired \cup {t}
    /\ UNCHANGED <<task, call, told, watching, watches, verdict>>

-----------------------------------------------------------------------------
(* The caller.                                                             *)

Start ==
    /\ call = Nothing /\ watching = NoID
    /\ \E t \in Tasks : task[t] = "none"
    /\ call' = InFlight("start", NoID)
    /\ UNCHANGED <<task, expired, told, watching, watches, verdict>>

\* MergeForkAsync returns.  A task that it started is known by its ID, in
\* doubt (a plain error, a server error or no ID), or thought to be refused.
StartReturns ==
    /\ call.stage = "answered" /\ call.of = "start"
    /\ LET out == Outcome(StartOp, call.reply)
           now == CASE MergeTaskID(call.reply, call.says) # NoID -> "id"
                    [] out.kind = "api" /\ out.status \in 400 .. 499
                         -> "refused"
                    [] OTHER -> "doubt"
       IN  told' = [t \in Tasks |-> IF t = call.id THEN now ELSE told[t]]
    /\ call' = Nothing
    /\ UNCHANGED <<task, expired, watching, watches, verdict>>

\* The connection breaks before or after the server has read the request.
MergeFails ==
    /\ call.stage # "none"
    /\ call' = Nothing
    /\ IF call.of = "start"
       THEN /\ told' = [t \in Tasks |->
                          IF t = call.id THEN "doubt" ELSE told[t]]
            /\ UNCHANGED <<watching, verdict>>
       ELSE /\ verdict' = [verdict EXCEPT ![call.id] = "error"]
            /\ watching' = NoID
            /\ UNCHANGED told
    /\ UNCHANGED <<task, expired, watches>>

Watch ==
    /\ call = Nothing /\ watching = NoID /\ watches < MaxWatches
    /\ watching' \in {t \in Tasks : told[t] = "id"}
    /\ watches' = watches + 1
    /\ UNCHANGED <<task, expired, call, told, verdict>>

Poll ==
    /\ call = Nothing /\ watching # NoID
    /\ call' = InFlight("status", watching)
    /\ UNCHANGED <<task, expired, told, watching, watches, verdict>>

\* MergeForkAsyncStatus returns, and the caller asks again only while the
\* task is in progress.
PollReturns ==
    /\ call.stage = "answered" /\ call.of = "status"
    /\ LET now == StatusVerdict(call.reply, call.says)
       IN  /\ verdict' = [verdict EXCEPT ![call.id] = now]
           /\ watching' = IF now = AsyncTaskInProgress THEN watching ELSE NoID
    /\ call' = Nothing
    /\ UNCHANGED <<task, expired, told, watches>>

MergeServer ==
    \/ ServeStart \/ ServeStatus
    \/ \E t \in Tasks : Finish(t) \/ Expire(t)

MergeCaller == StartReturns \/ Poll \/ PollReturns

\* The caller may leave it at that.
Rest == call = Nothing /\ watching = NoID /\ UNCHANGED taskVars

MergeNext ==
    MergeServer \/ MergeCaller \/ Start \/ MergeFails \/ Watch \/ Rest

(* Requests are answered, calls return (ApiCall!EveryCallReturns), a caller *)
(* that watches goes on polling, and the server ends every task.           *)
MergeFairness ==
    /\ WF_taskVars(ServeStart) /\ WF_taskVars(ServeStatus)
    /\ WF_taskVars(MergeCaller)
    /\ \A t \in Tasks : WF_taskVars(Finish(t))

MergeSpec == MergeInit /\ [][MergeNext]_taskVars /\ MergeFairness

-----------------------------------------------------------------------------
(* Properties.                                                             *)

\* No merge runs behind the caller's back: the call that started it returned
\* its ID, or left it in doubt because the answer named no ID; it never told
\* the caller that the request was refused.
MergesAreAccountedFor ==
    \A t \in Tasks : task[t] # "none" =>
        \/ told[t] \in {"id", "doubt"}
        \/ call.stage = "answered" /\ call.of = "start" /\ call.id = t

\* What the caller is told of a task is true for good: a finished task ended
\* the way the status says, and one that is not found has ended and expired,
\* although the answer may have been under way for any time.
VerdictsStayTrue ==
    \A t \in Tasks :
        /\ verdict[t] \in {AsyncTaskSuccessful, AsyncTaskFailed}
             => task[t] = verdict[t]
        /\ verdict[t] = "not-found" => t \in expired
        /\ verdict[t] = AsyncTaskInProgress => task[t] # "none"

\* A caller that watches a task comes to an end of it.
WatchingEnds == watching # NoID ~> watching = NoID

=============================================================================
