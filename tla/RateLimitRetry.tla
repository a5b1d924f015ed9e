--------------------------- MODULE RateLimitRetry ---------------------------
(***************************************************************************)
(* The retry wrapper of docs/guides/rate-limiting.md around one operation  *)
(* of the SDK: withRetry calls fn until it returns anything but an         *)
(* APIError with status 429, at most maxAttempts times, and waits after    *)
(* each 429, unless the context is done.                                   *)
(*                                                                         *)
(* An attempt is one call of ApiCall from begin to end: what it returns is *)
(* the Outcome of the reply, or a plain error, and the server has executed *)
(* its request or not as ApiCall!Serve says.  (A GET that net/http replays *)
(* within one attempt counts once.)                                        *)
(***************************************************************************)
EXTENDS Operation

CONSTANTS Fns,        \* the operations fn may call
          Answers,    \* the replies the server gives
          AttemptLimits      \* the values of maxAttempts

ASSUME RetryFnsAssumption == Fns \subseteq Operations
ASSUME RetryAnswersAssumption ==
    Answers \subseteq Reply /\ \A r \in Answers : r.status >= 200
ASSUME RetryLimitsAssumption == AttemptLimits \subseteq Nat

VARIABLES
    fn, maxAttempts,     \* the arguments
    attempt, err, retryPc,   \* the loop: counter, err, where it stands
    cancelled,           \* whether ctx is done
    reply,               \* the reply to the last attempt that had one
    applied              \* how often the server executed the request

retryVars ==
    <<fn, maxAttempts, attempt, err, retryPc, cancelled, reply, applied>>

NoAnswer == [status |-> 0, json |-> FALSE,
             body |-> [json |-> "broken", status |-> 0, titled |-> FALSE,
                       fits |-> FALSE, usable |-> FALSE]]

Nil    == Pending    \* var err error
CtxErr == [kind |-> "plain", status |-> 0, text |-> "Context"]

RetryInit ==
    /\ fn \in Fns /\ maxAttempts \in AttemptLimits
    /\ attempt = 0 /\ err = Nil /\ retryPc = "loop"
    /\ cancelled = FALSE
    /\ reply = NoAnswer
    /\ applied = 0

\* A mutant of IsRateLimited: server errors are worth another attempt too.
IsTransient(e) == e.kind = "api" /\ e.status \in {429, 500}

\* errors.As(err, &apiErr) && apiErr.StatusCode == 429.
IsRateLimited(e) == e.kind = "api" /\ e.status = 429

\* err = fn(), then the decision to return or to wait.
Returned(e) ==
    /\ err' = e
    /\ retryPc' = IF IsRateLimited(e) THEN "wait" ELSE "done"

\* An attempt the server answers.
Answered ==
    /\ retryPc = "loop" /\ attempt < maxAttempts /\ ~cancelled
    /\ \E r \in Answers, executes \in BOOLEAN :
         /\ r.status < 400 => executes
         /\ r.status \in 400 .. 499 => ~executes
         /\ reply' = r
         /\ applied' = IF executes THEN applied + 1 ELSE applied
         /\ Returned(Outcome(fn, r))
    /\ UNCHANGED <<fn, maxAttempts, attempt, cancelled>>

\* An attempt without an answer: a broken connection or a done context.  The
\* server may execute it all the same, unless the context was done before.
Unanswered ==
    /\ retryPc = "loop" /\ attempt < maxAttempts
    /\ \E executes \in BOOLEAN :
         /\ cancelled => ~executes
         /\ applied' = IF executes THEN applied + 1 ELSE applied
    /\ Returned(Plain("SendRequest"))
    /\ UNCHANGED <<fn, maxAttempts, attempt, cancelled, reply>>

\* A mutant of Elapse: the counter of the loop is not incremented.
ElapseForEver ==
    /\ retryPc = "wait"
    /\ retryPc' = "loop"
    /\ UNCHANGED <<fn, maxAttempts, attempt, err, cancelled, reply, applied>>

\* case <-time.After: on to the next attempt.  When both cases are ready, the
\* select picks either.
Elapse ==
    /\ retryPc = "wait"
    /\ retryPc' = "loop"
    /\ attempt' = attempt + 1
    /\ UNCHANGED <<fn, maxAttempts, err, cancelled, reply, applied>>

\* case <-ctx.Done().
Abandon ==
    /\ retryPc = "wait" /\ cancelled
    /\ retryPc' = "done"
    /\ err' = CtxErr
    /\ UNCHANGED <<fn, maxAttempts, attempt, cancelled, reply, applied>>

\* A mutant of Exhausted: "return nil" behind the loop.
ExhaustedWithNil ==
    /\ retryPc = "loop" /\ attempt >= maxAttempts
    /\ retryPc' = "done"
    /\ err' = Nil
    /\ UNCHANGED <<fn, maxAttempts, attempt, cancelled, reply, applied>>

\* The loop is over: err is that of the last attempt.
Exhausted ==
    /\ retryPc = "loop" /\ attempt >= maxAttempts
    /\ retryPc' = "done"
    /\ UNCHANGED <<fn, maxAttempts, attempt, err, cancelled, reply, applied>>

Cancel ==
    /\ retryPc # "done" /\ ~cancelled
    /\ cancelled' = TRUE
    /\ UNCHANGED <<fn, maxAttempts, attempt, err, retryPc, reply, applied>>

RetryStep == Answered \/ Unanswered \/ Elapse \/ Abandon \/ Exhausted

RetryNext == RetryStep \/ Cancel \/ (retryPc = "done" /\ UNCHANGED retryVars)

\* Attempts end (ApiCall!EveryCallReturns) and time passes.
RetryFairness == WF_retryVars(RetryStep)

RetrySpec == RetryInit /\ [][RetryNext]_retryVars /\ RetryFairness

-----------------------------------------------------------------------------
(* Properties.                                                             *)

\* Whatever is retried, the server executes a request at most once over all
\* attempts, as long as its problem bodies do not contradict their status
\* lines: an attempt that may have been executed is never followed by another.
RetriesNeverRepeatADeed == applied <= 1

\* With at least one attempt allowed, nil is returned only for a request that
\* was executed and answered with 200, and a 429 only after the last attempt.
NilMeansDone ==
    retryPc = "done" /\ maxAttempts > 0 =>
        /\ err.kind \in {"ok", "pending"}
               => reply.status = 200 /\ applied = 1
        /\ IsRateLimited(err) => attempt = maxAttempts

\* The loop ends.
RetriesEnd == <>(retryPc = "done")

=============================================================================
