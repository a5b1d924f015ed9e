--------------------------- MODULE ServerHandlers ----------------------------
(***************************************************************************)
(* Concurrent requests in the handlers of the generated server: the stages *)
(* all handle<Op>Request functions share, the functions they defer, which  *)
(* run in reverse order, and what those leave in the server's instruments. *)
(* The implementation of Handler and the SecurityHandler are the user's:   *)
(* they may answer, fail or panic.                                         *)
(***************************************************************************)
EXTENDS Endpoint

CONSTANTS Requests,   \* the requests served, each once
          Handles,    \* the handler each of them has been routed to
          Statuses    \* what ogenerrors.ErrorCode and the encoders may write

ASSUME RequestsAssumption == IsFiniteSet(Requests)

\* ErrorCode writes the first five; 0 stands for no status.
ASSUME StatusesAssumption ==
    {400, 401, 415, 500, 501} \subseteq Statuses /\ Statuses \subseteq Nat \ {0}

ASSUME HandlesAssumption ==
    \A r \in Requests :
        \A type \in DOMAIN Handles[r].encode.status :
            Handles[r].encode.status[type] \in Statuses

VARIABLES
    pc,         \* the stage each request is in
    code,       \* codeRecorder.status: the last status written, or 0
    sent,       \* the status on the wire: the first one written, or 0
    failed,     \* whether a stage has deferred recordError
    panicked,   \* whether the goroutine panics
    cut,        \* whether writing the body of the response has failed
    requests, errors, durations   \* the instruments, by status

hvars == <<pc, code, sent, failed, panicked, cut, requests, errors, durations>>
meters == <<requests, errors, durations>>

HInit ==
    /\ pc = [r \in Requests |-> "idle"]
    /\ code = [r \in Requests |-> 0]
    /\ sent = [r \in Requests |-> 0]
    /\ failed = [r \in Requests |-> FALSE]
    /\ panicked = [r \in Requests |-> FALSE]
    /\ cut = [r \in Requests |-> FALSE]
    /\ requests = [s \in Statuses \cup {0} |-> 0]
    /\ errors = [s \in Statuses \cup {0} |-> 0]
    /\ durations = [s \in Statuses \cup {0} |-> 0]

GoOn(r, stage) == pc' = [pc EXCEPT ![r] = stage]
Add(counter, s) == [counter EXCEPT ![s] = @ + 1]

\* codeRecorder.WriteHeader keeps the latest status, net/http the first; a
\* mutant keeps the first itself.
WriteHeaderOnce(r, status) ==
    /\ code' = [code EXCEPT ![r] = IF @ = 0 THEN status ELSE @]
    /\ sent' = [sent EXCEPT ![r] = IF @ = 0 THEN status ELSE @]

WriteHeader(r, status) ==
    /\ code' = [code EXCEPT ![r] = status]
    /\ sent' = [sent EXCEPT ![r] = IF @ = 0 THEN status ELSE @]

\* "defer recordError(...); s.cfg.ErrorHandler(...); return"
Refuse(r, status) ==
    /\ GoOn(r, "RecordError")
    /\ failed' = [failed EXCEPT ![r] = TRUE]
    /\ WriteHeader(r, status)

-----------------------------------------------------------------------------
(* The stages.                                                             *)

\* The span and the stopwatch are deferred before anything can go wrong.
Enter(r) ==
    /\ pc[r] = "idle"
    /\ GoOn(r, "Security")
    /\ UNCHANGED <<code, sent, failed, panicked, cut, meters>>

\* No key, a key that does not apply, or one that is refused.
Secure(r) ==
    /\ pc[r] = "Security"
    /\ \/ GoOn(r, "DecodeParams") /\ UNCHANGED <<code, sent, failed>>
       \/ Refuse(r, 401)
    /\ UNCHANGED <<panicked, cut, meters>>

DecodeParams(r) ==
    /\ pc[r] = "DecodeParams"
    /\ \/ GoOn(r, "DecodeRequest") /\ UNCHANGED <<code, sent, failed>>
       \/ Handles[r].params # NoParams /\ Refuse(r, 400)
    /\ UNCHANGED <<panicked, cut, meters>>

\* ErrorCode answers a body of another content type with 415.
DecodeRequest(r) ==
    /\ pc[r] = "DecodeRequest"
    /\ \/ GoOn(r, "Handle") /\ UNCHANGED <<code, sent, failed>>
       \/ /\ Handles[r].body # NoBody
          /\ Refuse(r, 400) \/ Refuse(r, 415)
    /\ UNCHANGED <<panicked, cut, meters>>

\* The implementation returns a value, an error or ErrNotImplemented.
Handle(r) ==
    /\ pc[r] = "Handle"
    /\ \/ GoOn(r, "EncodeResponse") /\ UNCHANGED <<code, sent, failed>>
       \/ Refuse(r, 500)
       \/ Refuse(r, 501)
    /\ UNCHANGED <<panicked, cut, meters>>

\* The user's code panics: the deferred functions run, recordError is none of
\* them yet, and net/http closes the connection.
Panic(r) ==
    /\ pc[r] \in {"Security", "Handle"}
    /\ panicked' = [panicked EXCEPT ![r] = TRUE]
    /\ GoOn(r, "Stopwatch")
    /\ UNCHANGED <<code, sent, failed, cut, meters>>

\* The status of the type is written, then the body.
EncodeResponse(r) ==
    /\ pc[r] = "EncodeResponse"
    /\ \E type \in DOMAIN Handles[r].encode.status :
          /\ WriteHeader(r, Handles[r].encode.status[type])
          /\ IF type \in Handles[r].encode.bare
             THEN GoOn(r, "Stopwatch") ELSE GoOn(r, "WriteBody")
    /\ UNCHANGED <<failed, panicked, cut, meters>>

\* "unexpected response type"
EncodeFails(r) ==
    /\ pc[r] = "EncodeResponse"
    /\ Refuse(r, 500)
    /\ UNCHANGED <<panicked, cut, meters>>

\* The client is gone: the ErrorHandler writes another status after the first.
WriteBody(r) ==
    /\ pc[r] = "WriteBody"
    /\ \/ GoOn(r, "Stopwatch") /\ UNCHANGED <<code, sent, failed, cut>>
       \/ Refuse(r, 500) /\ cut' = [cut EXCEPT ![r] = TRUE]
    /\ UNCHANGED <<panicked, meters>>

-----------------------------------------------------------------------------
(* The deferred functions.  The closers of a decoded request are none, so  *)
(* that close() never adds an error of its own.                            *)

\* A mutant of RecordError: it is called before the ErrorHandler, as a plain
\* call would be, and finds no status yet.
RecordErrorEarly(r) ==
    /\ pc[r] = "RecordError"
    /\ GoOn(r, "Stopwatch")
    /\ errors' = Add(errors, 0)
    /\ UNCHANGED <<code, sent, failed, panicked, cut, requests, durations>>

RecordError(r) ==
    /\ pc[r] = "RecordError"
    /\ GoOn(r, "Stopwatch")
    /\ errors' = Add(errors, code[r])
    /\ UNCHANGED <<code, sent, failed, panicked, cut, requests, durations>>

Stopwatch(r) ==
    /\ pc[r] = "Stopwatch"
    /\ GoOn(r, "RecordDuration")
    /\ requests' = Add(requests, code[r])
    /\ UNCHANGED <<code, sent, failed, panicked, cut, errors, durations>>

RecordDuration(r) ==
    /\ pc[r] = "RecordDuration"
    /\ GoOn(r, "done")
    /\ durations' = Add(durations, code[r])
    /\ UNCHANGED <<code, sent, failed, panicked, cut, requests, errors>>

HNext ==
    \E r \in Requests :
        \/ Enter(r) \/ Secure(r) \/ DecodeParams(r) \/ DecodeRequest(r)
        \/ Handle(r) \/ Panic(r) \/ EncodeResponse(r) \/ EncodeFails(r)
        \/ WriteBody(r)
        \/ RecordError(r) \/ Stopwatch(r) \/ RecordDuration(r)

HSpec == HInit /\ [][HNext]_hvars

-----------------------------------------------------------------------------
(* Properties.                                                             *)

Counted == {r \in Requests : pc[r] \in {"RecordDuration", "done"}}
Timed   == {r \in Requests : pc[r] = "done"}
Erred   == {r \in Requests : failed[r] /\ pc[r] # "RecordError"}

HTypeOK ==
    /\ pc \in [Requests -> {"idle", "Security", "DecodeParams", "DecodeRequest",
                 "Handle", "EncodeResponse", "WriteBody", "RecordError",
                 "Stopwatch", "RecordDuration", "done"}]
    /\ code \in [Requests -> Statuses \cup {0}]
    /\ sent \in [Requests -> Statuses \cup {0}]
    /\ failed \in [Requests -> BOOLEAN]
    /\ panicked \in [Requests -> BOOLEAN]
    /\ cut \in [Requests -> BOOLEAN]

\* Between any two steps of any requests, each instrument holds for each status
\* the number of requests that have passed it with that status: panics are
\* counted like answers, and an error is counted under the status that its own
\* ErrorHandler has written, since recordError is deferred until then.
MetersCount ==
    \A s \in Statuses \cup {0} :
        /\ requests[s] = Cardinality({r \in Counted : code[r] = s})
        /\ durations[s] = Cardinality({r \in Timed : code[r] = s})
        /\ errors[s] = Cardinality({r \in Erred : code[r] = s})

\* A request is counted under the status its client was sent, unless the body
\* could not be written: then the metric says 500 whatever was sent.  Only a
\* panic leaves a request without a status.
CountedAsSent ==
    \A r \in Counted :
        /\ cut[r] \/ code[r] = sent[r]
        /\ cut[r] => code[r] = 500
        /\ sent[r] = 0 => panicked[r]

(* What relates the stage of a request to the statuses it has written.     *)

Early == {"idle", "Security", "DecodeParams", "DecodeRequest", "Handle",
          "EncodeResponse"}
Late  == {"RecordError", "Stopwatch", "RecordDuration", "done"}

StageTellsStatus(r) ==
    /\ pc[r] \in Early =>
         /\ code[r] = 0 /\ sent[r] = 0
         /\ ~failed[r] /\ ~panicked[r] /\ ~cut[r]
    /\ pc[r] = "WriteBody" =>
         /\ code[r] = sent[r] /\ code[r] # 0
         /\ ~failed[r] /\ ~cut[r]
    /\ pc[r] = "RecordError" => failed[r]
    /\ pc[r] \in Late =>
         /\ cut[r] \/ code[r] = sent[r]
         /\ cut[r] => code[r] = 500
         /\ sent[r] = 0 => panicked[r]

\* The inductive invariant: before its response a request has no status, once
\* it is refused or answered it has one, and the body alone can change it.
HInv ==
    /\ HTypeOK
    /\ requests \in [Statuses \cup {0} -> Nat]
    /\ errors \in [Statuses \cup {0} -> Nat]
    /\ durations \in [Statuses \cup {0} -> Nat]
    /\ \A r \in Requests : StageTellsStatus(r)

=============================================================================
