------------------------------ MODULE ApiCall -------------------------------
(***************************************************************************)
(* Concurrent calls of service methods on one Client.                      *)
(*                                                                         *)
(* Each call runs in a goroutine of the caller and goes through the stages *)
(* of the generated client (the strings of its variable "stage"), whose    *)
(* three deferred functions then run in reverse order: drain and close the *)
(* body, count an error, record the duration.  What the calls share is the *)
(* client's instruments and the connections of its http.Client.  The       *)
(* network, the server and net/http's Transport are modelled by what the   *)
(* SDK can observe of them.                                                *)
(***************************************************************************)
EXTENDS Operation, FiniteSets

CONSTANTS Calls,      \* the calls made, each once
          Api,        \* the operation each call invokes
          Replies,    \* the replies the server can give
          MaxConns,   \* http.Transport.MaxConnsPerHost
          MaxTries,   \* how often net/http may send one GET
          Deadlines   \* whether calls carry a deadline or can be cancelled

ASSUME CallsAssumption == IsFiniteSet(Calls)
ASSUME ApiAssumption == Api \in [Calls -> Operations]
ASSUME RepliesAssumption ==   \* net/http keeps informational replies to itself
    Replies \subseteq Reply /\ \A r \in Replies : r.status >= 200
ASSUME LimitsAssumption == MaxConns \in Nat \ {0} /\ MaxTries \in Nat \ {0}
ASSUME DeadlinesAssumption == Deadlines \in BOOLEAN

VARIABLES
    pc,         \* the stage each call is in
    expired,    \* whether its context is done or its client's timeout is over
    wire,       \* its exchange on a connection
    reply,      \* what the server answered on it
    tries,      \* how often its request was put on a connection
    applied,    \* how often the server executed its request
    orphans,    \* requests whose connection is gone, not yet executed
    failed,     \* the stage whose error the generated client returns
    result,     \* what the service method returned
    requests, errors, durations   \* the instruments of the client

netVars == <<wire, reply, tries, applied, orphans>>
instruments == <<requests, errors, durations>>
vars == <<pc, expired, wire, reply, tries, applied, orphans, failed, result,
          requests, errors, durations>>

Stages == {"idle", "Arguments", "EncodeRequest", "SendRequest",
           "DecodeResponse", "CloseBody", "RecordError", "RecordDuration",
           "Switch", "done"}

\* An exchange: the request is sent, the head of the reply has come, its whole
\* body has come, the SDK has read it to the end, the connection broke.
Wires == {"none", "sent", "head", "body", "eof", "reset"}

NoReply == [status |-> 0, json |-> FALSE,
            body |-> [json |-> "broken", status |-> 0, titled |-> FALSE,
                      fits |-> FALSE, usable |-> FALSE]]

\* The calls that occupy a connection of the pool.
Held == {c \in Calls : wire[c] \in {"sent", "head", "body"}}

ReadOnly == {c \in Calls : Api[c].method = "GET"}

Init ==
    /\ pc = [c \in Calls |-> "idle"]
    /\ expired = [c \in Calls |-> FALSE]
    /\ wire = [c \in Calls |-> "none"]
    /\ reply = [c \in Calls |-> NoReply]
    /\ tries = [c \in Calls |-> 0]
    /\ applied = [c \in Calls |-> 0]
    /\ orphans = [c \in Calls |-> 0]
    /\ failed = [c \in Calls |-> "nil"]
    /\ result = [c \in Calls |-> Pending]
    /\ requests = 0 /\ errors = 0 /\ durations = 0

Goto(c, stage) == pc' = [pc EXCEPT ![c] = stage]
Fail(c, stage) == failed' = [failed EXCEPT ![c] = stage]

-----------------------------------------------------------------------------
(* The service method before it calls the generated client.                *)

Begin(c) ==
    /\ pc[c] = "idle"
    /\ Goto(c, "Arguments")
    /\ UNCHANGED <<expired, netVars, failed, result, instruments>>

\* The arguments are converted, send<Op> is entered and counts its request.
StartRequest(c) ==
    /\ pc[c] = "Arguments"
    /\ Goto(c, "EncodeRequest")
    /\ requests' = requests + 1
    /\ UNCHANGED <<expired, netVars, failed, result, errors, durations>>

\* A value of any shape does not convert: the service method returns at once.
RejectArguments(c) ==
    /\ pc[c] = "Arguments"
    /\ Api[c].encodes
    /\ Goto(c, "done")
    /\ result' = [result EXCEPT ![c] = Plain("Arguments")]
    /\ UNCHANGED <<expired, netVars, failed, instruments>>

-----------------------------------------------------------------------------
(* The generated client: BuildURL to Security:ApiKey, then SendRequest.    *)

\* The URL, the request and its x-api-key header.  The static security source
\* never fails, so the stage Security:ApiKey always succeeds.
EncodeRequest(c) ==
    /\ pc[c] = "EncodeRequest"
    /\ Goto(c, "SendRequest")
    /\ UNCHANGED <<expired, netVars, failed, result, instruments>>

EncodeFails(c) ==
    /\ pc[c] = "EncodeRequest"
    /\ Goto(c, "RecordError")
    /\ Fail(c, "EncodeRequest")
    /\ UNCHANGED <<expired, netVars, result, instruments>>

\* How often net/http puts a request on a connection: only a GET may be sent
\* more than once.
Attempts(c) == IF c \in ReadOnly THEN MaxTries ELSE 1

\* Client.Do puts the request on a connection once the pool has one.
Connect(c) ==
    /\ pc[c] = "SendRequest" /\ wire[c] = "none"
    /\ ~expired[c]
    /\ Cardinality(Held) < MaxConns
    /\ tries[c] < Attempts(c)
    /\ wire' = [wire EXCEPT ![c] = "sent"]
    /\ tries' = [tries EXCEPT ![c] = @ + 1]
    /\ UNCHANGED <<pc, expired, reply, applied, orphans, failed, result,
                   instruments>>

\* net/http replays a request whose connection broke before a reply.
Replay(c) ==
    /\ pc[c] = "SendRequest" /\ wire[c] = "reset" /\ reply[c] = NoReply
    /\ tries[c] < Attempts(c)
    /\ wire' = [wire EXCEPT ![c] = "none"]
    /\ UNCHANGED <<pc, expired, reply, tries, applied, orphans, failed,
                   result, instruments>>

\* Do returns as soon as it has the head of the reply.
Receive(c) ==
    /\ pc[c] = "SendRequest" /\ reply[c] # NoReply
    /\ Goto(c, "DecodeResponse")
    /\ UNCHANGED <<expired, netVars, failed, result, instruments>>

\* A mutant of DropRequest: a retry in the SDK, which sends any request again.
DropAndResend(c) ==
    /\ Goto(c, "EncodeRequest")
    /\ wire' = [wire EXCEPT ![c] = "none"]
    /\ tries' = [tries EXCEPT ![c] = 0]
    /\ \/ UNCHANGED orphans
       \/ /\ wire[c] = "sent"
          /\ orphans' = [orphans EXCEPT ![c] = @ + 1]
    /\ UNCHANGED <<expired, reply, applied, failed, result, instruments>>

\* Do returns an error and drops the connection.  A request that was on its
\* way may still reach the server.
DropRequest(c) ==
    /\ Goto(c, "RecordError")
    /\ Fail(c, "SendRequest")
    /\ wire' = [wire EXCEPT ![c] = "none"]
    /\ \/ UNCHANGED orphans
       \/ /\ wire[c] = "sent"
          /\ orphans' = [orphans EXCEPT ![c] = @ + 1]
    /\ UNCHANGED <<expired, reply, tries, applied, result, instruments>>

\* A mutant of GiveUp: a call that does not watch its context.
GiveUpOnReset(c) ==
    /\ pc[c] = "SendRequest"
    /\ wire[c] = "reset" /\ reply[c] = NoReply
    /\ DropRequest(c)

\* It does so when the deadline passes, even if a reply has just come, and
\* when the connection breaks before there is one.
GiveUp(c) ==
    /\ pc[c] = "SendRequest"
    /\ expired[c] \/ (wire[c] = "reset" /\ reply[c] = NoReply)
    /\ DropRequest(c)

\* The server cannot be reached.
DialFails(c) ==
    /\ pc[c] = "SendRequest" /\ wire[c] = "none"
    /\ DropRequest(c)

-----------------------------------------------------------------------------
(* DecodeResponse and the deferred functions.                              *)

\* The body stays unread: a success without a schema, or else an undeclared
\* status or a wrong media type, which is an error.
DecodeHead(c) ==
    /\ pc[c] = "DecodeResponse"
    /\ ~ReadsBody(Api[c], reply[c])
    /\ Goto(c, "CloseBody")
    /\ \/ /\ Unread(Api[c], reply[c])
          /\ UNCHANGED failed
       \/ /\ ~Unread(Api[c], reply[c])
          /\ Fail(c, "DecodeResponse")
    /\ UNCHANGED <<expired, netVars, result, instruments>>

\* The body is read to its end, which frees the connection, and decoded.
DecodeBody(c) ==
    /\ pc[c] = "DecodeResponse"
    /\ ReadsBody(Api[c], reply[c]) /\ wire[c] = "body"
    /\ Goto(c, "CloseBody")
    /\ wire' = [wire EXCEPT ![c] = "eof"]
    /\ \/ /\ BodyDecodes(Api[c], reply[c])
          /\ UNCHANGED failed
       \/ /\ ~BodyDecodes(Api[c], reply[c])
          /\ Fail(c, "DecodeResponse")
    /\ UNCHANGED <<expired, reply, tries, applied, orphans, result,
                   instruments>>

\* io.ReadAll fails: the connection broke or the deadline passed.
ReadFails(c) ==
    /\ pc[c] = "DecodeResponse"
    /\ ReadsBody(Api[c], reply[c])
    /\ wire[c] = "reset" \/ expired[c]
    /\ Goto(c, "CloseBody")
    /\ Fail(c, "DecodeResponse")
    /\ UNCHANGED <<expired, netVars, result, instruments>>

\* A mutant of CloseBody: it is deferred only once decoding has succeeded.
CloseDecodedBody(c) ==
    /\ pc[c] = "CloseBody"
    /\ Goto(c, "RecordError")
    /\ wire' = [wire EXCEPT ![c] = IF failed[c] # "nil" THEN @ ELSE "none"]
    /\ UNCHANGED <<expired, reply, tries, applied, orphans, failed, result,
                   instruments>>

\* What is left of the body is drained before it is closed: this waits for the
\* server, unless reading fails.
CloseBody(c) ==
    /\ pc[c] = "CloseBody"
    /\ wire[c] \in {"body", "eof", "reset"} \/ expired[c]
    /\ Goto(c, "RecordError")
    /\ wire' = [wire EXCEPT ![c] = "none"]
    /\ UNCHANGED <<expired, reply, tries, applied, orphans, failed, result,
                   instruments>>

\* A mutant of RecordError: it counts decoded error responses too.
RecordEveryError(c) ==
    /\ pc[c] = "RecordError"
    /\ Goto(c, "RecordDuration")
    /\ errors' = IF reply[c].status # 200 THEN errors + 1 ELSE errors
    /\ UNCHANGED <<expired, netVars, failed, result, requests, durations>>

RecordError(c) ==
    /\ pc[c] = "RecordError"
    /\ Goto(c, "RecordDuration")
    /\ errors' = IF failed[c] # "nil" THEN errors + 1 ELSE errors
    /\ UNCHANGED <<expired, netVars, failed, result, requests, durations>>

RecordDuration(c) ==
    /\ pc[c] = "RecordDuration"
    /\ Goto(c, "Switch")
    /\ durations' = durations + 1
    /\ UNCHANGED <<expired, netVars, failed, result, requests, errors>>

\* A mutant of Answer: a timeout is reported as if the server had refused the
\* request.
AnswerAsRefusal(c) ==
    /\ pc[c] = "Switch"
    /\ Goto(c, "done")
    /\ result' = [result EXCEPT ![c] =
                     IF failed[c] # "nil" THEN Empty(408)
                                       ELSE Switch(Api[c], reply[c])]
    /\ UNCHANGED <<expired, netVars, failed, instruments>>

\* The service method: err as it is, or the type switch over the response.
Answer(c) ==
    /\ pc[c] = "Switch"
    /\ Goto(c, "done")
    /\ result' = [result EXCEPT ![c] =
                     IF failed[c] # "nil" THEN Plain(failed[c])
                                       ELSE Switch(Api[c], reply[c])]
    /\ UNCHANGED <<expired, netVars, failed, instruments>>

-----------------------------------------------------------------------------
(* The environment: deadlines, the server, the network.                    *)

Expire(c) ==
    /\ Deadlines
    /\ pc[c] \notin {"idle", "done"} /\ ~expired[c]
    /\ expired' = [expired EXCEPT ![c] = TRUE]
    /\ UNCHANGED <<pc, netVars, failed, result, instruments>>

\* The server executes what it answers below 400, refuses what it answers with
\* 4xx, and may have done either when it answers 5xx.
Serve(c) ==
    /\ wire[c] = "sent"
    /\ wire' = [wire EXCEPT ![c] = "head"]
    /\ \E r \in Replies, executes \in BOOLEAN :
         /\ r.status < 400 => executes
         /\ r.status \in 400 .. 499 => ~executes
         /\ reply' = [reply EXCEPT ![c] = r]
         /\ applied' = [applied EXCEPT ![c] = IF executes THEN @ + 1 ELSE @]
    /\ UNCHANGED <<pc, expired, tries, orphans, failed, result, instruments>>

FinishBody(c) ==
    /\ wire[c] = "head"
    /\ wire' = [wire EXCEPT ![c] = "body"]
    /\ UNCHANGED <<pc, expired, reply, tries, applied, orphans, failed,
                   result, instruments>>

\* A connection breaks; a request on it may still reach the server.
Reset(c) ==
    /\ wire[c] \in {"sent", "head"}
    /\ wire' = [wire EXCEPT ![c] = "reset"]
    /\ \/ UNCHANGED orphans
       \/ /\ wire[c] = "sent"
          /\ orphans' = [orphans EXCEPT ![c] = @ + 1]
    /\ UNCHANGED <<pc, expired, reply, tries, applied, failed, result,
                   instruments>>

\* The server executes a request nobody waits for any more.
ExecuteLate(c) ==
    /\ orphans[c] > 0
    /\ orphans' = [orphans EXCEPT ![c] = @ - 1]
    /\ applied' = [applied EXCEPT ![c] = @ + 1]
    /\ UNCHANGED <<pc, expired, wire, reply, tries, failed, result,
                   instruments>>

-----------------------------------------------------------------------------

\* What the goroutine of a call does, or net/http for it.
Progress(c) ==
    \/ StartRequest(c) \/ RejectArguments(c)
    \/ EncodeRequest(c) \/ EncodeFails(c)
    \/ Connect(c) \/ Receive(c) \/ GiveUp(c)
    \/ DecodeHead(c) \/ DecodeBody(c) \/ ReadFails(c)
    \/ CloseBody(c) \/ RecordError(c) \/ RecordDuration(c) \/ Answer(c)

Environment(c) ==
    \/ Expire(c) \/ Serve(c) \/ FinishBody(c) \/ Reset(c)
    \/ DialFails(c) \/ Replay(c) \/ ExecuteLate(c)

Terminated == (\A c \in Calls : pc[c] = "done") /\ UNCHANGED vars

Next == (\E c \in Calls : Begin(c) \/ Progress(c) \/ Environment(c))
        \/ Terminated

Spec == Init /\ [][Next]_vars

\* A goroutine that can go on does.  Under a deadline nothing more is needed:
\* the deadline passes.
DeadlineFairness ==
    \A c \in Calls : WF_vars(Progress(c)) /\ WF_vars(Expire(c))

\* Without one, calls depend on the server: it answers every request it has,
\* and sends the whole body.
ServerFairness ==
    \A c \in Calls : /\ WF_vars(Progress(c))
                     /\ WF_vars(Serve(c)) /\ WF_vars(FinishBody(c))

\* Either is enough.
LiveSpec == Spec /\ (DeadlineFairness \/ ServerFairness)

-----------------------------------------------------------------------------
(* Properties.                                                             *)

\* Every variable has its type.
TypeOK ==
    /\ pc \in [Calls -> Stages]
    /\ expired \in [Calls -> BOOLEAN]
    /\ wire \in [Calls -> Wires]
    /\ reply \in [Calls -> Replies \cup {NoReply}]
    /\ tries \in [Calls -> Nat]
    /\ applied \in [Calls -> Nat]
    /\ orphans \in [Calls -> Nat]
    /\ failed \in [Calls -> PlainOrigins \cup {"nil"}]
    /\ result \in [Calls -> Results \cup {Pending}]
    /\ requests \in Nat /\ errors \in Nat /\ durations \in Nat

Started  == {c \in Calls : pc[c] \notin {"idle", "Arguments"}
                           /\ result[c] # Plain("Arguments")}
Recorded == {c \in Started : pc[c] \in {"RecordDuration", "Switch", "done"}}
Timed    == {c \in Started : pc[c] \in {"Switch", "done"}}

\* Whoever reads the three instruments between two steps sees exactly the
\* requests begun, those that ended in an error of the generated client (send
\* errors and decode errors, not decoded error responses), and those that
\* ended; so the difference of requests and durations is what is in flight.
InstrumentsCount ==
    /\ requests = Cardinality(Started)
    /\ errors = Cardinality({c \in Recorded : failed[c] # "nil"})
    /\ durations = Cardinality(Timed)

\* A call that is past its deferred close holds no connection: whatever went
\* wrong in between, the pool gets every connection back.
NoConnectionLeak ==
    \A c \in Calls : pc[c] \in {"idle", "Arguments", "EncodeRequest",
                                "RecordError", "RecordDuration", "Switch",
                                "done"}
                     => wire[c] = "none"

\* The SDK makes a single attempt: a request that is not a GET is executed at
\* most once, counting what may still reach the server.
AtMostOnce ==
    \A c \in Calls \ ReadOnly : applied[c] + orphans[c] <= 1

\* A value is returned only for a request the server executed and answered
\* with 200.
ValueMeansExecuted ==
    \A c \in Calls : result[c].kind = "ok"
                     => applied[c] > 0 /\ reply[c].status = 200

\* Once the caller has anything but a plain error for a request that is not a
\* GET, the server does nothing more with that request.
AnswerIsFinal ==
    [][\A c \in Calls \ ReadOnly :
          result[c].kind \in {"ok", "api"} => applied'[c] = applied[c]]_vars

\* Every call that was begun returns.
EveryCallReturns == \A c \in Calls : (pc[c] # "idle") ~> (pc[c] = "done")

=============================================================================
