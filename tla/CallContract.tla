---------------------------- MODULE CallContract ----------------------------
(***************************************************************************)
(* What a caller of the SDK may rely on, for a set of concurrent calls.    *)
(*                                                                         *)
(* A call is answered at most once.  Until it is answered the server may   *)
(* execute its request, and a request that is not a GET is executed at most*)
(* once.  The answer is a value only if the server executed the request.   *)
(* An APIError with a 4xx status says the server refused: it did not       *)
(* execute the request and never will.  A plain error says nothing: the    *)
(* request may have been executed before, or may yet be executed after.    *)
(***************************************************************************)
EXTENDS PostmanErr

CONSTANTS Calls,      \* the calls made, each once
          ReadOnly    \* those whose request is a GET

VARIABLES phase,      \* "new", "open" or "answered", for each call
          effects,    \* how often the server has executed its request
          answer      \* what it returned, Pending before

cvars == <<phase, effects, answer>>

Refused(r) == r.kind = "api" /\ r.status \in 400 .. 499

CInit ==
    /\ phase = [c \in Calls |-> "new"]
    /\ effects = [c \in Calls |-> 0]
    /\ answer = [c \in Calls |-> Pending]

Open(c) ==
    /\ phase[c] = "new"
    /\ phase' = [phase EXCEPT ![c] = "open"]
    /\ UNCHANGED <<effects, answer>>

\* The server executes the request of c: while the call is open, or later if
\* the caller was left without an answer from the server.
Execute(c) ==
    /\ phase[c] \in {"open", "answered"}
    /\ c \notin ReadOnly =>
           /\ effects[c] = 0
           /\ phase[c] = "answered" => answer[c].kind = "plain"
    /\ effects' = [effects EXCEPT ![c] = @ + 1]
    /\ UNCHANGED <<phase, answer>>

\* The call returns its answer, any result the server's deeds allow.
Return(c) ==
    LET r == answer'[c] IN
    /\ phase[c] = "open"
    /\ r \in Results
    /\ r.kind = "ok" => effects[c] > 0
    /\ c \notin ReadOnly /\ Refused(r) => effects[c] = 0
    /\ phase' = [phase EXCEPT ![c] = "answered"]
    /\ answer' = [answer EXCEPT ![c] = r]
    /\ UNCHANGED effects

CNext == \E c \in Calls : Open(c) \/ Execute(c) \/ Return(c)

CSpec == CInit /\ [][CNext]_cvars

=============================================================================
