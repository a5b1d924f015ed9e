----------------------------- MODULE PostmanErr -----------------------------
(***************************************************************************)
(* What one SDK call can hand back to its caller.                          *)
(*                                                                         *)
(* A service method returns (result, nil), or (nil, err) where err is      *)
(* either a *postmanerr.APIError, which errors.As can extract, or any      *)
(* other Go error.  The three are records of one shape, so that results    *)
(* can be compared: "kind" tells them apart, "status" is what              *)
(* APIError.StatusCode holds, and "text" names where the text of the error *)
(* comes from (the body of the response, net/http's StatusText, or the     *)
(* stage of the generated client that failed).                             *)
(***************************************************************************)
EXTENDS Integers

\* The places a plain error comes from: argument conversion in the service
\* method, the three stages of the generated client that can fail, and the
\* conversion of a decoded result in the service method.
PlainOrigins == {"Arguments", "EncodeRequest", "SendRequest",
                 "DecodeResponse", "Conversion"}

ApiTexts == {"server", "statusText", "unexpected response type"}

Value           == [kind |-> "ok", status |-> 200, text |-> "decoded"]
Plain(origin)   == [kind |-> "plain", status |-> 0, text |-> origin]
APIError(s, t)  == [kind |-> "api", status |-> s, text |-> t]

\* Before a call returns it has no result.
Pending == [kind |-> "pending", status |-> 0, text |-> "none"]

Results ==
    {r \in [kind: {"ok", "plain", "api"}, status: Nat,
            text: {"decoded"} \cup PlainOrigins \cup ApiTexts] :
        \/ r = Value
        \/ \E o \in PlainOrigins : r = Plain(o)
        \/ r.kind = "api" /\ r.text \in ApiTexts}

(***************************************************************************)
(* The body of a response as far as the SDK can tell bodies apart:         *)
(*   json    "object", some other JSON "value", or "broken" (empty bodies  *)
(*           and syntax errors);                                           *)
(*   status  the problem-details member "status", 0 when it is missing or  *)
(*           not a number;                                                 *)
(*   titled  whether the member "title" is there and not empty;            *)
(*   fits    whether the generated decoder and validator of the operation's*)
(*           success type accept it;                                       *)
(*   usable  whether the raw members the service method unmarshals itself  *)
(*           have the shape it expects.                                    *)
(***************************************************************************)
Shapes == {"object", "value", "broken"}

Bodies == [json: Shapes, status: Nat, titled: BOOLEAN,
           fits: BOOLEAN, usable: BOOLEAN]

\* A mutant of Empty: StatusBadRequest was pasted into every case.
EmptyBadRequest(status) == APIError(400, "statusText")

\* postmanerr.Empty: nothing but the HTTP status of the response is known.
Empty(status) == APIError(status, "statusText")

\* A mutant of FromProblemDetails: it trusts the body alone.
FromBodyAlone(body, fallbackStatus) ==
    LET titled == body.json = "object" /\ body.titled
    IN  APIError(IF body.json = "object" THEN body.status ELSE 0,
                 IF titled THEN "server" ELSE "statusText")

\* postmanerr.FromProblemDetails.  json.Unmarshal's error is dropped, so a
\* body that is no JSON object leaves every member at its zero value.
FromProblemDetails(body, fallbackStatus) ==
    LET status == IF body.json = "object" THEN body.status ELSE 0
        titled == body.json = "object" /\ body.titled
    IN  APIError(IF status = 0 THEN fallbackStatus ELSE status,
                 IF titled THEN "server" ELSE "statusText")

\* The default branch of every type switch: an APIError with a title only.
UnexpectedResponse == APIError(0, "unexpected response type")

=============================================================================
