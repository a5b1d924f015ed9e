----------------------------- MODULE Operation ------------------------------
(***************************************************************************)
(* One API operation as the two layers of the SDK see it: the generated    *)
(* client, which turns an HTTP response into a Go value of one of the      *)
(* declared response types or into an error, and the service method, whose *)
(* type switch turns that Go value into a result or an APIError.           *)
(***************************************************************************)
EXTENDS PostmanErr

(***************************************************************************)
(* An operation is a record:                                               *)
(*   method     its HTTP method;                                           *)
(*   empty      the declared error statuses whose schema is an empty object*)
(*              and which the service method maps with postmanerr.Empty;   *)
(*   problem    the declared error statuses kept as raw JSON and mapped    *)
(*              with postmanerr.FromProblemDetails;                        *)
(*   unhandled  the declared error statuses (of empty schema) for which the*)
(*              type switch has no case;                                   *)
(*   encodes    whether the service method converts an argument of any     *)
(*              shape before it calls the generated client, and can fail;  *)
(*   converts   whether it unmarshals raw members of a success body, and   *)
(*              can fail after the server has answered 200;                *)
(*   bodiless   whether its success has no schema: the decoder then takes  *)
(*              any 200 for a success and leaves the body alone.           *)
(* Every operation declares 200 as its only success status.                *)
(***************************************************************************)
Methods == {"GET", "POST", "PUT", "PATCH", "DELETE"}

Operations ==
    [method: Methods, empty: SUBSET Nat, problem: SUBSET Nat,
     unhandled: SUBSET Nat, encodes: BOOLEAN, converts: BOOLEAN,
     bodiless: BOOLEAN]

Op(method, empty, problem) ==
    [method |-> method, empty |-> empty, problem |-> problem,
     unhandled |-> {}, encodes |-> FALSE, converts |-> FALSE,
     bodiless |-> FALSE]

Unhandled(op, statuses) == [op EXCEPT !.unhandled = statuses]
EncodesInput(op)        == [op EXCEPT !.encodes = TRUE]
ConvertsOutput(op)      == [op EXCEPT !.converts = TRUE]
WithoutBody(op)         == [op EXCEPT !.bodiless = TRUE]

\* The statuses decode<Op>Response has a case for.
Declared(op) == {200} \cup op.empty \cup op.problem \cup op.unhandled

\* A reply: its status line, whether its media type is application/json, and
\* its body.
Reply == [status: Nat, json: BOOLEAN, body: Bodies]

\* A success without a schema: "case 200: return &<Op>OK{}, nil".
Unread(op, reply) == op.bodiless /\ reply.status = 200

\* decode<Op>Response looks at the body only under a declared status and the
\* right media type; otherwise it returns its error without reading.
ReadsBody(op, reply) ==
    reply.status \in Declared(op) /\ reply.json /\ ~Unread(op, reply)

\* A mutant of Decodes: errors of raw JSON are held to a schema as well.
DecodesBySchema(op, reply) ==
    /\ ReadsBody(op, reply)
    /\ IF reply.status \in op.empty \cup op.unhandled
       THEN reply.body.json = "object"
       ELSE reply.body.json # "broken" /\ reply.body.fits

\* Whether what it has read decodes.  Success bodies must fit their schema,
\* empty schemas accept objects only, and raw JSON accepts any well-formed
\* value.
BodyDecodes(op, reply) ==
    CASE reply.status = 200 -> reply.body.json # "broken" /\ reply.body.fits
      [] reply.status \in op.problem -> reply.body.json # "broken"
      [] OTHER -> reply.body.json = "object"

\* Whether decode<Op>Response yields a typed response.
Decodes(op, reply) ==
    \/ Unread(op, reply)
    \/ ReadsBody(op, reply) /\ BodyDecodes(op, reply)

\* A mutant of Switch: the default branch returns a zero result and no error.
SwitchDefaultingToValue(op, reply) ==
    CASE reply.status \in op.empty -> Empty(reply.status)
      [] reply.status \in op.problem
            -> FromProblemDetails(reply.body, reply.status)
      [] OTHER -> Value

\* The type switch of the service method over a typed response.
Switch(op, reply) ==
    CASE reply.status = 200 /\ (~op.converts \/ reply.body.usable) -> Value
      [] reply.status = 200 /\ op.converts /\ ~reply.body.usable
            -> Plain("Conversion")
      [] reply.status \in op.empty -> Empty(reply.status)
      [] reply.status \in op.problem
            -> FromProblemDetails(reply.body, reply.status)
      [] OTHER -> UnexpectedResponse

\* What the caller gets for a reply whose body arrives in full.
Outcome(op, reply) ==
    IF Decodes(op, reply) THEN Switch(op, reply) ELSE Plain("DecodeResponse")

=============================================================================
