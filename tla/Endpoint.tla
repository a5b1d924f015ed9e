------------------------------ MODULE Endpoint -------------------------------
(***************************************************************************)
(* The vocabulary of the generated package: what the functions generated   *)
(* for an operation are made of on either side of the wire.  The modules   *)
(* that EXTEND this one hold one definition for each generated function.   *)
(***************************************************************************)
EXTENDS Naturals, Sequences, FiniteSets, TLC

-----------------------------------------------------------------------------
(* Bodies of requests.                                                     *)

\* The JSON of a Go type; "checked" if the function calls its Validate().
Json(type) == [type |-> type, checked |-> FALSE]
NoBody == [type |-> "none", checked |-> FALSE]
Checked(body) == [body EXCEPT !.checked = TRUE]

-----------------------------------------------------------------------------
(* Bodies of responses: JSON of a schema, any JSON kept as it is, a JSON   *)
(* object whose members are skipped, nothing that is looked at.            *)

Typed(type, kind) == [type |-> type, kind |-> kind, checked |-> FALSE]

Schema(type)    == Typed(type, "schema")
Raw(type)       == Typed(type, "raw")
Object(type)    == Typed(type, "object")
NoContent(type) == Typed(type, "nothing")

\* The status an encoder writes for each type, and the types for which it
\* writes a status and nothing else.
Writes(status) == [status |-> status, bare |-> {}]
WritesBare(status, bare) == [status |-> status, bare |-> bare]

-----------------------------------------------------------------------------
(* Parameters.                                                             *)

\* The query parameters a client always sends, and those it sends when set.
Query(required, optional) == [required |-> required, optional |-> optional]
NoQuery == Query({}, {})

\* What a server reads: path parameters in the order of the arguments, query
\* parameters, and those among them held to an enumeration.
Params(path, required, optional, enums) ==
    [path |-> path, query |-> Query(required, optional), enums |-> enums]
PathParams(path) == Params(path, {}, {}, {})
NoParams == PathParams(<<>>)

-----------------------------------------------------------------------------
(* The two ends of an operation.                                           *)

Request(method, path, args, query, body, decode) ==
    [method |-> method, path |-> path, args |-> args, query |-> query,
     body |-> body, decode |-> decode]

Handler(method, route, reads, body, encode) ==
    [method |-> method, route |-> route, params |-> reads, body |-> body,
     encode |-> encode]

-----------------------------------------------------------------------------
(* Paths are sequences of segments; a pattern has "*" for an argument.     *)

\* The place of each argument in a pattern.
Places(pattern) == {i \in DOMAIN pattern : pattern[i] = "*"}

\* The rank of the argument at a place.
Rank(pattern, i) == Cardinality({j \in 1 .. i : pattern[j] = "*"})

\* uri.AddPathParts: the pattern with its arguments put in.
Fill(pattern, args) ==
    [i \in DOMAIN pattern |->
        IF pattern[i] = "*" THEN args[Rank(pattern, i)] ELSE pattern[i]]

=============================================================================
