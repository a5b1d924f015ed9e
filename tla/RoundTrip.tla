----------------------------- MODULE RoundTrip ------------------------------
(***************************************************************************)
(* One call of a service method against the server generated from the same *)
(* OpenAPI document: the generated client builds the request, the server   *)
(* routes, authenticates and decodes it, calls its handler and encodes what*)
(* that returns, and the client decodes it for the type switch.  Each      *)
(* stage of the call is an action; what is generated for each operation is *)
(* in the modules this one extends.                                        *)
(*                                                                         *)
(* A call is a record: the service method (name), the identifiers it is    *)
(* given (args), whether the optional query parameters are set (options),  *)
(* and whether the values of the others (enumsOk) and of its body (bodyOk) *)
(* obey the constraints of the document, which the client does not check.  *)
(***************************************************************************)
EXTENDS Router, GeneratedClient, GeneratedServer, ServiceCalls, ServiceCatalog

CONSTANTS
    Names,       \* the service methods called
    Lists(_),    \* the lists of identifiers each of them is given
    Settings(_,_),   \* how the rest of the call may be
    Verdicts,    \* what the SecurityHandler may say of a key
    Conducts(_)  \* what an implementation of Handler may do about a call

Number == "1"    \* strconv.Itoa of an identifier

\* Whether a list of arguments is what the service method makes of its own.
Accepts(shape, args) ==
    /\ Len(args) = Len(shape)
    /\ \A i \in DOMAIN shape :
          CASE shape[i] = "id" -> TRUE
            [] shape[i] = "number" -> args[i] = Number
            [] OTHER -> args[i] = shape[i]

\* The tokens of what escaping makes of a text stand for no identifier.
ASSUME NamesAssumption ==
    /\ Names \subseteq OperationNames
    /\ \A n \in Names : \A args \in Lists(n) :
          /\ args \in Seq(STRING) /\ Accepts(CallOf(n).args, args)
          /\ \A i \in DOMAIN args : args[i] \notin {"a%2Fb", "%2541"}
ASSUME SettingsAssumption ==
    \A n \in Names : \A args \in Lists(n) :
        Settings(n, args) \subseteq
            [options: BOOLEAN, enumsOk: BOOLEAN, bodyOk: BOOLEAN]
ASSUME VerdictsAssumption == Verdicts \subseteq {"accept", "reject", "skip"}

VARIABLES
    call,      \* the call, which does not change
    stage,     \* how far it has come
    wire,      \* the request on the wire
    matched,   \* the handler the router chose, and its arguments
    params,    \* the parameters it decoded
    ran,       \* what the implementation of Handler was called with
    answer,    \* the typed response it returned
    reply,     \* the response on the wire
    decoded,   \* the typed response the generated client returned
    result     \* what the service method returned

rtvars == <<call, stage, wire, matched, params, ran, answer, reply, decoded,
            result>>

None == [op |-> "none"]
NoAnswer == [type |-> "none", valid |-> FALSE]

\* The operation the caller means, and the two ends generated for it.
Meant == CallOf(call.name).op
Ours == Client[Meant]
Theirs == Server[matched.op]

RTInit ==
    /\ \E n \in Names : \E args \in Lists(n) : \E s \in Settings(n, args) :
          call = [name |-> n, args |-> args, options |-> s.options,
                  enumsOk |-> s.enumsOk, bodyOk |-> s.bodyOk]
    /\ stage = "Send"
    /\ wire = None /\ matched = None /\ params = None /\ ran = None
    /\ answer = NoAnswer /\ reply = None /\ decoded = NoAnswer
    /\ result = Pending

-----------------------------------------------------------------------------
(* Requests.                                                               *)

\* BuildURL, EncodeQueryParams and EncodeRequest of send<Op>.
Send ==
    /\ stage = "Send"
    /\ stage' = "Route"
    /\ wire' = [method |-> Ours.method,
                path |-> Fill(Ours.path,
                    [i \in DOMAIN call.args |-> PathEscape(call.args[i])]),
                query |-> Ours.query.required \cup
                          (IF call.options THEN Ours.query.optional ELSE {}),
                body |-> Ours.body.type]
    /\ UNCHANGED <<call, matched, params, ran, answer, reply, decoded, result>>

\* A body of JSON: an object with these marks (see PostmanErr).
Body(fits, status, json) ==
    [json |-> json, status |-> status, titled |-> FALSE, fits |-> fits,
     usable |-> TRUE]

Responds(status, json, type, body) ==
    reply' = [status |-> status, json |-> json, type |-> type, body |-> body]

\* A mutant of ErrorHandler: whatever went wrong, the request was bad.
ErrorHandlerBadRequest(status) ==
    /\ stage' = "Decode"
    /\ Responds(400, TRUE, "error", Body(FALSE, 0, "object"))

\* ogenerrors.DefaultErrorHandler: {"error_message": ...} under a status.
ErrorHandler(status) ==
    /\ stage' = "Decode"
    /\ Responds(status, TRUE, "error", Body(FALSE, 0, "object"))

\* ServeHTTP; http.NotFound writes text, notAllowed nothing.
RouteRequest ==
    /\ stage = "Route"
    /\ LET to == Route(wire.method, Elem(wire.path))
       IN  \/ /\ to \in {NotFound, NotAllowed}
              /\ stage' = "Decode"
              /\ Responds(IF to = NotFound THEN 404 ELSE 405, FALSE, "none",
                          Body(FALSE, 0, "broken"))
              /\ UNCHANGED matched
           \/ /\ to \notin {NotFound, NotAllowed}
              /\ stage' = "Security"
              /\ matched' = to
              /\ UNCHANGED reply
    /\ UNCHANGED <<call, wire, params, ran, answer, decoded, result>>

\* A proxy in front of the server answers in its place, with a page of HTML:
\* that it has no answer, or, to whoever asks, its own page under a 200.
Intercept ==
    /\ stage = "Route"
    /\ stage' = "Decode"
    /\ \E status \in {200, 502} :
          Responds(status, FALSE, "page", Body(FALSE, 0, "broken"))
    /\ UNCHANGED <<call, wire, matched, params, ran, answer, decoded, result>>

\* securityApiKey: the client has sent its key; HandleApiKey may refuse it, or
\* say it does not apply, which leaves the only requirement unsatisfied.
Secure ==
    /\ stage = "Security"
    /\ \/ /\ "accept" \in Verdicts
          /\ stage' = "DecodeParams"
          /\ UNCHANGED reply
       \/ /\ Verdicts \cap {"reject", "skip"} # {}
          /\ ErrorHandler(401)
    /\ UNCHANGED <<call, wire, matched, params, ran, answer, decoded, result>>

\* The arguments as decode<Op>Params reads them, and a mutant of it that
\* unescapes them whether or not they are escaped.
AlwaysUnescaped(args) == UnescapeAll(args)

Unescaped(args) ==
    IF ElemIsEscaped(wire.path) THEN UnescapeAll(args) ELSE args

\* Whether decode<Op>Params succeeds: no argument is empty, what is required
\* is there, and enumerations are kept.  A mutant forgets the first.
ParamsDecodeLeniently ==
    LET query == Theirs.params.query
    IN  /\ query.required \subseteq wire.query
        /\ wire.query \cap Theirs.params.enums # {} => call.enumsOk

ParamsDecode ==
    LET query == Theirs.params.query
    IN  /\ \A i \in DOMAIN matched.args : matched.args[i] # "empty"
        /\ query.required \subseteq wire.query
        /\ wire.query \cap Theirs.params.enums # {} => call.enumsOk

DecodeParams ==
    /\ stage = "DecodeParams"
    /\ \/ /\ ParamsDecode
          /\ stage' = "DecodeRequest"
          /\ params' = [op |-> matched.op, args |-> Unescaped(matched.args),
                        query |-> wire.query \cap
                            (Theirs.params.query.required \cup
                             Theirs.params.query.optional)]
          /\ UNCHANGED reply
       \/ /\ ~ParamsDecode
          /\ ErrorHandler(400)
          /\ UNCHANGED params
    /\ UNCHANGED <<call, wire, matched, ran, answer, decoded, result>>

\* decode<Op>Request of a handler with a body.  A body of another type than
\* the handler's, which only a request on the wrong route brings, may or may
\* not decode.
BodyAccepted ==
    \/ Theirs.body = NoBody
    \/ /\ wire.body # "none"
       /\ wire.body = Theirs.body.type /\ Theirs.body.checked => call.bodyOk

BodyRefused ==
    /\ Theirs.body # NoBody
    /\ \/ wire.body # Theirs.body.type
       \/ Theirs.body.checked /\ ~call.bodyOk

DecodeRequest ==
    /\ stage = "DecodeRequest"
    /\ \/ BodyAccepted /\ stage' = "Handle" /\ UNCHANGED reply
       \/ BodyRefused /\ ErrorHandler(400)
    /\ UNCHANGED <<call, wire, matched, params, ran, answer, decoded, result>>

-----------------------------------------------------------------------------
(* Answers.                                                                *)

\* The implementation returns a value of one of the types of its interface,
\* which may violate constraints of the document, or of no such type ...
Handle ==
    /\ stage = "Handle"
    /\ stage' = "EncodeResponse"
    /\ ran' = params
    /\ \/ /\ "answer" \in Conducts(call)
          /\ answer' \in [type: DOMAIN Theirs.encode.status, valid: BOOLEAN]
       \/ /\ "foreign" \in Conducts(call)
          /\ answer' = [type |-> "foreign", valid |-> FALSE]
    /\ UNCHANGED <<call, wire, matched, params, reply, decoded, result>>

\* ... or an error; that of UnimplementedHandler says 501.
HandlerFails ==
    /\ stage = "Handle"
    /\ ran' = params
    /\ \/ "error" \in Conducts(call) /\ ErrorHandler(500)
       \/ "unimplemented" \in Conducts(call) /\ ErrorHandler(501)
    /\ UNCHANGED <<call, wire, matched, params, answer, decoded, result>>

\* A problem body, if that is what the type holds, may name the status.
EncodeResponse ==
    /\ stage = "EncodeResponse"
    /\ \/ /\ answer.type \in DOMAIN Theirs.encode.status
          /\ stage' = "Decode"
          /\ LET status == Theirs.encode.status[answer.type]
             IN  \E member \in {0, status} :
                   Responds(status, answer.type \notin Theirs.encode.bare,
                       answer.type, Body(answer.valid, member, "object"))
       \/ /\ answer.type \notin DOMAIN Theirs.encode.status
          /\ ErrorHandler(500)
    /\ UNCHANGED <<call, wire, matched, params, ran, answer, decoded, result>>

\* Whether decode<Op>Response can, and whether it must, accept a body under a
\* case.  A schema takes a body of its own type, unless the function validates
\* what is not valid; it may take a body of another type.
CanDecode(case) ==
    \/ case.kind = "nothing"
    \/ reply.json /\ case.kind \in {"raw", "object"}
    \/ /\ reply.json /\ case.kind = "schema"
       /\ reply.type = case.type /\ case.checked => reply.body.fits

CannotDecode(case) ==
    /\ case.kind # "nothing"
    /\ ~reply.json \/ (case.kind = "schema" /\ (reply.type # case.type \/
                                    (case.checked /\ ~reply.body.fits)))

\* The generated client, up to the type it returns or its error ...
DecodeTyped ==
    /\ stage = "Decode"
    /\ reply.status \in DOMAIN Ours.decode
    /\ CanDecode(Ours.decode[reply.status])
    /\ stage' = "Switch"
    /\ decoded' = [type |-> Ours.decode[reply.status].type,
                   valid |-> reply.body.fits]
    /\ UNCHANGED <<call, wire, matched, params, ran, answer, reply, result>>

\* ... which the service method returns as it is.
DecodeFails ==
    /\ stage = "Decode"
    /\ \/ reply.status \notin DOMAIN Ours.decode
       \/ /\ reply.status \in DOMAIN Ours.decode
          /\ CannotDecode(Ours.decode[reply.status])
    /\ stage' = "done"
    /\ result' = Plain("DecodeResponse")
    /\ UNCHANGED <<call, wire, matched, params, ran, answer, reply, decoded>>

SwitchResponse ==
    /\ stage = "Switch"
    /\ stage' = "done"
    /\ result' = Switch(Row(call.name), reply)
    /\ UNCHANGED <<call, wire, matched, params, ran, answer, reply, decoded>>

RTNext ==
    \/ Send \/ Intercept
    \/ RouteRequest \/ Secure \/ DecodeParams \/ DecodeRequest
    \/ Handle \/ HandlerFails \/ EncodeResponse
    \/ DecodeTyped \/ DecodeFails \/ SwitchResponse

RTSpec == RTInit /\ [][RTNext]_rtvars

-----------------------------------------------------------------------------
(* Properties.                                                             *)

\* The words that make the id of a collection another route: after
\* "collections" the tree has a leaf "collection-forks" and the prefix "fork/".
Confusing == {"collection-forks", "fork"}

\* Whether no argument of a route is the id of a collection and confusing.
NotConfusing(route, args) ==
    LET path == Fill(route, args)
    IN  Len(path) >= 2 /\ path[1] = "collections" /\ route[2] = "*"
            => path[2] \notin Confusing

Ordinary == NotConfusing(Ours.path, call.args)

\* Whatever texts a caller passes as identifiers - with slashes, looking
\* escaped, equal to segments of this or other routes - the handler of the
\* operation meant runs, or none: never another one.  It gets the same
\* identifiers in the same order, each escaped and unescaped once, and the
\* query that was set.  The one exception is a collection whose id is
\* "fork" or "collection-forks".
OwnHandlerRuns ==
    ran # None /\ Ordinary
        => /\ ran.op = Meant
           /\ ran.args = call.args
           /\ ran.query = Ours.query.required \cup
                  (IF call.options THEN Ours.query.optional ELSE {})

\* What a proxy has answered, not the server.
Intercepted == reply # None /\ reply.type = "page"

\* An empty identifier never stands for "all of them": whichever of the 196
\* operations it is passed to, no handler runs and the server gives the caller
\* no value.
EmptyIdentifiersAreRefused ==
    (\E i \in DOMAIN call.args : call.args[i] = "empty")
        => ran = None /\ (result.kind = "ok" => Intercepted)

\* The method and the route under which a handler counts its request, filled
\* with the arguments it was given, are the request line, for every identifier,
\* also where one brought the request to another operation.  Where the prefix
\* "fork/" is lost they are the request line without it: a request for a
\* collection named "fork" is served as one for the collection its next
\* segment names, and for nothing else.  Neither the request nor its match
\* changes once the handler runs.
LabelsNameTheRequest ==
    matched # None /\ ran = None
        => LET path  == Elem(wire.path)
               label == Fill(Theirs.route, matched.args)
           IN  /\ Theirs.method = wire.method
               /\ label = IF ForkPrefixLost(path) /\ Theirs.route[1] # "*"
                          THEN WithoutFork(path) ELSE path

\* A typed response of the handler reaches the type switch with its type, for
\* every type of every operation, or is refused by validation; it is never
\* taken for another one.  What is not typed - an error, a value of no type of
\* the operation - reaches it as an error response of that operation or not at
\* all.
AnswersKeepTheirType ==
    decoded # NoAnswer /\ ran # None /\ Ordinary
        => \/ decoded.type = answer.type
           \/ /\ answer.type \notin DOMAIN Theirs.encode.status
              /\ Theirs.encode.status[decoded.type] >= 500

\* The caller gets a value only from a handler that was called, with an
\* accepted key and decoded parameters and body, and answered 200: errors of
\* the server's own stages, whatever their body, never decode as success.  A
\* page a proxy sends under a 200 is a value only for the operations without a
\* schema for their success.
ValuesComeFromHandlers ==
    result.kind = "ok"
        => \/ /\ ran # None
              /\ answer.type \in DOMAIN Theirs.encode.status
              /\ Theirs.encode.status[answer.type] = 200
           \/ Intercepted /\ Ours.decode[200].kind = "nothing"

\* An APIError carries the status the server wrote, whichever of its stages
\* wrote it, except where the type switch lacks the case.
ErrorsKeepTheServersStatus ==
    result.kind = "api"
        => result.status = reply.status \/
           reply.status \in Row(call.name).unhandled

=============================================================================
