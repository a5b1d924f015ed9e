# A verification project for postman-go

postman-go is a Go SDK for the Postman API: 31 service packages, 196 service
methods, on top of a client and a server that ogen generates from one OpenAPI
document. This directory holds TLA+ modules that model it, configurations
under which TLC checks them on small instances, and proofs, checked by TLAPS,
of what matters most for every instance.

The SDK keeps hardly any state of its own and starts no goroutine. What is hard
about it lies elsewhere: each call is a chain of stages with deferred functions
that run in reverse order, over connections that other calls want too, against
a server that may answer late, twice, in part or not at all; a response passes
through two layers (a decoder and a type switch, 196 of each) that must agree
on every status; a request passes through a client, a router, parameter and
body decoders, and a response back through an encoder, all generated, 196 of
each, that must agree with one another; a client may share its `http.Client`
with others, which `NewClient` changes; and callers build loops from several
calls - retries, pages, exports, read-modify-write - between which the world
moves on.

## 1. Inventory

| Component | State | Operations | Correct when |
|---|---|---|---|
| Root client, `client.go` | the API key, the base URL, one pointer per service; the `Transport` field of an `http.Client` that may be the caller's | `NewClient` and its options, `userAgentTransport.RoundTrip`, 31 accessors | every request carries the SDK's `User-Agent` and its own client's key and reaches a transport, whatever is shared, in whatever order clients are built, and although some of them fail |
| Generated client, `internal/api/oas_client_gen.go`, `oas_request_encoders_gen.go`, `oas_response_decoders_gen.go` | instruments (requests, errors, durations); per call: `stage`, `err`, the response body | `send<Op>` for every operation: count, build, encode, sign, `Do`, decode, and three deferred functions | connections come back whatever fails; one attempt per call; instruments agree with the calls; every call returns; declared errors are never lost |
| Generated server, `oas_router_gen.go`, `oas_handlers_gen.go`, `oas_parameters_gen.go`, `oas_request_decoders_gen.go`, `oas_response_encoders_gen.go` | instruments by status; per request: `codeRecorder.status`, the deferred functions | `ServeHTTP`, `handle<Op>Request` for every operation | the handler meant runs with the arguments meant, or none; every refusal is an error to the caller; metrics tell what was sent |
| Errors, `postmanerr` | none | `FromProblemDetails`, `Empty`, `APIError` | `StatusCode` is the status of the response |
| 31 service packages | none (a pointer to the generated client) | 196 methods: build a request, call the generated client, switch over the typed response, copy its fields | every declared response has its case; nothing but a 200 becomes a value; zero values, cursors and raw members mean what the caller thinks |
| OCSF mapping, `ocsf` | none | `FromQueryResult`, `FromActivityFeed` and their helpers | a finding that is closed looks closed; activity, status and severity agree |
| OpenAPI generator, `scripts/gen-openapi` | registries of names (`usedNames`, `declToFinal`, `enumByName`, `errorClassToRef`), `components` | three passes over a TypeScript SDK | names are unique, references resolve to the declaration meant |
| Guides, `docs/` | the loops that callers are told to write | `withRetry`, the loop over pages, the export of findings | nothing is done twice, missed or reported wrongly; the loops end |
| Generated types with their JSON codecs and validators, the OpenAPI document | none | | data, see section 8 |

How they interact: a goroutine of the caller calls a service method, which
calls `send<Op>` on the one `api.Client` that all services of a `Client` share.
`send<Op>` calls `http.Client.Do`, which reads the `Transport` field, enters
`userAgentTransport.RoundTrip`, and through it net/http's transport with its
pool of connections. The server is Postman's, or the generated one, whose
`ServeHTTP` finds the handler of the operation, which authenticates, decodes,
calls the user's implementation and encodes. The decoder of the client gets the
response, and `send<Op>` returns a typed response or an error to the service
method. Calls share nothing but the instruments, the pool and the `Transport`
field; handlers share nothing but the server's instruments.

Hard behaviours: a deadline racing a reply; a request executed although its
caller has an error; replays by net/http; a change that was applied and whose
answer does not convert; the deferred drain, which waits for the server while it
holds a connection; deferred steps between which somebody scrapes the
instruments; a status that one of two layers does not know; problem bodies that
contradict their status line; unsynchronised changes of a shared `http.Client`;
identifiers that look like other paths; a router that backtracks; a server that
fails after its status is on the wire; lists that change while they are walked
or edited; answers that are old when they arrive. `PROJECT.json` lists each
hazard at its line with the properties that cover it.

## 2. Modules

Calls and transports:

| Module | Models |
|---|---|
| `PostmanErr` | results of a call, bodies as the SDK can tell them apart, `FromProblemDetails`, `Empty`, the default of every type switch |
| `Operation` | one operation: its method and declared statuses, decoding (`Decodes`), the type switch (`Switch`), and both together (`Outcome`) |
| `ServiceCatalog` | the 196 service methods, one row each: which error statuses are kept as raw JSON, which have an empty schema, which the switch forgets, whether arguments or results are converted by hand |
| `CallContract` | what a caller may rely on; the abstract specification |
| `ApiCall` | concurrent calls through the service method and `send<Op>`, with the server, the network and net/http as the environment |
| `ApiCallRefinement` | the refinement mapping from `ApiCall` to `CallContract` |
| `Responses` | every reply to every operation of the catalogue |
| `ClientTransport` | `NewClient`, the shared `http.Client`, the wrappers |

The generated package, one definition per generated function:

| Module | Models |
|---|---|
| `Endpoint` | the vocabulary: bodies, parameters, patterns, the two ends of an operation |
| `RequestEncoders`, `RequestDecoders` | `encode<Op>Request`, `decode<Op>Request`: the type of each body and whether the server validates it |
| `ResponseEncoders`, `ResponseDecoders` | `encode<Op>Response`, `decode<Op>Response`: the status of each type, the type of each status |
| `Parameters` | `decode<Op>Params`: path arguments in order, query parameters, enumerations |
| `GeneratedClient`, `GeneratedServer` | `send<Op>` and `handle<Op>Request`: method, path or route, and the functions above |
| `Routes`, `Router` | the tree of `ServeHTTP`, with its 107 leaves, and how it is searched |
| `ServiceCalls` | which operation each service method calls, with which arguments |
| `RoundTrip` | a call of any service method against the generated server, composed of all of these |
| `ServerHandlers` | concurrent requests in the handlers, with their deferred functions and instruments |

What callers build, and tools:

| Module | Models |
|---|---|
| `RateLimitRetry` | `withRetry` of `docs/guides/rate-limiting.md` around any operation |
| `Pagination` | the loop over `secretscanner.Query` of `docs/services/secretscanner.md` |
| `TagsRoundTrip` | editors who read and replace a list of tags with package `tags` |
| `PartialUpdate` | `monitors.Update`, which leaves out zero values |
| `MergeTask` | `collections.MergeForkAsync` and `MergeForkAsyncStatus`: start, poll, expiry |
| `Ocsf` | package `ocsf` within the export loop of `docs/guides/ocsf.md` |
| `GenOpenApi` | component names and references in `scripts/gen-openapi/index.mjs` |

`ApiCallProofs`, `ResponsesProofs`, `ClientTransportProofs`,
`RoundTripProofs`, `ServerHandlersProofs`, `WorkflowsProofs` (retries, pages,
tags, updates, merges), `OcsfProofs` and `GenOpenApiProofs` hold the theorems;
`MCApiCall`,
`MCResponses`, `MCClientTransport`, `MCRoundTrip`, `MCServerHandlers`,
`MCWorkflows` and `MCGenOpenApi` are the instances for TLC.

### ApiCall

`pc[c]` is the stage of call `c`. Its values are the strings the code keeps in
`stage`, with the deferred functions and the service method around them:

| Action | Code |
|---|---|
| `Begin`, `StartRequest`, `RejectArguments` | the service method up to its call of the generated client; `send<Op>` is entered and `c.requests.Add` done |
| `EncodeRequest`, `EncodeFails` | stages BuildURL to Security:ApiKey; the static security source cannot fail |
| `Connect`, `Receive`, `GiveUp`, `DialFails` | `c.cfg.Client.Do` |
| `DecodeHead`, `DecodeBody`, `ReadFails` | `decode<Op>Response`: undeclared status or media type; a body read to its end; a body that breaks off |
| `CloseBody` | the deferred drain and close |
| `RecordError`, `RecordDuration` | the other two deferred functions, in the order they run |
| `Answer` | the service method: the error as it is, or its type switch |
| `Expire` | the context is done, or `http.Client.Timeout` is over |
| `Serve`, `FinishBody`, `Reset`, `ExecuteLate`, `Replay` | the server, the network, net/http's replay of GETs (external) |

`wire[c]` is the exchange of the call on a connection; `applied[c]` counts how
often the server executed the request, `orphans[c]` the copies of it that have
lost their connection and may be executed later. `failed[c]` is the stage in
which the generated client failed, which is all the model keeps of an error.

The server executes what it answers below 400, refuses what it answers with
4xx, and may have done either when it answers 5xx. net/http sends a GET more
than once if a connection breaks before there is a reply, other requests only
as long as nothing of them was written, which has no effect and is not counted
as an attempt.

### CallContract

Three actions: a call opens, the server executes its request, the call
returns. A request that is not a GET is executed at most once; a value means it
was executed; an APIError with a 4xx status means it was not and will not be; a
plain error means nothing. This is what a caller has to know to write a retry:
after a plain error a request that is not a GET may still be executed.

### ClientTransport

`transport[h]` is the `Transport` field of `http.Client` `h`, `base[m]` the
base of the wrapper made by call `m` of `NewClient`. `NewClient` is split where
other goroutines can see it: the read of the field (`ReadTransport`), the
assignment (`WrapTransport`) and `api.NewClient` (`MakeAPIClient`, which fails
if the base URL does not parse, and leaves the wrapper in place). `serialised`
says whether callers keep uses of one `http.Client` apart; it is chosen at the
start. If they do not, a read while somebody is about to assign is a data race:
it may return a `"torn"` interface value.

### RoundTrip

`stage` walks through `Send` (client), `RouteRequest`, `Secure`,
`DecodeParams`, `DecodeRequest`, `Handle` or `HandlerFails`, `EncodeResponse`
(server), `DecodeTyped` or `DecodeFails`, and `SwitchResponse` (client, service
method). Each action looks its operation up in the tables of the generated
modules: `Client[op]` on the near side, `Server[matched.op]` on the far side,
where `matched` is what the router found, which need not be the operation
meant. `Intercept` (external) is a proxy that answers in the server's place with a
page of HTML, under 502 or under 200. `wire`, `params`, `ran`, `answer`, `reply`, `decoded` and `result` are
what one stage hands to the next.

Identifiers are tokens. Three stand for texts that conversions change: the empty
text, one with a slash, and one that looks escaped; `PathEscape`,
`PathUnescape` and `HasRawPath` do to them what net/url and net/http do. The
router is a set of patterns with the rule by which its tree prefers them
(static prefixes first, with backtracking), and its one irregularity: under
`/collections/fork/` a longer path loses the prefix for the rest of the search
(`ForkPrefixLost`). What that can do is bounded by `Confusing`: only the id of a
collection that is "fork" or "collection-forks" can bring a request to another
operation than the one called (section 7).

### ServerHandlers

`code[r]` is `codeRecorder.status`, which the latest `WriteHeader` sets;
`sent[r]` is the status on the wire, which the first one does. `Refuse` is
"defer recordError, ErrorHandler, return", with the status ogen's `ErrorCode` gives
the error (400, 401, 415, 500 or 501); the deferred functions
`RecordError`, `Stopwatch` and `RecordDuration` follow in the order they run
in, and `Panic` goes straight to the second. `requests`, `errors` and
`durations` map a status to a count. `Statuses` is whatever the encoders and
`ErrorCode` may write; the instance names the 14 statuses of the generated code,
and `GeneratedHandlersWrite` has TLC check that the 196 encoders write no other.

### Workflows

- `RateLimitRetry`: `attempt` and `err` of `withRetry`; an attempt is one call
  of `ApiCall` from begin to end, whose result is `Outcome` of the reply or a
  plain error, and which the server has executed or not, as `Serve` says.
- `Pagination`: `cursor` and `listed` of the caller; `found` and `resolved` of
  the server, which change between the pages. `pageLimit`, `CursorSent` and
  `NextCursor` are the conversions of `secretscanner.Query`; the server is
  external.
- `TagsRoundTrip`: `Read` is `tags.Collection` with `tagsFromRaw`, which makes
  no tags of a list it cannot parse; `Write` is `UpdateCollection`, which
  replaces the list. `blind` and `stale` say what was wrong with a copy.
- `PartialUpdate`: an optional member of a request is a set of at most one
  value; `optionsToAPI` drops the zero values.
- `MergeTask`: a call is in flight, answered, or returned, and tasks end and
  expire meanwhile. `told` and `verdict` are what the caller knows.
- `Ocsf`: the caller lists secrets (`QuerySecrets`), fetches the feed of each
  (`Locate`) and stores the events of the mapping in `lake`, while `Change`
  closes and reopens them. The entry of a closing has its time or none, since the
  schema requires no `resolvedAt`; one that reopens a secret has none. `lastTold`
  is the last entry of the feed at the last `Locate`.

### GenOpenApi

A file declares an enum, a type, an error class, or an error class with a type
of its own, under a name; names are sequences of tokens, so that `X_2` can be
declared and also made by a suffix, whose number is written in strokes.
`RegisterEnum`, `RegisterType` and
`IndexComplete` are pass 1, `BuildComponents` is pass 2, and `refForErrorClass`
is what pass 3 does with names; within a pass any order of files is possible.

## 3. Runs

| Run | Instance | Shows |
|---|---|---|
| `api_calls` | 2 calls, 5 replies, 1 connection, GETs sent at most twice; 295,209 states | safety, the refinement of `CallContract`, and that every call returns |
| `responses` | 196 operations, 15 statuses, 2 media types, 24 bodies; 282,240 states | declared errors are APIErrors under their own status |
| `client_transport` | 2 clients on 1 shared `http.Client`, 1 on its own, with and without synchronisation, base URLs that parse or not, environment changing; 45,012 states | requests are identified and delivered; races stay with those who share |
| `round_trip` | 196 service methods, 26,030 calls, every verdict of the security handler and conduct of the handler, a proxy's page instead of an answer; 431,188 states | a request reaches its own handler with its own arguments or none, unless the id of a collection is one of two words; types and statuses survive; only a handler's 200 becomes a value, and a proxy's where no body is read |
| `server_handlers` | 3 requests, one with parameters and body, one with neither, one whose success has no body; 14 statuses; 229,500 states | instruments count each request once, under the status its client was sent |
| `workflows` | one of six workflows at a time, see below; 1,155,110 states | nothing is done twice, missed, erased unseen or reported wrongly; every loop ends |
| `gen_openapi` | 2 services, 3 colliding names, any declarations in any order; 652,821 states | components are distinct, references lead to the declaration meant |
| `undeclared_status`, `status_override`, `unhandled_status`, `gen_openapi_references`, `ocsf_partner` | | violations, see section 7 |

Why these bounds are enough.

- `api_calls`. Calls interact through the pool and the instruments only. Two
  calls over one connection are the smallest instance in which a call waits for
  another and is starved by one that does not give its connection back. The
  two operations are chosen from the catalogue: the PATCH converts its argument
  and its result (so it can fail before the request and after the answer), and
  the GET is replayed and has statuses without a case. The 5 replies take each
  branch: a good value, one that does not convert, a JSON value that is not an
  object under 404, a 500 (executed or not), and HTML from a proxy. Two
  attempts are enough for a replay; the theorems hold for all limits.
- `responses`. The statuses are all that any operation declares, with 204, 302
  and 502 that none does; a problem body carries its own status or none.
  Contradicting bodies are left to `status_override`.
- `client_transport`. Three makers give a stack of two wrappers in either order,
  a failing call at either place, and a bystander.
- `round_trip`. Operations are independent, so one call at a time is all there
  is. A place of an identifier takes every segment of the routing tree, the
  empty text, one with a slash and one that looks escaped, also next to an
  identifier "fork"; two places take every pair of the words that the router
  treats specially, and the words with which `Confusing` brings a request elsewhere
  follow both of its members; the run fails if either is taken out. Since a path has at most three identifiers, and routes
  that can be confused differ in the words they have at these places, longer
  combinations meet no other routes. The rest of the call, the values of enums
  and bodies, and the conduct of the handler vary for ordinary identifiers and
  for those with one "fork" or empty text; with other identifiers they are as
  usual, because the stages behind the router do not look at identifiers.
- `server_handlers`. A third request shows that a count is no mere flag; the
  theorems hold for any number. The three handlers write 200, 400, 401, 403, 404,
  411, 413 and 500 between them, `ErrorCode` 415 and 501 too; the rest
  of the 14 statuses are other encoders', which differ in nothing else.
- `workflows`. The workflows share no state, so each behaviour runs one of them,
  chosen at the start; the others stand at their ends. Retries: five operations,
  four of which declare 429, up to three attempts, with cancellation. Pages: up
  to 4 secrets, pages of one, two and a hundred, limits that are refused, and
  servers that may leave out `meta`. Tags: two editors, four tags, a limit of
  three. Updates: every value of the options, 4 delays. Merges: two tasks, two
  watches. Export: one secret whose status changes four times, which is enough
  for it to be closed, reopened and closed in another way while the page is
  old, with and without the times of its closings; secrets do not interact.
- `gen_openapi`. A name declared twice, one that the first suffix makes, and
  one that cleaning makes equal to that: suffixes collide with declared names
  and have to be tried again.

Deadlock is checked in `api_calls`, `client_transport` and the two runs of
`MCWorkflows`: these systems go on for ever, or stutter at their ends and may
stop nowhere else. The other modules evaluate a function, follow one call, or
serve a fixed set of requests, and stop.

Every property of a passing run has a mutant: a definition of the modules
beside the one it replaces, changed as a plausible bug would, under which TLC
finds the property violated. The MC modules, but for `MCServerHandlers`, extend
the modules of proofs, so that TLC evaluates their assumptions, those about the
tables over all rows; `MCServerHandlers` extends `ServerHandlers` and
`GeneratedServer`, which have all of theirs; `api_calls`, `client_transport` and `server_handlers`
check the inductive invariants themselves.

## 4. Fairness

- `api_calls` assumes `DeadlineFairness \/ ServerFairness`, so that calls
  return under either. The first: weak fairness of what the goroutine of a call
  does next, and of its deadline. Go's scheduler runs a goroutine that can run,
  and timers fire; by default `NewClient` gives its `http.Client` a timeout of
  30 s, which also bounds reading the body. Nothing is assumed of the server.
  The second is for a caller's own `http.Client` without a timeout: then the
  server must answer each request it has and send its body to the end. The pool
  needs no strong fairness, because each call is made once: the connection is
  taken only finitely often.
- `client_transport`: a request inside `RoundTrip` goes on.
- `workflows`: the calls of a loop return, which is `EveryCallReturns`; the
  timer of a wait fires; the server ends a merge it has started. Nothing makes
  it expire a task, find or resolve a secret, or answer with a 200.

## 5. Proofs

`ApiCallProofs`, for any finite set of calls, any operations, replies (with a
status of at least 200, since net/http keeps informational ones) and limits:

| Theorem | States |
|---|---|
| `Invariance`, `TypeCorrectness` | `Spec => []IInv`, `Spec => []TypeOK` |
| `ConnectionsReturn` | `Spec => []NoConnectionLeak` |
| `NoDoubleExecution` | `Spec => []AtMostOnce` |
| `ValuesAreEarned` | `Spec => []ValueMeansExecuted` |
| `AnswersAreFinal` | `Spec => AnswerIsFinal` |
| `InstrumentsAgree` | `Spec => []InstrumentsCount` |
| `Implementation` | `Spec => ContractSpec` |

`Implementation` also assumes `ConsistentReplies`, that no body contradicts
its status line: without it a 500 whose body says 404 looks like a refusal of a
request that was executed (the run `status_override` shows how). The others do
not use it.

None of the safety properties is inductive. `AtMostOnce` bounds
`applied + orphans`, and `Serve` adds to `applied`: one has to know that a
request on the wire was not executed before, which holds because it was put
there once and `Reset` and `DropRequest` take it off the wire as they orphan it
(`SentOnce`). `AnswerIsFinal` needs that an orphan has no reply (`SentOnce`)
and that a value or an APIError comes from one (`Decoded`).
`ValueMeansExecuted` needs that the reply the switch sees is one the decoder
accepted and the server gave (`Decoded`, `Executed`). `NoConnectionLeak` needs
the stages in which an exchange can be on a connection at all (`Exchanged`).
`NothingSentYet` gives the state of calls that fail before `Do`. `IInv` is
`TypeOK` and, for each call, these five. Each action changes the state of one
call, so `OtherCalls` disposes of the rest, and there is one lemma `Keeps...`
per action for the call itself.

`InstrumentsAgree` is about cardinalities: by `CountingSteps` each step adds one
element to one of the three sets that are counted, or leaves them alone.
`Implementation` maps `Begin` to `Open`, `Serve` and `ExecuteLate` to `Execute`
(or to a stutter, if the server refuses), `RejectArguments` and `Answer` to
`Return`, and the rest to stutters.

`ClientTransportProofs`, for any calls of `NewClient` on any `http.Client`s,
shared in any way, serialised or not: `TransportInvariance` (`[]TInv`),
`TransportTypes`, `SentIsIdentified` (`[]RequestsAreIdentified`) and
`RacesStayOutside` (`[]PrivateClientsAreSafe`). That a request is stamped says
nothing of the field it starts from: the invariant adds that once a client is
past its assignment, its `http.Client` holds a wrapper, its own or one that a
later call has put on top, that no wrapper has a wrapper without a base below
it, and that a request which has reached a transport was stamped on the way
(`RequestIsWrapped`). `KeyIsResolved` carries the key from the options or the
environment to the requests, and `PrivateIsAlone` says that an `http.Client`
which `NewClient` has made is read and assigned by one call only, so that no
torn value can come from it. `MakersAssumption` keeps the names of calls,
clients and transports apart, which TLC's model values do by themselves.

`ServerHandlersProofs`, for any finite set of requests and any handlers, whatever
statuses their encoders write (`Statuses` is a constant that has to include these
and the five of `ErrorCode`): `HandlersInvariance` (`[]HInv`),
`HandlersTypes`, `MetricsTellTheStatus` (`[]CountedAsSent`) and
`InstrumentsCountRequests` (`[]MetersCount`). `CountedAsSent` speaks of requests
that have been counted; `HInv` adds what holds on the way: nothing is written
before the encoder or a refusal, and from the first status on only a body that
breaks off makes `code` differ from `sent`. `MetersCount` needs besides that
`code[r]` does not change once `r` is counted (`WhoIsCounted`).

`ResponsesProofs`, for any operations and replies: `ReturnInvariant`,
`ErrorsKeepTheirStatus` (`[]ConsistentErrorsKeepTheirStatus`) and
`DeclaredErrorsArrive` (`[]DeclaredErrorsAreAPIErrors`). Nothing is assumed of
the rows of `ServiceCatalog`: every branch of a type switch that does not yield a
value yields an APIError (`SwitchOfReply`).

`RoundTripProofs`, for any identifiers, any settings of the rest of a call, any
verdict of the security handler and any conduct of the handler. The 196
operations are data, so the proof states what it needs of them, one assumption
for each pair of generated parts that must agree, and TLC evaluates these over
all rows:

| Assumption | About |
|---|---|
| `PatternsAssumption`, `WordsAssumption` | routes are finitely many non-empty paths, whose words no conversion changes, and of which only short ones meet the irregularity of "fork" |
| `PrecedenceAssumption` | of two routes with a method in common that one path can match, the one whose word stands where the other has a place for an identifier is tried first, unless the words make the id of a collection one of `Confusing` |
| `LeavesAssumption` | the leaf of a route and method is a handler of that route and method |
| `TypesAssumption` | no type has the name of one of the model's own tokens |
| `RequestsAssumption` | both ends of an operation agree on route, number of identifiers, query and body |
| `ResponsesAssumption` | encoder and decoder map types and statuses to each other both ways, and the switch has a row for each |

From these, for any identifiers: escaping, routing and unescaping give back the
arguments in order (`RanksAreNumbers` and the lemmas on `Fill` and `Arguments`),
and the best match is the route of the operation, since any other that matches
and has a handler for the method is tried after it, or there is no handler for the
method at the best match, and then none runs (a least rank exists because `<` is well-founded on the
numbers). `RTInv` (`RTInvariant`) says for each stage what the ones before it
have established: what is on the wire is what the client sent (`WireInv`), what
the router found (`MatchInv`), that a handler runs only with decoded parameters
and an accepted body (`DecodingInv`, `RanInv`), that what it answers is on the
wire under the status of its type, or a refusal without one (`AnswerInv`,
`ReplyInv`), and that the two conversions of the client undo it (`DecodedInv`,
`ResultInv`). From it: `OwnHandler`, `ValuesFromHandlers`, `EmptyRefused`,
`ErrorsKeepStatus`, `LabelsNameRequest` and `AnswersKeepType`, one for each
property of the run `round_trip`. `LabelsNameRequest` holds of every request that
reaches a handler, its own or not: where the prefix "fork/" is lost, the request is
served under the path without it. `ValuesFromHandlers` leaves a proxy's page under
200 to the 18 operations whose decoder reads no body.

`WorkflowsProofs` has one section for each program.

*Retries*, for any operations and limits, and for answers that do not
contradict themselves (`ConsistentAnswers`): `RetryInvariance`,
`RetriesAreSafe` (`[]RetriesNeverRepeatADeed`) and `NilIsNoLie`
(`[]NilMeansDone`). The invariant says that wherever the loop goes on, nothing
has been executed and `err` is a 429 or, before the first attempt, nil; by
`OutcomeOfReply` an APIError with status 429 comes from a 429 only, which the
server does not execute.

*Tags*, for any editors, tags and limit: `EditorsHoldTheList`
(`[]CopiesAreTrue`) and `LossesAreBlind` (`TagsAreErasedBlindly`). A write
makes every other copy stale, so a copy that is neither stale nor blind is the
list, and what is sent for it contains the list: the writer whose step drops a tag
had a blind or stale copy itself.

*Merges*, for any number of merges and watches, and for answers that do not
contradict themselves (`ConsistentMergeAnswers`): `MergeInvariance`
(`[]MergeInv`), `NoMergeIsHidden` (`[]MergesAreAccountedFor`) and
`VerdictsHold` (`[]VerdictsStayTrue`). Neither property is inductive, since an
answer may be under way for any time before the caller reads it. The invariant
says what the answers keep: one to a start that began a merge is no 4xx
(`StartAnswered`), and what one to a status call says is still true now
(`StatusAnswered`), because final statuses and expiry are never taken back. By
`OutcomeOfReply` the service methods make a 4xx of a 4xx only; without the
assumption a 500 whose body says 404 would let a running merge look refused.

*Pages*, for any number of secrets and any limits, whatever is found and resolved
between the pages: `PageInvariance` (`[]PageInv`), `WalksAreComplete`
(`[]WalkIsComplete`) and `SecretsComeOnce` (`[]NothingTwice`). `WalkIsComplete`
speaks of the end of the loop. On the way the caller holds what is not behind
its cursor: all of it that matched throughout, and nothing else. The next page
keeps this, because it is a prefix of what is behind the cursor
(`FirstOfIsPrefix`, `PageIsBehindTheCursor`), is appended in order
(`InOrderLists`, `PageIsAppended`), and its last member is the next cursor, which
is never the empty one (`EndsOfList`). That a finite set of numbers has a list, a
first and a last member follows from ranks: they grow with the members, so they
are a bijection onto 1 .. n (`RanksGrow`).

*Updates*, for any delays: `ZerosResetNothing` (`OptionsAreNeverReset`). Of each
member, sending the zero value is sending nothing (`ZerosAreUnset`).

`GenOpenApiProofs`, for any finite sets of services and names, any declarations
and any order of the files: `GenInvariance` (`[]GenInv`), `ComponentsDiffer`
(`[]ComponentsAreDistinct`), `RefsAreCorrect` (`[]RefsStayCorrect`) and
`OverridesKeep` (`[]OverridesKeepTheirComponent`). The first two speak of pass 3.
The invariant says what holds before: every key of a declaration that has its
name leads to that name, and no other key is there (`KeysInv`); final names are
taken, differ, and are either suffixed or the cleaned names of files already
visited (`NamesInv`); the components so far are those of the enums (`EnumsInv`),
later those of all declarations and, apart from them, one for each error class
that needs its own (`ErrorsInv`). `UniqueNames` is the reason: more suffixes than
used names cannot all be taken, by the pigeonhole principle, so that the loop of
`uniqueName` ends with a free one.

`OcsfProofs`, for any secrets, visibilities and lengths of history:
`LakeInvariance`, `EventsAlwaysAgree` (`[]EventsAgree`) and `ClosuresShow`
(`[]ClosedSecretsLookClosed`). That the latest event of a closed secret is that
of its closing is not inductive: a reopening has no time and sorts before
everything, and so does a closing that came without one. The invariant says that
only closings are later than the detection, that each is in the feed, at the time
of its place or none (`FeedsAreTimed`, `LakeIsFed`), and that the closing told last,
if it has a time, is stored with nothing later (`ToldIsLatest`).

## 6. What is only model-checked

- Liveness: `EveryCallReturns`, `RequestsAreDelivered`, `RetriesEnd`,
  `WalkEnds`, `WatchingEnds`. Fairness is about ENABLED, which the prover does
  not handle.
- What the assumptions of `RoundTripProofs` say of the tables of 196 rows: they
  are finite, and TLC evaluates them whole.
- The properties of the runs that are expected to be violated, which no proof
  can be about.

Every other property of a passing run, the invariants, the action properties and
the refinement, is a theorem of section 5.

## 7. Where code and documentation part

- `undeclared_status`. `docs/guides/errors.md:4`: "non-2xx API responses come
  back as `*postman.APIError`"; `docs/guides/rate-limiting.md:19` detects a 429
  of `SecretTypes` that way. Only 12 of 196 operations declare 429; for the
  others the decoder returns a plain error, and the retry wrapper of that page
  gives up after the first 429, also around `Workspaces().List`, its example.
- `status_override`. `postmanerr.go:18`: "StatusCode is the HTTP status code of
  the response." The member `status` of the body wins.
- `unhandled_status`. The same sentence: 401, 403 and 500 answers to
  `collections.DuplicateStatus` are APIErrors with `StatusCode` 0. It is the
  only operation with a declared status without a case, which is why
  `ConsistentErrorsKeepTheirStatus` names the exception and holds for the other
  195.
- `gen_openapi_references`. `scripts/gen-openapi/README.md:43`: references are
  "resolved through the import graph", so that "components stay correct even
  when names are suffixed". Fields annotated with an enum in JSDoc, and the
  error classes of operations, are looked up by simple name: with two of one
  name, the second service refers to the component of the first.
- `ocsf_partner`. `docs/guides/ocsf.md:156` maps the workspace visibility
  `partner` to High. The schema does not know it, so that one such secret makes
  the whole page a decode error.

Three things that no document denies, but that a caller should know.

- The id of a collection must not be "fork" or "collection-forks". The routing tree
  of the generated server has these words after `collections/`, and under
  "collections/fork/" it loses the prefix: a request for a collection with such an id may be
  served as another operation. `DELETE
  /collections/fork/comments/public-documentations`, meant to delete a comment, is
  served as `UnpublishDocumentation` for a collection "comments". Postman gives out no such ids;
  `OwnHandlerRuns` excepts these two and no other texts.
- An activity entry that reopens a secret has no time, so that in a lake ordered by
  time a reopened secret still looks closed. A closing without a time sorts before
  the detection, so that the secret still looks open. `ClosedSecretsLookClosed`
  speaks of secrets whose last entry closes them and says when.
- A page of HTML that a proxy sends under 200 is a success of the 18 operations whose
  decoder reads no body.

## 8. What is not modelled, and why

- The fields of requests and responses: each method copies its own. The model
  keeps whether converting can fail, and where. So also of the environments'
  `Replace`, whose `Enabled` is left out when false, as `PartialUpdate` shows of
  monitors.
- Generated types, JSON codecs and validators (`oas_json_gen.go`,
  `oas_schemas_gen.go`, `oas_validators_gen.go`): straight-line code per field,
  without state. Whether a body fits its type is an input of the models.
- The wording of errors; spans and attributes of the instruments.
- Of the generated server: the answers to OPTIONS with their CORS headers,
  `FindPath` (the same tree, without handlers), middleware (none is configured
  by default).
- Redirects, HTTP/2, response headers: net/http's, and the SDK looks
  at none of them. Whether the decoder's error for an undeclared status keeps a
  copy of the body is the library's business, too; the deferred drain reads the
  rest in any case.
- Duplicate deliveries by the network itself, which TCP excludes.
- Of the OpenAPI generator: the translation of Zod expressions and of request
  classes. Imports are taken to name the declaring file; that the script follows
  barrels one hop only is outside the model.
- What an implementation of the generated `Handler` interface relies on. Only 46
  of 85 request bodies are validated by the server and none by the client;
  `RequestDecoders` says which, and the repository has no handler that could rely on
  the others.
- Of the names of the OpenAPI generator, those that are shared and get suffixes:
  `OverridesKeepTheirComponent` is about names that one file declares. Which
  declaration a key such as `SuccessfulResponseMeta2.cursor` means depends on the
  order of the files.
- Of `ocsf`: resources, enrichment and remediation texts, which are copied.
- The OpenAPI document, examples, CI.

## 9. Plan

Done: calls and their contract, the catalogue, the client's transport, both
ends of the generated package, the handlers, the six workflows, the generator
of the document, and the proofs above. What is left, in this order:

1. `RateLimitRetry` with `CallContract` in place of a server of its own, so that
   the composition with `ApiCall` is a theorem.
2. That stacks of wrappers are acyclic and end at a transport that sends, for
   any number of clients: an order of the calls of `NewClient` by which each
   wrapper is above its base.
3. `FindPath` and the OPTIONS branch of `ServeHTTP`.
4. Exports in pages: `Ocsf` over `Pagination`.

## 10. Running

    tlc -config MCApiCall.cfg MCApiCall
    tlc -config MCRoundTrip.cfg MCRoundTrip
    tlc -config MCWorkflows.cfg MCWorkflows
    tlapm ApiCallProofs.tla
    tlapm RoundTripProofs.tla

and likewise for the other configurations and modules of proofs. The longest
run takes a few minutes.
