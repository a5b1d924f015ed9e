----------------------------- MODULE Responses ------------------------------
(***************************************************************************)
(* Every reply that every operation of the catalogue may get, through the  *)
(* generated decoder and the type switch, to what the caller is handed.    *)
(***************************************************************************)
EXTENDS ServiceCatalog

CONSTANTS Names,    \* the operations called
          Answers   \* the replies the server gives

ASSUME NamesAssumption == Names \subseteq OperationNames
ASSUME AnswersAssumption == Answers \subseteq Reply

VARIABLES name, reply, outcome

rvars == <<name, reply, outcome>>

RInit ==
    /\ name \in Names
    /\ reply \in Answers
    /\ outcome = Pending

Return ==
    /\ outcome = Pending
    /\ outcome' = Outcome(Row(name), reply)
    /\ UNCHANGED <<name, reply>>

RSpec == RInit /\ [][Return]_rvars

-----------------------------------------------------------------------------

\* The body does not contradict the status line of its response.
Consistent == reply.body.status \in {0, reply.status}

\* As long as servers keep the two consistent, APIError.StatusCode is the HTTP
\* status of the response, for each way in which a service method builds one:
\* Empty, FromProblemDetails with and without the member "status" and for
\* bodies that are no objects.  Statuses without a case in their type switch
\* are the exception.
ConsistentErrorsKeepTheirStatus ==
    outcome.kind = "api" /\ Consistent
        => \/ outcome.status = reply.status
           \/ reply.status \in Row(name).unhandled /\ outcome.status = 0

\* A declared error with an object for a body, whatever its members are, is
\* never lost in the decoder: it reaches the caller as an APIError.
DeclaredErrorsAreAPIErrors ==
    outcome # Pending /\ reply.json /\ reply.body.json = "object"
        /\ reply.status \in Declared(Row(name)) \ {200}
        => outcome.kind = "api"

\* docs/guides/errors.md: "non-2xx API responses come back as
\* *postman.APIError".
NonSuccessIsAPIError ==
    outcome # Pending /\ reply.status \notin 200 .. 299
        => outcome.kind = "api"

\* postmanerr.go: "StatusCode is the HTTP status code of the response."
StatusCodeIsHTTPStatus ==
    outcome.kind = "api" => outcome.status = reply.status

=============================================================================
