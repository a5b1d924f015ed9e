-------------------------- MODULE ResponsesProofs ---------------------------
(***************************************************************************)
(* Proofs about Responses: for any operations and any replies, an error of *)
(* the server reaches the caller as an APIError with its status.  Nothing  *)
(* is assumed of the rows of ServiceCatalog.                               *)
(***************************************************************************)
EXTENDS Responses, TLAPS

\* Until the call returns it is pending; then it has the outcome of its reply.
ReturnInv == outcome = Pending \/ outcome = Outcome(Row(name), reply)

\* The kinds and the statuses of what a service method can return.
LEMMA KindsOfResults ==
    ASSUME NEW body, NEW status
    PROVE  /\ Pending.kind = "pending" /\ Value.kind = "ok"
           /\ Plain("Conversion").kind = "plain"
           /\ Plain("DecodeResponse").kind = "plain"
           /\ Empty(status).kind = "api" /\ Empty(status).status = status
           /\ UnexpectedResponse.kind = "api" /\ UnexpectedResponse.status = 0
           /\ FromProblemDetails(body, status).kind = "api"
           /\ body.status \in {0, status}
                => FromProblemDetails(body, status).status = status
BY DEF Pending, Value, Plain, Empty, UnexpectedResponse, FromProblemDetails,
       APIError

\* Whichever case of the type switch is taken: an error becomes an APIError, and
\* an APIError has the status of the reply, or 0 where there is no case for it.
LEMMA SwitchOfReply ==
    ASSUME NEW op, NEW r
    PROVE  /\ r.status # 200 => Switch(op, r).kind = "api"
           /\ Switch(op, r).kind = "api" /\ r.body.status \in {0, r.status}
                => \/ Switch(op, r).status = r.status
                   \/ /\ r.status \notin {200} \cup op.empty \cup op.problem
                      /\ Switch(op, r).status = 0
<1>1. /\ Value.kind = "ok" /\ Plain("Conversion").kind = "plain"
      /\ Empty(r.status).kind = "api" /\ Empty(r.status).status = r.status
      /\ UnexpectedResponse.kind = "api" /\ UnexpectedResponse.status = 0
      /\ FromProblemDetails(r.body, r.status).kind = "api"
  BY KindsOfResults
<1>2. r.status # 200 => Switch(op, r).kind = "api"
  BY <1>1 DEF Switch
<1>3. ASSUME Switch(op, r).kind = "api", r.body.status \in {0, r.status},
             Switch(op, r).status # r.status
      PROVE  /\ r.status \notin {200} \cup op.empty \cup op.problem
             /\ Switch(op, r).status = 0
  <2>1. FromProblemDetails(r.body, r.status).status = r.status
    BY <1>3, KindsOfResults
  <2>2. QED
    BY <1>1, <1>3, <2>1 DEF Switch
<1>4. QED
  BY <1>2, <1>3

\* An outcome is the only thing that ever replaces Pending.
THEOREM ReturnInvariant == RSpec => []ReturnInv
<1>1. RInit => ReturnInv
  BY DEF RInit, ReturnInv
<1>2. ReturnInv /\ [Return]_rvars => ReturnInv'
  BY DEF ReturnInv, Return, rvars
<1>3. QED
  BY <1>1, <1>2, PTL DEF RSpec

\* As long as bodies do not contradict status lines, APIError.StatusCode is the
\* status of the response, except where the type switch lacks the case.
THEOREM ErrorsKeepTheirStatus == RSpec => []ConsistentErrorsKeepTheirStatus
<1>1. ReturnInv => ConsistentErrorsKeepTheirStatus
  <2> DEFINE op == Row(name)
  <2> SUFFICES ASSUME ReturnInv, outcome.kind = "api", Consistent
               PROVE  \/ outcome.status = reply.status
                      \/ reply.status \in op.unhandled /\ outcome.status = 0
    BY DEF ConsistentErrorsKeepTheirStatus
  <2>1. outcome = Outcome(op, reply)
    BY KindsOfResults DEF ReturnInv
  <2> HIDE DEF op
  <2>2. Decodes(op, reply) /\ outcome = Switch(op, reply)
    BY <2>1, KindsOfResults DEF Outcome
  <2>3. reply.status \in {200} \cup op.empty \cup op.problem \cup op.unhandled
    BY <2>2 DEF Decodes, Unread, ReadsBody, Declared
  <2>4. reply.body.status \in {0, reply.status}
    BY DEF Consistent
  <2>5. QED
    BY <2>2, <2>3, <2>4, SwitchOfReply
<1>2. QED
  BY <1>1, ReturnInvariant, PTL

\* A declared error with an object for a body is never lost in the decoder.
THEOREM DeclaredErrorsArrive == RSpec => []DeclaredErrorsAreAPIErrors
<1>1. ReturnInv => DeclaredErrorsAreAPIErrors
  <2> DEFINE op == Row(name)
  <2> SUFFICES ASSUME ReturnInv, outcome # Pending, reply.json,
                      reply.body.json = "object",
                      reply.status \in Declared(op) \ {200}
               PROVE  outcome.kind = "api"
    BY DEF DeclaredErrorsAreAPIErrors
  <2>1. outcome = Outcome(op, reply)
    BY DEF ReturnInv
  <2> HIDE DEF op
  <2>2. ReadsBody(op, reply)
    BY DEF ReadsBody, Unread
  <2>3. BodyDecodes(op, reply)
    <3>1. reply.status # 200 /\ "object" # "broken"
      OBVIOUS
    <3>2. QED
      BY <3>1 DEF BodyDecodes
  <2>4. outcome = Switch(op, reply)
    BY <2>1, <2>2, <2>3 DEF Outcome, Decodes
  <2>5. QED
    BY <2>4, SwitchOfReply
<1>2. QED
  BY <1>1, ReturnInvariant, PTL

=============================================================================
