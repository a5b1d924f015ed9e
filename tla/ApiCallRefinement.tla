------------------------- MODULE ApiCallRefinement --------------------------
(***************************************************************************)
(* The calls of ApiCall implement CallContract, provided that the bodies of*)
(* error responses do not contradict their status lines.                   *)
(***************************************************************************)
EXTENDS ApiCall

\* FromProblemDetails lets the member "status" of a problem body override the
\* HTTP status; RFC 9457 asks servers to make the two agree.
ASSUME ConsistentReplies ==
    \A r \in Replies : r.body.status \in {0, r.status}

Phase == [c \in Calls |-> CASE pc[c] = "idle" -> "new"
                            [] pc[c] = "done" -> "answered"
                            [] OTHER -> "open"]

Contract == INSTANCE CallContract
              WITH phase <- Phase, effects <- applied, answer <- result

\* Every step of a call is a step its caller's contract allows.
ContractSpec == Contract!CSpec

=============================================================================
