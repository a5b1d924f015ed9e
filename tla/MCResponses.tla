----------------------------- MODULE MCResponses ----------------------------
(* All operations, under every status some operation declares and four that*)
(* none does, with bodies of every kind.                                   *)
EXTENDS ResponsesProofs

MCStatuses == {200, 204, 302, 400, 401, 403, 404, 409, 411, 413, 422, 423,
               429, 500, 502}

MCBodies(status) ==
    [json: Shapes, status: {0, status}, titled: BOOLEAN, fits: BOOLEAN,
     usable: {TRUE}]

MCAnswers ==
    UNION {[status: {s}, json: BOOLEAN, body: MCBodies(s)] : s \in MCStatuses}

\* "Rate limited", in the words of docs/guides/errors.md.
MCRateLimited ==
    [status: {429}, json: {TRUE},
     body: [json: {"object"}, status: {429}, titled: {TRUE}, fits: {FALSE},
            usable: {FALSE}]]

\* A server or a proxy whose problem bodies carry another status.
MCContradictoryAnswers ==
    [status: {400, 404, 500}, json: {TRUE},
     body: [json: {"object"}, status: {0, 400, 429, 500}, titled: {TRUE},
            fits: {FALSE}, usable: {FALSE}]]

MCDuplicateStatus == {<<"collections", "DuplicateStatus">>}

\* The operations whose type switch has a case for every declared status.
MCComplete == OperationNames \ MCDuplicateStatus

MCAllNames == OperationNames

=============================================================================
