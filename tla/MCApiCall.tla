------------------------------ MODULE MCApiCall -----------------------------
(* Two calls of operations of the catalogue, and the replies that take each*)
(* branch of decoding and of the type switch.                              *)
EXTENDS ApiCallProofs, ServiceCatalog

CONSTANTS cPatch, cStatus

\* A PATCH that converts both its argument and its result, and a GET whose type
\* switch lacks cases.
MCCalls == {cPatch, cStatus}

MCApi ==
    (cPatch :> Row(<<"environments", "Patch">>)) @@
    (cStatus :> Row(<<"collections", "DuplicateStatus">>))

Answer200(fits, usable) ==
    [status |-> 200, json |-> TRUE,
     body |-> [json |-> "object", status |-> 0, titled |-> FALSE,
               fits |-> fits, usable |-> usable]]

Problem(status, shape, member) ==
    [status |-> status, json |-> TRUE,
     body |-> [json |-> shape, status |-> member, titled |-> TRUE,
               fits |-> FALSE, usable |-> FALSE]]

Html(status) ==
    [status |-> status, json |-> FALSE,
     body |-> [json |-> "broken", status |-> 0, titled |-> FALSE,
               fits |-> FALSE, usable |-> FALSE]]

MCReplies ==
    {Answer200(TRUE, TRUE), Answer200(TRUE, FALSE),
     Problem(404, "value", 0), Problem(500, "object", 500), Html(502)}

=============================================================================
