---------------------------- MODULE MCGenOpenApi ----------------------------
(* Two services, and names that collide before and after suffixing.        *)
EXTENDS GenOpenApiProofs

\* X, X_2 and X$2.
MCNames ==
    {<<"X">>, <<"X", "underscore", "stroke", "stroke">>,
     <<"X", "dollar", "stroke", "stroke">>}

=============================================================================
