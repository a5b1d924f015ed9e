-------------------------- MODULE MCClientTransport -------------------------
(* Three calls of NewClient: two on one http.Client of the caller, one of  *)
(* them without a key of its own, and one with an http.Client of its own.  *)
EXTENDS ClientTransportProofs, TLC

CONSTANTS m1, m2, m3, shared

MCMakers == {m1, m2, m3}
MCShared == {shared}

Opts(key, httpClient) == [apiKey |-> key, httpClient |-> httpClient]

MCOptions ==
    (m1 :> Opts("explicit", shared)) @@ (m2 :> Opts("unset", shared)) @@
    (m3 :> Opts("unset", Private))

MCEnvKeys == {"unset", "fromEnv"}

=============================================================================
