-------------------------- MODULE ClientTransport ---------------------------
(***************************************************************************)
(* NewClient and the http.Clients it is given.                             *)
(*                                                                         *)
(* NewClient assigns to the Transport field of its http.Client, which      *)
(* belongs to the caller when it came with WithHTTPClient: clients built on*)
(* one http.Client share the field, and each wraps what the one before left*)
(* there.  The assignment takes no lock.  A read that races with it is     *)
(* undefined: the reader may get a wrapper whose words do not belong       *)
(* together.                                                               *)
(***************************************************************************)
EXTENDS Naturals

CONSTANTS Makers,     \* the calls of NewClient, each with its wrapper
          Shared,     \* http.Clients of the caller
          Options,    \* the options of each call
          EnvKeys     \* the values POSTMAN_API_KEY takes

Private == "private"
Keys == {"unset", "explicit", "fromEnv"}

ASSUME EnvKeysAssumption == EnvKeys \subseteq Keys
ASSUME MakersAssumption ==
    /\ Makers \cap Shared = {}
    /\ (Makers \cup Shared) \cap
         {Private, "nil", "own", "DefaultTransport", "torn", "none"} = {}
ASSUME OptionsAssumption ==
    Options \in [Makers -> [apiKey: {"unset", "explicit"},
                            httpClient: Shared \cup {Private}]]

VARIABLES
    serialised,  \* whether callers keep NewClient apart from every other use
                 \* of the same http.Client, which does not change
    env,         \* the value of POSTMAN_API_KEY
    stage,       \* how far each call of NewClient has come
    apiKey,      \* the key its security source holds
    base,        \* the base of its userAgentTransport
    transport,   \* the Transport field of each http.Client
    at,          \* the RoundTripper that has a request of each client
    stamped,     \* whether that request carries the SDK's User-Agent
    delivered    \* the requests handed to a transport that sends

makerVars == <<stage, apiKey, base, transport>>
requestVars == <<at, stamped, delivered>>
tvars == <<serialised, env, makerVars, requestVars>>

\* Without WithHTTPClient, NewClient makes an http.Client of its own.
HTTPClients == Shared \cup Makers

\* A mutant of HTTPClientOf: the default is one http.Client for all.
OneDefault(m) ==
    IF Options[m].httpClient = Private THEN CHOOSE h \in Shared : TRUE
                                       ELSE Options[m].httpClient

HTTPClientOf(m) ==
    IF Options[m].httpClient = Private THEN m ELSE Options[m].httpClient

Senders == {"own", "DefaultTransport"}

TInit ==
    /\ serialised \in BOOLEAN
    /\ env \in EnvKeys
    /\ stage = [m \in Makers |-> "new"]
    /\ apiKey = [m \in Makers |-> "unset"]
    /\ base = [m \in Makers |-> "nil"]
    /\ transport \in [HTTPClients -> {"nil", "own"}]
    /\ \A m \in Makers : transport[m] = "nil"
    /\ at = [m \in Makers |-> "none"]
    /\ stamped = [m \in Makers |-> FALSE]
    /\ delivered = {}

\* A nil Transport stands for http.DefaultTransport.
OrDefault(t) == IF t = "nil" THEN "DefaultTransport" ELSE t

\* Who is about to assign to the Transport of h.
Writers(h) == {m \in Makers : HTTPClientOf(m) = h /\ stage[m] = "wrap"}

\* What a read of that field can return.
Loads(h) == {OrDefault(transport[h])} \cup
            (IF Writers(h) # {} THEN {"torn"} ELSE {})

\* With callers that serialise, no two uses of an http.Client overlap.
Busy(h) ==
    \E m \in Makers : /\ HTTPClientOf(m) = h
                      /\ stage[m] \in {"wrap", "connect"} \/ at[m] # "none"
MayUse(h) == serialised => ~Busy(h)

-----------------------------------------------------------------------------

SetEnv ==
    /\ env' \in EnvKeys \ {env}
    /\ UNCHANGED <<serialised, makerVars, requestVars>>

\* WithAPIKey, or else the environment.
ResolveKey(m) == IF Options[m].apiKey = "unset" THEN env ELSE Options[m].apiKey

\* A mutant of NewClientFails: the transport is wrapped before the key is
\* looked for.
WrapThenFail(m) ==
    /\ stage[m] = "new" /\ ResolveKey(m) = "unset"
    /\ stage' = [stage EXCEPT ![m] = "ErrNoAPIKey"]
    /\ base' = [base EXCEPT ![m] = OrDefault(transport[HTTPClientOf(m)])]
    /\ transport' = [transport EXCEPT ![HTTPClientOf(m)] = m]
    /\ UNCHANGED <<serialised, env, apiKey, requestVars>>

NewClientFails(m) ==
    /\ stage[m] = "new" /\ ResolveKey(m) = "unset"
    /\ stage' = [stage EXCEPT ![m] = "ErrNoAPIKey"]
    /\ UNCHANGED <<serialised, env, apiKey, base, transport, requestVars>>

ReadTransport(m) ==
    /\ stage[m] = "new" /\ ResolveKey(m) # "unset"
    /\ MayUse(HTTPClientOf(m))
    /\ stage' = [stage EXCEPT ![m] = "wrap"]
    /\ apiKey' = [apiKey EXCEPT ![m] = ResolveKey(m)]
    /\ \E t \in Loads(HTTPClientOf(m)) : base' = [base EXCEPT ![m] = t]
    /\ UNCHANGED <<serialised, env, transport, requestVars>>

\* Two mutants of WrapTransport: an http.Client with a Transport is left
\* alone, and the wrapper's base is read after the assignment.
WrapNilOnly(m) ==
    /\ stage[m] = "wrap"
    /\ stage' = [stage EXCEPT ![m] = "connect"]
    /\ transport' = [transport EXCEPT ![HTTPClientOf(m)] =
                        IF @ = "nil" THEN m ELSE @]
    /\ UNCHANGED <<serialised, env, apiKey, base, requestVars>>

WrapItself(m) ==
    /\ stage[m] = "wrap"
    /\ stage' = [stage EXCEPT ![m] = "connect"]
    /\ transport' = [transport EXCEPT ![HTTPClientOf(m)] = m]
    /\ base' = [base EXCEPT ![m] = m]
    /\ UNCHANGED <<serialised, env, apiKey, requestVars>>

WrapTransport(m) ==
    /\ stage[m] = "wrap"
    /\ stage' = [stage EXCEPT ![m] = "connect"]
    /\ transport' = [transport EXCEPT ![HTTPClientOf(m)] = m]
    /\ UNCHANGED <<serialised, env, apiKey, base, requestVars>>

\* api.NewClient parses the base URL.  When it fails the Transport field keeps
\* the wrapper.
MakeAPIClient(m) ==
    /\ stage[m] = "connect"
    /\ \E made \in {"built", "badURL"} : stage' = [stage EXCEPT ![m] = made]
    /\ UNCHANGED <<serialised, env, apiKey, base, transport, requestVars>>

-----------------------------------------------------------------------------

\* http.Client.Do reads the field once for each request.
Do(m) ==
    /\ stage[m] = "built" /\ at[m] = "none"
    /\ MayUse(HTTPClientOf(m))
    /\ \E t \in Loads(HTTPClientOf(m)) : at' = [at EXCEPT ![m] = t]
    /\ stamped' = [stamped EXCEPT ![m] = FALSE]
    /\ UNCHANGED <<serialised, env, makerVars, delivered>>

\* userAgentTransport.RoundTrip.
RoundTrip(m) ==
    /\ at[m] \in Makers
    /\ at' = [at EXCEPT ![m] = base[at[m]]]
    /\ stamped' = [stamped EXCEPT ![m] = TRUE]
    /\ UNCHANGED <<serialised, env, makerVars, delivered>>

Deliver(m) ==
    /\ at[m] \in Senders
    /\ at' = [at EXCEPT ![m] = "none"]
    /\ delivered' = delivered \cup
           {[client |-> m, key |-> apiKey[m], identified |-> stamped[m],
             over |-> at[m]]}
    /\ UNCHANGED <<serialised, env, makerVars, stamped>>

TNext ==
    \/ SetEnv
    \/ \E m \in Makers :
         \/ NewClientFails(m) \/ ReadTransport(m) \/ WrapTransport(m)
         \/ MakeAPIClient(m) \/ Do(m) \/ RoundTrip(m) \/ Deliver(m)

TSpec == TInit /\ [][TNext]_tvars
              /\ \A m \in Makers : WF_tvars(RoundTrip(m) \/ Deliver(m))

-----------------------------------------------------------------------------
(* Properties.                                                             *)

Transports == Makers \cup Senders \cup {"torn"}

\* Every variable has its type; in particular the base of a wrapper is never
\* nil once there is one, and no http.Client carries the wrapper of a call of
\* NewClient that returned ErrNoAPIKey.
TransportTypeOK ==
    /\ serialised \in BOOLEAN
    /\ env \in EnvKeys
    /\ stage \in [Makers -> {"new", "wrap", "connect", "built", "badURL",
                             "ErrNoAPIKey"}]
    /\ apiKey \in [Makers -> Keys]
    /\ base \in [Makers -> Transports \cup {"nil"}]
    /\ \A m \in Makers :
          base[m] = "nil" <=> stage[m] \in {"new", "ErrNoAPIKey"}
    /\ transport \in [HTTPClients -> Transports \cup {"nil"}]
    /\ \A h \in HTTPClients :
          transport[h] \in Makers => base[transport[h]] # "nil"
    /\ at \in [Makers -> Transports \cup {"none"}]
    /\ stamped \in [Makers -> BOOLEAN]
    /\ delivered \subseteq [client: Makers, key: Keys, identified: BOOLEAN,
                            over: Senders]

\* Every request that is sent names the SDK and carries the key its own client
\* was configured with, however many clients share the http.Client, in
\* whatever order they were built and whatever becomes of the environment - if
\* callers serialise.
RequestsAreIdentified ==
    serialised => \A r \in delivered :
        /\ r.identified
        /\ r.key # "unset"
        /\ Options[r.client].apiKey # "unset"
              => r.key = Options[r.client].apiKey

\* With callers that serialise, every request gets through the wrappers to a
\* transport that sends it.
RequestsAreDelivered ==
    \A m \in Makers : serialised /\ at[m] # "none" ~> at[m] = "none"

\* Races on an http.Client that callers share, if they do not serialise, never
\* reach a client that has an http.Client of its own.
PrivateClientsAreSafe ==
    \A m \in Makers : Options[m].httpClient = Private => at[m] # "torn"

=============================================================================
