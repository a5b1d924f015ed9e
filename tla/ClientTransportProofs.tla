----------------------- MODULE ClientTransportProofs ------------------------
(***************************************************************************)
(* Proofs about ClientTransport: for any calls of NewClient, any           *)
(* http.Clients shared in any way, and callers that serialise or not.      *)
(***************************************************************************)
EXTENDS ClientTransport, TLAPS

\* A call has its key once it is past the look for it, and keeps it.
KeyIsResolved(m) ==
    stage[m] \in {"wrap", "connect", "built", "badURL"} =>
        /\ apiKey[m] # "unset"
        /\ Options[m].apiKey # "unset" => apiKey[m] = Options[m].apiKey

\* A client that is built finds a wrapper in its http.Client, its own or a
\* later one; wrappers lead to transports or to wrappers that have a base; and
\* a request that has passed one is stamped.
RequestIsWrapped(m) ==
    /\ stage[m] \in {"connect", "built", "badURL"}
         => transport[HTTPClientOf(m)] \in Makers
    /\ at[m] # "none" => stage[m] = "built"
    /\ at[m] \in Makers => base[at[m]] # "nil"
    /\ base[m] \in Makers => base[base[m]] # "nil"
    /\ at[m] \in Senders => stamped[m]

\* Nobody else touches an http.Client that NewClient has made.
PrivateIsAlone(m) ==
    HTTPClientOf(m) = m =>
        /\ transport[m] \in {"nil", m}
        /\ stage[m] = "new" => transport[m] = "nil"
        /\ base[m] \in {"nil", "DefaultTransport"}
        /\ at[m] \in {"none", m, "DefaultTransport"}

\* The inductive invariant.
TInv ==
    /\ TransportTypeOK
    /\ \A r \in delivered :
          /\ r.identified
          /\ r.key # "unset"
          /\ Options[r.client].apiKey # "unset"
                => r.key = Options[r.client].apiKey
    /\ \A m \in Makers :
          KeyIsResolved(m) /\ RequestIsWrapped(m) /\ PrivateIsAlone(m)

-----------------------------------------------------------------------------

\* Whose http.Client is whose: one that NewClient has made serves one call.
LEMMA WhoseClient ==
    ASSUME NEW m \in Makers
    PROVE  /\ HTTPClientOf(m) \in HTTPClients
           /\ m \in HTTPClients
           /\ m \notin Senders \cup {"torn", "nil", "none"}
           /\ Options[m].httpClient = Private <=> HTTPClientOf(m) = m
           /\ \A n \in Makers : HTTPClientOf(n) = m => n = m
           /\ Options[m].apiKey \in Keys
BY MakersAssumption, OptionsAssumption
   DEF HTTPClientOf, HTTPClients, Senders, Keys

\* The key that a call looks up.
LEMMA KeyLookedUp ==
    ASSUME TransportTypeOK, NEW m \in Makers
    PROVE  /\ ResolveKey(m) \in Keys
           /\ Options[m].apiKey # "unset" => ResolveKey(m) = Options[m].apiKey
BY EnvKeysAssumption, OptionsAssumption
   DEF ResolveKey, Keys, TransportTypeOK

\* What a read of a Transport field returns: the field, with its default, or
\* a torn value, the latter only while another call writes it.
LEMMA LoadedTransport ==
    ASSUME TransportTypeOK, NEW h \in HTTPClients, NEW t \in Loads(h)
    PROVE  /\ t \in Transports
           /\ t = transport[h] \/ (transport[h] = "nil" /\ t = "DefaultTransport")
                \/ (t = "torn" /\ Writers(h) # {})
           /\ t \in Makers => t = transport[h] /\ base[t] # "nil"
BY MakersAssumption
   DEF Loads, OrDefault, TransportTypeOK, Transports, Senders

\* At first there are no wrappers.
LEMMA TInitInv == TInit => TInv
<1> SUFFICES ASSUME TInit PROVE TInv
  OBVIOUS
<1>1. TransportTypeOK
  BY MakersAssumption
     DEF TInit, TransportTypeOK, Transports, Senders, HTTPClients, Keys
<1>2. ASSUME NEW m \in Makers
      PROVE  KeyIsResolved(m) /\ RequestIsWrapped(m) /\ PrivateIsAlone(m)
  BY <1>2, WhoseClient
     DEF TInit, KeyIsResolved, RequestIsWrapped, PrivateIsAlone, Senders
<1>3. QED
  BY <1>1, <1>2 DEF TInv, TInit

-----------------------------------------------------------------------------

\* The environment and a call without a key change nothing that is looked at.
LEMMA NothingWrapped ==
    ASSUME TInv,
           SetEnv \/ (\E m \in Makers : NewClientFails(m))
    PROVE  TInv'
<1> USE DEF TInv
<1>1. CASE SetEnv
  <2>1. TransportTypeOK'
    BY <1>1 DEF SetEnv, TransportTypeOK, makerVars, requestVars
  <2>2. QED
    BY <1>1, <2>1 DEF SetEnv, makerVars, requestVars, KeyIsResolved,
                      RequestIsWrapped, PrivateIsAlone
<1>2. ASSUME NEW m \in Makers, NewClientFails(m) PROVE TInv'
  <2>1. TransportTypeOK'
    BY <1>2 DEF NewClientFails, TransportTypeOK, requestVars
  <2>2. ASSUME NEW n \in Makers
        PROVE  KeyIsResolved(n)' /\ RequestIsWrapped(n)' /\ PrivateIsAlone(n)'
    BY <1>2, <2>2 DEF NewClientFails, TransportTypeOK, requestVars,
                      KeyIsResolved, RequestIsWrapped, PrivateIsAlone,
                      HTTPClientOf
  <2>3. QED
    BY <1>2, <2>1, <2>2 DEF NewClientFails, requestVars
<1>3. QED
  BY <1>1, <1>2

\* A call finds its key and reads the field it is about to wrap.
LEMMA ReadTransportInv ==
    ASSUME TInv, NEW m \in Makers, ReadTransport(m)
    PROVE  TInv'
<1> USE DEF TInv
<1>1. /\ stage[m] = "new" /\ ResolveKey(m) # "unset"
      /\ stage' = [stage EXCEPT ![m] = "wrap"]
      /\ apiKey' = [apiKey EXCEPT ![m] = ResolveKey(m)]
      /\ UNCHANGED <<serialised, env, transport, at, stamped, delivered>>
  BY DEF ReadTransport, requestVars
<1>2. PICK t \in Loads(HTTPClientOf(m)) : base' = [base EXCEPT ![m] = t]
  BY DEF ReadTransport
<1>3. t \in Transports /\ t # "nil" /\ (t \in Makers => base[t] # "nil")
  BY <1>2, WhoseClient, LoadedTransport, MakersAssumption
     DEF Transports, Senders
<1>4. TransportTypeOK'
  BY <1>1, <1>2, <1>3, KeyLookedUp DEF TransportTypeOK
<1>5. ASSUME NEW n \in Makers
      PROVE  KeyIsResolved(n)' /\ RequestIsWrapped(n)'
  <2>1. KeyIsResolved(n)'
    BY <1>1, <1>5, KeyLookedUp DEF KeyIsResolved, TransportTypeOK
  <2>2. ASSUME NEW k \in Makers, base[k] # "nil" PROVE base'[k] # "nil"
    BY <1>2, <1>3, <2>2 DEF TransportTypeOK
  <2>3. base'[n] \in Makers => base'[base'[n]] # "nil"
    BY <1>2, <1>3, <1>5, <2>2 DEF RequestIsWrapped, TransportTypeOK
  <2>4. QED
    BY <1>1, <1>5, <2>1, <2>2, <2>3
       DEF RequestIsWrapped, TransportTypeOK, HTTPClientOf
<1>6. ASSUME HTTPClientOf(m) = m PROVE t = "DefaultTransport"
  <2>1. transport[m] = "nil" /\ Writers(m) = {}
    BY <1>1, <1>6, WhoseClient DEF PrivateIsAlone, Writers
  <2>2. QED
    BY <1>2, <1>3, <1>6, <2>1, WhoseClient, LoadedTransport
<1>7. ASSUME NEW n \in Makers PROVE PrivateIsAlone(n)'
  BY <1>1, <1>2, <1>6, <1>7 DEF PrivateIsAlone, TransportTypeOK, HTTPClientOf
<1>8. QED
  BY <1>1, <1>4, <1>5, <1>7

\* The wrapper is put in place, in an http.Client of the call or of others.
LEMMA WrapTransportInv ==
    ASSUME TInv, NEW m \in Makers, WrapTransport(m)
    PROVE  TInv'
<1> USE DEF TInv
<1>1. /\ stage[m] = "wrap" /\ stage' = [stage EXCEPT ![m] = "connect"]
      /\ transport' = [transport EXCEPT ![HTTPClientOf(m)] = m]
      /\ UNCHANGED <<serialised, env, apiKey, base, at, stamped, delivered>>
  BY DEF WrapTransport, requestVars
<1>2. TransportTypeOK'
  BY <1>1, WhoseClient DEF TransportTypeOK, Transports
<1>3. ASSUME NEW n \in Makers PROVE KeyIsResolved(n)' /\ PrivateIsAlone(n)'
  <2>1. HTTPClientOf(m) \in HTTPClients /\ n \in HTTPClients
    BY <1>3, WhoseClient
  <2>2. HTTPClientOf(m) = n => m = n
    BY <1>3, WhoseClient
  <2>3. QED
    BY <1>1, <1>3, <2>1, <2>2
       DEF KeyIsResolved, PrivateIsAlone, TransportTypeOK, HTTPClientOf
<1>4. ASSUME NEW n \in Makers PROVE RequestIsWrapped(n)'
  <2>1. HTTPClientOf(n) \in HTTPClients /\ HTTPClientOf(m) \in HTTPClients
    BY <1>4, WhoseClient
  <2>2. HTTPClientOf(n)' = HTTPClientOf(n)
    BY DEF HTTPClientOf
  <2>3. QED
    BY <1>1, <1>4, <2>1, <2>2 DEF RequestIsWrapped, TransportTypeOK
<1>5. QED
  BY <1>1, <1>2, <1>3, <1>4

\* api.NewClient succeeds or not.
LEMMA MakeAPIClientInv ==
    ASSUME TInv, NEW m \in Makers, MakeAPIClient(m)
    PROVE  TInv'
<1> USE DEF TInv
<1>1. PICK made \in {"built", "badURL"} : stage' = [stage EXCEPT ![m] = made]
  BY DEF MakeAPIClient
<1>2. /\ stage[m] = "connect"
      /\ UNCHANGED <<serialised, env, apiKey, base, transport, at, stamped,
                     delivered>>
  BY DEF MakeAPIClient, requestVars
<1>3. TransportTypeOK'
  BY <1>1, <1>2 DEF TransportTypeOK
<1>4. ASSUME NEW n \in Makers
      PROVE  KeyIsResolved(n)' /\ RequestIsWrapped(n)' /\ PrivateIsAlone(n)'
  BY <1>1, <1>2, <1>4
     DEF KeyIsResolved, RequestIsWrapped, PrivateIsAlone, TransportTypeOK,
         HTTPClientOf
<1>5. QED
  BY <1>2, <1>3, <1>4

-----------------------------------------------------------------------------

\* A request sets out with the wrapper it finds.
LEMMA DoInv ==
    ASSUME TInv, NEW m \in Makers, Do(m)
    PROVE  TInv'
<1> USE DEF TInv
<1>1. /\ stage[m] = "built"
      /\ stamped' = [stamped EXCEPT ![m] = FALSE]
      /\ UNCHANGED <<serialised, env, stage, apiKey, base, transport,
                     delivered>>
  BY DEF Do, makerVars
<1>2. PICK t \in Loads(HTTPClientOf(m)) : at' = [at EXCEPT ![m] = t]
  BY DEF Do
<1>3. /\ t \in Makers \cup {"torn"}
      /\ t \in Makers => base[t] # "nil"
      /\ t = transport[HTTPClientOf(m)]
           \/ (t = "torn" /\ Writers(HTTPClientOf(m)) # {})
  <2>1. transport[HTTPClientOf(m)] \in Makers
    BY <1>1 DEF RequestIsWrapped
  <2>2. transport[HTTPClientOf(m)] # "nil"
    BY <2>1, MakersAssumption
  <2>3. QED
    BY <1>2, <2>1, <2>2, WhoseClient, LoadedTransport
<1>4. t \notin Senders /\ t \in Transports
  BY <1>3, MakersAssumption DEF Senders, Transports
<1>5. TransportTypeOK'
  BY <1>1, <1>2, <1>4 DEF TransportTypeOK
<1>6. ASSUME NEW n \in Makers PROVE KeyIsResolved(n)' /\ RequestIsWrapped(n)'
  BY <1>1, <1>2, <1>3, <1>4, <1>6
     DEF KeyIsResolved, RequestIsWrapped, TransportTypeOK, HTTPClientOf
<1>7. ASSUME HTTPClientOf(m) = m PROVE t = m
  <2>1. Writers(m) = {}
    BY <1>1, <1>7, WhoseClient DEF Writers
  <2>2. transport[m] \in {"nil", m} /\ transport[m] \in Makers
    BY <1>1, <1>7 DEF PrivateIsAlone, RequestIsWrapped
  <2>3. QED
    BY <1>3, <1>7, <2>1, <2>2, MakersAssumption
<1>8. ASSUME NEW n \in Makers PROVE PrivateIsAlone(n)'
  BY <1>1, <1>2, <1>7, <1>8 DEF PrivateIsAlone, TransportTypeOK, HTTPClientOf
<1>9. QED
  BY <1>1, <1>5, <1>6, <1>8

\* A wrapper stamps the request and hands it on to its base.
LEMMA RoundTripInv ==
    ASSUME TInv, NEW m \in Makers, RoundTrip(m)
    PROVE  TInv'
<1> USE DEF TInv
<1>1. /\ at[m] \in Makers
      /\ at' = [at EXCEPT ![m] = base[at[m]]]
      /\ stamped' = [stamped EXCEPT ![m] = TRUE]
      /\ UNCHANGED <<serialised, env, stage, apiKey, base, transport,
                     delivered>>
  BY DEF RoundTrip, makerVars
<1>2. base[at[m]] \in Transports /\ base[at[m]] # "nil"
  BY <1>1 DEF TransportTypeOK, RequestIsWrapped
<1>3. TransportTypeOK'
  BY <1>1, <1>2 DEF TransportTypeOK
<1>4. at[m] # "none"
  BY <1>1, MakersAssumption
<1>5. base[at[m]] \in Makers => base[base[at[m]]] # "nil"
  BY <1>1 DEF RequestIsWrapped
<1>6. ASSUME NEW n \in Makers PROVE KeyIsResolved(n)' /\ RequestIsWrapped(n)'
  BY <1>1, <1>2, <1>4, <1>5, <1>6
     DEF KeyIsResolved, RequestIsWrapped, TransportTypeOK, HTTPClientOf
<1>7. ASSUME HTTPClientOf(m) = m PROVE base[at[m]] = "DefaultTransport"
  <2>1. at[m] = m
    BY <1>1, <1>7, MakersAssumption DEF PrivateIsAlone
  <2>2. QED
    BY <1>2, <1>7, <2>1 DEF PrivateIsAlone
<1>8. ASSUME NEW n \in Makers PROVE PrivateIsAlone(n)'
  BY <1>1, <1>7, <1>8 DEF PrivateIsAlone, TransportTypeOK, HTTPClientOf
<1>9. QED
  BY <1>1, <1>3, <1>6, <1>8

\* What is delivered was stamped, and carries the key of its client.
LEMMA DeliverInv ==
    ASSUME TInv, NEW m \in Makers, Deliver(m)
    PROVE  TInv'
<1> USE DEF TInv
<1> DEFINE sent == [client |-> m, key |-> apiKey[m],
                    identified |-> stamped[m], over |-> at[m]]
<1>1. /\ at[m] \in Senders
      /\ at' = [at EXCEPT ![m] = "none"]
      /\ delivered' = delivered \cup {sent}
      /\ UNCHANGED <<serialised, env, stage, apiKey, base, transport, stamped>>
  BY DEF Deliver, makerVars
<1>2. sent \in [client: Makers, key: Keys, identified: BOOLEAN, over: Senders]
  BY <1>1 DEF TransportTypeOK
<1>3. TransportTypeOK'
  BY <1>1, <1>2 DEF TransportTypeOK
<1>4. stage[m] = "built" /\ stamped[m]
  BY <1>1, MakersAssumption DEF RequestIsWrapped, Senders
<1>5. /\ sent.identified
      /\ sent.key # "unset"
      /\ Options[sent.client].apiKey # "unset"
           => sent.key = Options[sent.client].apiKey
  BY <1>4 DEF KeyIsResolved
<1>6. ASSUME NEW n \in Makers
      PROVE  KeyIsResolved(n)' /\ RequestIsWrapped(n)' /\ PrivateIsAlone(n)'
  BY <1>1, <1>6, MakersAssumption
     DEF KeyIsResolved, RequestIsWrapped, PrivateIsAlone, TransportTypeOK,
         HTTPClientOf, Senders
<1>7. QED
  BY <1>1, <1>3, <1>5, <1>6

-----------------------------------------------------------------------------

\* Every step preserves the invariant.
LEMMA TNextInv == TInv /\ [TNext]_tvars => TInv'
<1> SUFFICES ASSUME TInv, [TNext]_tvars PROVE TInv'
  OBVIOUS
<1>1. CASE UNCHANGED tvars
  <2>1. TransportTypeOK'
    BY <1>1 DEF TInv, tvars, makerVars, requestVars, TransportTypeOK
  <2>2. ASSUME NEW n \in Makers
        PROVE  KeyIsResolved(n)' /\ RequestIsWrapped(n)' /\ PrivateIsAlone(n)'
    BY <1>1, <2>2
       DEF TInv, tvars, makerVars, requestVars, KeyIsResolved,
           RequestIsWrapped, PrivateIsAlone, HTTPClientOf
  <2>3. QED
    BY <1>1, <2>1, <2>2 DEF TInv, tvars, makerVars, requestVars
<1>2. CASE TNext
  BY <1>2, NothingWrapped, ReadTransportInv, WrapTransportInv,
     MakeAPIClientInv, DoInv, RoundTripInv, DeliverInv DEF TNext
<1>3. QED
  BY <1>1, <1>2

\* The invariant, for any clients.
THEOREM TransportInvariance == TSpec => []TInv
BY TInitInv, TNextInv, PTL DEF TSpec

\* Every variable has its type: no wrapper without a base is ever in a
\* Transport field.
THEOREM TransportTypes == TSpec => []TransportTypeOK
<1>1. TInv => TransportTypeOK
  BY DEF TInv
<1>2. QED
  BY <1>1, TransportInvariance, PTL

\* Every request that is sent names the SDK and has its own client's key.
THEOREM SentIsIdentified == TSpec => []RequestsAreIdentified
<1>1. TInv => RequestsAreIdentified
  BY DEF TInv, RequestsAreIdentified
<1>2. QED
  BY <1>1, TransportInvariance, PTL

\* Races on http.Clients that are shared stay there.
THEOREM RacesStayOutside == TSpec => []PrivateClientsAreSafe
<1>1. TInv => PrivateClientsAreSafe
  <2> SUFFICES ASSUME TInv, NEW m \in Makers,
                      Options[m].httpClient = Private
               PROVE  at[m] # "torn"
    BY DEF PrivateClientsAreSafe
  <2>1. at[m] \in {"none", m, "DefaultTransport"}
    BY WhoseClient DEF TInv, PrivateIsAlone
  <2>2. QED
    BY <2>1, MakersAssumption
<1>2. QED
  BY <1>1, TransportInvariance, PTL

=============================================================================
