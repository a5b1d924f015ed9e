------------------------ MODULE ServerHandlersProofs ------------------------
(***************************************************************************)
(* Proofs about ServerHandlers, for any finite set of concurrent requests  *)
(* and any handlers, whatever statuses their encoders write.               *)
(***************************************************************************)
EXTENDS ServerHandlers, FiniteSetTheorems, TLAPS

\* Nothing has been written before the first request.
LEMMA HInitInv == HInit => HInv
<1> SUFFICES ASSUME HInit PROVE HInv
  OBVIOUS
<1>1. HTypeOK
  BY DEF HInit, HTypeOK
<1>2. /\ requests \in [Statuses \cup {0} -> Nat]
      /\ errors \in [Statuses \cup {0} -> Nat]
      /\ durations \in [Statuses \cup {0} -> Nat]
  BY DEF HInit
<1>3. \A r \in Requests : StageTellsStatus(r)
  BY DEF HInit, StageTellsStatus, Early, Late
<1>4. QED
  BY <1>1, <1>2, <1>3 DEF HInv

\* A refusal writes a status, the first one unless the body was cut.
LEMMA RefuseInv ==
    ASSUME HInv, NEW r \in Requests, NEW s \in Statuses, Refuse(r, s),
           pc[r] \in Early, UNCHANGED <<panicked, cut, meters>>
    PROVE  HInv'
<1> USE DEF HInv
<1>1. /\ pc' = [pc EXCEPT ![r] = "RecordError"]
      /\ failed' = [failed EXCEPT ![r] = TRUE]
      /\ code' = [code EXCEPT ![r] = s]
      /\ sent' = [sent EXCEPT ![r] = IF @ = 0 THEN s ELSE @]
      /\ UNCHANGED <<panicked, cut, requests, errors, durations>>
  BY DEF Refuse, GoOn, WriteHeader, meters
<1>2. HTypeOK'
  BY <1>1 DEF HTypeOK
<1>3. ASSUME NEW q \in Requests PROVE StageTellsStatus(q)'
  <2>1. CASE q # r
    BY <1>1, <2>1 DEF HTypeOK, StageTellsStatus
  <2>2. CASE q = r
    <3>1. code[r] = 0 /\ sent[r] = 0 /\ ~cut[r]
      BY DEF StageTellsStatus
    <3>2. /\ pc'[r] = "RecordError" /\ failed'[r]
          /\ code'[r] = s /\ sent'[r] = s /\ ~cut'[r] /\ s # 0
      BY <1>1, <3>1, StatusesAssumption DEF HTypeOK
    <3>3. QED
      BY <2>2, <3>2 DEF StageTellsStatus, Early, Late
  <2>3. QED
    BY <2>1, <2>2
<1>4. QED
  BY <1>1, <1>2, <1>3

\* A stage that succeeds goes on to the next.
LEMMA GoOnInv ==
    ASSUME HInv, NEW r \in Requests, NEW stage \in Early, pc[r] \in Early,
           GoOn(r, stage),
           UNCHANGED <<code, sent, failed, panicked, cut, meters>>
    PROVE  HInv'
<1> USE DEF HInv
<1>1. /\ pc' = [pc EXCEPT ![r] = stage]
      /\ UNCHANGED <<code, sent, failed, panicked, cut, requests, errors,
                     durations>>
  BY DEF GoOn, meters
<1>2. HTypeOK'
  BY <1>1 DEF HTypeOK, Early
<1>3. ASSUME NEW q \in Requests PROVE StageTellsStatus(q)'
  <2>1. CASE q # r
    BY <1>1, <2>1 DEF HTypeOK, StageTellsStatus
  <2>2. CASE q = r
    BY <1>1, <2>2 DEF HTypeOK, StageTellsStatus, Early, Late
  <2>3. QED
    BY <2>1, <2>2
<1>4. QED
  BY <1>1, <1>2, <1>3

\* The response of the handler is written, its body too or not.
LEMMA WriteInv ==
    ASSUME HInv, NEW r \in Requests, EncodeResponse(r) \/ WriteBody(r)
    PROVE  HInv'
<1> USE DEF HInv
<1>1. CASE EncodeResponse(r)
  <2>1. PICK type \in DOMAIN Handles[r].encode.status :
          /\ WriteHeader(r, Handles[r].encode.status[type])
          /\ IF type \in Handles[r].encode.bare
             THEN GoOn(r, "Stopwatch") ELSE GoOn(r, "WriteBody")
    BY <1>1 DEF EncodeResponse
  <2> DEFINE s == Handles[r].encode.status[type]
  <2>2. s \in Statuses
    BY HandlesAssumption
  <2> HIDE DEF s
  <2>3. PICK stage \in {"Stopwatch", "WriteBody"} :
          pc' = [pc EXCEPT ![r] = stage]
    BY <2>1 DEF GoOn
  <2>4. /\ code' = [code EXCEPT ![r] = s]
        /\ sent' = [sent EXCEPT ![r] = IF @ = 0 THEN s ELSE @]
        /\ UNCHANGED <<failed, panicked, cut, requests, errors, durations>>
    BY <1>1, <2>1 DEF WriteHeader, EncodeResponse, meters, s
  <2>5. HTypeOK'
    BY <2>2, <2>3, <2>4 DEF HTypeOK
  <2>6. ASSUME NEW q \in Requests PROVE StageTellsStatus(q)'
    <3>1. CASE q # r
      BY <2>3, <2>4, <3>1 DEF HTypeOK, StageTellsStatus
    <3>2. CASE q = r
      <4>1. code[r] = 0 /\ sent[r] = 0 /\ ~cut[r] /\ ~failed[r]
        BY <1>1 DEF StageTellsStatus, EncodeResponse, Early
      <4>2. /\ code'[r] = s /\ sent'[r] = s /\ ~cut'[r] /\ ~failed'[r]
            /\ pc'[r] = stage /\ s # 0
        BY <2>2, <2>3, <2>4, <4>1, StatusesAssumption DEF HTypeOK
      <4>3. QED
        BY <3>2, <4>2 DEF StageTellsStatus, Early, Late
    <3>3. QED
      BY <3>1, <3>2
  <2>7. QED
    BY <2>4, <2>5, <2>6
<1>2. CASE WriteBody(r)
  <2>1. /\ pc[r] = "WriteBody" /\ code[r] = sent[r] /\ code[r] # 0
        /\ ~failed[r] /\ ~cut[r]
    BY <1>2 DEF WriteBody, StageTellsStatus
  <2>2. UNCHANGED <<panicked, requests, errors, durations>>
    BY <1>2 DEF WriteBody, meters
  <2>3. CASE GoOn(r, "Stopwatch") /\ UNCHANGED <<code, sent, failed, cut>>
    <3>1. HTypeOK'
      BY <2>2, <2>3 DEF GoOn, HTypeOK
    <3>2. ASSUME NEW q \in Requests PROVE StageTellsStatus(q)'
      BY <2>1, <2>2, <2>3
         DEF GoOn, HTypeOK, StageTellsStatus, Early, Late
    <3>3. QED
      BY <2>2, <3>1, <3>2
  <2>4. CASE Refuse(r, 500) /\ cut' = [cut EXCEPT ![r] = TRUE]
    <3>1. /\ pc' = [pc EXCEPT ![r] = "RecordError"]
          /\ failed' = [failed EXCEPT ![r] = TRUE]
          /\ code' = [code EXCEPT ![r] = 500]
          /\ sent' = [sent EXCEPT ![r] = IF @ = 0 THEN 500 ELSE @]
      BY <2>4 DEF Refuse, GoOn, WriteHeader
    <3>2. 500 \in Statuses
      BY StatusesAssumption
    <3>3. HTypeOK'
      BY <2>2, <2>4, <3>1, <3>2 DEF HTypeOK
    <3>4. ASSUME NEW q \in Requests PROVE StageTellsStatus(q)'
      <4>1. CASE q # r
        BY <2>2, <2>4, <3>1, <4>1 DEF HTypeOK, StageTellsStatus
      <4>2. CASE q = r
        <5>1. /\ pc'[r] = "RecordError" /\ failed'[r] /\ cut'[r]
              /\ code'[r] = 500 /\ sent'[r] # 0
          BY <2>1, <2>4, <3>1 DEF HTypeOK
        <5>2. QED
          BY <4>2, <5>1 DEF StageTellsStatus, Early, Late
      <4>3. QED
        BY <4>1, <4>2
    <3>5. QED
      BY <2>2, <3>3, <3>4
  <2>5. QED
    BY <1>2, <2>3, <2>4 DEF WriteBody
<1>3. QED
  BY <1>1, <1>2

\* The deferred functions, and the panic that makes them run.
LEMMA DeferredInv ==
    ASSUME HInv, NEW r \in Requests,
           Panic(r) \/ RecordError(r) \/ Stopwatch(r) \/ RecordDuration(r)
    PROVE  HInv'
<1> USE DEF HInv
<1>1. /\ UNCHANGED <<code, sent, failed, cut>>
      /\ \E stage \in {"Stopwatch", "RecordDuration", "done"} :
           pc' = [pc EXCEPT ![r] = stage]
      /\ panicked' = [panicked EXCEPT ![r] = TRUE]
           \/ (pc[r] \in Late /\ panicked' = panicked)
      /\ pc[r] \in Early => panicked' = [panicked EXCEPT ![r] = TRUE]
      /\ pc[r] \in Early \cup Late
  BY DEF Panic, RecordError, Stopwatch, RecordDuration, GoOn, Early, Late
<1>2. HTypeOK'
  BY <1>1 DEF HTypeOK
<1>3. code[r] \in Statuses \cup {0}
  BY DEF HTypeOK
<1>4. /\ requests' \in [Statuses \cup {0} -> Nat]
      /\ errors' \in [Statuses \cup {0} -> Nat]
      /\ durations' \in [Statuses \cup {0} -> Nat]
  BY <1>3 DEF Panic, RecordError, Stopwatch, RecordDuration, Add, meters
<1>5. ASSUME NEW q \in Requests PROVE StageTellsStatus(q)'
  <2>1. CASE q # r
    BY <1>1, <2>1 DEF HTypeOK, StageTellsStatus
  <2>2. CASE q = r
    BY <1>1, <2>2 DEF HTypeOK, StageTellsStatus, Early, Late
  <2>3. QED
    BY <2>1, <2>2
<1>6. QED
  BY <1>2, <1>4, <1>5

\* Every step of every request keeps the invariant.
LEMMA HNextInv == HInv /\ [HNext]_hvars => HInv'
<1> SUFFICES ASSUME HInv, [HNext]_hvars PROVE HInv'
  OBVIOUS
<1>1. {400, 401, 415, 500, 501} \subseteq Statuses
  BY StatusesAssumption
<1>2. ASSUME NEW r \in Requests, Enter(r) PROVE HInv'
  BY <1>2, GoOnInv DEF Enter, Early
<1>3. ASSUME NEW r \in Requests, Secure(r) PROVE HInv'
  <2>1. pc[r] \in Early /\ UNCHANGED <<panicked, cut, meters>>
    BY <1>3 DEF Secure, Early
  <2>2. CASE Refuse(r, 401)
    BY <1>1, <2>1, <2>2, RefuseInv
  <2>3. CASE GoOn(r, "DecodeParams") /\ UNCHANGED <<code, sent, failed>>
    BY <2>1, <2>3, GoOnInv DEF Early
  <2>4. QED
    BY <1>3, <2>2, <2>3 DEF Secure
<1>4. ASSUME NEW r \in Requests, DecodeParams(r) PROVE HInv'
  <2>1. pc[r] \in Early /\ UNCHANGED <<panicked, cut, meters>>
    BY <1>4 DEF DecodeParams, Early
  <2>2. CASE Refuse(r, 400)
    BY <1>1, <2>1, <2>2, RefuseInv
  <2>3. CASE GoOn(r, "DecodeRequest") /\ UNCHANGED <<code, sent, failed>>
    BY <2>1, <2>3, GoOnInv DEF Early
  <2>4. QED
    BY <1>4, <2>2, <2>3 DEF DecodeParams
<1>5. ASSUME NEW r \in Requests, DecodeRequest(r) PROVE HInv'
  <2>1. pc[r] \in Early /\ UNCHANGED <<panicked, cut, meters>>
    BY <1>5 DEF DecodeRequest, Early
  <2>2. CASE Refuse(r, 400) \/ Refuse(r, 415)
    BY <1>1, <2>1, <2>2, RefuseInv
  <2>3. CASE GoOn(r, "Handle") /\ UNCHANGED <<code, sent, failed>>
    BY <2>1, <2>3, GoOnInv DEF Early
  <2>4. QED
    BY <1>5, <2>2, <2>3 DEF DecodeRequest
<1>6. ASSUME NEW r \in Requests, Handle(r) PROVE HInv'
  <2>1. pc[r] \in Early /\ UNCHANGED <<panicked, cut, meters>>
    BY <1>6 DEF Handle, Early
  <2>2. CASE Refuse(r, 500) \/ Refuse(r, 501)
    BY <1>1, <2>1, <2>2, RefuseInv
  <2>3. CASE GoOn(r, "EncodeResponse") /\ UNCHANGED <<code, sent, failed>>
    BY <2>1, <2>3, GoOnInv DEF Early
  <2>4. QED
    BY <1>6, <2>2, <2>3 DEF Handle
<1>7. ASSUME NEW r \in Requests, EncodeFails(r) PROVE HInv'
  BY <1>1, <1>7, RefuseInv DEF EncodeFails, Early
<1>8. ASSUME NEW r \in Requests, EncodeResponse(r) \/ WriteBody(r) PROVE HInv'
  BY <1>8, WriteInv
<1>9. ASSUME NEW r \in Requests,
             Panic(r) \/ RecordError(r) \/ Stopwatch(r) \/ RecordDuration(r)
      PROVE  HInv'
  BY <1>9, DeferredInv
<1>10. CASE UNCHANGED hvars
  BY <1>10 DEF hvars, meters, HInv, HTypeOK, StageTellsStatus
<1>11. QED
  BY <1>2, <1>3, <1>4, <1>5, <1>6, <1>7, <1>8, <1>9, <1>10 DEF HNext

\* The invariant holds at all times, however the requests interleave.
THEOREM HandlersInvariance == HSpec => []HInv
<1>1. HInv /\ [HNext]_hvars => HInv'
  BY HNextInv
<1>2. QED
  BY <1>1, HInitInv, PTL DEF HSpec

\* The variables of the handlers keep their types.
THEOREM HandlersTypes == HSpec => []HTypeOK
BY HandlersInvariance, PTL DEF HInv

\* The metrics tell the status that the client was sent.
THEOREM MetricsTellTheStatus == HSpec => []CountedAsSent
<1>1. HInv => CountedAsSent
  BY DEF HInv, CountedAsSent, Counted, StageTellsStatus, Late
<1>2. QED
  BY <1>1, HandlersInvariance, PTL

-----------------------------------------------------------------------------
(* The instruments.                                                        *)

\* The requests of a set that have a status.
With(S, status, s) == {r \in S : status[r] = s}

\* A counter holds the sizes of these sets.
Holds(counter, S, status) ==
    \A s \in Statuses \cup {0} : counter[s] = Cardinality(With(S, status, s))

\* Counting a request that has not been counted keeps the counter true.
LEMMA AddKeeps ==
    ASSUME NEW S \in SUBSET Requests, NEW r \in Requests, r \notin S,
           NEW status, status[r] \in Statuses \cup {0},
           NEW counter \in [Statuses \cup {0} -> Nat],
           Holds(counter, S, status)
    PROVE  Holds(Add(counter, status[r]), S \cup {r}, status)
<1> SUFFICES ASSUME NEW s \in Statuses \cup {0}
             PROVE  Add(counter, status[r])[s]
                      = Cardinality(With(S \cup {r}, status, s))
  BY DEF Holds
<1>1. counter[s] = Cardinality(With(S, status, s))
  BY DEF Holds
<1>2. IsFiniteSet(With(S, status, s))
  BY RequestsAssumption, FS_Subset DEF With
<1>3. CASE s = status[r]
  <2>1. /\ With(S \cup {r}, status, s) = With(S, status, s) \cup {r}
        /\ r \notin With(S, status, s)
    BY <1>3 DEF With
  <2>2. Cardinality(With(S \cup {r}, status, s)) = counter[s] + 1
    BY <1>1, <1>2, <2>1, FS_AddElement
  <2>3. Add(counter, status[r])[s] = counter[s] + 1
    BY <1>3 DEF Add
  <2>4. QED
    BY <2>2, <2>3
<1>4. CASE s # status[r]
  <2>1. With(S \cup {r}, status, s) = With(S, status, s)
    BY <1>4 DEF With
  <2>2. Add(counter, status[r])[s] = counter[s]
    BY <1>4 DEF Add
  <2>3. QED
    BY <1>1, <2>1, <2>2
<1>5. QED
  BY <1>3, <1>4

\* A counter stays true while nothing is counted and no counted request gets
\* another status.
LEMMA SameKeeps ==
    ASSUME NEW S, NEW status, NEW later, NEW counter,
           \A r \in S : later[r] = status[r],
           Holds(counter, S, status)
    PROVE  Holds(counter, S, later)
<1>1. \A s \in Statuses \cup {0} : With(S, later, s) = With(S, status, s)
  BY DEF With
<1>2. QED
  BY <1>1 DEF Holds

\* What a step does to the sets that are counted: one of the three deferred
\* functions counts its request, every other step leaves them alone and gives
\* no counted request another status.
LEMMA WhoIsCounted ==
    ASSUME HInv, [HNext]_hvars
    PROVE  \/ /\ UNCHANGED <<Counted, Timed, Erred, meters>>
              /\ \A q \in Counted \cup Timed \cup Erred : code'[q] = code[q]
           \/ \E r \in Requests :
                /\ UNCHANGED code
                /\ \/ /\ r \notin Erred /\ Erred' = Erred \cup {r}
                      /\ errors' = Add(errors, code[r])
                      /\ UNCHANGED <<Counted, Timed, requests, durations>>
                   \/ /\ r \notin Counted /\ Counted' = Counted \cup {r}
                      /\ requests' = Add(requests, code[r])
                      /\ UNCHANGED <<Erred, Timed, errors, durations>>
                   \/ /\ r \notin Timed /\ Timed' = Timed \cup {r}
                      /\ durations' = Add(durations, code[r])
                      /\ UNCHANGED <<Erred, Counted, errors, requests>>
<1> USE DEF HInv
<1> DEFINE Quiet ==
      /\ UNCHANGED <<Counted, Timed, Erred, meters>>
      /\ \A q \in Counted \cup Timed \cup Erred : code'[q] = code[q]
<1>1. ASSUME NEW r \in Requests, NEW stage,
             pc[r] \in Early \cup {"WriteBody"},
             pc' = [pc EXCEPT ![r] = stage],
             stage \notin {"RecordDuration", "done"},
             failed'[r] => stage = "RecordError",
             \A q \in Requests \ {r} : failed'[q] = failed[q] /\ code'[q] = code[q],
             UNCHANGED meters
      PROVE  Quiet
  <2>1. ~failed[r]
    BY <1>1 DEF StageTellsStatus
  <2>2. /\ pc'[r] = stage
        /\ \A q \in Requests \ {r} : pc'[q] = pc[q]
    BY <1>1 DEF HTypeOK
  <2>3. r \notin Counted \cup Timed \cup Erred
    BY <1>1, <2>1 DEF Counted, Timed, Erred, Early
  <2>4. Counted' = Counted /\ Timed' = Timed
    BY <1>1, <2>2, <2>3 DEF Counted, Timed
  <2>5. Erred' = Erred
    BY <1>1, <2>2, <2>3 DEF Erred
  <2>6. Counted \cup Timed \cup Erred \subseteq Requests
    BY DEF Counted, Timed, Erred
  <2>7. QED
    BY <1>1, <2>3, <2>4, <2>5, <2>6
<1>2. ASSUME NEW r \in Requests, NEW s, pc[r] \in Early \cup {"WriteBody"},
             Refuse(r, s), UNCHANGED meters
      PROVE  Quiet
  <2>1. /\ pc' = [pc EXCEPT ![r] = "RecordError"]
        /\ \A q \in Requests \ {r} :
             failed'[q] = failed[q] /\ code'[q] = code[q]
    BY <1>2 DEF Refuse, GoOn, WriteHeader, HTypeOK
  <2>2. QED
    BY <1>1, <1>2, <2>1
<1>3. ASSUME NEW r \in Requests, NEW stage \in Early \cup {"Stopwatch"},
             pc[r] \in Early \cup {"WriteBody"}, GoOn(r, stage),
             UNCHANGED <<code, failed, meters>>
      PROVE  Quiet
  <2>1. ~failed'[r] /\ stage \notin {"RecordDuration", "done"}
    BY <1>3 DEF StageTellsStatus, Early
  <2>2. QED
    BY <1>1, <1>3, <2>1 DEF GoOn
<1>4. ASSUME NEW r \in Requests, Enter(r) \/ Panic(r) PROVE Quiet
  BY <1>3, <1>4 DEF Enter, Panic, Early
<1>5. ASSUME NEW r \in Requests,
             Secure(r) \/ DecodeParams(r) \/ DecodeRequest(r) \/ Handle(r)
               \/ EncodeFails(r)
      PROVE  Quiet
  <2>1. pc[r] \in Early /\ UNCHANGED meters
    BY <1>5 DEF Secure, DecodeParams, DecodeRequest, Handle, EncodeFails, Early
  <2>2. \/ \E s : Refuse(r, s)
        \/ /\ \E stage \in Early : GoOn(r, stage)
           /\ UNCHANGED <<code, failed>>
    BY <1>5 DEF Secure, DecodeParams, DecodeRequest, Handle, EncodeFails, Early
  <2>3. QED
    BY <1>2, <1>3, <2>1, <2>2
<1>6. ASSUME NEW r \in Requests, EncodeResponse(r) PROVE Quiet
  <2>1. PICK stage, s :
          /\ stage \in {"Stopwatch", "WriteBody"}
          /\ GoOn(r, stage) /\ WriteHeader(r, s)
    BY <1>6 DEF EncodeResponse
  <2>2. /\ pc[r] \in Early /\ ~failed[r]
        /\ UNCHANGED <<failed, meters>>
    BY <1>6 DEF EncodeResponse, StageTellsStatus, Early
  <2>3. \A q \in Requests \ {r} : code'[q] = code[q]
    BY <2>1 DEF WriteHeader, HTypeOK
  <2>4. QED
    BY <1>1, <2>1, <2>2, <2>3 DEF GoOn
<1>7. ASSUME NEW r \in Requests, WriteBody(r) PROVE Quiet
  BY <1>2, <1>3, <1>7 DEF WriteBody
<1>8. ASSUME NEW r \in Requests, RecordError(r)
      PROVE  /\ r \notin Erred /\ Erred' = Erred \cup {r}
             /\ errors' = Add(errors, code[r])
             /\ UNCHANGED <<Counted, Timed, requests, durations, code>>
  <2>1. /\ pc[r] = "RecordError" /\ failed[r]
        /\ pc' = [pc EXCEPT ![r] = "Stopwatch"]
        /\ UNCHANGED <<failed, code, requests, durations>>
        /\ errors' = Add(errors, code[r])
    BY <1>8 DEF RecordError, GoOn, StageTellsStatus
  <2>2. pc'[r] = "Stopwatch" /\ \A q \in Requests \ {r} : pc'[q] = pc[q]
    BY <2>1 DEF HTypeOK
  <2>3. QED
    BY <2>1, <2>2 DEF Counted, Timed, Erred
<1>9. ASSUME NEW r \in Requests, Stopwatch(r)
      PROVE  /\ r \notin Counted /\ Counted' = Counted \cup {r}
             /\ requests' = Add(requests, code[r])
             /\ UNCHANGED <<Erred, Timed, errors, durations, code>>
  <2>1. /\ pc[r] = "Stopwatch"
        /\ pc' = [pc EXCEPT ![r] = "RecordDuration"]
        /\ UNCHANGED <<failed, code, errors, durations>>
        /\ requests' = Add(requests, code[r])
    BY <1>9 DEF Stopwatch, GoOn
  <2>2. pc'[r] = "RecordDuration" /\ \A q \in Requests \ {r} : pc'[q] = pc[q]
    BY <2>1 DEF HTypeOK
  <2>3. QED
    BY <2>1, <2>2 DEF Counted, Timed, Erred
<1>10. ASSUME NEW r \in Requests, RecordDuration(r)
       PROVE  /\ r \notin Timed /\ Timed' = Timed \cup {r}
              /\ durations' = Add(durations, code[r])
              /\ UNCHANGED <<Erred, Counted, errors, requests, code>>
  <2>1. /\ pc[r] = "RecordDuration"
        /\ pc' = [pc EXCEPT ![r] = "done"]
        /\ UNCHANGED <<failed, code, errors, requests>>
        /\ durations' = Add(durations, code[r])
    BY <1>10 DEF RecordDuration, GoOn
  <2>2. pc'[r] = "done" /\ \A q \in Requests \ {r} : pc'[q] = pc[q]
    BY <2>1 DEF HTypeOK
  <2>3. QED
    BY <2>1, <2>2 DEF Counted, Timed, Erred
<1>11. CASE UNCHANGED hvars
  BY <1>11 DEF hvars, meters, Counted, Timed, Erred
<1>12. QED
  BY <1>4, <1>5, <1>6, <1>7, <1>8, <1>9, <1>10, <1>11 DEF HNext

\* Between any two steps of any requests, the instruments hold for each status
\* the number of requests that have passed them with it.
THEOREM InstrumentsCountRequests == HSpec => []MetersCount
<1> DEFINE Inv == /\ HInv
                  /\ Holds(requests, Counted, code)
                  /\ Holds(durations, Timed, code)
                  /\ Holds(errors, Erred, code)
<1>1. HInit => Inv
  <2> SUFFICES ASSUME HInit PROVE Inv
    OBVIOUS
  <2>1. Counted = {} /\ Timed = {} /\ Erred = {}
    BY DEF HInit, Counted, Timed, Erred
  <2>2. \A s : With({}, code, s) = {}
    BY DEF With
  <2>3. \A s \in Statuses \cup {0} :
          requests[s] = 0 /\ durations[s] = 0 /\ errors[s] = 0
    BY DEF HInit
  <2>4. QED
    BY <2>1, <2>2, <2>3, HInitInv, FS_EmptySet DEF Holds
<1>2. Inv /\ [HNext]_hvars => Inv'
  <2> SUFFICES ASSUME Inv, [HNext]_hvars PROVE Inv'
    OBVIOUS
  <2>1. HInv'
    BY HNextInv
  <2>2. /\ Counted \subseteq Requests /\ Timed \subseteq Requests
        /\ Erred \subseteq Requests
    BY DEF Counted, Timed, Erred
  <2>3. /\ requests \in [Statuses \cup {0} -> Nat]
        /\ errors \in [Statuses \cup {0} -> Nat]
        /\ durations \in [Statuses \cup {0} -> Nat]
        /\ \A r \in Requests : code[r] \in Statuses \cup {0}
    BY DEF HInv, HTypeOK
  <2>4. CASE /\ UNCHANGED <<Counted, Timed, Erred, meters>>
             /\ \A q \in Counted \cup Timed \cup Erred : code'[q] = code[q]
    <3>1. /\ Holds(requests, Counted, code')
          /\ Holds(durations, Timed, code')
          /\ Holds(errors, Erred, code')
      BY <2>4, SameKeeps
    <3>2. /\ Counted' = Counted /\ Timed' = Timed /\ Erred' = Erred
          /\ requests' = requests /\ errors' = errors
          /\ durations' = durations
      BY <2>4 DEF meters
    <3>3. QED
      BY <2>1, <3>1, <3>2 DEF Holds, With
  <2>5. ASSUME NEW r \in Requests, UNCHANGED code,
               r \notin Erred, Erred' = Erred \cup {r},
               errors' = Add(errors, code[r]),
               UNCHANGED <<Counted, Timed, requests, durations>>
        PROVE  Inv'
    <3>1. Holds(Add(errors, code[r]), Erred \cup {r}, code)
      BY <2>2, <2>3, <2>5, AddKeeps
    <3>2. QED
      BY <2>1, <2>5, <3>1 DEF Holds, With
  <2>6. ASSUME NEW r \in Requests, UNCHANGED code,
               r \notin Counted, Counted' = Counted \cup {r},
               requests' = Add(requests, code[r]),
               UNCHANGED <<Erred, Timed, errors, durations>>
        PROVE  Inv'
    <3>1. Holds(Add(requests, code[r]), Counted \cup {r}, code)
      BY <2>2, <2>3, <2>6, AddKeeps
    <3>2. QED
      BY <2>1, <2>6, <3>1 DEF Holds, With
  <2>7. ASSUME NEW r \in Requests, UNCHANGED code,
               r \notin Timed, Timed' = Timed \cup {r},
               durations' = Add(durations, code[r]),
               UNCHANGED <<Erred, Counted, errors, requests>>
        PROVE  Inv'
    <3>1. Holds(Add(durations, code[r]), Timed \cup {r}, code)
      BY <2>2, <2>3, <2>7, AddKeeps
    <3>2. QED
      BY <2>1, <2>7, <3>1 DEF Holds, With
  <2>8. QED
    BY <2>4, <2>5, <2>6, <2>7, WhoIsCounted
<1>3. Inv => MetersCount
  BY DEF Holds, With, MetersCount
<1>4. QED
  BY <1>1, <1>2, <1>3, PTL DEF HSpec

=============================================================================
