--------------------------- MODULE ApiCallProofs ----------------------------
(***************************************************************************)
(* Proofs about ApiCall for any set of calls, operations, replies, and any *)
(* limits: the safety properties that TLC checks on two calls, and that    *)
(* ApiCall implements CallContract.                                        *)
(***************************************************************************)
EXTENDS ApiCallRefinement, FiniteSetTheorems, TLAPS

(***************************************************************************)
(* The inductive invariant says of each call, apart from types, where its  *)
(* exchange and its result can stand at each stage, and what the server has*)
(* done and may still do with its request.                                 *)
(***************************************************************************)
BeforeSend == {"idle", "Arguments", "EncodeRequest"}
Deferred   == {"CloseBody", "RecordError", "RecordDuration", "Switch"}

\* A request that never was on a connection has had no effect.
NothingSentYet(c) ==
    /\ pc[c] \in BeforeSend => tries[c] = 0 /\ failed[c] = "nil"
    /\ tries[c] = 0 => /\ wire[c] = "none" /\ reply[c] = NoReply
                       /\ applied[c] = 0 /\ orphans[c] = 0

\* A request without a reply is sent only while its call waits in Do.
Exchanged(c) ==
    /\ wire[c] = "sent" => pc[c] = "SendRequest" /\ reply[c] = NoReply
    /\ wire[c] \in {"sent", "head", "body", "eof", "reset"}
           => pc[c] \in {"SendRequest", "DecodeResponse", "CloseBody"}
    /\ pc[c] = "SendRequest"
           => failed[c] = "nil" /\ (wire[c] = "none" => reply[c] = NoReply)
    /\ pc[c] = "DecodeResponse" => failed[c] = "nil" /\ reply[c] # NoReply

\* Past DecodeResponse an error names its stage, and without one there is a
\* reply that was decoded.
Decoded(c) ==
    /\ failed[c] \in {"nil", "EncodeRequest", "SendRequest", "DecodeResponse"}
    /\ pc[c] \in Deferred /\ failed[c] = "nil"
           => reply[c] # NoReply /\ Decodes(Api[c], reply[c])
    /\ pc[c] # "done" <=> result[c] = Pending
    /\ result[c].kind \in {"ok", "api"}
           => /\ reply[c] # NoReply
              /\ result[c] = Switch(Api[c], reply[c])

\* What the server did agrees with what it answered.
Executed(c) == reply[c].status = 200 => applied[c] > 0

\* A request that is not a GET is on a connection once, and may be executed
\* late only if the server never answered it.
SentOnce(c) ==
    c \notin ReadOnly =>
        /\ tries[c] <= 1
        /\ applied[c] + orphans[c] <= 1
        /\ wire[c] = "sent" => applied[c] = 0 /\ orphans[c] = 0
        /\ orphans[c] > 0 => reply[c] = NoReply
        /\ reply[c].status \in 400 .. 499 => applied[c] = 0

CallInv(c) ==
    NothingSentYet(c) /\ Exchanged(c) /\ Decoded(c) /\ Executed(c)
    /\ SentOnce(c)

IInv == TypeOK /\ \A c \in Calls : CallInv(c)

-----------------------------------------------------------------------------
(* Lemmas about what one call returns.                                     *)

\* A plain error is a result.
LEMMA PlainType ==
    ASSUME NEW origin \in PlainOrigins
    PROVE  /\ Plain(origin) \in Results /\ Plain(origin) # Pending
           /\ Plain(origin).kind = "plain"
BY DEF Plain, Results, PlainOrigins, ApiTexts, Pending

\* A type switch over any reply yields a result, and never the error of an
\* argument that does not convert.
LEMMA SwitchType ==
    ASSUME NEW op \in Operations, NEW r \in Reply
    PROVE  /\ Switch(op, r) \in Results /\ Switch(op, r) # Pending
           /\ Switch(op, r) # Plain("Arguments")
<1>1. r.status \in Nat /\ r.body \in Bodies
  BY DEF Reply
<1>2. Empty(r.status) \in Results /\ Empty(r.status).kind = "api"
  BY <1>1 DEF Empty, APIError, Results, ApiTexts, PlainOrigins
<1>3. /\ FromProblemDetails(r.body, r.status) \in Results
      /\ FromProblemDetails(r.body, r.status).kind = "api"
  BY <1>1 DEF FromProblemDetails, APIError, Results, ApiTexts, PlainOrigins,
              Bodies
<1>4. UnexpectedResponse \in Results /\ UnexpectedResponse.kind = "api"
  BY DEF UnexpectedResponse, APIError, Results, ApiTexts, PlainOrigins
<1>5. Value \in Results /\ Value.kind = "ok"
  BY DEF Value, Results, ApiTexts, PlainOrigins
<1>6. /\ Plain("Conversion") \in Results /\ Plain("Conversion") # Pending
      /\ Plain("Conversion") # Plain("Arguments")
  BY PlainType DEF Plain, PlainOrigins
<1>7. Plain("Arguments").kind = "plain" /\ Pending.kind = "pending"
  BY DEF Plain, Pending
<1> QED
  BY <1>2, <1>3, <1>4, <1>5, <1>6, <1>7 DEF Switch

\* The reply a call has before there is one is a reply that none is equal to.
LEMMA NoReplyType ==
    /\ NoReply \in Reply /\ NoReply \notin Replies
    /\ Replies \cup {NoReply} \subseteq Reply
<1>1. NoReply \in Reply
  BY DEF NoReply, Reply, Bodies, Shapes
<1>2. NoReply \notin Replies
  BY RepliesAssumption DEF NoReply
<1> QED
  BY <1>1, <1>2, RepliesAssumption


-----------------------------------------------------------------------------
(* The invariant is inductive.  A step changes the state of one call.      *)

\* Initially no call has begun, and each satisfies its part of the invariant.
LEMMA InitInv == Init => IInv
<1> SUFFICES ASSUME Init PROVE IInv
  OBVIOUS
<1>1. TypeOK
  BY DEF Init, TypeOK, Stages, Wires
<1>2. ASSUME NEW c \in Calls PROVE CallInv(c)
  <2>1. /\ pc[c] = "idle" /\ wire[c] = "none" /\ reply[c] = NoReply
        /\ tries[c] = 0 /\ applied[c] = 0 /\ orphans[c] = 0
        /\ failed[c] = "nil" /\ result[c] = Pending
    BY DEF Init
  <2>2. NoReply.status = 0 /\ Pending.kind = "pending"
    BY DEF NoReply, Pending
  <2> QED
    BY <2>1, <2>2 DEF CallInv, NothingSentYet, Exchanged, Decoded, Executed,
                      SentOnce, BeforeSend, Deferred
<1> QED
  BY <1>1, <1>2 DEF IInv

\* What CallInv(c) depends on.
Here(c) == <<pc[c], wire[c], reply[c], tries[c], applied[c], orphans[c],
             failed[c], result[c]>>

\* A step of one call that keeps the types and its own part of the invariant
\* keeps those of the others, whose state it leaves alone.
LEMMA OtherCalls ==
    ASSUME IInv, TypeOK', NEW c \in Calls, CallInv(c)',
           \A d \in Calls \ {c} : UNCHANGED Here(d)
    PROVE  IInv'
<1>1. ASSUME NEW d \in Calls, d # c PROVE CallInv(d)'
  <2>1. /\ UNCHANGED <<pc[d], wire[d], reply[d], tries[d]>>
        /\ UNCHANGED <<applied[d], orphans[d], failed[d], result[d]>>
    BY <1>1 DEF Here
  <2>2. CallInv(d)
    BY DEF IInv
  <2> QED
    BY <2>1, <2>2 DEF CallInv, NothingSentYet, Exchanged, Decoded, Executed,
                      SentOnce
<1> QED
  BY <1>1 DEF IInv

\* The types of the state of one call.
LEMMA CallTypes ==
    ASSUME IInv, NEW c \in Calls
    PROVE  /\ pc[c] \in Stages /\ wire[c] \in Wires
           /\ reply[c] \in Replies \cup {NoReply} /\ reply[c] \in Reply
           /\ tries[c] \in Nat /\ applied[c] \in Nat /\ orphans[c] \in Nat
           /\ failed[c] \in PlainOrigins \cup {"nil"}
           /\ result[c] \in Results \cup {Pending}
           /\ Api[c] \in Operations /\ CallInv(c)
BY NoReplyType, ApiAssumption DEF IInv, TypeOK

\* Counting.
LEMMA Increment ==
    ASSUME NEW S, NEW f \in [S -> Nat], NEW c \in S
    PROVE  [f EXCEPT ![c] = @ + 1] \in [S -> Nat]
OBVIOUS

\* Begin keeps the invariant.
LEMMA KeepsBegin ==
    ASSUME IInv, NEW c \in Calls, Begin(c)
    PROVE  IInv'
<1>1. TypeOK'
  BY DEF Begin, Goto, IInv, TypeOK, netVars, instruments, Stages, Wires,
         PlainOrigins
<1>2. /\ pc'[c] = "Arguments"
      /\ UNCHANGED <<wire[c], reply[c], tries[c], applied[c], orphans[c],
                     failed[c], result[c]>>
      /\ \A d \in Calls \ {c} : UNCHANGED Here(d)
  BY DEF Begin, Goto, IInv, TypeOK, Here, netVars
<1>3. CallInv(c)'
  BY <1>2, CallTypes
     DEF Begin, IInv, CallInv, NothingSentYet, Exchanged, Decoded, Executed,
         SentOnce, BeforeSend, Deferred
<1> QED
  BY <1>1, <1>2, <1>3, OtherCalls

\* StartRequest keeps the invariant.
LEMMA KeepsStartRequest ==
    ASSUME IInv, NEW c \in Calls, StartRequest(c)
    PROVE  IInv'
<1>1. TypeOK'
  BY DEF StartRequest, Goto, IInv, TypeOK, netVars, instruments, Stages, Wires,
         PlainOrigins
<1>2. /\ pc'[c] = "EncodeRequest"
      /\ UNCHANGED <<wire[c], reply[c], tries[c], applied[c], orphans[c],
                     failed[c], result[c]>>
      /\ \A d \in Calls \ {c} : UNCHANGED Here(d)
  BY DEF StartRequest, Goto, IInv, TypeOK, Here, netVars
<1>3. CallInv(c)'
  BY <1>2, CallTypes
     DEF StartRequest, IInv, CallInv, NothingSentYet, Exchanged, Decoded,
         Executed, SentOnce, BeforeSend, Deferred
<1> QED
  BY <1>1, <1>2, <1>3, OtherCalls

\* RejectArguments keeps the invariant.
LEMMA KeepsRejectArguments ==
    ASSUME IInv, NEW c \in Calls, RejectArguments(c)
    PROVE  IInv'
<1>0. "Arguments" \in PlainOrigins
  BY DEF PlainOrigins
<1>1. TypeOK'
  BY <1>0, PlainType DEF RejectArguments, Goto, IInv, TypeOK, netVars,
         instruments, Stages, Wires
<1>2. /\ pc'[c] = "done"
      /\ result'[c] = Plain("Arguments")
      /\ UNCHANGED <<wire[c], reply[c], tries[c], applied[c], orphans[c],
                     failed[c]>>
      /\ \A d \in Calls \ {c} : UNCHANGED Here(d)
  BY DEF RejectArguments, Goto, IInv, TypeOK, Here, netVars
<1>3. CallInv(c)'
  BY <1>0, <1>2, PlainType, CallTypes
     DEF RejectArguments, IInv, CallInv, NothingSentYet, Exchanged, Decoded,
         Executed, SentOnce, BeforeSend, Deferred
<1> QED
  BY <1>1, <1>2, <1>3, OtherCalls

\* EncodeRequest keeps the invariant.
LEMMA KeepsEncodeRequest ==
    ASSUME IInv, NEW c \in Calls, EncodeRequest(c)
    PROVE  IInv'
<1>1. TypeOK'
  BY DEF EncodeRequest, Goto, IInv, TypeOK, netVars, instruments, Stages,
         Wires,
         PlainOrigins
<1>2. /\ pc'[c] = "SendRequest"
      /\ UNCHANGED <<wire[c], reply[c], tries[c], applied[c], orphans[c],
                     failed[c], result[c]>>
      /\ \A d \in Calls \ {c} : UNCHANGED Here(d)
  BY DEF EncodeRequest, Goto, IInv, TypeOK, Here, netVars
<1>3. CallInv(c)'
  BY <1>2, CallTypes
     DEF EncodeRequest, IInv, CallInv, NothingSentYet, Exchanged, Decoded,
         Executed, SentOnce, BeforeSend, Deferred
<1> QED
  BY <1>1, <1>2, <1>3, OtherCalls

\* EncodeFails keeps the invariant.
LEMMA KeepsEncodeFails ==
    ASSUME IInv, NEW c \in Calls, EncodeFails(c)
    PROVE  IInv'
<1>1. TypeOK'
  BY DEF EncodeFails, Goto, Fail, IInv, TypeOK, netVars, instruments, Stages,
         Wires,
         PlainOrigins
<1>2. /\ pc'[c] = "RecordError"
      /\ failed'[c] = "EncodeRequest"
      /\ UNCHANGED <<wire[c], reply[c], tries[c], applied[c], orphans[c],
                     result[c]>>
      /\ \A d \in Calls \ {c} : UNCHANGED Here(d)
  BY DEF EncodeFails, Goto, Fail, IInv, TypeOK, Here, netVars
<1>3. CallInv(c)'
  BY <1>2, CallTypes
     DEF EncodeFails, IInv, CallInv, NothingSentYet, Exchanged, Decoded,
         Executed, SentOnce, BeforeSend, Deferred
<1> QED
  BY <1>1, <1>2, <1>3, OtherCalls

\* Connect keeps the invariant.
LEMMA KeepsConnect ==
    ASSUME IInv, NEW c \in Calls, Connect(c)
    PROVE  IInv'
<1>1. TypeOK'
  BY DEF Connect, IInv, TypeOK, netVars, instruments, Stages, Wires,
         PlainOrigins
<1>2. /\ wire'[c] = "sent"
      /\ tries'[c] = tries[c] + 1
      /\ UNCHANGED <<pc[c], reply[c], applied[c], orphans[c], failed[c],
                     result[c]>>
      /\ \A d \in Calls \ {c} : UNCHANGED Here(d)
  BY DEF Connect, IInv, TypeOK, Here, netVars
<1>3. c \notin ReadOnly => tries[c] = 0
  BY CallTypes DEF Connect, Attempts
<1>4. CallInv(c)'
  BY <1>2, <1>3, CallTypes
     DEF Connect, IInv, CallInv, NothingSentYet, Exchanged, Decoded, Executed,
         SentOnce, BeforeSend, Deferred
<1> QED
  BY <1>1, <1>2, <1>4, OtherCalls

\* Replay keeps the invariant.
LEMMA KeepsReplay ==
    ASSUME IInv, NEW c \in Calls, Replay(c)
    PROVE  IInv'
<1>1. TypeOK'
  BY DEF Replay, IInv, TypeOK, netVars, instruments, Stages, Wires,
         PlainOrigins
<1>2. /\ wire'[c] = "none"
      /\ UNCHANGED <<pc[c], reply[c], tries[c], applied[c], orphans[c],
                     failed[c], result[c]>>
      /\ \A d \in Calls \ {c} : UNCHANGED Here(d)
  BY DEF Replay, IInv, TypeOK, Here, netVars
<1>3. CallInv(c)'
  BY <1>2, CallTypes
     DEF Replay, IInv, CallInv, NothingSentYet, Exchanged, Decoded, Executed,
         SentOnce, BeforeSend, Deferred
<1> QED
  BY <1>1, <1>2, <1>3, OtherCalls

\* Receive keeps the invariant.
LEMMA KeepsReceive ==
    ASSUME IInv, NEW c \in Calls, Receive(c)
    PROVE  IInv'
<1>1. TypeOK'
  BY DEF Receive, Goto, IInv, TypeOK, netVars, instruments, Stages, Wires,
         PlainOrigins
<1>2. /\ pc'[c] = "DecodeResponse"
      /\ UNCHANGED <<wire[c], reply[c], tries[c], applied[c], orphans[c],
                     failed[c], result[c]>>
      /\ \A d \in Calls \ {c} : UNCHANGED Here(d)
  BY DEF Receive, Goto, IInv, TypeOK, Here, netVars
<1>3. CallInv(c)'
  BY <1>2, CallTypes
     DEF Receive, IInv, CallInv, NothingSentYet, Exchanged, Decoded, Executed,
         SentOnce, BeforeSend, Deferred
<1> QED
  BY <1>1, <1>2, <1>3, OtherCalls

\* GiveUp and DialFails keep the invariant: both drop the request.
LEMMA KeepsDropRequest ==
    ASSUME IInv, NEW c \in Calls, DropRequest(c), pc[c] = "SendRequest"
    PROVE  IInv'
<1>1. TypeOK'
  BY DEF DropRequest, Goto, Fail, IInv, TypeOK, netVars, instruments, Stages,
         Wires,
         PlainOrigins
<1>2. /\ pc'[c] = "RecordError"
      /\ wire'[c] = "none"
      /\ \/ orphans'[c] = orphans[c]
         \/ /\ wire[c] = "sent" /\ orphans'[c] = orphans[c] + 1
      /\ failed'[c] = "SendRequest"
      /\ UNCHANGED <<reply[c], tries[c], applied[c], result[c]>>
      /\ \A d \in Calls \ {c} : UNCHANGED Here(d)
  BY DEF DropRequest, Goto, Fail, IInv, TypeOK, Here, netVars
<1>3. CallInv(c)'
  BY <1>2, CallTypes
     DEF DropRequest, IInv, CallInv, NothingSentYet, Exchanged, Decoded,
         Executed, SentOnce, BeforeSend, Deferred
<1> QED
  BY <1>1, <1>2, <1>3, OtherCalls

\* DecodeHead keeps the invariant.
LEMMA KeepsDecodeHead ==
    ASSUME IInv, NEW c \in Calls, DecodeHead(c)
    PROVE  IInv'
<1>1. TypeOK'
  BY DEF DecodeHead, Goto, Fail, IInv, TypeOK, netVars, instruments, Stages,
         Wires,
         PlainOrigins
<1>2. /\ pc'[c] = "CloseBody"
      /\ \/ Decodes(Api[c], reply[c]) /\ failed'[c] = failed[c]
         \/ failed'[c] = "DecodeResponse"
      /\ UNCHANGED <<wire[c], reply[c], tries[c], applied[c], orphans[c],
                     result[c]>>
      /\ \A d \in Calls \ {c} : UNCHANGED Here(d)
  BY DEF DecodeHead, Decodes, Goto, Fail, IInv, TypeOK, Here, netVars
<1>3. CallInv(c)'
  BY <1>2, CallTypes
     DEF DecodeHead, IInv, CallInv, NothingSentYet, Exchanged, Decoded,
         Executed, SentOnce, BeforeSend, Deferred
<1> QED
  BY <1>1, <1>2, <1>3, OtherCalls

\* DecodeBody keeps the invariant.
LEMMA KeepsDecodeBody ==
    ASSUME IInv, NEW c \in Calls, DecodeBody(c)
    PROVE  IInv'
<1>1. TypeOK'
  BY DEF DecodeBody, Goto, Fail, IInv, TypeOK, netVars, instruments, Stages,
         Wires,
         PlainOrigins
<1>2. /\ pc'[c] = "CloseBody"
      /\ wire'[c] = "eof"
      /\ \/ Decodes(Api[c], reply[c]) /\ failed'[c] = failed[c]
         \/ failed'[c] = "DecodeResponse"
      /\ UNCHANGED <<reply[c], tries[c], applied[c], orphans[c], result[c]>>
      /\ \A d \in Calls \ {c} : UNCHANGED Here(d)
  BY DEF DecodeBody, Decodes, Goto, Fail, IInv, TypeOK, Here, netVars
<1>3. CallInv(c)'
  BY <1>2, CallTypes
     DEF DecodeBody, IInv, CallInv, NothingSentYet, Exchanged, Decoded,
         Executed, SentOnce, BeforeSend, Deferred
<1> QED
  BY <1>1, <1>2, <1>3, OtherCalls

\* ReadFails keeps the invariant.
LEMMA KeepsReadFails ==
    ASSUME IInv, NEW c \in Calls, ReadFails(c)
    PROVE  IInv'
<1>1. TypeOK'
  BY DEF ReadFails, Goto, Fail, IInv, TypeOK, netVars, instruments, Stages,
         Wires,
         PlainOrigins
<1>2. /\ pc'[c] = "CloseBody"
      /\ failed'[c] = "DecodeResponse"
      /\ UNCHANGED <<wire[c], reply[c], tries[c], applied[c], orphans[c],
                     result[c]>>
      /\ \A d \in Calls \ {c} : UNCHANGED Here(d)
  BY DEF ReadFails, Goto, Fail, IInv, TypeOK, Here, netVars
<1>3. CallInv(c)'
  BY <1>2, CallTypes
     DEF ReadFails, IInv, CallInv, NothingSentYet, Exchanged, Decoded,
         Executed, SentOnce, BeforeSend, Deferred
<1> QED
  BY <1>1, <1>2, <1>3, OtherCalls

\* CloseBody keeps the invariant.
LEMMA KeepsCloseBody ==
    ASSUME IInv, NEW c \in Calls, CloseBody(c)
    PROVE  IInv'
<1>1. TypeOK'
  BY DEF CloseBody, Goto, IInv, TypeOK, netVars, instruments, Stages, Wires,
         PlainOrigins
<1>2. /\ pc'[c] = "RecordError"
      /\ wire'[c] = "none"
      /\ UNCHANGED <<reply[c], tries[c], applied[c], orphans[c], failed[c],
                     result[c]>>
      /\ \A d \in Calls \ {c} : UNCHANGED Here(d)
  BY DEF CloseBody, Goto, IInv, TypeOK, Here, netVars
<1>3. CallInv(c)'
  BY <1>2, CallTypes
     DEF CloseBody, IInv, CallInv, NothingSentYet, Exchanged, Decoded,
         Executed, SentOnce, BeforeSend, Deferred
<1> QED
  BY <1>1, <1>2, <1>3, OtherCalls

\* RecordError keeps the invariant.
LEMMA KeepsRecordError ==
    ASSUME IInv, NEW c \in Calls, RecordError(c)
    PROVE  IInv'
<1>1. TypeOK'
  BY DEF RecordError, Goto, IInv, TypeOK, netVars, instruments, Stages, Wires,
         PlainOrigins
<1>2. /\ pc'[c] = "RecordDuration"
      /\ UNCHANGED <<wire[c], reply[c], tries[c], applied[c], orphans[c],
                     failed[c], result[c]>>
      /\ \A d \in Calls \ {c} : UNCHANGED Here(d)
  BY DEF RecordError, Goto, IInv, TypeOK, Here, netVars
<1>3. CallInv(c)'
  BY <1>2, CallTypes
     DEF RecordError, IInv, CallInv, NothingSentYet, Exchanged, Decoded,
         Executed, SentOnce, BeforeSend, Deferred
<1> QED
  BY <1>1, <1>2, <1>3, OtherCalls

\* RecordDuration keeps the invariant.
LEMMA KeepsRecordDuration ==
    ASSUME IInv, NEW c \in Calls, RecordDuration(c)
    PROVE  IInv'
<1>1. TypeOK'
  BY DEF RecordDuration, Goto, IInv, TypeOK, netVars, instruments, Stages,
         Wires,
         PlainOrigins
<1>2. /\ pc'[c] = "Switch"
      /\ UNCHANGED <<wire[c], reply[c], tries[c], applied[c], orphans[c],
                     failed[c], result[c]>>
      /\ \A d \in Calls \ {c} : UNCHANGED Here(d)
  BY DEF RecordDuration, Goto, IInv, TypeOK, Here, netVars
<1>3. CallInv(c)'
  BY <1>2, CallTypes
     DEF RecordDuration, IInv, CallInv, NothingSentYet, Exchanged, Decoded,
         Executed, SentOnce, BeforeSend, Deferred
<1> QED
  BY <1>1, <1>2, <1>3, OtherCalls

\* Answer keeps the invariant: the result is that of the type switch over the
\* reply, or names the stage that failed.
LEMMA KeepsAnswer ==
    ASSUME IInv, NEW c \in Calls, Answer(c)
    PROVE  IInv'
<1> DEFINE r == IF failed[c] # "nil" THEN Plain(failed[c])
                                     ELSE Switch(Api[c], reply[c])
<1>1. /\ r \in Results /\ r # Pending
      /\ r.kind \in {"ok", "api"} => failed[c] = "nil"
  BY PlainType, SwitchType, CallTypes
<1>2. /\ pc' = [pc EXCEPT ![c] = "done"]
      /\ result' = [result EXCEPT ![c] = r]
      /\ UNCHANGED <<expired, netVars, failed, instruments>>
  BY DEF Answer, Goto
<1> HIDE DEF r
<1>3. TypeOK'
  BY <1>1, <1>2 DEF IInv, TypeOK, netVars, instruments, Stages
<1>4. /\ pc'[c] = "done" /\ result'[c] = r
      /\ UNCHANGED <<wire[c], reply[c], tries[c], applied[c]>>
      /\ UNCHANGED <<orphans[c], failed[c]>>
      /\ \A d \in Calls \ {c} : UNCHANGED Here(d)
  BY <1>2 DEF IInv, TypeOK, Here, netVars
<1>5. pc[c] = "Switch"
  BY DEF Answer
<1>6. r.kind \in {"ok", "api"} => reply[c] # NoReply
                                  /\ r = Switch(Api[c], reply[c])
  BY <1>1, <1>5, CallTypes DEF CallInv, Decoded, Deferred, r
<1>7. CallInv(c)'
  BY <1>1, <1>4, <1>5, <1>6, CallTypes
     DEF CallInv, NothingSentYet, Exchanged, Decoded, Executed, SentOnce,
         BeforeSend, Deferred
<1> QED
  BY <1>3, <1>4, <1>7, OtherCalls

\* Expire keeps the invariant.
LEMMA KeepsExpire ==
    ASSUME IInv, NEW c \in Calls, Expire(c)
    PROVE  IInv'
<1>1. TypeOK'
  BY DEF Expire, IInv, TypeOK, netVars, instruments, Stages, Wires,
         PlainOrigins
<1>2. /\ UNCHANGED <<pc[c], wire[c], reply[c], tries[c], applied[c],
                     orphans[c], failed[c], result[c]>>
      /\ \A d \in Calls \ {c} : UNCHANGED Here(d)
  BY DEF Expire, IInv, TypeOK, Here, netVars
<1>3. CallInv(c)'
  BY <1>2, CallTypes
     DEF Expire, IInv, CallInv, NothingSentYet, Exchanged, Decoded, Executed,
         SentOnce, BeforeSend, Deferred
<1> QED
  BY <1>1, <1>2, <1>3, OtherCalls

\* FinishBody keeps the invariant.
LEMMA KeepsFinishBody ==
    ASSUME IInv, NEW c \in Calls, FinishBody(c)
    PROVE  IInv'
<1>1. TypeOK'
  BY DEF FinishBody, IInv, TypeOK, netVars, instruments, Stages, Wires,
         PlainOrigins
<1>2. /\ wire'[c] = "body"
      /\ UNCHANGED <<pc[c], reply[c], tries[c], applied[c], orphans[c],
                     failed[c], result[c]>>
      /\ \A d \in Calls \ {c} : UNCHANGED Here(d)
  BY DEF FinishBody, IInv, TypeOK, Here, netVars
<1>3. CallInv(c)'
  BY <1>2, CallTypes
     DEF FinishBody, IInv, CallInv, NothingSentYet, Exchanged, Decoded,
         Executed, SentOnce, BeforeSend, Deferred
<1> QED
  BY <1>1, <1>2, <1>3, OtherCalls

\* Reset keeps the invariant.
LEMMA KeepsReset ==
    ASSUME IInv, NEW c \in Calls, Reset(c)
    PROVE  IInv'
<1>1. TypeOK'
  BY DEF Reset, IInv, TypeOK, netVars, instruments, Stages, Wires,
         PlainOrigins
<1>2. /\ wire'[c] = "reset"
      /\ \/ orphans'[c] = orphans[c]
         \/ /\ wire[c] = "sent" /\ orphans'[c] = orphans[c] + 1
      /\ UNCHANGED <<pc[c], reply[c], tries[c], applied[c], failed[c],
                     result[c]>>
      /\ \A d \in Calls \ {c} : UNCHANGED Here(d)
  BY DEF Reset, IInv, TypeOK, Here, netVars
<1>3. CallInv(c)'
  BY <1>2, CallTypes
     DEF Reset, IInv, CallInv, NothingSentYet, Exchanged, Decoded, Executed,
         SentOnce, BeforeSend, Deferred
<1> QED
  BY <1>1, <1>2, <1>3, OtherCalls

\* ExecuteLate keeps the invariant: what the server executes late it was going
\* to execute, so the sum that SentOnce bounds stays the same.
LEMMA KeepsExecuteLate ==
    ASSUME IInv, NEW c \in Calls, ExecuteLate(c)
    PROVE  IInv'
<1>1. /\ orphans[c] \in Nat /\ orphans[c] > 0 /\ applied[c] \in Nat
      /\ applied' = [applied EXCEPT ![c] = @ + 1]
      /\ orphans' = [orphans EXCEPT ![c] = @ - 1]
  BY CallTypes DEF ExecuteLate
<1>2. orphans[c] - 1 \in Nat /\ applied[c] + 1 \in Nat
  BY <1>1
<1>3. TypeOK'
  BY <1>1, <1>2 DEF ExecuteLate, IInv, TypeOK, instruments
<1>4. /\ orphans'[c] = orphans[c] - 1 /\ applied'[c] = applied[c] + 1
      /\ UNCHANGED <<pc[c], wire[c], reply[c], tries[c]>>
      /\ UNCHANGED <<failed[c], result[c]>>
      /\ \A d \in Calls \ {c} : UNCHANGED Here(d)
  BY DEF ExecuteLate, IInv, TypeOK, Here
<1>5. /\ NothingSentYet(c)' /\ Exchanged(c)' /\ Decoded(c)'
  BY <1>1, <1>4, CallTypes DEF CallInv, NothingSentYet, Exchanged, Decoded
<1>6. applied'[c] > 0 /\ applied'[c] + orphans'[c] = applied[c] + orphans[c]
  BY <1>1, <1>2, <1>4
<1>7. Executed(c)'
  BY <1>4, <1>6 DEF Executed
<1>8. ASSUME c \notin ReadOnly
      PROVE  /\ reply[c] = NoReply /\ wire[c] # "sent" /\ tries[c] <= 1
             /\ applied[c] + orphans[c] <= 1
  BY <1>1, <1>8, CallTypes DEF CallInv, SentOnce
<1>9. SentOnce(c)'
  BY <1>4, <1>6, <1>8 DEF SentOnce, NoReply, ReadOnly
<1> QED
  BY <1>3, <1>4, <1>5, <1>7, <1>9, OtherCalls DEF CallInv

\* Serve keeps the invariant: a request on the wire had no effect before.
LEMMA KeepsServe ==
    ASSUME IInv, NEW c \in Calls, Serve(c)
    PROVE  IInv'
<1>1. PICK r \in Replies, executes \in BOOLEAN :
        /\ r.status < 400 => executes
        /\ r.status \in 400 .. 499 => ~executes
        /\ reply' = [reply EXCEPT ![c] = r]
        /\ applied' = [applied EXCEPT ![c] = IF executes THEN @ + 1 ELSE @]
  BY DEF Serve
<1>2. /\ wire[c] = "sent" /\ wire' = [wire EXCEPT ![c] = "head"]
      /\ UNCHANGED <<pc, expired, tries, orphans, failed, result,
                     instruments>>
  BY DEF Serve
<1>3. /\ r # NoReply /\ r.status \in Nat
      /\ applied[c] \in Nat /\ applied[c] + 1 \in Nat
  BY NoReplyType, RepliesAssumption, CallTypes DEF Reply
<1>4. TypeOK'
  BY <1>1, <1>2, <1>3 DEF IInv, TypeOK, Wires, instruments
<1>5. /\ wire'[c] = "head" /\ reply'[c] = r
      /\ applied'[c] = IF executes THEN applied[c] + 1 ELSE applied[c]
      /\ UNCHANGED <<pc[c], tries[c], orphans[c], failed[c], result[c]>>
      /\ \A d \in Calls \ {c} : UNCHANGED Here(d)
  BY <1>1, <1>2 DEF IInv, TypeOK, Here
<1>6. /\ pc[c] = "SendRequest" /\ reply[c] = NoReply /\ tries[c] # 0
      /\ c \notin ReadOnly => applied[c] = 0 /\ orphans[c] = 0
      /\ result[c] = Pending
  BY <1>2, CallTypes DEF CallInv, NothingSentYet, Exchanged, SentOnce, Decoded
<1>7. /\ NothingSentYet(c)' /\ Exchanged(c)' /\ Decoded(c)'
  BY <1>3, <1>5, <1>6, CallTypes
     DEF CallInv, NothingSentYet, Exchanged, Decoded, BeforeSend, Deferred,
         Pending
<1>8. Executed(c)'
  BY <1>1, <1>3, <1>5 DEF Executed
<1>9. SentOnce(c)'
  BY <1>1, <1>3, <1>5, <1>6, CallTypes DEF CallInv, SentOnce, ReadOnly
<1> QED
  BY <1>4, <1>5, <1>7, <1>8, <1>9, OtherCalls DEF CallInv

\* So does a step that changes nothing.
LEMMA KeepsOtherwise ==
    ASSUME IInv, UNCHANGED vars
    PROVE  IInv'
<1>1. UNCHANGED <<pc, wire, reply, tries, applied, orphans, failed, result>>
  BY DEF vars
<1> QED
  BY <1>1 DEF vars, IInv, TypeOK, CallInv, NothingSentYet, Exchanged, Decoded,
              Executed, SentOnce

\* Every step of the system keeps the invariant.
THEOREM NextInv == IInv /\ [Next]_vars => IInv'
<1> SUFFICES ASSUME IInv, [Next]_vars PROVE IInv'
  OBVIOUS
<1>1. ASSUME NEW c \in Calls, Begin(c) PROVE IInv'
  BY <1>1, KeepsBegin
<1>2. ASSUME NEW c \in Calls, Progress(c) PROVE IInv'
  <2>1. CASE GiveUp(c)
    BY <2>1, KeepsDropRequest DEF GiveUp
  <2>2. CASE ~GiveUp(c)
    BY <1>2, <2>2, KeepsStartRequest, KeepsRejectArguments,
       KeepsEncodeRequest, KeepsEncodeFails, KeepsConnect, KeepsReceive,
       KeepsDecodeHead, KeepsDecodeBody, KeepsReadFails, KeepsCloseBody,
       KeepsRecordError, KeepsRecordDuration, KeepsAnswer
       DEF Progress
  <2> QED
    BY <2>1, <2>2
<1>3. ASSUME NEW c \in Calls, Environment(c) PROVE IInv'
  <2>1. CASE DialFails(c)
    BY <2>1, KeepsDropRequest DEF DialFails
  <2>2. CASE ~DialFails(c)
    BY <1>3, <2>2, KeepsExpire, KeepsServe, KeepsFinishBody, KeepsReset,
       KeepsReplay, KeepsExecuteLate
       DEF Environment
  <2> QED
    BY <2>1, <2>2
<1>4. ASSUME UNCHANGED vars PROVE IInv'
  BY <1>4, KeepsOtherwise
<1> QED
  BY <1>1, <1>2, <1>3, <1>4 DEF Next, Terminated

\* The invariant holds at all times.
THEOREM Invariance == Spec => []IInv
<1> QED
  BY InitInv, NextInv, PTL DEF Spec

-----------------------------------------------------------------------------
(* The safety properties.                                                  *)

\* Every variable has its type, for any calls, replies and limits.
THEOREM TypeCorrectness == Spec => []TypeOK
<1>1. IInv => TypeOK
  BY DEF IInv
<1> QED
  BY <1>1, Invariance, PTL

\* Whatever fails between Do and the deferred close, every connection goes
\* back to the pool.
THEOREM ConnectionsReturn == Spec => []NoConnectionLeak
<1>1. ASSUME IInv PROVE NoConnectionLeak
  BY <1>1, CallTypes DEF NoConnectionLeak, CallInv, Exchanged, Wires
<1> QED
  BY <1>1, Invariance, PTL

\* A request that is not a GET is executed at most once, however often
\* net/http may replay a GET.
THEOREM NoDoubleExecution == Spec => []AtMostOnce
<1>1. ASSUME IInv PROVE AtMostOnce
  BY <1>1, CallTypes DEF AtMostOnce, CallInv, SentOnce
<1> QED
  BY <1>1, Invariance, PTL

\* Only a 200 becomes a value.
LEMMA SwitchValue ==
    ASSUME NEW op \in Operations, NEW r \in Reply, Switch(op, r).kind = "ok"
    PROVE  r.status = 200
<1>1. /\ Empty(r.status).kind = "api" /\ UnexpectedResponse.kind = "api"
      /\ FromProblemDetails(r.body, r.status).kind = "api"
  BY DEF Empty, APIError, UnexpectedResponse, FromProblemDetails
<1> QED
  BY <1>1 DEF Switch

\* A caller that has a value knows that the server executed the request.
THEOREM ValuesAreEarned == Spec => []ValueMeansExecuted
<1>1. ASSUME IInv PROVE ValueMeansExecuted
  <2> SUFFICES ASSUME NEW c \in Calls, result[c].kind = "ok"
               PROVE  applied[c] > 0 /\ reply[c].status = 200
    BY DEF ValueMeansExecuted
  <2>1. result[c] = Switch(Api[c], reply[c])
    BY <1>1, CallTypes DEF CallInv, Decoded
  <2>2. reply[c].status = 200
    BY <1>1, <2>1, CallTypes, SwitchValue
  <2> QED
    BY <1>1, <2>2, CallTypes DEF CallInv, Executed
<1> QED
  BY <1>1, Invariance, PTL

-----------------------------------------------------------------------------
(* What a step does to what callers and the server can see.                *)

\* Only the server executes requests, and only calls return results.
LEMMA VisibleSteps ==
    ASSUME IInv, [Next]_vars
    PROVE  \/ \E c \in Calls : \/ Begin(c) \/ RejectArguments(c) \/ Answer(c)
                               \/ Serve(c) \/ ExecuteLate(c)
           \/ UNCHANGED <<Phase, applied, result>>
<1> DEFINE Steady(c) ==
        /\ pc[c] \notin {"idle", "done"} /\ pc'[c] \notin {"idle", "done"}
        /\ \A d \in Calls \ {c} : pc'[d] = pc[d]
        /\ UNCHANGED <<applied, result>>
<1>1. ASSUME NEW c \in Calls, Progress(c)
      PROVE  RejectArguments(c) \/ Answer(c) \/ Steady(c)
  BY <1>1 DEF Progress, StartRequest, EncodeRequest, EncodeFails, Connect,
              Receive, GiveUp, DropRequest, DecodeHead, DecodeBody, ReadFails,
              CloseBody, RecordError, RecordDuration, Goto, netVars, IInv,
              TypeOK
<1>2. ASSUME NEW c \in Calls, Environment(c)
      PROVE  \/ Serve(c) \/ ExecuteLate(c) \/ Steady(c)
             \/ UNCHANGED <<pc, applied, result>>
  BY <1>2 DEF Environment, Expire, FinishBody, Reset, DialFails, DropRequest,
              Replay, Goto, netVars, IInv, TypeOK
<1>3. ASSUME UNCHANGED <<pc, applied, result>>
      PROVE  UNCHANGED <<Phase, applied, result>>
  BY <1>3 DEF Phase
<1>4. ASSUME NEW c \in Calls, Steady(c)
      PROVE  UNCHANGED <<Phase, applied, result>>
  BY <1>4 DEF Phase
<1>5. UNCHANGED vars => UNCHANGED <<pc, applied, result>>
  BY DEF vars
<1> HIDE DEF Steady
<1> QED
  BY <1>1, <1>2, <1>3, <1>4, <1>5 DEF Next, Terminated

\* The server executes a request late only if its call has no reply, and the
\* first time only.
LEMMA LateExecution ==
    ASSUME IInv, NEW c \in Calls \ ReadOnly, ExecuteLate(c)
    PROVE  applied[c] = 0 /\ result[c].kind \notin {"ok", "api"}
<1>1. /\ applied[c] \in Nat /\ orphans[c] \in Nat /\ orphans[c] > 0
      /\ applied[c] + orphans[c] <= 1 /\ reply[c] = NoReply
  BY CallTypes DEF ExecuteLate, CallInv, SentOnce
<1>2. applied[c] = 0
  BY <1>1
<1> QED
  BY <1>1, <1>2, CallTypes DEF CallInv, Decoded

\* A request is answered while its call waits for it, and one that is not a
\* GET has had no effect before.
LEMMA FirstExecution ==
    ASSUME IInv, NEW c \in Calls, Serve(c)
    PROVE  /\ pc[c] = "SendRequest" /\ result[c] = Pending
           /\ c \notin ReadOnly => applied[c] = 0
BY CallTypes DEF Serve, CallInv, Exchanged, Decoded, SentOnce

\* An answer is final: after a value or an APIError the server does nothing
\* more with a request that is not a GET.
THEOREM AnswersAreFinal == Spec => AnswerIsFinal
<1> DEFINE Final == \A c \in Calls \ ReadOnly :
                        result[c].kind \in {"ok", "api"}
                            => applied'[c] = applied[c]
<1>1. ASSUME IInv, [Next]_vars PROVE Final
  <2> SUFFICES ASSUME NEW c \in Calls \ ReadOnly,
                      result[c].kind \in {"ok", "api"}
               PROVE  applied'[c] = applied[c]
    OBVIOUS
  <2>1. ~ExecuteLate(c)
    BY <1>1, LateExecution
  <2>2. ~Serve(c)
    BY <1>1, FirstExecution DEF Pending
  <2>3. ASSUME NEW d \in Calls \ {c}, Serve(d) \/ ExecuteLate(d)
        PROVE  applied'[c] = applied[c]
    BY <1>1, <2>3 DEF Serve, ExecuteLate, IInv, TypeOK
  <2>4. ASSUME NEW d \in Calls, Begin(d) \/ RejectArguments(d) \/ Answer(d)
        PROVE  applied'[c] = applied[c]
    BY <2>4 DEF Begin, RejectArguments, Answer, netVars
  <2> QED
    BY <1>1, <2>1, <2>2, <2>3, <2>4, VisibleSteps
<1> QED
  BY <1>1, Invariance, PTL DEF Spec, AnswerIsFinal

-----------------------------------------------------------------------------
(* The instruments.  The three sets they count change by one element.      *)

Failing == {c \in Recorded : failed[c] # "nil"}

\* The sets the instruments count are finite.
LEMMA CountedSets ==
    /\ IsFiniteSet(Started) /\ IsFiniteSet(Failing) /\ IsFiniteSet(Timed)
    /\ Started \subseteq Calls /\ Failing \subseteq Calls
    /\ Timed \subseteq Calls
<1>1. /\ Started \subseteq Calls /\ Failing \subseteq Calls
      /\ Timed \subseteq Calls
  BY DEF Started, Recorded, Timed, Failing
<1> QED
  BY <1>1, CallsAssumption, FS_Subset

\* Initially there is nothing to count.
LEMMA InitInstruments == Init => InstrumentsCount
<1> SUFFICES ASSUME Init PROVE InstrumentsCount
  OBVIOUS
<1>1. Started = {} /\ Failing = {} /\ Timed = {}
  BY DEF Init, Started, Failing, Recorded, Timed
<1> QED
  BY <1>1, FS_EmptySet DEF Init, InstrumentsCount, Failing

\* One step changes the counts of one call, and at most one of them.
LEMMA CountingSteps ==
    ASSUME IInv, [Next]_vars
    PROVE  \/ UNCHANGED <<Started, Failing, Timed, instruments>>
           \/ \E c \in Calls :
                /\ c \notin Started /\ Started' = Started \cup {c}
                /\ requests' = requests + 1
                /\ UNCHANGED <<Failing, Timed, errors, durations>>
           \/ \E c \in Calls :
                /\ c \notin Failing /\ Failing' = Failing \cup {c}
                /\ errors' = errors + 1
                /\ UNCHANGED <<Started, Timed, requests, durations>>
           \/ \E c \in Calls :
                /\ c \notin Timed /\ Timed' = Timed \cup {c}
                /\ durations' = durations + 1
                /\ UNCHANGED <<Started, Failing, requests, errors>>
<1> DEFINE Still(c) == UNCHANGED <<pc[c], failed[c], result[c]>>
           Fixed == UNCHANGED <<Started, Failing, Timed, instruments>>
           Same(c) == /\ c \in Started <=> c \in Started'
                      /\ c \in Failing <=> c \in Failing'
                      /\ c \in Timed <=> c \in Timed'
<1>1. ASSUME NEW c \in Calls, Still(c) PROVE Same(c)
  BY <1>1 DEF Started, Failing, Timed, Recorded
<1>2. ASSUME \A c \in Calls : Same(c), UNCHANGED instruments PROVE Fixed
  BY <1>2 DEF Started, Failing, Timed, Recorded
<1>3. ASSUME NEW c \in Calls,
             \/ Begin(c) \/ EncodeRequest(c) \/ EncodeFails(c) \/ Receive(c)
             \/ GiveUp(c) \/ DialFails(c) \/ DecodeHead(c) \/ DecodeBody(c)
             \/ ReadFails(c) \/ CloseBody(c)
      PROVE  Fixed
  <2>1. /\ \A d \in Calls \ {c} : Still(d)
        /\ pc[c] \in {"idle", "EncodeRequest", "SendRequest",
                      "DecodeResponse", "CloseBody"}
        /\ pc[c] = "idle" => pc'[c] = "Arguments"
        /\ pc[c] # "idle" => pc'[c] \in {"SendRequest", "DecodeResponse",
                                         "CloseBody", "RecordError"}
        /\ UNCHANGED <<result, instruments>>
    BY <1>3 DEF Begin, EncodeRequest, EncodeFails, Receive, GiveUp, DialFails,
                DropRequest, DecodeHead, DecodeBody, ReadFails, CloseBody,
                Goto, Fail, IInv, TypeOK
  <2>2. Same(c)
    BY <2>1 DEF Started, Failing, Timed, Recorded
  <2> QED
    BY <1>1, <1>2, <2>1, <2>2
<1>4. ASSUME NEW c \in Calls,
             \/ Connect(c) \/ Replay(c) \/ Expire(c) \/ Serve(c)
             \/ FinishBody(c) \/ Reset(c) \/ ExecuteLate(c)
      PROVE  Fixed
  <2>1. UNCHANGED <<pc, failed, result, instruments>>
    BY <1>4 DEF Connect, Replay, Expire, Serve, FinishBody, Reset, ExecuteLate
  <2> QED
    BY <1>1, <1>2, <2>1
<1>5. ASSUME NEW c \in Calls, RejectArguments(c) \/ Answer(c) PROVE Fixed
  <2>1. CASE RejectArguments(c)
    <3>1. /\ \A d \in Calls \ {c} : Still(d)
          /\ pc[c] = "Arguments" /\ result'[c] = Plain("Arguments")
          /\ UNCHANGED instruments
      BY <2>1 DEF RejectArguments, Goto, IInv, TypeOK
    <3>2. Same(c)
      BY <3>1 DEF Started, Failing, Timed, Recorded
    <3> QED
      BY <1>1, <1>2, <3>1, <3>2
  <2>2. CASE Answer(c)
    <3>1. /\ \A d \in Calls \ {c} : Still(d)
          /\ pc[c] = "Switch" /\ pc'[c] = "done" /\ failed'[c] = failed[c]
          /\ result'[c] = IF failed[c] # "nil" THEN Plain(failed[c])
                                               ELSE Switch(Api[c], reply[c])
          /\ UNCHANGED instruments
      BY <2>2 DEF Answer, Goto, IInv, TypeOK
    <3>2. failed[c] # "nil" => Plain(failed[c]) # Plain("Arguments")
      BY CallTypes DEF CallInv, Decoded, Plain
    <3>3. result'[c] # Plain("Arguments") /\ result[c] # Plain("Arguments")
      BY <3>1, <3>2, SwitchType, CallTypes DEF CallInv, Decoded, Plain, Pending
    <3>4. Same(c)
      BY <3>1, <3>3 DEF Started, Failing, Timed, Recorded
    <3> QED
      BY <1>1, <1>2, <3>1, <3>4
  <2> QED
    BY <1>5, <2>1, <2>2
<1>6. ASSUME NEW c \in Calls, pc[c] # "done"
      PROVE result[c] # Plain("Arguments")
  BY <1>6, CallTypes DEF CallInv, Decoded, Plain, Pending
<1>7. ASSUME NEW c \in Calls, StartRequest(c)
      PROVE  /\ c \notin Started /\ Started' = Started \cup {c}
             /\ requests' = requests + 1
             /\ UNCHANGED <<Failing, Timed, errors, durations>>
  <2>1. /\ \A d \in Calls \ {c} : Still(d)
        /\ pc[c] = "Arguments" /\ pc'[c] = "EncodeRequest"
        /\ requests' = requests + 1
        /\ UNCHANGED <<result, errors, durations>>
    BY <1>7 DEF StartRequest, Goto, IInv, TypeOK
  <2>2. \A d \in Calls \ {c} : Same(d)
    BY <1>1, <2>1
  <2> QED
    BY <1>6, <2>1, <2>2 DEF Started, Failing, Timed, Recorded
<1>8. ASSUME NEW c \in Calls, RecordError(c)
      PROVE  \/ Fixed
             \/ /\ c \notin Failing /\ Failing' = Failing \cup {c}
                /\ errors' = errors + 1
                /\ UNCHANGED <<Started, Timed, requests, durations>>
  <2>1. /\ \A d \in Calls \ {c} : Still(d)
        /\ pc[c] = "RecordError" /\ pc'[c] = "RecordDuration"
        /\ errors' = IF failed[c] # "nil" THEN errors + 1 ELSE errors
        /\ UNCHANGED <<failed, result, requests, durations>>
    BY <1>8 DEF RecordError, Goto, IInv, TypeOK
  <2>2. \A d \in Calls \ {c} : Same(d)
    BY <1>1, <2>1
  <2>3. CASE failed[c] = "nil"
    <3>1. Same(c)
      BY <2>1, <2>3 DEF Started, Failing, Timed, Recorded
    <3> QED
      BY <1>2, <2>1, <2>2, <2>3, <3>1 DEF instruments
  <2>4. CASE failed[c] # "nil"
    BY <1>6, <2>1, <2>2, <2>4 DEF Started, Failing, Timed, Recorded
  <2> QED
    BY <2>3, <2>4
<1>9. ASSUME NEW c \in Calls, RecordDuration(c)
      PROVE  /\ c \notin Timed /\ Timed' = Timed \cup {c}
             /\ durations' = durations + 1
             /\ UNCHANGED <<Started, Failing, requests, errors>>
  <2>1. /\ \A d \in Calls \ {c} : Still(d)
        /\ pc[c] = "RecordDuration" /\ pc'[c] = "Switch"
        /\ durations' = durations + 1
        /\ UNCHANGED <<failed, result, requests, errors>>
    BY <1>9 DEF RecordDuration, Goto, IInv, TypeOK
  <2>2. \A d \in Calls \ {c} : Same(d)
    BY <1>1, <2>1
  <2> QED
    BY <1>6, <2>1, <2>2 DEF Started, Failing, Timed, Recorded
<1>10. UNCHANGED vars => Fixed
  BY DEF vars, Started, Failing, Timed, Recorded, instruments
<1> HIDE DEF Fixed, Still, Same
<1>11. \/ \E c \in Calls : Begin(c) \/ Progress(c) \/ Environment(c)
       \/ UNCHANGED vars
  BY DEF Next, Terminated
<1>12. ASSUME NEW c \in Calls, Begin(c) \/ Progress(c) \/ Environment(c)
       PROVE  Fixed \/ StartRequest(c) \/ RecordError(c) \/ RecordDuration(c)
  BY <1>3, <1>4, <1>5, <1>12 DEF Progress, Environment
<1> QED
  BY <1>7, <1>8, <1>9, <1>10, <1>11, <1>12 DEF Fixed

\* Between any two steps the instruments agree with the calls.
THEOREM InstrumentsAgree == Spec => []InstrumentsCount
<1>1. ASSUME IInv, InstrumentsCount, [Next]_vars PROVE InstrumentsCount'
  <2>1. /\ requests = Cardinality(Started) /\ errors = Cardinality(Failing)
        /\ durations = Cardinality(Timed)
    BY <1>1 DEF InstrumentsCount, Failing
  <2> DEFINE Agree == /\ requests' = Cardinality(Started')
                      /\ errors' = Cardinality(Failing')
                      /\ durations' = Cardinality(Timed')
  <2>2. Agree
    <3>1. CASE UNCHANGED <<Started, Failing, Timed, instruments>>
      BY <2>1, <3>1 DEF instruments
    <3>2. ASSUME NEW c \in Calls, c \notin Started, Started' = Started \cup {c},
                 requests' = requests + 1,
                 UNCHANGED <<Failing, Timed, errors, durations>>
          PROVE  Agree
      BY <2>1, <3>2, CountedSets, FS_AddElement
    <3>3. ASSUME NEW c \in Calls, c \notin Failing, Failing' = Failing \cup {c},
                 errors' = errors + 1,
                 UNCHANGED <<Started, Timed, requests, durations>>
          PROVE  Agree
      BY <2>1, <3>3, CountedSets, FS_AddElement
    <3>4. ASSUME NEW c \in Calls, c \notin Timed, Timed' = Timed \cup {c},
                 durations' = durations + 1,
                 UNCHANGED <<Started, Failing, requests, errors>>
          PROVE  Agree
      BY <2>1, <3>4, CountedSets, FS_AddElement
    <3> QED
      BY <1>1, <3>1, <3>2, <3>3, <3>4, CountingSteps
  <2> QED
    BY <2>2 DEF InstrumentsCount, Failing
<1> QED
  BY <1>1, InitInstruments, Invariance, PTL DEF Spec

-----------------------------------------------------------------------------
(* ApiCall implements CallContract.                                        *)

\* With bodies that do not contradict their status lines, an APIError that
\* says the request was refused comes from a reply that says so.
LEMMA SwitchRefusal ==
    ASSUME NEW op \in Operations, NEW r \in Reply,
           r.body.status \in {0, r.status},
           Switch(op, r).kind = "api", Switch(op, r).status \in 400 .. 499
    PROVE  r.status \in 400 .. 499
<1>1. /\ Value.kind = "ok" /\ Plain("Conversion").kind = "plain"
      /\ UnexpectedResponse.status = 0 /\ Empty(r.status).status = r.status
  BY DEF Value, Plain, UnexpectedResponse, Empty, APIError
<1>2. FromProblemDetails(r.body, r.status).status = r.status
  BY DEF FromProblemDetails, APIError
<1> QED
  BY <1>1, <1>2 DEF Switch

\* No call has a value or a refusal that the server's deeds do not bear out.
LEMMA AnswerAllowed ==
    ASSUME IInv, NEW c \in Calls, Answer(c) \/ RejectArguments(c)
    PROVE  /\ result'[c] \in Results
           /\ result'[c].kind = "ok" => applied[c] > 0
           /\ c \notin ReadOnly /\ Contract!Refused(result'[c])
                  => applied[c] = 0
<1>1. CASE RejectArguments(c)
  <2>1. "Arguments" \in PlainOrigins
    BY DEF PlainOrigins
  <2>2. result'[c] = Plain("Arguments")
    BY <1>1 DEF RejectArguments, IInv, TypeOK
  <2> QED
    BY <2>1, <2>2, PlainType DEF Contract!Refused
<1>2. CASE Answer(c)
  <2>1. result'[c] = IF failed[c] # "nil" THEN Plain(failed[c])
                                          ELSE Switch(Api[c], reply[c])
    BY <1>2 DEF Answer, IInv, TypeOK
  <2>2. CASE failed[c] # "nil"
    BY <2>1, <2>2, PlainType, CallTypes DEF Contract!Refused
  <2>3. CASE failed[c] = "nil"
    <3> DEFINE r == Switch(Api[c], reply[c])
    <3>1. reply[c] \in Replies
      BY <1>2, <2>3, CallTypes DEF Answer, CallInv, Decoded, Deferred
    <3>2. result'[c] = r /\ r \in Results
      BY <2>1, <2>3, <3>1, SwitchType, CallTypes, PlainType
         DEF Plain, Pending, PlainOrigins
    <3>3. r.kind = "ok" => applied[c] > 0
      BY SwitchValue, CallTypes DEF CallInv, Executed
    <3>4. Contract!Refused(r) => reply[c].status \in 400 .. 499
      BY <3>1, SwitchRefusal, ConsistentReplies, CallTypes
         DEF Contract!Refused
    <3>5. c \notin ReadOnly /\ Contract!Refused(r) => applied[c] = 0
      BY <3>4, CallTypes DEF CallInv, SentOnce
    <3> QED
      BY <3>2, <3>3, <3>5
  <2> QED
    BY <2>2, <2>3
<1> QED
  BY <1>1, <1>2

\* The contract speaks of the same results.
LEMMA SameResults ==
    Contract!Results = Results /\ Contract!Pending = Pending
<1>1. Contract!Pending = Pending
  BY DEF Contract!Pending, Pending
<1>2. Contract!Value = Value
  BY DEF Contract!Value, Value
<1>3. /\ Contract!PlainOrigins = PlainOrigins /\ Contract!ApiTexts = ApiTexts
      /\ \A o : Contract!Plain(o) = Plain(o)
  BY DEF Contract!PlainOrigins, PlainOrigins, Contract!ApiTexts, ApiTexts,
         Contract!Plain, Plain
<1> QED
  BY <1>1, <1>2, <1>3 DEF Contract!Results, Results

\* Begin opens a call of the contract.
LEMMA BeginOpens ==
    ASSUME IInv, NEW c \in Calls, Begin(c)
    PROVE  Contract!Open(c)
<1>1. /\ pc[c] = "idle" /\ pc' = [pc EXCEPT ![c] = "Arguments"]
      /\ UNCHANGED <<applied, result>>
  BY DEF Begin, Goto, netVars
<1>2. Phase[c] = "new" /\ Phase' = [Phase EXCEPT ![c] = "open"]
  BY <1>1 DEF Phase, IInv, TypeOK
<1> QED
  BY <1>1, <1>2 DEF Contract!Open

\* Answer and RejectArguments return one of the answers the contract allows.
LEMMA AnswerReturns ==
    ASSUME IInv, NEW c \in Calls, Answer(c) \/ RejectArguments(c)
    PROVE  Contract!Return(c)
<1>1. /\ pc[c] \in {"Switch", "Arguments"}
      /\ pc' = [pc EXCEPT ![c] = "done"]
      /\ result' = [result EXCEPT ![c] = result'[c]]
      /\ UNCHANGED applied
  BY DEF Answer, RejectArguments, Goto, netVars, IInv, TypeOK
<1>2. Phase[c] = "open" /\ Phase' = [Phase EXCEPT ![c] = "answered"]
  BY <1>1 DEF Phase, IInv, TypeOK
<1> QED
  BY <1>1, <1>2, AnswerAllowed, SameResults DEF Contract!Return

\* Serve executes a request of an open call, or changes nothing the contract
\* sees.
LEMMA ServeExecutes ==
    ASSUME IInv, NEW c \in Calls, Serve(c)
    PROVE  Contract!Execute(c) \/ UNCHANGED <<Phase, applied, result>>
<1>1. UNCHANGED <<pc, result>> /\ Phase[c] = "open"
  BY FirstExecution DEF Serve, Phase
<1>2. \/ applied' = [applied EXCEPT ![c] = @ + 1]
      \/ applied' = [applied EXCEPT ![c] = @]
  BY DEF Serve
<1>3. UNCHANGED Phase
  BY <1>1 DEF Phase
<1>4. [applied EXCEPT ![c] = @] = applied
  BY DEF IInv, TypeOK
<1> QED
  BY <1>1, <1>2, <1>3, <1>4, FirstExecution DEF Contract!Execute

\* ExecuteLate executes the request of a call of the contract.
LEMMA ExecuteLateExecutes ==
    ASSUME IInv, NEW c \in Calls, ExecuteLate(c)
    PROVE  Contract!Execute(c)
<1>1. /\ UNCHANGED <<pc, result>>
      /\ applied' = [applied EXCEPT ![c] = @ + 1]
  BY DEF ExecuteLate
<1>2. UNCHANGED Phase
  BY <1>1 DEF Phase
<1>3. pc[c] # "idle"
  BY CallTypes DEF ExecuteLate, CallInv, NothingSentYet, BeforeSend
<1>4. Phase[c] \in {"open", "answered"}
      /\ (Phase[c] = "answered" => pc[c] = "done")
  BY <1>3 DEF Phase
<1>5. c \notin ReadOnly => applied[c] = 0 /\ result[c].kind \notin {"ok", "api"}
  BY LateExecution
<1>6. pc[c] = "done" => result[c].kind \in {"ok", "plain", "api"}
  BY CallTypes DEF CallInv, Decoded, Results
<1> QED
  BY <1>1, <1>2, <1>4, <1>5, <1>6 DEF Contract!Execute

\* Every behaviour of the calls is one that CallContract allows: what a caller
\* may conclude from a value, from a refusal and from a plain error holds for
\* the code.
THEOREM Implementation == Spec => ContractSpec
<1>1. Init => Contract!CInit
  <2> SUFFICES ASSUME Init PROVE Contract!CInit
    OBVIOUS
  <2>1. Phase = [c \in Calls |-> "new"]
    BY DEF Init, Phase
  <2> QED
    BY <2>1, SameResults DEF Init, Contract!CInit
<1>2. ASSUME IInv, [Next]_vars PROVE [Contract!CNext]_(Contract!cvars)
  <2>1. CASE UNCHANGED <<Phase, applied, result>>
    BY <2>1 DEF Contract!cvars
  <2>2. ASSUME NEW c \in Calls,
               \/ Begin(c) \/ RejectArguments(c) \/ Answer(c)
               \/ Serve(c) \/ ExecuteLate(c)
        PROVE  \/ Contract!Open(c) \/ Contract!Execute(c)
               \/ Contract!Return(c)
               \/ UNCHANGED <<Phase, applied, result>>
    BY <1>2, <2>2, BeginOpens, AnswerReturns, ServeExecutes,
       ExecuteLateExecutes
  <2> QED
    BY <1>2, <2>1, <2>2, VisibleSteps DEF Contract!CNext, Contract!cvars
<1> QED
  BY <1>1, <1>2, Invariance, PTL DEF Spec, ContractSpec, Contract!CSpec

=============================================================================
