----------------------- MODULE KeymasterCalls_proofs -----------------------
(***************************************************************************)
(* Whatever the chip refuses and whatever is lost, a Keymaster call says   *)
(* OK only for what the chip did (OkMeansDone), keys are exported as the   *)
(* chip sent them (ExportsTheKey), entropy arrives in order                *)
(* (EntropyInOrder), and the chip is told the versions that the system's   *)
(* properties state before calls are served (VersionsTold), for any bytes, *)
(* chunk size, properties, keys, refusals and numbers of calls and faults. *)
(*                                                                         *)
(* OkMeansDone and EntropyInOrder speak of a call that has been answered; *)
(* the inductive invariant adds what is so while it is worked on: nothing  *)
(* has been answered and, of a call of one message, nothing done yet; of   *)
(* addRngEntropy the chip has mixed in as much as the loop variable says.  *)
(***************************************************************************)
EXTENDS KeymasterCalls, FiniteSetTheorems, SequenceTheorems, TLAPS

(* What a call of one message may find and leave. *)
CallInv ==
  /\ answer.method \in {"none", request.method}
  /\ pc = "call" => answer = NoAnswer /\ executed = {}

EntropyInv ==
  /\ request.method = "addRngEntropy" => request.size \in Nat
  /\ offset \in Nat
  /\ pool \in Seq([from : Nat, size : Nat])
  /\ Tiled(pool)
  /\ request.method # "addRngEntropy" => pool = <<>>
  /\ request.method = "addRngEntropy" => Mixed(pool) <= request.size
  /\ pc = "call" /\ request.method = "addRngEntropy" =>
       Mixed(pool) = IF offset < request.size THEN offset ELSE request.size

IInv == CallInv /\ EntropyInv /\ OkMeansDone /\ EntropyInOrder
-----------------------------------------------------------------------------
(* KM_CALL: only an exchange that was answered counts as one. *)
LEMMA KmCallOk ==
  ASSUME NEW outcome \in Outcomes
  PROVE  KmCall(outcome) = "OK" <=> outcome = Answered
<1>1. CASE outcome = Answered
  BY <1>1 DEF KmCall, Answered, TranslateErrorCode, ErrorCodes
<1>2. CASE outcome \in Refused
  BY <1>2, RefusalAssumption DEF KmCall, Refused, Answered, TranslateErrorCode
<1>3. CASE outcome \in Failed
  BY <1>3 DEF KmCall, Failed, Statuses, StatusToErrorCode, Answered
<1> QED
  BY <1>1, <1>2, <1>3 DEF Outcomes

LEMMA DoneIs ==
  ASSUME NEW outcome \in Outcomes
  PROVE  outcome.status = "SUCCESS" /\ outcome.done <=> outcome = Answered
  BY DEF Outcomes, Answered, Refused, Failed, Statuses

(* The value of an answer is the reply, or nothing. *)
LEMMA ResultRight ==
  ASSUME NEW r, r.method \in OneMessageMethods \ {"exportKey"}, NEW reply,
         r.method = "upgradeKey" => Succeeds(reply.params)
  PROVE  /\ Result(r, reply).error = "OK" <=> WellFormed(r.method, reply)
         /\ Result(r, reply).value \in {{}, {reply}}
<1>1. CASE r.method = "getHmacSharingParameters"
  BY <1>1 DEF Result, Gives, WellFormed
<1>2. CASE r.method = "computeSharedHmac"
  BY <1>2 DEF Result, Gives, WellFormed
<1>3. CASE r.method = "upgradeKey"
  BY <1>3 DEF Result, Gives, WellFormed
<1>4. CASE r.method \in {"deleteKey", "deleteAllKeys", "destroyAttestationIds"}
  BY <1>4 DEF Result, Gives, WellFormed
<1> QED
  BY <1>1, <1>2, <1>3, <1>4 DEF OneMessageMethods, Plain

(* The last chunk ends where the bytes do, the others where they are full. *)
LEMMA ChunkEnd ==
  ASSUME NEW size \in Nat, NEW from \in Nat, from < size, NEW most \in Nat
  PROVE  from + (IF size - from < most THEN size - from ELSE most)
           = IF from + most < size THEN from + most ELSE size
  OBVIOUS

(* Another chunk keeps a tiling a tiling. *)
LEMMA TiledAppend ==
  ASSUME NEW chunks \in Seq([from : Nat, size : Nat]), Tiled(chunks),
         NEW c \in [from : Nat, size : Nat],
         c.from = Mixed(chunks), c.size \in 1..ChunkSize
  PROVE  /\ Append(chunks, c) \in Seq([from : Nat, size : Nat])
         /\ Tiled(Append(chunks, c))
         /\ Mixed(Append(chunks, c)) = EndOf(c)
<1> DEFINE more == Append(chunks, c)
<1>1. /\ more \in Seq([from : Nat, size : Nat])
      /\ Len(more) = Len(chunks) + 1
      /\ Len(chunks) \in Nat
      /\ more[Len(chunks) + 1] = c
      /\ \A i \in 1..Len(chunks) : more[i] = chunks[i]
      /\ chunks = <<>> <=> Len(chunks) = 0
  OBVIOUS
<1>2. more # <<>>
  BY <1>1
<1> HIDE DEF more
<1>3. ASSUME NEW i \in 1..Len(more)
      PROVE  /\ more[i].size \in 1..ChunkSize
             /\ more[i].from = IF i = 1 THEN 0 ELSE EndOf(more[i - 1])
  <2>1. CASE i \in 1..Len(chunks)
    <3>1. i # 1 => i - 1 \in 1..Len(chunks)
      BY <2>1, <1>1
    <3> QED
      BY <2>1, <3>1, <1>1 DEF Tiled
  <2>2. CASE i = Len(chunks) + 1 /\ Len(chunks) = 0
    BY <2>2, <1>1 DEF Mixed
  <2>3. CASE i = Len(chunks) + 1 /\ Len(chunks) # 0
    <3>1. i - 1 = Len(chunks) /\ i # 1 /\ more[Len(chunks)] = chunks[Len(chunks)]
      BY <2>3, <1>1
    <3> QED
      BY <2>3, <3>1, <1>1 DEF Mixed
  <2> QED
    BY <2>1, <2>2, <2>3, <1>1
<1>4. Tiled(more)
  BY <1>3 DEF Tiled
<1>5. Mixed(more) = EndOf(c)
  BY <1>1, <1>2 DEF Mixed
<1> QED
  BY <1>1, <1>4, <1>5 DEF more
-----------------------------------------------------------------------------
LEMMA InitIInv == Init => IInv
<1> SUFFICES ASSUME Init PROVE IInv
  OBVIOUS
<1>1. /\ pc = "wait" /\ request = NoRequest /\ offset = 0 /\ answer = NoAnswer
      /\ executed = {} /\ pool = <<>>
  BY DEF Init
<1>2. pool \in Seq([from : Nat, size : Nat]) /\ Len(pool) = 0
  BY <1>1
<1> QED
  BY <1>1, <1>2 DEF IInv, CallInv, EntropyInv, OkMeansDone, EntropyInOrder, NoRequest, NoAnswer,
     Tiled, Mixed, OneMessageMethods, Plain

(* A new call, and a new process, start from nothing. *)
LEMMA FreshIInv ==
  ASSUME answer' = NoAnswer, executed' = {}, pool' = <<>>, offset' = 0,
         request'.method = "addRngEntropy" => request'.size \in Nat
  PROVE  IInv'
<1>1. pool' \in Seq([from : Nat, size : Nat]) /\ Len(pool') = 0
  OBVIOUS
<1>2. Tiled(pool') /\ Mixed(pool') = 0
  BY <1>1 DEF Tiled, Mixed
<1>3. CallInv' /\ OkMeansDone'
  BY DEF CallInv, OkMeansDone, NoAnswer, OneMessageMethods, Plain
<1>4. EntropyInv' /\ EntropyInOrder'
  BY <1>1, <1>2 DEF EntropyInv, EntropyInOrder, NoAnswer
<1> QED
  BY <1>3, <1>4 DEF IInv

(* Steps that answer no call leave everything as it is. *)
LEMMA IdleIInv ==
  ASSUME IInv, UNCHANGED <<request, offset, answer, executed, pool>>,
         pc' = pc \/ pc' # "call"
  PROVE  IInv'
<1>1. CallInv' /\ OkMeansDone'
  BY DEF IInv, CallInv, OkMeansDone
<1>2. EntropyInv' /\ EntropyInOrder'
  BY DEF IInv, EntropyInv, EntropyInOrder, Tiled, Mixed, EndOf
<1> QED
  BY <1>1, <1>2 DEF IInv

(* An answer that is not about what the chip did. *)
LEMMA AloneIInv ==
  ASSUME IInv, NEW r, NEW error, NEW value, AnswersAlone(r, error, value),
         r.method \in OneMessageMethods => error # "OK",
         r.method = "addRngEntropy" => offset >= r.size
  PROVE  IInv'
<1>1. /\ pc = "call" /\ request = r /\ pc' = "idle"
      /\ answer' = [method |-> r.method, error |-> error, value |-> value]
      /\ UNCHANGED <<request, offset, executed, pool>>
  BY DEF AnswersAlone, Answer
<1>2. executed = {}
  BY <1>1 DEF IInv, CallInv
<1>3. CallInv' /\ OkMeansDone'
  BY <1>1, <1>2 DEF CallInv, OkMeansDone
<1>4. EntropyInv'
  BY <1>1 DEF IInv, EntropyInv, Tiled, Mixed, EndOf
<1>5. EntropyInOrder'
  <2>1. r.method = "addRngEntropy" => Mixed(pool) = r.size
    BY <1>1 DEF IInv, EntropyInv
  <2> QED
    BY <1>1, <2>1 DEF IInv, EntropyInOrder, Tiled, Mixed, EndOf
<1> QED
  BY <1>3, <1>4, <1>5 DEF IInv

LEMMA OneMessageIInv ==
  ASSUME IInv, OneMessage
  PROVE  IInv'
<1>1. PICK outcome \in Outcomes, reply \in Replies(request) :
        /\ executed' = IF outcome.done
                       THEN {[reply |-> reply, heard |-> outcome.status = "SUCCESS"]} ELSE {}
        /\ IF KmCall(outcome) = "OK"
           THEN Answer(Result(request, reply).error, Result(request, reply).value)
           ELSE Answer(KmCall(outcome), {})
  BY DEF OneMessage
<1>2. /\ pc = "call" /\ pc' = "idle"
      /\ request.method \in OneMessageMethods
      /\ request.method = "upgradeKey" => Succeeds(HidlParamsToPb(request.params))
      /\ UNCHANGED <<request, offset, pool>>
      /\ answer'.method = request.method
  BY <1>1 DEF OneMessage, Answer, OneMessageMethods
<1>3. request.method # "addRngEntropy"
  BY <1>2 DEF OneMessageMethods, Plain
<1>4. CallInv' /\ EntropyInv' /\ EntropyInOrder'
  BY <1>2, <1>3 DEF IInv, CallInv, EntropyInv, EntropyInOrder, Tiled, Mixed, EndOf
<1>5. OkMeansDone'
  <2> SUFFICES ASSUME request.method # "exportKey"
               PROVE  OkMeansDone'
    BY <1>2 DEF OkMeansDone
  <2>1. request.method = "upgradeKey" => Succeeds(reply.params)
    BY <1>2 DEF Replies
  <2>2. /\ Result(request, reply).error = "OK" <=> WellFormed(request.method, reply)
        /\ Result(request, reply).value \in {{}, {reply}}
    BY <1>2, <2>1, ResultRight
  <2>3. CASE outcome = Answered
    <3>1. KmCall(outcome) = "OK" /\ executed' = {[reply |-> reply, heard |-> TRUE]}
      BY <2>3, <1>1, KmCallOk DEF Answered
    <3>2. answer' = [method |-> request.method, error |-> Result(request, reply).error,
                     value |-> Result(request, reply).value]
      BY <1>1, <3>1 DEF Answer
    <3> HIDE DEF Result, WellFormed
    <3> QED
      BY <1>2, <2>2, <3>1, <3>2 DEF OkMeansDone
  <2>4. CASE outcome # Answered
    <3>1. KmCall(outcome) # "OK" /\ ~ (outcome.status = "SUCCESS" /\ outcome.done)
      BY <2>4, KmCallOk, DoneIs
    <3>2. answer'.error # "OK"
      BY <1>1, <3>1 DEF Answer
    <3>3. \A e \in executed' : ~ e.heard
      <4>1. CASE outcome.done
        <5>1. executed' = {[reply |-> reply, heard |-> FALSE]}
          <6>1. (outcome.status = "SUCCESS") = FALSE
            BY <4>1, <3>1
          <6> QED
            BY <4>1, <6>1, <1>1, Zenon
        <5> QED
          BY <5>1
      <4>2. CASE ~ outcome.done
        BY <4>2, <1>1
      <4> QED
        BY <4>1, <4>2
    <3> QED
      BY <3>2, <3>3 DEF OkMeansDone
  <2> QED
    BY <2>3, <2>4
<1> QED
  BY <1>4, <1>5 DEF IInv

LEMMA ChunkIInv ==
  ASSUME IInv, AddRngEntropyChunk
  PROVE  IInv'
<1>1. PICK outcome \in Outcomes :
        /\ pool' = IF outcome.done THEN Append(pool, Chunk(request.size)) ELSE pool
        /\ IF KmCall(outcome) = "OK"
           THEN /\ offset' = offset + ChunkSize
                /\ UNCHANGED <<pc, answer>>
           ELSE /\ Answer(KmCall(outcome), {})
                /\ UNCHANGED offset
  BY DEF AddRngEntropyChunk
<1>2. /\ pc = "call" /\ request.method = "addRngEntropy" /\ offset < request.size
      /\ UNCHANGED <<request, executed>>
      /\ answer.method \in {"none", request.method}
      /\ request.size \in Nat /\ offset \in Nat /\ ChunkSize \in Nat \ {0}
      /\ pool \in Seq([from : Nat, size : Nat]) /\ Tiled(pool) /\ Mixed(pool) = offset
      /\ answer = NoAnswer /\ executed = {}
  BY ChunkAssumption DEF AddRngEntropyChunk, IInv, EntropyInv, CallInv
<1> DEFINE chunk == Chunk(request.size)
<1>3. /\ chunk \in [from : Nat, size : Nat] /\ chunk.from = offset
      /\ chunk.size \in 1..ChunkSize
      /\ EndOf(chunk) = IF offset + ChunkSize < request.size
                        THEN offset + ChunkSize ELSE request.size
  <2> DEFINE rest == request.size - offset
             part == IF rest < ChunkSize THEN rest ELSE ChunkSize
  <2>1. chunk = [from |-> offset, size |-> part]
    BY DEF Chunk
  <2>2. part \in 1..ChunkSize /\ part \in Nat
    BY <1>2
  <2>3. offset + part = IF offset + ChunkSize < request.size
                        THEN offset + ChunkSize ELSE request.size
    BY <1>2, ChunkEnd
  <2> HIDE DEF part, chunk
  <2>4. chunk.from = offset /\ chunk.size = part
    BY <2>1
  <2>5. chunk \in [from : Nat, size : Nat]
    BY <1>2, <2>1, <2>2
  <2>6. EndOf(chunk) = offset + part
    BY <2>4 DEF EndOf
  <2> QED
    BY <2>2, <2>3, <2>4, <2>5, <2>6
<1>4. /\ Append(pool, chunk) \in Seq([from : Nat, size : Nat])
      /\ Tiled(Append(pool, chunk))
      /\ Mixed(Append(pool, chunk)) = EndOf(chunk)
  <2> HIDE DEF chunk
  <2> QED
    BY <1>2, <1>3, TiledAppend
<1>5. /\ pool' \in Seq([from : Nat, size : Nat]) /\ Tiled(pool')
      /\ Mixed(pool') <= request.size
  <2>1. CASE outcome.done
    BY <2>1, <1>1, <1>2, <1>3, <1>4 DEF chunk
  <2>2. CASE ~ outcome.done
    BY <2>2, <1>1, <1>2
  <2> QED
    BY <2>1, <2>2
<1>6. /\ offset' \in Nat
      /\ answer'.method \in {"none", "addRngEntropy"}
      /\ answer'.method = "addRngEntropy" => answer'.error # "OK"
      /\ pc' = "call" => answer' = NoAnswer /\ KmCall(outcome) = "OK"
      /\ KmCall(outcome) = "OK" => offset' = offset + ChunkSize
  BY <1>1, <1>2 DEF Answer, NoAnswer
<1>7. pc' = "call" => Mixed(pool') = IF offset' < request.size THEN offset' ELSE request.size
  <2> SUFFICES ASSUME pc' = "call"
               PROVE  Mixed(pool') = IF offset' < request.size THEN offset' ELSE request.size
    OBVIOUS
  <2>1. outcome = Answered
    BY <1>6, KmCallOk
  <2>2. pool' = Append(pool, chunk) /\ offset' = offset + ChunkSize
    BY <1>1, <1>6, <2>1 DEF Answered
  <2> HIDE DEF chunk
  <2> QED
    BY <1>3, <1>4, <2>2
<1>8. CallInv' /\ OkMeansDone'
  BY <1>2, <1>6 DEF CallInv, OkMeansDone, OneMessageMethods, Plain
<1>9. EntropyInv' /\ EntropyInOrder'
  <2>1. Mixed(pool)' = Mixed(pool') /\ Tiled(pool)' = Tiled(pool')
    BY DEF Mixed, Tiled, EndOf
  <2> HIDE DEF chunk
  <2> QED
    BY <1>2, <1>5, <1>6, <1>7, <2>1 DEF EntropyInv, EntropyInOrder
<1> QED
  BY <1>8, <1>9 DEF IInv

LEMMA NextIInv ==
  ASSUME IInv, [Next]_vars
  PROVE  IInv'
<1>1. CASE \E p \in Properties : CreateProperty(p)
  BY <1>1, IdleIInv DEF CreateProperty
<1>2. CASE PropertiesCreated \/ SendSystemVersionInfo \/ GetBootInfo \/ RegisterAsService
  <2>1. UNCHANGED <<request, offset, answer, executed, pool>> /\ pc' # "call"
    BY <1>2 DEF PropertiesCreated, SendSystemVersionInfo, GetBootInfo, RegisterAsService
  <2> QED
    BY <2>1, IdleIInv
<1>3. CASE GetHardwareInfo
  BY <1>3, AloneIInv DEF GetHardwareInfo, OneMessageMethods, Plain
<1>4. CASE VerifyAuthorization
  BY <1>4, AloneIInv DEF VerifyAuthorization, OneMessageMethods, Plain
<1>5. CASE OneMessage
  BY <1>5, OneMessageIInv
<1>6. CASE UpgradeKeyRejects
  BY <1>6, AloneIInv DEF UpgradeKeyRejects
<1>7. CASE AddRngEntropyEnds
  BY <1>7, AloneIInv DEF AddRngEntropyEnds, OneMessageMethods, Plain
<1>8. CASE AddRngEntropyChunk
  BY <1>8, ChunkIInv
<1>9. CASE \E r \in Requests : Call(r)
  <2>1. PICK r \in Requests : Call(r)
    BY <1>9
  <2>2. r.method = "addRngEntropy" => r.size \in Nat
    BY BoundsAssumption DEF Requests, Plain, Local
  <2> QED
    BY <2>1, <2>2, FreshIInv DEF Call
<1>10. CASE HalDies
  BY <1>10, FreshIInv DEF HalDies, NoRequest
<1>11. CASE ChipResets
  BY <1>11, IdleIInv DEF ChipResets
<1>12. CASE UNCHANGED vars
  BY <1>12, IdleIInv DEF vars
<1> QED
  BY <1>1, <1>2, <1>3, <1>4, <1>5, <1>6, <1>7, <1>8, <1>9, <1>10, <1>11, <1>12
     DEF Next, HalSteps

LEMMA Inductive == Spec => []IInv
  BY InitIInv, NextIInv, PTL DEF Spec

(* OK is never the error code of a response that did not come: KM_CALL     *)
(* looks at the status of the call before it looks at the response.        *)
THEOREM CallsAreHonest == Spec => []OkMeansDone
<1>1. IInv => OkMeansDone
  BY DEF IInv
<1> QED
  BY Inductive, <1>1, PTL

(* addRngEntropy cuts its bytes into messages so that the chip gets them   *)
(* in order, none twice, and all of them when it says OK.                  *)
THEOREM EntropyIsTiled == Spec => []EntropyInOrder
<1>1. IInv => EntropyInOrder
  BY DEF IInv
<1> QED
  BY Inductive, <1>1, PTL
-----------------------------------------------------------------------------
(* The part of TypeOK that IInv does not contain. *)
ControlOK ==
  /\ created \subseteq Properties
  /\ pc \in {"wait", "SetSystemVersionInfo", "GetBootInfo", "register", "idle", "call"}
  /\ request \in Requests \cup {NoRequest}
  /\ pc = "call" => request # NoRequest
  /\ excuse \in {"none", "refused", "lost", "reset"}
  /\ calls \in Nat
  /\ faults \in Nat

LEMMA NoRequestIsNone == \A r \in Requests : r # NoRequest
BY DEF Requests, NoRequest, Plain, Local

LEMMA NextControl ==
  ASSUME ControlOK, [Next]_vars
  PROVE  ControlOK'
<1>1. CASE UNCHANGED vars
  BY <1>1 DEF ControlOK, vars
<1>2. CASE \E p \in Properties : CreateProperty(p)
  BY <1>2 DEF ControlOK, CreateProperty
<1>3. CASE PropertiesCreated \/ SendSystemVersionInfo \/ GetBootInfo \/ RegisterAsService
  BY <1>3 DEF ControlOK, PropertiesCreated, SendSystemVersionInfo, GetBootInfo,
     RegisterAsService, Counted
<1>4. CASE GetHardwareInfo \/ VerifyAuthorization \/ UpgradeKeyRejects \/ AddRngEntropyEnds
  BY <1>4 DEF ControlOK, GetHardwareInfo, VerifyAuthorization, UpgradeKeyRejects,
     AddRngEntropyEnds, AnswersAlone, Answer
<1>5. CASE OneMessage
  <2>1. /\ UNCHANGED <<created, request, excuse, calls>> /\ pc' = "idle"
        /\ \E outcome : Counted(outcome)
    BY <1>5 DEF OneMessage, Answer
  <2> QED
    BY <2>1 DEF ControlOK, Counted
<1>6. CASE AddRngEntropyChunk
  <2>1. /\ UNCHANGED <<created, request, excuse, calls>> /\ pc = "call" /\ pc' \in {"idle", "call"}
        /\ \E outcome : Counted(outcome)
    BY <1>6 DEF AddRngEntropyChunk, Answer
  <2> QED
    BY <2>1 DEF ControlOK, Counted
<1>7. CASE \E r \in Requests : Call(r)
  BY <1>7, NoRequestIsNone DEF ControlOK, Call
<1>8. CASE HalDies
  BY <1>8 DEF ControlOK, HalDies
<1>9. CASE ChipResets
  BY <1>9 DEF ControlOK, ChipResets
<1> QED
  BY <1>1, <1>2, <1>3, <1>4, <1>5, <1>6, <1>7, <1>8, <1>9 DEF Next, HalSteps

(* Every variable keeps its type; an answer is to the last request.        *)
THEOREM TypeCorrect == Spec => []TypeOK
<1>1. Init => ControlOK
  BY DEF Init, ControlOK
<1>2. ControlOK /\ [Next]_vars => ControlOK'
  BY NextControl
<1>3. IInv /\ ControlOK => TypeOK
  BY DEF IInv, CallInv, EntropyInv, ControlOK, TypeOK
<1> QED
  BY <1>1, <1>2, <1>3, Inductive, PTL DEF Spec
-----------------------------------------------------------------------------
(* exportKey, key by key: the DER names the key the chip sent, and there   *)
(* is one exactly for a key that fits the curve it names.                  *)
LEMMA CurvesNamed ==
  /\ DOMAIN EnumFromPb.EC_CURVE = DOMAIN StandardName
  /\ \A curve \in DOMAIN StandardName :
       CurveNid(EnumFromPb.EC_CURVE[curve]) = StandardName[curve]
BY DEF EnumFromPb, Same, StandardName, CurveNid, NidOf

ValidKey(key) ==
  \/ key.algorithm = "RSA"
  \/ key.curve \in DOMAIN StandardName /\ key.on = StandardName[key.curve]

KindOf(key) == IF key.algorithm = "RSA" THEN "RSA" ELSE StandardName[key.curve]

LEMMA ExportRight ==
  ASSUME NEW key
  PROVE  /\ ExportKeyDer(key).error = "OK" <=> ValidKey(key)
         /\ ExportKeyDer(key).error = "OK" =>
              ExportKeyDer(key).value = {[kind |-> KindOf(key), number |-> key.number]}
<1>1. CASE key.algorithm = "RSA"
  BY <1>1 DEF ExportKeyDer, Gives, ValidKey, KindOf
<1>2. CASE key.algorithm # "RSA" /\ key.curve \notin DOMAIN StandardName
  BY <1>2, CurvesNamed DEF ExportKeyDer, Gives, ValidKey
<1>3. CASE key.algorithm # "RSA" /\ key.curve \in DOMAIN StandardName
  <2>1. ExportKeyDer(key) =
          IF key.on = StandardName[key.curve]
          THEN Gives("OK", {[kind |-> StandardName[key.curve], number |-> key.number]})
          ELSE Gives("UNKNOWN_ERROR", {})
    BY <1>3, CurvesNamed DEF ExportKeyDer, IsOnCurve
  <2> QED
    BY <1>3, <2>1 DEF Gives, ValidKey, KindOf
<1> QED
  BY <1>1, <1>2, <1>3

(* What one exchange about exportKey comes to. *)
LEMMA OneExport ==
  ASSUME OneMessage, request.method = "exportKey"
  PROVE  ExportsTheKey'
<1>1. PICK outcome \in Outcomes, reply \in Replies(request) :
        /\ executed' = IF outcome.done
                       THEN {[reply |-> reply, heard |-> outcome.status = "SUCCESS"]} ELSE {}
        /\ IF KmCall(outcome) = "OK"
           THEN Answer(Result(request, reply).error, Result(request, reply).value)
           ELSE Answer(KmCall(outcome), {})
  BY DEF OneMessage
<1>2. Result(request, reply) = ExportKeyDer(reply)
  BY DEF Result
<1>3. CASE outcome = Answered
  <2>1. KmCall(outcome) = "OK" /\ executed' = {[reply |-> reply, heard |-> TRUE]}
    BY <1>3, <1>1, KmCallOk DEF Answered
  <2>2. answer'.error = ExportKeyDer(reply).error /\ answer'.value = ExportKeyDer(reply).value
    BY <1>1, <1>2, <2>1 DEF Answer
  <2> QED
    BY <2>1, <2>2, ExportRight DEF ExportsTheKey, ValidKey, KindOf
<1>4. CASE outcome # Answered
  <2>1. KmCall(outcome) # "OK" /\ ~ (outcome.status = "SUCCESS" /\ outcome.done)
    BY <1>4, KmCallOk, DoneIs
  <2>2. answer'.error # "OK"
    BY <1>1, <2>1 DEF Answer
  <2>3. \A e \in executed' : ~ e.heard
    <3>1. CASE outcome.done
      <4>1. (outcome.status = "SUCCESS") = FALSE
        BY <3>1, <2>1
      <4>2. executed' = {[reply |-> reply, heard |-> FALSE]}
        BY <3>1, <4>1, <1>1, Zenon
      <4> QED
        BY <4>2
    <3>2. CASE ~ outcome.done
      BY <3>2, <1>1
    <3> QED
      BY <3>1, <3>2
  <2> QED
    BY <2>2, <2>3 DEF ExportsTheKey
<1> QED
  BY <1>3, <1>4

LEMMA NextExports ==
  ASSUME ExportsTheKey, [Next]_vars
  PROVE  ExportsTheKey'
<1>1. CASE UNCHANGED <<answer, executed>>
  BY <1>1 DEF ExportsTheKey
<1>2. CASE answer'.method # "exportKey"
  BY <1>2 DEF ExportsTheKey
<1>3. CASE OneMessage
  <2>1. answer'.method = request.method
    BY <1>3 DEF OneMessage, Answer
  <2> QED
    BY <1>2, <1>3, <2>1, OneExport
<1>4. CASE \E p \in Properties : CreateProperty(p)
  BY <1>1, <1>4 DEF CreateProperty
<1>5. CASE PropertiesCreated \/ SendSystemVersionInfo \/ GetBootInfo \/ RegisterAsService
           \/ ChipResets
  BY <1>1, <1>5 DEF PropertiesCreated, SendSystemVersionInfo, GetBootInfo, RegisterAsService,
     ChipResets
<1>6. CASE GetHardwareInfo \/ VerifyAuthorization \/ UpgradeKeyRejects \/ AddRngEntropyEnds
  BY <1>2, <1>6 DEF GetHardwareInfo, VerifyAuthorization, UpgradeKeyRejects, AddRngEntropyEnds,
     AnswersAlone, Answer
<1>7. CASE AddRngEntropyChunk
  BY <1>1, <1>2, <1>7 DEF AddRngEntropyChunk, Answer
<1>8. CASE HalDies \/ \E r \in Requests : Call(r)
  BY <1>2, <1>8 DEF HalDies, Call, NoAnswer
<1>9. CASE UNCHANGED vars
  BY <1>1, <1>9 DEF vars
<1> QED
  BY <1>3, <1>4, <1>5, <1>6, <1>7, <1>8, <1>9 DEF Next, HalSteps

(* A client of exportKey gets the public key the chip sent, under its own  *)
(* name, and an error for a key that is not on the curve it names.         *)
THEOREM KeysExportedAsSent == Spec => []ExportsTheKey
<1>1. Init => ExportsTheKey
  BY DEF Init, ExportsTheKey, NoAnswer
<1> QED
  BY <1>1, NextExports, PTL DEF Spec
-----------------------------------------------------------------------------
(* What the system's properties say.  A property is read from its left:    *)
(* how many digits, or dots, there are up to a position says which part of *)
(* the number the next character belongs to, and a number's value is that  *)
(* of the scan that passes every position but its own digits unchanged.    *)
LEMMA LeastNumber ==
  ASSUME NEW T \in SUBSET Nat, T # {}
  PROVE  \E n \in T : \A m \in T : n <= m
<1>1. IsWellFoundedOn(OpToRel(<, Nat), Nat)
  BY NatLessThanWellFounded
<1>2. PICK n \in T : \A m \in T : ~ (<<m, n>> \in OpToRel(<, Nat))
  BY ONLY <1>1, WFMin, T \in SUBSET Nat, T # {}
<1>3. \A m \in T : <<m, n>> \in OpToRel(<, Nat) <=> m < n
  BY DEF OpToRel
<1>4. \A m \in T : ~ (m < n)
  BY <1>2, <1>3
<1>5. \A m \in T : m \in Nat /\ n \in Nat
  OBVIOUS
<1>6. \A m \in T : n <= m
  BY ONLY <1>4, <1>5
<1> QED
  BY <1>6

(* Induction on the positions of a property, for a set instead of a        *)
(* formula.                                                                *)
LEMMA PositionInduction ==
  ASSUME NEW n \in Nat, NEW S, 0 \in S, \A i \in 1..n : i - 1 \in S => i \in S
  PROVE  0..n \subseteq S
<1> SUFFICES ASSUME 0..n \ S # {} PROVE FALSE
  OBVIOUS
<1>a. PICK T : T = 0..n \ S
  OBVIOUS
<1>b. T \in SUBSET Nat /\ T # {}
  BY <1>a
<1>1. PICK i \in T : \A m \in T : i <= m
  BY ONLY <1>b, LeastNumber
<1>2. i \in 0..n /\ i \notin S
  BY <1>a
<1>3. i \in 1..n
  BY ONLY <1>2, 0 \in S, n \in Nat
<1>4. i - 1 \in 0..n /\ ~ (i <= i - 1)
  BY <1>3
<1>5. i - 1 \in S
  BY <1>a, <1>1, <1>4
<1> QED
  BY <1>2, <1>3, <1>5

(* What the two recursive functions compute, one character at a time.      *)
Values(value, code, positions, n) ==
  /\ value[0] = 0
  /\ \A i \in 1..n : value[i] = IF i \in positions THEN 10 * value[i - 1] + code[i] ELSE value[i - 1]

Keeps(kept, code, n) ==
  /\ kept[0] = <<>>
  /\ \A i \in 1..n : kept[i] = IF code[i] \in Digits THEN Append(kept[i - 1], code[i]) ELSE kept[i - 1]

LEMMA ValueSteps ==
  ASSUME NEW code, NEW n \in Nat, n = Len(code), NEW positions
  PROVE  \E value : Values(value, code, positions, n) /\ ValueAt(code, positions) = value[n]
<1> DEFINE Step(f, i) == IF i = 0 THEN 0
                         ELSE IF i \in positions THEN 10 * f[i - 1] + code[i] ELSE f[i - 1]
           Has(m) == \E f : f = [i \in 0..m |-> Step(f, i)]
           S == {m \in 0..n : Has(m)}
<1>1. 0 \in S
  <2> DEFINE f == [i \in 0..0 |-> 0]
  <2>1. f = [i \in 0..0 |-> Step(f, i)]
    OBVIOUS
  <2>2. Has(0)
    BY <2>1
  <2> HIDE DEF Has
  <2> QED
    BY <2>2
<1>2. ASSUME NEW i \in 1..n, i - 1 \in S PROVE i \in S
  <2>1. PICK f : f = [j \in 0..(i - 1) |-> Step(f, j)]
    BY <1>2
  <2> DEFINE g == [j \in 0..i |-> IF j = i THEN Step(f, i) ELSE f[j]]
  <2>2. \A j \in 0..i : g[j] = Step(g, j)
    <3> TAKE j \in 0..i
    <3>1. CASE j = i
      <4>1. g[j - 1] = f[i - 1] /\ j # 0
        BY <3>1
      <4> QED
        BY <3>1, <4>1
    <3>2. CASE j # i
      <4>1. j \in 0..(i - 1) /\ g[j] = f[j] /\ (j # 0 => g[j - 1] = f[j - 1])
        BY <3>2
      <4>2. f[j] = Step(f, j)
        BY <2>1, <4>1
      <4> QED
        BY <4>1, <4>2
    <3> QED
      BY <3>1, <3>2
  <2>3. g = [j \in 0..i |-> g[j]]
    OBVIOUS
  <2>4. g = [j \in 0..i |-> Step(g, j)]
    <3> HIDE DEF g
    <3> QED
      BY <2>2, <2>3
  <2>5. Has(i)
    BY <2>4
  <2> HIDE DEF Has
  <2> QED
    BY <2>5
<1>3. 0..n \subseteq S
  <2> HIDE DEF S
  <2> QED
    BY <1>1, <1>2, PositionInduction
<1> DEFINE value == CHOOSE f : f = [i \in 0..n |-> Step(f, i)]
<1>4. value = [i \in 0..n |-> Step(value, i)]
  <2>1. Has(n)
    <3> HIDE DEF Has
    <3> QED
      BY <1>3
  <2> QED
    BY <2>1
<1>5. ValueAt(code, positions) = value[n]
  BY DEF ValueAt
<1> HIDE DEF value
<1>6. \A i \in 0..n : value[i] = Step(value, i)
  BY <1>4
<1>7. Values(value, code, positions, n)
  BY <1>6 DEF Values
<1> QED
  BY <1>5, <1>7

LEMMA KeptSteps ==
  ASSUME NEW code, NEW n \in Nat, n = Len(code)
  PROVE  \E kept : Keeps(kept, code, n) /\ DigitsOnly(code) = kept[n]
<1> DEFINE Step(f, i) == IF i = 0 THEN <<>>
                         ELSE IF code[i] \in Digits THEN Append(f[i - 1], code[i]) ELSE f[i - 1]
           Has(m) == \E f : f = [i \in 0..m |-> Step(f, i)]
           S == {m \in 0..n : Has(m)}
<1>1. 0 \in S
  <2> DEFINE f == [i \in 0..0 |-> <<>>]
  <2>1. f = [i \in 0..0 |-> Step(f, i)]
    OBVIOUS
  <2>2. Has(0)
    BY <2>1
  <2> HIDE DEF Has
  <2> QED
    BY <2>2
<1>2. ASSUME NEW i \in 1..n, i - 1 \in S PROVE i \in S
  <2>1. PICK f : f = [j \in 0..(i - 1) |-> Step(f, j)]
    BY <1>2
  <2> DEFINE g == [j \in 0..i |-> IF j = i THEN Step(f, i) ELSE f[j]]
  <2>2. \A j \in 0..i : g[j] = Step(g, j)
    <3> TAKE j \in 0..i
    <3>1. CASE j = i
      <4>1. g[j - 1] = f[i - 1] /\ j # 0
        BY <3>1
      <4> QED
        BY <3>1, <4>1
    <3>2. CASE j # i
      <4>1. j \in 0..(i - 1) /\ g[j] = f[j] /\ (j # 0 => g[j - 1] = f[j - 1])
        BY <3>2
      <4>2. f[j] = Step(f, j)
        BY <2>1, <4>1
      <4> QED
        BY <4>1, <4>2
    <3> QED
      BY <3>1, <3>2
  <2>3. g = [j \in 0..i |-> g[j]]
    OBVIOUS
  <2>4. g = [j \in 0..i |-> Step(g, j)]
    <3> HIDE DEF g
    <3> QED
      BY <2>2, <2>3
  <2>5. Has(i)
    BY <2>4
  <2> HIDE DEF Has
  <2> QED
    BY <2>5
<1>3. 0..n \subseteq S
  <2> HIDE DEF S
  <2> QED
    BY <1>1, <1>2, PositionInduction
<1> DEFINE kept == CHOOSE f : f = [i \in 0..n |-> Step(f, i)]
<1>4. kept = [i \in 0..n |-> Step(kept, i)]
  <2>1. Has(n)
    <3> HIDE DEF Has
    <3> QED
      BY <1>3
  <2> QED
    BY <2>1
<1>5. DigitsOnly(code) = kept[n]
  BY DEF DigitsOnly
<1> HIDE DEF kept
<1>6. \A i \in 0..n : kept[i] = Step(kept, i)
  BY <1>4
<1>7. Keeps(kept, code, n)
  BY <1>6 DEF Keeps
<1> QED
  BY <1>5, <1>7

(* Where there are digits at the positions, the values are numbers.        *)
LEMMA ValuesAreNumbers ==
  ASSUME NEW code, NEW n \in Nat, NEW positions, NEW value, Values(value, code, positions, n),
         \A i \in 1..n : i \in positions => code[i] \in Digits
  PROVE  \A i \in 0..n : value[i] \in Nat
<1> DEFINE S == {i \in 0..n : value[i] \in Nat}
<1>1. 0 \in S
  BY DEF Values
<1>2. ASSUME NEW i \in 1..n, i - 1 \in S PROVE i \in S
  BY <1>2 DEF Values, Digits
<1>3. 0..n \subseteq S
  <2> HIDE DEF S
  <2> QED
    BY <1>1, <1>2, PositionInduction
<1> QED
  BY <1>3

NoneIn(positions, from, to) == \A i \in (from + 1)..to : i \notin positions

(* Between two positions that have none in between, the value stays.       *)
LEMMA ValuesStay ==
  ASSUME NEW code, NEW n \in Nat, NEW positions, NEW value, Values(value, code, positions, n),
         NEW from \in 0..n, NEW to \in from..n, NoneIn(positions, from, to)
  PROVE  value[to] = value[from]
<1> DEFINE S == {i \in 0..to : i >= from => value[i] = value[from]}
<1>1. 0 \in S
  OBVIOUS
<1>2. ASSUME NEW i \in 1..to, i - 1 \in S PROVE i \in S
  <2>1. CASE i <= from
    BY <2>1
  <2>2. CASE i > from
    <3>1. value[i] = value[i - 1] /\ i - 1 >= from
      BY <2>2 DEF Values, NoneIn
    <3> QED
      BY <3>1, <1>2
  <2> QED
    BY <2>1, <2>2
<1>3. 0..to \subseteq S
  <2> HIDE DEF S
  <2> QED
    BY <1>1, <1>2, PositionInduction
<1> QED
  BY <1>3

SamePart(part, places, code, positions, from, m) ==
  \A i \in 1..m : (i \in places <=> from + i \in positions) /\ part[i] = code[from + i]

(* The same characters at the same positions, further on, have the values  *)
(* they had.                                                               *)
LEMMA ValuesShift ==
  ASSUME NEW code, NEW positions, NEW value, NEW n \in Nat, Values(value, code, positions, n),
         NEW part, NEW places, NEW digits, NEW m \in Nat, Values(digits, part, places, m),
         NEW from \in 0..n, from + m <= n, value[from] = 0,
         SamePart(part, places, code, positions, from, m)
  PROVE  \A i \in 0..m : digits[i] = value[from + i]
<1> DEFINE S == {i \in 0..m : digits[i] = value[from + i]}
<1>1. 0 \in S
  BY DEF Values
<1>2. ASSUME NEW i \in 1..m, i - 1 \in S PROVE i \in S
  <2>1. from + i \in 1..n /\ (from + i) - 1 = from + (i - 1) /\ i - 1 \in 0..m
    OBVIOUS
  <2>2. digits[i] = IF i \in places THEN 10 * digits[i - 1] + part[i] ELSE digits[i - 1]
    BY DEF Values
  <2>3. value[from + i] = IF from + i \in positions
                          THEN 10 * value[from + (i - 1)] + code[from + i] ELSE value[from + (i - 1)]
    BY <2>1 DEF Values
  <2>4. digits[i - 1] = value[from + (i - 1)]
    BY <1>2
  <2>5. (i \in places <=> from + i \in positions) /\ part[i] = code[from + i]
    BY DEF SamePart
  <2> QED
    BY <2>2, <2>3, <2>4, <2>5
<1>3. 0..m \subseteq S
  <2> HIDE DEF S
  <2> QED
    BY <1>1, <1>2, PositionInduction
<1> QED
  BY <1>3

(* How many of some positions there are up to one. *)
UpTo(positions, i) == Cardinality(positions \cap 1..i)

LEMMA Counted1 ==
  ASSUME NEW positions, NEW i \in Nat
  PROVE  /\ UpTo(positions, i) \in Nat
         /\ UpTo(positions, 0) = 0
         /\ i + 1 \in positions => UpTo(positions, i + 1) = UpTo(positions, i) + 1
         /\ i + 1 \notin positions => UpTo(positions, i + 1) = UpTo(positions, i)
<1> DEFINE T == positions \cap 1..i
<1>1. IsFiniteSet(T)
  <2>1. IsFiniteSet(1..i)
    BY FS_Interval
  <2> QED
    BY <2>1, FS_Subset
<1>2. Cardinality(T) \in Nat
  BY <1>1, FS_CardinalityType
<1>3. UpTo(positions, 0) = 0
  <2>1. positions \cap 1..0 = {}
    OBVIOUS
  <2> QED
    BY <2>1, FS_EmptySet DEF UpTo
<1>4. CASE i + 1 \in positions
  <2>1. positions \cap 1..(i + 1) = T \cup {i + 1} /\ i + 1 \notin T
    BY <1>4
  <2>2. Cardinality(T \cup {i + 1}) = Cardinality(T) + 1
    BY <1>1, <2>1, FS_AddElement
  <2> QED
    BY <1>2, <1>3, <1>4, <2>1, <2>2 DEF UpTo
<1>5. CASE i + 1 \notin positions
  <2>1. positions \cap 1..(i + 1) = T
    BY <1>5
  <2> QED
    BY <1>2, <1>3, <1>5, <2>1 DEF UpTo
<1> QED
  BY <1>4, <1>5

LEMMA CountedMore ==
  ASSUME NEW positions, NEW j \in Nat, NEW i \in 0..j
  PROVE  UpTo(positions, i) <= UpTo(positions, j)
<1>1. IsFiniteSet(positions \cap 1..j)
  <2>1. IsFiniteSet(1..j)
    BY FS_Interval
  <2> QED
    BY <2>1, FS_Subset
<1>2. positions \cap 1..i \subseteq positions \cap 1..j
  OBVIOUS
<1> QED
  BY <1>1, <1>2, FS_Subset DEF UpTo

(* One more digit. *)
LEMMA NumberAppend ==
  ASSUME NEW digits \in Seq(Digits), NEW digit \in Digits
  PROVE  /\ Number(digits) \in Nat
         /\ Number(Append(digits, digit)) = 10 * Number(digits) + digit
<1>1. PICK n : n = Len(digits)
  OBVIOUS
<1>2. PICK more : more = Append(digits, digit)
  OBVIOUS
<1>3. /\ n \in Nat
      /\ DOMAIN digits = 1..n
      /\ DOMAIN more = 1..(n + 1)
      /\ Len(more) = n + 1
      /\ more[n + 1] = digit
      /\ \A i \in 1..n : more[i] = digits[i] /\ digits[i] \in Digits
  BY <1>1, <1>2
<1>4. PICK value : Values(value, digits, 1..n, n) /\ Number(digits) = value[n]
  <2>1. ValueAt(digits, 1..n) = Number(digits)
    BY <1>3 DEF Number
  <2>2. \E value : Values(value, digits, 1..n, n) /\ ValueAt(digits, 1..n) = value[n]
    BY <1>1, <1>3, ValueSteps
  <2> QED
    BY <2>1, <2>2
<1>5. PICK new : Values(new, more, 1..(n + 1), n + 1) /\ Number(more) = new[n + 1]
  <2>1. ValueAt(more, 1..(n + 1)) = Number(more)
    BY <1>3 DEF Number
  <2>2. \E new : Values(new, more, 1..(n + 1), n + 1) /\ ValueAt(more, 1..(n + 1)) = new[n + 1]
    BY <1>3, ValueSteps
  <2> QED
    BY <2>1, <2>2
<1>6. value[n] = new[n]
  <2>1. new[0] = 0
    BY <1>5 DEF Values
  <2>2. SamePart(digits, 1..n, more, 1..(n + 1), 0, n)
    BY <1>3 DEF SamePart
  <2>3. n + 1 \in Nat /\ 0 \in 0..(n + 1) /\ 0 + n <= n + 1
    BY <1>3
  <2>4. \A i \in 0..n : value[i] = new[0 + i]
    BY ONLY <1>3, <1>4, <1>5, <2>1, <2>2, <2>3, ValuesShift
  <2> QED
    BY <2>4, <1>3
<1>7. new[n + 1] = 10 * new[n] + more[n + 1]
  BY <1>3, <1>5 DEF Values
<1>8. \A i \in 0..n : value[i] \in Nat
  BY <1>3, <1>4, ValuesAreNumbers
<1> QED
  BY <1>2, <1>3, <1>4, <1>5, <1>6, <1>7, <1>8

LEMMA NumberNone == Number(<<>>) = 0
<1>1. Len(<<>>) = 0 /\ DOMAIN <<>> = {}
  OBVIOUS
<1>2. PICK value : Values(value, <<>>, {}, 0) /\ ValueAt(<<>>, {}) = value[0]
  BY <1>1, ValueSteps
<1> QED
  BY <1>1, <1>2 DEF Number, Values

(* The digits kept make the number that the digits' positions make, and    *)
(* are as many as those.                                                   *)
LEMMA KeptDigits ==
  ASSUME NEW code \in Seq(Characters)
  PROVE  /\ Number(DigitsOnly(code)) = ValueAt(code, DigitPositions(code))
         /\ Len(DigitsOnly(code)) = Cardinality(DigitPositions(code))
         /\ Cardinality(DigitPositions(code)) = UpTo(DigitPositions(code), Len(code))
<1>1. PICK n : n = Len(code)
  OBVIOUS
<1>2. PICK positions : positions = DigitPositions(code)
  OBVIOUS
<1>3. /\ n \in Nat
      /\ positions = {i \in 1..n : code[i] \in Digits}
      /\ positions \cap 1..n = positions
  BY <1>1, <1>2 DEF DigitPositions
<1>a. n \in Nat
  BY <1>3
<1>4. PICK value : Values(value, code, positions, n) /\ ValueAt(code, positions) = value[n]
  BY ONLY <1>1, <1>a, ValueSteps
<1>5. PICK kept : Keeps(kept, code, n) /\ DigitsOnly(code) = kept[n]
  BY <1>1, <1>3, KeptSteps
<1> DEFINE S == {i \in 0..n : /\ kept[i] \in Seq(Digits)
                              /\ Number(kept[i]) = value[i]
                              /\ Len(kept[i]) = UpTo(positions, i)}
<1>6. 0 \in S
  <2>1. kept[0] = <<>> /\ value[0] = 0
    BY <1>4, <1>5 DEF Keeps, Values
  <2>2. UpTo(positions, 0) = 0
    BY Counted1
  <2>3. kept[0] \in Seq(Digits) /\ Len(kept[0]) = 0
    BY <2>1
  <2>4. Number(kept[0]) = value[0]
    BY <2>1, NumberNone
  <2> QED
    BY <2>2, <2>3, <2>4, <1>a
<1>7. ASSUME NEW i \in 1..n, i - 1 \in S PROVE i \in S
  <2>1. PICK j : j = i - 1
    OBVIOUS
  <2>2. j \in Nat /\ j + 1 = i
    BY <2>1, <1>3
  <2>3. kept[j] \in Seq(Digits) /\ Number(kept[j]) = value[j] /\ Len(kept[j]) = UpTo(positions, j)
    BY <1>7, <2>1
  <2>4. CASE i \in positions
    <3>1. code[i] \in Digits
      BY <2>4, <1>3
    <3>2. kept[i] = Append(kept[j], code[i]) /\ value[i] = 10 * value[j] + code[i]
      BY <1>4, <1>5, <2>1, <2>4, <3>1 DEF Keeps, Values
    <3>3. UpTo(positions, i) = UpTo(positions, j) + 1
      BY <2>2, <2>4, Counted1
    <3>4. Number(kept[i]) = value[i]
      BY <2>3, <3>1, <3>2, NumberAppend
    <3>5. kept[i] \in Seq(Digits) /\ Len(kept[i]) = Len(kept[j]) + 1
      BY <2>3, <3>1, <3>2
    <3> QED
      BY <2>3, <3>3, <3>4, <3>5
  <2>5. CASE i \notin positions
    <3>1. code[i] \notin Digits
      BY <2>5, <1>3
    <3>2. kept[i] = kept[j] /\ value[i] = value[j]
      BY <1>4, <1>5, <2>1, <2>5, <3>1 DEF Keeps, Values
    <3>3. UpTo(positions, i) = UpTo(positions, j)
      BY <2>2, <2>5, Counted1
    <3> QED
      BY <2>3, <3>2, <3>3
  <2> QED
    BY <2>4, <2>5
<1>8. 0..n \subseteq S
  <2> HIDE DEF S
  <2> QED
    BY <1>3, <1>6, <1>7, PositionInduction
<1>9. n \in S
  <2> HIDE DEF S
  <2> QED
    BY <1>3, <1>8
<1>10. UpTo(positions, n) = Cardinality(positions)
  BY <1>3 DEF UpTo
<1> QED
  BY <1>1, <1>2, <1>4, <1>5, <1>9, <1>10

(* The number in a piece of a property is the one its digits make there.   *)
LEMMA PieceValue ==
  ASSUME NEW code \in Seq(Characters), NEW from \in 1..Len(code), NEW to \in (from - 1)..Len(code)
  PROVE  Number(DigitsOnly(SubSeq(code, from, to)))
           = ValueAt(code, {i \in DigitPositions(code) : from <= i /\ i <= to})
<1>1. PICK n : n = Len(code)
  OBVIOUS
<1>2. PICK piece : piece = SubSeq(code, from, to)
  OBVIOUS
<1>3. PICK positions : positions = {i \in DigitPositions(code) : from <= i /\ i <= to}
  OBVIOUS
<1>4. PICK m : m = to - (from - 1)
  OBVIOUS
<1>k. PICK k : k = from - 1
  OBVIOUS
<1>5. /\ n \in Nat /\ from \in 1..n /\ to \in 0..n /\ m \in Nat
      /\ k \in 0..n /\ k + m = to /\ k + m <= n /\ from = k + 1
  BY <1>1, <1>4, <1>k
<1>6. /\ piece \in Seq(Characters)
      /\ Len(piece) = m
      /\ \A i \in 1..m : piece[i] = code[k + i]
  <2>1. /\ Len(piece) = IF from <= to THEN (to - from) + 1 ELSE 0
        /\ \A i \in 1..((to - from) + 1) : piece[i] = code[(from + i) - 1]
    BY <1>2, <1>1, <1>5
  <2>2. Len(piece) = m
    BY <2>1, <1>4, <1>5
  <2>3. \A i \in 1..m : piece[i] = code[k + i]
    <3> TAKE i \in 1..m
    <3>1. i \in 1..((to - from) + 1) /\ (from + i) - 1 = k + i
      BY <1>4, <1>5
    <3> QED
      BY <2>1, <3>1
  <2>4. piece \in Seq(Characters)
    BY <1>1, <1>2, <1>5, SubSeqProperties
  <2> QED
    BY <2>2, <2>3, <2>4
<1>7. PICK places : places = DigitPositions(piece)
  OBVIOUS
<1>8. places = {i \in 1..m : piece[i] \in Digits} /\ DigitPositions(code) = {i \in 1..n : code[i] \in Digits}
  BY <1>1, <1>5, <1>6, <1>7 DEF DigitPositions
<1>9. SamePart(piece, places, code, positions, k, m)
  <2> SUFFICES ASSUME NEW i \in 1..m
               PROVE  (i \in places <=> k + i \in positions) /\ piece[i] = code[k + i]
    BY DEF SamePart
  <2>1. k + i \in 1..n /\ from <= k + i /\ k + i <= to
    BY <1>5
  <2> QED
    BY <1>3, <1>6, <1>8, <2>1
<1>10. PICK value : Values(value, code, positions, n) /\ ValueAt(code, positions) = value[n]
  BY <1>1, <1>5, ValueSteps
<1>11. PICK digits : Values(digits, piece, places, m) /\ ValueAt(piece, places) = digits[m]
  BY <1>5, <1>6, ValueSteps
<1>12. value[k] = 0
  <2>1. NoneIn(positions, 0, k)
    BY <1>3, <1>5 DEF NoneIn
  <2>2. 0 \in 0..n /\ k \in 0..n
    BY <1>5
  <2>3. value[k] = value[0]
    BY ONLY <1>5, <1>10, <2>1, <2>2, ValuesStay
  <2> QED
    BY <2>3, <1>10 DEF Values
<1>13. digits[m] = value[to]
  <2>1. \A i \in 0..m : digits[i] = value[k + i]
    BY ONLY <1>5, <1>9, <1>10, <1>11, <1>12, ValuesShift
  <2>2. m \in 0..m
    BY ONLY <1>5
  <2> QED
    BY ONLY <2>1, <2>2, <1>5
<1>14. value[n] = value[to]
  <2>1. NoneIn(positions, to, n)
    BY <1>3, <1>5 DEF NoneIn
  <2>2. n \in to..n
    BY <1>5
  <2> QED
    BY ONLY <1>5, <1>10, <2>1, <2>2, ValuesStay
<1>15. Number(DigitsOnly(piece)) = ValueAt(piece, places)
  BY <1>6, <1>7, KeptDigits
<1> QED
  BY <1>2, <1>3, <1>10, <1>11, <1>13, <1>14, <1>15
-----------------------------------------------------------------------------
Dots(version) == {i \in 1..Len(version) : version[i] = Dot}

LEMMA ValueIsNumber ==
  ASSUME NEW code \in Seq(Characters), NEW positions, positions \subseteq DigitPositions(code)
  PROVE  ValueAt(code, positions) \in Nat
<1>1. PICK n : n = Len(code)
  OBVIOUS
<1>2. n \in Nat /\ n \in 0..n
  BY <1>1
<1>3. PICK value : Values(value, code, positions, n) /\ ValueAt(code, positions) = value[n]
  BY ONLY <1>1, <1>2, ValueSteps
<1>4. \A i \in 1..n : i \in positions => code[i] \in Digits
  BY DEF DigitPositions
<1>5. \A i \in 0..n : value[i] \in Nat
  BY ONLY <1>2, <1>3, <1>4, ValuesAreNumbers
<1> QED
  BY <1>2, <1>3, <1>5

(* The first dot from a position on, if there is one.                      *)
LEMMA FirstDot ==
  ASSUME NEW version \in Seq(Characters), NEW loc \in 1..Len(version)
  PROVE  \/ Find(version, loc) = NPos /\ \A i \in loc..Len(version) : i \notin Dots(version)
         \/ /\ Find(version, loc) \in loc..Len(version) /\ Find(version, loc) \in Dots(version)
            /\ \A i \in loc..(Find(version, loc) - 1) : i \notin Dots(version)
<1>1. PICK n : n = Len(version)
  OBVIOUS
<1>2. n \in Nat /\ loc \in 1..n
  BY <1>1
<1>3. PICK dots : dots = {i \in loc..n : version[i] = Dot}
  OBVIOUS
<1>4. \A i \in loc..n : i \in dots <=> i \in Dots(version)
  BY <1>1, <1>2, <1>3 DEF Dots
<1>5. Find(version, loc) = IF dots = {} THEN NPos ELSE Min(dots)
  BY <1>1, <1>3 DEF Find
<1>6. CASE dots = {}
  BY <1>1, <1>4, <1>5, <1>6
<1>7. CASE dots # {}
  <2>1. dots \in SUBSET Nat
    BY <1>2, <1>3
  <2>2. \E x \in dots : \A y \in dots : x <= y
    BY <1>7, <2>1, LeastNumber
  <2>3. PICK first : first = Min(dots)
    OBVIOUS
  <2>4. first \in dots /\ \A y \in dots : first <= y
    BY <2>2, <2>3 DEF Min
  <2>5. first \in loc..n /\ first \in Dots(version)
    BY <1>3, <1>4, <2>4
  <2>6. ASSUME NEW i \in loc..(first - 1) PROVE i \notin Dots(version)
    <3>1. i \in loc..n /\ ~ (first <= i)
      BY <1>2, <2>5
    <3> QED
      BY <1>4, <2>4, <3>1
  <2>7. Find(version, loc) = first
    BY <1>5, <1>7, <2>3
  <2> QED
    BY <1>1, <2>5, <2>6, <2>7
<1> QED
  BY <1>6, <1>7

(* The number that the digits make behind so many dots.                    *)
LEMMA ComponentIs ==
  ASSUME NEW version \in Seq(Characters), NEW k
  PROVE  Component(version, k)
           = ValueAt(version, {i \in DigitPositions(version) : UpTo(Dots(version), i) = k - 1})
<1>1. ASSUME NEW i \in DigitPositions(version)
      PROVE  {j \in 1..i : version[j] = Dot} = Dots(version) \cap 1..i
  BY DEF DigitPositions, Dots
<1>2. {i \in DigitPositions(version) : Cardinality({j \in 1..i : version[j] = Dot}) = k - 1}
        = {i \in DigitPositions(version) : UpTo(Dots(version), i) = k - 1}
  BY <1>1 DEF UpTo
<1> QED
  BY <1>2 DEF Component

(* No positions, no number.                                                *)
LEMMA ValueOfNone ==
  ASSUME NEW code \in Seq(Characters)
  PROVE  ValueAt(code, {}) = 0
<1>1. PICK n : n = Len(code)
  OBVIOUS
<1>2. n \in Nat /\ 0 \in 0..n /\ n \in 0..n
  BY <1>1
<1>3. PICK value : Values(value, code, {}, n) /\ ValueAt(code, {}) = value[n]
  BY ONLY <1>1, <1>2, ValueSteps
<1>4. NoneIn({}, 0, n)
  BY DEF NoneIn
<1>5. value[n] = value[0]
  BY ONLY <1>2, <1>3, <1>4, ValuesStay
<1> QED
  BY <1>3, <1>5 DEF Values

(* Where the k-th call of ExtractVersion starts: right behind k - 1 dots,  *)
(* or with no digits behind so many at all.                                *)
At(version, loc, k) ==
  /\ loc \in Nat
  /\ \A i \in DigitPositions(version) :
       loc = NPos \/ loc > Len(version) \/ i < loc => UpTo(Dots(version), i) < k - 1
  /\ loc \in 1..Len(version) => UpTo(Dots(version), loc - 1) = k - 1

(* It gives the k-th number, and moves to where the next one starts.       *)
LEMMA ExtractRight ==
  ASSUME NEW version \in Seq(Characters), NEW loc, NEW k \in Nat \ {0}, At(version, loc, k)
  PROVE  /\ ExtractVersion(version, loc).value = Component(version, k)
         /\ At(version, ExtractVersion(version, loc).loc, k + 1)
<1>1. PICK n : n = Len(version)
  OBVIOUS
<1>2. PICK dots : dots = Dots(version)
  OBVIOUS
<1>3. PICK digits : digits = DigitPositions(version)
  OBVIOUS
<1>4. /\ n \in Nat /\ loc \in Nat
      /\ digits = {i \in 1..n : version[i] \in Digits}
      /\ dots = {i \in 1..n : version[i] = Dot}
      /\ \A i \in digits : i \notin dots
  BY <1>1, <1>2, <1>3 DEF DigitPositions, Dots, At, Digits, Dot
<1>5. /\ \A i \in digits : loc = NPos \/ loc > n \/ i < loc => UpTo(dots, i) < k - 1
      /\ loc \in 1..n => UpTo(dots, loc - 1) = k - 1
  BY <1>1, <1>2, <1>3 DEF At
<1>6. Component(version, k) = ValueAt(version, {i \in digits : UpTo(dots, i) = k - 1})
  BY <1>2, <1>3, ComponentIs
<1>7. \A i \in 0..n : UpTo(dots, i) \in Nat
  BY Counted1
<1>8. CASE loc = NPos \/ loc > n
  <2>1. ExtractVersion(version, loc) = [value |-> 0, loc |-> loc]
    BY <1>1, <1>8 DEF ExtractVersion
  <2>2. {i \in digits : UpTo(dots, i) = k - 1} = {}
    BY <1>4, <1>5, <1>7, <1>8
  <2>3. Component(version, k) = 0
    BY <1>6, <2>2, ValueOfNone
  <2>4. \A i \in digits : UpTo(dots, i) < (k + 1) - 1
    BY <1>4, <1>5, <1>7, <1>8
  <2>5. loc \notin 1..n
    BY <1>4, <1>8 DEF NPos
  <2>6. At(version, loc, k + 1)
    BY <1>1, <1>2, <1>3, <1>4, <2>4, <2>5 DEF At
  <2> QED
    BY <2>1, <2>3, <2>6
<1>9. CASE loc \in 1..n
  <2>0. ~ (loc = NPos \/ loc > n)
    <3>1. loc # 0 /\ ~ (loc > n)
      BY ONLY <1>9, <1>4
    <3> QED
      BY ONLY <3>1 DEF NPos
  <2>1. PICK new : new = Find(version, loc)
    OBVIOUS
  <2>2. PICK to : to = IF new = NPos THEN n ELSE new - 1
    OBVIOUS
  <2>3. \/ new = NPos /\ \A i \in loc..n : i \notin dots
        \/ new \in loc..n /\ new \in dots /\ \A i \in loc..(new - 1) : i \notin dots
    BY <1>1, <1>2, <1>9, <2>1, FirstDot
  <2>4. to \in (loc - 1)..n /\ \A i \in loc..to : i \notin dots
    BY <1>4, <1>9, <2>2, <2>3 DEF NPos
  <2>5. \A i \in loc..to : UpTo(dots, i) = k - 1
    <3>1. ASSUME NEW i \in loc..to PROVE dots \cap 1..i = dots \cap 1..(loc - 1)
      <4>1. \A j \in 1..i : j \in 1..(loc - 1) \/ j \in loc..to
        BY <2>4, <1>9
      <4>2. 1..(loc - 1) \subseteq 1..i
        BY <2>4, <1>9
      <4> QED
        BY <4>1, <4>2, <2>4
    <3> QED
      BY <3>1, <1>5, <1>9 DEF UpTo
  <2>a. ASSUME new # NPos
        PROVE  new \in dots /\ new \in loc..n /\ to = new - 1 /\ UpTo(dots, new) = k
    <3>1. new \in dots /\ new \in loc..n /\ to = new - 1
      BY <2>2, <2>3, <2>a
    <3>2. to \in Nat /\ to + 1 = new
      BY <3>1, <1>4, <1>9
    <3>3. UpTo(dots, new) = UpTo(dots, to) + 1
      BY <3>1, <3>2, Counted1
    <3>4. UpTo(dots, to) = k - 1
      <4>1. CASE to = loc - 1
        BY <4>1, <1>5, <1>9
      <4>2. CASE to \in loc..to
        BY <4>2, <2>5
      <4> QED
        BY <4>1, <4>2, <2>4, <1>9
    <3> QED
      BY <3>1, <3>3, <3>4
  <2>6. ASSUME NEW i \in digits PROVE (UpTo(dots, i) = k - 1 <=> loc <= i /\ i <= to)
                                      /\ (i <= to => UpTo(dots, i) < (k + 1) - 1)
    <3>1. i \in 1..n /\ UpTo(dots, i) \in Nat /\ to \in Nat /\ loc \in Nat
      BY <1>4, <1>7, <1>9, <2>4
    <3>2. CASE i < loc
      <4>1. UpTo(dots, i) < k - 1
        BY <1>5, <3>2
      <4> QED
        BY <4>1, <3>1, <3>2, <1>9
    <3>3. CASE loc <= i /\ i <= to
      <4>1. UpTo(dots, i) = k - 1
        BY <2>5, <3>1, <3>3
      <4> QED
        BY <4>1, <3>3
    <3>4. CASE i > to /\ ~ (i < loc)
      <4>1. new # NPos
        BY ONLY <2>2, <3>1, <3>4
      <4>2. new \in dots /\ new \in loc..n /\ to = new - 1 /\ UpTo(dots, new) = k
        BY <2>a, <4>1
      <4>3. UpTo(dots, new) <= UpTo(dots, i)
        <5>1. i \in Nat /\ new \in 0..i
          BY <3>1, <3>4, <4>2, <1>4, <1>9
        <5> QED
          BY <5>1, CountedMore
      <4>4. UpTo(dots, i) >= k
        BY ONLY <4>2, <4>3
      <4> QED
        BY ONLY <3>1, <3>4, <4>4, k \in Nat
    <3> QED
      BY <3>1, <3>2, <3>3, <3>4, <2>4, <1>9
  <2>7. {i \in digits : UpTo(dots, i) = k - 1} = {i \in digits : loc <= i /\ i <= to}
    BY <2>6
  <2>8. Number(DigitsOnly(SubSeq(version, loc, to))) = Component(version, k)
    BY <1>1, <1>3, <1>6, <1>9, <2>4, <2>7, PieceValue
  <2>9. CASE new = NPos
    <3>2. ExtractVersion(version, loc)
            = [value |-> Number(DigitsOnly(SubSeq(version, loc, to))), loc |-> NPos]
      BY <1>1, <2>0, <2>1, <2>2, <2>9 DEF ExtractVersion
    <3>3. \A i \in digits : UpTo(dots, i) < (k + 1) - 1
      <4>1. \A i \in digits : i <= to
        BY <1>4, <2>2, <2>9
      <4> QED
        BY <2>6, <4>1
    <3>4. At(version, NPos, k + 1)
      BY <1>1, <1>2, <1>3, <3>3 DEF At, NPos
    <3> QED
      BY <2>8, <3>2, <3>4
  <2>10. CASE new # NPos
    <3>2. ExtractVersion(version, loc)
            = [value |-> Number(DigitsOnly(SubSeq(version, loc, to))), loc |-> new + 1]
      BY <1>1, <2>0, <2>1, <2>2, <2>10 DEF ExtractVersion
    <3>3. new \in dots /\ new \in 1..n /\ to = new - 1 /\ to \in Nat
      BY <2>a, <2>10, <1>4, <1>9
    <3>4. UpTo(dots, new) = k
      BY <2>a, <2>10
    <3>5. ASSUME NEW i \in digits, new + 1 = NPos \/ new + 1 > n \/ i < new + 1
          PROVE  UpTo(dots, i) < (k + 1) - 1
      <4>1. i # new /\ i \in 1..n
        BY <3>3, <1>4
      <4>2. i <= to
        <5>1. new + 1 # NPos
          BY <3>3 DEF NPos
        <5>2. new + 1 > n => new = n
          BY <3>3, <1>4
        <5> QED
          BY ONLY <1>4, <3>3, <3>5, <4>1, <5>1, <5>2
      <4> QED
        BY <2>6, <4>2
    <3>6. (new + 1) - 1 = new /\ (k + 1) - 1 = k /\ new + 1 \in Nat
      BY <3>3
    <3>7. At(version, new + 1, k + 1)
      BY <1>1, <1>2, <1>3, <3>4, <3>5, <3>6 DEF At
    <3> QED
      BY <2>8, <3>2, <3>7
  <2> QED
    BY <2>9, <2>10
<1> QED
  BY <1>4, <1>8, <1>9 DEF NPos

(* The release number the chip is told is the one the release states.      *)
THEOREM ReleaseRight ==
  ASSUME NEW version \in Seq(Characters)
  PROVE  VersionToUint32(version) = ReleaseOf(version)
<1>1. At(version, 1, 1)
  <2>1. Len(version) > 0 \/ Len(version) = 0
    OBVIOUS
  <2>2. \A i \in DigitPositions(version) : i \in Nat /\ i >= 1 /\ i <= Len(version)
    BY DEF DigitPositions
  <2>3. UpTo(Dots(version), 1 - 1) = 0
    BY Counted1
  <2> QED
    BY <2>1, <2>2, <2>3 DEF At, NPos
<1>2. PICK major : major = ExtractVersion(version, 1)
  OBVIOUS
<1>3. PICK minor : minor = ExtractVersion(version, major.loc)
  OBVIOUS
<1>4. PICK subminor : subminor = ExtractVersion(version, minor.loc)
  OBVIOUS
<1>5. major.value = Component(version, 1) /\ At(version, major.loc, 1 + 1)
  BY <1>1, <1>2, ExtractRight
<1>6. minor.value = Component(version, 2) /\ At(version, minor.loc, 2 + 1)
  BY <1>3, <1>5, ExtractRight
<1>7. subminor.value = Component(version, 3)
  BY <1>4, <1>6, ExtractRight
<1>8. VersionToUint32(version) = major.value * 10000 + minor.value * 100 + subminor.value
  BY <1>2, <1>3, <1>4 DEF VersionToUint32
<1>9. ASSUME NEW k PROVE Component(version, k) \in Nat
  BY ValueIsNumber DEF Component
<1> QED
  BY <1>5, <1>6, <1>7, <1>8, <1>9 DEF ReleaseOf
-----------------------------------------------------------------------------
(* Six digits are a month; what one or two more make is the day.           *)
LEMMA MonthAndDay ==
  ASSUME NEW code \in Seq(Characters), NEW r, r = Cardinality(DigitPositions(code))
  PROVE  /\ MonthOf(code) \in Nat /\ DayOf(code) \in Nat
         /\ r = 6 => ValueAt(code, DigitPositions(code)) = MonthOf(code) /\ DayOf(code) = 0
         /\ r = 8 => /\ ValueAt(code, DigitPositions(code)) = 100 * MonthOf(code) + DayOf(code)
                     /\ DayOf(code) < 100
<1>1. PICK n : n = Len(code)
  OBVIOUS
<1>2. PICK digits : digits = DigitPositions(code)
  OBVIOUS
<1>3. PICK early : early = {i \in digits : UpTo(digits, i - 1) < 6}
  OBVIOUS
<1>4. PICK late : late = {i \in digits : UpTo(digits, i - 1) >= 6}
  OBVIOUS
<1>5. n \in Nat /\ n \in 0..n /\ digits = {i \in 1..n : code[i] \in Digits}
  BY <1>1, <1>2 DEF DigitPositions
<1>a. n \in Nat
  BY <1>5
<1>6. MonthOf(code) = ValueAt(code, early) /\ DayOf(code) = ValueAt(code, late)
  <2>1. ASSUME NEW i \in digits
        PROVE  Cardinality({j \in digits : j < i}) = UpTo(digits, i - 1)
    <3>1. {j \in digits : j < i} = digits \cap 1..(i - 1)
      BY <1>5
    <3> QED
      BY <3>1 DEF UpTo
  <2>2. /\ {i \in digits : Cardinality({j \in digits : j < i}) < 6} = early
        /\ {i \in digits : Cardinality({j \in digits : j < i}) >= 6} = late
    BY <2>1, <1>3, <1>4
  <2> QED
    BY <2>2, <1>2 DEF MonthOf, DayOf
<1>7. PICK value : Values(value, code, digits, n) /\ ValueAt(code, digits) = value[n]
  BY ONLY <1>1, <1>a, ValueSteps
<1>8. PICK month : Values(month, code, early, n) /\ ValueAt(code, early) = month[n]
  BY ONLY <1>1, <1>a, ValueSteps
<1>9. PICK day : Values(day, code, late, n) /\ ValueAt(code, late) = day[n]
  BY ONLY <1>1, <1>a, ValueSteps
<1> DEFINE S == {i \in 0..n :
                   /\ month[i] \in Nat /\ day[i] \in Nat
                   /\ UpTo(digits, i) <= 6 => value[i] = month[i] /\ day[i] = 0
                   /\ UpTo(digits, i) = 7 => value[i] = 10 * month[i] + day[i] /\ day[i] < 10
                   /\ UpTo(digits, i) = 8 => value[i] = 100 * month[i] + day[i] /\ day[i] < 100}
<1>10. 0 \in S
  <2>1. value[0] = 0 /\ month[0] = 0 /\ day[0] = 0
    BY <1>7, <1>8, <1>9 DEF Values
  <2>2. UpTo(digits, 0) = 0
    BY Counted1
  <2> QED
    BY <1>5, <2>1, <2>2
<1>11. ASSUME NEW i \in 1..n, i - 1 \in S PROVE i \in S
  <2>1. PICK j : j = i - 1
    OBVIOUS
  <2>2. j \in Nat /\ j + 1 = i
    BY <2>1, <1>5
  <2>3. PICK before : before = UpTo(digits, j)
    OBVIOUS
  <2>4. before \in Nat
    BY <2>2, <2>3, Counted1
  <2>5. /\ month[j] \in Nat /\ day[j] \in Nat
        /\ before <= 6 => value[j] = month[j] /\ day[j] = 0
        /\ before = 7 => value[j] = 10 * month[j] + day[j] /\ day[j] < 10
        /\ before = 8 => value[j] = 100 * month[j] + day[j] /\ day[j] < 100
    BY <1>11, <2>1, <2>3
  <2>6. CASE i \notin digits
    <3>1. i \notin early /\ i \notin late
      BY <2>6, <1>3, <1>4
    <3>2. value[i] = value[j] /\ month[i] = month[j] /\ day[i] = day[j]
      BY <2>1, <2>6, <3>1, <1>7, <1>8, <1>9 DEF Values
    <3>3. UpTo(digits, i) = before
      BY <2>2, <2>3, <2>6, Counted1
    <3> QED
      BY <2>5, <3>2, <3>3
  <2>7. CASE i \in digits
    <3>1. PICK c : c = code[i]
      OBVIOUS
    <3>2. c \in 0..9
      BY <2>7, <3>1, <1>5 DEF Digits
    <3>3. UpTo(digits, i) = before + 1
      BY <2>2, <2>3, <2>7, Counted1
    <3>4. value[i] = 10 * value[j] + c
      BY <2>1, <2>7, <3>1, <1>7 DEF Values
    <3>5. CASE before < 6
      <4>1. i \in early /\ i \notin late
        BY <2>1, <2>3, <2>4, <2>7, <3>5, <1>3, <1>4
      <4>2. month[i] = 10 * month[j] + c /\ day[i] = day[j]
        BY <2>1, <3>1, <4>1, <1>8, <1>9 DEF Values
      <4>3. value[i] = month[i] /\ day[i] = 0 /\ month[i] \in Nat
        BY ONLY <2>4, <2>5, <3>2, <3>4, <3>5, <4>2
      <4>4. UpTo(digits, i) <= 6 /\ UpTo(digits, i) # 7 /\ UpTo(digits, i) # 8
        BY ONLY <2>4, <3>3, <3>5
      <4> QED
        BY <4>3, <4>4
    <3>6. CASE ~ (before < 6)
      <4>1. i \notin early /\ i \in late
        BY <2>1, <2>3, <2>4, <2>7, <3>6, <1>3, <1>4
      <4>2. month[i] = month[j] /\ day[i] = 10 * day[j] + c
        BY <2>1, <3>1, <4>1, <1>8, <1>9 DEF Values
      <4>a. month[i] \in Nat /\ day[i] \in Nat
        BY ONLY <2>5, <3>2, <4>2
      <4>3. /\ before = 6 => value[i] = 10 * month[i] + day[i] /\ day[i] < 10
            /\ before = 7 => value[i] = 100 * month[i] + day[i] /\ day[i] < 100
        <5>1. CASE before = 6
          <6>1. value[j] = month[j] /\ day[j] = 0
            BY ONLY <5>1, <2>5
          <6>2. day[i] = c /\ day[i] < 10
            BY ONLY <6>1, <3>2, <4>2
          <6>3. value[i] = 10 * month[i] + day[i]
            BY ONLY <6>1, <6>2, <3>4, <4>2
          <6> QED
            BY ONLY <5>1, <6>2, <6>3
        <5>2. CASE before = 7
          <6>1. /\ value[j] = 10 * month[j] + day[j] /\ day[j] < 10
                /\ month[j] \in Nat /\ day[j] \in Nat
            BY ONLY <5>2, <2>5
          <6>2. day[i] = 10 * day[j] + c /\ day[i] < 100
            BY ONLY <6>1, <3>2, <4>2
          <6>3. value[i] = 100 * month[i] + day[i]
            BY ONLY <6>1, <6>2, <3>2, <3>4, <4>2
          <6> QED
            BY ONLY <5>2, <6>2, <6>3
        <5> QED
          BY ONLY <5>1, <5>2
      <4>4. /\ ~ (UpTo(digits, i) <= 6)
            /\ UpTo(digits, i) = 7 => before = 6
            /\ UpTo(digits, i) = 8 => before = 7
        BY ONLY <2>4, <3>3, <3>6
      <4> QED
        BY <4>a, <4>3, <4>4
    <3> QED
      BY <3>5, <3>6
  <2> QED
    BY <2>6, <2>7
<1>12. 0..n \subseteq S
  <2> HIDE DEF S
  <2> QED
    BY <1>5, <1>10, <1>11, PositionInduction
<1>13. n \in S
  <2> HIDE DEF S
  <2> QED
    BY <1>5, <1>12
<1>14. UpTo(digits, n) = r
  <2>1. digits \cap 1..n = digits
    BY <1>5
  <2> QED
    BY <2>1, <1>2 DEF UpTo
<1> QED
  BY <1>2, <1>6, <1>7, <1>8, <1>9, <1>13, <1>14

(* The patch levels the chip is told are the dates' months and days, and   *)
(* nothing for what is no date.                                            *)
THEOREM DateRight ==
  ASSUME NEW code \in Seq(Characters)
  PROVE  /\ DateCodeToUint32(code, FALSE) = IF IsDate(code) THEN MonthOf(code) ELSE 0
         /\ DateCodeToUint32(code, TRUE)
              = IF IsDate(code) THEN 100 * MonthOf(code) + DayOf(code) ELSE 0
<1>1. PICK r : r = Cardinality(DigitPositions(code))
  OBVIOUS
<1>2. PICK month : month = MonthOf(code)
  OBVIOUS
<1>3. PICK day : day = DayOf(code)
  OBVIOUS
<1>4. PICK value : value = Number(DigitsOnly(code))
  OBVIOUS
<1>5. value = ValueAt(code, DigitPositions(code)) /\ Len(DigitsOnly(code)) = r
  BY <1>1, <1>4, KeptDigits
<1>6. /\ month \in Nat /\ day \in Nat
      /\ r = 6 => value = month /\ day = 0
      /\ r = 8 => value = 100 * month + day /\ day < 100
  BY <1>1, <1>2, <1>3, <1>5, MonthAndDay
<1>7. IsDate(code) <=> r \in {6, 8}
  BY <1>1 DEF IsDate
<1>8. DateCodeToUint32(code, FALSE) = IF r = 8 THEN value \div 100 ELSE IF r = 6 THEN value ELSE 0
  BY <1>4, <1>5 DEF DateCodeToUint32
<1>9. DateCodeToUint32(code, TRUE) = IF r = 8 THEN value ELSE IF r = 6 THEN value * 100 ELSE 0
  BY <1>4, <1>5 DEF DateCodeToUint32
<1>10. r = 8 => value \div 100 = month
  BY ONLY <1>6
<1>11. r = 6 => value * 100 = 100 * month + day
  BY ONLY <1>6
<1> QED
  BY <1>2, <1>3, <1>6, <1>7, <1>8, <1>9, <1>10, <1>11
-----------------------------------------------------------------------------
(* The constructor: no step is skipped, so once a process is past telling  *)
(* the chip its versions, a chip that knows none has an excuse.            *)
ToldInv ==
  /\ told \subseteq {VersionInfo}
  /\ pc \in {"GetBootInfo", "register", "idle", "call"} /\ told = {} =>
       excuse \in {"refused", "lost", "reset"}
  /\ properties["ro.build.version.release"] \in Releases
  /\ properties["ro.build.version.security_patch"] \in PatchDates
  /\ properties["ro.vendor.build.security_patch"] \in PatchDates

LEMMA NextTold ==
  ASSUME ToldInv, [Next]_vars
  PROVE  ToldInv'
<1>0. VersionInfo' = VersionInfo /\ properties' = properties
  <2>1. properties' = properties
    BY DEF Next, vars, HalSteps, CreateProperty, PropertiesCreated, SendSystemVersionInfo,
       GetBootInfo, RegisterAsService, HalDies, ChipResets, Call, GetHardwareInfo,
       VerifyAuthorization, UpgradeKeyRejects, AddRngEntropyEnds, AnswersAlone, OneMessage,
       AddRngEntropyChunk
  <2> QED
    BY <2>1 DEF VersionInfo
<1>1. CASE UNCHANGED vars \/ \E p \in Properties : CreateProperty(p)
  BY <1>0, <1>1 DEF ToldInv, vars, CreateProperty
<1>2. CASE PropertiesCreated \/ RegisterAsService
  BY <1>0, <1>2 DEF ToldInv, PropertiesCreated, RegisterAsService
<1>3. CASE SendSystemVersionInfo
  <2>1. PICK outcome \in Outcomes :
          /\ told' = IF outcome.done THEN {VersionInfo} ELSE told
          /\ excuse' = IF outcome.done THEN "none"
                       ELSE IF outcome \in Refused THEN "refused" ELSE "lost"
    BY <1>3 DEF SendSystemVersionInfo
  <2>2. told' \subseteq {VersionInfo}
    BY <2>1 DEF ToldInv
  <2>3. told' = {} => excuse' \in {"refused", "lost", "reset"}
    BY <2>1
  <2> QED
    BY <1>0, <2>2, <2>3 DEF ToldInv
<1>4. CASE GetBootInfo
  <2>1. told' = told /\ excuse' = excuse /\ pc = "GetBootInfo"
    BY <1>4 DEF GetBootInfo
  <2> QED
    BY <1>0, <2>1 DEF ToldInv
<1>5. CASE GetHardwareInfo \/ VerifyAuthorization \/ UpgradeKeyRejects \/ AddRngEntropyEnds
  BY <1>0, <1>5 DEF ToldInv, GetHardwareInfo, VerifyAuthorization, UpgradeKeyRejects,
     AddRngEntropyEnds, AnswersAlone
<1>6. CASE OneMessage \/ AddRngEntropyChunk
  <2>1. told' = told /\ excuse' = excuse /\ pc = "call"
    BY <1>6 DEF OneMessage, AddRngEntropyChunk
  <2> QED
    BY <1>0, <2>1 DEF ToldInv
<1>7. CASE \E r \in Requests : Call(r)
  BY <1>0, <1>7 DEF ToldInv, Call
<1>8. CASE HalDies
  BY <1>0, <1>8 DEF ToldInv, HalDies
<1>9. CASE ChipResets
  BY <1>0, <1>9 DEF ToldInv, ChipResets
<1> QED
  BY <1>1, <1>2, <1>3, <1>4, <1>5, <1>6, <1>7, <1>8, <1>9 DEF Next, HalSteps

LEMMA InitTold == Init => ToldInv
<1> SUFFICES ASSUME Init PROVE ToldInv
  OBVIOUS
<1>1. PICK release \in Releases, os \in PatchDates, vendor \in PatchDates :
        properties = [p \in Properties |->
          CASE p = "ro.build.version.release" -> release
            [] p = "ro.build.version.security_patch" -> os
            [] OTHER -> vendor]
  BY DEF Init
<1>2. /\ properties["ro.build.version.release"] = release
      /\ properties["ro.build.version.security_patch"] = os
      /\ properties["ro.vendor.build.security_patch"] = vendor
  BY <1>1 DEF Properties
<1>3. told \subseteq {VersionInfo} /\ pc = "wait"
  BY DEF Init
<1> QED
  BY <1>2, <1>3 DEF ToldInv

(* What the HAL makes of the properties is what they say.                  *)
LEMMA InfoRight ==
  ASSUME ToldInv
  PROVE  VersionInfo = Expected
<1>1. PICK release : release = properties["ro.build.version.release"]
  OBVIOUS
<1>2. PICK os : os = properties["ro.build.version.security_patch"]
  OBVIOUS
<1>3. PICK vendor : vendor = properties["ro.vendor.build.security_patch"]
  OBVIOUS
<1>4. release \in Seq(Characters) /\ os \in Seq(Characters) /\ vendor \in Seq(Characters)
  BY <1>1, <1>2, <1>3, PropertiesAssumption DEF ToldInv
<1>5. VersionToUint32(release) = ReleaseOf(release)
  BY <1>4, ReleaseRight
<1>6. DateCodeToUint32(os, FALSE) = IF IsDate(os) THEN MonthOf(os) ELSE 0
  BY <1>4, DateRight
<1>7. DateCodeToUint32(vendor, TRUE)
        = IF IsDate(vendor) THEN 100 * MonthOf(vendor) + DayOf(vendor) ELSE 0
  BY <1>4, DateRight
<1> QED
  BY <1>1, <1>2, <1>3, <1>5, <1>6, <1>7 DEF VersionInfo, Expected

(* Whatever the format of the system's properties, the chip is told the    *)
(* release, the month and the day they state, and never anything else; and *)
(* the HAL serves with a chip that knows none only if the chip refused     *)
(* what this process told it, the message was lost, or it was reset since. *)
THEOREM VersionsAreTold == Spec => []VersionsTold
<1>1. ToldInv => VersionsTold
  BY InfoRight DEF ToldInv, VersionsTold
<1> QED
  BY <1>1, InitTold, NextTold, PTL DEF Spec
=============================================================================
