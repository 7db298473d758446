--------------------------- MODULE KeymasterCalls ---------------------------
(***************************************************************************)
(* The start of the Keymaster HAL and its calls that use no operation: the *)
(* process waits for the system's version properties, tells them to the    *)
(* chip, registers, and then serves one call at a time on its one thread.  *)
(* Each call sends the chip a message or more and makes an answer of what  *)
(* comes back.                                                             *)
(***************************************************************************)
EXTENDS Integers, KeyParams, SystemVersion

CONSTANTS Releases,     (* what ro.build.version.release may be *)
          PatchDates,   (* what the two patch level properties may be *)
          PublicKeys,   (* what the chip may answer to ExportKey *)
          ParamLists,   (* the parameters given to upgradeKey *)
          Sharing,      (* the lists given to computeSharedHmac *)
          Refusals,     (* the error codes the chip may refuse with *)
          ChunkSize,    (* bytes in one AddRngEntropy message: 1024 in the code *)
          MaxData,      (* bound: bytes given to addRngEntropy *)
          MaxCalls,     (* bound: calls of the clients *)
          MaxFaults     (* bound: lost messages, resets and deaths *)

(* At longer numbers std::stoi throws, or the result's 32 bits overflow.   *)
ASSUME PropertiesAssumption ==
  /\ Releases \cup PatchDates \subseteq Seq(Characters)
  /\ \A release \in Releases : ReleaseOf(release) <= 2147483647

ASSUME ChunkAssumption == ChunkSize \in Nat \ {0}
ASSUME RefusalAssumption == "OK" \notin Refusals
ASSUME BoundsAssumption == MaxData \in Nat /\ MaxCalls \in Nat /\ MaxFaults \in Nat

Properties == {"ro.build.version.release", "ro.build.version.security_patch",
               "ro.vendor.build.security_patch"}

VARIABLES
  properties,   (* the values the system gives its properties *)
  created,      (* which of them exist by now *)
  pc,           (* where the HAL's thread is *)
  request,      (* the call it works on *)
  offset,       (* addRngEntropy's loop variable *)
  answer,       (* of the last call *)
  told,         (* the chip: the versions it was told, if any *)
  excuse,       (* history: what came between the chip and what this process told it *)
  executed,     (* history: what the chip did for this call, and whether the HAL heard *)
  pool,         (* history: the chunks of this call the chip has mixed in *)
  calls, faults

vars == <<properties, created, pc, request, offset, answer, told, excuse, executed, pool, calls, faults>>

NoRequest == [method |-> "none"]
NoAnswer == [method |-> "none", error |-> "none", value |-> {}]

Plain == {"getHmacSharingParameters", "deleteKey", "deleteAllKeys", "destroyAttestationIds"}
Local == {"getHardwareInfo", "verifyAuthorization"}

Requests ==
  {[method |-> m] : m \in Plain \cup Local}
    \cup {[method |-> "computeSharedHmac", params |-> s] : s \in Sharing}
    \cup {[method |-> "upgradeKey", params |-> p] : p \in ParamLists}
    \cup {[method |-> "exportKey", key |-> k] : k \in PublicKeys}
    \cup {[method |-> "addRngEntropy", size |-> n] : n \in 0..MaxData}

Init ==
  /\ properties \in {[p \in Properties |->
       CASE p = "ro.build.version.release" -> r
         [] p = "ro.build.version.security_patch" -> os
         [] OTHER -> vendor] : r \in Releases, os \in PatchDates, vendor \in PatchDates}
  /\ created = {}
  /\ pc = "wait"
  /\ request = NoRequest
  /\ offset = 0
  /\ answer = NoAnswer
  /\ told = {}
  /\ excuse = "none"
  /\ executed = {}
  /\ pool = <<>>
  /\ calls = 0
  /\ faults = 0
-----------------------------------------------------------------------------
(* What an exchange with the chip comes to: whether it did what it was     *)
(* asked, the status of the call and the error code in the response, OK    *)
(* unless a response came that says otherwise.                             *)
Statuses == {"BOGUS_ARGS", "INTERNAL", "TOO_MUCH", "RPC", "IO"}

Answered == [done |-> TRUE, status |-> "SUCCESS", error |-> "OK"]
Refused == {[done |-> FALSE, status |-> "SUCCESS", error |-> e] : e \in Refusals}
Failed == {[done |-> d, status |-> s, error |-> "OK"] : d \in BOOLEAN, s \in Statuses}

Outcomes == {Answered} \cup Refused \cup Failed

StatusToErrorCode(status) ==
  CASE status = "SUCCESS" -> "OK"
    [] status = "BOGUS_ARGS" -> "INVALID_ARGUMENT"
    [] status = "TOO_MUCH" -> "INSUFFICIENT_BUFFER_SPACE"
    [] status = "RPC" -> "SECURE_HW_COMMUNICATION_FAILED"
    [] OTHER -> "UNKNOWN_ERROR"

(* Mutant: only the response's error code is looked at. *)
KmCallNoStatus(outcome) == TranslateErrorCode(outcome.error)

KmCall(outcome) ==
  IF outcome.status # "SUCCESS" THEN StatusToErrorCode(outcome.status)
  ELSE TranslateErrorCode(outcome.error)

(* A failed exchange is one of the bounded faults. *)
Counted(outcome) ==
  /\ outcome \in Failed => faults < MaxFaults
  /\ faults' = IF outcome \in Failed THEN faults + 1 ELSE faults
-----------------------------------------------------------------------------
(* The system creates its properties one by one, in any order. *)
CreateProperty(p) ==
  /\ p \notin created
  /\ created' = created \cup {p}
  /\ UNCHANGED <<properties, pc, request, offset, answer, told, excuse, executed, pool, calls, faults>>

(* The constructor goes on when all of them are there ... *)
PropertiesCreated ==
  /\ pc = "wait"
  /\ created = Properties
  /\ pc' = "SetSystemVersionInfo"
  /\ UNCHANGED <<properties, created, request, offset, answer, told, excuse, executed, pool, calls, faults>>

VersionInfo ==
  [system_version |-> VersionToUint32(properties["ro.build.version.release"]),
   system_security_level |-> DateCodeToUint32(properties["ro.build.version.security_patch"], FALSE),
   vendor_security_level |-> DateCodeToUint32(properties["ro.vendor.build.security_patch"], TRUE)]

(* ... sends their values, and looks at no result. *)
SendSystemVersionInfo ==
  /\ pc = "SetSystemVersionInfo"
  /\ \E outcome \in Outcomes :
       /\ Counted(outcome)
       /\ told' = IF outcome.done THEN {VersionInfo} ELSE told
       /\ excuse' = IF outcome.done THEN "none" ELSE IF outcome \in Refused THEN "refused" ELSE "lost"
       /\ pc' = "GetBootInfo"
  /\ UNCHANGED <<properties, created, request, offset, answer, executed, pool, calls>>

(* Nothing reads what is kept of the boot information. *)
GetBootInfo ==
  /\ pc = "GetBootInfo"
  /\ \E outcome \in Outcomes : Counted(outcome)
  /\ pc' = "register"
  /\ UNCHANGED <<properties, created, request, offset, answer, told, excuse, executed, pool, calls>>

RegisterAsService ==
  /\ pc = "register"
  /\ pc' = "idle"
  /\ UNCHANGED <<properties, created, request, offset, answer, told, excuse, executed, pool, calls, faults>>

(* citadeld cannot be reached, the registration fails, or the process is   *)
(* killed: init starts it again.                                           *)
HalDies ==
  /\ faults < MaxFaults
  /\ faults' = faults + 1
  /\ pc' = "wait"
  /\ request' = NoRequest
  /\ offset' = 0
  /\ answer' = NoAnswer
  /\ executed' = {}
  /\ pool' = <<>>
  /\ excuse' = "none"
  /\ UNCHANGED <<properties, created, told, calls>>

(* What the chip keeps of the versions through a reset is its own affair.  *)
ChipResets ==
  /\ faults < MaxFaults
  /\ faults' = faults + 1
  /\ told' \in {told, {}}
  /\ excuse' = IF pc \in {"wait", "SetSystemVersionInfo"} THEN excuse ELSE "reset"
  /\ UNCHANGED <<properties, created, pc, request, offset, answer, executed, pool, calls>>
-----------------------------------------------------------------------------
Answer(error, value) ==
  /\ answer' = [method |-> request.method, error |-> error, value |-> value]
  /\ pc' = "idle"

Call(r) ==
  /\ pc = "idle"
  /\ calls < MaxCalls
  /\ calls' = calls + 1
  /\ pc' = "call"
  /\ request' = r
  /\ offset' = 0
  /\ answer' = NoAnswer
  /\ executed' = {}
  /\ pool' = <<>>
  /\ UNCHANGED <<properties, created, told, excuse, faults>>

(* Answers that need no chip. *)
AnswersAlone(r, error, value) ==
  /\ pc = "call"
  /\ request = r
  /\ Answer(error, value)
  /\ UNCHANGED <<properties, created, request, offset, told, excuse, executed, pool, calls, faults>>

GetHardwareInfo == AnswersAlone([method |-> "getHardwareInfo"], "OK", {"STRONGBOX"})

VerifyAuthorization == AnswersAlone([method |-> "verifyAuthorization"], "UNIMPLEMENTED", {})

(* What the chip may reply to a request: the sizes are as they come.       *)
Replies(r) ==
  CASE r.method = "getHmacSharingParameters" -> [seed : {0, 16, 32}, nonce : {16, 32}]
    [] r.method = "computeSharedHmac" -> {[sharing_check |-> r.params]}
    [] r.method = "exportKey" -> {r.key}
    [] r.method = "upgradeKey" -> {[blob |-> "upgraded", params |-> HidlParamsToPb(r.params)]}
    [] OTHER -> {[empty |-> TRUE]}

NidOf == [P_224 |-> "secp224r1", P_256 |-> "X9_62_prime256v1",
          P_384 |-> "secp384r1", P_521 |-> "secp521r1"]

(* Mutant: two cases of the switch are the wrong way round. *)
CurveNidSwapped(curve) ==
  [NidOf EXCEPT !.P_224 = "X9_62_prime256v1", !.P_256 = "secp224r1"][curve]

CurveNid(curve) == NidOf[curve]

(* BoringSSL takes a point only on its curve. *)
IsOnCurve(key, nid) == key.on = nid

(* What a call answers; the DER of a key names its kind and its number.    *)
Gives(error, value) == [error |-> error, value |-> value]

ExportKeyDer(key) ==
  IF key.algorithm = "RSA" THEN Gives("OK", {[kind |-> "RSA", number |-> key.number]})
  ELSE IF key.curve \notin DOMAIN EnumFromPb.EC_CURVE THEN Gives("UNKNOWN_ERROR", {})
  ELSE LET nid == CurveNid(EnumFromPb.EC_CURVE[key.curve])
       IN IF IsOnCurve(key, nid) THEN Gives("OK", {[kind |-> nid, number |-> key.number]})
          ELSE Gives("UNKNOWN_ERROR", {})

(* What the call makes of a response that says OK. *)
Result(r, reply) ==
  CASE r.method = "getHmacSharingParameters" ->
         IF reply.seed \in {0, 32} /\ reply.nonce = 32
         THEN Gives("OK", {reply}) ELSE Gives("UNKNOWN_ERROR", {})
    [] r.method = "exportKey" -> ExportKeyDer(reply)
    [] r.method \in {"computeSharedHmac", "upgradeKey"} -> Gives("OK", {reply})
    [] OTHER -> Gives("OK", {})

(* Calls that are one exchange with the chip. *)
OneMessage ==
  /\ pc = "call"
  /\ request.method \in Plain \cup {"computeSharedHmac", "upgradeKey", "exportKey"}
  /\ request.method = "upgradeKey" => Succeeds(HidlParamsToPb(request.params))
  /\ \E outcome \in Outcomes, reply \in Replies(request) :
       /\ Counted(outcome)
       /\ executed' = IF outcome.done
                      THEN {[reply |-> reply, heard |-> outcome.status = "SUCCESS"]} ELSE {}
       /\ IF KmCall(outcome) = "OK"
          THEN Answer(Result(request, reply).error, Result(request, reply).value)
          ELSE Answer(KmCall(outcome), {})
  /\ UNCHANGED <<properties, created, request, offset, told, excuse, pool, calls>>

(* Parameters that do not translate are not sent. *)
UpgradeKeyRejects ==
  /\ request.method = "upgradeKey"
  /\ ~ Succeeds(HidlParamsToPb(request.params))
  /\ AnswersAlone(request, "INVALID_ARGUMENT", {})

(* Mutant: the last chunk is as long as the others. *)
ChunkWhole(size) == [from |-> offset, size |-> ChunkSize]

(* The part of the client's bytes the next message carries. *)
Chunk(size) ==
  [from |-> offset, size |-> IF size - offset < ChunkSize THEN size - offset ELSE ChunkSize]

(* Mutant: the loop waits for the offset to meet the size. *)
AddRngEntropyEndsExactly ==
  /\ request.method = "addRngEntropy"
  /\ offset = request.size
  /\ AnswersAlone(request, "OK", {})

(* The loop of addRngEntropy ends (at once, when there are no bytes) ... *)
AddRngEntropyEnds ==
  /\ request.method = "addRngEntropy"
  /\ offset >= request.size
  /\ AnswersAlone(request, "OK", {})

(* ... or sends another chunk, and the call fails if that does. *)
AddRngEntropyChunk ==
  /\ pc = "call"
  /\ request.method = "addRngEntropy"
  /\ offset < request.size
  /\ \E outcome \in Outcomes :
       /\ Counted(outcome)
       /\ pool' = IF outcome.done THEN Append(pool, Chunk(request.size)) ELSE pool
       /\ IF KmCall(outcome) = "OK"
          THEN /\ offset' = offset + ChunkSize
               /\ UNCHANGED <<pc, answer>>
          ELSE /\ Answer(KmCall(outcome), {})
               /\ UNCHANGED offset
  /\ UNCHANGED <<properties, created, request, told, excuse, executed, calls>>
-----------------------------------------------------------------------------
HalSteps ==
  \/ PropertiesCreated \/ SendSystemVersionInfo \/ GetBootInfo \/ RegisterAsService
  \/ GetHardwareInfo \/ VerifyAuthorization \/ OneMessage \/ UpgradeKeyRejects
  \/ AddRngEntropyEnds \/ AddRngEntropyChunk

Next ==
  \/ \E p \in Properties : CreateProperty(p)
  \/ HalSteps
  \/ \E r \in Requests : Call(r)
  \/ HalDies
  \/ ChipResets

Spec == Init /\ [][Next]_vars

(* init creates every property, the HAL's thread runs, and citadeld gives  *)
(* every call an answer or an error.                                       *)
FairSpec ==
  /\ Spec
  /\ \A p \in Properties : WF_vars(CreateProperty(p))
  /\ WF_vars(HalSteps)
-----------------------------------------------------------------------------
OneMessageMethods == Plain \cup {"computeSharedHmac", "upgradeKey", "exportKey"}

TypeOK ==
  /\ created \subseteq Properties
  /\ pc \in {"wait", "SetSystemVersionInfo", "GetBootInfo", "register", "idle", "call"}
  /\ request \in Requests \cup {NoRequest}
  /\ offset \in Nat
  /\ answer.method \in {"none", request.method}
  /\ pc = "call" => request # NoRequest
  /\ pool \in Seq([from : Nat, size : Nat])
  /\ excuse \in {"none", "refused", "lost", "reset"}
  /\ calls \in Nat
  /\ faults \in Nat

(* A well-formed reply, in the words of the messages. *)
WellFormed(method, reply) ==
  CASE method = "getHmacSharingParameters" -> reply.seed \in {0, 32} /\ reply.nonce = 32
    [] method = "upgradeKey" -> Succeeds(reply.params)
    [] OTHER -> TRUE

(* A client is told OK exactly when the chip did what this call asks for,  *)
(* the HAL heard of it, and the reply had the sizes of its fields; what it *)
(* is given is that reply.  (KM_CALLV: the error code of a response that   *)
(* never came is OK.)                                                      *)
OkMeansDone ==
  answer.method \in OneMessageMethods \ {"exportKey"} =>
    /\ answer.error = "OK" <=>
         \E e \in executed : e.heard /\ WellFormed(answer.method, e.reply)
    /\ answer.error = "OK" /\ answer.value # {} =>
         \A e \in executed : answer.value = {e.reply}

(* The kind of key a curve's name in a message stands for (SEC 2). *)
StandardName == [P_224 |-> "secp224r1", P_256 |-> "X9_62_prime256v1",
                 P_384 |-> "secp384r1", P_521 |-> "secp521r1"]

(* exportKey gives the public key the chip sent, under its own name, and   *)
(* an error for one that is not on the curve it names, or names none.      *)
ExportsTheKey ==
  answer.method = "exportKey" =>
    LET Valid(k) == \/ k.algorithm = "RSA"
                    \/ k.curve \in DOMAIN StandardName /\ k.on = StandardName[k.curve]
        KindOf(k) == IF k.algorithm = "RSA" THEN "RSA" ELSE StandardName[k.curve]
    IN /\ answer.error = "OK" <=> \E e \in executed : e.heard /\ Valid(e.reply)
       /\ answer.error = "OK" =>
            \A e \in executed : answer.value = {[kind |-> KindOf(e.reply), number |-> e.reply.number]}

EndOf(chunk) == chunk.from + chunk.size

(* No chunk is too long for its message, and each starts where the one     *)
(* before it ends.                                                         *)
Tiled(chunks) ==
  \A i \in 1..Len(chunks) :
    /\ chunks[i].size \in 1..ChunkSize
    /\ chunks[i].from = IF i = 1 THEN 0 ELSE EndOf(chunks[i - 1])

Mixed(chunks) == IF chunks = <<>> THEN 0 ELSE EndOf(chunks[Len(chunks)])

(* The chip mixes in the client's bytes in order, none twice and none that *)
(* the client did not give, and all of them when the call says OK, however *)
(* it was cut into messages.                                               *)
EntropyInOrder ==
  /\ Tiled(pool)
  /\ request.method = "addRngEntropy" => Mixed(pool) <= request.size
  /\ answer.method = "addRngEntropy" /\ answer.error = "OK" => Mixed(pool) = request.size

Expected ==
  [system_version |-> ReleaseOf(properties["ro.build.version.release"]),
   system_security_level |->
     LET code == properties["ro.build.version.security_patch"]
     IN IF IsDate(code) THEN MonthOf(code) ELSE 0,
   vendor_security_level |->
     LET code == properties["ro.vendor.build.security_patch"]
     IN IF IsDate(code) THEN 100 * MonthOf(code) + DayOf(code) ELSE 0]

(* The chip binds keys to the versions the properties state, whatever      *)
(* their format; and the HAL serves with a chip that knows none only when  *)
(* the chip refused what this process told it, the message was lost, or    *)
(* the chip was reset since: the constructor sends them in each of its     *)
(* lives, and looks at no result (SendSystemVersionInfo).                  *)
VersionsTold ==
  /\ \A v \in told : v = Expected
  /\ pc \in {"register", "idle", "call"} /\ told = {} =>
       excuse \in {"refused", "lost", "reset"}

(* However often it dies, and whatever becomes of its first two messages,  *)
(* the service comes back, and every call ends.                            *)
Serves == []<>(pc = "idle")
=============================================================================
