----------------------------- MODULE AttestKey -----------------------------
(***************************************************************************)
(* attestKey (hals/keymaster/KeymasterDevice.cpp:638-914): a certificate   *)
(* for a key that the calls of KeyImport made.  The chip is asked for the  *)
(* key's characteristics and then, in an operation of its own, for three   *)
(* parts of the certificate; from the answer to the first until the end,   *)
(* whatever goes wrong aborts that operation.                              *)
(***************************************************************************)
EXTENDS KeyImport, DerLength, Integers, FiniteSets

CONSTANTS
  AttestParams,  \* the lists of parameters that clients attest with
  Handles,       \* external: the chip's operation handles
  Sizes,         \* external: of the certificate's first part
  MaxAttests,    \* bound: calls of attestKey
  MaxFaults      \* bound: answers lost, failed aborts, deaths and resets

ASSUME AttestKeyAssumption ==
  /\ IsFiniteSet(Handles) /\ Handles # {}
  /\ Sizes \subseteq Nat
  /\ MaxAttests \in Nat /\ MaxFaults \in Nat

VARIABLES
  pc,        \* the chip call that attestKey makes next, or "idle"
  handle,    \* operationHandle
  validity,  \* <<not_before, not_after>>
  parts,     \* the parts of the certificate so far: which, and of which call
  length,    \* their length
  attests,   \* history: calls of attestKey
  live,      \* external: handles of the chip's half-made certificates
  faults     \* history: faults

attestVars == <<pc, handle, validity, parts, length, attests, live, faults>>
allVars == <<vars, attestVars>>

(* "Batch cert expiry date" *)
BatchExpiry == "2028-05-23"

AttestInit ==
  /\ Init
  /\ pc = "idle"
  /\ handle = CHOOSE h \in Handles : TRUE
  /\ validity = <<0, 0>>
  /\ parts = << >>
  /\ length = 0
  /\ attests = 0
  /\ live = {}
  /\ faults = 0

Fault == faults < MaxFaults /\ faults' = faults + 1
NoFault == UNCHANGED faults

(* The answer to the client. *)
Return(code) == answer' = Fails(code)
-----------------------------------------------------------------------------
(* A key with an algorithm, as all that a chip makes. *)
Attestable ==
  \E i \in DOMAIN chip.tee : {j \in DOMAIN chip.tee : chip.tee[j].tag = "ALGORITHM"} = {i}

Attest(params) ==
  LET map == HidlParamsToMap(params) IN
  /\ pc = "idle"
  /\ attests < MaxAttests
  /\ Attestable
  /\ attests' = attests + 1
  /\ call' = [NoCall EXCEPT !.api = "attestKey", !.params = params]
  /\ parts' = << >> /\ length' = 0
  /\ \/ /\ ~ Succeeds(map)
        /\ Return("INVALID_ARGUMENT") /\ UNCHANGED pc
     \/ /\ Succeeds(map) /\ "ATTESTATION_APPLICATION_ID" \notin DOMAIN map.value
        /\ Return("ATTESTATION_APPLICATION_ID_MISSING") /\ UNCHANGED pc
     \/ /\ Succeeds(map) /\ "ATTESTATION_APPLICATION_ID" \in DOMAIN map.value
        /\ Return("no answer yet") /\ pc' = "characteristics"
  /\ UNCHANGED <<chip, handle, validity, live, faults>>

(* The code fills attest_tag_map with the characteristics, not char_tag_map*)
(* (:689), which it looks the dates up in.                                 *)
CharTagMap == << >>

DateOf(map, tag, otherwise) == IF tag \in DOMAIN map THEN map[tag][1].value ELSE otherwise

ValidityOf(map) ==
  <<DateOf(map, "ACTIVE_DATETIME", DateOf(map, "CREATION_DATETIME", 0)),
    DateOf(map, "USAGE_EXPIRE_DATETIME", BatchExpiry)>>

(* The chip refuses, or a message is lost, with nothing changed on the     *)
(* chip: counts as no fault, since nothing can be left behind.             *)
NoAnswer == NoFault

GetCharacteristics ==
  LET software == ListReported(chip.software)
      merged == HidlParamsToMap(call.params \o software)
      request == HidlParamsToPb(call.params)
  IN
  /\ pc = "characteristics"
  /\ \/ /\ Succeeds(merged) /\ Succeeds(request)
        /\ validity' = ValidityOf(CharTagMap)
        /\ pc' = "start"
        /\ NoFault /\ UNCHANGED answer
     \/ /\ ~ (Succeeds(merged) /\ Succeeds(request))
        /\ Return("INVALID_ARGUMENT") /\ pc' = "idle"
        /\ NoFault /\ UNCHANGED validity
     \/ /\ NoAnswer
        /\ Return("failed") /\ pc' = "idle"
        /\ UNCHANGED validity
  /\ UNCHANGED <<chip, call, handle, parts, length, attests, live>>

Part(name) == [part |-> name, call |-> attests]

AppIdSize(params) == DateOf(HidlParamsToMap(params).value, "ATTESTATION_APPLICATION_ID", 0)

(* The client gets the certificate in a message of Binder. *)
ASSUME CertificateAssumption ==
  \A params \in AttestParams, size \in Sizes :
    Succeeds(HidlParamsToMap(params)) =>
      AppIdSize(params) \in Nat /\ size + AppIdSize(params) + 2 \in Lengths

StartAttestKey ==
  /\ pc = "start"
  /\ \E h \in Handles \ live :
       \/ /\ handle' = h /\ live' = live \cup {h}
          /\ parts' = <<Part("prologue")>>
          /\ length' \in Sizes
          /\ pc' = "continue" /\ NoFault /\ UNCHANGED answer
       \/ /\ Fault /\ live' = live \cup {h}
          /\ Return("failed") /\ pc' = "idle"
          /\ UNCHANGED <<handle, parts, length>>
  /\ UNCHANGED <<chip, call, validity, attests>>

(* Refused, as for want of a handle, or lost. *)
StartFails ==
  /\ pc = "start"
  /\ NoAnswer
  /\ Return("failed") /\ pc' = "idle"
  /\ UNCHANGED <<chip, call, handle, validity, parts, length, attests, live>>

(* The other parts have a length of 1 here: only the sum matters. *)
Continued ==
  /\ handle \in live
  /\ parts' = parts \o <<Part("body")>>
  /\ length' = length + AppIdSize(call.params) + 1
  /\ UNCHANGED live

(* Mutant: the operation is forgotten. *)
Forgotten == pc' = "idle"

(* What the finalizer does. *)
Finalized == pc' = "abort"

(* Mutant: an error is taken for an answer. *)
ContinueAttestKeyUnchecked ==
  /\ pc = "continue"
  /\ \/ Continued /\ NoFault
     \/ UNCHANGED <<parts, length, live>> /\ NoAnswer
  /\ pc' = "finish"
  /\ UNCHANGED <<chip, call, answer, handle, validity, attests>>

ContinueAttestKey ==
  /\ pc = "continue"
  /\ \/ Continued /\ pc' = "finish" /\ NoFault /\ UNCHANGED answer
     \/ /\ UNCHANGED <<parts, length, live>> /\ NoAnswer
        /\ Return("failed") /\ Finalized
  /\ UNCHANGED <<chip, call, handle, validity, attests>>

(* Batch, intermediate and root certificates are found by the algorithm,   *)
(* if the characteristics could be translated; otherwise they are empty.   *)
AlgorithmsReported ==
  LET tee == ListReported(chip.tee)
  IN {tee[i].value : i \in {j \in DOMAIN tee : tee[j].tag = "ALGORITHM"}}

Cert(role, for, set) == [role |-> role, for |-> for, set |-> set]

(* The root of a set is that of both algorithms. *)
Chained(for, set) ==
  <<Cert("batch", for, set), Cert("intermediate", for, set), Cert("root", "both", set)>>

Empty == Cert("empty", "none", "none")

(* Mutant: the DEV set's RSA certificates are copied from its EC branch. *)
CertsForCopied(algorithm, fusing, nodelocked) ==
  IF nodelocked \/ fusing = "PROTO"
  THEN Chained(IF algorithm = "RSA" THEN "RSA" ELSE "EC", "TEST")
  ELSE IF fusing = "DVT" THEN Chained("EC", "DEV")
  ELSE Chained(IF algorithm = "RSA" THEN "RSA" ELSE "EC", "PROD")

CertsFor(algorithm, fusing, nodelocked) ==
  Chained(IF algorithm = "RSA" THEN "RSA" ELSE "EC",
          IF nodelocked \/ fusing = "PROTO" THEN "TEST"
          ELSE IF fusing = "DVT" THEN "DEV" ELSE "PROD")

ChainsOf(fusing, nodelocked) ==
  IF AlgorithmsReported = {} THEN {<<Empty, Empty, Empty>>}
  ELSE {CertsFor(algorithm, fusing, nodelocked) : algorithm \in AlgorithmsReported}

(* External: the key the chip signs with, that of its batch for the key's  *)
(* algorithm, or a test key where it can use none (comments at :731, :831).*)
SignerOf(fusing, nodelocked) ==
  [for |-> IF \E i \in DOMAIN chip.tee : chip.tee[i].tag = "ALGORITHM" /\ chip.tee[i].value = "RSA"
           THEN "RSA" ELSE "EC",
   set |-> IF nodelocked THEN "TEST" ELSE [PROTO |-> "TEST", DVT |-> "DEV", PVT |-> "PROD"][fusing]]

FinishAttestKey ==
  /\ pc = "finish"
  /\ \/ /\ handle \in live
        /\ live' = live \ {handle}
        /\ \E fusing \in {"PROTO", "DVT", "PVT"}, nodelocked \in BOOLEAN :
             \E chain \in ChainsOf(fusing, nodelocked) :
               answer' = Ok([parts  |-> parts \o <<Part("epilogue")>>,
                             header |-> Asn1EncodeLength(length + 1),
                             signer |-> SignerOf(fusing, nodelocked),
                             chain  |-> chain])
        /\ length' = length + 1
        /\ pc' = "idle" /\ NoFault
     \/ /\ \/ UNCHANGED live /\ NoAnswer
           \/ live' = live \ {handle} /\ Fault
        /\ Return("failed") /\ Finalized
        /\ UNCHANGED length
  /\ UNCHANGED <<chip, call, handle, validity, parts, attests>>

(* The finalizer calls abort(), after the client has its answer. *)
AbortOperation ==
  /\ pc = "abort"
  /\ \/ live' = live \ {handle} /\ NoFault
     \/ UNCHANGED live /\ Fault
  /\ pc' = "idle"
  /\ UNCHANGED <<vars, handle, validity, parts, length, attests>>
-----------------------------------------------------------------------------
ChipResets ==
  /\ pc # "idle"
  /\ Fault
  /\ live' = {}
  /\ UNCHANGED <<vars, pc, handle, validity, parts, length, attests>>

HalDies ==
  /\ pc # "idle"
  /\ Fault
  /\ pc' = "idle"
  /\ answer' = Fails("dead")
  /\ UNCHANGED <<chip, call, handle, validity, parts, length, attests, live>>

AttestSteps ==
  \/ GetCharacteristics \/ StartAttestKey \/ StartFails
  \/ ContinueAttestKey \/ FinishAttestKey \/ AbortOperation

AttestNext ==
  \/ pc = "idle" /\ attests = 0 /\ Next /\ UNCHANGED attestVars
  \/ \E params \in AttestParams : Attest(params)
  \/ AttestSteps
  \/ ChipResets \/ HalDies

AttestSpec == AttestInit /\ [][AttestNext]_allVars
-----------------------------------------------------------------------------
AttestTypeOK ==
  /\ pc \in {"idle", "characteristics", "start", "continue", "finish", "abort"}
  /\ handle \in Handles /\ live \subseteq Handles
  /\ attests \in Nat /\ faults \in Nat

(* attestKey in the middle of an operation on the chip. *)
Mine == IF pc \in {"continue", "finish", "abort"} THEN {handle} ELSE {}

(* Half-made certificates do not pile up on the chip: one that no call is  *)
(* working on has been lost to a fault of its own, never to an error the   *)
(* code handles (the finalizer, KeymasterDevice.cpp:754).                  *)
NothingLeftBehind == Cardinality(live \ Mine) <= faults

Attested == call.api = "attestKey" /\ Succeeds(answer)

(* A certificate that is returned has all its parts, in their order and of *)
(* this call, and its header tells its length.                             *)
CertificateWhole ==
  Attested => /\ answer.value.parts = <<Part("prologue"), Part("body"), Part("epilogue")>>
              /\ Decoded(answer.value.header) = length

(* A certificate comes with the chain of the key that signed it: batch and *)
(* intermediate certificates for its algorithm and the root, all of its    *)
(* set.  Only a key with a characteristic that does not translate back     *)
(* comes with three empty certificates instead, and OK: one such parameter *)
(* empties the list in which attestKey looks for the algorithm (the        *)
(* ignored error at KeymasterDevice.cpp:685, as at :482).                  *)
ChainComplete ==
  Attested =>
    LET signer == answer.value.signer
    IN answer.value.chain =
         IF Translates
         THEN <<[role |-> "batch",        for |-> signer.for, set |-> signer.set],
                [role |-> "intermediate", for |-> signer.for, set |-> signer.set],
                [role |-> "root",         for |-> "both",     set |-> signer.set]>>
         ELSE <<Empty, Empty, Empty>>

(* What the chip keeps of the dates. *)
Kept(tag) == {chip.software[i].value : i \in {j \in DOMAIN chip.software : chip.software[j].tag = tag}}

(* The certificate is valid from the key's activation: another date is for *)
(* "both ACTIVE and CREATION datetime are absent"                          *)
(* (KeymasterDevice.cpp:704).                                              *)
ValidFromActivation ==
  Attested => \A date \in Kept("ACTIVE_DATETIME") : validity[1] = date
=============================================================================
