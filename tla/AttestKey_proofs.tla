-------------------------- MODULE AttestKey_proofs --------------------------
(***************************************************************************)
(* Theorems about AttestKey and the modules below it, for any keys,        *)
(* parameters, wrapped keys, handles and faults:                           *)
(*   - the chip keeps at most one half-made certificate per fault;         *)
(*   - certificates and chains are returned whole, or not at all;          *)
(*   - importKey refuses exactly what does not agree, and a key's report   *)
(*     has the parameters that were given for it.                          *)
(* The last needs nothing of earlier states, but a library of lemmas about *)
(* lists, proved by induction over a set of numbers or of lists.           *)
(***************************************************************************)
EXTENDS AttestKey, FiniteSetTheorems, SequenceTheorems, TLAPS

(* The chip's half-made certificates that no call of attestKey is working  *)
(* on: every step either adds none, or adds one and is a fault.            *)
Others == live \ Mine

Inv == AttestTypeOK /\ NothingLeftBehind

LEMMA OthersFinite ==
  ASSUME AttestTypeOK
  PROVE  IsFiniteSet(Others) /\ Cardinality(Others) \in Nat
BY AttestKeyAssumption, FS_Subset, FS_CardinalityType DEF AttestTypeOK, Others

(* A step that leaves nothing new behind. *)
LEMMA Quiet ==
  ASSUME Inv, AttestTypeOK', Others' \subseteq Others, faults' >= faults
  PROVE  Inv'
<1>1. IsFiniteSet(Others) /\ Cardinality(Others) \in Nat
  BY OthersFinite DEF Inv
<1>2. Cardinality(Others') <= Cardinality(Others) /\ Cardinality(Others') \in Nat
  BY <1>1, FS_Subset, FS_CardinalityType
<1>3. Cardinality(Others') <= faults'
  BY <1>1, <1>2 DEF Inv, NothingLeftBehind, Others, AttestTypeOK
<1> QED BY <1>3 DEF Inv, NothingLeftBehind, Others

(* A step that leaves one handle behind, and is a fault. *)
LEMMA OneMore ==
  ASSUME Inv, AttestTypeOK', NEW h, Others' \subseteq Others \cup {h}, faults' = faults + 1
  PROVE  Inv'
<1>1. IsFiniteSet(Others) /\ Cardinality(Others) \in Nat
  BY OthersFinite DEF Inv
<1>a. /\ IsFiniteSet(Others \cup {h})
      /\ \/ Cardinality(Others \cup {h}) = Cardinality(Others)
         \/ Cardinality(Others \cup {h}) = Cardinality(Others) + 1
  BY ONLY <1>1, FS_AddElement
<1>2. /\ IsFiniteSet(Others \cup {h})
      /\ Cardinality(Others \cup {h}) <= Cardinality(Others) + 1
      /\ Cardinality(Others \cup {h}) \in Nat
  BY ONLY <1>1, <1>a
<1>3. Cardinality(Others') <= Cardinality(Others \cup {h}) /\ Cardinality(Others') \in Nat
  BY <1>2, FS_Subset, FS_CardinalityType
<1>4. Cardinality(Others') <= faults'
  BY <1>1, <1>2, <1>3 DEF Inv, NothingLeftBehind, Others, AttestTypeOK
<1> QED BY <1>4 DEF Inv, NothingLeftBehind, Others

LEMMA InvInit == AttestInit => Inv
<1> SUFFICES ASSUME AttestInit PROVE Inv
  OBVIOUS
<1>1. AttestTypeOK
  BY AttestKeyAssumption DEF AttestInit, AttestTypeOK
<1>2. live \ Mine = {}
  BY DEF AttestInit
<1>3. Cardinality(live \ Mine) = 0
  BY <1>2, FS_EmptySet
<1> QED BY <1>1, <1>3 DEF AttestInit, Inv, NothingLeftBehind

LEMMA InvNext == Inv /\ [AttestNext]_allVars => Inv'
<1> SUFFICES ASSUME Inv, [AttestNext]_allVars PROVE Inv'
  OBVIOUS
<1>0. AttestTypeOK
  BY DEF Inv
<1> USE DEF AttestTypeOK, Others, Mine
<1>1. CASE Next /\ UNCHANGED attestVars
  BY <1>0, <1>1, Quiet DEF attestVars
<1>2. CASE \E params \in AttestParams : Attest(params)
  <2>1. PICK params \in AttestParams : Attest(params)
    BY <1>2
  <2>2. /\ pc = "idle" /\ pc' \in {"idle", "characteristics"}
        /\ UNCHANGED <<handle, live, faults>>
    BY <2>1 DEF Attest
  <2>3. attests' = attests + 1
    BY <2>1 DEF Attest
  <2>4. AttestTypeOK'
    BY <1>0, <2>2, <2>3
  <2>5. Others' = Others /\ faults' >= faults
    BY <1>0, <2>2
  <2> QED BY <2>4, <2>5, Quiet
<1>3. CASE GetCharacteristics
  BY <1>0, <1>3, Quiet DEF GetCharacteristics, NoFault, NoAnswer
<1>4. CASE StartAttestKey
  <2>1. PICK h \in Handles \ live :
          \/ /\ handle' = h /\ live' = live \cup {h}
             /\ pc' = "continue" /\ NoFault
          \/ /\ Fault /\ live' = live \cup {h}
             /\ pc' = "idle" /\ UNCHANGED handle
    BY <1>4 DEF StartAttestKey
  <2>2. pc = "start" /\ attests' = attests
    BY <1>4 DEF StartAttestKey
  <2>3. CASE handle' = h /\ live' = live \cup {h} /\ pc' = "continue" /\ NoFault
    BY <1>0, <2>2, <2>3, Quiet DEF NoFault
  <2>4. CASE Fault /\ live' = live \cup {h} /\ pc' = "idle" /\ UNCHANGED handle
    <3>1. AttestTypeOK' /\ faults' = faults + 1
      BY <1>0, <2>1, <2>2, <2>4 DEF Fault
    <3>2. Others' \subseteq Others \cup {h}
      BY <2>2, <2>4
    <3> QED BY <3>1, <3>2, OneMore
  <2> QED BY <2>1, <2>3, <2>4
<1>5. CASE StartFails
  BY <1>0, <1>5, Quiet DEF StartFails, NoFault, NoAnswer
<1>6. CASE ContinueAttestKey
  BY <1>0, <1>6, Quiet DEF ContinueAttestKey, Continued, Finalized, NoFault, NoAnswer
<1>7. CASE FinishAttestKey
  <2>1. /\ live' \in {live, live \ {handle}}
        /\ \/ pc' = "idle" /\ live' = live \ {handle}
           \/ pc' = "abort"
        /\ faults' \in {faults, faults + 1}
        /\ pc = "finish" /\ UNCHANGED <<handle, attests>>
    BY <1>7 DEF FinishAttestKey, Finalized, NoFault, NoAnswer, Fault
  <2>2. AttestTypeOK' /\ faults' >= faults
    BY <1>0, <2>1
  <2>3. Others' \subseteq Others
    BY <2>1
  <2> QED BY <2>2, <2>3, Quiet
<1>8. CASE AbortOperation
  <2>1. CASE live' = live \ {handle} /\ NoFault
    BY <1>0, <1>8, <2>1, Quiet DEF AbortOperation, NoFault
  <2>2. CASE UNCHANGED live /\ Fault
    BY <1>0, <1>8, <2>2, OneMore DEF AbortOperation, Fault
  <2> QED BY <1>8, <2>1, <2>2 DEF AbortOperation
<1>9. CASE ChipResets
  BY <1>0, <1>9, Quiet DEF ChipResets, Fault
<1>10. CASE HalDies
  <2>1. AttestTypeOK' /\ faults' = faults + 1
    BY <1>0, <1>10 DEF HalDies, Fault
  <2>2. Others' \subseteq Others \cup {handle}
    BY <1>10 DEF HalDies
  <2> QED BY <2>1, <2>2, OneMore
<1>11. CASE UNCHANGED allVars
  BY <1>0, <1>11, Quiet DEF allVars, attestVars
<1> QED BY <1>1, <1>2, <1>3, <1>4, <1>5, <1>6, <1>7, <1>8, <1>9, <1>10, <1>11
        DEF AttestNext, AttestSteps

(* However often attestKey fails, and at whichever of its calls, the chip  *)
(* is left with at most one half-made certificate per lost answer, reset   *)
(* or death of the HAL (the finalizer in attestKey).                       *)
THEOREM AttestationsEnd == AttestSpec => []NothingLeftBehind
<1>1. Inv => NothingLeftBehind
  BY DEF Inv
<1> QED BY <1>1, InvInit, InvNext, PTL DEF AttestSpec
-----------------------------------------------------------------------------
(* The header of the certificate.  What the octets of a length say of it   *)
(* is arithmetic with three digits to the base of 256.                     *)
LEMMA Radices ==
  /\ DOMAIN Radix = {1, 2, 3}
  /\ Radix[1] = 256 /\ Radix[2] = 65536 /\ Radix[3] = 16777216
  /\ \A n \in Lengths : n \in Nat /\ n < 16777216
<1>1. DOMAIN Radix = 1 .. 3 /\ 1 .. 3 = {1, 2, 3}
  BY SMT DEF Radix
<1>2. Radix[1] = 256 /\ Radix[2] = 65536 /\ Radix[3] = 16777216
  BY SMT DEF Radix
<1>3. \A n \in Lengths : n \in Nat /\ n < 16777216
  BY SMT, <1>2 DEF Lengths
<1>4. DOMAIN Radix = {1, 2, 3}
  BY SMT, <1>1
<1> QED BY SMT, <1>2, <1>3, <1>4

LEMMA SizeOf ==
  ASSUME NEW n \in Lengths
  PROVE  IntegerSize(n) = IF n < 256 THEN 1 ELSE IF n < 65536 THEN 2 ELSE 3
<1> DEFINE Fits(k) == n < Radix[k] /\ (k > 1 => n >= Radix[k - 1])
           size == IF n < 256 THEN 1 ELSE IF n < 65536 THEN 2 ELSE 3
<1>1. n \in Nat /\ n < 16777216
  BY SMT, Radices
<1>2. size \in {1, 2, 3} /\ Fits(size)
  BY SMT, <1>1, Radices
<1>3. \A k \in {1, 2, 3} : Fits(k) => k = size
  BY SMT, <1>1, Radices
<1> HIDE DEF Fits, size
<1>4. IntegerSize(n) = CHOOSE k \in {1, 2, 3} : Fits(k)
  BY SMT, Radices DEF IntegerSize, Fits
<1>5. (CHOOSE k \in {1, 2, 3} : Fits(k)) = size
  BY SMT, <1>2, <1>3
<1> QED BY SMT, <1>4, <1>5 DEF size

LEMMA Digits ==
  ASSUME NEW n \in Nat
  PROVE  /\ n < 65536 => n = 256 * ((n \div 256) % 256) + (n % 256)
         /\ n < 16777216 =>
              n = 65536 * ((n \div 65536) % 256) + 256 * ((n \div 256) % 256) + (n % 256)
<1> DEFINE m == n \div 256
<1>1. m \in Nat /\ n = 256 * m + (n % 256) /\ (n % 256) \in 0 .. 255
  BY SMT
<1>2. n \div 65536 = m \div 256
  BY SMT
<1> HIDE DEF m
<1>3. n < 65536 => m % 256 = m
  BY SMT, <1>1
<1>4. m = 256 * (m \div 256) + (m % 256) /\ m \div 256 \in Nat /\ (m % 256) \in 0 .. 255
  BY SMT, <1>1
<1>5. n < 16777216 => (m \div 256) % 256 = m \div 256
  BY SMT, <1>1, <1>4
<1>6. n < 65536 => n = 256 * (m % 256) + (n % 256)
  BY SMT, <1>1, <1>3
<1>7. n < 16777216 => n = 65536 * ((m \div 256) % 256) + 256 * (m % 256) + (n % 256)
  BY SMT, <1>1, <1>4, <1>5
<1> QED BY SMT, <1>2, <1>6, <1>7 DEF m

LEMMA Headed ==
  ASSUME NEW h, NEW a, NEW b, NEW c
  PROVE  /\ LET e == <<h>> \o <<a>> IN Len(e) = 2 /\ e[1] = h /\ e[2] = a
         /\ LET e == <<h>> \o <<a, b>> IN Len(e) = 3 /\ e[1] = h /\ e[2] = a /\ e[3] = b
         /\ LET e == <<h>> \o <<a, b, c>>
            IN Len(e) = 4 /\ e[1] = h /\ e[2] = a /\ e[3] = b /\ e[4] = c
BY SMT

(* Whatever length is written, that is the one that is read.               *)
LEMMA LengthDecodes ==
  ASSUME NEW n \in Lengths
  PROVE  Decoded(Asn1EncodeLength(n)) = n
<1>1. n \in Nat /\ n < 16777216
  BY SMT, Radices
<1>2. CASE n < 128
  BY SMT, <1>1, <1>2 DEF Asn1EncodeLength, Decoded
<1>3. ASSUME ~ (n < 128), n < 256 PROVE Decoded(Asn1EncodeLength(n)) = n
  <2> DEFINE a == n % 256
             e == <<129>> \o <<a>>
  <2>1. IntegerSize(n) = 1
    BY SMT, <1>1, <1>3, SizeOf
  <2>2. Octets(n) = <<a>>
    BY SMT, <1>1, <2>1, Radices DEF Octets
  <2>3. n = a /\ a \in Nat
    BY SMT, <1>1, <1>3, Digits
  <2>4. Asn1EncodeLength(n) = e
    BY SMT, <1>1, <1>3, <2>1, <2>2 DEF Asn1EncodeLength
  <2> HIDE DEF a
  <2>5. Len(e) = 2 /\ e[1] = 129 /\ e[2] = a
    BY SMT, Headed
  <2> HIDE DEF e
  <2>6. Decoded(e) = n
    BY SMT, <2>3, <2>5, Radices DEF Decoded
  <2> QED BY SMT, <2>4, <2>6
<1>4. ASSUME ~ (n < 256), n < 65536 PROVE Decoded(Asn1EncodeLength(n)) = n
  <2> DEFINE a == (n \div 256) % 256
             b == n % 256
             e == <<130>> \o <<a, b>>
  <2>1. IntegerSize(n) = 2
    BY SMT, <1>1, <1>4, SizeOf
  <2>2. Octets(n) = <<a, b>>
    BY SMT, <1>1, <2>1, Radices DEF Octets
  <2>3. n = 256 * a + b /\ a \in Nat /\ b \in Nat
    BY SMT, <1>1, <1>4, Digits
  <2>4. Asn1EncodeLength(n) = e
    BY SMT, <1>1, <1>4, <2>1, <2>2 DEF Asn1EncodeLength
  <2> HIDE DEF a, b
  <2>5. Len(e) = 3 /\ e[1] = 130 /\ e[2] = a /\ e[3] = b
    BY SMT, Headed
  <2> HIDE DEF e
  <2>6. Decoded(e) = n
    BY SMT, <2>3, <2>5, Radices DEF Decoded
  <2> QED BY SMT, <2>4, <2>6
<1>5. ASSUME ~ (n < 65536) PROVE Decoded(Asn1EncodeLength(n)) = n
  <2> DEFINE a == (n \div 65536) % 256
             b == (n \div 256) % 256
             c == n % 256
             e == <<131>> \o <<a, b, c>>
  <2>1. IntegerSize(n) = 3
    BY SMT, <1>1, <1>5, SizeOf
  <2>2. Octets(n) = <<a, b, c>>
    BY SMT, <1>1, <2>1, Radices DEF Octets
  <2>3. n = 65536 * a + 256 * b + c /\ a \in Nat /\ b \in Nat /\ c \in Nat
    BY SMT, <1>1, <1>5, Digits
  <2>4. Asn1EncodeLength(n) = e
    BY SMT, <1>1, <1>5, <2>1, <2>2 DEF Asn1EncodeLength
  <2> HIDE DEF a, b, c
  <2>5. Len(e) = 4 /\ e[1] = 131 /\ e[2] = a /\ e[3] = b /\ e[4] = c
    BY SMT, Headed
  <2> HIDE DEF e
  <2>6. Decoded(e) = n
    BY SMT, <2>3, <2>5, Radices DEF Decoded
  <2> QED BY SMT, <2>4, <2>6
<1> QED BY SMT, <1>1, <1>2, <1>3, <1>4, <1>5
-----------------------------------------------------------------------------
(* The certificate.  The key stays the one that was made before the first  *)
(* call, and has an algorithm; the parts are those of the call, and how    *)
(* many there are depends on where it is.                                  *)
Translated == Succeeds(HidlParamsToMap(call.params))

Parted ==
  /\ pc = "continue" => parts = <<Part("prologue")>> /\ length \in Sizes
  /\ pc = "finish" =>
       /\ parts = <<Part("prologue"), Part("body")>>
       /\ \E size \in Sizes : length = size + AppIdSize(call.params) + 1

Certified ==
  Attested =>
    /\ answer.value.parts = <<Part("prologue"), Part("body"), Part("epilogue")>>
    /\ length \in Lengths
    /\ answer.value.header = Asn1EncodeLength(length)
    /\ \E fusing \in {"PROTO", "DVT", "PVT"}, nodelocked \in BOOLEAN :
         /\ answer.value.signer = SignerOf(fusing, nodelocked)
         /\ answer.value.chain \in ChainsOf(fusing, nodelocked)

CertInv ==
  /\ attests \in Nat
  /\ attests > 0 => Attestable
  /\ call.api = "attestKey" => attests > 0
  /\ pc # "idle" => call.api = "attestKey" /\ ~ Succeeds(answer)
  /\ pc \in {"characteristics", "start", "continue", "finish"} =>
       call.params \in AttestParams /\ Translated
  /\ Parted /\ Certified

LEMMA CertInit == AttestInit => CertInv
BY DEF AttestInit, Init, NoCall, CertInv, Parted, Certified, Attested

LEMMA OtherCalls == Next => call'.api # "attestKey"
<1> SUFFICES ASSUME Next PROVE call'.api # "attestKey"
  OBVIOUS
<1> USE DEF NoCall
<1>1. ASSUME NEW n \in 0 .. MaxParams, NEW params \in Lists(n), NEW format \in Formats,
             NEW key \in Keys, ImportKey(params, format, key)
      PROVE  call'.api # "attestKey"
  BY <1>1 DEF ImportKey
<1>2. ASSUME NEW n \in 0 .. MaxParams, NEW params \in Lists(n), GenerateKey(params)
      PROVE  call'.api # "attestKey"
  BY <1>2 DEF GenerateKey
<1>3. ASSUME NEW w \in Wrappers, ImportWrappedKey(w) PROVE call'.api # "attestKey"
  BY <1>3 DEF ImportWrappedKey
<1>4. CASE GetKeyCharacteristics
  BY <1>4 DEF GetKeyCharacteristics
<1>5. CASE ChipRefuses
  BY <1>5 DEF ChipRefuses
<1> QED BY <1>1, <1>2, <1>3, <1>4, <1>5 DEF Next

LEMMA Parts ==
  ASSUME NEW a, NEW b, NEW c
  PROVE  /\ <<a>> \o <<b>> = <<a, b>>
         /\ <<a, b>> \o <<c>> = <<a, b, c>>
<1> DEFINE S == {a, b, c}
<1>1. /\ <<a>> \in Seq(S) /\ <<b>> \in Seq(S) /\ <<c>> \in Seq(S)
      /\ <<a, b>> \in Seq(S) /\ <<a, b, c>> \in Seq(S)
  OBVIOUS
<1>2. <<a>> \o <<b>> \in Seq(S) /\ <<a, b>> \o <<c>> \in Seq(S)
  BY <1>1
<1>3. /\ Len(<<a>> \o <<b>>) = 2 /\ Len(<<a, b>>) = 2
      /\ Len(<<a, b>> \o <<c>>) = 3 /\ Len(<<a, b, c>>) = 3
  OBVIOUS
<1>4. /\ \A i \in 1 .. 2 : (<<a>> \o <<b>>)[i] = <<a, b>>[i]
      /\ \A i \in 1 .. 3 : (<<a, b>> \o <<c>>)[i] = <<a, b, c>>[i]
  OBVIOUS
<1> DEFINE u == <<a>> \o <<b>>
           v == <<a, b>> \o <<c>>
           s == <<a, b>>
           t == <<a, b, c>>
<1> HIDE DEF S, u, v, s, t
<1>5. u = s
  BY ONLY <1>1, <1>2, <1>3, <1>4, SeqEqual DEF u, s
<1>6. v = t
  BY ONLY <1>1, <1>2, <1>3, <1>4, SeqEqual DEF v, t
<1> QED BY <1>5, <1>6 DEF u, v, s, t

LEMMA Failures == \A code : code # "OK" => ~ Succeeds(Fails(code))
BY DEF Succeeds, Fails

LEMMA CertNext == CertInv /\ [AttestNext]_allVars => CertInv'
<1> SUFFICES ASSUME CertInv, [AttestNext]_allVars PROVE CertInv'
  OBVIOUS
<1>0. attests \in Nat /\ (attests > 0 => Attestable) /\ (call.api = "attestKey" => attests > 0)
  BY DEF CertInv
(* A step after which there is no answer, or none yet. *)
<1>f. ASSUME chip' = chip, call' = call, attests' = attests,
             pc # "idle", ~ Succeeds(answer'), pc' \in {"idle", "abort"}
      PROVE  CertInv'
  BY <1>f DEF CertInv, Attestable, Parted, Certified, Attested
<1>1. CASE pc = "idle" /\ attests = 0 /\ Next /\ UNCHANGED attestVars
  BY <1>0, <1>1, OtherCalls DEF attestVars, CertInv, Parted, Certified, Attested
<1>2. ASSUME NEW params \in AttestParams, Attest(params) PROVE CertInv'
  <2>1. /\ attests' = attests + 1 /\ Attestable /\ chip' = chip
        /\ call'.api = "attestKey" /\ call'.params = params
        /\ ~ Succeeds(answer')
        /\ pc' = "idle" \/ (pc' = "characteristics" /\ Succeeds(HidlParamsToMap(params)))
    BY <1>2, Failures DEF Attest, NoCall, Return
  <2>2. Attestable' /\ attests' \in Nat /\ attests' > 0
    BY <1>0, <2>1 DEF Attestable
  <2> QED BY <2>1, <2>2 DEF CertInv, Translated, Parted, Certified, Attested
<1>3. CASE GetCharacteristics
  <2>1. chip' = chip /\ call' = call /\ attests' = attests /\ pc = "characteristics"
    BY <1>3 DEF GetCharacteristics
  <2>2. \/ pc' = "start" /\ answer' = answer
        \/ pc' = "idle" /\ ~ Succeeds(answer')
    BY <1>3, Failures DEF GetCharacteristics, Return
  <2>3. CASE pc' = "start" /\ answer' = answer
    BY <2>1, <2>3 DEF CertInv, Attestable, Translated, Parted, Certified, Attested
  <2> QED BY <1>f, <2>1, <2>2, <2>3
<1>4. CASE StartAttestKey
  <2>1. chip' = chip /\ call' = call /\ attests' = attests /\ pc = "start"
    BY <1>4 DEF StartAttestKey
  <2>2. \/ pc' = "continue" /\ answer' = answer /\ parts' = <<Part("prologue")>> /\ length' \in Sizes
        \/ pc' = "idle" /\ ~ Succeeds(answer')
    BY <1>4, Failures DEF StartAttestKey, Return
  <2>3. CASE /\ pc' = "continue" /\ answer' = answer
             /\ parts' = <<Part("prologue")>> /\ length' \in Sizes
    BY <2>1, <2>3 DEF CertInv, Attestable, Translated, Parted, Certified, Attested, Part
  <2> QED BY <1>f, <2>1, <2>2, <2>3
<1>5. CASE StartFails
  BY <1>5, <1>f, Failures DEF StartFails, Return
<1>6. CASE ContinueAttestKey
  <2>1. chip' = chip /\ call' = call /\ attests' = attests /\ pc = "continue"
    BY <1>6 DEF ContinueAttestKey
  <2>2. \/ Continued /\ pc' = "finish" /\ answer' = answer
        \/ pc' = "abort" /\ ~ Succeeds(answer')
    BY <1>6, Failures DEF ContinueAttestKey, Return, Finalized
  <2>3. CASE Continued /\ pc' = "finish" /\ answer' = answer
    <3>1. parts = <<Part("prologue")>> /\ length \in Sizes
      BY <2>1 DEF CertInv, Parted
    <3>2. parts' = <<Part("prologue"), Part("body")>>
      BY <2>3, <3>1, Parts DEF Continued
    <3>3. length' = length + AppIdSize(call.params) + 1
      BY <2>3 DEF Continued
    <3>4. Parted'
      BY <2>1, <2>3, <3>1, <3>2, <3>3 DEF Parted, Part
    <3> QED BY <2>1, <2>3, <3>4 DEF CertInv, Attestable, Translated, Certified, Attested
  <2> QED BY <1>f, <2>1, <2>2, <2>3
<1>7. CASE FinishAttestKey
  <2>1. chip' = chip /\ call' = call /\ attests' = attests /\ pc = "finish" /\ parts' = parts
    BY <1>7 DEF FinishAttestKey
  <2>2. \/ /\ \E fusing \in {"PROTO", "DVT", "PVT"}, nodelocked \in BOOLEAN :
              \E chain \in ChainsOf(fusing, nodelocked) :
                answer' = Ok([parts  |-> parts \o <<Part("epilogue")>>,
                              header |-> Asn1EncodeLength(length + 1),
                              signer |-> SignerOf(fusing, nodelocked),
                              chain  |-> chain])
           /\ length' = length + 1 /\ pc' = "idle"
        \/ pc' = "abort" /\ ~ Succeeds(answer')
    BY <1>7, Failures DEF FinishAttestKey, Return, Finalized
  <2>3. ASSUME NEW fusing \in {"PROTO", "DVT", "PVT"}, NEW nodelocked \in BOOLEAN,
               NEW chain \in ChainsOf(fusing, nodelocked),
               answer' = Ok([parts  |-> parts \o <<Part("epilogue")>>,
                             header |-> Asn1EncodeLength(length + 1),
                             signer |-> SignerOf(fusing, nodelocked),
                             chain  |-> chain]),
               length' = length + 1, pc' = "idle"
        PROVE  CertInv'
    <3>1. PICK size \in Sizes : length = size + AppIdSize(call.params) + 1
      BY <2>1 DEF CertInv, Parted
    <3>2. length' \in Lengths
      <4>1. call.params \in AttestParams /\ Translated
        BY <2>1 DEF CertInv
      <4>2. AppIdSize(call.params) \in Nat /\ size + AppIdSize(call.params) + 2 \in Lengths
        BY <4>1, CertificateAssumption DEF Translated
      <4>3. length' = size + AppIdSize(call.params) + 2
        BY <2>3, <3>1, <4>2, AttestKeyAssumption
      <4> QED BY <4>2, <4>3
    <3>3. parts = <<Part("prologue"), Part("body")>>
      BY <2>1 DEF CertInv, Parted
    <3>4. parts \o <<Part("epilogue")>> = <<Part("prologue"), Part("body"), Part("epilogue")>>
      BY <3>3, Parts
    <3>5. /\ answer'.value.parts = <<Part("prologue"), Part("body"), Part("epilogue")>>
          /\ answer'.value.header = Asn1EncodeLength(length')
          /\ answer'.value.signer = SignerOf(fusing, nodelocked)
          /\ answer'.value.chain \in ChainsOf(fusing, nodelocked)
      BY <2>3, <3>4 DEF Ok
    <3>6. Part("prologue")' = Part("prologue") /\ Part("body")' = Part("body")
          /\ Part("epilogue")' = Part("epilogue")
      BY <2>1 DEF Part
    <3>7. /\ SignerOf(fusing, nodelocked)' = SignerOf(fusing, nodelocked)
          /\ ChainsOf(fusing, nodelocked)' = ChainsOf(fusing, nodelocked)
      BY <2>1 DEF SignerOf, ChainsOf, AlgorithmsReported
    <3>8. Certified'
      BY <3>2, <3>5, <3>6, <3>7 DEF Certified
    <3> QED BY <2>1, <2>3, <3>8 DEF CertInv, Attestable, Parted
  <2> QED BY <1>f, <2>1, <2>2, <2>3
<1>8. CASE AbortOperation
  BY <1>8, <1>0 DEF AbortOperation, vars, CertInv, Attestable, Parted, Certified, Attested, Translated
<1>9. CASE ChipResets
  BY <1>9 DEF ChipResets, vars, CertInv, Attestable, Parted, Certified, Attested, Translated, Part
<1>10. CASE HalDies
  BY <1>10, <1>f, Failures DEF HalDies
<1>11. CASE UNCHANGED allVars
  <2>1. /\ chip' = chip /\ call' = call /\ answer' = answer /\ pc' = pc /\ parts' = parts
        /\ length' = length /\ attests' = attests
    BY <1>11 DEF allVars, attestVars, vars
  <2>2. \A f, n : SignerOf(f, n)' = SignerOf(f, n) /\ ChainsOf(f, n)' = ChainsOf(f, n)
    BY <2>1 DEF SignerOf, ChainsOf, AlgorithmsReported
  <2>3. Certified'
    BY <2>1, <2>2 DEF CertInv, Certified, Attested, Part
  <2> QED BY <2>1, <2>3 DEF CertInv, Attestable, Parted, Attested, Translated, Part
<1> QED BY <1>1, <1>2, <1>3, <1>4, <1>5, <1>6, <1>7, <1>8, <1>9, <1>10, <1>11
        DEF AttestNext, AttestSteps

(* Every certificate attestKey returns has its three parts, of one and the *)
(* same call, and the header that tells their length.                      *)
THEOREM CertificatesAreWhole == AttestSpec => []CertificateWhole
<1>1. CertInv => CertificateWhole
  BY LengthDecodes DEF CertInv, Certified, CertificateWhole
<1> QED BY <1>1, CertInit, CertNext, PTL DEF AttestSpec

(* A list that translates is reported with its parameters at their places. *)
LEMMA ParamsReported ==
  ASSUME NEW pbs, Succeeds(PbToHidlParams(pbs))
  PROVE  /\ DOMAIN ListReported(pbs) = DOMAIN pbs
         /\ \A i \in DOMAIN pbs : /\ Succeeds(PbToKeyParameter(pbs[i]))
                                 /\ ListReported(pbs)[i] = PbToKeyParameter(pbs[i]).value
<1> DEFINE results == [i \in DOMAIN pbs |-> PbToKeyParameter(pbs[i])]
<1>1. ListReported(pbs) = TranslatedAll(results, "UNKNOWN_ERROR").value
  BY DEF ListReported, PbToHidlParams
<1>2. \A i \in DOMAIN results : Succeeds(results[i])
  BY DEF PbToHidlParams, TranslatedAll, Succeeds, Fails
<1>3. ListReported(pbs) = [i \in DOMAIN results |-> results[i].value]
  BY <1>1, <1>2 DEF TranslatedAll, Ok
<1> QED BY <1>2, <1>3

(* It keeps its tag, and is RSA's only if it was.                          *)
LEMMA AlgorithmKept ==
  ASSUME NEW q, Succeeds(PbToKeyParameter(q))
  PROVE  /\ PbToKeyParameter(q).value.tag = q.tag
         /\ q.tag = "ALGORITHM" => (PbToKeyParameter(q).value.value = "RSA" <=> q.value = "RSA")
<1>1. ~ Succeeds(Fails("UNKNOWN_ERROR"))
  BY DEF Succeeds, Fails
<1>2. PbToKeyParameter(q).value.tag = q.tag
  <2>1. \E v : PbToKeyParameter(q) = KeyParam(q.tag, v)
    BY <1>1 DEF PbToKeyParameter
  <2> QED BY <2>1 DEF KeyParam, Ok
<1>3. ASSUME q.tag = "ALGORITHM"
      PROVE  PbToKeyParameter(q).value.value = "RSA" <=> q.value = "RSA"
  <2>1. q.tag \in EnumTags
    BY <1>3 DEF EnumTags, EnumToPb
  <2>2. PbToKeyParameter(q) =
          IF q.value \in DOMAIN EnumFromPb[q.tag]
          THEN KeyParam(q.tag, EnumFromPb[q.tag][q.value]) ELSE Fails("UNKNOWN_ERROR")
    BY ONLY <1>3, <2>1 DEF PbToKeyParameter, BoolTags, UintTags, FlagTags, LongTags, BlobTags
  <2>3. /\ q.value \in DOMAIN EnumFromPb["ALGORITHM"]
        /\ PbToKeyParameter(q) = KeyParam("ALGORITHM", EnumFromPb["ALGORITHM"][q.value])
    BY ONLY <1>1, <1>3, <2>2, Succeeds(PbToKeyParameter(q))
  <2>4. EnumFromPb["ALGORITHM"] = [n \in {"RSA", "EC", "AES", "DES", "HMAC"} |->
                                     IF n = "DES" THEN "TRIPLE_DES" ELSE n]
    BY DEF EnumFromPb
  <2>5. EnumFromPb["ALGORITHM"][q.value] = "RSA" <=> q.value = "RSA"
    BY <2>3, <2>4
  <2>6. PbToKeyParameter(q).value.value = EnumFromPb["ALGORITHM"][q.value]
    BY <2>3 DEF KeyParam, Ok
  <2> QED BY <2>5, <2>6
<1> QED BY <1>2, <1>3

(* A certificate comes with the chain of the key that signed it, or, if    *)
(* the key's characteristics do not translate back, with three empty       *)
(* certificates.                                                           *)
THEOREM ChainsAreComplete == AttestSpec => []ChainComplete
<1>1. ASSUME CertInv, Attested
      PROVE  LET signer == answer.value.signer
             IN answer.value.chain =
                  IF Translates
                  THEN <<[role |-> "batch",        for |-> signer.for, set |-> signer.set],
                         [role |-> "intermediate", for |-> signer.for, set |-> signer.set],
                         [role |-> "root",         for |-> "both",     set |-> signer.set]>>
                  ELSE <<Empty, Empty, Empty>>
  <2>1. PICK fusing \in {"PROTO", "DVT", "PVT"}, nodelocked \in BOOLEAN :
          /\ answer.value.signer = SignerOf(fusing, nodelocked)
          /\ answer.value.chain \in ChainsOf(fusing, nodelocked)
    BY <1>1 DEF CertInv, Certified
  <2>2. CASE ~ Translates
    <3>1. AlgorithmsReported = {}
      BY <2>2 DEF AlgorithmsReported, ListReported, Translates
    <3> QED BY <2>1, <2>2, <3>1 DEF ChainsOf
  <2>3. CASE Translates
    <3>1. Attestable
      BY <1>1 DEF CertInv, Attested
    <3>2. PICK i \in DOMAIN chip.tee : {j \in DOMAIN chip.tee : chip.tee[j].tag = "ALGORITHM"} = {i}
      BY <3>1 DEF Attestable
    <3>3. PICK q : q = chip.tee[i]
      OBVIOUS
    <3>4. PICK p : p = PbToKeyParameter(q).value
      OBVIOUS
    <3>5. /\ q.tag = "ALGORITHM"
          /\ AlgorithmsReported = {p.value}
          /\ p.value = "RSA" <=> q.value = "RSA"
      BY <2>3, <3>2, <3>3, <3>4, ParamsReported, AlgorithmKept DEF AlgorithmsReported, Translates
    <3>6. answer.value.chain = CertsFor(p.value, fusing, nodelocked)
      BY <2>1, <3>5 DEF ChainsOf
    <3>7. SignerOf(fusing, nodelocked).for = (IF p.value = "RSA" THEN "RSA" ELSE "EC")
      BY <3>2, <3>3, <3>5 DEF SignerOf
    <3>8. SignerOf(fusing, nodelocked).set =
            (IF nodelocked \/ fusing = "PROTO" THEN "TEST"
             ELSE IF fusing = "DVT" THEN "DEV" ELSE "PROD")
      BY <2>1 DEF SignerOf
    <3> QED BY <2>1, <2>3, <3>6, <3>7, <3>8 DEF CertsFor, Chained, Cert
  <2> QED BY <2>2, <2>3
<1>2. CertInv => ChainComplete
  BY <1>1 DEF ChainComplete
<1> QED BY <1>2, CertInit, CertNext, PTL DEF AttestSpec
-----------------------------------------------------------------------------
(* Induction over sequences that grow at their end: a set that has the     *)
(* empty one and loses none by growing has all of them.                    *)
LEMMA LeastNumber ==
  ASSUME NEW T \in SUBSET Nat, T # {}
  PROVE  \E n \in T : \A m \in T : ~ (m < n)
<1>1. IsWellFoundedOn(OpToRel(<, Nat), Nat)
  BY NatLessThanWellFounded
<1>2. PICK n \in T : \A m \in T : ~ (<<m, n>> \in OpToRel(<, Nat))
  BY ONLY <1>1, WFMin, T \in SUBSET Nat, T # {}
<1>3. \A m \in T : <<m, n>> \in OpToRel(<, Nat) <=> m < n
  BY DEF OpToRel
<1> QED
  BY <1>2, <1>3

LEMMA SetInduction ==
  ASSUME NEW S, 0 \in S, \A n \in Nat : n \in S => n + 1 \in S
  PROVE  Nat \subseteq S
<1> SUFFICES ASSUME Nat \ S # {} PROVE FALSE
  OBVIOUS
<1>1. PICK n \in Nat \ S : \A m \in Nat \ S : ~ (m < n)
  BY LeastNumber
<1>2. n # 0 /\ n - 1 \in Nat /\ n - 1 < n /\ (n - 1) + 1 = n
  BY <1>1
<1>3. n - 1 \in S
  BY <1>1, <1>2
<1> QED
  BY <1>1, <1>2, <1>3

LEMMA AppendInduction ==
  ASSUME NEW X, NEW S, << >> \in S,
         \A s \in Seq(X) : \A e \in X : s \in S => Append(s, e) \in S
  PROVE  Seq(X) \subseteq S
<1> SUFFICES ASSUME Seq(X) \ S # {} PROVE FALSE
  OBVIOUS
<1> DEFINE lengths == {Len(s) : s \in Seq(X) \ S}
<1>1. lengths \in SUBSET Nat /\ lengths # {}
  BY LenProperties
<1>2. PICK n \in lengths : \A m \in lengths : ~ (m < n)
  BY <1>1, LeastNumber
<1>3. PICK s \in Seq(X) \ S : n = Len(s)
  BY <1>2
<1>4. PICK t \in Seq(X), e \in X : s = Append(t, e)
  BY <1>3, SequenceEmptyOrAppend
<1>5. Len(t) \in Nat /\ Len(s) = Len(t) + 1
  BY <1>4, AppendProperties, LenProperties
<1>6. t \in S
  BY <1>1, <1>2, <1>3, <1>5
<1> QED
  BY <1>3, <1>4, <1>6
-----------------------------------------------------------------------------
(* FlattenSeq, element by element. *)
LEMMA FlattenDefined ==
  ASSUME NEW X, NEW ss \in Seq(X)
  PROVE  \E f : f = [i \in 1 .. Len(ss) |-> IF i = 1 THEN ss[i] ELSE f[i - 1] \o ss[i]]
<1> DEFINE Has(s) == \E f : f = [i \in 1 .. Len(s) |-> IF i = 1 THEN s[i] ELSE f[i - 1] \o s[i]]
           S == {s \in Seq(X) : Has(s)}
<1>1. << >> \in S
  <2>1. << >> \in Seq(X) /\ 1 .. Len(<< >>) = {}
    BY EmptySeq
  <2>2. Has(<< >>)
    <3> DEFINE f == [i \in {} |-> {}]
    <3>1. f = [i \in 1 .. Len(<< >>) |-> IF i = 1 THEN << >>[i] ELSE f[i - 1] \o << >>[i]]
      BY <2>1
    <3> QED
      BY <3>1
  <2> QED
    BY <2>1, <2>2
<1>2. ASSUME NEW s \in Seq(X), NEW e \in X, s \in S
      PROVE  Append(s, e) \in S
  <2>1. PICK f : f = [i \in 1 .. Len(s) |-> IF i = 1 THEN s[i] ELSE f[i - 1] \o s[i]]
    BY <1>2
  <2> DEFINE t == Append(s, e)
             g == [i \in 1 .. Len(s) + 1 |-> IF i = Len(s) + 1
                                             THEN (IF i = 1 THEN e ELSE f[i - 1] \o e) ELSE f[i]]
  <2>2. /\ t \in Seq(X) /\ Len(s) \in Nat /\ Len(t) = Len(s) + 1
        /\ t[Len(s) + 1] = e
        /\ \A i \in 1 .. Len(s) : t[i] = s[i]
    BY AppendProperties, LenProperties
  <2> HIDE DEF t
  <2>3. \A i \in 1 .. Len(t) : g[i] = IF i = 1 THEN t[i] ELSE g[i - 1] \o t[i]
    <3> TAKE i \in 1 .. Len(t)
    <3>1. CASE i = Len(s) + 1
      <4>1. i # 1 => g[i - 1] = f[i - 1]
        BY <2>2, <3>1
      <4> QED
        BY <2>2, <3>1, <4>1
    <3>2. CASE i # Len(s) + 1
      <4>1. i \in 1 .. Len(s) /\ g[i] = f[i] /\ (i # 1 => g[i - 1] = f[i - 1])
        BY <2>2, <3>2
      <4>2. f[i] = IF i = 1 THEN s[i] ELSE f[i - 1] \o s[i]
        BY <2>1, <4>1
      <4> QED
        BY <2>2, <4>1, <4>2
    <3> QED
      BY <3>1, <3>2
  <2>4. g = [i \in 1 .. Len(t) |-> IF i = 1 THEN t[i] ELSE g[i - 1] \o t[i]]
    <3>1. g = [i \in 1 .. Len(t) |-> g[i]]
      BY <2>2
    <3> HIDE DEF g
    <3> QED
      BY <2>3, <3>1
  <2>5. Has(t)
    BY <2>4
  <2> QED
    BY <2>2, <2>5 DEF t
<1>3. Seq(X) \subseteq S
  <2> HIDE DEF S
  <2> QED
    BY <1>1, <1>2, AppendInduction
<1> QED
  BY <1>3

(* What FlattenSeq's recursive function is for one sequence. *)
LEMMA FlattenIs ==
  ASSUME NEW X, NEW ss \in Seq(X), ss # << >>
  PROVE  \E f : /\ f = [i \in 1 .. Len(ss) |-> IF i = 1 THEN ss[i] ELSE f[i - 1] \o ss[i]]
                /\ FlattenSeq(ss) = f[Len(ss)]
<1> DEFINE f == CHOOSE f : f = [i \in 1 .. Len(ss) |-> IF i = 1 THEN ss[i] ELSE f[i - 1] \o ss[i]]
<1>1. f = [i \in 1 .. Len(ss) |-> IF i = 1 THEN ss[i] ELSE f[i - 1] \o ss[i]]
  BY FlattenDefined
<1>2. Len(ss) # 0
  BY EmptySeq
<1>3. FlattenSeq(ss) = f[Len(ss)]
  BY <1>2 DEF FlattenSeq
<1> HIDE DEF f
<1> QED
  BY <1>1, <1>3

LEMMA FlattenEmpty == FlattenSeq(<< >>) = << >>
<1>1. Len(<< >>) = 0
  BY EmptySeq
<1> QED
  BY <1>1 DEF FlattenSeq

LEMMA FlattenAppend ==
  ASSUME NEW X, NEW ss \in Seq(Seq(X)), NEW t \in Seq(X)
  PROVE  FlattenSeq(Append(ss, t)) = FlattenSeq(ss) \o t
<1> DEFINE more == Append(ss, t)
           n == Len(ss)
<1>1. /\ more \in Seq(Seq(X)) /\ more # << >> /\ n \in Nat /\ Len(more) = n + 1
      /\ more[n + 1] = t
      /\ \A i \in 1 .. n : more[i] = ss[i]
  BY AppendProperties, LenProperties
<1>2. n = 0 <=> ss = << >>
  BY EmptySeq
<1> HIDE DEF more
<1>3. PICK g : /\ g = [i \in 1 .. Len(more) |-> IF i = 1 THEN more[i] ELSE g[i - 1] \o more[i]]
               /\ FlattenSeq(more) = g[Len(more)]
  BY <1>1, FlattenIs
<1>4. CASE ss = << >>
  <2>1. FlattenSeq(more) = t
    BY <1>1, <1>2, <1>3, <1>4
  <2>2. FlattenSeq(ss) = << >>
    BY <1>4, FlattenEmpty
  <2> QED
    BY <2>1, <2>2, ConcatEmptySeq DEF more
<1>5. CASE ss # << >>
  <2>1. PICK f : /\ f = [i \in 1 .. n |-> IF i = 1 THEN ss[i] ELSE f[i - 1] \o ss[i]]
                 /\ FlattenSeq(ss) = f[n]
    BY <1>5, FlattenIs
  <2> DEFINE S == {m \in Nat : m + 1 \in 1 .. n => g[m + 1] = f[m + 1]}
  <2> HIDE DEF n
  <2>2. 0 \in S
    BY <1>1, <1>3, <2>1
  <2>3. ASSUME NEW m \in Nat, m \in S
        PROVE  m + 1 \in S
    <3> SUFFICES ASSUME m + 2 \in 1 .. n
                 PROVE  g[m + 2] = f[m + 2]
      OBVIOUS
    <3>1. m + 1 \in 1 .. n /\ g[m + 1] = f[m + 1]
      BY <2>3, <1>1
    <3>a. (m + 2) - 1 = m + 1 /\ m + 2 # 1 /\ m + 2 \in 1 .. Len(more)
      BY <1>1
    <3>2. f[m + 2] = f[m + 1] \o ss[m + 2]
      BY <2>1, <3>a
    <3>3. g[m + 2] = g[m + 1] \o more[m + 2]
      BY <1>3, <3>a
    <3> QED
      BY <3>1, <3>2, <3>3, <1>1
  <2>4. Nat \subseteq S
    <3> HIDE DEF S
    <3> QED
      BY <2>2, <2>3, SetInduction
  <2>5. n - 1 \in Nat /\ (n - 1) + 1 = n /\ n \in 1 .. n
    BY <1>1, <1>2, <1>5
  <2>6. g[n] = f[n]
    BY <2>4, <2>5
  <2>7. g[n + 1] = g[n] \o t
    <3>1. (n + 1) - 1 = n /\ n + 1 # 1 /\ n + 1 \in 1 .. Len(more)
      BY <1>1, <2>5
    <3> QED
      BY <1>1, <1>3, <3>1
  <2> QED
    BY <1>1, <1>3, <2>1, <2>6, <2>7 DEF more
<1> QED
  BY <1>4, <1>5

LEMMA FlattenTyped ==
  ASSUME NEW X, NEW ss \in Seq(Seq(X))
  PROVE  FlattenSeq(ss) \in Seq(X)
<1> DEFINE S == {s \in Seq(Seq(X)) : FlattenSeq(s) \in Seq(X)}
<1>1. << >> \in S
  BY FlattenEmpty, EmptySeq
<1>2. ASSUME NEW s \in Seq(Seq(X)), NEW e \in Seq(X), s \in S
      PROVE  Append(s, e) \in S
  BY <1>2, FlattenAppend, AppendProperties, ConcatProperties
<1> QED
  <2> HIDE DEF S
  <2>1. Seq(Seq(X)) \subseteq S
    BY <1>1, <1>2, AppendInduction
  <2> QED
    BY <2>1 DEF S
-----------------------------------------------------------------------------
(* WithTags, element by element. *)
LEMMA NoneWithTags ==
  ASSUME NEW T
  PROVE  WithTags(<< >>, T) = << >>
<1>1. [i \in DOMAIN << >> |-> IF << >>[i].tag \in T THEN <<<< >>[i]>> ELSE << >>] = << >>
  OBVIOUS
<1> QED
  BY <1>1, FlattenEmpty DEF WithTags

LEMMA OneMoreWithTags ==
  ASSUME NEW X, NEW s \in Seq(X), NEW e \in X, NEW T
  PROVE  /\ WithTags(s, T) \in Seq(X)
         /\ WithTags(Append(s, e), T) =
              IF e.tag \in T THEN Append(WithTags(s, T), e) ELSE WithTags(s, T)
<1> DEFINE One(p) == IF p.tag \in T THEN <<p>> ELSE << >>
           Each(l) == [i \in DOMAIN l |-> One(l[i])]
           t == Append(s, e)
<1>1. \A l : WithTags(l, T) = FlattenSeq(Each(l))
  BY DEF WithTags
<1>2. \A p \in X : One(p) \in Seq(X)
  BY EmptySeq
<1>3. Each(s) \in Seq(Seq(X)) /\ Len(Each(s)) = Len(s) /\ DOMAIN s = 1 .. Len(s)
  <2> HIDE DEF One
  <2>1. Len(s) \in Nat /\ DOMAIN s = 1 .. Len(s) /\ \A i \in 1 .. Len(s) : s[i] \in X
    BY LenProperties, ElementOfSeq
  <2>2. Each(s) \in [1 .. Len(s) -> Seq(X)]
    BY <1>2, <2>1
  <2> QED
    BY <2>1, <2>2, LenProperties, IsASeq
<1>4. /\ t \in Seq(X) /\ Len(t) = Len(s) + 1 /\ DOMAIN t = 1 .. Len(s) + 1 /\ Len(s) \in Nat
      /\ t[Len(s) + 1] = e /\ \A i \in 1 .. Len(s) : t[i] = s[i]
  BY AppendProperties, LenProperties
<1> HIDE DEF t, One
<1>5. Each(t) = Append(Each(s), One(e))
  <2>1. /\ Append(Each(s), One(e)) \in Seq(Seq(X))
        /\ Len(Append(Each(s), One(e))) = Len(s) + 1
        /\ Append(Each(s), One(e))[Len(s) + 1] = One(e)
        /\ \A i \in 1 .. Len(s) : Append(Each(s), One(e))[i] = Each(s)[i]
    <3> HIDE DEF Each
    <3> QED
      BY <1>2, <1>3, AppendProperties
  <2>2. Each(t) \in [1 .. Len(s) + 1 -> Seq(X)]
    BY <1>2, <1>4, ElementOfSeq
  <2>3. Each(t) \in Seq(Seq(X)) /\ Len(Each(t)) = Len(s) + 1
    <3> HIDE DEF Each
    <3> QED
      BY <2>2, <1>4, IsASeq, LenProperties
  <2>4. \A i \in 1 .. Len(s) + 1 : Each(t)[i] = Append(Each(s), One(e))[i]
    <3> TAKE i \in 1 .. Len(s) + 1
    <3>1. CASE i = Len(s) + 1
      BY <3>1, <2>1, <1>4
    <3>2. CASE i # Len(s) + 1
      <4>1. i \in 1 .. Len(s)
        BY <3>2, <1>4
      <4> QED
        BY <4>1, <2>1, <1>3, <1>4
    <3> QED
      BY <3>1, <3>2
  <2> HIDE DEF Each
  <2> QED
    BY <2>1, <2>3, <2>4, SeqEqual
<1>6. WithTags(s, T) \in Seq(X)
  BY <1>1, <1>3, FlattenTyped
<1>7. WithTags(t, T) = WithTags(s, T) \o One(e)
  <2>1. One(e) \in Seq(X)
    BY <1>2
  <2>2. FlattenSeq(Append(Each(s), One(e))) = FlattenSeq(Each(s)) \o One(e)
    BY <1>3, <2>1, FlattenAppend
  <2> QED
    BY <1>1, <1>5, <2>2
<1> QED
  BY <1>6, <1>7, AppendIsConcat, ConcatEmptySeq DEF One, t
-----------------------------------------------------------------------------
(* The elements of a list and their tags, as it grows. *)
LEMMA GrownBy ==
  ASSUME NEW X, NEW s \in Seq(X), NEW e \in X
  PROVE  /\ TagsOf(Append(s, e)) = TagsOf(s) \cup {e.tag}
         /\ Range(Append(s, e)) = Range(s) \cup {e}
         /\ \A r \in Seq(X) : r \o Append(s, e) = Append(r \o s, e)
<1> DEFINE t == Append(s, e)
<1>1. /\ DOMAIN t = DOMAIN s \cup {Len(s) + 1}
      /\ t[Len(s) + 1] = e /\ \A i \in DOMAIN s : t[i] = s[i]
  <2>1. /\ t \in Seq(X) /\ Len(t) = Len(s) + 1 /\ Len(s) \in Nat
        /\ t[Len(s) + 1] = e /\ \A i \in 1 .. Len(s) : t[i] = s[i]
    BY AppendProperties, LenProperties
  <2>2. DOMAIN t = 1 .. Len(s) + 1 /\ DOMAIN s = 1 .. Len(s)
    <3> HIDE DEF t
    <3> QED
      BY <2>1, LenProperties
  <2> HIDE DEF t
  <2> QED
    BY <2>1, <2>2
<1>2. ASSUME NEW r \in Seq(X)
      PROVE  r \o Append(s, e) = Append(r \o s, e)
  <2>1. <<e>> \in Seq(X) /\ r \o s \in Seq(X)
    BY ConcatProperties
  <2> QED
    BY <2>1, AppendIsConcat, ConcatAssociative
<1> HIDE DEF t
<1>3. TagsOf(t) = TagsOf(s) \cup {e.tag} /\ Range(t) = Range(s) \cup {e}
  BY <1>1 DEF TagsOf, Range
<1> QED
  BY <1>2, <1>3 DEF t

LEMMA Nothing == TagsOf(<< >>) = {} /\ Range(<< >>) = {}
BY DEF TagsOf, Range

LEMMA WithTagsConcat ==
  ASSUME NEW X, NEW s \in Seq(X), NEW t \in Seq(X), NEW T
  PROVE  WithTags(s \o t, T) = WithTags(s, T) \o WithTags(t, T)
<1> DEFINE S == {r \in Seq(X) : WithTags(s \o r, T) = WithTags(s, T) \o WithTags(r, T)}
<1>0. WithTags(s, T) \in Seq(X) /\ \A r \in Seq(X) : WithTags(r, T) \in Seq(X)
  <2>1. ASSUME NEW r \in Seq(X) PROVE WithTags(r, T) \in Seq(X)
    <3>1. CASE X = {}
      <4>1. r = << >>
        BY <3>1, SequenceEmptyOrAppend
      <4> QED
        BY <4>1, NoneWithTags, EmptySeq
    <3>2. CASE X # {}
      BY <3>2, OneMoreWithTags
    <3> QED
      BY <3>1, <3>2
  <2> QED
    BY <2>1
<1>1. << >> \in S
  BY <1>0, NoneWithTags, EmptySeq, ConcatEmptySeq
<1>2. ASSUME NEW r \in Seq(X), NEW e \in X, r \in S
      PROVE  Append(r, e) \in S
  <2>1. /\ s \o Append(r, e) = Append(s \o r, e) /\ s \o r \in Seq(X)
        /\ Append(r, e) \in Seq(X)
    BY GrownBy, ConcatProperties, AppendProperties
  <2>2. /\ WithTags(Append(s \o r, e), T) =
             IF e.tag \in T THEN Append(WithTags(s \o r, T), e) ELSE WithTags(s \o r, T)
        /\ WithTags(Append(r, e), T) =
             IF e.tag \in T THEN Append(WithTags(r, T), e) ELSE WithTags(r, T)
    <3>1. ASSUME NEW q \in Seq(X)
          PROVE  WithTags(Append(q, e), T) =
                   IF e.tag \in T THEN Append(WithTags(q, T), e) ELSE WithTags(q, T)
      BY OneMoreWithTags
    <3> QED
      BY <2>1, <3>1
  <2>3. WithTags(s, T) \o Append(WithTags(r, T), e) = Append(WithTags(s, T) \o WithTags(r, T), e)
    BY <1>0, GrownBy
  <2> QED
    BY <1>2, <2>1, <2>2, <2>3
<1> HIDE DEF S
<1>3. Seq(X) \subseteq S
  BY <1>1, <1>2, AppendInduction
<1> QED
  BY <1>3 DEF S

LEMMA WithTagsTyped ==
  ASSUME NEW X, NEW s \in Seq(X), NEW T
  PROVE  WithTags(s, T) \in Seq(X)
<1>1. CASE s = << >>
  BY <1>1, NoneWithTags, EmptySeq
<1>2. CASE s # << >>
  BY <1>2, OneMoreWithTags, SequenceEmptyOrAppend
<1> QED
  BY <1>1, <1>2

(* The two kinds of selection there are. *)
LEMMA WithTagsTwice ==
  ASSUME NEW X, NEW s \in Seq(X), NEW T, NEW U
  PROVE  WithTags(WithTags(s, T), U) = WithTags(s, T \cap U)
<1> DEFINE S == {r \in Seq(X) : WithTags(WithTags(r, T), U) = WithTags(r, T \cap U)}
<1>1. << >> \in S
  BY NoneWithTags, EmptySeq
<1>2. ASSUME NEW r \in Seq(X), NEW e \in X, r \in S
      PROVE  Append(r, e) \in S
  <2>1. Append(r, e) \in Seq(X) /\ WithTags(r, T) \in Seq(X)
    BY AppendProperties, WithTagsTyped
  <2>2. /\ WithTags(Append(r, e), T) =
             IF e.tag \in T THEN Append(WithTags(r, T), e) ELSE WithTags(r, T)
        /\ WithTags(Append(r, e), T \cap U) =
             IF e.tag \in T \cap U THEN Append(WithTags(r, T \cap U), e) ELSE WithTags(r, T \cap U)
        /\ WithTags(Append(WithTags(r, T), e), U) =
             IF e.tag \in U THEN Append(WithTags(WithTags(r, T), U), e)
             ELSE WithTags(WithTags(r, T), U)
    <3>1. ASSUME NEW q \in Seq(X), NEW V
          PROVE  WithTags(Append(q, e), V) =
                   IF e.tag \in V THEN Append(WithTags(q, V), e) ELSE WithTags(q, V)
      BY OneMoreWithTags
    <3> QED
      BY <2>1, <3>1
  <2>3. WithTags(WithTags(r, T), U) = WithTags(r, T \cap U)
    BY <1>2
  <2>4. WithTags(WithTags(Append(r, e), T), U) = WithTags(Append(r, e), T \cap U)
    <3>1. CASE e.tag \in T /\ e.tag \in U
      BY <2>2, <2>3, <3>1
    <3>2. CASE e.tag \in T /\ e.tag \notin U
      BY <2>2, <2>3, <3>2
    <3>3. CASE e.tag \notin T
      BY <2>2, <2>3, <3>3
    <3> QED
      BY <3>1, <3>2, <3>3
  <2> QED
    BY <2>1, <2>4
<1> HIDE DEF S
<1>3. Seq(X) \subseteq S
  BY <1>1, <1>2, AppendInduction
<1> QED
  BY <1>3 DEF S

LEMMA WithTagsAll ==
  ASSUME NEW X, NEW s \in Seq(X), NEW T
  PROVE  /\ TagsOf(s) \subseteq T => WithTags(s, T) = s
         /\ TagsOf(s) \cap T = {} => WithTags(s, T) = << >>
<1> DEFINE P(r) == /\ TagsOf(r) \subseteq T => WithTags(r, T) = r
                   /\ TagsOf(r) \cap T = {} => WithTags(r, T) = << >>
           S == {r \in Seq(X) : P(r)}
<1>1. << >> \in S
  BY NoneWithTags, EmptySeq
<1>2. ASSUME NEW r \in Seq(X), NEW e \in X, r \in S
      PROVE  Append(r, e) \in S
  <2>1. Append(r, e) \in Seq(X) /\ TagsOf(Append(r, e)) = TagsOf(r) \cup {e.tag}
    BY AppendProperties, GrownBy
  <2>2. WithTags(Append(r, e), T) =
          IF e.tag \in T THEN Append(WithTags(r, T), e) ELSE WithTags(r, T)
    BY OneMoreWithTags
  <2>3. P(r)
    BY <1>2
  <2>4. CASE e.tag \in T
    BY <2>1, <2>2, <2>3, <2>4
  <2>5. CASE e.tag \notin T
    BY <2>1, <2>2, <2>3, <2>5
  <2> QED
    BY <2>4, <2>5
<1> HIDE DEF S
<1>3. Seq(X) \subseteq S
  BY <1>1, <1>2, AppendInduction
<1> QED
  BY <1>3 DEF S

(* Tags that no element has do not matter. *)
LEMMA WithTagsOnly ==
  ASSUME NEW X, NEW s \in Seq(X), NEW T
  PROVE  WithTags(s, T) = WithTags(s, T \cap TagsOf(s))
<1>1. WithTags(s, TagsOf(s)) = s
  BY WithTagsAll
<1>2. WithTags(WithTags(s, TagsOf(s)), T) = WithTags(s, TagsOf(s) \cap T)
  BY WithTagsTwice
<1>3. TagsOf(s) \cap T = T \cap TagsOf(s)
  OBVIOUS
<1> QED
  BY <1>1, <1>2, <1>3

LEMMA WithTagsRange ==
  ASSUME NEW X, NEW s \in Seq(X), NEW T
  PROVE  Range(WithTags(s, T)) = {p \in Range(s) : p.tag \in T}
<1> DEFINE S == {r \in Seq(X) : Range(WithTags(r, T)) = {p \in Range(r) : p.tag \in T}}
<1>1. << >> \in S
  BY NoneWithTags, EmptySeq, Nothing
<1>2. ASSUME NEW r \in Seq(X), NEW e \in X, r \in S
      PROVE  Append(r, e) \in S
  <2>1. /\ Append(r, e) \in Seq(X) /\ Range(Append(r, e)) = Range(r) \cup {e}
        /\ Range(Append(WithTags(r, T), e)) = Range(WithTags(r, T)) \cup {e}
    BY AppendProperties, GrownBy, WithTagsTyped
  <2>2. WithTags(Append(r, e), T) =
          IF e.tag \in T THEN Append(WithTags(r, T), e) ELSE WithTags(r, T)
    BY OneMoreWithTags
  <2> QED
    BY <1>2, <2>1, <2>2
<1> HIDE DEF S
<1>3. Seq(X) \subseteq S
  BY <1>1, <1>2, AppendInduction
<1> QED
  BY <1>3 DEF S

(* The lengths of selections of different tags add up. *)
LEMMA WithTagsLength ==
  ASSUME NEW X, NEW s \in Seq(X), NEW T, NEW U, T \cap U = {}
  PROVE  Len(WithTags(s, T \cup U)) = Len(WithTags(s, T)) + Len(WithTags(s, U))
<1> DEFINE S == {r \in Seq(X) : Len(WithTags(r, T \cup U)) = Len(WithTags(r, T)) + Len(WithTags(r, U))}
<1>1. << >> \in S
  BY NoneWithTags, EmptySeq
<1>2. ASSUME NEW r \in Seq(X), NEW e \in X, r \in S
      PROVE  Append(r, e) \in S
  <2>1. Append(r, e) \in Seq(X)
    BY AppendProperties
  <2>2. ASSUME NEW V
        PROVE  /\ Len(WithTags(r, V)) \in Nat
               /\ Len(WithTags(Append(r, e), V)) =
                    IF e.tag \in V THEN Len(WithTags(r, V)) + 1 ELSE Len(WithTags(r, V))
    BY OneMoreWithTags, WithTagsTyped, AppendProperties, LenProperties
  <2>3. /\ Len(WithTags(r, T)) \in Nat /\ Len(WithTags(r, U)) \in Nat
        /\ Len(WithTags(Append(r, e), T)) =
             IF e.tag \in T THEN Len(WithTags(r, T)) + 1 ELSE Len(WithTags(r, T))
        /\ Len(WithTags(Append(r, e), U)) =
             IF e.tag \in U THEN Len(WithTags(r, U)) + 1 ELSE Len(WithTags(r, U))
        /\ Len(WithTags(Append(r, e), T \cup U)) =
             IF e.tag \in T \cup U THEN Len(WithTags(r, T \cup U)) + 1 ELSE Len(WithTags(r, T \cup U))
    BY <2>2
  <2> DEFINE t == Len(WithTags(r, T))
             u == Len(WithTags(r, U))
  <2>4. Len(WithTags(r, T \cup U)) = t + u
    BY <1>2
  <2>5. Len(WithTags(Append(r, e), T \cup U)) =
          Len(WithTags(Append(r, e), T)) + Len(WithTags(Append(r, e), U))
    <3>1. t \in Nat /\ u \in Nat
      BY <2>3
    <3> HIDE DEF t, u
    <3>3. (IF e.tag \in T \cup U THEN t + u + 1 ELSE t + u)
            = (IF e.tag \in T THEN t + 1 ELSE t) + (IF e.tag \in U THEN u + 1 ELSE u)
      <4>1. CASE e.tag \in T
        BY <3>1, <4>1
      <4>2. CASE e.tag \in U
        BY <3>1, <4>2
      <4>3. CASE e.tag \notin T \cup U
        BY <3>1, <4>3
      <4> QED
        BY <4>1, <4>2, <4>3
    <3> QED
      BY <2>3, <2>4, <3>3 DEF t, u
  <2> QED
    BY <2>1, <2>5
<1> HIDE DEF S
<1>3. Seq(X) \subseteq S
  BY <1>1, <1>2, AppendInduction
<1> QED
  BY <1>3 DEF S

(* Changing every element, all but its tag, and selecting commute. *)
Mapped(f, s) == [i \in DOMAIN s |-> f[s[i]]]

LEMMA MappedTyped ==
  ASSUME NEW X, NEW Y, NEW f, \A x \in X : f[x] \in Y, NEW s \in Seq(X)
  PROVE  Mapped(f, s) \in Seq(Y)
<1>1. /\ Len(s) \in Nat /\ DOMAIN s = 1 .. Len(s) /\ \A i \in 1 .. Len(s) : s[i] \in X
  BY LenProperties, ElementOfSeq
<1>2. Mapped(f, s) \in [1 .. Len(s) -> Y]
  BY <1>1 DEF Mapped
<1> QED
  BY <1>1, <1>2, IsASeq

LEMMA MappedLen ==
  ASSUME NEW X, NEW f, NEW s \in Seq(X)
  PROVE  Len(Mapped(f, s)) = Len(s)
<1> DEFINE Y == {f[x] : x \in X}
<1>1. Mapped(f, s) \in Seq(Y)
  BY MappedTyped
<1>2. DOMAIN Mapped(f, s) = DOMAIN s
  BY DEF Mapped
<1> HIDE DEF Y
<1> QED
  BY <1>1, <1>2, LenProperties

LEMMA MappedAt ==
  ASSUME NEW f, NEW s
  PROVE  \A i \in DOMAIN s : Mapped(f, s)[i] = f[s[i]]
BY DEF Mapped

LEMMA MappedAppend ==
  ASSUME NEW X, NEW f, NEW s \in Seq(X), NEW e \in X
  PROVE  Mapped(f, Append(s, e)) = Append(Mapped(f, s), f[e])
<1> DEFINE Y == {f[x] : x \in X}
           t == Append(s, e)
           m == Mapped(f, s)
           more == Append(m, f[e])
<1>1. /\ t \in Seq(X) /\ Len(t) = Len(s) + 1
      /\ t[Len(s) + 1] = e /\ \A i \in 1 .. Len(s) : t[i] = s[i]
      /\ Len(s) \in Nat /\ DOMAIN s = 1 .. Len(s)
  BY AppendProperties, LenProperties
<1> HIDE DEF t
<1>2. DOMAIN t = 1 .. Len(s) + 1
  BY <1>1, LenProperties
<1>a. f[e] \in Y /\ \A x \in X : f[x] \in Y
  OBVIOUS
<1> HIDE DEF Y
<1>3. m \in Seq(Y) /\ Len(m) = Len(s)
  BY <1>a, MappedTyped, MappedLen
<1> HIDE DEF m
<1>4. /\ more \in Seq(Y) /\ Len(more) = Len(s) + 1
      /\ more[Len(s) + 1] = f[e] /\ \A i \in 1 .. Len(s) : more[i] = m[i]
  BY <1>3, <1>a, AppendProperties
<1>5. Mapped(f, t) \in Seq(Y) /\ Len(Mapped(f, t)) = Len(s) + 1
  BY <1>1, <1>a, MappedTyped, MappedLen
<1> HIDE DEF more
<1>6. ASSUME NEW i \in 1 .. Len(s) + 1
      PROVE  Mapped(f, t)[i] = more[i]
  <2>1. Mapped(f, t)[i] = f[t[i]]
    BY <1>2, MappedAt
  <2>2. CASE i = Len(s) + 1
    BY <1>1, <1>4, <2>1, <2>2
  <2>3. CASE i # Len(s) + 1
    <3>1. i \in 1 .. Len(s)
      BY <1>1, <2>3
    <3>2. m[i] = f[s[i]]
      BY <1>1, <3>1, MappedAt DEF m
    <3>3. t[i] = s[i] /\ more[i] = m[i]
      BY <1>1, <1>4, <3>1
    <3> QED
      BY <2>1, <3>2, <3>3
  <2> QED
    BY <2>2, <2>3
<1>7. Mapped(f, t) = more
  BY <1>4, <1>5, <1>6, SeqEqual
<1> QED
  BY <1>7 DEF t, m, more

KeepsTags(f, X) == \A p \in X : f[p].tag = p.tag

LEMMA WithTagsMapped ==
  ASSUME NEW X, NEW f, KeepsTags(f, X), NEW s \in Seq(X), NEW T
  PROVE  WithTags(Mapped(f, s), T) = Mapped(f, WithTags(s, T))
<1> DEFINE Y == {f[x] : x \in X}
<1>0. \A x \in X : f[x] \in Y
  OBVIOUS
<1> HIDE DEF Y
<1> DEFINE S == {r \in Seq(X) : WithTags(Mapped(f, r), T) = Mapped(f, WithTags(r, T))}
<1>1. << >> \in S
  <2>1. Mapped(f, << >>) = << >>
    BY DEF Mapped
  <2> QED
    BY <2>1, NoneWithTags, EmptySeq
<1>2. ASSUME NEW r \in Seq(X), NEW e \in X, r \in S
      PROVE  Append(r, e) \in S
  <2>1. /\ Append(r, e) \in Seq(X) /\ WithTags(r, T) \in Seq(X)
        /\ Mapped(f, r) \in Seq(Y) /\ f[e] \in Y
    BY <1>0, AppendProperties, WithTagsTyped, MappedTyped
  <2>2. /\ Mapped(f, Append(r, e)) = Append(Mapped(f, r), f[e])
        /\ Mapped(f, Append(WithTags(r, T), e)) = Append(Mapped(f, WithTags(r, T)), f[e])
    BY <2>1, MappedAppend
  <2>3. /\ WithTags(Append(r, e), T) =
             IF e.tag \in T THEN Append(WithTags(r, T), e) ELSE WithTags(r, T)
        /\ WithTags(Append(Mapped(f, r), f[e]), T) =
             IF f[e].tag \in T THEN Append(WithTags(Mapped(f, r), T), f[e])
             ELSE WithTags(Mapped(f, r), T)
    <3>1. ASSUME NEW Z, NEW q \in Seq(Z), NEW d \in Z
          PROVE  WithTags(Append(q, d), T) =
                   IF d.tag \in T THEN Append(WithTags(q, T), d) ELSE WithTags(q, T)
      BY OneMoreWithTags
    <3>2. PICK d : d = f[e]
      OBVIOUS
    <3>3. PICK q : q = Mapped(f, r)
      OBVIOUS
    <3>4. q \in Seq(Y) /\ d \in Y
      BY <2>1, <3>2, <3>3
    <3>5. WithTags(Append(q, d), T) =
            IF d.tag \in T THEN Append(WithTags(q, T), d) ELSE WithTags(q, T)
      BY <3>1, <3>4
    <3> QED
      BY <3>1, <3>2, <3>3, <3>5
  <2>4. f[e].tag = e.tag
    BY DEF KeepsTags
  <2> QED
    BY <1>2, <2>1, <2>2, <2>3, <2>4
<1> HIDE DEF S
<1>3. Seq(X) \subseteq S
  BY <1>1, <1>2, AppendInduction
<1> QED
  BY <1>3 DEF S
-----------------------------------------------------------------------------
(* The translations of a list are those of its elements. *)
LEMMA HidlToPb ==
  ASSUME NEW X, NEW params \in Seq(X), NEW f, \A p \in X : f[p] = KeyParameterToPb(p).value
  PROVE  /\ Succeeds(HidlParamsToPb(params)) <=> \A p \in Range(params) : Succeeds(KeyParameterToPb(p))
         /\ Succeeds(HidlParamsToPb(params)) => HidlParamsToPb(params).value = Mapped(f, params)
<1> DEFINE results == [i \in DOMAIN params |-> KeyParameterToPb(params[i])]
<1>1. \A i \in DOMAIN params : params[i] \in X
  BY ElementOfSeq, LenProperties
<1>2. DOMAIN results = DOMAIN params /\ \A i \in DOMAIN params : results[i] = KeyParameterToPb(params[i])
  OBVIOUS
<1>3. HidlParamsToPb(params) = TranslatedAll(results, "INVALID_ARGUMENT")
  BY DEF HidlParamsToPb
<1> HIDE DEF results
<1>4. [i \in DOMAIN results |-> results[i].value] = Mapped(f, params)
  BY <1>1, <1>2 DEF Mapped
<1>5. (\A i \in DOMAIN results : Succeeds(results[i]))
         <=> \A p \in Range(params) : Succeeds(KeyParameterToPb(p))
  BY <1>2 DEF Range
<1>6. CASE \A i \in DOMAIN results : Succeeds(results[i])
  <2>1. HidlParamsToPb(params) = Ok(Mapped(f, params))
    BY <1>3, <1>4, <1>6 DEF TranslatedAll
  <2> QED
    BY <2>1, <1>5, <1>6 DEF Ok, Succeeds
<1>7. CASE ~ \A i \in DOMAIN results : Succeeds(results[i])
  <2>1. HidlParamsToPb(params) = Fails("INVALID_ARGUMENT")
    BY <1>3, <1>7 DEF TranslatedAll
  <2>2. ~ Succeeds(HidlParamsToPb(params))
    BY <2>1 DEF Fails, Succeeds
  <2> QED
    BY <2>2, <1>5, <1>7
<1> QED
  BY <1>6, <1>7

LEMMA PbToHidl ==
  ASSUME NEW X, NEW pbs \in Seq(X), NEW f, \A q \in X : f[q] = PbToKeyParameter(q).value
  PROVE  /\ Succeeds(PbToHidlParams(pbs)) <=> \A q \in Range(pbs) : Succeeds(PbToKeyParameter(q))
         /\ Succeeds(PbToHidlParams(pbs)) => PbToHidlParams(pbs).value = Mapped(f, pbs)
<1> DEFINE results == [i \in DOMAIN pbs |-> PbToKeyParameter(pbs[i])]
<1>1. \A i \in DOMAIN pbs : pbs[i] \in X
  BY ElementOfSeq, LenProperties
<1>2. DOMAIN results = DOMAIN pbs /\ \A i \in DOMAIN pbs : results[i] = PbToKeyParameter(pbs[i])
  OBVIOUS
<1>3. PbToHidlParams(pbs) = TranslatedAll(results, "UNKNOWN_ERROR")
  BY DEF PbToHidlParams
<1> HIDE DEF results
<1>4. [i \in DOMAIN results |-> results[i].value] = Mapped(f, pbs)
  BY <1>1, <1>2 DEF Mapped
<1>5. (\A i \in DOMAIN results : Succeeds(results[i]))
         <=> \A q \in Range(pbs) : Succeeds(PbToKeyParameter(q))
  BY <1>2 DEF Range
<1>6. CASE \A i \in DOMAIN results : Succeeds(results[i])
  <2>1. PbToHidlParams(pbs) = Ok(Mapped(f, pbs))
    BY <1>3, <1>4, <1>6 DEF TranslatedAll
  <2> QED
    BY <2>1, <1>5, <1>6 DEF Ok, Succeeds
<1>7. CASE ~ \A i \in DOMAIN results : Succeeds(results[i])
  <2>1. PbToHidlParams(pbs) = Fails("UNKNOWN_ERROR")
    BY <1>3, <1>7 DEF TranslatedAll
  <2>2. ~ Succeeds(PbToHidlParams(pbs))
    BY <2>1 DEF Fails, Succeeds
  <2> QED
    BY <2>2, <1>5, <1>7
<1> QED
  BY <1>6, <1>7

(* The switches of the enumerations, there and back. *)
LEMMA EnumsReturn ==
  ASSUME NEW tag \in EnumTags
  PROVE  /\ "MAX" \notin DOMAIN EnumFromPb[tag]
         /\ \A v \in DOMAIN EnumToPb[tag] :
              EnumToPb[tag][v] \in DOMAIN EnumFromPb[tag] => EnumFromPb[tag][EnumToPb[tag][v]] = v
<1>1. tag \in {"PURPOSE", "ALGORITHM", "BLOCK_MODE", "DIGEST", "PADDING", "EC_CURVE",
              "BLOB_USAGE_REQUIREMENTS", "ORIGIN"}
  BY DEF EnumTags, EnumToPb
<1>2. CASE tag = "ALGORITHM"
  BY <1>2 DEF EnumToPb, EnumFromPb
<1>3. CASE tag # "ALGORITHM"
  BY <1>1, <1>3 DEF EnumToPb, EnumFromPb, Same
<1> QED
  BY <1>2, <1>3

LEMMA EnumsApart ==
  ASSUME NEW tag \in EnumTags
  PROVE  /\ tag # "INVALID"
         /\ tag \notin BoolTags \cup UintTags \cup FlagTags
         /\ tag \notin BoolTags \cup UintTags \cup FlagTags \cup LongTags \cup BlobTags
         /\ tag \notin LongTags /\ tag \notin BlobTags
BY DEF EnumTags, EnumToPb, BoolTags, UintTags, FlagTags, LongTags, BlobTags

LEMMA ParamSent ==
  ASSUME NEW p
  PROVE  /\ Succeeds(KeyParameterToPb(p)) <=> p.tag # "INVALID"
         /\ p.tag # "INVALID" => KeyParameterToPb(p).value.tag = p.tag
BY DEF KeyParameterToPb, PbParam, Ok, Fails, Succeeds, EnumTags, EnumToPb, BoolTags, UintTags,
   FlagTags, LongTags, BlobTags

LEMMA ParamReturns ==
  ASSUME NEW p, IsParam(p), p.tag # "INVALID",
         Succeeds(PbToKeyParameter(KeyParameterToPb(p).value))
  PROVE  PbToKeyParameter(KeyParameterToPb(p).value).value = p
<1> DEFINE q == KeyParameterToPb(p).value
           plain == BoolTags \cup UintTags \cup FlagTags \cup LongTags \cup BlobTags
<1>1. q.tag = p.tag
  BY ParamSent
<1>2. CASE p.tag \in EnumTags
  <2>1. q.value = IF p.value \in DOMAIN EnumToPb[p.tag] THEN EnumToPb[p.tag][p.value] ELSE "MAX"
    <3>1. KeyParameterToPb(p) = PbParam(p.tag, "integer",
                 IF p.value \in DOMAIN EnumToPb[p.tag] THEN EnumToPb[p.tag][p.value] ELSE "MAX")
      BY <1>2, EnumsApart DEF KeyParameterToPb
    <3> QED
      BY <3>1 DEF PbParam, Ok
  <2> HIDE DEF q
  <2>2. PbToKeyParameter(q) = IF q.value \in DOMAIN EnumFromPb[p.tag]
                              THEN KeyParam(p.tag, EnumFromPb[p.tag][q.value])
                              ELSE Fails("UNKNOWN_ERROR")
    BY <1>1, <1>2, EnumsApart DEF PbToKeyParameter
  <2>3. q.value \in DOMAIN EnumFromPb[p.tag]
    BY <2>2 DEF Succeeds, Fails, q
  <2>4. EnumFromPb[p.tag][q.value] = p.value
    BY <1>2, <2>1, <2>3, EnumsReturn
  <2>5. PbToKeyParameter(q).value = [tag |-> p.tag, value |-> p.value]
    BY <2>2, <2>3, <2>4 DEF KeyParam, Ok
  <2> QED
    BY <2>5 DEF IsParam, q
<1>3. CASE p.tag \notin EnumTags /\ p.tag \in plain
  <2>1. q.value = p.value
    BY <1>3 DEF KeyParameterToPb, PbParam, Ok
  <2> HIDE DEF q
  <2>2. PbToKeyParameter(q) = KeyParam(p.tag, p.value)
    BY <1>1, <1>3, <2>1 DEF PbToKeyParameter
  <2>3. PbToKeyParameter(q).value = [tag |-> p.tag, value |-> p.value]
    BY <2>2 DEF KeyParam, Ok
  <2> QED
    BY <2>3 DEF IsParam, q
<1>4. CASE p.tag \notin EnumTags /\ p.tag \notin plain
  <2> HIDE DEF q
  <2>1. PbToKeyParameter(q) = Fails("UNKNOWN_ERROR")
    BY <1>1, <1>4 DEF PbToKeyParameter
  <2> QED
    BY <2>1 DEF Fails, Succeeds, q
<1> QED
  BY <1>2, <1>3, <1>4
-----------------------------------------------------------------------------
(* SetToSeq names every element of a finite set once. *)
LEMMA SetInOrder ==
  ASSUME NEW S, IsFiniteSet(S)
  PROVE  /\ Cardinality(S) \in Nat
         /\ SetToSeq(S) \in [1 .. Cardinality(S) -> S]
         /\ \A i, j \in 1 .. Cardinality(S) : SetToSeq(S)[i] = SetToSeq(S)[j] => i = j
         /\ S = {SetToSeq(S)[i] : i \in 1 .. Cardinality(S)}
<1> DEFINE n == Cardinality(S)
           f == SetToSeq(S)
<1>1. n \in Nat /\ ExistsBijection(1 .. n, S)
  BY FS_CardinalityType
<1>2. \E g \in [1 .. n -> S] : IsInjective(g)
  BY <1>1 DEF ExistsBijection, Bijection, Injection
<1>3. f \in [1 .. n -> S] /\ IsInjective(f)
  BY <1>2 DEF SetToSeq
<1>4. IsFiniteSet(1 .. n) /\ Cardinality(1 .. n) = n
  BY <1>1, FS_Interval
<1> HIDE DEF f
<1>5. f \in Injection(1 .. n, S)
  BY <1>3 DEF Injection
<1>6. f \in Surjection(1 .. n, S)
  BY <1>4, <1>5, FS_Injection
<1>7. S = {f[i] : i \in 1 .. n}
  BY <1>3, <1>6 DEF Surjection
<1>8. \A i, j \in 1 .. n : f[i] = f[j] => i = j
  BY <1>3 DEF IsInjective
<1> QED
  BY <1>1, <1>3, <1>7, <1>8 DEF f

LEMMA TagsFinite ==
  ASSUME NEW X, NEW s \in Seq(X)
  PROVE  IsFiniteSet(TagsOf(s))
<1> DEFINE f == [i \in 1 .. Len(s) |-> s[i].tag]
<1>1. Len(s) \in Nat /\ DOMAIN s = 1 .. Len(s)
  BY LenProperties
<1>2. f \in Surjection(1 .. Len(s), TagsOf(s))
  BY <1>1 DEF Surjection, TagsOf
<1>3. IsFiniteSet(1 .. Len(s))
  BY <1>1, FS_Interval
<1> HIDE DEF f
<1> QED
  BY <1>2, <1>3, FS_Surjection

(* Parameters taken apart by tag and put together again, whatever the      *)
(* order of the tags: none is lost, and those of one tag keep theirs.      *)
ByTag(params, order) == FlattenSeq([i \in DOMAIN order |-> OfTag(params, order[i])])

(* A list that grows by its last element. *)
LEMMA ListGrows ==
  ASSUME NEW Y, NEW m \in Nat, NEW f \in [1 .. m + 1 -> Y],
         NEW g \in [1 .. m -> Y], \A i \in 1 .. m : g[i] = f[i]
  PROVE  f = Append(g, f[m + 1])
<1>1. f[m + 1] \in Y
  OBVIOUS
<1>2. \A i \in 1 .. m : g[i] = f[i]
  OBVIOUS
<1>3. g \in Seq(Y) /\ Len(g) = m /\ f \in Seq(Y) /\ Len(f) = m + 1
  BY <1>1, IsASeq, LenProperties
<1>4. /\ Append(g, f[m + 1]) \in Seq(Y) /\ Len(Append(g, f[m + 1])) = m + 1
      /\ Append(g, f[m + 1])[m + 1] = f[m + 1]
      /\ \A i \in 1 .. m : Append(g, f[m + 1])[i] = g[i]
  BY <1>1, <1>3, AppendProperties
<1>5. \A i \in 1 .. m + 1 : f[i] = Append(g, f[m + 1])[i]
  <2> TAKE i \in 1 .. m + 1
  <2>1. i \in 1 .. m \/ i = m + 1
    OBVIOUS
  <2> QED
    BY <1>2, <1>4, <2>1
<1> QED
  BY <1>1, <1>3, <1>4, <1>5, SeqEqual

(* The parameters with some tags, in whatever order the tags are. *)
Gathered(part, params, tags) ==
  /\ \A tag : OfTag(part, tag) = IF tag \in tags THEN OfTag(params, tag) ELSE << >>
  /\ Len(part) = Len(WithTags(params, tags))

LEMMA OneMoreTag ==
  ASSUME NEW X, NEW params \in Seq(X), NEW seen, NEW new, new \notin seen,
         NEW old \in Seq(X), Gathered(old, params, seen)
  PROVE  /\ old \o OfTag(params, new) \in Seq(X)
         /\ Gathered(old \o OfTag(params, new), params, seen \cup {new})
<1> PICK now : now = old \o OfTag(params, new)
  OBVIOUS
<1>0. /\ \A tag : OfTag(old, tag) = IF tag \in seen THEN OfTag(params, tag) ELSE << >>
      /\ Len(old) = Len(WithTags(params, seen))
  BY DEF Gathered
<1> DEFINE more == OfTag(params, new)
<1>1. more \in Seq(X)
  BY WithTagsTyped DEF OfTag
<1>2. now \in Seq(X) /\ Len(now) = Len(old) + Len(more)
  BY <1>1, ConcatProperties
<1>3. ASSUME NEW tag
      PROVE  OfTag(now, tag) = IF tag \in seen \cup {new} THEN OfTag(params, tag) ELSE << >>
  <2>1. OfTag(now, tag) = OfTag(old, tag) \o OfTag(more, tag)
    <3> HIDE DEF more
    <3>1. now = old \o more
      BY DEF more
    <3>2. ASSUME NEW T PROVE WithTags(old \o more, T) = WithTags(old, T) \o WithTags(more, T)
      BY <1>1, WithTagsConcat
    <3> QED
      BY <3>1, <3>2 DEF OfTag
  <2>2. OfTag(more, tag) = WithTags(params, {new} \cap {tag})
    <3>1. ASSUME NEW T, NEW U
          PROVE  WithTags(WithTags(params, T), U) = WithTags(params, T \cap U)
      BY WithTagsTwice
    <3> QED
      BY <3>1 DEF OfTag
  <2>3. OfTag(old, tag) \in Seq(X) /\ OfTag(params, tag) \in Seq(X)
    BY WithTagsTyped DEF OfTag
  <2>4. CASE tag = new
    <3>1. {new} \cap {tag} = {tag}
      BY <2>4
    <3>2. OfTag(more, tag) = OfTag(params, tag)
      BY <2>2, <3>1 DEF OfTag
    <3>3. OfTag(old, tag) = << >>
      BY <1>0, <2>4
    <3> HIDE DEF more
    <3> QED
      BY <2>1, <2>3, <2>4, <3>2, <3>3, ConcatEmptySeq
  <2>5. CASE tag # new
    <3>1. {new} \cap {tag} = {}
      BY <2>5
    <3>2. OfTag(more, tag) = << >>
      BY <2>2, <3>1, WithTagsAll
    <3>3. OfTag(now, tag) = OfTag(old, tag)
      BY <2>1, <2>3, <3>2, ConcatEmptySeq
    <3>4. tag \in seen \cup {new} <=> tag \in seen
      BY <2>5
    <3> QED
      BY <1>0, <3>3, <3>4
  <2> QED
    BY <2>4, <2>5
<1>4. Len(WithTags(params, seen \cup {new}))
        = Len(WithTags(params, seen)) + Len(WithTags(params, {new}))
  <2>1. seen \cap {new} = {}
    OBVIOUS
  <2> QED
    BY <2>1, WithTagsLength
<1>5. Len(now) = Len(WithTags(params, seen \cup {new}))
  BY <1>0, <1>2, <1>4 DEF OfTag
<1>6. Gathered(now, params, seen \cup {new})
  BY <1>3, <1>5 DEF Gathered
<1> QED
  BY <1>2, <1>6

(* Parameters taken apart by tag and put together again: nothing is lost,  *)
(* whatever the order of the tags.                                         *)
LEMMA ByTagKeeps ==
  ASSUME NEW X, NEW params \in Seq(X), NEW n \in Nat,
         NEW order \in [1 .. n -> TagsOf(params)],
         \A i, j \in 1 .. n : order[i] = order[j] => i = j,
         TagsOf(params) = {order[i] : i \in 1 .. n}
  PROVE  /\ ByTag(params, order) \in Seq(X)
         /\ \A tag : OfTag(ByTag(params, order), tag) = OfTag(params, tag)
         /\ Len(ByTag(params, order)) = Len(params)
<1> DEFINE list(m) == [i \in 1 .. m |-> OfTag(params, order[i])]
           part(m) == FlattenSeq(list(m))
           tags(m) == {order[i] : i \in 1 .. m}
           P(m) == part(m) \in Seq(X) /\ Gathered(part(m), params, tags(m))
           S == {m \in Nat : m <= n => P(m)}
<1>1. \A tag : OfTag(params, tag) \in Seq(X)
  BY WithTagsTyped DEF OfTag
<1>2. 0 \in S
  <2>1. list(0) = << >> /\ tags(0) = {}
    OBVIOUS
  <2>2. part(0) = << >>
    BY <2>1, FlattenEmpty
  <2>3. WithTags(params, {}) = << >>
    BY WithTagsAll
  <2>4. \A tag : OfTag(<< >>, tag) = << >>
    BY NoneWithTags DEF OfTag
  <2> HIDE DEF part, tags
  <2>5. P(0)
    BY <2>1, <2>2, <2>3, <2>4, EmptySeq DEF Gathered
  <2> QED
    BY <2>5
<1>3. ASSUME NEW m \in Nat, m \in S
      PROVE  m + 1 \in S
  <2> SUFFICES ASSUME m + 1 <= n PROVE P(m + 1)
    OBVIOUS
  <2>1. P(m)
    BY <1>3
  <2>2. PICK new : new = order[m + 1]
    OBVIOUS
  <2>3. PICK old : old = part(m)
    OBVIOUS
  <2>4. PICK now : now = part(m + 1)
    OBVIOUS
  <2>5. PICK seen : seen = tags(m)
    OBVIOUS
  <2>6. new \notin seen /\ tags(m + 1) = seen \cup {new}
    <3>1. \A i \in 1 .. m : i \in 1 .. n /\ i # m + 1
      OBVIOUS
    <3>2. m + 1 \in 1 .. n /\ 1 .. (m + 1) = (1 .. m) \cup {m + 1}
      OBVIOUS
    <3> QED
      BY <2>2, <2>5, <3>1, <3>2
  <2>7. now = old \o OfTag(params, new)
    <3>1. PICK f : f = list(m + 1)
      OBVIOUS
    <3>2. f \in [1 .. m + 1 -> Seq(X)]
      BY <1>1, <3>1
    <3>3. PICK g : g = list(m)
      OBVIOUS
    <3>4. g \in [1 .. m -> Seq(X)] /\ (\A i \in 1 .. m : g[i] = f[i])
      BY <1>1, <3>1, <3>3
    <3>5. f[m + 1] = OfTag(params, new) /\ f[m + 1] \in Seq(X) /\ g \in Seq(Seq(X))
      <4>1. f[m + 1] = OfTag(params, new)
        BY <2>2, <3>1
      <4>2. g \in Seq(Seq(X))
        BY <3>4, IsASeq
      <4> QED
        BY <1>1, <4>1, <4>2
    <3>0. f = Append(g, f[m + 1])
      BY <3>2, <3>4, ListGrows
    <3>6. FlattenSeq(f) = FlattenSeq(g) \o f[m + 1]
      BY <3>0, <3>5, FlattenAppend
    <3>7. now = FlattenSeq(f) /\ old = FlattenSeq(g)
      BY <2>3, <2>4, <3>1, <3>3
    <3> QED
      BY <3>5, <3>6, <3>7
  <2>8. old \in Seq(X) /\ Gathered(old, params, seen)
    BY <2>1, <2>3, <2>5
  <2>9. now \in Seq(X) /\ Gathered(now, params, seen \cup {new})
    BY <2>6, <2>7, <2>8, OneMoreTag
  <2> HIDE DEF part, tags
  <2> QED
    BY <2>4, <2>6, <2>9
<1> HIDE DEF S
<1>4. Nat \subseteq S
  BY <1>2, <1>3, SetInduction
<1>5. P(n)
  <2>1. n \in S /\ n <= n
    BY <1>4
  <2> HIDE DEF P
  <2> QED
    BY <2>1 DEF S
<1>6. ByTag(params, order) = part(n) /\ tags(n) = TagsOf(params)
  <2>1. DOMAIN order = 1 .. n
    OBVIOUS
  <2> QED
    BY <2>1 DEF ByTag
<1>7. WithTags(params, TagsOf(params)) = params
  BY WithTagsAll
<1>8. ASSUME NEW tag, tag \notin TagsOf(params) PROVE OfTag(params, tag) = << >>
  <2>1. {tag} \cap TagsOf(params) = {}
    BY <1>8
  <2>2. WithTags(params, {tag}) = WithTags(params, {tag} \cap TagsOf(params))
    <3>1. ASSUME NEW T PROVE WithTags(params, T) = WithTags(params, T \cap TagsOf(params))
      BY WithTagsOnly
    <3> QED
      BY <3>1
  <2>3. WithTags(params, {}) = << >>
    BY WithTagsAll
  <2> QED
    BY <2>1, <2>2, <2>3 DEF OfTag
<1> HIDE DEF part, tags
<1> QED
  BY <1>5, <1>6, <1>7, <1>8 DEF Gathered
-----------------------------------------------------------------------------
(* What the chip reports of a key made with some parameters.               *)
LEMMA ThereAndBack ==
  ASSUME NEW X, NEW s \in Seq(X), NEW f, NEW g, \A p \in Range(s) : g[f[p]] = p
  PROVE  Mapped(g, Mapped(f, s)) = s
<1>1. Len(s) \in Nat /\ DOMAIN s = 1 .. Len(s)
  BY LenProperties
<1>2. \A i \in DOMAIN s : s[i] \in Range(s)
  BY DEF Range
<1> DEFINE t == [i \in DOMAIN s |-> f[s[i]]]
<1>3. DOMAIN t = DOMAIN s /\ \A i \in DOMAIN s : t[i] = f[s[i]]
  OBVIOUS
<1> HIDE DEF t
<1>4. [i \in DOMAIN t |-> g[t[i]]] = [i \in DOMAIN s |-> s[i]]
  BY <1>2, <1>3
<1>5. [i \in DOMAIN s |-> s[i]] = s
  BY <1>1
<1>6. Mapped(f, s) = t
  BY DEF Mapped, t
<1> QED
  BY <1>4, <1>5, <1>6 DEF Mapped

TheOrigin(name) == [tag |-> "ORIGIN", value |-> name]

LEMMA OriginReturns ==
  ASSUME NEW name \in {"GENERATED", "IMPORTED"}
  PROVE  PbToKeyParameter(Origin(name)).value = TheOrigin(name)
<1>1. "ORIGIN" \in EnumTags /\ name \in DOMAIN EnumFromPb["ORIGIN"] /\ EnumFromPb["ORIGIN"][name] = name
  BY DEF EnumTags, EnumToPb, EnumFromPb, Same
<1>2. Origin(name).tag = "ORIGIN" /\ Origin(name).value = name
  BY DEF Origin
<1>3. PbToKeyParameter(Origin(name)) = KeyParam("ORIGIN", name)
  BY <1>1, <1>2 DEF PbToKeyParameter
<1> QED
  BY <1>3 DEF KeyParam, Ok, TheOrigin

LEMMA SeqOver ==
  ASSUME NEW X, NEW Z, NEW s \in Seq(X), Range(s) \subseteq Z
  PROVE  s \in Seq(Z)
<1>1. Len(s) \in Nat /\ DOMAIN s = 1 .. Len(s)
  BY LenProperties
<1>2. s = [i \in 1 .. Len(s) |-> s[i]]
  BY <1>1
<1>3. \A i \in 1 .. Len(s) : s[i] \in Z
  BY <1>1 DEF Range
<1>4. s \in [1 .. Len(s) -> Z]
  BY <1>2, <1>3
<1> QED
  BY <1>1, <1>4, IsASeq

LEMMA KeyReports ==
  ASSUME NEW X, \A p \in X : IsParam(p) /\ p.tag # "INVALID", NEW params \in Seq(X),
         Succeeds(HidlParamsToPb(params)),
         NEW name \in {"GENERATED", "IMPORTED"},
         NEW key, key = KeyMade(HidlParamsToPb(params).value, name),
         Succeeds(PbToHidlParams(key.software)), Succeeds(PbToHidlParams(key.tee))
  PROVE  /\ ListReported(key.software) = WithTags(params, SoftwareTags)
         /\ ListReported(key.tee) =
              Append(WithTags(params, TagsOf(params) \ SoftwareTags), TheOrigin(name))
<1> DEFINE f == [p \in X |-> KeyParameterToPb(p).value]
           Y == {f[p] : p \in X} \cup {Origin(name)}
           g == [q \in Y |-> PbToKeyParameter(q).value]
           Z == {g[q] : q \in Y}
           pbs == Mapped(f, params)
           soft == WithTags(params, SoftwareTags)
           hard == WithTags(params, TagsOf(params) \ SoftwareTags)
<1>1. /\ \A p \in X : f[p] = KeyParameterToPb(p).value /\ f[p] \in Y
      /\ \A q \in Y : g[q] = PbToKeyParameter(q).value /\ g[q] \in Z
      /\ f \in [X -> Y] /\ g \in [Y -> Z] /\ Origin(name) \in Y
  OBVIOUS
<1> HIDE DEF f, Y, g, Z
<1>2. \A p \in X : f[p].tag = p.tag
  BY <1>1, ParamSent
<1>3. /\ soft \in Seq(X) /\ hard \in Seq(X)
      /\ Mapped(f, soft) \in Seq(Y) /\ Mapped(f, hard) \in Seq(Y) /\ pbs \in Seq(Y)
  BY <1>1, WithTagsTyped, MappedTyped
<1>4. HidlParamsToPb(params).value = pbs
  BY <1>1, HidlToPb
<1>5. TagsOf(pbs) = TagsOf(params)
  <2>1. /\ DOMAIN pbs = DOMAIN params
        /\ \A i \in DOMAIN params : pbs[i] = f[params[i]]
    BY DEF Mapped
  <2>2. \A i \in DOMAIN params : params[i] \in X
    BY ElementOfSeq, LenProperties
  <2>3. \A i \in DOMAIN params : pbs[i].tag = params[i].tag
    BY <1>2, <2>1, <2>2
  <2> HIDE DEF pbs
  <2> QED
    BY <2>1, <2>3 DEF TagsOf
<1>6. /\ WithTags(pbs, SoftwareTags) = Mapped(f, soft)
      /\ WithTags(pbs, TagsOf(pbs) \ SoftwareTags) = Mapped(f, hard)
  <2>1. ASSUME NEW T PROVE WithTags(pbs, T) = Mapped(f, WithTags(params, T))
    <3>1. KeepsTags(f, X)
      BY <1>1, <1>2 DEF KeepsTags
    <3> QED
      BY <3>1, WithTagsMapped
  <2> HIDE DEF pbs
  <2> QED
    BY <1>5, <2>1
<1>7. /\ key.software = Mapped(f, soft)
      /\ key.tee = Append(Mapped(f, hard), Origin(name))
  <2>1. key = KeyMade(pbs, name)
    BY <1>4
  <2>2. /\ key.software = WithTags(pbs, SoftwareTags)
        /\ key.tee = Append(WithTags(pbs, TagsOf(pbs) \ SoftwareTags), Origin(name))
    BY ONLY <2>1 DEF KeyMade
  <2> HIDE DEF pbs, soft, hard
  <2> QED
    BY <1>6, <2>2
<1>8. key.software \in Seq(Y) /\ key.tee \in Seq(Y)
  BY <1>1, <1>3, <1>7, AppendProperties
<1>9. /\ ListReported(key.software) = Mapped(g, key.software)
      /\ ListReported(key.tee) = Mapped(g, key.tee)
      /\ \A q \in Range(key.software) \cup Range(key.tee) : Succeeds(PbToKeyParameter(q))
  BY <1>1, <1>8, PbToHidl DEF ListReported
<1> HIDE DEF pbs, soft, hard
<1>10. Mapped(g, key.tee) = Append(Mapped(g, Mapped(f, hard)), TheOrigin(name))
  <2>1. Mapped(g, Append(Mapped(f, hard), Origin(name)))
          = Append(Mapped(g, Mapped(f, hard)), g[Origin(name)])
    <3>1. g \in [Y -> Z] /\ Mapped(f, hard) \in Seq(Y) /\ Origin(name) \in Y
      BY <1>1, <1>3
    <3> QED
      BY ONLY <3>1, MappedAppend
  <2>2. g[Origin(name)] = TheOrigin(name)
    BY <1>1, OriginReturns
  <2> QED
    BY <1>7, <2>1, <2>2
<1>11. ASSUME NEW s \in Seq(X), \A q \in Range(Mapped(f, s)) : Succeeds(PbToKeyParameter(q))
       PROVE  Mapped(g, Mapped(f, s)) = s
  <2>1. DOMAIN s = DOMAIN Mapped(f, s) /\ \A i \in DOMAIN s : Mapped(f, s)[i] = f[s[i]]
    BY DEF Mapped
  <2>2. \A i \in DOMAIN s : s[i] \in X
    BY ElementOfSeq, LenProperties
  <2>3. \A i \in DOMAIN s : Succeeds(PbToKeyParameter(f[s[i]]))
    BY <1>11, <2>1 DEF Range
  <2>4. \A i \in DOMAIN s : g[f[s[i]]] = s[i]
    <3> TAKE i \in DOMAIN s
    <3>1. PICK p \in X : p = s[i]
      BY <2>2
    <3>2. Succeeds(PbToKeyParameter(KeyParameterToPb(p).value))
      BY <1>1, <2>3, <3>1
    <3>3. PbToKeyParameter(KeyParameterToPb(p).value).value = p
      BY <3>2, ParamReturns
    <3>4. g[f[p]] = p
      BY <1>1, <3>3
    <3> QED
      BY <3>1, <3>4
  <2>5. \A p \in Range(s) : g[f[p]] = p
    BY <2>4 DEF Range
  <2> QED
    BY <2>5, ThereAndBack
<1>12. Range(Mapped(f, hard)) \subseteq Range(key.tee)
  BY <1>1, <1>3, <1>7, GrownBy
<1> QED
  BY <1>3, <1>7, <1>9, <1>10, <1>11, <1>12 DEF soft, hard

(* Nothing is lost between the two lists. *)
LEMMA NothingLost ==
  ASSUME NEW X, NEW params \in Seq(X), NEW origin \in X, origin.tag = "ORIGIN", NEW report,
         report = WithTags(params, SoftwareTags)
                    \o Append(WithTags(params, TagsOf(params) \ SoftwareTags), origin)
  PROVE  /\ \A tag : tag # "ORIGIN" => OfTag(report, tag) = OfTag(params, tag)
         /\ Len(report) = Len(params) + 1
<1> DEFINE rest == TagsOf(params) \ SoftwareTags
           soft == WithTags(params, SoftwareTags)
           hard == WithTags(params, rest)
<1>1. ASSUME NEW T, NEW U
      PROVE  /\ WithTags(params, T) \in Seq(X)
             /\ WithTags(WithTags(params, T), U) = WithTags(params, T \cap U)
             /\ WithTags(params, T) = WithTags(params, T \cap TagsOf(params))
  BY WithTagsTyped, WithTagsTwice, WithTagsOnly
<1>2. /\ soft \in Seq(X) /\ hard \in Seq(X) /\ Append(hard, origin) \in Seq(X)
      /\ Len(Append(hard, origin)) = Len(hard) + 1
  BY <1>1, AppendProperties
<1>3. ASSUME NEW tag, tag # "ORIGIN"
      PROVE  OfTag(report, tag) = OfTag(params, tag)
  <2>1. OfTag(report, tag) = OfTag(soft, tag) \o OfTag(Append(hard, origin), tag)
    <3>1. PICK s : s = soft
      OBVIOUS
    <3>2. PICK t : t = Append(hard, origin)
      OBVIOUS
    <3>3. s \in Seq(X) /\ t \in Seq(X)
      BY <1>2, <3>1, <3>2
    <3>5. report = s \o t
      BY <3>1, <3>2
    <3> HIDE DEF soft, hard, rest
    <3>4. ASSUME NEW T PROVE WithTags(s \o t, T) = WithTags(s, T) \o WithTags(t, T)
      BY ONLY <3>3, WithTagsConcat
    <3> QED
      BY <3>1, <3>2, <3>5, <3>4 DEF OfTag
  <2>2. OfTag(Append(hard, origin), tag) = OfTag(hard, tag)
    <3>1. ASSUME NEW s \in Seq(X), NEW T, origin.tag \notin T
          PROVE  WithTags(Append(s, origin), T) = WithTags(s, T)
      BY <3>1, OneMoreWithTags
    <3>2. origin.tag \notin {tag}
      BY <1>3
    <3> HIDE DEF hard
    <3> QED
      BY <1>2, <3>1, <3>2 DEF OfTag
  <2>3. /\ OfTag(soft, tag) = WithTags(params, SoftwareTags \cap {tag})
        /\ OfTag(hard, tag) = WithTags(params, rest \cap {tag})
    BY <1>1 DEF OfTag
  <2>4. WithTags(params, {}) = << >> /\ OfTag(params, tag) \in Seq(X)
    BY <1>1, WithTagsAll DEF OfTag
  <2> HIDE DEF soft, hard, rest
  <2>5. CASE tag \in SoftwareTags
    <3>1. SoftwareTags \cap {tag} = {tag} /\ rest \cap {tag} = {}
      BY <2>5 DEF rest
    <3>2. OfTag(soft, tag) = OfTag(params, tag) /\ OfTag(hard, tag) = << >>
      BY <2>3, <2>4, <3>1 DEF OfTag
    <3> QED
      BY <2>1, <2>2, <2>4, <3>2, ConcatEmptySeq
  <2>6. CASE tag \notin SoftwareTags
    <3>1. SoftwareTags \cap {tag} = {} /\ rest \cap {tag} = {tag} \cap TagsOf(params)
      BY <2>6 DEF rest
    <3>2. OfTag(soft, tag) = << >> /\ OfTag(hard, tag) = OfTag(params, tag)
      BY <1>1, <2>3, <2>4, <3>1 DEF OfTag
    <3> QED
      BY <2>1, <2>2, <2>4, <3>2, ConcatEmptySeq
  <2> QED
    BY <2>5, <2>6
<1>4. Len(report) = Len(params) + 1
  <2>1. Len(report) = Len(soft) + Len(hard) + 1
    <3>1. Len(soft) \in Nat /\ Len(hard) \in Nat
      BY <1>2, LenProperties
    <3> HIDE DEF soft, hard
    <3>2. report = soft \o Append(hard, origin)
      BY DEF soft, hard
    <3>3. Len(report) = Len(soft) + Len(Append(hard, origin))
      BY <1>2, <3>2, ConcatProperties
    <3> QED
      BY <1>2, <3>1, <3>3
  <2>2. Len(WithTags(params, SoftwareTags \cup rest)) = Len(soft) + Len(hard)
    <3>1. SoftwareTags \cap rest = {}
      OBVIOUS
    <3> QED
      BY <3>1, WithTagsLength
  <2>3. WithTags(params, SoftwareTags \cup rest) = params
    <3>1. (SoftwareTags \cup rest) \cap TagsOf(params) = TagsOf(params)
      OBVIOUS
    <3>2. WithTags(params, TagsOf(params)) = params
      BY WithTagsAll
    <3> QED
      BY <1>1, <3>1, <3>2
  <2> QED
    BY <2>1, <2>2, <2>3
<1> QED
  BY <1>3, <1>4

(* What importKey sends: the parameters, in the order of their tags. *)
LEMMA SentByTag ==
  ASSUME NEW X, NEW params \in Seq(X), NEW sent, sent = ByTag(params, SetToSeq(TagsOf(params)))
  PROVE  /\ sent \in Seq(X)
         /\ \A tag : OfTag(sent, tag) = OfTag(params, tag)
         /\ Len(sent) = Len(params)
<1> DEFINE S == TagsOf(params)
           n == Cardinality(S)
           order == SetToSeq(S)
<1>1. IsFiniteSet(S)
  BY TagsFinite
<1>2. /\ n \in Nat
      /\ order \in [1 .. n -> S]
      /\ \A i, j \in 1 .. n : order[i] = order[j] => i = j
      /\ S = {order[i] : i \in 1 .. n}
  BY <1>1, SetInOrder
<1> HIDE DEF n, order
<1> QED
  BY <1>2, ByTagKeeps DEF order

LEMMA MapSent ==
  ASSUME NEW X, NEW params \in Seq(X), Succeeds(HidlParamsToMap(params))
  PROVE  MapParamsToPb(HidlParamsToMap(params).value)
           = HidlParamsToPb(ByTag(params, SetToSeq(TagsOf(params))))
<1> DEFINE map == [t \in TagsOf(params) |-> OfTag(params, t)]
           S == TagsOf(params)
           order == SetToSeq(S)
<1>1. HidlParamsToMap(params).value = map
  BY DEF HidlParamsToMap, Ok, Fails, Succeeds
<1>2. DOMAIN map = S
  OBVIOUS
<1>3. \A i \in DOMAIN order : order[i] \in S
  <2>1. IsFiniteSet(S)
    BY TagsFinite
  <2>2. order \in [1 .. Cardinality(S) -> S]
    BY <2>1, SetInOrder
  <2> HIDE DEF order, S
  <2> QED
    BY <2>2
<1>4. [i \in DOMAIN order |-> map[order[i]]] = [i \in DOMAIN order |-> OfTag(params, order[i])]
  <2> HIDE DEF order
  <2> QED
    BY <1>3
<1>5. MapParamsToPb(map) = HidlParamsToPb(FlattenSeq([i \in DOMAIN order |-> map[order[i]]]))
  <2> HIDE DEF map
  <2> QED
    BY <1>2 DEF MapParamsToPb
<1> HIDE DEF map, order
<1> QED
  BY <1>1, <1>4, <1>5 DEF ByTag, order

(* What a key reports that was made with the parameters that were sent.    *)
Reports(report, sent) ==
  /\ \A tag : tag # "ORIGIN" => OfTag(report, tag) = OfTag(sent, tag)
  /\ Len(report) = Len(sent) + 1

LEMMA ReportRight ==
  ASSUME NEW X, \A p \in X : IsParam(p), NEW sent \in Seq(X), "INVALID" \notin TagsOf(sent),
         Succeeds(HidlParamsToPb(sent)),
         NEW name \in {"GENERATED", "IMPORTED"},
         NEW key, key = KeyMade(HidlParamsToPb(sent).value, name),
         Succeeds(PbToHidlParams(key.software)), Succeeds(PbToHidlParams(key.tee)),
         NEW report, report = ListReported(key.software) \o ListReported(key.tee)
  PROVE  Reports(report, sent)
<1> DEFINE Y == {p \in X : p.tag # "INVALID"} \cup {TheOrigin(name)}
<1>1. /\ \A p \in Y : IsParam(p) /\ p.tag # "INVALID"
      /\ TheOrigin(name) \in Y /\ TheOrigin(name).tag = "ORIGIN"
  BY DEF IsParam, TheOrigin
<1>2. sent \in Seq(Y)
  <2>1. \A i \in DOMAIN sent : sent[i] \in X /\ sent[i].tag # "INVALID"
    BY ElementOfSeq, LenProperties DEF TagsOf
  <2>2. Range(sent) \subseteq Y
    BY <2>1 DEF Range
  <2> HIDE DEF Y
  <2> QED
    BY <2>2, SeqOver
<1> HIDE DEF Y
<1>3. /\ ListReported(key.software) = WithTags(sent, SoftwareTags)
      /\ ListReported(key.tee) =
           Append(WithTags(sent, TagsOf(sent) \ SoftwareTags), TheOrigin(name))
  BY <1>1, <1>2, KeyReports
<1>4. report = WithTags(sent, SoftwareTags)
                 \o Append(WithTags(sent, TagsOf(sent) \ SoftwareTags), TheOrigin(name))
  BY <1>3
<1>5. PICK origin \in Y : origin = TheOrigin(name)
  BY <1>1
<1>6. origin.tag = "ORIGIN"
  BY <1>1, <1>5
<1>7. report = WithTags(sent, SoftwareTags)
                 \o Append(WithTags(sent, TagsOf(sent) \ SoftwareTags), origin)
  BY <1>4, <1>5
<1>8. /\ \A tag : tag # "ORIGIN" => OfTag(report, tag) = OfTag(sent, tag)
      /\ Len(report) = Len(sent) + 1
  BY ONLY <1>2, <1>6, <1>7, NothingLost
<1> QED
  BY <1>8 DEF Reports

(* No parameter of the invalid tag is ever sent. *)
LEMMA SentValid ==
  ASSUME NEW X, NEW sent \in Seq(X), Succeeds(HidlParamsToPb(sent))
  PROVE  "INVALID" \notin TagsOf(sent)
<1> DEFINE f == [p \in X |-> KeyParameterToPb(p).value]
<1>1. \A p \in X : f[p] = KeyParameterToPb(p).value
  OBVIOUS
<1> HIDE DEF f
<1>2. \A p \in Range(sent) : p.tag # "INVALID"
  BY <1>1, HidlToPb, ParamSent
<1> QED
  BY <1>2 DEF TagsOf, Range

LEMMA ParamLists ==
  ASSUME NEW n \in 0 .. MaxParams, NEW params \in Lists(n)
  PROVE  params \in Seq(Params)
BY KeyImportAssumption, IsASeq DEF Lists

(* What a successful importKey has sent. *)
LEMMA RequestSends ==
  ASSUME NEW params \in Seq(Params), NEW format, NEW key,
         Succeeds(ImportKeyRequest(params, format, key))
  PROVE  /\ "INVALID" \notin TagsOf(params)
         /\ ImportKeyRequest(params, format, key)
              = HidlParamsToPb(ByTag(params, SetToSeq(TagsOf(params))))
<1> DEFINE map == HidlParamsToMap(params)
           material == Material(map.value, format, key)
<1>1. \A code : code # "OK" => ~ Succeeds(Fails(code))
  BY DEF Succeeds, Fails
<1>2. ImportKeyRequest(params, format, key) =
        CASE format = "X509" -> Fails("UNSUPPORTED_KEY_FORMAT")
          [] format # "X509" /\ ~ Succeeds(map) -> map
          [] format # "X509" /\ Succeeds(map) /\ "ALGORITHM" \notin DOMAIN map.value ->
               Fails("INVALID_ARGUMENT")
          [] OTHER -> IF Succeeds(material) THEN MapParamsToPb(map.value) ELSE material
  BY DEF ImportKeyRequest
<1> HIDE DEF map, material
<1>3. Succeeds(map) /\ ImportKeyRequest(params, format, key) = MapParamsToPb(map.value)
  BY <1>1, <1>2
<1>4. "INVALID" \notin TagsOf(params)
  BY <1>1, <1>3 DEF map, HidlParamsToMap
<1> QED
  BY <1>3, <1>4, MapSent DEF map

LEMMA ReportsNext == Next => ReportsWhatWasAsked'
<1> SUFFICES ASSUME Next PROVE ReportsWhatWasAsked'
  OBVIOUS
<1> USE DEF NoCall
<1>0. \A code : code # "OK" => ~ Succeeds(Fails(code))
  BY DEF Succeeds, Fails
(* A key made with parameters that have those asked for, tag by tag. *)
<1>m. ASSUME NEW params \in Seq(Params), call'.params = params,
             NEW sent \in Seq(Params), "INVALID" \notin TagsOf(sent),
             Len(sent) = Len(params),
             \A tag \in TagsOf(params) : OfTag(sent, tag) = OfTag(params, tag),
             NEW name \in {"GENERATED", "IMPORTED"},
             Succeeds(HidlParamsToPb(sent)), chip' = KeyMade(HidlParamsToPb(sent).value, name),
             answer' = Reported(chip')
      PROVE  ReportsWhatWasAsked'
  <2> SUFFICES ASSUME Translates', SoftwareTranslates' PROVE ReportsWhatWasAsked'
    BY DEF ReportsWhatWasAsked
  <2> DEFINE report == ListReported(chip'.software) \o ListReported(chip'.tee)
  <2>1. answer'.value.software \o answer'.value.tee = report
    BY <1>m DEF Reported, Ok
  <2>2. Succeeds(PbToHidlParams(chip'.software)) /\ Succeeds(PbToHidlParams(chip'.tee))
    BY DEF Translates, SoftwareTranslates
  <2> HIDE DEF report
  <2>3. Reports(report, sent)
    BY <1>m, <2>2, KeyImportAssumption, ReportRight DEF report
  <2>4. /\ \A tag \in TagsOf(params) \ {"ORIGIN"} : OfTag(report, tag) = OfTag(params, tag)
        /\ Len(report) = Len(params) + 1
    BY <1>m, <2>3 DEF Reports
  <2> QED
    BY <1>m, <2>1, <2>4 DEF ReportsWhatWasAsked
<1>1. ASSUME NEW n \in 0 .. MaxParams, NEW params \in Lists(n), NEW format \in Formats,
             NEW key \in Keys, ImportKey(params, format, key)
      PROVE  ReportsWhatWasAsked'
  <2> DEFINE request == ImportKeyRequest(params, format, key)
             sent == ByTag(params, SetToSeq(TagsOf(params)))
  <2>1. params \in Seq(Params) /\ call'.params = params
    BY <1>1, ParamLists DEF ImportKey
  <2>2. CASE ~ Succeeds(request)
    <3>1. answer' = request
      BY <1>1, <2>2 DEF ImportKey
    <3> QED
      BY <2>2, <3>1 DEF ReportsWhatWasAsked
  <2>3. CASE Succeeds(request)
    <3>1. chip' = KeyMade(request.value, "IMPORTED") /\ answer' = ReportedByImport(chip')
      BY <1>1, <2>3 DEF ImportKey
    <3>2. "INVALID" \notin TagsOf(params) /\ request = HidlParamsToPb(sent)
      BY <2>1, <2>3, RequestSends
    <3>3. /\ sent \in Seq(Params) /\ Len(sent) = Len(params)
          /\ \A tag : OfTag(sent, tag) = OfTag(params, tag)
      BY <2>1, SentByTag
    <3>4. "INVALID" \notin TagsOf(sent)
      BY <2>3, <3>2, <3>3, SentValid
    <3> HIDE DEF request, sent
    <3> QED
      BY <1>m, <2>1, <2>3, <3>1, <3>2, <3>3, <3>4 DEF ReportedByImport, ReportsWhatWasAsked, Translates
  <2> QED
    BY <2>2, <2>3
<1>2. ASSUME NEW n \in 0 .. MaxParams, NEW params \in Lists(n), GenerateKey(params)
      PROVE  ReportsWhatWasAsked'
  <2>1. params \in Seq(Params) /\ call'.params = params
    BY <1>2, ParamLists DEF GenerateKey
  <2>2. CASE ~ Succeeds(HidlParamsToPb(params))
    <3>1. answer' = HidlParamsToPb(params)
      BY <1>2, <2>2 DEF GenerateKey
    <3> QED
      BY <2>2, <3>1 DEF ReportsWhatWasAsked
  <2>3. CASE Succeeds(HidlParamsToPb(params))
    <3>1. chip' = KeyMade(HidlParamsToPb(params).value, "GENERATED") /\ answer' = Reported(chip')
      BY <1>2, <2>3 DEF GenerateKey
    <3>2. "INVALID" \notin TagsOf(params)
      BY <2>1, <2>3, SentValid
    <3> QED
      BY <1>m, <2>1, <2>3, <3>1, <3>2
  <2> QED
    BY <2>2, <2>3
<1>3. ASSUME NEW w \in Wrappers, ImportWrappedKey(w) PROVE ReportsWhatWasAsked'
  BY <1>3 DEF ImportWrappedKey, ReportsWhatWasAsked
<1>4. CASE GetKeyCharacteristics
  BY <1>4 DEF GetKeyCharacteristics, ReportsWhatWasAsked
<1>5. CASE ChipRefuses
  BY <1>5 DEF ChipRefuses, ReportsWhatWasAsked
<1> QED
  BY <1>1, <1>2, <1>3, <1>4, <1>5 DEF Next

(* The values given for a tag, in a list of parameters. *)
GivenIn(params, tag) == {params[i].value : i \in {j \in DOMAIN params : params[j].tag = tag}}

LEMMA ValuesGiven ==
  ASSUME NEW X, NEW params \in Seq(X), NEW tag
  PROVE  /\ GivenIn(params, tag) = {OfTag(params, tag)[i].value : i \in DOMAIN OfTag(params, tag)}
         /\ Len(OfTag(params, tag)) \in Nat
         /\ DOMAIN OfTag(params, tag) = 1 .. Len(OfTag(params, tag))
         /\ tag \in TagsOf(params) <=> Len(OfTag(params, tag)) > 0
<1>1. PICK list : list = OfTag(params, tag)
  OBVIOUS
<1>2. Range(list) = {p \in Range(params) : p.tag = tag}
  <2>1. ASSUME NEW T PROVE Range(WithTags(params, T)) = {p \in Range(params) : p.tag \in T}
    BY WithTagsRange
  <2>2. Range(list) = {p \in Range(params) : p.tag \in {tag}}
    BY <1>1, <2>1 DEF OfTag
  <2> QED
    BY <2>2
<1>3. list \in Seq(X) /\ Len(list) \in Nat /\ DOMAIN list = 1 .. Len(list)
  BY <1>1, WithTagsTyped, LenProperties DEF OfTag
<1>4. GivenIn(params, tag) = {p.value : p \in {q \in Range(params) : q.tag = tag}}
  BY DEF GivenIn, Range
<1>5. {list[i].value : i \in DOMAIN list} = {p.value : p \in Range(list)}
  BY DEF Range
<1>6. tag \in TagsOf(params) <=> \E p \in Range(params) : p.tag = tag
  BY DEF TagsOf, Range
<1>7. (\E p \in Range(list) : TRUE) <=> Len(list) > 0
  BY <1>3 DEF Range
<1> QED
  BY <1>1, <1>2, <1>3, <1>4, <1>5, <1>6, <1>7

(* Consistent, of given arguments. *)
Agrees(params, format, key) ==
  /\ \A tag \in TagsOf(params) \ RepeatedTags : Len(OfTag(params, tag)) = 1
  /\ "INVALID" \notin TagsOf(params)
  /\ \/ /\ format = "PKCS8"
        /\ GivenIn(params, "ALGORITHM") = {key.encodes}
        /\ \/ key.encodes = "RSA" /\ GivenIn(params, "RSA_PUBLIC_EXPONENT") \subseteq {key.exponent}
           \/ /\ key.encodes = "EC" /\ GivenIn(params, "EC_CURVE") \subseteq {key.curve}
              /\ key.curve # "other"
        /\ GivenIn(params, "KEY_SIZE") \subseteq {key.size}
     \/ /\ format = "RAW"
        /\ \/ GivenIn(params, "ALGORITHM") \in {{"AES"}, {"HMAC"}} /\ key.size > 0
              /\ GivenIn(params, "KEY_SIZE") \subseteq {key.size}
           \/ GivenIn(params, "ALGORITHM") = {"TRIPLE_DES"} /\ key.size = 24 * 8
              /\ GivenIn(params, "KEY_SIZE") \subseteq {168}

LEMMA MapMade ==
  ASSUME NEW X, NEW params \in Seq(X)
  PROVE  /\ Succeeds(HidlParamsToMap(params)) <=>
              /\ \A tag \in TagsOf(params) \ RepeatedTags : Len(OfTag(params, tag)) = 1
              /\ "INVALID" \notin TagsOf(params)
         /\ Succeeds(HidlParamsToMap(params)) =>
              /\ HidlParamsToMap(params).value = [t \in TagsOf(params) |-> OfTag(params, t)]
              /\ \A tag : ValuesOf(HidlParamsToMap(params).value, tag) = GivenIn(params, tag)
<1> DEFINE map == [t \in TagsOf(params) |-> OfTag(params, t)]
           bad == \E t \in TagsOf(params) : Len(OfTag(params, t)) > 1 /\ ~ MayRepeat(t)
           one == \A tag \in TagsOf(params) \ RepeatedTags : Len(OfTag(params, tag)) = 1
<1>1. \A tag : /\ Len(OfTag(params, tag)) \in Nat
               /\ tag \in TagsOf(params) <=> Len(OfTag(params, tag)) > 0
               /\ GivenIn(params, tag) =
                    {OfTag(params, tag)[i].value : i \in DOMAIN OfTag(params, tag)}
               /\ DOMAIN OfTag(params, tag) = 1 .. Len(OfTag(params, tag))
  BY ValuesGiven
<1>2. one <=> ~ bad
  <2>1. ASSUME NEW tag \in TagsOf(params)
        PROVE  Len(OfTag(params, tag)) = 1 <=> ~ (Len(OfTag(params, tag)) > 1)
    <3>1. Len(OfTag(params, tag)) \in Nat /\ Len(OfTag(params, tag)) > 0
      BY <1>1
    <3>2. \A k \in Nat : k > 0 => (k = 1 <=> ~ (k > 1))
      OBVIOUS
    <3> QED
      BY ONLY <3>1, <3>2
  <2> QED
    BY ONLY <2>1 DEF MayRepeat
<1>3. HidlParamsToMap(params) = IF "INVALID" \in TagsOf(params) \/ bad
                                THEN Fails("INVALID_ARGUMENT") ELSE Ok(map)
  BY DEF HidlParamsToMap
<1> HIDE DEF map, bad, one
<1>4. /\ Succeeds(HidlParamsToMap(params)) <=> "INVALID" \notin TagsOf(params) /\ ~ bad
      /\ Succeeds(HidlParamsToMap(params)) => HidlParamsToMap(params).value = map
  BY <1>3 DEF Succeeds, Fails, Ok
<1>5. ASSUME NEW tag PROVE ValuesOf(map, tag) = GivenIn(params, tag)
  <2>1. CASE tag \in TagsOf(params)
    <3>1. map[tag] = OfTag(params, tag) /\ tag \in DOMAIN map
      BY <2>1 DEF map
    <3> QED
      BY <1>1, <3>1 DEF ValuesOf
  <2>2. CASE tag \notin TagsOf(params)
    <3>1. ValuesOf(map, tag) = {}
      BY <2>2 DEF ValuesOf, map
    <3>2. GivenIn(params, tag) = {}
      BY <2>2 DEF GivenIn, TagsOf
    <3> QED
      BY <3>1, <3>2
  <2> QED
    BY <2>1, <2>2
<1> QED
  BY <1>2, <1>4, <1>5 DEF map, one

(* The algorithm that import_key_request finds is the one given. *)
LEMMA AlgorithmGiven ==
  ASSUME NEW X, NEW params \in Seq(X), "ALGORITHM" \in TagsOf(params),
         Succeeds(HidlParamsToMap(params))
  PROVE  GivenIn(params, "ALGORITHM") = {HidlParamsToMap(params).value["ALGORITHM"][1].value}
<1>1. Len(OfTag(params, "ALGORITHM")) = 1
  BY MapMade DEF RepeatedTags
<1>2. /\ GivenIn(params, "ALGORITHM") = {OfTag(params, "ALGORITHM")[i].value : i \in 1 .. 1}
  BY <1>1, ValuesGiven
<1>3. HidlParamsToMap(params).value["ALGORITHM"] = OfTag(params, "ALGORITHM")
  BY MapMade
<1> QED
  BY <1>2, <1>3

LEMMA MaterialRight ==
  ASSUME NEW map, NEW format \in Formats, NEW key \in Keys, NEW algorithm,
         algorithm = map["ALGORITHM"][1].value
  PROVE  Succeeds(Material(map, format, key)) <=>
           \/ /\ format = "PKCS8" /\ algorithm = key.encodes
              /\ \/ key.encodes = "RSA" /\ MatchesIfGiven(map, "RSA_PUBLIC_EXPONENT", key.exponent)
                 \/ /\ key.encodes = "EC" /\ MatchesIfGiven(map, "EC_CURVE", key.curve)
                    /\ key.curve # "other"
              /\ MatchesIfGiven(map, "KEY_SIZE", key.size)
           \/ /\ format = "RAW"
              /\ \/ algorithm \in {"AES", "HMAC"} /\ key.size > 0
                    /\ MatchesIfGiven(map, "KEY_SIZE", key.size)
                 \/ algorithm = "TRIPLE_DES" /\ key.size = 24 * 8
                    /\ MatchesIfGiven(map, "KEY_SIZE", 168)
<1>0. /\ \A code : code # "OK" => ~ Succeeds(Fails(code))
      /\ Succeeds(KeyOf(key))
  BY DEF Succeeds, Fails, KeyOf, Ok
<1> HIDE DEF Succeeds, Fails, KeyOf
<1>1. CASE format = "RAW"
  <2>1. Material(map, format, key) = ImportKeyRaw(map, algorithm, key)
    BY <1>1 DEF Material
  <2>2. key.size \in Nat
    BY KeyImportAssumption
  <2>3. CASE algorithm \in {"AES", "HMAC"}
    <3>1. Succeeds(ImportKeyRaw(map, algorithm, key)) <=>
            MatchesIfGiven(map, "KEY_SIZE", key.size) /\ key.size # 0
      BY <1>0, <2>3 DEF ImportKeyRaw
    <3> QED
      BY <1>1, <2>1, <2>2, <2>3, <3>1
  <2>4. CASE algorithm = "TRIPLE_DES"
    <3>1. Succeeds(ImportKeyRaw(map, algorithm, key)) <=>
            MatchesIfGiven(map, "KEY_SIZE", 168) /\ key.size = 192
      BY <1>0, <2>4 DEF ImportKeyRaw
    <3> QED
      BY <1>1, <2>1, <2>2, <2>4, <3>1
  <2>5. CASE algorithm \notin {"AES", "TRIPLE_DES", "HMAC"}
    <3>1. ~ Succeeds(ImportKeyRaw(map, algorithm, key))
      BY <1>0, <2>5 DEF ImportKeyRaw
    <3> QED
      BY <1>1, <2>1, <2>5, <3>1
  <2> QED
    BY <2>3, <2>4, <2>5
<1>2. CASE format = "PKCS8"
  <2>1. CASE algorithm = "RSA"
    <3>1. Material(map, format, key) = ImportKeyRsa(map, key)
      BY <1>2, <2>1 DEF Material
    <3>2. Succeeds(ImportKeyRsa(map, key)) <=>
            /\ key.encodes = "RSA"
            /\ MatchesIfGiven(map, "KEY_SIZE", key.size)
            /\ MatchesIfGiven(map, "RSA_PUBLIC_EXPONENT", key.exponent)
      BY <1>0 DEF ImportKeyRsa
    <3> QED
      BY <1>2, <2>1, <3>1, <3>2
  <2>2. CASE algorithm = "EC"
    <3>1. Material(map, format, key) = ImportKeyEc(map, key)
      BY <1>2, <2>2 DEF Material
    <3>2. Succeeds(ImportKeyEc(map, key)) <=>
            /\ key.encodes = "EC" /\ key.curve \in DOMAIN EnumToPb.EC_CURVE
            /\ MatchesIfGiven(map, "EC_CURVE", key.curve)
            /\ MatchesIfGiven(map, "KEY_SIZE", key.size)
      BY <1>0 DEF ImportKeyEc
    <3>3. key.encodes = "EC" => (key.curve \in DOMAIN EnumToPb.EC_CURVE <=> key.curve # "other")
      BY KeyImportAssumption DEF EnumToPb, Same
    <3> QED
      BY <1>2, <2>2, <3>1, <3>2, <3>3
  <2>3. CASE algorithm \notin {"RSA", "EC"}
    <3>1. Material(map, format, key) = Fails("UNSUPPORTED_ALGORITHM")
      BY <1>2, <2>3 DEF Material
    <3> QED
      BY <1>0, <1>2, <2>3, <3>1
  <2> QED
    BY <2>1, <2>2, <2>3
<1>3. CASE format = "X509"
  <2>1. Material(map, format, key) = Fails("UNSUPPORTED_ALGORITHM")
    BY <1>3 DEF Material
  <2> QED
    BY <1>0, <1>3, <2>1
<1> QED
  BY <1>1, <1>2, <1>3 DEF Formats

(* No parameter of the invalid tag is made up on the way. *)
LEMMA ByTagSent ==
  ASSUME NEW params \in Seq(Params), "INVALID" \notin TagsOf(params)
  PROVE  Succeeds(HidlParamsToPb(ByTag(params, SetToSeq(TagsOf(params)))))
<1> PICK sent : sent = ByTag(params, SetToSeq(TagsOf(params)))
  OBVIOUS
<1>1. sent \in Seq(Params) /\ OfTag(sent, "INVALID") = OfTag(params, "INVALID")
  BY SentByTag
<1>2. "INVALID" \notin TagsOf(sent)
  <2>1. ~ Len(OfTag(params, "INVALID")) > 0
    BY ValuesGiven
  <2>2. ~ Len(OfTag(sent, "INVALID")) > 0
    BY <1>1, <2>1
  <2> QED
    BY <1>1, <2>2, ValuesGiven
<1>3. \A p \in Range(sent) : Succeeds(KeyParameterToPb(p))
  BY <1>2, ParamSent DEF TagsOf, Range
<1> DEFINE f == [p \in Params |-> KeyParameterToPb(p).value]
<1>4. \A p \in Params : f[p] = KeyParameterToPb(p).value
  OBVIOUS
<1> HIDE DEF f
<1>5. Succeeds(HidlParamsToPb(sent))
  BY <1>1, <1>3, <1>4, HidlToPb
<1> QED
  BY <1>5

(* import_key_request accepts what agrees, and nothing else. *)
LEMMA RequestRight ==
  ASSUME NEW params \in Seq(Params), NEW format \in Formats, NEW key \in Keys
  PROVE  Succeeds(ImportKeyRequest(params, format, key)) <=> Agrees(params, format, key)
<1> DEFINE map == HidlParamsToMap(params)
           material == Material(map.value, format, key)
           request == ImportKeyRequest(params, format, key)
           one == /\ \A tag \in TagsOf(params) \ RepeatedTags : Len(OfTag(params, tag)) = 1
                  /\ "INVALID" \notin TagsOf(params)
<1>1. \A code : code # "OK" => ~ Succeeds(Fails(code))
  BY DEF Succeeds, Fails
<1>2. /\ Succeeds(map) <=> one
      /\ Succeeds(map) => /\ DOMAIN map.value = TagsOf(params)
                          /\ \A tag : ValuesOf(map.value, tag) = GivenIn(params, tag)
  BY MapMade
<1>3. Succeeds(map) => Succeeds(MapParamsToPb(map.value))
  <2> SUFFICES ASSUME Succeeds(map) PROVE Succeeds(MapParamsToPb(map.value))
    OBVIOUS
  <2>1. MapParamsToPb(map.value) = HidlParamsToPb(ByTag(params, SetToSeq(TagsOf(params))))
    BY MapSent
  <2> QED
    BY <1>2, <2>1, ByTagSent
<1>4. request =
        CASE format = "X509" -> Fails("UNSUPPORTED_KEY_FORMAT")
          [] format # "X509" /\ ~ Succeeds(map) -> map
          [] format # "X509" /\ Succeeds(map) /\ "ALGORITHM" \notin DOMAIN map.value ->
               Fails("INVALID_ARGUMENT")
          [] OTHER -> IF Succeeds(material) THEN MapParamsToPb(map.value) ELSE material
  BY DEF ImportKeyRequest
<1>5. Agrees(params, format, key) => one /\ format # "X509" /\ "ALGORITHM" \in TagsOf(params)
  <2>1. "ALGORITHM" \notin TagsOf(params) => GivenIn(params, "ALGORITHM") = {}
    BY DEF GivenIn, TagsOf
  <2> QED
    BY <2>1 DEF Agrees
<1> HIDE DEF map, material, request, one
<1>6. Succeeds(request) <=> /\ one /\ format # "X509" /\ "ALGORITHM" \in TagsOf(params)
                            /\ Succeeds(material)
  BY <1>1, <1>2, <1>3, <1>4
<1>7. ASSUME one, "ALGORITHM" \in TagsOf(params)
      PROVE  Succeeds(material) <=> Agrees(params, format, key)
  <2>0. PICK table : table = map.value
    OBVIOUS
  <2>1. PICK algorithm : algorithm = table["ALGORITHM"][1].value
    OBVIOUS
  <2>2. GivenIn(params, "ALGORITHM") = {algorithm}
    BY <1>2, <1>7, <2>0, <2>1, AlgorithmGiven DEF map
  <2>3. \A tag, v : MatchesIfGiven(table, tag, v) <=> GivenIn(params, tag) \subseteq {v}
    BY <1>2, <1>7, <2>0 DEF MatchesIfGiven
  <2>4. Succeeds(material) <=>
           \/ /\ format = "PKCS8" /\ algorithm = key.encodes
              /\ \/ /\ key.encodes = "RSA"
                    /\ GivenIn(params, "RSA_PUBLIC_EXPONENT") \subseteq {key.exponent}
                 \/ /\ key.encodes = "EC" /\ GivenIn(params, "EC_CURVE") \subseteq {key.curve}
                    /\ key.curve # "other"
              /\ GivenIn(params, "KEY_SIZE") \subseteq {key.size}
           \/ /\ format = "RAW"
              /\ \/ algorithm \in {"AES", "HMAC"} /\ key.size > 0
                    /\ GivenIn(params, "KEY_SIZE") \subseteq {key.size}
                 \/ algorithm = "TRIPLE_DES" /\ key.size = 24 * 8
                    /\ GivenIn(params, "KEY_SIZE") \subseteq {168}
    <3>1. material = Material(table, format, key)
      BY <2>0 DEF material
    <3>2. Succeeds(Material(table, format, key)) <=>
           \/ /\ format = "PKCS8" /\ algorithm = key.encodes
              /\ \/ key.encodes = "RSA" /\ MatchesIfGiven(table, "RSA_PUBLIC_EXPONENT", key.exponent)
                 \/ /\ key.encodes = "EC" /\ MatchesIfGiven(table, "EC_CURVE", key.curve)
                    /\ key.curve # "other"
              /\ MatchesIfGiven(table, "KEY_SIZE", key.size)
           \/ /\ format = "RAW"
              /\ \/ algorithm \in {"AES", "HMAC"} /\ key.size > 0
                    /\ MatchesIfGiven(table, "KEY_SIZE", key.size)
                 \/ algorithm = "TRIPLE_DES" /\ key.size = 24 * 8
                    /\ MatchesIfGiven(table, "KEY_SIZE", 168)
      BY <2>1, MaterialRight
    <3> QED
      BY ONLY <2>3, <3>1, <3>2
  <2>5. /\ GivenIn(params, "ALGORITHM") = {key.encodes} <=> algorithm = key.encodes
        /\ GivenIn(params, "ALGORITHM") \in {{"AES"}, {"HMAC"}} <=> algorithm \in {"AES", "HMAC"}
        /\ GivenIn(params, "ALGORITHM") = {"TRIPLE_DES"} <=> algorithm = "TRIPLE_DES"
    BY <2>2
  <2> QED
    BY <1>7, <2>4, <2>5 DEF Agrees, one
<1>8. Succeeds(request) <=> Agrees(params, format, key)
  BY <1>5, <1>6, <1>7
<1> QED
  BY <1>8 DEF request

LEMMA AgreesNext == Next => ImportsWhatAgrees'
<1> SUFFICES ASSUME Next PROVE ImportsWhatAgrees'
  OBVIOUS
<1> USE DEF NoCall
<1>1. ASSUME NEW n \in 0 .. MaxParams, NEW params \in Lists(n), NEW format \in Formats,
             NEW key \in Keys, ImportKey(params, format, key)
      PROVE  ImportsWhatAgrees'
  <2> DEFINE request == ImportKeyRequest(params, format, key)
  <2>1. params \in Seq(Params)
    BY ParamLists
  <2>2. call' = [api |-> "importKey", params |-> params, format |-> format, key |-> key]
    BY <1>1 DEF ImportKey
  <2>3. Consistent' <=> Agrees(params, format, key)
    <3>1. call'.params = params /\ call'.format = format /\ call'.key = key
      BY <2>2
    <3>2. \A tag : Given(tag)' = GivenIn(params, tag)
      BY <3>1 DEF Given, GivenIn
    <3> QED
      BY <3>1, <3>2 DEF Consistent, Agrees
  <2>4. Succeeds(request) <=> Consistent'
    BY <2>1, <2>3, RequestRight
  <2>5. CASE Succeeds(request)
    <3>1. answer' = IF Translates' THEN Reported(chip') ELSE PbToHidlParams(chip'.tee)
      BY <1>1, <2>5 DEF ImportKey, ReportedByImport, Translates
    <3>2. Succeeds(answer') <=> Translates'
      BY <3>1 DEF Reported, Ok, Succeeds, Translates
    <3> QED
      BY <2>4, <2>5, <3>2 DEF ImportsWhatAgrees
  <2>6. CASE ~ Succeeds(request)
    <3>1. answer' = request
      BY <1>1, <2>6 DEF ImportKey
    <3> QED
      BY <2>4, <2>6, <3>1 DEF ImportsWhatAgrees
  <2> QED
    BY <2>5, <2>6
<1>2. ASSUME NEW n \in 0 .. MaxParams, NEW params \in Lists(n), GenerateKey(params)
      PROVE  ImportsWhatAgrees'
  BY <1>2 DEF GenerateKey, ImportsWhatAgrees
<1>3. ASSUME NEW w \in Wrappers, ImportWrappedKey(w) PROVE ImportsWhatAgrees'
  BY <1>3 DEF ImportWrappedKey, ImportsWhatAgrees
<1>4. CASE GetKeyCharacteristics
  BY <1>4 DEF GetKeyCharacteristics, ImportsWhatAgrees
<1>5. CASE ChipRefuses
  BY <1>5 DEF ChipRefuses, ImportsWhatAgrees
<1> QED
  BY <1>1, <1>2, <1>3, <1>4, <1>5 DEF Next
-----------------------------------------------------------------------------
(* The table of the wrapped keys' parsers.  Only its last row is not that  *)
(* of the grammar.                                                         *)
RowTypes == {"SET", "INTEGER", "NULL", "OCTET_STRING"}
RowTags == {"PURPOSE", "ALGORITHM", "KEY_SIZE", "BLOCK_MODE", "DIGEST", "PADDING", "CALLER_NONCE",
  "MIN_MAC_LENGTH", "EC_CURVE", "RSA_PUBLIC_EXPONENT", "INCLUDE_UNIQUE_ID",
  "BLOB_USAGE_REQUIREMENTS", "BOOTLOADER_ONLY", "ROLLBACK_RESISTANCE", "ACTIVE_DATETIME",
  "ORIGINATION_EXPIRE_DATETIME", "USAGE_EXPIRE_DATETIME", "MIN_SECONDS_BETWEEN_OPS",
  "MAX_USES_PER_BOOT", "USER_SECURE_ID", "NO_AUTH_REQUIRED", "USER_AUTH_TYPE", "AUTH_TIMEOUT",
  "TRUSTED_USER_PRESENCE_REQUIRED", "TRUSTED_CONFIRMATION_REQUIRED", "UNLOCKED_DEVICE_REQUIRED",
  "APPLICATION_ID", "APPLICATION_DATA", "CREATION_DATETIME"}
Row == [tag : RowTags, type : RowTypes]

LEMMA RowsTyped ==
  ASSUME NEW type \in RowTypes, NEW tags \in Seq(RowTags)
  PROVE  Rows(type, tags) \in Seq(Row)
<1>1. Len(tags) \in Nat /\ DOMAIN tags = 1 .. Len(tags) /\ \A i \in 1 .. Len(tags) : tags[i] \in RowTags
  BY LenProperties, ElementOfSeq
<1>2. \A i \in 1 .. Len(tags) : [tag |-> tags[i], type |-> type] \in Row
  BY <1>1 DEF Row
<1>3. Rows(type, tags) \in [1 .. Len(tags) -> Row]
  BY <1>1, <1>2 DEF Rows
<1> QED
  BY <1>1, <1>3, IsASeq

LEMMA GrammarIs ==
  \E rows \in Seq(Row) :
    Grammar = Append(rows, [tag |-> "CREATION_DATETIME", type |-> "INTEGER"])
<1> DEFINE a1 == Rows("SET", <<"PURPOSE">>)
           a2 == Rows("INTEGER", <<"ALGORITHM", "KEY_SIZE">>)
           a3 == Rows("SET", <<"BLOCK_MODE", "DIGEST", "PADDING">>)
           a4 == Rows("NULL", <<"CALLER_NONCE">>)
           a5 == Rows("INTEGER", <<"MIN_MAC_LENGTH", "EC_CURVE", "RSA_PUBLIC_EXPONENT">>)
           a6 == Rows("NULL", <<"INCLUDE_UNIQUE_ID">>)
           a7 == Rows("INTEGER", <<"BLOB_USAGE_REQUIREMENTS">>)
           a8 == Rows("NULL", <<"BOOTLOADER_ONLY", "ROLLBACK_RESISTANCE">>)
           a9 == Rows("INTEGER", <<"ACTIVE_DATETIME", "ORIGINATION_EXPIRE_DATETIME",
                       "USAGE_EXPIRE_DATETIME", "MIN_SECONDS_BETWEEN_OPS", "MAX_USES_PER_BOOT">>)
           b1 == Rows("SET", <<"USER_SECURE_ID">>)
           b2 == Rows("NULL", <<"NO_AUTH_REQUIRED">>)
           b3 == Rows("INTEGER", <<"USER_AUTH_TYPE", "AUTH_TIMEOUT">>)
           b4 == Rows("NULL", <<"TRUSTED_USER_PRESENCE_REQUIRED", "TRUSTED_CONFIRMATION_REQUIRED",
                                "UNLOCKED_DEVICE_REQUIRED">>)
           b5 == Rows("OCTET_STRING", <<"APPLICATION_ID", "APPLICATION_DATA">>)
           last == Rows("INTEGER", <<"CREATION_DATETIME">>)
           rows == a1 \o a2 \o a3 \o a4 \o a5 \o a6 \o a7 \o a8 \o a9 \o b1 \o b2 \o b3 \o b4 \o b5
<1>1. /\ <<"PURPOSE">> \in Seq(RowTags)
      /\ <<"ALGORITHM", "KEY_SIZE">> \in Seq(RowTags)
      /\ <<"BLOCK_MODE", "DIGEST", "PADDING">> \in Seq(RowTags)
      /\ <<"CALLER_NONCE">> \in Seq(RowTags)
      /\ <<"MIN_MAC_LENGTH", "EC_CURVE", "RSA_PUBLIC_EXPONENT">> \in Seq(RowTags)
      /\ <<"INCLUDE_UNIQUE_ID">> \in Seq(RowTags)
      /\ <<"BLOB_USAGE_REQUIREMENTS">> \in Seq(RowTags)
      /\ <<"BOOTLOADER_ONLY", "ROLLBACK_RESISTANCE">> \in Seq(RowTags)
  BY DEF RowTags
<1>2. /\ <<"ACTIVE_DATETIME", "ORIGINATION_EXPIRE_DATETIME", "USAGE_EXPIRE_DATETIME",
           "MIN_SECONDS_BETWEEN_OPS", "MAX_USES_PER_BOOT">> \in Seq(RowTags)
      /\ <<"USER_SECURE_ID">> \in Seq(RowTags)
      /\ <<"NO_AUTH_REQUIRED">> \in Seq(RowTags)
      /\ <<"USER_AUTH_TYPE", "AUTH_TIMEOUT">> \in Seq(RowTags)
      /\ <<"TRUSTED_USER_PRESENCE_REQUIRED", "TRUSTED_CONFIRMATION_REQUIRED",
           "UNLOCKED_DEVICE_REQUIRED">> \in Seq(RowTags)
      /\ <<"APPLICATION_ID", "APPLICATION_DATA">> \in Seq(RowTags)
  BY DEF RowTags
<1>3. RowTypes = {"SET", "INTEGER", "NULL", "OCTET_STRING"}
  BY DEF RowTypes
<1>4. /\ a1 \in Seq(Row) /\ a2 \in Seq(Row) /\ a3 \in Seq(Row) /\ a4 \in Seq(Row)
      /\ a5 \in Seq(Row) /\ a6 \in Seq(Row) /\ a7 \in Seq(Row) /\ a8 \in Seq(Row)
  BY <1>1, <1>3, RowsTyped
<1>5. /\ a9 \in Seq(Row) /\ b1 \in Seq(Row) /\ b2 \in Seq(Row)
      /\ b3 \in Seq(Row) /\ b4 \in Seq(Row) /\ b5 \in Seq(Row)
  BY <1>2, <1>3, RowsTyped
<1>6. last = <<[tag |-> "CREATION_DATETIME", type |-> "INTEGER"]>>
  BY DEF Rows
<1>7. Grammar = rows \o last
  BY DEF Grammar
<1> HIDE DEF a1, a2, a3, a4, a5, a6, a7, a8, a9, b1, b2, b3, b4, b5, last
<1>8. rows \in Seq(Row)
  <2>1. ASSUME NEW s \in Seq(Row), NEW t \in Seq(Row) PROVE s \o t \in Seq(Row)
    BY ConcatProperties
  <2> QED
    BY <1>4, <1>5, <2>1
<1> HIDE DEF rows
<1>9. rows \o last = Append(rows, [tag |-> "CREATION_DATETIME", type |-> "INTEGER"])
  <2> DEFINE e == [tag |-> "CREATION_DATETIME", type |-> "INTEGER"]
  <2>1. e \in Row
    BY <1>3 DEF Row, RowTags
  <2>2. last = <<e>>
    BY <1>6
  <2> HIDE DEF e
  <2>3. rows \o <<e>> = Append(rows, e)
    BY <1>8, <2>1, AppendIsConcat
  <2> QED
    BY <2>2, <2>3 DEF e
<1> QED
  BY <1>7, <1>8, <1>9

LEMMA TableFacts ==
  /\ Len(Grammar) \in Nat /\ Len(Grammar) > 0 /\ Len(ParserTable) = Len(Grammar)
  /\ DOMAIN Grammar = 1 .. Len(Grammar)
  /\ \A r \in 1 .. Len(Grammar) :
       /\ ParserTable[r].tag = Grammar[r].tag /\ Grammar[r].tag \in RowTags
       /\ ParserTable[r].type \in RowTypes
       /\ \/ ParserTable[r].type = Grammar[r].type
          \/ ParserTable[r].tag = "CREATION_DATETIME" /\ ParserTable[r].type = "OCTET_STRING"
<1> DEFINE e == [tag |-> "CREATION_DATETIME", type |-> "INTEGER"]
<1>1. PICK rows \in Seq(Row) : Grammar = Append(rows, e)
  BY GrammarIs
<1>2. e \in Row
  BY DEF Row, RowTags, RowTypes
<1>3. e.tag = "CREATION_DATETIME"
  OBVIOUS
<1> HIDE DEF e
<1>4. /\ Grammar \in Seq(Row) /\ Len(Grammar) = Len(rows) + 1 /\ Len(rows) \in Nat
      /\ Grammar[Len(rows) + 1] = e
  BY <1>1, <1>2, AppendProperties, LenProperties
<1>5. PICK n : n = Len(Grammar)
  OBVIOUS
<1>6. /\ n \in Nat /\ n > 0 /\ Grammar[n] = e /\ DOMAIN Grammar = 1 .. n
      /\ \A r \in 1 .. n : Grammar[r] \in Row
  BY <1>4, <1>5, LenProperties, ElementOfSeq
<1>7. ParserTable = [r \in 1 .. n |-> IF r = n THEN [Grammar[r] EXCEPT !.type = "OCTET_STRING"]
                                      ELSE Grammar[r]]
  BY <1>5, <1>6 DEF ParserTable
<1>8. \A r \in 1 .. n :
        /\ ParserTable[r] \in Row /\ ParserTable[r].tag = Grammar[r].tag
        /\ r # n => ParserTable[r] = Grammar[r]
        /\ r = n => ParserTable[r].type = "OCTET_STRING"
  BY <1>6, <1>7 DEF Row, RowTypes
<1>9. Len(ParserTable) = n
  <2>1. ParserTable \in [1 .. n -> Row]
    BY <1>7, <1>8
  <2> QED
    BY <1>6, <2>1, IsASeq, LenProperties
<1>10. ASSUME NEW r \in 1 .. n
       PROVE  /\ ParserTable[r].tag = Grammar[r].tag /\ Grammar[r].tag \in RowTags
              /\ ParserTable[r].type \in RowTypes
              /\ \/ ParserTable[r].type = Grammar[r].type
                 \/ ParserTable[r].tag = "CREATION_DATETIME" /\ ParserTable[r].type = "OCTET_STRING"
  <2>1. Grammar[r].tag \in RowTags /\ ParserTable[r].type \in RowTypes
    BY <1>6, <1>8 DEF Row
  <2> QED
    BY <1>3, <1>6, <1>8, <2>1
<1> QED
  BY <1>5, <1>6, <1>9, <1>10

(* The states of the loop over the table, row by row. *)
LEMMA ListStates ==
  ASSUME NEW list, NEW upper
  PROVE  \E state :
           /\ state[0] = [ok |-> TRUE, rest |-> list, params |-> << >>]
           /\ \A r \in 1 .. Len(ParserTable) :
                state[r] = ParseEntry(state[r - 1], ParserTable[r], upper)
           /\ ParsedList(list, upper) = state[Len(ParserTable)]
<1> DEFINE start == [ok |-> TRUE, rest |-> list, params |-> << >>]
           Has(n) == \E f : f = [row \in 0 .. n |->
                       IF row = 0 THEN start ELSE ParseEntry(f[row - 1], ParserTable[row], upper)]
           S == {n \in Nat : Has(n)}
<1> HIDE DEF start
<1>1. 0 \in S
  <2> DEFINE f == [row \in 0 .. 0 |-> start]
  <2>1. f = [row \in 0 .. 0 |->
               IF row = 0 THEN start ELSE ParseEntry(f[row - 1], ParserTable[row], upper)]
    OBVIOUS
  <2>2. Has(0)
    BY <2>1
  <2> QED
    BY <2>2
<1>2. ASSUME NEW n \in Nat, n \in S PROVE n + 1 \in S
  <2>1. PICK f : f = [row \in 0 .. n |->
                   IF row = 0 THEN start ELSE ParseEntry(f[row - 1], ParserTable[row], upper)]
    BY <1>2
  <2> DEFINE g == [row \in 0 .. n + 1 |-> IF row = n + 1 THEN ParseEntry(f[n], ParserTable[n + 1], upper)
                                          ELSE f[row]]
  <2>2. \A row \in 0 .. n + 1 :
          g[row] = IF row = 0 THEN start ELSE ParseEntry(g[row - 1], ParserTable[row], upper)
    <3> TAKE row \in 0 .. n + 1
    <3>1. CASE row = n + 1
      <4>1. g[row - 1] = f[n] /\ row # 0
        BY <3>1
      <4> QED
        BY <3>1, <4>1
    <3>2. CASE row # n + 1
      <4>1. row \in 0 .. n /\ g[row] = f[row] /\ (row # 0 => g[row - 1] = f[row - 1])
        BY <3>2
      <4>2. f[row] = IF row = 0 THEN start ELSE ParseEntry(f[row - 1], ParserTable[row], upper)
        BY <2>1, <4>1
      <4> QED
        BY <4>1, <4>2
    <3> QED
      BY <3>1, <3>2
  <2>3. g = [row \in 0 .. n + 1 |->
               IF row = 0 THEN start ELSE ParseEntry(g[row - 1], ParserTable[row], upper)]
    <3>1. g = [row \in 0 .. n + 1 |-> g[row]]
      OBVIOUS
    <3> HIDE DEF g
    <3> QED
      BY <2>2, <3>1
  <2>4. Has(n + 1)
    BY <2>3
  <2> QED
    BY <2>4
<1>3. Nat \subseteq S
  <2> HIDE DEF S
  <2> QED
    BY <1>1, <1>2, SetInduction
<1>4. PICK n : n = Len(ParserTable)
  OBVIOUS
<1>5. n \in Nat
  BY <1>4, TableFacts
<1> DEFINE state == CHOOSE f : f = [row \in 0 .. n |->
                      IF row = 0 THEN start ELSE ParseEntry(f[row - 1], ParserTable[row], upper)]
<1>6. state = [row \in 0 .. n |->
                 IF row = 0 THEN start ELSE ParseEntry(state[row - 1], ParserTable[row], upper)]
  <2>1. Has(n)
    BY <1>3, <1>5
  <2> QED
    BY <2>1
<1>7. ParsedList(list, upper) = state[n]
  BY <1>4 DEF ParsedList, start
<1> HIDE DEF state
<1>8. state[0] = start /\ \A r \in 1 .. n : state[r] = ParseEntry(state[r - 1], ParserTable[r], upper)
  <2>1. \A row \in 0 .. n :
          state[row] = IF row = 0 THEN start ELSE ParseEntry(state[row - 1], ParserTable[row], upper)
    BY <1>6
  <2>2. 0 \in 0 .. n /\ \A r \in 1 .. n : r \in 0 .. n /\ r # 0
    BY <1>5
  <2> QED
    BY <2>1, <2>2
<1> QED
  BY <1>4, <1>7, <1>8 DEF start

(* What an element of an authorization list means, and when it is none of  *)
(* those that the code is known to change.                                 *)
MeaningOf(item) ==
  [j \in DOMAIN item.values |->
    [tag |-> item.tag,
     value |-> IF item.type \in {"SET", "INTEGER"} THEN Number(item.values[j])
               ELSE item.values[j]]]

PlainItem(item) ==
  /\ item.tag # "RSA_PUBLIC_EXPONENT"
  /\ item.type \in {"SET", "INTEGER"} =>
       \A j \in DOMAIN item.values :
         ~ IsAllOnes(item.values[j]) /\ (item.tag \in LongTags \/ item.values[j].high = 0)

LEMMA TranslatedIs ==
  ASSUME NEW results, Succeeds(TranslatedAll(results, "INVALID_ARGUMENT"))
  PROVE  TranslatedAll(results, "INVALID_ARGUMENT").value = [i \in DOMAIN results |-> results[i].value]
<1>1. ~ Succeeds(Fails("INVALID_ARGUMENT"))
  BY DEF Succeeds, Fails
<1>2. TranslatedAll(results, "INVALID_ARGUMENT") = Ok([i \in DOMAIN results |-> results[i].value])
  BY <1>1 DEF TranslatedAll
<1> QED
  BY <1>2 DEF Ok

LEMMA TranslatedOne ==
  ASSUME NEW tag, NEW v, Succeeds(TranslatedAll(<<Param(tag, v)>>, "INVALID_ARGUMENT"))
  PROVE  TranslatedAll(<<Param(tag, v)>>, "INVALID_ARGUMENT").value =
           [i \in 1 .. 1 |-> KeyParameterToPb([tag |-> tag, value |-> v]).value]
<1> DEFINE results == <<Param(tag, v)>>
<1>1. DOMAIN results = 1 .. 1 /\ results[1] = Param(tag, v)
  OBVIOUS
<1> HIDE DEF results
<1>2. TranslatedAll(results, "INVALID_ARGUMENT").value = [i \in DOMAIN results |-> results[i].value]
  BY TranslatedIs DEF results
<1>3. \A i \in 1 .. 1 : results[i].value = KeyParameterToPb([tag |-> tag, value |-> v]).value
  BY <1>1 DEF Param
<1> QED
  BY <1>1, <1>2, <1>3 DEF results

LEMMA ParsedRight ==
  ASSUME NEW item, IsItem(item), PlainItem(item),
         NEW row, row.type \in RowTypes, NEW upper, Succeeds(Parsed(row, item, upper))
  PROVE  /\ row.type = item.type
         /\ item.type = "OCTET_STRING" => item.tag # "CREATION_DATETIME"
         /\ Parsed(row, item, upper).value =
              [j \in DOMAIN item.values |-> KeyParameterToPb(MeaningOf(item)[j]).value]
<1> DEFINE parsed == Parsed(row, item, upper)
           m == MeaningOf(item)
           Goal == parsed.value = [j \in DOMAIN item.values |-> KeyParameterToPb(m[j]).value]
<1>1. ~ Succeeds(Fails("INVALID_ARGUMENT"))
  BY DEF Succeeds, Fails
<1>2. row.type = item.type /\ item.type \in {"SET", "INTEGER", "NULL", "OCTET_STRING"}
  <2>1. CASE row.type # item.type
    BY <1>1, <2>1 DEF Parsed
  <2> QED
    BY <2>1 DEF RowTypes
<1>3. /\ DOMAIN m = DOMAIN item.values
      /\ \A j \in DOMAIN item.values :
           m[j] = [tag |-> item.tag,
                   value |-> IF item.type \in {"SET", "INTEGER"} THEN Number(item.values[j])
                             ELSE item.values[j]]
  BY DEF MeaningOf
<1>4. item.type # "SET" => DOMAIN item.values = 1 .. 1
  BY LenProperties DEF IsItem
<1> HIDE DEF m
(* One value, sent as it is meant. *)
<1>o. ASSUME item.type # "SET", NEW v, m[1] = [tag |-> item.tag, value |-> v],
             parsed = TranslatedAll(<<Param(item.tag, v)>>, "INVALID_ARGUMENT")
      PROVE  Goal
  <2>1. parsed.value = [j \in 1 .. 1 |-> KeyParameterToPb([tag |-> item.tag, value |-> v]).value]
    <3>1. PICK tag : tag = item.tag
      OBVIOUS
    <3>2. PICK results : results = TranslatedAll(<<Param(tag, v)>>, "INVALID_ARGUMENT")
      OBVIOUS
    <3>3. parsed = results /\ Succeeds(results)
      BY <1>o, <3>1, <3>2
    <3>4. results.value = [i \in 1 .. 1 |-> KeyParameterToPb([tag |-> tag, value |-> v]).value]
      BY <3>2, <3>3, TranslatedOne
    <3> QED
      BY <3>1, <3>3, <3>4
  <2>2. \A j \in 1 .. 1 :
          KeyParameterToPb([tag |-> item.tag, value |-> v]).value = KeyParameterToPb(m[j]).value
    BY <1>o
  <2> HIDE DEF parsed
  <2> QED
    BY <1>4, <1>o, <2>1, <2>2
<1>5. CASE item.type = "SET"
  <2>1. parsed = ParseAsn1Set(item)
    BY <1>2, <1>5 DEF Parsed
  <2> DEFINE sent(j) == IF item.tag = "USER_SECURE_ID" THEN Number(item.values[j])
                        ELSE item.values[j].low
             results == [j \in DOMAIN item.values |-> Param(item.tag, sent(j))]
  <2>2. parsed = TranslatedAll(results, "INVALID_ARGUMENT")
    BY <1>1, <2>1 DEF ParseAsn1Set
  <2>3. item.tag \in SetTags \/ DOMAIN item.values = {}
    <3>1. item.tag \in SetTags \/ item.values = << >>
      BY <1>1, <2>1 DEF ParseAsn1Set
    <3> QED
      BY <3>1
  <2>4. ASSUME NEW j \in DOMAIN item.values
        PROVE  sent(j) = Number(item.values[j])
    <3>1. CASE item.tag = "USER_SECURE_ID"
      BY <3>1
    <3>2. CASE item.tag # "USER_SECURE_ID"
      <4>1. item.tag \notin LongTags
        BY <2>3, <3>2 DEF SetTags, LongTags
      <4>2. item.values[j].high = 0
        BY <1>5, <4>1 DEF PlainItem
      <4> QED
        BY <3>2, <4>2 DEF Number
    <3> QED
      BY <3>1, <3>2
  <2>5. \A j \in DOMAIN item.values : results[j].value = KeyParameterToPb(m[j]).value
    BY <1>3, <1>5, <2>4 DEF Param
  <2>6. DOMAIN results = DOMAIN item.values
    OBVIOUS
  <2> HIDE DEF results
  <2>7. parsed.value = [j \in DOMAIN results |-> results[j].value]
    BY <2>2, TranslatedIs
  <2>8. Goal
    <3> HIDE DEF parsed
    <3> QED
      BY <2>5, <2>6, <2>7
  <2> QED
    BY <1>2, <1>5, <2>8 DEF m
<1>6. CASE item.type = "INTEGER"
  <2>1. parsed = ParseAsn1Integer(item, upper)
    BY <1>2, <1>6 DEF Parsed
  <2> DEFINE v == item.values[1]
  <2>2. 1 \in DOMAIN item.values /\ m[1] = [tag |-> item.tag, value |-> Number(v)]
    BY <1>3, <1>4, <1>6
  <2>3. ~ IsAllOnes(v) /\ (item.tag \in LongTags \/ v.high = 0) /\ item.tag # "RSA_PUBLIC_EXPONENT"
    BY <1>6, <2>2 DEF PlainItem
  <2> HIDE DEF v
  <2> DEFINE sent == CASE item.tag \in EnumIntegerTags \/ item.tag \in Integer32Tags \ LongTags -> v.low
                       [] item.tag \in Integer32Tags \cap LongTags -> Number([v EXCEPT !.high = upper])
                       [] OTHER -> Number(v)
             refused == \/ item.tag \notin EnumIntegerTags \cup Integer32Tags \cup DateTags
                        \/ item.tag \in Integer32Tags /\ v.high # 0
  <2>4. ParseAsn1Integer(item, upper) =
          IF IsAllOnes(v) THEN Ok(<< >>)
          ELSE IF refused THEN Fails("INVALID_ARGUMENT")
          ELSE TranslatedAll(<<Param(item.tag, sent)>>, "INVALID_ARGUMENT")
    BY DEF ParseAsn1Integer, v
  <2> HIDE DEF refused, sent
  <2>5. parsed = TranslatedAll(<<Param(item.tag, sent)>>, "INVALID_ARGUMENT")
    BY <1>1, <2>1, <2>3, <2>4
  <2>6. item.tag \notin Integer32Tags \cap LongTags /\ item.tag \notin EnumIntegerTags \cap LongTags
    BY <2>3 DEF Integer32Tags, LongTags, EnumIntegerTags
  <2>7. sent = Number(v)
    <3>1. CASE item.tag \in EnumIntegerTags \/ item.tag \in Integer32Tags \ LongTags
      <4>1. sent = v.low
        BY <2>6, <3>1 DEF sent
      <4>2. v.high = 0
        BY <2>3, <2>6, <3>1
      <4> QED
        BY <4>1, <4>2 DEF Number
    <3>2. CASE ~ (item.tag \in EnumIntegerTags \/ item.tag \in Integer32Tags \ LongTags)
      BY <2>6, <3>2 DEF sent
    <3> QED
      BY <3>1, <3>2
  <2>8. Goal
    <3>1. parsed = TranslatedAll(<<Param(item.tag, Number(v))>>, "INVALID_ARGUMENT")
      BY <2>5, <2>7
    <3> HIDE DEF parsed, Goal
    <3> QED
      BY <1>6, <1>o, <2>2, <3>1
  <2> QED
    BY <1>2, <1>6, <2>8 DEF m
<1>7. CASE item.type = "NULL"
  <2>1. parsed = ParseAsn1Boolean(item)
    BY <1>2, <1>7 DEF Parsed
  <2>2. parsed = TranslatedAll(<<Param(item.tag, 1)>>, "INVALID_ARGUMENT")
    BY <1>1, <2>1 DEF ParseAsn1Boolean
  <2>3. item.values[1] = 1
    BY <1>7 DEF IsItem
  <2>4. m[1] = [tag |-> item.tag, value |-> 1]
    BY <1>3, <1>4, <1>7, <2>3
  <2>5. Goal
    <3> HIDE DEF parsed, Goal
    <3> QED
      BY <1>7, <1>o, <2>2, <2>4
  <2> QED
    BY <1>2, <1>7, <2>5 DEF m
<1>8. CASE item.type = "OCTET_STRING"
  <2>1. parsed = ParseAsn1OctetString(item)
    BY <1>2, <1>8 DEF Parsed
  <2>2. /\ parsed = TranslatedAll(<<Param(item.tag, item.values[1])>>, "INVALID_ARGUMENT")
        /\ item.tag \in OctetTags
    BY <1>1, <2>1 DEF ParseAsn1OctetString
  <2>3. m[1] = [tag |-> item.tag, value |-> item.values[1]]
    BY <1>3, <1>4, <1>8
  <2>4. Goal
    <3> HIDE DEF parsed, Goal
    <3> QED
      BY <1>8, <1>o, <2>2, <2>3
  <2>5. item.tag # "CREATION_DATETIME"
    BY <2>2 DEF OctetTags
  <2> QED
    BY <1>2, <1>8, <2>4, <2>5 DEF m
<1> QED
  BY <1>2, <1>5, <1>6, <1>7, <1>8

(* The loop over the table: the elements it has taken are in the order of  *)
(* the grammar, and its parameters are what they mean.                     *)
Meant(list, k) == FlattenSeq([i \in 1 .. k |-> MeaningOf(list[i])])

Placed(list, k, r) ==
  \E place \in [1 .. k -> 1 .. r] :
    /\ \A i, j \in 1 .. k : i < j => place[i] < place[j]
    /\ \A i \in 1 .. k :
         list[i].tag = Grammar[place[i]].tag /\ list[i].type = Grammar[place[i]].type

LEMMA MappedConcat ==
  ASSUME NEW X, NEW f, NEW s \in Seq(X), NEW t \in Seq(X)
  PROVE  Mapped(f, s \o t) = Mapped(f, s) \o Mapped(f, t)
<1> DEFINE Y == {f[x] : x \in X}
           S == {r \in Seq(X) : Mapped(f, s \o r) = Mapped(f, s) \o Mapped(f, r)}
<1>0. \A x \in X : f[x] \in Y
  OBVIOUS
<1> HIDE DEF Y
<1>1. << >> \in S
  <2>1. Mapped(f, << >>) = << >>
    BY DEF Mapped
  <2>2. Mapped(f, s) \in Seq(Y) /\ << >> \in Seq(X)
    BY <1>0, MappedTyped, EmptySeq
  <2>3. s \o << >> = s /\ Mapped(f, s) \o << >> = Mapped(f, s)
    BY <2>2, ConcatEmptySeq
  <2> QED
    BY <2>1, <2>2, <2>3
<1>2. ASSUME NEW r \in Seq(X), NEW e \in X, r \in S
      PROVE  Append(r, e) \in S
  <2>1. PICK d : d = f[e]
    OBVIOUS
  <2>2. PICK u : u = Mapped(f, s)
    OBVIOUS
  <2>3. PICK v : v = Mapped(f, r)
    OBVIOUS
  <2>4. u \in Seq(Y) /\ v \in Seq(Y) /\ d \in Y
    BY <1>0, <2>1, <2>2, <2>3, MappedTyped
  <2>5. Append(r, e) \in Seq(X) /\ s \o r \in Seq(X)
    BY AppendProperties, ConcatProperties
  <2>6. s \o Append(r, e) = Append(s \o r, e) /\ u \o Append(v, d) = Append(u \o v, d)
    <3>1. ASSUME NEW Z, NEW a \in Seq(Z), NEW b \in Seq(Z), NEW z \in Z
          PROVE  a \o Append(b, z) = Append(a \o b, z)
      <4>1. <<z>> \in Seq(Z) /\ a \o b \in Seq(Z)
        BY ConcatProperties
      <4>2. Append(b, z) = b \o <<z>> /\ Append(a \o b, z) = (a \o b) \o <<z>>
        BY <4>1, AppendIsConcat
      <4>3. a \o (b \o <<z>>) = (a \o b) \o <<z>>
        BY <4>1, ConcatAssociative
      <4> QED
        BY <4>2, <4>3
    <3> QED
      BY <2>4, <3>1
  <2>7. Mapped(f, Append(s \o r, e)) = Append(Mapped(f, s \o r), d)
    BY <2>1, <2>5, MappedAppend
  <2>8. Mapped(f, Append(r, e)) = Append(v, d)
    BY <2>1, <2>3, MappedAppend
  <2>9. Mapped(f, s \o r) = u \o v
    BY <1>2, <2>2, <2>3
  <2>10. Mapped(f, s \o Append(r, e)) = Mapped(f, s) \o Mapped(f, Append(r, e))
    BY <2>2, <2>6, <2>7, <2>8, <2>9
  <2> QED
    BY <2>5, <2>10
<1> HIDE DEF S
<1>3. Seq(X) \subseteq S
  BY <1>1, <1>2, AppendInduction
<1> QED
  BY <1>3 DEF S

LEMMA MeantGrows ==
  ASSUME NEW X, NEW list, NEW k \in Nat,
         \A i \in 1 .. k + 1 : MeaningOf(list[i]) \in Seq(X)
  PROVE  /\ Meant(list, k) \in Seq(X)
         /\ Meant(list, k + 1) = Meant(list, k) \o MeaningOf(list[k + 1])
<1>1. PICK f : f = [i \in 1 .. k + 1 |-> MeaningOf(list[i])]
  OBVIOUS
<1>2. PICK g : g = [i \in 1 .. k |-> MeaningOf(list[i])]
  OBVIOUS
<1>3. f \in [1 .. k + 1 -> Seq(X)] /\ f[k + 1] = MeaningOf(list[k + 1])
  BY <1>1
<1>4. g \in [1 .. k -> Seq(X)] /\ \A i \in 1 .. k : g[i] = f[i]
  BY <1>1, <1>2
<1>5. f = Append(g, f[k + 1])
  BY <1>3, <1>4, ListGrows
<1>6. g \in Seq(Seq(X)) /\ f[k + 1] \in Seq(X)
  BY <1>3, <1>4, IsASeq
<1>7. FlattenSeq(f) = FlattenSeq(g) \o f[k + 1] /\ FlattenSeq(g) \in Seq(X)
  BY <1>5, <1>6, FlattenAppend, FlattenTyped
<1> QED
  BY <1>1, <1>2, <1>3, <1>7 DEF Meant

LEMMA PlacedStays ==
  ASSUME NEW list, NEW k \in Nat, NEW r \in Nat, Placed(list, k, r)
  PROVE  Placed(list, k, r + 1)
<1>1. PICK place \in [1 .. k -> 1 .. r] :
        /\ \A i, j \in 1 .. k : i < j => place[i] < place[j]
        /\ \A i \in 1 .. k :
             list[i].tag = Grammar[place[i]].tag /\ list[i].type = Grammar[place[i]].type
  BY DEF Placed
<1>2. place \in [1 .. k -> 1 .. r + 1]
  OBVIOUS
<1> QED
  BY <1>1, <1>2 DEF Placed

LEMMA PlacedGrows ==
  ASSUME NEW list, NEW k \in Nat, NEW r \in Nat, Placed(list, k, r),
         list[k + 1].tag = Grammar[r + 1].tag, list[k + 1].type = Grammar[r + 1].type
  PROVE  Placed(list, k + 1, r + 1)
<1>1. PICK old \in [1 .. k -> 1 .. r] :
        /\ \A i, j \in 1 .. k : i < j => old[i] < old[j]
        /\ \A i \in 1 .. k :
             list[i].tag = Grammar[old[i]].tag /\ list[i].type = Grammar[old[i]].type
  BY DEF Placed
<1>2. PICK place : place = [i \in 1 .. k + 1 |-> IF i = k + 1 THEN r + 1 ELSE old[i]]
  OBVIOUS
<1>3. /\ place[k + 1] = r + 1
      /\ \A i \in 1 .. k : place[i] = old[i] /\ old[i] \in 1 .. r
  BY <1>2
<1>4. \A i \in 1 .. k + 1 : i \in 1 .. k \/ i = k + 1
  OBVIOUS
<1>5. place \in [1 .. k + 1 -> 1 .. r + 1]
  BY <1>2, <1>4
<1>6. ASSUME NEW i \in 1 .. k + 1, NEW j \in 1 .. k + 1, i < j
      PROVE  place[i] < place[j]
  <2>1. i \in 1 .. k
    BY <1>6
  <2>2. CASE j \in 1 .. k
    BY <1>1, <1>3, <1>6, <2>1, <2>2
  <2>3. CASE j = k + 1
    BY <1>3, <2>1, <2>3
  <2> QED
    BY <1>4, <2>2, <2>3
<1>7. ASSUME NEW i \in 1 .. k + 1
      PROVE  list[i].tag = Grammar[place[i]].tag /\ list[i].type = Grammar[place[i]].type
  <2>1. CASE i \in 1 .. k
    BY <1>1, <1>3, <2>1
  <2>2. CASE i = k + 1
    BY <1>3, <2>2
  <2> QED
    BY <1>4, <2>1, <2>2
<1> QED
  BY <1>5, <1>6, <1>7 DEF Placed

(* What the loop has done after r rows, of which k found an element.       *)
Taken(list, f, state, r, k) ==
  /\ state.rest \in Seq(Range(list)) /\ Len(state.rest) + k = Len(list)
  /\ \A i \in 1 .. Len(state.rest) : state.rest[i] = list[k + i]
  /\ state.params = Mapped(f, Meant(list, k))
  /\ Placed(list, k, r)

LEMMA EntryTaken ==
  ASSUME NEW list, list \in Seq(Range(list)),
         \A i \in DOMAIN list : IsItem(list[i]) /\ PlainItem(list[i]),
         NEW X, NEW f, \A i \in DOMAIN list : MeaningOf(list[i]) \in Seq(X),
         \A p \in X : f[p] = KeyParameterToPb(p).value,
         NEW upper, NEW r \in Nat, r + 1 <= Len(Grammar),
         NEW old, NEW new, new = ParseEntry(old, ParserTable[r + 1], upper), new.ok,
         old.ok => \E k \in Nat : Taken(list, f, old, r, k)
  PROVE  \E k \in Nat : Taken(list, f, new, r + 1, k)
<1> DEFINE row == ParserTable[r + 1]
           item == Head(old.rest)
           parsed == Parsed(row, item, upper)
<1>1. r + 1 \in 1 .. Len(Grammar)
  BY TableFacts
<1>2. old.ok
  BY DEF ParseEntry
<1>3. PICK k \in Nat : Taken(list, f, old, r, k)
  BY <1>2
<1>4. /\ old.rest \in Seq(Range(list)) /\ Len(old.rest) + k = Len(list)
      /\ \A i \in 1 .. Len(old.rest) : old.rest[i] = list[k + i]
  BY <1>3 DEF Taken
<1>5. Len(old.rest) \in Nat /\ Len(list) \in Nat /\ DOMAIN list = 1 .. Len(list)
  BY <1>4, LenProperties
<1>6. CASE new = old
  <2>1. Placed(list, k, r + 1)
    BY <1>3, PlacedStays DEF Taken
  <2>2. Taken(list, f, new, r + 1, k)
    BY <1>3, <1>6, <2>1 DEF Taken
  <2> QED
    BY <2>2
<1>7. CASE new # old
  <2>1. old.rest # << >> /\ item.tag = row.tag
    BY <1>2, <1>7 DEF ParseEntry
  <2>2. new = [ok |-> Succeeds(parsed), rest |-> Tail(old.rest),
               params |-> IF Succeeds(parsed) THEN old.params \o parsed.value ELSE old.params]
    BY <1>2, <2>1 DEF ParseEntry
  <2> HIDE DEF parsed
  <2>3. /\ Succeeds(parsed) /\ new.rest = Tail(old.rest)
        /\ new.params = old.params \o parsed.value
    <3>1. PICK ok : ok = Succeeds(parsed)
      OBVIOUS
    <3>2. PICK rest : rest = Tail(old.rest)
      OBVIOUS
    <3>3. PICK longer : longer = old.params \o parsed.value
      OBVIOUS
    <3>4. new = [ok |-> ok, rest |-> rest, params |-> IF ok THEN longer ELSE old.params]
      BY <2>2, <3>1, <3>2, <3>3, Zenon
    <3>5. ok
      BY ONLY new.ok, <3>4
    <3>6. new.rest = rest /\ new.params = longer
      BY ONLY <3>4, <3>5
    <3> QED
      BY <3>1, <3>2, <3>3, <3>5, <3>6
  <2>4. Len(old.rest) > 0 /\ item = list[k + 1] /\ k + 1 \in 1 .. Len(list)
    <3>1. Len(old.rest) > 0
      BY <1>4, <2>1, EmptySeq
    <3>2. item = old.rest[1]
      BY <1>4, <2>1, HeadTailProperties
    <3>3. 1 \in 1 .. Len(old.rest) /\ k + 1 \in 1 .. Len(list)
      <4>1. PICK n : n = Len(old.rest)
        OBVIOUS
      <4>2. PICK m : m = Len(list)
        OBVIOUS
      <4>3. n \in Nat /\ m \in Nat /\ n + k = m /\ n > 0
        BY <1>4, <1>5, <3>1, <4>1, <4>2
      <4>4. 1 \in 1 .. n /\ k + 1 \in 1 .. m
        BY <4>3
      <4> QED
        BY <4>1, <4>2, <4>4
    <3>4. old.rest[1] = list[k + 1]
      BY <1>4, <3>3
    <3> QED
      BY <3>1, <3>2, <3>3, <3>4
  <2>5. /\ row.type = item.type
        /\ item.type = "OCTET_STRING" => item.tag # "CREATION_DATETIME"
        /\ parsed.value = [j \in DOMAIN item.values |-> KeyParameterToPb(MeaningOf(item)[j]).value]
    <3>1. IsItem(item) /\ PlainItem(item) /\ row.type \in RowTypes
      BY <1>1, <1>5, <2>4, TableFacts
    <3> HIDE DEF item, row
    <3> QED
      BY <2>3, <3>1, ParsedRight DEF parsed
  <2> HIDE DEF item, row
  <2>6. list[k + 1].tag = Grammar[r + 1].tag /\ list[k + 1].type = Grammar[r + 1].type
    BY <1>1, <2>1, <2>4, <2>5, TableFacts DEF row
  <2>7. Placed(list, k + 1, r + 1)
    BY <1>3, <2>6, PlacedGrows DEF Taken
  <2>8. parsed.value = Mapped(f, MeaningOf(item))
    <3>1. MeaningOf(item) \in Seq(X) /\ DOMAIN MeaningOf(item) = DOMAIN item.values
      <4>1. MeaningOf(item) \in Seq(X)
        BY <1>5, <2>4
      <4> QED
        BY <4>1 DEF MeaningOf
    <3>2. PICK m : m = MeaningOf(item)
      OBVIOUS
    <3>3. \A j \in DOMAIN m : m[j] \in X
      BY <3>1, <3>2, ElementOfSeq, LenProperties
    <3>4. \A j \in DOMAIN m : KeyParameterToPb(m[j]).value = f[m[j]]
      BY <3>3
    <3>5. parsed.value = [j \in DOMAIN m |-> KeyParameterToPb(m[j]).value]
      BY <2>5, <3>1, <3>2
    <3>6. parsed.value = Mapped(f, m)
      BY <3>4, <3>5 DEF Mapped
    <3> QED
      BY <3>2, <3>6
  <2>9. new.params = Mapped(f, Meant(list, k + 1))
    <3>1. \A i \in 1 .. k + 1 : MeaningOf(list[i]) \in Seq(X)
      BY <1>5, <2>4
    <3>2. Meant(list, k) \in Seq(X) /\ Meant(list, k + 1) = Meant(list, k) \o MeaningOf(list[k + 1])
      BY <3>1, MeantGrows
    <3>3. PICK s : s = Meant(list, k)
      OBVIOUS
    <3>4. PICK t : t = MeaningOf(item)
      OBVIOUS
    <3>5. s \in Seq(X) /\ t \in Seq(X)
      BY <1>5, <2>4, <3>2, <3>3, <3>4
    <3>6. Mapped(f, s \o t) = Mapped(f, s) \o Mapped(f, t)
      BY <3>5, MappedConcat
    <3>7. old.params = Mapped(f, s)
      BY <1>3, <3>3 DEF Taken
    <3>8. Meant(list, k + 1) = s \o t
      BY <2>4, <3>2, <3>3, <3>4
    <3> QED
      BY <2>3, <2>8, <3>4, <3>6, <3>7, <3>8
  <2>10. /\ new.rest \in Seq(Range(list)) /\ Len(new.rest) = Len(old.rest) - 1
         /\ \A i \in 1 .. Len(new.rest) : new.rest[i] = old.rest[i + 1]
    BY <1>4, <2>1, <2>3, HeadTailProperties
  <2>11. /\ Len(new.rest) + (k + 1) = Len(list)
         /\ \A i \in 1 .. Len(new.rest) : new.rest[i] = list[(k + 1) + i]
    <3>1. Len(new.rest) + (k + 1) = Len(list)
      <4>1. PICK n : n = Len(old.rest)
        OBVIOUS
      <4>2. PICK m : m = Len(new.rest)
        OBVIOUS
      <4>3. n \in Nat /\ n + k = Len(list) /\ m = n - 1
        BY <1>4, <1>5, <2>10, <4>1, <4>2
      <4>4. m + (k + 1) = n + k
        BY <4>3
      <4> QED
        BY <4>2, <4>3, <4>4
    <3>2. ASSUME NEW i \in 1 .. Len(new.rest) PROVE new.rest[i] = list[(k + 1) + i]
      <4>1. i \in Nat /\ i + 1 \in 1 .. Len(old.rest)
        BY <1>5, <2>10
      <4>2. new.rest[i] = old.rest[i + 1] /\ old.rest[i + 1] = list[k + (i + 1)]
        BY <1>4, <2>10, <4>1
      <4>3. k + (i + 1) = (k + 1) + i
        BY <4>1
      <4> QED
        BY <4>2, <4>3
    <3> QED
      BY <3>1, <3>2
  <2>12. Taken(list, f, new, r + 1, k + 1)
    BY <2>7, <2>9, <2>10, <2>11 DEF Taken
  <2> QED
    BY <2>12
<1> QED
  BY <1>6, <1>7

(* A list that the loop consumes is translated as it is meant. *)
LEMMA ParsedListRight ==
  ASSUME NEW list, list \in Seq(Range(list)),
         \A i \in DOMAIN list : IsItem(list[i]) /\ PlainItem(list[i]),
         NEW X, NEW f, \A i \in DOMAIN list : MeaningOf(list[i]) \in Seq(X),
         \A p \in X : f[p] = KeyParameterToPb(p).value,
         NEW upper, Consumed(ParsedList(list, upper))
  PROVE  /\ ParsedList(list, upper).params = Mapped(f, Meant(list, Len(list)))
         /\ Placed(list, Len(list), Len(Grammar))
<1>1. PICK state :
        /\ state[0] = [ok |-> TRUE, rest |-> list, params |-> << >>]
        /\ \A r \in 1 .. Len(ParserTable) :
             state[r] = ParseEntry(state[r - 1], ParserTable[r], upper)
        /\ ParsedList(list, upper) = state[Len(ParserTable)]
  BY ListStates
<1>2. PICK n : n = Len(Grammar)
  OBVIOUS
<1>3. n \in Nat /\ Len(ParserTable) = n
  BY <1>2, TableFacts
<1>4. Len(list) \in Nat
  BY LenProperties
<1> DEFINE S == {r \in Nat : r <= n /\ state[r].ok => \E k \in Nat : Taken(list, f, state[r], r, k)}
<1>5. 0 \in S
  <2>1. /\ state[0].rest = list /\ state[0].params = << >>
    BY <1>1
  <2>2. Meant(list, 0) = << >>
    <3>1. [i \in 1 .. 0 |-> MeaningOf(list[i])] = << >>
      OBVIOUS
    <3> QED
      BY <3>1, FlattenEmpty DEF Meant
  <2>3. Mapped(f, << >>) = << >>
    BY DEF Mapped
  <2>4. Placed(list, 0, 0)
    <3>1. PICK place : place = [i \in 1 .. 0 |-> 0]
      OBVIOUS
    <3>2. place \in [1 .. 0 -> 1 .. 0]
      BY <3>1
    <3>3. \A i \in 1 .. 0 : FALSE
      OBVIOUS
    <3> QED
      BY <3>2, <3>3 DEF Placed
  <2>5. Len(state[0].rest) + 0 = Len(list)
    BY <1>4, <2>1
  <2>6. \A i \in 1 .. Len(list) : state[0].rest[i] = list[0 + i]
    BY <1>4, <2>1
  <2>7. Taken(list, f, state[0], 0, 0)
    BY <2>1, <2>2, <2>3, <2>4, <2>5, <2>6 DEF Taken
  <2> QED
    BY <2>7
<1>6. ASSUME NEW r \in Nat, r \in S PROVE r + 1 \in S
  <2> SUFFICES ASSUME r + 1 <= n, state[r + 1].ok
               PROVE  \E k \in Nat : Taken(list, f, state[r + 1], r + 1, k)
    OBVIOUS
  <2>1. PICK old : old = state[r]
    OBVIOUS
  <2>2. PICK new : new = state[r + 1]
    OBVIOUS
  <2>3. new = ParseEntry(old, ParserTable[r + 1], upper)
    <3>1. r + 1 \in 1 .. n /\ (r + 1) - 1 = r
      BY <1>3
    <3> QED
      BY <1>1, <1>3, <2>1, <2>2, <3>1
  <2>4. new.ok /\ r + 1 <= Len(Grammar)
    BY <1>2, <2>2
  <2>5. old.ok => \E k \in Nat : Taken(list, f, old, r, k)
    BY <1>3, <1>6, <2>1
  <2>6. \E k \in Nat : Taken(list, f, new, r + 1, k)
    BY <2>3, <2>4, <2>5, EntryTaken
  <2> QED
    BY <2>2, <2>6
<1>7. n \in S
  <2> HIDE DEF S
  <2>1. Nat \subseteq S
    BY <1>5, <1>6, SetInduction
  <2> QED
    BY <1>3, <2>1
<1>8. PICK end : end = ParsedList(list, upper)
  OBVIOUS
<1>9. end = state[n] /\ end.ok /\ end.rest = << >>
  BY <1>1, <1>3, <1>8 DEF Consumed
<1>10. PICK k \in Nat : Taken(list, f, end, n, k)
  BY <1>3, <1>7, <1>9
<1>11. Len(end.rest) = 0
  BY <1>9, EmptySeq
<1>12. k = Len(list)
  BY <1>4, <1>10, <1>11 DEF Taken
<1> QED
  BY <1>2, <1>8, <1>10, <1>12 DEF Taken

(* An importWrappedKey that is answered has made a key of what its list    *)
(* means, and reports it.                                                  *)
LEMMA WrapperRight ==
  ASSUME NEW w \in Wrappers, Plain(w), NEW upper, Succeeds(ImportWrappedKeyRequest(w, upper)),
         NEW key, key = KeyMade(ImportWrappedKeyRequest(w, upper).value, "IMPORTED"),
         Succeeds(PbToHidlParams(key.software)), Succeeds(PbToHidlParams(key.tee)),
         NEW report, report = ListReported(key.software) \o ListReported(key.tee)
  PROVE  /\ FollowsGrammar(w)
         /\ \A tag \in TagsOf(Meaning(w)) : OfTag(report, tag) = OfTag(Meaning(w), tag)
         /\ Len(report) = Len(Meaning(w)) + 1
<1>1. PICK list : list = w.list
  OBVIOUS
<1>2. list \in Seq(Range(list)) /\ \A item \in Range(list) : IsItem(item)
  BY <1>1, KeyImportAssumption
<1>3. Len(list) \in Nat /\ DOMAIN list = 1 .. Len(list)
  BY <1>2, LenProperties
<1>4. \A i \in DOMAIN list : IsItem(list[i]) /\ PlainItem(list[i])
  <2>1. \A i \in DOMAIN list : list[i] \in Range(list)
    BY DEF Range
  <2>2. \A i \in DOMAIN list : PlainItem(list[i])
    BY <1>1 DEF Plain, PlainItem
  <2> QED
    BY <1>2, <2>1, <2>2
<1> DEFINE X == UNION {Range(MeaningOf(list[i])) : i \in DOMAIN list}
<1>5. ASSUME NEW p \in X
      PROVE  IsParam(p) /\ \E i \in DOMAIN list : p.tag = list[i].tag
  <2>1. PICK i \in DOMAIN list : p \in Range(MeaningOf(list[i]))
    OBVIOUS
  <2>2. PICK item : item = list[i]
    OBVIOUS
  <2>3. PICK j \in DOMAIN item.values : p = MeaningOf(item)[j]
    BY <2>1, <2>2 DEF MeaningOf, Range
  <2>4. PICK v : v = IF item.type \in {"SET", "INTEGER"} THEN Number(item.values[j]) ELSE item.values[j]
    OBVIOUS
  <2>5. p = [tag |-> item.tag, value |-> v]
    BY <2>3, <2>4 DEF MeaningOf
  <2>6. IsParam(p) /\ p.tag = item.tag
    BY <2>5 DEF IsParam
  <2> QED
    BY <2>2, <2>6
<1>6. ASSUME NEW i \in DOMAIN list PROVE MeaningOf(list[i]) \in Seq(X)
  <2>1. PICK item : item = list[i]
    OBVIOUS
  <2>2. PICK m : m = MeaningOf(item)
    OBVIOUS
  <2>3. IsItem(item)
    BY <1>4, <2>1
  <2>4. DOMAIN item.values = 1 .. Len(item.values) /\ Len(item.values) \in Nat
    BY <2>3, LenProperties DEF IsItem
  <2>5. DOMAIN m = DOMAIN item.values /\ m = [j \in DOMAIN m |-> m[j]]
    BY <2>2 DEF MeaningOf
  <2>6. Range(m) \subseteq X
    BY <2>1, <2>2
  <2>7. \A j \in DOMAIN m : m[j] \in X
    <3> HIDE DEF X
    <3> QED
      BY <2>6 DEF Range
  <2>8. m \in [1 .. Len(item.values) -> X]
    <3> HIDE DEF X
    <3> QED
      BY <2>4, <2>5, <2>7
  <2>9. m \in Seq(X)
    <3> HIDE DEF X
    <3>1. PICK n : n = Len(item.values)
      OBVIOUS
    <3>2. n \in Nat /\ m \in [1 .. n -> X]
      BY <2>4, <2>8, <3>1
    <3> QED
      BY <3>2, IsASeq
  <2> QED
    BY <2>1, <2>2, <2>9
<1> HIDE DEF X
<1> DEFINE f == [p \in X |-> KeyParameterToPb(p).value]
<1>7. \A p \in X : f[p] = KeyParameterToPb(p).value
  OBVIOUS
<1> HIDE DEF f
<1>8. /\ Consumed(ParsedList(list, upper))
      /\ ImportWrappedKeyRequest(w, upper).value = ParsedList(list, upper).params
  <2>1. ~ Succeeds(Fails("INVALID_ARGUMENT"))
    BY DEF Succeeds, Fails
  <2> QED
    BY <1>1, <2>1 DEF ImportWrappedKeyRequest, Ok
<1>9. PICK given : given = Meant(list, Len(list))
  OBVIOUS
<1>10. /\ ParsedList(list, upper).params = Mapped(f, given)
       /\ Placed(list, Len(list), Len(Grammar))
  BY <1>2, <1>4, <1>6, <1>7, <1>8, <1>9, ParsedListRight
<1>11. given = Meaning(w)
  BY <1>1, <1>3, <1>9 DEF Meant, Meaning, MeaningOf
<1>12. given \in Seq(X)
  <2>1. PICK lists : lists = [i \in 1 .. Len(list) |-> MeaningOf(list[i])]
    OBVIOUS
  <2>2. lists \in [1 .. Len(list) -> Seq(X)]
    BY <1>3, <1>6, <2>1
  <2>3. lists \in Seq(Seq(X))
    BY <1>3, <2>2, IsASeq
  <2> QED
    BY <1>9, <2>1, <2>3, FlattenTyped DEF Meant
<1>13. PICK place \in [1 .. Len(list) -> 1 .. Len(Grammar)] :
         /\ \A i, j \in 1 .. Len(list) : i < j => place[i] < place[j]
         /\ \A i \in 1 .. Len(list) :
              list[i].tag = Grammar[place[i]].tag /\ list[i].type = Grammar[place[i]].type
  BY <1>10 DEF Placed
<1>14. FollowsGrammar(w)
  <2>1. place \in [DOMAIN list -> DOMAIN Grammar]
    BY <1>3, <1>13, TableFacts
  <2>2. /\ \A i, j \in DOMAIN list : i < j => place[i] < place[j]
        /\ \A i \in DOMAIN list :
             list[i].tag = Grammar[place[i]].tag /\ list[i].type = Grammar[place[i]].type
    BY <1>3, <1>13
  <2> QED
    BY <1>1, <2>1, <2>2 DEF FollowsGrammar
<1>15. ASSUME NEW p \in X PROVE p.tag \in RowTags
  <2>1. PICK i \in 1 .. Len(list) : p.tag = list[i].tag
    BY <1>3, <1>5
  <2>2. place[i] \in 1 .. Len(Grammar) /\ list[i].tag = Grammar[place[i]].tag
    BY <1>13
  <2> QED
    BY <2>1, <2>2, TableFacts
<1>16. /\ \A p \in X : IsParam(p) /\ p.tag # "INVALID"
       /\ \A p \in X : p.tag # "ORIGIN"
  BY <1>5, <1>15 DEF RowTags
<1>17. \A i \in DOMAIN given : given[i] \in X
  BY <1>12, LenProperties, ElementOfSeq
<1>18. "INVALID" \notin TagsOf(given) /\ "ORIGIN" \notin TagsOf(given)
  BY <1>16, <1>17 DEF TagsOf
<1>19. \A p \in Range(given) : Succeeds(KeyParameterToPb(p))
  BY <1>16, <1>17, ParamSent DEF Range
<1>20. Succeeds(HidlParamsToPb(given)) /\ HidlParamsToPb(given).value = Mapped(f, given)
  BY <1>7, <1>12, <1>19, HidlToPb
<1>21. key = KeyMade(HidlParamsToPb(given).value, "IMPORTED")
  BY <1>8, <1>10, <1>20
<1>22. /\ \A tag : tag # "ORIGIN" => OfTag(report, tag) = OfTag(given, tag)
       /\ Len(report) = Len(given) + 1
  <2>1. \A p \in X : IsParam(p)
    BY <1>16
  <2>2. PICK name : name = "IMPORTED"
    OBVIOUS
  <2>3. name \in {"GENERATED", "IMPORTED"} /\ key = KeyMade(HidlParamsToPb(given).value, name)
    BY <1>21, <2>2
  <2> QED
    <3>1. /\ Succeeds(PbToHidlParams(key.software)) /\ Succeeds(PbToHidlParams(key.tee))
          /\ report = ListReported(key.software) \o ListReported(key.tee)
      OBVIOUS
    <3>2. Succeeds(HidlParamsToPb(given)) /\ "INVALID" \notin TagsOf(given)
      BY <1>18, <1>20
    <3>3. Reports(report, given)
      BY ONLY <1>12, <2>1, <2>3, <3>1, <3>2, ReportRight
    <3> QED
      BY <3>3 DEF Reports
<1> QED
  BY <1>11, <1>14, <1>18, <1>22

LEMMA WrappedNext == Next => WrappedAsGiven'
<1> SUFFICES ASSUME Next PROVE WrappedAsGiven'
  OBVIOUS
<1>0. \A code : code # "OK" => ~ Succeeds(Fails(code))
  BY DEF Succeeds, Fails
<1>1. ASSUME NEW n \in 0 .. MaxParams, NEW params \in Lists(n), NEW format \in Formats,
             NEW key \in Keys, ImportKey(params, format, key)
      PROVE  WrappedAsGiven'
  BY <1>1 DEF ImportKey, WrappedAsGiven
<1>2. ASSUME NEW n \in 0 .. MaxParams, NEW params \in Lists(n), GenerateKey(params)
      PROVE  WrappedAsGiven'
  BY <1>2 DEF GenerateKey, NoCall, WrappedAsGiven
<1>3. ASSUME NEW w \in Wrappers, ImportWrappedKey(w) PROVE WrappedAsGiven'
  <2>1. call'.key = w
    BY <1>3 DEF ImportWrappedKey, NoCall
  <2> SUFFICES ASSUME Succeeds(answer'), SoftwareTranslates', Plain(w) PROVE WrappedAsGiven'
    BY <2>1 DEF WrappedAsGiven
  <2>2. PICK upper \in {0, 1} :
          /\ Succeeds(ImportWrappedKeyRequest(w, upper))
          /\ chip' = KeyMade(ImportWrappedKeyRequest(w, upper).value, "IMPORTED")
          /\ answer' = ReportedByImport(chip')
    BY <1>0, <1>3 DEF ImportWrappedKey
  <2>3. Succeeds(PbToHidlParams(chip'.software))
    BY DEF SoftwareTranslates
  <2>4. Succeeds(PbToHidlParams(chip'.tee)) /\ answer' = Reported(chip')
    BY <2>2 DEF ReportedByImport
  <2> DEFINE report == ListReported(chip'.software) \o ListReported(chip'.tee)
  <2>5. answer'.value.software \o answer'.value.tee = report
    BY <2>4 DEF Reported, Ok
  <2> HIDE DEF report
  <2>6. /\ FollowsGrammar(w)
        /\ \A tag \in TagsOf(Meaning(w)) : OfTag(report, tag) = OfTag(Meaning(w), tag)
        /\ Len(report) = Len(Meaning(w)) + 1
    BY <2>2, <2>3, <2>4, WrapperRight DEF report
  <2> QED
    BY <2>1, <2>5, <2>6 DEF WrappedAsGiven
<1>4. CASE GetKeyCharacteristics
  BY <1>4 DEF GetKeyCharacteristics, NoCall, WrappedAsGiven
<1>5. CASE ChipRefuses
  BY <1>5 DEF ChipRefuses, NoCall, WrappedAsGiven
<1> QED
  BY <1>1, <1>2, <1>3, <1>4, <1>5 DEF Next

-----------------------------------------------------------------------------
(* attestKey's steps make no keys: the answers of the calls that do stay.  *)
LEMMA ImportSteps ==
  CertInv /\ [AttestNext]_allVars => Next \/ UNCHANGED vars \/ call'.api = "attestKey"
<1> SUFFICES ASSUME CertInv, [AttestNext]_allVars
             PROVE  Next \/ UNCHANGED vars \/ call'.api = "attestKey"
  OBVIOUS
<1>0. pc # "idle" => call.api = "attestKey"
  BY DEF CertInv
<1>1. ASSUME NEW params \in AttestParams, Attest(params) PROVE call'.api = "attestKey"
  BY <1>1 DEF Attest, NoCall
<1>2. CASE GetCharacteristics
  BY <1>0, <1>2 DEF GetCharacteristics
<1>3. CASE StartAttestKey
  BY <1>0, <1>3 DEF StartAttestKey
<1>4. CASE StartFails
  BY <1>0, <1>4 DEF StartFails
<1>5. CASE ContinueAttestKey
  BY <1>0, <1>5 DEF ContinueAttestKey
<1>6. CASE FinishAttestKey
  BY <1>0, <1>6 DEF FinishAttestKey
<1>7. CASE AbortOperation
  BY <1>7 DEF AbortOperation
<1>8. CASE ChipResets
  BY <1>8 DEF ChipResets
<1>9. CASE HalDies
  BY <1>0, <1>9 DEF HalDies
<1>10. CASE UNCHANGED allVars
  BY <1>10 DEF allVars
<1> QED
  BY <1>1, <1>2, <1>3, <1>4, <1>5, <1>6, <1>7, <1>8, <1>9, <1>10 DEF AttestNext, AttestSteps

(* What a successful importKey or generateKey reports is what was asked    *)
(* for, whatever its parameters, in whatever order the map of importKey    *)
(* gives the tags: nothing lost and nothing of one tag out of order.       *)
THEOREM KeysReportedAsAsked == AttestSpec => []ReportsWhatWasAsked
<1>1. AttestInit => ReportsWhatWasAsked
  BY DEF AttestInit, Init, NoCall, ReportsWhatWasAsked
<1>2. ReportsWhatWasAsked /\ UNCHANGED vars => ReportsWhatWasAsked'
  BY DEF vars, ReportsWhatWasAsked, Translates, SoftwareTranslates
<1>3. call'.api = "attestKey" => ReportsWhatWasAsked'
  BY DEF ReportsWhatWasAsked
<1>4. CertInv /\ ReportsWhatWasAsked /\ [AttestNext]_allVars => ReportsWhatWasAsked'
  BY <1>2, <1>3, ImportSteps, ReportsNext
<1> QED
  BY <1>1, <1>4, CertInit, CertNext, PTL DEF AttestSpec

(* importKey succeeds exactly if the key, its format and its parameters    *)
(* agree and the chip's list can be translated back.                       *)
THEOREM ImportsAgree == AttestSpec => []ImportsWhatAgrees
<1>1. AttestInit => ImportsWhatAgrees
  BY DEF AttestInit, Init, NoCall, ImportsWhatAgrees
<1>2. ImportsWhatAgrees /\ UNCHANGED vars => ImportsWhatAgrees'
  <2> SUFFICES ASSUME ImportsWhatAgrees, UNCHANGED vars PROVE ImportsWhatAgrees'
    OBVIOUS
  <2>1. call' = call /\ answer' = answer /\ chip' = chip
    BY DEF vars
  <2>2. \A tag : Given(tag)' = Given(tag)
    BY <2>1 DEF Given
  <2>3. Consistent' <=> Consistent
    BY <2>1, <2>2 DEF Consistent
  <2> QED
    BY <2>1, <2>3 DEF ImportsWhatAgrees, Translates
<1>3. call'.api = "attestKey" => ImportsWhatAgrees'
  BY DEF ImportsWhatAgrees
<1>4. CertInv /\ ImportsWhatAgrees /\ [AttestNext]_allVars => ImportsWhatAgrees'
  BY <1>2, <1>3, ImportSteps, AgreesNext
<1> QED
  BY <1>1, <1>4, CertInit, CertNext, PTL DEF AttestSpec

(* A wrapper that is accepted is in the order of the grammar, and its key  *)
(* is made with all of its authorization list, as it is meant, and nothing *)
(* else.                                                                   *)
THEOREM WrappedKeysAsGiven == AttestSpec => []WrappedAsGiven
<1>1. AttestInit => WrappedAsGiven
  BY DEF AttestInit, Init, NoCall, WrappedAsGiven
<1>2. WrappedAsGiven /\ UNCHANGED vars => WrappedAsGiven'
  <2> SUFFICES ASSUME WrappedAsGiven, UNCHANGED vars PROVE WrappedAsGiven'
    OBVIOUS
  <2>1. call' = call /\ answer' = answer /\ chip' = chip
    BY DEF vars
  <2> QED
    BY <2>1 DEF WrappedAsGiven, SoftwareTranslates
<1>3. call'.api = "attestKey" => WrappedAsGiven'
  BY DEF WrappedAsGiven
<1>4. CertInv /\ WrappedAsGiven /\ [AttestNext]_allVars => WrappedAsGiven'
  BY <1>2, <1>3, ImportSteps, WrappedNext
<1> QED
  BY <1>1, <1>4, CertInit, CertNext, PTL DEF AttestSpec
=============================================================================
