----------------------------- MODULE KeyImport -----------------------------
(***************************************************************************)
(* Making keys: importKey, generateKey and getKeyCharacteristics           *)
(* (hals/keymaster/KeymasterDevice.cpp:456-562) with the checks of         *)
(* import_key.cpp, and importWrappedKey (:1236-1291).  The HAL keeps       *)
(* nothing; the chip (external) keeps the parameters a key was made with,  *)
(* adds its origin, and reports them.                                      *)
(***************************************************************************)
EXTENDS WrappedKey

CONSTANTS
  Params,    \* the parameters clients use
  Keys,      \* the keys clients import
  Wrappers,  \* the wrapped keys clients import
  SoftwareTags, \* external: tags of parameters the chip leaves to software
  MaxParams  \* bound: parameters of a call

(* A parameter is its tag and its value (KeyParameter of the interface). *)
IsParam(p) == p = [tag |-> p.tag, value |-> p.value]

(* An element of an authorization list has one value, or is a set of them; *)
(* that of an ASN.1 NULL stands for true.                                  *)
IsItem(item) ==
  /\ item.values \in Seq(Range(item.values))
  /\ item.type # "SET" => Len(item.values) = 1
  /\ item.type = "NULL" => item.values[1] = 1

ASSUME KeyImportAssumption ==
  /\ \A p \in Params : IsParam(p)
  /\ MaxParams \in Nat
  /\ \A key \in Keys :
       /\ key.size \in Nat
       /\ key.encodes = "EC" => key.curve \in DOMAIN EnumToPb.EC_CURVE \cup {"other"}
  /\ \A w \in Wrappers : w.list \in Seq(Range(w.list)) /\ \A item \in Range(w.list) : IsItem(item)

VARIABLES
  chip,   \* external: the key's characteristics, software-enforced and its own
  call,   \* the last call and its arguments
  answer  \* what it returned: an error code, with the characteristics

vars == <<chip, call, answer>>

Formats == {"PKCS8", "RAW", "X509"}

NoKey == [software |-> << >>, tee |-> << >>]

NoCall == [api |-> "none", params |-> << >>, format |-> "RAW", key |-> "none"]

Init ==
  /\ chip = NoKey
  /\ call = NoCall
  /\ answer = Fails("UNKNOWN_ERROR")

(* Lists of parameters of one length. *)
Lists(n) == [1 .. n -> Params]

(* Values that a map has for a tag: none or one, for these tags. *)
ValuesOf(map, tag) == IF tag \in DOMAIN map THEN {map[tag][i].value : i \in DOMAIN map[tag]} ELSE {}

(* A parameter that was given has this value. *)
MatchesIfGiven(map, tag, v) == ValuesOf(map, tag) \subseteq {v}
-----------------------------------------------------------------------------
(* A key is the bytes a client gives.  encodes says what they parse to as  *)
(* PKCS8, and size is that key's size in bits (RSA: a multiple of 8), or   *)
(* 8 times the number of bytes.                                            *)

KeyOf(key) == Ok([size |-> key.size, encodes |-> key.encodes])

(* Mutant: the size of the key is not looked at. *)
ImportKeyRsaAnySize(map, key) ==
  CASE key.encodes # "RSA" -> Fails("INVALID_ARGUMENT")
    [] ~ MatchesIfGiven(map, "RSA_PUBLIC_EXPONENT", key.exponent) -> Fails("IMPORT_PARAMETER_MISMATCH")
    [] OTHER -> KeyOf(key)

ImportKeyRsa(map, key) ==
  CASE key.encodes # "RSA" -> Fails("INVALID_ARGUMENT")
    [] key.encodes = "RSA" /\ ~ /\ MatchesIfGiven(map, "KEY_SIZE", key.size)
                                /\ MatchesIfGiven(map, "RSA_PUBLIC_EXPONENT", key.exponent) ->
         Fails("IMPORT_PARAMETER_MISMATCH")
    [] OTHER -> KeyOf(key)

ImportKeyEc(map, key) ==
  CASE \/ key.encodes # "EC"
       \/ key.curve \notin DOMAIN EnumToPb.EC_CURVE -> Fails("INVALID_ARGUMENT")
    [] /\ key.encodes = "EC"
       /\ key.curve \in DOMAIN EnumToPb.EC_CURVE
       /\ ~ /\ MatchesIfGiven(map, "EC_CURVE", key.curve)
            /\ MatchesIfGiven(map, "KEY_SIZE", key.size) -> Fails("IMPORT_PARAMETER_MISMATCH")
    [] OTHER -> KeyOf(key)

(* Triple DES: 24 bytes are a key of 168 bits. *)
ImportKeyRaw(map, algorithm, key) ==
  CASE algorithm \notin {"AES", "TRIPLE_DES", "HMAC"} -> Fails("UNSUPPORTED_ALGORITHM")
    [] \/ algorithm \in {"AES", "HMAC"} /\ ~ MatchesIfGiven(map, "KEY_SIZE", key.size)
       \/ algorithm = "TRIPLE_DES" /\ ~ (MatchesIfGiven(map, "KEY_SIZE", 168) /\ key.size = 192)
       \/ algorithm \in {"AES", "HMAC"} /\ key.size = 0 -> Fails("IMPORT_PARAMETER_MISMATCH")
    [] OTHER -> KeyOf(key)

Material(map, format, key) ==
  LET algorithm == map["ALGORITHM"][1].value
  IN CASE format = "RAW" -> ImportKeyRaw(map, algorithm, key)
       [] format = "PKCS8" /\ algorithm = "RSA" -> ImportKeyRsa(map, key)
       [] format = "PKCS8" /\ algorithm = "EC" -> ImportKeyEc(map, key)
       [] OTHER -> Fails("UNSUPPORTED_ALGORITHM")

(* import_key_request: the parameters to send, or an error. *)
ImportKeyRequest(params, format, key) ==
  LET map == HidlParamsToMap(params)
  IN CASE format = "X509" -> Fails("UNSUPPORTED_KEY_FORMAT")
       [] format # "X509" /\ ~ Succeeds(map) -> map
       [] format # "X509" /\ Succeeds(map) /\ "ALGORITHM" \notin DOMAIN map.value ->
            Fails("INVALID_ARGUMENT")
       [] OTHER -> LET material == Material(map.value, format, key)
                   IN IF Succeeds(material) THEN MapParamsToPb(map.value) ELSE material
-----------------------------------------------------------------------------
(* Bound, in Next: one key is made; the HAL keeps nothing between calls.   *)
OneKey == call.api = "none"

Origin(name) == [tag |-> "ORIGIN", field |-> "integer", value |-> name]

(* External: the chip keeps the parameters it was given and adds an origin. *)
KeyMade(pbs, origin) ==
  [software |-> WithTags(pbs, SoftwareTags),
   tee      |-> Append(WithTags(pbs, TagsOf(pbs) \ SoftwareTags), Origin(origin))]

(* A list that cannot be translated is left out, all of it. *)
ListReported(pbs) ==
  LET params == PbToHidlParams(pbs) IN IF Succeeds(params) THEN params.value ELSE << >>

Reported(key) == Ok([software |-> ListReported(key.software), tee |-> ListReported(key.tee)])

(* importKey looks at the error of the second list only. *)
ReportedByImport(key) ==
  LET tee == PbToHidlParams(key.tee) IN IF Succeeds(tee) THEN Reported(key) ELSE tee

ImportKey(params, format, key) ==
  /\ call' = [api |-> "importKey", params |-> params, format |-> format, key |-> key]
  /\ LET request == ImportKeyRequest(params, format, key)
     IN IF Succeeds(request)
        THEN /\ chip' = KeyMade(request.value, "IMPORTED")
             /\ answer' = ReportedByImport(chip')
        ELSE answer' = request /\ UNCHANGED chip

(* upper: see ParseAsn1Integer. *)
ImportWrappedKey(w) ==
  /\ call' = [NoCall EXCEPT !.api = "importWrappedKey", !.key = w]
  /\ \E upper \in {0, 1} :
       LET request == ImportWrappedKeyRequest(w, upper)
       IN IF w.maskSize = 32 /\ Succeeds(request)
          THEN /\ chip' = KeyMade(request.value, "IMPORTED")
               /\ answer' = ReportedByImport(chip')
          ELSE answer' = Fails("INVALID_ARGUMENT") /\ UNCHANGED chip

GenerateKey(params) ==
  /\ call' = [NoCall EXCEPT !.api = "generateKey", !.params = params]
  /\ LET request == HidlParamsToPb(params)
     IN IF Succeeds(request)
        THEN /\ chip' = KeyMade(request.value, "GENERATED")
             /\ answer' = Reported(chip')
        ELSE answer' = request /\ UNCHANGED chip

GetKeyCharacteristics ==
  /\ chip # NoKey
  /\ call' = [NoCall EXCEPT !.api = "getKeyCharacteristics"]
  /\ answer' = Reported(chip)
  /\ UNCHANGED chip

(* The call did not get through, or the chip refused it. *)
ChipRefuses ==
  /\ call.api \in {"none", "refused"}
  /\ call' = [NoCall EXCEPT !.api = "refused"]
  /\ answer' = Fails("SECURE_HW_COMMUNICATION_FAILED")
  /\ UNCHANGED chip

Next ==
  \/ /\ OneKey
     /\ \E n \in 0 .. MaxParams : \E params \in Lists(n) :
          \/ \E format \in Formats, key \in Keys : ImportKey(params, format, key)
          \/ GenerateKey(params)
  \/ OneKey /\ \E w \in Wrappers : ImportWrappedKey(w)
  \/ GetKeyCharacteristics
  \/ ChipRefuses

Spec == Init /\ [][Next]_vars
-----------------------------------------------------------------------------
(* What the parameters and the key must have in common (IKeymasterDevice), *)
(* stated over the parameters as given.                                    *)
Given(tag) == {call.params[i].value : i \in {j \in DOMAIN call.params : call.params[j].tag = tag}}

Consistent ==
  LET key == call.key IN
  /\ \A tag \in TagsOf(call.params) \ RepeatedTags : Len(OfTag(call.params, tag)) = 1
  /\ "INVALID" \notin TagsOf(call.params)
  /\ \/ /\ call.format = "PKCS8"
        /\ Given("ALGORITHM") = {key.encodes}
        /\ \/ key.encodes = "RSA" /\ Given("RSA_PUBLIC_EXPONENT") \subseteq {key.exponent}
           \/ /\ key.encodes = "EC" /\ Given("EC_CURVE") \subseteq {key.curve}
              /\ key.curve # "other"
        /\ Given("KEY_SIZE") \subseteq {key.size}
     \/ /\ call.format = "RAW"
        /\ \/ Given("ALGORITHM") \in {{"AES"}, {"HMAC"}} /\ key.size > 0
              /\ Given("KEY_SIZE") \subseteq {key.size}
           \/ Given("ALGORITHM") = {"TRIPLE_DES"} /\ key.size = 24 * 8
              /\ Given("KEY_SIZE") \subseteq {168}

(* BLOB_USAGE_REQUIREMENTS, HARDWARE_TYPE and values that the chip's       *)
(* messages do not have never translate back, which takes the whole list   *)
(* with it; what is reported is stated for keys without them.              *)
Translates == Succeeds(PbToHidlParams(chip.tee))

SoftwareTranslates == Succeeds(PbToHidlParams(chip.software))

(* importKey never has the chip make a key that contradicts its parameters,*)
(* and refuses no key that agrees with them (import_key.cpp).              *)
ImportsWhatAgrees ==
  call.api = "importKey" => (Succeeds(answer) <=> Consistent /\ Translates)

(* What a successful importKey or generateKey reports is what was asked    *)
(* for, nothing lost and values of one tag in their order, although        *)
(* importKey takes them apart and puts them together by tag.  (The origin  *)
(* is the chip's own to report.)                                           *)
ReportsWhatWasAsked ==
  call.api \in {"importKey", "generateKey"} /\ Succeeds(answer)
    /\ Translates /\ SoftwareTranslates =>
     LET reported == answer.value.software \o answer.value.tee
     IN /\ \A tag \in TagsOf(call.params) \ {"ORIGIN"} : OfTag(reported, tag) = OfTag(call.params, tag)
        /\ Len(reported) = Len(call.params) + 1

(* What a wrapper means: none of the values that the code is known to      *)
(* change, no empty string.                                                *)
Plain(w) ==
  \A i \in DOMAIN w.list :
    /\ w.list[i].tag # "RSA_PUBLIC_EXPONENT"
    /\ w.list[i].type = "OCTET_STRING" => w.list[i].values[1] > 0
    /\ w.list[i].type \in {"SET", "INTEGER"} =>
         \A j \in DOMAIN w.list[i].values :
           LET v == w.list[i].values[j]
           IN ~ IsAllOnes(v) /\ (w.list[i].tag \in LongTags \/ v.high = 0)

Meaning(w) ==
  FlattenSeq([i \in DOMAIN w.list |->
    LET item == w.list[i]
    IN [j \in DOMAIN item.values |->
         [tag |-> item.tag,
          value |-> IF item.type \in {"SET", "INTEGER"} THEN Number(item.values[j])
                    ELSE item.values[j]]]])

FollowsGrammar(w) ==
  \E place \in [DOMAIN w.list -> DOMAIN Grammar] :
    /\ \A i, j \in DOMAIN w.list : i < j => place[i] < place[j]
    /\ \A i \in DOMAIN w.list :
         w.list[i].tag = Grammar[place[i]].tag /\ w.list[i].type = Grammar[place[i]].type

(* A wrapper that is accepted is in the order of the grammar, and its key  *)
(* is made with all of its authorization list and nothing else: what the   *)
(* table does not name is not ignored (import_wrapped_key.cpp:461).        *)
WrappedAsGiven ==
  call.api = "importWrappedKey" /\ Succeeds(answer) /\ SoftwareTranslates
    /\ Plain(call.key) =>
     LET reported == answer.value.software \o answer.value.tee
         given == Meaning(call.key)
     IN /\ FollowsGrammar(call.key)
        /\ \A tag \in TagsOf(given) : OfTag(reported, tag) = OfTag(given, tag)
        /\ Len(reported) = Len(given) + 1

(* The tags that some parser of the code has a case for. *)
Handled(w) ==
  \A i \in DOMAIN w.list :
    w.list[i].tag \in SetTags \cup EnumIntegerTags \cup Integer32Tags \cup DateTags
                      \cup NullTags \cup OctetTags

(* "creationDateTime  [701] EXPLICIT INTEGER OPTIONAL"                     *)
(* (import_wrapped_key.cpp:335), and parse_asn1_integer has a case for it  *)
(* (:198): a wrapper that follows the grammar, with tags that the code     *)
(* handles, is accepted.                                                   *)
WrappersAccepted ==
  /\ call.api = "importWrappedKey" /\ Translates
  /\ Plain(call.key) /\ FollowsGrammar(call.key) /\ Handled(call.key)
  /\ call.key.parses /\ WellSized(call.key) /\ call.key.maskSize = 32
  => Succeeds(answer)
=============================================================================
