----------------------------- MODULE KeyParams -----------------------------
(***************************************************************************)
(* The translations of hals/keymaster/proto_utils.cpp between the key      *)
(* parameters of the Keymaster interface and those of the messages to the  *)
(* chip, with the map of parameters by tag that some calls make.           *)
(*                                                                         *)
(* A parameter is a tag and a value.  In a message the value is in one of  *)
(* three fields (integer, long_integer, blob), or in none.  Tags have the  *)
(* same name on both sides: translate_tag only moves the bits of the type. *)
(* An enumerator that a switch does not name is "other".                   *)
(***************************************************************************)
EXTENDS Naturals, Sequences, SequencesExt

BoolTags == {"CALLER_NONCE", "INCLUDE_UNIQUE_ID", "BOOTLOADER_ONLY", "ROLLBACK_RESISTANCE",
  "NO_AUTH_REQUIRED", "ALLOW_WHILE_ON_BODY", "TRUSTED_USER_PRESENCE_REQUIRED",
  "TRUSTED_CONFIRMATION_REQUIRED", "RESET_SINCE_ID_ROTATION"}

UintTags == {"KEY_SIZE", "MIN_MAC_LENGTH", "MIN_SECONDS_BETWEEN_OPS", "MAX_USES_PER_BOOT",
  "AUTH_TIMEOUT", "OS_VERSION", "OS_PATCHLEVEL", "VENDOR_PATCHLEVEL", "BOOT_PATCHLEVEL",
  "MAC_LENGTH"}

(* An OR of flags, copied as it is. *)
FlagTags == {"USER_AUTH_TYPE"}

LongTags == {"RSA_PUBLIC_EXPONENT", "USER_SECURE_ID", "ACTIVE_DATETIME",
  "ORIGINATION_EXPIRE_DATETIME", "USAGE_EXPIRE_DATETIME", "CREATION_DATETIME"}

BlobTags == {"APPLICATION_ID", "APPLICATION_DATA", "ROOT_OF_TRUST", "UNIQUE_ID",
  "ATTESTATION_CHALLENGE", "ATTESTATION_APPLICATION_ID", "ATTESTATION_ID_BRAND",
  "ATTESTATION_ID_DEVICE", "ATTESTATION_ID_PRODUCT", "ATTESTATION_ID_SERIAL",
  "ATTESTATION_ID_IMEI", "ATTESTATION_ID_MEID", "ATTESTATION_ID_MANUFACTURER",
  "ATTESTATION_ID_MODEL", "ASSOCIATED_DATA", "NONCE", "CONFIRMATION_TOKEN"}

(* [enumerator -> enumerator with the same name] *)
Same(names) == [n \in names |-> n]

(* The enumerations, in the switches towards the chip ... *)
EnumToPb == [
  PURPOSE    |-> Same({"ENCRYPT", "DECRYPT", "SIGN", "VERIFY", "WRAP_KEY"}),
  ALGORITHM  |-> [n \in {"RSA", "EC", "AES", "TRIPLE_DES", "HMAC"} |->
                    IF n = "TRIPLE_DES" THEN "DES" ELSE n],
  BLOCK_MODE |-> Same({"ECB", "CBC", "CTR", "GCM"}),
  DIGEST     |-> Same({"NONE", "MD5", "SHA1", "SHA_2_224", "SHA_2_256", "SHA_2_384", "SHA_2_512"}),
  PADDING    |-> Same({"NONE", "RSA_OAEP", "RSA_PSS", "RSA_PKCS1_1_5_ENCRYPT",
                       "RSA_PKCS1_1_5_SIGN", "PKCS7"}),
  EC_CURVE   |-> Same({"P_224", "P_256", "P_384", "P_521"}),
  BLOB_USAGE_REQUIREMENTS |-> Same({"STANDALONE", "REQUIRES_FILE_SYSTEM"}),
  ORIGIN     |-> Same({"GENERATED", "DERIVED", "IMPORTED", "UNKNOWN"})]

(* ... and in those from it.  The one for BLOB_USAGE_REQUIREMENTS returns  *)
(* an error whatever it is given.                                          *)
EnumFromPb == [
  PURPOSE    |-> Same({"ENCRYPT", "DECRYPT", "SIGN", "VERIFY", "WRAP_KEY"}),
  ALGORITHM  |-> [n \in {"RSA", "EC", "AES", "DES", "HMAC"} |->
                    IF n = "DES" THEN "TRIPLE_DES" ELSE n],
  BLOCK_MODE |-> Same({"ECB", "CBC", "CTR", "GCM"}),
  DIGEST     |-> Same({"NONE", "MD5", "SHA1", "SHA_2_224", "SHA_2_256", "SHA_2_384", "SHA_2_512"}),
  PADDING    |-> Same({"NONE", "RSA_OAEP", "RSA_PSS", "RSA_PKCS1_1_5_ENCRYPT",
                       "RSA_PKCS1_1_5_SIGN", "PKCS7"}),
  EC_CURVE   |-> Same({"P_224", "P_256", "P_384", "P_521"}),
  BLOB_USAGE_REQUIREMENTS |-> Same({}),
  ORIGIN     |-> Same({"GENERATED", "DERIVED", "IMPORTED", "UNKNOWN"})]

EnumTags == DOMAIN EnumToPb

(* The types ENUM_REP and ULONG_REP; no tag has the type UINT_REP. *)
RepeatedTags == {"PURPOSE", "BLOCK_MODE", "DIGEST", "PADDING", "USER_SECURE_ID"}
-----------------------------------------------------------------------------
(* A translation's result: an error code, and a value when it is OK. *)
Ok(v) == [error |-> "OK", value |-> v]
Fails(code) == [error |-> code]
Succeeds(r) == r.error = "OK"

PbParam(tag, field, v) == Ok([tag |-> tag, field |-> field, value |-> v])

(* HARDWARE_TYPE and tags it does not know are sent without their value.   *)
KeyParameterToPb(p) ==
  CASE p.tag = "INVALID" -> Fails("INVALID_ARGUMENT")
    [] p.tag \in EnumTags ->
         PbParam(p.tag, "integer",
                 IF p.value \in DOMAIN EnumToPb[p.tag] THEN EnumToPb[p.tag][p.value] ELSE "MAX")
    [] p.tag \in BoolTags \cup UintTags \cup FlagTags -> PbParam(p.tag, "integer", p.value)
    [] p.tag \in LongTags -> PbParam(p.tag, "long_integer", p.value)
    [] p.tag \in BlobTags -> PbParam(p.tag, "blob", p.value)
    [] OTHER -> PbParam(p.tag, "none", "unset")

KeyParam(tag, v) == Ok([tag |-> tag, value |-> v])

PbToKeyParameter(q) ==
  CASE q.tag \in EnumTags ->
         IF q.value \in DOMAIN EnumFromPb[q.tag]
         THEN KeyParam(q.tag, EnumFromPb[q.tag][q.value]) ELSE Fails("UNKNOWN_ERROR")
    [] q.tag \in BoolTags \cup UintTags \cup FlagTags \cup LongTags \cup BlobTags ->
         KeyParam(q.tag, q.value)
    [] OTHER -> Fails("UNKNOWN_ERROR")

(* All of a list, or the error. *)
TranslatedAll(results, code) ==
  IF \A i \in DOMAIN results : Succeeds(results[i])
  THEN Ok([i \in DOMAIN results |-> results[i].value])
  ELSE Fails(code)

HidlParamsToPb(params) ==
  TranslatedAll([i \in DOMAIN params |-> KeyParameterToPb(params[i])], "INVALID_ARGUMENT")

PbToHidlParams(pbs) ==
  TranslatedAll([i \in DOMAIN pbs |-> PbToKeyParameter(pbs[i])], "UNKNOWN_ERROR")
-----------------------------------------------------------------------------
TagsOf(params) == {params[i].tag : i \in DOMAIN params}

(* Those of a list that have one of some tags, in their order. *)
WithTags(params, tags) ==
  FlattenSeq([i \in DOMAIN params |-> IF params[i].tag \in tags THEN <<params[i]>> ELSE << >>])

OfTag(params, tag) == WithTags(params, {tag})

(* Mutant: nothing may be given twice. *)
MayRepeatNone(tag) == FALSE

MayRepeat(tag) == tag \in RepeatedTags

(* Mutant: only the first value of a repeated tag is kept. *)
HidlParamsToMapFirst(params) ==
  IF \/ "INVALID" \in TagsOf(params)
     \/ \E t \in TagsOf(params) : Len(OfTag(params, t)) > 1 /\ ~ MayRepeat(t)
  THEN Fails("INVALID_ARGUMENT")
  ELSE Ok([t \in TagsOf(params) |-> <<Head(OfTag(params, t))>>])

(* Parameters by tag, in the order they were given. *)
HidlParamsToMap(params) ==
  IF \/ "INVALID" \in TagsOf(params)
     \/ \E t \in TagsOf(params) : Len(OfTag(params, t)) > 1 /\ ~ MayRepeat(t)
  THEN Fails("INVALID_ARGUMENT")
  ELSE Ok([t \in TagsOf(params) |-> OfTag(params, t)])

(* In the order of the map's keys; which order that is does not matter.    *)
MapParamsToPb(map) ==
  LET order == SetToSeq(DOMAIN map)
  IN HidlParamsToPb(FlattenSeq([i \in DOMAIN order |-> map[order[i]]]))
-----------------------------------------------------------------------------
(* The error codes that have the same name on both sides; of any other the *)
(* chip may send, a client is told UNKNOWN_ERROR.                          *)
ErrorCodes == {
  "OK", "ROOT_OF_TRUST_ALREADY_SET", "UNSUPPORTED_PURPOSE", "INCOMPATIBLE_PURPOSE",
  "UNSUPPORTED_ALGORITHM", "INCOMPATIBLE_ALGORITHM", "UNSUPPORTED_KEY_SIZE",
  "UNSUPPORTED_BLOCK_MODE", "INCOMPATIBLE_BLOCK_MODE", "UNSUPPORTED_MAC_LENGTH",
  "UNSUPPORTED_PADDING_MODE", "INCOMPATIBLE_PADDING_MODE", "UNSUPPORTED_DIGEST",
  "INCOMPATIBLE_DIGEST", "INVALID_EXPIRATION_TIME", "INVALID_USER_ID",
  "INVALID_AUTHORIZATION_TIMEOUT", "UNSUPPORTED_KEY_FORMAT", "INCOMPATIBLE_KEY_FORMAT",
  "UNSUPPORTED_KEY_ENCRYPTION_ALGORITHM", "UNSUPPORTED_KEY_VERIFICATION_ALGORITHM",
  "INVALID_INPUT_LENGTH", "KEY_EXPORT_OPTIONS_INVALID", "DELEGATION_NOT_ALLOWED",
  "KEY_NOT_YET_VALID", "KEY_EXPIRED", "KEY_USER_NOT_AUTHENTICATED",
  "OUTPUT_PARAMETER_NULL", "INVALID_OPERATION_HANDLE", "INSUFFICIENT_BUFFER_SPACE",
  "VERIFICATION_FAILED", "TOO_MANY_OPERATIONS", "UNEXPECTED_NULL_POINTER",
  "INVALID_KEY_BLOB", "IMPORTED_KEY_NOT_ENCRYPTED", "IMPORTED_KEY_DECRYPTION_FAILED",
  "IMPORTED_KEY_NOT_SIGNED", "IMPORTED_KEY_VERIFICATION_FAILED", "INVALID_ARGUMENT",
  "UNSUPPORTED_TAG", "INVALID_TAG", "MEMORY_ALLOCATION_FAILED",
  "IMPORT_PARAMETER_MISMATCH", "SECURE_HW_ACCESS_DENIED", "OPERATION_CANCELLED",
  "CONCURRENT_ACCESS_CONFLICT", "SECURE_HW_BUSY", "SECURE_HW_COMMUNICATION_FAILED",
  "UNSUPPORTED_EC_FIELD", "MISSING_NONCE", "INVALID_NONCE", "MISSING_MAC_LENGTH",
  "KEY_RATE_LIMIT_EXCEEDED", "CALLER_NONCE_PROHIBITED", "KEY_MAX_OPS_EXCEEDED",
  "INVALID_MAC_LENGTH", "MISSING_MIN_MAC_LENGTH", "UNSUPPORTED_MIN_MAC_LENGTH",
  "UNSUPPORTED_KDF", "UNSUPPORTED_EC_CURVE", "KEY_REQUIRES_UPGRADE",
  "ATTESTATION_CHALLENGE_MISSING", "KEYMASTER_NOT_CONFIGURED",
  "ATTESTATION_APPLICATION_ID_MISSING", "CANNOT_ATTEST_IDS", "UNIMPLEMENTED",
  "VERSION_MISMATCH", "ROLLBACK_RESISTANCE_UNAVAILABLE", "HARDWARE_TYPE_UNAVAILABLE",
  "PROOF_OF_PRESENCE_REQUIRED", "CONCURRENT_PROOF_OF_PRESENCE_REQUESTED",
  "UNKNOWN_ERROR", "NO_USER_CONFIRMATION"}

TranslateErrorCode(error_code) ==
  IF error_code \in ErrorCodes THEN error_code ELSE "UNKNOWN_ERROR"
=============================================================================
