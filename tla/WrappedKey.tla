----------------------------- MODULE WrappedKey -----------------------------
(***************************************************************************)
(* Wrapped keys, taken apart by hals/keymaster/import_wrapped_key.cpp.     *)
(*                                                                         *)
(* A wrapper is what its DER encodes: sizes in bytes, and the              *)
(* authorization list as a sequence of [tag, type, values].  The type is   *)
(* that of the ASN.1 value.  An integer is [low, high], its 32-bit halves; *)
(* low is an enumerator's name where the tag has enumerators, and an octet *)
(* string is its size.  parses says whether the rest is well-formed.       *)
(***************************************************************************)
EXTENDS KeyParams

Max32 == 2147483647  \* stands for 2^32 - 1, which TLC does not have

IsAllOnes(v) == v.high = Max32 /\ v.low = Max32

Rows(type, tags) == [i \in DOMAIN tags |-> [tag |-> tags[i], type |-> type]]

(* The comment (import_wrapped_key.cpp:306-336). *)
Grammar ==
  Rows("SET", <<"PURPOSE">>) \o Rows("INTEGER", <<"ALGORITHM", "KEY_SIZE">>) \o
  Rows("SET", <<"BLOCK_MODE", "DIGEST", "PADDING">>) \o Rows("NULL", <<"CALLER_NONCE">>) \o
  Rows("INTEGER", <<"MIN_MAC_LENGTH", "EC_CURVE", "RSA_PUBLIC_EXPONENT">>) \o
  Rows("NULL", <<"INCLUDE_UNIQUE_ID">>) \o Rows("INTEGER", <<"BLOB_USAGE_REQUIREMENTS">>) \o
  Rows("NULL", <<"BOOTLOADER_ONLY", "ROLLBACK_RESISTANCE">>) \o
  Rows("INTEGER", <<"ACTIVE_DATETIME", "ORIGINATION_EXPIRE_DATETIME", "USAGE_EXPIRE_DATETIME",
                    "MIN_SECONDS_BETWEEN_OPS", "MAX_USES_PER_BOOT">>) \o
  Rows("SET", <<"USER_SECURE_ID">>) \o Rows("NULL", <<"NO_AUTH_REQUIRED">>) \o
  Rows("INTEGER", <<"USER_AUTH_TYPE", "AUTH_TIMEOUT">>) \o
  Rows("NULL", <<"TRUSTED_USER_PRESENCE_REQUIRED", "TRUSTED_CONFIRMATION_REQUIRED",
                 "UNLOCKED_DEVICE_REQUIRED">>) \o
  Rows("OCTET_STRING", <<"APPLICATION_ID", "APPLICATION_DATA">>) \o
  Rows("INTEGER", <<"CREATION_DATETIME">>)

(* parser_table: the same but for its last row. *)
ParserTable == [Grammar EXCEPT ![Len(Grammar)].type = "OCTET_STRING"]
-----------------------------------------------------------------------------
(* The tags that the parsers' switches name. *)
SetTags == {"PURPOSE", "BLOCK_MODE", "DIGEST", "PADDING", "USER_SECURE_ID"}
EnumIntegerTags == {"ALGORITHM", "EC_CURVE", "USER_AUTH_TYPE"}
Integer32Tags == {"KEY_SIZE", "MIN_MAC_LENGTH", "RSA_PUBLIC_EXPONENT", "MIN_SECONDS_BETWEEN_OPS",
  "MAX_USES_PER_BOOT", "AUTH_TIMEOUT"}
DateTags == {"ACTIVE_DATETIME", "ORIGINATION_EXPIRE_DATETIME", "USAGE_EXPIRE_DATETIME",
  "CREATION_DATETIME"}
NullTags == {"CALLER_NONCE", "BOOTLOADER_ONLY", "NO_AUTH_REQUIRED"}
OctetTags == {"APPLICATION_DATA", "APPLICATION_ID"}

Number(v) == IF v.high = 0 THEN v.low ELSE v

Param(tag, v) == KeyParameterToPb([tag |-> tag, value |-> v])

(* An enumerator loses its upper half, whatever it is. *)
ParseAsn1Set(item) ==
  IF item.tag \notin SetTags /\ item.values # << >> THEN Fails("INVALID_ARGUMENT")
  ELSE TranslatedAll([i \in DOMAIN item.values |->
                       Param(item.tag, IF item.tag = "USER_SECURE_ID" THEN Number(item.values[i])
                                       ELSE item.values[i].low)], "INVALID_ARGUMENT")

(* All ones are taken for an absent integer.  RSA_PUBLIC_EXPONENT is       *)
(* stored in 32 bits of a variable and sent with 64: upper is whatever the *)
(* others were, as the variable is not initialized.                        *)
ParseAsn1Integer(item, upper) ==
  LET v == item.values[1]
      sent == CASE item.tag \in EnumIntegerTags \/ item.tag \in Integer32Tags \ LongTags -> v.low
                [] item.tag \in Integer32Tags \cap LongTags -> Number([v EXCEPT !.high = upper])
                [] OTHER -> Number(v)
      refused == \/ item.tag \notin EnumIntegerTags \cup Integer32Tags \cup DateTags
                 \/ item.tag \in Integer32Tags /\ v.high # 0
  IN IF IsAllOnes(v) THEN Ok(<< >>)
     ELSE IF refused THEN Fails("INVALID_ARGUMENT")
     ELSE TranslatedAll(<<Param(item.tag, sent)>>, "INVALID_ARGUMENT")

ParseAsn1Boolean(item) ==
  IF item.tag \in NullTags THEN TranslatedAll(<<Param(item.tag, 1)>>, "INVALID_ARGUMENT")
  ELSE Fails("INVALID_ARGUMENT")

ParseAsn1OctetString(item) ==
  IF item.tag \in OctetTags /\ item.values[1] > 0
  THEN TranslatedAll(<<Param(item.tag, item.values[1])>>, "INVALID_ARGUMENT")
  ELSE Fails("INVALID_ARGUMENT")

(* The parser of a row, given an element with the row's tag. *)
Parsed(row, item, upper) ==
  CASE row.type # item.type -> Fails("INVALID_ARGUMENT")
    [] row.type = item.type /\ item.type = "SET" -> ParseAsn1Set(item)
    [] row.type = item.type /\ item.type = "INTEGER" -> ParseAsn1Integer(item, upper)
    [] row.type = item.type /\ item.type = "NULL" -> ParseAsn1Boolean(item)
    [] row.type = item.type /\ item.type = "OCTET_STRING" -> ParseAsn1OctetString(item)

(* One turn of the loop: the next element is taken if it has the row's tag.*)
ParseEntry(state, row, upper) ==
  IF ~ state.ok \/ state.rest = << >> THEN state
  ELSE IF Head(state.rest).tag # row.tag THEN state
  ELSE LET p == Parsed(row, Head(state.rest), upper)
       IN [ok |-> Succeeds(p), rest |-> Tail(state.rest),
           params |-> IF Succeeds(p) THEN state.params \o p.value ELSE state.params]

(* The loop over the table. *)
ParsedList(list, upper) ==
  LET state[row \in 0 .. Len(ParserTable)] ==
        IF row = 0 THEN [ok |-> TRUE, rest |-> list, params |-> << >>]
        ELSE ParseEntry(state[row - 1], ParserTable[row], upper)
  IN state[Len(ParserTable)]

(* Mutant: what the loop leaves is not looked at. *)
ConsumedNoMatter(state) == state.ok

Consumed(state) == state.ok /\ state.rest = << >>

(* The version, and sizes of the initialization vector, key and GCM tag. *)
WellSized(w) == w.version = 0 /\ w.ivSize = 12 /\ w.keySize <= 32 /\ w.tagSize = 16

(* The parameters to send, or an error; the rest is copied as it is. *)
ImportWrappedKeyRequest(w, upper) ==
  LET list == ParsedList(w.list, upper)
  IN IF w.parses /\ WellSized(w) /\ Consumed(list) THEN Ok(list.params)
     ELSE Fails("INVALID_ARGUMENT")
=============================================================================
