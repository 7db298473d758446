---------------------------- MODULE MCAttestKey ----------------------------
(* Parameters of every kind, with right and wrong values, and keys of every *)
(* kind that import_key.cpp tells apart.                                    *)
EXTENDS AttestKey

P(tag, v) == [tag |-> tag, value |-> v]

MCParams == {P("ALGORITHM", a) : a \in {"RSA", "EC", "AES", "TRIPLE_DES"}}
       \cup {P("KEY_SIZE", n) : n \in {168, 256, 2048}}
       \cup {P("EC_CURVE", c) : c \in {"P_256", "P_384"}}
       \cup {P("PURPOSE", p) : p \in {"ENCRYPT", "WRAP_KEY"}}
       \cup {P("RSA_PUBLIC_EXPONENT", e) : e \in {3, 65537}}
       \cup {P("USER_SECURE_ID", 1), P("ACTIVE_DATETIME", 0), P("INVALID", 0),
             P("BLOB_USAGE_REQUIREMENTS", "STANDALONE")}

MCSoftwareTags == {"ACTIVE_DATETIME"}

Pkcs8(kind, size) == [encodes |-> kind, size |-> size, exponent |-> 65537, curve |-> "none"]

MCKeys == {Pkcs8("RSA", 2048), Pkcs8("garbage", 192), Pkcs8("garbage", 256), Pkcs8("garbage", 0),
           [Pkcs8("EC", 256) EXCEPT !.curve = "P_256"], [Pkcs8("EC", 192) EXCEPT !.curve = "other"]}

(* Attestation with an application id of 1 or 2 bytes, or none, or with a  *)
(* tag that the key's software-enforced characteristics can have as well.  *)
MCAttestParams == {<<P("ATTESTATION_APPLICATION_ID", 1)>>,
                   <<P("ATTESTATION_CHALLENGE", 0), P("ATTESTATION_APPLICATION_ID", 2)>>,
                   <<P("ATTESTATION_CHALLENGE", 0)>>,
                   <<P("ATTESTATION_APPLICATION_ID", 1), P("ACTIVE_DATETIME", 0)>>}

(* First parts that make certificates of 127, 128, 255, 256, ... bytes.    *)
MCSizes == {124, 252, 65532}

(* Parameters of a key that becomes active at some date. *)
MCDatedParams == {P("ALGORITHM", "EC"), P("ACTIVE_DATETIME", 20180523)}

(* Wrapped keys: every element of the grammar, with its own type or that   *)
(* of another row where the table disagrees with the comment, and an       *)
(* element that is in neither.                                             *)
Item(tag, type, values) == [tag |-> tag, type |-> type, values |-> values]

Narrow(low) == [low |-> low, high |-> 0]

Wide(low) == [low |-> low, high |-> 1]

MCItems == {
  Item("PURPOSE", "SET", <<Narrow("ENCRYPT"), Narrow("DECRYPT")>>), Item("PURPOSE", "SET", << >>),
  Item("PURPOSE", "INTEGER", <<Narrow("ENCRYPT")>>),
  Item("ALGORITHM", "INTEGER", <<Narrow("AES")>>), Item("ALGORITHM", "INTEGER", <<Wide("AES")>>),
  Item("ALGORITHM", "INTEGER", <<Narrow("other")>>),
  Item("KEY_SIZE", "INTEGER", <<Narrow(256)>>), Item("KEY_SIZE", "INTEGER", <<Wide(0)>>),
  Item("CALLER_NONCE", "NULL", <<1>>), Item("ROLLBACK_RESISTANCE", "NULL", <<1>>),
  Item("RSA_PUBLIC_EXPONENT", "INTEGER", <<Narrow(65537)>>),
  Item("BLOB_USAGE_REQUIREMENTS", "INTEGER", <<Narrow("STANDALONE")>>),
  Item("ACTIVE_DATETIME", "INTEGER", <<Narrow(0)>>), Item("ACTIVE_DATETIME", "INTEGER", <<Wide(0)>>),
  Item("ACTIVE_DATETIME", "INTEGER", <<[low |-> Max32, high |-> Max32]>>),
  Item("USER_SECURE_ID", "SET", <<Wide(1), Narrow(2)>>),
  Item("APPLICATION_ID", "OCTET_STRING", <<1>>), Item("APPLICATION_ID", "OCTET_STRING", <<0>>),
  Item("CREATION_DATETIME", "INTEGER", <<Narrow(1)>>),
  Item("CREATION_DATETIME", "OCTET_STRING", <<1>>),
  Item("ALLOW_WHILE_ON_BODY", "NULL", <<1>>)}

Wrapper(list) == [parses |-> TRUE, version |-> 0, ivSize |-> 12, keySize |-> 32, tagSize |-> 16,
                  maskSize |-> 32, list |-> list]

MCWrappers ==
  LET lists == {<<i>> : i \in MCItems} \cup {<<i, j>> : i \in MCItems, j \in MCItems}
      aes == Wrapper(<<Item("ALGORITHM", "INTEGER", <<Narrow("AES")>>)>>)
  IN {Wrapper(l) : l \in lists} \cup
     {[aes EXCEPT !.version = 1], [aes EXCEPT !.ivSize = 11], [aes EXCEPT !.keySize = 33],
      [aes EXCEPT !.keySize = 0], [aes EXCEPT !.tagSize = 15], [aes EXCEPT !.maskSize = 31],
      [aes EXCEPT !.parses = FALSE]}
=============================================================================
