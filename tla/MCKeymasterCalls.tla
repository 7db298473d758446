-------------------------- MODULE MCKeymasterCalls --------------------------
(* Small sets of versions, dates and keys for the model checker. *)
EXTENDS KeymasterCalls

MCReleases == {
  <<9>>, <<1, 0>>, <<8, Dot, 1>>, <<7, Dot, 1, Dot, 2>>, <<1, Dot, 2, Dot, 3, Dot, 4>>,
  <<Other>>, <<8, Other, Dot, Dot, 3>>, <<Dot, 1, 2>>, <<5, Dot>>, <<>>}

(* 2018-09-05, 2018-09, 201809x05, 1-2-3 *)
MCPatchDates == {
  <<2, 0, 1, 8, Other, 0, 9, Other, 0, 5>>, <<2, 0, 1, 8, Other, 0, 9>>,
  <<2, 0, 1, 8, 0, 9, Other, 0>>, <<1, Other, 2, Other, 3>>}

MCPublicKeys ==
  {[algorithm |-> "RSA", number |-> 1]}
    \cup {[algorithm |-> "EC", curve |-> c, on |-> n, number |-> 2] :
            c \in {"P_224", "P_256", "other"},
            n \in {"secp224r1", "X9_62_prime256v1", "none"}}

MCParamLists == {
  <<>>, <<[tag |-> "OS_VERSION", value |-> 1], [tag |-> "OS_PATCHLEVEL", value |-> 2]>>,
  <<[tag |-> "INVALID", value |-> 1]>>}

MCSharing == {<<>>, <<"mine", "theirs">>}

MCRefusals == {"INVALID_KEY_BLOB", "INVALID_DEVICE_IDS"}
=============================================================================
