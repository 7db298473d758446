------------------------------- MODULE MCHals -------------------------------
(* Two keys, one value; the right carrier signature, one with another     *)
(* nonce and one that is too short by a byte.                              *)
EXTENDS Hals

CONSTANTS k1, k2, v1

Bytes(first, n) == [i \in 1 .. n |-> first + i]

MCAccepted == [version |-> Bytes(0, WordSize), nonce |-> Bytes(10, WordSize),
               signature |-> Bytes(20, 1)]

MCSignatures == {Signature, Bytes(0, 2 * WordSize + 1), Bytes(0, 2 * WordSize - 1)}

MCMethods ==
  [hal : {"weaver"}, name : {"getConfig"}]
    \cup [hal : {"oemlock"}, name : {"getName"}]
    \cup [hal : {"weaver"}, name : {"write"}, key : {k1}, value : {v1}]
    \cup [hal : {"weaver"}, name : {"read"}, key : {k1, k2}]
    \cup [hal : {"oemlock"}, name : {"setOemUnlockAllowedByCarrier"}, allowed : {TRUE},
          signature : MCSignatures]
    \cup [hal : {"oemlock"}, name : {"isOemUnlockAllowed"}, lock : {"CARRIER"}]
    \cup [hal : {"oemlock"}, name : {"setOemUnlockAllowedByDevice"}, allowed : {FALSE}]
    \cup {[hal |-> "oemlock", name |-> "setOemUnlockAllowedByCarrier", allowed |-> FALSE,
           signature |-> Signature]}
=============================================================================
