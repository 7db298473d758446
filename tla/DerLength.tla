----------------------------- MODULE DerLength -----------------------------
(***************************************************************************)
(* DER lengths as attestKey writes them (KeymasterDevice.cpp:595-636), and *)
(* what X.690 says they mean.                                              *)
(***************************************************************************)
EXTENDS Integers, Sequences

(* Bound: three octets.  A certificate is one of several in an answer of   *)
(* Binder, which has less than a megabyte.                                 *)
Radix == <<256, 65536, 16777216>>

Lengths == {n \in Nat : n < Radix[3]}

(* integer_size: octets of a number. *)
IntegerSize(value) == CHOOSE n \in DOMAIN Radix :
                        value < Radix[n] /\ (n > 1 => value >= Radix[n - 1])

Octets(value) ==
  LET n == IntegerSize(value)
  IN [i \in 1 .. n |-> (IF i = n THEN value ELSE value \div Radix[n - i]) % 256]

(* Mutant: 128 is taken for a short length. *)
Asn1EncodeLength128(length) ==
  IF length <= 128 THEN <<length>> ELSE <<128 + IntegerSize(length)>> \o Octets(length)

Asn1EncodeLength(length) ==
  IF length < 128 THEN <<length>> ELSE <<128 + IntegerSize(length)>> \o Octets(length)

(* X.690, 8.1.3: the length that a header of more than a tag tells; -1 if  *)
(* it tells none.                                                          *)
Decoded(octets) ==
  LET n == Len(octets) - 1
  IN CASE n = 0 /\ octets[1] < 128   -> octets[1]
       [] n = 1 /\ octets[1] = 128 + n -> octets[2]
       [] n = 2 /\ octets[1] = 128 + n -> octets[2] * Radix[1] + octets[3]
       [] n = 3 /\ octets[1] = 128 + n -> octets[2] * Radix[2] + octets[3] * Radix[1] + octets[4]
       [] OTHER -> -1
=============================================================================
