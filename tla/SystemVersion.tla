--------------------------- MODULE SystemVersion ---------------------------
(***************************************************************************)
(* The numbers KeymasterDevice makes of the version and the patch levels   *)
(* in Android's system properties, and what they should be.                *)
(*                                                                         *)
(* A property is a sequence of characters: 0..9 for the digits, Dot, and   *)
(* Other for any other character.  Positions in it count from 1.           *)
(***************************************************************************)
EXTENDS Naturals, Sequences, FiniteSets, FiniteSetsExt

Digits == 0..9
Dot == 10
Other == 11

Characters == Digits \cup {Dot, Other}

NPos == 0

(* std::copy_if with isdigit. *)
DigitsOnly(code) ==
  LET kept[i \in 0..Len(code)] ==
        IF i = 0 THEN <<>>
        ELSE IF code[i] \in Digits THEN Append(kept[i - 1], code[i]) ELSE kept[i - 1]
  IN kept[Len(code)]

(* The decimal number that the characters at some positions make, read     *)
(* from the left; none at all make 0.                                      *)
ValueAt(code, positions) ==
  LET value[i \in 0..Len(code)] ==
        IF i = 0 THEN 0
        ELSE IF i \in positions THEN 10 * value[i - 1] + code[i] ELSE value[i - 1]
  IN value[Len(code)]

(* std::stoi, given digits only; nothing at all counts as 0. *)
Number(digits) == ValueAt(digits, DOMAIN digits)

(* The first dot of a string from a position on, or NPos. *)
Find(version, loc) ==
  LET dots == {i \in loc..Len(version) : version[i] = Dot}
  IN IF dots = {} THEN NPos ELSE Min(dots)

(* Mutant: the next number is looked for where this one's dot is. *)
ExtractVersionAtDot(version, loc) ==
  IF loc = NPos \/ loc > Len(version) THEN [value |-> 0, loc |-> loc]
  ELSE LET new == Find(version, loc)
       IN IF new = NPos
          THEN [value |-> Number(DigitsOnly(SubSeq(version, loc, Len(version)))), loc |-> NPos]
          ELSE [value |-> Number(DigitsOnly(SubSeq(version, loc, new - 1))), loc |-> new]

ExtractVersion(version, loc) ==
  IF loc = NPos \/ loc > Len(version) THEN [value |-> 0, loc |-> loc]
  ELSE LET new == Find(version, loc)
       IN IF new = NPos
          THEN [value |-> Number(DigitsOnly(SubSeq(version, loc, Len(version)))), loc |-> NPos]
          ELSE [value |-> Number(DigitsOnly(SubSeq(version, loc, new - 1))), loc |-> new + 1]

VersionToUint32(version) ==
  LET major == ExtractVersion(version, 1)
      minor == ExtractVersion(version, major.loc)
      subminor == ExtractVersion(version, minor.loc)
  IN major.value * 10000 + minor.value * 100 + subminor.value

DateCodeToUint32(code, include_day) ==
  LET digits == DigitsOnly(code)
  IN CASE Len(digits) = 8 /\ include_day -> Number(digits)
       [] Len(digits) = 8 /\ ~ include_day -> Number(digits) \div 100
       [] Len(digits) = 6 /\ include_day -> Number(digits) * 100
       [] Len(digits) = 6 /\ ~ include_day -> Number(digits)
       [] OTHER -> 0
-----------------------------------------------------------------------------
(* What the numbers should be, said of the positions of the characters in  *)
(* the property, with nothing searched for, cut out or filtered.           *)
DigitPositions(code) == {i \in DOMAIN code : code[i] \in Digits}

(* The k-th of the numbers that dots separate. *)
Component(version, k) ==
  ValueAt(version, {i \in DigitPositions(version) :
                      Cardinality({j \in 1..i : version[j] = Dot}) = k - 1})

ReleaseOf(version) ==
  10000 * Component(version, 1) + 100 * Component(version, 2) + Component(version, 3)

(* Year and month are the first six digits, the day, if there is one, two  *)
(* more.                                                                   *)
MonthOf(code) ==
  ValueAt(code, {i \in DigitPositions(code) : Cardinality({j \in DigitPositions(code) : j < i}) < 6})

DayOf(code) ==
  ValueAt(code, {i \in DigitPositions(code) : Cardinality({j \in DigitPositions(code) : j < i}) >= 6})

IsDate(code) == Cardinality(DigitPositions(code)) \in {6, 8}
=============================================================================
