---------------------------- MODULE HalContract ----------------------------
(***************************************************************************)
(* What the Weaver and OEM lock HALs promise their clients: a call takes   *)
(* effect on the chip at most once and at one moment, not after its answer,*)
(* and its answer is the outcome of that effect or that the call failed.   *)
(* A HAL that dies in a call gives no answer; the call may still happen.   *)
(***************************************************************************)
EXTENDS Naturals, Sequences

CONSTANTS
  Methods,   \* the calls: [hal, name] and arguments
  Good,      \* the carrier's signatures that the chip accepts
  Timeouts,  \* milliseconds
  Config,    \* the number of slots, the sizes of keys and values
  MaxCalls,  \* bound
  None

HalNames == {m.hal : m \in Methods}

VARIABLES
  slot,     \* the chip's slot: [key, value]
  allowed,  \* OEM unlock is allowed by carrier, by device
  calls,    \* history: [method, outcome, answered]
  current,  \* by HAL: which of calls it works on, or 0
  answer    \* by HAL: the last answer

vars == <<slot, allowed, calls, current, answer>>

Answer(status, value, timeout) == [status |-> status, value |-> value, timeout |-> timeout]
Ok(value) == Answer("OK", value, 0)
Failed == Answer("FAILED", None, 0)
Invalid == Answer("INVALID_SIGNATURE", None, 0)

Init ==
  /\ slot = [key |-> None, value |-> None]
  /\ allowed \in [{"CARRIER", "DEVICE"} -> BOOLEAN]
  /\ calls = << >>
  /\ current = [h \in HalNames |-> 0]
  /\ answer = [h \in HalNames |-> None]

(* How a call can turn out, and what it then does. *)
Outcomes(m) ==
  {Failed} \cup
  CASE m.name = "read" ->
         {Answer("THROTTLE", None, t) : t \in Timeouts} \cup
         IF m.key = slot.key THEN {Ok(slot.value)}
         ELSE {Answer("INCORRECT_KEY", None, t) : t \in Timeouts}
    [] m.name = "isOemUnlockAllowed" -> {Ok(allowed[m.lock])}
    [] m.name = "getName" -> {Ok("01")}
    [] m.name = "getConfig" -> {Ok(Config)}
    [] m.name = "setOemUnlockAllowedByCarrier" ->
         {IF ~ m.allowed THEN Failed ELSE IF m.signature \in Good THEN Ok(None) ELSE Invalid}
    [] OTHER -> {Ok(None)}

Effect(m, o) ==
  /\ slot' = IF m.name = "write" /\ o # Failed THEN [key |-> m.key, value |-> m.value] ELSE slot
  /\ allowed' = IF o # Ok(None) THEN allowed
                ELSE CASE m.name = "setOemUnlockAllowedByCarrier" ->
                            [allowed EXCEPT !["CARRIER"] = TRUE]
                       [] m.name = "setOemUnlockAllowedByDevice" ->
                            [allowed EXCEPT !["DEVICE"] = m.allowed]
                       [] OTHER -> allowed
-----------------------------------------------------------------------------
Invoke(m) ==
  /\ Len(calls) < MaxCalls
  /\ current[m.hal] = 0
  /\ calls' = Append(calls, [method |-> m, outcome |-> None, answered |-> FALSE])
  /\ current' = [current EXCEPT ![m.hal] = Len(calls) + 1]
  /\ answer' = [answer EXCEPT ![m.hal] = None]
  /\ UNCHANGED <<slot, allowed>>

Execute(i, o) ==
  /\ calls[i].outcome = None /\ ~ calls[i].answered
  /\ Effect(calls[i].method, o)
  /\ calls' = [calls EXCEPT ![i].outcome = o]
  /\ UNCHANGED <<current, answer>>

(* Answers that need no effect *)
AtOnce(m) ==
  CASE m.name = "getName" -> {Failed, Ok("01")}
    [] m.name = "setOemUnlockAllowedByCarrier" /\ m.signature \notin Good -> {Failed, Invalid}
    [] OTHER -> {Failed}

MayReturn(h) ==
  IF current[h] = 0 THEN {}
  ELSE LET c == calls[current[h]] IN ({c.outcome} \ {None}) \cup AtOnce(c.method)

Return(h, o) ==
  /\ o \in MayReturn(h)
  /\ answer' = [answer EXCEPT ![h] = o]
  /\ calls' = [calls EXCEPT ![current[h]].answered = TRUE]
  /\ current' = [current EXCEPT ![h] = 0]
  /\ UNCHANGED <<slot, allowed>>

Die(h) ==
  /\ answer' = [answer EXCEPT ![h] = None]
  /\ current' = [current EXCEPT ![h] = 0]
  /\ UNCHANGED <<slot, allowed, calls>>

Next ==
  \/ \E m \in Methods : Invoke(m)
  \/ \E i \in DOMAIN calls : \E o \in Outcomes(calls[i].method) : Execute(i, o)
  \/ \E h \in HalNames : \E o \in MayReturn(h) : Return(h, o)
  \/ \E h \in HalNames : Die(h)

Spec == Init /\ [][Next]_vars
=============================================================================
