-------------------------------- MODULE Hals --------------------------------
(***************************************************************************)
(* The Weaver and OEM lock HALs (hals/weaver/Weaver.cpp,                   *)
(* hals/oemlock/OemLock.cpp) down to the chip: each HAL is a process with  *)
(* one thread, which calls citadeld (citadeld/CitadeldProxyClient.cpp);    *)
(* there a thread of its own serves each call, with the mutex of the app   *)
(* and with datagrams through the static buffers of                        *)
(* libnos_datagram/citadel.c.  Citadeld and the HALs can die.              *)
(*                                                                         *)
(* One datagram each way stands for the transport's exchange (libnos,      *)
(* external); the chip acts when it gets the request.                      *)
(***************************************************************************)
EXTENDS Naturals, Sequences

CONSTANTS
  Methods,    \* the calls of clients: [hal, name] and arguments
  WordSize,   \* sizeof(uint64_t)
  Accepted,   \* external: the carrier's token that the chip accepts
  Timeouts,   \* external: milliseconds of throttling
  Config,     \* external: the number of slots, the sizes of keys and values
  MaxCalls,   \* bound: calls of clients
  MaxFaults,  \* bound: failing ioctls, refusals and deaths
  None

IsSequence(s) == Len(s) \in Nat /\ s = [i \in 1 .. Len(s) |-> s[i]]

ASSUME HalsAssumption ==
  /\ {MaxCalls, MaxFaults, WordSize} \subseteq Nat
  /\ Accepted = [version |-> Accepted.version, nonce |-> Accepted.nonce,
                 signature |-> Accepted.signature]
  /\ IsSequence(Accepted.version) /\ Len(Accepted.version) = WordSize
  /\ IsSequence(Accepted.nonce) /\ Len(Accepted.nonce) = WordSize
  /\ IsSequence(Accepted.signature)

(* The methods of IWeaver and IOemLock and their arguments.                *)
ASSUME MethodsAssumption ==
  \A m \in Methods :
    /\ m.name \in {"getConfig", "write", "read", "getName", "isOemUnlockAllowed",
                   "setOemUnlockAllowedByCarrier", "setOemUnlockAllowedByDevice"}
    /\ m.name = "isOemUnlockAllowed" => m.lock \in {"CARRIER", "DEVICE"}
    /\ m.name \in {"setOemUnlockAllowedByCarrier", "setOemUnlockAllowedByDevice"}
         => m.allowed \in BOOLEAN
    /\ m.name = "setOemUnlockAllowedByCarrier" => IsSequence(m.signature)

HalNames == {m.hal : m \in Methods}

VARIABLES
  \* The HALs
  current,   \* which of calls the HAL works on, or 0
  answer,    \* the last answer to a client
  proxy,     \* the start of citadeld that the HAL is connected with; 0: dead
  \* Citadeld.  A call stays in its sequence when it has ended.
  calls,     \* [method, pc, got] and, history, the chip's reply
  appLock,   \* by HAL: which call has the mutex of its app, or 0
  up,        \* citadeld runs
  starts,    \* how often it was started
  outOwner, outBuf,  \* out_buf_mutex: which call has it, or 0; out_buf
  inOwner, inBuf,    \* in_buf_mutex, in_buf
  \* External
  chip,      \* [slot, lock]
  replies,   \* by HAL: the reply that the chip has for it
  faults

halVars == <<current, answer, proxy>>
buffers == <<outOwner, outBuf, inOwner, inBuf>>
daemonVars == <<appLock, up, starts>>
vars == <<halVars, calls, daemonVars, buffers, chip, replies, faults>>

Init ==
  /\ current = [h \in HalNames |-> 0]
  /\ answer = [h \in HalNames |-> None]
  /\ proxy = [h \in HalNames |-> 1]
  /\ calls = << >>
  /\ appLock = [h \in HalNames |-> 0]
  /\ up = TRUE /\ starts = 1
  /\ outOwner = 0 /\ outBuf = None
  /\ inOwner = 0 /\ inBuf = None
  /\ \E carrier, device \in {0, 1} :
       chip = [slot |-> [key |-> None, value |-> None],
               lock |-> [CARRIER |-> carrier, DEVICE |-> device]]
  /\ replies = [h \in HalNames |-> None]
  /\ faults = 0

Fault == faults < MaxFaults /\ faults' = faults + 1
NoFault == UNCHANGED faults
-----------------------------------------------------------------------------
(* What the HALs ask the apps, and what they make of the reply *)

CarrierUnlockFromSignature(s) ==
  [version |-> SubSeq(s, 1, WordSize), nonce |-> SubSeq(s, WordSize + 1, 2 * WordSize),
   signature |-> SubSeq(s, 2 * WordSize + 1, Len(s))]

Answer(status, value, timeout) == [status |-> status, value |-> value, timeout |-> timeout]
Ok(value) == Answer("OK", value, 0)
Failed == Answer("FAILED", None, 0)

(* Calls that the OEM lock answers itself, and how. *)
EarlyAnswer(m) ==
  IF m.name = "getName" THEN {Ok("01")}
  ELSE IF m.name # "setOemUnlockAllowedByCarrier" THEN {}
  ELSE IF ~ m.allowed THEN {Failed}
  ELSE IF Len(m.signature) < 2 * WordSize THEN {Answer("INVALID_SIGNATURE", None, 0)}
  ELSE {}

Request(m) ==
  CASE m.name = "getConfig" -> [hal |-> m.hal, name |-> "GetConfig"]
    [] m.name = "write" -> [hal |-> m.hal, name |-> "Write", key |-> m.key, value |-> m.value]
    [] m.name = "read" -> [hal |-> m.hal, name |-> "Read", key |-> m.key]
    [] m.name = "setOemUnlockAllowedByCarrier" ->
         [hal |-> m.hal, name |-> "CarrierUnlock", token |-> CarrierUnlockFromSignature(m.signature)]
    [] m.name = "isOemUnlockAllowed" -> [hal |-> m.hal, name |-> "GetLock", lock |-> m.lock]
    [] m.name = "setOemUnlockAllowedByDevice" ->
         [hal |-> m.hal, name |-> "SetDeviceLock", locked |-> IF m.allowed THEN 0 ELSE 1]

ReadAnswer(reply) ==
  CASE reply.error = "NONE" -> Ok(reply.value)
    [] reply.error = "WRONG_KEY" -> Answer("INCORRECT_KEY", None, reply.throttle)
    [] reply.error = "THROTTLE" -> Answer("THROTTLE", None, reply.throttle)
    [] OTHER -> Failed

AnswerTo(m, reply) ==
  IF reply.status # "APP_SUCCESS"
  THEN IF m.name = "setOemUnlockAllowedByCarrier" /\ reply.status = "APP_ERROR_AVB_AUTHORIZATION"
       THEN Answer("INVALID_SIGNATURE", None, 0) ELSE Failed
  ELSE CASE m.name = "read" -> ReadAnswer(reply)
         [] m.name = "getConfig" -> Ok(reply.value)
         [] m.name = "isOemUnlockAllowed" -> Ok(reply.value = 0)
         [] OTHER -> Ok(None)
-----------------------------------------------------------------------------
(* External: the apps on the chip *)

Reply(status, error, value, throttle) ==
  [status |-> status, error |-> error, value |-> value, throttle |-> throttle]
Success(value) == Reply("APP_SUCCESS", "NONE", value, 0)
Refusal(status) == Reply(status, "NONE", None, 0)

(* Throttling depends on time, so it is always possible. *)
ReadReplies(key) ==
  {Reply("APP_SUCCESS", "THROTTLE", None, t) : t \in Timeouts} \cup
  IF key = chip.slot.key THEN {Success(chip.slot.value)}
  ELSE {Reply("APP_SUCCESS", "WRONG_KEY", None, t) : t \in Timeouts}

RepliesTo(r) ==
  CASE r.name = "Read" -> ReadReplies(r.key)
    [] r.name = "GetConfig" -> {Success(Config)}
    [] r.name = "GetLock" -> {Success(chip.lock[r.lock])}
    [] r.name = "CarrierUnlock" /\ r.token # Accepted -> {Refusal("APP_ERROR_AVB_AUTHORIZATION")}
    [] OTHER -> {Success(None)}

Refusals(r) ==
  {Refusal("APP_ERROR_INTERNAL")} \cup
  IF r.name = "Read" THEN {Reply("APP_SUCCESS", "ANOTHER", None, 0)} ELSE {}

Values == {None} \cup {m.value : m \in {w \in Methods : w.name = "write"}}

(* All that the apps may ever reply; None is neither that nor an answer.   *)
ChipReplies ==
  {Success(v) : v \in {Config, 0, 1} \cup Values}
    \cup {Reply("APP_SUCCESS", e, None, t) : e \in {"WRONG_KEY", "THROTTLE"}, t \in Timeouts}
    \cup {Reply("APP_SUCCESS", "ANOTHER", None, 0)}
    \cup {Refusal(s) : s \in {"APP_ERROR_AVB_AUTHORIZATION", "APP_ERROR_INTERNAL"}}

ASSUME NoneAssumption ==
  \A m \in Methods, r \in ChipReplies : r # None /\ AnswerTo(m, r) # None

ChipAfter(r) ==
  CASE r.name = "Write" -> [chip EXCEPT !.slot = [key |-> r.key, value |-> r.value]]
    [] r.name = "SetDeviceLock" -> [chip EXCEPT !.lock.DEVICE = r.locked]
    [] r.name = "CarrierUnlock" /\ r.token = Accepted -> [chip EXCEPT !.lock.CARRIER = 0]
    [] OTHER -> chip

(* The chip does as the request says. *)
ChipActs(r, reply) ==
  /\ reply \in RepliesTo(r)
  /\ chip' = ChipAfter(r)
  /\ replies' = [replies EXCEPT ![r.hal] = reply]

ChipRefuses(r, reply) ==
  /\ reply \in Refusals(r)
  /\ replies' = [replies EXCEPT ![r.hal] = reply]
  /\ UNCHANGED chip
-----------------------------------------------------------------------------
(* The HALs *)

Invoke(m) ==
  /\ Len(calls) < MaxCalls
  /\ proxy[m.hal] # 0 /\ current[m.hal] = 0
  /\ calls' = Append(calls, [method |-> m, pc |-> "hal", reply |-> None, got |-> None])
  /\ current' = [current EXCEPT ![m.hal] = Len(calls) + 1]
  /\ answer' = [answer EXCEPT ![m.hal] = None]
  /\ UNCHANGED <<proxy, daemonVars, buffers, chip, replies, faults>>

IoError == Refusal("APP_ERROR_IO")

Goto(i, pc) == calls' = [calls EXCEPT ![i].pc = pc]

(* The answer to the client *)
Return(h, result) ==
  /\ answer' = [answer EXCEPT ![h] = result]
  /\ current' = [current EXCEPT ![h] = 0]
  /\ Goto(current[h], "answered")

(* A method, up to the transaction with citadeld. *)
CallApp(h) ==
  /\ current[h] # 0 /\ calls[current[h]].pc = "hal"
  /\ LET m == calls[current[h]].method IN
       IF EarlyAnswer(m) # {} THEN \E a \in EarlyAnswer(m) : Return(h, a)
       ELSE IF up /\ proxy[h] = starts
       THEN Goto(current[h], "binder") /\ UNCHANGED <<current, answer>>
       ELSE Return(h, AnswerTo(m, IoError))
  /\ UNCHANGED <<proxy, daemonVars, buffers, chip, replies, faults>>

(* The transaction returns, or fails because citadeld died.                *)
CallAppReturns(h) ==
  /\ current[h] # 0
  /\ LET c == calls[current[h]] IN
       /\ c.pc \in {"replied", "gone"}
       /\ Return(h, AnswerTo(c.method, IF c.pc = "gone" THEN IoError ELSE c.got))
  /\ UNCHANGED <<proxy, daemonVars, buffers, chip, replies, faults>>

(* A call that citadeld has got goes on without its client.  That a HAL    *)
(* which has lost citadeld dies is not counted as a fault.                 *)
HalDies(h) ==
  /\ proxy[h] # 0
  /\ IF up /\ proxy[h] = starts THEN Fault ELSE NoFault
  /\ proxy' = [proxy EXCEPT ![h] = 0]
  /\ current' = [current EXCEPT ![h] = 0]
  /\ answer' = [answer EXCEPT ![h] = None]
  /\ UNCHANGED <<calls, daemonVars, buffers, chip, replies>>

(* init starts the HAL again, and the HAL waits for citadeld: Open.        *)
HalStarts(h) ==
  /\ proxy[h] = 0 /\ up
  /\ proxy' = [proxy EXCEPT ![h] = starts]
  /\ UNCHANGED <<current, answer, calls, daemonVars, buffers, chip, replies, faults>>
-----------------------------------------------------------------------------
(* Citadeld, for call i *)

Hal(i) == calls[i].method.hal

LockApp(i) ==
  /\ calls[i].pc = "binder"
  /\ appLock[Hal(i)] = 0
  /\ appLock' = [appLock EXCEPT ![Hal(i)] = i]
  /\ Goto(i, "write")
  /\ UNCHANGED <<halVars, up, starts, buffers, chip, replies, faults>>

(* Mutant: nobody waits for out_buf_mutex. *)
WriteDatagramUnlocked(i) ==
  /\ calls[i].pc = "write"
  /\ outOwner' = i
  /\ outBuf' = Request(calls[i].method)
  /\ Goto(i, "writing")
  /\ UNCHANGED <<halVars, daemonVars, inOwner, inBuf, chip, replies, faults>>

WriteDatagram(i) ==
  /\ calls[i].pc = "write"
  /\ outOwner = 0
  /\ outOwner' = i
  /\ outBuf' = Request(calls[i].method)
  /\ Goto(i, "writing")
  /\ UNCHANGED <<halVars, daemonVars, inOwner, inBuf, chip, replies, faults>>

(* The call ends, and gives the app's mutex back. *)
End(i, reply, got) ==
  /\ calls' = [calls EXCEPT ![i].pc = "replied", ![i].reply = reply, ![i].got = got]
  /\ appLock' = [appLock EXCEPT ![Hal(i)] = 0]

(* Mutant: an error returns without unlocking. *)
UnlockOutUnlessFailed == outOwner' = IF faults' = faults THEN 0 ELSE outOwner

UnlockOut == outOwner' = 0

WriteIoctl(i) ==
  /\ calls[i].pc = "writing"
  /\ \/ \E reply \in RepliesTo(outBuf) \cup Refusals(outBuf) :
          /\ \/ ChipActs(outBuf, reply) /\ NoFault
             \/ ChipRefuses(outBuf, reply) /\ Fault
          /\ calls' = [calls EXCEPT ![i].pc = "read", ![i].reply = reply]
          /\ UNCHANGED appLock
     \/ /\ Fault
        /\ \/ \E reply \in RepliesTo(outBuf) :
                ChipActs(outBuf, reply) /\ End(i, reply, IoError)
           \/ End(i, None, IoError) /\ UNCHANGED <<chip, replies>>
  /\ UnlockOut
  /\ UNCHANGED <<halVars, up, starts, outBuf, inOwner, inBuf>>

ReadDatagram(i) ==
  /\ calls[i].pc = "read"
  /\ inOwner = 0
  /\ inOwner' = i
  /\ Goto(i, "reading")
  /\ UNCHANGED <<halVars, daemonVars, outOwner, outBuf, inBuf, chip, replies, faults>>

ReadIoctl(i) ==
  /\ calls[i].pc = "reading"
  /\ \/ /\ inBuf' = replies[Hal(i)]
        /\ Goto(i, "copy")
        /\ NoFault /\ UNCHANGED <<inOwner, appLock>>
     \/ /\ Fault
        /\ inOwner' = 0
        /\ End(i, calls[i].reply, IoError)
        /\ UNCHANGED inBuf
  /\ UNCHANGED <<halVars, up, starts, outOwner, outBuf, chip, replies>>

CopyIn(i) ==
  /\ calls[i].pc = "copy"
  /\ inOwner' = 0
  /\ End(i, calls[i].reply, inBuf)
  /\ UNCHANGED <<halVars, up, starts, outOwner, outBuf, inBuf, chip, replies, faults>>

InCitadeld == {"binder", "write", "writing", "read", "reading", "copy"}

CitadeldDies ==
  /\ up /\ Fault
  /\ up' = FALSE
  /\ calls' = [i \in DOMAIN calls |-> IF calls[i].pc \in InCitadeld
                                      THEN [calls[i] EXCEPT !.pc = "gone"] ELSE calls[i]]
  /\ appLock' = [h \in HalNames |-> 0]
  /\ outOwner' = 0 /\ outBuf' = None /\ inOwner' = 0 /\ inBuf' = None
  /\ UNCHANGED <<halVars, starts, chip, replies>>

CitadeldStarts ==
  /\ ~ up
  /\ up' = TRUE /\ starts' = starts + 1
  /\ UNCHANGED <<halVars, calls, appLock, buffers, chip, replies, faults>>
-----------------------------------------------------------------------------
HalSteps(h) == CallApp(h) \/ CallAppReturns(h)

CitadeldSteps(i) ==
  \/ LockApp(i)
  \/ WriteDatagram(i) \/ WriteIoctl(i)
  \/ ReadDatagram(i) \/ ReadIoctl(i) \/ CopyIn(i)

Next ==
  \/ \E m \in Methods : Invoke(m)
  \/ \E h \in HalNames : HalSteps(h) \/ HalDies(h) \/ HalStarts(h)
  \/ \E i \in DOMAIN calls : CitadeldSteps(i)
  \/ CitadeldDies \/ CitadeldStarts

Spec == Init /\ [][Next]_vars

(* Threads go on, every ioctl returns, and a mutex that stays free is      *)
(* taken.  As clients make finitely many calls, each thread gets its turn. *)
FairSpec ==
  /\ Spec
  /\ WF_vars(\/ \E h \in HalNames : HalSteps(h)
             \/ \E i \in DOMAIN calls : CitadeldSteps(i))
-----------------------------------------------------------------------------
Signature == Accepted.version \o Accepted.nonce \o Accepted.signature

Contract == INSTANCE HalContract WITH
  Good    <- {Signature},
  slot    <- chip.slot,
  allowed <- [lock \in {"CARRIER", "DEVICE"} |-> chip.lock[lock] = 0],
  calls   <- [i \in DOMAIN calls |->
               [method   |-> calls[i].method,
                outcome  |-> IF calls[i].reply = None THEN None
                             ELSE AnswerTo(calls[i].method, calls[i].reply),
                answered |-> calls[i].pc = "answered"]]

(* A client's call takes effect at most once, at one moment, and not after *)
(* its answer; the answer is the outcome of that effect, or a failure: no  *)
(* status, value or lock is another call's, an older one's or mistaken,    *)
(* whatever threads share, and whoever dies.                               *)
ImplementsContract == Contract!Spec

(* A call of a HAL returns, also when citadeld or the datagrams fail.      *)
CallsReturn == \A h \in HalNames : current[h] # 0 ~> current[h] = 0
=============================================================================
