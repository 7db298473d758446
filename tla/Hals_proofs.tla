---------------------------- MODULE Hals_proofs ----------------------------
(***************************************************************************)
(* Hals implements HalContract, for any methods, numbers of calls and      *)
(* faults, and sizes of the carrier's token: an inductive invariant, and   *)
(* the step of the contract that each step of the HALs, of citadeld and of *)
(* the chip is.                                                            *)
(***************************************************************************)
EXTENDS Hals, FiniteSetTheorems, SequenceTheorems, TLAPS

Holding == {"write", "writing", "read", "reading", "copy"}

Call == [method : Methods,
         pc : {"hal", "binder", "replied", "gone", "answered"} \cup Holding,
         reply : {None} \cup ChipReplies, got : {None, IoError} \cup ChipReplies]

ChipOK ==
  /\ chip = [slot |-> chip.slot, lock |-> chip.lock]
  /\ chip.slot = [key |-> chip.slot.key, value |-> chip.slot.value]
  /\ chip.slot.value \in Values
  /\ chip.lock \in [CARRIER : {0, 1}, DEVICE : {0, 1}]

TypeOK ==
  /\ calls \in Seq(Call)
  /\ current \in [HalNames -> 0 .. Len(calls)]
  /\ answer = [h \in HalNames |-> answer[h]]
  /\ appLock = [h \in HalNames |-> appLock[h]]
  /\ replies = [h \in HalNames |-> replies[h]]
  /\ ChipOK

(* A call has an outcome from the moment the chip acts, which it does on   *)
(* calls only that the OEM lock does not answer itself.                    *)
Outcome(i) ==
  LET c == calls[i]
  IN  /\ c.pc \in {"hal", "binder", "write", "writing"} => c.reply = None
      /\ c.pc \in {"read", "reading", "copy"} => c.reply # None
      /\ c.pc \notin {"hal", "answered"} => EarlyAnswer(c.method) = {}
      /\ c.pc = "replied" =>
           c.got = IoError \/ (c.reply # None /\ c.got = c.reply)

(* The mutexes keep the app, the chip's reply and the two buffers to the   *)
(* call that uses them.                                                    *)
Alone(i) ==
  LET c == calls[i]
  IN  /\ c.pc \in Holding => appLock[Hal(i)] = i
      /\ c.pc = "writing" => outOwner = i /\ outBuf = Request(c.method)
      /\ c.pc \in {"read", "reading", "copy"} => replies[Hal(i)] = c.reply
      /\ c.pc \in {"reading", "copy"} => inOwner = i
      /\ c.pc = "copy" => inBuf = c.reply

Inv ==
  /\ TypeOK
  /\ \A h \in HalNames : current[h] # 0 => current[h] \in DOMAIN calls
  /\ \A i \in DOMAIN calls : Outcome(i) /\ Alone(i)
-----------------------------------------------------------------------------
(* What the contract sees of a call, and of the locks.                     *)
Seen(c) ==
  [method   |-> c.method,
   outcome  |-> IF c.reply = None THEN None ELSE AnswerTo(c.method, c.reply),
   answered |-> c.pc = "answered"]

SeenCalls == [i \in DOMAIN calls |-> Seen(calls[i])]

Allowed == [lock \in {"CARRIER", "DEVICE"} |-> chip.lock[lock] = 0]

(* The types of what there is of a call.                                   *)
LEMMA Facts ==
  ASSUME Inv
  PROVE  /\ DOMAIN calls = 1 .. Len(calls) /\ Len(calls) \in Nat
         /\ \A i \in DOMAIN calls :
              /\ calls[i] \in Call /\ calls[i].method \in Methods
              /\ Hal(i) \in HalNames /\ Hal(i) = calls[i].method.hal
              /\ i # 0
         /\ current \in [HalNames -> 0 .. Len(calls)]
         /\ \A h \in HalNames : current[h] # 0 => current[h] \in DOMAIN calls
         /\ answer = [h \in HalNames |-> answer[h]]
         /\ appLock = [h \in HalNames |-> appLock[h]]
         /\ replies = [h \in HalNames |-> replies[h]]
<1>1. calls \in Seq(Call)
  BY DEF Inv, TypeOK
<1>2. DOMAIN calls = 1 .. Len(calls) /\ Len(calls) \in Nat
  BY <1>1, LenProperties
<1>3. \A i \in DOMAIN calls : calls[i] \in Call
  BY <1>1, <1>2, ElementOfSeq
<1>4. \A i \in DOMAIN calls : calls[i].method \in Methods
  BY <1>3 DEF Call
<1>5. \A i \in DOMAIN calls : Hal(i) \in HalNames /\ Hal(i) = calls[i].method.hal
  BY <1>4 DEF Hal, HalNames
<1>6. current \in [HalNames -> 0 .. Len(calls)]
  BY DEF Inv, TypeOK
<1>7. /\ answer = [h \in HalNames |-> answer[h]]
      /\ appLock = [h \in HalNames |-> appLock[h]]
      /\ replies = [h \in HalNames |-> replies[h]]
  BY DEF Inv, TypeOK
<1> QED BY <1>2, <1>3, <1>4, <1>5, <1>6, <1>7 DEF Inv

(* A function by HAL stays one.                                            *)
LEMMA ByHal ==
  ASSUME NEW f, f = [h \in HalNames |-> f[h]], NEW h \in HalNames, NEW v,
         NEW g, g = [f EXCEPT ![h] = v]
  PROVE  g = [k \in HalNames |-> g[k]]
OBVIOUS

LEMMA CurrentExcept ==
  ASSUME Inv, NEW h \in HalNames, NEW n \in Nat, NEW i \in 0 .. n, Len(calls) <= n
  PROVE  /\ [current EXCEPT ![h] = i] \in [HalNames -> 0 .. n]
         /\ [current EXCEPT ![h] = i][h] = i
         /\ \A g \in HalNames \ {h} : [current EXCEPT ![h] = i][g] = current[g]
<1>1. current \in [HalNames -> 0 .. Len(calls)] /\ Len(calls) \in Nat
  BY Facts
<1>2. current \in [HalNames -> 0 .. n]
  <2>1. 0 .. Len(calls) \subseteq 0 .. n
    BY <1>1
  <2> QED BY <1>1, <2>1
<1> QED BY <1>2

(* An assumption in the form in which it is used.                          *)
LEMMA SequenceIsSeq ==
  ASSUME NEW s, IsSequence(s), NEW T, \A i \in 1 .. Len(s) : s[i] \in T
  PROVE  s \in Seq(T)
<1>1. s \in [1 .. Len(s) -> T] /\ Len(s) \in Nat
  BY DEF IsSequence
<1> QED BY <1>1, SeqDef

(* The initial states of the HALs are initial states of the contract.      *)
LEMMA InitRefines == Init => Contract!Init
BY DEF Init, Contract!Init, HalNames, Contract!HalNames
-----------------------------------------------------------------------------
(* The requests and the chip.                                              *)

(* Which calls reach the chip, and as which request.                       *)
LEMMA RequestIs ==
  ASSUME NEW m \in Methods, EarlyAnswer(m) = {}, NEW r, r = Request(m)
  PROVE  /\ r.hal = m.hal
         /\ \/ m.name = "getConfig" /\ r.name = "GetConfig"
            \/ m.name = "write" /\ r.name = "Write" /\ r.key = m.key /\ r.value = m.value
            \/ m.name = "read" /\ r.name = "Read" /\ r.key = m.key
            \/ m.name = "isOemUnlockAllowed" /\ r.name = "GetLock" /\ r.lock = m.lock
            \/ /\ m.name = "setOemUnlockAllowedByCarrier" /\ r.name = "CarrierUnlock"
               /\ r.token = CarrierUnlockFromSignature(m.signature)
               /\ m.allowed /\ ~ (Len(m.signature) < 2 * WordSize)
            \/ /\ m.name = "setOemUnlockAllowedByDevice" /\ r.name = "SetDeviceLock"
               /\ r.locked = IF m.allowed THEN 0 ELSE 1
<1>1. m.name \in {"getConfig", "write", "read", "getName", "isOemUnlockAllowed",
                  "setOemUnlockAllowedByCarrier", "setOemUnlockAllowedByDevice"}
  BY MethodsAssumption
<1>2. m.name # "getName"
  BY DEF EarlyAnswer
<1>3. CASE m.name = "getConfig"
  BY <1>3 DEF Request
<1>4. CASE m.name = "write"
  BY <1>4 DEF Request
<1>5. CASE m.name = "read"
  BY <1>5 DEF Request
<1>6. CASE m.name = "isOemUnlockAllowed"
  BY <1>6 DEF Request
<1>7. CASE m.name = "setOemUnlockAllowedByCarrier"
  <2>1. m.allowed \in BOOLEAN
    BY <1>7, MethodsAssumption
  <2>2. m.allowed /\ ~ (Len(m.signature) < 2 * WordSize)
    BY <1>7, <2>1 DEF EarlyAnswer
  <2>3. r = [hal |-> m.hal, name |-> "CarrierUnlock",
             token |-> CarrierUnlockFromSignature(m.signature)]
    BY <1>7 DEF Request
  <2> QED BY <1>7, <2>2, <2>3
<1>8. CASE m.name = "setOemUnlockAllowedByDevice"
  BY <1>8 DEF Request
<1> QED BY <1>1, <1>2, <1>3, <1>4, <1>5, <1>6, <1>7, <1>8

(* What the chip replies to them, and what it keeps, has its type.         *)
LEMMA RepliesTyped ==
  ASSUME Inv, NEW m \in Methods, EarlyAnswer(m) = {}
  PROVE  /\ RepliesTo(Request(m)) \subseteq ChipReplies \ {None}
         /\ Refusals(Request(m)) \subseteq ChipReplies \ {None}
<1> DEFINE r == Request(m)
<1> HIDE DEF r
<1>1. None \notin ChipReplies
  BY NoneAssumption
<1>2. /\ chip.slot.value \in Values
      /\ chip.lock["CARRIER"] \in {0, 1} /\ chip.lock["DEVICE"] \in {0, 1}
      /\ None \in Values
  BY DEF Inv, TypeOK, ChipOK, Values
<1>3. r.name = "GetLock" => r.lock \in {"CARRIER", "DEVICE"}
  BY RequestIs, MethodsAssumption DEF r
<1>4. \A v \in {Config, 0, 1} \cup Values : Success(v) \in ChipReplies
  BY DEF ChipReplies
<1>5. \A e \in {"WRONG_KEY", "THROTTLE"}, t \in Timeouts :
        Reply("APP_SUCCESS", e, None, t) \in ChipReplies
  BY DEF ChipReplies
<1>6. /\ Refusal("APP_ERROR_AVB_AUTHORIZATION") \in ChipReplies
      /\ Refusal("APP_ERROR_INTERNAL") \in ChipReplies
      /\ Reply("APP_SUCCESS", "ANOTHER", None, 0) \in ChipReplies
  BY DEF ChipReplies
<1>7. r.name \in {"GetConfig", "Write", "Read", "GetLock", "CarrierUnlock", "SetDeviceLock"}
  BY RequestIs DEF r
<1>8. RepliesTo(r) \subseteq ChipReplies
  <2>1. CASE r.name = "Read"
    <3>1. ReadReplies(r.key) \subseteq ChipReplies
      BY <1>2, <1>4, <1>5 DEF ReadReplies
    <3> QED BY <2>1, <3>1 DEF RepliesTo
  <2>2. CASE r.name = "GetConfig"
    BY <2>2, <1>4 DEF RepliesTo
  <2>3. CASE r.name = "GetLock"
    BY <2>3, <1>2, <1>3, <1>4 DEF RepliesTo
  <2>4. CASE r.name \in {"Write", "CarrierUnlock", "SetDeviceLock"}
    BY <2>4, <1>2, <1>4, <1>6 DEF RepliesTo
  <2> QED BY <1>7, <2>1, <2>2, <2>3, <2>4
<1>9. Refusals(r) \subseteq ChipReplies
  BY <1>6 DEF Refusals
<1> QED BY <1>1, <1>8, <1>9 DEF r

LEMMA ChipTyped ==
  ASSUME Inv, NEW m \in Methods, EarlyAnswer(m) = {}, chip' = ChipAfter(Request(m))
  PROVE  ChipOK'
<1> DEFINE r == Request(m)
<1> HIDE DEF r
<1>1. ChipOK /\ chip' = ChipAfter(r)
  BY DEF Inv, TypeOK, r
<1>2. CASE r.name = "Write"
  <2>1. m.value \in Values
    BY <1>2, RequestIs DEF r, Values
  <2>2. r.value = m.value
    BY <1>2, RequestIs DEF r
  <2> QED BY <1>1, <1>2, <2>1, <2>2 DEF ChipOK, ChipAfter
<1>3. CASE r.name = "SetDeviceLock"
  <2>1. r.locked \in {0, 1}
    BY <1>3, RequestIs DEF r
  <2> QED BY <1>1, <1>3, <2>1 DEF ChipOK, ChipAfter
<1>4. CASE r.name \notin {"Write", "SetDeviceLock"}
  <2>1. chip' = chip \/ chip' = [chip EXCEPT !.lock.CARRIER = 0]
    BY <1>1, <1>4 DEF ChipAfter
  <2> QED BY <1>1, <2>1 DEF ChipOK
<1> QED BY <1>2, <1>3, <1>4
-----------------------------------------------------------------------------
(* The invariant.                                                          *)

LEMMA InitInv == Init => Inv
<1> SUFFICES ASSUME Init PROVE Inv
  OBVIOUS
<1>1. calls \in Seq(Call) /\ Len(calls) = 0 /\ DOMAIN calls = {}
  BY EmptySeq DEF Init
<1>2. ChipOK
  BY DEF Init, ChipOK, Values
<1>3. TypeOK
  BY <1>1, <1>2 DEF Init, TypeOK
<1> QED BY <1>1, <1>3 DEF Init, Inv

(* A call changes.                                                         *)
LEMMA CallExcept ==
  ASSUME Inv, NEW i \in DOMAIN calls, NEW e \in Call, calls' = [calls EXCEPT ![i] = e]
  PROVE  /\ calls' \in Seq(Call) /\ Len(calls') = Len(calls)
         /\ DOMAIN calls' = DOMAIN calls
         /\ calls'[i] = e /\ \A j \in DOMAIN calls \ {i} : calls'[j] = calls[j]
<1>1. calls \in Seq(Call) /\ i \in 1 .. Len(calls)
  BY Facts DEF Inv, TypeOK
<1>2. calls' \in Seq(Call) /\ Len(calls') = Len(calls)
  BY <1>1, ExceptSeq
<1> QED BY <1>2

LEMMA GotoIs ==
  ASSUME Inv, NEW i \in DOMAIN calls, NEW pc, Goto(i, pc),
         pc \in {"hal", "binder", "replied", "gone", "answered"} \cup Holding
  PROVE  /\ calls' \in Seq(Call) /\ Len(calls') = Len(calls)
         /\ DOMAIN calls' = DOMAIN calls
         /\ \A j \in DOMAIN calls \ {i} : calls'[j] = calls[j]
         /\ calls'[i].method = calls[i].method /\ calls'[i].pc = pc
         /\ calls'[i].reply = calls[i].reply /\ calls'[i].got = calls[i].got
<1> DEFINE e == [calls[i] EXCEPT !.pc = pc]
<1>1. /\ e \in Call /\ e.pc = pc /\ e.method = calls[i].method
      /\ e.reply = calls[i].reply /\ e.got = calls[i].got
  BY Facts DEF Call
<1>2. calls' = [calls EXCEPT ![i] = e]
  BY DEF Goto
<1> HIDE DEF e
<1> QED BY <1>1, <1>2, CallExcept

LEMMA EndIs ==
  ASSUME Inv, NEW i \in DOMAIN calls, NEW reply \in {None} \cup ChipReplies,
         NEW got \in {None, IoError} \cup ChipReplies, End(i, reply, got)
  PROVE  /\ calls' \in Seq(Call) /\ Len(calls') = Len(calls)
         /\ DOMAIN calls' = DOMAIN calls
         /\ \A j \in DOMAIN calls \ {i} : calls'[j] = calls[j]
         /\ calls'[i].method = calls[i].method /\ calls'[i].pc = "replied"
         /\ calls'[i].reply = reply /\ calls'[i].got = got
         /\ appLock' = [appLock EXCEPT ![Hal(i)] = 0]
<1> DEFINE e == [calls[i] EXCEPT !.pc = "replied", !.reply = reply, !.got = got]
<1>1. /\ e \in Call /\ e.pc = "replied" /\ e.method = calls[i].method
      /\ e.reply = reply /\ e.got = got
  BY Facts DEF Call
<1>2. calls' = [calls EXCEPT ![i] = e] /\ appLock' = [appLock EXCEPT ![Hal(i)] = 0]
  BY DEF End
<1> HIDE DEF e
<1> QED BY <1>1, <1>2, CallExcept

(* A client calls.                                                         *)
LEMMA InvokeInv == ASSUME Inv, NEW m \in Methods, Invoke(m) PROVE Inv'
<1> DEFINE new == [method |-> m, pc |-> "hal", reply |-> None, got |-> None]
<1>1. /\ calls' = Append(calls, new)
      /\ current' = [current EXCEPT ![m.hal] = Len(calls) + 1]
      /\ answer' = [answer EXCEPT ![m.hal] = None]
      /\ UNCHANGED <<daemonVars, buffers, chip, replies>>
  BY DEF Invoke
<1>2. new \in Call /\ new.pc = "hal" /\ new.reply = None
  BY DEF Call
<1> HIDE DEF new
<1>3. calls \in Seq(Call)
  BY DEF Inv, TypeOK
<1>4. /\ calls' \in Seq(Call) /\ Len(calls') = Len(calls) + 1
      /\ calls'[Len(calls) + 1] = new
      /\ \A i \in 1 .. Len(calls) : calls'[i] = calls[i]
  BY <1>1, <1>2, <1>3, AppendProperties
<1>5. DOMAIN calls' = 1 .. Len(calls) + 1
  BY <1>4, LenProperties
<1>6. m.hal \in HalNames
  BY DEF HalNames
<1>7. current' \in [HalNames -> 0 .. Len(calls')]
  <2> DEFINE n == Len(calls) + 1
  <2>1. n \in Nat /\ n \in 0 .. n /\ Len(calls) <= n
    BY Facts
  <2> HIDE DEF n
  <2>2. [current EXCEPT ![m.hal] = n] \in [HalNames -> 0 .. n]
    BY <1>6, <2>1, CurrentExcept
  <2> QED BY <1>1, <1>4, <2>2 DEF n
<1>8. TypeOK'
  <2>1. answer' = [h \in HalNames |-> answer'[h]]
    BY <1>1 DEF Inv, TypeOK
  <2> QED BY <1>1, <1>4, <1>7, <2>1 DEF Inv, TypeOK, ChipOK, daemonVars
<1>9. \A h \in HalNames : current'[h] # 0 => current'[h] \in DOMAIN calls'
  BY <1>5, <1>7, <1>4, Facts
<1>10. ASSUME NEW i \in DOMAIN calls' PROVE Outcome(i)' /\ Alone(i)'
  <2>1. CASE i \in DOMAIN calls
    <3>1. calls'[i] = calls[i] /\ Outcome(i) /\ Alone(i)
      BY <1>4, <2>1, Facts DEF Inv
    <3> QED BY <1>1, <3>1 DEF Outcome, Alone, Hal, daemonVars, buffers
  <2>2. CASE i = Len(calls) + 1
    <3>1. calls'[i] = new
      BY <1>4, <2>2
    <3> QED BY <1>2, <3>1 DEF Outcome, Alone, Holding
  <2> QED BY <1>5, <2>1, <2>2, Facts
<1> QED BY <1>8, <1>9, <1>10 DEF Inv

(* The HAL goes on with its call or answers.                               *)
LEMMA HalGoto ==
  ASSUME Inv, NEW i \in DOMAIN calls, NEW pc \in {"binder", "answered"}, Goto(i, pc),
         calls[i].pc \notin Holding,
         pc = "binder" => calls[i].pc = "hal" /\ EarlyAnswer(calls[i].method) = {},
         current' \in [HalNames -> 0 .. Len(calls)],
         \A h \in HalNames : current'[h] # 0 => current'[h] \in DOMAIN calls,
         answer' = [h \in HalNames |-> answer'[h]],
         UNCHANGED <<appLock, buffers, chip, replies>>
  PROVE  Inv'
<1>1. /\ calls' \in Seq(Call) /\ Len(calls') = Len(calls)
      /\ DOMAIN calls' = DOMAIN calls
      /\ \A j \in DOMAIN calls \ {i} : calls'[j] = calls[j]
      /\ calls'[i].method = calls[i].method /\ calls'[i].pc = pc
      /\ calls'[i].reply = calls[i].reply
  BY GotoIs
<1>2. TypeOK'
  BY <1>1 DEF Inv, TypeOK, ChipOK
<1>3. \A j \in DOMAIN calls : Outcome(j) /\ Alone(j)
  BY DEF Inv
<1>4. Outcome(i)'
  BY <1>1, <1>3 DEF Outcome
<1>5. Alone(i)'
  BY <1>1 DEF Alone, Holding
<1>6. ASSUME NEW j \in DOMAIN calls \ {i} PROVE Outcome(j)' /\ Alone(j)'
  <2>1. calls'[j] = calls[j] /\ Hal(j)' = Hal(j) /\ Outcome(j) /\ Alone(j)
    BY <1>1, <1>3 DEF Hal
  <2> QED BY <2>1 DEF Outcome, Alone, buffers
<1> QED BY <1>1, <1>2, <1>4, <1>5, <1>6 DEF Inv

(* The HAL is done with its call.                                          *)
LEMMA DoneTypes ==
  ASSUME Inv, NEW h \in HalNames, NEW v,
         current' = [current EXCEPT ![h] = 0], answer' = [answer EXCEPT ![h] = v]
  PROVE  /\ current' \in [HalNames -> 0 .. Len(calls)]
         /\ \A g \in HalNames : current'[g] \in {current[g], 0}
         /\ \A g \in HalNames : current'[g] # 0 => current'[g] \in DOMAIN calls
         /\ answer' = [g \in HalNames |-> answer'[g]]
<1>1. /\ current \in [HalNames -> 0 .. Len(calls)] /\ Len(calls) \in Nat
      /\ \A g \in HalNames : current[g] # 0 => current[g] \in DOMAIN calls
  BY Facts
<1>2. 0 \in 0 .. Len(calls)
  BY <1>1
<1>3. current' \in [HalNames -> 0 .. Len(calls)]
  BY <1>1, <1>2
<1>4. \A g \in HalNames : current'[g] \in {current[g], 0}
  BY <1>1
<1>5. answer = [g \in HalNames |-> answer[g]]
  BY Facts
<1>6. answer' = [g \in HalNames |-> answer'[g]]
  BY <1>5, ByHal
<1> QED BY <1>1, <1>3, <1>4, <1>6

LEMMA ReturnTypes ==
  ASSUME Inv, NEW h \in HalNames, current[h] # 0, NEW result, Return(h, result)
  PROVE  /\ current[h] \in DOMAIN calls /\ Goto(current[h], "answered")
         /\ current' \in [HalNames -> 0 .. Len(calls)]
         /\ \A g \in HalNames : current'[g] # 0 => current'[g] \in DOMAIN calls
         /\ answer' = [g \in HalNames |-> answer'[g]]
<1>1. current' = [current EXCEPT ![h] = 0] /\ answer' = [answer EXCEPT ![h] = result]
  BY DEF Return
<1> QED BY <1>1, Facts, DoneTypes DEF Return

LEMMA CallAppInv == ASSUME Inv, NEW h \in HalNames, CallApp(h) PROVE Inv'
<1> DEFINE i == current[h]
           m == calls[i].method
<1>1. /\ i # 0 /\ calls[i].pc = "hal"
      /\ UNCHANGED <<daemonVars, buffers, chip, replies>>
      /\ \/ \E a : Return(h, a)
         \/ EarlyAnswer(m) = {} /\ Goto(i, "binder") /\ UNCHANGED <<current, answer>>
  BY DEF CallApp
<1>2. i \in DOMAIN calls
  BY <1>1, Facts
<1>3. UNCHANGED appLock /\ calls[i].pc \notin Holding
  BY <1>1 DEF daemonVars, Holding
<1>4. CASE \E a : Return(h, a)
  BY <1>1, <1>2, <1>3, <1>4, ReturnTypes, HalGoto
<1>5. CASE EarlyAnswer(m) = {} /\ Goto(i, "binder") /\ UNCHANGED <<current, answer>>
  <2>1. /\ current' \in [HalNames -> 0 .. Len(calls)]
        /\ \A g \in HalNames : current'[g] # 0 => current'[g] \in DOMAIN calls
        /\ answer' = [g \in HalNames |-> answer'[g]]
    BY <1>5, Facts DEF Inv, TypeOK
  <2> QED BY <1>1, <1>2, <1>3, <1>5, <2>1, HalGoto
<1> QED BY <1>1, <1>4, <1>5

LEMMA CallAppReturnsInv == ASSUME Inv, NEW h \in HalNames, CallAppReturns(h) PROVE Inv'
<1> DEFINE i == current[h]
<1>1. /\ i # 0 /\ calls[i].pc \in {"replied", "gone"}
      /\ UNCHANGED <<daemonVars, buffers, chip, replies>>
      /\ \E a : Return(h, a)
  BY DEF CallAppReturns
<1>2. i \in DOMAIN calls /\ UNCHANGED appLock /\ calls[i].pc \notin Holding
  BY <1>1, Facts DEF daemonVars, Holding
<1> QED BY <1>1, <1>2, ReturnTypes, HalGoto

LEMMA HalDiesInv == ASSUME Inv, NEW h \in HalNames, HalDies(h) PROVE Inv'
<1>1. /\ current' = [current EXCEPT ![h] = 0] /\ answer' = [answer EXCEPT ![h] = None]
      /\ UNCHANGED <<calls, daemonVars, buffers, chip, replies>>
  BY DEF HalDies
<1>2. /\ current' \in [HalNames -> 0 .. Len(calls)]
      /\ \A g \in HalNames : current'[g] # 0 => current'[g] \in DOMAIN calls
      /\ answer' = [g \in HalNames |-> answer'[g]]
  BY <1>1, DoneTypes
<1>3. TypeOK'
  BY <1>1, <1>2 DEF Inv, TypeOK, ChipOK, daemonVars
<1> QED BY <1>1, <1>2, <1>3 DEF Inv, Outcome, Alone, Hal, daemonVars, buffers
LEMMA HalStartsInv == ASSUME Inv, NEW h \in HalNames, HalStarts(h) PROVE Inv'
<1>1. UNCHANGED <<current, answer, calls, daemonVars, buffers, chip, replies>>
  BY DEF HalStarts
<1> QED BY <1>1 DEF Inv, TypeOK, ChipOK, Outcome, Alone, Hal, daemonVars, buffers

(* Citadeld goes on with a call: what it changes is not another call's.    *)
LEMMA OthersKeep ==
  ASSUME Inv, NEW i \in DOMAIN calls,
         calls' \in Seq(Call), Len(calls') = Len(calls), DOMAIN calls' = DOMAIN calls,
         \A j \in DOMAIN calls \ {i} : calls'[j] = calls[j],
         appLock[Hal(i)] \in {0, i},
         appLock' = [h \in HalNames |-> appLock'[h]],
         replies' = [h \in HalNames |-> replies'[h]],
         \A h \in HalNames \ {Hal(i)} : appLock'[h] = appLock[h] /\ replies'[h] = replies[h],
         outOwner \in {0, i} \/ UNCHANGED <<outOwner, outBuf>>,
         inOwner \in {0, i} \/ UNCHANGED <<inOwner, inBuf>>,
         UNCHANGED <<current, answer>>, ChipOK', Outcome(i)', Alone(i)'
  PROVE  Inv'
<1>1. TypeOK'
  BY DEF Inv, TypeOK
<1>2. \A h \in HalNames : current'[h] # 0 => current'[h] \in DOMAIN calls'
  BY DEF Inv
<1>3. ASSUME NEW j \in DOMAIN calls \ {i} PROVE Outcome(j)' /\ Alone(j)'
  <2>1. /\ calls'[j] = calls[j] /\ Hal(j)' = Hal(j) /\ Outcome(j) /\ Alone(j)
        /\ Hal(j) \in HalNames /\ j # 0
    BY Facts DEF Hal, Inv
  <2>2. Outcome(j)'
    BY <2>1 DEF Outcome
  <2>3. ASSUME calls[j].pc \in Holding PROVE Alone(j)'
    <3>1. appLock[Hal(j)] = j
      BY <2>1, <2>3 DEF Alone
    <3>2. Hal(j) # Hal(i)
      BY <2>1, <3>1
    <3>3. appLock'[Hal(j)] = j /\ replies'[Hal(j)] = replies[Hal(j)]
      BY <2>1, <3>1, <3>2
    <3>4. calls[j].pc = "writing" => outOwner' = j /\ outBuf' = Request(calls[j].method)
      BY <2>1 DEF Alone
    <3>5. calls[j].pc \in {"reading", "copy"} =>
            inOwner' = j /\ (calls[j].pc = "copy" => inBuf' = calls[j].reply)
      BY <2>1 DEF Alone
    <3> QED BY <2>1, <3>3, <3>4, <3>5 DEF Alone
  <2>4. ASSUME calls[j].pc \notin Holding PROVE Alone(j)'
    BY <2>1, <2>4 DEF Alone, Holding
  <2> QED BY <2>2, <2>3, <2>4
<1> QED BY <1>1, <1>2, <1>3 DEF Inv

LEMMA LockAppInv == ASSUME Inv, NEW i \in DOMAIN calls, LockApp(i) PROVE Inv'
<1>1. /\ calls[i].pc = "binder" /\ appLock[Hal(i)] = 0
      /\ appLock' = [appLock EXCEPT ![Hal(i)] = i] /\ Goto(i, "write")
      /\ UNCHANGED <<current, answer, outOwner, outBuf, inOwner, inBuf, chip, replies>>
  BY DEF LockApp, halVars, buffers
<1>2. /\ calls' \in Seq(Call) /\ Len(calls') = Len(calls) /\ DOMAIN calls' = DOMAIN calls
      /\ \A j \in DOMAIN calls \ {i} : calls'[j] = calls[j]
      /\ calls'[i].method = calls[i].method /\ calls'[i].pc = "write"
      /\ calls'[i].reply = calls[i].reply
  BY <1>1, GotoIs DEF Holding
<1>3. Hal(i) \in HalNames /\ Hal(i)' = Hal(i)
  BY <1>2, Facts DEF Hal
<1>4. /\ appLock = [h \in HalNames |-> appLock[h]]
      /\ replies = [h \in HalNames |-> replies[h]] /\ ChipOK
  BY Facts DEF Inv, TypeOK
<1>5. appLock' = [h \in HalNames |-> appLock'[h]]
  BY <1>1, <1>3, <1>4, ByHal
<1>6. appLock'[Hal(i)] = i /\ \A h \in HalNames \ {Hal(i)} : appLock'[h] = appLock[h]
  BY <1>1, <1>3, <1>4
<1>7. Outcome(i)' /\ Alone(i)'
  BY <1>1, <1>2, <1>3, <1>6 DEF Outcome, Alone, Inv
<1>8. ChipOK'
  BY <1>1, <1>4 DEF ChipOK
<1> QED BY <1>1, <1>2, <1>3, <1>4, <1>5, <1>6, <1>7, <1>8, OthersKeep

LEMMA WriteDatagramInv == ASSUME Inv, NEW i \in DOMAIN calls, WriteDatagram(i) PROVE Inv'
<1>1. /\ calls[i].pc = "write" /\ outOwner = 0 /\ Goto(i, "writing")
      /\ outOwner' = i /\ outBuf' = Request(calls[i].method)
      /\ UNCHANGED <<current, answer, appLock, inOwner, inBuf, chip, replies>>
  BY DEF WriteDatagram, halVars, daemonVars
<1>2. /\ calls' \in Seq(Call) /\ Len(calls') = Len(calls) /\ DOMAIN calls' = DOMAIN calls
      /\ \A j \in DOMAIN calls \ {i} : calls'[j] = calls[j]
      /\ calls'[i].method = calls[i].method /\ calls'[i].pc = "writing"
      /\ calls'[i].reply = calls[i].reply
  BY <1>1, GotoIs DEF Holding
<1>3. Hal(i)' = Hal(i) /\ appLock[Hal(i)] = i /\ Outcome(i)
  BY <1>1, <1>2 DEF Hal, Inv, Alone, Holding
<1>4. /\ appLock = [h \in HalNames |-> appLock[h]]
      /\ replies = [h \in HalNames |-> replies[h]] /\ ChipOK
  BY Facts DEF Inv, TypeOK
<1>5. Outcome(i)' /\ Alone(i)'
  BY <1>1, <1>2, <1>3 DEF Outcome, Alone
<1>6. ChipOK'
  BY <1>1, <1>4 DEF ChipOK
<1> QED BY <1>1, <1>2, <1>3, <1>4, <1>5, <1>6, OthersKeep

LEMMA ReadDatagramInv == ASSUME Inv, NEW i \in DOMAIN calls, ReadDatagram(i) PROVE Inv'
<1>1. /\ calls[i].pc = "read" /\ inOwner = 0 /\ Goto(i, "reading") /\ inOwner' = i
      /\ UNCHANGED <<current, answer, appLock, outOwner, outBuf, inBuf, chip, replies>>
  BY DEF ReadDatagram, halVars, daemonVars
<1>2. /\ calls' \in Seq(Call) /\ Len(calls') = Len(calls) /\ DOMAIN calls' = DOMAIN calls
      /\ \A j \in DOMAIN calls \ {i} : calls'[j] = calls[j]
      /\ calls'[i].method = calls[i].method /\ calls'[i].pc = "reading"
      /\ calls'[i].reply = calls[i].reply
  BY <1>1, GotoIs DEF Holding
<1>3. /\ Hal(i)' = Hal(i) /\ appLock[Hal(i)] = i /\ replies[Hal(i)] = calls[i].reply
      /\ Outcome(i)
  BY <1>1, <1>2 DEF Hal, Inv, Alone, Holding
<1>4. /\ appLock = [h \in HalNames |-> appLock[h]]
      /\ replies = [h \in HalNames |-> replies[h]] /\ ChipOK
  BY Facts DEF Inv, TypeOK
<1>5. Outcome(i)' /\ Alone(i)'
  BY <1>1, <1>2, <1>3 DEF Outcome, Alone
<1>6. ChipOK'
  BY <1>1, <1>4 DEF ChipOK
<1> QED BY <1>1, <1>2, <1>3, <1>4, <1>5, <1>6, OthersKeep

(* The chip acts on the call's own request, refuses it, or never gets it.  *)
LEMMA WriteIoctlIs ==
  ASSUME Inv, NEW i \in DOMAIN calls, WriteIoctl(i),
         NEW m, m = calls[i].method, NEW r, r = Request(m)
  PROVE  /\ m \in Methods /\ EarlyAnswer(m) = {} /\ calls[i].reply = None
         /\ appLock[Hal(i)] = i /\ outOwner = i /\ outOwner' = 0 /\ calls[i].pc = "writing"
         /\ UNCHANGED <<current, answer, inOwner, inBuf>>
         /\ \E reply \in {None} \cup ChipReplies :
              /\ \/ /\ reply # None /\ replies' = [replies EXCEPT ![Hal(i)] = reply]
                    /\ \/ reply \in RepliesTo(r) /\ chip' = ChipAfter(r)
                       \/ reply \in Refusals(r) /\ UNCHANGED chip
                 \/ reply = None /\ UNCHANGED <<chip, replies>>
              /\ \/ /\ calls' = [calls EXCEPT ![i].pc = "read", ![i].reply = reply]
                    /\ reply # None /\ UNCHANGED appLock
                 \/ End(i, reply, IoError)
<1>1. /\ calls[i].pc = "writing" /\ outOwner' = 0
      /\ UNCHANGED <<current, answer, inOwner, inBuf>>
  BY DEF WriteIoctl, UnlockOut, halVars
<1>2. /\ m \in Methods /\ Hal(i) = m.hal /\ Outcome(i) /\ Alone(i)
  BY Facts DEF Inv
<1>3. /\ EarlyAnswer(m) = {} /\ calls[i].reply = None
  BY <1>1, <1>2 DEF Outcome
<1>4. /\ appLock[Hal(i)] = i /\ outOwner = i /\ outBuf = r
  BY <1>1, <1>2 DEF Alone, Holding
<1>5. r.hal = Hal(i)
  BY <1>2, <1>3, RequestIs
<1>6. /\ RepliesTo(r) \subseteq ChipReplies \ {None}
      /\ Refusals(r) \subseteq ChipReplies \ {None}
  BY <1>2, <1>3, RepliesTyped
<1> DEFINE Acts(reply) == ChipActs(r, reply)
           Refuses(reply) == ChipRefuses(r, reply)
           Reads(reply) == calls' = [calls EXCEPT ![i].pc = "read", ![i].reply = reply]
<1>7. \/ \E reply \in RepliesTo(r) \cup Refusals(r) :
           (Acts(reply) \/ Refuses(reply)) /\ Reads(reply) /\ UNCHANGED appLock
      \/ \E reply \in RepliesTo(r) : Acts(reply) /\ End(i, reply, IoError)
      \/ End(i, None, IoError) /\ UNCHANGED <<chip, replies>>
  BY <1>4 DEF WriteIoctl
<1>8. ASSUME NEW reply PROVE
        /\ Acts(reply) => /\ reply \in RepliesTo(r) /\ chip' = ChipAfter(r)
                          /\ replies' = [replies EXCEPT ![Hal(i)] = reply]
        /\ Refuses(reply) => /\ reply \in Refusals(r) /\ UNCHANGED chip
                             /\ replies' = [replies EXCEPT ![Hal(i)] = reply]
  BY <1>5 DEF ChipActs, ChipRefuses
<1> HIDE DEF Acts, Refuses
<1>9. CASE \E reply \in RepliesTo(r) \cup Refusals(r) :
             (Acts(reply) \/ Refuses(reply)) /\ Reads(reply) /\ UNCHANGED appLock
  BY <1>1, <1>2, <1>3, <1>4, <1>6, <1>8, <1>9
<1>10. CASE \E reply \in RepliesTo(r) : Acts(reply) /\ End(i, reply, IoError)
  BY <1>1, <1>2, <1>3, <1>4, <1>6, <1>8, <1>10
<1>11. CASE End(i, None, IoError) /\ UNCHANGED <<chip, replies>>
  BY <1>1, <1>2, <1>3, <1>4, <1>11
<1> QED BY <1>7, <1>9, <1>10, <1>11

LEMMA WriteIoctlInv == ASSUME Inv, NEW i \in DOMAIN calls, WriteIoctl(i) PROVE Inv'
<1> DEFINE m == calls[i].method
           r == Request(m)
<1>1. /\ m \in Methods /\ EarlyAnswer(m) = {} /\ calls[i].reply = None
      /\ appLock[Hal(i)] = i /\ outOwner = i /\ outOwner' = 0
      /\ UNCHANGED <<current, answer, inOwner, inBuf>>
  BY WriteIoctlIs
<1>2. PICK reply \in {None} \cup ChipReplies :
        /\ \/ /\ reply # None /\ replies' = [replies EXCEPT ![Hal(i)] = reply]
              /\ \/ reply \in RepliesTo(r) /\ chip' = ChipAfter(r)
                 \/ reply \in Refusals(r) /\ UNCHANGED chip
           \/ reply = None /\ UNCHANGED <<chip, replies>>
        /\ \/ /\ calls' = [calls EXCEPT ![i].pc = "read", ![i].reply = reply]
              /\ reply # None /\ UNCHANGED appLock
           \/ End(i, reply, IoError)
  BY WriteIoctlIs
<1>3. /\ Hal(i) \in HalNames /\ appLock = [h \in HalNames |-> appLock[h]]
      /\ replies = [h \in HalNames |-> replies[h]]
  BY Facts
<1>4. ChipOK'
  <2>1. CASE chip' = ChipAfter(r)
    BY <1>1, <2>1, ChipTyped
  <2>2. CASE UNCHANGED chip
    BY <2>2 DEF Inv, TypeOK, ChipOK
  <2> QED BY <1>2, <2>1, <2>2
<1>5. /\ replies' = [h \in HalNames |-> replies'[h]]
      /\ reply # None => replies'[Hal(i)] = reply
      /\ \A h \in HalNames \ {Hal(i)} : replies'[h] = replies[h]
  <2>1. CASE reply # None /\ replies' = [replies EXCEPT ![Hal(i)] = reply]
    <3>1. replies' = [h \in HalNames |-> replies'[h]]
      BY <1>3, <2>1, ByHal
    <3> QED BY <1>3, <2>1, <3>1
  <2>2. CASE reply = None /\ UNCHANGED replies
    BY <1>3, <2>2
  <2> QED BY <1>2, <2>1, <2>2
<1>6. CASE End(i, reply, IoError)
  <2>1. /\ calls' \in Seq(Call) /\ Len(calls') = Len(calls) /\ DOMAIN calls' = DOMAIN calls
        /\ \A j \in DOMAIN calls \ {i} : calls'[j] = calls[j]
        /\ calls'[i].method = m /\ calls'[i].pc = "replied"
        /\ calls'[i].reply = reply /\ calls'[i].got = IoError
        /\ appLock' = [appLock EXCEPT ![Hal(i)] = 0]
    BY <1>6, EndIs
  <2>2. Outcome(i)' /\ Alone(i)'
    BY <1>1, <2>1 DEF Outcome, Alone, Holding
  <2>3. /\ appLock' = [h \in HalNames |-> appLock'[h]]
        /\ \A h \in HalNames \ {Hal(i)} : appLock'[h] = appLock[h]
    BY <1>3, <2>1, ByHal
  <2> QED BY <1>1, <1>3, <1>4, <1>5, <2>1, <2>2, <2>3, OthersKeep
<1>7. CASE /\ calls' = [calls EXCEPT ![i].pc = "read", ![i].reply = reply]
           /\ reply # None /\ UNCHANGED appLock
  <2> DEFINE e == [calls[i] EXCEPT !.pc = "read", !.reply = reply]
  <2>1. e \in Call /\ e.pc = "read" /\ e.method = m /\ e.reply = reply
    BY Facts DEF Call, Holding
  <2>2. calls' = [calls EXCEPT ![i] = e]
    BY <1>7
  <2> HIDE DEF e
  <2>3. /\ calls' \in Seq(Call) /\ Len(calls') = Len(calls) /\ DOMAIN calls' = DOMAIN calls
        /\ \A j \in DOMAIN calls \ {i} : calls'[j] = calls[j]
        /\ calls'[i].method = m /\ calls'[i].pc = "read" /\ calls'[i].reply = reply
    BY <2>1, <2>2, CallExcept
  <2>4. Hal(i)' = Hal(i)
    BY <2>3 DEF Hal
  <2>5. Outcome(i)'
    BY <1>1, <1>7, <2>3 DEF Outcome
  <2>6. Alone(i)'
    BY <1>1, <1>5, <1>7, <2>3, <2>4 DEF Alone
  <2> QED BY <1>1, <1>3, <1>4, <1>5, <1>7, <2>3, <2>5, <2>6, OthersKeep
<1> QED BY <1>2, <1>6, <1>7

LEMMA ReadIoctlInv == ASSUME Inv, NEW i \in DOMAIN calls, ReadIoctl(i) PROVE Inv'
<1> DEFINE reply == calls[i].reply
<1>1. /\ calls[i].pc = "reading"
      /\ UNCHANGED <<current, answer, outOwner, outBuf, chip, replies>>
      /\ \/ inBuf' = replies[Hal(i)] /\ Goto(i, "copy") /\ UNCHANGED <<inOwner, appLock>>
         \/ inOwner' = 0 /\ End(i, reply, IoError) /\ UNCHANGED inBuf
  BY DEF ReadIoctl, halVars
<1>2. /\ Hal(i) \in HalNames /\ appLock = [h \in HalNames |-> appLock[h]]
      /\ replies = [h \in HalNames |-> replies[h]] /\ ChipOK
  BY Facts DEF Inv, TypeOK
<1>3. ChipOK'
  BY <1>1, <1>2 DEF ChipOK
<1>4. reply \in {None} \cup ChipReplies
  BY Facts DEF Call
<1>5. /\ EarlyAnswer(calls[i].method) = {} /\ reply # None /\ appLock[Hal(i)] = i
      /\ replies[Hal(i)] = reply /\ inOwner = i
  <2>1. Outcome(i) /\ Alone(i)
    BY DEF Inv
  <2> QED BY <1>1, <2>1 DEF Outcome, Alone, Holding
<1>6. CASE inBuf' = replies[Hal(i)] /\ Goto(i, "copy") /\ UNCHANGED <<inOwner, appLock>>
  <2>1. /\ calls' \in Seq(Call) /\ Len(calls') = Len(calls) /\ DOMAIN calls' = DOMAIN calls
        /\ \A j \in DOMAIN calls \ {i} : calls'[j] = calls[j]
        /\ calls'[i].method = calls[i].method /\ calls'[i].pc = "copy"
        /\ calls'[i].reply = reply
    BY <1>6, GotoIs DEF Holding
  <2>2. Hal(i)' = Hal(i)
    BY <2>1 DEF Hal
  <2>3. Outcome(i)'
    BY <1>5, <2>1 DEF Outcome
  <2>4. Alone(i)'
    BY <1>1, <1>5, <1>6, <2>1, <2>2 DEF Alone
  <2> QED BY <1>1, <1>2, <1>3, <1>5, <1>6, <2>1, <2>3, <2>4, OthersKeep
<1>7. CASE inOwner' = 0 /\ End(i, reply, IoError) /\ UNCHANGED inBuf
  <2> HIDE DEF reply
  <2>1. /\ calls' \in Seq(Call) /\ Len(calls') = Len(calls) /\ DOMAIN calls' = DOMAIN calls
        /\ \A j \in DOMAIN calls \ {i} : calls'[j] = calls[j]
        /\ calls'[i].method = calls[i].method /\ calls'[i].pc = "replied"
        /\ calls'[i].reply = reply /\ calls'[i].got = IoError
        /\ appLock' = [appLock EXCEPT ![Hal(i)] = 0]
    BY <1>4, <1>7, EndIs
  <2>2. Outcome(i)' /\ Alone(i)'
    BY <1>5, <2>1 DEF Outcome, Alone, Holding
  <2>3. /\ appLock' = [h \in HalNames |-> appLock'[h]]
        /\ \A h \in HalNames \ {Hal(i)} : appLock'[h] = appLock[h]
    BY <1>2, <2>1, ByHal
  <2> QED BY <1>1, <1>2, <1>3, <1>5, <2>1, <2>2, <2>3, OthersKeep
<1> QED BY <1>1, <1>6, <1>7

LEMMA CopyInInv == ASSUME Inv, NEW i \in DOMAIN calls, CopyIn(i) PROVE Inv'
<1> DEFINE reply == calls[i].reply
<1>1. /\ calls[i].pc = "copy" /\ End(i, reply, inBuf)
      /\ UNCHANGED <<current, answer, outOwner, outBuf, chip, replies>>
  BY DEF CopyIn, halVars
<1>2. /\ Hal(i) \in HalNames /\ appLock = [h \in HalNames |-> appLock[h]]
      /\ replies = [h \in HalNames |-> replies[h]] /\ ChipOK
  BY Facts DEF Inv, TypeOK
<1>3. ChipOK'
  BY <1>1, <1>2 DEF ChipOK
<1>4. /\ EarlyAnswer(calls[i].method) = {} /\ reply # None /\ appLock[Hal(i)] = i
      /\ inBuf = reply /\ inOwner = i
  <2>1. Outcome(i) /\ Alone(i)
    BY DEF Inv
  <2> QED BY <1>1, <2>1 DEF Outcome, Alone, Holding
<1>5. reply \in {None} \cup ChipReplies /\ inBuf \in {None, IoError} \cup ChipReplies
  BY <1>4, Facts DEF Call
<1> HIDE DEF reply
<1>6. /\ calls' \in Seq(Call) /\ Len(calls') = Len(calls) /\ DOMAIN calls' = DOMAIN calls
      /\ \A j \in DOMAIN calls \ {i} : calls'[j] = calls[j]
      /\ calls'[i].method = calls[i].method /\ calls'[i].pc = "replied"
      /\ calls'[i].reply = reply /\ calls'[i].got = inBuf
      /\ appLock' = [appLock EXCEPT ![Hal(i)] = 0]
  BY <1>1, <1>5, EndIs
<1>7. Outcome(i)'
  BY <1>4, <1>6 DEF Outcome
<1>8. Alone(i)'
  BY <1>6 DEF Alone, Holding
<1>9. /\ appLock' = [h \in HalNames |-> appLock'[h]]
      /\ \A h \in HalNames \ {Hal(i)} : appLock'[h] = appLock[h]
  BY <1>2, <1>6, ByHal
<1> QED BY <1>1, <1>2, <1>3, <1>4, <1>6, <1>7, <1>8, <1>9, OthersKeep

(* Citadeld dies: nothing is left of its calls but their outcomes.         *)
LEMMA CitadeldDiesInv == ASSUME Inv, CitadeldDies PROVE Inv'
<1> DEFINE left(i) == IF calls[i].pc \in InCitadeld
                      THEN [calls[i] EXCEPT !.pc = "gone"] ELSE calls[i]
<1>1. /\ calls' = [i \in DOMAIN calls |-> left(i)] /\ appLock' = [h \in HalNames |-> 0]
      /\ UNCHANGED <<current, answer, chip, replies>>
  BY DEF CitadeldDies, halVars
<1>2. ASSUME NEW i \in DOMAIN calls
      PROVE /\ left(i) \in Call /\ left(i).pc \notin InCitadeld
            /\ left(i).method = calls[i].method
            /\ left(i).reply = calls[i].reply /\ left(i).got = calls[i].got
            /\ left(i).pc = calls[i].pc \/ (left(i).pc = "gone" /\ calls[i].pc \in InCitadeld)
  BY Facts DEF Call, InCitadeld
<1> HIDE DEF left
<1>3. DOMAIN calls = 1 .. Len(calls) /\ Len(calls) \in Nat
  BY Facts
<1>4. calls' \in [1 .. Len(calls) -> Call]
  BY <1>1, <1>2, <1>3
<1>5. calls' \in Seq(Call) /\ Len(calls') = Len(calls) /\ DOMAIN calls' = DOMAIN calls
  BY <1>3, <1>4, SeqDef, LenProperties
<1>6. TypeOK'
  BY <1>1, <1>5 DEF Inv, TypeOK, ChipOK
<1>7. \A h \in HalNames : current'[h] # 0 => current'[h] \in DOMAIN calls'
  BY <1>1, <1>5 DEF Inv
<1>8. ASSUME NEW i \in DOMAIN calls PROVE Outcome(i)' /\ Alone(i)'
  <2>1. calls'[i] = left(i) /\ Outcome(i)
    BY <1>1 DEF Inv
  <2>2. Outcome(i)'
    BY <1>2, <2>1 DEF Outcome, InCitadeld
  <2>3. Alone(i)'
    BY <1>2, <2>1 DEF Alone, InCitadeld, Holding
  <2> QED BY <2>2, <2>3
<1> QED BY <1>5, <1>6, <1>7, <1>8 DEF Inv

LEMMA UnchangedInv ==
  ASSUME Inv, UNCHANGED <<current, answer, calls, appLock, buffers, chip, replies>>
  PROVE  Inv'
BY DEF Inv, TypeOK, ChipOK, Outcome, Alone, Hal, buffers

LEMMA NextInv == Inv /\ [Next]_vars => Inv'
<1> SUFFICES ASSUME Inv, [Next]_vars PROVE Inv'
  OBVIOUS
<1>1. CASE \E m \in Methods : Invoke(m)
  BY <1>1, InvokeInv
<1>2. CASE \E h \in HalNames : HalSteps(h) \/ HalDies(h) \/ HalStarts(h)
  BY <1>2, CallAppInv, CallAppReturnsInv, HalDiesInv, HalStartsInv DEF HalSteps
<1>3. CASE \E i \in DOMAIN calls : CitadeldSteps(i)
  BY <1>3, LockAppInv, WriteDatagramInv, WriteIoctlInv, ReadDatagramInv, ReadIoctlInv,
     CopyInInv DEF CitadeldSteps
<1>4. CASE CitadeldDies
  BY <1>4, CitadeldDiesInv
<1>5. CASE CitadeldStarts
  BY <1>5, UnchangedInv DEF CitadeldStarts, halVars
<1>6. CASE UNCHANGED vars
  BY <1>6, UnchangedInv DEF vars, halVars, daemonVars
<1> QED BY <1>1, <1>2, <1>3, <1>4, <1>5, <1>6 DEF Next
-----------------------------------------------------------------------------
(* The carrier's token.                                                    *)

LEMMA Joined ==
  ASSUME NEW T, NEW a \in Seq(T), NEW b \in Seq(T)
  PROVE  /\ a \o b \in Seq(T) /\ Len(a \o b) = Len(a) + Len(b)
         /\ \A i \in 1 .. Len(a) : (a \o b)[i] = a[i]
         /\ \A i \in 1 .. Len(b) : (a \o b)[Len(a) + i] = b[i]
<1>1. PICK m \in Nat : m = Len(a)
  BY LenProperties
<1>2. PICK n \in Nat : n = Len(b)
  BY LenProperties
<1>3. /\ a \o b \in Seq(T) /\ Len(a \o b) = m + n
      /\ \A i \in 1 .. m + n : (a \o b)[i] = IF i <= m THEN a[i] ELSE b[i - m]
  BY <1>1, <1>2, ConcatProperties
<1>4. \A i \in 1 .. m : (a \o b)[i] = a[i]
  BY <1>3
<1>5. ASSUME NEW i \in 1 .. n PROVE (a \o b)[m + i] = b[i]
  <2>1. m + i \in 1 .. m + n /\ ~ (m + i <= m) /\ (m + i) - m = i
    OBVIOUS
  <2> QED BY <1>3, <2>1
<1> QED BY <1>1, <1>2, <1>3, <1>4, <1>5

LEMMA Piece ==
  ASSUME NEW T, NEW s \in Seq(T), NEW c \in Seq(T), NEW k \in Nat, NEW n \in Nat,
         Len(c) = n, k + n <= Len(s), \A i \in 1 .. n : s[k + i] = c[i]
  PROVE  SubSeq(s, k + 1, k + n) = c
<1> DEFINE from == k + 1
           to == k + n
           t == SubSeq(s, from, to)
<1>1. from \in Int /\ to \in Int
  OBVIOUS
<1>2. \A i \in from .. to : s[i] \in T
  BY ElementOfSeq, LenProperties
<1>3. /\ (IF from <= to THEN to - from + 1 ELSE 0) = n /\ to - from + 1 = n
      /\ \A i \in 1 .. n : from + i - 1 = k + i
  OBVIOUS
<1> HIDE DEF from, to
<1>4. /\ t \in Seq(T) /\ Len(t) = n
      /\ \A i \in 1 .. n : t[i] = s[from + i - 1]
  BY <1>1, <1>2, <1>3, SubSeqProperties
<1> HIDE DEF t
<1>5. \A i \in 1 .. n : t[i] = c[i]
  BY <1>3, <1>4
<1>6. t = c
  BY <1>4, <1>5, SeqEqual
<1> QED BY <1>6 DEF t, from, to

(* Three sequences are cut again where they were joined ...                *)
LEMMA CutJoined ==
  ASSUME NEW T, NEW a \in Seq(T), NEW b \in Seq(T), NEW c \in Seq(T),
         NEW w \in Nat, Len(a) = w, Len(b) = w, NEW s, s = a \o b \o c
  PROVE  /\ SubSeq(s, 1, w) = a /\ SubSeq(s, w + 1, 2 * w) = b
         /\ SubSeq(s, 2 * w + 1, Len(s)) = c
<1>1. PICK n \in Nat : n = Len(c)
  BY LenProperties
<1>2. PICK v \in Nat : v = w + w
  OBVIOUS
<1>3. PICK ab : ab = a \o b
  OBVIOUS
<1>4. /\ ab \in Seq(T) /\ Len(ab) = v
      /\ \A i \in 1 .. w : ab[i] = a[i]
      /\ \A i \in 1 .. w : ab[w + i] = b[i]
  <2>1. /\ ab \in Seq(T) /\ Len(ab) = Len(a) + Len(b)
        /\ \A i \in 1 .. Len(a) : ab[i] = a[i]
        /\ \A i \in 1 .. Len(b) : ab[Len(a) + i] = b[i]
    <3>1. /\ a \o b \in Seq(T) /\ Len(a \o b) = Len(a) + Len(b)
          /\ \A i \in 1 .. Len(a) : (a \o b)[i] = a[i]
          /\ \A i \in 1 .. Len(b) : (a \o b)[Len(a) + i] = b[i]
      BY ONLY a \in Seq(T), b \in Seq(T), Joined
    <3> QED BY ONLY <1>3, <3>1, Zenon
  <2> QED BY ONLY <1>2, <2>1, Len(a) = w, Len(b) = w
<1>5. /\ s \in Seq(T) /\ Len(s) = v + n
      /\ \A i \in 1 .. v : s[i] = ab[i]
      /\ \A i \in 1 .. n : s[v + i] = c[i]
  <2>1. s = ab \o c
    BY <1>3
  <2>2. /\ s \in Seq(T) /\ Len(s) = Len(ab) + Len(c)
        /\ \A i \in 1 .. Len(ab) : s[i] = ab[i]
        /\ \A i \in 1 .. Len(c) : s[Len(ab) + i] = c[i]
    <3>1. ab \in Seq(T)
      BY <1>4
    <3>2. /\ ab \o c \in Seq(T) /\ Len(ab \o c) = Len(ab) + Len(c)
          /\ \A i \in 1 .. Len(ab) : (ab \o c)[i] = ab[i]
          /\ \A i \in 1 .. Len(c) : (ab \o c)[Len(ab) + i] = c[i]
      BY ONLY <3>1, c \in Seq(T), Joined
    <3> QED BY ONLY <2>1, <3>2, Zenon
  <2> QED BY ONLY <1>1, <1>4, <2>2
<1>6. SubSeq(s, 1, w) = a
  <2>1. \A i \in 1 .. w : s[0 + i] = a[i]
    BY <1>2, <1>4, <1>5
  <2>2. 0 + w <= Len(s)
    BY <1>2, <1>5
  <2>3. SubSeq(s, 0 + 1, 0 + w) = a
    BY <1>5, <2>1, <2>2, Piece
  <2> QED BY <2>3
<1>7. SubSeq(s, w + 1, w + w) = b
  <2>1. \A i \in 1 .. w : s[w + i] = b[i]
    BY <1>2, <1>4, <1>5
  <2>2. w + w <= Len(s)
    BY <1>2, <1>5
  <2> QED BY <1>5, <2>1, <2>2, Piece
<1>8. SubSeq(s, v + 1, v + n) = c
  <2>1. v + n <= Len(s) /\ Len(c) = n
    BY <1>1, <1>5
  <2> QED BY ONLY <1>5, <2>1, c \in Seq(T), v \in Nat, n \in Nat, Piece
<1>9. v = 2 * w /\ w + w = 2 * w
  BY <1>2
<1> QED BY <1>5, <1>6, <1>7, <1>8, <1>9

(* ... and a sequence that was cut is what its pieces make up.             *)
LEMMA JoinCut ==
  ASSUME NEW T, NEW s \in Seq(T), NEW w \in Nat, 2 * w <= Len(s)
  PROVE  SubSeq(s, 1, w) \o SubSeq(s, w + 1, 2 * w) \o SubSeq(s, 2 * w + 1, Len(s)) = s
<1>1. Len(s) \in Nat
  BY LenProperties
<1>2. SubSeq(s, 1, w) \o SubSeq(s, w + 1, 2 * w) = SubSeq(s, 1, 2 * w)
  <2>1. 1 \in 1 .. Len(s) + 1 /\ w \in 1 - 1 .. Len(s) /\ 2 * w \in w .. Len(s)
    BY <1>1
  <2> QED BY ONLY <2>1, ConcatAdjacentSubSeq, s \in Seq(T)
<1>3. SubSeq(s, 1, 2 * w) \o SubSeq(s, 2 * w + 1, Len(s)) = SubSeq(s, 1, Len(s))
  <2>1. /\ 1 \in 1 .. Len(s) + 1 /\ 2 * w \in 1 - 1 .. Len(s)
        /\ Len(s) \in 2 * w .. Len(s)
    BY <1>1
  <2> QED BY ONLY <2>1, ConcatAdjacentSubSeq, s \in Seq(T)
<1>4. SubSeq(s, 1, Len(s)) = s
  BY SubSeqFull
<1> QED BY ONLY <1>2, <1>3, <1>4

(* The app accepts exactly the one signature.                              *)
LEMMA TokenIs ==
  ASSUME NEW s, IsSequence(s), ~ (Len(s) < 2 * WordSize)
  PROVE  CarrierUnlockFromSignature(s) = Accepted <=> s = Signature
<1> DEFINE a == Accepted.version
           b == Accepted.nonce
           c == Accepted.signature
           T == {s[i] : i \in 1 .. Len(s)} \cup {a[i] : i \in 1 .. Len(a)}
                  \cup {b[i] : i \in 1 .. Len(b)} \cup {c[i] : i \in 1 .. Len(c)}
<1>1. /\ IsSequence(a) /\ IsSequence(b) /\ IsSequence(c) /\ WordSize \in Nat
      /\ Len(a) = WordSize /\ Len(b) = WordSize
      /\ Accepted = [version |-> a, nonce |-> b, signature |-> c]
  BY HalsAssumption
<1>2. CarrierUnlockFromSignature(s)
        = [version |-> SubSeq(s, 1, WordSize), nonce |-> SubSeq(s, WordSize + 1, 2 * WordSize),
           signature |-> SubSeq(s, 2 * WordSize + 1, Len(s))]
  BY DEF CarrierUnlockFromSignature
<1>3. Signature = a \o b \o c
  BY DEF Signature
<1>4. /\ \A i \in 1 .. Len(s) : s[i] \in T
      /\ \A i \in 1 .. Len(a) : a[i] \in T
      /\ \A i \in 1 .. Len(b) : b[i] \in T
      /\ \A i \in 1 .. Len(c) : c[i] \in T
  OBVIOUS
<1> HIDE DEF a, b, c, T
<1>5. s \in Seq(T) /\ a \in Seq(T) /\ b \in Seq(T) /\ c \in Seq(T)
  BY <1>1, <1>4, SequenceIsSeq
<1>6. ASSUME s = Signature PROVE CarrierUnlockFromSignature(s) = Accepted
  <2>1. /\ SubSeq(s, 1, WordSize) = a /\ SubSeq(s, WordSize + 1, 2 * WordSize) = b
        /\ SubSeq(s, 2 * WordSize + 1, Len(s)) = c
    BY <1>1, <1>3, <1>5, <1>6, CutJoined
  <2> QED BY <1>1, <1>2, <2>1
<1>7. ASSUME CarrierUnlockFromSignature(s) = Accepted PROVE s = Signature
  <2>1. /\ SubSeq(s, 1, WordSize) = a /\ SubSeq(s, WordSize + 1, 2 * WordSize) = b
        /\ SubSeq(s, 2 * WordSize + 1, Len(s)) = c
    BY <1>1, <1>2, <1>7
  <2>2. 2 * WordSize <= Len(s)
    BY <1>1, <1>5, LenProperties
  <2>3. SubSeq(s, 1, WordSize) \o SubSeq(s, WordSize + 1, 2 * WordSize)
          \o SubSeq(s, 2 * WordSize + 1, Len(s)) = s
    BY <1>1, <1>5, <2>2, JoinCut
  <2> QED BY <1>3, <2>1, <2>3
<1> QED BY <1>6, <1>7
-----------------------------------------------------------------------------
(* What the chip does for a call, the contract allows.                     *)

LEMMA ChipLocks ==
  ASSUME Inv
  PROVE  /\ chip = [slot |-> chip.slot, lock |-> chip.lock]
         /\ chip.lock = [CARRIER |-> chip.lock.CARRIER, DEVICE |-> chip.lock.DEVICE]
         /\ chip.lock.CARRIER \in {0, 1} /\ chip.lock.DEVICE \in {0, 1}
BY DEF Inv, TypeOK, ChipOK

(* Calls that leave the locks alone.                                       *)
LEMMA NoUnlock ==
  ASSUME NEW m, NEW o, UNCHANGED chip.lock,
         m.name \in {"setOemUnlockAllowedByCarrier", "setOemUnlockAllowedByDevice"}
           => o # Contract!Ok(None),
         chip'.slot = IF m.name = "write" /\ o # Contract!Failed
                      THEN [key |-> m.key, value |-> m.value] ELSE chip.slot
  PROVE  Contract!Effect(m, o)
<1>1. Allowed' = Allowed
  BY DEF Allowed
<1> QED BY <1>1 DEF Contract!Effect, Allowed

LEMMA AllowedAfter ==
  ASSUME NEW l \in {"CARRIER", "DEVICE"}, NEW b \in BOOLEAN, (chip'.lock[l] = 0) = b,
         \A k \in {"CARRIER", "DEVICE"} \ {l} : chip'.lock[k] = chip.lock[k]
  PROVE  Allowed' = [Allowed EXCEPT ![l] = b]
<1>1. \A k \in {"CARRIER", "DEVICE"} : Allowed'[k] = [Allowed EXCEPT ![l] = b][k]
  BY Zenon DEF Allowed
<1> QED BY <1>1 DEF Allowed

LEMMA Refused ==
  ASSUME NEW m \in Methods, EarlyAnswer(m) = {}, NEW reply \in Refusals(Request(m)),
         UNCHANGED chip, NEW o, o = AnswerTo(m, reply)
  PROVE  o \in Contract!Outcomes(m) /\ Contract!Effect(m, o)
<1> DEFINE r == Request(m)
<1> HIDE DEF r
<1>1. Failed = Contract!Failed /\ Contract!Failed # Contract!Ok(None)
  BY DEF Failed, Answer, Contract!Failed, Contract!Answer, Contract!Ok
<1>2. AnswerTo(m, reply) = Failed
  <2>1. CASE reply = Refusal("APP_ERROR_INTERNAL")
    BY <2>1 DEF AnswerTo, Refusal, Reply
  <2>2. CASE r.name = "Read" /\ reply = Reply("APP_SUCCESS", "ANOTHER", None, 0)
    <3>1. m.name = "read"
      BY <2>2, RequestIs DEF r
    <3> QED BY <2>2, <3>1 DEF AnswerTo, ReadAnswer, Reply
  <2> QED BY <2>1, <2>2 DEF Refusals, r
<1>3. Contract!Failed \in Contract!Outcomes(m)
  BY DEF Contract!Outcomes
<1>4. Contract!Effect(m, Contract!Failed)
  <2>1. Allowed' = Allowed
    BY DEF Allowed
  <2> QED BY <1>1, <2>1 DEF Contract!Effect, Allowed
<1> QED BY <1>1, <1>2, <1>3, <1>4

LEMMA Acted ==
  ASSUME Inv, NEW m \in Methods, EarlyAnswer(m) = {},
         NEW reply \in RepliesTo(Request(m)), chip' = ChipAfter(Request(m)),
         NEW o, o = AnswerTo(m, reply)
  PROVE  o \in Contract!Outcomes(m) /\ Contract!Effect(m, o)
<1> DEFINE r == Request(m)
<1>1. reply \in RepliesTo(r) /\ chip' = ChipAfter(r)
  OBVIOUS
<1> HIDE DEF r
<1>2. /\ chip = [slot |-> chip.slot, lock |-> chip.lock]
      /\ chip.lock = [CARRIER |-> chip.lock.CARRIER, DEVICE |-> chip.lock.DEVICE]
      /\ chip.lock.CARRIER \in {0, 1} /\ chip.lock.DEVICE \in {0, 1}
  BY ChipLocks
<1>3. /\ \A v : Ok(v) = Contract!Ok(v) /\ Contract!Ok(v) # Contract!Failed
      /\ \A s, v, t : Answer(s, v, t) = Contract!Answer(s, v, t)
  BY DEF Ok, Answer, Contract!Ok, Contract!Answer, Contract!Failed
<1>4. \A v : AnswerTo(m, Success(v)) =
              CASE m.name = "read" -> Ok(v)
                [] m.name = "getConfig" -> Ok(v)
                [] m.name = "isOemUnlockAllowed" -> Ok(v = 0)
                [] OTHER -> Ok(None)
  BY DEF AnswerTo, ReadAnswer, Success, Reply
<1>5. CASE m.name = "getConfig"
  <2>1. r.name = "GetConfig"
    BY <1>5, RequestIs DEF r
  <2>2. reply = Success(Config) /\ UNCHANGED chip
    BY <1>1, <2>1 DEF RepliesTo, ChipAfter
  <2>3. o = Contract!Ok(Config)
    BY <1>3, <1>4, <1>5, <2>2
  <2>4. o \in Contract!Outcomes(m)
    BY <1>5, <2>3 DEF Contract!Outcomes
  <2> QED BY <1>5, <2>2, <2>4, NoUnlock
<1>6. CASE m.name = "write"
  <2>1. r.name = "Write" /\ r.key = m.key /\ r.value = m.value
    BY <1>6, RequestIs DEF r
  <2>2. reply = Success(None) /\ chip' = [chip EXCEPT !.slot = [key |-> m.key, value |-> m.value]]
    BY <1>1, <2>1 DEF RepliesTo, ChipAfter
  <2>3. o = Contract!Ok(None)
    BY <1>3, <1>4, <1>6, <2>2
  <2>4. o \in Contract!Outcomes(m)
    BY <1>6, <2>3 DEF Contract!Outcomes
  <2>5. chip'.lock = chip.lock /\ chip'.slot = [key |-> m.key, value |-> m.value]
    BY <1>2, <2>2
  <2> QED BY <1>3, <1>6, <2>3, <2>4, <2>5, NoUnlock
<1>7. CASE m.name = "read"
  <2>1. r.name = "Read" /\ r.key = m.key
    BY <1>7, RequestIs DEF r
  <2>2. reply \in ReadReplies(m.key) /\ UNCHANGED chip
    BY <1>1, <2>1 DEF RepliesTo, ChipAfter
  <2>3. \A e \in {"WRONG_KEY", "THROTTLE"}, t \in Timeouts :
          AnswerTo(m, Reply("APP_SUCCESS", e, None, t))
            = Contract!Answer(IF e = "THROTTLE" THEN "THROTTLE" ELSE "INCORRECT_KEY", None, t)
    BY <1>3, <1>7 DEF AnswerTo, ReadAnswer, Reply
  <2>4. o \in Contract!Outcomes(m)
    <3>1. CASE \E t \in Timeouts : reply = Reply("APP_SUCCESS", "THROTTLE", None, t)
      BY <1>7, <2>3, <3>1 DEF Contract!Outcomes
    <3>2. CASE m.key = chip.slot.key /\ reply = Success(chip.slot.value)
      BY <1>3, <1>4, <1>7, <3>2 DEF Contract!Outcomes
    <3>3. CASE m.key # chip.slot.key
               /\ \E t \in Timeouts : reply = Reply("APP_SUCCESS", "WRONG_KEY", None, t)
      BY <1>7, <2>3, <3>3 DEF Contract!Outcomes
    <3> QED BY <2>2, <3>1, <3>2, <3>3 DEF ReadReplies
  <2> QED BY <1>7, <2>2, <2>4, NoUnlock
<1>8. CASE m.name = "isOemUnlockAllowed"
  <2>1. r.name = "GetLock" /\ r.lock = m.lock
    BY <1>8, RequestIs DEF r
  <2>2. reply = Success(chip.lock[m.lock]) /\ UNCHANGED chip
    BY <1>1, <2>1 DEF RepliesTo, ChipAfter
  <2>3. m.lock \in {"CARRIER", "DEVICE"}
    BY <1>8, MethodsAssumption
  <2>4. o = Contract!Ok(chip.lock[m.lock] = 0)
    BY <1>3, <1>4, <1>8, <2>2
  <2>5. o \in Contract!Outcomes(m)
    BY <1>8, <2>3, <2>4 DEF Contract!Outcomes
  <2> QED BY <1>8, <2>2, <2>5, NoUnlock
<1>9. CASE m.name = "setOemUnlockAllowedByCarrier"
  <2>1. /\ r.name = "CarrierUnlock" /\ r.token = CarrierUnlockFromSignature(m.signature)
        /\ m.allowed /\ ~ (Len(m.signature) < 2 * WordSize)
    BY <1>9, RequestIs DEF r
  <2>2. r.token = Accepted <=> m.signature = Signature
    BY <1>9, <2>1, MethodsAssumption, TokenIs
  <2>3. CASE r.token = Accepted
    <3>1. reply = Success(None) /\ chip' = [chip EXCEPT !.lock.CARRIER = 0]
      BY <1>1, <2>1, <2>3 DEF RepliesTo, ChipAfter
    <3>2. o = Contract!Ok(None)
      BY <1>3, <1>4, <1>9, <3>1
    <3>3. o \in Contract!Outcomes(m)
      BY <1>9, <2>1, <2>2, <2>3, <3>2 DEF Contract!Outcomes
    <3>4. chip'.slot = chip.slot /\ chip'.lock = [CARRIER |-> 0, DEVICE |-> chip.lock.DEVICE]
      BY <1>2, <3>1
    <3>5. Allowed' = [Allowed EXCEPT !["CARRIER"] = TRUE]
      <4>1. /\ (chip'.lock["CARRIER"] = 0) = TRUE
            /\ chip'.lock["DEVICE"] = chip.lock["DEVICE"]
        BY <3>4
      <4> QED BY ONLY <4>1, AllowedAfter
    <3>6. Contract!Effect(m, o)
      BY <1>9, <3>2, <3>4, <3>5 DEF Contract!Effect, Allowed
    <3> QED BY <3>3, <3>6
  <2>4. CASE r.token # Accepted
    <3>1. reply = Refusal("APP_ERROR_AVB_AUTHORIZATION") /\ UNCHANGED chip
      BY <1>1, <2>1, <2>4 DEF RepliesTo, ChipAfter
    <3>2. o = Contract!Invalid
      BY <1>3, <1>9, <3>1 DEF AnswerTo, Refusal, Reply, Contract!Invalid
    <3>3. o \in Contract!Outcomes(m)
      BY <1>9, <2>1, <2>2, <2>4, <3>2 DEF Contract!Outcomes
    <3>4. o # Contract!Ok(None)
      BY <3>2 DEF Contract!Invalid, Contract!Answer, Contract!Ok
    <3> QED BY <1>9, <3>1, <3>3, <3>4, NoUnlock
  <2> QED BY <2>3, <2>4
<1>10. CASE m.name = "setOemUnlockAllowedByDevice"
  <2>1. r.name = "SetDeviceLock" /\ r.locked = IF m.allowed THEN 0 ELSE 1
    BY <1>10, RequestIs DEF r
  <2>2. reply = Success(None) /\ chip' = [chip EXCEPT !.lock.DEVICE = r.locked]
    BY <1>1, <2>1 DEF RepliesTo, ChipAfter
  <2>3. o = Contract!Ok(None)
    BY <1>3, <1>4, <1>10, <2>2
  <2>4. o \in Contract!Outcomes(m)
    BY <1>10, <2>3 DEF Contract!Outcomes
  <2>5. chip'.slot = chip.slot /\ chip'.lock = [CARRIER |-> chip.lock.CARRIER, DEVICE |-> r.locked]
    BY <1>2, <2>2
  <2>6. m.allowed \in BOOLEAN /\ (r.locked = 0) = m.allowed
    BY <1>10, <2>1, MethodsAssumption
  <2>7. Allowed' = [Allowed EXCEPT !["DEVICE"] = m.allowed]
    BY <2>5, <2>6, AllowedAfter
  <2>8. Contract!Effect(m, o)
    BY <1>10, <2>3, <2>5, <2>7 DEF Contract!Effect, Allowed
  <2> QED BY <2>4, <2>8
<1>11. m.name \in {"getConfig", "write", "read", "isOemUnlockAllowed",
                   "setOemUnlockAllowedByCarrier", "setOemUnlockAllowedByDevice"}
  BY RequestIs
<1> QED BY <1>5, <1>6, <1>7, <1>8, <1>9, <1>10, <1>11
-----------------------------------------------------------------------------
(* Each step is one of the contract, or none that it sees.                 *)

LEMMA Stutters ==
  ASSUME UNCHANGED <<chip, current, answer>>, SeenCalls' = SeenCalls
  PROVE  UNCHANGED Contract!vars
<1>1. Allowed' = Allowed
  BY DEF Allowed
<1> QED BY <1>1 DEF Contract!vars, Allowed, SeenCalls, Seen

LEMMA SeenChange ==
  ASSUME Inv, NEW i \in DOMAIN calls, DOMAIN calls' = DOMAIN calls,
         \A j \in DOMAIN calls \ {i} : calls'[j] = calls[j], NEW e, Seen(calls'[i]) = e
  PROVE  SeenCalls' = [SeenCalls EXCEPT ![i] = e]
<1>1. SeenCalls' = [j \in DOMAIN calls |-> Seen(calls'[j])]
  BY DEF SeenCalls, Seen
<1> QED BY <1>1 DEF SeenCalls

LEMMA SeenSame ==
  ASSUME Inv, NEW i \in DOMAIN calls, DOMAIN calls' = DOMAIN calls,
         \A j \in DOMAIN calls \ {i} : calls'[j] = calls[j],
         calls'[i].method = calls[i].method, calls'[i].reply = calls[i].reply,
         calls[i].pc # "answered", calls'[i].pc # "answered"
  PROVE  SeenCalls' = SeenCalls
<1>1. Seen(calls'[i]) = Seen(calls[i])
  BY DEF Seen
<1>2. SeenCalls' = [SeenCalls EXCEPT ![i] = Seen(calls[i])]
  BY <1>1, SeenChange
<1> QED BY <1>2 DEF SeenCalls

LEMMA SeenIsSeq ==
  ASSUME NEW cs \in Seq(Call), NEW seen, seen = [i \in DOMAIN cs |-> Seen(cs[i])]
  PROVE  /\ seen \in Seq({Seen(c) : c \in Call}) /\ Len(seen) = Len(cs)
         /\ \A i \in 1 .. Len(cs) : seen[i] = Seen(cs[i])
<1>1. DOMAIN cs = 1 .. Len(cs) /\ Len(cs) \in Nat
  BY LenProperties
<1>2. \A i \in 1 .. Len(cs) : cs[i] \in Call
  BY ElementOfSeq
<1>3. seen \in [1 .. Len(cs) -> {Seen(c) : c \in Call}]
  BY <1>1, <1>2
<1>4. seen \in Seq({Seen(c) : c \in Call})
  BY <1>1, <1>3, SeqDef
<1>5. Len(seen) = Len(cs)
  BY <1>1, <1>3, <1>4, LenProperties
<1> QED BY <1>1, <1>4, <1>5

LEMMA InvokeStep ==
  ASSUME Inv, NEW m \in Methods, Invoke(m)
  PROVE  Contract!Invoke(m)
<1> DEFINE new == [method |-> m, pc |-> "hal", reply |-> None, got |-> None]
           seen == [method |-> m, outcome |-> None, answered |-> FALSE]
           S == {Seen(c) : c \in Call}
<1>1. /\ Len(calls) < MaxCalls /\ current[m.hal] = 0
      /\ calls' = Append(calls, new)
      /\ current' = [current EXCEPT ![m.hal] = Len(calls) + 1]
      /\ answer' = [answer EXCEPT ![m.hal] = None]
      /\ UNCHANGED chip
  BY DEF Invoke
<1>2. new \in Call /\ Seen(new) = seen
  BY DEF Call, Seen
<1> HIDE DEF new
<1>3. calls \in Seq(Call) /\ Len(calls) \in Nat
  BY Facts DEF Inv, TypeOK
<1>4. /\ calls' \in Seq(Call)
      /\ Len(calls') = Len(calls) + 1 /\ calls'[Len(calls) + 1] = new
      /\ \A i \in 1 .. Len(calls) : calls'[i] = calls[i]
  BY <1>1, <1>2, <1>3, AppendProperties
<1>5. /\ SeenCalls \in Seq(S) /\ Len(SeenCalls) = Len(calls)
      /\ \A i \in 1 .. Len(calls) : SeenCalls[i] = Seen(calls[i])
  BY <1>3, SeenIsSeq DEF SeenCalls
<1>6. /\ SeenCalls' \in Seq(S) /\ Len(SeenCalls') = Len(calls')
      /\ \A i \in 1 .. Len(calls') : SeenCalls'[i] = Seen(calls'[i])
  <2>1. SeenCalls' = [i \in DOMAIN calls' |-> Seen(calls'[i])]
    BY DEF SeenCalls, Seen
  <2> QED BY <1>4, <2>1, SeenIsSeq
<1>7. seen \in S
  BY <1>2
<1> HIDE DEF S, seen
<1>8. /\ Append(SeenCalls, seen) \in Seq(S) /\ Len(Append(SeenCalls, seen)) = Len(calls) + 1
      /\ Append(SeenCalls, seen)[Len(calls) + 1] = seen
      /\ \A i \in 1 .. Len(calls) : Append(SeenCalls, seen)[i] = SeenCalls[i]
  BY <1>5, <1>7, AppendProperties
<1>9. \A i \in 1 .. Len(calls) + 1 : SeenCalls'[i] = Append(SeenCalls, seen)[i]
  BY <1>2, <1>3, <1>4, <1>5, <1>6, <1>8
<1>10. SeenCalls' = Append(SeenCalls, seen)
  BY <1>4, <1>6, <1>8, <1>9, SeqEqual
<1>11. Allowed' = Allowed
  BY <1>1 DEF Allowed
<1> QED BY <1>1, <1>5, <1>10, <1>11 DEF Contract!Invoke, SeenCalls, Seen, Allowed, seen

(* Early answers, and those that say that the call failed.                 *)
LEMMA SignatureLength ==
  ASSUME NEW s, Len(s) < 2 * WordSize PROVE s # Signature
<1> DEFINE a == Accepted.version
           b == Accepted.nonce
           c == Accepted.signature
           T == {a[i] : i \in 1 .. Len(a)} \cup {b[i] : i \in 1 .. Len(b)}
                  \cup {c[i] : i \in 1 .. Len(c)}
<1>1. /\ IsSequence(a) /\ IsSequence(b) /\ IsSequence(c) /\ WordSize \in Nat
      /\ Len(a) = WordSize /\ Len(b) = WordSize
  BY HalsAssumption
<1>2. Signature = a \o b \o c
  BY DEF Signature
<1>3. /\ \A i \in 1 .. Len(a) : a[i] \in T
      /\ \A i \in 1 .. Len(b) : b[i] \in T
      /\ \A i \in 1 .. Len(c) : c[i] \in T
  OBVIOUS
<1> HIDE DEF a, b, c, T
<1>4. a \in Seq(T) /\ b \in Seq(T) /\ c \in Seq(T)
  BY <1>1, <1>3, SequenceIsSeq
<1>5. a \o b \in Seq(T) /\ Len(a \o b) = Len(a) + Len(b)
  BY <1>4, Joined
<1>6. Len(a \o b \o c) = Len(a \o b) + Len(c)
  BY <1>4, <1>5, Joined
<1>7. Len(c) \in Nat
  BY <1>4, LenProperties
<1>8. ~ (Len(Signature) < 2 * WordSize)
  BY <1>1, <1>2, <1>5, <1>6, <1>7
<1> QED BY <1>8

LEMMA FailedAtOnce == ASSUME NEW m PROVE AnswerTo(m, IoError) \in Contract!AtOnce(m)
<1>1. AnswerTo(m, IoError) = Failed
  BY DEF AnswerTo, IoError, Refusal, Reply
<1>2. Failed = Contract!Failed
  BY DEF Failed, Answer, Contract!Failed, Contract!Answer
<1> QED BY <1>1, <1>2 DEF Contract!AtOnce

LEMMA EarlyAtOnce ==
  ASSUME NEW m \in Methods, NEW a \in EarlyAnswer(m) PROVE a \in Contract!AtOnce(m)
<1>1. /\ Ok("01") = Contract!Ok("01") /\ Failed = Contract!Failed
      /\ Answer("INVALID_SIGNATURE", None, 0) = Contract!Invalid
  BY DEF Failed, Ok, Answer, Contract!Failed, Contract!Ok, Contract!Answer, Contract!Invalid
<1>2. CASE m.name = "getName"
  BY <1>1, <1>2 DEF EarlyAnswer, Contract!AtOnce
<1>3. CASE m.name = "setOemUnlockAllowedByCarrier" /\ ~ m.allowed
  <2>1. a = Contract!Failed
    BY <1>1, <1>3 DEF EarlyAnswer
  <2> QED BY <2>1, <1>3 DEF Contract!AtOnce
<1>4. CASE m.name = "setOemUnlockAllowedByCarrier" /\ m.allowed
  <2>1. a = Contract!Invalid /\ Len(m.signature) < 2 * WordSize
    BY <1>1, <1>4 DEF EarlyAnswer
  <2>2. m.signature \notin {Signature}
    BY <2>1, SignatureLength
  <2> QED BY <2>1, <2>2, <1>4 DEF Contract!AtOnce
<1> QED BY <1>2, <1>3, <1>4 DEF EarlyAnswer

LEMMA SeenAnswered ==
  ASSUME NEW c, c.pc = "answered"
  PROVE  Seen(c) = [method |-> c.method, answered |-> TRUE,
                    outcome |-> IF c.reply = None THEN None ELSE AnswerTo(c.method, c.reply)]
<1>1. (c.pc = "answered") = TRUE
  OBVIOUS
<1> QED BY <1>1 DEF Seen

LEMMA SeenUnanswered ==
  ASSUME NEW c, c.pc # "answered", NEW o,
         o = IF c.reply = None THEN None ELSE AnswerTo(c.method, c.reply)
  PROVE  Seen(c) = [method |-> c.method, outcome |-> o, answered |-> FALSE]
<1>1. (c.pc = "answered") = FALSE
  OBVIOUS
<1> QED BY <1>1 DEF Seen

LEMMA AnsweredExcept ==
  ASSUME NEW c, NEW v,
         c = [method |-> c.method, outcome |-> c.outcome, answered |-> c.answered]
  PROVE  [c EXCEPT !.answered = v] = [method |-> c.method, outcome |-> c.outcome, answered |-> v]
OBVIOUS

LEMMA OutcomeExcept ==
  ASSUME NEW c, NEW v,
         c = [method |-> c.method, outcome |-> c.outcome, answered |-> c.answered]
  PROVE  [c EXCEPT !.outcome = v] = [method |-> c.method, outcome |-> v, answered |-> c.answered]
OBVIOUS

LEMMA ReturnStep ==
  ASSUME Inv, NEW h \in HalNames, current[h] # 0, NEW result, Return(h, result), UNCHANGED chip,
         LET c == calls[current[h]]
         IN  \/ result \in Contract!AtOnce(c.method)
             \/ result = Seen(c).outcome /\ result # None
  PROVE  result \in Contract!MayReturn(h) /\ Contract!Return(h, result)
<1> DEFINE i == current[h]
<1>1. /\ answer' = [answer EXCEPT ![h] = result] /\ current' = [current EXCEPT ![h] = 0]
      /\ Goto(i, "answered")
  BY DEF Return
<1>2. i \in DOMAIN calls
  BY Facts
<1>3. SeenCalls[i] = Seen(calls[i]) /\ Seen(calls[i]).method = calls[i].method
  BY <1>2 DEF SeenCalls, Seen
<1>4. result \in Contract!MayReturn(h)
  BY <1>3 DEF Contract!MayReturn, SeenCalls, Seen
<1>5. /\ DOMAIN calls' = DOMAIN calls
      /\ \A j \in DOMAIN calls \ {i} : calls'[j] = calls[j]
      /\ calls'[i].method = calls[i].method /\ calls'[i].pc = "answered"
      /\ calls'[i].reply = calls[i].reply
  BY <1>1, <1>2, GotoIs
<1>6. Seen(calls'[i]) = [Seen(calls[i]) EXCEPT !.answered = TRUE]
  <2>1. PICK old : /\ old = Seen(calls[i])
                   /\ old = [method |-> old.method, outcome |-> old.outcome,
                             answered |-> old.answered]
    <3>1. PICK m, o, b : Seen(calls[i]) = [method |-> m, outcome |-> o, answered |-> b]
      BY DEF Seen
    <3> QED BY <3>1
  <2>2. [old EXCEPT !.answered = TRUE]
          = [method |-> old.method, outcome |-> old.outcome, answered |-> TRUE]
    <3>1. PICK v : v = TRUE
      OBVIOUS
    <3>2. [old EXCEPT !.answered = v]
            = [method |-> old.method, outcome |-> old.outcome, answered |-> v]
      BY <2>1, AnsweredExcept
    <3> QED BY ONLY <3>1, <3>2, Zenon
  <2>3. /\ old.method = calls'[i].method
        /\ old.outcome = IF calls'[i].reply = None THEN None
                         ELSE AnswerTo(calls'[i].method, calls'[i].reply)
    <3>1. /\ Seen(calls[i]).method = calls[i].method
          /\ Seen(calls[i]).outcome = IF calls[i].reply = None THEN None
                                      ELSE AnswerTo(calls[i].method, calls[i].reply)
      BY DEF Seen
    <3> QED BY <1>5, <2>1, <3>1
  <2>4. Seen(calls'[i]) = [method |-> old.method, outcome |-> old.outcome, answered |-> TRUE]
    BY <1>5, <2>3, SeenAnswered
  <2> QED BY ONLY <2>1, <2>2, <2>4, Zenon
<1>7. SeenCalls' = [SeenCalls EXCEPT ![i] = [Seen(calls[i]) EXCEPT !.answered = TRUE]]
  BY <1>2, <1>5, <1>6, SeenChange
<1>8. SeenCalls' = [SeenCalls EXCEPT ![i].answered = TRUE]
  BY <1>3, <1>7
<1>9. Allowed' = Allowed
  BY DEF Allowed
<1> QED BY <1>1, <1>4, <1>8, <1>9 DEF Contract!Return, SeenCalls, Seen, Allowed

LEMMA CallAppStep ==
  ASSUME Inv, NEW h \in HalNames, CallApp(h)
  PROVE  \/ \E o \in Contract!MayReturn(h) : Contract!Return(h, o)
         \/ UNCHANGED Contract!vars
<1> DEFINE i == current[h]
           m == calls[i].method
<1>1. /\ i # 0 /\ calls[i].pc = "hal" /\ UNCHANGED chip
      /\ \/ \E a \in EarlyAnswer(m) : Return(h, a)
         \/ Return(h, AnswerTo(m, IoError))
         \/ Goto(i, "binder") /\ UNCHANGED <<current, answer>>
  BY DEF CallApp
<1>2. i \in DOMAIN calls /\ m \in Methods
  BY <1>1, Facts
<1>3. CASE \E a \in EarlyAnswer(m) : Return(h, a)
  <2>1. PICK a \in EarlyAnswer(m) : Return(h, a)
    BY <1>3
  <2>2. a \in Contract!AtOnce(m)
    BY <1>2, EarlyAtOnce
  <2> QED BY <1>1, <2>1, <2>2, ReturnStep
<1>4. CASE Return(h, AnswerTo(m, IoError))
  <2>1. AnswerTo(m, IoError) \in Contract!AtOnce(m)
    BY FailedAtOnce
  <2> QED BY <1>1, <1>4, <2>1, ReturnStep
<1>5. CASE Goto(i, "binder") /\ UNCHANGED <<current, answer>>
  <2>1. SeenCalls' = SeenCalls
    BY <1>1, <1>2, <1>5, GotoIs, SeenSame
  <2> QED BY <1>1, <1>5, <2>1, Stutters
<1> QED BY <1>1, <1>3, <1>4, <1>5

LEMMA CallAppReturnsStep ==
  ASSUME Inv, NEW h \in HalNames, CallAppReturns(h)
  PROVE  \E o \in Contract!MayReturn(h) : Contract!Return(h, o)
<1> DEFINE i == current[h]
           c == calls[i]
           got == IF c.pc = "gone" THEN IoError ELSE c.got
<1>1. /\ i # 0 /\ c.pc \in {"replied", "gone"} /\ UNCHANGED chip
      /\ Return(h, AnswerTo(c.method, got))
  BY DEF CallAppReturns
<1>2. i \in DOMAIN calls /\ c \in Call /\ c.method \in Methods /\ Outcome(i)
  BY <1>1, Facts DEF Inv
<1>3. got = IoError \/ (c.reply # None /\ got = c.reply)
  BY <1>1, <1>2 DEF Outcome
<1>4. CASE got = IoError
  <2>1. AnswerTo(c.method, got) \in Contract!AtOnce(c.method)
    BY <1>4, FailedAtOnce
  <2> HIDE DEF got
  <2> QED BY <1>1, <2>1, ReturnStep
<1>5. CASE c.reply # None /\ got = c.reply
  <2>1. c.reply \in ChipReplies
    BY <1>2, <1>5 DEF Call
  <2>2. AnswerTo(c.method, c.reply) # None
    BY <1>2, <2>1, NoneAssumption
  <2>3. Seen(c).outcome = AnswerTo(c.method, c.reply)
    BY <1>5 DEF Seen
  <2>4. Return(h, AnswerTo(c.method, c.reply))
    BY <1>1, <1>5
  <2> HIDE DEF got
  <2> QED BY <1>1, <2>2, <2>3, <2>4, ReturnStep
<1> QED BY <1>3, <1>4, <1>5

LEMMA HalDiesStep ==
  ASSUME NEW h \in HalNames, HalDies(h) PROVE Contract!Die(h)
<1>1. /\ current' = [current EXCEPT ![h] = 0] /\ answer' = [answer EXCEPT ![h] = None]
      /\ UNCHANGED <<calls, chip>>
  BY DEF HalDies
<1>2. Allowed' = Allowed /\ SeenCalls' = SeenCalls
  BY <1>1 DEF Allowed, SeenCalls, Seen
<1> QED BY <1>1, <1>2 DEF Contract!Die, Allowed, SeenCalls, Seen

(* The moment of the effect.                                               *)
LEMMA WriteIoctlStep ==
  ASSUME Inv, NEW i \in DOMAIN calls, WriteIoctl(i)
  PROVE  \/ \E o \in Contract!Outcomes(calls[i].method) : Contract!Execute(i, o)
         \/ UNCHANGED Contract!vars
<1> DEFINE m == calls[i].method
           r == Request(m)
<1>1. /\ m \in Methods /\ EarlyAnswer(m) = {} /\ calls[i].reply = None
      /\ calls[i].pc = "writing" /\ UNCHANGED <<current, answer>>
  BY WriteIoctlIs
<1>2. PICK reply \in {None} \cup ChipReplies :
        /\ \/ /\ reply # None /\ replies' = [replies EXCEPT ![Hal(i)] = reply]
              /\ \/ reply \in RepliesTo(r) /\ chip' = ChipAfter(r)
                 \/ reply \in Refusals(r) /\ UNCHANGED chip
           \/ reply = None /\ UNCHANGED <<chip, replies>>
        /\ \/ /\ calls' = [calls EXCEPT ![i].pc = "read", ![i].reply = reply]
              /\ reply # None /\ UNCHANGED appLock
           \/ End(i, reply, IoError)
  BY WriteIoctlIs
<1>3. /\ DOMAIN calls' = DOMAIN calls
      /\ \A j \in DOMAIN calls \ {i} : calls'[j] = calls[j]
      /\ calls'[i].method = m /\ calls'[i].reply = reply /\ calls'[i].pc # "answered"
  <2>1. CASE calls' = [calls EXCEPT ![i].pc = "read", ![i].reply = reply]
    <3> DEFINE e == [calls[i] EXCEPT !.pc = "read", !.reply = reply]
    <3>1. e \in Call /\ e.pc = "read" /\ e.method = m /\ e.reply = reply
      BY Facts DEF Call, Holding
    <3>2. calls' = [calls EXCEPT ![i] = e]
      BY <2>1
    <3> HIDE DEF e
    <3> QED BY <3>1, <3>2, CallExcept
  <2>2. CASE End(i, reply, IoError)
    BY <2>2, EndIs
  <2> QED BY <1>2, <2>1, <2>2
<1>4. CASE reply = None
  <2>1. SeenCalls' = SeenCalls
    BY <1>1, <1>3, <1>4, SeenSame
  <2>2. UNCHANGED chip
    BY <1>2, <1>4
  <2> QED BY <1>1, <2>1, <2>2, Stutters
<1>5. CASE reply # None
  <2>1. PICK o : o = AnswerTo(m, reply)
    OBVIOUS
  <2>2. o \in Contract!Outcomes(m) /\ Contract!Effect(m, o)
    <3>1. CASE reply \in RepliesTo(r) /\ chip' = ChipAfter(r)
      BY ONLY <1>1, <2>1, <3>1, Inv, Acted
    <3>2. CASE reply \in Refusals(r) /\ UNCHANGED chip
      BY ONLY <1>1, <2>1, <3>2, Refused
    <3> QED BY <1>2, <1>5, <3>1, <3>2
  <2>3. SeenCalls[i] = Seen(calls[i])
    BY DEF SeenCalls
  <2>4. /\ Seen(calls[i]).outcome = None /\ ~ Seen(calls[i]).answered
        /\ Seen(calls[i]).method = m
    BY <1>1 DEF Seen
  <2>5. Seen(calls'[i]) = [Seen(calls[i]) EXCEPT !.outcome = o]
    <3>1. PICK old : /\ old = Seen(calls[i])
                     /\ old = [method |-> m, outcome |-> None, answered |-> FALSE]
      BY <1>1, SeenUnanswered
    <3>2. Seen(calls'[i]) = [method |-> m, outcome |-> o, answered |-> FALSE]
      BY <1>3, <1>5, <2>1, SeenUnanswered
    <3> HIDE DEF m
    <3>3. [old EXCEPT !.outcome = o] = [method |-> m, outcome |-> o, answered |-> FALSE]
      <4>1. /\ old.method = m /\ old.outcome = None /\ old.answered = FALSE
            /\ old = [method |-> old.method, outcome |-> old.outcome, answered |-> old.answered]
        BY <3>1
      <4>2. [old EXCEPT !.outcome = o]
              = [method |-> old.method, outcome |-> o, answered |-> old.answered]
        BY ONLY <4>1, OutcomeExcept
      <4> QED BY ONLY <4>1, <4>2, Zenon
    <3> QED BY <3>1, <3>2, <3>3
  <2>6. SeenCalls' = [SeenCalls EXCEPT ![i] = [Seen(calls[i]) EXCEPT !.outcome = o]]
    BY <1>3, <2>5, SeenChange
  <2>7. SeenCalls' = [SeenCalls EXCEPT ![i].outcome = o]
    BY <2>3, <2>6
  <2>8. Contract!Execute(i, o)
    BY <1>1, <2>2, <2>3, <2>4, <2>7 DEF Contract!Execute, SeenCalls, Seen
  <2> HIDE DEF m
  <2>9. \E x \in Contract!Outcomes(m) : Contract!Execute(i, x)
    BY ONLY <2>2, <2>8
  <2> QED BY ONLY <2>9, Zenon DEF m
<1> QED BY <1>4, <1>5

(* What threads and buffers do between is nothing to the contract.         *)
LEMMA InnerSteps ==
  ASSUME Inv, NEW i \in DOMAIN calls,
         LockApp(i) \/ WriteDatagram(i) \/ ReadDatagram(i) \/ ReadIoctl(i) \/ CopyIn(i)
  PROVE  UNCHANGED Contract!vars
<1> DEFINE c == calls[i]
<1>1. /\ UNCHANGED <<chip, current, answer>>
      /\ c.pc # "answered"
      /\ \/ Goto(i, "write") \/ Goto(i, "writing") \/ Goto(i, "reading") \/ Goto(i, "copy")
         \/ End(i, c.reply, IoError)
         \/ c.pc = "copy" /\ End(i, c.reply, inBuf)
  BY DEF LockApp, WriteDatagram, ReadDatagram, ReadIoctl, CopyIn, halVars
<1>2. SeenCalls' = SeenCalls
  <2>1. CASE Goto(i, "write") \/ Goto(i, "writing") \/ Goto(i, "reading") \/ Goto(i, "copy")
    <3>1. PICK pc \in Holding : Goto(i, pc) /\ pc # "answered"
      BY <2>1 DEF Holding
    <3> QED BY <1>1, <3>1, GotoIs, SeenSame
  <2>2. CASE End(i, c.reply, IoError) \/ (c.pc = "copy" /\ End(i, c.reply, inBuf))
    <3>1. c.reply \in {None} \cup ChipReplies
      BY Facts DEF Call
    <3>2. c.pc = "copy" => inBuf = c.reply
      BY DEF Inv, Alone
    <3>3. PICK got \in {None, IoError} \cup ChipReplies : End(i, c.reply, got)
      BY <2>2, <3>1, <3>2
    <3> QED BY <1>1, <3>1, <3>3, EndIs, SeenSame
  <2> QED BY <1>1, <2>1, <2>2
<1> QED BY <1>1, <1>2, Stutters

LEMMA CitadeldDiesStep == ASSUME Inv, CitadeldDies PROVE UNCHANGED Contract!vars
<1> DEFINE left(i) == IF calls[i].pc \in InCitadeld
                      THEN [calls[i] EXCEPT !.pc = "gone"] ELSE calls[i]
<1>1. /\ calls' = [i \in DOMAIN calls |-> left(i)]
      /\ UNCHANGED <<current, answer, chip>>
  BY DEF CitadeldDies, halVars
<1>2. ASSUME NEW i \in DOMAIN calls PROVE Seen(left(i)) = Seen(calls[i])
  <2>1. CASE calls[i].pc \in InCitadeld
    <3>1. /\ left(i).pc # "answered" /\ calls[i].pc # "answered"
          /\ left(i).method = calls[i].method /\ left(i).reply = calls[i].reply
      BY <2>1, Facts DEF Call, InCitadeld
    <3> HIDE DEF left
    <3> QED BY <3>1, SeenUnanswered
  <2> QED BY <2>1
<1> HIDE DEF left
<1>3. SeenCalls' = [i \in DOMAIN calls |-> Seen(left(i))]
  BY <1>1 DEF SeenCalls, Seen
<1>4. SeenCalls' = SeenCalls
  BY <1>2, <1>3 DEF SeenCalls
<1> QED BY <1>1, <1>4, Stutters

LEMMA NextStep == Inv /\ [Next]_vars => [Contract!Next]_(Contract!vars)
<1> SUFFICES ASSUME Inv, [Next]_vars PROVE Contract!Next \/ UNCHANGED Contract!vars
  OBVIOUS
<1>1. CASE \E m \in Methods : Invoke(m)
  BY <1>1, InvokeStep DEF Contract!Next
<1>2. ASSUME NEW h \in HalNames, HalSteps(h) \/ HalDies(h) \/ HalStarts(h)
      PROVE Contract!Next \/ UNCHANGED Contract!vars
  <2>1. h \in Contract!HalNames
    BY DEF HalNames, Contract!HalNames
  <2>2. CASE CallApp(h)
    BY <2>1, <2>2, CallAppStep DEF Contract!Next
  <2>3. CASE CallAppReturns(h)
    BY <2>1, <2>3, CallAppReturnsStep DEF Contract!Next
  <2>4. CASE HalDies(h)
    BY <2>1, <2>4, HalDiesStep DEF Contract!Next
  <2>5. CASE HalStarts(h)
    <3>1. UNCHANGED <<chip, current, answer, calls>>
      BY <2>5 DEF HalStarts
    <3>2. SeenCalls' = SeenCalls
      BY <3>1 DEF SeenCalls, Seen
    <3> QED BY <3>1, <3>2, Stutters
  <2> QED BY <1>2, <2>2, <2>3, <2>4, <2>5 DEF HalSteps
<1>3. ASSUME NEW i \in DOMAIN calls, CitadeldSteps(i)
      PROVE Contract!Next \/ UNCHANGED Contract!vars
  <2>1. CASE WriteIoctl(i)
    <3>1. i \in DOMAIN SeenCalls /\ SeenCalls[i].method = calls[i].method
      BY DEF SeenCalls, Seen
    <3>2. CASE \E o \in Contract!Outcomes(calls[i].method) : Contract!Execute(i, o)
      BY <3>1, <3>2 DEF Contract!Next, SeenCalls, Seen
    <3> QED BY <2>1, <3>2, WriteIoctlStep
  <2> QED BY <1>3, <2>1, InnerSteps DEF CitadeldSteps
<1>4. CASE CitadeldDies
  BY <1>4, CitadeldDiesStep
<1>5. CASE CitadeldStarts \/ UNCHANGED vars
  <2>1. UNCHANGED <<chip, current, answer, calls>>
    BY <1>5 DEF CitadeldStarts, vars, halVars
  <2>2. SeenCalls' = SeenCalls
    BY <2>1 DEF SeenCalls, Seen
  <2> QED BY <2>1, <2>2, Stutters
<1> QED BY <1>1, <1>2, <1>3, <1>4, <1>5 DEF Next

(* The HALs implement the contract: the mutexes keep a call's request and  *)
(* reply its own on the way through citadeld's shared buffers, whoever     *)
(* dies (Weaver.cpp, OemLock.cpp, CitadeldProxyClient.cpp, citadel.c).     *)
THEOREM HalsImplementContract == Spec => ImplementsContract
<1>1. Spec => []Inv
  BY InitInv, NextInv, PTL DEF Spec
<1>2. Spec => Contract!Init
  BY InitRefines, PTL DEF Spec
<1>3. Spec => [][Contract!Next]_(Contract!vars)
  BY <1>1, NextStep, PTL DEF Spec
<1> QED BY <1>2, <1>3, PTL DEF ImplementsContract, Contract!Spec
====
