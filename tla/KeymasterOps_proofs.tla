------------------------ MODULE KeymasterOps_proofs ------------------------
(***************************************************************************)
(* Theorems about KeymasterOps, for every number of handles, operations,   *)
(* bytes and faults, and for a chip that reports what it likes.            *)
(***************************************************************************)
EXTENDS KeymasterOps, SequenceTheorems, TLAPS

(* append() takes no more than it is given, and never more than fits.      *)
LEMMA AppendCountBound ==
  ASSUME NEW n \in 0 .. MaxChunkSize, NEW m \in Nat
  PROVE  /\ AppendCount(n, m) \in 0 .. m
         /\ n + AppendCount(n, m) <= MaxChunkSize
BY BufferAssumption DEF AppendCount, Lesser

(* peek() offers a number of bytes the buffer has.                         *)
LEMMA PeekCountBound ==
  ASSUME NEW alg \in Algorithm, NEW n \in Nat
  PROVE  PeekCount(alg, n) \in 0 .. n
<1>1. BlockSize(alg) \in Nat
  BY BufferAssumption DEF BlockSize
<1>2. CASE n <= BlockSize(alg)
  BY <1>2 DEF PeekCount
<1>3. CASE n > BlockSize(alg) /\ BlockSize(alg) = 0
  BY <1>1, <1>3 DEF PeekCount, Retain
<1>4. CASE n > BlockSize(alg) /\ BlockSize(alg) > 0
  <2> DEFINE b == BlockSize(alg)
  <2>1. b \in Nat /\ b > 0 /\ n > b
    BY <1>1, <1>4
  <2>2. PeekCount(alg, n) = n - ((n % b) + b)
    BY <2>1 DEF PeekCount, Retain
  <2> HIDE DEF b
  <2>3. n % b \in 0 .. b - 1
    BY <2>1
  <2>4. (n % b) + b <= n
    <3>1. n = b * (n \div b) + (n % b) /\ n \div b \in Nat
      BY <2>1
    <3>2. n \div b >= 1
      BY <2>1, <3>1, <2>3
    <3>3. b * (n \div b) >= b
      BY <2>1, <3>1, <3>2
    <3> QED BY <2>1, <2>3, <3>1, <3>3
  <2> QED BY <2>1, <2>2, <2>3, <2>4
<1> QED BY <1>1, <1>2, <1>3, <1>4

(* What append() leaves in a buffer that respects its capacity.            *)
LEMMA AppendedSeq ==
  ASSUME NEW T, NEW b \in Seq(T), NEW s \in Seq(T), Len(b) <= MaxChunkSize
  PROVE  /\ Appended(b, s) \in Seq(T)
         /\ Len(Appended(b, s)) = Len(b) + AppendCount(Len(b), Len(s))
         /\ Len(Appended(b, s)) <= MaxChunkSize
<1>1. Len(b) \in 0 .. MaxChunkSize /\ Len(s) \in Nat
  BY BufferAssumption, LenProperties
<1>2. AppendCount(Len(b), Len(s)) \in 0 .. Len(s)
  BY <1>1, AppendCountBound
<1>3. Len(b) + AppendCount(Len(b), Len(s)) <= MaxChunkSize
  BY <1>1, AppendCountBound
<1> DEFINE front == SubSeq(s, 1, AppendCount(Len(b), Len(s)))
<1>4. front \in Seq(T) /\ Len(front) = AppendCount(Len(b), Len(s))
  BY <1>1, <1>2, SubSeqProperties
<1>5. (b \o front) \in Seq(T) /\ Len(b \o front) = Len(b) + Len(front)
  BY <1>4, ConcatProperties
<1> QED BY <1>3, <1>4, <1>5 DEF Appended

(* advance() only shortens a buffer.                                       *)
LEMMA AdvancedSeq ==
  ASSUME NEW T, NEW b \in Seq(T), NEW n \in 0 .. Len(b)
  PROVE  Advanced(b, n) \in Seq(T) /\ Len(Advanced(b, n)) = Len(b) - n
<1>1. Len(b) \in Nat
  BY LenProperties
<1> QED BY <1>1, SubSeqProperties DEF Advanced
-----------------------------------------------------------------------------
(* A function on 1 .. n is a sequence of length n.                         *)
LEMMA FunctionIsSeq ==
  ASSUME NEW T, NEW n \in Nat, NEW f \in [1 .. n -> T]
  PROVE  f \in Seq(T) /\ Len(f) = n /\ DOMAIN f = 1 .. n
BY SeqDef, LenProperties

(* Bytes of the stream of an operation are bytes.                          *)
LEMMA ChunkType ==
  ASSUME NEW op \in 1 .. MaxOperations, NEW from \in Nat, NEW n \in Nat,
         from + n <= MaxStream
  PROVE  Chunk(op, from, n) \in Seq(Byte) /\ Len(Chunk(op, from, n)) = n
<1>1. Chunk(op, from, n) \in [1 .. n -> Byte]
  BY KeymasterAssumption DEF Chunk, Byte
<1> QED BY <1>1, FunctionIsSeq
-----------------------------------------------------------------------------
(* The inductive invariant behind type correctness: the length of every    *)
(* buffer is needed to know that what append() takes is not negative.      *)
Inv == TypeOK /\ CallInv /\ BufferBounded

LEMMA InitInv == Init => Inv
<1> SUFFICES ASSUME Init PROVE Inv
  OBVIOUS
<1> USE KeymasterAssumption DEF Init
<1>1. Idle \in Call
  BY EmptySeq DEF Idle, Call
<1>2. << >> \in Seq(Session) /\ Len(<< >>) = 0 /\ DOMAIN << >> = {}
  BY EmptySeq
<1>3. TypeOK
  BY <1>1, <1>2 DEF TypeOK
<1>4. CallInv
  BY <1>2 DEF CallInv, Idle
<1>5. BufferBounded
  BY <1>2 DEF BufferBounded
<1> QED BY <1>3, <1>4, <1>5 DEF Inv

(* What a step has to show of each variable when the call returns.         *)
LEMMA ReturnInv ==
  ASSUME Inv, call' = Idle, faults' \in 0 .. MaxFaults,
         DOMAIN bufferMap' \subseteq Handles,
         bufferMap' \in [DOMAIN bufferMap' -> Operation], BufferBounded',
         DOMAIN device' \subseteq Handles,
         device' \in [DOMAIN device' -> 1 .. MaxOperations],
         session' \in Seq(Session), Len(session') <= MaxOperations,
         \A h \in DOMAIN device' : device'[h] \in DOMAIN session'
  PROVE  Inv'
<1>1. Idle \in Call
  BY KeymasterAssumption, EmptySeq DEF Idle, Call
<1>2. TypeOK'
  BY <1>1 DEF TypeOK
<1>3. DOMAIN session' = 1 .. Len(session') /\ Len(session') \in Nat
  BY LenProperties
<1>4. CallInv'
  BY <1>3 DEF CallInv, Idle
<1> QED BY <1>2, <1>4 DEF Inv

(* Changing the record of one operation keeps the sequence well formed.    *)
LEMMA SessionExcept ==
  ASSUME TypeOK, NEW i \in DOMAIN session, NEW e \in Session
  PROVE  /\ [session EXCEPT ![i] = e] \in Seq(Session)
         /\ Len([session EXCEPT ![i] = e]) = Len(session)
         /\ DOMAIN [session EXCEPT ![i] = e] = DOMAIN session
BY LenProperties, ExceptSeq DEF TypeOK

(* A call that fails only makes its operation unclean.                     *)
LEMMA CallFailsType ==
  ASSUME Inv, CallFails, call.op \in DOMAIN session
  PROVE  /\ session' \in Seq(Session)
         /\ Len(session') = Len(session)
         /\ DOMAIN session' = DOMAIN session
<1>1. session[call.op] \in Session
  BY LenProperties, ElementOfSeq DEF Inv, TypeOK
<1>2. [session[call.op] EXCEPT !.clean = FALSE] \in Session
  BY <1>1 DEF Session
<1> QED BY <1>2, SessionExcept DEF Inv, CallFails

LEMMA FaultType == ASSUME Inv, Fault PROVE faults' \in 0 .. MaxFaults
BY KeymasterAssumption DEF Inv, TypeOK, Fault

(* The typing facts every step starts from.                                *)
LEMMA Facts ==
  ASSUME Inv
  PROVE  /\ DOMAIN session = 1 .. Len(session) /\ Len(session) \in 0 .. MaxOperations
         /\ \A i \in DOMAIN session : session[i] \in Session
         /\ call \in Call
         /\ bufferMap \in [DOMAIN bufferMap -> Operation]
         /\ DOMAIN bufferMap \subseteq Handles
         /\ device \in [DOMAIN device -> 1 .. MaxOperations]
         /\ DOMAIN device \subseteq Handles
         /\ \A h \in DOMAIN device : device[h] \in DOMAIN session
         /\ call.op \in DOMAIN session => handle \in Handles
         /\ faults \in 0 .. MaxFaults
         /\ BufferBounded
<1>1. DOMAIN session = 1 .. Len(session) /\ Len(session) \in Nat
  BY LenProperties DEF Inv, TypeOK
<1>2. \A i \in DOMAIN session : session[i] \in Session
  BY <1>1, ElementOfSeq DEF Inv, TypeOK
<1>3. call.op \in DOMAIN session => handle \in Handles
  BY <1>2 DEF handle, Session
<1> QED BY <1>1, <1>2, <1>3, KeymasterAssumption DEF Inv, TypeOK, CallInv

(* Erasing a handle from either map.                                       *)
LEMMA WithoutBuffer ==
  ASSUME Inv, NEW h
  PROVE  /\ DOMAIN Without(bufferMap, h) \subseteq Handles
         /\ Without(bufferMap, h) \in [DOMAIN Without(bufferMap, h) -> Operation]
         /\ \A g \in DOMAIN Without(bufferMap, h) :
              Len(Without(bufferMap, h)[g].buffer) <= MaxChunkSize
<1>1. bufferMap \in [DOMAIN bufferMap -> Operation]
  BY Facts
<1>2. /\ DOMAIN Without(bufferMap, h) = DOMAIN bufferMap \ {h}
      /\ Without(bufferMap, h) \in [DOMAIN bufferMap \ {h} -> Operation]
      /\ \A g \in DOMAIN bufferMap \ {h} : Without(bufferMap, h)[g] = bufferMap[g]
  BY <1>1 DEF Without, Restrict
<1> QED BY <1>2, Facts DEF BufferBounded

LEMMA WithoutDevice ==
  ASSUME Inv, NEW h
  PROVE  /\ DOMAIN Without(device, h) \subseteq Handles
         /\ Without(device, h) \in [DOMAIN Without(device, h) -> 1 .. MaxOperations]
         /\ \A g \in DOMAIN Without(device, h) :
              Without(device, h)[g] \in DOMAIN session
<1>1. device \in [DOMAIN device -> 1 .. MaxOperations]
  BY Facts
<1>2. /\ DOMAIN Without(device, h) = DOMAIN device \ {h}
      /\ Without(device, h) \in [DOMAIN device \ {h} -> 1 .. MaxOperations]
      /\ \A g \in DOMAIN device \ {h} : Without(device, h)[g] = device[g]
  BY <1>1 DEF Without, Restrict
<1> QED BY <1>2, Facts

(* The chip starting an operation.                                         *)
LEMMA ChipStartsType ==
  ASSUME Inv, Len(session) < MaxOperations,
         NEW h \in Handles, NEW alg \in KeyAlgorithms, NEW lazy \in BOOLEAN,
         NEW status \in {"open", "closed"}, ChipStarts(h, alg, lazy, status)
  PROVE  /\ DOMAIN device' \subseteq Handles
         /\ device' \in [DOMAIN device' -> 1 .. MaxOperations]
         /\ session' \in Seq(Session) /\ Len(session') = Len(session) + 1
         /\ session'[Len(session) + 1].accepted = 0
         /\ DOMAIN session' = 1 .. Len(session) + 1
         /\ \A g \in DOMAIN device' : device'[g] \in DOMAIN session'
<1> DEFINE new == Len(session) + 1
           rec == [handle |-> h, algorithm |-> alg, lazy |-> lazy,
                   status |-> status, accepted |-> 0, absorbed |-> << >>,
                   clean |-> TRUE]
           old == [i \in DOMAIN session |->
                     [session[i] EXCEPT !.clean = @ /\ session[i].handle # h]]
<1>1. new \in 1 .. MaxOperations
  BY Facts, KeymasterAssumption
<1>2. rec \in Session
  BY KeymasterAssumption, EmptySeq DEF Session
<1>3. old \in [1 .. Len(session) -> Session]
  <2>1. ASSUME NEW i \in DOMAIN session
        PROVE  [session[i] EXCEPT !.clean = @ /\ session[i].handle # h] \in Session
    <3>1. session[i] \in Session
      BY Facts
    <3>2. (session[i].clean /\ session[i].handle # h) \in BOOLEAN
      OBVIOUS
    <3> QED BY <3>1, <3>2 DEF Session
  <2> QED BY <2>1, Facts
<1>4. old \in Seq(Session) /\ Len(old) = Len(session)
  BY <1>3, Facts, FunctionIsSeq
<1>5. session' = Append(old, rec)
  BY DEF ChipStarts
<1> HIDE DEF old, rec
<1>6. /\ session' \in Seq(Session) /\ Len(session') = new
      /\ session'[new] = rec
  BY <1>2, <1>4, <1>5, AppendProperties
<1>7. DOMAIN session' = 1 .. new
  BY <1>6, LenProperties
<1>8. device' = With(device, h, new)
  BY DEF ChipStarts
<1>9. /\ DOMAIN device' = DOMAIN device \cup {h}
      /\ device' \in [DOMAIN device' -> 1 .. MaxOperations]
      /\ \A g \in DOMAIN device : device'[g] = device[g]
      /\ h \notin DOMAIN device => device'[h] = new
  BY <1>1, <1>8, Facts DEF With
<1>10. h \notin DOMAIN device
  BY DEF ChipStarts
<1>11. \A g \in DOMAIN device' : device'[g] \in DOMAIN session'
  BY <1>1, <1>7, <1>9, <1>10, Facts
<1>12. session'[new].accepted = 0
  BY <1>6 DEF rec
<1> QED BY <1>6, <1>7, <1>9, <1>11, <1>12, Facts

(* begin()                                                                 *)
LEMMA BeginInv == ASSUME Inv, Begin PROVE Inv'
<1>1. call' \in Call /\ call'.op = 0 /\ call'.pc = "BeginOperation"
      /\ call'.done = 0 /\ call'.taken = 0 /\ call'.size = 0 /\ call'.api = "begin"
  <2>1. Idle \in Call /\ Idle.op = 0 /\ Idle.done = 0 /\ Idle.taken = 0 /\ Idle.size = 0
    BY KeymasterAssumption, EmptySeq DEF Idle, Call
  <2>2. call' = [Idle EXCEPT !.pc = "BeginOperation", !.api = "begin"]
    BY DEF Begin
  <2> QED BY <2>1, <2>2 DEF Call
<1>2. TypeOK'
  BY <1>1 DEF Inv, TypeOK, Begin
<1>3. CallInv'
  BY <1>1, Facts DEF CallInv, Begin
<1> QED BY <1>2, <1>3 DEF Inv, BufferBounded, Begin

LEMMA BeginOperationFailsInv == ASSUME Inv, BeginOperationFails PROVE Inv'
<1>0. Len(session) < MaxOperations
  BY DEF Inv, CallInv, BeginOperationFails
<1>1. faults' \in 0 .. MaxFaults
  BY Facts, FaultType DEF BeginOperationFails
<1>2. CASE UNCHANGED <<device, session>>
  BY <1>1, <1>2, Facts, ReturnInv DEF BeginOperationFails, BufferBounded, Inv, TypeOK
<1>3. CASE \E h \in Handles, alg \in KeyAlgorithms, lazy \in BOOLEAN :
             ChipStarts(h, alg, lazy, "closed")
  <2>1. PICK h \in Handles, alg \in KeyAlgorithms, lazy \in BOOLEAN :
             ChipStarts(h, alg, lazy, "closed")
    BY <1>3
  <2>2. /\ DOMAIN device' \subseteq Handles
        /\ device' \in [DOMAIN device' -> 1 .. MaxOperations]
        /\ session' \in Seq(Session) /\ Len(session') = Len(session) + 1
        /\ \A g \in DOMAIN device' : device'[g] \in DOMAIN session'
    BY <1>0, <2>1, ChipStartsType
  <2> QED BY <1>0, <1>1, <2>2, Facts, ReturnInv, KeymasterAssumption
          DEF BeginOperationFails, BufferBounded
<1> QED BY <1>2, <1>3 DEF BeginOperationFails

LEMMA BeginOperationOkInv ==
  ASSUME Inv,
         NEW h \in Handles, NEW alg \in KeyAlgorithms, NEW lazy \in BOOLEAN,
         BeginOperationOk(h, alg, lazy)
  PROVE  Inv'
<1>0. Len(session) < MaxOperations
  BY DEF Inv, CallInv, BeginOperationOk
<1> DEFINE op == [algorithm |-> alg, buffer |-> << >>, owner |-> Len(session) + 1]
<1>1. op \in Operation /\ Len(op.buffer) = 0
  <2>1. alg \in Algorithm /\ Len(session) + 1 \in 1 .. MaxOperations
    BY <1>0, Facts, KeymasterAssumption
  <2>2. << >> \in Seq(Byte) /\ Len(<< >>) = 0
    BY EmptySeq
  <2> QED BY <2>1, <2>2 DEF Operation
<1>2. /\ DOMAIN device' \subseteq Handles
      /\ device' \in [DOMAIN device' -> 1 .. MaxOperations]
      /\ session' \in Seq(Session) /\ Len(session') = Len(session) + 1
      /\ \A g \in DOMAIN device' : device'[g] \in DOMAIN session'
  BY <1>0, ChipStartsType DEF BeginOperationOk
<1>3. bufferMap' = With(bufferMap, h, op) /\ h \notin DOMAIN bufferMap
  BY DEF BeginOperationOk, Duplicate
<1> HIDE DEF op
<1>4. /\ DOMAIN bufferMap' = DOMAIN bufferMap \cup {h}
      /\ bufferMap' \in [DOMAIN bufferMap' -> Operation]
      /\ \A g \in DOMAIN bufferMap : bufferMap'[g] = bufferMap[g]
      /\ bufferMap'[h] = op
  BY <1>1, <1>3, Facts DEF With
<1>5. BufferBounded'
  BY <1>1, <1>4, Facts, BufferAssumption DEF BufferBounded
<1>6. DOMAIN bufferMap' \subseteq Handles /\ Len(session') <= MaxOperations
  BY <1>0, <1>2, <1>4, Facts, KeymasterAssumption
<1>7. call' = Idle /\ faults' \in 0 .. MaxFaults
  BY Facts DEF BeginOperationOk
<1> QED BY <1>2, <1>4, <1>5, <1>6, <1>7, ReturnInv

LEMMA BeginOperationGivesUpInv ==
  ASSUME Inv,
         NEW h \in Handles, NEW alg \in KeyAlgorithms, NEW lazy \in BOOLEAN,
         BeginOperationGivesUp(h, alg, lazy)
  PROVE  Inv'
<1>0. Len(session) < MaxOperations
  BY DEF Inv, CallInv, BeginOperationGivesUp
<1>1. /\ DOMAIN device' \subseteq Handles
      /\ device' \in [DOMAIN device' -> 1 .. MaxOperations]
      /\ session' \in Seq(Session) /\ Len(session') = Len(session) + 1
      /\ session'[Len(session) + 1].accepted = 0
      /\ DOMAIN session' = 1 .. Len(session) + 1
      /\ \A g \in DOMAIN device' : device'[g] \in DOMAIN session'
  BY <1>0, ChipStartsType DEF BeginOperationGivesUp
<1>2. faults' \in 0 .. MaxFaults
  BY Facts, FaultType DEF BeginOperationGivesUp
<1>3. bufferMap' = bufferMap \/ bufferMap' = Without(bufferMap, h)
  BY DEF BeginOperationGivesUp
<1>4. /\ DOMAIN bufferMap' \subseteq Handles
      /\ bufferMap' \in [DOMAIN bufferMap' -> Operation]
      /\ BufferBounded'
  BY <1>3, WithoutBuffer, Facts DEF BufferBounded
<1>5. /\ call' \in Call /\ call'.op = Len(session) + 1
      /\ call'.pc = "AbortOperation" /\ call'.size = call.size
      /\ call'.done = call.done /\ call'.taken = call.taken /\ call'.api = call.api
  <2>1. call' = [call EXCEPT !.pc = "AbortOperation", !.op = Len(session) + 1]
    BY DEF BeginOperationGivesUp
  <2>2. call \in Call /\ Len(session) + 1 \in 0 .. MaxOperations
    BY <1>0, Facts, KeymasterAssumption
  <2> QED BY <2>1, <2>2 DEF Call
<1>6. TypeOK'
  BY <1>0, <1>1, <1>2, <1>4, <1>5, Facts, KeymasterAssumption DEF TypeOK
<1>7. call.size <= MaxStream
  BY Facts, KeymasterAssumption DEF Call
<1>8. CallInv'
  BY <1>1, <1>5, <1>7, Facts DEF CallInv, Inv, Call
<1> QED BY <1>4, <1>6, <1>8 DEF Inv

(* The arrival of update(), finish() or abort().                           *)
LEMMA ArrivesInv ==
  ASSUME Inv, NEW op \in 1 .. MaxOperations, NEW size \in 0 .. MaxStream,
         NEW api \in {"update", "finish", "abort"},
         NEW pc \in {"update", "finish", "AbortOperation"},
         Arrives(api, pc, op, size)
  PROVE  Inv'
<1>1. session' \in [1 .. Len(session) -> Session]
  <2>1. ASSUME NEW i \in DOMAIN session
        PROVE  (IF i # op /\ session[i].handle = session[op].handle
                THEN [session[i] EXCEPT !.clean = FALSE] ELSE session[i]) \in Session
    BY ZenonT(60), Facts DEF Session
  <2> QED BY <2>1, Facts DEF Arrives
<1>2. session' \in Seq(Session) /\ Len(session') = Len(session)
      /\ DOMAIN session' = DOMAIN session
  BY <1>1, Facts, FunctionIsSeq
<1>3. op \in DOMAIN session /\ session'[op] = session[op]
  BY Facts DEF Arrives
<1>4. /\ call' \in Call /\ call'.op = op /\ call'.pc = pc /\ call'.size = size
      /\ call'.done = 0 /\ call'.taken = 0 /\ call'.api = api
  <2>1. call' = [Idle EXCEPT !.pc = pc, !.api = api, !.op = op, !.size = size]
    BY DEF Arrives
  <2>2. Idle \in Call /\ Idle.done = 0 /\ Idle.taken = 0
    BY KeymasterAssumption, EmptySeq DEF Idle, Call
  <2>3. op \in 0 .. MaxOperations
    BY KeymasterAssumption
  <2> QED BY <2>1, <2>2, <2>3 DEF Call
<1>5. session[op].accepted + size <= MaxStream
  BY DEF Arrives
<1>6. TypeOK'
  BY <1>2, <1>4, Facts DEF TypeOK, Arrives, Inv
<1>7. CallInv'
  BY <1>2, <1>3, <1>4, <1>5, Facts DEF CallInv, Arrives
<1>8. BufferBounded'
  BY Facts DEF Arrives, BufferBounded
<1> QED BY <1>6, <1>7, <1>8 DEF Inv

LEMMA UpdateAbsentInv == ASSUME Inv, UpdateAbsent PROVE Inv'
<1>1. call.op \in DOMAIN session
  BY DEF Inv, CallInv, UpdateAbsent
<1>2. /\ session' \in Seq(Session) /\ Len(session') = Len(session)
      /\ DOMAIN session' = DOMAIN session
  BY <1>1, CallFailsType DEF UpdateAbsent
<1> QED BY <1>2, Facts, ReturnInv DEF UpdateAbsent, CallFails, BufferBounded

(* The buffer after append() is a buffer, and within its bound.            *)
LEMMA AppendsBuffer ==
  ASSUME Inv, UpdateAppends
  PROVE  /\ DOMAIN bufferMap' = DOMAIN bufferMap
         /\ bufferMap' \in [DOMAIN bufferMap -> Operation]
         /\ BufferBounded'
         /\ AppendCount(Len(bufferMap[handle].buffer), Len(Input))
              \in 0 .. call.size - call.done
<1> DEFINE op == call.op
           b  == bufferMap[handle].buffer
<1>1. op \in DOMAIN session /\ handle \in DOMAIN bufferMap
  BY DEF Inv, CallInv, UpdateAppends
<1>2. session[op].accepted + call.size <= MaxStream /\ call.done <= call.size
  <2>1. call.done + call.taken <= call.size
    BY DEF Inv, CallInv
  <2> QED BY <1>1, <2>1, Facts DEF Inv, CallInv, Call
<1>3. session[op].accepted \in Nat /\ call.done \in Nat /\ call.size \in Nat /\ op \in 1 .. MaxOperations
  BY <1>1, Facts, KeymasterAssumption DEF Session, Call
<1>4. Input \in Seq(Byte) /\ Len(Input) = call.size - call.done
  <2> DEFINE from == session[op].accepted + call.done
             n == call.size - call.done
  <2>1. from \in Nat /\ n \in Nat /\ from + n <= MaxStream
    BY <1>2, <1>3, KeymasterAssumption
  <2>2. Input = Chunk(op, from, n)
    BY DEF Input
  <2> HIDE DEF from, n, op
  <2>3. Chunk(op, from, n) \in Seq(Byte) /\ Len(Chunk(op, from, n)) = n
    BY <1>3, <2>1, ChunkType
  <2> QED BY <2>2, <2>3 DEF n
<1>5. b \in Seq(Byte) /\ Len(b) <= MaxChunkSize /\ Len(b) \in Nat
  <2>1. bufferMap[handle] \in Operation
    BY <1>1, Facts
  <2>2. b \in Seq(Byte)
    BY <2>1 DEF Operation
  <2> QED BY <1>1, <2>2, Facts, LenProperties DEF BufferBounded
<1>6. Appended(b, Input) \in Seq(Byte) /\ Len(Appended(b, Input)) <= MaxChunkSize
  BY <1>4, <1>5, AppendedSeq
<1>7. bufferMap' = [bufferMap EXCEPT ![handle] =
                      [bufferMap[handle] EXCEPT !.buffer = Appended(b, Input)]]
  BY <1>1, Facts DEF UpdateAppends
<1>8. [bufferMap[handle] EXCEPT !.buffer = Appended(b, Input)] \in Operation
  BY <1>1, <1>6, Facts DEF Operation
<1>9. Len([bufferMap[handle] EXCEPT !.buffer = Appended(b, Input)].buffer) <= MaxChunkSize
  BY <1>1, <1>6, Facts DEF Operation
<1>10. AppendCount(Len(b), Len(Input)) \in 0 .. call.size - call.done
  <2>1. Len(b) \in 0 .. MaxChunkSize /\ Len(Input) \in Nat
    BY <1>2, <1>3, <1>4, <1>5, BufferAssumption
  <2> HIDE DEF b
  <2>2. AppendCount(Len(b), Len(Input)) \in 0 .. Len(Input)
    BY <2>1, AppendCountBound
  <2> QED BY <1>4, <2>2
<1> HIDE DEF op, b
<1>11. DOMAIN bufferMap' = DOMAIN bufferMap /\ bufferMap' \in [DOMAIN bufferMap -> Operation]
  BY <1>1, <1>7, <1>8, Facts
<1>12. BufferBounded'
  BY <1>1, <1>7, <1>9, Facts DEF BufferBounded
<1> QED BY <1>10, <1>11, <1>12 DEF b

LEMMA UpdateAppendsInv == ASSUME Inv, UpdateAppends PROVE Inv'
<1> DEFINE n == AppendCount(Len(bufferMap[handle].buffer), Len(Input))
<1>1. /\ DOMAIN bufferMap' = DOMAIN bufferMap
      /\ bufferMap' \in [DOMAIN bufferMap -> Operation]
      /\ BufferBounded'
      /\ n \in 0 .. call.size - call.done
  BY AppendsBuffer
<1>2. call.op \in DOMAIN session /\ handle \in DOMAIN bufferMap
  BY DEF Inv, CallInv, UpdateAppends
<1>3. CASE Fault /\ CallFails
  <2>1. /\ session' \in Seq(Session) /\ Len(session') = Len(session)
        /\ DOMAIN session' = DOMAIN session
    BY <1>2, <1>3, CallFailsType
  <2>2. faults' \in 0 .. MaxFaults
    BY <1>3, FaultType
  <2> QED BY <1>1, <1>3, <2>1, <2>2, Facts, ReturnInv DEF UpdateAppends, CallFails
<1>4. CASE call' = [call EXCEPT !.pc = "UpdateOperation", !.taken = n]
           /\ UNCHANGED <<session, faults>>
  <2> HIDE DEF n
  <2>1. call \in Call /\ call.taken = 0 /\ call.done + call.taken <= call.size
    BY Facts DEF Inv, CallInv, UpdateAppends
  <2>2. n \in 0 .. MaxStream /\ call.done + n <= call.size
    BY <1>1, <2>1, KeymasterAssumption DEF Call
  <2>3. /\ call' \in Call /\ call'.op = call.op /\ call'.pc = "UpdateOperation"
        /\ call'.size = call.size /\ call'.done = call.done /\ call'.taken = n
        /\ call'.api = call.api
    BY <1>4, <2>1, <2>2 DEF Call
  <2>4. UNCHANGED <<device, session, faults>>
    BY <1>4 DEF UpdateAppends
  <2>5. handle' = handle
    BY <2>3, <2>4 DEF handle
  <2>6. TypeOK'
    BY <1>1, <2>3, <2>4, Facts DEF TypeOK, Inv
  <2>7. CallInv'
    BY <1>1, <1>2, <2>2, <2>3, <2>4, <2>5 DEF CallInv, Inv
  <2> QED BY <1>1, <2>6, <2>7 DEF Inv
<1> QED BY <1>3, <1>4 DEF UpdateAppends

(* Recording what the chip absorbed keeps the records well formed and      *)
(* touches nothing else of them.                                           *)
LEMMA ChipAbsorbsType ==
  ASSUME Inv, NEW bytes \in Seq(Byte), handle \in DOMAIN device
  PROVE  /\ ChipAbsorbs(bytes) \in Seq(Session)
         /\ Len(ChipAbsorbs(bytes)) = Len(session)
         /\ DOMAIN ChipAbsorbs(bytes) = DOMAIN session
         /\ \A i \in DOMAIN session :
              /\ ChipAbsorbs(bytes)[i] \in Session
              /\ ChipAbsorbs(bytes)[i].accepted = session[i].accepted
              /\ ChipAbsorbs(bytes)[i].handle = session[i].handle
<1> DEFINE d == device[handle]
           s == session[d]
           e == [s EXCEPT !.absorbed = IF s.clean THEN s.absorbed \o bytes ELSE s.absorbed]
<1>1. d \in DOMAIN session /\ s \in Session
  BY Facts
<1>2. s.absorbed \o bytes \in Seq(Byte)
  BY <1>1, ConcatProperties DEF Session
<1>3. e \in Session /\ e.accepted = s.accepted /\ e.handle = s.handle
  BY <1>1, <1>2 DEF Session
<1>4. ChipAbsorbs(bytes) = [session EXCEPT ![d] = e]
  BY <1>1, Facts DEF ChipAbsorbs
<1> HIDE DEF d, e
<1>5. /\ ChipAbsorbs(bytes) \in Seq(Session)
      /\ Len(ChipAbsorbs(bytes)) = Len(session)
      /\ DOMAIN ChipAbsorbs(bytes) = DOMAIN session
  BY <1>1, <1>3, <1>4, SessionExcept DEF Inv
<1>6. \A i \in DOMAIN session : ChipAbsorbs(bytes)[i] = IF i = d THEN e ELSE session[i]
  BY <1>1, <1>4
<1> QED BY <1>1, <1>3, <1>5, <1>6, Facts DEF d

(* The reply to an update: what is consumed is never more than what was    *)
(* given, and advance() never lengthens a buffer.                          *)
LEMMA UpdateOperationOkInv ==
  ASSUME Inv, NEW n \in 0 .. MaxChunkSize + 1, UpdateOperationOk(n)
  PROVE  Inv'
<1> DEFINE b        == bufferMap[handle].buffer
           consumed == Consumed(n, Len(b) - n)
           bytes    == SubSeq(Blocks, 1, Lesser(n, Len(Blocks)))
           absorbed == ChipAbsorbs(bytes)
<1>1. call.op \in DOMAIN session /\ handle \in DOMAIN bufferMap /\ handle \in DOMAIN device
  BY DEF Inv, CallInv, UpdateOperationOk
<1>2. bufferMap[handle] \in Operation
  BY <1>1, Facts
<1>3. b \in Seq(Byte) /\ Len(b) \in Nat /\ Len(b) <= MaxChunkSize
  <2>1. b \in Seq(Byte)
    BY <1>2 DEF Operation
  <2> QED BY <1>1, <2>1, Facts, LenProperties DEF BufferBounded
<1>4. Blocks \in Seq(Byte) /\ Len(Blocks) \in Nat
  <2> DEFINE c == PeekCount(bufferMap[handle].algorithm, Len(b))
  <2>1. c \in 0 .. Len(b)
    BY <1>2, <1>3, PeekCountBound DEF Operation
  <2>2. Blocks = SubSeq(b, 1, c)
    BY DEF Blocks, Peeked
  <2> HIDE DEF c, b
  <2>3. SubSeq(b, 1, c) \in Seq(Byte)
    BY <1>3, <2>1, SubSeqProperties
  <2> QED BY <2>2, <2>3, LenProperties
<1>5. bytes \in Seq(Byte)
  <2>1. Lesser(n, Len(Blocks)) \in 0 .. Len(Blocks)
    BY <1>4, BufferAssumption DEF Lesser
  <2> QED BY <1>4, <2>1, SubSeqProperties
<1>6. /\ absorbed \in Seq(Session) /\ Len(absorbed) = Len(session)
      /\ DOMAIN absorbed = DOMAIN session
      /\ \A i \in DOMAIN session :
           /\ absorbed[i] \in Session
           /\ absorbed[i].accepted = session[i].accepted
           /\ absorbed[i].handle = session[i].handle
  <2> HIDE DEF bytes
  <2> QED BY <1>1, <1>5, ChipAbsorbsType
<1>7. consumed \in 0 .. call.size - call.done
  BY Facts DEF Consumed, Inv, CallInv, Call
<1>8. call.done + call.taken <= call.size /\ call \in Call
  BY Facts DEF Inv, CallInv
<1>9. session[call.op].accepted + call.size <= MaxStream /\ session[call.op] \in Session
  BY <1>1, Facts DEF Inv, CallInv
<1>10. UNCHANGED <<device, faults>>
  BY DEF UpdateOperationOk
<1>11. CASE AdvanceFails(b, n)
  <2>1. /\ call' = Idle /\ UNCHANGED bufferMap
        /\ session' = [absorbed EXCEPT ![call.op].clean = FALSE]
    BY <1>11 DEF UpdateOperationOk
  <2> HIDE DEF absorbed, b
  <2>2. [absorbed[call.op] EXCEPT !.clean = FALSE] \in Session
    BY <1>1, <1>6 DEF Session
  <2>3. /\ session' \in Seq(Session) /\ Len(session') = Len(session)
        /\ DOMAIN session' = DOMAIN session
    BY <1>1, <1>6, <2>1, <2>2, ExceptSeq, LenProperties
  <2> QED BY <1>10, <2>1, <2>3, Facts, ReturnInv DEF BufferBounded
<1>12. CASE ~ AdvanceFails(b, n)
  <2>0. n \in 0 .. Len(b)
    BY <1>3, <1>12, BufferAssumption DEF AdvanceFails
  <2>1. Advanced(b, n) \in Seq(Byte) /\ Len(Advanced(b, n)) = Len(b) - n
    <3> HIDE DEF b
    <3> QED BY <1>3, <2>0, AdvancedSeq
  <2>2. bufferMap' = [bufferMap EXCEPT ![handle] =
                        [bufferMap[handle] EXCEPT !.buffer = Advanced(b, n)]]
    BY <1>1, <1>12, Facts DEF UpdateOperationOk
  <2>3. [bufferMap[handle] EXCEPT !.buffer = Advanced(b, n)] \in Operation
        /\ Len([bufferMap[handle] EXCEPT !.buffer = Advanced(b, n)].buffer) <= MaxChunkSize
    <3>1. Len(Advanced(b, n)) <= MaxChunkSize
      BY <1>3, <2>0, <2>1, BufferAssumption
    <3> HIDE DEF b
    <3> QED BY <1>2, <2>1, <3>1 DEF Operation
  <2> HIDE DEF b
  <2>4. DOMAIN bufferMap' = DOMAIN bufferMap /\ bufferMap' \in [DOMAIN bufferMap -> Operation]
    BY <1>1, <2>2, <2>3, Facts
  <2>5. BufferBounded'
    BY <1>1, <2>2, <2>3, Facts DEF BufferBounded
  <2>6. CASE call.api = "update"
    <3>1. /\ call' = Idle
          /\ session' = [absorbed EXCEPT ![call.op].accepted = @ + consumed]
      BY <1>12, <2>6 DEF UpdateOperationOk, b
    <3> HIDE DEF absorbed, consumed
    <3>2. absorbed[call.op].accepted + consumed \in 0 .. MaxStream
      <4>1. absorbed[call.op].accepted = session[call.op].accepted
        BY <1>1, <1>6
      <4>2. session[call.op].accepted \in Nat /\ call.size \in Nat /\ call.done \in Nat
        BY <1>8, <1>9, KeymasterAssumption DEF Session, Call
      <4> QED BY <1>7, <1>9, <4>1, <4>2, KeymasterAssumption
    <3>3. [absorbed[call.op] EXCEPT !.accepted = @ + consumed] \in Session
      BY <1>1, <1>6, <3>2 DEF Session
    <3>4. /\ session' \in Seq(Session) /\ Len(session') = Len(session)
          /\ DOMAIN session' = DOMAIN session
      BY <1>1, <1>6, <3>1, <3>3, ExceptSeq, LenProperties
    <3> QED BY <1>10, <2>4, <2>5, <3>1, <3>4, Facts, ReturnInv
  <2>7. CASE call.api # "update"
    <3>1. /\ call' = [call EXCEPT !.pc = "finish", !.taken = 0, !.done = @ + consumed]
          /\ session' = absorbed
      BY <1>12, <2>7 DEF UpdateOperationOk, b
    <3> HIDE DEF absorbed, consumed
    <3>2. call.done + consumed \in 0 .. MaxStream /\ call.done + consumed <= call.size
      BY <1>7, <1>8, KeymasterAssumption DEF Call
    <3>3. /\ call' \in Call /\ call'.op = call.op /\ call'.pc = "finish"
          /\ call'.size = call.size /\ call'.done = call.done + consumed
          /\ call'.taken = 0 /\ call'.api = call.api
      <4>1. call \in Call /\ 0 \in 0 .. MaxStream
        BY <1>8, KeymasterAssumption
      <4>2. call' = [[call EXCEPT !.pc = "finish"] EXCEPT
                        !.taken = 0, !.done = call.done + consumed]
        BY <3>1, <4>1 DEF Call
      <4> QED BY <3>2, <4>1, <4>2 DEF Call
    <3>4. TypeOK'
      BY <1>6, <1>10, <2>4, <3>1, <3>3, Facts DEF TypeOK, Inv
    <3>5. CallInv'
      BY <1>1, <1>6, <1>9, <1>10, <2>7, <3>1, <3>2, <3>3, Facts DEF CallInv
    <3> QED BY <2>5, <3>4, <3>5 DEF Inv
  <2> QED BY <2>6, <2>7
<1> QED BY <1>11, <1>12

LEMMA RefusedInv ==
  ASSUME Inv, NEW pc \in {"UpdateOperation", "FinishOperation"}, Refused(pc)
  PROVE  Inv'
<1>1. call.op \in DOMAIN session
  BY DEF Inv, CallInv, Refused
<1>2. /\ session' \in Seq(Session) /\ Len(session') = Len(session)
      /\ DOMAIN session' = DOMAIN session
  BY <1>1, CallFailsType DEF Refused
<1>3. faults' \in 0 .. MaxFaults
  BY Facts, FaultType DEF Refused
<1>4. device' \in {device, Without(device, handle)}
  BY DEF Refused
<1>5. /\ DOMAIN device' \subseteq Handles
      /\ device' \in [DOMAIN device' -> 1 .. MaxOperations]
      /\ \A h \in DOMAIN device' : device'[h] \in DOMAIN session'
  BY <1>2, <1>4, Facts, WithoutDevice
<1> QED BY <1>2, <1>3, <1>5, Facts, ReturnInv DEF Refused, CallFails, BufferBounded

(* KM_CALLV_ABORT on a transport error.                                    *)
LEMMA LostInv ==
  ASSUME Inv, call.op \in DOMAIN session, Fault,
         session' = [session EXCEPT ![call.op].clean = FALSE],
         call' = [call EXCEPT !.pc = "AbortOperation"],
         device' \in {device, Without(device, handle)}, UNCHANGED bufferMap
  PROVE  Inv'
<1>1. [session[call.op] EXCEPT !.clean = FALSE] \in Session
  BY Facts DEF Session
<1>2. /\ session' \in Seq(Session) /\ Len(session') = Len(session)
      /\ DOMAIN session' = DOMAIN session
  BY <1>1, SessionExcept DEF Inv
<1>3. session'[call.op].accepted = session[call.op].accepted
  BY Facts DEF Session
<1>4. faults' \in 0 .. MaxFaults
  BY FaultType
<1>5. /\ DOMAIN device' \subseteq Handles
      /\ device' \in [DOMAIN device' -> 1 .. MaxOperations]
      /\ \A h \in DOMAIN device' : device'[h] \in DOMAIN session'
  BY <1>2, Facts, WithoutDevice
<1>6. /\ call' \in Call /\ call'.op = call.op /\ call'.pc = "AbortOperation"
      /\ call'.size = call.size /\ call'.done = call.done
      /\ call'.taken = call.taken /\ call'.api = call.api
  BY Facts DEF Call
<1>7. TypeOK'
  BY <1>2, <1>4, <1>5, <1>6, Facts DEF TypeOK, Inv
<1>8. CallInv'
  BY <1>2, <1>3, <1>5, <1>6, Facts DEF CallInv, Inv
<1> QED BY <1>7, <1>8 DEF Inv, BufferBounded

(* The steps of finish().                                                  *)
LEMMA FinishUpdatesInv == ASSUME Inv, FinishUpdates PROVE Inv'
<1>1. call \in Call
  BY Facts
<1>2. /\ call' \in Call /\ call'.op = call.op /\ call'.pc = "update"
      /\ call'.size = call.size /\ call'.done = call.done
      /\ call'.taken = call.taken /\ call'.api = call.api
  BY <1>1 DEF FinishUpdates, Call
<1>3. UNCHANGED <<bufferMap, device, session, faults>>
  BY DEF FinishUpdates
<1>4. TypeOK'
  BY <1>2, <1>3 DEF TypeOK, Inv
<1>5. call.taken = 0
  BY DEF Inv, CallInv, FinishUpdates
<1>6. CallInv'
  BY <1>2, <1>3, <1>5 DEF CallInv, Inv, FinishUpdates
<1> QED BY <1>3, <1>4, <1>6 DEF Inv, BufferBounded

LEMMA FinishAbsentInv == ASSUME Inv, FinishAbsent PROVE Inv'
<1>1. call.op \in DOMAIN session
  BY DEF Inv, CallInv, FinishAbsent
<1>2. /\ session' \in Seq(Session) /\ Len(session') = Len(session)
      /\ DOMAIN session' = DOMAIN session
  BY <1>1, CallFailsType DEF FinishAbsent
<1> QED BY <1>2, Facts, ReturnInv DEF FinishAbsent, CallFails, BufferBounded

LEMMA FinishFinalInv == ASSUME Inv, FinishFinal PROVE Inv'
<1>1. call.op \in DOMAIN session /\ handle \in DOMAIN bufferMap
  BY DEF Inv, CallInv, FinishFinal
<1>2. bufferMap' = Without(bufferMap, handle) /\ UNCHANGED device
  BY DEF FinishFinal
<1>3. /\ DOMAIN bufferMap' \subseteq Handles
      /\ bufferMap' \in [DOMAIN bufferMap' -> Operation]
      /\ BufferBounded'
  BY <1>2, WithoutBuffer DEF BufferBounded
<1>4. CASE Fault /\ CallFails
  <2>1. /\ session' \in Seq(Session) /\ Len(session') = Len(session)
        /\ DOMAIN session' = DOMAIN session
    BY <1>1, <1>4, CallFailsType
  <2>2. faults' \in 0 .. MaxFaults
    BY <1>4, FaultType
  <2> QED BY <1>2, <1>3, <1>4, <2>1, <2>2, Facts, ReturnInv DEF CallFails
<1>5. CASE /\ call' = [call EXCEPT !.pc = "FinishOperation",
                                   !.data = bufferMap[handle].buffer]
           /\ UNCHANGED <<session, faults>>
  <2>1. bufferMap[handle].buffer \in Seq(Byte)
    BY <1>1, Facts DEF Operation
  <2>2. call \in Call
    BY Facts
  <2>3. /\ call' \in Call /\ call'.op = call.op /\ call'.pc = "FinishOperation"
        /\ call'.size = call.size /\ call'.done = call.done
        /\ call'.taken = call.taken /\ call'.api = call.api
    BY <1>5, <2>1, <2>2 DEF Call
  <2>4. TypeOK'
    BY <1>2, <1>3, <1>5, <2>3, Facts DEF TypeOK, Inv
  <2>5. CallInv'
    BY <1>1, <1>2, <1>5, <2>3 DEF CallInv, Inv
  <2> QED BY <1>3, <2>4, <2>5 DEF Inv
<1> QED BY <1>4, <1>5 DEF FinishFinal

LEMMA FinishOperationOkInv == ASSUME Inv, FinishOperationOk PROVE Inv'
<1> DEFINE absorbed == ChipAbsorbs(call.data)
           s == absorbed[call.op]
           e == [s EXCEPT !.status = "finished", !.accepted = @ + call.done]
<1>1. call.op \in DOMAIN session /\ handle \in DOMAIN device
  BY DEF Inv, CallInv, FinishOperationOk
<1>2. call.data \in Seq(Byte) /\ call.done \in Nat /\ call.size \in Nat /\ call.taken \in Nat
  BY Facts, KeymasterAssumption DEF Call
<1>3. /\ absorbed \in Seq(Session) /\ Len(absorbed) = Len(session)
      /\ DOMAIN absorbed = DOMAIN session
      /\ s \in Session /\ s.accepted = session[call.op].accepted
  BY <1>1, <1>2, ChipAbsorbsType
<1>4. session' = [absorbed EXCEPT ![call.op] = e]
  BY <1>1, <1>3 DEF FinishOperationOk, Session
<1> HIDE DEF absorbed
<1>5. s.accepted + call.done \in 0 .. MaxStream
  <2>1. session[call.op].accepted + call.size <= MaxStream /\ call.done + call.taken <= call.size
    BY <1>1 DEF Inv, CallInv
  <2>2. session[call.op].accepted \in Nat
    BY <1>1, Facts, KeymasterAssumption DEF Session
  <2>3. call.done \in Nat /\ call.size \in Nat /\ call.taken \in Nat /\ MaxStream \in Nat
    BY <1>2, KeymasterAssumption
  <2>4. s.accepted = session[call.op].accepted
    BY <1>3
  <2>5. session[call.op].accepted + call.done \in 0 .. MaxStream
    <3> DEFINE a == session[call.op].accepted
    <3>1. a \in Nat /\ a + call.size <= MaxStream /\ call.done + call.taken <= call.size
      BY <2>1, <2>2
    <3> HIDE DEF a
    <3>2. a + call.done \in 0 .. MaxStream
      <4> DEFINE d == call.done z == call.size k == call.taken
      <4>1. d \in Nat /\ z \in Nat /\ k \in Nat /\ a + z <= MaxStream /\ d + k <= z
        BY <3>1, <2>3
      <4> HIDE DEF d, z, k
      <4>2. a + d \in 0 .. MaxStream
        BY ONLY <4>1, <3>1, <2>3
      <4> QED BY <4>2 DEF d
    <3> QED BY <3>2 DEF a
  <2> QED BY ONLY <2>4, <2>5
<1>6. e \in Session
  BY <1>3, <1>5 DEF Session
<1> HIDE DEF e
<1>7. /\ session' \in Seq(Session) /\ Len(session') = Len(session)
      /\ DOMAIN session' = DOMAIN session
  BY <1>1, <1>3, <1>4, <1>6, ExceptSeq, LenProperties
<1>8. call' = Idle /\ device' = Without(device, handle) /\ UNCHANGED <<bufferMap, faults>>
  BY DEF FinishOperationOk
<1>9. /\ DOMAIN device' \subseteq Handles
      /\ device' \in [DOMAIN device' -> 1 .. MaxOperations]
      /\ \A h \in DOMAIN device' : device'[h] \in DOMAIN session'
  BY <1>7, <1>8, WithoutDevice
<1> QED BY <1>7, <1>8, <1>9, Facts, ReturnInv DEF BufferBounded

(* abort()                                                                 *)
LEMMA AbortOperationOkInv == ASSUME Inv, AbortOperationOk PROVE Inv'
<1>1. call.op \in DOMAIN session
  BY DEF Inv, CallInv, AbortOperationOk
<1>2. [session[call.op] EXCEPT !.status = "closed"] \in Session
  BY <1>1, Facts DEF Session
<1>3. /\ session' \in Seq(Session) /\ Len(session') = Len(session)
      /\ DOMAIN session' = DOMAIN session
  BY <1>1, <1>2, SessionExcept DEF AbortOperationOk, Inv, TypeOK
<1>4. call' = Idle /\ device' = Without(device, handle) /\ UNCHANGED <<bufferMap, faults>>
  BY DEF AbortOperationOk
<1>5. /\ DOMAIN device' \subseteq Handles
      /\ device' \in [DOMAIN device' -> 1 .. MaxOperations]
      /\ \A h \in DOMAIN device' : device'[h] \in DOMAIN session'
  BY <1>3, <1>4, WithoutDevice
<1> QED BY <1>3, <1>4, <1>5, Facts, ReturnInv DEF BufferBounded

LEMMA AbortOperationFailsInv == ASSUME Inv, AbortOperationFails PROVE Inv'
<1>1. call.op \in DOMAIN session
  BY DEF Inv, CallInv, AbortOperationFails
<1>2. /\ session' \in Seq(Session) /\ Len(session') = Len(session)
      /\ DOMAIN session' = DOMAIN session
  BY <1>1, CallFailsType DEF AbortOperationFails
<1>3. faults' \in 0 .. MaxFaults
  BY Facts, FaultType DEF AbortOperationFails
<1>4. device' \in {device, Without(device, handle)}
  BY DEF AbortOperationFails
<1>5. /\ DOMAIN device' \subseteq Handles
      /\ device' \in [DOMAIN device' -> 1 .. MaxOperations]
      /\ \A h \in DOMAIN device' : device'[h] \in DOMAIN session'
  BY <1>2, <1>4, Facts, WithoutDevice
<1> QED BY <1>2, <1>3, <1>5, Facts, ReturnInv DEF AbortOperationFails, CallFails, BufferBounded

(* A reset of the chip and a crash of the HAL.                             *)
LEMMA ChipResetsInv == ASSUME Inv, ChipResets PROVE Inv'
<1>1. faults' \in 0 .. MaxFaults
  BY FaultType DEF ChipResets
<1>2. DOMAIN device' = {} /\ device' \in [DOMAIN device' -> 1 .. MaxOperations]
  BY DEF ChipResets
<1>3. TypeOK'
  BY <1>1, <1>2 DEF TypeOK, Inv, ChipResets
<1>4. CallInv'
  BY <1>2 DEF CallInv, Inv, ChipResets, handle
<1> QED BY <1>3, <1>4 DEF Inv, BufferBounded, ChipResets

LEMMA HalCrashesInv == ASSUME Inv, HalCrashes PROVE Inv'
<1>1. faults' \in 0 .. MaxFaults
  BY FaultType DEF HalCrashes
<1>2. DOMAIN bufferMap' = {} /\ bufferMap' \in [DOMAIN bufferMap' -> Operation]
  BY DEF HalCrashes
<1>3. session' \in [1 .. Len(session) -> Session]
  <2>1. ASSUME NEW i \in DOMAIN session
        PROVE  [session[i] EXCEPT !.clean = @ /\ i # call.op] \in Session
    <3>1. session[i] \in Session
      BY Facts
    <3>2. (session[i].clean /\ i # call.op) \in BOOLEAN
      OBVIOUS
    <3> QED BY <3>1, <3>2 DEF Session
  <2> QED BY <2>1, Facts DEF HalCrashes
<1>4. session' \in Seq(Session) /\ Len(session') = Len(session)
      /\ DOMAIN session' = DOMAIN session
  BY <1>3, Facts, FunctionIsSeq
<1>5. call' = Idle /\ UNCHANGED device
  BY DEF HalCrashes
<1> QED BY <1>1, <1>2, <1>4, <1>5, Facts, ReturnInv DEF BufferBounded
-----------------------------------------------------------------------------
LEMMA NextInv == Inv /\ [Next]_vars => Inv'
<1> SUFFICES ASSUME Inv, [Next]_vars PROVE Inv'
  OBVIOUS
<1>1. CASE ClientSteps
  <2>1. CASE Begin
    BY <2>1, BeginInv
  <2>2. ASSUME NEW op \in 1 .. MaxOperations, NEW size \in 0 .. MaxStream,
               Update(op, size)
        PROVE  Inv'
    BY <2>2, ArrivesInv DEF Update
  <2>3. ASSUME NEW op \in 1 .. MaxOperations, NEW size \in 0 .. MaxStream,
               Finish(op, size)
        PROVE  Inv'
    BY <2>3, ArrivesInv DEF Finish
  <2>4. ASSUME NEW op \in 1 .. MaxOperations, Abort(op)
        PROVE  Inv'
    BY <2>4, ArrivesInv, KeymasterAssumption DEF Abort
  <2> QED BY <1>1, <2>1, <2>2, <2>3, <2>4 DEF ClientSteps
<1>2. CASE BeginSteps
  BY <1>2, BeginOperationFailsInv, BeginOperationOkInv, BeginOperationGivesUpInv
     DEF BeginSteps
<1>3. CASE UpdateSteps
  <2>1. CASE UpdateOperationLost
    <3>1. call.op \in DOMAIN session
      BY <2>1 DEF Inv, CallInv, UpdateOperationLost
    <3> QED BY <2>1, <3>1, LostInv DEF UpdateOperationLost
  <2> QED BY <1>3, <2>1, UpdateAbsentInv, UpdateAppendsInv, UpdateOperationOkInv, RefusedInv
          DEF UpdateSteps, UpdateOperationRefused
<1>4. CASE FinishSteps
  <2>1. CASE FinishOperationLost
    <3>1. call.op \in DOMAIN session
      BY <2>1 DEF Inv, CallInv, FinishOperationLost
    <3> QED BY <2>1, <3>1, LostInv DEF FinishOperationLost
  <2> QED BY <1>4, <2>1, FinishUpdatesInv, FinishAbsentInv, FinishFinalInv,
             FinishOperationOkInv, RefusedInv DEF FinishSteps, FinishOperationRefused
<1>5. CASE AbortSteps
  BY <1>5, AbortOperationOkInv, AbortOperationFailsInv DEF AbortSteps
<1>6. CASE ChipResets
  BY <1>6, ChipResetsInv
<1>7. CASE HalCrashes
  BY <1>7, HalCrashesInv
<1>8. CASE UNCHANGED vars
  BY <1>8 DEF vars, Inv, TypeOK, CallInv, BufferBounded, handle
<1> QED BY <1>1, <1>2, <1>3, <1>4, <1>5, <1>6, <1>7, <1>8 DEF Next, HalSteps

(* TypeOK holds of every behaviour: in particular no call reports more     *)
(* bytes consumed than its client had.                                     *)
THEOREM TypeCorrect == Spec => []TypeOK
<1>1. Init => Inv
  BY InitInv
<1>2. Inv /\ [Next]_vars => Inv'
  BY NextInv
<1>3. Inv => TypeOK
  BY DEF Inv
<1> QED BY <1>1, <1>2, <1>3, PTL DEF Spec

(* No buffer of the HAL ever holds more than kMaxChunkSize bytes, whatever *)
(* the clients send, whatever the chip reports and whatever fails.         *)
THEOREM BuffersStayBounded == Spec => []BufferBounded
<1>1. Init => Inv
  BY InitInv
<1>2. Inv /\ [Next]_vars => Inv'
  BY NextInv
<1>3. Inv => BufferBounded
  BY DEF Inv
<1> QED BY <1>1, <1>2, <1>3, PTL DEF Spec
-----------------------------------------------------------------------------
(* All steps but the start of an operation keep what BufferOfItsOwn speaks *)
(* of: no operation becomes open again or changes handle, and the maps     *)
(* only lose entries.                                                      *)
Keeps ==
  /\ DOMAIN session' = DOMAIN session
  /\ \A i \in DOMAIN session :
       /\ session'[i].handle = session[i].handle
       /\ session'[i].status = "open" => session[i].status = "open"
  /\ \A h \in DOMAIN device' : h \in DOMAIN device /\ device'[h] = device[h]
  /\ \A h \in DOMAIN bufferMap' :
       h \in DOMAIN bufferMap /\ bufferMap'[h].owner = bufferMap[h].owner

LEMMA KeepsOwn == ASSUME Inv, BufferOfItsOwn, Keeps PROVE BufferOfItsOwn'
BY DEF Keeps, BufferOfItsOwn

(* Erasing a handle only loses an entry.                                   *)
LEMMA WithoutKeeps ==
  ASSUME NEW f, NEW h, NEW g \in DOMAIN Without(f, h)
  PROVE  g \in DOMAIN f /\ Without(f, h)[g] = f[g]
BY DEF Without, Restrict

(* A failed call, a marked record and an absorbed byte keep the handles    *)
(* and the statuses.                                                       *)
SameShape(s) ==
  /\ DOMAIN s = DOMAIN session
  /\ \A i \in DOMAIN session :
       s[i].handle = session[i].handle /\ s[i].status = session[i].status

LEMMA CallFailsShape ==
  ASSUME Inv, CallFails, call.op \in DOMAIN session
  PROVE  SameShape(session')
BY Facts DEF CallFails, SameShape, Session

LEMMA ChipAbsorbsShape ==
  ASSUME Inv, NEW bytes, handle \in DOMAIN device
  PROVE  SameShape(ChipAbsorbs(bytes))
BY Facts DEF ChipAbsorbs, SameShape, Session

LEMMA ArrivesKeeps ==
  ASSUME Inv, NEW op, NEW size, NEW api, NEW pc, Arrives(api, pc, op, size)
  PROVE  Keeps
BY Facts DEF Arrives, Keeps, Session

LEMMA UpdateStepsKeep == ASSUME Inv, UpdateSteps PROVE Keeps
<1>1. CASE UpdateAbsent
  <2>1. SameShape(session')
    BY <1>1, CallFailsShape DEF UpdateAbsent, Inv, CallInv
  <2> QED BY <1>1, <2>1 DEF UpdateAbsent, Keeps, SameShape
<1>2. CASE UpdateAppends
  <2>1. handle \in DOMAIN bufferMap /\ call.op \in DOMAIN session
    BY <1>2 DEF UpdateAppends, Inv, CallInv
  <2>2. SameShape(session')
    BY <1>2, <2>1, CallFailsShape DEF UpdateAppends, SameShape
  <2>3. bufferMap' = [bufferMap EXCEPT ![handle].buffer = Appended(@, Input)]
    BY <1>2 DEF UpdateAppends
  <2>4. \A h \in DOMAIN bufferMap' :
          h \in DOMAIN bufferMap /\ bufferMap'[h].owner = bufferMap[h].owner
    BY <2>1, <2>3, Facts DEF Operation
  <2>5. UNCHANGED device
    BY <1>2 DEF UpdateAppends
  <2> QED BY <2>2, <2>4, <2>5 DEF Keeps, SameShape
<1>3. ASSUME NEW n \in 0 .. MaxChunkSize + 1, UpdateOperationOk(n)
      PROVE  Keeps
  <2> DEFINE absorbed == ChipAbsorbs(SubSeq(Blocks, 1, Lesser(n, Len(Blocks))))
  <2>1. /\ handle \in DOMAIN bufferMap /\ handle \in DOMAIN device
        /\ call.op \in DOMAIN session
    BY <1>3 DEF UpdateOperationOk, Inv, CallInv
  <2>2. SameShape(absorbed)
    BY <2>1, ChipAbsorbsShape
  <2>3. \/ session' = [absorbed EXCEPT ![call.op].clean = FALSE]
        \/ session' = [absorbed EXCEPT ![call.op].accepted =
                         @ + Consumed(n, Len(bufferMap[handle].buffer) - n)]
        \/ session' = absorbed
    BY <1>3 DEF UpdateOperationOk
  <2>4. \/ bufferMap' = bufferMap
        \/ bufferMap' = [bufferMap EXCEPT ![handle].buffer = Advanced(@, n)]
    BY <1>3 DEF UpdateOperationOk
  <2>5. \A i \in DOMAIN session : absorbed[i] \in Session
    <3> DEFINE c == PeekCount(bufferMap[handle].algorithm, Len(bufferMap[handle].buffer))
               b == bufferMap[handle].buffer
    <3>1. bufferMap[handle] \in Operation
      BY <2>1, Facts
    <3>2. b \in Seq(Byte) /\ Len(b) \in Nat
      BY <3>1, LenProperties DEF Operation
    <3>3. c \in 0 .. Len(b)
      BY <3>1, <3>2, PeekCountBound DEF Operation
    <3>4. Blocks = SubSeq(b, 1, c)
      BY DEF Blocks, Peeked
    <3> HIDE DEF b, c
    <3>5. Blocks \in Seq(Byte) /\ Len(Blocks) \in Nat
      BY <3>2, <3>3, <3>4, SubSeqProperties, LenProperties
    <3>6. Lesser(n, Len(Blocks)) \in 0 .. Len(Blocks)
      BY <3>5, BufferAssumption DEF Lesser
    <3>7. SubSeq(Blocks, 1, Lesser(n, Len(Blocks))) \in Seq(Byte)
      BY <3>5, <3>6, SubSeqProperties
    <3> QED BY <2>1, <3>7, ChipAbsorbsType
  <2> HIDE DEF absorbed
  <2>6. SameShape(session')
    BY ZenonT(60), <2>1, <2>2, <2>3, <2>5 DEF SameShape, Session
  <2>7. \A h \in DOMAIN bufferMap' :
          h \in DOMAIN bufferMap /\ bufferMap'[h].owner = bufferMap[h].owner
    BY ZenonT(60), <2>1, <2>4, Facts DEF Operation
  <2>8. UNCHANGED device
    BY <1>3 DEF UpdateOperationOk
  <2> QED BY <2>6, <2>7, <2>8 DEF Keeps, SameShape
<1>4. CASE UpdateOperationRefused
  <2>1. SameShape(session')
    BY <1>4, CallFailsShape DEF UpdateOperationRefused, Refused, Inv, CallInv
  <2> QED BY <1>4, <2>1, WithoutKeeps DEF UpdateOperationRefused, Refused, Keeps, SameShape
<1>5. CASE UpdateOperationLost
  <2>1. call.op \in DOMAIN session
    BY <1>5 DEF UpdateOperationLost, Inv, CallInv
  <2> QED BY <1>5, <2>1, Facts DEF UpdateOperationLost, Keeps, Session
<1> QED BY <1>1, <1>2, <1>3, <1>4, <1>5 DEF UpdateSteps

LEMMA FinishStepsKeep == ASSUME Inv, FinishSteps PROVE Keeps
<1>0. FinishSteps => call.op \in DOMAIN session
  BY DEF FinishSteps, FinishUpdates, FinishAbsent, FinishFinal, FinishOperationOk,
         FinishOperationRefused, FinishOperationLost, Refused, Inv, CallInv
<1>1. CASE FinishUpdates
  BY <1>1 DEF FinishUpdates, Keeps
<1>2. CASE FinishAbsent
  <2>1. SameShape(session')
    BY <1>0, <1>2, CallFailsShape DEF FinishAbsent, FinishSteps
  <2> QED BY <1>2, <2>1 DEF FinishAbsent, Keeps, SameShape
<1>3. CASE FinishFinal
  <2>1. SameShape(session')
    BY <1>0, <1>3, CallFailsShape DEF FinishFinal, FinishSteps, SameShape
  <2> QED BY <1>3, <2>1, WithoutKeeps DEF FinishFinal, Keeps, SameShape
<1>4. CASE FinishOperationOk
  <2> DEFINE absorbed == ChipAbsorbs(call.data)
  <2>1. call.op \in DOMAIN session /\ handle \in DOMAIN device /\ call.data \in Seq(Byte)
    BY <1>0, <1>4, Facts DEF FinishOperationOk, FinishSteps, Call
  <2>2. SameShape(absorbed) /\ \A i \in DOMAIN session : absorbed[i] \in Session
    BY <2>1, ChipAbsorbsShape, ChipAbsorbsType
  <2>3. /\ session' = [absorbed EXCEPT ![call.op].status = "finished",
                                       ![call.op].accepted = @ + call.done]
        /\ device' = Without(device, handle) /\ UNCHANGED bufferMap
    BY <1>4 DEF FinishOperationOk
  <2> HIDE DEF absorbed
  <2>4. /\ DOMAIN session' = DOMAIN session
        /\ \A i \in DOMAIN session :
             /\ session'[i].handle = session[i].handle
             /\ session'[i].status = "open" => session[i].status = "open"
    BY <2>1, <2>2, <2>3 DEF SameShape, Session
  <2> QED BY <2>3, <2>4, WithoutKeeps DEF Keeps
<1>5. CASE FinishOperationRefused
  <2>1. SameShape(session')
    BY <1>0, <1>5, CallFailsShape DEF FinishOperationRefused, Refused, FinishSteps
  <2> QED BY <1>5, <2>1, WithoutKeeps DEF FinishOperationRefused, Refused, Keeps, SameShape
<1>6. CASE FinishOperationLost
  <2>1. call.op \in DOMAIN session
    BY <1>0, <1>6 DEF FinishSteps
  <2>2. SameShape(session')
    BY <1>6, <2>1, Facts DEF FinishOperationLost, SameShape, Session
  <2> QED BY <1>6, <2>2, WithoutKeeps DEF FinishOperationLost, Keeps, SameShape
<1> QED BY <1>1, <1>2, <1>3, <1>4, <1>5, <1>6 DEF FinishSteps

LEMMA AbortStepsKeep == ASSUME Inv, AbortSteps PROVE Keeps
<1>0. call.op \in DOMAIN session
  BY DEF AbortSteps, AbortOperationOk, AbortOperationFails, Inv, CallInv
<1>1. CASE AbortOperationOk
  <2>1. /\ DOMAIN session' = DOMAIN session
        /\ \A i \in DOMAIN session :
             /\ session'[i].handle = session[i].handle
             /\ session'[i].status = "open" => session[i].status = "open"
    BY <1>0, <1>1, Facts DEF AbortOperationOk, Session
  <2> QED BY <1>1, <2>1, WithoutKeeps DEF AbortOperationOk, Keeps
<1>2. CASE AbortOperationFails
  <2>1. SameShape(session')
    BY <1>0, <1>2, CallFailsShape DEF AbortOperationFails
  <2> QED BY <1>2, <2>1, WithoutKeeps DEF AbortOperationFails, Keeps, SameShape
<1> QED BY <1>1, <1>2 DEF AbortSteps

(* The start of an operation: its handle was not live, so it is nobody     *)
(* else's; and the buffer opened for it, if any, is its own.               *)
LEMMA ChipStartsOwn ==
  ASSUME Inv, BufferOfItsOwn, NEW h \in Handles, NEW alg, NEW lazy,
         NEW status, ChipStarts(h, alg, lazy, status),
         \A g \in DOMAIN bufferMap' \ {h} :
           g \in DOMAIN bufferMap /\ bufferMap'[g].owner = bufferMap[g].owner,
         status = "open" => (h \in DOMAIN bufferMap' => bufferMap'[h].owner = Len(session) + 1)
  PROVE  BufferOfItsOwn'
<1> DEFINE new == Len(session) + 1
<1>1. h \notin DOMAIN device /\ device' = With(device, h, new)
  BY DEF ChipStarts
<1>2. /\ DOMAIN device' = DOMAIN device \cup {h} /\ device'[h] = new
      /\ \A g \in DOMAIN device : device'[g] = device[g]
  BY <1>1 DEF With
<1>3. /\ DOMAIN session' = 1 .. new
      /\ session'[new].handle = h /\ session'[new].status = status
      /\ \A i \in DOMAIN session :
           session'[i].handle = session[i].handle /\ session'[i].status = session[i].status
  <2> DEFINE old == [i \in DOMAIN session |->
                       [session[i] EXCEPT !.clean = @ /\ session[i].handle # h]]
             rec == [handle |-> h, algorithm |-> alg, lazy |-> lazy,
                     status |-> status, accepted |-> 0, absorbed |-> << >>,
                     clean |-> TRUE]
             T == {old[i] : i \in DOMAIN session} \cup {rec}
  <2>1. old \in [1 .. Len(session) -> T] /\ Len(session) \in Nat
    BY Facts, KeymasterAssumption
  <2>2. old \in Seq(T) /\ Len(old) = Len(session) /\ DOMAIN old = 1 .. Len(session)
    BY <2>1, FunctionIsSeq
  <2>3. session' = Append(old, rec) /\ rec \in T
    BY DEF ChipStarts
  <2>4. \A i \in DOMAIN session :
          old[i].handle = session[i].handle /\ old[i].status = session[i].status
    BY Facts DEF Session
  <2>5. rec.handle = h /\ rec.status = status
    OBVIOUS
  <2> HIDE DEF old, rec, T
  <2>6. /\ session' \in Seq(T) /\ Len(session') = new /\ session'[new] = rec
        /\ \A i \in 1 .. Len(old) : session'[i] = old[i]
    BY <2>2, <2>3, AppendProperties
  <2>7. DOMAIN session' = 1 .. new
    BY <2>6, LenProperties
  <2> QED BY <2>2, <2>4, <2>5, <2>6, <2>7, Facts
<1>4. SUFFICES ASSUME NEW i \in DOMAIN session', session'[i].status = "open",
                      session'[i].handle \in DOMAIN device',
                      device'[session'[i].handle] = i,
                      session'[i].handle \in DOMAIN bufferMap'
               PROVE  bufferMap'[session'[i].handle].owner = i
  BY DEF BufferOfItsOwn
<1>5. CASE i = new
  BY <1>3, <1>4, <1>5
<1>6. CASE i # new
  <2>1. i \in DOMAIN session /\ session'[i].handle # h
    BY <1>2, <1>3, <1>4, <1>6, Facts
  <2> QED BY <1>2, <1>3, <1>4, <2>1 DEF BufferOfItsOwn
<1> QED BY <1>5, <1>6

LEMMA BeginStepsOwn == ASSUME Inv, BufferOfItsOwn, BeginSteps PROVE BufferOfItsOwn'
<1>1. CASE BeginOperationFails
  <2>1. CASE UNCHANGED <<device, session>>
    BY <1>1, <2>1, KeepsOwn DEF BeginOperationFails, Keeps
  <2>2. ASSUME NEW h \in Handles, NEW alg \in KeyAlgorithms, NEW lazy \in BOOLEAN,
               ChipStarts(h, alg, lazy, "closed")
        PROVE  BufferOfItsOwn'
    BY <1>1, <2>2, ChipStartsOwn DEF BeginOperationFails
  <2> QED BY <1>1, <2>1, <2>2 DEF BeginOperationFails
<1>2. ASSUME NEW h \in Handles, NEW alg \in KeyAlgorithms, NEW lazy \in BOOLEAN,
             BeginOperationOk(h, alg, lazy)
      PROVE  BufferOfItsOwn'
  <2>1. bufferMap' = With(bufferMap, h,
                       [algorithm |-> alg, buffer |-> << >>, owner |-> Len(session) + 1])
        /\ h \notin DOMAIN bufferMap
    BY <1>2 DEF BeginOperationOk, Duplicate
  <2>2. /\ bufferMap'[h].owner = Len(session) + 1
        /\ \A g \in DOMAIN bufferMap' \ {h} :
             g \in DOMAIN bufferMap /\ bufferMap'[g].owner = bufferMap[g].owner
    BY <2>1 DEF With
  <2> QED BY <1>2, <2>2, ChipStartsOwn DEF BeginOperationOk
<1>3. ASSUME NEW h \in Handles, NEW alg \in KeyAlgorithms, NEW lazy \in BOOLEAN,
             BeginOperationGivesUp(h, alg, lazy)
      PROVE  BufferOfItsOwn'
  BY <1>3, WithoutKeeps, ChipStartsOwn DEF BeginOperationGivesUp
<1> QED BY <1>1, <1>2, <1>3 DEF BeginSteps

(* The buffer an operation finds under its handle is always the one opened *)
(* for it, however often handles are reused after aborts, resets of the    *)
(* chip, crashes of the HAL and lost replies.                              *)
THEOREM BuffersStayWithTheirOperation == Spec => []BufferOfItsOwn
<1>1. Init => Inv /\ BufferOfItsOwn
  <2>1. Init => DOMAIN session = {}
    BY DEF Init
  <2> QED BY <2>1, InitInv DEF BufferOfItsOwn
<1>2. Inv /\ BufferOfItsOwn /\ [Next]_vars => (Inv /\ BufferOfItsOwn)'
  <2> SUFFICES ASSUME Inv, BufferOfItsOwn, [Next]_vars PROVE BufferOfItsOwn'
    BY NextInv
  <2>1. CASE ClientSteps
    BY <2>1, ArrivesKeeps, KeepsOwn DEF ClientSteps, Begin, Update, Finish, Abort, Keeps
  <2>2. CASE HalSteps
    BY <2>2, BeginStepsOwn, UpdateStepsKeep, FinishStepsKeep, AbortStepsKeep, KeepsOwn
       DEF HalSteps
  <2>3. CASE ChipResets
    BY <2>3, KeepsOwn DEF ChipResets, Keeps
  <2>4. CASE HalCrashes
    <3>1. Keeps
      BY <2>4, Facts DEF HalCrashes, Keeps, Session
    <3> QED BY <3>1, KeepsOwn
  <2>5. CASE UNCHANGED vars
    BY <2>5 DEF vars, BufferOfItsOwn
  <2> QED BY <2>1, <2>2, <2>3, <2>4, <2>5 DEF Next
<1> QED BY <1>1, <1>2, PTL DEF Spec
=============================================================================
