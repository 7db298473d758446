----------------------- MODULE KeymasterStream_proofs -----------------------
(***************************************************************************)
(* StreamIntact and LastBlockForFinish of KeymasterOps, and that calls get *)
(* on with their work, for every number of handles, operations, bytes and  *)
(* faults, every size of buffer and blocks, and a chip that reports what   *)
(* it consumed; then, for a chip that may report anything, that bytes stay *)
(* with their operation and in order.                                      *)
(***************************************************************************)
EXTENDS KeymasterOps_proofs

(* Consecutive bytes of a stream make up a longer piece of it.             *)
LEMMA ChunkConcat ==
  ASSUME NEW op \in 1 .. MaxOperations, NEW n \in Nat, NEW m \in Nat, n + m <= MaxStream
  PROVE  Chunk(op, 0, n) \o Chunk(op, n, m) = Chunk(op, 0, n + m)
<1> DEFINE s == Chunk(op, 0, n)
           t == Chunk(op, n, m)
           u == Chunk(op, 0, n + m)
           w == s \o t
<1>1. /\ s \in Seq(Byte) /\ Len(s) = n
      /\ t \in Seq(Byte) /\ Len(t) = m
      /\ u \in Seq(Byte) /\ Len(u) = n + m
  BY ChunkType, KeymasterAssumption
<1>2. /\ \A i \in 1 .. n : s[i] = u[i]
      /\ \A i \in 1 .. m : t[i] = u[n + i]
  BY DEF Chunk
<1> HIDE DEF s, t, u
<1>3. /\ w \in Seq(Byte) /\ Len(w) = n + m
      /\ \A i \in 1 .. n + m : w[i] = IF i <= n THEN s[i] ELSE t[i - n]
  BY <1>1, ConcatProperties
<1> HIDE DEF w
<1>4. \A i \in 1 .. n + m : w[i] = u[i]
  <2> TAKE i \in 1 .. n + m
  <2>1. CASE i <= n
    BY <1>2, <1>3, <2>1
  <2>2. CASE i > n
    <3> DEFINE j == i - n
    <3>1. j \in 1 .. m /\ n + j = i
      BY <2>2
    <3>2. w[i] = t[j]
      BY <1>3, <2>2
    <3>3. t[j] = u[n + j]
      BY <1>2, <3>1
    <3> QED BY <3>1, <3>2, <3>3
  <2> QED BY <2>1, <2>2
<1> QED BY <1>1, <1>3, <1>4, SeqEqual DEF s, t, u, w

(* The first bytes of a piece of a stream.                                 *)
LEMMA ChunkFront ==
  ASSUME NEW op \in 1 .. MaxOperations, NEW from \in Nat, NEW n \in Nat,
         NEW k \in 0 .. n, from + n <= MaxStream
  PROVE  SubSeq(Chunk(op, from, n), 1, k) = Chunk(op, from, k)
<1> DEFINE s == Chunk(op, from, n)
           t == Chunk(op, from, k)
<1>1. /\ s \in Seq(Byte) /\ Len(s) = n
      /\ t \in Seq(Byte) /\ Len(t) = k
  BY ChunkType, KeymasterAssumption
<1>2. \A i \in 1 .. k : s[i] = t[i]
  BY DEF Chunk
<1>3. \A i \in 1 .. k : s[i] \in Byte
  BY <1>1, ElementOfSeq
<1> HIDE DEF s, t
<1>4. /\ SubSeq(s, 1, k) \in Seq(Byte) /\ Len(SubSeq(s, 1, k)) = k
      /\ \A i \in 1 .. k : SubSeq(s, 1, k)[i] = s[i]
  BY <1>3, SubSeqProperties
<1> QED BY <1>1, <1>2, <1>4, SeqEqual DEF s, t

LEMMA ChunkEmpty == ASSUME NEW op, NEW from PROVE Chunk(op, from, 0) = << >>
BY DEF Chunk

(* Moving the front of what is held to what was absorbed changes nothing.  *)
LEMMA MoveFront ==
  ASSUME NEW T, NEW s \in Seq(T), NEW b \in Seq(T), NEW c \in 0 .. Len(b)
  PROVE  (s \o SubSeq(b, 1, c)) \o SubSeq(b, c + 1, Len(b)) = s \o b
<1>1. Len(b) \in Nat /\ \A i \in 1 .. Len(b) : b[i] \in T
  BY LenProperties, ElementOfSeq
<1>2. SubSeq(b, 1, c) \in Seq(T) /\ SubSeq(b, c + 1, Len(b)) \in Seq(T)
  BY <1>1, SubSeqProperties
<1>3. SubSeq(b, 1, c) \o SubSeq(b, c + 1, Len(b)) = SubSeq(b, 1, Len(b))
  <2>1. 1 \in 1 .. Len(b) + 1 /\ c \in 1 - 1 .. Len(b) /\ Len(b) \in c .. Len(b)
    BY <1>1
  <2> QED BY ONLY <2>1, ConcatAdjacentSubSeq, b \in Seq(T)
<1>4. SubSeq(b, 1, Len(b)) = b
  BY SubSeqFull
<1>5. PICK front \in Seq(T), back \in Seq(T) :
        front = SubSeq(b, 1, c) /\ back = SubSeq(b, c + 1, Len(b))
  BY <1>2
<1>6. (s \o front) \o back = s \o (front \o back)
  BY ONLY ConcatAssociative, s \in Seq(T), front \in Seq(T), back \in Seq(T)
<1>7. front \o back = b
  BY ONLY <1>3, <1>4, <1>5
<1>8. (s \o front) \o back = s \o b
  BY ONLY <1>6, <1>7
<1> QED BY ONLY <1>5, <1>8, Zenon
-----------------------------------------------------------------------------
(* What the chip is owed of h bytes handed over.                           *)
Due(lazy, h) == IF lazy THEN Lesser(MaxChunkSize, h) ELSE h

(* append(), seen from the stream: of operation op h bytes have been handed *)
(* over, of which the buffer holds b, and r more are offered.              *)
Offered(op, absorbed, b, lazy, h, r) ==
  /\ op \in 1 .. MaxOperations /\ absorbed \in Seq(Byte) /\ b \in Seq(Byte)
  /\ Len(b) <= MaxChunkSize /\ lazy \in BOOLEAN /\ (lazy => absorbed = << >>)
  /\ h \in Nat /\ r \in Nat /\ h + r <= MaxStream
  /\ absorbed \o b = Chunk(op, 0, Due(lazy, h))

LEMMA AppendMakes ==
  ASSUME NEW op, NEW absorbed, NEW b, NEW lazy, NEW h, NEW r,
         Offered(op, absorbed, b, lazy, h, r)
  PROVE  absorbed \o Appended(b, Chunk(op, h, r))
           = Chunk(op, 0, Due(lazy, h + AppendCount(Len(b), r)))
<1>0. /\ op \in 1 .. MaxOperations /\ absorbed \in Seq(Byte) /\ b \in Seq(Byte)
      /\ Len(b) <= MaxChunkSize /\ lazy \in BOOLEAN /\ (lazy => absorbed = << >>)
      /\ h \in Nat /\ r \in Nat /\ h + r <= MaxStream
      /\ absorbed \o b = Chunk(op, 0, Due(lazy, h))
  BY DEF Offered
<1> USE <1>0
<1> DEFINE l == Len(b)
           n == AppendCount(l, r)
           more == Chunk(op, h, n)
           joined == absorbed \o b
<1> USE DEF Due
<1>1. l \in 0 .. MaxChunkSize /\ l \in Nat
  BY LenProperties, BufferAssumption
<1>2. n \in 0 .. r /\ n \in Nat /\ l + n <= MaxChunkSize
  <2> HIDE DEF l
  <2>1. AppendCount(l, r) \in 0 .. r /\ l + AppendCount(l, r) <= MaxChunkSize
    BY <1>1, AppendCountBound
  <2> HIDE DEF n
  <2>2. n \in 0 .. r => n \in Nat
    OBVIOUS
  <2> QED BY <2>1, <2>2 DEF n
<1>4. h + n <= MaxStream
  <2> HIDE DEF n
  <2> QED BY <1>2, KeymasterAssumption
<1>5. more \in Seq(Byte)
  <2> HIDE DEF n
  <2> QED BY <1>2, <1>4, ChunkType
<1>6. absorbed \o Appended(b, Chunk(op, h, r)) = joined \o more
  <2>1. Len(Chunk(op, h, r)) = r
    BY ChunkType
  <2>2. SubSeq(Chunk(op, h, r), 1, n) = more
    <3> HIDE DEF n
    <3> QED BY <1>2, ChunkFront
  <2>3. Appended(b, Chunk(op, h, r)) = b \o more
    BY <2>1, <2>2 DEF Appended
  <2> HIDE DEF more
  <2>4. absorbed \o (b \o more) = joined \o more
    BY ONLY <1>5, ConcatAssociative, absorbed \in Seq(Byte), b \in Seq(Byte)
  <2> QED BY <2>3, <2>4, Zenon
<1>7. Chunk(op, 0, h) \o more = Chunk(op, 0, h + n)
  <2> HIDE DEF n
  <2> QED BY <1>2, <1>4, ChunkConcat
<1>8. CASE ~ lazy
  <2>1. joined = Chunk(op, 0, h)
    BY <1>8
  <2>2. joined \o more = Chunk(op, 0, h + n)
    BY <1>7, <2>1
  <2> HIDE DEF joined, more
  <2> QED BY <1>6, <1>8, <2>2
<1>9. CASE lazy
  <2>1. joined = b /\ l = Len(joined)
    BY <1>9, ConcatEmptySeq
  <2>2. CASE h <= MaxChunkSize
    <3>1. Lesser(MaxChunkSize, h) = h
      BY <2>2, BufferAssumption DEF Lesser
    <3>2. joined = Chunk(op, 0, h)
      BY <1>9, <3>1
    <3>3. l = h
      BY <2>1, <3>2, ChunkType, KeymasterAssumption
    <3>4. Lesser(MaxChunkSize, h + n) = h + n
      <4> HIDE DEF n
      <4> QED BY <1>2, <3>3, BufferAssumption DEF Lesser
    <3>5. joined \o more = Chunk(op, 0, h + n)
      BY <1>7, <3>2
    <3> HIDE DEF joined, more
    <3> QED BY <1>6, <1>9, <3>4, <3>5
  <2>3. CASE h > MaxChunkSize
    <3>1. Lesser(MaxChunkSize, h) = MaxChunkSize
      BY <2>3, BufferAssumption DEF Lesser
    <3>2. joined = Chunk(op, 0, MaxChunkSize)
      BY <1>9, <3>1
    <3>3. l = MaxChunkSize
      BY <2>1, <2>3, <3>2, ChunkType, KeymasterAssumption, BufferAssumption
    <3>4. n = 0
      <4> HIDE DEF n, l
      <4> QED BY <1>2, <3>3, BufferAssumption
    <3>5. more = << >>
      <4> HIDE DEF n
      <4> QED BY <3>4, ChunkEmpty
    <3>6. joined \o more = joined
      BY <2>1, <3>5, ConcatEmptySeq
    <3>7. Lesser(MaxChunkSize, h + n) = MaxChunkSize
      <4> HIDE DEF n
      <4> QED BY <2>3, <3>4, BufferAssumption DEF Lesser
    <3> HIDE DEF joined, more
    <3> QED BY <1>6, <1>9, <3>2, <3>6, <3>7
  <2> QED BY <2>2, <2>3, BufferAssumption
<1> QED BY <1>8, <1>9
-----------------------------------------------------------------------------
(* Multiples of the block size add up.                                     *)
LEMMA ModSum ==
  ASSUME NEW b \in Nat \ {0}, NEW m \in Nat, NEW n \in Nat, m % b = 0, n % b = 0
  PROVE  (m + n) % b = 0
<1>0. \A k \in Nat : k = b * (k \div b) + (k % b) /\ k \div b \in Nat
  BY ONLY b \in Nat \ {0}
<1> DEFINE p == m \div b
           q == n \div b
<1>1. p \in Nat /\ m = b * p
  BY ONLY <1>0, m \in Nat, m % b = 0
<1>2. q \in Nat /\ n = b * q
  BY ONLY <1>0, n \in Nat, n % b = 0
<1> HIDE DEF p, q
<1>3. m + n = b * (p + q)
  BY <1>1, <1>2
<1>4. (b * (p + q)) % b = 0
  <2> DEFINE k == p + q
  <2>1. k \in Nat
    BY <1>1, <1>2
  <2> HIDE DEF k
  <2>2. (b * k) % b = 0
    BY ONLY <2>1, b \in Nat \ {0}
  <2> QED BY <2>2 DEF k
<1> QED BY <1>3, <1>4

(* peek() offers whole blocks of a block cipher, and when it offers any it *)
(* leaves at least one.                                                    *)
LEMMA PeekWholeBlocks ==
  ASSUME NEW alg \in Algorithm, NEW n \in Nat, BlockSize(alg) > 0
  PROVE  /\ PeekCount(alg, n) % BlockSize(alg) = 0
         /\ PeekCount(alg, n) > 0 => n - PeekCount(alg, n) >= BlockSize(alg)
<1> DEFINE b == BlockSize(alg)
<1>1. b \in Nat \ {0}
  BY BufferAssumption DEF BlockSize
<1>2. CASE n <= b
  BY <1>1, <1>2 DEF PeekCount
<1>3. CASE n > b
  <2>1. PeekCount(alg, n) = n - ((n % b) + b)
    BY <1>1, <1>3 DEF PeekCount, Retain
  <2> HIDE DEF b
  <2>2. n = b * (n \div b) + (n % b) /\ n \div b \in Nat /\ n % b \in 0 .. b - 1
    BY <1>1
  <2>3. n - ((n % b) + b) = b * ((n \div b) - 1)
    BY <1>1, <2>2
  <2>4. n \div b >= 1
    BY <1>1, <1>3, <2>2
  <2>5. (b * ((n \div b) - 1)) % b = 0
    <3> DEFINE k == (n \div b) - 1
    <3>1. k \in Nat
      BY <2>2, <2>4
    <3> HIDE DEF k
    <3>2. (b * k) % b = 0
      BY <1>1, <3>1
    <3> QED BY <3>2 DEF k
  <2>6. n - (n - ((n % b) + b)) >= b
    BY <1>1, <2>2
  <2> QED BY <2>1, <2>3, <2>5, <2>6 DEF b
<1> QED BY <1>1, <1>2, <1>3

(* Without blocks peek() offers everything.                                *)
LEMMA PeekAll ==
  ASSUME NEW alg \in Algorithm, NEW n \in Nat, BlockSize(alg) = 0
  PROVE  PeekCount(alg, n) = n
BY DEF PeekCount, Retain
-----------------------------------------------------------------------------
(* The inductive invariant.                                                *)

(* A handle belongs to the operation it was given to last: a clean one is  *)
(* never followed by another with its handle, and what is live on the chip *)
(* is the last operation that was given the handle.                        *)
HandlesInOrder ==
  /\ \A i, j \in DOMAIN session :
       (session[i].clean /\ i < j) => session[j].handle # session[i].handle
  /\ \A h \in DOMAIN device :
       /\ session[device[h]].handle = h
       /\ \A i \in DOMAIN session : session[i].handle = h => i <= device[h]

(* A call under the handle of a clean operation is a call on it.           *)
OneCaller ==
  call.op \in DOMAIN session =>
    \A i \in DOMAIN session :
      (session[i].clean /\ session[i].handle = handle) => i = call.op

(* What the steps of a call rely on, beyond CallInv.                       *)
Shape ==
  /\ call.pc \in {"idle", "BeginOperation"} =>
       call.op = 0 /\ call.done = 0 /\ call.taken = 0
  /\ call.pc \in {"update", "UpdateOperation", "finish", "FinishOperation"} =>
       session[call.op].status = "open"
  /\ call.pc = "FinishOperation" => call.taken = 0
  /\ (call.pc = "AbortOperation" /\ session[call.op].clean) =>
       call.done = 0 /\ call.taken = 0

(* When append() takes less than it was given the buffer is full.          *)
CallShape ==
  /\ Shape
  /\ call.pc = "UpdateOperation" =>
       \/ call.taken = call.size - call.done
       \/ Len(bufferMap[handle].buffer) = MaxChunkSize

(* absorbed and held make up what operation i is owed; of a block cipher   *)
(* whole blocks are absorbed and a last one is held.                       *)
Makes(i, held) ==
  LET block == BlockSize(session[i].algorithm)
  IN  /\ session[i].absorbed \o held = Chunk(i, 0, Owed(i))
      /\ block > 0 => /\ Len(session[i].absorbed) % block = 0
                      /\ Len(held) >= Lesser(block, HandedOver(i))

Holds(i) ==
  LET h == session[i].handle
  IN  (session[i].status = "open" /\ h \in DOMAIN bufferMap) =>
        /\ bufferMap[h].algorithm = session[i].algorithm
        /\ session[i].lazy => session[i].absorbed = << >>
        /\ Makes(i, bufferMap[h].buffer)

Sends(i) ==
  (call.op = i /\ call.pc = "FinishOperation") => Makes(i, call.data)

Ended(i) ==
  session[i].status = "finished" => session[i].absorbed = Chunk(i, 0, Owed(i))

Intact(i) == session[i].clean => Holds(i) /\ Sends(i) /\ Ended(i)

StreamInv ==
  HandlesInOrder /\ OneCaller /\ CallShape /\ \A i \in DOMAIN session : Intact(i)
-----------------------------------------------------------------------------
(* Given that, the chip absorbs into the operation that is called and no   *)
(* other, and records it if that is clean.                                 *)
LEMMA AbsorbsOwn ==
  ASSUME Inv, HandlesInOrder, OneCaller, call.op \in DOMAIN session,
         handle \in DOMAIN device, NEW bytes
  PROVE  /\ session[call.op].clean => device[handle] = call.op
         /\ DOMAIN ChipAbsorbs(bytes) = DOMAIN session
         /\ \A i \in DOMAIN session \ {call.op} : ChipAbsorbs(bytes)[i] = session[i]
         /\ ChipAbsorbs(bytes)[call.op] =
              IF session[call.op].clean
              THEN [session[call.op] EXCEPT !.absorbed = @ \o bytes]
              ELSE session[call.op]
<1> DEFINE d == device[handle]
           s == session[d]
           e == [s EXCEPT !.absorbed = IF s.clean THEN s.absorbed \o bytes ELSE s.absorbed]
<1>1. d \in DOMAIN session /\ s \in Session /\ session[call.op] \in Session
  BY Facts
<1>2. ChipAbsorbs(bytes) = [session EXCEPT ![d] = e]
  BY <1>1, Facts DEF ChipAbsorbs
<1>3. s.handle = handle /\ call.op <= d
  BY DEF HandlesInOrder, handle
<1>4. s.clean => d = call.op
  BY <1>1, <1>3 DEF OneCaller
<1>5. session[call.op].clean => d = call.op
  <2>1. session[call.op].clean => ~ (call.op < d)
    BY <1>1, <1>3 DEF HandlesInOrder, handle
  <2>2. call.op \in Nat /\ d \in Nat
    BY <1>1, Facts
  <2> QED BY <1>3, <2>1, <2>2
<1>6. ~ s.clean => e = s
  BY <1>1 DEF Session
<1>7. s.clean => e = [s EXCEPT !.absorbed = @ \o bytes]
  BY <1>1
<1> HIDE DEF d, e
<1>8. \A i \in DOMAIN session :
        ChipAbsorbs(bytes)[i] = IF i = d THEN e ELSE session[i]
  BY <1>1, <1>2
<1>9. DOMAIN ChipAbsorbs(bytes) = DOMAIN session
  BY <1>2
<1> QED BY <1>1, <1>4, <1>5, <1>6, <1>7, <1>8, <1>9 DEF d
-----------------------------------------------------------------------------
(* Every step of a call but the first changes no more than the operation   *)
(* called, the buffer and the device entry under its handle, and the call. *)
OneChanges ==
  /\ call.op \in DOMAIN session
  /\ DOMAIN session' = DOMAIN session
  /\ \A i \in DOMAIN session \ {call.op} : session'[i] = session[i]
  /\ session'[call.op].handle = session[call.op].handle
  /\ session'[call.op].clean => session[call.op].clean
  /\ \A h \in DOMAIN bufferMap' \ {handle} :
       h \in DOMAIN bufferMap /\ bufferMap'[h] = bufferMap[h]
  /\ \A h \in DOMAIN device' : h \in DOMAIN device /\ device'[h] = device[h]
  /\ call'.op \in {call.op, 0}

LEMMA OwnersKept ==
  ASSUME Inv, HandlesInOrder, OneCaller, OneChanges
  PROVE  HandlesInOrder' /\ OneCaller'
<1>1. /\ DOMAIN session' = DOMAIN session /\ call.op \in DOMAIN session
      /\ \A i \in DOMAIN session :
           /\ session'[i].handle = session[i].handle
           /\ session'[i].clean => session[i].clean
      /\ \A h \in DOMAIN device' : h \in DOMAIN device /\ device'[h] = device[h]
  BY DEF OneChanges
<1>2. HandlesInOrder'
  <2>1. \A h \in DOMAIN device : device[h] \in DOMAIN session
    BY Facts
  <2> QED BY <1>1, <2>1 DEF HandlesInOrder
<1>3. 0 \notin DOMAIN session
  BY Facts
<1>4. OneCaller'
  <2>1. CASE call'.op = call.op
    <3>1. handle' = handle
      BY <1>1, <2>1 DEF handle
    <3> QED BY <1>1, <2>1, <3>1 DEF OneCaller
  <2>2. CASE call'.op = 0
    BY <1>1, <1>3, <2>2 DEF OneCaller
  <2> QED BY <2>1, <2>2 DEF OneChanges
<1> QED BY <1>2, <1>4

LEMMA OthersIntact ==
  ASSUME Inv, StreamInv, OneChanges
  PROVE  /\ HandlesInOrder' /\ OneCaller'
         /\ \A i \in DOMAIN session \ {call.op} : Intact(i)'
<1>1. /\ DOMAIN session' = DOMAIN session /\ call.op \in DOMAIN session
      /\ \A i \in DOMAIN session :
           /\ session'[i].handle = session[i].handle
           /\ session'[i].clean => session[i].clean
      /\ \A h \in DOMAIN device' : h \in DOMAIN device /\ device'[h] = device[h]
  BY DEF OneChanges
<1>2. HandlesInOrder' /\ OneCaller'
  BY OwnersKept DEF StreamInv
<1>3. 0 \notin DOMAIN session
  BY Facts
<1>5. ASSUME NEW i \in DOMAIN session \ {call.op}
      PROVE  Intact(i)'
  <2>1. SUFFICES ASSUME session[i].clean PROVE Holds(i)' /\ Sends(i)' /\ Ended(i)'
    BY <1>1 DEF Intact
  <2>2. Holds(i) /\ Ended(i)
    BY <2>1 DEF StreamInv, Intact
  <2>3. session'[i] = session[i] /\ call'.op # i /\ call.op # i
    BY <1>3 DEF OneChanges
  <2>4. HandedOver(i)' = HandedOver(i) /\ Owed(i)' = Owed(i)
    BY <2>3 DEF HandedOver, Owed
  <2>5. session[i].handle # handle
    BY <2>1, <2>3, <1>1 DEF StreamInv, OneCaller
  <2>6. Holds(i)'
    <3>1. SUFFICES ASSUME session[i].status = "open", session[i].handle \in DOMAIN bufferMap'
                   PROVE  /\ bufferMap'[session[i].handle].algorithm = session[i].algorithm
                          /\ session[i].lazy => session[i].absorbed = << >>
                          /\ Makes(i, bufferMap[session[i].handle].buffer)'
      BY <2>3 DEF Holds
    <3>2. /\ session[i].handle \in DOMAIN bufferMap
          /\ bufferMap'[session[i].handle] = bufferMap[session[i].handle]
      BY <2>5, <3>1 DEF OneChanges
    <3> QED BY <2>2, <2>3, <2>4, <3>1, <3>2 DEF Holds, Makes
  <2>7. Sends(i)' /\ Ended(i)'
    BY <2>2, <2>3, <2>4 DEF Sends, Ended
  <2> QED BY <2>6, <2>7
<1> QED BY <1>2, <1>5

LEMMA OneIntact ==
  ASSUME Inv, StreamInv, OneChanges, CallShape',
         NEW j \in DOMAIN session, j = call.op, Intact(j)'
  PROVE  StreamInv'
<1>1. \A i \in DOMAIN session' : Intact(i)'
  <2> TAKE i \in DOMAIN session'
  <2>1. CASE i # call.op
    BY <2>1, OthersIntact DEF OneChanges
  <2>2. CASE i = j
    BY <2>2
  <2> QED BY <2>1, <2>2
<1> QED BY <1>1, OthersIntact DEF StreamInv

(* A call that has returned asks nothing of CallShape.                     *)
LEMMA IdleShape == ASSUME call' = Idle PROVE CallShape'
BY DEF CallShape, Shape, Idle

(* A call that fails gives its operation up.                               *)
LEMMA CallFailsIntact ==
  ASSUME Inv, StreamInv, call.op \in DOMAIN session, CallFails,
         \A h \in DOMAIN bufferMap' \ {handle} :
           h \in DOMAIN bufferMap /\ bufferMap'[h] = bufferMap[h],
         \A h \in DOMAIN device' : h \in DOMAIN device /\ device'[h] = device[h]
  PROVE  StreamInv'
<1>1. PICK i \in DOMAIN session : i = call.op
  OBVIOUS
<1>2. /\ DOMAIN session' = DOMAIN session
      /\ \A j \in DOMAIN session \ {i} : session'[j] = session[j]
      /\ session'[i].handle = session[i].handle
      /\ session'[i].clean = FALSE
  BY <1>1, Facts DEF CallFails, Session
<1>3. call' = Idle /\ call'.op = 0
  BY DEF CallFails, Idle
<1>4. OneChanges
  BY <1>1, <1>2, <1>3 DEF OneChanges
<1>5. Intact(i)'
  BY <1>2 DEF Intact
<1> QED BY <1>1, <1>3, <1>4, <1>5, IdleShape, OneIntact

(* So does one whose reply is lost, before it aborts.                      *)
LEMMA LostIntact ==
  ASSUME Inv, StreamInv, call.op \in DOMAIN session,
         session' = [session EXCEPT ![call.op].clean = FALSE],
         call' = [call EXCEPT !.pc = "AbortOperation"],
         UNCHANGED bufferMap,
         \A h \in DOMAIN device' : h \in DOMAIN device /\ device'[h] = device[h]
  PROVE  StreamInv'
<1>1. PICK i \in DOMAIN session : i = call.op
  OBVIOUS
<1>2. /\ DOMAIN session' = DOMAIN session
      /\ \A j \in DOMAIN session \ {i} : session'[j] = session[j]
      /\ session'[i].handle = session[i].handle
      /\ session'[i].clean = FALSE
  BY <1>1, Facts DEF Session
<1>3. call'.pc = "AbortOperation" /\ call'.op = i
  BY <1>1, Facts DEF Call
<1>4. OneChanges
  BY <1>1, <1>2, <1>3 DEF OneChanges
<1>5. CallShape'
  BY <1>2, <1>3 DEF CallShape, Shape
<1>6. Intact(i)'
  BY <1>2 DEF Intact
<1> QED BY <1>1, <1>4, <1>5, <1>6, OneIntact

LEMMA RefusedIntact ==
  ASSUME Inv, StreamInv, NEW pc \in {"UpdateOperation", "FinishOperation"}, Refused(pc)
  PROVE  StreamInv'
<1>1. call.op \in DOMAIN session
  BY DEF Inv, CallInv, Refused
<1>2. \A h \in DOMAIN device' : h \in DOMAIN device /\ device'[h] = device[h]
  BY WithoutKeeps DEF Refused
<1> QED BY <1>1, <1>2, CallFailsIntact DEF Refused

LEMMA AbortStepsIntact == ASSUME Inv, StreamInv, AbortSteps PROVE StreamInv'
<1>1. call.pc = "AbortOperation" /\ call.op \in DOMAIN session
  BY DEF AbortSteps, AbortOperationOk, AbortOperationFails, Inv, CallInv
<1>2. PICK i \in DOMAIN session : i = call.op
  BY <1>1
<1>3. \A h \in DOMAIN device' : h \in DOMAIN device /\ device'[h] = device[h]
  BY WithoutKeeps DEF AbortSteps, AbortOperationOk, AbortOperationFails
<1>4. CASE AbortOperationFails
  BY <1>1, <1>3, <1>4, CallFailsIntact DEF AbortOperationFails
<1>5. CASE AbortOperationOk
  <2>1. /\ DOMAIN session' = DOMAIN session
        /\ \A j \in DOMAIN session \ {i} : session'[j] = session[j]
        /\ session'[i].status \in {session[i].status, "closed"}
    BY <1>2, <1>5, Facts DEF AbortOperationOk, Session
  <2>2. /\ session'[i].handle = session[i].handle
        /\ session'[i].clean = session[i].clean
        /\ session'[i].algorithm = session[i].algorithm
        /\ session'[i].lazy = session[i].lazy
        /\ session'[i].accepted = session[i].accepted
        /\ session'[i].absorbed = session[i].absorbed
    BY <1>2, <1>5, Facts DEF AbortOperationOk, Session
  <2>3. call' = Idle /\ call'.op = 0 /\ call'.pc = "idle" /\ UNCHANGED bufferMap
    BY <1>5 DEF AbortOperationOk, Idle
  <2>4. OneChanges
    BY <1>2, <1>3, <2>1, <2>2, <2>3 DEF OneChanges
  <2>5. Intact(i)'
    <3>1. SUFFICES ASSUME session[i].clean PROVE Holds(i)' /\ Sends(i)' /\ Ended(i)'
      BY <2>2 DEF Intact
    <3>2. Holds(i) /\ Ended(i)
      BY <3>1 DEF StreamInv, Intact
    <3>3. call.done = 0 /\ call.taken = 0
      BY <1>1, <1>2, <3>1 DEF StreamInv, CallShape, Shape
    <3>4. HandedOver(i) = session[i].accepted /\ i # 0
      BY <1>2, <3>3, Facts, KeymasterAssumption DEF HandedOver, Session
    <3>5. HandedOver(i)' = session[i].accepted
      BY <2>2, <2>3, <3>4, Facts, KeymasterAssumption DEF HandedOver, Session
    <3>6. Owed(i)' = Owed(i) /\ HandedOver(i)' = HandedOver(i)
      BY <2>2, <3>4, <3>5 DEF Owed
    <3>7. Holds(i)'
      BY <2>1, <2>2, <2>3, <3>2, <3>6 DEF Holds, Makes
    <3>8. Sends(i)' /\ Ended(i)'
      BY <2>1, <2>2, <2>3, <3>2, <3>6 DEF Sends, Ended
    <3> QED BY <3>7, <3>8
  <2> QED BY <1>2, <2>3, <2>4, <2>5, IdleShape, OneIntact
<1> QED BY <1>4, <1>5 DEF AbortSteps
-----------------------------------------------------------------------------
(* The types of a clean operation that is being called, and of its buffer. *)
LEMMA CalledFacts ==
  ASSUME Inv, call.op \in DOMAIN session, handle \in DOMAIN bufferMap
  PROVE  LET i == call.op
             b == bufferMap[handle].buffer
         IN  /\ i \in 1 .. MaxOperations /\ i # 0 /\ session[i] \in Session
             /\ session[i].algorithm \in Algorithm /\ session[i].lazy \in BOOLEAN
             /\ session[i].absorbed \in Seq(Byte) /\ session[i].accepted \in Nat
             /\ Len(session[i].absorbed) \in Nat
             /\ bufferMap[handle] \in Operation
             /\ b \in Seq(Byte) /\ Len(b) \in Nat /\ Len(b) <= MaxChunkSize
             /\ call.done \in Nat /\ call.size \in Nat /\ call.taken \in Nat
             /\ session[i].accepted + call.size <= MaxStream
             /\ call.done + call.taken <= call.size
<1>1. call.op \in 1 .. MaxOperations /\ session[call.op] \in Session
  BY Facts, KeymasterAssumption
<1>2. bufferMap[handle] \in Operation /\ bufferMap[handle].buffer \in Seq(Byte)
  BY Facts DEF Operation
<1>3. Len(bufferMap[handle].buffer) <= MaxChunkSize
  BY Facts DEF BufferBounded
<1>4. /\ session[call.op].algorithm \in Algorithm /\ session[call.op].lazy \in BOOLEAN
      /\ session[call.op].absorbed \in Seq(Byte) /\ session[call.op].accepted \in Nat
  BY <1>1, KeymasterAssumption DEF Session
<1>5. call.done \in Nat /\ call.size \in Nat /\ call.taken \in Nat
  BY Facts, KeymasterAssumption DEF Call
<1>6. /\ session[call.op].accepted + call.size <= MaxStream
      /\ call.done + call.taken <= call.size
  BY DEF Inv, CallInv
<1>7. Len(session[call.op].absorbed) \in Nat /\ Len(bufferMap[handle].buffer) \in Nat
  BY <1>2, <1>4, LenProperties
<1> QED BY <1>1, <1>2, <1>3, <1>4, <1>5, <1>6, <1>7

(* The loop of finish() goes round.                                        *)
LEMMA FinishUpdatesIntact == ASSUME Inv, StreamInv, FinishUpdates PROVE StreamInv'
<1>1. call.pc = "finish" /\ call.op \in DOMAIN session
  BY DEF FinishUpdates, Inv, CallInv
<1>2. PICK i \in DOMAIN session : i = call.op
  BY <1>1
<1>3. /\ call'.pc = "update" /\ call'.op = i /\ call'.done = call.done
      /\ call'.taken = call.taken
  BY <1>2, Facts DEF FinishUpdates, Call
<1>4. UNCHANGED <<bufferMap, device, session>>
  BY DEF FinishUpdates
<1>5. OneChanges
  BY <1>2, <1>3, <1>4 DEF OneChanges
<1>6. CallShape'
  BY <1>1, <1>2, <1>3, <1>4 DEF StreamInv, CallShape, Shape
<1>7. Intact(i)'
  <2>1. HandedOver(i)' = HandedOver(i) /\ Owed(i)' = Owed(i)
    BY <1>2, <1>3, <1>4 DEF HandedOver, Owed
  <2>2. session[i].clean => Holds(i) /\ Ended(i)
    BY DEF StreamInv, Intact
  <2> QED BY <1>3, <1>4, <2>1, <2>2 DEF Intact, Holds, Sends, Ended, Makes
<1> QED BY <1>2, <1>5, <1>6, <1>7, OneIntact

(* What is in the buffer when buffer_final takes it is what is sent.       *)
LEMMA FinishFinalIntact == ASSUME Inv, StreamInv, FinishFinal PROVE StreamInv'
<1>1. call.pc = "finish" /\ call.op \in DOMAIN session /\ handle \in DOMAIN bufferMap
  BY DEF FinishFinal, Inv, CallInv
<1>2. PICK i \in DOMAIN session : i = call.op
  BY <1>1
<1>3. /\ bufferMap' = Without(bufferMap, handle) /\ UNCHANGED device
      /\ \A h \in DOMAIN bufferMap' : h \in DOMAIN bufferMap /\ bufferMap'[h] = bufferMap[h]
      /\ handle \notin DOMAIN bufferMap'
  BY WithoutKeeps DEF FinishFinal, Without, Restrict
<1>4. CASE CallFails
  BY <1>1, <1>3, <1>4, CallFailsIntact
<1>5. CASE /\ call' = [call EXCEPT !.pc = "FinishOperation",
                                   !.data = bufferMap[handle].buffer]
           /\ UNCHANGED <<session, faults>>
  <2>1. /\ call'.pc = "FinishOperation" /\ call'.op = i /\ call'.done = call.done
        /\ call'.taken = call.taken /\ call'.data = bufferMap[handle].buffer
    BY <1>2, <1>5, Facts DEF Call
  <2>2. call.taken = 0
    BY <1>1 DEF Inv, CallInv
  <2>3. OneChanges
    BY <1>2, <1>3, <1>5, <2>1 DEF OneChanges
  <2>4. CallShape'
    BY <1>1, <1>2, <1>5, <2>1, <2>2 DEF StreamInv, CallShape, Shape
  <2>5. Intact(i)'
    <3>1. SUFFICES ASSUME session[i].clean PROVE Holds(i)' /\ Sends(i)' /\ Ended(i)'
      BY <1>5 DEF Intact
    <3>2. Holds(i) /\ session[i].status = "open"
      BY <1>1, <1>2, <3>1 DEF StreamInv, Intact, CallShape, Shape
    <3>3. HandedOver(i)' = HandedOver(i) /\ Owed(i)' = Owed(i)
      BY <1>2, <1>5, <2>1 DEF HandedOver, Owed
    <3>4. handle = session[i].handle
      BY <1>2 DEF handle
    <3>5. Holds(i)' /\ Ended(i)'
      BY <1>3, <1>5, <3>2, <3>4 DEF Holds, Ended
    <3>6. Makes(i, bufferMap[handle].buffer)
      BY <1>1, <3>2, <3>4 DEF Holds
    <3>7. Sends(i)'
      BY <1>5, <2>1, <3>3, <3>6 DEF Sends, Makes
    <3> QED BY <3>5, <3>7
  <2> QED BY <1>2, <2>3, <2>4, <2>5, OneIntact
<1> QED BY <1>4, <1>5 DEF FinishFinal

(* With the last reply the chip has all it is owed.                        *)
LEMMA FinishOperationOkIntact == ASSUME Inv, StreamInv, FinishOperationOk PROVE StreamInv'
<1> DEFINE absorbed == ChipAbsorbs(call.data)
<1>1. /\ call.pc = "FinishOperation" /\ call.op \in DOMAIN session
      /\ handle \in DOMAIN device
  BY DEF FinishOperationOk, Inv, CallInv
<1>2. PICK i \in DOMAIN session : i = call.op
  BY <1>1
<1>3. /\ DOMAIN absorbed = DOMAIN session
      /\ \A j \in DOMAIN session \ {i} : absorbed[j] = session[j]
      /\ absorbed[i] = IF session[i].clean
                       THEN [session[i] EXCEPT !.absorbed = @ \o call.data]
                       ELSE session[i]
  BY <1>1, <1>2, AbsorbsOwn DEF StreamInv
<1>4. session' = [absorbed EXCEPT ![i].status = "finished", ![i].accepted = @ + call.done]
  BY <1>2 DEF FinishOperationOk
<1> HIDE DEF absorbed
<1>5. session[i] \in Session
  BY Facts
<1>6. /\ DOMAIN session' = DOMAIN session
      /\ \A j \in DOMAIN session \ {i} : session'[j] = session[j]
      /\ session'[i].handle = session[i].handle
      /\ session'[i].algorithm = session[i].algorithm
      /\ session'[i].lazy = session[i].lazy
      /\ session'[i].clean = session[i].clean
      /\ session'[i].status = "finished"
  BY <1>3, <1>4, <1>5 DEF Session
<1>7. /\ session'[i].accepted = session[i].accepted + call.done
      /\ session[i].clean => session'[i].absorbed = session[i].absorbed \o call.data
  BY <1>3, <1>4, <1>5 DEF Session
<1>8. /\ call' = Idle /\ call'.op = 0 /\ UNCHANGED bufferMap
      /\ \A h \in DOMAIN device' : h \in DOMAIN device /\ device'[h] = device[h]
  BY WithoutKeeps DEF FinishOperationOk, Idle
<1>9. OneChanges
  BY <1>2, <1>6, <1>8 DEF OneChanges
<1>10. Intact(i)'
  <2>1. SUFFICES ASSUME session[i].clean PROVE Holds(i)' /\ Sends(i)' /\ Ended(i)'
    BY <1>6 DEF Intact
  <2>2. session[i].absorbed \o call.data = Chunk(i, 0, Owed(i))
    BY <1>1, <1>2, <2>1 DEF StreamInv, Intact, Sends, Makes
  <2>3. call.taken = 0 /\ call.done \in Nat /\ session[i].accepted \in Nat /\ i # 0
    BY <1>1, <1>2, Facts, KeymasterAssumption DEF StreamInv, CallShape, Shape, Call, Session
  <2>4. HandedOver(i) = session[i].accepted + call.done
    BY <1>2, <2>3 DEF HandedOver
  <2>5. HandedOver(i)' = session[i].accepted + call.done
    BY <1>7, <1>8, <2>3 DEF HandedOver
  <2>6. Owed(i)' = Owed(i)
    BY <1>6, <2>4, <2>5 DEF Owed
  <2>7. Ended(i)'
    BY <1>7, <2>1, <2>2, <2>6 DEF Ended
  <2>8. Holds(i)' /\ Sends(i)'
    BY <1>2, <1>6, <1>8, <2>3 DEF Holds, Sends
  <2> QED BY <2>7, <2>8
<1> QED BY <1>2, <1>8, <1>9, <1>10, IdleShape, OneIntact

(* A buffer that keeps up keeps up when both sides grow.                   *)
LEMMA LesserGrows ==
  ASSUME NEW b \in Nat, NEW l \in Nat, NEW h \in Nat, NEW n \in Nat, l >= Lesser(b, h)
  PROVE  l + n >= Lesser(b, h + n)
BY DEF Lesser

(* What is left of an input is within the stream.                          *)
LEMMA WhatIsLeft ==
  ASSUME NEW a \in Nat, NEW z \in Nat, NEW d \in Nat, NEW k \in Nat, NEW m \in Nat,
         a + z <= m, d + k <= z
  PROVE  z - d \in Nat /\ a + d \in Nat /\ (a + d) + (z - d) <= m
OBVIOUS

(* When append() takes less than it is given, the buffer is full.          *)
LEMMA AppendFills ==
  ASSUME NEW n \in 0 .. MaxChunkSize, NEW m \in Nat
  PROVE  AppendCount(n, m) = m \/ n + AppendCount(n, m) = MaxChunkSize
BY BufferAssumption DEF AppendCount, Lesser

(* update() up to the call of the chip.                                    *)
LEMMA UpdateAppendsIntact == ASSUME Inv, StreamInv, UpdateAppends PROVE StreamInv'
<1> DEFINE b == bufferMap[handle].buffer
           r == call.size - call.done
           n == AppendCount(Len(b), r)
<1>1. call.pc = "update" /\ call.op \in DOMAIN session /\ handle \in DOMAIN bufferMap
  BY DEF UpdateAppends, Inv, CallInv
<1>2. PICK i \in DOMAIN session : i = call.op
  BY <1>1
<1>3. /\ i \in 1 .. MaxOperations /\ session[i] \in Session
      /\ session[i].algorithm \in Algorithm /\ session[i].lazy \in BOOLEAN
      /\ session[i].absorbed \in Seq(Byte) /\ session[i].accepted \in Nat
      /\ bufferMap[handle] \in Operation
      /\ b \in Seq(Byte) /\ Len(b) \in Nat /\ Len(b) <= MaxChunkSize
      /\ call.done \in Nat /\ call.size \in Nat /\ call.taken \in Nat
      /\ session[i].accepted + call.size <= MaxStream
      /\ call.done + call.taken <= call.size
  BY <1>1, <1>2, CalledFacts
<1>4. /\ bufferMap' = [bufferMap EXCEPT ![handle].buffer = Appended(@, Input)]
      /\ UNCHANGED device
  BY DEF UpdateAppends
<1>5. /\ DOMAIN bufferMap' = DOMAIN bufferMap
      /\ \A h \in DOMAIN bufferMap' \ {handle} : bufferMap'[h] = bufferMap[h]
      /\ bufferMap'[handle].algorithm = bufferMap[handle].algorithm
      /\ bufferMap'[handle].buffer = Appended(b, Input)
  BY <1>1, <1>3, <1>4 DEF Operation
<1>6. CASE CallFails
  BY <1>1, <1>4, <1>5, <1>6, CallFailsIntact
<1>7. CASE /\ call' = [call EXCEPT !.pc = "UpdateOperation",
                         !.taken = AppendCount(Len(b), Len(Input))]
           /\ UNCHANGED session
  <2> DEFINE h == session[i].accepted + call.done
  <2>1. r \in Nat /\ h \in Nat /\ h + r <= MaxStream
    <3>1. MaxStream \in Nat
      BY KeymasterAssumption
    <3> QED BY ONLY <1>3, <3>1, WhatIsLeft
  <2>2. Input = Chunk(i, h, r)
    BY <1>2 DEF Input
  <2> HIDE DEF r, h
  <2>3. Input \in Seq(Byte) /\ Len(Input) = r
    BY <1>3, <2>1, <2>2, ChunkType
  <2>4. /\ n \in 0 .. r /\ Len(b) + n <= MaxChunkSize
        /\ n = r \/ Len(b) + n = MaxChunkSize
    <3>1. Len(b) \in 0 .. MaxChunkSize
      BY <1>3, BufferAssumption
    <3> HIDE DEF b
    <3> QED BY <2>1, <3>1, AppendCountBound, AppendFills
  <2>6. Len(Appended(b, Input)) = Len(b) + n
    <3> HIDE DEF b
    <3>1. Len(Appended(b, Input)) = Len(b) + AppendCount(Len(b), Len(Input))
      BY <1>3, <2>3, AppendedSeq
    <3> QED BY <2>3, <3>1
  <2> HIDE DEF n, b
  <2>7. /\ call'.pc = "UpdateOperation" /\ call'.op = i /\ call'.done = call.done
        /\ call'.taken = n /\ call'.size = call.size
    BY <1>2, <1>7, <2>3, Facts DEF Call, n, b
  <2>8. OneChanges
    BY <1>2, <1>4, <1>5, <1>7, <2>7 DEF OneChanges
  <2>9. CallShape'
    <3>1. handle' = handle
      BY <1>2, <1>7, <2>7 DEF handle
    <3>2. call'.taken = call'.size - call'.done \/ Len(bufferMap'[handle'].buffer) = MaxChunkSize
      BY <1>5, <2>4, <2>6, <2>7, <3>1 DEF r
    <3> QED BY <1>1, <1>2, <1>7, <2>7, <3>2 DEF StreamInv, CallShape, Shape
  <2>10. Intact(i)'
    <3>1. SUFFICES ASSUME session[i].clean PROVE Holds(i)' /\ Sends(i)' /\ Ended(i)'
      BY <1>7 DEF Intact
    <3>2. Holds(i) /\ session[i].status = "open"
      BY <1>1, <1>2, <3>1 DEF StreamInv, Intact, CallShape, Shape
    <3>3. handle = session[i].handle
      BY <1>2 DEF handle
    <3>4. /\ bufferMap[handle].algorithm = session[i].algorithm
          /\ session[i].lazy => session[i].absorbed = << >>
          /\ Makes(i, b)
      BY <1>1, <3>2, <3>3 DEF Holds, b
    <3>5. call.taken = 0
      BY <1>1 DEF Inv, CallInv
    <3>6. HandedOver(i) = h
      BY <1>2, <1>3, <3>5 DEF HandedOver, h
    <3>7. HandedOver(i)' = h + n
      <4>1. HandedOver(i)' = session[i].accepted + (call.done + n)
        BY <1>2, <1>7, <2>7 DEF HandedOver
      <4>2. session[i].accepted \in Nat /\ call.done \in Nat /\ n \in Nat
        BY <1>3, <2>1, <2>4
      <4> QED BY ONLY <4>1, <4>2 DEF h
    <3>8. /\ Owed(i) = Due(session[i].lazy, h)
          /\ Owed(i)' = Due(session[i].lazy, h + n)
      BY <1>7, <3>6, <3>7 DEF Owed, Due
    <3>9. session[i].absorbed \o Appended(b, Input) = Chunk(i, 0, Owed(i)')
      <4>1. session[i].absorbed \o b = Chunk(i, 0, Due(session[i].lazy, h))
        BY <3>4, <3>8 DEF Makes
      <4>2. session[i].absorbed \o Appended(b, Chunk(i, h, r))
              = Chunk(i, 0, Due(session[i].lazy, h + AppendCount(Len(b), r)))
        <5>1. Offered(i, session[i].absorbed, b, session[i].lazy, h, r)
          BY <1>3, <2>1, <3>4, <4>1 DEF Offered
        <5> DEFINE s == session[i].absorbed
                   z == session[i].lazy
        <5>2. Offered(i, s, b, z, h, r)
          BY <5>1
        <5> HIDE DEF s, z
        <5>3. s \o Appended(b, Chunk(i, h, r)) = Chunk(i, 0, Due(z, h + AppendCount(Len(b), r)))
          BY ONLY <5>2, AppendMakes
        <5> QED BY <5>3 DEF s, z
      <4>3. n = AppendCount(Len(b), r)
        BY DEF n
      <4> QED BY <2>2, <3>8, <4>2, <4>3
    <3>10. BlockSize(session[i].algorithm) > 0 =>
             /\ Len(session[i].absorbed) % BlockSize(session[i].algorithm) = 0
             /\ Len(Appended(b, Input)) >= Lesser(BlockSize(session[i].algorithm), h + n)
      <4> DEFINE block == BlockSize(session[i].algorithm)
      <4>1. block \in Nat
        BY BufferAssumption DEF BlockSize
      <4>2. block > 0 => /\ Len(session[i].absorbed) % block = 0
                         /\ Len(b) >= Lesser(block, h)
        BY <3>4, <3>6 DEF Makes
      <4> HIDE DEF block
      <4>3. n \in Nat
        BY <2>1, <2>4
      <4> QED BY <1>3, <2>1, <2>6, <4>1, <4>2, <4>3, LesserGrows DEF block
    <3>11. Holds(i)'
      BY <1>1, <1>5, <1>7, <3>3, <3>4, <3>7, <3>9, <3>10 DEF Holds, Makes
    <3>12. Sends(i)' /\ Ended(i)'
      BY <1>7, <2>7, <3>2 DEF Sends, Ended
    <3> QED BY <3>11, <3>12
  <2> QED BY <1>2, <2>8, <2>9, <2>10, OneIntact
<1> QED BY <1>6, <1>7 DEF UpdateAppends
-----------------------------------------------------------------------------
(* A chip that reports what it did consumes all the blocks it is sent, or, *)
(* when it waits for finish(), none.                                       *)
LEMMA ChipTakes ==
  ASSUME Inv, StreamInv, Misreports = FALSE, NEW n, UpdateOperationOk(n)
  PROVE  LET b == bufferMap[handle].buffer
             k == PeekCount(bufferMap[handle].algorithm, Len(b))
         IN  /\ call.pc = "UpdateOperation" /\ call.op \in DOMAIN session
             /\ handle \in DOMAIN bufferMap /\ handle \in DOMAIN device
             /\ n = IF session[device[handle]].lazy THEN 0 ELSE k
             /\ n \in 0 .. Len(b)
             /\ SubSeq(Blocks, 1, Lesser(n, Len(Blocks))) = SubSeq(b, 1, n)
<1> DEFINE b == bufferMap[handle].buffer
           alg == bufferMap[handle].algorithm
           k == PeekCount(alg, Len(b))
<1>1. /\ call.pc = "UpdateOperation" /\ call.op \in DOMAIN session
      /\ handle \in DOMAIN bufferMap /\ handle \in DOMAIN device
  BY DEF UpdateOperationOk, Inv, CallInv
<1>2. b \in Seq(Byte) /\ Len(b) \in Nat /\ alg \in Algorithm
  BY <1>1, CalledFacts DEF Operation
<1>3. n = IF session[device[handle]].lazy THEN 0 ELSE Len(Blocks)
  BY DEF UpdateOperationOk, ChipConsumes
<1>4. Blocks = SubSeq(b, 1, k)
  BY DEF Blocks, Peeked
<1> HIDE DEF b, alg
<1>5. k \in 0 .. Len(b)
  BY <1>2, PeekCountBound
<1> HIDE DEF k
<1>6. \A j \in 1 .. k : b[j] \in Byte
  <2> TAKE j \in 1 .. k
  <2>1. j \in 1 .. Len(b)
    BY <1>2, <1>5
  <2> QED BY <1>2, <2>1, ElementOfSeq
<1>7. Blocks \in Seq(Byte) /\ Len(Blocks) = k
  BY <1>4, <1>5, <1>6, SubSeqProperties
<1>8. n \in {0, k} /\ n = IF session[device[handle]].lazy THEN 0 ELSE k
  BY <1>3, <1>7
<1>9. n \in 0 .. Len(b) /\ Lesser(n, Len(Blocks)) = n
  BY <1>2, <1>5, <1>7, <1>8 DEF Lesser
<1>10. SubSeq(Blocks, 1, n) = SubSeq(b, 1, n)
  <2>1. CASE n = k
    BY <1>4, <1>7, <2>1, SubSeqFull
  <2>2. CASE n = 0
    BY <1>2, <1>7, <2>2, SubSeqEmpty
  <2> QED BY <1>8, <2>1, <2>2
<1> QED BY <1>1, <1>8, <1>9, <1>10 DEF b, alg, k

(* What a reply to update() does, told apart from the types.               *)
LEMMA UpdateOperationOkEffect ==
  ASSUME Inv, StreamInv, Misreports = FALSE, NEW n, UpdateOperationOk(n),
         NEW i \in DOMAIN session, i = call.op
  PROVE  LET b        == bufferMap[handle].buffer
             consumed == Consumed(n, Len(b) - n)
         IN  /\ DOMAIN session' = DOMAIN session
             /\ \A j \in DOMAIN session \ {i} : session'[j] = session[j]
             /\ session'[i].handle = session[i].handle
             /\ session'[i].clean = session[i].clean
             /\ session'[i].status = session[i].status
             /\ session'[i].algorithm = session[i].algorithm
             /\ session'[i].lazy = session[i].lazy
             /\ session[i].clean =>
                  session'[i].absorbed = session[i].absorbed \o SubSeq(b, 1, n)
             /\ DOMAIN bufferMap' = DOMAIN bufferMap
             /\ \A h \in DOMAIN bufferMap' \ {handle} : bufferMap'[h] = bufferMap[h]
             /\ bufferMap'[handle].algorithm = bufferMap[handle].algorithm
             /\ bufferMap'[handle].buffer = SubSeq(b, n + 1, Len(b))
             /\ UNCHANGED device
             /\ \/ /\ call' = Idle /\ call.done = 0
                   /\ session'[i].accepted = session[i].accepted + consumed
                \/ /\ call'.pc = "finish" /\ call'.op = i /\ call'.taken = 0
                   /\ call'.done = call.done + consumed
                   /\ session'[i].accepted = session[i].accepted
<1> DEFINE b        == bufferMap[handle].buffer
           consumed == Consumed(n, Len(b) - n)
           bytes    == SubSeq(b, 1, n)
           absorbed == ChipAbsorbs(bytes)
<1>1. /\ call.pc = "UpdateOperation" /\ handle \in DOMAIN bufferMap /\ handle \in DOMAIN device
      /\ n \in 0 .. Len(b)
      /\ SubSeq(Blocks, 1, Lesser(n, Len(Blocks))) = bytes
  BY ChipTakes
<1>2. session[i] \in Session /\ bufferMap[handle] \in Operation /\ Len(b) \in Nat
  BY <1>1, CalledFacts
<1>3. ~ AdvanceFails(b, n)
  BY <1>1, <1>2 DEF AdvanceFails
<1>4. /\ bufferMap' = [bufferMap EXCEPT ![handle].buffer = Advanced(@, n)]
      /\ \/ /\ call.api = "update" /\ call' = Idle
            /\ session' = [absorbed EXCEPT ![call.op].accepted = @ + consumed]
         \/ /\ call' = [call EXCEPT !.pc = "finish", !.taken = 0, !.done = @ + consumed]
            /\ session' = absorbed
      /\ UNCHANGED device
  BY <1>1, <1>3 DEF UpdateOperationOk
<1>5. /\ DOMAIN bufferMap' = DOMAIN bufferMap
      /\ \A h \in DOMAIN bufferMap' \ {handle} : bufferMap'[h] = bufferMap[h]
      /\ bufferMap'[handle].algorithm = bufferMap[handle].algorithm
      /\ bufferMap'[handle].buffer = SubSeq(b, n + 1, Len(b))
  BY <1>1, <1>2, <1>4 DEF Operation, Advanced
<1>6. /\ DOMAIN absorbed = DOMAIN session
      /\ \A j \in DOMAIN session \ {i} : absorbed[j] = session[j]
      /\ absorbed[i] = IF session[i].clean
                       THEN [session[i] EXCEPT !.absorbed = @ \o bytes]
                       ELSE session[i]
  BY <1>1, AbsorbsOwn DEF StreamInv
<1> HIDE DEF absorbed, consumed, bytes, b
<1>7. /\ absorbed[i].handle = session[i].handle
      /\ absorbed[i].clean = session[i].clean
      /\ absorbed[i].status = session[i].status
      /\ absorbed[i].algorithm = session[i].algorithm
      /\ absorbed[i].lazy = session[i].lazy
      /\ absorbed[i].accepted = session[i].accepted
      /\ session[i].clean => absorbed[i].absorbed = session[i].absorbed \o bytes
  BY <1>2, <1>6 DEF Session
<1>8. absorbed[i] = [handle |-> absorbed[i].handle, algorithm |-> absorbed[i].algorithm,
                     lazy |-> absorbed[i].lazy, status |-> absorbed[i].status,
                     accepted |-> absorbed[i].accepted,
                     absorbed |-> absorbed[i].absorbed, clean |-> absorbed[i].clean]
  BY <1>2, <1>6 DEF Session
<1>9. CASE /\ call.api = "update" /\ call' = Idle
           /\ session' = [absorbed EXCEPT ![call.op].accepted = @ + consumed]
  <2>1. call.done = 0
    BY <1>9 DEF Inv, CallInv
  <2>2. /\ DOMAIN session' = DOMAIN session
        /\ \A j \in DOMAIN session \ {i} : session'[j] = session[j]
        /\ session'[i] = [absorbed[i] EXCEPT !.accepted = @ + consumed]
    BY <1>6, <1>9
  <2>3. /\ session'[i].handle = absorbed[i].handle
        /\ session'[i].clean = absorbed[i].clean
        /\ session'[i].status = absorbed[i].status
        /\ session'[i].algorithm = absorbed[i].algorithm
        /\ session'[i].lazy = absorbed[i].lazy
        /\ session'[i].absorbed = absorbed[i].absorbed
        /\ session'[i].accepted = absorbed[i].accepted + consumed
    BY <1>8, <2>2
  <2> QED BY <1>4, <1>5, <1>7, <1>9, <2>1, <2>2, <2>3 DEF b, consumed, bytes
<1>10. CASE /\ call' = [call EXCEPT !.pc = "finish", !.taken = 0, !.done = @ + consumed]
            /\ session' = absorbed
  <2>1. /\ call'.pc = "finish" /\ call'.op = i /\ call'.taken = 0
        /\ call'.done = call.done + consumed
    BY <1>10, Facts DEF Call
  <2> QED BY <1>4, <1>5, <1>6, <1>7, <1>10, <2>1 DEF b, consumed, bytes
<1> QED BY <1>4, <1>9, <1>10

(* What the chip is owed of its stream does not change with the reply: what *)
(* is reported is what append() took, or, of a lazy operation whose buffer *)
(* is full or has taken everything, the whole input.                       *)
LEMMA ReplyOwesTheSame ==
  ASSUME Inv, StreamInv, Misreports = FALSE, NEW n, UpdateOperationOk(n),
         NEW i \in DOMAIN session, i = call.op, session[i].clean
  PROVE  /\ Owed(i)' = Owed(i)
         /\ BlockSize(session[i].algorithm) > 0 => HandedOver(i)' = HandedOver(i)
<1> DEFINE b        == bufferMap[handle].buffer
           consumed == Consumed(n, Len(b) - n)
           a        == session[i].accepted
           h        == HandedOver(i)
<1>1. /\ call.pc = "UpdateOperation" /\ handle \in DOMAIN bufferMap /\ handle \in DOMAIN device
      /\ n = IF session[device[handle]].lazy
             THEN 0 ELSE PeekCount(bufferMap[handle].algorithm, Len(b))
  BY ChipTakes
<1>2. /\ i # 0 /\ a \in Nat /\ session[i].lazy \in BOOLEAN
      /\ session[i].absorbed \in Seq(Byte)
      /\ b \in Seq(Byte) /\ Len(b) \in Nat /\ Len(b) <= MaxChunkSize
      /\ call.done \in Nat /\ call.size \in Nat /\ call.taken \in Nat
      /\ a + call.size <= MaxStream
      /\ call.done + call.taken <= call.size
      /\ i \in 1 .. MaxOperations
  BY <1>1, CalledFacts
<1>3. device[handle] = i
  BY <1>1, AbsorbsOwn DEF StreamInv
<1>4. h = a + call.done + call.taken
  BY <1>2 DEF HandedOver
<1>5. /\ session'[i].lazy = session[i].lazy
      /\ HandedOver(i)' = a + call.done + consumed
  <2>1. /\ session'[i].lazy = session[i].lazy
        /\ \/ /\ call' = Idle /\ call.done = 0
              /\ session'[i].accepted = a + consumed
           \/ /\ call'.pc = "finish" /\ call'.op = i /\ call'.taken = 0
              /\ call'.done = call.done + consumed
              /\ session'[i].accepted = a
    BY UpdateOperationOkEffect
  <2>2. consumed \in Nat
    <3>1. call.size - call.done \in Nat
      BY <1>2
    <3> QED BY <1>2, <3>1 DEF Consumed
  <2> HIDE DEF consumed, a
  <2>3. CASE call' = Idle /\ call.done = 0 /\ session'[i].accepted = a + consumed
    <3>1. call'.op = 0
      BY <2>3 DEF Idle
    <3>2. HandedOver(i)' = (a + consumed) + 0
      BY <1>2, <2>3, <3>1 DEF HandedOver
    <3>3. a \in Nat
      BY <1>2
    <3>4. (a + consumed) + 0 = a + 0 + consumed
      BY <2>2, <3>3
    <3> QED BY <2>1, <2>3, <3>2, <3>4
  <2>4. CASE /\ call'.op = i /\ call'.taken = 0
             /\ call'.done = call.done + consumed
             /\ session'[i].accepted = a
    <3>1. HandedOver(i)' = a + ((call.done + consumed) + 0)
      BY <2>4 DEF HandedOver
    <3>2. a \in Nat /\ call.done \in Nat
      BY <1>2
    <3>3. a + ((call.done + consumed) + 0) = a + call.done + consumed
      BY <2>2, <3>2
    <3> QED BY <2>1, <3>1, <3>3
  <2> QED BY <2>1, <2>3, <2>4
<1>6. /\ Owed(i) = Due(session[i].lazy, h)
      /\ Owed(i)' = Due(session[i].lazy, HandedOver(i)')
  BY <1>5 DEF Owed, Due
<1>7. CASE consumed = call.taken
  <2>1. HandedOver(i)' = h
    BY <1>4, <1>5, <1>7
  <2> QED BY <1>6, <2>1
<1>8. CASE consumed # call.taken
  <2>1. /\ bufferMap[handle].algorithm = "EC" /\ n = 0 /\ Len(b) - n >= DigestLength
        /\ consumed = call.size - call.done
    BY <1>8 DEF Consumed
  <2>2. Len(b) >= 1
    BY <1>2, <2>1, KeymasterAssumption
  <2>3. session[i].lazy
    <3>1. SUFFICES ASSUME ~ session[i].lazy PROVE FALSE
      OBVIOUS
    <3>2. BlockSize("EC") = 0 /\ "EC" \in Algorithm
      BY DEF BlockSize, Algorithm
    <3>3. n = Len(b)
      BY <1>1, <1>2, <1>3, <2>1, <3>1, <3>2, PeekAll
    <3> QED BY <2>1, <2>2, <3>3
  <2>4. Holds(i) /\ session[i].status = "open" /\ handle = session[i].handle
    BY <1>1 DEF StreamInv, Intact, CallShape, Shape, handle
  <2>5. /\ session[i].algorithm = "EC" /\ session[i].absorbed = << >>
        /\ session[i].absorbed \o b = Chunk(i, 0, Owed(i))
    BY <1>1, <2>1, <2>3, <2>4 DEF Holds, Makes
  <2>6. ~ (BlockSize(session[i].algorithm) > 0)
    BY <2>5 DEF BlockSize
  <2>7. HandedOver(i)' = a + call.size
    BY <1>2, <1>5, <2>1
  <2>8. h \in Nat /\ h <= a + call.size /\ a + call.size \in Nat
    <3> HIDE DEF a, h
    <3>1. /\ a \in Nat /\ call.done \in Nat /\ call.size \in Nat /\ call.taken \in Nat
          /\ call.done + call.taken <= call.size
      BY <1>2 DEF a
    <3>2. h = a + call.done + call.taken
      BY <1>4
    <3> QED BY ONLY <3>1, <3>2
  <2>9. CASE call.taken = call.size - call.done
    <3>1. HandedOver(i)' = h
      BY <1>2, <1>4, <2>7, <2>9
    <3> QED BY <1>6, <2>6, <3>1
  <2>10. CASE Len(b) = MaxChunkSize
    <3>1. b = Chunk(i, 0, Lesser(MaxChunkSize, h))
      <4>1. session[i].absorbed \o b = b
        BY <1>2, <2>5, ConcatEmptySeq
      <4> QED BY <1>6, <2>3, <2>5, <4>1 DEF Due
    <3>2. Lesser(MaxChunkSize, h) \in Nat /\ Lesser(MaxChunkSize, h) <= h
      BY <2>8, BufferAssumption DEF Lesser
    <3>3. 0 + Lesser(MaxChunkSize, h) <= MaxStream
      <4>1. MaxStream \in Nat
        BY KeymasterAssumption
      <4> DEFINE z == Lesser(MaxChunkSize, h)
                 top == a + call.size
      <4> HIDE DEF h
      <4>2. z \in Nat /\ z <= h /\ h \in Nat /\ h <= top /\ top \in Nat /\ top <= MaxStream
        BY <1>2, <2>8, <3>2
      <4> HIDE DEF z, top
      <4>3. 0 + z <= MaxStream
        BY ONLY <4>1, <4>2
      <4> QED BY <4>3 DEF z
    <3>4. Len(b) = Lesser(MaxChunkSize, h)
      BY <1>2, <3>1, <3>2, <3>3, ChunkType
    <3>5. h >= MaxChunkSize
      BY <2>8, <2>10, <3>4, BufferAssumption DEF Lesser
    <3>6. Lesser(MaxChunkSize, a + call.size) = Lesser(MaxChunkSize, h)
      BY <2>8, <3>5, BufferAssumption DEF Lesser
    <3> QED BY <1>6, <2>3, <2>6, <2>7, <3>6 DEF Due
  <2> QED BY <1>1, <2>9, <2>10 DEF StreamInv, CallShape, Shape
<1> QED BY <1>7, <1>8

(* The chip has processed the blocks: they leave the buffer.               *)
LEMMA UpdateOperationOkIntact ==
  ASSUME Inv, StreamInv, Misreports = FALSE, NEW n, UpdateOperationOk(n)
  PROVE  StreamInv'
<1> DEFINE b     == bufferMap[handle].buffer
           alg   == bufferMap[handle].algorithm
           bytes == SubSeq(b, 1, n)
           rest  == SubSeq(b, n + 1, Len(b))
<1>1. /\ call.pc = "UpdateOperation" /\ call.op \in DOMAIN session
      /\ handle \in DOMAIN bufferMap /\ handle \in DOMAIN device
      /\ n = IF session[device[handle]].lazy THEN 0 ELSE PeekCount(alg, Len(b))
      /\ n \in 0 .. Len(b)
  BY ChipTakes
<1>2. PICK i \in DOMAIN session : i = call.op
  BY <1>1
<1>3. /\ session[i].absorbed \in Seq(Byte) /\ Len(session[i].absorbed) \in Nat
      /\ b \in Seq(Byte) /\ Len(b) \in Nat /\ Len(b) <= MaxChunkSize
      /\ session[i].algorithm \in Algorithm
  BY <1>1, <1>2, CalledFacts
<1>4. /\ DOMAIN session' = DOMAIN session
      /\ \A j \in DOMAIN session \ {i} : session'[j] = session[j]
      /\ session'[i].handle = session[i].handle
      /\ session'[i].clean = session[i].clean
      /\ session'[i].status = session[i].status
      /\ session'[i].algorithm = session[i].algorithm
      /\ session'[i].lazy = session[i].lazy
  BY <1>2, UpdateOperationOkEffect
<1>5. session[i].clean => session'[i].absorbed = session[i].absorbed \o bytes
  BY <1>2, UpdateOperationOkEffect
<1>6. /\ DOMAIN bufferMap' = DOMAIN bufferMap
      /\ \A h \in DOMAIN bufferMap' \ {handle} : bufferMap'[h] = bufferMap[h]
      /\ bufferMap'[handle].algorithm = alg
      /\ bufferMap'[handle].buffer = rest
      /\ UNCHANGED device
  BY <1>2, UpdateOperationOkEffect
<1>7. call' = Idle \/ (call'.pc = "finish" /\ call'.op = i /\ call'.taken = 0)
  BY <1>2, UpdateOperationOkEffect
<1>8. call'.op \in {i, 0} /\ call'.pc \in {"idle", "finish"}
  BY <1>7 DEF Idle
<1>9. OneChanges
  BY <1>2, <1>4, <1>6, <1>8 DEF OneChanges
<1>10. session[i].status = "open" /\ handle = session[i].handle
  BY <1>1, <1>2 DEF StreamInv, CallShape, Shape, handle
<1>11. CallShape'
  <2>1. CASE call' = Idle
    BY <2>1, IdleShape
  <2>2. CASE call'.pc = "finish" /\ call'.op = i
    BY <1>4, <1>10, <2>2 DEF CallShape, Shape
  <2> QED BY <1>7, <2>1, <2>2
<1> HIDE DEF b, alg, bytes, rest
<1>12. Intact(i)'
  <2>1. SUFFICES ASSUME session[i].clean PROVE Holds(i)' /\ Sends(i)' /\ Ended(i)'
    BY <1>4 DEF Intact
  <2>2. /\ alg = session[i].algorithm
        /\ session[i].lazy => session[i].absorbed = << >>
        /\ Makes(i, b)
    BY <1>1, <1>10, <2>1 DEF StreamInv, Intact, Holds, b, alg
  <2>3. /\ Owed(i)' = Owed(i)
        /\ BlockSize(session[i].algorithm) > 0 => HandedOver(i)' = HandedOver(i)
    BY <1>2, <2>1, ReplyOwesTheSame
  <2>4. n = IF session[i].lazy THEN 0 ELSE PeekCount(session[i].algorithm, Len(b))
    <3>1. device[handle] = i
      BY <1>1, <1>2, <2>1, AbsorbsOwn DEF StreamInv
    <3> QED BY <1>1, <2>2, <3>1
  <2>5. session'[i].absorbed = session[i].absorbed \o bytes
    BY <1>5, <2>1
  <2>6. (session[i].absorbed \o bytes) \o rest = session[i].absorbed \o b
    BY <1>1, <1>3, MoveFront DEF bytes, rest
  <2>7. /\ n = 0 => bytes = << >> /\ rest = b
        /\ bytes \in Seq(Byte) /\ Len(bytes) = n
        /\ rest \in Seq(Byte) /\ Len(rest) = Len(b) - n
    <3>1. \A j \in 1 .. Len(b) : b[j] \in Byte
      BY <1>3, ElementOfSeq
    <3>2. n \in Nat /\ n <= Len(b)
      BY <1>1, <1>3
    <3>3. bytes \in Seq(Byte) /\ Len(bytes) = n
      BY <1>3, <3>1, <3>2, SubSeqProperties DEF bytes
    <3>4. rest \in Seq(Byte) /\ Len(rest) = Len(b) - n
      BY <1>1, <1>3, AdvancedSeq DEF rest, Advanced
    <3>5. n = 0 => bytes = << >>
      BY <3>3, EmptySeq
    <3>6. n = 0 => rest = b
      BY <1>3, SubSeqFull DEF rest
    <3> QED BY <3>3, <3>4, <3>5, <3>6
  <2>8. session'[i].lazy => session'[i].absorbed = << >>
    <3>1. SUFFICES ASSUME session[i].lazy PROVE session[i].absorbed \o bytes = << >>
      BY <1>4, <2>5
    <3>2. bytes = << >> /\ session[i].absorbed = << >>
      BY <2>2, <2>4, <2>7, <3>1
    <3> QED BY <3>2, EmptySeq, ConcatEmptySeq
  <2>9. session'[i].absorbed \o rest = Chunk(i, 0, Owed(i)')
    BY <2>2, <2>3, <2>5, <2>6 DEF Makes
  <2>10. BlockSize(session[i].algorithm) > 0 =>
           /\ Len(session'[i].absorbed) % BlockSize(session[i].algorithm) = 0
           /\ Len(rest) >= Lesser(BlockSize(session[i].algorithm), HandedOver(i)')
    <3> DEFINE block == BlockSize(session[i].algorithm)
               l == Len(session[i].absorbed)
               m == Len(b)
    <3>1. SUFFICES ASSUME block > 0
                   PROVE  /\ Len(session'[i].absorbed) % block = 0
                          /\ Len(rest) >= Lesser(block, HandedOver(i)')
      OBVIOUS
    <3>2. block \in Nat \ {0}
      BY <3>1, BufferAssumption DEF BlockSize
    <3>3. l % block = 0 /\ m >= Lesser(block, HandedOver(i))
      BY <2>2, <3>1 DEF Makes
    <3>4. Len(session'[i].absorbed) = l + n
      <4> DEFINE s == session[i].absorbed
      <4>1. s \in Seq(Byte) /\ bytes \in Seq(Byte) /\ Len(bytes) = n
        BY <1>3, <2>7
      <4> HIDE DEF s
      <4>2. Len(s \o bytes) = Len(s) + Len(bytes)
        BY ONLY <4>1, ConcatProperties
      <4> QED BY <2>5, <4>1, <4>2 DEF s
    <3>5. /\ PeekCount(session[i].algorithm, m) % block = 0
          /\ PeekCount(session[i].algorithm, m) > 0 =>
               m - PeekCount(session[i].algorithm, m) >= block
      BY <1>3, <3>1, PeekWholeBlocks
    <3>6. HandedOver(i)' = HandedOver(i) /\ HandedOver(i) \in Nat
      <4>1. HandedOver(i) \in Nat
        <5>1. session[i].accepted \in Nat /\ call.done \in Nat /\ call.taken \in Nat
          BY <1>1, <1>2, CalledFacts
        <5> QED BY <1>2, <5>1 DEF HandedOver
      <4> QED BY <2>3, <3>1, <4>1
    <3>7. n % block = 0 /\ (n = 0 \/ m - n >= block)
      <4>1. CASE n = 0
        BY <3>2, <4>1
      <4>2. CASE n # 0
        <5>1. n = PeekCount(session[i].algorithm, m) /\ n > 0
          BY <1>1, <1>3, <2>4, <4>2
        <5> QED BY <3>5, <5>1
      <4> QED BY <4>1, <4>2
    <3> HIDE DEF block, l, m
    <3>8. (l + n) % block = 0
      <4>1. l \in Nat /\ n \in Nat
        BY <1>1, <1>3 DEF l
      <4> QED BY <3>2, <3>3, <3>7, <4>1, ModSum
    <3>9. m - n >= Lesser(block, HandedOver(i))
      <4> DEFINE h == HandedOver(i)
      <4>1. h \in Nat /\ m \in Nat /\ block \in Nat /\ m >= Lesser(block, h)
        BY <1>3, <3>2, <3>3, <3>6 DEF m
      <4> HIDE DEF h
      <4>2. n = 0 \/ m - n >= block
        BY <3>7
      <4>3. Lesser(block, h) <= block
        BY ONLY <4>1 DEF Lesser
      <4>4. Lesser(block, h) \in Nat
        BY ONLY <4>1 DEF Lesser
      <4>5. m - n >= Lesser(block, h)
        <5> DEFINE z == Lesser(block, h)
        <5> HIDE DEF z
        <5>1. n \in Nat
          BY <1>1
        <5>2. z <= block /\ z \in Nat /\ m >= z
          BY <4>1, <4>3, <4>4 DEF z
        <5>3. m - n >= z
          BY ONLY <4>1, <4>2, <5>1, <5>2
        <5> QED BY <5>3 DEF z
      <4> QED BY <4>5 DEF h
    <3>10. Len(rest) = m - n
      BY <2>7 DEF m
    <3> QED BY <3>4, <3>6, <3>8, <3>9, <3>10
  <2>11. Holds(i)'
    BY <1>4, <1>6, <1>10, <2>2, <2>8, <2>9, <2>10 DEF Holds, Makes
  <2>12. Sends(i)' /\ Ended(i)'
    BY <1>4, <1>8, <1>10 DEF Sends, Ended
  <2> QED BY <2>11, <2>12
<1> QED BY <1>2, <1>9, <1>11, <1>12, OneIntact

-----------------------------------------------------------------------------
(* The chip starting an operation, told apart from the types.              *)
Started(h, alg, lazy, status, new) ==
  /\ new \in Nat /\ new \notin DOMAIN session /\ \A i \in DOMAIN session : i < new
  /\ DOMAIN session' = DOMAIN session \cup {new}
  /\ \A i \in DOMAIN session :
       /\ session'[i].handle = session[i].handle
       /\ session'[i].algorithm = session[i].algorithm
       /\ session'[i].lazy = session[i].lazy
       /\ session'[i].status = session[i].status
       /\ session'[i].accepted = session[i].accepted
       /\ session'[i].absorbed = session[i].absorbed
       /\ session'[i].clean = (session[i].clean /\ session[i].handle # h)
  /\ session'[new] = [handle |-> h, algorithm |-> alg, lazy |-> lazy,
                      status |-> status, accepted |-> 0, absorbed |-> << >>,
                      clean |-> TRUE]
  /\ h \notin DOMAIN device
  /\ DOMAIN device' = DOMAIN device \cup {h} /\ device'[h] = new
  /\ \A g \in DOMAIN device : device'[g] = device[g]

LEMMA ChipStartsEffect ==
  ASSUME Inv, NEW h \in Handles, NEW alg, NEW lazy, NEW status,
         ChipStarts(h, alg, lazy, status), NEW new, new = Len(session) + 1
  PROVE  Started(h, alg, lazy, status, new)
<1> DEFINE old == [i \in DOMAIN session |->
                     [session[i] EXCEPT !.clean = @ /\ session[i].handle # h]]
           rec == [handle |-> h, algorithm |-> alg, lazy |-> lazy,
                   status |-> status, accepted |-> 0, absorbed |-> << >>,
                   clean |-> TRUE]
           T == {old[i] : i \in DOMAIN session} \cup {rec}
<1>1. h \notin DOMAIN device /\ device' = With(device, h, new)
  BY DEF ChipStarts
<1>2. /\ DOMAIN device' = DOMAIN device \cup {h} /\ device'[h] = new
      /\ \A g \in DOMAIN device : device'[g] = device[g]
  BY <1>1 DEF With
<1>3. old \in [1 .. Len(session) -> T] /\ Len(session) \in Nat
  BY Facts, KeymasterAssumption
<1>4. old \in Seq(T) /\ Len(old) = Len(session) /\ DOMAIN old = 1 .. Len(session)
  BY <1>3, FunctionIsSeq
<1>5. session' = Append(old, rec) /\ rec \in T
  BY DEF ChipStarts
<1>6. \A i \in DOMAIN session :
        /\ old[i].handle = session[i].handle
        /\ old[i].algorithm = session[i].algorithm
        /\ old[i].lazy = session[i].lazy
        /\ old[i].status = session[i].status
        /\ old[i].accepted = session[i].accepted
        /\ old[i].absorbed = session[i].absorbed
        /\ old[i].clean = (session[i].clean /\ session[i].handle # h)
  BY Facts DEF Session
<1> HIDE DEF old, rec, T
<1>7. /\ session' \in Seq(T) /\ Len(session') = new /\ session'[new] = rec
      /\ \A i \in 1 .. Len(old) : session'[i] = old[i]
  BY <1>4, <1>5, AppendProperties
<1>8. DOMAIN session' = 1 .. new
  BY <1>7, LenProperties
<1>9. /\ new \in Nat /\ new \notin DOMAIN session /\ \A i \in DOMAIN session : i < new
      /\ DOMAIN session' = DOMAIN session \cup {new}
      /\ DOMAIN session = 1 .. Len(old)
  BY <1>3, <1>4, <1>8, Facts
<1> QED BY <1>1, <1>2, <1>6, <1>7, <1>9 DEF rec, Started

(* The operation that was started is the last under its handle.            *)
LEMMA StartsOwners ==
  ASSUME Inv, HandlesInOrder, NEW h, NEW alg, NEW lazy, NEW status, NEW new,
         new = Len(session) + 1,
         Started(h, alg, lazy, status, new), call'.op \in {0, new}
  PROVE  HandlesInOrder' /\ OneCaller'
<1>1. /\ new \in Nat /\ new \notin DOMAIN session /\ \A i \in DOMAIN session : i < new
      /\ DOMAIN session' = DOMAIN session \cup {new}
      /\ \A i \in DOMAIN session :
           /\ session'[i].handle = session[i].handle
           /\ session'[i].algorithm = session[i].algorithm
           /\ session'[i].lazy = session[i].lazy
           /\ session'[i].status = session[i].status
           /\ session'[i].accepted = session[i].accepted
           /\ session'[i].absorbed = session[i].absorbed
           /\ session'[i].clean = (session[i].clean /\ session[i].handle # h)
      /\ session'[new] = [handle |-> h, algorithm |-> alg, lazy |-> lazy,
                          status |-> status, accepted |-> 0, absorbed |-> << >>,
                          clean |-> TRUE]
      /\ h \notin DOMAIN device
      /\ DOMAIN device' = DOMAIN device \cup {h} /\ device'[h] = new
      /\ \A g \in DOMAIN device : device'[g] = device[g]
  BY DEF Started
<1>4. 0 \notin DOMAIN session /\ new # 0 /\ DOMAIN session \subseteq Nat
  <2>1. DOMAIN session = 1 .. Len(session) /\ Len(session) \in Nat
    BY Facts, KeymasterAssumption
  <2>2. new = Len(session) + 1
    OBVIOUS
  <2> QED BY ONLY <2>1, <2>2
<1>5. HandlesInOrder'
  <2>1. ASSUME NEW i \in DOMAIN session', NEW j \in DOMAIN session',
               session'[i].clean, i < j
        PROVE  session'[j].handle # session'[i].handle
    <3>1. i # new
      BY <1>1, <1>4, <2>1
    <3>2. i \in DOMAIN session /\ session[i].clean /\ session[i].handle # h
      BY <1>1, <2>1, <3>1
    <3>3. CASE j = new
      BY <1>1, <3>2, <3>3
    <3>4. CASE j \in DOMAIN session
      BY <1>1, <2>1, <3>2, <3>4 DEF HandlesInOrder
    <3> QED BY <1>1, <3>3, <3>4
  <2>2. ASSUME NEW g \in DOMAIN device'
        PROVE  /\ session'[device'[g]].handle = g
               /\ \A i \in DOMAIN session' : session'[i].handle = g => i <= device'[g]
    <3>1. CASE g = h
      BY <1>1, <1>4, <3>1
    <3>2. CASE g # h
      <4>1. g \in DOMAIN device /\ device'[g] = device[g] /\ device[g] \in DOMAIN session
        BY <1>1, <3>2, Facts
      <4>2. /\ session[device[g]].handle = g
            /\ \A i \in DOMAIN session : session[i].handle = g => i <= device[g]
        BY <4>1 DEF HandlesInOrder
      <4> QED BY <1>1, <3>2, <4>1, <4>2
    <3> QED BY <3>1, <3>2
  <2> QED BY <2>1, <2>2 DEF HandlesInOrder
<1>6. OneCaller'
  <2>1. CASE call'.op = 0
    BY <1>1, <1>4, <2>1 DEF OneCaller
  <2>2. CASE call'.op = new
    <3>1. handle' = h
      BY <1>1, <2>2 DEF handle
    <3> QED BY <1>1, <2>2, <3>1 DEF OneCaller
  <2> QED BY <2>1, <2>2
<1> QED BY <1>5, <1>6

(* An operation that was started takes nobody's handle from a clean        *)
(* operation, and owes nothing yet.                                        *)
LEMMA StartsIntact ==
  ASSUME Inv, StreamInv, call.pc = "BeginOperation",
         NEW h \in Handles, NEW alg, NEW lazy \in BOOLEAN,
         NEW status \in {"open", "closed"}, ChipStarts(h, alg, lazy, status),
         \A g \in DOMAIN bufferMap' \ {h} :
           g \in DOMAIN bufferMap /\ bufferMap'[g] = bufferMap[g],
         status = "open" =>
           call' = Idle /\ bufferMap'[h].algorithm = alg /\ bufferMap'[h].buffer = << >>,
         call' \in {Idle, [call EXCEPT !.pc = "AbortOperation", !.op = Len(session) + 1]}
  PROVE  StreamInv'
<1>0. PICK new \in Nat : new = Len(session) + 1
  <2>1. Len(session) + 1 \in Nat
    BY Facts, KeymasterAssumption
  <2> QED BY <2>1
<1>1. /\ new \in Nat /\ new \notin DOMAIN session /\ \A i \in DOMAIN session : i < new
      /\ DOMAIN session' = DOMAIN session \cup {new}
      /\ \A i \in DOMAIN session :
           /\ session'[i].handle = session[i].handle
           /\ session'[i].algorithm = session[i].algorithm
           /\ session'[i].lazy = session[i].lazy
           /\ session'[i].status = session[i].status
           /\ session'[i].accepted = session[i].accepted
           /\ session'[i].absorbed = session[i].absorbed
           /\ session'[i].clean = (session[i].clean /\ session[i].handle # h)
      /\ session'[new] = [handle |-> h, algorithm |-> alg, lazy |-> lazy,
                          status |-> status, accepted |-> 0, absorbed |-> << >>,
                          clean |-> TRUE]
      /\ h \notin DOMAIN device
      /\ DOMAIN device' = DOMAIN device \cup {h} /\ device'[h] = new
      /\ \A g \in DOMAIN device : device'[g] = device[g]
  <2>1. Started(h, alg, lazy, status, new)
    BY <1>0, ChipStartsEffect, Zenon
  <2> QED BY ONLY <2>1 DEF Started
<1>2. call.op = 0 /\ call.done = 0 /\ call.taken = 0
  BY DEF StreamInv, CallShape, Shape
<1>3. \/ call' = Idle /\ call'.op = 0 /\ call'.pc = "idle"
      \/ /\ call'.pc = "AbortOperation" /\ call'.op = new
         /\ call'.done = 0 /\ call'.taken = 0
  <2>1. CASE call' = Idle
    BY <2>1 DEF Idle
  <2>2. CASE call' = [call EXCEPT !.pc = "AbortOperation", !.op = new]
    <3>1. call \in Call
      BY Facts
    <3>2. /\ call'.pc = "AbortOperation" /\ call'.op = new
          /\ call'.done = call.done /\ call'.taken = call.taken
      BY <2>2, <3>1 DEF Call
    <3> QED BY <1>2, <3>2
  <2> QED BY <1>0, <2>1, <2>2
<1>4. 0 \notin DOMAIN session /\ new # 0 /\ DOMAIN session \subseteq Nat
  <2>1. DOMAIN session = 1 .. Len(session) /\ Len(session) \in Nat
    BY Facts, KeymasterAssumption
  <2> QED BY ONLY <1>0, <2>1
<1>5. HandlesInOrder' /\ OneCaller'
  <2>1. Started(h, alg, lazy, status, new)
    BY <1>0, ChipStartsEffect, Zenon
  <2> QED BY <1>0, <1>3, <2>1, StartsOwners DEF StreamInv
<1>7. CallShape'
  <2>1. CASE call' = Idle
    BY <2>1, IdleShape
  <2>2. CASE call'.pc = "AbortOperation" /\ call'.done = 0 /\ call'.taken = 0
    BY <2>2 DEF CallShape, Shape
  <2> QED BY <1>3, <2>1, <2>2
<1>8. ASSUME NEW i \in DOMAIN session
      PROVE  Intact(i)'
  <2>1. SUFFICES ASSUME session[i].clean, session[i].handle # h
                 PROVE  Holds(i)' /\ Sends(i)' /\ Ended(i)'
    BY <1>1 DEF Intact
  <2>2. Holds(i) /\ Ended(i)
    BY <2>1 DEF StreamInv, Intact
  <2>3. call.op # i /\ call'.op # i
    BY <1>1, <1>2, <1>3, <1>4
  <2>4. /\ session'[i].handle = session[i].handle
        /\ session'[i].algorithm = session[i].algorithm
        /\ session'[i].lazy = session[i].lazy
        /\ session'[i].status = session[i].status
        /\ session'[i].accepted = session[i].accepted
        /\ session'[i].absorbed = session[i].absorbed
    BY <1>1
  <2>5. HandedOver(i)' = HandedOver(i) /\ Owed(i)' = Owed(i)
    BY <2>3, <2>4 DEF HandedOver, Owed
  <2>6. Holds(i)'
    <3>1. SUFFICES ASSUME session[i].status = "open", session[i].handle \in DOMAIN bufferMap'
                   PROVE  /\ bufferMap'[session[i].handle].algorithm = session[i].algorithm
                          /\ session[i].lazy => session[i].absorbed = << >>
                          /\ Makes(i, bufferMap[session[i].handle].buffer)'
      BY <2>4 DEF Holds
    <3>2. /\ session[i].handle \in DOMAIN bufferMap
          /\ bufferMap'[session[i].handle] = bufferMap[session[i].handle]
      BY <2>1, <3>1
    <3> QED BY <2>2, <2>4, <2>5, <3>1, <3>2 DEF Holds, Makes
  <2>7. Sends(i)' /\ Ended(i)'
    BY <2>2, <2>3, <2>4, <2>5 DEF Sends, Ended
  <2> QED BY <2>6, <2>7
<1>9. Intact(new)'
  <2>1. /\ session'[new].handle = h /\ session'[new].algorithm = alg
        /\ session'[new].lazy = lazy /\ session'[new].status = status
        /\ session'[new].accepted = 0 /\ session'[new].absorbed = << >>
    BY <1>1
  <2>2. HandedOver(new)' = 0
    BY <1>3, <1>4, <2>1 DEF HandedOver
  <2>3. Owed(new)' = 0
    BY <2>1, <2>2, BufferAssumption DEF Owed, Lesser
  <2>4. Makes(new, << >>)'
    <3> DEFINE block == BlockSize(alg)
    <3>1. block \in Nat
      BY BufferAssumption DEF BlockSize
    <3>2. << >> \o << >> = Chunk(new, 0, 0)
      BY ChunkEmpty, EmptySeq, ConcatEmptySeq
    <3> HIDE DEF block
    <3>3. Len(<< >>) = 0 /\ (block > 0 => 0 % block = 0 /\ 0 >= Lesser(block, 0))
      BY <3>1, EmptySeq DEF Lesser
    <3> QED BY <2>1, <2>2, <2>3, <3>2, <3>3 DEF Makes, block
  <2>5. Holds(new)'
    <3>1. CASE status = "open"
      <4>1. bufferMap'[h].algorithm = alg /\ bufferMap'[h].buffer = << >>
        BY <3>1
      <4> QED BY <2>1, <2>4, <4>1 DEF Holds, Makes
    <3>2. CASE status = "closed"
      BY <2>1, <3>2 DEF Holds
    <3> QED BY <3>1, <3>2
  <2>6. Sends(new)' /\ Ended(new)'
    BY <1>3, <2>1 DEF Sends, Ended
  <2> QED BY <2>5, <2>6 DEF Intact
<1>10. \A i \in DOMAIN session' : Intact(i)'
  BY <1>1, <1>8, <1>9
<1> QED BY <1>5, <1>7, <1>10 DEF StreamInv

LEMMA BeginStepsIntact == ASSUME Inv, StreamInv, BeginSteps PROVE StreamInv'
<1>1. CASE BeginOperationFails
  <2>1. call.pc = "BeginOperation" /\ call' = Idle /\ UNCHANGED bufferMap
    BY <1>1 DEF BeginOperationFails
  <2>2. CASE UNCHANGED <<device, session>>
    <3>1. call.op = 0 /\ call'.op = 0 /\ call'.pc = "idle"
      BY <2>1 DEF StreamInv, CallShape, Shape, Idle
    <3>2. 0 \notin DOMAIN session
      BY Facts
    <3>3. HandlesInOrder' /\ OneCaller' /\ CallShape'
      BY <2>1, <2>2, <3>1, <3>2, IdleShape DEF StreamInv, HandlesInOrder, OneCaller
    <3>4. ASSUME NEW i \in DOMAIN session PROVE Intact(i)'
      <4>1. call.op # i /\ call'.op # i
        BY <3>1, <3>2
      <4>2. HandedOver(i)' = HandedOver(i) /\ Owed(i)' = Owed(i)
        BY <2>2, <4>1 DEF HandedOver, Owed
      <4>3. session[i].clean => Holds(i) /\ Ended(i)
        BY DEF StreamInv, Intact
      <4> QED BY <2>1, <2>2, <4>1, <4>2, <4>3 DEF Intact, Holds, Sends, Ended, Makes
    <3> QED BY <2>2, <3>3, <3>4 DEF StreamInv
  <2>3. ASSUME NEW h \in Handles, NEW alg \in KeyAlgorithms, NEW lazy \in BOOLEAN,
               ChipStarts(h, alg, lazy, "closed")
        PROVE  StreamInv'
    <3>1. \A g \in DOMAIN bufferMap' \ {h} :
            g \in DOMAIN bufferMap /\ bufferMap'[g] = bufferMap[g]
      BY <2>1
    <3> QED BY <2>1, <2>3, <3>1, StartsIntact
  <2> QED BY <1>1, <2>2, <2>3 DEF BeginOperationFails
<1>2. ASSUME NEW h \in Handles, NEW alg \in KeyAlgorithms, NEW lazy \in BOOLEAN,
             BeginOperationOk(h, alg, lazy)
      PROVE  StreamInv'
  <2> DEFINE rec == [algorithm |-> alg, buffer |-> << >>, owner |-> Len(session) + 1]
  <2>1. /\ call.pc = "BeginOperation" /\ call' = Idle
        /\ ChipStarts(h, alg, lazy, "open")
        /\ bufferMap' = With(bufferMap, h, rec)
        /\ h \notin DOMAIN bufferMap
    BY <1>2 DEF BeginOperationOk, Duplicate
  <2>2. rec.algorithm = alg /\ rec.buffer = << >>
    OBVIOUS
  <2> HIDE DEF rec
  <2>3. /\ bufferMap'[h] = rec
        /\ \A g \in DOMAIN bufferMap' \ {h} :
             g \in DOMAIN bufferMap /\ bufferMap'[g] = bufferMap[g]
    BY <2>1 DEF With
  <2> QED BY <2>1, <2>2, <2>3, StartsIntact
<1>3. ASSUME NEW h \in Handles, NEW alg \in KeyAlgorithms, NEW lazy \in BOOLEAN,
             BeginOperationGivesUp(h, alg, lazy)
      PROVE  StreamInv'
  <2>1. /\ call.pc = "BeginOperation"
        /\ ChipStarts(h, alg, lazy, "closed")
        /\ call' = [call EXCEPT !.pc = "AbortOperation", !.op = Len(session) + 1]
        /\ bufferMap' = Without(bufferMap, h) \/ UNCHANGED bufferMap
    BY <1>3 DEF BeginOperationGivesUp
  <2>2. \A g \in DOMAIN bufferMap' \ {h} :
          g \in DOMAIN bufferMap /\ bufferMap'[g] = bufferMap[g]
    BY <2>1, WithoutKeeps
  <2> QED BY <2>1, <2>2, StartsIntact
<1> QED BY <1>1, <1>2, <1>3 DEF BeginSteps
-----------------------------------------------------------------------------
(* Steps that leave a clean operation, and its share of the call, alone.   *)
LEMMA StillIntact ==
  ASSUME NEW i \in DOMAIN session, Intact(i),
         session'[i].clean => session'[i] = session[i] /\ HandedOver(i)' = HandedOver(i),
         \A h \in DOMAIN bufferMap' : h \in DOMAIN bufferMap /\ bufferMap'[h] = bufferMap[h],
         call'.pc = "FinishOperation" => UNCHANGED call
  PROVE  Intact(i)'
<1>1. SUFFICES ASSUME session'[i].clean PROVE Holds(i)' /\ Sends(i)' /\ Ended(i)'
  BY DEF Intact
<1>2. session'[i] = session[i] /\ HandedOver(i)' = HandedOver(i) /\ Owed(i)' = Owed(i)
  BY <1>1 DEF Owed
<1>3. Holds(i) /\ Sends(i) /\ Ended(i)
  BY <1>1, <1>2 DEF Intact
<1>4. Holds(i)'
  BY <1>2, <1>3 DEF Holds, Makes
<1>5. Sends(i)'
  BY <1>2, <1>3 DEF Sends, Makes
<1>6. Ended(i)'
  BY <1>2, <1>3 DEF Ended
<1> QED BY <1>4, <1>5, <1>6

(* The clients.  Whoever else had the handle is not clean any more.        *)
LEMMA ArrivesOwners ==
  ASSUME Inv, HandlesInOrder, NEW op, NEW size, NEW api, NEW pc, Arrives(api, pc, op, size)
  PROVE  HandlesInOrder' /\ OneCaller'
<1>1. op \in DOMAIN session /\ UNCHANGED device /\ call'.op = op
  BY DEF Arrives, Idle
<1>2. /\ DOMAIN session' = DOMAIN session
      /\ \A i \in DOMAIN session :
           /\ session'[i].handle = session[i].handle
           /\ session'[i].clean => session'[i] = session[i]
           /\ (i # op /\ session[i].handle = session[op].handle) => session'[i].clean = FALSE
  BY Facts DEF Arrives, Session
<1>3. \A h \in DOMAIN device : device[h] \in DOMAIN session
  BY Facts
<1>4. HandlesInOrder'
  BY <1>1, <1>2, <1>3 DEF HandlesInOrder
<1>5. OneCaller'
  BY <1>1, <1>2 DEF OneCaller, handle
<1> QED BY <1>4, <1>5

LEMMA ArrivesIntact ==
  ASSUME Inv, StreamInv, NEW op, NEW size, NEW api,
         NEW pc \in {"update", "finish", "AbortOperation"}, Arrives(api, pc, op, size)
  PROVE  StreamInv'
<1>1. /\ call.pc = "idle" /\ op \in DOMAIN session /\ session[op].status = "open"
      /\ UNCHANGED <<bufferMap, device>>
  BY DEF Arrives
<1>2. call.op = 0 /\ call.done = 0 /\ call.taken = 0 /\ 0 \notin DOMAIN session
  BY <1>1, Facts DEF StreamInv, CallShape, Shape
<1>3. call'.pc = pc /\ call'.op = op /\ call'.done = 0 /\ call'.taken = 0
  BY DEF Arrives, Idle
<1>4. /\ DOMAIN session' = DOMAIN session
      /\ \A i \in DOMAIN session :
           /\ session'[i].handle = session[i].handle
           /\ session'[i].status = session[i].status
           /\ session'[i].clean => session'[i] = session[i]
           /\ (i # op /\ session[i].handle = session[op].handle) => session'[i].clean = FALSE
  BY Facts DEF Arrives, Session
<1>5. HandlesInOrder' /\ OneCaller'
  BY ArrivesOwners DEF StreamInv
<1>7. CallShape'
  BY <1>1, <1>3, <1>4 DEF CallShape, Shape
<1>8. ASSUME NEW i \in DOMAIN session PROVE Intact(i)'
  <2>1. ASSUME session'[i].clean PROVE HandedOver(i)' = HandedOver(i)
    <3>1. session'[i].accepted = session[i].accepted
      BY <1>4, <2>1
    <3> QED BY <1>2, <1>3, <3>1 DEF HandedOver
  <2> QED BY <1>1, <1>3, <1>4, <2>1, StillIntact DEF StreamInv
<1> QED BY <1>4, <1>5, <1>7, <1>8 DEF StreamInv

LEMMA BeginIntact == ASSUME Inv, StreamInv, Begin PROVE StreamInv'
<1>1. call.pc = "idle" /\ UNCHANGED <<bufferMap, device, session>>
  BY DEF Begin
<1>2. call.op = 0 /\ call.done = 0 /\ call.taken = 0 /\ 0 \notin DOMAIN session
  BY <1>1, Facts DEF StreamInv, CallShape, Shape
<1>3. /\ call'.pc = "BeginOperation" /\ call'.op = 0
      /\ call'.done = 0 /\ call'.taken = 0
  BY DEF Begin, Idle
<1>4. HandlesInOrder' /\ OneCaller' /\ CallShape'
  BY <1>1, <1>2, <1>3 DEF StreamInv, HandlesInOrder, OneCaller, CallShape, Shape
<1>5. ASSUME NEW i \in DOMAIN session PROVE Intact(i)'
  <2>1. HandedOver(i)' = HandedOver(i)
    BY <1>1, <1>2, <1>3 DEF HandedOver
  <2> QED BY <1>1, <1>3, <2>1, StillIntact DEF StreamInv
<1> QED BY <1>1, <1>4, <1>5 DEF StreamInv

(* Faults from outside the call.                                           *)
LEMMA ChipResetsIntact == ASSUME Inv, StreamInv, ChipResets PROVE StreamInv'
<1>1. UNCHANGED <<bufferMap, call, session>> /\ DOMAIN device' = {}
  BY DEF ChipResets
<1>2. HandlesInOrder' /\ OneCaller' /\ CallShape'
  BY <1>1 DEF StreamInv, HandlesInOrder, OneCaller, CallShape, Shape, handle
<1>3. ASSUME NEW i \in DOMAIN session PROVE Intact(i)'
  <2>1. HandedOver(i)' = HandedOver(i)
    BY <1>1 DEF HandedOver
  <2> QED BY <1>1, <2>1, StillIntact DEF StreamInv
<1> QED BY <1>1, <1>2, <1>3 DEF StreamInv

LEMMA HalCrashesIntact == ASSUME Inv, StreamInv, HalCrashes PROVE StreamInv'
<1>1. call' = Idle /\ call'.op = 0 /\ call'.pc = "idle" /\ DOMAIN bufferMap' = {}
      /\ UNCHANGED device
  BY DEF HalCrashes, Idle
<1>2. /\ DOMAIN session' = DOMAIN session
      /\ \A i \in DOMAIN session :
           /\ session'[i].handle = session[i].handle
           /\ session'[i].accepted = session[i].accepted
           /\ session'[i].clean => i # call.op /\ session'[i] = session[i]
  BY Facts DEF HalCrashes, Session
<1>3. 0 \notin DOMAIN session
  BY Facts
<1>4. HandlesInOrder'
  <2>1. \A h \in DOMAIN device : device[h] \in DOMAIN session
    BY Facts
  <2> QED BY <1>1, <1>2, <2>1 DEF StreamInv, HandlesInOrder
<1>5. OneCaller' /\ CallShape'
  BY <1>1, <1>2, <1>3, IdleShape DEF OneCaller
<1>6. ASSUME NEW i \in DOMAIN session PROVE Intact(i)'
  <2>1. ASSUME session'[i].clean PROVE HandedOver(i)' = HandedOver(i)
    BY <1>1, <1>2, <1>3, <2>1 DEF HandedOver
  <2> QED BY <1>1, <1>2, <2>1, StillIntact DEF StreamInv
<1> QED BY <1>2, <1>4, <1>5, <1>6 DEF StreamInv
-----------------------------------------------------------------------------
LEMMA InitStream == Init => StreamInv
<1>1. Init => DOMAIN session = {} /\ DOMAIN device = {} /\ call = Idle
  BY DEF Init
<1>2. Idle.pc = "idle" /\ Idle.op = 0 /\ Idle.done = 0 /\ Idle.taken = 0
  BY DEF Idle
<1> QED BY <1>1, <1>2 DEF StreamInv, HandlesInOrder, OneCaller, CallShape, Shape

LEMMA NextStream ==
  ASSUME Misreports = FALSE, Inv, StreamInv, [Next]_vars
  PROVE  StreamInv'
<1>1. CASE ClientSteps
  <2>1. ASSUME NEW op, NEW size, Update(op, size) \/ Finish(op, size) \/ Abort(op)
        PROVE  StreamInv'
    BY <2>1, ArrivesIntact DEF Update, Finish, Abort
  <2> QED BY <1>1, <2>1, BeginIntact DEF ClientSteps
<1>2. CASE BeginSteps
  BY <1>2, BeginStepsIntact
<1>3. CASE UpdateSteps
  <2>1. CASE UpdateAbsent
    <3>1. call.op \in DOMAIN session
      BY <2>1 DEF UpdateAbsent, Inv, CallInv
    <3> QED BY <2>1, <3>1, CallFailsIntact DEF UpdateAbsent
  <2>2. CASE UpdateAppends
    BY <2>2, UpdateAppendsIntact
  <2>3. ASSUME NEW n \in 0 .. MaxChunkSize + 1, UpdateOperationOk(n) PROVE StreamInv'
    BY <2>3, UpdateOperationOkIntact
  <2>4. CASE UpdateOperationRefused
    BY <2>4, RefusedIntact DEF UpdateOperationRefused
  <2>5. CASE UpdateOperationLost
    <3>1. call.op \in DOMAIN session
      BY <2>5 DEF UpdateOperationLost, Inv, CallInv
    <3> QED BY <2>5, <3>1, LostIntact DEF UpdateOperationLost
  <2> QED BY <1>3, <2>1, <2>2, <2>3, <2>4, <2>5 DEF UpdateSteps
<1>4. CASE FinishSteps
  <2>1. CASE FinishUpdates
    BY <2>1, FinishUpdatesIntact
  <2>2. CASE FinishAbsent
    <3>1. call.op \in DOMAIN session
      BY <2>2 DEF FinishAbsent, Inv, CallInv
    <3> QED BY <2>2, <3>1, CallFailsIntact DEF FinishAbsent
  <2>3. CASE FinishFinal
    BY <2>3, FinishFinalIntact
  <2>4. CASE FinishOperationOk
    BY <2>4, FinishOperationOkIntact
  <2>5. CASE FinishOperationRefused
    BY <2>5, RefusedIntact DEF FinishOperationRefused
  <2>6. CASE FinishOperationLost
    <3>1. call.op \in DOMAIN session
      BY <2>6 DEF FinishOperationLost, Inv, CallInv
    <3>2. \A h \in DOMAIN device' : h \in DOMAIN device /\ device'[h] = device[h]
      BY <2>6, WithoutKeeps DEF FinishOperationLost
    <3> QED BY <2>6, <3>1, <3>2, LostIntact DEF FinishOperationLost
  <2> QED BY <1>4, <2>1, <2>2, <2>3, <2>4, <2>5, <2>6 DEF FinishSteps
<1>5. CASE AbortSteps
  BY <1>5, AbortStepsIntact
<1>6. CASE ChipResets
  BY <1>6, ChipResetsIntact
<1>7. CASE HalCrashes
  BY <1>7, HalCrashesIntact
<1>8. CASE UNCHANGED vars
  <2>1. UNCHANGED <<bufferMap, call, device, session>>
    BY <1>8 DEF vars
  <2>2. HandlesInOrder' /\ OneCaller' /\ CallShape'
    BY <2>1 DEF StreamInv, HandlesInOrder, OneCaller, CallShape, Shape, handle
  <2>3. ASSUME NEW i \in DOMAIN session PROVE Intact(i)'
    <3>1. HandedOver(i)' = HandedOver(i)
      BY <2>1 DEF HandedOver
    <3> QED BY <2>1, <3>1, StillIntact DEF StreamInv
  <2> QED BY <2>1, <2>2, <2>3 DEF StreamInv
<1> QED BY <1>1, <1>2, <1>3, <1>4, <1>5, <1>6, <1>7, <1>8 DEF Next, HalSteps

(* Whatever the clients, the faults and the reuse of handles, an operation *)
(* no call of which failed, and whose handle stayed its own, has its bytes *)
(* with the chip or in its buffer, each once and in order -- when the chip *)
(* reports what it consumed (Misreports says whether it does).             *)
THEOREM StreamsArriveIntact ==
  ASSUME Misreports = FALSE
  PROVE  Spec => []StreamIntact
<1>1. Init => Inv /\ StreamInv
  BY InitInv, InitStream
<1>2. Inv /\ StreamInv /\ [Next]_vars => (Inv /\ StreamInv)'
  BY NextInv, NextStream
<1>3. StreamInv => StreamIntact
  BY DEF StreamInv, StreamIntact, Intact, Holds, Sends, Ended, Makes
<1> QED BY <1>1, <1>2, <1>3, PTL DEF Spec

(* Of a block cipher finish() sends the chip the last block, and the chip  *)
(* has had whole blocks before it.                                         *)
THEOREM LastBlocksReachFinish ==
  ASSUME Misreports = FALSE
  PROVE  Spec => []LastBlockForFinish
<1>1. Init => Inv /\ StreamInv
  BY InitInv, InitStream
<1>2. Inv /\ StreamInv /\ [Next]_vars => (Inv /\ StreamInv)'
  BY NextInv, NextStream
<1>3. StreamInv => LastBlockForFinish
  BY DEF StreamInv, LastBlockForFinish, Intact, Sends, Makes
<1> QED BY <1>1, <1>2, <1>3, PTL DEF Spec
-----------------------------------------------------------------------------
(* Every call gets on with its work: the part of CallsReturn that is       *)
(* about steps.                                                            *)

(* A buffer has the algorithm of the operation it was opened for, and      *)
(* only ECDSA operations make the chip wait for finish().                  *)
KindInv ==
  /\ \A i \in DOMAIN session : session[i].lazy => session[i].algorithm = "EC"
  /\ \A h \in DOMAIN bufferMap :
       /\ bufferMap[h].owner \in DOMAIN session
       /\ bufferMap[h].algorithm = session[bufferMap[h].owner].algorithm

(* All steps but those that start an operation keep what it speaks of.     *)
SameKind(s) ==
  /\ DOMAIN s = DOMAIN session
  /\ \A i \in DOMAIN session :
       s[i].algorithm = session[i].algorithm /\ s[i].lazy = session[i].lazy

SameBuffers ==
  \A h \in DOMAIN bufferMap' :
    /\ h \in DOMAIN bufferMap
    /\ bufferMap'[h].owner = bufferMap[h].owner
    /\ bufferMap'[h].algorithm = bufferMap[h].algorithm

LEMMA KindKept == ASSUME KindInv, SameKind(session'), SameBuffers PROVE KindInv'
BY DEF KindInv, SameKind, SameBuffers

LEMMA WithoutBuffers == ASSUME NEW h, bufferMap' = Without(bufferMap, h) PROVE SameBuffers
BY WithoutKeeps DEF SameBuffers

LEMMA FailedKind ==
  ASSUME Inv, call.op \in DOMAIN session,
         session' = [session EXCEPT ![call.op].clean = FALSE]
  PROVE  SameKind(session')
BY Facts DEF SameKind, Session

LEMMA RefusedKind ==
  ASSUME Inv, NEW pc, pc \notin {"idle", "BeginOperation"}, Refused(pc)
  PROVE  SameKind(session') /\ SameBuffers
<1>1. call.op \in DOMAIN session
  BY DEF Refused, Inv, CallInv
<1> QED BY <1>1, FailedKind DEF Refused, CallFails, SameBuffers

LEMMA UpdateStepsKind ==
  ASSUME Inv, StreamInv, Misreports = FALSE, UpdateSteps
  PROVE  SameKind(session') /\ SameBuffers
<1>1. CASE UpdateAbsent
  <2>1. call.op \in DOMAIN session
    BY <1>1 DEF UpdateAbsent, Inv, CallInv
  <2> QED BY <1>1, <2>1, FailedKind DEF UpdateAbsent, CallFails, SameBuffers
<1>2. CASE UpdateAppends
  <2>1. call.op \in DOMAIN session /\ handle \in DOMAIN bufferMap
    BY <1>2 DEF UpdateAppends, Inv, CallInv
  <2>2. SameKind(session')
    BY <1>2, <2>1, FailedKind DEF UpdateAppends, CallFails, SameKind
  <2>3. bufferMap' = [bufferMap EXCEPT ![handle].buffer = Appended(@, Input)]
    BY <1>2 DEF UpdateAppends
  <2>4. SameBuffers
    BY <2>1, <2>3, Facts DEF SameBuffers, Operation
  <2> QED BY <2>2, <2>4
<1>3. ASSUME NEW n \in 0 .. MaxChunkSize + 1, UpdateOperationOk(n)
      PROVE  SameKind(session') /\ SameBuffers
  <2>1. call.op \in DOMAIN session
    BY <1>3 DEF UpdateOperationOk, Inv, CallInv
  <2>2. PICK i \in DOMAIN session : i = call.op
    BY <2>1
  <2>3. /\ DOMAIN session' = DOMAIN session
        /\ \A j \in DOMAIN session \ {i} : session'[j] = session[j]
        /\ session'[i].algorithm = session[i].algorithm
        /\ session'[i].lazy = session[i].lazy
        /\ DOMAIN bufferMap' = DOMAIN bufferMap
        /\ \A h \in DOMAIN bufferMap' \ {handle} : bufferMap'[h] = bufferMap[h]
        /\ bufferMap'[handle].algorithm = bufferMap[handle].algorithm
    BY <1>3, <2>2, UpdateOperationOkEffect
  <2>4. SameKind(session')
    BY <2>3 DEF SameKind
  <2>5. \A h \in DOMAIN bufferMap' : bufferMap'[h].owner = bufferMap[h].owner
    <3>1. Keeps
      BY <1>3, UpdateStepsKeep DEF UpdateSteps
    <3> QED BY <3>1 DEF Keeps
  <2> QED BY <2>3, <2>4, <2>5 DEF SameBuffers
<1>4. CASE UpdateOperationRefused
  BY <1>4, RefusedKind DEF UpdateOperationRefused
<1>5. CASE UpdateOperationLost
  <2>1. call.op \in DOMAIN session
    BY <1>5 DEF UpdateOperationLost, Inv, CallInv
  <2> QED BY <1>5, <2>1, FailedKind DEF UpdateOperationLost, SameBuffers
<1> QED BY <1>1, <1>2, <1>3, <1>4, <1>5 DEF UpdateSteps

LEMMA FinishStepsKind ==
  ASSUME Inv, StreamInv, FinishSteps PROVE SameKind(session') /\ SameBuffers
<1>0. call.op \in DOMAIN session
  BY DEF FinishSteps, FinishUpdates, FinishAbsent, FinishFinal, FinishOperationOk,
         FinishOperationRefused, FinishOperationLost, Refused, Inv, CallInv
<1>1. CASE FinishUpdates
  BY <1>1 DEF FinishUpdates, SameKind, SameBuffers
<1>2. CASE FinishAbsent
  BY <1>0, <1>2, FailedKind DEF FinishAbsent, CallFails, SameBuffers
<1>3. CASE FinishFinal
  <2>1. SameKind(session')
    BY <1>0, <1>3, FailedKind DEF FinishFinal, CallFails, SameKind
  <2> QED BY <1>3, <2>1, WithoutBuffers DEF FinishFinal
<1>4. CASE FinishOperationOk
  <2> DEFINE absorbed == ChipAbsorbs(call.data)
             i == call.op
  <2>1. /\ handle \in DOMAIN device /\ UNCHANGED bufferMap
        /\ session' = [absorbed EXCEPT ![i].status = "finished",
                                       ![i].accepted = @ + call.done]
    BY <1>4 DEF FinishOperationOk
  <2>2. /\ DOMAIN absorbed = DOMAIN session
        /\ \A j \in DOMAIN session \ {i} : absorbed[j] = session[j]
        /\ absorbed[i] = IF session[i].clean
                         THEN [session[i] EXCEPT !.absorbed = @ \o call.data]
                         ELSE session[i]
    BY <1>0, <2>1, AbsorbsOwn DEF StreamInv
  <2> HIDE DEF absorbed
  <2>3. /\ absorbed[i].algorithm = session[i].algorithm
        /\ absorbed[i].lazy = session[i].lazy
        /\ absorbed[i] = [handle |-> absorbed[i].handle,
                          algorithm |-> absorbed[i].algorithm,
                          lazy |-> absorbed[i].lazy, status |-> absorbed[i].status,
                          accepted |-> absorbed[i].accepted,
                          absorbed |-> absorbed[i].absorbed, clean |-> absorbed[i].clean]
    BY <1>0, <2>2, Facts DEF Session
  <2>4. /\ session'[i].algorithm = absorbed[i].algorithm
        /\ session'[i].lazy = absorbed[i].lazy
        /\ DOMAIN session' = DOMAIN session
        /\ \A j \in DOMAIN session \ {i} : session'[j] = session[j]
    BY <1>0, <2>1, <2>2, <2>3
  <2> QED BY <1>0, <2>1, <2>3, <2>4 DEF SameKind, SameBuffers
<1>5. CASE FinishOperationRefused
  BY <1>5, RefusedKind DEF FinishOperationRefused
<1>6. CASE FinishOperationLost
  BY <1>0, <1>6, FailedKind DEF FinishOperationLost, SameBuffers
<1> QED BY <1>1, <1>2, <1>3, <1>4, <1>5, <1>6 DEF FinishSteps

LEMMA AbortStepsKind == ASSUME Inv, AbortSteps PROVE SameKind(session') /\ SameBuffers
<1>0. call.op \in DOMAIN session
  BY DEF AbortSteps, AbortOperationOk, AbortOperationFails, Inv, CallInv
<1>1. CASE AbortOperationOk
  BY <1>0, <1>1, Facts DEF AbortOperationOk, SameKind, SameBuffers, Session
<1>2. CASE AbortOperationFails
  BY <1>0, <1>2, FailedKind DEF AbortOperationFails, CallFails, SameBuffers
<1> QED BY <1>1, <1>2 DEF AbortSteps

(* The start of an operation, with or without a buffer for it.             *)
LEMMA StartsKind ==
  ASSUME Inv, KindInv, NEW h \in Handles, NEW alg, NEW lazy \in BOOLEAN, NEW status,
         ChipStarts(h, alg, lazy, status),
         \/ SameBuffers
         \/ bufferMap' = With(bufferMap, h, [algorithm |-> alg, buffer |-> << >>,
                                             owner |-> Len(session) + 1])
  PROVE  KindInv'
<1>1. PICK new \in Nat : new = Len(session) + 1
  <2>1. Len(session) + 1 \in Nat
    BY Facts, KeymasterAssumption
  <2> QED BY <2>1
<1>2. Started(h, alg, lazy, status, new)
  BY <1>1, ChipStartsEffect
<1>3. lazy => alg = "EC"
  BY DEF ChipStarts
<1>4. session'[new].algorithm = alg /\ session'[new].lazy = lazy
  BY <1>2 DEF Started
<1>5. /\ DOMAIN session' = DOMAIN session \cup {new}
      /\ \A i \in DOMAIN session : session'[i].algorithm = session[i].algorithm
                                   /\ session'[i].lazy = session[i].lazy
  BY <1>2 DEF Started
<1>6. \A i \in DOMAIN session' : session'[i].lazy => session'[i].algorithm = "EC"
  BY <1>3, <1>4, <1>5 DEF KindInv
<1>7. CASE SameBuffers
  BY <1>5, <1>6, <1>7 DEF KindInv, SameBuffers
<1>8. CASE bufferMap' = With(bufferMap, h, [algorithm |-> alg, buffer |-> << >>, owner |-> new])
  <2>1. \A g \in DOMAIN bufferMap' :
          \/ g \in DOMAIN bufferMap /\ bufferMap'[g] = bufferMap[g]
          \/ bufferMap'[g].algorithm = alg /\ bufferMap'[g].owner = new
    BY <1>8 DEF With
  <2> QED BY <1>4, <1>5, <1>6, <2>1 DEF KindInv
<1> QED BY <1>1, <1>7, <1>8

LEMMA ArrivesKind ==
  ASSUME Inv, NEW api, NEW pc, NEW op, NEW size, Arrives(api, pc, op, size)
  PROVE  SameKind(session') /\ SameBuffers
<1>1. session' = [i \in DOMAIN session |->
                    IF i # op /\ session[i].handle = session[op].handle
                    THEN [session[i] EXCEPT !.clean = FALSE]
                    ELSE session[i]]
  BY DEF Arrives
<1>2. ASSUME NEW i \in DOMAIN session
      PROVE  session'[i].algorithm = session[i].algorithm /\ session'[i].lazy = session[i].lazy
  <2>1. session[i] \in Session
    BY Facts
  <2>2. session'[i] \in {session[i], [session[i] EXCEPT !.clean = FALSE]}
    BY <1>1
  <2> QED BY <2>1, <2>2 DEF Session
<1> QED BY <1>1, <1>2 DEF SameKind, SameBuffers, Arrives

(* Every step keeps it.                                                    *)
LEMMA NextKind ==
  ASSUME Misreports = FALSE, Inv, StreamInv, KindInv, [Next]_vars
  PROVE  KindInv'
<1>1. CASE ClientSteps
  <2>1. ASSUME NEW op, NEW size, Update(op, size) \/ Finish(op, size) \/ Abort(op)
        PROVE  SameKind(session') /\ SameBuffers
    BY <2>1, ArrivesKind DEF Update, Finish, Abort
  <2>2. Begin => SameKind(session') /\ SameBuffers
    BY DEF Begin, SameKind, SameBuffers
  <2> QED BY <1>1, <2>1, <2>2, KindKept DEF ClientSteps
<1>2. CASE BeginSteps
  <2>1. CASE BeginOperationFails
    <3>1. SameBuffers
      BY <2>1 DEF BeginOperationFails, SameBuffers
    <3>2. CASE UNCHANGED session
      <4>1. SameKind(session')
        BY <3>2 DEF SameKind
      <4> QED BY <3>1, <4>1, KindKept
    <3> QED BY <2>1, <3>1, <3>2, StartsKind DEF BeginOperationFails
  <2>2. ASSUME NEW h \in Handles, NEW alg \in KeyAlgorithms, NEW lazy \in BOOLEAN,
               BeginOperationOk(h, alg, lazy)
        PROVE  KindInv'
    BY <2>2, StartsKind DEF BeginOperationOk
  <2>3. ASSUME NEW h \in Handles, NEW alg \in KeyAlgorithms, NEW lazy \in BOOLEAN,
               BeginOperationGivesUp(h, alg, lazy)
        PROVE  KindInv'
    <3>1. ChipStarts(h, alg, lazy, "closed")
      BY <2>3 DEF BeginOperationGivesUp
    <3>2. SameBuffers
      <4>1. CASE bufferMap' = Without(bufferMap, h)
        BY <4>1, WithoutBuffers
      <4>2. CASE UNCHANGED bufferMap
        BY <4>2 DEF SameBuffers
      <4> QED BY <2>3, <4>1, <4>2 DEF BeginOperationGivesUp
    <3> QED BY <3>1, <3>2, StartsKind
  <2> QED BY <1>2, <2>1, <2>2, <2>3 DEF BeginSteps
<1>3. CASE UpdateSteps \/ FinishSteps \/ AbortSteps
  BY <1>3, UpdateStepsKind, FinishStepsKind, AbortStepsKind, KindKept
<1>4. CASE ChipResets
  <2>1. SameKind(session') /\ SameBuffers
    BY <1>4 DEF ChipResets, SameKind, SameBuffers
  <2> QED BY <2>1, KindKept
<1>5. CASE HalCrashes
  <2>1. SameKind(session') /\ SameBuffers
    BY <1>5, Facts DEF HalCrashes, SameKind, SameBuffers, Session
  <2> QED BY <2>1, KindKept
<1>6. CASE UNCHANGED vars
  <2>1. SameKind(session') /\ SameBuffers
    BY <1>6 DEF vars, SameKind, SameBuffers
  <2> QED BY <2>1, KindKept
<1> QED BY <1>1, <1>2, <1>3, <1>4, <1>5, <1>6 DEF Next, HalSteps
-----------------------------------------------------------------------------
(* The bytes that wait in the buffer of the call being served.             *)
Queued == IF handle \in DOMAIN bufferMap THEN Len(bufferMap[handle].buffer) ELSE 0

(* What update() has yet to do for the call: a byte of input counts        *)
(* twice, once to be taken into the buffer and once to leave it.           *)
Work == 2 * (call.size - call.done) + Queued - call.taken

(* A bound on the steps of the HAL before the call returns. A byte of      *)
(* work takes at most three: finish() goes round, append() and peek(),     *)
(* the chip replies.                                                       *)
StepsLeft ==
  CASE call.pc = "idle"            -> 0
    [] call.pc = "AbortOperation"  -> 1
    [] call.pc = "BeginOperation"  -> 2
    [] call.pc = "FinishOperation" -> 2
    [] call.pc = "UpdateOperation" -> 3 + 3 * Work
    [] call.pc = "update"          -> 4 + 3 * Work
    [] call.pc = "finish"          -> 5 + 3 * Work

(* A round of update() in finish() is given something.                     *)
LoopInv ==
  /\ call.pc = "finish" => call.api = "finish"
  /\ call.pc \in {"update", "UpdateOperation"} =>
       call.api = "update" \/ (call.api = "finish" /\ call.done < call.size)

(* The call being served is on a clean operation.                          *)
CleanCall == call.op \in DOMAIN session /\ session[call.op].clean

(* No step of a call is in vain.                                           *)
StepsCount ==
  [][call.pc # "idle" /\ ~ Starved =>
       StepsLeft' < StepsLeft \/ (ChipResets /\ StepsLeft' = StepsLeft)]_vars

(* Both counts are natural numbers, here and, by PTL, in the next state.   *)
LEMMA WorkIsNat ==
  ASSUME Inv PROVE Queued \in Nat /\ Work \in Nat
<1>1. Queued \in Nat
  <2>1. CASE handle \in DOMAIN bufferMap
    <3>1. bufferMap[handle].buffer \in Seq(Byte)
      BY <2>1, Facts DEF Operation
    <3>2. Len(bufferMap[handle].buffer) \in Nat
      BY <3>1, LenProperties
    <3> QED BY <2>1, <3>2 DEF Queued
  <2>2. CASE handle \notin DOMAIN bufferMap
    BY <2>2 DEF Queued
  <2> QED BY <2>1, <2>2
<1>2. /\ call.size \in Nat /\ call.done \in Nat /\ call.taken \in Nat
      /\ call.done + call.taken <= call.size
  BY Facts, KeymasterAssumption DEF Inv, CallInv, Call
<1> QED BY <1>1, <1>2 DEF Work

LEMMA WorkType == Inv => Work \in Nat
BY WorkIsNat

LEMMA StepsLeftIsNat == ASSUME Inv PROVE StepsLeft \in Nat
<1>1. Work \in Nat
  BY WorkIsNat
<1>2. call.pc \in {"idle", "BeginOperation", "update", "UpdateOperation", "finish",
                   "FinishOperation", "AbortOperation"}
  BY Facts DEF Call
<1> HIDE DEF Work
<1> QED BY <1>1, <1>2 DEF StepsLeft

(* Whatever ends a call, or leaves it only abort() to do, counts.          *)
LEMMA ReturnsOrAborts ==
  ASSUME Inv, Inv', call.pc \notin {"idle", "AbortOperation"},
         call'.pc \in {"idle", "AbortOperation"}
  PROVE  StepsLeft' < StepsLeft
<1>1. Work \in Nat
  BY WorkIsNat
<1>2. call.pc \in {"BeginOperation", "update", "UpdateOperation", "finish",
                   "FinishOperation"}
  BY Facts DEF Call
<1>3. StepsLeft' \in {0, 1}
  BY DEF StepsLeft
<1> HIDE DEF Work
<1>4. StepsLeft \in Nat /\ StepsLeft >= 2
  BY <1>1, <1>2 DEF StepsLeft
<1> QED BY <1>3, <1>4

(* peek() makes room in a full buffer, whatever the algorithm.             *)
LEMMA FullIsPeeked ==
  ASSUME NEW alg \in Algorithm PROVE PeekCount(alg, MaxChunkSize) > 0
<1> DEFINE b == BlockSize(alg)
<1>1. b \in Nat /\ MaxChunkSize \in Nat \ {0} /\ MaxChunkSize >= 2 * b
  BY BufferAssumption DEF BlockSize
<1>2. CASE b = 0
  BY <1>1, <1>2, PeekAll
<1>3. CASE b > 0
  <2>1. MaxChunkSize > b
    BY <1>1, <1>3
  <2>2. PeekCount(alg, MaxChunkSize) = MaxChunkSize - ((MaxChunkSize % b) + b)
    BY <1>1, <1>3, <2>1 DEF PeekCount, Retain
  <2> HIDE DEF b
  <2>3. MaxChunkSize % b \in 0 .. b - 1
    BY <1>1, <1>3
  <2> QED BY <1>1, <2>2, <2>3
<1> QED BY <1>1, <1>2, <1>3

(* append() moves bytes from the input to the buffer: nothing is done      *)
(* yet.                                                                    *)
LEMMA AppendsWork ==
  ASSUME Inv, UpdateAppends, call'.pc = "UpdateOperation"
  PROVE  Work' = Work
<1> DEFINE b == bufferMap[handle].buffer
           k == AppendCount(Len(b), Len(Input))
<1>1. call.pc = "update" /\ call.op \in DOMAIN session /\ handle \in DOMAIN bufferMap
  BY DEF UpdateAppends, Inv, CallInv
<1>2. /\ bufferMap' = [bufferMap EXCEPT ![handle].buffer = Appended(@, Input)]
      /\ call' = [call EXCEPT !.pc = "UpdateOperation", !.taken = k]
      /\ UNCHANGED session
  BY DEF UpdateAppends, CallFails, Idle
<1>3. /\ call'.op = call.op /\ call'.size = call.size /\ call'.done = call.done
      /\ call'.taken = k /\ call.taken = 0
  BY <1>1, <1>2, Facts DEF Call, Inv, CallInv
<1>4. handle' = handle
  BY <1>2, <1>3 DEF handle
<1>5. bufferMap[handle] \in Operation /\ b \in Seq(Byte) /\ Len(b) <= MaxChunkSize
  BY <1>1, Facts DEF Operation, BufferBounded
<1>6. handle \in DOMAIN bufferMap' /\ bufferMap'[handle].buffer = Appended(b, Input)
  BY <1>1, <1>2, <1>5 DEF Operation
<1>7. Input \in Seq(Byte)
  <2> DEFINE from == session[call.op].accepted + call.done
             r == call.size - call.done
  <2>1. /\ session[call.op].accepted \in Nat /\ call.done \in Nat /\ call.size \in Nat
        /\ call.taken \in Nat /\ MaxStream \in Nat
        /\ session[call.op].accepted + call.size <= MaxStream
        /\ call.done + call.taken <= call.size /\ call.op \in 1 .. MaxOperations
    <3>1. session[call.op] \in Session /\ call.op \in 1 .. MaxOperations
      BY <1>1, Facts, KeymasterAssumption
    <3> QED BY <1>1, <3>1, Facts, KeymasterAssumption DEF Session, Call, Inv, CallInv
  <2>2. r \in Nat /\ from \in Nat /\ from + r <= MaxStream
    BY ONLY <2>1, WhatIsLeft
  <2>3. Input = Chunk(call.op, from, r)
    BY DEF Input
  <2> HIDE DEF from, r
  <2> QED BY <2>1, <2>2, <2>3, ChunkType
<1> HIDE DEF b
<1>8. Len(b) \in Nat /\ Len(Input) \in Nat /\ Len(b) \in 0 .. MaxChunkSize
  BY <1>5, <1>7, LenProperties, BufferAssumption
<1>9. Len(Appended(b, Input)) = Len(b) + k
  BY <1>5, <1>7, AppendedSeq
<1>10. k \in Nat
  BY <1>8, AppendCountBound
<1> HIDE DEF k
<1>11. Queued = Len(b) /\ Queued' = Len(b) + k
  BY <1>1, <1>4, <1>6, <1>9 DEF Queued, b
<1>12. PICK q \in Nat : q = Len(b)
  BY <1>8
<1>13. /\ Work = 2 * (call.size - call.done) + q - 0
       /\ Work' = 2 * (call.size - call.done) + (q + k) - k
  BY <1>3, <1>11, <1>12 DEF Work
<1>14. call.size \in Nat /\ call.done \in Nat
  BY Facts, KeymasterAssumption DEF Call
<1> QED BY ONLY <1>10, <1>12, <1>13, <1>14

(* A round of finish() gets something done. Either append() took some of   *)
(* the input, or the buffer was full: then the chip consumed at least a    *)
(* block of it or, if it consumes nothing before finish(), it is an ECDSA  *)
(* operation with more bytes than the digest is long, and the rest of the  *)
(* input counts as consumed.                                               *)
LEMMA ReplyWorks ==
  ASSUME Inv, StreamInv, LoopInv, Misreports = FALSE, ~ Starved,
         NEW n, UpdateOperationOk(n), call'.pc # "idle"
  PROVE  call'.pc = "finish" /\ Work' < Work
<1> DEFINE b        == bufferMap[handle].buffer
           consumed == Consumed(n, Len(b) - n)
           alg      == bufferMap[handle].algorithm
<1>1. /\ call.pc = "UpdateOperation" /\ call.op \in DOMAIN session
      /\ handle \in DOMAIN bufferMap /\ handle \in DOMAIN device
      /\ n = IF session[device[handle]].lazy THEN 0 ELSE PeekCount(alg, Len(b))
      /\ n \in 0 .. Len(b)
  BY ChipTakes
<1>2. PICK i \in DOMAIN session : i = call.op
  BY <1>1
<1>4. session[device[handle]].lazy => alg = "EC"
  BY <1>1 DEF Starved
<1>5. /\ session'[i].handle = session[i].handle
      /\ DOMAIN bufferMap' = DOMAIN bufferMap
      /\ bufferMap'[handle].buffer = SubSeq(b, n + 1, Len(b))
      /\ call'.pc = "finish" /\ call'.op = i /\ call'.taken = 0
      /\ call'.done = call.done + consumed
  <2>1. Idle.pc = "idle"
    BY DEF Idle
  <2> QED BY <1>2, <2>1, UpdateOperationOkEffect
<1>6. call'.size = call.size /\ call.api # "update"
  <2>1. /\ call.api = "update" \/ call.api # "update"
        /\ ~ AdvanceFails(b, n)
    <3>1. Len(b) \in Nat
      BY <1>1, CalledFacts
    <3> QED BY <1>1, <3>1 DEF AdvanceFails
  <2>2. \/ call.api = "update" /\ call' = Idle
        \/ /\ call.api # "update"
           /\ call' = [call EXCEPT !.pc = "finish", !.taken = 0, !.done = @ + consumed]
    BY <2>1 DEF UpdateOperationOk
  <2>3. Idle.pc = "idle"
    BY DEF Idle
  <2> QED BY <2>2, <2>3, Facts DEF Call
<1>7. call.done < call.size
  BY <1>1, <1>6 DEF LoopInv
<1>8. /\ call.done \in Nat /\ call.size \in Nat /\ call.taken \in Nat
      /\ call.done + call.taken <= call.size
      /\ b \in Seq(Byte) /\ Len(b) \in Nat /\ Len(b) <= MaxChunkSize
      /\ bufferMap[handle] \in Operation
  BY <1>1, CalledFacts
<1>9. alg \in Algorithm
  BY <1>8 DEF Operation
<1> HIDE DEF b, alg
<1>10. n \in Nat /\ n <= Len(b) /\ Len(SubSeq(b, n + 1, Len(b))) = Len(b) - n
  <2>1. n \in Nat /\ n <= Len(b) /\ n + 1 \in 1 .. Len(b) + 1
    BY <1>1, <1>8
  <2>2. Len(b) \in n .. Len(b)
    BY <1>8, <2>1
  <2>3. \A k \in n + 1 .. Len(b) : b[k] \in Byte
    <3> TAKE k \in n + 1 .. Len(b)
    <3>1. k \in 1 .. Len(b)
      BY <1>8, <2>1
    <3> QED BY <1>8, <3>1, ElementOfSeq
  <2>4. Len(SubSeq(b, n + 1, Len(b))) =
          IF n + 1 <= Len(b) THEN Len(b) - (n + 1) + 1 ELSE 0
    BY <1>8, <2>1, <2>3, SubSeqProperties
  <2> QED BY <1>8, <2>1, <2>4
<1>11. Queued = Len(b) /\ Queued' = Len(b) - n
  <2>1. handle' = handle
    BY <1>2, <1>5 DEF handle
  <2> QED BY <1>1, <1>5, <1>10, <2>1 DEF Queued, b
<1>12. \/ consumed = call.size - call.done
       \/ consumed = call.taken /\ call.taken + n > 0
  <2>1. consumed \in {call.size - call.done, call.taken}
    BY DEF Consumed
  <2>2. CASE call.taken = call.size - call.done
    BY <2>1, <2>2
  <2>3. CASE Len(b) = MaxChunkSize /\ session[device[handle]].lazy
    <3>1. alg = "EC" /\ n = 0
      BY <1>1, <1>4, <2>3
    <3>2. Len(b) - n >= DigestLength
      BY <1>8, <2>3, <3>1, KeymasterAssumption
    <3> QED BY <3>1, <3>2 DEF Consumed, alg, b
  <2>4. CASE Len(b) = MaxChunkSize /\ ~ session[device[handle]].lazy
    <3>1. n = PeekCount(alg, MaxChunkSize)
      BY <1>1, <2>4 DEF alg, b
    <3>2. n > 0
      BY <1>9, <3>1, FullIsPeeked
    <3> QED BY <1>8, <1>10, <2>1, <3>2
  <2> QED BY <1>1, <2>2, <2>3, <2>4 DEF StreamInv, CallShape, Shape, b
<1> HIDE DEF consumed
<1>13. PICK q \in Nat : q = Len(b)
  BY <1>8
<1>14. /\ Work = 2 * (call.size - call.done) + q - call.taken
       /\ Work' = 2 * (call.size - (call.done + consumed)) + (q - n) - 0
  BY <1>5, <1>6, <1>11, <1>13 DEF Work
<1>15. Work' < Work
  <2>1. PICK s \in Nat, d \in Nat, t \in Nat, c \in Nat, m \in Nat :
          s = call.size /\ d = call.done /\ t = call.taken /\ c = consumed /\ m = n
    <3>1. consumed \in Nat
      BY <1>7, <1>8, <1>12
    <3> QED BY <1>8, <1>10, <3>1
  <2>2. d < s /\ d + t <= s /\ m <= q /\ (c = s - d \/ (c = t /\ t + m > 0))
    BY <1>7, <1>8, <1>10, <1>12, <1>13, <2>1
  <2>3. Work = 2 * (s - d) + q - t /\ Work' = 2 * (s - (d + c)) + (q - m) - 0
    BY <1>14, <2>1
  <2> QED BY ONLY <2>2, <2>3
<1> QED BY <1>5, <1>15

(* Every step of the HAL gets a call closer to its end.                    *)
LEMMA HalStepsCount ==
  ASSUME Inv, Inv', StreamInv, LoopInv, Misreports = FALSE, ~ Starved, HalSteps
  PROVE  StepsLeft' < StepsLeft
<1>0. Idle.pc = "idle"
  BY DEF Idle
<1>1. Work \in Nat /\ Work' \in Nat
  <2>1. Work \in Nat
    BY WorkIsNat
  <2>2. Inv' => (Work \in Nat)'
    BY WorkType, PTL
  <2> QED BY <2>1, <2>2
<1>2. CASE BeginSteps
  <2>1. call.pc = "BeginOperation"
    BY <1>2 DEF BeginSteps, BeginOperationFails, BeginOperationOk, BeginOperationGivesUp
  <2>2. call'.pc \in {"idle", "AbortOperation"}
    BY <1>0, <1>2, Facts
       DEF BeginSteps, BeginOperationFails, BeginOperationOk, BeginOperationGivesUp, Call
  <2> QED BY <2>1, <2>2, ReturnsOrAborts
<1>3. CASE UpdateSteps /\ call'.pc \in {"idle", "AbortOperation"}
  <2>1. call.pc \in {"update", "UpdateOperation"}
    BY <1>3 DEF UpdateSteps, UpdateAbsent, UpdateAppends, UpdateOperationOk,
                UpdateOperationRefused, Refused, UpdateOperationLost
  <2> QED BY <1>3, <2>1, ReturnsOrAborts
<1>4. CASE UpdateSteps /\ call'.pc \notin {"idle", "AbortOperation"}
  <2>1. CASE UpdateAppends
    <3>1. call.pc = "update" /\ call'.pc = "UpdateOperation"
      BY <1>0, <1>4, <2>1, Facts DEF UpdateAppends, CallFails, Call
    <3>2. Work' = Work
      BY <2>1, <3>1, AppendsWork
    <3>3. StepsLeft = 4 + 3 * Work /\ StepsLeft' = 3 + 3 * Work'
      BY <3>1 DEF StepsLeft
    <3> HIDE DEF Work
    <3> QED BY ONLY <1>1, <3>2, <3>3
  <2>2. ASSUME NEW n \in 0 .. MaxChunkSize + 1, UpdateOperationOk(n)
        PROVE  StepsLeft' < StepsLeft
    <3>1. call.pc = "UpdateOperation"
      BY <2>2 DEF UpdateOperationOk
    <3>2. call'.pc = "finish" /\ Work' < Work
      BY <1>4, <2>2, ReplyWorks
    <3>3. StepsLeft = 3 + 3 * Work /\ StepsLeft' = 5 + 3 * Work'
      BY <3>1, <3>2 DEF StepsLeft
    <3>4. PICK w \in Nat, v \in Nat : w = Work /\ v = Work'
      BY <1>1
    <3>5. v < w
      BY <3>2, <3>4
    <3>6. v + 1 <= w
      BY ONLY <3>5
    <3>7. 3 * v + 3 <= 3 * w
      BY ONLY <3>6
    <3>8. 5 + 3 * v < 3 + 3 * w
      BY ONLY <3>7
    <3> QED BY <3>3, <3>4, <3>8
  <2>3. ~ UpdateAbsent /\ ~ UpdateOperationRefused /\ ~ UpdateOperationLost
    BY <1>0, <1>4, Facts
       DEF UpdateAbsent, UpdateOperationRefused, Refused, UpdateOperationLost, CallFails, Call
  <2> QED BY <1>4, <2>1, <2>2, <2>3 DEF UpdateSteps
<1>5. CASE FinishUpdates
  <2>1. /\ call.pc = "finish" /\ call'.pc = "update" /\ call'.op = call.op
        /\ call'.size = call.size /\ call'.done = call.done /\ call'.taken = call.taken
        /\ UNCHANGED <<bufferMap, session>>
    BY <1>5, Facts DEF FinishUpdates, Call
  <2>2. Work' = Work
    BY <2>1 DEF Work, Queued, handle
  <2>3. StepsLeft = 5 + 3 * Work /\ StepsLeft' = 4 + 3 * Work'
    BY <2>1 DEF StepsLeft
  <2> QED BY ONLY <1>1, <2>2, <2>3
<1>6. CASE FinishSteps /\ call'.pc = "FinishOperation"
  <2>1. call.pc = "finish"
    BY <1>0, <1>6, Facts
       DEF FinishSteps, FinishUpdates, FinishAbsent, FinishFinal, FinishOperationOk,
           FinishOperationRefused, FinishOperationLost, Refused, CallFails, Call
  <2>2. StepsLeft = 5 + 3 * Work /\ StepsLeft' = 2
    BY <1>6, <2>1 DEF StepsLeft
  <2> QED BY ONLY <1>1, <2>2
<1>7. CASE FinishSteps /\ ~ FinishUpdates /\ call'.pc # "FinishOperation"
  <2>1. call.pc \in {"finish", "FinishOperation"}
    BY <1>7 DEF FinishSteps, FinishAbsent, FinishFinal, FinishOperationOk,
                FinishOperationRefused, FinishOperationLost, Refused
  <2>2. call'.pc \in {"idle", "AbortOperation"}
    BY <1>0, <1>7, Facts
       DEF FinishSteps, FinishAbsent, FinishFinal, FinishOperationOk,
           FinishOperationRefused, FinishOperationLost, Refused, CallFails, Call
  <2> QED BY <2>1, <2>2, ReturnsOrAborts
<1>8. CASE AbortSteps
  <2>1. call.pc = "AbortOperation" /\ call'.pc = "idle"
    BY <1>0, <1>8 DEF AbortSteps, AbortOperationOk, AbortOperationFails, CallFails
  <2>2. StepsLeft = 1 /\ StepsLeft' = 0
    BY <2>1 DEF StepsLeft
  <2> QED BY <2>2
<1> QED BY <1>2, <1>3, <1>4, <1>5, <1>6, <1>7, <1>8 DEF HalSteps

(* A call on a clean operation finds no other operation on the chip under  *)
(* its handle, and its own buffer in the HAL.                              *)
LEMMA CleanIsFed ==
  ASSUME Inv, StreamInv, KindInv, BufferOfItsOwn,
         call.op \in DOMAIN session, session[call.op].clean
  PROVE  ~ Starved
<1> SUFFICES ASSUME Starved PROVE FALSE
  OBVIOUS
<1>1. device[handle] = call.op
  BY AbsorbsOwn DEF StreamInv, Starved
<1>2. session[call.op].status = "open" /\ session[call.op].handle = handle
  BY DEF StreamInv, CallShape, Shape, Starved, handle
<1>3. bufferMap[handle].owner = call.op
  BY <1>1, <1>2 DEF BufferOfItsOwn, Starved
<1> QED BY <1>1, <1>3 DEF KindInv, Starved

(* The loop of finish() goes round only while there is input.              *)
LEMMA NextLoop == ASSUME Inv, LoopInv, [Next]_vars PROVE LoopInv'
<1>0. Idle.pc = "idle" /\ Idle.done = 0
  BY DEF Idle
<1>1. CASE ClientSteps
  <2>1. CASE Begin
    <3>1. call'.pc = "BeginOperation"
      BY <2>1 DEF Begin, Idle
    <3> QED BY <3>1 DEF LoopInv
  <2>2. ASSUME NEW op, NEW size, Update(op, size) PROVE LoopInv'
    <3>1. call'.api = "update" /\ call'.pc = "update"
      BY <2>2 DEF Update, Arrives, Idle
    <3> QED BY <3>1 DEF LoopInv
  <2>3. ASSUME NEW op, NEW size, Finish(op, size) PROVE LoopInv'
    <3>1. call'.api = "finish" /\ call'.pc = "finish"
      BY <2>3 DEF Finish, Arrives, Idle
    <3> QED BY <3>1 DEF LoopInv
  <2>4. ASSUME NEW op, Abort(op) PROVE LoopInv'
    <3>1. call'.pc = "AbortOperation"
      BY <2>4 DEF Abort, Arrives, Idle
    <3> QED BY <3>1 DEF LoopInv
  <2> QED BY <1>1, <2>1, <2>2, <2>3, <2>4 DEF ClientSteps
<1>2. CASE FinishUpdates
  <2>1. /\ call.pc = "finish" /\ call'.pc = "update" /\ call'.api = call.api
        /\ call'.size = call.size /\ call'.done = call.done /\ call.done < call.size
    BY <1>2, Facts DEF FinishUpdates, Call
  <2> QED BY <2>1 DEF LoopInv
<1>3. CASE UpdateAppends
  <2>1. CASE call'.pc = "idle"
    BY <2>1 DEF LoopInv
  <2>2. CASE call'.pc # "idle"
    <3>1. /\ call.pc = "update" /\ call'.pc = "UpdateOperation" /\ call'.api = call.api
          /\ call'.size = call.size /\ call'.done = call.done
      BY <1>0, <1>3, <2>2, Facts DEF UpdateAppends, CallFails, Call
    <3> QED BY <3>1 DEF LoopInv
  <2> QED BY <2>1, <2>2
<1>4. ASSUME NEW n \in 0 .. MaxChunkSize + 1, UpdateOperationOk(n)
      PROVE  LoopInv'
  <2>1. call.pc = "UpdateOperation"
    BY <1>4 DEF UpdateOperationOk
  <2>2. call.api = "update" => call' = Idle
    BY <1>4 DEF UpdateOperationOk
  <2>3. call' = Idle \/ (call'.pc = "finish" /\ call'.api = call.api)
    BY <1>4, Facts DEF UpdateOperationOk, Call
  <2> QED BY <1>0, <2>1, <2>2, <2>3 DEF LoopInv
<1>5. CASE HalSteps /\ call'.pc \notin {"update", "UpdateOperation", "finish"}
  BY <1>5 DEF LoopInv
<1>6. CASE HalSteps /\ call'.pc \in {"update", "UpdateOperation", "finish"}
  <2>1. ~ AbortSteps /\ ~ BeginSteps
    BY <1>0, <1>6, Facts
       DEF AbortSteps, AbortOperationOk, AbortOperationFails, CallFails, BeginSteps,
           BeginOperationFails, BeginOperationOk, BeginOperationGivesUp, Call
  <2>2. FinishSteps => FinishUpdates
    BY <1>0, <1>6, Facts
       DEF FinishSteps, FinishAbsent, FinishFinal, FinishOperationOk,
           FinishOperationRefused, FinishOperationLost, Refused, CallFails, Call
  <2>3. UpdateSteps => UpdateAppends \/ \E n \in 0 .. MaxChunkSize + 1 : UpdateOperationOk(n)
    BY <1>0, <1>6, Facts
       DEF UpdateSteps, UpdateAbsent, UpdateOperationRefused, Refused, UpdateOperationLost,
           CallFails, Call
  <2> QED BY <1>2, <1>3, <1>4, <1>6, <2>1, <2>2, <2>3 DEF HalSteps
<1>7. CASE ChipResets \/ UNCHANGED vars
  <2>1. UNCHANGED call
    BY <1>7 DEF ChipResets, vars
  <2> QED BY <2>1 DEF LoopInv
<1>8. CASE HalCrashes
  BY <1>0, <1>8 DEF HalCrashes, LoopInv
<1> QED BY <1>1, <1>5, <1>6, <1>7, <1>8 DEF Next

(* The chip may reset meanwhile, which costs a fault and no step; a crash  *)
(* of the HAL ends the call.                                               *)
LEMMA CallsCount ==
  ASSUME Inv, Inv', StreamInv, LoopInv, Misreports = FALSE, ~ Starved,
         call.pc # "idle", Next
  PROVE  StepsLeft' < StepsLeft \/ (ChipResets /\ StepsLeft' = StepsLeft)
<1>1. ~ ClientSteps
  BY DEF ClientSteps, Begin, Update, Finish, Abort, Arrives
<1>2. CASE HalSteps
  BY <1>2, HalStepsCount
<1>3. CASE ChipResets
  <2>1. UNCHANGED <<bufferMap, call, session>>
    BY <1>3 DEF ChipResets
  <2> QED BY <1>3, <2>1 DEF StepsLeft, Work, Queued, handle
<1>4. CASE HalCrashes
  <2>1. StepsLeft' = 0
    BY <1>4 DEF HalCrashes, Idle, StepsLeft
  <2>2. StepsLeft \in Nat /\ StepsLeft > 0
    <3>1. Work \in Nat
      BY WorkIsNat
    <3>2. call.pc \in {"BeginOperation", "update", "UpdateOperation", "finish",
                       "FinishOperation", "AbortOperation"}
      BY Facts DEF Call
    <3> HIDE DEF Work
    <3> QED BY <3>1, <3>2 DEF StepsLeft
  <2> QED BY <2>1, <2>2
<1> QED BY <1>1, <1>2, <1>3, <1>4 DEF Next

LEMMA InitLoop == Init => KindInv /\ LoopInv
BY DEF Init, Idle, KindInv, LoopInv

(* No call of a client hangs in the loop of finish() or anywhere else but  *)
(* where CallsReturn says, and never on a clean operation: at most         *)
(* StepsLeft more steps of the HAL end the call, whatever the sizes, the   *)
(* streams and the faults. This is what CallsReturn rests on besides       *)
(* fairness (finish() and the special case for ECDSA in update(),          *)
(* KeymasterDevice.cpp:1150 and 1115).                                     *)
THEOREM CallsMakeProgress ==
  ASSUME Misreports = FALSE
  PROVE  Spec => /\ [](StepsLeft \in Nat)
                 /\ [](CleanCall => ~ Starved)
                 /\ StepsCount
<1> DEFINE All == Inv /\ StreamInv /\ KindInv /\ LoopInv
<1>1. Init => All
  BY InitInv, InitStream, InitLoop
<1>2. All /\ [Next]_vars => All'
  BY NextInv, NextStream, NextKind, NextLoop
<1>3. All => StepsLeft \in Nat
  BY StepsLeftIsNat
<1>4. All /\ BufferOfItsOwn => (CleanCall => ~ Starved)
  BY CleanIsFed DEF CleanCall
<1>5. All /\ All' /\ [Next]_vars =>
        [call.pc # "idle" /\ ~ Starved =>
           StepsLeft' < StepsLeft \/ (ChipResets /\ StepsLeft' = StepsLeft)]_vars
  BY CallsCount
<1> QED BY <1>1, <1>2, <1>3, <1>4, <1>5, BuffersStayWithTheirOperation, PTL DEF Spec, StepsCount
-----------------------------------------------------------------------------

(* s holds bytes of operation i only, none of them twice, in the order in  *)
(* which its client handed them over, up to position top.                  *)
Ordered(i, s, top) ==
  /\ \A j \in 1 .. Len(s) : s[j][1] = i /\ s[j][2] <= top
  /\ \A j, k \in 1 .. Len(s) : j < k => s[j][2] < s[k][2]

(* The bytes of s come before those of t in their stream.                  *)
Before(s, t) == \A j \in 1 .. Len(s), k \in 1 .. Len(t) : s[j][2] < t[k][2]

(* s holds bytes of operation i that are still to come.                    *)
Follows(i, s) == Ordered(i, s, HandedOver(i)) /\ Before(session[i].absorbed, s)

(* What the chip absorbed of operation i, what the HAL holds for it and    *)
(* what it is sending with finish(), of an operation that is clean.        *)
InOrder(i) ==
  session[i].clean =>
    LET h == session[i].handle
    IN  /\ Ordered(i, session[i].absorbed, HandedOver(i))
        /\ (session[i].status = "open" /\ h \in DOMAIN bufferMap) =>
             Follows(i, bufferMap[h].buffer)
        /\ (call.op = i /\ call.pc = "FinishOperation") => Follows(i, call.data)

(* Bytes may be missing when the chip reports as consumed more than it was *)
(* sent, but none is repeated, overtaken or given to another operation.    *)
BytesInOrder == \A i \in DOMAIN session : InOrder(i)

(* The inductive invariant: StreamInv without what needs the chip's word.  *)
OrderInv == HandlesInOrder /\ OneCaller /\ Shape /\ BytesInOrder

(* Nothing is in order,                                                    *)
LEMMA OrderedEmpty == ASSUME NEW i, NEW top PROVE Ordered(i, << >>, top)
BY DEF Ordered

(* and comes before and after everything.                                  *)
LEMMA BeforeEmpty == ASSUME NEW s PROVE Before(s, << >>) /\ Before(<< >>, s)
BY DEF Before

(* The position of a byte is a number.                                     *)
LEMMA ByteOf ==
  ASSUME NEW s \in Seq(Byte), NEW j \in 1 .. Len(s) PROVE s[j][2] \in Nat
<1>1. s[j] \in Byte
  BY ElementOfSeq
<1> QED BY <1>1, KeymasterAssumption DEF Byte

(* More may be handed over.                                                *)
LEMMA OrderedGrows ==
  ASSUME NEW i, NEW s \in Seq(Byte), NEW a \in Nat, NEW b \in Nat, a <= b, Ordered(i, s, a)
  PROVE  Ordered(i, s, b)
<1>1. ASSUME NEW j \in 1 .. Len(s) PROVE s[j][2] <= b
  <2>1. PICK x \in Nat : x = s[j][2]
    BY ByteOf
  <2>2. x <= a
    BY <2>1 DEF Ordered
  <2>3. x <= b
    BY <2>2
  <2> QED BY <2>1, <2>3
<1> QED BY <1>1 DEF Ordered

(* Two pieces of a stream, one before the other, make one in order.        *)
LEMMA OrderedJoin ==
  ASSUME NEW i, NEW top, NEW s \in Seq(Byte), NEW t \in Seq(Byte),
         Ordered(i, s, top), Ordered(i, t, top), Before(s, t)
  PROVE  Ordered(i, s \o t, top)
<1> DEFINE u == s \o t
<1>1. /\ Len(u) = Len(s) + Len(t) /\ Len(s) \in Nat /\ Len(t) \in Nat
      /\ \A j \in 1 .. Len(s) + Len(t) : u[j] = IF j <= Len(s) THEN s[j] ELSE t[j - Len(s)]
  BY ConcatProperties, LenProperties
<1> HIDE DEF u
<1>2. ASSUME NEW j \in 1 .. Len(u)
      PROVE  \/ j \in 1 .. Len(s) /\ u[j] = s[j]
             \/ j > Len(s) /\ j - Len(s) \in 1 .. Len(t) /\ u[j] = t[j - Len(s)]
  <2>1. j \in Nat /\ 1 <= j /\ j <= Len(s) + Len(t)
    BY <1>1
  <2>2. CASE j <= Len(s)
    BY <1>1, <2>1, <2>2
  <2>3. CASE j > Len(s)
    <3>1. j - Len(s) \in 1 .. Len(t)
      BY <1>1, <2>1, <2>3
    <3> QED BY <1>1, <2>1, <2>3, <3>1
  <2> QED BY <1>1, <2>1, <2>2, <2>3
<1>3. \A j \in 1 .. Len(u) : u[j][1] = i /\ u[j][2] <= top
  BY <1>2 DEF Ordered
<1>4. ASSUME NEW j \in 1 .. Len(u), NEW k \in 1 .. Len(u), j < k
      PROVE  u[j][2] < u[k][2]
  <2>1. CASE j > Len(s) /\ k > Len(s)
    <3>1. /\ j - Len(s) \in 1 .. Len(t) /\ u[j] = t[j - Len(s)]
          /\ k - Len(s) \in 1 .. Len(t) /\ u[k] = t[k - Len(s)]
      BY <1>1, <1>2, <2>1
    <3>2. j - Len(s) < k - Len(s)
      BY <1>1, <1>4
    <3> QED BY <3>1, <3>2 DEF Ordered
  <2>2. CASE j \in 1 .. Len(s) /\ k > Len(s)
    <3>1. u[j] = s[j] /\ k - Len(s) \in 1 .. Len(t) /\ u[k] = t[k - Len(s)]
      BY <1>1, <1>2, <2>2
    <3> QED BY <2>2, <3>1 DEF Before
  <2>3. CASE j \in 1 .. Len(s) /\ k \in 1 .. Len(s)
    <3>1. u[j] = s[j] /\ u[k] = s[k]
      BY <1>1, <1>2, <2>3
    <3> QED BY <1>4, <2>3, <3>1 DEF Ordered
  <2>4. \/ j > Len(s) /\ k > Len(s)
        \/ j \in 1 .. Len(s) /\ k > Len(s)
        \/ j \in 1 .. Len(s) /\ k \in 1 .. Len(s)
    BY <1>1, <1>4
  <2> QED BY <2>1, <2>2, <2>3, <2>4
<1> QED BY <1>3, <1>4 DEF Ordered, u

(* Before and after a sequence is before and after both its parts.         *)
LEMMA BeforeJoin ==
  ASSUME NEW s \in Seq(Byte), NEW t \in Seq(Byte), NEW v
  PROVE  /\ (Before(s, v) /\ Before(t, v)) => Before(s \o t, v)
         /\ (Before(v, s) /\ Before(v, t)) => Before(v, s \o t)
<1> DEFINE u == s \o t
<1>1. /\ Len(u) = Len(s) + Len(t) /\ Len(s) \in Nat /\ Len(t) \in Nat
      /\ \A j \in 1 .. Len(s) + Len(t) : u[j] = IF j <= Len(s) THEN s[j] ELSE t[j - Len(s)]
  BY ConcatProperties, LenProperties
<1> HIDE DEF u
<1>2. ASSUME NEW j \in 1 .. Len(u)
      PROVE  \/ j \in 1 .. Len(s) /\ u[j] = s[j]
             \/ j - Len(s) \in 1 .. Len(t) /\ u[j] = t[j - Len(s)]
  <2>1. j \in Nat /\ 1 <= j /\ j <= Len(s) + Len(t)
    BY <1>1
  <2>2. CASE j <= Len(s)
    BY <1>1, <2>1, <2>2
  <2>3. CASE j > Len(s)
    <3>1. j - Len(s) \in 1 .. Len(t)
      BY <1>1, <2>1, <2>3
    <3> QED BY <1>1, <2>1, <2>3, <3>1
  <2> QED BY <1>1, <2>1, <2>2, <2>3
<1>3. (Before(s, v) /\ Before(t, v)) => Before(u, v)
  BY <1>2 DEF Before
<1>4. (Before(v, s) /\ Before(v, t)) => Before(v, u)
  BY <1>2 DEF Before
<1> QED BY <1>3, <1>4 DEF u

(* Of a sequence in order a front piece and a later piece are in order.    *)
LEMMA OrderedPieces ==
  ASSUME NEW i, NEW top, NEW b \in Seq(Byte), NEW m \in Nat, NEW n \in Nat,
         m <= n, n <= Len(b), Ordered(i, b, top), NEW a, Before(a, b)
  PROVE  LET front == SubSeq(b, 1, m)
             rest  == SubSeq(b, n + 1, Len(b))
         IN  /\ front \in Seq(Byte) /\ rest \in Seq(Byte)
             /\ Ordered(i, front, top) /\ Ordered(i, rest, top) /\ Before(front, rest)
             /\ Before(a, front) /\ Before(a, rest)
<1> DEFINE front == SubSeq(b, 1, m)
           rest  == SubSeq(b, n + 1, Len(b))
           l == Len(b)
<1>1. l \in Nat /\ \A j \in 1 .. l : b[j] \in Byte
  BY LenProperties, ElementOfSeq
<1>2. /\ front \in Seq(Byte) /\ Len(front) = m
      /\ \A j \in 1 .. m : front[j] = b[j]
  <2>1. \A j \in 1 .. m : j \in 1 .. l
    BY <1>1
  <2>2. \A j \in 1 .. m : b[j] \in Byte
    BY <1>1, <2>1
  <2>3. /\ front \in Seq(Byte) /\ Len(front) = IF 1 <= m THEN m - 1 + 1 ELSE 0
        /\ \A j \in 1 .. m - 1 + 1 : front[j] = b[1 + j - 1]
    BY <2>2, SubSeqProperties
  <2> QED BY <2>3
<1>3. /\ rest \in Seq(Byte) /\ Len(rest) = l - n
      /\ \A j \in 1 .. l - n : rest[j] = b[n + j]
  <2>1. \A j \in n + 1 .. l : j \in 1 .. l
    BY <1>1
  <2>2. \A j \in n + 1 .. l : b[j] \in Byte
    BY <1>1, <2>1
  <2> HIDE DEF l
  <2>3. /\ SubSeq(b, n + 1, l) \in Seq(Byte)
        /\ Len(SubSeq(b, n + 1, l)) = IF n + 1 <= l THEN l - (n + 1) + 1 ELSE 0
        /\ \A j \in 1 .. l - (n + 1) + 1 : SubSeq(b, n + 1, l)[j] = b[n + 1 + j - 1]
    <3>1. n + 1 \in Int /\ l \in Int
      BY <1>1
    <3> QED BY <2>2, <3>1, SubSeqProperties
  <2>4. n <= l
    BY DEF l
  <2>5. (IF n + 1 <= l THEN l - (n + 1) + 1 ELSE 0) = l - n /\ l - (n + 1) + 1 = l - n
    BY ONLY <1>1, <2>4
  <2>6. \A j \in 1 .. l - n : n + 1 + j - 1 = n + j
    BY <1>1
  <2> QED BY <2>3, <2>5, <2>6 DEF l
<1> HIDE DEF front, rest
<1>4. /\ \A j \in 1 .. m : j \in 1 .. l
      /\ \A j \in 1 .. l - n : n + j \in 1 .. l /\ \A k \in 1 .. m : k < n + j
      /\ \A j, k \in 1 .. l - n : j < k => n + j < n + k
  BY <1>1
<1>5. Ordered(i, front, top)
  BY <1>2, <1>4 DEF Ordered
<1>6. Ordered(i, rest, top)
  <2>1. ASSUME NEW j \in 1 .. Len(rest) PROVE rest[j][1] = i /\ rest[j][2] <= top
    BY <1>3, <1>4 DEF Ordered
  <2>2. ASSUME NEW j \in 1 .. Len(rest), NEW k \in 1 .. Len(rest), j < k
        PROVE  rest[j][2] < rest[k][2]
    <3>1. /\ n + j \in 1 .. l /\ n + k \in 1 .. l /\ n + j < n + k
          /\ rest[j] = b[n + j] /\ rest[k] = b[n + k]
      BY <1>3, <1>4, <2>2
    <3> QED BY <3>1 DEF Ordered
  <2> QED BY <2>1, <2>2 DEF Ordered
<1>7. Before(front, rest)
  <2>1. ASSUME NEW j \in 1 .. Len(front), NEW k \in 1 .. Len(rest)
        PROVE  front[j][2] < rest[k][2]
    <3>1. /\ j \in 1 .. l /\ n + k \in 1 .. l /\ j < n + k
          /\ front[j] = b[j] /\ rest[k] = b[n + k]
      BY <1>2, <1>3, <1>4
    <3> QED BY <3>1 DEF Ordered
  <2> QED BY <2>1 DEF Before
<1>8. Before(a, front)
  BY <1>2, <1>4 DEF Before
<1>9. Before(a, rest)
  <2>1. ASSUME NEW j \in 1 .. Len(a), NEW k \in 1 .. Len(rest) PROVE a[j][2] < rest[k][2]
    <3>1. n + k \in 1 .. l /\ rest[k] = b[n + k]
      BY <1>3, <1>4
    <3> QED BY <3>1 DEF Before
  <2> QED BY <2>1 DEF Before
<1> QED BY <1>2, <1>3, <1>5, <1>6, <1>7, <1>8, <1>9 DEF front, rest

(* The bytes of an input are in order, and follow what was handed over.    *)
LEMMA ChunkOrdered ==
  ASSUME NEW i \in 1 .. MaxOperations, NEW top \in Nat, NEW k \in Nat, top + k <= MaxStream,
         NEW s \in Seq(Byte), Ordered(i, s, top)
  PROVE  /\ Chunk(i, top, k) \in Seq(Byte)
         /\ Ordered(i, Chunk(i, top, k), top + k)
         /\ Before(s, Chunk(i, top, k))
<1> DEFINE c == Chunk(i, top, k)
<1>1. c \in Seq(Byte) /\ Len(c) = k
  BY ChunkType
<1>2. \A j \in 1 .. k : c[j] = <<i, top + j>>
  BY DEF Chunk
<1>3. \A j \in 1 .. k : c[j][1] = i /\ c[j][2] = top + j
  BY <1>2
<1> HIDE DEF c
<1>4. Ordered(i, c, top + k)
  BY <1>1, <1>3 DEF Ordered
<1>5. ASSUME NEW j \in 1 .. Len(s), NEW l \in 1 .. Len(c) PROVE s[j][2] < c[l][2]
  <2>1. PICK x \in Nat : x = s[j][2]
    BY ByteOf
  <2>2. x <= top
    BY <2>1 DEF Ordered
  <2>3. c[l][2] = top + l /\ l \in Nat /\ l >= 1
    BY <1>1, <1>3
  <2>4. x < top + l
    BY <2>2, <2>3
  <2> QED BY <2>1, <2>3, <2>4
<1> QED BY <1>1, <1>4, <1>5 DEF c, Before
-----------------------------------------------------------------------------
(* Steps that leave a clean operation alone, or take its buffer away.      *)
LEMMA StillInOrder ==
  ASSUME NEW i, InOrder(i),
         session'[i].clean =>
           /\ session[i].clean
           /\ session'[i].absorbed = session[i].absorbed
           /\ session'[i].handle = session[i].handle
           /\ session'[i].status = "open" => session[i].status = "open"
           /\ HandedOver(i)' = HandedOver(i)
           /\ session[i].handle \in DOMAIN bufferMap' =>
                /\ session[i].handle \in DOMAIN bufferMap
                /\ bufferMap'[session[i].handle] = bufferMap[session[i].handle],
         (call'.op = i /\ call'.pc = "FinishOperation") => UNCHANGED call
  PROVE  InOrder(i)'
<1>1. SUFFICES ASSUME session'[i].clean
               PROVE  /\ Ordered(i, session'[i].absorbed, HandedOver(i)')
                      /\ (session'[i].status = "open" /\ session'[i].handle \in DOMAIN bufferMap')
                           => Follows(i, bufferMap[session[i].handle].buffer)'
                      /\ (call'.op = i /\ call'.pc = "FinishOperation")
                           => Follows(i, call.data)'
  BY DEF InOrder, Ordered
<1>2. /\ session[i].clean
      /\ session'[i].absorbed = session[i].absorbed
      /\ session'[i].handle = session[i].handle
      /\ session'[i].status = "open" => session[i].status = "open"
      /\ HandedOver(i)' = HandedOver(i)
      /\ session[i].handle \in DOMAIN bufferMap' =>
           /\ session[i].handle \in DOMAIN bufferMap
           /\ bufferMap'[session[i].handle] = bufferMap[session[i].handle]
  BY <1>1
<1>3. Ordered(i, session[i].absorbed, HandedOver(i))
  BY <1>2 DEF InOrder
<1>4. ASSUME session'[i].status = "open", session'[i].handle \in DOMAIN bufferMap'
      PROVE  Follows(i, bufferMap[session[i].handle].buffer)'
  <2>1. Follows(i, bufferMap[session[i].handle].buffer)
    BY <1>2, <1>4 DEF InOrder
  <2> QED BY <1>2, <1>4, <2>1 DEF Follows, Ordered, Before
<1>5. ASSUME call'.op = i, call'.pc = "FinishOperation" PROVE Follows(i, call.data)'
  <2>1. Follows(i, call.data) /\ call' = call
    BY <1>2, <1>5 DEF InOrder
  <2> QED BY <1>2, <2>1 DEF Follows, Ordered, Before
<1> QED BY <1>2, <1>3, <1>4, <1>5

(* A step of a call disturbs no other operation.                           *)
LEMMA OneInOrder ==
  ASSUME Inv, OrderInv, OneChanges, Shape',
         NEW j \in DOMAIN session, j = call.op, InOrder(j)'
  PROVE  OrderInv'
<1>1. HandlesInOrder' /\ OneCaller'
  BY OwnersKept DEF OrderInv
<1>2. ASSUME NEW i \in DOMAIN session, i # j PROVE InOrder(i)'
  <2>1. 0 \notin DOMAIN session
    BY Facts
  <2>2. session'[i] = session[i] /\ call'.op # i /\ call.op # i
    BY <1>2, <2>1 DEF OneChanges
  <2>3. HandedOver(i)' = HandedOver(i)
    BY <2>2 DEF HandedOver
  <2>4. session[i].clean => session[i].handle # handle
    BY <2>2 DEF OrderInv, OneCaller
  <2>5. (session[i].clean /\ session[i].handle \in DOMAIN bufferMap') =>
           /\ session[i].handle \in DOMAIN bufferMap
           /\ bufferMap'[session[i].handle] = bufferMap[session[i].handle]
    BY <2>4 DEF OneChanges
  <2>6. InOrder(i)
    BY DEF OrderInv, BytesInOrder
  <2> QED BY <2>2, <2>3, <2>5, <2>6, StillInOrder
<1>3. DOMAIN session' = DOMAIN session
  BY DEF OneChanges
<1> QED BY <1>1, <1>2, <1>3 DEF OrderInv, BytesInOrder

(* A call that has returned asks nothing of Shape.                         *)
LEMMA IdleInShape == ASSUME call' = Idle PROVE Shape'
BY DEF Shape, Idle

(* A call that fails gives its operation up.                               *)
LEMMA CallFailsInOrder ==
  ASSUME Inv, OrderInv, call.op \in DOMAIN session, CallFails,
         \A h \in DOMAIN bufferMap' \ {handle} :
           h \in DOMAIN bufferMap /\ bufferMap'[h] = bufferMap[h],
         \A h \in DOMAIN device' : h \in DOMAIN device /\ device'[h] = device[h]
  PROVE  OrderInv'
<1>1. PICK i \in DOMAIN session : i = call.op
  OBVIOUS
<1>2. /\ DOMAIN session' = DOMAIN session
      /\ \A j \in DOMAIN session \ {i} : session'[j] = session[j]
      /\ session'[i].handle = session[i].handle
      /\ session'[i].clean = FALSE
  BY <1>1, Facts DEF CallFails, Session
<1>3. call' = Idle /\ call'.op = 0
  BY DEF CallFails, Idle
<1>4. OneChanges
  BY <1>1, <1>2, <1>3 DEF OneChanges
<1>5. InOrder(i)'
  BY <1>2 DEF InOrder
<1> QED BY <1>1, <1>3, <1>4, <1>5, IdleInShape, OneInOrder

(* So does one whose reply is lost, before it aborts.                      *)
LEMMA LostInOrder ==
  ASSUME Inv, OrderInv, call.op \in DOMAIN session,
         session' = [session EXCEPT ![call.op].clean = FALSE],
         call' = [call EXCEPT !.pc = "AbortOperation"],
         UNCHANGED bufferMap,
         \A h \in DOMAIN device' : h \in DOMAIN device /\ device'[h] = device[h]
  PROVE  OrderInv'
<1>1. PICK i \in DOMAIN session : i = call.op
  OBVIOUS
<1>2. /\ DOMAIN session' = DOMAIN session
      /\ \A j \in DOMAIN session \ {i} : session'[j] = session[j]
      /\ session'[i].handle = session[i].handle
      /\ session'[i].clean = FALSE
  BY <1>1, Facts DEF Session
<1>3. call'.pc = "AbortOperation" /\ call'.op = i
  BY <1>1, Facts DEF Call
<1>4. OneChanges
  BY <1>1, <1>2, <1>3 DEF OneChanges
<1>5. Shape'
  BY <1>2, <1>3 DEF Shape
<1>6. InOrder(i)'
  BY <1>2 DEF InOrder
<1> QED BY <1>1, <1>4, <1>5, <1>6, OneInOrder

LEMMA RefusedInOrder ==
  ASSUME Inv, OrderInv, NEW pc \in {"UpdateOperation", "FinishOperation"}, Refused(pc)
  PROVE  OrderInv'
<1>1. call.op \in DOMAIN session
  BY DEF Inv, CallInv, Refused
<1>2. \A h \in DOMAIN device' : h \in DOMAIN device /\ device'[h] = device[h]
  BY WithoutKeeps DEF Refused
<1> QED BY <1>1, <1>2, CallFailsInOrder DEF Refused

LEMMA AbortStepsInOrder == ASSUME Inv, OrderInv, AbortSteps PROVE OrderInv'
<1>1. call.pc = "AbortOperation" /\ call.op \in DOMAIN session
  BY DEF AbortSteps, AbortOperationOk, AbortOperationFails, Inv, CallInv
<1>2. PICK i \in DOMAIN session : i = call.op
  BY <1>1
<1>3. \A h \in DOMAIN device' : h \in DOMAIN device /\ device'[h] = device[h]
  BY WithoutKeeps DEF AbortSteps, AbortOperationOk, AbortOperationFails
<1>4. CASE AbortOperationFails
  BY <1>1, <1>3, <1>4, CallFailsInOrder DEF AbortOperationFails
<1>5. CASE AbortOperationOk
  <2>1. /\ DOMAIN session' = DOMAIN session
        /\ \A j \in DOMAIN session \ {i} : session'[j] = session[j]
        /\ session'[i].status \in {session[i].status, "closed"}
    BY <1>2, <1>5, Facts DEF AbortOperationOk, Session
  <2>2. /\ session'[i].handle = session[i].handle
        /\ session'[i].clean = session[i].clean
        /\ session'[i].accepted = session[i].accepted
        /\ session'[i].absorbed = session[i].absorbed
    BY <1>2, <1>5, Facts DEF AbortOperationOk, Session
  <2>3. call' = Idle /\ call'.op = 0 /\ call'.pc = "idle" /\ UNCHANGED bufferMap
    BY <1>5 DEF AbortOperationOk, Idle
  <2>4. OneChanges
    BY <1>2, <1>3, <2>1, <2>2, <2>3 DEF OneChanges
  <2>5. ASSUME session[i].clean PROVE HandedOver(i)' = HandedOver(i)
    <3>1. call.done = 0 /\ call.taken = 0
      BY <1>1, <1>2, <2>5 DEF OrderInv, Shape
    <3>2. HandedOver(i) = session[i].accepted /\ i # 0
      BY <1>2, <3>1, Facts, KeymasterAssumption DEF HandedOver, Session
    <3>3. HandedOver(i)' = session[i].accepted
      BY <2>2, <2>3, <3>2, Facts, KeymasterAssumption DEF HandedOver, Session
    <3> QED BY <3>2, <3>3
  <2>6. InOrder(i)'
    BY <2>1, <2>2, <2>3, <2>5, StillInOrder DEF OrderInv, BytesInOrder
  <2> QED BY <1>2, <2>3, <2>4, <2>6, IdleInShape, OneInOrder
<1> QED BY <1>4, <1>5 DEF AbortSteps

(* The loop of finish() goes round.                                        *)
LEMMA FinishUpdatesInOrder == ASSUME Inv, OrderInv, FinishUpdates PROVE OrderInv'
<1>1. call.pc = "finish" /\ call.op \in DOMAIN session
  BY DEF FinishUpdates, Inv, CallInv
<1>2. PICK i \in DOMAIN session : i = call.op
  BY <1>1
<1>3. /\ call'.pc = "update" /\ call'.op = i /\ call'.done = call.done
      /\ call'.taken = call.taken
  BY <1>2, Facts DEF FinishUpdates, Call
<1>4. UNCHANGED <<bufferMap, device, session>>
  BY DEF FinishUpdates
<1>5. OneChanges
  BY <1>2, <1>3, <1>4 DEF OneChanges
<1>6. Shape'
  BY <1>1, <1>2, <1>3, <1>4 DEF OrderInv, Shape
<1>7. HandedOver(i)' = HandedOver(i)
  BY <1>2, <1>3, <1>4 DEF HandedOver
<1>8. InOrder(i)'
  BY <1>3, <1>4, <1>7, StillInOrder DEF OrderInv, BytesInOrder
<1> QED BY <1>2, <1>5, <1>6, <1>8, OneInOrder

(* What is in the buffer when buffer_final takes it is what is sent.       *)
LEMMA FinishFinalInOrder == ASSUME Inv, OrderInv, FinishFinal PROVE OrderInv'
<1>1. call.pc = "finish" /\ call.op \in DOMAIN session /\ handle \in DOMAIN bufferMap
  BY DEF FinishFinal, Inv, CallInv
<1>2. PICK i \in DOMAIN session : i = call.op
  BY <1>1
<1>3. /\ bufferMap' = Without(bufferMap, handle) /\ UNCHANGED device
      /\ \A h \in DOMAIN bufferMap' : h \in DOMAIN bufferMap /\ bufferMap'[h] = bufferMap[h]
      /\ handle \notin DOMAIN bufferMap'
  BY WithoutKeeps DEF FinishFinal, Without, Restrict
<1>4. CASE CallFails
  BY <1>1, <1>3, <1>4, CallFailsInOrder
<1>5. CASE /\ call' = [call EXCEPT !.pc = "FinishOperation",
                                   !.data = bufferMap[handle].buffer]
           /\ UNCHANGED <<session, faults>>
  <2>1. /\ call'.pc = "FinishOperation" /\ call'.op = i /\ call'.done = call.done
        /\ call'.taken = call.taken /\ call'.data = bufferMap[handle].buffer
    BY <1>2, <1>5, Facts DEF Call
  <2>2. call.taken = 0
    BY <1>1 DEF Inv, CallInv
  <2>3. OneChanges
    BY <1>2, <1>3, <1>5, <2>1 DEF OneChanges
  <2>4. Shape'
    BY <1>1, <1>2, <1>5, <2>1, <2>2 DEF OrderInv, Shape
  <2>5. InOrder(i)'
    <3>1. SUFFICES ASSUME session[i].clean
                   PROVE  /\ Ordered(i, session[i].absorbed, HandedOver(i)')
                          /\ Follows(i, bufferMap[handle].buffer)
                          /\ HandedOver(i)' = HandedOver(i)
                          /\ handle = session[i].handle
      BY <1>2, <1>3, <1>5, <2>1 DEF InOrder, Follows
    <3>2. session[i].status = "open" /\ handle = session[i].handle
      BY <1>1, <1>2 DEF OrderInv, Shape, handle
    <3>3. HandedOver(i)' = HandedOver(i)
      BY <1>2, <1>5, <2>1 DEF HandedOver
    <3> QED BY <1>1, <3>1, <3>2, <3>3 DEF OrderInv, BytesInOrder, InOrder
  <2> QED BY <1>2, <2>3, <2>4, <2>5, OneInOrder
<1> QED BY <1>4, <1>5 DEF FinishFinal

(* With the last reply the chip absorbs what follows what it has.          *)
LEMMA FinishOperationOkInOrder == ASSUME Inv, OrderInv, FinishOperationOk PROVE OrderInv'
<1> DEFINE absorbed == ChipAbsorbs(call.data)
<1>1. /\ call.pc = "FinishOperation" /\ call.op \in DOMAIN session
      /\ handle \in DOMAIN device
  BY DEF FinishOperationOk, Inv, CallInv
<1>2. PICK i \in DOMAIN session : i = call.op
  BY <1>1
<1>3. /\ DOMAIN absorbed = DOMAIN session
      /\ \A j \in DOMAIN session \ {i} : absorbed[j] = session[j]
      /\ absorbed[i] = IF session[i].clean
                       THEN [session[i] EXCEPT !.absorbed = @ \o call.data]
                       ELSE session[i]
  BY <1>1, <1>2, AbsorbsOwn DEF OrderInv
<1>4. session' = [absorbed EXCEPT ![i].status = "finished", ![i].accepted = @ + call.done]
  BY <1>2 DEF FinishOperationOk
<1> HIDE DEF absorbed
<1>5. session[i] \in Session
  BY Facts
<1>6. /\ DOMAIN session' = DOMAIN session
      /\ \A j \in DOMAIN session \ {i} : session'[j] = session[j]
      /\ session'[i].handle = session[i].handle
      /\ session'[i].clean = session[i].clean
      /\ session'[i].status = "finished"
  BY <1>3, <1>4, <1>5 DEF Session
<1>7. /\ session'[i].accepted = session[i].accepted + call.done
      /\ session[i].clean => session'[i].absorbed = session[i].absorbed \o call.data
  BY <1>3, <1>4, <1>5 DEF Session
<1>8. /\ call' = Idle /\ call'.op = 0 /\ UNCHANGED bufferMap
      /\ \A h \in DOMAIN device' : h \in DOMAIN device /\ device'[h] = device[h]
  BY WithoutKeeps DEF FinishOperationOk, Idle
<1>9. OneChanges
  BY <1>2, <1>6, <1>8 DEF OneChanges
<1>10. InOrder(i)'
  <2>1. SUFFICES ASSUME session[i].clean
                 PROVE  Ordered(i, session[i].absorbed \o call.data, HandedOver(i)')
    <3>1. i # 0
      BY Facts
    <3> QED BY <1>6, <1>7, <1>8, <2>1, <3>1 DEF InOrder
  <2>2. /\ Ordered(i, session[i].absorbed, HandedOver(i))
        /\ Follows(i, call.data)
    BY <1>1, <1>2, <2>1 DEF OrderInv, BytesInOrder, InOrder
  <2>3. call.taken = 0 /\ call.done \in Nat /\ session[i].accepted \in Nat /\ i # 0
    BY <1>1, <1>2, Facts, KeymasterAssumption DEF OrderInv, Shape, Call, Session
  <2>4. HandedOver(i) = session[i].accepted + call.done
    BY <1>2, <2>3 DEF HandedOver
  <2>5. HandedOver(i)' = session[i].accepted + call.done
    BY <1>7, <1>8, <2>3 DEF HandedOver
  <2>6. session[i].absorbed \in Seq(Byte) /\ call.data \in Seq(Byte)
    BY <1>5, Facts DEF Session, Call
  <2>7. Ordered(i, session[i].absorbed \o call.data, HandedOver(i))
    BY <2>2, <2>6, OrderedJoin DEF Follows
  <2> QED BY <2>4, <2>5, <2>7
<1> QED BY <1>2, <1>8, <1>9, <1>10, IdleInShape, OneInOrder
(* update() up to the call of the chip: what is appended is what its       *)
(* client handed over next.                                                *)
LEMMA UpdateAppendsInOrder == ASSUME Inv, OrderInv, UpdateAppends PROVE OrderInv'
<1> DEFINE b == bufferMap[handle].buffer
           r == call.size - call.done
           n == AppendCount(Len(b), r)
<1>1. call.pc = "update" /\ call.op \in DOMAIN session /\ handle \in DOMAIN bufferMap
  BY DEF UpdateAppends, Inv, CallInv
<1>2. PICK i \in DOMAIN session : i = call.op
  BY <1>1
<1>3. /\ i \in 1 .. MaxOperations /\ session[i] \in Session
      /\ session[i].absorbed \in Seq(Byte) /\ session[i].accepted \in Nat
      /\ bufferMap[handle] \in Operation
      /\ b \in Seq(Byte) /\ Len(b) \in Nat /\ Len(b) <= MaxChunkSize
      /\ call.done \in Nat /\ call.size \in Nat /\ call.taken \in Nat
      /\ session[i].accepted + call.size <= MaxStream
      /\ call.done + call.taken <= call.size
  BY <1>1, <1>2, CalledFacts
<1>4. /\ bufferMap' = [bufferMap EXCEPT ![handle].buffer = Appended(@, Input)]
      /\ UNCHANGED device
  BY DEF UpdateAppends
<1>5. /\ DOMAIN bufferMap' = DOMAIN bufferMap
      /\ \A h \in DOMAIN bufferMap' \ {handle} : bufferMap'[h] = bufferMap[h]
      /\ bufferMap'[handle].buffer = Appended(b, Input)
  BY <1>1, <1>3, <1>4 DEF Operation
<1>6. CASE CallFails
  BY <1>1, <1>4, <1>5, <1>6, CallFailsInOrder
<1>7. CASE /\ call' = [call EXCEPT !.pc = "UpdateOperation",
                         !.taken = AppendCount(Len(b), Len(Input))]
           /\ UNCHANGED session
  <2> DEFINE h == session[i].accepted + call.done
             more == Chunk(i, h, n)
  <2>1. r \in Nat /\ h \in Nat /\ h + r <= MaxStream
    <3>1. MaxStream \in Nat
      BY KeymasterAssumption
    <3> QED BY ONLY <1>3, <3>1, WhatIsLeft
  <2>2. Input = Chunk(i, h, r)
    BY <1>2 DEF Input
  <2> HIDE DEF r, h
  <2>3. Input \in Seq(Byte) /\ Len(Input) = r
    BY <1>3, <2>1, <2>2, ChunkType
  <2>4. n \in 0 .. r
    <3>1. Len(b) \in 0 .. MaxChunkSize
      BY <1>3, BufferAssumption
    <3> HIDE DEF b
    <3> QED BY <2>1, <3>1, AppendCountBound
  <2> HIDE DEF b
  <2>5. Appended(b, Input) = b \o more
    <3>1. AppendCount(Len(b), Len(Input)) = n
      BY <2>3
    <3> HIDE DEF n
    <3>2. SubSeq(Chunk(i, h, r), 1, n) = more
      BY <1>3, <2>1, <2>4, ChunkFront
    <3> QED BY <2>2, <3>1, <3>2 DEF Appended
  <2> HIDE DEF n
  <2>6. n \in Nat /\ h + n <= MaxStream /\ h + n \in Nat /\ h <= h + n
    <3>1. MaxStream \in Nat
      BY KeymasterAssumption
    <3> QED BY ONLY <2>1, <2>4, <3>1
  <2>7. /\ call'.pc = "UpdateOperation" /\ call'.op = i /\ call'.done = call.done
        /\ call'.taken = n
    BY <1>2, <1>7, <2>3, Facts DEF Call, n, b
  <2>8. OneChanges
    BY <1>2, <1>4, <1>5, <1>7, <2>7 DEF OneChanges
  <2>9. Shape'
    BY <1>1, <1>2, <1>7, <2>7 DEF OrderInv, Shape
  <2>10. InOrder(i)'
    <3>1. SUFFICES ASSUME session[i].clean
                   PROVE  /\ Ordered(i, session[i].absorbed, HandedOver(i)')
                          /\ Ordered(i, b \o more, HandedOver(i)')
                          /\ Before(session[i].absorbed, b \o more)
                          /\ handle = session[i].handle
      BY <1>5, <1>7, <2>5, <2>7 DEF InOrder, Follows
    <3>2. session[i].status = "open" /\ handle = session[i].handle
      BY <1>1, <1>2 DEF OrderInv, Shape, handle
    <3>3. call.taken = 0
      BY <1>1 DEF Inv, CallInv
    <3>4. HandedOver(i) = h
      BY <1>2, <1>3, <3>3 DEF HandedOver, h
    <3>5. HandedOver(i)' = h + n
      <4>1. HandedOver(i)' = session[i].accepted + (call.done + n)
        BY <1>2, <1>7, <2>7 DEF HandedOver
      <4>2. session[i].accepted \in Nat /\ call.done \in Nat /\ n \in Nat
        BY <1>3, <2>6
      <4> QED BY ONLY <4>1, <4>2 DEF h
    <3>6. Ordered(i, session[i].absorbed, h) /\ Ordered(i, b, h)
          /\ Before(session[i].absorbed, b)
      BY <1>1, <3>1, <3>2, <3>4 DEF OrderInv, BytesInOrder, InOrder, Follows, b
    <3>7. /\ more \in Seq(Byte) /\ Ordered(i, more, h + n)
          /\ Before(session[i].absorbed, more) /\ Before(b, more)
      BY <1>3, <2>1, <2>6, <3>6, ChunkOrdered
    <3> HIDE DEF more
    <3>8. Ordered(i, session[i].absorbed, h + n) /\ Ordered(i, b, h + n)
      BY <1>3, <2>1, <2>6, <3>6, OrderedGrows
    <3>9. Ordered(i, b \o more, h + n)
      BY <1>3, <3>7, <3>8, OrderedJoin
    <3>10. Before(session[i].absorbed, b \o more)
      BY <1>3, <3>6, <3>7, BeforeJoin
    <3> QED BY <3>2, <3>5, <3>8, <3>9, <3>10
  <2> QED BY <1>2, <2>8, <2>9, <2>10, OneInOrder
<1> QED BY <1>6, <1>7 DEF UpdateAppends

(* The front of a front.                                                   *)
LEMMA FrontOfFront ==
  ASSUME NEW T, NEW b \in Seq(T), NEW k \in 0 .. Len(b), NEW m \in 0 .. k
  PROVE  SubSeq(SubSeq(b, 1, k), 1, m) = SubSeq(b, 1, m)
<1> DEFINE s == SubSeq(b, 1, k)
           t == SubSeq(b, 1, m)
<1>1. /\ Len(b) \in Nat /\ \A j \in 1 .. Len(b) : b[j] \in T
      /\ k \in Nat /\ m \in Nat /\ m <= k /\ k <= Len(b)
  BY LenProperties, ElementOfSeq
<1>2. s \in Seq(T) /\ Len(s) = k /\ \A j \in 1 .. k : s[j] = b[j]
  <2>1. \A j \in 1 .. k : b[j] \in T
    BY <1>1
  <2> QED BY <1>1, <2>1, SubSeqProperties
<1>3. t \in Seq(T) /\ Len(t) = m /\ \A j \in 1 .. m : t[j] = b[j]
  <2>1. \A j \in 1 .. m : b[j] \in T
    BY <1>1
  <2> QED BY <1>1, <2>1, SubSeqProperties
<1> HIDE DEF s, t
<1>4. /\ SubSeq(s, 1, m) \in Seq(T) /\ Len(SubSeq(s, 1, m)) = m
      /\ \A j \in 1 .. m : SubSeq(s, 1, m)[j] = s[j]
  <2>1. \A j \in 1 .. m : s[j] \in T
    BY <1>1, <1>2
  <2> QED BY <1>1, <2>1, SubSeqProperties
<1>5. \A j \in 1 .. m : SubSeq(s, 1, m)[j] = t[j]
  BY <1>1, <1>2, <1>3, <1>4
<1> QED BY <1>3, <1>4, <1>5, SeqEqual DEF s, t

(* Whatever the chip reports, it absorbed a front of the buffer, and no    *)
(* more than it reports.                                                   *)
LEMMA BytesConsumed ==
  ASSUME Inv, NEW n, UpdateOperationOk(n)
  PROVE  LET b == bufferMap[handle].buffer
         IN  /\ call.pc = "UpdateOperation" /\ call.op \in DOMAIN session
             /\ handle \in DOMAIN bufferMap /\ handle \in DOMAIN device
             /\ n \in Nat
             /\ \E m \in 0 .. Len(b) :
                  m <= n /\ SubSeq(Blocks, 1, Lesser(n, Len(Blocks))) = SubSeq(b, 1, m)
<1> DEFINE b == bufferMap[handle].buffer
           alg == bufferMap[handle].algorithm
           k == PeekCount(alg, Len(b))
<1>1. /\ call.pc = "UpdateOperation" /\ call.op \in DOMAIN session
      /\ handle \in DOMAIN bufferMap /\ handle \in DOMAIN device
      /\ n \in ChipConsumes
  BY DEF UpdateOperationOk, Inv, CallInv
<1>2. b \in Seq(Byte) /\ Len(b) \in Nat /\ alg \in Algorithm
  BY <1>1, CalledFacts DEF Operation
<1>3. Blocks = SubSeq(b, 1, k)
  BY DEF Blocks, Peeked
<1>4. n \in 0 .. Len(b) + 1 \/ n \in {0, Len(Blocks)}
  BY <1>1 DEF ChipConsumes
<1> HIDE DEF b, alg
<1>5. k \in 0 .. Len(b)
  BY <1>2, PeekCountBound
<1> HIDE DEF k
<1>6. \A j \in 1 .. k : b[j] \in Byte
  <2> TAKE j \in 1 .. k
  <2>1. j \in 1 .. Len(b)
    BY <1>2, <1>5
  <2> QED BY <1>2, <2>1, ElementOfSeq
<1>7. Blocks \in Seq(Byte) /\ Len(Blocks) = k
  BY <1>3, <1>5, <1>6, SubSeqProperties
<1>8. n \in Nat
  BY <1>2, <1>4, <1>5, <1>7
<1>9. PICK m \in Nat : m = Lesser(n, k) /\ m <= n /\ m <= k
  BY <1>5, <1>8 DEF Lesser
<1>10. m \in 0 .. k /\ m \in 0 .. Len(b)
  BY <1>2, <1>5, <1>9
<1>11. SubSeq(Blocks, 1, m) = SubSeq(b, 1, m)
  BY <1>2, <1>3, <1>5, <1>10, FrontOfFront
<1> QED BY <1>1, <1>7, <1>8, <1>9, <1>10, <1>11 DEF b

(* With more taken the sum is larger.                                      *)
LEMMA SumGrows ==
  ASSUME NEW a \in Nat, NEW d \in Nat, NEW t \in Nat, NEW c \in Nat, t <= c
  PROVE  a + (d + t) \in Nat /\ a + d + c \in Nat /\ a + (d + t) <= a + d + c
OBVIOUS

(* What the chip reports as consumed leaves the buffer, whether or not the *)
(* chip was sent that much; a report of more than there is fails.          *)
LEMMA UpdateOperationOkInOrder ==
  ASSUME Inv, OrderInv, NEW n, UpdateOperationOk(n) PROVE OrderInv'
<1> DEFINE b        == bufferMap[handle].buffer
           consumed == Consumed(n, Len(b) - n)
           bytes    == SubSeq(Blocks, 1, Lesser(n, Len(Blocks)))
           rest     == SubSeq(b, n + 1, Len(b))
           absorbed == ChipAbsorbs(bytes)
<1>1. /\ call.pc = "UpdateOperation" /\ call.op \in DOMAIN session
      /\ handle \in DOMAIN bufferMap /\ handle \in DOMAIN device
      /\ n \in Nat
  BY BytesConsumed
<1>2. PICK m \in 0 .. Len(b) : m <= n /\ bytes = SubSeq(b, 1, m)
  BY BytesConsumed
<1>3. PICK i \in DOMAIN session : i = call.op
  BY <1>1
<1>4. /\ session[i] \in Session /\ bufferMap[handle] \in Operation /\ i # 0
      /\ session[i].absorbed \in Seq(Byte) /\ session[i].accepted \in Nat
      /\ b \in Seq(Byte) /\ Len(b) \in Nat
      /\ call.done \in Nat /\ call.size \in Nat /\ call.taken \in Nat
      /\ call.done + call.taken <= call.size
  BY <1>1, <1>3, CalledFacts
<1>5. /\ DOMAIN absorbed = DOMAIN session
      /\ \A j \in DOMAIN session \ {i} : absorbed[j] = session[j]
      /\ absorbed[i] = IF session[i].clean
                       THEN [session[i] EXCEPT !.absorbed = @ \o bytes]
                       ELSE session[i]
  BY <1>1, <1>3, AbsorbsOwn DEF OrderInv
<1>6. /\ \/ /\ AdvanceFails(b, n)
            /\ call' = Idle
            /\ session' = [absorbed EXCEPT ![call.op].clean = FALSE]
            /\ UNCHANGED bufferMap
         \/ /\ ~ AdvanceFails(b, n)
            /\ bufferMap' = [bufferMap EXCEPT ![handle].buffer = rest]
            /\ \/ /\ call.api = "update" /\ call' = Idle
                  /\ session' = [absorbed EXCEPT ![call.op].accepted = @ + consumed]
               \/ /\ call' = [call EXCEPT !.pc = "finish", !.taken = 0, !.done = @ + consumed]
                  /\ session' = absorbed
      /\ UNCHANGED device
  BY <1>1 DEF UpdateOperationOk, Advanced
<1>7. session[i].status = "open" /\ handle = session[i].handle
  BY <1>1, <1>3 DEF OrderInv, Shape, handle
<1> HIDE DEF absorbed, consumed, bytes, rest, b
<1>8. /\ absorbed[i].handle = session[i].handle
      /\ absorbed[i].clean = session[i].clean
      /\ absorbed[i].status = session[i].status
      /\ absorbed[i].accepted = session[i].accepted
      /\ session[i].clean => absorbed[i].absorbed = session[i].absorbed \o bytes
  BY <1>4, <1>5 DEF Session
<1>9. absorbed[i] = [handle |-> absorbed[i].handle, algorithm |-> absorbed[i].algorithm,
                     lazy |-> absorbed[i].lazy, status |-> absorbed[i].status,
                     accepted |-> absorbed[i].accepted,
                     absorbed |-> absorbed[i].absorbed, clean |-> absorbed[i].clean]
  BY <1>4, <1>5 DEF Session
<1>10. CASE /\ call' = Idle
            /\ session' = [absorbed EXCEPT ![call.op].clean = FALSE]
            /\ UNCHANGED bufferMap
  <2>1. /\ DOMAIN session' = DOMAIN session
        /\ \A j \in DOMAIN session \ {i} : session'[j] = session[j]
        /\ session'[i].handle = session[i].handle
        /\ session'[i].clean = FALSE
    BY <1>3, <1>5, <1>8, <1>9, <1>10
  <2>2. OneChanges
    BY <1>3, <1>6, <1>10, <2>1 DEF OneChanges, Idle
  <2>3. InOrder(i)'
    BY <2>1 DEF InOrder
  <2> QED BY <1>3, <1>10, <2>2, <2>3, IdleInShape, OneInOrder
<1>11. ASSUME ~ AdvanceFails(b, n),
              bufferMap' = [bufferMap EXCEPT ![handle].buffer = rest],
              \/ /\ call.api = "update" /\ call' = Idle
                 /\ session' = [absorbed EXCEPT ![call.op].accepted = @ + consumed]
              \/ /\ call' = [call EXCEPT !.pc = "finish", !.taken = 0, !.done = @ + consumed]
                 /\ session' = absorbed
       PROVE  OrderInv'
  <2>1. /\ DOMAIN bufferMap' = DOMAIN bufferMap
        /\ \A h \in DOMAIN bufferMap' \ {handle} : bufferMap'[h] = bufferMap[h]
        /\ bufferMap'[handle].buffer = rest
    BY <1>1, <1>4, <1>11 DEF Operation
  <2>2. consumed \in Nat /\ call.taken <= consumed
    <3>1. call.size - call.done \in Nat /\ call.taken <= call.size - call.done
      BY <1>4
    <3>2. consumed \in {call.taken, call.size - call.done}
      BY DEF consumed, Consumed
    <3> QED BY <1>4, <3>1, <3>2
  <2>3. /\ DOMAIN session' = DOMAIN session
        /\ \A j \in DOMAIN session \ {i} : session'[j] = session[j]
        /\ session'[i].handle = session[i].handle
        /\ session'[i].clean = session[i].clean
        /\ session'[i].status = "open"
        /\ session[i].clean => session'[i].absorbed = session[i].absorbed \o bytes
    <3>1. CASE session' = [absorbed EXCEPT ![call.op].accepted = @ + consumed]
      BY <1>3, <1>5, <1>7, <1>8, <1>9, <3>1
    <3>2. CASE session' = absorbed
      BY <1>5, <1>7, <1>8, <3>2
    <3> QED BY <1>11, <3>1, <3>2
  <2>4. /\ call'.op \in {i, 0} /\ call'.pc \in {"idle", "finish"}
        /\ call' = Idle \/ (call'.pc = "finish" /\ call'.op = i)
    <3>1. CASE call' = Idle
      BY <3>1 DEF Idle
    <3>2. CASE call' = [call EXCEPT !.pc = "finish", !.taken = 0, !.done = @ + consumed]
      BY <1>3, <3>2, Facts DEF Call
    <3> QED BY <1>11, <3>1, <3>2
  <2>5. OneChanges
    BY <1>3, <1>6, <2>1, <2>3, <2>4 DEF OneChanges
  <2>6. Shape'
    <3>1. CASE call' = Idle
      BY <3>1, IdleInShape
    <3>2. CASE call'.pc = "finish" /\ call'.op = i
      BY <2>3, <3>2 DEF Shape
    <3> QED BY <2>4, <3>1, <3>2
  <2>7. HandedOver(i)' = session[i].accepted + call.done + consumed
    <3> DEFINE a == session[i].accepted
    <3>1. a \in Nat /\ call.done \in Nat /\ consumed \in Nat
      BY <1>4, <2>2
    <3>2. CASE /\ call.api = "update" /\ call' = Idle
               /\ session' = [absorbed EXCEPT ![call.op].accepted = @ + consumed]
      <4>1. call.done = 0
        BY <3>2 DEF Inv, CallInv
      <4>2. session'[i].accepted = a + consumed /\ call'.op = 0
        BY <1>3, <1>5, <1>8, <1>9, <3>2 DEF Idle
      <4>3. HandedOver(i)' = (a + consumed) + 0
        BY <1>4, <4>2 DEF HandedOver
      <4> HIDE DEF a
      <4>4. (a + consumed) + 0 = a + 0 + consumed
        BY <3>1
      <4> QED BY <4>1, <4>3, <4>4 DEF a
    <3>3. CASE /\ call' = [call EXCEPT !.pc = "finish", !.taken = 0, !.done = @ + consumed]
               /\ session' = absorbed
      <4>1. call'.op = i /\ call'.taken = 0 /\ call'.done = call.done + consumed
        BY <1>3, <3>3, Facts DEF Call
      <4>2. session'[i].accepted = a
        BY <1>8, <3>3
      <4>3. HandedOver(i)' = a + ((call.done + consumed) + 0)
        BY <4>1, <4>2 DEF HandedOver
      <4> HIDE DEF a
      <4>4. a + ((call.done + consumed) + 0) = a + call.done + consumed
        BY <3>1
      <4> QED BY <4>3, <4>4 DEF a
    <3> QED BY <1>11, <3>2, <3>3
  <2>8. PICK h \in Nat, top \in Nat :
          h = HandedOver(i) /\ top = HandedOver(i)' /\ h <= top
    <3> DEFINE a == session[i].accepted
    <3>1. HandedOver(i) = a + (call.done + call.taken)
      BY <1>3 DEF HandedOver
    <3>2. HandedOver(i)' = a + call.done + consumed
      BY <2>7
    <3>3. a \in Nat /\ call.done \in Nat /\ call.taken \in Nat /\ consumed \in Nat
          /\ call.taken <= consumed
      BY <1>4, <2>2
    <3> HIDE DEF a
    <3>4. /\ a + (call.done + call.taken) \in Nat /\ a + call.done + consumed \in Nat
          /\ a + (call.done + call.taken) <= a + call.done + consumed
      BY ONLY <3>3, SumGrows
    <3> QED BY <3>1, <3>2, <3>4
  <2>9. InOrder(i)'
    <3>1. SUFFICES ASSUME session[i].clean
                   PROVE  /\ Ordered(i, session[i].absorbed \o bytes, top)
                          /\ Ordered(i, rest, top)
                          /\ Before(session[i].absorbed \o bytes, rest)
      BY <1>7, <2>1, <2>3, <2>4, <2>8 DEF InOrder, Follows
    <3>2. PICK a \in Seq(Byte) : a = session[i].absorbed
      BY <1>4
    <3>3. Ordered(i, a, h) /\ Ordered(i, b, h) /\ Before(a, b)
      BY <1>1, <1>7, <2>8, <3>1, <3>2 DEF OrderInv, BytesInOrder, InOrder, Follows, b
    <3>4. n <= Len(b)
      BY <1>1, <1>4, <1>11 DEF AdvanceFails
    <3>5. /\ bytes \in Seq(Byte) /\ rest \in Seq(Byte)
          /\ Ordered(i, bytes, h) /\ Ordered(i, rest, h) /\ Before(bytes, rest)
          /\ Before(a, bytes) /\ Before(a, rest)
      <4>1. m \in Nat /\ m <= n /\ bytes = SubSeq(b, 1, m)
        BY <1>2
      <4> QED BY <1>1, <1>4, <3>3, <3>4, <4>1, OrderedPieces DEF rest
    <3>6. Ordered(i, a \o bytes, h) /\ a \o bytes \in Seq(Byte)
      BY <3>3, <3>5, OrderedJoin, ConcatProperties
    <3>7. Before(a \o bytes, rest)
      BY <3>5, BeforeJoin
    <3>8. Ordered(i, a \o bytes, top) /\ Ordered(i, rest, top)
      BY <2>8, <3>5, <3>6, OrderedGrows
    <3> QED BY <3>2, <3>7, <3>8
  <2> QED BY <1>3, <2>5, <2>6, <2>9, OneInOrder
<1> QED BY <1>6, <1>10, <1>11
(* An operation that was started has nothing yet.                          *)
LEMMA StartsInOrder ==
  ASSUME Inv, OrderInv, call.pc = "BeginOperation",
         NEW h \in Handles, NEW alg, NEW lazy \in BOOLEAN,
         NEW status \in {"open", "closed"}, ChipStarts(h, alg, lazy, status),
         \A g \in DOMAIN bufferMap' \ {h} :
           g \in DOMAIN bufferMap /\ bufferMap'[g] = bufferMap[g],
         status = "open" => bufferMap'[h].buffer = << >>,
         call' \in {Idle, [call EXCEPT !.pc = "AbortOperation", !.op = Len(session) + 1]}
  PROVE  OrderInv'
<1>0. PICK new \in Nat : new = Len(session) + 1
  <2>1. Len(session) + 1 \in Nat
    BY Facts, KeymasterAssumption
  <2> QED BY <2>1
<1>1. Started(h, alg, lazy, status, new)
  BY <1>0, ChipStartsEffect, Zenon
<1>2. /\ new \notin DOMAIN session
      /\ DOMAIN session' = DOMAIN session \cup {new}
      /\ \A i \in DOMAIN session :
           /\ session'[i].handle = session[i].handle
           /\ session'[i].status = session[i].status
           /\ session'[i].accepted = session[i].accepted
           /\ session'[i].absorbed = session[i].absorbed
           /\ session'[i].clean = (session[i].clean /\ session[i].handle # h)
      /\ session'[new] = [handle |-> h, algorithm |-> alg, lazy |-> lazy,
                          status |-> status, accepted |-> 0, absorbed |-> << >>,
                          clean |-> TRUE]
  BY ONLY <1>1 DEF Started
<1>3. call.op = 0 /\ call.done = 0 /\ call.taken = 0
  BY DEF OrderInv, Shape
<1>4. \/ call' = Idle /\ call'.op = 0 /\ call'.pc = "idle"
      \/ /\ call'.pc = "AbortOperation" /\ call'.op = new
         /\ call'.done = 0 /\ call'.taken = 0
  <2>1. CASE call' = Idle
    BY <2>1 DEF Idle
  <2>2. CASE call' = [call EXCEPT !.pc = "AbortOperation", !.op = new]
    <3>1. call \in Call
      BY Facts
    <3>2. /\ call'.pc = "AbortOperation" /\ call'.op = new
          /\ call'.done = call.done /\ call'.taken = call.taken
      BY <2>2, <3>1 DEF Call
    <3> QED BY <1>3, <3>2
  <2> QED BY <1>0, <2>1, <2>2
<1>5. 0 \notin DOMAIN session /\ new # 0
  <2>1. DOMAIN session = 1 .. Len(session) /\ Len(session) \in Nat
    BY Facts, KeymasterAssumption
  <2> QED BY ONLY <1>0, <2>1
<1>6. HandlesInOrder' /\ OneCaller'
  BY <1>0, <1>1, <1>4, StartsOwners DEF OrderInv
<1>7. Shape'
  <2>1. CASE call' = Idle
    BY <2>1, IdleInShape
  <2>2. CASE call'.pc = "AbortOperation" /\ call'.done = 0 /\ call'.taken = 0
    BY <2>2 DEF Shape
  <2> QED BY <1>4, <2>1, <2>2
<1>8. ASSUME NEW i \in DOMAIN session PROVE InOrder(i)'
  <2>1. call.op # i /\ call'.op # i
    BY <1>2, <1>3, <1>4, <1>5
  <2>2. HandedOver(i)' = HandedOver(i)
    BY <1>2, <2>1 DEF HandedOver
  <2>3. session[i].handle # h =>
          (session[i].handle \in DOMAIN bufferMap' =>
             /\ session[i].handle \in DOMAIN bufferMap
             /\ bufferMap'[session[i].handle] = bufferMap[session[i].handle])
    OBVIOUS
  <2>4. InOrder(i)
    BY DEF OrderInv, BytesInOrder
  <2> QED BY <1>2, <2>1, <2>2, <2>3, <2>4, StillInOrder
<1>9. InOrder(new)'
  <2>1. /\ session'[new].handle = h /\ session'[new].status = status
        /\ session'[new].absorbed = << >>
    BY <1>2
  <2>2. ~ (call'.op = new /\ call'.pc = "FinishOperation")
    BY <1>4, <1>5
  <2>3. status = "open" => bufferMap'[h].buffer = << >>
    OBVIOUS
  <2>4. Ordered(new, << >>, HandedOver(new)')
    BY OrderedEmpty, Zenon
  <2>5. Before(<< >>, << >>)
    BY BeforeEmpty, Zenon
  <2> QED BY <2>1, <2>2, <2>3, <2>4, <2>5 DEF InOrder, Follows
<1> QED BY <1>2, <1>6, <1>7, <1>8, <1>9 DEF OrderInv, BytesInOrder

LEMMA BeginStepsInOrder == ASSUME Inv, OrderInv, BeginSteps PROVE OrderInv'
<1>1. CASE BeginOperationFails
  <2>1. call.pc = "BeginOperation" /\ call' = Idle /\ UNCHANGED bufferMap
    BY <1>1 DEF BeginOperationFails
  <2>2. CASE UNCHANGED <<device, session>>
    <3>1. call.op = 0 /\ call'.op = 0 /\ call'.pc = "idle"
      BY <2>1 DEF OrderInv, Shape, Idle
    <3>2. 0 \notin DOMAIN session
      BY Facts
    <3>3. HandlesInOrder' /\ OneCaller' /\ Shape'
      BY <2>1, <2>2, <3>1, <3>2, IdleInShape DEF OrderInv, HandlesInOrder, OneCaller
    <3>4. ASSUME NEW i \in DOMAIN session PROVE InOrder(i)'
      <4>1. call.op # i /\ call'.op # i
        BY <3>1, <3>2
      <4>2. HandedOver(i)' = HandedOver(i)
        BY <2>2, <4>1 DEF HandedOver
      <4> QED BY <2>1, <2>2, <4>1, <4>2, StillInOrder DEF OrderInv, BytesInOrder
    <3> QED BY <2>2, <3>3, <3>4 DEF OrderInv, BytesInOrder
  <2>3. ASSUME NEW h \in Handles, NEW alg \in KeyAlgorithms, NEW lazy \in BOOLEAN,
               ChipStarts(h, alg, lazy, "closed")
        PROVE  OrderInv'
    <3>1. \A g \in DOMAIN bufferMap' \ {h} :
            g \in DOMAIN bufferMap /\ bufferMap'[g] = bufferMap[g]
      BY <2>1
    <3> QED BY <2>1, <2>3, <3>1, StartsInOrder
  <2> QED BY <1>1, <2>2, <2>3 DEF BeginOperationFails
<1>2. ASSUME NEW h \in Handles, NEW alg \in KeyAlgorithms, NEW lazy \in BOOLEAN,
             BeginOperationOk(h, alg, lazy)
      PROVE  OrderInv'
  <2> DEFINE rec == [algorithm |-> alg, buffer |-> << >>, owner |-> Len(session) + 1]
  <2>1. /\ call.pc = "BeginOperation" /\ call' = Idle
        /\ ChipStarts(h, alg, lazy, "open")
        /\ bufferMap' = With(bufferMap, h, rec)
        /\ h \notin DOMAIN bufferMap
    BY <1>2 DEF BeginOperationOk, Duplicate
  <2>2. rec.buffer = << >>
    OBVIOUS
  <2> HIDE DEF rec
  <2>3. /\ bufferMap'[h] = rec
        /\ \A g \in DOMAIN bufferMap' \ {h} :
             g \in DOMAIN bufferMap /\ bufferMap'[g] = bufferMap[g]
    BY <2>1 DEF With
  <2> QED BY <2>1, <2>2, <2>3, StartsInOrder
<1>3. ASSUME NEW h \in Handles, NEW alg \in KeyAlgorithms, NEW lazy \in BOOLEAN,
             BeginOperationGivesUp(h, alg, lazy)
      PROVE  OrderInv'
  <2>1. /\ call.pc = "BeginOperation"
        /\ ChipStarts(h, alg, lazy, "closed")
        /\ call' = [call EXCEPT !.pc = "AbortOperation", !.op = Len(session) + 1]
        /\ bufferMap' = Without(bufferMap, h) \/ UNCHANGED bufferMap
    BY <1>3 DEF BeginOperationGivesUp
  <2>2. \A g \in DOMAIN bufferMap' \ {h} :
          g \in DOMAIN bufferMap /\ bufferMap'[g] = bufferMap[g]
    BY <2>1, WithoutKeeps
  <2> QED BY <2>1, <2>2, StartsInOrder
<1> QED BY <1>1, <1>2, <1>3 DEF BeginSteps

(* The clients.                                                            *)
LEMMA ArrivesInOrder ==
  ASSUME Inv, OrderInv, NEW op, NEW size, NEW api,
         NEW pc \in {"update", "finish", "AbortOperation"}, Arrives(api, pc, op, size)
  PROVE  OrderInv'
<1>1. /\ call.pc = "idle" /\ op \in DOMAIN session /\ session[op].status = "open"
      /\ UNCHANGED <<bufferMap, device>>
  BY DEF Arrives
<1>2. call.op = 0 /\ call.done = 0 /\ call.taken = 0 /\ 0 \notin DOMAIN session
  BY <1>1, Facts DEF OrderInv, Shape
<1>3. call'.pc = pc /\ call'.op = op /\ call'.done = 0 /\ call'.taken = 0
  BY DEF Arrives, Idle
<1>4. /\ DOMAIN session' = DOMAIN session
      /\ \A i \in DOMAIN session :
           /\ session'[i].status = session[i].status
           /\ session'[i].clean => session'[i] = session[i]
  BY Facts DEF Arrives, Session
<1>5. HandlesInOrder' /\ OneCaller'
  BY ArrivesOwners DEF OrderInv
<1>6. Shape'
  BY <1>1, <1>3, <1>4 DEF Shape
<1>7. ASSUME NEW i \in DOMAIN session PROVE InOrder(i)'
  <2>1. ASSUME session'[i].clean PROVE HandedOver(i)' = HandedOver(i)
    <3>1. session'[i].accepted = session[i].accepted
      BY <1>4, <2>1
    <3> QED BY <1>2, <1>3, <3>1 DEF HandedOver
  <2> QED BY <1>1, <1>3, <1>4, <2>1, StillInOrder DEF OrderInv, BytesInOrder
<1> QED BY <1>4, <1>5, <1>6, <1>7 DEF OrderInv, BytesInOrder

LEMMA BeginInOrder == ASSUME Inv, OrderInv, Begin PROVE OrderInv'
<1>1. call.pc = "idle" /\ UNCHANGED <<bufferMap, device, session>>
  BY DEF Begin
<1>2. call.op = 0 /\ call.done = 0 /\ call.taken = 0 /\ 0 \notin DOMAIN session
  BY <1>1, Facts DEF OrderInv, Shape
<1>3. /\ call'.pc = "BeginOperation" /\ call'.op = 0
      /\ call'.done = 0 /\ call'.taken = 0
  BY DEF Begin, Idle
<1>4. HandlesInOrder' /\ OneCaller' /\ Shape'
  BY <1>1, <1>2, <1>3 DEF OrderInv, HandlesInOrder, OneCaller, Shape
<1>5. ASSUME NEW i \in DOMAIN session PROVE InOrder(i)'
  <2>1. HandedOver(i)' = HandedOver(i)
    BY <1>1, <1>2, <1>3 DEF HandedOver
  <2> QED BY <1>1, <1>3, <2>1, StillInOrder DEF OrderInv, BytesInOrder
<1> QED BY <1>1, <1>4, <1>5 DEF OrderInv, BytesInOrder

(* Faults from outside the call.                                           *)
LEMMA ChipResetsInOrder == ASSUME Inv, OrderInv, ChipResets PROVE OrderInv'
<1>1. UNCHANGED <<bufferMap, call, session>> /\ DOMAIN device' = {}
  BY DEF ChipResets
<1>2. HandlesInOrder' /\ OneCaller' /\ Shape'
  BY <1>1 DEF OrderInv, HandlesInOrder, OneCaller, Shape, handle
<1>3. ASSUME NEW i \in DOMAIN session PROVE InOrder(i)'
  <2>1. HandedOver(i)' = HandedOver(i)
    BY <1>1 DEF HandedOver
  <2> QED BY <1>1, <2>1, StillInOrder DEF OrderInv, BytesInOrder
<1> QED BY <1>1, <1>2, <1>3 DEF OrderInv, BytesInOrder

LEMMA HalCrashesInOrder == ASSUME Inv, OrderInv, HalCrashes PROVE OrderInv'
<1>1. call' = Idle /\ call'.op = 0 /\ call'.pc = "idle" /\ DOMAIN bufferMap' = {}
      /\ UNCHANGED device
  BY DEF HalCrashes, Idle
<1>2. /\ DOMAIN session' = DOMAIN session
      /\ \A i \in DOMAIN session :
           /\ session'[i].handle = session[i].handle
           /\ session'[i].accepted = session[i].accepted
           /\ session'[i].clean => i # call.op /\ session'[i] = session[i]
  BY Facts DEF HalCrashes, Session
<1>3. 0 \notin DOMAIN session
  BY Facts
<1>4. HandlesInOrder'
  <2>1. \A h \in DOMAIN device : device[h] \in DOMAIN session
    BY Facts
  <2> QED BY <1>1, <1>2, <2>1 DEF OrderInv, HandlesInOrder
<1>5. OneCaller' /\ Shape'
  BY <1>1, <1>2, <1>3, IdleInShape DEF OneCaller
<1>6. ASSUME NEW i \in DOMAIN session PROVE InOrder(i)'
  <2>1. ASSUME session'[i].clean PROVE HandedOver(i)' = HandedOver(i)
    BY <1>1, <1>2, <1>3, <2>1 DEF HandedOver
  <2> QED BY <1>1, <1>2, <2>1, StillInOrder DEF OrderInv, BytesInOrder
<1> QED BY <1>2, <1>4, <1>5, <1>6 DEF OrderInv, BytesInOrder
-----------------------------------------------------------------------------
LEMMA InitInOrder == Init => OrderInv
<1>1. Init => DOMAIN session = {} /\ DOMAIN device = {} /\ call = Idle
  BY DEF Init
<1>2. Idle.pc = "idle" /\ Idle.op = 0 /\ Idle.done = 0 /\ Idle.taken = 0
  BY DEF Idle
<1> QED BY <1>1, <1>2 DEF OrderInv, HandlesInOrder, OneCaller, Shape, BytesInOrder

LEMMA NextInOrder ==
  ASSUME Inv, OrderInv, [Next]_vars
  PROVE  OrderInv'
<1>1. CASE ClientSteps
  <2>1. ASSUME NEW op, NEW size, Update(op, size) \/ Finish(op, size) \/ Abort(op)
        PROVE  OrderInv'
    BY <2>1, ArrivesInOrder DEF Update, Finish, Abort
  <2> QED BY <1>1, <2>1, BeginInOrder DEF ClientSteps
<1>2. CASE BeginSteps
  BY <1>2, BeginStepsInOrder
<1>3. CASE UpdateSteps
  <2>1. CASE UpdateAbsent
    <3>1. call.op \in DOMAIN session
      BY <2>1 DEF UpdateAbsent, Inv, CallInv
    <3> QED BY <2>1, <3>1, CallFailsInOrder DEF UpdateAbsent
  <2>2. CASE UpdateAppends
    BY <2>2, UpdateAppendsInOrder
  <2>3. ASSUME NEW n \in 0 .. MaxChunkSize + 1, UpdateOperationOk(n) PROVE OrderInv'
    BY <2>3, UpdateOperationOkInOrder
  <2>4. CASE UpdateOperationRefused
    BY <2>4, RefusedInOrder DEF UpdateOperationRefused
  <2>5. CASE UpdateOperationLost
    <3>1. call.op \in DOMAIN session
      BY <2>5 DEF UpdateOperationLost, Inv, CallInv
    <3> QED BY <2>5, <3>1, LostInOrder DEF UpdateOperationLost
  <2> QED BY <1>3, <2>1, <2>2, <2>3, <2>4, <2>5 DEF UpdateSteps
<1>4. CASE FinishSteps
  <2>1. CASE FinishUpdates
    BY <2>1, FinishUpdatesInOrder
  <2>2. CASE FinishAbsent
    <3>1. call.op \in DOMAIN session
      BY <2>2 DEF FinishAbsent, Inv, CallInv
    <3> QED BY <2>2, <3>1, CallFailsInOrder DEF FinishAbsent
  <2>3. CASE FinishFinal
    BY <2>3, FinishFinalInOrder
  <2>4. CASE FinishOperationOk
    BY <2>4, FinishOperationOkInOrder
  <2>5. CASE FinishOperationRefused
    BY <2>5, RefusedInOrder DEF FinishOperationRefused
  <2>6. CASE FinishOperationLost
    <3>1. call.op \in DOMAIN session
      BY <2>6 DEF FinishOperationLost, Inv, CallInv
    <3>2. \A h \in DOMAIN device' : h \in DOMAIN device /\ device'[h] = device[h]
      BY <2>6, WithoutKeeps DEF FinishOperationLost
    <3> QED BY <2>6, <3>1, <3>2, LostInOrder DEF FinishOperationLost
  <2> QED BY <1>4, <2>1, <2>2, <2>3, <2>4, <2>5, <2>6 DEF FinishSteps
<1>5. CASE AbortSteps
  BY <1>5, AbortStepsInOrder
<1>6. CASE ChipResets
  BY <1>6, ChipResetsInOrder
<1>7. CASE HalCrashes
  BY <1>7, HalCrashesInOrder
<1>8. CASE UNCHANGED vars
  <2>1. UNCHANGED <<bufferMap, call, device, session>>
    BY <1>8 DEF vars
  <2>2. HandlesInOrder' /\ OneCaller' /\ Shape'
    BY <2>1 DEF OrderInv, HandlesInOrder, OneCaller, Shape, handle
  <2>3. ASSUME NEW i \in DOMAIN session PROVE InOrder(i)'
    <3>1. HandedOver(i)' = HandedOver(i)
      BY <2>1 DEF HandedOver
    <3> QED BY <2>1, <3>1, StillInOrder DEF OrderInv, BytesInOrder
  <2> QED BY <2>1, <2>2, <2>3 DEF OrderInv, BytesInOrder
<1> QED BY <1>1, <1>2, <1>3, <1>4, <1>5, <1>6, <1>7, <1>8 DEF Next, HalSteps

(* Whatever the chip reports as consumed, and however calls fail, are lost *)
(* or are retried: the chip gets the bytes of a clean operation in the     *)
(* order in which its client handed them over, each at most once, and no   *)
(* byte of another (KeymasterDevice::update and finish, with               *)
(* buffer_append, buffer_peek, buffer_advance and buffer_final).           *)
THEOREM BytesStayInOrder == Spec => []BytesInOrder
<1>1. Init => Inv
  BY InitInv
<1>2. Inv /\ [Next]_vars => Inv'
  BY NextInv
<1>3. Init => OrderInv
  BY InitInOrder
<1>4. Inv /\ OrderInv /\ [Next]_vars => OrderInv'
  BY NextInOrder
<1>5. OrderInv => BytesInOrder
  BY DEF OrderInv
<1> QED BY <1>1, <1>2, <1>3, <1>4, <1>5, PTL DEF Spec
=============================================================================
