---------------------------- MODULE KeymasterOps ----------------------------
(***************************************************************************)
(* Keymaster operations: the HAL of hals/keymaster/KeymasterDevice.cpp     *)
(* between its clients and the Keymaster app on the Citadel chip.          *)
(*                                                                         *)
(* begin() has the chip start an operation and opens a buffer for the      *)
(* handle it chose; update() and finish() push the client's bytes through  *)
(* that buffer; abort() ends the operation on the chip.  The HAL has one   *)
(* thread (configureRpcThreadpool(1)), so one call is served at a time,    *)
(* but the chip can reset, the HAL can die and a message can be lost at    *)
(* any point of a call.  What the HAL does between two chip calls touches  *)
(* HAL state only and is one step with the chip call before it.            *)
(*                                                                         *)
(* The chip is not part of the repository: device and the outcomes of the  *)
(* chip calls are an external component, as liberal as the HAL's handling  *)
(* of each result.                                                         *)
(***************************************************************************)
EXTENDS OperationBuffer, Functions

CONSTANTS
  DigestLength,   \* SHA256_DIGEST_LENGTH (32 in the code)
  Handles,        \* the operation handles the chip can choose
  KeyAlgorithms,  \* the algorithms of the keys clients have
  MaxOperations,  \* bound: operations the chip ever starts
  MaxStream,      \* bound: bytes a client has for one operation
  MaxFaults,      \* bound: losses, refusals, resets and crashes
  Misreports      \* whether the chip may report any number of bytes consumed

ASSUME KeymasterAssumption ==
  /\ DigestLength \in 1 .. MaxChunkSize
  /\ KeyAlgorithms \subseteq Algorithm
  /\ MaxOperations \in Nat
  /\ MaxStream \in Nat
  /\ MaxFaults \in Nat
  /\ Misreports \in BOOLEAN

VARIABLES
  bufferMap,  \* buffer_map: [handle -> the Operation that buffers its bytes]
  call,       \* the call the HAL thread is serving and where it is in it
  device,     \* external: [handle -> index in session], the chip's live ops
  session,    \* the operations the chip started, as their clients see them
  faults      \* how many faults there have been

vars == <<bufferMap, call, device, session, faults>>

(* A byte is known by the operation it was meant for and its position in   *)
(* that operation's stream.                                                *)
Byte == (1 .. MaxOperations) \X (1 .. MaxStream)

(* Bytes from + 1 .. from + n of the stream of operation op.               *)
Chunk(op, from, n) == [i \in 1 .. n |-> <<op, from + i>>]

(* owner is a history field: the operation begin() opened the buffer for.  *)
Operation == [algorithm : Algorithm, buffer : Seq(Byte), owner : 1 .. MaxOperations]

(* lazy: the chip consumes nothing before finish (ECDSA, Digest::NONE).    *)
(* accepted: bytes the client was told were consumed.  absorbed: bytes the *)
(* chip consumed.  clean: no call on the operation has failed and no other *)
(* operation ever had its handle; absorbed is recorded while clean.        *)
Session == [handle : Handles, algorithm : Algorithm, lazy : BOOLEAN,
            status : {"open", "closed", "finished"},
            accepted : 0 .. MaxStream, absorbed : Seq(Byte), clean : BOOLEAN]

(* size: bytes of input; done: of them, consumed by earlier rounds of      *)
(* finish(); taken: appended in this update(); data: what buffer_final     *)
(* returned.                                                               *)
Call == [pc : {"idle", "BeginOperation", "update", "UpdateOperation", "finish",
               "FinishOperation", "AbortOperation"},
         api : {"none", "begin", "update", "finish", "abort"},
         op : 0 .. MaxOperations,
         size : 0 .. MaxStream, done : 0 .. MaxStream, taken : 0 .. MaxStream,
         data : Seq(Byte)]

Idle == [pc |-> "idle", api |-> "none", op |-> 0,
         size |-> 0, done |-> 0, taken |-> 0, data |-> << >>]

Init ==
  /\ bufferMap = << >>
  /\ call = Idle
  /\ device = << >>
  /\ session = << >>
  /\ faults = 0

(* map::erase *)
Without(f, h) == Restrict(f, DOMAIN f \ {h})

(* map::insert: what is there already stays. *)
With(f, h, v) == [g \in DOMAIN f \cup {h} |-> IF g \in DOMAIN f THEN f[g] ELSE v]

(* The handle of the call being served. *)
handle == session[call.op].handle

Fault == faults < MaxFaults /\ faults' = faults + 1

(* The call returns an error: the client no longer knows what got through. *)
CallFails ==
  /\ call' = Idle
  /\ session' = [session EXCEPT ![call.op].clean = FALSE]
-----------------------------------------------------------------------------
(* begin() *)

Begin ==
  /\ call.pc = "idle"
  /\ Len(session) < MaxOperations
  /\ call' = [Idle EXCEPT !.pc = "BeginOperation", !.api = "begin"]
  /\ UNCHANGED <<bufferMap, device, session, faults>>

(* External: the chip starts an operation under a handle that is not live. *)
(* Any operation that had the handle before is not clean any more.         *)
ChipStarts(h, alg, lazy, status) ==
  /\ h \in Handles \ DOMAIN device
  /\ lazy => alg = "EC"
  /\ device' = With(device, h, Len(session) + 1)
  /\ session' = Append([i \in DOMAIN session |->
                          [session[i] EXCEPT !.clean = @ /\ session[i].handle # h]],
                       [handle |-> h, algorithm |-> alg, lazy |-> lazy,
                        status |-> status, accepted |-> 0, absorbed |-> << >>,
                        clean |-> TRUE])

(* The chip refuses, as it must when it has no handle left, or the request *)
(* or the reply is lost: the client gets an error.  An operation whose     *)
(* reply was lost stays on the chip.                                       *)
BeginOperationFails ==
  /\ call.pc = "BeginOperation"
  /\ Fault \/ (DOMAIN device = Handles /\ UNCHANGED faults)
  /\ call' = Idle
  /\ \/ UNCHANGED <<device, session>>
     \/ \E h \in Handles, alg \in KeyAlgorithms, lazy \in BOOLEAN :
          ChipStarts(h, alg, lazy, "closed")
  /\ UNCHANGED bufferMap

(* Mutant: begin() trusts the chip never to repeat a handle. *)
DuplicateUnchecked(h) == FALSE

(* buffer_begin: a handle that already has a buffer is a duplicate. *)
Duplicate(h) == h \in DOMAIN bufferMap

(* The reply arrives: open the buffer and tell the client. *)
BeginOperationOk(h, alg, lazy) ==
  /\ call.pc = "BeginOperation"
  /\ ~ Duplicate(h)
  /\ ChipStarts(h, alg, lazy, "open")
  /\ bufferMap' = With(bufferMap, h,
                       [algorithm |-> alg, buffer |-> << >>, owner |-> Len(session) + 1])
  /\ call' = Idle
  /\ UNCHANGED faults

(* The reply arrives, but begin() has to give up: the handle is a          *)
(* duplicate, whose buffer is dropped, or the algorithm is not one the HAL *)
(* knows.  The new operation is aborted on the chip.                       *)
BeginOperationGivesUp(h, alg, lazy) ==
  /\ call.pc = "BeginOperation"
  /\ ChipStarts(h, alg, lazy, "closed")
  /\ \/ /\ Duplicate(h)
        /\ bufferMap' = Without(bufferMap, h)
        /\ UNCHANGED faults
     \/ /\ Fault
        /\ UNCHANGED bufferMap
  /\ call' = [call EXCEPT !.pc = "AbortOperation", !.op = Len(session) + 1]
-----------------------------------------------------------------------------
(* Clients call the HAL with the handle of an operation they hold open.    *)
(* Whoever else has that handle may have its bytes mixed up.               *)
Arrives(api, pc, op, size) ==
  /\ call.pc = "idle"
  /\ op \in DOMAIN session
  /\ session[op].status = "open"
  /\ session[op].accepted + size <= MaxStream
  /\ call' = [Idle EXCEPT !.pc = pc, !.api = api, !.op = op, !.size = size]
  /\ session' = [i \in DOMAIN session |->
                   IF i # op /\ session[i].handle = session[op].handle
                   THEN [session[i] EXCEPT !.clean = FALSE]
                   ELSE session[i]]
  /\ UNCHANGED <<bufferMap, device, faults>>

Update(op, size) == Arrives("update", "update", op, size)
Finish(op, size) == Arrives("finish", "finish", op, size)
Abort(op)        == Arrives("abort", "AbortOperation", op, 0)
-----------------------------------------------------------------------------
(* update(), called by a client or by the loop of finish() *)

(* buffer_append or buffer_peek on a handle without a buffer. *)
UpdateAbsent ==
  /\ call.pc = "update"
  /\ handle \notin DOMAIN bufferMap
  /\ CallFails
  /\ UNCHANGED <<bufferMap, device, faults>>

(* What this round of update() is given. *)
Input == Chunk(call.op, session[call.op].accepted + call.done, call.size - call.done)

(* buffer_append and buffer_peek; then the parameters may not translate,   *)
(* and update() reports an error although the bytes are in the buffer.     *)
UpdateAppends ==
  /\ call.pc = "update"
  /\ handle \in DOMAIN bufferMap
  /\ bufferMap' = [bufferMap EXCEPT ![handle].buffer = Appended(@, Input)]
  /\ \/ /\ Fault
        /\ CallFails
     \/ /\ call' = [call EXCEPT !.pc = "UpdateOperation",
                      !.taken = AppendCount(Len(bufferMap[handle].buffer), Len(Input))]
        /\ UNCHANGED <<session, faults>>
  /\ UNCHANGED device

(* The blocks the request carries. *)
Blocks == Peeked(bufferMap[handle].algorithm, bufferMap[handle].buffer)

(* External: how many bytes the chip says it consumed. *)
ChipConsumes ==
  IF Misreports
  THEN 0 .. Len(bufferMap[handle].buffer) + 1
  ELSE {IF session[device[handle]].lazy THEN 0 ELSE Len(Blocks)}

(* External: the chip processes bytes for the operation that is live. *)
ChipAbsorbs(bytes) ==
  [session EXCEPT ![device[handle]].absorbed =
     IF session[device[handle]].clean THEN @ \o bytes ELSE @]

(* Mutants: the whole input is reported, whatever append() took; the bytes *)
(* sent are reported on top; no special case for ECDSA.                    *)
ConsumedAll(n, remaining)    == call.size - call.done
ConsumedTwice(n, remaining)  == call.taken + n
ConsumedNoEcdsa(n, remaining) == call.taken

(* What update() reports as consumed: what append() took, or everything    *)
(* when the chip is only waiting for the left-most bytes of an ECDSA       *)
(* digest and has them.                                                    *)
Consumed(n, remaining) ==
  IF /\ bufferMap[handle].algorithm = "EC"
     /\ n = 0
     /\ remaining >= DigestLength
  THEN call.size - call.done
  ELSE call.taken

UpdateOperationOk(n) ==
  /\ call.pc = "UpdateOperation"
  /\ handle \in DOMAIN device
  /\ n \in ChipConsumes
  /\ LET buffer   == bufferMap[handle].buffer
         consumed == Consumed(n, Len(buffer) - n)
         absorbed == ChipAbsorbs(SubSeq(Blocks, 1, Lesser(n, Len(Blocks))))
     IN  IF AdvanceFails(buffer, n)
         THEN /\ call' = Idle
              /\ session' = [absorbed EXCEPT ![call.op].clean = FALSE]
              /\ UNCHANGED bufferMap
         ELSE /\ bufferMap' = [bufferMap EXCEPT ![handle].buffer = Advanced(@, n)]
              /\ IF call.api = "update"
                 THEN /\ call' = Idle
                      /\ session' = [absorbed EXCEPT ![call.op].accepted = @ + consumed]
                 ELSE /\ call' = [call EXCEPT !.pc = "finish", !.taken = 0,
                                              !.done = @ + consumed]
                      /\ session' = absorbed
  /\ UNCHANGED <<device, faults>>

(* KM_CALLV_ABORT, device error: reported, and nothing else.  The chip may *)
(* have ended the operation.                                               *)
Refused(pc) ==
  /\ call.pc = pc
  /\ CallFails
  /\ \/ /\ handle \notin DOMAIN device
        /\ UNCHANGED <<device, faults>>
     \/ /\ handle \in DOMAIN device
        /\ Fault
        /\ device' \in {device, Without(device, handle)}
  /\ UNCHANGED bufferMap

UpdateOperationRefused == Refused("UpdateOperation")

(* KM_CALLV_ABORT, transport error: reported, then abort(handle) before    *)
(* returning.  What the chip consumed, if it got the request, is unknown.  *)
UpdateOperationLost ==
  /\ call.pc = "UpdateOperation"
  /\ Fault
  /\ session' = [session EXCEPT ![call.op].clean = FALSE]
  /\ call' = [call EXCEPT !.pc = "AbortOperation"]
  /\ UNCHANGED <<bufferMap, device>>
-----------------------------------------------------------------------------
(* finish() *)

(* while (consumed < input.size()) update(...) *)
FinishUpdates ==
  /\ call.pc = "finish"
  /\ call.done < call.size
  /\ call' = [call EXCEPT !.pc = "update"]
  /\ UNCHANGED <<bufferMap, device, session, faults>>

FinishAbsent ==
  /\ call.pc = "finish"
  /\ call.done >= call.size
  /\ handle \notin DOMAIN bufferMap
  /\ CallFails
  /\ UNCHANGED <<bufferMap, device, faults>>

(* buffer_final takes the buffer out of the map; then the parameters may   *)
(* not translate, and the operation stays on the chip.                     *)
FinishFinal ==
  /\ call.pc = "finish"
  /\ call.done >= call.size
  /\ handle \in DOMAIN bufferMap
  /\ bufferMap' = Without(bufferMap, handle)
  /\ \/ /\ Fault
        /\ CallFails
     \/ /\ call' = [call EXCEPT !.pc = "FinishOperation",
                                !.data = bufferMap[handle].buffer]
        /\ UNCHANGED <<session, faults>>
  /\ UNCHANGED device

FinishOperationOk ==
  /\ call.pc = "FinishOperation"
  /\ handle \in DOMAIN device
  /\ device' = Without(device, handle)
  /\ session' = [ChipAbsorbs(call.data) EXCEPT
                   ![call.op].status = "finished",
                   ![call.op].accepted = @ + call.done]
  /\ call' = Idle
  /\ UNCHANGED <<bufferMap, faults>>

FinishOperationRefused == Refused("FinishOperation")

FinishOperationLost ==
  /\ call.pc = "FinishOperation"
  /\ Fault
  /\ device' \in {device, Without(device, handle)}
  /\ session' = [session EXCEPT ![call.op].clean = FALSE]
  /\ call' = [call EXCEPT !.pc = "AbortOperation"]
  /\ UNCHANGED bufferMap
-----------------------------------------------------------------------------
(* abort(), called by a client, by begin() or by KM_CALLV_ABORT.  Only the *)
(* chip is told: the buffer of the handle stays in the map.                *)

AbortOperationOk ==
  /\ call.pc = "AbortOperation"
  /\ handle \in DOMAIN device
  /\ device' = Without(device, handle)
  /\ session' = IF call.api = "abort"
                THEN [session EXCEPT ![call.op].status = "closed"]
                ELSE session
  /\ call' = Idle
  /\ UNCHANGED <<bufferMap, faults>>

(* The handle is not live, or the request or the reply is lost. *)
AbortOperationFails ==
  /\ call.pc = "AbortOperation"
  /\ CallFails
  /\ \/ /\ handle \notin DOMAIN device
        /\ UNCHANGED <<device, faults>>
     \/ /\ Fault
        /\ device' \in {device, Without(device, handle)}
  /\ UNCHANGED bufferMap
-----------------------------------------------------------------------------
(* External: the chip resets (citadeld's reset(), an alert, its watchdog)  *)
(* and forgets its operations, whatever the HAL is doing.                  *)
ChipResets ==
  /\ Fault
  /\ device' = << >>
  /\ UNCHANGED <<bufferMap, call, session>>

(* The HAL process dies and is started again: buffer_map is static data of *)
(* the process.  The client of a call in progress gets a transport error.  *)
HalCrashes ==
  /\ Fault
  /\ bufferMap' = << >>
  /\ call' = Idle
  /\ session' = [i \in DOMAIN session |->
                   [session[i] EXCEPT !.clean = @ /\ i # call.op]]
  /\ UNCHANGED device
-----------------------------------------------------------------------------
BeginSteps ==
  \/ BeginOperationFails
  \/ \E h \in Handles, alg \in KeyAlgorithms, lazy \in BOOLEAN :
       BeginOperationOk(h, alg, lazy) \/ BeginOperationGivesUp(h, alg, lazy)

UpdateSteps ==
  \/ UpdateAbsent
  \/ UpdateAppends
  \/ \E n \in 0 .. MaxChunkSize + 1 : UpdateOperationOk(n)
  \/ UpdateOperationRefused
  \/ UpdateOperationLost

FinishSteps ==
  \/ FinishUpdates
  \/ FinishAbsent
  \/ FinishFinal
  \/ FinishOperationOk
  \/ FinishOperationRefused
  \/ FinishOperationLost

AbortSteps == AbortOperationOk \/ AbortOperationFails

(* The HAL thread and the chip working on the call being served. *)
HalSteps == BeginSteps \/ UpdateSteps \/ FinishSteps \/ AbortSteps

ClientSteps ==
  \/ Begin
  \/ \E op \in 1 .. MaxOperations :
       \/ Abort(op)
       \/ \E size \in 0 .. MaxStream : Update(op, size) \/ Finish(op, size)

Next == ClientSteps \/ HalSteps \/ ChipResets \/ HalCrashes

Spec == Init /\ [][Next]_vars

(* The HAL thread runs and every chip call returns (the driver's transfer  *)
(* is bounded); clients, resets and crashes owe nobody anything.           *)
FairSpec == Spec /\ WF_vars(HalSteps)
-----------------------------------------------------------------------------
(* Type correctness of the model; accepted never exceeds what the client   *)
(* has, so no call reports more bytes consumed than it was given.          *)
TypeOK ==
  /\ DOMAIN bufferMap \subseteq Handles
  /\ bufferMap \in [DOMAIN bufferMap -> Operation]
  /\ call \in Call
  /\ DOMAIN device \subseteq Handles
  /\ device \in [DOMAIN device -> 1 .. MaxOperations]
  /\ session \in Seq(Session)
  /\ Len(session) <= MaxOperations
  /\ faults \in 0 .. MaxFaults

(* No sequence of calls, failures and retries makes a buffer outgrow       *)
(* kMaxChunkSize, the size the chip's stack is laid out for                *)
(* (buffer.cpp:42), whatever the chip reports as consumed.                 *)
BufferBounded ==
  \A h \in DOMAIN bufferMap : Len(bufferMap[h].buffer) <= MaxChunkSize

(* What the code of a call relies on at each of its steps: the inductive   *)
(* part of type correctness.                                               *)
CallInv ==
  /\ call.pc \notin {"idle", "BeginOperation"} => call.op \in DOMAIN session
  /\ call.pc = "BeginOperation" => Len(session) < MaxOperations
  /\ call.op \in DOMAIN session =>
       session[call.op].accepted + call.size <= MaxStream
  /\ call.done + call.taken <= call.size
  /\ call.pc \in {"update", "finish"} => call.taken = 0
  /\ call.pc = "UpdateOperation" => handle \in DOMAIN bufferMap
  /\ call.api = "update" => call.done = 0
  /\ \A h \in DOMAIN device : device[h] \in DOMAIN session

(* While the operation a client was given by begin() is live on the chip,  *)
(* the buffer under its handle is the one opened for it: bytes left behind *)
(* by an aborted or forgotten operation never become its input             *)
(* (buffer_begin, buffer.cpp:127).                                         *)
BufferOfItsOwn ==
  \A i \in DOMAIN session :
    LET h == session[i].handle
    IN  /\ session[i].status = "open"
        /\ h \in DOMAIN device
        /\ device[h] = i
        /\ h \in DOMAIN bufferMap
        => bufferMap[h].owner = i

(* The bytes of operation i its client has handed over so far: those       *)
(* reported as consumed and those of the call in progress.                 *)
HandedOver(i) ==
  session[i].accepted + (IF call.op = i THEN call.done + call.taken ELSE 0)

(* Of these, the ones the chip is owed.  A lazy operation keeps as many as *)
(* a buffer holds; the HAL discards the rest.                              *)
Owed(i) == IF session[i].lazy THEN Lesser(MaxChunkSize, HandedOver(i)) ELSE HandedOver(i)

(* Nothing is lost, repeated or reordered between client and chip: what    *)
(* the chip absorbed followed by what the HAL still holds is the stream.   *)
StreamIntact ==
  \A i \in DOMAIN session :
    LET h == session[i].handle
        stream == Chunk(i, 0, Owed(i))
    IN  session[i].clean =>
          /\ (session[i].status = "open" /\ h \in DOMAIN bufferMap)
               => session[i].absorbed \o bufferMap[h].buffer = stream
          /\ (call.op = i /\ call.pc = "FinishOperation")
               => session[i].absorbed \o call.data = stream
          /\ session[i].status = "finished" => session[i].absorbed = stream

(* A block cipher is fed whole blocks, and the last block of the stream is *)
(* still there for finish(), for GCM and for PKCS7 padding                 *)
(* (buffer.cpp:77-79).                                                     *)
LastBlockForFinish ==
  \A i \in DOMAIN session :
    LET block == BlockSize(session[i].algorithm)
    IN  (/\ session[i].clean /\ block > 0
         /\ call.op = i /\ call.pc = "FinishOperation") =>
          /\ Len(session[i].absorbed) % block = 0
          /\ Len(call.data) >= Lesser(block, HandedOver(i))

(* A call of update() or finish() on a handle that the chip has given to   *)
(* an operation that consumes nothing before finish, while the buffer is   *)
(* that of an operation of another kind.                                   *)
Starved ==
  /\ call.pc \in {"finish", "update", "UpdateOperation"}
  /\ handle \in DOMAIN device /\ session[device[handle]].lazy
  /\ handle \in DOMAIN bufferMap /\ bufferMap[handle].algorithm # "EC"

(* Every call returns to its client, with one exception.  finish() loops   *)
(* until its input is consumed (KeymasterDevice.cpp:1150), and the chip    *)
(* may consume nothing for as long as it likes: the loop ends because      *)
(* peek() always makes room, and because of the special case for ECDSA.    *)
(* It never ends on an operation that a reset took from the chip and whose *)
(* handle went to an ECDSA operation of which the HAL missed the reply     *)
(* (:1019): then the special case looks at the wrong algorithm.            *)
CallsReturn == <>[](call.pc # "idle") => <>[]Starved

(* The HAL's own account of the error it raises in buffer_begin:           *)
(* "Duplicate operation handle returned by begin()" (buffer.cpp:128), that *)
(* is, the chip handed out the handle of an operation still in use.        *)
DuplicateMeansInUse ==
  [][\A h \in Handles :
       (call.pc = "BeginOperation" /\ call'.pc = "AbortOperation" /\ Duplicate(h)
          /\ h \notin DOMAIN bufferMap')
       => \E i \in DOMAIN session :
            session[i].handle = h /\ session[i].status = "open"]_vars
=============================================================================
