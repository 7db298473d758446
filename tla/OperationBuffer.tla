-------------------------- MODULE OperationBuffer --------------------------
(***************************************************************************)
(* class Operation of hals/keymaster/buffer.cpp: the HAL-side buffer of    *)
(* one keymaster operation, as pure operators on a sequence of bytes.      *)
(* Citadel accepts little data per message, so the HAL queues the bytes a  *)
(* client hands to update() and finish() and forwards whole blocks,        *)
(* always holding back the last one.                                       *)
(***************************************************************************)
EXTENDS Integers, Sequences

CONSTANTS
  MaxChunkSize,   \* kMaxChunkSize: capacity of one buffer (384 in the code)
  AesBlockSize,   \* 16 in the code
  DesBlockSize    \* 8 in the code

(* Two blocks of any cipher fit; the code has 384 >= 2 * 16 and 2 * 8.     *)
ASSUME BufferAssumption ==
  /\ MaxChunkSize \in Nat \ {0}
  /\ AesBlockSize \in Nat \ {0}
  /\ DesBlockSize \in Nat \ {0}
  /\ MaxChunkSize >= 2 * AesBlockSize
  /\ MaxChunkSize >= 2 * DesBlockSize

Algorithm == {"RSA", "EC", "AES", "TRIPLE_DES", "HMAC"}

(* _blockSize, set by the constructor; 0 for what is not a block cipher.   *)
BlockSize(alg) ==
  CASE alg = "AES"        -> AesBlockSize
    [] alg = "TRIPLE_DES" -> DesBlockSize
    [] OTHER              -> 0

(* The smaller of two sizes (std::min).                                    *)
Lesser(m, n) == IF m <= n THEN m ELSE n

(* Mutant: append() takes everything. *)
AppendCountUnbounded(occupancy, size) == size

(* How much of an input of `size' bytes append() takes into a buffer that  *)
(* holds `occupancy' bytes: *consumed.                                     *)
AppendCount(occupancy, size) == Lesser(MaxChunkSize - occupancy, size)

(* Mutant: peek() holds back the incomplete block only. *)
RetainPartialBlock(alg, occupancy) ==
  IF BlockSize(alg) = 0 THEN 0 ELSE occupancy % BlockSize(alg)

(* The bytes peek() holds back of a buffer with more than one block.       *)
Retain(alg, occupancy) ==
  IF BlockSize(alg) = 0
  THEN 0
  ELSE (occupancy % BlockSize(alg)) + BlockSize(alg)

(* How many bytes, from the front, peek() offers to the device.            *)
PeekCount(alg, occupancy) ==
  IF occupancy <= BlockSize(alg) THEN 0 ELSE occupancy - Retain(alg, occupancy)

(* append(): the buffer after taking what fits of `input'.                 *)
Appended(buffer, input) ==
  buffer \o SubSeq(input, 1, AppendCount(Len(buffer), Len(input)))

(* peek(): the blocks to send, none of which leaves the buffer yet.        *)
Peeked(alg, buffer) == SubSeq(buffer, 1, PeekCount(alg, Len(buffer)))

(* advance(): the error check and the buffer without its first bytes.      *)
AdvanceFails(buffer, count) == count > Len(buffer)
Advanced(buffer, count) == SubSeq(buffer, count + 1, Len(buffer))
=============================================================================
