---------------------------- MODULE BufferCalls -----------------------------
(***************************************************************************)
(* One TCpBUffer (tcp/tcp_buffer.cc) and the calls its users make of it:   *)
(* the coders (writeToBUffer, readFromBuffer, moveReadIndex) and           *)
(* TcpConnection::onread, which reads the socket into the free part of the *)
(* vector and then moves the write index.                                  *)
(***************************************************************************)
EXTENDS TcpBuffer

CONSTANTS Bytes,       \* the values of a byte
          BufferSize,  \* the size the buffer starts with
          MaxRun,      \* bound: bytes written, read or skipped by one call
          MaxSize      \* bound: no write makes the vector larger

ASSUME ByteAssumption == 0 \in Bytes
ASSUME SizeAssumption == BufferSize \in Nat /\ MaxRun \in Nat /\ MaxSize \in Nat

VARIABLES buffer, call   \* call: what the last call was asked to do

vars == <<buffer, call>>

-----------------------------------------------------------------------------
Data == UNION {[1 .. n -> Bytes] : n \in 1 .. MaxRun}

Called(op, data, n) == call' = [op |-> op, data |-> data, n |-> n]

-----------------------------------------------------------------------------
Init == buffer = New(BufferSize) /\ call = [op |-> "none", data |-> <<>>, n |-> 0]

(* A coder's encode. *)
Write(data) ==
  /\ (3 * (buffer.m_write_index + Len(data))) \div 2 <= MaxSize
  /\ buffer' = writeToBUffer(buffer, data)
  /\ Called("write", data, Len(data))

(* StringCoder's decode. *)
Read(n) ==
  /\ buffer' = readFromBuffer(buffer, n)
  /\ Called("read", <<>>, n)

(* TinyPBCoder's decode leaves a frame behind. *)
Skip(n) ==
  /\ n <= readAble(buffer)
  /\ buffer' = moveReadIndex(buffer, n)
  /\ Called("skip", <<>>, n)

(* onread: a full vector is doubled, the socket fills part of what is      *)
(* free, or all of it.                                                     *)
Fill(data) ==
  LET room == IF writeAble(buffer) = 0
              THEN resizeBuffer(buffer, 2 * Size(buffer)) ELSE buffer
  IN  /\ Size(room) <= MaxSize
      /\ Len(data) <= writeAble(room)
      /\ buffer' = moveWriteIndex(Copied(room, room.m_write_index, data),
                                  Len(data))
      /\ Called("fill", data, Len(data))

Next ==
  \/ \E data \in Data : Write(data) \/ Fill(data)
  \/ \E n \in 1 .. MaxRun : Read(n) \/ Skip(n)

Spec == Init /\ [][Next]_vars

-----------------------------------------------------------------------------
(* Properties *)

(* The indices stay in order and inside the vector, which never shrinks:   *)
(* no memcpy of the class leaves it.                                       *)
IndexesInside ==
  buffer \in Buffers(Bytes) /\ IndexOK(buffer) /\ Size(buffer) >= BufferSize

(* The three calls that do not act on the bytes as on a queue. *)

(* A resize after something was read copies from the wrong place. *)
ResizesAfterRead ==
  /\ buffer.m_read_index # 0
  /\ \/ call'.op = "write" /\ call'.n > writeAble(buffer)
     \/ call'.op = "fill" /\ writeAble(buffer) = 0

(* Reading the socket until the vector is full is forgotten. *)
FillsToEnd ==
  /\ call'.op = "fill"
  /\ call'.n = IF writeAble(buffer) = 0
               THEN 2 * Size(buffer) - readAble(buffer) ELSE writeAble(buffer)

(* Skipping up to the end of a full vector is refused. *)
SkipsToEnd ==
  call'.op = "skip" /\ buffer.m_read_index + call'.n = Size(buffer)

(* What the last call was asked to do, done to a queue of bytes. *)
QueueStep ==
  IF call'.op \in {"write", "fill"}
  THEN Contents(buffer)' = Contents(buffer) \o call'.data
  ELSE Contents(buffer)' = SubSeq(Contents(buffer), call'.n + 1, readAble(buffer))

(* Every other call acts on the bytes between the two indices as on a      *)
(* queue, whatever was moved, resized or adjusted on the way.              *)
QueueButForThree ==
  [][ResizesAfterRead \/ FillsToEnd \/ SkipsToEnd \/ QueueStep]_vars
=============================================================================
