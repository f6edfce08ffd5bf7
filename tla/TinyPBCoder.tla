---------------------------- MODULE TinyPBCoder -----------------------------
(***************************************************************************)
(* rocket::TinyPBCoder (net/coder/tinypb_coder.cc): a message as a frame   *)
(*                                                                         *)
(*   PB_START  length  message id and the other fields  PB_END             *)
(*                                                                         *)
(* of bytes, and the search for the next frame in a TCpBUffer.  The length *)
(* is that of the frame, in network byte order.  One byte stands for the   *)
(* message id and its length.  The fields behind it are the payload: any   *)
(* bytes, delimiters among them, which the search does not tell from those *)
(* of a frame.                                                             *)
(***************************************************************************)
EXTENDS TcpBuffer

(* Bytes stay below 127, where a char has no sign, no length is negative,  *)
(* and the sum of a length and an index is still an int.                   *)
Bytes == 0 .. 126

LenBytes == 4
PB_START == 2
PB_END   == 3

(* The bytes that stand for a message id of that length; behind any other  *)
(* byte the fields' lengths do not fit the frame.                          *)
Ids == 10 .. 126

(* htonl, byte by byte. *)
NetBytes(n) == <<n \div 16777216, (n \div 65536) % 256, (n \div 256) % 256, n % 256>>

(* encodeTinyPB: the frame of message id. *)
encodeTinyPB(id, payload) ==
  <<PB_START>> \o NetBytes(Len(payload) + LenBytes + 3) \o <<id>>
    \o payload \o <<PB_END>>

(* tmp[i].  Outside the vector lies the heap: the byte before it is the    *)
(* last one of malloc's size field, which is 0.                            *)
At(b, i) == IF i \in 0 .. Size(b) - 1 THEN b.m_buffer[i + 1] ELSE 0

getInt32FromNetByte(b, i) ==
  ((At(b, i) * 256 + At(b, i + 1)) * 256 + At(b, i + 2)) * 256 + At(b, i + 3)

FrameEnd(b, i) == i + getInt32FromNetByte(b, i + 1) - 1

-----------------------------------------------------------------------------
(* Seeded defects. *)

(* The end of the frame may be where nothing has arrived yet. *)
CompleteTooSoon(b, i) ==
  /\ At(b, i) = PB_START
  /\ i + 1 < b.m_write_index
  /\ FrameEnd(b, i) > i

-----------------------------------------------------------------------------
(* A frame begins at i: one byte of the length must have arrived, and the  *)
(* byte the length points to must have, and be PB_END.                     *)
Complete(b, i) ==
  /\ At(b, i) = PB_START
  /\ i + 1 < b.m_write_index
  /\ FrameEnd(b, i) < b.m_write_index
  /\ At(b, FrameEnd(b, i)) = PB_END

(* Where decode finds frames in one pass over the buffer. *)
Frames(b) ==
  {i \in b.m_read_index .. b.m_write_index - 1 : Complete(b, i)}

(* The first of them, if there is one. *)
FirstFrame(b) ==
  LET frames == Frames(b) IN {i \in frames : \A k \in frames : i <= k}

(* The buffer after the frame at i was taken: as many bytes as the frame   *)
(* has leave it, from its front.                                           *)
Leave(b, i) == moveReadIndex(b, FrameEnd(b, i) - i + 1)

(* The frame at i has room for fields, and their first byte is this. *)
HasFields(b, i) == i + 1 + LenBytes < FrameEnd(b, i)
Field(b, i)     == At(b, i + 1 + LenBytes)

(* What was taken for a frame need not be one that encodeTinyPB made, and  *)
(* the lengths in it may point past its end.                               *)
Unsound(b, i) == HasFields(b, i) /\ Field(b, i) \notin Ids

(* The messages the frame at i may be parsed to: that of its id, none if a *)
(* field would begin behind the end, and either if the lengths are         *)
(* arbitrary; memcpy takes them unchecked.                                 *)
Parsed(b, i) ==
  (IF HasFields(b, i) THEN {<<Field(b, i)>>} ELSE {<<>>})
    \cup (IF Unsound(b, i) THEN {<<>>} ELSE {})
=============================================================================
