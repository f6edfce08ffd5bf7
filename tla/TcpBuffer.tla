----------------------------- MODULE TcpBuffer ------------------------------
(***************************************************************************)
(* rocket::TCpBUffer (tcp/tcp_buffer.cc): a vector with a read and a write *)
(* index.  The bytes between the two wait to be read.  Each operator takes *)
(* the buffer a method is called on and gives the buffer it leaves behind. *)
(*                                                                         *)
(* m_buffer is a sequence, so m_buffer[i] of the code is m_buffer[i + 1].  *)
(* m_size is written once and never read, and has no counterpart.          *)
(***************************************************************************)
EXTENDS Integers, Sequences

Buffers(Bytes) == [m_buffer : Seq(Bytes), m_read_index : Nat,
                   m_write_index : Nat]

Zeros(n) == [k \in 1 .. n |-> 0]

(* The vector the constructor leaves is zeroed by std::vector::resize. *)
New(size) ==
  [m_buffer |-> Zeros(size), m_read_index |-> 0, m_write_index |-> 0]

Size(b)      == Len(b.m_buffer)
readAble(b)  == b.m_write_index - b.m_read_index
writeAble(b) == Size(b) - b.m_write_index

(* The bytes that wait to be read, and the index relation they rest on. *)
Contents(b) == SubSeq(b.m_buffer, b.m_read_index + 1, b.m_write_index)

IndexOK(b) == b.m_read_index <= b.m_write_index /\ b.m_write_index <= Size(b)

Least(m, n) == IF m <= n THEN m ELSE n

(* A new zeroed vector of n bytes, which begins with count bytes of the    *)
(* old one from index from on.                                             *)
Moved(b, n, from, count) ==
  [m_buffer |-> SubSeq(b.m_buffer, from + 1, from + count) \o Zeros(n - count),
   m_read_index |-> 0,
   m_write_index |-> count]

(* memcpy into the vector at index at. *)
Copied(b, at, data) ==
  [b EXCEPT !.m_buffer =
     SubSeq(b.m_buffer, 1, at) \o data
       \o SubSeq(b.m_buffer, at + Len(data) + 1, Size(b))]

-----------------------------------------------------------------------------
(* Seeded defects. *)

(* Resized to the amount to write, not to what is needed in all. *)
WriteResizesShort(b, data) ==
  LET fit == IF Len(data) > writeAble(b)
             THEN Moved(b, Len(data), 0, Least(Len(data), readAble(b)))
             ELSE b
  IN  [Copied(fit, fit.m_write_index, data)
         EXCEPT !.m_write_index = @ + Len(data)]

(* Moved to the front from index 0. *)
AdjustFromStart(b) ==
  IF b.m_read_index < Size(b) \div 3
  THEN b
  ELSE Moved(b, Size(b), 0, readAble(b))

(* Moved to the front once two thirds of the vector were read. *)
AdjustAtTwoThirds(b) ==
  IF b.m_read_index < (2 * Size(b)) \div 3
  THEN b
  ELSE Moved(b, Size(b), b.m_read_index, readAble(b))

(* The vector may be written up to its end. *)
MoveWriteToEnd(b, size) ==
  IF b.m_write_index + size > Size(b)
  THEN b
  ELSE [b EXCEPT !.m_write_index = @ + size]

(* One byte of the vector is kept free. *)
MoveWriteShort(b, size) ==
  IF b.m_write_index + size + 1 >= Size(b)
  THEN b
  ELSE [b EXCEPT !.m_write_index = @ + size]

-----------------------------------------------------------------------------
(* Whatever was read before: the copy starts at index 0 (line 64). *)
resizeBuffer(b, new_size) ==
  Moved(b, new_size, 0, Least(new_size, readAble(b)))

(* The bytes move to the front once a third of the vector was read. *)
adjustBuffer(b) ==
  IF b.m_read_index < Size(b) \div 3
  THEN b
  ELSE Moved(b, Size(b), b.m_read_index, readAble(b))

writeToBUffer(b, data) ==
  LET fit == IF Len(data) > writeAble(b)
             THEN resizeBuffer(b, (3 * (b.m_write_index + Len(data))) \div 2)
             ELSE b
  IN  [Copied(fit, fit.m_write_index, data)
         EXCEPT !.m_write_index = @ + Len(data)]

readFromBuffer(b, size) ==
  IF readAble(b) = 0
  THEN b
  ELSE adjustBuffer([b EXCEPT !.m_read_index = @ + Least(readAble(b), size)])

(* An index that would reach the end of the vector is refused. *)
moveReadIndex(b, size) ==
  IF b.m_read_index + size >= Size(b)
  THEN b
  ELSE adjustBuffer([b EXCEPT !.m_read_index = @ + size])

moveWriteIndex(b, size) ==
  IF b.m_write_index + size >= Size(b)
  THEN b
  ELSE adjustBuffer([b EXCEPT !.m_write_index = @ + size])
=============================================================================
