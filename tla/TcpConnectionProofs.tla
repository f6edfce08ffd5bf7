------------------------ MODULE TcpConnectionProofs -------------------------
(***************************************************************************)
(* Theorems about TcpConnection for buffers, frames and sockets of any     *)
(* size and any number of requests: the types, that the in buffer never    *)
(* fills up, how bytes are lost, that a closed connection stays out of     *)
(* epoll and a watched one is unwatched only when it is closed, that the   *)
(* requests are decoded in order, that decode ends, and that the reply to  *)
(* every request decoded is queued and handed to the socket.               *)
(***************************************************************************)
EXTENDS TcpConnection, SequenceTheorems, TLAPS

Good(b) == b \in Buffers(Bytes) /\ IndexOK(b)

-----------------------------------------------------------------------------
(* The operators of TcpBuffer, as far as the indices go. *)

LEMMA ZeroByte == 0 \in Bytes
BY DEF Bytes

LEMMA GoodFacts ==
  ASSUME NEW b, Good(b)
  PROVE  /\ b.m_buffer \in Seq(Bytes) /\ Size(b) = Len(b.m_buffer)
         /\ b.m_read_index \in Nat /\ b.m_write_index \in Nat /\ Size(b) \in Nat
         /\ b.m_read_index <= b.m_write_index /\ b.m_write_index <= Size(b)
         /\ readAble(b) = b.m_write_index - b.m_read_index
         /\ writeAble(b) = Size(b) - b.m_write_index
BY DEF Good, Buffers, IndexOK, Size, readAble, writeAble

LEMMA GoodAsRecord ==
  ASSUME NEW b, Good(b)
  PROVE  b = [m_buffer |-> b.m_buffer, m_read_index |-> b.m_read_index,
              m_write_index |-> b.m_write_index]
BY DEF Good, Buffers

LEMMA GoodRecord ==
  ASSUME NEW v \in Seq(Bytes), NEW r \in Nat, NEW w \in Nat, r <= w, w <= Len(v)
  PROVE  Good([m_buffer |-> v, m_read_index |-> r, m_write_index |-> w])
BY DEF Good, Buffers, IndexOK, Size

(* A piece of a sequence. *)
LEMMA PieceFacts ==
  ASSUME NEW v \in Seq(Bytes), NEW m \in Nat \ {0}, NEW n \in Nat,
         n <= Len(v), m <= n + 1
  PROVE  SubSeq(v, m, n) \in Seq(Bytes) /\ Len(SubSeq(v, m, n)) = n - m + 1
<1>1. \A k \in m .. n : v[k] \in Bytes
  OBVIOUS
<1>2. m \in Int /\ n \in Int
  OBVIOUS
<1>3. /\ SubSeq(v, m, n) \in Seq(Bytes)
      /\ Len(SubSeq(v, m, n)) = IF m <= n THEN n - m + 1 ELSE 0
  BY <1>1, <1>2, SubSeqProperties
<1> QED BY <1>3

LEMMA MovedFacts ==
  ASSUME NEW b, Good(b), NEW n \in Nat, NEW from \in Nat, NEW count \in Nat,
         count <= n, from + count <= Size(b)
  PROVE  /\ Good(Moved(b, n, from, count)) /\ Size(Moved(b, n, from, count)) = n
         /\ Moved(b, n, from, count).m_read_index = 0
         /\ Moved(b, n, from, count).m_write_index = count
<1> DEFINE front == SubSeq(b.m_buffer, from + 1, from + count)
           m == front \o Zeros(n - count)
<1>1. front \in Seq(Bytes) /\ Len(front) = count
  <2>1. from + 1 \in Nat \ {0} /\ from + count \in Nat /\ from + 1 <= from + count + 1
    OBVIOUS
  <2>2. b.m_buffer \in Seq(Bytes) /\ from + count <= Len(b.m_buffer)
    BY GoodFacts
  <2>3. front \in Seq(Bytes) /\ Len(front) = (from + count) - (from + 1) + 1
    BY <2>1, <2>2, PieceFacts
  <2> HIDE DEF front
  <2> QED BY <2>3
<1>2. Zeros(n - count) \in Seq(Bytes) /\ Len(Zeros(n - count)) = n - count
  BY ZeroByte DEF Zeros
<1> HIDE DEF front
<1>3. m \in Seq(Bytes) /\ Len(m) = n
  <2> DEFINE rest == Zeros(n - count)
  <2>1. rest \in Seq(Bytes) /\ Len(rest) = n - count
    BY <1>2
  <2> HIDE DEF rest
  <2>2. front \o rest \in Seq(Bytes) /\ Len(front \o rest) = Len(front) + Len(rest)
    BY <1>1, <2>1, ConcatProperties
  <2>3. Len(front) + Len(rest) = n
    BY <1>1, <2>1
  <2> QED BY <2>2, <2>3 DEF rest
<1>4. Moved(b, n, from, count) =
        [m_buffer |-> m, m_read_index |-> 0, m_write_index |-> count]
  BY DEF Moved, front
<1> HIDE DEF m
<1>5. Good([m_buffer |-> m, m_read_index |-> 0, m_write_index |-> count])
  <2>1. 0 \in Nat /\ 0 <= count /\ count <= Len(m)
    BY <1>3
  <2> QED BY <1>3, <2>1, GoodRecord
<1> QED BY <1>3, <1>4, <1>5 DEF Size

LEMMA CopiedFacts ==
  ASSUME NEW b, Good(b), NEW data \in Seq(Bytes), Len(data) <= writeAble(b)
  PROVE  /\ Good(Copied(b, b.m_write_index, data))
         /\ Size(Copied(b, b.m_write_index, data)) = Size(b)
         /\ Copied(b, b.m_write_index, data).m_read_index = b.m_read_index
         /\ Copied(b, b.m_write_index, data).m_write_index = b.m_write_index
<1> DEFINE w == b.m_write_index
           front == SubSeq(b.m_buffer, 1, w)
           back == SubSeq(b.m_buffer, w + Len(data) + 1, Size(b))
           c == front \o data \o back
<1>1. /\ b.m_buffer \in Seq(Bytes) /\ w \in Nat /\ Size(b) \in Nat
      /\ Size(b) = Len(b.m_buffer) /\ w <= Size(b)
      /\ w + Len(data) <= Size(b) /\ Len(data) \in Nat
      /\ b.m_read_index \in Nat /\ b.m_read_index <= w
      /\ b = [m_buffer |-> b.m_buffer, m_read_index |-> b.m_read_index,
              m_write_index |-> w]
  BY GoodFacts, GoodAsRecord
<1> HIDE DEF w
<1>2. front \in Seq(Bytes) /\ Len(front) = w
  <2>1. front \in Seq(Bytes) /\ Len(front) = w - 1 + 1
    BY <1>1, PieceFacts
  <2> QED BY <1>1, <2>1
<1>3. back \in Seq(Bytes) /\ Len(back) = Size(b) - w - Len(data)
  <2>1. w + Len(data) + 1 \in Nat \ {0} /\ w + Len(data) + 1 <= Size(b) + 1
    BY <1>1
  <2>2. \A m \in Nat \ {0} : m <= Size(b) + 1 =>
          /\ SubSeq(b.m_buffer, m, Size(b)) \in Seq(Bytes)
          /\ Len(SubSeq(b.m_buffer, m, Size(b))) = Size(b) - m + 1
    BY <1>1, PieceFacts
  <2>3. back \in Seq(Bytes) /\ Len(back) = Size(b) - (w + Len(data) + 1) + 1
    BY <2>1, <2>2
  <2> HIDE DEF back
  <2> QED BY <1>1, <2>3
<1> HIDE DEF front, back
<1>4. front \o data \in Seq(Bytes) /\ Len(front \o data) = w + Len(data)
  BY <1>2, ConcatProperties
<1>5. c \in Seq(Bytes) /\ Len(c) = Size(b)
  <2> DEFINE d == front \o data
  <2>1. d \in Seq(Bytes) /\ Len(d) = w + Len(data)
    BY <1>4
  <2> HIDE DEF d
  <2>2. d \o back \in Seq(Bytes) /\ Len(d \o back) = Len(d) + Len(back)
    BY <1>3, <2>1, ConcatProperties
  <2>3. Len(d) + Len(back) = Size(b)
    <3>1. /\ w \in Nat /\ Len(data) \in Nat /\ Size(b) \in Nat
          /\ Len(d) = w + Len(data) /\ Len(back) = Size(b) - w - Len(data)
      BY <1>1, <1>3, <2>1
    <3>2. \A x, y, z \in Nat : (x + y) + (z - x - y) = z
      OBVIOUS
    <3> QED BY <3>1, <3>2
  <2> QED BY <2>2, <2>3 DEF d
<1> HIDE DEF c
<1>6. Copied(b, w, data) = [b EXCEPT !.m_buffer = c]
  BY DEF Copied, front, back, c
<1>7. Copied(b, w, data) = [m_buffer |-> c, m_read_index |-> b.m_read_index,
                            m_write_index |-> w]
  BY <1>1, <1>6
<1> QED BY <1>1, <1>5, <1>7, GoodRecord DEF Size, w

LEMMA AdjustFacts ==
  ASSUME NEW b, Good(b)
  PROVE  /\ Good(adjustBuffer(b)) /\ Size(adjustBuffer(b)) = Size(b)
         /\ readAble(adjustBuffer(b)) = readAble(b)
         /\ adjustBuffer(b).m_write_index <= b.m_write_index
<1>1. CASE b.m_read_index < Size(b) \div 3
  BY <1>1, GoodFacts DEF adjustBuffer
<1>2. CASE ~(b.m_read_index < Size(b) \div 3)
  <2> DEFINE m == Moved(b, Size(b), b.m_read_index, readAble(b))
  <2>1. /\ b.m_read_index \in Nat /\ readAble(b) \in Nat /\ Size(b) \in Nat
        /\ readAble(b) <= Size(b) /\ b.m_read_index + readAble(b) <= Size(b)
        /\ readAble(b) <= b.m_write_index
    BY GoodFacts
  <2>2. /\ Good(m) /\ Size(m) = Size(b)
        /\ m.m_read_index = 0 /\ m.m_write_index = readAble(b)
    BY <2>1, MovedFacts
  <2>3. adjustBuffer(b) = m
    BY <1>2 DEF adjustBuffer
  <2> HIDE DEF m
  <2>4. readAble(m) = readAble(b)
    BY <2>1, <2>2 DEF readAble
  <2> QED BY <2>1, <2>2, <2>3, <2>4
<1> QED BY <1>1, <1>2

LEMMA MoveReadFacts ==
  ASSUME NEW b, Good(b), NEW n \in Nat, n <= readAble(b)
  PROVE  /\ Good(moveReadIndex(b, n)) /\ Size(moveReadIndex(b, n)) = Size(b)
         /\ moveReadIndex(b, n).m_write_index <= b.m_write_index
<1> DEFINE c == [b EXCEPT !.m_read_index = @ + n]
<1>1. CASE b.m_read_index + n >= Size(b)
  BY <1>1, GoodFacts DEF moveReadIndex
<1>2. CASE ~(b.m_read_index + n >= Size(b))
  <2>1. c = [m_buffer |-> b.m_buffer, m_read_index |-> b.m_read_index + n,
             m_write_index |-> b.m_write_index]
    BY GoodAsRecord
  <2>2. /\ b.m_buffer \in Seq(Bytes) /\ b.m_read_index + n \in Nat
        /\ b.m_write_index \in Nat /\ b.m_read_index + n <= b.m_write_index
        /\ b.m_write_index <= Len(b.m_buffer)
    BY GoodFacts
  <2>3. moveReadIndex(b, n) = adjustBuffer(c)
    BY <1>2 DEF moveReadIndex
  <2> HIDE DEF c
  <2>4. Good(c) /\ Size(c) = Size(b) /\ c.m_write_index = b.m_write_index
    BY <2>1, <2>2, GoodRecord DEF Size
  <2> QED BY <2>3, <2>4, AdjustFacts
<1> QED BY <1>1, <1>2

LEMMA MoveWriteFacts ==
  ASSUME NEW b, Good(b), NEW n \in Nat, n <= writeAble(b)
  PROVE  /\ Good(moveWriteIndex(b, n)) /\ Size(moveWriteIndex(b, n)) = Size(b)
         /\ b.m_write_index < Size(b) => moveWriteIndex(b, n).m_write_index < Size(b)
         /\ n # writeAble(b) => readAble(moveWriteIndex(b, n)) = readAble(b) + n
<1> DEFINE c == [b EXCEPT !.m_write_index = @ + n]
<1>1. CASE b.m_write_index + n >= Size(b)
  <2>1. moveWriteIndex(b, n) = b
    BY <1>1 DEF moveWriteIndex
  <2>2. n = writeAble(b)
    BY <1>1, GoodFacts
  <2> QED BY <2>1, <2>2
<1>2. CASE ~(b.m_write_index + n >= Size(b))
  <2>1. c = [m_buffer |-> b.m_buffer, m_read_index |-> b.m_read_index,
             m_write_index |-> b.m_write_index + n]
    BY GoodAsRecord
  <2>2. /\ b.m_buffer \in Seq(Bytes) /\ b.m_read_index \in Nat
        /\ b.m_write_index + n \in Nat /\ b.m_read_index <= b.m_write_index + n
        /\ b.m_write_index + n <= Len(b.m_buffer) /\ b.m_write_index + n < Size(b)
        /\ readAble(b) + n = b.m_write_index + n - b.m_read_index
        /\ Size(b) \in Nat
    BY <1>2, GoodFacts
  <2>3. moveWriteIndex(b, n) = adjustBuffer(c)
    BY <1>2 DEF moveWriteIndex
  <2> HIDE DEF c
  <2>4. /\ Good(c) /\ Size(c) = Size(b) /\ c.m_write_index = b.m_write_index + n
        /\ readAble(c) = readAble(b) + n
    <3>1. Good(c)
      BY <2>1, <2>2, GoodRecord
    <3>2. /\ c.m_buffer = b.m_buffer /\ c.m_read_index = b.m_read_index
          /\ c.m_write_index = b.m_write_index + n
      BY <2>1
    <3>3. Size(c) = Size(b)
      BY <3>2 DEF Size
    <3>4. /\ readAble(c) = c.m_write_index - c.m_read_index
          /\ c.m_write_index \in Nat /\ c.m_read_index \in Nat
          /\ b.m_write_index \in Nat /\ b.m_read_index \in Nat
      BY <3>1, GoodFacts
    <3>5. readAble(c) = readAble(b) + n
      BY <2>2, <3>2, <3>4
    <3> QED BY <3>1, <3>2, <3>3, <3>5
  <2>5. /\ Good(adjustBuffer(c)) /\ Size(adjustBuffer(c)) = Size(b)
        /\ readAble(adjustBuffer(c)) = readAble(b) + n
        /\ adjustBuffer(c).m_write_index <= b.m_write_index + n
    BY <2>4, AdjustFacts
  <2>6. adjustBuffer(c).m_write_index \in Nat
    BY <2>5, GoodFacts
  <2> QED BY <2>2, <2>3, <2>5, <2>6
<1> QED BY <1>1, <1>2

LEMMA WriteFacts ==
  ASSUME NEW b, Good(b), NEW data \in Seq(Bytes)
  PROVE  Good(writeToBUffer(b, data))
<1> DEFINE n == (3 * (b.m_write_index + Len(data))) \div 2
           fit == IF Len(data) > writeAble(b) THEN resizeBuffer(b, n) ELSE b
           put == Copied(fit, fit.m_write_index, data)
<1>1. /\ b.m_write_index \in Nat /\ Len(data) \in Nat /\ Size(b) \in Nat
      /\ n \in Nat /\ n >= b.m_write_index + Len(data)
      /\ readAble(b) \in Nat /\ readAble(b) <= b.m_write_index
      /\ readAble(b) <= Size(b)
  <2>1. /\ b.m_write_index \in Nat /\ Len(data) \in Nat /\ Size(b) \in Nat
        /\ readAble(b) \in Nat /\ readAble(b) <= b.m_write_index
        /\ readAble(b) <= Size(b)
    <3> HIDE DEF n, fit, put
    <3> QED BY GoodFacts
  <2>2. \A k \in Nat : (3 * k) \div 2 \in Nat /\ (3 * k) \div 2 >= k
    OBVIOUS
  <2>3. n \in Nat /\ n >= b.m_write_index + Len(data)
    <3>1. b.m_write_index + Len(data) \in Nat
      BY <2>1
    <3> QED BY <2>2, <3>1
  <2> QED BY <2>1, <2>3
<1> HIDE DEF n
<1>2. Good(fit) /\ Len(data) <= writeAble(fit)
  <2>1. CASE Len(data) > writeAble(b)
    <3>1. resizeBuffer(b, n) = Moved(b, n, 0, readAble(b))
      BY <1>1 DEF resizeBuffer, Least
    <3>2. /\ Good(resizeBuffer(b, n)) /\ Size(resizeBuffer(b, n)) = n
          /\ resizeBuffer(b, n).m_write_index = readAble(b)
      BY <1>1, <3>1, MovedFacts
    <3> QED BY <1>1, <2>1, <3>2 DEF writeAble
  <2>2. CASE ~(Len(data) > writeAble(b))
    BY <1>1, <2>2, GoodFacts
  <2> QED BY <2>1, <2>2
<1> HIDE DEF fit
<1>3. /\ Good(put) /\ Size(put) = Size(fit)
      /\ put.m_write_index = fit.m_write_index
  BY <1>2, CopiedFacts
<1>4. writeToBUffer(b, data) = [put EXCEPT !.m_write_index = @ + Len(data)]
  BY DEF writeToBUffer, put, fit, n
<1> HIDE DEF put
<1>5. writeToBUffer(b, data) =
        [m_buffer |-> put.m_buffer, m_read_index |-> put.m_read_index,
         m_write_index |-> put.m_write_index + Len(data)]
  <2>1. put = [m_buffer |-> put.m_buffer, m_read_index |-> put.m_read_index,
               m_write_index |-> put.m_write_index]
    BY <1>3, GoodAsRecord
  <2> QED BY <1>4, <2>1
<1>6. /\ put.m_buffer \in Seq(Bytes) /\ put.m_read_index \in Nat
      /\ put.m_write_index + Len(data) \in Nat
      /\ put.m_read_index <= put.m_write_index + Len(data)
      /\ put.m_write_index + Len(data) <= Len(put.m_buffer)
  <2>1. /\ fit.m_write_index \in Nat /\ Size(fit) \in Nat
        /\ writeAble(fit) = Size(fit) - fit.m_write_index
    BY <1>2, GoodFacts
  <2>2. /\ put.m_buffer \in Seq(Bytes) /\ put.m_read_index \in Nat
        /\ put.m_read_index <= put.m_write_index /\ Size(put) = Len(put.m_buffer)
    BY <1>3, GoodFacts
  <2> QED BY <1>1, <1>2, <1>3, <2>1, <2>2
<1> QED BY <1>5, <1>6, GoodRecord
-----------------------------------------------------------------------------
(* The frames a buffer holds, and the ones the peer and excute make. *)

LEMMA AtByte ==
  ASSUME NEW b, Good(b), NEW i \in Int
  PROVE  At(b, i) \in Bytes
<1>1. CASE i \in 0 .. Size(b) - 1
  <2>1. b.m_buffer \in Seq(Bytes) /\ i + 1 \in 1 .. Len(b.m_buffer)
    BY <1>1, GoodFacts
  <2>2. b.m_buffer[i + 1] \in Bytes
    BY <2>1
  <2> QED BY <1>1, <2>2 DEF At
<1>2. CASE i \notin 0 .. Size(b) - 1
  BY <1>2, ZeroByte DEF At
<1> QED BY <1>1, <1>2

(* A frame that was found ends before the write index: no more bytes than  *)
(* there are leave the buffer with it.                                     *)
LEMMA FrameFacts ==
  ASSUME NEW b, Good(b), NEW i \in Frames(b)
  PROVE  /\ i \in Nat /\ FrameEnd(b, i) \in Int
         /\ FrameEnd(b, i) - i + 1 \in Nat
         /\ FrameEnd(b, i) - i + 1 <= readAble(b)
<1>1. /\ b.m_read_index \in Nat /\ b.m_write_index \in Nat
      /\ readAble(b) = b.m_write_index - b.m_read_index
  BY GoodFacts
<1>2. i \in Nat /\ b.m_read_index <= i /\ FrameEnd(b, i) < b.m_write_index
  BY <1>1 DEF Frames, Complete
<1>3. getInt32FromNetByte(b, i + 1) \in Nat
  <2>1. \A k \in Int : At(b, k) \in Nat
    BY AtByte DEF Bytes
  <2>2. /\ At(b, i + 1) \in Nat /\ At(b, i + 2) \in Nat
        /\ At(b, i + 3) \in Nat /\ At(b, i + 4) \in Nat
    BY <1>2, <2>1
  <2>3. i + 1 + 1 = i + 2 /\ i + 1 + 2 = i + 3 /\ i + 1 + 3 = i + 4
    BY <1>2
  <2> QED BY <2>2, <2>3 DEF getInt32FromNetByte
<1> QED BY <1>1, <1>2, <1>3 DEF FrameEnd

LEMMA LeaveFacts ==
  ASSUME NEW b, Good(b), NEW i \in Frames(b)
  PROVE  /\ Good(Leave(b, i)) /\ Size(Leave(b, i)) = Size(b)
         /\ Leave(b, i).m_write_index <= b.m_write_index
BY FrameFacts, MoveReadFacts DEF Leave

LEMMA ParsedFacts ==
  ASSUME NEW b, Good(b), NEW i \in Frames(b), NEW id \in Parsed(b, i)
  PROVE  id \in Seq(Bytes)
<1>1. i + 1 + LenBytes \in Int
  BY FrameFacts DEF LenBytes
<1>2. Field(b, i) \in Bytes
  BY <1>1, AtByte DEF Field
<1> DEFINE f == Field(b, i)
<1>3. id = <<>> \/ id = <<f>>
  BY DEF Parsed
<1> HIDE DEF f
<1>4. <<f>> \in Seq(Bytes) /\ <<>> \in Seq(Bytes)
  BY <1>2 DEF f
<1> QED BY <1>3, <1>4

LEMMA EncodeFacts ==
  ASSUME NEW id \in Bytes, NEW payload \in Seq(Bytes), Len(payload) <= 119
  PROVE  /\ encodeTinyPB(id, payload) \in Seq(Bytes)
         /\ Len(encodeTinyPB(id, payload)) = Len(payload) + 7
<1>0. PICK len \in Nat : len = Len(payload) + LenBytes + 3
  BY DEF LenBytes
<1> DEFINE start == <<PB_START>>
           net == NetBytes(len)
           self == <<id>>
           end == <<PB_END>>
<1>1. len \in Nat /\ len >= 7 /\ len <= 126 /\ len = Len(payload) + 7
  BY <1>0 DEF LenBytes
<1>2. start \in Seq(Bytes) /\ Len(start) = 1
  BY DEF Bytes, PB_START
<1>3. net \in Seq(Bytes) /\ Len(net) = 4
  <2>1. NetBytes(len) = <<0, 0, 0, len>>
    BY <1>1 DEF NetBytes
  <2>2. 0 \in Bytes /\ len \in Bytes
    <3>1. len \in Nat /\ len <= 126
      BY <1>1
    <3>2. len \in 0 .. 126
      BY <3>1
    <3> QED BY <3>2, ZeroByte DEF Bytes
  <2> QED BY <2>1, <2>2
<1>4. self \in Seq(Bytes) /\ Len(self) = 1
  OBVIOUS
<1>6. end \in Seq(Bytes) /\ Len(end) = 1
  BY DEF Bytes, PB_END
<1>7. encodeTinyPB(id, payload) = (((start \o net) \o self) \o payload) \o end
  BY <1>0 DEF encodeTinyPB
<1> HIDE DEF start, net, self, end
<1>8. \A s, t \in Seq(Bytes) : s \o t \in Seq(Bytes) /\ Len(s \o t) = Len(s) + Len(t)
  BY ConcatProperties
<1> DEFINE s2 == start \o net
           s3 == s2 \o self
           s4 == s3 \o payload
<1>9. s2 \in Seq(Bytes) /\ Len(s2) = 5
  <2>1. start \o net \in Seq(Bytes) /\ Len(start \o net) = Len(start) + Len(net)
    BY <1>2, <1>3, <1>8
  <2> QED BY <1>2, <1>3, <2>1
<1> HIDE DEF s2
<1>10. s3 \in Seq(Bytes) /\ Len(s3) = 6
  <2>1. s2 \o self \in Seq(Bytes) /\ Len(s2 \o self) = Len(s2) + Len(self)
    BY <1>4, <1>8, <1>9
  <2> QED BY <1>4, <1>9, <2>1
<1> HIDE DEF s3
<1>11. s4 \in Seq(Bytes) /\ Len(s4) = Len(payload) + 6
  <2>1. s3 \o payload \in Seq(Bytes) /\ Len(s3 \o payload) = Len(s3) + Len(payload)
    BY <1>8, <1>10
  <2> QED BY <1>10, <2>1
<1> HIDE DEF s4
<1>12. s4 \o end \in Seq(Bytes) /\ Len(s4 \o end) = Len(payload) + 7
  <2>1. s4 \o end \in Seq(Bytes) /\ Len(s4 \o end) = Len(s4) + Len(end)
    BY <1>6, <1>8, <1>11
  <2> QED BY <1>6, <1>11, <2>1
<1> QED BY <1>7, <1>12 DEF s2, s3, s4

(* The frame of a reply. *)
LEMMA DispatchFacts ==
  ASSUME NEW id \in Bytes
  PROVE  dispatch(id) \in Seq(Bytes) /\ Len(dispatch(id)) = ReplyLen
<1> DEFINE fill == [k \in 1 .. ReplyLen - LenBytes - 3 |-> 9]
<1>1. ReplyLen \in 7 .. 126
  BY ConnectionAssumption DEF LenBytes
<1>2. fill \in Seq(Bytes) /\ Len(fill) = ReplyLen - 7
  BY <1>1 DEF Bytes, LenBytes
<1>3. dispatch(id) = encodeTinyPB(id, fill)
  BY DEF dispatch
<1> HIDE DEF fill
<1> QED BY <1>1, <1>2, <1>3, EncodeFacts

(* The frame of a request. *)
LEMMA RequestFacts ==
  ASSUME NEW n \in 1 .. Requests
  PROVE  /\ Id(n) \in Bytes /\ Id(n) \in Ids
         /\ Payload[n] \in Seq(Bytes) /\ Len(Payload[n]) = RequestLen - 7
         /\ encodeTinyPB(Id(n), Payload[n]) \in Seq(Bytes)
         /\ Len(encodeTinyPB(Id(n), Payload[n])) = RequestLen
<1>1. Requests \in 0 .. 116 /\ RequestLen \in 7 .. 126
  BY ConnectionAssumption DEF LenBytes
<1>2. Id(n) \in Bytes /\ Id(n) \in Ids
  BY <1>1 DEF Id, Bytes, Ids
<1>3. Payload[n] \in [1 .. RequestLen - 7 -> Bytes]
  BY <1>1, ConnectionAssumption DEF LenBytes
<1>4. Payload[n] \in Seq(Bytes) /\ Len(Payload[n]) = RequestLen - 7
  <2> DEFINE p == Payload[n]
             m == RequestLen - 7
  <2>1. m \in Nat /\ p \in [1 .. m -> Bytes]
    BY <1>1, <1>3
  <2> HIDE DEF p, m
  <2>2. p \in Seq(Bytes) /\ Len(p) = m
    BY <2>1
  <2> QED BY <2>2 DEF p, m
<1> QED BY <1>1, <1>2, <1>4, EncodeFacts

(* Division, where the divisor is not a number SMT can see. *)
LEMMA DivFacts ==
  ASSUME NEW a \in Nat, NEW l \in Nat \ {0}, NEW n \in Nat, a < n * l
  PROVE  a \div l \in 0 .. n - 1 /\ a % l \in 0 .. l - 1
<1> DEFINE q == a \div l
           r == a % l
<1>1. q \in Int /\ r \in 0 .. l - 1 /\ a = l * q + r
  OBVIOUS
<1> HIDE DEF q, r
<1>2. ASSUME q >= n PROVE FALSE
  <2>1. q - n \in Nat /\ l * (q - n) >= 0
    BY <1>1, <1>2
  <2>2. l * q = l * n + l * (q - n)
    BY <1>1
  <2> QED BY <1>1, <2>1, <2>2
<1>3. ASSUME q < 0 PROVE FALSE
  <2>1. -1 - q \in Nat /\ l * (-1 - q) >= 0
    BY <1>1, <1>3
  <2>2. l * q = -l - l * (-1 - q)
    BY <1>1
  <2> QED BY <1>1, <2>1, <2>2
<1>4. q \in 0 .. n - 1
  BY <1>1, <1>2, <1>3
<1> QED BY <1>1, <1>4 DEF q, r

(* A number and its division by the length of a frame.                     *)
LEMMA DivExact ==
  ASSUME NEW l \in Nat \ {0}, NEW d \in Nat, NEW x \in 0 .. l - 1
  PROVE  (d * l + x) \div l = d /\ (d * l + x) % l = x
<1> DEFINE q == (d * l + x) \div l
           r == (d * l + x) % l
<1>1. d * l \in Nat /\ d * l + x \in Nat
  OBVIOUS
<1>2. q \in Int /\ r \in 0 .. l - 1 /\ d * l + x = l * q + r
  BY <1>1
<1> HIDE DEF q, r
<1>3. l * (d - q) = r - x
  BY <1>1, <1>2
<1>4. r - x < l /\ r - x > -l
  BY <1>2
<1>5. d - q = 0
  <2> DEFINE y == d - q
  <2>1. y \in Int /\ l * y < l /\ l * y > -l
    BY <1>2, <1>3, <1>4
  <2> HIDE DEF y
  <2>2. ~(y >= 1)
    <3>1. y >= 1 => l * y >= l
      BY <2>1
    <3> QED BY <2>1, <3>1
  <2>3. ~(y <= -1)
    <3>1. y <= -1 => l * y <= -l
      BY <2>1
    <3> QED BY <2>1, <3>1
  <2> QED BY <2>1, <2>2, <2>3 DEF y
<1>6. q = d
  BY <1>2, <1>5
<1>7. r = x
  BY <1>1, <1>2, <1>6
<1> QED BY <1>6, <1>7 DEF q, r

LEMMA StreamFacts ==
  /\ Stream \in Seq(Bytes) /\ Len(Stream) \in Nat
  /\ Cuts \subseteq 1 .. Len(Stream)
<1>1. /\ Requests \in Nat /\ Requests <= 116
      /\ RequestLen \in Nat \ {0} /\ RequestLen \in LenBytes + 3 .. 126
  BY ConnectionAssumption DEF LenBytes
<1>2. Requests * RequestLen \in Nat
  BY <1>1
<1>3. ASSUME NEW k \in 1 .. Requests * RequestLen
      PROVE  encodeTinyPB(Id((k - 1) \div RequestLen + 1),
                          Payload[(k - 1) \div RequestLen + 1])
               [((k - 1) % RequestLen) + 1] \in Bytes
  <2> DEFINE n == (k - 1) \div RequestLen + 1
             j == ((k - 1) % RequestLen) + 1
             f == encodeTinyPB(Id(n), Payload[n])
  <2>1. k - 1 \in Nat /\ k - 1 < Requests * RequestLen
    BY <1>2
  <2>2. n \in 1 .. Requests /\ j \in 1 .. RequestLen
    <3>1. /\ (k - 1) \div RequestLen \in 0 .. Requests - 1
          /\ (k - 1) % RequestLen \in 0 .. RequestLen - 1
      BY <1>1, <2>1, DivFacts
    <3> QED BY <1>1, <3>1
  <2> HIDE DEF n, j
  <2>4. f \in Seq(Bytes) /\ Len(f) = RequestLen
    BY <2>2, RequestFacts
  <2> HIDE DEF f
  <2>5. f[j] \in Bytes
    BY <2>2, <2>4
  <2> QED BY <2>5 DEF f, n, j
<1> DEFINE g(k) == encodeTinyPB(Id((k - 1) \div RequestLen + 1),
                                Payload[(k - 1) \div RequestLen + 1])
                     [((k - 1) % RequestLen) + 1]
<1>4. \A k \in 1 .. Requests * RequestLen : g(k) \in Bytes
  BY <1>3
<1>5. Stream = [k \in 1 .. Requests * RequestLen |-> g(k)]
  BY DEF Stream
<1> HIDE DEF g
<1>6. Len(Stream) = Requests * RequestLen
  BY <1>2, <1>5
<1> QED BY <1>2, <1>4, <1>5, <1>6, ConnectionAssumption
-----------------------------------------------------------------------------
(* The order of the handlers, inductive by itself: the loop knows nothing  *)
(* of the descriptor before the constructor posted its closure; the read   *)
(* handler is queued before the write handler, so that once it has closed  *)
(* the connection only the write handler can be left, which does nothing.  *)
Order ==
  /\ main = "listen" => /\ m_pending_tasks = <<>> /\ pc = "idle"
                        /\ m_state = "NotConnected" /\ epoll_events = {NotThere}
  /\ m_pending_tasks \in {<<>>, <<"add">>, <<"in">>, <<"out">>, <<"in", "out">>}
  /\ pc \in {"read", "decode", "excute"} => m_pending_tasks \in {<<>>, <<"out">>}
  /\ pc = "write" => m_pending_tasks = <<>>
  /\ m_state = "Closed" => /\ epoll_events = {NotThere} /\ pc \in {"idle", "dead"}
                           /\ m_pending_tasks \in {<<>>, <<"out">>}

LEMMA OrderInit == Init => Order
BY DEF Init, Order, NotThere

(* What is left of the queue when a task of it runs. *)
LEMMA RunFacts ==
  ASSUME Order, NEW task, Run(task)
  PROVE  /\ pc = "idle" /\ m_pending_tasks' \in {<<>>, <<"out">>}
         /\ m_pending_tasks # <<>>
         /\ task # "in" => m_pending_tasks' = <<>>
         /\ m_state = "Closed" => task = "out"
<1>1. \A x, y : /\ Head(<<x>>) = x /\ Tail(<<x>>) = <<>>
                /\ Head(<<x, y>>) = x /\ Tail(<<x, y>>) = <<y>>
  <2> TAKE x, y
  <2>1. Head(<<x>>) = x /\ Head(<<x, y>>) = x
    OBVIOUS
  <2>2. Tail(<<x>>) = <<>>
    OBVIOUS
  <2>3. Tail(<<x, y>>) = <<y>>
    OBVIOUS
  <2> QED BY <2>1, <2>2, <2>3
<1>2. /\ pc = "idle" /\ m_pending_tasks # <<>> /\ Head(m_pending_tasks) = task
      /\ m_pending_tasks' = Tail(m_pending_tasks)
  BY DEF Run
<1>3. CASE m_pending_tasks = <<"add">>
  BY <1>1, <1>2, <1>3 DEF Order
<1>4. CASE m_pending_tasks = <<"in">>
  BY <1>1, <1>2, <1>4 DEF Order
<1>5. CASE m_pending_tasks = <<"out">>
  BY <1>1, <1>2, <1>5 DEF Order
<1>6. CASE m_pending_tasks = <<"in", "out">>
  BY <1>1, <1>2, <1>6 DEF Order
<1> QED BY <1>2, <1>3, <1>4, <1>5, <1>6 DEF Order

(* Queues of one and two tasks. *)
LEMMA OneTask ==
  ASSUME NEW x
  PROVE  /\ Append(<<>>, x) = <<x>>
         /\ <<>> \o <<x>> = <<x>> /\ <<x>> \o <<>> = <<x>>
         /\ <<>> \o <<>> = <<>>
<1>1. Append(<<>>, x) = <<>> \o <<x>>
  BY AppendIsConcat
<1>2. <<x>> \in Seq({x})
  OBVIOUS
<1>3. <<>> \o <<x>> = <<x>> /\ <<x>> \o <<>> = <<x>>
  BY <1>2, ConcatEmptySeq
<1>4. <<>> \o <<>> = <<>>
  OBVIOUS
<1> QED BY <1>1, <1>3, <1>4

LEMMA TwoTasks ==
  ASSUME NEW x, NEW y
  PROVE  <<x>> \o <<y>> = <<x, y>>
<1> DEFINE S == {x, y}
<1>1. <<x>> \in Seq(S) /\ <<y>> \in Seq(S) /\ <<x, y>> \in Seq(S)
  OBVIOUS
<1>2. /\ <<x>> \o <<y>> \in Seq(S) /\ Len(<<x>> \o <<y>>) = 2
      /\ \A i \in 1 .. 2 : (<<x>> \o <<y>>)[i] = <<x, y>>[i]
  BY <1>1, ConcatProperties
<1> QED BY <1>1, <1>2, SeqEqual

(* The handlers that epoll_wait queues. *)
LEMMA EpollFacts ==
  ASSUME EpollReturn
  PROVE  m_pending_tasks' \in {<<>>, <<"in">>, <<"out">>, <<"in", "out">>}
<1>1. <<"in">> \o <<"out">> = <<"in", "out">>
  BY TwoTasks, Zenon
<1>2. \E in, out \in BOOLEAN :
        m_pending_tasks' = (IF in THEN <<"in">> ELSE <<>>)
                             \o (IF out THEN <<"out">> ELSE <<>>)
  BY DEF EpollReturn
<1>3. <<"in">> \o <<>> = <<"in">> /\ <<>> \o <<"out">> = <<"out">>
      /\ <<>> \o <<>> = <<>>
  BY OneTask, Zenon
<1> QED BY <1>1, <1>2, <1>3, Zenon

LEMMA OrderStep == Order /\ [Next]_vars => Order'
<1> SUFFICES ASSUME Order, [Next]_vars PROVE Order'
  OBVIOUS
<1>0. \A task : Run(task) =>
        /\ pc = "idle" /\ m_pending_tasks' \in {<<>>, <<"out">>}
        /\ m_pending_tasks # <<>>
        /\ task # "in" => m_pending_tasks' = <<>>
        /\ m_state = "Closed" => task = "out"
  BY RunFacts
<1> USE DEF Order, NotThere
<1>1. CASE Accept
  <2>1. CASE CtorListen
    <3>1. m_pending_tasks = <<>> /\ m_pending_tasks' = Append(m_pending_tasks, "add")
      BY <2>1 DEF CtorListen
    <3>2. Append(<<>>, "add") = <<"add">>
      BY OneTask, Zenon
    <3>3. m_pending_tasks' = <<"add">>
      BY <3>1, <3>2
    <3> QED BY <2>1, <3>3 DEF CtorListen
  <2>2. CASE CtorCoder
    BY <2>2 DEF CtorCoder, interest, buffers, socket, history
  <2>3. CASE setState
    BY <2>3 DEF setState, interest, buffers, socket, history
  <2> QED BY <1>1, <2>1, <2>2, <2>3 DEF Accept
<1>2. CASE Environment
  BY <1>2 DEF Environment, Arrive, PeerReads, PeerCloses, onaccept, interest
<1>3. CASE EpollReturn
  <2>1. pc = "idle" /\ epoll_events # {NotThere}
    BY <1>3 DEF EpollReturn
  <2> QED BY <1>3, <2>1, EpollFacts DEF EpollReturn, onaccept, interest
<1>4. CASE shutdown
  BY <1>4 DEF shutdown, onaccept, interest
<1>5. CASE Handlers
  <2>1. CASE RunAdd
    <3>1. Run("add") /\ pc' = pc /\ main' = main /\ m_state' = m_state
      BY <2>1 DEF RunAdd, onaccept
    <3>2. /\ pc = "idle" /\ m_pending_tasks # <<>> /\ m_pending_tasks' = <<>>
          /\ m_state # "Closed"
      BY <1>0, <3>1 DEF Run
    <3> QED BY <3>1, <3>2
  <2>2. CASE OnRead
    <3>1. /\ Run("in") /\ pc' = "read" /\ main' = main
          /\ m_state' = m_state /\ epoll_events' = epoll_events
      BY <2>2 DEF OnRead, onaccept, interest
    <3>2. /\ m_pending_tasks # <<>> /\ m_pending_tasks' \in {<<>>, <<"out">>}
          /\ m_state # "Closed"
      BY <1>0, <3>1 DEF Run
    <3> QED BY <3>1, <3>2
  <2>3. CASE OnWrite
    <3>1. /\ Run("out") /\ pc' \in {"write", "idle"} /\ main' = main
          /\ m_state = "Closed" => pc' = "idle"
          /\ m_state' = m_state /\ epoll_events' = epoll_events
      BY <2>3 DEF OnWrite, onaccept, interest
    <3>2. m_pending_tasks # <<>> /\ m_pending_tasks' = <<>>
      BY <1>0, <3>1 DEF Run
    <3> QED BY <3>1, <3>2
  <2>4. CASE ReadSome \/ ReadNothing \/ ReadError
    BY <2>4 DEF ReadSome, ReadNothing, ReadError, onaccept, interest
  <2>5. CASE ReadEnd
    BY <2>5 DEF ReadEnd, clear, onaccept, interest
  <2>6. CASE DecodeOne \/ DecodeOverrun \/ DecodeEnd \/ DecodeCrash
    BY <2>6 DEF DecodeOne, DecodeOverrun, DecodeEnd, DecodeCrash, onaccept, interest
  <2>7. CASE ExcuteOne
    BY <2>7 DEF ExcuteOne, onaccept, interest
  <2>8. CASE Excute
    BY <2>8 DEF Excute, Listen, onaccept
  <2>9. CASE WriteSome
    BY <2>9 DEF WriteSome, Cancel, onaccept, interest
  <2>10. CASE WriteNothing
    BY <2>10 DEF WriteNothing, Cancel, onaccept
  <2>11. CASE WriteBlocked \/ WriteKilled
    BY <2>11 DEF WriteBlocked, WriteKilled, onaccept, interest
  <2> QED BY <1>5, <2>1, <2>2, <2>3, <2>4, <2>5, <2>6, <2>7, <2>8, <2>9,
             <2>10, <2>11 DEF Handlers
<1>6. CASE UNCHANGED vars
  BY <1>6 DEF vars, onaccept, interest
<1> QED BY <1>1, <1>2, <1>3, <1>4, <1>5, <1>6 DEF Next

(* A connection that was closed stays out of epoll, whatever handlers were *)
(* queued together with the one that closed it.                            *)
THEOREM ClosedStaysQuiet == Spec => []ClosedIsQuiet
<1>1. Order => ClosedIsQuiet
  BY DEF Order, ClosedIsQuiet
<1> QED BY <1>1, OrderInit, OrderStep, PTL DEF Spec
-----------------------------------------------------------------------------
(* The buffers and the socket, inductive together. *)
Buffered == TypeOK /\ InBufferNeverFull

LEMMA NewFacts ==
  ASSUME NEW n \in Nat
  PROVE  Good(New(n)) /\ Size(New(n)) = n /\ New(n).m_write_index = 0
<1>1. Zeros(n) \in Seq(Bytes) /\ Len(Zeros(n)) = n
  BY ZeroByte DEF Zeros
<1>2. 0 \in Nat /\ 0 <= 0 /\ 0 <= Len(Zeros(n))
  BY <1>1
<1>3. Good([m_buffer |-> Zeros(n), m_read_index |-> 0, m_write_index |-> 0])
  BY <1>1, <1>2, GoodRecord
<1> QED BY <1>1, <1>3 DEF New, Size

LEMMA BufferedInit == Init => Buffered
<1> SUFFICES ASSUME Init PROVE Buffered
  OBVIOUS
<1>1. BufferSize \in Nat /\ BufferSize > 0 /\ SendRoom \in Nat
  BY ConnectionAssumption
<1>2. /\ Good(New(BufferSize)) /\ Size(New(BufferSize)) = BufferSize
      /\ New(BufferSize).m_write_index = 0
  BY <1>1, NewFacts
<1>3. InBufferNeverFull
  BY <1>1, <1>2 DEF Init, InBufferNeverFull
<1>4. TypeOK
  <2>1. /\ m_in_buffer \in Buffers(Bytes) /\ IndexOK(m_in_buffer)
        /\ m_out_buffer \in Buffers(Bytes) /\ IndexOK(m_out_buffer)
    BY <1>2 DEF Init, Good
  <2>2. taken \in 0 .. arrived /\ arrived \in 0 .. Len(Stream) /\ room \in 0 .. SendRoom
    BY <1>1, StreamFacts DEF Init
  <2>3. m_pending_tasks \in Seq({"add", "in", "out"}) /\ result \in Seq(Bytes)
    BY DEF Init
  <2> QED BY <2>1, <2>2, <2>3 DEF Init, TypeOK
<1> QED BY <1>3, <1>4 DEF Buffered

(* What read() gives, and the buffer it is added to. *)
LEMMA ReadFacts ==
  ASSUME Buffered, ReadSome
  PROVE  \E n \in Nat \ {0} :
           /\ n <= writeAble(m_in_buffer) /\ n <= Available
           /\ taken' = taken + n
           /\ Good(m_in_buffer') /\ Size(m_in_buffer') = BufferSize
           /\ m_in_buffer'.m_write_index < BufferSize
           /\ lost' # lost => n = writeAble(m_in_buffer)
           /\ lost' \in BOOLEAN
<1> DEFINE b == m_in_buffer
           n == Least(Available, writeAble(b))
           data == SubSeq(Stream, taken + 1, taken + n)
           put == Copied(b, b.m_write_index, data)
<1>1. /\ Good(b) /\ Size(b) = BufferSize /\ b.m_write_index < BufferSize
      /\ taken \in Nat /\ arrived \in Nat /\ taken <= arrived
      /\ arrived <= Len(Stream) /\ lost \in BOOLEAN
  BY StreamFacts DEF Buffered, TypeOK, InBufferNeverFull, Good
<1>2. /\ writeAble(b) \in Nat \ {0} /\ BufferSize \in Nat
      /\ readAble(b) \in Nat /\ writeAble(b) = BufferSize - b.m_write_index
  BY <1>1, GoodFacts
<1>3. Available \in Nat \ {0}
  BY <1>1 DEF ReadSome, Available
<1>4. n \in Nat \ {0} /\ n <= writeAble(b) /\ n <= Available
  BY <1>2, <1>3 DEF Least
<1>5. /\ m_in_buffer' = moveWriteIndex(put, n) /\ taken' = taken + n
      /\ lost' = (lost \/ readAble(m_in_buffer') # readAble(b) + n)
  BY <1>2 DEF ReadSome
<1> HIDE DEF n
<1>6. data \in Seq(Bytes) /\ Len(data) = n
  <2>1. taken + n <= Len(Stream)
    BY <1>1, <1>3, <1>4, StreamFacts DEF Available
  <2>2. data \in Seq(Bytes) /\ Len(data) = (taken + n) - (taken + 1) + 1
    <3>1. /\ taken + 1 \in Nat \ {0} /\ taken + n \in Nat
          /\ taken + 1 <= taken + n + 1
      BY <1>1, <1>4
    <3> QED BY <2>1, <3>1, StreamFacts, PieceFacts
  <2> HIDE DEF data
  <2> QED BY <1>1, <1>4, <2>2
<1> HIDE DEF data, b
<1>7. /\ Good(put) /\ Size(put) = Size(b)
      /\ put.m_read_index = b.m_read_index /\ put.m_write_index = b.m_write_index
  BY <1>1, <1>4, <1>6, CopiedFacts
<1> HIDE DEF put
<1>8. writeAble(put) = writeAble(b) /\ readAble(put) = readAble(b)
  BY <1>7 DEF writeAble, readAble
<1>9. /\ Good(moveWriteIndex(put, n)) /\ Size(moveWriteIndex(put, n)) = BufferSize
      /\ moveWriteIndex(put, n).m_write_index < BufferSize
      /\ n # writeAble(b) => readAble(moveWriteIndex(put, n)) = readAble(b) + n
  BY <1>1, <1>4, <1>7, <1>8, MoveWriteFacts
<1>10. lost' # lost => n = writeAble(b)
  BY <1>1, <1>5, <1>9, Zenon
<1>11. lost' \in BOOLEAN
  BY <1>1, <1>5
<1> QED BY <1>4, <1>5, <1>9, <1>10, <1>11 DEF b

LEMMA BufferedStep == Buffered /\ [Next]_vars => Buffered'
<1> SUFFICES ASSUME Buffered, [Next]_vars PROVE Buffered'
  OBVIOUS
<1> USE DEF Buffered, TypeOK, InBufferNeverFull
<1>1. CASE Accept
  <2>1. CASE CtorListen
    BY <2>1 DEF CtorListen, buffers, socket, history
  <2>2. CASE CtorCoder
    BY <2>2 DEF CtorCoder, interest, buffers, socket, history
  <2>3. CASE setState
    BY <2>3 DEF setState, interest, buffers, socket, history
  <2> QED BY <1>1, <2>1, <2>2, <2>3 DEF Accept
<1>2. CASE Environment
  <2>1. CASE Arrive
    BY <2>1, StreamFacts DEF Arrive, onaccept, interest, buffers, history
  <2>2. CASE PeerReads
    <3>1. SendRoom \in Nat
      BY ConnectionAssumption
    <3> QED BY <2>2, <3>1 DEF PeerReads, onaccept, interest, buffers, history
  <2>3. CASE PeerCloses
    BY <2>3 DEF PeerCloses, onaccept, interest, buffers, history
  <2> QED BY <1>2, <2>1, <2>2, <2>3 DEF Environment
<1>3. CASE EpollReturn
  <2>1. m_pending_tasks' \in Seq({"add", "in", "out"})
    <3>1. m_pending_tasks' \in {<<>>, <<"in">>, <<"out">>, <<"in", "out">>}
      BY <1>3, EpollFacts, Zenon
    <3>2. <<"in">> \in Seq({"add", "in", "out"})
      OBVIOUS
    <3>3. <<"out">> \in Seq({"add", "in", "out"})
      OBVIOUS
    <3>4. <<"in", "out">> \in Seq({"add", "in", "out"})
      OBVIOUS
    <3>5. <<>> \in Seq({"add", "in", "out"})
      OBVIOUS
    <3> QED BY <3>1, <3>2, <3>3, <3>4, <3>5, Zenon
  <2> QED BY <1>3, <2>1 DEF EpollReturn, onaccept, interest, buffers, socket, history
<1>4. CASE shutdown
  BY <1>4 DEF shutdown, onaccept, interest, buffers, socket, history
<1>5. CASE Handlers
  <2>1. CASE RunAdd
    BY <2>1 DEF RunAdd, Run, onaccept, buffers, socket, history
  <2>2. CASE OnRead
    BY <2>2 DEF OnRead, Run, onaccept, interest, buffers, socket, history
  <2>3. CASE OnWrite
    BY <2>3 DEF OnWrite, Run, onaccept, interest, buffers, socket, history
  <2>4. CASE ReadSome
    <3>1. PICK n \in Nat \ {0} :
            /\ n <= Available /\ taken' = taken + n
            /\ Good(m_in_buffer') /\ Size(m_in_buffer') = BufferSize
            /\ m_in_buffer'.m_write_index < BufferSize /\ lost' \in BOOLEAN
      BY <2>4, ReadFacts
    <3>5. cut' \in BOOLEAN
      BY <2>4 DEF ReadSome
    <3>2. taken' \in 0 .. arrived'
      BY <2>4, <3>1, StreamFacts DEF ReadSome, Available
    <3>3. pc' \in {"read", "decode"} /\ result' = <<>>
      BY <2>4 DEF ReadSome
    <3>4. /\ main' = main /\ m_coder' = m_coder /\ m_state' = m_state
          /\ m_listen_events' = m_listen_events /\ epoll_events' = epoll_events
          /\ m_pending_tasks' = m_pending_tasks /\ m_out_buffer' = m_out_buffer
          /\ arrived' = arrived /\ peer' = peer /\ shut' = shut /\ room' = room
      BY <2>4 DEF ReadSome, onaccept, interest
    <3> QED BY <3>1, <3>2, <3>3, <3>4, <3>5 DEF Good
  <2>5. CASE ReadNothing
    BY <2>5 DEF ReadNothing, onaccept, interest, socket, history
  <2>6. CASE ReadError
    BY <2>6 DEF ReadError, onaccept, interest, buffers, history
  <2>7. CASE ReadEnd
    BY <2>7 DEF ReadEnd, clear, onaccept, interest, buffers, socket, history
  <2>8. CASE DecodeOne
    <3>1. PICK i \in Frames(m_in_buffer) :
            /\ m_in_buffer' = Leave(m_in_buffer, i)
            /\ \E id \in Parsed(m_in_buffer, i) : result' = result \o id
      BY <2>8 DEF DecodeOne, FirstFrame
    <3>2. Good(m_in_buffer)
      BY DEF Good
    <3>3. /\ Good(m_in_buffer') /\ Size(m_in_buffer') = Size(m_in_buffer)
          /\ m_in_buffer'.m_write_index <= m_in_buffer.m_write_index
      BY <3>1, <3>2, LeaveFacts
    <3>4. m_in_buffer'.m_write_index < BufferSize
      <4>1. /\ m_in_buffer'.m_write_index \in Nat /\ m_in_buffer.m_write_index \in Nat
            /\ BufferSize \in Nat
        BY <3>2, <3>3, GoodFacts, ConnectionAssumption
      <4> QED BY <3>3, <4>1
    <3>5. result' \in Seq(Bytes)
      BY <3>1, <3>2, ParsedFacts, ConcatProperties
    <3>6. /\ main' = main /\ m_coder' = m_coder /\ m_state' = m_state
          /\ m_listen_events' = m_listen_events /\ epoll_events' = epoll_events
          /\ m_pending_tasks' = m_pending_tasks /\ m_out_buffer' = m_out_buffer
          /\ arrived' = arrived /\ taken' = taken /\ peer' = peer
          /\ shut' = shut /\ room' = room /\ lost' = lost /\ cut' = cut
          /\ pc' = pc
      BY <2>8 DEF DecodeOne, onaccept, interest, socket
    <3> QED BY <3>3, <3>4, <3>5, <3>6 DEF Good
  <2>9. CASE DecodeOverrun \/ DecodeEnd \/ DecodeCrash
    <3>1. CASE DecodeEnd
      BY <3>1 DEF DecodeEnd, onaccept, interest, buffers, socket, history
    <3>2. CASE DecodeCrash
      BY <3>2 DEF DecodeCrash, onaccept, interest, buffers, socket, history
    <3>3. CASE DecodeOverrun
      BY <3>3 DEF DecodeOverrun, onaccept, interest, buffers, socket, history
    <3> QED BY <2>9, <3>1, <3>2, <3>3
  <2>10. CASE ExcuteOne
    <3>1. Good(m_out_buffer) /\ result \in Seq(Bytes) /\ result # <<>>
      BY <2>10 DEF Good, ExcuteOne
    <3>2. Head(result) \in Bytes /\ result' \in Seq(Bytes)
      BY <2>10, <3>1 DEF ExcuteOne
    <3>3. dispatch(Head(result)) \in Seq(Bytes)
      BY <3>2, DispatchFacts
    <3>4. Good(m_out_buffer')
      BY <2>10, <3>1, <3>3, WriteFacts DEF ExcuteOne
    <3>5. /\ main' = main /\ m_coder' = m_coder /\ m_state' = m_state
          /\ m_listen_events' = m_listen_events /\ epoll_events' = epoll_events
          /\ m_pending_tasks' = m_pending_tasks /\ m_in_buffer' = m_in_buffer
          /\ arrived' = arrived /\ taken' = taken /\ peer' = peer
          /\ shut' = shut /\ room' = room /\ lost' = lost /\ pc' = pc
          /\ cut' = cut
      BY <2>10 DEF ExcuteOne, onaccept, interest, socket, history
    <3> QED BY <3>2, <3>4, <3>5 DEF Good
  <2>11. CASE Excute
    BY <2>11 DEF Excute, Listen, onaccept, buffers, socket, history
  <2>12. CASE WriteSome
    <3>0. Good(m_out_buffer)
      BY DEF Good
    <3>1. SendRoom \in Nat /\ readAble(m_out_buffer) \in Nat
      BY <3>0, ConnectionAssumption, GoodFacts
    <3>2. room' \in 0 .. SendRoom
      BY <2>12, <3>1 DEF WriteSome, Least
    <3>3. /\ pc' \in {"idle", "write"} /\ m_listen_events' \subseteq {"in", "out"}
          /\ epoll_events' = {NotThere} \/ epoll_events' \subseteq {"in", "out"}
      BY <2>12 DEF WriteSome, Cancel, interest
    <3>4. /\ main' = main /\ m_coder' = m_coder /\ m_state' = m_state
          /\ m_pending_tasks' = m_pending_tasks /\ m_in_buffer' = m_in_buffer
          /\ m_out_buffer' = m_out_buffer /\ result' = result
          /\ arrived' = arrived /\ taken' = taken /\ peer' = peer
          /\ shut' = shut /\ lost' = lost /\ cut' = cut
      BY <2>12 DEF WriteSome, onaccept, buffers
    <3> QED BY <3>2, <3>3, <3>4
  <2>13. CASE WriteNothing
    BY <2>13 DEF WriteNothing, Cancel, onaccept, buffers, socket, history
  <2>14. CASE WriteBlocked \/ WriteKilled
    <3>1. CASE WriteBlocked
      BY <3>1 DEF WriteBlocked, onaccept, interest, buffers, socket, history
    <3>2. CASE WriteKilled
      BY <3>2 DEF WriteKilled, onaccept, interest, buffers, socket, history
    <3> QED BY <2>14, <3>1, <3>2
  <2> QED BY <1>5, <2>1, <2>2, <2>3, <2>4, <2>5, <2>6, <2>7, <2>8, <2>9,
             <2>10, <2>11, <2>12, <2>13, <2>14 DEF Handlers
<1>6. CASE UNCHANGED vars
  BY <1>6 DEF vars, onaccept, interest, buffers, socket, history
<1> QED BY <1>1, <1>2, <1>3, <1>4, <1>5, <1>6 DEF Next

(* The types, and that both buffers keep their indices in order inside     *)
(* their vectors, through every read, decode, reply and write.             *)
THEOREM TypeCorrect == Spec => []TypeOK
<1>1. Buffered => TypeOK
  BY DEF Buffered
<1> QED BY <1>1, BufferedInit, BufferedStep, PTL DEF Spec

(* onread never has to make the in buffer larger: moveWriteIndex refuses   *)
(* to fill it to the last byte, so there is always room to read into.      *)
THEOREM InBufferFits == Spec => []InBufferNeverFull
<1>1. Buffered => InBufferNeverFull
  BY DEF Buffered
<1> QED BY <1>1, BufferedInit, BufferedStep, PTL DEF Spec

(* Bytes that were read are lost only by a read that fills the free part   *)
(* of the buffer to its last byte.                                         *)
THEOREM LossExplained == Spec => LostOnlyToFullBuffer
<1> DEFINE Explained == lost' # lost => taken' - taken = writeAble(m_in_buffer)
<1>1. Buffered /\ [Next]_vars => [Explained]_vars
  <2> SUFFICES ASSUME Buffered, Next, lost' # lost
               PROVE  taken' - taken = writeAble(m_in_buffer)
    BY DEF vars, history
  <2>1. ReadSome
    BY DEF Next, Accept, CtorListen, CtorCoder, setState,
       Environment, Arrive, PeerReads, PeerCloses, EpollReturn, shutdown,
       Handlers, RunAdd, OnRead, OnWrite, ReadNothing, ReadError, ReadEnd,
       DecodeOne, DecodeOverrun, DecodeEnd, DecodeCrash, ExcuteOne, Excute, WriteSome,
       WriteNothing, WriteBlocked, WriteKilled, history
  <2>2. PICK n \in Nat \ {0} : n = writeAble(m_in_buffer) /\ taken' = taken + n
    BY <2>1, ReadFacts
  <2>3. taken \in Nat
    BY StreamFacts DEF Buffered, TypeOK
  <2> QED BY <2>2, <2>3
<1> QED BY <1>1, BufferedInit, BufferedStep, PTL DEF Spec, LostOnlyToFullBuffer
-----------------------------------------------------------------------------
(* The bytes of a buffer, and those of a frame and of the stream.          *)

(* One byte of a vector that was moved, of one that was copied into, and   *)
(* of one whose indices were set.                                          *)
LEMMA MovedByte ==
  ASSUME NEW b, Good(b), NEW n \in Nat, NEW from \in Nat, NEW count \in Nat,
         count <= n, from + count <= Size(b), NEW i \in Nat
  PROVE  At(Moved(b, n, from, count), i) = IF i < count THEN At(b, from + i) ELSE 0
<1> DEFINE m == Moved(b, n, from, count)
           front == SubSeq(b.m_buffer, from + 1, from + count)
           rest == Zeros(n - count)
<1>1. b.m_buffer \in Seq(Bytes) /\ Size(b) = Len(b.m_buffer) /\ Size(b) \in Nat
  BY GoodFacts
<1>2. /\ front \in Seq(Bytes) /\ Len(front) = count
      /\ \A k \in 1 .. count : front[k] = b.m_buffer[from + k]
  <2>1. \A k \in from + 1 .. from + count : b.m_buffer[k] \in Bytes
    BY <1>1
  <2>2. /\ front \in Seq(Bytes)
        /\ Len(front) = IF from + 1 <= from + count
                        THEN (from + count) - (from + 1) + 1 ELSE 0
        /\ \A k \in 1 .. (from + count) - (from + 1) + 1 :
             front[k] = b.m_buffer[(from + 1) + k - 1]
    BY <2>1, SubSeqProperties
  <2> HIDE DEF front
  <2> QED BY <2>2
<1>3. /\ rest \in Seq(Bytes) /\ Len(rest) = n - count
      /\ \A k \in 1 .. n - count : rest[k] = 0
  BY ZeroByte DEF Zeros
<1>4. m.m_buffer = front \o rest
  BY DEF Moved
<1>5. Size(m) = n
  BY MovedFacts
<1> HIDE DEF front, rest, m
<1>6. \A k \in 1 .. n : m.m_buffer[k] = IF k <= count THEN b.m_buffer[from + k] ELSE 0
  <2> TAKE k \in 1 .. n
  <2>1. \A j \in 1 .. Len(front) + Len(rest) : (front \o rest)[j] =
          IF j <= Len(front) THEN front[j] ELSE rest[j - Len(front)]
    BY <1>2, <1>3, ConcatProperties
  <2>2. (front \o rest)[k] = IF k <= count THEN front[k] ELSE rest[k - count]
    BY <1>2, <1>3, <2>1
  <2> QED BY <1>2, <1>3, <1>4, <2>2
<1>7. CASE i < n
  <2>1. i + 1 \in 1 .. n /\ i \in 0 .. n - 1
    BY <1>7
  <2>2. At(m, i) = IF i + 1 <= count THEN b.m_buffer[from + (i + 1)] ELSE 0
    BY <1>5, <1>6, <2>1 DEF At
  <2>3. i < count => At(b, from + i) = b.m_buffer[from + i + 1]
    BY <1>1 DEF At
  <2> QED BY <2>2, <2>3 DEF m
<1>8. CASE ~(i < n)
  BY <1>5, <1>8 DEF At, m
<1> QED BY <1>7, <1>8

LEMMA CopiedByte ==
  ASSUME NEW b, Good(b), NEW data \in Seq(Bytes), Len(data) <= writeAble(b),
         NEW i \in Nat
  PROVE  LET w == b.m_write_index IN
         At(Copied(b, w, data), i) =
           IF w <= i /\ i < w + Len(data) THEN data[i - w + 1] ELSE At(b, i)
<1> DEFINE w == b.m_write_index
           front == SubSeq(b.m_buffer, 1, w)
           back == SubSeq(b.m_buffer, w + Len(data) + 1, Size(b))
           d == front \o data
           c == Copied(b, w, data)
<1>1. /\ b.m_buffer \in Seq(Bytes) /\ w \in Nat /\ Size(b) \in Nat
      /\ Size(b) = Len(b.m_buffer) /\ w <= Size(b)
      /\ w + Len(data) <= Size(b) /\ Len(data) \in Nat
  BY GoodFacts
<1>2. Size(c) = Size(b)
  BY CopiedFacts
<1>3. Copied(b, w, data) = [b EXCEPT !.m_buffer = d \o back]
  BY DEF Copied
<1> HIDE DEF w, c
<1>4. /\ front \in Seq(Bytes) /\ Len(front) = w
      /\ \A k \in 1 .. w : front[k] = b.m_buffer[k]
  <2>1. \A k \in 1 .. w : b.m_buffer[k] \in Bytes
    BY <1>1
  <2>2. /\ front \in Seq(Bytes) /\ Len(front) = IF 1 <= w THEN w - 1 + 1 ELSE 0
        /\ \A k \in 1 .. w - 1 + 1 : front[k] = b.m_buffer[1 + k - 1]
    BY <1>1, <2>1, SubSeqProperties
  <2> HIDE DEF front
  <2> QED BY <1>1, <2>2
<1>5. /\ back \in Seq(Bytes) /\ Len(back) = Size(b) - w - Len(data)
      /\ \A k \in 1 .. Size(b) - w - Len(data) :
           back[k] = b.m_buffer[w + Len(data) + k]
  <2> DEFINE from == w + Len(data) + 1
  <2>1. from \in Int /\ Size(b) \in Int /\ \A k \in from .. Size(b) : b.m_buffer[k] \in Bytes
    BY <1>1
  <2>2. /\ back \in Seq(Bytes)
        /\ Len(back) = IF from <= Size(b) THEN Size(b) - from + 1 ELSE 0
        /\ \A k \in 1 .. Size(b) - from + 1 : back[k] = b.m_buffer[from + k - 1]
    BY <2>1, SubSeqProperties
  <2> HIDE DEF back
  <2> QED BY <1>1, <2>2
<1> HIDE DEF front, back
<1>6. /\ d \in Seq(Bytes) /\ Len(d) = w + Len(data)
      /\ \A k \in 1 .. w + Len(data) : d[k] = IF k <= w THEN front[k] ELSE data[k - w]
  BY <1>4, ConcatProperties
<1> HIDE DEF d
<1>7. ASSUME NEW k \in 1 .. Size(b)
      PROVE  c.m_buffer[k] = IF k <= w THEN b.m_buffer[k]
                             ELSE IF k <= w + Len(data) THEN data[k - w]
                             ELSE b.m_buffer[k]
  <2>1. \A j \in 1 .. Len(d) + Len(back) : (d \o back)[j] =
          IF j <= Len(d) THEN d[j] ELSE back[j - Len(d)]
    BY <1>5, <1>6, ConcatProperties
  <2>2. /\ Len(d) = w + Len(data) /\ Len(back) = Size(b) - w - Len(data)
        /\ Len(d) \in Nat /\ Len(back) \in Nat
    BY <1>1, <1>5, <1>6
  <2>3. Len(d) + Len(back) = Size(b)
    <3> DEFINE size == Size(b)
               l == Len(data)
               ld == Len(d)
               lb == Len(back)
    <3>1. /\ size \in Nat /\ l \in Nat /\ w \in Nat
          /\ ld = w + l /\ lb = size - w - l
      BY <1>1, <2>2
    <3> HIDE DEF size, l, ld, lb
    <3>2. ld + lb = size
      BY <3>1
    <3> QED BY <3>2 DEF size, ld, lb
  <2>4. c.m_buffer = d \o back
    BY <1>3, GoodAsRecord DEF c
  <2>5. c.m_buffer[k] = IF k <= Len(d) THEN d[k] ELSE back[k - Len(d)]
    BY <2>1, <2>3, <2>4
  <2>6. CASE k <= w + Len(data)
    <3>1. d[k] = IF k <= w THEN front[k] ELSE data[k - w]
      BY <1>1, <1>6, <2>6
    <3>2. k <= w => front[k] = b.m_buffer[k]
      BY <1>1, <1>4
    <3> QED BY <2>2, <2>5, <2>6, <3>1, <3>2
  <2>7. CASE ~(k <= w + Len(data))
    <3>1. k - Len(d) \in 1 .. Size(b) - w - Len(data) /\ w + Len(data) + (k - Len(d)) = k
      BY <1>1, <2>2, <2>7
    <3>2. back[k - Len(d)] = b.m_buffer[k]
      BY <1>5, <3>1
    <3> QED BY <1>1, <2>2, <2>5, <2>7, <3>2
  <2> QED BY <2>6, <2>7
<1>8. CASE i \in 0 .. Size(b) - 1
  <2> DEFINE k == i + 1
  <2>1. k \in 1 .. Size(b)
    BY <1>1, <1>8
  <2>2. At(c, i) = c.m_buffer[k] /\ At(b, i) = b.m_buffer[k]
    BY <1>2, <1>8 DEF At
  <2>3. /\ k <= w <=> ~(w <= i)
        /\ k <= w + Len(data) <=> i < w + Len(data)
        /\ k - w = i - w + 1
    BY <1>1
  <2> HIDE DEF k
  <2>4. c.m_buffer[k] = IF k <= w THEN b.m_buffer[k]
                        ELSE IF k <= w + Len(data) THEN data[k - w]
                        ELSE b.m_buffer[k]
    BY <1>7, <2>1
  <2> QED BY <2>2, <2>3, <2>4 DEF c, w
<1>9. CASE i \notin 0 .. Size(b) - 1
  <2>1. At(c, i) = 0 /\ At(b, i) = 0
    BY <1>2, <1>9 DEF At
  <2>2. ~(i < w + Len(data))
    BY <1>1, <1>9
  <2> QED BY <2>1, <2>2 DEF c, w
<1> QED BY <1>8, <1>9

(* What the bytes of a frame are.                                          *)
FrameByte(id, payload, j) ==
  IF j = 1 THEN PB_START
  ELSE IF j <= 4 THEN 0
  ELSE IF j = 5 THEN Len(payload) + 7
  ELSE IF j = 6 THEN id
  ELSE IF j < Len(payload) + 7 THEN payload[j - 6]
  ELSE PB_END

LEMMA EncodeByte ==
  ASSUME NEW id \in Bytes, NEW payload \in Seq(Bytes), Len(payload) <= 119,
         NEW j \in 1 .. Len(payload) + 7
  PROVE  encodeTinyPB(id, payload)[j] = FrameByte(id, payload, j)
<1>0. PICK len \in Nat : len = Len(payload) + LenBytes + 3
  BY DEF LenBytes
<1> DEFINE start == <<PB_START>>
           net == NetBytes(len)
           self == <<id>>
           end == <<PB_END>>
<1>1. /\ len \in Nat /\ len >= 7 /\ len <= 126 /\ j \in Nat /\ 1 <= j /\ j <= len
      /\ len = Len(payload) + 7
  BY <1>0 DEF LenBytes
<1>2. start \in Seq(Bytes) /\ Len(start) = 1 /\ start[1] = PB_START
  BY DEF Bytes, PB_START
<1>3. /\ net \in Seq(Bytes) /\ Len(net) = 4
      /\ net[1] = 0 /\ net[2] = 0 /\ net[3] = 0 /\ net[4] = len
  <2>1. NetBytes(len) = <<0, 0, 0, len>>
    BY <1>1 DEF NetBytes
  <2>2. 0 \in Bytes /\ len \in Bytes
    <3>1. len \in Nat /\ len <= 126
      BY <1>1
    <3>2. len \in 0 .. 126
      BY <3>1
    <3> QED BY <3>2, ZeroByte DEF Bytes
  <2> QED BY <2>1, <2>2
<1>4. self \in Seq(Bytes) /\ Len(self) = 1 /\ self[1] = id
  OBVIOUS
<1>5. payload \in Seq(Bytes) /\ Len(payload) = len - 7
  BY <1>1
<1>6. end \in Seq(Bytes) /\ Len(end) = 1 /\ end[1] = PB_END
  BY DEF Bytes, PB_END
<1>7. encodeTinyPB(id, payload) = (((start \o net) \o self) \o payload) \o end
  BY <1>0 DEF encodeTinyPB
<1> HIDE DEF start, net, self, end
<1>8. \A s, t \in Seq(Bytes) :
        /\ s \o t \in Seq(Bytes) /\ Len(s \o t) = Len(s) + Len(t)
        /\ \A k \in 1 .. Len(s) + Len(t) :
             (s \o t)[k] = IF k <= Len(s) THEN s[k] ELSE t[k - Len(s)]
  BY ConcatProperties
<1> DEFINE s2 == start \o net
           s3 == s2 \o self
           s4 == s3 \o payload
           s5 == s4 \o end
<1>9. /\ s2 \in Seq(Bytes) /\ Len(s2) = 5
      /\ \A k \in 1 .. 5 : s2[k] = IF k <= 1 THEN start[k] ELSE net[k - 1]
  <2>1. /\ start \o net \in Seq(Bytes) /\ Len(start \o net) = Len(start) + Len(net)
        /\ \A k \in 1 .. Len(start) + Len(net) :
             (start \o net)[k] = IF k <= Len(start) THEN start[k] ELSE net[k - Len(start)]
    BY <1>2, <1>3, <1>8
  <2> QED BY <1>2, <1>3, <2>1
<1> HIDE DEF s2
<1>10. /\ s3 \in Seq(Bytes) /\ Len(s3) = 6
       /\ \A k \in 1 .. 6 : s3[k] = IF k <= 5 THEN s2[k] ELSE self[k - 5]
  <2>1. /\ s2 \o self \in Seq(Bytes) /\ Len(s2 \o self) = Len(s2) + Len(self)
        /\ \A k \in 1 .. Len(s2) + Len(self) :
             (s2 \o self)[k] = IF k <= Len(s2) THEN s2[k] ELSE self[k - Len(s2)]
    BY <1>4, <1>8, <1>9
  <2> QED BY <1>4, <1>9, <2>1
<1> HIDE DEF s3
<1>11. /\ s4 \in Seq(Bytes) /\ Len(s4) = len - 1
       /\ \A k \in 1 .. len - 1 : s4[k] = IF k <= 6 THEN s3[k] ELSE payload[k - 6]
  <2>1. /\ s3 \o payload \in Seq(Bytes) /\ Len(s3 \o payload) = Len(s3) + Len(payload)
        /\ \A k \in 1 .. Len(s3) + Len(payload) :
             (s3 \o payload)[k] = IF k <= Len(s3) THEN s3[k] ELSE payload[k - Len(s3)]
    BY <1>5, <1>8, <1>10
  <2>2. Len(s3) + Len(payload) = len - 1
    BY <1>1, <1>5, <1>10
  <2> QED BY <1>10, <2>1, <2>2
<1> HIDE DEF s4
<1>12. \A k \in 1 .. len : s5[k] = IF k <= len - 1 THEN s4[k] ELSE end[k - (len - 1)]
  <2>1. \A k \in 1 .. Len(s4) + Len(end) :
          (s4 \o end)[k] = IF k <= Len(s4) THEN s4[k] ELSE end[k - Len(s4)]
    BY <1>6, <1>8, <1>11
  <2>2. Len(s4) = len - 1 /\ Len(s4) + Len(end) = len
    BY <1>1, <1>6, <1>11
  <2> QED BY <2>1, <2>2
<1>13. encodeTinyPB(id, payload) = s5
  BY <1>7 DEF s2, s3, s4
<1> HIDE DEF s5
<1>14. CASE j <= 5
  <2>1. s5[j] = s2[j]
    BY <1>1, <1>10, <1>11, <1>12, <1>14
  <2>2. j \in {1, 2, 3, 4, 5} /\ j < len
    BY <1>1, <1>14
  <2>3. s2[j] = IF j = 1 THEN PB_START ELSE IF j <= 4 THEN 0 ELSE len
    BY <1>2, <1>3, <1>9, <2>2
  <2> QED BY <1>1, <1>13, <2>1, <2>2, <2>3 DEF FrameByte
<1>15. CASE j = 6
  <2>1. s5[6] = s4[6] /\ s4[6] = s3[6]
    BY <1>1, <1>11, <1>12
  <2>2. s3[6] = self[1]
    BY <1>10
  <2>3. s5[6] = id
    BY <1>4, <2>1, <2>2
  <2> QED BY <1>13, <1>15, <2>3 DEF FrameByte
<1>16. CASE 6 < j /\ j < len
  <2>1. s5[j] = payload[j - 6]
    BY <1>1, <1>11, <1>12, <1>16
  <2> QED BY <1>1, <1>13, <1>16, <2>1 DEF FrameByte
<1>17. CASE j = len
  <2>1. s5[j] = end[1]
    BY <1>1, <1>12, <1>17
  <2> QED BY <1>1, <1>6, <1>13, <1>17, <2>1 DEF FrameByte
<1> QED BY <1>1, <1>14, <1>15, <1>16, <1>17

(* The byte of the stream at place j of request d + 1.                     *)
LEMMA StreamByte ==
  ASSUME NEW d \in Nat, NEW j \in 1 .. RequestLen,
         d * RequestLen + j <= Len(Stream)
  PROVE  /\ d + 1 \in 1 .. Requests
         /\ Stream[d * RequestLen + j] = FrameByte(Id(d + 1), Payload[d + 1], j)
<1> DEFINE L == RequestLen
           k == d * L + j
<1>1. Requests \in Nat /\ L \in Nat \ {0} /\ L \in 7 .. 126
  BY ConnectionAssumption DEF LenBytes
<1>2. Requests * L \in Nat /\ d * L \in Nat
  BY <1>1
<1>3. Len(Stream) = Requests * L
  BY <1>2 DEF Stream
<1>4. k \in 1 .. Requests * L
  BY <1>1, <1>2, <1>3
<1>5. (k - 1) \div L = d /\ (k - 1) % L = j - 1
  <2>1. j - 1 \in 0 .. L - 1 /\ k - 1 = d * L + (j - 1)
    BY <1>1, <1>2
  <2>2. (d * L + (j - 1)) \div L = d /\ (d * L + (j - 1)) % L = j - 1
    BY <1>1, <2>1, DivExact
  <2> QED BY <2>1, <2>2
<1>6. d < Requests
  <2>1. d >= Requests => d * L >= Requests * L
    BY <1>1
  <2> QED BY <1>1, <1>2, <1>4, <2>1
<1>7. d + 1 \in 1 .. Requests
  BY <1>1, <1>6
<1>8. Stream[k] = encodeTinyPB(Id(d + 1), Payload[d + 1])[j]
  <2>1. Stream[k] = LET n == (k - 1) \div L + 1
                    IN  encodeTinyPB(Id(n), Payload[n])[((k - 1) % L) + 1]
    BY <1>4 DEF Stream
  <2>2. (k - 1) \div L + 1 = d + 1 /\ ((k - 1) % L) + 1 = j
    BY <1>5
  <2> HIDE DEF k
  <2> QED BY <2>1, <2>2
<1>9. encodeTinyPB(Id(d + 1), Payload[d + 1])[j]
        = FrameByte(Id(d + 1), Payload[d + 1], j)
  <2>1. /\ Id(d + 1) \in Bytes /\ Payload[d + 1] \in Seq(Bytes)
        /\ Len(Payload[d + 1]) = L - 7
    BY <1>7, RequestFacts
  <2>2. Len(Payload[d + 1]) <= 119 /\ j \in 1 .. Len(Payload[d + 1]) + 7
    BY <1>1, <2>1
  <2> QED BY <2>1, <2>2, EncodeByte
<1> QED BY <1>7, <1>8, <1>9
-----------------------------------------------------------------------------
(* What waits in the in buffer, and what decode finds in it.               *)

(* The bytes that wait in b are those of the stream after the first p, and *)
(* nothing was written behind them.                                        *)
Waits(b, p) ==
  \A i \in Nat : i >= b.m_read_index =>
    At(b, i) = IF i < b.m_write_index
               THEN Stream[p + (i - b.m_read_index) + 1] ELSE 0

LEMMA AdjustWaits ==
  ASSUME NEW b, Good(b), NEW p \in Nat, Waits(b, p)
  PROVE  /\ Waits(adjustBuffer(b), p)
         /\ b.m_read_index = 0 \/ b.m_read_index >= Size(b) \div 3
              => adjustBuffer(b).m_read_index = 0
<1>1. CASE b.m_read_index < Size(b) \div 3
  <2>1. adjustBuffer(b) = b
    BY <1>1 DEF adjustBuffer
  <2>2. Size(b) \div 3 \in Nat /\ b.m_read_index \in Nat
    BY GoodFacts
  <2> QED BY <1>1, <2>1, <2>2
<1>2. CASE ~(b.m_read_index < Size(b) \div 3)
  <2> DEFINE r == b.m_read_index
             n == readAble(b)
             m == Moved(b, Size(b), r, n)
  <2>1. /\ r \in Nat /\ n \in Nat /\ Size(b) \in Nat
        /\ n <= Size(b) /\ r + n <= Size(b) /\ b.m_write_index = r + n
    BY GoodFacts
  <2>2. adjustBuffer(b) = m
    BY <1>2 DEF adjustBuffer
  <2>3. m.m_read_index = 0 /\ m.m_write_index = n
    BY <2>1, MovedFacts
  <2>4. \A i \in Nat : At(m, i) = IF i < n THEN At(b, r + i) ELSE 0
    BY <2>1, MovedByte
  <2> HIDE DEF m
  <2>5. ASSUME NEW i \in Nat
        PROVE  At(m, i) = IF i < n THEN Stream[p + (i - 0) + 1] ELSE 0
    <3>1. CASE i < n
      <4>1. r + i \in Nat /\ r + i >= r /\ r + i < r + n /\ r + i - r = i /\ i - 0 = i
        BY <2>1, <3>1
      <4>2. At(b, r + i) = Stream[p + (r + i - r) + 1]
        BY <2>1, <4>1 DEF Waits
      <4> QED BY <2>4, <3>1, <4>1, <4>2
    <3> QED BY <2>4, <3>1
  <2> QED BY <2>2, <2>3, <2>5 DEF Waits
<1> QED BY <1>1, <1>2

(* The bytes of the request at the front, as far as they have arrived: as  *)
(* long as the last byte of its length has not, it seems to be empty.      *)
LEMMA FrontSeen ==
  ASSUME NEW b, Good(b), NEW d \in Nat, Waits(b, d * RequestLen),
         d * RequestLen + readAble(b) <= Len(Stream), readAble(b) > 0
  PROVE  LET r == b.m_read_index
         IN  /\ At(b, r) = PB_START
             /\ FrameEnd(b, r) = IF r + 4 < b.m_write_index
                                 THEN r + RequestLen - 1 ELSE r - 1
             /\ r + RequestLen - 1 < b.m_write_index =>
                  /\ At(b, r + RequestLen - 1) = PB_END
                  /\ At(b, r + 1 + LenBytes) = Id(d + 1)
                  /\ Id(d + 1) \in Ids
<1> DEFINE L == RequestLen
           r == b.m_read_index
           w == b.m_write_index
           B(j) == FrameByte(Id(d + 1), Payload[d + 1], j)
<1>1. L \in Nat /\ L \in 7 .. 126 /\ Len(Stream) \in Nat /\ d * L \in Nat
  BY ConnectionAssumption, StreamFacts DEF LenBytes
<1>2. r \in Nat /\ w \in Nat /\ readAble(b) = w - r
  BY GoodFacts
<1>3. d + 1 \in 1 .. Requests
  <2>1. 1 \in 1 .. L /\ d * L + 1 <= Len(Stream)
    BY <1>1, <1>2
  <2> QED BY <2>1, StreamByte
<1>4. ASSUME NEW j \in 1 .. L
      PROVE  At(b, r + j - 1) = IF r + j - 1 < w THEN B(j) ELSE 0
  <2>1. r + j - 1 \in Nat /\ r + j - 1 >= r /\ d * L + ((r + j - 1) - r) + 1 = d * L + j
    BY <1>1, <1>2
  <2>2. CASE r + j - 1 < w
    <3>1. d * L + j <= Len(Stream)
      BY <1>1, <1>2, <2>2
    <3>2. Stream[d * L + j] = B(j)
      BY <3>1, StreamByte
    <3> HIDE DEF L, B
    <3> QED BY <2>1, <2>2, <3>2 DEF Waits, L
  <2>3. CASE ~(r + j - 1 < w)
    <3> HIDE DEF L, B
    <3> QED BY <2>1, <2>3 DEF Waits
  <2> QED BY <2>2, <2>3
<1> HIDE DEF r, w
<1>5. /\ B(1) = PB_START /\ B(2) = 0 /\ B(3) = 0 /\ B(4) = 0 /\ B(5) = L
      /\ B(6) = Id(d + 1) /\ B(L) = PB_END
  <2>1. Len(Payload[d + 1]) = L - 7
    BY <1>3, RequestFacts
  <2> QED BY <1>1, <2>1 DEF FrameByte
<1> HIDE DEF B
<1>6. /\ At(b, r) = IF r < w THEN PB_START ELSE 0
      /\ At(b, r + 1) = 0 /\ At(b, r + 2) = 0 /\ At(b, r + 3) = 0
      /\ At(b, r + 4) = IF r + 4 < w THEN L ELSE 0
      /\ At(b, r + 5) = IF r + 5 < w THEN Id(d + 1) ELSE 0
      /\ At(b, r + L - 1) = IF r + L - 1 < w THEN PB_END ELSE 0
  <2>1. /\ 1 \in 1 .. L /\ 2 \in 1 .. L /\ 3 \in 1 .. L /\ 4 \in 1 .. L
        /\ 5 \in 1 .. L /\ 6 \in 1 .. L /\ L \in 1 .. L
        /\ r + 1 - 1 = r /\ r + 2 - 1 = r + 1 /\ r + 3 - 1 = r + 2
        /\ r + 4 - 1 = r + 3 /\ r + 5 - 1 = r + 4 /\ r + 6 - 1 = r + 5
    BY <1>1, <1>2
  <2> QED BY <1>4, <1>5, <2>1
<1>7. getInt32FromNetByte(b, r + 1) = IF r + 4 < w THEN L ELSE 0
  <2>1. r + 1 + 1 = r + 2 /\ r + 1 + 2 = r + 3 /\ r + 1 + 3 = r + 4
    BY <1>2
  <2>2. getInt32FromNetByte(b, r + 1) = ((0 * 256 + 0) * 256 + 0) * 256 + At(b, r + 4)
    BY <1>6, <2>1 DEF getInt32FromNetByte
  <2> QED BY <1>1, <1>6, <2>2
<1>8. FrameEnd(b, r) = IF r + 4 < w THEN r + L - 1 ELSE r - 1
  BY <1>1, <1>2, <1>7 DEF FrameEnd
<1>9. r + L - 1 < w => r + 5 < w
  BY <1>1, <1>2
<1>10. r + 1 + LenBytes = r + 5 /\ r < w
  BY <1>2 DEF LenBytes
<1>11. Id(d + 1) \in Ids
  BY <1>3, RequestFacts
<1> QED BY <1>6, <1>8, <1>9, <1>10, <1>11 DEF r, w

(* What a pass of decode takes is the request at the front, or nothing     *)
(* when not all of its length has arrived: a frame of the payload is found *)
(* only while the request around it is there in part.                      *)
LEMMA FirstFrameFacts ==
  ASSUME NEW b, Good(b), NEW d \in Nat, Waits(b, d * RequestLen),
         d * RequestLen + readAble(b) <= Len(Stream),
         ~AtMark(d * RequestLen + readAble(b)),
         NEW i \in FirstFrame(b), NEW id \in Parsed(b, i)
  PROVE  /\ i = b.m_read_index
         /\ At(b, FrameEnd(b, i)) = PB_END
         /\ \/ /\ RequestLen <= readAble(b)
               /\ FrameEnd(b, i) = i + RequestLen - 1
               /\ id = <<Id(d + 1)>>
            \/ FrameEnd(b, i) = i - 1 /\ id = <<>>
<1> DEFINE L == RequestLen
           r == b.m_read_index
           w == b.m_write_index
           n == d * L + readAble(b)
<1>1. L \in Nat \ {0} /\ L \in 7 .. 126 /\ LenBytes = 4
  BY ConnectionAssumption DEF LenBytes
<1>2. r \in Nat /\ w \in Nat /\ readAble(b) = w - r
  BY GoodFacts
<1>3. /\ i \in Nat /\ r <= i /\ i < w /\ i + 1 < w
      /\ At(b, i) = PB_START /\ FrameEnd(b, i) < w /\ At(b, FrameEnd(b, i)) = PB_END
      /\ \A k \in Frames(b) : i <= k
  BY <1>2 DEF FirstFrame, Frames, Complete
<1>4. readAble(b) > 0 /\ readAble(b) \in Nat
  BY <1>2, <1>3
<1>5. /\ At(b, r) = PB_START
      /\ FrameEnd(b, r) = IF r + 4 < w THEN r + L - 1 ELSE r - 1
      /\ r + L - 1 < w => /\ At(b, r + L - 1) = PB_END
                          /\ At(b, r + 1 + LenBytes) = Id(d + 1)
                          /\ Id(d + 1) \in Ids
  BY <1>4, FrontSeen
<1> HIDE DEF L, r, w
<1>6. CASE L <= readAble(b)
  <2>1. r + L - 1 < w /\ r + 4 < w /\ r + 1 < w /\ r < w
    BY <1>1, <1>2, <1>6
  <2>2. FrameEnd(b, r) = r + L - 1 /\ At(b, FrameEnd(b, r)) = PB_END
    BY <1>5, <2>1
  <2>3. Complete(b, r)
    BY <1>5, <2>1, <2>2 DEF Complete, w
  <2>4. r \in Frames(b)
    BY <1>2, <2>1, <2>3 DEF Frames, r, w
  <2>5. i = r
    BY <1>2, <1>3, <2>4
  <2>6. HasFields(b, i)
    BY <1>1, <1>2, <2>2, <2>5 DEF HasFields
  <2>7. Field(b, i) = Id(d + 1) /\ Field(b, i) \in Ids
    BY <1>5, <2>1, <2>5 DEF Field
  <2>8. id = <<Id(d + 1)>>
    BY <2>6, <2>7 DEF Parsed, Unsound
  <2> QED BY <1>3, <1>6, <2>2, <2>5, <2>8 DEF r, L
<1>7. CASE ~(L <= readAble(b))
  <2>1. i = r
    <3>1. SUFFICES ASSUME i # r PROVE FALSE
      OBVIOUS
    <3> DEFINE k == d * L + (i - r) + 1
    <3>2. i > r /\ d * L \in Nat /\ i - r \in Nat
      BY <1>1, <1>2, <1>3, <3>1
    <3>3. n \div L = d
      BY <1>1, <1>4, <1>7, DivExact
    <3>4. k \in d * L + 2 .. n - 1
      BY <1>2, <1>3, <3>2
    <3>5. Stream[k] = PB_START
      BY <1>3 DEF Waits, r, w, L
    <3>6. k \in (n \div L) * L + 2 .. n - 1
      BY <3>3, <3>4
    <3> HIDE DEF k
    <3>7. AtMark(n)
      BY <3>5, <3>6 DEF AtMark, L
    <3> QED BY <3>7 DEF L
  <2>2. ~(r + L - 1 < w)
    BY <1>1, <1>2, <1>7
  <2>3. FrameEnd(b, i) = i - 1
    BY <1>3, <1>5, <2>1, <2>2
  <2>4. ~HasFields(b, i)
    BY <1>1, <1>3, <2>3 DEF HasFields
  <2>5. id = <<>>
    BY <2>4 DEF Parsed, Unsound
  <2> QED BY <1>3, <2>1, <2>3, <2>5 DEF r
<1> QED BY <1>6, <1>7

(* What it leaves behind.                                                  *)
LEMMA LeaveWaits ==
  ASSUME NEW b, Good(b), NEW d \in Nat, Waits(b, d * RequestLen),
         d * RequestLen + readAble(b) <= Len(Stream),
         ~AtMark(d * RequestLen + readAble(b)), b.m_write_index < Size(b),
         NEW i \in FirstFrame(b), NEW id \in Parsed(b, i)
  PROVE  \E n \in 0 .. 1 :
           /\ Waits(Leave(b, i), (d + n) * RequestLen)
           /\ readAble(Leave(b, i)) = readAble(b) - n * RequestLen
           /\ id = IF n = 1 THEN <<Id(d + 1)>> ELSE <<>>
           /\ LongFrames /\ Size(b) = BufferSize /\ b.m_read_index = 0 =>
                n = 1 /\ Leave(b, i).m_read_index = 0
<1> DEFINE L == RequestLen
           r == b.m_read_index
           w == b.m_write_index
<1>1. L \in Nat /\ L \in 7 .. 126
  BY ConnectionAssumption DEF LenBytes
<1>2. /\ r \in Nat /\ w \in Nat /\ readAble(b) = w - r /\ r <= w
      /\ Size(b) \in Nat /\ w < Size(b)
  BY GoodFacts
<1>3. /\ i = r /\ At(b, FrameEnd(b, i)) = PB_END
      /\ \/ /\ L <= readAble(b) /\ FrameEnd(b, i) = r + L - 1
            /\ id = <<Id(d + 1)>>
         \/ FrameEnd(b, i) = r - 1 /\ id = <<>>
  BY FirstFrameFacts
<1>4. CASE L <= readAble(b) /\ FrameEnd(b, i) = r + L - 1 /\ id = <<Id(d + 1)>>
  <2> DEFINE c == [b EXCEPT !.m_read_index = @ + L]
  <2>1. FrameEnd(b, i) - i + 1 = L /\ r + L <= w /\ ~(r + L >= Size(b))
    <3>1. i = r /\ FrameEnd(b, i) = r + L - 1 /\ L <= w - r
      BY <1>2, <1>3, <1>4
    <3>2. \A x, y \in Nat : (x + y - 1) - x + 1 = y
      OBVIOUS
    <3>3. (r + L - 1) - r + 1 = L
      <4>1. r \in Nat /\ L \in Nat
        BY <1>1, <1>2
      <4> QED BY <3>2, <4>1, Zenon
    <3>4. FrameEnd(b, i) - i + 1 = L
      BY <3>1, <3>3
    <3> QED BY <1>1, <1>2, <3>1, <3>4
  <2>2. Leave(b, i) = adjustBuffer(c)
    BY <2>1 DEF Leave, moveReadIndex
  <2>3. c = [m_buffer |-> b.m_buffer, m_read_index |-> r + L, m_write_index |-> w]
    BY GoodAsRecord
  <2> HIDE DEF c
  <2>4. c.m_read_index = r + L /\ c.m_write_index = w /\ c.m_buffer = b.m_buffer
    BY <2>3
  <2>5. Good(c) /\ Size(c) = Size(b) /\ readAble(c) = readAble(b) - L
    <3>1. b.m_buffer \in Seq(Bytes) /\ r + L \in Nat /\ w <= Len(b.m_buffer)
      BY <1>1, <1>2, GoodFacts
    <3>2. Good(c)
      BY <1>2, <2>1, <2>3, <3>1, GoodRecord
    <3>3. readAble(c) = w - (r + L)
      BY <2>4 DEF readAble
    <3> QED BY <1>1, <1>2, <2>4, <3>2, <3>3 DEF Size
  <2>6. d * L \in Nat /\ (d + 1) * L = d * L + L /\ (d + 1) * L \in Nat
    BY <1>1
  <2>7. Waits(c, (d + 1) * L)
    <3>1. ASSUME NEW k \in Nat, k >= r + L
          PROVE  At(c, k) = IF k < w
                            THEN Stream[(d + 1) * L + (k - (r + L)) + 1] ELSE 0
      <4>1. At(c, k) = At(b, k)
        BY <2>4, <2>5 DEF At
      <4>2. k >= r /\ d * L + (k - r) + 1 = (d + 1) * L + (k - (r + L)) + 1
        BY <1>1, <1>2, <2>6, <3>1
      <4> QED BY <4>1, <4>2 DEF Waits
    <3> QED BY <2>4, <3>1 DEF Waits
  <2>8. Waits(adjustBuffer(c), (d + 1) * L) /\ readAble(adjustBuffer(c)) = readAble(b) - L
    BY <2>5, <2>6, <2>7, AdjustWaits, AdjustFacts
  <2>9. ASSUME LongFrames, Size(b) = BufferSize, r = 0
        PROVE  adjustBuffer(c).m_read_index = 0
    <3>1. c.m_read_index >= Size(c) \div 3
      BY <1>1, <2>4, <2>5, <2>9, ConnectionAssumption DEF LongFrames
    <3> QED BY <2>5, <2>6, <2>7, <3>1, AdjustWaits
  <2>10. 1 \in 0 .. 1 /\ 1 * L = L
    BY <1>1
  <2> QED BY <1>4, <2>2, <2>8, <2>9, <2>10
<1>5. CASE FrameEnd(b, i) = r - 1 /\ id = <<>>
  <2>1. FrameEnd(b, i) - i + 1 = 0 /\ ~(r + 0 >= Size(b)) /\ r + 0 = r
    BY <1>2, <1>3, <1>5
  <2>2. [b EXCEPT !.m_read_index = @ + 0] = b
    BY <2>1, GoodAsRecord
  <2>3. Leave(b, i) = adjustBuffer(b)
    BY <2>1, <2>2 DEF Leave, moveReadIndex
  <2>4. d * L \in Nat /\ d + 0 = d /\ readAble(b) - 0 * L = readAble(b) /\ 0 \in 0 .. 1
    BY <1>1, <1>2
  <2>5. Waits(adjustBuffer(b), d * L) /\ readAble(adjustBuffer(b)) = readAble(b)
    BY <2>4, AdjustWaits, AdjustFacts
  <2>6. r # 0
    <3>1. SUFFICES ASSUME r = 0 PROVE FALSE
      OBVIOUS
    <3>2. FrameEnd(b, i) = -1 /\ -1 \notin 0 .. Size(b) - 1
      BY <1>5, <3>1
    <3>3. At(b, -1) = 0
      BY <3>2 DEF At
    <3> QED BY <1>3, <3>2, <3>3 DEF PB_END
  <2> QED BY <1>5, <2>3, <2>4, <2>5, <2>6
<1> QED BY <1>3, <1>4, <1>5
-----------------------------------------------------------------------------
(* The in buffer and the stream.                                           *)

(* What read() gives joins what waits, unless the write index is refused.  *)
LEMMA ReadWaits ==
  ASSUME NEW b, Good(b), NEW p \in Nat, Waits(b, p),
         NEW data \in Seq(Bytes), Len(data) <= writeAble(b), Len(data) > 0,
         \A k \in 1 .. Len(data) : data[k] = Stream[p + readAble(b) + k],
         readAble(moveWriteIndex(Copied(b, b.m_write_index, data), Len(data)))
           = readAble(b) + Len(data)
  PROVE  LET a == moveWriteIndex(Copied(b, b.m_write_index, data), Len(data))
         IN  Waits(a, p) /\ (b.m_read_index = 0 => a.m_read_index = 0)
<1> DEFINE r == b.m_read_index
           w == b.m_write_index
           n == Len(data)
           put == Copied(b, w, data)
           c == [put EXCEPT !.m_write_index = @ + n]
<1>1. /\ r \in Nat /\ w \in Nat /\ r <= w /\ readAble(b) = w - r
      /\ Size(b) \in Nat /\ n \in Nat /\ n > 0 /\ w + n <= Size(b)
  BY GoodFacts
<1>2. /\ Good(put) /\ Size(put) = Size(b)
      /\ put.m_read_index = r /\ put.m_write_index = w
  BY CopiedFacts
<1>3. \A k \in Nat : At(put, k) = IF w <= k /\ k < w + n THEN data[k - w + 1] ELSE At(b, k)
  BY CopiedByte
<1>4. readAble(moveWriteIndex(put, n)) = readAble(b) + n
  OBVIOUS
<1> HIDE DEF r, w, n, put
<1>5. ~(w + n >= Size(b))
  <2>1. SUFFICES ASSUME w + n >= Size(b) PROVE FALSE
    OBVIOUS
  <2>2. moveWriteIndex(put, n) = put
    BY <1>2, <2>1 DEF moveWriteIndex
  <2>3. readAble(put) = w - r
    BY <1>2 DEF readAble
  <2> QED BY <1>1, <1>4, <2>2, <2>3
<1>6. moveWriteIndex(put, n) = adjustBuffer(c)
  BY <1>2, <1>5 DEF moveWriteIndex
<1>7. c = [m_buffer |-> put.m_buffer, m_read_index |-> r, m_write_index |-> w + n]
  BY <1>2, GoodAsRecord
<1> HIDE DEF c
<1>8. /\ c.m_read_index = r /\ c.m_write_index = w + n /\ c.m_buffer = put.m_buffer
      /\ Size(c) = Size(put)
  BY <1>7 DEF Size
<1>9. Good(c)
  <2>1. put.m_buffer \in Seq(Bytes) /\ w + n <= Len(put.m_buffer)
    BY <1>1, <1>2, GoodFacts DEF Size
  <2>2. r \in Nat /\ w + n \in Nat /\ r <= w + n
    BY <1>1
  <2> QED BY <1>7, <2>1, <2>2, GoodRecord
<1>10. Waits(c, p)
  <2>1. ASSUME NEW k \in Nat, k >= r
        PROVE  At(c, k) = IF k < w + n THEN Stream[p + (k - r) + 1] ELSE 0
    <3>1. At(c, k) = At(put, k)
      BY <1>8 DEF At
    <3>2. At(b, k) = IF k < w THEN Stream[p + (k - r) + 1] ELSE 0
      BY <2>1 DEF Waits, r, w
    <3>3. CASE w <= k /\ k < w + n
      <4>1. k - w + 1 \in 1 .. n /\ p + (w - r) + (k - w + 1) = p + (k - r) + 1
        <5>1. k - w + 1 \in 1 .. n
          BY <1>1, <3>3
        <5>2. p + (w - r) + (k - w + 1) = p + (k - r) + 1
          BY <1>1
        <5> QED BY <5>1, <5>2
      <4>2. data[k - w + 1] = Stream[p + readAble(b) + (k - w + 1)]
        BY <4>1 DEF n
      <4> QED BY <1>1, <1>3, <3>1, <3>3, <4>1, <4>2
    <3>4. CASE ~(w <= k /\ k < w + n)
      <4>1. k < w + n <=> k < w
        BY <1>1, <3>4
      <4> QED BY <1>3, <3>1, <3>2, <3>4, <4>1
    <3> QED BY <3>3, <3>4
  <2> QED BY <1>8, <2>1 DEF Waits
<1>11. Waits(adjustBuffer(c), p) /\ (r = 0 => adjustBuffer(c).m_read_index = 0)
  BY <1>8, <1>9, <1>10, AdjustWaits
<1> QED BY <1>6, <1>11 DEF r, w, n, put

(* Until bytes are lost or decode is called up to a mark of a payload, the *)
(* requests decoded are the first of the peer's, each once; what was read  *)
(* of the others waits in the in buffer.                                   *)
Kept ==
  /\ decoded \in Seq(Bytes)
  /\ pc = "decode" /\ ~cut => ~AtMark(taken)
  /\ ~lost /\ ~cut =>
       /\ taken = Len(decoded) * RequestLen + readAble(m_in_buffer)
       /\ Waits(m_in_buffer, Len(decoded) * RequestLen)
       /\ decoded = [n \in 1 .. Len(decoded) |-> Id(n)]
       /\ LongFrames => m_in_buffer.m_read_index = 0

LEMMA KeptInit == Init => Kept
<1> SUFFICES ASSUME Init PROVE Kept
  OBVIOUS
<1> DEFINE b == New(BufferSize)
<1>1. RequestLen \in Nat /\ BufferSize \in Nat
  BY ConnectionAssumption DEF LenBytes
<1>2. b.m_buffer = Zeros(BufferSize) /\ b.m_read_index = 0 /\ b.m_write_index = 0
  BY DEF New
<1>3. readAble(b) = 0
  BY <1>2 DEF readAble
<1>4. Size(b) = BufferSize
  BY <1>1, NewFacts
<1>5. \A k \in Nat : At(b, k) = 0
  BY <1>1, <1>2, <1>4 DEF At, Zeros
<1> HIDE DEF b
<1>6. Waits(b, 0)
  BY <1>2, <1>5 DEF Waits
<1>7. decoded = <<>> /\ Len(decoded) = 0 /\ 0 * RequestLen = 0
  BY <1>1 DEF Init
<1>8. decoded = [n \in 1 .. 0 |-> Id(n)]
  BY DEF Init
<1>9. pc # "decode"
  BY DEF Init
<1> QED BY <1>2, <1>3, <1>6, <1>7, <1>8, <1>9 DEF Init, Kept, b

LEMMA KeptRead ==
  ASSUME Buffered, Kept, ReadSome
  PROVE  Kept'
<1>1. /\ decoded' = decoded /\ (lost => lost') /\ (cut => cut')
      /\ cut' = (cut \/ (pc' = "decode" /\ AtMark(taken')))
  BY DEF ReadSome
<1>14. pc' = "decode" /\ ~cut' => ~AtMark(taken)'
  BY <1>1 DEF AtMark
<1> SUFFICES ASSUME ~lost, ~lost', ~cut, ~cut'
             PROVE  /\ taken' = Len(decoded) * RequestLen + readAble(m_in_buffer')
                    /\ Waits(m_in_buffer', Len(decoded) * RequestLen)
                    /\ LongFrames => m_in_buffer'.m_read_index = 0
  BY <1>1, <1>14 DEF Kept, Waits
<1> DEFINE b == m_in_buffer
           p == Len(decoded) * RequestLen
           n == Least(Available, writeAble(b))
           data == SubSeq(Stream, taken + 1, taken + n)
           a == moveWriteIndex(Copied(b, b.m_write_index, data), n)
<1>2. /\ Good(b) /\ Size(b) = BufferSize /\ b.m_write_index < BufferSize
      /\ taken \in Nat /\ arrived \in Nat /\ taken <= arrived
      /\ arrived <= Len(Stream)
  BY StreamFacts DEF Buffered, TypeOK, InBufferNeverFull, Good
<1>3. /\ writeAble(b) \in Nat \ {0} /\ readAble(b) \in Nat /\ BufferSize \in Nat
  BY <1>2, GoodFacts
<1>4. p \in Nat
  <2>1. Len(decoded) \in Nat /\ RequestLen \in Nat
    BY ConnectionAssumption DEF Kept, LenBytes
  <2> QED BY <2>1
<1>5. /\ taken = p + readAble(b) /\ Waits(b, p)
      /\ LongFrames => b.m_read_index = 0
  BY DEF Kept
<1>6. Available \in Nat \ {0}
  BY <1>2 DEF ReadSome, Available
<1>7. n \in Nat \ {0} /\ n <= writeAble(b) /\ n <= Available
  BY <1>3, <1>6 DEF Least
<1>8. m_in_buffer' = a /\ taken' = taken + n /\ readAble(a) = readAble(b) + n
  BY <1>3 DEF ReadSome
<1> HIDE DEF n, p
<1>9. /\ data \in Seq(Bytes) /\ Len(data) = n
      /\ \A k \in 1 .. n : data[k] = Stream[taken + k]
  <2>1. taken + n <= Len(Stream)
    BY <1>2, <1>6, <1>7, StreamFacts DEF Available
  <2>2. \A k \in taken + 1 .. taken + n : Stream[k] \in Bytes
    BY <1>2, <1>7, <2>1, StreamFacts
  <2>3. /\ data \in Seq(Bytes)
        /\ Len(data) = IF taken + 1 <= taken + n
                       THEN (taken + n) - (taken + 1) + 1 ELSE 0
        /\ \A k \in 1 .. (taken + n) - (taken + 1) + 1 :
             data[k] = Stream[(taken + 1) + k - 1]
    BY <1>2, <1>7, <2>2, SubSeqProperties
  <2>4. /\ (IF taken + 1 <= taken + n THEN (taken + n) - (taken + 1) + 1 ELSE 0) = n
        /\ (taken + n) - (taken + 1) + 1 = n
    BY <1>2, <1>7
  <2>5. \A k \in 1 .. n : (taken + 1) + k - 1 = taken + k
    BY <1>2, <1>7
  <2> HIDE DEF data
  <2> QED BY <2>3, <2>4, <2>5
<1> HIDE DEF data, b
<1>10. \A k \in 1 .. Len(data) : data[k] = Stream[p + readAble(b) + k]
  BY <1>5, <1>9
<1>11. /\ Len(data) <= writeAble(b) /\ Len(data) > 0
       /\ readAble(moveWriteIndex(Copied(b, b.m_write_index, data), Len(data)))
            = readAble(b) + Len(data)
  BY <1>3, <1>7, <1>8, <1>9
<1>12. Waits(a, p) /\ (b.m_read_index = 0 => a.m_read_index = 0)
  BY <1>2, <1>4, <1>5, <1>9, <1>10, <1>11, ReadWaits
<1> HIDE DEF a
<1>13. taken' = p + readAble(a)
  BY <1>2, <1>3, <1>4, <1>5, <1>7, <1>8
<1> QED BY <1>5, <1>8, <1>12, <1>13 DEF p

LEMMA KeptDecode ==
  ASSUME Buffered, Kept, DecodeOne
  PROVE  Kept'
<1> DEFINE b == m_in_buffer
           d == Len(decoded)
           L == RequestLen
<1>1. /\ Good(b) /\ Size(b) = BufferSize /\ b.m_write_index < Size(b)
      /\ taken \in Nat /\ taken <= Len(Stream)
  BY StreamFacts DEF Buffered, TypeOK, InBufferNeverFull, Good
<1>10. PICK i \in FirstFrame(b) :
         \E id \in Parsed(b, i) :
           m_in_buffer' = Leave(b, i) /\ decoded' = decoded \o id
  BY DEF DecodeOne
<1>2. PICK id \in Parsed(b, i) :
        m_in_buffer' = Leave(b, i) /\ decoded' = decoded \o id
  BY <1>10
<1>3. taken' = taken /\ lost' = lost /\ cut' = cut /\ pc = "decode" /\ pc' = pc
  BY DEF DecodeOne, socket
<1>9. pc' = "decode" /\ ~cut' => ~AtMark(taken)'
  BY <1>3 DEF Kept, AtMark
<1>4. decoded \in Seq(Bytes) /\ d \in Nat /\ L \in Nat
  BY ConnectionAssumption DEF Kept, LenBytes
<1>5. i \in Frames(b)
  BY DEF FirstFrame
<1>6. decoded' \in Seq(Bytes)
  BY <1>1, <1>2, <1>4, <1>5, ParsedFacts, ConcatProperties
<1>7. CASE lost \/ cut
  BY <1>3, <1>6, <1>7, <1>9 DEF Kept
<1>8. CASE ~lost /\ ~cut
  <2>1. /\ taken = d * L + readAble(b) /\ Waits(b, d * L)
        /\ decoded = [n \in 1 .. d |-> Id(n)]
        /\ LongFrames => b.m_read_index = 0
        /\ ~AtMark(taken)
    BY <1>3, <1>8 DEF Kept
  <2>2. PICK n \in 0 .. 1 :
          /\ Waits(Leave(b, i), (d + n) * L)
          /\ readAble(Leave(b, i)) = readAble(b) - n * L
          /\ id = IF n = 1 THEN <<Id(d + 1)>> ELSE <<>>
          /\ LongFrames /\ Size(b) = BufferSize /\ b.m_read_index = 0 =>
               n = 1 /\ Leave(b, i).m_read_index = 0
    BY <1>1, <1>4, <2>1, LeaveWaits
  <2>3. Len(decoded') = d + n /\ decoded' = [k \in 1 .. d + n |-> Id(k)]
    <3>1. CASE n = 0
      BY <1>2, <1>4, <2>1, <2>2, <3>1
    <3>2. CASE n = 1
      <4> DEFINE t == <<Id(d + 1)>>
      <4>1. t \in Seq(Nat) /\ Len(t) = 1 /\ t[1] = Id(d + 1)
        BY <1>4 DEF Id
      <4>2. decoded' = decoded \o t
        BY <1>2, <2>2, <3>2
      <4>3. decoded \in Seq(Nat) /\ Len(decoded) = d
        BY <1>4, <2>1 DEF Id
      <4> HIDE DEF t, d
      <4>4. /\ decoded \o t \in Seq(Nat)
            /\ Len(decoded \o t) = Len(decoded) + Len(t)
            /\ \A k \in 1 .. Len(decoded) + Len(t) :
                 (decoded \o t)[k] = IF k <= Len(decoded) THEN decoded[k]
                                     ELSE t[k - Len(decoded)]
        BY <4>1, <4>3, ConcatProperties
      <4>5. /\ Len(decoded \o t) = d + 1
            /\ \A k \in 1 .. d + 1 : (decoded \o t)[k] = Id(k)
        <5>1. Len(decoded) + Len(t) = d + 1
          BY <1>4, <4>1, <4>3
        <5>2. \A k \in 1 .. d + 1 :
                (decoded \o t)[k] = IF k <= d THEN decoded[k] ELSE t[k - d]
          BY <4>3, <4>4, <5>1
        <5>3. ASSUME NEW k \in 1 .. d + 1 PROVE (decoded \o t)[k] = Id(k)
          <6>1. CASE k <= d
            BY <1>4, <2>1, <5>2, <6>1
          <6>2. CASE ~(k <= d)
            <7>1. k = d + 1 /\ k - d = 1
              BY <1>4, <6>2
            <7> QED BY <4>1, <5>2, <6>2, <7>1
          <6> QED BY <6>1, <6>2
        <5> QED BY <4>4, <5>1, <5>3
      <4> DEFINE u == decoded \o t
      <4>6. u = [k \in 1 .. d + 1 |-> Id(k)]
        <5>1. u \in Seq(Nat) /\ Len(u) = d + 1 /\ \A k \in 1 .. d + 1 : u[k] = Id(k)
          BY <4>4, <4>5
        <5> HIDE DEF u
        <5>2. u = [k \in 1 .. Len(u) |-> u[k]]
          BY <5>1
        <5> QED BY <5>1, <5>2
      <4> QED BY <3>2, <4>2, <4>5, <4>6
    <3> QED BY <3>1, <3>2
  <2>4. taken = (d + n) * L + readAble(Leave(b, i))
    <3>1. (d + n) * L = d * L + n * L /\ n * L \in Nat /\ d * L \in Nat
      BY <1>4
    <3>2. readAble(b) \in Nat
      BY <1>1, GoodFacts
    <3> QED BY <2>1, <2>2, <3>1, <3>2
  <2>5. LongFrames => Leave(b, i).m_read_index = 0
    BY <1>1, <2>1, <2>2 DEF Buffered, InBufferNeverFull
  <2>6. Waits(m_in_buffer', Len(decoded') * L)
    BY <1>2, <2>2, <2>3
  <2>7. decoded' = [k \in 1 .. Len(decoded') |-> Id(k)]
    BY <2>3
  <2>8. taken' = Len(decoded') * L + readAble(m_in_buffer')
    BY <1>2, <1>3, <2>3, <2>4
  <2> QED BY <1>2, <1>6, <1>9, <2>5, <2>6, <2>7, <2>8 DEF Kept, Waits
<1> QED BY <1>7, <1>8

LEMMA KeptStep == Buffered /\ Kept /\ [Next]_vars => Kept'
<1> SUFFICES ASSUME Buffered, Kept, [Next]_vars PROVE Kept'
  OBVIOUS
<1>1. CASE ReadSome
  BY <1>1, KeptRead
<1>2. CASE DecodeOne
  BY <1>2, KeptDecode
<1>3. CASE ReadNothing
  <2>1. /\ m_in_buffer' = m_in_buffer /\ taken' = taken
        /\ decoded' = decoded /\ lost' = lost
        /\ cut' = (cut \/ AtMark(taken))
    BY <1>3 DEF ReadNothing, socket
  <2>2. AtMark(taken)' <=> AtMark(taken)
    BY <2>1 DEF AtMark
  <2> QED BY <2>1, <2>2 DEF Kept, Waits
<1>4. CASE ~ReadSome /\ ~DecodeOne /\ ~ReadNothing
  <2>1. /\ m_in_buffer' = m_in_buffer /\ taken' = taken
        /\ decoded' = decoded /\ lost' = lost /\ cut' = cut
        /\ pc' = "decode" => pc = "decode"
    BY <1>4 DEF Next, vars, Accept, CtorListen, CtorCoder, setState,
       Environment, Arrive, PeerReads, PeerCloses, EpollReturn, shutdown,
       Handlers, RunAdd, OnRead, OnWrite, ReadError, ReadEnd,
       DecodeOverrun, DecodeEnd, DecodeCrash, ExcuteOne, Excute, WriteSome,
       WriteNothing, WriteBlocked, WriteKilled, buffers, socket, history
  <2>2. AtMark(taken)' <=> AtMark(taken)
    BY <2>1 DEF AtMark
  <2> QED BY <2>1, <2>2 DEF Kept, Waits
<1> QED BY <1>1, <1>2, <1>3, <1>4

LEMMA AlwaysKept == Spec => [](Buffered /\ Kept)
BY BufferedInit, BufferedStep, KeptInit, KeptStep, PTL DEF Spec

(* The requests are decoded in the order they were sent and each once,     *)
(* however the stream is cut into reads and whatever their payloads hold,  *)
(* until bytes are lost or decode is called with a request there in part   *)
(* up to a byte of its payload that looks like PB_START.                   *)
THEOREM StreamDecodedInOrder == Spec => []DecodedInOrder
<1>1. Kept => DecodedInOrder
  BY DEF Kept, DecodedInOrder
<1> QED BY <1>1, AlwaysKept, PTL

(* A pass of decode that finds a frame takes a whole request out of the    *)
(* buffer, so that the loop of decode ends: frames of a third of the       *)
(* buffer leave the next one at index 0, before which there is no PB_END,  *)
(* and a payload's frame is not looked at once its request is there whole. *)
THEOREM DecodeMakesProgress == Spec => []DecodeConsumes
<1>1. Buffered /\ Kept => DecodeConsumes
  <2> SUFFICES ASSUME Buffered, Kept, LongFrames, ~lost, ~cut, pc = "decode",
                      NEW i \in FirstFrame(m_in_buffer)
               PROVE  readAble(Leave(m_in_buffer, i)) < readAble(m_in_buffer)
    BY DEF DecodeConsumes
  <2> DEFINE b == m_in_buffer
             d == Len(decoded)
  <2>1. /\ Good(b) /\ Size(b) = BufferSize /\ b.m_write_index < Size(b)
        /\ taken <= Len(Stream)
    BY StreamFacts DEF Buffered, TypeOK, InBufferNeverFull, Good
  <2>2. /\ d \in Nat /\ taken = d * RequestLen + readAble(b)
        /\ Waits(b, d * RequestLen) /\ b.m_read_index = 0
        /\ ~AtMark(taken)
    BY DEF Kept
  <2>3. readAble(Leave(b, i)) = readAble(b) - 1 * RequestLen
    <3>1. PICK id \in Parsed(b, i) : TRUE
      BY DEF Parsed
    <3> QED BY <2>1, <2>2, <3>1, LeaveWaits
  <2>4. readAble(b) \in Nat
    BY <2>1, GoodFacts
  <2>5. RequestLen \in Nat \ {0} /\ 1 * RequestLen = RequestLen
    BY ConnectionAssumption DEF LenBytes
  <2> HIDE DEF b
  <2> QED BY <2>3, <2>4, <2>5 DEF b
<1> QED BY <1>1, AlwaysKept, PTL
-----------------------------------------------------------------------------
(* The out buffer and the replies.                                         *)

(* What is written to a buffer nothing was read from is put behind the     *)
(* bytes that wait, which stay where they are.                             *)
LEMMA WriteBytes ==
  ASSUME NEW b, Good(b), b.m_read_index = 0, NEW data \in Seq(Bytes)
  PROVE  LET a == writeToBUffer(b, data)
             w == b.m_write_index
         IN  /\ a.m_read_index = 0 /\ a.m_write_index = w + Len(data)
             /\ \A i \in 0 .. w + Len(data) - 1 :
                  At(a, i) = IF w <= i THEN data[i - w + 1] ELSE At(b, i)
<1> DEFINE w == b.m_write_index
           l == Len(data)
           n == (3 * (w + l)) \div 2
           fit == IF l > writeAble(b) THEN resizeBuffer(b, n) ELSE b
           put == Copied(fit, fit.m_write_index, data)
           a == writeToBUffer(b, data)
<1>1. /\ w \in Nat /\ Size(b) \in Nat /\ w <= Size(b) /\ readAble(b) = w - 0
      /\ writeAble(b) = Size(b) - w
  BY GoodFacts
<1>2. l \in Nat
  OBVIOUS
<1>3. a = [put EXCEPT !.m_write_index = @ + l]
  BY DEF writeToBUffer
<1> HIDE DEF w, l, a
<1>4. n \in Nat /\ n >= w + l
  <2>1. \A k \in Nat : (3 * k) \div 2 \in Nat /\ (3 * k) \div 2 >= k
    OBVIOUS
  <2>2. w + l \in Nat
    BY <1>1, <1>2
  <2> QED BY <2>1, <2>2
<1> HIDE DEF n
<1>5. /\ Good(fit) /\ l <= writeAble(fit)
      /\ fit.m_read_index = 0 /\ fit.m_write_index = w
      /\ \A i \in Nat : i < w => At(fit, i) = At(b, i)
  <2>1. CASE l > writeAble(b)
    <3> DEFINE m == Moved(b, n, 0, w)
    <3>1. fit = m
      BY <1>1, <1>2, <1>4, <2>1 DEF resizeBuffer, Least
    <3>2. 0 \in Nat /\ w <= n /\ 0 + w <= Size(b)
      BY <1>1, <1>2, <1>4
    <3>3. /\ Good(m) /\ Size(m) = n
          /\ m.m_read_index = 0 /\ m.m_write_index = w
      BY <1>1, <1>4, <3>2, MovedFacts
    <3>4. \A i \in Nat : At(m, i) = IF i < w THEN At(b, 0 + i) ELSE 0
      BY <1>1, <1>4, <3>2, MovedByte
    <3> HIDE DEF m, fit
    <3>5. \A i \in Nat : 0 + i = i
      OBVIOUS
    <3>6. writeAble(m) = n - w
      BY <3>3 DEF writeAble
    <3> QED BY <1>1, <1>2, <1>4, <3>1, <3>3, <3>4, <3>5, <3>6
  <2>2. CASE ~(l > writeAble(b))
    <3>1. fit = b
      BY <2>2
    <3> HIDE DEF fit
    <3> QED BY <1>1, <1>2, <2>2, <3>1 DEF w
  <2> QED BY <2>1, <2>2
<1> HIDE DEF fit
<1>6. /\ Good(put) /\ put.m_read_index = 0 /\ put.m_write_index = w
  BY <1>5, CopiedFacts DEF l
<1>7. \A i \in Nat : At(put, i) =
        IF w <= i /\ i < w + l THEN data[i - w + 1] ELSE At(fit, i)
  BY <1>5, CopiedByte DEF l
<1> HIDE DEF put
<1>8. a = [m_buffer |-> put.m_buffer, m_read_index |-> 0, m_write_index |-> w + l]
  BY <1>3, <1>6, GoodAsRecord
<1>9. \A i \in Nat : At(a, i) = At(put, i)
  BY <1>8 DEF At, Size
<1>10. a.m_read_index = 0 /\ a.m_write_index = w + l
  BY <1>8
<1>11. ASSUME NEW i \in 0 .. w + l - 1
       PROVE  At(a, i) = IF w <= i THEN data[i - w + 1] ELSE At(b, i)
  <2>1. i \in Nat /\ i < w + l
    BY <1>1, <1>2
  <2>2. CASE w <= i
    BY <1>7, <1>9, <2>1, <2>2
  <2>3. CASE ~(w <= i)
    BY <1>1, <1>5, <1>7, <1>9, <2>1, <2>3
  <2> QED BY <2>2, <2>3
<1> QED BY <1>10, <1>11 DEF a, w, l

(* The out buffer holds one whole reply to each request that was decoded,  *)
(* in their order, but for those that excute has still in hand; nothing    *)
(* was taken out of it.                                                    *)
RepliesQueued ==
  LET done == Len(decoded) - Len(result)
  IN  /\ done \in Nat
      /\ \A n \in 1 .. Len(result) : result[n] = decoded[done + n]
      /\ pc \notin {"decode", "excute", "dead"} => result = <<>>
      /\ m_out_buffer.m_read_index = 0
      /\ m_out_buffer.m_write_index = done * ReplyLen
      /\ \A n \in 1 .. done : \A j \in 1 .. ReplyLen :
           At(m_out_buffer, (n - 1) * ReplyLen + j - 1)
             = dispatch(decoded[n])[j]

LEMMA QueuedInit == Init => RepliesQueued
<1> SUFFICES ASSUME Init PROVE RepliesQueued
  OBVIOUS
<1>1. Len(decoded) = 0 /\ Len(result) = 0 /\ result = <<>>
  BY DEF Init
<1>2. ReplyLen \in Nat /\ 0 * ReplyLen = 0
  BY ConnectionAssumption DEF LenBytes
<1>3. m_out_buffer.m_read_index = 0 /\ m_out_buffer.m_write_index = 0
  BY DEF Init, New
<1> QED BY <1>1, <1>2, <1>3 DEF RepliesQueued

LEMMA QueuedDecode ==
  ASSUME Buffered, Kept, RepliesQueued, DecodeOne
  PROVE  RepliesQueued'
<1> DEFINE d == Len(decoded)
           r == Len(result)
<1>1. result \in Seq(Bytes) /\ decoded \in Seq(Bytes) /\ d \in Nat /\ r \in Nat
  BY DEF Kept, Buffered, TypeOK
<1>13. PICK i \in Frames(m_in_buffer) :
         \E t \in Parsed(m_in_buffer, i) :
           result' = result \o t /\ decoded' = decoded \o t
  BY DEF DecodeOne, FirstFrame
<1>2. PICK t \in Parsed(m_in_buffer, i) :
        result' = result \o t /\ decoded' = decoded \o t
  BY <1>13
<1>3. pc = "decode" /\ pc' = pc /\ m_out_buffer' = m_out_buffer
  BY DEF DecodeOne
<1>4. t \in Seq(Bytes) /\ Len(t) \in Nat
  BY ParsedFacts DEF Good, Buffered, TypeOK
<1>5. /\ Len(result') = r + Len(t) /\ Len(decoded') = d + Len(t)
      /\ \A n \in 1 .. r + Len(t) : result'[n] = IF n <= r THEN result[n] ELSE t[n - r]
      /\ \A n \in 1 .. d + Len(t) : decoded'[n] = IF n <= d THEN decoded[n] ELSE t[n - d]
  <2>1. result' = result \o t /\ decoded' = decoded \o t
    BY <1>2
  <2> QED BY <1>1, <1>4, <2>1, ConcatProperties
<1>6. /\ d - r \in Nat
      /\ \A n \in 1 .. r : result[n] = decoded[(d - r) + n]
  BY DEF RepliesQueued
<1>7. Len(decoded') - Len(result') = d - r
  BY <1>1, <1>4, <1>5
<1>8. ASSUME NEW n \in 1 .. r + Len(t)
      PROVE  result'[n] = decoded'[(d - r) + n]
  <2>1. (d - r) + n \in 1 .. d + Len(t)
    BY <1>1, <1>4, <1>6
  <2>2. CASE n <= r
    <3>1. n \in 1 .. r /\ (d - r) + n <= d
      BY <1>1, <1>6, <2>2
    <3> QED BY <1>5, <1>6, <2>1, <2>2, <3>1
  <2>3. CASE ~(n <= r)
    <3>1. ~((d - r) + n <= d) /\ (d - r) + n - d = n - r
      BY <1>1, <1>4, <1>6, <2>3
    <3>2. decoded'[(d - r) + n] = t[(d - r) + n - d]
      BY <1>5, <2>1, <3>1
    <3>3. result'[n] = t[n - r]
      BY <1>5, <2>3
    <3> QED BY <3>1, <3>2, <3>3
  <2> QED BY <2>2, <2>3
<1>9. ASSUME NEW n \in 1 .. d - r
      PROVE  decoded'[n] = decoded[n]
  <2>1. n \in 1 .. d + Len(t) /\ n <= d
    BY <1>1, <1>4, <1>6
  <2> QED BY <1>5, <2>1
<1> HIDE DEF d, r
<1>10. /\ m_out_buffer.m_read_index = 0
       /\ m_out_buffer.m_write_index = (d - r) * ReplyLen
       /\ \A n \in 1 .. d - r : \A j \in 1 .. ReplyLen :
            At(m_out_buffer, (n - 1) * ReplyLen + j - 1)
              = dispatch(decoded[n])[j]
  BY DEF RepliesQueued, d, r
<1>11. \A n \in 1 .. d - r : \A j \in 1 .. ReplyLen :
         At(m_out_buffer', (n - 1) * ReplyLen + j - 1)
           = dispatch(decoded'[n])[j]
  BY <1>3, <1>9, <1>10
<1>12. \A n \in 1 .. Len(result') : result'[n] = decoded'[(d - r) + n]
  BY <1>5, <1>8
<1> QED BY <1>3, <1>6, <1>7, <1>10, <1>11, <1>12 DEF RepliesQueued, At

LEMMA QueuedExcute ==
  ASSUME Buffered, Kept, RepliesQueued, ExcuteOne
  PROVE  RepliesQueued'
<1> DEFINE d == Len(decoded)
           r == Len(result)
           e == d - r
           R == ReplyLen
           b == m_out_buffer
           data == dispatch(Head(result))
<1>1. result \in Seq(Bytes) /\ result # <<>> /\ Good(b) /\ decoded \in Seq(Bytes)
  BY DEF Kept, Buffered, TypeOK, Good, ExcuteOne
<1>2. d \in Nat /\ r \in Nat /\ r > 0 /\ R \in Nat
  BY <1>1, ConnectionAssumption DEF LenBytes
<1>3. /\ e \in Nat /\ b.m_read_index = 0 /\ b.m_write_index = e * R
      /\ \A n \in 1 .. r : result[n] = decoded[e + n]
      /\ \A n \in 1 .. e : \A j \in 1 .. R :
           At(b, (n - 1) * R + j - 1) = dispatch(decoded[n])[j]
  BY DEF RepliesQueued
<1>4. /\ result' = Tail(result) /\ decoded' = decoded
      /\ m_out_buffer' = writeToBUffer(b, data) /\ pc = "excute" /\ pc' = pc
  BY DEF ExcuteOne, history
<1>5. /\ Len(result') = r - 1 /\ Head(result) = decoded[e + 1]
      /\ Head(result) \in Bytes
      /\ \A n \in 1 .. r - 1 : result'[n] = decoded[(e + 1) + n]
  <2>1. /\ Len(Tail(result)) = r - 1 /\ Head(result) = result[1]
        /\ \A n \in 1 .. r - 1 : Tail(result)[n] = result[n + 1]
        /\ Head(result) \in Bytes
    BY <1>1
  <2>2. \A n \in 1 .. r - 1 : n + 1 \in 1 .. r /\ e + (n + 1) = (e + 1) + n
    BY <1>2, <1>3
  <2>3. 1 \in 1 .. r
    BY <1>2
  <2> HIDE DEF e, r
  <2>4. Head(result) = decoded[e + 1]
    BY <1>3, <2>1, <2>3
  <2>5. \A n \in 1 .. r - 1 : Tail(result)[n] = decoded[(e + 1) + n]
    BY <1>3, <2>1, <2>2
  <2> QED BY <1>4, <2>1, <2>4, <2>5
<1>6. /\ data \in Seq(Bytes) /\ Len(data) = R
      /\ data = dispatch(decoded[e + 1])
  BY <1>5, DispatchFacts
<1> HIDE DEF data, b
<1> DEFINE a == writeToBUffer(b, data)
           w == e * R
<1>7. /\ a.m_read_index = 0 /\ a.m_write_index = w + R
      /\ \A i \in 0 .. w + R - 1 :
           At(a, i) = IF w <= i THEN data[i - w + 1] ELSE At(b, i)
  BY <1>1, <1>3, <1>6, WriteBytes
<1> HIDE DEF a, e, d, r
<1>8. w \in Nat /\ (e + 1) * R = w + R
  BY <1>2, <1>3
<1>9. ASSUME NEW n \in 1 .. e + 1, NEW j \in 1 .. R
      PROVE  At(a, (n - 1) * R + j - 1) = dispatch(decoded[n])[j]
  <2> DEFINE k == (n - 1) * R + j - 1
  <2>1. (n - 1) * R \in Nat /\ k \in Nat
    BY <1>2, <1>3
  <2>2. CASE n = e + 1
    <3>1. n - 1 = e
      BY <1>3, <2>2
    <3>2. (n - 1) * R = w
      BY <3>1
    <3> HIDE DEF w
    <3>3. w <= k /\ k < w + R /\ k - w + 1 = j
      BY <1>2, <1>8, <3>2
    <3> HIDE DEF k
    <3>4. k \in 0 .. w + R - 1
      BY <1>2, <1>8, <2>1, <3>3
    <3>5. At(a, k) = data[j]
      BY <1>7, <3>3, <3>4
    <3> QED BY <1>6, <2>2, <3>5 DEF k
  <2>3. CASE n # e + 1
    <3>1. n \in 1 .. e /\ n - 1 \in Nat /\ e - n \in Nat
      BY <1>3, <2>3
    <3>2. k < w
      <4> DEFINE x == (n - 1) * R
                 y == (e - n) * R
      <4>1. x \in Nat /\ y \in Nat /\ e * R = x + R + y
        BY <1>2, <1>3, <3>1
      <4>2. k = x + j - 1
        OBVIOUS
      <4> HIDE DEF x, y, k
      <4> QED BY <1>2, <4>1, <4>2
    <3>3. At(b, k) = dispatch(decoded[n])[j]
      BY <1>3, <3>1
    <3> HIDE DEF k, w
    <3>4. k \in 0 .. w + R - 1 /\ ~(w <= k)
      BY <1>2, <1>8, <2>1, <3>2
    <3>5. At(a, k) = At(b, k)
      BY <1>7, <3>4
    <3> QED BY <3>3, <3>5 DEF k
  <2> QED BY <2>2, <2>3
<1>10. Len(decoded') - Len(result') = e + 1 /\ e + 1 \in Nat
  <2>1. Len(decoded') = d /\ Len(result') = r - 1
    BY <1>4, <1>5 DEF d
  <2>2. d - (r - 1) = e + 1
    BY <1>2 DEF e
  <2> QED BY <1>3, <2>1, <2>2
<1>11. m_out_buffer' = a
  BY <1>4 DEF a
<1>12. /\ \A n \in 1 .. Len(result') : result'[n] = decoded'[(e + 1) + n]
       /\ \A n \in 1 .. e + 1 : \A j \in 1 .. R :
            At(m_out_buffer', (n - 1) * R + j - 1) = dispatch(decoded'[n])[j]
  BY <1>4, <1>5, <1>9, <1>11
<1>13. /\ m_out_buffer'.m_read_index = 0
       /\ m_out_buffer'.m_write_index = (e + 1) * R
  BY <1>7, <1>8, <1>11
<1> HIDE DEF w
<1> QED BY <1>4, <1>10, <1>12, <1>13 DEF RepliesQueued, At

LEMMA QueuedStep == Buffered /\ Kept /\ RepliesQueued /\ [Next]_vars => RepliesQueued'
<1> SUFFICES ASSUME Buffered, Kept, RepliesQueued, [Next]_vars PROVE RepliesQueued'
  OBVIOUS
<1>1. CASE DecodeOne
  BY <1>1, QueuedDecode
<1>2. CASE ExcuteOne
  BY <1>2, QueuedExcute
<1>3. CASE ~DecodeOne /\ ~ExcuteOne
  <2>1. m_out_buffer' = m_out_buffer /\ decoded' = decoded
    BY <1>3 DEF Next, vars, Accept, CtorListen, CtorCoder, setState,
       Environment, Arrive, PeerReads, PeerCloses, EpollReturn, shutdown,
       Handlers, RunAdd, OnRead, OnWrite, ReadSome, ReadNothing, ReadError, ReadEnd,
       DecodeOverrun, DecodeEnd, DecodeCrash, Excute, WriteSome,
       WriteNothing, WriteBlocked, WriteKilled, buffers, socket, history
  <2>2. result' = result /\ (pc' \notin {"decode", "excute", "dead"} => result' = <<>>)
    BY <1>3 DEF RepliesQueued, Next, vars, Accept, CtorListen, CtorCoder, setState,
       Environment, Arrive, PeerReads, PeerCloses, EpollReturn, shutdown,
       Handlers, RunAdd, OnRead, OnWrite, Run, ReadSome, ReadNothing, ReadError, ReadEnd,
       DecodeOverrun, DecodeEnd, DecodeCrash, Excute, WriteSome,
       WriteNothing, WriteBlocked, WriteKilled, buffers, socket, history
  <2> QED BY <2>1, <2>2 DEF RepliesQueued, At
<1> QED BY <1>1, <1>2, <1>3

(* A request that was decoded gets one reply, whole and in its turn, into  *)
(* the out buffer, also when bytes of the requests were lost.              *)
THEOREM RepliesAreQueued == Spec => []RepliesQueued
BY AlwaysKept, QueuedInit, QueuedStep, PTL DEF Spec

(***************************************************************************)
(* The socket is unwatched for output only when nothing is left to write:  *)
(* the safety half of Answered.                                            *)
(***************************************************************************)
(* When the loop watches a connection only for what comes in, every        *)
(* request decoded so far was replied to in whole: the socket is not left  *)
(* unwatched with a reply still to be written.                             *)
AllRepliesSent ==
  "in" \in m_listen_events /\ "out" \notin m_listen_events /\ pc \in {"idle", "read"} =>
    \A n \in 1 .. Len(decoded) : Replied(decoded[n])

(* The write handler is queued, or at work, only while the socket is       *)
(* watched for it or the connection was cleared.                           *)
Handing ==
  /\ sent \in Seq(Bytes)
  /\ main = "listen" => m_listen_events = {} /\ decoded = <<>> /\ result = <<>>
  /\ epoll_events \in {{NotThere}, m_listen_events}
  /\ "in" \in m_listen_events =>
       (pc = "write" \/ m_pending_tasks \in {<<"out">>, <<"in", "out">>}
          => "out" \in m_listen_events)
  /\ AllRepliesSent

(* A piece of a sequence of bytes: its length, and what stands where. *)
LEMMA PieceAt ==
  ASSUME NEW v \in Seq(Bytes), NEW i \in Nat, NEW r \in Nat \ {0}, i + r <= Len(v)
  PROVE  /\ SubSeq(v, i + 1, i + r) \in Seq(Bytes) /\ Len(SubSeq(v, i + 1, i + r)) = r
         /\ \A j \in 1 .. r : SubSeq(v, i + 1, i + r)[j] = v[i + j]
<1> DEFINE m == i + 1
           n == i + r
           piece == SubSeq(v, m, n)
<1>1. m \in Int /\ n \in Int /\ m \in 1 .. n /\ n - m + 1 = r /\ n \in 1 .. Len(v)
  OBVIOUS
<1>2. \A j \in 1 .. r : m + j - 1 = i + j
  OBVIOUS
<1> HIDE DEF m, n
<1>3. \A k \in m .. n : v[k] \in Bytes
  <2>1. \A k \in m .. n : k \in 1 .. Len(v)
    BY <1>1
  <2> QED BY <2>1
<1>4. /\ piece \in Seq(Bytes) /\ Len(piece) = IF m <= n THEN n - m + 1 ELSE 0
      /\ \A j \in 1 .. n - m + 1 : piece[j] = v[m + j - 1]
  BY <1>1, <1>3, SubSeqProperties
<1> HIDE DEF piece
<1>5. piece \in Seq(Bytes) /\ Len(piece) = r
  BY <1>1, <1>4
<1>6. ASSUME NEW j \in 1 .. r PROVE piece[j] = v[i + j]
  <2>1. piece[j] = v[m + j - 1] /\ m + j - 1 = i + j
    BY <1>1, <1>2, <1>4
  <2> QED BY <2>1
<1> QED BY <1>5, <1>6 DEF piece, m, n

(* All of the out buffer was written: it ends what was sent.               *)
LEMMA SentAll ==
  ASSUME Buffered, Kept, RepliesQueued, Handing, result = <<>>,
         sent' = sent \o SubSeq(Contents(m_out_buffer), 1, readAble(m_out_buffer)),
         decoded' = decoded
  PROVE  sent' \in Seq(Bytes) /\ \A n \in 1 .. Len(decoded') : Replied(decoded[n])'
<1> DEFINE b == m_out_buffer
           w == b.m_write_index
           d == Len(decoded)
           R == ReplyLen
           out == SubSeq(b.m_buffer, 1, w)
           s == Len(sent)
<1>1. /\ Good(b) /\ b.m_buffer \in Seq(Bytes) /\ w \in Nat /\ w <= Size(b)
      /\ Size(b) = Len(b.m_buffer) /\ decoded \in Seq(Bytes) /\ d \in Nat
      /\ sent \in Seq(Bytes) /\ s \in Nat
      /\ R \in Nat \ {0} /\ R \in LenBytes + 3 .. 126
  <2>1. Good(b)
    BY DEF Buffered, TypeOK, Good
  <2> QED BY <2>1, GoodFacts, ConnectionAssumption DEF Kept, Handing, LenBytes
<1>2. /\ b.m_read_index = 0 /\ w = d * R
      /\ \A n \in 1 .. d : \A j \in 1 .. R :
           At(b, (n - 1) * R + j - 1) = dispatch(decoded[n])[j]
  <2>1. Len(result) = 0 /\ d - 0 = d
    BY <1>1
  <2> QED BY <2>1 DEF RepliesQueued
<1>3. /\ out \in Seq(Bytes) /\ Len(out) = w
      /\ \A k \in 1 .. w : out[k] = b.m_buffer[k]
  <2>1. \A k \in 1 .. w : b.m_buffer[k] \in Bytes
    BY <1>1
  <2>2. /\ out \in Seq(Bytes) /\ Len(out) = IF 1 <= w THEN w - 1 + 1 ELSE 0
        /\ \A k \in 1 .. w - 1 + 1 : out[k] = b.m_buffer[1 + k - 1]
    BY <1>1, <2>1, SubSeqProperties
  <2> HIDE DEF out
  <2> QED BY <1>1, <2>2
<1> HIDE DEF out
<1>4. SubSeq(Contents(b), 1, readAble(b)) = out
  <2>1. Contents(b) = out /\ readAble(b) = w
    <3>1. readAble(b) = w - 0 /\ Contents(b) = SubSeq(b.m_buffer, 0 + 1, w)
      BY <1>2 DEF Contents, readAble
    <3> QED BY <1>1, <3>1 DEF out
  <2>2. Len(out) = w
    BY <1>3
  <2>3. SubSeq(out, 1, Len(out)) = out
    <3>1. out \in Seq(Bytes)
      BY <1>3
    <3> HIDE DEF b, w, s, d
    <3> QED BY <3>1
  <2> QED BY <2>1, <2>2, <2>3, Zenon
<1> HIDE DEF b, w, s, d
<1>5. /\ sent' \in Seq(Bytes) /\ Len(sent') = s + w
      /\ \A k \in 1 .. w : sent'[s + k] = out[k]
  <2>1. sent' = sent \o out
    BY <1>4, Zenon DEF b
  <2>2. /\ sent \o out \in Seq(Bytes) /\ Len(sent \o out) = Len(sent) + Len(out)
        /\ \A k \in 1 .. Len(sent) + Len(out) :
             (sent \o out)[k] = IF k <= Len(sent) THEN sent[k] ELSE out[k - Len(sent)]
    <3>1. sent \in Seq(Bytes) /\ out \in Seq(Bytes)
      BY <1>1, <1>3
    <3> QED BY <3>1, ConcatProperties
  <2>3. Len(sent') = s + w /\ Len(sent) = s /\ Len(out) = w
    BY <1>3, <2>1, <2>2 DEF s
  <2>4. ASSUME NEW k \in 1 .. w PROVE sent'[s + k] = out[k]
    <3> DEFINE p == s + k
    <3>1. p \in 1 .. s + w /\ ~(p <= s) /\ p - s = k
      BY <1>1
    <3> HIDE DEF p
    <3>2. sent'[p] = out[p - s]
      BY <2>1, <2>2, <2>3, <3>1
    <3> QED BY <3>1, <3>2 DEF p
  <2> QED BY <2>1, <2>2, <2>3, <2>4
<1>6. ASSUME NEW n \in 1 .. d
      PROVE  Replied(decoded[n])'
  <2> DEFINE i == s + (n - 1) * R
             reply == dispatch(decoded[n])
             piece == SubSeq(sent', i + 1, i + R)
             x == (n - 1) * R
             y == (d - n) * R
  <2>1. x \in Nat /\ y \in Nat /\ w = x + R + y /\ i = s + x
    <3>1. n - 1 \in Nat /\ d - n \in Nat /\ d * R = (n - 1) * R + R + (d - n) * R
      BY <1>1
    <3> QED BY <1>1, <1>2, <3>1
  <2>2. reply \in Seq(Bytes) /\ Len(reply) = R
    <3>1. decoded[n] \in Bytes
      BY <1>1 DEF d
    <3> QED BY <3>1, DispatchFacts
  <2> HIDE DEF i, x, y
  <2>3. i \in 0 .. Len(sent') - R
    BY <1>1, <1>5, <2>1
  <2>4. /\ piece \in Seq(Bytes) /\ Len(piece) = R
        /\ \A j \in 1 .. R : piece[j] = sent'[i + j]
    <3>1. i \in Nat /\ i + R <= Len(sent')
      BY <1>1, <1>5, <2>1
    <3> QED BY <1>1, <1>5, <3>1, PieceAt
  <2>5. ASSUME NEW j \in 1 .. R
        PROVE  piece[j] = reply[j]
    <3>1. /\ x + j \in 1 .. w /\ i + j = s + (x + j)
          /\ x + j - 1 \in 0 .. Size(b) - 1 /\ x + j - 1 + 1 = x + j
      BY <1>1, <2>1
    <3>2. sent'[i + j] = b.m_buffer[x + j]
      BY <1>3, <1>5, <3>1
    <3>3. At(b, x + j - 1) = b.m_buffer[x + j]
      BY <3>1 DEF At
    <3>4. At(b, x + j - 1) = reply[j]
      BY <1>2 DEF x
    <3> QED BY <2>4, <3>2, <3>3, <3>4
  <2> HIDE DEF piece, reply
  <2>6. piece = reply
    BY <2>2, <2>4, <2>5, SeqEqual
  <2> QED BY <2>3, <2>6 DEF Replied, piece, reply
<1>7. decoded' = decoded /\ Len(decoded') = d
  BY DEF d
<1> QED BY <1>5, <1>6, <1>7

LEMMA HandingInit == Init => Handing
<1> SUFFICES ASSUME Init PROVE Handing
  OBVIOUS
<1>1. <<>> \in Seq(Bytes)
  OBVIOUS
<1>2. /\ main = "listen" /\ m_listen_events = {} /\ epoll_events = {NotThere}
      /\ result = <<>> /\ sent = <<>> /\ decoded = <<>>
  BY DEF Init
<1> QED BY <1>1, <1>2 DEF Handing, AllRepliesSent

LEMMA HandingStep ==
  Buffered /\ Kept /\ Order /\ RepliesQueued /\ Handing /\ [Next]_vars => Handing'
<1> SUFFICES ASSUME Buffered, Kept, Order, RepliesQueued, Handing, [Next]_vars
             PROVE  Handing'
  OBVIOUS
<1>0. \A task : Run(task) =>
        /\ pc = "idle" /\ m_pending_tasks # <<>> /\ m_pending_tasks' \in {<<>>, <<"out">>}
        /\ task # "in" => m_pending_tasks' = <<>>
  BY RunFacts
<1>01. main = "listen" => pc = "idle" /\ m_pending_tasks = <<>> /\ epoll_events = {NotThere}
  BY DEF Order
<1> DEFINE sentSame == sent' = sent /\ decoded' = decoded
<1>a. ASSUME sentSame, NEW n \in 1 .. Len(decoded), Replied(decoded[n])
      PROVE  Replied(decoded[n])'
  BY <1>a DEF Replied, sentSame
<1>b. ASSUME sentSame, pc \in {"idle", "read"} \/ pc' \notin {"idle", "read"},
             m_listen_events' = m_listen_events
      PROVE  AllRepliesSent'
  <2> SUFFICES ASSUME "in" \in m_listen_events, "out" \notin m_listen_events,
                      pc \in {"idle", "read"}, NEW n \in 1 .. Len(decoded)
               PROVE  Replied(decoded[n])'
    BY <1>b DEF AllRepliesSent
  <2>1. Replied(decoded[n])
    BY DEF Handing, AllRepliesSent
  <2> QED BY <1>a, <1>b, <2>1
<1> HIDE DEF sentSame
<1>1. CASE Accept
  <2>1. CASE CtorListen
    <3>1. /\ sentSame /\ main' = "coder" /\ m_listen_events' = {"in"} /\ decoded' = <<>>
          /\ epoll_events' = {NotThere} /\ pc' = "idle"
          /\ m_pending_tasks' = Append(m_pending_tasks, "add") /\ m_pending_tasks = <<>>
      BY <2>1, <1>01 DEF CtorListen, Handing, history, sentSame
    <3>2. m_pending_tasks' = <<"add">>
      BY <3>1, OneTask, Zenon
    <3>3. AllRepliesSent'
      BY <3>1 DEF AllRepliesSent
    <3> QED BY <3>1, <3>2, <3>3 DEF Handing, sentSame
  <2>2. CASE CtorCoder \/ setState
    <3>1. /\ sentSame /\ main' # "listen" /\ m_listen_events' = m_listen_events
          /\ epoll_events' = epoll_events /\ pc' = pc
          /\ m_pending_tasks' = m_pending_tasks
      BY <2>2 DEF CtorCoder, setState, interest, history, sentSame
    <3> QED BY <1>b, <3>1 DEF Handing, sentSame
  <2> QED BY <1>1, <2>1, <2>2 DEF Accept
<1>2. CASE Environment \/ shutdown
  <2>1. /\ sentSame /\ main' = main /\ m_listen_events' = m_listen_events
        /\ epoll_events' = epoll_events /\ pc' = pc /\ result' = result
        /\ m_pending_tasks' = m_pending_tasks
    BY <1>2 DEF Environment, Arrive, PeerReads, PeerCloses, shutdown, onaccept,
       interest, buffers, history, sentSame
  <2> QED BY <1>b, <2>1 DEF Handing, sentSame
<1>3. CASE EpollReturn
  <2>1. /\ sentSame /\ main' = main /\ m_listen_events' = m_listen_events
        /\ epoll_events' = epoll_events /\ pc' = pc /\ result' = result /\ pc = "idle"
    BY <1>3 DEF EpollReturn, onaccept, interest, buffers, history, sentSame
  <2>2. \/ "out" \in epoll_events
        \/ m_pending_tasks' = <<"in">>
    <3>1. <<"in">> \o <<>> = <<"in">>
      BY OneTask, Zenon
    <3> QED BY <1>3, <3>1 DEF EpollReturn
  <2>3. "out" \in epoll_events => "out" \in m_listen_events
    <3>1. epoll_events = {NotThere} \/ epoll_events = m_listen_events
      BY DEF Handing
    <3>2. "out" \notin {NotThere}
      BY DEF NotThere
    <3> QED BY <3>1, <3>2
  <2>4. AllRepliesSent'
    BY <1>b, <2>1
  <2>5. <<"in">> # <<"out">> /\ <<"in">> # <<"in", "out">>
    OBVIOUS
  <2>6. "in" \in m_listen_events' => (pc' = "write"
          \/ m_pending_tasks' \in {<<"out">>, <<"in", "out">>} => "out" \in m_listen_events')
    BY <2>1, <2>2, <2>3, <2>5 DEF Handing
  <2> QED BY <2>1, <2>4, <2>6 DEF Handing, sentSame
<1>4. CASE Handlers
  <2>1. CASE RunAdd
    <3>1. /\ sentSame /\ main' = main /\ m_listen_events' = m_listen_events
          /\ epoll_events' = m_listen_events /\ pc' = pc /\ result' = result
          /\ m_pending_tasks' = <<>> /\ pc = "idle"
      BY <1>0, <2>1 DEF RunAdd, onaccept, buffers, history, sentSame
    <3> QED BY <1>b, <3>1 DEF Handing, sentSame
  <2>2. CASE OnRead
    <3>1. /\ sentSame /\ main' = main /\ m_listen_events' = m_listen_events
          /\ epoll_events' = epoll_events /\ pc' = "read" /\ result' = result
          /\ Run("in") /\ pc = "idle"
      BY <2>2 DEF OnRead, Run, onaccept, interest, buffers, history, sentSame
    <3>2. m_pending_tasks' = <<"out">> => m_pending_tasks = <<"in", "out">>
      <4>1. /\ m_pending_tasks \in {<<"add">>, <<"in">>, <<"out">>, <<"in", "out">>}
            /\ m_pending_tasks' = Tail(m_pending_tasks)
        BY <3>1 DEF Order, Run
      <4>2. Tail(<<"add">>) = <<>> /\ Tail(<<"in">>) = <<>> /\ Tail(<<"out">>) = <<>>
        OBVIOUS
      <4>3. <<>> # <<"out">>
        <5>1. Len(<<>>) = 0 /\ Len(<<"out">>) = 1
          OBVIOUS
        <5> QED BY <5>1
      <4> QED BY <4>1, <4>2, <4>3
    <3>3. m_pending_tasks' \in {<<>>, <<"out">>}
      BY <1>0, <3>1
    <3> QED BY <1>b, <3>1, <3>2, <3>3 DEF Handing, sentSame
  <2>3. CASE OnWrite
    <3>1. /\ sentSame /\ main' = main /\ m_listen_events' = m_listen_events
          /\ epoll_events' = epoll_events /\ pc' \in {"write", "idle"}
          /\ result' = result /\ Run("out") /\ pc = "idle"
          /\ m_pending_tasks' = <<>>
      BY <1>0, <2>3 DEF OnWrite, Run, onaccept, interest, buffers, history, sentSame
    <3>2. m_pending_tasks \in {<<"out">>, <<"in", "out">>}
      <4>1. /\ m_pending_tasks \in {<<"add">>, <<"in">>, <<"out">>, <<"in", "out">>}
            /\ Head(m_pending_tasks) = "out"
        BY <3>1 DEF Order, Run
      <4>2. Head(<<"add">>) = "add" /\ Head(<<"in">>) = "in"
        OBVIOUS
      <4> QED BY <4>1, <4>2
    <3> QED BY <1>b, <3>1, <3>2 DEF Handing, sentSame
  <2>4. CASE ReadSome \/ ReadNothing \/ ReadError
    <3>1. /\ sentSame /\ main' = main /\ m_listen_events' = m_listen_events
          /\ epoll_events' = epoll_events /\ pc' \in {"read", "decode"} /\ pc = "read"
          /\ m_pending_tasks' = m_pending_tasks
      BY <2>4 DEF ReadSome, ReadNothing, ReadError, onaccept, interest, buffers,
         history, sentSame
    <3> QED BY <1>01, <1>b, <3>1 DEF Handing, sentSame
  <2>5. CASE ReadEnd
    <3>1. /\ sentSame /\ main' = main /\ pc = "read" /\ m_state # "Closed"
          /\ m_listen_events' = {} /\ epoll_events' = {NotThere}
      BY <2>5 DEF ReadEnd, clear, Order, onaccept, interest, history, sentSame
    <3> QED BY <1>01, <3>1 DEF Handing, AllRepliesSent, sentSame
  <2>6. CASE DecodeOne \/ DecodeOverrun \/ DecodeEnd \/ DecodeCrash \/ ExcuteOne
    <3>1. /\ sent' = sent /\ main' = main /\ m_listen_events' = m_listen_events
          /\ epoll_events' = epoll_events /\ pc \in {"decode", "excute"}
          /\ pc' \in {"decode", "excute", "dead"} /\ m_pending_tasks' = m_pending_tasks
      BY <2>6 DEF DecodeOne, DecodeOverrun, DecodeEnd, DecodeCrash, ExcuteOne, onaccept, interest,
         history
    <3> QED BY <1>01, <3>1 DEF Handing, AllRepliesSent
  <2>7. CASE Excute
    <3>1. /\ sentSame /\ main' = main /\ pc = "excute"
          /\ m_listen_events' = m_listen_events \cup {"out"}
          /\ epoll_events' = m_listen_events' /\ m_pending_tasks' = m_pending_tasks
      BY <2>7 DEF Excute, Listen, onaccept, history, sentSame
    <3> QED BY <1>01, <3>1 DEF Handing, AllRepliesSent, sentSame
  <2>8. CASE WriteSome
    <3> DEFINE b == m_out_buffer
               n == Least(readAble(b), room)
    <3>1. /\ main' = main /\ pc = "write" /\ decoded' = decoded
          /\ m_pending_tasks' = m_pending_tasks /\ result' = result
          /\ sent' = sent \o SubSeq(Contents(b), 1, n)
          /\ \/ n = readAble(b) /\ pc' = "idle" /\ Cancel("out")
             \/ /\ n < readAble(b) /\ pc' = pc /\ m_listen_events' = m_listen_events
                /\ epoll_events' = epoll_events
      BY <2>8 DEF WriteSome, onaccept, buffers, interest
    <3>2. result = <<>>
      BY <3>1 DEF RepliesQueued
    <3>3. CASE n = readAble(b) /\ pc' = "idle" /\ Cancel("out")
      <4>1. sent' \in Seq(Bytes) /\ \A k \in 1 .. Len(decoded') : Replied(decoded[k])'
        BY <3>1, <3>2, <3>3, SentAll
      <4>2. /\ m_listen_events' = m_listen_events \ {"out"}
            /\ epoll_events' = m_listen_events' /\ m_pending_tasks = <<>>
        BY <3>1, <3>3 DEF Cancel, Order
      <4> QED BY <1>01, <3>1, <3>3, <4>1, <4>2 DEF Handing, AllRepliesSent
    <3>4. CASE /\ n < readAble(b) /\ pc' = pc /\ m_listen_events' = m_listen_events
               /\ epoll_events' = epoll_events
      <4>1. sent' \in Seq(Bytes)
        <5>1. Good(b) /\ room \in Nat
          BY ConnectionAssumption DEF Buffered, TypeOK, Good
        <5>2. n \in Nat /\ readAble(b) \in Nat /\ n <= readAble(b)
          BY <5>1, <3>4, GoodFacts DEF Least
        <5> DEFINE c == Contents(b)
        <5>3. c \in Seq(Bytes) /\ Len(c) = readAble(b)
          <6>1. /\ b.m_buffer \in Seq(Bytes) /\ b.m_read_index + 1 \in Nat \ {0}
                /\ b.m_write_index \in Nat /\ b.m_write_index <= Len(b.m_buffer)
                /\ b.m_read_index + 1 <= b.m_write_index + 1
                /\ b.m_write_index - (b.m_read_index + 1) + 1 = readAble(b)
            BY <5>1, GoodFacts
          <6> QED BY <6>1, PieceFacts DEF Contents
        <5> HIDE DEF c, n
        <5>4. SubSeq(c, 1, n) \in Seq(Bytes)
          BY <5>2, <5>3, PieceFacts
        <5> QED BY <3>1, <5>4, ConcatProperties DEF Handing, c
      <4> QED BY <1>01, <3>1, <3>4, <4>1 DEF Handing, AllRepliesSent
    <3> QED BY <3>1, <3>3, <3>4
  <2>9. CASE WriteNothing
    <3>1. /\ main' = main /\ pc = "write" /\ sentSame /\ pc' = "idle"
          /\ m_pending_tasks' = m_pending_tasks /\ m_pending_tasks = <<>>
          /\ m_listen_events' = m_listen_events \ {"out"}
          /\ epoll_events' = m_listen_events' /\ readAble(m_out_buffer) = 0
      BY <2>9 DEF WriteNothing, Cancel, Order, onaccept, history, sentSame
    <3>2. Len(decoded') = 0
      <4>1. /\ result = <<>> /\ Len(result) = 0 /\ Len(decoded) \in Nat
            /\ ReplyLen \in Nat \ {0}
        BY <3>1, ConnectionAssumption DEF RepliesQueued, Kept, LenBytes
      <4>2. m_out_buffer.m_read_index = 0 /\ m_out_buffer.m_write_index = Len(decoded) * ReplyLen
        BY <4>1 DEF RepliesQueued
      <4>3. Len(decoded) * ReplyLen = 0
        BY <3>1, <4>1, <4>2 DEF readAble
      <4>4. Len(decoded) > 0 => Len(decoded) * ReplyLen > 0
        BY <4>1
      <4> QED BY <3>1, <4>1, <4>3, <4>4 DEF sentSame
    <3> QED BY <1>01, <3>1, <3>2 DEF Handing, AllRepliesSent, sentSame
  <2>10. CASE WriteBlocked \/ WriteKilled
    <3>1. /\ main' = main /\ pc = "write" /\ sentSame /\ pc' \in {"idle", "dead"}
          /\ m_pending_tasks' = m_pending_tasks
          /\ m_listen_events' = m_listen_events /\ epoll_events' = epoll_events
      BY <2>10 DEF WriteBlocked, WriteKilled, onaccept, interest, history, sentSame
    <3> QED BY <1>01, <3>1 DEF Handing, AllRepliesSent, sentSame
  <2> QED BY <1>4, <2>1, <2>2, <2>3, <2>4, <2>5, <2>6, <2>7, <2>8, <2>9, <2>10
          DEF Handlers
<1>5. CASE UNCHANGED vars
  <2>1. /\ sentSame /\ main' = main /\ m_listen_events' = m_listen_events
        /\ epoll_events' = epoll_events /\ pc' = pc /\ result' = result
        /\ m_pending_tasks' = m_pending_tasks
    BY <1>5 DEF vars, onaccept, interest, buffers, history, sentSame
  <2> QED BY <1>b, <2>1 DEF Handing, sentSame
<1> QED BY <1>1, <1>2, <1>3, <1>4, <1>5 DEF Next

(* The loop stops watching a connection for output only when the socket    *)
(* was handed the whole reply to every request that was decoded.           *)
THEOREM RepliesHandedOver == Spec => []AllRepliesSent
<1>1. Handing => AllRepliesSent
  BY DEF Handing
<1> QED BY <1>1, AlwaysKept, OrderInit, OrderStep, RepliesAreQueued,
           HandingInit, HandingStep, PTL DEF Spec
-----------------------------------------------------------------------------
(***************************************************************************)
(* A connection that is watched is not lost sight of: the safety half of   *)
(* WatchedGetsClosed.                                                      *)
(***************************************************************************)
(* A connection the loop reads from, or is about to, is unwatched only by  *)
(* the step that makes it Closed; onwrite and excute change the interest   *)
(* for output alone.                                                       *)
StaysWatched == [][Watched /\ m_state' # "Closed" => Watched']_vars

(* The closure the constructor posted asks for what comes in. *)
Watching ==
  /\ main = "listen" => m_listen_events = {}
  /\ epoll_events \in {{NotThere}, m_listen_events}
  /\ m_pending_tasks = <<"add">> => "in" \in m_listen_events

(* The queues that hold that closure. *)
LEMMA AddQueued ==
  ASSUME NEW q \in {<<>>, <<"add">>, <<"in">>, <<"out">>, <<"in", "out">>}
  PROVE  Contains(q, "add") <=> q = <<"add">>
<1>1. Contains(<<"add">>, "add")
  <2>1. 1 \in 1 .. Len(<<"add">>) /\ <<"add">>[1] = "add"
    OBVIOUS
  <2> QED BY <2>1 DEF Contains
<1>2. /\ ~Contains(<<>>, "add") /\ ~Contains(<<"in">>, "add")
      /\ ~Contains(<<"out">>, "add")
  BY DEF Contains
<1>3. ~Contains(<<"in", "out">>, "add")
  BY DEF Contains
<1> QED BY <1>1, <1>2, <1>3

LEMMA WatchingInit == Init => Watching
BY DEF Init, Watching

LEMMA WatchingStep ==
  ASSUME Order, Order', Watching, [Next]_vars
  PROVE  /\ Watching'
         /\ Watched /\ m_state' # "Closed" => Watched'
<1> DEFINE add == m_pending_tasks = <<"add">>
           sameInterest == m_listen_events' = m_listen_events /\ epoll_events' = epoll_events
<1>0. /\ Watched <=> "in" \in epoll_events \/ add
      /\ Watched' <=> "in" \in epoll_events' \/ add'
  BY AddQueued DEF Order, Watched
<1>1. "in" \notin {NotThere}
  BY DEF NotThere
<1>2. ASSUME sameInterest, main' = main, add' <=> add
      PROVE  Watching' /\ (Watched => Watched')
  BY <1>0, <1>2 DEF Watching
<1>3. ASSUME m_pending_tasks' = m_pending_tasks, main' = main, ~add, main # "listen",
             m_listen_events' \in {m_listen_events \cup {"out"}, m_listen_events \ {"out"}},
             epoll_events' = m_listen_events'
      PROVE  Watching' /\ (Watched => Watched')
  BY <1>0, <1>1, <1>3 DEF Watching
<1>4. \A task : Run(task) => pc = "idle" /\ ~add' /\ (add => task = "add")
  <2> TAKE task
  <2> HAVE Run(task)
  <2>1. Head(<<"add">>) = "add"
    OBVIOUS
  <2>2. /\ pc = "idle" /\ m_pending_tasks' \in {<<>>, <<"out">>}
        /\ Head(m_pending_tasks) = task
    BY RunFacts DEF Run
  <2> QED BY <2>1, <2>2
<1> HIDE DEF add, sameInterest
<1>5. CASE Accept
  <2>1. CASE CtorListen
    <3>1. /\ main' = "coder" /\ m_listen_events' = {"in"}
          /\ epoll_events' = {NotThere} /\ m_pending_tasks' = <<"add">>
      BY <2>1, OneTask DEF CtorListen, Order
    <3> QED BY <1>0, <3>1 DEF Watching, add
  <2>2. CASE CtorCoder \/ setState
    <3>1. sameInterest /\ main' # "listen" /\ (add' <=> add)
      BY <2>2 DEF CtorCoder, setState, interest, sameInterest, add
    <3> QED BY <1>0, <3>1 DEF Watching, sameInterest, add
  <2> QED BY <1>5, <2>1, <2>2 DEF Accept
<1>6. CASE Environment \/ shutdown \/ UNCHANGED vars
  BY <1>2, <1>6 DEF Environment, Arrive, PeerReads, PeerCloses, shutdown, vars,
     onaccept, interest, sameInterest, add
<1>7. CASE EpollReturn
  <2>1. sameInterest /\ main' = main /\ ~add /\ ~add'
    BY <1>7, EpollFacts DEF EpollReturn, onaccept, interest, sameInterest, add
  <2> QED BY <1>2, <2>1
<1>8. CASE Handlers
  <2>1. CASE RunAdd
    <3>1. /\ m_listen_events' = m_listen_events /\ epoll_events' = m_listen_events
          /\ main' = main /\ Run("add") /\ ~add'
      BY <1>4, <2>1 DEF RunAdd, onaccept
    <3>2. "in" \in epoll_events \/ add => "in" \in m_listen_events
      BY <1>1 DEF Watching, add
    <3> QED BY <1>0, <3>1, <3>2 DEF Watching, add
  <2>2. CASE OnRead \/ OnWrite
    <3>1. sameInterest /\ main' = main /\ ~add /\ ~add'
      BY <1>4, <2>2 DEF OnRead, OnWrite, onaccept, interest, sameInterest
    <3> QED BY <1>2, <3>1
  <2>3. CASE \/ ReadSome \/ ReadNothing \/ ReadError
             \/ DecodeOne \/ DecodeOverrun \/ DecodeEnd \/ DecodeCrash \/ ExcuteOne
             \/ WriteBlocked \/ WriteKilled
    <3>1. sameInterest /\ main' = main /\ (add' <=> add)
      BY <2>3 DEF ReadSome, ReadNothing, ReadError, DecodeOne, DecodeOverrun, DecodeEnd,
         DecodeCrash, ExcuteOne, WriteBlocked, WriteKilled, onaccept, interest,
         sameInterest, add
    <3> QED BY <1>2, <3>1
  <2>4. CASE ReadEnd
    <3>1. /\ main' = main /\ main # "listen" /\ m_state' = "Closed" /\ ~add'
          /\ m_listen_events' = {} /\ epoll_events' = {NotThere}
      BY <2>4 DEF ReadEnd, clear, Order, onaccept, interest, add
    <3> QED BY <3>1 DEF Watching, add
  <2>5. CASE Excute \/ WriteNothing
    <3>1. /\ m_pending_tasks' = m_pending_tasks /\ main' = main /\ ~add /\ main # "listen"
          /\ Listen("out") \/ Cancel("out")
      BY <2>5 DEF Excute, WriteNothing, Order, onaccept, add
    <3> QED BY <1>3, <3>1 DEF Listen, Cancel
  <2>6. CASE WriteSome
    <3>1. /\ m_pending_tasks' = m_pending_tasks /\ main' = main /\ ~add /\ main # "listen"
          /\ sameInterest \/ Cancel("out")
      BY <2>6 DEF WriteSome, Order, onaccept, interest, sameInterest, add
    <3> QED BY <1>2, <1>3, <3>1 DEF Cancel, add
  <2> QED BY <1>8, <2>1, <2>2, <2>3, <2>4, <2>5, <2>6 DEF Handlers
<1> QED BY <1>5, <1>6, <1>7, <1>8 DEF Next

(* No step but the one that closes a connection takes it out of epoll for  *)
(* what comes in.                                                          *)
THEOREM StaysWatchedTillClosed == Spec => StaysWatched
<1>1. Order /\ Order' /\ Watching /\ [Next]_vars
        => [Watched /\ m_state' # "Closed" => Watched']_vars
  BY WatchingStep
<1>2. Order /\ Order' /\ Watching /\ [Next]_vars => Watching'
  BY WatchingStep
<1> QED BY <1>1, <1>2, OrderInit, OrderStep, WatchingInit, PTL DEF Spec, StaysWatched
=============================================================================
