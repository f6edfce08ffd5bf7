---------------------------- MODULE BufferProofs ----------------------------
(***************************************************************************)
(* Theorems about TCpBUffer for any byte values, any initial size and any  *)
(* length of the calls: the operators of TcpBuffer keep the indices inside *)
(* the vector and do to Contents what a queue of bytes would do, except in *)
(* the three cases BufferCalls names.                                      *)
(***************************************************************************)
EXTENDS BufferCalls, SequenceTheorems, TLAPS

Good(b) == b \in Buffers(Bytes) /\ IndexOK(b)

USE ByteAssumption, SizeAssumption

-----------------------------------------------------------------------------
(* A buffer moved to the front of a vector that has room for it. *)
LEMMA MovedFacts ==
  ASSUME NEW b, Good(b), NEW n \in Nat, NEW from \in Nat, NEW count \in Nat,
         count <= n, from + count <= Size(b)
  PROVE  /\ Good(Moved(b, n, from, count))
         /\ Size(Moved(b, n, from, count)) = n
         /\ Moved(b, n, from, count).m_read_index = 0
         /\ Moved(b, n, from, count).m_write_index = count
         /\ \A k \in 1 .. count :
              Moved(b, n, from, count).m_buffer[k] = b.m_buffer[from + k]
<1> DEFINE front == SubSeq(b.m_buffer, from + 1, from + count)
           m == front \o Zeros(n - count)
<1>1. b.m_buffer \in Seq(Bytes) /\ from + count <= Len(b.m_buffer)
  BY DEF Good, Buffers, Size
<1>2. /\ front \in Seq(Bytes) /\ Len(front) = count
      /\ \A k \in 1 .. count : front[k] = b.m_buffer[from + k]
  <2>1. \A k \in from + 1 .. from + count : b.m_buffer[k] \in Bytes
    BY <1>1
  <2>2. /\ front \in Seq(Bytes)
        /\ Len(front) = IF from + 1 <= from + count
                        THEN (from + count) - (from + 1) + 1 ELSE 0
        /\ \A k \in 1 .. (from + count) - (from + 1) + 1 :
             front[k] = b.m_buffer[(from + 1) + k - 1]
    <3>1. from + 1 \in Int /\ from + count \in Int
      OBVIOUS
    <3> QED BY <2>1, <3>1, SubSeqProperties
  <2>3. \A k \in 1 .. count : /\ k \in 1 .. (from + count) - (from + 1) + 1
                              /\ (from + 1) + k - 1 = from + k
    OBVIOUS
  <2> HIDE DEF front
  <2>4. Len(front) = count
    BY <2>2
  <2>5. ASSUME NEW k \in 1 .. count PROVE front[k] = b.m_buffer[from + k]
    <3>1. front[k] = b.m_buffer[(from + 1) + k - 1]
      BY <2>2, <2>3
    <3> QED BY <2>3, <3>1
  <2> QED BY <2>2, <2>4, <2>5
<1>3. Zeros(n - count) \in Seq(Bytes) /\ Len(Zeros(n - count)) = n - count
  BY DEF Zeros
<1> HIDE DEF front
<1>4. /\ m \in Seq(Bytes) /\ Len(m) = n
      /\ \A k \in 1 .. count : m[k] = b.m_buffer[from + k]
  <2>1. /\ m \in Seq(Bytes) /\ Len(m) = Len(front) + Len(Zeros(n - count))
        /\ \A k \in 1 .. Len(front) + Len(Zeros(n - count)) :
             m[k] = IF k <= Len(front) THEN front[k]
                    ELSE Zeros(n - count)[k - Len(front)]
    BY <1>2, <1>3, ConcatProperties
  <2> HIDE DEF m
  <2> QED BY <1>2, <1>3, <2>1
<1>5. Moved(b, n, from, count) =
        [m_buffer |-> m, m_read_index |-> 0, m_write_index |-> count]
  BY DEF Moved, front
<1> HIDE DEF m
<1> QED BY <1>4, <1>5 DEF Good, Buffers, IndexOK, Size

(* Bytes copied behind the write index. *)
LEMMA CopiedFacts ==
  ASSUME NEW b, Good(b), NEW data \in Seq(Bytes), Len(data) <= writeAble(b)
  PROVE  /\ Good(Copied(b, b.m_write_index, data))
         /\ Size(Copied(b, b.m_write_index, data)) = Size(b)
         /\ Copied(b, b.m_write_index, data).m_read_index = b.m_read_index
         /\ Copied(b, b.m_write_index, data).m_write_index = b.m_write_index
         /\ \A k \in 1 .. b.m_write_index :
              Copied(b, b.m_write_index, data).m_buffer[k] = b.m_buffer[k]
         /\ \A k \in 1 .. Len(data) :
              Copied(b, b.m_write_index, data).m_buffer[b.m_write_index + k]
                = data[k]
<1> DEFINE w == b.m_write_index
           front == SubSeq(b.m_buffer, 1, w)
           back == SubSeq(b.m_buffer, w + Len(data) + 1, Size(b))
           c == front \o data \o back
<1>1. /\ b.m_buffer \in Seq(Bytes) /\ w \in Nat /\ Size(b) \in Nat
      /\ w + Len(data) <= Size(b) /\ Len(data) \in Nat
      /\ Size(b) = Len(b.m_buffer)
  BY DEF Good, Buffers, IndexOK, writeAble, Size
<1> HIDE DEF w
<1>2. /\ front \in Seq(Bytes) /\ Len(front) = w
      /\ \A k \in 1 .. w : front[k] = b.m_buffer[k]
  <2>1. \A k \in 1 .. w : b.m_buffer[k] \in Bytes
    BY <1>1
  <2>2. /\ front \in Seq(Bytes)
        /\ Len(front) = IF 1 <= w THEN w - 1 + 1 ELSE 0
        /\ \A k \in 1 .. w - 1 + 1 : front[k] = b.m_buffer[1 + k - 1]
    <3>1. 1 \in Int /\ w \in Int
      BY <1>1
    <3> QED BY <2>1, <3>1, SubSeqProperties
  <2> HIDE DEF front
  <2> QED BY <1>1, <2>2
<1>3. back \in Seq(Bytes) /\ Len(back) = Size(b) - w - Len(data)
  <2>1. \A k \in w + Len(data) + 1 .. Size(b) : b.m_buffer[k] \in Bytes
    BY <1>1
  <2>2. /\ back \in Seq(Bytes)
        /\ Len(back) = IF w + Len(data) + 1 <= Size(b)
                       THEN Size(b) - (w + Len(data) + 1) + 1 ELSE 0
    <3>1. w + Len(data) + 1 \in Int /\ Size(b) \in Int
      BY <1>1
    <3> QED BY <2>1, <3>1, SubSeqProperties
  <2> HIDE DEF back
  <2> QED BY <1>1, <2>2
<1> HIDE DEF front, back
<1>4. /\ front \o data \in Seq(Bytes) /\ Len(front \o data) = w + Len(data)
      /\ \A k \in 1 .. w + Len(data) :
           (front \o data)[k] = IF k <= w THEN front[k] ELSE data[k - w]
  BY <1>2, ConcatProperties
<1>5. /\ c \in Seq(Bytes) /\ Len(c) = Size(b)
      /\ \A k \in 1 .. w + Len(data) : c[k] = (front \o data)[k]
  <2> DEFINE d == front \o data
  <2>1. /\ d \o back \in Seq(Bytes) /\ Len(d \o back) = Len(d) + Len(back)
        /\ \A k \in 1 .. Len(d) + Len(back) :
             (d \o back)[k] = IF k <= Len(d) THEN d[k] ELSE back[k - Len(d)]
    <3>1. d \in Seq(Bytes)
      BY <1>4
    <3> HIDE DEF d
    <3> QED BY <1>3, <3>1, ConcatProperties
  <2>2. d \in Seq(Bytes) /\ Len(d) = w + Len(data)
    BY <1>4
  <2>3. c = d \o back
    OBVIOUS
  <2> HIDE DEF c, d
  <2>4. /\ c \in Seq(Bytes) /\ Len(c) = Size(b)
        /\ \A k \in 1 .. w + Len(data) : c[k] = d[k]
    BY <1>1, <1>3, <2>1, <2>2, <2>3
  <2> QED BY <2>4 DEF d
<1> HIDE DEF c
<1>6. /\ \A k \in 1 .. w : c[k] = b.m_buffer[k]
      /\ \A k \in 1 .. Len(data) : c[w + k] = data[k]
  <2>1. ASSUME NEW k \in 1 .. w PROVE c[k] = b.m_buffer[k]
    BY <1>1, <1>2, <1>4, <1>5
  <2>2. ASSUME NEW k \in 1 .. Len(data) PROVE c[w + k] = data[k]
    <3>1. /\ w + k \in 1 .. w + Len(data) /\ ~(w + k <= w)
          /\ (w + k) - w = k
      BY <1>1
    <3> QED BY <1>4, <1>5, <3>1
  <2> QED BY <2>1, <2>2
<1>7. Copied(b, w, data) = [b EXCEPT !.m_buffer = c]
  BY DEF Copied, front, back, c
<1> QED BY <1>5, <1>6, <1>7 DEF Good, Buffers, IndexOK, Size, w

(* The bytes that wait to be read, one by one. *)
LEMMA ContentsFacts ==
  ASSUME NEW b, Good(b)
  PROVE  /\ readAble(b) \in Nat
         /\ Contents(b) \in Seq(Bytes) /\ Len(Contents(b)) = readAble(b)
         /\ \A k \in 1 .. readAble(b) :
              Contents(b)[k] = b.m_buffer[b.m_read_index + k]
<1> DEFINE r == b.m_read_index
           w == b.m_write_index
<1>1. /\ b.m_buffer \in Seq(Bytes) /\ r \in Nat /\ w \in Nat /\ r <= w
      /\ w <= Len(b.m_buffer) /\ readAble(b) = w - r
  BY DEF Good, Buffers, IndexOK, readAble, Size
<1>2. \A k \in r + 1 .. w : b.m_buffer[k] \in Bytes
  BY <1>1
<1> HIDE DEF r, w
<1>3. /\ SubSeq(b.m_buffer, r + 1, w) \in Seq(Bytes)
      /\ Len(SubSeq(b.m_buffer, r + 1, w)) = IF r + 1 <= w THEN w - (r + 1) + 1 ELSE 0
      /\ \A k \in 1 .. w - (r + 1) + 1 :
           SubSeq(b.m_buffer, r + 1, w)[k] = b.m_buffer[(r + 1) + k - 1]
  <2>1. r + 1 \in Int /\ w \in Int
    BY <1>1
  <2> QED BY <1>2, <2>1, SubSeqProperties
<1>4. Contents(b) = SubSeq(b.m_buffer, r + 1, w)
  BY DEF Contents, r, w
<1>5. \A k \in 1 .. w - r : (r + 1) + k - 1 = r + k /\ k \in 1 .. w - (r + 1) + 1
  BY <1>1
<1>6. Contents(b) \in Seq(Bytes) /\ Len(Contents(b)) = w - r
  BY <1>1, <1>3, <1>4
<1>7. ASSUME NEW k \in 1 .. w - r
      PROVE  Contents(b)[k] = b.m_buffer[r + k]
  BY <1>3, <1>4, <1>5
<1>8. readAble(b) = w - r /\ w - r \in Nat
  BY <1>1
<1> QED BY <1>6, <1>7, <1>8 DEF r

(* Two buffers that hold the same bytes. *)
LEMMA SameContents ==
  ASSUME NEW b, Good(b), NEW c, Good(c), readAble(b) = readAble(c),
         \A k \in 1 .. readAble(b) :
           b.m_buffer[b.m_read_index + k] = c.m_buffer[c.m_read_index + k]
  PROVE  Contents(b) = Contents(c)
<1>1. /\ Contents(b) \in Seq(Bytes) /\ Contents(c) \in Seq(Bytes)
      /\ Len(Contents(b)) = Len(Contents(c))
      /\ \A k \in 1 .. Len(Contents(b)) : Contents(b)[k] = Contents(c)[k]
  BY ContentsFacts
<1> QED BY <1>1, SeqEqual

(* A buffer whose write index moved over data in its vector holds the      *)
(* bytes it held and the data.                                             *)
LEMMA WriteIndexMoved ==
  ASSUME NEW b, Good(b), NEW data \in Seq(Bytes), Len(data) <= writeAble(b),
         \A k \in 1 .. Len(data) : b.m_buffer[b.m_write_index + k] = data[k]
  PROVE  /\ Good([b EXCEPT !.m_write_index = @ + Len(data)])
         /\ Size([b EXCEPT !.m_write_index = @ + Len(data)]) = Size(b)
         /\ Contents([b EXCEPT !.m_write_index = @ + Len(data)]) =
              Contents(b) \o data
<1> DEFINE c == [b EXCEPT !.m_write_index = @ + Len(data)]
           r == b.m_read_index
           w == b.m_write_index
<1>1. /\ r \in Nat /\ w \in Nat /\ r <= w /\ Len(data) \in Nat
      /\ readAble(b) = w - r
  BY DEF Good, Buffers, IndexOK, readAble
<1>2. c.m_read_index = r /\ c.m_write_index = w + Len(data)
      /\ c.m_buffer = b.m_buffer
  BY DEF Good, Buffers
<1>3. Good(c) /\ Size(c) = Size(b) /\ readAble(c) = w - r + Len(data)
  <2>1. c \in Buffers(Bytes)
    <3>1. w + Len(data) \in Nat
      BY <1>1
    <3>2. b \in Buffers(Bytes)
      BY DEF Good
    <3> QED BY <3>1, <3>2 DEF Buffers
  <2>2. Size(c) = Size(b) /\ Size(b) \in Nat /\ w + Len(data) <= Size(b)
    BY <1>1, <1>2 DEF Good, Buffers, Size, writeAble
  <2> HIDE DEF c
  <2> QED BY <1>1, <1>2, <2>1, <2>2 DEF Good, IndexOK, readAble
<1> HIDE DEF c
<1>4. /\ Contents(b) \o data \in Seq(Bytes)
      /\ Len(Contents(b) \o data) = w - r + Len(data)
      /\ \A k \in 1 .. w - r + Len(data) :
           (Contents(b) \o data)[k] = IF k <= w - r THEN b.m_buffer[r + k]
                                                    ELSE data[k - (w - r)]
  <2>1. /\ Contents(b) \in Seq(Bytes) /\ Len(Contents(b)) = w - r
        /\ \A k \in 1 .. w - r : Contents(b)[k] = b.m_buffer[r + k]
    BY <1>1, ContentsFacts
  <2>2. /\ Contents(b) \o data \in Seq(Bytes)
        /\ Len(Contents(b) \o data) = Len(Contents(b)) + Len(data)
        /\ \A k \in 1 .. Len(Contents(b)) + Len(data) :
             (Contents(b) \o data)[k] =
               IF k <= Len(Contents(b)) THEN Contents(b)[k]
                                        ELSE data[k - Len(Contents(b))]
    BY <2>1, ConcatProperties
  <2> QED BY <1>1, <2>1, <2>2
<1>5. \A k \in 1 .. w - r + Len(data) : Contents(c)[k] = (Contents(b) \o data)[k]
  <2>1. \A k \in 1 .. w - r + Len(data) : Contents(c)[k] = b.m_buffer[r + k]
    BY <1>2, <1>3, ContentsFacts
  <2>2. ASSUME NEW k \in 1 .. w - r + Len(data), k > w - r
        PROVE  b.m_buffer[r + k] = data[k - (w - r)]
    <3>1. k - (w - r) \in 1 .. Len(data) /\ w + (k - (w - r)) = r + k
      BY <1>1, <2>2
    <3> QED BY <3>1
  <2> QED BY <1>1, <1>4, <2>1, <2>2
<1>6. Contents(c) = Contents(b) \o data
  <2>1. Contents(c) \in Seq(Bytes) /\ Len(Contents(c)) = w - r + Len(data)
    BY <1>3, ContentsFacts
  <2> QED BY <1>4, <1>5, <2>1, SeqEqual
<1> QED BY <1>3, <1>6 DEF c

(* A buffer whose read index moved holds what it held without its front. *)
LEMMA ReadIndexMoved ==
  ASSUME NEW b, Good(b), NEW n \in Nat, n <= readAble(b)
  PROVE  /\ Good([b EXCEPT !.m_read_index = @ + n])
         /\ Size([b EXCEPT !.m_read_index = @ + n]) = Size(b)
         /\ Contents([b EXCEPT !.m_read_index = @ + n]) =
              SubSeq(Contents(b), n + 1, readAble(b))
<1> DEFINE c == [b EXCEPT !.m_read_index = @ + n]
           r == b.m_read_index
           len == readAble(b)
<1>1. /\ r \in Nat /\ len \in Nat /\ b.m_write_index = r + len /\ n <= len
  BY DEF Good, Buffers, IndexOK, readAble
<1>2. c.m_read_index = r + n /\ c.m_write_index = b.m_write_index
      /\ c.m_buffer = b.m_buffer
  BY DEF Good, Buffers
<1>3. Good(c) /\ Size(c) = Size(b) /\ readAble(c) = len - n
  <2>1. c \in Buffers(Bytes)
    BY <1>1 DEF Good, Buffers
  <2>2. Size(c) = Size(b) /\ b.m_write_index <= Size(b)
    BY <1>2 DEF Good, IndexOK, Size
  <2> HIDE DEF c
  <2> QED BY <1>1, <1>2, <2>1, <2>2 DEF Good, IndexOK, readAble
<1> HIDE DEF c, len
<1>4. /\ Contents(b) \in Seq(Bytes) /\ Len(Contents(b)) = len
      /\ \A k \in 1 .. len : Contents(b)[k] = b.m_buffer[r + k]
  BY ContentsFacts DEF len
<1>5. /\ SubSeq(Contents(b), n + 1, len) \in Seq(Bytes)
      /\ Len(SubSeq(Contents(b), n + 1, len)) = len - n
      /\ \A k \in 1 .. len - n :
           SubSeq(Contents(b), n + 1, len)[k] = b.m_buffer[r + n + k]
  <2>1. \A k \in n + 1 .. len : Contents(b)[k] \in Bytes
    BY <1>1, <1>4
  <2>2. n + 1 \in Int /\ len \in Int
    BY <1>1
  <2>3. /\ SubSeq(Contents(b), n + 1, len) \in Seq(Bytes)
        /\ Len(SubSeq(Contents(b), n + 1, len)) =
             IF n + 1 <= len THEN len - (n + 1) + 1 ELSE 0
        /\ \A k \in 1 .. len - (n + 1) + 1 :
             SubSeq(Contents(b), n + 1, len)[k] = Contents(b)[(n + 1) + k - 1]
    BY <2>1, <2>2, SubSeqProperties
  <2>4. ASSUME NEW k \in 1 .. len - n
        PROVE  SubSeq(Contents(b), n + 1, len)[k] = b.m_buffer[r + n + k]
    <3>1. /\ k \in 1 .. len - (n + 1) + 1 /\ (n + 1) + k - 1 = n + k
          /\ n + k \in 1 .. len /\ r + (n + k) = r + n + k
      BY <1>1, <2>4
    <3>2. SubSeq(Contents(b), n + 1, len)[k] = Contents(b)[n + k]
      BY <2>3, <3>1
    <3>3. Contents(b)[n + k] = b.m_buffer[r + (n + k)]
      BY <1>4, <3>1
    <3> QED BY <3>1, <3>2, <3>3
  <2> QED BY <1>1, <2>3, <2>4
<1>6. /\ Contents(c) \in Seq(Bytes) /\ Len(Contents(c)) = len - n
      /\ \A k \in 1 .. len - n : Contents(c)[k] = b.m_buffer[r + n + k]
  BY <1>2, <1>3, ContentsFacts
<1>7. Contents(c) = SubSeq(Contents(b), n + 1, len)
  BY <1>5, <1>6, SeqEqual
<1> QED BY <1>3, <1>7 DEF c, len

(* Adjusting is invisible from outside. *)
LEMMA AdjustInvisible ==
  ASSUME NEW b, Good(b)
  PROVE  /\ Good(adjustBuffer(b))
         /\ Size(adjustBuffer(b)) = Size(b)
         /\ Contents(adjustBuffer(b)) = Contents(b)
<1>1. CASE b.m_read_index < Size(b) \div 3
  BY <1>1 DEF adjustBuffer
<1>2. CASE ~(b.m_read_index < Size(b) \div 3)
  <2> DEFINE m == Moved(b, Size(b), b.m_read_index, readAble(b))
  <2>1. /\ b.m_read_index \in Nat /\ readAble(b) \in Nat /\ Size(b) \in Nat
        /\ readAble(b) <= Size(b) /\ b.m_read_index + readAble(b) <= Size(b)
    BY DEF Good, Buffers, IndexOK, readAble, Size
  <2>2. /\ Good(m) /\ Size(m) = Size(b)
        /\ m.m_read_index = 0 /\ m.m_write_index = readAble(b)
        /\ \A k \in 1 .. readAble(b) :
             m.m_buffer[k] = b.m_buffer[b.m_read_index + k]
    <3> DEFINE count == readAble(b)
               from == b.m_read_index
               size == Size(b)
    <3>1. count \in Nat /\ from \in Nat /\ size \in Nat
          /\ count <= size /\ from + count <= Size(b)
      BY <2>1
    <3> HIDE DEF count, from, size
    <3>2. /\ Good(Moved(b, size, from, count)) /\ Size(Moved(b, size, from, count)) = size
          /\ Moved(b, size, from, count).m_read_index = 0
          /\ Moved(b, size, from, count).m_write_index = count
          /\ \A k \in 1 .. count :
               Moved(b, size, from, count).m_buffer[k] = b.m_buffer[from + k]
      BY <3>1, MovedFacts
    <3> QED BY <3>2 DEF count, from, size
  <2>3. adjustBuffer(b) = m
    BY <1>2 DEF adjustBuffer
  <2> HIDE DEF m
  <2>4. /\ readAble(m) = readAble(b)
        /\ \A k \in 1 .. readAble(b) : 0 + k = k
    BY <2>1, <2>2 DEF readAble
  <2>5. Contents(m) = Contents(b)
    BY <2>2, <2>4, SameContents
  <2> QED BY <2>2, <2>3, <2>5
<1> QED BY <1>1, <1>2

-----------------------------------------------------------------------------
(* The methods, each outside the case BufferCalls names for it. *)

LEMMA ResizeGood ==
  ASSUME NEW b, Good(b), NEW n \in Nat, Size(b) <= n
  PROVE  /\ Good(resizeBuffer(b, n)) /\ Size(resizeBuffer(b, n)) = n
         /\ readAble(resizeBuffer(b, n)) = readAble(b)
         /\ resizeBuffer(b, n).m_write_index = readAble(b)
         /\ b.m_read_index = 0 => Contents(resizeBuffer(b, n)) = Contents(b)
<1> DEFINE m == Moved(b, n, 0, readAble(b))
<1>1. /\ readAble(b) \in Nat /\ readAble(b) <= Size(b) /\ Size(b) \in Nat
      /\ b.m_read_index \in Nat
  BY DEF Good, Buffers, IndexOK, readAble, Size
<1>2. resizeBuffer(b, n) = m
  BY <1>1 DEF resizeBuffer, Least
<1>3. /\ Good(m) /\ Size(m) = n
      /\ m.m_read_index = 0 /\ m.m_write_index = readAble(b)
      /\ \A k \in 1 .. readAble(b) : m.m_buffer[k] = b.m_buffer[0 + k]
  <2> DEFINE count == readAble(b)
  <2>1. count \in Nat /\ 0 \in Nat /\ count <= n /\ 0 + count <= Size(b)
    BY <1>1
  <2> HIDE DEF count
  <2>2. /\ Good(Moved(b, n, 0, count)) /\ Size(Moved(b, n, 0, count)) = n
        /\ Moved(b, n, 0, count).m_read_index = 0
        /\ Moved(b, n, 0, count).m_write_index = count
        /\ \A k \in 1 .. count :
             Moved(b, n, 0, count).m_buffer[k] = b.m_buffer[0 + k]
    BY <2>1, MovedFacts
  <2> QED BY <2>2 DEF count
<1> HIDE DEF m
<1>4. readAble(m) = readAble(b) /\ \A k \in 1 .. readAble(b) : 0 + k = k
  BY <1>1, <1>3 DEF readAble
<1>5. b.m_read_index = 0 => Contents(m) = Contents(b)
  BY <1>3, <1>4, SameContents
<1> QED BY <1>2, <1>3, <1>4, <1>5

LEMMA WriteFacts ==
  ASSUME NEW b, Good(b), NEW data \in Seq(Bytes)
  PROVE  /\ Good(writeToBUffer(b, data))
         /\ Size(writeToBUffer(b, data)) >= Size(b)
         /\ (Len(data) <= writeAble(b) \/ b.m_read_index = 0) =>
              Contents(writeToBUffer(b, data)) = Contents(b) \o data
<1> DEFINE n == (3 * (b.m_write_index + Len(data))) \div 2
           fit == IF Len(data) > writeAble(b) THEN resizeBuffer(b, n) ELSE b
           put == Copied(fit, fit.m_write_index, data)
<1>1. /\ b.m_write_index \in Nat /\ Len(data) \in Nat /\ Size(b) \in Nat
      /\ n \in Nat /\ n >= b.m_write_index + Len(data)
      /\ writeAble(b) = Size(b) - b.m_write_index
      /\ readAble(b) \in Nat /\ readAble(b) <= b.m_write_index
  BY DEF Good, Buffers, IndexOK, Size, writeAble, readAble
<1> HIDE DEF n
<1>2. /\ Good(fit) /\ Size(fit) >= Size(b) /\ Len(data) <= writeAble(fit)
      /\ (Len(data) <= writeAble(b) \/ b.m_read_index = 0) =>
           Contents(fit) = Contents(b)
  <2>1. CASE Len(data) > writeAble(b)
    <3>1. Size(b) <= n
      BY <1>1, <2>1
    <3>2. /\ Good(resizeBuffer(b, n)) /\ Size(resizeBuffer(b, n)) = n
          /\ resizeBuffer(b, n).m_write_index = readAble(b)
          /\ b.m_read_index = 0 => Contents(resizeBuffer(b, n)) = Contents(b)
      BY <1>1, <3>1, ResizeGood
    <3> QED BY <1>1, <2>1, <3>1, <3>2 DEF writeAble
  <2>2. CASE ~(Len(data) > writeAble(b))
    BY <1>1, <2>2
  <2> QED BY <2>1, <2>2
<1> HIDE DEF fit
<1>3. /\ Good(put) /\ Size(put) = Size(fit)
      /\ put.m_read_index = fit.m_read_index
      /\ put.m_write_index = fit.m_write_index
      /\ \A k \in 1 .. fit.m_write_index : put.m_buffer[k] = fit.m_buffer[k]
      /\ \A k \in 1 .. Len(data) : put.m_buffer[put.m_write_index + k] = data[k]
  BY <1>2, CopiedFacts
<1> HIDE DEF put
<1>4. Contents(put) = Contents(fit)
  <2>1. readAble(put) = readAble(fit)
    BY <1>3 DEF readAble
  <2>2. \A k \in 1 .. readAble(put) :
          put.m_read_index + k \in 1 .. fit.m_write_index
    BY <1>2, <1>3, <2>1 DEF Good, Buffers, IndexOK, readAble
  <2> QED BY <1>2, <1>3, <2>1, <2>2, SameContents
<1>5. Len(data) <= writeAble(put)
  BY <1>2, <1>3 DEF writeAble
<1>6. writeToBUffer(b, data) = [put EXCEPT !.m_write_index = @ + Len(data)]
  BY DEF writeToBUffer, put, fit, n
<1>7. /\ Good(writeToBUffer(b, data)) /\ Size(writeToBUffer(b, data)) = Size(put)
      /\ Contents(writeToBUffer(b, data)) = Contents(put) \o data
  <2> DEFINE c == [put EXCEPT !.m_write_index = @ + Len(data)]
  <2>1. Good(c) /\ Size(c) = Size(put) /\ Contents(c) = Contents(put) \o data
    BY <1>3, <1>5, WriteIndexMoved
  <2>2. writeToBUffer(b, data) = c
    BY <1>6
  <2> HIDE DEF c
  <2> QED BY <2>1, <2>2
<1> QED BY <1>1, <1>2, <1>3, <1>4, <1>7

LEMMA ReadFacts ==
  ASSUME NEW b, Good(b), NEW n \in Nat
  PROVE  /\ Good(readFromBuffer(b, n)) /\ Size(readFromBuffer(b, n)) = Size(b)
         /\ Contents(readFromBuffer(b, n)) = SubSeq(Contents(b), n + 1, readAble(b))
<1>1. /\ readAble(b) \in Nat /\ Contents(b) \in Seq(Bytes)
      /\ Len(Contents(b)) = readAble(b)
  BY ContentsFacts
<1>2. CASE n <= readAble(b) /\ readAble(b) # 0
  <2> DEFINE c == [b EXCEPT !.m_read_index = @ + n]
  <2>1. readFromBuffer(b, n) = adjustBuffer(c)
    BY <1>1, <1>2 DEF readFromBuffer, Least
  <2>2. /\ Good(c) /\ Size(c) = Size(b)
        /\ Contents(c) = SubSeq(Contents(b), n + 1, readAble(b))
    BY <1>2, ReadIndexMoved
  <2> HIDE DEF c
  <2> QED BY <2>1, <2>2, AdjustInvisible
<1>3. CASE n > readAble(b) /\ readAble(b) # 0
  <2> DEFINE c == [b EXCEPT !.m_read_index = @ + readAble(b)]
  <2>1. readFromBuffer(b, n) = adjustBuffer(c)
    BY <1>1, <1>3 DEF readFromBuffer, Least
  <2>2. /\ Good(c) /\ Size(c) = Size(b)
        /\ Contents(c) = SubSeq(Contents(b), readAble(b) + 1, readAble(b))
    BY <1>1, ReadIndexMoved
  <2>3. SubSeq(Contents(b), readAble(b) + 1, readAble(b)) = <<>>
        /\ SubSeq(Contents(b), n + 1, readAble(b)) = <<>>
    BY <1>1, <1>3, SubSeqEmpty
  <2> HIDE DEF c
  <2> QED BY <2>1, <2>2, <2>3, AdjustInvisible
<1>4. CASE readAble(b) = 0
  <2>1. readFromBuffer(b, n) = b
    BY <1>4 DEF readFromBuffer
  <2>2. SubSeq(Contents(b), n + 1, readAble(b)) = <<>>
    BY <1>1, <1>4, SubSeqEmpty
  <2>3. Contents(b) = <<>>
    BY <1>1, <1>4, EmptySeq
  <2> QED BY <2>1, <2>2, <2>3
<1> QED BY <1>1, <1>2, <1>3, <1>4

LEMMA SkipFacts ==
  ASSUME NEW b, Good(b), NEW n \in Nat, n <= readAble(b)
  PROVE  /\ Good(moveReadIndex(b, n)) /\ Size(moveReadIndex(b, n)) = Size(b)
         /\ b.m_read_index + n # Size(b) =>
              Contents(moveReadIndex(b, n)) =
                SubSeq(Contents(b), n + 1, readAble(b))
<1>1. b.m_read_index + n <= Size(b) /\ b.m_read_index + n \in Nat /\ Size(b) \in Nat
  BY DEF Good, Buffers, IndexOK, Size, readAble
<1>2. CASE b.m_read_index + n >= Size(b)
  BY <1>1, <1>2 DEF moveReadIndex
<1>3. CASE ~(b.m_read_index + n >= Size(b))
  <2> DEFINE c == [b EXCEPT !.m_read_index = @ + n]
  <2>1. moveReadIndex(b, n) = adjustBuffer(c)
    BY <1>3 DEF moveReadIndex
  <2>2. /\ Good(c) /\ Size(c) = Size(b)
        /\ Contents(c) = SubSeq(Contents(b), n + 1, readAble(b))
    BY ReadIndexMoved
  <2> HIDE DEF c
  <2> QED BY <2>1, <2>2, AdjustInvisible
<1> QED BY <1>2, <1>3

LEMMA FillFacts ==
  ASSUME NEW b, Good(b), NEW data \in Seq(Bytes), Len(data) <= writeAble(b)
  PROVE  LET c == moveWriteIndex(Copied(b, b.m_write_index, data), Len(data))
         IN  /\ Good(c) /\ Size(c) = Size(b)
             /\ Len(data) # writeAble(b) => Contents(c) = Contents(b) \o data
<1> DEFINE put == Copied(b, b.m_write_index, data)
           c == moveWriteIndex(put, Len(data))
<1>1. /\ Good(put) /\ Size(put) = Size(b)
      /\ put.m_read_index = b.m_read_index
      /\ put.m_write_index = b.m_write_index
      /\ \A k \in 1 .. b.m_write_index : put.m_buffer[k] = b.m_buffer[k]
      /\ \A k \in 1 .. Len(data) : put.m_buffer[put.m_write_index + k] = data[k]
  BY CopiedFacts
<1> HIDE DEF put
<1>2. Contents(put) = Contents(b)
  <2>1. readAble(put) = readAble(b)
    BY <1>1 DEF readAble
  <2>2. \A k \in 1 .. readAble(put) :
          put.m_read_index + k \in 1 .. b.m_write_index
    BY <1>1, <2>1 DEF Good, Buffers, IndexOK, readAble
  <2> QED BY <1>1, <2>1, <2>2, SameContents
<1>3. /\ writeAble(put) = writeAble(b) /\ Len(data) \in Nat
      /\ writeAble(put) = Size(put) - put.m_write_index
      /\ Size(put) \in Nat /\ put.m_write_index \in Nat
  BY <1>1 DEF writeAble, Good, Buffers, Size
<1>4. CASE put.m_write_index + Len(data) >= Size(put)
  <2>1. c = put
    BY <1>4 DEF moveWriteIndex
  <2> QED BY <1>1, <1>3, <1>4, <2>1 DEF put
<1>5. CASE ~(put.m_write_index + Len(data) >= Size(put))
  <2> DEFINE d == [put EXCEPT !.m_write_index = @ + Len(data)]
  <2>1. c = adjustBuffer(d)
    BY <1>5 DEF moveWriteIndex
  <2>2. Good(d) /\ Size(d) = Size(put) /\ Contents(d) = Contents(put) \o data
    BY <1>1, <1>3, WriteIndexMoved
  <2> HIDE DEF d
  <2> QED BY <1>1, <1>2, <2>1, <2>2, AdjustInvisible DEF put
<1> QED BY <1>4, <1>5

-----------------------------------------------------------------------------
LEMMA DataFacts ==
  ASSUME NEW data \in Data PROVE data \in Seq(Bytes) /\ Len(data) \in Nat
BY DEF Data

LEMMA IndexesInit == Init => IndexesInside
<1>1. Zeros(BufferSize) \in Seq(Bytes) /\ Len(Zeros(BufferSize)) = BufferSize
  <2>1. Zeros(BufferSize) \in [1 .. BufferSize -> Bytes]
    BY DEF Zeros
  <2> QED BY <2>1 DEF Zeros
<1> QED BY <1>1 DEF Init, New, IndexesInside, Buffers, IndexOK, Size

(* What onread makes room in is a good buffer. *)
LEMMA RoomFacts ==
  ASSUME NEW b, Good(b)
  PROVE  LET room == IF writeAble(b) = 0 THEN resizeBuffer(b, 2 * Size(b)) ELSE b
         IN  /\ Good(room) /\ Size(room) >= Size(b)
             /\ writeAble(b) # 0 => room = b
             /\ writeAble(b) = 0 => writeAble(room) = 2 * Size(b) - readAble(b)
             /\ writeAble(b) # 0 \/ b.m_read_index = 0 =>
                  Contents(room) = Contents(b)
<1>1. Size(b) \in Nat /\ 2 * Size(b) \in Nat /\ Size(b) <= 2 * Size(b)
  BY DEF Good, Buffers, Size
<1> QED BY <1>1, ResizeGood DEF writeAble

(* The three theorems rest on this: one call, one conclusion about both. *)
LEMMA CallStep ==
  ASSUME IndexesInside, Next
  PROVE  /\ IndexesInside'
         /\ ResizesAfterRead \/ FillsToEnd \/ SkipsToEnd \/ QueueStep
<1>1. Good(buffer) /\ Size(buffer) >= BufferSize /\ Size(buffer) \in Nat
  BY DEF IndexesInside, Good, Buffers, Size
<1>2. ASSUME NEW data \in Data, Write(data)
      PROVE  /\ IndexesInside'
             /\ ResizesAfterRead \/ FillsToEnd \/ SkipsToEnd \/ QueueStep
  <2>1. /\ buffer' = writeToBUffer(buffer, data)
        /\ call'.op = "write" /\ call'.data = data /\ call'.n = Len(data)
    BY <1>2 DEF Write, Called
  <2>2. /\ Good(buffer') /\ Size(buffer') >= Size(buffer)
        /\ (Len(data) <= writeAble(buffer) \/ buffer.m_read_index = 0) =>
             Contents(buffer') = Contents(buffer) \o data
    BY <1>1, <2>1, DataFacts, WriteFacts
  <2>3. Size(buffer') \in Nat
    BY <2>2 DEF Good, Buffers, Size
  <2>4. IndexesInside'
    BY <1>1, <2>2, <2>3 DEF IndexesInside, Good
  <2>5. writeAble(buffer) \in Int /\ Len(data) \in Int
    BY <1>1, DataFacts DEF Good, Buffers, writeAble
  <2> QED BY <2>1, <2>2, <2>4, <2>5 DEF ResizesAfterRead, QueueStep
<1>3. ASSUME NEW data \in Data, Fill(data)
      PROVE  /\ IndexesInside'
             /\ ResizesAfterRead \/ FillsToEnd \/ SkipsToEnd \/ QueueStep
  <2> DEFINE room == IF writeAble(buffer) = 0
                     THEN resizeBuffer(buffer, 2 * Size(buffer)) ELSE buffer
  <2>1. /\ Len(data) <= writeAble(room)
        /\ buffer' = moveWriteIndex(Copied(room, room.m_write_index, data),
                                    Len(data))
        /\ call'.op = "fill" /\ call'.data = data /\ call'.n = Len(data)
    BY <1>3 DEF Fill, Called
  <2>2. /\ Good(room) /\ Size(room) >= Size(buffer)
        /\ writeAble(buffer) # 0 => room = buffer
        /\ writeAble(buffer) = 0 =>
             writeAble(room) = 2 * Size(buffer) - readAble(buffer)
        /\ writeAble(buffer) # 0 \/ buffer.m_read_index = 0 =>
             Contents(room) = Contents(buffer)
    BY <1>1, RoomFacts
  <2> HIDE DEF room
  <2>3. /\ Good(buffer') /\ Size(buffer') = Size(room)
        /\ Len(data) # writeAble(room) =>
             Contents(buffer') = Contents(room) \o data
    BY <2>1, <2>2, DataFacts, FillFacts
  <2>4. Size(room) \in Nat
    BY <2>2 DEF Good, Buffers, Size
  <2>5. IndexesInside'
    BY <1>1, <2>2, <2>3, <2>4 DEF IndexesInside, Good
  <2>6. CASE writeAble(buffer) = 0 /\ buffer.m_read_index # 0
    BY <2>1, <2>5, <2>6 DEF ResizesAfterRead
  <2>7. CASE ~(writeAble(buffer) = 0 /\ buffer.m_read_index # 0)
    <3>1. Len(data) = writeAble(room) => FillsToEnd
      BY <2>1, <2>2 DEF FillsToEnd
    <3>2. Len(data) # writeAble(room) => QueueStep
      BY <2>1, <2>2, <2>3, <2>7 DEF QueueStep
    <3> QED BY <2>5, <3>1, <3>2
  <2> QED BY <2>6, <2>7
<1>4. ASSUME NEW n \in 1 .. MaxRun, Read(n)
      PROVE  IndexesInside' /\ QueueStep
  <2>1. /\ buffer' = readFromBuffer(buffer, n)
        /\ call'.op = "read" /\ call'.n = n
    BY <1>4 DEF Read, Called
  <2>2. /\ Good(buffer') /\ Size(buffer') = Size(buffer)
        /\ Contents(buffer') = SubSeq(Contents(buffer), n + 1, readAble(buffer))
    <3>1. n \in Nat
      OBVIOUS
    <3> QED BY <1>1, <2>1, <3>1, ReadFacts
  <2>3. IndexesInside'
    BY <1>1, <2>2 DEF IndexesInside, Good
  <2> QED BY <2>1, <2>2, <2>3 DEF QueueStep
<1>5. ASSUME NEW n \in 1 .. MaxRun, Skip(n)
      PROVE  IndexesInside' /\ (SkipsToEnd \/ QueueStep)
  <2>1. /\ buffer' = moveReadIndex(buffer, n) /\ n <= readAble(buffer)
        /\ call'.op = "skip" /\ call'.n = n
    BY <1>5 DEF Skip, Called
  <2>2. /\ Good(buffer') /\ Size(buffer') = Size(buffer)
        /\ buffer.m_read_index + n # Size(buffer) =>
             Contents(buffer') =
               SubSeq(Contents(buffer), n + 1, readAble(buffer))
    BY <1>1, <2>1, SkipFacts
  <2>3. IndexesInside'
    BY <1>1, <2>2 DEF IndexesInside, Good
  <2> QED BY <2>1, <2>2, <2>3 DEF QueueStep, SkipsToEnd
<1> QED BY <1>2, <1>3, <1>4, <1>5 DEF Next

(* The indices of a TCpBUffer stay inside its vector, which never shrinks, *)
(* in every sequence of calls of its methods.                              *)
THEOREM IndexesAlwaysInside == Spec => []IndexesInside
<1>1. IndexesInside /\ [Next]_vars => IndexesInside'
  <2>1. IndexesInside /\ UNCHANGED vars => IndexesInside'
    BY DEF IndexesInside, vars
  <2> QED BY <2>1, CallStep
<1> QED BY <1>1, IndexesInit, PTL DEF Spec

(* Outside three cases (lines 64, 89 and 99) every method does to the      *)
(* bytes that wait to be read what it would do to a queue of bytes.        *)
THEOREM BufferActsAsQueue == Spec => QueueButForThree
<1>1. IndexesInside /\ [Next]_vars =>
        [ResizesAfterRead \/ FillsToEnd \/ SkipsToEnd \/ QueueStep]_vars
  BY CallStep
<1> QED BY <1>1, IndexesAlwaysInside, PTL DEF Spec, QueueButForThree
=============================================================================
