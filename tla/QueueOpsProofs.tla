--------------------------- MODULE QueueOpsProofs ---------------------------
EXTENDS QueueOps, SequenceTheorems, TLAPS

(* Elements and Distinct under push, pop and concatenation. *)

(* The two operators over the indices 1 .. Len(s). *)
LEMMA ElementsByIndex ==
  ASSUME NEW S, NEW s \in Seq(S)
  PROVE  /\ \A x : x \in Elements(s) <=> \E i \in 1 .. Len(s) : s[i] = x
         /\ Elements(s) \subseteq S
         /\ Distinct(s) <=>
              \A i, j \in 1 .. Len(s) : s[i] = s[j] => i = j
<1>1. DOMAIN s = 1 .. Len(s) /\ \A i \in 1 .. Len(s) : s[i] \in S
  BY LenProperties, ElementOfSeq
<1> QED BY <1>1 DEF Elements, Distinct

(* An empty queue has no element. *)
LEMMA ElementsEmpty == Elements(<<>>) = {} /\ Distinct(<<>>)
BY DEF Elements, Distinct

(* A push adds one element. *)
LEMMA ElementsAppend ==
  ASSUME NEW S, NEW s \in Seq(S), NEW x \in S
  PROVE  /\ Append(s, x) \in Seq(S)
         /\ Elements(Append(s, x)) = Elements(s) \cup {x}
         /\ Distinct(s) /\ x \notin Elements(s) => Distinct(Append(s, x))
<1> DEFINE a == Append(s, x)
<1>1. /\ a \in Seq(S) /\ Len(a) = Len(s) + 1 /\ Len(s) \in Nat
      /\ \A i \in 1 .. Len(s) : a[i] = s[i]
      /\ a[Len(s) + 1] = x
  BY AppendProperties, LenProperties
<1>2. \A i \in 1 .. Len(a) : i \in 1 .. Len(s) \/ i = Len(s) + 1
  BY <1>1
<1>3. \A i \in 1 .. Len(s) : i \in 1 .. Len(a)
  BY <1>1
<1>4. Len(s) + 1 \in 1 .. Len(a)
  BY <1>1
<1> HIDE DEF a
<1>5. Elements(a) = Elements(s) \cup {x}
  BY <1>1, <1>2, <1>3, <1>4, ElementsByIndex
<1>6. ASSUME Distinct(s), x \notin Elements(s)
      PROVE  Distinct(a)
  BY <1>1, <1>2, <1>6, ElementsByIndex
<1> QED BY <1>1, <1>5, <1>6 DEF a

(* A pop removes the head and nothing else. *)
LEMMA ElementsTail ==
  ASSUME NEW S, NEW s \in Seq(S), s # <<>>
  PROVE  /\ Head(s) \in S
         /\ Tail(s) \in Seq(S)
         /\ Elements(s) = {Head(s)} \cup Elements(Tail(s))
         /\ Distinct(s) => Distinct(Tail(s)) /\ Head(s) \notin Elements(Tail(s))
<1>1. /\ Head(s) = s[1]  /\ Tail(s) \in Seq(S) /\ Len(s) \in Nat \ {0}
      /\ Len(Tail(s)) = Len(s) - 1
      /\ \A i \in 1 .. Len(Tail(s)) : Tail(s)[i] = s[i + 1]
      /\ s[1] \in S
  BY HeadTailProperties, EmptySeq, ElementOfSeq
<1>2. Elements(s) \subseteq {Head(s)} \cup Elements(Tail(s))
  <2>1. SUFFICES ASSUME NEW i \in 1 .. Len(s), i # 1
                 PROVE  s[i] \in Elements(Tail(s))
    BY <1>1 DEF Elements
  <2>2. i - 1 \in 1 .. Len(Tail(s)) /\ Tail(s)[i - 1] = s[i]
    BY <1>1, <2>1
  <2> QED BY <1>1, <2>2, LenProperties DEF Elements
<1>3. {Head(s)} \cup Elements(Tail(s)) \subseteq Elements(s)
  <2>1. \A i \in 1 .. Len(Tail(s)) : i + 1 \in 1 .. Len(s)
    BY <1>1
  <2> QED BY <1>1, <2>1, LenProperties DEF Elements
<1>4. ASSUME Distinct(s)
      PROVE  Distinct(Tail(s)) /\ Head(s) \notin Elements(Tail(s))
  <2>1. ASSUME NEW i \in 1 .. Len(Tail(s)), NEW j \in 1 .. Len(Tail(s)),
               Tail(s)[i] = Tail(s)[j]
        PROVE  i = j
    <3>1. s[i + 1] = s[j + 1] /\ i + 1 \in 1 .. Len(s) /\ j + 1 \in 1 .. Len(s)
      BY <1>1, <2>1
    <3>2. i + 1 = j + 1
      BY <1>4, <3>1 DEF Distinct
    <3> QED BY <3>2
  <2>2. ASSUME NEW i \in 1 .. Len(Tail(s)), Tail(s)[i] = Head(s)
        PROVE  FALSE
    <3>1. s[i + 1] = s[1] /\ i + 1 \in 1 .. Len(s) /\ 1 \in 1 .. Len(s)
      BY <1>1, <2>2
    <3>2. i + 1 = 1
      BY <1>4, <3>1 DEF Distinct
    <3> QED BY <3>2
  <2>3. DOMAIN Tail(s) = 1 .. Len(Tail(s))
    BY <1>1, LenProperties
  <2> QED BY <2>1, <2>2, <2>3 DEF Distinct, Elements
<1> QED BY <1>1, <1>2, <1>3, <1>4

(* Two duplicate-free sequences without a common element, put together. *)
LEMMA DistinctConcat ==
  ASSUME NEW S, NEW s \in Seq(S), NEW t \in Seq(S),
         Distinct(s), Distinct(t), Elements(s) \cap Elements(t) = {}
  PROVE  /\ Distinct(s \o t)
         /\ Elements(s \o t) = Elements(s) \cup Elements(t)
<1>1. /\ s \o t \in Seq(S) /\ Len(s \o t) = Len(s) + Len(t)
      /\ Len(s) \in Nat /\ Len(t) \in Nat
      /\ DOMAIN (s \o t) = 1 .. Len(s) + Len(t)
      /\ \A i \in 1 .. Len(s) + Len(t) :
           (s \o t)[i] = IF i <= Len(s) THEN s[i] ELSE t[i - Len(s)]
  BY ConcatProperties, LenProperties
<1>2. \A i \in 1 .. Len(s) + Len(t) :
        \/ i \in 1 .. Len(s) /\ (s \o t)[i] = s[i]
        \/ i \notin 1 .. Len(s) /\ i - Len(s) \in 1 .. Len(t)
             /\ (s \o t)[i] = t[i - Len(s)]
  BY <1>1
<1>3. \A i \in 1 .. Len(s) : i \in 1 .. Len(s) + Len(t) /\ (s \o t)[i] = s[i]
  BY <1>1
<1>4. \A i \in 1 .. Len(t) : /\ Len(s) + i \in 1 .. Len(s) + Len(t)
                             /\ (s \o t)[Len(s) + i] = t[i]
  BY <1>1
<1>5. Distinct(s \o t)
  <2>1. SUFFICES ASSUME NEW i \in 1 .. Len(s) + Len(t),
                        NEW j \in 1 .. Len(s) + Len(t),
                        (s \o t)[i] = (s \o t)[j]
                 PROVE  i = j
    BY <1>1 DEF Distinct
  <2>2. CASE i \in 1 .. Len(s) /\ j \in 1 .. Len(s)
    BY <1>3, <2>1, <2>2, LenProperties DEF Distinct
  <2>3. CASE i \notin 1 .. Len(s) /\ j \notin 1 .. Len(s)
    <3>1. i - Len(s) = j - Len(s)
      BY <1>2, <2>1, <2>3, LenProperties DEF Distinct
    <3> QED BY <3>1, <1>1
  <2>4. ASSUME NEW k \in 1 .. Len(s), NEW l \in 1 .. Len(t), s[k] = t[l]
        PROVE  FALSE
    <3>1. s[k] \in Elements(s)
      BY LenProperties DEF Elements
    <3>2. t[l] \in Elements(t)
      BY LenProperties DEF Elements
    <3> QED BY <2>4, <3>1, <3>2
  <2>5. CASE i \in 1 .. Len(s) /\ j \notin 1 .. Len(s)
    <3>1. (s \o t)[i] = s[i]
      BY <1>3, <2>5
    <3>2. j - Len(s) \in 1 .. Len(t) /\ (s \o t)[j] = t[j - Len(s)]
      BY <1>2, <2>5
    <3> QED BY <2>1, <2>4, <2>5, <3>1, <3>2
  <2>6. CASE i \notin 1 .. Len(s) /\ j \in 1 .. Len(s)
    <3>1. (s \o t)[j] = s[j]
      BY <1>3, <2>6
    <3>2. i - Len(s) \in 1 .. Len(t) /\ (s \o t)[i] = t[i - Len(s)]
      BY <1>2, <2>6
    <3> QED BY <2>1, <2>4, <2>6, <3>1, <3>2
  <2> QED BY <2>2, <2>3, <2>5, <2>6
<1>6. Elements(s \o t) = Elements(s) \cup Elements(t)
  <2>1. Elements(s \o t) \subseteq Elements(s) \cup Elements(t)
    BY <1>1, <1>2, LenProperties DEF Elements
  <2>2. Elements(s) \subseteq Elements(s \o t)
    BY <1>1, <1>3, LenProperties DEF Elements
  <2>3. Elements(t) \subseteq Elements(s \o t)
    <3>1. SUFFICES ASSUME NEW i \in 1 .. Len(t)
                   PROVE  t[i] \in Elements(s \o t)
      BY ElementsByIndex
    <3>2. \A k \in 1 .. Len(s \o t) : (s \o t)[k] \in Elements(s \o t)
      BY <1>1, ElementsByIndex
    <3> QED BY <1>1, <1>4, <3>2
  <2> QED BY <2>1, <2>2, <2>3
<1> QED BY <1>5, <1>6
=============================================================================
