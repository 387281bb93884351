-------------------------- MODULE EventQueueProofs --------------------------
(***************************************************************************)
(* Facts about the sequences of EventQueue: what a sequence holds, whether *)
(* only once and in which order, when it is put together, cut, or an       *)
(* element is put in or taken out.                                         *)
(***************************************************************************)
EXTENDS EventQueue, SequenceTheorems, TLAPS

(* Taking an element of a sequence out, or putting one in, keeps its type.   *)
LEMMA InsertType ==
  ASSUME NEW S, NEW s \in Seq(S), NEW e \in S, NEW at \in 0..Len(s)
  PROVE  InsertAt(s, at + 1, e) \in Seq(S)
<1>1. Len(s) \in Nat /\ \A i \in 1..Len(s) : s[i] \in S
  BY LenProperties, ElementOfSeq
<1>2. SubSeq(s, 1, (at + 1) - 1) \in Seq(S) /\ SubSeq(s, at + 1, Len(s)) \in Seq(S)
  <2>1. \A i \in 1..((at + 1) - 1) : s[i] \in S
    BY <1>1
  <2>2. \A i \in (at + 1)..Len(s) : s[i] \in S
    BY <1>1
  <2> QED
    BY <1>1, <2>1, <2>2, SubSeqProperties
<1> QED
  BY <1>2 DEF InsertAt

LEMMA WithoutType ==
  ASSUME NEW S, NEW s \in Seq(S), NEW e
  PROVE  Without(s, e) \in Seq(S)
<1>1. Len(s) \in Nat /\ DOMAIN s = 1..Len(s) /\ \A i \in 1..Len(s) : s[i] \in S
  BY LenProperties, ElementOfSeq
<1>2. ASSUME NEW i \in 1..Len(s) PROVE RemoveAt(s, i) \in Seq(S)
  <2>1. SubSeq(s, 1, i - 1) \in Seq(S) /\ SubSeq(s, i + 1, Len(s)) \in Seq(S)
    <3>1. \A j \in 1..(i - 1) : s[j] \in S
      BY <1>1
    <3>2. \A j \in (i + 1)..Len(s) : s[j] \in S
      BY <1>1
    <3> QED
      BY <1>1, <3>1, <3>2, SubSeqProperties
  <2> QED
    BY <2>1 DEF RemoveAt
<1>3. CASE OccursIn(s, e)
  <2>1. (CHOOSE i \in DOMAIN s : s[i] = e) \in 1..Len(s)
    BY <1>1, <1>3 DEF OccursIn
  <2> QED
    BY <1>2, <1>3, <2>1 DEF Without
<1>4. CASE ~OccursIn(s, e)
  BY <1>4 DEF Without
<1> QED
  BY <1>3, <1>4

LEMMA EmptyLen ==
  ASSUME NEW S, NEW s \in Seq(S)
  PROVE  Len(s) \in Nat /\ (s = <<>> <=> Len(s) = 0)
  BY EmptySeq, LenProperties

LEMMA WithoutEmpty == \A e : Without(<<>>, e) = <<>>
  BY DEF Without, OccursIn

-----------------------------------------------------------------------------
(* What a sequence holds, in which order, and whether only once.             *)

LEMMA Contents ==
  ASSUME NEW S, NEW s \in Seq(S)
  PROVE  /\ Range(s) \subseteq S
         /\ \A e : e \in Range(s) <=> \E i \in 1..Len(s) : s[i] = e
         /\ \A e : OccursIn(s, e) <=> e \in Range(s)
<1>1. Len(s) \in Nat /\ DOMAIN s = 1..Len(s) /\ \A i \in 1..Len(s) : s[i] \in S
  BY LenProperties, ElementOfSeq
<1> QED
  BY <1>1 DEF Range, OccursIn

LEMMA EmptyContents ==
  /\ Range(<<>>) = {} /\ Once(<<>>) /\ \A e, f : ~Before(<<>>, e, f)
  BY DEF Range, Once, Before

LEMMA SingleContents ==
  ASSUME NEW x
  PROVE  /\ Range(<<x>>) = {x} /\ Once(<<x>>) /\ \A e, f : ~Before(<<x>>, e, f)
<1>1. <<x>> \in Seq({x}) /\ Len(<<x>>) = 1 /\ <<x>>[1] = x /\ DOMAIN <<x>> = 1..1
  OBVIOUS
<1>2. \A i \in DOMAIN <<x>> : i = 1
  BY <1>1
<1> QED
  BY <1>1, <1>2 DEF Range, Once, Before

(* Two sequences, one behind the other.                                      *)
LEMMA ConcatContents ==
  ASSUME NEW S, NEW s \in Seq(S), NEW t \in Seq(S)
  PROVE  /\ Range(s \o t) = Range(s) \cup Range(t)
         /\ Once(s \o t) <=> Once(s) /\ Once(t) /\ Range(s) \cap Range(t) = {}
         /\ \A e, f : Before(s \o t, e, f) <=>
              \/ Before(s, e, f) \/ Before(t, e, f)
              \/ (e \in Range(s) /\ f \in Range(t))
<1> DEFINE u == s \o t
           m == Len(s)
           n == Len(t)
<1>1. /\ m \in Nat /\ n \in Nat /\ DOMAIN s = 1..m /\ DOMAIN t = 1..n
      /\ DOMAIN u = 1..(m + n)
  BY LenProperties, ConcatProperties
<1>2. /\ \A i \in 1..m : i \in 1..(m + n) /\ u[i] = s[i]
      /\ \A i \in 1..n : i + m \in 1..(m + n) /\ u[i + m] = t[i]
      /\ \A i \in 1..(m + n) : i > m => i - m \in 1..n /\ u[i] = t[i - m]
  BY <1>1, ConcatProperties
<1> HIDE DEF u, m, n
<1>3. Range(u) = Range(s) \cup Range(t)
  <2>1. ASSUME NEW e \in Range(u) PROVE e \in Range(s) \cup Range(t)
    <3>1. PICK i \in 1..(m + n) : u[i] = e
      BY <1>1, <2>1 DEF Range
    <3>2. CASE i <= m
      <4>1. i \in 1..m
        BY <1>1, <3>2
      <4> QED
        BY <1>1, <1>2, <3>1, <4>1 DEF Range
    <3>3. CASE i > m
      <4>1. i - m \in 1..n /\ t[i - m] = e
        BY <1>2, <3>1, <3>3
      <4> QED
        BY <1>1, <4>1 DEF Range
    <3> QED
      BY <1>1, <3>2, <3>3
  <2>2. ASSUME NEW i \in 1..m PROVE s[i] \in Range(u)
    BY <1>1, <1>2 DEF Range
  <2>3. ASSUME NEW i \in 1..n PROVE t[i] \in Range(u)
    <3>1. i + m \in DOMAIN u /\ u[i + m] = t[i]
      BY <1>1, <1>2
    <3> QED
      BY <3>1 DEF Range
  <2> QED
    BY <1>1, <2>1, <2>2, <2>3 DEF Range
<1>4. ASSUME Once(u) PROVE Once(s) /\ Once(t) /\ Range(s) \cap Range(t) = {}
  <2>1. Once(s)
    BY <1>1, <1>2, <1>4 DEF Once
  <2>2. Once(t)
    <3> SUFFICES ASSUME NEW i \in 1..n, NEW j \in 1..n, t[i] = t[j] PROVE i = j
      BY <1>1 DEF Once
    <3>1. u[i + m] = u[j + m] /\ i + m \in DOMAIN u /\ j + m \in DOMAIN u
      BY <1>1, <1>2
    <3>2. i + m = j + m
      BY <1>4, <3>1 DEF Once
    <3> QED
      BY <1>1, <3>2
  <2>3. ASSUME NEW i \in 1..m, NEW j \in 1..n PROVE s[i] # t[j]
    <3>1. /\ i \in DOMAIN u /\ u[i] = s[i]
          /\ j + m \in DOMAIN u /\ u[j + m] = t[j] /\ i # j + m
      BY <1>1, <1>2
    <3> QED
      BY <1>4, <3>1 DEF Once
  <2> QED
    BY <1>1, <2>1, <2>2, <2>3 DEF Range
<1>5. ASSUME Once(s), Once(t), Range(s) \cap Range(t) = {} PROVE Once(u)
  <2> SUFFICES ASSUME NEW i \in 1..(m + n), NEW j \in 1..(m + n), u[i] = u[j] PROVE i = j
    BY <1>1 DEF Once
  <2>1. CASE i <= m /\ j <= m
    <3>1. i \in 1..m /\ j \in 1..m
      BY <1>1, <2>1
    <3> QED
      BY <1>1, <1>2, <1>5, <3>1 DEF Once
  <2>2. CASE i > m /\ j > m
    <3>1. i - m \in DOMAIN t /\ j - m \in DOMAIN t /\ t[i - m] = t[j - m]
      BY <1>1, <1>2, <2>2
    <3>2. i - m = j - m
      BY <1>5, <3>1 DEF Once
    <3> QED
      BY <1>1, <3>2
  <2>3. ASSUME NEW k \in 1..(m + n), NEW l \in 1..(m + n), k <= m, l > m PROVE u[k] # u[l]
    <3>1. k \in DOMAIN s /\ u[k] = s[k] /\ l - m \in DOMAIN t /\ u[l] = t[l - m]
      <4>1. k \in 1..m
        BY <1>1, <2>3
      <4> QED
        BY <1>1, <1>2, <2>3, <4>1
    <3>2. s[k] \in Range(s) /\ t[l - m] \in Range(t)
      BY <3>1 DEF Range
    <3> QED
      BY <1>5, <3>1, <3>2
  <2> QED
    BY <1>1, <2>1, <2>2, <2>3
<1>6. ASSUME NEW e, NEW f
      PROVE  Before(u, e, f) <=> \/ Before(s, e, f) \/ Before(t, e, f)
                                 \/ (e \in Range(s) /\ f \in Range(t))
  <2>1. ASSUME Before(u, e, f)
        PROVE  \/ Before(s, e, f) \/ Before(t, e, f) \/ (e \in Range(s) /\ f \in Range(t))
    <3>1. PICK i \in 1..(m + n), j \in 1..(m + n) : i < j /\ u[i] = e /\ u[j] = f
      BY <1>1, <2>1 DEF Before
    <3>2. CASE j <= m
      <4>1. i \in 1..m /\ j \in 1..m
        BY <1>1, <3>1, <3>2
      <4>2. i \in DOMAIN s /\ j \in DOMAIN s /\ i < j /\ s[i] = e /\ s[j] = f
        BY <1>1, <1>2, <3>1, <4>1
      <4>3. Before(s, e, f)
        BY <4>2 DEF Before
      <4> QED
        BY <4>3
    <3>3. CASE i > m
      <4>1. /\ i - m \in DOMAIN t /\ j - m \in DOMAIN t /\ i - m < j - m
            /\ t[i - m] = e /\ t[j - m] = f
        BY <1>1, <1>2, <3>1, <3>3
      <4>2. Before(t, e, f)
        BY <4>1 DEF Before
      <4> QED
        BY <4>2
    <3>4. CASE i <= m /\ j > m
      <4>1. i \in 1..m /\ j - m \in 1..n /\ s[i] = e /\ t[j - m] = f
        BY <1>1, <1>2, <3>1, <3>4
      <4> QED
        BY <1>1, <4>1 DEF Range
    <3> QED
      BY <1>1, <3>2, <3>3, <3>4
  <2>2. ASSUME Before(s, e, f) PROVE Before(u, e, f)
    BY <1>1, <1>2, <2>2 DEF Before
  <2>3. ASSUME Before(t, e, f) PROVE Before(u, e, f)
    <3>1. PICK i \in 1..n, j \in 1..n : i < j /\ t[i] = e /\ t[j] = f
      BY <1>1, <2>3 DEF Before
    <3>2. /\ i + m \in DOMAIN u /\ j + m \in DOMAIN u /\ i + m < j + m
          /\ u[i + m] = e /\ u[j + m] = f
      BY <1>1, <1>2, <3>1
    <3> QED
      BY <3>2 DEF Before
  <2>4. ASSUME e \in Range(s), f \in Range(t) PROVE Before(u, e, f)
    <3>1. PICK i \in 1..m : s[i] = e
      BY <1>1, <2>4 DEF Range
    <3>2. PICK j \in 1..n : t[j] = f
      BY <1>1, <2>4 DEF Range
    <3>3. /\ i \in DOMAIN u /\ j + m \in DOMAIN u /\ i < j + m
          /\ u[i] = e /\ u[j + m] = f
      BY <1>1, <1>2, <3>1, <3>2
    <3> QED
      BY <3>3 DEF Before
  <2> QED
    BY <2>1, <2>2, <2>3, <2>4
<1> QED
  BY <1>3, <1>4, <1>5, <1>6 DEF u

(* A sequence cut in two.                                                    *)
LEMMA CutContents ==
  ASSUME NEW S, NEW s \in Seq(S), NEW n \in 0..Len(s)
  PROVE  /\ SubSeq(s, 1, n) \in Seq(S) /\ SubSeq(s, n + 1, Len(s)) \in Seq(S)
         /\ s = SubSeq(s, 1, n) \o SubSeq(s, n + 1, Len(s))
<1>1. Len(s) \in Nat /\ \A i \in 1..Len(s) : s[i] \in S
  BY LenProperties, ElementOfSeq
<1>2. 1 \in 1..(Len(s) + 1) /\ n \in (1 - 1)..Len(s) /\ Len(s) \in n..Len(s)
  BY <1>1
<1>3. SubSeq(s, 1, n) \o SubSeq(s, n + 1, Len(s)) = SubSeq(s, 1, Len(s))
  BY <1>2, ConcatAdjacentSubSeq
<1>4. SubSeq(s, 1, Len(s)) = s
  BY SubSeqFull
<1>5. SubSeq(s, 1, n) \in Seq(S) /\ SubSeq(s, n + 1, Len(s)) \in Seq(S)
  BY <1>1, SubSeqProperties
<1> QED
  BY <1>3, <1>4, <1>5

LEMMA TailContents ==
  ASSUME NEW S, NEW s \in Seq(S), s # <<>>
  PROVE  /\ Head(s) \in S /\ Tail(s) \in Seq(S)
         /\ Range(s) = {Head(s)} \cup Range(Tail(s))
         /\ Once(s) <=> Once(Tail(s)) /\ Head(s) \notin Range(Tail(s))
         /\ \A e, f : Before(s, e, f)
              <=> Before(Tail(s), e, f) \/ (e = Head(s) /\ f \in Range(Tail(s)))
<1>1. Head(s) \in S /\ Tail(s) \in Seq(S) /\ Tail(s) = SubSeq(s, 2, Len(s))
  BY HeadTailProperties, TailIsSubSeq
<1>2. Len(s) \in Nat /\ Len(s) # 0
  BY EmptyLen
<1>3. 1 \in 1..Len(s) /\ Len(s) \in 1..Len(s)
  BY <1>2
<1>4. SubSeq(s, 1, Len(s)) = <<s[1]>> \o SubSeq(s, 1 + 1, Len(s))
  BY <1>3, SubSeqRecursiveFirst
<1>5. s = <<Head(s)>> \o Tail(s)
  BY <1>1, <1>4, SubSeqFull
<1>6. <<Head(s)>> \in Seq(S)
  BY <1>1
<1> DEFINE h == <<Head(s)>>
           t == Tail(s)
<1> HIDE DEF h, t
<1>7. s = h \o t /\ h \in Seq(S) /\ t \in Seq(S)
  BY <1>1, <1>5, <1>6 DEF h, t
<1>8. /\ Range(s) = Range(h) \cup Range(t)
      /\ Once(s) <=> Once(h) /\ Once(t) /\ Range(h) \cap Range(t) = {}
      /\ \A e, f : Before(s, e, f) <=>
           \/ Before(h, e, f) \/ Before(t, e, f)
           \/ (e \in Range(h) /\ f \in Range(t))
  BY <1>7, ConcatContents
<1>9. Range(h) = {Head(s)} /\ Once(h) /\ \A e, f : ~Before(h, e, f)
  BY SingleContents DEF h
<1> QED
  BY <1>1, <1>8, <1>9 DEF t

LEMMA AppendContents ==
  ASSUME NEW S, NEW s \in Seq(S), NEW x \in S
  PROVE  /\ Append(s, x) \in Seq(S) /\ Range(Append(s, x)) = Range(s) \cup {x}
         /\ Once(Append(s, x)) <=> Once(s) /\ x \notin Range(s)
         /\ \A e, f : Before(Append(s, x), e, f)
              <=> Before(s, e, f) \/ (e \in Range(s) /\ f = x)
<1> DEFINE l == <<x>>
<1>1. Append(s, x) \in Seq(S) /\ Append(s, x) = s \o l /\ l \in Seq(S)
  BY AppendProperties, AppendIsConcat
<1>2. Range(l) = {x} /\ Once(l) /\ \A e, f : ~Before(l, e, f)
  BY SingleContents
<1> HIDE DEF l
<1>3. /\ Range(s \o l) = Range(s) \cup Range(l)
      /\ Once(s \o l) <=> Once(s) /\ Once(l) /\ Range(s) \cap Range(l) = {}
      /\ \A e, f : Before(s \o l, e, f) <=>
           \/ Before(s, e, f) \/ Before(l, e, f)
           \/ (e \in Range(s) /\ f \in Range(l))
  BY <1>1, ConcatContents
<1> QED
  BY <1>1, <1>2, <1>3

(* An element put in keeps the order of the others.                          *)
LEMMA InsertContents ==
  ASSUME NEW S, NEW s \in Seq(S), NEW x \in S, NEW at \in 0..Len(s)
  PROVE  LET u == InsertAt(s, at + 1, x) IN
         /\ u \in Seq(S) /\ Range(u) = Range(s) \cup {x}
         /\ Once(s) /\ x \notin Range(s) => Once(u)
         /\ \A e, f : Before(s, e, f) => Before(u, e, f)
<1> DEFINE u == InsertAt(s, at + 1, x)
           a == SubSeq(s, 1, at)
           b == SubSeq(s, at + 1, Len(s))
           l == <<x>>
           c == a \o l
<1>1. a \in Seq(S) /\ b \in Seq(S) /\ s = a \o b /\ l \in Seq(S)
  <2>1. l \in Seq(S)
    OBVIOUS
  <2> HIDE DEF l
  <2> QED
    BY <2>1, CutContents
<1>2. c \in Seq(S) /\ u \in Seq(S) /\ u = c \o b
  <2>1. (at + 1) - 1 = at
    OBVIOUS
  <2>2. u = c \o b
    BY <2>1 DEF InsertAt
  <2> HIDE DEF u, a, b, l
  <2>3. c \in Seq(S)
    BY <1>1, ConcatProperties
  <2> HIDE DEF c
  <2> QED
    BY <1>1, <2>2, <2>3, ConcatProperties
<1>3. Range(l) = {x} /\ Once(l) /\ \A e, f : ~Before(l, e, f)
  BY SingleContents
<1>4. c = a \o l
  OBVIOUS
<1> HIDE DEF u, a, b, l, c
<1>5. /\ Range(s) = Range(a) \cup Range(b)
      /\ Once(s) => Once(a) /\ Once(b) /\ Range(a) \cap Range(b) = {}
      /\ \A e, f : Before(s, e, f) =>
           \/ Before(a, e, f) \/ Before(b, e, f)
           \/ (e \in Range(a) /\ f \in Range(b))
  BY <1>1, ConcatContents
<1>6. /\ Range(c) = Range(a) \cup {x}
      /\ Once(a) /\ x \notin Range(a) => Once(c)
      /\ \A e, f : Before(a, e, f) => Before(c, e, f)
  BY <1>1, <1>3, <1>4, ConcatContents
<1>7. /\ Range(u) = Range(c) \cup Range(b)
      /\ Once(c) /\ Once(b) /\ Range(c) \cap Range(b) = {} => Once(u)
      /\ \A e, f : \/ Before(c, e, f) \/ Before(b, e, f)
                   \/ (e \in Range(c) /\ f \in Range(b))
                   => Before(u, e, f)
  BY <1>1, <1>2, ConcatContents
<1>8. Range(u) = Range(s) \cup {x}
  BY <1>5, <1>6, <1>7
<1>9. ASSUME Once(s), x \notin Range(s) PROVE Once(u)
  BY <1>5, <1>6, <1>7, <1>9
<1>10. ASSUME NEW e, NEW f, Before(s, e, f) PROVE Before(u, e, f)
  BY <1>5, <1>6, <1>7, <1>10
<1> QED
  BY <1>2, <1>8, <1>9, <1>10 DEF u

(* An element taken out leaves the others in their order.                    *)
LEMMA WithoutContents ==
  ASSUME NEW S, NEW s \in Seq(S), NEW x, Once(s)
  PROVE  LET u == Without(s, x) IN
         /\ u \in Seq(S) /\ Range(u) = Range(s) \ {x} /\ Once(u)
         /\ \A e, f : Before(s, e, f) /\ e # x /\ f # x => Before(u, e, f)
<1>1. OccursIn(s, x) <=> x \in Range(s)
  BY Contents
<1>2. CASE ~OccursIn(s, x)
  <2>1. Without(s, x) = s /\ x \notin Range(s)
    BY <1>1, <1>2 DEF Without
  <2> QED
    BY <2>1
<1>3. CASE OccursIn(s, x)
  <2> DEFINE at == CHOOSE i \in DOMAIN s : s[i] = x
             u == Without(s, x)
             a == SubSeq(s, 1, at - 1)
             m == SubSeq(s, at, Len(s))
             b == SubSeq(s, at + 1, Len(s))
             l == <<x>>
  <2>1. at \in DOMAIN s /\ s[at] = x
    BY <1>3 DEF OccursIn
  <2> HIDE DEF at
  <2>2. Len(s) \in Nat /\ DOMAIN s = 1..Len(s) /\ at \in 1..Len(s) /\ at - 1 \in 0..Len(s)
        /\ Len(s) \in at..Len(s)
    BY <2>1, LenProperties
  <2>3. x \in S /\ l \in Seq(S)
    BY <2>1, <2>2, ElementOfSeq
  <2>4. u = a \o b
    BY <1>3 DEF Without, RemoveAt, at
  <2>5. a \in Seq(S) /\ m \in Seq(S) /\ s = a \o m
    <3>1. (at - 1) + 1 = at
      BY <2>2
    <3> QED
      BY <2>2, <3>1, CutContents
  <2>6. m = l \o b
    BY <2>1, <2>2, SubSeqRecursiveFirst
  <2>7. b \in Seq(S)
    <3>1. \A i \in (at + 1)..Len(s) : s[i] \in S
      BY <2>2, ElementOfSeq
    <3> QED
      BY <2>2, <3>1, SubSeqProperties
  <2>8. u \in Seq(S)
    BY <2>4, <2>5, <2>7, ConcatProperties
  <2>9. Range(l) = {x} /\ Once(l) /\ \A e, f : ~Before(l, e, f)
    BY SingleContents
  <2> HIDE DEF u, a, m, b, l
  <2>10. /\ Range(s) = Range(a) \cup Range(m)
         /\ Once(a) /\ Once(m) /\ Range(a) \cap Range(m) = {}
         /\ \A e, f : Before(s, e, f) =>
              \/ Before(a, e, f) \/ Before(m, e, f)
              \/ (e \in Range(a) /\ f \in Range(m))
    BY <2>5, ConcatContents
  <2>11. /\ Range(m) = {x} \cup Range(b)
         /\ Once(b) /\ x \notin Range(b)
         /\ \A e, f : Before(m, e, f) /\ e # x => Before(b, e, f)
    BY <2>3, <2>6, <2>7, <2>9, <2>10, ConcatContents
  <2>12. /\ Range(u) = Range(a) \cup Range(b)
         /\ Once(a) /\ Once(b) /\ Range(a) \cap Range(b) = {} => Once(u)
         /\ \A e, f : \/ Before(a, e, f) \/ Before(b, e, f)
                      \/ (e \in Range(a) /\ f \in Range(b))
                      => Before(u, e, f)
    BY <2>4, <2>5, <2>7, ConcatContents
  <2>13. Range(u) = Range(s) \ {x} /\ Once(u)
    BY <2>10, <2>11, <2>12
  <2>14. ASSUME NEW e, NEW f, Before(s, e, f), e # x, f # x PROVE Before(u, e, f)
    BY <2>10, <2>11, <2>12, <2>14
  <2> QED
    BY <2>8, <2>13, <2>14 DEF u
<1> QED
  BY <1>2, <1>3

LEMMA ThreeContents ==
  ASSUME NEW S, NEW d \in Seq(S), NEW b \in Seq(S), NEW q \in Seq(S)
  PROVE  LET p == d \o b \o q IN
         /\ p \in Seq(S) /\ Range(p) = Range(d) \cup Range(b) \cup Range(q)
         /\ Once(p) <=> /\ Once(d) /\ Once(b) /\ Once(q)
                        /\ Range(d) \cap Range(b) = {} /\ Range(d) \cap Range(q) = {}
                        /\ Range(b) \cap Range(q) = {}
         /\ \A e, f : Before(p, e, f) <=>
              \/ Before(d, e, f) \/ Before(b, e, f) \/ Before(q, e, f)
              \/ (e \in Range(d) /\ f \in Range(b) \cup Range(q))
              \/ (e \in Range(b) /\ f \in Range(q))
<1> DEFINE c == d \o b
           p == c \o q
<1>1. c \in Seq(S)
  BY ConcatProperties
<1>2. /\ Range(c) = Range(d) \cup Range(b)
      /\ Once(c) <=> Once(d) /\ Once(b) /\ Range(d) \cap Range(b) = {}
      /\ \A e, f : Before(c, e, f) <=>
           \/ Before(d, e, f) \/ Before(b, e, f)
           \/ (e \in Range(d) /\ f \in Range(b))
  BY ConcatContents
<1> HIDE DEF c
<1>3. p \in Seq(S)
  BY <1>1, ConcatProperties
<1>4. /\ Range(p) = Range(c) \cup Range(q)
      /\ Once(p) <=> Once(c) /\ Once(q) /\ Range(c) \cap Range(q) = {}
      /\ \A e, f : Before(p, e, f) <=>
           \/ Before(c, e, f) \/ Before(q, e, f)
           \/ (e \in Range(c) /\ f \in Range(q))
  BY <1>1, ConcatContents
<1> HIDE DEF p
<1>5. Range(p) = Range(d) \cup Range(b) \cup Range(q)
  BY <1>2, <1>4
<1>6. Once(p) <=> /\ Once(d) /\ Once(b) /\ Once(q)
                  /\ Range(d) \cap Range(b) = {} /\ Range(d) \cap Range(q) = {}
                  /\ Range(b) \cap Range(q) = {}
  BY <1>2, <1>4
<1>7. \A e, f : Before(p, e, f) <=>
        \/ Before(d, e, f) \/ Before(b, e, f) \/ Before(q, e, f)
        \/ (e \in Range(d) /\ f \in Range(b) \cup Range(q))
        \/ (e \in Range(b) /\ f \in Range(q))
  BY <1>2, <1>4
<1> QED
  BY <1>3, <1>5, <1>6, <1>7 DEF p, c
=============================================================================
