----------------------------- MODULE SeqLemmas -----------------------------
(***************************************************************************)
(* What appending to, popping from, cutting an element out of and joining  *)
(* Go slices does to the set of their elements and to the absence of       *)
(* duplicates.  The broker's queues and consumer lists are such slices.    *)
(***************************************************************************)
EXTENDS Slices, SequenceTheorems, FiniteSetTheorems, TLAPS

\* append(s, x): one more element; still no duplicates if x was not there.
LEMMA RangeAppend ==
  ASSUME NEW S, NEW s \in Seq(S), NEW x \in S
  PROVE  /\ Append(s, x) \in Seq(S)
         /\ Range(Append(s, x)) = Range(s) \cup {x}
         /\ IsInjective(s) /\ x \notin Range(s) => IsInjective(Append(s, x))
  <1> DEFINE t == Append(s, x)
  <1>1. /\ t \in Seq(S) /\ Len(t) = Len(s) + 1
        /\ \A i \in 1 .. Len(s) : t[i] = s[i]
        /\ t[Len(s) + 1] = x
    BY AppendProperties
  <1> HIDE DEF t
  <1>2. DOMAIN t = 1 .. Len(s) + 1 /\ DOMAIN s = 1 .. Len(s) /\ Len(s) \in Nat
    BY <1>1
  <1>3. \A y \in Range(t) : y \in Range(s) \cup {x}
    BY <1>1, <1>2 DEF Range
  <1>4. \A y \in Range(s) : y \in Range(t)
    BY <1>1, <1>2 DEF Range
  <1>5. x \in Range(t)
    BY <1>1, <1>2 DEF Range
  <1>6. IsInjective(s) /\ x \notin Range(s) => IsInjective(t)
    BY <1>1, <1>2 DEF Range, IsInjective
  <1> QED BY <1>1, <1>3, <1>4, <1>5, <1>6 DEF t

\* s[0] and s[1:]: popping the head.
LEMMA RangeTail ==
  ASSUME NEW S, NEW s \in Seq(S), s # << >>
  PROVE  /\ Head(s) \in S
         /\ Tail(s) \in Seq(S)
         /\ Range(s) = Range(Tail(s)) \cup {Head(s)}
         /\ IsInjective(s) => IsInjective(Tail(s)) /\ Head(s) \notin Range(Tail(s))
  <1> DEFINE t == Tail(s)
  <1>1. /\ t \in Seq(S) /\ Len(t) = Len(s) - 1
        /\ \A i \in 1 .. Len(t) : t[i] = s[i + 1]
        /\ Head(s) = s[1] /\ Head(s) \in S /\ Len(s) \in Nat \ {0}
    BY HeadTailProperties, EmptySeq
  <1> HIDE DEF t
  <1>2. DOMAIN t = 1 .. Len(s) - 1 /\ DOMAIN s = 1 .. Len(s) /\ Len(s) \in Nat
    BY <1>1
  <1>3. \A y \in Range(t) : y \in Range(s)
    BY <1>1, <1>2 DEF Range
  <1>4. ASSUME NEW i \in 1 .. Len(s) PROVE s[i] \in Range(t) \cup {Head(s)}
    <2>1. CASE i = 1
      BY <2>1, <1>1
    <2>2. CASE i # 1
      <3>1. i - 1 \in DOMAIN t /\ t[i - 1] = s[i]
        BY <2>2, <1>1, <1>2
      <3> QED BY <3>1 DEF Range
    <2> QED BY <2>1, <2>2
  <1>5. Head(s) \in Range(s)
    BY <1>1, <1>2 DEF Range
  <1>6. Range(s) = Range(t) \cup {Head(s)}
    BY <1>2, <1>3, <1>4, <1>5 DEF Range
  <1>7. ASSUME IsInjective(s) PROVE IsInjective(t) /\ Head(s) \notin Range(t)
    <2>1. ASSUME NEW i \in DOMAIN t PROVE i + 1 \in DOMAIN s /\ t[i] = s[i + 1]
      BY <1>1, <1>2
    <2>2. ASSUME NEW i \in DOMAIN t, NEW j \in DOMAIN t, t[i] = t[j] PROVE i = j
      <3>1. i + 1 = j + 1
        BY <1>7, <2>1, <2>2 DEF IsInjective
      <3> QED BY <3>1, <1>2
    <2>3. ASSUME NEW i \in DOMAIN t PROVE t[i] # Head(s)
      <3>1. 1 \in DOMAIN s /\ i + 1 # 1
        BY <1>1, <1>2
      <3> QED BY <1>1, <1>7, <2>1, <3>1 DEF IsInjective
    <2> QED BY <2>2, <2>3 DEF Range, IsInjective
  <1> QED BY <1>1, <1>6, <1>7 DEF t

\* append(s, t...): joining two slices.
LEMMA RangeConcat ==
  ASSUME NEW S, NEW s \in Seq(S), NEW t \in Seq(S)
  PROVE  /\ s \o t \in Seq(S)
         /\ Range(s \o t) = Range(s) \cup Range(t)
         /\ IsInjective(s) /\ IsInjective(t) /\ Range(s) \cap Range(t) = {}
              => IsInjective(s \o t)
  <1> DEFINE u == s \o t
  <1>1. /\ u \in Seq(S) /\ Len(u) = Len(s) + Len(t)
        /\ \A i \in 1 .. Len(u) : u[i] = IF i <= Len(s) THEN s[i] ELSE t[i - Len(s)]
    BY ConcatProperties
  <1> HIDE DEF u
  <1>2. /\ DOMAIN u = 1 .. Len(s) + Len(t) /\ DOMAIN s = 1 .. Len(s)
        /\ DOMAIN t = 1 .. Len(t) /\ Len(s) \in Nat /\ Len(t) \in Nat
    BY <1>1
  <1>3. ASSUME NEW i \in DOMAIN u PROVE u[i] \in Range(s) \cup Range(t)
    <2>1. CASE i <= Len(s)
      <3>1. i \in DOMAIN s /\ u[i] = s[i]
        BY <2>1, <1>1, <1>2
      <3> QED BY <3>1 DEF Range
    <2>2. CASE i > Len(s)
      <3>1. i - Len(s) \in DOMAIN t /\ u[i] = t[i - Len(s)]
        BY <2>2, <1>1, <1>2
      <3> QED BY <3>1 DEF Range
    <2> QED BY <2>1, <2>2, <1>2
  <1>4. ASSUME NEW i \in DOMAIN s PROVE s[i] \in Range(u)
    <2>1. i \in DOMAIN u /\ u[i] = s[i]
      BY <1>1, <1>2
    <2> QED BY <2>1 DEF Range
  <1>5. ASSUME NEW i \in DOMAIN t PROVE t[i] \in Range(u)
    <2>1. i + Len(s) \in DOMAIN u /\ u[i + Len(s)] = t[i]
      BY <1>1, <1>2
    <2> QED BY <2>1 DEF Range
  <1>6. Range(u) = Range(s) \cup Range(t)
    BY <1>3, <1>4, <1>5 DEF Range
  <1>7. ASSUME IsInjective(s), IsInjective(t), Range(s) \cap Range(t) = {},
               NEW i \in DOMAIN u, NEW j \in DOMAIN u, u[i] = u[j]
        PROVE  i = j
    <2>1. CASE i <= Len(s) /\ j <= Len(s)
      BY <2>1, <1>1, <1>2, <1>7 DEF IsInjective
    <2>2. CASE i > Len(s) /\ j > Len(s)
      <3>1. /\ i - Len(s) \in DOMAIN t /\ j - Len(s) \in DOMAIN t
            /\ t[i - Len(s)] = t[j - Len(s)]
        BY <2>2, <1>1, <1>2, <1>7
      <3>2. i - Len(s) = j - Len(s)
        BY <3>1, <1>7 DEF IsInjective
      <3> QED BY <3>2, <1>2
    <2>3. CASE i <= Len(s) /\ j > Len(s)
      <3>1. s[i] \in Range(s) /\ t[j - Len(s)] \in Range(t) /\ s[i] = t[j - Len(s)]
        BY <2>3, <1>1, <1>2, <1>7 DEF Range
      <3> QED BY <3>1, <1>7
    <2>4. CASE i > Len(s) /\ j <= Len(s)
      <3>1. s[j] \in Range(s) /\ t[i - Len(s)] \in Range(t) /\ s[j] = t[i - Len(s)]
        BY <2>4, <1>1, <1>2, <1>7 DEF Range
      <3> QED BY <3>1, <1>7
    <2> QED BY <2>1, <2>2, <2>3, <2>4, <1>2
  <1>8. IsInjective(s) /\ IsInjective(t) /\ Range(s) \cap Range(t) = {}
          => IsInjective(u)
    BY <1>7 DEF IsInjective
  <1> QED BY <1>1, <1>6, <1>8 DEF u

\* append(s[:i], s[i+1:]...): the elements after position i move up by one.
LEMMA WithoutElements ==
  ASSUME NEW S, NEW s \in Seq(S), NEW i \in 1 .. Len(s)
  PROVE  /\ Without(s, i) \in Seq(S)
         /\ Len(Without(s, i)) = Len(s) - 1
         /\ Len(s) \in Nat
         /\ \A j \in 1 .. Len(s) - 1 :
              Without(s, i)[j] = s[IF j < i THEN j ELSE j + 1]
  <1> DEFINE t == Without(s, i)
             at(j) == IF j < i THEN j ELSE j + 1
  <1>1. Len(s) \in Nat
    OBVIOUS
  <1>2. /\ SubSeq(s, 1, i - 1) \in Seq(S) /\ SubSeq(s, i + 1, Len(s)) \in Seq(S)
        /\ Len(SubSeq(s, 1, i - 1)) = i - 1
        /\ Len(SubSeq(s, i + 1, Len(s))) = Len(s) - i
        /\ \A j \in 1 .. i - 1 : SubSeq(s, 1, i - 1)[j] = s[j]
        /\ \A j \in 1 .. Len(s) - i : SubSeq(s, i + 1, Len(s))[j] = s[j + i]
    BY <1>1
  <1> DEFINE a == SubSeq(s, 1, i - 1)
             b == SubSeq(s, i + 1, Len(s))
  <1>3. /\ a \o b \in Seq(S) /\ Len(a \o b) = Len(a) + Len(b)
        /\ \A j \in 1 .. Len(a) + Len(b) :
             (a \o b)[j] = IF j <= Len(a) THEN a[j] ELSE b[j - Len(a)]
    BY <1>2, ConcatProperties
  <1>4. t = a \o b
    BY DEF Without
  <1> HIDE DEF a, b, t
  <1>5. /\ Len(a) = i - 1 /\ Len(b) = Len(s) - i
        /\ \A j \in 1 .. i - 1 : a[j] = s[j]
        /\ \A j \in 1 .. Len(s) - i : b[j] = s[j + i]
    BY <1>2 DEF a, b
  <1>6. ASSUME NEW j \in 1 .. Len(s) - 1 PROVE t[j] = s[at(j)]
    <2>1. CASE j < i
      BY <1>1, <1>3, <1>4, <1>5, <2>1
    <2>2. CASE j >= i
      <3>1. t[j] = b[j - (i - 1)] /\ j - (i - 1) \in 1 .. Len(s) - i
        BY <1>1, <1>3, <1>4, <1>5, <2>2
      <3> QED BY <1>1, <1>5, <2>2, <3>1
    <2> QED BY <1>1, <2>1, <2>2
  <1>7. t \in Seq(S) /\ Len(t) = Len(s) - 1
    <2>1. t \in Seq(S) /\ Len(t) = Len(a) + Len(b)
      BY <1>3, <1>4, Zenon
    <2>2. Len(a) = i - 1 /\ Len(b) = Len(s) - i
      BY <1>5
    <2> QED BY <1>1, <2>1, <2>2
  <1> QED BY <1>1, <1>6, <1>7 DEF t

\* Deleting the element at i removes that element and nothing else.
LEMMA RangeWithout ==
  ASSUME NEW S, NEW s \in Seq(S), NEW i \in 1 .. Len(s)
  PROVE  /\ Without(s, i) \in Seq(S)
         /\ Range(Without(s, i)) \cup {s[i]} = Range(s)
         /\ Len(Without(s, i)) = Len(s) - 1
         /\ IsInjective(s) => /\ IsInjective(Without(s, i))
                              /\ s[i] \notin Range(Without(s, i))
  <1> DEFINE t == Without(s, i)
             at(j) == IF j < i THEN j ELSE j + 1
  <1>1. /\ t \in Seq(S) /\ Len(t) = Len(s) - 1 /\ Len(s) \in Nat
        /\ \A j \in 1 .. Len(s) - 1 : t[j] = s[at(j)]
    BY WithoutElements
  <1> HIDE DEF t
  <1>2. DOMAIN t = 1 .. Len(s) - 1 /\ DOMAIN s = 1 .. Len(s) /\ i \in DOMAIN s
    BY <1>1
  <1>3. ASSUME NEW j \in DOMAIN t PROVE /\ at(j) \in DOMAIN s /\ at(j) # i
                                        /\ t[j] = s[at(j)]
    BY <1>1, <1>2
  <1>4. ASSUME NEW j \in DOMAIN s, j # i PROVE s[j] \in Range(t)
    <2>1. CASE j < i
      <3>1. j \in DOMAIN t /\ t[j] = s[j]
        BY <2>1, <1>1, <1>2
      <3> QED BY <3>1 DEF Range
    <2>2. CASE j > i
      <3>1. j - 1 \in DOMAIN t /\ t[j - 1] = s[j]
        BY <2>2, <1>1, <1>2
      <3> QED BY <3>1 DEF Range
    <2> QED BY <2>1, <2>2, <1>2, <1>4
  <1>5. Range(t) \cup {s[i]} = Range(s)
    <2>1. \A y \in Range(t) : y \in Range(s)
      BY <1>3 DEF Range
    <2>2. s[i] \in Range(s)
      BY <1>2 DEF Range
    <2>3. \A y \in Range(s) : y \in Range(t) \cup {s[i]}
      BY <1>4 DEF Range
    <2> QED BY <2>1, <2>2, <2>3
  <1>6. ASSUME IsInjective(s) PROVE IsInjective(t) /\ s[i] \notin Range(t)
    <2>1. ASSUME NEW j \in DOMAIN t, NEW k \in DOMAIN t, t[j] = t[k] PROVE j = k
      <3>1. at(j) = at(k)
        BY <1>3, <1>6, <2>1 DEF IsInjective
      <3> QED BY <3>1, <1>2
    <2>2. ASSUME NEW j \in DOMAIN t PROVE t[j] # s[i]
      BY <1>2, <1>3, <1>6 DEF IsInjective
    <2> QED BY <2>1, <2>2 DEF IsInjective, Range
  <1> QED BY <1>1, <1>5, <1>6 DEF t

\* A loop over a map visits every entry once, whatever the order.
LEMMA MapOrderVisitsAll ==
  ASSUME NEW S, IsFiniteSet(S), NEW s \in MapOrders(S)
  PROVE  s \in Seq(S) /\ Range(s) = S /\ IsInjective(s)
  <1>1. Cardinality(S) \in Nat
    BY FS_CardinalityType
  <1>2. /\ s \in [1 .. Cardinality(S) -> S] /\ IsInjective(s)
        /\ \A x \in S : \E i \in 1 .. Cardinality(S) : s[i] = x
    BY DEF MapOrders, Bijection, Injection, Surjection, IsInjective
  <1>3. s \in Seq(S)
    BY <1>1, <1>2
  <1> QED BY <1>2, <1>3 DEF Range
=============================================================================
