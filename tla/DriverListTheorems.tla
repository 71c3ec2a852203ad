------------------------- MODULE DriverListTheorems -------------------------
(***************************************************************************)
(* Facts about the lists of the two ISI drivers, which the kernel keeps as *)
(* struct list_head: entries are taken from the front and added at the     *)
(* back.                                                                   *)
(***************************************************************************)
EXTENDS DriverLists, TLAPS

\* The oldest element of a list and the rest of it.
LEMMA HeadTail ==
    ASSUME NEW S, NEW s \in Seq(S), s # <<>>
    PROVE  /\ Head(s) \in S
           /\ Tail(s) \in Seq(S)
OBVIOUS

\* A list of two.
LEMMA Pair ==
    ASSUME NEW S, NEW a \in S, NEW b \in S PROVE <<a, b>> \in Seq(S)
OBVIOUS

\* Dropping the oldest entry of a list and adding one at its end.
LEMMA RotateFacts ==
    ASSUME NEW S, NEW s \in Seq(S), NEW e \in S, s # <<>>
    PROVE  /\ Len(Append(Tail(s), e)) = Len(s)
           /\ Append(Tail(s), e)[Len(s)] = e
           /\ \A i \in 1..(Len(s) - 1) : Append(Tail(s), e)[i] = s[i + 1]
OBVIOUS

\* A list of two has an oldest entry.
LEMMA TwoIsNotEmpty ==
    ASSUME NEW S, NEW s \in Seq(S), Len(s) = 2 PROVE s # <<>>
OBVIOUS

\* RotateFacts at length two.
LEMMA RotatedTwo ==
    ASSUME NEW s, NEW t, NEW e, Len(s) = 2, Len(t) = Len(s), t[Len(s)] = e,
           \A i \in 1..(Len(s) - 1) : t[i] = s[i + 1]
    PROVE  Len(t) = 2 /\ t[1] = s[2] /\ t[2] = e
OBVIOUS

\* The same for a list of two, such as out_active.
LEMMA Rotate ==
    ASSUME NEW S, NEW s \in Seq(S), Len(s) = 2, NEW e \in S
    PROVE  /\ Len(Append(Tail(s), e)) = 2
           /\ Append(Tail(s), e)[1] = s[2]
           /\ Append(Tail(s), e)[2] = e
  <1>1. s # <<>>
    BY TwoIsNotEmpty
  <1>2. Len(Append(Tail(s), e)) = Len(s)
    BY <1>1, RotateFacts, ZenonT(40)
  <1>3. Append(Tail(s), e)[Len(s)] = e
    BY <1>1, RotateFacts, ZenonT(40)
  <1>4. \A i \in 1..(Len(s) - 1) : Append(Tail(s), e)[i] = s[i + 1]
    BY <1>1, RotateFacts, ZenonT(40)
  <1> QED
    BY <1>2, <1>3, <1>4, RotatedTwo, Zenon

\* The members of a list of two.
LEMMA TwoMembers ==
    ASSUME NEW S, NEW s \in Seq(S), Len(s) = 2
    PROVE  s[1] \in S /\ s[2] \in S /\ Head(s) = s[1]
  <1>1. 1 \in 1..Len(s) /\ 2 \in 1..Len(s)
    OBVIOUS
  <1>2. s[1] \in S
    BY <1>1
  <1>3. s[2] \in S
    BY <1>1
  <1>4. Head(s) = s[1]
    OBVIOUS
  <1> QED
    BY <1>2, <1>3, <1>4

\* Nothing is on an empty list.
LEMMA EmptyList == Range(<<>>) = {} /\ NoRepeat(<<>>)
BY DEF Range, NoRepeat

\* A list after an empty one.
LEMMA NothingBefore ==
    ASSUME NEW S, NEW s \in Seq(S), NEW t, t = <<>> PROVE t \o s = s
OBVIOUS

\* list_add_tail adds the entry, and keeps the list free of repetitions when the
\* entry was not on it.
LEMMA AddToList ==
    ASSUME NEW S, NEW s \in Seq(S), NEW e \in S
    PROVE  /\ Range(Append(s, e)) = Range(s) \cup {e}
           /\ NoRepeat(s) /\ e \notin Range(s) => NoRepeat(Append(s, e))
  <1>1. /\ Append(s, e) \in Seq(S) /\ Len(Append(s, e)) = Len(s) + 1
        /\ Append(s, e)[Len(s) + 1] = e
        /\ \A i \in 1..Len(s) : Append(s, e)[i] = s[i]
    OBVIOUS
  <1>2. DOMAIN s = 1..Len(s) /\ DOMAIN Append(s, e) = 1..(Len(s) + 1) /\ Len(s) \in Nat
    BY <1>1
  <1> DEFINE t == Append(s, e)
  <1>3. /\ DOMAIN t = 1..(Len(s) + 1) /\ t[Len(s) + 1] = e
        /\ \A i \in 1..Len(s) : t[i] = s[i]
    BY <1>1, <1>2
  <1> HIDE DEF t
  <1>4. Range(t) = Range(s) \cup {e}
    BY <1>2, <1>3 DEF Range
  <1>5. NoRepeat(s) /\ e \notin Range(s) => NoRepeat(t)
    BY <1>2, <1>3 DEF Range, NoRepeat
  <1> QED
    BY <1>4, <1>5 DEF t

\* Taking the oldest entry removes it and nothing else.
LEMMA TakeFromList ==
    ASSUME NEW S, NEW s \in Seq(S), s # <<>>
    PROVE  /\ Head(s) \in Range(s)
           /\ NoRepeat(s) => Range(Tail(s)) = Range(s) \ {Head(s)} /\ NoRepeat(Tail(s))
  <1>1. /\ Tail(s) \in Seq(S) /\ Len(Tail(s)) = Len(s) - 1 /\ Len(s) \in Nat /\ Len(s) > 0
        /\ \A i \in 1..(Len(s) - 1) : Tail(s)[i] = s[i + 1]
        /\ Head(s) = s[1]
    OBVIOUS
  <1>2. DOMAIN s = 1..Len(s) /\ DOMAIN Tail(s) = 1..(Len(s) - 1)
    BY <1>1
  <1> DEFINE t == Tail(s)
             h == Head(s)
  <1>3. /\ DOMAIN t = 1..(Len(s) - 1) /\ h = s[1]
        /\ \A i \in 1..(Len(s) - 1) : t[i] = s[i + 1]
    BY <1>1, <1>2
  <1> HIDE DEF t, h
  <1>4. h \in Range(s)
    BY <1>1, <1>2, <1>3 DEF Range
  <1>5. ASSUME NoRepeat(s) PROVE Range(t) = Range(s) \ {h}
    <2>1. ASSUME NEW i \in DOMAIN t PROVE t[i] \in Range(s) \ {h}
      BY <1>1, <1>2, <1>3, <1>5 DEF Range, NoRepeat
    <2>2. ASSUME NEW i \in DOMAIN s, s[i] # h PROVE s[i] \in Range(t)
      <3>1. i - 1 \in DOMAIN t /\ t[i - 1] = s[i]
        BY <1>1, <1>2, <1>3, <2>2
      <3> QED
        BY <3>1 DEF Range
    <2> QED
      BY <2>1, <2>2 DEF Range
  <1>6. ASSUME NoRepeat(s) PROVE NoRepeat(t)
    <2>1. ASSUME NEW i \in DOMAIN t, NEW j \in DOMAIN t, t[i] = t[j] PROVE i = j
      <3>1. i + 1 \in DOMAIN s /\ j + 1 \in DOMAIN s /\ s[i + 1] = s[j + 1]
        BY <1>1, <1>2, <1>3, <2>1
      <3>2. i + 1 = j + 1
        BY <1>6, <3>1 DEF NoRepeat
      <3> QED
        BY <1>1, <1>3, <3>2
    <2> QED
      BY <2>1 DEF NoRepeat
  <1> QED
    BY <1>4, <1>5, <1>6 DEF t, h

\* Two lists without a common entry, one after the other.
LEMMA JoinLists ==
    ASSUME NEW S, NEW s \in Seq(S), NEW t \in Seq(S),
           NoRepeat(s), NoRepeat(t), Range(s) \cap Range(t) = {}
    PROVE  NoRepeat(s \o t)
  <1> DEFINE c == s \o t
  <1>1. /\ Len(s) \in Nat /\ Len(t) \in Nat /\ DOMAIN s = 1..Len(s) /\ DOMAIN t = 1..Len(t)
        /\ DOMAIN c = 1..(Len(s) + Len(t))
        /\ \A i \in 1..Len(s) : c[i] = s[i]
        /\ \A i \in (Len(s) + 1)..(Len(s) + Len(t)) : c[i] = t[i - Len(s)]
    OBVIOUS
  <1> HIDE DEF c
  <1>2. \A i \in DOMAIN s, j \in DOMAIN t : s[i] # t[j]
    BY DEF Range
  <1> SUFFICES ASSUME NEW i \in DOMAIN c, NEW j \in DOMAIN c, c[i] = c[j] PROVE i = j
    BY DEF NoRepeat, c
  <1>3. CASE i <= Len(s) /\ j <= Len(s)
    BY <1>1, <1>3 DEF NoRepeat
  <1>4. CASE i > Len(s) /\ j > Len(s)
    <2>1. /\ i - Len(s) \in DOMAIN t /\ j - Len(s) \in DOMAIN t
          /\ t[i - Len(s)] = t[j - Len(s)]
      BY <1>1, <1>4
    <2>2. i - Len(s) = j - Len(s)
      BY <2>1 DEF NoRepeat
    <2> QED BY <1>1, <2>2
  <1>5. CASE i <= Len(s) /\ j > Len(s)
    BY <1>1, <1>2, <1>5
  <1>6. CASE i > Len(s) /\ j <= Len(s)
    BY <1>1, <1>2, <1>6
  <1> QED BY <1>1, <1>3, <1>4, <1>5, <1>6

\* The two oldest entries of a list without repetitions, and the rest of it.
LEMMA TakeTwo ==
    ASSUME NEW S, NEW p \in Seq(S), Len(p) >= 2, NoRepeat(p)
    PROVE  /\ NoRepeat(<<p[1], p[2]>>) /\ NoRepeat(SubSeq(p, 3, Len(p)))
           /\ Range(<<p[1], p[2]>>) \cap Range(SubSeq(p, 3, Len(p))) = {}
  <1> DEFINE a == <<p[1], p[2]>>
             r == SubSeq(p, 3, Len(p))
  <1>1. /\ Len(p) \in Nat /\ DOMAIN p = 1..Len(p)
        /\ DOMAIN a = 1..2 /\ a[1] = p[1] /\ a[2] = p[2]
    OBVIOUS
  <1>2. DOMAIN r = 1..(Len(p) - 2) /\ \A i \in 1..(Len(p) - 2) : r[i] = p[i + 2]
    BY <1>1
  <1> HIDE DEF a, r
  <1>3. NoRepeat(a)
    BY <1>1 DEF NoRepeat
  <1>4. ASSUME NEW i \in DOMAIN r PROVE i + 2 \in DOMAIN p /\ r[i] = p[i + 2] /\ i + 2 # 1 /\ i + 2 # 2
    BY <1>1, <1>2
  <1>5. NoRepeat(r)
    <2> SUFFICES ASSUME NEW i \in DOMAIN r, NEW j \in DOMAIN r, r[i] = r[j] PROVE i = j
      BY DEF NoRepeat
    <2>1. i + 2 = j + 2
      BY <1>4 DEF NoRepeat
    <2> QED BY <1>2, <2>1
  <1>6. Range(a) \cap Range(r) = {}
    <2>1. ASSUME NEW i \in DOMAIN r PROVE r[i] # p[1] /\ r[i] # p[2]
      BY <1>1, <1>4, <2>1 DEF NoRepeat
    <2>2. Range(a) = {p[1], p[2]}
      BY <1>1 DEF Range
    <2> QED BY <2>1, <2>2 DEF Range
  <1> QED BY <1>3, <1>5, <1>6 DEF a, r

\* Two lists one after the other, one of them perhaps empty.
LEMMA Concat ==
    ASSUME NEW S, NEW s \in Seq(S), NEW t \in Seq(S)
    PROVE  /\ s \o t \in Seq(S) /\ Len(s \o t) = Len(s) + Len(t)
           /\ s \o <<>> = s /\ <<>> \o s = s
OBVIOUS

\* Brackets do not matter.
LEMMA ConcatAssoc ==
    ASSUME NEW S, NEW s \in Seq(S), NEW t \in Seq(S), NEW u \in Seq(S)
    PROVE  (s \o t) \o u = s \o (t \o u)
  <1> DEFINE l == (s \o t) \o u
             r == s \o (t \o u)
  <1>1. l \in Seq(S) /\ r \in Seq(S) /\ Len(l) = Len(r)
    OBVIOUS
  <1>2. \A i \in 1..Len(l) : l[i] = r[i]
    OBVIOUS
  <1> HIDE DEF l, r
  <1>3. l = r
    BY <1>1, <1>2, SMTT(40)
  <1> QED BY <1>3 DEF l, r

\* Adding one entry at the back.
LEMMA AppendConcat ==
    ASSUME NEW S, NEW s \in Seq(S), NEW e \in S
    PROVE  Append(s, e) = s \o <<e>> /\ <<e>> \in Seq(S)
OBVIOUS

\* A list is its oldest entry and the rest.
LEMMA FirstAndRest ==
    ASSUME NEW S, NEW s \in Seq(S), s # <<>>
    PROVE  <<Head(s)>> \o Tail(s) = s
OBVIOUS

\* The oldest entry of two lists is that of the first one.
LEMMA TailConcat ==
    ASSUME NEW S, NEW s \in Seq(S), NEW t \in Seq(S), s # <<>>
    PROVE  Tail(s \o t) = Tail(s) \o t /\ s \o t # <<>>
OBVIOUS

\* What is on two lists.
LEMMA RangeConcat ==
    ASSUME NEW S, NEW s \in Seq(S), NEW t \in Seq(S)
    PROVE  Range(s \o t) = Range(s) \cup Range(t)
  <1> DEFINE c == s \o t
  <1>1. /\ Len(s) \in Nat /\ Len(t) \in Nat /\ DOMAIN s = 1..Len(s) /\ DOMAIN t = 1..Len(t)
        /\ DOMAIN c = 1..(Len(s) + Len(t))
        /\ \A i \in 1..Len(s) : c[i] = s[i]
        /\ \A i \in (Len(s) + 1)..(Len(s) + Len(t)) : c[i] = t[i - Len(s)]
    OBVIOUS
  <1> HIDE DEF c
  <1>2. ASSUME NEW i \in DOMAIN t PROVE Len(s) + i \in DOMAIN c /\ c[Len(s) + i] = t[i]
    BY <1>1
  <1>3. ASSUME NEW i \in DOMAIN s PROVE i \in DOMAIN c /\ c[i] = s[i]
    BY <1>1
  <1>4. ASSUME NEW i \in DOMAIN c PROVE c[i] \in Range(s) \cup Range(t)
    <2>1. CASE i \in 1..Len(s)
      BY <1>1, <2>1 DEF Range
    <2>2. CASE i \notin 1..Len(s)
      <3>1. i - Len(s) \in DOMAIN t /\ c[i] = t[i - Len(s)]
        BY <1>1, <2>2
      <3> QED BY <3>1 DEF Range
    <2> QED BY <2>1, <2>2
  <1>5. Range(s) \subseteq Range(c) /\ Range(t) \subseteq Range(c)
    BY <1>2, <1>3 DEF Range
  <1>6. Range(c) \subseteq Range(s) \cup Range(t)
    BY <1>4 DEF Range
  <1> QED BY <1>5, <1>6 DEF c
=============================================================================
