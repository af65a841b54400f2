----------------------------- MODULE Lru_proof -----------------------------
(***************************************************************************)
(* Proofs about Lru, for any keys, values, lengths and capacities.         *)
(***************************************************************************)
EXTENDS Lru, SequenceTheorems, FiniteSetTheorems, WellFoundedInduction, TLAPS

-----------------------------------------------------------------------------
(* Induction on the natural numbers, for a set in the place of a predicate.*)

\* Nat has no proper subset with 0 that is closed under successor.
LEMMA NatSetInduction ==
  ASSUME NEW S, 0 \in S, \A n \in Nat : n \in S => n + 1 \in S
  PROVE  Nat \subseteq S
<1> SUFFICES ASSUME Nat \ S # {} PROVE FALSE
  OBVIOUS
<1> DEFINE R == OpToRel(<, Nat)
<1>1. IsWellFoundedOn(R, Nat)
  BY NatLessThanWellFounded
<1>2. \A x, y \in Nat : x < y => <<x, y>> \in R
  BY DEF OpToRel
<1> HIDE DEF R
<1>3. PICK x \in Nat \ S : \A y \in Nat \ S : ~(<<y, x>> \in R)
  <2> DEFINE T == Nat \ S
  <2>1. T \subseteq Nat /\ T # {}
    OBVIOUS
  <2> HIDE DEF T
  <2>2. \E x \in T : \A y \in T : ~(<<y, x>> \in R)
    BY <1>1, <2>1, WFMin
  <2> QED
    BY <2>2 DEF T
<1>4. x \in Nat /\ x # 0 /\ x - 1 \in Nat /\ x - 1 < x
  OBVIOUS
<1>5. x - 1 \in S
  BY <1>2, <1>3, <1>4
<1> QED
  BY <1>4, <1>5

-----------------------------------------------------------------------------
(* The size of a list.                                                     *)

\* The size of an entry is a natural number.
LEMMA SizeType == \A e \in Entry : Size(e) \in Nat
  BY LruAssumption DEF Size, Entry

\* SizeOf obeys the equation it is defined by.
LEMMA SizeOfDef ==
  ASSUME NEW s \in Seq(Entry)
  PROVE  /\ SizeOf(s, 0) = 0
         /\ \A n \in 1 .. Len(s) : SizeOf(s, n) = SizeOf(s, n - 1) + Size(s[n])
<1> DEFINE Eq(f, n) ==
      f = [i \in 0 .. n |-> IF i = 0 THEN 0 ELSE f[i - 1] + Size(s[i])]
    S == {n \in Nat : \E f : Eq(f, n)}
<1>1. 0 \in S
  <2>1. Eq([i \in 0 .. 0 |-> 0], 0)
    OBVIOUS
  <2> QED
    BY <2>1
<1>2. ASSUME NEW n \in Nat, n \in S PROVE n + 1 \in S
  <2>1. PICK f : Eq(f, n)
    BY <1>2
  <2> DEFINE g == [i \in 0 .. n + 1 |-> IF i <= n THEN f[i] ELSE f[n] + Size(s[n + 1])]
  <2>2. Eq(g, n + 1)
    BY <2>1
  <2> HIDE DEF g, Eq
  <2>3. \E e : Eq(e, n + 1)
    BY <2>2, Zenon
  <2> QED
    BY <2>3
<1>3. Len(s) \in S
  <2> HIDE DEF S
  <2> QED
    BY <1>1, <1>2, NatSetInduction
<1> DEFINE h == CHOOSE f : Eq(f, Len(s))
<1>4. Eq(h, Len(s))
  BY <1>3
<1>5. \A n : SizeOf(s, n) = h[n]
  BY DEF SizeOf
<1> HIDE DEF h
<1>6. h = [i \in 0 .. Len(s) |-> IF i = 0 THEN 0 ELSE h[i - 1] + Size(s[i])]
  BY <1>4
<1>7. Len(s) \in Nat
  OBVIOUS
<1> HIDE DEF Eq, S
<1>8. h[0] = 0 /\ \A n \in 1 .. Len(s) : h[n] = h[n - 1] + Size(s[n])
  BY <1>6, <1>7
<1> QED
  BY <1>5, <1>8

\* It is a natural number.
LEMMA SizeOfType ==
  ASSUME NEW s \in Seq(Entry)
  PROVE  \A n \in 0 .. Len(s) : SizeOf(s, n) \in Nat
<1> DEFINE S == {n \in Nat : n <= Len(s) => SizeOf(s, n) \in Nat}
<1>1. 0 \in S
  BY SizeOfDef
<1>2. ASSUME NEW n \in Nat, n \in S PROVE n + 1 \in S
  <2> SUFFICES ASSUME n + 1 <= Len(s) PROVE SizeOf(s, n + 1) \in Nat
    OBVIOUS
  <2>1. n + 1 \in 1 .. Len(s) /\ (n + 1) - 1 = n /\ n <= Len(s)
    OBVIOUS
  <2>2. SizeOf(s, n + 1) = SizeOf(s, n) + Size(s[n + 1])
    BY <2>1, SizeOfDef
  <2>3. SizeOf(s, n) \in Nat /\ Size(s[n + 1]) \in Nat
    BY <1>2, <2>1, SizeType
  <2> QED
    BY <2>2, <2>3
<1>3. Nat \subseteq S
  <2> HIDE DEF S
  <2> QED
    BY <1>1, <1>2, NatSetInduction
<1> QED
  BY <1>3

\* The size of the first n entries depends on these only.
LEMMA SizeOfPrefix ==
  ASSUME NEW s \in Seq(Entry), NEW t \in Seq(Entry), NEW m \in Nat,
         m <= Len(s), m <= Len(t), \A i \in 1 .. m : s[i] = t[i]
  PROVE  SizeOf(s, m) = SizeOf(t, m)
<1> DEFINE S == {n \in Nat : n <= m => SizeOf(s, n) = SizeOf(t, n)}
<1>1. 0 \in S
  BY SizeOfDef
<1>2. ASSUME NEW n \in Nat, n \in S PROVE n + 1 \in S
  <2> SUFFICES ASSUME n + 1 <= m PROVE SizeOf(s, n + 1) = SizeOf(t, n + 1)
    OBVIOUS
  <2>1. n + 1 \in 1 .. Len(s) /\ n + 1 \in 1 .. Len(t) /\ (n + 1) - 1 = n /\ n <= m
    OBVIOUS
  <2>2. SizeOf(s, n) = SizeOf(t, n) /\ s[n + 1] = t[n + 1]
    BY <1>2, <2>1
  <2> QED
    BY <2>1, <2>2, SizeOfDef
<1>3. Nat \subseteq S
  <2> HIDE DEF S
  <2> QED
    BY <1>1, <1>2, NatSetInduction
<1> QED
  BY <1>3

\* What PushFront and MoveToFront do to a list.
LEMMA PushFacts ==
  ASSUME NEW T, NEW s \in Seq(T), NEW e \in T
  PROVE  LET t == <<e>> \o s IN
         /\ t \in Seq(T) /\ Len(t) = Len(s) + 1
         /\ t[1] = e /\ \A j \in 2 .. Len(t) : t[j] = s[j - 1]
  OBVIOUS

\* t is s with e in front and without its i-th element.
Moved(T, s, i, e, t) ==
  /\ t \in Seq(T) /\ Len(t) = Len(s) /\ Len(s) \in Nat
  /\ t[1] = e
  /\ \A j \in 2 .. i : t[j] = s[j - 1]
  /\ \A j \in i + 1 .. Len(s) : t[j] = s[j]

\* MoveToFront keeps the elements, and shifts those before the one it moves.
LEMMA MoveFacts ==
  ASSUME NEW T, NEW s \in Seq(T), NEW e \in T, NEW i \in 1 .. Len(s)
  PROVE  Moved(T, s, i, e, <<e>> \o RemoveAt(s, i))
<1> DEFINE t == <<e>> \o RemoveAt(s, i)
<1>t. t = <<e>> \o RemoveAt(s, i)
  OBVIOUS
<1> HIDE DEF t
<1> DEFINE r == RemoveAt(s, i)
<1>1. /\ r \in Seq(T) /\ Len(r) = Len(s) - 1
      /\ \A j \in 1 .. i - 1 : r[j] = s[j]
      /\ \A j \in i .. Len(s) - 1 : r[j] = s[j + 1]
  <2> DEFINE a == SubSeq(s, 1, i - 1)
             b == SubSeq(s, i + 1, Len(s))
  <2>1. a \in Seq(T) /\ Len(a) = i - 1 /\ \A j \in 1 .. i - 1 : a[j] = s[j]
    OBVIOUS
  <2>2. b \in Seq(T) /\ Len(b) = Len(s) - i /\ \A j \in 1 .. Len(s) - i : b[j] = s[i + j]
    OBVIOUS
  <2>3. r = a \o b
    BY DEF RemoveAt
  <2> HIDE DEF a, b, r
  <2>4. r \in Seq(T) /\ Len(r) = Len(s) - 1
    <3>1. r \in Seq(T) /\ Len(r) = Len(a) + Len(b)
      BY <2>1, <2>2, <2>3, ConcatProperties
    <3> QED
      BY <2>1, <2>2, <3>1
  <2>5. \A j \in 1 .. i - 1 : r[j] = a[j]
    BY <2>1, <2>2, <2>3
  <2>6. \A j \in i .. Len(s) - 1 : r[j] = b[j - (i - 1)]
    BY <2>1, <2>2, <2>3
  <2>7. ASSUME NEW j \in i .. Len(s) - 1 PROVE r[j] = s[j + 1]
    <3>1. j - (i - 1) \in 1 .. Len(s) - i /\ i + (j - (i - 1)) = j + 1
      OBVIOUS
    <3> QED
      BY <2>2, <2>6, <3>1
  <2> QED
    BY <2>1, <2>4, <2>5, <2>7
<1> HIDE DEF r
<1>2. /\ t \in Seq(T) /\ Len(t) = Len(r) + 1
      /\ t[1] = e /\ \A j \in 2 .. Len(t) : t[j] = r[j - 1]
  BY <1>1, <1>t DEF r
<1> QED
  BY <1>1, <1>2, <1>t DEF Moved

\* The size of a list that an entry is put in front of.
LEMMA SizeOfPushed ==
  ASSUME NEW s \in Seq(Entry), NEW e \in Entry
  PROVE  SizeOf(<<e>> \o s, Len(s) + 1) = Size(e) + SizeOf(s, Len(s))
<1> DEFINE t == <<e>> \o s
           S == {n \in Nat : n <= Len(s) => SizeOf(t, n + 1) = Size(e) + SizeOf(s, n)}
<1>0. /\ t \in Seq(Entry) /\ Len(t) = Len(s) + 1 /\ Len(s) \in Nat
      /\ t[1] = e /\ \A j \in 2 .. Len(t) : t[j] = s[j - 1]
  BY PushFacts
<1> HIDE DEF t
<1>a. Size(e) \in Nat
  BY SizeType
<1>1. 0 \in S
  <2>1. 1 \in 1 .. Len(t)
    BY <1>0
  <2>2. SizeOf(t, 1) = SizeOf(t, 0) + Size(e) /\ SizeOf(t, 0) = 0 /\ SizeOf(s, 0) = 0
    BY <1>0, <2>1, SizeOfDef
  <2> QED
    BY <1>a, <2>2
<1>2. ASSUME NEW n \in Nat, n \in S PROVE n + 1 \in S
  <2> SUFFICES ASSUME n + 1 <= Len(s)
               PROVE  SizeOf(t, (n + 1) + 1) = Size(e) + SizeOf(s, n + 1)
    OBVIOUS
  <2>1. /\ n + 1 \in 1 .. Len(s) /\ (n + 1) - 1 = n /\ n <= Len(s) /\ n \in 0 .. Len(s)
        /\ (n + 1) + 1 \in 1 .. Len(t) /\ (n + 1) + 1 \in 2 .. Len(t)
        /\ ((n + 1) + 1) - 1 = n + 1
    BY <1>0
  <2>2. t[(n + 1) + 1] = s[n + 1] /\ s[n + 1] \in Entry
    BY <1>0, <2>1
  <2>3. SizeOf(t, (n + 1) + 1) = SizeOf(t, n + 1) + Size(s[n + 1])
    BY <1>0, <2>1, <2>2, SizeOfDef
  <2>4. SizeOf(s, n + 1) = SizeOf(s, n) + Size(s[n + 1])
    BY <2>1, SizeOfDef
  <2>5. SizeOf(t, n + 1) = Size(e) + SizeOf(s, n)
    BY <1>2, <2>1
  <2>6. SizeOf(s, n) \in Nat /\ Size(s[n + 1]) \in Nat
    BY <2>1, <2>2, SizeOfType, SizeType
  <2> QED
    BY <1>a, <2>3, <2>4, <2>5, <2>6
<1>3. Nat \subseteq S
  <2> HIDE DEF S
  <2> QED
    BY <1>1, <1>2, NatSetInduction
<1>4. Len(s) \in S
  BY <1>0, <1>3
<1> QED
  BY <1>0, <1>4 DEF t

\* The size of a list whose i-th entry is moved to the front, as e.
LEMMA SizeOfMoved ==
  ASSUME NEW s \in Seq(Entry), NEW e \in Entry, NEW i \in 1 .. Len(s)
  PROVE  SizeOf(<<e>> \o RemoveAt(s, i), Len(s))
           = SizeOf(s, Len(s)) - Size(s[i]) + Size(e)
<1> DEFINE t == <<e>> \o RemoveAt(s, i)
<1>0. /\ t \in Seq(Entry) /\ Len(t) = Len(s) /\ Len(s) \in Nat
      /\ t[1] = e
      /\ \A j \in 2 .. i : t[j] = s[j - 1]
      /\ \A j \in i + 1 .. Len(s) : t[j] = s[j]
  <2>1. Moved(Entry, s, i, e, t)
    BY MoveFacts
  <2> HIDE DEF t
  <2> QED
    BY <2>1 DEF Moved
<1> HIDE DEF t
<1>a. Size(e) \in Nat /\ Size(s[i]) \in Nat
  BY SizeType
<1>b. \A n \in 0 .. Len(s) : SizeOf(s, n) \in Nat
  BY SizeOfType
<1>1. SizeOf(t, i) = Size(e) + SizeOf(s, i - 1)
  <2> DEFINE S == {n \in Nat : n < i => SizeOf(t, n + 1) = Size(e) + SizeOf(s, n)}
  <2>1. 0 \in S
    <3>1. 1 \in 1 .. Len(t)
      BY <1>0
    <3>2. SizeOf(t, 1) = SizeOf(t, 0) + Size(e) /\ SizeOf(t, 0) = 0 /\ SizeOf(s, 0) = 0
      BY <1>0, <3>1, SizeOfDef
    <3> QED
      BY <1>a, <3>2
  <2>2. ASSUME NEW n \in Nat, n \in S PROVE n + 1 \in S
    <3> SUFFICES ASSUME n + 1 < i
                 PROVE  SizeOf(t, (n + 1) + 1) = Size(e) + SizeOf(s, n + 1)
      OBVIOUS
    <3>1. /\ n + 1 \in 1 .. Len(s) /\ (n + 1) - 1 = n /\ n < i /\ n \in 0 .. Len(s)
          /\ (n + 1) + 1 \in 1 .. Len(t) /\ (n + 1) + 1 \in 2 .. i
          /\ ((n + 1) + 1) - 1 = n + 1
      BY <1>0
    <3>2. t[(n + 1) + 1] = s[n + 1] /\ s[n + 1] \in Entry
      BY <1>0, <3>1
    <3>3. SizeOf(t, (n + 1) + 1) = SizeOf(t, n + 1) + Size(s[n + 1])
      BY <1>0, <3>1, <3>2, SizeOfDef
    <3>4. SizeOf(s, n + 1) = SizeOf(s, n) + Size(s[n + 1])
      BY <3>1, SizeOfDef
    <3>5. SizeOf(t, n + 1) = Size(e) + SizeOf(s, n)
      BY <2>2, <3>1
    <3>6. SizeOf(s, n) \in Nat /\ Size(s[n + 1]) \in Nat
      BY <3>1, <3>2, <1>b, SizeType
    <3> QED
      BY <1>a, <3>3, <3>4, <3>5, <3>6
  <2>3. Nat \subseteq S
    <3> HIDE DEF S
    <3> QED
      BY <2>1, <2>2, NatSetInduction
  <2>4. i - 1 \in S /\ (i - 1) + 1 = i
    BY <2>3
  <2> QED
    BY <2>4
<1>2. SizeOf(t, i) = SizeOf(s, i) - Size(s[i]) + Size(e)
  <2>1. SizeOf(s, i) = SizeOf(s, i - 1) + Size(s[i])
    BY SizeOfDef
  <2>2. i - 1 \in 0 .. Len(s)
    OBVIOUS
  <2> QED
    BY <1>1, <1>a, <1>b, <2>1, <2>2
<1>3. SizeOf(t, Len(s)) = SizeOf(s, Len(s)) - Size(s[i]) + Size(e)
  <2> DEFINE S == {n \in Nat : i + n <= Len(s) =>
                     SizeOf(t, i + n) = SizeOf(s, i + n) - Size(s[i]) + Size(e)}
  <2>1. 0 \in S
    BY <1>2
  <2>2. ASSUME NEW n \in Nat, n \in S PROVE n + 1 \in S
    <3> SUFFICES ASSUME i + (n + 1) <= Len(s)
                 PROVE  SizeOf(t, i + (n + 1)) = SizeOf(s, i + (n + 1)) - Size(s[i]) + Size(e)
      OBVIOUS
    <3> DEFINE m == i + (n + 1)
    <3>1. /\ m \in 1 .. Len(s) /\ m \in 1 .. Len(t) /\ m - 1 = i + n
          /\ m \in i + 1 .. Len(s) /\ i + n \in 0 .. Len(s) /\ i + n <= Len(s)
      BY <1>0
    <3>2. t[m] = s[m] /\ s[m] \in Entry
      BY <1>0, <3>1
    <3> HIDE DEF m
    <3>3. SizeOf(t, m) = SizeOf(t, i + n) + Size(s[m])
      BY <1>0, <3>1, <3>2, SizeOfDef
    <3>4. SizeOf(s, m) = SizeOf(s, i + n) + Size(s[m])
      BY <3>1, SizeOfDef
    <3>5. SizeOf(t, i + n) = SizeOf(s, i + n) - Size(s[i]) + Size(e)
      BY <2>2, <3>1
    <3>6. SizeOf(s, i + n) \in Nat /\ Size(s[m]) \in Nat
      BY <3>1, <3>2, <1>b, SizeType
    <3>7. SizeOf(t, m) = SizeOf(s, m) - Size(s[i]) + Size(e)
      BY <1>a, <3>3, <3>4, <3>5, <3>6
    <3> QED
      BY <3>7 DEF m
  <2>3. Nat \subseteq S
    <3> HIDE DEF S
    <3> QED
      BY <2>1, <2>2, NatSetInduction
  <2>4. Len(s) - i \in S /\ i + (Len(s) - i) = Len(s)
    BY <1>0, <2>3
  <2> QED
    BY <2>4
<1> QED
  BY <1>3 DEF t

-----------------------------------------------------------------------------
(* What MovedToFront and Use do to the list and to recent.                 *)

\* The map of a coherent cache points into the list.
LEMMA ElemFacts ==
  ASSUME TypeOK, KeysInv, NEW k \in cache
  PROVE  Elem(k) \in 1 .. Len(ll) /\ ll[Elem(k)].key = k
<1>1. DOMAIN ll = 1 .. Len(ll)
  BY DEF TypeOK
<1>2. \E i \in DOMAIN ll : ll[i].key = k
  BY DEF KeysInv
<1> QED
  BY <1>1, <1>2 DEF Elem

\* A key that is there.
LEMMA MovedWhenThere ==
  ASSUME IInv, NEW e \in Entry, e.key \in cache,
         ll' = MovedToFront(e), Use(e.key)
  PROVE  LET i == Elem(e.key) IN
         /\ ll' \in Seq(Entry) /\ Len(ll') = Len(ll)
         /\ ll'[1] = e
         /\ \A j \in 2 .. i : ll'[j] = ll[j - 1]
         /\ \A j \in i + 1 .. Len(ll) : ll'[j] = ll[j]
         /\ recent' \in Seq(Keys) /\ Len(recent') = Len(recent)
         /\ recent'[1] = e.key
         /\ \A j \in 2 .. i : recent'[j] = recent[j - 1]
         /\ \A j \in i + 1 .. Len(recent) : recent'[j] = recent[j]
<1> DEFINE i == Elem(e.key)
<1>0. ll \in Seq(Entry) /\ recent \in Seq(Keys) /\ e.key \in Keys /\ Len(ll) <= Len(recent)
  BY DEF IInv, TypeOK, RecentInv, Entry
<1>1. i \in 1 .. Len(ll) /\ ll[i].key = e.key
  BY ElemFacts DEF IInv
<1> HIDE DEF i
<1>2. i \in 1 .. Len(recent) /\ DOMAIN recent = 1 .. Len(recent) /\ DOMAIN ll = 1 .. Len(ll)
  BY <1>0, <1>1
<1>3. recent[i] = e.key
  BY <1>1, <1>2 DEF IInv, RecentInv
<1>4. e.key \in Range(recent) /\ LastUse(e.key) = i
  BY <1>2, <1>3 DEF Range, LastUse, IInv, RecentInv
<1>5. recent' = <<e.key>> \o RemoveAt(recent, i)
  BY <1>4 DEF Use
<1>6. ll' = <<e>> \o RemoveAt(ll, i)
  BY DEF MovedToFront, i
<1>7. Moved(Entry, ll, i, e, ll')
  BY <1>0, <1>1, <1>6, MoveFacts
<1>8. Moved(Keys, recent, i, e.key, recent')
  BY <1>0, <1>2, <1>5, MoveFacts
<1> QED
  BY <1>7, <1>8 DEF i, Moved

\* A key that is not there; m is where it was used last, if ever.
LEMMA PushedWhenNew ==
  ASSUME IInv, NEW e \in Entry, e.key \notin cache,
         ll' = MovedToFront(e), Use(e.key)
  PROVE  /\ ll' \in Seq(Entry) /\ Len(ll') = Len(ll) + 1
         /\ ll'[1] = e
         /\ \A j \in 2 .. Len(ll) + 1 : ll'[j] = ll[j - 1]
         /\ recent' \in Seq(Keys)
         /\ recent'[1] = e.key
         /\ \E m \in Len(ll) + 1 .. Len(recent) + 1 :
              /\ Len(recent') = IF m = Len(recent) + 1 THEN m ELSE Len(recent)
              /\ m <= Len(recent) => recent[m] = e.key
              /\ m = Len(recent) + 1 => e.key \notin Range(recent)
              /\ \A j \in 2 .. m : recent'[j] = recent[j - 1]
              /\ \A j \in m + 1 .. Len(recent) : recent'[j] = recent[j]
<1>0. /\ ll \in Seq(Entry) /\ recent \in Seq(Keys) /\ e.key \in Keys /\ Len(ll) <= Len(recent)
      /\ Len(ll) \in Nat /\ Len(recent) \in Nat
      /\ DOMAIN recent = 1 .. Len(recent) /\ DOMAIN ll = 1 .. Len(ll)
  BY DEF IInv, TypeOK, RecentInv, Entry
<1>1. ll' = <<e>> \o ll
  BY DEF MovedToFront
<1>2. /\ ll' \in Seq(Entry) /\ Len(ll') = Len(ll) + 1
      /\ ll'[1] = e /\ \A j \in 2 .. Len(ll) + 1 : ll'[j] = ll[j - 1]
  BY <1>0, <1>1
<1>3. CASE e.key \notin Range(recent)
  <2>1. recent' = <<e.key>> \o recent
    BY <1>3 DEF Use
  <2>2. /\ recent' \in Seq(Keys) /\ Len(recent') = Len(recent) + 1
        /\ recent'[1] = e.key /\ \A j \in 2 .. Len(recent) + 1 : recent'[j] = recent[j - 1]
    BY <1>0, <2>1
  <2> DEFINE m == Len(recent) + 1
  <2>3. m \in Len(ll) + 1 .. Len(recent) + 1 /\ ~(m <= Len(recent))
        /\ m + 1 .. Len(recent) = {}
    BY <1>0
  <2>4. /\ Len(recent') = IF m = Len(recent) + 1 THEN m ELSE Len(recent)
        /\ m <= Len(recent) => recent[m] = e.key
        /\ m = Len(recent) + 1 => e.key \notin Range(recent)
        /\ \A j \in 2 .. m : recent'[j] = recent[j - 1]
        /\ \A j \in m + 1 .. Len(recent) : recent'[j] = recent[j]
    BY <1>3, <2>2, <2>3
  <2> HIDE DEF m
  <2> QED
    BY <1>2, <2>2, <2>3, <2>4
<1>4. CASE e.key \in Range(recent)
  <2> DEFINE m == LastUse(e.key)
  <2>1. m \in 1 .. Len(recent) /\ recent[m] = e.key
    BY <1>0, <1>4 DEF Range, LastUse
  <2>2. recent' = <<e.key>> \o RemoveAt(recent, m)
    BY <1>4 DEF Use
  <2> HIDE DEF m
  <2>3. m \notin 1 .. Len(ll)
    BY <1>0, <2>1 DEF IInv, KeysInv, RecentInv
  <2>4. Moved(Keys, recent, m, e.key, recent')
    BY <1>0, <2>1, <2>2, MoveFacts
  <2>5. /\ recent' \in Seq(Keys) /\ Len(recent') = Len(recent)
        /\ recent'[1] = e.key
        /\ \A j \in 2 .. m : recent'[j] = recent[j - 1]
        /\ \A j \in m + 1 .. Len(recent) : recent'[j] = recent[j]
    BY <2>4 DEF Moved
  <2>8. m \in Len(ll) + 1 .. Len(recent) + 1 /\ m # Len(recent) + 1
    BY <1>0, <2>1, <2>3
  <2> QED
    BY <1>2, <2>1, <2>5, <2>8
<1> QED
  BY <1>3, <1>4

\* Either way the list and recent stay in step, and no key is there twice.
LEMMA ToFront ==
  ASSUME IInv, NEW e \in Entry, ll' = MovedToFront(e), Use(e.key)
  PROVE  /\ ll' \in Seq(Entry) /\ recent' \in Seq(Keys)
         /\ cache \cup {e.key} = {ll'[i].key : i \in DOMAIN ll'}
         /\ \A i, j \in DOMAIN ll' : ll'[i].key = ll'[j].key => i = j
         /\ RecentInv'
         /\ ll'[1] = e /\ 1 \in DOMAIN ll'
         /\ \A i \in DOMAIN ll' : i # 1 => \E j \in DOMAIN ll : ll'[i] = ll[j]
<1>0. /\ ll \in Seq(Entry) /\ recent \in Seq(Keys) /\ Len(ll) <= Len(recent)
      /\ Len(ll) \in Nat /\ Len(recent) \in Nat
      /\ DOMAIN recent = 1 .. Len(recent) /\ DOMAIN ll = 1 .. Len(ll)
      /\ \A i, j \in DOMAIN ll : ll[i].key = ll[j].key => i = j
      /\ \A i, j \in DOMAIN recent : recent[i] = recent[j] => i = j
      /\ \A i \in DOMAIN ll : recent[i] = ll[i].key
      /\ cache = {ll[i].key : i \in DOMAIN ll}
  BY DEF IInv, TypeOK, KeysInv, RecentInv
<1>1. CASE e.key \in cache
  <2> DEFINE i == Elem(e.key)
  <2>1. i \in 1 .. Len(ll) /\ ll[i].key = e.key
    BY <1>1, ElemFacts DEF IInv
  <2>2. /\ ll' \in Seq(Entry) /\ Len(ll') = Len(ll)
        /\ ll'[1] = e
        /\ \A j \in 2 .. i : ll'[j] = ll[j - 1]
        /\ \A j \in i + 1 .. Len(ll) : ll'[j] = ll[j]
    BY <1>1, MovedWhenThere
  <2>3. /\ recent' \in Seq(Keys) /\ Len(recent') = Len(recent)
        /\ recent'[1] = e.key
        /\ \A j \in 2 .. i : recent'[j] = recent[j - 1]
        /\ \A j \in i + 1 .. Len(recent) : recent'[j] = recent[j]
    BY <1>1, MovedWhenThere
  <2> HIDE DEF i
  <2>4. DOMAIN ll' = 1 .. Len(ll) /\ DOMAIN recent' = 1 .. Len(recent) /\ 1 \in DOMAIN ll'
    BY <1>0, <2>1, <2>2, <2>3
  <2>5. \A j \in DOMAIN ll' : j # 1 =>
          \E n \in DOMAIN ll : n # i /\ ll'[j] = ll[n] /\ (IF j <= i THEN n = j - 1 ELSE n = j)
    <3> SUFFICES ASSUME NEW j \in DOMAIN ll', j # 1
                 PROVE  \E n \in DOMAIN ll : n # i /\ ll'[j] = ll[n]
                                             /\ (IF j <= i THEN n = j - 1 ELSE n = j)
      OBVIOUS
    <3>1. CASE j <= i
      <4>1. j \in 2 .. i /\ j - 1 \in DOMAIN ll /\ j - 1 # i
        BY <1>0, <2>1, <2>4, <3>1
      <4> QED
        BY <2>2, <3>1, <4>1
    <3>2. CASE ~(j <= i)
      <4>1. j \in i + 1 .. Len(ll) /\ j \in DOMAIN ll /\ j # i
        BY <1>0, <2>1, <2>4, <3>2
      <4> QED
        BY <2>2, <3>2, <4>1
    <3> QED
      BY <3>1, <3>2
  <2>6. \A j \in DOMAIN recent' : j # 1 =>
          \E n \in DOMAIN recent : n # i /\ recent'[j] = recent[n]
                                   /\ (IF j <= i THEN n = j - 1 ELSE n = j)
    <3> SUFFICES ASSUME NEW j \in DOMAIN recent', j # 1
                 PROVE  \E n \in DOMAIN recent : n # i /\ recent'[j] = recent[n]
                                             /\ (IF j <= i THEN n = j - 1 ELSE n = j)
      OBVIOUS
    <3>1. CASE j <= i
      <4>1. j \in 2 .. i /\ j - 1 \in DOMAIN recent /\ j - 1 # i
        BY <1>0, <2>1, <2>4, <3>1
      <4> QED
        BY <2>3, <3>1, <4>1
    <3>2. CASE ~(j <= i)
      <4>1. j \in i + 1 .. Len(recent) /\ j \in DOMAIN recent /\ j # i
        BY <1>0, <2>1, <2>4, <3>2
      <4> QED
        BY <2>3, <3>2, <4>1
    <3> QED
      BY <3>1, <3>2
  <2>7. cache \cup {e.key} = {ll'[j].key : j \in DOMAIN ll'}
    <3>1. ASSUME NEW j \in DOMAIN ll' PROVE ll'[j].key \in cache
      BY <1>0, <1>1, <2>2, <2>5
    <3>2. ASSUME NEW n \in DOMAIN ll PROVE \E j \in DOMAIN ll' : ll'[j].key = ll[n].key
      <4>1. CASE n = i
        BY <2>1, <2>2, <2>4, <4>1
      <4>2. CASE n < i
        <5>1. n + 1 \in 2 .. i /\ n + 1 \in DOMAIN ll' /\ (n + 1) - 1 = n
          BY <1>0, <2>1, <2>4, <4>2
        <5> QED
          BY <2>2, <5>1
      <4>3. CASE n > i
        <5>1. n \in i + 1 .. Len(ll) /\ n \in DOMAIN ll'
          BY <1>0, <2>1, <2>4, <4>3
        <5> QED
          BY <2>2, <5>1
      <4> QED
        BY <1>0, <2>1, <4>1, <4>2, <4>3
    <3> QED
      BY <1>0, <1>1, <3>1, <3>2
  <2>8. ASSUME NEW j \in DOMAIN ll', NEW n \in DOMAIN ll', ll'[j].key = ll'[n].key
        PROVE  j = n
    BY <1>0, <2>1, <2>2, <2>4, <2>5, <2>8
  <2>9. ASSUME NEW j \in DOMAIN recent', NEW n \in DOMAIN recent', recent'[j] = recent'[n]
        PROVE  j = n
    <3>1. recent[i] = e.key /\ i \in DOMAIN recent
      BY <1>0, <2>1
    <3> QED
      BY <1>0, <2>1, <2>3, <2>4, <2>6, <2>9, <3>1
  <2>10. ASSUME NEW j \in DOMAIN ll' PROVE recent'[j] = ll'[j].key
    <3>1. CASE j = 1
      BY <2>2, <2>3, <3>1
    <3>2. CASE j # 1
      <4>1. j \in DOMAIN recent'
        BY <1>0, <2>4
      <4> QED
        BY <1>0, <2>4, <2>5, <2>6, <3>2, <4>1
    <3> QED
      BY <3>1, <3>2
  <2>11. RecentInv'
    BY <1>0, <2>2, <2>3, <2>9, <2>10 DEF RecentInv
  <2> QED
    BY <2>2, <2>3, <2>4, <2>5, <2>7, <2>8, <2>11
<1>2. CASE e.key \notin cache
  <2>1. /\ ll' \in Seq(Entry) /\ Len(ll') = Len(ll) + 1
        /\ ll'[1] = e
        /\ \A j \in 2 .. Len(ll) + 1 : ll'[j] = ll[j - 1]
        /\ recent' \in Seq(Keys)
        /\ recent'[1] = e.key
    BY <1>2, PushedWhenNew
  <2>2. PICK m \in Len(ll) + 1 .. Len(recent) + 1 :
              /\ Len(recent') = IF m = Len(recent) + 1 THEN m ELSE Len(recent)
              /\ m <= Len(recent) => recent[m] = e.key
              /\ m = Len(recent) + 1 => e.key \notin Range(recent)
              /\ \A j \in 2 .. m : recent'[j] = recent[j - 1]
              /\ \A j \in m + 1 .. Len(recent) : recent'[j] = recent[j]
    BY <1>2, PushedWhenNew
  <2>3. /\ DOMAIN ll' = 1 .. Len(ll) + 1 /\ 1 \in DOMAIN ll'
        /\ DOMAIN recent' = 1 .. Len(recent')
        /\ Len(recent') >= Len(ll) + 1
    BY <1>0, <2>1, <2>2
  <2>4. \A j \in DOMAIN ll' : j # 1 => j - 1 \in DOMAIN ll /\ ll'[j] = ll[j - 1]
    BY <1>0, <2>1, <2>3
  <2>5. \A j \in DOMAIN recent' : j # 1 =>
          \E n \in DOMAIN recent : n # m /\ recent'[j] = recent[n]
                                   /\ (IF j <= m THEN n = j - 1 ELSE n = j)
    <3> SUFFICES ASSUME NEW j \in DOMAIN recent', j # 1
                 PROVE  \E n \in DOMAIN recent : n # m /\ recent'[j] = recent[n]
                                             /\ (IF j <= m THEN n = j - 1 ELSE n = j)
      OBVIOUS
    <3>1. CASE j <= m
      <4>1. j \in 2 .. m /\ j - 1 \in DOMAIN recent /\ j - 1 # m
        BY <1>0, <2>2, <2>3, <3>1
      <4> QED
        BY <2>2, <3>1, <4>1
    <3>2. CASE ~(j <= m)
      <4>1. j \in m + 1 .. Len(recent) /\ j \in DOMAIN recent /\ j # m
        BY <1>0, <2>2, <2>3, <3>2
      <4> QED
        BY <2>2, <3>2, <4>1
    <3> QED
      BY <3>1, <3>2
  <2>6. \A n \in DOMAIN recent : recent[n] = e.key => n = m
    <3>1. CASE m = Len(recent) + 1
      BY <2>2, <3>1 DEF Range
    <3>2. CASE m # Len(recent) + 1
      <4>1. m \in DOMAIN recent /\ m <= Len(recent)
        BY <1>0, <3>2
      <4> QED
        BY <1>0, <2>2, <4>1
    <3> QED
      BY <3>1, <3>2
  <2>7. cache \cup {e.key} = {ll'[j].key : j \in DOMAIN ll'}
    <3>1. ASSUME NEW j \in DOMAIN ll' PROVE ll'[j].key \in cache \cup {e.key}
      BY <1>0, <2>1, <2>4
    <3>2. ASSUME NEW n \in DOMAIN ll PROVE \E j \in DOMAIN ll' : ll'[j].key = ll[n].key
      <4>1. n + 1 \in DOMAIN ll' /\ n + 1 # 1 /\ (n + 1) - 1 = n
        BY <1>0, <2>3
      <4> QED
        BY <2>4, <4>1
    <3>3. ASSUME NEW k \in cache PROVE \E j \in DOMAIN ll' : ll'[j].key = k
      <4>1. PICK n \in DOMAIN ll : k = ll[n].key
        BY <1>0
      <4> QED
        BY <3>2, <4>1
    <3>4. \E j \in DOMAIN ll' : ll'[j].key = e.key
      BY <2>1, <2>3
    <3> QED
      BY <3>1, <3>3, <3>4
  <2>8. ASSUME NEW j \in DOMAIN ll', NEW n \in DOMAIN ll', ll'[j].key = ll'[n].key
        PROVE  j = n
    BY <1>0, <1>2, <2>1, <2>3, <2>4, <2>8
  <2>9. ASSUME NEW j \in DOMAIN recent', NEW n \in DOMAIN recent', recent'[j] = recent'[n]
        PROVE  j = n
    <3>1. CASE j = 1 /\ n # 1
      BY <2>1, <2>5, <2>6, <2>9, <3>1
    <3>2. CASE j # 1 /\ n = 1
      BY <2>1, <2>5, <2>6, <2>9, <3>2
    <3>3. CASE j # 1 /\ n # 1
      <4>1. PICK p \in DOMAIN recent : p # m /\ recent'[j] = recent[p]
                                       /\ (IF j <= m THEN p = j - 1 ELSE p = j)
        BY <2>5, <3>3
      <4>2. PICK q \in DOMAIN recent : q # m /\ recent'[n] = recent[q]
                                       /\ (IF n <= m THEN q = n - 1 ELSE q = n)
        BY <2>5, <3>3
      <4>3. p = q
        BY <1>0, <2>9, <4>1, <4>2
      <4> QED
        BY <1>0, <2>2, <2>3, <4>1, <4>2, <4>3
    <3> QED
      BY <3>1, <3>2, <3>3
  <2>10. ASSUME NEW j \in DOMAIN ll' PROVE recent'[j] = ll'[j].key
    <3>1. CASE j = 1
      BY <2>1, <3>1
    <3>2. CASE j # 1
      <4>1. j \in DOMAIN recent' /\ j <= m
        BY <1>0, <2>2, <2>3
      <4> QED
        BY <1>0, <2>4, <2>5, <3>2, <4>1
    <3> QED
      BY <3>1, <3>2
  <2>11. RecentInv'
    BY <1>0, <2>1, <2>3, <2>9, <2>10 DEF RecentInv
  <2> QED
    BY <2>1, <2>3, <2>4, <2>7, <2>8, <2>11
<1> QED
  BY <1>1, <1>2

-----------------------------------------------------------------------------
(* The inductive invariant.                                                *)

\* An empty list, an empty map and no bytes.
LEMMA InitIInv == Init => IInv
<1> SUFFICES ASSUME Init PROVE IInv
  OBVIOUS
<1>1. TypeOK
  BY DEF Init, TypeOK
<1>2. ll = <<>> /\ recent = <<>> /\ Len(ll) = 0 /\ Len(recent) = 0 /\ DOMAIN ll = {}
      /\ DOMAIN recent = {} /\ ll \in Seq(Entry)
  BY DEF Init
<1>3. KeysInv
  BY <1>2 DEF Init, KeysInv
<1>4. BytesInv
  BY <1>2, SizeOfDef DEF Init, BytesInv
<1>5. RecentInv
  BY <1>2 DEF RecentInv
<1>6. LoopInv
  BY DEF Init, LoopInv
<1> QED
  BY <1>1, <1>3, <1>4, <1>5, <1>6 DEF IInv

\* What Growth adds to nbytes is what the list grows by.
LEMMA AddedBytes ==
  ASSUME IInv, NEW k \in Keys, NEW v \in Values,
         ll' = MovedToFront([key |-> k, value |-> v]), Use(k)
  PROVE  nbytes + Growth(k, v) = SizeOf(ll', Len(ll'))
<1> DEFINE e == [key |-> k, value |-> v]
<1>0. ll \in Seq(Entry) /\ nbytes = SizeOf(ll, Len(ll)) /\ nbytes \in Nat
  BY DEF IInv, TypeOK, BytesInv
<1>1. e \in Entry /\ e.key = k /\ e.value = v /\ Size(e) = KeyLen[k] + ValueLen[v]
  BY DEF Entry, Size
<1>a. ll' = MovedToFront(e)
  OBVIOUS
<1> HIDE DEF e
<1>2. KeyLen[k] \in Nat /\ ValueLen[v] \in Nat
  BY LruAssumption
<1>3. CASE k \in cache
  <2> DEFINE i == Elem(k)
  <2>1. i \in 1 .. Len(ll) /\ ll[i].key = k
    BY <1>3, ElemFacts DEF IInv
  <2>2. ll' = <<e>> \o RemoveAt(ll, i)
    BY <1>1, <1>3, <1>a DEF MovedToFront
  <2>3. Growth(k, v) = ValueLen[v] - ValueLen[ll[i].value]
    BY <1>3 DEF Growth
  <2> HIDE DEF i
  <2>4. Moved(Entry, ll, i, e, ll')
    BY <1>0, <1>1, <2>1, <2>2, MoveFacts
  <2>5. Len(ll') = Len(ll)
    BY <2>4 DEF Moved
  <2>6. SizeOf(ll', Len(ll)) = nbytes - Size(ll[i]) + Size(e)
    BY <1>0, <1>1, <2>1, <2>2, SizeOfMoved
  <2>7. ll[i] \in Entry
    BY <1>0, <2>1
  <2>8. Size(ll[i]) = KeyLen[k] + ValueLen[ll[i].value] /\ ValueLen[ll[i].value] \in Nat
    BY <2>1, <2>7, LruAssumption DEF Size, Entry
  <2> QED
    BY <1>0, <1>1, <1>2, <2>3, <2>5, <2>6, <2>8
<1>4. CASE k \notin cache
  <2>1. ll' = <<e>> \o ll
    BY <1>1, <1>4, <1>a DEF MovedToFront
  <2>2. Growth(k, v) = KeyLen[k] + ValueLen[v]
    BY <1>4 DEF Growth
  <2>3. Len(ll') = Len(ll) + 1
    BY <1>0, <1>1, <2>1
  <2>4. SizeOf(ll', Len(ll) + 1) = Size(e) + nbytes
    BY <1>0, <1>1, <2>1, SizeOfPushed
  <2> QED
    BY <1>0, <1>1, <1>2, <2>2, <2>3, <2>4
<1> QED
  BY <1>3, <1>4

\* Get moves the element it finds, and counts no bytes.
LEMMA GetIInv ==
  ASSUME IInv, NEW k \in Keys, Get(k)
  PROVE  IInv'
<1> DEFINE i == Elem(k)
           e == ll[i]
<1>0. k \in cache /\ pc = "ready" /\ ll \in Seq(Entry)
  BY DEF Get, IInv, TypeOK
<1>1. i \in 1 .. Len(ll) /\ e \in Entry /\ e.key = k
  BY <1>0, ElemFacts DEF IInv
<1>2. ll' = MovedToFront(e) /\ Use(e.key)
  BY <1>1 DEF Get
<1>3. ll' = <<e>> \o RemoveAt(ll, i)
  BY <1>0, <1>1, <1>2 DEF MovedToFront
<1> HIDE DEF e, i
<1>4. /\ ll' \in Seq(Entry) /\ recent' \in Seq(Keys)
      /\ cache \cup {k} = {ll'[j].key : j \in DOMAIN ll'}
      /\ \A j, n \in DOMAIN ll' : ll'[j].key = ll'[n].key => j = n
      /\ RecentInv'
  BY <1>1, <1>2, ToFront
<1>5. TypeOK'
  BY <1>4 DEF Get, IInv, TypeOK
<1>6. KeysInv'
  BY <1>0, <1>4 DEF Get, KeysInv
<1>7. BytesInv'
  <2>1. Moved(Entry, ll, i, e, ll')
    BY <1>0, <1>1, <1>3, MoveFacts
  <2>2. Len(ll') = Len(ll)
    BY <2>1 DEF Moved
  <2>3. SizeOf(ll', Len(ll)) = SizeOf(ll, Len(ll)) - Size(ll[i]) + Size(e)
    BY <1>0, <1>1, <1>3, SizeOfMoved
  <2>4. Size(ll[i]) = Size(e) /\ Size(e) \in Nat
    BY <1>1, SizeType DEF e
  <2>5. nbytes = SizeOf(ll, Len(ll)) /\ nbytes \in Nat /\ nbytes' = nbytes
    BY DEF Get, IInv, BytesInv, TypeOK
  <2> QED
    BY <2>2, <2>3, <2>4, <2>5 DEF BytesInv
<1>8. LoopInv'
  BY <1>0 DEF Get, LoopInv
<1> QED
  BY <1>4, <1>5, <1>6, <1>7, <1>8 DEF IInv

\* Add counts the difference of the values, or the new entry, and enters the loop.
LEMMA AddIInv ==
  ASSUME IInv, NEW k \in Keys, NEW v \in Values, Add(k, v)
  PROVE  IInv'
<1> DEFINE e == [key |-> k, value |-> v]
<1>1. e \in Entry /\ e.key = k
  BY DEF Entry
<1>2. ll' = MovedToFront(e) /\ Use(e.key)
  BY DEF Add
<1>3. nbytes' = SizeOf(ll', Len(ll'))
  BY AddedBytes DEF Add
<1> HIDE DEF e
<1>4. /\ ll' \in Seq(Entry) /\ recent' \in Seq(Keys)
      /\ cache \cup {k} = {ll'[j].key : j \in DOMAIN ll'}
      /\ \A j, n \in DOMAIN ll' : ll'[j].key = ll'[n].key => j = n
      /\ RecentInv'
  BY <1>1, <1>2, ToFront
<1>5. nbytes' \in Nat
  BY <1>3, <1>4, SizeOfType
<1>6. TypeOK'
  BY <1>4, <1>5 DEF Add, IInv, TypeOK
<1>7. KeysInv'
  BY <1>4 DEF Add, KeysInv
<1>8. LoopInv'
  <2>1. full' = ll' /\ ll' = SubSeq(ll', 1, Len(ll')) /\ Len(ll') \in Nat
    BY <1>4 DEF Add
  <2> QED
    BY <2>1 DEF LoopInv
<1> QED
  BY <1>3, <1>4, <1>6, <1>7, <1>8 DEF IInv, BytesInv

\* The list, the map, the counter and recent after a removal.
LEMMA RemovalIInv ==
  ASSUME IInv, ll # <<>>, Removal, UNCHANGED <<maxBytes, pc, full, recent>>
  PROVE  /\ TypeOK' /\ KeysInv' /\ BytesInv' /\ RecentInv'
         /\ Len(ll) \in Nat \ {0} /\ Len(ll') = Len(ll) - 1
         /\ DOMAIN ll = 1 .. Len(ll) /\ DOMAIN ll' = 1 .. Len(ll) - 1
         /\ \A i \in 1 .. Len(ll) - 1 : ll'[i] = ll[i]
<1> DEFINE n == Len(ll)
           e == ll[n]
<1>0. /\ ll \in Seq(Entry) /\ recent \in Seq(Keys) /\ n <= Len(recent)
      /\ n \in Nat \ {0} /\ DOMAIN ll = 1 .. n /\ DOMAIN recent = 1 .. Len(recent)
      /\ nbytes \in Nat /\ nbytes = SizeOf(ll, n) /\ e \in Entry
  BY DEF IInv, TypeOK, BytesInv, RecentInv
<1>1. ll' = SubSeq(ll, 1, n - 1) /\ cache' = cache \ {e.key} /\ nbytes' = nbytes - Size(e)
  BY DEF Removal
<1> HIDE DEF n, e
<1>2. /\ ll' \in Seq(Entry) /\ Len(ll') = n - 1 /\ DOMAIN ll' = 1 .. n - 1
      /\ \A i \in 1 .. n - 1 : ll'[i] = ll[i]
  BY <1>0, <1>1
<1>3. BytesInv' /\ nbytes' \in Nat
  <2>1. SizeOf(ll, n) = SizeOf(ll, n - 1) + Size(e)
    BY <1>0, SizeOfDef DEF n, e
  <2>2. SizeOf(ll', n - 1) = SizeOf(ll, n - 1)
    BY <1>0, <1>2, SizeOfPrefix DEF n
  <2>3. SizeOf(ll, n - 1) \in Nat /\ Size(e) \in Nat
    BY <1>0, SizeOfType, SizeType DEF n
  <2> QED
    BY <1>0, <1>1, <1>2, <2>1, <2>2, <2>3 DEF BytesInv
<1>4. KeysInv'
  <2>1. /\ cache = {ll[i].key : i \in DOMAIN ll}
        /\ \A i, j \in DOMAIN ll : ll[i].key = ll[j].key => i = j
    BY DEF IInv, KeysInv
  <2>2. \A i, j \in DOMAIN ll' : ll'[i].key = ll'[j].key => i = j
    BY <1>0, <1>2, <2>1
  <2>3. ASSUME NEW i \in DOMAIN ll' PROVE ll'[i].key \in cache'
    <3>1. i \in DOMAIN ll /\ n \in DOMAIN ll /\ i # n /\ ll'[i] = ll[i]
      BY <1>0, <1>2
    <3> QED
      BY <1>1, <2>1, <3>1 DEF e
  <2>4. ASSUME NEW k \in cache' PROVE \E i \in DOMAIN ll' : ll'[i].key = k
    <3>1. PICK i \in DOMAIN ll : ll[i].key = k
      BY <1>1, <2>1
    <3>2. i # n
      BY <1>1, <3>1 DEF e
    <3>3. i \in DOMAIN ll'
      BY <1>0, <1>2, <3>2
    <3> QED
      BY <1>2, <3>1, <3>3
  <2>5. cache' = {ll'[i].key : i \in DOMAIN ll'}
    BY <2>3, <2>4
  <2> QED
    BY <2>2, <2>5 DEF KeysInv
<1>5. RecentInv'
  <2>1. \A i \in DOMAIN ll' : recent[i] = ll'[i].key
    BY <1>0, <1>2 DEF IInv, RecentInv
  <2> QED
    BY <1>0, <1>2, <2>1 DEF IInv, RecentInv
<1>6. TypeOK'
  BY <1>1, <1>2, <1>3 DEF IInv, TypeOK
<1> QED
  BY <1>0, <1>2, <1>3, <1>4, <1>5, <1>6 DEF n

\* RemoveOldest takes the last element from the list, the map and the bytes.
LEMMA RemoveOldestIInv ==
  ASSUME IInv, RemoveOldest, pc = "ready" \/ Overfull
  PROVE  IInv'
<1>1. CASE ll = <<>> /\ UNCHANGED <<ll, cache, nbytes>>
  <2>1. UNCHANGED vars
    BY <1>1 DEF RemoveOldest, vars
  <2> QED
    BY <2>1 DEF vars, IInv, TypeOK, KeysInv, BytesInv, RecentInv, LoopInv
<1>2. CASE ll # <<>> /\ Removal
  <2> DEFINE n == Len(ll)
  <2>1. UNCHANGED <<maxBytes, pc, full, recent>>
    BY DEF RemoveOldest
  <2>2. /\ TypeOK' /\ KeysInv' /\ BytesInv' /\ RecentInv'
        /\ n \in Nat \ {0} /\ Len(ll') = n - 1
        /\ DOMAIN ll = 1 .. n /\ DOMAIN ll' = 1 .. n - 1
        /\ \A i \in 1 .. n - 1 : ll'[i] = ll[i]
    BY <1>2, <2>1, RemovalIInv
  <2>3. CASE pc = "ready"
    BY <2>1, <2>2, <2>3 DEF IInv, LoopInv
  <2>4. CASE pc = "evict" /\ Overfull
    <3>0. full \in Seq(Entry) /\ ll \in Seq(Entry) /\ ll' \in Seq(Entry)
          /\ nbytes = SizeOf(ll, n)
      BY <2>2 DEF IInv, TypeOK, BytesInv
    <3>1. /\ n <= Len(full) /\ ll = SubSeq(full, 1, n)
          /\ \A m \in n + 1 .. Len(full) : maxBytes # 0 /\ SizeOf(full, m) > maxBytes
      BY <2>4 DEF IInv, LoopInv
    <3> HIDE DEF n
    <3>2. \A i \in 1 .. n : ll[i] = full[i]
      BY <2>2, <3>0, <3>1
    <3>3. ll' = SubSeq(full, 1, n - 1)
      <4>1. \A i \in 1 .. n - 1 : ll'[i] = full[i]
        BY <2>2, <3>2
      <4>2. SubSeq(full, 1, n - 1) = [i \in 1 .. n - 1 |-> full[i]]
        BY <2>2, <3>0, <3>1
      <4>3. ll' = [i \in 1 .. n - 1 |-> ll'[i]]
        BY <2>2, <3>0
      <4> QED
        BY <4>1, <4>2, <4>3
    <3>4. maxBytes # 0 /\ SizeOf(full, n) > maxBytes
      <4>1. SizeOf(full, n) = SizeOf(ll, n)
        BY <2>2, <3>0, <3>1, <3>2, SizeOfPrefix DEF n
      <4>2. maxBytes \in Int /\ nbytes \in Nat
        BY LruAssumption DEF IInv, TypeOK
      <4> QED
        BY <2>4, <3>0, <4>1, <4>2 DEF Overfull
    <3>5. \A m \in n .. Len(full) : maxBytes # 0 /\ SizeOf(full, m) > maxBytes
      BY <2>2, <3>0, <3>1, <3>4
    <3>6. Len(ll') = n - 1 /\ (n - 1) + 1 = n /\ n - 1 <= Len(full)
      BY <2>2, <3>0, <3>1
    <3>7. LoopInv'
      BY <2>1, <3>3, <3>5, <3>6 DEF LoopInv
    <3> QED
      BY <2>2, <3>7 DEF IInv
  <2> QED
    BY <2>3, <2>4 DEF IInv, TypeOK
<1> QED
  BY <1>1, <1>2 DEF RemoveOldest

\* Every step keeps the invariant: one case for each action.
LEMMA NextIInv == IInv /\ [Next]_vars => IInv'
<1> SUFFICES ASSUME IInv, [Next]_vars PROVE IInv'
  OBVIOUS
<1>1. ASSUME NEW k \in Keys, Get(k) PROVE IInv'
  BY <1>1, GetIInv
<1>2. ASSUME NEW k \in Keys, NEW v \in Values, Add(k, v) PROVE IInv'
  BY <1>2, AddIInv
<1>3. CASE RemoveOldestCalled
  BY <1>3, RemoveOldestIInv DEF RemoveOldestCalled
<1>4. CASE Evict
  BY <1>4, RemoveOldestIInv DEF Evict
<1>5. CASE AddReturns
  BY <1>5 DEF AddReturns, IInv, TypeOK, KeysInv, BytesInv, RecentInv, LoopInv
<1>6. CASE UNCHANGED vars
  BY <1>6 DEF vars, IInv, TypeOK, KeysInv, BytesInv, RecentInv, LoopInv
<1> QED
  BY <1>1, <1>2, <1>3, <1>4, <1>5, <1>6 DEF Next

\* The parts of lru.Cache stay together in the way IInv says.
THEOREM Invariance == Spec => []IInv
  BY InitIInv, NextIInv, PTL DEF Spec

-----------------------------------------------------------------------------
(* The properties.                                                         *)

\* The list and the map have the same keys, and nbytes is their size.
LEMMA IInvCoherent == IInv => Coherent
<1> SUFFICES ASSUME IInv PROVE Coherent
  OBVIOUS
<1>0. /\ ll \in Seq(Entry) /\ Len(ll) \in Nat /\ DOMAIN ll = 1 .. Len(ll)
      /\ cache = {ll[i].key : i \in DOMAIN ll}
      /\ \A i, j \in DOMAIN ll : ll[i].key = ll[j].key => i = j
  BY DEF IInv, TypeOK, KeysInv
<1> DEFINE f == [i \in 1 .. Len(ll) |-> ll[i].key]
<1>1. f \in [1 .. Len(ll) -> cache] /\ \A k \in cache : \E i \in 1 .. Len(ll) : f[i] = k
  BY <1>0
<1>2. \A i, j \in DOMAIN f : f[i] = f[j] => i = j
  BY <1>0
<1> HIDE DEF f
<1>3. f \in Bijection(1 .. Len(ll), cache)
  BY <1>1, <1>2 DEF Bijection, Injection, Surjection, IsInjective
<1>4. ExistsBijection(1 .. Len(ll), cache)
  BY <1>3 DEF ExistsBijection
<1>5. Cardinality(cache) = Len(ll)
  BY <1>0, <1>4, FS_CountingElements
<1> QED
  BY <1>0, <1>5 DEF Coherent, IInv, BytesInv

\* Get, Add and RemoveOldest keep the list, the map and the counter together.
THEOREM StaysCoherent == Spec => []Coherent
  BY Invariance, IInvCoherent, PTL

\* When the loop of Add ends, the list is the longest front part that fits.
LEMMA IInvFitsTightly == IInv => FitsTightly
<1> SUFFICES ASSUME IInv, pc = "evict", ~Overfull, maxBytes >= 0
             PROVE  ll = SubSeq(full, 1, Max({n \in 0 .. Len(full) :
                                   maxBytes = 0 \/ SizeOf(full, n) <= maxBytes}))
  BY DEF FitsTightly
<1> DEFINE A == {n \in 0 .. Len(full) : maxBytes = 0 \/ SizeOf(full, n) <= maxBytes}
           m == Len(ll)
<1>0. /\ ll \in Seq(Entry) /\ full \in Seq(Entry) /\ Len(full) \in Nat
      /\ maxBytes \in Int /\ nbytes \in Nat /\ nbytes = SizeOf(ll, m) /\ m \in Nat
  BY LruAssumption DEF IInv, TypeOK, BytesInv
<1>1. /\ m <= Len(full) /\ ll = SubSeq(full, 1, m)
      /\ \A n \in m + 1 .. Len(full) : maxBytes # 0 /\ SizeOf(full, n) > maxBytes
  BY DEF IInv, LoopInv
<1>2. \A n \in 0 .. Len(full) : SizeOf(full, n) \in Nat
  BY <1>0, SizeOfType
<1>3. m \in A
  <2>1. \A i \in 1 .. m : ll[i] = full[i]
    BY <1>0, <1>1
  <2>2. SizeOf(full, m) = nbytes
    BY <1>0, <1>1, <2>1, SizeOfPrefix
  <2>3. maxBytes = 0 \/ nbytes <= maxBytes
    BY <1>0 DEF Overfull
  <2> QED
    BY <1>0, <1>1, <2>2, <2>3
<1>4. \A n \in A : m >= n
  BY <1>0, <1>1, <1>2
<1>5. A \subseteq Int /\ m \in Int
  BY <1>0
<1> HIDE DEF A, m
<1>6. Max(A) = m
  <2>1. \A x \in A : (\A y \in A : x >= y) => x = m
    BY <1>3, <1>4, <1>5
  <2> QED
    BY <1>3, <1>4, <2>1 DEF Max
<1> QED
  BY <1>1, <1>6 DEF A

\* The loop of Add keeps as much as fits within maxBytes, and no less.
THEOREM KeepsWhatFits == Spec => []FitsTightly
  BY Invariance, IInvFitsTightly, PTL

\* What the cache holds is what was used last.
LEMMA IInvHoldsMostRecent == IInv => HoldsMostRecent
<1> SUFFICES ASSUME IInv PROVE HoldsMostRecent
  OBVIOUS
<1>0. /\ ll \in Seq(Entry) /\ recent \in Seq(Keys) /\ Len(ll) \in Nat
      /\ DOMAIN ll = 1 .. Len(ll) /\ Len(ll) <= Len(recent)
      /\ \A i \in DOMAIN ll : recent[i] = ll[i].key
  BY DEF IInv, TypeOK, RecentInv
<1>1. SubSeq(recent, 1, Len(ll)) = [i \in 1 .. Len(ll) |-> recent[i]]
  BY <1>0
<1> QED
  BY <1>0, <1>1 DEF HoldsMostRecent

\* Eviction is by last use.
THEOREM EvictsLeastRecent == Spec => []HoldsMostRecent
  BY Invariance, IInvHoldsMostRecent, PTL

-----------------------------------------------------------------------------
(* The cache as a map.                                                     *)

\* A list without duplicates is a map from its keys.
MapInv ==
  /\ AsMap = [k \in Keys |-> AsMap[k]]
  /\ \A i \in DOMAIN ll : ll[i].key \in Keys /\ AsMap[ll[i].key] = ll[i].value
  /\ \A k \in Keys \ cache : AsMap[k] = NoValue

\* A coherent cache is a map from keys to values.
LEMMA MapFacts == TypeOK /\ KeysInv => MapInv
<1> SUFFICES ASSUME TypeOK, KeysInv PROVE MapInv
  OBVIOUS
<1>1. AsMap = [k \in Keys |-> AsMap[k]]
  BY DEF AsMap
<1>2. \A k \in Keys \ cache : AsMap[k] = NoValue
  BY DEF AsMap
<1>3. ASSUME NEW i \in DOMAIN ll
      PROVE  ll[i].key \in Keys /\ AsMap[ll[i].key] = ll[i].value
  <2>1. ll[i].key \in cache /\ ll[i].key \in Keys
    BY DEF KeysInv, TypeOK
  <2>2. Elem(ll[i].key) \in 1 .. Len(ll) /\ ll[Elem(ll[i].key)].key = ll[i].key
    BY <2>1, ElemFacts
  <2>3. Elem(ll[i].key) = i
    BY <2>2 DEF KeysInv, TypeOK
  <2> QED
    BY <2>1, <2>3 DEF AsMap
<1> QED
  BY <1>1, <1>2, <1>3 DEF MapInv

\* Moving an entry to the front changes the value of its key only.
LEMMA ToFrontMap ==
  ASSUME IInv, IInv', NEW e \in Entry, ll' = MovedToFront(e), Use(e.key),
         cache' = cache \cup {e.key}
  PROVE  AsMap' = [AsMap EXCEPT ![e.key] = e.value]
<1>0. TypeOK /\ KeysInv /\ TypeOK' /\ KeysInv' /\ e.key \in Keys
  BY DEF IInv, Entry
<1>1. /\ ll'[1] = e /\ 1 \in DOMAIN ll'
      /\ \A i \in DOMAIN ll' : i # 1 => \E j \in DOMAIN ll : ll'[i] = ll[j]
  BY ToFront
<1>2. /\ AsMap = [k \in Keys |-> AsMap[k]]
      /\ \A i \in DOMAIN ll : ll[i].key \in Keys /\ AsMap[ll[i].key] = ll[i].value
      /\ \A k \in Keys \ cache : AsMap[k] = NoValue
  BY <1>0, MapFacts DEF MapInv
<1>3. /\ AsMap' = [k \in Keys |-> AsMap'[k]]
      /\ \A i \in DOMAIN ll' : ll'[i].key \in Keys /\ AsMap'[ll'[i].key] = ll'[i].value
      /\ \A k \in Keys \ cache' : AsMap'[k] = NoValue
  <2>1. MapInv'
    BY <1>0, MapFacts, PTL
  <2> QED
    BY <2>1 DEF MapInv
<1>4. AsMap'[e.key] = e.value
  BY <1>1, <1>3
<1>5. ASSUME NEW k \in Keys, k # e.key PROVE AsMap'[k] = AsMap[k]
  <2>1. CASE k \notin cache
    BY <1>2, <1>3, <1>5, <2>1
  <2>2. CASE k \in cache
    <3>1. PICK i \in DOMAIN ll' : ll'[i].key = k
      BY <1>0, <2>2 DEF KeysInv
    <3>2. i # 1
      BY <1>1, <1>5, <3>1
    <3>3. PICK j \in DOMAIN ll : ll'[i] = ll[j]
      BY <1>1, <3>2
    <3> QED
      BY <1>2, <1>3, <3>1, <3>3
  <2> QED
    BY <2>1, <2>2
<1> HIDE DEF AsMap
<1> QED
  BY <1>0, <1>2, <1>3, <1>4, <1>5

\* Every step changes the value of one key, drops one key, or changes nothing.
LEMMA StepMaps ==
  ASSUME IInv, IInv', [Next]_vars
  PROVE  [Abstract!Next]_AsMap
<1>0. TypeOK /\ KeysInv /\ TypeOK' /\ KeysInv'
  BY DEF IInv
<1>1. ASSUME UNCHANGED <<ll, cache>> PROVE AsMap' = AsMap
  BY <1>1 DEF AsMap, Elem
<1>m. /\ AsMap = [k \in Keys |-> AsMap[k]]
      /\ \A i \in DOMAIN ll : ll[i].key \in Keys /\ AsMap[ll[i].key] = ll[i].value
      /\ \A k \in Keys \ cache : AsMap[k] = NoValue
  BY <1>0, MapFacts DEF MapInv
<1>2. ASSUME NEW k \in Keys, Get(k) PROVE AsMap' = AsMap
  <2> DEFINE i == Elem(k)
             e == ll[i]
  <2>1. k \in cache /\ i \in 1 .. Len(ll) /\ e.key = k /\ DOMAIN ll = 1 .. Len(ll) /\ e \in Entry
    BY <1>0, <1>2, ElemFacts DEF Get, TypeOK
  <2>2. ll' = MovedToFront(e) /\ Use(e.key) /\ cache' = cache \cup {e.key}
    BY <1>2, <2>1 DEF Get
  <2>3. AsMap[k] = e.value
    BY <1>m, <2>1
  <2> HIDE DEF e, i
  <2>4. AsMap' = [AsMap EXCEPT ![k] = e.value]
    BY <2>1, <2>2, ToFrontMap
  <2> HIDE DEF AsMap
  <2> QED
    BY <1>m, <2>3, <2>4
<1>3. ASSUME NEW k \in Keys, NEW v \in Values, Add(k, v) PROVE Abstract!Next
  <2> DEFINE e == [key |-> k, value |-> v]
  <2>1. e \in Entry /\ e.key = k /\ e.value = v
    BY DEF Entry
  <2>2. ll' = MovedToFront(e) /\ Use(e.key) /\ cache' = cache \cup {e.key}
    BY <1>3 DEF Add
  <2> HIDE DEF e
  <2>3. AsMap' = [AsMap EXCEPT ![k] = v]
    BY <2>1, <2>2, ToFrontMap
  <2> QED
    BY <2>3 DEF Abstract!Next, Abstract!Put
<1>4. ASSUME RemoveOldest PROVE [Abstract!Next]_AsMap
  <2>1. CASE UNCHANGED <<ll, cache, nbytes>>
    BY <1>1, <2>1
  <2>2. CASE ll # <<>> /\ Removal
    <3> DEFINE n == Len(ll)
               k == ll[n].key
    <3>1. UNCHANGED <<maxBytes, pc, full, recent>>
      BY <1>4 DEF RemoveOldest
    <3>2. /\ n \in Nat \ {0} /\ DOMAIN ll = 1 .. n /\ DOMAIN ll' = 1 .. n - 1
          /\ \A i \in 1 .. n - 1 : ll'[i] = ll[i]
      BY <2>2, <3>1, RemovalIInv
    <3>3. cache' = cache \ {k} /\ n \in DOMAIN ll /\ k \in Keys
      <4>1. n \in DOMAIN ll
        BY <3>2
      <4>2. cache' = cache \ {k}
        BY <2>2 DEF Removal
      <4> QED
        BY <1>m, <4>1, <4>2
    <3>4. AsMap[k] = ll[n].value /\ ll[n].value \in Values
      <4>1. AsMap[k] = ll[n].value
        BY <1>m, <3>3
      <4>2. ll[n] \in Entry
        BY <1>0, <3>3 DEF TypeOK
      <4> QED
        BY <4>1, <4>2 DEF Entry
    <3>m. /\ AsMap' = [j \in Keys |-> AsMap'[j]]
          /\ \A i \in DOMAIN ll' : ll'[i].key \in Keys /\ AsMap'[ll'[i].key] = ll'[i].value
          /\ \A j \in Keys \ cache' : AsMap'[j] = NoValue
      <4>1. MapInv'
        BY <1>0, MapFacts, PTL
      <4> QED
        BY <4>1 DEF MapInv
    <3>5. AsMap'[k] = NoValue
      BY <3>3, <3>m
    <3> HIDE DEF k, n
    <3>6. ASSUME NEW j \in Keys, j # k PROVE AsMap'[j] = AsMap[j]
      <4>1. CASE j \notin cache
        BY <1>m, <3>3, <3>m, <3>6, <4>1
      <4>2. CASE j \in cache
        <5>0. j \in cache' /\ cache' = {ll'[i].key : i \in DOMAIN ll'}
          BY <1>0, <3>3, <3>6, <4>2 DEF KeysInv
        <5>1. PICK i \in DOMAIN ll' : ll'[i].key = j
          BY <5>0
        <5>2. i \in DOMAIN ll /\ ll'[i] = ll[i]
          BY <3>2
        <5> QED
          BY <1>m, <3>m, <5>1, <5>2
      <4> QED
        BY <4>1, <4>2
    <3> HIDE DEF AsMap
    <3>7. AsMap' = [AsMap EXCEPT ![k] = NoValue]
      BY <1>m, <3>m, <3>3, <3>5, <3>6
    <3>8. AsMap[k] # NoValue
      BY <3>4, LruAssumption
    <3> QED
      BY <3>3, <3>7, <3>8 DEF Abstract!Next, Abstract!Drop
  <2> QED
    BY <1>4, <2>1, <2>2 DEF RemoveOldest
<1> QED
  <2>1. CASE RemoveOldestCalled
    BY <1>4, <2>1 DEF RemoveOldestCalled
  <2>2. CASE Evict
    BY <1>4, <2>2 DEF Evict
  <2>3. CASE AddReturns
    BY <1>1, <2>3 DEF AddReturns
  <2>4. CASE UNCHANGED vars
    BY <1>1, <2>4 DEF vars
  <2> QED
    BY <1>2, <1>3, <2>1, <2>2, <2>3, <2>4 DEF Next

\* lru.Cache is the map of EvictingMap.
THEOREM Refinement == Spec => ImplementsMap
<1>1. Init => Abstract!Init
  BY DEF Init, Abstract!Init, AsMap
<1>2. IInv /\ IInv' /\ [Next]_vars => [Abstract!Next]_AsMap
  BY StepMaps
<1> QED
  BY <1>1, <1>2, Invariance, PTL DEF Spec, ImplementsMap, Abstract!Spec
=============================================================================
