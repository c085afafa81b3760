--------------------------- MODULE SequenceFacts ---------------------------
(***************************************************************************)
(* What queues and lists do to the set of what is on them.                 *)
(***************************************************************************)
EXTENDS Integers, Sequences, SequencesExt, FiniteSetTheorems, TLAPS

(* put() adds its event to what is on the queue.                            *)
LEMMA RangeOfAppend ==
  ASSUME NEW S, NEW s \in Seq(S), NEW x
  PROVE  Range(Append(s, x)) = Range(s) \cup {x}
<1> DEFINE t == Append(s, x)
<1>1. /\ Len(t) = Len(s) + 1 /\ t[Len(s) + 1] = x /\ Len(s) \in Nat
      /\ \A i \in 1..Len(s) : t[i] = s[i]
      /\ DOMAIN s = 1..Len(s) /\ DOMAIN t = 1..(Len(s) + 1)
  OBVIOUS
<1> HIDE DEF t
<1>2. 1..(Len(s) + 1) = 1..Len(s) \cup {Len(s) + 1}
  BY <1>1
<1>3. Range(t) = Range(s) \cup {x}
  BY <1>1, <1>2 DEF Range
<1>4. QED BY <1>3 DEF t

(* get() takes the first event of a queue and leaves the others.            *)
LEMMA RangeOfTail ==
  ASSUME NEW S, NEW s \in Seq(S), s # <<>>
  PROVE  Range(s) = {Head(s)} \cup Range(Tail(s))
<1> DEFINE t == Tail(s)
<1>1. /\ Len(s) \in Nat \ {0} /\ DOMAIN s = 1..Len(s) /\ DOMAIN t = 1..(Len(s) - 1)
      /\ Head(s) = s[1] /\ \A i \in 1..(Len(s) - 1) : t[i] = s[i + 1]
  OBVIOUS
<1> HIDE DEF t
<1>2. Range(s) \subseteq {Head(s)} \cup Range(t)
  <2>1. ASSUME NEW i \in 1..Len(s), i # 1 PROVE s[i] \in Range(t)
    <3>1. i - 1 \in 1..(Len(s) - 1) /\ t[i - 1] = s[i]
      BY <1>1, <2>1
    <3>2. QED BY <1>1, <3>1 DEF Range
  <2>2. QED BY <1>1, <2>1 DEF Range
<1>3. {Head(s)} \cup Range(t) \subseteq Range(s)
  <2>1. ASSUME NEW i \in 1..(Len(s) - 1) PROVE t[i] \in Range(s)
    <3>1. i + 1 \in 1..Len(s) /\ t[i] = s[i + 1]
      BY <1>1
    <3>2. QED BY <1>1, <3>1 DEF Range
  <2>2. 1 \in 1..Len(s)
    BY <1>1
  <2>3. QED BY <1>1, <2>1, <2>2 DEF Range
<1>4. QED BY <1>2, <1>3 DEF t

(* The elements of a sequence of one, *)
LEMMA RangeOfSingle ==
  ASSUME NEW x
  PROVE  Range(<<x>>) = {x}
<1>1. DOMAIN <<x>> = {1} /\ <<x>>[1] = x
  OBVIOUS
<1>2. QED BY <1>1 DEF Range

(* and of an empty one. *)
LEMMA RangeOfEmpty == Range(<<>>) = {}
<1>1. DOMAIN <<>> = {}
  OBVIOUS
<1>2. QED BY <1>1 DEF Range

(* The elements of a sequence over S are in S. *)
LEMMA RangeType ==
  ASSUME NEW S, NEW s \in Seq(S)
  PROVE  Range(s) \subseteq S
  BY DEF Range

(* The tail of a sequence is one over the same set. *)
LEMMA TypeOfTail ==
  ASSUME NEW S, NEW s \in Seq(S), s # <<>>
  PROVE  Head(s) \in S /\ Tail(s) \in Seq(S) /\ Len(Tail(s)) = Len(s) - 1
  OBVIOUS

(* And so is what appending makes of it. *)
LEMMA TypeOfAppend ==
  ASSUME NEW S, NEW s \in Seq(S), NEW x \in S
  PROVE  Append(s, x) \in Seq(S) /\ Len(Append(s, x)) = Len(s) + 1
  OBVIOUS

(* A sequence without its last element. *)
LEMMA FrontAndLast ==
  ASSUME NEW S, NEW s \in Seq(S), s # <<>>
  PROVE  /\ Front(s) \in Seq(S) /\ Last(s) \in S /\ Last(s) \in Range(s) /\ Last(s) = s[Len(s)]
         /\ Len(Front(s)) = Len(s) - 1 /\ \A i \in 1..(Len(s) - 1) : Front(s)[i] = s[i]
         /\ Range(s) = Range(Front(s)) \cup {Last(s)}
<1> DEFINE k == Len(s)
           t == SubSeq(s, 1, k - 1)
<1>0. k \in Nat /\ k # 0
  OBVIOUS
<1>1. k \in Nat \ {0} /\ DOMAIN s = 1..k /\ \A i \in 1..k : s[i] \in S
  BY <1>0
<1>2. t \in Seq(S) /\ Len(t) = k - 1 /\ DOMAIN t = 1..(k - 1) /\ \A i \in 1..(k - 1) : t[i] = s[i]
  <2>1. Len(t) = k - 1 /\ \A i \in 1..(k - 1) : t[i] = s[i]
    BY <1>1
  <2>2. t \in Seq(S)
    BY <1>1
  <2>3. QED BY <1>1, <2>1, <2>2
<1>3. Front(s) = t /\ Last(s) = s[k]
  BY DEF Front, Last
<1> HIDE DEF k, t
<1>4. Range(s) = Range(t) \cup {s[k]}
  <2>1. ASSUME NEW i \in 1..k PROVE s[i] \in Range(t) \cup {s[k]}
    BY <1>1, <1>2 DEF Range
  <2>2. ASSUME NEW i \in 1..(k - 1) PROVE t[i] \in Range(s)
    BY <1>1, <1>2 DEF Range
  <2>3. s[k] \in Range(s)
    BY <1>1 DEF Range
  <2>4. QED BY <1>1, <1>2, <2>1, <2>2, <2>3 DEF Range
<1>5. s[k] \in Range(s) /\ k \in 1..k /\ Len(s) = k
  BY <1>1 DEF Range, k
<1>6. Front(s) \in Seq(S) /\ Len(Front(s)) = Len(s) - 1 /\ \A i \in 1..(Len(s) - 1) : Front(s)[i] = s[i]
  BY <1>2, <1>3, <1>5
<1>7. QED BY <1>1, <1>3, <1>4, <1>5, <1>6

(* Among subsets of a finite set there is one without a smaller one: what    *)
(* induction on its size would give.                                        *)
LEMMA SmallestSet ==
    ASSUME NEW S, IsFiniteSet(S), NEW U, U \subseteq SUBSET S, U # {}
    PROVE  \E x \in U : \A y \in U : y \subseteq x => y = x
<1>1. U \subseteq FiniteSubsetsOf(S)
  BY FS_FiniteSubsetsOfFinite
<1>2. PICK x \in U : \A y \in U : ~(<<y, x>> \in StrictSubsetOrdering(S))
  BY <1>1, FS_StrictSubsetOrderingWellFounded, WFMin
<1> QED  BY <1>2 DEF StrictSubsetOrdering

(* There is a last one among some positions of a sequence, for a set of what *)
(* comes after a position has a smallest one.                               *)
LEMMA LastPosition ==
    ASSUME NEW n \in Nat, NEW S, S \subseteq 1..n, S # {}
    PROVE  \E i \in S : \A j \in S : j <= i
<1> DEFINE After(i) == {j \in S : i < j}
           T == {After(i) : i \in S}
<1>1. IsFiniteSet(S)
  <2> DEFINE D == 1..n
  <2>1. IsFiniteSet(D) /\ S \in SUBSET D
    BY FS_Interval, 1 \in Int, n \in Int
  <2> HIDE DEF D
  <2> QED  BY <2>1, FS_Subset
<1>2. T \subseteq SUBSET S /\ T # {}
  <2>1. T \subseteq SUBSET S
    OBVIOUS
  <2>2. PICK i \in S : TRUE
    OBVIOUS
  <2>3. After(i) \in T
    OBVIOUS
  <2> QED  BY <2>1, <2>3
<1> HIDE DEF T
<1>3. PICK x \in T : \A y \in T : y \subseteq x => y = x
  <2>1. \E x \in T : \A y \in T : y \subseteq x => y = x
    BY ONLY <1>1, <1>2, SmallestSet
  <2> QED  BY <2>1
<1>4. PICK i \in S : x = After(i)
  BY DEF T
<1>5. ASSUME NEW j \in S, ~(j <= i)
      PROVE  FALSE
  <2>1. j \in Int /\ i \in Int /\ i < j /\ \A k \in S : k \in Int
    BY <1>5
  <2>2. \A k : k \in After(j) => k \in After(i)
    BY <2>1
  <2>4. j \in After(i) /\ j \notin After(j)
    BY <2>1
  <2>5. After(j) \subseteq After(i) /\ After(j) # After(i)
    BY <2>2, <2>4
  <2> QED  BY <2>5, <1>3, <1>4 DEF T
<1> QED  BY <1>5

(* And a first one. *)
LEMMA FirstPosition ==
    ASSUME NEW n \in Nat, NEW S, S \subseteq 1..n, S # {}
    PROVE  \E i \in S : \A j \in S : i <= j
<1> DEFINE T == {n + 1 - i : i \in S}
<1>0. \A i \in S : i \in Int /\ 1 <= i /\ i <= n
  OBVIOUS
<1>1. T \subseteq 1..n /\ T # {}
  <2>1. \A i \in S : n + 1 - i \in 1..n
    BY <1>0
  <2>2. PICK i \in S : TRUE
    OBVIOUS
  <2>3. n + 1 - i \in T
    OBVIOUS
  <2> QED  BY <2>1, <2>3
<1>2. PICK k \in T : \A j \in T : j <= k
  <2> HIDE DEF T
  <2> QED  BY <1>1, LastPosition
<1>3. PICK i \in S : k = n + 1 - i
  OBVIOUS
<1>4. ASSUME NEW j \in S
      PROVE  i <= j
  <2>1. n + 1 - j <= k
    BY <1>2
  <2> QED  BY <1>0, <1>3, <2>1
<1> QED  BY <1>4

=============================================================================
