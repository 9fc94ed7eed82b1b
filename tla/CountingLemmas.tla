---------------------------- MODULE CountingLemmas ----------------------------
(***************************************************************************)
(* What the proofs keep needing of finite sets and of queues: how the size *)
(* of a set of goroutines changes when one of them joins, leaves or is     *)
(* replaced, and what a queue holds after an insertion or a removal.       *)
(***************************************************************************)
EXTENDS Integers, Sequences, FiniteSets, FiniteSetTheorems, WellFoundedInduction, TLAPS

Occurs(x, q) == \E i \in 1 .. Len(q) : q[i] = x

NoRepeat(q) == \A i, j \in 1 .. Len(q) : q[i] = q[j] => i = j

(* A subset of a finite set can be counted. *)
LEMMA Countable ==
  ASSUME NEW P, IsFiniteSet(P), NEW S \in SUBSET P
  PROVE  IsFiniteSet(S) /\ Cardinality(S) \in Nat
  BY FS_Subset, FS_CardinalityType

(* Exactly p joins: the set grows by one. *)
LEMMA CountGain ==
  ASSUME NEW P, IsFiniteSet(P), NEW S \in SUBSET P, NEW T \in SUBSET P,
         NEW p, p \notin S, p \in T, \A q \in P : q # p => (q \in S <=> q \in T)
  PROVE  Cardinality(T) = Cardinality(S) + 1
<1>1. T = S \cup {p} OBVIOUS
<1> QED BY <1>1, Countable, FS_AddElement

(* Exactly p leaves: the set shrinks by one. *)
LEMMA CountLoss ==
  ASSUME NEW P, IsFiniteSet(P), NEW S \in SUBSET P, NEW T \in SUBSET P,
         NEW p, p \in S, p \notin T, \A q \in P : q # p => (q \in S <=> q \in T)
  PROVE  Cardinality(T) = Cardinality(S) - 1 /\ Cardinality(S) > 0
<1>1. Cardinality(S) = Cardinality(T) + 1
  BY CountGain
<1> QED BY <1>1, Countable

(* p leaves and r joins: the size stays. *)
LEMMA CountMove ==
  ASSUME NEW P, IsFiniteSet(P), NEW S \in SUBSET P, NEW T \in SUBSET P,
         NEW p, p \in S, p \notin T, NEW r, r \notin S, r \in T,
         \A q \in P : q # p /\ q # r => (q \in S <=> q \in T)
  PROVE  Cardinality(T) = Cardinality(S)
<1>1. /\ S \ {p} \in SUBSET P
      /\ Cardinality(S \ {p}) = Cardinality(S) - 1 /\ Cardinality(S) > 0
  BY CountLoss
<1>2. Cardinality(T) = Cardinality(S \ {p}) + 1
  BY <1>1, CountGain
<1> QED BY <1>1, <1>2, Countable

(* The members of a set stay counted: the size stays. *)
LEMMA CountSame ==
  ASSUME NEW P, NEW S \in SUBSET P, NEW T \in SUBSET P,
         \A q \in P : q \in S <=> q \in T
  PROVE  Cardinality(T) = Cardinality(S)
<1>1. S = T OBVIOUS
<1> QED BY <1>1

(* A set that has a member is not counted as empty. *)
LEMMA CountSome ==
  ASSUME NEW P, IsFiniteSet(P), NEW S \in SUBSET P, NEW p \in S
  PROVE  Cardinality(S) > 0
<1> DEFINE T == S \ {p}
<1>1. /\ T \in SUBSET P /\ p \notin T
      /\ \A q \in P : q # p => (q \in S <=> q \in T)
  OBVIOUS
<1> HIDE DEF T
<1> QED BY <1>1, CountLoss

(* A family of finite sets has a minimal one. *)
LEMMA Smaller ==
  ASSUME NEW S, NEW T, T \subseteq FiniteSubsetsOf(S), T # {}
  PROVE  \E x \in T : \A y \in T : y \subseteq x => y = x
<1>1. IsWellFoundedOn(StrictSubsetOrdering(S), FiniteSubsetsOf(S))
  BY FS_StrictSubsetOrderingWellFounded
<1>2. PICK x \in T : \A y \in T : ~ (<<y, x>> \in StrictSubsetOrdering(S))
  BY <1>1, WFMin
<1>3. \A y \in T : y \in SUBSET S BY DEF FiniteSubsetsOf
<1>4. ASSUME NEW y \in T, y \subseteq x, y # x PROVE FALSE
  <2>1. <<y, x>> \in (SUBSET S) \X (SUBSET S) BY <1>3
  <2>2. <<y, x>>[1] = y /\ <<y, x>>[2] = x OBVIOUS
  <2>3. <<y, x>> \in StrictSubsetOrdering(S) BY <1>4, <2>1, <2>2 DEF StrictSubsetOrdering
  <2> QED BY <1>2, <2>3
<1> QED BY <1>4

(* A set of naturals has a least member ... *)
LEMMA LeastNat ==
  ASSUME NEW S \in SUBSET Nat, S # {}
  PROVE  \E x \in S : \A y \in S : x <= y
<1> DEFINE Upto(x) == {y \in S : y <= x}
           T == {Upto(x) : x \in S}
<1>0. \A x \in S : x \in Nat OBVIOUS
<1>1. \A x \in S : Upto(x) \in FiniteSubsetsOf(Nat)
  <2> SUFFICES ASSUME NEW x \in S PROVE Upto(x) \in FiniteSubsetsOf(Nat)
    OBVIOUS
  <2>1. IsFiniteSet(0 .. x) BY FS_Interval
  <2>2. Upto(x) \subseteq 0 .. x
    <3> SUFFICES ASSUME NEW y \in S, y <= x PROVE y \in 0 .. x
      OBVIOUS
    <3>1. x \in Nat /\ y \in Nat BY <1>0
    <3> QED BY <3>1
  <2>3. IsFiniteSet(Upto(x)) BY <2>1, <2>2, FS_Subset
  <2> QED BY <2>3 DEF FiniteSubsetsOf
<1>2. T \subseteq FiniteSubsetsOf(Nat) /\ T # {} BY <1>1
<1>3. PICK t \in T : \A y \in T : y \subseteq t => y = t
  <2> HIDE DEF T
  <2> QED BY <1>2, Smaller
<1>4. PICK x \in S : t = Upto(x) OBVIOUS
<1>5. ASSUME NEW y \in S, y < x PROVE FALSE
  <2>0. x \in Nat /\ y \in Nat BY <1>0
  <2>1. /\ \A z \in S : z <= y => z <= x
        /\ x <= x /\ ~(x <= y)
    BY <1>0, <1>5, <2>0
  <2>2. Upto(y) \subseteq Upto(x) /\ x \in Upto(x) /\ x \notin Upto(y) BY <2>1
  <2> QED BY <1>3, <1>4, <2>2
<1> QED BY <1>0, <1>5

(* ... and a finite one a greatest. *)
LEMMA GreatestNat ==
  ASSUME NEW S \in SUBSET Nat, S # {}, IsFiniteSet(S)
  PROVE  \E x \in S : \A y \in S : y <= x
<1> DEFINE Above(x) == {y \in S : y > x}
           T == {Above(x) : x \in S}
<1>0. \A x \in S : x \in Nat OBVIOUS
<1>1. \A x \in S : Above(x) \in FiniteSubsetsOf(Nat)
  BY FS_Subset DEF FiniteSubsetsOf
<1>2. T \subseteq FiniteSubsetsOf(Nat) /\ T # {} BY <1>1
<1>3. PICK t \in T : \A y \in T : y \subseteq t => y = t
  <2> HIDE DEF T
  <2> QED BY <1>2, Smaller
<1>4. PICK x \in S : t = Above(x) OBVIOUS
<1>5. ASSUME NEW y \in S, y > x PROVE FALSE
  <2>0. x \in Nat /\ y \in Nat BY <1>0
  <2>1. /\ \A z \in S : z > y => z > x
        /\ ~(y > y)
    BY <1>0, <1>5, <2>0
  <2>2. Above(y) \subseteq Above(x) /\ y \in Above(x) /\ y \notin Above(y) BY <1>5, <2>1
  <2> QED BY <1>3, <1>4, <2>2
<1> QED BY <1>0, <1>5

(* A queue after p is appended. *)
LEMMA AppendLast ==
  ASSUME NEW P, NEW q \in Seq(P), NEW p \in P
  PROVE  /\ Append(q, p) \in Seq(P)
         /\ Append(q, p) # << >>
         /\ \A x : Occurs(x, Append(q, p)) <=> x = p \/ Occurs(x, q)
         /\ NoRepeat(q) /\ ~Occurs(p, q) => NoRepeat(Append(q, p))
<1> DEFINE s == Append(q, p)
<1>1. /\ s \in Seq(P) /\ Len(s) = Len(q) + 1 /\ s[Len(s)] = p
      /\ \A i \in 1 .. Len(q) : s[i] = q[i]
      /\ Len(q) \in Nat
  OBVIOUS
<1> HIDE DEF s
<1>2. \A x : Occurs(x, s) <=> x = p \/ Occurs(x, q)
  BY <1>1 DEF Occurs
<1>3. NoRepeat(q) /\ ~Occurs(p, q) => NoRepeat(s)
  BY <1>1 DEF Occurs, NoRepeat
<1>4. s # << >> BY <1>1
<1> QED BY <1>1, <1>2, <1>3, <1>4 DEF s

(* A queue after p is put in front. *)
LEMMA PrependFirst ==
  ASSUME NEW P, NEW q \in Seq(P), NEW p \in P
  PROVE  /\ << p >> \o q \in Seq(P)
         /\ << p >> \o q # << >>
         /\ \A x : Occurs(x, << p >> \o q) <=> x = p \/ Occurs(x, q)
         /\ NoRepeat(q) /\ ~Occurs(p, q) => NoRepeat(<< p >> \o q)
<1> DEFINE s == << p >> \o q
<1>1. /\ s \in Seq(P) /\ Len(s) = Len(q) + 1 /\ s[1] = p
      /\ \A i \in 1 .. Len(q) : s[i + 1] = q[i]
      /\ \A i \in 2 .. Len(s) : s[i] = q[i - 1]
      /\ Len(q) \in Nat
  OBVIOUS
<1> HIDE DEF s
<1>0. \A i \in 1 .. Len(s) : i = 1 \/ (i \in 2 .. Len(s) /\ i - 1 \in 1 .. Len(q))
  BY <1>1
<1>2. \A x : Occurs(x, s) <=> x = p \/ Occurs(x, q)
  <2> SUFFICES ASSUME NEW x PROVE Occurs(x, s) <=> x = p \/ Occurs(x, q) OBVIOUS
  <2>1. Occurs(x, s) => x = p \/ Occurs(x, q) BY <1>0, <1>1 DEF Occurs
  <2>2. x = p => Occurs(x, s) BY <1>1 DEF Occurs
  <2>3. ASSUME Occurs(x, q) PROVE Occurs(x, s)
    <3>1. PICK i \in 1 .. Len(q) : q[i] = x BY <2>3 DEF Occurs
    <3>2. i + 1 \in 1 .. Len(s) /\ s[i + 1] = x BY <1>1, <3>1
    <3> QED BY <3>2 DEF Occurs
  <2> QED BY <2>1, <2>2, <2>3
<1>3. NoRepeat(q) /\ ~Occurs(p, q) => NoRepeat(s)
  <2> SUFFICES ASSUME NoRepeat(q), ~Occurs(p, q), NEW i \in 1 .. Len(s),
                      NEW j \in 1 .. Len(s), s[i] = s[j]
               PROVE  i = j
    BY DEF NoRepeat
  <2>1. CASE i = 1 \/ j = 1 BY <1>0, <1>1, <2>1 DEF Occurs
  <2>2. CASE i # 1 /\ j # 1
    <3>1. /\ i - 1 \in 1 .. Len(q) /\ j - 1 \in 1 .. Len(q)
          /\ q[i - 1] = q[j - 1]
      BY <1>0, <1>1, <2>2
    <3> QED BY <3>1 DEF NoRepeat
  <2> QED BY <2>1, <2>2
<1>4. s # << >> BY <1>1
<1> QED BY <1>1, <1>2, <1>3, <1>4 DEF s

(* A queue after its first element is removed. *)
LEMMA TailRest ==
  ASSUME NEW P, NEW q \in Seq(P), q # << >>
  PROVE  /\ Head(q) \in P /\ Tail(q) \in Seq(P)
         /\ Occurs(Head(q), q)
         /\ \A x : Occurs(x, q) <=> x = Head(q) \/ Occurs(x, Tail(q))
         /\ NoRepeat(q) => NoRepeat(Tail(q)) /\ ~Occurs(Head(q), Tail(q))
<1> DEFINE t == Tail(q)
<1>1. /\ t \in Seq(P) /\ Len(t) = Len(q) - 1 /\ q[1] = Head(q)
      /\ \A i \in 1 .. Len(t) : t[i] = q[i + 1]
      /\ Len(q) \in Nat /\ Len(q) > 0 /\ Head(q) \in P
  OBVIOUS
<1> HIDE DEF t
<1>2. \A i \in 1 .. Len(t) : i + 1 \in 1 .. Len(q) BY <1>1
<1>3. \A i \in 1 .. Len(q) : i = 1 \/ (i - 1 \in 1 .. Len(t) /\ t[i - 1] = q[i])
  BY <1>1
<1>4. \A x : Occurs(x, q) <=> x = Head(q) \/ Occurs(x, t)
  <2> SUFFICES ASSUME NEW x PROVE Occurs(x, q) <=> x = Head(q) \/ Occurs(x, t) OBVIOUS
  <2>1. Occurs(x, q) => x = Head(q) \/ Occurs(x, t) BY <1>1, <1>3 DEF Occurs
  <2>2. x = Head(q) => Occurs(x, q) BY <1>1 DEF Occurs
  <2>3. Occurs(x, t) => Occurs(x, q) BY <1>1, <1>2 DEF Occurs
  <2> QED BY <2>1, <2>2, <2>3
<1>5. ASSUME NoRepeat(q) PROVE NoRepeat(t) /\ ~Occurs(Head(q), t)
  <2>1. NoRepeat(t)
    <3> SUFFICES ASSUME NEW i \in 1 .. Len(t), NEW j \in 1 .. Len(t), t[i] = t[j]
                 PROVE  i = j
      BY DEF NoRepeat
    <3>1. /\ i + 1 \in 1 .. Len(q) /\ j + 1 \in 1 .. Len(q)
          /\ q[i + 1] = q[j + 1]
      BY <1>1, <1>2
    <3> QED BY <1>5, <3>1 DEF NoRepeat
  <2>2. ~Occurs(Head(q), t)
    <3> SUFFICES ASSUME NEW i \in 1 .. Len(t), t[i] = Head(q) PROVE FALSE
      BY DEF Occurs
    <3>1. i + 1 \in 1 .. Len(q) /\ 1 \in 1 .. Len(q) /\ q[i + 1] = q[1]
      BY <1>1, <1>2
    <3> QED BY <1>5, <3>1 DEF NoRepeat
  <2> QED BY <2>1, <2>2
<1> QED BY <1>1, <1>4, <1>5 DEF t, Occurs
-----------------------------------------------------------------------------
(* Tickets and indexes go around a circle. *)
LEMMA Modulo ==
  ASSUME NEW n \in Nat, n > 0, NEW a \in Int, -n <= a, a < 2 * n
  PROVE  a % n = IF a < 0 THEN a + n ELSE IF a < n THEN a ELSE a - n
<1>1. CASE a < 0
  <2>1. a + n \in Nat /\ a + n < n BY <1>1
  <2>2. a = -n + (a + n) BY <2>1
  <2> QED BY <1>1, <2>1, <2>2
<1>2. CASE 0 <= a /\ a < n BY <1>2
<1>3. CASE n <= a
  <2>1. a - n \in Nat /\ a - n < n BY <1>3
  <2>2. a = n + (a - n) BY <2>1
  <2> QED BY <1>3, <2>1, <2>2
<1> QED BY <1>1, <1>2, <1>3

(* Arithmetic of a ring: two different places less than a size apart are two  *)
(* different slots, and an index that wraps around stays on its slot.         *)
LEMMA DivFacts ==
  ASSUME NEW s \in Nat, s > 0, NEW a \in Nat
  PROVE  a \div s \in Nat /\ a % s \in 0 .. s - 1 /\ a = s * (a \div s) + (a % s)
<1>1. a % s \in 0 .. s - 1 OBVIOUS
<1>2. a \div s \in Nat OBVIOUS
<1>3. a = s * (a \div s) + (a % s) OBVIOUS
<1> QED BY <1>1, <1>2, <1>3

LEMMA ModUnique ==
  ASSUME NEW s \in Nat, s > 0, NEW q \in Nat, NEW r \in 0 .. s - 1
  PROVE  (s * q + r) % s = r
<1> DEFINE a == s * q + r
<1>1. a \in Nat OBVIOUS
<1>2. a \div s \in Nat /\ a % s \in 0 .. s - 1 /\ a = s * (a \div s) + (a % s) BY <1>1, DivFacts
<1>3. ASSUME NEW x \in Nat, NEW y \in Nat, x < y PROVE s * x + s <= s * y
  <2>1. y = x + 1 + (y - x - 1) /\ y - x - 1 \in Nat BY <1>3
  <2>2. PICK z \in Nat : y = x + 1 + z BY <2>1
  <2>3. s * z \in Nat /\ s * y = s * x + s + s * z BY <2>2
  <2>4. s * x \in Nat OBVIOUS
  <2> QED BY <2>3, <2>4
<1>4. s * q \in Nat /\ s * (a \div s) \in Nat BY <1>2
<1>5. ~(q < a \div s) /\ ~(a \div s < q) BY <1>2, <1>3, <1>4
<1>6. q = a \div s BY <1>2, <1>5
<1> QED BY <1>2, <1>4, <1>6

LEMMA ModApart ==
  ASSUME NEW s \in Nat, s > 0, NEW a \in Nat, NEW b \in Nat, a < b, b < a + s
  PROVE  a % s # b % s
<1> SUFFICES ASSUME a % s = b % s PROVE FALSE OBVIOUS
<1>1. /\ a \div s \in Nat /\ a % s \in 0 .. s - 1 /\ a = s * (a \div s) + (a % s)
      /\ b \div s \in Nat /\ b = s * (b \div s) + (b % s)
  BY DivFacts
<1>2. PICK x \in Nat, y \in Nat, r \in 0 .. s - 1 : a = s * x + r /\ b = s * y + r BY <1>1
<1>3. s * x \in Nat /\ s * y \in Nat OBVIOUS
<1>4. CASE y <= x
  <2>1. PICK z \in Nat : x = y + z
    <3>1. x - y \in Nat /\ x = y + (x - y) BY <1>4
    <3> QED BY <3>1
  <2>2. s * z \in Nat /\ s * x = s * y + s * z BY <2>1
  <2> QED BY <1>2, <1>3, <2>2
<1>5. CASE x < y
  <2>1. PICK z \in Nat : y = x + 1 + z
    <3>1. y - x - 1 \in Nat /\ y = x + 1 + (y - x - 1) BY <1>5
    <3> QED BY <3>1
  <2>2. s * z \in Nat /\ s * y = s * x + s + s * z BY <2>1
  <2> QED BY <1>2, <1>3, <2>2
<1> QED BY <1>4, <1>5

LEMMA Wrapped ==
  ASSUME NEW s \in Nat, s > 0, NEW n \in Nat, n % s = 0, NEW a \in Nat
  PROVE  (n + a) % s = a % s
<1>1. /\ n \div s \in Nat /\ n = s * (n \div s)
      /\ a \div s \in Nat /\ a % s \in 0 .. s - 1 /\ a = s * (a \div s) + (a % s)
  <2>1. n \div s \in Nat /\ n = s * (n \div s) + (n % s) BY DivFacts
  <2>2. s * (n \div s) \in Nat BY <2>1
  <2> QED BY <2>1, <2>2, DivFacts
<1>2. PICK x \in Nat, y \in Nat, r \in 0 .. s - 1 : n = s * x /\ a = s * y + r /\ a % s = r
  BY <1>1
<1>3. n + a = s * (x + y) + r BY <1>2
<1>4. x + y \in Nat OBVIOUS
<1> QED BY <1>2, <1>3, <1>4, ModUnique
=============================================================================
