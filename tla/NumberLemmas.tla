---------------------------- MODULE NumberLemmas -----------------------------
(***************************************************************************)
(* Natural numbers, for the proofs about the other modules: a set of them  *)
(* has a least one, what holds of 0 and of each next one holds of all, and *)
(* a number is its quotient times the divisor and a remainder.  Where the  *)
(* last element of two sequences one behind the other comes from.  And     *)
(* that the function a fold of the community modules chooses exists.       *)
(***************************************************************************)
EXTENDS Integers, FiniteSetsExt, FiniteSetTheorems, SequenceTheorems, TLAPS

(* A set of natural numbers that is not empty has a least element; the well-
   founded order is that of the finite sets 0 .. n-1 by inclusion. *)
LEMMA LeastNumber ==
    ASSUME NEW C \in SUBSET Nat, C # {}
    PROVE  \E m \in C : \A n \in C : m <= n
<1> DEFINE Below(n) == 0 .. n - 1
           T == {Below(n) : n \in C}
           R == StrictSubsetOrdering(Nat)
<1>1. IsWellFoundedOn(R, FiniteSubsetsOf(Nat))
  BY FS_StrictSubsetOrderingWellFounded
<1>2. \A n \in C : Below(n) \in FiniteSubsetsOf(Nat)
  <2> TAKE n \in C
  <2>1. IsFiniteSet(0 .. n - 1)
    BY FS_Interval
  <2> QED BY <2>1 DEF FiniteSubsetsOf
<1>3. T \subseteq FiniteSubsetsOf(Nat) /\ T # {}
  BY <1>2
<1>4. PICK x \in T : \A y \in T : <<y, x>> \notin R
  <2> HIDE DEF T, R
  <2> QED BY <1>1, <1>3, WFMin
<1>5. PICK m \in C : x = Below(m)
  BY DEF T
<1>6. ASSUME NEW n \in C, ~ (m <= n) PROVE FALSE
  <2>1. n \in Nat /\ m \in Nat /\ n < m
    BY <1>6
  <2>2. Below(n) \subseteq Below(m) /\ n \in Below(m) /\ n \notin Below(n)
    BY <2>1
  <2>3. <<Below(n), x>> \notin R
    BY <1>4
  <2>4. Below(n) \subseteq Nat /\ Below(m) \subseteq Nat
    BY <2>1
  <2> QED BY <1>5, <2>2, <2>3, <2>4 DEF R, StrictSubsetOrdering
<1> QED BY <1>6

(* Induction, over a set of numbers: the least number outside it would have a
   predecessor inside. *)
LEMMA Induction ==
    ASSUME NEW S, 0 \in S, \A n \in Nat : n \in S => n + 1 \in S
    PROVE  Nat \subseteq S
<1> SUFFICES ASSUME Nat \ S # {} PROVE FALSE
  OBVIOUS
<1>1. PICK m \in Nat \ S : \A n \in Nat \ S : m <= n
  BY LeastNumber
<1>2. m - 1 \in Nat /\ m - 1 + 1 = m /\ ~ (m <= m - 1)
  BY <1>1
<1> QED BY <1>1, <1>2

(* The least number of a set is one of it. *)
LEMMA LeastIs ==
    ASSUME NEW C \in SUBSET Nat, C # {}
    PROVE  /\ (CHOOSE m \in C : \A n \in C : m <= n) \in C
           /\ \A n \in C : (CHOOSE m \in C : \A k \in C : m <= k) <= n
BY LeastNumber

(* Quotient and remainder. *)
LEMMA Quotient ==
    ASSUME NEW a \in Nat, NEW b \in Nat \ {0}
    PROVE  /\ a \div b \in Nat /\ a % b \in 0 .. b - 1
           /\ (a \div b) * b \in Nat
           /\ a = (a \div b) * b + (a % b)
<1>1. a % b \in 0 .. b - 1 /\ a \div b \in Int /\ a = b * (a \div b) + (a % b)
  <2>1. a \div b \in Int
    OBVIOUS
  <2>2. a % b \in 0 .. b - 1
    OBVIOUS
  <2>3. a = b * (a \div b) + (a % b)
    OBVIOUS
  <2> QED BY <2>1, <2>2, <2>3
<1>2. a \div b \in Nat
  <2>1. ASSUME NEW q \in Int, q < 0 PROVE b * q + b <= 0
    <3>1. q + 1 <= 0 /\ q + 1 \in Int
      BY <2>1
    <3>2. b * (q + 1) <= 0
      BY <3>1
    <3> QED BY <3>2
  <2> QED BY <1>1, <2>1
<1>3. \A q \in Nat : b * q = q * b /\ q * b \in Nat
  OBVIOUS
<1> QED BY <1>1, <1>2, <1>3

(* Only one quotient leaves a remainder. *)
LEMMA QuotientIs ==
    ASSUME NEW b \in Nat \ {0}, NEW q \in Nat, NEW w \in 0 .. b - 1
    PROVE  (q * b + w) \div b = q
<1> DEFINE a == q * b + w
           p == a \div b
<1>1. a \in Nat
  OBVIOUS
<1>2. p \in Nat /\ a % b \in 0 .. b - 1 /\ a = p * b + (a % b)
  BY <1>1, Quotient
<1> HIDE DEF p
<1>3. ASSUME NEW i \in Nat, NEW j \in Nat, i < j PROVE i * b + b <= j * b
  <2>1. i + 1 <= j /\ j - (i + 1) \in Nat
    BY <1>3
  <2>2. (j - (i + 1)) * b >= 0
    BY <2>1
  <2> QED BY <2>2
<1>4. ~ (p < q) /\ ~ (q < p)
  <2>1. p < q => p * b + b <= q * b
    BY <1>2, <1>3
  <2>2. q < p => q * b + b <= p * b
    BY <1>2, <1>3
  <2>3. p * b \in Nat /\ q * b \in Nat
    BY <1>2
  <2>4. p * b <= a /\ a < p * b + b /\ q * b <= a /\ a < q * b + b
    BY <1>1, <1>2, <2>3
  <2> QED BY <1>1, <2>1, <2>2, <2>3, <2>4
<1>5. p = q
  BY <1>2, <1>4
<1> QED BY <1>5 DEF p

(* Multiples are in the order of their factors. *)
LEMMA MultipleOrder ==
    ASSUME NEW c \in Nat \ {0}, NEW i \in Nat, NEW j \in Nat
    PROVE  /\ i * c \in Nat /\ j * c \in Nat
           /\ i * c < j * c => i < j
           /\ i < j => i * c + c <= j * c
           /\ (i + 1) * c = i * c + c /\ (i + j) * c = i * c + j * c
<1>1. i * c \in Nat /\ j * c \in Nat
  OBVIOUS
<1>2. ASSUME i < j PROVE i * c + c <= j * c
  <2>1. i + 1 <= j /\ j - (i + 1) \in Nat
    BY <1>2
  <2>2. (j - (i + 1)) * c >= 0
    BY <2>1
  <2> QED BY <2>2
<1>3. ASSUME i * c < j * c PROVE i < j
  <2> SUFFICES ASSUME j <= i PROVE FALSE
    OBVIOUS
  <2>1. i - j \in Nat
    OBVIOUS
  <2>2. (i - j) * c >= 0
    BY <2>1
  <2>3. (i - j) * c = i * c - j * c
    OBVIOUS
  <2> QED BY <1>1, <1>3, <2>2, <2>3
<1>4. (i + 1) * c = i * c + c /\ (i + j) * c = i * c + j * c
  OBVIOUS
<1> QED BY <1>1, <1>2, <1>3, <1>4

(* An element put at the end of the second of two sequences is the last of both. *)
LEMMA AppendAtEnd ==
    ASSUME NEW S, NEW a \in Seq(S), NEW b \in Seq(S), NEW x \in S
    PROVE  a \o Append(b, x) = Append(a \o b, x)
<1>1. a \o b \in Seq(S) /\ Len(a \o b) = Len(a) + Len(b) /\ Append(b, x) \in Seq(S)
  OBVIOUS
<1>2. a \o Append(b, x) \in Seq(S) /\ Append(a \o b, x) \in Seq(S)
  BY <1>1
<1>3. Len(a \o Append(b, x)) = Len(a) + Len(b) + 1 /\ Len(Append(a \o b, x)) = Len(a) + Len(b) + 1
  OBVIOUS
<1>4. \A i \in 1 .. Len(a) + Len(b) + 1 : (a \o Append(b, x))[i] = Append(a \o b, x)[i]
  BY <1>1
<1> QED BY <1>2, <1>3, <1>4, SeqEqual

(* What holds of the first and of the next holds of all. *)
LEMMA Upwards ==
    ASSUME NEW n \in Nat, NEW P, 0 \in P, \A j \in 0 .. n - 1 : j \in P => j + 1 \in P
    PROVE  \A j \in 0 .. n : j \in P
<1> DEFINE S == {j \in Nat : j <= n => j \in P}
<1>1. 0 \in S
  OBVIOUS
<1>2. ASSUME NEW j \in Nat, j \in S PROVE j + 1 \in S
  BY <1>2
<1> HIDE DEF S
<1>3. Nat \subseteq S
  BY <1>1, <1>2, Induction
<1> QED BY <1>3 DEF S

(* The largest of some first positions. *)
LEMMA MaxIs ==
    ASSUME NEW n \in Nat, NEW s \in SUBSET (1 .. n), s # {}
    PROVE  Max(s) \in s /\ \A y \in s : y <= Max(s)
<1> DEFINE C == {m \in Nat : \A y \in s : y <= m}
<1>1. n \in C
  OBVIOUS
<1>2. PICK m \in C : \A k \in C : m <= k
  <2>1. C \in SUBSET Nat /\ C # {}
    BY <1>1
  <2> QED BY <2>1, LeastNumber
<1>3. m \in s
  <2> SUFFICES ASSUME m \notin s PROVE FALSE
    OBVIOUS
  <2>1. PICK y \in s : TRUE
    OBVIOUS
  <2>2. y <= m /\ y >= 1 /\ y \in Nat
    OBVIOUS
  <2>3. m - 1 \in Nat /\ m \in Nat
    BY <2>2
  <2>4. \A z \in s : z \in Nat /\ z <= m /\ z # m
    OBVIOUS
  <2>5. m - 1 \in C
    BY <2>3, <2>4
  <2> QED BY <2>5, <2>3, <1>2
<1>4. \A y \in s : m >= y
  OBVIOUS
<1>5. \E x \in s : \A y \in s : x >= y
  BY <1>3, <1>4
<1>6. Max(s) \in s /\ \A y \in s : Max(s) >= y
  <2> DEFINE x == CHOOSE x \in s : \A y \in s : x >= y
  <2>1. x \in s /\ \A y \in s : x >= y
    BY <1>5
  <2> QED BY <2>1 DEF Max
<1>7. \A y \in s : y \in Int
  OBVIOUS
<1> QED BY <1>6, <1>7

(* The first positions of a text, and the last of them. *)
LEMMA FirstPositions ==
    ASSUME NEW n \in Nat, NEW j \in 0 .. n - 1
    PROVE  /\ 1 .. j + 1 \in SUBSET (1 .. n) /\ 1 .. j + 1 # {} /\ Max(1 .. j + 1) = j + 1
           /\ (1 .. j + 1) \ {j + 1} = 1 .. j
<1>1. j + 1 \in Nat /\ j + 1 \in 1 .. j + 1 /\ 1 .. j + 1 \in SUBSET (1 .. n)
  OBVIOUS
<1>2. Max(1 .. j + 1) \in 1 .. j + 1 /\ j + 1 <= Max(1 .. j + 1)
  <2>1. 1 .. j + 1 # {}
    BY <1>1
  <2> QED BY <1>1, <2>1, MaxIs
<1>3. Max(1 .. j + 1) = j + 1
  BY <1>2
<1>4. (1 .. j + 1) \ {j + 1} = 1 .. j
  OBVIOUS
<1> QED BY <1>1, <1>3, <1>4

(* g is the function of a fold over n positions whose step at position i is F[i]. *)
Folded(g, base, n, F) ==
    \A s \in SUBSET (1 .. n) : g[s] = IF s = {} THEN base ELSE F[Max(s)][g[s \ {Max(s)}]]

(* A fold over the positions of a text has its function. *)
LEMMA FoldExists ==
    ASSUME NEW T, NEW base \in T, NEW n \in Nat, NEW F \in [1 .. n -> [T -> T]]
    PROVE  \E g \in [SUBSET (1 .. n) -> T] : Folded(g, base, n, F)
<1> DEFINE Solves(g, k) ==
               \A s \in SUBSET (1 .. k) :
                   g[s] = IF s = {} THEN base ELSE F[Max(s)][g[s \ {Max(s)}]]
           P == {k \in 0 .. n : \E g \in [SUBSET (1 .. k) -> T] : Solves(g, k)}
<1>1. 0 \in P
  <2> DEFINE g == [s \in SUBSET (1 .. 0) |-> base]
  <2>1. 1 .. 0 = {}
    OBVIOUS
  <2>2. g \in [SUBSET (1 .. 0) -> T] /\ Solves(g, 0)
    BY <2>1
  <2>3. 0 \in 0 .. n
    OBVIOUS
  <2> HIDE DEF g
  <2> QED BY <2>2, <2>3
<1>2. ASSUME NEW k \in 0 .. n - 1, k \in P PROVE k + 1 \in P
  <2>1. PICK f \in [SUBSET (1 .. k) -> T] : Solves(f, k)
    BY <1>2
  <2> DEFINE g == [s \in SUBSET (1 .. k + 1) |->
                      IF k + 1 \in s THEN F[k + 1][f[s \ {k + 1}]] ELSE f[s]]
  <2>2. ASSUME NEW s \in SUBSET (1 .. k + 1)
        PROVE  s \ {k + 1} \in SUBSET (1 .. k) /\ (k + 1 \notin s => s \in SUBSET (1 .. k))
    OBVIOUS
  <2>3. F[k + 1] \in [T -> T]
    OBVIOUS
  <2>4. g \in [SUBSET (1 .. k + 1) -> T]
    BY <2>2, <2>3
  <2>5. ASSUME NEW s \in SUBSET (1 .. k + 1)
        PROVE  g[s] = IF s = {} THEN base ELSE F[Max(s)][g[s \ {Max(s)}]]
    <3>1. CASE k + 1 \in s
      <4>1. Max(s) = k + 1
        <5>1. k + 1 \in Nat /\ s # {}
          BY <3>1
        <5>2. Max(s) \in s /\ k + 1 <= Max(s)
          BY <5>1, <3>1, MaxIs
        <5>3. Max(s) \in 1 .. k + 1
          BY <5>2
        <5> QED BY <5>2, <5>3
      <4>2. k + 1 \notin s \ {k + 1} /\ s \ {k + 1} \in SUBSET (1 .. k) /\ s \ {k + 1} \in SUBSET (1 .. k + 1)
        OBVIOUS
      <4>3. g[s \ {k + 1}] = f[s \ {k + 1}]
        BY <4>2
      <4> QED BY <4>1, <4>3, <3>1
    <3>2. CASE k + 1 \notin s /\ s # {}
      <4>1. s \in SUBSET (1 .. k)
        BY <3>2, <2>2
      <4>2. Max(s) \in s
        <5>1. k \in Nat
          OBVIOUS
        <5> QED BY <5>1, <4>1, <3>2, MaxIs
      <4>3. s \ {Max(s)} \in SUBSET (1 .. k + 1) /\ k + 1 \notin s \ {Max(s)}
        BY <3>2
      <4>4. g[s \ {Max(s)}] = f[s \ {Max(s)}] /\ g[s] = f[s]
        BY <4>3, <3>2
      <4> QED BY <4>1, <4>4, <3>2, <2>1
    <3>3. CASE s = {}
      <4>1. s \in SUBSET (1 .. k) /\ k + 1 \notin s
        BY <3>3
      <4> QED BY <4>1, <3>3, <2>1
    <3> QED BY <3>1, <3>2, <3>3
  <2>6. k + 1 \in 0 .. n
    OBVIOUS
  <2>7. Solves(g, k + 1)
    BY <2>5
  <2> HIDE DEF g
  <2> QED BY <2>4, <2>6, <2>7
<1> HIDE DEF P
<1>3. \A k \in 0 .. n : k \in P
  BY <1>1, <1>2, Upwards
<1>4. n \in P
  BY <1>3
<1> QED BY <1>4 DEF P, Folded
==============================================================================
