----------------------------- MODULE ListLemmas -----------------------------
(***************************************************************************)
(* Facts about natural numbers and sequences that the proofs about the     *)
(* records of a hive need, and the induction they rest on: a least         *)
(* counterexample, from the well-founded order of the natural numbers; and *)
(* about the paths of a tree whose nodes name their parents.               *)
(***************************************************************************)
EXTENDS Integers, Sequences, SequencesExt, FiniteSets, SequenceTheorems,
        WellFoundedInduction, TLAPS

-----------------------------------------------------------------------------
(* Natural numbers *)

LEMMA LeastNat ==
  ASSUME NEW T \in SUBSET Nat, T # {}
  PROVE  \E x \in T : \A y \in T : x <= y
<1> DEFINE R == OpToRel(<, Nat)
<1>1. IsWellFoundedOn(R, Nat)
  BY NatLessThanWellFounded
<1>2. \A x, y \in Nat : y < x => <<y, x>> \in R
  BY DEF OpToRel
<1> HIDE DEF R
<1>3. \E x \in T : \A y \in T : <<y, x>> \notin R
  BY <1>1, WFMin
<1>4. PICK x \in T : \A y \in T : <<y, x>> \notin R
  BY <1>3
<1>5. \A y \in T : ~(y < x)
  BY <1>2, <1>4
<1>6. \A y \in T : x <= y
  BY <1>5
<1> QED BY <1>6

(* Min and Max, which are defined by CHOOSE, are what they are called. *)
LEMMA MinNat ==
  ASSUME NEW T \in SUBSET Nat, T # {}
  PROVE  Min(T) \in T /\ \A y \in T : Min(T) <= y
<1>1. \E x \in T : \A y \in T : x <= y
  BY LeastNat
<1> QED BY <1>1 DEF Min

LEMMA MaxNat ==
  ASSUME NEW T \in SUBSET Nat, T # {}, NEW n \in Nat, \A y \in T : y <= n
  PROVE  Max(T) \in T /\ \A y \in T : y <= Max(T)
<1> DEFINE U == {n - y : y \in T}
<1>1. U \in SUBSET Nat /\ U # {}
  <2>1. \A y \in T : n - y \in Nat
    OBVIOUS
  <2> QED BY <2>1
<1>2. PICK u \in U : \A w \in U : u <= w
  BY <1>1, LeastNat
<1>3. PICK x \in T : u = n - x
  BY <1>2
<1>4. \A y \in T : x >= y
  <2> SUFFICES ASSUME NEW y \in T PROVE x >= y
    OBVIOUS
  <2>1. u <= n - y
    BY <1>2
  <2> QED BY <1>3, <2>1
<1>5. \E z \in T : \A y \in T : z >= y
  BY <1>4
<1>6. Max(T) \in T /\ \A y \in T : Max(T) >= y
  BY <1>5 DEF Max
<1> QED BY <1>6

(* Induction up to m, for a set of numbers. *)
LEMMA Induction ==
  ASSUME NEW m \in Nat, NEW P, 0 \in P,
         \A n \in 0 .. (m - 1) : n \in P => n + 1 \in P
  PROVE  \A n \in 0 .. m : n \in P
<1> SUFFICES ASSUME NEW k \in 0 .. m, k \notin P PROVE FALSE
  OBVIOUS
<1> DEFINE T == {n \in 0 .. m : n \notin P}
<1>1. T \in SUBSET Nat /\ T # {}
  OBVIOUS
<1>2. PICK x \in T : \A y \in T : x <= y
  BY <1>1, LeastNat
<1>3. x # 0 /\ x \in Nat /\ x <= m
  BY <1>2
<1>4. x - 1 \in 0 .. (m - 1) /\ x - 1 \notin T
  BY <1>2, <1>3
<1>5. x - 1 \in P
  BY <1>4
<1>6. (x - 1) + 1 \in P
  BY <1>4, <1>5
<1> QED BY <1>2, <1>3, <1>6

(* A function defined by recursion: f[0] is B, and f[i] is what G[i] makes *)
(* of f[i - 1].                                                            *)
Stages(f, B, G, n) ==
  f = [i \in 0 .. n |-> IF i = 0 THEN B ELSE G[i][f[i - 1]]]

LEMMA StagesExist ==
  ASSUME NEW A, NEW B \in A, NEW n \in Nat, NEW G \in [1 .. n -> [A -> A]]
  PROVE  \E f \in [0 .. n -> A] : Stages(f, B, G, n)
<1> DEFINE P == {k \in Nat : k <= n =>
                               \E f \in [0 .. k -> A] : Stages(f, B, G, k)}
<1>1. 0 \in P
  <2> DEFINE f == [i \in 0 .. 0 |-> B]
  <2>1. f \in [0 .. 0 -> A] /\ Stages(f, B, G, 0)
    BY DEF Stages
  <2> HIDE DEF f
  <2> QED BY <2>1
<1>2. ASSUME NEW k \in 0 .. (n - 1), k \in P
      PROVE  k + 1 \in P
  <2>1. PICK f \in [0 .. k -> A] : Stages(f, B, G, k)
    BY <1>2
  <2>2. PICK last \in A : last = G[k + 1][f[k]]
    <3>1. k + 1 \in 1 .. n /\ f[k] \in A
      BY <1>2, <2>1
    <3> QED BY <3>1
  <2> DEFINE g == [i \in 0 .. (k + 1) |-> IF i = k + 1 THEN last ELSE f[i]]
  <2>3. g \in [0 .. (k + 1) -> A]
    BY <2>1, <2>2
  <2>4. \A i \in 0 .. k : f[i] = IF i = 0 THEN B ELSE G[i][f[i - 1]]
    BY <2>1 DEF Stages
  <2>5. \A i \in 0 .. (k + 1) : g[i] = IF i = 0 THEN B ELSE G[i][g[i - 1]]
    <3> SUFFICES ASSUME NEW i \in 0 .. (k + 1)
                 PROVE  g[i] = IF i = 0 THEN B ELSE G[i][g[i - 1]]
      OBVIOUS
    <3>1. CASE i = k + 1
      BY <2>2, <3>1
    <3>2. CASE i # k + 1
      <4>1. i \in 0 .. k /\ g[i] = f[i] /\ (i # 0 => g[i - 1] = f[i - 1])
        BY <3>2
      <4> QED BY <2>4, <4>1
    <3> QED BY <3>1, <3>2
  <2>6. Stages(g, B, G, k + 1)
    <3> HIDE DEF g
    <3>1. g = [i \in 0 .. (k + 1) |-> g[i]]
      BY <2>3
    <3> QED BY <2>5, <3>1 DEF Stages
  <2> HIDE DEF g
  <2> QED BY <1>2, <2>3, <2>6
<1> HIDE DEF P
<1>3. \A k \in 0 .. n : k \in P
  BY <1>1, <1>2, Induction
<1>4. n \in P
  BY <1>3
<1> QED BY <1>4 DEF P

-----------------------------------------------------------------------------
(* Members of sequences *)

LEMMA ConcatFacts ==
  ASSUME NEW S, NEW s \in Seq(S), NEW t \in Seq(S)
  PROVE  /\ s \o t \in Seq(S) /\ Len(s \o t) = Len(s) + Len(t)
         /\ \A i \in 1 .. Len(s) : (s \o t)[i] = s[i]
         /\ \A i \in 1 .. Len(t) : (s \o t)[Len(s) + i] = t[i]
BY ConcatProperties

LEMMA SubSeqFacts ==
  ASSUME NEW S, NEW s \in Seq(S), NEW m \in 1 .. (Len(s) + 1),
         NEW n \in (m - 1) .. Len(s)
  PROVE  /\ SubSeq(s, m, n) \in Seq(S) /\ Len(SubSeq(s, m, n)) = n - m + 1
         /\ \A i \in 1 .. (n - m + 1) : SubSeq(s, m, n)[i] = s[m + i - 1]
<1> DEFINE r == SubSeq(s, m, n)
<1>0. Len(s) \in Nat /\ m \in Int /\ n \in Int
  OBVIOUS
<1>1. \A i \in m .. n : s[i] \in S
  OBVIOUS
<1>2. /\ r \in Seq(S) /\ Len(r) = IF m <= n THEN n - m + 1 ELSE 0
      /\ \A i \in 1 .. (n - m + 1) : r[i] = s[m + i - 1]
  BY <1>0, <1>1, SubSeqProperties
<1> HIDE DEF r
<1>3. Len(r) = n - m + 1
  BY <1>0, <1>2
<1> QED BY <1>2, <1>3 DEF r

(* The members of a sequence are its elements. *)
LEMMA ToSetFacts ==
  ASSUME NEW S, NEW s \in Seq(S)
  PROVE  /\ \A i \in 1 .. Len(s) : s[i] \in ToSet(s)
         /\ \A x \in ToSet(s) : \E i \in 1 .. Len(s) : x = s[i]
         /\ ToSet(s) \subseteq S
<1>1. DOMAIN s = 1 .. Len(s)
  OBVIOUS
<1>2. \A i \in 1 .. Len(s) : s[i] \in S
  OBVIOUS
<1> QED BY <1>1, <1>2 DEF ToSet

(* A sequence whose members are all in T. *)
LEMMA SeqOver ==
  ASSUME NEW S, NEW s \in Seq(S), NEW T, \A i \in 1 .. Len(s) : s[i] \in T
  PROVE  s \in Seq(T)
<1>1. PICK n \in Nat : n = Len(s)
  OBVIOUS
<1>2. s = [i \in 1 .. n |-> s[i]]
  BY <1>1
<1>3. [i \in 1 .. n |-> s[i]] \in Seq(T)
  BY <1>1
<1> QED BY <1>2, <1>3

LEMMA ToSetOne == ASSUME NEW a PROVE ToSet(<<a>>) = {a}
BY DEF ToSet

LEMMA ToSetNone == ToSet(<<>>) = {}
BY DEF ToSet

(* A sequence with one element replaced. *)
LEMMA ReplaceFacts ==
  ASSUME NEW S, NEW s \in Seq(S), NEW i, NEW e \in S, NEW t,
         t = [s EXCEPT ![i] = e]
  PROVE  /\ t \in Seq(S) /\ Len(t) = Len(s)
         /\ i \in 1 .. Len(s) => t[i] = e
         /\ \A j \in 1 .. Len(s) : j # i => t[j] = s[j]
<1>1. PICK n \in Nat : n = Len(s)
  OBVIOUS
<1>2. DOMAIN s = 1 .. n
  BY <1>1
<1>3. t = [j \in 1 .. n |-> IF j = i THEN e ELSE s[j]]
  BY <1>2
<1>4. \A j \in 1 .. n : s[j] \in S
  BY <1>1
<1>5. t \in [1 .. n -> S]
  BY <1>3, <1>4
<1>6. t \in Seq(S) /\ DOMAIN t = 1 .. n
  BY <1>5
<1>7. Len(t) = n
  BY <1>6
<1>8. (i \in 1 .. n => t[i] = e) /\ \A j \in 1 .. n : j # i => t[j] = s[j]
  BY <1>3
<1>9. i \in 1 .. Len(s) => t[i] = e
  BY <1>1, <1>8, Zenon
<1>10. \A j \in 1 .. Len(s) : j # i => t[j] = s[j]
  BY <1>1, <1>8, Zenon
<1>11. Len(t) = Len(s)
  BY <1>1, <1>7, Zenon
<1> QED BY <1>6, <1>9, <1>10, <1>11, Zenon

LEMMA ToSetConcat ==
  ASSUME NEW S, NEW s \in Seq(S), NEW t \in Seq(S)
  PROVE  \A x : x \in ToSet(s \o t) <=> x \in ToSet(s) \/ x \in ToSet(t)
<1>1. /\ s \o t \in Seq(S) /\ Len(s \o t) = Len(s) + Len(t)
      /\ \A i \in 1 .. Len(s) : (s \o t)[i] = s[i]
      /\ \A i \in 1 .. Len(t) : (s \o t)[Len(s) + i] = t[i]
  BY ConcatFacts
<1> SUFFICES ASSUME NEW x
             PROVE  x \in ToSet(s \o t) <=> x \in ToSet(s) \/ x \in ToSet(t)
  OBVIOUS
<1> DEFINE u == s \o t
<1>2. DOMAIN u = 1 .. (Len(s) + Len(t)) /\ DOMAIN s = 1 .. Len(s)
      /\ DOMAIN t = 1 .. Len(t)
  BY <1>1
<1> HIDE DEF u
<1>3. ASSUME NEW i \in DOMAIN u, x = u[i]
      PROVE  x \in ToSet(s) \/ x \in ToSet(t)
  <2>1. CASE i <= Len(s)
    BY <1>1, <1>2, <1>3, <2>1 DEF ToSet, u
  <2>2. CASE i > Len(s)
    <3>1. i - Len(s) \in 1 .. Len(t) /\ Len(s) + (i - Len(s)) = i
      BY <1>2, <2>2
    <3>2. u[i] = t[i - Len(s)]
      BY <1>1, <3>1 DEF u
    <3> QED BY <1>2, <1>3, <3>1, <3>2 DEF ToSet
  <2> QED BY <1>2, <2>1, <2>2
<1>4. ASSUME NEW i \in DOMAIN s, x = s[i]
      PROVE  x \in ToSet(u)
  <2>1. i \in DOMAIN u /\ u[i] = s[i]
    BY <1>1, <1>2 DEF u
  <2> QED BY <1>4, <2>1 DEF ToSet
<1>5. ASSUME NEW i \in DOMAIN t, x = t[i]
      PROVE  x \in ToSet(u)
  <2>1. Len(s) + i \in DOMAIN u /\ u[Len(s) + i] = t[i]
    BY <1>1, <1>2 DEF u
  <2> QED BY <1>5, <2>1 DEF ToSet
<1> QED BY <1>3, <1>4, <1>5 DEF ToSet, u

(* r is s with e put in at place i. *)
IsInserted(r, s, i, e) ==
  /\ Len(r) = Len(s) + 1 /\ r[i] = e
  /\ \A j \in 1 .. (i - 1) : r[j] = s[j]
  /\ \A j \in i .. Len(s) : r[j + 1] = s[j]

(* A sequence with one more member, ... *)
LEMMA InsertAtFacts ==
  ASSUME NEW S, NEW s \in Seq(S), NEW i \in 1 .. (Len(s) + 1), NEW e \in S
  PROVE  InsertAt(s, i, e) \in Seq(S) /\ IsInserted(InsertAt(s, i, e), s, i, e)
<1> DEFINE a == SubSeq(s, 1, i - 1)
           b == SubSeq(s, i, Len(s))
           ae == a \o <<e>>
           r == ae \o b
<1>0. Len(s) \in Nat /\ i \in Int
  OBVIOUS
<1>1. a \in Seq(S) /\ Len(a) = i - 1 /\ \A j \in 1 .. (i - 1) : a[j] = s[j]
  <2>1. /\ a \in Seq(S) /\ Len(a) = i - 1 - 1 + 1
        /\ \A j \in 1 .. (i - 1 - 1 + 1) : a[j] = s[1 + j - 1]
    BY <1>0, SubSeqFacts
  <2> HIDE DEF a
  <2> QED BY <1>0, <2>1
<1>2. /\ b \in Seq(S) /\ Len(b) = Len(s) - i + 1
      /\ \A j \in 1 .. (Len(s) - i + 1) : b[j] = s[i + j - 1]
  BY <1>0, SubSeqFacts
<1>3. r = InsertAt(s, i, e)
  BY DEF InsertAt
<1> HIDE DEF a, b
<1>4. ae \in Seq(S) /\ Len(ae) = i /\ ae[i] = e /\ \A j \in 1 .. (i - 1) : ae[j] = s[j]
  BY <1>0, <1>1
<1> HIDE DEF ae
<1>5. /\ r \in Seq(S) /\ Len(r) = Len(ae) + Len(b)
      /\ \A j \in 1 .. Len(ae) : r[j] = ae[j]
      /\ \A j \in 1 .. Len(b) : r[Len(ae) + j] = b[j]
  BY <1>2, <1>4, ConcatFacts
<1> HIDE DEF r
<1>6. \A j \in 1 .. (i - 1) : r[j] = s[j]
  BY <1>0, <1>4, <1>5
<1>7. r[i] = e
  BY <1>0, <1>4, <1>5
<1>8. ASSUME NEW j \in i .. Len(s)
      PROVE  r[j + 1] = s[j]
  <2>1. j - i + 1 \in 1 .. Len(b) /\ i + (j - i + 1) - 1 = j
        /\ Len(ae) + (j - i + 1) = j + 1
    BY <1>0, <1>2, <1>4
  <2>2. r[j + 1] = b[j - i + 1]
    <3>1. PICK x : x = j - i + 1
      OBVIOUS
    <3>2. x \in 1 .. Len(b) /\ Len(ae) + x = j + 1
      BY <2>1, <3>1
    <3>3. r[Len(ae) + x] = b[x]
      BY <1>5, <3>2
    <3> QED BY <3>1, <3>2, <3>3
  <2>3. b[j - i + 1] = s[i + (j - i + 1) - 1]
    BY <1>2, <2>1
  <2> QED BY <2>1, <2>2, <2>3
<1>9. Len(r) = Len(s) + 1
  BY <1>0, <1>2, <1>4, <1>5
<1>10. IsInserted(r, s, i, e)
  BY <1>6, <1>7, <1>8, <1>9 DEF IsInserted
<1> QED BY <1>3, <1>5, <1>10

(* r is s without its member e at place k. *)
IsRemoved(r, s, k, e) ==
  /\ s[k] = e /\ Len(r) = Len(s) - 1
  /\ \A j \in 1 .. (k - 1) : r[j] = s[j]
  /\ \A j \in k .. (Len(s) - 1) : r[j] = s[j + 1]

(* ... and without the first member that is e. *)
LEMMA RemoveFirstFacts ==
  ASSUME NEW S, NEW s \in Seq(S), NEW e \in ToSet(s)
  PROVE  /\ RemoveFirst(s, e) \in Seq(S)
         /\ \E k \in 1 .. Len(s) : IsRemoved(RemoveFirst(s, e), s, k, e)
<1> DEFINE I == {i \in 1 .. Len(s) : s[i] = e}
<1>0. Len(s) \in Nat
  OBVIOUS
<1>1. I \in SUBSET Nat /\ I # {}
  BY DEF ToSet
<1>2. PICK k \in I : k = Min(I)
  BY <1>1, MinNat
<1>3. k \in 1 .. Len(s) /\ s[k] = e
  BY <1>2
<1>4. SelectInSeq(s, LAMBDA v : v = e) = k
  BY <1>1, <1>2 DEF SelectInSeq
<1>5. RemoveFirst(s, e) = RemoveAt(s, k)
  BY <1>3, <1>4 DEF RemoveFirst
<1> DEFINE a == SubSeq(s, 1, k - 1)
           b == SubSeq(s, k + 1, Len(s))
           r == a \o b
<1>6. a \in Seq(S) /\ Len(a) = k - 1 /\ \A j \in 1 .. (k - 1) : a[j] = s[j]
  <2>1. /\ a \in Seq(S) /\ Len(a) = k - 1 - 1 + 1
        /\ \A j \in 1 .. (k - 1 - 1 + 1) : a[j] = s[1 + j - 1]
    BY <1>0, <1>3, SubSeqFacts
  <2> HIDE DEF a
  <2> QED BY <1>0, <1>3, <2>1, SMTT(30)
<1>7. /\ b \in Seq(S) /\ Len(b) = Len(s) - k
      /\ \A j \in 1 .. (Len(s) - k) : b[j] = s[k + j]
  <2>1. /\ b \in Seq(S) /\ Len(b) = Len(s) - (k + 1) + 1
        /\ \A j \in 1 .. (Len(s) - (k + 1) + 1) : b[j] = s[(k + 1) + j - 1]
    BY <1>0, <1>3, SubSeqFacts
  <2> HIDE DEF b
  <2> QED BY <1>0, <1>3, <2>1, SMTT(30)
<1>8. r = RemoveFirst(s, e)
  BY <1>5 DEF RemoveAt
<1> HIDE DEF a, b, I
<1>9. /\ r \in Seq(S) /\ Len(r) = Len(a) + Len(b)
      /\ \A j \in 1 .. Len(a) : r[j] = a[j]
      /\ \A j \in 1 .. Len(b) : r[Len(a) + j] = b[j]
  <2>1. a \in Seq(S) /\ b \in Seq(S)
    BY <1>6, <1>7
  <2> QED BY <2>1, ConcatFacts
<1> HIDE DEF r
<1>10. \A j \in 1 .. (k - 1) : r[j] = s[j]
  BY <1>3, <1>6, <1>9
<1>11. ASSUME NEW j \in k .. (Len(s) - 1)
       PROVE  r[j] = s[j + 1]
  <2>1. j - (k - 1) \in 1 .. Len(b) /\ k + (j - (k - 1)) = j + 1
        /\ Len(a) + (j - (k - 1)) = j
    BY <1>0, <1>3, <1>6, <1>7
  <2>2. r[j] = b[j - (k - 1)]
    BY <1>9, <2>1
  <2>3. b[j - (k - 1)] = s[k + (j - (k - 1))]
    BY <1>7, <2>1
  <2> QED BY <2>1, <2>2, <2>3
<1>12. Len(r) = Len(s) - 1
  BY <1>0, <1>3, <1>6, <1>7, <1>9
<1>13. IsRemoved(r, s, k, e)
  BY <1>3, <1>10, <1>11, <1>12 DEF IsRemoved
<1> QED BY <1>3, <1>8, <1>9, <1>13

(* The members of the two. *)
LEMMA InsertAtMembers ==
  ASSUME NEW S, NEW s \in Seq(S), NEW i \in 1 .. (Len(s) + 1), NEW e \in S
  PROVE  ToSet(InsertAt(s, i, e)) = ToSet(s) \cup {e}
<1> DEFINE r == InsertAt(s, i, e)
<1>0. r \in Seq(S) /\ IsInserted(r, s, i, e)
  BY InsertAtFacts
<1> HIDE DEF r
<1>1. /\ r \in Seq(S) /\ Len(r) = Len(s) + 1
      /\ \A j \in 1 .. (i - 1) : r[j] = s[j]
      /\ r[i] = e
      /\ \A j \in i .. Len(s) : r[j + 1] = s[j]
  BY <1>0 DEF IsInserted
<1>2. DOMAIN r = 1 .. (Len(s) + 1) /\ DOMAIN s = 1 .. Len(s) /\ Len(s) \in Nat
  BY <1>1
<1>3. ASSUME NEW j \in DOMAIN r PROVE r[j] \in ToSet(s) \cup {e}
  <2>1. CASE j < i
    <3>1. j \in DOMAIN s /\ r[j] = s[j]
      BY <1>1, <1>2, <2>1
    <3> QED BY <3>1 DEF ToSet
  <2>2. CASE j = i
    BY <1>1, <2>2
  <2>3. CASE j > i
    <3>1. j - 1 \in i .. Len(s) /\ (j - 1) + 1 = j
      BY <1>2, <2>3
    <3>2. j - 1 \in DOMAIN s /\ r[j] = s[j - 1]
      BY <1>1, <1>2, <3>1
    <3> QED BY <3>2 DEF ToSet
  <2> QED BY <1>2, <2>1, <2>2, <2>3
<1>4. ASSUME NEW j \in DOMAIN s PROVE s[j] \in ToSet(r)
  <2>1. CASE j < i
    <3>1. j \in DOMAIN r /\ r[j] = s[j]
      BY <1>1, <1>2, <2>1
    <3> QED BY <3>1 DEF ToSet
  <2>2. CASE j >= i
    <3>1. j + 1 \in DOMAIN r /\ r[j + 1] = s[j]
      BY <1>1, <1>2, <2>2
    <3> QED BY <3>1 DEF ToSet
  <2> QED BY <1>2, <2>1, <2>2
<1>5. e \in ToSet(r)
  <2>1. i \in DOMAIN r /\ r[i] = e
    BY <1>1, <1>2
  <2> QED BY <2>1 DEF ToSet
<1>6. ToSet(r) \subseteq ToSet(s) \cup {e}
  BY <1>3 DEF ToSet
<1>7. ToSet(s) \subseteq ToSet(r)
  BY <1>4 DEF ToSet
<1> QED BY <1>5, <1>6, <1>7 DEF r

LEMMA RemoveFirstMembers ==
  ASSUME NEW S, NEW s \in Seq(S), NEW e \in ToSet(s)
  PROVE  /\ ToSet(RemoveFirst(s, e)) \subseteq ToSet(s)
         /\ ToSet(s) \ {e} \subseteq ToSet(RemoveFirst(s, e))
<1> DEFINE r == RemoveFirst(s, e)
<1>0. r \in Seq(S) /\ \E k \in 1 .. Len(s) : IsRemoved(r, s, k, e)
  BY RemoveFirstFacts
<1> HIDE DEF r
<1>1. PICK k \in 1 .. Len(s) :
        /\ s[k] = e
        /\ r \in Seq(S) /\ Len(r) = Len(s) - 1
        /\ \A j \in 1 .. (k - 1) : r[j] = s[j]
        /\ \A j \in k .. (Len(s) - 1) : r[j] = s[j + 1]
  BY <1>0 DEF IsRemoved
<1>2. DOMAIN r = 1 .. (Len(s) - 1) /\ DOMAIN s = 1 .. Len(s) /\ Len(s) \in Nat
  BY <1>1
<1>3. ASSUME NEW j \in DOMAIN r PROVE r[j] \in ToSet(s)
  <2>1. \E m \in DOMAIN s : r[j] = s[m]
    <3>1. j \in DOMAIN s /\ j + 1 \in DOMAIN s
      BY <1>2
    <3> QED BY <1>1, <1>2, <3>1
  <2> QED BY <2>1 DEF ToSet
<1>4. ASSUME NEW j \in DOMAIN s, s[j] # e PROVE s[j] \in ToSet(r)
  <2>1. CASE j < k
    <3>1. j \in DOMAIN r /\ r[j] = s[j]
      BY <1>1, <1>2, <2>1
    <3> QED BY <3>1 DEF ToSet
  <2>2. CASE j > k
    <3>1. j - 1 \in DOMAIN r /\ j - 1 \in k .. (Len(s) - 1) /\ (j - 1) + 1 = j
      BY <1>1, <1>2, <2>2
    <3>2. r[j - 1] = s[j]
      BY <1>1, <3>1
    <3> QED BY <3>1, <3>2 DEF ToSet
  <2> QED BY <1>1, <1>2, <1>4, <2>1, <2>2
<1> QED BY <1>3, <1>4 DEF ToSet, r

-----------------------------------------------------------------------------
(* FlattenSeq *)

(* The sequences up to the i-th, joined. *)
Joins(f, ss, n) ==
  f = [i \in 1 .. n |-> IF i = 1 THEN ss[i] ELSE f[i - 1] \o ss[i]]

Joined(ss) == CHOOSE f : Joins(f, ss, Len(ss))

LEMMA FlattenIsJoined ==
  ASSUME NEW ss
  PROVE  FlattenSeq(ss) = IF Len(ss) = 0 THEN ss ELSE Joined(ss)[Len(ss)]
BY DEF FlattenSeq, Joined, Joins

LEMMA JoinedExists ==
  ASSUME NEW S, NEW ss \in Seq(Seq(S))
  PROVE  \E f \in [1 .. Len(ss) -> Seq(S)] : Joins(f, ss, Len(ss))
<1> DEFINE P == {n \in Nat : n <= Len(ss) =>
                               \E f \in [1 .. n -> Seq(S)] : Joins(f, ss, n)}
<1>1. 0 \in P
  <2> DEFINE f == [i \in 1 .. 0 |-> <<>>]
  <2>1. f \in [1 .. 0 -> Seq(S)] /\ Joins(f, ss, 0)
    BY DEF Joins
  <2> HIDE DEF f
  <2> QED BY <2>1
<1>2. ASSUME NEW n \in 0 .. (Len(ss) - 1), n \in P
      PROVE  n + 1 \in P
  <2>1. PICK f \in [1 .. n -> Seq(S)] : Joins(f, ss, n)
    BY <1>2
  <2> DEFINE last == IF n = 0 THEN ss[1] ELSE f[n] \o ss[n + 1]
             g == [i \in 1 .. (n + 1) |-> IF i = n + 1 THEN last ELSE f[i]]
  <2>2. last \in Seq(S)
    <3>1. ss[1] \in Seq(S) /\ ss[n + 1] \in Seq(S)
      BY <1>2
    <3>2. n # 0 => f[n] \in Seq(S)
      BY <2>1
    <3> QED BY <3>1, <3>2
  <2> HIDE DEF last
  <2>3. g \in [1 .. (n + 1) -> Seq(S)]
    BY <2>1, <2>2
  <2>4. \A i \in 1 .. n : f[i] = IF i = 1 THEN ss[i] ELSE f[i - 1] \o ss[i]
    BY <2>1 DEF Joins
  <2>5. \A i \in 1 .. (n + 1) : g[i] = IF i = 1 THEN ss[i] ELSE g[i - 1] \o ss[i]
    <3> SUFFICES ASSUME NEW i \in 1 .. (n + 1)
                 PROVE  g[i] = IF i = 1 THEN ss[i] ELSE g[i - 1] \o ss[i]
      OBVIOUS
    <3>1. CASE i = n + 1
      <4>1. g[i] = last
        BY <3>1
      <4>2. CASE n = 0
        BY <3>1, <4>1, <4>2 DEF last
      <4>3. CASE n # 0
        <5>1. g[i - 1] = f[n] /\ i # 1
          BY <3>1, <4>3
        <5> QED BY <3>1, <4>1, <4>3, <5>1 DEF last
      <4> QED BY <4>2, <4>3
    <3>2. CASE i # n + 1
      <4>1. i \in 1 .. n /\ g[i] = f[i] /\ (i # 1 => g[i - 1] = f[i - 1])
        BY <3>2
      <4> QED BY <2>4, <4>1
    <3> QED BY <3>1, <3>2
  <2>6. Joins(g, ss, n + 1)
    <3> HIDE DEF g
    <3>1. g = [i \in 1 .. (n + 1) |-> g[i]]
      BY <2>3
    <3> QED BY <2>5, <3>1 DEF Joins
  <2> HIDE DEF g
  <2> QED BY <1>2, <2>3, <2>6
<1> HIDE DEF P
<1>3. \A n \in 0 .. Len(ss) : n \in P
  <2>1. Len(ss) \in Nat
    OBVIOUS
  <2> QED BY <1>1, <1>2, <2>1, Induction
<1>4. Len(ss) \in P
  BY <1>3
<1> QED BY <1>4 DEF P

LEMMA JoinedSteps ==
  ASSUME NEW S, NEW ss \in Seq(Seq(S))
  PROVE  /\ Joined(ss) \in [1 .. Len(ss) -> Seq(S)]
         /\ Len(ss) > 0 => Joined(ss)[1] = ss[1]
         /\ \A i \in 2 .. Len(ss) : Joined(ss)[i] = Joined(ss)[i - 1] \o ss[i]
<1> DEFINE n == Len(ss)
           J == Joined(ss)
<1>0. n \in Nat
  OBVIOUS
<1>1. PICK f \in [1 .. n -> Seq(S)] : Joins(f, ss, n)
  BY JoinedExists
<1>2. Joins(J, ss, n)
  BY <1>1 DEF Joined
<1> HIDE DEF n, J
<1>3. /\ DOMAIN J = 1 .. n /\ J = [i \in 1 .. n |-> J[i]]
      /\ \A i \in 1 .. n : i = 1 => J[i] = ss[i]
      /\ \A i \in 1 .. n : i # 1 => J[i] = J[i - 1] \o ss[i]
  BY <1>2, Zenon DEF Joins
<1>4. /\ \A i \in 1 .. n : i = 1 => f[i] = ss[i]
      /\ \A i \in 1 .. n : i # 1 => f[i] = f[i - 1] \o ss[i]
  BY <1>1, Zenon DEF Joins
<1> DEFINE P == {i \in Nat : i \in 1 .. n => J[i] = f[i]}
<1>5. \A i \in 0 .. n : i \in P
  <2>1. 0 \in P
    OBVIOUS
  <2>2. ASSUME NEW i \in 0 .. (n - 1), i \in P
        PROVE  i + 1 \in P
    <3>1. i + 1 \in 1 .. n /\ (i + 1) - 1 = i /\ i \in Nat
      BY <1>0
    <3>2. J[i + 1] = f[i + 1]
      <4>1. CASE i = 0
        BY <1>3, <1>4, <3>1, <4>1
      <4>2. CASE i # 0
        <5>1. J[i] = f[i] /\ i + 1 # 1
          BY <1>0, <2>2, <4>2
        <5>2. J[i + 1] = J[i] \o ss[i + 1] /\ f[i + 1] = f[i] \o ss[i + 1]
          BY <1>3, <1>4, <3>1, <5>1
        <5> QED BY <5>1, <5>2
      <4> QED BY <4>1, <4>2
    <3> QED BY <3>1, <3>2
  <2> HIDE DEF P
  <2> QED BY <1>0, <2>1, <2>2, Induction
<1>6. \A i \in 1 .. n : J[i] \in Seq(S)
  BY <1>0, <1>1, <1>5
<1>7. J \in [1 .. n -> Seq(S)]
  BY <1>3, <1>6
<1>8. n > 0 => J[1] = ss[1]
  BY <1>0, <1>3
<1>9. \A i \in 2 .. n : J[i] = J[i - 1] \o ss[i]
  <2>1. \A i \in 2 .. n : i \in 1 .. n /\ i # 1
    BY <1>0
  <2> QED BY <1>3, <2>1, Zenon
<1> QED BY <1>7, <1>8, <1>9 DEF n, J

LEMMA FlattenType ==
  ASSUME NEW S, NEW ss \in Seq(Seq(S))
  PROVE  FlattenSeq(ss) \in Seq(S)
<1>1. CASE Len(ss) = 0
  <2>1. ss = <<>>
    BY <1>1
  <2>2. FlattenSeq(ss) = ss
    BY <1>1, FlattenIsJoined, Zenon
  <2>3. <<>> \in Seq(S)
    OBVIOUS
  <2> QED BY <2>1, <2>2, <2>3, Zenon
<1>2. CASE Len(ss) # 0
  <2>1. Len(ss) \in 1 .. Len(ss)
    BY <1>2
  <2> QED BY <1>2, <2>1, FlattenIsJoined, JoinedSteps
<1> QED BY <1>1, <1>2

(* A sequence of sequences is joined step by step. *)
LEMMA FlattenSteps ==
  ASSUME NEW S, NEW ss \in Seq(Seq(S)), Len(ss) # 0
  PROVE  \E J \in [1 .. Len(ss) -> Seq(S)] :
           /\ J[1] = ss[1]
           /\ \A i \in 1 .. (Len(ss) - 1) : J[i + 1] = J[i] \o ss[i + 1]
           /\ J[Len(ss)] = FlattenSeq(ss)
<1> DEFINE J == Joined(ss)
<1>1. Len(ss) \in Nat /\ Len(ss) > 0
  OBVIOUS
<1>2. J \in [1 .. Len(ss) -> Seq(S)]
  BY JoinedSteps
<1>3. J[1] = ss[1]
  BY <1>1, JoinedSteps
<1>4. \A i \in 2 .. Len(ss) : J[i] = J[i - 1] \o ss[i]
  BY JoinedSteps
<1>5. J[Len(ss)] = FlattenSeq(ss)
  BY FlattenIsJoined, Zenon
<1> HIDE DEF J
<1>6. ASSUME NEW i \in 1 .. (Len(ss) - 1)
      PROVE  J[i + 1] = J[i] \o ss[i + 1]
  <2>1. i + 1 \in 2 .. Len(ss) /\ (i + 1) - 1 = i
    BY <1>1
  <2>2. J[i + 1] = J[(i + 1) - 1] \o ss[i + 1]
    BY <1>4, <2>1, Zenon
  <2> QED BY <2>1, <2>2
<1> QED BY <1>2, <1>3, <1>5, <1>6

LEMMA FlattenEmpty == FlattenSeq(<<>>) = <<>>
BY FlattenIsJoined

LEMMA FlattenMembers ==
  ASSUME NEW S, NEW ss \in Seq(Seq(S))
  PROVE  \A x : x \in ToSet(FlattenSeq(ss)) <=>
                  \E i \in 1 .. Len(ss) : x \in ToSet(ss[i])
<1>1. CASE Len(ss) = 0
  <2>1. ss = <<>>
    BY <1>1
  <2>2. FlattenSeq(ss) = <<>>
    BY <2>1, FlattenEmpty
  <2> QED BY <1>1, <2>2 DEF ToSet
<1>2. CASE Len(ss) # 0
  <2>0. PICK n \in Nat : n = Len(ss)
    OBVIOUS
  <2>1. PICK J \in [1 .. n -> Seq(S)] :
          /\ J[1] = ss[1]
          /\ \A i \in 1 .. (n - 1) : J[i + 1] = J[i] \o ss[i + 1]
          /\ J[n] = FlattenSeq(ss)
    BY <1>2, <2>0, FlattenSteps
  <2>2. \A i \in 1 .. n : ss[i] \in Seq(S)
    BY <2>0
  <2> DEFINE In(x, k) == \E i \in 1 .. k : x \in ToSet(ss[i])
             P == {k \in Nat : k \in 1 .. n =>
                                 \A x : x \in ToSet(J[k]) <=> In(x, k)}
  <2>3. \A k \in 0 .. n : k \in P
    <3>1. 0 \in P
      OBVIOUS
    <3>2. ASSUME NEW k \in 0 .. (n - 1), k \in P
          PROVE  k + 1 \in P
      <4>1. k + 1 \in 1 .. n /\ k \in Nat /\ k + 1 \in Nat
        OBVIOUS
      <4>2. CASE k = 0
        <5>1. J[k + 1] = ss[1] /\ \A i : i \in 1 .. (k + 1) <=> i = 1
          BY <2>1, <4>2
        <5>2. \A x : x \in ToSet(J[k + 1]) <=> In(x, k + 1)
          BY <5>1, Zenon
        <5> QED BY <4>1, <5>2
      <4>3. CASE k # 0
        <5>1. k \in 1 .. n /\ k \in 1 .. (n - 1)
          BY <4>3
        <5>2. J[k + 1] = J[k] \o ss[k + 1]
          BY <2>1, <5>1, Zenon
        <5>3. J[k] \in Seq(S) /\ ss[k + 1] \in Seq(S)
          BY <2>1, <2>2, <4>1, <5>1
        <5>4. \A x : x \in ToSet(J[k + 1]) <=> x \in ToSet(J[k]) \/ x \in ToSet(ss[k + 1])
          BY <5>2, <5>3, ToSetConcat
        <5>5. \A x : x \in ToSet(J[k]) <=> In(x, k)
          BY <3>2, <5>1
        <5>6. \A i : i \in 1 .. (k + 1) <=> i \in 1 .. k \/ i = k + 1
          BY <4>1
        <5>7. \A x : x \in ToSet(J[k + 1]) <=> In(x, k + 1)
          BY <5>4, <5>5, <5>6, Zenon
        <5> QED BY <4>1, <5>7
      <4> QED BY <4>2, <4>3
    <3> HIDE DEF P
    <3> QED BY <3>1, <3>2, Induction
  <2>4. n \in 0 .. n /\ n \in 1 .. n
    BY <1>2, <2>0
  <2>5. \A x : x \in ToSet(J[n]) <=> In(x, n)
    <3> HIDE DEF In
    <3> QED BY <2>3, <2>4
  <2> QED BY <2>0, <2>1, <2>5
<1> QED BY <1>1, <1>2

-----------------------------------------------------------------------------
(* The order of the members of a sequence of sequences *)

(* Place j of the i-th sequence is before place m of the k-th. *)
Before(i, j, k, m) == i < k \/ (i = k /\ j < m)

(* s has its elements from the first k sequences of ss, in their order. *)
From(ss, s, k) ==
  \A a \in 1 .. Len(s) : \E i \in 1 .. k : \E j \in 1 .. Len(ss[i]) : s[a] = ss[i][j]

InOrder(ss, s, k) ==
  \A a, b \in 1 .. Len(s) : a < b =>
    \E i, l \in 1 .. k : \E j \in 1 .. Len(ss[i]), m \in 1 .. Len(ss[l]) :
      Before(i, j, l, m) /\ s[a] = ss[i][j] /\ s[b] = ss[l][m]

LEMMA JoinInOrder ==
  ASSUME NEW S, NEW ss \in Seq(Seq(S)), NEW k \in 0 .. (Len(ss) - 1),
         NEW s \in Seq(S), NEW t, t = s \o ss[k + 1],
         From(ss, s, k), InOrder(ss, s, k)
  PROVE  From(ss, t, k + 1) /\ InOrder(ss, t, k + 1)
<1>1. PICK e \in Seq(S) : e = ss[k + 1]
  OBVIOUS
<1>2. PICK p \in Nat : p = Len(s)
  OBVIOUS
<1>3. PICK q \in Nat : q = Len(e)
  OBVIOUS
<1>4. /\ Len(t) = p + q
      /\ \A i \in 1 .. p : t[i] = s[i]
      /\ \A i \in 1 .. q : t[p + i] = e[i]
  BY <1>1, <1>2, <1>3, ConcatFacts
<1>5. k \in Nat /\ k + 1 \in 1 .. (k + 1) /\ \A i \in 1 .. k : i \in 1 .. (k + 1) /\ i < k + 1
  OBVIOUS
<1>6. ASSUME NEW a \in 1 .. Len(t), a > p
      PROVE  \E j \in 1 .. q : j = a - p /\ t[a] = e[j]
  <2>1. PICK j \in 1 .. q : a = p + j
    <3>1. a - p \in 1 .. q /\ a = p + (a - p)
      BY <1>4, <1>6
    <3> QED BY <3>1
  <2>2. t[p + j] = e[j] /\ j = a - p
    BY <1>4, <2>1
  <2> QED BY <2>1, <2>2
<1>7. ASSUME NEW a \in 1 .. Len(t), ~(a > p)
      PROVE  a \in 1 .. Len(s) /\ t[a] = s[a]
  BY <1>2, <1>4, <1>7
<1>8. From(ss, t, k + 1)
  <2> SUFFICES ASSUME NEW a \in 1 .. Len(t)
               PROVE  \E i \in 1 .. (k + 1) : \E j \in 1 .. Len(ss[i]) : t[a] = ss[i][j]
    BY DEF From
  <2>1. CASE a > p
    <3>1. \E j \in 1 .. Len(ss[k + 1]) : t[a] = ss[k + 1][j]
      BY <1>1, <1>3, <1>6, <2>1
    <3> QED BY <1>5, <3>1
  <2>2. CASE ~(a > p)
    <3>1. PICK i \in 1 .. k : \E j \in 1 .. Len(ss[i]) : s[a] = ss[i][j]
      BY <1>7, <2>2 DEF From
    <3>2. i \in 1 .. (k + 1) /\ t[a] = s[a]
      BY <1>5, <1>7, <2>2, <3>1
    <3> QED BY <3>1, <3>2
  <2> QED BY <2>1, <2>2
<1>9. ASSUME NEW a \in 1 .. Len(t), NEW b \in 1 .. Len(t), a < b
      PROVE  \E i, l \in 1 .. (k + 1) :
               \E j \in 1 .. Len(ss[i]), m \in 1 .. Len(ss[l]) :
                 Before(i, j, l, m) /\ t[a] = ss[i][j] /\ t[b] = ss[l][m]
  <2>1. CASE ~(b > p)
    <3>1. ~(a > p) /\ a \in 1 .. Len(s) /\ b \in 1 .. Len(s)
      BY <1>2, <1>4, <1>9, <2>1
    <3>2. t[a] = s[a] /\ t[b] = s[b]
      BY <1>7, <2>1, <3>1
    <3>3. PICK i \in 1 .. k, l \in 1 .. k :
            \E j \in 1 .. Len(ss[i]), m \in 1 .. Len(ss[l]) :
              Before(i, j, l, m) /\ s[a] = ss[i][j] /\ s[b] = ss[l][m]
      BY <1>9, <3>1 DEF InOrder
    <3>4. i \in 1 .. (k + 1) /\ l \in 1 .. (k + 1)
      BY <1>5, <3>3
    <3> QED BY <3>2, <3>3, <3>4
  <2>2. CASE b > p /\ a > p
    <3>1. PICK j \in 1 .. q : j = a - p /\ t[a] = e[j]
      BY <1>6, <2>2
    <3>2. PICK m \in 1 .. q : m = b - p /\ t[b] = e[m]
      BY <1>6, <2>2
    <3>3. j < m
      BY <1>4, <1>9, <3>1, <3>2
    <3>4. Before(k + 1, j, k + 1, m)
      BY <3>3 DEF Before
    <3>5. /\ j \in 1 .. Len(ss[k + 1]) /\ m \in 1 .. Len(ss[k + 1])
          /\ t[a] = ss[k + 1][j] /\ t[b] = ss[k + 1][m]
      BY <1>1, <1>3, <3>1, <3>2
    <3> QED BY <1>5, <3>4, <3>5
  <2>3. CASE b > p /\ ~(a > p)
    <3>1. PICK m \in 1 .. q : m = b - p /\ t[b] = e[m]
      BY <1>6, <2>3
    <3>2. PICK i \in 1 .. k : \E j \in 1 .. Len(ss[i]) : s[a] = ss[i][j]
      BY <1>7, <2>3 DEF From
    <3>3. PICK j \in 1 .. Len(ss[i]) : s[a] = ss[i][j]
      BY <3>2
    <3>4. t[a] = ss[i][j] /\ i \in 1 .. (k + 1) /\ Before(i, j, k + 1, m)
      BY <1>5, <1>7, <2>3, <3>3 DEF Before
    <3>5. m \in 1 .. Len(ss[k + 1]) /\ t[b] = ss[k + 1][m]
      BY <1>1, <1>3, <3>1
    <3> QED BY <1>5, <3>3, <3>4, <3>5
  <2> QED BY <2>1, <2>2, <2>3
<1>10. InOrder(ss, t, k + 1)
  BY <1>9 DEF InOrder
<1> QED BY <1>8, <1>10

(* FlattenSeq keeps the order. *)
LEMMA FlattenInOrder ==
  ASSUME NEW S, NEW ss \in Seq(Seq(S))
  PROVE  From(ss, FlattenSeq(ss), Len(ss)) /\ InOrder(ss, FlattenSeq(ss), Len(ss))
<1>1. CASE Len(ss) = 0
  <2>1. ss = <<>>
    BY <1>1
  <2>2. FlattenSeq(ss) = <<>>
    BY <2>1, FlattenEmpty
  <2>3. 1 .. Len(FlattenSeq(ss)) = {}
    BY <2>2
  <2> QED BY <2>3 DEF From, InOrder
<1>2. CASE Len(ss) # 0
  <2>0. PICK n \in Nat : n = Len(ss)
    OBVIOUS
  <2>1. PICK J \in [1 .. n -> Seq(S)] :
          /\ J[1] = ss[1]
          /\ \A i \in 1 .. (n - 1) : J[i + 1] = J[i] \o ss[i + 1]
          /\ J[n] = FlattenSeq(ss)
    BY <1>2, <2>0, FlattenSteps
  <2> DEFINE P == {k \in Nat : k \in 1 .. n => From(ss, J[k], k) /\ InOrder(ss, J[k], k)}
  <2>2. 0 \in P
    OBVIOUS
  <2>3. ASSUME NEW k \in 0 .. (n - 1), k \in P
        PROVE  k + 1 \in P
    <3>1. k + 1 \in 1 .. n /\ k + 1 \in Nat /\ k \in 0 .. (Len(ss) - 1)
      BY <2>0
    <3>2. CASE k = 0
      <4>1. <<>> \in Seq(S) /\ J[k + 1] \in Seq(S) /\ J[k + 1] = ss[k + 1]
        BY <2>1, <3>1, <3>2
      <4>2. J[k + 1] = <<>> \o ss[k + 1]
        BY <4>1
      <4>3. From(ss, <<>>, k) /\ InOrder(ss, <<>>, k)
        BY DEF From, InOrder
      <4>4. From(ss, J[k + 1], k + 1) /\ InOrder(ss, J[k + 1], k + 1)
        BY <3>1, <4>1, <4>2, <4>3, JoinInOrder
      <4> QED BY <3>1, <4>4
    <3>3. CASE k # 0
      <4>1. k \in 1 .. n /\ k \in 1 .. (n - 1) /\ J[k] \in Seq(S)
        BY <2>1, <3>3
      <4>2. J[k + 1] = J[k] \o ss[k + 1]
        BY <2>1, <4>1
      <4>3. From(ss, J[k], k) /\ InOrder(ss, J[k], k)
        BY <2>3, <4>1
      <4>4. From(ss, J[k + 1], k + 1) /\ InOrder(ss, J[k + 1], k + 1)
        BY <3>1, <4>1, <4>2, <4>3, JoinInOrder
      <4> QED BY <3>1, <4>4
    <3> QED BY <3>2, <3>3
  <2> HIDE DEF P
  <2>4. \A k \in 0 .. n : k \in P
    BY <2>2, <2>3, Induction
  <2>5. n \in 0 .. n /\ n \in 1 .. n
    BY <1>2, <2>0
  <2>6. From(ss, J[n], n) /\ InOrder(ss, J[n], n)
    BY <2>4, <2>5 DEF P
  <2> QED BY <2>0, <2>1, <2>6
<1> QED BY <1>1, <1>2

(* The members of the sequences of ss increase in this order, by key. *)
Ascending(ss, key) ==
  \A i, k \in 1 .. Len(ss) : \A j \in 1 .. Len(ss[i]), m \in 1 .. Len(ss[k]) :
    Before(i, j, k, m) => key[ss[i][j]] < key[ss[k][m]]

(* So they do in the sequence that FlattenSeq makes of them. *)
LEMMA FlattenAscends ==
  ASSUME NEW S, NEW ss \in Seq(Seq(S)), NEW key, Ascending(ss, key)
  PROVE  \A a, b \in 1 .. Len(FlattenSeq(ss)) :
           a < b => key[FlattenSeq(ss)[a]] < key[FlattenSeq(ss)[b]]
<1>1. PICK s : s = FlattenSeq(ss)
  OBVIOUS
<1>2. InOrder(ss, s, Len(ss))
  BY <1>1, FlattenInOrder
<1>3. ASSUME NEW a \in 1 .. Len(s), NEW b \in 1 .. Len(s), a < b
      PROVE  key[s[a]] < key[s[b]]
  <2>1. PICK i \in 1 .. Len(ss), l \in 1 .. Len(ss) :
          \E j \in 1 .. Len(ss[i]), m \in 1 .. Len(ss[l]) :
            Before(i, j, l, m) /\ s[a] = ss[i][j] /\ s[b] = ss[l][m]
    BY <1>2, <1>3 DEF InOrder
  <2>2. PICK j \in 1 .. Len(ss[i]), m \in 1 .. Len(ss[l]) :
          Before(i, j, l, m) /\ s[a] = ss[i][j] /\ s[b] = ss[l][m]
    BY <2>1
  <2> QED BY <2>2 DEF Ascending
<1> QED BY <1>1, <1>3

(* t has the elements of s, but for the one at place k. *)
Without(t, s, at) ==
  \A j \in 1 .. Len(t) : \E k \in 1 .. Len(s) :
    t[j] = s[k] /\ ((j < at /\ k = j) \/ (j >= at /\ k = j + 1))

LEMMA RemoveFirstWithout ==
  ASSUME NEW S, NEW s \in Seq(S), NEW e \in ToSet(s)
  PROVE  \E at \in Nat : Without(RemoveFirst(s, e), s, at)
<1>1. PICK t : t = RemoveFirst(s, e)
  OBVIOUS
<1>2. PICK at \in 1 .. Len(s) :
        /\ Len(t) = Len(s) - 1
        /\ \A j \in 1 .. (at - 1) : t[j] = s[j]
        /\ \A j \in at .. (Len(s) - 1) : t[j] = s[j + 1]
  <2>1. \E k \in 1 .. Len(s) : IsRemoved(t, s, k, e)
    BY <1>1, RemoveFirstFacts
  <2> QED BY <2>1 DEF IsRemoved
<1>3. PICK n \in Nat : n = Len(s)
  OBVIOUS
<1>4. ASSUME NEW j \in 1 .. Len(t)
      PROVE  \E k \in 1 .. n : /\ t[j] = s[k]
                               /\ (j < at /\ k = j) \/ (j >= at /\ k = j + 1)
  <2>1. CASE j < at
    <3>1. j \in 1 .. (at - 1) /\ j \in 1 .. n
      BY <1>2, <1>3, <1>4, <2>1
    <3> QED BY <1>2, <2>1, <3>1
  <2>2. CASE j >= at
    <3>1. j \in at .. (Len(s) - 1) /\ j + 1 \in 1 .. n
      BY <1>2, <1>3, <1>4, <2>2
    <3> QED BY <1>2, <2>2, <3>1
  <2> QED BY <1>2, <1>3, <2>1, <2>2
<1>5. at \in Nat
  BY <1>2
<1> QED BY <1>1, <1>3, <1>4, <1>5 DEF Without

(* t has the elements of s and e at place k. *)
With(t, s, at, e) ==
  /\ t[at] = e
  /\ \A j \in 1 .. Len(t) : j # at => \E k \in 1 .. Len(s) :
       t[j] = s[k] /\ ((j < at /\ k = j) \/ (j > at /\ k = j - 1))

LEMMA InsertAtWith ==
  ASSUME NEW S, NEW s \in Seq(S), NEW at \in 1 .. (Len(s) + 1), NEW e \in S
  PROVE  With(InsertAt(s, at, e), s, at, e)
<1>1. PICK t : t = InsertAt(s, at, e)
  OBVIOUS
<1>2. IsInserted(t, s, at, e)
  BY <1>1, InsertAtFacts
<1>3. PICK n \in Nat : n = Len(s)
  OBVIOUS
<1>4. ASSUME NEW j \in 1 .. Len(t), j # at
      PROVE  \E k \in 1 .. n : /\ t[j] = s[k]
                               /\ (j < at /\ k = j) \/ (j > at /\ k = j - 1)
  <2>1. CASE j < at
    <3>1. j \in 1 .. (at - 1) /\ j \in 1 .. n
      BY <1>2, <1>3, <1>4, <2>1 DEF IsInserted
    <3> QED BY <1>2, <2>1, <3>1 DEF IsInserted
  <2>2. CASE j > at
    <3>1. PICK k \in at .. n : k = j - 1
      <4>1. j - 1 \in at .. n
        BY <1>2, <1>3, <1>4, <2>2 DEF IsInserted
      <4> QED BY <4>1
    <3>2. t[k + 1] = s[k] /\ k + 1 = j /\ k \in 1 .. n
      BY <1>2, <1>3, <1>4, <3>1 DEF IsInserted
    <3> QED BY <2>2, <3>1, <3>2
  <2> QED BY <1>3, <1>4, <2>1, <2>2
<1> QED BY <1>1, <1>2, <1>3, <1>4 DEF With, IsInserted

(* A member is removed. *)
LEMMA RemoveAscends ==
  ASSUME NEW ss, NEW tt, NEW key, NEW h \in Nat, NEW at \in Nat, NEW n \in Nat,
         n = Len(ss), Len(tt) = n, Without(tt[h], ss[h], at),
         \A i \in 1 .. n : i # h => tt[i] = ss[i],
         Ascending(ss, key)
  PROVE  Ascending(tt, key)
<1> DEFINE Old(i, j, a) ==
             /\ a \in 1 .. Len(ss[i]) /\ tt[i][j] = ss[i][a]
             /\ \/ i # h /\ a = j
                \/ i = h /\ j < at /\ a = j
                \/ i = h /\ j >= at /\ a = j + 1
<1>1. ASSUME NEW i \in 1 .. n, NEW j \in 1 .. Len(tt[i])
      PROVE  \E a \in Int : Old(i, j, a)
  <2>1. CASE i = h
    <3>1. PICK t : t = tt[i]
      OBVIOUS
    <3>2. PICK s : s = ss[i]
      OBVIOUS
    <3>3. Without(t, s, at) /\ j \in 1 .. Len(t)
      BY <2>1, <3>1, <3>2
    <3>4. PICK a \in 1 .. Len(s) :
            t[j] = s[a] /\ ((j < at /\ a = j) \/ (j >= at /\ a = j + 1))
      BY <3>3 DEF Without
    <3>5. Old(i, j, a) /\ a \in Int
      BY <2>1, <3>1, <3>2, <3>4
    <3> QED BY <3>5
  <2>2. CASE i # h
    BY <2>2
  <2> QED BY <2>1, <2>2
<1>2. ASSUME NEW i \in 1 .. n, NEW k \in 1 .. n,
             NEW j \in 1 .. Len(tt[i]), NEW m \in 1 .. Len(tt[k]),
             Before(i, j, k, m)
      PROVE  key[tt[i][j]] < key[tt[k][m]]
  <2>1. PICK a \in Int : Old(i, j, a)
    BY <1>1
  <2>2. PICK b \in Int : Old(k, m, b)
    BY <1>1
  <2>3. j \in Int /\ m \in Int
    OBVIOUS
  <2>4. Before(i, a, k, b)
    <3>1. i = k /\ j < m => a < b
      BY <2>1, <2>2, <2>3
    <3> QED BY <1>2, <3>1 DEF Before
  <2>5. key[ss[i][a]] < key[ss[k][b]]
    BY <2>1, <2>2, <2>4 DEF Ascending
  <2> QED BY <2>1, <2>2, <2>5
<1> QED BY <1>2 DEF Ascending

(* A member is inserted between those with smaller and larger keys. *)
LEMMA InsertAscends ==
  ASSUME NEW ss, NEW tt, NEW key, NEW h \in Nat, NEW at \in Nat, NEW n \in Nat,
         NEW e, n = Len(ss), Len(tt) = n, With(tt[h], ss[h], at, e),
         \A i \in 1 .. n : i # h => tt[i] = ss[i],
         \A i \in 1 .. n : \A j \in 1 .. Len(ss[i]) :
           Before(i, j, h, at) => key[ss[i][j]] < key[e],
         \A i \in 1 .. n : \A j \in 1 .. Len(ss[i]) :
           ~Before(i, j, h, at) => key[e] < key[ss[i][j]],
         Ascending(ss, key)
  PROVE  Ascending(tt, key)
<1> DEFINE Old(i, j, a) ==
             /\ a \in 1 .. Len(ss[i]) /\ tt[i][j] = ss[i][a]
             /\ \/ i # h /\ a = j
                \/ i = h /\ j < at /\ a = j
                \/ i = h /\ j > at /\ a = j - 1
<1>1. ASSUME NEW i \in 1 .. n, NEW j \in 1 .. Len(tt[i]), ~(i = h /\ j = at)
      PROVE  \E a \in Int : Old(i, j, a)
  <2>1. CASE i = h
    <3>1. PICK t : t = tt[i]
      OBVIOUS
    <3>2. PICK s : s = ss[i]
      OBVIOUS
    <3>3. With(t, s, at, e) /\ j \in 1 .. Len(t)
      BY <2>1, <3>1, <3>2
    <3>4. PICK a \in 1 .. Len(s) :
            t[j] = s[a] /\ ((j < at /\ a = j) \/ (j > at /\ a = j - 1))
      BY <1>1, <2>1, <3>3 DEF With
    <3>5. Old(i, j, a) /\ a \in Int
      BY <2>1, <3>1, <3>2, <3>4
    <3> QED BY <3>5
  <2>2. CASE i # h
    BY <2>2
  <2> QED BY <2>1, <2>2
<1>2. tt[h][at] = e
  BY DEF With
<1>3. ASSUME NEW i \in 1 .. n, NEW k \in 1 .. n,
             NEW j \in 1 .. Len(tt[i]), NEW m \in 1 .. Len(tt[k]),
             Before(i, j, k, m)
      PROVE  key[tt[i][j]] < key[tt[k][m]]
  <2>1. j \in Int /\ m \in Int /\ i \in Int /\ k \in Int
    OBVIOUS
  <2>2. CASE ~(i = h /\ j = at) /\ ~(k = h /\ m = at)
    <3>1. PICK a \in Int : Old(i, j, a)
      BY <1>1, <2>2
    <3>2. PICK b \in Int : Old(k, m, b)
      BY <1>1, <2>2
    <3>3. Before(i, a, k, b)
      <4>1. i = k /\ j < m => a < b
        BY <2>1, <2>2, <3>1, <3>2
      <4> QED BY <1>3, <4>1 DEF Before
    <3>4. key[ss[i][a]] < key[ss[k][b]]
      BY <3>1, <3>2, <3>3 DEF Ascending
    <3> QED BY <3>1, <3>2, <3>4
  <2>3. CASE i = h /\ j = at
    <3>1. ~(k = h /\ m = at)
      BY <1>3, <2>3, <2>1 DEF Before
    <3>2. PICK b \in Int : Old(k, m, b)
      BY <1>1, <3>1
    <3>3. ~Before(k, b, h, at)
      <4>1. k > h \/ (k = h /\ m > at)
        BY <1>3, <2>3 DEF Before
      <4>2. k = h => b >= at
        BY <2>1, <3>2, <4>1
      <4> QED BY <2>1, <4>1, <4>2 DEF Before
    <3> QED BY <1>2, <2>3, <3>2, <3>3
  <2>4. CASE k = h /\ m = at
    <3>1. ~(i = h /\ j = at)
      BY <1>3, <2>4, <2>1 DEF Before
    <3>2. PICK a \in Int : Old(i, j, a)
      BY <1>1, <3>1
    <3>3. Before(i, a, h, at)
      <4>1. i < h \/ (i = h /\ j < at)
        BY <1>3, <2>4 DEF Before
      <4>2. i = h => a < at
        BY <2>1, <3>2, <4>1
      <4> QED BY <2>1, <4>1, <4>2 DEF Before
    <3> QED BY <1>2, <2>4, <3>2, <3>3
  <2> QED BY <2>2, <2>3, <2>4
<1> QED BY <1>3 DEF Ascending

(* Paths in a tree *)

(* Induction over the distance from the root. *)
LEMMA RankInduction ==
  ASSUME NEW D, NEW rank \in [D -> Nat], NEW S,
         \A n \in D : (\A m \in D : rank[m] < rank[n] => m \in S) => n \in S
  PROVE  D \subseteq S
<1> SUFFICES ASSUME D \ S # {} PROVE FALSE
  OBVIOUS
<1>1. PICK T \in SUBSET Nat : T = {rank[n] : n \in D \ S}
  <2>1. {rank[n] : n \in D \ S} \in SUBSET Nat
    OBVIOUS
  <2> QED BY <2>1
<1>2. PICK k \in T : \A y \in T : k <= y
  <2>1. T # {}
    BY <1>1
  <2> QED BY <2>1, LeastNat
<1>3. PICK n \in D \ S : rank[n] = k
  BY <1>1
<1>4. ASSUME NEW m \in D, rank[m] < rank[n]
      PROVE  m \in S
  <2> SUFFICES ASSUME m \notin S PROVE FALSE
    OBVIOUS
  <2>1. rank[m] \in T /\ rank[m] \in Nat /\ k \in Nat
    BY <1>1
  <2>2. k <= rank[m]
    BY <1>2, <2>1
  <2> QED BY <1>3, <1>4, <2>1, <2>2
<1> QED BY <1>3, <1>4

(* The paths of the nodes D below r, where the nodes W hang on the node    *)
(* that par gives and have the name that nm gives.                         *)
ArePaths(P, D, r, W, par, nm) ==
  P = [n \in D |-> IF n = r THEN {<<>>}
                   ELSE IF n \in W THEN {Append(q, nm[n]) : q \in P[par[n]]}
                   ELSE {}]

(* The nodes W hang on nodes that are nearer to the root r. *)
Rooted(D, rank, r, W, par) ==
  \A n \in (D \cap W) \ {r} : par[n] \in D /\ rank[par[n]] < rank[n]

LEMMA PathsExist ==
  ASSUME NEW D, NEW K \in Nat, NEW rank \in [D -> 0 .. K], NEW r, NEW W,
         NEW par, NEW nm,
         Rooted(D, rank, r, W, par)
  PROVE  \E P : ArePaths(P, D, r, W, par, nm)
<1> DEFINE Body(P, n) == IF n = r THEN {<<>>}
                         ELSE IF n \in W THEN {Append(q, nm[n]) : q \in P[par[n]]}
                         ELSE {}
           T == {k \in Nat : \E P : /\ P = [n \in D |-> P[n]]
                                    /\ \A n \in D : rank[n] < k => P[n] = Body(P, n)}
<1>1. \A n \in D : rank[n] \in Nat /\ rank[n] <= K
  OBVIOUS
<1> USE DEF Rooted
<1>2. 0 \in T
  <2>1. PICK P : P = [n \in D |-> {}]
    OBVIOUS
  <2>2. P = [n \in D |-> P[n]] /\ \A n \in D : rank[n] < 0 => P[n] = Body(P, n)
    BY <1>1, <2>1
  <2> QED BY <2>2
<1>3. ASSUME NEW k \in 0 .. K, k \in T
      PROVE  k + 1 \in T
  <2>1. PICK P : P = [n \in D |-> P[n]] /\ \A n \in D : rank[n] < k => P[n] = Body(P, n)
    BY <1>3
  <2>2. PICK Q : Q = [n \in D |-> Body(P, n)]
    OBVIOUS
  <2>3. \A n \in D : rank[n] < k => Q[n] = P[n]
    BY <2>1, <2>2
  <2>4. ASSUME NEW n \in D, rank[n] < k + 1
        PROVE  Q[n] = Body(Q, n)
    <3>1. Q[n] = Body(P, n)
      BY <2>2
    <3>2. CASE n # r /\ n \in W
      <4>1. par[n] \in D /\ rank[par[n]] < rank[n]
        BY <3>2
      <4>2. rank[par[n]] < k
        BY <1>1, <2>4, <4>1
      <4>3. Q[par[n]] = P[par[n]]
        BY <2>3, <4>1, <4>2
      <4> QED BY <3>1, <4>3
    <3>3. CASE ~(n # r /\ n \in W)
      BY <3>1, <3>3
    <3> QED BY <3>2, <3>3
  <2>5. Q = [n \in D |-> Q[n]]
    BY <2>2
  <2>6. k + 1 \in Nat
    OBVIOUS
  <2> HIDE DEF Body
  <2> QED BY <2>4, <2>5, <2>6
<1>4. K + 1 \in T
  <2> HIDE DEF T
  <2>1. \A n \in 0 .. (K + 1) : n \in T
    <3>1. K + 1 \in Nat /\ \A k \in 0 .. (K + 1 - 1) : k \in 0 .. K
      OBVIOUS
    <3> QED BY <1>2, <1>3, <3>1, Induction
  <2> QED BY <2>1
<1>5. PICK P : P = [n \in D |-> P[n]] /\ \A n \in D : rank[n] < K + 1 => P[n] = Body(P, n)
  BY <1>4
<1>6. \A n \in D : P[n] = Body(P, n)
  BY <1>1, <1>5
<1>7. P = [n \in D |-> Body(P, n)]
  BY <1>5, <1>6
<1> QED BY <1>7 DEF ArePaths

LEMMA PathAppend ==
  ASSUME NEW S, NEW p \in Seq(S), NEW e \in S
  PROVE  /\ Append(p, e) \in Seq(S) /\ Append(p, e) # <<>>
         /\ Front(Append(p, e)) = p /\ Last(Append(p, e)) = e
<1>1. Append(p, e) \in Seq(S)
  OBVIOUS
<1>2. PICK q \in Seq(S) : q = Append(p, e)
  BY <1>1
<1>3. Len(q) = Len(p) + 1 /\ q # <<>> /\ q[Len(q)] = e /\ Len(p) \in Nat
  BY <1>2
<1>4. \A i \in 1 .. Len(p) : q[i] = p[i]
  BY <1>2
<1>5. Front(q) = [i \in 1 .. (Len(q) - 1) |-> q[i]] /\ Len(q) - 1 = Len(p)
  BY <1>3 DEF Front
<1>6. Front(q) = p
  <2>1. p = [i \in 1 .. Len(p) |-> p[i]]
    OBVIOUS
  <2> QED BY <1>4, <1>5, <2>1
<1> QED BY <1>2, <1>3, <1>6 DEF Last

(* Every node has at most one path, and no two have the same. *)
OnePath(P, D, S) ==
  /\ \A n \in D : P[n] \subseteq Seq(S)
  /\ \A n \in D : \A p, q \in P[n] : p = q
  /\ \A m, n \in D : \A q \in P[n] : q \in P[m] => m = n

(* Paths are unique if no two    *)
(* nodes that hang on the same node have the same name.                    *)
LEMMA PathsUnique ==
  ASSUME NEW D, NEW K \in Nat, NEW rank \in [D -> 0 .. K], NEW r, NEW W,
         NEW par, NEW S, NEW nm \in [D -> S], NEW P,
         Rooted(D, rank, r, W, par),
         ArePaths(P, D, r, W, par, nm),
         \A m, n \in (D \cap W) \ {r} :
           par[m] = par[n] /\ nm[m] = nm[n] => m = n
  PROVE  OnePath(P, D, S)
<1> DEFINE Q(n) == /\ P[n] \subseteq Seq(S)
                   /\ \A p, q \in P[n] : p = q
                   /\ \A m \in D : \A q \in P[n] : q \in P[m] => m = n
           Z == {n \in D : P[n] \subseteq Seq(S)}
           T == {n \in D : Q(n)}
<1> USE DEF Rooted
<1>1. rank \in [D -> Nat]
  OBVIOUS
<1>2. \A n \in D : P[n] = IF n = r THEN {<<>>}
                          ELSE IF n \in W THEN {Append(q, nm[n]) : q \in P[par[n]]}
                          ELSE {}
  BY DEF ArePaths
<1>3. D \subseteq Z
  <2>1. ASSUME NEW n \in D, \A m \in D : rank[m] < rank[n] => m \in Z
        PROVE  n \in Z
    <3>1. CASE n = r
      <4>1. <<>> \in Seq(S)
        OBVIOUS
      <4> QED BY <1>2, <3>1, <4>1
    <3>2. CASE n # r /\ n \in W
      <4>1. P[par[n]] \subseteq Seq(S)
        BY <2>1, <3>2
      <4>2. \A q \in P[par[n]] : Append(q, nm[n]) \in Seq(S)
        BY <4>1, PathAppend
      <4>3. P[n] = {Append(q, nm[n]) : q \in P[par[n]]}
        BY <1>2, <3>2
      <4> QED BY <4>2, <4>3
    <3>3. CASE n # r /\ n \notin W
      BY <1>2, <3>3
    <3> QED BY <3>1, <3>2, <3>3
  <2> HIDE DEF Z
  <2> QED BY <1>1, <2>1, RankInduction
<1>4. \A n \in D : n # r => \A q \in P[n] :
        /\ n \in W /\ par[n] \in D /\ q # <<>>
        /\ Front(q) \in P[par[n]] /\ Last(q) = nm[n] /\ q = Append(Front(q), nm[n])
  <2> SUFFICES ASSUME NEW n \in D, n # r, NEW q \in P[n]
               PROVE  /\ n \in W /\ par[n] \in D /\ q # <<>>
                      /\ Front(q) \in P[par[n]] /\ Last(q) = nm[n]
                      /\ q = Append(Front(q), nm[n])
    OBVIOUS
  <2>1. n \in W /\ par[n] \in D
    BY <1>2
  <2>2. PICK p \in P[par[n]] : q = Append(p, nm[n])
    <3>1. P[n] = {Append(p, nm[n]) : p \in P[par[n]]}
      BY <1>2, <2>1
    <3> QED BY <3>1
  <2>3. p \in Seq(S) /\ nm[n] \in S
    BY <1>3, <2>1
  <2> QED BY <2>1, <2>2, <2>3, PathAppend
<1>5. D \subseteq T
  <2>1. ASSUME NEW n \in D, \A m \in D : rank[m] < rank[n] => m \in T
        PROVE  n \in T
    <3>1. P[n] \subseteq Seq(S)
      BY <1>3
    <3>2. CASE n = r
      <4>1. P[n] = {<<>>}
        BY <1>2, <3>2
      <4>2. \A m \in D : \A q \in P[n] : q \in P[m] => m = n
        BY <1>4, <3>2, <4>1
      <4> QED BY <3>1, <4>1, <4>2
    <3>3. CASE n # r /\ P[n] = {}
      BY <3>3
    <3>4. CASE n # r /\ P[n] # {}
      <4>1. n \in W /\ par[n] \in D /\ rank[par[n]] < rank[n]
        BY <1>4, <3>4
      <4>2. Q(par[n])
        BY <2>1, <4>1
      <4>3. \A p, q \in P[n] : p = q
        <5> SUFFICES ASSUME NEW p \in P[n], NEW q \in P[n] PROVE p = q
          OBVIOUS
        <5>1. Front(p) \in P[par[n]] /\ Front(q) \in P[par[n]]
              /\ p = Append(Front(p), nm[n]) /\ q = Append(Front(q), nm[n])
          BY <1>4, <3>4
        <5>2. Front(p) = Front(q)
          BY <4>2, <5>1
        <5> QED BY <5>1, <5>2
      <4>4. ASSUME NEW m \in D, NEW q \in P[n], q \in P[m]
            PROVE  m = n
        <5>1. q # <<>> /\ Front(q) \in P[par[n]] /\ Last(q) = nm[n]
          BY <1>4, <3>4
        <5>2. m # r
          <6> SUFFICES ASSUME m = r PROVE FALSE
            OBVIOUS
          <6>1. P[m] = {<<>>}
            BY <1>2
          <6> QED BY <4>4, <5>1, <6>1
        <5>3. m \in W /\ par[m] \in D /\ Front(q) \in P[par[m]] /\ Last(q) = nm[m]
          BY <1>4, <4>4, <5>2
        <5>4. par[m] = par[n]
          BY <4>2, <5>1, <5>3
        <5> QED BY <3>4, <4>1, <5>1, <5>2, <5>3, <5>4
      <4> QED BY <3>1, <4>3, <4>4
    <3> QED BY <3>2, <3>3, <3>4
  <2> HIDE DEF T
  <2> QED BY <1>1, <2>1, RankInduction
<1> QED BY <1>5 DEF OnePath

Same(D, f, g) == \A n \in D : g[n] = f[n]

(* Nodes that hang where they hung, under the same names, have the same    *)
(* paths, though nodes without a path may be taken off.                    *)
LEMMA PathsSame ==
  ASSUME NEW D, NEW E, NEW rank \in [D -> Nat], NEW r, NEW W, NEW V, NEW par,
         NEW nm, NEW dad, NEW called, NEW P, NEW Q, D \subseteq E,
         ArePaths(P, D, r, W, par, nm), ArePaths(Q, E, r, V, dad, called),
         Rooted(D, rank, r, W, par),
         Same(D, par, dad), Same(D, nm, called),
         \A n \in D \ {r} : n \in V => n \in W,
         \A n \in D \ {r} : n \in W => n \in V \/ P[n] = {}
  PROVE  Same(D, P, Q)
<1> DEFINE Z == {n \in D : Q[n] = P[n]}
<1> USE DEF Rooted, Same
<1>1. \A n \in D : P[n] = IF n = r THEN {<<>>}
                          ELSE IF n \in W THEN {Append(q, nm[n]) : q \in P[par[n]]}
                          ELSE {}
  BY DEF ArePaths
<1>2. \A n \in E : Q[n] = IF n = r THEN {<<>>}
                          ELSE IF n \in V THEN {Append(q, called[n]) : q \in Q[dad[n]]}
                          ELSE {}
  BY DEF ArePaths
<1>3. ASSUME NEW n \in D, \A m \in D : rank[m] < rank[n] => m \in Z
      PROVE  n \in Z
  <2>1. CASE n = r
    BY <1>1, <1>2, <2>1
  <2>2. CASE n # r /\ n \in V
    <3>1. n \in W /\ Q[par[n]] = P[par[n]]
      BY <1>3, <2>2
    <3>2. Q[n] = {Append(q, called[n]) : q \in Q[dad[n]]}
      BY <1>2, <2>2
    <3>3. Q[n] = {Append(q, nm[n]) : q \in P[par[n]]}
      BY <3>1, <3>2
    <3> QED BY <1>1, <2>2, <3>1, <3>3
  <2>3. CASE n # r /\ n \notin V
    <3>1. Q[n] = {}
      BY <1>2, <2>3
    <3>2. P[n] = {}
      BY <1>1, <2>3
    <3> QED BY <3>1, <3>2
  <2> QED BY <2>1, <2>2, <2>3
<1> HIDE DEF Z
<1>4. D \subseteq Z
  BY <1>3, RankInduction
<1> QED BY <1>4 DEF Z

LEMMA PrefixAppend ==
  ASSUME NEW S, NEW t \in Seq(S), NEW q \in Seq(S), NEW e \in S
  PROVE  /\ IsPrefix(t, Append(q, e)) <=> IsPrefix(t, q) \/ t = Append(q, e)
         /\ IsPrefix(t, t)
         /\ t # <<>> => ~IsPrefix(t, <<>>)
<1>1. PICK a \in Seq(S) : a = Append(q, e)
  <2>1. Append(q, e) \in Seq(S)
    OBVIOUS
  <2> QED BY <2>1
<1>2. Len(a) = Len(q) + 1 /\ a[Len(q) + 1] = e /\ \A i \in 1 .. Len(q) : a[i] = q[i]
  BY <1>1
<1> DEFINE Agree(s, u) == Len(s) <= Len(u) /\ \A i \in 1 .. Len(s) : s[i] = u[i]
<1>3. ASSUME NEW s \in Seq(S), NEW u \in Seq(S)
      PROVE  IsPrefix(s, u) <=> Agree(s, u)
  <2>1. SubSeq(s, 1, Len(s)) = [i \in 1 .. Len(s) |-> s[i]]
    OBVIOUS
  <2>2. ASSUME Len(s) <= Len(u)
        PROVE  /\ SubSeq(u, 1, Len(s)) \in Seq(S)
               /\ Len(SubSeq(u, 1, Len(s))) = Len(s)
               /\ \A i \in 1 .. Len(s) : SubSeq(u, 1, Len(s))[i] = u[i]
    <3>1. 1 \in 1 .. (Len(u) + 1) /\ Len(s) \in 0 .. Len(u)
      BY <2>2
    <3> QED BY <3>1, SubSeqFacts
  <2>3. ASSUME Len(s) <= Len(u)
        PROVE  SubSeq(s, 1, Len(s)) = SubSeq(u, 1, Len(s))
                 <=> \A i \in 1 .. Len(s) : s[i] = u[i]
    <3>1. PICK w \in Seq(S) : w = SubSeq(u, 1, Len(s))
      BY <2>2, <2>3
    <3>2. Len(w) = Len(s) /\ \A i \in 1 .. Len(s) : w[i] = u[i]
      BY <2>2, <2>3, <3>1
    <3>3. s = SubSeq(s, 1, Len(s))
      OBVIOUS
    <3>4. s = w <=> \A i \in 1 .. Len(s) : s[i] = w[i]
      <4>1. s = [i \in 1 .. Len(s) |-> s[i]] /\ w = [i \in 1 .. Len(w) |-> w[i]]
        OBVIOUS
      <4> QED BY <3>2, <4>1
    <3> QED BY <3>1, <3>2, <3>3, <3>4
  <2> QED BY <2>3 DEF IsPrefix
<1>4. IsPrefix(t, a) <=> IsPrefix(t, q) \/ t = a
  <2>1. ASSUME Agree(t, a), Len(t) = Len(a)
        PROVE  t = a
    <3>1. t = [i \in 1 .. Len(t) |-> t[i]] /\ a = [i \in 1 .. Len(a) |-> a[i]]
      OBVIOUS
    <3> QED BY <2>1, <3>1
  <2>2. ASSUME Agree(t, a), Len(t) # Len(a)
        PROVE  Agree(t, q)
    BY <1>2, <2>2
  <2>3. Agree(t, q) => Agree(t, a)
    BY <1>2
  <2>4. t = a => Agree(t, a)
    OBVIOUS
  <2> HIDE DEF Agree
  <2>5. (IsPrefix(t, a) <=> Agree(t, a)) /\ (IsPrefix(t, q) <=> Agree(t, q))
    BY <1>3
  <2> QED BY <2>1, <2>2, <2>3, <2>4, <2>5
<1>5. IsPrefix(t, t)
  BY <1>3
<1>6. t # <<>> => ~IsPrefix(t, <<>>)
  <2>1. t # <<>> => Len(t) > 0
    OBVIOUS
  <2>2. PICK u \in Seq(S) : u = <<>> /\ Len(u) = 0
    <3>1. <<>> \in Seq(S) /\ Len(<<>>) = 0
      OBVIOUS
    <3> QED BY <3>1
  <2>3. Len(t) > 0 => ~Agree(t, u)
    BY <2>2
  <2>4. IsPrefix(t, u) <=> Agree(t, u)
    BY <1>3
  <2> QED BY <2>1, <2>2, <2>3, <2>4
<1> QED BY <1>1, <1>4, <1>5, <1>6

(* When a node is taken off, the paths through it go. *)
Cut(D, r, W, V, c) == \A n \in D \ {r} : n \in V <=> n \in W /\ n # c
Pruned(D, P, Q, t) == \A n \in D : Q[n] = {q \in P[n] : ~IsPrefix(t, q)}

LEMMA PathsWithout ==
  ASSUME NEW D, NEW rank \in [D -> Nat], NEW r, NEW W, NEW V, NEW par, NEW S,
         NEW nm \in [D -> S], NEW P, NEW Q, NEW c \in D \ {r}, NEW t \in P[c],
         ArePaths(P, D, r, W, par, nm), ArePaths(Q, D, r, V, par, nm),
         Rooted(D, rank, r, W, par),
         OnePath(P, D, S), Cut(D, r, W, V, c)
  PROVE  Pruned(D, P, Q, t)
<1> DEFINE Z == {n \in D : Q[n] = {q \in P[n] : ~IsPrefix(t, q)}}
<1> USE DEF Rooted, Cut
<1>1. \A n \in D : P[n] = IF n = r THEN {<<>>}
                          ELSE IF n \in W THEN {Append(q, nm[n]) : q \in P[par[n]]}
                          ELSE {}
  BY DEF ArePaths
<1>2. \A n \in D : Q[n] = IF n = r THEN {<<>>}
                          ELSE IF n \in V THEN {Append(q, nm[n]) : q \in Q[par[n]]}
                          ELSE {}
  BY DEF ArePaths
<1>3. /\ \A n \in D : P[n] \subseteq Seq(S)
      /\ \A n \in D : \A p, q \in P[n] : p = q
      /\ \A m, n \in D : \A q \in P[n] : q \in P[m] => m = n
  BY DEF OnePath
<1>4. t \in Seq(S) /\ t # <<>>
  <2>1. t # <<>>
    <3>1. c \in W /\ par[c] \in D
      BY <1>1
    <3>2. PICK q \in P[par[c]] : t = Append(q, nm[c])
      <4>1. P[c] = {Append(q, nm[c]) : q \in P[par[c]]}
        BY <1>1, <3>1
      <4> QED BY <4>1
    <3>3. q \in Seq(S) /\ nm[c] \in S
      BY <1>3, <3>1
    <3> QED BY <3>2, <3>3, PathAppend
  <2> QED BY <1>3, <2>1
<1>5. ASSUME NEW n \in D, \A m \in D : rank[m] < rank[n] => m \in Z
      PROVE  n \in Z
  <2>1. CASE n = r
    <3>1. P[n] = {<<>>} /\ Q[n] = {<<>>}
      BY <1>1, <1>2, <2>1
    <3>2. ~IsPrefix(t, <<>>)
      <4>1. \E e \in S : TRUE
        BY DEF ArePaths
      <4> QED BY <1>4, <4>1, PrefixAppend
    <3> QED BY <3>1, <3>2
  <2>2. CASE n # r /\ n = c
    <3>1. Q[n] = {}
      BY <1>2, <2>2
    <3>2. \A q \in P[n] : q = t
      BY <1>3, <2>2
    <3>3. IsPrefix(t, t)
      <4>1. \E e \in S : TRUE
        BY DEF ArePaths
      <4> QED BY <1>4, <4>1, PrefixAppend
    <3> QED BY <3>1, <3>2, <3>3
  <2>3. CASE n # r /\ n # c /\ n \in W
    <3>1. par[n] \in D /\ nm[n] \in S /\ Q[par[n]] = {q \in P[par[n]] : ~IsPrefix(t, q)}
      BY <1>5, <2>3
    <3>2. P[n] = {Append(q, nm[n]) : q \in P[par[n]]}
          /\ Q[n] = {Append(q, nm[n]) : q \in Q[par[n]]}
      BY <1>1, <1>2, <2>3
    <3>3. ASSUME NEW q \in P[par[n]]
          PROVE  IsPrefix(t, Append(q, nm[n])) <=> IsPrefix(t, q)
      <4>1. q \in Seq(S)
        BY <1>3, <3>1
      <4>2. Append(q, nm[n]) # t
        BY <1>3, <2>3, <3>2
      <4>3. PICK e \in S : e = nm[n]
        BY <3>1
      <4>4. IsPrefix(t, Append(q, e)) <=> IsPrefix(t, q) \/ t = Append(q, e)
        BY <1>4, <4>1, PrefixAppend
      <4> QED BY <4>2, <4>3, <4>4
    <3>4. ASSUME NEW x
          PROVE  x \in Q[n] <=> x \in P[n] /\ ~IsPrefix(t, x)
      <4>1. ASSUME x \in Q[n]
            PROVE  x \in P[n] /\ ~IsPrefix(t, x)
        <5>1. PICK q \in Q[par[n]] : x = Append(q, nm[n])
          BY <3>2, <4>1
        <5>2. q \in P[par[n]] /\ ~IsPrefix(t, q)
          BY <3>1
        <5>3. ~IsPrefix(t, Append(q, nm[n]))
          BY <3>3, <5>2
        <5> QED BY <3>2, <5>1, <5>2, <5>3
      <4>2. ASSUME x \in P[n], ~IsPrefix(t, x)
            PROVE  x \in Q[n]
        <5>1. PICK q \in P[par[n]] : x = Append(q, nm[n])
          BY <3>2, <4>2
        <5>2. ~IsPrefix(t, q)
          BY <3>3, <4>2, <5>1
        <5>3. q \in Q[par[n]]
          BY <3>1, <5>2
        <5> QED BY <3>2, <5>1, <5>3
      <4> QED BY <4>1, <4>2
    <3> QED BY <3>4
  <2>4. CASE n # r /\ n # c /\ n \notin W
    <3>1. P[n] = {} /\ Q[n] = {}
      BY <1>1, <1>2, <2>4
    <3> QED BY <3>1
  <2> QED BY <2>1, <2>2, <2>3, <2>4
<1> HIDE DEF Z
<1>6. D \subseteq Z
  BY <1>5, RankInduction
<1> QED BY <1>6 DEF Z, Pruned

(* The name of a node may be given by another function. *)
LEMMA ArePathsSame ==
  ASSUME NEW P, NEW D, NEW r, NEW W, NEW par, NEW nm, NEW called,
         Same(D, nm, called), ArePaths(P, D, r, W, par, nm)
  PROVE  ArePaths(P, D, r, W, par, called)
<1>1. ASSUME NEW n \in D
      PROVE  {Append(q, nm[n]) : q \in P[par[n]]} = {Append(q, called[n]) : q \in P[par[n]]}
  <2>1. PICK e : e = nm[n]
    OBVIOUS
  <2>2. called[n] = e
    BY <2>1 DEF Same
  <2> QED BY <2>1, <2>2
<1>2. DEFINE At1(n, e) == IF n = r THEN {<<>>}
                          ELSE IF n \in W THEN {Append(q, e) : q \in P[par[n]]}
                          ELSE {}
<1>3. P = [n \in D |-> At1(n, nm[n])]
  BY DEF ArePaths
<1>4. \A n \in D : At1(n, nm[n]) = At1(n, called[n])
  BY <1>1
<1> HIDE DEF At1
<1>5. P = [n \in D |-> At1(n, called[n])]
  BY <1>3, <1>4
<1> USE DEF At1
<1> QED BY <1>5 DEF ArePaths
=============================================================================
