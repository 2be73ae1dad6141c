-------------------------- MODULE ProcessDataProofs --------------------------
(***************************************************************************)
(* Theorems about ProcessData, for any number of slaves of any sizes and   *)
(* any limits on segments and on the index stack: the layout is sound, an  *)
(* exchange carries every byte once, no datagram ends inside a byte        *)
(* oriented slave, and a full work counter means that all took part.       *)
(*                                                                         *)
(* Four invariants build on each other.  TypeInv has the types; LayoutInv  *)
(* says that what is mapped lies below the next free bit, slave by slave;  *)
(* SegmentInv says how the segments follow the bits; ExchangeInv what the  *)
(* work counter can be after each datagram.                                *)
(***************************************************************************)
EXTENDS ProcessData, FiniteSetTheorems, SequenceTheorems, WellFoundedInduction, TLAPS

----------------------------------------------------------------------------
(* Sums and other recursions.  Induction goes through the least element of *)
(* a set of numbers.                                                       *)

\* A set of numbers that is not empty has a least one.
LEMMA LeastOf ==
  ASSUME NEW U \in SUBSET Nat, U # {}
  PROVE  \E m \in U : \A k \in U : m <= k
<1>1. PICK R : IsWellFoundedOn(R, Nat) /\ \A k, n \in Nat : k < n => <<k, n>> \in R
  <2> DEFINE Q == OpToRel(<,Nat)
  <2>1. IsWellFoundedOn(Q, Nat)
    BY NatLessThanWellFounded
  <2>2. \A k, n \in Nat : k < n => <<k, n>> \in Q
    BY DEF OpToRel
  <2> HIDE DEF Q
  <2> QED
    BY <2>1, <2>2
<1>2. IsWellFoundedOn(R, Nat)
  BY <1>1
<1>3. U \subseteq Nat
  OBVIOUS
<1>4. \E m \in U : \A k \in U : ~ (<<k, m>> \in R)
  BY <1>2, <1>3, WFMin
<1>5. PICK m \in U : \A k \in U : ~ (<<k, m>> \in R)
  BY <1>4
<1>6. \A k \in U : m <= k
  <2> TAKE k \in U
  <2>1. ~ (k < m)
    BY <1>1, <1>5
  <2> QED BY <2>1
<1> QED
  BY <1>6

\* A set with 0 and the successor of each of its numbers has them all.
LEMMA SetInduction ==
  ASSUME NEW T \in SUBSET Nat, 0 \in T, \A n \in Nat : n \in T => n + 1 \in T
  PROVE  T = Nat
<1> DEFINE U == Nat \ T
<1> SUFFICES ASSUME U # {} PROVE FALSE
  OBVIOUS
<1>2. PICK m \in U : \A k \in U : m <= k
  BY LeastOf
<1>3. m # 0 /\ m - 1 \in Nat
  OBVIOUS
<1>4. m - 1 \in T
  BY <1>2, <1>3
<1> QED BY <1>3, <1>4

\* There is a function that starts at c and takes the steps F.
Recursive(n, V, c, F) ==
  \E f \in [0 .. n -> V] : f[0] = c /\ \A k \in 1 .. n : f[k] = F[k][f[k - 1]]

\* There always is, for every number of steps.
LEMMA RecursionExists ==
  ASSUME NEW n \in Nat, NEW V, NEW c \in V, NEW F \in [1 .. n -> [V -> V]]
  PROVE  Recursive(n, V, c, F)
<1> USE DEF Recursive
<1> DEFINE Good(m, f) == f \in [0 .. m -> V] /\ f[0] = c /\ \A k \in 1 .. m : f[k] = F[k][f[k - 1]]
           T == {m \in Nat : m <= n => \E f : Good(m, f)}
<1>1. 0 \in T
  <2>1. Good(0, [k \in 0 .. 0 |-> c])
    OBVIOUS
  <2> QED BY <2>1
<1>2. ASSUME NEW m \in Nat, m \in T
      PROVE  m + 1 \in T
  <2> SUFFICES ASSUME m + 1 <= n
               PROVE  \E f : Good(m + 1, f)
    OBVIOUS
  <2>1. PICK f : Good(m, f)
    BY <1>2
  <2> DEFINE v == F[m + 1][f[m]]
             g == [k \in 0 .. m + 1 |-> IF k = m + 1 THEN v ELSE f[k]]
  <2>2. v \in V
    BY <2>1
  <2>3. g \in [0 .. m + 1 -> V] /\ g[0] = c
    BY <2>1, <2>2
  <2>4. ASSUME NEW k \in 1 .. m + 1
        PROVE  g[k] = F[k][g[k - 1]]
    <3>1. CASE k = m + 1
      <4>1. g[m + 1] = v /\ g[m] = f[m]
        OBVIOUS
      <4> QED BY <3>1, <4>1
    <3>2. CASE k # m + 1
      <4>1. k \in 1 .. m /\ g[k] = f[k] /\ g[k - 1] = f[k - 1]
        BY <3>2
      <4> QED BY <2>1, <4>1
    <3> QED BY <3>1, <3>2
  <2>5. Good(m + 1, g)
    BY <2>3, <2>4
  <2> HIDE DEF g
  <2> QED BY <2>5
<1>3. n \in T
  <2>1. T \in SUBSET Nat
    OBVIOUS
  <2> HIDE DEF T
  <2> QED BY <1>1, <1>2, <2>1, SetInduction
<1> QED BY <1>3

\* The sums of a sequence are those the recursion says.
LEMMA SumsType ==
  ASSUME NEW seq \in Seq(Nat)
  PROVE  /\ Sums(seq) \in [0 .. Len(seq) -> Nat] /\ Sums(seq)[0] = 0
         /\ \A k \in 1 .. Len(seq) : Sums(seq)[k] = Sums(seq)[k - 1] + seq[k]
<1> DEFINE n == Len(seq)
           F == [k \in 1 .. n |-> [v \in Nat |-> v + seq[k]]]
           Rec(f) == f = [k \in 0 .. n |-> IF k = 0 THEN 0 ELSE f[k - 1] + seq[k]]
<1>1. F \in [1 .. n -> [Nat -> Nat]]
  OBVIOUS
<1>2. \E f \in [0 .. n -> Nat] : f[0] = 0 /\ \A k \in 1 .. n : f[k] = F[k][f[k - 1]]
  <2>1. n \in Nat /\ 0 \in Nat
    OBVIOUS
  <2>2. Recursive(n, Nat, 0, F)
    <3> HIDE DEF F, n
    <3> QED BY <1>1, <2>1, RecursionExists, Zenon
  <2> HIDE DEF F, n
  <2> QED BY <2>2 DEF Recursive
<1>3. PICK f \in [0 .. n -> Nat] : f[0] = 0 /\ \A k \in 1 .. n : f[k] = F[k][f[k - 1]]
  BY <1>2
<1>4. Rec(f)
  <2>1. ASSUME NEW k \in 1 .. n
        PROVE  f[k] = f[k - 1] + seq[k]
    <3>0. \A i \in 1 .. n : f[i] = F[i][f[i - 1]]
      BY <1>3
    <3>1. f[k] = F[k][f[k - 1]]
      <4> HIDE DEF F, n
      <4> QED BY <3>0
    <3>2. f[k - 1] \in Nat
      BY Z3T(30)
    <3>3. \A v \in Nat : F[k][v] = v + seq[k]
      OBVIOUS
    <3> HIDE DEF F
    <3> QED BY <3>1, <3>2, <3>3
  <2> QED BY <1>3, <2>1
<1>5. Sums(seq) = CHOOSE g : Rec(g)
  BY DEF Sums
<1>6. Rec(Sums(seq))
  <2> HIDE DEF Rec
  <2> QED BY <1>4, <1>5
<1>7. ASSUME NEW g, Rec(g)
      PROVE  g \in [0 .. n -> Nat] /\ g[0] = 0 /\ \A k \in 1 .. n : g[k] = g[k - 1] + seq[k]
  OBVIOUS
<1> QED
  BY <1>6, <1>7

\* A function that never falls from one number to the next never falls.
LEMMA Rising ==
  ASSUME NEW n \in Nat, NEW f \in [0 .. n -> Nat], \A k \in 1 .. n : f[k - 1] <= f[k]
  PROVE  \A j, k \in 0 .. n : j <= k => f[j] <= f[k]
<1> SUFFICES ASSUME NEW j \in 0 .. n
             PROVE  \A k \in 0 .. n : j <= k => f[j] <= f[k]
  OBVIOUS
<1> DEFINE T == {k \in Nat : k \in j .. n => f[j] <= f[k]}
<1>1. 0 \in T
  OBVIOUS
<1>2. ASSUME NEW k \in Nat, k \in T
      PROVE  k + 1 \in T
  <2> SUFFICES ASSUME k + 1 \in j .. n
               PROVE  f[j] <= f[k + 1]
    OBVIOUS
  <2>1. CASE k + 1 = j
    BY <2>1
  <2>2. CASE k + 1 # j
    <3>1. k \in j .. n /\ f[j] <= f[k] /\ k + 1 \in 1 .. n
      BY <1>2, <2>2
    <3>2. f[(k + 1) - 1] <= f[k + 1]
      BY <3>1
    <3> QED BY <3>1, <3>2
  <2> QED BY <2>1, <2>2
<1>3. T = Nat
  <2>1. T \in SUBSET Nat
    OBVIOUS
  <2> HIDE DEF T
  <2> QED BY <1>1, <1>2, <2>1, SetInduction
<1>4. ASSUME NEW k \in 0 .. n, j <= k
      PROVE  f[j] <= f[k]
  <2>1. k \in T
    <3>1. k \in Nat
      OBVIOUS
    <3> HIDE DEF T
    <3> QED BY <1>3, <3>1
  <2> QED BY <1>4, <2>1
<1> QED BY <1>4

\* A number below the last value lies between two neighbouring ones.
LEMMA Between ==
  ASSUME NEW n \in Nat, NEW f \in [0 .. n -> Nat], f[0] = 0, NEW x \in Nat, x < f[n]
  PROVE  \E k \in 1 .. n : f[k - 1] <= x /\ x < f[k]
<1> DEFINE U == {k \in 0 .. n : x < f[k]}
<1>1. U \in SUBSET Nat /\ U # {}
  <2>1. n \in U
    OBVIOUS
  <2> QED BY <2>1
<1>2. PICK k \in U : \A i \in U : k <= i
  <2> HIDE DEF U
  <2> QED BY <1>1, LeastOf
<1>3. k \in 1 .. n /\ x < f[k]
  OBVIOUS
<1>4. k - 1 \in 0 .. n /\ k - 1 \notin U
  BY <1>2, <1>3
<1>5. f[k - 1] <= x
  BY <1>4
<1> QED BY <1>3, <1>5

\* The sums of lengths never fall.
LEMMA SumsRise ==
  ASSUME NEW seq \in Seq(Nat)
  PROVE  /\ \A k \in 0 .. Len(seq) : UpTo(seq, k) \in Nat
         /\ \A j, k \in 0 .. Len(seq) : j <= k => UpTo(seq, j) <= UpTo(seq, k)
<1> DEFINE f == Sums(seq)
           n == Len(seq)
<1>1. n \in Nat /\ f \in [0 .. n -> Nat] /\ \A k \in 1 .. n : f[k - 1] <= f[k]
  <2>1. f \in [0 .. n -> Nat] /\ \A k \in 1 .. n : f[k] = f[k - 1] + seq[k]
    BY SumsType
  <2>2. \A k \in 1 .. n : seq[k] \in Nat
    OBVIOUS
  <2> HIDE DEF f
  <2>3. ASSUME NEW k \in 1 .. n
        PROVE  f[k - 1] <= f[k]
    <3>1. f[k] = f[k - 1] + seq[k] /\ f[k - 1] \in Nat /\ seq[k] \in Nat
      BY <2>1, <2>2, SMTT(30)
    <3> QED BY <3>1
  <2> QED BY <2>1, <2>3
<1>2. \A j, k \in 0 .. n : j <= k => f[j] <= f[k]
  <2> HIDE DEF f, n
  <2> QED BY <1>1, Rising
<1> QED BY <1>1, <1>2 DEF UpTo

\* What is done of a slave's bytes is what the recursion says, and at most all.
LEMMA DoneType ==
  ASSUME NEW bytes \in Nat, NEW runs \in Seq(Nat)
  PROVE  LET done == Done(bytes, runs)
         IN  /\ done \in [0 .. Len(runs) -> 0 .. bytes] /\ done[0] = 0
             /\ \A k \in 1 .. Len(runs) :
                  done[k] = done[k - 1] + Smaller(UpTo(runs, k), bytes - done[k - 1])
<1> DEFINE n == Len(runs)
           V == 0 .. bytes
           F == [k \in 1 .. n |-> [v \in V |-> v + Smaller(UpTo(runs, k), bytes - v)]]
           Rec(f) == f = [k \in 0 .. n |->
                            IF k = 0 THEN 0 ELSE f[k - 1] + Smaller(UpTo(runs, k), bytes - f[k - 1])]
<1>1. \A k \in 1 .. n : UpTo(runs, k) \in Nat
  BY SumsRise
<1>2. F \in [1 .. n -> [V -> V]]
  BY <1>1 DEF Smaller
<1>3. \E f \in [0 .. n -> V] : f[0] = 0 /\ \A k \in 1 .. n : f[k] = F[k][f[k - 1]]
  <2>1. n \in Nat /\ 0 \in V
    OBVIOUS
  <2>2. Recursive(n, V, 0, F)
    <3> HIDE DEF F, n, V
    <3> QED BY <1>2, <2>1, RecursionExists, Zenon
  <2> HIDE DEF F, n
  <2> QED BY <2>2 DEF Recursive
<1>4. PICK f \in [0 .. n -> V] : f[0] = 0 /\ \A k \in 1 .. n : f[k] = F[k][f[k - 1]]
  BY <1>3
<1>5. Rec(f)
  <2>1. ASSUME NEW k \in 1 .. n
        PROVE  f[k] = f[k - 1] + Smaller(UpTo(runs, k), bytes - f[k - 1])
    <3>0. \A i \in 1 .. n : f[i] = F[i][f[i - 1]]
      BY <1>4
    <3>1. f[k] = F[k][f[k - 1]]
      <4> HIDE DEF F, n
      <4> QED BY <3>0
    <3>2. f[k - 1] \in V
      BY Z3T(30)
    <3>3. \A v \in V : F[k][v] = v + Smaller(UpTo(runs, k), bytes - v)
      OBVIOUS
    <3> HIDE DEF F
    <3> QED BY <3>1, <3>2, <3>3
  <2> QED BY <1>4, <2>1
<1>6. Done(bytes, runs) = CHOOSE g : Rec(g)
  BY DEF Done
<1>7. Rec(Done(bytes, runs))
  <2> HIDE DEF Rec
  <2> QED BY <1>5, <1>6
<1>8. ASSUME NEW g, Rec(g)
      PROVE  /\ g \in [0 .. n -> V] /\ g[0] = 0
             /\ \A k \in 1 .. n : g[k] = g[k - 1] + Smaller(UpTo(runs, k), bytes - g[k - 1])
  BY SMTT(30)
<1> QED BY <1>7, <1>8

\* With runs that have room for the bytes all of them are done in the end.
LEMMA DoneReaches ==
  ASSUME NEW bytes \in Nat, NEW runs \in Seq(Nat), Total(runs) >= bytes
  PROVE  LET done == Done(bytes, runs)
         IN  /\ \A j, k \in 0 .. Len(runs) : j <= k => done[j] <= done[k]
             /\ done[Len(runs)] = bytes
<1> DEFINE f == Done(bytes, runs)
           n == Len(runs)
<1>1. f \in [0 .. n -> Nat] /\ f[0] = 0 /\ \A k \in 0 .. n : f[k] <= bytes
  <2>1. f \in [0 .. n -> 0 .. bytes] /\ f[0] = 0
    BY DoneType
  <2> HIDE DEF f
  <2> QED BY <2>1
<1>2. ASSUME NEW k \in 1 .. n
      PROVE  f[k - 1] <= f[k] /\ (UpTo(runs, k) >= bytes => f[k] = bytes)
  <2>1. f[k] = f[k - 1] + Smaller(UpTo(runs, k), bytes - f[k - 1])
    BY DoneType
  <2>2. UpTo(runs, k) \in Nat
    BY SumsRise
  <2>3. f[k - 1] \in Nat /\ f[k - 1] <= bytes /\ f[k] \in Nat
    <3>1. k \in 0 .. n /\ k - 1 \in 0 .. n
      OBVIOUS
    <3> HIDE DEF f, n
    <3> QED BY <1>1, <3>1
  <2> HIDE DEF f
  <2> QED BY <2>1, <2>2, <2>3 DEF Smaller
<1>3. \A j, k \in 0 .. n : j <= k => f[j] <= f[k]
  <2>1. \A k \in 1 .. n : f[k - 1] <= f[k]
    BY <1>2
  <2>2. n \in Nat
    OBVIOUS
  <2> HIDE DEF f, n
  <2> QED BY <1>1, <2>1, <2>2, Rising
<1>4. f[n] = bytes
  <2>1. CASE n = 0
    <3>1. Total(runs) = 0
      BY <2>1, SumsType DEF Total, UpTo
    <3> QED BY <1>1, <2>1, <3>1
  <2>2. CASE n # 0
    <3>1. n \in 1 .. n /\ UpTo(runs, n) >= bytes
      BY <2>2 DEF Total
    <3> HIDE DEF f
    <3> QED BY <1>2, <3>1
  <2> QED BY <2>1, <2>2
<1> QED BY <1>3, <1>4

\* The bytes of some bits, and the next whole byte.
LEMMA Eights ==
  ASSUME NEW bits \in Nat
  PROVE  /\ BytesOf(bits) \in Nat
         /\ 8 * BytesOf(bits) >= bits /\ 8 * BytesOf(bits) < bits + 8
         /\ (bits > 0 => BytesOf(bits) > 0)
         /\ AtByte(bits) \in Nat /\ AtByte(bits) >= bits /\ AtByte(bits) % 8 = 0
BY DEF BytesOf, AtByte

\* Two FMMUs have no bit in common, or are one.
Apart(f, g) == f.to < g.from \/ g.to < f.from \/ f = g
\* The FMMUs have all of some bits.
Covers(fmmus, p, bits) == \A b \in p .. p + bits - 1 : \E f \in fmmus : f.from <= b /\ b <= f.to

\* The FMMUs of a byte oriented slave are disjoint and cover its bytes, however
\* its sync managers cut them.
LEMMA ByteFmmusFit ==
  ASSUME NEW p \in Nat, NEW bytes \in Nat \ {0}, NEW runs \in Seq(Nat), Total(runs) >= bytes
  PROVE  /\ \A f \in ByteFmmus(p, bytes, runs) :
               f \in Fmmus /\ p <= f.from /\ f.from <= f.to /\ f.to < p + 8 * bytes
         /\ \A f, g \in ByteFmmus(p, bytes, runs) : Apart(f, g)
         /\ Covers(ByteFmmus(p, bytes, runs), p, 8 * bytes)
<1> DEFINE done == Done(bytes, runs)
           n == Len(runs)
           Cut(k) == [from |-> p + 8 * done[k - 1], to |-> p + 8 * done[k] - 1]
           K == {i \in 1 .. n : done[i - 1] < done[i]}
<1>1. n \in Nat /\ done \in [0 .. n -> Nat] /\ done[0] = 0 /\ done[n] = bytes
  <2>1. n \in Nat /\ done \in [0 .. n -> 0 .. bytes] /\ done[0] = 0 /\ done[n] = bytes
    BY DoneType, DoneReaches
  <2> HIDE DEF done
  <2> QED BY <2>1
<1>2. \A j, k \in 0 .. n : j <= k => done[j] <= done[k]
  BY DoneReaches
<1>3. ByteFmmus(p, bytes, runs) = {Cut(k) : k \in K}
  BY DEF ByteFmmus
<1> HIDE DEF done, n
<1>4. ASSUME NEW k \in K
      PROVE  /\ Cut(k) \in Fmmus /\ p <= Cut(k).from /\ Cut(k).from <= Cut(k).to
             /\ Cut(k).to < p + 8 * bytes
  <2>1. k \in 0 .. n /\ k - 1 \in 0 .. n /\ n \in 0 .. n /\ k <= n
    BY <1>1
  <2>2. done[k - 1] \in Nat /\ done[k] \in Nat /\ done[k - 1] < done[k] /\ done[k] <= bytes
    BY <1>1, <1>2, <2>1
  <2>3. /\ p + 8 * done[k - 1] \in Nat /\ p + 8 * done[k] - 1 \in Nat
        /\ p <= p + 8 * done[k - 1] /\ p + 8 * done[k - 1] <= p + 8 * done[k] - 1
        /\ p + 8 * done[k] - 1 < p + 8 * bytes
    <3> DEFINE a == done[k - 1]
               c == done[k]
    <3>1. a \in Nat /\ c \in Nat /\ a < c /\ c <= bytes
      BY <2>2
    <3> HIDE DEF a, c
    <3>2. /\ p + 8 * a \in Nat /\ p + 8 * c - 1 \in Nat
          /\ p <= p + 8 * a /\ p + 8 * a <= p + 8 * c - 1 /\ p + 8 * c - 1 < p + 8 * bytes
      BY <3>1
    <3> QED BY <3>2 DEF a, c
  <2>4. Cut(k).from = p + 8 * done[k - 1] /\ Cut(k).to = p + 8 * done[k] - 1
    OBVIOUS
  <2>5. Cut(k) \in Fmmus
    BY <2>3 DEF Fmmus
  <2> HIDE DEF Cut
  <2> QED BY <2>3, <2>4, <2>5
<1>5. ASSUME NEW j \in K, NEW k \in K
      PROVE  Apart(Cut(j), Cut(k))
  <2>1. j \in 0 .. n /\ j - 1 \in 0 .. n /\ k \in 0 .. n /\ k - 1 \in 0 .. n
    BY <1>1
  <2>2. done[j - 1] \in Nat /\ done[j] \in Nat /\ done[k - 1] \in Nat /\ done[k] \in Nat
    BY <1>1, <2>1
  <2>3. CASE j < k
    <3>1. done[j] <= done[k - 1]
      BY <1>2, <2>1, <2>3
    <3>2. Cut(j).to < Cut(k).from
      BY <2>2, <3>1, SMTT(30)
    <3> QED BY <3>2 DEF Apart
  <2>4. CASE k < j
    <3>1. done[k] <= done[j - 1]
      BY <1>2, <2>1, <2>4
    <3>2. Cut(k).to < Cut(j).from
      BY <2>2, <3>1, SMTT(30)
    <3> QED BY <3>2 DEF Apart
  <2>5. CASE j = k
    BY <2>5 DEF Apart
  <2> QED BY <1>1, <2>3, <2>4, <2>5
<1>6. ASSUME NEW b \in p .. p + 8 * bytes - 1
      PROVE  \E k \in K : Cut(k).from <= b /\ b <= Cut(k).to
  <2> DEFINE x == (b - p) \div 8
  <2>1. x \in Nat /\ x < bytes /\ 8 * x <= b - p /\ b - p < 8 * x + 8
    OBVIOUS
  <2> HIDE DEF x
  <2>2. PICK k \in 1 .. n : done[k - 1] <= x /\ x < done[k]
    BY <1>1, <2>1, Between
  <2>3. done[k - 1] \in Nat /\ done[k] \in Nat
    BY <1>1
  <2>4. k \in K
    <3>1. done[k - 1] < done[k]
      <4> DEFINE a == done[k - 1]
                 c == done[k]
      <4>1. a \in Nat /\ c \in Nat /\ a <= x /\ x < c
        BY <2>2, <2>3
      <4> HIDE DEF a, c
      <4>2. a < c
        BY <2>1, <4>1
      <4> QED BY <4>2 DEF a, c
    <3> QED BY <3>1
  <2>5. p + 8 * done[k - 1] <= b /\ b <= p + 8 * done[k] - 1
    BY <2>1, <2>2, <2>3, SMTT(30)
  <2>6. Cut(k).from <= b /\ b <= Cut(k).to
    BY <2>5
  <2> QED BY <2>4, <2>6
<1> HIDE DEF Cut, K
<1> QED BY <1>3, <1>4, <1>5, <1>6 DEF Covers

\* The byte a bit lies in.
LEMMA BytesType ==
  ASSUME NEW p \in Nat
  PROVE  p \div 8 \in Nat /\ 8 * (p \div 8) <= p /\ p < 8 * (p \div 8) + 8 /\ (p % 8 = 0 => 8 * (p \div 8) = p)
OBVIOUS

\* The FMMUs of any slave lie between the place before and the place behind.
LEMMA FmmusForFit ==
  ASSUME NEW p \in Nat, NEW bits \in Nat \ {0}, NEW runs \in Seq(Nat), Total(runs) >= BytesOf(bits)
  PROVE  LET behind == PlaceBehind(p, bits, runs)
             fmmus == FmmusFor(p, bits, runs)
         IN  /\ behind \in Nat /\ p <= behind
             /\ \A f \in fmmus : f \in Fmmus /\ p <= f.from /\ f.from <= f.to /\ f.to < behind
             /\ \A f, g \in fmmus : Apart(f, g)
             /\ \E q \in p .. behind : Covers(fmmus, q, bits)
             /\ (bits > 7 => behind % 8 = 0)
<1>1. CASE BitOriented(bits)
  <2>1. PlaceBehind(p, bits, runs) = p + bits /\ FmmusFor(p, bits, runs) = BitFmmu(p, bits)
    BY <1>1 DEF PlaceBehind, FmmusFor
  <2> DEFINE f == [from |-> p, to |-> p + bits - 1]
  <2>2. BitFmmu(p, bits) = {f} /\ f.from = p /\ f.to = p + bits - 1
    BY DEF BitFmmu
  <2>3. f \in Fmmus
    BY DEF Fmmus
  <2> HIDE DEF f
  <2>4. Covers({f}, p, bits)
    BY <2>2 DEF Covers
  <2>5. Apart(f, f)
    BY DEF Apart
  <2>6. p \in p .. p + bits
    OBVIOUS
  <2>7. ~ (bits > 7)
    BY <1>1 DEF BitOriented
  <2> QED BY <2>1, <2>2, <2>3, <2>4, <2>5, <2>6, <2>7
<1>2. CASE ~ BitOriented(bits)
  <2> DEFINE at0 == AtByte(p)
             bytes == BytesOf(bits)
             fmmus == ByteFmmus(at0, bytes, runs)
  <2>1. at0 \in Nat /\ p <= at0 /\ bytes \in Nat \ {0} /\ bits <= 8 * bytes
    <3>1. at0 \in Nat /\ p <= at0
      BY Eights
    <3>2. bits \in Nat /\ bits > 0
      OBVIOUS
    <3>3. bytes \in Nat /\ bytes > 0 /\ 8 * bytes >= bits
      BY <3>2, Eights
    <3> HIDE DEF at0, bytes
    <3> QED BY <3>1, <3>2, <3>3
  <2>2. PlaceBehind(p, bits, runs) = at0 + 8 * bytes /\ FmmusFor(p, bits, runs) = fmmus
    <3>1. Done(bytes, runs)[Len(runs)] = bytes
      BY <2>1, DoneReaches
    <3> QED BY <1>2, <3>1 DEF PlaceBehind, FmmusFor
  <2>7. (at0 + 8 * bytes) % 8 = 0
    <3>1. at0 % 8 = 0
      BY Eights
    <3> HIDE DEF at0, bytes
    <3> QED BY <2>1, <3>1
  <2>3. /\ \A f \in fmmus : f \in Fmmus /\ at0 <= f.from /\ f.from <= f.to /\ f.to < at0 + 8 * bytes
        /\ \A f, g \in fmmus : Apart(f, g)
        /\ Covers(fmmus, at0, 8 * bytes)
    <3> HIDE DEF at0
    <3> QED BY <2>1, ByteFmmusFit
  <2> HIDE DEF at0, bytes, fmmus
  <2>4. Covers(fmmus, at0, bits)
    BY <2>1, <2>3 DEF Covers
  <2>5. at0 \in p .. at0 + 8 * bytes /\ at0 + 8 * bytes \in Nat /\ p <= at0 + 8 * bytes
    BY <2>1
  <2>6. \A f \in fmmus : f \in Fmmus /\ p <= f.from
    BY <2>1, <2>3 DEF Fmmus
  <2> QED BY <2>2, <2>3, <2>4, <2>5, <2>6, <2>7
<1> QED BY <1>1, <1>2

----------------------------------------------------------------------------
(* The types.                                                               *)

\* The outputs end inside the segment LRD begins with.
Offset == Ioffset <= IOsegment[Isegment + 1]

\* The types, and that no start of LRD is negative.
TypeInv == TypeOK /\ Offset

\* The sizes of a slave are those of its kind.
LEMMA KindFits ==
  ASSUME DataAssumption, TypeOK, NEW s \in Slaves
  PROVE  /\ slaves[s].obits \in Nat /\ slaves[s].ibits \in Nat
         /\ slaves[s].oruns \in Seq(Nat) /\ slaves[s].iruns \in Seq(Nat)
         /\ Total(slaves[s].oruns) >= BytesOf(slaves[s].obits)
         /\ Total(slaves[s].iruns) >= BytesOf(slaves[s].ibits)
<1>1. slaves[s] \in Kinds
  BY DEF TypeOK
<1>2. \A kind \in Kinds : kind.obits \in Nat /\ kind.ibits \in Nat
                              /\ kind.oruns \in Seq(Nat) /\ kind.iruns \in Seq(Nat)
  BY DEF DataAssumption
<1> QED BY <1>1, <1>2 DEF DataAssumption

\* The segments are the closed ones and the current one.
LEMMA SegmentsType ==
  ASSUME TypeOK
  PROVE  /\ IOsegment \in Seq(Nat) /\ Len(IOsegment) = Len(closed) + 1
         /\ \A k \in 1 .. Len(closed) : IOsegment[k] = closed[k]
         /\ IOsegment[Len(closed) + 1] = segmentsize
         /\ Isegment + 1 \in 1 .. Len(IOsegment)
BY DEF IOsegment, TypeOK

\* A member of a sequence with one more.
LEMMA AppendType ==
  ASSUME NEW c \in Seq(Nat), NEW x \in Nat, NEW i \in 0 .. Len(c)
  PROVE  Append(c, x)[i + 1] \in Nat
OBVIOUS

\* AddToSegment keeps the number of segments and does not shorten any.
LEMMA AddType ==
  ASSUME DataAssumption, TypeInv, NEW bytes \in Nat, AddToSegment(bytes)
  PROVE  /\ closed' \in Seq(Nat) /\ Len(closed') < MaxSegments /\ segmentsize' \in Nat
         /\ Len(closed) <= Len(closed') /\ IOsegment[Isegment + 1] <= IOsegment'[Isegment + 1]
<1> USE DEF TypeInv, TypeOK, DataAssumption, IOsegment
<1>1. CASE UNCHANGED <<closed, segmentsize>>
  BY <1>1, SMTT(30)
<1>2. CASE segmentsize' = segmentsize + bytes /\ UNCHANGED closed
  BY <1>2, SMTT(30)
<1>3. CASE Len(closed) < MaxSegments - 1 /\ closed' = Append(closed, segmentsize) /\ segmentsize' = bytes
  <2>1. closed' \in Seq(Nat) /\ Len(closed') = Len(closed) + 1
    BY <1>3
  <2>2. IOsegment'[Isegment + 1] = closed'[Isegment + 1] /\ closed' = IOsegment
    <3>1. Isegment + 1 \in 1 .. Len(closed')
      BY <2>1
    <3> QED BY <1>3, <2>1, <3>1
  <2>3. IOsegment[Isegment + 1] \in Nat
    BY SegmentsType, SMTT(30)
  <2> QED BY <1>3, <2>1, <2>2, <2>3, SMTT(30)
<1> QED BY <1>1, <1>2, <1>3 DEF AddToSegment

\* Nor does Advance.
LEMMA AdvanceType ==
  ASSUME DataAssumption, TypeInv, NEW p \in Nat, pos <= p, Advance(p)
  PROVE  /\ pos' = p
         /\ closed' \in Seq(Nat) /\ Len(closed') < MaxSegments /\ segmentsize' \in Nat
         /\ Len(closed) <= Len(closed') /\ IOsegment[Isegment + 1] <= IOsegment'[Isegment + 1]
<1>1. p \div 8 - pos \div 8 \in Nat
  BY DEF TypeInv, TypeOK
<1> QED BY <1>1, AddType DEF Advance

\* The starts of the segments are whole numbers that never fall.
LEMMA Starts ==
  ASSUME TypeInv
  PROVE  /\ Len(IOsegment) \in Nat
         /\ \A k \in 0 .. Len(IOsegment) : UpTo(IOsegment, k) \in Nat
         /\ \A j, k \in 0 .. Len(IOsegment) : j <= k => UpTo(IOsegment, j) <= UpTo(IOsegment, k)
         /\ \A k \in Isegment + 1 .. Len(IOsegment) :
              UpTo(IOsegment, Isegment) + Ioffset <= UpTo(IOsegment, k)
<1>1. /\ IOsegment \in Seq(Nat) /\ Len(IOsegment) \in Nat
      /\ Isegment \in 0 .. Len(IOsegment) /\ Isegment + 1 \in 1 .. Len(IOsegment)
      /\ Ioffset \in Nat
  BY SegmentsType, SMTT(30) DEF TypeInv, TypeOK
<1>2. /\ \A k \in 0 .. Len(IOsegment) : UpTo(IOsegment, k) \in Nat
      /\ \A j, k \in 0 .. Len(IOsegment) : j <= k => UpTo(IOsegment, j) <= UpTo(IOsegment, k)
  BY <1>1, SumsRise
<1>3. UpTo(IOsegment, Isegment + 1) = UpTo(IOsegment, Isegment) + IOsegment[Isegment + 1]
  <2>1. UpTo(IOsegment, Isegment + 1) = UpTo(IOsegment, (Isegment + 1) - 1) + IOsegment[Isegment + 1]
    BY <1>1, SumsType DEF UpTo
  <2>2. (Isegment + 1) - 1 = Isegment
    BY <1>1
  <2> QED BY <2>1, <2>2
<1>4. IOsegment[Isegment + 1] \in Nat
  BY <1>1
<1>5. ASSUME NEW k \in Isegment + 1 .. Len(IOsegment)
      PROVE  UpTo(IOsegment, Isegment) + Ioffset <= UpTo(IOsegment, k)
  <2>1. k \in 0 .. Len(IOsegment) /\ Isegment + 1 \in 0 .. Len(IOsegment) /\ Isegment + 1 <= k
    BY <1>1
  <2>2. UpTo(IOsegment, Isegment + 1) <= UpTo(IOsegment, k)
    BY <1>2, <2>1
  <2>3. /\ UpTo(IOsegment, Isegment + 1) \in Nat /\ UpTo(IOsegment, k) \in Nat
        /\ UpTo(IOsegment, Isegment) \in Nat
    BY <1>1, <1>2, <2>1
  <2> QED BY <1>1, <1>3, <1>4, <2>2, <2>3, SMTT(30) DEF TypeInv, Offset
<1> QED BY <1>1, <1>2, <1>5

\* A datagram between two whole numbers.
LEMMA DatagramType ==
  ASSUME NEW cmd \in {"LRW", "LRD", "LWR"}, NEW from \in Nat, NEW to \in Nat
  PROVE  Datagram(cmd, from, to) \in Datagrams
BY DEF Datagram, Datagrams

\* What LRW sends are datagrams.
LEMMA LRWType ==
  ASSUME TypeInv
  PROVE  LRW \in Seq(Datagrams)
<1> DEFINE n == Len(IOsegment)
           used == {k \in 1 .. n : k = 1 \/ UpTo(IOsegment, k - 1) < Bytes}
           m == Cardinality(used)
<1>1. n \in Nat /\ m \in Nat /\ m <= n
  <2>1. n \in Nat
    BY Starts
  <2>2. IsFiniteSet(1 .. n) /\ Cardinality(1 .. n) = n
    BY <2>1, FS_Interval, SMTT(30)
  <2>3. used \in SUBSET (1 .. n)
    OBVIOUS
  <2> HIDE DEF used, n
  <2>4. IsFiniteSet(used) /\ Cardinality(used) <= Cardinality(1 .. n)
    BY <2>2, <2>3, FS_Subset
  <2> QED BY <2>1, <2>2, <2>4, FS_CardinalityType
<1>2. LRW = [k \in 1 .. m |-> Datagram("LRW", UpTo(IOsegment, k - 1), UpTo(IOsegment, k + 1 - 1))]
  BY DEF LRW
<1>3. ASSUME NEW k \in 1 .. m
      PROVE  Datagram("LRW", UpTo(IOsegment, k - 1), UpTo(IOsegment, k + 1 - 1)) \in Datagrams
  <2>1. k - 1 \in 0 .. n /\ k + 1 - 1 \in 0 .. n
    <3> HIDE DEF m, n
    <3> QED BY <1>1
  <2>2. UpTo(IOsegment, k - 1) \in Nat /\ UpTo(IOsegment, k + 1 - 1) \in Nat
    BY <2>1, Starts
  <2> QED BY <2>2, DatagramType
<1> HIDE DEF m
<1> QED BY <1>1, <1>2, <1>3

\* What LWR sends are datagrams.
LEMMA LWRType ==
  ASSUME TypeInv
  PROVE  LWR \in Seq(Datagrams)
<1> DEFINE n == Len(IOsegment)
           used == {k \in 1 .. n : UpTo(IOsegment, k - 1) < Obytes}
           m == Cardinality(used)
           end(k) == Smaller(UpTo(IOsegment, k + 1 - 1), Obytes)
<1>1. n \in Nat /\ m \in Nat /\ m <= n
  <2>1. n \in Nat
    BY Starts
  <2>2. IsFiniteSet(1 .. n) /\ Cardinality(1 .. n) = n
    BY <2>1, FS_Interval, SMTT(30)
  <2>3. used \in SUBSET (1 .. n)
    OBVIOUS
  <2> HIDE DEF used, n
  <2>4. IsFiniteSet(used) /\ Cardinality(used) <= Cardinality(1 .. n)
    BY <2>2, <2>3, FS_Subset
  <2> QED BY <2>1, <2>2, <2>4, FS_CardinalityType
<1>2. LWR = [k \in 1 .. m |-> Datagram("LWR", UpTo(IOsegment, k - 1), end(k))]
  BY DEF LWR
<1>3. ASSUME NEW k \in 1 .. m
      PROVE  Datagram("LWR", UpTo(IOsegment, k - 1), end(k)) \in Datagrams
  <2>1. k - 1 \in 0 .. n /\ k + 1 - 1 \in 0 .. n
    <3> HIDE DEF m, n
    <3> QED BY <1>1
  <2>2. UpTo(IOsegment, k - 1) \in Nat /\ UpTo(IOsegment, k + 1 - 1) \in Nat
    BY <2>1, Starts
  <2>3. end(k) \in Nat
    BY <2>2 DEF Smaller, TypeInv, TypeOK
  <2> QED BY <2>2, <2>3, DatagramType
<1> HIDE DEF m, end
<1> QED BY <1>1, <1>2, <1>3

\* What LRD sends are datagrams: no start is negative, because Offset holds.
LEMMA LRDType ==
  ASSUME TypeInv
  PROVE  LRD \in Seq(Datagrams)
<1> DEFINE n == Len(IOsegment)
           m == n - Isegment
           first == UpTo(IOsegment, Isegment) + Ioffset
           start(k) == IF k = 1 THEN Obytes ELSE Obytes + UpTo(IOsegment, Isegment + k - 1) - first
<1>1. n \in Nat /\ Isegment \in 0 .. n /\ m \in Nat /\ Obytes \in Nat /\ Ioffset \in Nat
  BY Starts, SegmentsType, SMTT(30) DEF TypeInv, TypeOK
<1>2. LRD = [k \in 1 .. m |-> Datagram("LRD", start(k), start(k + 1))]
  BY DEF LRD
<1>3. ASSUME NEW k \in 1 .. m + 1
      PROVE  start(k) \in Nat
  <2>1. CASE k = 1
    BY <1>1, <2>1
  <2>2. CASE k # 1
    <3>1. Isegment + k - 1 \in Isegment + 1 .. n /\ Isegment + k - 1 \in 0 .. n
      <4> HIDE DEF n
      <4> QED BY <1>1, <2>2
    <3>2. first <= UpTo(IOsegment, Isegment + k - 1)
      BY <3>1, Starts
    <3>3. UpTo(IOsegment, Isegment + k - 1) \in Nat /\ first \in Nat
      BY <1>1, <3>1, Starts
    <3>4. start(k) = Obytes + UpTo(IOsegment, Isegment + k - 1) - first
      BY <2>2
    <3> HIDE DEF first, start
    <3> QED BY <1>1, <3>2, <3>3, <3>4
  <2> QED BY <2>1, <2>2
<1>4. ASSUME NEW k \in 1 .. m
      PROVE  Datagram("LRD", start(k), start(k + 1)) \in Datagrams
  <2>1. k \in 1 .. m + 1 /\ k + 1 \in 1 .. m + 1
    <3> HIDE DEF m
    <3> QED BY <1>1
  <2>2. start(k) \in Nat /\ start(k + 1) \in Nat
    BY <1>3, <2>1
  <2> HIDE DEF start
  <2> QED BY <2>2, DatagramType
<1> HIDE DEF m, start
<1> QED BY <1>1, <1>2, <1>4

\* What an exchange sends are datagrams.
LEMMA SentType ==
  ASSUME TypeInv
  PROVE  Sent \in Seq(Datagrams)
<1>1. LRW \in Seq(Datagrams) /\ LRD \in Seq(Datagrams) /\ LWR \in Seq(Datagrams)
  BY LRWType, LRDType, LWRType
<1>2. <<>> \in Seq(Datagrams)
  OBVIOUS
<1>3. \A a, b \in Seq(Datagrams) : a \o b \in Seq(Datagrams)
  BY ConcatProperties
<1> QED BY <1>1, <1>2, <1>3 DEF Sent

\* The types hold initially.
LEMMA TypeInitially ==
  ASSUME DataAssumption, Init
  PROVE  TypeInv
<1> USE DEF Init
<1>1. TypeOK
  <2>1. next \in 1 .. N + 1 /\ Len(closed) < MaxSegments /\ Len(stack) <= MaxStack
    BY DEF DataAssumption
  <2>2. closed \in Seq(Nat) /\ stack \in Seq(Datagrams)
    OBVIOUS
  <2>3. Isegment \in 0 .. Len(closed) /\ pulled \in 0 .. Len(stack)
    OBVIOUS
  <2>4. valid \in BOOLEAN /\ stale \in BOOLEAN
    OBVIOUS
  <2> QED BY <2>1, <2>2, <2>3, <2>4 DEF TypeOK
<1>2. Offset
  <2>1. IOsegment[Isegment + 1] = 0
    BY DEF IOsegment
  <2> QED BY <2>1 DEF Offset
<1> QED BY <1>1, <1>2 DEF TypeInv

\* MapSlave keeps the types.
LEMMA MapSlaveType ==
  ASSUME DataAssumption, TypeInv, NEW fmmu, NEW fmmu1, fmmu \in [Slaves -> SUBSET Fmmus],
         NEW bits \in Nat, NEW runs \in Seq(Nat), Total(runs) >= BytesOf(bits), next \in Slaves,
         \/ bits = 0 /\ fmmu1 = fmmu /\ UNCHANGED <<pos, closed, segmentsize>>
         \/ /\ bits # 0 /\ fmmu1 = [fmmu EXCEPT ![next] = FmmusFor(pos, bits, runs)]
            /\ Advance(PlaceBehind(pos, bits, runs))
  PROVE  /\ fmmu1 \in [Slaves -> SUBSET Fmmus] /\ pos' \in Nat
         /\ closed' \in Seq(Nat) /\ Len(closed') < MaxSegments /\ segmentsize' \in Nat
         /\ Len(closed) <= Len(closed') /\ IOsegment[Isegment + 1] <= IOsegment'[Isegment + 1]
<1>1. CASE bits = 0 /\ fmmu1 = fmmu /\ UNCHANGED <<pos, closed, segmentsize>>
  BY <1>1, SegmentsType, SMTT(30) DEF TypeInv, TypeOK, IOsegment
<1>2. CASE /\ bits # 0 /\ fmmu1 = [fmmu EXCEPT ![next] = FmmusFor(pos, bits, runs)]
           /\ Advance(PlaceBehind(pos, bits, runs))
  <2>1. pos \in Nat /\ bits \in Nat \ {0}
    BY <1>2 DEF TypeInv, TypeOK
  <2>2. /\ PlaceBehind(pos, bits, runs) \in Nat /\ pos <= PlaceBehind(pos, bits, runs)
        /\ \A f \in FmmusFor(pos, bits, runs) : f \in Fmmus
    BY <2>1, FmmusForFit
  <2>3. fmmu1 \in [Slaves -> SUBSET Fmmus]
    <3>1. FmmusFor(pos, bits, runs) \in SUBSET Fmmus
      BY <2>2
    <3> QED BY <1>2, <3>1
  <2>4. Advance(PlaceBehind(pos, bits, runs))
    BY <1>2
  <2>5. /\ pos' = PlaceBehind(pos, bits, runs)
        /\ closed' \in Seq(Nat) /\ Len(closed') < MaxSegments /\ segmentsize' \in Nat
        /\ Len(closed) <= Len(closed') /\ IOsegment[Isegment + 1] <= IOsegment'[Isegment + 1]
    BY <2>2, <2>4, AdvanceType
  <2> QED BY <2>2, <2>3, <2>5
<1> QED BY <1>1, <1>2

\* RoundUp keeps the types and goes to the next whole byte.
LEMMA RoundUpType ==
  ASSUME DataAssumption, TypeInv, RoundUp
  PROVE  /\ pos' \in Nat /\ pos <= pos' /\ pos' < pos + 8 /\ pos' % 8 = 0
         /\ closed' \in Seq(Nat) /\ Len(closed') < MaxSegments /\ segmentsize' \in Nat
         /\ Len(closed) <= Len(closed') /\ IOsegment[Isegment + 1] <= IOsegment'[Isegment + 1]
<1>0. pos \in Nat
  BY DEF TypeInv, TypeOK
<1>1. CASE pos % 8 = 0 /\ UNCHANGED <<pos, closed, segmentsize>>
  BY <1>0, <1>1, SegmentsType DEF TypeInv, TypeOK, IOsegment
<1>2. CASE Advance(AtByte(pos))
  <2>1. AtByte(pos) \in Nat /\ pos <= AtByte(pos) /\ AtByte(pos) < pos + 8 /\ AtByte(pos) % 8 = 0
    BY <1>0, Eights DEF AtByte
  <2> QED BY <1>2, <2>1, AdvanceType
<1> QED BY <1>1, <1>2 DEF RoundUp

\* A segment that grows, or is closed, keeps the offset inside.
LEMMA OffsetKept ==
  ASSUME TypeInv, TypeOK', Isegment' = Isegment, Ioffset' = Ioffset,
         IOsegment[Isegment + 1] <= IOsegment'[Isegment + 1]
  PROVE  Offset'
<1>1. IOsegment[Isegment + 1] \in Nat
  BY AppendType DEF TypeInv, TypeOK, IOsegment
<1>2. IOsegment'[Isegment' + 1] \in Nat
  BY AppendType DEF TypeOK, IOsegment
<1>3. Ioffset <= IOsegment[Isegment + 1] /\ Ioffset \in Nat
  BY DEF TypeInv, Offset, TypeOK
<1> DEFINE a == IOsegment[Isegment + 1]
           b == IOsegment'[Isegment' + 1]
<1>4. a <= b /\ Ioffset' <= a /\ a \in Nat /\ b \in Nat /\ Ioffset' \in Nat
  BY <1>1, <1>2, <1>3
<1>5. Ioffset' <= b
  <2> HIDE DEF a, b
  <2> QED BY <1>4
<1> QED BY <1>5 DEF Offset

\* A work counter is a number.
LEMMA CounterType ==
  ASSUME DataAssumption, NEW d, NEW up \in SUBSET Slaves
  PROVE  Counter(d, up) \in Nat
<1>1. IsFiniteSet(Slaves)
  BY FS_Interval DEF Slaves, DataAssumption
<1>2. Cardinality(Writes(d) \cap up) \in Nat
  <2>1. IsFiniteSet(Writes(d) \cap up)
    BY <1>1, FS_Subset
  <2> QED BY <2>1, FS_CardinalityType
<1>3. Cardinality(Reads(d) \cap up) \in Nat
  <2>1. IsFiniteSet(Reads(d) \cap up)
    BY <1>1, FS_Subset
  <2> QED BY <2>1, FS_CardinalityType
<1> QED BY <1>2, <1>3 DEF Counter

\* Every step keeps the types.
LEMMA TypeStep ==
  ASSUME DataAssumption, TypeInv, [Next]_vars
  PROVE  TypeInv'
<1>0. TypeOK /\ Offset
  BY DEF TypeInv
<1>1. CASE MapOutputs
  <2>1. next \in Slaves
    BY <1>0, <1>1 DEF TypeOK, MapOutputs, Slaves
  <2>2. /\ ofmmu' \in [Slaves -> SUBSET Fmmus] /\ pos' \in Nat
        /\ closed' \in Seq(Nat) /\ Len(closed') < MaxSegments /\ segmentsize' \in Nat
        /\ Len(closed) <= Len(closed') /\ IOsegment[Isegment + 1] <= IOsegment'[Isegment + 1]
    BY <1>0, <1>1, <2>1, KindFits, MapSlaveType DEF TypeOK, MapOutputs, MapSlave
  <2>3. TypeOK'
    <3>1. next' \in 1 .. N + 1 /\ Isegment' \in 0 .. Len(closed') /\ Ioffset' \in Nat /\ Obytes' \in Nat
      BY <1>0, <1>1, <2>1, <2>2, SMTT(30) DEF TypeOK, MapOutputs, Slaves, DataAssumption
    <3>2. /\ UNCHANGED <<slaves, blockLRW, at, ifmmu>>
          /\ UNCHANGED <<stack, pulled, wkc, valid, stale>>
      BY <1>1 DEF MapOutputs, exchange
    <3> QED BY <1>0, <2>2, <3>1, <3>2 DEF TypeOK
  <2>4. Offset'
    <3>1. Isegment' = Isegment /\ Ioffset' = Ioffset
      BY <1>1 DEF MapOutputs
    <3> QED BY <1>0, <2>2, <2>3, <3>1, OffsetKept DEF Offset
  <2> QED BY <2>3, <2>4 DEF TypeInv
<1>2. CASE OutputsMapped
  <2>1. /\ pos' \in Nat
        /\ closed' \in Seq(Nat) /\ Len(closed') < MaxSegments /\ segmentsize' \in Nat
    BY <1>2, RoundUpType DEF OutputsMapped
  <2>2. /\ next' \in 1 .. N + 1 /\ Isegment' \in 0 .. Len(closed') /\ Ioffset' \in Nat
        /\ Obytes' \in Nat /\ at' = "inputs"
    <3>1. /\ next' = 1 /\ Isegment' = Len(closed') /\ Ioffset' = segmentsize'
          /\ Obytes' = pos' \div 8 /\ at' = "inputs"
      BY <1>2 DEF OutputsMapped
    <3>2. pos' \div 8 \in Nat
      <4>1. pos' \in Nat
        BY <2>1
      <4> QED BY <4>1, BytesType
    <3>4. Len(closed') \in Nat
      <4>1. closed' \in Seq(Nat)
        BY <2>1
      <4> QED BY <4>1
    <3>3. 1 \in 1 .. N + 1
      BY DEF DataAssumption
    <3>5. Isegment' \in 0 .. Len(closed')
      BY <3>1, <3>4
    <3>6. segmentsize' \in Nat
      BY <2>1
    <3> QED BY <3>1, <3>2, <3>3, <3>5, <3>6
  <2>3. /\ UNCHANGED <<slaves, blockLRW, ofmmu, ifmmu>>
        /\ UNCHANGED <<stack, pulled, wkc, valid, stale>>
    BY <1>2 DEF OutputsMapped, exchange
  <2>4. TypeOK'
    BY <1>0, <2>1, <2>2, <2>3 DEF TypeOK
  <2>5. Offset'
    <3>1. IOsegment'[Len(closed') + 1] = segmentsize'
      BY <2>1 DEF IOsegment
    <3>2. Isegment' = Len(closed') /\ Ioffset' = segmentsize'
      BY <1>2 DEF OutputsMapped
    <3> QED BY <2>1, <3>1, <3>2 DEF Offset
  <2> QED BY <2>4, <2>5 DEF TypeInv
<1>3. CASE MapInputs
  <2>1. next \in Slaves
    BY <1>0, <1>3 DEF TypeOK, MapInputs, Slaves
  <2>2. /\ ifmmu' \in [Slaves -> SUBSET Fmmus] /\ pos' \in Nat
        /\ closed' \in Seq(Nat) /\ Len(closed') < MaxSegments /\ segmentsize' \in Nat
        /\ Len(closed) <= Len(closed') /\ IOsegment[Isegment + 1] <= IOsegment'[Isegment + 1]
    BY <1>0, <1>3, <2>1, KindFits, MapSlaveType DEF TypeOK, MapInputs, MapSlave
  <2>3. TypeOK'
    <3>1. next' \in 1 .. N + 1 /\ Isegment' \in 0 .. Len(closed') /\ Ioffset' \in Nat /\ Obytes' \in Nat
      BY <1>0, <1>3, <2>1, <2>2, SMTT(30) DEF TypeOK, MapInputs, Slaves, DataAssumption
    <3>2. /\ UNCHANGED <<slaves, blockLRW, at, ofmmu>>
          /\ UNCHANGED <<stack, pulled, wkc, valid, stale>>
      BY <1>3 DEF MapInputs, exchange
    <3> QED BY <1>0, <2>2, <3>1, <3>2 DEF TypeOK
  <2>4. Offset'
    <3>1. Isegment' = Isegment /\ Ioffset' = Ioffset
      BY <1>3 DEF MapInputs
    <3> QED BY <1>0, <2>2, <2>3, <3>1, OffsetKept DEF Offset
  <2> QED BY <2>3, <2>4 DEF TypeInv
<1>4. CASE InputsMapped
  <2>1. /\ pos' \in Nat
        /\ closed' \in Seq(Nat) /\ Len(closed') < MaxSegments /\ segmentsize' \in Nat
        /\ Len(closed) <= Len(closed') /\ IOsegment[Isegment + 1] <= IOsegment'[Isegment + 1]
    BY <1>4, RoundUpType DEF InputsMapped
  <2>2. at' = "mapped"
    BY <1>4 DEF InputsMapped
  <2>3. /\ UNCHANGED <<slaves, blockLRW, next, ofmmu, ifmmu, Obytes, Isegment, Ioffset>>
        /\ UNCHANGED <<stack, pulled, wkc, valid, stale>>
    BY <1>4 DEF InputsMapped, exchange
  <2>4. Isegment' \in 0 .. Len(closed')
    BY <1>0, <2>1, <2>3 DEF TypeOK
  <2>5. TypeOK'
    BY <1>0, <2>1, <2>2, <2>3, <2>4 DEF TypeOK
  <2>6. Offset'
    BY <2>1, <2>3, <2>5, OffsetKept
  <2> QED BY <2>5, <2>6 DEF TypeInv
<1>5. CASE Send
  <2>1. Sent \in Seq(Datagrams) /\ MaxStack \in Nat
    BY SentType DEF DataAssumption
  <2>2. stack' = SubSeq(Sent, 1, Smaller(Len(Sent), MaxStack))
    BY <1>5 DEF Send
  <2>3. stack' \in Seq(Datagrams) /\ Len(stack') <= MaxStack /\ pulled' \in 0 .. Len(stack')
    <3> DEFINE n == Smaller(Len(Sent), MaxStack)
    <3>1. n \in Nat /\ n <= Len(Sent) /\ n <= MaxStack
      BY <2>1 DEF Smaller
    <3>2. \A i \in 1 .. n : Sent[i] \in Datagrams
      <4> HIDE DEF n
      <4> QED BY <2>1, <3>1
    <3>3. 1 \in Int /\ n \in Int /\ stack' = SubSeq(Sent, 1, n)
      BY <2>2, <3>1
    <3> HIDE DEF n
    <3>4. SubSeq(Sent, 1, n) \in Seq(Datagrams) /\ Len(SubSeq(Sent, 1, n)) = IF 1 <= n THEN n - 1 + 1 ELSE 0
      BY <3>2, <3>3, SubSeqProperties
    <3>5. pulled' = 0
      BY <1>5 DEF Send
    <3> QED BY <2>1, <3>1, <3>3, <3>4, <3>5
  <2>4. at' = "sent" /\ wkc' = 0
    BY <1>5 DEF Send
  <2>5. valid' \in BOOLEAN /\ stale' \in BOOLEAN
    BY <1>5 DEF Send
  <2>6. /\ UNCHANGED <<slaves, blockLRW, next>>
        /\ UNCHANGED <<pos, ofmmu, ifmmu, closed, segmentsize, Obytes, Isegment, Ioffset>>
    BY <1>5 DEF Send, layout
  <2>7. TypeOK'
    BY <1>0, <2>3, <2>4, <2>5, <2>6 DEF TypeOK
  <2> QED BY <1>0, <2>6, <2>7 DEF TypeInv, Offset, IOsegment
<1>6. CASE ReceiveFrame
  <2>1. PICK up \in SUBSET Slaves :
          /\ wkc' = wkc + Counted(Pulled, Counter(Pulled, up))
          /\ stale' = (stale \/ ~ (Concerns(Pulled) \subseteq up))
    BY <1>6 DEF ReceiveFrame
  <2>2. Pulled \in Datagrams /\ pulled + 1 \in 0 .. Len(stack)
    BY <1>0, <1>6 DEF Pulled, TypeOK, ReceiveFrame
  <2>3. wkc' \in Nat
    <3> DEFINE c == Counter(Pulled, up)
    <3>1. c \in Nat /\ wkc \in Nat
      BY <1>0, CounterType DEF TypeOK
    <3>2. wkc' = wkc + Counted(Pulled, c)
      BY <2>1
    <3> HIDE DEF c
    <3> QED BY <3>1, <3>2 DEF Counted
  <2>4. valid' \in BOOLEAN /\ stale' \in BOOLEAN
    BY <1>6, <2>1 DEF ReceiveFrame
  <2>5. /\ UNCHANGED <<slaves, blockLRW, at, next, stack>> /\ pulled' \in 0 .. Len(stack')
        /\ UNCHANGED <<pos, ofmmu, ifmmu, closed, segmentsize, Obytes, Isegment, Ioffset>>
    BY <1>6, <2>2 DEF ReceiveFrame, layout
  <2>6. TypeOK'
    BY <1>0, <2>3, <2>4, <2>5 DEF TypeOK
  <2> QED BY <1>0, <2>5, <2>6 DEF TypeInv, Offset, IOsegment
<1>7. CASE NoFrame
  <2>1. /\ UNCHANGED <<slaves, blockLRW, at, next, stack, wkc, valid>> /\ pulled' = pulled + 1
        /\ UNCHANGED <<pos, ofmmu, ifmmu, closed, segmentsize, Obytes, Isegment, Ioffset>>
    BY <1>7 DEF NoFrame, layout
  <2>2. pulled' \in 0 .. Len(stack')
    BY <1>0, <1>7, <2>1 DEF NoFrame, TypeOK
  <2>3. stale' \in BOOLEAN
    BY <1>7 DEF NoFrame
  <2>4. TypeOK'
    BY <1>0, <2>1, <2>2, <2>3 DEF TypeOK
  <2> QED BY <1>0, <2>1, <2>4 DEF TypeInv, Offset, IOsegment
<1>8. CASE Clear
  <2>1. /\ UNCHANGED <<slaves, blockLRW, next, wkc, valid, stale>> /\ stack' = <<>> /\ pulled' = 0 /\ at' = "mapped"
        /\ UNCHANGED <<pos, ofmmu, ifmmu, closed, segmentsize, Obytes, Isegment, Ioffset>>
    BY <1>8 DEF Clear, layout
  <2>2. stack' \in Seq(Datagrams) /\ Len(stack') <= MaxStack /\ pulled' \in 0 .. Len(stack')
    BY <2>1 DEF DataAssumption
  <2>3. TypeOK'
    BY <1>0, <2>1, <2>2 DEF TypeOK
  <2> QED BY <1>0, <2>1, <2>3 DEF TypeInv, Offset, IOsegment
<1>9. CASE UNCHANGED vars
  BY <1>0, <1>9 DEF TypeOK, Offset, TypeInv, vars, layout, exchange, IOsegment
<1> QED BY <1>1, <1>2, <1>3, <1>4, <1>5, <1>6, <1>7, <1>8, <1>9 DEF Next, Mapping, Exchange

\* Every variable keeps its type, whatever the sizes of the slaves: in
\* ecx_main_config_map_group() a place never goes back, IOsegment[] is never
\* written past EC_MAXIOSEGMENTS, and Ioffset stays inside its segment, so that
\* no length the LRD loop of ecx_main_send_processdata() computes is negative.
THEOREM TypeCorrect == Spec => []TypeOK
<1>1. Init => TypeInv
  BY DataAssumption, TypeInitially
<1>2. TypeInv /\ [Next]_vars => TypeInv'
  BY DataAssumption, TypeStep
<1>3. TypeInv => TypeOK
  BY DEF TypeInv
<1> QED BY <1>1, <1>2, <1>3, PTL DEF Spec

----------------------------------------------------------------------------
(* The layout.                                                              *)

\* The slave was mapped in this direction.
Placed(x) == IF x[2] = "out" THEN at # "outputs" \/ x[1] < next
                             ELSE Mapped \/ (at = "inputs" /\ x[1] < next)

\* A slave that was not mapped has no FMMU.
Ahead == \A x \in Places : ~ Placed(x) => FmmusOf(x) = {}
\* All FMMUs end before the next free bit.
Behind == \A x \in Places : \A f \in FmmusOf(x) : f.from <= f.to /\ f.to < pos
\* A slave that was mapped is mapped completely.
Covered == \A x \in Places : Placed(x) => \E q \in 0 .. pos : Covers(FmmusOf(x), q, BitsOf(x))
\* The outputs end where Obytes says, and the inputs begin behind.
OutputsFirst ==
  at # "outputs" =>
    /\ 8 * Obytes <= pos
    /\ \A x \in Places : \A f \in FmmusOf(x) :
         IF x[2] = "out" THEN f.to < 8 * Obytes ELSE 8 * Obytes <= f.from
\* The process data end with a whole byte.
Whole == Mapped => pos % 8 = 0

\* What is mapped is mapped soundly.
LayoutInv == Ahead /\ Behind /\ Covered /\ FmmusDisjoint /\ OutputsFirst /\ Whole

\* The places of FMMUs are whole numbers.
LEMMA FmmusType ==
  ASSUME TypeOK
  PROVE  \A x \in Places : \A f \in FmmusOf(x) : f \in Fmmus /\ f.from \in Nat /\ f.to \in Nat
<1> SUFFICES ASSUME NEW x \in Places, NEW f \in FmmusOf(x)
             PROVE  f \in Fmmus
  BY DEF Fmmus
<1>1. x[1] \in Slaves
  BY DEF Places
<1>2. ofmmu[x[1]] \in SUBSET Fmmus /\ ifmmu[x[1]] \in SUBSET Fmmus
  BY <1>1 DEF TypeOK
<1>3. f \in ofmmu[x[1]] \/ f \in ifmmu[x[1]]
  BY DEF FmmusOf
<1> QED BY <1>2, <1>3

\* The layout stays sound when the FMMUs of one slave are put behind all others.
LEMMA MapPreserves ==
  ASSUME TypeOK, TypeOK', LayoutInv, NEW x0 \in Places, NEW new,
         at \in {"outputs", "inputs"}, x0 = <<next, IF at = "outputs" THEN "out" ELSE "in">>,
         next' = next + 1, UNCHANGED <<at, slaves, Obytes>>,
         FmmusOf(x0)' = new, \A x \in Places : x # x0 => FmmusOf(x)' = FmmusOf(x),
         pos <= pos',
         \A f \in new : f \in Fmmus /\ pos <= f.from /\ f.from <= f.to /\ f.to < pos',
         \A f, g \in new : Apart(f, g),
         \E q \in 0 .. pos' : Covers(new, q, BitsOf(x0))
  PROVE  LayoutInv'
<1>1. pos \in Nat /\ pos' \in Nat /\ next \in Nat /\ Obytes \in Nat
  BY DEF TypeOK
<1>2. ~ Placed(x0) /\ Placed(x0)'
  BY <1>1 DEF Placed, Mapped
<1>3. ASSUME NEW x \in Places, x # x0
      PROVE  Placed(x)' <=> Placed(x)
  <2>1. PICK s \in Slaves, dir \in {"out", "in"} : x = <<s, dir>>
    BY DEF Places
  <2>2. s \in Nat /\ x[1] = s /\ x[2] = dir
    BY <2>1 DEF Slaves
  <2>3. dir = (IF at = "outputs" THEN "out" ELSE "in") => s # next
    BY <1>3, <2>1
  <2> QED BY <1>1, <2>2, <2>3 DEF Placed, Mapped
<1>4. \A x \in Places : BitsOf(x)' = BitsOf(x)
  BY DEF BitsOf
<1>5. \A x \in Places : \A f \in FmmusOf(x) : f \in Fmmus /\ f.from \in Nat /\ f.to \in Nat
  BY FmmusType
<1>6. \A f \in new : f.from \in Nat /\ f.to \in Nat
  BY DEF Fmmus
<1>7. Ahead'
  BY <1>2, <1>3 DEF LayoutInv, Ahead
<1>8. Behind'
  <2>1. ASSUME NEW x \in Places, NEW f \in FmmusOf(x)'
        PROVE  f.from <= f.to /\ f.to < pos'
    <3>1. CASE x = x0
      BY <3>1
    <3>2. CASE x # x0
      <4>1. f \in FmmusOf(x)
        BY <3>2
      <4>2. f.from <= f.to /\ f.to < pos /\ f.to \in Nat
        BY <1>5, <4>1 DEF LayoutInv, Behind
      <4> QED BY <1>1, <4>2
    <3> QED BY <3>1, <3>2
  <2> QED BY <2>1 DEF Behind
<1>9. Covered'
  <2>1. ASSUME NEW x \in Places, Placed(x)'
        PROVE  \E q \in 0 .. pos' : Covers(FmmusOf(x)', q, BitsOf(x))
    <3>1. CASE x = x0
      BY <3>1
    <3>2. CASE x # x0
      <4>1. PICK q \in 0 .. pos : Covers(FmmusOf(x), q, BitsOf(x))
        BY <1>3, <2>1, <3>2 DEF LayoutInv, Covered
      <4>2. q \in 0 .. pos'
        BY <1>1
      <4> QED BY <3>2, <4>1, <4>2
    <3> QED BY <3>1, <3>2
  <2> QED BY <1>4, <2>1 DEF Covered, Covers
<1>10. FmmusDisjoint'
  <2>1. ASSUME NEW x \in Places, NEW y \in Places, NEW f \in FmmusOf(x)', NEW g \in FmmusOf(y)'
        PROVE  f.to < g.from \/ g.to < f.from \/ (x = y /\ f = g)
    <3>1. CASE x = x0 /\ y = x0
      BY <3>1 DEF Apart
    <3>2. CASE x = x0 /\ y # x0
      <4>1. g \in FmmusOf(y) /\ f \in new
        BY <3>2
      <4>2. g.to < pos /\ g.to \in Nat /\ pos <= f.from /\ f.from \in Nat
        BY <1>5, <1>6, <4>1 DEF LayoutInv, Behind
      <4>3. g.to < f.from
        BY <1>1, <4>2
      <4> QED BY <4>3
    <3>3. CASE x # x0 /\ y = x0
      <4>1. f \in FmmusOf(x) /\ g \in new
        BY <3>3
      <4>2. f.to < pos /\ f.to \in Nat /\ pos <= g.from /\ g.from \in Nat
        BY <1>5, <1>6, <4>1 DEF LayoutInv, Behind
      <4>3. f.to < g.from
        BY <1>1, <4>2
      <4> QED BY <4>3
    <3>4. CASE x # x0 /\ y # x0
      <4>1. f \in FmmusOf(x) /\ g \in FmmusOf(y)
        BY <3>4
      <4> QED BY <4>1 DEF LayoutInv, FmmusDisjoint
    <3> QED BY <3>1, <3>2, <3>3, <3>4
  <2> QED BY <2>1 DEF FmmusDisjoint
<1>11. OutputsFirst'
  <2> SUFFICES ASSUME at # "outputs"
               PROVE  /\ 8 * Obytes <= pos'
                      /\ \A x \in Places : \A f \in FmmusOf(x)' :
                           IF x[2] = "out" THEN f.to < 8 * Obytes ELSE 8 * Obytes <= f.from
    BY DEF OutputsFirst
  <2>1. 8 * Obytes <= pos /\ 8 * Obytes <= pos'
    BY <1>1 DEF LayoutInv, OutputsFirst
  <2>2. ASSUME NEW x \in Places, NEW f \in FmmusOf(x)'
        PROVE  IF x[2] = "out" THEN f.to < 8 * Obytes ELSE 8 * Obytes <= f.from
    <3>1. CASE x = x0
      <4>1. x[2] = "in"
        BY <3>1
      <4>2. f.from \in Nat /\ pos <= f.from
        BY <1>6, <3>1
      <4>3. 8 * Obytes <= f.from
        BY <1>1, <2>1, <4>2
      <4> QED BY <4>1, <4>3
    <3>2. CASE x # x0
      <4>1. f \in FmmusOf(x)
        BY <3>2
      <4> QED BY <4>1 DEF LayoutInv, OutputsFirst
    <3> QED BY <3>1, <3>2
  <2> QED BY <2>1, <2>2
<1>12. Whole'
  BY DEF Whole, Mapped
<1> QED BY <1>7, <1>8, <1>9, <1>10, <1>11, <1>12 DEF LayoutInv

\* Slaves stay covered while the FMMUs are left alone.
LEMMA CoveredKept ==
  ASSUME Covered, pos \in Nat, pos' \in Nat, pos <= pos',
         \A x \in Places : FmmusOf(x)' = FmmusOf(x) /\ BitsOf(x)' = BitsOf(x),
         \A x \in Places : Placed(x)' => Placed(x)
  PROVE  Covered'
<1> SUFFICES ASSUME NEW x \in Places, Placed(x)'
             PROVE  \E q \in 0 .. pos' : Covers(FmmusOf(x)', q, BitsOf(x)')
  BY DEF Covered, Covers
<1>1. PICK q \in 0 .. pos : Covers(FmmusOf(x), q, BitsOf(x))
  BY DEF Covered
<1>2. q \in 0 .. pos'
  OBVIOUS
<1> QED BY <1>1, <1>2

\* What MapSlave does to the FMMUs of one slave in one direction.
LEMMA MapSlaveFits ==
  ASSUME TypeOK, NEW fmmu \in [Slaves -> SUBSET Fmmus], NEW fmmu1,
         NEW bits \in Nat, NEW runs \in Seq(Nat), Total(runs) >= BytesOf(bits), next \in Slaves,
         fmmu[next] = {},
         \/ bits = 0 /\ fmmu1 = fmmu /\ UNCHANGED <<pos, closed, segmentsize>>
         \/ /\ bits # 0 /\ fmmu1 = [fmmu EXCEPT ![next] = FmmusFor(pos, bits, runs)]
            /\ Advance(PlaceBehind(pos, bits, runs))
  PROVE  /\ \A s \in Slaves : s # next => fmmu1[s] = fmmu[s]
         /\ pos <= pos'
         /\ \A f \in fmmu1[next] : f \in Fmmus /\ pos <= f.from /\ f.from <= f.to /\ f.to < pos'
         /\ \A f, g \in fmmu1[next] : Apart(f, g)
         /\ \E q \in 0 .. pos' : Covers(fmmu1[next], q, bits)
         /\ (bits > 7 => pos' % 8 = 0)
         /\ UNCHANGED <<pos, closed, segmentsize>> \/ Advance(pos')
<1>0. pos \in Nat
  BY DEF TypeOK
<1>1. CASE bits = 0 /\ fmmu1 = fmmu /\ UNCHANGED <<pos, closed, segmentsize>>
  <2>1. fmmu1[next] = {} /\ pos' = pos /\ pos <= pos' /\ 0 \in 0 .. pos'
    BY <1>0, <1>1
  <2>2. Covers({}, 0, bits)
    BY <1>1 DEF Covers
  <2>3. \E q \in 0 .. pos' : Covers(fmmu1[next], q, bits)
    BY <2>1, <2>2
  <2>4. (\A s \in Slaves : s # next => fmmu1[s] = fmmu[s]) /\ UNCHANGED <<pos, closed, segmentsize>>
    BY <1>1
  <2>5. ~ (bits > 7)
    BY <1>1
  <2> QED BY <2>1, <2>3, <2>4, <2>5
<1>2. CASE /\ bits # 0 /\ fmmu1 = [fmmu EXCEPT ![next] = FmmusFor(pos, bits, runs)]
           /\ Advance(PlaceBehind(pos, bits, runs))
  <2>1. fmmu1[next] = FmmusFor(pos, bits, runs) /\ \A s \in Slaves : s # next => fmmu1[s] = fmmu[s]
    BY <1>2
  <2>2. pos' = PlaceBehind(pos, bits, runs)
    BY <1>2 DEF Advance
  <2>3. bits \in Nat \ {0}
    BY <1>2
  <2>4. /\ pos' \in Nat /\ pos <= pos'
        /\ \A f \in fmmu1[next] : f \in Fmmus /\ pos <= f.from /\ f.from <= f.to /\ f.to < pos'
        /\ \A f, g \in fmmu1[next] : Apart(f, g)
        /\ \E q \in pos .. pos' : Covers(fmmu1[next], q, bits)
        /\ (bits > 7 => pos' % 8 = 0)
    <3> DEFINE behind == PlaceBehind(pos, bits, runs)
               fmmus == FmmusFor(pos, bits, runs)
    <3>1. /\ behind \in Nat /\ pos <= behind
          /\ \A f \in fmmus : f \in Fmmus /\ pos <= f.from /\ f.from <= f.to /\ f.to < behind
          /\ \A f, g \in fmmus : Apart(f, g)
          /\ \E q \in pos .. behind : Covers(fmmus, q, bits)
          /\ (bits > 7 => behind % 8 = 0)
      BY <1>0, <2>3, FmmusForFit
    <3>2. fmmu1[next] = fmmus /\ pos' = behind
      BY <2>1, <2>2
    <3> HIDE DEF behind, fmmus
    <3> QED BY <3>1, <3>2
  <2>5. pos .. pos' \subseteq 0 .. pos'
    BY <1>0, <2>4
  <2>6. Advance(pos')
    BY <1>2, <2>2
  <2> QED BY <2>1, <2>4, <2>5, <2>6
<1> QED BY <1>1, <1>2

\* The layout is sound initially.
LEMMA LayoutInitially ==
  ASSUME DataAssumption, Init
  PROVE  LayoutInv
<1>1. \A x \in Places : FmmusOf(x) = {}
  BY DEF Init, Places, FmmusOf
<1>2. \A x \in Places : ~ Placed(x)
  BY DEF Init, Places, Placed, Slaves, DataAssumption, Mapped
<1>3. at = "outputs"
  BY DEF Init
<1>4. Ahead /\ Behind /\ FmmusDisjoint
  BY <1>1 DEF Ahead, Behind, FmmusDisjoint
<1>5. Covered
  BY <1>2 DEF Covered
<1>6. OutputsFirst /\ Whole
  BY <1>3 DEF OutputsFirst, Whole, Mapped
<1> QED BY <1>4, <1>5, <1>6 DEF LayoutInv

\* Each slave has a place for each direction.
LEMMA PlacesOf ==
  ASSUME NEW s \in Slaves, NEW dir \in {"out", "in"}
  PROVE  \E x \in Places : x = <<s, dir>>
<1> DEFINE z == <<s, dir>>
<1>1. \E a \in Slaves, b \in {"out", "in"} : z = <<a, b>>
  OBVIOUS
<1>2. z \in Places
  <2> HIDE DEF z
  <2> QED BY <1>1 DEF Places
<1> QED BY <1>2

\* What mapping one slave does, seen from the place it is for.
MapsOne(x0) ==
  /\ x0 = <<next, IF at = "outputs" THEN "out" ELSE "in">> /\ at \in {"outputs", "inputs"}
  /\ next' = next + 1 /\ UNCHANGED <<at, slaves, Obytes, Isegment, Ioffset>>
  /\ \A x \in Places : x # x0 => FmmusOf(x)' = FmmusOf(x)
  /\ pos <= pos'
  /\ \A f \in FmmusOf(x0)' : f \in Fmmus /\ pos <= f.from /\ f.from <= f.to /\ f.to < pos'
  /\ \A f, g \in FmmusOf(x0)' : Apart(f, g)
  /\ \E q \in 0 .. pos' : Covers(FmmusOf(x0)', q, BitsOf(x0))
  /\ (BitsOf(x0) > 7 => pos' % 8 = 0)
  /\ UNCHANGED <<pos, closed, segmentsize>> \/ Advance(pos')

\* MapOutputs and MapInputs each map one slave.
LEMMA MapStep ==
  ASSUME DataAssumption, TypeOK, LayoutInv, MapOutputs \/ MapInputs
  PROVE  \E x0 \in Places : MapsOne(x0)
<1>0. TypeOK /\ N \in Nat
  BY DEF DataAssumption
<1>1. CASE MapOutputs
  <2>0. next \in Slaves /\ at = "outputs"
    BY <1>0, <1>1 DEF TypeOK, MapOutputs, Slaves
  <2>10. PICK x0 \in Places : x0 = <<next, "out">>
    BY <2>0, PlacesOf
  <2>1. next \in Slaves /\ x0 \in Places /\ at = "outputs" /\ x0[1] = next /\ x0[2] = "out"
    BY <2>0, <2>10
  <2>2. \A x \in Places : FmmusOf(x)' = IF x[2] = "out" THEN ofmmu'[x[1]] ELSE ifmmu[x[1]]
    BY <1>1 DEF MapOutputs, FmmusOf
  <2>3. ofmmu[next] = {}
    <3>1. ~ Placed(x0)
      BY <1>0, <2>1 DEF Placed, TypeOK
    <3> QED BY <2>1, <3>1 DEF LayoutInv, Ahead, FmmusOf
  <2>4. /\ \A s \in Slaves : s # next => ofmmu'[s] = ofmmu[s]
        /\ pos <= pos'
        /\ \A f \in ofmmu'[next] : f \in Fmmus /\ pos <= f.from /\ f.from <= f.to /\ f.to < pos'
        /\ \A f, g \in ofmmu'[next] : Apart(f, g)
        /\ \E q \in 0 .. pos' : Covers(ofmmu'[next], q, slaves[next].obits)
        /\ (slaves[next].obits > 7 => pos' % 8 = 0)
        /\ UNCHANGED <<pos, closed, segmentsize>> \/ Advance(pos')
    BY <1>0, <1>1, <2>1, <2>3, KindFits, MapSlaveFits DEF TypeOK, MapOutputs, MapSlave
  <2>5. FmmusOf(x0)' = ofmmu'[next] /\ BitsOf(x0) = slaves[next].obits
    BY <2>1, <2>2 DEF BitsOf
  <2>6. ASSUME NEW x \in Places, x # x0
        PROVE  FmmusOf(x)' = FmmusOf(x)
    <3>1. PICK s \in Slaves, dir \in {"out", "in"} : x = <<s, dir>>
      BY DEF Places
    <3>2. dir = "out" => s # next
      BY <2>10, <2>6, <3>1
    <3> QED BY <2>2, <2>4, <3>1, <3>2 DEF FmmusOf
  <2>7. next' = next + 1 /\ UNCHANGED <<at, slaves, Obytes, Isegment, Ioffset>>
    BY <1>1 DEF MapOutputs
  <2>8. x0 = <<next, IF at = "outputs" THEN "out" ELSE "in">> /\ at \in {"outputs", "inputs"}
    BY <2>1, <2>10
  <2>9. \E q \in 0 .. pos' : Covers(ofmmu'[next], q, BitsOf(x0))
    BY <2>4, <2>5
  <2> QED BY <2>1, <2>4, <2>5, <2>6, <2>7, <2>8, <2>9 DEF MapsOne
<1>2. CASE MapInputs
  <2>0. next \in Slaves /\ at = "inputs"
    BY <1>0, <1>2 DEF TypeOK, MapInputs, Slaves
  <2>10. PICK x0 \in Places : x0 = <<next, "in">>
    BY <2>0, PlacesOf
  <2>1. next \in Slaves /\ x0 \in Places /\ at = "inputs" /\ x0[1] = next /\ x0[2] = "in"
    BY <2>0, <2>10
  <2>2. \A x \in Places : FmmusOf(x)' = IF x[2] = "out" THEN ofmmu[x[1]] ELSE ifmmu'[x[1]]
    BY <1>2 DEF MapInputs, FmmusOf
  <2>3. ifmmu[next] = {}
    <3>1. ~ Placed(x0)
      BY <1>0, <2>1 DEF Placed, Mapped, TypeOK
    <3> QED BY <2>1, <3>1 DEF LayoutInv, Ahead, FmmusOf
  <2>4. /\ \A s \in Slaves : s # next => ifmmu'[s] = ifmmu[s]
        /\ pos <= pos'
        /\ \A f \in ifmmu'[next] : f \in Fmmus /\ pos <= f.from /\ f.from <= f.to /\ f.to < pos'
        /\ \A f, g \in ifmmu'[next] : Apart(f, g)
        /\ \E q \in 0 .. pos' : Covers(ifmmu'[next], q, slaves[next].ibits)
        /\ (slaves[next].ibits > 7 => pos' % 8 = 0)
        /\ UNCHANGED <<pos, closed, segmentsize>> \/ Advance(pos')
    BY <1>0, <1>2, <2>1, <2>3, KindFits, MapSlaveFits DEF TypeOK, MapInputs, MapSlave
  <2>5. FmmusOf(x0)' = ifmmu'[next] /\ BitsOf(x0) = slaves[next].ibits
    BY <2>1, <2>2 DEF BitsOf
  <2>6. ASSUME NEW x \in Places, x # x0
        PROVE  FmmusOf(x)' = FmmusOf(x)
    <3>1. PICK s \in Slaves, dir \in {"out", "in"} : x = <<s, dir>>
      BY DEF Places
    <3>2. dir = "in" => s # next
      BY <2>10, <2>6, <3>1
    <3> QED BY <2>2, <2>4, <3>1, <3>2 DEF FmmusOf
  <2>7. next' = next + 1 /\ UNCHANGED <<at, slaves, Obytes, Isegment, Ioffset>>
    BY <1>2 DEF MapInputs
  <2>8. x0 = <<next, IF at = "outputs" THEN "out" ELSE "in">> /\ at \in {"outputs", "inputs"}
    BY <2>1, <2>10
  <2>9. \E q \in 0 .. pos' : Covers(ifmmu'[next], q, BitsOf(x0))
    BY <2>4, <2>5
  <2> QED BY <2>1, <2>4, <2>5, <2>6, <2>7, <2>8, <2>9 DEF MapsOne
<1> QED BY <1>1, <1>2

\* Every step keeps the layout sound.
LEMMA LayoutStep ==
  ASSUME DataAssumption, TypeInv, TypeOK', LayoutInv, [Next]_vars
  PROVE  LayoutInv'
<1>0. TypeOK /\ N \in Nat
  BY DEF TypeInv, DataAssumption
<1>1. CASE MapOutputs \/ MapInputs
  <2>1. PICK x0 \in Places : MapsOne(x0)
    BY <1>0, <1>1, MapStep
  <2> QED BY <1>0, <2>1, MapPreserves DEF MapsOne
<1>2. CASE OutputsMapped
  <2>1. /\ pos \in Nat /\ pos' \in Nat /\ pos <= pos' /\ pos' % 8 = 0
        /\ next \in Nat
    <3>1. pos \in Nat /\ next \in Nat
      BY <1>0 DEF TypeOK
    <3>2. RoundUp
      BY <1>2 DEF OutputsMapped
    <3> QED BY <3>1, <3>2, RoundUpType
  <2>2. /\ at = "outputs" /\ at' = "inputs" /\ next = N + 1 /\ next' = 1 /\ Obytes' = pos' \div 8
        /\ UNCHANGED <<slaves, ofmmu, ifmmu>>
    BY <1>2 DEF OutputsMapped
  <2>3. 8 * Obytes' = pos'
    <3>1. \A p \in Nat : p % 8 = 0 => 8 * (p \div 8) = p
      BY BytesType
    <3> QED BY <2>1, <2>2, <3>1
  <2>4. \A x \in Places : FmmusOf(x)' = FmmusOf(x) /\ BitsOf(x)' = BitsOf(x)
    BY <2>2 DEF FmmusOf, BitsOf
  <2>5. ASSUME NEW x \in Places
        PROVE  /\ (Placed(x)' <=> x[2] = "out") /\ (Placed(x) <=> x[2] = "out")
    <3>1. PICK s \in Slaves, dir \in {"out", "in"} : x = <<s, dir>>
      BY DEF Places
    <3>2. s \in Nat /\ s >= 1 /\ s <= N
      BY <1>0, <3>1 DEF Slaves
    <3>3. ~ (s < next') /\ s < next
      BY <1>0, <2>1, <2>2, <3>2
    <3>4. x[1] = s /\ x[2] = dir
      BY <3>1
    <3> QED BY <2>2, <3>3, <3>4 DEF Placed, Mapped
  <2>6. \A x \in Places : \A f \in FmmusOf(x) : f.to \in Nat
    BY <1>0, FmmusType
  <2>7. Ahead'
    BY <2>4, <2>5 DEF LayoutInv, Ahead
  <2>8. Behind'
    <3>1. ASSUME NEW x \in Places, NEW f \in FmmusOf(x)
          PROVE  f.from <= f.to /\ f.to < pos'
      <4>1. f.from <= f.to /\ f.to < pos /\ f.to \in Nat
        BY <2>6 DEF LayoutInv, Behind
      <4> QED BY <2>1, <4>1
    <3> QED BY <2>4, <3>1 DEF Behind
  <2>9. Covered'
    BY <2>1, <2>4, <2>5, CoveredKept DEF LayoutInv
  <2>10. FmmusDisjoint'
    BY <2>4 DEF LayoutInv, FmmusDisjoint
  <2>11. OutputsFirst'
    <3>1. ASSUME NEW x \in Places, NEW f \in FmmusOf(x)
          PROVE  IF x[2] = "out" THEN f.to < 8 * Obytes' ELSE 8 * Obytes' <= f.from
      <4>1. x[2] = "out"
        BY <2>5 DEF LayoutInv, Ahead
      <4>2. f.to < pos'
        BY <2>4, <2>8 DEF Behind
      <4> QED BY <2>3, <4>1, <4>2
    <3>2. 8 * Obytes' <= pos'
      BY <2>1, <2>3
    <3> QED BY <2>4, <3>1, <3>2 DEF OutputsFirst
  <2>12. Whole'
    BY <2>2 DEF Whole, Mapped
  <2> QED BY <2>7, <2>8, <2>9, <2>10, <2>11, <2>12 DEF LayoutInv
<1>3. CASE InputsMapped
  <2>1. pos \in Nat /\ pos' \in Nat /\ pos <= pos' /\ pos' % 8 = 0 /\ next \in Nat /\ Obytes \in Nat
    <3>1. pos \in Nat /\ next \in Nat /\ Obytes \in Nat
      BY <1>0 DEF TypeOK
    <3>2. RoundUp
      BY <1>3 DEF InputsMapped
    <3> QED BY <3>1, <3>2, RoundUpType
  <2>2. /\ at = "inputs" /\ at' = "mapped" /\ next = N + 1
        /\ UNCHANGED <<slaves, ofmmu, ifmmu, Obytes>>
    BY <1>3 DEF InputsMapped
  <2>3. \A x \in Places : FmmusOf(x)' = FmmusOf(x) /\ BitsOf(x)' = BitsOf(x)
    BY <2>2 DEF FmmusOf, BitsOf
  <2>4. ASSUME NEW x \in Places
        PROVE  Placed(x)
    <3>1. PICK s \in Slaves, dir \in {"out", "in"} : x = <<s, dir>>
      BY DEF Places
    <3>2. s \in Nat /\ s <= N
      BY <1>0, <3>1 DEF Slaves
    <3>3. s < next
      BY <1>0, <2>1, <2>2, <3>2
    <3>4. x[1] = s /\ x[2] = dir
      BY <3>1
    <3> QED BY <2>2, <3>3, <3>4 DEF Placed
  <2>5. \A x \in Places : Placed(x)'
    BY <2>2 DEF Placed, Mapped
  <2>6. \A x \in Places : \A f \in FmmusOf(x) : f.to \in Nat
    BY <1>0, FmmusType
  <2>7. Ahead'
    BY <2>5 DEF Ahead
  <2>8. Behind'
    <3>1. ASSUME NEW x \in Places, NEW f \in FmmusOf(x)
          PROVE  f.from <= f.to /\ f.to < pos'
      <4>1. f.from <= f.to /\ f.to < pos /\ f.to \in Nat
        BY <2>6 DEF LayoutInv, Behind
      <4> QED BY <2>1, <4>1
    <3> QED BY <2>3, <3>1 DEF Behind
  <2>9. Covered'
    BY <2>1, <2>3, <2>4, CoveredKept DEF LayoutInv
  <2>10. FmmusDisjoint'
    BY <2>3 DEF LayoutInv, FmmusDisjoint
  <2>11. OutputsFirst'
    <3>1. 8 * Obytes <= pos
      BY <2>2 DEF LayoutInv, OutputsFirst
    <3>2. 8 * Obytes <= pos'
      BY <2>1, <3>1
    <3> QED BY <2>2, <2>3, <3>2 DEF LayoutInv, OutputsFirst
  <2>12. Whole'
    BY <2>1 DEF Whole
  <2> QED BY <2>7, <2>8, <2>9, <2>10, <2>11, <2>12 DEF LayoutInv
<1>4. CASE Exchange \/ UNCHANGED vars
  <2>1. UNCHANGED <<slaves, next, pos, ofmmu, ifmmu, Obytes>>
    BY <1>4 DEF Exchange, Send, ReceiveFrame, NoFrame, Clear, vars, layout
  <2>2. /\ (at' = "outputs" <=> at = "outputs") /\ (at' = "inputs" <=> at = "inputs")
        /\ (Mapped' <=> Mapped)
    BY <1>4 DEF Exchange, Send, ReceiveFrame, NoFrame, Clear, Received, vars, Mapped
  <2>3. \A x \in Places : FmmusOf(x)' = FmmusOf(x) /\ BitsOf(x)' = BitsOf(x)
    BY <2>1 DEF FmmusOf, BitsOf
  <2>4. \A x \in Places : Placed(x)' <=> Placed(x)
    BY <2>1, <2>2 DEF Placed
  <2>5. Ahead' /\ Behind'
    BY <2>1, <2>3, <2>4 DEF LayoutInv, Ahead, Behind
  <2>6. Covered'
    <3>1. pos \in Nat /\ pos' \in Nat /\ pos <= pos'
      BY <1>0, <2>1 DEF TypeOK
    <3> QED BY <2>3, <2>4, <3>1, CoveredKept DEF LayoutInv
  <2>7. FmmusDisjoint' /\ OutputsFirst' /\ Whole'
    BY <2>1, <2>2, <2>3 DEF LayoutInv, FmmusDisjoint, OutputsFirst, Whole
  <2> QED BY <2>5, <2>6, <2>7 DEF LayoutInv
<1> QED BY <1>1, <1>2, <1>3, <1>4 DEF Next, Mapping

\* The invariant implies the property.
LEMMA LayoutInvSays ==
  ASSUME TypeOK, LayoutInv
  PROVE  FmmusFit
<1> SUFFICES ASSUME Mapped, NEW x \in Places
             PROVE  /\ \E p \in 0 .. pos : Covers(FmmusOf(x), p, BitsOf(x))
                    /\ \A f \in FmmusOf(x) :
                         f.from >= (IF x[2] = "in" THEN 8 * Obytes ELSE 0)
                           /\ f.to < (IF x[2] = "in" THEN 8 * Bytes ELSE 8 * Obytes)
  BY DEF LayoutInv, FmmusFit, AllMapped, Covers
<1>1. Placed(x) /\ at # "outputs" /\ x[2] \in {"out", "in"}
  BY DEF Placed, Mapped, Places
<1>2. 8 * Bytes = pos
  <2>1. pos \in Nat /\ pos % 8 = 0
    BY DEF TypeOK, LayoutInv, Whole
  <2> QED BY <2>1, BytesType DEF Bytes
<1>3. \E p \in 0 .. pos : Covers(FmmusOf(x), p, BitsOf(x))
  BY <1>1 DEF LayoutInv, Covered
<1>4. ASSUME NEW f \in FmmusOf(x)
      PROVE  /\ f.from >= (IF x[2] = "in" THEN 8 * Obytes ELSE 0)
             /\ f.to < (IF x[2] = "in" THEN 8 * Bytes ELSE 8 * Obytes)
  <2>1. f.from \in Nat /\ f.to \in Nat /\ f.to < pos
    BY FmmusType DEF LayoutInv, Behind
  <2>2. IF x[2] = "out" THEN f.to < 8 * Obytes ELSE 8 * Obytes <= f.from
    BY <1>1 DEF LayoutInv, OutputsFirst
  <2>3. Obytes \in Nat
    BY DEF TypeOK
  <2> QED BY <1>1, <1>2, <2>1, <2>2, <2>3
<1> QED BY <1>3, <1>4

\* The layout ecx_main_config_map_group() makes is sound: no bit belongs to two
\* slaves or to two FMMUs, every bit of every slave is mapped, and the outputs lie
\* before the inputs, for any number of slaves of any sizes in any order.
THEOREM LayoutIsSound == Spec => []FmmusFit
<1>1. Init => TypeInv /\ LayoutInv
  BY DataAssumption, TypeInitially, LayoutInitially
<1>2. (TypeInv /\ LayoutInv) /\ [Next]_vars => (TypeInv /\ LayoutInv)'
  <2>1. ASSUME TypeInv, LayoutInv, [Next]_vars
        PROVE  TypeInv' /\ LayoutInv'
    <3>1. TypeInv'
      BY <2>1, DataAssumption, TypeStep
    <3>2. TypeOK'
      BY <3>1 DEF TypeInv
    <3> QED BY <2>1, <3>1, <3>2, DataAssumption, LayoutStep
  <2> QED BY <2>1
<1>3. TypeInv /\ LayoutInv => FmmusFit
  BY LayoutInvSays DEF TypeInv
<1> QED BY <1>1, <1>2, <1>3, PTL DEF Spec

----------------------------------------------------------------------------
(* The segments.                                                            *)

\* The bytes no segment was left for.
Lost == pos \div 8 - Total(IOsegment)

\* The segments never hold more than was mapped; where LRD begins, outputs that
\* are in no segment are among those lost.
Tiled ==
  /\ Lost >= 0
  /\ at # "outputs" => /\ UpTo(IOsegment, Isegment) + Ioffset <= Obytes
                       /\ Obytes - (UpTo(IOsegment, Isegment) + Ioffset) <= Lost

\* The bytes of a byte oriented slave are counted when it is mapped.
BytesCounted == \A x \in Places : BitsOf(x) > 7 => \A f \in FmmusOf(x) : f.to < 8 * (pos \div 8)

\* While nothing is lost no segment that was closed ends inside a byte oriented slave.
Bounded ==
  Lost = 0 => \A x \in Places : BitsOf(x) > 7 =>
    \A f, g \in FmmusOf(x) : \A j \in 1 .. Len(closed) :
      ~ (f.from < 8 * UpTo(IOsegment, j) /\ 8 * UpTo(IOsegment, j) <= g.to)

\* The segments follow what is mapped.
SegmentInv == Tiled /\ BytesCounted /\ Bounded

\* Sequences that agree have equal sums.
LEMMA SumsAgree ==
  ASSUME NEW a \in Seq(Nat), NEW b \in Seq(Nat), NEW n \in Nat, n <= Len(a), n <= Len(b),
         \A i \in 1 .. n : a[i] = b[i]
  PROVE  \A k \in 0 .. n : UpTo(a, k) = UpTo(b, k)
<1> DEFINE T == {k \in Nat : k <= n => Sums(a)[k] = Sums(b)[k]}
<1>1. 0 \in T
  BY SumsType
<1>2. ASSUME NEW k \in Nat, k \in T
      PROVE  k + 1 \in T
  <2> SUFFICES ASSUME k + 1 <= n
               PROVE  Sums(a)[k + 1] = Sums(b)[k + 1]
    OBVIOUS
  <2>1. k + 1 \in 1 .. Len(a) /\ k + 1 \in 1 .. Len(b) /\ k + 1 \in 1 .. n /\ (k + 1) - 1 = k
    OBVIOUS
  <2>2. Sums(a)[k + 1] = Sums(a)[(k + 1) - 1] + a[k + 1]
    BY <2>1, SumsType
  <2>3. Sums(b)[k + 1] = Sums(b)[(k + 1) - 1] + b[k + 1]
    BY <2>1, SumsType
  <2>4. Sums(a)[k] = Sums(b)[k] /\ a[k + 1] = b[k + 1]
    BY <1>2, <2>1
  <2> QED BY <2>1, <2>2, <2>3, <2>4
<1>3. T = Nat
  <2>1. T \in SUBSET Nat
    OBVIOUS
  <2> HIDE DEF T
  <2> QED BY <1>1, <1>2, <2>1, SetInduction
<1>4. ASSUME NEW k \in 0 .. n
      PROVE  Sums(a)[k] = Sums(b)[k]
  <2>1. k \in T
    <3>1. k \in Nat
      OBVIOUS
    <3> HIDE DEF T
    <3> QED BY <1>3, <3>1
  <2> QED BY <2>1
<1> QED BY <1>4 DEF UpTo

\* The sums of a sequence with one more.
LEMMA SumsAppend ==
  ASSUME NEW c \in Seq(Nat), NEW x \in Nat
  PROVE  /\ \A k \in 0 .. Len(c) : UpTo(Append(c, x), k) = UpTo(c, k)
         /\ Total(Append(c, x)) = Total(c) + x
<1> DEFINE a == Append(c, x)
           n == Len(c)
<1>1. a \in Seq(Nat) /\ Len(a) = n + 1 /\ a[n + 1] = x /\ n \in Nat /\ \A i \in 1 .. n : a[i] = c[i]
  OBVIOUS
<1>2. \A k \in 0 .. n : UpTo(a, k) = UpTo(c, k)
  <2>1. n <= Len(a) /\ n <= Len(c)
    BY <1>1
  <2> HIDE DEF a, n
  <2> QED BY <1>1, <2>1, SumsAgree
<1>3. UpTo(a, n + 1) = UpTo(a, n) + x
  <2> HIDE DEF a, n
  <2>1. n + 1 \in 1 .. Len(a) /\ (n + 1) - 1 = n
    BY <1>1
  <2>2. Sums(a)[n + 1] = Sums(a)[(n + 1) - 1] + a[n + 1]
    BY <1>1, <2>1, SumsType
  <2> QED BY <1>1, <2>1, <2>2 DEF UpTo
<1>4. n \in 0 .. n
  BY <1>1
<1> HIDE DEF a
<1>5. Total(a) = Total(c) + x
  BY <1>1, <1>2, <1>3, <1>4 DEF Total
<1> QED BY <1>2, <1>5 DEF a

\* What AddToSegment does to the sums of the segments.
LEMMA SegmentsAdded ==
  ASSUME DataAssumption, TypeInv, TypeOK', NEW bytes \in Nat, AddToSegment(bytes)
  PROVE  /\ \A k \in 0 .. Len(closed) : UpTo(IOsegment', k) = UpTo(IOsegment, k)
         /\ Total(IOsegment') \in {Total(IOsegment), Total(IOsegment) + bytes}
         /\ \/ Len(closed') = Len(closed)
            \/ Len(closed') = Len(closed) + 1 /\ UpTo(IOsegment', Len(closed) + 1) = Total(IOsegment)
<1>0. /\ closed \in Seq(Nat) /\ segmentsize \in Nat /\ Len(closed) \in Nat /\ IOsegment \in Seq(Nat)
      /\ Len(IOsegment) = Len(closed) + 1
  <2>1. TypeOK
    BY DEF TypeInv
  <2>2. closed \in Seq(Nat) /\ segmentsize \in Nat
    BY <2>1 DEF TypeOK
  <2> QED BY <2>1, <2>2, SegmentsType
<1>1. CASE UNCHANGED <<closed, segmentsize>>
  BY <1>1 DEF IOsegment
<1>2. CASE segmentsize' = segmentsize + bytes /\ UNCHANGED closed
  <2>1. IOsegment' = Append(closed, segmentsize + bytes) /\ IOsegment = Append(closed, segmentsize)
    BY <1>2 DEF IOsegment
  <2>2. segmentsize + bytes \in Nat
    BY <1>0
  <2>3. \A k \in 0 .. Len(closed) : UpTo(IOsegment', k) = UpTo(closed, k)
    BY <1>0, <2>1, <2>2, SumsAppend
  <2>4. \A k \in 0 .. Len(closed) : UpTo(IOsegment, k) = UpTo(closed, k)
    BY <1>0, <2>1, SumsAppend
  <2>5. Total(IOsegment') = Total(closed) + (segmentsize + bytes) /\ Total(IOsegment) = Total(closed) + segmentsize
    BY <1>0, <2>1, <2>2, SumsAppend
  <2>6. Total(closed) \in Nat
    BY <1>0, SumsRise DEF Total
  <2>7. Total(IOsegment') = Total(IOsegment) + bytes
    BY <1>0, <2>5, <2>6
  <2> QED BY <1>2, <2>3, <2>4, <2>7
<1>3. CASE Len(closed) < MaxSegments - 1 /\ closed' = Append(closed, segmentsize) /\ segmentsize' = bytes
  <2>1. IOsegment' = Append(IOsegment, bytes) /\ closed' = IOsegment
    BY <1>3 DEF IOsegment
  <2>2. /\ \A k \in 0 .. Len(IOsegment) : UpTo(IOsegment', k) = UpTo(IOsegment, k)
        /\ Total(IOsegment') = Total(IOsegment) + bytes
    BY <1>0, <2>1, SumsAppend
  <2>3. Len(closed) + 1 \in 0 .. Len(IOsegment) /\ \A k \in 0 .. Len(closed) : k \in 0 .. Len(IOsegment)
    BY <1>0
  <2>4. UpTo(IOsegment', Len(closed) + 1) = Total(IOsegment)
    BY <1>0, <2>2, <2>3 DEF Total
  <2>5. Len(closed') = Len(closed) + 1
    BY <1>0, <2>1
  <2> QED BY <2>2, <2>3, <2>4, <2>5
<1> QED BY <1>1, <1>2, <1>3 DEF AddToSegment

\* The sums of the segments are whole numbers.
LEMMA LostType ==
  ASSUME TypeOK
  PROVE  /\ Total(IOsegment) \in Nat /\ UpTo(IOsegment, Isegment) \in Nat
         /\ pos \in Nat /\ pos \div 8 \in Nat /\ Lost \in Int /\ Lost = pos \div 8 - Total(IOsegment)
         /\ \A j \in 1 .. Len(closed) :
              UpTo(IOsegment, j) \in Nat /\ UpTo(IOsegment, j) <= Total(IOsegment)
<1>1. IOsegment \in Seq(Nat) /\ Len(IOsegment) = Len(closed) + 1 /\ Len(closed) \in Nat
  <2>1. closed \in Seq(Nat)
    BY DEF TypeOK
  <2> QED BY <2>1, SegmentsType
<1>2. Isegment \in 0 .. Len(IOsegment) /\ Len(IOsegment) \in 0 .. Len(IOsegment)
  BY <1>1 DEF TypeOK
<1>3. Total(IOsegment) \in Nat /\ UpTo(IOsegment, Isegment) \in Nat
  BY <1>1, <1>2, SumsRise DEF Total
<1>4. ASSUME NEW j \in 1 .. Len(closed)
      PROVE  UpTo(IOsegment, j) \in Nat /\ UpTo(IOsegment, j) <= Total(IOsegment)
  <2>1. j \in 0 .. Len(IOsegment) /\ j <= Len(IOsegment)
    BY <1>1
  <2> QED BY <1>1, <1>2, <2>1, SumsRise DEF Total
<1>5. pos \in Nat /\ pos \div 8 \in Nat
  BY BytesType DEF TypeOK
<1>6. Lost \in Int
  BY <1>3, <1>5 DEF Lost
<1> QED BY <1>3, <1>4, <1>5, <1>6 DEF Lost

\* The segments after a step that mapped something, or nothing.
Extended ==
  /\ pos <= pos' /\ Lost <= Lost'
  /\ UpTo(IOsegment', Isegment) = UpTo(IOsegment, Isegment)
  /\ \A j \in 1 .. Len(closed') :
       \/ j \in 1 .. Len(closed) /\ UpTo(IOsegment', j) = UpTo(IOsegment, j)
       \/ UpTo(IOsegment', j) = Total(IOsegment)

\* Advance only extends the segments.
LEMMA AdvanceExtends ==
  ASSUME DataAssumption, TypeInv, TypeOK', pos <= pos',
         UNCHANGED <<pos, closed, segmentsize>> \/ Advance(pos')
  PROVE  Extended
<1>0. TypeOK
  BY DEF TypeInv
<1>1. Lost \in Int /\ pos \in Nat /\ pos \div 8 \in Nat /\ Total(IOsegment) \in Nat
  BY <1>0, LostType
<1>2. CASE UNCHANGED <<pos, closed, segmentsize>>
  <2>1. IOsegment' = IOsegment /\ Lost' = Lost /\ closed' = closed
    BY <1>2 DEF IOsegment, Lost
  <2> QED BY <1>1, <2>1 DEF Extended
<1>3. CASE Advance(pos')
  <2> DEFINE bytes == pos' \div 8 - pos \div 8
  <2>1. pos' \in Nat /\ pos' \div 8 \in Nat /\ bytes \in Nat
    <3>1. pos' \in Nat
      BY DEF TypeOK
    <3>2. \A p, q \in Nat : p <= q => p \div 8 \in Nat /\ q \div 8 \in Nat /\ q \div 8 - p \div 8 \in Nat
      OBVIOUS
    <3> QED BY <1>1, <3>1, <3>2
  <2>2. AddToSegment(bytes)
    BY <1>3 DEF Advance
  <2>3. /\ \A k \in 0 .. Len(closed) : UpTo(IOsegment', k) = UpTo(IOsegment, k)
        /\ Total(IOsegment') \in {Total(IOsegment), Total(IOsegment) + bytes}
        /\ \/ Len(closed') = Len(closed)
           \/ Len(closed') = Len(closed) + 1 /\ UpTo(IOsegment', Len(closed) + 1) = Total(IOsegment)
    <3> HIDE DEF bytes
    <3> QED BY <2>1, <2>2, SegmentsAdded
  <2>4. Isegment \in 0 .. Len(closed) /\ Len(closed) \in Nat /\ Len(closed') \in Nat
    <3>1. closed \in Seq(Nat) /\ closed' \in Seq(Nat)
      BY <1>0 DEF TypeOK
    <3>2. Isegment \in 0 .. Len(closed)
      BY <1>0 DEF TypeOK
    <3> QED BY <3>1, <3>2
  <2>5. Lost <= Lost'
    <3>1. Lost' = pos' \div 8 - Total(IOsegment') /\ Lost = pos \div 8 - Total(IOsegment)
      BY DEF Lost
    <3> DEFINE a == pos \div 8
               b == pos' \div 8
               t == Total(IOsegment)
               u == Total(IOsegment')
    <3>2. a \in Nat /\ b \in Nat /\ t \in Nat /\ u \in {t, t + (b - a)} /\ b - a \in Nat
      BY <1>1, <2>1, <2>3
    <3>3. Lost' = b - u /\ Lost = a - t
      BY <3>1
    <3> HIDE DEF a, b, t, u
    <3> QED BY <3>2, <3>3
  <2>6. ASSUME NEW j \in 1 .. Len(closed')
        PROVE  \/ j \in 1 .. Len(closed) /\ UpTo(IOsegment', j) = UpTo(IOsegment, j)
               \/ UpTo(IOsegment', j) = Total(IOsegment)
    <3>1. CASE j <= Len(closed)
      <4>1. j \in 1 .. Len(closed) /\ j \in 0 .. Len(closed)
        BY <2>4, <3>1
      <4> QED BY <2>3, <4>1
    <3>2. CASE ~ (j <= Len(closed))
      <4>1. j = Len(closed) + 1 /\ Len(closed') # Len(closed)
        BY <2>3, <2>4, <3>2
      <4> QED BY <2>3, <4>1
    <3> QED BY <3>1, <3>2
  <2> QED BY <2>3, <2>4, <2>5, <2>6 DEF Extended
<1> QED BY <1>2, <1>3

\* Tiled is kept where the segments are extended.
LEMMA TiledKept ==
  ASSUME TypeOK, TypeOK', Tiled, Extended, UNCHANGED <<Isegment, Ioffset, Obytes>>,
         at' = "outputs" <=> at = "outputs"
  PROVE  Tiled'
<1>1. Lost \in Int /\ Lost' \in Int /\ UpTo(IOsegment, Isegment) \in Nat /\ Ioffset \in Nat /\ Obytes \in Nat
  <2>1. Lost \in Int /\ UpTo(IOsegment, Isegment) \in Nat
    BY LostType
  <2>2. Lost' \in Int
    <3>1. pos' \div 8 \in Nat
      <4>1. pos' \in Nat
        BY DEF TypeOK
      <4> QED BY <4>1, BytesType
    <3>2. Total(IOsegment') \in Nat
      <4>1. closed' \in Seq(Nat) /\ segmentsize' \in Nat
        BY DEF TypeOK
      <4>2. IOsegment' \in Seq(Nat) /\ Len(IOsegment') \in 0 .. Len(IOsegment')
        BY <4>1 DEF IOsegment
      <4> QED BY <4>2, SumsRise DEF Total
    <3> QED BY <3>1, <3>2 DEF Lost
  <2> QED BY <2>1, <2>2 DEF TypeOK
<1>2. Lost >= 0 /\ Lost <= Lost' /\ UpTo(IOsegment', Isegment') = UpTo(IOsegment, Isegment)
  BY DEF Tiled, Extended
<1>3. Lost' >= 0
  BY <1>1, <1>2
<1>4. ASSUME at' # "outputs"
      PROVE  /\ UpTo(IOsegment', Isegment') + Ioffset' <= Obytes'
             /\ Obytes' - (UpTo(IOsegment', Isegment') + Ioffset') <= Lost'
  <2> DEFINE u == UpTo(IOsegment, Isegment)
  <2>1. u + Ioffset <= Obytes /\ Obytes - (u + Ioffset) <= Lost
    BY <1>4 DEF Tiled
  <2>2. u \in Nat /\ UpTo(IOsegment', Isegment') = u
    BY <1>1, <1>2
  <2> HIDE DEF u
  <2> QED BY <1>1, <1>2, <2>1, <2>2
<1> QED BY <1>3, <1>4 DEF Tiled

\* So is Bounded for a slave that was mapped before.
LEMMA BoundedKept ==
  ASSUME TypeOK, TypeOK', Tiled, BytesCounted, Bounded, Extended, UNCHANGED slaves,
         NEW x \in Places, FmmusOf(x)' = FmmusOf(x), BitsOf(x) > 7, BitsOf(x)' = BitsOf(x), Lost' = 0,
         NEW f \in FmmusOf(x), NEW g \in FmmusOf(x), NEW j \in 1 .. Len(closed')
  PROVE  ~ (f.from < 8 * UpTo(IOsegment', j) /\ 8 * UpTo(IOsegment', j) <= g.to)
<1>1. Lost = 0
  BY LostType DEF Tiled, Extended
<1>2. CASE j \in 1 .. Len(closed) /\ UpTo(IOsegment', j) = UpTo(IOsegment, j)
  BY <1>1, <1>2 DEF Bounded
<1>3. CASE UpTo(IOsegment', j) = Total(IOsegment)
  <2>1. pos \div 8 \in Nat /\ Total(IOsegment) \in Nat /\ g.to \in Nat
    BY LostType, FmmusType
  <2>2. Total(IOsegment) = pos \div 8
    BY <1>1, <2>1 DEF Lost
  <2>3. g.to < 8 * (pos \div 8)
    BY DEF BytesCounted
  <2> QED BY <1>3, <2>1, <2>2, <2>3
<1> QED BY <1>2, <1>3 DEF Extended

\* The current segment is the last term of the sum.
LEMMA SumsOfSegments ==
  ASSUME NEW c \in Seq(Nat), NEW x \in Nat
  PROVE  UpTo(Append(c, x), Len(c)) + x = Total(Append(c, x))
<1>1. Len(c) \in 0 .. Len(c)
  OBVIOUS
<1>2. UpTo(Append(c, x), Len(c)) = Total(c) /\ Total(Append(c, x)) = Total(c) + x
  BY <1>1, SumsAppend DEF Total
<1> QED BY <1>2

\* Nothing is mapped, nothing is lost.
LEMMA SegmentInitially ==
  ASSUME DataAssumption, Init, TypeInv
  PROVE  SegmentInv
<1>1. Total(IOsegment) = 0
  <2>1. IOsegment = Append(<<>>, 0)
    BY DEF Init, IOsegment
  <2>2. <<>> \in Seq(Nat) /\ Len(<<>>) = 0
    OBVIOUS
  <2>3. Total(<<>>) = 0
    BY <2>2, SumsType DEF Total, UpTo
  <2>4. Total(Append(<<>>, 0)) = Total(<<>>) + 0
    <3>1. \A c \in Seq(Nat), x \in Nat : Total(Append(c, x)) = Total(c) + x
      BY SumsAppend
    <3>2. 0 \in Nat /\ <<>> \in Seq(Nat)
      OBVIOUS
    <3> QED BY <3>1, <3>2, Zenon
  <2> QED BY <2>1, <2>3, <2>4
<1>2. Lost = 0
  BY <1>1 DEF Init, Lost
<1>3. Tiled
  BY <1>2 DEF Tiled, Init
<1>4. \A x \in Places : FmmusOf(x) = {}
  BY DEF Init, Places, FmmusOf
<1> QED BY <1>3, <1>4 DEF SegmentInv, BytesCounted, Bounded

\* Every step keeps the segments sound.
LEMMA SegmentStep ==
  ASSUME DataAssumption, TypeInv, TypeOK', LayoutInv, LayoutInv', SegmentInv, [Next]_vars
  PROVE  SegmentInv'
<1>0. TypeOK /\ Tiled /\ BytesCounted /\ Bounded
  BY DEF TypeInv, SegmentInv
<1>1. CASE MapOutputs \/ MapInputs
  <2>1. PICK x0 \in Places : MapsOne(x0)
    BY <1>0, <1>1, MapStep
  <2>2. Extended
    BY <2>1, AdvanceExtends DEF MapsOne
  <2>3. Tiled'
    BY <1>0, <2>1, <2>2, TiledKept DEF MapsOne
  <2>4. \A x \in Places : BitsOf(x)' = BitsOf(x)
    BY <2>1 DEF MapsOne, BitsOf
  <2>5. pos \in Nat /\ pos' \in Nat /\ pos <= pos'
    BY <1>0, <2>1 DEF TypeOK, MapsOne
  <2>6. \A f \in FmmusOf(x0)' : f.from \in Nat /\ f.to \in Nat /\ pos <= f.from /\ f.to < pos'
    BY <2>1 DEF MapsOne, Fmmus
  <2>7. BytesCounted'
    <3>1. ASSUME NEW x \in Places, BitsOf(x) > 7, NEW f \in FmmusOf(x)'
          PROVE  f.to < 8 * (pos' \div 8)
      <4>1. CASE x = x0
        <5>1. pos' % 8 = 0
          BY <2>1, <3>1, <4>1 DEF MapsOne
        <5>2. 8 * (pos' \div 8) = pos'
          BY <2>5, <5>1, BytesType
        <5> QED BY <2>6, <4>1, <5>2
      <4>2. CASE x # x0
        <5>1. f \in FmmusOf(x)
          BY <2>1, <4>2 DEF MapsOne
        <5>2. f.to < 8 * (pos \div 8) /\ f.to \in Nat
          BY <1>0, <3>1, <5>1, FmmusType DEF BytesCounted
        <5>3. \A p, q, t \in Nat : p <= q /\ t < 8 * (p \div 8) => t < 8 * (q \div 8)
          OBVIOUS
        <5> QED BY <2>5, <5>2, <5>3
      <4> QED BY <4>1, <4>2
    <3> QED BY <2>4, <3>1 DEF BytesCounted
  <2>8. Bounded'
    <3>1. ASSUME Lost' = 0, NEW x \in Places, BitsOf(x) > 7, NEW f \in FmmusOf(x)', NEW g \in FmmusOf(x)',
                 NEW j \in 1 .. Len(closed')
          PROVE  ~ (f.from < 8 * UpTo(IOsegment', j) /\ 8 * UpTo(IOsegment', j) <= g.to)
      <4>1. CASE x = x0
        <5>1. UpTo(IOsegment', j) \in Nat /\ UpTo(IOsegment', j) <= Total(IOsegment)
          BY <1>0, <2>2, LostType DEF Extended
        <5>2. Total(IOsegment) <= pos \div 8 /\ Total(IOsegment) \in Nat
          BY <1>0, LostType DEF Tiled
        <5>3. 8 * (pos \div 8) <= pos /\ pos \div 8 \in Nat
          BY <2>5, BytesType
        <5>4. f.from \in Nat /\ pos <= f.from
          BY <2>6, <4>1
        <5> DEFINE a == UpTo(IOsegment', j)
                   b == Total(IOsegment)
                   c == pos \div 8
        <5>5. a \in Nat /\ b \in Nat /\ c \in Nat /\ a <= b /\ b <= c /\ 8 * c <= pos
          BY <5>1, <5>2, <5>3
        <5> HIDE DEF a, b, c
        <5>6. ~ (f.from < 8 * a)
          BY <2>5, <5>4, <5>5
        <5> QED BY <5>6 DEF a
      <4>2. CASE x # x0
        <5>1. FmmusOf(x)' = FmmusOf(x)
          BY <2>1, <4>2 DEF MapsOne
        <5>2. UNCHANGED slaves
          BY <2>1 DEF MapsOne
        <5> QED BY <1>0, <2>2, <2>4, <3>1, <5>1, <5>2, BoundedKept
      <4> QED BY <4>1, <4>2
    <3> QED BY <2>4, <3>1 DEF Bounded
  <2> QED BY <2>3, <2>7, <2>8 DEF SegmentInv
<1>2. CASE OutputsMapped \/ InputsMapped
  <2>1. RoundUp
    BY <1>2 DEF OutputsMapped, InputsMapped
  <2>2. pos \in Nat /\ pos' \in Nat /\ pos <= pos'
    <3>1. pos \in Nat
      BY <1>0 DEF TypeOK
    <3> QED BY <2>1, <3>1, RoundUpType
  <2>3. UNCHANGED <<pos, closed, segmentsize>> \/ Advance(pos')
    BY <2>1 DEF RoundUp, Advance
  <2>4. Extended
    BY <2>2, <2>3, AdvanceExtends
  <2>5. /\ \A x \in Places : FmmusOf(x)' = FmmusOf(x) /\ BitsOf(x)' = BitsOf(x)
        /\ UNCHANGED slaves
    BY <1>2 DEF OutputsMapped, InputsMapped, FmmusOf, BitsOf
  <2>6. Tiled'
    <3>1. CASE InputsMapped
      <4>1. UNCHANGED <<Isegment, Ioffset, Obytes>> /\ at # "outputs" /\ at' # "outputs"
        BY <3>1 DEF InputsMapped
      <4> QED BY <1>0, <2>4, <4>1, TiledKept
    <3>2. CASE OutputsMapped
      <4>1. Obytes' = pos' \div 8 /\ Isegment' = Len(closed') /\ Ioffset' = segmentsize'
        BY <3>2 DEF OutputsMapped
      <4>2. closed' \in Seq(Nat) /\ segmentsize' \in Nat
        BY DEF TypeOK
      <4>3. UpTo(IOsegment', Len(closed')) + segmentsize' = Total(IOsegment')
        BY <4>2, SumsOfSegments DEF IOsegment
      <4>4. Total(IOsegment') \in Nat /\ pos' \div 8 \in Nat /\ Lost' = pos' \div 8 - Total(IOsegment')
        <5>1. IOsegment' \in Seq(Nat) /\ Len(IOsegment') \in 0 .. Len(IOsegment')
          BY <4>2 DEF IOsegment
        <5> QED BY <2>2, <5>1, BytesType, SumsRise DEF Total, Lost
      <4>5. Lost' >= 0
        <5>1. Lost \in Int /\ Lost >= 0 /\ Lost <= Lost'
          BY <1>0, <2>4, LostType DEF Tiled, Extended
        <5>2. Lost' \in Int
          BY <4>4
        <5> QED BY <5>1, <5>2
      <4> DEFINE b == pos' \div 8
                 t == Total(IOsegment')
      <4>6. UpTo(IOsegment', Isegment') + Ioffset' = t /\ Obytes' = b
        BY <4>1, <4>3
      <4>7. t \in Nat /\ b \in Nat /\ Lost' = b - t
        BY <4>4
      <4> HIDE DEF b, t
      <4> QED BY <4>5, <4>6, <4>7 DEF Tiled
    <3> QED BY <1>2, <3>1, <3>2
  <2>7. BytesCounted'
    <3>1. ASSUME NEW x \in Places, BitsOf(x) > 7, NEW f \in FmmusOf(x)
          PROVE  f.to < 8 * (pos' \div 8)
      <4>1. f.to < 8 * (pos \div 8) /\ f.to \in Nat
        BY <1>0, <3>1, FmmusType DEF BytesCounted
      <4>2. \A p, q, t \in Nat : p <= q /\ t < 8 * (p \div 8) => t < 8 * (q \div 8)
        OBVIOUS
      <4> QED BY <2>2, <4>1, <4>2
    <3> QED BY <2>5, <3>1 DEF BytesCounted
  <2>8. Bounded'
    <3>1. ASSUME Lost' = 0, NEW x \in Places, BitsOf(x) > 7, NEW f \in FmmusOf(x), NEW g \in FmmusOf(x),
                 NEW j \in 1 .. Len(closed')
          PROVE  ~ (f.from < 8 * UpTo(IOsegment', j) /\ 8 * UpTo(IOsegment', j) <= g.to)
      BY <1>0, <2>4, <2>5, <3>1, BoundedKept
    <3> QED BY <2>5, <3>1 DEF Bounded
  <2> QED BY <2>6, <2>7, <2>8 DEF SegmentInv
<1>3. CASE Exchange \/ UNCHANGED vars
  <2>1. UNCHANGED <<slaves, pos, ofmmu, ifmmu, Obytes, closed, segmentsize, Isegment, Ioffset>>
    BY <1>3 DEF Exchange, Send, ReceiveFrame, NoFrame, Clear, vars, layout
  <2>2. at' = "outputs" <=> at = "outputs"
    BY <1>3 DEF Exchange, Send, ReceiveFrame, NoFrame, Clear, Received, vars
  <2>3. \A x \in Places : FmmusOf(x)' = FmmusOf(x) /\ BitsOf(x)' = BitsOf(x)
    BY <2>1 DEF FmmusOf, BitsOf
  <2>4. IOsegment' = IOsegment /\ Lost' = Lost
    BY <2>1 DEF IOsegment, Lost
  <2> QED BY <1>0, <2>1, <2>2, <2>3, <2>4 DEF SegmentInv, Tiled, BytesCounted, Bounded
<1> QED BY <1>1, <1>2, <1>3 DEF Next, Mapping

----------------------------------------------------------------------------
(* The datagrams.                                                           *)

\* A set of numbers that has all the smaller ones of each is 1 .. its cardinality.
LEMMA InitialPart ==
  ASSUME NEW n \in Nat, NEW U \in SUBSET (1 .. n), \A j, k \in 1 .. n : j <= k /\ k \in U => j \in U
  PROVE  /\ Cardinality(U) \in 0 .. n
         /\ \A k \in 1 .. n : k \in U <=> k <= Cardinality(U)
<1> DEFINE V == {k \in 1 .. n + 1 : k \notin U}
<1>1. V \in SUBSET Nat /\ V # {}
  <2>1. n + 1 \in V
    OBVIOUS
  <2> QED BY <2>1
<1>2. PICK m \in V : \A k \in V : m <= k
  <2> HIDE DEF V
  <2> QED BY <1>1, LeastOf
<1>3. m \in 1 .. n + 1 /\ m \notin U
  OBVIOUS
<1>4. \A k \in 1 .. n : k \in U <=> k <= m - 1
  <2> SUFFICES ASSUME NEW k \in 1 .. n
               PROVE  k \in U <=> k <= m - 1
    OBVIOUS
  <2>1. CASE k < m
    <3>1. k \notin V
      BY <1>2, <1>3, <2>1
    <3> QED BY <1>3, <2>1, <3>1
  <2>2. CASE m <= k
    <3>1. m \in 1 .. n
      BY <1>3, <2>2
    <3>2. k \notin U
      BY <1>3, <2>2, <3>1
    <3> QED BY <1>3, <2>2, <3>2
  <2> QED BY <1>3, <2>1, <2>2
<1> HIDE DEF V
<1>5. U = 1 .. m - 1
  <2>1. \A k : k \in U => k \in 1 .. m - 1
    BY <1>3, <1>4
  <2>2. \A k : k \in 1 .. m - 1 => k \in U
    BY <1>3, <1>4
  <2> QED BY <2>1, <2>2
<1>6. Cardinality(U) = m - 1
  <2>1. Cardinality(1 .. m - 1) = m - 1
    <3>1. 1 \in Int /\ m - 1 \in Int
      BY <1>3
    <3>2. Cardinality(1 .. m - 1) = IF 1 > m - 1 THEN 0 ELSE m - 1 - 1 + 1
      BY <3>1, FS_Interval
    <3> QED BY <1>3, <3>2
  <2> QED BY <1>5, <2>1
<1> QED BY <1>3, <1>4, <1>6

\* The segments that start before some byte are the first ones.
LEMMA FirstStarts ==
  ASSUME TypeInv, NEW bound \in Nat
  PROVE  LET n == Len(IOsegment)
             m == Cardinality({k \in 1 .. n : UpTo(IOsegment, k - 1) < bound})
         IN  m \in 0 .. n /\ \A k \in 1 .. n : UpTo(IOsegment, k - 1) < bound <=> k <= m
<1> DEFINE n == Len(IOsegment)
           s(k) == UpTo(IOsegment, k)
           used == {k \in 1 .. n : s(k - 1) < bound}
<1>1. /\ n \in Nat /\ \A k \in 0 .. n : s(k) \in Nat
      /\ \A j, k \in 0 .. n : j <= k => s(j) <= s(k)
  BY Starts
<1> HIDE DEF n, s
<1>2. \A j, k \in 1 .. n : j <= k /\ k \in used => j \in used
  <2> SUFFICES ASSUME NEW j \in 1 .. n, NEW k \in 1 .. n, j <= k, s(k - 1) < bound
               PROVE  s(j - 1) < bound
    OBVIOUS
  <2>1. j - 1 \in 0 .. n /\ k - 1 \in 0 .. n /\ j - 1 <= k - 1
    BY <1>1
  <2>2. s(j - 1) \in Nat /\ s(k - 1) \in Nat /\ s(j - 1) <= s(k - 1)
    BY <1>1, <2>1
  <2> QED BY <2>2
<1>3. used \in SUBSET (1 .. n)
  OBVIOUS
<1>4. Cardinality(used) \in 0 .. n /\ \A k \in 1 .. n : k \in used <=> k <= Cardinality(used)
  <2> HIDE DEF used
  <2> QED BY <1>1, <1>2, <1>3, InitialPart
<1>5. \A k \in 1 .. n : k \in used <=> s(k - 1) < bound
  OBVIOUS
<1>6. \A k \in 1 .. n : s(k - 1) < bound <=> k <= Cardinality(used)
  <2> HIDE DEF used
  <2> QED BY <1>4, <1>5
<1> QED BY <1>4, <1>6 DEF n, s

\* A byte of the segments is in one of them.
LEMMA OneSegment ==
  ASSUME TypeInv, NEW y \in Nat, y < Total(IOsegment)
  PROVE  LET n == Len(IOsegment)
         IN  \E k \in 1 .. n :
               /\ UpTo(IOsegment, k - 1) <= y /\ y < UpTo(IOsegment, k)
               /\ \A j \in 1 .. n : UpTo(IOsegment, j - 1) <= y /\ y < UpTo(IOsegment, j) => j = k
<1> DEFINE n == Len(IOsegment)
           s(k) == UpTo(IOsegment, k)
<1>1. /\ n \in Nat /\ \A k \in 0 .. n : s(k) \in Nat
      /\ \A j, k \in 0 .. n : j <= k => s(j) <= s(k)
  BY Starts
<1>2. y < s(n) /\ s(0) = 0
  <2>1. IOsegment \in Seq(Nat)
    <3>1. closed \in Seq(Nat) /\ segmentsize \in Nat
      BY DEF TypeInv, TypeOK
    <3> QED BY <3>1 DEF IOsegment
  <2> QED BY <2>1, SumsType DEF Total, UpTo
<1> HIDE DEF n, s
<1>3. PICK k \in 1 .. n : s(k - 1) <= y /\ y < s(k)
  <2> DEFINE f == [k \in 0 .. n |-> s(k)]
  <2>1. f \in [0 .. n -> Nat] /\ f[0] = 0 /\ y < f[n]
    BY <1>1, <1>2
  <2>2. \E k \in 1 .. n : f[k - 1] <= y /\ y < f[k]
    <3> HIDE DEF f
    <3> QED BY <1>1, <2>1, Between
  <2>3. \A k \in 1 .. n : f[k - 1] = s(k - 1) /\ f[k] = s(k)
    BY <1>1
  <2> HIDE DEF f
  <2> QED BY <2>2, <2>3
<1>4. ASSUME NEW j \in 1 .. n, s(j - 1) <= y, y < s(j)
      PROVE  j = k
  <2>1. k \in 0 .. n /\ k - 1 \in 0 .. n /\ j \in 0 .. n /\ j - 1 \in 0 .. n
    BY <1>1
  <2>2. /\ s(k) \in Nat /\ s(k - 1) \in Nat /\ s(j) \in Nat /\ s(j - 1) \in Nat
        /\ (j <= k - 1 => s(j) <= s(k - 1)) /\ (k <= j - 1 => s(k) <= s(j - 1))
    BY <1>1, <2>1
  <2>3. ~ (j <= k - 1) /\ ~ (k <= j - 1)
    BY <1>3, <1>4, <2>2
  <2> QED BY <2>1, <2>3
<1> QED BY <1>3, <1>4 DEF n, s

\* The first segment starts at 0.
LEMMA SegmentZero ==
  ASSUME TypeInv
  PROVE  UpTo(IOsegment, 0) = 0 /\ Total(IOsegment) \in Nat /\ Bytes \in Nat
<1>1. TypeOK /\ closed \in Seq(Nat) /\ segmentsize \in Nat
  BY DEF TypeInv, TypeOK
<1>2. IOsegment \in Seq(Nat)
  BY <1>1 DEF IOsegment
<1> QED BY <1>1, <1>2, SumsType, LostType DEF UpTo, Bytes

\* The datagrams of a sequence that carry a byte.
Carriers(D, y) == {k \in DOMAIN D : D[k].from <= y /\ y < D[k].to}

\* The datagrams of LRW are the segments that start before the end of the data.
LEMMA LRWShape ==
  ASSUME TypeInv, Bytes > 0
  PROVE  \E m \in 0 .. Len(IOsegment) :
           /\ DOMAIN LRW = 1 .. m
           /\ \A k \in 1 .. Len(IOsegment) : UpTo(IOsegment, k - 1) < Bytes <=> k <= m
           /\ \A k \in 1 .. m : LRW[k] = Datagram("LRW", UpTo(IOsegment, k - 1), UpTo(IOsegment, k))
<1> DEFINE n == Len(IOsegment)
           s(k) == UpTo(IOsegment, k)
           used == {k \in 1 .. n : k = 1 \/ s(k - 1) < Bytes}
           m == Cardinality(used)
<1>1. used = {k \in 1 .. n : s(k - 1) < Bytes}
  <2>1. s(1 - 1) < Bytes
    BY SegmentZero
  <2> QED BY <2>1
<1>2. m \in 0 .. n /\ \A k \in 1 .. n : s(k - 1) < Bytes <=> k <= m
  BY <1>1, FirstStarts, SegmentZero
<1>3. LRW = [k \in 1 .. m |-> Datagram("LRW", s(k - 1), s(k + 1 - 1))]
  BY DEF LRW
<1> HIDE DEF m
<1>4. \A k \in 1 .. m : k + 1 - 1 = k
  BY <1>2
<1>5. DOMAIN LRW = 1 .. m /\ \A k \in 1 .. m : LRW[k] = Datagram("LRW", s(k - 1), s(k))
  BY <1>3, <1>4
<1> QED BY <1>2, <1>5

\* Those of LWR are the segments that start before the end of the outputs, cut there.
LEMMA LWRShape ==
  ASSUME TypeInv
  PROVE  \E m \in 0 .. Len(IOsegment) :
           /\ DOMAIN LWR = 1 .. m
           /\ \A k \in 1 .. Len(IOsegment) : UpTo(IOsegment, k - 1) < Obytes <=> k <= m
           /\ \A k \in 1 .. m :
                LWR[k] = Datagram("LWR", UpTo(IOsegment, k - 1), Smaller(UpTo(IOsegment, k), Obytes))
<1> DEFINE n == Len(IOsegment)
           s(k) == UpTo(IOsegment, k)
           used == {k \in 1 .. n : s(k - 1) < Obytes}
           m == Cardinality(used)
<1>1. Obytes \in Nat
  BY DEF TypeInv, TypeOK
<1>2. m \in 0 .. n /\ \A k \in 1 .. n : s(k - 1) < Obytes <=> k <= m
  BY <1>1, FirstStarts
<1>3. LWR = [k \in 1 .. m |-> Datagram("LWR", s(k - 1), Smaller(s(k + 1 - 1), Obytes))]
  BY DEF LWR
<1> HIDE DEF m
<1>4. \A k \in 1 .. m : k + 1 - 1 = k
  BY <1>2
<1>5. DOMAIN LWR = 1 .. m /\ \A k \in 1 .. m : LWR[k] = Datagram("LWR", s(k - 1), Smaller(s(k), Obytes))
  BY <1>3, <1>4
<1> QED BY <1>2, <1>5

\* Those of LRD are the segments from the one with the end of the outputs on, the
\* first of them from there.
LEMMA LRDShape ==
  ASSUME TypeInv, Obytes = UpTo(IOsegment, Isegment) + Ioffset
  PROVE  LET m == Len(IOsegment) - Isegment
         IN  /\ m \in Nat /\ DOMAIN LRD = 1 .. m
             /\ \A k \in 1 .. m :
                  LRD[k] = Datagram("LRD", IF k = 1 THEN Obytes ELSE UpTo(IOsegment, Isegment + k - 1),
                                           UpTo(IOsegment, Isegment + k))
<1> DEFINE n == Len(IOsegment)
           m == n - Isegment
           first == UpTo(IOsegment, Isegment) + Ioffset
           start(k) == IF k = 1 THEN Obytes ELSE Obytes + UpTo(IOsegment, Isegment + k - 1) - first
<1>1. n \in Nat /\ Isegment \in 0 .. n /\ m \in Nat /\ Obytes \in Nat
  BY Starts, SegmentsType, SMTT(30) DEF TypeInv, TypeOK
<1>2. LRD = [k \in 1 .. m |-> Datagram("LRD", start(k), start(k + 1))]
  BY DEF LRD
<1>3. ASSUME NEW k \in 1 .. m + 1, k # 1
      PROVE  start(k) = UpTo(IOsegment, Isegment + k - 1)
  <2>1. Isegment + k - 1 \in 0 .. n
    <3> HIDE DEF n
    <3> QED BY <1>1
  <2>2. UpTo(IOsegment, Isegment + k - 1) \in Nat
    BY <2>1, Starts
  <2>3. start(k) = Obytes + UpTo(IOsegment, Isegment + k - 1) - first /\ first = Obytes
    BY <1>3
  <2> HIDE DEF first, start
  <2> QED BY <1>1, <2>2, <2>3
<1>4. ASSUME NEW k \in 1 .. m
      PROVE  /\ start(k) = IF k = 1 THEN Obytes ELSE UpTo(IOsegment, Isegment + k - 1)
             /\ start(k + 1) = UpTo(IOsegment, Isegment + k)
  <2>1. k \in 1 .. m + 1 /\ k + 1 \in 1 .. m + 1 /\ k + 1 # 1 /\ Isegment + (k + 1) - 1 = Isegment + k
    <3> HIDE DEF m
    <3> QED BY <1>1
  <2>2. start(k + 1) = UpTo(IOsegment, Isegment + (k + 1) - 1)
    BY <1>3, <2>1
  <2>3. k # 1 => start(k) = UpTo(IOsegment, Isegment + k - 1)
    BY <1>3, <2>1
  <2> QED BY <2>1, <2>2, <2>3
<1> HIDE DEF m, start
<1>5. DOMAIN LRD = 1 .. m
  BY <1>2
<1>6. ASSUME NEW k \in 1 .. m
      PROVE  LRD[k] = Datagram("LRD", IF k = 1 THEN Obytes ELSE UpTo(IOsegment, Isegment + k - 1),
                                      UpTo(IOsegment, Isegment + k))
  BY <1>2, <1>4
<1> QED BY <1>1, <1>5, <1>6 DEF m

\* A datagram that carries a byte and shares it with none is the only carrier.
LEMMA JustOne ==
  ASSUME NEW D, NEW y, NEW k \in DOMAIN D, D[k].from <= y, y < D[k].to,
         \A i \in DOMAIN D : D[i].from <= y /\ y < D[i].to => i = k
  PROVE  \E i \in DOMAIN D : Carriers(D, y) = {i}
<1>1. Carriers(D, y) = {k}
  BY DEF Carriers
<1> QED BY <1>1

\* Every byte is in one datagram of LRW.
LEMMA LRWCarries ==
  ASSUME TypeInv, Total(IOsegment) = Bytes, NEW y \in Nat, y < Bytes
  PROVE  \E k \in DOMAIN LRW : Carriers(LRW, y) = {k}
<1> DEFINE n == Len(IOsegment)
           s(k) == UpTo(IOsegment, k)
<1>1. n \in Nat /\ (\A k \in 0 .. n : s(k) \in Nat) /\ Bytes \in Nat /\ Bytes > 0
  BY Starts, SegmentZero
<1>2. PICK k \in 1 .. n : /\ s(k - 1) <= y /\ y < s(k)
                          /\ \A j \in 1 .. n : s(j - 1) <= y /\ y < s(j) => j = k
  BY OneSegment
<1>3. PICK m \in 0 .. n :
        /\ DOMAIN LRW = 1 .. m
        /\ \A i \in 1 .. n : s(i - 1) < Bytes <=> i <= m
        /\ \A i \in 1 .. m : LRW[i] = Datagram("LRW", s(i - 1), s(i))
  BY <1>1, LRWShape
<1> HIDE DEF n, s
<1>4. k \in 1 .. m
  <2>1. k - 1 \in 0 .. n
    BY <1>1
  <2>2. s(k - 1) < Bytes
    BY <1>1, <1>2, <2>1
  <2> QED BY <1>1, <1>3, <2>2
<1>5. \A i \in 1 .. m : LRW[i].from = s(i - 1) /\ LRW[i].to = s(i) /\ i \in 1 .. n
  BY <1>1, <1>3 DEF Datagram
<1>6. /\ k \in DOMAIN LRW /\ LRW[k].from <= y /\ y < LRW[k].to
      /\ \A i \in DOMAIN LRW : LRW[i].from <= y /\ y < LRW[i].to => i = k
  BY <1>2, <1>3, <1>4, <1>5
<1> QED BY <1>6, JustOne

\* Every byte of the outputs is in one datagram of LWR.
LEMMA LWRCarries ==
  ASSUME TypeInv, NEW y \in Nat, y < Obytes, Obytes <= Total(IOsegment)
  PROVE  \E k \in DOMAIN LWR : Carriers(LWR, y) = {k}
<1> DEFINE n == Len(IOsegment)
           s(k) == UpTo(IOsegment, k)
<1>1. n \in Nat /\ (\A k \in 0 .. n : s(k) \in Nat) /\ Obytes \in Nat /\ y < Total(IOsegment)
  BY Starts, SegmentZero, SMTT(30) DEF TypeInv, TypeOK
<1>2. PICK k \in 1 .. n : /\ s(k - 1) <= y /\ y < s(k)
                          /\ \A j \in 1 .. n : s(j - 1) <= y /\ y < s(j) => j = k
  BY <1>1, OneSegment
<1>3. PICK m \in 0 .. n :
        /\ DOMAIN LWR = 1 .. m
        /\ \A i \in 1 .. n : s(i - 1) < Obytes <=> i <= m
        /\ \A i \in 1 .. m : LWR[i] = Datagram("LWR", s(i - 1), Smaller(s(i), Obytes))
  BY <1>1, LWRShape
<1> HIDE DEF n, s
<1>4. k \in 1 .. m
  <2>1. k - 1 \in 0 .. n
    BY <1>1
  <2>2. s(k - 1) < Obytes
    BY <1>1, <1>2, <2>1
  <2> QED BY <1>1, <1>3, <2>2
<1>5. ASSUME NEW i \in 1 .. m
      PROVE  LWR[i].from = s(i - 1) /\ (y < LWR[i].to <=> y < s(i)) /\ i \in 1 .. n
  <2>1. LWR[i].from = s(i - 1) /\ LWR[i].to = Smaller(s(i), Obytes) /\ i \in 0 .. n /\ i \in 1 .. n
    BY <1>1, <1>3 DEF Datagram
  <2>2. s(i) \in Nat
    BY <1>1, <2>1
  <2>3. y < Smaller(s(i), Obytes) <=> y < s(i)
    BY <1>1, <2>2 DEF Smaller
  <2> QED BY <2>1, <2>3
<1>6. /\ k \in DOMAIN LWR /\ LWR[k].from <= y /\ y < LWR[k].to
      /\ \A i \in DOMAIN LWR : LWR[i].from <= y /\ y < LWR[i].to => i = k
  BY <1>2, <1>3, <1>4, <1>5
<1> QED BY <1>6, JustOne

\* Every byte of the inputs is in one datagram of LRD.
LEMMA LRDCarries ==
  ASSUME TypeInv, Obytes = UpTo(IOsegment, Isegment) + Ioffset,
         NEW y \in Nat, Obytes <= y, y < Total(IOsegment)
  PROVE  \E k \in DOMAIN LRD : Carriers(LRD, y) = {k}
<1> DEFINE n == Len(IOsegment)
           s(k) == UpTo(IOsegment, k)
           m == n - Isegment
<1>1. /\ n \in Nat /\ \A k \in 0 .. n : s(k) \in Nat
      /\ \A j, k \in 0 .. n : j <= k => s(j) <= s(k)
      /\ Obytes \in Nat /\ Ioffset \in Nat /\ Isegment \in 0 .. n
  <2>1. Obytes \in Nat /\ Ioffset \in Nat
    BY DEF TypeInv, TypeOK
  <2>2. TypeOK /\ closed \in Seq(Nat) /\ Isegment \in 0 .. Len(closed)
    BY DEF TypeInv, TypeOK
  <2>3. Isegment \in 0 .. n
    BY <2>2, SegmentsType
  <2> QED BY <2>1, <2>3, Starts
<1>2. PICK k \in 1 .. n : /\ s(k - 1) <= y /\ y < s(k)
                          /\ \A j \in 1 .. n : s(j - 1) <= y /\ y < s(j) => j = k
  BY OneSegment
<1>3. /\ m \in Nat /\ DOMAIN LRD = 1 .. m
      /\ \A i \in 1 .. m : LRD[i] = Datagram("LRD", IF i = 1 THEN Obytes ELSE s(Isegment + i - 1), s(Isegment + i))
  BY LRDShape
<1>4. s(Isegment) <= Obytes /\ Obytes = s(Isegment) + Ioffset
  BY <1>1
<1> HIDE DEF n, s
<1>5. k > Isegment
  <2>1. SUFFICES ASSUME k <= Isegment
                 PROVE  FALSE
    BY <1>1
  <2>2. k \in 0 .. n /\ s(k) <= s(Isegment) /\ s(k) \in Nat /\ s(Isegment) \in Nat
    BY <1>1, <2>1
  <2> QED BY <1>1, <1>2, <1>4, <2>2
<1> DEFINE q == k - Isegment
<1>6. q \in 1 .. m /\ Isegment + q = k
  BY <1>1, <1>5
<1>7. ASSUME NEW i \in 1 .. m
      PROVE  /\ LRD[i].to = s(Isegment + i) /\ Isegment + i \in 1 .. n
             /\ (LRD[i].from <= y <=> s(Isegment + i - 1) <= y)
  <2>1. /\ LRD[i].to = s(Isegment + i)
        /\ LRD[i].from = IF i = 1 THEN Obytes ELSE s(Isegment + i - 1)
    BY <1>3 DEF Datagram
  <2>2. Isegment + i \in 1 .. n
    BY <1>1
  <2>3. CASE i = 1
    <3>1. Isegment + i - 1 = Isegment /\ LRD[i].from = Obytes
      BY <1>1, <2>1, <2>3
    <3>2. s(Isegment) \in Nat
      BY <1>1
    <3>3. s(Isegment) <= y
      BY <1>1, <1>4, <3>2
    <3> QED BY <2>1, <2>2, <3>1, <3>3
  <2>4. CASE i # 1
    BY <2>1, <2>2, <2>4
  <2> QED BY <2>3, <2>4
<1>8. q \in DOMAIN LRD /\ LRD[q].from <= y /\ y < LRD[q].to
  <2>1. LRD[q].to = s(Isegment + q) /\ (LRD[q].from <= y <=> s(Isegment + q - 1) <= y)
    BY <1>6, <1>7
  <2>2. Isegment + q - 1 = k - 1 /\ s(Isegment + q) = s(k)
    <3>1. Isegment + q = k
      BY <1>6
    <3>2. q \in Int /\ Isegment \in Int
      BY <1>1
    <3> HIDE DEF q
    <3> QED BY <3>1, <3>2
  <2>3. s(Isegment + q - 1) = s(k - 1)
    BY <2>2
  <2> HIDE DEF q
  <2> QED BY <1>2, <1>3, <1>6, <2>1, <2>2, <2>3
<1>9. ASSUME NEW i \in DOMAIN LRD, LRD[i].from <= y, y < LRD[i].to
      PROVE  i = q
  <2>1. i \in 1 .. m
    BY <1>3
  <2>2. s(Isegment + i - 1) <= y /\ y < s(Isegment + i) /\ Isegment + i \in 1 .. n
    BY <1>7, <1>9, <2>1
  <2>3. Isegment + i = k
    <3> DEFINE j == Isegment + i
    <3>1. j \in 1 .. n /\ s(j - 1) <= y /\ y < s(j)
      <4> HIDE DEF m
      <4>1. i \in Nat /\ Isegment \in Nat
        BY <1>1, <1>3, <2>1
      <4> QED BY <2>2, <4>1
    <3> HIDE DEF j
    <3>2. j = k
      BY <1>2, <3>1
    <3> QED BY <3>2 DEF j
  <2> HIDE DEF m
  <2> QED BY <1>1, <2>1, <2>3
<1> HIDE DEF q
<1> QED BY <1>8, <1>9, JustOne

\* The commands of the datagrams.
LEMMA CommandsOf ==
  ASSUME TypeInv
  PROVE  /\ \A k \in DOMAIN LRW : Bytes > 0 => LRW[k].cmd = "LRW"
         /\ \A k \in DOMAIN LWR : LWR[k].cmd = "LWR"
         /\ \A k \in DOMAIN LRD : LRD[k].cmd = "LRD"
BY DEF LRW, LWR, LRD, Datagram

\* What is true of the layout when no segment was missing.
LEMMA Complete ==
  ASSUME TypeInv, LayoutInv, SegmentInv, Mapped, SegmentsSuffice
  PROVE  /\ Lost = 0 /\ Total(IOsegment) = Bytes /\ Bytes \in Nat /\ Obytes \in Nat /\ Obytes <= Bytes
         /\ Obytes = UpTo(IOsegment, Isegment) + Ioffset
<1>1. TypeOK /\ Total(IOsegment) = Bytes /\ Bytes = pos \div 8 /\ at # "outputs"
  BY DEF TypeInv, SegmentsSuffice, Bytes, Mapped
<1>2. Total(IOsegment) \in Nat /\ UpTo(IOsegment, Isegment) \in Nat /\ pos \in Nat /\ Obytes \in Nat /\ Ioffset \in Nat
  BY <1>1, LostType DEF TypeOK
<1>3. Lost = 0
  BY <1>1, <1>2 DEF Lost
<1>4. UpTo(IOsegment, Isegment) + Ioffset <= Obytes /\ Obytes - (UpTo(IOsegment, Isegment) + Ioffset) <= Lost
  BY <1>1 DEF SegmentInv, Tiled
<1>5. Obytes = UpTo(IOsegment, Isegment) + Ioffset
  <2> DEFINE u == UpTo(IOsegment, Isegment)
  <2>1. u \in Nat /\ u + Ioffset <= Obytes /\ Obytes - (u + Ioffset) <= 0
    BY <1>2, <1>3, <1>4
  <2> HIDE DEF u
  <2>2. Obytes = u + Ioffset
    BY <1>2, <2>1
  <2> QED BY <2>2 DEF u
<1>6. Obytes <= Bytes
  <2>1. 8 * Obytes <= pos
    BY <1>1 DEF LayoutInv, OutputsFirst
  <2>2. pos < 8 * (pos \div 8) + 8 /\ pos \div 8 \in Nat
    BY <1>2, BytesType
  <2> QED BY <1>1, <1>2, <2>1, <2>2
<1> QED BY <1>1, <1>2, <1>3, <1>5, <1>6

----------------------------------------------------------------------------
(* Every byte is carried once.                                              *)

\* Bits and bytes compare alike.
LEMMA ByteOf ==
  ASSUME NEW b \in Nat, NEW n \in Nat
  PROVE  /\ (b >= 8 * n <=> n <= b \div 8)
         /\ (b < 8 * n <=> b \div 8 < n)
OBVIOUS

\* The places of the datagrams are whole numbers.
LEMMA SentTyped ==
  ASSUME TypeInv, NEW k \in DOMAIN Sent
  PROVE  Sent[k].from \in Nat /\ Sent[k].to \in Nat
<1>1. Sent \in Seq(Datagrams)
  BY SentType
<1>2. Sent[k] \in Datagrams
  BY <1>1
<1> QED BY <1>2 DEF Datagrams

\* The datagrams of an exchange that carry a byte with one of some commands.
AllOf(D, C) == \A k \in DOMAIN D : D[k].cmd \in C
\* None has one of the commands.
NoneOf(D, C) == \A k \in DOMAIN D : D[k].cmd \notin C
\* One of them carries the byte.
OneCarries(D, y) == \E k \in DOMAIN D : Carriers(D, y) = {k}
\* The datagrams sent that carry the byte with one of the commands.
Carrying(C, y) == {k \in DOMAIN Sent : Sent[k].cmd \in C /\ Sent[k].from <= y /\ y < Sent[k].to}

\* There is one.
OneHas(C, y) == \E i : Carrying(C, y) = {i}

\* The datagrams of an exchange are those of two commands.
TwoParts(A, B) == A \in Seq(Datagrams) /\ B \in Seq(Datagrams) /\ Sent = A \o B

\* One datagram carries the byte if one of the first part does and none of the
\* second has the command.
LEMMA FirstCarries ==
  ASSUME NEW A, NEW B, TwoParts(A, B), NEW y, NEW C,
         AllOf(A, C), NoneOf(B, C), OneCarries(A, y)
  PROVE  OneHas(C, y)
<1> DEFINE m == Len(A)
           n == Len(B)
           S == Carrying(C, y)
<1> USE DEF Carrying, AllOf, NoneOf, OneCarries, TwoParts
<1>1. /\ m \in Nat /\ n \in Nat /\ DOMAIN A = 1 .. m /\ DOMAIN B = 1 .. n /\ DOMAIN Sent = 1 .. m + n
      /\ \A k \in 1 .. m : Sent[k] = A[k]
      /\ \A k \in 1 .. n : Sent[m + k] = B[k]
  OBVIOUS
<1>2. PICK i \in 1 .. m : Carriers(A, y) = {i}
  BY <1>1
<1>3. A[i].from <= y /\ y < A[i].to /\ \A k \in 1 .. m : A[k].from <= y /\ y < A[k].to => k = i
  BY <1>1, <1>2 DEF Carriers
<1>4. i \in S
  <2> HIDE DEF m, n
  <2>1. i \in 1 .. m + n /\ Sent[i] = A[i]
    BY <1>1
  <2> QED BY <1>1, <1>3, <2>1
<1>5. ASSUME NEW k \in S
      PROVE  k = i
  <2> HIDE DEF m, n
  <2>1. CASE k <= m
    <3>1. k \in 1 .. m /\ Sent[k] = A[k]
      BY <1>1, <2>1
    <3> QED BY <1>3, <3>1
  <2>2. CASE ~ (k <= m)
    <3>1. k - m \in 1 .. n /\ m + (k - m) = k
      BY <1>1, <2>2
    <3>2. Sent[k] = B[k - m]
      BY <1>1, <3>1
    <3> QED BY <1>1, <3>1, <3>2
  <2> QED BY <2>1, <2>2
<1> HIDE DEF S
<1>6. S = {i}
  BY <1>4, <1>5
<1> QED BY <1>6 DEF S, OneHas

\* The same, the other way round.
LEMMA SecondCarries ==
  ASSUME NEW A, NEW B, TwoParts(A, B), NEW y, NEW C,
         NoneOf(A, C), AllOf(B, C), OneCarries(B, y)
  PROVE  OneHas(C, y)
<1> DEFINE m == Len(A)
           n == Len(B)
           S == Carrying(C, y)
<1> USE DEF Carrying, AllOf, NoneOf, OneCarries, TwoParts
<1>1. /\ m \in Nat /\ n \in Nat /\ DOMAIN A = 1 .. m /\ DOMAIN B = 1 .. n /\ DOMAIN Sent = 1 .. m + n
      /\ \A k \in 1 .. m : Sent[k] = A[k]
      /\ \A k \in 1 .. n : Sent[m + k] = B[k]
  OBVIOUS
<1>2. PICK i \in 1 .. n : Carriers(B, y) = {i}
  BY <1>1
<1>3. B[i].from <= y /\ y < B[i].to /\ \A k \in 1 .. n : B[k].from <= y /\ y < B[k].to => k = i
  BY <1>1, <1>2 DEF Carriers
<1>4. m + i \in S
  <2> HIDE DEF m, n
  <2>1. m + i \in 1 .. m + n /\ Sent[m + i] = B[i]
    BY <1>1
  <2> QED BY <1>1, <1>3, <2>1
<1>5. ASSUME NEW k \in S
      PROVE  k = m + i
  <2> HIDE DEF m, n
  <2>1. CASE k <= m
    <3>1. k \in 1 .. m /\ Sent[k] = A[k]
      BY <1>1, <2>1
    <3> QED BY <1>1, <3>1
  <2>2. CASE ~ (k <= m)
    <3>1. k - m \in 1 .. n /\ m + (k - m) = k
      BY <1>1, <2>2
    <3>2. Sent[k] = B[k - m]
      BY <1>1, <3>1
    <3>3. k - m = i
      BY <1>3, <3>1, <3>2
    <3> QED BY <1>1, <3>1, <3>3
  <2> QED BY <2>1, <2>2
<1> HIDE DEF S
<1>6. S = {m + i}
  BY <1>4, <1>5
<1> QED BY <1>6 DEF S, OneHas

\* A byte of a slave is carried by one datagram with the commands for it.
LEMMA ByteCarried ==
  ASSUME TypeInv, LayoutInv, SegmentInv, Mapped, SegmentsSuffice, NEW x \in Places, NEW y \in Nat,
         IF x[2] = "out" THEN y < Obytes ELSE Obytes <= y /\ y < Bytes
  PROVE  OneHas(Commands(x), y)
<1>1. /\ Total(IOsegment) = Bytes /\ Bytes \in Nat /\ Obytes \in Nat /\ Obytes <= Bytes
      /\ Obytes = UpTo(IOsegment, Isegment) + Ioffset
  BY Complete
<1>2. y < Bytes /\ Bytes > 0
  BY <1>1
<1>3. /\ LRW \in Seq(Datagrams) /\ LRD \in Seq(Datagrams) /\ LWR \in Seq(Datagrams)
      /\ <<>> \in Seq(Datagrams) /\ DOMAIN <<>> = {}
  <2>1. LRW \in Seq(Datagrams) /\ LRD \in Seq(Datagrams) /\ LWR \in Seq(Datagrams)
    BY LRWType, LRDType, LWRType
  <2> QED BY <2>1
<1>4. \A s \in Seq(Datagrams) : s \o <<>> = s /\ <<>> \o s = s
  BY ConcatEmptySeq
<1>5. x[2] = "out" => Commands(x) = {"LRW", "LWR"}
  BY DEF Commands
<1>6. x[2] # "out" => Commands(x) = {"LRW", "LRD"}
  BY DEF Commands
<1>7. CASE ~ blockLRW
  <2>1. Sent = LRW /\ Sent = LRW \o <<>>
    BY <1>2, <1>3, <1>4, <1>7 DEF Sent
  <2>2. OneCarries(LRW, y)
    BY <1>1, <1>2, LRWCarries DEF OneCarries
  <2>3. AllOf(LRW, Commands(x))
    BY <1>2, <1>5, <1>6, CommandsOf DEF AllOf
  <2>4. NoneOf(<<>>, Commands(x))
    BY <1>3 DEF NoneOf
  <2> DEFINE E == <<>>
             C == Commands(x)
  <2>5. TwoParts(LRW, E)
    BY <1>3, <2>1 DEF TwoParts
  <2>6. AllOf(LRW, C) /\ NoneOf(E, C)
    BY <2>3, <2>4
  <2> HIDE DEF E, C
  <2>7. OneHas(C, y)
    BY <2>2, <2>5, <2>6, FirstCarries, Zenon
  <2> QED BY <2>7 DEF C
<1>8. CASE blockLRW
  <2> DEFINE A == IF Obytes < Bytes THEN LRD ELSE <<>>
             B == IF Obytes > 0 THEN LWR ELSE <<>>
  <2>1. Sent = A \o B /\ A \in Seq(Datagrams) /\ B \in Seq(Datagrams)
    <3>1. Bytes # 0
      BY <1>1, <1>2
    <3>2. Sent = A \o B
      BY <1>8, <3>1, Zenon DEF Sent
    <3>3. A \in Seq(Datagrams) /\ B \in Seq(Datagrams)
      BY <1>3
    <3> QED BY <3>2, <3>3
  <2>2. (\A k \in DOMAIN A : A[k].cmd = "LRD") /\ (\A k \in DOMAIN B : B[k].cmd = "LWR")
    BY <1>3, CommandsOf
  <2>3. CASE x[2] = "out"
    <3>1. OneCarries(B, y)
      <4>1. B = LWR
        BY <1>1, <2>3
      <4> QED BY <1>1, <2>3, <4>1, LWRCarries DEF OneCarries
    <3>2. NoneOf(A, Commands(x)) /\ AllOf(B, Commands(x))
      BY <1>5, <2>2, <2>3 DEF NoneOf, AllOf
    <3> DEFINE C == Commands(x)
    <3>3. TwoParts(A, B) /\ NoneOf(A, C) /\ AllOf(B, C)
      BY <2>1, <3>2 DEF TwoParts
    <3> HIDE DEF A, B, C
    <3>4. OneHas(C, y)
      BY <3>1, <3>3, SecondCarries, Zenon
    <3> QED BY <3>4 DEF C
  <2>4. CASE x[2] # "out"
    <3>1. OneCarries(A, y)
      <4>1. A = LRD
        BY <1>1, <2>4
      <4> QED BY <1>1, <2>4, <4>1, LRDCarries DEF OneCarries
    <3>2. AllOf(A, Commands(x)) /\ NoneOf(B, Commands(x))
      BY <1>6, <2>2, <2>4 DEF NoneOf, AllOf
    <3> DEFINE C == Commands(x)
    <3>3. TwoParts(A, B) /\ AllOf(A, C) /\ NoneOf(B, C)
      BY <2>1, <3>2 DEF TwoParts
    <3> HIDE DEF A, B, C
    <3>4. OneHas(C, y)
      BY <3>1, <3>3, FirstCarries, Zenon
    <3> QED BY <3>4 DEF C
  <2> QED BY <2>3, <2>4
<1> QED BY <1>7, <1>8

\* The invariants imply CarriedOnce.
LEMMA CarriedOnceHolds ==
  ASSUME TypeInv, LayoutInv, SegmentInv
  PROVE  CarriedOnce
<1> SUFFICES ASSUME Mapped, SegmentsSuffice, NEW x \in Places, NEW f \in FmmusOf(x), NEW b \in f.from .. f.to
             PROVE  Cardinality({k \in DOMAIN Sent : Sent[k].cmd \in Commands(x)
                                   /\ b >= 8 * Sent[k].from /\ b < 8 * Sent[k].to}) = 1
  BY DEF CarriedOnce
<1> DEFINE y == b \div 8
<1>1. FmmusFit /\ f.from \in Nat /\ f.to \in Nat /\ b \in Nat /\ f.from <= b /\ b <= f.to
  BY LayoutInvSays, FmmusType DEF TypeInv
<1>2. Bytes \in Nat /\ Obytes \in Nat /\ x[2] \in {"out", "in"}
  BY Complete DEF Places
<1>3. /\ f.from >= (IF x[2] = "in" THEN 8 * Obytes ELSE 0)
      /\ f.to < (IF x[2] = "in" THEN 8 * Bytes ELSE 8 * Obytes)
  BY <1>1 DEF FmmusFit, AllMapped
<1>4. y \in Nat /\ IF x[2] = "out" THEN y < Obytes ELSE Obytes <= y /\ y < Bytes
  <2>1. y \in Nat
    BY <1>1, BytesType
  <2>2. CASE x[2] = "out"
    <3>1. b < 8 * Obytes
      BY <1>1, <1>2, <1>3, <2>2
    <3> QED BY <1>1, <1>2, <2>1, <2>2, <3>1, ByteOf
  <2>3. CASE x[2] = "in"
    <3>1. b >= 8 * Obytes /\ b < 8 * Bytes
      BY <1>1, <1>2, <1>3, <2>3
    <3> QED BY <1>1, <1>2, <2>1, <2>3, <3>1, ByteOf
  <2> QED BY <1>2, <2>2, <2>3
<1>5. \A k \in DOMAIN Sent : /\ (b >= 8 * Sent[k].from <=> Sent[k].from <= y)
                             /\ (b < 8 * Sent[k].to <=> y < Sent[k].to)
  BY <1>1, SentTyped, ByteOf
<1> HIDE DEF y
<1>6. PICK i : Carrying(Commands(x), y) = {i}
  BY <1>4, ByteCarried DEF OneHas
<1>7. {k \in DOMAIN Sent : Sent[k].cmd \in Commands(x) /\ b >= 8 * Sent[k].from /\ b < 8 * Sent[k].to} = {i}
  BY <1>5, <1>6 DEF Carrying
<1> QED BY <1>7, FS_Singleton

----------------------------------------------------------------------------
(* No datagram ends inside a byte oriented slave.                           *)

\* The places where a datagram can end: those of the segments, and the one
\* behind the outputs for LWR.
Ends == {UpTo(IOsegment, k) : k \in 1 .. Len(IOsegment)}
\* A datagram ends where a segment does, or LWR with the outputs.
EndsWell(d) == d.to \in Ends \/ (d.cmd = "LWR" /\ d.to = Obytes)
\* All of a sequence do.
AllEndWell(D) == \A k \in DOMAIN D : EndsWell(D[k])

\* Both parts of an exchange end well, so all of it does.
LEMMA EndsJoined ==
  ASSUME NEW A, NEW B, TwoParts(A, B), AllEndWell(A), AllEndWell(B)
  PROVE  AllEndWell(Sent)
<1> DEFINE m == Len(A)
           n == Len(B)
<1>1. /\ m \in Nat /\ n \in Nat /\ DOMAIN A = 1 .. m /\ DOMAIN B = 1 .. n /\ DOMAIN Sent = 1 .. m + n
      /\ \A k \in 1 .. m : Sent[k] = A[k]
      /\ \A k \in 1 .. n : Sent[m + k] = B[k]
  BY DEF TwoParts
<1> HIDE DEF m, n
<1>2. ASSUME NEW k \in DOMAIN Sent
      PROVE  EndsWell(Sent[k])
  <2>1. CASE k <= m
    <3>1. k \in 1 .. m /\ Sent[k] = A[k]
      BY <1>1, <2>1
    <3> QED BY <1>1, <3>1 DEF AllEndWell
  <2>2. CASE ~ (k <= m)
    <3>1. k - m \in 1 .. n /\ m + (k - m) = k
      BY <1>1, <2>2
    <3>2. Sent[k] = B[k - m]
      BY <1>1, <3>1
    <3> QED BY <1>1, <3>1, <3>2 DEF AllEndWell
  <2> QED BY <2>1, <2>2
<1> QED BY <1>2 DEF AllEndWell

\* The datagrams of LRW end well.
LEMMA LRWEnds ==
  ASSUME TypeInv, Bytes > 0
  PROVE  AllEndWell(LRW)
<1>1. PICK m \in 0 .. Len(IOsegment) :
        /\ DOMAIN LRW = 1 .. m
        /\ \A k \in 1 .. m : LRW[k] = Datagram("LRW", UpTo(IOsegment, k - 1), UpTo(IOsegment, k))
  BY LRWShape
<1>2. \A k \in 1 .. m : LRW[k].to = UpTo(IOsegment, k) /\ k \in 1 .. Len(IOsegment)
  BY <1>1 DEF Datagram
<1> QED BY <1>1, <1>2 DEF AllEndWell, EndsWell, Ends

\* The datagrams of LWR end well.
LEMMA LWREnds ==
  ASSUME TypeInv
  PROVE  AllEndWell(LWR)
<1>1. PICK m \in 0 .. Len(IOsegment) :
        /\ DOMAIN LWR = 1 .. m
        /\ \A k \in 1 .. m :
             LWR[k] = Datagram("LWR", UpTo(IOsegment, k - 1), Smaller(UpTo(IOsegment, k), Obytes))
  BY LWRShape
<1>2. ASSUME NEW k \in 1 .. m
      PROVE  EndsWell(LWR[k])
  <2>1. LWR[k].cmd = "LWR" /\ LWR[k].to = Smaller(UpTo(IOsegment, k), Obytes) /\ k \in 1 .. Len(IOsegment)
    BY <1>1 DEF Datagram
  <2>2. LWR[k].to = UpTo(IOsegment, k) \/ LWR[k].to = Obytes
    BY <2>1 DEF Smaller
  <2> QED BY <2>1, <2>2 DEF EndsWell, Ends
<1> QED BY <1>1, <1>2 DEF AllEndWell

\* The datagrams of LRD end well.
LEMMA LRDEnds ==
  ASSUME TypeInv, Obytes = UpTo(IOsegment, Isegment) + Ioffset
  PROVE  AllEndWell(LRD)
<1> DEFINE m == Len(IOsegment) - Isegment
<1>1. /\ m \in Nat /\ DOMAIN LRD = 1 .. m
      /\ \A k \in 1 .. m : LRD[k].to = UpTo(IOsegment, Isegment + k)
  BY LRDShape DEF Datagram
<1>2. Len(IOsegment) \in Nat /\ Isegment \in Nat
  BY Starts, SegmentsType DEF TypeInv, TypeOK
<1>3. \A k \in 1 .. m : Isegment + k \in 1 .. Len(IOsegment)
  BY <1>2
<1> HIDE DEF m
<1> QED BY <1>1, <1>3 DEF AllEndWell, EndsWell, Ends

\* Everything sent ends well.
LEMMA SentEnds ==
  ASSUME TypeInv, LayoutInv, SegmentInv, Mapped, SegmentsSuffice
  PROVE  AllEndWell(Sent)
<1>1. /\ Bytes \in Nat /\ Obytes \in Nat /\ Obytes <= Bytes
      /\ Obytes = UpTo(IOsegment, Isegment) + Ioffset
  BY Complete
<1>2. /\ LRD \in Seq(Datagrams) /\ LWR \in Seq(Datagrams)
      /\ <<>> \in Seq(Datagrams) /\ DOMAIN <<>> = {}
  <2>1. LRD \in Seq(Datagrams) /\ LWR \in Seq(Datagrams)
    BY LRDType, LWRType
  <2> QED BY <2>1
<1>3. AllEndWell(<<>>)
  BY <1>2 DEF AllEndWell
<1>4. CASE Bytes = 0
  BY <1>3, <1>4 DEF Sent
<1>5. CASE Bytes # 0 /\ ~ blockLRW
  BY <1>1, <1>5, LRWEnds DEF Sent
<1>6. CASE Bytes # 0 /\ blockLRW
  <2> DEFINE A == IF Obytes < Bytes THEN LRD ELSE <<>>
             B == IF Obytes > 0 THEN LWR ELSE <<>>
  <2>1. Sent = A \o B
    BY <1>6, Zenon DEF Sent
  <2>2. A \in Seq(Datagrams) /\ B \in Seq(Datagrams)
    BY <1>2
  <2>3. AllEndWell(A) /\ AllEndWell(B)
    <3>1. AllEndWell(LRD) /\ AllEndWell(LWR)
      BY <1>1, LRDEnds, LWREnds
    <3> QED BY <1>3, <3>1
  <2> HIDE DEF A, B
  <2>4. TwoParts(A, B)
    BY <2>1, <2>2 DEF TwoParts
  <2> QED BY <2>3, <2>4, EndsJoined, Zenon
<1> QED BY <1>4, <1>5, <1>6

\* No segment ends inside a byte oriented slave.
LEMMA SegmentsEndOutside ==
  ASSUME TypeInv, LayoutInv, SegmentInv, Mapped, SegmentsSuffice, NEW x \in Places, BitsOf(x) > 7,
         NEW f \in FmmusOf(x), NEW g \in FmmusOf(x), NEW e \in Ends
  PROVE  ~ (f.from < 8 * e /\ g.to >= 8 * e)
<1>1. PICK k \in 1 .. Len(IOsegment) : e = UpTo(IOsegment, k)
  BY DEF Ends
<1>2. TypeOK /\ closed \in Seq(Nat) /\ Len(IOsegment) = Len(closed) + 1 /\ Len(closed) \in Nat
  BY SegmentsType, SMTT(30) DEF TypeInv, TypeOK
<1>3. f.from \in Nat /\ f.to \in Nat /\ g.from \in Nat /\ g.to \in Nat
  BY <1>2, FmmusType
<1>4. CASE k \in 1 .. Len(closed)
  <2>1. ~ (f.from < 8 * e /\ 8 * e <= g.to)
    BY <1>1, <1>4, Complete DEF SegmentInv, Bounded
  <2>2. e \in Nat
    BY <1>1, <1>2, <1>4, LostType
  <2> QED BY <1>3, <2>1, <2>2
<1>5. CASE k = Len(closed) + 1
  <2>1. e = Bytes /\ Bytes \in Nat
    BY <1>1, <1>2, <1>5, Complete DEF Total
  <2>2. g.to < 8 * Bytes
    BY DEF SegmentInv, BytesCounted, Bytes
  <2> QED BY <1>3, <2>1, <2>2
<1> QED BY <1>1, <1>2, <1>4, <1>5

\* The invariants imply BytesUnbroken.
LEMMA BytesUnbrokenHolds ==
  ASSUME TypeInv, LayoutInv, SegmentInv
  PROVE  BytesUnbroken
<1> SUFFICES ASSUME Mapped, SegmentsSuffice, NEW x \in Places, BitsOf(x) > 7,
                    NEW f \in FmmusOf(x), NEW g \in FmmusOf(x), NEW k \in DOMAIN Sent,
                    Sent[k].cmd \in Commands(x)
             PROVE  ~ (f.from < 8 * Sent[k].to /\ g.to >= 8 * Sent[k].to)
  BY DEF BytesUnbroken, Broken
<1>1. EndsWell(Sent[k])
  BY SentEnds DEF AllEndWell
<1>2. CASE Sent[k].to \in Ends
  <2> DEFINE e == Sent[k].to
  <2>1. e \in Ends
    BY <1>2
  <2> HIDE DEF e
  <2>2. ~ (f.from < 8 * e /\ g.to >= 8 * e)
    BY <2>1, SegmentsEndOutside
  <2> QED BY <2>2 DEF e
<1>3. CASE Sent[k].cmd = "LWR" /\ Sent[k].to = Obytes
  <2>1. x[2] = "out" /\ at # "outputs"
    BY <1>3 DEF Commands, Mapped
  <2>2. g.to < 8 * Obytes
    BY <2>1 DEF LayoutInv, OutputsFirst
  <2>3. g.to \in Nat /\ Obytes \in Nat
    BY FmmusType DEF TypeInv, TypeOK
  <2> QED BY <1>3, <2>2, <2>3
<1> QED BY <1>1, <1>2, <1>3 DEF EndsWell

----------------------------------------------------------------------------
(* The theorems about the exchange.                                         *)

\* The three invariants hold in every state.
LEMMA AllInvariant == Spec => [](TypeInv /\ LayoutInv /\ SegmentInv)
<1>1. Init => TypeInv /\ LayoutInv /\ SegmentInv
  <2>1. ASSUME Init
        PROVE  TypeInv /\ LayoutInv /\ SegmentInv
    <3>1. TypeInv /\ LayoutInv
      BY <2>1, DataAssumption, TypeInitially, LayoutInitially
    <3> QED BY <2>1, <3>1, DataAssumption, SegmentInitially
  <2> QED BY <2>1
<1>2. (TypeInv /\ LayoutInv /\ SegmentInv) /\ [Next]_vars => (TypeInv /\ LayoutInv /\ SegmentInv)'
  <2>1. ASSUME TypeInv, LayoutInv, SegmentInv, [Next]_vars
        PROVE  TypeInv' /\ LayoutInv' /\ SegmentInv'
    <3>1. TypeInv'
      BY <2>1, DataAssumption, TypeStep
    <3>2. TypeOK'
      BY <3>1 DEF TypeInv
    <3>3. LayoutInv'
      BY <2>1, <3>1, <3>2, DataAssumption, LayoutStep
    <3>4. SegmentInv'
      BY <2>1, <3>2, <3>3, DataAssumption, SegmentStep
    <3> QED BY <3>1, <3>3, <3>4
  <2> QED BY <2>1
<1> QED BY <1>1, <1>2, PTL DEF Spec

\* ecx_main_send_processdata() puts every byte of every slave into one datagram,
\* with LRW or with LRD and LWR, unless segments ran out: no byte of the outputs
\* is written twice in an exchange and none is left out.
THEOREM BytesAreCarriedOnce == Spec => []CarriedOnce
<1>1. TypeInv /\ LayoutInv /\ SegmentInv => CarriedOnce
  BY CarriedOnceHolds
<1> QED BY <1>1, AllInvariant, PTL

\* No datagram of ecx_main_send_processdata() ends inside a byte oriented slave,
\* unless segments ran out: ecx_main_config_map_group() cuts between slaves, and LWR
\* ends where the outputs end.
THEOREM BytesAreUnbroken == Spec => []BytesUnbroken
<1>1. TypeInv /\ LayoutInv /\ SegmentInv => BytesUnbroken
  BY BytesUnbrokenHolds
<1> QED BY <1>1, AllInvariant, PTL

----------------------------------------------------------------------------
(* The work counter.                                                        *)

\* The datagrams of a sequence follow one another.
Sorted(D) == \A j, k \in DOMAIN D : j < k => D[j].to <= D[k].from

\* Those of LRW do.
LEMMA LRWSorted ==
  ASSUME TypeInv, Bytes > 0
  PROVE  Sorted(LRW)
<1> DEFINE n == Len(IOsegment)
           s(k) == UpTo(IOsegment, k)
<1>1. /\ n \in Nat
      /\ \A j, k \in 0 .. n : j <= k => s(j) <= s(k)
  BY Starts
<1>2. PICK m \in 0 .. n : /\ DOMAIN LRW = 1 .. m
                          /\ \A k \in 1 .. m : LRW[k] = Datagram("LRW", s(k - 1), s(k))
  BY LRWShape
<1>3. \A k \in 1 .. m : LRW[k].from = s(k - 1) /\ LRW[k].to = s(k)
  BY <1>2 DEF Datagram
<1> HIDE DEF n, s
<1>4. \A j, k \in 1 .. m : j < k => s(j) <= s(k - 1)
  <2>1. \A j, k \in 1 .. m : j < k => j \in 0 .. n /\ k - 1 \in 0 .. n /\ j <= k - 1
    BY <1>1
  <2> QED BY <1>1, <2>1
<1> QED BY <1>2, <1>3, <1>4 DEF Sorted

\* Those of LWR do.
LEMMA LWRSorted ==
  ASSUME TypeInv
  PROVE  Sorted(LWR)
<1> DEFINE n == Len(IOsegment)
           s(k) == UpTo(IOsegment, k)
<1>1. /\ n \in Nat /\ Obytes \in Nat
      /\ \A k \in 0 .. n : s(k) \in Nat
      /\ \A j, k \in 0 .. n : j <= k => s(j) <= s(k)
  BY Starts DEF TypeInv, TypeOK
<1>2. PICK m \in 0 .. n : /\ DOMAIN LWR = 1 .. m
                          /\ \A k \in 1 .. m : LWR[k] = Datagram("LWR", s(k - 1), Smaller(s(k), Obytes))
  BY LWRShape
<1>3. \A k \in 1 .. m : LWR[k].from = s(k - 1) /\ LWR[k].to = Smaller(s(k), Obytes)
  BY <1>2 DEF Datagram
<1> HIDE DEF n, s
<1>4. ASSUME NEW j \in 1 .. m, NEW k \in 1 .. m, j < k
      PROVE  Smaller(s(j), Obytes) <= s(k - 1)
  <2>1. j \in 0 .. n /\ k - 1 \in 0 .. n /\ j <= k - 1
    BY <1>1, <1>4
  <2>2. s(j) <= s(k - 1) /\ s(j) \in Nat /\ s(k - 1) \in Nat
    BY <1>1, <2>1
  <2> QED BY <1>1, <2>2 DEF Smaller
<1> QED BY <1>2, <1>3, <1>4 DEF Sorted

\* Those of LRD do, also when segments ran out.
LEMMA LRDSorted ==
  ASSUME TypeInv
  PROVE  Sorted(LRD)
<1> DEFINE n == Len(IOsegment)
           m == n - Isegment
           first == UpTo(IOsegment, Isegment) + Ioffset
           start(k) == IF k = 1 THEN Obytes ELSE Obytes + UpTo(IOsegment, Isegment + k - 1) - first
<1>1. /\ n \in Nat /\ Isegment \in 0 .. n /\ m \in Nat /\ Obytes \in Nat /\ Ioffset \in Nat
      /\ \A k \in 0 .. n : UpTo(IOsegment, k) \in Nat
      /\ \A j, k \in 0 .. n : j <= k => UpTo(IOsegment, j) <= UpTo(IOsegment, k)
  <2>1. n \in Nat /\ Isegment \in 0 .. n /\ m \in Nat /\ Obytes \in Nat /\ Ioffset \in Nat
    BY Starts, SegmentsType, SMTT(30) DEF TypeInv, TypeOK
  <2> QED BY <2>1, Starts
<1>2. LRD = [k \in 1 .. m |-> Datagram("LRD", start(k), start(k + 1))]
  BY DEF LRD
<1>3. ASSUME NEW j \in 1 .. m, NEW k \in 1 .. m, j < k
      PROVE  start(j + 1) <= start(k)
  <2>1. Isegment + (j + 1) - 1 \in 0 .. n /\ Isegment + k - 1 \in 0 .. n
        /\ Isegment + (j + 1) - 1 <= Isegment + k - 1
    <3> HIDE DEF n
    <3> QED BY <1>1, <1>3
  <2> DEFINE a == UpTo(IOsegment, Isegment + (j + 1) - 1)
             b == UpTo(IOsegment, Isegment + k - 1)
  <2>2. a \in Nat /\ b \in Nat /\ a <= b
    BY <1>1, <2>1
  <2>3. first \in Nat
    BY <1>1
  <2>4. j + 1 # 1 /\ k # 1
    BY <1>1, <1>3
  <2>5. start(j + 1) = Obytes + a - first /\ start(k) = Obytes + b - first
    BY <2>4
  <2> HIDE DEF a, b, first, start
  <2> QED BY <1>1, <2>2, <2>3, <2>5
<1> HIDE DEF m, start
<1>4. DOMAIN LRD = 1 .. m /\ \A k \in 1 .. m : LRD[k].from = start(k) /\ LRD[k].to = start(k + 1)
  BY <1>2 DEF Datagram
<1> QED BY <1>3, <1>4 DEF Sorted

\* Of the datagrams sent, those without one of the commands follow one another.
InTurn(cmd) ==
  \A j, k \in DOMAIN Sent : j < k /\ Sent[j].cmd # cmd /\ Sent[k].cmd # cmd => Sent[j].to <= Sent[k].from

\* So do those that write, and those that read.
LEMMA SentInTurn ==
  ASSUME TypeInv
  PROVE  InTurn("LRD") /\ InTurn("LWR")
<1>1. /\ LRD \in Seq(Datagrams) /\ LWR \in Seq(Datagrams)
      /\ <<>> \in Seq(Datagrams) /\ DOMAIN <<>> = {}
  <2>1. LRD \in Seq(Datagrams) /\ LWR \in Seq(Datagrams)
    BY LRDType, LWRType
  <2> QED BY <2>1
<1>2. Bytes \in Nat
  BY SegmentZero
<1>3. CASE Bytes = 0
  <2>1. DOMAIN Sent = {}
    BY <1>1, <1>3 DEF Sent
  <2> QED BY <2>1 DEF InTurn
<1>4. CASE Bytes # 0 /\ ~ blockLRW
  <2>1. Sent = LRW /\ Sorted(LRW)
    BY <1>2, <1>4, LRWSorted DEF Sent
  <2> QED BY <2>1 DEF Sorted, InTurn
<1>5. CASE Bytes # 0 /\ blockLRW
  <2> DEFINE A == IF Obytes < Bytes THEN LRD ELSE <<>>
             B == IF Obytes > 0 THEN LWR ELSE <<>>
  <2>1. Sent = A \o B
    BY <1>5, Zenon DEF Sent
  <2>2. A \in Seq(Datagrams) /\ B \in Seq(Datagrams)
    BY <1>1
  <2>3. (\A k \in DOMAIN A : A[k].cmd = "LRD") /\ (\A k \in DOMAIN B : B[k].cmd = "LWR")
    BY <1>1, CommandsOf
  <2>4. Sorted(A) /\ Sorted(B)
    <3>1. Sorted(LRD) /\ Sorted(LWR) /\ Sorted(<<>>)
      BY <1>1, LRDSorted, LWRSorted DEF Sorted
    <3> QED BY <3>1
  <2> HIDE DEF A, B
  <2> DEFINE m == Len(A)
             n == Len(B)
  <2>5. /\ m \in Nat /\ n \in Nat /\ DOMAIN A = 1 .. m /\ DOMAIN B = 1 .. n /\ DOMAIN Sent = 1 .. m + n
        /\ \A k \in 1 .. m : Sent[k] = A[k]
        /\ \A k \in 1 .. n : Sent[m + k] = B[k]
    BY <2>1, <2>2
  <2> HIDE DEF m, n
  <2>6. \A k \in DOMAIN Sent : IF k <= m THEN k \in 1 .. m ELSE k - m \in 1 .. n /\ m + (k - m) = k
    BY <2>5
  <2>7. ASSUME NEW j \in DOMAIN Sent, NEW k \in DOMAIN Sent, j < k,
               Sent[j].cmd # "LRD" /\ Sent[k].cmd # "LRD"
        PROVE  Sent[j].to <= Sent[k].from
    <3>1. ~ (j <= m) /\ ~ (k <= m)
      BY <2>3, <2>5, <2>6, <2>7
    <3>2. j - m \in 1 .. n /\ k - m \in 1 .. n /\ j - m < k - m /\ Sent[j] = B[j - m] /\ Sent[k] = B[k - m]
      <4>1. j - m \in 1 .. n /\ k - m \in 1 .. n /\ m + (j - m) = j /\ m + (k - m) = k
        BY <2>6, <3>1
      <4>2. j - m < k - m
        BY <2>5, <2>7
      <4> QED BY <2>5, <4>1, <4>2
    <3> QED BY <2>4, <2>5, <3>2 DEF Sorted
  <2>8. ASSUME NEW j \in DOMAIN Sent, NEW k \in DOMAIN Sent, j < k,
               Sent[j].cmd # "LWR" /\ Sent[k].cmd # "LWR"
        PROVE  Sent[j].to <= Sent[k].from
    <3>1. j <= m /\ k <= m
      <4>1. \A i \in DOMAIN Sent : ~ (i <= m) => Sent[i].cmd = "LWR"
        <5> SUFFICES ASSUME NEW i \in DOMAIN Sent, ~ (i <= m)
                     PROVE  Sent[i].cmd = "LWR"
          OBVIOUS
        <5>1. i - m \in 1 .. n /\ m + (i - m) = i
          BY <2>6
        <5>2. Sent[i] = B[i - m]
          BY <2>5, <5>1
        <5> QED BY <2>3, <2>5, <5>1, <5>2
      <4> QED BY <2>8, <4>1
    <3>2. j \in 1 .. m /\ k \in 1 .. m /\ Sent[j] = A[j] /\ Sent[k] = A[k]
      BY <2>5, <2>6, <3>1
    <3> QED BY <2>4, <2>5, <2>8, <3>2 DEF Sorted
  <2> QED BY <2>7, <2>8 DEF InTurn
<1> QED BY <1>3, <1>4, <1>5

\* The slaves that the first datagrams write, and those that they read.
Written(n) == UNION {Writes(Sent[k]) : k \in 1 .. n}
ReadUp(n) == UNION {Reads(Sent[k]) : k \in 1 .. n}

\* The work counter when all of these take part.
Full(d) == 2 * Cardinality(Writes(d)) + Cardinality(Reads(d))
Taken(n) == 2 * Cardinality(Written(n)) + Cardinality(ReadUp(n))

\* All sets of slaves are finite.
LEMMA SlavesFinite ==
  ASSUME DataAssumption
  PROVE  \A S \in SUBSET Slaves : IsFiniteSet(S) /\ Cardinality(S) \in Nat
<1>1. IsFiniteSet(Slaves)
  <2>1. 1 \in Int /\ N \in Int
    BY DEF DataAssumption
  <2> QED BY <2>1, FS_Interval DEF Slaves
<1>2. ASSUME NEW S \in SUBSET Slaves
      PROVE  IsFiniteSet(S) /\ Cardinality(S) \in Nat
  <2>1. IsFiniteSet(S)
    BY <1>1, FS_Subset
  <2> QED BY <2>1, FS_CardinalityType
<1> QED BY <1>2

\* What a datagram concerns are slaves.
LEMMA ConcernsType ==
  /\ \A d : Writes(d) \in SUBSET Slaves /\ Reads(d) \in SUBSET Slaves
  /\ \A n : Written(n) \in SUBSET Slaves /\ ReadUp(n) \in SUBSET Slaves
<1>1. \A d : Writes(d) \in SUBSET Slaves /\ Reads(d) \in SUBSET Slaves
  BY DEF Writes, Reads
<1> QED BY <1>1 DEF Written, ReadUp

\* With no slave cut in two, no two datagrams write or read the same slave.
LEMMA ConcernsApart ==
  ASSUME TypeInv, Mapped, Unbroken, NEW j \in DOMAIN Sent, NEW k \in DOMAIN Sent, j < k
  PROVE  /\ \A s : ~ (s \in Writes(Sent[j]) /\ s \in Writes(Sent[k]))
         /\ \A s : ~ (s \in Reads(Sent[j]) /\ s \in Reads(Sent[k]))
<1>1. Sent[j] \in Datagrams /\ Sent[k] \in Datagrams
  BY SentType
<1>2. /\ Sent[j].to \in Nat /\ Sent[k].from \in Nat
      /\ Sent[j].cmd \in {"LRW", "LRD", "LWR"} /\ Sent[k].cmd \in {"LRW", "LRD", "LWR"}
  BY <1>1 DEF Datagrams
<1>3. ASSUME NEW s, s \in Writes(Sent[j]), s \in Writes(Sent[k])
      PROVE  FALSE
  <2>1. s \in Slaves /\ Sent[j].cmd # "LRD" /\ Sent[k].cmd # "LRD"
    BY <1>3 DEF Writes
  <2>2. PICK x \in Places : x = <<s, "out">>
    BY <2>1, PlacesOf
  <2>3. FmmusOf(x) = ofmmu[s] /\ Sent[j].cmd \in Commands(x)
    BY <1>2, <2>1, <2>2 DEF FmmusOf, Commands
  <2>4. PICK f \in FmmusOf(x) : f.from < 8 * Sent[j].to
    BY <1>3, <2>1, <2>3 DEF Writes, Meets
  <2>5. PICK g \in FmmusOf(x) : g.to >= 8 * Sent[k].from
    BY <1>3, <2>1, <2>3 DEF Writes, Meets
  <2>6. Sent[j].to <= Sent[k].from
    BY <2>1, SentInTurn DEF InTurn
  <2>7. g.to \in Nat
    BY FmmusType DEF TypeInv
  <2>8. g.to >= 8 * Sent[j].to
    BY <1>2, <2>5, <2>6, <2>7
  <2>9. Broken(x)
    BY <2>3, <2>4, <2>8 DEF Broken
  <2> QED BY <2>9 DEF Unbroken
<1>4. ASSUME NEW s, s \in Reads(Sent[j]), s \in Reads(Sent[k])
      PROVE  FALSE
  <2>1. s \in Slaves /\ Sent[j].cmd # "LWR" /\ Sent[k].cmd # "LWR"
    BY <1>4 DEF Reads
  <2>2. PICK x \in Places : x = <<s, "in">>
    BY <2>1, PlacesOf
  <2>3. FmmusOf(x) = ifmmu[s] /\ Sent[j].cmd \in Commands(x)
    BY <1>2, <2>1, <2>2 DEF FmmusOf, Commands
  <2>4. PICK f \in FmmusOf(x) : f.from < 8 * Sent[j].to
    BY <1>4, <2>1, <2>3 DEF Reads, Meets
  <2>5. PICK g \in FmmusOf(x) : g.to >= 8 * Sent[k].from
    BY <1>4, <2>1, <2>3 DEF Reads, Meets
  <2>6. Sent[j].to <= Sent[k].from
    BY <2>1, SentInTurn DEF InTurn
  <2>7. g.to \in Nat
    BY FmmusType DEF TypeInv
  <2>8. g.to >= 8 * Sent[j].to
    BY <1>2, <2>5, <2>6, <2>7
  <2>9. Broken(x)
    BY <2>3, <2>4, <2>8 DEF Broken
  <2> QED BY <2>9 DEF Unbroken
<1> QED BY <1>3, <1>4

\* The counters of disjoint datagrams add up.
LEMMA TakenGrows ==
  ASSUME DataAssumption, TypeInv, Mapped, Unbroken, NEW n \in Nat, n + 1 \in DOMAIN Sent
  PROVE  /\ Taken(n) \in Nat /\ Full(Sent[n + 1]) \in Nat
         /\ Taken(n + 1) = Taken(n) + Full(Sent[n + 1])
<1>1. DOMAIN Sent = 1 .. Len(Sent) /\ Len(Sent) \in Nat
  BY SentType
<1>2. \A k \in 1 .. n : k \in DOMAIN Sent /\ k < n + 1
  BY <1>1
<1> DEFINE W == Writes(Sent[n + 1])
           R == Reads(Sent[n + 1])
           A == Written(n)
           B == ReadUp(n)
<1>3. A \cap W = {} /\ B \cap R = {}
  BY <1>2, ConcernsApart DEF Written, ReadUp
<1>4. Written(n + 1) = A \cup W /\ ReadUp(n + 1) = B \cup R
  <2>1. 1 .. n + 1 = (1 .. n) \cup {n + 1}
    OBVIOUS
  <2> QED BY <2>1 DEF Written, ReadUp
<1>5. /\ IsFiniteSet(A) /\ IsFiniteSet(B) /\ IsFiniteSet(W) /\ IsFiniteSet(R)
      /\ Cardinality(A) \in Nat /\ Cardinality(B) \in Nat /\ Cardinality(W) \in Nat /\ Cardinality(R) \in Nat
  BY ConcernsType, SlavesFinite
<1>6. /\ Taken(n) = 2 * Cardinality(A) + Cardinality(B)
      /\ Full(Sent[n + 1]) = 2 * Cardinality(W) + Cardinality(R)
      /\ Taken(n + 1) = 2 * Cardinality(A \cup W) + Cardinality(B \cup R)
  BY <1>4 DEF Taken, Full
<1> HIDE DEF A, B, W, R
<1>7. Cardinality(A \cup W) = Cardinality(A) + Cardinality(W)
  <2>1. Cardinality(A \cap W) = 0
    BY <1>3, FS_EmptySet
  <2>2. Cardinality(A \cup W) = Cardinality(A) + Cardinality(W) - Cardinality(A \cap W)
    BY <1>5, FS_Union
  <2> QED BY <1>5, <2>1, <2>2
<1>8. Cardinality(B \cup R) = Cardinality(B) + Cardinality(R)
  <2>1. Cardinality(B \cap R) = 0
    BY <1>3, FS_EmptySet
  <2>2. Cardinality(B \cup R) = Cardinality(B) + Cardinality(R) - Cardinality(B \cap R)
    BY <1>5, FS_Union
  <2> QED BY <1>5, <2>1, <2>2
<1> QED BY <1>5, <1>6, <1>7, <1>8

\* Taking part only sometimes counts less.
LEMMA PartCounts ==
  ASSUME DataAssumption, NEW S \in SUBSET Slaves, NEW up
  PROVE  /\ Cardinality(S \cap up) \in Nat /\ Cardinality(S) \in Nat
         /\ Cardinality(S \cap up) <= Cardinality(S)
         /\ ~ (S \subseteq up) => Cardinality(S \cap up) < Cardinality(S)
         /\ S # {} => Cardinality(S) > 0
<1>1. /\ IsFiniteSet(S) /\ Cardinality(S) \in Nat /\ S \cap up \in SUBSET S
      /\ Cardinality(S \cap up) \in Nat
  <2>1. S \cap up \in SUBSET Slaves
    OBVIOUS
  <2> QED BY <2>1, SlavesFinite
<1> DEFINE T == S \cap up
<1>2. Cardinality(T) <= Cardinality(S) /\ (Cardinality(S) = Cardinality(T) => S = T)
  <2>1. T \in SUBSET S
    BY <1>1
  <2> HIDE DEF T
  <2> QED BY <1>1, <2>1, FS_Subset
<1>3. ~ (S \subseteq up) => S # T
  OBVIOUS
<1>4. S # {} => Cardinality(S) # 0
  BY <1>1, FS_EmptySet
<1> HIDE DEF T
<1>5. Cardinality(T) \in Nat
  BY <1>1 DEF T
<1>6. ~ (S \subseteq up) => Cardinality(T) < Cardinality(S)
  BY <1>1, <1>2, <1>3, <1>5
<1>7. S # {} => Cardinality(S) > 0
  BY <1>1, <1>4
<1> QED BY <1>1, <1>2, <1>6, <1>7 DEF T

\* A datagram counts at most as much as with all slaves, and less without one.
LEMMA CountedAtMost ==
  ASSUME DataAssumption, NEW d \in Datagrams, NEW up \in SUBSET Slaves
  PROVE  /\ Counted(d, Counter(d, up)) \in Nat /\ Full(d) \in Nat
         /\ Counted(d, Counter(d, up)) <= Full(d)
         /\ ~ (Concerns(d) \subseteq up) => Counted(d, Counter(d, up)) < Full(d)
         /\ Concerns(d) # {} => Full(d) > 0
<1> DEFINE W == Writes(d)
           R == Reads(d)
           w == Cardinality(W \cap up)
           r == Cardinality(R \cap up)
<1>1. /\ w \in Nat /\ Cardinality(W) \in Nat /\ w <= Cardinality(W)
      /\ (~ (W \subseteq up) => w < Cardinality(W))
      /\ (W # {} => Cardinality(W) > 0)
  BY ConcernsType, PartCounts
<1>2. /\ r \in Nat /\ Cardinality(R) \in Nat /\ r <= Cardinality(R)
      /\ (~ (R \subseteq up) => r < Cardinality(R))
      /\ (R # {} => Cardinality(R) > 0)
  BY ConcernsType, PartCounts
<1>3. Counted(d, Counter(d, up)) = 2 * w + r
  <2>1. d.cmd \in {"LRW", "LRD", "LWR"}
    BY DEF Datagrams
  <2>2. CASE d.cmd = "LRW"
    BY <2>2 DEF Counted, Counter
  <2>3. CASE d.cmd = "LRD"
    <3>1. W = {}
      BY <2>3 DEF Writes
    <3>2. W \cap up = {}
      BY <3>1
    <3>3. w = 0
      BY <3>2, FS_EmptySet
    <3>4. Counted(d, Counter(d, up)) = 1 * w + r
      BY <2>3 DEF Counted, Counter
    <3> HIDE DEF w, r
    <3> QED BY <1>2, <3>3, <3>4
  <2>4. CASE d.cmd = "LWR"
    <3>1. R = {}
      BY <2>4 DEF Reads
    <3>2. R \cap up = {}
      BY <3>1
    <3>3. r = 0
      BY <3>2, FS_EmptySet
    <3>4. Counted(d, Counter(d, up)) = 2 * (1 * w + r)
      BY <2>4 DEF Counted, Counter
    <3> HIDE DEF w, r
    <3> QED BY <1>1, <3>3, <3>4
  <2> QED BY <2>1, <2>2, <2>3, <2>4
<1>4. Full(d) = 2 * Cardinality(W) + Cardinality(R)
  BY DEF Full
<1>5. Concerns(d) = W \cup R
  BY DEF Concerns
<1> HIDE DEF W, R, w, r
<1>6. ~ (Concerns(d) \subseteq up) => ~ (W \subseteq up) \/ ~ (R \subseteq up)
  BY <1>5
<1>7. Concerns(d) # {} => W # {} \/ R # {}
  BY <1>5
<1> QED BY <1>1, <1>2, <1>3, <1>4, <1>6, <1>7

\* Something is sent that has no room on the index stack.
Dropped == \E k \in DOMAIN Sent : k > MaxStack /\ Concerns(Sent[k]) # {}

\* Even all of them count no more than is expected, and less if one was dropped.
LEMMA TakenAtMost ==
  ASSUME DataAssumption, TypeInv, Mapped, Unbroken, NEW n \in Nat, n <= Len(Sent)
  PROVE  /\ Taken(n) \in Nat /\ Expected \in Nat
         /\ Taken(n) <= Expected
         /\ (\E k \in DOMAIN Sent : k > n /\ Concerns(Sent[k]) # {}) => Taken(n) < Expected
<1> DEFINE outs == {s \in Slaves : ofmmu[s] # {}}
           ins == {s \in Slaves : ifmmu[s] # {}}
           A == Written(n)
           B == ReadUp(n)
<1>1. DOMAIN Sent = 1 .. Len(Sent) /\ Len(Sent) \in Nat
  BY SentType
<1>2. \A d : Writes(d) \subseteq outs /\ Reads(d) \subseteq ins
  BY DEF Writes, Reads, Meets
<1>3. A \subseteq outs /\ B \subseteq ins
  BY <1>2 DEF Written, ReadUp
<1>4. /\ outs \in SUBSET Slaves /\ ins \in SUBSET Slaves
      /\ outs \cap A = A /\ ins \cap B = B
  BY <1>3
<1>5. /\ Cardinality(A) \in Nat /\ Cardinality(outs) \in Nat /\ Cardinality(A) <= Cardinality(outs)
      /\ (~ (outs \subseteq A) => Cardinality(A) < Cardinality(outs))
  <2> HIDE DEF outs, A
  <2> QED BY <1>4, PartCounts
<1>6. /\ Cardinality(B) \in Nat /\ Cardinality(ins) \in Nat /\ Cardinality(B) <= Cardinality(ins)
      /\ (~ (ins \subseteq B) => Cardinality(B) < Cardinality(ins))
  <2> HIDE DEF ins, B
  <2> QED BY <1>4, PartCounts
<1>7. Taken(n) = 2 * Cardinality(A) + Cardinality(B) /\ Expected = 2 * Cardinality(outs) + Cardinality(ins)
  BY DEF Taken, Expected
<1>8. ASSUME NEW k \in DOMAIN Sent, k > n, Concerns(Sent[k]) # {}
      PROVE  ~ (outs \subseteq A) \/ ~ (ins \subseteq B)
  <2>1. PICK s : s \in Writes(Sent[k]) \/ s \in Reads(Sent[k])
    BY <1>8 DEF Concerns
  <2>2. \A j \in 1 .. n : j \in DOMAIN Sent /\ j < k
    BY <1>1, <1>8
  <2>3. CASE s \in Writes(Sent[k])
    <3>1. s \notin A
      BY <2>2, <2>3, ConcernsApart DEF Written
    <3>2. s \in outs
      BY <1>2, <2>3
    <3> QED BY <3>1, <3>2
  <2>4. CASE s \in Reads(Sent[k])
    <3>1. s \notin B
      BY <2>2, <2>4, ConcernsApart DEF ReadUp
    <3>2. s \in ins
      BY <1>2, <2>4
    <3> QED BY <3>1, <3>2
  <2> QED BY <2>1, <2>3, <2>4
<1> HIDE DEF outs, ins, A, B
<1>9. (\E k \in DOMAIN Sent : k > n /\ Concerns(Sent[k]) # {}) => ~ (outs \subseteq A) \/ ~ (ins \subseteq B)
  BY <1>8
<1>10. Taken(n) \in Nat /\ Expected \in Nat /\ Taken(n) <= Expected
  BY <1>5, <1>6, <1>7, SMTT(30)
<1>11. ~ (outs \subseteq A) \/ ~ (ins \subseteq B) => Taken(n) < Expected
  BY <1>5, <1>6, <1>7
<1> QED BY <1>9, <1>10, <1>11, Zenon

\* The counter so far: at most that of all slaves, and less if one was missing or
\* will be.
ExchangeInv ==
  at = "sent" =>
    /\ stack = SubSeq(Sent, 1, Smaller(Len(Sent), MaxStack))
    /\ Unbroken => wkc <= Taken(pulled) /\ (stale => wkc < Taken(pulled) \/ Dropped)

\* The invariants imply FullWkcIsFresh.
LEMMA FullWkcIsFreshHolds ==
  ASSUME DataAssumption, TypeInv, ExchangeInv
  PROVE  FullWkcIsFresh
<1> SUFFICES ASSUME Received, Unbroken, Result >= Expected, stale
             PROVE  FALSE
  BY DEF FullWkcIsFresh
<1> DEFINE n == Smaller(Len(Sent), MaxStack)
<1>1. at = "sent" /\ pulled = Len(stack) /\ Mapped
  BY DEF Received, Mapped
<1>2. Sent \in Seq(Datagrams) /\ MaxStack \in Nat /\ Len(Sent) \in Nat /\ DOMAIN Sent = 1 .. Len(Sent)
  BY SentType DEF DataAssumption
<1>3. n \in Nat /\ n <= Len(Sent) /\ n <= MaxStack /\ (n = MaxStack \/ n = Len(Sent))
  BY <1>2 DEF Smaller
<1>4. stack = SubSeq(Sent, 1, n) /\ wkc <= Taken(pulled) /\ (wkc < Taken(pulled) \/ Dropped)
  BY <1>1 DEF ExchangeInv
<1>5. pulled = n
  <2> HIDE DEF n
  <2>1. \A s \in Seq(Datagrams) : \A m \in 0 .. Len(s) : Len(SubSeq(s, 1, m)) = m
    BY SubSeqProperties
  <2>2. n \in 0 .. Len(Sent)
    <3> DEFINE len == Len(Sent)
    <3>1. n \in Nat /\ len \in Nat /\ n <= len
      BY <1>2, <1>3
    <3> HIDE DEF len
    <3>2. n \in 0 .. len
      BY <3>1
    <3> QED BY <3>2, SMTT(30) DEF len
  <2>3. Len(SubSeq(Sent, 1, n)) = n
    BY <1>2, <2>1, <2>2
  <2> QED BY <1>1, <1>4, <2>3
<1> HIDE DEF n
<1>6. Taken(n) \in Nat /\ Expected \in Nat /\ Taken(n) <= Expected
  BY <1>1, <1>3, TakenAtMost
<1>7. wkc < Expected
  <2>1. wkc \in Nat
    BY DEF TypeInv, TypeOK
  <2>2. CASE wkc < Taken(n)
    BY <1>6, <2>1, <2>2
  <2>3. CASE Dropped
    <3>1. \E k \in DOMAIN Sent : k > n /\ Concerns(Sent[k]) # {}
      <4>1. PICK k \in DOMAIN Sent : k > MaxStack /\ Concerns(Sent[k]) # {}
        BY <2>3 DEF Dropped
      <4>2. k \in Nat /\ n \in Nat /\ MaxStack \in Nat /\ k > MaxStack /\ n <= MaxStack
        <5> DEFINE len == Len(Sent)
        <5>1. len \in Nat /\ k \in 1 .. len
          BY <1>2, <4>1
        <5> HIDE DEF len
        <5>2. k \in Nat
          BY <5>1
        <5> QED BY <1>2, <1>3, <4>1, <5>2, Zenon
      <4>3. k > n
        BY <4>2
      <4> QED BY <4>1, <4>3
    <3>2. Taken(n) < Expected
      BY <1>1, <1>3, <3>1, TakenAtMost
    <3> QED BY <1>4, <1>5, <1>6, <2>1, <3>2
  <2> QED BY <1>4, <1>5, <2>2, <2>3
<1>8. Result < Expected
  <2>1. wkc \in Nat
    BY DEF TypeInv, TypeOK
  <2> QED BY <1>6, <1>7, <2>1 DEF Result
<1>9. Result \in Int
  BY DEF Result, TypeInv, TypeOK
<1> QED BY <1>6, <1>8, <1>9

\* What is on the bus stays, so what is sent and whom it concerns stay.
LEMMA SameExchange ==
  ASSUME UNCHANGED <<slaves, blockLRW, layout>>
  PROVE  /\ Sent' = Sent
         /\ \A d : Writes(d)' = Writes(d) /\ Reads(d)' = Reads(d) /\ Concerns(d)' = Concerns(d)
         /\ \A x : FmmusOf(x)' = FmmusOf(x)
<1>1. UNCHANGED <<slaves, blockLRW, pos, ofmmu, ifmmu, closed, segmentsize, Obytes, Isegment, Ioffset>>
  BY DEF layout
<1>2. Sent' = Sent
  <2>1. IOsegment' = IOsegment /\ Bytes' = Bytes
    BY <1>1 DEF IOsegment, Bytes
  <2>2. LRW' = LRW /\ LRD' = LRD /\ LWR' = LWR
    BY <1>1, <2>1 DEF LRW, LRD, LWR
  <2> QED BY <1>1, <2>1, <2>2 DEF Sent
<1>3. \A d : Writes(d)' = Writes(d) /\ Reads(d)' = Reads(d)
  BY <1>1 DEF Writes, Reads, Meets
<1>4. \A d : Concerns(d)' = Concerns(d)
  BY <1>3 DEF Concerns
<1>5. \A x : FmmusOf(x)' = FmmusOf(x)
  BY <1>1 DEF FmmusOf
<1> QED BY <1>2, <1>3, <1>4, <1>5

\* So do the sums over it, and whether a slave is cut in two.
LEMMA SameSums ==
  ASSUME UNCHANGED <<slaves, blockLRW, layout>>, Mapped, Mapped'
  PROVE  /\ \A n : Taken(n)' = Taken(n)
         /\ Dropped' = Dropped /\ Unbroken' = Unbroken
<1>1. /\ Sent' = Sent
      /\ \A d : Writes(d)' = Writes(d) /\ Reads(d)' = Reads(d) /\ Concerns(d)' = Concerns(d)
      /\ \A x : FmmusOf(x)' = FmmusOf(x)
  BY SameExchange
<1>2. \A n : Taken(n)' = Taken(n)
  <2>1. \A n : Written(n)' = Written(n) /\ ReadUp(n)' = ReadUp(n)
    BY <1>1 DEF Written, ReadUp
  <2> QED BY <2>1 DEF Taken
<1>3. Dropped' = Dropped
  BY <1>1 DEF Dropped
<1>4. Unbroken' = Unbroken
  <2>1. \A x : Broken(x)' = Broken(x)
    BY <1>1 DEF Broken
  <2> QED BY <2>1 DEF Unbroken
<1> QED BY <1>2, <1>3, <1>4

\* Nothing was taken before the first datagram.
LEMMA TakenNone == Taken(0) = 0
<1>1. Written(0) = {} /\ ReadUp(0) = {}
  BY DEF Written, ReadUp
<1>2. Cardinality({}) = 0
  BY FS_EmptySet
<1> QED BY <1>1, <1>2 DEF Taken

\* The next datagram is the one that was sent next.
LEMMA PulledIsSent ==
  ASSUME DataAssumption, TypeInv, ExchangeInv, at = "sent", pulled < Len(stack)
  PROVE  /\ pulled \in Nat /\ pulled + 1 \in DOMAIN Sent
         /\ Pulled = Sent[pulled + 1] /\ Pulled \in Datagrams
<1> DEFINE n == Smaller(Len(Sent), MaxStack)
           len == Len(Sent)
<1>1. Sent \in Seq(Datagrams) /\ MaxStack \in Nat /\ len \in Nat /\ DOMAIN Sent = 1 .. len
  BY SentType DEF DataAssumption
<1>2. n \in Nat /\ n <= len
  BY <1>1 DEF Smaller
<1>3. stack = SubSeq(Sent, 1, n)
  BY DEF ExchangeInv
<1>4. pulled \in Nat /\ Len(stack) \in Nat
  BY DEF TypeInv, TypeOK
<1> HIDE DEF n
<1>5. Len(stack) = n /\ \A i \in 1 .. n : stack[i] = Sent[i]
  <2>1. n \in 0 .. len
    <3> HIDE DEF len
    <3> QED BY <1>1, <1>2
  <2>2. \A s \in Seq(Datagrams) : \A m \in 0 .. Len(s) :
          Len(SubSeq(s, 1, m)) = m /\ \A i \in 1 .. m : SubSeq(s, 1, m)[i] = s[i]
    BY SubSeqProperties
  <2> QED BY <1>1, <1>3, <2>1, <2>2
<1> HIDE DEF len
<1>6. pulled + 1 \in 1 .. n /\ pulled + 1 \in 1 .. len
  BY <1>1, <1>2, <1>4, <1>5
<1>7. Sent[pulled + 1] \in Datagrams
  BY <1>1, <1>6
<1> QED BY <1>1, <1>4, <1>5, <1>6, <1>7 DEF Pulled

\* Every step keeps the account of the work counter.
LEMMA ExchangeStep ==
  ASSUME DataAssumption, TypeInv, TypeInv', ExchangeInv, [Next]_vars
  PROVE  ExchangeInv'
<1>1. CASE Mapping
  BY <1>1 DEF Mapping, MapOutputs, OutputsMapped, MapInputs, InputsMapped, ExchangeInv
<1>2. CASE Clear
  BY <1>2 DEF Clear, ExchangeInv
<1>3. CASE Send
  <2>1. UNCHANGED <<slaves, blockLRW, layout>> /\ Mapped /\ Mapped'
    BY <1>3 DEF Send, Mapped
  <2>2. /\ stack' = SubSeq(Sent, 1, Smaller(Len(Sent), MaxStack))
        /\ pulled' = 0 /\ wkc' = 0 /\ stale' = Dropped
    BY <1>3 DEF Send, Dropped
  <2>3. Sent' = Sent /\ Dropped' = Dropped /\ Taken(0)' = 0
    <3>1. Taken(0)' = Taken(0)
      BY <2>1, SameSums
    <3> QED BY <2>1, <3>1, SameExchange, SameSums, TakenNone
  <2>4. Taken(pulled)' = 0
    <3>1. Taken(pulled)' = 2 * Cardinality(Written(pulled)') + Cardinality(ReadUp(pulled)')
      BY DEF Taken
    <3>2. Written(pulled)' = {} /\ ReadUp(pulled)' = {}
      BY <2>2 DEF Written, ReadUp
    <3> QED BY <3>1, <3>2, FS_EmptySet
  <2> QED BY <2>2, <2>3, <2>4 DEF ExchangeInv
<1>4. CASE ReceiveFrame
  <2>1. UNCHANGED <<slaves, blockLRW, layout, stack>> /\ Mapped /\ Mapped' /\ at = "sent"
        /\ pulled < Len(stack) /\ pulled' = pulled + 1
    BY <1>4 DEF ReceiveFrame, Mapped
  <2>2. PICK up \in SUBSET Slaves :
          /\ wkc' = wkc + Counted(Pulled, Counter(Pulled, up))
          /\ stale' = (stale \/ ~ (Concerns(Pulled) \subseteq up))
    BY <1>4 DEF ReceiveFrame
  <2>3. PICK n \in Nat : n = pulled
    BY DEF TypeInv, TypeOK
  <2>4. n + 1 \in DOMAIN Sent /\ Pulled = Sent[n + 1] /\ Pulled \in Datagrams
    BY <2>1, <2>3, PulledIsSent
  <2>5. Sent' = Sent /\ Dropped' = Dropped /\ Unbroken' = Unbroken /\ Taken(n + 1)' = Taken(n + 1)
    BY <2>1, SameExchange, SameSums
  <2>6. Taken(pulled)' = Taken(n + 1)
    <3>1. Taken(pulled)' = Taken(n + 1)'
      BY <2>1, <2>3 DEF Taken, Written, ReadUp
    <3> QED BY <2>5, <3>1
  <2>7. stack' = SubSeq(Sent', 1, Smaller(Len(Sent'), MaxStack))
    BY <2>1, <2>5 DEF ExchangeInv
  <2>8. ASSUME Unbroken
        PROVE  wkc' <= Taken(pulled)' /\ (stale' => wkc' < Taken(pulled)' \/ Dropped)
    <3> DEFINE c == Counted(Pulled, Counter(Pulled, up))
               all == Full(Pulled)
               t == Taken(n)
    <3>1. /\ c \in Nat /\ all \in Nat /\ c <= all
          /\ (~ (Concerns(Pulled) \subseteq up) => c < all)
      BY <2>4, CountedAtMost
    <3>2. t \in Nat /\ Taken(pulled)' = t + all
      BY <2>1, <2>4, <2>6, <2>8, TakenGrows
    <3>3. wkc \in Nat /\ wkc <= t /\ (stale => wkc < t \/ Dropped) /\ wkc' = wkc + c
      BY <2>1, <2>2, <2>3, <2>8 DEF ExchangeInv, TypeInv, TypeOK
    <3> HIDE DEF c, all, t
    <3>4. wkc' <= Taken(pulled)' /\ (wkc < t => wkc' < Taken(pulled)') /\ (c < all => wkc' < Taken(pulled)')
      BY <3>1, <3>2, <3>3
    <3> QED BY <2>2, <3>1, <3>3, <3>4, Zenon
  <2> QED BY <2>5, <2>7, <2>8 DEF ExchangeInv
<1>5. CASE NoFrame
  <2>1. UNCHANGED <<slaves, blockLRW, layout, stack, wkc>> /\ Mapped /\ Mapped' /\ at = "sent"
        /\ pulled < Len(stack) /\ pulled' = pulled + 1
    BY <1>5 DEF NoFrame, Mapped
  <2>2. stale' = (stale \/ Concerns(Pulled) # {})
    BY <1>5 DEF NoFrame
  <2>3. PICK n \in Nat : n = pulled
    BY DEF TypeInv, TypeOK
  <2>4. n + 1 \in DOMAIN Sent /\ Pulled = Sent[n + 1] /\ Pulled \in Datagrams
    BY <2>1, <2>3, PulledIsSent
  <2>5. Sent' = Sent /\ Dropped' = Dropped /\ Unbroken' = Unbroken /\ Taken(n + 1)' = Taken(n + 1)
    BY <2>1, SameExchange, SameSums
  <2>6. Taken(pulled)' = Taken(n + 1)
    <3>1. Taken(pulled)' = Taken(n + 1)'
      BY <2>1, <2>3 DEF Taken, Written, ReadUp
    <3> QED BY <2>5, <3>1
  <2>7. stack' = SubSeq(Sent', 1, Smaller(Len(Sent'), MaxStack))
    BY <2>1, <2>5 DEF ExchangeInv
  <2>8. ASSUME Unbroken
        PROVE  wkc' <= Taken(pulled)' /\ (stale' => wkc' < Taken(pulled)' \/ Dropped)
    <3> DEFINE all == Full(Pulled)
               t == Taken(n)
    <3>1. all \in Nat /\ (Concerns(Pulled) # {} => all > 0)
      <4>1. {} \in SUBSET Slaves
        OBVIOUS
      <4> QED BY <2>4, <4>1, CountedAtMost
    <3>2. t \in Nat /\ Taken(pulled)' = t + all
      BY <2>1, <2>4, <2>6, <2>8, TakenGrows
    <3>3. wkc \in Nat /\ wkc <= t /\ (stale => wkc < t \/ Dropped) /\ wkc' = wkc
      BY <2>1, <2>2, <2>3, <2>8 DEF ExchangeInv, TypeInv, TypeOK
    <3> HIDE DEF all, t
    <3>4. wkc' <= Taken(pulled)' /\ (wkc < t => wkc' < Taken(pulled)') /\ (all > 0 => wkc' < Taken(pulled)')
      BY <3>1, <3>2, <3>3
    <3> QED BY <2>2, <3>1, <3>3, <3>4, Zenon
  <2> QED BY <2>5, <2>7, <2>8 DEF ExchangeInv
<1>6. CASE UNCHANGED vars
  <2>1. UNCHANGED <<slaves, blockLRW, layout, at, stack, pulled, wkc, stale>>
    BY <1>6 DEF vars, exchange
  <2> SUFFICES ASSUME at = "sent"
               PROVE  ExchangeInv'
    BY <2>1 DEF ExchangeInv
  <2>2. Mapped /\ Mapped'
    BY <2>1 DEF Mapped
  <2>3. PICK n : n = pulled
    OBVIOUS
  <2>4. Sent' = Sent /\ Dropped' = Dropped /\ Unbroken' = Unbroken /\ Taken(n)' = Taken(n)
    BY <2>1, <2>2, SameExchange, SameSums
  <2>5. Taken(pulled)' = Taken(n)'
    BY <2>1, <2>3 DEF Taken, Written, ReadUp
  <2> QED BY <2>1, <2>3, <2>4, <2>5 DEF ExchangeInv
<1> QED BY <1>1, <1>2, <1>3, <1>4, <1>5, <1>6 DEF Next, Exchange

\* When ecx_receive_processdata_group() returns the work counter ethercat_loop()
\* expects, every slave took part in every datagram that is meant for it, for any
\* number of slaves and datagrams: what a lost or dropped datagram would have counted
\* is made up for by no other, unless a slave is cut in two.
THEOREM FullCounterIsFresh == Spec => []FullWkcIsFresh
<1>1. Init => ExchangeInv
  BY DEF Init, ExchangeInv
<1>2. (TypeInv /\ TypeInv' /\ ExchangeInv) /\ [Next]_vars => ExchangeInv'
  BY DataAssumption, ExchangeStep
<1>3. TypeInv /\ ExchangeInv => FullWkcIsFresh
  BY DataAssumption, FullWkcIsFreshHolds
<1> QED BY <1>1, <1>2, <1>3, AllInvariant, PTL DEF Spec
====
