------------------------ MODULE HttpConnectionProofs ------------------------
(***************************************************************************)
(* Theorems about HttpConnection, for every number of connections, any      *)
(* plans of any well-formed requests, any split into reads, connections     *)
(* lost at any time and any number of failed allocations: the parser of a   *)
(* connection is where its state says, the handler is called as HttpServer  *)
(* says, and what the shared buffer of handle_post_request() then makes of  *)
(* bodies that come at the same time.                                       *)
(*                                                                         *)
(* Stream is a concatenation; its first sections say what is where in it.   *)
(* CInv has the types and, for each state of a connection, how far into its *)
(* request it is.  Every step is then a step of HttpServer or none, and     *)
(* what is proved of HttpServer holds for the connections.                  *)
(***************************************************************************)
EXTENDS HttpConnection, SequenceTheorems, WellFoundedInduction, TLAPS

----------------------------------------------------------------------------
(* Sums and other recursions.  Induction goes through the least element of *)
(* a set of numbers.                                                       *)

\* A set of numbers that is not empty has a least one.
LEMMA LeastOf ==
  ASSUME NEW U \in SUBSET Nat, U # {}
  PROVE  \E m \in U : \A k \in U : m <= k
<1>1. PICK R : IsWellFoundedOn(R, Nat) /\ \A k, n \in Nat : k < n => <<k, n>> \in R
  <2> DEFINE Q == OpToRel(<,Nat)
  <2>1. IsWellFoundedOn(Q, Nat)
    BY NatLessThanWellFounded
  <2>2. \A k, n \in Nat : k < n => <<k, n>> \in Q
    BY DEF OpToRel
  <2> HIDE DEF Q
  <2> QED
    BY <2>1, <2>2
<1>2. IsWellFoundedOn(R, Nat)
  BY <1>1
<1>3. U \subseteq Nat
  OBVIOUS
<1>4. \E m \in U : \A k \in U : ~ (<<k, m>> \in R)
  BY <1>2, <1>3, WFMin
<1>5. PICK m \in U : \A k \in U : ~ (<<k, m>> \in R)
  BY <1>4
<1>6. \A k \in U : m <= k
  <2> TAKE k \in U
  <2>1. ~ (k < m)
    BY <1>1, <1>5
  <2> QED BY <2>1
<1> QED
  BY <1>6

\* A set with 0 and the successor of each of its numbers has them all.
LEMMA SetInduction ==
  ASSUME NEW T \in SUBSET Nat, 0 \in T, \A n \in Nat : n \in T => n + 1 \in T
  PROVE  T = Nat
<1> DEFINE U == Nat \ T
<1> SUFFICES ASSUME U # {} PROVE FALSE
  OBVIOUS
<1>2. PICK m \in U : \A k \in U : m <= k
  BY LeastOf
<1>3. m # 0 /\ m - 1 \in Nat
  OBVIOUS
<1>4. m - 1 \in T
  BY <1>2, <1>3
<1> QED BY <1>3, <1>4

\* There is a function that starts at c and takes the steps F.
Recursive(n, V, c, F) ==
  \E f \in [0 .. n -> V] : f[0] = c /\ \A k \in 1 .. n : f[k] = F[k][f[k - 1]]

\* There always is, for every number of steps.
LEMMA RecursionExists ==
  ASSUME NEW n \in Nat, NEW V, NEW c \in V, NEW F \in [1 .. n -> [V -> V]]
  PROVE  Recursive(n, V, c, F)
<1> USE DEF Recursive
<1> DEFINE Good(m, f) == f \in [0 .. m -> V] /\ f[0] = c /\ \A k \in 1 .. m : f[k] = F[k][f[k - 1]]
           T == {m \in Nat : m <= n => \E f : Good(m, f)}
<1>1. 0 \in T
  <2>1. Good(0, [k \in 0 .. 0 |-> c])
    OBVIOUS
  <2> QED BY <2>1
<1>2. ASSUME NEW m \in Nat, m \in T
      PROVE  m + 1 \in T
  <2> SUFFICES ASSUME m + 1 <= n
               PROVE  \E f : Good(m + 1, f)
    OBVIOUS
  <2>1. PICK f : Good(m, f)
    BY <1>2
  <2> DEFINE v == F[m + 1][f[m]]
             g == [k \in 0 .. m + 1 |-> IF k = m + 1 THEN v ELSE f[k]]
  <2>2. v \in V
    BY <2>1
  <2>3. g \in [0 .. m + 1 -> V] /\ g[0] = c
    BY <2>1, <2>2
  <2>4. ASSUME NEW k \in 1 .. m + 1
        PROVE  g[k] = F[k][g[k - 1]]
    <3>1. CASE k = m + 1
      <4>1. g[m + 1] = v /\ g[m] = f[m]
        OBVIOUS
      <4> QED BY <3>1, <4>1
    <3>2. CASE k # m + 1
      <4>1. k \in 1 .. m /\ g[k] = f[k] /\ g[k - 1] = f[k - 1]
        BY <3>2
      <4> QED BY <2>1, <4>1
    <3> QED BY <3>1, <3>2
  <2>5. Good(m + 1, g)
    BY <2>3, <2>4
  <2> HIDE DEF g
  <2> QED BY <2>5
<1>3. n \in T
  <2>1. T \in SUBSET Nat
    OBVIOUS
  <2> HIDE DEF T
  <2> QED BY <1>1, <1>2, <2>1, SetInduction
<1> QED BY <1>3

\* What is put together piece by piece, and where the pieces are in it.
Joined(S, n, x, f) ==
  /\ n \in Nat /\ x \in [1 .. n -> Seq(S)] /\ f \in [0 .. n -> Seq(S)]
  /\ f[0] = <<>> /\ \A i \in 1 .. n : f[i] = f[i - 1] \o x[i]

\* Every piece is there, behind those before it.
Lengthened(n, x, f) ==
  \A i \in 1 .. n :
    /\ Len(f[i - 1]) \in Nat /\ Len(x[i]) \in Nat /\ Len(f[i]) = Len(f[i - 1]) + Len(x[i])
    /\ \A p \in 1 .. Len(f[i - 1]) : f[i][p] = f[i - 1][p]
    /\ \A p \in 1 .. Len(x[i]) : f[i][Len(f[i - 1]) + p] = x[i][p]
Kept(n, f) ==
  \A i, j \in 0 .. n : i <= j =>
    Len(f[i]) \in Nat /\ Len(f[i]) <= Len(f[j]) /\ \A p \in 1 .. Len(f[i]) : f[j][p] = f[i][p]
Placed(n, x, f) ==
  /\ \A i \in 0 .. n : Len(f[i]) \in Nat /\ Len(f[i]) <= Len(f[n])
  /\ \A i \in 1 .. n :
       /\ Len(x[i]) \in Nat /\ Len(f[i]) = Len(f[i - 1]) + Len(x[i])
       /\ \A p \in 1 .. Len(x[i]) : f[n][Len(f[i - 1]) + p] = x[i][p]

LEMMA PiecesExist ==
  ASSUME NEW S, NEW n \in Nat, NEW x \in [1 .. n -> Seq(S)]
  PROVE  \E f : Joined(S, n, x, f)
<1> DEFINE V == Seq(S)
           F == [k \in 1 .. n |-> [v \in V |-> v \o x[k]]]
<1>1. F \in [1 .. n -> [V -> V]]
  OBVIOUS
<1>2. <<>> \in V
  OBVIOUS
<1>3. \A k \in 1 .. n : \A v \in V : F[k][v] = v \o x[k]
  OBVIOUS
<1> HIDE DEF F, V
<1>4. Recursive(n, V, <<>>, F)
  BY <1>1, <1>2, RecursionExists, Zenon
<1>5. PICK f \in [0 .. n -> V] : f[0] = <<>> /\ \A k \in 1 .. n : f[k] = F[k][f[k - 1]]
  BY <1>4 DEF Recursive
<1>6. \A k \in 1 .. n : f[k - 1] \in V
  BY <1>5
<1>7. \A k \in 1 .. n : f[k] = f[k - 1] \o x[k]
  BY <1>3, <1>5, <1>6
<1> QED
  BY <1>5, <1>7 DEF V, Joined

LEMMA PieceLengths ==
  ASSUME NEW S, NEW n, NEW x, NEW f, Joined(S, n, x, f)
  PROVE  Lengthened(n, x, f)
<1> USE DEF Lengthened
<1>0. n \in Nat
  BY DEF Joined
<1> TAKE i \in 1 .. n
<1> DEFINE a == f[i - 1]
           b == x[i]
<1>1. i - 1 \in 0 .. n
  BY <1>0
<1>2. a \in Seq(S) /\ b \in Seq(S) /\ f[i] = a \o b
  BY <1>1 DEF Joined
<1> HIDE DEF a, b
<1>3. /\ Len(a) \in Nat /\ Len(b) \in Nat /\ Len(a \o b) = Len(a) + Len(b)
      /\ \A p \in 1 .. Len(a) + Len(b) : (a \o b)[p] = IF p <= Len(a) THEN a[p] ELSE b[p - Len(a)]
  BY <1>2, ConcatProperties
<1>4. \A p \in 1 .. Len(a) : (a \o b)[p] = a[p]
  BY <1>3
<1>5. \A p \in 1 .. Len(b) : (a \o b)[Len(a) + p] = b[p]
  <2> TAKE p \in 1 .. Len(b)
  <2>1. Len(a) + p \in 1 .. Len(a) + Len(b) /\ ~ (Len(a) + p <= Len(a)) /\ (Len(a) + p) - Len(a) = p
    BY <1>3
  <2> QED
    BY <1>3, <2>1
<1> QED
  BY <1>2, <1>3, <1>4, <1>5 DEF a, b

LEMMA PiecesStay ==
  ASSUME NEW S, NEW n, NEW x, NEW f, Joined(S, n, x, f)
  PROVE  Kept(n, f)
<1> USE DEF Kept
<1> SUFFICES ASSUME NEW i \in 0 .. n
             PROVE  \A j \in 0 .. n : i <= j =>
                      Len(f[i]) \in Nat /\ Len(f[i]) <= Len(f[j]) /\ \A p \in 1 .. Len(f[i]) : f[j][p] = f[i][p]
  OBVIOUS
<1> DEFINE Has(j) == Len(f[i]) <= Len(f[j]) /\ \A p \in 1 .. Len(f[i]) : f[j][p] = f[i][p]
           T == {j \in Nat : j \in i .. n => Has(j)}
<1>0. n \in Nat /\ i \in Nat /\ \A j \in 0 .. n : Len(f[j]) \in Nat
  BY DEF Joined
<1>1. Has(i)
  BY <1>0
<1>2. ASSUME NEW j \in Nat, j \in i .. n - 1, Has(j)
      PROVE  Has(j + 1)
  <2>1. j + 1 \in 1 .. n /\ (j + 1) - 1 = j /\ j + 1 \in 0 .. n
    BY <1>0, <1>2
  <2>2. /\ Len(f[j]) \in Nat /\ Len(f[j]) <= Len(f[j + 1])
        /\ \A p \in 1 .. Len(f[j]) : f[j + 1][p] = f[j][p]
    <3> DEFINE k == j + 1
    <3>1. k \in 1 .. n /\ k - 1 = j
      BY <2>1
    <3> HIDE DEF k
    <3>2. /\ Len(f[k - 1]) \in Nat /\ Len(x[k]) \in Nat /\ Len(f[k]) = Len(f[k - 1]) + Len(x[k])
          /\ \A p \in 1 .. Len(f[k - 1]) : f[k][p] = f[k - 1][p]
      <4>1. Lengthened(n, x, f)
        BY PieceLengths
      <4> QED
        BY <3>1, <4>1 DEF Lengthened
    <3>3. Len(f[j]) \in Nat /\ Len(x[k]) \in Nat /\ Len(f[k]) = Len(f[j]) + Len(x[k])
      BY <3>1, <3>2
    <3>4. Len(f[j]) <= Len(f[k])
      <4>1. \A a, b \in Nat : a <= a + b
        OBVIOUS
      <4> QED
        BY <3>3, <4>1
    <3>5. \A p \in 1 .. Len(f[j]) : f[k][p] = f[j][p]
      BY <3>1, <3>2
    <3> QED
      BY <3>3, <3>4, <3>5 DEF k
  <2>3. Len(f[i]) \in Nat /\ Len(f[j + 1]) \in Nat
    BY <1>0, <2>1
  <2>4. \A p \in 1 .. Len(f[i]) : p \in 1 .. Len(f[j])
    BY <1>2, <2>2, <2>3
  <2> QED
    BY <1>2, <2>2, <2>3, <2>4
<1> HIDE DEF Has
<1>3. T = Nat
  <2>1. 0 \in T
    <3>1. 0 \in i .. n => i = 0
      BY <1>0
    <3> QED
      BY <1>1, <3>1
  <2>2. ASSUME NEW j \in Nat, j \in T
        PROVE  j + 1 \in T
    <3> SUFFICES ASSUME j + 1 \in i .. n
                 PROVE  Has(j + 1)
      OBVIOUS
    <3>1. CASE j + 1 = i
      BY <1>1, <3>1
    <3>2. CASE j + 1 # i
      <4>1. j \in i .. n - 1 /\ j \in i .. n
        BY <1>0, <3>2
      <4> QED
        BY <1>2, <2>2, <4>1
    <3> QED
      BY <3>1, <3>2
  <2>3. T \in SUBSET Nat
    OBVIOUS
  <2> HIDE DEF T
  <2> QED
    BY <2>1, <2>2, <2>3, SetInduction
<1>4. ASSUME NEW j \in 0 .. n, i <= j
      PROVE  Has(j)
  <2>1. j \in T /\ j \in i .. n
    <3>1. j \in Nat /\ j \in i .. n
      BY <1>0, <1>4
    <3> HIDE DEF T
    <3> QED
      BY <1>3, <3>1
  <2> QED
    BY <2>1
<1> QED
  BY <1>0, <1>4 DEF Has

LEMMA Pieces ==
  ASSUME NEW S, NEW n, NEW x, NEW f, Joined(S, n, x, f)
  PROVE  Placed(n, x, f)
<1> USE DEF Placed
<1>1. \A i \in 0 .. n :
        Len(f[i]) \in Nat /\ Len(f[i]) <= Len(f[n]) /\ \A p \in 1 .. Len(f[i]) : f[n][p] = f[i][p]
  <2>1. n \in 0 .. n /\ \A i \in 0 .. n : i <= n
    BY DEF Joined
  <2>2. Kept(n, f)
    BY PiecesStay
  <2> QED
    BY <2>1, <2>2 DEF Kept
<1>2. ASSUME NEW i \in 1 .. n
      PROVE  /\ Len(x[i]) \in Nat /\ Len(f[i]) = Len(f[i - 1]) + Len(x[i])
             /\ \A p \in 1 .. Len(x[i]) : f[n][Len(f[i - 1]) + p] = x[i][p]
  <2>1. /\ Len(f[i - 1]) \in Nat /\ Len(x[i]) \in Nat /\ Len(f[i]) = Len(f[i - 1]) + Len(x[i])
        /\ \A p \in 1 .. Len(x[i]) : f[i][Len(f[i - 1]) + p] = x[i][p]
    <3>1. Lengthened(n, x, f)
      BY PieceLengths
    <3> QED
      BY <3>1 DEF Lengthened
  <2>2. \A p \in 1 .. Len(x[i]) : Len(f[i - 1]) + p \in 1 .. Len(f[i])
    <3> DEFINE a == Len(f[i - 1])
               b == Len(x[i])
    <3>1. a \in Nat /\ b \in Nat /\ Len(f[i]) = a + b
      BY <2>1
    <3> HIDE DEF a, b
    <3>2. \A p \in 1 .. b : a + p \in 1 .. a + b
      BY <3>1
    <3> QED
      BY <3>1, <3>2 DEF a, b
  <2>3. \A p \in 1 .. Len(f[i]) : f[n][p] = f[i][p]
    BY <1>1
  <2> QED
    BY <2>1, <2>2, <2>3
<1> QED
  BY <1>1, <1>2

\* Whoever is put together like that is the one.
ByPieces(n, x, g) == g = [i \in 0 .. n |-> IF i = 0 THEN <<>> ELSE g[i - 1] \o x[i]]

LEMMA JoinedByPieces ==
  ASSUME NEW S, NEW n, NEW x, NEW f, Joined(S, n, x, f)
  PROVE  ByPieces(n, x, f)
<1>1. \A i \in 0 .. n : f[i] = IF i = 0 THEN <<>> ELSE f[i - 1] \o x[i]
  <2> TAKE i \in 0 .. n
  <2>1. CASE i = 0
    BY <2>1 DEF Joined
  <2>2. CASE i # 0
    <3>1. i \in 1 .. n
      BY <2>2 DEF Joined
    <3>2. f[i] = f[i - 1] \o x[i]
      BY <3>1 DEF Joined
    <3> QED
      BY <2>2, <3>2
  <2> QED
    BY <2>1, <2>2
<1>2. f = [i \in 0 .. n |-> f[i]]
  BY DEF Joined
<1> QED
  BY <1>1, <1>2 DEF ByPieces

LEMMA PiecesJoined ==
  ASSUME NEW S, NEW n \in Nat, NEW x \in [1 .. n -> Seq(S)], NEW g, ByPieces(n, x, g)
  PROVE  Joined(S, n, x, g)
<1>1. PICK f : Joined(S, n, x, f)
  BY PiecesExist
<1>2. g[0] = <<>> /\ \A i \in 1 .. n : g[i] = g[i - 1] \o x[i]
  <2>1. \A i \in 0 .. n : g[i] = IF i = 0 THEN <<>> ELSE g[i - 1] \o x[i]
    BY Zenon DEF ByPieces
  <2>2. 0 \in 0 .. n /\ \A i \in 1 .. n : i \in 0 .. n /\ i # 0
    OBVIOUS
  <2> QED
    BY <2>1, <2>2
<1> DEFINE T == {i \in Nat : i <= n => g[i] = f[i]}
<1>3. 0 \in T
  BY <1>1, <1>2 DEF Joined
<1>4. ASSUME NEW i \in Nat, i \in T
      PROVE  i + 1 \in T
  <2> SUFFICES ASSUME i + 1 <= n
               PROVE  g[i + 1] = f[i + 1]
    OBVIOUS
  <2> DEFINE j == i + 1
  <2>1. j \in 1 .. n /\ j - 1 = i /\ g[i] = f[i]
    BY <1>4
  <2> HIDE DEF j
  <2>2. g[j] = g[j - 1] \o x[j] /\ f[j] = f[j - 1] \o x[j]
    BY <1>1, <1>2, <2>1 DEF Joined
  <2>3. g[j] = f[j]
    BY <2>1, <2>2
  <2> QED
    BY <2>3 DEF j
<1>5. T = Nat
  <2>1. T \in SUBSET Nat
    OBVIOUS
  <2> HIDE DEF T
  <2> QED
    BY <1>3, <1>4, <2>1, SetInduction
<1>6. \A i \in 0 .. n : g[i] = f[i]
  <2> TAKE i \in 0 .. n
  <2>1. i \in T
    <3>1. i \in Nat
      OBVIOUS
    <3> HIDE DEF T
    <3> QED
      BY <1>5, <3>1
  <2> QED
    BY <2>1
<1>7. g = [i \in 0 .. n |-> g[i]]
  <2>1. g = [i \in 0 .. n |-> IF i = 0 THEN <<>> ELSE g[i - 1] \o x[i]]
    BY DEF ByPieces
  <2> QED
    BY <2>1
<1>8. f = [i \in 0 .. n |-> f[i]]
  BY <1>1 DEF Joined
<1> QED
  BY <1>1, <1>6, <1>7, <1>8

\* s is a and behind it b.
Behind2(S, s, a, la, b, lb) ==
  /\ s \in Seq(S) /\ Len(s) = la + lb
  /\ \A p \in 1 .. la : s[p] = a[p]
  /\ \A p \in 1 .. lb : s[la + p] = b[p]

LEMMA TwoPieces ==
  ASSUME NEW S, NEW a \in Seq(S), NEW b \in Seq(S), NEW la, Len(a) = la, NEW lb, Len(b) = lb
  PROVE  Behind2(S, a \o b, a, la, b, lb)
<1>1. la \in Nat /\ lb \in Nat
  OBVIOUS
<1>2. /\ a \o b \in Seq(S) /\ Len(a \o b) = la + lb
      /\ \A p \in 1 .. la + lb : (a \o b)[p] = IF p <= la THEN a[p] ELSE b[p - la]
  BY ConcatProperties
<1>3. \A p \in 1 .. la : (a \o b)[p] = a[p]
  BY <1>1, <1>2
<1>4. \A p \in 1 .. lb : (a \o b)[la + p] = b[p]
  <2> TAKE p \in 1 .. lb
  <2>1. la + p \in 1 .. la + lb /\ ~ (la + p <= la) /\ (la + p) - la = p
    BY <1>1
  <2> QED
    BY <1>2, <2>1
<1> QED
  BY <1>2, <1>3, <1>4 DEF Behind2

\* The sums of a sequence are those the recursion says.
Summed(seq) ==
  /\ Sums(seq) \in [0 .. Len(seq) -> Nat] /\ Sums(seq)[0] = 0
  /\ \A k \in 1 .. Len(seq) : Sums(seq)[k] = Sums(seq)[k - 1] + seq[k]

LEMMA SumsType ==
  ASSUME NEW seq \in Seq(Nat)
  PROVE  Summed(seq)
<1> USE DEF Summed
<1> DEFINE n == Len(seq)
           F == [k \in 1 .. n |-> [v \in Nat |-> v + seq[k]]]
           Rec(f) == f = [k \in 0 .. n |-> IF k = 0 THEN 0 ELSE f[k - 1] + seq[k]]
<1>1. F \in [1 .. n -> [Nat -> Nat]]
  OBVIOUS
<1>2. \E f \in [0 .. n -> Nat] : f[0] = 0 /\ \A k \in 1 .. n : f[k] = F[k][f[k - 1]]
  <2>1. n \in Nat /\ 0 \in Nat
    OBVIOUS
  <2>2. Recursive(n, Nat, 0, F)
    <3> HIDE DEF F, n
    <3> QED BY <1>1, <2>1, RecursionExists, Zenon
  <2> HIDE DEF F, n
  <2> QED BY <2>2 DEF Recursive
<1>3. PICK f \in [0 .. n -> Nat] : f[0] = 0 /\ \A k \in 1 .. n : f[k] = F[k][f[k - 1]]
  BY <1>2
<1>4. Rec(f)
  <2>1. ASSUME NEW k \in 1 .. n
        PROVE  f[k] = f[k - 1] + seq[k]
    <3>0. \A i \in 1 .. n : f[i] = F[i][f[i - 1]]
      BY <1>3
    <3>1. f[k] = F[k][f[k - 1]]
      <4> HIDE DEF F, n
      <4> QED BY <3>0
    <3>2. f[k - 1] \in Nat
      BY Z3T(30)
    <3>3. \A v \in Nat : F[k][v] = v + seq[k]
      OBVIOUS
    <3> HIDE DEF F
    <3> QED BY <3>1, <3>2, <3>3
  <2> QED BY <1>3, <2>1
<1>5. Sums(seq) = CHOOSE g : Rec(g)
  BY DEF Sums
<1>6. Rec(Sums(seq))
  <2> HIDE DEF Rec
  <2> QED BY <1>4, <1>5
<1>7. ASSUME NEW g, Rec(g)
      PROVE  g \in [0 .. n -> Nat] /\ g[0] = 0 /\ \A k \in 1 .. n : g[k] = g[k - 1] + seq[k]
  OBVIOUS
<1> QED
  BY <1>6, <1>7

\* They only grow.
Growing(seq) == \A i, j \in 0 .. Len(seq) : i <= j => Sums(seq)[i] <= Sums(seq)[j]

LEMMA SumsGrow ==
  ASSUME NEW seq \in Seq(Nat)
  PROVE  Growing(seq)
<1> DEFINE n == Len(seq)
           f == Sums(seq)
<1>1. f \in [0 .. n -> Nat] /\ n \in Nat
  BY SumsType DEF Summed
<1>2. \A k \in 1 .. n : f[k] = f[k - 1] + seq[k] /\ seq[k] \in Nat
  BY SumsType DEF Summed
<1> HIDE DEF n, f
<1> SUFFICES ASSUME NEW i \in 0 .. n
             PROVE  \A j \in 0 .. n : i <= j => f[i] <= f[j]
  BY DEF Growing, n, f
<1> DEFINE T == {j \in Nat : j \in i .. n => f[i] <= f[j]}
<1>3. 0 \in T
  BY <1>1
<1>4. ASSUME NEW j \in Nat, j \in T
      PROVE  j + 1 \in T
  <2> SUFFICES ASSUME j + 1 \in i .. n
               PROVE  f[i] <= f[j + 1]
    OBVIOUS
  <2>1. CASE j + 1 = i
    BY <1>1, <2>1
  <2>2. CASE j + 1 # i
    <3>1. j \in i .. n /\ j + 1 \in 1 .. n /\ j \in 0 .. n /\ (j + 1) - 1 = j
      BY <1>1, <2>2
    <3>2. f[i] <= f[j] /\ f[j + 1] = f[j] + seq[j + 1] /\ seq[j + 1] \in Nat
      BY <1>2, <1>4, <3>1
    <3>3. f[i] \in Nat /\ f[j] \in Nat
      BY <1>1, <3>1
    <3> QED
      BY <3>2, <3>3
  <2> QED
    BY <2>1, <2>2
<1>5. T = Nat
  <2>1. T \in SUBSET Nat
    OBVIOUS
  <2> HIDE DEF T
  <2> QED
    BY <1>3, <1>4, <2>1, SetInduction
<1>6. ASSUME NEW j \in 0 .. n, i <= j
      PROVE  f[i] <= f[j]
  <2>1. j \in Nat /\ j \in i .. n
    BY <1>1, <1>6
  <2>2. j \in T
    BY <1>5, <2>1
  <2> QED
    BY <2>1, <2>2
<1> QED
  BY <1>6

\* What a client sends is made of heads and of parts.
Parts == [t : {"size", "data", "eol", "footers"}, of : Connections \X Nat, n : Nat]
HeadTokens == [t : {"head"}, of : Connections \X Nat, n : {0}, q : WellFormed]
AllTokens == Parts \cup HeadTokens

LEMMA TokenTypes ==
  ASSUME NEW c \in Connections, NEW k \in Nat, NEW n \in Nat
  PROVE  /\ \A t \in {"size", "data", "eol", "footers"} : Token(t, c, k, n) \in Parts
         /\ \A q \in WellFormed : HeadToken(c, k, q) \in HeadTokens
BY DEF Token, HeadToken, Parts, HeadTokens

LEMMA UnitsShape ==
  ASSUME NEW c \in Connections, NEW k \in Nat, NEW from \in Nat, NEW m \in Nat
  PROVE  /\ Units(c, k, from, m) \in Seq(Parts) /\ Len(Units(c, k, from, m)) = m
         /\ \A j \in 1 .. m : Units(c, k, from, m)[j] = Token("data", c, k, from + j)
<1>1. \A j \in 1 .. m : Token("data", c, k, from + j) \in Parts
  BY TokenTypes
<1> QED
  BY <1>1 DEF Units

\* The parts of a chunk.
IsChunk(s, c, k, before, m) ==
  /\ s \in Seq(Parts) /\ Len(s) = m + 2
  /\ s[1] = Token("size", c, k, m) /\ s[m + 2] = Token("eol", c, k, 0)
  /\ \A j \in 1 .. m : s[1 + j] = Token("data", c, k, before + j)

LEMMA ChunkShape ==
  ASSUME NEW c \in Connections, NEW k \in Nat, NEW sizes \in Seq(Nat), NEW i \in 1 .. Len(sizes)
  PROVE  IsChunk(Chunk(c, k, sizes, i), c, k, Sums(sizes)[i - 1], sizes[i])
<1> DEFINE m == sizes[i]
           before == Sums(sizes)[i - 1]
           a == <<Token("size", c, k, m)>>
           b == Units(c, k, before, m)
           e == <<Token("eol", c, k, 0)>>
<1>1. m \in Nat /\ before \in Nat
  <2>1. Summed(sizes) /\ i - 1 \in 0 .. Len(sizes)
    BY SumsType
  <2>2. m \in Nat
    OBVIOUS
  <2>3. Sums(sizes) \in [0 .. Len(sizes) -> Nat]
    BY <2>1 DEF Summed
  <2>4. before \in Nat
    BY <2>1, <2>3
  <2> QED
    BY <2>2, <2>4
<1>2. a \in Seq(Parts) /\ e \in Seq(Parts) /\ Len(a) = 1 /\ Len(e) = 1
  BY <1>1, TokenTypes
<1>3. a[1] = Token("size", c, k, m) /\ e[1] = Token("eol", c, k, 0)
  OBVIOUS
<1>4. b \in Seq(Parts) /\ Len(b) = m /\ \A j \in 1 .. m : b[j] = Token("data", c, k, before + j)
  BY <1>1, UnitsShape, ZenonT(30)
<1>5. Chunk(c, k, sizes, i) = a \o b \o e
  BY DEF Chunk
<1> HIDE DEF m, before, a, b, e
<1> DEFINE ab == a \o b
<1>6. Behind2(Parts, ab, a, 1, b, m)
  BY <1>1, <1>2, <1>4, TwoPieces
<1> HIDE DEF ab
<1> DEFINE s == ab \o e
<1>7. Behind2(Parts, s, ab, 1 + m, e, 1)
  <2>1. ab \in Seq(Parts) /\ Len(ab) = 1 + m
    BY <1>6 DEF Behind2
  <2> QED
    BY <1>2, <2>1, TwoPieces
<1> HIDE DEF s
<1>8. s[1] = Token("size", c, k, m)
  BY <1>1, <1>3, <1>6, <1>7 DEF Behind2
<1>9. s[m + 2] = Token("eol", c, k, 0)
  <2>1. s[(1 + m) + 1] = e[1]
    BY <1>7 DEF Behind2
  <2>2. (1 + m) + 1 = m + 2
    BY <1>1
  <2> QED
    BY <1>3, <2>1, <2>2
<1>10. \A j \in 1 .. m : s[1 + j] = Token("data", c, k, before + j)
  <2> TAKE j \in 1 .. m
  <2>1. 1 + j \in 1 .. 1 + m
    BY <1>1
  <2>2. s[1 + j] = ab[1 + j] /\ ab[1 + j] = b[j]
    BY <1>6, <1>7, <2>1 DEF Behind2
  <2> QED
    BY <1>4, <2>2
<1>12. s \in Seq(Parts) /\ Len(s) = m + 2
  BY <1>1, <1>7 DEF Behind2
<1>11. IsChunk(s, c, k, before, m)
  BY <1>8, <1>9, <1>10, <1>12 DEF IsChunk
<1> QED
  BY <1>5, <1>11 DEF s, ab, m, before

\* The chunks of a body are one behind the other.
Chunk1(c, k, sizes) == [i \in 1 .. Len(sizes) |-> Chunk(c, k, sizes, i)]

LEMMA ChunksShape ==
  ASSUME NEW c \in Connections, NEW k \in Nat, NEW sizes \in Seq(Nat)
  PROVE  Joined(Parts, Len(sizes), Chunk1(c, k, sizes), Chunks(c, k, sizes))
<1> DEFINE n == Len(sizes)
           x == Chunk1(c, k, sizes)
<1>1. n \in Nat /\ \A i \in 1 .. n : Chunk(c, k, sizes, i) \in Seq(Parts)
  BY ChunkShape DEF IsChunk
<1>2. x \in [1 .. n -> Seq(Parts)] /\ \A i \in 1 .. n : x[i] = Chunk(c, k, sizes, i)
  BY <1>1 DEF Chunk1
<1> HIDE DEF x, n
<1>3. PICK f : Joined(Parts, n, x, f)
  BY <1>1, <1>2, PiecesExist
<1> DEFINE Rec(g) == g = [i \in 0 .. n |-> IF i = 0 THEN <<>> ELSE g[i - 1] \o Chunk(c, k, sizes, i)]
<1>4. ASSUME NEW g
      PROVE  Rec(g) <=> ByPieces(n, x, g)
  <2>1. \A i \in 0 .. n : i # 0 => i \in 1 .. n
    BY <1>1
  <2>2. \A i \in 0 .. n : (IF i = 0 THEN <<>> ELSE g[i - 1] \o Chunk(c, k, sizes, i))
                         = (IF i = 0 THEN <<>> ELSE g[i - 1] \o x[i])
    BY <1>2, <2>1
  <2>3. [i \in 0 .. n |-> IF i = 0 THEN <<>> ELSE g[i - 1] \o Chunk(c, k, sizes, i)]
          = [i \in 0 .. n |-> IF i = 0 THEN <<>> ELSE g[i - 1] \o x[i]]
    BY <2>2
  <2> QED
    BY <2>3 DEF ByPieces
<1>6. Rec(f)
  BY <1>3, <1>4, JoinedByPieces
<1>7. Chunks(c, k, sizes) = CHOOSE g : Rec(g)
  BY DEF Chunks, n
<1> HIDE DEF Rec
<1>8. Rec(Chunks(c, k, sizes))
  BY <1>6, <1>7
<1>9. ByPieces(n, x, Chunks(c, k, sizes))
  BY <1>4, <1>8
<1> QED
  BY <1>1, <1>2, <1>9, PiecesJoined DEF n, x

\* Where the i-th chunk ends in a body.
ChunkEnd(c, k, q, i) == Len(Chunks(c, k, q.chunks)[i])

\* The i-th chunk begins with its size and ends with the end of a line.
HasChunk(s, c, k, q, i) ==
  /\ ChunkEnd(c, k, q, i - 1) \in Nat /\ q.chunks[i] \in Nat \ {0}
  /\ ChunkEnd(c, k, q, i) = ChunkEnd(c, k, q, i - 1) + q.chunks[i] + 2
  /\ s[ChunkEnd(c, k, q, i - 1) + 2] = Token("size", c, k, q.chunks[i])
  /\ \A j \in 1 .. q.chunks[i] :
       s[ChunkEnd(c, k, q, i - 1) + 2 + j] = Token("data", c, k, Sums(q.chunks)[i - 1] + j)
  /\ s[ChunkEnd(c, k, q, i - 1) + q.chunks[i] + 3] = Token("eol", c, k, 0)
HasChunks(s, c, k, q) ==
  LET n == Len(q.chunks) IN
  /\ n \in Nat \ {0} /\ ChunkEnd(c, k, q, 0) = 0 /\ ChunkEnd(c, k, q, n) \in Nat
  /\ Len(s) = ChunkEnd(c, k, q, n) + 3
  /\ \A i \in 1 .. n : HasChunk(s, c, k, q, i)
  /\ s[ChunkEnd(c, k, q, n) + 2] = Token("size", c, k, 0)
  /\ s[ChunkEnd(c, k, q, n) + 3] = Token("footers", c, k, 0)
HasCounted(s, c, k, q) ==
  Len(s) = 1 + q.body /\ \A j \in 1 .. q.body : s[1 + j] = Token("data", c, k, j)

LEMMA ChunksPlaced ==
  ASSUME NEW c \in Connections, NEW k \in Nat, NEW sizes \in Seq(Nat)
  PROVE  LET C == Chunks(c, k, sizes)
         IN  /\ C \in [0 .. Len(sizes) -> Seq(Parts)] /\ C[0] = <<>>
             /\ Placed(Len(sizes), Chunk1(c, k, sizes), C)
BY ChunksShape, Pieces DEF Joined

\* A request with chunks: its head, the chunks, and what ends them.
LEMMA ChunkedShape ==
  ASSUME NEW c \in Connections, NEW k \in Nat, NEW q \in WellFormed, ChunkedBody(q)
  PROVE  /\ Tokens(c, k, q) \in Seq(AllTokens) /\ Tokens(c, k, q)[1] = HeadToken(c, k, q)
         /\ HasChunks(Tokens(c, k, q), c, k, q)
<1> DEFINE sizes == q.chunks
           n == Len(sizes)
           C == Chunks(c, k, sizes)
           a == <<HeadToken(c, k, q)>>
           d == C[n]
           e == <<Token("size", c, k, 0), Token("footers", c, k, 0)>>
           end(i) == Len(C[i])
<1>1. sizes \in Seq(Nat \ {0}) /\ sizes \in Seq(Nat) /\ n \in Nat \ {0}
  BY DEF WellFormed, ChunkedBody
<1>2. C \in [0 .. n -> Seq(Parts)] /\ C[0] = <<>> /\ Placed(n, Chunk1(c, k, sizes), C)
  BY <1>1, ChunksPlaced
<1>3. HeadToken(c, k, q) \in AllTokens /\ Token("size", c, k, 0) \in AllTokens /\ Token("footers", c, k, 0) \in AllTokens
  BY TokenTypes DEF AllTokens
<1>4. a \in Seq(AllTokens) /\ Len(a) = 1 /\ a[1] = HeadToken(c, k, q)
  BY <1>3
<1>5. e \in Seq(AllTokens) /\ Len(e) = 2 /\ e[1] = Token("size", c, k, 0) /\ e[2] = Token("footers", c, k, 0)
  BY <1>3
<1>6. d \in Seq(AllTokens) /\ end(n) \in Nat /\ Len(d) = end(n)
  <2>1. d \in Seq(Parts)
    BY <1>1, <1>2
  <2> QED
    BY <2>1 DEF AllTokens
<1>7. Tokens(c, k, q) = a \o (d \o e)
  BY DEF Tokens
<1>8. \A i \in 1 .. n : /\ end(i - 1) \in Nat /\ end(i) = end(i - 1) + sizes[i] + 2
                        /\ \A p \in 1 .. sizes[i] + 2 : d[end(i - 1) + p] = Chunk(c, k, sizes, i)[p]
                        /\ sizes[i] \in Nat \ {0}
                        /\ \A j \in 0 .. sizes[i] + 2 : end(i - 1) + j <= end(n)
  <2> TAKE i \in 1 .. n
  <2>0. sizes[i] \in Nat \ {0} /\ i - 1 \in 0 .. n /\ i \in 0 .. n
    BY <1>1
  <2>1. Len(Chunk(c, k, sizes, i)) = sizes[i] + 2 /\ Chunk1(c, k, sizes)[i] = Chunk(c, k, sizes, i)
    BY <1>1, ChunkShape, SMTT(30) DEF IsChunk, Chunk1
  <2>2. end(i - 1) \in Nat /\ end(i) <= end(n) /\ end(i) \in Nat
    BY <1>2, <2>0 DEF Placed
  <2>3. end(i) = end(i - 1) + Len(Chunk(c, k, sizes, i))
    BY <1>2, <2>1 DEF Placed
  <2>4. \A p \in 1 .. Len(Chunk(c, k, sizes, i)) : d[end(i - 1) + p] = Chunk(c, k, sizes, i)[p]
    BY <1>2, <2>1 DEF Placed
  <2> HIDE DEF sizes, n, C, d, end
  <2>5. end(i) = end(i - 1) + sizes[i] + 2
    BY <2>0, <2>1, <2>2, <2>3
  <2>6. \A j \in 0 .. sizes[i] + 2 : end(i - 1) + j <= end(n)
    BY <1>6, <2>0, <2>2, <2>5, SMTT(30)
  <2> QED
    BY <2>0, <2>1, <2>2, <2>4, <2>5, <2>6
<1>9. end(0) = 0
  BY <1>2
<1>10. \A i \in 1 .. n : IsChunk(Chunk(c, k, sizes, i), c, k, Sums(sizes)[i - 1], sizes[i])
  BY <1>1, ChunkShape
<1> HIDE DEF sizes, n, C, a, d, e, end
<1> DEFINE de == d \o e
<1>11. Behind2(AllTokens, de, d, end(n), e, 2)
  BY <1>5, <1>6, TwoPieces
<1> HIDE DEF de
<1> DEFINE s == a \o de
<1>12. Behind2(AllTokens, s, a, 1, de, end(n) + 2)
  <2>1. de \in Seq(AllTokens) /\ Len(de) = end(n) + 2
    BY <1>11 DEF Behind2
  <2> QED
    BY <1>4, <2>1, TwoPieces
<1> HIDE DEF s
<1>13. s \in Seq(AllTokens) /\ s[1] = HeadToken(c, k, q) /\ Len(s) = end(n) + 3
  BY <1>4, <1>6, <1>12 DEF Behind2
<1>14. \A p \in 1 .. end(n) : s[1 + p] = d[p]
  BY <1>6, <1>11, <1>12 DEF Behind2
<1>15. s[end(n) + 2] = Token("size", c, k, 0) /\ s[end(n) + 3] = Token("footers", c, k, 0)
  <2>1. de[end(n) + 1] = e[1] /\ de[end(n) + 2] = e[2]
    BY <1>11 DEF Behind2
  <2>2. s[1 + (end(n) + 1)] = de[end(n) + 1] /\ s[1 + (end(n) + 2)] = de[end(n) + 2]
    BY <1>6, <1>12 DEF Behind2
  <2>3. 1 + (end(n) + 1) = end(n) + 2 /\ 1 + (end(n) + 2) = end(n) + 3
    BY <1>6
  <2> QED
    BY <1>5, <2>1, <2>2, <2>3
<1>16. ASSUME NEW i \in 1 .. n
       PROVE  HasChunk(s, c, k, q, i)
  <2> DEFINE m == sizes[i]
             b == end(i - 1)
             x == Chunk(c, k, sizes, i)
  <2>1. b \in Nat /\ m \in Nat \ {0} /\ end(i) = b + m + 2
    BY <1>8
  <2>2. (\A p \in 1 .. m + 2 : d[b + p] = x[p]) /\ \A j \in 0 .. m + 2 : b + j <= end(n)
    BY <1>8
  <2>3. IsChunk(x, c, k, Sums(sizes)[i - 1], m)
    BY <1>10
  <2> HIDE DEF m, b, x
  <2>4. \A p \in 1 .. m + 2 : s[1 + (b + p)] = x[p]
    <3> TAKE p \in 1 .. m + 2
    <3>1. b + p \in 1 .. end(n)
      <4>1. p \in 0 .. m + 2 /\ b + p >= 1 /\ b + p \in Nat
        BY <2>1
      <4>2. b + p <= end(n)
        BY <2>2, <4>1
      <4> QED
        BY <1>6, <4>1, <4>2
    <3> QED
      BY <1>14, <2>2, <3>1
  <2>5. s[b + 2] = Token("size", c, k, m)
    <3>1. 1 \in 1 .. m + 2 /\ 1 + (b + 1) = b + 2
      BY <2>1
    <3> QED
      BY <2>3, <2>4, <3>1 DEF IsChunk
  <2>6. s[b + m + 3] = Token("eol", c, k, 0)
    <3>1. m + 2 \in 1 .. m + 2 /\ 1 + (b + (m + 2)) = b + m + 3
      BY <2>1
    <3> QED
      BY <2>3, <2>4, <3>1 DEF IsChunk
  <2>7. \A j \in 1 .. m : s[b + 2 + j] = Token("data", c, k, Sums(sizes)[i - 1] + j)
    <3> TAKE j \in 1 .. m
    <3>1. 1 + j \in 1 .. m + 2 /\ 1 + (b + (1 + j)) = b + 2 + j
      BY <2>1
    <3> QED
      BY <2>3, <2>4, <3>1 DEF IsChunk
  <2> QED
    BY <2>1, <2>5, <2>6, <2>7 DEF HasChunk, ChunkEnd, m, b, end, C, sizes
<1>17. HasChunks(s, c, k, q)
  BY <1>1, <1>6, <1>9, <1>13, <1>15, <1>16 DEF HasChunks, ChunkEnd, end, C, n, sizes
<1> QED
  BY <1>7, <1>13, <1>17 DEF s, de

LEMMA CountedShape ==
  ASSUME NEW c \in Connections, NEW k \in Nat, NEW q \in WellFormed, ~ ChunkedBody(q)
  PROVE  /\ Tokens(c, k, q) \in Seq(AllTokens) /\ Tokens(c, k, q)[1] = HeadToken(c, k, q)
         /\ HasCounted(Tokens(c, k, q), c, k, q)
<1> DEFINE a == <<HeadToken(c, k, q)>>
           b == Units(c, k, 0, q.body)
<1>1. q.body \in Nat
  BY DEF WellFormed
<1>2. HeadToken(c, k, q) \in AllTokens
  BY TokenTypes DEF AllTokens
<1>3. a \in Seq(AllTokens) /\ Len(a) = 1 /\ a[1] = HeadToken(c, k, q)
  BY <1>2
<1>4. b \in Seq(Parts) /\ Len(b) = q.body /\ \A j \in 1 .. q.body : b[j] = Token("data", c, k, 0 + j)
  <2> DEFINE m == q.body
  <2>1. m \in Nat /\ 0 \in Nat
    BY <1>1
  <2> HIDE DEF m
  <2>2. /\ Units(c, k, 0, m) \in Seq(Parts) /\ Len(Units(c, k, 0, m)) = m
        /\ \A j \in 1 .. m : Units(c, k, 0, m)[j] = Token("data", c, k, 0 + j)
    BY <2>1, UnitsShape, ZenonT(40)
  <2> QED
    BY <2>2 DEF m
<1>5. b \in Seq(AllTokens)
  BY <1>4 DEF AllTokens
<1>6. Tokens(c, k, q) = a \o b
  BY DEF Tokens
<1> HIDE DEF a, b
<1>7. Behind2(AllTokens, a \o b, a, 1, b, q.body)
  BY <1>3, <1>4, <1>5, TwoPieces
<1>8. \A j \in 1 .. q.body : 0 + j = j
  BY <1>1
<1> QED
  BY <1>3, <1>4, <1>6, <1>7, <1>8 DEF Behind2, HasCounted

\* A request begins with its head; then there is its body.
LEMMA TokensShape ==
  ASSUME NEW c \in Connections, NEW k \in Nat, NEW q \in WellFormed
  PROVE  /\ Tokens(c, k, q) \in Seq(AllTokens) /\ Tokens(c, k, q)[1] = HeadToken(c, k, q)
         /\ Len(Tokens(c, k, q)) \in Nat \ {0}
         /\ ChunkedBody(q) => HasChunks(Tokens(c, k, q), c, k, q)
         /\ ~ ChunkedBody(q) => HasCounted(Tokens(c, k, q), c, k, q)
<1>1. q.body \in Nat
  BY DEF WellFormed
<1>2. CASE ChunkedBody(q)
  <2>1. HasChunks(Tokens(c, k, q), c, k, q)
    BY <1>2, ChunkedShape
  <2>2. Len(Tokens(c, k, q)) \in Nat \ {0}
    BY <2>1 DEF HasChunks
  <2> QED
    BY <1>2, <2>1, <2>2, ChunkedShape
<1>3. CASE ~ ChunkedBody(q)
  <2>1. Len(Tokens(c, k, q)) = 1 + q.body
    BY <1>3, CountedShape DEF HasCounted
  <2>2. Len(Tokens(c, k, q)) \in Nat \ {0}
    BY <1>1, <2>1
  <2> QED
    BY <1>3, <2>2, CountedShape
<1> QED
  BY <1>2, <1>3

----------------------------------------------------------------------------
(* The requests of a plan, one behind the other.                            *)

IsPlan(p) == /\ p \in Seq(WellFormed) /\ Len(p) \in 0 .. MaxRequests
             /\ \A k \in 1 .. Len(p) : p[k] \in WellFormed /\ k \in 1 .. MaxRequests /\ Size(p[k]) <= MaxBody

LEMMA PlanTypes == \A p \in Plans : IsPlan(p)
BY PlansAssumption DEF IsPlan

Request1(c, p) == [k \in 1 .. Len(p) |-> Tokens(c, k, p[k])]

LEMMA PrefixesShape ==
  ASSUME NEW c \in Connections, NEW p \in Plans
  PROVE  Joined(AllTokens, Len(p), Request1(c, p), Prefixes[c][p])
<1> DEFINE n == Len(p)
           x == Request1(c, p)
<1>1. n \in Nat /\ \A k \in 1 .. n : Tokens(c, k, p[k]) \in Seq(AllTokens)
  <2>1. IsPlan(p)
    BY PlanTypes
  <2>2. n \in Nat /\ \A k \in 1 .. n : k \in Nat /\ p[k] \in WellFormed
    BY <2>1 DEF IsPlan
  <2> QED
    BY <2>2, TokensShape
<1>2. x \in [1 .. n -> Seq(AllTokens)] /\ \A k \in 1 .. n : x[k] = Tokens(c, k, p[k])
  BY <1>1 DEF Request1
<1> HIDE DEF x, n
<1>3. PICK f : Joined(AllTokens, n, x, f)
  BY <1>1, <1>2, PiecesExist
<1> DEFINE Rec(g) == g = [k \in 0 .. n |-> IF k = 0 THEN <<>> ELSE g[k - 1] \o Tokens(c, k, p[k])]
<1>4. ASSUME NEW g
      PROVE  Rec(g) <=> ByPieces(n, x, g)
  <2>1. \A k \in 0 .. n : k # 0 => k \in 1 .. n
    BY <1>1
  <2>2. \A k \in 0 .. n : (IF k = 0 THEN <<>> ELSE g[k - 1] \o Tokens(c, k, p[k]))
                         = (IF k = 0 THEN <<>> ELSE g[k - 1] \o x[k])
    BY <1>2, <2>1
  <2>3. [k \in 0 .. n |-> IF k = 0 THEN <<>> ELSE g[k - 1] \o Tokens(c, k, p[k])]
          = [k \in 0 .. n |-> IF k = 0 THEN <<>> ELSE g[k - 1] \o x[k]]
    BY <2>2
  <2> QED
    BY <2>3 DEF ByPieces
<1>6. Rec(f)
  BY <1>3, <1>4, JoinedByPieces
<1>7. Prefixes[c][p] = CHOOSE g : Rec(g)
  <2>1. Prefixes[c][p] = Requested(c, p)
    BY DEF Prefixes
  <2> QED
    BY <2>1 DEF Requested, n
<1> HIDE DEF Rec
<1>8. Rec(Prefixes[c][p])
  BY <1>6, <1>7
<1>9. ByPieces(n, x, Prefixes[c][p])
  BY <1>4, <1>8
<1> QED
  BY <1>1, <1>2, <1>9, PiecesJoined DEF n, x

\* Where a request is in what a client sends.
HasRequest(c, p, k) ==
  LET b == EndOf(c, p, k - 1) s == Tokens(c, k, p[k]) IN
  /\ b \in Nat /\ Len(s) \in Nat \ {0} /\ EndOf(c, p, k) = b + Len(s) /\ EndOf(c, p, k) \in Nat
  /\ \A j \in 1 .. Len(s) : Stream[c][p][b + j] = s[j]
LEMMA StreamShape ==
  ASSUME NEW c \in Connections, NEW p \in Plans
  PROVE  /\ EndOf(c, p, 0) = 0 /\ EndOf(c, p, Len(p)) = Len(Stream[c][p])
         /\ \A k \in 0 .. Len(p) : EndOf(c, p, k) \in Nat /\ EndOf(c, p, k) <= Len(Stream[c][p])
         /\ \A k \in 1 .. Len(p) : HasRequest(c, p, k)
<1> DEFINE n == Len(p)
           x == Request1(c, p)
           f == Prefixes[c][p]
<1>1. Joined(AllTokens, n, x, f)
  BY PrefixesShape
<1>2. Placed(n, x, f)
  BY <1>1, Pieces
<1>3. Stream[c][p] = f[n]
  BY DEF Stream
<1>4. \A k \in 1 .. n : x[k] = Tokens(c, k, p[k])
  BY DEF Request1
<1>5. n \in Nat /\ \A k \in 1 .. n : p[k] \in WellFormed /\ k \in Nat
  <2>1. IsPlan(p)
    BY PlanTypes
  <2> QED
    BY <2>1 DEF IsPlan
<1>6. \A k \in 1 .. n : Len(x[k]) \in Nat \ {0}
  BY <1>4, <1>5, TokensShape, SMTT(30)
<1>7. f[0] = <<>>
  BY <1>1 DEF Joined
<1> HIDE DEF n, x, f
<1>8. \A k \in 0 .. n : Len(f[k]) \in Nat /\ Len(f[k]) <= Len(f[n])
  BY <1>2 DEF Placed
<1>9. ASSUME NEW k \in 1 .. n
      PROVE  HasRequest(c, p, k)
  <2>1. k - 1 \in 0 .. n /\ k \in 0 .. n
    BY <1>5
  <2>2. Len(f[k]) = Len(f[k - 1]) + Len(x[k]) /\ \A j \in 1 .. Len(x[k]) : f[n][Len(f[k - 1]) + j] = x[k][j]
    BY <1>2 DEF Placed
  <2> QED
    BY <1>3, <1>4, <1>6, <1>8, <2>1, <2>2 DEF HasRequest, EndOf, f
<1> QED
  BY <1>3, <1>5, <1>7, <1>8, <1>9 DEF EndOf, n, f

\* What a client sends has an end.
LEMMA StreamTypes ==
  ASSUME NEW c \in Connections, NEW p \in Plans
  PROVE  Len(Stream[c][p]) \in Nat
<1>1. Len(p) \in Nat /\ Len(p) \in 0 .. Len(p)
  BY PlanTypes DEF IsPlan
<1> QED
  BY <1>1, StreamShape

----------------------------------------------------------------------------
(* The inductive invariant of the connections.                               *)

\* The head of a request is known, of one of the plan.
Number(c) == rq[c].of[2]
NoneYet(c, k) == \A j \in 1 .. MaxRequests : j >= k => given[<<c, j>>] = 0 /\ fate[<<c, j>>] = "none"
HasHead(c) ==
  /\ Number(c) \in DOMAIN plan[c]
  /\ rq[c] = [of |-> <<c, Number(c)>>, q |-> plan[c][Number(c)]]
  /\ NoneYet(c, Number(c) + 1)

\* How many tokens of the request were used.
Offset(c) == used[c] - EndOf(c, plan[c], Number(c) - 1)
Framing(c) == Chunks(c, Number(c), rq[c].q.chunks)

\* Between two chunks, in one, in a counted body; behind the last chunk.
BetweenChunks(c) ==
  \E i \in 0 .. Len(rq[c].q.chunks) :
    /\ remaining[c] = Unknown /\ chunk[c] = NoChunk
    /\ Offset(c) = 1 + Len(Framing(c)[i]) /\ given[Current(c)] = Sums(rq[c].q.chunks)[i]
InChunk(c) ==
  \E i \in 1 .. Len(rq[c].q.chunks) :
    /\ remaining[c] = Unknown /\ chunk[c].size = rq[c].q.chunks[i] /\ chunk[c].offset \in 0 .. chunk[c].size
    /\ Offset(c) = 2 + Len(Framing(c)[i - 1]) + chunk[c].offset
    /\ given[Current(c)] = Sums(rq[c].q.chunks)[i - 1] + chunk[c].offset
AtFooters(c) ==
  /\ remaining[c] = 0 /\ chunk[c] = NoChunk
  /\ Offset(c) = 2 + Len(Framing(c)[Len(rq[c].q.chunks)]) /\ given[Current(c)] = Size(rq[c].q)
InCounted(c) ==
  /\ remaining[c] \in 0 .. rq[c].q.body /\ chunk[c] = NoChunk
  /\ given[Current(c)] = rq[c].q.body - remaining[c] /\ Offset(c) = 1 + given[Current(c)]
AtBody(c) == IF Chunked(c) THEN BetweenChunks(c) \/ InChunk(c) \/ AtFooters(c) ELSE InCounted(c)
AtEnd(c) == chunk[c] = NoChunk /\ used[c] = EndOf(c, plan[c], Number(c))

\* The parser is where the state of the connection says.
Parsed(c) ==
  /\ state[c] = "INIT" =>
       /\ chunk[c] = NoChunk
       /\ \E k \in 0 .. Len(plan[c]) : used[c] = EndOf(c, plan[c], k) /\ NoneYet(c, k + 1)
  /\ state[c] \notin {"INIT", "CLOSED"} => HasHead(c)
  /\ state[c] = "HEADERS_PROCESSED" => AtBody(c) /\ given[Current(c)] = 0 /\ (Chunked(c) => remaining[c] # 0)
  /\ state[c] \in {"CONTINUE_SENDING", "BODY_RECEIVING"} => IsPost(c) /\ AtBody(c)
  /\ state[c] = "FOOTERS_RECEIVING" => IsPost(c) /\ Chunked(c) /\ AtFooters(c)
  /\ state[c] = "FULL_REQ_RECEIVED" => IsPost(c) /\ AtEnd(c) /\ given[Current(c)] = Size(rq[c].q)
  /\ state[c] = "SENDING" /\ ~ discard[c] => AtEnd(c)
  /\ Serving(c) => fate[Current(c)] = "none"
AllParsed == \A c \in Connections : Parsed(c)

Heads == {NoHead} \cup [of : Requests, q : WellFormed]
ConnectionTypes ==
  /\ plan \in [Connections -> Plans]
  /\ received \in [Connections -> Nat] /\ used \in [Connections -> Nat]
  /\ \A c \in Connections : used[c] <= received[c] /\ received[c] <= Len(Stream[c][plan[c]])
  /\ state \in [Connections -> DOMAIN Stage] /\ rq \in [Connections -> Heads]
  /\ remaining \in [Connections -> Int] /\ chunk \in [Connections -> [size : Nat, offset : Nat]]
  /\ discard \in [Connections -> BOOLEAN] /\ running \in Connections \cup {Nobody}
  /\ fate \in [Requests -> {"none", "reply", "closed"}] /\ given \in [Requests -> Nat]

CInv == ConnectionTypes /\ AllParsed

----------------------------------------------------------------------------
(* Where a connection is in what its client sends.                            *)

\* The request of a connection.
IsHere(c) ==
  /\ plan[c] \in Plans /\ IsPlan(plan[c]) /\ Number(c) \in 1 .. Len(plan[c]) /\ Number(c) \in 1 .. MaxRequests
  /\ Number(c) \in Nat /\ Number(c) - 1 \in 0 .. Len(plan[c])
  /\ rq[c].q = plan[c][Number(c)] /\ rq[c].q \in WellFormed /\ Size(rq[c].q) <= MaxBody
  /\ Current(c) = <<c, Number(c)>> /\ Current(c) \in Requests
  /\ HasRequest(c, plan[c], Number(c)) /\ used[c] \in Nat /\ received[c] \in Nat /\ used[c] <= received[c]

LEMMA Here ==
  ASSUME ConnectionTypes, NEW c \in Connections, HasHead(c)
  PROVE  IsHere(c)
<1> DEFINE p == plan[c]
           k == Number(c)
<1>1. p \in Plans /\ used[c] \in Nat /\ received[c] \in Nat /\ used[c] <= received[c]
  BY DEF ConnectionTypes
<1>2. IsPlan(p)
  BY <1>1, PlanTypes
<1>3. k \in 1 .. Len(p) /\ rq[c].q = p[k] /\ rq[c].of = <<c, k>>
  BY <1>2 DEF HasHead, IsPlan
<1>4. k \in 1 .. MaxRequests /\ p[k] \in WellFormed /\ Size(p[k]) <= MaxBody /\ Len(p) \in Nat
  BY <1>2, <1>3 DEF IsPlan
<1>5. HasRequest(c, p, k)
  BY <1>1, <1>3, StreamShape
<1>6. MaxRequests \in Nat
  BY PlansAssumption
<1>7. <<c, k>> \in Requests
  BY <1>4 DEF Requests
<1>8. k \in Nat /\ k - 1 \in 0 .. Len(p)
  BY <1>3, <1>4, <1>6
<1> HIDE DEF p, k
<1>9. Current(c) = <<c, k>>
  BY <1>3 DEF Current
<1> QED
  BY <1>1, <1>2, <1>3, <1>4, <1>5, <1>7, <1>8, <1>9 DEF IsHere, p, k

Edge(c, i) == Len(Framing(c)[i])
Base(c) == EndOf(c, plan[c], Number(c) - 1)
Sent1(c, i) == Stream[c][plan[c]][Base(c) + i]

\* A chunk of the request of a connection.
ThisChunk(c, i) ==
  LET m == rq[c].q.chunks[i] IN
  /\ m \in Nat \ {0} /\ Edge(c, i - 1) \in Nat /\ Edge(c, i) = Edge(c, i - 1) + m + 2
  /\ Sums(rq[c].q.chunks)[i - 1] \in Nat /\ Sums(rq[c].q.chunks)[i] = Sums(rq[c].q.chunks)[i - 1] + m
  /\ Sent1(c, Edge(c, i - 1) + 2) = Token("size", c, Number(c), m)
  /\ \A j \in 1 .. m : Sent1(c, Edge(c, i - 1) + 2 + j) = Token("data", c, Number(c), Sums(rq[c].q.chunks)[i - 1] + j)
  /\ Sent1(c, Edge(c, i - 1) + m + 3) = Token("eol", c, Number(c), 0)
IsChunked(c) ==
  LET n == Len(rq[c].q.chunks) IN
  /\ n \in Nat \ {0} /\ Edge(c, 0) = 0 /\ Edge(c, n) \in Nat /\ Base(c) \in Nat
  /\ EndOf(c, plan[c], Number(c)) = Base(c) + Edge(c, n) + 3
  /\ Sums(rq[c].q.chunks)[0] = 0 /\ Size(rq[c].q) = Sums(rq[c].q.chunks)[n] /\ Size(rq[c].q) \in Nat
  /\ \A i \in 1 .. n : ThisChunk(c, i)
  /\ Sent1(c, Edge(c, n) + 2) = Token("size", c, Number(c), 0)
  /\ Sent1(c, Edge(c, n) + 3) = Token("footers", c, Number(c), 0)

LEMMA ChunksHere ==
  ASSUME NEW c \in Connections, IsHere(c), Chunked(c)
  PROVE  IsChunked(c)
<1> DEFINE p == plan[c]
           k == Number(c)
           q == rq[c].q
           sizes == q.chunks
           n == Len(sizes)
           b == Base(c)
           s == Tokens(c, k, q)
           e(i) == Edge(c, i)
           D(i) == Sums(sizes)[i]
<1>1. q \in WellFormed /\ ChunkedBody(q) /\ k \in Nat /\ q = p[k]
  BY DEF IsHere, Chunked
<1>2. HasChunks(s, c, k, q)
  BY <1>1, TokensShape
<1>3. /\ b \in Nat /\ Len(s) \in Nat /\ EndOf(c, p, k) = b + Len(s)
      /\ \A j \in 1 .. Len(s) : Sent1(c, j) = s[j]
  BY <1>1 DEF IsHere, HasRequest, Base, Sent1
<1>4. sizes \in Seq(Nat \ {0}) /\ sizes \in Seq(Nat) /\ n \in Nat
  BY <1>1 DEF WellFormed
<1>5. Placed(n, Chunk1(c, k, sizes), Chunks(c, k, sizes))
  BY <1>1, <1>4, ChunksPlaced
<1>6. \A i : ChunkEnd(c, k, q, i) = e(i)
  BY DEF ChunkEnd, Edge, Framing
<1>7. /\ n \in Nat \ {0} /\ e(0) = 0 /\ e(n) \in Nat /\ Len(s) = e(n) + 3
      /\ \A i \in 1 .. n : HasChunk(s, c, k, q, i)
      /\ s[e(n) + 2] = Token("size", c, k, 0) /\ s[e(n) + 3] = Token("footers", c, k, 0)
  BY <1>2, <1>6 DEF HasChunks
<1>8. \A i \in 0 .. n : e(i) \in Nat /\ e(i) <= e(n)
  BY <1>5 DEF Placed, Edge, Framing
<1>9. D(0) = 0 /\ \A i \in 0 .. n : D(i) \in Nat
  BY <1>4, SumsType, SMTT(30) DEF Summed
<1>10. \A i \in 1 .. n : D(i) = D(i - 1) + sizes[i]
  BY <1>4, SumsType DEF Summed
<1>11. Size(q) = D(n)
  BY <1>1 DEF Size, Total
<1>12. ASSUME NEW i \in 1 .. n
       PROVE  ThisChunk(c, i)
  <2> DEFINE m == sizes[i]
             a == e(i - 1)
  <2>1. /\ a \in Nat /\ m \in Nat \ {0} /\ e(i) = a + m + 2
        /\ s[a + 2] = Token("size", c, k, m)
        /\ \A j \in 1 .. m : s[a + 2 + j] = Token("data", c, k, D(i - 1) + j)
        /\ s[a + m + 3] = Token("eol", c, k, 0)
    BY <1>6, <1>7, ZenonT(40) DEF HasChunk
  <2>2. i - 1 \in 0 .. n /\ i \in 0 .. n
    BY <1>4
  <2>3. D(i - 1) \in Nat /\ D(i) = D(i - 1) + m /\ e(i) <= e(n)
    BY <1>8, <1>9, <1>10, <2>2
  <2> HIDE DEF m, a, s, b, e, D, n
  <2>4. a + m + 3 <= Len(s) /\ a + 2 \in 1 .. Len(s) /\ a + m + 3 \in 1 .. Len(s) /\ \A j \in 1 .. m : a + 2 + j \in 1 .. Len(s)
    BY <1>7, <2>1, <2>3, SMTT(30)
  <2>5. Sent1(c, a + 2) = s[a + 2] /\ Sent1(c, a + m + 3) = s[a + m + 3] /\ \A j \in 1 .. m : Sent1(c, a + 2 + j) = s[a + 2 + j]
    BY <1>3, <2>4
  <2> QED
    BY <2>1, <2>3, <2>5 DEF ThisChunk, m, a, e, D
<1> HIDE DEF s, b, e, D, n
<1>13. e(n) + 2 \in 1 .. Len(s) /\ e(n) + 3 \in 1 .. Len(s)
  BY <1>7
<1>14. Sent1(c, e(n) + 2) = s[e(n) + 2] /\ Sent1(c, e(n) + 3) = s[e(n) + 3]
  BY <1>3, <1>13
<1>15. n \in 0 .. n /\ EndOf(c, p, k) = b + e(n) + 3
  BY <1>3, <1>4, <1>7
<1> QED
  BY <1>3, <1>7, <1>9, <1>11, <1>12, <1>14, <1>15 DEF IsChunked, n, b, e, D

\* The counted body of the request of a connection.
IsCounted(c) ==
  /\ rq[c].q.body \in Nat /\ Base(c) \in Nat /\ Size(rq[c].q) = rq[c].q.body
  /\ EndOf(c, plan[c], Number(c)) = Base(c) + 1 + rq[c].q.body
  /\ \A j \in 1 .. rq[c].q.body : Sent1(c, 1 + j) = Token("data", c, Number(c), j)

LEMMA CountedHere ==
  ASSUME NEW c \in Connections, IsHere(c), ~ Chunked(c)
  PROVE  IsCounted(c)
<1> DEFINE p == plan[c]
           k == Number(c)
           q == rq[c].q
           m == q.body
           b == Base(c)
           s == Tokens(c, k, q)
<1>1. q \in WellFormed /\ ~ ChunkedBody(q) /\ k \in Nat /\ q = p[k]
  BY DEF IsHere, Chunked
<1>2. HasCounted(s, c, k, q)
  BY <1>1, TokensShape
<1>3. /\ b \in Nat /\ Len(s) \in Nat /\ EndOf(c, p, k) = b + Len(s)
      /\ \A j \in 1 .. Len(s) : Sent1(c, j) = s[j]
  BY <1>1 DEF IsHere, HasRequest, Base, Sent1
<1>4. m \in Nat /\ Size(q) = m
  BY <1>1 DEF WellFormed, Size
<1>5. Len(s) = 1 + m /\ \A j \in 1 .. m : s[1 + j] = Token("data", c, k, j)
  BY <1>2 DEF HasCounted
<1> HIDE DEF s, b, m
<1>6. EndOf(c, p, k) = b + 1 + m /\ \A j \in 1 .. m : 1 + j \in 1 .. Len(s)
  BY <1>3, <1>4, <1>5
<1> QED
  BY <1>3, <1>4, <1>5, <1>6 DEF IsCounted, b, m

\* Behind the end of a request there is the head of the next one.
LEMMA HeadHere ==
  ASSUME ConnectionTypes, NEW c \in Connections, NEW k \in 0 .. Len(plan[c]),
         used[c] = EndOf(c, plan[c], k), Available(c) > 0
  PROVE  /\ k + 1 \in 1 .. Len(plan[c]) /\ k + 1 \in 1 .. MaxRequests /\ plan[c][k + 1] \in WellFormed
         /\ Next1(c) = HeadToken(c, k + 1, plan[c][k + 1])
         /\ EndOf(c, plan[c], k) \in Nat /\ k \in Nat
<1> DEFINE p == plan[c]
           x == k + 1
<1>1. p \in Plans /\ used[c] \in Nat /\ received[c] \in Nat /\ received[c] <= Len(Stream[c][p])
  BY DEF ConnectionTypes
<1>2. IsPlan(p)
  BY <1>1, PlanTypes
<1>3. /\ EndOf(c, p, Len(p)) = Len(Stream[c][p])
      /\ \A i \in 0 .. Len(p) : EndOf(c, p, i) \in Nat
      /\ \A i \in 1 .. Len(p) : HasRequest(c, p, i)
  BY <1>1, StreamShape
<1>4. Len(p) \in Nat /\ k \in Nat
  BY <1>2 DEF IsPlan
<1>5. received[c] > used[c] /\ EndOf(c, p, k) \in Nat
  BY <1>1, <1>3 DEF Available
<1>6. k # Len(p)
  BY <1>1, <1>3, <1>5
<1>7. x \in 1 .. Len(p) /\ x - 1 = k
  BY <1>4, <1>6
<1>8. x \in 1 .. MaxRequests /\ p[x] \in WellFormed
  BY <1>2, <1>7 DEF IsPlan
<1>9. HasRequest(c, p, x)
  BY <1>3, <1>7
<1>10. Len(Tokens(c, x, p[x])) \in Nat \ {0} /\ \A j \in 1 .. Len(Tokens(c, x, p[x])) : Stream[c][p][EndOf(c, p, k) + j] = Tokens(c, x, p[x])[j]
  BY <1>7, <1>9 DEF HasRequest
<1>11. x \in Nat
  BY <1>4
<1>12. Tokens(c, x, p[x])[1] = HeadToken(c, x, p[x])
  BY <1>8, <1>11, TokensShape, ZenonT(60)
<1>13. 1 \in 1 .. Len(Tokens(c, x, p[x]))
  BY <1>10
<1>14. Next1(c) = HeadToken(c, x, p[x])
  BY <1>10, <1>12, <1>13 DEF Next1
<1> QED
  BY <1>3, <1>4, <1>7, <1>8, <1>14

\* A connection that starts on a request has its head in front, or nothing.
LEMMA HeadInFront ==
  ASSUME CInv
  PROVE  FramesAreTrue
<1> SUFFICES ASSUME NEW c \in Connections, state[c] = "INIT", Available(c) > 0
             PROVE  Next1(c).t = "head"
  BY DEF FramesAreTrue
<1>1. PICK k \in 0 .. Len(plan[c]) : used[c] = EndOf(c, plan[c], k)
  BY DEF CInv, AllParsed, Parsed
<1>2. Next1(c) = HeadToken(c, k + 1, plan[c][k + 1])
  BY <1>1, HeadHere DEF CInv
<1> QED
  BY <1>2 DEF HeadToken

----------------------------------------------------------------------------
(* What a step leaves alone.                                                 *)

\* The other connections and their requests.
OnlyAt(c) ==
  /\ plan' = plan
  /\ \A d \in Connections \ {c} :
       /\ used'[d] = used[d] /\ state'[d] = state[d] /\ rq'[d] = rq[d]
       /\ remaining'[d] = remaining[d] /\ chunk'[d] = chunk[d] /\ discard'[d] = discard[d]
       /\ \A j \in 1 .. MaxRequests : given'[<<d, j>>] = given[<<d, j>>] /\ fate'[<<d, j>>] = fate[<<d, j>>]

LEMMA OthersStay ==
  ASSUME CInv, NEW c \in Connections, OnlyAt(c), Parsed(c)'
  PROVE  AllParsed'
<1> SUFFICES ASSUME NEW d \in Connections \ {c}
             PROVE  Parsed(d)'
  BY DEF AllParsed
<1>1. /\ plan'[d] = plan[d] /\ used'[d] = used[d] /\ state'[d] = state[d] /\ rq'[d] = rq[d]
      /\ remaining'[d] = remaining[d] /\ chunk'[d] = chunk[d] /\ discard'[d] = discard[d]
      /\ \A j \in 1 .. MaxRequests : given'[<<d, j>>] = given[<<d, j>>] /\ fate'[<<d, j>>] = fate[<<d, j>>]
  BY DEF OnlyAt
<1>2. Parsed(d)
  BY DEF CInv, AllParsed
<1>3. Number(d)' = Number(d) /\ Current(d)' = Current(d) /\ IsPost(d)' = IsPost(d) /\ Chunked(d)' = Chunked(d)
  BY <1>1 DEF Number, Current, IsPost, Chunked
<1>4. \A k : NoneYet(d, k) => NoneYet(d, k)'
  BY <1>1 DEF NoneYet
<1>5. state[d] = "INIT" => (chunk[d] = NoChunk /\ \E k \in 0 .. Len(plan[d]) : used[d] = EndOf(d, plan[d], k) /\ NoneYet(d, k + 1))'
  BY <1>1, <1>2, <1>4 DEF Parsed
<1>6. state[d] \notin {"INIT", "CLOSED"} => HasHead(d) /\ HasHead(d)'
  BY <1>1, <1>2, <1>3, <1>4 DEF Parsed, HasHead
<1>7. HasHead(d) => given'[Current(d)] = given[Current(d)] /\ fate'[Current(d)] = fate[Current(d)]
  <2> SUFFICES ASSUME HasHead(d)
               PROVE  given'[Current(d)] = given[Current(d)] /\ fate'[Current(d)] = fate[Current(d)]
    OBVIOUS
  <2>1. Current(d) = <<d, Number(d)>> /\ Number(d) \in 1 .. MaxRequests
    BY Here DEF IsHere, CInv
  <2> QED
    BY <1>1, <2>1
<1>8. HasHead(d) /\ AtBody(d) => AtBody(d)'
  <2>1. Offset(d)' = Offset(d) /\ Framing(d)' = Framing(d)
    BY <1>1, <1>3 DEF Offset, Framing
  <2> QED
    BY <1>1, <1>3, <1>7, <2>1 DEF AtBody, BetweenChunks, InChunk, AtFooters, InCounted
<1>9. HasHead(d) /\ AtFooters(d) => AtFooters(d)'
  <2>1. Offset(d)' = Offset(d) /\ Framing(d)' = Framing(d)
    BY <1>1, <1>3 DEF Offset, Framing
  <2> QED
    BY <1>1, <1>3, <1>7, <2>1 DEF AtFooters
<1>10. AtEnd(d) => AtEnd(d)'
  BY <1>1, <1>3 DEF AtEnd
<1>11. Serving(d)' = Serving(d) /\ (Serving(d) => HasHead(d))
  BY <1>1, <1>6, SMTT(30) DEF Serving
<1> QED
  BY <1>1, <1>2, <1>3, <1>5, <1>6, <1>7, <1>8, <1>9, <1>10, <1>11 DEF Parsed

\* Nothing but what was read, or who runs.
Quiet == UNCHANGED <<plan, used, state, rq, remaining, chunk, discard, fate, given>>

LEMMA QuietStays ==
  ASSUME CInv, Quiet
  PROVE  AllParsed'
<1> SUFFICES ASSUME NEW c \in Connections
             PROVE  Parsed(c)'
  BY DEF AllParsed
<1>1. Parsed(c)
  BY DEF CInv, AllParsed
<1> QED
  BY <1>1, ZenonT(40) DEF Quiet, Parsed, HasHead, NoneYet, Number, Offset, Framing, BetweenChunks, InChunk, AtFooters, InCounted,
              AtBody, AtEnd, Serving, Current, IsPost, Chunked

\* The request of the connection is the same.
Same(c) == plan' = plan /\ rq' = rq

LEMMA SameRequest ==
  ASSUME NEW c \in Connections, Same(c)
  PROVE  /\ Number(c)' = Number(c) /\ Current(c)' = Current(c) /\ IsPost(c)' = IsPost(c) /\ Chunked(c)' = Chunked(c)
         /\ Framing(c)' = Framing(c) /\ (\A i : Edge(c, i)' = Edge(c, i)) /\ Base(c)' = Base(c)
         /\ rq'[c].q = rq[c].q /\ EndOf(c, plan'[c], Number(c)) = EndOf(c, plan[c], Number(c))
BY DEF Same, Number, Current, IsPost, Chunked, Framing, Edge, Base

----------------------------------------------------------------------------
(* The parser goes on.                                                        *)

\* The head of a request: its body comes next.
LEMMA HeadParsed ==
  ASSUME CInv, NEW c \in Connections, GetHead(c)
  PROVE  /\ OnlyAt(c) /\ Parsed(c)' /\ Current(c)' \in Requests /\ rq'[c].q \in WellFormed /\ rq' \in [Connections -> Heads]
         /\ remaining'[c] \in Int /\ fate[Current(c)'] = "none" /\ given[Current(c)'] = 0
<1>1. state[c] = "INIT" /\ Available(c) > 0 /\ ConnectionTypes /\ Parsed(c)
  BY DEF GetHead, CInv, AllParsed
<1>2. PICK k \in 0 .. Len(plan[c]) : used[c] = EndOf(c, plan[c], k) /\ NoneYet(c, k + 1)
  BY <1>1 DEF Parsed
<1> DEFINE x == k + 1
           q == plan[c][x]
<1>3. /\ x \in 1 .. Len(plan[c]) /\ x \in 1 .. MaxRequests /\ q \in WellFormed /\ k \in Nat
      /\ Next1(c) = HeadToken(c, x, q) /\ EndOf(c, plan[c], k) \in Nat
  BY <1>1, <1>2, HeadHere
<1>4. Next1(c).of = <<c, x>> /\ Next1(c).q = q
  BY <1>3 DEF HeadToken
<1>5. /\ rq' = Set(rq, c, [of |-> <<c, x>>, q |-> q])
      /\ remaining' = Set(remaining, c, IF ChunkedBody(q) THEN Unknown ELSE q.body)
      /\ used' = Set(used, c, used[c] + 1) /\ plan' = plan /\ state' = Set(state, c, "HEADERS_PROCESSED")
      /\ chunk' = chunk /\ discard' = discard /\ fate' = fate /\ given' = given
  BY <1>4 DEF GetHead, Use, Becomes
<1>6. <<c, x>> \in Requests /\ [of |-> <<c, x>>, q |-> q] \in Heads
  BY <1>3 DEF Requests, Heads
<1>7. rq' \in [Connections -> Heads] /\ rq'[c] = [of |-> <<c, x>>, q |-> q] /\ \A d \in Connections \ {c} : rq'[d] = rq[d]
  BY <1>1, <1>5, <1>6 DEF ConnectionTypes, Set
<1>8. /\ remaining'[c] = (IF ChunkedBody(q) THEN Unknown ELSE q.body) /\ used'[c] = used[c] + 1 /\ state'[c] = "HEADERS_PROCESSED"
      /\ \A d \in Connections \ {c} : remaining'[d] = remaining[d] /\ used'[d] = used[d] /\ state'[d] = state[d]
  BY <1>1, <1>5 DEF ConnectionTypes, Set
<1>9. OnlyAt(c)
  BY <1>5, <1>7, <1>8 DEF OnlyAt
<1>10. Number(c)' = x /\ Current(c)' = <<c, x>> /\ Chunked(c)' = ChunkedBody(q) /\ rq'[c].q = q
  BY <1>7 DEF Number, Current, Chunked
<1>11. NoneYet(c, x + 1) /\ given[<<c, x>>] = 0 /\ fate[<<c, x>>] = "none"
  BY <1>2, <1>3 DEF NoneYet
<1>12. HasHead(c)'
  BY <1>3, <1>5, <1>7, <1>10, <1>11 DEF HasHead, NoneYet
<1>13. Offset(c)' = 1
  <2>1. x - 1 = k /\ used'[c] = EndOf(c, plan[c], k) + 1
    BY <1>2, <1>3, <1>8
  <2> QED
    BY <1>3, <1>5, <1>10, <2>1 DEF Offset
<1>14. chunk'[c] = NoChunk /\ given'[Current(c)'] = 0
  BY <1>1, <1>5, <1>10, <1>11 DEF Parsed
<1>15. ASSUME ChunkedBody(q)
       PROVE  AtBody(c)' /\ remaining'[c] # 0
  <2>1. q.chunks \in Seq(Nat)
    BY <1>3 DEF WellFormed
  <2>2. Len(Chunks(c, x, q.chunks)[0]) = 0 /\ Sums(q.chunks)[0] = 0 /\ 0 \in 0 .. Len(q.chunks)
    BY <1>3, <2>1, ChunksPlaced, SumsType DEF Summed
  <2>3. BetweenChunks(c)'
    BY <1>8, <1>10, <1>13, <1>14, <1>15, <2>2 DEF BetweenChunks, Framing
  <2> QED
    BY <1>8, <1>10, <1>15, <2>3 DEF AtBody, Unknown
<1>16. ASSUME ~ ChunkedBody(q)
       PROVE  AtBody(c)'
  <2>1. q.body \in Nat
    BY <1>3 DEF WellFormed
  <2>2. InCounted(c)'
    BY <1>8, <1>10, <1>13, <1>14, <1>16, <2>1 DEF InCounted
  <2> QED
    BY <1>10, <1>16, <2>2 DEF AtBody
<1>17. AtBody(c)' /\ (Chunked(c)' => remaining'[c] # 0)
  BY <1>8, <1>10, <1>15, <1>16 DEF Unknown
<1>18. Parsed(c)'
  BY <1>5, <1>8, <1>11, <1>12, <1>10, <1>14, <1>17 DEF Parsed
<1>19. remaining'[c] \in Int
  BY <1>3, <1>8 DEF Unknown, WellFormed
<1> QED
  BY <1>3, <1>6, <1>7, <1>9, <1>10, <1>11, <1>18, <1>19

\* The request that is served.
LEMMA Served ==
  ASSUME CInv, NEW c \in Connections, state[c] \notin {"INIT", "CLOSED"}
  PROVE  /\ ConnectionTypes /\ Parsed(c) /\ HasHead(c) /\ IsHere(c)
         /\ Chunked(c) => IsChunked(c)
         /\ ~ Chunked(c) => IsCounted(c)
         /\ state[c] # "SENDING" => Serving(c) /\ fate[Current(c)] = "none"
<1>1. ConnectionTypes /\ Parsed(c)
  BY DEF CInv, AllParsed
<1>2. HasHead(c)
  BY <1>1 DEF Parsed
<1>3. IsHere(c)
  BY <1>1, <1>2, Here
<1>4. state[c] # "SENDING" => Serving(c)
  BY DEF Serving
<1>5. Serving(c) => fate[Current(c)] = "none"
  BY <1>1 DEF Parsed
<1> QED
  BY <1>1, <1>2, <1>3, <1>4, <1>5, ChunksHere, CountedHere

\* The other requests of the connection are as they were.
OnlyThis(c) ==
  \A j \in 1 .. MaxRequests : j # Number(c) => given'[<<c, j>>] = given[<<c, j>>] /\ fate'[<<c, j>>] = fate[<<c, j>>]

LEMMA HeadStays ==
  ASSUME NEW c \in Connections, HasHead(c), IsHere(c), Same(c), OnlyThis(c)
  PROVE  HasHead(c)'
<1>1. Number(c)' = Number(c) /\ plan' = plan /\ rq' = rq
  BY SameRequest DEF Same
<1>2. NoneYet(c, Number(c) + 1) /\ Number(c) \in Nat /\ MaxRequests \in Nat
  BY PlansAssumption DEF HasHead, IsHere
<1>3. \A j \in 1 .. MaxRequests : j >= Number(c) + 1 => j # Number(c)
  BY <1>2
<1>4. \A j \in 1 .. MaxRequests : j >= Number(c) + 1 => given'[<<c, j>>] = 0 /\ fate'[<<c, j>>] = "none"
  BY <1>2, <1>3 DEF NoneYet, OnlyThis
<1> QED
  BY <1>1, <1>4 DEF HasHead, NoneYet

\* Nothing was given to the handler, and no request ended.
LEMMA NothingGiven ==
  ASSUME CInv, NEW c \in Connections, IsHere(c), Same(c), given' = given, fate' = fate
  PROVE  /\ OnlyThis(c) /\ \A d \in Connections \ {c}, j \in 1 .. MaxRequests :
              given'[<<d, j>>] = given[<<d, j>>] /\ fate'[<<d, j>>] = fate[<<d, j>>]
         /\ given'[Current(c)'] = given[Current(c)] /\ fate'[Current(c)'] = fate[Current(c)]
BY SameRequest DEF OnlyThis

\* What is next to be used.
LEMMA NextHere ==
  ASSUME ConnectionTypes, NEW c \in Connections, IsHere(c), NEW i \in Nat, NEW j \in Nat, used[c] = Base(c) + i
  PROVE  Stream[c][plan[c]][used[c] + j] = Sent1(c, i + j) /\ Base(c) \in Nat
<1>1. Base(c) \in Nat
  BY DEF IsHere, HasRequest, Base
<1>2. used[c] + j = Base(c) + (i + j)
  BY <1>1
<1> QED
  BY <1>1, <1>2 DEF Sent1

LEMMA LineEndParsed ==
  ASSUME CInv, NEW c \in Connections, SkipLineEnd(c)
  PROVE  OnlyAt(c) /\ Parsed(c)'
<1>1. state[c] = "BODY_RECEIVING" /\ remaining[c] # 0 /\ Chunked(c) /\ chunk[c].size # 0 /\ chunk[c].offset = chunk[c].size
  BY DEF SkipLineEnd, InBody, AtChunkEnd
<1>2. HasHead(c) /\ IsHere(c) /\ IsChunked(c) /\ ConnectionTypes /\ Parsed(c) /\ fate[Current(c)] = "none"
  BY <1>1, Served
<1>3. Same(c) /\ given' = given /\ fate' = fate /\ state' = state /\ remaining' = remaining /\ discard' = discard
  BY DEF SkipLineEnd, Same, Use, history
<1>4. /\ chunk'[c] = NoChunk /\ used'[c] = used[c] + 1
      /\ \A d \in Connections \ {c} : chunk'[d] = chunk[d] /\ used'[d] = used[d]
  BY <1>2 DEF SkipLineEnd, Use, Set, ConnectionTypes
<1>5. OnlyAt(c) /\ HasHead(c)'
  BY <1>2, <1>3, <1>4, NothingGiven, HeadStays DEF OnlyAt, Same
<1>6. IsPost(c) /\ InChunk(c)
  BY <1>1, <1>2 DEF Parsed, AtBody, BetweenChunks, AtFooters, NoChunk
<1> DEFINE n == Len(rq[c].q.chunks)
<1>7. PICK i \in 1 .. n :
         /\ remaining[c] = Unknown /\ chunk[c].size = rq[c].q.chunks[i]
         /\ Offset(c) = 2 + Edge(c, i - 1) + chunk[c].offset
         /\ given[Current(c)] = Sums(rq[c].q.chunks)[i - 1] + chunk[c].offset
  BY <1>6 DEF InChunk, Edge
<1>8. ThisChunk(c, i) /\ n \in Nat
  BY <1>2 DEF IsChunked
<1>9. Offset(c) = used[c] - Base(c) /\ Base(c) \in Nat /\ used[c] \in Nat
  BY <1>2 DEF Offset, Base, IsHere, HasRequest
<1>10. used'[c] - Base(c) = 1 + Edge(c, i) /\ given[Current(c)] = Sums(rq[c].q.chunks)[i] /\ i \in 0 .. n
  <2> DEFINE m == rq[c].q.chunks[i]
             e == Edge(c, i - 1)
             t == Sums(rq[c].q.chunks)[i - 1]
  <2>1. m \in Nat \ {0} /\ e \in Nat /\ Edge(c, i) = e + m + 2 /\ t \in Nat /\ Sums(rq[c].q.chunks)[i] = t + m
    BY <1>8 DEF ThisChunk
  <2>2. Offset(c) = 2 + e + m /\ given[Current(c)] = t + m
    BY <1>1, <1>7
  <2> HIDE DEF m, e, t
  <2>3. used[c] = Base(c) + (2 + e + m)
    BY <1>9, <2>1, <2>2, SMTT(30)
  <2>4. used'[c] - Base(c) = 1 + (e + m + 2)
    BY <1>4, <1>9, <2>1, <2>3
  <2>5. i \in 0 .. n
    BY <1>8
  <2> QED
    BY <2>1, <2>2, <2>4, <2>5
<1>11. BetweenChunks(c)'
  <2>1. Offset(c)' = used'[c] - Base(c) /\ rq' = rq
    BY <1>3, SameRequest DEF Offset, Base, Same
  <2> QED
    BY <1>2, <1>3, <1>4, <1>7, <1>10, <2>1, SameRequest, NothingGiven DEF BetweenChunks, Edge
<1> QED
  BY <1>1, <1>2, <1>3, <1>5, <1>6, <1>11, SameRequest, NothingGiven DEF Parsed, AtBody

LEMMA SizeParsed ==
  ASSUME CInv, NEW c \in Connections, ChunkSize(c)
  PROVE  OnlyAt(c) /\ Parsed(c)' /\ Next1(c).n \in Nat /\ remaining'[c] \in Int
<1>1. state[c] = "BODY_RECEIVING" /\ remaining[c] # 0 /\ Chunked(c) /\ chunk[c].size = 0
  BY DEF ChunkSize, InBody
<1>2. HasHead(c) /\ IsHere(c) /\ IsChunked(c) /\ ConnectionTypes /\ Parsed(c) /\ fate[Current(c)] = "none"
  BY <1>1, Served
<1>3. Same(c) /\ given' = given /\ fate' = fate /\ state' = state /\ discard' = discard
  BY DEF ChunkSize, Same, Use, history
<1>4. /\ chunk'[c] = [size |-> Next1(c).n, offset |-> 0] /\ used'[c] = used[c] + 1
      /\ remaining'[c] = IF Next1(c).n = 0 THEN 0 ELSE remaining[c]
      /\ \A d \in Connections \ {c} : chunk'[d] = chunk[d] /\ used'[d] = used[d] /\ remaining'[d] = remaining[d]
  BY <1>2 DEF ChunkSize, Use, Set, ConnectionTypes
<1>5. OnlyAt(c) /\ HasHead(c)'
  BY <1>2, <1>3, <1>4, NothingGiven, HeadStays DEF OnlyAt, Same
<1> DEFINE n == Len(rq[c].q.chunks)
           sizes == rq[c].q.chunks
<1>6. ~ InChunk(c) /\ ~ AtFooters(c)
  <2>1. \A i \in 1 .. n : sizes[i] # 0
    BY <1>2 DEF IsChunked, ThisChunk
  <2> QED
    BY <1>1, <2>1 DEF InChunk, AtFooters
<1>7. IsPost(c) /\ BetweenChunks(c)
  BY <1>1, <1>2, <1>6 DEF Parsed, AtBody
<1>8. PICK i \in 0 .. n :
         /\ remaining[c] = Unknown /\ Offset(c) = 1 + Edge(c, i) /\ given[Current(c)] = Sums(sizes)[i]
  BY <1>7 DEF BetweenChunks, Edge
<1>9. Offset(c) = used[c] - Base(c) /\ Base(c) \in Nat /\ used[c] \in Nat /\ n \in Nat \ {0} /\ Edge(c, n) \in Nat
  BY <1>2 DEF Offset, Base, IsHere, HasRequest, IsChunked
<1>10. Offset(c)' = used'[c] - Base(c) /\ rq' = rq /\ \A m : Edge(c, m)' = Edge(c, m)
  BY <1>3, SameRequest DEF Offset, Base, Same
<1>11. given'[Current(c)'] = given[Current(c)] /\ fate'[Current(c)'] = "none" /\ Chunked(c)' /\ IsPost(c)'
  BY <1>1, <1>2, <1>3, <1>7, SameRequest, NothingGiven
<1>12. ASSUME i = n
       PROVE  AtFooters(c)' /\ Next1(c).n = 0
  <2>1. used[c] = Base(c) + (1 + Edge(c, n))
    BY <1>8, <1>9, <1>12
  <2>2. 1 + Edge(c, n) \in Nat /\ (1 + Edge(c, n)) + 1 = Edge(c, n) + 2 /\ 1 \in Nat
    BY <1>9
  <2>3. Next1(c) = Sent1(c, Edge(c, n) + 2)
    BY <1>2, <2>1, <2>2, NextHere, ZenonT(40) DEF Next1
  <2>4. Next1(c).n = 0 /\ Size(rq[c].q) = Sums(sizes)[n]
    BY <1>2, <2>3 DEF IsChunked, Token
  <2>5. used'[c] - Base(c) = 2 + Edge(c, n)
    BY <1>4, <1>9, <2>1
  <2> QED
    BY <1>4, <1>8, <1>10, <1>11, <1>12, <2>4, <2>5 DEF AtFooters, NoChunk, Edge
<1>13. ASSUME i # n
       PROVE  InChunk(c)' /\ Next1(c).n \in Nat \ {0}
  <2> DEFINE x == i + 1
  <2>1. x \in 1 .. n /\ x - 1 = i
    BY <1>9, <1>13
  <2>2. ThisChunk(c, x)
    BY <1>2, <2>1 DEF IsChunked
  <2>3. Edge(c, i) \in Nat /\ sizes[x] \in Nat \ {0} /\ Sent1(c, Edge(c, i) + 2) = Token("size", c, Number(c), sizes[x])
    BY <2>1, <2>2 DEF ThisChunk
  <2>4. used[c] = Base(c) + (1 + Edge(c, i))
    BY <1>8, <1>9, <2>3, SMTT(30)
  <2>5. 1 + Edge(c, i) \in Nat /\ (1 + Edge(c, i)) + 1 = Edge(c, i) + 2 /\ 1 \in Nat
    BY <2>3
  <2>6. Next1(c) = Sent1(c, Edge(c, i) + 2)
    BY <1>2, <2>4, <2>5, NextHere, ZenonT(40) DEF Next1
  <2>7. Next1(c).n = sizes[x]
    BY <2>3, <2>6 DEF Token
  <2>8. used'[c] - Base(c) = 2 + Edge(c, i) + 0 /\ 0 \in 0 .. sizes[x]
    <3>1. used'[c] = used[c] + 1 /\ used[c] \in Nat /\ Base(c) \in Nat
      BY <1>4, <1>9, ZenonT(30)
    <3>2. Edge(c, i) \in Nat /\ sizes[x] \in Nat
      BY <2>3, SMTT(30)
    <3> HIDE DEF x
    <3> QED BY <2>4, <3>1, <3>2, SMTT(30)
  <2>9. Sums(sizes)[i] \in Nat /\ Sums(sizes)[i] + 0 = Sums(sizes)[i]
    BY <2>1, <2>2 DEF ThisChunk
  <2>10. chunk'[c].size = sizes[x] /\ chunk'[c].offset = 0 /\ remaining'[c] = Unknown
    BY <1>4, <1>8, <2>3, <2>7
  <2> HIDE DEF x
  <2>11. InChunk(c)'
    BY <1>8, <1>10, <1>11, <2>1, <2>8, <2>9, <2>10, ZenonT(40) DEF InChunk, Edge
  <2> QED
    BY <2>3, <2>7, <2>11
<1>14. (AtFooters(c) \/ InChunk(c))' /\ Next1(c).n \in Nat
  BY <1>12, <1>13
<1>15. AtBody(c)'
  BY <1>11, <1>14 DEF AtBody
<1>16. Parsed(c)'
  BY <1>1, <1>3, <1>5, <1>11, <1>15 DEF Parsed
<1>17. remaining'[c] \in Int
  BY <1>4, <1>8 DEF Unknown
<1> QED
  BY <1>5, <1>14, <1>16, <1>17

\* What a call with data may have: no more than there is, nor than the body or
\* the chunk has left, and all of it units of the body, the next ones.
IsPortion(c, m) ==
  /\ m \in Nat \ {0} /\ m <= Available(c) /\ given[Current(c)] \in Nat
  /\ given[Current(c)] + m <= Size(rq[c].q)
  /\ \A j \in 1 .. m : Stream[c][plan[c]][used[c] + j] = Token("data", c, Number(c), given[Current(c)] + j)

LEMMA PortionHere ==
  ASSUME CInv, NEW c \in Connections, InBody(c), Chunked(c) => chunk[c].size # 0 /\ ~ AtChunkEnd(c)
  PROVE  IsPortion(c, Portion(c)) /\ (~ Chunked(c) => Portion(c) <= remaining[c])
<1> DEFINE n == Len(rq[c].q.chunks)
           sizes == rq[c].q.chunks
           a == Available(c)
           m == Portion(c)
<1>1. state[c] = "BODY_RECEIVING" /\ remaining[c] # 0 /\ a > 0
  BY DEF InBody
<1>2. HasHead(c) /\ IsHere(c) /\ ConnectionTypes /\ Parsed(c) /\ (Chunked(c) => IsChunked(c)) /\ (~ Chunked(c) => IsCounted(c))
  BY <1>1, Served
<1>3. a \in Nat \ {0} /\ used[c] \in Nat
  BY <1>1, <1>2 DEF IsHere, Available
<1>4. Offset(c) = used[c] - Base(c) /\ Base(c) \in Nat /\ AtBody(c)
  BY <1>1, <1>2 DEF Offset, Base, IsHere, HasRequest, Parsed
<1>5. ASSUME Chunked(c)
      PROVE  IsPortion(c, m)
  <2>1. InChunk(c) /\ chunk[c].offset # chunk[c].size
    BY <1>1, <1>4, <1>5 DEF AtBody, BetweenChunks, AtFooters, NoChunk, AtChunkEnd
  <2>2. PICK i \in 1 .. n :
          /\ chunk[c].size = sizes[i] /\ chunk[c].offset \in 0 .. chunk[c].size
          /\ Offset(c) = 2 + Edge(c, i - 1) + chunk[c].offset
          /\ given[Current(c)] = Sums(sizes)[i - 1] + chunk[c].offset
    BY <2>1 DEF InChunk, Edge
  <2> DEFINE z == sizes[i]
             o == chunk[c].offset
             e == Edge(c, i - 1)
             t == Sums(sizes)[i - 1]
  <2>3. ThisChunk(c, i)
    BY <1>2, <1>5 DEF IsChunked
  <2>4. /\ z \in Nat \ {0} /\ e \in Nat /\ t \in Nat /\ Sums(sizes)[i] = t + z
        /\ \A j \in 1 .. z : Sent1(c, e + 2 + j) = Token("data", c, Number(c), t + j)
    BY <2>3 DEF ThisChunk
  <2>5. Size(rq[c].q) \in Nat /\ Sums(sizes)[i] <= Size(rq[c].q)
    <3>1. sizes \in Seq(Nat) /\ i \in 0 .. n
      <4>1. rq[c].q \in WellFormed
        BY <1>2 DEF IsHere
      <4>2. sizes \in Seq(Nat \ {0})
        BY <4>1 DEF WellFormed
      <4> QED
        BY <4>2
    <3>2. Size(rq[c].q) = Sums(sizes)[n] /\ Size(rq[c].q) \in Nat
      BY <1>2, <1>5 DEF IsChunked
    <3>3. Sums(sizes)[i] <= Sums(sizes)[n]
      BY <3>1, SumsGrow DEF Growing
    <3> QED
      BY <3>2, <3>3
  <2>6. o \in 0 .. z /\ o # z /\ given[Current(c)] = t + o /\ Offset(c) = 2 + e + o
    BY <2>1, <2>2
  <2>7. m = AtMost(a, z - o)
    BY <1>5, <2>2 DEF Portion
  <2> HIDE DEF z, o, e, t, m, a, sizes
  <2>8. m \in Nat \ {0} /\ m <= a /\ o + m <= z
    BY <1>3, <2>4, <2>6, <2>7 DEF AtMost
  <2>9. given[Current(c)] \in Nat /\ given[Current(c)] + m <= Size(rq[c].q)
    BY <2>4, <2>5, <2>6, <2>8, SMTT(30)
  <2>10. used[c] = Base(c) + (2 + e + o)
    BY <1>3, <1>4, <2>4, <2>6, SMTT(30)
  <2>11. ASSUME NEW j \in 1 .. m
         PROVE  Stream[c][plan[c]][used[c] + j] = Token("data", c, Number(c), given[Current(c)] + j)
    <3>0. o \in Nat /\ z \in Nat /\ e \in Nat /\ t \in Nat /\ m \in Nat /\ o + m <= z /\ given[Current(c)] = t + o
      BY <2>4, <2>6, <2>8
    <3>1. 2 + e + o \in Nat /\ j \in Nat /\ (2 + e + o) + j = e + 2 + (o + j) /\ o + j \in 1 .. z /\ given[Current(c)] + j = t + (o + j)
      BY <3>0
    <3>2. Stream[c][plan[c]][used[c] + j] = Sent1(c, (2 + e + o) + j)
      BY <1>2, <2>10, <3>1, NextHere
    <3> QED
      BY <2>4, <3>1, <3>2
  <2> QED
    BY <2>8, <2>9, <2>11 DEF IsPortion, a
<1>6. ASSUME ~ Chunked(c)
      PROVE  IsPortion(c, m) /\ m <= remaining[c]
  <2> DEFINE z == rq[c].q.body
             r == remaining[c]
             g == given[Current(c)]
  <2>1. InCounted(c)
    BY <1>4, <1>6 DEF AtBody
  <2>2. r \in 0 .. z /\ g = z - r /\ Offset(c) = 1 + g
    BY <2>1 DEF InCounted
  <2>3. z \in Nat /\ Size(rq[c].q) = z /\ \A j \in 1 .. z : Sent1(c, 1 + j) = Token("data", c, Number(c), j)
    BY <1>2, <1>6 DEF IsCounted
  <2>4. m = AtMost(a, r)
    BY <1>6 DEF Portion
  <2> HIDE DEF z, r, g, m, a
  <2>5. r \in Nat \ {0} /\ g \in Nat /\ g + r = z
    BY <1>1, <2>2, <2>3 DEF r
  <2>6. m \in Nat \ {0} /\ m <= a /\ m <= r /\ g + m <= z
    BY <1>3, <2>3, <2>4, <2>5 DEF AtMost
  <2>7. used[c] = Base(c) + (1 + g)
    BY <1>3, <1>4, <2>2, <2>5
  <2>8. ASSUME NEW j \in 1 .. m
        PROVE  Stream[c][plan[c]][used[c] + j] = Token("data", c, Number(c), g + j)
    <3>1. 1 + g \in Nat /\ j \in Nat /\ (1 + g) + j = 1 + (g + j) /\ g + j \in 1 .. z
      BY <2>3, <2>5, <2>6
    <3>2. Stream[c][plan[c]][used[c] + j] = Sent1(c, (1 + g) + j)
      BY <1>2, <2>7, <3>1, NextHere
    <3> QED
      BY <2>3, <3>1, <3>2
  <2> QED
    BY <2>3, <2>5, <2>6, <2>8 DEF IsPortion, a, g, r
<1> QED
  BY <1>5, <1>6 DEF m

LEMMA DataParsed ==
  ASSUME CInv, NEW c \in Connections, InBody(c), Chunked(c) => chunk[c].size # 0 /\ ~ AtChunkEnd(c),
         Collected(c, Portion(c))
  PROVE  /\ OnlyAt(c) /\ Parsed(c)' /\ Current(c) \in Requests
         /\ chunk'[c] \in [size : Nat, offset : Nat] /\ remaining'[c] \in Int
<1> DEFINE m == Portion(c)
<1>1. state[c] = "BODY_RECEIVING" /\ remaining[c] # 0
  BY DEF InBody
<1>2. /\ HasHead(c) /\ IsHere(c) /\ ConnectionTypes /\ Parsed(c) /\ fate[Current(c)] = "none"
      /\ (Chunked(c) => IsChunked(c)) /\ (~ Chunked(c) => IsCounted(c))
  BY <1>1, Served
<1>3. IsPortion(c, m) /\ (~ Chunked(c) => m <= remaining[c])
  BY PortionHere
<1>4. IsPost(c) /\ AtBody(c)
  BY <1>1, <1>2 DEF Parsed
<1> HIDE DEF m
<1>5. Collected(c, m)
  BY DEF m
<1>6. Same(c) /\ state' = state /\ discard' = discard /\ fate' = fate
  BY <1>5 DEF Collected, Use, Same
<1>7. /\ used'[c] = used[c] + m /\ given'[Current(c)] = given[Current(c)] + m
      /\ \A r \in Requests : r # Current(c) => given'[r] = given[r]
      /\ \A d \in Connections \ {c} : used'[d] = used[d]
  BY <1>2, <1>5 DEF Collected, Use, Set, ConnectionTypes, IsHere
<1>8. /\ Chunked(c) => chunk'[c] = [chunk[c] EXCEPT !.offset = @ + m] /\ remaining' = remaining
      /\ ~ Chunked(c) => remaining'[c] = remaining[c] - m /\ chunk' = chunk
      /\ \A d \in Connections \ {c} : chunk'[d] = chunk[d] /\ remaining'[d] = remaining[d]
  BY <1>2, <1>5 DEF Collected, Set, ConnectionTypes
<1>9. /\ OnlyThis(c)
      /\ \A d \in Connections \ {c}, j \in 1 .. MaxRequests : given'[<<d, j>>] = given[<<d, j>>] /\ fate'[<<d, j>>] = fate[<<d, j>>]
  <2>1. \A d \in Connections, j \in 1 .. MaxRequests : <<d, j>> \in Requests
    BY DEF Requests
  <2>2. Current(c) = <<c, Number(c)>>
    BY <1>2 DEF IsHere
  <2>3. \A d \in Connections, j \in 1 .. MaxRequests : d # c \/ j # Number(c) => <<d, j>> # Current(c)
    BY <2>2
  <2> QED
    BY <1>6, <1>7, <2>1, <2>3 DEF OnlyThis
<1>10. OnlyAt(c) /\ HasHead(c)'
  BY <1>2, <1>6, <1>7, <1>8, <1>9, HeadStays DEF OnlyAt, Same
<1>11. Offset(c) = used[c] - Base(c) /\ Offset(c)' = used'[c] - Base(c) /\ Base(c) \in Nat /\ used[c] \in Nat
  BY <1>2, <1>6, SameRequest DEF Offset, Base, IsHere, HasRequest, Same
<1>12. /\ rq' = rq /\ (\A i : Edge(c, i)' = Edge(c, i)) /\ Chunked(c)' = Chunked(c) /\ IsPost(c)' = IsPost(c) /\ Number(c)' = Number(c)
       /\ given'[Current(c)'] = given[Current(c)] + m /\ fate'[Current(c)'] = "none"
  BY <1>2, <1>6, <1>7, SameRequest DEF Same
<1>13. m \in Nat \ {0} /\ given[Current(c)] \in Nat
  BY <1>3 DEF IsPortion
<1>14. ASSUME Chunked(c)
       PROVE  AtBody(c)' /\ chunk'[c] \in [size : Nat, offset : Nat]
  <2> DEFINE n == Len(rq[c].q.chunks)
             sizes == rq[c].q.chunks
  <2>1. InChunk(c) /\ chunk[c].offset # chunk[c].size /\ chunk[c] \in [size : Nat, offset : Nat]
    BY <1>1, <1>2, <1>4, <1>14 DEF AtBody, BetweenChunks, AtFooters, NoChunk, AtChunkEnd, ConnectionTypes
  <2>2. PICK i \in 1 .. n :
          /\ remaining[c] = Unknown /\ chunk[c].size = sizes[i] /\ chunk[c].offset \in 0 .. chunk[c].size
          /\ Offset(c) = 2 + Edge(c, i - 1) + chunk[c].offset
          /\ given[Current(c)] = Sums(sizes)[i - 1] + chunk[c].offset
    BY <2>1 DEF InChunk, Edge
  <2> DEFINE z == chunk[c].size
             o == chunk[c].offset
             e == Edge(c, i - 1)
             t == Sums(sizes)[i - 1]
  <2>3. ThisChunk(c, i)
    BY <1>2, <1>14 DEF IsChunked
  <2>4. e \in Nat /\ t \in Nat
    BY <2>3 DEF ThisChunk
  <2>5. z \in Nat /\ o \in 0 .. z /\ Offset(c) = 2 + e + o /\ given[Current(c)] = t + o
    BY <2>1, <2>2
  <2>6. m <= z - o
    <3>1. m = AtMost(Available(c), z - o)
      BY <1>14 DEF m, Portion
    <3>2. Available(c) \in Int /\ z - o \in Int
      <4>1. Available(c) \in Int
        BY <1>2, SMTT(30) DEF Available, IsHere
      <4> HIDE DEF z, o
      <4>2. z - o \in Int
        BY <2>5, SMTT(30)
      <4> QED BY <4>1, <4>2
    <3> HIDE DEF z, o
    <3> QED
      BY <3>1, <3>2 DEF AtMost
  <2>7. chunk'[c].size = z /\ chunk'[c].offset = o + m
    BY <1>8, <1>14, <2>1
  <2>8. chunk'[c] \in [size : Nat, offset : Nat]
    BY <1>8, <1>13, <1>14, <2>1
  <2> HIDE DEF z, o, e, t
  <2>9. used'[c] - Base(c) = 2 + e + (o + m) /\ given[Current(c)] + m = t + (o + m) /\ o + m \in 0 .. z
    <3>1. o \in Nat /\ z \in Nat /\ o + m \in 0 .. z
      BY <1>13, <2>5, <2>6
    <3>2. given[Current(c)] + m = t + (o + m)
      BY <1>13, <2>4, <2>5, <3>1, SMTT(30)
    <3>3. used[c] = Base(c) + (2 + e + o)
      BY <1>11, <2>4, <2>5, <3>1, SMTT(30)
    <3>4. used'[c] - Base(c) = 2 + e + (o + m)
      BY <1>7, <1>11, <1>13, <2>4, <3>1, <3>3
    <3> QED
      BY <3>1, <3>2, <3>4
  <2>10. InChunk(c)'
    BY <1>8, <1>11, <1>12, <1>14, <2>2, <2>7, <2>9, ZenonT(40) DEF InChunk, Edge, e, t, z
  <2> QED
    BY <1>12, <1>14, <2>8, <2>10 DEF AtBody
<1>15. ASSUME ~ Chunked(c)
       PROVE  AtBody(c)' /\ remaining'[c] \in Int
  <2> DEFINE z == rq[c].q.body
             r == remaining[c]
             g == given[Current(c)]
  <2>1. r \in 0 .. z /\ g = z - r /\ Offset(c) = 1 + g /\ chunk[c] = NoChunk
    BY <1>4, <1>15 DEF AtBody, InCounted
  <2>2. z \in Nat /\ m <= r /\ remaining'[c] = r - m /\ chunk' = chunk
    BY <1>2, <1>3, <1>8, <1>15 DEF IsCounted
  <2>3. used[c] - Base(c) = 1 + g
    BY <1>11, <2>1
  <2> HIDE DEF z, r, g
  <2>4. r - m \in 0 .. z /\ g + m = z - (r - m) /\ g \in Nat
    BY <1>13, <2>1, <2>2
  <2>5. used'[c] - Base(c) = 1 + (g + m)
    BY <1>7, <1>11, <1>13, <2>3, <2>4
  <2>6. InCounted(c)'
    BY <1>11, <1>12, <2>1, <2>2, <2>4, <2>5 DEF InCounted, z, g
  <2> QED
    BY <1>12, <1>15, <2>2, <2>4, <2>6 DEF AtBody
<1>16. AtBody(c)'
  BY <1>14, <1>15
<1>17. Parsed(c)'
  BY <1>1, <1>4, <1>6, <1>10, <1>12, <1>16 DEF Parsed
<1>18. chunk'[c] \in [size : Nat, offset : Nat] /\ remaining'[c] \in Int
  BY <1>2, <1>8, <1>14, <1>15 DEF ConnectionTypes
<1> QED
  BY <1>2, <1>10, <1>17, <1>18 DEF IsHere

----------------------------------------------------------------------------
(* The state of a connection changes, and no data is used.                    *)

LEMMA DoneParsed ==
  ASSUME CInv, NEW c \in Connections, BodyDone(c)
  PROVE  OnlyAt(c) /\ Parsed(c)'
<1>1. state[c] = "BODY_RECEIVING" /\ remaining[c] = 0
  BY DEF BodyDone
<1>2. /\ HasHead(c) /\ IsHere(c) /\ ConnectionTypes /\ Parsed(c) /\ fate[Current(c)] = "none"
      /\ (~ Chunked(c) => IsCounted(c)) /\ IsPost(c) /\ AtBody(c)
  BY <1>1, Served DEF Parsed
<1>3. /\ Same(c) /\ used' = used /\ given' = given /\ fate' = fate /\ discard' = discard /\ remaining' = remaining /\ chunk' = chunk
      /\ state'[c] = (IF Chunked(c) THEN "FOOTERS_RECEIVING" ELSE "FULL_REQ_RECEIVED")
      /\ \A d \in Connections \ {c} : state'[d] = state[d]
  BY <1>2 DEF BodyDone, Same, buffer, request, history, Becomes, Set, ConnectionTypes
<1>4. OnlyAt(c) /\ HasHead(c)'
  BY <1>2, <1>3, NothingGiven, HeadStays DEF OnlyAt, Same
<1>5. /\ rq' = rq /\ Offset(c)' = Offset(c) /\ Framing(c)' = Framing(c) /\ Chunked(c)' = Chunked(c) /\ IsPost(c)' /\ Number(c)' = Number(c)
      /\ given'[Current(c)'] = given[Current(c)] /\ fate'[Current(c)'] = "none" /\ plan' = plan
  BY <1>2, <1>3, SameRequest, NothingGiven DEF Offset, Same
<1>6. ASSUME Chunked(c)
      PROVE  Parsed(c)'
  <2>1. AtFooters(c)
    BY <1>1, <1>2, <1>6 DEF AtBody, BetweenChunks, InChunk, Unknown
  <2>2. AtFooters(c)'
    BY <1>3, <1>5, <2>1 DEF AtFooters
  <2> QED
    BY <1>3, <1>4, <1>5, <1>6, <2>2 DEF Parsed
<1>7. ASSUME ~ Chunked(c)
      PROVE  Parsed(c)'
  <2>1. /\ given[Current(c)] = rq[c].q.body - remaining[c] /\ used[c] - Base(c) = 1 + given[Current(c)]
        /\ remaining[c] = 0 /\ chunk[c] = NoChunk
    BY <1>1, <1>2, <1>7 DEF AtBody, InCounted, Offset, Base
  <2>2. /\ rq[c].q.body \in Nat /\ Base(c) \in Nat /\ used[c] \in Nat /\ Size(rq[c].q) = rq[c].q.body
        /\ EndOf(c, plan[c], Number(c)) = Base(c) + 1 + rq[c].q.body
    BY <1>2, <1>7 DEF IsCounted, IsHere
  <2>3. given[Current(c)] = rq[c].q.body
    BY <2>1, <2>2
  <2>4. used[c] = EndOf(c, plan[c], Number(c)) /\ given[Current(c)] = Size(rq[c].q)
    BY <2>1, <2>2, <2>3
  <2>5. AtEnd(c)'
    BY <1>3, <1>5, <2>1, <2>4 DEF AtEnd
  <2> QED
    BY <1>3, <1>4, <1>5, <1>7, <2>4, <2>5 DEF Parsed
<1> QED
  BY <1>4, <1>6, <1>7

LEMMA FootersParsed ==
  ASSUME CInv, NEW c \in Connections, Footers(c)
  PROVE  OnlyAt(c) /\ Parsed(c)'
<1>1. state[c] = "FOOTERS_RECEIVING"
  BY DEF Footers
<1>2. /\ HasHead(c) /\ IsHere(c) /\ ConnectionTypes /\ Parsed(c) /\ fate[Current(c)] = "none"
      /\ IsPost(c) /\ AtFooters(c) /\ Chunked(c) /\ IsChunked(c)
  BY <1>1, Served DEF Parsed
<1>3. /\ Same(c) /\ used'[c] = used[c] + 1 /\ given' = given /\ fate' = fate /\ discard' = discard /\ remaining' = remaining /\ chunk' = chunk
      /\ state'[c] = "FULL_REQ_RECEIVED"
      /\ \A d \in Connections \ {c} : state'[d] = state[d] /\ used'[d] = used[d]
  BY <1>2 DEF Footers, Same, Use, request, history, Becomes, Set, ConnectionTypes
<1>4. OnlyAt(c) /\ HasHead(c)'
  BY <1>2, <1>3, NothingGiven, HeadStays DEF OnlyAt, Same
<1>5. /\ rq' = rq /\ IsPost(c)' /\ Number(c)' = Number(c) /\ plan' = plan
      /\ given'[Current(c)'] = given[Current(c)] /\ fate'[Current(c)'] = "none"
  BY <1>2, <1>3, SameRequest, NothingGiven DEF Same
<1> DEFINE e == Edge(c, Len(rq[c].q.chunks))
<1>6. used[c] - Base(c) = 2 + e /\ given[Current(c)] = Size(rq[c].q) /\ chunk[c] = NoChunk
  BY <1>2 DEF AtFooters, Offset, Base, Edge
<1>7. e \in Nat /\ Base(c) \in Nat /\ used[c] \in Nat /\ EndOf(c, plan[c], Number(c)) = Base(c) + e + 3
  BY <1>2 DEF IsChunked, IsHere
<1> HIDE DEF e
<1>8. used'[c] = EndOf(c, plan[c], Number(c))
  BY <1>3, <1>6, <1>7
<1>9. AtEnd(c)'
  BY <1>3, <1>5, <1>6, <1>8 DEF AtEnd
<1> QED
  BY <1>3, <1>4, <1>5, <1>6, <1>9 DEF Parsed

\* A request ends: its own fate is set.
LEMMA FateSet ==
  ASSUME ConnectionTypes, NEW c \in Connections, IsHere(c), NEW v, fate' = Set(fate, Current(c), v), given' = given
  PROVE  /\ OnlyThis(c) /\ \A d \in Connections \ {c}, j \in 1 .. MaxRequests :
              given'[<<d, j>>] = given[<<d, j>>] /\ fate'[<<d, j>>] = fate[<<d, j>>]
         /\ fate'[Current(c)] = v /\ \A r \in Requests : r # Current(c) => fate'[r] = fate[r]
<1>1. \A d \in Connections, j \in 1 .. MaxRequests : <<d, j>> \in Requests
  BY DEF Requests
<1>2. Current(c) = <<c, Number(c)>> /\ Current(c) \in Requests
  BY DEF IsHere
<1>3. \A d \in Connections, j \in 1 .. MaxRequests : d # c \/ j # Number(c) => <<d, j>> # Current(c)
  BY <1>2
<1>4. fate'[Current(c)] = v /\ \A r \in Requests : r # Current(c) => fate'[r] = fate[r]
  BY <1>2 DEF Set, ConnectionTypes
<1> QED
  BY <1>1, <1>3, <1>4 DEF OnlyThis

LEMMA AnswerParsed ==
  ASSUME CInv, NEW c \in Connections, state[c] \in {"HEADERS_PROCESSED", "FULL_REQ_RECEIVED"}, Answered(c),
         state' = Set(state, c, "SENDING"), Same(c), used' = used, given' = given, chunk' = chunk,
         remaining' = remaining \/ remaining' = Set(remaining, c, 0),
         (state[c] = "FULL_REQ_RECEIVED" /\ discard' = discard) \/ discard' = Set(discard, c, TRUE)
  PROVE  OnlyAt(c) /\ Parsed(c)'
<1>1. HasHead(c) /\ IsHere(c) /\ ConnectionTypes /\ Parsed(c)
  BY Served
<1>2. fate' = fate \/ fate' = Set(fate, Current(c), "reply")
  BY DEF Answered
<1>3. /\ OnlyThis(c)
      /\ \A d \in Connections \ {c}, j \in 1 .. MaxRequests : given'[<<d, j>>] = given[<<d, j>>] /\ fate'[<<d, j>>] = fate[<<d, j>>]
  BY <1>1, <1>2, NothingGiven, FateSet
<1>4. state'[c] = "SENDING" /\ \A d \in Connections \ {c} : state'[d] = state[d] /\ remaining'[d] = remaining[d] /\ discard'[d] = discard[d]
  BY <1>1 DEF Set, ConnectionTypes
<1>5. OnlyAt(c) /\ HasHead(c)'
  BY <1>1, <1>3, <1>4, HeadStays DEF OnlyAt, Same
<1>6. discard'[c] \/ AtEnd(c)'
  <2>1. CASE discard' = Set(discard, c, TRUE)
    BY <1>1, <2>1 DEF Set, ConnectionTypes
  <2>2. CASE state[c] = "FULL_REQ_RECEIVED"
    <3>1. AtEnd(c)
      BY <1>1, <2>2 DEF Parsed
    <3> QED
      BY <3>1, SameRequest DEF AtEnd, Same
  <2> QED
    BY <2>1, <2>2
<1> QED
  BY <1>4, <1>5, <1>6 DEF Parsed, Serving

LEMMA FirstParsed ==
  ASSUME CInv, NEW c \in Connections, FirstCall(c)
  PROVE  OnlyAt(c) /\ Parsed(c)'
<1>1. state[c] = "HEADERS_PROCESSED" /\ Same(c) /\ used' = used /\ given' = given /\ chunk' = chunk
  BY DEF FirstCall, Same, buffer
<1>2. /\ HasHead(c) /\ IsHere(c) /\ ConnectionTypes /\ Parsed(c) /\ fate[Current(c)] = "none"
      /\ (~ Chunked(c) => IsCounted(c)) /\ AtBody(c) /\ given[Current(c)] = 0 /\ (Chunked(c) => remaining[c] # 0)
  BY <1>1, Served DEF Parsed
<1>3. CASE Answered(c) /\ Refused(c) /\ Becomes(c, "SENDING")
  BY <1>1, <1>3, AnswerParsed DEF Refused, Becomes
<1>4. ASSUME NotAnswered(c), remaining' = remaining, discard' = discard,
             NEW s \in {"CONTINUE_SENDING", "FULL_REQ_RECEIVED", "BODY_RECEIVING"}, Becomes(c, s),
             s = "FULL_REQ_RECEIVED" => remaining[c] = 0
      PROVE  OnlyAt(c) /\ Parsed(c)'
  <2>1. fate' = fate /\ IsPost(c)
    BY <1>4 DEF NotAnswered
  <2>2. state'[c] = s /\ \A d \in Connections \ {c} : state'[d] = state[d]
    BY <1>2, <1>4 DEF Becomes, Set, ConnectionTypes
  <2>3. OnlyAt(c) /\ HasHead(c)'
    BY <1>1, <1>2, <1>4, <2>1, <2>2, NothingGiven, HeadStays DEF OnlyAt, Same
  <2>4. /\ rq' = rq /\ Offset(c)' = Offset(c) /\ Framing(c)' = Framing(c) /\ Chunked(c)' = Chunked(c) /\ IsPost(c)' /\ Number(c)' = Number(c)
        /\ given'[Current(c)'] = given[Current(c)] /\ fate'[Current(c)'] = "none" /\ plan' = plan
    BY <1>1, <1>2, <2>1, SameRequest, NothingGiven DEF Offset, Same
  <2>5. AtBody(c)'
    BY <1>1, <1>2, <1>4, <2>4, ZenonT(40) DEF AtBody, BetweenChunks, InChunk, AtFooters, InCounted
  <2>6. ASSUME s = "FULL_REQ_RECEIVED"
        PROVE  AtEnd(c)' /\ given[Current(c)] = Size(rq[c].q)
    <3>1. ~ Chunked(c) /\ remaining[c] = 0
      BY <1>2, <1>4, <2>6
    <3>2. given[Current(c)] = rq[c].q.body - remaining[c] /\ used[c] - Base(c) = 1 + given[Current(c)] /\ chunk[c] = NoChunk
      BY <1>2, <3>1 DEF AtBody, InCounted, Offset, Base
    <3>3. /\ rq[c].q.body \in Nat /\ Base(c) \in Nat /\ used[c] \in Nat /\ Size(rq[c].q) = rq[c].q.body
          /\ EndOf(c, plan[c], Number(c)) = Base(c) + 1 + rq[c].q.body
      BY <1>2, <3>1 DEF IsCounted, IsHere
    <3>4. rq[c].q.body = 0
      BY <1>2, <3>1, <3>2, <3>3
    <3>5. used[c] = EndOf(c, plan[c], Number(c)) /\ given[Current(c)] = Size(rq[c].q)
      BY <1>2, <3>2, <3>3, <3>4
    <3> QED
      BY <1>1, <2>4, <3>2, <3>5 DEF AtEnd
  <2> QED
    BY <2>2, <2>3, <2>4, <2>5, <2>6 DEF Parsed
<1>5. CASE /\ NotAnswered(c) /\ UNCHANGED <<remaining, discard>>
           /\ IF NeedsContinue(c)
              THEN Becomes(c, "CONTINUE_SENDING")
              ELSE Becomes(c, IF remaining[c] = 0 THEN "FULL_REQ_RECEIVED" ELSE "BODY_RECEIVING")
  BY <1>4, <1>5
<1> QED
  BY <1>3, <1>5 DEF FirstCall

LEMMA FinalParsed ==
  ASSUME CInv, NEW c \in Connections, FinalCall(c)
  PROVE  AllParsed'
<1>1. /\ state[c] = "FULL_REQ_RECEIVED" /\ Same(c) /\ used' = used /\ given' = given /\ chunk' = chunk
      /\ discard' = discard /\ remaining' = remaining
  BY DEF FinalCall, Same, buffer, request
<1>2. CASE Answered(c) /\ Becomes(c, "SENDING")
  BY <1>1, <1>2, AnswerParsed, OthersStay DEF Becomes
<1>3. CASE NotAnswered(c) /\ UNCHANGED state
  BY <1>1, <1>3, QuietStays DEF Quiet, Same, NotAnswered
<1> QED
  BY <1>2, <1>3 DEF FinalCall

LEMMA ContinueParsed ==
  ASSUME CInv, NEW c \in Connections, ContinueSent(c)
  PROVE  OnlyAt(c) /\ Parsed(c)'
<1>1. state[c] = "CONTINUE_SENDING"
  BY DEF ContinueSent
<1>2. /\ HasHead(c) /\ IsHere(c) /\ ConnectionTypes /\ Parsed(c) /\ fate[Current(c)] = "none" /\ IsPost(c) /\ AtBody(c)
  BY <1>1, Served DEF Parsed
<1>3. /\ Same(c) /\ used' = used /\ given' = given /\ fate' = fate /\ discard' = discard /\ remaining' = remaining /\ chunk' = chunk
      /\ state'[c] = "BODY_RECEIVING" /\ \A d \in Connections \ {c} : state'[d] = state[d]
  BY <1>2 DEF ContinueSent, Same, buffer, request, history, Becomes, Set, ConnectionTypes
<1>4. OnlyAt(c) /\ HasHead(c)'
  BY <1>2, <1>3, NothingGiven, HeadStays DEF OnlyAt, Same
<1>5. /\ rq' = rq /\ Offset(c)' = Offset(c) /\ Framing(c)' = Framing(c) /\ Chunked(c)' = Chunked(c) /\ IsPost(c)'
      /\ given'[Current(c)'] = given[Current(c)] /\ fate'[Current(c)'] = "none"
  BY <1>2, <1>3, SameRequest, NothingGiven DEF Offset, Same
<1>6. AtBody(c)'
  BY <1>2, <1>3, <1>5 DEF AtBody, BetweenChunks, InChunk, AtFooters, InCounted
<1> QED
  BY <1>3, <1>4, <1>5, <1>6 DEF Parsed

LEMMA ClosedParsed ==
  ASSUME CInv, NEW c \in Connections, Close(c), state[c] # "CLOSED"
  PROVE  OnlyAt(c) /\ Parsed(c)'
<1>1. /\ Same(c) /\ used' = used /\ given' = given /\ chunk' = chunk /\ discard' = discard /\ remaining' = remaining
      /\ state'[c] = "CLOSED" /\ \A d \in Connections \ {c} : state'[d] = state[d]
      /\ ConnectionTypes
  BY DEF Close, Same, buffer, request, Becomes, Set, ConnectionTypes, CInv
<1>2. \A d \in Connections \ {c}, j \in 1 .. MaxRequests : given'[<<d, j>>] = given[<<d, j>>] /\ fate'[<<d, j>>] = fate[<<d, j>>]
  <2>1. CASE fate' = fate
    BY <1>1, <2>1
  <2>2. CASE Serving(c) /\ fate' = Set(fate, Current(c), "closed")
    <3>1. IsHere(c)
      BY <2>2, Served DEF Serving
    <3> QED
      BY <1>1, <2>2, <3>1, FateSet
  <2> QED
    BY <2>1, <2>2 DEF Close
<1> QED
  BY <1>1, <1>2 DEF OnlyAt, Same, Parsed, Serving

LEMMA ReusedParsed ==
  ASSUME CInv, NEW c \in Connections, state[c] = "SENDING", ~ discard[c], Reused(c)
  PROVE  OnlyAt(c) /\ Parsed(c)'
<1>1. HasHead(c) /\ IsHere(c) /\ ConnectionTypes /\ AtEnd(c)
  BY Served DEF Parsed
<1>2. /\ plan' = plan /\ used' = used /\ given' = given /\ fate' = fate /\ discard' = discard
      /\ state'[c] = "INIT" /\ chunk'[c] = NoChunk
      /\ \A d \in Connections \ {c} : state'[d] = state[d] /\ rq'[d] = rq[d] /\ remaining'[d] = remaining[d] /\ chunk'[d] = chunk[d]
  BY <1>1 DEF Reused, buffer, history, Becomes, Set, ConnectionTypes
<1>3. Number(c) \in 0 .. Len(plan[c]) /\ used[c] = EndOf(c, plan[c], Number(c)) /\ NoneYet(c, Number(c) + 1)
  <2>1. IsPlan(plan[c]) /\ Number(c) \in 1 .. Len(plan[c])
    BY <1>1 DEF IsHere
  <2>2. Len(plan[c]) \in Nat
    BY <2>1 DEF IsPlan
  <2> QED
    BY <1>1, <2>1, <2>2 DEF AtEnd, HasHead
<1>4. (\E k \in 0 .. Len(plan[c]) : used[c] = EndOf(c, plan[c], k) /\ NoneYet(c, k + 1))'
  <2> DEFINE k == Number(c)
  <2>1. NoneYet(c, k + 1) = (\A j \in 1 .. MaxRequests : j >= k + 1 => given'[<<c, j>>] = 0 /\ fate'[<<c, j>>] = "none")
    BY <1>2 DEF NoneYet
  <2>2. k \in 0 .. Len(plan'[c]) /\ used'[c] = EndOf(c, plan'[c], k) /\ \A j \in 1 .. MaxRequests : j >= k + 1 => given'[<<c, j>>] = 0 /\ fate'[<<c, j>>] = "none"
    BY <1>2, <1>3, <2>1
  <2> HIDE DEF k
  <2> QED
    BY <2>2 DEF NoneYet
<1> QED
  BY <1>2, <1>4 DEF OnlyAt, Parsed, Serving

----------------------------------------------------------------------------
(* The invariant of the connections.                                         *)

LEMMA TypesInit ==
  ASSUME Init
  PROVE  CInv
<1>1. ConnectionTypes
  <2>1. /\ plan \in [Connections -> Plans] /\ received \in [Connections -> Nat] /\ used \in [Connections -> Nat]
        /\ state \in [Connections -> DOMAIN Stage] /\ remaining \in [Connections -> Int]
        /\ discard \in [Connections -> BOOLEAN] /\ running \in Connections \cup {Nobody}
        /\ fate \in [Requests -> {"none", "reply", "closed"}] /\ given \in [Requests -> Nat]
    BY DEF Init, Stage
  <2>2. rq \in [Connections -> Heads] /\ chunk \in [Connections -> [size : Nat, offset : Nat]]
    BY DEF Init, Heads, NoChunk
  <2>3. \A c \in Connections : used[c] <= received[c] /\ received[c] <= Len(Stream[c][plan[c]])
    <3> SUFFICES ASSUME NEW c \in Connections
                 PROVE  used[c] <= received[c] /\ received[c] <= Len(Stream[c][plan[c]])
      OBVIOUS
    <3>1. plan[c] \in Plans /\ used[c] = 0 /\ received[c] = 0
      BY <2>1 DEF Init
    <3>2. EndOf(c, plan[c], 0) = 0 /\ \A k \in 0 .. Len(plan[c]) : EndOf(c, plan[c], k) \in Nat /\ EndOf(c, plan[c], k) <= Len(Stream[c][plan[c]])
      BY <3>1, StreamShape
    <3>3. 0 \in 0 .. Len(plan[c])
      BY <3>1, PlanTypes DEF IsPlan
    <3>4. 0 <= Len(Stream[c][plan[c]])
      BY <3>2, <3>3
    <3> QED
      BY <3>1, <3>4
  <2> QED
    BY <2>1, <2>2, <2>3 DEF ConnectionTypes
<1>2. ASSUME NEW c \in Connections
      PROVE  Parsed(c)
  <2>1. state[c] = "INIT" /\ chunk[c] = NoChunk /\ used[c] = 0
    BY DEF Init
  <2>2. plan[c] \in Plans
    BY <1>1 DEF ConnectionTypes
  <2>3. 0 \in 0 .. Len(plan[c]) /\ EndOf(c, plan[c], 0) = 0
    BY <2>2, PlanTypes, StreamShape DEF IsPlan
  <2>4. NoneYet(c, 0 + 1)
    BY DEF Init, NoneYet, Requests
  <2> QED
    BY <2>1, <2>3, <2>4 DEF Parsed, Serving
<1> QED
  BY <1>1, <1>2 DEF CInv, AllParsed

\* What is used was received.
LEMMA UseTypes ==
  ASSUME ConnectionTypes, NEW c \in Connections, NEW m \in Nat, m <= Available(c), Use(c, m)
  PROVE  /\ plan' = plan /\ received' = received /\ used' \in [Connections -> Nat]
         /\ \A d \in Connections : used'[d] <= received'[d] /\ received'[d] <= Len(Stream[d][plan'[d]])
<1>1. used[c] \in Nat /\ received[c] \in Nat /\ used[c] + m \in Nat /\ used[c] + m <= received[c]
  BY DEF ConnectionTypes, Available
<1>2. plan' = plan /\ received' = received /\ used' = [used EXCEPT ![c] = used[c] + m]
  BY DEF Use, Set
<1>3. used' \in [Connections -> Nat] /\ used'[c] = used[c] + m /\ \A d \in Connections \ {c} : used'[d] = used[d]
  BY <1>1, <1>2 DEF ConnectionTypes
<1> QED
  BY <1>1, <1>2, <1>3 DEF ConnectionTypes

\* The rest of what a connection has has its types.
RestTypes ==
  /\ state \in [Connections -> DOMAIN Stage] /\ rq \in [Connections -> Heads]
  /\ remaining \in [Connections -> Int] /\ chunk \in [Connections -> [size : Nat, offset : Nat]]
  /\ discard \in [Connections -> BOOLEAN] /\ running \in Connections \cup {Nobody}
  /\ fate \in [Requests -> {"none", "reply", "closed"}] /\ given \in [Requests -> Nat]

LEMMA RestOfTypes == ConnectionTypes => RestTypes
BY DEF ConnectionTypes, RestTypes

LEMMA BufferTypes ==
  ASSUME ConnectionTypes, buffer' = buffer, RestTypes'
  PROVE  ConnectionTypes'
BY DEF ConnectionTypes, RestTypes, buffer

LEMMA UsedTypes ==
  ASSUME ConnectionTypes, NEW c \in Connections, NEW m \in Nat, m <= Available(c), Use(c, m), RestTypes'
  PROVE  ConnectionTypes'
<1>1. /\ plan' = plan /\ received' = received /\ used' \in [Connections -> Nat]
      /\ \A d \in Connections : used'[d] <= received'[d] /\ received'[d] <= Len(Stream[d][plan'[d]])
  BY UseTypes
<1> QED
  BY <1>1 DEF ConnectionTypes, RestTypes

LEMMA StageStates ==
  {"INIT", "HEADERS_PROCESSED", "CONTINUE_SENDING", "BODY_RECEIVING", "FOOTERS_RECEIVING", "FULL_REQ_RECEIVED", "SENDING", "CLOSED"}
    = DOMAIN Stage
BY DEF Stage

LEMMA CloseTypes ==
  ASSUME CInv, NEW c \in Connections, Close(c), state[c] # "CLOSED"
  PROVE  ConnectionTypes'
<1>1. ConnectionTypes /\ RestTypes
  BY RestOfTypes DEF CInv
<1>2. state' \in [Connections -> DOMAIN Stage]
  BY <1>1, StageStates DEF Close, Becomes, Set, RestTypes
<1>3. fate' \in [Requests -> {"none", "reply", "closed"}]
  BY <1>1 DEF Close, Set, RestTypes
<1>4. /\ buffer' = buffer /\ given' = given /\ rq' = rq /\ remaining' = remaining /\ chunk' = chunk /\ discard' = discard
      /\ running' = Nobody
  BY DEF Close, request
<1>5. RestTypes'
  BY <1>1, <1>2, <1>3, <1>4 DEF RestTypes
<1> QED
  BY <1>1, <1>4, <1>5, BufferTypes

LEMMA AnsweredTypes ==
  ASSUME CInv, NEW c \in Connections, state[c] \notin {"INIT", "CLOSED"}, Answered(c) \/ NotAnswered(c)
  PROVE  fate' \in [Requests -> {"none", "reply", "closed"}]
BY DEF Answered, NotAnswered, Set, CInv, ConnectionTypes

LEMMA ReadStep ==
  ASSUME CInv, NEW c \in Connections, Read(c)
  PROVE  CInv'
<1>1. ConnectionTypes
  BY DEF CInv
<1> DEFINE len == Len(Stream[c][plan[c]])
<1>2. PICK m \in 1 .. len - received[c] : received' = Set(received, c, received[c] + m)
  BY DEF Read
<1>3. plan' = plan /\ used' = used /\ running' = c /\ state' = state /\ request' = request /\ history' = history
  BY DEF Read
<1>4. plan[c] \in Plans /\ received[c] \in Nat /\ used[c] \in Nat /\ used[c] <= received[c]
  BY <1>1 DEF ConnectionTypes
<1>5. len \in Nat
  BY <1>4, StreamTypes
<1>6. received[c] + m \in Nat /\ received[c] + m <= len /\ used[c] <= received[c] + m
  <2> HIDE DEF len
  <2> QED
    BY <1>4, <1>5
<1>7. received' \in [Connections -> Nat] /\ received'[c] = received[c] + m /\ \A d \in Connections \ {c} : received'[d] = received[d]
  BY <1>1, <1>2, <1>6 DEF ConnectionTypes, Set
<1>8. ConnectionTypes'
  BY <1>1, <1>3, <1>6, <1>7 DEF ConnectionTypes, request, history
<1>9. AllParsed'
  BY <1>3, QuietStays DEF Quiet, request, history
<1> QED
  BY <1>8, <1>9 DEF CInv

LEMMA HeadStep ==
  ASSUME CInv, NEW c \in Connections, GetHead(c)
  PROVE  CInv'
<1>1. ConnectionTypes /\ RestTypes
  BY RestOfTypes DEF CInv
<1>2. OnlyAt(c) /\ Parsed(c)' /\ rq' \in [Connections -> Heads] /\ remaining'[c] \in Int
  BY HeadParsed
<1>3. AllParsed'
  BY <1>2, OthersStay
<1>4. state' \in [Connections -> DOMAIN Stage]
  BY <1>1, StageStates DEF GetHead, Becomes, Set, RestTypes
<1>5. remaining' \in [Connections -> Int]
  <2>1. PICK v : remaining' = Set(remaining, c, v)
    BY DEF GetHead
  <2> QED
    BY <1>1, <1>2, <2>1 DEF Set, RestTypes
<1>6. chunk' = chunk /\ discard' = discard /\ running' = running /\ fate' = fate /\ given' = given
  BY DEF GetHead
<1>7. RestTypes'
  BY <1>1, <1>2, <1>4, <1>5, <1>6 DEF RestTypes
<1>8. 1 \in Nat /\ 1 <= Available(c) /\ Use(c, 1)
  BY <1>1 DEF GetHead, Available, ConnectionTypes
<1> QED
  BY <1>1, <1>3, <1>7, <1>8, UsedTypes DEF CInv

LEMMA FirstStep ==
  ASSUME CInv, NEW c \in Connections, FirstCall(c)
  PROVE  CInv'
<1>1. ConnectionTypes /\ RestTypes
  BY RestOfTypes DEF CInv
<1>2. AllParsed'
  BY FirstParsed, OthersStay
<1>3. state' \in [Connections -> DOMAIN Stage]
  BY <1>1, StageStates DEF FirstCall, Becomes, Set, RestTypes
<1>4. fate' \in [Requests -> {"none", "reply", "closed"}]
  BY AnsweredTypes DEF FirstCall
<1>5. remaining' \in [Connections -> Int] /\ discard' \in [Connections -> BOOLEAN]
  <2>1. remaining' \in [Connections -> Int]
    BY <1>1 DEF FirstCall, Refused, Set, RestTypes
  <2>2. discard' = discard \/ discard' = [discard EXCEPT ![c] = TRUE]
    BY DEF FirstCall, Refused, Set
  <2>3. discard \in [Connections -> BOOLEAN]
    BY <1>1 DEF RestTypes
  <2> QED
    BY <2>1, <2>2, <2>3
<1>6. buffer' = buffer /\ rq' = rq /\ chunk' = chunk /\ given' = given /\ running' \in {running, Nobody}
  BY DEF FirstCall
<1>7. RestTypes'
  BY <1>1, <1>3, <1>4, <1>5, <1>6 DEF RestTypes
<1> QED
  BY <1>1, <1>2, <1>6, <1>7, BufferTypes DEF CInv

LEMMA ChunkStep ==
  ASSUME CInv, NEW c \in Connections, SkipLineEnd(c) \/ ChunkSize(c)
  PROVE  CInv'
<1>1. ConnectionTypes /\ RestTypes
  BY RestOfTypes DEF CInv
<1>2. AllParsed'
  BY LineEndParsed, SizeParsed, OthersStay
<1>3. chunk' \in [Connections -> [size : Nat, offset : Nat]]
  <2>1. CASE SkipLineEnd(c)
    BY <1>1, <2>1 DEF SkipLineEnd, NoChunk, Set, RestTypes
  <2>2. CASE ChunkSize(c)
    <3>1. Next1(c).n \in Nat
      BY <2>2, SizeParsed
    <3>2. [size |-> Next1(c).n, offset |-> 0] \in [size : Nat, offset : Nat]
      BY <3>1
    <3> QED
      BY <1>1, <2>2, <3>2 DEF ChunkSize, Set, RestTypes
  <2> QED
    BY <2>1, <2>2
<1>4. remaining' \in [Connections -> Int]
  BY <1>1 DEF SkipLineEnd, ChunkSize, Set, RestTypes
<1>5. state' = state /\ rq' = rq /\ discard' = discard /\ running' = running /\ fate' = fate /\ given' = given
  BY DEF SkipLineEnd, ChunkSize, history
<1>6. RestTypes'
  BY <1>1, <1>3, <1>4, <1>5 DEF RestTypes
<1>7. 1 \in Nat /\ 1 <= Available(c) /\ Use(c, 1)
  BY <1>1 DEF SkipLineEnd, ChunkSize, InBody, Available, ConnectionTypes
<1> QED
  BY <1>1, <1>2, <1>6, <1>7, UsedTypes DEF CInv

LEMMA UploadStep ==
  ASSUME CInv, NEW c \in Connections, Upload(c)
  PROVE  CInv'
<1>1. ConnectionTypes /\ RestTypes /\ state[c] # "CLOSED"
  BY RestOfTypes DEF CInv, Upload, InBody
<1>2. CASE CollectFails /\ Close(c)
  BY <1>1, <1>2, CloseTypes, ClosedParsed, OthersStay DEF CInv
<1>3. CASE Collected(c, Portion(c))
  <2> DEFINE m == Portion(c)
  <2>0. InBody(c) /\ (Chunked(c) => chunk[c].size # 0 /\ ~ AtChunkEnd(c))
    BY DEF Upload
  <2>1. /\ OnlyAt(c) /\ Parsed(c)' /\ Current(c) \in Requests
        /\ chunk'[c] \in [size : Nat, offset : Nat] /\ remaining'[c] \in Int
    BY <1>3, <2>0, DataParsed
  <2>2. m \in Nat /\ m <= Available(c) /\ given[Current(c)] \in Nat
    BY <2>0, PortionHere DEF IsPortion
  <2> HIDE DEF m
  <2>3. Collected(c, m)
    BY <1>3 DEF m
  <2>4. given' = Set(given, Current(c), given[Current(c)] + m) /\ given[Current(c)] + m \in Nat
    BY <2>2, <2>3 DEF Collected
  <2>5. given' \in [Requests -> Nat]
    BY <1>1, <2>1, <2>4 DEF Set, RestTypes
  <2>6. chunk' \in [Connections -> [size : Nat, offset : Nat]]
    <3>1. chunk' = chunk \/ \E v : chunk' = Set(chunk, c, v)
      BY <2>3 DEF Collected
    <3> QED
      BY <1>1, <2>1, <3>1 DEF Set, RestTypes
  <2>7. remaining' \in [Connections -> Int]
    <3>1. remaining' = remaining \/ \E v : remaining' = Set(remaining, c, v)
      BY <2>3 DEF Collected
    <3> QED
      BY <1>1, <2>1, <3>1 DEF Set, RestTypes
  <2>8. Use(c, m) /\ state' = state /\ rq' = rq /\ discard' = discard /\ running' = running /\ fate' = fate
    BY <2>3 DEF Collected
  <2>9. RestTypes'
    BY <1>1, <2>5, <2>6, <2>7, <2>8 DEF RestTypes
  <2> QED
    BY <1>1, <2>1, <2>2, <2>8, <2>9, UsedTypes, OthersStay DEF CInv
<1> QED
  BY <1>2, <1>3 DEF Upload

LEMMA DoneStep ==
  ASSUME CInv, NEW c \in Connections, BodyDone(c) \/ ContinueSent(c)
  PROVE  CInv'
<1>1. ConnectionTypes /\ RestTypes
  BY RestOfTypes DEF CInv
<1>2. AllParsed'
  BY DoneParsed, ContinueParsed, OthersStay
<1>3. state' \in [Connections -> DOMAIN Stage]
  BY <1>1, StageStates DEF BodyDone, ContinueSent, Becomes, Set, RestTypes
<1>4. /\ buffer' = buffer /\ rq' = rq /\ chunk' = chunk /\ given' = given /\ running' \in {running, c} /\ remaining' = remaining
      /\ discard' = discard /\ fate' = fate
  BY DEF BodyDone, ContinueSent, request, history
<1>5. RestTypes'
  BY <1>1, <1>3, <1>4 DEF RestTypes
<1> QED
  BY <1>1, <1>2, <1>4, <1>5, BufferTypes DEF CInv

LEMMA FootersStep ==
  ASSUME CInv, NEW c \in Connections, Footers(c)
  PROVE  CInv'
<1>1. ConnectionTypes /\ RestTypes
  BY RestOfTypes DEF CInv
<1>2. AllParsed'
  BY FootersParsed, OthersStay
<1>3. state' \in [Connections -> DOMAIN Stage]
  BY <1>1, StageStates DEF Footers, Becomes, Set, RestTypes
<1>4. rq' = rq /\ chunk' = chunk /\ given' = given /\ running' = running /\ remaining' = remaining /\ discard' = discard /\ fate' = fate
  BY DEF Footers, request, history
<1>5. RestTypes'
  BY <1>1, <1>3, <1>4 DEF RestTypes
<1>6. 1 \in Nat /\ 1 <= Available(c) /\ Use(c, 1)
  BY <1>1 DEF Footers, Available, ConnectionTypes
<1> QED
  BY <1>1, <1>2, <1>5, <1>6, UsedTypes DEF CInv

LEMMA FinalStep ==
  ASSUME CInv, NEW c \in Connections, FinalCall(c)
  PROVE  CInv'
<1>1. ConnectionTypes /\ RestTypes
  BY RestOfTypes DEF CInv
<1>2. AllParsed'
  BY FinalParsed
<1>3. state' \in [Connections -> DOMAIN Stage]
  BY <1>1, StageStates DEF FinalCall, Becomes, Set, RestTypes
<1>4. fate' \in [Requests -> {"none", "reply", "closed"}]
  BY AnsweredTypes DEF FinalCall
<1>5. /\ buffer' = buffer /\ rq' = rq /\ chunk' = chunk /\ given' = given /\ running' = Nobody /\ remaining' = remaining
      /\ discard' = discard
  BY DEF FinalCall, request
<1>6. RestTypes'
  BY <1>1, <1>3, <1>4, <1>5 DEF RestTypes
<1> QED
  BY <1>1, <1>2, <1>5, <1>6, BufferTypes DEF CInv

LEMMA WaitsStep ==
  ASSUME CInv, NEW c \in Connections, Waits(c)
  PROVE  CInv'
<1>1. ConnectionTypes /\ RestTypes
  BY RestOfTypes DEF CInv
<1>2. buffer' = buffer /\ state' = state /\ request' = request /\ history' = history /\ running' = Nobody
  BY DEF Waits
<1>3. AllParsed'
  BY <1>2, QuietStays DEF Quiet, buffer, request, history
<1>4. RestTypes'
  BY <1>1, <1>2 DEF RestTypes, request, history
<1> QED
  BY <1>1, <1>2, <1>3, <1>4, BufferTypes DEF CInv

LEMMA SentStep ==
  ASSUME CInv, NEW c \in Connections, Sent(c) \/ Lost(c)
  PROVE  CInv'
<1>1. ConnectionTypes /\ RestTypes /\ state[c] # "CLOSED"
  BY RestOfTypes DEF CInv, Sent, Lost
<1>2. CASE Close(c)
  BY <1>1, <1>2, CloseTypes, ClosedParsed, OthersStay DEF CInv
<1>3. CASE state[c] = "SENDING" /\ ~ discard[c] /\ Reused(c)
  <2>1. AllParsed'
    BY <1>3, ReusedParsed, OthersStay
  <2>2. state' \in [Connections -> DOMAIN Stage] /\ rq' \in [Connections -> Heads]
    BY <1>1, <1>3, StageStates DEF Reused, Becomes, Set, RestTypes, Heads
  <2>3. remaining' \in [Connections -> Int] /\ chunk' \in [Connections -> [size : Nat, offset : Nat]]
    BY <1>1, <1>3 DEF Reused, Set, RestTypes, NoChunk
  <2>4. buffer' = buffer /\ discard' = discard /\ running' = c /\ given' = given /\ fate' = fate
    BY <1>3 DEF Reused, history
  <2>5. RestTypes'
    BY <1>1, <2>2, <2>3, <2>4 DEF RestTypes
  <2> QED
    BY <1>1, <2>1, <2>4, <2>5, BufferTypes DEF CInv
<1> QED
  BY <1>2, <1>3 DEF Sent, Lost

\* The steps of libmicrohttpd and of its clients keep the invariant.
LEMMA ConnectionStep ==
  ASSUME CInv, [Next]_vars
  PROVE  CInv'
<1>1. CASE UNCHANGED vars
  <2>1. buffer' = buffer /\ Quiet /\ running' = running
    BY <1>1 DEF vars, buffer, request, history, Quiet
  <2>2. RestTypes'
    BY <2>1, RestOfTypes DEF RestTypes, Quiet, CInv
  <2> QED
    BY <2>1, <2>2, QuietStays, BufferTypes DEF CInv
<1>2. ASSUME NEW c \in Connections, Read(c) \/ Runs(c) \/ ContinueSent(c) \/ Sent(c) \/ Lost(c)
      PROVE  CInv'
  <2>1. CASE Read(c) \/ ContinueSent(c) \/ Sent(c) \/ Lost(c)
    BY <2>1, ReadStep, DoneStep, SentStep
  <2>2. CASE Runs(c)
    BY <2>2, HeadStep, FirstStep, ChunkStep, UploadStep, DoneStep, FootersStep, FinalStep, WaitsStep DEF Runs
  <2> QED
    BY <1>2, <2>1, <2>2
<1> QED
  BY <1>1, <1>2 DEF Next

LEMMA ConnectionsAreParsed == Spec => []CInv
<1>1. Init => CInv
  BY TypesInit
<1>2. CInv /\ [Next]_vars => CInv'
  BY ConnectionStep
<1> QED
  BY <1>1, <1>2, PTL DEF Spec

\* On every connection the parser is where the state of the connection says: a
\* connection that starts on a request has its head in front, or nothing, and
\* no unread body, chunk or footer is taken for a request
\* (MHD_connection_handle_idle(), connection_reset()).
THEOREM FramingHolds == Spec => []FramesAreTrue
<1>1. CInv => FramesAreTrue
  BY HeadInFront
<1> QED
  BY <1>1, ConnectionsAreParsed, PTL

----------------------------------------------------------------------------
(* HttpServer is implemented: what the steps are for the handler.             *)

LEMMA Collecting ==
  ASSUME NEW d, Collect(d)
  PROVE  Server!Collect(d)
BY DEF Collect, Server!Collect, Grown, Server!Grown, Hole, Server!Hole

LEMMA Answering ==
  ASSUME NEW r, Answer(r)
  PROVE  Server!Answer(r)
BY DEF Answer, Server!Answer, Behind, Server!Behind

LEMMA OtherCalls ==
  /\ NoAnswer => Server!NoAnswer /\ UNCHANGED handler
  /\ CollectFails => Server!CollectFails
  /\ UNCHANGED handler <=> UNCHANGED Server!handler
BY DEF NoAnswer, Server!NoAnswer, CollectFails, Server!CollectFails, handler, Server!handler

LEMMA RequestParts ==
  ASSUME NEW r \in Requests
  PROVE  r[1] \in Connections /\ r[2] \in 1 .. MaxRequests /\ r = <<r[1], r[2]>>
BY DEF Requests

\* How far libmicrohttpd is with a request, for HttpServer.
IsStage(r, s) == st[r] = s

LEMMA Stages ==
  ASSUME NEW r \in Requests
  PROVE  /\ fate[r] # "none" => IsStage(r, fate[r])
         /\ fate[r] = "none" /\ Active(r) => IsStage(r, Stage[state[r[1]]])
         /\ fate[r] = "none" /\ ~ Active(r) => IsStage(r, "none")
         /\ fate'[r] # "none" => IsStage(r, fate[r])'
         /\ fate'[r] = "none" /\ Active(r)' => IsStage(r, Stage[state[r[1]]])'
         /\ fate'[r] = "none" /\ ~ Active(r)' => IsStage(r, "none")'
         /\ DOMAIN st = Requests /\ DOMAIN st' = Requests
BY DEF st, IsStage

LEMMA StageNames ==
  /\ Stage["INIT"] = "none" /\ Stage["HEADERS_PROCESSED"] = "headers" /\ Stage["CONTINUE_SENDING"] = "body"
  /\ Stage["BODY_RECEIVING"] = "body" /\ Stage["FOOTERS_RECEIVING"] = "body" /\ Stage["FULL_REQ_RECEIVED"] = "full"
  /\ Stage["SENDING"] = "none" /\ Stage["CLOSED"] = "none"
BY DEF Stage

\* The function st is what it is at each request.
LEMMA StageMap ==
  /\ st = [r \in Requests |-> st[r]] /\ st' = [r \in Requests |-> st'[r]]
BY DEF st

\* A step of a connection leaves a request as it is, or moves it within a stage.
Undisturbed(c, r) ==
  /\ fate'[r] = fate[r]
  /\ r[1] = c => (Active(r) <=> Active(r)') /\ (Active(r) => Stage[state'[c]] = Stage[state[c]])

LEMMA StageStays ==
  ASSUME NEW c \in Connections, OnlyAt(c), NEW r \in Requests, Undisturbed(c, r)
  PROVE  st'[r] = st[r]
<1>1. r[1] \in Connections
  BY RequestParts
<1>2. CASE r[1] = c
  BY <1>2, Stages DEF IsStage, Undisturbed
<1>3. CASE r[1] # c
  <2>1. state'[r[1]] = state[r[1]] /\ rq'[r[1]] = rq[r[1]]
    BY <1>1, <1>3 DEF OnlyAt
  <2>2. Active(r) <=> Active(r)'
    BY <2>1 DEF Active, Serving, Current, IsPost
  <2> QED
    BY <2>1, <2>2, Stages DEF IsStage, Undisturbed
<1> QED
  BY <1>2, <1>3

\* The request that is served, and no other of its connection, is active.
LEMMA WhoIsActive ==
  ASSUME CInv, NEW c \in Connections, Serving(c), IsPost(c)
  PROVE  /\ Current(c) \in Requests /\ Current(c)[1] = c /\ Active(Current(c)) /\ IsStage(Current(c), Stage[state[c]])
         /\ \A r \in Requests : r[1] = c /\ Active(r) => r = Current(c)
<1>1. IsHere(c) /\ fate[Current(c)] = "none"
  BY Served DEF Serving
<1>2. Current(c) \in Requests /\ Current(c)[1] = c
  BY <1>1 DEF IsHere
<1>3. Active(Current(c))
  BY <1>2 DEF Active
<1>4. IsStage(Current(c), Stage[state[c]])
  BY <1>1, <1>2, <1>3, Stages
<1> QED
  BY <1>2, <1>3, <1>4 DEF Active

\* To HttpServer a request is active when it is.
LEMMA SameActive ==
  ASSUME CInv, NEW r \in Requests
  PROVE  Server!Active(r) <=> Active(r)
<1>1. ASSUME Active(r)
      PROVE  Server!Active(r)
  <2>1. r[1] \in Connections /\ Serving(r[1]) /\ Current(r[1]) = r /\ IsPost(r[1])
    BY <1>1, RequestParts DEF Active
  <2>2. IsStage(r, Stage[state[r[1]]])
    BY <2>1, WhoIsActive
  <2>3. state[r[1]] \in DOMAIN Stage /\ state[r[1]] \notin {"INIT", "SENDING", "CLOSED"}
    BY <2>1 DEF CInv, ConnectionTypes, Serving
  <2> QED
    BY <2>2, <2>3, StageNames, StageStates DEF Server!Active, IsStage
<1>2. ASSUME ~ Active(r)
      PROVE  ~ Server!Active(r)
  <2>1. fate[r] \in {"none", "reply", "closed"}
    BY DEF CInv, ConnectionTypes
  <2> QED
    BY <1>2, <2>1, Stages DEF Server!Active, IsStage
<1> QED
  BY <1>1, <1>2

\* A step of one connection changes how far its request is, and nothing else.
LEMMA StageSet ==
  ASSUME NEW r \in Requests, NEW s, st'[r] = s, \A q \in Requests : q # r => st'[q] = st[q]
  PROVE  Server!Becomes(r, s)
BY StageMap DEF Server!Becomes

\* Nothing is called and no request moves.
Idle == UNCHANGED handler /\ given' = given /\ overlapped' = overlapped /\ \A r \in Requests : st'[r] = st[r]

LEMMA IdleStutters ==
  ASSUME Idle
  PROVE  UNCHANGED Server!vars
<1>1. st' = st
  BY StageMap DEF Idle
<1> QED
  BY <1>1, OtherCalls DEF Idle, Server!vars

Refines == [Server!Next]_(Server!vars)

LEMMA QuietlyIdle ==
  ASSUME state' = state, rq' = rq, fate' = fate, given' = given, overlapped' = overlapped, UNCHANGED handler
  PROVE  Refines
<1>1. \A r \in Requests : st'[r] = st[r]
  BY DEF st, Active, Serving, Current, IsPost
<1> QED
  BY <1>1, IdleStutters DEF Idle, Refines

\* A connection that serves no POST before a step, nor behind it.
LEMMA NoPostIdle ==
  ASSUME NEW c \in Connections, OnlyAt(c), fate' = fate, given' = given, overlapped' = overlapped, UNCHANGED handler,
         ~ (Serving(c) /\ IsPost(c)), ~ (Serving(c) /\ IsPost(c))'
  PROVE  Refines
<1>1. ASSUME NEW r \in Requests
      PROVE  st'[r] = st[r]
  <2>1. Undisturbed(c, r)
    BY DEF Active, Undisturbed
  <2> QED
    BY <2>1, StageStays
<1> QED
  BY <1>1, IdleStutters DEF Idle, Refines

\* The POST of a connection goes on.
Serves(c, s) == OnlyAt(c) /\ rq' = rq /\ state'[c] = s /\ Serving(c) /\ IsPost(c) /\ Serving(c)'

LEMMA OthersServed ==
  ASSUME CInv, NEW c \in Connections, NEW s, Serves(c, s), fate' = fate
  PROVE  /\ \A r \in Requests : r # Current(c) => st'[r] = st[r]
         /\ Current(c) \in Requests /\ st[Current(c)] = Stage[state[c]] /\ st'[Current(c)] = Stage[s]
         /\ fate[Current(c)] = "none"
<1>1. ASSUME NEW r \in Requests, r # Current(c)
      PROVE  st'[r] = st[r]
  <2>1. Undisturbed(c, r)
    BY <1>1 DEF Serves, Active, Current, Undisturbed
  <2> QED
    BY <2>1, StageStays DEF Serves
<1>2. Current(c) \in Requests /\ Current(c)[1] = c /\ IsStage(Current(c), Stage[state[c]])
  BY WhoIsActive DEF Serves
<1>3. fate[Current(c)] = "none"
  BY Served DEF Serves, Serving
<1>4. Current(c)' = Current(c) /\ Serving(c)'
  BY DEF Serves, Current
<1>5. Active(Current(c))'
  <2>1. ASSUME NEW r \in Requests, r = Current(c)
        PROVE  Active(r)'
    <3>1. r[1] = c
      BY <1>2, <2>1
    <3> QED
      BY <2>1, <3>1 DEF Active, Serves, Current, IsPost
  <2> QED
    BY <1>2, <1>4, <2>1
<1>6. IsStage(Current(c), Stage[s])'
  BY <1>2, <1>3, <1>4, <1>5, Stages DEF Serves
<1> QED
  BY <1>1, <1>2, <1>3, <1>4, <1>6 DEF IsStage

LEMMA SameStageIdle ==
  ASSUME CInv, NEW c \in Connections, NEW s, Serves(c, s), Stage[s] = Stage[state[c]],
         fate' = fate, given' = given, overlapped' = overlapped, UNCHANGED handler
  PROVE  Refines
BY OthersServed, IdleStutters DEF Idle, Refines

LEMMA HeadRefines ==
  ASSUME CInv, overlapped \in BOOLEAN, NEW c \in Connections, GetHead(c)
  PROVE  Refines
<1>1. /\ OnlyAt(c) /\ Current(c)' \in Requests /\ fate[Current(c)'] = "none" /\ ConnectionTypes
      /\ state[c] = "INIT" /\ state'[c] = "HEADERS_PROCESSED"
  BY HeadParsed DEF GetHead, Becomes, Set, CInv, ConnectionTypes
<1>2. ~ Serving(c) /\ Serving(c)'
  BY <1>1 DEF Serving
<1>3. UNCHANGED handler /\ given' = given /\ fate' = fate
  BY DEF GetHead
<1>4. rq'[c] = [of |-> Next1(c).of, q |-> Next1(c).q]
  BY <1>1 DEF GetHead, Set, ConnectionTypes
<1>5. IsPost(c)' <=> Next1(c).q.method = "POST"
  BY <1>4 DEF IsPost
<1>6. overlapped' = (overlapped \/ (IsPost(c)' /\ \E r \in Requests : Active(r)))
  BY <1>5 DEF GetHead
<1>7. CASE ~ IsPost(c)'
  <2>1. overlapped' = overlapped
    <3>1. overlapped' = (overlapped \/ FALSE)
      BY <1>6, <1>7
    <3> QED
      BY <3>1
  <2> QED
    BY <1>1, <1>2, <1>3, <1>7, <2>1, NoPostIdle
<1>8. CASE IsPost(c)'
  <2>1. PICK r \in Requests : r = Current(c)'
    BY <1>1
  <2>2. r[1] = c
    <3>1. HasHead(c)'
      BY <1>1, HeadParsed DEF Parsed
    <3> QED
      BY <2>1, <3>1 DEF HasHead, Current
  <2>3. Active(r)'
    BY <1>2, <1>8, <2>1, <2>2 DEF Active
  <2>4. ~ Active(r)
    BY <1>2, <2>2 DEF Active
  <2>5. st[r] = "none" /\ st'[r] = "headers"
    BY <1>1, <1>3, <2>1, <2>2, <2>3, <2>4, Stages, StageNames DEF IsStage
  <2>6. ASSUME NEW q \in Requests, q # r
        PROVE  st'[q] = st[q]
    <3>1. Undisturbed(c, q)
      BY <1>2, <1>3, <2>1, <2>6 DEF Active, Undisturbed
    <3> QED
      BY <1>1, <3>1, StageStays
  <2>7. Server!Becomes(r, "headers")
    BY <2>5, <2>6, StageSet
  <2>8. (\E q \in Requests : Active(q)) <=> \E q \in Requests \ {r} : Server!Active(q)
    BY <2>4, SameActive
  <2>9. overlapped' = (overlapped \/ \E q \in Requests \ {r} : Server!Active(q))
    BY <1>6, <1>8, <2>8
  <2>10. Server!Request(r)
    BY <1>3, <2>5, <2>7, <2>9, OtherCalls DEF Server!Request
  <2> QED
    BY <2>10 DEF Refines, Server!Next, Server!Client
<1> QED
  BY <1>7, <1>8

\* The request of a connection ends, and the connection serves it no more.
Ends(c, v) == OnlyAt(c) /\ Same(c) /\ given' = given /\ Serving(c) /\ IsPost(c) /\ ~ Serving(c)' /\ fate' = Set(fate, Current(c), v)

LEMMA EndsBecome ==
  ASSUME CInv, NEW c \in Connections, NEW v \in {"reply", "closed"}, Ends(c, v)
  PROVE  Current(c) \in Requests /\ st[Current(c)] = Stage[state[c]] /\ Server!Becomes(Current(c), v) /\ Server!Active(Current(c))
<1>1. IsHere(c) /\ ConnectionTypes
  BY Served DEF Ends, Serving
<1>2. Current(c) \in Requests /\ Current(c)[1] = c /\ IsStage(Current(c), Stage[state[c]]) /\ Active(Current(c))
  BY WhoIsActive DEF Ends
<1>3. fate'[Current(c)] = v /\ \A r \in Requests : r # Current(c) => fate'[r] = fate[r]
  BY <1>1, FateSet DEF Ends
<1>4. st'[Current(c)] = v
  BY <1>2, <1>3 DEF st
<1>5. ASSUME NEW q \in Requests, q # Current(c)
      PROVE  st'[q] = st[q]
  <2>1. Undisturbed(c, q)
    BY <1>3, <1>5 DEF Active, Undisturbed, Ends
  <2> QED
    BY <2>1, StageStays DEF Ends
<1> DEFINE r == Current(c)
<1>6. r \in Requests /\ st'[r] = v /\ \A q \in Requests : q # r => st'[q] = st[q]
  BY <1>2, <1>4, <1>5
<1> HIDE DEF r
<1>7. Server!Becomes(r, v)
  BY <1>6, StageSet
<1> QED
  BY <1>2, <1>7, SameActive DEF r, IsStage

LEMMA FirstRefines ==
  ASSUME CInv, NEW c \in Connections, FirstCall(c)
  PROVE  Refines
<1>1. state[c] = "HEADERS_PROCESSED" /\ Same(c) /\ given' = given /\ overlapped' = overlapped /\ OnlyAt(c) /\ ConnectionTypes
  BY FirstParsed DEF FirstCall, Same, buffer, CInv
<1>2. Serving(c)
  BY <1>1 DEF Serving
<1>3. CASE Answered(c) /\ Becomes(c, "SENDING")
  <2>1. state'[c] = "SENDING"
    BY <1>1, <1>3 DEF Becomes, Set, ConnectionTypes
  <2>2. ~ Serving(c)'
    BY <2>1 DEF Serving
  <2>3. CASE ~ IsPost(c)
    <3>1. UNCHANGED handler /\ fate' = fate
      BY <1>3, <2>3 DEF Answered
    <3> QED
      BY <1>1, <2>2, <2>3, <3>1, NoPostIdle
  <2>4. CASE IsPost(c) /\ Answer(Current(c)) /\ fate' = Set(fate, Current(c), "reply")
    <3>1. Ends(c, "reply")
      BY <1>1, <1>2, <2>2, <2>4 DEF Ends
    <3>2. Current(c) \in Requests /\ st[Current(c)] = "headers" /\ Server!Becomes(Current(c), "reply")
      BY <1>1, <3>1, EndsBecome, StageNames
    <3>3. Server!Answer(Current(c))
      BY <2>4, Answering
    <3>4. Server!FirstCall(Current(c))
      BY <1>1, <3>2, <3>3 DEF Server!FirstCall
    <3> QED
      BY <3>2, <3>4 DEF Refines, Server!Next, Server!Server
  <2> QED
    BY <1>3, <2>3, <2>4 DEF Answered
<1>4. ASSUME NotAnswered(c), NEW s \in {"CONTINUE_SENDING", "FULL_REQ_RECEIVED", "BODY_RECEIVING"}, Becomes(c, s)
      PROVE  Refines
  <2>1. state'[c] = s /\ IsPost(c) /\ fate' = fate /\ NoAnswer
    BY <1>1, <1>4 DEF Becomes, Set, ConnectionTypes, NotAnswered
  <2>2. Serves(c, s)
    BY <1>1, <1>2, <2>1 DEF Serves, Serving, Same
  <2>3. /\ \A r \in Requests : r # Current(c) => st'[r] = st[r]
        /\ Current(c) \in Requests /\ st[Current(c)] = "headers" /\ st'[Current(c)] = Stage[s]
    BY <1>1, <2>1, <2>2, OthersServed, StageNames
  <2> DEFINE r == Current(c)
  <2>4. Server!Becomes(r, Stage[s])
    <3>1. r \in Requests /\ st'[r] = Stage[s] /\ \A q \in Requests : q # r => st'[q] = st[q]
      BY <2>3
    <3> HIDE DEF r
    <3> QED
      BY <3>1, StageSet
  <2>5. Stage[s] = "body" \/ Stage[s] = "full"
    BY <1>4, StageNames
  <2>6. Server!FirstCall(r)
    BY <1>1, <2>1, <2>3, <2>4, <2>5, OtherCalls DEF Server!FirstCall
  <2> QED
    BY <2>3, <2>6 DEF Refines, Server!Next, Server!Server
<1>5. CASE /\ NotAnswered(c)
           /\ IF NeedsContinue(c)
              THEN Becomes(c, "CONTINUE_SENDING")
              ELSE Becomes(c, IF remaining[c] = 0 THEN "FULL_REQ_RECEIVED" ELSE "BODY_RECEIVING")
  BY <1>4, <1>5
<1> QED
  BY <1>3, <1>5 DEF FirstCall

LEMMA UploadRefines ==
  ASSUME CInv, NEW c \in Connections, Upload(c)
  PROVE  Refines
<1>1. state[c] = "BODY_RECEIVING" /\ InBody(c) /\ (Chunked(c) => chunk[c].size # 0 /\ ~ AtChunkEnd(c))
  BY DEF Upload, InBody
<1>2. IsHere(c) /\ ConnectionTypes /\ Parsed(c) /\ IsPost(c) /\ Serving(c) /\ Number(c) \in Nat
  BY <1>1, Served DEF Parsed, IsHere
<1>3. CASE Collected(c, Portion(c))
  <2> DEFINE m == Portion(c)
             r == Current(c)
             g == given[r]
  <2>1. OnlyAt(c) /\ r \in Requests
    BY <1>1, <1>3, DataParsed
  <2>2. IsPortion(c, m)
    BY <1>1, PortionHere
  <2>3. Serves(c, "BODY_RECEIVING") /\ fate' = fate /\ overlapped' = overlapped
    BY <1>1, <1>2, <1>3, <2>1 DEF Serves, Serving, Collected
  <2>4. st[r] = "body" /\ \A q \in Requests : st'[q] = st[q]
    BY <1>1, <2>3, OthersServed, StageNames
  <2>5. st' = st
    BY <2>4, StageMap
  <2>6. m \in Nat \ {0} /\ g \in Nat /\ g + m <= MaxBody
    <3>1. m \in Nat \ {0} /\ g \in Nat /\ g + m <= Size(rq[c].q)
      BY <2>2 DEF IsPortion
    <3>2. Size(rq[c].q) <= MaxBody /\ Size(rq[c].q) \in Nat
      BY <1>2, ChunksHere, CountedHere DEF IsHere, IsChunked, IsCounted
    <3>3. MaxBody \in Nat
      BY PlansAssumption
    <3> HIDE DEF m, g
    <3> QED
      BY <3>1, <3>2, <3>3
  <2>7. m \in 1 .. MaxBody - g
    <3>1. MaxBody \in Nat
      BY PlansAssumption
    <3> HIDE DEF m, g
    <3> QED
      BY <2>6, <3>1
  <2>8. Bytes(c, m) = [i \in 1 .. m |-> Server!Unit(r, g + i)]
    <3>1. ASSUME NEW i \in 1 .. m
          PROVE  Byte(Stream[c][plan[c]][used[c] + i]) = Server!Unit(r, g + i)
      <4>1. Stream[c][plan[c]][used[c] + i] = Token("data", c, Number(c), g + i)
        BY <2>2 DEF IsPortion
      <4>2. Byte(Token("data", c, Number(c), g + i)) = [of |-> <<c, Number(c)>>, n |-> g + i]
        BY DEF Byte, Token, Unit
      <4>3. r = <<c, Number(c)>>
        BY <1>2 DEF IsHere
      <4> QED
        BY <4>1, <4>2, <4>3 DEF Server!Unit
    <3> HIDE DEF m, r, g
    <3> QED
      BY <3>1 DEF Bytes
  <2>9. Collect(Bytes(c, m)) /\ given' = [given EXCEPT ![r] = @ + m]
    BY <1>3 DEF Collected, Set
  <2>10. Server!Collect(Bytes(c, m))
    BY <2>9, Collecting
  <2>11. Server!Collect([i \in 1 .. m |-> Server!Unit(r, given[r] + i)])
    BY <2>8, <2>10
  <2> HIDE DEF m, g
  <2>12. Server!Upload(r)
    BY <2>3, <2>4, <2>5, <2>7, <2>9, <2>11 DEF Server!Upload, g
  <2> QED
    BY <2>1, <2>12 DEF Refines, Server!Next, Server!Server
<1>4. CASE CollectFails /\ Close(c)
  <2>1. OnlyAt(c)
    BY <1>1, <1>4, ClosedParsed
  <2>2. ~ Serving(c)'
    BY <1>2, <1>4 DEF Close, Becomes, Set, ConnectionTypes, Serving
  <2>3. Ends(c, "closed") /\ overlapped' = TRUE /\ given' = given
    BY <1>2, <1>4, <2>1, <2>2 DEF Ends, Close, buffer, request, Same
  <2>4. Current(c) \in Requests /\ st[Current(c)] = "body" /\ Server!Becomes(Current(c), "closed")
    BY <1>1, <2>3, EndsBecome, StageNames
  <2>5. Server!UploadFails(Current(c))
    BY <1>4, <2>3, <2>4, OtherCalls DEF Server!UploadFails
  <2> QED
    BY <2>4, <2>5 DEF Refines, Server!Next, Server!Server
<1> QED
  BY <1>3, <1>4 DEF Upload

\* The body of a POST has ended.
LEMMA Completes ==
  ASSUME CInv, NEW c \in Connections, Serves(c, "FULL_REQ_RECEIVED"), state[c] \in {"BODY_RECEIVING", "FOOTERS_RECEIVING"},
         fate' = fate, given' = given, overlapped' = overlapped, UNCHANGED handler
  PROVE  Refines
<1> DEFINE r == Current(c)
<1>1. r \in Requests /\ st[r] = "body" /\ st'[r] = "full" /\ \A q \in Requests : q # r => st'[q] = st[q]
  BY OthersServed, StageNames
<1> HIDE DEF r
<1>2. Server!Becomes(r, "full")
  BY <1>1, StageSet
<1>3. Server!Complete(r)
  BY <1>1, <1>2, OtherCalls DEF Server!Complete
<1> QED
  BY <1>1, <1>3 DEF Refines, Server!Next, Server!Server

LEMMA DoneRefines ==
  ASSUME CInv, NEW c \in Connections, BodyDone(c) \/ ContinueSent(c) \/ Footers(c)
  PROVE  Refines
<1>1. OnlyAt(c) /\ fate' = fate /\ given' = given /\ overlapped' = overlapped /\ UNCHANGED handler /\ rq' = rq
  BY DoneParsed, ContinueParsed, FootersParsed DEF BodyDone, ContinueSent, Footers, history, request
<1>2. state[c] \in {"BODY_RECEIVING", "CONTINUE_SENDING", "FOOTERS_RECEIVING"}
  BY DEF BodyDone, ContinueSent, Footers
<1>3. ConnectionTypes /\ IsPost(c) /\ Serving(c)
  BY <1>2, Served DEF Parsed
<1>4. CASE BodyDone(c)
  <2>1. CASE Chunked(c)
    <3>1. state[c] = "BODY_RECEIVING" /\ state'[c] = "FOOTERS_RECEIVING"
      BY <1>3, <1>4, <2>1 DEF BodyDone, Becomes, Set, ConnectionTypes
    <3>2. Serves(c, "FOOTERS_RECEIVING")
      BY <1>1, <1>3, <3>1 DEF Serves, Serving
    <3> QED
      BY <1>1, <3>1, <3>2, SameStageIdle, StageNames
  <2>2. CASE ~ Chunked(c)
    <3>1. state[c] = "BODY_RECEIVING" /\ state'[c] = "FULL_REQ_RECEIVED"
      BY <1>3, <1>4, <2>2 DEF BodyDone, Becomes, Set, ConnectionTypes
    <3>2. Serves(c, "FULL_REQ_RECEIVED")
      BY <1>1, <1>3, <3>1 DEF Serves, Serving
    <3> QED
      BY <1>1, <3>1, <3>2, Completes
  <2> QED
    BY <2>1, <2>2
<1>5. CASE ContinueSent(c)
  <2>1. state[c] = "CONTINUE_SENDING" /\ state'[c] = "BODY_RECEIVING"
    BY <1>3, <1>5 DEF ContinueSent, Becomes, Set, ConnectionTypes
  <2>2. Serves(c, "BODY_RECEIVING")
    BY <1>1, <1>3, <2>1 DEF Serves, Serving
  <2> QED
    BY <1>1, <2>1, <2>2, SameStageIdle, StageNames
<1>6. CASE Footers(c)
  <2>1. state[c] = "FOOTERS_RECEIVING" /\ state'[c] = "FULL_REQ_RECEIVED"
    BY <1>3, <1>6 DEF Footers, Becomes, Set, ConnectionTypes
  <2>2. Serves(c, "FULL_REQ_RECEIVED")
    BY <1>1, <1>3, <2>1 DEF Serves, Serving
  <2> QED
    BY <1>1, <2>1, <2>2, Completes
<1> QED
  BY <1>4, <1>5, <1>6

LEMMA FinalRefines ==
  ASSUME CInv, NEW c \in Connections, FinalCall(c)
  PROVE  Refines
<1>1. /\ state[c] = "FULL_REQ_RECEIVED" /\ Same(c) /\ used' = used /\ given' = given /\ chunk' = chunk /\ overlapped' = overlapped
      /\ discard' = discard /\ remaining' = remaining
  BY DEF FinalCall, Same, buffer, request
<1>2. IsPost(c) /\ Serving(c) /\ ConnectionTypes
  BY <1>1, Served DEF Parsed
<1>3. CASE Answered(c) /\ Becomes(c, "SENDING")
  <2>1. OnlyAt(c)
    BY <1>1, <1>3, AnswerParsed DEF Becomes
  <2>2. ~ Serving(c)'
    BY <1>2, <1>3 DEF Becomes, Set, ConnectionTypes, Serving
  <2>3. Answer(Current(c)) /\ Ends(c, "reply")
    BY <1>1, <1>2, <1>3, <2>1, <2>2 DEF Answered, Ends
  <2>4. Current(c) \in Requests /\ st[Current(c)] = "full" /\ Server!Becomes(Current(c), "reply") /\ Server!Answer(Current(c))
    BY <1>1, <2>3, EndsBecome, StageNames, Answering
  <2>5. Server!FinalCall(Current(c))
    BY <1>1, <2>4 DEF Server!FinalCall
  <2> QED
    BY <2>4, <2>5 DEF Refines, Server!Next, Server!Server
<1>4. CASE NotAnswered(c) /\ UNCHANGED state
  BY <1>1, <1>4, QuietlyIdle DEF NotAnswered, NoAnswer, Same
<1> QED
  BY <1>3, <1>4 DEF FinalCall

LEMMA SentRefines ==
  ASSUME CInv, NEW c \in Connections, Sent(c) \/ Lost(c)
  PROVE  Refines
<1>1. UNCHANGED handler /\ state[c] # "CLOSED" /\ ConnectionTypes /\ (Close(c) \/ (state[c] = "SENDING" /\ ~ discard[c] /\ Reused(c)))
  BY DEF Sent, Lost, CInv
<1>2. CASE Close(c)
  <2>1. OnlyAt(c) /\ given' = given /\ Same(c)
    BY <1>1, <1>2, ClosedParsed DEF Close, buffer, request, Same
  <2>2. ~ Serving(c)'
    BY <1>1, <1>2 DEF Close, Becomes, Set, ConnectionTypes, Serving
  <2>3. CASE ~ (Serving(c) /\ IsPost(c))
    BY <1>1, <1>2, <2>1, <2>2, <2>3, NoPostIdle DEF Close
  <2>4. CASE Serving(c) /\ IsPost(c)
    <3>1. Ends(c, "closed") /\ overlapped' = TRUE
      BY <1>2, <2>1, <2>2, <2>4 DEF Ends, Close
    <3>2. Current(c) \in Requests /\ Server!Active(Current(c)) /\ Server!Becomes(Current(c), "closed")
      BY <3>1, EndsBecome
    <3>3. Server!Disconnect(Current(c))
      BY <1>1, <2>1, <3>1, <3>2, OtherCalls DEF Server!Disconnect
    <3> QED
      BY <3>2, <3>3 DEF Refines, Server!Next, Server!Client
  <2> QED
    BY <2>3, <2>4
<1>3. CASE state[c] = "SENDING" /\ ~ discard[c] /\ Reused(c)
  <2>1. OnlyAt(c) /\ fate' = fate /\ given' = given /\ overlapped' = overlapped
    BY <1>3, ReusedParsed DEF Reused, history
  <2>2. ~ Serving(c) /\ ~ Serving(c)'
    BY <1>1, <1>3 DEF Serving, Reused, Becomes, Set, ConnectionTypes
  <2> QED
    BY <1>1, <2>1, <2>2, NoPostIdle
<1> QED
  BY <1>1, <1>2, <1>3

\* Every step of a connection is a step of HttpServer, or none.
LEMMA StepRefines ==
  ASSUME CInv, overlapped \in BOOLEAN, [Next]_vars
  PROVE  Refines
<1>1. CASE UNCHANGED vars
  BY <1>1, QuietlyIdle DEF vars, request, history
<1>2. ASSUME NEW c \in Connections, Read(c) \/ Waits(c) \/ SkipLineEnd(c) \/ ChunkSize(c)
      PROVE  Refines
  BY <1>2, QuietlyIdle DEF Read, Waits, SkipLineEnd, ChunkSize, request, history
<1>3. ASSUME NEW c \in Connections, Read(c) \/ Runs(c) \/ ContinueSent(c) \/ Sent(c) \/ Lost(c)
      PROVE  Refines
  BY <1>2, <1>3, HeadRefines, FirstRefines, UploadRefines, DoneRefines, FinalRefines, SentRefines DEF Runs
<1> QED
  BY <1>1, <1>3 DEF Next

LEMMA InitRefines ==
  ASSUME Init
  PROVE  Server!Init /\ overlapped \in BOOLEAN
<1>1. st = [r \in Requests |-> "none"]
  <2>1. \A r \in Requests : fate[r] = "none" /\ ~ Active(r)
    BY RequestParts DEF Init, Active, Serving
  <2> QED
    BY <2>1 DEF st
<1> QED
  BY <1>1 DEF Init, Server!Init

LEMMA OverlapType ==
  ASSUME overlapped \in BOOLEAN, [Next]_vars
  PROVE  overlapped' \in BOOLEAN
<1>1. overlapped' = overlapped \/ overlapped' = TRUE \/ \E b : overlapped' = (overlapped \/ b)
  BY ZenonT(60) DEF Next, vars, history, Read, Runs, GetHead, FirstCall, SkipLineEnd, ChunkSize, Upload, Collected, Close, BodyDone,
         Footers, FinalCall, Waits, ContinueSent, Sent, Reused, Lost
<1> QED
  BY <1>1

\* libmicrohttpd calls the handler as HttpServer says, whatever the clients
\* send, however it is split into reads, and whenever a connection is lost:
\* HttpConnection implements HttpServer (process_request_body(),
\* call_connection_handler(), MHD_connection_handle_idle()).
THEOREM HandlerIsCalledRight == Spec => CallsAreLegal
<1> DEFINE I == CInv /\ overlapped \in BOOLEAN
<1>1. Init => I /\ Server!Init
  BY TypesInit, InitRefines
<1>2. I /\ [Next]_vars => I' /\ [Server!Next]_(Server!vars)
  BY ConnectionStep, OverlapType, StepRefines DEF Refines
<1> QED
  <2> HIDE DEF I
  <2> QED
    BY <1>1, <1>2, PTL DEF Spec, CallsAreLegal, Server!Spec

----------------------------------------------------------------------------
(* The handler, under any calls that HttpServer allows: its inductive       *)
(* invariants.                                                               *)

\* No unit that the handler was not given is in the buffer or was parsed.
NoneAhead(s) == \A i \in DOMAIN s : s[i].of \in Requests => s[i].n <= given[s[i].of]
GivenOnly == NoneAhead(post_data) /\ \A r \in Requests : NoneAhead(taken[r])

IInv == Server!TypeOK /\ GivenOnly /\ Server!UnitsKept

\* What the handler was given of a body.
Own(r) == [i \in 1 .. given[r] |-> Server!Unit(r, i)]

\* While no two requests met and none was broken off: the buffer holds what
\* was given of the one that is served, and nothing between two.
OneAtATime ==
  ~ overlapped =>
    /\ post_data_size = Len(post_data)
    /\ \A r \in Requests : st[r] \in {"none", "headers"} => given[r] = 0
    /\ \A r \in Requests : Server!Active(r) => post_data = Own(r) /\ \A q \in Requests \ {r} : ~ Server!Active(q)
    /\ (\A r \in Requests : ~ Server!Active(r)) => post_data = <<>>

\* A request that was answered was answered for what was given of its body;
\* behind it there may be what lies behind the buffer.
AnsweredForOwn ==
  ~ overlapped => \A r \in Requests : st[r] = "reply" => taken[r] \in {Own(r), Own(r) \o <<Server!Behind>>}

\* A request is not taken for what lies behind the buffer, or for a hole in it.
Named == <<>> \notin Requests /\ MaxBody \in Nat

LEMMA NamesHold == Named
<1>1. <<>> \notin Requests
  BY DEF Requests
<1> QED
  BY <1>1, PlansAssumption DEF Named

----------------------------------------------------------------------------
(* The buffer.                                                              *)

LEMMA UnitTypes ==
  ASSUME Named, NEW r \in Requests
  PROVE  /\ \A n \in 1 .. MaxBody : Server!Unit(r, n) \in Server!Units
         /\ \A n : Server!Unit(r, n).of = r /\ Server!Unit(r, n).n = n /\ Server!Unit(r, n) \notin {Server!Hole, Server!Behind}
         /\ Server!Hole \in Server!Units /\ Server!Hole.of \notin Requests
         /\ Server!Behind \in Server!Units /\ Server!Behind.of \notin Requests
BY DEF Named, Server!Units, Server!Unit, Server!Hole, Server!Behind

LEMMA FunctionIsSeq ==
  ASSUME NEW S, NEW n \in Nat, NEW f \in [1 .. n -> S]
  PROVE  f \in Seq(S) /\ Len(f) = n
OBVIOUS

\* The buffer is grown with holes only.
LEMMA GrownType ==
  ASSUME Server!TypeOK
  PROVE  /\ Server!Grown \in Seq(Server!Units)
         /\ post_data # <<>> => Server!Grown = post_data
         /\ post_data = <<>> => Len(Server!Grown) = post_data_size /\ \A i \in DOMAIN Server!Grown : Server!Grown[i] = Server!Hole
<1>1. CASE post_data # <<>>
  BY <1>1 DEF Server!TypeOK, Server!Grown
<1>2. CASE post_data = <<>>
  <2> DEFINE g == [k \in 1 .. post_data_size |-> Server!Hole]
  <2>1. Server!Hole \in Server!Units
    BY DEF Server!Units
  <2>2. g \in [1 .. post_data_size -> Server!Units]
    BY <2>1
  <2>3. g \in Seq(Server!Units) /\ Len(g) = post_data_size
    BY <2>2, FunctionIsSeq DEF Server!TypeOK
  <2> HIDE DEF g
  <2>4. Server!Grown = g
    BY <1>2 DEF Server!Grown, g
  <2>5. \A i \in DOMAIN g : g[i] = Server!Hole
    BY DEF g
  <2> QED
    BY <1>2, <2>3, <2>4, <2>5
<1> QED
  BY <1>1, <1>2

\* What a call with data copies.
Data(r, m) == [i \in 1 .. m |-> Server!Unit(r, given[r] + i)]

LEMMA DataType ==
  ASSUME Named, Server!TypeOK, NEW r \in Requests, NEW m \in 1 .. MaxBody - given[r]
  PROVE  /\ Data(r, m) \in Seq(Server!Units) /\ Len(Data(r, m)) = m
         /\ \A i \in 1 .. m : Data(r, m)[i] = Server!Unit(r, given[r] + i)
         /\ given[r] \in Nat /\ m \in Nat /\ given[r] + m \in 0 .. MaxBody
<1>1. given[r] \in 0 .. MaxBody /\ m \in Nat /\ given[r] + m \in 0 .. MaxBody
  BY DEF Server!TypeOK, Named
<1>2. \A i \in 1 .. m : given[r] + i \in 1 .. MaxBody
  BY <1>1 DEF Named
<1>3. \A i \in 1 .. m : Server!Unit(r, given[r] + i) \in Server!Units
  BY <1>2, UnitTypes
<1>4. Data(r, m) \in [1 .. m -> Server!Units]
  BY <1>3 DEF Data
<1> QED
  BY <1>1, <1>4 DEF Data

\* The elements of the buffer after a call with data: those it had, and the
\* next ones of the body, behind them.
LEMMA Collects ==
  ASSUME Named, Server!TypeOK, NEW r \in Requests, NEW m \in 1 .. MaxBody - given[r], Server!Collect(Data(r, m))
  PROVE  /\ post_data' \in Seq(Server!Units) /\ Len(post_data') = Len(Server!Grown) + m
         /\ Len(Server!Grown) \in Nat
         /\ \A i \in DOMAIN post_data' :
              IF i <= Len(Server!Grown) THEN post_data'[i] = Server!Hole \/ (i \in DOMAIN post_data /\ post_data'[i] = post_data[i])
              ELSE i - Len(Server!Grown) \in 1 .. m /\ post_data'[i] = Server!Unit(r, given[r] + (i - Len(Server!Grown)))
         /\ post_data_size' = post_data_size + m
         /\ taken' = taken /\ fails' = fails
<1>1. post_data' = Server!Grown \o Data(r, m) /\ taken' = taken /\ fails' = fails /\ post_data_size' = post_data_size + Len(Data(r, m))
  BY DEF Server!Collect
<1>2. /\ Server!Grown \o Data(r, m) \in Seq(Server!Units)
      /\ Len(Server!Grown \o Data(r, m)) = Len(Server!Grown) + m
      /\ \A i \in 1 .. Len(Server!Grown) + m :
           (Server!Grown \o Data(r, m))[i] = IF i <= Len(Server!Grown) THEN Server!Grown[i] ELSE Data(r, m)[i - Len(Server!Grown)]
  <2> DEFINE g == Server!Grown
             d == Data(r, m)
  <2>1. g \in Seq(Server!Units) /\ d \in Seq(Server!Units) /\ Len(d) = m
    BY GrownType, DataType
  <2> HIDE DEF g, d
  <2>2. /\ g \o d \in Seq(Server!Units)
        /\ Len(g \o d) = Len(g) + m
        /\ \A i \in 1 .. Len(g) + m : (g \o d)[i] = IF i <= Len(g) THEN g[i] ELSE d[i - Len(g)]
    BY <2>1, ConcatProperties
  <2> QED
    BY <2>2 DEF g, d
<1>3. Len(Server!Grown) \in Nat /\ DOMAIN Server!Grown = 1 .. Len(Server!Grown) /\ DOMAIN post_data' = 1 .. Len(Server!Grown) + m
  BY <1>1, <1>2, GrownType
<1>4. \A i \in DOMAIN Server!Grown : Server!Grown[i] = Server!Hole \/ (i \in DOMAIN post_data /\ Server!Grown[i] = post_data[i])
  BY GrownType
<1>5. \A i \in DOMAIN post_data' : i > Len(Server!Grown) => i - Len(Server!Grown) \in 1 .. m
  BY <1>3, DataType
<1>6. \A i \in DOMAIN post_data' : i <= Len(Server!Grown) => i \in DOMAIN Server!Grown
  BY <1>3, DataType
<1> QED
  BY <1>1, <1>2, <1>3, <1>4, <1>5, <1>6, DataType, SMTT(30)

\* Parsing runs over the buffer, and perhaps beyond.
LEMMA Parses ==
  ASSUME Named, Server!TypeOK, NEW r \in Requests, Server!Answer(r)
  PROVE  \E s \in Seq(Server!Units) :
           /\ taken' = [taken EXCEPT ![r] = s]
           /\ Len(s) \in Nat /\ DOMAIN s = 1 .. Len(s)
           /\ s = post_data \/ s = post_data \o <<Server!Behind>>
           /\ \A i \in DOMAIN s : (i \in DOMAIN post_data /\ s[i] = post_data[i]) \/ s[i] = Server!Behind
           /\ post_data' = <<>> /\ post_data_size' = 0 /\ fails' = fails
<1>1. PICK rest \in {<<>>, <<Server!Behind>>} : taken' = [taken EXCEPT ![r] = post_data \o rest]
  BY DEF Server!Answer
<1>2. post_data \in Seq(Server!Units) /\ post_data \o <<>> = post_data
  BY ConcatEmptySeq DEF Server!TypeOK
<1>3. CASE rest = <<>>
  <2>1. taken' = [taken EXCEPT ![r] = post_data]
    BY <1>1, <1>2, <1>3
  <2>2. Len(post_data) \in Nat /\ DOMAIN post_data = 1 .. Len(post_data)
    BY <1>2
  <2>3. post_data' = <<>> /\ post_data_size' = 0 /\ fails' = fails
    BY DEF Server!Answer
  <2> QED
    BY <1>2, <2>1, <2>2, <2>3
<1>4. CASE rest = <<Server!Behind>>
  <2>1. <<Server!Behind>> \in Seq(Server!Units) /\ Len(<<Server!Behind>>) = 1 /\ <<Server!Behind>>[1] = Server!Behind
    BY UnitTypes
  <2> DEFINE s == post_data \o <<Server!Behind>>
  <2>2. /\ s \in Seq(Server!Units) /\ Len(s) = Len(post_data) + 1
        /\ \A i \in 1 .. Len(post_data) + 1 : s[i] = IF i <= Len(post_data) THEN post_data[i] ELSE <<Server!Behind>>[i - Len(post_data)]
    BY <1>2, <2>1, ConcatProperties
  <2>3. Len(post_data) \in Nat /\ DOMAIN post_data = 1 .. Len(post_data) /\ DOMAIN s = 1 .. Len(post_data) + 1
    BY <1>2, <2>2
  <2> HIDE DEF s
  <2>4. \A i \in DOMAIN s : (i \in DOMAIN post_data /\ s[i] = post_data[i]) \/ s[i] = Server!Behind
    <3> TAKE i \in DOMAIN s
    <3>1. CASE i <= Len(post_data)
      BY <2>2, <2>3, <3>1
    <3>2. CASE i = Len(post_data) + 1
      BY <2>1, <2>2, <2>3, <3>2
    <3> QED
      BY <2>3, <3>1, <3>2
  <2>5. taken' = [taken EXCEPT ![r] = s]
    BY <1>1, <1>4 DEF s
  <2>6. s = post_data \o <<Server!Behind>>
    BY DEF s
  <2>7. post_data' = <<>> /\ post_data_size' = 0 /\ fails' = fails
    BY DEF Server!Answer
  <2>8. s \in Seq(Server!Units) /\ Len(s) \in Nat /\ DOMAIN s = 1 .. Len(s)
    BY <2>2, <2>3
  <2> QED
    BY <2>4, <2>5, <2>6, <2>7, <2>8
<1> QED
  BY <1>1, <1>3, <1>4

----------------------------------------------------------------------------
(* Each kind of call keeps the invariant.                                    *)

LEMMA UnitNumbers ==
  ASSUME Named, NEW x \in Server!Units
  PROVE  /\ x.n \in Nat
         /\ x.of \in Requests => x \notin {Server!Hole, Server!Behind}
BY DEF Named, Server!Units, Server!Unit, Server!Hole, Server!Behind

LEMMA TypeInit ==
  ASSUME Named, Server!Init
  PROVE  Server!TypeOK
<1>1. <<>> \in Seq(Server!Units) /\ 0 \in Nat /\ 0 \in 0 .. MaxFails /\ 0 \in 0 .. MaxBody
  BY MaxFailsAssumption, EmptySeq DEF Named
<1>2. taken \in [Requests -> Seq(Server!Units)] /\ given \in [Requests -> 0 .. MaxBody]
  BY <1>1 DEF Server!Init
<1>3. st \in [Requests -> {"none", "headers", "body", "full", "reply", "closed"}] /\ overlapped \in BOOLEAN
  BY DEF Server!Init
<1> QED
  BY <1>1, <1>2, <1>3 DEF Server!Init, Server!TypeOK

LEMMA CollectKeeps ==
  ASSUME Named, IInv, NEW r \in Requests, NEW m \in 1 .. MaxBody - given[r], Server!Collect(Data(r, m)),
         given' = [given EXCEPT ![r] = @ + m]
  PROVE  GivenOnly' /\ Server!UnitsKept'
<1> DEFINE old == Len(Server!Grown)
<1>1. /\ Server!TypeOK /\ GivenOnly /\ Server!UnitsKept
      /\ \A q \in Requests : given[q] \in Nat
      /\ m \in Nat /\ old \in Nat
      /\ post_data \in Seq(Server!Units) /\ \A q \in Requests : taken[q] \in Seq(Server!Units)
      /\ DOMAIN taken = Requests
  BY Collects, DataType, SMTT(30) DEF IInv, Server!TypeOK
<1>2. /\ taken' = taken /\ post_data' \in Seq(Server!Units)
      /\ \A i \in DOMAIN post_data' :
           IF i <= old THEN post_data'[i] = Server!Hole \/ (i \in DOMAIN post_data /\ post_data'[i] = post_data[i])
           ELSE i - old \in 1 .. m /\ post_data'[i] = Server!Unit(r, given[r] + (i - old))
  BY <1>1, Collects
<1>3. given' \in [Requests -> Nat] /\ given'[r] = given[r] + m /\ \A q \in Requests \ {r} : given'[q] = given[q]
  BY <1>1 DEF Server!TypeOK
<1>4. \A q \in Requests : given[q] <= given'[q] /\ given'[q] \in Nat
  BY <1>1, <1>3
<1>5. \A s \in Seq(Server!Units) : \A i \in DOMAIN s : s[i] \in Server!Units
  OBVIOUS
<1>6. /\ \A n : Server!Unit(r, n).of = r /\ Server!Unit(r, n).n = n /\ Server!Unit(r, n) \notin {Server!Hole, Server!Behind}
      /\ Server!Hole.of \notin Requests
  BY UnitTypes
<1>7. \A i \in DOMAIN post_data' : i \in Nat
  BY <1>2
<1> HIDE DEF old
<1>8. GivenOnly'
  <2>1. ASSUME NEW i \in DOMAIN post_data', post_data'[i].of \in Requests
        PROVE  post_data'[i].n <= given'[post_data'[i].of]
    <3>1. CASE i <= old
      <4>1. i \in DOMAIN post_data /\ post_data'[i] = post_data[i]
        BY <1>2, <1>6, <2>1, <3>1
      <4>2. post_data[i].n <= given[post_data[i].of] /\ post_data[i].n \in Nat
        BY <1>1, <1>5, <2>1, <4>1, UnitNumbers DEF GivenOnly, NoneAhead
      <4> QED
        BY <1>1, <1>4, <2>1, <4>1, <4>2
    <3>2. CASE ~ (i <= old)
      <4>1. i - old \in 1 .. m /\ post_data'[i].of = r /\ post_data'[i].n = given[r] + (i - old)
        BY <1>2, <1>6, <3>2
      <4> QED
        BY <1>1, <1>3, <4>1
    <3> QED
      BY <3>1, <3>2
  <2>2. ASSUME NEW q \in Requests, NEW i \in DOMAIN taken[q], taken[q][i].of \in Requests
        PROVE  taken[q][i].n <= given'[taken[q][i].of]
    <3>1. taken[q][i].n <= given[taken[q][i].of] /\ taken[q][i].n \in Nat
      BY <1>1, <1>5, <2>2, UnitNumbers DEF GivenOnly, NoneAhead
    <3> QED
      BY <1>1, <1>4, <2>2, <3>1
  <2> QED
    BY <1>2, <2>1, <2>2 DEF GivenOnly, NoneAhead
<1>9. Server!TakenOnce'
  <2>1. ASSUME NEW q \in Requests, NEW i \in DOMAIN taken[q], NEW j \in DOMAIN post_data',
               taken[q][i] = post_data'[j], taken[q][i] \notin {Server!Hole, Server!Behind}
        PROVE  FALSE
    <3>1. CASE j <= old
      <4>1. j \in DOMAIN post_data /\ post_data'[j] = post_data[j]
        BY <1>2, <2>1, <3>1
      <4>2. taken[q][i] \in Server!Known(taken[q]) /\ taken[q][i] \in Server!Known(post_data)
        BY <2>1, <4>1 DEF Server!Known
      <4> QED
        BY <1>1, <2>1, <4>2 DEF Server!UnitsKept, Server!TakenOnce
    <3>2. CASE ~ (j <= old)
      <4>1. j - old \in 1 .. m /\ taken[q][i].of = r /\ taken[q][i].n = given[r] + (j - old)
        BY <1>2, <1>6, <2>1, <3>2
      <4>2. taken[q][i].n <= given[r]
        BY <1>1, <2>1, <4>1 DEF GivenOnly, NoneAhead
      <4> QED
        BY <1>1, <4>1, <4>2
    <3> QED
      BY <3>1, <3>2
  <2>2. \A q \in Requests : Server!Known(taken[q]) \cap Server!Known(post_data') = {}
    BY <2>1 DEF Server!Known
  <2>3. \A q \in Requests : \A p \in Requests \ {q} : Server!Known(taken[q]) \cap Server!Known(taken[p]) = {}
    BY <1>1 DEF Server!UnitsKept, Server!TakenOnce
  <2> QED
    BY <1>1, <1>2, <2>2, <2>3 DEF Server!TakenOnce
<1>10. Server!KeptInOrder'
  <2>1. ASSUME NEW i \in DOMAIN post_data', NEW j \in DOMAIN post_data', i < j,
               post_data'[i].of = post_data'[j].of, post_data'[i].of \in Requests
        PROVE  post_data'[i].n < post_data'[j].n
    <3>1. CASE j <= old
      <4>1. i <= old
        BY <1>1, <1>7, <2>1, <3>1
      <4>2. /\ i \in DOMAIN post_data /\ post_data'[i] = post_data[i]
            /\ j \in DOMAIN post_data /\ post_data'[j] = post_data[j]
        BY <1>2, <1>6, <2>1, <3>1, <4>1
      <4> QED
        BY <1>1, <2>1, <4>2 DEF Server!UnitsKept, Server!KeptInOrder, Server!InOrder
    <3>2. CASE ~ (j <= old)
      <4>1. j - old \in 1 .. m /\ post_data'[j].of = r /\ post_data'[j].n = given[r] + (j - old)
        BY <1>2, <1>6, <3>2
      <4>2. CASE i <= old
        <5>1. i \in DOMAIN post_data /\ post_data'[i] = post_data[i] /\ post_data[i].of = r
          BY <1>2, <1>6, <2>1, <4>1, <4>2
        <5>2. post_data[i].n <= given[r] /\ post_data[i].n \in Nat
          BY <1>1, <1>5, <5>1, UnitNumbers DEF GivenOnly, NoneAhead
        <5> QED
          BY <1>1, <4>1, <5>1, <5>2
      <4>3. CASE ~ (i <= old)
        <5>1. i - old \in 1 .. m /\ post_data'[i].n = given[r] + (i - old)
          BY <1>2, <1>6, <4>3
        <5> QED
          BY <1>1, <1>7, <2>1, <4>1, <5>1
      <4> QED
        BY <4>2, <4>3
    <3> QED
      BY <3>1, <3>2
  <2>2. Server!InOrder(post_data)'
    BY <1>1, <1>2, <2>1 DEF Server!InOrder
  <2>3. \A q \in DOMAIN taken : Server!InOrder(taken[q])
    BY <1>1 DEF Server!UnitsKept, Server!KeptInOrder
  <2> QED
    BY <1>2, <2>2, <2>3 DEF Server!KeptInOrder, Server!InOrder
<1> QED
  BY <1>8, <1>9, <1>10 DEF Server!UnitsKept

LEMMA AnswerKeeps ==
  ASSUME Named, IInv, NEW r \in Requests, Server!Answer(r), UNCHANGED given
  PROVE  GivenOnly' /\ Server!UnitsKept'
<1>1. /\ Server!TypeOK /\ GivenOnly /\ Server!UnitsKept /\ DOMAIN taken = Requests
      /\ taken \in [Requests -> Seq(Server!Units)] /\ Server!Behind.of \notin Requests
  BY UnitTypes DEF IInv, Server!TypeOK
<1>2. PICK s \in Seq(Server!Units) :
        /\ taken' = [taken EXCEPT ![r] = s]
        /\ \A i \in DOMAIN s : (i \in DOMAIN post_data /\ s[i] = post_data[i]) \/ s[i] = Server!Behind
        /\ post_data' = <<>>
  BY <1>1, Parses
<1>3. taken' \in [Requests -> Seq(Server!Units)] /\ taken'[r] = s /\ \A q \in Requests \ {r} : taken'[q] = taken[q]
  BY <1>1, <1>2
<1>4. DOMAIN taken' = Requests
  BY <1>3
<1>5. GivenOnly'
  <2>1. NoneAhead(s)
    BY <1>1, <1>2 DEF GivenOnly, NoneAhead
  <2>2. NoneAhead(<<>>)
    BY DEF NoneAhead
  <2>3. \A q \in Requests : NoneAhead(taken'[q])
    BY <1>1, <1>3, <2>1 DEF GivenOnly
  <2> QED
    BY <1>2, <2>2, <2>3 DEF GivenOnly, NoneAhead
<1>6. Server!TakenOnce'
  <2>1. Server!Known(s) \subseteq Server!Known(post_data)
    BY <1>2 DEF Server!Known
  <2>2. Server!Known(<<>>) = {}
    BY DEF Server!Known
  <2>3. \A q \in Requests : Server!Known(taken[q]) \cap Server!Known(post_data) = {}
    BY <1>1 DEF Server!UnitsKept, Server!TakenOnce
  <2>4. \A q \in Requests : \A p \in Requests \ {q} : Server!Known(taken[q]) \cap Server!Known(taken[p]) = {}
    BY <1>1 DEF Server!UnitsKept, Server!TakenOnce
  <2>5. \A q \in Requests : \A p \in Requests \ {q} : Server!Known(taken'[q]) \cap Server!Known(taken'[p]) = {}
    <3> TAKE q \in Requests
    <3> TAKE p \in Requests \ {q}
    <3>1. CASE q = r
      BY <1>3, <2>1, <2>3, <3>1
    <3>2. CASE p = r
      BY <1>3, <2>1, <2>3, <3>2
    <3>3. CASE q # r /\ p # r
      BY <1>3, <2>4, <3>3
    <3> QED
      BY <3>1, <3>2, <3>3
  <2> QED
    BY <1>2, <1>4, <2>2, <2>5, ZenonT(40) DEF Server!TakenOnce
<1>7. Server!KeptInOrder'
  <2>1. \A i, j \in DOMAIN s : i < j /\ s[i].of = s[j].of /\ s[i].of \in Requests => s[i].n < s[j].n
    BY <1>1, <1>2 DEF Server!UnitsKept, Server!KeptInOrder, Server!InOrder
  <2>2. \A q \in Requests : Server!InOrder(taken[q])
    BY <1>1 DEF Server!UnitsKept, Server!KeptInOrder
  <2>3. \A q \in Requests \ {r} : \A i, j \in DOMAIN taken[q] :
          i < j /\ taken[q][i].of = taken[q][j].of /\ taken[q][i].of \in Requests => taken[q][i].n < taken[q][j].n
    BY <1>1, <2>2 DEF Server!InOrder
  <2>4. \A q \in Requests : \A i, j \in DOMAIN taken'[q] :
          i < j /\ taken'[q][i].of = taken'[q][j].of /\ taken'[q][i].of \in Requests => taken'[q][i].n < taken'[q][j].n
    BY <1>3, <2>1, <2>3, ZenonT(40)
  <2>5. DOMAIN <<>> = {}
    OBVIOUS
  <2> QED
    BY <1>2, <1>4, <2>4, <2>5 DEF Server!KeptInOrder, Server!InOrder
<1> QED
  BY <1>5, <1>6, <1>7 DEF Server!UnitsKept

LEMMA LostKeeps ==
  ASSUME IInv, post_data' = <<>> \/ post_data' = post_data, UNCHANGED <<taken, given>>
  PROVE  GivenOnly' /\ Server!UnitsKept'
<1>1. DOMAIN <<>> = {}
  OBVIOUS
<1>2. Server!Known(<<>>) = {}
  BY DEF Server!Known
<1>3. GivenOnly'
  BY <1>1 DEF IInv, GivenOnly, NoneAhead
<1>4. Server!TakenOnce'
  BY <1>2 DEF IInv, Server!UnitsKept, Server!TakenOnce
<1>5. Server!KeptInOrder'
  BY <1>1 DEF IInv, Server!UnitsKept, Server!KeptInOrder, Server!InOrder
<1> QED
  BY <1>3, <1>4, <1>5 DEF Server!UnitsKept

LEMMA TypeStep ==
  ASSUME Named, Server!TypeOK, [Server!Next]_(Server!vars)
  PROVE  Server!TypeOK'
<1>1. ASSUME NEW r \in Requests, Server!Client(r) \/ Server!Server(r)
      PROVE  Server!TypeOK'
  <2>1. st' \in [Requests -> {"none", "headers", "body", "full", "reply", "closed"}]
    BY <1>1 DEF Server!TypeOK, Server!Client, Server!Server, Server!Request, Server!Disconnect, Server!FirstCall, Server!Upload, Server!UploadFails, Server!Complete, Server!FinalCall, Server!Becomes
  <2>2. overlapped' \in BOOLEAN
    BY <1>1 DEF Server!TypeOK, Server!Client, Server!Server, Server!Request, Server!Disconnect, Server!FirstCall, Server!Upload, Server!UploadFails, Server!Complete, Server!FinalCall
  <2>3. CASE Server!Upload(r)
    <3>1. PICK m \in 1 .. MaxBody - given[r] : Server!Collect(Data(r, m)) /\ given' = [given EXCEPT ![r] = @ + m]
      BY <2>3 DEF Server!Upload, Data
    <3>2. given' \in [Requests -> 0 .. MaxBody]
      BY <3>1, DataType DEF Server!TypeOK
    <3>3. post_data_size' = post_data_size + m /\ m \in Nat
      BY <3>1, Collects, DataType
    <3>4. post_data' \in Seq(Server!Units) /\ taken' = taken /\ fails' = fails
      BY <3>1, Collects
    <3> QED
      BY <2>1, <2>2, <3>2, <3>3, <3>4 DEF Server!TypeOK
  <2>4. CASE Server!Answer(r) /\ UNCHANGED given
    <3>1. PICK s \in Seq(Server!Units) : taken' = [taken EXCEPT ![r] = s] /\ post_data' = <<>> /\ post_data_size' = 0 /\ fails' = fails
      BY <2>4, Parses
    <3>2. taken' \in [Requests -> Seq(Server!Units)]
      BY <3>1 DEF Server!TypeOK
    <3> QED
      BY <2>1, <2>2, <2>4, <3>1, <3>2, EmptySeq DEF Server!TypeOK
  <2>5. CASE Server!UploadFails(r)
    <3>1. fails' \in 0 .. MaxFails /\ post_data' = <<>> /\ UNCHANGED <<post_data_size, taken, given>>
      BY <2>5, MaxFailsAssumption DEF Server!UploadFails, Server!CollectFails, Server!TypeOK
    <3> QED
      BY <2>1, <2>2, <3>1, EmptySeq DEF Server!TypeOK
  <2>6. CASE UNCHANGED <<Server!handler, given>>
    BY <2>1, <2>2, <2>6 DEF Server!TypeOK, Server!handler
  <2> QED
    BY <1>1, <2>3, <2>4, <2>5, <2>6 DEF Server!Client, Server!Server, Server!Request, Server!Disconnect, Server!FirstCall, Server!Complete, Server!FinalCall, Server!NoAnswer
<1>2. CASE UNCHANGED Server!vars
  BY <1>2 DEF Server!TypeOK, Server!vars, Server!handler
<1> QED
  BY <1>1, <1>2 DEF Server!Next

----------------------------------------------------------------------------
\* Type correctness of the calls, the buffer and what is parsed of it.
LEMMA HandlerTypes == Server!Spec => []Server!TypeOK
<1>1. Server!Init => Server!TypeOK
  BY NamesHold, TypeInit
<1>2. Server!TypeOK /\ [Server!Next]_(Server!vars) => Server!TypeOK'
  BY NamesHold, TypeStep
<1> QED
  BY <1>1, <1>2, PTL DEF Server!Spec

LEMMA StepInv ==
  ASSUME Named, IInv, [Server!Next]_(Server!vars)
  PROVE  IInv'
<1>1. Server!TypeOK'
  BY TypeStep DEF IInv
<1>2. ASSUME NEW r \in Requests, Server!Client(r) \/ Server!Server(r)
      PROVE  GivenOnly' /\ Server!UnitsKept'
  <2>1. CASE Server!Upload(r)
    BY <2>1, CollectKeeps DEF Server!Upload, Data
  <2>2. CASE Server!Answer(r) /\ UNCHANGED given
    BY <2>2, AnswerKeeps
  <2>3. CASE Server!UploadFails(r) \/ UNCHANGED <<Server!handler, given>>
    BY <2>3, LostKeeps DEF Server!UploadFails, Server!CollectFails, Server!handler
  <2> QED
    BY <1>2, <2>1, <2>2, <2>3 DEF Server!Client, Server!Server, Server!Request, Server!Disconnect, Server!FirstCall, Server!Complete, Server!FinalCall, Server!NoAnswer
<1>3. CASE UNCHANGED Server!vars
  <2>1. post_data' = post_data /\ UNCHANGED <<taken, given>>
    BY <1>3 DEF Server!vars, Server!handler
  <2>2. GivenOnly' /\ Server!UnitsKept'
    BY <2>1, LostKeeps
  <2> QED
    BY <1>1, <2>2 DEF IInv
<1> QED
  BY <1>1, <1>2, <1>3 DEF Server!Next, IInv

LEMMA InitInv ==
  ASSUME Named, Server!Init
  PROVE  IInv
<1>1. DOMAIN <<>> = {} /\ Server!Known(<<>>) = {}
  BY DEF Server!Known
<1>2. post_data = <<>> /\ DOMAIN taken = Requests /\ \A r \in Requests : taken[r] = <<>>
  BY DEF Server!Init
<1>3. GivenOnly
  BY <1>1, <1>2 DEF GivenOnly, NoneAhead
<1>4. Server!TakenOnce
  BY <1>1, <1>2 DEF Server!TakenOnce
<1>5. Server!KeptInOrder
  BY <1>1, <1>2 DEF Server!KeptInOrder, Server!InOrder
<1> QED
  BY <1>3, <1>4, <1>5, TypeInit DEF IInv, Server!UnitsKept

LEMMA UnitsAreKept == Server!Spec => []Server!UnitsKept
<1>1. Server!Init => IInv
  BY NamesHold, InitInv
<1>2. IInv /\ [Server!Next]_(Server!vars) => IInv'
  BY NamesHold, StepInv
<1>3. IInv => Server!UnitsKept
  BY DEF IInv
<1> QED
  BY <1>1, <1>2, <1>3, PTL DEF Server!Spec

----------------------------------------------------------------------------
(* One request at a time.                                                    *)

LEMMA OwnType ==
  ASSUME Named, Server!TypeOK, NEW r \in Requests
  PROVE  /\ Own(r) \in Seq(Server!Units) /\ Len(Own(r)) = given[r]
         /\ \A i \in 1 .. given[r] : Own(r)[i] = Server!Unit(r, i)
         /\ given[r] = 0 => Own(r) = <<>>
<1>1. given[r] \in Nat /\ given[r] <= MaxBody
  BY DEF Server!TypeOK, Named
<1>2. \A i \in 1 .. given[r] : Server!Unit(r, i) \in Server!Units
  BY <1>1, UnitTypes DEF Named
<1>3. Own(r) \in [1 .. given[r] -> Server!Units]
  BY <1>2 DEF Own
<1>4. Own(r) \in Seq(Server!Units) /\ Len(Own(r)) = given[r]
  BY <1>1, <1>3, FunctionIsSeq
<1>5. \A i \in 1 .. given[r] : Own(r)[i] = Server!Unit(r, i)
  BY DEF Own
<1> QED
  BY <1>4, <1>5, EmptySeq

LEMMA BodyGrows ==
  ASSUME NEW r, NEW a \in Nat, NEW m \in Nat
  PROVE  [i \in 1 .. a |-> Server!Unit(r, i)] \o [i \in 1 .. m |-> Server!Unit(r, a + i)] = [i \in 1 .. a + m |-> Server!Unit(r, i)]
<1> DEFINE S == {Server!Unit(r, i) : i \in Nat}
           o == [i \in 1 .. a |-> Server!Unit(r, i)]
           d == [i \in 1 .. m |-> Server!Unit(r, a + i)]
           n == [i \in 1 .. a + m |-> Server!Unit(r, i)]
<1>1. o \in [1 .. a -> S] /\ d \in [1 .. m -> S] /\ n \in [1 .. a + m -> S]
  OBVIOUS
<1>2. /\ \A i \in 1 .. a : o[i] = Server!Unit(r, i)
      /\ \A i \in 1 .. m : d[i] = Server!Unit(r, a + i)
      /\ \A i \in 1 .. a + m : n[i] = Server!Unit(r, i)
  OBVIOUS
<1> HIDE DEF S, o, d, n
<1>3. a + m \in Nat
  OBVIOUS
<1>4. /\ o \in Seq(S) /\ Len(o) = a
      /\ d \in Seq(S) /\ Len(d) = m
      /\ n \in Seq(S) /\ Len(n) = a + m
  BY <1>1, <1>3, FunctionIsSeq
<1>5. /\ o \o d \in Seq(S) /\ Len(o \o d) = a + m
      /\ \A i \in 1 .. a + m : (o \o d)[i] = IF i <= a THEN o[i] ELSE d[i - a]
  BY <1>4, ConcatProperties
<1>6. \A i \in 1 .. a + m : (o \o d)[i] = n[i]
  <2> TAKE i \in 1 .. a + m
  <2>1. CASE i <= a
    BY <1>2, <1>5, <2>1
  <2>2. CASE ~ (i <= a)
    <3>1. i - a \in 1 .. m /\ a + (i - a) = i
      BY <2>2
    <3>2. d[i - a] = Server!Unit(r, i)
      BY <1>2, <3>1
    <3> QED
      BY <1>2, <1>5, <2>2, <3>2
  <2> QED
    BY <2>1, <2>2
<1>7. o \o d = n
  BY <1>4, <1>5, <1>6, SeqEqual
<1> QED
  BY <1>7 DEF o, d, n

LEMMA AloneInit ==
  ASSUME Named, Server!Init
  PROVE  OneAtATime /\ AnsweredForOwn
<1>1. Len(<<>>) = 0
  OBVIOUS
<1>2. \A r \in Requests : st[r] = "none" /\ given[r] = 0
  BY DEF Server!Init
<1> QED
  BY <1>1, <1>2 DEF Server!Init, OneAtATime, AnsweredForOwn, Server!Active

\* A call with data, while only its request is served.
LEMMA AloneUpload ==
  ASSUME Named, Server!TypeOK, OneAtATime, AnsweredForOwn, NEW r \in Requests, Server!Upload(r)
  PROVE  OneAtATime' /\ AnsweredForOwn'
<1> SUFFICES ASSUME ~ overlapped
             PROVE  OneAtATime' /\ AnsweredForOwn'
  BY DEF OneAtATime, AnsweredForOwn, Server!Upload
<1>1. PICK m \in 1 .. MaxBody - given[r] : Server!Collect(Data(r, m)) /\ given' = [given EXCEPT ![r] = @ + m]
  BY DEF Server!Upload, Data
<1>2. st[r] = "body" /\ st' = st /\ overlapped' = overlapped /\ Server!Active(r)
  BY DEF Server!Upload, Server!Active
<1>3. /\ given'[r] = given[r] + m /\ \A q \in Requests \ {r} : given'[q] = given[q]
      /\ given[r] \in Nat /\ m \in Nat
  BY <1>1, DataType DEF Server!TypeOK
<1>4. post_data = Own(r) /\ Len(post_data) = given[r] /\ post_data_size = given[r]
  BY <1>2, OwnType DEF OneAtATime
<1>5. Server!Grown = Own(r)
  <2>1. CASE post_data # <<>>
    BY <1>4, <2>1, GrownType
  <2>2. CASE post_data = <<>>
    <3>1. Len(Server!Grown) = 0 /\ Server!Grown \in Seq(Server!Units)
      BY <1>4, <2>2, GrownType
    <3> QED
      BY <1>4, <2>2, <3>1, EmptySeq
  <2> QED
    BY <2>1, <2>2
<1>6. post_data' = Own(r)'
  <2>1. post_data' = Own(r) \o Data(r, m)
    BY <1>1, <1>5 DEF Server!Collect
  <2>2. Own(r)' = [i \in 1 .. given[r] + m |-> Server!Unit(r, i)]
    BY <1>3 DEF Own
  <2> QED
    BY <1>3, <2>1, <2>2, BodyGrows DEF Own, Data
<1>7. post_data_size' = Len(post_data')
  <2>1. Len(post_data') = Len(Server!Grown) + m /\ post_data_size' = post_data_size + m
    BY <1>1, Collects
  <2> QED
    BY <1>4, <1>5, <2>1
<1>8. \A q \in Requests \ {r} : ~ Server!Active(q)
  BY <1>2 DEF OneAtATime
<1>9. OneAtATime'
  BY <1>2, <1>3, <1>6, <1>7, <1>8 DEF OneAtATime, Server!Active
<1>10. AnsweredForOwn'
  BY <1>1, <1>2, <1>3, Collects DEF AnsweredForOwn, Own
<1> QED
  BY <1>9, <1>10

\* A final call that is answered, while only its request is served.
LEMMA AloneAnswer ==
  ASSUME Named, Server!TypeOK, OneAtATime, AnsweredForOwn, NEW r \in Requests, Server!FinalCall(r)
  PROVE  OneAtATime' /\ AnsweredForOwn'
<1> SUFFICES ASSUME ~ overlapped
             PROVE  OneAtATime' /\ AnsweredForOwn'
  BY DEF OneAtATime, AnsweredForOwn, Server!FinalCall
<1>1. st[r] = "full" /\ Server!Active(r) /\ overlapped' = overlapped /\ given' = given /\ Server!Answer(r)
  BY DEF Server!FinalCall, Server!Active
<1>2. st'[r] = "reply" /\ \A q \in Requests \ {r} : st'[q] = st[q]
  BY DEF Server!FinalCall, Server!Becomes, Server!TypeOK
<1>3. post_data = Own(r) /\ \A q \in Requests \ {r} : ~ Server!Active(q)
  BY <1>1 DEF OneAtATime
<1>4. PICK s \in Seq(Server!Units) :
        /\ taken' = [taken EXCEPT ![r] = s]
        /\ s = post_data \/ s = post_data \o <<Server!Behind>>
        /\ post_data' = <<>> /\ post_data_size' = 0
  BY <1>1, Parses
<1>5. taken'[r] \in {Own(r), Own(r) \o <<Server!Behind>>} /\ \A q \in Requests \ {r} : taken'[q] = taken[q]
  BY <1>3, <1>4 DEF Server!TypeOK
<1>6. \A q \in Requests : ~ Server!Active(q)'
  BY <1>2, <1>3 DEF Server!Active
<1>7. OneAtATime'
  BY <1>1, <1>2, <1>4, <1>6, EmptySeq DEF OneAtATime
<1>8. AnsweredForOwn'
  BY <1>1, <1>2, <1>5 DEF AnsweredForOwn, Own
<1> QED
  BY <1>7, <1>8

LEMMA AloneCalls ==
  ASSUME Named, Server!TypeOK, OneAtATime, AnsweredForOwn, NEW r \in Requests,
         Server!Request(r) \/ Server!FirstCall(r) \/ Server!Complete(r)
  PROVE  OneAtATime' /\ AnsweredForOwn'
<1> SUFFICES ASSUME ~ overlapped'
             PROVE  OneAtATime' /\ AnsweredForOwn'
  BY DEF OneAtATime, AnsweredForOwn
<1>1. ~ overlapped /\ given' = given
  <2>1. ~ overlapped
    BY Zenon DEF Server!Request, Server!FirstCall, Server!Complete
  <2> QED
    BY <2>1 DEF Server!Request, Server!FirstCall, Server!Complete
<1>2. Own(r) = <<>> \/ given[r] # 0
  BY OwnType
<1>3. CASE Server!Request(r)
  <2>1. st[r] = "none" /\ given[r] = 0 /\ \A q \in Requests : ~ Server!Active(q)
    BY <1>1, <1>3 DEF Server!Request, Server!Active, OneAtATime
  <2>2. post_data = <<>> /\ post_data_size = Len(post_data)
    BY <1>1, <2>1 DEF OneAtATime
  <2>3. st'[r] = "headers" /\ \A q \in Requests \ {r} : st'[q] = st[q]
    BY <1>3 DEF Server!Request, Server!Becomes, Server!TypeOK
  <2>4. UNCHANGED Server!handler
    BY <1>3 DEF Server!Request
  <2>5. \A q \in Requests \ {r} : ~ Server!Active(q)'
    BY <2>1, <2>3 DEF Server!Active
  <2>6. Own(r)' = <<>>
    BY <1>1, <1>2, <2>1 DEF Own
  <2>7. OneAtATime'
    BY <1>1, <2>1, <2>2, <2>3, <2>4, <2>5, <2>6 DEF OneAtATime, Server!handler, Server!Active
  <2>8. AnsweredForOwn'
    BY <1>1, <2>3, <2>4 DEF AnsweredForOwn, Own, Server!handler
  <2> QED
    BY <2>7, <2>8
<1>4. CASE Server!FirstCall(r) \/ Server!Complete(r)
  <2>1. Server!Active(r)
    BY <1>4 DEF Server!FirstCall, Server!Complete, Server!Active
  <2>2. post_data = Own(r) /\ post_data_size = Len(post_data) /\ \A q \in Requests \ {r} : ~ Server!Active(q)
    BY <1>1, <2>1 DEF OneAtATime
  <2>3. st[r] = "headers" => post_data = <<>>
    BY <1>1, <1>2, <2>2 DEF OneAtATime
  <2>4. UNCHANGED Server!handler /\ (Server!Becomes(r, "body") \/ Server!Becomes(r, "full"))
    BY <1>4, <2>3 DEF Server!FirstCall, Server!Complete, Server!Answer, Server!NoAnswer
  <2>5. st'[r] \in {"body", "full"} /\ \A q \in Requests \ {r} : st'[q] = st[q]
    BY <2>4 DEF Server!Becomes, Server!TypeOK
  <2>6. \A q \in Requests \ {r} : ~ Server!Active(q)'
    BY <2>2, <2>5 DEF Server!Active
  <2>7. Server!Active(r)' /\ Own(r)' = Own(r) /\ post_data' = post_data /\ post_data_size' = post_data_size /\ taken' = taken
    BY <1>1, <2>4, <2>5 DEF Server!Active, Own, Server!handler
  <2>8. OneAtATime'
    BY <1>1, <2>2, <2>5, <2>6, <2>7 DEF OneAtATime
  <2>9. AnsweredForOwn'
    BY <1>1, <2>5, <2>7 DEF AnsweredForOwn, Own
  <2> QED
    BY <2>8, <2>9
<1> QED
  BY <1>3, <1>4

Alone == Server!TypeOK /\ OneAtATime /\ AnsweredForOwn

LEMMA AnsweredAlone == Server!Spec => []Alone
<1>0. Named
  BY NamesHold
<1>1. Server!Init => OneAtATime /\ AnsweredForOwn
  BY <1>0, AloneInit
<1>2. Server!TypeOK /\ OneAtATime /\ AnsweredForOwn /\ [Server!Next]_(Server!vars) => (OneAtATime /\ AnsweredForOwn)'
  <2> SUFFICES ASSUME Server!TypeOK, OneAtATime, AnsweredForOwn, [Server!Next]_(Server!vars)
               PROVE  (OneAtATime /\ AnsweredForOwn)'
    OBVIOUS
  <2>1. ASSUME NEW r \in Requests, Server!Disconnect(r) \/ Server!UploadFails(r)
        PROVE  (OneAtATime /\ AnsweredForOwn)'
    BY <2>1 DEF Server!Disconnect, Server!UploadFails, OneAtATime, AnsweredForOwn
  <2>2. CASE UNCHANGED Server!vars
    BY <2>2 DEF Server!vars, Server!handler, OneAtATime, AnsweredForOwn, Own, Server!Active
  <2>3. ASSUME NEW r \in Requests, Server!Client(r) \/ Server!Server(r)
        PROVE  (OneAtATime /\ AnsweredForOwn)'
    BY <1>0, <2>1, <2>3, AloneUpload, AloneAnswer, AloneCalls DEF Server!Client, Server!Server
  <2> QED
    BY <2>2, <2>3 DEF Server!Next
<1> QED
  BY <1>1, <1>2, HandlerTypes, PTL DEF Server!Spec, Alone

----------------------------------------------------------------------------
(* Both together.                                                            *)

\* What was answered had been given whole.
AnsweredWhole ==
  ~ overlapped =>
    \A r \in Requests : fate[r] = "reply" => r[2] \in DOMAIN plan[r[1]] /\ given[r] = Size(plan[r[1]][r[2]])

\* A request that was answered is not given more of its body.
LEMMA AnsweredStays ==
  ASSUME CInv, AnsweredWhole, NEW r \in Requests, fate[r] = "reply", ~ overlapped, plan' = plan, given'[r] = given[r]
  PROVE  r[2] \in DOMAIN plan'[r[1]] /\ given'[r] = Size(plan'[r[1]][r[2]])
BY DEF AnsweredWhole

\* An answer comes when the body was given whole: the buffer is empty before.
LEMMA WholeWhenAnswered ==
  ASSUME CInv, Alone, ~ overlapped, NEW c \in Connections, state[c] \in {"HEADERS_PROCESSED", "FULL_REQ_RECEIVED"},
         IsPost(c), Answer(Current(c))
  PROVE  /\ Current(c) \in Requests /\ Current(c)[1] = c /\ Current(c)[2] \in DOMAIN plan[c]
         /\ given[Current(c)] = Size(plan[c][Current(c)[2]])
<1>1. IsHere(c) /\ Parsed(c) /\ Serving(c) /\ HasHead(c)
  BY Served
<1>2. /\ Current(c) \in Requests /\ Current(c) = <<c, Number(c)>> /\ Number(c) \in DOMAIN plan[c]
      /\ rq[c].q = plan[c][Number(c)]
  BY <1>1 DEF IsHere, HasHead
<1>3. CASE state[c] = "FULL_REQ_RECEIVED"
  BY <1>1, <1>2, <1>3 DEF Parsed
<1>4. CASE state[c] = "HEADERS_PROCESSED"
  <2> DEFINE r == Current(c)
  <2>1. r \in Requests /\ Server!Active(r)
    BY <1>1, WhoIsActive, SameActive
  <2>2. given[r] = 0
    BY <1>1, <1>4 DEF Parsed
  <2> HIDE DEF r
  <2>3. post_data = Own(r)
    BY <2>1 DEF Alone, OneAtATime
  <2>4. Own(r) = <<>>
    BY <2>2 DEF Own
  <2> QED
    BY <2>3, <2>4 DEF Answer
<1> QED
  BY <1>3, <1>4

LEMMA WholeStep ==
  ASSUME CInv, Alone, AnsweredWhole, [Next]_vars
  PROVE  AnsweredWhole'
<1>1. overlapped \in BOOLEAN
  BY DEF Alone, Server!TypeOK
<1>2. ~ overlapped' => ~ overlapped
  <2>1. overlapped' = overlapped \/ overlapped' = TRUE \/ \E b : overlapped' = (overlapped \/ b)
    BY ZenonT(40) DEF Next, vars, history, Read, Runs, GetHead, FirstCall, SkipLineEnd, ChunkSize, Upload, Collected, Close, BodyDone,
           Footers, FinalCall, Waits, ContinueSent, Sent, Reused, Lost
  <2> QED
    BY <1>1, <2>1
<1>3. SUFFICES ASSUME ~ overlapped', ~ overlapped, NEW r \in Requests, fate'[r] = "reply"
               PROVE  r[2] \in DOMAIN plan'[r[1]] /\ given'[r] = Size(plan'[r[1]][r[2]])
  BY <1>2 DEF AnsweredWhole
<1>4. ConnectionTypes
  BY DEF CInv
<1>5. ASSUME plan' = plan, fate' = fate, given' = given
      PROVE  r[2] \in DOMAIN plan'[r[1]] /\ given'[r] = Size(plan'[r[1]][r[2]])
  BY <1>3, <1>5, AnsweredStays
<1>6. ASSUME NEW c \in Connections, state[c] \in {"HEADERS_PROCESSED", "FULL_REQ_RECEIVED"}, Answered(c), plan' = plan, given' = given
      PROVE  r[2] \in DOMAIN plan'[r[1]] /\ given'[r] = Size(plan'[r[1]][r[2]])
  <2>1. CASE fate' = fate
    BY <1>5, <1>6, <2>1
  <2>2. CASE IsPost(c) /\ Answer(Current(c)) /\ fate' = Set(fate, Current(c), "reply")
    <3>1. /\ Current(c) \in Requests /\ Current(c)[1] = c /\ Current(c)[2] \in DOMAIN plan[c]
          /\ given[Current(c)] = Size(plan[c][Current(c)[2]])
      BY <1>3, <1>6, <2>2, WholeWhenAnswered
    <3>2. CASE r = Current(c)
      BY <1>6, <3>1, <3>2
    <3>3. CASE r # Current(c)
      <4>1. fate[r] = "reply"
        BY <1>3, <1>4, <2>2, <3>3 DEF Set, ConnectionTypes
      <4> QED
        BY <1>3, <1>6, <4>1, AnsweredStays
    <3> QED
      BY <3>2, <3>3
  <2> QED
    BY <1>6, <2>1, <2>2 DEF Answered
<1>7. ASSUME NEW c \in Connections, FirstCall(c) \/ FinalCall(c)
      PROVE  r[2] \in DOMAIN plan'[r[1]] /\ given'[r] = Size(plan'[r[1]][r[2]])
  <2>1. state[c] \in {"HEADERS_PROCESSED", "FULL_REQ_RECEIVED"} /\ plan' = plan /\ given' = given
    BY <1>7 DEF FirstCall, FinalCall, buffer
  <2>2. CASE Answered(c)
    BY <1>6, <2>1, <2>2
  <2>3. CASE NotAnswered(c)
    BY <1>5, <2>1, <2>3 DEF NotAnswered
  <2> QED
    BY <1>7, <2>2, <2>3 DEF FirstCall, FinalCall
<1>8. ASSUME NEW c \in Connections, Upload(c)
      PROVE  r[2] \in DOMAIN plan'[r[1]] /\ given'[r] = Size(plan'[r[1]][r[2]])
  <2>1. state[c] = "BODY_RECEIVING"
    BY <1>8 DEF Upload, InBody
  <2>2. fate[Current(c)] = "none" /\ IsHere(c)
    BY <2>1, Served
  <2>3. CASE CollectFails /\ Close(c)
    <3>1. plan' = plan /\ given' = given /\ (fate' = fate \/ fate' = Set(fate, Current(c), "closed"))
      BY <2>3 DEF Close, buffer
    <3>2. fate[r] = "reply"
      BY <1>3, <1>4, <2>2, <3>1 DEF Set, ConnectionTypes, IsHere
    <3> QED
      BY <1>3, <3>1, <3>2, AnsweredStays
  <2>4. CASE Collected(c, Portion(c))
    <3>1. plan' = plan /\ fate' = fate /\ given' = Set(given, Current(c), given[Current(c)] + Portion(c))
      BY <2>4 DEF Collected, Use
    <3>2. fate[r] = "reply" /\ r # Current(c)
      BY <1>3, <2>2, <3>1
    <3>3. given'[r] = given[r]
      BY <1>4, <3>1, <3>2 DEF Set, ConnectionTypes
    <3> QED
      BY <1>3, <3>1, <3>2, <3>3, AnsweredStays
  <2> QED
    BY <1>8, <2>3, <2>4 DEF Upload
<1>9. ASSUME NEW c \in Connections, Sent(c) \/ Lost(c)
      PROVE  r[2] \in DOMAIN plan'[r[1]] /\ given'[r] = Size(plan'[r[1]][r[2]])
  <2>1. plan' = plan /\ given' = given /\ (fate' = fate \/ (Serving(c) /\ fate' = Set(fate, Current(c), "closed")))
    BY <1>9 DEF Sent, Lost, Close, Reused, buffer, history
  <2>2. CASE fate' = fate
    BY <1>5, <2>1, <2>2
  <2>3. CASE Serving(c) /\ fate' = Set(fate, Current(c), "closed")
    <3>1. Current(c) \in Requests
      BY <2>3, Served DEF IsHere, Serving
    <3>2. fate[r] = "reply"
      BY <1>3, <1>4, <2>3, <3>1 DEF Set, ConnectionTypes
    <3> QED
      BY <1>3, <2>1, <3>2, AnsweredStays
  <2> QED
    BY <2>1, <2>2, <2>3
<1>10. ASSUME NEW c \in Connections,
              Read(c) \/ GetHead(c) \/ SkipLineEnd(c) \/ ChunkSize(c) \/ BodyDone(c) \/ Footers(c) \/ Waits(c) \/ ContinueSent(c)
       PROVE  r[2] \in DOMAIN plan'[r[1]] /\ given'[r] = Size(plan'[r[1]][r[2]])
  <2>1. plan' = plan /\ fate' = fate /\ given' = given
    BY <1>10 DEF Read, GetHead, SkipLineEnd, ChunkSize, BodyDone, Footers, Waits, ContinueSent, Use, buffer, history
  <2> QED
    BY <1>5, <2>1
<1>11. CASE UNCHANGED vars
  BY <1>5, <1>11 DEF vars, buffer, history
<1>12. ASSUME NEW c \in Connections, Read(c) \/ Runs(c) \/ ContinueSent(c) \/ Sent(c) \/ Lost(c)
       PROVE  r[2] \in DOMAIN plan'[r[1]] /\ given'[r] = Size(plan'[r[1]][r[2]])
  BY <1>7, <1>8, <1>9, <1>10, <1>12 DEF Runs
<1> QED
  BY <1>11, <1>12 DEF Next

\* A request that was answered for what was given of it, all of its body, was
\* answered for its body.
LEMMA ExactWhenWhole ==
  ASSUME CInv, AnsweredForOwn, AnsweredWhole
  PROVE  ExactIfSequential
<1> SUFFICES ASSUME ~ overlapped, NEW r \in Requests, fate[r] = "reply"
             PROVE  LET own == [i \in DOMAIN Body(r) |-> Byte(Body(r)[i])] IN taken[r] \in {own, own \o <<Behind>>}
  BY DEF ExactIfSequential
<1>1. given[r] = Size(plan[r[1]][r[2]])
  BY DEF AnsweredWhole
<1>2. st[r] = "reply"
  BY Stages DEF IsStage
<1>3. taken[r] \in {Own(r), Own(r) \o <<Behind>>}
  BY <1>2 DEF AnsweredForOwn, Behind, Server!Behind
<1>4. given[r] \in Nat /\ r = <<r[1], r[2]>>
  BY RequestParts DEF CInv, ConnectionTypes
<1> DEFINE n == given[r]
<1>5. Body(r) = [i \in 1 .. n |-> Token("data", r[1], r[2], 0 + i)]
  BY <1>1 DEF Body, Units
<1>6. \A i \in 1 .. n : Byte(Token("data", r[1], r[2], 0 + i)) = Server!Unit(r, i)
  BY <1>4 DEF Byte, Token, Unit, Server!Unit
<1> HIDE DEF n
<1>7. [i \in DOMAIN Body(r) |-> Byte(Body(r)[i])] = [i \in 1 .. n |-> Server!Unit(r, i)]
  BY <1>5, <1>6
<1> QED
  BY <1>3, <1>7 DEF Own, n

\* However requests meet on their connections, are broken off or fail in
\* realloc: no unit of a body is parsed twice, and those of one body are parsed
\* in their order (handle_post_request()).
THEOREM BodiesAreParsedOnce == Spec => []UnitsKept
<1>1. Server!UnitsKept => UnitsKept
  BY DEF UnitsKept, Server!UnitsKept, TakenOnce, Server!TakenOnce, KeptInOrder, Server!KeptInOrder, InOrder, Server!InOrder,
         Known, Server!Known, Hole, Server!Hole, Behind, Server!Behind
<1> QED
  BY <1>1, HandlerIsCalledRight, UnitsAreKept, PTL DEF CallsAreLegal

\* While requests do not meet and none is broken off, a POST is answered for its
\* own body, all of it and nothing of another, whether it came counted or in
\* chunks and however it was split into reads.
THEOREM SequentialIsExact == Spec => []ExactIfSequential
<1>1. Init => AnsweredWhole
  BY DEF Init, AnsweredWhole
<1>2. CInv /\ Alone /\ AnsweredWhole /\ [Next]_vars => AnsweredWhole'
  BY WholeStep
<1>3. CInv /\ Alone /\ AnsweredWhole => ExactIfSequential
  BY ExactWhenWhole DEF Alone
<1> QED
  BY <1>1, <1>2, <1>3, ConnectionsAreParsed, HandlerIsCalledRight, AnsweredAlone, PTL DEF Spec, CallsAreLegal

\* Type correctness of the connections, of the calls they make, of the buffer
\* and of what is parsed of it.
THEOREM TypeCorrect == Spec => [](ConnectionTypes /\ Server!TypeOK)
<1>1. CInv => ConnectionTypes
  BY DEF CInv
<1> QED
  BY <1>1, ConnectionsAreParsed, HandlerIsCalledRight, HandlerTypes, PTL DEF CallsAreLegal
=============================================================================
