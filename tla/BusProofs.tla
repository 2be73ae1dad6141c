------------------------------ MODULE BusProofs ------------------------------
(***************************************************************************)
(* Theorems about what is on the cable.  First its shape, for every tree   *)
(* of slaves and all delays of its links: the parents that config_init     *)
(* finds and the ports and delays that configdc computes are those of the  *)
(* bus (DistributedClocks).  Then the Ethernet port the frames pass        *)
(* through, for every number of threads and buffers (NicPort).             *)
(***************************************************************************)
EXTENDS DistributedClocks, NicPort, FiniteSetTheorems, SequenceTheorems, WellFoundedInduction, TLAPS

----------------------------------------------------------------------------
(* Numbers.                                                                 *)

\* A set of numbers has a least one.
LEMMA LeastOf ==
  ASSUME NEW U \in SUBSET Nat, U # {}
  PROVE  \E m \in U : \A k \in U : m <= k
<1>1. PICK R : IsWellFoundedOn(R, Nat) /\ \A k, n \in Nat : k < n => <<k, n>> \in R
  <2> DEFINE Q == OpToRel(<,Nat)
  <2>1. IsWellFoundedOn(Q, Nat)
    BY NatLessThanWellFounded
  <2>2. \A k, n \in Nat : k < n => <<k, n>> \in Q
    BY DEF OpToRel
  <2> HIDE DEF Q
  <2> QED
    BY <2>1, <2>2
<1>2. IsWellFoundedOn(R, Nat)
  BY <1>1
<1>3. U \subseteq Nat
  OBVIOUS
<1>4. \E m \in U : \A k \in U : ~ (<<k, m>> \in R)
  BY <1>2, <1>3, WFMin
<1>5. PICK m \in U : \A k \in U : ~ (<<k, m>> \in R)
  BY <1>4
<1>6. \A k \in U : m <= k
  <2> TAKE k \in U
  <2>1. ~ (k < m)
    BY <1>1, <1>5
  <2> QED BY <2>1
<1> QED
  BY <1>6

\* A set with 0 and the successor of each of its numbers has them all.
LEMMA SetInduction ==
  ASSUME NEW T \in SUBSET Nat, 0 \in T, \A n \in Nat : n \in T => n + 1 \in T
  PROVE  T = Nat
<1> DEFINE U == Nat \ T
<1> SUFFICES ASSUME U # {} PROVE FALSE
  OBVIOUS
<1>2. PICK m \in U : \A k \in U : m <= k
  BY LeastOf
<1>3. m # 0 /\ m - 1 \in Nat
  OBVIOUS
<1>4. m - 1 \in T
  BY <1>2, <1>3
<1> QED BY <1>3, <1>4

----------------------------------------------------------------------------
(* The bus.                                                                 *)

\* The tree, numbered in the order of the frame; it does not change.
BusShape == up \in [Slaves -> 0 .. N - 1] /\ port \in [Slaves -> 1 .. 3] /\ Numbered

\* A slave comes after the one it is linked to.
LEMMA UpIsBefore ==
  ASSUME BusShape
  PROVE  /\ N \in Nat \ {0}
         /\ \A s \in Slaves : up[s] \in 0 .. s - 1 /\ (s > 1 => up[s] >= 1)
<1>1. N \in Nat \ {0}
  BY ClocksAssumption DEF ClocksAssumption
<1>2. up[1] = 0 /\ \A s \in 2 .. N : up[s] \in 1 .. s - 1
  BY DEF BusShape, Numbered
<1>3. ASSUME NEW s \in Slaves
      PROVE  up[s] \in 0 .. s - 1 /\ (s > 1 => up[s] >= 1)
  <2>1. s = 1 \/ s \in 2 .. N
    BY <1>1 DEF Slaves
  <2> QED
    BY <1>1, <1>2, <2>1
<1> QED
  BY <1>1, <1>3

\* The slaves above a slave, by the recursion.
LEMMA AboveExists ==
  ASSUME BusShape
  PROVE  /\ Above[0] = {}
         /\ \A s \in Slaves : Above[s] = {s} \cup Above[up[s]]
<1> DEFINE Good(m, f) == /\ f \in [0 .. m -> SUBSET Nat]
                         /\ \A s \in 0 .. m : f[s] = IF s = 0 THEN {} ELSE {s} \cup f[up[s]]
           T == {m \in Nat : m <= N => \E f : Good(m, f)}
<1>0. N \in Nat \ {0} /\ \A s \in Slaves : up[s] \in 0 .. s - 1
  BY UpIsBefore
<1>1. 0 \in T
  <2>1. Good(0, [k \in 0 .. 0 |-> {}])
    OBVIOUS
  <2> QED BY <2>1
<1>2. ASSUME NEW m \in Nat, m \in T
      PROVE  m + 1 \in T
  <2> SUFFICES ASSUME m + 1 <= N
               PROVE  \E f : Good(m + 1, f)
    <3> HIDE DEF Good
    <3> QED OBVIOUS
  <2>1. PICK f : Good(m, f)
    <3>1. m <= N
      BY <1>0
    <3> HIDE DEF Good
    <3> QED BY <1>2, <3>1, Zenon
  <2> DEFINE v == {m + 1} \cup f[up[m + 1]]
             g == [k \in 0 .. m + 1 |-> IF k = m + 1 THEN v ELSE f[k]]
  <2>2. m + 1 \in Slaves /\ up[m + 1] \in 0 .. m
    BY <1>0 DEF Slaves
  <2>3. v \in SUBSET Nat
    BY <2>1, <2>2
  <2>4. g \in [0 .. m + 1 -> SUBSET Nat]
    BY <2>1, <2>3
  <2>5. ASSUME NEW s \in 0 .. m + 1
        PROVE  g[s] = IF s = 0 THEN {} ELSE {s} \cup g[up[s]]
    <3>1. CASE s = m + 1
      <4>1. g[s] = v /\ g[up[s]] = f[up[s]] /\ s # 0
        BY <2>2, <3>1
      <4> QED BY <3>1, <4>1
    <3>2. CASE s \in 1 .. m
      <4>1. s \in Slaves /\ up[s] \in 0 .. s - 1
        BY <1>0, <3>2 DEF Slaves
      <4>2. g[s] = f[s] /\ g[up[s]] = f[up[s]] /\ s # 0
        BY <3>2, <4>1
      <4>3. f[s] = {s} \cup f[up[s]]
        BY <2>1, <3>2, <4>2
      <4> HIDE DEF g
      <4> QED BY <4>2, <4>3
    <3>3. CASE s = 0
      BY <2>1, <3>3
    <3> QED BY <3>1, <3>2, <3>3
  <2>6. Good(m + 1, g)
    BY <2>4, <2>5
  <2> HIDE DEF g, Good
  <2> QED BY <2>6, Zenon
<1>3. N \in T
  <2>1. T \in SUBSET Nat
    OBVIOUS
  <2> HIDE DEF T
  <2> QED BY <1>0, <1>1, <1>2, <2>1, SetInduction
<1>4. PICK f : Good(N, f)
  <2>1. N <= N
    BY <1>0
  <2> HIDE DEF Good
  <2> QED BY <1>3, <2>1, Zenon
<1>5. f = [s \in 0 .. N |-> IF s = 0 THEN {} ELSE {s} \cup f[up[s]]]
  BY <1>4
<1>6. Above = [s \in 0 .. N |-> IF s = 0 THEN {} ELSE {s} \cup Above[up[s]]]
  <2> DEFINE Rec(h) == h = [s \in 0 .. N |-> IF s = 0 THEN {} ELSE {s} \cup h[up[s]]]
  <2>1. Rec(f)
    BY <1>5
  <2>2. Above = CHOOSE h : Rec(h)
    BY DEF Above
  <2> HIDE DEF Rec
  <2>3. Rec(Above)
    BY <2>1, <2>2
  <2> QED
    BY <2>3 DEF Rec
<1>7. ASSUME NEW s \in Slaves
      PROVE  Above[s] = {s} \cup Above[up[s]]
  <2>1. s \in 0 .. N /\ s # 0
    BY <1>0 DEF Slaves
  <2> QED
    BY <1>6, <2>1, Zenon
<1>8. Above[0] = {}
  <2>1. 0 \in 0 .. N
    BY <1>0
  <2> QED
    BY <1>6, <2>1, Zenon
<1> QED
  BY <1>7, <1>8

\* They come before it.
LEMMA AboveIsBefore ==
  ASSUME BusShape, NEW s \in 0 .. N
  PROVE  Above[s] \subseteq 1 .. s
<1> DEFINE U == {m \in 0 .. N : ~ (Above[m] \subseteq 1 .. m)}
<1>0. N \in Nat \ {0} /\ \A t \in Slaves : up[t] \in 0 .. t - 1
  BY UpIsBefore
<1> SUFFICES ASSUME U # {} PROVE FALSE
  OBVIOUS
<1>1. U \in SUBSET Nat
  OBVIOUS
<1>2. PICK m \in U : \A k \in U : m <= k
  <2> HIDE DEF U
  <2> QED BY <1>1, LeastOf
<1>3. m # 0
  BY AboveExists
<1>4. m \in Slaves /\ up[m] \in 0 .. m - 1
  BY <1>0, <1>3 DEF Slaves
<1>5. Above[up[m]] \subseteq 1 .. up[m]
  BY <1>0, <1>2, <1>4
<1>6. Above[m] = {m} \cup Above[up[m]]
  BY <1>4, AboveExists
<1>7. Above[m] \subseteq 1 .. m
  BY <1>4, <1>5, <1>6 DEF Slaves
<1> QED
  BY <1>7

\* What is above a slave above s is above s.
LEMMA AboveIsTransitive ==
  ASSUME BusShape, NEW s \in 0 .. N, NEW a \in Above[s]
  PROVE  Above[a] \subseteq Above[s]
<1> DEFINE U == {m \in 0 .. N : a \in Above[m] /\ ~ (Above[a] \subseteq Above[m])}
<1>0. N \in Nat \ {0} /\ \A t \in Slaves : up[t] \in 0 .. t - 1
  BY UpIsBefore
<1> SUFFICES ASSUME U # {} PROVE FALSE
  OBVIOUS
<1>1. U \in SUBSET Nat
  OBVIOUS
<1>2. PICK m \in U : \A k \in U : m <= k
  <2> HIDE DEF U
  <2> QED BY <1>1, LeastOf
<1>3. m # 0
  BY AboveExists
<1>4. m \in Slaves /\ up[m] \in 0 .. m - 1
  BY <1>0, <1>3 DEF Slaves
<1>5. Above[m] = {m} \cup Above[up[m]]
  BY <1>4, AboveExists
<1>6. a # m
  OBVIOUS
<1>7. a \in Above[up[m]]
  BY <1>5, <1>6
<1>8. up[m] \in 0 .. N /\ ~ (m <= up[m])
  BY <1>0, <1>4 DEF Slaves
<1>9. up[m] \notin U
  BY <1>2, <1>8
<1>10. Above[a] \subseteq Above[up[m]]
  BY <1>7, <1>8, <1>9
<1> QED
  BY <1>5, <1>10

\* What is above a slave further on and comes before s is above s.
LEMMA AboveBoth ==
  ASSUME BusShape, NEW s \in Slaves, NEW d \in s .. N, NEW a \in Above[d], a < s
  PROVE  a \in Above[up[s]]
<1> DEFINE U == {m \in s .. N : a \in Above[m] /\ a \notin Above[up[s]]}
<1>0. /\ N \in Nat \ {0} /\ \A t \in Slaves : up[t] \in 0 .. t - 1
      /\ s \in 1 .. N
  BY UpIsBefore DEF Slaves
<1> SUFFICES ASSUME U # {} PROVE FALSE
  OBVIOUS
<1>1. U \in SUBSET Nat
  BY <1>0
<1>2. PICK m \in U : \A k \in U : m <= k
  <2> HIDE DEF U
  <2> QED BY <1>1, LeastOf
<1>4. m \in Slaves /\ up[m] \in 0 .. m - 1 /\ m \in s .. N
  BY <1>0 DEF Slaves
<1>5. Above[m] = {m} \cup Above[up[m]]
  BY <1>4, AboveExists
<1>6. a # m
  BY <1>0, <1>4
<1>7. a \in Above[up[m]]
  BY <1>5, <1>6
<1>8. m # s
  BY <1>7
<1>9. m \in 2 .. N /\ m - 1 \in s .. N /\ m - 1 \in 0 .. N
  BY <1>0, <1>4, <1>8
<1>10. up[m] \in Above[m - 1]
  BY <1>9 DEF BusShape, Numbered
<1>11. a \in Above[m - 1]
  BY <1>7, <1>9, <1>10, AboveIsTransitive
<1>12. m - 1 \in U
  BY <1>9, <1>11
<1> QED
  BY <1>2, <1>9, <1>12

\* Links do not cross: between a slave and its parent there is only what the
\* parent has under it, and nothing further on is linked to it.
LEMMA LinksNest ==
  ASSUME BusShape, NEW s \in 2 .. N
  PROVE  /\ \A t \in up[s] + 1 .. s : up[t] >= up[s]
         /\ \A c \in s .. N : up[c] <= up[s] \/ up[c] >= s
<1>0. /\ N \in Nat \ {0} /\ \A t \in Slaves : up[t] \in 0 .. t - 1
      /\ s \in Slaves /\ up[s] \in 1 .. s - 1 /\ up[s] \in Above[s - 1]
  BY UpIsBefore DEF Slaves, BusShape, Numbered
<1>1. ASSUME NEW t \in up[s] + 1 .. s
      PROVE  up[t] >= up[s]
  <2>1. CASE t = s
    BY <1>0, <2>1
  <2>2. CASE t # s
    <3>1. t \in Slaves /\ s - 1 \in t .. N /\ up[s] < t /\ up[t] \in 0 .. N
      BY <1>0, <2>2 DEF Slaves
    <3>2. up[s] \in Above[up[t]]
      BY <1>0, <3>1, AboveBoth
    <3>3. Above[up[t]] \subseteq 1 .. up[t]
      BY <3>1, AboveIsBefore
    <3> QED BY <1>0, <3>1, <3>2, <3>3
  <2> QED BY <2>1, <2>2
<1>2. ASSUME NEW c \in s .. N
      PROVE  up[c] <= up[s] \/ up[c] >= s
  <2> SUFFICES ASSUME up[c] < s PROVE up[c] <= up[s]
    <3>1. c \in Slaves
      BY <1>0 DEF Slaves
    <3> QED BY <1>0, <3>1
  <2>1. c \in Slaves /\ c \in 0 .. N
    BY <1>0 DEF Slaves
  <2>2. CASE up[c] = 0
    BY <1>0, <2>2
  <2>3. CASE up[c] # 0
    <3>1. up[c] \in Slaves /\ up[c] \in 0 .. N
      BY <1>0, <2>1, <2>3 DEF Slaves
    <3>2. up[c] \in Above[up[c]] /\ Above[up[c]] \subseteq Above[c]
      BY <2>1, <3>1, AboveExists
    <3>3. up[c] \in Above[up[s]]
      BY <1>0, <3>2, AboveBoth
    <3>4. Above[up[s]] \subseteq 1 .. up[s]
      <4>1. up[s] \in 0 .. N
        BY <1>0 DEF Slaves
      <4> QED BY <4>1, AboveIsBefore
    <3> QED BY <1>0, <3>3, <3>4
  <2> QED BY <2>2, <2>3
<1> QED BY <1>1, <1>2

----------------------------------------------------------------------------
(* The links of a slave and the search for its parent.                      *)

\* The ports of a slave that have a link.
Links(s) == {0} \cup {port[c] : c \in Children(s)}

\* Each slave linked to s is at a port of its own, and port 0 is the way back.
LEMMA LinkCount ==
  ASSUME BusShape, NEW s \in Slaves
  PROVE  /\ IsFiniteSet(Children(s)) /\ Cardinality(Children(s)) \in Nat
         /\ Cardinality(Links(s)) = 1 + Cardinality(Children(s))
<1> DEFINE C == Children(s)
           P == {port[c] : c \in C}
<1>0. /\ N \in Nat \ {0} /\ \A t \in Slaves : up[t] \in 0 .. t - 1
      /\ s \in 1 .. N /\ Slaves = 1 .. N
  BY UpIsBefore DEF Slaves
<1>1. IsFiniteSet(Slaves)
  BY <1>0, FS_Interval
<1>2. IsFiniteSet(C) /\ Cardinality(C) \in Nat
  <2>1. C \in SUBSET Slaves
    BY DEF Children
  <2> HIDE DEF C
  <2>2. IsFiniteSet(C)
    BY <1>1, <2>1, FS_Subset
  <2> QED BY <2>2, FS_CardinalityType
<1>3. \A c, d \in C : port[c] = port[d] => c = d
  <2> SUFFICES ASSUME NEW c \in C, NEW d \in C, port[c] = port[d], c # d
               PROVE  FALSE
    OBVIOUS
  <2>1. c \in 2 .. N /\ d \in 2 .. N /\ up[c] = up[d]
    BY <1>0, SMTT(30) DEF Children
  <2>2. (c < d => Place(port[c]) < Place(port[d])) /\ (d < c => Place(port[d]) < Place(port[c]))
    BY <2>1 DEF BusShape, Numbered
  <2>3. Place(port[c]) = Place(port[d])
    OBVIOUS
  <2>4. Place(port[c]) \in Nat
    <3>1. port[c] \in 1 .. 3
      BY <1>0, <2>1 DEF BusShape
    <3>2. \E k \in DOMAIN Order : Order[k] = port[c]
      <4>1. DOMAIN Order = 1 .. 4 /\ Order[2] = 3 /\ Order[3] = 1 /\ Order[4] = 2
        BY DEF Order
      <4> QED BY <3>1, <4>1
    <3>3. DOMAIN Order \subseteq Nat
      BY DEF Order
    <3> QED BY <3>2, <3>3 DEF Place
  <2> QED BY <1>0, <2>1, <2>2, <2>3, <2>4
<1>4. ExistsBijection(C, P)
  <2> DEFINE f == [c \in C |-> port[c]]
  <2>1. f \in [C -> P] /\ (\A a, b \in C : f[a] = f[b] => a = b) /\ (\A p \in P : \E c \in C : f[c] = p)
    BY <1>3
  <2> HIDE DEF f, C, P
  <2>2. f \in Bijection(C, P)
    BY <2>1 DEF Bijection, Injection, Surjection, IsInjective
  <2> QED BY <2>2 DEF ExistsBijection
<1>5. IsFiniteSet(P) /\ Cardinality(P) = Cardinality(C)
  <2> HIDE DEF C, P
  <2> QED BY <1>2, <1>4, FS_Bijection
<1>6. 0 \notin P
  <2>1. \A c \in C : port[c] # 0
    <3> TAKE c \in C
    <3>1. c \in Slaves
      BY DEF Children
    <3>2. port[c] \in 1 .. 3
      BY <3>1 DEF BusShape
    <3> QED BY <3>2
  <2> QED BY <2>1
<1>7. Cardinality(P \cup {0}) = Cardinality(P) + 1
  <2> HIDE DEF P
  <2> QED BY <1>5, <1>6, FS_AddElement
<1>8. Links(s) = P \cup {0}
  BY DEF Links
<1> QED
  BY <1>2, <1>5, <1>7, <1>8

\* topoc by its recursion.
LEMMA BalanceExists ==
  ASSUME NEW s \in Nat \ {0}, \A t \in 1 .. s - 1 : Topology(t) \in Int
  PROVE  /\ Balance(s) \in [0 .. s - 1 -> Int] /\ Balance(s)[0] = 0
         /\ \A n \in 1 .. s - 1 : Balance(s)[n] = Balance(s)[n - 1] + Topology(s - n) - 2
<1> DEFINE Good(m, f) == /\ f \in [0 .. m -> Int]
                         /\ \A n \in 0 .. m : f[n] = IF n = 0 THEN 0 ELSE f[n - 1] + Topology(s - n) - 2
           T == {m \in Nat : m <= s - 1 => \E f : Good(m, f)}
<1>1. 0 \in T
  <2>1. Good(0, [k \in 0 .. 0 |-> 0])
    OBVIOUS
  <2> QED BY <2>1
<1>2. ASSUME NEW m \in Nat, m \in T
      PROVE  m + 1 \in T
  <2> SUFFICES ASSUME m + 1 <= s - 1
               PROVE  \E f : Good(m + 1, f)
    <3> HIDE DEF Good
    <3> QED OBVIOUS
  <2>1. PICK f : Good(m, f)
    <3>1. m <= s - 1
      OBVIOUS
    <3> HIDE DEF Good
    <3> QED BY <1>2, <3>1, Zenon
  <2> DEFINE v == f[m] + Topology(s - (m + 1)) - 2
             g == [k \in 0 .. m + 1 |-> IF k = m + 1 THEN v ELSE f[k]]
  <2>2. v \in Int
    <3>1. s - (m + 1) \in 1 .. s - 1
      OBVIOUS
    <3>2. Topology(s - (m + 1)) \in Int
      BY <3>1
    <3>3. f[m] \in Int
      BY <2>1
    <3> QED BY <3>2, <3>3
  <2>3. g \in [0 .. m + 1 -> Int]
    BY <2>1, <2>2
  <2>4. ASSUME NEW n \in 0 .. m + 1
        PROVE  g[n] = IF n = 0 THEN 0 ELSE g[n - 1] + Topology(s - n) - 2
    <3>1. CASE n = m + 1
      <4>1. g[n] = v /\ g[n - 1] = f[m] /\ n # 0
        BY <3>1
      <4> QED BY <3>1, <4>1
    <3>2. CASE n \in 0 .. m
      <4>1. g[n] = f[n] /\ (n # 0 => g[n - 1] = f[n - 1])
        BY <3>2
      <4>2. f[n] = IF n = 0 THEN 0 ELSE f[n - 1] + Topology(s - n) - 2
        BY <2>1, <3>2
      <4> HIDE DEF g
      <4> QED BY <4>1, <4>2
    <3> QED BY <3>1, <3>2
  <2>5. Good(m + 1, g)
    BY <2>3, <2>4
  <2> HIDE DEF g, Good
  <2> QED BY <2>5, Zenon
<1>3. s - 1 \in T
  <2>1. T \in SUBSET Nat /\ s - 1 \in Nat
    OBVIOUS
  <2> HIDE DEF T
  <2> QED BY <1>1, <1>2, <2>1, SetInduction
<1>4. PICK f : Good(s - 1, f)
  <2>1. s - 1 <= s - 1
    OBVIOUS
  <2> HIDE DEF Good
  <2> QED BY <1>3, <2>1, Zenon
<1> DEFINE Rec(h) == h = [n \in 0 .. s - 1 |-> IF n = 0 THEN 0 ELSE h[n - 1] + Topology(s - n) - 2]
<1>5. Rec(f)
  BY <1>4
<1>6. Balance(s) = CHOOSE h : Rec(h)
  BY DEF Balance
<1>7. Rec(Balance(s))
  <2> HIDE DEF Rec
  <2> QED BY <1>5, <1>6
<1> DEFINE b == Balance(s)
<1>8. b = [n \in 0 .. s - 1 |-> IF n = 0 THEN 0 ELSE b[n - 1] + Topology(s - n) - 2]
  BY <1>7
<1> HIDE DEF b
<1>9. b[0] = 0 /\ DOMAIN b = 0 .. s - 1 /\ \A n \in 1 .. s - 1 : b[n] = b[n - 1] + Topology(s - n) - 2
  BY <1>8
<1>10. b \in [0 .. s - 1 -> Int]
  <2> DEFINE R == {m \in Nat : m <= s - 1 => b[m] \in Int}
  <2>1. 0 \in R
    BY <1>9
  <2>2. ASSUME NEW m \in Nat, m \in R
        PROVE  m + 1 \in R
    <3> SUFFICES ASSUME m + 1 <= s - 1
                 PROVE  b[m + 1] \in Int
      OBVIOUS
    <3>1. m + 1 \in 1 .. s - 1 /\ b[m] \in Int /\ s - (m + 1) \in 1 .. s - 1
      BY <2>2
    <3>2. Topology(s - (m + 1)) \in Int
      BY <3>1
    <3>3. b[m + 1] = b[(m + 1) - 1] + Topology(s - (m + 1)) - 2
      BY <1>9, <3>1
    <3>4. (m + 1) - 1 = m
      OBVIOUS
    <3> QED BY <3>1, <3>2, <3>3, <3>4
  <2>3. R = Nat
    <3>1. R \in SUBSET Nat
      OBVIOUS
    <3> HIDE DEF R
    <3> QED BY <2>1, <2>2, <3>1, SetInduction
  <2>4. \A n \in 0 .. s - 1 : b[n] \in Int
    BY <2>3
  <2>5. b = [n \in 0 .. s - 1 |-> b[n]]
    BY <1>8, <1>9
  <2> QED BY <2>4, <2>5
<1> QED
  BY <1>9, <1>10 DEF b

\* The slaves that are linked to one between k and s.
Under(k, s) == {c \in Slaves : up[c] \in k .. s - 1}

\* topoc counts them against the slaves that were passed.
LEMMA BalanceCounts ==
  ASSUME BusShape, NEW s \in Slaves, \A t \in 1 .. s - 1 : activeports[t] = Links(t)
  PROVE  \A n \in 0 .. s - 1 : /\ IsFiniteSet(Under(s - n, s)) /\ Cardinality(Under(s - n, s)) \in Nat
                               /\ Balance(s)[n] = Cardinality(Under(s - n, s)) - n
<1>0. N \in Nat \ {0} /\ s \in 1 .. N /\ Slaves = 1 .. N /\ \A t \in Slaves : up[t] \in 0 .. t - 1
  BY UpIsBefore DEF Slaves
<1>1. \A t \in 1 .. s - 1 : /\ IsFiniteSet(Children(t)) /\ Cardinality(Children(t)) \in Nat
                            /\ Topology(t) = 1 + Cardinality(Children(t))
  <2> TAKE t \in 1 .. s - 1
  <2>1. t \in Slaves /\ activeports[t] = Links(t)
    BY <1>0
  <2> QED BY <2>1, LinkCount DEF Topology
<1>2. /\ Balance(s) \in [0 .. s - 1 -> Int] /\ Balance(s)[0] = 0
      /\ \A n \in 1 .. s - 1 : Balance(s)[n] = Balance(s)[n - 1] + Topology(s - n) - 2
  <2>1. \A t \in 1 .. s - 1 : Topology(t) \in Int
    BY <1>1
  <2>2. s \in Nat \ {0}
    BY <1>0
  <2> QED BY <2>1, <2>2, BalanceExists
<1>3. ASSUME NEW n \in Nat
      PROVE  IsFiniteSet(Under(s - n, s)) /\ Cardinality(Under(s - n, s)) \in Nat
  <2>1. IsFiniteSet(Slaves) /\ Under(s - n, s) \in SUBSET Slaves
    BY <1>0, FS_Interval DEF Under
  <2>2. IsFiniteSet(Under(s - n, s))
    BY <2>1, FS_Subset
  <2> QED BY <2>2, FS_CardinalityType
<1> DEFINE T == {n \in Nat : n <= s - 1 => Balance(s)[n] = Cardinality(Under(s - n, s)) - n}
<1>4. 0 \in T
  <2>1. Under(s - 0, s) = {}
    BY <1>0 DEF Under
  <2>2. Cardinality(Under(s - 0, s)) = 0
    BY <2>1, FS_EmptySet
  <2> QED BY <1>2, <2>2
<1>5. ASSUME NEW n \in Nat, n \in T
      PROVE  n + 1 \in T
  <2> SUFFICES ASSUME n + 1 <= s - 1
               PROVE  Balance(s)[n + 1] = Cardinality(Under(s - (n + 1), s)) - (n + 1)
    OBVIOUS
  <2> DEFINE t == s - (n + 1)
             A == Under(s - n, s)
             C == Children(t)
  <2>1. t \in 1 .. s - 1 /\ n + 1 \in 1 .. s - 1 /\ (n + 1) - 1 = n /\ n <= s - 1
    BY <1>0
  <2>2. Under(t, s) = A \cup C /\ A \cap C = {}
    BY <1>0, <2>1, SMTT(30) DEF Under, Children
  <2>3. IsFiniteSet(A) /\ Cardinality(A) \in Nat
    BY <1>3
  <2>4. IsFiniteSet(C) /\ Cardinality(C) \in Nat /\ Topology(t) = 1 + Cardinality(C)
    BY <1>1, <2>1
  <2>5. Balance(s)[n] = Cardinality(A) - n
    BY <1>5, <2>1
  <2>6. Balance(s)[n + 1] = Balance(s)[n] + Topology(t) - 2
    BY <1>2, <2>1
  <2> HIDE DEF A, C, t
  <2>7. Cardinality(A \cup C) = Cardinality(A) + Cardinality(C) - Cardinality(A \cap C)
    BY <2>3, <2>4, FS_Union
  <2>8. Cardinality(A \cap C) = 0
    BY <2>2, FS_EmptySet
  <2>9. Balance(s)[n + 1] = Cardinality(Under(t, s)) - (n + 1)
    BY <2>2, <2>3, <2>4, <2>5, <2>6, <2>7, <2>8
  <2> QED BY <2>9 DEF t
<1>6. T = Nat
  <2>1. T \in SUBSET Nat
    OBVIOUS
  <2> HIDE DEF T
  <2> QED BY <1>4, <1>5, <2>1, SetInduction
<1>7. ASSUME NEW n \in 0 .. s - 1
      PROVE  /\ IsFiniteSet(Under(s - n, s)) /\ Cardinality(Under(s - n, s)) \in Nat
             /\ Balance(s)[n] = Cardinality(Under(s - n, s)) - n
  <2>1. n \in Nat /\ n \in T /\ n <= s - 1
    BY <1>0, <1>6, SMTT(30)
  <2> QED BY <1>3, <2>1
<1> QED
  BY <1>7

\* At the parent of s there is one more link than slaves passed to take it, and
\* before it not enough.
LEMMA ParentIsFound ==
  ASSUME BusShape, NEW s \in Slaves, \A t \in 1 .. s - 1 : activeports[t] = Links(t)
  PROVE  ParentOf(s) = up[s]
<1>0. /\ N \in Nat \ {0} /\ s \in 1 .. N /\ Slaves = 1 .. N /\ \A t \in Slaves : up[t] \in 0 .. t - 1
      /\ (s > 1 => up[s] >= 1)
  BY UpIsBefore DEF Slaves
<1>1. CASE s = 1
  BY <1>0, <1>1 DEF ParentOf
<1>2. CASE s # 1
  <2> DEFINE k == up[s]
             K == {1} \cup {j \in 1 .. s - 1 : Balance(s)[s - j] >= 0 /\ Topology(j) > 1}
  <2>1. k \in 1 .. s - 1 /\ s \in 2 .. N
    BY <1>0, <1>2
  <2>2. ParentOf(s) = Max(K)
    BY <1>2 DEF ParentOf
  <2>3. ASSUME NEW j \in 1 .. s - 1
        PROVE  /\ IsFiniteSet(Under(j, s)) /\ Cardinality(Under(j, s)) \in Nat
               /\ Balance(s)[s - j] = Cardinality(Under(j, s)) - (s - j)
    <3>1. s - j \in 0 .. s - 1 /\ s - (s - j) = j
      BY <1>0
    <3> QED BY <3>1, BalanceCounts
  <2>4. k \in K
    <3>1. k + 1 .. s \subseteq Under(k, s)
      <4> SUFFICES ASSUME NEW t \in k + 1 .. s
                   PROVE  t \in Under(k, s)
        OBVIOUS
      <4>1. t \in Slaves /\ up[t] >= k /\ up[t] \in 0 .. t - 1
        BY <1>0, <2>1, LinksNest
      <4> QED BY <1>0, <2>1, <4>1 DEF Under
    <3>2. Cardinality(k + 1 .. s) = s - k
      <4>1. k + 1 \in Int /\ s \in Int /\ ~ (k + 1 > s)
        BY <1>0, <2>1
      <4>2. Cardinality(k + 1 .. s) = s - (k + 1) + 1
        BY <4>1, FS_Interval
      <4> QED BY <1>0, <2>1, <4>2
    <3>3. Cardinality(k + 1 .. s) <= Cardinality(Under(k, s))
      BY <2>1, <2>3, <3>1, FS_Subset
    <3>4. Balance(s)[s - k] >= 0
      <4>1. Balance(s)[s - k] = Cardinality(Under(k, s)) - (s - k) /\ Cardinality(Under(k, s)) \in Nat
        BY <2>1, <2>3
      <4> HIDE DEF k
      <4> QED BY <1>0, <2>1, <3>2, <3>3, <4>1
    <3>5. Topology(k) > 1
      <4>1. k \in Slaves /\ s \in Children(k)
        BY <1>0, <2>1 DEF Children
      <4>2. IsFiniteSet(Children(k)) /\ Cardinality(Children(k)) \in Nat /\ Topology(k) = 1 + Cardinality(Children(k))
        BY <2>1, <4>1, LinkCount DEF Topology
      <4>3. Cardinality(Children(k)) # 0
        BY <4>1, <4>2, FS_EmptySet
      <4> QED BY <4>2, <4>3
    <3> QED BY <2>1, <3>4, <3>5
  <2>5. ASSUME NEW j \in K
        PROVE  j <= k
    <3> SUFFICES ASSUME j > k PROVE FALSE
      BY <1>0, <2>1
    <3>1. j \in 1 .. s - 1 /\ Balance(s)[s - j] >= 0
      BY <1>0, <2>1
    <3>2. Under(j, s) \subseteq j + 1 .. s - 1
      <4> SUFFICES ASSUME NEW c \in Under(j, s)
                   PROVE  c \in j + 1 .. s - 1
        OBVIOUS
      <4>1. c \in 1 .. N /\ up[c] \in 0 .. c - 1 /\ up[c] >= j /\ up[c] < s
        BY <1>0, <3>1, SMTT(30) DEF Under
      <4>2. ~ (c >= s)
        <5> SUFFICES ASSUME c >= s PROVE FALSE
          OBVIOUS
        <5>1. c \in s .. N
          BY <1>0, <4>1
        <5>2. up[c] <= k \/ up[c] >= s
          BY <2>1, <5>1, LinksNest
        <5>3. j \in Int /\ k \in Int /\ s \in Int
          BY <1>0, <2>1, <3>1, SMTT(30)
        <5> HIDE DEF K, k
        <5>4. up[c] <= k
          BY <4>1, <5>2, <5>3, SMTT(30)
        <5> QED BY <4>1, <5>3, <5>4, SMTT(30)
      <4> QED BY <1>0, <3>1, <4>1, <4>2
    <3>3. IsFiniteSet(j + 1 .. s - 1) /\ Cardinality(j + 1 .. s - 1) <= s - 1 - j
      <4>1. j + 1 \in Int /\ s - 1 \in Int
        BY <1>0, <3>1
      <4>2. Cardinality(j + 1 .. s - 1) = IF j + 1 > s - 1 THEN 0 ELSE s - 1 - (j + 1) + 1
        BY <4>1, FS_Interval
      <4>3. IsFiniteSet(j + 1 .. s - 1)
        BY <4>1, FS_Interval
      <4>4. j \in Int /\ s \in Int /\ j <= s - 1
        BY <1>0, <3>1
      <4> HIDE DEF K, k
      <4> QED BY <4>2, <4>3, <4>4
    <3>4. Cardinality(Under(j, s)) <= Cardinality(j + 1 .. s - 1) /\ Cardinality(j + 1 .. s - 1) \in Nat
      BY <3>2, <3>3, FS_Subset, FS_CardinalityType
    <3>5. Balance(s)[s - j] = Cardinality(Under(j, s)) - (s - j) /\ Cardinality(Under(j, s)) \in Nat
      BY <2>3, <3>1
    <3> HIDE DEF K, k
    <3> QED BY <1>0, <3>1, <3>3, <3>4, <3>5, SMTT(30)
  <2>6. Max(K) = k
    <3>1. \A j \in K : j \in Int
      BY <1>0
    <3> HIDE DEF K, k
    <3>2. \E x \in K : \A y \in K : x >= y
      BY <2>4, <2>5, <3>1
    <3>3. Max(K) \in K /\ \A y \in K : Max(K) >= y
      BY <3>2 DEF Max
    <3>4. Max(K) <= k /\ Max(K) >= k
      BY <2>4, <2>5, <3>3
    <3> QED BY <2>4, <3>1, <3>3, <3>4
  <2> QED BY <2>2, <2>6
<1> QED
  BY <1>1, <1>2

----------------------------------------------------------------------------
(* The parents, on every bus.                                               *)

\* What config_init has found of the slaves before the one it is at.
LinksFound == \A t \in 1 .. slave - 1 : activeports[t] = Links(t) /\ parent[t] = up[t]

TopologyInv ==
  /\ BusShape
  /\ activeports \in [Slaves -> SUBSET Ports] /\ parent \in [Slaves -> 0 .. N - 1]
  /\ slave \in 1 .. N + 1
  /\ at = "init" => LinksFound
  /\ at # "init" => parent = up /\ \A t \in Slaves : activeports[t] = Links(t)

\* The invariant of the parent search holds at first ...
LEMMA TopologyStarts == BusInit => TopologyInv
<1> SUFFICES ASSUME BusInit PROVE TopologyInv
  OBVIOUS
<1>1. N \in Nat \ {0}
  BY ClocksAssumption DEF ClocksAssumption
<1>2. BusShape
  BY DEF BusInit, BusShape
<1>3. activeports \in [Slaves -> SUBSET Ports] /\ parent \in [Slaves -> 0 .. N - 1]
  BY <1>1 DEF BusInit
<1>4. slave = 1 /\ at = "init"
  BY DEF BusInit
<1>5. LinksFound
  BY <1>4 DEF LinksFound
<1> QED BY <1>1, <1>2, <1>3, <1>4, <1>5 DEF TopologyInv

\* ... and is kept: the search of ecx_config_init() finds the parent of the slave it is at.
LEMMA TopologyKept ==
  ASSUME TopologyInv, [BusNext]_busVars
  PROVE  TopologyInv'
<1>0. /\ N \in Nat \ {0} /\ Slaves = 1 .. N /\ BusShape
      /\ activeports \in [Slaves -> SUBSET Ports] /\ parent \in [Slaves -> 0 .. N - 1]
      /\ slave \in 1 .. N + 1
  BY ClocksAssumption DEF ClocksAssumption, TopologyInv, Slaves
<1>1. UNCHANGED bus
  BY DEF BusNext, FindParent, AllFound, WithClock, WithoutClock, Configured, busVars
<1>2. UNCHANGED <<up, port>>
  BY <1>1 DEF bus
<1>3. BusShape' /\ \A t : Links(t)' = Links(t)
  <2>1. BusShape'
    <3>1. Above' = Above
      BY <1>2 DEF Above
    <3>2. Numbered' = Numbered
      BY <1>2, <3>1 DEF Numbered
    <3> QED BY <1>0, <1>2, <3>2 DEF BusShape
  <2>2. \A t : Links(t)' = Links(t)
    BY <1>2 DEF Links, Children
  <2> QED BY <2>1, <2>2
<1>4. CASE FindParent
  <2>1. /\ at = "init" /\ slave \in Slaves /\ at' = at /\ slave' = slave + 1
        /\ activeports' = [activeports EXCEPT ![slave] = Links(slave)]
        /\ parent' = [parent EXCEPT ![slave] = ParentOf(slave)]
    BY <1>0, <1>4 DEF FindParent, Links
  <2>2. LinksFound
    BY <2>1 DEF TopologyInv
  <2>3. ParentOf(slave) = up[slave]
    <3>1. \A t \in 1 .. slave - 1 : activeports[t] = Links(t)
      BY <2>2 DEF LinksFound
    <3> QED BY <1>0, <2>1, <3>1, ParentIsFound
  <2>4. Links(slave) \in SUBSET Ports /\ up[slave] \in 0 .. N - 1
    BY <1>0, <2>1 DEF Links, Children, BusShape, Ports
  <2>5. LinksFound'
    <3> SUFFICES ASSUME NEW t \in 1 .. slave' - 1
                 PROVE  activeports'[t] = Links(t) /\ parent'[t] = up[t]
      BY <1>2, <1>3 DEF LinksFound
    <3>1. CASE t = slave
      BY <1>0, <2>1, <2>3, <3>1
    <3>2. CASE t # slave
      <4>1. t \in 1 .. slave - 1 /\ t \in Slaves
        BY <1>0, <2>1, <3>2
      <4> QED BY <1>0, <2>1, <2>2, <3>2, <4>1 DEF LinksFound
    <3> QED BY <3>1, <3>2
  <2>6. /\ activeports' \in [Slaves -> SUBSET Ports] /\ parent' \in [Slaves -> 0 .. N - 1]
        /\ slave' \in 1 .. N + 1
    BY <1>0, <2>1, <2>3, <2>4
  <2> QED BY <1>3, <2>1, <2>5, <2>6 DEF TopologyInv
<1>5. CASE AllFound
  <2>1. at = "init" /\ slave = N + 1 /\ at' = "dc" /\ slave' = 1 /\ UNCHANGED <<activeports, parent>>
    BY <1>5 DEF AllFound, found
  <2>2. \A t \in Slaves : activeports[t] = Links(t) /\ parent[t] = up[t]
    BY <1>0, <2>1 DEF TopologyInv, LinksFound
  <2>3. parent = up
    BY <1>0, <2>2 DEF BusShape
  <2> QED BY <1>0, <1>2, <1>3, <2>1, <2>2, <2>3 DEF TopologyInv
<1>6. CASE WithClock \/ WithoutClock \/ Configured
  <2>1. at # "init" /\ at' # "init" /\ slave' \in 1 .. N + 1 /\ UNCHANGED <<activeports, parent>>
    BY <1>0, <1>6, SMTT(30) DEF WithClock, WithoutClock, Configured, found
  <2> QED BY <1>0, <1>2, <1>3, <2>1 DEF TopologyInv
<1>7. CASE UNCHANGED busVars
  <2>1. UNCHANGED <<at, slave, activeports, parent>>
    BY <1>7 DEF busVars, found
  <2> QED BY <1>0, <1>2, <1>3, <2>1 DEF TopologyInv, LinksFound
<1> QED BY <1>4, <1>5, <1>6, <1>7 DEF BusNext

\* However slaves are linked, going back from each and counting links gives
\* the one it is linked to.
THEOREM ParentsAreFound == BusSpec => []ParentIsUp
<1>1. TopologyInv => ParentIsUp
  BY DEF TopologyInv, ParentIsUp
<1> QED
  BY <1>1, TopologyStarts, TopologyKept, PTL DEF BusSpec

----------------------------------------------------------------------------
(* The clocks above a slave.                                                *)

\* What configdc starts from, with parents as they are.
Clocking == /\ BusShape /\ parent = up
            /\ hasdc \in [Slaves -> BOOLEAN] /\ delay \in [Slaves -> Nat] /\ clock \in [Slaves -> Int]

\* What is found by going up from a slave until one where the search stops.
LEMMA GoingUp ==
  ASSUME BusShape, NEW Stop \in SUBSET (0 .. N), 0 \in Stop
  PROVE  \E f \in [0 .. N -> 0 .. N] : \A s \in 0 .. N : f[s] = IF s \in Stop THEN s ELSE f[up[s]]
<1> DEFINE Good(m, f) == /\ f \in [0 .. m -> 0 .. N]
                         /\ \A s \in 0 .. m : f[s] = IF s \in Stop THEN s ELSE f[up[s]]
           T == {m \in Nat : m <= N => \E f : Good(m, f)}
<1>0. N \in Nat \ {0} /\ \A s \in Slaves : up[s] \in 0 .. s - 1
  BY UpIsBefore
<1>1. 0 \in T
  <2>1. Good(0, [k \in 0 .. 0 |-> 0])
    BY <1>0
  <2> QED BY <2>1
<1>2. ASSUME NEW m \in Nat, m \in T
      PROVE  m + 1 \in T
  <2> SUFFICES ASSUME m + 1 <= N
               PROVE  \E f : Good(m + 1, f)
    <3> HIDE DEF Good
    <3> QED OBVIOUS
  <2>1. PICK f : Good(m, f)
    <3>1. m <= N
      BY <1>0
    <3> HIDE DEF Good
    <3> QED BY <1>2, <3>1, Zenon
  <2> DEFINE v == IF m + 1 \in Stop THEN m + 1 ELSE f[up[m + 1]]
             g == [k \in 0 .. m + 1 |-> IF k = m + 1 THEN v ELSE f[k]]
  <2>2. m + 1 \in Slaves /\ up[m + 1] \in 0 .. m
    BY <1>0 DEF Slaves
  <2>3. v \in 0 .. N
    BY <1>0, <2>1, <2>2
  <2>4. g \in [0 .. m + 1 -> 0 .. N]
    BY <2>1, <2>3
  <2>5. ASSUME NEW s \in 0 .. m + 1
        PROVE  g[s] = IF s \in Stop THEN s ELSE g[up[s]]
    <3>1. CASE s = m + 1
      <4>1. g[s] = v /\ g[up[s]] = f[up[s]]
        BY <2>2, <3>1
      <4> QED BY <3>1, <4>1
    <3>2. CASE s \in 1 .. m
      <4>1. s \in Slaves /\ up[s] \in 0 .. s - 1
        BY <1>0, <3>2 DEF Slaves
      <4>2. g[s] = f[s] /\ g[up[s]] = f[up[s]]
        BY <3>2, <4>1
      <4>3. f[s] = IF s \in Stop THEN s ELSE f[up[s]]
        BY <2>1, <3>2
      <4> HIDE DEF g
      <4> QED BY <4>2, <4>3
    <3>3. CASE s = 0
      <4>1. g[0] = f[0] /\ f[0] = 0
        BY <2>1
      <4> HIDE DEF g
      <4> QED BY <3>3, <4>1
    <3> QED BY <3>1, <3>2, <3>3
  <2>6. Good(m + 1, g)
    BY <2>4, <2>5
  <2> HIDE DEF g, Good
  <2> QED BY <2>6, Zenon
<1>3. N \in T
  <2>1. T \in SUBSET Nat
    OBVIOUS
  <2> HIDE DEF T
  <2> QED BY <1>0, <1>1, <1>2, <2>1, SetInduction
<1>4. PICK f : Good(N, f)
  <2>1. N <= N
    BY <1>0
  <2> HIDE DEF Good
  <2> QED BY <1>3, <2>1, Zenon
<1> QED
  BY <1>4

\* The searches of configdc, by their recursions.
LEMMA DCParentIs ==
  ASSUME Clocking
  PROVE  /\ DCParent[0] = 0
         /\ \A s \in Slaves : DCParent[s] = IF hasdc[s] THEN s ELSE DCParent[up[s]]
<1> DEFINE Stop == {s \in 0 .. N : s = 0 \/ hasdc[s]}
           Rec(h) == h = [s \in 0 .. N |-> IF s = 0 \/ hasdc[s] THEN s ELSE h[up[s]]]
<1>0. BusShape /\ N \in Nat \ {0} /\ Slaves = 1 .. N /\ parent = up
  BY UpIsBefore DEF Clocking, Slaves
<1>1. PICK f \in [0 .. N -> 0 .. N] : \A s \in 0 .. N : f[s] = IF s \in Stop THEN s ELSE f[up[s]]
  <2>1. Stop \in SUBSET (0 .. N) /\ 0 \in Stop
    BY <1>0
  <2> HIDE DEF Stop
  <2> QED BY <1>0, <2>1, GoingUp
<1>2. \A s \in 0 .. N : s \in Stop <=> s = 0 \/ hasdc[s]
  OBVIOUS
<1>3. Rec(f)
  <2> HIDE DEF Stop
  <2>1. \A s \in 0 .. N : f[s] = IF s = 0 \/ hasdc[s] THEN s ELSE f[up[s]]
    BY <1>1, <1>2
  <2> QED BY <1>1, <2>1
<1>4. DCParent = CHOOSE h : Rec(h)
  BY <1>0 DEF DCParent
<1>5. Rec(DCParent)
  <2> HIDE DEF Rec
  <2> QED BY <1>3, <1>4
<1>6. ASSUME NEW s \in 0 .. N
      PROVE  DCParent[s] = IF s = 0 \/ hasdc[s] THEN s ELSE DCParent[up[s]]
  BY <1>5, Zenon
<1> QED
  BY <1>0, <1>6, SMTT(30)

\* The slave in front of the clock (child of ecx_configdc()), by its recursion.
LEMMA ChildIs ==
  ASSUME Clocking
  PROVE  \A s \in Slaves : Child[s] = IF up[s] = 0 \/ hasdc[up[s]] THEN s ELSE Child[up[s]]
<1> DEFINE Stop == {s \in 0 .. N : s = 0 \/ up[s] = 0 \/ hasdc[up[s]]}
           Rec(h) == h = [s \in Slaves |-> IF up[s] = 0 \/ hasdc[up[s]] THEN s ELSE h[up[s]]]
<1>0. /\ BusShape /\ N \in Nat \ {0} /\ Slaves = 1 .. N /\ parent = up
      /\ \A s \in Slaves : up[s] \in 0 .. s - 1
  BY UpIsBefore DEF Clocking, Slaves
<1>1. PICK f \in [0 .. N -> 0 .. N] : \A s \in 0 .. N : f[s] = IF s \in Stop THEN s ELSE f[up[s]]
  <2>1. Stop \in SUBSET (0 .. N) /\ 0 \in Stop
    BY <1>0
  <2> HIDE DEF Stop
  <2> QED BY <1>0, <2>1, GoingUp
<1>2. \A s \in Slaves : s \in Stop <=> up[s] = 0 \/ hasdc[up[s]]
  BY <1>0, SMTT(30)
<1> DEFINE g == [s \in Slaves |-> f[s]]
<1>3. Rec(g)
  <2> HIDE DEF Stop
  <2>1. ASSUME NEW s \in Slaves
        PROVE  g[s] = IF up[s] = 0 \/ hasdc[up[s]] THEN s ELSE g[up[s]]
    <3>1. s \in 0 .. N /\ g[s] = f[s] /\ (up[s] # 0 => up[s] \in Slaves)
      <4>1. up[s] \in 0 .. s - 1 /\ s \in 1 .. N
        BY <1>0
      <4>2. g[s] = f[s]
        OBVIOUS
      <4>3. s \in 0 .. N /\ (up[s] # 0 => up[s] \in Slaves)
        <5>1. N \in Nat
          BY <1>0
        <5>2. s \in 0 .. N
          BY <4>1, <5>1
        <5>3. up[s] # 0 => up[s] \in 1 .. N
          <6> DEFINE u == up[s]
          <6>1. u \in 0 .. s - 1 /\ s \in 1 .. N /\ N \in Nat
            BY <4>1, <5>1
          <6> HIDE DEF u, g, Rec
          <6>2. u # 0 => u \in 1 .. N
            BY <6>1
          <6> QED BY <6>2 DEF u
        <5> QED BY <1>0, <5>2, <5>3
      <4> QED BY <4>2, <4>3
    <3>2. f[s] = IF s \in Stop THEN s ELSE f[up[s]]
      BY <1>1, <3>1
    <3>3. up[s] # 0 => g[up[s]] = f[up[s]]
      BY <3>1
    <3> HIDE DEF g
    <3> QED BY <1>2, <3>1, <3>2, <3>3
  <2> QED BY <2>1
<1>4. Child = CHOOSE h : Rec(h)
  BY <1>0 DEF Child
<1>5. Rec(Child)
  <2> HIDE DEF Rec, g
  <2> QED BY <1>3, <1>4
<1>6. ASSUME NEW s \in Slaves
      PROVE  Child[s] = IF up[s] = 0 \/ hasdc[up[s]] THEN s ELSE Child[up[s]]
  BY <1>5, Zenon
<1> QED
  BY <1>6

\* The search ends at the lowest clock on the way up.
LEMMA DCParentIsNearest ==
  ASSUME Clocking, NEW s \in 0 .. N
  PROVE  /\ DCParent[s] = 0 \/ (DCParent[s] \in Above[s] /\ hasdc[DCParent[s]])
         /\ \A a \in Above[s] : hasdc[a] => a <= DCParent[s]
<1> DEFINE Is(m) == /\ DCParent[m] = 0 \/ (DCParent[m] \in Above[m] /\ hasdc[DCParent[m]])
                    /\ \A a \in Above[m] : hasdc[a] => a <= DCParent[m]
           U == {m \in 0 .. N : ~ Is(m)}
<1>0. BusShape /\ N \in Nat \ {0} /\ Slaves = 1 .. N /\ \A t \in Slaves : up[t] \in 0 .. t - 1
  BY UpIsBefore DEF Clocking, Slaves
<1> SUFFICES ASSUME U # {} PROVE FALSE
  OBVIOUS
<1>1. U \in SUBSET Nat
  OBVIOUS
<1>2. PICK m \in U : \A k \in U : m <= k
  <2> HIDE DEF U
  <2> QED BY <1>1, LeastOf
<1>3. m # 0
  BY <1>0, AboveExists, DCParentIs
<1>4. m \in Slaves /\ up[m] \in 0 .. m - 1 /\ up[m] \in 0 .. N
  BY <1>0, <1>3
<1>5. Is(up[m])
  <2> HIDE DEF Is
  <2> QED BY <1>2, <1>4
<1>6. Above[m] = {m} \cup Above[up[m]] /\ Above[m] \subseteq 1 .. m
  BY <1>0, <1>4, AboveExists, AboveIsBefore
<1>7. DCParent[m] = IF hasdc[m] THEN m ELSE DCParent[up[m]]
  BY <1>4, DCParentIs
<1>8. Is(m)
  BY <1>4, <1>5, <1>6, <1>7
<1> QED
  <2> HIDE DEF Is
  <2> QED BY <1>8

\* For the parent of a slave that is the nearest clock above the slave.
LEMMA NearestIs ==
  ASSUME Clocking, NEW s \in Slaves
  PROVE  /\ DCParent[up[s]] = Nearest(s) /\ Nearest(s) \in 0 .. s - 1
         /\ Nearest(s) # 0 => Nearest(s) \in Above[up[s]] /\ hasdc[Nearest(s)]
         /\ \A a \in Above[up[s]] : hasdc[a] => a <= Nearest(s)
<1> DEFINE d == DCParent[up[s]]
           K == {a \in Above[s] \ {s} : hasdc[a]} \cup {0}
<1>0. BusShape /\ N \in Nat \ {0} /\ Slaves = 1 .. N /\ up[s] \in 0 .. s - 1 /\ up[s] \in 0 .. N /\ s \in 1 .. N
  BY UpIsBefore DEF Clocking, Slaves
<1>1. /\ d = 0 \/ (d \in Above[up[s]] /\ hasdc[d])
      /\ \A a \in Above[up[s]] : hasdc[a] => a <= d
  BY <1>0, DCParentIsNearest
<1>2. Above[s] = {s} \cup Above[up[s]] /\ Above[up[s]] \subseteq 1 .. up[s]
  BY <1>0, AboveExists, AboveIsBefore
<1>3. Above[s] \ {s} = Above[up[s]]
  BY <1>0, <1>2
<1>4. d \in K /\ d \in 0 .. s - 1 /\ \A a \in K : a \in Int /\ a <= d
  BY <1>0, <1>1, <1>2, <1>3
<1>5. Nearest(s) = Max(K)
  BY DEF Nearest
<1>6. Max(K) = d
  <2> HIDE DEF K, d
  <2>1. \E x \in K : \A y \in K : x >= y
    BY <1>4
  <2>2. Max(K) \in K /\ \A y \in K : Max(K) >= y
    BY <2>1 DEF Max
  <2>3. Max(K) <= d /\ Max(K) >= d /\ Max(K) \in Int
    BY <1>4, <2>2
  <2>4. d \in Int
    BY <1>0, <1>4
  <2> QED BY <2>3, <2>4
<1> QED
  BY <1>1, <1>4, <1>5, <1>6

\* A slave is reached by one branch of each slave above it.
LEMMA OneWay ==
  ASSUME BusShape, NEW s \in 0 .. N, NEW c \in Above[s], NEW d \in Above[s], up[c] = up[d]
  PROVE  c = d
<1>0. /\ N \in Nat \ {0} /\ Slaves = 1 .. N /\ \A t \in Slaves : up[t] \in 0 .. t - 1
      /\ Above[s] \subseteq 1 .. s
  BY UpIsBefore, AboveIsBefore DEF Slaves
<1>1. ASSUME NEW x \in Above[s], NEW y \in Above[s], up[x] = up[y], x < y
      PROVE  FALSE
  <2>1. x \in Slaves /\ y \in Slaves /\ s \in y .. N /\ up[x] \in 0 .. x - 1 /\ up[y] \in 0 .. N
    BY <1>0, SMTT(30)
  <2>2. x \in Above[up[y]]
    BY <1>1, <2>1, AboveBoth
  <2>3. x <= up[y]
    BY <2>1, <2>2, AboveIsBefore
  <2> QED BY <1>0, <1>1, <2>1, <2>3
<1>2. c \in Int /\ d \in Int
  BY <1>0
<1> QED
  BY <1>1, <1>2

\* The branch of the nearest clock.
LEMMA BranchIs ==
  ASSUME Clocking, NEW s \in Slaves
  PROVE  /\ Child[s] \in Above[s] /\ up[Child[s]] = Nearest(s) /\ Branch(s) = Child[s]
         /\ Child[s] \in 1 .. s
<1> DEFINE Is(m) == Child[m] \in Above[m] /\ up[Child[m]] = Nearest(m)
           U == {m \in Slaves : ~ Is(m)}
<1>0. BusShape /\ N \in Nat \ {0} /\ Slaves = 1 .. N /\ \A t \in Slaves : up[t] \in 0 .. t - 1
  BY UpIsBefore DEF Clocking, Slaves
<1>1. Is(s)
  <2> SUFFICES ASSUME U # {} PROVE FALSE
    OBVIOUS
  <2>1. U \in SUBSET Nat
    BY <1>0
  <2>2. PICK m \in U : \A k \in U : m <= k
    <3> HIDE DEF U
    <3> QED BY <2>1, LeastOf
  <2>3. /\ m \in Slaves /\ up[m] \in 0 .. m - 1 /\ Above[m] = {m} \cup Above[up[m]]
        /\ Child[m] = IF up[m] = 0 \/ hasdc[up[m]] THEN m ELSE Child[up[m]]
        /\ Nearest(m) = DCParent[up[m]] /\ (up[m] # 0 => up[m] \in Slaves)
    BY <1>0, AboveExists, ChildIs, NearestIs, SMTT(30)
  <2>4. CASE up[m] = 0
    <3>1. Nearest(m) = 0 /\ Child[m] = m
      BY <2>3, <2>4, DCParentIs
    <3> QED BY <2>3, <2>4, <3>1
  <2>5. CASE up[m] # 0 /\ hasdc[up[m]]
    <3>1. Nearest(m) = up[m] /\ Child[m] = m
      BY <2>3, <2>5, DCParentIs
    <3> QED BY <2>3, <3>1
  <2>6. CASE up[m] # 0 /\ ~ hasdc[up[m]]
    <3>1. Child[m] = Child[up[m]] /\ Nearest(m) = DCParent[up[up[m]]]
      BY <2>3, <2>6, DCParentIs
    <3>2. Nearest(up[m]) = DCParent[up[up[m]]]
      BY <2>3, <2>6, NearestIs
    <3>3. Is(up[m])
      <4>1. up[m] \in Slaves /\ ~ (m <= up[m])
        BY <1>0, <2>3, <2>6
      <4> HIDE DEF Is
      <4> QED BY <2>2, <4>1
    <3>4. Is(m)
      BY <2>3, <3>1, <3>2, <3>3
    <3> HIDE DEF Is
    <3> QED BY <3>4
  <2> QED BY <2>4, <2>5, <2>6
<1>2. s \in 0 .. N /\ Above[s] \subseteq 1 .. s
  BY <1>0, AboveIsBefore
<1>3. \A c \in Above[s] : up[c] = Nearest(s) => c = Child[s]
  BY <1>0, <1>1, <1>2, OneWay
<1>4. Branch(s) = Child[s]
  BY <1>1, <1>3 DEF Branch
<1> QED
  BY <1>1, <1>2, <1>4

\* The frame goes on to the first branch of a slave.
LEMMA FirstBranch ==
  ASSUME BusShape, NEW k \in Slaves, Children(k) # {}
  PROVE  k + 1 \in Children(k)
<1>0. N \in Nat \ {0} /\ Slaves = 1 .. N /\ \A t \in Slaves : up[t] \in 0 .. t - 1
  BY UpIsBefore DEF Slaves
<1>1. PICK c \in Slaves : up[c] = k
  BY DEF Children
<1>2. k + 1 \in Slaves /\ c \in k + 1 .. N /\ k \in 0 .. N /\ up[k + 1] \in 0 .. N
  BY <1>0, <1>1
<1>3. k \in Above[c]
  <2>1. k \in Above[k]
    BY AboveExists
  <2> QED BY <1>1, <2>1, AboveExists
<1>4. k \in Above[up[k + 1]]
  BY <1>0, <1>2, <1>3, AboveBoth
<1>5. k <= up[k + 1]
  BY <1>2, <1>4, AboveIsBefore
<1>6. up[k + 1] = k
  BY <1>0, <1>2, <1>5
<1> QED
  BY <1>2, <1>6 DEF Children

\* On a plain bus: slaves without a clock have one branch at most.
Straight == \A k \in Slaves : ~ hasdc[k] => \A c, d \in Children(k) : c = d

\* On a plain bus a slave without a clock has one branch at most.
LEMMA PlainIsStraight ==
  ASSUME BusShape, Plain
  PROVE  Straight
<1> SUFFICES ASSUME NEW k \in Slaves, ~ hasdc[k], NEW c \in Children(k), NEW d \in Children(k), c # d
             PROVE  FALSE
  BY DEF Straight
<1>1. IsFiniteSet(Children(k)) /\ Cardinality(Children(k)) <= 1 /\ Cardinality(Children(k)) \in Nat
  BY LinkCount DEF Plain
<1>2. IsFiniteSet({c}) /\ Cardinality({c}) = 1
  BY FS_Singleton
<1>3. {c} \in SUBSET Children(k)
  OBVIOUS
<1>4. Cardinality({c}) <= Cardinality(Children(k)) /\ (Cardinality(Children(k)) = Cardinality({c}) => Children(k) = {c})
  BY <1>1, <1>3, FS_Subset
<1>5. Children(k) = {c}
  BY <1>1, <1>2, <1>4
<1> QED
  BY <1>5

\* Slaves without a clock pass frames on to the next.
LEMMA StraightOn ==
  ASSUME BusShape, Straight, NEW s \in Slaves, up[s] # 0, ~ hasdc[up[s]]
  PROVE  up[s] = s - 1
<1>0. N \in Nat \ {0} /\ Slaves = 1 .. N /\ up[s] \in 0 .. s - 1
  BY UpIsBefore DEF Slaves
<1>1. up[s] \in Slaves /\ s \in Children(up[s])
  BY <1>0 DEF Children
<1>2. up[s] + 1 \in Children(up[s])
  BY <1>1, FirstBranch
<1>3. up[s] + 1 = s
  BY <1>1, <1>2 DEF Straight
<1> QED
  BY <1>0, <1>3

\* Slaves b to s are in a row, and s alone may have a clock.
IsChain(b, s) == \A t \in b .. s - 1 : ~ hasdc[t] /\ up[t + 1] = t

\* On such a bus nothing but slaves in a row is between a slave and the clock above it.
LEMMA BranchIsChain ==
  ASSUME Clocking, Straight, NEW s \in Slaves
  PROVE  IsChain(Child[s], s)
<1> DEFINE U == {m \in Slaves : ~ IsChain(Child[m], m)}
<1>0. BusShape /\ N \in Nat \ {0} /\ Slaves = 1 .. N /\ \A t \in Slaves : up[t] \in 0 .. t - 1
  BY UpIsBefore DEF Clocking, Slaves
<1> SUFFICES ASSUME U # {} PROVE FALSE
  OBVIOUS
<1>1. U \in SUBSET Nat
  BY <1>0
<1>2. PICK m \in U : \A k \in U : m <= k
  <2> HIDE DEF U
  <2> QED BY <1>1, LeastOf
<1>3. m \in Slaves /\ Child[m] = IF up[m] = 0 \/ hasdc[up[m]] THEN m ELSE Child[up[m]]
  BY ChildIs
<1>4. CASE up[m] = 0 \/ hasdc[up[m]]
  <2>1. IsChain(Child[m], m)
    BY <1>0, <1>3, <1>4 DEF IsChain
  <2> QED BY <2>1
<1>5. CASE up[m] # 0 /\ ~ hasdc[up[m]]
  <2>1. up[m] = m - 1 /\ m - 1 \in Slaves /\ Child[m] = Child[m - 1] /\ ~ (m <= m - 1)
    BY <1>0, <1>3, <1>5, StraightOn
  <2>2. IsChain(Child[m - 1], m - 1)
    BY <1>2, <2>1
  <2>3. Child[m - 1] \in 1 .. m - 1
    BY <2>1, BranchIs
  <2>4. IsChain(Child[m], m)
    <3> SUFFICES ASSUME NEW t \in Child[m] .. m - 1
                 PROVE  ~ hasdc[t] /\ up[t + 1] = t
      BY DEF IsChain
    <3>1. CASE t = m - 1
      BY <1>0, <1>3, <1>5, <2>1, <3>1
    <3>2. CASE t # m - 1
      <4>1. t \in Child[m - 1] .. (m - 1) - 1
        BY <1>0, <2>1, <2>3, <3>2
      <4> QED BY <2>2, <4>1 DEF IsChain
    <3> QED BY <3>1, <3>2
  <2> QED BY <2>4
<1> QED
  BY <1>4, <1>5

----------------------------------------------------------------------------
(* Sums over the slaves.                                                    *)

\* f is the function of the partial sums of w.
Adds(w, f) == f \in [0 .. N -> Int] /\ f[0] = 0 /\ \A n \in 1 .. N : f[n] = f[n - 1] + w[n]

\* The recursion of Total has a solution ...
LEMMA SumsExist ==
  ASSUME N \in Nat, NEW w \in [1 .. N -> Int]
  PROVE  \E f : Adds(w, f)
<1> DEFINE Good(m, f) == /\ f \in [0 .. m -> Int] /\ f[0] = 0
                         /\ \A n \in 1 .. m : f[n] = f[n - 1] + w[n]
           T == {m \in Nat : m <= N => \E f : Good(m, f)}
<1>1. 0 \in T
  <2>1. Good(0, [k \in 0 .. 0 |-> 0])
    OBVIOUS
  <2> QED BY <2>1
<1>2. ASSUME NEW m \in Nat, m \in T
      PROVE  m + 1 \in T
  <2> SUFFICES ASSUME m + 1 <= N
               PROVE  \E f : Good(m + 1, f)
    <3> HIDE DEF Good
    <3> QED OBVIOUS
  <2>1. PICK f : Good(m, f)
    <3>1. m <= N
      OBVIOUS
    <3> HIDE DEF Good
    <3> QED BY <1>2, <3>1, Zenon
  <2> DEFINE v == f[m] + w[m + 1]
             g == [k \in 0 .. m + 1 |-> IF k = m + 1 THEN v ELSE f[k]]
  <2>2. v \in Int
    <3>1. m + 1 \in 1 .. N /\ m \in 0 .. m
      OBVIOUS
    <3> QED BY <2>1, <3>1
  <2>3. g \in [0 .. m + 1 -> Int] /\ g[0] = 0
    BY <2>1, <2>2
  <2>4. ASSUME NEW n \in 1 .. m + 1
        PROVE  g[n] = g[n - 1] + w[n]
    <3>1. CASE n = m + 1
      <4>1. g[n] = v /\ g[n - 1] = f[m]
        BY <3>1
      <4> QED BY <3>1, <4>1
    <3>2. CASE n \in 1 .. m
      <4>1. g[n] = f[n] /\ g[n - 1] = f[n - 1]
        BY <3>2
      <4>2. f[n] = f[n - 1] + w[n]
        BY <2>1, <3>2
      <4> HIDE DEF g
      <4> QED BY <4>1, <4>2
    <3> QED BY <3>1, <3>2
  <2>5. Good(m + 1, g)
    BY <2>3, <2>4
  <2> HIDE DEF g, Good
  <2> QED BY <2>5, Zenon
<1>3. N \in T
  <2>1. T \in SUBSET Nat
    OBVIOUS
  <2> HIDE DEF T
  <2> QED BY <1>1, <1>2, <2>1, SetInduction
<1>4. PICK f : Good(N, f)
  <2>1. N <= N
    OBVIOUS
  <2> HIDE DEF Good
  <2> QED BY <1>3, <2>1, Zenon
<1> QED
  BY <1>4 DEF Adds

\* ... and Total is the last of its sums.
LEMMA TotalIs ==
  ASSUME N \in Nat, NEW w \in [1 .. N -> Int]
  PROVE  \E f : Adds(w, f) /\ Total(w) = f[N]
<1> DEFINE Rec(h) == h = [n \in 0 .. N |-> IF n = 0 THEN 0 ELSE h[n - 1] + w[n]]
           s == CHOOSE h : Rec(h)
<1>1. PICK f : Adds(w, f)
  BY SumsExist
<1>2. Rec(f)
  <2>1. \A n \in 0 .. N : f[n] = IF n = 0 THEN 0 ELSE f[n - 1] + w[n]
    BY <1>1 DEF Adds
  <2> QED BY <1>1, <2>1 DEF Adds
<1>3. Rec(s)
  <2> HIDE DEF Rec
  <2> QED BY <1>2
<1>4. Total(w) = s[N]
  BY DEF Total
<1>5. s[0] = 0 /\ DOMAIN s = 0 .. N /\ s = [n \in 0 .. N |-> s[n]] /\ \A n \in 1 .. N : s[n] = s[n - 1] + w[n]
  <2> HIDE DEF s
  <2> QED BY <1>3
<1>6. \A n \in 0 .. N : s[n] = f[n]
  <2> HIDE DEF s, Rec
  <2> DEFINE T == {n \in Nat : n <= N => s[n] = f[n]}
  <2>1. 0 \in T
    BY <1>1, <1>5 DEF Adds
  <2>2. ASSUME NEW n \in Nat, n \in T
        PROVE  n + 1 \in T
    <3> SUFFICES ASSUME n + 1 <= N
                 PROVE  s[n + 1] = f[n + 1]
      OBVIOUS
    <3>1. n + 1 \in 1 .. N /\ (n + 1) - 1 = n /\ s[n] = f[n]
      BY <2>2
    <3>2. s[n + 1] = s[(n + 1) - 1] + w[n + 1] /\ f[n + 1] = f[(n + 1) - 1] + w[n + 1]
      BY <1>1, <1>5, <3>1 DEF Adds
    <3> QED BY <3>1, <3>2
  <2>3. T = Nat
    <3>1. T \in SUBSET Nat
      OBVIOUS
    <3> HIDE DEF T
    <3> QED BY <2>1, <2>2, <3>1, SetInduction
  <2> QED BY <2>3
<1>7. N \in 0 .. N
  OBVIOUS
<1> QED
  <2> HIDE DEF s, Rec
  <2> QED BY <1>1, <1>4, <1>6, <1>7

\* A sum of integers is an integer.
LEMMA TotalType ==
  ASSUME N \in Nat, NEW w \in [1 .. N -> Int]
  PROVE  Total(w) \in Int
<1>1. PICK f : Adds(w, f) /\ Total(w) = f[N]
  BY TotalIs
<1>2. N \in 0 .. N
  OBVIOUS
<1> QED BY <1>1, <1>2 DEF Adds

\* A sum of naturals is a natural.
LEMMA TotalPositive ==
  ASSUME N \in Nat, NEW w \in [1 .. N -> Nat]
  PROVE  Total(w) \in Nat
<1>0. w \in [1 .. N -> Int] /\ \A n \in 1 .. N : w[n] \in Nat
  OBVIOUS
<1>1. PICK f : Adds(w, f) /\ Total(w) = f[N]
  BY <1>0, TotalIs
<1> DEFINE T == {n \in Nat : n <= N => f[n] \in Nat}
<1>2. 0 \in T
  BY <1>1 DEF Adds
<1>3. ASSUME NEW n \in Nat, n \in T
      PROVE  n + 1 \in T
  <2> SUFFICES ASSUME n + 1 <= N
               PROVE  f[n + 1] \in Nat
    OBVIOUS
  <2>1. n + 1 \in 1 .. N /\ (n + 1) - 1 = n /\ f[n] \in Nat
    BY <1>3
  <2>2. f[n + 1] = f[(n + 1) - 1] + w[n + 1]
    BY <1>1, <2>1 DEF Adds
  <2>3. w[n + 1] \in Nat
    BY <1>0, <2>1
  <2> QED BY <2>1, <2>2, <2>3
<1>4. N \in T
  <2>1. T \in SUBSET Nat
    OBVIOUS
  <2> HIDE DEF T
  <2> QED BY <1>2, <1>3, <2>1, SetInduction
<1> QED BY <1>1, <1>4

\* Sums are added term by term.
LEMMA TotalAdds ==
  ASSUME N \in Nat, NEW u \in [1 .. N -> Int], NEW v \in [1 .. N -> Int], NEW w \in [1 .. N -> Int],
         \A n \in 1 .. N : w[n] = u[n] + v[n]
  PROVE  Total(w) = Total(u) + Total(v)
<1>1. PICK f : Adds(u, f) /\ Total(u) = f[N]
  BY TotalIs
<1>2. PICK g : Adds(v, g) /\ Total(v) = g[N]
  BY TotalIs
<1>3. PICK h : Adds(w, h) /\ Total(w) = h[N]
  BY TotalIs
<1> DEFINE T == {n \in Nat : n <= N => h[n] = f[n] + g[n]}
<1>4. 0 \in T
  BY <1>1, <1>2, <1>3 DEF Adds
<1>5. ASSUME NEW n \in Nat, n \in T
      PROVE  n + 1 \in T
  <2> SUFFICES ASSUME n + 1 <= N
               PROVE  h[n + 1] = f[n + 1] + g[n + 1]
    OBVIOUS
  <2>1. n + 1 \in 1 .. N /\ (n + 1) - 1 = n /\ h[n] = f[n] + g[n] /\ n \in 0 .. N
    BY <1>5
  <2>2. /\ f[n + 1] = f[(n + 1) - 1] + u[n + 1] /\ g[n + 1] = g[(n + 1) - 1] + v[n + 1]
        /\ h[n + 1] = h[(n + 1) - 1] + w[n + 1]
    BY <1>1, <1>2, <1>3, <2>1 DEF Adds
  <2>3. w[n + 1] = u[n + 1] + v[n + 1] /\ u[n + 1] \in Int /\ v[n + 1] \in Int
    BY <2>1
  <2>4. f[n] \in Int /\ g[n] \in Int
    BY <1>1, <1>2, <2>1 DEF Adds
  <2> QED BY <2>1, <2>2, <2>3, <2>4
<1>6. N \in T
  <2>1. T \in SUBSET Nat
    OBVIOUS
  <2> HIDE DEF T
  <2> QED BY <1>4, <1>5, <2>1, SetInduction
<1> QED BY <1>1, <1>2, <1>3, <1>6

\* The links of a set of slaves, passed twice.
Twice(S) == [t \in Slaves |-> IF t \in S THEN 2 * delay[t] ELSE 0]

\* Sums over parts of the bus: they add up when the parts are apart.
LEMMA TwiceSums ==
  ASSUME Clocking, NEW S, NEW T
  PROVE  /\ Twice(S) \in [1 .. N -> Nat] /\ Twice(S) \in [1 .. N -> Int]
         /\ Total(Twice(S)) \in Nat
         /\ S \subseteq T => Total(Twice(T)) = Total(Twice(S)) + Total(Twice(T \ S))
         /\ S \cap Slaves = {} => Total(Twice(S)) = 0
<1>0. N \in Nat /\ Slaves = 1 .. N /\ \A t \in Slaves : delay[t] \in Nat
  BY UpIsBefore DEF Clocking, Slaves
<1>1. ASSUME NEW R
      PROVE  /\ Twice(R) \in [1 .. N -> Nat] /\ Twice(R) \in [1 .. N -> Int]
             /\ Total(Twice(R)) \in Nat
  <2>1. Twice(R) \in [1 .. N -> Nat]
    BY <1>0 DEF Twice
  <2> QED BY <1>0, <2>1, TotalPositive
<1>2. ASSUME S \subseteq T
      PROVE  Total(Twice(T)) = Total(Twice(S)) + Total(Twice(T \ S))
  <2>1. \A n \in 1 .. N : Twice(T)[n] = Twice(S)[n] + Twice(T \ S)[n]
    <3> TAKE n \in 1 .. N
    <3>1. delay[n] \in Nat /\ n \in Slaves
      BY <1>0
    <3> QED BY <1>2, <3>1 DEF Twice
  <2> QED BY <1>0, <1>1, <2>1, TotalAdds
<1>3. ASSUME S \cap Slaves = {}
      PROVE  Total(Twice(S)) = 0
  <2> DEFINE w == Twice(S)
  <2>1. w \in [1 .. N -> Int] /\ \A n \in 1 .. N : w[n] = w[n] + w[n]
    <3>1. \A n \in 1 .. N : w[n] = 0
      BY <1>0, <1>3 DEF Twice
    <3> QED BY <1>1, <3>1
  <2>2. Total(w) \in Nat
    BY <1>1
  <2> HIDE DEF w
  <2>3. Total(w) = Total(w) + Total(w)
    BY <1>0, <2>1, TotalAdds
  <2>4. Total(w) = 0
    <3> DEFINE x == Total(w)
    <3>1. x \in Nat /\ x = x + x
      BY <2>2, <2>3
    <3> HIDE DEF x
    <3>2. x = 0
      BY <3>1
    <3> QED BY <3>2 DEF x
  <2> QED BY <2>4 DEF w
<1> QED
  BY <1>1, <1>2, <1>3

----------------------------------------------------------------------------
(* 32 bit times.                                                            *)

\* Division with remainder, ...
LEMMA Divided ==
  ASSUME NEW m \in Nat \ {0}, NEW x \in Int
  PROVE  \E q \in Int, r \in 0 .. m - 1 : x = m * q + r
<1> DEFINE Q(n) == \E q \in Int, r \in 0 .. m - 1 : n = m * q + r
           T == {n \in Nat : Q(n)}
<1>1. 0 \in T
  <2>1. 0 = m * 0 + 0 /\ 0 \in 0 .. m - 1
    OBVIOUS
  <2> QED BY <2>1
<1>2. ASSUME NEW n \in Nat, n \in T
      PROVE  n + 1 \in T
  <2> SUFFICES \E q \in Int, r \in 0 .. m - 1 : n + 1 = m * q + r
    OBVIOUS
  <2>1. PICK q \in Int, r \in 0 .. m - 1 : n = m * q + r
    BY <1>2
  <2>2. CASE r + 1 < m
    <3>1. n + 1 = m * q + (r + 1) /\ r + 1 \in 0 .. m - 1
      BY <2>1, <2>2
    <3> r + 1 \in 0 .. m - 1
      BY <3>1
    <3> WITNESS q \in Int, r + 1 \in 0 .. m - 1
    <3> QED BY <3>1
  <2>3. CASE ~ (r + 1 < m)
    <3>1. m * (q + 1) = m * q + m /\ r + 1 = m
      BY <2>3
    <3>2. n + 1 = m * (q + 1) + 0 /\ q + 1 \in Int /\ 0 \in 0 .. m - 1
      BY <2>1, <3>1
    <3> QED BY <3>2
  <2> QED BY <2>2, <2>3
<1>3. \A n \in Nat : Q(n)
  <2>1. T \in SUBSET Nat
    OBVIOUS
  <2>2. T = Nat
    <3> HIDE DEF T
    <3> QED BY <1>1, <1>2, <2>1, SetInduction
  <2> QED BY <2>2
<1>4. CASE x \in Nat
  BY <1>3, <1>4
<1>5. CASE x \notin Nat
  <2>1. - x \in Nat
    BY <1>5
  <2>2. PICK q \in Int, r \in 0 .. m - 1 : - x = m * q + r
    BY <1>3, <2>1
  <2>3. m * (- q) = - (m * q) /\ m * (- q - 1) = - (m * q) - m /\ m * q \in Int
    OBVIOUS
  <2>4. CASE r = 0
    <3>1. x = m * (- q) + 0 /\ - q \in Int /\ 0 \in 0 .. m - 1
      BY <2>2, <2>3, <2>4
    <3> WITNESS - q \in Int, 0 \in 0 .. m - 1
    <3> QED BY <3>1
  <2>5. CASE r # 0
    <3>1. x = m * (- q - 1) + (m - r) /\ m - r \in 0 .. m - 1 /\ - q - 1 \in Int
      BY <2>2, <2>3, <2>5
    <3> QED BY <3>1
  <2> QED BY <2>4, <2>5
<1> QED
  BY <1>4, <1>5

\* ... whose remainder is %.
LEMMA Rest ==
  ASSUME NEW m \in Nat \ {0}, NEW q \in Int, NEW r \in 0 .. m - 1
  PROVE  (m * q + r) % m = r
OBVIOUS

\* From the assumption on the constants.
LEMMA HalfIs == Half \in Nat \ {0} /\ 2 * Half \in Nat \ {0}
BY ClocksAssumption DEF ClocksAssumption

\* An int32 is in its range.
LEMMA SignedType ==
  ASSUME NEW n \in Int
  PROVE  Signed(n) \in - Half .. Half - 1
<1>1. n + Half \in Int /\ 2 * Half \in Nat \ {0} /\ Half \in Nat
  BY HalfIs
<1>2. (n + Half) % (2 * Half) \in 0 .. 2 * Half - 1
  BY <1>1
<1> QED BY <1>1, <1>2 DEF Signed

\* A time that is later by d, as long as that is in range.
LEMMA SignedAdds ==
  ASSUME NEW n \in Int, NEW d \in Nat, Signed(n) + d < Half
  PROVE  Signed(n + d) = Signed(n) + d
<1> DEFINE m == 2 * Half
<1>1. m \in Nat \ {0} /\ Half \in Nat /\ n + Half \in Int
  BY HalfIs
<1>2. PICK q \in Int, r \in 0 .. m - 1 : n + Half = m * q + r
  <2> HIDE DEF m
  <2> QED BY <1>1, Divided
<1>3. Signed(n) = r - Half
  <2>1. (m * q + r) % m = r
    <3> HIDE DEF m
    <3> QED BY <1>1, Rest
  <2> QED BY <1>2, <2>1 DEF Signed
<1>4. r + d \in 0 .. m - 1
  BY <1>1, <1>3
<1>5. (m * q + (r + d)) % m = r + d
  <2> HIDE DEF m
  <2> QED BY <1>1, <1>4, Rest
<1>6. m * q \in Int
  BY <1>1
<1>7. n + d + Half = m * q + (r + d)
  <2> HIDE DEF m
  <2> QED BY <1>1, <1>2, <1>6
<1>8. Signed(n + d) = (r + d) - Half
  BY <1>5, <1>7 DEF Signed
<1> QED
  <2> HIDE DEF m
  <2> QED BY <1>1, <1>3, <1>8

\* A time below half of the range is itself.
LEMMA SignedSmall ==
  ASSUME NEW n \in Nat, n < Half
  PROVE  Signed(n) = n
<1>1. Signed(0) = 0
  <2>1. 2 * Half \in Nat \ {0} /\ Half \in 0 .. 2 * Half - 1 /\ Half \in Nat
    BY HalfIs
  <2>2. Half % (2 * Half) = Half
    BY <2>1
  <2> QED BY <2>1, <2>2 DEF Signed
<1>2. Signed(0) + n < Half
  BY <1>1, HalfIs
<1>3. Signed(0 + n) = Signed(0) + n
  BY <1>2, SignedAdds
<1> QED BY <1>1, <1>3

----------------------------------------------------------------------------
(* The ports of a slave, in the order of the frame.                          *)

\* A frame is at ports 0, 3, 1 and 2 in this order.
LEMMA PlacesOfPorts == Place(0) = 1 /\ Place(3) = 2 /\ Place(1) = 3 /\ Place(2) = 4
<1>1. DOMAIN Order = 1 .. 4 /\ Order[1] = 0 /\ Order[2] = 3 /\ Order[3] = 1 /\ Order[4] = 2
  BY DEF Order
<1>2. \A k \in 1 .. 4 : k = 1 \/ k = 2 \/ k = 3 \/ k = 4
  OBVIOUS
<1>3. ASSUME NEW j \in 1 .. 4
      PROVE  Place(Order[j]) = j
  <2>1. \A k \in DOMAIN Order : Order[k] = Order[j] => k = j
    BY <1>1, <1>2
  <2>2. j \in DOMAIN Order
    BY <1>1
  <2> QED BY <2>1, <2>2 DEF Place
<1> QED
  BY <1>1, <1>3

\* A member below all others is the minimum.
LEMMA MinIs ==
  ASSUME NEW S \in SUBSET Int, NEW x \in S, \A y \in S : x <= y
  PROVE  Min(S) = x
<1>1. Min(S) \in S /\ \A y \in S : Min(S) <= y
  BY DEF Min
<1>2. Min(S) <= x /\ x <= Min(S) /\ Min(S) \in Int /\ x \in Int
  BY <1>1
<1> QED BY <1>2

\* The searches of ecx_prevport() and ecx_parentport(), written out.
LEMMA FirstIs ==
  ASSUME NEW a, NEW b, NEW c, NEW ports, NEW o
  PROVE  FirstOf(<<a, b, c>>, ports, o)
           = IF a \in ports THEN a ELSE IF b \in ports THEN b ELSE IF c \in ports THEN c ELSE o
<1> DEFINE seq == <<a, b, c>>
           open == {k \in DOMAIN seq : seq[k] \in ports}
<1>1. DOMAIN seq = {1, 2, 3} /\ seq[1] = a /\ seq[2] = b /\ seq[3] = c
  OBVIOUS
<1>2. FirstOf(seq, ports, o) = IF open = {} THEN o ELSE seq[Min(open)]
  BY DEF FirstOf
<1> HIDE DEF seq
<1>3. /\ \A k : k \in open => k = 1 \/ k = 2 \/ k = 3
      /\ (1 \in open <=> a \in ports) /\ (2 \in open <=> b \in ports) /\ (3 \in open <=> c \in ports)
  BY <1>1
<1> HIDE DEF open
<1>4. open \in SUBSET Int
  BY <1>3
<1>5. CASE a \in ports
  <2>1. Min(open) = 1
    BY <1>3, <1>4, <1>5, MinIs
  <2> QED BY <1>1, <1>2, <1>3, <1>5, <2>1 DEF seq
<1>6. CASE a \notin ports /\ b \in ports
  <2>1. Min(open) = 2
    BY <1>3, <1>4, <1>6, MinIs
  <2> QED BY <1>1, <1>2, <1>3, <1>6, <2>1 DEF seq
<1>7. CASE a \notin ports /\ b \notin ports /\ c \in ports
  <2>1. Min(open) = 3
    BY <1>3, <1>4, <1>7, MinIs
  <2> QED BY <1>1, <1>2, <1>3, <1>7, <2>1 DEF seq
<1>8. CASE a \notin ports /\ b \notin ports /\ c \notin ports
  <2>1. open = {}
    BY <1>3, <1>8
  <2> QED BY <1>2, <1>8, <2>1 DEF seq
<1> QED
  BY <1>5, <1>6, <1>7, <1>8

\* The first port left is the one that a frame leaves by first.
LEMMA FirstPort ==
  ASSUME NEW ports \in SUBSET (1 .. 3), NEW p \in ports, \A r \in ports : Place(p) <= Place(r)
  PROVE  FirstOf(<<3, 1, 2>>, ports, 0) = p
<1>1. p = 1 \/ p = 2 \/ p = 3
  OBVIOUS
<1>2. FirstOf(<<3, 1, 2>>, ports, 0)
        = IF 3 \in ports THEN 3 ELSE IF 1 \in ports THEN 1 ELSE IF 2 \in ports THEN 2 ELSE 0
  BY FirstIs
<1>3. (3 \in ports => Place(p) <= 2) /\ (1 \in ports => Place(p) <= 3)
  BY PlacesOfPorts
<1> QED
  BY <1>1, <1>2, <1>3, PlacesOfPorts

\* The active port before p, and for the way back the last one.
LEMMA PrevPortIs ==
  ASSUME NEW s, 0 \in activeports[s], activeports[s] \subseteq Ports, NEW p \in activeports[s]
  PROVE  /\ PrevPort(s, p) \in activeports[s]
         /\ p # 0 => /\ Place(PrevPort(s, p)) < Place(p)
                     /\ \A x \in activeports[s] : Place(x) < Place(p) => Place(x) <= Place(PrevPort(s, p))
         /\ p = 0 => \A x \in activeports[s] : Place(x) <= Place(PrevPort(s, p))
<1> DEFINE A == activeports[s]
<1>0. \A x \in A : x = 0 \/ x = 1 \/ x = 2 \/ x = 3
  BY DEF Ports
<1>1. CASE p = 0
  <2>1. PrevPort(s, p) = IF 2 \in A THEN 2 ELSE IF 1 \in A THEN 1 ELSE IF 3 \in A THEN 3 ELSE 0
    BY <1>1, FirstIs DEF PrevPort
  <2> QED BY <1>0, <1>1, <2>1, PlacesOfPorts
<1>2. CASE p = 1
  <2>1. PrevPort(s, p) = IF 3 \in A THEN 3 ELSE 0
    BY <1>2, FirstIs DEF PrevPort
  <2> QED BY <1>0, <1>2, <2>1, PlacesOfPorts
<1>3. CASE p = 2
  <2>1. PrevPort(s, p) = IF 1 \in A THEN 1 ELSE IF 3 \in A THEN 3 ELSE 0
    BY <1>3, FirstIs DEF PrevPort
  <2> QED BY <1>0, <1>3, <2>1, PlacesOfPorts
<1>4. CASE p = 3
  <2>1. PrevPort(s, p) = 0
    BY <1>4, FirstIs DEF PrevPort
  <2> QED BY <1>0, <1>4, <2>1, PlacesOfPorts
<1> QED
  BY <1>0, <1>1, <1>2, <1>3, <1>4

----------------------------------------------------------------------------
(* The times of the broadcast.                                              *)

\* Branches are at ports 1 to 3.
LEMMA ChildPorts ==
  ASSUME BusShape, NEW s \in Slaves, NEW c \in Children(s)
  PROVE  port[c] \in 1 .. 3 /\ port[c] \in Links(s) /\ port[c] \in Ports /\ Place(port[c]) \in 2 .. 4 /\ c \in Slaves
<1>1. c \in Slaves /\ port[c] \in 1 .. 3 /\ port[c] \in Links(s)
  BY DEF Children, BusShape, Links
<1>2. port[c] = 1 \/ port[c] = 2 \/ port[c] = 3
  BY <1>1
<1> QED BY <1>1, <1>2, PlacesOfPorts DEF Ports

\* No two ports are at one place of the order.
LEMMA PortPlaces ==
  /\ \A p \in Ports : Place(p) \in 1 .. 4
  /\ \A p, r \in Ports : Place(p) = Place(r) => p = r
<1>1. \A p \in Ports : p = 0 \/ p = 1 \/ p = 2 \/ p = 3
  BY DEF Ports
<1>2. ASSUME NEW p \in Ports
      PROVE  Place(p) \in 1 .. 4
  <2>1. p = 0 \/ p = 1 \/ p = 2 \/ p = 3
    BY <1>1
  <2> QED BY <2>1, PlacesOfPorts
<1>3. ASSUME NEW p \in Ports, NEW r \in Ports, Place(p) = Place(r)
      PROVE  p = r
  <2>1. (p = 0 \/ p = 1 \/ p = 2 \/ p = 3) /\ (r = 0 \/ r = 1 \/ r = 2 \/ r = 3)
    BY <1>1
  <2> QED BY <1>3, <2>1, PlacesOfPorts
<1> QED BY <1>2, <1>3

\* Later ports have more behind them.
LEMMA BehindGrows ==
  ASSUME NEW s, NEW p \in Ports, NEW r \in Ports, Place(p) <= Place(r), BusShape
  PROVE  Behind(s, p) \subseteq Behind(s, r)
<1> SUFFICES ASSUME NEW t \in Behind(s, p)
             PROVE  t \in Behind(s, r)
  OBVIOUS
<1>1. t \in Slaves /\ t # s /\ s \in Above[t]
  BY DEF Behind
<1>2. PICK c \in Above[t] : up[c] = s /\ Place(port[c]) <= Place(p)
  BY DEF Behind
<1>3. Place(port[c]) <= Place(r)
  <2>1. c \in Slaves
    <3>1. t \in 0 .. N /\ t \in 1 .. N /\ N \in Nat
      BY <1>1, UpIsBefore DEF Slaves
    <3>2. Above[t] \subseteq 1 .. t
      BY <3>1, AboveIsBefore
    <3> QED BY <3>1, <3>2 DEF Slaves
  <2>2. port[c] \in Ports
    BY <2>1 DEF BusShape, Ports
  <2> QED BY <1>2, <2>2, PortPlaces
<1> QED
  BY <1>1, <1>2, <1>3 DEF Behind

\* A frame that comes in has passed nothing yet.
LEMMA NothingBehind0 ==
  ASSUME BusShape, NEW s \in Slaves
  PROVE  Behind(s, 0) = {}
<1> SUFFICES ASSUME NEW t \in Behind(s, 0)
             PROVE  FALSE
  OBVIOUS
<1>1. PICK c \in Above[t] : up[c] = s /\ Place(port[c]) <= Place(0)
  BY DEF Behind
<1>2. t \in Slaves /\ t \in 0 .. N /\ N \in Nat /\ Slaves = 1 .. N
  BY UpIsBefore DEF Behind, Slaves
<1>3. c \in Slaves
  <2>1. Above[t] \subseteq 1 .. t
    BY <1>2, AboveIsBefore
  <2> QED BY <1>2, <2>1
<1>4. c \in Children(s)
  BY <1>1, <1>3 DEF Children
<1> QED
  BY <1>1, <1>4, ChildPorts, PlacesOfPorts

\* How long a frame stays behind a slave, by what it passes there.
LEMMA StayIs ==
  ASSUME Clocking, NEW s \in Slaves, NEW p \in Ports
  PROVE  /\ Stay(s, p) = Total(Twice(Behind(s, p))) /\ Stay(s, p) \in Nat
         /\ Stay(s, p) <= Stay(s, 2) /\ Stay(s, 2) \in Nat
         /\ p = 0 => Stay(s, p) = 0
<1>0. BusShape
  BY DEF Clocking
<1>1. \A r : Stay(s, r) = Total(Twice(Behind(s, r)))
  BY DEF Stay, Twice
<1>2. \A r : Stay(s, r) \in Nat
  <2> TAKE r
  <2>1. Total(Twice(Behind(s, r))) \in Nat
    BY TwiceSums, Zenon
  <2>2. Stay(s, r) = Total(Twice(Behind(s, r)))
    BY <1>1, Zenon
  <2> QED BY <2>1, <2>2, Zenon
<1>3. Behind(s, p) \subseteq Behind(s, 2)
  <2>1. Place(p) <= Place(2) /\ 2 \in Ports
    BY PortPlaces, PlacesOfPorts DEF Ports
  <2> QED BY <1>0, <2>1, BehindGrows
<1>4. Stay(s, p) <= Stay(s, 2)
  <2>1. Total(Twice(Behind(s, 2))) = Total(Twice(Behind(s, p))) + Total(Twice(Behind(s, 2) \ Behind(s, p)))
    BY <1>3, TwiceSums
  <2>2. Total(Twice(Behind(s, 2) \ Behind(s, p))) \in Nat
    BY TwiceSums
  <2> QED BY <1>1, <1>2, <2>1, <2>2
<1>5. ASSUME p = 0
      PROVE  Stay(s, p) = 0
  <2>1. Behind(s, p) \cap Slaves = {}
    BY <1>0, <1>5, NothingBehind0
  <2> QED BY <1>1, <2>1, TwiceSums
<1> QED
  BY <1>1, <1>2, <1>4, <1>5

\* When the broadcast meets s, on its clock.
Met(s) == Signed(clock[s] + Arrival(s))

\* How much of the time to s is spent on each link.
ArrivalWeights(s) ==
  [t \in Slaves |-> IF t \notin 2 .. s THEN 0 ELSE IF t \in Above[s] THEN delay[t] ELSE 2 * delay[t]]

\* When it arrives, by what it has passed.
LEMMA ArrivalIs ==
  ASSUME Clocking, NEW s \in Slaves
  PROVE  /\ Arrival(s) = Total(ArrivalWeights(s)) /\ Arrival(s) \in Nat
         /\ ArrivalWeights(s) \in [1 .. N -> Int]
<1>0. N \in Nat /\ Slaves = 1 .. N /\ \A t \in Slaves : delay[t] \in Nat
  BY UpIsBefore DEF Clocking, Slaves
<1>1. ArrivalWeights(s) \in [1 .. N -> Nat]
  BY <1>0 DEF ArrivalWeights
<1>2. Arrival(s) = Total(ArrivalWeights(s))
  BY DEF Arrival, ArrivalWeights
<1>3. Total(ArrivalWeights(s)) \in Nat
  BY <1>0, <1>1, TotalPositive
<1>4. ArrivalWeights(s) \in [1 .. N -> Int]
  <2> DEFINE w == ArrivalWeights(s)
  <2> HIDE DEF w
  <2> SUFFICES w \in [1 .. N -> Int]
    BY DEF w
  <2>1. w \in [1 .. N -> Nat]
    BY <1>1 DEF w
  <2> QED BY <2>1
<1> QED
  BY <1>2, <1>3, <1>4

\* The registers, as long as no clock passes the end of its range.
LEMMA LatchedIs ==
  ASSUME Clocking, Unwrapped, NEW s \in Slaves
  PROVE  /\ Met(s) \in Int
         /\ Latched(s) \in [Ports -> Int]
         /\ \A p \in Ports : Latched(s)[p] = Met(s) + Stay(s, p)
         /\ \A p \in Ports : Stay(s, p) < Half
<1> DEFINE X == clock[s] + Arrival(s)
<1>0. X \in Int /\ Half \in Nat \ {0}
  BY ArrivalIs, HalfIs DEF Clocking
<1>1. Met(s) = Signed(X) /\ Signed(X) \in Int
  <2>1. Signed(X) \in - Half .. Half - 1
    <3> HIDE DEF X
    <3> QED BY <1>0, SignedType
  <2> QED BY <1>0, <2>1 DEF Met
<1>2. Stay(s, 2) < Half /\ Met(s) + Stay(s, 2) < Half
  BY DEF Unwrapped, Met
<1>3. ASSUME NEW p \in Ports
      PROVE  Latched(s)[p] = Met(s) + Stay(s, p) /\ Stay(s, p) < Half
  <2>1. Stay(s, p) \in Nat /\ Stay(s, p) <= Stay(s, 2) /\ (p = 0 => Stay(s, p) = 0) /\ Stay(s, 2) \in Nat
    BY StayIs
  <2>2. Latched(s)[p] = Signed(X + (IF p = 0 THEN 0 ELSE Stay(s, p)))
    BY DEF Latched
  <2>3. Latched(s)[p] = Signed(X + Stay(s, p))
    <3> HIDE DEF X
    <3> QED BY <2>1, <2>2
  <2>4. Signed(X) + Stay(s, p) < Half
    <3> HIDE DEF X
    <3> QED BY <1>0, <1>1, <1>2, <2>1
  <2>5. Signed(X + Stay(s, p)) = Signed(X) + Stay(s, p)
    <3> HIDE DEF X
    <3> QED BY <1>0, <2>1, <2>4, SignedAdds
  <2> QED BY <1>0, <1>1, <1>2, <2>1, <2>3, <2>5
<1>4. \A p \in Ports : Met(s) + Stay(s, p) \in Int
  BY <1>1, StayIs
<1>5. Latched(s) \in [Ports -> Int]
  <2>1. Latched(s) = [p \in Ports |-> Latched(s)[p]]
    BY DEF Latched
  <2>2. \A p \in Ports : Latched(s)[p] \in Int
    BY <1>3, <1>4
  <2> HIDE DEF X
  <2> QED BY <2>1, <2>2
<1> QED
  BY <1>1, <1>3, <1>5

\* So the frame is seen to come in at port 0.
LEMMA EntryIsPort0 ==
  ASSUME Clocking, Unwrapped, NEW s \in Slaves, activeports[s] = Links(s)
  PROVE  EntryPort(s, Latched(s)) = 0
<1> DEFINE rt == Latched(s)
           E(p) == \A q \in activeports[s] : rt[p] < rt[q] \/ (rt[p] = rt[q] /\ Place(p) <= Place(q))
<1>0. 0 \in activeports[s] /\ activeports[s] \subseteq Ports /\ 0 \in Ports
  <2>1. \A c \in Children(s) : port[c] \in Ports
    BY ChildPorts DEF Clocking
  <2> QED BY <2>1 DEF Links, Ports
<1>1. \A p \in Ports : rt[p] = Met(s) + Stay(s, p) /\ Stay(s, p) \in Nat /\ Met(s) \in Int /\ (p = 0 => Stay(s, p) = 0)
  BY LatchedIs, StayIs
<1>2. E(0)
  <2> HIDE DEF rt
  <2>1. \A q \in activeports[s] : Place(0) <= Place(q)
    BY <1>0, PortPlaces, PlacesOfPorts
  <2> QED BY <1>0, <1>1, <2>1
<1>3. ASSUME NEW p \in activeports[s], E(p)
      PROVE  p = 0
  <2> HIDE DEF rt
  <2>1. rt[p] < rt[0] \/ (rt[p] = rt[0] /\ Place(p) <= Place(0))
    BY <1>0, <1>3
  <2>2. ~ (rt[p] < rt[0])
    BY <1>0, <1>1
  <2>3. p \in Ports /\ Place(p) <= Place(0)
    BY <1>0, <2>1, <2>2
  <2>4. Place(p) = Place(0)
    BY <2>3, PortPlaces, PlacesOfPorts
  <2> QED BY <1>0, <2>3, <2>4, PortPlaces
<1>4. EntryPort(s, rt) = CHOOSE p \in activeports[s] : E(p)
  BY DEF EntryPort
<1> QED
  <2> HIDE DEF E, rt
  <2>1. EntryPort(s, rt) = 0
    BY <1>0, <1>2, <1>3, <1>4
  <2> QED BY <2>1 DEF rt

----------------------------------------------------------------------------
(* What a frame passes between two clocks.                                    *)

\* The way up from a slave to one above it ends with a slave linked to that.
LEMMA LastStepUp ==
  ASSUME BusShape, NEW t \in 0 .. N, NEW a \in Above[t], a # t
  PROVE  \E c \in Above[t] : up[c] = a
<1> DEFINE U == {m \in 0 .. N : a \in Above[m] /\ a # m /\ ~ \E c \in Above[m] : up[c] = a}
<1>0. N \in Nat \ {0} /\ Slaves = 1 .. N /\ \A s \in Slaves : up[s] \in 0 .. s - 1
  BY UpIsBefore DEF Slaves
<1> SUFFICES ASSUME U # {} PROVE FALSE
  OBVIOUS
<1>1. U \in SUBSET Nat
  OBVIOUS
<1>2. PICK m \in U : \A k \in U : m <= k
  <2> HIDE DEF U
  <2> QED BY <1>1, LeastOf
<1>3. m # 0
  BY AboveExists
<1>4. m \in Slaves /\ up[m] \in 0 .. m - 1 /\ up[m] \in 0 .. N
  BY <1>0, <1>3
<1>5. Above[m] = {m} \cup Above[up[m]]
  BY <1>4, AboveExists
<1>6. a \in Above[up[m]] /\ a # up[m] /\ ~ \E c \in Above[up[m]] : up[c] = a
  BY <1>5
<1>7. up[m] \in U
  BY <1>4, <1>6
<1> QED
  BY <1>0, <1>2, <1>4, <1>7

\* The part of the bus that is behind a link.
Sub(b) == {t \in Slaves : b \in Above[t]}

\* Behind the first of slaves in a row are these and what is behind the last of them.
LEMMA SubOfChain ==
  ASSUME BusShape, Straight, NEW s \in Slaves, NEW b \in 1 .. s, IsChain(b, s)
  PROVE  /\ Sub(b) = (b .. s) \cup (Sub(s) \ {s})
         /\ \A t \in b .. s : b \in Above[t] /\ t \in Above[s]
         /\ (b .. s) \cap (Sub(s) \ {s}) = {}
<1>0. N \in Nat \ {0} /\ Slaves = 1 .. N /\ \A t \in Slaves : up[t] \in 0 .. t - 1
  BY UpIsBefore DEF Slaves
<1>1. \A t \in Slaves : t \in Above[t] /\ Above[t] \subseteq 1 .. t /\ Above[t] = {t} \cup Above[up[t]]
  BY <1>0, AboveExists, AboveIsBefore
<1>2. ASSUME NEW t \in Slaves, b \in Above[t], t > s
      PROVE  s \in Above[t]
  <2> DEFINE T == {n \in Nat : b + n <= s => b + n \in Above[t]}
  <2>1. 0 \in T
    BY <1>2
  <2>2. ASSUME NEW n \in Nat, n \in T
        PROVE  n + 1 \in T
    <3> SUFFICES ASSUME b + (n + 1) <= s
                 PROVE  b + (n + 1) \in Above[t]
      OBVIOUS
    <3>1. b + n \in Above[t] /\ b + n \in b .. s - 1 /\ b + n # t /\ b + n \in Slaves /\ b + (n + 1) \in Slaves
      BY <1>0, <1>2, <2>2
    <3>2. PICK c \in Above[t] : up[c] = b + n
      <4> DEFINE a == b + n
      <4>1. t \in 0 .. N /\ a \in Above[t] /\ a # t
        BY <1>0, <3>1
      <4> HIDE DEF a
      <4>2. \E c \in Above[t] : up[c] = a
        BY <4>1, LastStepUp
      <4> QED BY <4>2 DEF a
    <3>3. ~ hasdc[b + n] /\ up[b + (n + 1)] = b + n
      <4>1. ~ hasdc[b + n] /\ up[(b + n) + 1] = b + n
        BY <3>1, Zenon DEF IsChain
      <4>2. (b + n) + 1 = b + (n + 1)
        BY <1>0
      <4> QED BY <4>1, <4>2, Zenon
    <3>4. c \in Slaves
      <4>1. c \in 1 .. t
        BY <1>1
      <4>2. t \in 1 .. N /\ N \in Nat
        BY <1>0
      <4> QED BY <1>0, <4>1, <4>2
    <3>5. c \in Children(b + n) /\ b + (n + 1) \in Children(b + n)
      BY <3>1, <3>2, <3>3, <3>4 DEF Children
    <3>6. c = b + (n + 1)
      BY <3>1, <3>3, <3>5 DEF Straight
    <3> QED BY <3>6
  <2>3. s - b \in T
    <3>1. T \in SUBSET Nat /\ s - b \in Nat
      BY <1>0
    <3> HIDE DEF T
    <3> QED BY <2>1, <2>2, <3>1, SetInduction
  <2> QED BY <1>0, <2>3
<1>3. ASSUME NEW t \in b .. s
      PROVE  b \in Above[t]
  <2> DEFINE T == {n \in Nat : b + n <= s => b \in Above[b + n]}
  <2>1. 0 \in T
    BY <1>0, <1>1
  <2>2. ASSUME NEW n \in Nat, n \in T
        PROVE  n + 1 \in T
    <3> SUFFICES ASSUME b + (n + 1) <= s
                 PROVE  b \in Above[b + (n + 1)]
      OBVIOUS
    <3>1. b \in Above[b + n] /\ b + n \in b .. s - 1 /\ b + (n + 1) \in Slaves
      BY <1>0, <2>2
    <3>2. up[b + (n + 1)] = b + n
      <4>1. up[(b + n) + 1] = b + n
        BY <3>1, Zenon DEF IsChain
      <4>2. (b + n) + 1 = b + (n + 1)
        BY <1>0
      <4> QED BY <4>1, <4>2, Zenon
    <3> QED BY <1>1, <3>1, <3>2
  <2>3. t - b \in T
    <3>1. T \in SUBSET Nat /\ t - b \in Nat
      BY <1>0
    <3> HIDE DEF T
    <3> QED BY <2>1, <2>2, <3>1, SetInduction
  <2> QED BY <1>0, <2>3
<1>4. ASSUME NEW t \in b .. s
      PROVE  t \in Above[s]
  <2> DEFINE T == {n \in Nat : t + n <= s => t \in Above[t + n]}
  <2>1. 0 \in T
    BY <1>0, <1>1
  <2>2. ASSUME NEW n \in Nat, n \in T
        PROVE  n + 1 \in T
    <3> SUFFICES ASSUME t + (n + 1) <= s
                 PROVE  t \in Above[t + (n + 1)]
      OBVIOUS
    <3>1. t \in Above[t + n] /\ t + n \in b .. s - 1 /\ t + (n + 1) \in Slaves
      BY <1>0, <2>2
    <3>2. up[t + (n + 1)] = t + n
      <4>1. up[(t + n) + 1] = t + n
        BY <3>1, Zenon DEF IsChain
      <4>2. (t + n) + 1 = t + (n + 1)
        BY <1>0
      <4> QED BY <4>1, <4>2, Zenon
    <3> QED BY <1>1, <3>1, <3>2
  <2>3. s - t \in T
    <3>1. T \in SUBSET Nat /\ s - t \in Nat
      BY <1>0
    <3> HIDE DEF T
    <3> QED BY <2>1, <2>2, <3>1, SetInduction
  <2> QED BY <1>0, <2>3
<1>5. ASSUME NEW t \in Sub(b)
      PROVE  t \in (b .. s) \cup (Sub(s) \ {s})
  <2>1. t \in Slaves /\ b \in Above[t] /\ b <= t
    BY <1>1 DEF Sub
  <2>2. CASE t <= s
    BY <1>0, <2>1, <2>2
  <2>3. CASE t > s
    <3>1. s \in Above[t] /\ t # s
      BY <1>0, <1>2, <2>1, <2>3
    <3> QED BY <2>1, <3>1 DEF Sub
  <2> QED BY <1>0, <2>1, <2>2, <2>3
<1>6. ASSUME NEW t \in (b .. s) \cup (Sub(s) \ {s})
      PROVE  t \in Sub(b)
  <2>1. CASE t \in b .. s
    BY <1>0, <1>3, <2>1 DEF Sub
  <2>2. CASE t \in Sub(s)
    <3>1. t \in Slaves /\ s \in Above[t] /\ t \in 0 .. N
      BY <1>0, <2>2 DEF Sub
    <3>2. Above[s] \subseteq Above[t]
      BY <3>1, AboveIsTransitive
    <3>3. s \in b .. s
      BY <1>0
    <3>4. b \in Above[s]
      BY <1>3, <3>3
    <3> QED BY <3>1, <3>2, <3>4 DEF Sub
  <2> QED BY <2>1, <2>2
<1>7. ASSUME NEW t \in (b .. s) \cap (Sub(s) \ {s})
      PROVE  FALSE
  <2>1. t \in Slaves /\ s \in Above[t] /\ t # s /\ t <= s
    BY <1>0 DEF Sub
  <2>2. s <= t
    BY <1>1, <2>1
  <2> QED BY <1>0, <2>1, <2>2
<1> QED
  <2>1. Sub(b) = (b .. s) \cup (Sub(s) \ {s})
    BY <1>5, <1>6
  <2>2. \A t \in b .. s : b \in Above[t] /\ t \in Above[s]
    BY <1>3, <1>4
  <2>3. (b .. s) \cap (Sub(s) \ {s}) = {}
    BY <1>7
  <2> QED BY <2>1, <2>2, <2>3

\* The branches of a slave are numbered in the order of its ports.
LEMMA ChildrenInOrder ==
  ASSUME BusShape, NEW q \in Slaves, NEW c \in Children(q), NEW d \in Children(q)
  PROVE  /\ c \in q + 1 .. N /\ (c < d <=> Place(port[c]) < Place(port[d]))
         /\ port[c] = port[d] => c = d
<1>0. N \in Nat \ {0} /\ Slaves = 1 .. N /\ (\A t \in Slaves : up[t] \in 0 .. t - 1) /\ up[1] = 0
  BY UpIsBefore DEF Slaves, BusShape, Numbered
<1>1. ASSUME NEW x \in Children(q)
      PROVE  x \in 2 .. N /\ x \in q + 1 .. N /\ up[x] = q /\ Place(port[x]) \in 2 .. 4 /\ port[x] \in Ports
  <2>1. x \in Slaves /\ up[x] = q
    BY DEF Children
  <2>2. x \in 2 .. N /\ x \in q + 1 .. N
    BY <1>0, <2>1
  <2> QED BY <2>1, <2>2, ChildPorts
<1>2. ASSUME NEW x \in Children(q), NEW y \in Children(q), x < y
      PROVE  Place(port[x]) < Place(port[y])
  BY <1>1, <1>2 DEF BusShape, Numbered
<1>3. c < d \/ c = d \/ d < c
  BY <1>1
<1>4. c < d <=> Place(port[c]) < Place(port[d])
  <2>1. Place(port[c]) \in 2 .. 4 /\ Place(port[d]) \in 2 .. 4
    BY <1>1
  <2>2. c \in Int /\ d \in Int
    BY <1>1
  <2> QED BY <1>2, <1>3, <2>1, <2>2
<1>5. ASSUME port[c] = port[d] PROVE c = d
  <2>1. Place(port[c]) = Place(port[d]) /\ Place(port[c]) \in 2 .. 4
    BY <1>1, <1>5
  <2>2. ~ (Place(port[c]) < Place(port[d])) /\ ~ (Place(port[d]) < Place(port[c]))
    BY <2>1
  <2> QED BY <1>2, <1>3, <2>2
<1> QED
  BY <1>1, <1>4, <1>5

\* Links are ports, and port 0 is one.
LEMMA LinksArePorts ==
  ASSUME BusShape, NEW s \in Slaves
  PROVE  0 \in Links(s) /\ Links(s) \subseteq Ports
<1>1. \A c \in Children(s) : port[c] \in Ports
  BY ChildPorts
<1> QED BY <1>1 DEF Links, Ports

\* All that is below a slave is behind its last port.
LEMMA BehindLastPort ==
  ASSUME BusShape, NEW s \in Slaves, activeports[s] = Links(s)
  PROVE  /\ PrevPort(s, 0) \in Ports
         /\ Behind(s, PrevPort(s, 0)) = Sub(s) \ {s}
<1> DEFINE r == PrevPort(s, 0)
<1>0. N \in Nat \ {0} /\ Slaves = 1 .. N /\ \A t \in Slaves : up[t] \in 0 .. t - 1
  BY UpIsBefore DEF Slaves
<1>1. r \in Links(s) /\ \A x \in Links(s) : Place(x) <= Place(r)
  <2>1. 0 \in activeports[s] /\ activeports[s] \subseteq Ports
    BY LinksArePorts
  <2> QED BY <2>1, PrevPortIs
<1>2. r \in Ports
  BY <1>1, LinksArePorts
<1>3. ASSUME NEW t \in Sub(s) \ {s}
      PROVE  t \in Behind(s, r)
  <2>1. t \in Slaves /\ s \in Above[t] /\ s # t /\ t \in 0 .. N
    BY <1>0 DEF Sub
  <2>2. PICK c \in Above[t] : up[c] = s
    BY <2>1, LastStepUp
  <2>3. c \in Slaves
    <3>1. Above[t] \subseteq 1 .. t
      BY <2>1, AboveIsBefore
    <3> QED BY <1>0, <2>1, <3>1
  <2>4. c \in Children(s)
    BY <2>2, <2>3 DEF Children
  <2>5. port[c] \in Links(s)
    BY <2>4, ChildPorts
  <2>6. Place(port[c]) <= Place(r)
    BY <1>1, <2>5
  <2> QED BY <2>1, <2>2, <2>6 DEF Behind
<1>4. Behind(s, r) \subseteq Sub(s) \ {s}
  BY DEF Behind, Sub
<1> QED
  BY <1>2, <1>3, <1>4

\* Behind the ports before that of a branch is what is numbered before it, and
\* behind its own port the branch is added.
LEMMA BehindBranch ==
  ASSUME BusShape, NEW q \in Slaves, NEW b \in Children(q), activeports[q] = Links(q)
  PROVE  LET r == PrevPort(q, port[b])
         IN  /\ r \in Ports /\ Behind(q, r) = q + 1 .. b - 1
             /\ Behind(q, r) \subseteq Behind(q, port[b])
             /\ Behind(q, port[b]) \ Behind(q, r) = Sub(b)
<1> DEFINE r == PrevPort(q, port[b])
<1>0. N \in Nat \ {0} /\ Slaves = 1 .. N /\ (\A t \in Slaves : up[t] \in 0 .. t - 1)
  BY UpIsBefore DEF Slaves
<1>a. /\ b \in Slaves /\ up[b] = q /\ b \in q + 1 .. N /\ b \in 2 .. N
      /\ port[b] \in Ports /\ port[b] \in Links(q) /\ port[b] # 0
  <2>1. b \in Slaves /\ up[b] = q
    BY DEF Children
  <2>2. b \in q + 1 .. N /\ b \in 2 .. N
    BY <1>0, <2>1
  <2> QED BY <2>1, <2>2, ChildPorts
<1>1. /\ r \in Links(q) /\ Place(r) < Place(port[b])
      /\ \A x \in Links(q) : Place(x) < Place(port[b]) => Place(x) <= Place(r)
  <2>1. 0 \in activeports[q] /\ activeports[q] \subseteq Ports /\ port[b] \in activeports[q]
    BY <1>a, LinksArePorts
  <2> QED BY <1>a, <2>1, PrevPortIs
<1>2. r \in Ports /\ Place(r) \in 1 .. 4 /\ Place(port[b]) \in 1 .. 4
  BY <1>a, <1>1, LinksArePorts, PortPlaces
<1>3. \A t \in Slaves : t \in 0 .. N /\ t \in Above[t] /\ Above[t] \subseteq 1 .. t /\ Above[t] = {t} \cup Above[up[t]]
  BY <1>0, AboveExists, AboveIsBefore
<1>4. ASSUME NEW t \in Slaves, q \in Above[t], t # q
      PROVE  /\ \E c \in Above[t] : c \in Children(q)
             /\ \A c \in Above[t] : up[c] = q => c \in Children(q)
             /\ \A c, d \in Above[t] : up[c] = q /\ up[d] = q => c = d
  <2>1. PICK c \in Above[t] : up[c] = q
    BY <1>3, <1>4, LastStepUp
  <2>2. \A d \in Above[t] : d \in Slaves
    BY <1>0, <1>3
  <2>3. \A d \in Above[t] : up[d] = q => d \in Children(q)
    BY <2>2 DEF Children
  <2>4. \A d, e \in Above[t] : up[d] = q /\ up[e] = q => d = e
    <3> SUFFICES ASSUME NEW d \in Above[t], NEW e \in Above[t], up[d] = up[e]
                 PROVE  d = e
      OBVIOUS
    <3>1. t \in 0 .. N
      BY <1>3
    <3> QED BY <3>1, OneWay
  <2> QED BY <2>1, <2>3, <2>4
<1>5. ASSUME NEW c \in Children(q)
      PROVE  /\ Place(port[c]) <= Place(r) <=> c < b
             /\ Place(port[c]) <= Place(port[b]) <=> c <= b
  <2>1. /\ c \in q + 1 .. N /\ (c < b <=> Place(port[c]) < Place(port[b]))
        /\ (b < c <=> Place(port[b]) < Place(port[c]))
    BY ChildrenInOrder
  <2>2. port[c] \in Links(q) /\ Place(port[c]) \in 2 .. 4
    BY ChildPorts
  <2>3. Place(port[c]) < Place(port[b]) => Place(port[c]) <= Place(r)
    BY <1>1, <2>2
  <2> QED BY <1>a, <1>1, <1>2, <2>1, <2>2, <2>3
<1>6. ASSUME NEW t \in Behind(q, r)
      PROVE  t \in q + 1 .. b - 1
  <2>1. t \in Slaves /\ t # q /\ q \in Above[t]
    BY DEF Behind
  <2>2. PICK c \in Above[t] : up[c] = q /\ Place(port[c]) <= Place(r)
    BY DEF Behind
  <2>3. c \in Children(q) /\ c < b
    <3>1. c \in Children(q)
      BY <1>4, <2>1, <2>2
    <3> QED BY <1>5, <2>2, <3>1
  <2>4. t > q
    BY <1>0, <1>3, <2>1
  <2>5. ~ (b <= t)
    <3> SUFFICES ASSUME b <= t PROVE FALSE
      OBVIOUS
    <3>1. t \in b .. N
      BY <1>0, <2>1
    <3>2. c \in Above[up[b]]
      BY <1>a, <2>3, <3>1, AboveBoth
    <3>3. c <= q
      BY <1>a, <1>3, <3>2
    <3>4. c \in q + 1 .. N
      BY <2>3, ChildrenInOrder
    <3> QED BY <1>0, <3>3, <3>4
  <2> QED BY <1>0, <1>a, <2>1, <2>4, <2>5
<1>7. ASSUME NEW t \in q + 1 .. b - 1
      PROVE  t \in Behind(q, r)
  <2>1. t \in Slaves /\ t # q /\ b - 1 \in t .. N /\ q < t
    BY <1>0, <1>a
  <2>2. q \in Above[b - 1]
    BY <1>a DEF BusShape, Numbered
  <2>3. q \in Above[up[t]]
    BY <2>1, <2>2, AboveBoth
  <2>4. q \in Above[t]
    BY <1>3, <2>1, <2>3
  <2>5. PICK c \in Above[t] : c \in Children(q)
    BY <1>4, <2>1, <2>4
  <2>6. c < b
    BY <1>0, <1>3, <1>a, <2>1, <2>5, SMTT(30)
  <2>7. up[c] = q /\ Place(port[c]) <= Place(r)
    BY <1>5, <2>5, <2>6 DEF Children
  <2> QED BY <2>1, <2>4, <2>7 DEF Behind
<1>8. Behind(q, r) \subseteq Behind(q, port[b])
  BY <1>a, <1>1, <1>2, BehindGrows
<1>9. ASSUME NEW t \in Behind(q, port[b]), t \notin Behind(q, r)
      PROVE  t \in Sub(b)
  <2>1. t \in Slaves /\ t # q /\ q \in Above[t]
    BY DEF Behind
  <2>2. PICK c \in Above[t] : up[c] = q /\ Place(port[c]) <= Place(port[b])
    BY DEF Behind
  <2>3. c \in Children(q)
    BY <1>4, <2>1, <2>2
  <2>4. ~ (Place(port[c]) <= Place(r))
    BY <1>9, <2>1, <2>2 DEF Behind
  <2>5. c <= b /\ ~ (c < b)
    BY <1>5, <2>2, <2>3, <2>4
  <2>6. c = b
    <3>1. c \in q + 1 .. N
      BY <2>3, ChildrenInOrder
    <3> QED BY <1>a, <2>5, <3>1
  <2> QED BY <2>1, <2>2, <2>6 DEF Sub
<1>10. ASSUME NEW t \in Sub(b)
       PROVE  t \in Behind(q, port[b]) /\ t \notin Behind(q, r)
  <2>1. t \in Slaves /\ b \in Above[t] /\ b <= t
    BY <1>3 DEF Sub
  <2>2. t # q /\ t \notin q + 1 .. b - 1
    BY <1>0, <1>a, <2>1
  <2>3. q \in Above[t]
    <3>1. q \in Above[b]
      BY <1>3, <1>a
    <3>2. Above[b] \subseteq Above[t]
      BY <1>3, <2>1, AboveIsTransitive
    <3> QED BY <3>1, <3>2
  <2>4. Place(port[b]) <= Place(port[b])
    BY <1>2
  <2>5. t \in Behind(q, port[b])
    BY <1>a, <2>1, <2>2, <2>3, <2>4 DEF Behind
  <2>6. t \notin Behind(q, r)
    BY <1>6, <2>2
  <2> QED BY <2>5, <2>6
<1>11. Behind(q, r) = q + 1 .. b - 1
  BY <1>6, <1>7
<1>12. Behind(q, port[b]) \ Behind(q, r) = Sub(b)
  BY <1>9, <1>10
<1> QED
  BY <1>2, <1>8, <1>11, <1>12

\* The links of a set of slaves, passed once.
Once(S) == [t \in Slaves |-> IF t \in S THEN delay[t] ELSE 0]

\* A link passed twice counts twice.
LEMMA OnceSums ==
  ASSUME Clocking, NEW S
  PROVE  /\ Once(S) \in [1 .. N -> Int] /\ Total(Once(S)) \in Nat
         /\ Total(Twice(S)) = 2 * Total(Once(S))
<1>0. N \in Nat /\ Slaves = 1 .. N /\ \A t \in Slaves : delay[t] \in Nat
  BY UpIsBefore DEF Clocking, Slaves
<1>1. Once(S) \in [1 .. N -> Nat]
  BY <1>0 DEF Once
<1>2. Once(S) \in [1 .. N -> Int]
  <2> DEFINE w == Once(S)
  <2>1. w \in [1 .. N -> Nat]
    BY <1>1
  <2> HIDE DEF w
  <2>2. w \in [1 .. N -> Int]
    BY <2>1
  <2> QED BY <2>2 DEF w
<1>3. Total(Once(S)) \in Nat
  BY <1>0, <1>1, TotalPositive
<1>4. Total(Twice(S)) = Total(Once(S)) + Total(Once(S))
  <2>1. \A n \in 1 .. N : Twice(S)[n] = Once(S)[n] + Once(S)[n]
    <3> TAKE n \in 1 .. N
    <3>1. delay[n] \in Nat /\ n \in Slaves
      BY <1>0
    <3> QED BY <3>1 DEF Twice, Once
  <2>2. Twice(S) \in [1 .. N -> Int]
    BY TwiceSums
  <2> QED BY <1>0, <1>2, <2>1, <2>2, TotalAdds
<1>5. Total(Twice(S)) = 2 * Total(Once(S))
  <2> DEFINE x == Total(Once(S))
             y == Total(Twice(S))
  <2>1. x \in Nat /\ y = x + x
    BY <1>3, <1>4
  <2> HIDE DEF x, y
  <2>2. y = 2 * x
    BY <2>1
  <2> QED BY <2>2 DEF x, y
<1> QED BY <1>2, <1>3, <1>5

\* How much later than the clock above it a slave is met: the links to it, and
\* twice those of the branches that come before its own.
LEMMA ArrivalAdds ==
  ASSUME Clocking, Straight, NEW s \in Slaves, NEW q, q = Nearest(s), q # 0, activeports[q] = Links(q)
  PROVE  LET b == Child[s]
         IN  Arrival(s) = Arrival(q) + Total(Once(b .. s)) + Stay(q, PrevPort(q, port[b]))
<1> DEFINE b == Child[s]
           r == PrevPort(q, port[b])
           B == Behind(q, r)
<1>0. N \in Nat \ {0} /\ Slaves = 1 .. N /\ (\A t \in Slaves : up[t] \in 0 .. t - 1) /\ BusShape
  BY UpIsBefore DEF Slaves, Clocking
<1>1. /\ b \in Above[s] /\ up[b] = q /\ b \in 1 .. s /\ IsChain(b, s)
      /\ b \in Slaves /\ q \in Slaves /\ b \in Children(q) /\ b \in q + 1 .. N
  <2>1. b \in Above[s] /\ up[b] = q /\ b \in 1 .. s /\ IsChain(b, s)
    BY BranchIs, BranchIsChain
  <2>2. q \in 0 .. s - 1
    BY NearestIs
  <2>3. b \in Slaves /\ q \in Slaves
    BY <1>0, <2>1, <2>2
  <2>4. q \in 0 .. b - 1
    BY <1>0, <2>1, <2>3
  <2> QED BY <1>0, <2>1, <2>3, <2>4 DEF Children
<1>2. r \in Ports /\ B = q + 1 .. b - 1
  <2> HIDE DEF b
  <2> QED BY <1>0, <1>1, BehindBranch
<1>3. \A t \in Slaves : t \in 0 .. N /\ t \in Above[t] /\ Above[t] \subseteq 1 .. t /\ Above[t] = {t} \cup Above[up[t]]
  BY <1>0, AboveExists, AboveIsBefore
<1>4. \A t \in b .. s : t \in Above[s]
  <2> HIDE DEF b
  <2> QED BY <1>0, <1>1, SubOfChain
<1>5. \A t \in q + 1 .. b - 1 : t \notin Above[s]
  <2> SUFFICES ASSUME NEW t \in q + 1 .. b - 1, t \in Above[s]
               PROVE  FALSE
    OBVIOUS
  <2> HIDE DEF b
  <2>1. s \in b .. N /\ t < b
    BY <1>0, <1>1
  <2>2. t \in Above[up[b]]
    BY <1>0, <1>1, <2>1, AboveBoth
  <2>3. t <= q
    BY <1>1, <1>3, <2>2
  <2> QED BY <1>0, <1>1, <2>3
<1>6. \A t \in 1 .. q : t \in Above[s] <=> t \in Above[q]
  <2> HIDE DEF b
  <2> SUFFICES ASSUME NEW t \in 1 .. q
               PROVE  t \in Above[s] <=> t \in Above[q]
    OBVIOUS
  <2>1. q \in Above[s]
    <3>1. q \in Above[b]
      BY <1>1, <1>3
    <3>2. s \in 0 .. N /\ b \in Above[s]
      BY <1>1, <1>3
    <3>3. Above[b] \subseteq Above[s]
      BY <1>0, <3>2, AboveIsTransitive
    <3> QED BY <3>1, <3>3
  <2>2. Above[q] \subseteq Above[s]
    <3>1. s \in 0 .. N
      BY <1>3
    <3> QED BY <1>0, <2>1, <3>1, AboveIsTransitive
  <2>3. ASSUME t \in Above[s], t # q
        PROVE  t \in Above[q]
    <3>1. s \in q .. N /\ t < q
      BY <1>0, <1>1, <2>3, SMTT(30)
    <3>2. t \in Above[up[q]]
      BY <1>0, <1>1, <2>3, <3>1, AboveBoth
    <3> QED BY <1>1, <1>3, <3>2
  <2>4. q \in Above[q]
    BY <1>1, <1>3
  <2> QED BY <2>2, <2>3, <2>4
<1> DEFINE W == ArrivalWeights(s)
           V == ArrivalWeights(q)
           O == Once(b .. s)
           D == Twice(B)
           R == [t \in Slaves |-> V[t] + O[t]]
<1>7. /\ W \in [1 .. N -> Int] /\ V \in [1 .. N -> Int] /\ O \in [1 .. N -> Int] /\ D \in [1 .. N -> Int]
      /\ Arrival(s) = Total(W) /\ Arrival(q) = Total(V)
      /\ Total(O) \in Nat /\ Total(D) \in Nat /\ Arrival(s) \in Nat /\ Arrival(q) \in Nat
  BY <1>1, ArrivalIs, OnceSums, TwiceSums
<1>8. ASSUME NEW t \in 1 .. N
      PROVE  W[t] = (V[t] + O[t]) + D[t]
  <2>0. t \in Slaves /\ delay[t] \in Nat
    BY <1>0 DEF Clocking
  <2>w. W[t] = IF t \notin 2 .. s THEN 0 ELSE IF t \in Above[s] THEN delay[t] ELSE 2 * delay[t]
    BY <2>0 DEF ArrivalWeights
  <2>v. V[t] = IF t \notin 2 .. q THEN 0 ELSE IF t \in Above[q] THEN delay[t] ELSE 2 * delay[t]
    BY <2>0 DEF ArrivalWeights
  <2>o. O[t] = IF t \in b .. s THEN delay[t] ELSE 0
    BY <2>0 DEF Once
  <2>d. D[t] = IF t \in q + 1 .. b - 1 THEN 2 * delay[t] ELSE 0
    BY <1>2, <2>0 DEF Twice
  <2>b. b \in q + 1 .. s /\ q \in 1 .. s - 1 /\ s \in 1 .. N /\ N \in Nat
    BY <1>0, <1>1
  <2>a. /\ t \in 1 .. q => (t \in Above[s] <=> t \in Above[q])
        /\ t \in q + 1 .. b - 1 => t \notin Above[s]
        /\ t \in b .. s => t \in Above[s]
    BY <1>4, <1>5, <1>6
  <2> HIDE DEF W, V, O, D, b, r, B
  <2>1. CASE t <= q
    <3>1. t \notin b .. s /\ t \notin q + 1 .. b - 1 /\ t \in 1 .. q /\ (t \in 2 .. s <=> t \in 2 .. q)
      BY <2>1, <2>b
    <3> QED BY <2>0, <2>w, <2>v, <2>o, <2>d, <2>a, <3>1
  <2>2. CASE q < t /\ t < b
    <3>1. t \notin b .. s /\ t \in q + 1 .. b - 1 /\ t \notin 2 .. q /\ t \in 2 .. s
      BY <2>2, <2>b
    <3> QED BY <2>0, <2>w, <2>v, <2>o, <2>d, <2>a, <3>1
  <2>3. CASE b <= t /\ t <= s
    <3>1. t \in b .. s /\ t \notin q + 1 .. b - 1 /\ t \notin 2 .. q /\ t \in 2 .. s
      BY <2>3, <2>b
    <3> QED BY <2>0, <2>w, <2>v, <2>o, <2>d, <2>a, <3>1
  <2>4. CASE s < t
    <3>1. t \notin b .. s /\ t \notin q + 1 .. b - 1 /\ t \notin 2 .. q /\ t \notin 2 .. s
      BY <2>4, <2>b
    <3> QED BY <2>0, <2>w, <2>v, <2>o, <2>d, <2>a, <3>1
  <2> QED BY <2>1, <2>2, <2>3, <2>4, <2>b
<1>9. Total(R) = Total(V) + Total(O) /\ R \in [1 .. N -> Int]
  <2> HIDE DEF V, O
  <2>1. \A n \in 1 .. N : V[n] \in Int /\ O[n] \in Int /\ R[n] = V[n] + O[n]
    BY <1>0, <1>7
  <2>2. R \in [1 .. N -> Int]
    BY <1>0, <2>1
  <2>3. Total(R) = Total(V) + Total(O)
    <3> HIDE DEF R
    <3>1. N \in Nat /\ V \in [1 .. N -> Int] /\ O \in [1 .. N -> Int]
      BY <1>0, <1>7
    <3>2. \A n \in 1 .. N : R[n] = V[n] + O[n]
      BY <2>1
    <3> QED BY <2>2, <3>1, <3>2, TotalAdds
  <2> QED BY <2>2, <2>3
<1>10. Total(W) = Total(R) + Total(D)
  <2>1. \A n \in 1 .. N : W[n] = R[n] + D[n]
    BY <1>0, <1>8
  <2> HIDE DEF W, R, D
  <2>2. N \in Nat
    BY <1>0, Zenon
  <2>3. W \in [1 .. N -> Int] /\ R \in [1 .. N -> Int] /\ D \in [1 .. N -> Int]
    BY <1>7, <1>9, Zenon
  <2> QED BY <2>1, <2>2, <2>3, TotalAdds, Zenon
<1>11. Stay(q, r) = Total(D)
  BY <1>1, <1>2, StayIs
<1> QED
  <2> HIDE DEF W, V, O, D, R, r, B, b
  <2>1. Arrival(s) = Arrival(q) + Total(O) + Stay(q, r)
    BY <1>7, <1>9, <1>10, <1>11
  <2> QED BY <2>1 DEF O, r, b

\* Nothing is behind the end of a branch.
LEMMA NoBranches ==
  ASSUME BusShape, NEW s \in Slaves, Children(s) = {}
  PROVE  Sub(s) \ {s} = {}
<1> SUFFICES ASSUME NEW t \in Sub(s), t # s
             PROVE  FALSE
  OBVIOUS
<1>1. N \in Nat \ {0} /\ Slaves = 1 .. N /\ t \in Slaves /\ s \in Above[t] /\ t \in 0 .. N
  BY UpIsBefore DEF Slaves, Sub
<1>2. PICK c \in Above[t] : up[c] = s
  BY <1>1, LastStepUp
<1>3. c \in Slaves
  BY <1>1, AboveIsBefore
<1> QED
  BY <1>2, <1>3 DEF Children

\* Half of twice a time is the time, ...
LEMMA Halves ==
  ASSUME NEW x \in Nat
  PROVE  Halved(2 * x) = x
<1>1. ~ (2 * x < 0) /\ (2 * x) \div 2 = x
  OBVIOUS
<1> QED BY <1>1 DEF Halved

\* ... and a time is no less than 0.
LEMMA AbsIs ==
  ASSUME NEW x \in Nat
  PROVE  Abs(x) = x
BY DEF Abs

\* The delay of a slave, from the times latched by it and by the clock above it.
LEMMA DelayAdds ==
  ASSUME Clocking, Straight, Unwrapped, slave \in Slaves, NEW q, q = Nearest(slave), q # 0,
         activeports[q] = Links(q), activeports[slave] = Links(slave),
         DCrt[q] = Latched(q), entryport[q] = 0, pdelay[q] \in Int
  PROVE  Delay(q, port[Child[slave]], Latched(slave), 0) = Arrival(slave) - Arrival(q) + pdelay[q]
<1> DEFINE s == slave
           b == Child[s]
           p == port[b]
           r == PrevPort(q, p)
           l == PrevPort(s, 0)
           E == Total(Twice(Sub(b)))
           D == Total(Twice(Sub(s) \ {s}))
           O == Total(Once(b .. s))
<1>0. N \in Nat \ {0} /\ Slaves = 1 .. N /\ (\A t \in Slaves : up[t] \in 0 .. t - 1) /\ BusShape
  BY UpIsBefore DEF Slaves, Clocking
<1>1. /\ up[b] = q /\ b \in 1 .. s /\ IsChain(b, s)
      /\ q \in Slaves /\ b \in Children(q) /\ b \in q + 1 .. N /\ s \in Slaves /\ b \in Slaves
  <2>1. up[b] = q /\ b \in 1 .. s /\ IsChain(b, s)
    BY BranchIs, BranchIsChain
  <2>2. q \in 0 .. s - 1
    BY NearestIs
  <2>3. b \in Slaves /\ q \in Slaves
    BY <1>0, <2>1, <2>2
  <2>4. q \in 0 .. b - 1
    BY <1>0, <2>1, <2>3
  <2> QED BY <1>0, <2>1, <2>3, <2>4 DEF Children
<1>2. /\ r \in Ports /\ p \in Ports /\ Behind(q, r) = q + 1 .. b - 1
      /\ Behind(q, r) \subseteq Behind(q, p)
      /\ Behind(q, p) \ Behind(q, r) = Sub(b)
  <2> HIDE DEF b
  <2> QED BY <1>0, <1>1, BehindBranch, ChildPorts, ZenonT(30)
<1>3. l \in Ports /\ Behind(s, l) = Sub(s) \ {s}
  BY <1>0, BehindLastPort
<1>4. E \in Nat /\ D \in Nat /\ O \in Nat /\ E = 2 * O + D
  <2>1. E \in Nat /\ D \in Nat /\ O \in Nat /\ Total(Twice(b .. s)) = 2 * O
    BY TwiceSums, OnceSums
  <2>2. Sub(b) = (b .. s) \cup (Sub(s) \ {s}) /\ (b .. s) \cap (Sub(s) \ {s}) = {}
    <3> HIDE DEF b
    <3> QED BY <1>0, <1>1, SubOfChain
  <2>3. b .. s \subseteq Sub(b) /\ Sub(b) \ (b .. s) = Sub(s) \ {s}
    BY <2>2
  <2>4. Total(Twice(Sub(b))) = Total(Twice(b .. s)) + Total(Twice(Sub(b) \ (b .. s)))
    BY <2>3, TwiceSums
  <2>5. E = Total(Twice(b .. s)) + D
    BY <2>3, <2>4
  <2> QED BY <2>1, <2>5
<1>5. /\ Stay(q, p) \in Nat /\ Stay(q, r) \in Nat /\ Stay(q, p) = Stay(q, r) + E /\ Stay(q, p) < Half
      /\ Stay(s, l) \in Nat /\ Stay(s, l) = D /\ Stay(s, l) < Half /\ Stay(q, r) < Half
  <2>1. Total(Twice(Behind(q, p))) = Total(Twice(Behind(q, r))) + E
    <3> DEFINE X == Behind(q, p)
               Y == Behind(q, r)
    <3>1. Y \subseteq X /\ X \ Y = Sub(b)
      BY <1>2
    <3> HIDE DEF X, Y
    <3>2. Total(Twice(X)) = Total(Twice(Y)) + Total(Twice(X \ Y))
      BY <3>1, TwiceSums
    <3> QED BY <3>1, <3>2 DEF X, Y
  <2>2. /\ Stay(q, p) = Total(Twice(Behind(q, p))) /\ Stay(q, r) = Total(Twice(Behind(q, r)))
        /\ Stay(s, l) = Total(Twice(Behind(s, l)))
        /\ Stay(q, p) \in Nat /\ Stay(q, r) \in Nat /\ Stay(s, l) \in Nat
    BY <1>1, <1>2, <1>3, StayIs
  <2>3. Stay(q, p) < Half /\ Stay(q, r) < Half /\ Stay(s, l) < Half
    BY <1>1, <1>2, <1>3, LatchedIs
  <2>4. Stay(s, l) = D
    BY <1>3, <2>2
  <2> QED BY <2>1, <2>2, <2>3, <2>4
<1>6. /\ Met(q) \in Int /\ DCrt[q][p] = Met(q) + Stay(q, p) /\ DCrt[q][r] = Met(q) + Stay(q, r)
      /\ DCrt[q][entryport[q]] = Met(q)
      /\ Met(s) \in Int /\ Latched(s)[l] = Met(s) + Stay(s, l) /\ Latched(s)[0] = Met(s)
  <2>1. 0 \in Ports
    BY DEF Ports
  <2>2. /\ Met(q) \in Int /\ Latched(q)[p] = Met(q) + Stay(q, p) /\ Latched(q)[r] = Met(q) + Stay(q, r)
        /\ Latched(q)[0] = Met(q) + Stay(q, 0) /\ Stay(q, 0) = 0
    BY <1>1, <1>2, <2>1, LatchedIs, StayIs
  <2>3. /\ Met(s) \in Int /\ Latched(s)[l] = Met(s) + Stay(s, l)
        /\ Latched(s)[0] = Met(s) + Stay(s, 0) /\ Stay(s, 0) = 0
    BY <1>1, <1>3, <2>1, LatchedIs, StayIs
  <2> QED BY <2>2, <2>3
<1>7. Signed(DCrt[q][p] - DCrt[q][r]) = E
  <2> HIDE DEF p, r, E, D, O
  <2>1. DCrt[q][p] - DCrt[q][r] = E /\ E < Half
    BY <1>4, <1>5, <1>6, HalfIs
  <2> QED BY <1>4, <2>1, SignedSmall
<1>8. (IF Topology(s) > 1 THEN Signed(Latched(s)[l] - Latched(s)[0]) ELSE 0) = D
  <2>1. CASE Topology(s) > 1
    <3> HIDE DEF l, D, E
    <3>1. Latched(s)[l] - Latched(s)[0] = D /\ D < Half
      BY <1>4, <1>5, <1>6
    <3> QED BY <1>4, <2>1, <3>1, SignedSmall
  <2>2. CASE ~ (Topology(s) > 1)
    <3>1. /\ IsFiniteSet(Children(s)) /\ Cardinality(Children(s)) \in Nat
          /\ Topology(s) = 1 + Cardinality(Children(s))
      BY <1>0, LinkCount DEF Topology
    <3>2. Cardinality(Children(s)) = 0
      BY <2>2, <3>1
    <3>3. Children(s) = {}
      BY <3>1, <3>2, FS_EmptySet
    <3>4. Sub(s) \ {s} = {}
      BY <1>0, <3>3, NoBranches
    <3>5. D = 0
      BY <3>4, TwiceSums
    <3> QED BY <2>2, <3>5
  <2> QED BY <2>1, <2>2
<1>9. (IF b - q > 1 THEN Abs(Signed(DCrt[q][r] - DCrt[q][entryport[q]])) ELSE 0) = Stay(q, r)
  <2>1. CASE b - q > 1
    <3> HIDE DEF r, b
    <3>1. DCrt[q][r] - DCrt[q][entryport[q]] = Stay(q, r)
      BY <1>5, <1>6
    <3>2. Signed(Stay(q, r)) = Stay(q, r) /\ Abs(Stay(q, r)) = Stay(q, r)
      BY <1>5, SignedSmall, AbsIs
    <3> QED BY <2>1, <3>1, <3>2
  <2>2. CASE ~ (b - q > 1)
    <3>1. Behind(q, r) = {}
      <4> HIDE DEF b, r
      <4>1. b = q + 1
        BY <1>0, <1>1, <2>2
      <4>2. q + 1 .. b - 1 = {}
        BY <1>0, <1>1, <4>1
      <4> QED BY <1>2, <4>2
    <3>2. Stay(q, r) = 0
      <4>1. Behind(q, r) \cap Slaves = {}
        BY <3>1, Zenon
      <4>2. Total(Twice(Behind(q, r))) = 0
        BY <4>1, TwiceSums, Zenon
      <4>3. Stay(q, r) = Total(Twice(Behind(q, r)))
        BY <1>1, <1>2, StayIs, ZenonT(30)
      <4> QED BY <4>2, <4>3, Zenon
    <3> QED BY <2>2, <3>2
  <2> QED BY <2>1, <2>2
<1>10. Arrival(s) = Arrival(q) + O + Stay(q, r) /\ Arrival(q) \in Nat
  BY <1>1, ArrivalAdds, ArrivalIs
<1>11. Delay(q, p, Latched(s), 0)
        = LET dt3 == Signed(DCrt[q][p] - DCrt[q][r])
              below == IF Topology(s) > 1 THEN Signed(Latched(s)[l] - Latched(s)[0]) ELSE 0
              dt1 == IF below > dt3 THEN - below ELSE below
              dt2 == IF b - q > 1 THEN Abs(Signed(DCrt[q][r] - DCrt[q][entryport[q]])) ELSE 0
          IN  Halved(dt3 - dt1) + dt2 + pdelay[q]
  BY DEF Delay
<1>12. Delay(q, p, Latched(s), 0) = Halved(E - (IF D > E THEN - D ELSE D)) + Stay(q, r) + pdelay[q]
  <2> HIDE DEF p, r, l, E, D, O, b
  <2> QED BY <1>7, <1>8, <1>9, <1>11
<1>13. Halved(E - (IF D > E THEN - D ELSE D)) = O
  <2> HIDE DEF E, D, O
  <2>1. E - (IF D > E THEN - D ELSE D) = 2 * O
    BY <1>4
  <2> QED BY <1>4, <2>1, Halves
<1> QED
  <2> HIDE DEF p, r, l, E, D, O, b
  <2>1. Delay(q, p, Latched(s), 0) = Arrival(s) - Arrival(q) + pdelay[q]
    BY <1>4, <1>5, <1>10, <1>12, <1>13
  <2> QED BY <2>1 DEF p, b

----------------------------------------------------------------------------
(* Types.                                                                     *)

\* The bus has the types the constants give it.
BusTypes == hasdc \in [Slaves -> BOOLEAN] /\ delay \in [Slaves -> Nat] /\ clock \in [Slaves -> Int]

TypeInv == TopologyInv /\ BusTypes /\ BusTypeOK

\* Unless a clock passes its end another port may have the lowest time; there
\* is always one.
LEMMA EntryPortType ==
  ASSUME NEW s \in Slaves, NEW rt \in [Ports -> - Half .. Half - 1],
         0 \in activeports[s], activeports[s] \subseteq Ports
  PROVE  EntryPort(s, rt) \in activeports[s]
<1> DEFINE A == activeports[s]
           code(p) == 5 * (rt[p] + Half) + Place(p)
           U == {code(p) : p \in A}
           E(p) == \A q \in A : rt[p] < rt[q] \/ (rt[p] = rt[q] /\ Place(p) <= Place(q))
<1>1. \A p \in A : rt[p] + Half \in Nat /\ Place(p) \in 1 .. 4 /\ rt[p] \in Int /\ p \in Ports
  <2> SUFFICES ASSUME NEW p \in A
               PROVE  rt[p] + Half \in Nat /\ Place(p) \in 1 .. 4 /\ rt[p] \in Int /\ p \in Ports
    OBVIOUS
  <2>1. p \in Ports /\ rt[p] \in - Half .. Half - 1 /\ Half \in Nat
    BY HalfIs
  <2> QED BY <2>1, PortPlaces
<1>2. U \in SUBSET Nat /\ U # {}
  <2>1. \A p \in A : code(p) \in Nat
    <3> SUFFICES ASSUME NEW p \in A
                 PROVE  code(p) \in Nat
      OBVIOUS
    <3>1. rt[p] + Half \in Nat /\ Place(p) \in Nat
      BY <1>1
    <3> QED BY <3>1
  <2> HIDE DEF code
  <2> QED BY <2>1
<1>3. PICK m \in U : \A k \in U : m <= k
  <2> HIDE DEF U
  <2> QED BY <1>2, LeastOf
<1>4. PICK p \in A : m = code(p)
  OBVIOUS
<1>5. E(p)
  <2> SUFFICES ASSUME NEW q \in A
               PROVE  rt[p] < rt[q] \/ (rt[p] = rt[q] /\ Place(p) <= Place(q))
    OBVIOUS
  <2>1. code(p) <= code(q)
    <3> HIDE DEF code
    <3> QED BY <1>3, <1>4
  <2>2. /\ rt[p] \in Int /\ rt[q] \in Int /\ Place(p) \in 1 .. 4 /\ Place(q) \in 1 .. 4
        /\ rt[p] + Half \in Nat /\ rt[q] + Half \in Nat /\ Half \in Nat
    BY <1>1, HalfIs
  <2>3. 5 * (rt[p] + Half) + Place(p) <= 5 * (rt[q] + Half) + Place(q)
    BY <2>1
  <2> QED BY <2>2, <2>3
<1>6. EntryPort(s, rt) = CHOOSE x \in A : E(x)
  BY DEF EntryPort
<1> QED
  <2> HIDE DEF E, A
  <2>1. EntryPort(s, rt) \in A
    BY <1>4, <1>5, <1>6
  <2> QED BY <2>1 DEF A

\* The registers are int32.
LEMMA LatchedType ==
  ASSUME Clocking, NEW s \in Slaves
  PROVE  Latched(s) \in [Ports -> - Half .. Half - 1]
<1>1. ASSUME NEW p \in Ports
      PROVE  Signed(clock[s] + Arrival(s) + (IF p = 0 THEN 0 ELSE Stay(s, p))) \in - Half .. Half - 1
  <2> DEFINE x == clock[s] + Arrival(s) + (IF p = 0 THEN 0 ELSE Stay(s, p))
  <2>1. clock[s] \in Int /\ Arrival(s) \in Nat /\ Stay(s, p) \in Nat
    BY ArrivalIs, StayIs DEF Clocking
  <2>2. x \in Int
    BY <2>1
  <2> HIDE DEF x
  <2>3. Signed(x) \in - Half .. Half - 1
    BY <2>2, SignedType
  <2> QED BY <2>3 DEF x
<1> QED
  BY <1>1 DEF Latched

\* The searches among the ports return ports.
LEMMA PortTypes ==
  /\ \A q : ParentPort(q) \in Ports
  /\ \A s, p : p \in Ports => PrevPort(s, p) \in Ports
<1>1. ASSUME NEW q
      PROVE  ParentPort(q) \in Ports
  BY FirstIs DEF ParentPort, Ports
<1>2. ASSUME NEW s, NEW p \in Ports
      PROVE  PrevPort(s, p) \in Ports
  <2> DEFINE A == activeports[s]
  <2>1. CASE p = 0
    BY <2>1, FirstIs DEF PrevPort, Ports
  <2>2. CASE p = 1
    BY <2>2, FirstIs DEF PrevPort, Ports
  <2>3. CASE p = 2
    BY <2>3, FirstIs DEF PrevPort, Ports
  <2>4. CASE p = 3
    BY <2>4, FirstIs DEF PrevPort, Ports
  <2> QED BY <2>1, <2>2, <2>3, <2>4 DEF Ports
<1> QED
  BY <1>1, <1>2

\* A delay is an integer, whatever the times are.
LEMMA DelayType ==
  ASSUME TypeInv, NEW q \in Slaves, NEW p \in Ports, NEW rt \in [Ports -> - Half .. Half - 1], NEW e \in Ports
  PROVE  Delay(q, p, rt, e) \in Int
<1> DEFINE dt3 == Signed(DCrt[q][p] - DCrt[q][PrevPort(q, p)])
           below == IF Topology(slave) > 1 THEN Signed(rt[PrevPort(slave, e)] - rt[e]) ELSE 0
           dt1 == IF below > dt3 THEN - below ELSE below
           dt2 == IF Child[slave] - q > 1
                    THEN Abs(Signed(DCrt[q][PrevPort(q, p)] - DCrt[q][entryport[q]])) ELSE 0
<1>0. Half \in Nat /\ - Half \in Int
  BY HalfIs
<1>1. ASSUME NEW x \in Int, NEW y \in Int
      PROVE  Signed(x - y) \in Int
  <2> DEFINE z == x - y
  <2>1. z \in Int
    OBVIOUS
  <2> HIDE DEF z
  <2>2. Signed(z) \in - Half .. Half - 1
    BY <2>1, SignedType
  <2> QED BY <1>0, <2>2 DEF z
<1>2. \A a \in Ports : DCrt[q][a] \in Int /\ rt[a] \in Int
  <2> SUFFICES ASSUME NEW a \in Ports
               PROVE  DCrt[q][a] \in Int /\ rt[a] \in Int
    OBVIOUS
  <2>1. DCrt[q][a] \in - Half .. Half - 1 /\ rt[a] \in - Half .. Half - 1
    <3>1. DCrt \in [Slaves -> [Ports -> - Half .. Half - 1]]
      BY DEF TypeInv, BusTypeOK
    <3> QED BY <3>1
  <2> QED BY <1>0, <2>1
<1>3. PrevPort(q, p) \in Ports /\ PrevPort(slave, e) \in Ports /\ entryport[q] \in Ports /\ pdelay[q] \in Int
  BY PortTypes DEF TypeInv, BusTypeOK
<1>4. dt3 \in Int
  BY <1>1, <1>2, <1>3
<1>5. below \in Int
  BY <1>1, <1>2, <1>3
<1>6. dt1 \in Int
  <2> HIDE DEF dt3, below
  <2> QED BY <1>4, <1>5
<1>7. \A x \in Int : Halved(x) \in Int /\ Abs(x) \in Int
  BY DEF Halved, Abs
<1>8. dt2 \in Int
  <2> DEFINE x == Signed(DCrt[q][PrevPort(q, p)] - DCrt[q][entryport[q]])
  <2>1. x \in Int
    BY <1>1, <1>2, <1>3
  <2> HIDE DEF x
  <2>2. Abs(x) \in Int
    BY <1>7, <2>1
  <2> QED BY <2>2 DEF x
<1>9. Delay(q, p, rt, e) = Halved(dt3 - dt1) + dt2 + pdelay[q]
  BY DEF Delay
<1> QED
  <2> HIDE DEF dt3, dt1, dt2, below
  <2>1. dt3 - dt1 \in Int
    BY <1>4, <1>6
  <2>2. Halved(dt3 - dt1) \in Int
    BY <1>7, <2>1
  <2> QED BY <1>3, <1>8, <1>9, <2>2

\* Types hold at first ...
LEMMA TypesStart == BusInit => TypeInv
<1> SUFFICES ASSUME BusInit PROVE TypeInv
  OBVIOUS
<1>1. /\ N \in Nat \ {0} /\ Half \in Nat \ {0}
      /\ \A d \in Delays : d \in [1 .. N -> Nat]
      /\ \A c \in Clocks : c \in [1 .. N -> Int]
  BY ClocksAssumption DEF ClocksAssumption
<1>2. BusTypes
  BY <1>1 DEF BusInit, BusTypes, Slaves
<1>3. TopologyInv
  BY TopologyStarts
<1>4. BusTypeOK
  <2>1. 0 \in - Half .. Half - 1 /\ 0 \in Ports /\ {} \in SUBSET Ports /\ 0 \in 0 .. N /\ 1 \in 1 .. N + 1
    BY <1>1 DEF Ports
  <2>2. DCrt \in [Slaves -> [Ports -> - Half .. Half - 1]]
    <3>1. [p \in Ports |-> 0] \in [Ports -> - Half .. Half - 1]
      BY <2>1
    <3> QED BY <3>1 DEF BusInit
  <2>3. /\ consumedports \in [Slaves -> SUBSET Ports] /\ entryport \in [Slaves -> Ports]
        /\ parentport \in [Slaves -> Ports] /\ pdelay \in [Slaves -> Int]
    BY <2>1 DEF BusInit
  <2>4. at = "init" /\ slave = 1 /\ parenthold = 0
    BY DEF BusInit
  <2>5. activeports \in [Slaves -> SUBSET Ports] /\ parent \in [Slaves -> 0 .. N - 1]
    BY <1>3 DEF TopologyInv
  <2> QED BY <2>1, <2>2, <2>3, <2>4, <2>5 DEF BusTypeOK
<1> QED BY <1>2, <1>3, <1>4 DEF TypeInv

\* ... and once all parents are found they are what the lemmas about clocks ask for.
LEMMA IsClocking ==
  ASSUME TypeInv, at # "init"
  PROVE  /\ Clocking /\ \A s \in Slaves : activeports[s] = Links(s) /\ activeports[s] \subseteq Ports /\ 0 \in activeports[s]
         /\ Slaves = 1 .. N /\ N \in Nat \ {0}
<1>1. Clocking /\ BusShape /\ \A s \in Slaves : activeports[s] = Links(s)
  BY DEF TypeInv, TopologyInv, BusTypes, Clocking
<1> QED
  BY <1>1, LinksArePorts, UpIsBefore DEF Slaves

\* Every step keeps them.
LEMMA TypesKept ==
  ASSUME TypeInv, [BusNext]_busVars
  PROVE  TypeInv'
<1>0. /\ N \in Nat \ {0} /\ Slaves = 1 .. N /\ TopologyInv /\ BusTypeOK /\ BusTypes
      /\ slave \in 1 .. N + 1
  BY ClocksAssumption DEF ClocksAssumption, TypeInv, TopologyInv, Slaves
<1>1. TopologyInv'
  BY <1>0, TopologyKept
<1>2. BusTypes'
  <2>1. UNCHANGED <<hasdc, delay, clock>>
    BY DEF BusNext, FindParent, AllFound, WithClock, WithoutClock, Configured, busVars, bus
  <2> QED BY <1>0, <2>1 DEF BusTypes
<1>3. activeports' \in [Slaves -> SUBSET Ports] /\ parent' \in [Slaves -> 0 .. N - 1] /\ slave' \in 1 .. N + 1
  BY <1>1 DEF TopologyInv, Slaves
<1> DEFINE Computed == /\ consumedports \in [Slaves -> SUBSET Ports] /\ DCrt \in [Slaves -> [Ports -> - Half .. Half - 1]]
                   /\ entryport \in [Slaves -> Ports] /\ parentport \in [Slaves -> Ports]
                   /\ pdelay \in [Slaves -> Int] /\ parenthold \in 0 .. N
<1>4. Computed /\ at \in {"init", "dc", "done"}
  BY <1>0 DEF BusTypeOK
<1>5. Computed' /\ at' \in {"init", "dc", "done"}
  <2>1. CASE FindParent \/ AllFound \/ Configured \/ UNCHANGED busVars
    <3>1. UNCHANGED <<consumedports, DCrt, entryport, parentport, pdelay, parenthold>> /\ at' \in {"init", "dc", "done"}
      BY <1>4, <2>1 DEF FindParent, AllFound, Configured, busVars
    <3> QED BY <1>4, <3>1
  <2>2. CASE WithClock
    <3> DEFINE rt == Latched(slave)
               entry == EntryPort(slave, rt)
               dp == DCParent[parent[slave]]
               pport == IF Topology(dp) = 1 THEN entryport[dp] ELSE ParentPort(dp)
    <3>1. /\ at = "dc" /\ at' = at /\ slave <= N
          /\ DCrt' = [DCrt EXCEPT ![slave] = rt]
          /\ entryport' = [entryport EXCEPT ![slave] = entry]
          /\ IF dp = 0
               THEN /\ consumedports' = [consumedports EXCEPT ![slave] = activeports[slave] \ {entry}]
                    /\ UNCHANGED <<parentport, pdelay>>
               ELSE /\ consumedports' = [consumedports EXCEPT ![slave] = activeports[slave] \ {entry},
                                                              ![dp] = @ \ {ParentPort(dp)}]
                    /\ parentport' = [parentport EXCEPT ![slave] = pport]
                    /\ pdelay' = [pdelay EXCEPT ![slave] = Delay(dp, pport, rt, entry)]
          /\ parenthold' = 0
      BY <2>2 DEF WithClock
    <3>2. slave \in Slaves /\ at # "init"
      BY <1>0, <3>1
    <3>3. Clocking /\ activeports[slave] \subseteq Ports /\ 0 \in activeports[slave]
      BY <3>2, IsClocking
    <3>4. rt \in [Ports -> - Half .. Half - 1]
      BY <3>2, <3>3, LatchedType
    <3>5. entry \in Ports
      <4> HIDE DEF rt
      <4> QED BY <3>2, <3>3, <3>4, EntryPortType
    <3>6. dp = 0 \/ dp \in Slaves
      <4>1. dp = Nearest(slave) /\ Nearest(slave) \in 0 .. slave - 1
        BY <3>2, <3>3, NearestIs DEF Clocking
      <4> QED BY <1>0, <3>2, <4>1
    <3>7. dp # 0 => pport \in Ports
      <4> HIDE DEF dp
      <4> QED BY <1>4, <3>6, PortTypes
    <3>8. dp # 0 => Delay(dp, pport, rt, entry) \in Int
      <4> HIDE DEF dp, pport, rt, entry
      <4> QED BY <3>4, <3>5, <3>6, <3>7, DelayType
    <3> HIDE DEF dp, pport, rt, entry
    <3>9. DCrt' \in [Slaves -> [Ports -> - Half .. Half - 1]]
      BY <1>4, <3>1, <3>4
    <3>10. entryport' \in [Slaves -> Ports]
      BY <1>4, <3>1, <3>5
    <3>11. consumedports' \in [Slaves -> SUBSET Ports]
      <4> DEFINE own == [consumedports EXCEPT ![slave] = activeports[slave] \ {entry}]
                 left == own[dp] \ {ParentPort(dp)}
      <4>1. own \in [Slaves -> SUBSET Ports]
        <5>1. activeports[slave] \ {entry} \in SUBSET Ports
          BY <3>3
        <5> QED BY <1>4, <5>1
      <4>2. consumedports' = own \/ (dp \in Slaves /\ consumedports' = [own EXCEPT ![dp] = left])
        BY <3>1, <3>6
      <4>3. dp \in Slaves => left \in SUBSET Ports
        <5> HIDE DEF own
        <5> QED BY <4>1
      <4> HIDE DEF own, left
      <4> QED BY <4>1, <4>2, <4>3
    <3>12. parentport' \in [Slaves -> Ports]
      BY <1>4, <3>1, <3>7
    <3>13. pdelay' \in [Slaves -> Int]
      BY <1>4, <3>1, <3>8
    <3>14. parenthold' \in 0 .. N
      BY <1>0, <3>1
    <3> QED BY <3>1, <3>9, <3>10, <3>11, <3>12, <3>13, <3>14
  <2>3. CASE WithoutClock
    <3> DEFINE p == parent[slave]
               hold == IF p > 0 /\ Topology(p) > 2 THEN p ELSE parenthold
               reset == [consumedports EXCEPT ![slave] = activeports[slave]]
    <3>1. /\ at = "dc" /\ at' = at /\ slave <= N
          /\ IF hold > 0 /\ Topology(slave) = 1
               THEN /\ consumedports' = [reset EXCEPT ![hold] = reset[hold] \ {FirstOf(<<3, 1, 2>>, reset[hold], 0)}]
                    /\ parenthold' = 0
               ELSE /\ consumedports' = reset
                    /\ parenthold' = hold
          /\ UNCHANGED <<DCrt, entryport, parentport, pdelay>>
      BY <2>3 DEF WithoutClock
    <3>2. slave \in Slaves /\ at # "init"
      BY <1>0, <3>1
    <3>3. activeports[slave] \subseteq Ports /\ p \in 0 .. N
      <4>1. p \in 0 .. N - 1
        BY <1>0, <3>2 DEF TopologyInv
      <4>2. p \in 0 .. N
        <5> HIDE DEF p
        <5> QED BY <1>0, <4>1
      <4> QED BY <3>2, <4>2, IsClocking
    <3>4. hold \in 0 .. N
      BY <1>4, <3>3
    <3>5. reset \in [Slaves -> SUBSET Ports]
      BY <1>4, <3>2, <3>3
    <3> HIDE DEF p, hold, reset
    <3>6. consumedports' \in [Slaves -> SUBSET Ports] /\ parenthold' \in 0 .. N
      <4>1. CASE hold > 0 /\ Topology(slave) = 1
        <5>1. hold \in Slaves
          BY <1>0, <3>4, <4>1
        <5> DEFINE left == reset[hold] \ {FirstOf(<<3, 1, 2>>, reset[hold], 0)}
        <5>2. left \in SUBSET Ports
          BY <3>5, <5>1
        <5>3. consumedports' = [reset EXCEPT ![hold] = left] /\ parenthold' = 0
          BY <3>1, <4>1
        <5> HIDE DEF left
        <5>4. [reset EXCEPT ![hold] = left] \in [Slaves -> SUBSET Ports]
          BY <3>5, <5>2
        <5>5. 0 \in 0 .. N
          BY <1>0
        <5> QED BY <5>3, <5>4, <5>5
      <4>2. CASE ~ (hold > 0 /\ Topology(slave) = 1)
        BY <3>1, <3>4, <3>5, <4>2
      <4> QED BY <4>1, <4>2
    <3> QED BY <1>4, <3>1, <3>6
  <2> QED BY <2>1, <2>2, <2>3 DEF BusNext
<1>6. BusTypeOK'
  <2> HIDE DEF Computed
  <2>1. Computed' => /\ (consumedports \in [Slaves -> SUBSET Ports])' /\ (DCrt \in [Slaves -> [Ports -> - Half .. Half - 1]])'
                 /\ (entryport \in [Slaves -> Ports])' /\ (parentport \in [Slaves -> Ports])'
                 /\ (pdelay \in [Slaves -> Int])' /\ (parenthold \in 0 .. N)'
    BY DEF Computed
  <2> QED BY <1>3, <1>5, <2>1 DEF BusTypeOK
<1> QED
  BY <1>1, <1>2, <1>6 DEF TypeInv

\* The variables of config_init and configdc keep their types, on every bus and
\* for all times.
THEOREM BusTypesAreRight == BusSpec => []BusTypeOK
<1>1. TypeInv => BusTypeOK
  BY DEF TypeInv
<1> QED
  BY <1>1, TypesStart, TypesKept, PTL DEF BusSpec

----------------------------------------------------------------------------
(* The ports of the clocks and the delays.                                    *)

\* The branches of q that have not been ended before slave n: those to come, and
\* the one that n is on.
Open(q, n) == {c \in Children(q) : c >= n \/ (n \in Slaves /\ c = Child[n])}
\* The ports of their parent that slaves are at.
PortsOf(C) == {port[c] : c \in C}
\* A clock that has several branches.
Forks(q) == q > 0 /\ hasdc[q] /\ Cardinality(Children(q)) > 1

\* Nothing goes on from n to the next slave but a frame.
Ends(n) == hasdc[n] \/ Children(n) = {}

\* A clock with several branches is remembered within a branch.
HoldAt(n) == IF n \in Slaves /\ Child[n] # n /\ Forks(Nearest(n)) THEN Nearest(n) ELSE 0

\* Of each clock the ports of its open branches are left: with several branches
\* exactly these, and with one perhaps more, for it is not looked at again.
OpenPorts(n) ==
  \A q \in 1 .. n - 1 : hasdc[q] =>
    /\ PortsOf(Open(q, n)) \subseteq consumedports[q] /\ consumedports[q] \subseteq PortsOf(Children(q))
    /\ Forks(q) => consumedports[q] = PortsOf(Open(q, n))

\* The times of each clock are those latched, and the frame came in at port 0.
Times(n) == \A q \in 1 .. n - 1 : hasdc[q] => entryport[q] = 0 /\ DCrt[q] = Latched(q)
\* The two properties, for the slaves before n.
PortsTrue(n) == \A s \in Clocked : s < n => parentport[s] = port[Branch(s)]
DelaysTrue(n) ==
  \A s \in Clocked : s < n => pdelay[s] - pdelay[Nearest(s)] = Arrival(s) - Arrival(Nearest(s))

ClocksDone(n) == parenthold = HoldAt(n) /\ OpenPorts(n) /\ Times(n) /\ PortsTrue(n) /\ DelaysTrue(n)

ClockInv ==
  /\ TypeInv
  /\ at = "init" => parenthold = 0
  /\ at = "done" => slave = N + 1
  /\ at # "init" /\ Plain /\ Unwrapped => ClocksDone(slave)

\* The way to the clock above goes on through a slave without one.
LEMMA NextSlave ==
  ASSUME Clocking, Straight, NEW n \in Slaves
  PROVE  /\ Ends(n) => (n + 1 \in Slaves => Child[n + 1] = n + 1)
         /\ ~ Ends(n) => /\ n + 1 \in Slaves /\ up[n + 1] = n
                         /\ Child[n + 1] = Child[n] /\ Nearest(n + 1) = Nearest(n)
<1>0. BusShape /\ N \in Nat \ {0} /\ Slaves = 1 .. N /\ \A t \in Slaves : up[t] \in 0 .. t - 1
  BY UpIsBefore DEF Clocking, Slaves
<1>1. ASSUME Ends(n), n + 1 \in Slaves
      PROVE  Child[n + 1] = n + 1
  <2>1. Child[n + 1] = IF up[n + 1] = 0 \/ hasdc[up[n + 1]] THEN n + 1 ELSE Child[up[n + 1]]
    BY <1>1, ChildIs
  <2>2. up[n + 1] = 0 \/ hasdc[up[n + 1]]
    <3> SUFFICES ASSUME up[n + 1] # 0, ~ hasdc[up[n + 1]] PROVE FALSE
      OBVIOUS
    <3>1. up[n + 1] = (n + 1) - 1
      BY <1>0, <1>1, StraightOn
    <3>2. up[n + 1] = n
      BY <1>0, <3>1
    <3>3. n + 1 \in Children(n)
      BY <1>1, <3>2 DEF Children
    <3> QED BY <1>1, <3>2, <3>3 DEF Ends
  <2> QED BY <2>1, <2>2
<1>2. ASSUME ~ Ends(n)
      PROVE  /\ n + 1 \in Slaves /\ up[n + 1] = n
             /\ Child[n + 1] = Child[n] /\ Nearest(n + 1) = Nearest(n)
  <2>1. ~ hasdc[n] /\ n + 1 \in Children(n)
    BY <1>0, <1>2, FirstBranch DEF Ends
  <2>2. n + 1 \in Slaves /\ up[n + 1] = n
    BY <2>1 DEF Children
  <2>3. Child[n + 1] = Child[n]
    BY <1>0, <2>1, <2>2, ChildIs, SMTT(30)
  <2>4. DCParent[up[n + 1]] = Nearest(n + 1) /\ DCParent[up[n]] = Nearest(n)
    BY <2>2, NearestIs
  <2>5. DCParent[n] = DCParent[up[n]]
    BY <2>1, DCParentIs
  <2> QED BY <2>2, <2>3, <2>4, <2>5
<1> QED BY <1>1, <1>2

\* The branches left before a slave and after it.
LEMMA OpenBranches ==
  ASSUME Clocking, Straight, NEW n \in Slaves, NEW q \in Slaves, hasdc[q]
  PROVE  LET later == {c \in Children(q) : c > n}
         IN  /\ Open(q, n) = IF q = Nearest(n) THEN later \cup {Child[n]} ELSE later
             /\ Open(q, n + 1) = IF Ends(n) THEN later ELSE Open(q, n)
<1> DEFINE later == {c \in Children(q) : c > n}
<1>0. BusShape /\ N \in Nat \ {0} /\ Slaves = 1 .. N /\ n \in 1 .. N
  BY UpIsBefore DEF Clocking, Slaves
<1>1. up[Child[n]] = Nearest(n) /\ Child[n] \in 1 .. n /\ Child[n] \in Slaves
  BY <1>0, BranchIs
<1>2. Child[n] \in Children(q) <=> q = Nearest(n)
  BY <1>1 DEF Children
<1>3. n \in Children(q) => Child[n] = n
  BY ChildIs DEF Children
<1>4. \A c \in Children(q) : c \in Int
  BY <1>0 DEF Children
<1>5. Open(q, n) = {c \in Children(q) : c > n \/ c = Child[n]}
  <2>1. \A c \in Children(q) : c >= n <=> c > n \/ c = n
    BY <1>0, <1>4
  <2> QED BY <1>3, <2>1 DEF Open
<1>6. Open(q, n) = IF q = Nearest(n) THEN later \cup {Child[n]} ELSE later
  BY <1>2, <1>5
<1>7. \A c \in Children(q) : c >= n + 1 <=> c > n
  BY <1>0, <1>4
<1>8. CASE Ends(n)
  <2>1. n + 1 \in Slaves => Child[n + 1] = n + 1
    BY <1>8, NextSlave
  <2>2. n + 1 > n
    BY <1>0
  <2>3. Open(q, n + 1) = later
    BY <1>7, <2>1, <2>2 DEF Open
  <2> QED BY <1>6, <1>8, <2>3
<1>9. CASE ~ Ends(n)
  <2>1. n + 1 \in Slaves /\ Child[n + 1] = Child[n]
    BY <1>9, NextSlave
  <2>2. Open(q, n + 1) = {c \in Children(q) : c > n \/ c = Child[n]}
    BY <1>7, <2>1 DEF Open
  <2> QED BY <1>5, <1>6, <1>9, <2>2
<1> QED BY <1>8, <1>9

\* The port that is taken next is the one of the branch that n is on.
LEMMA NextPort ==
  ASSUME Clocking, Straight, NEW n \in Slaves, OpenPorts(n), NEW q, q = Nearest(n), q # 0
  PROVE  /\ q \in Slaves /\ q \in 1 .. n - 1 /\ hasdc[q] /\ Child[n] \in Children(q)
         /\ FirstOf(<<3, 1, 2>>, consumedports[q], 0) = port[Child[n]]
         /\ port[Child[n]] \in PortsOf(Open(q, n))
         /\ PortsOf({c \in Children(q) : c > n}) = PortsOf(Open(q, n)) \ {port[Child[n]]}
<1> DEFINE b == Child[n]
           K == consumedports[q]
           later == {c \in Children(q) : c > n}
<1>0. BusShape /\ N \in Nat \ {0} /\ Slaves = 1 .. N /\ n \in 1 .. N
  BY UpIsBefore DEF Clocking, Slaves
<1>1. q \in 1 .. n - 1 /\ hasdc[q] /\ q \in Slaves
  BY <1>0, NearestIs
<1>2. b \in Children(q) /\ b <= n /\ b \in Int
  BY <1>0, BranchIs DEF Children
<1>3. Open(q, n) = later \cup {b}
  BY <1>1, OpenBranches
<1>4. /\ PortsOf(Open(q, n)) \subseteq K /\ K \subseteq PortsOf(Children(q))
      /\ Forks(q) => K = PortsOf(Open(q, n))
  BY <1>1 DEF OpenPorts
<1>5. port[b] \in PortsOf(Open(q, n)) /\ port[b] \in K
  BY <1>3, <1>4 DEF PortsOf
<1>6. ASSUME NEW p \in K
      PROVE  \E c \in Children(q) : p = port[c] /\ c >= b
  <2>1. CASE Forks(q)
    <3>1. PICK c \in Open(q, n) : p = port[c]
      BY <1>4, <2>1 DEF PortsOf
    <3>2. c \in Children(q) /\ c >= b
      <4>1. c \in Children(q) /\ (c = b \/ c > n)
        BY <1>2, <1>3, <3>1
      <4>2. c \in Int
        BY <1>0, <4>1 DEF Children
      <4> QED BY <1>0, <1>2, <4>1, <4>2
    <3> QED BY <3>1, <3>2
  <2>2. CASE ~ Forks(q)
    <3>1. PICK c \in Children(q) : p = port[c]
      BY <1>4 DEF PortsOf
    <3>2. c = b
      <4>1. IsFiniteSet(Children(q)) /\ Cardinality(Children(q)) \in Nat /\ Cardinality(Children(q)) <= 1
        <5>1. ~ (Cardinality(Children(q)) > 1) /\ q > 0
          BY <1>0, <1>1, <2>2 DEF Forks
        <5> QED BY <1>0, <1>1, <5>1, LinkCount
      <4>2. IsFiniteSet({b}) /\ Cardinality({b}) = 1
        BY FS_Singleton
      <4>3. {b} \in SUBSET Children(q)
        BY <1>2
      <4> HIDE DEF b
      <4>4. /\ Cardinality({b}) <= Cardinality(Children(q))
            /\ Cardinality(Children(q)) = Cardinality({b}) => Children(q) = {b}
        BY <4>1, <4>3, FS_Subset
      <4>5. Children(q) = {b}
        BY <4>1, <4>2, <4>4
      <4> QED BY <4>5
    <3> QED BY <1>2, <3>1, <3>2
  <2> QED BY <2>1, <2>2
<1>7. FirstOf(<<3, 1, 2>>, K, 0) = port[b]
  <2>1. K \in SUBSET (1 .. 3)
    <3> SUFFICES ASSUME NEW p \in K
                 PROVE  p \in 1 .. 3
      OBVIOUS
    <3>1. PICK c \in Children(q) : p = port[c] /\ c >= b
      BY <1>6
    <3> QED BY <1>0, <1>1, <3>1, ChildPorts
  <2>2. ASSUME NEW p \in K
        PROVE  Place(port[b]) <= Place(p)
    <3>1. PICK c \in Children(q) : p = port[c] /\ c >= b
      BY <1>6
    <3>2. CASE c = b
      <4>1. Place(port[b]) \in 2 .. 4
        BY <1>0, <1>1, <1>2, ChildPorts
      <4> QED BY <3>1, <3>2, <4>1
    <3>3. CASE c # b
      <4>1. c \in Int
        BY <1>0, <3>1 DEF Children
      <4>2. b < c
        BY <1>2, <3>1, <3>3, <4>1
      <4>3. Place(port[b]) < Place(port[c])
        <5> HIDE DEF b
        <5> QED BY <1>0, <1>1, <1>2, <3>1, <4>2, ChildrenInOrder
      <4>4. Place(port[b]) \in 2 .. 4 /\ Place(port[c]) \in 2 .. 4
        BY <1>0, <1>1, <1>2, <3>1, ChildPorts
      <4> QED BY <3>1, <4>3, <4>4
    <3> QED BY <3>2, <3>3
  <2> HIDE DEF K, b
  <2> QED BY <1>5, <2>1, <2>2, FirstPort
<1>8. PortsOf(later) = PortsOf(Open(q, n)) \ {port[b]}
  <2>1. \A c \in later : c \in Children(q) /\ c # b
    BY <1>0, <1>2
  <2>2. \A c \in later : port[c] # port[b]
    <3> HIDE DEF b
    <3> SUFFICES ASSUME NEW c \in later, port[c] = port[b]
                 PROVE  FALSE
      OBVIOUS
    <3>1. c \in Children(q) /\ c # b
      BY <2>1
    <3> QED BY <1>0, <1>1, <1>2, <3>1, ChildrenInOrder
  <2> HIDE DEF b, later
  <2> QED BY <1>3, <2>2 DEF PortsOf
<1> QED
  BY <1>1, <1>2, <1>5, <1>7, <1>8

----------------------------------------------------------------------------
(* The steps of configdc.                                                     *)

\* What is said of the bus stays true.
LEMMA BusKept ==
  ASSUME UNCHANGED bus, UNCHANGED found
  PROVE  /\ Plain' = Plain /\ Unwrapped' = Unwrapped /\ Clocked' = Clocked
         /\ \A q : Children(q)' = Children(q) /\ Forks(q)' = Forks(q)
         /\ \A s : /\ Nearest(s)' = Nearest(s) /\ Branch(s)' = Branch(s)
                   /\ Arrival(s)' = Arrival(s) /\ Latched(s)' = Latched(s) /\ HoldAt(s)' = HoldAt(s)
         /\ \A q, n : Open(q, n)' = Open(q, n)
         /\ \A C : PortsOf(C)' = PortsOf(C)
         /\ hasdc' = hasdc /\ port' = port
<1>0. up' = up /\ port' = port /\ delay' = delay /\ clock' = clock /\ hasdc' = hasdc /\ parent' = parent
  BY DEF bus, found
<1>1. Above' = Above /\ Child' = Child /\ DCParent' = DCParent
  BY <1>0 DEF Above, Child, DCParent
<1>2. \A q : Children(q)' = Children(q)
  BY <1>0 DEF Children
<1>3. \A q : Forks(q)' = Forks(q)
  BY <1>0, <1>2 DEF Forks
<1>4. Plain' = Plain
  BY <1>0, <1>2 DEF Plain
<1>5. \A s : Nearest(s)' = Nearest(s)
  BY <1>0, <1>1 DEF Nearest
<1>6. \A s : Branch(s)' = Branch(s)
  BY <1>0, <1>1, <1>5 DEF Branch
<1>7. \A s : Arrival(s)' = Arrival(s)
  BY <1>0, <1>1 DEF Arrival
<1>8. \A s, p : Behind(s, p)' = Behind(s, p)
  BY <1>0, <1>1 DEF Behind
<1>9. \A s, p : Stay(s, p)' = Stay(s, p)
  BY <1>0, <1>8 DEF Stay
<1>10. \A s : Latched(s)' = Latched(s)
  BY <1>0, <1>7, <1>9 DEF Latched
<1>11. Unwrapped' = Unwrapped
  BY <1>0, <1>7, <1>9 DEF Unwrapped
<1>12. Clocked' = Clocked
  BY <1>0, <1>5 DEF Clocked
<1>13. \A s : HoldAt(s)' = HoldAt(s)
  BY <1>1, <1>3, <1>5 DEF HoldAt
<1>14. \A q, n : Open(q, n)' = Open(q, n)
  BY <1>1, <1>2 DEF Open
<1>15. \A C : PortsOf(C)' = PortsOf(C)
  BY <1>0 DEF PortsOf
<1> QED
  BY <1>0, <1>2, <1>3, <1>4, <1>5, <1>6, <1>7, <1>10, <1>11, <1>12, <1>13, <1>14, <1>15

\* What is to hold after a step, with the bus as before it.
LEMMA AfterStep ==
  ASSUME UNCHANGED bus, UNCHANGED found, NEW n, n = slave',
         parenthold' = HoldAt(n),
         \A q \in 1 .. n - 1 : hasdc[q] =>
           /\ PortsOf(Open(q, n)) \subseteq consumedports'[q] /\ consumedports'[q] \subseteq PortsOf(Children(q))
           /\ Forks(q) => consumedports'[q] = PortsOf(Open(q, n)),
         \A q \in 1 .. n - 1 : hasdc[q] => entryport'[q] = 0 /\ DCrt'[q] = Latched(q),
         \A s \in Clocked : s < n => parentport'[s] = port[Branch(s)],
         \A s \in Clocked : s < n => pdelay'[s] - pdelay'[Nearest(s)] = Arrival(s) - Arrival(Nearest(s))
  PROVE  ClocksDone(slave)'
<1>0. hasdc' = hasdc /\ port' = port /\ Clocked' = Clocked
  BY BusKept
<1>1. OpenPorts(slave)'
  <2>1. \A q : PortsOf(Open(q, slave))' = PortsOf(Open(q, n))
    <3>1. Child' = Child
      BY DEF Child, found, bus
    <3>2. \A q : Children(q)' = Children(q)
      BY BusKept
    <3> QED BY <1>0, <3>1, <3>2 DEF PortsOf, Open
  <2>2. \A q : PortsOf(Children(q))' = PortsOf(Children(q)) /\ Forks(q)' = Forks(q)
    <3>1. \A q : Children(q)' = Children(q)
      BY BusKept
    <3>2. \A q : PortsOf(Children(q))' = PortsOf(Children(q))
      BY <1>0, <3>1 DEF PortsOf
    <3> QED BY <3>2, BusKept
  <2> QED BY <1>0, <2>1, <2>2 DEF OpenPorts
<1>2. Times(slave)'
  BY <1>0, BusKept DEF Times
<1>3. PortsTrue(slave)'
  BY <1>0, BusKept DEF PortsTrue
<1>4. DelaysTrue(slave)'
  <2>1. \A s : /\ (pdelay[s] - pdelay[Nearest(s)])' = pdelay'[s] - pdelay'[Nearest(s)]
               /\ (Arrival(s) - Arrival(Nearest(s)))' = Arrival(s) - Arrival(Nearest(s))
    <3> TAKE s
    <3>1. Nearest(s)' = Nearest(s) /\ Arrival(s)' = Arrival(s)
      BY BusKept
    <3>2. Arrival(Nearest(s))' = Arrival(Nearest(s))
      <4> DEFINE m == Nearest(s)
      <4>1. \A k : Arrival(k)' = Arrival(k)
        BY BusKept
      <4>2. Above' = Above
        BY DEF Above, bus
      <4> QED BY <3>1, <4>2 DEF Arrival, bus
    <3> QED BY <3>1, <3>2
  <2> QED BY <1>0, <2>1 DEF DelaysTrue
<1>5. parenthold' = HoldAt(slave)'
  <2>1. Child' = Child
    BY DEF Child, found, bus
  <2>2. Nearest(slave)' = Nearest(n) /\ \A q : Forks(q)' = Forks(q)
    <3>1. Above' = Above
      BY DEF Above, bus
    <3> QED BY <1>0, <3>1, BusKept DEF Nearest
  <2>3. Forks(Nearest(slave))' = Forks(Nearest(n))
    <3>1. \A q : Children(q)' = Children(q)
      BY BusKept
    <3> QED BY <1>0, <2>2, <3>1 DEF Forks, Children, bus
  <2>4. HoldAt(slave)' = HoldAt(n)
    BY <2>1, <2>2, <2>3 DEF HoldAt
  <2> QED BY <2>4
<1> QED
  BY <1>1, <1>2, <1>3, <1>4, <1>5 DEF ClocksDone

\* configdc at a slave with a clock (ethercatdc.c:275).
LEMMA ClockedStep ==
  ASSUME ClockInv, Plain, Unwrapped, WithClock
  PROVE  ClocksDone(slave)'
<1> DEFINE n == slave
           q == Nearest(n)
           b == Child[n]
           K == consumedports
<1>0. /\ at = "dc" /\ n \in Slaves /\ hasdc[n] /\ slave' = n + 1
      /\ UNCHANGED bus /\ UNCHANGED found
      /\ Clocking /\ Straight /\ BusShape /\ Slaves = 1 .. N /\ N \in Nat \ {0} /\ n \in 1 .. N
      /\ \A s \in Slaves : activeports[s] = Links(s)
  <2>1. at = "dc" /\ slave <= N /\ hasdc[slave] /\ slave' = slave + 1 /\ UNCHANGED bus /\ UNCHANGED found
    BY DEF WithClock
  <2>2. TypeInv
    BY DEF ClockInv
  <2>3. Clocking /\ Slaves = 1 .. N /\ N \in Nat \ {0} /\ \A s \in Slaves : activeports[s] = Links(s)
    BY <2>1, <2>2, IsClocking
  <2>4. slave \in 1 .. N + 1
    BY <2>2 DEF TypeInv, TopologyInv
  <2>5. BusShape /\ Straight
    BY <2>3, PlainIsStraight DEF Clocking
  <2> QED BY <2>1, <2>3, <2>4, <2>5
<1>1. parenthold = HoldAt(n) /\ OpenPorts(n) /\ Times(n) /\ PortsTrue(n) /\ DelaysTrue(n)
  BY <1>0 DEF ClockInv, ClocksDone
<1>2. /\ K \in [Slaves -> SUBSET Ports] /\ DCrt \in [Slaves -> [Ports -> - Half .. Half - 1]]
      /\ entryport \in [Slaves -> Ports] /\ parentport \in [Slaves -> Ports] /\ pdelay \in [Slaves -> Int]
  BY DEF ClockInv, TypeInv, BusTypeOK
<1>3. DCParent[parent[n]] = q /\ q \in 0 .. n - 1 /\ up[b] = q /\ b \in 1 .. n /\ Branch(n) = b
  <2>1. parent = up
    BY <1>0 DEF Clocking
  <2> QED BY <1>0, <2>1, NearestIs, BranchIs
<1>4. EntryPort(n, Latched(n)) = 0
  BY <1>0, EntryIsPort0
<1>5. /\ DCrt' = [DCrt EXCEPT ![n] = Latched(n)]
      /\ entryport' = [entryport EXCEPT ![n] = 0]
      /\ parenthold' = 0
      /\ q = 0 => /\ K' = [K EXCEPT ![n] = activeports[n] \ {0}]
                  /\ UNCHANGED <<parentport, pdelay>>
      /\ q # 0 => LET pport == IF Topology(q) = 1 THEN entryport[q] ELSE ParentPort(q)
                  IN  /\ K' = [K EXCEPT ![n] = activeports[n] \ {0}, ![q] = @ \ {ParentPort(q)}]
                      /\ parentport' = [parentport EXCEPT ![n] = pport]
                      /\ pdelay' = [pdelay EXCEPT ![n] = Delay(q, pport, Latched(n), 0)]
  <2> HIDE DEF q
  <2> QED BY <1>3, <1>4 DEF WithClock
<1>6. ASSUME q # 0
      PROVE  /\ q \in Slaves /\ q \in 1 .. n - 1 /\ hasdc[q] /\ ParentPort(q) = port[b] /\ Topology(q) # 1
             /\ PortsOf({c \in Children(q) : c > n}) = PortsOf(Open(q, n)) \ {port[b]}
  <2>1. /\ q \in Slaves /\ q \in 1 .. n - 1 /\ hasdc[q] /\ b \in Children(q)
        /\ FirstOf(<<3, 1, 2>>, K[q], 0) = port[b]
        /\ PortsOf({c \in Children(q) : c > n}) = PortsOf(Open(q, n)) \ {port[b]}
    BY <1>0, <1>1, <1>6, NextPort
  <2>2. ParentPort(q) = port[b]
    BY <2>1 DEF ParentPort
  <2>3. Topology(q) # 1
    <3> HIDE DEF q, b
    <3>1. /\ IsFiniteSet(Children(q)) /\ Cardinality(Children(q)) \in Nat
          /\ Topology(q) = 1 + Cardinality(Children(q))
      BY <1>0, <2>1, LinkCount DEF Topology
    <3>2. Cardinality(Children(q)) # 0
      BY <2>1, <3>1, FS_EmptySet
    <3> QED BY <3>1, <3>2
  <2> QED BY <2>1, <2>2, <2>3
<1>7. /\ q # 0 => /\ K' = [K EXCEPT ![n] = activeports[n] \ {0}, ![q] = @ \ {port[b]}]
                  /\ parentport' = [parentport EXCEPT ![n] = port[b]]
                  /\ pdelay' = [pdelay EXCEPT ![n] = Delay(q, port[b], Latched(n), 0)]
  <2> HIDE DEF q, b
  <2> QED BY <1>5, <1>6
<1>8. K'[n] = PortsOf(Children(n)) /\ Open(n, n + 1) = Children(n)
  <2>1. K'[n] = activeports[n] \ {0}
    <3> HIDE DEF q, b
    <3>1. q # n
      BY <1>0, <1>3
    <3>2. CASE q = 0
      BY <1>0, <1>2, <1>5, <3>2
    <3>3. CASE q # 0
      BY <1>0, <1>2, <1>6, <1>7, <3>1, <3>3
    <3> QED BY <3>2, <3>3
  <2>2. activeports[n] \ {0} = PortsOf(Children(n))
    <3>1. \A c \in Children(n) : port[c] # 0
      BY <1>0, ChildPorts
    <3>2. activeports[n] = {0} \cup PortsOf(Children(n)) /\ 0 \notin PortsOf(Children(n))
      BY <1>0, <3>1 DEF Links, PortsOf
    <3> QED BY <3>2
  <2>3. \A c \in Children(n) : c > n
    <3>1. \A c \in Children(n) : c \in n + 1 .. N
      BY <1>0, ChildrenInOrder
    <3> QED BY <1>0, <3>1
  <2>4. Open(n, n + 1) = {c \in Children(n) : c > n}
    BY <1>0, OpenBranches DEF Ends
  <2>5. {c \in Children(n) : c > n} = Children(n)
    BY <2>3
  <2> QED BY <2>1, <2>2, <2>4, <2>5
<1>9. ASSUME NEW k \in 1 .. (n + 1) - 1, hasdc[k]
      PROVE  /\ PortsOf(Open(k, n + 1)) \subseteq K'[k] /\ K'[k] \subseteq PortsOf(Children(k))
             /\ Forks(k) => K'[k] = PortsOf(Open(k, n + 1))
  <2>1. CASE k = n
    BY <1>8, <2>1
  <2>2. CASE k # n
    <3>1. k \in 1 .. n - 1 /\ k \in Slaves
      BY <1>0, <2>2
    <3>2. /\ PortsOf(Open(k, n)) \subseteq K[k] /\ K[k] \subseteq PortsOf(Children(k))
          /\ Forks(k) => K[k] = PortsOf(Open(k, n))
      BY <1>1, <1>9, <3>1 DEF OpenPorts
    <3>3. Open(k, n + 1) = {c \in Children(k) : c > n}
      BY <1>0, <1>9, <3>1, OpenBranches DEF Ends
    <3>4. CASE k = q
      <4>1. q # 0
        BY <3>1, <3>4
      <4>2. K'[q] = K[q] \ {port[b]}
        <5> HIDE DEF q, b
        <5> QED BY <1>0, <1>2, <1>6, <1>7, <4>1, <2>2, <3>4
      <4>3. PortsOf(Open(k, n + 1)) = PortsOf(Open(k, n)) \ {port[b]}
        BY <1>6, <3>3, <3>4, <4>1
      <4> HIDE DEF q, b
      <4> QED BY <3>2, <3>4, <4>2, <4>3
    <3>5. CASE k # q
      <4>1. K'[k] = K[k]
        <5> HIDE DEF q, b
        <5> QED BY <1>0, <1>2, <1>5, <1>7, <2>2, <3>1, <3>5
      <4>2. Open(k, n) = {c \in Children(k) : c > n}
        BY <1>0, <1>9, <3>1, <3>5, OpenBranches
      <4> QED BY <3>2, <3>3, <4>1, <4>2
    <3> QED BY <3>4, <3>5
  <2> QED BY <2>1, <2>2
<1>10. ASSUME NEW k \in 1 .. (n + 1) - 1, hasdc[k]
       PROVE  entryport'[k] = 0 /\ DCrt'[k] = Latched(k)
  <2>1. CASE k = n
    BY <1>0, <1>2, <1>5, <2>1
  <2>2. CASE k # n
    <3>1. k \in 1 .. n - 1 /\ k \in Slaves
      BY <1>0, <2>2
    <3>2. entryport[k] = 0 /\ DCrt[k] = Latched(k)
      BY <1>1, <1>10, <3>1 DEF Times
    <3>3. entryport'[k] = entryport[k] /\ DCrt'[k] = DCrt[k]
      BY <1>0, <1>2, <1>5, <2>2, <3>1
    <3> QED BY <3>2, <3>3
  <2> QED BY <2>1, <2>2
<1>11. ASSUME NEW s \in Clocked, s < n + 1
       PROVE  /\ parentport'[s] = port[Branch(s)]
              /\ pdelay'[s] - pdelay'[Nearest(s)] = Arrival(s) - Arrival(Nearest(s))
  <2>1. s \in Slaves /\ hasdc[s] /\ Nearest(s) > 0
    BY DEF Clocked
  <2>2. CASE s = n
    <3>1. q # 0
      BY <2>1, <2>2
    <3>2. parentport'[n] = port[b]
      <4> HIDE DEF q, b
      <4> QED BY <1>0, <1>2, <1>7, <3>1
    <3>3. Delay(q, port[b], Latched(n), 0) = Arrival(n) - Arrival(q) + pdelay[q]
      <4>1. activeports[q] = Links(q) /\ pdelay[q] \in Int /\ activeports[n] = Links(n)
        BY <1>0, <1>2, <1>6, <3>1
      <4>2. DCrt[q] = Latched(q) /\ entryport[q] = 0
        BY <1>1, <1>6, <3>1 DEF Times
      <4> HIDE DEF q
      <4>3. q = Nearest(slave)
        BY DEF q
      <4>4. Clocking /\ Straight /\ Unwrapped /\ slave \in Slaves
        BY <1>0
      <4> QED BY <3>1, <4>1, <4>2, <4>3, <4>4, DelayAdds
    <3>4. pdelay'[n] = Delay(q, port[b], Latched(n), 0) /\ pdelay'[q] = pdelay[q]
      <4> HIDE DEF q, b
      <4>1. q # n
        BY <1>0, <1>3
      <4> QED BY <1>0, <1>2, <1>6, <1>7, <3>1, <4>1, ZenonT(40)
    <3>5. Arrival(n) \in Int /\ Arrival(q) \in Int /\ pdelay[q] \in Int
      BY <1>0, <1>2, <1>6, <3>1, ArrivalIs
    <3>6. pdelay'[n] - pdelay'[q] = Arrival(n) - Arrival(q)
      <4> HIDE DEF q, b
      <4> QED BY <3>3, <3>4, <3>5
    <3> QED BY <1>3, <2>2, <3>2, <3>6
  <2>3. CASE s # n
    <3>1. s < n /\ Nearest(s) \in Slaves /\ Nearest(s) # n
      <4>1. Nearest(s) \in 0 .. s - 1
        BY <1>0, <2>1, NearestIs
      <4> QED BY <1>0, <2>1, <2>3, <1>11, <4>1
    <3>2. parentport'[s] = parentport[s] /\ pdelay'[s] = pdelay[s] /\ pdelay'[Nearest(s)] = pdelay[Nearest(s)]
      <4> HIDE DEF q, b
      <4> QED BY <1>0, <1>2, <1>5, <1>7, <2>1, <2>3, <3>1, ZenonT(30)
    <3> QED BY <1>1, <3>1, <3>2 DEF PortsTrue, DelaysTrue
  <2> QED BY <2>2, <2>3
<1>12. parenthold' = HoldAt(n + 1)
  <2>1. n + 1 \in Slaves => Child[n + 1] = n + 1
    BY <1>0, NextSlave DEF Ends
  <2> QED BY <1>5, <2>1 DEF HoldAt
<1> QED
  BY <1>0, <1>9, <1>10, <1>11, <1>12, AfterStep

\* configdc at a slave without one (ethercatdc.c:411).
LEMMA UnclockedStep ==
  ASSUME ClockInv, Plain, Unwrapped, WithoutClock
  PROVE  ClocksDone(slave)'
<1> DEFINE n == slave
           q == Nearest(n)
           b == Child[n]
           K == consumedports
           p == parent[n]
           hold == IF p > 0 /\ Topology(p) > 2 THEN p ELSE parenthold
           reset == [K EXCEPT ![n] = activeports[n]]
<1>0. /\ at = "dc" /\ n \in Slaves /\ ~ hasdc[n] /\ slave' = n + 1
      /\ UNCHANGED bus /\ UNCHANGED found /\ UNCHANGED <<DCrt, entryport, parentport, pdelay>>
      /\ Clocking /\ Straight /\ BusShape /\ Slaves = 1 .. N /\ N \in Nat \ {0} /\ n \in 1 .. N
      /\ \A s \in Slaves : activeports[s] = Links(s)
  <2>1. /\ at = "dc" /\ slave <= N /\ ~ hasdc[slave] /\ slave' = slave + 1 /\ UNCHANGED bus /\ UNCHANGED found
        /\ UNCHANGED <<DCrt, entryport, parentport, pdelay>>
    BY DEF WithoutClock
  <2>2. TypeInv
    BY DEF ClockInv
  <2>3. Clocking /\ Slaves = 1 .. N /\ N \in Nat \ {0} /\ \A s \in Slaves : activeports[s] = Links(s)
    BY <2>1, <2>2, IsClocking
  <2>4. slave \in 1 .. N + 1
    BY <2>2 DEF TypeInv, TopologyInv
  <2>5. BusShape /\ Straight
    BY <2>3, PlainIsStraight DEF Clocking
  <2> QED BY <2>1, <2>3, <2>4, <2>5
<1>1. parenthold = HoldAt(n) /\ OpenPorts(n) /\ Times(n) /\ PortsTrue(n) /\ DelaysTrue(n)
  BY <1>0 DEF ClockInv, ClocksDone
<1>2. K \in [Slaves -> SUBSET Ports]
  BY DEF ClockInv, TypeInv, BusTypeOK
<1>3. /\ p = up[n] /\ p \in 0 .. n - 1 /\ q \in 0 .. n - 1 /\ up[b] = q /\ b \in 1 .. n
      /\ b = IF p = 0 \/ hasdc[p] THEN n ELSE Child[p]
      /\ DCParent[p] = q
  <2>1. parent = up
    BY <1>0 DEF Clocking
  <2>2. up[n] \in 0 .. n - 1
    BY <1>0, UpIsBefore
  <2> QED BY <1>0, <2>1, <2>2, NearestIs, BranchIs, ChildIs
<1>4. \A s \in Slaves : /\ IsFiniteSet(Children(s)) /\ Cardinality(Children(s)) \in Nat
                        /\ Topology(s) = 1 + Cardinality(Children(s))
  BY <1>0, LinkCount DEF Topology
\* The clock whose port is taken at the end of this branch.
<1>5. hold = IF Forks(q) THEN q ELSE 0
  <2>1. CASE p = 0
    <3>1. q = 0 /\ b = n
      BY <1>0, <1>3, <2>1, DCParentIs
    <3>2. HoldAt(n) = 0
      BY <3>1 DEF HoldAt
    <3> HIDE DEF q, b
    <3> QED BY <1>1, <2>1, <3>1, <3>2 DEF Forks
  <2>2. CASE p # 0 /\ hasdc[p]
    <3>1. q = p /\ b = n /\ p \in Slaves /\ p > 0
      <4>1. p \in Slaves /\ p > 0
        <5> HIDE DEF p
        <5> QED BY <1>0, <1>3, <2>2
      <4> QED BY <1>0, <1>3, <2>2, <4>1, DCParentIs
    <3>2. HoldAt(n) = 0
      BY <3>1 DEF HoldAt
    <3>3. Topology(p) > 2 <=> Forks(q)
      <4> HIDE DEF q, p
      <4> QED BY <1>4, <2>2, <3>1 DEF Forks
    <3> HIDE DEF q, p
    <3> QED BY <1>1, <3>1, <3>2, <3>3
  <2>3. CASE p # 0 /\ ~ hasdc[p]
    <3>1. p \in Slaves /\ p < n
      <4> HIDE DEF p
      <4> QED BY <1>0, <1>3, <2>3
    <3>2. b # n
      <4>1. Child[p] \in 1 .. p
        BY <1>0, <3>1, BranchIs
      <4> HIDE DEF b, p
      <4> QED BY <1>0, <1>3, <2>3, <3>1, <4>1
    <3>3. ~ (Topology(p) > 2)
      <4>1. Cardinality(Children(p)) <= 1
        BY <2>3, <3>1 DEF Plain
      <4> HIDE DEF p
      <4> QED BY <1>4, <3>1, <4>1
    <3>4. HoldAt(n) = IF Forks(q) THEN q ELSE 0
      BY <1>0, <3>2 DEF HoldAt
    <3> HIDE DEF q, p
    <3> QED BY <1>1, <3>3, <3>4
  <2> QED BY <2>1, <2>2, <2>3
<1>6. /\ Forks(q) => q # 0
      /\ q # 0 => /\ q \in Slaves /\ q \in 1 .. n - 1 /\ hasdc[q] /\ q # n
                  /\ FirstOf(<<3, 1, 2>>, K[q], 0) = port[b]
                  /\ PortsOf({c \in Children(q) : c > n}) = PortsOf(Open(q, n)) \ {port[b]}
  <2>1. Forks(q) => q # 0
    BY <1>0, <1>3 DEF Forks
  <2>2. ASSUME q # 0
        PROVE  /\ q \in Slaves /\ q \in 1 .. n - 1 /\ hasdc[q]
               /\ FirstOf(<<3, 1, 2>>, K[q], 0) = port[b]
               /\ PortsOf({c \in Children(q) : c > n}) = PortsOf(Open(q, n)) \ {port[b]}
    BY <1>0, <1>1, <2>2, NextPort
  <2>3. q # 0 => q # n
    BY <1>0, <2>2
  <2> QED BY <2>1, <2>2, <2>3
<1>7. Topology(n) = 1 <=> Ends(n)
  <2>1. IsFiniteSet(Children(n)) /\ Cardinality(Children(n)) \in Nat /\ Topology(n) = 1 + Cardinality(Children(n))
    BY <1>0, <1>4
  <2>2. Cardinality(Children(n)) = 0 <=> Children(n) = {}
    BY <2>1, FS_EmptySet
  <2> QED BY <1>0, <2>1, <2>2 DEF Ends
<1>8. /\ hold > 0 /\ Topology(n) = 1 =>
           /\ K' = [reset EXCEPT ![hold] = reset[hold] \ {FirstOf(<<3, 1, 2>>, reset[hold], 0)}]
           /\ parenthold' = 0
      /\ ~ (hold > 0 /\ Topology(n) = 1) => K' = reset /\ parenthold' = hold
  <2>1. IF hold > 0 /\ Topology(n) = 1
          THEN /\ K' = [reset EXCEPT ![hold] = reset[hold] \ {FirstOf(<<3, 1, 2>>, reset[hold], 0)}]
               /\ parenthold' = 0
          ELSE /\ K' = reset
               /\ parenthold' = hold
    BY DEF WithoutClock
  <2> HIDE DEF hold, reset, K
  <2> QED BY <2>1
<1>9. \A s \in Slaves : s # n => reset[s] = K[s]
  BY <1>2
<1>10. /\ Ends(n) /\ Forks(q) => /\ K'[q] = K[q] \ {port[b]} /\ parenthold' = 0
                                 /\ \A s \in Slaves : s # n /\ s # q => K'[s] = K[s]
       /\ Ends(n) /\ ~ Forks(q) => parenthold' = 0 /\ \A s \in Slaves : s # n => K'[s] = K[s]
       /\ ~ Ends(n) => parenthold' = hold /\ \A s \in Slaves : s # n => K'[s] = K[s]
  <2>0. reset \in [Slaves -> SUBSET Ports]
    <3>1. activeports[n] \in SUBSET Ports
      BY <1>0, LinksArePorts
    <3> QED BY <1>2, <3>1
  <2> HIDE DEF reset, K, b, q, hold
  <2>1. ASSUME Ends(n), Forks(q)
        PROVE  /\ K'[q] = K[q] \ {port[b]} /\ parenthold' = 0
               /\ \A s \in Slaves : s # n /\ s # q => K'[s] = K[s]
    <3>1. hold = q /\ q \in Slaves /\ q # n /\ q > 0 /\ Topology(n) = 1
      <4>1. hold = q /\ q \in Slaves /\ q # n /\ Topology(n) = 1
        BY <1>5, <1>6, <1>7, <2>1
      <4> QED BY <1>0, <4>1
    <3>2. reset[q] = K[q] /\ FirstOf(<<3, 1, 2>>, K[q], 0) = port[b]
      BY <1>6, <1>9, <2>1, <3>1
    <3>3. K' = [reset EXCEPT ![q] = K[q] \ {port[b]}] /\ parenthold' = 0
      BY <1>8, <3>1, <3>2
    <3> QED BY <1>9, <2>0, <3>1, <3>3
  <2>2. ASSUME Ends(n), ~ Forks(q)
        PROVE  parenthold' = 0 /\ \A s \in Slaves : s # n => K'[s] = K[s]
    <3>1. hold = 0
      BY <1>5, <2>2
    <3>2. K' = reset /\ parenthold' = 0
      BY <1>8, <3>1
    <3> QED BY <1>9, <3>2
  <2>3. ASSUME ~ Ends(n)
        PROVE  parenthold' = hold /\ \A s \in Slaves : s # n => K'[s] = K[s]
    <3>1. K' = reset /\ parenthold' = hold
      BY <1>7, <1>8, <2>3
    <3> QED BY <1>9, <3>1
  <2> QED BY <2>1, <2>2, <2>3
<1>11. ASSUME NEW k \in 1 .. (n + 1) - 1, hasdc[k]
       PROVE  /\ PortsOf(Open(k, n + 1)) \subseteq K'[k] /\ K'[k] \subseteq PortsOf(Children(k))
              /\ Forks(k) => K'[k] = PortsOf(Open(k, n + 1))
  <2>1. k \in 1 .. n - 1 /\ k \in Slaves /\ k # n
    <3>1. k # n
      BY <1>0, <1>11
    <3> QED BY <1>0, <3>1
  <2>2. /\ PortsOf(Open(k, n)) \subseteq K[k] /\ K[k] \subseteq PortsOf(Children(k))
        /\ Forks(k) => K[k] = PortsOf(Open(k, n))
    BY <1>1, <1>11, <2>1 DEF OpenPorts
  <2>3. /\ Open(k, n) = IF k = q THEN {c \in Children(k) : c > n} \cup {b} ELSE {c \in Children(k) : c > n}
        /\ Open(k, n + 1) = IF Ends(n) THEN {c \in Children(k) : c > n} ELSE Open(k, n)
    BY <1>0, <1>11, <2>1, OpenBranches
  <2> HIDE DEF q, b, K, hold, reset
  <2>4. CASE ~ Ends(n)
    BY <1>10, <2>1, <2>2, <2>3, <2>4
  <2>5. CASE Ends(n) /\ k # q
    <3>1. K'[k] = K[k] /\ Open(k, n + 1) = Open(k, n)
      BY <1>10, <2>1, <2>3, <2>5
    <3> QED BY <2>2, <3>1
  <2>6. CASE Ends(n) /\ k = q
    <3>1. q # 0
      BY <2>1, <2>6
    <3>2. PortsOf(Open(k, n + 1)) = PortsOf(Open(k, n)) \ {port[b]}
      BY <1>6, <2>3, <2>6, <3>1
    <3>3. CASE Forks(q)
      BY <1>10, <2>2, <2>6, <3>2, <3>3
    <3>4. CASE ~ Forks(q)
      <4>1. K'[k] = K[k]
        BY <1>10, <2>1, <2>6, <3>4
      <4> QED BY <2>2, <2>6, <3>2, <3>4, <4>1
    <3> QED BY <3>3, <3>4
  <2> QED BY <2>4, <2>5, <2>6
<1>12. ASSUME NEW k \in 1 .. (n + 1) - 1, hasdc[k]
       PROVE  entryport'[k] = 0 /\ DCrt'[k] = Latched(k)
  <2>1. k # n
    BY <1>0, <1>12
  <2>2. k \in 1 .. n - 1
    BY <1>0, <2>1
  <2> QED BY <1>0, <1>1, <1>12, <2>2 DEF Times
<1>13. ASSUME NEW s \in Clocked, s < n + 1
       PROVE  /\ parentport'[s] = port[Branch(s)]
              /\ pdelay'[s] - pdelay'[Nearest(s)] = Arrival(s) - Arrival(Nearest(s))
  <2>1. s \in Slaves /\ hasdc[s]
    BY DEF Clocked
  <2>2. s < n
    <3>1. s # n
      BY <1>0, <2>1
    <3> QED BY <1>0, <1>13, <2>1, <3>1
  <2> QED BY <1>0, <1>1, <2>2 DEF PortsTrue, DelaysTrue
<1>14. parenthold' = HoldAt(n + 1)
  <2>1. CASE Ends(n)
    <3>1. n + 1 \in Slaves => Child[n + 1] = n + 1
      BY <1>0, <2>1, NextSlave
    <3>2. HoldAt(n + 1) = 0
      BY <3>1 DEF HoldAt
    <3> HIDE DEF q
    <3> QED BY <1>10, <2>1, <3>2
  <2>2. CASE ~ Ends(n)
    <3>1. n + 1 \in Slaves /\ Child[n + 1] = b /\ Nearest(n + 1) = q
      BY <1>0, <2>2, NextSlave
    <3>2. b # n + 1
      <4> HIDE DEF b
      <4> QED BY <1>0, <1>3
    <3> HIDE DEF q, b, hold
    <3>3. HoldAt(n + 1) = IF Forks(q) THEN q ELSE 0
      BY <3>1, <3>2 DEF HoldAt
    <3> QED BY <1>5, <1>10, <2>2, <3>3
  <2> QED BY <2>1, <2>2
<1> QED
  BY <1>0, <1>11, <1>12, <1>13, <1>14, AfterStep

----------------------------------------------------------------------------

\* The invariant holds at first ...
LEMMA ClocksStart == BusInit => ClockInv
<1> SUFFICES ASSUME BusInit PROVE ClockInv
  OBVIOUS
<1>1. at = "init" /\ parenthold = 0
  BY DEF BusInit
<1> QED BY <1>1, TypesStart DEF ClockInv

\* ... and every step keeps it.
LEMMA ClocksKept ==
  ASSUME ClockInv, [BusNext]_busVars
  PROVE  ClockInv'
<1>1. TypeInv'
  BY TypesKept DEF ClockInv
<1>2. CASE FindParent
  <2>1. at' = "init" /\ at = "init" /\ parenthold' = parenthold
    BY <1>2 DEF FindParent
  <2> QED BY <1>1, <2>1 DEF ClockInv
<1>3. ASSUME ~ FindParent
      PROVE  UNCHANGED bus /\ UNCHANGED found /\ Plain' = Plain /\ Unwrapped' = Unwrapped
  <2>1. UNCHANGED bus /\ UNCHANGED found
    BY <1>3 DEF BusNext, AllFound, WithClock, WithoutClock, Configured, busVars
  <2> QED BY <2>1, BusKept
<1>4. CASE AllFound
  <2>1. at = "init" /\ at' = "dc" /\ slave' = 1 /\ parenthold' = 0 /\ UNCHANGED bus /\ UNCHANGED found
    BY <1>4 DEF AllFound, ClockInv
  <2>2. Clocking
    <3>1. Clocking'
      BY <1>1, <2>1 DEF TypeInv, TopologyInv, BusTypes, Clocking
    <3>2. Clocking' = Clocking
      <4>1. Above' = Above
        BY <2>1 DEF Above, bus
      <4>2. BusShape' = BusShape
        BY <2>1, <4>1 DEF BusShape, Numbered, bus
      <4> QED BY <2>1, <4>2 DEF Clocking, bus, found
    <3> QED BY <3>1, <3>2
  <2>3. 0 = HoldAt(1)
    <3>1. 1 \in Slaves /\ up[1] = 0
      BY <2>2, UpIsBefore DEF Clocking, BusShape, Numbered, Slaves
    <3>2. Child[1] = 1
      BY <2>2, <3>1, ChildIs
    <3> QED BY <3>2 DEF HoldAt
  <2>4. \A s \in Clocked : ~ (s < 1)
    BY <2>2, UpIsBefore DEF Clocked, Slaves, Clocking
  <2>5. ClocksDone(slave)'
    <3> DEFINE m == 1
    <3>1. \A q \in 1 .. m - 1 : FALSE
      OBVIOUS
    <3>2. m = slave' /\ parenthold' = HoldAt(m)
      BY <2>1, <2>3
    <3>3. \A s \in Clocked : ~ (s < m)
      BY <2>4
    <3> HIDE DEF m
    <3> QED BY <2>1, <3>1, <3>2, <3>3, AfterStep
  <2> QED BY <1>1, <2>1, <2>5 DEF ClockInv
<1>5. CASE WithClock \/ WithoutClock
  <2>1. at = "dc" /\ at' = "dc" /\ ~ FindParent
    BY <1>5 DEF WithClock, WithoutClock, FindParent
  <2>2. Plain /\ Unwrapped => ClocksDone(slave)'
    BY <1>5, ClockedStep, UnclockedStep
  <2> QED BY <1>1, <1>3, <2>1, <2>2 DEF ClockInv
<1>6. CASE Configured \/ UNCHANGED busVars
  <2>1. /\ slave' = slave /\ parenthold' = parenthold
        /\ UNCHANGED <<consumedports, DCrt, entryport, parentport, pdelay>>
        /\ at' = "done" => slave = N + 1
        /\ (at' = "init") = (at = "init")
    BY <1>6 DEF Configured, busVars, ClockInv
  <2>2. UNCHANGED bus /\ UNCHANGED found
    BY <1>6 DEF Configured, busVars
  <2>3. ASSUME ClocksDone(slave)
        PROVE  ClocksDone(slave)'
    <3>1. ClocksDone(slave)
      BY <2>3
    <3>2. parenthold' = HoldAt(slave) /\ OpenPorts(slave) /\ Times(slave) /\ PortsTrue(slave) /\ DelaysTrue(slave)
      BY <2>1, <3>1 DEF ClocksDone
    <3>3. \A q \in 1 .. slave - 1 : hasdc[q] =>
           /\ PortsOf(Open(q, slave)) \subseteq consumedports'[q] /\ consumedports'[q] \subseteq PortsOf(Children(q))
           /\ Forks(q) => consumedports'[q] = PortsOf(Open(q, slave))
      BY <2>1, <3>2 DEF OpenPorts
    <3>4. \A q \in 1 .. slave - 1 : hasdc[q] => entryport'[q] = 0 /\ DCrt'[q] = Latched(q)
      BY <2>1, <3>2 DEF Times
    <3>5. \A s \in Clocked : s < slave => parentport'[s] = port[Branch(s)]
      BY <2>1, <3>2 DEF PortsTrue
    <3>6. \A s \in Clocked : s < slave => pdelay'[s] - pdelay'[Nearest(s)] = Arrival(s) - Arrival(Nearest(s))
      BY <2>1, <3>2 DEF DelaysTrue
    <3> QED BY <2>1, <2>2, <3>2, <3>3, <3>4, <3>5, <3>6, AfterStep
  <2>4. Plain' = Plain /\ Unwrapped' = Unwrapped
    BY <2>2, BusKept
  <2>5. ~ FindParent \/ at' = "init"
    BY DEF FindParent
  <2> QED BY <1>1, <2>1, <2>3, <2>4 DEF ClockInv
<1> QED
  BY <1>2, <1>4, <1>5, <1>6 DEF BusNext

\* At the end it is true of every slave.
LEMMA AllClocks ==
  ASSUME ClockInv, Sound
  PROVE  PortsTrue(N + 1) /\ DelaysTrue(N + 1) /\ \A s \in Clocked : s < N + 1
<1>1. slave = N + 1 /\ ClocksDone(slave)
  BY DEF ClockInv, Sound
<1>2. \A s \in Clocked : s < N + 1
  BY ClocksAssumption DEF Clocked, Slaves, ClocksAssumption
<1> QED
  BY <1>1, <1>2 DEF ClocksDone

\* Whatever the tree, the ports and the clocks, as long as slaves without a clock
\* have one branch: configdc finds the port of the parent clock that a slave is at.
THEOREM PortsAreTrue == BusSpec => []PortIsTrue
<1>1. ClockInv => PortIsTrue
  BY AllClocks DEF PortIsTrue, PortsTrue
<1> QED
  BY <1>1, ClocksStart, ClocksKept, PTL DEF BusSpec

\* And on every such bus the delay it computes is the difference of the times at
\* which the broadcast met the two clocks, if these have not passed their end.
THEOREM DelaysAreTrue == BusSpec => []DelayIsTrue
<1>1. ClockInv => DelayIsTrue
  BY AllClocks DEF DelayIsTrue, DelaysTrue
<1> QED
  BY <1>1, ClocksStart, ClocksKept, PTL DEF BusSpec

----------------------------------------------------------------------------
(* The Ethernet port.                                                       *)

USE DEF Buf

\* A function on 1 .. n is a sequence of length n.
LEMMA FunctionIsSeq ==
  ASSUME NEW S, NEW n \in Nat, NEW f \in [1 .. n -> S]
  PROVE  f \in Seq(S) /\ Len(f) = n
OBVIOUS

\* Losing the frame at position k, or swapping it with the next one, leaves a
\* wire of frames.
LEMMA LoseType ==
  ASSUME wire \in Seq(Frame), NEW k \in DOMAIN wire, Lose(k)
  PROVE  /\ wire' \in Seq(Frame)
         /\ Len(wire') = Len(wire) - 1
         /\ \A j \in DOMAIN wire' :
               wire'[j] = IF j < k THEN wire[j] ELSE wire[j + 1]
<1> DEFINE n == Len(wire) - 1
           w == [j \in 1 .. n |-> IF j < k THEN wire[j] ELSE wire[j + 1]]
<1>1. n \in Nat /\ DOMAIN wire = 1 .. Len(wire) /\ Len(wire) \in Nat
  OBVIOUS
<1>2. \A j \in 1 .. n : (IF j < k THEN wire[j] ELSE wire[j + 1]) \in Frame
  BY <1>1
<1>3. w \in [1 .. n -> Frame]
  BY <1>2
<1>4. w \in Seq(Frame) /\ Len(w) = n /\ DOMAIN w = 1 .. n
  BY <1>1, <1>3
<1>5. wire' = w
  BY DEF Lose
<1> QED BY <1>1, <1>4, <1>5

\* Swapping two frames leaves the same number of frames.
LEMMA ReverseType ==
  ASSUME wire \in Seq(Frame), NEW k \in DOMAIN wire, Reverse(k)
  PROVE  /\ wire' \in Seq(Frame)
         /\ DOMAIN wire' = DOMAIN wire
         /\ \A j \in DOMAIN wire :
               wire'[j] = wire[IF j = k THEN k + 1 ELSE IF j = k + 1 THEN k ELSE j]
<1>1. k + 1 \in DOMAIN wire /\ k \in 1 .. Len(wire) /\ DOMAIN wire = 1 .. Len(wire)
  BY DEF Reverse
<1>2. wire' = [wire EXCEPT ![k] = wire[k + 1], ![k + 1] = wire[k]]
  BY DEF Reverse
<1>3. wire' \in [1 .. Len(wire) -> Frame]
  BY <1>1, <1>2
<1> QED BY <1>1, <1>2, <1>3

\* The buffer ecx_getindex hands out is one of the array.
LEMMA ScanInBuf ==
  ASSUME lastidx \in Buf, NEW k \in Buf
  PROVE  Scan(k) \in Buf
BY PortAssumption DEF Scan

\* Type correctness: every step of every thread and of the wire keeps the
\* variables of the port in their types.
THEOREM TypeCorrect == Spec => []TypeOK
<1>1. Init => TypeOK
  BY PortAssumption DEF Init, TypeOK, BufStat, Step
<1>2. TypeOK /\ [Next]_vars => TypeOK'
  <2> SUFFICES ASSUME TypeOK, [Next]_vars PROVE TypeOK'
    OBVIOUS
  <2> USE DEF TypeOK, BufStat, Step, Goto, SetStat
  <2>1. ASSUME NEW t \in Threads, GetIndex(t) PROVE TypeOK'
    BY <2>1 DEF GetIndex
  <2>2. ASSUME NEW t \in Threads, Transmit(t) PROVE TypeOK'
    <3>1. Own(t) \in Frame
      BY DEF Own, Frame
    <3>2. wire' = wire \/ wire' = Append(wire, Own(t))
      BY <2>2 DEF Transmit
    <3>3. Append(wire, Own(t)) \in Seq(Frame)
      BY <3>1, AppendProperties
    <3>4. wire' \in Seq(Frame)
      BY <3>2, <3>3
    <3> QED BY <2>2, <3>4 DEF Transmit
  <2>3. ASSUME NEW t \in Threads, TransmitFails(t) PROVE TypeOK'
    BY <2>3 DEF TransmitFails
  <2>4. ASSUME NEW t \in Threads, TakeStored(t) \/ NotStored(t) PROVE TypeOK'
    BY <2>4 DEF TakeStored, NotStored
  <2>5. ASSUME NEW t \in Threads, RecvNothing(t) PROVE TypeOK'
    BY <2>5 DEF RecvNothing
  <2>6. ASSUME NEW t \in Threads, RecvOwn(t) PROVE TypeOK'
    <3>1. Head(wire) \in Frame /\ Tail(wire) \in Seq(Frame)
      BY <2>6, HeadTailProperties DEF RecvOwn
    <3> QED BY <2>6, <3>1 DEF RecvOwn
  <2>7. ASSUME NEW t \in Threads, RecvOther(t) PROVE TypeOK'
    <3>1. Head(wire) \in Frame /\ Tail(wire) \in Seq(Frame)
      BY <2>7, HeadTailProperties DEF RecvOther
    <3>2. hand' \in [Threads -> Frame \cup {NoFrame}] /\ pc' \in [Threads -> Step]
      BY <2>7, <3>1 DEF RecvOther
    <3> QED BY <2>7, <3>1, <3>2 DEF RecvOther
  <2>8. ASSUME NEW t \in Threads, Store(t) PROVE TypeOK'
    <3>1. hand[t] \in Frame \cup {NoFrame}
      OBVIOUS
    <3>2. CASE hand[t] \in Frame
      BY <2>8, <3>2 DEF Store, Frame
    <3>3. CASE hand[t] = NoFrame
      BY <2>8, <3>3 DEF Store, Frame, NoFrame
    <3> QED BY <3>1, <3>2, <3>3
  <2>9. ASSUME NEW t \in Threads, PollAgain(t) \/ Resend(t) \/ GiveUp(t)
        PROVE  TypeOK'
    BY <2>9 DEF PollAgain, Resend, GiveUp, TimerEnds
  <2>10. ASSUME NEW t \in Threads, Release(t) PROVE TypeOK'
    <3>1. \A f \in Frame \cup {NoFrame} :
             /\ Orphan(f, t) \in Frame \cup {NoFrame}
             /\ f \in Frame => Orphan(f, t) \in Frame
      BY DEF Orphan, NoFrame, Frame
    <3>2. wire' \in Seq(Frame)
      <4>1. wire' \in [1 .. Len(wire) -> Frame] /\ Len(wire) \in Nat
        BY <2>10, <3>1 DEF Release
      <4> QED BY <4>1, FunctionIsSeq
    <3>3. 0 \in Buf
      BY PortAssumption
    <3> QED BY <2>10, <3>1, <3>2, <3>3 DEF Release
  <2>11. ASSUME NEW k \in DOMAIN wire, Lose(k) PROVE TypeOK'
    <3>1. wire' \in Seq(Frame)
      BY <2>11, LoseType
    <3> QED BY <2>11, <3>1 DEF Lose
  <2>12. ASSUME NEW k \in DOMAIN wire, Reverse(k) PROVE TypeOK'
    <3>1. wire' \in Seq(Frame)
      BY <2>12, ReverseType
    <3> QED BY <2>12, <3>1 DEF Reverse
  <2>13. CASE UNCHANGED vars
    BY <2>13 DEF vars
  <2> QED
    BY <2>1, <2>2, <2>3, <2>4, <2>5, <2>6, <2>7, <2>8, <2>9, <2>10, <2>11,
       <2>12, <2>13 DEF Next, ThreadNext, WireNext, Recv
<1> QED BY <1>1, <1>2, PTL DEF Spec

----------------------------------------------------------------------------
(* However late frames are: until ecx_getindex finds every buffer in use,   *)
\* an index has one owner, because an owned buffer is never EMPTY.

OwnedIsBusy == \A t \in Threads : Holds(t) => rxbufstat[idx[t]] # "EMPTY"

OwnInv == ~ exhausted => OwnedIsBusy /\ UniqueOwner

\* Two transactions share an index only after the allocator has run out of
\* EMPTY buffers, provided send() on the socket does not fail.
THEOREM UniqueTillExhausted ==
  ASSUME SendFails = FALSE
  PROVE  Spec => []UniqueUntilExhausted
<1>1. Init => OwnInv
  BY DEF Init, OwnInv, OwnedIsBusy, UniqueOwner, Shared, Holds
<1>2. TypeOK /\ OwnInv /\ [Next]_vars => OwnInv'
  <2> SUFFICES ASSUME TypeOK, OwnInv, [Next]_vars, ~ exhausted'
               PROVE  OwnedIsBusy' /\ UniqueOwner'
    BY DEF OwnInv
  <2> USE DEF Goto, SetStat, Holds, OwnedIsBusy, UniqueOwner, Shared
  <2>0. pc \in [Threads -> Step] /\ idx \in [Threads -> Buf]
        /\ rxbufstat \in [Buf -> BufStat]
    BY DEF TypeOK
  <2>1. ASSUME NEW t \in Threads, GetIndex(t)
        PROVE  OwnedIsBusy' /\ UniqueOwner'
    <3>1. ~ exhausted /\ ~ \A k \in Buf : ~ FreeAt(k)
      BY <2>1 DEF GetIndex
    <3>2. PICK i \in Buf : Picked(i) /\ rxbufstat' = [rxbufstat EXCEPT ![i] = "ALLOC"]
                           /\ idx' = [idx EXCEPT ![t] = i]
      BY <2>1 DEF GetIndex
    <3>3. rxbufstat[i] = "EMPTY"
      BY <3>1, <3>2 DEF Picked, FreeAt
    <3>4. pc' = [pc EXCEPT ![t] = "built"]
      BY <2>1 DEF GetIndex
    <3>5. OwnedIsBusy /\ UniqueOwner
      BY <3>1 DEF OwnInv
    <3>6. \A u \in Threads : u # t /\ Holds(u) => idx[u] # i
      BY <3>3, <3>5
    <3> QED BY <2>0, <3>2, <3>4, <3>5, <3>6
  <2>2. ASSUME exhausted' = exhausted
        PROVE  OwnedIsBusy /\ UniqueOwner
    BY <2>2 DEF OwnInv
  <2>3. ASSUME NEW t \in Threads, Transmit(t)
        PROVE  OwnedIsBusy' /\ UniqueOwner'
    BY <2>0, <2>2, <2>3 DEF Transmit
  <2>4. ASSUME NEW t \in Threads, TakeStored(t) \/ NotStored(t)
        PROVE  OwnedIsBusy' /\ UniqueOwner'
    BY <2>0, <2>2, <2>4, ZenonT(30) DEF TakeStored, NotStored
  <2>5. ASSUME NEW t \in Threads, Recv(t)
        PROVE  OwnedIsBusy' /\ UniqueOwner'
    <3>1. OwnedIsBusy /\ UniqueOwner /\ idx' = idx /\ pc[t] = "lock"
      BY <2>2, <2>5 DEF Recv, RecvNothing, RecvOwn, RecvOther
    <3>2. rxbufstat' = rxbufstat \/ rxbufstat' = [rxbufstat EXCEPT ![idx[t]] = "COMPLETE"]
      BY <2>5 DEF Recv, RecvNothing, RecvOwn, RecvOther
    <3>3. \E w \in {"timer", "got", "store"} : pc' = [pc EXCEPT ![t] = w]
      BY <2>5 DEF Recv, RecvNothing, RecvOwn, RecvOther
    <3> QED BY <2>0, <3>1, <3>2, <3>3, ZenonT(30)
  <2>6. ASSUME NEW t \in Threads, Store(t)
        PROVE  OwnedIsBusy' /\ UniqueOwner'
    BY <2>0, <2>2, <2>6 DEF Store
  <2>7. ASSUME NEW t \in Threads, PollAgain(t) \/ Resend(t) \/ GiveUp(t)
        PROVE  OwnedIsBusy' /\ UniqueOwner'
    BY <2>0, <2>2, <2>7 DEF PollAgain, Resend, GiveUp, TimerEnds
  <2>8. ASSUME NEW t \in Threads, Release(t)
        PROVE  OwnedIsBusy' /\ UniqueOwner'
    BY <2>0, <2>2, <2>8 DEF Release
  <2>9. CASE WireNext \/ UNCHANGED vars
    BY <2>0, <2>2, <2>9 DEF WireNext, Lose, Reverse, vars
  <2>10. ASSUME NEW t \in Threads PROVE ~ TransmitFails(t)
    BY DEF TransmitFails
  <2> QED
    BY <2>1, <2>3, <2>4, <2>5, <2>6, <2>7, <2>8, <2>9, <2>10 DEF Next, ThreadNext
<1>3. OwnInv => UniqueUntilExhausted
  BY DEF OwnInv, UniqueOwner, UniqueUntilExhausted
<1> QED BY <1>1, <1>2, <1>3, TypeCorrect, PTL DEF Spec

----------------------------------------------------------------------------
(* When answers are prompt and send() works: one frame of a transaction is  *)
\* under way at a time, none when it is not waiting, so no answer is taken
\* for another's and every buffer comes back.

Waiting(t) == pc[t] \in {"check", "lock", "store", "timer"}

\* What is on the wire was sent by a transaction that waits for it in TX.
Expected(f) ==
  /\ f.by \in Threads
  /\ Waiting(f.by)
  /\ f.idx = idx[f.by]
  /\ rxbufstat[f.idx] = "TX"

WireExpected == \A k \in DOMAIN wire : Expected(wire[k])
HandExpected == \A u \in Threads : IF pc[u] = "store" THEN Expected(hand[u])
                                   ELSE hand[u] = NoFrame
OneCopy ==
  /\ \A j, k \in DOMAIN wire : wire[j].by = wire[k].by => j = k
  /\ \A k \in DOMAIN wire, u \in Threads : hand[u].by # wire[k].by
OneHolder == \A u, v \in Threads : pc[u] = "store" /\ pc[v] = "store" => u = v
StatusOfWaiting ==
  \A t \in Threads : Waiting(t) =>
    \/ rxbufstat[idx[t]] = "TX"
    \/ rxbufstat[idx[t]] = "RCVD" /\ rxbuf[idx[t]] = Own(t)

PromptInv ==
  /\ OwnedIsBusy
  /\ UniqueOwner
  /\ NoBufferLeak
  /\ WireExpected
  /\ HandExpected
  /\ OneCopy
  /\ OneHolder
  /\ StatusOfWaiting
  /\ AnswerMatches

\* Every buffer is looked at by the allocator's scan.
LEMMA ScanReachesAll ==
  ASSUME lastidx \in Buf, NEW i \in Buf
  PROVE  \E k \in Buf : Scan(k) = i
<1> DEFINE k == IF i > lastidx THEN i - lastidx - 1 ELSE i + MaxBuf - lastidx - 1
<1>1. k \in Buf /\ Scan(k) = i
  BY PortAssumption DEF Scan
<1> QED BY <1>1

\* Pigeonhole: while no buffer leaks, an idle thread leaves one EMPTY.
LEMMA FreeBuffer ==
  ASSUME TypeOK, NoBufferLeak, NEW t \in Threads, pc[t] = "idle"
  PROVE  \E k \in Buf : FreeAt(k)
<1> SUFFICES ASSUME \A k \in Buf : ~ FreeAt(k) PROVE FALSE
  OBVIOUS
<1> DEFINE R == Threads \ {t}
           f == [u \in R |-> idx[u]]
<1>1. \A i \in Buf : rxbufstat[i] # "EMPTY"
  BY ScanReachesAll DEF FreeAt, TypeOK
<1>2. \A i \in Buf : \E u \in R : f[u] = i
  BY <1>1 DEF NoBufferLeak, Holds
<1>3. f \in Surjection(R, Buf)
  BY <1>2 DEF Surjection, TypeOK
<1>4. IsFiniteSet(R) /\ Cardinality(R) = Cardinality(Threads) - 1
  BY PortAssumption, FS_RemoveElement
<1>5. Cardinality(Buf) <= Cardinality(R)
  BY <1>3, <1>4, FS_Surjection
<1>6. Cardinality(Buf) = MaxBuf
  BY PortAssumption, FS_Interval
<1>7. Cardinality(Threads) \in Nat
  BY PortAssumption, FS_CardinalityType
<1> QED BY <1>4, <1>5, <1>6, <1>7, PortAssumption

\* A frame with the index of a running transaction is that transaction's.
LEMMA ExpectedOwner ==
  ASSUME TypeOK, UniqueOwner, NEW t \in Threads, Holds(t),
         NEW f, Expected(f), f.idx = idx[t]
  PROVE  f.by = t
BY DEF UniqueOwner, Shared, Holds, Expected, Waiting

\* With prompt answers: the invariant at first,
LEMMA PromptInit == Init => PromptInv
BY DEF Init, PromptInv, OwnedIsBusy, UniqueOwner, Shared, Holds, NoBufferLeak,
       WireExpected, HandExpected, OneCopy, OneHolder, StatusOfWaiting, Waiting,
       AnswerMatches

\* when an index is taken,
LEMMA PromptGetIndex ==
  ASSUME TypeOK, PromptInv, NEW t \in Threads, GetIndex(t)
  PROVE  PromptInv'
<1> USE DEF Goto, SetStat, Holds
<1>0. /\ pc \in [Threads -> Step] /\ idx \in [Threads -> Buf]
      /\ rxbufstat \in [Buf -> BufStat] /\ pc[t] = "idle"
      /\ rxbuf' = rxbuf /\ wire' = wire /\ hand' = hand
      /\ pc' = [pc EXCEPT ![t] = "built"]
  BY DEF TypeOK, GetIndex
<1>1. PICK i \in Buf : Picked(i) /\ rxbufstat' = [rxbufstat EXCEPT ![i] = "ALLOC"]
                        /\ idx' = [idx EXCEPT ![t] = i]
  BY DEF GetIndex
<1>2. rxbufstat[i] = "EMPTY"
  BY <1>0, <1>1, FreeBuffer DEF PromptInv, Picked, FreeAt
<1>3. \A u \in Threads : Holds(u) => u # t /\ idx[u] # i /\ idx'[u] = idx[u] /\ pc'[u] = pc[u]
  BY <1>0, <1>1, <1>2 DEF PromptInv, OwnedIsBusy
<1>4. \A u \in Threads : Waiting(u)' = Waiting(u) /\ (Waiting(u) => Holds(u))
  BY <1>0 DEF Waiting
<1>5. \A f : Expected(f) => Expected(f)'
  BY <1>0, <1>1, <1>2, <1>3, <1>4 DEF Expected
<1>6. OwnedIsBusy' /\ UniqueOwner'
  BY <1>0, <1>1, <1>3 DEF PromptInv, OwnedIsBusy, UniqueOwner, Shared
<1>7. NoBufferLeak'
  BY <1>0, <1>1, <1>3 DEF PromptInv, NoBufferLeak
<1>8. WireExpected' /\ HandExpected' /\ OneCopy' /\ OneHolder'
  BY <1>0, <1>5 DEF PromptInv, WireExpected, HandExpected, OneCopy, OneHolder
<1>9. StatusOfWaiting' /\ AnswerMatches'
  BY <1>0, <1>1, <1>3, <1>4 DEF PromptInv, StatusOfWaiting, AnswerMatches, Own
<1> QED BY <1>6, <1>7, <1>8, <1>9 DEF PromptInv

\* when a frame is sent,
LEMMA PromptTransmit ==
  ASSUME TypeOK, PromptInv, NEW t \in Threads, Transmit(t)
  PROVE  PromptInv'
<1> USE DEF Goto, SetStat, Holds
<1>0. /\ pc \in [Threads -> Step] /\ idx \in [Threads -> Buf]
      /\ rxbufstat \in [Buf -> BufStat] /\ pc[t] = "built"
      /\ rxbuf' = rxbuf /\ idx' = idx /\ hand' = hand
      /\ pc' = [pc EXCEPT ![t] = "check"]
      /\ rxbufstat' = [rxbufstat EXCEPT ![idx[t]] = "TX"]
  BY DEF TypeOK, Transmit
<1>1. \A u \in Threads : u # t /\ Holds(u) => idx[u] # idx[t]
  BY <1>0 DEF PromptInv, UniqueOwner, Shared
<1>2. \A f : Expected(f) => f.by # t /\ Expected(f)'
  BY <1>0 DEF Expected, Waiting
<1>3. Expected(Own(t))'
  BY <1>0 DEF Expected, Own, Waiting
<1>4. /\ wire \in Seq(Frame) /\ Own(t) \in Frame
      /\ Own(t).by = t /\ Own(t)' = Own(t)
  BY <1>0 DEF TypeOK, Own, Frame
<1>5. \/ wire' = wire
      \/ /\ DOMAIN wire' = 1 .. Len(wire) + 1 /\ DOMAIN wire = 1 .. Len(wire)
         /\ Len(wire) \in Nat
         /\ wire'[Len(wire) + 1] = Own(t)
         /\ \A k \in DOMAIN wire : wire'[k] = wire[k]
  BY <1>4, AppendProperties DEF Transmit
<1>6. OwnedIsBusy' /\ UniqueOwner'
  BY <1>0 DEF PromptInv, OwnedIsBusy, UniqueOwner, Shared
<1>7. NoBufferLeak'
  BY <1>0 DEF PromptInv, NoBufferLeak
<1>8. WireExpected'
  BY <1>2, <1>3, <1>4, <1>5 DEF PromptInv, WireExpected
<1>9. HandExpected' /\ OneHolder'
  BY <1>0, <1>2 DEF PromptInv, HandExpected, OneHolder
<1>10. OneCopy'
  <2>1. \A u \in Threads : hand[u].by # t
    BY <1>0, <1>2, PortAssumption, SMTT(30) DEF PromptInv, HandExpected, NoFrame
  <2>2. \A k \in DOMAIN wire : wire[k].by # t
    BY <1>2 DEF PromptInv, WireExpected
  <2>3. OneCopy
    BY DEF PromptInv
  <2>4. CASE wire' = wire
    BY <1>0, <2>3, <2>4 DEF OneCopy
  <2>5. CASE wire' # wire
    <3>1. ASSUME NEW j \in DOMAIN wire', NEW k \in DOMAIN wire',
                 wire'[j].by = wire'[k].by
          PROVE  j = k
      BY <1>4, <1>5, <2>2, <2>3, <2>5, <3>1 DEF OneCopy
    <3>2. ASSUME NEW k \in DOMAIN wire', NEW u \in Threads
          PROVE  hand'[u].by # wire'[k].by
      BY <1>0, <1>4, <1>5, <2>1, <2>3, <2>5, SMTT(30) DEF OneCopy
    <3> QED BY <3>1, <3>2 DEF OneCopy
  <2> QED BY <2>4, <2>5
<1>11. StatusOfWaiting' /\ AnswerMatches'
  BY <1>0, <1>1 DEF PromptInv, StatusOfWaiting, Waiting, AnswerMatches, Own
<1> QED BY <1>6, <1>7, <1>8, <1>9, <1>10, <1>11 DEF PromptInv

\* Steps that only move a waiting thread on: no buffer and no frame changes.
LEMMA PromptMove ==
  ASSUME TypeOK, PromptInv, NEW t \in Threads, Holds(t), pc[t] # "store",
         NEW w \in {"check", "lock", "timer", "failed", "built"},
         pc' = [pc EXCEPT ![t] = w],
         w \in {"check", "lock", "timer"} => Waiting(t),
         w \in {"failed", "built"} => ~ UnderWay(t),
         UNCHANGED <<rxbufstat, rxbuf, wire, idx, hand>>
  PROVE  PromptInv'
<1> USE DEF Holds
<1>0. pc \in [Threads -> Step] /\ idx \in [Threads -> Buf]
  BY DEF TypeOK
<1>1. \A u \in Threads : Holds(u)' <=> Holds(u)
  BY <1>0
<1>2. \A u \in Threads : (pc'[u] = "store" <=> pc[u] = "store")
                        /\ (pc'[u] = "got" => pc[u] = "got")
                        /\ (Waiting(u)' => Waiting(u))
                        /\ (u # t => (Waiting(u)' <=> Waiting(u)))
  BY <1>0 DEF Waiting
<1>3. \A f : Expected(f) /\ (f.by = t => ~ w \in {"failed", "built"}) => Expected(f)'
  BY <1>0, <1>2 DEF Expected, Waiting
<1>4. \A k \in DOMAIN wire : Expected(wire[k])'
  BY <1>3 DEF PromptInv, WireExpected, UnderWay
<1>5. \A u \in Threads : pc[u] = "store" => Expected(hand[u])'
  BY <1>3 DEF PromptInv, HandExpected, UnderWay
<1>6. OwnedIsBusy' /\ UniqueOwner' /\ NoBufferLeak'
  BY <1>1 DEF PromptInv, OwnedIsBusy, UniqueOwner, Shared, NoBufferLeak
<1>7. WireExpected' /\ HandExpected' /\ OneCopy' /\ OneHolder'
  BY <1>2, <1>4, <1>5 DEF PromptInv, WireExpected, HandExpected, OneCopy, OneHolder
<1>8. StatusOfWaiting' /\ AnswerMatches'
  BY <1>2 DEF PromptInv, StatusOfWaiting, AnswerMatches, Own
<1> QED BY <1>6, <1>7, <1>8 DEF PromptInv

\* A waiting thread takes its own answer: from rxbuf, or from the wire.
LEMMA PromptTakeStored ==
  ASSUME TypeOK, PromptInv, NEW t \in Threads, TakeStored(t)
  PROVE  PromptInv'
<1> USE DEF Goto, SetStat, Holds
<1>0. /\ pc \in [Threads -> Step] /\ idx \in [Threads -> Buf]
      /\ rxbufstat \in [Buf -> BufStat] /\ pc[t] = "check"
      /\ rxbufstat[idx[t]] = "RCVD"
      /\ UNCHANGED <<rxbuf, wire, idx, hand>>
      /\ pc' = [pc EXCEPT ![t] = "got"]
      /\ rxbufstat' = [rxbufstat EXCEPT ![idx[t]] = "COMPLETE"]
  BY DEF TypeOK, TakeStored
<1>1. \A u \in Threads : u # t /\ Holds(u) => idx[u] # idx[t]
  BY <1>0 DEF PromptInv, UniqueOwner, Shared
<1>2. rxbuf[idx[t]] = Own(t)
  BY <1>0 DEF PromptInv, StatusOfWaiting, Waiting
<1>3. \A f : Expected(f) => Expected(f)'
  BY <1>0 DEF Expected, Waiting
<1>4. OwnedIsBusy' /\ UniqueOwner' /\ NoBufferLeak'
  BY <1>0 DEF PromptInv, OwnedIsBusy, UniqueOwner, Shared, NoBufferLeak
<1>5. WireExpected' /\ HandExpected' /\ OneCopy' /\ OneHolder'
  BY <1>0, <1>3 DEF PromptInv, WireExpected, HandExpected, OneCopy, OneHolder
<1>6. StatusOfWaiting'
  BY <1>0, <1>1 DEF PromptInv, StatusOfWaiting, Waiting, Own
<1>7. AnswerMatches'
  BY <1>0, <1>1, <1>2 DEF PromptInv, AnswerMatches, Own
<1> QED BY <1>4, <1>5, <1>6, <1>7 DEF PromptInv

\* Reading the first frame off the wire leaves the others, in order.
LEMMA TailOfWire ==
  ASSUME TypeOK, wire # << >>, wire' = Tail(wire)
  PROVE  /\ 1 \in DOMAIN wire /\ Head(wire) = wire[1]
         /\ DOMAIN wire = 1 .. Len(wire) /\ Len(wire) \in Nat
         /\ \A k \in DOMAIN wire' : /\ k + 1 \in DOMAIN wire
                                    /\ wire'[k] = wire[k + 1]
                                    /\ k + 1 # 1 /\ k \in Nat
BY HeadTailProperties DEF TypeOK

\* when the answer read is the one waited for,
LEMMA PromptRecvOwn ==
  ASSUME TypeOK, PromptInv, NEW t \in Threads, RecvOwn(t)
  PROVE  PromptInv'
<1> USE DEF Goto, SetStat, Holds
<1>0. /\ pc \in [Threads -> Step] /\ idx \in [Threads -> Buf]
      /\ rxbufstat \in [Buf -> BufStat] /\ pc[t] = "lock"
      /\ rxbuf \in [Buf -> Frame \cup {NoFrame}]
      /\ wire \in Seq(Frame) /\ wire # << >> /\ wire' = Tail(wire)
      /\ Head(wire).idx = idx[t]
      /\ UNCHANGED <<idx, hand>>
      /\ rxbuf' = [rxbuf EXCEPT ![idx[t]] = Head(wire)]
      /\ pc' = [pc EXCEPT ![t] = "got"]
      /\ rxbufstat' = [rxbufstat EXCEPT ![idx[t]] = "COMPLETE"]
  BY DEF TypeOK, RecvOwn
<1>1. \A u \in Threads : u # t /\ Holds(u) => idx[u] # idx[t]
  BY <1>0 DEF PromptInv, UniqueOwner, Shared
<1>2. Head(wire).by = t /\ Head(wire) = wire[1] /\ 1 \in DOMAIN wire
  BY <1>0, TailOfWire, ExpectedOwner DEF PromptInv, WireExpected
<1>3. Head(wire) = Own(t)
  <2>1. Head(wire) \in Frame
    BY <1>0, HeadTailProperties
  <2> QED BY <1>0, <1>2, <2>1 DEF Own, Frame
<1>4. \A k \in DOMAIN wire' : k + 1 \in DOMAIN wire /\ wire'[k] = wire[k + 1]
                             /\ wire'[k].by # t
  BY <1>0, <1>2, TailOfWire DEF PromptInv, OneCopy
<1>5. \A u \in Threads : hand[u].by # t
  BY <1>2 DEF PromptInv, OneCopy
<1>6. \A f : Expected(f) /\ f.by # t => Expected(f)'
  BY <1>0, <1>1 DEF Expected, Waiting
<1>7. OwnedIsBusy' /\ UniqueOwner' /\ NoBufferLeak'
  BY <1>0 DEF PromptInv, OwnedIsBusy, UniqueOwner, Shared, NoBufferLeak
<1>8. WireExpected'
  BY <1>4, <1>6 DEF PromptInv, WireExpected
<1>9. HandExpected' /\ OneHolder'
  BY <1>0, <1>5, <1>6 DEF PromptInv, HandExpected, OneHolder
<1>10. OneCopy'
  <2>1. \A j, k \in DOMAIN wire' : wire'[j].by = wire'[k].by => j = k
    <3> SUFFICES ASSUME NEW j \in DOMAIN wire', NEW k \in DOMAIN wire', wire'[j].by = wire'[k].by
                 PROVE  j = k
      OBVIOUS
    <3>1. j + 1 \in DOMAIN wire /\ k + 1 \in DOMAIN wire /\ wire[j + 1].by = wire[k + 1].by
      BY <1>4, Zenon
    <3>2. j + 1 = k + 1
      BY <3>1, Zenon DEF PromptInv, OneCopy
    <3>3. j \in Nat /\ k \in Nat
      BY <1>0, TailOfWire, Zenon
    <3> QED BY <3>2, <3>3, SMT
  <2>2. \A k \in DOMAIN wire', u \in Threads : hand'[u].by # wire'[k].by
    <3>1. \A u \in Threads : hand'[u] = hand[u]
      BY <1>0
    <3>2. \A k \in DOMAIN wire, u \in Threads : hand[u].by # wire[k].by
      BY Zenon DEF PromptInv, OneCopy
    <3> QED BY <1>4, <3>1, <3>2, ZenonT(40)
  <2> QED BY <2>1, <2>2, Zenon DEF OneCopy
<1>11. StatusOfWaiting'
  BY <1>0, <1>1 DEF PromptInv, StatusOfWaiting, Waiting, Own
<1>12. AnswerMatches'
  BY <1>0, <1>1, <1>3 DEF PromptInv, AnswerMatches, Own
<1> QED BY <1>7, <1>8, <1>9, <1>10, <1>11, <1>12 DEF PromptInv

\* when it is that of another transaction,
LEMMA PromptRecvOther ==
  ASSUME TypeOK, PromptInv, NEW t \in Threads, RecvOther(t)
  PROVE  PromptInv'
<1> USE DEF Goto, SetStat, Holds
<1>0. /\ pc \in [Threads -> Step] /\ idx \in [Threads -> Buf]
      /\ hand \in [Threads -> Frame \cup {NoFrame}]
      /\ wire # << >> /\ wire' = Tail(wire) /\ pc[t] = "lock"
      /\ UNCHANGED <<rxbufstat, rxbuf, idx>>
      /\ \A u \in Threads : pc[u] # "store"
  BY DEF TypeOK, RecvOther, RxMutexFree
<1>1. Expected(Head(wire)) /\ Head(wire) = wire[1] /\ 1 \in DOMAIN wire
  BY <1>0, TailOfWire DEF PromptInv, WireExpected
<1>2. /\ hand' = [hand EXCEPT ![t] = wire[1]]
      /\ pc' = [pc EXCEPT ![t] = "store"]
  BY <1>1 DEF RecvOther, Expected
<1>3. \A f : Expected(f) => Expected(f)'
  BY <1>0, <1>2 DEF Expected, Waiting
<1>4. \A k \in DOMAIN wire' : k + 1 \in DOMAIN wire /\ wire'[k] = wire[k + 1]
                             /\ wire'[k].by # wire[1].by
  BY <1>0, <1>1, TailOfWire DEF PromptInv, OneCopy
<1>5. \A u \in Threads : hand[u] = NoFrame
  BY <1>0 DEF PromptInv, HandExpected
<1>6. OwnedIsBusy' /\ UniqueOwner' /\ NoBufferLeak'
  BY <1>0, <1>2 DEF PromptInv, OwnedIsBusy, UniqueOwner, Shared, NoBufferLeak
<1>7. WireExpected'
  BY <1>3, <1>4 DEF PromptInv, WireExpected
<1>8. HandExpected' /\ OneHolder'
  BY <1>0, <1>1, <1>2, <1>3, <1>5 DEF HandExpected, OneHolder
<1>9. OneCopy'
  <2>1. \A k \in DOMAIN wire' : wire'[k].by # Nobody
    BY <1>7, PortAssumption DEF WireExpected, Expected
  <2>2. ASSUME NEW k \in DOMAIN wire', NEW u \in Threads
        PROVE  hand'[u].by # wire'[k].by
    BY <1>0, <1>2, <1>4, <1>5, <2>1 DEF NoFrame
  <2>3. ASSUME NEW j \in DOMAIN wire', NEW k \in DOMAIN wire',
               wire'[j].by = wire'[k].by
        PROVE  j = k
    BY <1>0, <1>4, <2>3, TailOfWire DEF PromptInv, OneCopy
  <2> QED BY <2>2, <2>3 DEF OneCopy
<1>10. StatusOfWaiting' /\ AnswerMatches'
  BY <1>0, <1>2 DEF PromptInv, StatusOfWaiting, Waiting, AnswerMatches, Own
<1> QED BY <1>6, <1>7, <1>8, <1>9, <1>10 DEF PromptInv

\* and when it is stored for that one,
LEMMA PromptStore ==
  ASSUME TypeOK, PromptInv, NEW t \in Threads, Store(t)
  PROVE  PromptInv'
<1> USE DEF Goto, SetStat, Holds
<1>0. /\ pc \in [Threads -> Step] /\ idx \in [Threads -> Buf]
      /\ rxbufstat \in [Buf -> BufStat] /\ pc[t] = "store"
      /\ rxbuf \in [Buf -> Frame \cup {NoFrame}]
      /\ hand \in [Threads -> Frame \cup {NoFrame}]
      /\ UNCHANGED <<idx, wire>>
      /\ rxbuf' = [rxbuf EXCEPT ![hand[t].idx] = hand[t]]
      /\ rxbufstat' = [rxbufstat EXCEPT ![hand[t].idx] = "RCVD"]
      /\ hand' = [hand EXCEPT ![t] = NoFrame]
      /\ pc' = [pc EXCEPT ![t] = "timer"]
  BY DEF TypeOK, Store
<1>1. Expected(hand[t]) /\ \A u \in Threads : u # t => hand[u] = NoFrame
  BY <1>0 DEF PromptInv, HandExpected, OneHolder
<1> DEFINE o == hand[t].by
           i == hand[t].idx
<1>2. /\ o \in Threads /\ Waiting(o) /\ i = idx[o] /\ i \in Buf /\ Holds(o)
      /\ rxbufstat[i] = "TX"
  BY <1>0, <1>1 DEF Expected, Waiting
<1>3. hand[t] = [idx |-> idx[o], by |-> o]
  <2>1. o # Nobody
    BY <1>2, PortAssumption
  <2>2. hand[t] # NoFrame
    BY <2>1 DEF NoFrame
  <2> QED BY <1>0, <1>2, <2>2 DEF Frame
<1>4. \A u \in Threads : u # o /\ Holds(u) => idx[u] # i
  BY <1>2 DEF PromptInv, UniqueOwner, Shared
<1>5. \A u \in Threads : Waiting(u)' <=> Waiting(u)
  BY <1>0 DEF Waiting
<1>6. \A f : Expected(f) /\ f.by # o => Expected(f)'
  BY <1>0, <1>2, <1>4, <1>5 DEF Expected, Waiting
<1>7. \A k \in DOMAIN wire : wire[k].by # o
  BY <1>0 DEF PromptInv, OneCopy
<1>8. OwnedIsBusy' /\ UniqueOwner' /\ NoBufferLeak'
  BY <1>0, <1>2 DEF PromptInv, OwnedIsBusy, UniqueOwner, Shared, NoBufferLeak
<1>9. WireExpected'
  BY <1>0, <1>6, <1>7 DEF PromptInv, WireExpected
<1>10. HandExpected' /\ OneHolder'
  BY <1>0, <1>1 DEF PromptInv, HandExpected, OneHolder
<1>11. OneCopy'
  <2>1. \A k \in DOMAIN wire : wire[k].by # Nobody
    BY PortAssumption DEF PromptInv, WireExpected, Expected
  <2> QED BY <1>0, <1>1, <2>1 DEF PromptInv, OneCopy, NoFrame
<1>12. StatusOfWaiting'
  BY <1>0, <1>2, <1>3, <1>4, <1>5 DEF PromptInv, StatusOfWaiting, Own, Waiting
<1>13. AnswerMatches'
  BY <1>0, <1>2, <1>4 DEF PromptInv, AnswerMatches, Own, Waiting
<1> QED BY <1>8, <1>9, <1>10, <1>11, <1>12, <1>13 DEF PromptInv

\* when a buffer is given back,
LEMMA PromptRelease ==
  ASSUME TypeOK, PromptInv, NEW t \in Threads, Release(t)
  PROVE  PromptInv'
<1> USE DEF Goto, SetStat, Holds
<1>0. /\ pc \in [Threads -> Step] /\ idx \in [Threads -> Buf]
      /\ rxbufstat \in [Buf -> BufStat] /\ pc[t] \in {"got", "failed"}
      /\ rxbuf \in [Buf -> Frame \cup {NoFrame}]
      /\ hand \in [Threads -> Frame \cup {NoFrame}]
      /\ wire \in Seq(Frame)
      /\ idx' = [idx EXCEPT ![t] = 0]
      /\ rxbufstat' = [rxbufstat EXCEPT ![idx[t]] = "EMPTY"]
      /\ pc' = [pc EXCEPT ![t] = "idle"]
      /\ rxbuf' = [i \in Buf |-> Orphan(rxbuf[i], t)]
  BY DEF TypeOK, Release
<1>1. \A f : f.by # t => Orphan(f, t) = f
  BY DEF Orphan
<1>2. \A k \in DOMAIN wire : wire[k].by # t
  BY <1>0 DEF PromptInv, WireExpected, Expected, Waiting
<1>3. \A u \in Threads : hand[u].by # t
  <2> SUFFICES ASSUME NEW u \in Threads PROVE hand[u].by # t
    OBVIOUS
  <2>1. CASE pc[u] = "store"
    BY <1>0, <2>1 DEF PromptInv, HandExpected, Expected, Waiting
  <2>2. CASE pc[u] # "store"
    BY <2>2, PortAssumption DEF PromptInv, HandExpected, NoFrame
  <2> QED BY <2>1, <2>2
<1>4. wire' = wire
  BY <1>0, <1>1, <1>2 DEF Release
<1>5. hand' = hand
  BY <1>0, <1>1, <1>3 DEF Release
<1>6. \A u \in Threads : u # t /\ Holds(u) => idx[u] # idx[t] /\ idx'[u] = idx[u]
  BY <1>0 DEF PromptInv, UniqueOwner, Shared
<1>7. \A u \in Threads : Waiting(u)' => Waiting(u) /\ u # t
  BY <1>0 DEF Waiting
<1>8. \A f : Expected(f) => Expected(f)'
  BY <1>0, <1>6, ZenonT(40) DEF Expected, Waiting
<1>9. \A u \in Threads : u # t /\ rxbuf[idx[u]] = Own(u) => rxbuf'[idx[u]] = Own(u)
  BY <1>0, <1>1 DEF Own
<1>10. OwnedIsBusy' /\ UniqueOwner' /\ NoBufferLeak'
  BY <1>0, <1>6 DEF PromptInv, OwnedIsBusy, UniqueOwner, Shared, NoBufferLeak
<1>11. WireExpected' /\ HandExpected' /\ OneCopy' /\ OneHolder'
  BY <1>0, <1>4, <1>5, <1>8 DEF PromptInv, WireExpected, HandExpected, OneCopy, OneHolder
<1>12. StatusOfWaiting'
  <2> SUFFICES ASSUME NEW u \in Threads, Waiting(u)'
               PROVE  \/ rxbufstat'[idx'[u]] = "TX"
                      \/ rxbufstat'[idx'[u]] = "RCVD" /\ rxbuf'[idx'[u]] = Own(u)'
    BY DEF StatusOfWaiting
  <2>1. u # t /\ Waiting(u) /\ Holds(u)
    BY <1>7 DEF Waiting
  <2>2. idx'[u] = idx[u] /\ idx[u] # idx[t] /\ Own(u)' = Own(u)
    BY <1>6, <2>1 DEF Own
  <2>3. rxbufstat'[idx[u]] = rxbufstat[idx[u]]
    BY <1>0, <2>2
  <2> QED BY <1>9, <2>1, <2>2, <2>3 DEF PromptInv, StatusOfWaiting
<1>13. AnswerMatches'
  BY <1>0, <1>6, <1>9 DEF PromptInv, AnswerMatches, Own
<1> QED BY <1>10, <1>11, <1>12, <1>13 DEF PromptInv

\* A frame lost, or two that change places.
LEMMA PromptWire ==
  ASSUME TypeOK, PromptInv, NEW k \in DOMAIN wire, Lose(k) \/ Reverse(k)
  PROVE  PromptInv'
<1>0. UNCHANGED <<rxbufstat, rxbuf, pc, idx, hand>> /\ wire \in Seq(Frame)
  BY DEF Lose, Reverse, TypeOK
<1>1. Len(wire) \in Nat /\ DOMAIN wire = 1 .. Len(wire)
  BY <1>0
<1> DEFINE from(j) == IF Reverse(k)
                        THEN IF j = k THEN k + 1 ELSE IF j = k + 1 THEN k ELSE j
                        ELSE IF j < k THEN j ELSE j + 1
<1>2. \A j \in DOMAIN wire' : j \in Nat /\ from(j) \in DOMAIN wire /\ wire'[j] = wire[from(j)]
  <2>1. CASE Reverse(k)
    BY <1>0, <1>1, <2>1, ReverseType DEF Reverse
  <2>2. CASE ~ Reverse(k)
    <3>1. Len(wire') = Len(wire) - 1 /\ wire' \in Seq(Frame)
          /\ \A j \in DOMAIN wire' : wire'[j] = IF j < k THEN wire[j] ELSE wire[j + 1]
      BY <1>0, <2>2, LoseType
    <3>2. DOMAIN wire' = 1 .. Len(wire) - 1
      BY <3>1
    <3> QED BY <1>1, <2>2, <3>1, <3>2
  <2> QED BY <2>1, <2>2
<1>3. \A i, j \in Nat : from(i) = from(j) => i = j
  BY <1>1
<1>4. \A f : Expected(f)' <=> Expected(f)
  BY <1>0 DEF Expected, Waiting
<1> HIDE DEF from
<1>5. WireExpected' /\ HandExpected'
  BY <1>0, <1>2, <1>4 DEF PromptInv, WireExpected, HandExpected
<1>6. OneCopy'
  BY <1>0, <1>2, <1>3 DEF PromptInv, OneCopy
<1>7. /\ OwnedIsBusy' /\ UniqueOwner' /\ NoBufferLeak' /\ OneHolder'
      /\ StatusOfWaiting' /\ AnswerMatches'
  BY <1>0 DEF PromptInv, OwnedIsBusy, UniqueOwner, Shared, Holds, NoBufferLeak,
              OneHolder, StatusOfWaiting, Waiting, AnswerMatches, Own
<1> QED BY <1>5, <1>6, <1>7 DEF PromptInv

\* So it holds throughout.
LEMMA PromptInvariant ==
  ASSUME SendFails = FALSE, LateFrames = FALSE
  PROVE  Spec => []PromptInv
<1>1. TypeOK /\ PromptInv /\ [Next]_vars => PromptInv'
  <2> SUFFICES ASSUME TypeOK, PromptInv, [Next]_vars PROVE PromptInv'
    OBVIOUS
  <2>1. ASSUME NEW t \in Threads, NotStored(t) \/ RecvNothing(t) \/ PollAgain(t)
        PROVE  PromptInv'
    BY <2>1, PromptMove DEF NotStored, RecvNothing, PollAgain, Goto, Holds, Waiting
  <2>2. ASSUME NEW t \in Threads, Resend(t) \/ GiveUp(t)
        PROVE  PromptInv'
    BY <2>2, PromptMove DEF Resend, GiveUp, TimerEnds, Goto, Holds
  <2>3. ASSUME NEW t \in Threads, ThreadNext(t) PROVE PromptInv'
    BY <2>1, <2>2, <2>3, PromptGetIndex, PromptTransmit, PromptTakeStored,
       PromptRecvOwn, PromptRecvOther, PromptStore, PromptRelease
       DEF ThreadNext, Recv, TransmitFails
  <2>4. CASE WireNext
    BY <2>4, PromptWire DEF WireNext
  <2>5. CASE UNCHANGED vars
    BY <2>5 DEF vars, PromptInv, OwnedIsBusy, UniqueOwner, Shared, Holds,
                NoBufferLeak, WireExpected, HandExpected, Expected, Waiting,
                OneCopy, OneHolder, StatusOfWaiting, AnswerMatches, Own
  <2> QED BY <2>3, <2>4, <2>5 DEF Next
<1> QED BY <1>1, PromptInit, TypeCorrect, PTL DEF Spec

\* With prompt answers and a socket that sends, whatever is lost, reversed or
\* received by the other threads: an index has one owner at a time,
THEOREM IndexHasOneOwner ==
  ASSUME SendFails = FALSE, LateFrames = FALSE
  PROVE  Spec => []UniqueOwner
<1>1. PromptInv => UniqueOwner
  BY DEF PromptInv
<1> QED BY <1>1, PromptInvariant, PTL

\* every answer a caller reads answers its own datagram,
THEOREM AnswersMatch ==
  ASSUME SendFails = FALSE, LateFrames = FALSE
  PROVE  Spec => []AnswerMatches
<1>1. PromptInv => AnswerMatches
  BY DEF PromptInv
<1> QED BY <1>1, PromptInvariant, PTL

\* and every buffer in use belongs to a running transaction.
THEOREM BuffersComeBack ==
  ASSUME SendFails = FALSE, LateFrames = FALSE
  PROVE  Spec => []NoBufferLeak
<1>1. PromptInv => NoBufferLeak
  BY DEF PromptInv
<1> QED BY <1>1, PromptInvariant, PTL
=============================================================================
