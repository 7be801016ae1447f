------------------------- MODULE PairedWorldsProofs -------------------------
(***************************************************************************)
(* Proofs about PairedWorlds: what player 0 is shown tells nothing of what  *)
(* is hidden from it, for all fields, decks, numbers of slots and sequences *)
(* of moves, as long as no set cards of two owners are shuffled together.   *)
(*                                                                          *)
(* The two fields differ only in what player 0 may not know, and in the     *)
(* order of the opponent's hand; that order matters only for shown cards,   *)
(* of which both hands hold as many of each code.  The argument has two     *)
(* halves.  Fields that are alike are observed alike: what the builder      *)
(* keeps of a field, and every part of the observation made from it.  And   *)
(* a move of one field that looks the same to player 0 as a move of the     *)
(* other leaves fields that are alike, and messages that are ingested       *)
(* alike; this goes by cases over the moves of the engine, after lemmas on  *)
(* what changes when one part of a field does.                              *)
(*                                                                          *)
(* Of one duel, without that restriction on shuffles: every field is one    *)
(* the engine can be in, and player 0 is told of every card it may know.    *)
(***************************************************************************)
EXTENDS PairedWorlds, FiniteSetTheorems, SequenceTheorems, TLAPS

----------------------------------------------------------------------------
(* Numbers in order.                                                        *)

(***************************************************************************)
(* The n-th of a set of numbers.                                            *)
(***************************************************************************)
Rank(S, k) == Cardinality({j \in S : j < k})

(* The number of the smaller ones grows along a finite set of numbers and   *)
(* stays below its size.                                                    *)
LEMMA RankGrows ==
    ASSUME NEW S \in SUBSET Nat, IsFiniteSet(S)
    PROVE  /\ Cardinality(S) \in Nat
           /\ \A k \in S : Rank(S, k) \in 0..(Cardinality(S) - 1)
           /\ \A j, k \in S : j < k => Rank(S, j) < Rank(S, k)
<1> DEFINE B(k) == {j \in S : j < k}
<1>1. Cardinality(S) \in Nat
  BY FS_CardinalityType
<1>2. ASSUME NEW k \in S
      PROVE  /\ IsFiniteSet(B(k)) /\ Cardinality(B(k)) \in Nat
             /\ Cardinality(B(k)) < Cardinality(S)
  <2>1. B(k) \in SUBSET S /\ B(k) # S
    OBVIOUS
  <2>2. IsFiniteSet(B(k)) /\ Cardinality(B(k)) <= Cardinality(S) /\ Cardinality(B(k)) # Cardinality(S)
    BY <2>1, FS_Subset
  <2>3. Cardinality(B(k)) \in Nat
    BY <2>2, FS_CardinalityType
  <2> QED
    BY <1>1, <2>2, <2>3
<1>3. ASSUME NEW j \in S, NEW k \in S, j < k
      PROVE  Cardinality(B(j)) < Cardinality(B(k))
  <2>1. B(j) \in SUBSET B(k) /\ B(j) # B(k)
    <3>1. j \in B(k) /\ j \notin B(j)
      BY <1>3
    <3>2. ASSUME NEW i \in B(j) PROVE i \in B(k)
      BY <1>3
    <3> QED
      BY <3>1, <3>2
  <2>2. IsFiniteSet(B(k)) /\ Cardinality(B(k)) \in Nat /\ Cardinality(B(j)) \in Nat
    BY <1>2
  <2>3. Cardinality(B(j)) <= Cardinality(B(k)) /\ Cardinality(B(j)) # Cardinality(B(k))
    BY <2>1, <2>2, FS_Subset
  <2> QED
    BY <2>2, <2>3
<1> QED
  BY <1>1, <1>2, <1>3 DEF Rank

(* Each number of smaller ones occurs. *)
LEMMA RankIsOnto ==
    ASSUME NEW S \in SUBSET Nat, IsFiniteSet(S), NEW r \in 0..(Cardinality(S) - 1)
    PROVE  \E k \in S : Rank(S, k) = r
<1> DEFINE f == [k \in S |-> Rank(S, k)]
           T == 0..(Cardinality(S) - 1)
<1>1. f \in [S -> T]
  BY RankGrows
<1>2. ASSUME NEW j \in S, NEW k \in S, f[j] = f[k]
      PROVE  j = k
  <2>1. CASE j < k
    BY <1>2, <2>1, RankGrows
  <2>2. CASE k < j
    BY <1>2, <2>2, RankGrows
  <2> QED
    BY <2>1, <2>2
<1>3. f \in Injection(S, T)
  BY <1>1, <1>2 DEF Injection, IsInjective
<1>4. Cardinality(S) \in Nat
  BY FS_CardinalityType
<1>5. IsFiniteSet(T) /\ Cardinality(T) = Cardinality(S)
  BY <1>4, FS_Interval
<1>6. f \in Surjection(S, T)
  BY <1>3, <1>5, FS_Injection
<1> QED
  BY <1>6 DEF Surjection

(* The n-th of a finite set of numbers is in it, with n - 1 before it.      *)
LEMMA NthIsThere ==
    ASSUME NEW S \in SUBSET Nat, IsFiniteSet(S), NEW n \in 1..Cardinality(S)
    PROVE  Nth(S, n) \in S /\ Rank(S, Nth(S, n)) = n - 1
<1>1. Cardinality(S) \in Nat
  BY FS_CardinalityType
<1>2. n - 1 \in 0..(Cardinality(S) - 1)
  BY <1>1
<1>3. \E k \in S : Rank(S, k) = n - 1
  BY <1>2, RankIsOnto
<1> QED
  BY <1>3 DEF Nth, Rank

(* The n-th of a set of numbers grows with n, and each of the set is one.   *)
LEMMA NthGrows ==
    ASSUME NEW S \in SUBSET Nat, IsFiniteSet(S)
    PROVE  /\ \A m, n \in 1..Cardinality(S) : m < n => Nth(S, m) < Nth(S, n)
           /\ \A k \in S : \E n \in 1..Cardinality(S) : Nth(S, n) = k
<1>1. Cardinality(S) \in Nat
  BY FS_CardinalityType
<1>2. ASSUME NEW j \in S, NEW k \in S, Rank(S, j) = Rank(S, k)
      PROVE  j = k
  <2>1. CASE j < k
    BY <1>2, <2>1, RankGrows
  <2>2. CASE k < j
    BY <1>2, <2>2, RankGrows
  <2> QED
    BY <2>1, <2>2
<1>3. ASSUME NEW m \in 1..Cardinality(S), NEW n \in 1..Cardinality(S), m < n
      PROVE  Nth(S, m) < Nth(S, n)
  <2>1. Nth(S, m) \in S /\ Rank(S, Nth(S, m)) = m - 1 /\ Nth(S, n) \in S /\ Rank(S, Nth(S, n)) = n - 1
    BY NthIsThere
  <2> DEFINE j == Nth(S, m)
             k == Nth(S, n)
  <2>2. j \in S /\ k \in S /\ Rank(S, j) < Rank(S, k)
    BY <1>1, <1>3, <2>1
  <2>0. \A i \in S : i \in Nat
    OBVIOUS
  <2>3. j \in Nat /\ k \in Nat
    BY <2>0, <2>1
  <2>6. m - 1 # n - 1
    BY <1>1, <1>3
  <2>7. j # k
    BY <2>1, <2>6
  <2> HIDE DEF j, k
  <2>4. ~(k < j)
    <3> SUFFICES ASSUME k < j PROVE FALSE
      OBVIOUS
    <3>1. Rank(S, k) < Rank(S, j) /\ Rank(S, j) \in Int /\ Rank(S, k) \in Int
      BY <2>2, RankGrows
    <3> QED
      BY <2>2, <3>1
  <2>5. j < k
    BY <2>3, <2>4, <2>7
  <2> QED
    BY <2>5 DEF j, k
<1>4. ASSUME NEW k \in S
      PROVE  \E n \in 1..Cardinality(S) : Nth(S, n) = k
  <2>1. Rank(S, k) \in 0..(Cardinality(S) - 1)
    BY RankGrows
  <2> DEFINE n == Rank(S, k) + 1
  <2>2. n \in 1..Cardinality(S) /\ n - 1 = Rank(S, k)
    BY <1>1, <2>1
  <2>3. Nth(S, n) \in S /\ Rank(S, Nth(S, n)) = n - 1
    BY <2>2, NthIsThere
  <2>4. Nth(S, n) = k
    BY <1>2, <2>2, <2>3
  <2> QED
    BY <2>2, <2>4
<1> QED
  BY <1>3, <1>4

(* What holds for some number holds for a least one. *)
LEMMA Least ==
    ASSUME NEW S \in SUBSET Nat, S # {}
    PROVE  \E k \in S : \A j \in S : k <= j
<1> PICK m \in S : TRUE
  OBVIOUS
<1> DEFINE T == {j \in S : j <= m}
<1>0. m \in Nat /\ m <= m
  OBVIOUS
<1>1. T \in SUBSET Nat /\ m \in T /\ \A j \in T : j <= m
  <2>1. T \in SUBSET Nat
    OBVIOUS
  <2>2. m \in T
    BY <1>0
  <2> QED
    BY <2>1, <2>2
<1> HIDE DEF T
<1>2. IsFiniteSet(T)
  BY <1>1, FS_BoundedSetOfNaturals
<1>3. Cardinality(T) \in Nat /\ Cardinality(T) # 0
  BY <1>1, <1>2, FS_CardinalityType, FS_EmptySet
<1>4. 0 \in 0..(Cardinality(T) - 1)
  BY <1>3
<1>5. PICK k \in T : Rank(T, k) = 0
  BY <1>1, <1>2, <1>4, RankIsOnto
<1>6. ASSUME NEW j \in T
      PROVE  k <= j
  <2>1. CASE j < k
    BY <1>1, <1>2, <1>5, <2>1, RankGrows
  <2> QED
    BY <1>1, <2>1
<1>7. \A j \in S : k <= j
  BY <1>1, <1>6 DEF T
<1> QED
  BY <1>5, <1>7 DEF T

(***************************************************************************)
(* Flattening.                                                              *)
(***************************************************************************)
Joined(s, f) == f = [i \in 1..Len(s) |-> IF i = 1 THEN s[i] ELSE f[i - 1] \o s[i]]

(* A sequence that is appended comes after what is there. *)
LEMMA Appended ==
    ASSUME NEW T, NEW a \in Seq(T), NEW b \in Seq(T)
    PROVE  /\ a \o b \in Seq(T) /\ Len(a \o b) = Len(a) + Len(b)
           /\ \A k \in 1..Len(a) : (a \o b)[k] = a[k]
           /\ \A k \in 1..Len(b) : (a \o b)[Len(a) + k] = b[k]
  OBVIOUS

(* The sequences of a sequence can be appended one after the other. *)
LEMMA JoinedExists ==
    ASSUME NEW T, NEW s \in Seq(Seq(T))
    PROVE  \E f : Joined(s, f)
<1> DEFINE Up(n, g) == /\ DOMAIN g = 1..n
                       /\ g = [i \in 1..n |-> IF i = 1 THEN s[i] ELSE g[i - 1] \o s[i]]
           Can(n) == \E g : Up(n, g)
           Bad == {n \in Nat : n <= Len(s) /\ ~Can(n)}
<1>1. Len(s) \in Nat
  OBVIOUS
<1>2. ASSUME Bad # {} PROVE FALSE
  <2>1. Bad \in SUBSET Nat
    OBVIOUS
  <2>2. PICK n \in Bad : \A j \in Bad : n <= j
    BY <1>2, <2>1, Least
  <2>3. n \in Nat /\ n <= Len(s) /\ ~Can(n)
    BY <2>2
  <2>4. n # 0
    <3> DEFINE g == [i \in 1..0 |-> s[i]]
    <3>1. Up(0, g)
      OBVIOUS
    <3> QED
      BY <2>3, <3>1
  <2>5. n - 1 \in Nat /\ ~(n <= n - 1) /\ n - 1 <= Len(s)
    BY <2>3, <2>4, <1>1
  <2>9. n - 1 \notin Bad
    BY <2>2, <2>5
  <2>10. Can(n - 1)
    <3> HIDE DEF Can
    <3> QED
      BY <2>5, <2>9
  <2>6. PICK g : Up(n - 1, g)
    BY <2>10
  <2> DEFINE h == [i \in 1..n |-> IF i = 1 THEN s[i]
                                  ELSE IF i = n THEN g[n - 1] \o s[n] ELSE g[i]]
  <2>7. ASSUME NEW i \in 1..n
        PROVE  h[i] = IF i = 1 THEN s[i] ELSE h[i - 1] \o s[i]
    <3>1. CASE i = 1
      BY <3>1
    <3>2. CASE i # 1
      <4>1. i - 1 \in 1..(n - 1) /\ i - 1 # n /\ i - 1 \in 1..n
        BY <2>3, <3>2
      <4>2. g[i - 1] = IF i - 1 = 1 THEN s[i - 1] ELSE g[i - 1 - 1] \o s[i - 1]
        BY <2>6, <4>1
      <4>3. h[i - 1] = g[i - 1]
        BY <4>1, <4>2
      <4>4. CASE i = n
        BY <3>2, <4>3, <4>4
      <4>5. CASE i # n
        <5>1. i \in 1..(n - 1)
          BY <2>3, <4>5
        <5>2. g[i] = g[i - 1] \o s[i]
          BY <2>6, <3>2, <5>1
        <5> QED
          BY <3>2, <4>3, <4>5, <5>2
      <4> QED
        BY <4>4, <4>5
    <3> QED
      BY <3>1, <3>2
  <2>8. Up(n, h)
    <3>1. DOMAIN h = 1..n
      OBVIOUS
    <3> HIDE DEF h
    <3>3. DOMAIN [i \in 1..n |-> IF i = 1 THEN s[i] ELSE h[i - 1] \o s[i]] = 1..n
      OBVIOUS
    <3>2. h = [i \in 1..n |-> h[i]]
      BY <3>1, <2>3, h = [i \in 1..n |-> h[i]] DEF h
    <3> QED
      BY <2>7, <3>1, <3>2
  <2> QED
    BY <2>3, <2>8
<1>4. Can(Len(s))
  <2> HIDE DEF Can
  <2> QED
    BY <1>1, <1>2
<1>3. PICK g : Up(Len(s), g)
  BY <1>4
<1> QED
  BY <1>3 DEF Joined

----------------------------------------------------------------------------
(* Joined lists.  FlattenSeq is a fold: two lists of lists are joined step  *)
(* by step and side by side.                                                *)

(* The places in a sequence of sequences, in lexicographic order; and how   *)
(* they correspond to those in one long sequence.                           *)
Indices(s) == {p \in Nat \X Nat : p[1] \in 1..Len(s) /\ p[2] \in 1..Len(s[p[1]])}
Lex(p, q) == p[1] < q[1] \/ (p[1] = q[1] /\ p[2] < q[2])
Threads(b, s, f) ==
    /\ b \in [Indices(s) -> 1..Len(f)]
    /\ \A k \in 1..Len(f) : \E p \in Indices(s) : b[p] = k
    /\ \A p \in Indices(s) : f[b[p]] = s[p[1]][p[2]]
    /\ \A p, q \in Indices(s) : Lex(p, q) => b[p] < b[q]

SameShape(s, t) == Len(t) = Len(s) /\ \A n \in 1..Len(s) : Len(t[n]) = Len(s[n])

Twins(T, s, f, t, g) ==
    s \in Seq(Seq(T)) /\ t \in Seq(Seq(T)) /\ SameShape(s, t) /\ Joined(s, f) /\ Joined(t, g)

Follows(n, N, s) == n >= 1 /\ N = n + 1 /\ N <= Len(s)

(* Up to the n-th of them. *)
UpTo(n, T, s, f, t, g) ==
    LET off(m) == IF m = 0 THEN 0 ELSE Len(f[m])
    IN  /\ f[n] \in Seq(T) /\ g[n] \in Seq(T) /\ Len(g[n]) = Len(f[n])
        /\ \A m \in 1..n : off(m) \in Nat /\ off(m) <= off(n) /\ off(m) = off(m - 1) + Len(s[m])
        /\ \A m \in 1..n : \A i \in 1..Len(s[m]) :
              f[n][off(m - 1) + i] = s[m][i] /\ g[n][off(m - 1) + i] = t[m][i]
        /\ \A k \in 1..Len(f[n]) : \E m \in 1..n : \E i \in 1..Len(s[m]) : k = off(m - 1) + i

(* A joined list grows by one list at a time.                               *)
LEMMA JoinedAt ==
    ASSUME NEW s, NEW f, Joined(s, f), NEW i \in 1..Len(s)
    PROVE  f[i] = IF i = 1 THEN s[i] ELSE f[i - 1] \o s[i]
<1> DEFINE h == [j \in 1..Len(s) |-> IF j = 1 THEN s[j] ELSE f[j - 1] \o s[j]]
<1>1. f = h
  BY DEF Joined
<1>2. h[i] = IF i = 1 THEN s[i] ELSE f[i - 1] \o s[i]
  OBVIOUS
<1> HIDE DEF h
<1> QED
  BY <1>1, <1>2

(* The first lists of two lists of lists, joined side by side.              *)
LEMMA UpToFirst ==
    ASSUME NEW T, NEW s, NEW t, NEW f, NEW g, Twins(T, s, f, t, g), Len(s) >= 1
    PROVE  UpTo(1, T, s, f, t, g)
<1>1. f[1] = s[1] /\ g[1] = t[1] /\ s[1] \in Seq(T) /\ t[1] \in Seq(T) /\ Len(t[1]) = Len(s[1])
  <2>1. 1 \in 1..Len(s) /\ 1 \in 1..Len(t)
    BY DEF Twins, SameShape
  <2>2. f[1] = s[1] /\ g[1] = t[1]
    BY <2>1, JoinedAt DEF Twins
  <2>3. s[1] \in Seq(T) /\ t[1] \in Seq(T)
    BY <2>1 DEF Twins
  <2>4. Len(t[1]) = Len(s[1])
    BY <2>1 DEF Twins, SameShape
  <2> QED
    BY <2>2, <2>3, <2>4
<1>2. Len(s[1]) \in Nat
  BY <1>1
<1> QED
  BY <1>1, <1>2 DEF UpTo

(* If the first n are joined side by side, so are the first n + 1.          *)
LEMMA UpToNext ==
    ASSUME NEW T, NEW s, NEW t, NEW f, NEW g, Twins(T, s, f, t, g),
           NEW n \in Nat, NEW N \in Nat, Follows(n, N, s),
           UpTo(n, T, s, f, t, g)
    PROVE  UpTo(N, T, s, f, t, g)
<1> DEFINE off(m) == IF m = 0 THEN 0 ELSE Len(f[m])
<1>0. /\ N \in 1..Len(s) /\ N \in 1..Len(t) /\ N # 1 /\ N - 1 = n
      /\ \A m \in 1..N : Len(s[m]) \in Nat
  <2>1. Len(s) \in Nat /\ Len(t) = Len(s)
    BY DEF Twins, SameShape
  <2>2. N \in 1..Len(s) /\ N # 1 /\ N - 1 = n
    BY <2>1 DEF Follows
  <2>3. ASSUME NEW m \in 1..N PROVE Len(s[m]) \in Nat
    <3>1. m \in 1..Len(s)
      BY <2>1 DEF Follows
    <3>2. s[m] \in Seq(T)
      BY <3>1 DEF Twins
    <3> QED
      BY <3>2
  <2> QED
    BY <2>1, <2>2, <2>3
<1>1. /\ f[N] = f[n] \o s[N] /\ g[N] = g[n] \o t[N]
      /\ s[N] \in Seq(T) /\ t[N] \in Seq(T) /\ Len(t[N]) = Len(s[N])
  <2>1. f[N] = f[n] \o s[N] /\ g[N] = g[n] \o t[N]
    <3>1. /\ f[N] = IF N = 1 THEN s[N] ELSE f[N - 1] \o s[N]
          /\ g[N] = IF N = 1 THEN t[N] ELSE g[N - 1] \o t[N]
      BY <1>0, JoinedAt DEF Twins
    <3> QED
      BY <1>0, <3>1
  <2>2. s[N] \in Seq(T) /\ t[N] \in Seq(T)
    BY <1>0 DEF Twins
  <2>3. Len(t[N]) = Len(s[N])
    BY <1>0 DEF Twins, SameShape
  <2> QED
    BY <2>1, <2>2, <2>3
<1>2. /\ f[n] \in Seq(T) /\ g[n] \in Seq(T) /\ Len(g[n]) = Len(f[n])
      /\ \A m \in 1..n : off(m) \in Nat /\ off(m) <= off(n) /\ off(m) = off(m - 1) + Len(s[m])
      /\ \A m \in 1..n : \A i \in 1..Len(s[m]) :
            f[n][off(m - 1) + i] = s[m][i] /\ g[n][off(m - 1) + i] = t[m][i]
      /\ \A k \in 1..Len(f[n]) : \E m \in 1..n : \E i \in 1..Len(s[m]) : k = off(m - 1) + i
  BY DEF UpTo
<1>20. PICK a \in Seq(T), b \in Seq(T), c \in Seq(T), d \in Seq(T) :
      a = f[n] /\ b = s[N] /\ c = g[n] /\ d = t[N]
  BY <1>1, <1>2
<1>3. /\ f[N] \in Seq(T) /\ Len(f[N]) = Len(f[n]) + Len(s[N])
      /\ \A k \in 1..Len(f[n]) : f[N][k] = f[n][k]
      /\ \A k \in 1..Len(s[N]) : f[N][Len(f[n]) + k] = s[N][k]
  <2>1. f[N] = a \o b
    BY <1>1, <1>20
  <2>2. Len(f[n]) = Len(a) /\ Len(s[N]) = Len(b) /\ f[n] = a /\ s[N] = b
    BY <1>20
  <2> QED
    BY <2>1, <2>2, Appended
<1>4. /\ g[N] \in Seq(T) /\ Len(g[N]) = Len(g[n]) + Len(t[N])
      /\ \A k \in 1..Len(g[n]) : g[N][k] = g[n][k]
      /\ \A k \in 1..Len(t[N]) : g[N][Len(g[n]) + k] = t[N][k]
  <2>1. g[N] = c \o d
    BY <1>1, <1>20
  <2>2. Len(g[n]) = Len(c) /\ Len(t[N]) = Len(d) /\ g[n] = c /\ t[N] = d
    BY <1>20
  <2> QED
    BY <2>1, <2>2, Appended
<1>21. PICK x \in Nat, y \in Nat : x = Len(f[n]) /\ y = Len(s[N])
  BY <1>1, <1>2
<1>5. Len(f[n]) = x /\ Len(s[N]) = y /\ Len(f[N]) = x + y
  BY <1>3, <1>21
<1>6. off(n) = Len(f[n]) /\ off(N) = off(n) + Len(s[N]) /\ N - 1 = n
  BY <1>0, <1>5
<1>11. n # 0 /\ N # 0 /\ N = n + 1
  BY DEF Follows
<1> HIDE DEF off
<1>7. ASSUME NEW m \in 1..N
      PROVE  off(m) \in Nat /\ off(m) <= off(N) /\ off(m) = off(m - 1) + Len(s[m])
  <2>1. CASE m = N
    <3>1. off(N) = x + y /\ off(n) = x /\ off(N) \in Nat /\ off(N) <= off(N)
      BY <1>5, <1>6
    <3>2. off(N) = off(N - 1) + Len(s[N])
      BY <1>6
    <3> QED
      BY <2>1, <3>1, <3>2
  <2>2. CASE m # N
    <3>1. m \in 1..n
      BY <1>11, <2>2
    <3>2. off(m) \in Nat /\ off(m) <= off(n) /\ off(m) = off(m - 1) + Len(s[m])
      BY <1>2, <3>1
    <3> QED
      BY <1>5, <1>6, <3>2
  <2> QED
    BY <2>1, <2>2
<1>8. ASSUME NEW m \in 1..N, NEW i \in 1..Len(s[m])
      PROVE  f[N][off(m - 1) + i] = s[m][i] /\ g[N][off(m - 1) + i] = t[m][i]
  <2>1. CASE m = N
    <3>1. off(m - 1) = Len(f[n]) /\ off(m - 1) = Len(g[n]) /\ i \in 1..Len(s[N])
      BY <1>2, <1>6, <2>1
    <3> QED
      BY <1>1, <1>3, <1>4, <2>1, <3>1
  <2>2. CASE m # N
    <3>1. m \in 1..n
      BY <1>11, <2>2
    <3>2. off(m) \in Nat /\ off(m) <= off(n) /\ off(m) = off(m - 1) + Len(s[m])
      BY <1>2, <3>1
    <3>3. off(m - 1) \in Nat
      <4>1. CASE m = 1
        BY <4>1 DEF off
      <4>2. CASE m # 1
        <5>1. m - 1 \in 1..n
          BY <3>1, <4>2
        <5> QED
          BY <1>2, <5>1
      <4> QED
        BY <4>1, <4>2
    <3>4. f[n][off(m - 1) + i] = s[m][i] /\ g[n][off(m - 1) + i] = t[m][i]
      BY <1>2, <3>1
    <3>5. off(m - 1) + i \in 1..Len(f[n])
      <4>2. Len(s[m]) \in Nat
        BY <1>0
      <4>1. PICK u \in Nat, v \in Nat : u = off(m - 1) /\ v = Len(s[m])
        BY <3>3, <4>2
      <4>3. i \in 1..v /\ off(m) = u + v /\ u + v <= x
        BY <1>5, <1>6, <3>2, <4>1
      <4>4. u + i \in 1..x
        BY <4>3
      <4> QED
        BY <1>5, <4>1, <4>4
    <3> QED
      BY <1>2, <1>3, <1>4, <3>4, <3>5
  <2> QED
    BY <2>1, <2>2
<1>9. ASSUME NEW k \in 1..Len(f[N])
      PROVE  \E m \in 1..N : \E i \in 1..Len(s[m]) : k = off(m - 1) + i
  <2>1. CASE k <= Len(f[n])
    <3>1. k \in 1..Len(f[n])
      BY <1>5, <2>1
    <3>2. PICK m \in 1..n : \E i \in 1..Len(s[m]) : k = off(m - 1) + i
      BY <1>2, <3>1
    <3>3. m \in 1..N
      BY <1>11
    <3> QED
      BY <3>2, <3>3
  <2>2. CASE ~(k <= Len(f[n]))
    <3>0. k \in Nat /\ k <= x + y
      BY <1>5
    <3>1. PICK i \in Nat : k = Len(f[n]) + i
      <4>1. k - x \in Nat /\ k = x + (k - x)
        BY <1>5, <2>2, <3>0
      <4> QED
        BY <1>5, <4>1
    <3>3. i \in 1..Len(s[N])
      BY <1>5, <2>2, <3>0, <3>1
    <3>2. N \in 1..N /\ off(N - 1) = Len(f[n])
      BY <1>6
    <3> QED
      BY <3>1, <3>2, <3>3
  <2> QED
    BY <2>1, <2>2
<1>10. Len(g[N]) = Len(f[N])
  BY <1>1, <1>2, <1>3, <1>4
<1> QED
  BY <1>3, <1>4, <1>7, <1>8, <1>9, <1>10 DEF UpTo, off

(* So all of them are, by induction on a natural number.                    *)
LEMMA UpToAll ==
    ASSUME NEW T, NEW s, NEW t, NEW f, NEW g, Twins(T, s, f, t, g), Len(s) # 0
    PROVE  UpTo(Len(s), T, s, f, t, g)
<1> DEFINE Good(n) == UpTo(n, T, s, f, t, g)
           Bad == {n \in Nat : n >= 1 /\ n <= Len(s) /\ ~Good(n)}
<1>1. Len(s) \in Nat /\ Len(s) >= 1
  BY DEF Twins
<1>2. Good(1)
  BY <1>1, UpToFirst
<1>3. ASSUME NEW n \in Nat, NEW N \in Nat, Follows(n, N, s), Good(n)
      PROVE  Good(N)
  BY <1>3, UpToNext
<1> HIDE DEF Good
<1>4. ASSUME Bad # {} PROVE FALSE
  <2>1. Bad \in SUBSET Nat
    OBVIOUS
  <2>2. PICK n \in Bad : \A j \in Bad : n <= j
    BY <1>4, <2>1, Least
  <2>3. n \in Nat /\ n >= 1 /\ n <= Len(s) /\ ~Good(n)
    BY <2>2
  <2>4. n # 1
    BY <1>2, <2>3
  <2>5. n - 1 \in Nat /\ n - 1 >= 1 /\ (n - 1) + 1 = n /\ ~(n <= n - 1) /\ n - 1 <= Len(s)
    BY <1>1, <2>3, <2>4
  <2>6. n - 1 \notin Bad
    BY <2>2, <2>5
  <2>7. Good(n - 1)
    BY <2>5, <2>6
  <2>8. Good(n)
    <3>1. Follows(n - 1, n, s)
      BY <2>3, <2>5 DEF Follows
    <3> QED
      BY <1>3, <2>3, <2>5, <2>7, <3>1
  <2> QED
    BY <2>3, <2>5, <2>8
<1>5. Good(Len(s))
  BY <1>1, <1>4
<1> QED
  BY <1>5 DEF Good

(* FlattenSeq joins lists from the first on.                                *)
LEMMA FlatIsJoined ==
    ASSUME NEW T, NEW s \in Seq(Seq(T)), Len(s) # 0
    PROVE  \E f : Joined(s, f) /\ FlattenSeq(s) = f[Len(s)]
<1> DEFINE F == CHOOSE f : Joined(s, f)
<1>1. Joined(s, F)
  BY JoinedExists
<1>2. FlattenSeq(s) = F[Len(s)]
  BY DEF FlattenSeq, Joined
<1> QED
  BY <1>1, <1>2

(* Two joined lists whose lists have the same lengths are numbered by the   *)
(* same pairs.                                                              *)
LEMMA ThreadsOf ==
    ASSUME NEW T, NEW s, NEW t, NEW f, NEW g, Twins(T, s, f, t, g), NEW n \in Nat,
           n # 0, n = Len(s), UpTo(n, T, s, f, t, g)
    PROVE  \E b : Threads(b, s, f[n]) /\ Threads(b, t, g[n])
<1> DEFINE off(m) == IF m = 0 THEN 0 ELSE Len(f[m])
           b == [p \in Indices(s) |-> off(p[1] - 1) + p[2]]
<1>1. /\ f[n] \in Seq(T) /\ g[n] \in Seq(T) /\ Len(g[n]) = Len(f[n])
      /\ \A m \in 1..n : off(m) \in Nat /\ off(m) <= off(n) /\ off(m) = off(m - 1) + Len(s[m])
      /\ \A m \in 1..n : \A i \in 1..Len(s[m]) :
            f[n][off(m - 1) + i] = s[m][i] /\ g[n][off(m - 1) + i] = t[m][i]
      /\ \A k \in 1..Len(f[n]) : \E m \in 1..n : \E i \in 1..Len(s[m]) : k = off(m - 1) + i
  BY DEF UpTo
<1>2. off(0) = 0 /\ off(n) = Len(f[n])
  OBVIOUS
<1>3. \A m \in 1..n : Len(s[m]) \in Nat /\ Len(t[m]) = Len(s[m])
  <2> SUFFICES ASSUME NEW m \in 1..n PROVE Len(s[m]) \in Nat /\ Len(t[m]) = Len(s[m])
    OBVIOUS
  <2>1. s[m] \in Seq(T)
    BY DEF Twins
  <2>2. Len(t[m]) = Len(s[m])
    BY DEF Twins, SameShape
  <2> QED
    BY <2>1, <2>2
<1>4. Indices(t) = Indices(s)
  <2>1. Len(t) = Len(s) /\ Len(s) = n
    BY DEF Twins, SameShape
  <2> QED
    BY <1>3, <2>1 DEF Indices
<1> HIDE DEF off
<1>5. \A m \in 1..n : off(m - 1) \in Nat
  <2> SUFFICES ASSUME NEW m \in 1..n PROVE off(m - 1) \in Nat
    OBVIOUS
  <2>1. CASE m = 1
    BY <1>2, <2>1
  <2>2. CASE m # 1
    <3>1. m - 1 \in 1..n
      BY <2>2
    <3> QED
      BY <1>1, <3>1
  <2> QED
    BY <2>1, <2>2
<1>6. ASSUME NEW p \in Indices(s)
      PROVE  /\ p[1] \in 1..n /\ p[2] \in 1..Len(s[p[1]]) /\ p = <<p[1], p[2]>>
             /\ b[p] = off(p[1] - 1) + p[2] /\ b[p] \in 1..Len(f[n])
             /\ off(p[1]) \in Nat /\ b[p] <= off(p[1]) /\ b[p] > off(p[1] - 1)
             /\ off(p[1] - 1) \in Nat /\ p[2] \in Nat
  <2>1. p[1] \in 1..n /\ p[2] \in 1..Len(s[p[1]]) /\ p = <<p[1], p[2]>> /\ b[p] = off(p[1] - 1) + p[2]
    BY DEF Indices
  <2>2. PICK m \in 1..n : m = p[1]
    BY <2>1
  <2>7. PICK i \in 1..Len(s[m]) : i = p[2]
    BY <2>1, <2>2
  <2>3. PICK u \in Nat, v \in Nat, w \in Nat, x \in Nat :
           u = off(m - 1) /\ v = Len(s[m]) /\ w = off(m) /\ x = Len(f[n])
    BY <1>1, <1>3, <1>5
  <2>4. w = u + v /\ w <= x
    BY <1>1, <1>2, <2>3
  <2>5. i \in 1..v
    BY <2>3
  <2>6. u + i \in 1..x /\ u + i <= w /\ u + i > u /\ i \in Nat
    BY <2>4, <2>5
  <2> QED
    BY <2>1, <2>2, <2>3, <2>6, <2>7
<1>7. ASSUME NEW p \in Indices(s), NEW q \in Indices(s), Lex(p, q)
      PROVE  b[p] < b[q]
  <2>1. CASE p[1] = q[1]
    <3>1. p[2] < q[2]
      BY <1>6, <1>7, <2>1 DEF Lex
    <3>2. b[p] = off(p[1] - 1) + p[2] /\ b[q] = off(p[1] - 1) + q[2]
      BY <1>6, <2>1
    <3>3. off(p[1] - 1) \in Nat /\ p[2] \in Nat /\ q[2] \in Nat
      BY <1>6
    <3> QED
      BY <3>1, <3>2, <3>3
  <2>2. CASE p[1] # q[1]
    <3>1. PICK m \in 1..n, M \in 1..n : m = p[1] /\ M = q[1]
      BY <1>6
    <3>2. m < M
      BY <1>7, <2>2, <3>1 DEF Lex
    <3>3. off(m) <= off(M - 1)
      <4> DEFINE Bad == {j \in Nat : j >= m /\ j <= n /\ ~(off(m) <= off(j))}
      <4>1. ASSUME Bad # {} PROVE FALSE
        <5>1. Bad \in SUBSET Nat
          OBVIOUS
        <5>2. PICK j \in Bad : \A k \in Bad : j <= k
          BY <4>1, <5>1, Least
        <5>3. j \in Nat /\ j >= m /\ j <= n /\ ~(off(m) <= off(j))
          BY <5>2
        <5>4. off(m) \in Nat
          BY <1>1
        <5>5. j # m
          BY <5>3, <5>4
        <5>6. j - 1 \in Nat /\ j - 1 >= m /\ j - 1 <= n /\ ~(j <= j - 1)
          BY <5>3, <5>5
        <5>7. j - 1 \notin Bad
          BY <5>2, <5>6
        <5>8. off(m) <= off(j - 1)
          BY <5>6, <5>7
        <5>9. j \in 1..n
          BY <5>3
        <5>10. off(j - 1) \in Nat /\ off(j) = off(j - 1) + Len(s[j]) /\ Len(s[j]) \in Nat
          BY <1>1, <1>3, <1>5, <5>9
        <5> QED
          BY <5>3, <5>4, <5>8, <5>10
      <4>2. M - 1 \in Nat /\ M - 1 >= m /\ M - 1 <= n
        BY <3>2
      <4> QED
        BY <4>1, <4>2
    <3>4. b[p] <= off(m) /\ b[q] > off(M - 1) /\ off(m) \in Nat /\ off(M - 1) \in Nat
      BY <1>6, <3>1
    <3>5. b[p] \in Int /\ b[q] \in Int
      BY <1>6
    <3> QED
      BY <3>3, <3>4, <3>5
  <2> QED
    BY <2>1, <2>2
<1>8. ASSUME NEW k \in 1..Len(f[n]) PROVE \E p \in Indices(s) : b[p] = k
  <2>4. PICK m \in 1..n : \E i \in 1..Len(s[m]) : k = off(m - 1) + i
    BY <1>1
  <2>1. PICK i \in 1..Len(s[m]) : k = off(m - 1) + i
    BY <2>4
  <2>2. <<m, i>> \in Indices(s)
    <3>1. i \in Nat /\ m \in Nat
      BY <1>3
    <3> QED
      BY <2>1, <3>1 DEF Indices
  <2>3. b[<<m, i>>] = k
    BY <2>1, <2>2
  <2> QED
    BY <2>2, <2>3
<1>9. b \in [Indices(s) -> 1..Len(f[n])]
  BY <1>6
<1>10. \A p \in Indices(s) : f[n][b[p]] = s[p[1]][p[2]] /\ g[n][b[p]] = t[p[1]][p[2]]
  BY <1>1, <1>6
<1> HIDE DEF b
<1>11. Threads(b, s, f[n])
  BY <1>7, <1>8, <1>9, <1>10 DEF Threads
<1>12. Threads(b, t, g[n])
  <2>1. 1..Len(g[n]) = 1..Len(f[n])
    BY <1>1
  <2>2. /\ b \in [Indices(t) -> 1..Len(g[n])]
        /\ \A k \in 1..Len(g[n]) : \E p \in Indices(t) : b[p] = k
    BY <1>4, <1>8, <1>9, <2>1
  <2>3. /\ \A p \in Indices(t) : g[n][b[p]] = t[p[1]][p[2]]
        /\ \A p, q \in Indices(t) : Lex(p, q) => b[p] < b[q]
    BY <1>4, <1>7, <1>10
  <2> QED
    BY <2>2, <2>3 DEF Threads
<1> QED
  BY <1>11, <1>12

(* Sequences of the same lengths are flattened in the same way: one         *)
(* monotone correspondence of places serves both.                           *)
LEMMA Flattened ==
    ASSUME NEW T, NEW s \in Seq(Seq(T)), NEW t \in Seq(Seq(T)), SameShape(s, t)
    PROVE  /\ FlattenSeq(s) \in Seq(T) /\ FlattenSeq(t) \in Seq(T)
           /\ \E b : Threads(b, s, FlattenSeq(s)) /\ Threads(b, t, FlattenSeq(t))
<1>1. CASE Len(s) = 0
  <2>1. s = <<>> /\ t = <<>>
    BY <1>1 DEF SameShape
  <2>2. FlattenSeq(s) = <<>> /\ FlattenSeq(t) = <<>>
    BY <2>1 DEF FlattenSeq
  <2>3. Indices(s) = {} /\ Indices(t) = {}
    BY <2>1 DEF Indices
  <2>4. Len(<<>>) = 0 /\ 1..0 = {} /\ <<>> \in Seq(T)
    OBVIOUS
  <2> DEFINE b == [p \in {} |-> 0]
  <2>5. b \in [{} -> {}]
    OBVIOUS
  <2> HIDE DEF b
  <2>6. Threads(b, s, <<>>) /\ Threads(b, t, <<>>)
    BY <2>3, <2>4, <2>5 DEF Threads
  <2> QED
    BY <2>2, <2>4, <2>6
<1>2. CASE Len(s) # 0
  <2>1. Len(t) = Len(s) /\ Len(s) \in Nat
    BY DEF SameShape
  <2>2. PICK f : Joined(s, f) /\ FlattenSeq(s) = f[Len(s)]
    BY <1>2, FlatIsJoined
  <2>3. PICK g : Joined(t, g) /\ FlattenSeq(t) = g[Len(s)]
    BY <1>2, <2>1, FlatIsJoined
  <2>4. Twins(T, s, f, t, g)
    BY <2>2, <2>3 DEF Twins
  <2>5. UpTo(Len(s), T, s, f, t, g)
    BY <1>2, <2>4, UpToAll
  <2>6. \E b : Threads(b, s, f[Len(s)]) /\ Threads(b, t, g[Len(s)])
    BY <1>2, <2>1, <2>4, <2>5, ThreadsOf
  <2>7. f[Len(s)] \in Seq(T) /\ g[Len(s)] \in Seq(T)
    BY <2>5 DEF UpTo
  <2> QED
    BY <2>2, <2>3, <2>6, <2>7
<1> QED
  BY <1>1, <1>2

----------------------------------------------------------------------------
(* The cards of a field, as the queries of the builder tell of them.        *)

(***************************************************************************)
(* The cards that are queried.                                              *)
(***************************************************************************)
AnyCards ==
    [code : Codes, owner : Players, up : BOOLEAN, shown : BOOLEAN, materials : Seq(PlainCards),
     equip : Seq(Aimed), targets : Seq(Aimed)]
Places == {"hand", "mzone", "szone", "grave", "removed", "extra"}
Queries ==
    [controller : Players, location : Places, sequence : Nat, card : AnyCards, zone : 2..9]

(* Cards of every kind are cards.                                           *)
LEMMA CardsAreCards ==
    PlainCards \subseteq AnyCards /\ MonsterCards \subseteq AnyCards
    /\ HeldCards \subseteq AnyCards /\ SpellCards \subseteq AnyCards
<1>1. \A T : <<>> \in Seq(T)
  OBVIOUS
<1>2. PlainCards \subseteq AnyCards
  BY <1>1 DEF PlainCards, CardsWith, AnyCards
<1>3. MonsterCards \subseteq AnyCards
  BY <1>1 DEF MonsterCards, CardsWith, AnyCards
<1>4. HeldCards \subseteq AnyCards
  BY <1>1 DEF HeldCards, AnyCards
<1>5. SpellCards \subseteq AnyCards
  BY <1>1 DEF SpellCards, AnyCards
<1> QED
  BY <1>2, <1>3, <1>4, <1>5

(* What a query tells of a card.                                            *)
LEMMA QueryIs ==
    ASSUME NEW p \in Players, NEW location \in Places, NEW sequence \in Nat, NEW card \in AnyCards
    PROVE  /\ Query(p, location, sequence, card) \in Queries
           /\ Query(p, location, sequence, card).controller = p
           /\ Query(p, location, sequence, card).location = location
           /\ Query(p, location, sequence, card).sequence = sequence
           /\ Query(p, location, sequence, card).card = card
           /\ Query(p, location, sequence, card).zone = ProjectZone(location, sequence)
<1>1. ProjectZone(location, sequence) \in 2..9
  BY DEF ProjectZone, Places, Hand, MonsterZone, SpellTrapZone, Graveyard, Banished, ExtraDeck,
         FieldZone, PendulumRelevant
<1> QED
  BY <1>1 DEF Query, Queries

(* What is selected from a sequence. *)
LEMMA SelectedIs ==
    ASSUME NEW T, NEW s \in Seq(T), NEW P \in SUBSET (1..Len(s))
    PROVE  /\ P \in SUBSET Nat /\ IsFiniteSet(P)
           /\ Selected(s, P) \in Seq(T) /\ Len(Selected(s, P)) = Cardinality(P)
           /\ Cardinality(P) \in Nat
           /\ \A n \in 1..Cardinality(P) : Nth(P, n) \in P /\ Selected(s, P)[n] = s[Nth(P, n)]
           /\ \A m, n \in 1..Cardinality(P) : m < n => Nth(P, m) < Nth(P, n)
           /\ \A k \in P : \E n \in 1..Cardinality(P) : Nth(P, n) = k
<1>1. IsFiniteSet(1..Len(s))
  BY FS_Interval
<1>2. P \in SUBSET Nat /\ IsFiniteSet(P)
  <2>1. P \in SUBSET Nat
    BY 1..Len(s) \in SUBSET Nat
  <2>2. IsFiniteSet(P)
    BY <1>1, FS_Subset
  <2> QED
    BY <2>1, <2>2
<1>3. Cardinality(P) \in Nat
  BY <1>2, FS_CardinalityType
<1>4. \A n \in 1..Cardinality(P) : Nth(P, n) \in P
  BY <1>2, NthIsThere
<1>5. /\ \A m, n \in 1..Cardinality(P) : m < n => Nth(P, m) < Nth(P, n)
      /\ \A k \in P : \E n \in 1..Cardinality(P) : Nth(P, n) = k
  BY <1>2, NthGrows
<1>6. ASSUME NEW n \in 1..Cardinality(P) PROVE s[Nth(P, n)] \in T
  <2>1. PICK k \in 1..Len(s) : k = Nth(P, n)
    BY <1>4
  <2> QED
    BY <2>1
<1>7. Selected(s, P) \in [1..Cardinality(P) -> T]
  BY <1>6 DEF Selected
<1>8. Selected(s, P) \in Seq(T) /\ Len(Selected(s, P)) = Cardinality(P)
  BY <1>3, <1>7
<1>9. \A n \in 1..Cardinality(P) : Selected(s, P)[n] = s[Nth(P, n)]
  BY DEF Selected
<1> QED
  BY <1>2, <1>3, <1>4, <1>5, <1>8, <1>9

(***************************************************************************)
(* What a location's query tells: cards in ascending places.                *)
(***************************************************************************)
Listed(w, p, location) ==
    CASE location = "hand" -> w.hand[p] [] location = "grave" -> w.grave[p]
      [] location = "removed" -> w.banished[p] [] location = "extra" -> w.extra[p]
Row(location) == IF location = "mzone" THEN "monsters" ELSE "spells"

(* Where there are cards, and which. *)
There(w, p, location) ==
    IF location \in {"mzone", "szone"} THEN Taken(w, Row(location), p)
    ELSE {i - 1 : i \in 1..Len(Listed(w, p, location))}
CardOf(w, p, location, sequence) ==
    IF location \in {"mzone", "szone"} THEN CardAt(w, Row(location), p, sequence)
    ELSE Listed(w, p, location)[sequence + 1]

(* The hand and the piles are queried as lists.                             *)
LEMMA ListedIs ==
    ASSUME NEW w, Proper(w), NEW p \in Players, NEW location \in Places \ {"mzone", "szone"}
    PROVE  Listed(w, p, location) \in Seq(AnyCards)
           /\ At(w, p, location) = ListAt(Listed(w, p, location), p, location)
<1>1. /\ w.hand[p] \in Seq(HeldCards) /\ w.grave[p] \in Seq(PlainCards)
      /\ w.banished[p] \in Seq(PlainCards) /\ w.extra[p] \in Seq(PlainCards)
  BY DEF Proper, Fields
<1>2. /\ w.hand[p] \in Seq(AnyCards) /\ w.grave[p] \in Seq(AnyCards)
      /\ w.banished[p] \in Seq(AnyCards) /\ w.extra[p] \in Seq(AnyCards)
  BY <1>1, CardsAreCards
<1> QED
  BY <1>2 DEF Listed, At, Places

(* Monsters and spells are queried slot by slot.                            *)
LEMMA TakenIs ==
    ASSUME NEW w, Proper(w), NEW p \in Players, NEW location \in {"mzone", "szone"}
    PROVE  /\ Taken(w, Row(location), p) \in SUBSET Nat
           /\ IsFiniteSet(Taken(w, Row(location), p))
           /\ \A s \in Taken(w, Row(location), p) : CardAt(w, Row(location), p, s) \in AnyCards
           /\ Taken(w, Row(location), p)
                = {s \in DOMAIN w[Row(location)][p] : w[Row(location)][p][s] # <<>>}
           /\ At(w, p, location) = SlotsAt(w[Row(location)][p], p, location)
<1>1. /\ w["monsters"][p] \in [MonsterSlots -> Seq(MonsterCards)]
      /\ w["spells"][p] \in [SpellSlots -> Seq(SpellCards)]
  BY DEF Proper, Fields
<1>2. CASE location = "mzone"
  <2>1. Taken(w, "monsters", p) \in SUBSET MonsterSlots
    BY DEF Taken, Slots
  <2>2. IsFiniteSet(Taken(w, "monsters", p))
    BY <2>1, SlotsAssumption, FS_Subset
  <2>3. ASSUME NEW s \in Taken(w, "monsters", p)
        PROVE  CardAt(w, "monsters", p, s) \in AnyCards
    <3>1. w["monsters"][p][s] \in Seq(MonsterCards) /\ w["monsters"][p][s] # <<>>
      BY <1>1, <2>1 DEF Taken
    <3>2. w["monsters"][p][s][1] \in MonsterCards
      BY <3>1
    <3> QED
      BY <3>2, CardsAreCards DEF CardAt
  <2>4. Taken(w, "monsters", p) = {s \in DOMAIN w["monsters"][p] : w["monsters"][p][s] # <<>>}
    BY <1>1 DEF Taken, Slots
  <2>5. At(w, p, "mzone") = SlotsAt(w["monsters"][p], p, "mzone")
    BY DEF At
  <2> QED
    BY <1>2, <2>1, <2>2, <2>3, <2>4, <2>5, SlotsAssumption DEF Row
<1>3. CASE location = "szone"
  <2>1. Taken(w, "spells", p) \in SUBSET SpellSlots
    BY DEF Taken, Slots
  <2>2. IsFiniteSet(Taken(w, "spells", p))
    BY <2>1, SlotsAssumption, FS_Subset
  <2>3. ASSUME NEW s \in Taken(w, "spells", p)
        PROVE  CardAt(w, "spells", p, s) \in AnyCards
    <3>1. w["spells"][p][s] \in Seq(SpellCards) /\ w["spells"][p][s] # <<>>
      BY <1>1, <2>1 DEF Taken
    <3>2. w["spells"][p][s][1] \in SpellCards
      BY <3>1
    <3> QED
      BY <3>2, CardsAreCards DEF CardAt
  <2>4. Taken(w, "spells", p) = {s \in DOMAIN w["spells"][p] : w["spells"][p][s] # <<>>}
    BY <1>1 DEF Taken, Slots
  <2>5. At(w, p, "szone") = SlotsAt(w["spells"][p], p, "szone")
    BY DEF At
  <2> QED
    BY <1>3, <2>1, <2>2, <2>3, <2>4, <2>5, SlotsAssumption DEF Row
<1> QED
  BY <1>2, <1>3

Size(w, p, location) ==
    IF location \in {"mzone", "szone"} THEN Cardinality(Taken(w, Row(location), p))
    ELSE Len(Listed(w, p, location))
PlaceOf(w, p, location, i) ==
    IF location \in {"mzone", "szone"} THEN Nth(Taken(w, Row(location), p), i) ELSE i - 1

(* A query of a location tells each card there once, in the order of        *)
(* places.                                                                  *)
LEMMA AtIs ==
    ASSUME NEW w, Proper(w), NEW p \in Players, NEW location \in Places
    PROVE  LET L == At(w, p, location)
           IN  /\ L \in Seq(Queries)
               /\ Len(L) = Size(w, p, location)
               /\ \A i \in 1..Len(L) : L[i].sequence = PlaceOf(w, p, location, i)
               /\ There(w, p, location) \in SUBSET Nat
               /\ \A s \in There(w, p, location) : CardOf(w, p, location, s) \in AnyCards
               /\ \A i \in 1..Len(L) :
                     /\ L[i].sequence \in There(w, p, location)
                     /\ L[i] = Query(p, location, L[i].sequence,
                                     CardOf(w, p, location, L[i].sequence))
               /\ \A s \in There(w, p, location) : \E i \in 1..Len(L) : L[i].sequence = s
               /\ \A i, j \in 1..Len(L) : i < j => L[i].sequence < L[j].sequence
<1> DEFINE L == At(w, p, location)
           S == There(w, p, location)
<1>1. CASE location \notin {"mzone", "szone"}
  <2> DEFINE cards == Listed(w, p, location)
  <2>1. cards \in Seq(AnyCards) /\ L = ListAt(cards, p, location)
    BY <1>1, ListedIs
  <2>2. S = {i - 1 : i \in 1..Len(cards)} /\ \A s : CardOf(w, p, location, s) = cards[s + 1]
    BY <1>1 DEF There, CardOf
  <2> HIDE DEF cards, S
  <2>3. Len(cards) \in Nat /\ DOMAIN cards = 1..Len(cards)
    BY <2>1
  <2>4. L = [i \in 1..Len(cards) |-> Query(p, location, i - 1, cards[i])]
    BY <2>1, <2>3 DEF ListAt
  <2> HIDE DEF L
  <2>5. ASSUME NEW i \in 1..Len(cards)
        PROVE  /\ L[i] = Query(p, location, i - 1, cards[i]) /\ L[i] \in Queries
               /\ L[i].sequence = i - 1 /\ i - 1 \in S /\ (i - 1) + 1 = i
    <3>1. cards[i] \in AnyCards /\ i - 1 \in Nat
      BY <2>1, <2>3
    <3>2. L[i] = Query(p, location, i - 1, cards[i])
      BY <2>4
    <3> QED
      BY <2>2, <3>1, <3>2, QueryIs
  <2>6. L \in [1..Len(cards) -> Queries]
    BY <2>4, <2>5
  <2>7. L \in Seq(Queries) /\ Len(L) = Len(cards)
    BY <2>3, <2>6
  <2>8. ASSUME NEW s \in S PROVE s \in Nat /\ s + 1 \in 1..Len(cards) /\ (s + 1) - 1 = s
    BY <2>2, <2>3
  <2>9. ASSUME NEW s \in S PROVE cards[s + 1] \in AnyCards
    BY <2>1, <2>8
  <2>10. ASSUME NEW i \in 1..Len(L)
         PROVE  L[i].sequence \in S
                /\ L[i] = Query(p, location, L[i].sequence, cards[L[i].sequence + 1])
    BY <2>5, <2>7
  <2>11. ASSUME NEW s \in S PROVE \E i \in 1..Len(L) : L[i].sequence = s
    BY <2>5, <2>7, <2>8
  <2>12. ASSUME NEW i \in 1..Len(L), NEW j \in 1..Len(L), i < j
         PROVE  L[i].sequence < L[j].sequence
    BY <2>5, <2>7, <2>12
  <2>13. S \in SUBSET Nat
    BY <2>8
  <2>14. Size(w, p, location) = Len(cards) /\ \A i : PlaceOf(w, p, location, i) = i - 1
    BY <1>1 DEF Size, PlaceOf, cards
  <2>15. Len(L) = Size(w, p, location)
         /\ \A i \in 1..Len(L) : L[i].sequence = PlaceOf(w, p, location, i)
    BY <2>5, <2>7, <2>14
  <2> QED
    BY <2>15, <2>2, <2>7, <2>9, <2>10, <2>11, <2>12, <2>13 DEF L, S
<1>2. CASE location \in {"mzone", "szone"}
  <2> DEFINE row == w[Row(location)][p]
             T == Taken(w, Row(location), p)
             n == Cardinality(T)
             A == Ascending(T)
  <2>1. /\ T \in SUBSET Nat /\ IsFiniteSet(T)
        /\ \A s \in T : CardAt(w, Row(location), p, s) \in AnyCards
        /\ T = {s \in DOMAIN row : row[s] # <<>>} /\ L = SlotsAt(row, p, location)
    BY <1>2, TakenIs
  <2>2. S = T /\ \A s : CardOf(w, p, location, s) = row[s][1]
    BY <1>2 DEF There, CardOf, CardAt
  <2>3. \A s : CardAt(w, Row(location), p, s) = row[s][1]
    BY DEF CardAt
  <2> HIDE DEF row, T, S
  <2>4. n \in Nat
    BY <2>1, FS_CardinalityType
  <2>5. /\ \A i, j \in 1..n : i < j => Nth(T, i) < Nth(T, j)
        /\ \A k \in T : \E i \in 1..n : Nth(T, i) = k
    BY <2>1, NthGrows
  <2>6. \A i \in 1..n : Nth(T, i) \in T
    BY <2>1, NthIsThere
  <2> HIDE DEF n
  <2>7. A = [i \in 1..n |-> Nth(T, i)]
    BY DEF Ascending, n
  <2>8. L = [i \in DOMAIN A |-> Query(p, location, A[i], row[A[i]][1])]
    BY <2>1 DEF SlotsAt
  <2> HIDE DEF A, L
  <2>9. ASSUME NEW i \in 1..n
        PROVE  /\ L[i] = Query(p, location, Nth(T, i), row[Nth(T, i)][1]) /\ L[i] \in Queries
               /\ L[i].sequence = Nth(T, i) /\ Nth(T, i) \in T
    <3>1. Nth(T, i) \in T /\ Nth(T, i) \in Nat
      BY <2>1, <2>6
    <3>2. row[Nth(T, i)][1] \in AnyCards
      BY <2>1, <2>3, <3>1
    <3>3. L[i] = Query(p, location, Nth(T, i), row[Nth(T, i)][1])
      BY <2>7, <2>8
    <3> QED
      BY <3>1, <3>2, <3>3, QueryIs
  <2>10. L \in [1..n -> Queries]
    <3>1. DOMAIN A = 1..n
      BY <2>7
    <3> QED
      BY <2>8, <2>9, <3>1
  <2>11. L \in Seq(Queries) /\ Len(L) = n
    BY <2>4, <2>10
  <2>12. \A s \in T : row[s][1] \in AnyCards
    BY <2>1, <2>3
  <2>13. ASSUME NEW i \in 1..Len(L)
         PROVE  L[i].sequence \in T /\ L[i] = Query(p, location, L[i].sequence, row[L[i].sequence][1])
    BY <2>9, <2>11
  <2>14. ASSUME NEW s \in T PROVE \E i \in 1..Len(L) : L[i].sequence = s
    BY <2>5, <2>9, <2>11
  <2>15. ASSUME NEW i \in 1..Len(L), NEW j \in 1..Len(L), i < j
         PROVE  L[i].sequence < L[j].sequence
    BY <2>5, <2>9, <2>11, <2>15
  <2>16. Size(w, p, location) = n /\ \A i : PlaceOf(w, p, location, i) = Nth(T, i)
    BY <1>2 DEF Size, PlaceOf, T, n
  <2>17. Len(L) = Size(w, p, location)
         /\ \A i \in 1..Len(L) : L[i].sequence = PlaceOf(w, p, location, i)
    BY <2>9, <2>11, <2>16
  <2> QED
    BY <2>17, <2>1, <2>2, <2>11, <2>12, <2>13, <2>14, <2>15 DEF L, S
<1> QED
  BY <1>1, <1>2

(***************************************************************************)
(* The lists that the observation is built from, and what it keeps of each. *)
(***************************************************************************)
Who(n) == IF n <= 6 THEN 0 ELSE 1
Where(n) == IF n <= 6 THEN Locations[n] ELSE Locations[n - 6]
Parts(w) == [n \in 1..12 |-> KeptOf(Queried(w)[n], me)]

(* The twelve queries of the builder ask each location of each player once. *)
LEMMA WhereIs ==
    /\ \A n \in 1..12 : Who(n) \in Players /\ Where(n) \in Places
    /\ \A m, n \in 1..12 : Who(m) = Who(n) /\ Where(m) = Where(n) => m = n
    /\ \A p \in Players : \A location \in Places : \E n \in 1..12 : Who(n) = p /\ Where(n) = location
    /\ Who(7) = 1 /\ Where(7) = "hand" /\ Who(12) = 1 /\ Where(12) = "extra"
    /\ \A n \in 1..12 : n <= 6 => Who(n) = 0
<1>1. /\ Locations[1] = "hand" /\ Locations[2] = "mzone" /\ Locations[3] = "szone"
      /\ Locations[4] = "grave" /\ Locations[5] = "removed" /\ Locations[6] = "extra"
  BY DEF Locations
<1> QED
  BY <1>1 DEF Who, Where, Players, Places

(* What the n-th query tells.                                               *)
LEMMA QueriedIs ==
    ASSUME NEW w, NEW n \in 1..12
    PROVE  Queried(w)[n] = At(w, Who(n), Where(n)) /\ DOMAIN Queried(w) = 1..12
  BY DEF Queried, Who, Where

(* The kept cards are those kept of each query, in the order of the         *)
(* queries.                                                                 *)
LEMMA KeptIsFlat ==
    ASSUME NEW w
    PROVE  Kept(w, me) = FlattenSeq(Parts(w))
  BY DEF Kept, Parts, Queried

(* What is kept of a list. *)
LEMMA PartIs ==
    ASSUME NEW w, Proper(w), NEW n \in 1..12
    PROVE  LET L == At(w, Who(n), Where(n))
               P == {i \in 1..Len(L) : Keep(L[i], me)}
           IN  /\ Parts(w)[n] = Selected(L, P) /\ L \in Seq(Queries)
               /\ P \in SUBSET (1..Len(L)) /\ Parts(w)[n] \in Seq(Queries)
<1> DEFINE L == At(w, Who(n), Where(n))
           P == {i \in 1..Len(L) : Keep(L[i], me)}
<1>1. L \in Seq(Queries)
  BY WhereIs, AtIs
<1>2. DOMAIN L = 1..Len(L)
  BY <1>1
<1>3. Parts(w)[n] = KeptOf(L, me)
  BY QueriedIs DEF Parts
<1>4. KeptOf(L, me) = Selected(L, P)
  BY <1>2 DEF KeptOf
<1>5. P \in SUBSET (1..Len(L))
  OBVIOUS
<1>6. Selected(L, P) \in Seq(Queries)
  <2> HIDE DEF L, P
  <2> QED
    BY <1>1, <1>5, SelectedIs
<1> QED
  BY <1>1, <1>3, <1>4, <1>5, <1>6

(* A function on 1..n is a sequence.                                        *)
LEMMA FunctionIsSeq ==
    ASSUME NEW T, NEW n \in Nat, NEW s \in [1..n -> T]
    PROVE  s \in Seq(T) /\ Len(s) = n
  OBVIOUS

(* There are twelve lists of kept cards.                                    *)
LEMMA PartsAreSeqs ==
    ASSUME NEW w, Proper(w)
    PROVE  /\ Parts(w) \in Seq(Seq(Queries)) /\ Len(Parts(w)) = 12
           /\ Parts(w) \in [1..12 -> Seq(Queries)]
<1>1. ASSUME NEW n \in 1..12 PROVE Parts(w)[n] \in Seq(Queries)
  BY PartIs
<1>2. DOMAIN Parts(w) = 1..12 /\ Parts(w) = [n \in 1..12 |-> KeptOf(Queried(w)[n], me)]
  BY DEF Parts
<1>3. Parts(w) \in [1..12 -> Seq(Queries)]
  BY <1>1, <1>2
<1>4. 12 \in Nat
  OBVIOUS
<1> QED
  BY <1>3, <1>4, FunctionIsSeq

(* A card where it is, and the number of the list it is in. *)
QueryAt(w, p, location, s) == Query(p, location, s, CardOf(w, p, location, s))
Number(q) == CHOOSE n \in 1..12 : Who(n) = q.controller /\ Where(n) = q.location
Ahead(q, r) ==
    Number(q) < Number(r) \/ (Number(q) = Number(r) /\ q.sequence < r.sequence)

(* A controller and a location tell which query told of a card.             *)
LEMMA NumberIs ==
    ASSUME NEW q, NEW n \in 1..12, q.controller = Who(n), q.location = Where(n)
    PROVE  Number(q) = n
  BY WhereIs DEF Number

(* What is told of the card at a place.                                     *)
LEMMA QueryAtIs ==
    ASSUME NEW w, Proper(w), NEW p \in Players, NEW location \in Places,
           NEW s \in There(w, p, location)
    PROVE  /\ QueryAt(w, p, location, s) \in Queries
           /\ QueryAt(w, p, location, s).controller = p
           /\ QueryAt(w, p, location, s).location = location
           /\ QueryAt(w, p, location, s).sequence = s
           /\ QueryAt(w, p, location, s).card = CardOf(w, p, location, s)
           /\ QueryAt(w, p, location, s).zone = ProjectZone(location, s)
<1>1. s \in Nat /\ CardOf(w, p, location, s) \in AnyCards
  BY AtIs
<1> QED
  BY <1>1, QueryIs DEF QueryAt

(* One of the kept. *)
LEMMA PartsHave ==
    ASSUME NEW w, Proper(w), NEW n \in 1..12
    PROVE  /\ \A m \in 1..Len(Parts(w)[n]) :
                 LET q == Parts(w)[n][m]
                 IN  /\ q.sequence \in There(w, Who(n), Where(n)) /\ Keep(q, me)
                     /\ q = QueryAt(w, Who(n), Where(n), q.sequence)
           /\ \A s \in There(w, Who(n), Where(n)) :
                 Keep(QueryAt(w, Who(n), Where(n), s), me) =>
                    \E m \in 1..Len(Parts(w)[n]) :
                        Parts(w)[n][m] = QueryAt(w, Who(n), Where(n), s)
           /\ \A m, l \in 1..Len(Parts(w)[n]) :
                 m < l => Parts(w)[n][m].sequence < Parts(w)[n][l].sequence
<1> DEFINE L == At(w, Who(n), Where(n))
           P == {i \in 1..Len(L) : Keep(L[i], me)}
           S == There(w, Who(n), Where(n))
           part == Parts(w)[n]
<1>1. /\ part = Selected(L, P) /\ L \in Seq(Queries) /\ P \in SUBSET (1..Len(L))
      /\ \A i \in P : i \in 1..Len(L) /\ Keep(L[i], me)
      /\ \A i \in 1..Len(L) : Keep(L[i], me) => i \in P
  BY PartIs
<1>2. /\ \A i \in 1..Len(L) :
            /\ L[i].sequence \in S
            /\ L[i] = QueryAt(w, Who(n), Where(n), L[i].sequence)
      /\ \A s \in S : \E i \in 1..Len(L) : L[i].sequence = s
      /\ \A i, j \in 1..Len(L) : i < j => L[i].sequence < L[j].sequence
  <2>1. Who(n) \in Players /\ Where(n) \in Places
    BY WhereIs
  <2>2. /\ \A i \in 1..Len(L) :
              /\ L[i].sequence \in S
              /\ L[i] = Query(Who(n), Where(n), L[i].sequence,
                              CardOf(w, Who(n), Where(n), L[i].sequence))
        /\ \A s \in S : \E i \in 1..Len(L) : L[i].sequence = s
        /\ \A i, j \in 1..Len(L) : i < j => L[i].sequence < L[j].sequence
    BY <2>1, AtIs
  <2> QED
    BY <2>2 DEF QueryAt
<1> HIDE DEF L, P, S, part
<1>3. /\ Len(part) = Cardinality(P)
      /\ \A m \in 1..Cardinality(P) : Nth(P, m) \in P /\ part[m] = L[Nth(P, m)]
      /\ \A l, m \in 1..Cardinality(P) : l < m => Nth(P, l) < Nth(P, m)
      /\ \A k \in P : \E m \in 1..Cardinality(P) : Nth(P, m) = k
  BY <1>1, SelectedIs
<1>4. ASSUME NEW m \in 1..Len(part)
      PROVE  /\ part[m].sequence \in S /\ Keep(part[m], me)
             /\ part[m] = QueryAt(w, Who(n), Where(n), part[m].sequence)
  <2>1. Nth(P, m) \in P /\ part[m] = L[Nth(P, m)]
    BY <1>3
  <2>2. Nth(P, m) \in 1..Len(L) /\ Keep(L[Nth(P, m)], me)
    BY <1>1, <2>1
  <2> QED
    BY <1>2, <2>1, <2>2
<1>5. ASSUME NEW s \in S, Keep(QueryAt(w, Who(n), Where(n), s), me)
      PROVE  \E m \in 1..Len(part) : part[m] = QueryAt(w, Who(n), Where(n), s)
  <2>1. PICK i \in 1..Len(L) : L[i].sequence = s
    BY <1>2
  <2>2. L[i] = QueryAt(w, Who(n), Where(n), s)
    BY <1>2, <2>1
  <2>3. i \in P
    BY <1>1, <1>5, <2>2
  <2>4. PICK m \in 1..Cardinality(P) : Nth(P, m) = i
    BY <1>3, <2>3
  <2>5. part[m] = L[i] /\ m \in 1..Len(part)
    BY <1>3, <2>4
  <2> QED
    BY <2>2, <2>5
<1>6. ASSUME NEW m \in 1..Len(part), NEW l \in 1..Len(part), m < l
      PROVE  part[m].sequence < part[l].sequence
  <2>1. /\ Nth(P, m) \in P /\ part[m] = L[Nth(P, m)] /\ Nth(P, l) \in P /\ part[l] = L[Nth(P, l)]
        /\ Nth(P, m) < Nth(P, l)
    BY <1>3, <1>6
  <2>2. Nth(P, m) \in 1..Len(L) /\ Nth(P, l) \in 1..Len(L)
    BY <1>1, <2>1
  <2> QED
    BY <1>2, <2>1, <2>2
<1> QED
  BY <1>4, <1>5, <1>6 DEF S, part

(* The kept cards are those that are to be kept, where they are, in the     *)
(* order of the lists and of the places.                                    *)
LEMMA KeptIs ==
    ASSUME NEW w, Proper(w)
    PROVE  LET k == Kept(w, me)
           IN  /\ k \in Seq(Queries)
               /\ \A i \in 1..Len(k) :
                     LET q == k[i]
                     IN  /\ q.sequence \in There(w, q.controller, q.location) /\ Keep(q, me)
                         /\ q = QueryAt(w, q.controller, q.location, q.sequence)
               /\ \A p \in Players, location \in Places : \A s \in There(w, p, location) :
                     Keep(QueryAt(w, p, location, s), me) =>
                        \E i \in 1..Len(k) : k[i] = QueryAt(w, p, location, s)
               /\ \A i, j \in 1..Len(k) : i < j => Ahead(k[i], k[j])
<1> DEFINE k == Kept(w, me)
           s == Parts(w)
<1>1. s \in Seq(Seq(Queries)) /\ Len(s) = 12
  BY PartsAreSeqs
<1>11. \A n \in 1..12 : s[n] \in Seq(Queries)
  BY PartsAreSeqs
<1>2. SameShape(s, s)
  BY DEF SameShape
<1>3. k = FlattenSeq(s)
  BY KeptIsFlat
<1> HIDE DEF s, k
<1>4. k \in Seq(Queries) /\ \E b : Threads(b, s, k) /\ Threads(b, s, k)
  BY <1>1, <1>2, <1>3, Flattened
<1>5. PICK b : Threads(b, s, k)
  BY <1>4
<1>6. /\ b \in [Indices(s) -> 1..Len(k)]
      /\ \A i \in 1..Len(k) : \E x \in Indices(s) : b[x] = i
      /\ \A x \in Indices(s) : k[b[x]] = s[x[1]][x[2]]
      /\ \A x, y \in Indices(s) : Lex(x, y) => b[x] < b[y]
  BY <1>5 DEF Threads
<1>7. ASSUME NEW x \in Indices(s)
      PROVE  LET q == k[b[x]]
             IN  /\ x[1] \in 1..12 /\ x[2] \in 1..Len(s[x[1]]) /\ q = s[x[1]][x[2]] /\ q \in Queries
                 /\ q.controller = Who(x[1]) /\ q.location = Where(x[1]) /\ Keep(q, me)
                 /\ q.sequence \in There(w, Who(x[1]), Where(x[1]))
                 /\ q = QueryAt(w, q.controller, q.location, q.sequence)
                 /\ Number(q) = x[1] /\ x = <<x[1], x[2]>>
  <2>1. x[1] \in 1..12 /\ x[2] \in 1..Len(s[x[1]]) /\ x = <<x[1], x[2]>>
    BY <1>1 DEF Indices
  <2> DEFINE q == s[x[1]][x[2]]
             p == Who(x[1])
             location == Where(x[1])
  <2>2. /\ q.sequence \in There(w, p, location) /\ Keep(q, me)
        /\ q = QueryAt(w, p, location, q.sequence)
    <3>1. PICK n, m : n = x[1] /\ m = x[2]
      OBVIOUS
    <3>2. n \in 1..12 /\ m \in 1..Len(Parts(w)[n])
      BY <2>1, <3>1 DEF s
    <3>3. LET r == Parts(w)[n][m]
          IN  /\ r.sequence \in There(w, Who(n), Where(n)) /\ Keep(r, me)
              /\ r = QueryAt(w, Who(n), Where(n), r.sequence)
      BY <3>2, PartsHave
    <3> QED
      BY <3>1, <3>3 DEF s
  <2>3. p \in Players /\ location \in Places
    BY <2>1, WhereIs
  <2>4. k[b[x]] = q
    BY <1>6
  <2> HIDE DEF q, p, location
  <2>5. q \in Queries /\ q.controller = p /\ q.location = location
    BY <2>2, <2>3, QueryAtIs
  <2>6. Number(q) = x[1]
    BY <2>1, <2>5, NumberIs DEF p, location
  <2> QED
    BY <2>1, <2>2, <2>4, <2>5, <2>6 DEF q, p, location
<1>8. ASSUME NEW i \in 1..Len(k)
      PROVE  LET q == k[i]
             IN  /\ q.sequence \in There(w, q.controller, q.location) /\ Keep(q, me)
                 /\ q = QueryAt(w, q.controller, q.location, q.sequence)
  <2>1. PICK x \in Indices(s) : b[x] = i
    BY <1>6
  <2> QED
    BY <1>7, <2>1
<1>9. ASSUME NEW p \in Players, NEW location \in Places, NEW sq \in There(w, p, location),
             Keep(QueryAt(w, p, location, sq), me)
      PROVE  \E i \in 1..Len(k) : k[i] = QueryAt(w, p, location, sq)
  <2>1. PICK n \in 1..12 : Who(n) = p /\ Where(n) = location
    BY WhereIs
  <2>2. PICK m \in 1..Len(s[n]) : s[n][m] = QueryAt(w, p, location, sq)
    BY <1>9, <2>1, PartsHave DEF s
  <2>3. <<n, m>> \in Indices(s)
    <3>1. s[n] \in Seq(Queries)
      BY <1>11
    <3>2. Len(s[n]) \in Nat
      BY <3>1
    <3>3. m \in Nat /\ n \in Nat
      BY <3>2
    <3> QED
      BY <1>1, <3>3 DEF Indices
  <2>4. k[b[<<n, m>>]] = QueryAt(w, p, location, sq) /\ b[<<n, m>>] \in 1..Len(k)
    BY <1>6, <2>2, <2>3
  <2> QED
    BY <2>4
<1>10. ASSUME NEW i \in 1..Len(k), NEW j \in 1..Len(k), i < j
       PROVE  Ahead(k[i], k[j])
  <2>1. PICK x \in Indices(s) : b[x] = i
    BY <1>6
  <2>2. PICK y \in Indices(s) : b[y] = j
    BY <1>6
  <2>3. /\ x[1] \in 1..12 /\ y[1] \in 1..12 /\ x[2] \in 1..Len(s[x[1]]) /\ y[2] \in 1..Len(s[y[1]])
        /\ Number(k[i]) = x[1] /\ Number(k[j]) = y[1] /\ x = <<x[1], x[2]>> /\ y = <<y[1], y[2]>>
        /\ k[i] = s[x[1]][x[2]] /\ k[j] = s[y[1]][y[2]]
    BY <1>7, <2>1, <2>2
  <2>12. Len(k) \in Nat
    BY <1>4
  <2>13. x[1] \in 1..12 /\ y[1] \in 1..12
    BY <2>3
  <2>4. s[x[1]] \in Seq(Queries) /\ s[y[1]] \in Seq(Queries)
    BY <1>11, <2>13
  <2>5. Len(s[x[1]]) \in Nat /\ Len(s[y[1]]) \in Nat
    BY <2>4
  <2>14. x[2] \in 1..Len(s[x[1]]) /\ y[2] \in 1..Len(s[y[1]])
    BY <2>3
  <2>6. x[2] \in Nat /\ y[2] \in Nat /\ x[1] \in Nat /\ y[1] \in Nat
    <3>1. PICK m, n : m = Len(s[x[1]]) /\ n = Len(s[y[1]])
      OBVIOUS
    <3>2. m \in Nat /\ n \in Nat /\ x[2] \in 1..m /\ y[2] \in 1..n
      BY <2>5, <2>14, <3>1
    <3>3. x[2] \in Nat /\ y[2] \in Nat
      BY <3>2
    <3>4. x[1] \in Nat /\ y[1] \in Nat
      BY <2>13
    <3> QED
      BY <3>3, <3>4
  <2>7. ~Lex(y, x)
    <3> SUFFICES ASSUME Lex(y, x) PROVE FALSE
      OBVIOUS
    <3>1. b[y] < b[x]
      BY <1>6
    <3> QED
      BY <1>10, <2>1, <2>2, <3>1
  <2>8. x # y
    BY <1>10, <2>1, <2>2
  <2>9. Lex(x, y)
    <3>1. CASE x[1] = y[1]
      <4>1. x[2] # y[2]
        BY <2>3, <2>8, <3>1
      <4> QED
        BY <2>6, <2>7, <3>1, <4>1 DEF Lex
    <3>2. CASE x[1] # y[1]
      BY <2>6, <2>7, <3>2 DEF Lex
    <3> QED
      BY <3>1, <3>2
  <2>10. CASE x[1] = y[1]
    <3>1. x[2] < y[2]
      BY <2>6, <2>9, <2>10 DEF Lex
    <3>2. s[x[1]][x[2]].sequence < s[x[1]][y[2]].sequence
      BY <2>3, <2>10, <3>1, PartsHave DEF s
    <3> QED
      BY <2>3, <2>10, <3>2 DEF Ahead
  <2>11. CASE x[1] < y[1]
    BY <2>3, <2>11 DEF Ahead
  <2> QED
    BY <2>6, <2>9, <2>10, <2>11 DEF Lex
<1> QED
  BY <1>4, <1>8, <1>9, <1>10 DEF k

----------------------------------------------------------------------------
(* Fields that look the same to player 0, and what the builder keeps of     *)
(* them.                                                                    *)

(***************************************************************************)
(* Fields that look the same.                                               *)
(***************************************************************************)
IsHeld(q) == q.controller = 1 /\ q.location = "hand"
AlikeQueries(q, r) ==
    /\ r.controller = q.controller /\ r.location = q.location /\ r.sequence = q.sequence
    /\ r.zone = q.zone /\ SameCard(q.card, r.card)

ShownIn(hand, codes) == {i \in DOMAIN hand : hand[i].shown /\ hand[i].code \in codes}
HeldAlike(w, v) ==
    \A codes \in SUBSET Codes :
        Cardinality(ShownIn(v.hand[1], codes)) = Cardinality(ShownIn(w.hand[1], codes))
AlikeFields(w, v) == Proper(w) /\ Proper(v) /\ SameField(w, v) /\ HeldAlike(w, v)

(* Of two lists of materials with the same owners. *)
LEMMA OwnersAre ==
    ASSUME NEW a \in Seq(PlainCards), NEW b \in Seq(PlainCards), Owners(b) = Owners(a)
    PROVE  /\ DOMAIN b = DOMAIN a /\ Len(b) = Len(a)
           /\ \A j \in DOMAIN a : b[j].owner = a[j].owner
<1>1. DOMAIN Owners(a) = DOMAIN a /\ DOMAIN Owners(b) = DOMAIN b
  BY DEF Owners
<1>2. DOMAIN b = DOMAIN a
  BY <1>1
<1>3. DOMAIN a = 1..Len(a) /\ DOMAIN b = 1..Len(b) /\ Len(a) \in Nat /\ Len(b) \in Nat
  OBVIOUS
<1>4. Len(b) = Len(a)
  BY <1>2, <1>3
<1>5. ASSUME NEW j \in DOMAIN a PROVE b[j].owner = a[j].owner
  <2>1. Owners(a)[j] = a[j].owner /\ Owners(b)[j] = b[j].owner
    BY <1>2 DEF Owners
  <2> QED
    BY <2>1
<1> QED
  BY <1>2, <1>4, <1>5

(* A card that is seen is the same in both. *)
LEMMA AlikeAreKept ==
    ASSUME NEW q \in Queries, NEW r \in Queries, AlikeQueries(q, r)
    PROVE  /\ Keep(r, me) <=> Keep(q, me)
           /\ SequenceVisible(r, me) <=> SequenceVisible(q, me)
           /\ IdentityVisible(r, me) <=> IdentityVisible(q, me)
           /\ IdentityVisible(q, me) => /\ r.card.code = q.card.code
                                        /\ r.card.materials = q.card.materials
  BY DEF AlikeQueries, SameCard, Keep, SequenceVisible, IdentityVisible, Queries, AnyCards

(* Every list but the opponent's hand looks the same in both fields.        *)
LEMMA ListsAlike ==
    ASSUME NEW w, NEW v, AlikeFields(w, v), NEW p \in Players,
           NEW location \in Places \ {"mzone", "szone"}, <<p, location>> # <<1, "hand">>
    PROVE  SameCards(Listed(w, p, location), Listed(v, p, location))
<1>1. SameField(w, v) /\ Proper(w)
  BY DEF AlikeFields
<1>2. CASE location = "hand"
  <2>1. p = 0 /\ v.hand[0] = w.hand[0]
    BY <1>1, <1>2 DEF SameField, me, Players
  <2>2. Listed(w, p, location) = w.hand[0] /\ Listed(v, p, location) = w.hand[0]
    BY <1>2, <2>1 DEF Listed
  <2> QED
    BY <2>2 DEF SameCards, SameCard
<1>3. CASE location = "grave"
  BY <1>1, <1>3 DEF SameField, Listed
<1>4. CASE location = "removed"
  BY <1>1, <1>4 DEF SameField, Listed
<1>5. CASE location = "extra"
  BY <1>1, <1>5 DEF SameField, Listed
<1> QED
  BY <1>2, <1>3, <1>4, <1>5 DEF Places

(* The slots look the same: taken in both or in neither, with cards that    *)
(* look the same.                                                           *)
LEMMA SlotsAlike ==
    ASSUME NEW w, NEW v, AlikeFields(w, v), NEW p \in Players, NEW row \in {"monsters", "spells"}
    PROVE  /\ \A s \in Slots(row) : SameCards(w[row][p][s], v[row][p][s])
           /\ Taken(v, row, p) = Taken(w, row, p)
           /\ \A s \in Taken(w, row, p) : SameCard(CardAt(w, row, p, s), CardAt(v, row, p, s))
<1>1. SameField(w, v) /\ Proper(w) /\ Proper(v)
  BY DEF AlikeFields
<1>2. \A s \in Slots(row) : SameCards(w[row][p][s], v[row][p][s])
  BY <1>1 DEF SameField, Slots
<1>3. ASSUME NEW s \in Slots(row)
      PROVE  /\ w[row][p][s] = <<>> <=> v[row][p][s] = <<>>
             /\ w[row][p][s] # <<>> => SameCard(w[row][p][s][1], v[row][p][s][1])
  <2>1. \E T : w[row][p][s] \in Seq(T)
    <3>1. /\ w.monsters \in [Players -> [MonsterSlots -> Seq(MonsterCards)]]
          /\ w.spells \in [Players -> [SpellSlots -> Seq(SpellCards)]]
      BY <1>1 DEF Proper, Fields
    <3>2. CASE row = "monsters"
      BY <3>1, <3>2 DEF Slots
    <3>3. CASE row = "spells"
      BY <3>1, <3>3 DEF Slots
    <3> QED
      BY <3>2, <3>3
  <2>2. \E T : v[row][p][s] \in Seq(T)
    <3>1. /\ v.monsters \in [Players -> [MonsterSlots -> Seq(MonsterCards)]]
          /\ v.spells \in [Players -> [SpellSlots -> Seq(SpellCards)]]
      BY <1>1 DEF Proper, Fields
    <3>2. CASE row = "monsters"
      BY <3>1, <3>2 DEF Slots
    <3>3. CASE row = "spells"
      BY <3>1, <3>3 DEF Slots
    <3> QED
      BY <3>2, <3>3
  <2>3. PICK a, b : a = w[row][p][s] /\ b = v[row][p][s]
    OBVIOUS
  <2>4. SameCards(a, b) /\ (\E T : a \in Seq(T)) /\ (\E T : b \in Seq(T))
    BY <1>2, <2>1, <2>2, <2>3
  <2>5. PICK T : a \in Seq(T)
    BY <2>4
  <2>6. PICK R : b \in Seq(R)
    BY <2>4
  <2>7. Len(b) = Len(a) /\ \A i \in DOMAIN a : SameCard(a[i], b[i])
    BY <2>4 DEF SameCards
  <2>8. a = <<>> <=> b = <<>>
    BY <2>5, <2>6, <2>7
  <2>9. a # <<>> => 1 \in DOMAIN a
    BY <2>5
  <2>10. a # <<>> => SameCard(a[1], b[1])
    BY <2>7, <2>9
  <2> QED
    BY <2>3, <2>8, <2>10
<1>4. Taken(v, row, p) = Taken(w, row, p)
  BY <1>3 DEF Taken
<1>5. \A s \in Taken(w, row, p) : SameCard(CardAt(w, row, p, s), CardAt(v, row, p, s))
  BY <1>3 DEF Taken, CardAt
<1> QED
  BY <1>2, <1>4, <1>5

(* What is queried of a location looks the same, the opponent's hand aside. *)
LEMMA AtAlike ==
    ASSUME NEW w, NEW v, AlikeFields(w, v), NEW p \in Players, NEW location \in Places,
           <<p, location>> # <<1, "hand">>
    PROVE  /\ There(v, p, location) = There(w, p, location)
           /\ Len(At(v, p, location)) = Len(At(w, p, location))
           /\ \A i \in 1..Len(At(w, p, location)) :
                 AlikeQueries(At(w, p, location)[i], At(v, p, location)[i])
<1> DEFINE L == At(w, p, location)
           M == At(v, p, location)
<1>1. Proper(w) /\ Proper(v)
  BY DEF AlikeFields
<1>2. /\ There(v, p, location) = There(w, p, location)
      /\ Size(v, p, location) = Size(w, p, location)
      /\ \A i : PlaceOf(v, p, location, i) = PlaceOf(w, p, location, i)
      /\ \A s \in There(w, p, location) :
            SameCard(CardOf(w, p, location, s), CardOf(v, p, location, s))
  <2>1. CASE location \in {"mzone", "szone"}
    <3>1. Row(location) \in {"monsters", "spells"}
      BY DEF Row
    <3> QED
      BY <2>1, <3>1, SlotsAlike DEF There, Size, PlaceOf, CardOf
  <2>2. CASE location \notin {"mzone", "szone"}
    <3> DEFINE a == Listed(w, p, location)
               b == Listed(v, p, location)
    <3>1. SameCards(a, b) /\ a \in Seq(AnyCards) /\ b \in Seq(AnyCards)
      BY <1>1, <2>2, ListsAlike, ListedIs
    <3>2. /\ There(w, p, location) = {i - 1 : i \in 1..Len(a)}
          /\ There(v, p, location) = {i - 1 : i \in 1..Len(b)}
          /\ \A s : CardOf(w, p, location, s) = a[s + 1] /\ CardOf(v, p, location, s) = b[s + 1]
          /\ Size(w, p, location) = Len(a) /\ Size(v, p, location) = Len(b)
          /\ \A i : PlaceOf(v, p, location, i) = i - 1 /\ PlaceOf(w, p, location, i) = i - 1
      BY <2>2 DEF There, Size, PlaceOf, CardOf
    <3> HIDE DEF a, b
    <3>3. Len(b) = Len(a) /\ \A i \in 1..Len(a) : SameCard(a[i], b[i])
      BY <3>1 DEF SameCards
    <3>4. ASSUME NEW s \in There(w, p, location) PROVE s + 1 \in 1..Len(a)
      BY <3>1, <3>2
    <3> QED
      BY <3>2, <3>3, <3>4
  <2> QED
    BY <2>1, <2>2
<1>3. /\ L \in Seq(Queries) /\ Len(L) = Size(w, p, location)
      /\ \A s \in There(w, p, location) : s \in Nat /\ CardOf(w, p, location, s) \in AnyCards
      /\ \A i \in 1..Len(L) :
            /\ L[i].sequence = PlaceOf(w, p, location, i)
            /\ L[i].sequence \in There(w, p, location)
            /\ L[i] = Query(p, location, L[i].sequence, CardOf(w, p, location, L[i].sequence))
  BY <1>1, AtIs
<1>4. /\ M \in Seq(Queries) /\ Len(M) = Size(v, p, location)
      /\ \A s \in There(v, p, location) : s \in Nat /\ CardOf(v, p, location, s) \in AnyCards
      /\ \A i \in 1..Len(M) :
            /\ M[i].sequence = PlaceOf(v, p, location, i)
            /\ M[i].sequence \in There(v, p, location)
            /\ M[i] = Query(p, location, M[i].sequence, CardOf(v, p, location, M[i].sequence))
  BY <1>1, AtIs
<1> HIDE DEF L, M
<1>5. Len(M) = Len(L)
  BY <1>2, <1>3, <1>4
<1>6. ASSUME NEW i \in 1..Len(L) PROVE AlikeQueries(L[i], M[i])
  <2>1. PICK s \in There(w, p, location) : L[i].sequence = s /\ M[i].sequence = s
    BY <1>2, <1>3, <1>4, <1>5
  <2>2. PICK c, d : c = CardOf(w, p, location, s) /\ d = CardOf(v, p, location, s)
    OBVIOUS
  <2>3. L[i] = Query(p, location, s, c) /\ M[i] = Query(p, location, s, d)
    BY <1>3, <1>4, <1>5, <2>1, <2>2
  <2>4. c \in AnyCards /\ d \in AnyCards /\ s \in Nat /\ SameCard(c, d)
    BY <1>2, <1>3, <1>4, <2>1, <2>2
  <2>6. /\ L[i].controller = p /\ L[i].location = location /\ L[i].sequence = s
        /\ L[i].card = c /\ L[i].zone = ProjectZone(location, s)
    BY <2>3, <2>4, QueryIs
  <2>7. /\ M[i].controller = p /\ M[i].location = location /\ M[i].sequence = s
        /\ M[i].card = d /\ M[i].zone = ProjectZone(location, s)
    BY <2>3, <2>4, QueryIs
  <2>5. /\ L[i].controller = p /\ L[i].location = location /\ L[i].sequence = s
        /\ L[i].card = c /\ L[i].zone = ProjectZone(location, s)
        /\ M[i].controller = p /\ M[i].location = location /\ M[i].sequence = s
        /\ M[i].card = d /\ M[i].zone = ProjectZone(location, s)
    BY <2>6, <2>7
  <2> QED
    BY <2>4, <2>5 DEF AlikeQueries
<1> QED
  BY <1>2, <1>5, <1>6 DEF L, M

(* The opponent's hand: kept is what is shown. *)
LEMMA HeldIs ==
    ASSUME NEW w, Proper(w), NEW i \in 1..Len(w.hand[1])
    PROVE  LET q == QueryAt(w, 1, "hand", i - 1)
           IN  /\ i - 1 \in There(w, 1, "hand") /\ q.card = w.hand[1][i] /\ q.zone = Hand
               /\ q.card.owner = 1 /\ q.card.up = q.card.shown /\ q.card.materials = <<>>
               /\ q.card.equip = <<>> /\ q.card.targets = <<>> /\ q.card.code \in Codes
               /\ Keep(q, me) <=> q.card.shown
<1>1. w.hand[1] \in Seq(HeldCards)
  BY DEF Proper, Fields, Players
<1>2. w.hand[1][i] \in HeldCards
  BY <1>1
<1>3. w.hand[1][i].owner = 1 /\ w.hand[1][i].up = w.hand[1][i].shown
  BY <1>1 DEF Proper, Players
<1>4. Listed(w, 1, "hand") = w.hand[1]
  BY DEF Listed
<1>5. i - 1 \in There(w, 1, "hand")
  BY <1>4 DEF There
<1>6. (i - 1) + 1 = i
  BY <1>1
<1>7. CardOf(w, 1, "hand", i - 1) = w.hand[1][i]
  BY <1>4, <1>6 DEF CardOf
<1>8. 1 \in Players /\ "hand" \in Places
  BY DEF Players, Places
<1> DEFINE q == QueryAt(w, 1, "hand", i - 1)
<1>9. q.card = w.hand[1][i] /\ q.zone = Hand
  BY <1>5, <1>7, <1>8, QueryAtIs DEF ProjectZone
<1> HIDE DEF q
<1>10. Keep(q, me) <=> q.card.shown
  BY <1>2, <1>3, <1>9
     DEF Keep, IdentityVisible, me, Hand, MainDeck, ExtraDeck, HeldCards
<1> QED
  BY <1>2, <1>3, <1>5, <1>9, <1>10 DEF q, HeldCards

(* As many cards of the opponent's hand are kept as are shown.              *)
LEMMA HeldPartIs ==
    ASSUME NEW w, Proper(w)
    PROVE  Len(Parts(w)[7]) = Cardinality(ShownIn(w.hand[1], Codes))
<1> DEFINE L == At(w, 1, "hand")
           P == {i \in 1..Len(L) : Keep(L[i], me)}
<1>1. Parts(w)[7] = Selected(L, P) /\ L \in Seq(Queries) /\ P \in SUBSET (1..Len(L))
  <2>1. PICK n \in 1..12 : n = 7
    OBVIOUS
  <2>2. Who(n) = 1 /\ Where(n) = "hand"
    BY <2>1, WhereIs
  <2>3. LET M == At(w, Who(n), Where(n))
            Q == {i \in 1..Len(M) : Keep(M[i], me)}
        IN  /\ Parts(w)[n] = Selected(M, Q) /\ M \in Seq(Queries)
            /\ Q \in SUBSET (1..Len(M))
    BY PartIs
  <2> QED
    BY <2>1, <2>2, <2>3
<1>2. w.hand[1] \in Seq(HeldCards)
  BY DEF Proper, Fields, Players
<1>3. 1 \in Players /\ "hand" \in Places \ {"mzone", "szone"}
  BY DEF Players, Places
<1>4. Len(L) = Len(w.hand[1])
  BY <1>3, AtIs DEF Size, Listed
<1>5. ASSUME NEW i \in 1..Len(L)
      PROVE  L[i] = QueryAt(w, 1, "hand", i - 1)
  <2>1. /\ L[i].sequence = PlaceOf(w, 1, "hand", i)
        /\ L[i] = Query(1, "hand", L[i].sequence, CardOf(w, 1, "hand", L[i].sequence))
    BY <1>3, AtIs
  <2>2. PlaceOf(w, 1, "hand", i) = i - 1
    BY DEF PlaceOf
  <2> QED
    BY <2>1, <2>2 DEF QueryAt
<1> HIDE DEF L
<1>6. P = ShownIn(w.hand[1], Codes)
  <2>1. DOMAIN w.hand[1] = 1..Len(w.hand[1])
    BY <1>2
  <2>2. ASSUME NEW i \in 1..Len(w.hand[1])
        PROVE  Keep(L[i], me) <=> w.hand[1][i].shown /\ w.hand[1][i].code \in Codes
    BY <1>4, <1>5, HeldIs
  <2> QED
    BY <1>4, <2>1, <2>2 DEF ShownIn
<1> HIDE DEF P
<1>7. Len(Selected(L, P)) = Cardinality(P)
  BY <1>1, SelectedIs
<1> QED
  BY <1>1, <1>6, <1>7

(* The parts that are kept have the same shape. *)
LEMMA PartsAlike ==
    ASSUME NEW w, NEW v, AlikeFields(w, v), NEW n \in 1..12
    PROVE  /\ Len(Parts(v)[n]) = Len(Parts(w)[n])
           /\ n # 7 => \A m \in 1..Len(Parts(w)[n]) :
                          AlikeQueries(Parts(w)[n][m], Parts(v)[n][m])
<1>1. Proper(w) /\ Proper(v)
  BY DEF AlikeFields
<1>2. CASE n = 7
  <2>1. Cardinality(ShownIn(v.hand[1], Codes)) = Cardinality(ShownIn(w.hand[1], Codes))
    BY DEF AlikeFields, HeldAlike
  <2> QED
    BY <1>1, <1>2, <2>1, HeldPartIs
<1>3. CASE n # 7
  <2> DEFINE p == Who(n)
             location == Where(n)
             L == At(w, p, location)
             M == At(v, p, location)
             P == {i \in 1..Len(L) : Keep(L[i], me)}
             Q == {i \in 1..Len(M) : Keep(M[i], me)}
  <2>1. p \in Players /\ location \in Places /\ <<p, location>> # <<1, "hand">>
    <3>1. 7 \in 1..12
      OBVIOUS
    <3> QED
      BY <1>3, <3>1, WhereIs
  <2>2. /\ Parts(w)[n] = Selected(L, P) /\ L \in Seq(Queries) /\ P \in SUBSET (1..Len(L))
        /\ Parts(v)[n] = Selected(M, Q) /\ M \in Seq(Queries) /\ Q \in SUBSET (1..Len(M))
    BY <1>1, PartIs
  <2> HIDE DEF p, location
  <2>3. Len(M) = Len(L) /\ \A i \in 1..Len(L) : AlikeQueries(L[i], M[i])
    BY <2>1, AtAlike
  <2> HIDE DEF L, M
  <2>4. ASSUME NEW i \in 1..Len(L) PROVE Keep(M[i], me) <=> Keep(L[i], me)
    <3>1. L[i] \in Queries /\ M[i] \in Queries /\ AlikeQueries(L[i], M[i])
      BY <2>2, <2>3
    <3> QED
      BY <3>1, AlikeAreKept
  <2>5. Q = P
    BY <2>3, <2>4
  <2> HIDE DEF P, Q
  <2>6. /\ Len(Selected(L, P)) = Cardinality(P) /\ Len(Selected(M, P)) = Cardinality(P)
        /\ \A m \in 1..Cardinality(P) :
              /\ Nth(P, m) \in P /\ Selected(L, P)[m] = L[Nth(P, m)]
              /\ Selected(M, P)[m] = M[Nth(P, m)]
    <3>1. /\ Len(Selected(L, P)) = Cardinality(P)
          /\ \A m \in 1..Cardinality(P) : Nth(P, m) \in P /\ Selected(L, P)[m] = L[Nth(P, m)]
      BY <2>2, SelectedIs
    <3>2. /\ Len(Selected(M, P)) = Cardinality(P)
          /\ \A m \in 1..Cardinality(P) : Selected(M, P)[m] = M[Nth(P, m)]
      BY <2>2, <2>5, SelectedIs
    <3> QED
      BY <3>1, <3>2
  <2>7. \A m \in 1..Cardinality(P) : Nth(P, m) \in 1..Len(L)
    BY <2>2, <2>6
  <2> QED
    BY <2>2, <2>3, <2>5, <2>6, <2>7
<1> QED
  BY <1>2, <1>3

(* The cards that are kept look the same, but for those shown in the        *)
(* opponent's hand.                                                         *)
LEMMA KeptAlike ==
    ASSUME NEW w, NEW v, AlikeFields(w, v)
    PROVE  LET k == Kept(w, me)
               l == Kept(v, me)
           IN  /\ Len(l) = Len(k)
               /\ \A i \in 1..Len(k) :
                     \/ IsHeld(k[i]) /\ IsHeld(l[i])
                     \/ ~IsHeld(k[i]) /\ AlikeQueries(k[i], l[i])
<1> DEFINE k == Kept(w, me)
           l == Kept(v, me)
           s == Parts(w)
           t == Parts(v)
<1>1. Proper(w) /\ Proper(v)
  BY DEF AlikeFields
<1>2. /\ s \in Seq(Seq(Queries)) /\ Len(s) = 12 /\ t \in Seq(Seq(Queries)) /\ Len(t) = 12
  BY <1>1, PartsAreSeqs
<1>15. \A n \in 1..12 : Len(t[n]) = Len(s[n])
  BY PartsAlike
<1>3. SameShape(s, t)
  BY <1>2, <1>15 DEF SameShape
<1>4. k = FlattenSeq(s) /\ l = FlattenSeq(t)
  BY KeptIsFlat
<1>13. /\ \A n \in 1..12 : \A m \in 1..Len(s[n]) :
             /\ s[n][m].sequence \in There(w, Who(n), Where(n))
             /\ s[n][m] = QueryAt(w, Who(n), Where(n), s[n][m].sequence)
       /\ \A n \in 1..12 : \A m \in 1..Len(t[n]) :
             /\ t[n][m].sequence \in There(v, Who(n), Where(n))
             /\ t[n][m] = QueryAt(v, Who(n), Where(n), t[n][m].sequence)
  BY <1>1, PartsHave
<1>14. \A n \in 1..12 : n # 7 => \A m \in 1..Len(s[n]) : AlikeQueries(s[n][m], t[n][m])
  BY PartsAlike
<1> HIDE DEF s, t, k, l
<1>5. PICK b : Threads(b, s, k) /\ Threads(b, t, l)
  BY <1>2, <1>3, <1>4, Flattened
<1>6. /\ b \in [Indices(s) -> 1..Len(k)]
      /\ \A i \in 1..Len(k) : \E x \in Indices(s) : b[x] = i
      /\ \A x \in Indices(s) : k[b[x]] = s[x[1]][x[2]]
  BY <1>5 DEF Threads
<1>7. /\ b \in [Indices(t) -> 1..Len(l)]
      /\ \A i \in 1..Len(l) : \E x \in Indices(t) : b[x] = i
      /\ \A x \in Indices(t) : l[b[x]] = t[x[1]][x[2]]
  BY <1>5 DEF Threads
<1>8. Indices(t) = Indices(s)
  BY <1>2, <1>3 DEF Indices, SameShape
<1>9. k \in Seq(Queries) /\ l \in Seq(Queries)
  BY <1>1, KeptIs DEF k, l
<1>10. Len(k) \in Nat /\ Len(l) \in Nat
  BY <1>9
<1>11. Len(l) = Len(k)
  <2>1. \A i \in 1..Len(k) : i \in 1..Len(l)
    BY <1>6, <1>7, <1>8
  <2>2. \A i \in 1..Len(l) : i \in 1..Len(k)
    BY <1>6, <1>7, <1>8
  <2> QED
    BY <1>10, <2>1, <2>2
<1>12. ASSUME NEW i \in 1..Len(k)
       PROVE  \/ IsHeld(k[i]) /\ IsHeld(l[i])
              \/ ~IsHeld(k[i]) /\ AlikeQueries(k[i], l[i])
  <2>1. PICK x \in Indices(s) : b[x] = i
    BY <1>6
  <2>2. /\ k[i] = s[x[1]][x[2]] /\ l[i] = t[x[1]][x[2]] /\ x[1] \in 1..12
        /\ x[2] \in 1..Len(s[x[1]]) /\ x[2] \in 1..Len(t[x[1]])
    BY <1>2, <1>3, <1>6, <1>7, <1>8, <2>1 DEF Indices, SameShape
  <2>3. /\ k[i].sequence \in There(w, Who(x[1]), Where(x[1]))
        /\ k[i] = QueryAt(w, Who(x[1]), Where(x[1]), k[i].sequence)
        /\ l[i].sequence \in There(v, Who(x[1]), Where(x[1]))
        /\ l[i] = QueryAt(v, Who(x[1]), Where(x[1]), l[i].sequence)
    <3>1. PICK n, m : n \in 1..12 /\ n = x[1] /\ m = x[2] /\ m \in 1..Len(s[n]) /\ m \in 1..Len(t[n])
      BY <2>2
    <3>2. /\ s[n][m].sequence \in There(w, Who(n), Where(n))
          /\ s[n][m] = QueryAt(w, Who(n), Where(n), s[n][m].sequence)
      BY <1>13, <3>1
    <3>3. /\ t[n][m].sequence \in There(v, Who(n), Where(n))
          /\ t[n][m] = QueryAt(v, Who(n), Where(n), t[n][m].sequence)
      BY <1>13, <3>1
    <3> QED
      BY <2>2, <3>1, <3>2, <3>3
  <2>4. Who(x[1]) \in Players /\ Where(x[1]) \in Places
    BY <2>2, WhereIs
  <2>5. /\ k[i].controller = Who(x[1]) /\ k[i].location = Where(x[1])
        /\ l[i].controller = Who(x[1]) /\ l[i].location = Where(x[1])
    BY <1>1, <2>3, <2>4, QueryAtIs
  <2>6. CASE x[1] = 7
    BY <2>5, <2>6, WhereIs DEF IsHeld
  <2>7. CASE x[1] # 7
    <3>1. 7 \in 1..12
      OBVIOUS
    <3>2. ~IsHeld(k[i])
      <4>1. PICK n \in 1..12 : n = x[1] /\ n # 7
        BY <2>2, <2>7
      <4>2. ~(Who(n) = Who(7) /\ Where(n) = Where(7))
        BY <3>1, <4>1, WhereIs
      <4>3. Who(7) = 1 /\ Where(7) = "hand"
        BY WhereIs
      <4>4. k[i].controller = Who(n) /\ k[i].location = Where(n)
        BY <2>5, <4>1
      <4> QED
        BY <4>2, <4>3, <4>4 DEF IsHeld
    <3>3. AlikeQueries(k[i], l[i])
      BY <2>2, <2>7, <1>14
    <3> QED
      BY <3>2, <3>3
  <2> QED
    BY <2>6, <2>7
<1> QED
  BY <1>11, <1>12 DEF k, l

----------------------------------------------------------------------------
(* The opponent's hand: of it only the shown cards are kept, in an order    *)
(* that may differ.                                                         *)

(* Sets that correspond one to one have the same size. *)
LEMMA SameNumber ==
    ASSUME NEW S, NEW T, NEW f \in [S -> T], IsFiniteSet(S),
           \A x, y \in S : f[x] = f[y] => x = y,
           \A t \in T : \E x \in S : f[x] = t
    PROVE  IsFiniteSet(T) /\ Cardinality(T) = Cardinality(S)
<1>1. f \in Injection(S, T)
  BY DEF Injection, IsInjective
<1>2. f \in Surjection(S, T)
  BY DEF Surjection
<1>3. ExistsBijection(S, T)
  BY <1>1, <1>2 DEF ExistsBijection, Bijection
<1> QED
  BY <1>3, FS_Bijection

(* A place is kept once. *)
LEMMA KeptOnce ==
    ASSUME NEW w, Proper(w), NEW i \in 1..Len(Kept(w, me)), NEW j \in 1..Len(Kept(w, me)),
           Kept(w, me)[i].controller = Kept(w, me)[j].controller,
           Kept(w, me)[i].location = Kept(w, me)[j].location,
           Kept(w, me)[i].sequence = Kept(w, me)[j].sequence
    PROVE  i = j
<1> DEFINE k == Kept(w, me)
<1>1. /\ k \in Seq(Queries)
      /\ \A a, b \in 1..Len(k) : a < b => Ahead(k[a], k[b])
  BY KeptIs
<1>2. k[i].controller = k[j].controller /\ k[i].location = k[j].location
      /\ k[i].sequence = k[j].sequence
  OBVIOUS
<1>3. i \in 1..Len(k) /\ j \in 1..Len(k)
  OBVIOUS
<1> HIDE DEF k
<1>4. Number(k[i]) = Number(k[j])
  BY <1>2 DEF Number
<1>5. k[i] \in Queries /\ k[j] \in Queries
  BY <1>1, <1>3
<1>6. k[i].sequence \in Nat /\ k[j].sequence \in Nat
  BY <1>5 DEF Queries
<1>7. k[i].location \in Places /\ k[i].controller \in Players
  BY <1>5 DEF Queries
<1>8. PICK n \in 1..12 : Who(n) = k[i].controller /\ Where(n) = k[i].location
  BY <1>7, WhereIs
<1>9. Number(k[i]) = n /\ Number(k[j]) = n
  BY <1>4, <1>8, NumberIs
<1>10. ~Ahead(k[i], k[j]) /\ ~Ahead(k[j], k[i])
  BY <1>2, <1>6, <1>9 DEF Ahead
<1>11. ~(i < j) /\ ~(j < i)
  BY <1>1, <1>3, <1>10
<1> QED
  BY <1>1, <1>3, <1>11

(* What is kept of the opponent's hand. *)
LEMMA HeldKept ==
    ASSUME NEW w, Proper(w), NEW i \in 1..Len(Kept(w, me)), IsHeld(Kept(w, me)[i])
    PROVE  LET q == Kept(w, me)[i]
           IN  /\ q \in Queries /\ q.sequence \in Nat /\ q.sequence + 1 \in 1..Len(w.hand[1])
               /\ q.card = w.hand[1][q.sequence + 1] /\ q.card.shown /\ q.card.up
               /\ q.zone = Hand /\ q.card.owner = 1 /\ q.card.materials = <<>>
               /\ q.card.equip = <<>> /\ q.card.targets = <<>> /\ q.card.code \in Codes
               /\ ~SequenceVisible(q, me) /\ IdentityVisible(q, me)
<1> DEFINE k == Kept(w, me)
           q == k[i]
<1>1. /\ k \in Seq(Queries)
      /\ q.sequence \in There(w, q.controller, q.location) /\ Keep(q, me)
      /\ q = QueryAt(w, q.controller, q.location, q.sequence)
  BY KeptIs
<1>2. q.controller = 1 /\ q.location = "hand"
  BY DEF IsHeld
<1>3. q \in Queries
  BY <1>1
<1> HIDE DEF k, q
<1>4. /\ q.sequence \in There(w, 1, "hand") /\ q = QueryAt(w, 1, "hand", q.sequence)
  BY <1>1, <1>2
<1>5. w.hand[1] \in Seq(HeldCards)
  BY DEF Proper, Fields, Players
<1>6. There(w, 1, "hand") = {j - 1 : j \in 1..Len(w.hand[1])}
  BY DEF There, Listed
<1>7. PICK h \in 1..Len(w.hand[1]) : q.sequence = h - 1
  BY <1>4, <1>6
<1>8. h \in Nat /\ q.sequence + 1 = h /\ q.sequence \in Nat
  BY <1>5, <1>7
<1>9. LET r == QueryAt(w, 1, "hand", h - 1)
      IN  /\ h - 1 \in There(w, 1, "hand") /\ r.card = w.hand[1][h] /\ r.zone = Hand
          /\ r.card.owner = 1 /\ r.card.up = r.card.shown /\ r.card.materials = <<>>
          /\ r.card.equip = <<>> /\ r.card.targets = <<>> /\ r.card.code \in Codes
          /\ Keep(r, me) <=> r.card.shown
  BY HeldIs
<1>10. /\ q.card = w.hand[1][h] /\ q.zone = Hand
       /\ q.card.owner = 1 /\ q.card.up = q.card.shown /\ q.card.materials = <<>>
       /\ q.card.equip = <<>> /\ q.card.targets = <<>> /\ q.card.code \in Codes
       /\ q.card.shown
  BY <1>1, <1>4, <1>7, <1>9
<1>11. ~SequenceVisible(q, me)
  BY <1>10 DEF SequenceVisible, me, Hand, MonsterZone, SpellTrapZone, FieldZone,
               PendulumRelevant, Graveyard, Banished
<1>12. IdentityVisible(q, me)
  BY <1>10 DEF IdentityVisible, me
<1>13. q.card.up
  BY <1>10
<1> QED
  BY <1>3, <1>7, <1>8, <1>10, <1>11, <1>12, <1>13 DEF q, k

HeldWith(k, c) == {i \in 1..Len(k) : IsHeld(k[i]) /\ k[i].card.code = c}

(* As many cards of a code are kept of the opponent's hand as are shown.    *)
LEMMA HeldCount ==
    ASSUME NEW w, Proper(w), NEW c \in Codes
    PROVE  LET H == HeldWith(Kept(w, me), c)
           IN  /\ H \in SUBSET Nat /\ IsFiniteSet(H)
               /\ Cardinality(H) = Cardinality(ShownIn(w.hand[1], {c})) /\ Cardinality(H) \in Nat
<1> DEFINE k == Kept(w, me)
           H == HeldWith(k, c)
           S == ShownIn(w.hand[1], {c})
           f == [i \in H |-> k[i].sequence + 1]
<1>1. k \in Seq(Queries)
  BY KeptIs
<1>2. Len(k) \in Nat
  BY <1>1
<1>3. H \in SUBSET (1..Len(k))
  BY DEF HeldWith
<1>4. ASSUME NEW i \in H
      PROVE  i \in 1..Len(k) /\ IsHeld(k[i]) /\ k[i].card.code = c
  BY DEF HeldWith
<1>5. w.hand[1] \in Seq(HeldCards)
  BY DEF Proper, Fields, Players
<1>6. S = {j \in 1..Len(w.hand[1]) : w.hand[1][j].shown /\ w.hand[1][j].code = c}
  BY <1>5 DEF ShownIn
<1>7. ASSUME NEW i \in H PROVE f[i] \in S /\ k[i].sequence \in Nat /\ f[i] = k[i].sequence + 1
  <2>1. i \in 1..Len(k) /\ IsHeld(k[i]) /\ k[i].card.code = c
    BY <1>4
  <2>2. /\ k[i].sequence \in Nat /\ k[i].sequence + 1 \in 1..Len(w.hand[1])
        /\ k[i].card = w.hand[1][k[i].sequence + 1] /\ k[i].card.shown
    BY <2>1, HeldKept
  <2> QED
    BY <1>6, <2>1, <2>2
<1>8. ASSUME NEW i \in H, NEW j \in H, f[i] = f[j] PROVE i = j
  <2>1. k[i].sequence = k[j].sequence
    BY <1>7, <1>8
  <2>2. /\ i \in 1..Len(k) /\ j \in 1..Len(k) /\ k[i].controller = k[j].controller
        /\ k[i].location = k[j].location
    BY <1>4 DEF IsHeld
  <2> QED
    BY <2>1, <2>2, KeptOnce
<1>9. ASSUME NEW j \in S PROVE \E i \in H : f[i] = j
  <2>1. j \in 1..Len(w.hand[1]) /\ w.hand[1][j].shown /\ w.hand[1][j].code = c
    BY <1>6
  <2>2. LET r == QueryAt(w, 1, "hand", j - 1)
        IN  /\ j - 1 \in There(w, 1, "hand") /\ r.card = w.hand[1][j]
            /\ Keep(r, me)
    BY <2>1, HeldIs
  <2>3. 1 \in Players /\ "hand" \in Places
    BY DEF Players, Places
  <2>4. PICK i \in 1..Len(k) : k[i] = QueryAt(w, 1, "hand", j - 1)
    BY <2>2, <2>3, KeptIs
  <2>5. k[i].controller = 1 /\ k[i].location = "hand" /\ k[i].sequence = j - 1
    BY <2>2, <2>3, <2>4, QueryAtIs
  <2>6. i \in H
    BY <2>1, <2>2, <2>4, <2>5 DEF HeldWith, IsHeld
  <2>7. j - 1 + 1 = j
    BY <1>5, <2>1
  <2> QED
    BY <2>5, <2>6, <2>7
<1>10. f \in [H -> S]
  BY <1>7
<1>13. \A x, y \in H : f[x] = f[y] => x = y
  BY <1>8
<1>14. \A t \in S : \E x \in H : f[x] = t
  BY <1>9
<1> HIDE DEF f, H, k, S
<1>11. H \in SUBSET Nat /\ IsFiniteSet(H) /\ Cardinality(H) \in Nat
  <2>1. IsFiniteSet(1..Len(k))
    BY <1>2, FS_Interval
  <2>2. IsFiniteSet(H)
    BY <1>3, <2>1, FS_Subset
  <2>3. Cardinality(H) \in Nat
    BY <2>2, FS_CardinalityType
  <2> QED
    BY <1>3, <2>2, <2>3
<1>12. Cardinality(H) = Cardinality(S)
  BY <1>10, <1>11, <1>13, <1>14, SameNumber
<1> QED
  BY <1>11, <1>12 DEF H, S, k

(* Of the opponent's cards those of the hand are kept first. *)
LEMMA HeldFirst ==
    ASSUME NEW w, Proper(w), NEW i \in 1..Len(Kept(w, me)), NEW j \in 1..Len(Kept(w, me)),
           IsHeld(Kept(w, me)[j]), ~IsHeld(Kept(w, me)[i]), Kept(w, me)[i].controller = 1
    PROVE  j < i
<1> DEFINE k == Kept(w, me)
<1>1. k \in Seq(Queries) /\ \A a, b \in 1..Len(k) : a < b => Ahead(k[a], k[b])
  BY KeptIs
<1>2. /\ i \in 1..Len(k) /\ j \in 1..Len(k) /\ k[j].controller = 1 /\ k[j].location = "hand"
      /\ k[i].location # "hand" /\ k[i].controller = 1
  BY DEF IsHeld
<1> HIDE DEF k
<1>3. k[i] \in Queries
  BY <1>1, <1>2
<1>4. k[i].location \in Places /\ k[i].controller \in Players
  BY <1>3 DEF Queries
<1>5. PICK n \in 1..12 : Who(n) = k[i].controller /\ Where(n) = k[i].location
  BY <1>4, WhereIs
<1>6. PICK m \in 1..12 : m = 7
  OBVIOUS
<1>7. Number(k[i]) = n
  BY <1>5, NumberIs
<1>8. Who(m) = 1 /\ Where(m) = "hand"
  BY <1>6, WhereIs
<1>9. Number(k[j]) = m
  BY <1>2, <1>8, NumberIs
<1>10. ~(n <= 6)
  BY <1>2, <1>5, WhereIs
<1>11. n # m
  BY <1>2, <1>5, <1>8
<1>12. m < n
  BY <1>6, <1>10, <1>11
<1>13. ~Ahead(k[i], k[j]) /\ i # j
  <2>1. k[i] # k[j] /\ i # j
    BY <1>2
  <2>2. Number(k[i]) \in Nat /\ Number(k[j]) \in Nat /\ Number(k[j]) < Number(k[i])
    BY <1>7, <1>9, <1>12
  <2>3. ~(Number(k[i]) < Number(k[j])) /\ Number(k[i]) # Number(k[j])
    BY <2>2
  <2> QED
    BY <2>1, <2>3 DEF Ahead
<1>14. ~(i < j)
  BY <1>1, <1>2, <1>13
<1> QED
  BY <1>1, <1>2, <1>13, <1>14

(* The cards before the i-th of the same code that have no visible place.   *)
Before2(k, i) ==
    {j \in 1..(i - 1) : /\ ~SequenceVisible(k[j], me) /\ k[j].controller = k[i].controller
                        /\ k[j].card.code = k[i].card.code}

(* The ordinal of a shown card of the opponent's counts those of its code   *)
(* before it.                                                               *)
LEMMA HeldOrdinal ==
    ASSUME NEW w, Proper(w), NEW i \in 1..Len(Kept(w, me)), IsHeld(Kept(w, me)[i])
    PROVE  LET k == Kept(w, me)
           IN  Ordinal(k, i, me) = Rank(HeldWith(k, k[i].card.code), i)
<1> DEFINE k == Kept(w, me)
           c == k[i].card.code
           H == HeldWith(k, c)
<1>1. k \in Seq(Queries)
  BY KeptIs
<1>2. i \in 1..Len(k) /\ k[i].controller = 1 /\ Len(k) \in Nat
  BY <1>1 DEF IsHeld
<1>3. \A j \in 1..Len(k) : IsHeld(k[j]) => ~SequenceVisible(k[j], me) /\ k[j].controller = 1
  BY HeldKept DEF IsHeld
<1>4. \A j \in 1..Len(k) : ~IsHeld(k[j]) /\ k[j].controller = 1 => i < j
  BY HeldFirst
<1>5. Ordinal(k, i, me) = Cardinality(Before2(k, i))
  BY DEF Ordinal, Before2
<1> HIDE DEF k
<1>6. Before2(k, i) = {j \in H : j < i}
  <2>1. ASSUME NEW j \in Before2(k, i) PROVE j \in H /\ j < i
    <3>1. /\ j \in 1..Len(k) /\ j < i /\ k[j].controller = 1 /\ k[j].card.code = c
      BY <1>2 DEF Before2
    <3>2. ~(i < j)
      BY <1>2, <3>1
    <3>3. IsHeld(k[j])
      BY <1>4, <3>1, <3>2
    <3> QED
      BY <3>1, <3>3 DEF HeldWith
  <2>2. ASSUME NEW j \in H, j < i PROVE j \in Before2(k, i)
    <3>1. j \in 1..Len(k) /\ IsHeld(k[j]) /\ k[j].card.code = c
      BY DEF HeldWith
    <3>2. j \in 1..(i - 1)
      BY <1>2, <2>2, <3>1
    <3> QED
      BY <1>2, <1>3, <3>1, <3>2 DEF Before2
  <2> HIDE DEF H
  <2> QED
    BY <2>1, <2>2
<1> QED
  BY <1>5, <1>6 DEF Rank, k

(* What a kept card before or after another looks like in the two fields.   *)
LEMMA OrdinalAlike ==
    ASSUME NEW w, NEW v, AlikeFields(w, v), NEW i \in 1..Len(Kept(w, me)),
           ~IsHeld(Kept(w, me)[i]), ~SequenceVisible(Kept(w, me)[i], me)
    PROVE  Ordinal(Kept(v, me), i, me) = Ordinal(Kept(w, me), i, me)
<1> DEFINE k == Kept(w, me)
           l == Kept(v, me)
<1>1. Proper(w) /\ Proper(v)
  BY DEF AlikeFields
<1>2. k \in Seq(Queries) /\ l \in Seq(Queries) /\ Len(l) = Len(k) /\ Len(k) \in Nat
  <2>1. k \in Seq(Queries) /\ l \in Seq(Queries)
    BY <1>1, KeptIs
  <2>2. Len(l) = Len(k)
    BY KeptAlike
  <2> HIDE DEF k, l
  <2> QED
    BY <2>1, <2>2
<1>3. \A j \in 1..Len(k) : \/ IsHeld(k[j]) /\ IsHeld(l[j])
                           \/ ~IsHeld(k[j]) /\ AlikeQueries(k[j], l[j])
  BY KeptAlike
<1>4. \A j \in 1..Len(k) : Keep(k[j], me)
  BY <1>1, KeptIs
<1>5. Ordinal(k, i, me) = Cardinality(Before2(k, i)) /\ Ordinal(l, i, me) = Cardinality(Before2(l, i))
  BY DEF Ordinal, Before2
<1>6. i \in 1..Len(k) /\ ~IsHeld(k[i]) /\ ~SequenceVisible(k[i], me)
  OBVIOUS
<1>7. \A j \in 1..Len(k) : IsHeld(k[j]) /\ k[i].controller = 1 => j < i
  BY <1>1, <1>6, HeldFirst
<1>8. \A j \in 1..Len(k) : IsHeld(k[j]) => ~SequenceVisible(k[j], me)
  BY <1>1, HeldKept
<1>9. \A j \in 1..Len(l) : IsHeld(l[j]) => ~SequenceVisible(l[j], me)
  BY <1>1, HeldKept
<1>10. k[i].card.code \in Codes => 
       LET H == HeldWith(k, k[i].card.code)
           I == HeldWith(l, k[i].card.code)
       IN  /\ IsFiniteSet(H) /\ IsFiniteSet(I) /\ Cardinality(H) = Cardinality(I)
           /\ Cardinality(H) \in Nat
  <2> SUFFICES ASSUME k[i].card.code \in Codes
               PROVE  LET H == HeldWith(k, k[i].card.code)
                          I == HeldWith(l, k[i].card.code)
                      IN  /\ IsFiniteSet(H) /\ IsFiniteSet(I) /\ Cardinality(H) = Cardinality(I)
                          /\ Cardinality(H) \in Nat
    OBVIOUS
  <2>1. PICK c \in Codes : c = k[i].card.code
    OBVIOUS
  <2>2. /\ IsFiniteSet(HeldWith(k, c))
        /\ Cardinality(HeldWith(k, c)) = Cardinality(ShownIn(w.hand[1], {c}))
        /\ Cardinality(HeldWith(k, c)) \in Nat
    BY <1>1, HeldCount
  <2>3. /\ IsFiniteSet(HeldWith(l, c))
        /\ Cardinality(HeldWith(l, c)) = Cardinality(ShownIn(v.hand[1], {c}))
    BY <1>1, HeldCount
  <2>4. Cardinality(ShownIn(v.hand[1], {c})) = Cardinality(ShownIn(w.hand[1], {c}))
    <3>1. {c} \in SUBSET Codes
      OBVIOUS
    <3> QED
      BY <3>1 DEF AlikeFields, HeldAlike
  <2> QED
    BY <2>1, <2>2, <2>3, <2>4
<1> HIDE DEF k, l
<1>11. /\ \A j \in 1..Len(k) : k[j] \in Queries /\ l[j] \in Queries
  BY <1>2
<1>12. ASSUME NEW j \in 1..Len(k), ~IsHeld(k[j])
       PROVE  /\ ~IsHeld(l[j]) /\ l[j].controller = k[j].controller
              /\ SequenceVisible(l[j], me) <=> SequenceVisible(k[j], me)
              /\ ~SequenceVisible(k[j], me) => l[j].card.code = k[j].card.code
  <2>1. AlikeQueries(k[j], l[j]) /\ k[j] \in Queries /\ l[j] \in Queries /\ Keep(k[j], me)
    BY <1>3, <1>4, <1>11, <1>12
  <2>2. ~SequenceVisible(k[j], me) => IdentityVisible(k[j], me)
    <3>1. k[j].zone \in 2..9
      BY <2>1 DEF Queries
    <3> QED
      BY <2>1, <3>1 DEF Keep, SequenceVisible, Hand, ExtraDeck, MainDeck, MonsterZone,
         SpellTrapZone, FieldZone, PendulumRelevant, Graveyard, Banished
  <2>3. l[j].controller = k[j].controller /\ l[j].location = k[j].location
    BY <2>1 DEF AlikeQueries
  <2> QED
    BY <1>12, <2>1, <2>2, <2>3, AlikeAreKept DEF IsHeld
<1>13. /\ l[i].controller = k[i].controller /\ l[i].card.code = k[i].card.code
       /\ k[i].card.code \in Codes
  <2>1. k[i] \in Queries
    BY <1>6, <1>11
  <2> QED
    BY <1>6, <1>12, <2>1 DEF Queries, AnyCards
<1> DEFINE c == k[i].card.code
           N(s) == {j \in 1..(i - 1) : /\ ~IsHeld(s[j]) /\ ~SequenceVisible(s[j], me)
                                       /\ s[j].controller = k[i].controller /\ s[j].card.code = c}
<1>14. N(l) = N(k)
  <2>1. ASSUME NEW j \in 1..(i - 1) PROVE j \in N(l) <=> j \in N(k)
    <3>1. j \in 1..Len(k)
      BY <1>2, <1>6
    <3>2. CASE IsHeld(k[j])
      <4>1. IsHeld(l[j])
        BY <1>3, <3>1, <3>2
      <4> QED
        BY <3>2, <4>1
    <3>3. CASE ~IsHeld(k[j])
      BY <1>12, <3>1, <3>3
    <3> QED
      BY <3>2, <3>3
  <2> QED
    BY <2>1
<1>15. CASE k[i].controller # 1
  <2>1. ASSUME NEW j \in 1..(i - 1) PROVE (IsHeld(k[j]) => k[j].controller = 1)
                                          /\ (IsHeld(l[j]) => l[j].controller = 1)
    BY DEF IsHeld
  <2>2. Before2(k, i) = N(k)
    BY <1>15, <2>1 DEF Before2
  <2>3. Before2(l, i) = N(l)
    BY <1>13, <1>15, <2>1 DEF Before2
  <2> QED
    BY <1>5, <1>14, <2>2, <2>3 DEF k, l
<1>16. CASE k[i].controller = 1
  <2> DEFINE H == HeldWith(k, c)
             I == HeldWith(l, c)
  <2>1. Before2(k, i) = N(k) \cup H /\ N(k) \cap H = {}
    <3>1. ASSUME NEW j \in Before2(k, i) PROVE j \in N(k) \cup H
      <4>1. j \in 1..Len(k)
        BY <1>2, <1>6 DEF Before2
      <4> QED
        BY <4>1 DEF Before2, HeldWith
    <3>2. ASSUME NEW j \in H PROVE j \in Before2(k, i)
      <4>1. /\ j \in 1..Len(k) /\ IsHeld(k[j]) /\ k[j].card.code = c /\ j < i
            /\ ~SequenceVisible(k[j], me) /\ k[j].controller = 1
        BY <1>7, <1>8, <1>16 DEF HeldWith, IsHeld
      <4>2. j \in 1..(i - 1)
        BY <1>2, <1>6, <4>1
      <4> QED
        BY <1>16, <4>1, <4>2 DEF Before2
    <3>3. ASSUME NEW j \in N(k) PROVE j \in Before2(k, i) /\ j \notin H
      BY DEF Before2, HeldWith
    <3> HIDE DEF H, N
    <3> QED
      BY <3>1, <3>2, <3>3
  <2>2. Before2(l, i) = N(l) \cup I /\ N(l) \cap I = {}
    <3>1. ASSUME NEW j \in Before2(l, i) PROVE j \in N(l) \cup I
      <4>1. j \in 1..Len(l)
        BY <1>2, <1>6 DEF Before2
      <4> QED
        BY <1>13, <4>1 DEF Before2, HeldWith
    <3>2. ASSUME NEW j \in I PROVE j \in Before2(l, i)
      <4>1. j \in 1..Len(l) /\ IsHeld(l[j]) /\ l[j].card.code = c /\ l[j].controller = 1
        BY DEF HeldWith, IsHeld
      <4>2. IsHeld(k[j]) /\ j \in 1..Len(k)
        BY <1>2, <1>12, <4>1
      <4>3. j < i /\ ~SequenceVisible(l[j], me)
        BY <1>7, <1>9, <1>16, <4>1, <4>2
      <4>4. j \in 1..(i - 1)
        BY <1>2, <1>6, <4>1, <4>3
      <4> QED
        BY <1>13, <1>16, <4>1, <4>3, <4>4 DEF Before2
    <3>3. ASSUME NEW j \in N(l) PROVE j \in Before2(l, i) /\ j \notin I
      BY <1>13 DEF Before2, HeldWith
    <3> HIDE DEF I, N
    <3> QED
      BY <3>1, <3>2, <3>3
  <2>3. IsFiniteSet(N(k)) /\ IsFiniteSet(H) /\ IsFiniteSet(I) /\ Cardinality(H) = Cardinality(I)
    <3>1. IsFiniteSet(1..(i - 1))
      BY <1>2, <1>6, FS_Interval
    <3>2. N(k) \in SUBSET (1..(i - 1))
      OBVIOUS
    <3>3. IsFiniteSet(N(k))
      BY <3>1, <3>2, FS_Subset
    <3> QED
      BY <1>10, <1>13, <3>3
  <2> HIDE DEF N, H, I
  <2>4. Cardinality(N(k) \cup H) = Cardinality(N(k)) + Cardinality(H) - Cardinality(N(k) \cap H)
    BY <2>3, FS_Union
  <2>5. Cardinality(N(k) \cup I) = Cardinality(N(k)) + Cardinality(I) - Cardinality(N(k) \cap I)
    BY <2>3, FS_Union
  <2>6. Cardinality(N(k) \cup I) = Cardinality(N(k) \cup H)
    BY <1>14, <2>1, <2>2, <2>3, <2>4, <2>5
  <2> QED
    BY <1>5, <1>14, <2>1, <2>2, <2>6 DEF k, l
<1> QED
  BY <1>15, <1>16

(* A card outside of the opponent's hand has the same locator. *)
LEMMA LocatorAlike ==
    ASSUME NEW w, NEW v, AlikeFields(w, v), NEW i \in 1..Len(Kept(w, me)),
           ~IsHeld(Kept(w, me)[i])
    PROVE  /\ Locator(Kept(v, me), i, me) = Locator(Kept(w, me), i, me)
           /\ AlikeQueries(Kept(w, me)[i], Kept(v, me)[i])
           /\ Kept(w, me)[i] \in Queries /\ Kept(v, me)[i] \in Queries
           /\ Kept(v, me)[i].card.code = Kept(w, me)[i].card.code
              \/ ~IdentityVisible(Kept(w, me)[i], me)
           /\ SequenceVisible(Kept(v, me)[i], me) <=> SequenceVisible(Kept(w, me)[i], me)
           /\ IdentityVisible(Kept(v, me)[i], me) <=> IdentityVisible(Kept(w, me)[i], me)
<1> DEFINE k == Kept(w, me)
           l == Kept(v, me)
<1>1. Proper(w) /\ Proper(v)
  BY DEF AlikeFields
<1>2. /\ k \in Seq(Queries) /\ l \in Seq(Queries) /\ Len(l) = Len(k) /\ Keep(k[i], me)
      /\ AlikeQueries(k[i], l[i])
  BY <1>1, KeptIs, KeptAlike
<1>3. ~SequenceVisible(k[i], me) => Ordinal(l, i, me) = Ordinal(k, i, me)
  BY OrdinalAlike
<1>4. i \in 1..Len(k)
  OBVIOUS
<1> HIDE DEF k, l
<1>5. k[i] \in Queries /\ l[i] \in Queries
  BY <1>2, <1>4
<1>6. /\ SequenceVisible(l[i], me) <=> SequenceVisible(k[i], me)
      /\ IdentityVisible(l[i], me) <=> IdentityVisible(k[i], me)
      /\ IdentityVisible(k[i], me) => l[i].card.code = k[i].card.code
  BY <1>2, <1>5, AlikeAreKept
<1>7. ~SequenceVisible(k[i], me) => IdentityVisible(k[i], me)
  <2>1. k[i].zone \in 2..9
    BY <1>5 DEF Queries
  <2> QED
    BY <1>2, <2>1 DEF Keep, SequenceVisible, Hand, ExtraDeck, MainDeck, MonsterZone,
       SpellTrapZone, FieldZone, PendulumRelevant, Graveyard, Banished
<1>8. /\ l[i].controller = k[i].controller /\ l[i].zone = k[i].zone
      /\ l[i].sequence = k[i].sequence
  BY <1>2 DEF AlikeQueries
<1>9. Locator(l, i, me) = Locator(k, i, me)
  BY <1>3, <1>6, <1>7, <1>8 DEF Locator
<1> QED
  BY <1>2, <1>5, <1>6, <1>9 DEF k, l

----------------------------------------------------------------------------
(* Entities.                                                                *)

(* Entity 0 of a kept card is the card, the others are its materials. *)
EntityAt(k, i, m) == IF m = 0 THEN Entity(k, i, me) ELSE Material(k[i], m, me)
Holders(k) == {x \in Nat \X Nat : x[1] \in 1..Len(k) /\ x[2] \in 0..Len(Materials(k[x[1]]))}
EntityThreads(b, k, E) ==
    /\ b \in [Holders(k) -> 1..Len(E)]
    /\ \A j \in 1..Len(E) : \E x \in Holders(k) : b[x] = j
    /\ \A x \in Holders(k) : E[b[x]] = EntityAt(k, x[1], x[2])
    /\ \A x, y \in Holders(k) : Lex(x, y) => b[x] < b[y]

Part(k, i) ==
    <<Entity(k, i, me)>> \o [j \in DOMAIN Materials(k[i]) |-> Material(k[i], j, me)]
PartsOf(k) == [i \in DOMAIN k |-> Part(k, i)]
AllOf(k) ==
    {Entity(k, i, me) : i \in 1..Len(k)}
    \cup UNION {{Material(k[i], j, me) : j \in 1..Len(Materials(k[i]))} : i \in 1..Len(k)}

(* The materials of a queried card are a list of cards.                     *)
LEMMA MaterialsAre ==
    ASSUME NEW q \in Queries
    PROVE  /\ Materials(q) \in Seq(PlainCards) /\ Len(Materials(q)) \in Nat
           /\ DOMAIN Materials(q) = 1..Len(Materials(q))
<1>1. q.card \in AnyCards
  BY DEF Queries
<1>2. q.card.materials \in Seq(PlainCards)
  BY <1>1 DEF AnyCards
<1>3. Materials(q) \in Seq(PlainCards)
  BY <1>2 DEF Materials
<1> QED
  BY <1>3

(* The part of a card. *)
LEMMA EntityPart ==
    ASSUME NEW k \in Seq(Queries), NEW i \in 1..Len(k)
    PROVE  /\ Part(k, i) \in Seq(AllOf(k)) /\ Len(Part(k, i)) = 1 + Len(Materials(k[i]))
           /\ \A m \in 1..Len(Part(k, i)) : Part(k, i)[m] = EntityAt(k, i, m - 1)
<1> DEFINE n == Len(Materials(k[i]))
           a == <<Entity(k, i, me)>>
           c == [j \in DOMAIN Materials(k[i]) |-> Material(k[i], j, me)]
           T == AllOf(k)
<1>1. k[i] \in Queries
  OBVIOUS
<1>2. n \in Nat /\ DOMAIN Materials(k[i]) = 1..n
  BY <1>1, MaterialsAre
<1>3. Entity(k, i, me) \in T
  BY DEF AllOf
<1>4. ASSUME NEW j \in 1..n PROVE Material(k[i], j, me) \in T
  BY DEF AllOf
<1>5. Part(k, i) = a \o c
  BY DEF Part
<1>6. c = [j \in 1..n |-> Material(k[i], j, me)]
  BY <1>2
<1> HIDE DEF T, n
<1>7. a \in Seq(T) /\ Len(a) = 1 /\ a[1] = Entity(k, i, me)
  BY <1>3
<1>8. c \in [1..n -> T] /\ \A j \in 1..n : c[j] = Material(k[i], j, me)
  BY <1>4, <1>6
<1> HIDE DEF a, c
<1>9. c \in Seq(T) /\ Len(c) = n
  BY <1>2, <1>8, FunctionIsSeq
<1>12. /\ a \o c \in Seq(T) /\ Len(a \o c) = Len(a) + Len(c)
       /\ \A m \in 1..Len(a) : (a \o c)[m] = a[m]
       /\ \A m \in 1..Len(c) : (a \o c)[Len(a) + m] = c[m]
  <2>1. a \in Seq(T) /\ c \in Seq(T)
    BY <1>7, <1>9
  <2> QED
    BY <2>1, Appended
<1>10. /\ a \o c \in Seq(T) /\ Len(a \o c) = 1 + n
       /\ \A m \in 1..Len(a) : (a \o c)[m] = a[m]
       /\ \A m \in 1..Len(c) : (a \o c)[Len(a) + m] = c[m]
  BY <1>7, <1>9, <1>12
<1>11. ASSUME NEW m \in 1..(1 + n) PROVE (a \o c)[m] = EntityAt(k, i, m - 1)
  <2>1. CASE m = 1
    BY <1>7, <1>10, <2>1 DEF EntityAt
  <2>2. CASE m # 1
    <3>1. PICK j \in 1..n : m = 1 + j /\ j # 0
      BY <1>2, <2>2
    <3>2. (a \o c)[1 + j] = c[j]
      BY <1>7, <1>9, <1>10, <3>1
    <3>3. m - 1 = j
      BY <1>2, <3>1
    <3> QED
      BY <1>8, <3>1, <3>2, <3>3 DEF EntityAt
  <2> QED
    BY <2>1, <2>2
<1> QED
  BY <1>5, <1>10, <1>11 DEF T, n

(* Entities of lists with as many materials at each place are numbered by   *)
(* the same pairs.                                                          *)
LEMMA EntitiesThread ==
    ASSUME NEW k \in Seq(Queries), NEW l \in Seq(Queries), Len(l) = Len(k),
           \A i \in 1..Len(k) : Len(Materials(l[i])) = Len(Materials(k[i]))
    PROVE  /\ Entities(k, me) \in Seq(AllOf(k) \cup AllOf(l))
           /\ Entities(l, me) \in Seq(AllOf(k) \cup AllOf(l))
           /\ Len(Entities(l, me)) = Len(Entities(k, me))
           /\ \E b : /\ EntityThreads(b, k, Entities(k, me))
                     /\ EntityThreads(b, l, Entities(l, me))
<1> DEFINE T == AllOf(k) \cup AllOf(l)
           s == PartsOf(k)
           t == PartsOf(l)
           E == Entities(k, me)
           F == Entities(l, me)
<1>0. Len(k) \in Nat /\ DOMAIN k = 1..Len(k) /\ DOMAIN l = 1..Len(k)
  OBVIOUS
<1>1. ASSUME NEW i \in 1..Len(k)
      PROVE  /\ s[i] = Part(k, i) /\ t[i] = Part(l, i) /\ s[i] \in Seq(T) /\ t[i] \in Seq(T)
             /\ Len(s[i]) = 1 + Len(Materials(k[i])) /\ Len(t[i]) = Len(s[i])
             /\ Len(Materials(k[i])) \in Nat
             /\ \A m \in 1..Len(s[i]) : /\ s[i][m] = EntityAt(k, i, m - 1)
                                        /\ t[i][m] = EntityAt(l, i, m - 1)
  <2>1. s[i] = Part(k, i) /\ t[i] = Part(l, i)
    BY <1>0 DEF PartsOf
  <2>2. /\ Part(k, i) \in Seq(AllOf(k)) /\ Len(Part(k, i)) = 1 + Len(Materials(k[i]))
        /\ \A m \in 1..Len(Part(k, i)) : Part(k, i)[m] = EntityAt(k, i, m - 1)
    BY EntityPart
  <2>3. /\ Part(l, i) \in Seq(AllOf(l)) /\ Len(Part(l, i)) = 1 + Len(Materials(l[i]))
        /\ \A m \in 1..Len(Part(l, i)) : Part(l, i)[m] = EntityAt(l, i, m - 1)
    BY EntityPart
  <2>4. Part(k, i) \in Seq(T) /\ Part(l, i) \in Seq(T)
    BY <2>2, <2>3
  <2>5. Len(Materials(k[i])) \in Nat
    <3>1. k[i] \in Queries
      OBVIOUS
    <3> QED
      BY <3>1, MaterialsAre
  <2> HIDE DEF T, s, t
  <2> QED
    BY <2>1, <2>2, <2>3, <2>4, <2>5
<1>2. DOMAIN s = 1..Len(k) /\ DOMAIN t = 1..Len(k)
  BY <1>0 DEF PartsOf
<1>3. E = FlattenSeq(s) /\ F = FlattenSeq(t)
  BY DEF Entities, PartsOf, Part
<1>13. s = [i \in DOMAIN k |-> Part(k, i)] /\ t = [i \in DOMAIN l |-> Part(l, i)]
  BY DEF PartsOf
<1> HIDE DEF T, s, t, E, F
<1>4. s \in [1..Len(k) -> Seq(T)] /\ t \in [1..Len(k) -> Seq(T)]
  BY <1>0, <1>1, <1>13
<1>5. s \in Seq(Seq(T)) /\ Len(s) = Len(k) /\ t \in Seq(Seq(T)) /\ Len(t) = Len(k)
  BY <1>0, <1>4, FunctionIsSeq
<1>6. SameShape(s, t)
  BY <1>1, <1>5 DEF SameShape
<1>7. E \in Seq(T) /\ F \in Seq(T) /\ \E c : Threads(c, s, E) /\ Threads(c, t, F)
  BY <1>3, <1>5, <1>6, Flattened
<1>8. PICK c : Threads(c, s, E) /\ Threads(c, t, F)
  BY <1>7
<1>9. Holders(l) = Holders(k)
  BY DEF Holders
<1>10. Indices(t) = Indices(s)
  BY <1>5, <1>6 DEF Indices, SameShape
<1> DEFINE b == [x \in Holders(k) |-> c[<<x[1], x[2] + 1>>]]
<1>11. ASSUME NEW x \in Holders(k)
       PROVE  /\ x = <<x[1], x[2]>> /\ <<x[1], x[2] + 1>> \in Indices(s)
              /\ b[x] = c[<<x[1], x[2] + 1>>] /\ b[x] \in 1..Len(E) /\ b[x] \in 1..Len(F)
              /\ E[b[x]] = EntityAt(k, x[1], x[2]) /\ F[b[x]] = EntityAt(l, x[1], x[2])
              /\ x[1] \in Nat /\ x[2] \in Nat
  <2>1. PICK i \in Nat, m \in Nat : x = <<i, m>>
    BY DEF Holders
  <2>2. i \in 1..Len(k) /\ m \in 0..Len(Materials(k[i]))
    BY <2>1 DEF Holders
  <2>3. m + 1 \in 1..Len(s[i]) /\ m + 1 \in Nat /\ (m + 1) - 1 = m
    BY <1>1, <2>2
  <2>4. <<i, m + 1>> \in Indices(s)
    BY <1>5, <2>2, <2>3 DEF Indices
  <2>5. /\ c[<<i, m + 1>>] \in 1..Len(E) /\ c[<<i, m + 1>>] \in 1..Len(F)
        /\ E[c[<<i, m + 1>>]] = s[i][m + 1] /\ F[c[<<i, m + 1>>]] = t[i][m + 1]
    BY <1>8, <1>10, <2>4 DEF Threads
  <2>6. s[i][m + 1] = EntityAt(k, i, m) /\ t[i][m + 1] = EntityAt(l, i, m)
    BY <1>1, <2>2, <2>3
  <2>7. b[x] = c[<<i, m + 1>>]
    BY <2>1
  <2> HIDE DEF b
  <2> QED
    BY <2>1, <2>4, <2>5, <2>6, <2>7
<1>12. ASSUME NEW n \in Nat, \/ n \in 1..Len(E) \/ n \in 1..Len(F)
       PROVE  \E x \in Holders(k) : b[x] = n
  <2>1. PICK y \in Indices(s) : c[y] = n
    BY <1>8, <1>10, <1>12 DEF Threads
  <2>2. PICK i \in Nat, m \in Nat : y = <<i, m>>
    BY DEF Indices
  <2>3. i \in 1..Len(k) /\ m \in 1..Len(s[i])
    BY <1>5, <2>2 DEF Indices
  <2>4. m - 1 \in 0..Len(Materials(k[i])) /\ (m - 1) + 1 = m
    BY <1>1, <2>3
  <2>5. <<i, m - 1>> \in Holders(k)
    BY <2>3, <2>4 DEF Holders
  <2>6. b[<<i, m - 1>>] = c[<<i, (m - 1) + 1>>]
    BY <2>5
  <2> QED
    BY <2>1, <2>2, <2>4, <2>5, <2>6
<1>14. ASSUME NEW x \in Holders(k), NEW y \in Holders(k), Lex(x, y)
       PROVE  b[x] < b[y]
  <2>1. Lex(<<x[1], x[2] + 1>>, <<y[1], y[2] + 1>>)
    <3>1. x[1] \in Nat /\ x[2] \in Nat /\ y[1] \in Nat /\ y[2] \in Nat
      BY <1>11
    <3>2. PICK h, i, m, n \in Nat : h = x[1] /\ i = x[2] /\ m = y[1] /\ n = y[2]
      BY <3>1
    <3>3. h < m \/ (h = m /\ i < n)
      BY <1>14, <3>2 DEF Lex
    <3>4. Lex(<<h, i + 1>>, <<m, n + 1>>)
      <4>1. h < m \/ (h = m /\ i + 1 < n + 1)
        BY <3>3
      <4> HIDE DEF b
      <4> QED
        BY <4>1 DEF Lex
    <3> QED
      BY <3>2, <3>4
  <2> QED
    BY <1>8, <1>11, <2>1 DEF Threads
<1>15. b \in [Holders(k) -> 1..Len(E)] /\ b \in [Holders(k) -> 1..Len(F)]
  BY <1>11
<1> HIDE DEF b
<1>16. Len(E) \in Nat /\ Len(F) \in Nat
  BY <1>7
<1>17. Len(F) = Len(E)
  <2>1. \A n \in 1..Len(E) : n \in 1..Len(F)
    <3> TAKE n \in 1..Len(E)
    <3>1. n \in Nat
      BY <1>16
    <3> QED
      BY <1>12, <1>15, <3>1
  <2>2. \A n \in 1..Len(F) : n \in 1..Len(E)
    <3> TAKE n \in 1..Len(F)
    <3>1. n \in Nat
      BY <1>16
    <3> QED
      BY <1>12, <1>15, <3>1
  <2> QED
    BY <1>16, <2>1, <2>2
<1>18. EntityThreads(b, k, E) /\ EntityThreads(b, l, F)
  <2>1. \A j \in 1..Len(E) : \E x \in Holders(k) : b[x] = j
    <3> TAKE j \in 1..Len(E)
    <3>1. j \in Nat
      BY <1>16
    <3> QED
      BY <1>12, <3>1
  <2> QED
    BY <1>9, <1>11, <1>14, <1>15, <1>17, <2>1 DEF EntityThreads
<1> QED
  BY <1>7, <1>17, <1>18 DEF T, E, F

(* What is seen of a card of the opponent's hand: one of its code. *)
Revealed(c, o) ==
    [locator |-> Word(<<1, Hand, 1, c, o>>), known |-> TRUE, code |-> <<c>>,
     printed |-> <<Properties(c)>>, current |-> <<Properties(c)>>, owner |-> <<1>>,
     controller |-> <<1>>, zone |-> Hand, sequence |-> <<>>, overlay |-> <<>>,
     position |-> FaceUp, up |-> TRUE, down |-> FALSE]

(* The entity of a shown card of the opponent's hand is settled by its code *)
(* and its rank among those of that code.                                   *)
LEMMA HeldEntity ==
    ASSUME NEW w, Proper(w), NEW i \in 1..Len(Kept(w, me)), IsHeld(Kept(w, me)[i])
    PROVE  LET k == Kept(w, me)
               c == k[i].card.code
           IN  /\ Entity(k, i, me) = Revealed(c, Rank(HeldWith(k, c), i))
               /\ c \in Codes /\ i \in HeldWith(k, c) /\ Materials(k[i]) = <<>>
               /\ Rank(HeldWith(k, c), i) \in 0..(Cardinality(HeldWith(k, c)) - 1)
<1> DEFINE k == Kept(w, me)
           q == k[i]
           c == q.card.code
           H == HeldWith(k, c)
<1>1. /\ q.card.up /\ q.zone = Hand /\ q.card.owner = 1 /\ q.card.materials = <<>>
      /\ c \in Codes /\ ~SequenceVisible(q, me) /\ IdentityVisible(q, me)
  BY HeldKept
<1>2. q.controller = 1
  BY DEF IsHeld
<1>3. Ordinal(k, i, me) = Rank(H, i)
  BY HeldOrdinal
<1>4. i \in H
  BY DEF HeldWith
<1>5. H \in SUBSET Nat /\ IsFiniteSet(H)
  BY <1>1, HeldCount
<1> HIDE DEF k
<1>6. Rank(H, i) \in 0..(Cardinality(H) - 1)
  <2> HIDE DEF H
  <2> QED
    BY <1>4, <1>5, RankGrows
<1>7. Materials(q) = <<>>
  BY <1>1 DEF Materials
<1>8. Locator(k, i, me) = Word(<<1, Hand, 1, c, Rank(H, i)>>)
  BY <1>1, <1>2, <1>3 DEF Locator
<1>9. Entity(k, i, me) = Revealed(c, Rank(H, i))
  <2> HIDE DEF H, c, q
  <2>2. Given(SequenceVisible(q, me), q.sequence) = <<>>
    BY <1>1 DEF Given
  <2>3. \A x : Given(IdentityVisible(q, me), x) = <<x>>
    BY <1>1 DEF Given
  <2>4. ~ ~TRUE /\ (~TRUE) = FALSE
    OBVIOUS
  <2>5. IdentityVisible(q, me) = TRUE /\ q.card.up = TRUE /\ (~q.card.up) = FALSE
    BY <1>1
  <2> QED
    BY <1>1, <1>2, <1>8, <2>2, <2>3, <2>5 DEF Entity, Revealed, q, c
<1> QED
  BY <1>1, <1>4, <1>6, <1>7, <1>9 DEF k

(* A material is seen with its card. *)
MaterialSeen(q, m, known) ==
    LET c == q.card.materials[m]
        position == PositionFrom(m - 1)
    IN  [locator |-> MaterialLocator(q, m), known |-> known, code |-> Given(known, c.code),
         printed |-> Given(known, Properties(c.code)),
         current |-> Given(known, Properties(c.code)),
         owner |-> <<c.owner>>, controller |-> <<q.controller>>, zone |-> Overlay,
         sequence |-> <<q.sequence>>, overlay |-> <<m - 1>>, position |-> position,
         up |-> position \in {1, 4}, down |-> position \in {2, 8}]

LEMMA MaterialIs ==
    ASSUME NEW q \in Queries, NEW m
    PROVE  /\ MaterialVisible(q, m, me) = IdentityVisible(q, me)
           /\ Material(q, m, me) = MaterialSeen(q, m, IdentityVisible(q, me))
<1>1. IdentityVisible(q, me) \in BOOLEAN
  BY DEF IdentityVisible, Queries, AnyCards
<1>2. /\ MaterialQuery(q, m).code = <<q.card.materials[m].code>>
      /\ MaterialQuery(q, m).owner = q.card.materials[m].owner
      /\ MaterialQuery(q, m).position = m - 1
  BY DEF MaterialQuery
<1>3. MaterialQuery(q, m).code # <<>> /\ MaterialQuery(q, m).code[1] = q.card.materials[m].code
  BY <1>2
<1>4. MaterialVisible(q, m, me) = IdentityVisible(q, me)
  BY <1>1, <1>3 DEF MaterialVisible
<1>5. Material(q, m, me) = MaterialSeen(q, m, IdentityVisible(q, me))
  BY <1>2, <1>3, <1>4, Zenon DEF Material, MaterialSeen
<1> QED
  BY <1>4, <1>5

(* What is seen of another card is the same in both. *)
LEMMA EntityAlike ==
    ASSUME NEW w, NEW v, AlikeFields(w, v), NEW i \in 1..Len(Kept(w, me)),
           ~IsHeld(Kept(w, me)[i])
    PROVE  LET k == Kept(w, me)
               l == Kept(v, me)
           IN  /\ Entity(l, i, me) = Entity(k, i, me)
               /\ \A m \in 1..Len(Materials(k[i])) :
                     Material(l[i], m, me) = Material(k[i], m, me)
               /\ Len(Materials(l[i])) = Len(Materials(k[i]))
<1> DEFINE k == Kept(w, me)
           l == Kept(v, me)
           q == k[i]
           r == l[i]
<1>1. /\ Locator(l, i, me) = Locator(k, i, me) /\ AlikeQueries(q, r) /\ q \in Queries
      /\ r \in Queries /\ (r.card.code = q.card.code \/ ~IdentityVisible(q, me))
      /\ SequenceVisible(r, me) <=> SequenceVisible(q, me)
      /\ IdentityVisible(r, me) <=> IdentityVisible(q, me)
  BY LocatorAlike
<1> HIDE DEF k, l
<1>2. /\ r.controller = q.controller /\ r.location = q.location /\ r.sequence = q.sequence
      /\ r.zone = q.zone /\ r.card.owner = q.card.owner /\ r.card.up = q.card.up
      /\ Owners(r.card.materials) = Owners(q.card.materials)
      /\ q.card.materials \in Seq(PlainCards) /\ r.card.materials \in Seq(PlainCards)
  BY <1>1 DEF AlikeQueries, SameCard, Queries, AnyCards
<1>3. SequenceVisible(r, me) = SequenceVisible(q, me) /\ IdentityVisible(r, me) = IdentityVisible(q, me)
  <2>1. SequenceVisible(r, me) \in BOOLEAN /\ SequenceVisible(q, me) \in BOOLEAN
    BY DEF SequenceVisible
  <2>2. IdentityVisible(r, me) \in BOOLEAN /\ IdentityVisible(q, me) \in BOOLEAN
    <3>1. q.card.shown \in BOOLEAN /\ q.card.up \in BOOLEAN /\ r.card.shown \in BOOLEAN
          /\ r.card.up \in BOOLEAN
      BY <1>1 DEF Queries, AnyCards
    <3> QED
      BY <3>1 DEF IdentityVisible
  <2> QED
    BY <1>1, <2>1, <2>2
<1>4. Given(IdentityVisible(r, me), r.card.code) = Given(IdentityVisible(q, me), q.card.code)
  BY <1>1, <1>3 DEF Given
<1>5. Given(IdentityVisible(r, me), Properties(r.card.code))
        = Given(IdentityVisible(q, me), Properties(q.card.code))
  BY <1>1, <1>3 DEF Given
<1>6. Entity(l, i, me) = Entity(k, i, me)
  <2>1. Entity(k, i, me) =
          [locator |-> Locator(k, i, me), known |-> IdentityVisible(q, me),
           code |-> Given(IdentityVisible(q, me), q.card.code),
           printed |-> Given(IdentityVisible(q, me), Properties(q.card.code)),
           current |-> Given(IdentityVisible(q, me), Properties(q.card.code)),
           owner |-> <<q.card.owner>>, controller |-> <<q.controller>>, zone |-> q.zone,
           sequence |-> Given(SequenceVisible(q, me), q.sequence), overlay |-> <<>>,
           position |-> IF q.card.up THEN FaceUp ELSE FaceDown, up |-> q.card.up,
           down |-> ~q.card.up]
    BY DEF Entity
  <2>2. Entity(l, i, me) =
          [locator |-> Locator(l, i, me), known |-> IdentityVisible(r, me),
           code |-> Given(IdentityVisible(r, me), r.card.code),
           printed |-> Given(IdentityVisible(r, me), Properties(r.card.code)),
           current |-> Given(IdentityVisible(r, me), Properties(r.card.code)),
           owner |-> <<r.card.owner>>, controller |-> <<r.controller>>, zone |-> r.zone,
           sequence |-> Given(SequenceVisible(r, me), r.sequence), overlay |-> <<>>,
           position |-> IF r.card.up THEN FaceUp ELSE FaceDown, up |-> r.card.up,
           down |-> ~r.card.up]
    BY DEF Entity
  <2> HIDE DEF q, r
  <2> QED
    BY <1>1, <1>2, <1>3, <1>4, <1>5, <2>1, <2>2
<1> HIDE DEF q, r
<1>9. /\ Len(r.card.materials) = Len(q.card.materials)
      /\ DOMAIN q.card.materials = 1..Len(q.card.materials)
      /\ \A j \in DOMAIN q.card.materials :
            r.card.materials[j].owner = q.card.materials[j].owner
  <2>1. PICK a, b : a = q.card.materials /\ b = r.card.materials
    OBVIOUS
  <2>2. a \in Seq(PlainCards) /\ b \in Seq(PlainCards) /\ Owners(b) = Owners(a)
    BY <1>2, <2>1
  <2>3. Len(b) = Len(a) /\ \A j \in DOMAIN a : b[j].owner = a[j].owner
    BY <2>2, OwnersAre
  <2> QED
    BY <2>1, <2>2, <2>3
<1>8. Len(Materials(r)) = Len(Materials(q))
  BY <1>2, <1>9 DEF Materials
<1>7. ASSUME NEW m \in 1..Len(Materials(q)) PROVE Material(r, m, me) = Material(q, m, me)
  <2>1. m \in DOMAIN q.card.materials
    <3>1. CASE q.zone = ExtraDeck
      <4>1. Len(Materials(q)) = 0
        BY <3>1 DEF Materials
      <4> QED
        BY <4>1
    <3>2. CASE q.zone # ExtraDeck
      BY <1>9, <3>2 DEF Materials
    <3> QED
      BY <3>1, <3>2
  <2>2. r.card.materials[m].owner = q.card.materials[m].owner
    BY <1>9, <2>1
  <2>3. IdentityVisible(q, me) => r.card.materials[m].code = q.card.materials[m].code
    BY <1>1, AlikeAreKept
  <2>4. \A g, h : g = q.card.materials[m] /\ h = r.card.materials[m] =>
            /\ Given(IdentityVisible(r, me), h.code) = Given(IdentityVisible(q, me), g.code)
            /\ Given(IdentityVisible(r, me), Properties(h.code))
                  = Given(IdentityVisible(q, me), Properties(g.code))
    BY <1>3, <2>3 DEF Given
  <2>5. MaterialLocator(r, m) = MaterialLocator(q, m)
    BY <1>2 DEF MaterialLocator
  <2>6. MaterialSeen(r, m, IdentityVisible(r, me)) = MaterialSeen(q, m, IdentityVisible(q, me))
    BY <1>2, <1>3, <2>2, <2>4, <2>5, Zenon DEF MaterialSeen
  <2> QED
    BY <1>1, <2>6, MaterialIs
<1> QED
  BY <1>6, <1>7, <1>8 DEF k, l, q, r

(* The entities of the two: those of the opponent's hand are as many of     *)
(* each code, the others are the same.                                      *)
LEMMA EntitiesAlike ==
    ASSUME NEW w, NEW v, AlikeFields(w, v)
    PROVE  LET k == Kept(w, me)
               l == Kept(v, me)
               E == Entities(k, me)
               F == Entities(l, me)
           IN  /\ Len(F) = Len(E) /\ Len(E) \in Nat /\ DOMAIN E = 1..Len(E) /\ DOMAIN F = 1..Len(E)
               /\ \E b : EntityThreads(b, k, E) /\ EntityThreads(b, l, F)
               /\ Holders(l) = Holders(k)
               /\ \A x \in Holders(k) :
                     \/ x[2] = 0 /\ IsHeld(k[x[1]]) /\ IsHeld(l[x[1]])
                     \/ ~IsHeld(k[x[1]]) /\ EntityAt(l, x[1], x[2]) = EntityAt(k, x[1], x[2])
<1> DEFINE k == Kept(w, me)
           l == Kept(v, me)
           E == Entities(k, me)
           F == Entities(l, me)
<1>1. Proper(w) /\ Proper(v)
  BY DEF AlikeFields
<1>2. k \in Seq(Queries) /\ l \in Seq(Queries) /\ Len(l) = Len(k)
  <2>1. k \in Seq(Queries) /\ l \in Seq(Queries)
    BY <1>1, KeptIs
  <2>2. Len(l) = Len(k)
    BY KeptAlike
  <2> HIDE DEF k, l
  <2> QED
    BY <2>1, <2>2
<1>3. \A i \in 1..Len(k) : \/ IsHeld(k[i]) /\ IsHeld(l[i])
                           \/ ~IsHeld(k[i]) /\ AlikeQueries(k[i], l[i])
  BY KeptAlike
<1>4. \A i \in 1..Len(k) : ~IsHeld(k[i]) =>
          /\ Entity(l, i, me) = Entity(k, i, me)
          /\ \A m \in 1..Len(Materials(k[i])) : Material(l[i], m, me) = Material(k[i], m, me)
          /\ Len(Materials(l[i])) = Len(Materials(k[i]))
  BY EntityAlike
<1>5. \A i \in 1..Len(k) : IsHeld(k[i]) => Materials(k[i]) = <<>>
  BY <1>1, HeldEntity
<1>6. \A i \in 1..Len(l) : IsHeld(l[i]) => Materials(l[i]) = <<>>
  BY <1>1, HeldEntity
<1> HIDE DEF k, l, E, F
<1>7. \A i \in 1..Len(k) : Len(Materials(l[i])) = Len(Materials(k[i]))
  BY <1>2, <1>3, <1>4, <1>5, <1>6
<1>8. /\ E \in Seq(AllOf(k) \cup AllOf(l)) /\ F \in Seq(AllOf(k) \cup AllOf(l)) /\ Len(F) = Len(E)
      /\ \E b : EntityThreads(b, k, E) /\ EntityThreads(b, l, F)
  BY <1>2, <1>7, EntitiesThread DEF E, F
<1>9. Len(E) \in Nat /\ DOMAIN E = 1..Len(E) /\ DOMAIN F = 1..Len(E)
  BY <1>8
<1>10. Holders(l) = Holders(k)
  BY <1>2, <1>7 DEF Holders
<1>11. ASSUME NEW x \in Holders(k)
       PROVE  \/ x[2] = 0 /\ IsHeld(k[x[1]]) /\ IsHeld(l[x[1]])
              \/ ~IsHeld(k[x[1]]) /\ EntityAt(l, x[1], x[2]) = EntityAt(k, x[1], x[2])
  <2>1. PICK i \in Nat, m \in Nat : x[1] = i /\ x[2] = m /\ i \in 1..Len(k)
                                     /\ m \in 0..Len(Materials(k[i]))
    BY DEF Holders
  <2>2. CASE IsHeld(k[i])
    <3>1. IsHeld(l[i])
      BY <1>3, <2>1, <2>2
    <3>2. Len(Materials(k[i])) = 0
      BY <1>5, <2>1, <2>2
    <3>3. m = 0
      BY <2>1, <3>2
    <3> QED
      BY <2>1, <2>2, <3>1, <3>3
  <2>3. CASE ~IsHeld(k[i])
    <3>1. m = 0 \/ m \in 1..Len(Materials(k[i]))
      BY <2>1
    <3>2. EntityAt(l, i, m) = EntityAt(k, i, m)
      BY <1>4, <2>1, <2>3, <3>1 DEF EntityAt
    <3> QED
      BY <2>1, <2>3, <3>2
  <2> QED
    BY <2>2, <2>3
<1> QED
  BY <1>8, <1>9, <1>10, <1>11 DEF k, l, E, F

(* They are the same, in whatever order. *)
LEMMA EntitiesAreIn ==
    ASSUME NEW w, NEW v, AlikeFields(w, v), NEW u, NEW x, u \in {<<w, v>>, <<v, w>>},
           x \in ToSet(Entities(Kept(u[1], me), me))
    PROVE  x \in ToSet(Entities(Kept(u[2], me), me))
<1> DEFINE k == Kept(u[1], me)
           l == Kept(u[2], me)
           E == Entities(k, me)
           F == Entities(l, me)
<1>1. Proper(u[1]) /\ Proper(u[2])
  BY DEF AlikeFields
<1>2. /\ Len(F) = Len(E) /\ Len(E) \in Nat /\ DOMAIN E = 1..Len(E) /\ DOMAIN F = 1..Len(F)
      /\ \E b : EntityThreads(b, k, E) /\ EntityThreads(b, l, F)
      /\ Holders(l) = Holders(k)
      /\ \A y \in Holders(k) :
            \/ y[2] = 0 /\ IsHeld(k[y[1]]) /\ IsHeld(l[y[1]])
            \/ EntityAt(l, y[1], y[2]) = EntityAt(k, y[1], y[2])
  <2>1. CASE u = <<w, v>>
    <3>1. u[1] = w /\ u[2] = v
      BY <2>1
    <3> QED
      BY <3>1, EntitiesAlike
  <2>2. CASE u = <<v, w>>
    <3>1. u[1] = v /\ u[2] = w
      BY <2>2
    <3> QED
      BY <3>1, EntitiesAlike
  <2> QED
    BY <2>1, <2>2
<1>3. \A c \in Codes : Cardinality(ShownIn(u[1].hand[1], {c})) = Cardinality(ShownIn(u[2].hand[1], {c}))
  <2> TAKE c \in Codes
  <2>1. {c} \in SUBSET Codes
    OBVIOUS
  <2> QED
    BY <2>1 DEF AlikeFields, HeldAlike
<1>4. \A i \in 1..Len(k) : IsHeld(k[i]) =>
          LET c == k[i].card.code
          IN  /\ Entity(k, i, me) = Revealed(c, Rank(HeldWith(k, c), i))
              /\ c \in Codes /\ Rank(HeldWith(k, c), i) \in 0..(Cardinality(HeldWith(k, c)) - 1)
  BY <1>1, HeldEntity
<1>5. \A i \in 1..Len(l) : IsHeld(l[i]) =>
          LET c == l[i].card.code
          IN  Entity(l, i, me) = Revealed(c, Rank(HeldWith(l, c), i))
  BY <1>1, HeldEntity
<1>6. \A c \in Codes :
          /\ Cardinality(HeldWith(k, c)) = Cardinality(ShownIn(u[1].hand[1], {c}))
  BY <1>1, HeldCount
<1>7. \A c \in Codes :
          /\ HeldWith(l, c) \in SUBSET Nat /\ IsFiniteSet(HeldWith(l, c))
          /\ Cardinality(HeldWith(l, c)) = Cardinality(ShownIn(u[2].hand[1], {c}))
  BY <1>1, HeldCount
<1>8. x \in ToSet(E)
  OBVIOUS
<1> SUFFICES x \in ToSet(F)
  OBVIOUS
<1>16. k \in Seq(Queries) /\ l \in Seq(Queries)
  BY <1>1, KeptIs
<1> HIDE DEF k, l, E, F
<1>9. PICK b : EntityThreads(b, k, E) /\ EntityThreads(b, l, F)
  BY <1>2
<1>10. PICK j \in 1..Len(E) : E[j] = x
  BY <1>2, <1>8 DEF ToSet
<1>11. PICK y \in Holders(k) : b[y] = j
  BY <1>9, <1>10 DEF EntityThreads
<1>12. x = EntityAt(k, y[1], y[2]) /\ F[b[y]] = EntityAt(l, y[1], y[2]) /\ b[y] \in 1..Len(F)
  BY <1>2, <1>9, <1>10, <1>11 DEF EntityThreads
<1>13. CASE EntityAt(l, y[1], y[2]) = EntityAt(k, y[1], y[2])
  BY <1>2, <1>12, <1>13 DEF ToSet
<1>14. CASE y[2] = 0 /\ IsHeld(k[y[1]]) /\ IsHeld(l[y[1]])
  <2>1. PICK i \in 1..Len(k) : i = y[1]
    BY DEF Holders
  <2>2. x = Entity(k, i, me)
    BY <1>12, <1>14, <2>1 DEF EntityAt
  <2>3. PICK c \in Codes : c = k[i].card.code
    BY <1>4, <1>14, <2>1
  <2>4. PICK o \in 0..(Cardinality(HeldWith(k, c)) - 1) : x = Revealed(c, o)
    BY <1>4, <1>14, <2>1, <2>2, <2>3
  <2>5. o \in 0..(Cardinality(HeldWith(l, c)) - 1)
    BY <1>3, <1>6, <1>7, <2>4
  <2>6. PICK h \in HeldWith(l, c) : Rank(HeldWith(l, c), h) = o
    BY <1>7, <2>5, RankIsOnto
  <2>7. h \in 1..Len(l) /\ IsHeld(l[h]) /\ l[h].card.code = c
    BY DEF HeldWith
  <2>8. Entity(l, h, me) = x
    BY <1>5, <2>4, <2>6, <2>7
  <2>9. <<h, 0>> \in Holders(l) /\ EntityAt(l, h, 0) = x
    <3>3. l[h] \in Queries
      BY <1>16, <2>7
    <3>1. Len(Materials(l[h])) \in Nat
      BY <3>3, MaterialsAre
    <3>4. Len(l) \in Nat
      BY <1>16
    <3>2. 0 \in 0..Len(Materials(l[h])) /\ h \in Nat
      BY <2>7, <3>1, <3>4
    <3> QED
      BY <2>7, <2>8, <3>2 DEF Holders, EntityAt
  <2>10. b[<<h, 0>>] \in 1..Len(F) /\ F[b[<<h, 0>>]] = x
    BY <1>9, <2>9 DEF EntityThreads
  <2> QED
    BY <1>2, <2>10 DEF ToSet
<1> QED
  BY <1>2, <1>11, <1>13, <1>14

(* Fields that look the same have the same entities.                        *)
LEMMA SameEntities ==
    ASSUME NEW w, NEW v, AlikeFields(w, v)
    PROVE  ToSet(Entities(Kept(v, me), me)) = ToSet(Entities(Kept(w, me), me))
<1>1. ASSUME NEW x \in ToSet(Entities(Kept(w, me), me)) PROVE x \in ToSet(Entities(Kept(v, me), me))
  <2>1. PICK u : u = <<w, v>>
    OBVIOUS
  <2>2. u[1] = w /\ u[2] = v
    BY <2>1
  <2> QED
    BY <2>1, <2>2, EntitiesAreIn
<1>2. ASSUME NEW x \in ToSet(Entities(Kept(v, me), me)) PROVE x \in ToSet(Entities(Kept(w, me), me))
  <2>1. PICK u : u = <<v, w>>
    OBVIOUS
  <2>2. u[1] = v /\ u[2] = w
    BY <2>1
  <2> QED
    BY <2>1, <2>2, EntitiesAreIn
<1> QED
  BY <1>1, <1>2

----------------------------------------------------------------------------
(* Relationships.                                                           *)

(* A monster is found in the same place, under the same locator. *)
LEMMA FoundAlike ==
    ASSUME NEW w, NEW v, AlikeFields(w, v), NEW place, place.location = "mzone"
    PROVE  FindLocator(Kept(v, me), place, me) = FindLocator(Kept(w, me), place, me)
<1> DEFINE k == Kept(w, me)
           l == Kept(v, me)
           There2(s) == {i \in DOMAIN s : /\ s[i].controller = place.controller
                                          /\ s[i].zone = ZoneAt(place)
                                          /\ s[i].sequence = place.sequence}
<1>1. Proper(w) /\ Proper(v)
  BY DEF AlikeFields
<1>2. k \in Seq(Queries) /\ l \in Seq(Queries) /\ Len(l) = Len(k)
  <2>1. k \in Seq(Queries) /\ l \in Seq(Queries)
    BY <1>1, KeptIs
  <2>2. Len(l) = Len(k)
    BY KeptAlike
  <2> HIDE DEF k, l
  <2> QED
    BY <2>1, <2>2
<1>3. \A i \in 1..Len(k) : \/ IsHeld(k[i]) /\ IsHeld(l[i])
                           \/ ~IsHeld(k[i]) /\ AlikeQueries(k[i], l[i])
  BY KeptAlike
<1>4. \A i \in 1..Len(k) : ~IsHeld(k[i]) => Locator(l, i, me) = Locator(k, i, me)
  BY LocatorAlike
<1>5. \A i \in 1..Len(k) : IsHeld(k[i]) => k[i].zone = Hand
  BY <1>1, HeldKept
<1>6. \A i \in 1..Len(l) : IsHeld(l[i]) => l[i].zone = Hand
  BY <1>1, HeldKept
<1>7. ZoneAt(place) # Hand
  BY DEF ZoneAt, ProjectZone, Hand, MonsterZone
<1>8. /\ FindLocator(k, place, me) = IF There2(k) = {} THEN <<>>
                                     ELSE <<Locator(k, CHOOSE i \in There2(k) : TRUE, me)>>
      /\ FindLocator(l, place, me) = IF There2(l) = {} THEN <<>>
                                     ELSE <<Locator(l, CHOOSE i \in There2(l) : TRUE, me)>>
  BY DEF FindLocator
<1> HIDE DEF k, l
<1>9. DOMAIN k = 1..Len(k) /\ DOMAIN l = 1..Len(k)
  BY <1>2
<1>10. ASSUME NEW i \in There2(k) PROVE i \in There2(l) /\ i \in 1..Len(k) /\ ~IsHeld(k[i])
  BY <1>2, <1>3, <1>5, <1>7, <1>9 DEF AlikeQueries
<1>11. ASSUME NEW i \in There2(l) PROVE i \in There2(k)
  BY <1>2, <1>3, <1>6, <1>7, <1>9 DEF AlikeQueries
<1>12. There2(l) = There2(k)
  BY <1>10, <1>11
<1> HIDE DEF There2
<1>13. CASE There2(k) = {}
  BY <1>8, <1>12, <1>13 DEF k, l
<1>14. CASE There2(k) # {}
  <2>1. PICK i : i = CHOOSE j \in There2(k) : TRUE
    OBVIOUS
  <2>2. i \in There2(k)
    BY <1>14, <2>1
  <2>3. Locator(l, i, me) = Locator(k, i, me)
    BY <1>4, <1>10, <2>2
  <2> QED
    BY <1>8, <1>12, <1>14, <2>1, <2>3 DEF k, l
<1> QED
  BY <1>13, <1>14

RelatedBy(k, i, kind, places) ==
    [j \in DOMAIN places |-> RelatedTo(kind, Locator(k, i, me), FindLocator(k, places[j], me))]
Host(q) == [controller |-> q.controller, location |-> "mzone", sequence |-> q.sequence]
HeldUnder(k, i) ==
    [j \in DOMAIN k[i].card.materials |->
        RelatedTo(XyzMaterial, MaterialLocator(k[i], j), FindLocator(k, Host(k[i]), me))]

(* The relations of a kept card, by kind.                                   *)
LEMMA RelationsAre ==
    ASSUME NEW k, NEW i
    PROVE  RelationsOf(k, i, me) =
             IF k[i].zone = ExtraDeck THEN <<>>
             ELSE FlattenSeq(RelatedBy(k, i, Equip, k[i].card.equip))
                  \o FlattenSeq(RelatedBy(k, i, Target, k[i].card.targets))
                  \o FlattenSeq(HeldUnder(k, i))
  BY DEF RelationsOf, RelatedBy, HeldUnder, Host

(* A kept card has the same relations in fields that look the same.         *)
LEMMA RelationsAlike ==
    ASSUME NEW w, NEW v, AlikeFields(w, v), NEW i \in 1..Len(Kept(w, me))
    PROVE  RelationsOf(Kept(v, me), i, me) = RelationsOf(Kept(w, me), i, me)
<1> DEFINE k == Kept(w, me)
           l == Kept(v, me)
           q == k[i]
           r == l[i]
<1>1. Proper(w) /\ Proper(v)
  BY DEF AlikeFields
<1>2. i \in 1..Len(k) /\ i \in 1..Len(l)
  BY KeptAlike
<1>3. \A place : place.location = "mzone" => FindLocator(l, place, me) = FindLocator(k, place, me)
  BY FoundAlike
<1>4. CASE IsHeld(q)
  <2>1. IsHeld(r)
    BY <1>2, <1>4, KeptAlike
  <2>2. q.zone = Hand /\ q.card.materials = <<>> /\ q.card.equip = <<>> /\ q.card.targets = <<>>
    BY <1>1, <1>2, <1>4, HeldKept
  <2>3. r.zone = Hand /\ r.card.materials = <<>> /\ r.card.equip = <<>> /\ r.card.targets = <<>>
    BY <1>1, <1>2, <2>1, HeldKept
  <2> HIDE DEF k, l
  <2>4. DOMAIN <<>> = {}
    OBVIOUS
  <2>5. RelatedBy(l, i, Equip, r.card.equip) = RelatedBy(k, i, Equip, q.card.equip)
    BY <2>2, <2>3, <2>4 DEF RelatedBy
  <2>6. RelatedBy(l, i, Target, r.card.targets) = RelatedBy(k, i, Target, q.card.targets)
    BY <2>2, <2>3, <2>4 DEF RelatedBy
  <2>7. HeldUnder(l, i) = HeldUnder(k, i)
    BY <2>2, <2>3, <2>4 DEF HeldUnder
  <2> QED
    BY <2>2, <2>3, <2>5, <2>6, <2>7, RelationsAre DEF k, l
<1>5. CASE ~IsHeld(q)
  <2>1. /\ Locator(l, i, me) = Locator(k, i, me) /\ AlikeQueries(q, r) /\ q \in Queries
        /\ r \in Queries
    BY <1>5, LocatorAlike
  <2>2. /\ r.controller = q.controller /\ r.sequence = q.sequence /\ r.zone = q.zone
        /\ r.card.equip = q.card.equip /\ r.card.targets = q.card.targets
        /\ Owners(r.card.materials) = Owners(q.card.materials)
    BY <2>1 DEF AlikeQueries, SameCard
  <2>3. /\ q.card.equip \in Seq(Aimed) /\ q.card.targets \in Seq(Aimed)
        /\ q.card.materials \in Seq(PlainCards) /\ r.card.materials \in Seq(PlainCards)
    <3>1. q.card \in AnyCards /\ r.card \in AnyCards
      BY <2>1 DEF Queries
    <3> QED
      BY <3>1 DEF AnyCards
  <2> HIDE DEF k, l
  <2>4. ASSUME NEW places \in Seq(Aimed), NEW kind
        PROVE  RelatedBy(l, i, kind, places) = RelatedBy(k, i, kind, places)
    <3>1. ASSUME NEW j \in DOMAIN places
          PROVE  FindLocator(l, places[j], me) = FindLocator(k, places[j], me)
      <4>1. places[j] \in Aimed
        OBVIOUS
      <4>2. places[j].location = "mzone"
        BY <4>1 DEF Aimed
      <4> QED
        BY <1>3, <4>2
    <3> QED
      BY <2>1, <3>1 DEF RelatedBy
  <2>5. HeldUnder(l, i) = HeldUnder(k, i)
    <3>1. Host(r) = Host(q)
      BY <2>2 DEF Host
    <3>2. Host(q).location = "mzone"
      BY DEF Host
    <3>3. FindLocator(l, Host(r), me) = FindLocator(k, Host(q), me)
      BY <1>3, <3>1, <3>2
    <3>4. DOMAIN r.card.materials = DOMAIN q.card.materials
      BY <2>2, <2>3, OwnersAre
    <3>5. \A j : MaterialLocator(r, j) = MaterialLocator(q, j)
      BY <2>2 DEF MaterialLocator
    <3> QED
      BY <3>3, <3>4, <3>5 DEF HeldUnder
  <2>6. RelatedBy(l, i, Equip, r.card.equip) = RelatedBy(k, i, Equip, q.card.equip)
    BY <2>2, <2>3, <2>4
  <2>7. RelatedBy(l, i, Target, r.card.targets) = RelatedBy(k, i, Target, q.card.targets)
    BY <2>2, <2>3, <2>4
  <2> QED
    BY <2>2, <2>5, <2>6, <2>7, RelationsAre DEF k, l
<1> QED
  BY <1>4, <1>5

(* Fields that look the same have the same relationships.                   *)
LEMMA RelationshipsAlike ==
    ASSUME NEW w, NEW v, AlikeFields(w, v)
    PROVE  Relationships(Kept(v, me), me) = Relationships(Kept(w, me), me)
<1> DEFINE k == Kept(w, me)
           l == Kept(v, me)
<1>1. Proper(w) /\ Proper(v)
  BY DEF AlikeFields
<1>2. k \in Seq(Queries) /\ l \in Seq(Queries)
  BY <1>1, KeptIs
<1>3. Len(l) = Len(k)
  BY KeptAlike
<1>4. \A i \in 1..Len(k) : RelationsOf(l, i, me) = RelationsOf(k, i, me)
  BY RelationsAlike
<1> HIDE DEF k, l
<1>5. DOMAIN k = 1..Len(k) /\ DOMAIN l = 1..Len(k)
  BY <1>2, <1>3
<1>6. [i \in DOMAIN l |-> RelationsOf(l, i, me)] = [i \in DOMAIN k |-> RelationsOf(k, i, me)]
  BY <1>4, <1>5
<1> QED
  BY <1>6 DEF Relationships, k, l

----------------------------------------------------------------------------
(* The counts of the zones.                                                 *)

(* The counts of a zone on the field, and of the materials. *)
In(slots, location, zone) ==
    {s \in {s \in DOMAIN slots : slots[s] # <<>>} : ProjectZone(location, s) = zone}
UpIn(slots, location, zone) == {s \in In(slots, location, zone) : slots[s][1].up}
FieldCount(slots, p, location, zone) ==
    ZoneCount(p, zone, Cardinality(In(slots, location, zone)),
              IF p = me THEN Cardinality(In(slots, location, zone))
              ELSE Cardinality(UpIn(slots, location, zone)), TRUE)
MaterialsOn(monsters) ==
    UNION {{<<s, j>> : j \in DOMAIN monsters[s][1].materials}
           : s \in {s \in DOMAIN monsters : monsters[s] # <<>>}}
KnownOn(monsters, p) ==
    {x \in MaterialsOn(monsters) :
        MaterialVisible(Query(p, "mzone", x[1], monsters[x[1]][1]), x[2], me)}
ExtraUp(cards) == {i \in DOMAIN cards : cards[i].up}

ZonesWith(p, deck, hand, m, s, f, q, grave, banished, extra, up, materials, known) ==
    <<ZoneCount(p, MainDeck, deck, 0, FALSE),
      ZoneCount(p, Hand, hand, IF p = me THEN hand ELSE 0, p = me), m, s, f, q,
      ZoneCount(p, Graveyard, grave, grave, TRUE), ZoneCount(p, Banished, banished, banished, TRUE),
      ZoneCount(p, ExtraDeck, extra, IF p = me THEN extra ELSE up, FALSE),
      ZoneCount(p, Overlay, materials, known, FALSE)>>

(* The counts of the zones of a player, from the sizes of their parts.      *)
LEMMA ZonesAre ==
    ASSUME NEW w, NEW p
    PROVE  ZonesOf(w, p, me) =
             ZonesWith(p, Len(w.deck[p]), Len(w.hand[p]),
               FieldCount(w.monsters[p], p, "mzone", MonsterZone),
               FieldCount(w.spells[p], p, "szone", SpellTrapZone),
               FieldCount(w.spells[p], p, "szone", FieldZone),
               FieldCount(w.spells[p], p, "szone", PendulumRelevant),
               Len(w.grave[p]), Len(w.banished[p]), Len(w.extra[p]),
               Cardinality(ExtraUp(w.extra[p])), Cardinality(MaterialsOn(w.monsters[p])),
               Cardinality(KnownOn(w.monsters[p], p)))
  BY DEF ZonesOf, ZonesWith, FieldCount, In, UpIn, MaterialsOn, KnownOn, ExtraUp

(* Slots that look the same are counted the same.                           *)
LEMMA SlotsCount ==
    ASSUME NEW a, NEW b, DOMAIN b = DOMAIN a,
           \A s \in DOMAIN a : (b[s] = <<>> <=> a[s] = <<>>)
                               /\ (a[s] # <<>> => SameCard(a[s][1], b[s][1])),
           NEW p, NEW location, NEW zone
    PROVE  FieldCount(b, p, location, zone) = FieldCount(a, p, location, zone)
<1>1. In(b, location, zone) = In(a, location, zone)
  BY DEF In
<1>2. UpIn(b, location, zone) = UpIn(a, location, zone)
  BY <1>1 DEF UpIn, In, SameCard
<1> QED
  BY <1>1, <1>2 DEF FieldCount

(* Fields that look the same have the same counts.                          *)
LEMMA ZonesAlike ==
    ASSUME NEW w, NEW v, AlikeFields(w, v), NEW p \in Players
    PROVE  ZonesOf(v, p, me) = ZonesOf(w, p, me)
<1>1. Proper(w) /\ Proper(v) /\ SameField(w, v)
  BY DEF AlikeFields
<1>2. /\ w["monsters"][p] \in [MonsterSlots -> Seq(MonsterCards)]
      /\ v["monsters"][p] \in [MonsterSlots -> Seq(MonsterCards)]
      /\ w["spells"][p] \in [SpellSlots -> Seq(SpellCards)]
      /\ v["spells"][p] \in [SpellSlots -> Seq(SpellCards)]
  BY <1>1 DEF Proper, Fields
<1>3. \A s \in MonsterSlots :
          /\ v["monsters"][p][s] = <<>> <=> w["monsters"][p][s] = <<>>
          /\ w["monsters"][p][s] # <<>> => SameCard(w["monsters"][p][s][1], v["monsters"][p][s][1])
  <2>1. /\ Taken(v, "monsters", p) = Taken(w, "monsters", p)
        /\ \A s \in Taken(w, "monsters", p) :
              SameCard(CardAt(w, "monsters", p, s), CardAt(v, "monsters", p, s))
    BY SlotsAlike
  <2> QED
    BY <2>1 DEF Taken, CardAt, Slots
<1>4. \A s \in SpellSlots :
          /\ v["spells"][p][s] = <<>> <=> w["spells"][p][s] = <<>>
          /\ w["spells"][p][s] # <<>> => SameCard(w["spells"][p][s][1], v["spells"][p][s][1])
  <2>1. /\ Taken(v, "spells", p) = Taken(w, "spells", p)
        /\ \A s \in Taken(w, "spells", p) :
              SameCard(CardAt(w, "spells", p, s), CardAt(v, "spells", p, s))
    BY SlotsAlike
  <2> QED
    BY <2>1 DEF Taken, CardAt, Slots
<1>5. PICK a, b, c, d : a = w["monsters"][p] /\ b = v["monsters"][p]
                        /\ c = w["spells"][p] /\ d = v["spells"][p]
  OBVIOUS
<1>6. \A location, zone : FieldCount(b, p, location, zone) = FieldCount(a, p, location, zone)
  <2>1. /\ DOMAIN b = DOMAIN a
        /\ \A s \in DOMAIN a : (b[s] = <<>> <=> a[s] = <<>>)
                               /\ (a[s] # <<>> => SameCard(a[s][1], b[s][1]))
    BY <1>2, <1>3, <1>5
  <2> QED
    BY <2>1, SlotsCount
<1>7. \A location, zone : FieldCount(d, p, location, zone) = FieldCount(c, p, location, zone)
  <2>1. /\ DOMAIN d = DOMAIN c
        /\ \A s \in DOMAIN c : (d[s] = <<>> <=> c[s] = <<>>)
                               /\ (c[s] # <<>> => SameCard(c[s][1], d[s][1]))
    BY <1>2, <1>4, <1>5
  <2> QED
    BY <2>1, SlotsCount
<1>8. MaterialsOn(b) = MaterialsOn(a)
  <2>1. DOMAIN b = DOMAIN a /\ DOMAIN a = MonsterSlots
    BY <1>2, <1>5
  <2>2. ASSUME NEW s \in MonsterSlots, a[s] # <<>>
        PROVE  DOMAIN b[s][1].materials = DOMAIN a[s][1].materials
    <3>1. a[s] \in Seq(MonsterCards) /\ b[s] \in Seq(MonsterCards) /\ b[s] # <<>>
      BY <1>2, <1>3, <1>5, <2>2
    <3>2. a[s][1] \in MonsterCards /\ b[s][1] \in MonsterCards
      BY <2>2, <3>1
    <3>3. a[s][1].materials \in Seq(PlainCards) /\ b[s][1].materials \in Seq(PlainCards)
      BY <3>2 DEF MonsterCards, CardsWith
    <3>4. Owners(b[s][1].materials) = Owners(a[s][1].materials)
      BY <1>3, <1>5, <2>2 DEF SameCard
    <3> QED
      BY <3>3, <3>4, OwnersAre
  <2>3. {s \in DOMAIN b : b[s] # <<>>} = {s \in DOMAIN a : a[s] # <<>>}
    BY <1>3, <1>5, <2>1
  <2>4. ASSUME NEW x PROVE x \in MaterialsOn(b) <=> x \in MaterialsOn(a)
    BY <2>1, <2>2, <2>3 DEF MaterialsOn
  <2> QED
    BY <2>4
<1>13. KnownOn(b, p) = KnownOn(a, p)
  <2>1. ASSUME NEW x \in MaterialsOn(a)
        PROVE  MaterialVisible(Query(p, "mzone", x[1], b[x[1]][1]), x[2], me)
                 <=> MaterialVisible(Query(p, "mzone", x[1], a[x[1]][1]), x[2], me)
    <3>1. x[1] \in MonsterSlots /\ a[x[1]] # <<>>
      BY <1>2, <1>5 DEF MaterialsOn
    <3>2. SameCard(a[x[1]][1], b[x[1]][1])
      BY <1>3, <1>5, <3>1
    <3> QED
      BY <3>2 DEF SameCard, MaterialVisible, MaterialQuery, IdentityVisible, Query
  <2> QED
    BY <1>8, <2>1 DEF KnownOn
<1>9. /\ Len(v.deck[p]) = Len(w.deck[p]) /\ Len(v.hand[p]) = Len(w.hand[p])
      /\ SameCards(w.grave[p], v.grave[p]) /\ SameCards(w.banished[p], v.banished[p])
      /\ SameCards(w.extra[p], v.extra[p])
  BY <1>1 DEF SameField, Players, me
<1>10. Len(v.grave[p]) = Len(w.grave[p]) /\ Len(v.banished[p]) = Len(w.banished[p])
       /\ Len(v.extra[p]) = Len(w.extra[p])
  BY <1>9 DEF SameCards
<1>11. ExtraUp(v.extra[p]) = ExtraUp(w.extra[p])
  <2>1. w.extra[p] \in Seq(PlainCards) /\ v.extra[p] \in Seq(PlainCards)
    BY <1>1 DEF Proper, Fields
  <2>2. DOMAIN v.extra[p] = DOMAIN w.extra[p]
    BY <1>10, <2>1
  <2>3. \A i \in DOMAIN w.extra[p] : v.extra[p][i].up = w.extra[p][i].up
    BY <1>9 DEF SameCards, SameCard
  <2> QED
    BY <2>2, <2>3 DEF ExtraUp
<1>12. w["monsters"] = w.monsters /\ v["monsters"] = v.monsters
       /\ w["spells"] = w.spells /\ v["spells"] = v.spells
  OBVIOUS
<1> QED
  BY <1>5, <1>6, <1>7, <1>8, <1>9, <1>10, <1>11, <1>12, <1>13, ZonesAre

----------------------------------------------------------------------------
(* The links of the chain.                                                  *)

(* A set of numbers has its least element.                                  *)
LEMMA MinIs ==
    ASSUME NEW S \in SUBSET Nat, S # {}
    PROVE  Min(S) \in S /\ \A x \in S : Min(S) <= x
  BY Least DEF Min

(* Entities at the same number are the same, or both cards of the           *)
(* opponent's hand.                                                         *)
InHand2(e) == e.zone = Hand /\ e.sequence = <<>> /\ e.controller = <<1>> /\ e.known
EntityPair(e, f) == f = e \/ (InHand2(e) /\ InHand2(f))

(* At each place fields that look the same have entities of the same        *)
(* player, zone and place, and of the same identity where it is known.      *)
LEMMA EntityPairs ==
    ASSUME NEW w, NEW v, AlikeFields(w, v)
    PROVE  LET E == Entities(Kept(w, me), me)
               F == Entities(Kept(v, me), me)
           IN  /\ DOMAIN E = 1..Len(E) /\ DOMAIN F = DOMAIN E /\ DOMAIN E \in SUBSET Nat
               /\ \A j \in DOMAIN E : EntityPair(E[j], F[j])
<1> DEFINE k == Kept(w, me)
           l == Kept(v, me)
           E == Entities(k, me)
           F == Entities(l, me)
<1>1. Proper(w) /\ Proper(v)
  BY DEF AlikeFields
<1>2. /\ Len(F) = Len(E) /\ Len(E) \in Nat /\ DOMAIN E = 1..Len(E) /\ DOMAIN F = 1..Len(E)
      /\ \E b : EntityThreads(b, k, E) /\ EntityThreads(b, l, F)
      /\ Holders(l) = Holders(k)
      /\ \A x \in Holders(k) :
            \/ x[2] = 0 /\ IsHeld(k[x[1]]) /\ IsHeld(l[x[1]])
            \/ ~IsHeld(k[x[1]]) /\ EntityAt(l, x[1], x[2]) = EntityAt(k, x[1], x[2])
  BY EntitiesAlike
<1>3. \A i \in 1..Len(k) : IsHeld(k[i]) => InHand2(Entity(k, i, me))
  <2> TAKE i \in 1..Len(k)
  <2> SUFFICES ASSUME IsHeld(k[i]) PROVE InHand2(Entity(k, i, me))
    OBVIOUS
  <2>1. PICK c, o : Entity(k, i, me) = Revealed(c, o)
    BY <1>1, HeldEntity
  <2> QED
    BY <2>1 DEF InHand2, Revealed
<1>4. \A i \in 1..Len(l) : IsHeld(l[i]) => InHand2(Entity(l, i, me))
  <2> TAKE i \in 1..Len(l)
  <2> SUFFICES ASSUME IsHeld(l[i]) PROVE InHand2(Entity(l, i, me))
    OBVIOUS
  <2>1. PICK c, o : Entity(l, i, me) = Revealed(c, o)
    BY <1>1, HeldEntity
  <2> QED
    BY <2>1 DEF InHand2, Revealed
<1>5. Len(l) = Len(k)
  BY KeptAlike
<1> HIDE DEF k, l, E, F
<1>6. PICK b : EntityThreads(b, k, E) /\ EntityThreads(b, l, F)
  BY <1>2
<1>7. ASSUME NEW j \in 1..Len(E) PROVE EntityPair(E[j], F[j])
  <2>1. PICK x \in Holders(k) : b[x] = j
    BY <1>6 DEF EntityThreads
  <2>2. x[1] \in 1..Len(k)
    BY DEF Holders
  <2>3. E[j] = EntityAt(k, x[1], x[2]) /\ F[j] = EntityAt(l, x[1], x[2])
    BY <1>2, <1>6, <2>1 DEF EntityThreads
  <2>4. CASE x[2] = 0 /\ IsHeld(k[x[1]]) /\ IsHeld(l[x[1]])
    <3>1. E[j] = Entity(k, x[1], me) /\ F[j] = Entity(l, x[1], me)
      BY <2>3, <2>4 DEF EntityAt
    <3> QED
      BY <1>3, <1>4, <1>5, <2>2, <2>4, <3>1 DEF EntityPair
  <2>5. CASE EntityAt(l, x[1], x[2]) = EntityAt(k, x[1], x[2])
    BY <2>3, <2>5 DEF EntityPair
  <2> QED
    BY <1>2, <2>4, <2>5
<1>8. DOMAIN E \in SUBSET Nat
  BY <1>2
<1> QED
  BY <1>2, <1>7, <1>8 DEF k, l, E, F

(* The entities of a place on the field. *)
AtPlace(E, place) ==
    {j \in DOMAIN E : /\ E[j].controller = <<place.controller>> /\ E[j].zone = ZoneAt(place)
                      /\ E[j].sequence = <<place.sequence>>}

LinkWith(raw, i, there, source, S) ==
    LET known == there # {} /\ source.known
        aimed == Selected(S, {j \in DOMAIN S : S[j].kind = Target /\ S[j].source = source.locator})
    IN  [index |-> i - 1, player |-> <<raw.player>>, zone |-> <<ZoneAt(raw.source)>>,
         source |-> IF known THEN <<source.locator>> ELSE <<>>,
         description |-> Given(known, raw.description),
         targets |-> IF known THEN [j \in DOMAIN aimed |-> aimed[j].target] ELSE <<>>]

(* A link, by the first entity at the place of its source.                  *)
LEMMA LinkIs ==
    ASSUME NEW w, NEW i, NEW E, NEW S
    PROVE  LET there == AtPlace(E, w.chain[i].source)
           IN  Link(w, i, E, S) = LinkWith(w.chain[i], i, there, E[Min(there)], S)
  BY DEF Link, LinkWith, AtPlace

(* A link of the chain is the same in fields that look the same.            *)
LEMMA LinkAlike ==
    ASSUME NEW w, NEW v, AlikeFields(w, v), NEW i \in DOMAIN w.chain
    PROVE  LET E == Entities(Kept(w, me), me)
               F == Entities(Kept(v, me), me)
           IN  Link(v, i, F, Relationships(Kept(v, me), me)) = Link(w, i, E, Relationships(Kept(w, me), me))
<1> DEFINE E == Entities(Kept(w, me), me)
           F == Entities(Kept(v, me), me)
           S == Relationships(Kept(w, me), me)
           raw == w.chain[i]
<1>1. /\ DOMAIN F = DOMAIN E /\ DOMAIN E \in SUBSET Nat
      /\ \A j \in DOMAIN E : EntityPair(E[j], F[j])
  BY EntityPairs
<1>2. Relationships(Kept(v, me), me) = S
  BY RelationshipsAlike
<1>3. v.chain = w.chain
  BY DEF AlikeFields, SameField
<1>4. raw \in Links
  BY DEF AlikeFields, Proper, Fields
<1>5. raw.source.location = "szone"
  BY <1>4 DEF Links
<1>6. ZoneAt(raw.source) # Hand
  BY <1>5 DEF ZoneAt, ProjectZone, Hand, FieldZone, PendulumRelevant, SpellTrapZone
<1> HIDE DEF E, F, S, raw
<1>7. \A j \in DOMAIN E : j \in AtPlace(E, raw.source) => F[j] = E[j] /\ j \in AtPlace(F, raw.source)
  BY <1>1, <1>6 DEF AtPlace, EntityPair, InHand2
<1>8. \A j \in DOMAIN E : j \in AtPlace(F, raw.source) => F[j] = E[j] /\ j \in AtPlace(E, raw.source)
  BY <1>1, <1>6 DEF AtPlace, EntityPair, InHand2
<1>9. AtPlace(F, raw.source) = AtPlace(E, raw.source)
  BY <1>1, <1>7, <1>8 DEF AtPlace
<1>10. AtPlace(E, raw.source) # {} =>
          F[Min(AtPlace(E, raw.source))] = E[Min(AtPlace(E, raw.source))]
  <2>1. AtPlace(E, raw.source) \in SUBSET Nat /\ AtPlace(E, raw.source) \in SUBSET DOMAIN E
    BY <1>1 DEF AtPlace
  <2> QED
    BY <1>7, <2>1, MinIs
<1>11. \A there, e, f : there = {} => LinkWith(raw, i, there, e, S) = LinkWith(raw, i, there, f, S)
  BY DEF LinkWith, Given
<1>12. Link(v, i, F, S) = Link(w, i, E, S)
  <2>1. CASE AtPlace(E, raw.source) = {}
    BY <1>3, <1>9, <1>11, <2>1, LinkIs DEF raw
  <2>2. CASE AtPlace(E, raw.source) # {}
    BY <1>3, <1>9, <1>10, <2>2, LinkIs DEF raw
  <2> QED
    BY <2>1, <2>2
<1> QED
  BY <1>2, <1>12 DEF E, F, S

----------------------------------------------------------------------------
(* The references of a decision.                                            *)

(* A zone is of one location. *)
LEMMA ZoneIsOf ==
    ASSUME NEW a \in Places, NEW b \in Places, NEW s, NEW t, ProjectZone(a, s) = ProjectZone(b, t)
    PROVE  a = b
  BY DEF ProjectZone, Places, Hand, MonsterZone, SpellTrapZone, Graveyard, Banished, ExtraDeck,
         FieldZone, PendulumRelevant

(* The queried cards are those of the places taken.                         *)
LEMMA CardsAre ==
    ASSUME NEW w, Proper(w), NEW q
    PROVE  q \in Cards(w) <=>
              \E p \in Players : \E location \in Places : \E s \in There(w, p, location) :
                 q = QueryAt(w, p, location, s)
<1>1. \A n \in 1..12 : /\ Queried(w)[n] = At(w, Who(n), Where(n)) /\ DOMAIN Queried(w) = 1..12
                       /\ Who(n) \in Players /\ Where(n) \in Places
  BY QueriedIs, WhereIs
<1>2. DOMAIN Queried(w) = 1..12
  BY DEF Queried
<1>3. ASSUME q \in Cards(w)
      PROVE  \E p \in Players : \E location \in Places : \E s \in There(w, p, location) :
                q = QueryAt(w, p, location, s)
  <2>1. PICK n \in 1..12 : q \in ToSet(Queried(w)[n])
    BY <1>2, <1>3 DEF Cards
  <2>2. PICK p \in Players, location \in Places : p = Who(n) /\ location = Where(n)
    BY <1>1
  <2>3. q \in ToSet(At(w, p, location))
    BY <1>1, <2>1, <2>2
  <2> DEFINE L == At(w, p, location)
  <2>4. /\ L \in Seq(Queries)
        /\ \A i \in 1..Len(L) :
              /\ L[i].sequence \in There(w, p, location)
              /\ L[i] = Query(p, location, L[i].sequence, CardOf(w, p, location, L[i].sequence))
    BY AtIs
  <2>5. q \in ToSet(L)
    BY <2>3
  <2> HIDE DEF L
  <2>6. PICK i \in 1..Len(L) : q = L[i]
    BY <2>4, <2>5 DEF ToSet
  <2> QED
    BY <2>4, <2>6 DEF QueryAt
<1>4. ASSUME NEW p \in Players, NEW location \in Places, NEW s \in There(w, p, location),
             q = QueryAt(w, p, location, s)
      PROVE  q \in Cards(w)
  <2>1. PICK n \in 1..12 : Who(n) = p /\ Where(n) = location
    BY WhereIs
  <2> DEFINE L == At(w, p, location)
  <2>2. /\ L \in Seq(Queries)
        /\ \A i \in 1..Len(L) :
              /\ L[i].sequence \in There(w, p, location)
              /\ L[i] = Query(p, location, L[i].sequence, CardOf(w, p, location, L[i].sequence))
        /\ \A t \in There(w, p, location) : \E i \in 1..Len(L) : L[i].sequence = t
    BY AtIs
  <2>3. Queried(w)[n] = L
    BY <1>1, <2>1
  <2> HIDE DEF L
  <2>4. PICK i \in 1..Len(L) : L[i].sequence = s
    BY <2>2
  <2>5. L[i] = q
    BY <1>4, <2>2, <2>4 DEF QueryAt
  <2>6. q \in ToSet(L)
    BY <2>2, <2>5 DEF ToSet
  <2> QED
    BY <1>2, <2>3, <2>6 DEF Cards
<1> QED
  BY <1>3, <1>4

(* What an entity tells of the card it is of. *)
LEMMA EntityTells ==
    ASSUME NEW k, NEW i
    PROVE  /\ Entity(k, i, me).controller = <<k[i].controller>> /\ Entity(k, i, me).zone = k[i].zone
           /\ Entity(k, i, me).sequence = Given(SequenceVisible(k[i], me), k[i].sequence)
           /\ Entity(k, i, me).known = IdentityVisible(k[i], me)
           /\ Entity(k, i, me).code = Given(IdentityVisible(k[i], me), k[i].card.code)
           /\ Entity(k, i, me).locator = Locator(k, i, me)
  BY DEF Entity

(* What an entity tells of its material.                                    *)
LEMMA MaterialTells ==
    ASSUME NEW q, NEW m
    PROVE  /\ Material(q, m, me).zone = Overlay
           /\ Material(q, m, me).locator = MaterialLocator(q, m)
           /\ Material(q, m, me).controller = <<q.controller>>
           /\ Material(q, m, me).sequence = <<q.sequence>>
           /\ Material(q, m, me).overlay = <<m - 1>>
           /\ Material(q, m, me).known = MaterialVisible(q, m, me)
  BY DEF Material

(* The entities that a card can be, its code aside. *)
Fitting(E, c) ==
    {j \in DOMAIN E : /\ E[j].controller = <<c.controller>>
                      /\ E[j].zone = ProjectZone(c.location, c.sequence)
                      /\ E[j].sequence \in {<<>>, <<c.sequence>>}}
Fits(E, c) ==
    {j \in Fitting(E, c) : c.code # 0 /\ E[j].known => E[j].code = <<c.code>>}
Candidate(q) ==
    [code |-> q.card.code, controller |-> q.controller, location |-> q.location,
     sequence |-> q.sequence]
Asks(q) ==
    \/ q.location \in {"mzone", "szone"}
    \/ q.location = "hand" /\ (q.controller = me \/ q.card.shown)

(* A card resolves to the first entity that fits it.                        *)
LEMMA ResolveIs ==
    ASSUME NEW E, NEW c
    PROVE  ResolveCard(E, c) = IF Fits(E, c) = {} THEN <<>> ELSE <<E[Min(Fits(E, c))].locator>>
<1>1. Fits(E, c) = {i \in DOMAIN E :
                    /\ E[i].controller = <<c.controller>>
                    /\ E[i].zone = ProjectZone(c.location, c.sequence)
                    /\ E[i].sequence \in {<<>>, <<c.sequence>>}
                    /\ c.code # 0 /\ E[i].known => E[i].code = <<c.code>>}
  BY DEF Fits, Fitting
<1> QED
  BY <1>1 DEF ResolveCard

(* The candidates of the decision, from the cards it asks for.              *)
LEMMA CandidatesAre ==
    ASSUME NEW w
    PROVE  Candidates(w) = {Candidate(q) : q \in {q \in Cards(w) : Asks(q)}}
  BY DEF Candidates, Candidate, Asks

(* Entities of one field, each of a kept card or of one of its materials.   *)
LEMMA EntitiesOf ==
    ASSUME NEW w, Proper(w)
    PROVE  LET k == Kept(w, me)
               E == Entities(k, me)
           IN  /\ k \in Seq(Queries) /\ E \in Seq(AllOf(k)) /\ Len(E) \in Nat
               /\ DOMAIN E = 1..Len(E) /\ DOMAIN E \in SUBSET Nat
               /\ \E b : EntityThreads(b, k, E)
<1> DEFINE k == Kept(w, me)
           E == Entities(k, me)
<1>1. k \in Seq(Queries)
  BY KeptIs
<1> HIDE DEF k
<1>2. E \in Seq(AllOf(k) \cup AllOf(k)) /\ \E b : EntityThreads(b, k, E)
  BY <1>1, EntitiesThread
<1> HIDE DEF E
<1>3. E \in Seq(AllOf(k)) /\ Len(E) \in Nat /\ DOMAIN E = 1..Len(E)
  BY <1>2
<1>4. DOMAIN E \in SUBSET Nat
  BY <1>3
<1> QED
  BY <1>1, <1>2, <1>3, <1>4 DEF k, E

(* Where a card shows its place, what fits is the card. *)
LEMMA PlacedFits ==
    ASSUME NEW w, Proper(w), NEW p \in Players, NEW location \in {"mzone", "szone", "hand"},
           NEW s \in There(w, p, location), location = "hand" => p = me
    PROVE  LET E == Entities(Kept(w, me), me)
               c == Candidate(QueryAt(w, p, location, s))
           IN  Fits(E, c) = Fitting(E, c)
<1> DEFINE k == Kept(w, me)
           E == Entities(k, me)
           q == QueryAt(w, p, location, s)
           c == Candidate(q)
<1>1. /\ k \in Seq(Queries) /\ DOMAIN E = 1..Len(E) /\ \E b : EntityThreads(b, k, E)
  BY EntitiesOf
<1>2. \A i \in 1..Len(k) :
         /\ k[i].sequence \in There(w, k[i].controller, k[i].location)
         /\ k[i] = QueryAt(w, k[i].controller, k[i].location, k[i].sequence)
  BY KeptIs
<1>3. location \in Places
  BY DEF Places
<1>4. /\ q \in Queries /\ q.controller = p /\ q.location = location /\ q.sequence = s
      /\ q.zone = ProjectZone(location, s)
  BY <1>3, QueryAtIs
<1>5. /\ c.code = q.card.code /\ c.controller = p /\ c.location = location /\ c.sequence = s
  BY <1>4 DEF Candidate
<1>6. ASSUME NEW i \in There(w, me, "hand") PROVE QueryAt(w, me, "hand", i).card.owner = me
  <2>1. me \in Players /\ "hand" \in Places
    BY DEF me, Players, Places
  <2>2. QueryAt(w, me, "hand", i).card = CardOf(w, me, "hand", i)
    BY <2>1, QueryAtIs
  <2>3. CardOf(w, me, "hand", i) = w.hand[me][i + 1]
    BY DEF CardOf, Listed
  <2>4. w.hand[me] \in Seq(HeldCards)
    BY <2>1 DEF Proper, Fields
  <2>5. There(w, me, "hand") = {j - 1 : j \in 1..Len(w.hand[me])}
    BY DEF There, Listed
  <2>6. i + 1 \in DOMAIN w.hand[me]
    BY <2>4, <2>5
  <2> QED
    BY <2>1, <2>2, <2>3, <2>6 DEF Proper
<1> HIDE DEF k, E, q, c
<1>7. PICK b : EntityThreads(b, k, E)
  BY <1>1
<1>8. ASSUME NEW j \in Fitting(E, c) PROVE j \in Fits(E, c)
  <2>1. /\ j \in 1..Len(E) /\ E[j].controller = <<p>> /\ E[j].zone = q.zone
        /\ E[j].sequence \in {<<>>, <<s>>}
    BY <1>1, <1>4, <1>5 DEF Fitting
  <2>2. PICK x \in Holders(k) : b[x] = j
    BY <1>7, <2>1 DEF EntityThreads
  <2>3. PICK i, m : i \in 1..Len(k) /\ x[1] = i /\ x[2] = m
    BY DEF Holders
  <2>4. E[j] = EntityAt(k, i, m)
    BY <1>7, <2>2, <2>3 DEF EntityThreads
  <2>5. k[i] \in Queries
    BY <1>1, <2>3
  <2>6. q.zone # Overlay
    BY <1>4 DEF Queries, Overlay
  <2>7. m = 0 /\ E[j] = Entity(k, i, me)
    <3>1. CASE m # 0
      <4>1. E[j] = Material(k[i], m, me)
        BY <2>4, <3>1 DEF EntityAt
      <4>2. Material(k[i], m, me).zone = Overlay
        BY MaterialTells
      <4> QED
        BY <2>1, <2>6, <4>1, <4>2
    <3> QED
      BY <2>4, <3>1 DEF EntityAt
  <2>8. /\ E[j].controller = <<k[i].controller>> /\ E[j].zone = k[i].zone
        /\ E[j].sequence = Given(SequenceVisible(k[i], me), k[i].sequence)
        /\ E[j].known = IdentityVisible(k[i], me)
        /\ E[j].code = Given(IdentityVisible(k[i], me), k[i].card.code)
    BY <2>7, EntityTells
  <2>9. k[i].controller = p /\ k[i].zone = q.zone
    BY <2>1, <2>8
  <2>10. k[i].location \in Places /\ k[i].controller \in Players
    BY <2>5 DEF Queries
  <2>11. k[i].zone = ProjectZone(k[i].location, k[i].sequence)
    <3>1. PICK a, l, t : a = k[i].controller /\ l = k[i].location /\ t = k[i].sequence
      OBVIOUS
    <3>2. a \in Players /\ l \in Places /\ t \in There(w, a, l) /\ k[i] = QueryAt(w, a, l, t)
      BY <1>2, <2>3, <2>10, <3>1
    <3>3. QueryAt(w, a, l, t).zone = ProjectZone(l, t)
      BY <3>2, QueryAtIs
    <3> QED
      BY <3>1, <3>2, <3>3
  <2>12. k[i].location = location
    <3>1. ProjectZone(k[i].location, k[i].sequence) = ProjectZone(location, s)
      BY ONLY <1>4, <2>9, <2>11
    <3> QED
      BY ONLY <1>3, <2>10, <3>1, ZoneIsOf
  <2>13. SequenceVisible(k[i], me)
    <3>1. CASE location = "hand"
      <4>1. p = me
        BY <3>1
      <4>2. k[i] = QueryAt(w, me, "hand", k[i].sequence) /\ k[i].sequence \in There(w, me, "hand")
        BY <1>2, <2>3, <2>9, <2>12, <3>1, <4>1
      <4>3. k[i].card.owner = me
        BY <1>6, <4>2
      <4>4. k[i].zone = Hand
        BY <2>11, <2>12, <3>1 DEF ProjectZone
      <4> QED
        BY <4>3, <4>4 DEF SequenceVisible
    <3>2. CASE location = "mzone"
      <4>1. k[i].zone = MonsterZone
        BY <2>11, <2>12, <3>2 DEF ProjectZone
      <4> QED
        BY <4>1 DEF SequenceVisible
    <3>3. CASE location = "szone"
      <4>1. k[i].zone \in {FieldZone, PendulumRelevant, SpellTrapZone}
        BY <2>11, <2>12, <3>3 DEF ProjectZone
      <4> QED
        BY <4>1 DEF SequenceVisible
    <3> QED
      BY <3>1, <3>2, <3>3
  <2>14. E[j].sequence = <<k[i].sequence>>
    BY <2>8, <2>13 DEF Given
  <2>15. k[i].sequence = s
    BY <2>1, <2>14
  <2>16. k[i] = q
    BY <1>2, <2>3, <2>9, <2>12, <2>15 DEF q
  <2>17. E[j].known => E[j].code = <<c.code>>
    BY <1>5, <2>8, <2>16 DEF Given
  <2> QED
    BY <2>17 DEF Fits
<1>9. Fits(E, c) \subseteq Fitting(E, c)
  BY DEF Fits
<1> QED
  BY <1>8, <1>9 DEF k, E, q, c

(* A card of the opponent's hand goes by its code. *)
LEMMA HeldFits ==
    ASSUME NEW w, Proper(w), NEW c, c.controller = 1, c.location = "hand", c.code \in Codes,
           HeldWith(Kept(w, me), c.code) # {}
    PROVE  ResolveCard(Entities(Kept(w, me), me), c) = <<Word(<<1, Hand, 1, c.code, 0>>)>>
<1> DEFINE k == Kept(w, me)
           E == Entities(k, me)
           H == HeldWith(k, c.code)
<1>1. /\ k \in Seq(Queries) /\ DOMAIN E = 1..Len(E) /\ DOMAIN E \in SUBSET Nat
      /\ \E b : EntityThreads(b, k, E) /\ Len(E) \in Nat
  BY EntitiesOf
<1>2. \A i \in 1..Len(k) :
         /\ k[i].sequence \in There(w, k[i].controller, k[i].location)
         /\ k[i] = QueryAt(w, k[i].controller, k[i].location, k[i].sequence)
  BY KeptIs
<1>3. \A i \in 1..Len(k) : IsHeld(k[i]) =>
          /\ Entity(k, i, me) = Revealed(k[i].card.code, Rank(HeldWith(k, k[i].card.code), i))
          /\ i \in HeldWith(k, k[i].card.code)
  BY HeldEntity
<1>4. H \in SUBSET Nat /\ IsFiniteSet(H) /\ Cardinality(H) \in Nat
  BY HeldCount
<1>5. H # {}
  OBVIOUS
<1> HIDE DEF k, E, H
<1>6. PICK b : EntityThreads(b, k, E)
  BY <1>1
<1>7. Cardinality(H) # 0
  BY <1>4, <1>5, FS_EmptySet
<1>8. 0 \in 0..(Cardinality(H) - 1)
  BY <1>4, <1>7
<1>9. PICK h \in H : Rank(H, h) = 0
  BY <1>4, <1>8, RankIsOnto
<1>10. h \in 1..Len(k) /\ IsHeld(k[h]) /\ k[h].card.code = c.code
  BY DEF H, HeldWith
<1>11. Entity(k, h, me) = Revealed(c.code, 0)
  BY <1>3, <1>9, <1>10 DEF H
<1>12. \A i \in 1..Len(k) : i \in Nat /\ <<i, 0>> \in Holders(k)
  <2> TAKE i \in 1..Len(k)
  <2>1. k[i] \in Queries
    BY <1>1
  <2>2. Len(Materials(k[i])) \in Nat
    BY <2>1, MaterialsAre
  <2>3. i \in Nat /\ 0 \in 0..Len(Materials(k[i]))
    BY <1>1, <2>2
  <2> QED
    BY <2>3 DEF Holders
<1>13. b[<<h, 0>>] \in DOMAIN E /\ E[b[<<h, 0>>]] = Revealed(c.code, 0)
  BY <1>1, <1>6, <1>10, <1>11, <1>12 DEF EntityThreads, EntityAt
<1>14. ProjectZone(c.location, c.sequence) = Hand
  BY DEF ProjectZone
<1>15. \A o : /\ Revealed(c.code, o).controller = <<1>> /\ Revealed(c.code, o).zone = Hand
              /\ Revealed(c.code, o).sequence = <<>> /\ Revealed(c.code, o).code = <<c.code>>
              /\ Revealed(c.code, o).locator = Word(<<1, Hand, 1, c.code, o>>)
  BY DEF Revealed
<1>16. b[<<h, 0>>] \in Fits(E, c)
  BY <1>13, <1>14, <1>15 DEF Fits, Fitting
<1>17. Fits(E, c) \in SUBSET Nat
  BY <1>1 DEF Fits, Fitting
<1>18. PICK j : j = Min(Fits(E, c))
  OBVIOUS
<1>19. j \in Fits(E, c) /\ j <= b[<<h, 0>>]
  BY <1>16, <1>17, <1>18, MinIs
<1>20. /\ j \in 1..Len(E) /\ E[j].controller = <<1>> /\ E[j].zone = Hand
       /\ (E[j].known => E[j].code = <<c.code>>)
  BY <1>1, <1>14, <1>19 DEF Fits, Fitting, Codes
<1>21. PICK x \in Holders(k) : b[x] = j
  BY <1>6, <1>20 DEF EntityThreads
<1>22. PICK i \in 1..Len(k), m \in Nat : x = <<i, m>>
  BY DEF Holders
<1>23. E[j] = EntityAt(k, i, m)
  BY <1>6, <1>21, <1>22 DEF EntityThreads
<1>24. m = 0 /\ E[j] = Entity(k, i, me)
  <2>1. CASE m # 0
    <3>1. E[j] = Material(k[i], m, me)
      BY <1>23, <2>1 DEF EntityAt
    <3>2. Material(k[i], m, me).zone = Overlay
      BY MaterialTells
    <3> QED
      BY <1>20, <3>1, <3>2 DEF Hand, Overlay
  <2> QED
    BY <1>23, <2>1 DEF EntityAt
<1>25. IsHeld(k[i])
  <2>1. E[j].controller = <<k[i].controller>> /\ E[j].zone = k[i].zone
    BY <1>24, EntityTells
  <2>2. k[i].controller = 1 /\ k[i].zone = Hand
    BY <1>20, <2>1
  <2>3. k[i] \in Queries
    BY <1>1
  <2>4. k[i].location \in Places /\ k[i].controller \in Players
    BY <2>3 DEF Queries
  <2>5. k[i].zone = ProjectZone(k[i].location, k[i].sequence)
    BY <1>2, <2>4, QueryAtIs
  <2>6. k[i].location = "hand"
    <3>1. ProjectZone("hand", 0) = Hand /\ "hand" \in Places
      BY DEF ProjectZone, Places
    <3> QED
      BY <2>2, <2>4, <2>5, <3>1, ZoneIsOf
  <2> QED
    BY <2>2, <2>6 DEF IsHeld
<1>26. k[i].card.code = c.code /\ i \in H /\ E[j] = Revealed(c.code, Rank(H, i))
  <2>1. PICK d : d = k[i].card.code
    OBVIOUS
  <2>2. PICK o : E[j] = Revealed(d, o)
    BY <1>3, <1>24, <1>25, <2>1
  <2>3. E[j].known /\ E[j].code = <<d>>
    BY <2>2 DEF Revealed
  <2>4. d = c.code
    BY <1>20, <2>3
  <2> QED
    BY <1>3, <1>24, <1>25, <2>1, <2>4 DEF H
<1>27. Rank(H, i) = 0
  <2>1. CASE h < i
    <3>1. Lex(<<h, 0>>, <<i, 0>>)
      BY <2>1 DEF Lex
    <3>2. b[<<h, 0>>] < b[<<i, 0>>]
      BY <1>6, <1>10, <1>12, <3>1 DEF EntityThreads
    <3>3. b[<<i, 0>>] = j /\ j \in Nat /\ b[<<h, 0>>] \in Nat
      BY <1>1, <1>13, <1>20, <1>21, <1>22, <1>24
    <3> QED
      BY <1>19, <3>2, <3>3
  <2>2. CASE i < h
    <3>1. Rank(H, i) < Rank(H, h) /\ Rank(H, i) \in 0..(Cardinality(H) - 1)
      BY <1>4, <1>26, <2>2, RankGrows
    <3> QED
      BY <1>4, <1>9, <3>1
  <2>3. CASE i = h
    BY <1>9, <2>3
  <2> QED
    BY <1>10, <1>12, <2>1, <2>2, <2>3
<1>28. E[j].locator = Word(<<1, Hand, 1, c.code, 0>>)
  BY <1>15, <1>26, <1>27
<1> QED
  BY <1>16, <1>18, <1>28, ResolveIs DEF k, E

References(w) ==
    UNION {ToSet(ResolveCard(Entities(Kept(w, me), me), c)) : c \in Candidates(w)}

(* What a kept card of the opponent's hand refers to. *)
LEMMA HeldRefers ==
    ASSUME NEW w, Proper(w), NEW s \in There(w, 1, "hand"), Asks(QueryAt(w, 1, "hand", s))
    PROVE  LET c == QueryAt(w, 1, "hand", s).card.code
           IN  /\ c \in Codes /\ HeldWith(Kept(w, me), c) # {}
               /\ ResolveCard(Entities(Kept(w, me), me), Candidate(QueryAt(w, 1, "hand", s)))
                    = <<Word(<<1, Hand, 1, c, 0>>)>>
<1> DEFINE k == Kept(w, me)
           q == QueryAt(w, 1, "hand", s)
<1>1. 1 \in Players /\ "hand" \in Places
  BY DEF Players, Places
<1>2. /\ q.controller = 1 /\ q.location = "hand" /\ q.sequence = s
  BY <1>1, QueryAtIs
<1>3. q.card.shown
  BY <1>2 DEF Asks, me
<1>4. w.hand[1] \in Seq(HeldCards)
  BY <1>1 DEF Proper, Fields
<1>5. There(w, 1, "hand") = {j - 1 : j \in 1..Len(w.hand[1])}
  BY DEF There, Listed
<1>6. PICK i \in 1..Len(w.hand[1]) : s = i - 1
  BY <1>5
<1>7. Keep(q, me) /\ q.card.code \in Codes
  BY <1>3, <1>6, HeldIs
<1>8. PICK h \in 1..Len(k) : k[h] = q
  BY <1>1, <1>7, KeptIs
<1>9. h \in HeldWith(k, q.card.code)
  BY <1>2, <1>8 DEF HeldWith, IsHeld
<1>10. /\ Candidate(q).controller = 1 /\ Candidate(q).location = "hand"
       /\ Candidate(q).code = q.card.code
  BY <1>2 DEF Candidate
<1> HIDE DEF q
<1>11. HeldWith(Kept(w, me), q.card.code) # {}
  BY <1>9
<1>12. ResolveCard(Entities(Kept(w, me), me), Candidate(q)) = <<Word(<<1, Hand, 1, q.card.code, 0>>)>>
  BY <1>7, <1>10, <1>11, HeldFits
<1> QED
  BY <1>7, <1>11, <1>12 DEF q

(* Another candidate refers to the same. *)
LEMMA PlacedRefers ==
    ASSUME NEW w, NEW v, AlikeFields(w, v), NEW p \in Players,
           NEW location \in {"mzone", "szone", "hand"}, NEW s, location = "hand" => p = me,
           s \in There(w, p, location)
    PROVE  /\ s \in There(v, p, location)
           /\ ResolveCard(Entities(Kept(v, me), me), Candidate(QueryAt(v, p, location, s)))
                = ResolveCard(Entities(Kept(w, me), me), Candidate(QueryAt(w, p, location, s)))
           /\ Asks(QueryAt(v, p, location, s))
<1> DEFINE E == Entities(Kept(w, me), me)
           F == Entities(Kept(v, me), me)
           q == QueryAt(w, p, location, s)
           r == QueryAt(v, p, location, s)
<1>1. Proper(w) /\ Proper(v) /\ location \in Places /\ <<p, location>> # <<1, "hand">>
  BY DEF AlikeFields, Places, me
<1>2. There(v, p, location) = There(w, p, location)
  BY <1>1, AtAlike
<1>3. /\ q.controller = p /\ q.location = location /\ q.sequence = s
      /\ r.controller = p /\ r.location = location /\ r.sequence = s
  BY <1>1, <1>2, QueryAtIs
<1>4. Fits(E, Candidate(q)) = Fitting(E, Candidate(q))
  BY <1>1, PlacedFits
<1>5. Fits(F, Candidate(r)) = Fitting(F, Candidate(r))
  BY <1>1, <1>2, PlacedFits
<1>6. /\ DOMAIN F = DOMAIN E /\ DOMAIN E \in SUBSET Nat
      /\ \A j \in DOMAIN E : EntityPair(E[j], F[j])
  BY EntityPairs
<1>7. PICK c, d : c = Candidate(q) /\ d = Candidate(r)
  OBVIOUS
<1>8. /\ c.controller = p /\ c.location = location /\ c.sequence = s
      /\ d.controller = p /\ d.location = location /\ d.sequence = s
  BY <1>3, <1>7 DEF Candidate
<1>9. Asks(r)
  BY <1>3 DEF Asks
<1> HIDE DEF E, F, q, r
<1>10. p # 1 \/ ProjectZone(location, s) # Hand
  <2>1. CASE location = "hand"
    BY <2>1 DEF me
  <2>2. CASE location # "hand"
    BY <2>2 DEF ProjectZone, Hand, MonsterZone, FieldZone, PendulumRelevant, SpellTrapZone
  <2> QED
    BY <2>1, <2>2
<1>11. \A j \in DOMAIN E : j \in Fitting(E, c) => F[j] = E[j] /\ j \in Fitting(F, d)
  BY <1>6, <1>8, <1>10 DEF Fitting, EntityPair, InHand2
<1>12. \A j \in DOMAIN E : j \in Fitting(F, d) => F[j] = E[j] /\ j \in Fitting(E, c)
  BY <1>6, <1>8, <1>10 DEF Fitting, EntityPair, InHand2
<1>13. Fitting(F, d) = Fitting(E, c)
  BY <1>6, <1>11, <1>12 DEF Fitting
<1>14. Fitting(E, c) \in SUBSET Nat /\ Fitting(E, c) \in SUBSET DOMAIN E
  BY <1>6 DEF Fitting
<1>15. Fits(F, d) = Fits(E, c) /\ Fits(E, c) = Fitting(E, c)
  BY <1>4, <1>5, <1>7, <1>13
<1>16. CASE Fits(E, c) = {}
  BY <1>2, <1>7, <1>9, <1>15, <1>16, ResolveIs DEF E, F, q, r
<1>17. CASE Fits(E, c) # {}
  <2>1. F[Min(Fits(E, c))] = E[Min(Fits(E, c))]
    BY <1>11, <1>14, <1>15, <1>17, MinIs
  <2>2. ResolveCard(F, d) = ResolveCard(E, c)
    BY <1>15, <2>1, ResolveIs
  <2> QED
    BY <1>2, <1>7, <1>9, <2>2 DEF E, F, q, r
<1> QED
  BY <1>16, <1>17

(* Cards that look the same one way look the same the other way.            *)
LEMMA SameBack ==
    ASSUME NEW c, NEW d, SameCard(c, d)
    PROVE  SameCard(d, c)
  BY DEF SameCard

(* So do lists of them,                                                     *)
LEMMA ListsBack ==
    ASSUME NEW T, NEW a \in Seq(T), NEW b \in Seq(T), SameCards(a, b)
    PROVE  SameCards(b, a)
<1>1. DOMAIN b = DOMAIN a /\ Len(b) = Len(a)
  BY DEF SameCards
<1> QED
  BY <1>1, SameBack DEF SameCards

(* and fields.                                                              *)
LEMMA AlikeBack ==
    ASSUME NEW w, NEW v, AlikeFields(w, v)
    PROVE  AlikeFields(v, w)
<1>1. Proper(w) /\ Proper(v) /\ SameField(w, v) /\ HeldAlike(w, v)
  BY DEF AlikeFields
<1>2. ASSUME NEW p \in Players
      PROVE  /\ \A s \in MonsterSlots : SameCards(v.monsters[p][s], w.monsters[p][s])
             /\ \A s \in SpellSlots : SameCards(v.spells[p][s], w.spells[p][s])
             /\ SameCards(v.grave[p], w.grave[p]) /\ SameCards(v.banished[p], w.banished[p])
             /\ SameCards(v.extra[p], w.extra[p])
  <2>1. /\ w.grave[p] \in Seq(PlainCards) /\ v.grave[p] \in Seq(PlainCards)
        /\ w.banished[p] \in Seq(PlainCards) /\ v.banished[p] \in Seq(PlainCards)
        /\ w.extra[p] \in Seq(PlainCards) /\ v.extra[p] \in Seq(PlainCards)
    BY <1>1 DEF Proper, Fields
  <2>2. /\ \A s \in MonsterSlots : w.monsters[p][s] \in Seq(MonsterCards)
                                   /\ v.monsters[p][s] \in Seq(MonsterCards)
        /\ \A s \in SpellSlots : w.spells[p][s] \in Seq(SpellCards)
                                 /\ v.spells[p][s] \in Seq(SpellCards)
    BY <1>1 DEF Proper, Fields
  <2>3. /\ \A s \in MonsterSlots : SameCards(w.monsters[p][s], v.monsters[p][s])
        /\ \A s \in SpellSlots : SameCards(w.spells[p][s], v.spells[p][s])
        /\ SameCards(w.grave[p], v.grave[p]) /\ SameCards(w.banished[p], v.banished[p])
        /\ SameCards(w.extra[p], v.extra[p])
    BY <1>1 DEF SameField
  <2> QED
    BY <2>1, <2>2, <2>3, ListsBack
<1>3. SameField(v, w)
  BY <1>1, <1>2 DEF SameField
<1>4. HeldAlike(v, w)
  BY <1>1 DEF HeldAlike
<1> QED
  BY <1>1, <1>3, <1>4 DEF AlikeFields

(* A reference of the decision in one field is one in the other, either way *)
(* round.                                                                   *)
LEMMA ReferencesAreIn ==
    ASSUME NEW w, NEW v, AlikeFields(w, v), NEW u, NEW x, u \in {<<w, v>>, <<v, w>>},
           x \in References(u[1])
    PROVE  x \in References(u[2])
<1>1. Proper(u[1]) /\ Proper(u[2])
  BY DEF AlikeFields
<1>2. \A c \in Codes : Cardinality(ShownIn(u[1].hand[1], {c})) = Cardinality(ShownIn(u[2].hand[1], {c}))
  <2> TAKE c \in Codes
  <2>1. {c} \in SUBSET Codes
    OBVIOUS
  <2> QED
    BY <2>1 DEF AlikeFields, HeldAlike
<1>3. AlikeFields(u[1], u[2])
  <2>1. CASE u = <<w, v>>
    BY <2>1
  <2>2. CASE u = <<v, w>>
    <3>1. u[1] = v /\ u[2] = w
      BY <2>2
    <3>2. AlikeFields(v, w)
      BY AlikeBack
    <3> QED
      BY <3>1, <3>2
  <2> QED
    BY <2>1, <2>2
<1>4. PICK a, b : a = u[1] /\ b = u[2]
  OBVIOUS
<1>5. PICK q \in Cards(a) : Asks(q) /\ x \in ToSet(ResolveCard(Entities(Kept(a, me), me), Candidate(q)))
  BY <1>4, CandidatesAre DEF References
<1>6. PICK p \in Players, location \in Places :
         \E s \in There(a, p, location) : q = QueryAt(a, p, location, s)
  BY <1>1, <1>4, CardsAre
<1>7. PICK s \in There(a, p, location) : q = QueryAt(a, p, location, s)
  BY <1>6
<1>8. q.controller = p /\ q.location = location
  BY <1>1, <1>4, <1>7, QueryAtIs
<1>9. location \in {"mzone", "szone", "hand"}
  BY <1>5, <1>8 DEF Asks
<1>10. SUFFICES \E r \in Cards(b) :
                   Asks(r) /\ x \in ToSet(ResolveCard(Entities(Kept(b, me), me), Candidate(r)))
  BY <1>4, CandidatesAre DEF References
<1>11. CASE location = "hand" => p = me
  <2>1. /\ s \in There(b, p, location)
        /\ ResolveCard(Entities(Kept(b, me), me), Candidate(QueryAt(b, p, location, s)))
             = ResolveCard(Entities(Kept(a, me), me), Candidate(QueryAt(a, p, location, s)))
        /\ Asks(QueryAt(b, p, location, s))
    BY <1>3, <1>4, <1>9, <1>11, PlacedRefers
  <2>2. QueryAt(b, p, location, s) \in Cards(b)
    BY <1>1, <1>4, <2>1, CardsAre
  <2> QED
    BY <1>5, <1>7, <2>1, <2>2
<1>12. CASE ~(location = "hand" => p = me)
  <2>1. location = "hand" /\ p = 1
    BY <1>12 DEF Players, me
  <2>2. PICK c \in Codes : c = q.card.code
    BY <1>1, <1>4, <1>5, <1>7, <2>1, HeldRefers
  <2>3. /\ HeldWith(Kept(a, me), c) # {}
        /\ ResolveCard(Entities(Kept(a, me), me), Candidate(q)) = <<Word(<<1, Hand, 1, c, 0>>)>>
    BY <1>1, <1>4, <1>5, <1>7, <2>1, <2>2, HeldRefers
  <2>4. HeldWith(Kept(b, me), c) # {}
    <3>1. /\ Cardinality(HeldWith(Kept(a, me), c)) = Cardinality(ShownIn(a.hand[1], {c}))
          /\ IsFiniteSet(HeldWith(Kept(a, me), c))
      BY <1>1, <1>4, HeldCount
    <3>2. /\ Cardinality(HeldWith(Kept(b, me), c)) = Cardinality(ShownIn(b.hand[1], {c}))
          /\ IsFiniteSet(HeldWith(Kept(b, me), c))
      BY <1>1, <1>4, HeldCount
    <3> QED
      BY <1>2, <1>4, <2>3, <3>1, <3>2, FS_EmptySet
  <2>5. PICK i \in 1..Len(Kept(b, me)) : IsHeld(Kept(b, me)[i]) /\ Kept(b, me)[i].card.code = c
    BY <2>4 DEF HeldWith
  <2> DEFINE r == Kept(b, me)[i]
  <2>6. /\ r.sequence \in There(b, r.controller, r.location)
        /\ r = QueryAt(b, r.controller, r.location, r.sequence)
    BY <1>1, <1>4, KeptIs
  <2>7. r.controller = 1 /\ r.location = "hand"
    BY <2>5 DEF IsHeld
  <2>8. r.card.shown
    BY <1>1, <1>4, <2>5, HeldKept
  <2>9. r.card.code = c
    BY <2>5
  <2> HIDE DEF r
  <2>10. Asks(r)
    BY <2>7, <2>8 DEF Asks
  <2>11. r.sequence \in There(b, 1, "hand") /\ r = QueryAt(b, 1, "hand", r.sequence)
    BY <2>6, <2>7
  <2>12. ResolveCard(Entities(Kept(b, me), me), Candidate(r)) = <<Word(<<1, Hand, 1, c, 0>>)>>
    BY <1>1, <1>4, <2>9, <2>10, <2>11, HeldRefers
  <2>13. r \in Cards(b)
    <3>1. 1 \in Players /\ "hand" \in Places
      BY DEF Players, Places
    <3> QED
      BY <1>1, <1>4, <2>11, <3>1, CardsAre
  <2> QED
    BY <1>5, <2>3, <2>10, <2>12, <2>13
<1> QED
  BY <1>11, <1>12

----------------------------------------------------------------------------
(* The whole observation of fields that look the same looks the same.       *)

Fields13 ==
    {"globals", "zones", "entities", "relationships", "length", "chain", "events", "perspective",
     "flags", "ownKnown", "opponentKnown", "own", "opponent"}

(* The fields of the safe state.                                            *)
LEMMA ViewIs ==
    ASSUME NEW o
    PROVE  LET v == SafeView(o)
           IN  /\ v = [f \in Fields13 |-> v[f]]
               /\ v.zones = o.zones /\ v.entities = o.entities
               /\ v.relationships = o.relationships
<1>1. PICK told : told = [i \in DOMAIN o.events |-> SafeEvent(o.events[i])]
  OBVIOUS
<1>2. PICK v : v = SafeView(o)
  OBVIOUS
<1>3. v = [globals |-> o.globals, zones |-> o.zones, entities |-> o.entities,
           relationships |-> o.relationships, length |-> Len(o.chain), chain |-> o.chain,
           events |-> told, perspective |-> o.perspective, flags |-> o.globals.flags,
           ownKnown |-> o.own.known, opponentKnown |-> o.opponent.known,
           own |-> o.own, opponent |-> o.opponent]
  BY <1>1, <1>2 DEF SafeView
<1> QED
  BY <1>2, <1>3 DEF Fields13

(* Records that differ in one field agree once that field is set.           *)
LEMMA ResetAlike ==
    ASSUME NEW a, NEW b, NEW z, NEW e, NEW r, NEW D,
           a = [f \in D |-> a[f]], b = [f \in D |-> b[f]],
           \A f \in D : f # "entities" => a[f] = b[f]
    PROVE  [a EXCEPT !.zones = z, !.entities = e, !.relationships = r]
             = [b EXCEPT !.zones = z, !.entities = e, !.relationships = r]
  OBVIOUS

(* Observations that differ in the order of their entities come to the same *)
(* safe state.                                                              *)
LEMMA SettledAlike ==
    ASSUME NEW o, NEW x, x.globals = o.globals, x.zones = o.zones,
           ToSet(x.entities) = ToSet(o.entities), x.relationships = o.relationships,
           x.chain = o.chain, x.events = o.events, x.perspective = o.perspective, x.own = o.own,
           x.opponent = o.opponent
    PROVE  Settled(SafeView(x)) = Settled(SafeView(o))
<1>1. PICK a, b : a = SafeView(o) /\ b = SafeView(x)
  OBVIOUS
<1>2. /\ a = [f \in Fields13 |-> a[f]] /\ a.zones = o.zones /\ a.entities = o.entities
      /\ a.relationships = o.relationships
  BY <1>1, ViewIs
<1>3. /\ b = [f \in Fields13 |-> b[f]] /\ b.zones = x.zones /\ b.entities = x.entities
      /\ b.relationships = x.relationships
  BY <1>1, ViewIs
<1>4. \A f \in Fields13 : f # "entities" => b[f] = a[f]
  <2>1. PICK told : told = [i \in DOMAIN o.events |-> SafeEvent(o.events[i])]
    OBVIOUS
  <2>2. /\ b.globals = x.globals /\ b.length = Len(x.chain) /\ b.chain = x.chain
        /\ b.events = told /\ b.perspective = x.perspective /\ b.flags = x.globals.flags
        /\ b.ownKnown = x.own.known /\ b.opponentKnown = x.opponent.known
        /\ b.own = x.own /\ b.opponent = x.opponent
    BY <1>1, <2>1 DEF SafeView
  <2>3. /\ a.globals = o.globals /\ a.length = Len(o.chain) /\ a.chain = o.chain
        /\ a.events = told /\ a.perspective = o.perspective /\ a.flags = o.globals.flags
        /\ a.ownKnown = o.own.known /\ a.opponentKnown = o.opponent.known
        /\ a.own = o.own /\ a.opponent = o.opponent
    BY <1>1, <2>1 DEF SafeView
  <2> QED
    BY <1>2, <1>3, <2>2, <2>3 DEF Fields13
<1>5. PICK z, e, r : z = ToSet(o.zones) /\ e = ToSet(o.entities) /\ r = ToSet(o.relationships)
  OBVIOUS
<1>6. Settled(a) = [a EXCEPT !.zones = z, !.entities = e, !.relationships = r]
  BY <1>2, <1>5 DEF Settled
<1>7. Settled(b) = [b EXCEPT !.zones = z, !.entities = e, !.relationships = r]
  BY <1>3, <1>5 DEF Settled
<1>8. [b EXCEPT !.zones = z, !.entities = e, !.relationships = r]
        = [a EXCEPT !.zones = z, !.entities = e, !.relationships = r]
  BY <1>2, <1>3, <1>4, ResetAlike
<1> QED
  BY <1>1, <1>6, <1>7, <1>8

ChainOf(w) ==
    [i \in DOMAIN w.chain |->
       Link(w, i, Entities(Kept(w, me), me), Relationships(Kept(w, me), me))]

(* The parts of an observation.                                             *)
LEMMA ObserveIs ==
    ASSUME NEW w, NEW s
    PROVE  LET o == Observe(w, me, s, Asked(w))
           IN  /\ o.globals = Globals(w, s.events, <<me>>)
               /\ o.zones = ZonesOf(w, 0, me) \o ZonesOf(w, 1, me)
               /\ o.entities = Entities(Kept(w, me), me)
               /\ o.relationships = Relationships(Kept(w, me), me)
               /\ o.chain = ChainOf(w) /\ o.events = s.events /\ o.perspective = me
               /\ o.own = KnownDeck("own", w.list[me])
               /\ o.opponent = KnownDeck("opponent", w.list[1])
               /\ o.context = [kind |-> <<Word("card_selection")>>, player |-> <<me>>,
                               references |-> References(w)]
<1> DEFINE a == Asked(w)
<1>1. a # <<>> /\ a[1].kind = Word("card_selection") /\ a[1].player = me
      /\ a[1].cards = Candidates(w)
  BY DEF Asked
<1>2. 1 - me = 1
  BY DEF me
<1>3. Context(Entities(Kept(w, me), me), a)
        = [kind |-> <<Word("card_selection")>>, player |-> <<me>>, references |-> References(w)]
  <2> HIDE DEF a
  <2> QED
    BY <1>1 DEF Context, Given, References
<1> HIDE DEF a
<1> QED
  BY <1>1, <1>2, <1>3 DEF Observe, ChainOf, a

GlobalsWith(a, b, chain, events) ==
    LET turns == {i \in DOMAIN events : events[i].event.kind = TurnStarted}
    IN  [flags |-> 0, life |-> <<a, b>>, toAct |-> <<me>>,
         turnPlayer |-> LastOf(events, TurnStarted, "player"),
         turns |-> Given(turns # {}, Cardinality(turns)), phase |-> LastOf(events, PhaseChanged, "phase"),
         chain |-> chain, winner |-> LastOf(events, Win, "winner"),
         reason |-> LastOf(events, Win, "reason"),
         terminal |-> \E i \in DOMAIN events : events[i].event.kind = Win]

(* To player 0 fields that look the same have alike observations, with the  *)
(* same session and the decision that goes with each.                       *)
LEMMA ObserveAlike ==
    ASSUME NEW w, NEW v, AlikeFields(w, v), NEW s
    PROVE  Alike(Observe(w, me, s, Asked(w)), Observe(v, me, s, Asked(v)))
<1> DEFINE o == Observe(w, me, s, Asked(w))
           x == Observe(v, me, s, Asked(v))
<1>1. SameField(w, v)
  BY DEF AlikeFields
<1>2. x.globals = o.globals
  <2>1. Globals(w, s.events, <<me>>) = GlobalsWith(w.lp[0], w.lp[1], Len(w.chain), s.events)
    BY DEF Globals, GlobalsWith
  <2>2. Globals(v, s.events, <<me>>) = GlobalsWith(v.lp[0], v.lp[1], Len(v.chain), s.events)
    BY DEF Globals, GlobalsWith
  <2>3. v.lp = w.lp /\ v.chain = w.chain
    BY <1>1 DEF SameField
  <2>4. o.globals = Globals(w, s.events, <<me>>) /\ x.globals = Globals(v, s.events, <<me>>)
    BY ObserveIs
  <2> HIDE DEF o, x
  <2> QED
    BY <2>1, <2>2, <2>3, <2>4
<1>3. x.zones = o.zones
  <2>1. ZonesOf(v, 0, me) = ZonesOf(w, 0, me) /\ ZonesOf(v, 1, me) = ZonesOf(w, 1, me)
    BY ZonesAlike DEF Players
  <2>2. o.zones = ZonesOf(w, 0, me) \o ZonesOf(w, 1, me)
    BY ObserveIs
  <2>3. x.zones = ZonesOf(v, 0, me) \o ZonesOf(v, 1, me)
    BY ObserveIs
  <2> HIDE DEF o, x
  <2> QED
    BY <2>1, <2>2, <2>3
<1>4. ToSet(x.entities) = ToSet(o.entities)
  <2>1. o.entities = Entities(Kept(w, me), me) /\ x.entities = Entities(Kept(v, me), me)
    BY ObserveIs
  <2> HIDE DEF o, x
  <2> QED
    BY <2>1, SameEntities
<1>5. x.relationships = o.relationships
  <2>1. /\ o.relationships = Relationships(Kept(w, me), me)
        /\ x.relationships = Relationships(Kept(v, me), me)
    BY ObserveIs
  <2> HIDE DEF o, x
  <2> QED
    BY <2>1, RelationshipsAlike
<1>6. x.chain = o.chain
  <2>1. o.chain = ChainOf(w) /\ x.chain = ChainOf(v)
    BY ObserveIs
  <2>2. v.chain = w.chain
    BY <1>1 DEF SameField
  <2>3. ASSUME NEW i \in DOMAIN w.chain
        PROVE  Link(v, i, Entities(Kept(v, me), me), Relationships(Kept(v, me), me))
                 = Link(w, i, Entities(Kept(w, me), me), Relationships(Kept(w, me), me))
    BY LinkAlike
  <2>4. ChainOf(v) = ChainOf(w)
    BY <2>2, <2>3 DEF ChainOf
  <2> HIDE DEF o, x
  <2> QED
    BY <2>1, <2>4
<1>7. x.events = o.events /\ x.perspective = o.perspective
  <2>1. o.events = s.events /\ o.perspective = me
    BY ObserveIs
  <2>2. x.events = s.events /\ x.perspective = me
    BY ObserveIs
  <2> HIDE DEF o, x
  <2> QED
    BY <2>1, <2>2
<1>8. x.own = o.own /\ x.opponent = o.opponent
  <2>1. /\ o.own = KnownDeck("own", w.list[me]) /\ x.own = KnownDeck("own", v.list[me])
        /\ o.opponent = KnownDeck("opponent", w.list[1])
        /\ x.opponent = KnownDeck("opponent", v.list[1])
    BY ObserveIs
  <2>2. KnownDeck("own", w.list[me]) = KnownDeck("own", v.list[me])
    BY <1>1 DEF SameField, KnownDeck
  <2>3. KnownDeck("opponent", w.list[1]) = KnownDeck("opponent", v.list[1])
    BY <1>1 DEF SameField, KnownDeck
  <2> HIDE DEF o, x
  <2> QED
    BY <2>1, <2>2, <2>3
<1>9. x.context = o.context
  <2>1. References(v) = References(w)
    <3>1. ASSUME NEW y \in References(w) PROVE y \in References(v)
      <4>1. PICK u : u = <<w, v>>
        OBVIOUS
      <4>2. u[1] = w /\ u[2] = v
        BY <4>1
      <4> QED
        BY <3>1, <4>1, <4>2, ReferencesAreIn
    <3>2. ASSUME NEW y \in References(v) PROVE y \in References(w)
      <4>1. PICK u : u = <<v, w>>
        OBVIOUS
      <4>2. u[1] = v /\ u[2] = w
        BY <4>1
      <4> QED
        BY <3>2, <4>1, <4>2, ReferencesAreIn
    <3> QED
      BY <3>1, <3>2
  <2>2. /\ o.context = [kind |-> <<Word("card_selection")>>, player |-> <<me>>,
                        references |-> References(w)]
        /\ x.context = [kind |-> <<Word("card_selection")>>, player |-> <<me>>,
                        references |-> References(v)]
    BY ObserveIs
  <2> HIDE DEF o, x
  <2> QED
    BY <2>1, <2>2
<1> HIDE DEF o, x
<1>10. Settled(SafeView(x)) = Settled(SafeView(o))
  BY <1>2, <1>3, <1>4, <1>5, <1>6, <1>7, <1>8, SettledAlike
<1>11. Alike(o, x)
  BY <1>9, <1>10 DEF Alike
<1> QED
  BY <1>11 DEF o, x

----------------------------------------------------------------------------
(* What a move changes: one part of a field at a time, and what that leaves *)
(* proper and alike.                                                        *)

(* A hand of p, as the moves leave it. *)
HandOf(h, p) ==
    /\ h \in Seq(HeldCards)
    /\ \A i \in 1..Len(h) : h[i].owner = p /\ h[i].up = h[i].shown /\ (h[i].shown => p = 1)

SameShown(h, g) ==
    \A codes \in SUBSET Codes : Cardinality(ShownIn(g, codes)) = Cardinality(ShownIn(h, codes))

(* The shown cards of a hand are finitely many of its places. *)
LEMMA ShownAre ==
    ASSUME NEW h \in Seq(HeldCards), NEW codes
    PROVE  /\ DOMAIN h = 1..Len(h) /\ Len(h) \in Nat
           /\ ShownIn(h, codes) = {i \in 1..Len(h) : h[i].shown /\ h[i].code \in codes}
           /\ IsFiniteSet(ShownIn(h, codes)) /\ Cardinality(ShownIn(h, codes)) \in Nat
<1>1. DOMAIN h = 1..Len(h) /\ Len(h) \in Nat
  OBVIOUS
<1>2. ShownIn(h, codes) = {i \in 1..Len(h) : h[i].shown /\ h[i].code \in codes}
  BY <1>1 DEF ShownIn
<1>3. IsFiniteSet(1..Len(h))
  BY <1>1, FS_Interval
<1>4. ShownIn(h, codes) \in SUBSET (1..Len(h))
  BY <1>2
<1>5. IsFiniteSet(ShownIn(h, codes))
  BY <1>3, <1>4, FS_Subset
<1> QED
  BY <1>1, <1>2, <1>5, FS_CardinalityType

(* A card that is not shown adds nothing to the shown ones. *)
LEMMA ShownAppended ==
    ASSUME NEW h \in Seq(HeldCards), NEW c \in HeldCards, ~c.shown, NEW codes
    PROVE  ShownIn(Append(h, c), codes) = ShownIn(h, codes)
<1> DEFINE g == Append(h, c)
<1>1. /\ g \in Seq(HeldCards) /\ Len(g) = Len(h) + 1 /\ Len(h) \in Nat
      /\ \A i \in 1..Len(h) : g[i] = h[i]
      /\ g[Len(h) + 1] = c
  OBVIOUS
<1> HIDE DEF g
<1>2. ShownIn(g, codes) = {i \in 1..Len(g) : g[i].shown /\ g[i].code \in codes}
  BY <1>1, ShownAre
<1>3. ShownIn(h, codes) = {i \in 1..Len(h) : h[i].shown /\ h[i].code \in codes}
  BY ShownAre
<1>4. ShownIn(g, codes) = ShownIn(h, codes)
  BY <1>1, <1>2, <1>3
<1> QED
  BY <1>4 DEF g

(* What is left of a sequence without its i-th. *)
LEMMA Removed ==
    ASSUME NEW T, NEW h \in Seq(T), NEW i \in 1..Len(h)
    PROVE  /\ RemoveAt(h, i) \in Seq(T) /\ Len(RemoveAt(h, i)) = Len(h) - 1
           /\ \A j \in 1..(Len(h) - 1) : RemoveAt(h, i)[j] = IF j < i THEN h[j] ELSE h[j + 1]
<1>1. PICK n \in Nat : n = Len(h)
  OBVIOUS
<1>2. i \in 1..n /\ i \in Nat
  BY <1>1
<1>3. PICK a, b : a = SubSeq(h, 1, i - 1) /\ b = SubSeq(h, i + 1, n)
  OBVIOUS
<1>4. a \in Seq(T) /\ Len(a) = i - 1 /\ \A j \in 1..(i - 1) : a[j] = h[j]
  <2>1. \A j \in 1..(i - 1) : h[j] \in T
    BY <1>1, <1>2
  <2>2. 1 \in Int /\ i - 1 \in Int
    BY <1>2
  <2>3. /\ SubSeq(h, 1, i - 1) \in Seq(T)
        /\ Len(SubSeq(h, 1, i - 1)) = IF 1 <= i - 1 THEN i - 1 - 1 + 1 ELSE 0
        /\ \A j \in 1..(i - 1 - 1 + 1) : SubSeq(h, 1, i - 1)[j] = h[1 + j - 1]
    BY <2>1, <2>2, SubSeqProperties
  <2> QED
    BY <1>2, <1>3, <2>3
<1>5. b \in Seq(T) /\ Len(b) = n - i /\ \A j \in 1..(n - i) : b[j] = h[i + j]
  <2>1. \A j \in (i + 1)..n : h[j] \in T
    BY <1>1, <1>2
  <2>2. i + 1 \in Int /\ n \in Int
    BY <1>2
  <2>3. /\ SubSeq(h, i + 1, n) \in Seq(T)
        /\ Len(SubSeq(h, i + 1, n)) = IF i + 1 <= n THEN n - (i + 1) + 1 ELSE 0
        /\ \A j \in 1..(n - (i + 1) + 1) : SubSeq(h, i + 1, n)[j] = h[i + 1 + j - 1]
    BY <2>1, <2>2, SubSeqProperties
  <2> QED
    BY <1>2, <1>3, <2>3
<1>6. RemoveAt(h, i) = a \o b
  BY <1>1, <1>3 DEF RemoveAt
<1>7. /\ a \o b \in Seq(T) /\ Len(a \o b) = Len(a) + Len(b)
      /\ \A k \in 1..Len(a) : (a \o b)[k] = a[k]
      /\ \A k \in 1..Len(b) : (a \o b)[Len(a) + k] = b[k]
  <2>1. a \in Seq(T) /\ b \in Seq(T)
    BY <1>4, <1>5
  <2> QED
    BY <2>1, Appended
<1>8. Len(a \o b) = n - 1
  BY <1>2, <1>4, <1>5, <1>7
<1>9. ASSUME NEW j \in 1..(n - 1)
      PROVE  (a \o b)[j] = IF j < i THEN h[j] ELSE h[j + 1]
  <2>1. CASE j < i
    BY <1>2, <1>4, <1>7, <2>1
  <2>2. CASE ~(j < i)
    <3>1. PICK k \in 1..(n - i) : j = (i - 1) + k
      <4>1. j - (i - 1) \in 1..(n - i) /\ j = (i - 1) + (j - (i - 1))
        BY <1>2, <2>2
      <4> QED
        BY <4>1
    <3>2. (a \o b)[j] = b[k]
      BY <1>4, <1>5, <1>7, <3>1
    <3>3. j + 1 = i + k
      BY <1>2, <3>1
    <3> QED
      BY <1>5, <2>2, <3>1, <3>2, <3>3
  <2> QED
    BY <2>1, <2>2
<1> QED
  BY <1>1, <1>6, <1>7, <1>8, <1>9

(* A hand without its i-th card shows one card less, if that was shown.     *)
LEMMA ShownRemoved ==
    ASSUME NEW h \in Seq(HeldCards), NEW i \in 1..Len(h), NEW codes
    PROVE  Cardinality(ShownIn(RemoveAt(h, i), codes))
             = Cardinality(ShownIn(h, codes))
               - (IF h[i].shown /\ h[i].code \in codes THEN 1 ELSE 0)
<1>1. PICK n \in Nat : n = Len(h)
  OBVIOUS
<1>2. PICK g : g = RemoveAt(h, i)
  OBVIOUS
<1>3. /\ g \in Seq(HeldCards) /\ Len(g) = n - 1
      /\ \A j \in 1..(n - 1) : g[j] = IF j < i THEN h[j] ELSE h[j + 1]
  BY <1>1, <1>2, Removed
<1>4. PICK S, T : S = ShownIn(g, codes) /\ T = ShownIn(h, codes)
  OBVIOUS
<1>5. S = {j \in 1..(n - 1) : g[j].shown /\ g[j].code \in codes} /\ IsFiniteSet(S)
  BY <1>3, <1>4, ShownAre
<1>6. T = {j \in 1..n : h[j].shown /\ h[j].code \in codes} /\ IsFiniteSet(T) /\ Cardinality(T) \in Nat
  BY <1>1, <1>4, ShownAre
<1>7. i \in 1..n
  BY <1>1
<1> DEFINE b == [j \in S |-> IF j < i THEN j ELSE j + 1]
<1>8. \A j \in S : b[j] \in T \ {i}
  BY <1>3, <1>5, <1>6, <1>7
<1>9. \A x, y \in S : b[x] = b[y] => x = y
  BY <1>5, <1>7
<1>10. ASSUME NEW t \in T \ {i} PROVE \E x \in S : b[x] = t
  <2>1. t \in 1..n /\ h[t].shown /\ h[t].code \in codes /\ t # i
    BY <1>6
  <2>2. CASE t < i
    <3>1. t \in 1..(n - 1) /\ g[t] = h[t]
      BY <1>3, <1>7, <2>1, <2>2
    <3>2. t \in S
      BY <1>5, <2>1, <3>1
    <3> QED
      BY <2>2, <3>2
  <2>3. CASE ~(t < i)
    <3>1. t - 1 \in 1..(n - 1) /\ ~(t - 1 < i) /\ (t - 1) + 1 = t
      BY <1>7, <2>1, <2>3
    <3>2. g[t - 1] = h[t]
      BY <1>3, <3>1
    <3>3. t - 1 \in S
      BY <1>5, <2>1, <3>1, <3>2
    <3> QED
      BY <3>1, <3>3
  <2> QED
    BY <2>2, <2>3
<1>11. b \in [S -> T \ {i}]
  BY <1>8
<1> HIDE DEF b
<1>12. Cardinality(T \ {i}) = Cardinality(S)
  <2>1. IsFiniteSet(S)
    BY <1>5
  <2>2. \A t \in T \ {i} : \E x \in S : b[x] = t
    BY <1>10
  <2> QED
    BY <1>9, <1>11, <2>1, <2>2, SameNumber
<1>13. Cardinality(T \ {i}) = IF i \in T THEN Cardinality(T) - 1 ELSE Cardinality(T)
  BY <1>6, FS_RemoveElement
<1>14. i \in T <=> h[i].shown /\ h[i].code \in codes
  BY <1>6, <1>7
<1>15. CASE i \in T
  <2>1. Cardinality(S) = Cardinality(T) - 1
    BY <1>12, <1>13, <1>15
  <2> QED
    BY <1>2, <1>4, <1>14, <1>15, <2>1
<1>16. CASE i \notin T
  <2>1. Cardinality(S) = Cardinality(T)
    BY <1>12, <1>13, <1>16
  <2> QED
    BY <1>2, <1>4, <1>6, <1>14, <1>16, <2>1
<1> QED
  BY <1>15, <1>16

(* A hand in another order shows as many. *)
LEMMA ShownShuffled ==
    ASSUME NEW h \in Seq(HeldCards), NEW order \in [DOMAIN h -> DOMAIN h], IsInjective(order),
           NEW codes
    PROVE  LET g == [i \in DOMAIN h |-> h[order[i]]]
           IN  /\ g \in Seq(HeldCards) /\ Len(g) = Len(h)
               /\ \A i \in 1..Len(h) : order[i] \in 1..Len(h) /\ g[i] = h[order[i]]
               /\ Cardinality(ShownIn(g, codes)) = Cardinality(ShownIn(h, codes))
<1>1. PICK n \in Nat : n = Len(h) /\ DOMAIN h = 1..n
  OBVIOUS
<1>2. order \in [1..n -> 1..n]
  BY <1>1
<1>3. PICK g : g = [i \in 1..n |-> h[order[i]]]
  OBVIOUS
<1>4. \A i \in 1..n : h[order[i]] \in HeldCards
  BY <1>1, <1>2
<1>5. g \in [1..n -> HeldCards]
  BY <1>3, <1>4
<1>6. g \in Seq(HeldCards) /\ Len(g) = n /\ DOMAIN g = 1..n
  BY <1>5, FunctionIsSeq
<1>7. \A j \in 1..n : \E i \in 1..n : order[i] = j
  <2>1. IsFiniteSet(1..n)
    BY FS_Interval
  <2>2. order \in Injection(1..n, 1..n)
    BY <1>2 DEF Injection
  <2>3. order \in Surjection(1..n, 1..n)
    BY <2>1, <2>2, FS_Injection
  <2> QED
    BY <2>3 DEF Surjection
<1>8. PICK S, T : S = ShownIn(g, codes) /\ T = ShownIn(h, codes)
  OBVIOUS
<1>9. S = {i \in 1..n : g[i].shown /\ g[i].code \in codes} /\ IsFiniteSet(S)
  BY <1>6, <1>8, ShownAre
<1>10. T = {i \in 1..n : h[i].shown /\ h[i].code \in codes}
  BY <1>1, <1>8, ShownAre
<1> DEFINE b == [i \in S |-> order[i]]
<1>11. \A i \in S : b[i] \in T
  BY <1>2, <1>3, <1>9, <1>10
<1>12. \A x, y \in S : b[x] = b[y] => x = y
  BY <1>2, <1>9 DEF IsInjective
<1>13. ASSUME NEW t \in T PROVE \E x \in S : b[x] = t
  <2>1. t \in 1..n
    BY <1>10
  <2>2. PICK i \in 1..n : order[i] = t
    BY <1>7, <2>1
  <2>3. i \in S
    BY <1>3, <1>9, <1>10, <2>2
  <2> QED
    BY <2>2, <2>3
<1>14. b \in [S -> T]
  BY <1>11
<1> HIDE DEF b
<1>15. Cardinality(T) = Cardinality(S)
  <2>1. IsFiniteSet(S)
    BY <1>9
  <2>2. \A t \in T : \E x \in S : b[x] = t
    BY <1>13
  <2> QED
    BY <1>12, <1>14, <2>1, <2>2, SameNumber
<1> QED
  BY <1>1, <1>2, <1>3, <1>6, <1>8, <1>15

(* A card that is shown from now on adds to the shown of its code.          *)
LEMMA ShownRevealed ==
    ASSUME NEW h \in Seq(HeldCards), NEW i \in 1..Len(h), ~h[i].shown, NEW c \in HeldCards, c.shown,
           NEW codes
    PROVE  LET g == [h EXCEPT ![i] = c]
           IN  /\ g \in Seq(HeldCards) /\ Len(g) = Len(h) /\ g[i] = c
               /\ \A j \in 1..Len(h) : j # i => g[j] = h[j]
               /\ Cardinality(ShownIn(g, codes))
                    = Cardinality(ShownIn(h, codes)) + (IF c.code \in codes THEN 1 ELSE 0)
<1>1. PICK n \in Nat : n = Len(h) /\ DOMAIN h = 1..n
  OBVIOUS
<1>2. PICK g : g = [h EXCEPT ![i] = c]
  OBVIOUS
<1>3. /\ g \in Seq(HeldCards) /\ Len(g) = n /\ g[i] = c
      /\ \A j \in 1..n : j # i => g[j] = h[j]
  BY <1>1, <1>2
<1>4. PICK S, T : S = ShownIn(g, codes) /\ T = ShownIn(h, codes)
  OBVIOUS
<1>5. S = {j \in 1..n : g[j].shown /\ g[j].code \in codes}
  BY <1>3, <1>4, ShownAre
<1>6. T = {j \in 1..n : h[j].shown /\ h[j].code \in codes} /\ IsFiniteSet(T) /\ Cardinality(T) \in Nat
  BY <1>1, <1>4, ShownAre
<1>7. i \notin T /\ i \in 1..n
  BY <1>1, <1>6
<1>8. CASE c.code \in codes
  <2>1. S = T \cup {i}
    BY <1>3, <1>5, <1>6, <1>7, <1>8
  <2>2. Cardinality(S) = Cardinality(T) + 1
    BY <1>6, <1>7, <2>1, FS_AddElement
  <2> QED
    BY <1>1, <1>2, <1>3, <1>4, <1>8, <2>2
<1>9. CASE c.code \notin codes
  <2>1. S = T
    BY <1>3, <1>5, <1>6, <1>7, <1>9
  <2>2. Cardinality(S) = Cardinality(T) + 0
    BY <1>6, <2>1
  <2> QED
    BY <1>1, <1>2, <1>3, <1>4, <1>9, <2>2
<1> QED
  BY <1>8, <1>9

(* A pile of p, and the slots of the field. *)
PileOf(g, p) == g \in Seq(PlainCards) /\ \A i \in 1..Len(g) : g[i].owner = p
MonstersOf(m) ==
    /\ m \in [MonsterSlots -> Seq(MonsterCards)]
    /\ \A s \in MonsterSlots : Len(m[s]) <= 1
SpellsOf(m, p) ==
    /\ m \in [SpellSlots -> Seq(SpellCards)]
    /\ \A s \in SpellSlots :
          /\ Len(m[s]) <= 1
          /\ m[s] # <<>> => m[s][1].owner = p
                            /\ (p = 0 => m[s][1].equip = <<>> /\ m[s][1].targets = <<>>)

(* What a proper field is made of. *)
LEMMA ProperParts ==
    ASSUME NEW w, Proper(w)
    PROVE  /\ w \in Fields
           /\ \A p \in Players :
                 /\ HandOf(w.hand[p], p) /\ w.deck[p] \in Seq(Codes)
                 /\ MonstersOf(w.monsters[p]) /\ SpellsOf(w.spells[p], p)
                 /\ PileOf(w.grave[p], p) /\ PileOf(w.banished[p], p) /\ PileOf(w.extra[p], p)
           /\ w.chain \in Seq(Links)
<1>1. w \in Fields
  BY DEF Proper
<1>2. /\ w.hand \in [Players -> Seq(HeldCards)] /\ w.deck \in [Players -> Seq(Codes)]
      /\ w.monsters \in [Players -> [MonsterSlots -> Seq(MonsterCards)]]
      /\ w.spells \in [Players -> [SpellSlots -> Seq(SpellCards)]]
      /\ w.grave \in [Players -> Seq(PlainCards)] /\ w.banished \in [Players -> Seq(PlainCards)]
      /\ w.extra \in [Players -> Seq(PlainCards)] /\ w.chain \in Seq(Links)
  BY <1>1 DEF Fields
<1>3. ASSUME NEW p \in Players
      PROVE  /\ HandOf(w.hand[p], p) /\ w.deck[p] \in Seq(Codes)
             /\ MonstersOf(w.monsters[p]) /\ SpellsOf(w.spells[p], p)
             /\ PileOf(w.grave[p], p) /\ PileOf(w.banished[p], p) /\ PileOf(w.extra[p], p)
  <2>1. HandOf(w.hand[p], p)
    <3>1. w.hand[p] \in Seq(HeldCards)
      BY <1>2
    <3>2. DOMAIN w.hand[p] = 1..Len(w.hand[p])
      BY <3>1
    <3> QED
      BY <3>1, <3>2 DEF Proper, HandOf
  <2>2. w.deck[p] \in Seq(Codes)
    BY <1>2
  <2>3. MonstersOf(w.monsters[p])
    <3>1. w.monsters[p] \in [MonsterSlots -> Seq(MonsterCards)]
      BY <1>2
    <3>2. \A s \in MonsterSlots : Len(w.monsters[p][s]) <= 1
      BY DEF Proper
    <3> QED
      BY <3>1, <3>2 DEF MonstersOf
  <2>4. SpellsOf(w.spells[p], p)
    <3>1. w.spells[p] \in [SpellSlots -> Seq(SpellCards)]
      BY <1>2
    <3>2. ASSUME NEW s \in SpellSlots
          PROVE  /\ Len(w.spells[p][s]) <= 1
                 /\ w.spells[p][s] # <<>> =>
                       /\ w.spells[p][s][1].owner = p
                       /\ p = 0 => w.spells[p][s][1].equip = <<>> /\ w.spells[p][s][1].targets = <<>>
      BY DEF Proper, Taken, Slots, CardAt
    <3> QED
      BY <3>1, <3>2 DEF SpellsOf
  <2>5. PileOf(w.grave[p], p)
    <3>1. w.grave[p] \in Seq(PlainCards) /\ DOMAIN w.grave[p] = 1..Len(w.grave[p])
      BY <1>2
    <3> QED
      BY <3>1 DEF Proper, PileOf
  <2>6. PileOf(w.banished[p], p)
    <3>1. w.banished[p] \in Seq(PlainCards) /\ DOMAIN w.banished[p] = 1..Len(w.banished[p])
      BY <1>2
    <3> QED
      BY <3>1 DEF Proper, PileOf
  <2>7. PileOf(w.extra[p], p)
    <3>1. w.extra[p] \in Seq(PlainCards) /\ DOMAIN w.extra[p] = 1..Len(w.extra[p])
      BY <1>2
    <3> QED
      BY <3>1 DEF Proper, PileOf
  <2> QED
    BY <2>1, <2>2, <2>3, <2>4, <2>5, <2>6, <2>7
<1> QED
  BY <1>1, <1>2, <1>3

(* And conversely. *)
LEMMA ProperFrom ==
    ASSUME NEW w \in Fields,
           \A p \in Players :
              /\ HandOf(w.hand[p], p) /\ MonstersOf(w.monsters[p]) /\ SpellsOf(w.spells[p], p)
              /\ PileOf(w.grave[p], p) /\ PileOf(w.banished[p], p) /\ PileOf(w.extra[p], p)
    PROVE  Proper(w)
<1>1. ASSUME NEW p \in Players
      PROVE  /\ \A i \in DOMAIN w.hand[p] :
                   LET c == w.hand[p][i] IN c.owner = p /\ c.up = c.shown /\ (c.shown => p = 1)
             /\ \A i \in DOMAIN w.grave[p] : w.grave[p][i].owner = p
             /\ \A i \in DOMAIN w.banished[p] : w.banished[p][i].owner = p
             /\ \A i \in DOMAIN w.extra[p] : w.extra[p][i].owner = p
             /\ \A s \in MonsterSlots : Len(w.monsters[p][s]) <= 1
             /\ \A s \in SpellSlots :
                   /\ Len(w.spells[p][s]) <= 1
                   /\ s \in Taken(w, "spells", p) =>
                         LET c == CardAt(w, "spells", p, s)
                         IN  c.owner = p /\ (p = 0 => c.equip = <<>> /\ c.targets = <<>>)
  <2>1. \A i \in DOMAIN w.hand[p] :
           LET c == w.hand[p][i] IN c.owner = p /\ c.up = c.shown /\ (c.shown => p = 1)
    <3>1. HandOf(w.hand[p], p)
      OBVIOUS
    <3> QED
      BY <3>1 DEF HandOf
  <2>2. \A i \in DOMAIN w.grave[p] : w.grave[p][i].owner = p
    <3>1. PileOf(w.grave[p], p)
      OBVIOUS
    <3> QED
      BY <3>1 DEF PileOf
  <2>3. \A i \in DOMAIN w.banished[p] : w.banished[p][i].owner = p
    <3>1. PileOf(w.banished[p], p)
      OBVIOUS
    <3> QED
      BY <3>1 DEF PileOf
  <2>4. \A i \in DOMAIN w.extra[p] : w.extra[p][i].owner = p
    <3>1. PileOf(w.extra[p], p)
      OBVIOUS
    <3> QED
      BY <3>1 DEF PileOf
  <2>5. \A s \in MonsterSlots : Len(w.monsters[p][s]) <= 1
    <3>1. MonstersOf(w.monsters[p])
      OBVIOUS
    <3> QED
      BY <3>1 DEF MonstersOf
  <2>6. \A s \in SpellSlots :
           /\ Len(w.spells[p][s]) <= 1
           /\ s \in Taken(w, "spells", p) =>
                 LET c == CardAt(w, "spells", p, s)
                 IN  c.owner = p /\ (p = 0 => c.equip = <<>> /\ c.targets = <<>>)
    <3>1. SpellsOf(w.spells[p], p)
      OBVIOUS
    <3> QED
      BY <3>1 DEF SpellsOf, Taken, CardAt
  <2> QED
    BY <2>1, <2>2, <2>3, <2>4, <2>5, <2>6
<1> QED
  BY <1>1 DEF Proper

(* The parts of a field that are not in names stay. *)
FieldNames ==
    {"hand", "deck", "monsters", "spells", "grave", "banished", "extra", "chain", "lp", "list"}
Keeps(w, x, names) == \A f \in FieldNames \ names : x[f] = w[f]

(* A field has ten parts.                                                   *)
LEMMA FieldIs ==
    ASSUME NEW w
    PROVE  w \in Fields <=>
             /\ w = [f \in FieldNames |-> w[f]]
             /\ w.hand \in [Players -> Seq(HeldCards)] /\ w.deck \in [Players -> Seq(Codes)]
             /\ w.monsters \in [Players -> [MonsterSlots -> Seq(MonsterCards)]]
             /\ w.spells \in [Players -> [SpellSlots -> Seq(SpellCards)]]
             /\ w.grave \in [Players -> Seq(PlainCards)]
             /\ w.banished \in [Players -> Seq(PlainCards)]
             /\ w.extra \in [Players -> Seq(PlainCards)] /\ w.chain \in Seq(Links)
             /\ w.lp \in [Players -> Nat] /\ w.list \in [Players -> Seq(Nat)]
  BY DEF Fields, FieldNames

(* One part of w replaced. *)
HandTo(w, x, p, h) == x = [w EXCEPT !.hand[p] = h]
DeckTo(w, x, p, h) == x = [w EXCEPT !.deck[p] = h]
GraveTo(w, x, p, h) == x = [w EXCEPT !.grave[p] = h]
BanishedTo(w, x, p, h) == x = [w EXCEPT !.banished[p] = h]
ChainTo(w, x, h) == x = [w EXCEPT !.chain = h]
LifeTo(w, x, h) == x = [w EXCEPT !.lp = h]
MonstersTo(w, x, h) == x = [w EXCEPT !.monsters = h]
SpellsTo(w, x, h) == x = [w EXCEPT !.spells = h]

(* A proper field with another proper hand is proper, the rest as it was.   *)
LEMMA HandSet ==
    ASSUME NEW w, Proper(w), NEW p \in Players, NEW h, HandOf(h, p),
           NEW x, HandTo(w, x, p, h)
    PROVE  /\ Proper(x) /\ Keeps(w, x, {"hand"})
               /\ x.hand[p] = h /\ \A q \in Players : q # p => x.hand[q] = w.hand[q]
<1>1. x = [w EXCEPT !.hand[p] = h]
  BY DEF HandTo
<1>2. w \in Fields
  BY ProperParts
<1>3. w = [f \in FieldNames |-> w[f]] /\ w.hand \in [Players -> Seq(HeldCards)]
  BY <1>2, FieldIs
<1>4. /\ x = [f \in FieldNames |-> x[f]] /\ x.hand = [w.hand EXCEPT ![p] = h]
      /\ \A f \in FieldNames \ {"hand"} : x[f] = w[f]
  BY <1>1, <1>3 DEF FieldNames
<1>5. /\ x.hand \in [Players -> Seq(HeldCards)] /\ x.hand[p] = h
      /\ \A q \in Players : q # p => x.hand[q] = w.hand[q]
  BY <1>3, <1>4 DEF HandOf
<1>6. /\ x.deck = w.deck /\ x.monsters = w.monsters /\ x.spells = w.spells /\ x.grave = w.grave
      /\ x.banished = w.banished /\ x.extra = w.extra /\ x.chain = w.chain /\ x.lp = w.lp
      /\ x.list = w.list
  BY <1>4 DEF FieldNames
<1>7. x \in Fields
  BY <1>2, <1>4, <1>5, <1>6, FieldIs
<1>8. Proper(x)
  BY <1>5, <1>6, <1>7, ProperParts, ProperFrom
<1> QED
  BY <1>1, <1>4, <1>5, <1>8 DEF Keeps

(* The same of a deck,                                                      *)
LEMMA DeckSet ==
    ASSUME NEW w, Proper(w), NEW p \in Players, NEW h, h \in Seq(Codes),
           NEW x, DeckTo(w, x, p, h)
    PROVE  /\ Proper(x) /\ Keeps(w, x, {"deck"})
               /\ x.deck[p] = h /\ \A q \in Players : q # p => x.deck[q] = w.deck[q]
<1>1. x = [w EXCEPT !.deck[p] = h]
  BY DEF DeckTo
<1>2. w \in Fields
  BY ProperParts
<1>3. w = [f \in FieldNames |-> w[f]] /\ w.deck \in [Players -> Seq(Codes)]
  BY <1>2, FieldIs
<1>4. /\ x = [f \in FieldNames |-> x[f]] /\ x.deck = [w.deck EXCEPT ![p] = h]
      /\ \A f \in FieldNames \ {"deck"} : x[f] = w[f]
  BY <1>1, <1>3 DEF FieldNames
<1>5. /\ x.deck \in [Players -> Seq(Codes)] /\ x.deck[p] = h
      /\ \A q \in Players : q # p => x.deck[q] = w.deck[q]
  BY <1>3, <1>4
<1>6. /\ x.hand = w.hand /\ x.monsters = w.monsters /\ x.spells = w.spells /\ x.grave = w.grave
      /\ x.banished = w.banished /\ x.extra = w.extra /\ x.chain = w.chain /\ x.lp = w.lp
      /\ x.list = w.list
  BY <1>4 DEF FieldNames
<1>7. x \in Fields
  BY <1>2, <1>4, <1>5, <1>6, FieldIs
<1>8. Proper(x)
  BY <1>5, <1>6, <1>7, ProperParts, ProperFrom
<1> QED
  BY <1>1, <1>4, <1>5, <1>8 DEF Keeps

(* of a graveyard,                                                          *)
LEMMA GraveSet ==
    ASSUME NEW w, Proper(w), NEW p \in Players, NEW h, PileOf(h, p),
           NEW x, GraveTo(w, x, p, h)
    PROVE  /\ Proper(x) /\ Keeps(w, x, {"grave"})
               /\ x.grave[p] = h /\ \A q \in Players : q # p => x.grave[q] = w.grave[q]
<1>1. x = [w EXCEPT !.grave[p] = h]
  BY DEF GraveTo
<1>2. w \in Fields
  BY ProperParts
<1>3. w = [f \in FieldNames |-> w[f]] /\ w.grave \in [Players -> Seq(PlainCards)]
  BY <1>2, FieldIs
<1>4. /\ x = [f \in FieldNames |-> x[f]] /\ x.grave = [w.grave EXCEPT ![p] = h]
      /\ \A f \in FieldNames \ {"grave"} : x[f] = w[f]
  BY <1>1, <1>3 DEF FieldNames
<1>5. /\ x.grave \in [Players -> Seq(PlainCards)] /\ x.grave[p] = h
      /\ \A q \in Players : q # p => x.grave[q] = w.grave[q]
  BY <1>3, <1>4 DEF PileOf
<1>6. /\ x.hand = w.hand /\ x.deck = w.deck /\ x.monsters = w.monsters /\ x.spells = w.spells
      /\ x.banished = w.banished /\ x.extra = w.extra /\ x.chain = w.chain /\ x.lp = w.lp
      /\ x.list = w.list
  BY <1>4 DEF FieldNames
<1>7. x \in Fields
  BY <1>2, <1>4, <1>5, <1>6, FieldIs
<1>8. Proper(x)
  BY <1>5, <1>6, <1>7, ProperParts, ProperFrom
<1> QED
  BY <1>1, <1>4, <1>5, <1>8 DEF Keeps

(* of the banished cards,                                                   *)
LEMMA BanishedSet ==
    ASSUME NEW w, Proper(w), NEW p \in Players, NEW h, PileOf(h, p),
           NEW x, BanishedTo(w, x, p, h)
    PROVE  /\ Proper(x) /\ Keeps(w, x, {"banished"})
               /\ x.banished[p] = h /\ \A q \in Players : q # p => x.banished[q] = w.banished[q]
<1>1. x = [w EXCEPT !.banished[p] = h]
  BY DEF BanishedTo
<1>2. w \in Fields
  BY ProperParts
<1>3. w = [f \in FieldNames |-> w[f]] /\ w.banished \in [Players -> Seq(PlainCards)]
  BY <1>2, FieldIs
<1>4. /\ x = [f \in FieldNames |-> x[f]] /\ x.banished = [w.banished EXCEPT ![p] = h]
      /\ \A f \in FieldNames \ {"banished"} : x[f] = w[f]
  BY <1>1, <1>3 DEF FieldNames
<1>5. /\ x.banished \in [Players -> Seq(PlainCards)] /\ x.banished[p] = h
      /\ \A q \in Players : q # p => x.banished[q] = w.banished[q]
  BY <1>3, <1>4 DEF PileOf
<1>6. /\ x.hand = w.hand /\ x.deck = w.deck /\ x.monsters = w.monsters /\ x.spells = w.spells
      /\ x.grave = w.grave /\ x.extra = w.extra /\ x.chain = w.chain /\ x.lp = w.lp
      /\ x.list = w.list
  BY <1>4 DEF FieldNames
<1>7. x \in Fields
  BY <1>2, <1>4, <1>5, <1>6, FieldIs
<1>8. Proper(x)
  BY <1>5, <1>6, <1>7, ProperParts, ProperFrom
<1> QED
  BY <1>1, <1>4, <1>5, <1>8 DEF Keeps

(* of the chain,                                                            *)
LEMMA ChainSet ==
    ASSUME NEW w, Proper(w), NEW h, h \in Seq(Links),
           NEW x, ChainTo(w, x, h)
    PROVE  Proper(x) /\ Keeps(w, x, {"chain"}) /\ x.chain = h
<1>1. x = [w EXCEPT !.chain = h]
  BY DEF ChainTo
<1>2. w \in Fields
  BY ProperParts
<1>3. w = [f \in FieldNames |-> w[f]]
  BY <1>2, FieldIs
<1>4. /\ x = [f \in FieldNames |-> x[f]] /\ x.chain = h
      /\ \A f \in FieldNames \ {"chain"} : x[f] = w[f]
  BY <1>1, <1>3 DEF FieldNames
<1>5. x.chain \in Seq(Links)
  BY <1>4
<1>6. /\ x.hand = w.hand /\ x.deck = w.deck /\ x.monsters = w.monsters /\ x.spells = w.spells
      /\ x.grave = w.grave /\ x.banished = w.banished /\ x.extra = w.extra /\ x.lp = w.lp
      /\ x.list = w.list
  BY <1>4 DEF FieldNames
<1>7. x \in Fields
  BY <1>2, <1>4, <1>5, <1>6, FieldIs
<1>8. Proper(x)
  BY <1>5, <1>6, <1>7, ProperParts, ProperFrom
<1> QED
  BY <1>1, <1>4, <1>5, <1>8 DEF Keeps

(* of the life points,                                                      *)
LEMMA LifeSet ==
    ASSUME NEW w, Proper(w), NEW h, h \in [Players -> Nat],
           NEW x, LifeTo(w, x, h)
    PROVE  Proper(x) /\ Keeps(w, x, {"lp"}) /\ x.lp = h
<1>1. x = [w EXCEPT !.lp = h]
  BY DEF LifeTo
<1>2. w \in Fields
  BY ProperParts
<1>3. w = [f \in FieldNames |-> w[f]]
  BY <1>2, FieldIs
<1>4. /\ x = [f \in FieldNames |-> x[f]] /\ x.lp = h
      /\ \A f \in FieldNames \ {"lp"} : x[f] = w[f]
  BY <1>1, <1>3 DEF FieldNames
<1>5. x.lp \in [Players -> Nat]
  BY <1>4
<1>6. /\ x.hand = w.hand /\ x.deck = w.deck /\ x.monsters = w.monsters /\ x.spells = w.spells
      /\ x.grave = w.grave /\ x.banished = w.banished /\ x.extra = w.extra /\ x.chain = w.chain
      /\ x.list = w.list
  BY <1>4 DEF FieldNames
<1>7. x \in Fields
  BY <1>2, <1>4, <1>5, <1>6, FieldIs
<1>8. Proper(x)
  BY <1>5, <1>6, <1>7, ProperParts, ProperFrom
<1> QED
  BY <1>1, <1>4, <1>5, <1>8 DEF Keeps

(* of the monsters,                                                         *)
LEMMA MonstersSet ==
    ASSUME NEW w, Proper(w), NEW h, h \in [Players -> [MonsterSlots -> Seq(MonsterCards)]],
           \A p \in Players : MonstersOf(h[p]),
           NEW x, MonstersTo(w, x, h)
    PROVE  Proper(x) /\ Keeps(w, x, {"monsters"}) /\ x.monsters = h
<1>1. x = [w EXCEPT !.monsters = h]
  BY DEF MonstersTo
<1>2. w \in Fields
  BY ProperParts
<1>3. w = [f \in FieldNames |-> w[f]]
  BY <1>2, FieldIs
<1>4. /\ x = [f \in FieldNames |-> x[f]] /\ x.monsters = h
      /\ \A f \in FieldNames \ {"monsters"} : x[f] = w[f]
  BY <1>1, <1>3 DEF FieldNames
<1>5. x.monsters \in [Players -> [MonsterSlots -> Seq(MonsterCards)]] /\ \A p \in Players : MonstersOf(x.monsters[p])
  BY <1>4
<1>6. /\ x.hand = w.hand /\ x.deck = w.deck /\ x.spells = w.spells /\ x.grave = w.grave
      /\ x.banished = w.banished /\ x.extra = w.extra /\ x.chain = w.chain /\ x.lp = w.lp
      /\ x.list = w.list
  BY <1>4 DEF FieldNames
<1>7. x \in Fields
  BY <1>2, <1>4, <1>5, <1>6, FieldIs
<1>8. Proper(x)
  BY <1>5, <1>6, <1>7, ProperParts, ProperFrom
<1> QED
  BY <1>1, <1>4, <1>5, <1>8 DEF Keeps

(* and of the spells.                                                       *)
LEMMA SpellsSet ==
    ASSUME NEW w, Proper(w), NEW h, h \in [Players -> [SpellSlots -> Seq(SpellCards)]],
           \A p \in Players : SpellsOf(h[p], p),
           NEW x, SpellsTo(w, x, h)
    PROVE  Proper(x) /\ Keeps(w, x, {"spells"}) /\ x.spells = h
<1>1. x = [w EXCEPT !.spells = h]
  BY DEF SpellsTo
<1>2. w \in Fields
  BY ProperParts
<1>3. w = [f \in FieldNames |-> w[f]]
  BY <1>2, FieldIs
<1>4. /\ x = [f \in FieldNames |-> x[f]] /\ x.spells = h
      /\ \A f \in FieldNames \ {"spells"} : x[f] = w[f]
  BY <1>1, <1>3 DEF FieldNames
<1>5. x.spells \in [Players -> [SpellSlots -> Seq(SpellCards)]] /\ \A p \in Players : SpellsOf(x.spells[p], p)
  BY <1>4
<1>6. /\ x.hand = w.hand /\ x.deck = w.deck /\ x.monsters = w.monsters /\ x.grave = w.grave
      /\ x.banished = w.banished /\ x.extra = w.extra /\ x.chain = w.chain /\ x.lp = w.lp
      /\ x.list = w.list
  BY <1>4 DEF FieldNames
<1>7. x \in Fields
  BY <1>2, <1>4, <1>5, <1>6, FieldIs
<1>8. Proper(x)
  BY <1>5, <1>6, <1>7, ProperParts, ProperFrom
<1> QED
  BY <1>1, <1>4, <1>5, <1>8 DEF Keeps

(* Two values of one part of a field are the same to player 0. *)
SamePart(f, a, b) ==
    CASE f = "hand" -> b[me] = a[me] /\ Len(b[1]) = Len(a[1]) /\ SameShown(a[1], b[1])
      [] f = "deck" -> \A p \in Players : Len(b[p]) = Len(a[p])
      [] f = "monsters" -> \A p \in Players : \A s \in MonsterSlots : SameCards(a[p][s], b[p][s])
      [] f = "spells" -> \A p \in Players : \A s \in SpellSlots : SameCards(a[p][s], b[p][s])
      [] f \in {"grave", "banished", "extra"} -> \A p \in Players : SameCards(a[p], b[p])
      [] f \in {"chain", "lp"} -> b = a
      [] f = "list" -> /\ "own" \in KnownDecks => b[me] = a[me]
                       /\ "opponent" \in KnownDecks => b[1] = a[1]

(* Fields look the same if each of their parts does.                        *)
LEMMA PartsOfSame ==
    ASSUME NEW w, NEW v
    PROVE  (\A f \in FieldNames : SamePart(f, w[f], v[f])) <=> SameField(w, v) /\ HeldAlike(w, v)
<1>1. SamePart("hand", w.hand, v.hand) <=>
        /\ v.hand[me] = w.hand[me] /\ Len(v.hand[1]) = Len(w.hand[1]) /\ HeldAlike(w, v)
  BY DEF SamePart, HeldAlike, SameShown
<1>2. SamePart("deck", w.deck, v.deck) <=> \A p \in Players : Len(v.deck[p]) = Len(w.deck[p])
  BY DEF SamePart
<1>3. SamePart("monsters", w.monsters, v.monsters) <=>
        \A p \in Players : \A s \in MonsterSlots : SameCards(w.monsters[p][s], v.monsters[p][s])
  BY DEF SamePart
<1>4. SamePart("spells", w.spells, v.spells) <=>
        \A p \in Players : \A s \in SpellSlots : SameCards(w.spells[p][s], v.spells[p][s])
  BY DEF SamePart
<1>5. SamePart("grave", w.grave, v.grave) <=> \A p \in Players : SameCards(w.grave[p], v.grave[p])
  BY DEF SamePart
<1>6. SamePart("banished", w.banished, v.banished) <=>
        \A p \in Players : SameCards(w.banished[p], v.banished[p])
  BY DEF SamePart
<1>7. SamePart("extra", w.extra, v.extra) <=> \A p \in Players : SameCards(w.extra[p], v.extra[p])
  BY DEF SamePart
<1>8. /\ SamePart("chain", w.chain, v.chain) <=> v.chain = w.chain
      /\ SamePart("lp", w.lp, v.lp) <=> v.lp = w.lp
  BY DEF SamePart
<1>9. SamePart("list", w.list, v.list) <=>
        /\ "own" \in KnownDecks => v.list[me] = w.list[me]
        /\ "opponent" \in KnownDecks => v.list[1] = w.list[1]
  BY DEF SamePart
<1>10. (\A f \in FieldNames : SamePart(f, w[f], v[f])) <=>
         /\ SamePart("hand", w.hand, v.hand) /\ SamePart("deck", w.deck, v.deck)
         /\ SamePart("monsters", w.monsters, v.monsters) /\ SamePart("spells", w.spells, v.spells)
         /\ SamePart("grave", w.grave, v.grave) /\ SamePart("banished", w.banished, v.banished)
         /\ SamePart("extra", w.extra, v.extra) /\ SamePart("chain", w.chain, v.chain)
         /\ SamePart("lp", w.lp, v.lp) /\ SamePart("list", w.list, v.list)
  BY DEF FieldNames
<1>11. SameField(w, v) <=>
         /\ v.hand[me] = w.hand[me] /\ Len(v.hand[1]) = Len(w.hand[1])
         /\ v.chain = w.chain /\ v.lp = w.lp
         /\ ("own" \in KnownDecks => v.list[me] = w.list[me])
         /\ ("opponent" \in KnownDecks => v.list[1] = w.list[1])
         /\ \A p \in Players : Len(v.deck[p]) = Len(w.deck[p])
         /\ \A p \in Players : \A s \in MonsterSlots : SameCards(w.monsters[p][s], v.monsters[p][s])
         /\ \A p \in Players : \A s \in SpellSlots : SameCards(w.spells[p][s], v.spells[p][s])
         /\ \A p \in Players : SameCards(w.grave[p], v.grave[p])
         /\ \A p \in Players : SameCards(w.banished[p], v.banished[p])
         /\ \A p \in Players : SameCards(w.extra[p], v.extra[p])
  BY DEF SameField
<1> QED
  BY <1>1, <1>2, <1>3, <1>4, <1>5, <1>6, <1>7, <1>8, <1>9, <1>10, <1>11

(* Fields that were alike still are when what changed is the same. *)
LEMMA AlikeAfter ==
    ASSUME NEW w, NEW v, AlikeFields(w, v), NEW x, NEW y, Proper(x), Proper(y), NEW names,
           Keeps(w, x, names), Keeps(v, y, names), \A f \in names : SamePart(f, x[f], y[f])
    PROVE  AlikeFields(x, y)
<1>1. \A f \in FieldNames : SamePart(f, w[f], v[f])
  BY PartsOfSame DEF AlikeFields
<1>2. ASSUME NEW f \in FieldNames PROVE SamePart(f, x[f], y[f])
  <2>1. CASE f \in names
    BY <2>1
  <2>2. CASE f \notin names
    <3>1. x[f] = w[f] /\ y[f] = v[f]
      BY <2>2 DEF Keeps
    <3> QED
      BY <1>1, <3>1
  <2> QED
    BY <2>1, <2>2
<1>3. SameField(x, y) /\ HeldAlike(x, y)
  BY <1>2, PartsOfSame
<1> QED
  BY <1>3 DEF AlikeFields

(* What two steps both keep is kept.                                        *)
LEMMA KeepsBoth ==
    ASSUME NEW w, NEW x, NEW y, NEW S, NEW T, Keeps(w, x, S), Keeps(x, y, T)
    PROVE  Keeps(w, y, S \cup T)
  BY DEF Keeps

(* What is told of two moves comes to the same events for player 0. *)
SameTold(t, u) ==
    DOMAIN u = DOMAIN t /\ \A i \in DOMAIN t : EventsOf(u[i], me) = EventsOf(t[i], me)

(* Messages that tell player 0 the same leave the same session behind.      *)
LEMMA IngestAlike ==
    ASSUME NEW s, NEW t, NEW u, SameTold(t, u), NEW step
    PROVE  Ingest(s, u, me, step) = Ingest(s, t, me, step)
<1>1. [i \in DOMAIN u |-> EventsOf(u[i], me)] = [i \in DOMAIN t |-> EventsOf(t[i], me)]
  BY DEF SameTold
<1>2. PICK f : f = FlattenSeq([i \in DOMAIN t |-> EventsOf(t[i], me)])
  OBVIOUS
<1>3. FlattenSeq([i \in DOMAIN u |-> EventsOf(u[i], me)]) = f
  BY <1>1, <1>2
<1> QED
  BY <1>2, <1>3 DEF Ingest

----------------------------------------------------------------------------
(* Draws.                                                                   *)

(* A pair of moves that look the same to player 0. *)
Match(w, v, a, b) == AlikeFields(a.field, b.field) /\ SameTold(a.told, b.told)

(* The parts of a move.                                                     *)
LEMMA AfterIs ==
    ASSUME NEW f, NEW t, NEW s
    PROVE  After(f, t, s).field = f /\ After(f, t, s).told = t /\ After(f, t, s).seen = s
  BY DEF After

(* A drawn card may go anywhere.                                            *)
LEMMA CardIs ==
    ASSUME NEW code \in Codes, NEW p \in Players
    PROVE  /\ Card(code, p) \in HeldCards /\ Card(code, p) \in PlainCards
           /\ Card(code, p) \in MonsterCards /\ Card(code, p) \in SpellCards
           /\ Card(code, p).code = code /\ Card(code, p).owner = p
           /\ ~Card(code, p).up /\ ~Card(code, p).shown /\ Card(code, p).materials = <<>>
           /\ Card(code, p).equip = <<>> /\ Card(code, p).targets = <<>>
  BY DEF Card, HeldCards, PlainCards, MonsterCards, CardsWith, SpellCards

DrawnField(w, p) ==
    [w EXCEPT !.deck[p] = Tail(@), !.hand[p] = Append(@, Card(Head(w.deck[p]), p))]
DrawTold(w, p) ==
    <<[t |-> "draw", player |-> p, cards |-> <<[code |-> Card(Head(w.deck[p]), p).code, up |-> FALSE]>>]>>

(* What a draw does, tells and shows.                                       *)
LEMMA DrawIs ==
    ASSUME NEW w, NEW a \in Draws(w)
    PROVE  \E p \in Players :
              /\ w.deck[p] # <<>> /\ a.field = DrawnField(w, p) /\ a.told = DrawTold(w, p)
              /\ a.seen = <<"draw", p, IF p = me THEN Card(Head(w.deck[p]), p).code ELSE 0>>
<1>1. PICK p \in Players :
         /\ w.deck[p] # <<>>
         /\ a = After(DrawnField(w, p), DrawTold(w, p),
                      <<"draw", p, IF p = me THEN Card(Head(w.deck[p]), p).code ELSE 0>>)
  BY DEF Draws, DrawnField, DrawTold
<1> QED
  BY <1>1, AfterIs

(* The field after a draw.                                                  *)
LEMMA DrawField ==
    ASSUME NEW w, Proper(w), NEW p \in Players, w.deck[p] # <<>>
    PROVE  LET x == DrawnField(w, p)
           IN  /\ Proper(x) /\ Keeps(w, x, {"deck", "hand"})
               /\ x.deck[p] = Tail(w.deck[p]) /\ x.hand[p] = Append(w.hand[p], Card(Head(w.deck[p]), p))
               /\ \A q \in Players : q # p => x.deck[q] = w.deck[q] /\ x.hand[q] = w.hand[q]
               /\ Head(w.deck[p]) \in Codes /\ Len(Tail(w.deck[p])) = Len(w.deck[p]) - 1
<1>1. PICK c : c = Card(Head(w.deck[p]), p)
  OBVIOUS
<1>2. w.deck[p] \in Seq(Codes) /\ HandOf(w.hand[p], p)
  BY ProperParts
<1>3. /\ Head(w.deck[p]) \in Codes /\ Tail(w.deck[p]) \in Seq(Codes)
      /\ Len(Tail(w.deck[p])) = Len(w.deck[p]) - 1
  BY <1>2, HeadTailProperties
<1>4. c \in HeldCards /\ c.owner = p /\ ~c.up /\ ~c.shown
  BY <1>1, <1>3, CardIs
<1>5. PICK d, y : d = Tail(w.deck[p]) /\ DeckTo(w, y, p, d)
  BY DEF DeckTo
<1>6. /\ Proper(y) /\ Keeps(w, y, {"deck"}) /\ y.deck[p] = d
      /\ \A q \in Players : q # p => y.deck[q] = w.deck[q]
  <2>1. d \in Seq(Codes)
    BY <1>3, <1>5
  <2>2. DeckTo(w, y, p, d)
    BY <1>5
  <2> QED
    BY <2>1, <2>2, DeckSet
<1>7. y.hand = w.hand
  BY <1>6 DEF Keeps, FieldNames
<1>8. HandOf(Append(w.hand[p], c), p)
  <2>1. PICK h : h = w.hand[p]
    OBVIOUS
  <2>2. h \in Seq(HeldCards) /\ \A i \in 1..Len(h) : h[i].owner = p /\ h[i].up = h[i].shown /\ (h[i].shown => p = 1)
    BY <1>2, <2>1 DEF HandOf
  <2>3. /\ Append(h, c) \in Seq(HeldCards) /\ Len(Append(h, c)) = Len(h) + 1 /\ Len(h) \in Nat
        /\ \A i \in 1..Len(h) : Append(h, c)[i] = h[i]
        /\ Append(h, c)[Len(h) + 1] = c
    BY <1>4, <2>2
  <2>4. c.up \in BOOLEAN /\ c.shown \in BOOLEAN
    BY <1>4 DEF HeldCards
  <2>5. \A i \in 1..(Len(h) + 1) : LET g == Append(h, c)
          IN g[i].owner = p /\ g[i].up = g[i].shown /\ (g[i].shown => p = 1)
    BY <1>4, <2>2, <2>3, <2>4
  <2> QED
    BY <2>1, <2>3, <2>5 DEF HandOf
<1>9. PICK g, x : g = Append(w.hand[p], c) /\ HandTo(y, x, p, g)
  BY DEF HandTo
<1>10. /\ Proper(x) /\ Keeps(y, x, {"hand"}) /\ x.hand[p] = g
       /\ \A q \in Players : q # p => x.hand[q] = y.hand[q]
  <2>1. HandOf(g, p)
    BY <1>8, <1>9
  <2>2. Proper(y) /\ HandTo(y, x, p, g)
    BY <1>6, <1>9
  <2> QED
    BY <2>1, <2>2, HandSet
<1>11. x = DrawnField(w, p)
  BY <1>1, <1>5, <1>7, <1>9 DEF DrawnField, DeckTo, HandTo
<1>12. Keeps(w, x, {"deck"} \cup {"hand"}) /\ {"deck"} \cup {"hand"} = {"deck", "hand"}
  BY <1>6, <1>10, KeepsBoth
<1>13. x.deck = y.deck
  BY <1>10 DEF Keeps, FieldNames
<1> QED
  BY <1>1, <1>3, <1>5, <1>6, <1>7, <1>9, <1>10, <1>11, <1>12, <1>13

(* The events of the messages whose cards may be hidden.                    *)
LEMMA EventsAre ==
    ASSUME NEW m
    PROVE  /\ m.t = "move" => EventsOf(m, me) = <<Moved(m, me)>>
           /\ m.t = "set" => EventsOf(m, me) = <<Placed(CardSet, m, me)>>
           /\ m.t = "summoning" => EventsOf(m, me) = <<Placed(Summoned, m, me)>>
           /\ m.t = "draw" => EventsOf(m, me) = Drawn(m, me)
<1>1. m.t = "move" => EventsOf(m, me) = <<Moved(m, me)>>
  BY DEF EventsOf
<1>2. m.t = "set" => EventsOf(m, me) = <<Placed(CardSet, m, me)>>
  BY DEF EventsOf
<1>3. m.t = "summoning" => EventsOf(m, me) = <<Placed(Summoned, m, me)>>
  BY DEF EventsOf
<1>4. m.t = "draw" => EventsOf(m, me) = Drawn(m, me)
  BY DEF EventsOf
<1> QED
  BY <1>1, <1>2, <1>3, <1>4

(* A card moved, of which the code shows only if it lies face up at one end. *)
LEMMA MoveAlike ==
    ASSUME NEW c, NEW d, NEW f, NEW g, NEW to, NEW destroyed,
           g.up = f.up, ZoneAt(g) = ZoneAt(f), f.up \/ to.up => d.code = c.code
    PROVE  EventsOf(MoveTold(d, g, to, destroyed), me) = EventsOf(MoveTold(c, f, to, destroyed), me)
<1>1. PICK m, n : m = MoveTold(c, f, to, destroyed) /\ n = MoveTold(d, g, to, destroyed)
  OBVIOUS
<1>2. /\ m.t = "move" /\ m.code = c.code /\ m.from = f /\ m.to = to /\ m.destroyed = destroyed
      /\ n.t = "move" /\ n.code = d.code /\ n.from = g /\ n.to = to /\ n.destroyed = destroyed
  BY <1>1 DEF MoveTold
<1>3. MoveKind(n) = MoveKind(m)
  BY <1>2 DEF MoveKind
<1>4. Given(Shows(n.from, me) \/ Shows(n.to, me), n.code)
        = Given(Shows(m.from, me) \/ Shows(m.to, me), m.code)
  BY <1>2 DEF Given, Shows
<1>5. PICK k, code, from, at, entity :
         /\ k = MoveKind(m) /\ code = Given(Shows(m.from, me) \/ Shows(m.to, me), m.code)
         /\ from = ZoneAt(f) /\ at = ZoneAt(to) /\ entity = SafeLocator(to, me, FALSE)
  OBVIOUS
<1>6. Moved(m, me) = [Bare(k) EXCEPT !.player = <<to.controller>>, !.from = <<from>>, !.to = <<at>>,
                                     !.code = code, !.entity = entity]
  BY <1>2, <1>5 DEF Moved
<1>7. Moved(n, me) = [Bare(k) EXCEPT !.player = <<to.controller>>, !.from = <<from>>, !.to = <<at>>,
                                     !.code = code, !.entity = entity]
  BY <1>2, <1>3, <1>4, <1>5 DEF Moved
<1> QED
  BY <1>1, <1>2, <1>6, <1>7, EventsAre

(* A card placed, of which the code shows only if it lies face up. *)
LEMMA PlacedAlike ==
    ASSUME NEW c, NEW d, NEW at, NEW t \in {"set", "summoning"}, at.up => d.code = c.code
    PROVE  EventsOf(AtTold(t, d, at), me) = EventsOf(AtTold(t, c, at), me)
<1>1. PICK m, n : m = AtTold(t, c, at) /\ n = AtTold(t, d, at)
  OBVIOUS
<1>2. m.t = t /\ m.code = c.code /\ m.at = at /\ n.t = t /\ n.code = d.code /\ n.at = at
  BY <1>1 DEF AtTold
<1>3. Given(Shows(n.at, me), n.code) = Given(Shows(m.at, me), m.code)
  BY <1>2 DEF Given, Shows
<1>4. PICK code, zone, entity :
         /\ code = Given(Shows(m.at, me), m.code) /\ zone = ZoneAt(at)
         /\ entity = SafeLocator(at, me, FALSE)
  OBVIOUS
<1>5. \A kind : Placed(kind, m, me) = [Bare(kind) EXCEPT !.player = <<at.controller>>, !.to = <<zone>>,
                                                        !.code = code, !.entity = entity]
  BY <1>2, <1>4 DEF Placed
<1>6. \A kind : Placed(kind, n, me) = [Bare(kind) EXCEPT !.player = <<at.controller>>, !.to = <<zone>>,
                                                        !.code = code, !.entity = entity]
  BY <1>2, <1>3, <1>4 DEF Placed
<1>7. \A kind : Placed(kind, n, me) = Placed(kind, m, me)
  BY <1>5, <1>6
<1> QED
  BY <1>1, <1>2, <1>7, EventsAre

DrawnWith(player, count, shown) ==
    <<[Bare(Draw) EXCEPT !.player = <<player>>, !.count = <<count>>]>>
    \o [i \in DOMAIN shown |->
          [Bare(CardRevealed) EXCEPT !.player = <<player>>, !.code = <<shown[i].code>>]]

(* The events of a draw, from the cards it shows.                           *)
LEMMA DrawnIs ==
    ASSUME NEW m
    PROVE  Drawn(m, me)
             = DrawnWith(m.player, Len(m.cards),
                         Selected(m.cards, {i \in DOMAIN m.cards : m.player = me \/ m.cards[i].up}))
  BY DEF Drawn, DrawnWith

(* A hidden card drawn by the opponent. *)
LEMMA DrawnHidden ==
    ASSUME NEW m, m.t = "draw", m.player = 1, Len(m.cards) = 1, DOMAIN m.cards = {1},
           ~m.cards[1].up
    PROVE  EventsOf(m, me) = DrawnWith(1, 1, <<>>)
<1>1. PICK P : P = {i \in DOMAIN m.cards : m.player = me \/ m.cards[i].up}
  OBVIOUS
<1>2. P = {}
  BY <1>1 DEF me
<1>3. Drawn(m, me) = DrawnWith(m.player, Len(m.cards), Selected(m.cards, P))
  BY <1>1, DrawnIs
<1>4. Selected(m.cards, P) = <<>>
  BY <1>2, FS_EmptySet DEF Selected
<1> QED
  BY <1>3, <1>4, EventsAre

(* The opponent's draws all tell the same.                                  *)
LEMMA DrawAlike ==
    ASSUME NEW c, NEW d, NEW m, NEW n,
           m = [t |-> "draw", player |-> 1, cards |-> <<[code |-> c, up |-> FALSE]>>],
           n = [t |-> "draw", player |-> 1, cards |-> <<[code |-> d, up |-> FALSE]>>]
    PROVE  EventsOf(n, me) = EventsOf(m, me)
<1>1. m.t = "draw" /\ m.player = 1 /\ Len(m.cards) = 1 /\ DOMAIN m.cards = {1} /\ ~m.cards[1].up
  OBVIOUS
<1>2. n.t = "draw" /\ n.player = 1 /\ Len(n.cards) = 1 /\ DOMAIN n.cards = {1} /\ ~n.cards[1].up
  OBVIOUS
<1> QED
  BY <1>1, <1>2, DrawnHidden

(* The same messages tell the same.                                         *)
LEMMA SameMessages ==
    ASSUME NEW t, NEW u, u = t
    PROVE  SameTold(t, u)
  BY DEF SameTold

(* The same of two hands of which one is empty-handed. *)
OtherHands(w, x, p) == \A q \in Players : q # p => x.hand[q] = w.hand[q]
SameHand(h, g, p) ==
    /\ p = me => g = h
    /\ p = 1 => Len(g) = Len(h) /\ SameShown(h, g)

(* Hands look the same if the one that changed does.                        *)
LEMMA HandsSame ==
    ASSUME NEW w, NEW v, AlikeFields(w, v), NEW p \in Players, NEW x, OtherHands(w, x, p),
           NEW y, OtherHands(v, y, p), SameHand(x.hand[p], y.hand[p], p)
    PROVE  SamePart("hand", x.hand, y.hand)
<1>1. SameField(w, v) /\ HeldAlike(w, v)
  BY DEF AlikeFields
<1>2. v.hand[me] = w.hand[me] /\ Len(v.hand[1]) = Len(w.hand[1]) /\ SameShown(w.hand[1], v.hand[1])
  BY <1>1 DEF SameField, HeldAlike, SameShown
<1>3. y.hand[me] = x.hand[me]
  BY <1>2 DEF Players, me, OtherHands, SameHand
<1>4. Len(y.hand[1]) = Len(x.hand[1]) /\ SameShown(x.hand[1], y.hand[1])
  BY <1>2 DEF Players, me, OtherHands, SameHand
<1> QED
  BY <1>3, <1>4 DEF SamePart

(* Draws that player 0 cannot tell apart leave fields and messages that     *)
(* look the same.                                                           *)
LEMMA DrawsAlike ==
    ASSUME NEW w, NEW v, AlikeFields(w, v), NEW a \in Draws(w), NEW b \in Draws(v),
           a.seen = b.seen
    PROVE  Match(w, v, a, b)
<1>1. PICK p \in Players :
         /\ w.deck[p] # <<>> /\ a.field = DrawnField(w, p) /\ a.told = DrawTold(w, p)
         /\ a.seen = <<"draw", p, IF p = me THEN Card(Head(w.deck[p]), p).code ELSE 0>>
  BY DrawIs
<1>2. PICK q \in Players :
         /\ v.deck[q] # <<>> /\ b.field = DrawnField(v, q) /\ b.told = DrawTold(v, q)
         /\ b.seen = <<"draw", q, IF q = me THEN Card(Head(v.deck[q]), q).code ELSE 0>>
  BY DrawIs
<1>3. q = p /\ (p = me => Card(Head(w.deck[p]), p).code = Card(Head(v.deck[p]), p).code)
  <2>1. PICK c, d : c = Card(Head(w.deck[p]), p).code /\ d = Card(Head(v.deck[q]), q).code
    OBVIOUS
  <2>2. PICK i, j : i = (IF p = me THEN c ELSE 0) /\ j = (IF q = me THEN d ELSE 0)
    OBVIOUS
  <2>3. a.seen = <<"draw", p, i>> /\ b.seen = <<"draw", q, j>>
    BY <1>1, <1>2, <2>1, <2>2
  <2>4. <<"draw", p, i>> = <<"draw", q, j>>
    BY <2>3
  <2>5. p = q /\ i = j
    BY <2>4
  <2> QED
    BY <2>1, <2>2, <2>5
<1>4. PICK x, y, h, g : /\ x = DrawnField(w, p) /\ y = DrawnField(v, p)
                        /\ h = Head(w.deck[p]) /\ g = Head(v.deck[p])
  OBVIOUS
<1>5. Proper(w) /\ Proper(v) /\ SameField(w, v) /\ HeldAlike(w, v)
  BY DEF AlikeFields
<1>6. /\ Proper(x) /\ Keeps(w, x, {"deck", "hand"})
      /\ x.deck[p] = Tail(w.deck[p]) /\ x.hand[p] = Append(w.hand[p], Card(h, p))
      /\ \A o \in Players : o # p => x.deck[o] = w.deck[o] /\ x.hand[o] = w.hand[o]
      /\ h \in Codes /\ Len(Tail(w.deck[p])) = Len(w.deck[p]) - 1
  BY <1>1, <1>4, <1>5, DrawField
<1>7. /\ Proper(y) /\ Keeps(v, y, {"deck", "hand"})
      /\ y.deck[p] = Tail(v.deck[p]) /\ y.hand[p] = Append(v.hand[p], Card(g, p))
      /\ \A o \in Players : o # p => y.deck[o] = v.deck[o] /\ y.hand[o] = v.hand[o]
      /\ g \in Codes /\ Len(Tail(v.deck[p])) = Len(v.deck[p]) - 1
  BY <1>2, <1>3, <1>4, <1>5, DrawField
<1>8. \A o \in Players : Len(v.deck[o]) = Len(w.deck[o])
  BY <1>5 DEF SameField
<1>9. SamePart("deck", x.deck, y.deck)
  <2>1. \A o \in Players : Len(y.deck[o]) = Len(x.deck[o])
    BY <1>6, <1>7, <1>8
  <2> QED
    BY <2>1 DEF SamePart
<1>10. h \in Codes /\ g \in Codes /\ (p = me => g = h)
  BY <1>3, <1>4, <1>6, <1>7, CardIs
<1>11. /\ Card(h, p) \in HeldCards /\ ~Card(h, p).shown
       /\ Card(g, p) \in HeldCards /\ ~Card(g, p).shown
  BY <1>10, CardIs
<1>12. p = me => y.hand[p] = x.hand[p]
  <2>1. p = me => v.hand[p] = w.hand[p]
    BY <1>5 DEF SameField
  <2> QED
    BY <1>6, <1>7, <1>10, <2>1
<1>13. p = 1 => Len(y.hand[p]) = Len(x.hand[p]) /\ SameShown(x.hand[p], y.hand[p])
  <2>1. SUFFICES ASSUME p = 1
                 PROVE  Len(y.hand[1]) = Len(x.hand[1]) /\ SameShown(x.hand[1], y.hand[1])
    OBVIOUS
  <2>2. PICK i, j : i = w.hand[1] /\ j = v.hand[1]
    OBVIOUS
  <2>3. i \in Seq(HeldCards) /\ j \in Seq(HeldCards)
    BY <1>5, <2>2, ProperParts DEF Players, HandOf
  <2>4. Len(j) = Len(i) /\ SameShown(i, j)
    BY <1>5, <2>2 DEF SameField, HeldAlike, SameShown
  <2>5. PICK c, d : c = Card(h, 1) /\ d = Card(g, 1)
    OBVIOUS
  <2>6. c \in HeldCards /\ ~c.shown /\ d \in HeldCards /\ ~d.shown
    BY <1>11, <2>1, <2>5
  <2>7. Len(Append(j, d)) = Len(Append(i, c))
    BY <2>3, <2>4, <2>6
  <2>8. \A codes : ShownIn(Append(i, c), codes) = ShownIn(i, codes)
    BY <2>3, <2>6, ShownAppended
  <2>9. \A codes : ShownIn(Append(j, d), codes) = ShownIn(j, codes)
    BY <2>3, <2>6, ShownAppended
  <2>10. SameShown(Append(i, c), Append(j, d))
    BY <2>4, <2>8, <2>9 DEF SameShown
  <2> QED
    BY <1>6, <1>7, <2>1, <2>2, <2>5, <2>7, <2>10
<1>14. SamePart("hand", x.hand, y.hand)
  <2>1. OtherHands(w, x, p) /\ OtherHands(v, y, p)
    BY <1>6, <1>7 DEF OtherHands
  <2>2. SameHand(x.hand[p], y.hand[p], p)
    BY <1>12, <1>13 DEF SameHand
  <2> QED
    BY <2>1, <2>2, HandsSame
<1>15. \A f \in {"deck", "hand"} : SamePart(f, x[f], y[f])
  BY <1>9, <1>14
<1>16. AlikeFields(x, y)
  BY <1>6, <1>7, <1>15, AlikeAfter
<1>17. SameTold(a.told, b.told)
  <2>1. CASE p = me
    <3>1. a.told = DrawTold(w, p) /\ b.told = DrawTold(v, p) /\ h = g
      BY <1>1, <1>2, <1>3, <1>10, <2>1
    <3>2. DrawTold(v, p) = DrawTold(w, p)
      BY <1>4, <3>1 DEF DrawTold
    <3> QED
      BY <3>1, <3>2, SameMessages
  <2>2. CASE p # me
    <3>1. p = 1
      BY <2>2 DEF Players, me
    <3>2. PICK m, n : /\ m = [t |-> "draw", player |-> 1, cards |-> <<[code |-> Card(h, p).code, up |-> FALSE]>>]
                      /\ n = [t |-> "draw", player |-> 1, cards |-> <<[code |-> Card(g, p).code, up |-> FALSE]>>]
      OBVIOUS
    <3>3. a.told = <<m>> /\ b.told = <<n>>
      BY <1>1, <1>2, <1>3, <1>4, <3>1, <3>2 DEF DrawTold
    <3>4. EventsOf(n, me) = EventsOf(m, me)
      BY <3>2, DrawAlike
    <3> QED
      BY <3>3, <3>4 DEF SameTold
  <2> QED
    BY <2>1, <2>2
<1> QED
  BY <1>1, <1>2, <1>3, <1>4, <1>16, <1>17 DEF Match

----------------------------------------------------------------------------
(* One slot of the field.                                                   *)

Rows == {"monsters", "spells"}

(* What a slot of p may hold. *)
SlotCards(row, p, cards) ==
    /\ Len(cards) <= 1
    /\ row = "monsters" => cards \in Seq(MonsterCards)
    /\ row = "spells" => /\ cards \in Seq(SpellCards)
                         /\ cards # <<>> => /\ cards[1].owner = p
                                            /\ p = 0 => cards[1].equip = <<>> /\ cards[1].targets = <<>>

SlotTo(w, x, row, p, s, cards) == x = [w EXCEPT ![row][p][s] = cards]
Holds(w, row, p, s) == w[row][p][s]
OtherSlots(w, x, row, p, s) ==
    \A q \in Players : \A t \in Slots(row) :
        q # p \/ t # s => Holds(x, row, q, t) = Holds(w, row, q, t)

(* A proper field with another card, or none, in a slot is proper, the rest *)
(* as it was.                                                               *)
LEMMA SlotSet ==
    ASSUME NEW w, Proper(w), NEW row \in Rows, NEW p \in Players, NEW s \in Slots(row), NEW cards,
           SlotCards(row, p, cards), NEW x, SlotTo(w, x, row, p, s, cards)
    PROVE  /\ Proper(x) /\ Keeps(w, x, {row}) /\ Holds(x, row, p, s) = cards
           /\ OtherSlots(w, x, row, p, s)
<1>1. CASE row = "monsters"
  <2>1. s \in MonsterSlots /\ Slots(row) = MonsterSlots
    BY <1>1 DEF Slots
  <2>2. w \in Fields
    BY ProperParts
  <2>3. w = [f \in FieldNames |-> w[f]]
        /\ w.monsters \in [Players -> [MonsterSlots -> Seq(MonsterCards)]]
    BY <2>2, FieldIs
  <2>4. PICK m : m = [w.monsters EXCEPT ![p][s] = cards]
    OBVIOUS
  <2>5. MonstersTo(w, x, m)
    BY <1>1, <2>4 DEF MonstersTo, SlotTo
  <2>6. cards \in Seq(MonsterCards) /\ Len(cards) <= 1
    BY <1>1 DEF SlotCards
  <2>7. m \in [Players -> [MonsterSlots -> Seq(MonsterCards)]]
    BY <2>1, <2>3, <2>4, <2>6
  <2>8. m[p][s] = cards /\ \A q \in Players : \A t \in MonsterSlots :
                              q # p \/ t # s => m[q][t] = w.monsters[q][t]
    BY <2>1, <2>3, <2>4
  <2>9. ASSUME NEW q \in Players PROVE MonstersOf(m[q])
    <3>1. MonstersOf(w.monsters[q])
      BY ProperParts
    <3>2. m[q] \in [MonsterSlots -> Seq(MonsterCards)]
      BY <2>7
    <3>3. ASSUME NEW t \in MonsterSlots PROVE Len(m[q][t]) <= 1
      <4>1. CASE ~(q # p \/ t # s)
        BY <2>6, <2>8, <4>1
      <4>2. CASE q # p \/ t # s
        <5>1. m[q][t] = w.monsters[q][t]
          BY <2>8, <4>2
        <5> QED
          BY <3>1, <5>1 DEF MonstersOf
      <4> QED
        BY <4>1, <4>2
    <3> QED
      BY <3>2, <3>3 DEF MonstersOf
  <2>10. \A q \in Players : MonstersOf(m[q])
    BY <2>9
  <2>11. Proper(x) /\ Keeps(w, x, {"monsters"}) /\ x.monsters = m
    BY <2>5, <2>7, <2>10, MonstersSet
  <2> QED
    BY <1>1, <2>1, <2>8, <2>11 DEF Holds, OtherSlots
<1>2. CASE row = "spells"
  <2>1. s \in SpellSlots /\ Slots(row) = SpellSlots
    BY <1>2 DEF Slots
  <2>2. w \in Fields
    BY ProperParts
  <2>3. w = [f \in FieldNames |-> w[f]]
        /\ w.spells \in [Players -> [SpellSlots -> Seq(SpellCards)]]
    BY <2>2, FieldIs
  <2>4. PICK m : m = [w.spells EXCEPT ![p][s] = cards]
    OBVIOUS
  <2>5. SpellsTo(w, x, m)
    BY <1>2, <2>4 DEF SpellsTo, SlotTo
  <2>6. /\ cards \in Seq(SpellCards) /\ Len(cards) <= 1
        /\ cards # <<>> => /\ cards[1].owner = p
                           /\ p = 0 => cards[1].equip = <<>> /\ cards[1].targets = <<>>
    BY <1>2 DEF SlotCards
  <2>7. m \in [Players -> [SpellSlots -> Seq(SpellCards)]]
    BY <2>1, <2>3, <2>4, <2>6
  <2>8. m[p][s] = cards /\ \A q \in Players : \A t \in SpellSlots :
                              q # p \/ t # s => m[q][t] = w.spells[q][t]
    BY <2>1, <2>3, <2>4
  <2>9. ASSUME NEW q \in Players PROVE SpellsOf(m[q], q)
    <3>1. SpellsOf(w.spells[q], q)
      BY ProperParts
    <3>2. m[q] \in [SpellSlots -> Seq(SpellCards)]
      BY <2>7
    <3>3. ASSUME NEW t \in SpellSlots
          PROVE  /\ Len(m[q][t]) <= 1
                 /\ m[q][t] # <<>> =>
                       /\ m[q][t][1].owner = q
                       /\ q = 0 => m[q][t][1].equip = <<>> /\ m[q][t][1].targets = <<>>
      <4>1. CASE ~(q # p \/ t # s)
        BY <2>6, <2>8, <4>1
      <4>2. CASE q # p \/ t # s
        <5>1. m[q][t] = w.spells[q][t]
          BY <2>8, <4>2
        <5> QED
          BY <3>1, <5>1 DEF SpellsOf
      <4> QED
        BY <4>1, <4>2
    <3> QED
      BY <3>2, <3>3 DEF SpellsOf
  <2>10. \A q \in Players : SpellsOf(m[q], q)
    BY <2>9
  <2>11. Proper(x) /\ Keeps(w, x, {"spells"}) /\ x.spells = m
    BY <2>5, <2>7, <2>10, SpellsSet
  <2> QED
    BY <1>2, <2>1, <2>8, <2>11 DEF Holds, OtherSlots
<1> QED
  BY <1>1, <1>2 DEF Rows

(* The same rows after the same was put in the same slot. *)
LEMMA RowSame ==
    ASSUME NEW row \in Rows, NEW w, NEW v, SamePart(row, w[row], v[row]), NEW p, NEW s,
           NEW x, OtherSlots(w, x, row, p, s), NEW y, OtherSlots(v, y, row, p, s),
           SameCards(Holds(x, row, p, s), Holds(y, row, p, s))
    PROVE  SamePart(row, x[row], y[row])
<1>1. \A q \in Players : \A t \in Slots(row) : SameCards(Holds(w, row, q, t), Holds(v, row, q, t))
  BY DEF SamePart, Rows, Slots, Holds
<1>2. \A q \in Players : \A t \in Slots(row) : SameCards(Holds(x, row, q, t), Holds(y, row, q, t))
  BY <1>1 DEF OtherSlots
<1> QED
  BY <1>2 DEF SamePart, Rows, Slots, Holds

(* One card that looks the same is a list that does.                        *)
LEMMA OneSame ==
    ASSUME NEW c, NEW d, SameCard(c, d)
    PROVE  SameCards(<<c>>, <<d>>)
  BY DEF SameCards

(* Each part of fields that look the same looks the same.                   *)
LEMMA PartOf ==
    ASSUME NEW w, NEW v, AlikeFields(w, v), NEW f \in FieldNames
    PROVE  SamePart(f, w[f], v[f])
  BY PartsOfSame DEF AlikeFields

----------------------------------------------------------------------------
(* Plays.                                                                   *)

PlacedCard(c, up) == [Fresh(c) EXCEPT !.up = up]

(* A card as it is placed.                                                  *)
LEMMA PlacedCardIs ==
    ASSUME NEW c, c.code \in Codes, NEW p \in Players, c.owner = p, NEW up \in BOOLEAN
    PROVE  LET d == PlacedCard(c, up)
           IN  /\ d.code = c.code /\ d.owner = p /\ d.up = up /\ ~d.shown /\ d.materials = <<>>
               /\ d.equip = <<>> /\ d.targets = <<>> /\ d.shown = FALSE
               /\ d \in PlainCards /\ d \in MonsterCards /\ d \in SpellCards /\ d \in HeldCards
<1>1. PICK d : d = PlacedCard(c, up)
  OBVIOUS
<1>2. d = [code |-> c.code, owner |-> p, up |-> up, shown |-> FALSE, materials |-> <<>>,
           equip |-> <<>>, targets |-> <<>>]
  BY <1>1 DEF PlacedCard, Fresh, Card
<1>3. <<>> \in Seq(PlainCards) /\ <<>> \in Seq(Aimed)
  OBVIOUS
<1>4. d \in PlainCards
  BY <1>2 DEF PlainCards, CardsWith
<1>5. d \in MonsterCards
  BY <1>2, <1>3 DEF MonsterCards, CardsWith
<1>6. d \in SpellCards /\ d \in HeldCards
  BY <1>2, <1>3 DEF SpellCards, HeldCards
<1> QED
  BY <1>1, <1>2, <1>4, <1>5, <1>6

(* A placed card goes to a slot of its owner's. *)
LEMMA PlacedGoes ==
    ASSUME NEW c, c.code \in Codes, NEW p \in Players, c.owner = p, NEW up \in BOOLEAN,
           NEW row \in Rows
    PROVE  SlotCards(row, p, <<PlacedCard(c, up)>>)
<1>1. PICK d : d = PlacedCard(c, up)
  OBVIOUS
<1>2. /\ d.owner = p /\ d.materials = <<>> /\ d.equip = <<>> /\ d.targets = <<>>
      /\ d \in MonsterCards /\ d \in SpellCards
  BY <1>1, PlacedCardIs
<1>3. PICK cards : cards = <<d>>
  OBVIOUS
<1>4. /\ Len(cards) = 1 /\ cards[1] = d /\ cards \in Seq(MonsterCards) /\ cards \in Seq(SpellCards)
  BY <1>2, <1>3
<1>5. SlotCards(row, p, cards)
  BY <1>2, <1>4 DEF SlotCards
<1> QED
  BY <1>1, <1>3, <1>5

PlayedField(w, p, i, row, s, up) ==
    [w EXCEPT !.hand[p] = RemoveAt(@, i), ![row][p][s] = <<PlacedCard(w.hand[p][i], up)>>]
PlayedTold(w, p, i, row, s, up) ==
    LET c == w.hand[p][i]
        to == OnField(row, p, s, PlacedCard(c, up))
    IN  <<MoveTold(c, InHand(p, i, c), to, FALSE),
          AtTold(IF up THEN "summoning" ELSE "set", c, to)>>
        \o (IF up THEN <<[t |-> "summoned"]>> ELSE <<>>)
PlayedSeen(p, row, s, up, shown, i, code) ==
    <<"play", p, row, s, up, shown, IF p = me THEN i ELSE 0,
      IF p = me \/ up \/ shown THEN code ELSE 0>>

(* What a play does, tells and shows.                                       *)
LEMMA PlayIs ==
    ASSUME NEW w, NEW a \in Plays(w)
    PROVE  \E p \in Players, row \in Rows, up \in BOOLEAN :
           \E i \in DOMAIN w.hand[p], s \in Free(w, row, p) :
              /\ a.field = PlayedField(w, p, i, row, s, up)
              /\ a.told = PlayedTold(w, p, i, row, s, up)
              /\ a.seen = PlayedSeen(p, row, s, up, w.hand[p][i].shown, i, w.hand[p][i].code)
<1>1. \E p \in Players, row \in Rows, up \in BOOLEAN :
      \E i \in DOMAIN w.hand[p], s \in Free(w, row, p) : a = Played(w, p, i, row, s, up)
  <2>1. PICK p \in Players, row \in Rows :
           a \in {Played(w, p, i, row, s, up)
                 : i \in DOMAIN w.hand[p], s \in Free(w, row, p),
                   up \in {u \in BOOLEAN : u => row = "monsters"}}
    BY DEF Plays, Rows
  <2> QED
    BY <2>1
<1>2. \A p, i, row, s, up :
         /\ Played(w, p, i, row, s, up).field = PlayedField(w, p, i, row, s, up)
         /\ Played(w, p, i, row, s, up).told = PlayedTold(w, p, i, row, s, up)
         /\ Played(w, p, i, row, s, up).seen
              = PlayedSeen(p, row, s, up, w.hand[p][i].shown, i, w.hand[p][i].code)
  BY DEF Played, After, PlayedField, PlayedTold, PlayedSeen, PlacedCard
<1> QED
  BY <1>1, <1>2

(* Plays that player 0 cannot tell apart go to the same slot, the same way  *)
(* up, with the same code if that shows.                                    *)
LEMMA SeenPlay ==
    ASSUME NEW p \in Players, NEW row \in Rows, NEW s, NEW up \in BOOLEAN, NEW shown \in BOOLEAN,
           NEW i, NEW code,
           NEW q \in Players, NEW line \in Rows, NEW t, NEW above \in BOOLEAN, NEW seen \in BOOLEAN,
           NEW j, NEW number,
           PlayedSeen(p, row, s, up, shown, i, code) = PlayedSeen(q, line, t, above, seen, j, number)
    PROVE  /\ q = p /\ line = row /\ t = s /\ above = up /\ seen = shown /\ (p = me => j = i)
           /\ p = me \/ up \/ shown => number = code
<1>1. PICK a, b : a = (IF p = me THEN i ELSE 0) /\ b = (IF p = me \/ up \/ shown THEN code ELSE 0)
  OBVIOUS
<1>2. PICK c, d : c = (IF q = me THEN j ELSE 0) /\ d = (IF q = me \/ above \/ seen THEN number ELSE 0)
  OBVIOUS
<1>3. <<"play", p, row, s, up, shown, a, b>> = <<"play", q, line, t, above, seen, c, d>>
  BY <1>1, <1>2 DEF PlayedSeen
<1>4. q = p /\ line = row /\ t = s /\ above = up /\ seen = shown /\ c = a /\ d = b
  BY <1>3
<1> QED
  BY <1>1, <1>2, <1>4

PlayGoes(w, x, c, p, i, row, s, up) ==
    /\ Proper(x) /\ Keeps(w, x, {"hand", row})
    /\ x.hand[p] = RemoveAt(w.hand[p], i)
    /\ \A q \in Players : q # p => x.hand[q] = w.hand[q]
    /\ s \in Slots(row) /\ Holds(x, row, p, s) = <<PlacedCard(c, up)>>
    /\ \A q \in Players : \A t \in Slots(row) :
          q # p \/ t # s => Holds(x, row, q, t) = Holds(w, row, q, t)
    /\ c \in HeldCards /\ c.code \in Codes /\ c.owner = p /\ c.up = c.shown
    /\ c.shown \in BOOLEAN

(* The field after a play.                                                  *)
LEMMA PlayField ==
    ASSUME NEW w, Proper(w), NEW p \in Players, NEW row \in Rows, NEW up \in BOOLEAN,
           NEW i \in DOMAIN w.hand[p], NEW s \in Free(w, row, p)
    PROVE  PlayGoes(w, PlayedField(w, p, i, row, s, up), w.hand[p][i], p, i, row, s, up)
<1>1. PICK h, c : h = w.hand[p] /\ c = h[i]
  OBVIOUS
<1>2. HandOf(w.hand[p], p)
  BY ProperParts
<1>3. /\ h \in Seq(HeldCards) /\ i \in 1..Len(h)
      /\ \A j \in 1..Len(h) : h[j].owner = p /\ h[j].up = h[j].shown /\ (h[j].shown => p = 1)
  BY <1>1, <1>2 DEF HandOf
<1>4. c \in HeldCards /\ c.owner = p /\ c.up = c.shown
  BY <1>1, <1>3
<1>5. c.code \in Codes /\ c.shown \in BOOLEAN
  BY <1>4 DEF HeldCards
<1>6. s \in Slots(row)
  BY DEF Free
<1>7. PICK g : g = RemoveAt(h, i)
  OBVIOUS
<1>8. HandOf(g, p)
  <2>1. /\ g \in Seq(HeldCards) /\ Len(g) = Len(h) - 1
        /\ \A j \in 1..(Len(h) - 1) : g[j] = IF j < i THEN h[j] ELSE h[j + 1]
    BY <1>3, <1>7, Removed
  <2>2. Len(h) \in Nat
    BY <1>3
  <2>3. ASSUME NEW j \in 1..Len(g)
        PROVE  g[j].owner = p /\ g[j].up = g[j].shown /\ (g[j].shown => p = 1)
    <3>1. j \in 1..(Len(h) - 1) /\ j \in 1..Len(h) /\ j + 1 \in 1..Len(h)
      BY <2>1, <2>2
    <3>2. g[j] = h[j] \/ g[j] = h[j + 1]
      BY <2>1, <3>1
    <3> QED
      BY <1>3, <3>1, <3>2
  <2> QED
    BY <2>1, <2>3 DEF HandOf
<1>9. PICK y : HandTo(w, y, p, g)
  BY DEF HandTo
<1>10. /\ Proper(y) /\ Keeps(w, y, {"hand"}) /\ y.hand[p] = g
       /\ \A q \in Players : q # p => y.hand[q] = w.hand[q]
  BY <1>8, <1>9, HandSet
<1>11. \A q, t : Holds(y, row, q, t) = Holds(w, row, q, t)
  BY <1>10 DEF Keeps, FieldNames, Rows, Holds
<1>12. PICK cards : cards = <<PlacedCard(c, up)>>
  OBVIOUS
<1>13. SlotCards(row, p, cards)
  BY <1>4, <1>5, <1>12, PlacedGoes
<1>14. PICK x : SlotTo(y, x, row, p, s, cards)
  BY DEF SlotTo
<1>15. /\ Proper(x) /\ Keeps(y, x, {row}) /\ Holds(x, row, p, s) = cards
       /\ \A q \in Players : \A t \in Slots(row) :
             q # p \/ t # s => Holds(x, row, q, t) = Holds(y, row, q, t)
  <2>1. Proper(y)
    BY <1>10
  <2>2. /\ Proper(x) /\ Keeps(y, x, {row}) /\ Holds(x, row, p, s) = cards
        /\ OtherSlots(y, x, row, p, s)
    BY <1>6, <1>13, <1>14, <2>1, SlotSet
  <2> QED
    BY <2>2 DEF OtherSlots
<1>16. x = PlayedField(w, p, i, row, s, up)
  BY <1>1, <1>7, <1>9, <1>12, <1>14 DEF PlayedField, HandTo, SlotTo
<1>17. Keeps(w, x, {"hand", row})
  <2>1. {"hand"} \cup {row} = {"hand", row}
    OBVIOUS
  <2>2. Keeps(w, x, {"hand"} \cup {row})
    BY <1>10, <1>15, KeepsBoth
  <2> QED
    BY <2>1, <2>2
<1>18. x.hand = y.hand
  BY <1>15 DEF Keeps, FieldNames, Rows
<1>19. PlayGoes(w, x, c, p, i, row, s, up)
  BY <1>1, <1>4, <1>5, <1>6, <1>7, <1>10, <1>11, <1>12, <1>15, <1>17, <1>18 DEF PlayGoes
<1> QED
  BY <1>1, <1>16, <1>19

(* Two cards that look the same are placed to look the same. *)
LEMMA PlacedSame ==
    ASSUME NEW c, NEW d, NEW p \in Players, c.code \in Codes, d.code \in Codes, c.owner = p,
           d.owner = p, NEW up \in BOOLEAN, p = me \/ up => d.code = c.code
    PROVE  SameCard(PlacedCard(c, up), PlacedCard(d, up))
<1>1. PICK e, f : e = PlacedCard(c, up) /\ f = PlacedCard(d, up)
  OBVIOUS
<1>2. /\ e.code = c.code /\ e.owner = p /\ e.up = up /\ e.shown = FALSE /\ e.materials = <<>>
      /\ e.equip = <<>> /\ e.targets = <<>>
  BY <1>1, PlacedCardIs
<1>3. /\ f.code = d.code /\ f.owner = p /\ f.up = up /\ f.shown = FALSE /\ f.materials = <<>>
      /\ f.equip = <<>> /\ f.targets = <<>>
  BY <1>1, PlacedCardIs
<1>4. SameCard(e, f)
  BY <1>2, <1>3 DEF SameCard
<1> QED
  BY <1>1, <1>4

(* Hands without a card that looks the same in both. *)
LEMMA RemovedSame ==
    ASSUME NEW h \in Seq(HeldCards), NEW g \in Seq(HeldCards), Len(g) = Len(h), SameShown(h, g),
           NEW i \in 1..Len(h), NEW j \in 1..Len(g), g[j].shown = h[i].shown,
           h[i].shown => g[j].code = h[i].code
    PROVE  /\ Len(RemoveAt(g, j)) = Len(RemoveAt(h, i))
           /\ SameShown(RemoveAt(h, i), RemoveAt(g, j))
<1>1. Len(RemoveAt(g, j)) = Len(RemoveAt(h, i))
  BY Removed
<1>2. ASSUME NEW codes \in SUBSET Codes
      PROVE  Cardinality(ShownIn(RemoveAt(g, j), codes)) = Cardinality(ShownIn(RemoveAt(h, i), codes))
  <2>1. Cardinality(ShownIn(g, codes)) = Cardinality(ShownIn(h, codes))
    BY DEF SameShown
  <2>2. PICK k, l : /\ k = (IF h[i].shown /\ h[i].code \in codes THEN 1 ELSE 0)
                    /\ l = (IF g[j].shown /\ g[j].code \in codes THEN 1 ELSE 0)
    OBVIOUS
  <2>3. k = l
    BY <2>2
  <2>4. Cardinality(ShownIn(RemoveAt(h, i), codes)) = Cardinality(ShownIn(h, codes)) - k
    BY <2>2, ShownRemoved
  <2>5. Cardinality(ShownIn(RemoveAt(g, j), codes)) = Cardinality(ShownIn(g, codes)) - l
    BY <2>2, ShownRemoved
  <2> QED
    BY <2>1, <2>3, <2>4, <2>5
<1> QED
  BY <1>1, <1>2 DEF SameShown

MoveOf(c, f, to) == MoveTold(c, f, to, FALSE)

(* A move tells the same of cards that are hidden at both ends.             *)
LEMMA MovedAlike ==
    ASSUME NEW c, NEW d, NEW f, NEW g, NEW to,
           g.up = f.up, ZoneAt(g) = ZoneAt(f), f.up \/ to.up => d.code = c.code
    PROVE  EventsOf(MoveOf(d, g, to), me) = EventsOf(MoveOf(c, f, to), me)
<1>1. PICK no \in BOOLEAN : no = FALSE
  OBVIOUS
<1>2. EventsOf(MoveTold(d, g, to, no), me) = EventsOf(MoveTold(c, f, to, no), me)
  BY MoveAlike
<1>3. MoveOf(d, g, to) = MoveTold(d, g, to, no) /\ MoveOf(c, f, to) = MoveTold(c, f, to, no)
  BY <1>1, Zenon DEF MoveOf
<1> QED
  BY <1>2, <1>3

(* One message, or two, and one more that is the same. *)
LEMMA ToldOne ==
    ASSUME NEW m, NEW n, EventsOf(n, me) = EventsOf(m, me)
    PROVE  SameTold(<<m>>, <<n>>)
  BY DEF SameTold

(* The same of two messages,                                                *)
LEMMA ToldTwo ==
    ASSUME NEW m, NEW n, EventsOf(n, me) = EventsOf(m, me),
           NEW k, NEW l, EventsOf(l, me) = EventsOf(k, me)
    PROVE  SameTold(<<m, k>>, <<n, l>>)
  BY DEF SameTold

(* Messages, one after the other.                                           *)
LEMMA ToldJoined ==
    ASSUME NEW m, NEW k, NEW z
    PROVE  /\ <<m, k>> \o <<z>> = <<m, k, z>> /\ <<m, k>> \o <<>> = <<m, k>>
           /\ <<m>> \o <<z>> = <<m, z>> /\ <<m>> \o <<>> = <<m>>
<1>1. PICK T : T = {m, k, z}
  OBVIOUS
<1>2. m \in T /\ k \in T /\ z \in T
  BY <1>1
<1>3. PICK a, b, c : a = <<m, k>> /\ b = <<m>> /\ c = <<z>>
  OBVIOUS
<1>4. /\ a \in Seq(T) /\ Len(a) = 2 /\ a[1] = m /\ a[2] = k
      /\ b \in Seq(T) /\ Len(b) = 1 /\ b[1] = m
      /\ c \in Seq(T) /\ Len(c) = 1 /\ c[1] = z
  BY <1>2, <1>3
<1>5. a \o c = <<m, k, z>>
  <2>1. PICK d : d = a \o c
    OBVIOUS
  <2>2. d \in Seq(T) /\ Len(d) = 3 /\ d[1] = m /\ d[2] = k /\ d[3] = z
    <3>1. a \in Seq(T) /\ c \in Seq(T)
      BY <1>4
    <3>2. /\ a \o c \in Seq(T) /\ Len(a \o c) = Len(a) + Len(c)
          /\ \A i \in 1..(Len(a) + Len(c)) : (a \o c)[i] = IF i <= Len(a) THEN a[i] ELSE c[i - Len(a)]
      BY <3>1, ConcatProperties
    <3>3. /\ d \in Seq(T) /\ Len(d) = Len(a) + Len(c)
          /\ \A i \in 1..(Len(a) + Len(c)) : d[i] = IF i <= Len(a) THEN a[i] ELSE c[i - Len(a)]
      BY <2>1, <3>2
    <3> QED
      BY <1>4, <3>3
  <2>3. d = <<d[1], d[2], d[3]>>
    BY <2>2
  <2> QED
    BY <2>1, <2>2, <2>3
<1>6. a \o <<>> = a /\ b \o <<>> = b
  BY <1>4
<1>7. b \o c = <<m, z>>
  <2>1. PICK d : d = b \o c
    OBVIOUS
  <2>2. d \in Seq(T) /\ Len(d) = 2 /\ d[1] = m /\ d[2] = z
    <3>1. b \in Seq(T) /\ c \in Seq(T)
      BY <1>4
    <3>2. /\ b \o c \in Seq(T) /\ Len(b \o c) = Len(b) + Len(c)
          /\ \A i \in 1..(Len(b) + Len(c)) : (b \o c)[i] = IF i <= Len(b) THEN b[i] ELSE c[i - Len(b)]
      BY <3>1, ConcatProperties
    <3>3. /\ d \in Seq(T) /\ Len(d) = Len(b) + Len(c)
          /\ \A i \in 1..(Len(b) + Len(c)) : d[i] = IF i <= Len(b) THEN b[i] ELSE c[i - Len(b)]
      BY <2>1, <3>2
    <3> QED
      BY <1>4, <3>3
  <2>3. d = <<d[1], d[2]>>
    BY <2>2
  <2> QED
    BY <2>1, <2>2, <2>3
<1> QED
  BY <1>3, <1>5, <1>6, <1>7

(* and of three.                                                            *)
LEMMA ToldThree ==
    ASSUME NEW m, NEW n, EventsOf(n, me) = EventsOf(m, me),
           NEW k, NEW l, EventsOf(l, me) = EventsOf(k, me), NEW z
    PROVE  SameTold(<<m, k, z>>, <<n, l, z>>)
  BY DEF SameTold

(* The messages of a play tell no more. *)
LEMMA PlayToldSame ==
    ASSUME NEW w, NEW v, NEW p \in Players, NEW row \in Rows, NEW s, NEW up \in BOOLEAN, NEW i, NEW j,
           NEW c, NEW d, c = w.hand[p][i], d = v.hand[p][j], c.code \in Codes, d.code \in Codes,
           c.owner = p, d.owner = p, d.up = c.up, c.up \/ up => d.code = c.code
    PROVE  SameTold(PlayedTold(w, p, i, row, s, up), PlayedTold(v, p, j, row, s, up))
<1>1. PICK to : to = OnField(row, p, s, PlacedCard(c, up))
  OBVIOUS
<1>2. OnField(row, p, s, PlacedCard(d, up)) = to /\ to.up = up
  <2>1. PlacedCard(c, up).up = up /\ PlacedCard(d, up).up = up
    BY PlacedCardIs
  <2>2. PICK e, f : e = PlacedCard(c, up) /\ f = PlacedCard(d, up)
    OBVIOUS
  <2>3. e.up = up /\ f.up = up
    BY <2>1, <2>2
  <2>4. OnField(row, p, s, e) = OnField(row, p, s, f) /\ OnField(row, p, s, e).up = up
    BY <2>3 DEF OnField, Place
  <2> QED
    BY <1>1, <2>2, <2>4
<1>3. PICK f, g : f = InHand(p, i, c) /\ g = InHand(p, j, d)
  OBVIOUS
<1>4. g.up = c.up /\ f.up = c.up /\ ZoneAt(g) = ZoneAt(f)
  BY <1>3 DEF InHand, Place, ZoneAt, ProjectZone
<1>5. PICK t : t = IF up THEN "summoning" ELSE "set"
  OBVIOUS
<1>6. t \in {"set", "summoning"}
  BY <1>5
<1>7. PICK m1, m2, n1, n2 :
         /\ m1 = MoveTold(c, f, to, FALSE) /\ n1 = MoveTold(d, g, to, FALSE)
         /\ m2 = AtTold(t, c, to) /\ n2 = AtTold(t, d, to)
  OBVIOUS
<1>8. EventsOf(n1, me) = EventsOf(m1, me)
  <2>1. g.up = f.up
    BY <1>4
  <2>2. ZoneAt(g) = ZoneAt(f)
    BY <1>4
  <2>3. f.up \/ to.up => d.code = c.code
    BY <1>2, <1>4
  <2>4. EventsOf(MoveOf(d, g, to), me) = EventsOf(MoveOf(c, f, to), me)
    BY <2>1, <2>2, <2>3, MovedAlike
  <2>5. n1 = MoveOf(d, g, to) /\ m1 = MoveOf(c, f, to)
    BY <1>7, Zenon DEF MoveOf
  <2> QED
    BY <2>4, <2>5
<1>9. EventsOf(n2, me) = EventsOf(m2, me)
  <2>1. to.up => d.code = c.code
    BY <1>2
  <2> QED
    BY <1>6, <1>7, <2>1, PlacedAlike
<1>10. CASE up
  <2>1. PICK z : z = [t |-> "summoned"]
    OBVIOUS
  <2>2. PlayedTold(w, p, i, row, s, up) = <<m1, m2>> \o <<z>>
    BY <1>1, <1>3, <1>5, <1>7, <1>10, <2>1 DEF PlayedTold
  <2>3. PlayedTold(v, p, j, row, s, up) = <<n1, n2>> \o <<z>>
    BY <1>2, <1>3, <1>5, <1>7, <1>10, <2>1 DEF PlayedTold
  <2>4. PlayedTold(w, p, i, row, s, up) = <<m1, m2, z>>
    BY <2>2, ToldJoined
  <2>5. PlayedTold(v, p, j, row, s, up) = <<n1, n2, z>>
    BY <2>3, ToldJoined
  <2>6. SameTold(<<m1, m2, z>>, <<n1, n2, z>>)
    BY <1>8, <1>9, ToldThree
  <2> QED
    BY <2>4, <2>5, <2>6
<1>11. CASE ~up
  <2>2. PlayedTold(w, p, i, row, s, up) = <<m1, m2>> \o <<>>
    BY <1>1, <1>3, <1>5, <1>7, <1>11 DEF PlayedTold
  <2>3. PlayedTold(v, p, j, row, s, up) = <<n1, n2>> \o <<>>
    BY <1>2, <1>3, <1>5, <1>7, <1>11 DEF PlayedTold
  <2>4. PlayedTold(w, p, i, row, s, up) = <<m1, m2>>
    BY <2>2, ToldJoined
  <2>5. PlayedTold(v, p, j, row, s, up) = <<n1, n2>>
    BY <2>3, ToldJoined
  <2>6. SameTold(<<m1, m2>>, <<n1, n2>>)
    BY <1>8, <1>9, ToldTwo
  <2> QED
    BY <2>4, <2>5, <2>6
<1> QED
  BY <1>10, <1>11

(* Plays that player 0 cannot tell apart leave fields and messages that     *)
(* look the same.                                                           *)
LEMMA PlaysAlike ==
    ASSUME NEW w, NEW v, AlikeFields(w, v), NEW a \in Plays(w), NEW b \in Plays(v),
           a.seen = b.seen
    PROVE  Match(w, v, a, b)
<1>1. Proper(w) /\ Proper(v) /\ SameField(w, v) /\ HeldAlike(w, v)
  BY DEF AlikeFields
<1>2. PICK p \in Players, row \in Rows, up \in BOOLEAN :
        \E i \in DOMAIN w.hand[p], s \in Free(w, row, p) :
           /\ a.field = PlayedField(w, p, i, row, s, up)
           /\ a.told = PlayedTold(w, p, i, row, s, up)
           /\ a.seen = PlayedSeen(p, row, s, up, w.hand[p][i].shown, i, w.hand[p][i].code)
  BY PlayIs
<1>3. PICK i \in DOMAIN w.hand[p], s \in Free(w, row, p) :
           /\ a.field = PlayedField(w, p, i, row, s, up)
           /\ a.told = PlayedTold(w, p, i, row, s, up)
           /\ a.seen = PlayedSeen(p, row, s, up, w.hand[p][i].shown, i, w.hand[p][i].code)
  BY <1>2
<1>4. PICK q \in Players, line \in Rows, above \in BOOLEAN :
        \E j \in DOMAIN v.hand[q], t \in Free(v, line, q) :
           /\ b.field = PlayedField(v, q, j, line, t, above)
           /\ b.told = PlayedTold(v, q, j, line, t, above)
           /\ b.seen = PlayedSeen(q, line, t, above, v.hand[q][j].shown, j, v.hand[q][j].code)
  BY PlayIs
<1>5. PICK j \in DOMAIN v.hand[q], t \in Free(v, line, q) :
           /\ b.field = PlayedField(v, q, j, line, t, above)
           /\ b.told = PlayedTold(v, q, j, line, t, above)
           /\ b.seen = PlayedSeen(q, line, t, above, v.hand[q][j].shown, j, v.hand[q][j].code)
  BY <1>4
<1>6. PICK c, d : c = w.hand[p][i] /\ d = v.hand[q][j]
  OBVIOUS
<1>7. PICK x : x = PlayedField(w, p, i, row, s, up)
  OBVIOUS
<1>8. PICK y : y = PlayedField(v, q, j, line, t, above)
  OBVIOUS
<1>9. PlayGoes(w, x, c, p, i, row, s, up)
  <2>1. PlayGoes(w, PlayedField(w, p, i, row, s, up), w.hand[p][i], p, i, row, s, up)
    BY <1>1, PlayField
  <2> QED
    BY <1>6, <1>7, <2>1
<1>10. PlayGoes(v, y, d, q, j, line, t, above)
  <2>1. PlayGoes(v, PlayedField(v, q, j, line, t, above), v.hand[q][j], q, j, line, t, above)
    BY <1>1, PlayField
  <2> QED
    BY <1>6, <1>8, <2>1
<1>11. PlayedSeen(p, row, s, up, c.shown, i, c.code) = PlayedSeen(q, line, t, above, d.shown, j, d.code)
  BY <1>3, <1>5, <1>6
<1>12. /\ q = p /\ line = row /\ t = s /\ above = up /\ d.shown = c.shown /\ (p = me => j = i)
       /\ p = me \/ up \/ c.shown => d.code = c.code
  <2>1. c.shown \in BOOLEAN /\ d.shown \in BOOLEAN
    BY <1>9, <1>10 DEF PlayGoes
  <2> QED
    BY <1>11, <2>1, SeenPlay
<1>13. SameCard(PlacedCard(c, up), PlacedCard(d, up))
  <2>1. p = me \/ up => d.code = c.code
    BY <1>12
  <2>2. c.code \in Codes /\ d.code \in Codes /\ c.owner = p /\ d.owner = p
    BY <1>9, <1>10, <1>12 DEF PlayGoes
  <2> QED
    BY <2>1, <2>2, PlacedSame
<1>14. SamePart(row, x[row], y[row])
  <2>1. SamePart(row, w[row], v[row])
    BY PartOf DEF Rows, FieldNames
  <2>2. SameCards(Holds(x, row, p, s), Holds(y, row, p, s))
    <3>1. SameCards(<<PlacedCard(c, up)>>, <<PlacedCard(d, up)>>)
      BY <1>13, OneSame
    <3> QED
      BY <1>9, <1>10, <1>12, <3>1 DEF PlayGoes
  <2>3. OtherSlots(w, x, row, p, s) /\ OtherSlots(v, y, row, p, s)
    BY <1>9, <1>10, <1>12 DEF PlayGoes, OtherSlots
  <2> QED
    BY <2>1, <2>2, <2>3, RowSame
<1>15. p = me => y.hand[p] = x.hand[p]
  <2>1. p = me => v.hand[p] = w.hand[p]
    BY <1>1 DEF SameField
  <2> QED
    BY <1>9, <1>10, <1>12, <2>1 DEF PlayGoes
<1>16. p = 1 => Len(y.hand[p]) = Len(x.hand[p]) /\ SameShown(x.hand[p], y.hand[p])
  <2>1. SUFFICES ASSUME p = 1
                 PROVE  Len(y.hand[1]) = Len(x.hand[1]) /\ SameShown(x.hand[1], y.hand[1])
    OBVIOUS
  <2>2. PICK h, g : h = w.hand[1] /\ g = v.hand[1]
    OBVIOUS
  <2>3. h \in Seq(HeldCards) /\ g \in Seq(HeldCards)
    BY <1>1, <2>2, ProperParts DEF Players, HandOf
  <2>4. Len(g) = Len(h) /\ SameShown(h, g)
    BY <1>1, <2>2 DEF SameField, HeldAlike, SameShown
  <2>5. i \in 1..Len(h) /\ j \in 1..Len(g) /\ c = h[i] /\ d = g[j]
    BY <1>6, <1>12, <2>1, <2>2, <2>3
  <2>6. g[j].shown = h[i].shown /\ (h[i].shown => g[j].code = h[i].code)
    BY <1>12, <2>5
  <2>7. Len(RemoveAt(g, j)) = Len(RemoveAt(h, i)) /\ SameShown(RemoveAt(h, i), RemoveAt(g, j))
    <3>1. i \in 1..Len(h) /\ j \in 1..Len(g)
      BY <2>5
    <3> QED
      BY <2>3, <2>4, <2>6, <3>1, RemovedSame
  <2>8. x.hand[1] = RemoveAt(h, i) /\ y.hand[1] = RemoveAt(g, j)
    BY <1>9, <1>10, <1>12, <2>1, <2>2 DEF PlayGoes
  <2> QED
    BY <2>7, <2>8
<1>17. SamePart("hand", x.hand, y.hand)
  <2>1. OtherHands(w, x, p) /\ OtherHands(v, y, p)
    BY <1>9, <1>10, <1>12 DEF PlayGoes, OtherHands
  <2>2. SameHand(x.hand[p], y.hand[p], p)
    BY <1>15, <1>16 DEF SameHand
  <2> QED
    BY <2>1, <2>2, HandsSame
<1>18. AlikeFields(x, y)
  <2>1. PICK names : names = {"hand", row}
    OBVIOUS
  <2>2. \A f \in names : SamePart(f, x[f], y[f])
    BY <1>14, <1>17, <2>1
  <2>3. Proper(x) /\ Proper(y) /\ Keeps(w, x, names) /\ Keeps(v, y, names)
    BY <1>9, <1>10, <1>12, <2>1 DEF PlayGoes
  <2> QED
    BY <2>2, <2>3, AlikeAfter
<1>19. SameTold(PlayedTold(w, p, i, row, s, up), PlayedTold(v, p, j, row, s, up))
  <2>1. c = w.hand[p][i] /\ d = v.hand[p][j]
    BY <1>6, <1>12
  <2>2. c.code \in Codes /\ d.code \in Codes /\ c.owner = p /\ d.owner = p
    BY <1>9, <1>10, <1>12 DEF PlayGoes
  <2>3. d.up = c.up
    BY <1>9, <1>10, <1>12 DEF PlayGoes
  <2>4. c.up \/ up => d.code = c.code
    BY <1>9, <1>12 DEF PlayGoes
  <2> QED
    BY <2>1, <2>2, <2>3, <2>4, PlayToldSame
<1>20. a.field = x /\ b.field = y /\ a.told = PlayedTold(w, p, i, row, s, up)
       /\ b.told = PlayedTold(v, p, j, row, s, up)
  BY <1>3, <1>5, <1>7, <1>8, <1>12
<1> QED
  BY <1>18, <1>19, <1>20 DEF Match

----------------------------------------------------------------------------
(* Shuffles of a hand.                                                      *)

ShuffledField(w, p, order) == [w EXCEPT !.hand[p] = [i \in DOMAIN @ |-> @[order[i]]]]
ShuffleTold(p) == <<[t |-> "shuffle", player |-> <<p>>]>>
ShuffleSeen(kind, p, order) == <<kind, p, IF p = me THEN order ELSE <<>>>>

(* What a shuffle of a hand does, tells and shows.                          *)
LEMMA HandShuffleIs ==
    ASSUME NEW w, NEW a \in HandShuffles(w)
    PROVE  \E p \in Players : \E order \in [DOMAIN w.hand[p] -> DOMAIN w.hand[p]] :
              /\ IsInjective(order) /\ a.field = ShuffledField(w, p, order)
              /\ a.told = ShuffleTold(p) /\ a.seen = ShuffleSeen("shuffle", p, order)
<1>1. \E p \in Players : \E order \in [DOMAIN w.hand[p] -> DOMAIN w.hand[p]] :
         /\ IsInjective(order)
         /\ a = After(ShuffledField(w, p, order), ShuffleTold(p), ShuffleSeen("shuffle", p, order))
  BY DEF HandShuffles, ShuffledField, ShuffleTold, ShuffleSeen
<1> QED
  BY <1>1, AfterIs

(* Shuffles that player 0 cannot tell apart are of the same player, and in  *)
(* the same order if it is its own.                                         *)
LEMMA SeenShuffle ==
    ASSUME NEW kind, NEW p \in Players, NEW q \in Players, NEW order, NEW other,
           ShuffleSeen(kind, p, order) = ShuffleSeen(kind, q, other)
    PROVE  q = p /\ (p = me => other = order)
<1>1. PICK a, b : a = (IF p = me THEN order ELSE <<>>) /\ b = (IF q = me THEN other ELSE <<>>)
  OBVIOUS
<1>2. <<kind, p, a>> = <<kind, q, b>>
  BY <1>1 DEF ShuffleSeen
<1>3. q = p /\ b = a
  BY <1>2
<1> QED
  BY <1>1, <1>3

(* The field after a shuffle of a hand.                                     *)
LEMMA ShuffleField ==
    ASSUME NEW w, Proper(w), NEW p \in Players,
           NEW order \in [DOMAIN w.hand[p] -> DOMAIN w.hand[p]], IsInjective(order)
    PROVE  /\ Proper(ShuffledField(w, p, order)) /\ Keeps(w, ShuffledField(w, p, order), {"hand"})
           /\ ShuffledField(w, p, order).hand[p] = [i \in DOMAIN w.hand[p] |-> w.hand[p][order[i]]]
           /\ OtherHands(w, ShuffledField(w, p, order), p)
<1>1. PICK h : h = w.hand[p]
  OBVIOUS
<1>2. HandOf(h, p) /\ h \in Seq(HeldCards)
  BY <1>1, ProperParts DEF HandOf
<1>3. PICK g : g = [i \in DOMAIN h |-> h[order[i]]]
  OBVIOUS
<1>4. /\ g \in Seq(HeldCards) /\ Len(g) = Len(h)
      /\ \A i \in 1..Len(h) : order[i] \in 1..Len(h) /\ g[i] = h[order[i]]
  <2>1. order \in [DOMAIN h -> DOMAIN h]
    BY <1>1
  <2>2. LET f == [i \in DOMAIN h |-> h[order[i]]]
        IN  /\ f \in Seq(HeldCards) /\ Len(f) = Len(h)
            /\ \A i \in 1..Len(h) : order[i] \in 1..Len(h) /\ f[i] = h[order[i]]
    BY <1>2, <2>1, ShownShuffled
  <2> QED
    BY <1>3, <2>2
<1>5. HandOf(g, p)
  BY <1>2, <1>4 DEF HandOf
<1>6. PICK x : HandTo(w, x, p, g)
  BY DEF HandTo
<1>7. /\ Proper(x) /\ Keeps(w, x, {"hand"})
      /\ x.hand[p] = g /\ \A q \in Players : q # p => x.hand[q] = w.hand[q]
  BY <1>5, <1>6, HandSet
<1>8. x = ShuffledField(w, p, order)
  BY <1>1, <1>3, <1>6 DEF HandTo, ShuffledField
<1> QED
  BY <1>1, <1>3, <1>7, <1>8 DEF OtherHands

(* A hand that is shuffled shows what it showed. *)
ShuffleOf(h, order, g) ==
    /\ order \in [DOMAIN h -> DOMAIN h] /\ IsInjective(order)
    /\ g = [i \in DOMAIN h |-> h[order[i]]]

(* A shuffle shows as many cards of each code as before.                    *)
LEMMA ShuffledShown ==
    ASSUME NEW h \in Seq(HeldCards), NEW order, NEW g, ShuffleOf(h, order, g)
    PROVE  Len(g) = Len(h) /\ SameShown(h, g)
<1>1. ASSUME NEW codes
      PROVE  Len(g) = Len(h) /\ Cardinality(ShownIn(g, codes)) = Cardinality(ShownIn(h, codes))
  <2>1. LET f == [i \in DOMAIN h |-> h[order[i]]]
        IN  Len(f) = Len(h) /\ Cardinality(ShownIn(f, codes)) = Cardinality(ShownIn(h, codes))
    BY ShownShuffled DEF ShuffleOf
  <2> QED
    BY <2>1 DEF ShuffleOf
<1> QED
  BY <1>1 DEF SameShown

(* Shuffles of a hand that player 0 cannot tell apart leave fields and      *)
(* messages that look the same.                                             *)
LEMMA HandShufflesAlike ==
    ASSUME NEW w, NEW v, AlikeFields(w, v), NEW a \in HandShuffles(w), NEW b \in HandShuffles(v),
           a.seen = b.seen
    PROVE  Match(w, v, a, b)
<1>1. Proper(w) /\ Proper(v) /\ SameField(w, v) /\ HeldAlike(w, v)
  BY DEF AlikeFields
<1>2. PICK p \in Players : \E order \in [DOMAIN w.hand[p] -> DOMAIN w.hand[p]] :
         /\ IsInjective(order) /\ a.field = ShuffledField(w, p, order)
         /\ a.told = ShuffleTold(p) /\ a.seen = ShuffleSeen("shuffle", p, order)
  BY HandShuffleIs
<1>3. PICK order \in [DOMAIN w.hand[p] -> DOMAIN w.hand[p]] :
         /\ IsInjective(order) /\ a.field = ShuffledField(w, p, order)
         /\ a.told = ShuffleTold(p) /\ a.seen = ShuffleSeen("shuffle", p, order)
  BY <1>2
<1>4. PICK q \in Players : \E other \in [DOMAIN v.hand[q] -> DOMAIN v.hand[q]] :
         /\ IsInjective(other) /\ b.field = ShuffledField(v, q, other)
         /\ b.told = ShuffleTold(q) /\ b.seen = ShuffleSeen("shuffle", q, other)
  BY HandShuffleIs
<1>5. PICK other \in [DOMAIN v.hand[q] -> DOMAIN v.hand[q]] :
         /\ IsInjective(other) /\ b.field = ShuffledField(v, q, other)
         /\ b.told = ShuffleTold(q) /\ b.seen = ShuffleSeen("shuffle", q, other)
  BY <1>4
<1>6. q = p /\ (p = me => other = order)
  <2>1. ShuffleSeen("shuffle", p, order) = ShuffleSeen("shuffle", q, other)
    BY <1>3, <1>5
  <2> QED
    BY <2>1, SeenShuffle
<1>7. PICK x, y : x = ShuffledField(w, p, order) /\ y = ShuffledField(v, q, other)
  OBVIOUS
<1>8. /\ Proper(x) /\ Keeps(w, x, {"hand"}) /\ OtherHands(w, x, p)
      /\ x.hand[p] = [i \in DOMAIN w.hand[p] |-> w.hand[p][order[i]]]
  <2>1. /\ Proper(ShuffledField(w, p, order)) /\ Keeps(w, ShuffledField(w, p, order), {"hand"})
        /\ ShuffledField(w, p, order).hand[p] = [i \in DOMAIN w.hand[p] |-> w.hand[p][order[i]]]
        /\ OtherHands(w, ShuffledField(w, p, order), p)
    BY <1>1, <1>3, ShuffleField
  <2> QED
    BY <1>7, <2>1
<1>9. /\ Proper(y) /\ Keeps(v, y, {"hand"}) /\ OtherHands(v, y, p)
      /\ y.hand[p] = [i \in DOMAIN v.hand[p] |-> v.hand[p][other[i]]]
  <2>1. /\ Proper(ShuffledField(v, q, other)) /\ Keeps(v, ShuffledField(v, q, other), {"hand"})
        /\ ShuffledField(v, q, other).hand[q] = [i \in DOMAIN v.hand[q] |-> v.hand[q][other[i]]]
        /\ OtherHands(v, ShuffledField(v, q, other), q)
    BY <1>1, <1>5, ShuffleField
  <2> QED
    BY <1>6, <1>7, <2>1
<1>10. p = me => y.hand[p] = x.hand[p]
  <2>1. p = me => v.hand[p] = w.hand[p]
    BY <1>1 DEF SameField
  <2> QED
    BY <1>6, <1>8, <1>9, <2>1
<1>11. p = 1 => Len(y.hand[p]) = Len(x.hand[p]) /\ SameShown(x.hand[p], y.hand[p])
  <2>1. SUFFICES ASSUME p = 1
                 PROVE  Len(y.hand[1]) = Len(x.hand[1]) /\ SameShown(x.hand[1], y.hand[1])
    OBVIOUS
  <2>2. PICK h, g, i, j : h = w.hand[1] /\ g = v.hand[1] /\ i = x.hand[1] /\ j = y.hand[1]
    OBVIOUS
  <2>3. h \in Seq(HeldCards) /\ g \in Seq(HeldCards)
    BY <1>1, <2>2, ProperParts DEF Players, HandOf
  <2>4. Len(g) = Len(h) /\ SameShown(h, g)
    BY <1>1, <2>2 DEF SameField, HeldAlike, SameShown
  <2>5. Len(i) = Len(h) /\ SameShown(h, i)
    <3>1. ShuffleOf(h, order, i)
      BY <1>3, <1>8, <2>1, <2>2 DEF ShuffleOf
    <3> QED
      BY <2>3, <3>1, ShuffledShown
  <2>6. Len(j) = Len(g) /\ SameShown(g, j)
    <3>1. ShuffleOf(g, other, j)
      BY <1>5, <1>6, <1>9, <2>1, <2>2 DEF ShuffleOf
    <3> QED
      BY <2>3, <3>1, ShuffledShown
  <2>7. Len(j) = Len(i) /\ SameShown(i, j)
    BY <2>4, <2>5, <2>6 DEF SameShown
  <2> QED
    BY <2>2, <2>7
<1>12. SamePart("hand", x.hand, y.hand)
  <2>1. SameHand(x.hand[p], y.hand[p], p)
    BY <1>10, <1>11 DEF SameHand
  <2> QED
    BY <1>8, <1>9, <2>1, HandsSame
<1>13. AlikeFields(x, y)
  <2>1. \A f \in {"hand"} : SamePart(f, x[f], y[f])
    BY <1>12
  <2> QED
    BY <1>8, <1>9, <2>1, AlikeAfter
<1>14. SameTold(a.told, b.told)
  BY <1>3, <1>5, <1>6, SameMessages
<1> QED
  BY <1>3, <1>5, <1>7, <1>13, <1>14 DEF Match

----------------------------------------------------------------------------
(* Confirmed cards.                                                         *)

ConfirmTold(recipient, p, i, c) ==
    <<[t |-> "confirm", recipient |-> recipient,
       cards |-> <<[code |-> c.code, at |-> [InHand(p, i, c) EXCEPT !.up = TRUE]]>>]>>
ShownCard(c) == [c EXCEPT !.up = TRUE, !.shown = TRUE]
ShownField(w, i) == [w EXCEPT !.hand[1][i] = ShownCard(w.hand[1][i])]

ConfirmsOne(w, a, i) ==
    /\ i \in DOMAIN w.hand[1] /\ a.field = w /\ a.told = ConfirmTold(me, 1, i, w.hand[1][i])
    /\ a.seen = <<"confirm", i, w.hand[1][i].code, w.hand[1][i].shown>>
ConfirmsOwn(w, a, i) ==
    /\ i \in DOMAIN w.hand[0] /\ a.field = w /\ a.told = ConfirmTold(1, 0, i, w.hand[0][i])
    /\ a.seen = <<"confirm own", i>>
ShowsOne(w, a, i) ==
    /\ i \in DOMAIN w.hand[1] /\ ~w.hand[1][i].shown /\ a.field = ShownField(w, i)
    /\ a.told = <<>> /\ a.seen = <<"show", ShownCard(w.hand[1][i]).code>>

(* What a confirmation does, tells and shows.                               *)
LEMMA ConfirmIs ==
    ASSUME NEW w, NEW a \in Confirms(w)
    PROVE  \/ a.seen[1] = "confirm" /\ \E i : ConfirmsOne(w, a, i)
           \/ a.seen[1] = "confirm own" /\ \E i : ConfirmsOwn(w, a, i)
           \/ a.seen[1] = "show" /\ \E i : ShowsOne(w, a, i)
<1>1. \/ \E i \in DOMAIN w.hand[1] :
            a = After(w, ConfirmTold(me, 1, i, w.hand[1][i]),
                      <<"confirm", i, w.hand[1][i].code, w.hand[1][i].shown>>)
      \/ \E i \in DOMAIN w.hand[0] :
            a = After(w, ConfirmTold(1, 0, i, w.hand[0][i]), <<"confirm own", i>>)
      \/ \E i \in DOMAIN w.hand[1] :
            /\ ~w.hand[1][i].shown
            /\ a = After(ShownField(w, i), <<>>, <<"show", ShownCard(w.hand[1][i]).code>>)
  BY DEF Confirms, ConfirmTold, ShownCard, ShownField
<1>2. CASE \E i \in DOMAIN w.hand[1] :
            a = After(w, ConfirmTold(me, 1, i, w.hand[1][i]),
                      <<"confirm", i, w.hand[1][i].code, w.hand[1][i].shown>>)
  <2>1. PICK i \in DOMAIN w.hand[1] :
            a = After(w, ConfirmTold(me, 1, i, w.hand[1][i]),
                      <<"confirm", i, w.hand[1][i].code, w.hand[1][i].shown>>)
    BY <1>2
  <2>2. PICK t, s : t = ConfirmTold(me, 1, i, w.hand[1][i])
                    /\ s = <<"confirm", i, w.hand[1][i].code, w.hand[1][i].shown>>
    OBVIOUS
  <2>3. a.field = w /\ a.told = t /\ a.seen = s
    <3>1. a = After(w, t, s)
      BY <2>1, <2>2
    <3> QED
      BY <3>1, AfterIs
  <2>4. ConfirmsOne(w, a, i)
    BY <2>2, <2>3 DEF ConfirmsOne
  <2>5. s[1] = "confirm"
    BY <2>2
  <2> QED
    BY <2>3, <2>4, <2>5
<1>3. CASE \E i \in DOMAIN w.hand[0] :
            a = After(w, ConfirmTold(1, 0, i, w.hand[0][i]), <<"confirm own", i>>)
  <2>1. PICK i \in DOMAIN w.hand[0] :
            a = After(w, ConfirmTold(1, 0, i, w.hand[0][i]), <<"confirm own", i>>)
    BY <1>3
  <2>2. PICK t, s : t = ConfirmTold(1, 0, i, w.hand[0][i]) /\ s = <<"confirm own", i>>
    OBVIOUS
  <2>3. a.field = w /\ a.told = t /\ a.seen = s
    <3>1. a = After(w, t, s)
      BY <2>1, <2>2
    <3> QED
      BY <3>1, AfterIs
  <2>4. ConfirmsOwn(w, a, i)
    BY <2>2, <2>3 DEF ConfirmsOwn
  <2>5. s[1] = "confirm own"
    BY <2>2
  <2> QED
    BY <2>3, <2>4, <2>5
<1>4. CASE \E i \in DOMAIN w.hand[1] :
            /\ ~w.hand[1][i].shown
            /\ a = After(ShownField(w, i), <<>>, <<"show", ShownCard(w.hand[1][i]).code>>)
  <2>1. PICK i \in DOMAIN w.hand[1] :
            /\ ~w.hand[1][i].shown
            /\ a = After(ShownField(w, i), <<>>, <<"show", ShownCard(w.hand[1][i]).code>>)
    BY <1>4
  <2>2. PICK x, t, s : /\ x = ShownField(w, i) /\ t = <<>>
                       /\ s = <<"show", ShownCard(w.hand[1][i]).code>>
    OBVIOUS
  <2>3. a.field = x /\ a.told = t /\ a.seen = s
    <3>1. a = After(x, t, s)
      BY <2>1, <2>2
    <3> QED
      BY <3>1, AfterIs
  <2>4. ShowsOne(w, a, i)
    BY <2>1, <2>2, <2>3 DEF ShowsOne
  <2>5. s[1] = "show"
    BY <2>2
  <2> QED
    BY <2>3, <2>4, <2>5
<1> QED
  BY <1>1, <1>2, <1>3, <1>4

(* The same card confirmed at the same place. *)
LEMMA ConfirmSame ==
    ASSUME NEW c, NEW d, d.code = c.code, d.up = c.up, NEW recipient, NEW p, NEW i
    PROVE  ConfirmTold(recipient, p, i, d) = ConfirmTold(recipient, p, i, c)
<1>1. InHand(p, i, d) = InHand(p, i, c)
  BY DEF InHand, Place
<1> QED
  BY <1>1 DEF ConfirmTold

(* A card that is shown from now on.                                        *)
LEMMA ShownCardIs ==
    ASSUME NEW c \in HeldCards
    PROVE  /\ ShownCard(c) \in HeldCards /\ ShownCard(c).shown /\ ShownCard(c).up
           /\ ShownCard(c).code = c.code /\ ShownCard(c).owner = c.owner
           /\ ShownCard(c).up = ShownCard(c).shown /\ c.code \in Codes
  BY DEF ShownCard, HeldCards

(* A hand of which one more card stays revealed. *)
RevealOf(h, i, g) == i \in 1..Len(h) /\ ~h[i].shown /\ g = [h EXCEPT ![i] = ShownCard(h[i])]

(* One more card of that code is shown.                                     *)
LEMMA RevealIs ==
    ASSUME NEW h, HandOf(h, 1), NEW i, NEW g, RevealOf(h, i, g)
    PROVE  /\ HandOf(g, 1) /\ Len(g) = Len(h)
           /\ \A codes : Cardinality(ShownIn(g, codes))
                           = Cardinality(ShownIn(h, codes)) + (IF h[i].code \in codes THEN 1 ELSE 0)
<1>1. /\ h \in Seq(HeldCards) /\ i \in 1..Len(h) /\ ~h[i].shown
      /\ \A j \in 1..Len(h) : h[j].owner = 1 /\ h[j].up = h[j].shown
  BY DEF HandOf, RevealOf
<1>2. h[i] \in HeldCards
  BY <1>1
<1>3. PICK c : c = ShownCard(h[i])
  OBVIOUS
<1>4. /\ c \in HeldCards /\ c.shown /\ c.up /\ c.code = h[i].code /\ c.owner = 1
  BY <1>1, <1>2, <1>3, ShownCardIs
<1>5. ASSUME NEW codes
      PROVE  /\ g \in Seq(HeldCards) /\ Len(g) = Len(h) /\ g[i] = c
             /\ \A j \in 1..Len(h) : j # i => g[j] = h[j]
             /\ Cardinality(ShownIn(g, codes))
                  = Cardinality(ShownIn(h, codes)) + (IF c.code \in codes THEN 1 ELSE 0)
  <2>1. LET f == [h EXCEPT ![i] = c]
        IN  /\ f \in Seq(HeldCards) /\ Len(f) = Len(h) /\ f[i] = c
            /\ \A j \in 1..Len(h) : j # i => f[j] = h[j]
            /\ Cardinality(ShownIn(f, codes))
                 = Cardinality(ShownIn(h, codes)) + (IF c.code \in codes THEN 1 ELSE 0)
    BY <1>1, <1>4, ShownRevealed
  <2>2. g = [h EXCEPT ![i] = c]
    BY <1>3 DEF RevealOf
  <2> QED
    BY <2>1, <2>2
<1>6. ASSUME NEW j \in 1..Len(g)
      PROVE  g[j].owner = 1 /\ g[j].up = g[j].shown
  <2>1. Len(g) = Len(h) /\ g[i] = c /\ (j # i => g[j] = h[j])
    BY <1>5
  <2>2. CASE j = i
    <3>1. c.up = c.shown
      BY <1>2, <1>3, ShownCardIs
    <3> QED
      BY <1>4, <2>1, <2>2, <3>1
  <2>3. CASE j # i
    BY <1>1, <2>1, <2>3
  <2> QED
    BY <2>2, <2>3
<1>7. HandOf(g, 1)
  <2>1. g \in Seq(HeldCards) /\ Len(g) = Len(h)
    BY <1>5
  <2> QED
    BY <1>6, <2>1 DEF HandOf
<1> QED
  BY <1>4, <1>5, <1>7

(* The field after a card stays revealed.                                   *)
LEMMA ShowField ==
    ASSUME NEW w, Proper(w), NEW i \in DOMAIN w.hand[1], ~w.hand[1][i].shown
    PROVE  /\ Proper(ShownField(w, i)) /\ Keeps(w, ShownField(w, i), {"hand"})
           /\ OtherHands(w, ShownField(w, i), 1)
           /\ RevealOf(w.hand[1], i, ShownField(w, i).hand[1]) /\ HandOf(w.hand[1], 1)
<1>1. PICK h : h = w.hand[1]
  OBVIOUS
<1>2. HandOf(h, 1)
  BY <1>1, ProperParts DEF Players
<1>3. PICK g : g = [h EXCEPT ![i] = ShownCard(h[i])]
  OBVIOUS
<1>4. RevealOf(h, i, g)
  BY <1>1, <1>2, <1>3 DEF RevealOf, HandOf
<1>5. HandOf(g, 1)
  BY <1>2, <1>4, RevealIs
<1>6. PICK x : HandTo(w, x, 1, g)
  BY DEF HandTo
<1>7. /\ Proper(x) /\ Keeps(w, x, {"hand"})
      /\ x.hand[1] = g /\ \A q \in Players : q # 1 => x.hand[q] = w.hand[q]
  BY <1>5, <1>6, HandSet DEF Players
<1>8. x = ShownField(w, i)
  BY <1>1, <1>3, <1>6 DEF HandTo, ShownField
<1> QED
  BY <1>1, <1>2, <1>4, <1>7, <1>8 DEF OtherHands

(* Confirmations that player 0 cannot tell apart leave fields and messages  *)
(* that look the same.                                                      *)
LEMMA ConfirmsAlike ==
    ASSUME NEW w, NEW v, AlikeFields(w, v), NEW a \in Confirms(w), NEW b \in Confirms(v),
           a.seen = b.seen
    PROVE  Match(w, v, a, b)
<1>1. Proper(w) /\ Proper(v) /\ SameField(w, v) /\ HeldAlike(w, v)
  BY DEF AlikeFields
<1>2. PICK h, g : h = w.hand[1] /\ g = v.hand[1]
  OBVIOUS
<1>3. HandOf(h, 1) /\ HandOf(g, 1) /\ h \in Seq(HeldCards) /\ g \in Seq(HeldCards)
  BY <1>1, <1>2, ProperParts DEF Players, HandOf
<1>4. Len(g) = Len(h) /\ SameShown(h, g)
  BY <1>1, <1>2 DEF SameField, HeldAlike, SameShown
<1>5. \/ a.seen[1] = "confirm" /\ \E i : ConfirmsOne(w, a, i)
      \/ a.seen[1] = "confirm own" /\ \E i : ConfirmsOwn(w, a, i)
      \/ a.seen[1] = "show" /\ \E i : ShowsOne(w, a, i)
  BY ConfirmIs
<1>6. \/ b.seen[1] = "confirm" /\ \E i : ConfirmsOne(v, b, i)
      \/ b.seen[1] = "confirm own" /\ \E i : ConfirmsOwn(v, b, i)
      \/ b.seen[1] = "show" /\ \E i : ShowsOne(v, b, i)
  BY ConfirmIs
<1>7. CASE a.seen[1] = "confirm"
  <2>10. PICK i : ConfirmsOne(w, a, i)
    BY <1>5, <1>7
  <2>20. PICK j : ConfirmsOne(v, b, j)
    BY <1>6, <1>7
  <2>1. /\ i \in DOMAIN h /\ a.field = w /\ a.told = ConfirmTold(me, 1, i, h[i])
        /\ a.seen = <<"confirm", i, h[i].code, h[i].shown>>
    BY <1>2, <2>10 DEF ConfirmsOne
  <2>2. /\ j \in DOMAIN g /\ b.field = v /\ b.told = ConfirmTold(me, 1, j, g[j])
        /\ b.seen = <<"confirm", j, g[j].code, g[j].shown>>
    BY <1>2, <2>20 DEF ConfirmsOne
  <2>3. j = i /\ g[j].code = h[i].code /\ g[j].shown = h[i].shown
    <3>1. <<"confirm", i, h[i].code, h[i].shown>> = <<"confirm", j, g[j].code, g[j].shown>>
      BY <2>1, <2>2
    <3> QED
      BY <3>1
  <2>4. g[j].up = h[i].up
    <3>1. i \in 1..Len(h) /\ j \in 1..Len(g)
      BY <1>3, <2>1, <2>2
    <3> QED
      BY <1>3, <2>3, <3>1 DEF HandOf
  <2>5. ConfirmTold(me, 1, i, g[j]) = ConfirmTold(me, 1, i, h[i])
    BY <2>3, <2>4, ConfirmSame
  <2>6. b.told = a.told
    BY <2>1, <2>2, <2>3, <2>5
  <2> QED
    BY <2>1, <2>2, <2>6, SameMessages DEF Match
<1>8. CASE a.seen[1] = "confirm own"
  <2>10. PICK i : ConfirmsOwn(w, a, i)
    BY <1>5, <1>8
  <2>20. PICK j : ConfirmsOwn(v, b, j)
    BY <1>6, <1>8
  <2>1. /\ a.field = w /\ a.told = ConfirmTold(1, 0, i, w.hand[0][i])
        /\ a.seen = <<"confirm own", i>>
    BY <2>10 DEF ConfirmsOwn
  <2>2. /\ b.field = v /\ b.told = ConfirmTold(1, 0, j, v.hand[0][j])
        /\ b.seen = <<"confirm own", j>>
    BY <2>20 DEF ConfirmsOwn
  <2>3. j = i
    <3>1. <<"confirm own", i>> = <<"confirm own", j>>
      BY <2>1, <2>2
    <3> QED
      BY <3>1
  <2>4. v.hand[0] = w.hand[0]
    BY <1>1 DEF SameField, me
  <2>5. b.told = a.told
    BY <2>1, <2>2, <2>3, <2>4
  <2> QED
    BY <2>1, <2>2, <2>5, SameMessages DEF Match
<1>9. CASE a.seen[1] = "show"
  <2>30. PICK i : ShowsOne(w, a, i)
    BY <1>5, <1>9
  <2>40. PICK j : ShowsOne(v, b, j)
    BY <1>6, <1>9
  <2>1. /\ i \in DOMAIN h /\ ~h[i].shown /\ a.field = ShownField(w, i) /\ a.told = <<>>
        /\ a.seen = <<"show", ShownCard(h[i]).code>>
    BY <1>2, <2>30 DEF ShowsOne
  <2>2. /\ j \in DOMAIN g /\ ~g[j].shown /\ b.field = ShownField(v, j) /\ b.told = <<>>
        /\ b.seen = <<"show", ShownCard(g[j]).code>>
    BY <1>2, <2>40 DEF ShowsOne
  <2>3. PICK c, d : c = h[i].code /\ d = g[j].code
    OBVIOUS
  <2>4. c = d
    <3>1. h[i] \in HeldCards /\ g[j] \in HeldCards
      BY <1>3, <2>1, <2>2
    <3>2. ShownCard(h[i]).code = c /\ ShownCard(g[j]).code = d
      BY <2>3, <3>1, ShownCardIs
    <3>3. <<"show", c>> = <<"show", d>>
      BY <2>1, <2>2, <3>2
    <3> QED
      BY <3>3
  <2>5. PICK x, y : x = ShownField(w, i) /\ y = ShownField(v, j)
    OBVIOUS
  <2>6. Proper(x) /\ Keeps(w, x, {"hand"}) /\ OtherHands(w, x, 1) /\ RevealOf(h, i, x.hand[1])
    BY <1>1, <1>2, <2>1, <2>5, ShowField
  <2>7. Proper(y) /\ Keeps(v, y, {"hand"}) /\ OtherHands(v, y, 1) /\ RevealOf(g, j, y.hand[1])
    BY <1>1, <1>2, <2>2, <2>5, ShowField
  <2>8. PICK k, l : k = x.hand[1] /\ l = y.hand[1]
    OBVIOUS
  <2>9. Len(k) = Len(h) /\ \A codes : Cardinality(ShownIn(k, codes))
                           = Cardinality(ShownIn(h, codes)) + (IF c \in codes THEN 1 ELSE 0)
    BY <1>3, <2>3, <2>6, <2>8, RevealIs
  <2>10. Len(l) = Len(g) /\ \A codes : Cardinality(ShownIn(l, codes))
                           = Cardinality(ShownIn(g, codes)) + (IF d \in codes THEN 1 ELSE 0)
    BY <1>3, <2>3, <2>7, <2>8, RevealIs
  <2>11. Len(l) = Len(k) /\ SameShown(k, l)
    BY <1>4, <2>4, <2>9, <2>10 DEF SameShown
  <2>12. SamePart("hand", x.hand, y.hand)
    <3>1. SameHand(x.hand[1], y.hand[1], 1)
      BY <2>8, <2>11 DEF SameHand, me
    <3> QED
      BY <2>6, <2>7, <3>1, HandsSame DEF Players
  <2>13. AlikeFields(x, y)
    <3>1. \A f \in {"hand"} : SamePart(f, x[f], y[f])
      BY <2>12
    <3> QED
      BY <2>6, <2>7, <3>1, AlikeAfter
  <2>14. SameTold(a.told, b.told)
    BY <2>1, <2>2, SameMessages
  <2> QED
    BY <2>1, <2>2, <2>5, <2>13, <2>14 DEF Match
<1> QED
  BY <1>5, <1>7, <1>8, <1>9

----------------------------------------------------------------------------
(* Turned monsters.                                                         *)

(* A slot that is not empty. *)
LEMMA OneCard ==
    ASSUME NEW T, NEW g \in Seq(T), Len(g) <= 1, g # <<>>
    PROVE  g = <<g[1]>> /\ g[1] \in T
<1>1. Len(g) \in Nat /\ (Len(g) = 0 => g = <<>>)
  BY EmptySeq
<1>2. Len(g) = 1
  <2>1. PICK n : n = Len(g)
    OBVIOUS
  <2>2. n \in Nat /\ n <= 1
    BY <1>1, <2>1
  <2>3. n # 0
    BY <1>1, <2>1
  <2>4. n = 1
    BY <2>2, <2>3
  <2> QED
    BY <2>1, <2>4
<1>3. g[1] \in T
  BY <1>2
<1>4. g = <<g[1]>>
  BY <1>2
<1> QED
  BY <1>3, <1>4

MonsterAt(w, p, s, c) ==
    /\ s \in MonsterSlots /\ Holds(w, "monsters", p, s) = <<c>> /\ c \in MonsterCards
    /\ c.code \in Codes /\ c.owner \in Players /\ c.up \in BOOLEAN /\ c.shown = FALSE
    /\ c.materials \in Seq(PlainCards) /\ c.equip = <<>> /\ c.targets = <<>>

(* The card in a taken monster slot.                                        *)
LEMMA MonsterIs ==
    ASSUME NEW w, Proper(w), NEW p \in Players, NEW s \in Taken(w, "monsters", p)
    PROVE  MonsterAt(w, p, s, CardAt(w, "monsters", p, s))
<1>1. PICK m : m = w.monsters[p]
  OBVIOUS
<1>2. MonstersOf(m)
  BY <1>1, ProperParts
<1>3. s \in MonsterSlots /\ m[s] # <<>>
  BY <1>1 DEF Taken, Slots
<1>4. m[s] \in Seq(MonsterCards) /\ Len(m[s]) <= 1
  BY <1>2, <1>3 DEF MonstersOf
<1>5. PICK c : c = m[s][1]
  OBVIOUS
<1>6. m[s] = <<c>> /\ c \in MonsterCards
  <2>1. PICK g : g = m[s]
    OBVIOUS
  <2>2. g \in Seq(MonsterCards) /\ Len(g) <= 1 /\ g # <<>> /\ c = g[1]
    BY <1>3, <1>4, <1>5, <2>1
  <2>3. g = <<c>> /\ c \in MonsterCards
    BY <2>2, OneCard
  <2> QED
    BY <2>1, <2>3
<1>7. /\ c.code \in Codes /\ c.owner \in Players /\ c.up \in BOOLEAN /\ c.shown = FALSE
      /\ c.materials \in Seq(PlainCards) /\ c.equip = <<>> /\ c.targets = <<>>
  BY <1>6 DEF MonsterCards, CardsWith
<1>8. MonsterAt(w, p, s, c)
  BY <1>1, <1>3, <1>6, <1>7 DEF MonsterAt, Holds
<1>9. CardAt(w, "monsters", p, s) = c
  BY <1>1, <1>5 DEF CardAt
<1> QED
  BY <1>8, <1>9

SpellAt(w, p, s, c) ==
    /\ s \in SpellSlots /\ Holds(w, "spells", p, s) = <<c>> /\ c \in SpellCards
    /\ c.code \in Codes /\ c.owner = p /\ c.up \in BOOLEAN /\ c.shown = FALSE
    /\ c.materials = <<>> /\ c.equip \in Seq(Aimed) /\ c.targets \in Seq(Aimed)
    /\ p = 0 => c.equip = <<>> /\ c.targets = <<>>

(* The card in a taken spell slot.                                          *)
LEMMA SpellIs ==
    ASSUME NEW w, Proper(w), NEW p \in Players, NEW s \in Taken(w, "spells", p)
    PROVE  SpellAt(w, p, s, CardAt(w, "spells", p, s))
<1>1. PICK m : m = w.spells[p]
  OBVIOUS
<1>2. SpellsOf(m, p)
  BY <1>1, ProperParts
<1>3. s \in SpellSlots /\ m[s] # <<>>
  BY <1>1 DEF Taken, Slots
<1>4. /\ m[s] \in Seq(SpellCards) /\ Len(m[s]) <= 1 /\ m[s][1].owner = p
      /\ p = 0 => m[s][1].equip = <<>> /\ m[s][1].targets = <<>>
  BY <1>2, <1>3 DEF SpellsOf
<1>5. PICK c : c = m[s][1]
  OBVIOUS
<1>6. m[s] = <<c>> /\ c \in SpellCards
  <2>1. PICK g : g = m[s]
    OBVIOUS
  <2>2. g \in Seq(SpellCards) /\ Len(g) <= 1 /\ g # <<>> /\ c = g[1]
    BY <1>3, <1>4, <1>5, <2>1
  <2>3. g = <<c>> /\ c \in SpellCards
    BY <2>2, OneCard
  <2> QED
    BY <2>1, <2>3
<1>7. /\ c.code \in Codes /\ c.up \in BOOLEAN /\ c.shown = FALSE
      /\ c.materials = <<>> /\ c.equip \in Seq(Aimed) /\ c.targets \in Seq(Aimed)
  BY <1>6 DEF SpellCards
<1>8. c.owner = p /\ (p = 0 => c.equip = <<>> /\ c.targets = <<>>)
  BY <1>4, <1>5
<1>9. SpellAt(w, p, s, c)
  BY <1>1, <1>3, <1>6, <1>7, <1>8 DEF SpellAt, Holds
<1>10. CardAt(w, "spells", p, s) = c
  BY <1>1, <1>5 DEF CardAt
<1> QED
  BY <1>9, <1>10

(* The cards of two fields that look the same, slot for slot. *)
LEMMA CardSame ==
    ASSUME NEW w, NEW v, AlikeFields(w, v), NEW row \in Rows, NEW p \in Players,
           NEW s \in Taken(w, row, p)
    PROVE  s \in Taken(v, row, p) /\ SameCard(CardAt(w, row, p, s), CardAt(v, row, p, s))
<1>1. SamePart(row, w[row], v[row])
  BY PartOf DEF Rows, FieldNames
<1>2. s \in Slots(row) /\ w[row][p][s] # <<>>
  BY DEF Taken
<1>3. SameCards(w[row][p][s], v[row][p][s])
  BY <1>1, <1>2 DEF SamePart, Rows, Slots
<1>4. w[row][p][s] \in Seq(IF row = "monsters" THEN MonsterCards ELSE SpellCards)
      /\ v[row][p][s] \in Seq(IF row = "monsters" THEN MonsterCards ELSE SpellCards)
  <2>1. Proper(w) /\ Proper(v)
    BY DEF AlikeFields
  <2>2. MonstersOf(w.monsters[p]) /\ SpellsOf(w.spells[p], p) /\ MonstersOf(v.monsters[p]) /\ SpellsOf(v.spells[p], p)
    BY <2>1, ProperParts
  <2>3. CASE row = "monsters"
    BY <1>2, <2>2, <2>3 DEF MonstersOf, Slots
  <2>4. CASE row = "spells"
    BY <1>2, <2>2, <2>4 DEF SpellsOf, Slots
  <2> QED
    BY <2>3, <2>4 DEF Rows
<1>5. PICK T, g, h : /\ T = (IF row = "monsters" THEN MonsterCards ELSE SpellCards)
                     /\ g = w[row][p][s] /\ h = v[row][p][s]
  OBVIOUS
<1>6. g \in Seq(T) /\ h \in Seq(T) /\ g # <<>> /\ Len(h) = Len(g)
      /\ \A i \in DOMAIN g : SameCard(g[i], h[i])
  BY <1>2, <1>3, <1>4, <1>5 DEF SameCards
<1>7. h # <<>> /\ SameCard(g[1], h[1])
  <2>1. 1 \in DOMAIN g /\ h # <<>>
    BY <1>6
  <2> QED
    BY <1>6, <2>1
<1> QED
  BY <1>2, <1>5, <1>7 DEF Taken, CardAt

(* The same put in one slot of a row, in both. *)
BothTo(w, v, x, y, row, p, s, e, f) ==
    /\ SlotCards(row, p, e) /\ SlotTo(w, x, row, p, s, e)
    /\ SlotCards(row, p, f) /\ SlotTo(v, y, row, p, s, f) /\ SameCards(e, f)

(* Fields still look the same with cards in a slot that look the same,      *)
LEMMA PutAlike ==
    ASSUME NEW w, NEW v, AlikeFields(w, v), NEW row \in Rows, NEW p \in Players, NEW s \in Slots(row),
           NEW e, NEW f, NEW x, NEW y, BothTo(w, v, x, y, row, p, s, e, f)
    PROVE  AlikeFields(x, y)
<1>0. /\ SlotCards(row, p, e) /\ SlotTo(w, x, row, p, s, e)
      /\ SlotCards(row, p, f) /\ SlotTo(v, y, row, p, s, f) /\ SameCards(e, f)
  BY DEF BothTo
<1>1. Proper(w) /\ Proper(v)
  BY DEF AlikeFields
<1>3. /\ Proper(x) /\ Keeps(w, x, {row}) /\ Holds(x, row, p, s) = e /\ OtherSlots(w, x, row, p, s)
  BY <1>0, <1>1, SlotSet
<1>4. /\ Proper(y) /\ Keeps(v, y, {row}) /\ Holds(y, row, p, s) = f /\ OtherSlots(v, y, row, p, s)
  BY <1>0, <1>1, SlotSet
<1>5. SamePart(row, w[row], v[row])
  BY PartOf DEF Rows, FieldNames
<1>6. SameCards(Holds(x, row, p, s), Holds(y, row, p, s))
  BY <1>0, <1>3, <1>4
<1>7. SamePart(row, x[row], y[row])
  BY <1>3, <1>4, <1>5, <1>6, RowSame
<1>8. \A f1 \in {row} : SamePart(f1, x[f1], y[f1])
  BY <1>7
<1> QED
  BY <1>3, <1>4, <1>8, AlikeAfter

(* with a single card each.                                                 *)
LEMMA SlotAlike ==
    ASSUME NEW w, NEW v, AlikeFields(w, v), NEW row \in Rows, NEW p \in Players, NEW s \in Slots(row),
           NEW c, SlotCards(row, p, <<c>>), NEW x, SlotTo(w, x, row, p, s, <<c>>),
           NEW d, SlotCards(row, p, <<d>>), NEW y, SlotTo(v, y, row, p, s, <<d>>),
           SameCard(c, d)
    PROVE  AlikeFields(x, y)
<1>1. PICK e, f : e = <<c>> /\ f = <<d>>
  OBVIOUS
<1>2. SameCards(e, f)
  BY <1>1, OneSame
<1>3. SlotCards(row, p, e) /\ SlotTo(w, x, row, p, s, e)
  BY <1>1
<1>4. SlotCards(row, p, f) /\ SlotTo(v, y, row, p, s, f)
  BY <1>1
<1>5. BothTo(w, v, x, y, row, p, s, e, f)
  BY <1>2, <1>3, <1>4 DEF BothTo
<1> QED
  BY <1>5, PutAlike

TurnedCard(c) == [c EXCEPT !.up = ~@]
TurnedField(w, p, s) ==
    [w EXCEPT !.monsters[p][s] = <<TurnedCard(CardAt(w, "monsters", p, s))>>]
TurnTold(p, s, c) ==
    LET at == OnField("monsters", p, s, TurnedCard(c))
    IN  <<[t |-> "pos_change", code |-> c.code, at |-> at, was |-> c.up]>>
        \o (IF TurnedCard(c).up THEN <<AtTold("flipsummoning", c, at)>> ELSE <<>>)

TurnsOne(w, a, p, s) ==
    /\ s \in Taken(w, "monsters", p)
    /\ a.field = TurnedField(w, p, s) /\ a.told = TurnTold(p, s, CardAt(w, "monsters", p, s))
    /\ a.seen = <<"turn", p, s, CardAt(w, "monsters", p, s).code,
                  CardAt(w, "monsters", p, s).materials>>

(* What a turn of a monster does, tells and shows.                          *)
LEMMA TurnIs ==
    ASSUME NEW w, NEW a \in Turns(w)
    PROVE  \E p \in Players : \E s : TurnsOne(w, a, p, s)
<1>1. PICK p \in Players : \E s \in Taken(w, "monsters", p) : a = Flipped(w, p, s)
  BY DEF Turns
<1>2. PICK s \in Taken(w, "monsters", p) : a = Flipped(w, p, s)
  BY <1>1
<1>3. /\ Flipped(w, p, s).field = TurnedField(w, p, s)
      /\ Flipped(w, p, s).told = TurnTold(p, s, CardAt(w, "monsters", p, s))
      /\ Flipped(w, p, s).seen = <<"turn", p, s, CardAt(w, "monsters", p, s).code,
                                    CardAt(w, "monsters", p, s).materials>>
  BY DEF Flipped, After, TurnedField, TurnTold, TurnedCard
<1>4. TurnsOne(w, a, p, s)
  BY <1>2, <1>3 DEF TurnsOne
<1> QED
  BY <1>4

(* A card the other way up.                                                 *)
LEMMA TurnedIs ==
    ASSUME NEW c \in MonsterCards
    PROVE  /\ TurnedCard(c) \in MonsterCards /\ TurnedCard(c).code = c.code
           /\ TurnedCard(c).owner = c.owner /\ TurnedCard(c).up = ~c.up
           /\ TurnedCard(c).shown = c.shown /\ TurnedCard(c).materials = c.materials
           /\ TurnedCard(c).equip = c.equip /\ TurnedCard(c).targets = c.targets
  BY DEF TurnedCard, MonsterCards, CardsWith

(* A turn of cards of the same code tells the same. *)
LEMMA TurnSame ==
    ASSUME NEW c \in MonsterCards, NEW d \in MonsterCards, d.code = c.code, d.up = c.up,
           NEW p, NEW s
    PROVE  TurnTold(p, s, d) = TurnTold(p, s, c)
<1>1. PICK u \in BOOLEAN : u = TurnedCard(c).up
  BY TurnedIs
<1>2. TurnedCard(d).up = u
  BY <1>1, TurnedIs
<1>3. OnField("monsters", p, s, TurnedCard(d)) = OnField("monsters", p, s, TurnedCard(c))
  BY <1>1, <1>2 DEF OnField, Place
<1>4. PICK at : at = OnField("monsters", p, s, TurnedCard(c))
  OBVIOUS
<1>5. AtTold("flipsummoning", d, at) = AtTold("flipsummoning", c, at)
  BY DEF AtTold
<1>6. [t |-> "pos_change", code |-> d.code, at |-> at, was |-> d.up]
        = [t |-> "pos_change", code |-> c.code, at |-> at, was |-> c.up]
  OBVIOUS
<1> QED
  BY <1>1, <1>2, <1>3, <1>4, <1>5, <1>6 DEF TurnTold

(* Turns that player 0 cannot tell apart leave fields and messages that     *)
(* look the same.                                                           *)
LEMMA TurnsAlike ==
    ASSUME NEW w, NEW v, AlikeFields(w, v), NEW a \in Turns(w), NEW b \in Turns(v),
           a.seen = b.seen
    PROVE  Match(w, v, a, b)
<1>1. Proper(w) /\ Proper(v)
  BY DEF AlikeFields
<1>2. PICK p \in Players : \E s : TurnsOne(w, a, p, s)
  BY TurnIs
<1>3. PICK s : TurnsOne(w, a, p, s)
  BY <1>2
<1>4. PICK q \in Players : \E t : TurnsOne(v, b, q, t)
  BY TurnIs
<1>5. PICK t : TurnsOne(v, b, q, t)
  BY <1>4
<1>6. PICK c, d : c = CardAt(w, "monsters", p, s) /\ d = CardAt(v, "monsters", q, t)
  OBVIOUS
<1>7. /\ s \in Taken(w, "monsters", p) /\ a.field = TurnedField(w, p, s)
      /\ a.told = TurnTold(p, s, c) /\ a.seen = <<"turn", p, s, c.code, c.materials>>
  BY <1>3, <1>6 DEF TurnsOne
<1>8. /\ t \in Taken(v, "monsters", q) /\ b.field = TurnedField(v, q, t)
      /\ b.told = TurnTold(q, t, d) /\ b.seen = <<"turn", q, t, d.code, d.materials>>
  BY <1>5, <1>6 DEF TurnsOne
<1>9. q = p /\ t = s /\ d.code = c.code /\ d.materials = c.materials
  <2>1. PICK i, j, m, n : i = c.code /\ j = d.code /\ m = c.materials /\ n = d.materials
    OBVIOUS
  <2>2. <<"turn", p, s, i, m>> = <<"turn", q, t, j, n>>
    BY <1>7, <1>8, <2>1
  <2>3. p = q /\ s = t /\ i = j /\ m = n
    BY <2>2
  <2> QED
    BY <2>1, <2>3
<1>10. MonsterAt(w, p, s, c) /\ MonsterAt(v, p, s, d)
  <2>1. MonsterAt(w, p, s, CardAt(w, "monsters", p, s))
    BY <1>1, <1>7, MonsterIs
  <2>2. MonsterAt(v, q, t, CardAt(v, "monsters", q, t))
    BY <1>1, <1>8, MonsterIs
  <2> QED
    BY <1>6, <1>9, <2>1, <2>2
<1>11. /\ s \in MonsterSlots /\ c \in MonsterCards /\ c.up \in BOOLEAN
       /\ d \in MonsterCards /\ d.up \in BOOLEAN
  BY <1>10 DEF MonsterAt
<1>12. SameCard(c, d)
  <2>1. SameCard(CardAt(w, "monsters", p, s), CardAt(v, "monsters", p, s))
    BY <1>7, CardSame DEF Rows
  <2> QED
    BY <1>6, <1>9, <2>1
<1>13. d.up = c.up /\ d.owner = c.owner /\ d.shown = c.shown /\ d.equip = c.equip
       /\ d.targets = c.targets
  BY <1>12 DEF SameCard
<1>14. b.told = a.told
  <2>1. TurnTold(p, s, d) = TurnTold(p, s, c)
    BY <1>9, <1>11, <1>13, TurnSame
  <2> QED
    BY <1>7, <1>8, <1>9, <2>1
<1>15. PICK e, f : e = TurnedCard(c) /\ f = TurnedCard(d)
  OBVIOUS
<1>16. /\ e \in MonsterCards /\ e.code = c.code /\ e.owner = c.owner /\ e.up = ~c.up
       /\ e.shown = c.shown /\ e.materials = c.materials /\ e.equip = c.equip
       /\ e.targets = c.targets
  BY <1>11, <1>15, TurnedIs
<1>17. /\ f \in MonsterCards /\ f.code = d.code /\ f.owner = d.owner /\ f.up = ~d.up
       /\ f.shown = d.shown /\ f.materials = d.materials /\ f.equip = d.equip
       /\ f.targets = d.targets
  BY <1>11, <1>15, TurnedIs
<1>18. SameCard(e, f)
  BY <1>9, <1>13, <1>16, <1>17 DEF SameCard
<1>19. SlotCards("monsters", p, <<e>>) /\ SlotCards("monsters", p, <<f>>)
  BY <1>16, <1>17 DEF SlotCards
<1>20. PICK x, y : SlotTo(w, x, "monsters", p, s, <<e>>) /\ SlotTo(v, y, "monsters", p, s, <<f>>)
  BY DEF SlotTo
<1>21. AlikeFields(x, y)
  <2>1. "monsters" \in Rows /\ s \in Slots("monsters")
    BY <1>11 DEF Rows, Slots
  <2> QED
    BY <1>18, <1>19, <1>20, <2>1, SlotAlike
<1>22. x = TurnedField(w, p, s) /\ y = TurnedField(v, p, s)
  BY <1>6, <1>9, <1>15, <1>20 DEF SlotTo, TurnedField
<1> QED
  BY <1>7, <1>8, <1>9, <1>14, <1>21, <1>22, SameMessages DEF Match

----------------------------------------------------------------------------
(* Slots that are left.                                                     *)

Others(places, p, s) ==
    Selected(places, {i \in DOMAIN places :
                        ~(places[i].controller = p /\ places[i].sequence = s)})

(* The targets that are left.                                               *)
LEMMA OthersAre ==
    ASSUME NEW places \in Seq(Aimed), NEW p, NEW s
    PROVE  Others(places, p, s) \in Seq(Aimed) /\ (places = <<>> => Others(places, p, s) = <<>>)
<1>1. PICK P : P = {i \in DOMAIN places : ~(places[i].controller = p /\ places[i].sequence = s)}
  OBVIOUS
<1>2. P \in SUBSET (1..Len(places))
  BY <1>1
<1>3. Others(places, p, s) = Selected(places, P)
  BY <1>1 DEF Others
<1>4. Selected(places, P) \in Seq(Aimed)
  BY <1>2, SelectedIs
<1>5. ASSUME places = <<>> PROVE Selected(places, P) = <<>>
  <2>1. P = {}
    BY <1>1, <1>5
  <2> QED
    BY <2>1, FS_EmptySet DEF Selected
<1> QED
  BY <1>3, <1>4, <1>5

(* Forgetting a place, target by target.                                    *)
LEMMA ForgetsIs ==
    ASSUME NEW c, NEW p, NEW s
    PROVE  Forgets(c, p, s)
             = [c EXCEPT !.targets = Others(c.targets, p, s), !.equip = Others(c.equip, p, s)]
  BY DEF Forgets, Others

(* A monster aims at nothing it could forget.                               *)
LEMMA MonsterForgets ==
    ASSUME NEW c \in MonsterCards, NEW p, NEW s
    PROVE  Forgets(c, p, s) = c
<1>1. PICK none : none = <<>>
  OBVIOUS
<1>2. Others(none, p, s) = none
  <2>1. none \in Seq(Aimed)
    BY <1>1
  <2>2. none = <<>> => Others(none, p, s) = <<>>
    BY <2>1, OthersAre
  <2> QED
    BY <1>1, <2>2
<1>3. c.targets = none /\ c.equip = none
  BY <1>1 DEF MonsterCards, CardsWith
<1>4. Forgets(c, p, s) = [c EXCEPT !.targets = none, !.equip = none]
  BY <1>2, <1>3, ForgetsIs
<1> QED
  BY <1>3, <1>4 DEF MonsterCards, CardsWith

(* A spell that forgets a place is a spell.                                 *)
LEMMA SpellForgets ==
    ASSUME NEW c \in SpellCards, NEW p, NEW s
    PROVE  LET d == Forgets(c, p, s)
           IN  /\ d \in SpellCards /\ d.code = c.code /\ d.owner = c.owner /\ d.up = c.up
               /\ d.shown = c.shown /\ d.materials = c.materials
               /\ d.targets = Others(c.targets, p, s) /\ d.equip = Others(c.equip, p, s)
               /\ c.equip = <<>> => d.equip = <<>>
               /\ c.targets = <<>> => d.targets = <<>>
<1>1. PICK t, e : t = Others(c.targets, p, s) /\ e = Others(c.equip, p, s)
  OBVIOUS
<1>2. c.targets \in Seq(Aimed) /\ c.equip \in Seq(Aimed)
  BY DEF SpellCards
<1>3. /\ t \in Seq(Aimed) /\ e \in Seq(Aimed) /\ (c.equip = <<>> => e = <<>>)
      /\ c.targets = <<>> => t = <<>>
  BY <1>1, <1>2, OthersAre
<1>4. PICK d : d = [c EXCEPT !.targets = t, !.equip = e]
  OBVIOUS
<1>5. /\ d \in SpellCards /\ d.code = c.code /\ d.owner = c.owner /\ d.up = c.up
      /\ d.shown = c.shown /\ d.materials = c.materials /\ d.targets = t /\ d.equip = e
  BY <1>3, <1>4 DEF SpellCards
<1>6. d = Forgets(c, p, s)
  BY <1>1, <1>4, ForgetsIs
<1> QED
  BY <1>1, <1>3, <1>5, <1>6

(* Two cards that look the same forget the same. *)
LEMMA ForgetsAlike ==
    ASSUME NEW c \in SpellCards, NEW d \in SpellCards, SameCard(c, d), NEW p, NEW s
    PROVE  SameCard(Forgets(c, p, s), Forgets(d, p, s))
<1>1. PICK e, f : e = Forgets(c, p, s) /\ f = Forgets(d, p, s)
  OBVIOUS
<1>2. /\ e.code = c.code /\ e.owner = c.owner /\ e.up = c.up /\ e.shown = c.shown
      /\ e.materials = c.materials /\ e.targets = Others(c.targets, p, s)
      /\ e.equip = Others(c.equip, p, s)
  BY <1>1, SpellForgets
<1>3. /\ f.code = d.code /\ f.owner = d.owner /\ f.up = d.up /\ f.shown = d.shown
      /\ f.materials = d.materials /\ f.targets = Others(d.targets, p, s)
      /\ f.equip = Others(d.equip, p, s)
  BY <1>1, SpellForgets
<1>4. SameCard(e, f)
  BY <1>2, <1>3 DEF SameCard
<1> QED
  BY <1>1, <1>4

ForgotSlot(cards, row, p, s) ==
    IF cards = <<>> \/ row = "spells" THEN cards ELSE <<Forgets(cards[1], p, s)>>
ForgotRow(slots, row, p, s) == [t \in DOMAIN slots |-> ForgotSlot(slots[t], row, p, s)]
ForgotRows(rows, row, p, s) == [q \in Players |-> ForgotRow(rows[q], row, p, s)]
Forgot(w, row, p, s) ==
    [w EXCEPT !.monsters = ForgotRows(w.monsters, row, p, s),
              !.spells = ForgotRows(w.spells, row, p, s)]

(* So the monsters stay as they are,                                        *)
LEMMA MonstersForgot ==
    ASSUME NEW m, MonstersOf(m), NEW row \in Rows, NEW p, NEW s
    PROVE  ForgotRow(m, row, p, s) = m
<1>1. m \in [MonsterSlots -> Seq(MonsterCards)]
  BY DEF MonstersOf
<1>2. ASSUME NEW t \in MonsterSlots PROVE ForgotSlot(m[t], row, p, s) = m[t]
  <2>1. m[t] \in Seq(MonsterCards) /\ Len(m[t]) <= 1
    BY <1>2 DEF MonstersOf
  <2>2. CASE m[t] = <<>> \/ row = "spells"
    BY <2>2 DEF ForgotSlot
  <2>3. CASE m[t] # <<>> /\ row # "spells"
    <3>1. PICK g : g = m[t]
      OBVIOUS
    <3>2. g = <<g[1]>> /\ g[1] \in MonsterCards
      BY <2>1, <2>3, <3>1, OneCard
    <3>3. Forgets(g[1], p, s) = g[1]
      BY <3>2, MonsterForgets
    <3> QED
      BY <2>3, <3>1, <3>2, <3>3 DEF ForgotSlot
  <2> QED
    BY <2>2, <2>3
<1>3. ForgotRow(m, row, p, s) = [t \in MonsterSlots |-> m[t]]
  BY <1>1, <1>2 DEF ForgotRow
<1> QED
  BY <1>1, <1>3

(* and the spells proper.                                                   *)
LEMMA SpellsForgot ==
    ASSUME NEW q \in Players, NEW m, SpellsOf(m, q), NEW row \in Rows, NEW p, NEW s
    PROVE  SpellsOf(ForgotRow(m, row, p, s), q)
<1>1. m \in [SpellSlots -> Seq(SpellCards)]
  BY DEF SpellsOf
<1>2. PICK f : f = ForgotRow(m, row, p, s)
  OBVIOUS
<1>3. f = [t \in SpellSlots |-> ForgotSlot(m[t], row, p, s)]
  BY <1>1, <1>2 DEF ForgotRow
<1>4. ASSUME NEW t \in SpellSlots
      PROVE  /\ f[t] \in Seq(SpellCards) /\ Len(f[t]) <= 1
             /\ f[t] # <<>> => /\ f[t][1].owner = q
                               /\ q = 0 => f[t][1].equip = <<>> /\ f[t][1].targets = <<>>
  <2>1. /\ m[t] \in Seq(SpellCards) /\ Len(m[t]) <= 1
        /\ m[t] # <<>> => /\ m[t][1].owner = q
                          /\ q = 0 => m[t][1].equip = <<>> /\ m[t][1].targets = <<>>
    BY <1>4 DEF SpellsOf
  <2>2. f[t] = ForgotSlot(m[t], row, p, s)
    BY <1>3, <1>4
  <2>3. CASE m[t] = <<>> \/ row = "spells"
    <3>1. f[t] = m[t]
      BY <2>2, <2>3 DEF ForgotSlot
    <3> QED
      BY <2>1, <3>1
  <2>4. CASE m[t] # <<>> /\ row # "spells"
    <3>1. PICK g : g = m[t]
      OBVIOUS
    <3>2. g = <<g[1]>> /\ g[1] \in SpellCards
      BY <2>1, <2>4, <3>1, OneCard
    <3>3. PICK c, d : c = g[1] /\ d = Forgets(c, p, s)
      OBVIOUS
    <3>4. /\ d \in SpellCards /\ d.owner = c.owner /\ (c.equip = <<>> => d.equip = <<>>)
          /\ c.targets = <<>> => d.targets = <<>>
      BY <3>2, <3>3, SpellForgets
    <3>5. f[t] = <<d>>
      BY <2>2, <2>4, <3>1, <3>3 DEF ForgotSlot
    <3>6. c.owner = q /\ (q = 0 => c.equip = <<>> /\ c.targets = <<>>)
      BY <2>1, <2>4, <3>1, <3>3
    <3>7. PICK h : h = <<d>>
      OBVIOUS
    <3>8. h \in Seq(SpellCards) /\ Len(h) = 1 /\ h[1] = d
      BY <3>4, <3>7
    <3> QED
      BY <3>4, <3>5, <3>6, <3>7, <3>8
  <2> QED
    BY <2>3, <2>4
<1>5. f \in [SpellSlots -> Seq(SpellCards)]
  BY <1>3, <1>4
<1>6. SpellsOf(f, q)
  BY <1>4, <1>5 DEF SpellsOf
<1> QED
  BY <1>2, <1>6

(* The field after all cards forget a place.                                *)
LEMMA ForgotIs ==
    ASSUME NEW w, Proper(w), NEW row \in Rows, NEW p, NEW s
    PROVE  LET x == Forgot(w, row, p, s)
           IN  /\ Proper(x) /\ Keeps(w, x, {"spells"})
               /\ x.spells = ForgotRows(w.spells, row, p, s)
<1>1. PICK m, n : m = ForgotRows(w.monsters, row, p, s) /\ n = ForgotRows(w.spells, row, p, s)
  OBVIOUS
<1>2. \A q \in Players : MonstersOf(w.monsters[q]) /\ SpellsOf(w.spells[q], q)
  BY ProperParts
<1>3. w \in Fields
  BY ProperParts
<1>4. /\ w = [f \in FieldNames |-> w[f]]
      /\ w.monsters \in [Players -> [MonsterSlots -> Seq(MonsterCards)]]
      /\ w.spells \in [Players -> [SpellSlots -> Seq(SpellCards)]]
  BY <1>3, FieldIs
<1>5. m = w.monsters
  <2>1. \A q \in Players : ForgotRow(w.monsters[q], row, p, s) = w.monsters[q]
    BY <1>2, MonstersForgot
  <2>2. m = [q \in Players |-> w.monsters[q]]
    BY <1>1, <2>1 DEF ForgotRows
  <2> QED
    BY <1>4, <2>2
<1>6. \A q \in Players : SpellsOf(n[q], q)
  <2>1. \A q \in Players : n[q] = ForgotRow(w.spells[q], row, p, s)
    BY <1>1 DEF ForgotRows
  <2> QED
    BY <1>2, <2>1, SpellsForgot
<1>7. n \in [Players -> [SpellSlots -> Seq(SpellCards)]]
  <2>1. \A q \in Players : n[q] \in [SpellSlots -> Seq(SpellCards)]
    BY <1>6 DEF SpellsOf
  <2>2. n = [q \in Players |-> n[q]]
    BY <1>1 DEF ForgotRows
  <2> QED
    BY <2>1, <2>2
<1>8. PICK x : SpellsTo(w, x, n)
  BY DEF SpellsTo
<1>9. Proper(x) /\ Keeps(w, x, {"spells"}) /\ x.spells = n
  BY <1>6, <1>7, <1>8, SpellsSet
<1>10. x = Forgot(w, row, p, s)
  <2>1. [w EXCEPT !.monsters = m, !.spells = n] = [w EXCEPT !.spells = n]
    BY <1>4, <1>5
  <2> QED
    BY <1>1, <1>8, <2>1 DEF Forgot, SpellsTo
<1> QED
  BY <1>1, <1>9, <1>10

(* Fields still look the same after all cards forget a place.               *)
LEMMA ForgotAlike ==
    ASSUME NEW w, NEW v, AlikeFields(w, v), NEW row \in Rows, NEW p, NEW s
    PROVE  AlikeFields(Forgot(w, row, p, s), Forgot(v, row, p, s))
<1>1. Proper(w) /\ Proper(v)
  BY DEF AlikeFields
<1>2. PICK x, y : x = Forgot(w, row, p, s) /\ y = Forgot(v, row, p, s)
  OBVIOUS
<1>3. Proper(x) /\ Keeps(w, x, {"spells"}) /\ x.spells = ForgotRows(w.spells, row, p, s)
  BY <1>1, <1>2, ForgotIs
<1>4. Proper(y) /\ Keeps(v, y, {"spells"}) /\ y.spells = ForgotRows(v.spells, row, p, s)
  BY <1>1, <1>2, ForgotIs
<1>5. SamePart("spells", w.spells, v.spells)
  BY PartOf DEF FieldNames
<1>6. ASSUME NEW q \in Players, NEW t \in SpellSlots
      PROVE  SameCards(x.spells[q][t], y.spells[q][t])
  <2>1. PICK m, n : m = w.spells[q] /\ n = v.spells[q]
    OBVIOUS
  <2>2. SpellsOf(m, q) /\ SpellsOf(n, q)
    BY <1>1, <1>6, <2>1, ProperParts
  <2>3. /\ DOMAIN m = SpellSlots /\ m[t] \in Seq(SpellCards) /\ Len(m[t]) <= 1
        /\ DOMAIN n = SpellSlots /\ n[t] \in Seq(SpellCards) /\ Len(n[t]) <= 1
    BY <1>6, <2>2 DEF SpellsOf
  <2>4. SameCards(m[t], n[t])
    BY <1>5, <1>6, <2>1 DEF SamePart
  <2>5. x.spells[q][t] = ForgotSlot(m[t], row, p, s) /\ y.spells[q][t] = ForgotSlot(n[t], row, p, s)
    BY <1>3, <1>4, <1>6, <2>1, <2>3 DEF ForgotRows, ForgotRow
  <2>6. PICK g, h : g = m[t] /\ h = n[t]
    OBVIOUS
  <2>7. g \in Seq(SpellCards) /\ h \in Seq(SpellCards) /\ Len(g) <= 1 /\ Len(h) <= 1
        /\ Len(h) = Len(g) /\ \A i \in DOMAIN g : SameCard(g[i], h[i])
    BY <2>3, <2>4, <2>6 DEF SameCards
  <2>8. (h = <<>>) <=> (g = <<>>)
    BY <2>7
  <2>9. SameCards(ForgotSlot(g, row, p, s), ForgotSlot(h, row, p, s))
    <3>1. CASE g = <<>> \/ row = "spells"
      <4>1. ForgotSlot(g, row, p, s) = g /\ ForgotSlot(h, row, p, s) = h
        BY <2>8, <3>1 DEF ForgotSlot
      <4> QED
        BY <2>7, <4>1 DEF SameCards
    <3>2. CASE g # <<>> /\ row # "spells"
      <4>1. g = <<g[1]>> /\ g[1] \in SpellCards /\ h = <<h[1]>> /\ h[1] \in SpellCards
        BY <2>7, <2>8, <3>2, OneCard
      <4>2. SameCard(g[1], h[1])
        <5>1. 1 \in DOMAIN g
          BY <4>1
        <5> QED
          BY <2>7, <5>1
      <4>3. SameCard(Forgets(g[1], p, s), Forgets(h[1], p, s))
        BY <4>1, <4>2, ForgetsAlike
      <4>4. ForgotSlot(g, row, p, s) = <<Forgets(g[1], p, s)>> /\ ForgotSlot(h, row, p, s) = <<Forgets(h[1], p, s)>>
        BY <2>8, <3>2 DEF ForgotSlot
      <4> QED
        BY <4>3, <4>4, OneSame
    <3> QED
      BY <3>1, <3>2
  <2> QED
    BY <2>5, <2>6, <2>9
<1>7. SamePart("spells", x.spells, y.spells)
  BY <1>6 DEF SamePart
<1>8. AlikeFields(x, y)
  <2>1. \A f \in {"spells"} : SamePart(f, x[f], y[f])
    BY <1>7
  <2> QED
    BY <1>3, <1>4, <2>1, AlikeAfter
<1> QED
  BY <1>2, <1>8

(* An empty slot is proper and looks like another.                          *)
LEMMA NoCards ==
    ASSUME NEW row \in Rows, NEW p \in Players
    PROVE  SlotCards(row, p, <<>>) /\ SameCards(<<>>, <<>>)
<1>1. PICK none : none = <<>>
  OBVIOUS
<1>2. /\ Len(none) <= 1 /\ none \in Seq(MonsterCards) /\ none \in Seq(SpellCards)
      /\ DOMAIN none = {}
  BY <1>1
<1>3. SlotCards(row, p, none)
  BY <1>1, <1>2 DEF SlotCards
<1>4. SameCards(none, none)
  BY <1>2 DEF SameCards
<1> QED
  BY <1>1, <1>3, <1>4

(* A slot is vacated, then its place is forgotten.                          *)
LEMMA VacatedIs ==
    ASSUME NEW w, Proper(w), NEW row \in Rows, NEW p, NEW s,
           NEW y, SlotTo(w, y, row, p, s, <<>>), Proper(y)
    PROVE  Vacated(w, row, p, s) = Forgot(y, row, p, s)
  BY DEF Vacated, Forgot, ForgotRows, ForgotRow, ForgotSlot, SlotTo

(* Fields still look the same with the same slot vacated.                   *)
LEMMA VacatedAlike ==
    ASSUME NEW w, NEW v, AlikeFields(w, v), NEW row \in Rows, NEW p \in Players, NEW s \in Slots(row)
    PROVE  AlikeFields(Vacated(w, row, p, s), Vacated(v, row, p, s))
<1>1. Proper(w) /\ Proper(v)
  BY DEF AlikeFields
<1>2. PICK x, y : SlotTo(w, x, row, p, s, <<>>) /\ SlotTo(v, y, row, p, s, <<>>)
  BY DEF SlotTo
<1>3. SlotCards(row, p, <<>>) /\ SameCards(<<>>, <<>>)
  BY NoCards
<1>4. AlikeFields(x, y)
  <2>1. PICK none : none = <<>>
    OBVIOUS
  <2>2. SlotCards(row, p, none) /\ SameCards(none, none)
    BY <1>3, <2>1
  <2>3. SlotTo(w, x, row, p, s, none) /\ SlotTo(v, y, row, p, s, none)
    BY <1>2, <2>1
  <2>4. BothTo(w, v, x, y, row, p, s, none, none)
    BY <2>2, <2>3 DEF BothTo
  <2> QED
    BY <2>4, PutAlike
<1>5. AlikeFields(Forgot(x, row, p, s), Forgot(y, row, p, s))
  BY <1>4, ForgotAlike
<1>6. Proper(x) /\ Proper(y)
  BY <1>4 DEF AlikeFields
<1>7. Vacated(w, row, p, s) = Forgot(x, row, p, s) /\ Vacated(v, row, p, s) = Forgot(y, row, p, s)
  BY <1>1, <1>2, <1>6, VacatedIs
<1> QED
  BY <1>5, <1>7

(* A vacated slot leaves the other monsters where they are.                 *)
LEMMA VacatedKeeps ==
    ASSUME NEW w, Proper(w), NEW row \in Rows, NEW p \in Players, NEW s \in Slots(row)
    PROVE  LET x == Vacated(w, row, p, s)
           IN  /\ Proper(x) /\ Keeps(w, x, {"monsters", "spells"})
               /\ \A q \in Players : \A t \in MonsterSlots :
                     q # p \/ t # s => Holds(x, "monsters", q, t) = Holds(w, "monsters", q, t)
<1>1. PICK y : SlotTo(w, y, row, p, s, <<>>)
  BY DEF SlotTo
<1>2. SlotCards(row, p, <<>>)
  BY NoCards
<1>3. /\ Proper(y) /\ Keeps(w, y, {row})
      /\ \A q \in Players : \A t \in Slots(row) :
            q # p \/ t # s => Holds(y, row, q, t) = Holds(w, row, q, t)
  <2>1. PICK none : none = <<>>
    OBVIOUS
  <2>2. SlotCards(row, p, none) /\ SlotTo(w, y, row, p, s, none)
    BY <1>1, <1>2, <2>1
  <2>3. Proper(y) /\ Keeps(w, y, {row}) /\ OtherSlots(w, y, row, p, s)
    BY <2>2, SlotSet
  <2> QED
    BY <2>3 DEF OtherSlots
<1>4. PICK x : x = Forgot(y, row, p, s)
  OBVIOUS
<1>5. Proper(x) /\ Keeps(y, x, {"spells"})
  BY <1>3, <1>4, ForgotIs
<1>6. x = Vacated(w, row, p, s)
  BY <1>1, <1>3, <1>4, VacatedIs
<1>7. Keeps(w, x, {"monsters", "spells"})
  BY <1>3, <1>5 DEF Keeps, Rows
<1>8. \A q \in Players : \A t \in MonsterSlots :
         q # p \/ t # s => Holds(x, "monsters", q, t) = Holds(w, "monsters", q, t)
  <2>1. x.monsters = y.monsters
    BY <1>5 DEF Keeps, FieldNames
  <2>2. CASE row = "monsters"
    BY <1>3, <2>1, <2>2 DEF Holds, Slots
  <2>3. CASE row = "spells"
    <3>1. y.monsters = w.monsters
      BY <1>3, <2>3 DEF Keeps, FieldNames
    <3> QED
      BY <2>1, <3>1 DEF Holds
  <2> QED
    BY <2>2, <2>3 DEF Rows
<1> QED
  BY <1>5, <1>6, <1>7, <1>8

----------------------------------------------------------------------------
(* Cards that leave the field.                                              *)

LeftFor == {"grave", "banished", "hand"}
InPile(w, pile, p) == w[pile][p]
AddTo(w, x, pile, p, c) == x = [w EXCEPT ![pile][p] = Append(@, c)]

(* A card that may lie in a pile of p's, or be in its hand. *)
MayJoin(pile, p, c) ==
    /\ c \in PlainCards /\ c \in HeldCards /\ c.owner = p /\ c.shown = FALSE /\ c.up \in BOOLEAN
    /\ pile = "hand" => ~c.up

(* Lists still look the same with a card more that does.                    *)
LEMMA SameAppended ==
    ASSUME NEW T, NEW g \in Seq(T), NEW h \in Seq(T), SameCards(g, h), NEW c \in T, NEW d \in T,
           SameCard(c, d)
    PROVE  SameCards(Append(g, c), Append(h, d))
<1>1. Len(h) = Len(g) /\ \A i \in 1..Len(g) : SameCard(g[i], h[i])
  BY DEF SameCards
<1>2. PICK e, f : e = Append(g, c) /\ f = Append(h, d)
  OBVIOUS
<1>3. /\ DOMAIN e = 1..(Len(g) + 1) /\ Len(e) = Len(g) + 1 /\ e[Len(g) + 1] = c
      /\ \A i \in 1..Len(g) : e[i] = g[i]
      /\ Len(f) = Len(h) + 1 /\ f[Len(h) + 1] = d
      /\ \A i \in 1..Len(h) : f[i] = h[i]
      /\ Len(g) \in Nat
  BY <1>2
<1>4. ASSUME NEW i \in DOMAIN e PROVE SameCard(e[i], f[i])
  <2>1. i \in 1..Len(g) \/ i = Len(g) + 1
    BY <1>3, <1>4
  <2> QED
    BY <1>1, <1>3, <2>1
<1>5. SameCards(e, f)
  BY <1>1, <1>3, <1>4 DEF SameCards
<1> QED
  BY <1>2, <1>5

(* A card of its owner joins a pile,                                        *)
LEMMA PileAppended ==
    ASSUME NEW g, NEW p, PileOf(g, p), NEW c \in PlainCards, c.owner = p
    PROVE  PileOf(Append(g, c), p)
<1>1. g \in Seq(PlainCards) /\ \A i \in 1..Len(g) : g[i].owner = p
  BY DEF PileOf
<1>2. PICK e : e = Append(g, c)
  OBVIOUS
<1>3. /\ e \in Seq(PlainCards) /\ Len(e) = Len(g) + 1 /\ e[Len(g) + 1] = c /\ Len(g) \in Nat
      /\ \A i \in 1..Len(g) : e[i] = g[i]
  BY <1>1, <1>2
<1>4. \A i \in 1..Len(e) : e[i].owner = p
  BY <1>1, <1>3
<1>5. PileOf(e, p)
  BY <1>3, <1>4 DEF PileOf
<1> QED
  BY <1>2, <1>5

(* or a hand.                                                               *)
LEMMA HandAppended ==
    ASSUME NEW g, NEW p, HandOf(g, p), NEW c \in HeldCards, c.owner = p, c.up = FALSE,
           c.shown = FALSE
    PROVE  HandOf(Append(g, c), p)
<1>1. /\ g \in Seq(HeldCards)
      /\ \A i \in 1..Len(g) : g[i].owner = p /\ g[i].up = g[i].shown /\ (g[i].shown => p = 1)
  BY DEF HandOf
<1>2. PICK e : e = Append(g, c)
  OBVIOUS
<1>3. /\ e \in Seq(HeldCards) /\ Len(e) = Len(g) + 1 /\ e[Len(g) + 1] = c /\ Len(g) \in Nat
      /\ \A i \in 1..Len(g) : e[i] = g[i]
  BY <1>1, <1>2
<1>4. ASSUME NEW i \in 1..Len(e)
      PROVE  e[i].owner = p /\ e[i].up = e[i].shown /\ (e[i].shown => p = 1)
  <2>1. i \in 1..Len(g) \/ i = Len(g) + 1
    BY <1>3
  <2>2. CASE i = Len(g) + 1
    BY <1>3, <2>2
  <2>3. CASE i \in 1..Len(g)
    BY <1>1, <1>3, <2>3
  <2> QED
    BY <2>1, <2>2, <2>3
<1>5. HandOf(e, p)
  BY <1>3, <1>4 DEF HandOf
<1> QED
  BY <1>2, <1>5

Gained(w, x, pile, p, c) ==
    /\ Proper(x) /\ Keeps(w, x, {pile})
    /\ InPile(x, pile, p) = Append(InPile(w, pile, p), c)
    /\ \A q \in Players : q # p => InPile(x, pile, q) = InPile(w, pile, q)

(* The field after a card joins a pile or a hand.                           *)
LEMMA AddedIs ==
    ASSUME NEW w, Proper(w), NEW pile \in LeftFor, NEW p \in Players, NEW c, MayJoin(pile, p, c),
           NEW x, AddTo(w, x, pile, p, c)
    PROVE  Gained(w, x, pile, p, c)
<1>1. HandOf(w.hand[p], p) /\ PileOf(w.grave[p], p) /\ PileOf(w.banished[p], p)
  BY ProperParts
<1>2. /\ c \in PlainCards /\ c \in HeldCards /\ c.owner = p /\ c.shown = FALSE /\ c.up \in BOOLEAN
      /\ pile = "hand" => ~c.up
  BY DEF MayJoin
<1>3. CASE pile = "grave"
  <2>1. PICK g : g = Append(w.grave[p], c)
    OBVIOUS
  <2>2. PileOf(g, p)
    BY <1>1, <1>2, <2>1, PileAppended
  <2>3. GraveTo(w, x, p, g)
    BY <1>3, <2>1 DEF AddTo, GraveTo
  <2>4. /\ Proper(x) /\ Keeps(w, x, {"grave"}) /\ x.grave[p] = g
        /\ \A q \in Players : q # p => x.grave[q] = w.grave[q]
    BY <2>2, <2>3, GraveSet
  <2> QED
    BY <1>3, <2>1, <2>4 DEF InPile, Gained
<1>4. CASE pile = "banished"
  <2>1. PICK g : g = Append(w.banished[p], c)
    OBVIOUS
  <2>2. PileOf(g, p)
    BY <1>1, <1>2, <2>1, PileAppended
  <2>3. BanishedTo(w, x, p, g)
    BY <1>4, <2>1 DEF AddTo, BanishedTo
  <2>4. /\ Proper(x) /\ Keeps(w, x, {"banished"}) /\ x.banished[p] = g
        /\ \A q \in Players : q # p => x.banished[q] = w.banished[q]
    BY <2>2, <2>3, BanishedSet
  <2> QED
    BY <1>4, <2>1, <2>4 DEF InPile, Gained
<1>5. CASE pile = "hand"
  <2>1. PICK g : g = Append(w.hand[p], c)
    OBVIOUS
  <2>2. c.up = FALSE
    BY <1>2, <1>5
  <2>3. HandOf(g, p)
    BY <1>1, <1>2, <2>1, <2>2, HandAppended
  <2>4. HandTo(w, x, p, g)
    BY <1>5, <2>1 DEF AddTo, HandTo
  <2>5. /\ Proper(x) /\ Keeps(w, x, {"hand"}) /\ x.hand[p] = g
        /\ \A q \in Players : q # p => x.hand[q] = w.hand[q]
    BY <2>3, <2>4, HandSet
  <2> QED
    BY <1>5, <2>1, <2>5 DEF InPile, Gained
<1> QED
  BY <1>3, <1>4, <1>5 DEF LeftFor

JoinsBoth(w, v, x, y, pile, p, c, d) ==
    /\ MayJoin(pile, p, c) /\ AddTo(w, x, pile, p, c)
    /\ MayJoin(pile, p, d) /\ AddTo(v, y, pile, p, d)
    /\ SameCard(c, d) /\ (p = me => d = c)

(* Fields still look the same with a card more in a pile or hand that does. *)
LEMMA AddedAlike ==
    ASSUME NEW w, NEW v, AlikeFields(w, v), NEW pile \in LeftFor, NEW p \in Players,
           NEW c, NEW d, NEW x, NEW y, JoinsBoth(w, v, x, y, pile, p, c, d)
    PROVE  AlikeFields(x, y)
<1>1. Proper(w) /\ Proper(v) /\ SameField(w, v) /\ HeldAlike(w, v)
  BY DEF AlikeFields
<1>2. /\ MayJoin(pile, p, c) /\ AddTo(w, x, pile, p, c)
      /\ MayJoin(pile, p, d) /\ AddTo(v, y, pile, p, d)
      /\ SameCard(c, d) /\ (p = me => d = c)
  BY DEF JoinsBoth
<1>3. /\ Proper(x) /\ Keeps(w, x, {pile})
      /\ InPile(x, pile, p) = Append(InPile(w, pile, p), c)
      /\ \A q \in Players : q # p => InPile(x, pile, q) = InPile(w, pile, q)
  <2>1. MayJoin(pile, p, c) /\ AddTo(w, x, pile, p, c) /\ Proper(w)
    BY <1>1, <1>2
  <2>2. Gained(w, x, pile, p, c)
    BY <2>1, AddedIs
  <2> QED
    BY <2>2 DEF Gained
<1>4. /\ Proper(y) /\ Keeps(v, y, {pile})
      /\ InPile(y, pile, p) = Append(InPile(v, pile, p), d)
      /\ \A q \in Players : q # p => InPile(y, pile, q) = InPile(v, pile, q)
  <2>1. MayJoin(pile, p, d) /\ AddTo(v, y, pile, p, d) /\ Proper(v)
    BY <1>1, <1>2
  <2>2. Gained(v, y, pile, p, d)
    BY <2>1, AddedIs
  <2> QED
    BY <2>2 DEF Gained
<1>5. /\ c \in PlainCards /\ c \in HeldCards /\ c.shown = FALSE
      /\ d \in PlainCards /\ d \in HeldCards /\ d.shown = FALSE
  BY <1>2 DEF MayJoin
<1>6. ASSUME pile \in {"grave", "banished"} PROVE SamePart(pile, x[pile], y[pile])
  <2>1. SamePart(pile, w[pile], v[pile])
    BY <1>6, PartOf DEF FieldNames
  <2>2. \A q \in Players : SameCards(InPile(w, pile, q), InPile(v, pile, q))
    BY <1>6, <2>1 DEF SamePart, InPile
  <2>3. \A q \in Players : PileOf(InPile(w, pile, q), q) /\ PileOf(InPile(v, pile, q), q)
    BY <1>1, <1>6, ProperParts DEF InPile
  <2>4. SameCards(InPile(x, pile, p), InPile(y, pile, p))
    <3>1. PICK g, h : g = InPile(w, pile, p) /\ h = InPile(v, pile, p)
      OBVIOUS
    <3>2. g \in Seq(PlainCards) /\ h \in Seq(PlainCards) /\ SameCards(g, h)
      BY <2>2, <2>3, <3>1 DEF PileOf
    <3>3. SameCards(Append(g, c), Append(h, d))
      BY <1>2, <1>5, <3>2, SameAppended
    <3> QED
      BY <1>3, <1>4, <3>1, <3>3
  <2>5. ASSUME NEW q \in Players PROVE SameCards(InPile(x, pile, q), InPile(y, pile, q))
    <3>1. CASE q = p
      BY <2>4, <3>1
    <3>2. CASE q # p
      BY <1>3, <1>4, <2>2, <3>2
    <3> QED
      BY <3>1, <3>2
  <2> QED
    BY <1>6, <2>5 DEF SamePart, InPile
<1>7. ASSUME pile = "hand" PROVE SamePart(pile, x[pile], y[pile])
  <2>1. OtherHands(w, x, p) /\ OtherHands(v, y, p)
    BY <1>3, <1>4, <1>7 DEF InPile, OtherHands
  <2>2. PICK g, h : g = w.hand[p] /\ h = v.hand[p]
    OBVIOUS
  <2>3. x.hand[p] = Append(g, c) /\ y.hand[p] = Append(h, d)
    BY <1>3, <1>4, <1>7, <2>2 DEF InPile
  <2>4. g \in Seq(HeldCards) /\ h \in Seq(HeldCards)
    BY <1>1, <2>2, ProperParts DEF HandOf
  <2>5. p = me => Append(h, d) = Append(g, c)
    <3>1. p = me => h = g
      BY <1>1, <2>2 DEF SameField
    <3> QED
      BY <1>2, <3>1
  <2>6. p = 1 => Len(Append(h, d)) = Len(Append(g, c)) /\ SameShown(Append(g, c), Append(h, d))
    <3>1. SUFFICES ASSUME p = 1
                   PROVE  Len(Append(h, d)) = Len(Append(g, c)) /\ SameShown(Append(g, c), Append(h, d))
      OBVIOUS
    <3>2. Len(h) = Len(g) /\ SameShown(g, h)
      BY <1>1, <2>2, <3>1 DEF SameField, HeldAlike, SameShown
    <3>3. Len(Append(h, d)) = Len(Append(g, c))
      BY <1>5, <2>4, <3>2
    <3>4. \A codes : ShownIn(Append(g, c), codes) = ShownIn(g, codes)
      BY <1>5, <2>4, ShownAppended
    <3>5. \A codes : ShownIn(Append(h, d), codes) = ShownIn(h, codes)
      BY <1>5, <2>4, ShownAppended
    <3>6. SameShown(Append(g, c), Append(h, d))
      BY <3>2, <3>4, <3>5 DEF SameShown
    <3> QED
      BY <3>3, <3>6
  <2>7. SameHand(x.hand[p], y.hand[p], p)
    BY <2>3, <2>5, <2>6 DEF SameHand
  <2>8. SamePart("hand", x.hand, y.hand)
    BY <2>1, <2>7, HandsSame
  <2> QED
    BY <1>7, <2>8
<1>8. SamePart(pile, x[pile], y[pile])
  BY <1>6, <1>7 DEF LeftFor
<1>9. \A f \in {pile} : SamePart(f, x[f], y[f])
  BY <1>8
<1> QED
  BY <1>3, <1>4, <1>9, AlikeAfter

Whither == {"grave", "hand", "removed"}
PileName(location) ==
    CASE location = "grave" -> "grave" [] location = "removed" -> "banished"
      [] location = "hand" -> "hand"

LeavingField(w, row, p, s, location, up) ==
    LET c == CardAt(w, row, p, s)
    IN  [Vacated(w, row, p, s) EXCEPT ![PileName(location)][c.owner] = Append(@, PlacedCard(c, up))]
LeavingTo(w, row, p, s, location, up) ==
    LET c == CardAt(w, row, p, s)
    IN  Place(c.owner, location, Len(w[PileName(location)][c.owner]), up)
LeavingTold(w, row, p, s, location, up) ==
    LET c == CardAt(w, row, p, s)
    IN  <<MoveTold(c, OnField(row, p, s, c), LeavingTo(w, row, p, s, location, up),
                   location = "grave")>>
LeavingSeen(row, p, s, location, up, c) ==
    <<"leave", row, p, s, location, up, c.owner,
      IF up \/ c.up \/ c.owner = me THEN c.code ELSE 0>>

LeavesOne(w, a, row, p, s, location, up) ==
    /\ s \in Taken(w, row, p) /\ (location = "hand" => ~up)
    /\ a.field = LeavingField(w, row, p, s, location, up)
    /\ a.told = LeavingTold(w, row, p, s, location, up)
    /\ a.seen = LeavingSeen(row, p, s, location, up, CardAt(w, row, p, s))

(* What a card that leaves does, tells and shows.                           *)
LEMMA LeaveIs ==
    ASSUME NEW w, NEW a \in Leaves(w)
    PROVE  \E p \in Players, row \in Rows, location \in Whither, up \in BOOLEAN : \E s :
              LeavesOne(w, a, row, p, s, location, up)
<1>1. PICK p \in Players, row \in Rows, location \in Whither :
         a \in {Leaving(w, row, p, s, location, up)
                : s \in {s \in Taken(w, row, p) : CardAt(w, row, p, s).materials = <<>>},
                  up \in {u \in BOOLEAN : (location = "grave" => u) /\ (location = "hand" => ~u)}}
  BY DEF Leaves, Rows, Whither
<1>2. \E s \in Taken(w, row, p), up \in BOOLEAN :
         (location = "hand" => ~up) /\ a = Leaving(w, row, p, s, location, up)
  BY <1>1
<1>3. PICK s \in Taken(w, row, p), up \in BOOLEAN :
         (location = "hand" => ~up) /\ a = Leaving(w, row, p, s, location, up)
  BY <1>2
<1>4. /\ Leaving(w, row, p, s, location, up).field = LeavingField(w, row, p, s, location, up)
      /\ Leaving(w, row, p, s, location, up).told = LeavingTold(w, row, p, s, location, up)
      /\ Leaving(w, row, p, s, location, up).seen
           = LeavingSeen(row, p, s, location, up, CardAt(w, row, p, s))
  BY DEF Leaving, After, LeavingField, LeavingTold, LeavingTo, LeavingSeen, PlacedCard, PileName
<1>5. LeavesOne(w, a, row, p, s, location, up)
  BY <1>3, <1>4 DEF LeavesOne
<1> QED
  BY <1>5

(* Cards whose leaving player 0 cannot tell apart leave the same slot for   *)
(* the same place,                                                          *)
LEMMA SeenLeave ==
    ASSUME NEW row, NEW p, NEW s, NEW location, NEW up \in BOOLEAN, NEW c, c.up \in BOOLEAN,
           NEW line, NEW q, NEW t, NEW other, NEW above \in BOOLEAN, NEW d, d.up \in BOOLEAN,
           LeavingSeen(row, p, s, location, up, c) = LeavingSeen(line, q, t, other, above, d)
    PROVE  line = row /\ q = p /\ t = s /\ other = location /\ above = up
<1>1. PICK i, j : /\ i = (IF up \/ c.up \/ c.owner = me THEN c.code ELSE 0)
                  /\ j = (IF above \/ d.up \/ d.owner = me THEN d.code ELSE 0)
  OBVIOUS
<1>2. PICK m, n : m = c.owner /\ n = d.owner
  OBVIOUS
<1>3. <<"leave", row, p, s, location, up, m, i>> = <<"leave", line, q, t, other, above, n, j>>
  BY <1>1, <1>2 DEF LeavingSeen
<1> QED
  BY <1>3

(* and have the same code if that shows.                                    *)
LEMMA SeenLeft ==
    ASSUME NEW row, NEW p, NEW s, NEW location, NEW up \in BOOLEAN, NEW c, c.up \in BOOLEAN,
           NEW d, d.up = c.up, d.owner = c.owner,
           LeavingSeen(row, p, s, location, up, c) = LeavingSeen(row, p, s, location, up, d)
    PROVE  up \/ c.up \/ c.owner = me => d.code = c.code
<1>1. PICK i, j : /\ i = (IF up \/ c.up \/ c.owner = me THEN c.code ELSE 0)
                  /\ j = (IF up \/ d.up \/ d.owner = me THEN d.code ELSE 0)
  OBVIOUS
<1>2. PICK m, n : m = c.owner /\ n = d.owner
  OBVIOUS
<1>3. <<"leave", row, p, s, location, up, m, i>> = <<"leave", row, p, s, location, up, n, j>>
  BY <1>1, <1>2 DEF LeavingSeen
<1>4. i = j
  BY <1>3
<1> QED
  BY <1>1, <1>4

(* A card on the field.                                                     *)
LEMMA FieldCardIs ==
    ASSUME NEW w, Proper(w), NEW row \in Rows, NEW p \in Players, NEW s \in Taken(w, row, p)
    PROVE  LET c == CardAt(w, row, p, s)
           IN  c.code \in Codes /\ c.owner \in Players /\ c.up \in BOOLEAN /\ s \in Slots(row)
<1>1. CASE row = "monsters"
  <2>1. MonsterAt(w, p, s, CardAt(w, "monsters", p, s))
    BY <1>1, MonsterIs
  <2> QED
    BY <1>1, <2>1 DEF MonsterAt, Slots
<1>2. CASE row = "spells"
  <2>1. SpellAt(w, p, s, CardAt(w, "spells", p, s))
    BY <1>2, SpellIs
  <2> QED
    BY <1>2, <2>1 DEF SpellAt, Slots
<1> QED
  BY <1>1, <1>2 DEF Rows

(* The card that joins a pile or a hand. *)
LEMMA LeftJoins ==
    ASSUME NEW c, c.code \in Codes, NEW o \in Players, c.owner = o, NEW up \in BOOLEAN,
           NEW location \in Whither, location = "hand" => ~up
    PROVE  MayJoin(PileName(location), o, PlacedCard(c, up)) /\ PileName(location) \in LeftFor
<1>1. PICK d : d = PlacedCard(c, up)
  OBVIOUS
<1>2. /\ d.owner = o /\ d.up = up /\ d.shown = FALSE /\ d \in PlainCards /\ d \in HeldCards
  BY <1>1, PlacedCardIs
<1>3. PileName(location) \in LeftFor /\ (PileName(location) = "hand" => location = "hand")
  BY DEF PileName, LeftFor, Whither
<1>4. MayJoin(PileName(location), o, d)
  BY <1>2, <1>3 DEF MayJoin
<1> QED
  BY <1>1, <1>3, <1>4

(* A card as it is placed has its code and owner alone.                     *)
LEMMA PlacedEqual ==
    ASSUME NEW c, NEW d, d.code = c.code, d.owner = c.owner, NEW up
    PROVE  PlacedCard(d, up) = PlacedCard(c, up)
  BY DEF PlacedCard, Fresh, Card

(* Both piles have room at the same place. *)
LEMMA RoomSame ==
    ASSUME NEW w, NEW v, AlikeFields(w, v), NEW location \in Whither, NEW o \in Players
    PROVE  Len(v[PileName(location)][o]) = Len(w[PileName(location)][o])
<1>1. SameField(w, v)
  BY DEF AlikeFields
<1>2. Len(v.grave[o]) = Len(w.grave[o]) /\ Len(v.banished[o]) = Len(w.banished[o])
  BY <1>1 DEF SameField, SameCards
<1>3. Len(v.hand[o]) = Len(w.hand[o])
  BY <1>1 DEF SameField, Players, me
<1> QED
  BY <1>2, <1>3 DEF PileName, Whither

(* The same card leaves both fields.                                        *)
LEMMA LeavingAlike ==
    ASSUME NEW w, NEW v, AlikeFields(w, v), NEW row \in Rows, NEW p \in Players,
           NEW s \in Taken(w, row, p), NEW location \in Whither, NEW up \in BOOLEAN,
           location = "hand" => ~up,
           LET c == CardAt(w, row, p, s)
           IN  up \/ c.up \/ c.owner = me => CardAt(v, row, p, s).code = c.code
    PROVE  /\ AlikeFields(LeavingField(w, row, p, s, location, up),
                          LeavingField(v, row, p, s, location, up))
           /\ SameTold(LeavingTold(w, row, p, s, location, up),
                       LeavingTold(v, row, p, s, location, up))
<1>1. Proper(w) /\ Proper(v)
  BY DEF AlikeFields
<1>2. PICK c, d : c = CardAt(w, row, p, s) /\ d = CardAt(v, row, p, s)
  OBVIOUS
<1>3. s \in Taken(v, row, p) /\ SameCard(c, d)
  BY <1>2, CardSame
<1>4. c.code \in Codes /\ c.owner \in Players /\ c.up \in BOOLEAN /\ s \in Slots(row)
  BY <1>1, <1>2, FieldCardIs
<1>5. d.code \in Codes /\ d.owner = c.owner /\ d.up = c.up
  <2>1. d.code \in Codes
    BY <1>1, <1>2, <1>3, FieldCardIs
  <2> QED
    BY <1>3, <2>1 DEF SameCard
<1>6. up \/ c.up \/ c.owner = me => d.code = c.code
  BY <1>2
<1>7. PICK o \in Players : o = c.owner
  BY <1>4
<1>8. PICK pile : pile = PileName(location)
  OBVIOUS
<1>9. PICK e, f : e = PlacedCard(c, up) /\ f = PlacedCard(d, up)
  OBVIOUS
<1>10. MayJoin(pile, o, e) /\ MayJoin(pile, o, f) /\ pile \in LeftFor
  <2>1. c.owner = o /\ d.owner = o
    BY <1>5, <1>7
  <2> QED
    BY <1>4, <1>5, <1>8, <1>9, <2>1, LeftJoins
<1>11. SameCard(e, f)
  <2>1. o = me \/ up => d.code = c.code
    BY <1>6, <1>7
  <2>2. c.owner = o /\ d.owner = o
    BY <1>5, <1>7
  <2> QED
    BY <1>4, <1>5, <1>9, <2>1, <2>2, PlacedSame
<1>12. o = me => f = e
  <2>1. ASSUME o = me PROVE PlacedCard(d, up) = PlacedCard(c, up)
    <3>1. d.code = c.code /\ d.owner = c.owner
      BY <1>5, <1>6, <1>7, <2>1
    <3> QED
      BY <3>1, PlacedEqual
  <2> QED
    BY <1>9, <2>1
<1>13. PICK i, j : i = Vacated(w, row, p, s) /\ j = Vacated(v, row, p, s)
  OBVIOUS
<1>14. AlikeFields(i, j)
  BY <1>4, <1>13, VacatedAlike
<1>15. PICK x, y : AddTo(i, x, pile, o, e) /\ AddTo(j, y, pile, o, f)
  BY DEF AddTo
<1>16. AlikeFields(x, y)
  <2>1. JoinsBoth(i, j, x, y, pile, o, e, f)
    BY <1>10, <1>11, <1>12, <1>15 DEF JoinsBoth
  <2> QED
    BY <1>10, <1>14, <2>1, AddedAlike
<1>17. /\ x = LeavingField(w, row, p, s, location, up)
       /\ y = LeavingField(v, row, p, s, location, up)
  BY <1>2, <1>5, <1>7, <1>8, <1>9, <1>13, <1>15 DEF LeavingField, AddTo
<1>18. PICK to : to = LeavingTo(w, row, p, s, location, up)
  OBVIOUS
<1>19. to = LeavingTo(v, row, p, s, location, up) /\ to.up = up
  <2>1. Len(v[PileName(location)][o]) = Len(w[PileName(location)][o])
    BY RoomSame
  <2>2. LeavingTo(v, row, p, s, location, up) = LeavingTo(w, row, p, s, location, up)
    BY <1>2, <1>5, <1>7, <2>1 DEF LeavingTo
  <2>3. to.up = up
    BY <1>18 DEF LeavingTo, Place
  <2> QED
    BY <1>18, <2>2, <2>3
<1>20. PICK g : g = OnField(row, p, s, c)
  OBVIOUS
<1>21. g = OnField(row, p, s, d) /\ g.up = c.up
  BY <1>5, <1>20 DEF OnField, Place
<1>22. PICK lost \in BOOLEAN : lost = (location = "grave")
  OBVIOUS
<1>23. EventsOf(MoveTold(d, g, to, lost), me) = EventsOf(MoveTold(c, g, to, lost), me)
  <2>1. g.up \/ to.up => d.code = c.code
    BY <1>6, <1>19, <1>21
  <2>2. g.up = g.up /\ ZoneAt(g) = ZoneAt(g)
    OBVIOUS
  <2> QED
    BY <2>1, <2>2, MoveAlike
<1>24. LeavingTold(w, row, p, s, location, up) = <<MoveTold(c, g, to, lost)>>
  BY <1>2, <1>18, <1>20, <1>22, Zenon DEF LeavingTold
<1>25. LeavingTold(v, row, p, s, location, up) = <<MoveTold(d, g, to, lost)>>
  BY <1>2, <1>19, <1>21, <1>22, Zenon DEF LeavingTold
<1>26. SameTold(<<MoveTold(c, g, to, lost)>>, <<MoveTold(d, g, to, lost)>>)
  BY <1>23, ToldOne
<1> QED
  BY <1>16, <1>17, <1>24, <1>25, <1>26

(* Cards whose leaving player 0 cannot tell apart leave fields and messages *)
(* behind that look the same.                                               *)
LEMMA LeavesAlike ==
    ASSUME NEW w, NEW v, AlikeFields(w, v), NEW a \in Leaves(w), NEW b \in Leaves(v),
           a.seen = b.seen
    PROVE  Match(w, v, a, b)
<1>1. Proper(w) /\ Proper(v)
  BY DEF AlikeFields
<1>2. PICK p \in Players, row \in Rows, location \in Whither, up \in BOOLEAN : \E s :
         LeavesOne(w, a, row, p, s, location, up)
  BY LeaveIs
<1>3. PICK s : LeavesOne(w, a, row, p, s, location, up)
  BY <1>2
<1>4. PICK q \in Players, line \in Rows, other \in Whither, above \in BOOLEAN : \E t :
         LeavesOne(v, b, line, q, t, other, above)
  BY LeaveIs
<1>5. PICK t : LeavesOne(v, b, line, q, t, other, above)
  BY <1>4
<1>6. PICK c, d : c = CardAt(w, row, p, s) /\ d = CardAt(v, line, q, t)
  OBVIOUS
<1>7. /\ s \in Taken(w, row, p) /\ (location = "hand" => ~up)
      /\ a.field = LeavingField(w, row, p, s, location, up)
      /\ a.told = LeavingTold(w, row, p, s, location, up)
      /\ a.seen = LeavingSeen(row, p, s, location, up, c)
  BY <1>3, <1>6 DEF LeavesOne
<1>8. /\ t \in Taken(v, line, q)
      /\ b.field = LeavingField(v, line, q, t, other, above)
      /\ b.told = LeavingTold(v, line, q, t, other, above)
      /\ b.seen = LeavingSeen(line, q, t, other, above, d)
  BY <1>5, <1>6 DEF LeavesOne
<1>9. c.up \in BOOLEAN /\ d.up \in BOOLEAN
  <2>1. c.up \in BOOLEAN
    BY <1>1, <1>6, <1>7, FieldCardIs
  <2>2. d.up \in BOOLEAN
    BY <1>1, <1>6, <1>8, FieldCardIs
  <2> QED
    BY <2>1, <2>2
<1>10. LeavingSeen(row, p, s, location, up, c) = LeavingSeen(line, q, t, other, above, d)
  BY <1>7, <1>8
<1>11. line = row /\ q = p /\ t = s /\ other = location /\ above = up
  BY <1>9, <1>10, SeenLeave
<1>12. SameCard(c, d)
  BY <1>6, <1>7, <1>11, CardSame
<1>13. up \/ c.up \/ c.owner = me => d.code = c.code
  <2>1. d.up = c.up /\ d.owner = c.owner
    BY <1>12 DEF SameCard
  <2>2. LeavingSeen(row, p, s, location, up, c) = LeavingSeen(row, p, s, location, up, d)
    BY <1>10, <1>11
  <2> QED
    BY <1>9, <2>1, <2>2, SeenLeft
<1>14. /\ AlikeFields(LeavingField(w, row, p, s, location, up),
                      LeavingField(v, row, p, s, location, up))
       /\ SameTold(LeavingTold(w, row, p, s, location, up),
                   LeavingTold(v, row, p, s, location, up))
  <2>1. LET k == CardAt(w, row, p, s)
        IN  up \/ k.up \/ k.owner = me => CardAt(v, row, p, s).code = k.code
    BY <1>6, <1>11, <1>13
  <2> QED
    BY <1>7, <2>1, LeavingAlike
<1> QED
  BY <1>7, <1>8, <1>11, <1>14 DEF Match

----------------------------------------------------------------------------
(* Shuffles of set monsters.                                                *)

DownShuffled(w, p, order) ==
    [w EXCEPT !.monsters[p] = [s \in DOMAIN @ |-> IF s \in Down(w, p) THEN @[order[s]] ELSE @[s]]]

ShufflesSet(w, a, p, order) ==
    /\ order \in [Down(w, p) -> Down(w, p)]
    /\ \A s \in Down(w, p) : CardAt(w, "monsters", p, s).owner = p
    /\ a.field = DownShuffled(w, p, order) /\ a.told = ShuffleTold(p)
    /\ a.seen = ShuffleSeen("shuffle set", p, order)

(* What a shuffle of set monsters does, tells and shows.                    *)
LEMMA SetShuffleIs ==
    ASSUME NEW w, NEW a \in SetShuffles(w), ~MixedShuffle
    PROVE  \E p \in Players : \E order : ShufflesSet(w, a, p, order)
<1>1. PICK p \in Players :
         /\ \A s \in Down(w, p) : CardAt(w, "monsters", p, s).owner = p
         /\ \E order \in [Down(w, p) -> Down(w, p)] : a = SetShuffled(w, p, order)
  BY DEF SetShuffles
<1>2. PICK order \in [Down(w, p) -> Down(w, p)] : a = SetShuffled(w, p, order)
  BY <1>1
<1>3. /\ SetShuffled(w, p, order).field = DownShuffled(w, p, order)
      /\ SetShuffled(w, p, order).told = ShuffleTold(p)
      /\ SetShuffled(w, p, order).seen = ShuffleSeen("shuffle set", p, order)
  BY DEF SetShuffled, After, DownShuffled, ShuffleTold, ShuffleSeen
<1>4. ShufflesSet(w, a, p, order)
  BY <1>1, <1>2, <1>3 DEF ShufflesSet
<1> QED
  BY <1>4

(* A set monster.                                                           *)
LEMMA DownIs ==
    ASSUME NEW w, Proper(w), NEW p \in Players, NEW s \in Down(w, p)
    PROVE  LET c == CardAt(w, "monsters", p, s)
           IN  /\ s \in Taken(w, "monsters", p) /\ s \in MonsterSlots
               /\ Holds(w, "monsters", p, s) = <<c>>
               /\ c.up = FALSE /\ c.shown = FALSE /\ c.materials = <<>> /\ c.equip = <<>>
               /\ c.targets = <<>>
<1>1. s \in Taken(w, "monsters", p) /\ ~CardAt(w, "monsters", p, s).up
      /\ CardAt(w, "monsters", p, s).materials = <<>>
  BY DEF Down
<1>2. MonsterAt(w, p, s, CardAt(w, "monsters", p, s))
  BY <1>1, MonsterIs
<1> QED
  BY <1>1, <1>2 DEF MonsterAt

(* A card without materials looks like none that has any.                   *)
LEMMA BareAlike ==
    ASSUME NEW w, NEW v, AlikeFields(w, v), NEW p \in Players, NEW s \in Taken(w, "monsters", p),
           s \in Taken(v, "monsters", p)
    PROVE  CardAt(v, "monsters", p, s).materials = <<>>
             <=> CardAt(w, "monsters", p, s).materials = <<>>
<1>1. PICK c, d : c = CardAt(w, "monsters", p, s) /\ d = CardAt(v, "monsters", p, s)
  OBVIOUS
<1>2. SameCard(c, d)
  BY <1>1, CardSame DEF Rows
<1>3. MonsterAt(w, p, s, c) /\ MonsterAt(v, p, s, d)
  BY <1>1, MonsterIs DEF AlikeFields
<1>4. PICK m, n : m = c.materials /\ n = d.materials
  OBVIOUS
<1>5. m \in Seq(PlainCards) /\ n \in Seq(PlainCards)
  BY <1>3, <1>4 DEF MonsterAt
<1>6. Len(n) = Len(m)
  BY <1>2, <1>4, <1>5, OwnersAre DEF SameCard
<1>7. n = <<>> <=> m = <<>>
  BY <1>5, <1>6
<1> QED
  BY <1>1, <1>4, <1>7

(* The same slots hold set monsters in fields that look the same.           *)
LEMMA DownSame ==
    ASSUME NEW w, NEW v, AlikeFields(w, v), NEW p \in Players, NEW s \in Down(w, p)
    PROVE  s \in Down(v, p)
<1>1. s \in Taken(w, "monsters", p) /\ ~CardAt(w, "monsters", p, s).up
      /\ CardAt(w, "monsters", p, s).materials = <<>>
  BY DEF Down
<1>2. s \in Taken(v, "monsters", p)
      /\ SameCard(CardAt(w, "monsters", p, s), CardAt(v, "monsters", p, s))
  BY <1>1, CardSame DEF Rows
<1>3. ~CardAt(v, "monsters", p, s).up /\ CardAt(v, "monsters", p, s).materials = <<>>
  BY <1>1, <1>2, BareAlike DEF SameCard
<1> QED
  BY <1>2, <1>3 DEF Down

(* What looks the same one way looks the same the other way. *)
LEMMA DownBack ==
    ASSUME NEW w, NEW v, AlikeFields(w, v), NEW p \in Players, NEW s \in Down(v, p)
    PROVE  s \in Down(w, p)
<1>1. s \in Taken(v, "monsters", p) /\ ~CardAt(v, "monsters", p, s).up
      /\ CardAt(v, "monsters", p, s).materials = <<>>
  BY DEF Down
<1>2. s \in MonsterSlots /\ v.monsters[p][s] # <<>>
  BY <1>1 DEF Taken, Slots
<1>3. SameCards(w.monsters[p][s], v.monsters[p][s])
  BY <1>2 DEF AlikeFields, SameField
<1>4. PICK g, h : g = w.monsters[p][s] /\ h = v.monsters[p][s]
  OBVIOUS
<1>5. Proper(w) /\ Proper(v)
  BY DEF AlikeFields
<1>6. MonstersOf(w.monsters[p]) /\ MonstersOf(v.monsters[p])
  BY <1>5, ProperParts
<1>7. g \in Seq(MonsterCards) /\ h \in Seq(MonsterCards)
  BY <1>2, <1>4, <1>6 DEF MonstersOf
<1>8. g # <<>>
  <2>1. Len(h) = Len(g) /\ h # <<>>
    BY <1>2, <1>3, <1>4 DEF SameCards
  <2> QED
    BY <1>7, <2>1
<1>9. s \in Taken(w, "monsters", p)
  BY <1>2, <1>4, <1>8 DEF Taken, Slots
<1>10. SameCard(CardAt(w, "monsters", p, s), CardAt(v, "monsters", p, s))
  BY <1>9, CardSame DEF Rows
<1>11. ~CardAt(w, "monsters", p, s).up /\ CardAt(w, "monsters", p, s).materials = <<>>
  BY <1>1, <1>9, <1>10, BareAlike DEF SameCard
<1> QED
  BY <1>9, <1>11 DEF Down

(* The field after a shuffle of set monsters.                               *)
LEMMA DownShuffledIs ==
    ASSUME NEW w, Proper(w), NEW p \in Players, NEW order \in [Down(w, p) -> Down(w, p)]
    PROVE  LET x == DownShuffled(w, p, order)
           IN  /\ Proper(x) /\ Keeps(w, x, {"monsters"})
               /\ \A s \in MonsterSlots :
                     Holds(x, "monsters", p, s)
                       = IF s \in Down(w, p) THEN Holds(w, "monsters", p, order[s])
                         ELSE Holds(w, "monsters", p, s)
               /\ \A q \in Players : \A s \in MonsterSlots :
                     q # p => Holds(x, "monsters", q, s) = Holds(w, "monsters", q, s)
<1>1. w \in Fields
  BY ProperParts
<1>2. w = [f \in FieldNames |-> w[f]]
      /\ w.monsters \in [Players -> [MonsterSlots -> Seq(MonsterCards)]]
  BY <1>1, FieldIs
<1>3. \A s \in Down(w, p) : s \in MonsterSlots /\ order[s] \in MonsterSlots
  BY DEF Down, Taken, Slots
<1>4. PICK r : r = w.monsters[p]
  OBVIOUS
<1>5. PICK n : n = [s \in MonsterSlots |-> IF s \in Down(w, p) THEN r[order[s]] ELSE r[s]]
  OBVIOUS
<1>6. MonstersOf(r)
  BY <1>4, ProperParts
<1>7. r \in [MonsterSlots -> Seq(MonsterCards)]
  BY <1>6 DEF MonstersOf
<1>8. MonstersOf(n)
  <2>1. ASSUME NEW s \in MonsterSlots
        PROVE  n[s] \in Seq(MonsterCards) /\ Len(n[s]) <= 1
    <3>1. PICK t \in MonsterSlots : n[s] = r[t]
      BY <1>3, <1>5, <2>1
    <3>2. r[t] \in Seq(MonsterCards) /\ Len(r[t]) <= 1
      BY <1>6, <1>7 DEF MonstersOf
    <3> QED
      BY <3>1, <3>2
  <2>2. n \in [MonsterSlots -> Seq(MonsterCards)]
    BY <1>5, <2>1
  <2> QED
    BY <2>1, <2>2 DEF MonstersOf
<1>9. PICK m : m = [w.monsters EXCEPT ![p] = n]
  OBVIOUS
<1>10. /\ m \in [Players -> [MonsterSlots -> Seq(MonsterCards)]] /\ m[p] = n
       /\ \A q \in Players : q # p => m[q] = w.monsters[q]
  <2>1. n \in [MonsterSlots -> Seq(MonsterCards)]
    BY <1>8 DEF MonstersOf
  <2> QED
    BY <1>2, <1>9, <2>1
<1>11. \A q \in Players : MonstersOf(m[q])
  <2>1. \A q \in Players : MonstersOf(w.monsters[q])
    BY ProperParts
  <2> QED
    BY <1>8, <1>10, <2>1
<1>12. PICK x : MonstersTo(w, x, m)
  BY DEF MonstersTo
<1>13. Proper(x) /\ Keeps(w, x, {"monsters"}) /\ x.monsters = m
  BY <1>10, <1>11, <1>12, MonstersSet
<1>14. x = DownShuffled(w, p, order)
  BY <1>2, <1>4, <1>5, <1>7, <1>9, <1>12 DEF DownShuffled, MonstersTo
<1>15. \A s \in MonsterSlots :
          Holds(x, "monsters", p, s)
            = IF s \in Down(w, p) THEN Holds(w, "monsters", p, order[s]) ELSE Holds(w, "monsters", p, s)
  BY <1>4, <1>5, <1>10, <1>13 DEF Holds
<1>16. \A q \in Players : \A s \in MonsterSlots :
          q # p => Holds(x, "monsters", q, s) = Holds(w, "monsters", q, s)
  BY <1>10, <1>13 DEF Holds
<1> QED
  BY <1>13, <1>14, <1>15, <1>16

(* Two set monsters of the same player look alike if both are the            *)
(* opponent's own.                                                           *)
LEMMA DownAlike ==
    ASSUME NEW w, NEW v, AlikeFields(w, v), NEW s \in Down(w, 1), NEW t \in Down(v, 1),
           CardAt(w, "monsters", 1, s).owner = 1, CardAt(v, "monsters", 1, t).owner = 1
    PROVE  SameCards(Holds(w, "monsters", 1, s), Holds(v, "monsters", 1, t))
<1>1. Proper(w) /\ Proper(v) /\ 1 \in Players
  BY DEF AlikeFields, Players
<1>2. PICK c : c = CardAt(w, "monsters", 1, s)
  OBVIOUS
<1>3. PICK d : d = CardAt(v, "monsters", 1, t)
  OBVIOUS
<1>4. /\ Holds(w, "monsters", 1, s) = <<c>> /\ c.up = FALSE /\ c.shown = FALSE
      /\ c.materials = <<>> /\ c.equip = <<>> /\ c.targets = <<>>
  BY <1>1, <1>2, DownIs
<1>5. /\ Holds(v, "monsters", 1, t) = <<d>> /\ d.up = FALSE /\ d.shown = FALSE
      /\ d.materials = <<>> /\ d.equip = <<>> /\ d.targets = <<>>
  BY <1>1, <1>3, DownIs
<1>6. SameCard(c, d)
  <2>1. c.owner = 1 /\ d.owner = 1
    BY <1>2, <1>3
  <2>2. /\ Owners(d.materials) = Owners(c.materials) /\ d.equip = c.equip
        /\ d.targets = c.targets
    BY <1>4, <1>5, Zenon
  <2>3. d.up = c.up /\ d.shown = c.shown
    BY <1>4, <1>5, Zenon
  <2>4. d.owner = c.owner /\ ~(c.owner = me \/ c.up \/ c.shown)
    BY <1>4, <2>1 DEF me
  <2> QED
    BY <2>2, <2>3, <2>4 DEF SameCard
<1>7. SameCards(<<c>>, <<d>>)
  BY <1>6, OneSame
<1> QED
  BY <1>4, <1>5, <1>7

(* Shuffles of set monsters of one owner that player 0 cannot tell apart    *)
(* leave fields and messages that look the same.  With those of two owners  *)
(* mixed this is false.                                                     *)
LEMMA SetShufflesAlike ==
    ASSUME NEW w, NEW v, AlikeFields(w, v), NEW a \in SetShuffles(w), NEW b \in SetShuffles(v),
           a.seen = b.seen, ~MixedShuffle
    PROVE  Match(w, v, a, b)
<1>1. PICK p \in Players : \E order : ShufflesSet(w, a, p, order)
  BY SetShuffleIs
<1>2. PICK order : ShufflesSet(w, a, p, order)
  BY <1>1
<1>3. PICK q \in Players : \E other : ShufflesSet(v, b, q, other)
  BY SetShuffleIs
<1>4. PICK other : ShufflesSet(v, b, q, other)
  BY <1>3
<1>5. PICK kind : kind = "shuffle set"
  OBVIOUS
<1>6. q = p /\ (p = me => other = order)
  <2>1. ShuffleSeen(kind, p, order) = ShuffleSeen(kind, q, other)
    BY <1>2, <1>4, <1>5 DEF ShufflesSet
  <2> QED
    BY <2>1, SeenShuffle
<1>7. Proper(w) /\ Proper(v)
  BY DEF AlikeFields
<1>8. order \in [Down(w, p) -> Down(w, p)] /\ other \in [Down(v, p) -> Down(v, p)]
  BY <1>2, <1>4, <1>6 DEF ShufflesSet
<1>9. Down(v, p) = Down(w, p)
  <2>1. \A s \in Down(w, p) : s \in Down(v, p)
    BY DownSame
  <2>2. \A s \in Down(v, p) : s \in Down(w, p)
    BY DownBack
  <2> QED
    BY <2>1, <2>2
<1>10. PICK x : x = DownShuffled(w, p, order)
  OBVIOUS
<1>11. PICK y : y = DownShuffled(v, p, other)
  OBVIOUS
<1>12. /\ Proper(x) /\ Keeps(w, x, {"monsters"})
       /\ \A s \in MonsterSlots :
             Holds(x, "monsters", p, s)
               = IF s \in Down(w, p) THEN Holds(w, "monsters", p, order[s])
                 ELSE Holds(w, "monsters", p, s)
       /\ \A r \in Players : \A s \in MonsterSlots :
             r # p => Holds(x, "monsters", r, s) = Holds(w, "monsters", r, s)
  BY <1>7, <1>8, <1>10, DownShuffledIs
<1>13. /\ Proper(y) /\ Keeps(v, y, {"monsters"})
       /\ \A s \in MonsterSlots :
             Holds(y, "monsters", p, s)
               = IF s \in Down(v, p) THEN Holds(v, "monsters", p, other[s])
                 ELSE Holds(v, "monsters", p, s)
       /\ \A r \in Players : \A s \in MonsterSlots :
             r # p => Holds(y, "monsters", r, s) = Holds(v, "monsters", r, s)
  BY <1>7, <1>8, <1>11, DownShuffledIs
<1>14. \A r \in Players : \A s \in MonsterSlots :
          SameCards(Holds(w, "monsters", r, s), Holds(v, "monsters", r, s))
  BY DEF AlikeFields, SameField, Holds
<1>15. ASSUME NEW s \in Down(w, p)
       PROVE  SameCards(Holds(w, "monsters", p, order[s]), Holds(v, "monsters", p, other[s]))
  <2>1. order[s] \in Down(w, p) /\ other[s] \in Down(v, p)
    BY <1>8, <1>9, <1>15
  <2>2. CASE p = me
    <3>1. other[s] = order[s]
      BY <1>6, <2>2
    <3>2. order[s] \in MonsterSlots
      BY <2>1 DEF Down, Taken, Slots
    <3> QED
      BY <1>14, <3>1, <3>2
  <2>3. CASE p = 1
    <3>1. /\ CardAt(w, "monsters", 1, order[s]).owner = 1
          /\ CardAt(v, "monsters", 1, other[s]).owner = 1
      BY <1>2, <1>4, <1>6, <2>1, <2>3 DEF ShufflesSet
    <3> QED
      BY <2>1, <2>3, <3>1, DownAlike
  <2> QED
    BY <2>2, <2>3 DEF Players, me
<1>16. ASSUME NEW r \in Players, NEW s \in MonsterSlots
       PROVE  SameCards(Holds(x, "monsters", r, s), Holds(y, "monsters", r, s))
  <2>1. CASE r # p
    BY <1>12, <1>13, <1>14, <2>1
  <2>2. CASE r = p /\ s \notin Down(w, p)
    BY <1>9, <1>12, <1>13, <1>14, <2>2
  <2>3. CASE r = p /\ s \in Down(w, p)
    <3>1. Holds(x, "monsters", p, s) = Holds(w, "monsters", p, order[s])
      BY <1>12, <2>3
    <3>2. Holds(y, "monsters", p, s) = Holds(v, "monsters", p, other[s])
      BY <1>9, <1>13, <2>3
    <3> QED
      BY <1>15, <2>3, <3>1, <3>2
  <2> QED
    BY <2>1, <2>2, <2>3
<1>17. \A r \in Players : \A s \in MonsterSlots : SameCards(x.monsters[r][s], y.monsters[r][s])
  BY <1>16 DEF Holds
<1>18. SamePart("monsters", x.monsters, y.monsters)
  BY <1>17 DEF SamePart
<1>19. AlikeFields(x, y)
  <2>1. PICK names : names = {"monsters"}
    OBVIOUS
  <2>2. \A f \in names : SamePart(f, x[f], y[f])
    BY <1>18, <2>1
  <2> QED
    BY <1>12, <1>13, <2>1, <2>2, AlikeAfter
<1>20. SameTold(a.told, b.told)
  <2>1. b.told = a.told
    BY <1>2, <1>4, <1>6 DEF ShufflesSet
  <2> QED
    BY <2>1, SameMessages
<1>21. a.field = x /\ b.field = y
  BY <1>2, <1>4, <1>6, <1>10, <1>11 DEF ShufflesSet
<1> QED
  BY <1>19, <1>20, <1>21 DEF Match

----------------------------------------------------------------------------
(* Control of a monster, and materials.                                     *)

(* A card moved from the same slot of both fields tells the same.           *)
LEMMA FieldMoveTold ==
    ASSUME NEW c, NEW d, SameCard(c, d), NEW row, NEW p, NEW s, NEW to,
           c.up \/ to.up => d.code = c.code
    PROVE  SameTold(<<MoveOf(c, OnField(row, p, s, c), to)>>, <<MoveOf(d, OnField(row, p, s, d), to)>>)
<1>1. OnField(row, p, s, d) = OnField(row, p, s, c)
  BY DEF SameCard, OnField, Place
<1>2. PICK f : f = OnField(row, p, s, c)
  OBVIOUS
<1>3. f.up = c.up
  BY <1>2 DEF OnField, Place
<1>4. f.up \/ to.up => d.code = c.code
  BY <1>3
<1>5. f.up = f.up /\ ZoneAt(f) = ZoneAt(f)
  OBVIOUS
<1>6. EventsOf(MoveOf(d, f, to), me) = EventsOf(MoveOf(c, f, to), me)
  BY <1>4, <1>5, MovedAlike
<1>7. SameTold(<<MoveOf(c, f, to)>>, <<MoveOf(d, f, to)>>)
  BY <1>6, ToldOne
<1> QED
  BY <1>1, <1>2, <1>7

ControlField(w, p, s, s2) ==
    [Vacated(w, "monsters", p, s) EXCEPT !.monsters[1 - p][s2] = <<CardAt(w, "monsters", p, s)>>]
ControlTold(p, s, s2, c) ==
    <<MoveOf(c, OnField("monsters", p, s, c), OnField("monsters", 1 - p, s2, c))>>

ControlsOne(w, a, p, s, s2) ==
    /\ s \in Taken(w, "monsters", p) /\ s2 \in MonsterSlots
    /\ a.field = ControlField(w, p, s, s2)
    /\ a.told = ControlTold(p, s, s2, CardAt(w, "monsters", p, s))
    /\ a.seen = <<"control", p, s, s2>>

(* What a change of control does, tells and shows.                          *)
LEMMA ControlIs ==
    ASSUME NEW w, NEW a \in TakesControl(w)
    PROVE  \E p \in Players : \E s, s2 : ControlsOne(w, a, p, s, s2)
<1>1. PICK p \in Players :
         \E s \in Taken(w, "monsters", p) : \E s2 \in Free(w, "monsters", 1 - p) :
            a = Controlled(w, p, s, s2)
  BY DEF TakesControl
<1>2. PICK s \in Taken(w, "monsters", p) : \E s2 \in Free(w, "monsters", 1 - p) :
            a = Controlled(w, p, s, s2)
  BY <1>1
<1>3. PICK s2 \in Free(w, "monsters", 1 - p) : a = Controlled(w, p, s, s2)
  BY <1>2
<1>4. s2 \in MonsterSlots
  BY <1>3 DEF Free, Slots
<1>5. /\ Controlled(w, p, s, s2).field = ControlField(w, p, s, s2)
      /\ Controlled(w, p, s, s2).told = ControlTold(p, s, s2, CardAt(w, "monsters", p, s))
      /\ Controlled(w, p, s, s2).seen = <<"control", p, s, s2>>
  BY DEF Controlled, After, ControlField, ControlTold, MoveOf
<1>6. ControlsOne(w, a, p, s, s2)
  BY <1>2, <1>3, <1>4, <1>5 DEF ControlsOne
<1> QED
  BY <1>6

(* Changes of control that player 0 cannot tell apart leave fields and      *)
(* messages that look the same.                                             *)
LEMMA ControlAlike ==
    ASSUME NEW w, NEW v, AlikeFields(w, v), NEW a \in TakesControl(w), NEW b \in TakesControl(v),
           a.seen = b.seen
    PROVE  Match(w, v, a, b)
<1>1. Proper(w) /\ Proper(v)
  BY DEF AlikeFields
<1>2. PICK p \in Players : \E s, s2 : ControlsOne(w, a, p, s, s2)
  BY ControlIs
<1>3. PICK s, s2 : ControlsOne(w, a, p, s, s2)
  BY <1>2
<1>4. PICK q \in Players : \E t, t2 : ControlsOne(v, b, q, t, t2)
  BY ControlIs
<1>5. PICK t, t2 : ControlsOne(v, b, q, t, t2)
  BY <1>4
<1>6. q = p /\ t = s /\ t2 = s2
  <2>1. <<"control", p, s, s2>> = <<"control", q, t, t2>>
    BY <1>3, <1>5 DEF ControlsOne
  <2> QED
    BY <2>1
<1>7. PICK c, d : c = CardAt(w, "monsters", p, s) /\ d = CardAt(v, "monsters", p, s)
  OBVIOUS
<1>8. /\ s \in Taken(w, "monsters", p) /\ s2 \in MonsterSlots
      /\ a.field = ControlField(w, p, s, s2) /\ a.told = ControlTold(p, s, s2, c)
  BY <1>3, <1>7 DEF ControlsOne
<1>9. /\ s \in Taken(v, "monsters", p)
      /\ b.field = ControlField(v, p, s, s2) /\ b.told = ControlTold(p, s, s2, d)
  BY <1>5, <1>6, <1>7 DEF ControlsOne
<1>10. MonsterAt(w, p, s, c) /\ MonsterAt(v, p, s, d)
  <2>1. MonsterAt(w, p, s, CardAt(w, "monsters", p, s))
    BY <1>1, <1>8, MonsterIs
  <2>2. MonsterAt(v, p, s, CardAt(v, "monsters", p, s))
    BY <1>1, <1>9, MonsterIs
  <2> QED
    BY <1>7, <2>1, <2>2
<1>11. SameCard(c, d)
  <2>1. SameCard(CardAt(w, "monsters", p, s), CardAt(v, "monsters", p, s))
    BY <1>8, CardSame DEF Rows
  <2> QED
    BY <1>7, <2>1
<1>12. s \in MonsterSlots /\ c \in MonsterCards /\ d \in MonsterCards
  BY <1>10 DEF MonsterAt
<1>13. PICK o \in Players : o = 1 - p
  BY DEF Players
<1>14. PICK x, y : x = Vacated(w, "monsters", p, s) /\ y = Vacated(v, "monsters", p, s)
  OBVIOUS
<1>15. "monsters" \in Rows /\ s \in Slots("monsters") /\ s2 \in Slots("monsters")
  BY <1>8, <1>12 DEF Rows, Slots
<1>16. AlikeFields(x, y)
  BY <1>14, <1>15, VacatedAlike
<1>17. SlotCards("monsters", o, <<c>>) /\ SlotCards("monsters", o, <<d>>)
  BY <1>12 DEF SlotCards
<1>18. PICK z, u : SlotTo(x, z, "monsters", o, s2, <<c>>) /\ SlotTo(y, u, "monsters", o, s2, <<d>>)
  BY DEF SlotTo
<1>19. AlikeFields(z, u)
  BY <1>11, <1>15, <1>16, <1>17, <1>18, SlotAlike
<1>20. z = a.field /\ u = b.field
  BY <1>7, <1>8, <1>9, <1>13, <1>14, <1>18 DEF SlotTo, ControlField
<1>21. SameTold(a.told, b.told)
  <2>1. PICK to : to = OnField("monsters", o, s2, c)
    OBVIOUS
  <2>2. OnField("monsters", o, s2, d) = to
    BY <1>11, <2>1 DEF SameCard, OnField, Place
  <2>3. to.up = c.up
    BY <2>1 DEF OnField, Place
  <2>4. c.up \/ to.up => d.code = c.code
    BY <1>11, <2>3 DEF SameCard
  <2>5. SameTold(<<MoveOf(c, OnField("monsters", p, s, c), to)>>,
                 <<MoveOf(d, OnField("monsters", p, s, d), to)>>)
    BY <1>11, <2>4, FieldMoveTold
  <2> QED
    BY <1>8, <1>9, <1>13, <2>1, <2>2, <2>5 DEF ControlTold
<1> QED
  BY <1>19, <1>20, <1>21 DEF Match

WithMaterial(h, m) == [h EXCEPT !.materials = Append(@, m)]

AttachField(w, p, host, s) ==
    [Vacated(w, "monsters", p, s) EXCEPT
        !.monsters[p][host][1].materials = Append(@, Fresh(CardAt(w, "monsters", p, s)))]
MaterialPlace(p, host, h) == Place(p, "material", host, Len(h.materials) = 1)
AttachTold(p, host, s, c, h) ==
    <<MoveOf(c, OnField("monsters", p, s, c), MaterialPlace(p, host, h))>>

AttachesOne(w, a, p, host, s) ==
    /\ host \in Taken(w, "monsters", p) /\ CardAt(w, "monsters", p, host).up
    /\ s \in Taken(w, "monsters", p) /\ s # host
    /\ a.field = AttachField(w, p, host, s)
    /\ a.told = AttachTold(p, host, s, CardAt(w, "monsters", p, s), CardAt(w, "monsters", p, host))
    /\ a.seen = <<"attach", p, s, host, CardAt(w, "monsters", p, s).code>>

(* What a new material does, tells and shows.                               *)
LEMMA AttachIs ==
    ASSUME NEW w, NEW a \in Attaches(w)
    PROVE  \E p \in Players : \E host, s : AttachesOne(w, a, p, host, s)
<1>1. PICK p \in Players :
         \E host \in Taken(w, "monsters", p) :
            CardAt(w, "monsters", p, host).up
            /\ \E s \in Taken(w, "monsters", p) \ {host} : a = Attached(w, p, host, s)
  BY DEF Attaches
<1>2. PICK host \in Taken(w, "monsters", p) :
            CardAt(w, "monsters", p, host).up
            /\ \E s \in Taken(w, "monsters", p) \ {host} : a = Attached(w, p, host, s)
  BY <1>1
<1>3. PICK s \in Taken(w, "monsters", p) \ {host} : a = Attached(w, p, host, s)
  BY <1>2
<1>4. /\ Attached(w, p, host, s).field = AttachField(w, p, host, s)
      /\ Attached(w, p, host, s).told
           = AttachTold(p, host, s, CardAt(w, "monsters", p, s), CardAt(w, "monsters", p, host))
      /\ Attached(w, p, host, s).seen = <<"attach", p, s, host, CardAt(w, "monsters", p, s).code>>
  BY DEF Attached, After, AttachField, AttachTold, MoveOf, MaterialPlace
<1>5. AttachesOne(w, a, p, host, s)
  BY <1>2, <1>3, <1>4 DEF AttachesOne
<1> QED
  BY <1>5

(* A monster with one material more.                                        *)
LEMMA MaterialJoins ==
    ASSUME NEW h \in MonsterCards, NEW m \in PlainCards
    PROVE  LET e == WithMaterial(h, m)
           IN  /\ e \in MonsterCards /\ e.code = h.code /\ e.owner = h.owner /\ e.up = h.up
               /\ e.shown = h.shown /\ e.equip = h.equip /\ e.targets = h.targets
               /\ e.materials = Append(h.materials, m)
<1>1. h.materials \in Seq(PlainCards)
  BY DEF MonsterCards, CardsWith
<1>2. PICK ms : ms = Append(h.materials, m)
  OBVIOUS
<1>3. ms \in Seq(PlainCards)
  BY <1>1, <1>2, AppendProperties
<1>4. WithMaterial(h, m) = [h EXCEPT !.materials = ms]
  BY <1>2 DEF WithMaterial
<1>5. PICK e : e = [h EXCEPT !.materials = ms]
  OBVIOUS
<1>6. /\ e \in MonsterCards /\ e.code = h.code /\ e.owner = h.owner /\ e.up = h.up
      /\ e.shown = h.shown /\ e.equip = h.equip /\ e.targets = h.targets /\ e.materials = ms
  BY <1>3, <1>5 DEF MonsterCards, CardsWith
<1> QED
  BY <1>2, <1>4, <1>5, <1>6

(* A monster may become a material.                                         *)
LEMMA FreshJoins ==
    ASSUME NEW c \in MonsterCards
    PROVE  Fresh(c) \in PlainCards
  BY DEF MonsterCards, PlainCards, CardsWith, Fresh, Card

(* The materials of a monster, set from the outside in.                     *)
LEMMA DeepSet ==
    ASSUME NEW x, NEW p, NEW host, NEW n
    PROVE  [x EXCEPT !.monsters[p][host][1].materials = n]
             = [x EXCEPT !.monsters[p][host] =
                  [x.monsters[p][host] EXCEPT ![1] = [x.monsters[p][host][1] EXCEPT !.materials = n]]]
  OBVIOUS

(* The only card of a slot, set.                                            *)
LEMMA OneSet ==
    ASSUME NEW h, NEW g, g = <<h>>, NEW e
    PROVE  [g EXCEPT ![1] = e] = <<e>>
  OBVIOUS

(* The field after a host gained a material.                                *)
LEMMA AttachFieldIs ==
    ASSUME NEW w, Proper(w), NEW p \in Players, NEW host \in Taken(w, "monsters", p),
           NEW s \in Taken(w, "monsters", p), s # host,
           NEW c, c = CardAt(w, "monsters", p, s), NEW h, h = CardAt(w, "monsters", p, host),
           h \in MonsterCards, c \in MonsterCards,
           NEW z, SlotTo(Vacated(w, "monsters", p, s), z, "monsters", p, host,
                         <<WithMaterial(h, Fresh(c))>>)
    PROVE  z = AttachField(w, p, host, s)
<1>1. PICK x : x = Vacated(w, "monsters", p, s)
  OBVIOUS
<1>2. s \in MonsterSlots /\ host \in MonsterSlots
  BY DEF Taken, Slots
<1>3. "monsters" \in Rows /\ s \in Slots("monsters")
  BY <1>2 DEF Rows, Slots
<1>4. Proper(x) /\ Holds(x, "monsters", p, host) = Holds(w, "monsters", p, host)
  BY <1>1, <1>2, <1>3, VacatedKeeps
<1>5. MonsterAt(w, p, host, h)
  BY MonsterIs
<1>6. x.monsters[p][host] = <<h>>
  BY <1>4, <1>5 DEF MonsterAt, Holds
<1>7. PICK m : m = Fresh(c)
  OBVIOUS
<1>8. PICK e : e = WithMaterial(h, m)
  OBVIOUS
<1>9. PICK n : n = Append(h.materials, m)
  OBVIOUS
<1>10. x.monsters[p][host][1] = h
  BY <1>6
<1>11. AttachField(w, p, host, s) = [x EXCEPT !.monsters[p][host][1].materials = n]
  BY <1>1, <1>7, <1>9, <1>10 DEF AttachField
<1>12. e = [h EXCEPT !.materials = n]
  BY <1>8, <1>9 DEF WithMaterial
<1>13. PICK g : g = x.monsters[p][host]
  OBVIOUS
<1>14. [g EXCEPT ![1] = e] = <<e>>
  BY <1>6, <1>13, OneSet
<1>15. AttachField(w, p, host, s) = [x EXCEPT !.monsters[p][host] = [g EXCEPT ![1] = e]]
  BY <1>10, <1>11, <1>12, <1>13, DeepSet
<1>16. z = [x EXCEPT !.monsters[p][host] = <<e>>]
  BY <1>1, <1>7, <1>8 DEF SlotTo
<1> QED
  BY <1>14, <1>15, <1>16

(* A monster fits any monster slot.                                         *)
LEMMA MonsterFits ==
    ASSUME NEW e \in MonsterCards, NEW p
    PROVE  SlotCards("monsters", p, <<e>>)
  BY DEF SlotCards

(* New materials that player 0 cannot tell apart leave fields and messages  *)
(* that look the same.                                                      *)
LEMMA AttachesAlike ==
    ASSUME NEW w, NEW v, AlikeFields(w, v), NEW a \in Attaches(w), NEW b \in Attaches(v),
           a.seen = b.seen
    PROVE  Match(w, v, a, b)
<1>1. Proper(w) /\ Proper(v)
  BY DEF AlikeFields
<1>2. PICK p \in Players : \E host, s : AttachesOne(w, a, p, host, s)
  BY AttachIs
<1>3. PICK host, s : AttachesOne(w, a, p, host, s)
  BY <1>2
<1>4. PICK q \in Players : \E other, t : AttachesOne(v, b, q, other, t)
  BY AttachIs
<1>5. PICK other, t : AttachesOne(v, b, q, other, t)
  BY <1>4
<1>6. q = p /\ t = s /\ other = host
      /\ CardAt(v, "monsters", q, t).code = CardAt(w, "monsters", p, s).code
  <2>1. PICK i, j : i = CardAt(w, "monsters", p, s).code /\ j = CardAt(v, "monsters", q, t).code
    OBVIOUS
  <2>2. <<"attach", p, s, host, i>> = <<"attach", q, t, other, j>>
    BY <1>3, <1>5, <2>1 DEF AttachesOne
  <2>3. q = p /\ t = s /\ other = host /\ j = i
    BY <2>2
  <2> QED
    BY <2>1, <2>3
<1>7. PICK c, d : c = CardAt(w, "monsters", p, s) /\ d = CardAt(v, "monsters", p, s)
  OBVIOUS
<1>8. PICK h, g : h = CardAt(w, "monsters", p, host) /\ g = CardAt(v, "monsters", p, host)
  OBVIOUS
<1>9. /\ s \in Taken(w, "monsters", p) /\ host \in Taken(w, "monsters", p) /\ s # host
      /\ h.up /\ a.field = AttachField(w, p, host, s) /\ a.told = AttachTold(p, host, s, c, h)
  BY <1>3, <1>7, <1>8 DEF AttachesOne
<1>10. /\ s \in Taken(v, "monsters", p) /\ host \in Taken(v, "monsters", p)
       /\ g.up /\ b.field = AttachField(v, p, host, s) /\ b.told = AttachTold(p, host, s, d, g)
  BY <1>5, <1>6, <1>7, <1>8 DEF AttachesOne
<1>11. d.code = c.code
  BY <1>6, <1>7
<1>12. MonsterAt(w, p, s, c) /\ MonsterAt(w, p, host, h)
  <2>1. MonsterAt(w, p, s, CardAt(w, "monsters", p, s))
        /\ MonsterAt(w, p, host, CardAt(w, "monsters", p, host))
    BY <1>1, <1>9, MonsterIs
  <2> QED
    BY <1>7, <1>8, <2>1
<1>13. MonsterAt(v, p, s, d) /\ MonsterAt(v, p, host, g)
  <2>1. MonsterAt(v, p, s, CardAt(v, "monsters", p, s))
        /\ MonsterAt(v, p, host, CardAt(v, "monsters", p, host))
    BY <1>1, <1>10, MonsterIs
  <2> QED
    BY <1>7, <1>8, <2>1
<1>14. SameCard(c, d) /\ SameCard(h, g)
  <2>1. SameCard(CardAt(w, "monsters", p, s), CardAt(v, "monsters", p, s))
        /\ SameCard(CardAt(w, "monsters", p, host), CardAt(v, "monsters", p, host))
    BY <1>9, CardSame DEF Rows
  <2> QED
    BY <1>7, <1>8, <2>1
<1>15. /\ s \in MonsterSlots /\ host \in MonsterSlots
       /\ c \in MonsterCards /\ d \in MonsterCards /\ h \in MonsterCards /\ g \in MonsterCards
  BY <1>12, <1>13 DEF MonsterAt
<1>16. "monsters" \in Rows /\ s \in Slots("monsters") /\ host \in Slots("monsters")
  BY <1>15 DEF Rows, Slots
<1>17. PICK x, y : x = Vacated(w, "monsters", p, s) /\ y = Vacated(v, "monsters", p, s)
  OBVIOUS
<1>18. AlikeFields(x, y)
  BY <1>16, <1>17, VacatedAlike
<1>19. PICK e, f : e = WithMaterial(h, Fresh(c)) /\ f = WithMaterial(g, Fresh(d))
  OBVIOUS
<1>20. Fresh(c) \in PlainCards /\ Fresh(d) \in PlainCards
  BY <1>15, FreshJoins
<1>21. /\ e \in MonsterCards /\ e.code = h.code /\ e.owner = h.owner /\ e.up = h.up
       /\ e.shown = h.shown /\ e.equip = h.equip /\ e.targets = h.targets
       /\ e.materials = Append(h.materials, Fresh(c))
  BY <1>15, <1>19, <1>20, MaterialJoins
<1>22. /\ f \in MonsterCards /\ f.code = g.code /\ f.owner = g.owner /\ f.up = g.up
       /\ f.shown = g.shown /\ f.equip = g.equip /\ f.targets = g.targets
       /\ f.materials = Append(g.materials, Fresh(d))
  BY <1>15, <1>19, <1>20, MaterialJoins
<1>30. Fresh(d) = Fresh(c)
  BY <1>11, <1>14 DEF SameCard, Fresh
<1>31. g.code = h.code /\ g.materials = h.materials
  BY <1>9, <1>14 DEF SameCard
<1>32. f.code = e.code /\ f.materials = e.materials
  BY <1>21, <1>22, <1>30, <1>31, Zenon
<1>23. SameCard(e, f)
  BY <1>14, <1>21, <1>22, <1>32 DEF SameCard
<1>24. SlotCards("monsters", p, <<e>>) /\ SlotCards("monsters", p, <<f>>)
  BY <1>21, <1>22, MonsterFits
<1>25. PICK z, u : /\ SlotTo(x, z, "monsters", p, host, <<e>>)
                   /\ SlotTo(y, u, "monsters", p, host, <<f>>)
  BY DEF SlotTo
<1>26. AlikeFields(z, u)
  BY <1>16, <1>18, <1>23, <1>24, <1>25, SlotAlike
<1>27. z = AttachField(w, p, host, s)
  <2>1. SlotTo(Vacated(w, "monsters", p, s), z, "monsters", p, host, <<WithMaterial(h, Fresh(c))>>)
    BY <1>17, <1>19, <1>25
  <2> QED
    BY <1>1, <1>7, <1>8, <1>9, <1>15, <2>1, AttachFieldIs
<1>28. u = AttachField(v, p, host, s)
  <2>1. SlotTo(Vacated(v, "monsters", p, s), u, "monsters", p, host, <<WithMaterial(g, Fresh(d))>>)
    BY <1>17, <1>19, <1>25
  <2> QED
    BY <1>1, <1>7, <1>8, <1>9, <1>10, <1>15, <2>1, AttachFieldIs
<1>29. SameTold(a.told, b.told)
  <2>1. PICK to : to = MaterialPlace(p, host, h)
    OBVIOUS
  <2>2. MaterialPlace(p, host, g) = to
    BY <1>31, <2>1 DEF MaterialPlace
  <2>3. SameTold(<<MoveOf(c, OnField("monsters", p, s, c), to)>>,
                 <<MoveOf(d, OnField("monsters", p, s, d), to)>>)
    BY <1>11, <1>14, FieldMoveTold
  <2> QED
    BY <1>9, <1>10, <2>1, <2>2, <2>3 DEF AttachTold
<1> QED
  BY <1>9, <1>10, <1>26, <1>27, <1>28, <1>29 DEF Match

----------------------------------------------------------------------------
(* Spells that aim, and those that are activated.                           *)

AimedCard(c, p, aim) ==
    IF p = 1 THEN [c EXCEPT !.equip = <<aim>>] ELSE [c EXCEPT !.targets = <<aim>>]
AimAt(w, p, t) == OnField("monsters", p, t, CardAt(w, "monsters", p, t))
AimFrom(w, s) == OnField("spells", 1, s, CardAt(w, "spells", 1, s))
AimField(w, s, p, t) ==
    [w EXCEPT !.spells[1][s][1] = AimedCard(CardAt(w, "spells", 1, s), p, AimAt(w, p, t))]
AimTold(p, at, aim) ==
    IF p = 1 THEN <<[t |-> "equip", source |-> at, target |-> aim]>>
    ELSE <<[t |-> "card_target", source |-> at, target |-> aim],
           [t |-> "become_target", places |-> <<aim>>]>>

AimsOne(w, a, s, p, t) ==
    /\ s \in Taken(w, "spells", 1) /\ t \in Taken(w, "monsters", p)
    /\ a.field = AimField(w, s, p, t)
    /\ a.told = AimTold(p, AimFrom(w, s), AimAt(w, p, t))
    /\ a.seen = <<"aim", s, p, t>>

(* What an aim does, tells and shows.                                       *)
LEMMA AimIs ==
    ASSUME NEW w, NEW a \in Aims(w)
    PROVE  \E p \in Players : \E s, t : AimsOne(w, a, s, p, t)
<1>1. PICK p \in Players :
         \E s \in Taken(w, "spells", 1) : \E t \in Taken(w, "monsters", p) : a = AimedAt(w, s, p, t)
  BY DEF Aims
<1>2. PICK s \in Taken(w, "spells", 1) : \E t \in Taken(w, "monsters", p) : a = AimedAt(w, s, p, t)
  BY <1>1
<1>3. PICK t \in Taken(w, "monsters", p) : a = AimedAt(w, s, p, t)
  BY <1>2
<1>4. /\ AimedAt(w, s, p, t).told = AimTold(p, AimFrom(w, s), AimAt(w, p, t))
      /\ AimedAt(w, s, p, t).seen = <<"aim", s, p, t>>
  BY DEF AimedAt, After, AimTold, AimFrom, AimAt
<1>5. AimedAt(w, s, p, t).field = AimField(w, s, p, t)
  BY DEF AimedAt, After, AimField, AimedCard, AimAt, CardAt
<1>6. AimsOne(w, a, s, p, t)
  BY <1>3, <1>4, <1>5 DEF AimsOne
<1> QED
  BY <1>6

(* A spell that aims is a spell.                                            *)
LEMMA AimedCardIs ==
    ASSUME NEW c \in SpellCards, NEW p \in Players, NEW aim \in Aimed
    PROVE  LET e == AimedCard(c, p, aim)
           IN  /\ e \in SpellCards /\ e.code = c.code /\ e.owner = c.owner /\ e.up = c.up
               /\ e.shown = c.shown /\ e.materials = c.materials
               /\ e.equip = (IF p = 1 THEN <<aim>> ELSE c.equip)
               /\ e.targets = (IF p = 1 THEN c.targets ELSE <<aim>>)
<1>1. PICK one : one = <<aim>>
  OBVIOUS
<1>2. one \in Seq(Aimed)
  BY <1>1
<1>3. PICK e : e = [c EXCEPT !.equip = one]
  OBVIOUS
<1>4. PICK f : f = [c EXCEPT !.targets = one]
  OBVIOUS
<1>5. /\ e \in SpellCards /\ e.code = c.code /\ e.owner = c.owner /\ e.up = c.up
      /\ e.shown = c.shown /\ e.materials = c.materials /\ e.equip = one /\ e.targets = c.targets
  BY <1>2, <1>3 DEF SpellCards
<1>6. /\ f \in SpellCards /\ f.code = c.code /\ f.owner = c.owner /\ f.up = c.up
      /\ f.shown = c.shown /\ f.materials = c.materials /\ f.equip = c.equip /\ f.targets = one
  BY <1>2, <1>4 DEF SpellCards
<1>7. AimedCard(c, p, aim) = IF p = 1 THEN e ELSE f
  BY <1>1, <1>3, <1>4 DEF AimedCard
<1> QED
  BY <1>1, <1>5, <1>6, <1>7

(* What is aimed at in the same way looks the same.                         *)
LEMMA AimedSame ==
    ASSUME NEW c \in SpellCards, NEW d \in SpellCards, SameCard(c, d), NEW p \in Players,
           NEW aim \in Aimed
    PROVE  SameCard(AimedCard(c, p, aim), AimedCard(d, p, aim))
<1>1. PICK e, f : e = AimedCard(c, p, aim) /\ f = AimedCard(d, p, aim)
  OBVIOUS
<1>2. /\ e.code = c.code /\ e.owner = c.owner /\ e.up = c.up
      /\ e.shown = c.shown /\ e.materials = c.materials
      /\ e.equip = (IF p = 1 THEN <<aim>> ELSE c.equip)
      /\ e.targets = (IF p = 1 THEN c.targets ELSE <<aim>>)
  BY <1>1, AimedCardIs
<1>3. /\ f.code = d.code /\ f.owner = d.owner /\ f.up = d.up
      /\ f.shown = d.shown /\ f.materials = d.materials
      /\ f.equip = (IF p = 1 THEN <<aim>> ELSE d.equip)
      /\ f.targets = (IF p = 1 THEN d.targets ELSE <<aim>>)
  BY <1>1, AimedCardIs
<1>4. SameCard(e, f)
  BY <1>2, <1>3 DEF SameCard
<1> QED
  BY <1>1, <1>4

(* A spell of its owner's fits any spell slot, if it aims only for player   *)
(* 1.                                                                       *)
LEMMA SpellFits ==
    ASSUME NEW e \in SpellCards, NEW p \in Players, e.owner = p,
           p = 0 => e.equip = <<>> /\ e.targets = <<>>
    PROVE  SlotCards("spells", p, <<e>>)
  BY DEF SlotCards

(* The card of a spell slot, set from the outside in.                       *)
LEMMA DeepSpell ==
    ASSUME NEW x, NEW p, NEW s, NEW e
    PROVE  [x EXCEPT !.spells[p][s][1] = e] = [x EXCEPT !.spells[p][s] = [x.spells[p][s] EXCEPT ![1] = e]]
  OBVIOUS

(* The field after a spell aims.                                            *)
LEMMA AimFieldIs ==
    ASSUME NEW w, Proper(w), NEW s \in Taken(w, "spells", 1), NEW p, NEW t,
           NEW z, SlotTo(w, z, "spells", 1, s,
                         <<AimedCard(CardAt(w, "spells", 1, s), p, AimAt(w, p, t))>>)
    PROVE  z = AimField(w, s, p, t)
<1>1. 1 \in Players
  BY DEF Players
<1>2. PICK c : c = CardAt(w, "spells", 1, s)
  OBVIOUS
<1>3. SpellAt(w, 1, s, c)
  BY <1>1, <1>2, SpellIs
<1>4. w.spells[1][s] = <<c>>
  BY <1>3 DEF SpellAt, Holds
<1>5. PICK e : e = AimedCard(c, p, AimAt(w, p, t))
  OBVIOUS
<1>6. AimField(w, s, p, t) = [w EXCEPT !.spells[1][s][1] = e]
  BY <1>2, <1>5 DEF AimField
<1>7. PICK g : g = w.spells[1][s]
  OBVIOUS
<1>8. [g EXCEPT ![1] = e] = <<e>>
  BY <1>4, <1>7, OneSet
<1>9. AimField(w, s, p, t) = [w EXCEPT !.spells[1][s] = [g EXCEPT ![1] = e]]
  BY <1>6, <1>7, DeepSpell
<1>10. z = [w EXCEPT !.spells[1][s] = <<e>>]
  BY <1>2, <1>5 DEF SlotTo
<1> QED
  BY <1>8, <1>9, <1>10

(* Aims that player 0 cannot tell apart leave fields and messages that look *)
(* the same.                                                                *)
LEMMA AimsAlike ==
    ASSUME NEW w, NEW v, AlikeFields(w, v), NEW a \in Aims(w), NEW b \in Aims(v),
           a.seen = b.seen
    PROVE  Match(w, v, a, b)
<1>1. Proper(w) /\ Proper(v) /\ 1 \in Players
  BY DEF AlikeFields, Players
<1>2. PICK p \in Players : \E s, t : AimsOne(w, a, s, p, t)
  BY AimIs
<1>3. PICK s, t : AimsOne(w, a, s, p, t)
  BY <1>2
<1>4. PICK q \in Players : \E s2, t2 : AimsOne(v, b, s2, q, t2)
  BY AimIs
<1>5. PICK s2, t2 : AimsOne(v, b, s2, q, t2)
  BY <1>4
<1>6. q = p /\ s2 = s /\ t2 = t
  <2>1. <<"aim", s, p, t>> = <<"aim", s2, q, t2>>
    BY <1>3, <1>5 DEF AimsOne
  <2> QED
    BY <2>1
<1>7. PICK c, d : c = CardAt(w, "spells", 1, s) /\ d = CardAt(v, "spells", 1, s)
  OBVIOUS
<1>8. PICK m, n : m = CardAt(w, "monsters", p, t) /\ n = CardAt(v, "monsters", p, t)
  OBVIOUS
<1>9. /\ s \in Taken(w, "spells", 1) /\ t \in Taken(w, "monsters", p)
      /\ a.field = AimField(w, s, p, t) /\ a.told = AimTold(p, AimFrom(w, s), AimAt(w, p, t))
  BY <1>3 DEF AimsOne
<1>10. /\ s \in Taken(v, "spells", 1) /\ t \in Taken(v, "monsters", p)
       /\ b.field = AimField(v, s, p, t) /\ b.told = AimTold(p, AimFrom(v, s), AimAt(v, p, t))
  BY <1>5, <1>6 DEF AimsOne
<1>11. SpellAt(w, 1, s, c) /\ SpellAt(v, 1, s, d)
  <2>1. SpellAt(w, 1, s, CardAt(w, "spells", 1, s)) /\ SpellAt(v, 1, s, CardAt(v, "spells", 1, s))
    BY <1>1, <1>9, <1>10, SpellIs
  <2> QED
    BY <1>7, <2>1
<1>12. SameCard(c, d) /\ SameCard(m, n)
  <2>1. SameCard(CardAt(w, "spells", 1, s), CardAt(v, "spells", 1, s))
    BY <1>1, <1>9, CardSame DEF Rows
  <2>2. SameCard(CardAt(w, "monsters", p, t), CardAt(v, "monsters", p, t))
    BY <1>9, CardSame DEF Rows
  <2> QED
    BY <1>7, <1>8, <2>1, <2>2
<1>13. PICK aim : aim = AimAt(w, p, t)
  OBVIOUS
<1>14. AimAt(v, p, t) = aim /\ AimFrom(v, s) = AimFrom(w, s)
  BY <1>7, <1>8, <1>12, <1>13 DEF AimAt, AimFrom, SameCard, OnField, Place
<1>15. aim \in Aimed
  <2>1. MonsterAt(w, p, t, CardAt(w, "monsters", p, t))
    BY <1>1, <1>9, MonsterIs
  <2>2. m.up \in BOOLEAN /\ t \in MonsterSlots
    BY <1>8, <2>1 DEF MonsterAt
  <2> QED
    BY <1>8, <1>13, <2>2 DEF AimAt, Aimed, OnField, Place
<1>16. c \in SpellCards /\ d \in SpellCards /\ c.owner = 1 /\ d.owner = 1 /\ s \in SpellSlots
  BY <1>11 DEF SpellAt
<1>17. PICK e, f : e = AimedCard(c, p, aim) /\ f = AimedCard(d, p, aim)
  OBVIOUS
<1>18. e \in SpellCards /\ e.owner = 1 /\ f \in SpellCards /\ f.owner = 1
  BY <1>15, <1>16, <1>17, AimedCardIs
<1>19. SlotCards("spells", 1, <<e>>) /\ SlotCards("spells", 1, <<f>>)
  BY <1>1, <1>18, SpellFits
<1>20. SameCard(e, f)
  BY <1>12, <1>15, <1>16, <1>17, AimedSame
<1>21. PICK x, y : SlotTo(w, x, "spells", 1, s, <<e>>) /\ SlotTo(v, y, "spells", 1, s, <<f>>)
  BY DEF SlotTo
<1>22. AlikeFields(x, y)
  <2>1. "spells" \in Rows /\ s \in Slots("spells")
    BY <1>16 DEF Rows, Slots
  <2> QED
    BY <1>1, <1>19, <1>20, <1>21, <2>1, SlotAlike
<1>23. x = AimField(w, s, p, t)
  <2>1. SlotTo(w, x, "spells", 1, s, <<AimedCard(CardAt(w, "spells", 1, s), p, AimAt(w, p, t))>>)
    BY <1>7, <1>13, <1>17, <1>21
  <2> QED
    BY <1>1, <1>9, <2>1, AimFieldIs
<1>24. y = AimField(v, s, p, t)
  <2>1. SlotTo(v, y, "spells", 1, s, <<AimedCard(CardAt(v, "spells", 1, s), p, AimAt(v, p, t))>>)
    BY <1>7, <1>14, <1>17, <1>21
  <2> QED
    BY <1>1, <1>10, <2>1, AimFieldIs
<1>25. SameTold(a.told, b.told)
  <2>1. b.told = a.told
    BY <1>9, <1>10, <1>13, <1>14
  <2> QED
    BY <2>1, SameMessages
<1> QED
  BY <1>9, <1>10, <1>22, <1>23, <1>24, <1>25 DEF Match

LinkOf(p, s, c) ==
    [player |-> p, source |-> OnField("spells", p, s, Upwards(c)), description |-> Upwards(c).code]
ActivateField(w, p, s) ==
    LET c == CardAt(w, "spells", p, s)
    IN  [w EXCEPT !.spells[p][s] = <<Upwards(c)>>, !.chain = Append(@, LinkOf(p, s, c))]
ActivateTold(p, s, c, count) ==
    <<[t |-> "chaining", code |-> c.code, at |-> OnField("spells", p, s, c), player |-> p,
       description |-> c.code, count |-> count],
      [t |-> "chained", count |-> count]>>

ActivatesOne(w, a, p, s) ==
    /\ s \in Taken(w, "spells", p)
    /\ a.field = ActivateField(w, p, s)
    /\ a.told = ActivateTold(p, s, Upwards(CardAt(w, "spells", p, s)), Len(w.chain) + 1)
    /\ a.seen = <<"activate", p, s, Upwards(CardAt(w, "spells", p, s)).code>>

(* What an activation does, tells and shows.                                *)
LEMMA ActivateIs ==
    ASSUME NEW w, NEW a \in Activates(w)
    PROVE  \E p \in Players : \E s : ActivatesOne(w, a, p, s)
<1>1. PICK p \in Players : \E s \in Taken(w, "spells", p) : a = ActivatedAt(w, p, s)
  BY DEF Activates
<1>2. PICK s \in Taken(w, "spells", p) : a = ActivatedAt(w, p, s)
  BY <1>1
<1>3. /\ ActivatedAt(w, p, s).field = ActivateField(w, p, s)
      /\ ActivatedAt(w, p, s).told
           = ActivateTold(p, s, Upwards(CardAt(w, "spells", p, s)), Len(w.chain) + 1)
      /\ ActivatedAt(w, p, s).seen
           = <<"activate", p, s, Upwards(CardAt(w, "spells", p, s)).code>>
  BY DEF ActivatedAt, After, ActivateField, ActivateTold, LinkOf
<1>4. ActivatesOne(w, a, p, s)
  BY <1>2, <1>3 DEF ActivatesOne
<1> QED
  BY <1>4

(* A spell face up.                                                         *)
LEMMA ActivatedIs ==
    ASSUME NEW c \in SpellCards
    PROVE  LET e == Upwards(c)
           IN  /\ e \in SpellCards /\ e.code = c.code /\ e.owner = c.owner /\ e.up = TRUE
               /\ e.shown = c.shown /\ e.materials = c.materials
               /\ e.equip = c.equip /\ e.targets = c.targets /\ e.code \in Codes
  BY DEF SpellCards, Upwards

(* The link of an activated spell.                                          *)
LEMMA LinkFits ==
    ASSUME NEW c \in SpellCards, NEW p \in Players, NEW s \in SpellSlots
    PROVE  LinkOf(p, s, c) \in Links
<1>1. Upwards(c).code \in Codes /\ Upwards(c).up \in BOOLEAN
  BY ActivatedIs
<1>2. PICK up \in BOOLEAN : up = Upwards(c).up
  BY <1>1
<1>3. OnField("spells", p, s, Upwards(c))
        = [controller |-> p, location |-> "szone", sequence |-> s, up |-> up]
  BY <1>2 DEF OnField, Place
<1>4. PICK at : at = OnField("spells", p, s, Upwards(c))
  OBVIOUS
<1>5. at \in [controller : Players, location : {"szone"}, sequence : SpellSlots, up : BOOLEAN]
  BY <1>3, <1>4
<1>6. PICK code \in Codes : code = Upwards(c).code
  BY <1>1
<1>7. LinkOf(p, s, c) = [player |-> p, source |-> at, description |-> code]
  BY <1>4, <1>6 DEF LinkOf
<1> QED
  BY <1>5, <1>7 DEF Links

(* The links of the chain of a proper field. *)
LEMMA ChainGrows ==
    ASSUME NEW w, Proper(w), NEW link \in Links
    PROVE  Append(w.chain, link) \in Seq(Links)
<1>1. w.chain \in Seq(Links)
  BY ProperParts
<1> QED
  BY <1>1, AppendProperties

(* What looks the same still does with the same chain. *)
LEMMA ChainAlike ==
    ASSUME NEW w, NEW v, AlikeFields(w, v), NEW h \in Seq(Links),
           NEW x, ChainTo(w, x, h), NEW y, ChainTo(v, y, h)
    PROVE  AlikeFields(x, y)
<1>1. Proper(w) /\ Proper(v)
  BY DEF AlikeFields
<1>2. PICK names : names = {"chain"}
  OBVIOUS
<1>3. Proper(x) /\ Keeps(w, x, names) /\ x.chain = h
  BY <1>1, <1>2, ChainSet
<1>4. Proper(y) /\ Keeps(v, y, names) /\ y.chain = h
  BY <1>1, <1>2, ChainSet
<1>5. SamePart("chain", x.chain, y.chain)
  BY <1>3, <1>4 DEF SamePart
<1>6. \A f \in names : SamePart(f, x[f], y[f])
  BY <1>2, <1>5
<1> QED
  BY <1>3, <1>4, <1>6, AlikeAfter

(* The chain resolves in the same way in fields that look the same.         *)
LEMMA ResolutionsAlike ==
    ASSUME NEW w, NEW v, AlikeFields(w, v), NEW a \in Resolutions(w), NEW b \in Resolutions(v)
    PROVE  Match(w, v, a, b)
<1>1. PICK h : h = <<>>
  OBVIOUS
<1>2. h \in Seq(Links)
  BY <1>1
<1>3. PICK x, y : ChainTo(w, x, h) /\ ChainTo(v, y, h)
  BY DEF ChainTo
<1>4. AlikeFields(x, y)
  BY <1>2, <1>3, ChainAlike
<1>5. a = Resolved(w) /\ b = Resolved(v)
  BY DEF Resolutions
<1>6. a.field = x /\ b.field = y
  BY <1>1, <1>3, <1>5 DEF Resolved, After, ChainTo
<1>7. v.chain = w.chain
  BY DEF AlikeFields, SameField
<1>8. b.told = a.told
  BY <1>5, <1>7 DEF Resolved, After
<1> QED
  BY <1>4, <1>6, <1>8, SameMessages DEF Match

(* Activations that player 0 cannot tell apart leave fields and messages    *)
(* that look the same.                                                      *)
LEMMA ActivatesAlike ==
    ASSUME NEW w, NEW v, AlikeFields(w, v), NEW a \in Activates(w), NEW b \in Activates(v),
           a.seen = b.seen
    PROVE  Match(w, v, a, b)
<1>1. Proper(w) /\ Proper(v)
  BY DEF AlikeFields
<1>2. PICK p \in Players : \E s : ActivatesOne(w, a, p, s)
  BY ActivateIs
<1>3. PICK s : ActivatesOne(w, a, p, s)
  BY <1>2
<1>4. PICK q \in Players : \E t : ActivatesOne(v, b, q, t)
  BY ActivateIs
<1>5. PICK t : ActivatesOne(v, b, q, t)
  BY <1>4
<1>6. q = p /\ t = s
      /\ Upwards(CardAt(v, "spells", q, t)).code = Upwards(CardAt(w, "spells", p, s)).code
  <2>1. PICK i, j : /\ i = Upwards(CardAt(w, "spells", p, s)).code
                    /\ j = Upwards(CardAt(v, "spells", q, t)).code
    OBVIOUS
  <2>2. <<"activate", p, s, i>> = <<"activate", q, t, j>>
    BY <1>3, <1>5, <2>1 DEF ActivatesOne
  <2>3. q = p /\ t = s /\ j = i
    BY <2>2
  <2> QED
    BY <2>1, <2>3
<1>7. PICK c, d : c = CardAt(w, "spells", p, s) /\ d = CardAt(v, "spells", p, s)
  OBVIOUS
<1>8. PICK n : n = Len(w.chain) + 1
  OBVIOUS
<1>9. v.chain = w.chain
  BY DEF AlikeFields, SameField
<1>10. /\ s \in Taken(w, "spells", p) /\ a.field = ActivateField(w, p, s)
       /\ a.told = ActivateTold(p, s, Upwards(c), n)
  BY <1>3, <1>7, <1>8 DEF ActivatesOne
<1>11. /\ s \in Taken(v, "spells", p) /\ b.field = ActivateField(v, p, s)
       /\ b.told = ActivateTold(p, s, Upwards(d), n)
  BY <1>5, <1>6, <1>7, <1>8, <1>9 DEF ActivatesOne
<1>12. SpellAt(w, p, s, c) /\ SpellAt(v, p, s, d)
  <2>1. SpellAt(w, p, s, CardAt(w, "spells", p, s)) /\ SpellAt(v, p, s, CardAt(v, "spells", p, s))
    BY <1>1, <1>10, <1>11, SpellIs
  <2> QED
    BY <1>7, <2>1
<1>13. SameCard(c, d)
  <2>1. SameCard(CardAt(w, "spells", p, s), CardAt(v, "spells", p, s))
    BY <1>10, CardSame DEF Rows
  <2> QED
    BY <1>7, <2>1
<1>14. PICK e, f : e = Upwards(c) /\ f = Upwards(d)
  OBVIOUS
<1>15. /\ s \in SpellSlots /\ c \in SpellCards /\ d \in SpellCards /\ c.owner = p /\ d.owner = p
       /\ p = 0 => c.equip = <<>> /\ c.targets = <<>>
       /\ p = 0 => d.equip = <<>> /\ d.targets = <<>>
       /\ d.materials = c.materials
  BY <1>12 DEF SpellAt
<1>16. /\ e \in SpellCards /\ e.code = c.code /\ e.owner = c.owner /\ e.up = TRUE
       /\ e.shown = c.shown /\ e.materials = c.materials
       /\ e.equip = c.equip /\ e.targets = c.targets
  BY <1>14, <1>15, ActivatedIs
<1>17. /\ f \in SpellCards /\ f.code = d.code /\ f.owner = d.owner /\ f.up = TRUE
       /\ f.shown = d.shown /\ f.materials = d.materials
       /\ f.equip = d.equip /\ f.targets = d.targets
  BY <1>14, <1>15, ActivatedIs
<1>18. f.code = e.code
  BY <1>6, <1>7, <1>14
<1>19. SameCard(e, f)
  <2>1. f.up = e.up
    BY <1>16, <1>17, Zenon
  <2>2. f.shown = e.shown
    BY <1>13, <1>16, <1>17, Zenon DEF SameCard
  <2> QED
    BY <1>13, <1>15, <1>16, <1>17, <1>18, <2>1, <2>2 DEF SameCard
<1>20. SlotCards("spells", p, <<e>>) /\ SlotCards("spells", p, <<f>>)
  BY <1>15, <1>16, <1>17, SpellFits
<1>21. PICK x, y : SlotTo(w, x, "spells", p, s, <<e>>) /\ SlotTo(v, y, "spells", p, s, <<f>>)
  BY DEF SlotTo
<1>22. "spells" \in Rows /\ s \in Slots("spells")
  BY <1>15 DEF Rows, Slots
<1>23. AlikeFields(x, y)
  BY <1>19, <1>20, <1>21, <1>22, SlotAlike
<1>24. Keeps(w, x, {"spells"}) /\ Keeps(v, y, {"spells"})
  BY <1>1, <1>20, <1>21, <1>22, SlotSet
<1>25. x.chain = w.chain /\ y.chain = v.chain
  BY <1>24 DEF Keeps, FieldNames
<1>26. LinkOf(p, s, c) = LinkOf(p, s, d)
  <2>1. OnField("spells", p, s, f) = OnField("spells", p, s, e)
    BY <1>16, <1>17, Zenon DEF OnField, Place
  <2> QED
    BY <1>14, <1>18, <2>1 DEF LinkOf
<1>27. PICK h : h = Append(w.chain, LinkOf(p, s, c))
  OBVIOUS
<1>28. h \in Seq(Links)
  <2>1. LinkOf(p, s, c) \in Links
    BY <1>15, LinkFits
  <2> QED
    BY <1>1, <1>27, <2>1, ChainGrows
<1>29. PICK z, u : ChainTo(x, z, h) /\ ChainTo(y, u, h)
  BY DEF ChainTo
<1>30. AlikeFields(z, u)
  BY <1>23, <1>28, <1>29, ChainAlike
<1>31. z = ActivateField(w, p, s)
  BY <1>7, <1>14, <1>21, <1>27, <1>29 DEF ChainTo, SlotTo, ActivateField
<1>32. u = ActivateField(v, p, s)
  BY <1>7, <1>9, <1>14, <1>21, <1>26, <1>27, <1>29 DEF ChainTo, SlotTo, ActivateField
<1>33. b.told = a.told
  <2>1. OnField("spells", p, s, f) = OnField("spells", p, s, e)
    BY <1>16, <1>17, Zenon DEF OnField, Place
  <2>2. ActivateTold(p, s, f, n) = ActivateTold(p, s, e, n)
    BY <1>18, <2>1 DEF ActivateTold
  <2> QED
    BY <1>10, <1>11, <1>14, <2>2
<1> QED
  BY <1>10, <1>11, <1>30, <1>31, <1>32, <1>33, SameMessages DEF Match

----------------------------------------------------------------------------
(* All moves.                                                               *)

WinTold(n) ==
    <<[t |-> "damage", player |-> 0, amount |-> n], [t |-> "win", winner |-> 1, reason |-> 1]>>
TurnOver(w) ==
    After(w, <<[t |-> "new_turn", player |-> 1], [t |-> "new_phase", phase |-> 1]>>, <<"turn of 1">>)
DuelWon(w) == After([w EXCEPT !.lp[0] = 0], WinTold(w.lp[0]), <<"win">>)

(* The opponent's turn, or the end of the duel.                             *)
LEMMA PassIs ==
    ASSUME NEW w, NEW a \in Passes(w)
    PROVE  \/ a = TurnOver(w) /\ a.seen[1] = "turn of 1"
           \/ a = DuelWon(w) /\ a.seen[1] = "win"
<1>1. a = TurnOver(w) \/ a = DuelWon(w)
  BY DEF Passes, TurnOver, DuelWon, WinTold
<1>2. TurnOver(w).seen = <<"turn of 1">> /\ DuelWon(w).seen = <<"win">>
  BY DEF TurnOver, DuelWon, After
<1>3. ASSUME NEW kind
      PROVE  <<kind>>[1] = kind
  OBVIOUS
<1>4. TurnOver(w).seen[1] = "turn of 1" /\ DuelWon(w).seen[1] = "win"
  BY <1>2, <1>3, Zenon
<1> QED
  BY <1>1, <1>4, Zenon

(* A duel lost by player 0 looks the same in both.                          *)
LEMMA WinAlike ==
    ASSUME NEW w, NEW v, AlikeFields(w, v)
    PROVE  Match(w, v, DuelWon(w), DuelWon(v))
<1>1. Proper(w) /\ Proper(v) /\ v.lp = w.lp
  BY DEF AlikeFields, SameField
<1>2. w \in Fields
  BY <1>1, ProperParts
<1>3. w.lp \in [Players -> Nat] /\ 0 \in Players
  BY <1>2, FieldIs DEF Players
<1>4. PICK h : h = [w.lp EXCEPT ![0] = 0]
  OBVIOUS
<1>5. h \in [Players -> Nat]
  BY <1>3, <1>4
<1>6. PICK x, y : LifeTo(w, x, h) /\ LifeTo(v, y, h)
  BY DEF LifeTo
<1>7. PICK names : names = {"lp"}
  OBVIOUS
<1>8. Proper(x) /\ Keeps(w, x, names) /\ x.lp = h
  BY <1>1, <1>5, <1>6, <1>7, LifeSet
<1>9. Proper(y) /\ Keeps(v, y, names) /\ y.lp = h
  BY <1>1, <1>5, <1>6, <1>7, LifeSet
<1>10. SamePart("lp", x.lp, y.lp)
  BY <1>8, <1>9 DEF SamePart
<1>11. \A f \in names : SamePart(f, x[f], y[f])
  BY <1>7, <1>10
<1>12. AlikeFields(x, y)
  BY <1>8, <1>9, <1>11, AlikeAfter
<1>13. DuelWon(w).field = x /\ DuelWon(v).field = y
  BY <1>1, <1>4, <1>6 DEF DuelWon, After, LifeTo
<1>14. DuelWon(v).told = DuelWon(w).told
  BY <1>1 DEF DuelWon, After
<1> QED
  BY <1>12, <1>13, <1>14, SameMessages DEF Match

(* Both leave fields and messages that look the same.                       *)
LEMMA PassesAlike ==
    ASSUME NEW w, NEW v, AlikeFields(w, v), NEW a \in Passes(w), NEW b \in Passes(v),
           a.seen = b.seen
    PROVE  Match(w, v, a, b)
<1>1. CASE a.seen[1] = "win"
  <2>1. a = DuelWon(w) /\ b = DuelWon(v)
    BY <1>1, PassIs
  <2> QED
    BY <2>1, WinAlike
<1>2. CASE a.seen[1] # "win"
  <2>1. a = TurnOver(w) /\ b = TurnOver(v)
    BY <1>2, PassIs
  <2>2. a.field = w /\ b.field = v /\ b.told = a.told
    BY <2>1 DEF TurnOver, After
  <2> QED
    BY <2>2, SameMessages DEF Match
<1> QED
  BY <1>1, <1>2

(* What player 0 sees of a move names its kind.                             *)
LEMMA TagDraw ==
    ASSUME NEW w, NEW a \in Draws(w)
    PROVE  a.seen[1] = "draw"
  BY DrawIs

(* So does a play,                                                          *)
LEMMA TagPlay ==
    ASSUME NEW w, NEW a \in Plays(w)
    PROVE  a.seen[1] = "play"
  BY PlayIs DEF PlayedSeen

(* a shuffle of a hand,                                                     *)
LEMMA TagShuffle ==
    ASSUME NEW w, NEW a \in HandShuffles(w)
    PROVE  a.seen[1] = "shuffle"
  BY HandShuffleIs DEF ShuffleSeen

(* a turn,                                                                  *)
LEMMA TagTurn ==
    ASSUME NEW w, NEW a \in Turns(w)
    PROVE  a.seen[1] = "turn"
  BY TurnIs DEF TurnsOne

(* a leave,                                                                 *)
LEMMA TagLeave ==
    ASSUME NEW w, NEW a \in Leaves(w)
    PROVE  a.seen[1] = "leave"
  BY LeaveIs DEF LeavesOne, LeavingSeen

(* a shuffle of set monsters,                                               *)
LEMMA TagSetShuffle ==
    ASSUME NEW w, NEW a \in SetShuffles(w), ~MixedShuffle
    PROVE  a.seen[1] = "shuffle set"
<1>1. PICK p \in Players : \E order : ShufflesSet(w, a, p, order)
  BY SetShuffleIs
<1>2. PICK order : ShufflesSet(w, a, p, order)
  BY <1>1
<1>3. a.seen = ShuffleSeen("shuffle set", p, order)
  BY <1>2 DEF ShufflesSet
<1>4. ASSUME NEW kind
      PROVE  ShuffleSeen(kind, p, order)[1] = kind
  BY DEF ShuffleSeen
<1> QED
  BY <1>3, <1>4, Zenon

(* a change of control,                                                     *)
LEMMA TagControl ==
    ASSUME NEW w, NEW a \in TakesControl(w)
    PROVE  a.seen[1] = "control"
  BY ControlIs DEF ControlsOne

(* a new material,                                                          *)
LEMMA TagAttach ==
    ASSUME NEW w, NEW a \in Attaches(w)
    PROVE  a.seen[1] = "attach"
  BY AttachIs DEF AttachesOne

(* an aim,                                                                  *)
LEMMA TagAim ==
    ASSUME NEW w, NEW a \in Aims(w)
    PROVE  a.seen[1] = "aim"
  BY AimIs DEF AimsOne

(* an activation,                                                           *)
LEMMA TagActivate ==
    ASSUME NEW w, NEW a \in Activates(w)
    PROVE  a.seen[1] = "activate"
  BY ActivateIs DEF ActivatesOne

(* and the end of a chain.                                                  *)
LEMMA TagResolve ==
    ASSUME NEW w, NEW a \in Resolutions(w)
    PROVE  a.seen[1] = "resolve"
  BY DEF Resolutions, Resolved, After

Kind(w, a, tag) ==
    CASE tag = "draw" -> a \in Draws(w)
      [] tag = "play" -> a \in Plays(w)
      [] tag = "shuffle" -> a \in HandShuffles(w)
      [] tag \in {"confirm", "confirm own", "show"} -> a \in Confirms(w)
      [] tag = "turn" -> a \in Turns(w)
      [] tag = "leave" -> a \in Leaves(w)
      [] tag = "shuffle set" -> a \in SetShuffles(w)
      [] tag = "control" -> a \in TakesControl(w)
      [] tag = "attach" -> a \in Attaches(w)
      [] tag = "aim" -> a \in Aims(w)
      [] tag = "activate" -> a \in Activates(w)
      [] tag = "resolve" -> a \in Resolutions(w)
      [] tag \in {"turn of 1", "win"} -> a \in Passes(w)
Tags == {"draw", "play", "shuffle", "confirm", "confirm own", "show", "turn", "leave",
         "shuffle set", "control", "attach", "aim", "activate", "resolve", "turn of 1", "win"}

(* What player 0 sees of a move tells of what kind it is.                   *)
LEMMA KindOfMove ==
    ASSUME NEW w, NEW a \in EngineMoves(w), ~MixedShuffle
    PROVE  a.seen[1] \in Tags /\ Kind(w, a, a.seen[1])
<1>1. \/ a \in Draws(w) \/ a \in Plays(w) \/ a \in HandShuffles(w) \/ a \in Confirms(w)
      \/ a \in Turns(w) \/ a \in Leaves(w) \/ a \in SetShuffles(w) \/ a \in TakesControl(w)
      \/ a \in Attaches(w) \/ a \in Aims(w) \/ a \in Activates(w) \/ a \in Resolutions(w)
      \/ a \in Passes(w)
  BY DEF EngineMoves
<1>2. PICK tag : tag = a.seen[1]
  OBVIOUS
<1>3. CASE a \in Draws(w)
  BY <1>2, <1>3, TagDraw DEF Kind, Tags
<1>4. CASE a \in Plays(w)
  BY <1>2, <1>4, TagPlay DEF Kind, Tags
<1>5. CASE a \in HandShuffles(w)
  BY <1>2, <1>5, TagShuffle DEF Kind, Tags
<1>6. CASE a \in Confirms(w)
  BY <1>2, <1>6, ConfirmIs DEF Kind, Tags
<1>7. CASE a \in Turns(w)
  BY <1>2, <1>7, TagTurn DEF Kind, Tags
<1>8. CASE a \in Leaves(w)
  BY <1>2, <1>8, TagLeave DEF Kind, Tags
<1>9. CASE a \in SetShuffles(w)
  BY <1>2, <1>9, TagSetShuffle DEF Kind, Tags
<1>10. CASE a \in TakesControl(w)
  BY <1>2, <1>10, TagControl DEF Kind, Tags
<1>11. CASE a \in Attaches(w)
  BY <1>2, <1>11, TagAttach DEF Kind, Tags
<1>12. CASE a \in Aims(w)
  BY <1>2, <1>12, TagAim DEF Kind, Tags
<1>13. CASE a \in Activates(w)
  BY <1>2, <1>13, TagActivate DEF Kind, Tags
<1>14. CASE a \in Resolutions(w)
  BY <1>2, <1>14, TagResolve DEF Kind, Tags
<1>15. CASE a \in Passes(w)
  BY <1>2, <1>15, PassIs DEF Kind, Tags
<1> QED
  BY <1>1, <1>3, <1>4, <1>5, <1>6, <1>7, <1>8, <1>9, <1>10, <1>11, <1>12, <1>13, <1>14, <1>15

(* Moves that player 0 cannot tell apart leave fields that look the same to *)
(* it, and messages that tell it the same.                                  *)
LEMMA MovesAlike ==
    ASSUME NEW w, NEW v, AlikeFields(w, v), NEW a \in EngineMoves(w), NEW b \in EngineMoves(v),
           a.seen = b.seen, ~MixedShuffle
    PROVE  Match(w, v, a, b)
<1>1. PICK tag : tag = a.seen[1]
  OBVIOUS
<1>2. tag \in Tags /\ Kind(w, a, tag) /\ Kind(v, b, tag)
  <2>1. b.seen[1] = tag
    BY <1>1
  <2> QED
    BY <1>1, <2>1, KindOfMove
<1>3. CASE tag = "draw"
  BY <1>2, <1>3, DrawsAlike DEF Kind
<1>4. CASE tag = "play"
  BY <1>2, <1>4, PlaysAlike DEF Kind
<1>5. CASE tag = "shuffle"
  BY <1>2, <1>5, HandShufflesAlike DEF Kind
<1>6. CASE tag \in {"confirm", "confirm own", "show"}
  BY <1>2, <1>6, ConfirmsAlike DEF Kind
<1>7. CASE tag = "turn"
  BY <1>2, <1>7, TurnsAlike DEF Kind
<1>8. CASE tag = "leave"
  BY <1>2, <1>8, LeavesAlike DEF Kind
<1>9. CASE tag = "shuffle set"
  BY <1>2, <1>9, SetShufflesAlike DEF Kind
<1>10. CASE tag = "control"
  BY <1>2, <1>10, ControlAlike DEF Kind
<1>11. CASE tag = "attach"
  BY <1>2, <1>11, AttachesAlike DEF Kind
<1>12. CASE tag = "aim"
  BY <1>2, <1>12, AimsAlike DEF Kind
<1>13. CASE tag = "activate"
  BY <1>2, <1>13, ActivatesAlike DEF Kind
<1>14. CASE tag = "resolve"
  BY <1>2, <1>14, ResolutionsAlike DEF Kind
<1>15. CASE tag \in {"turn of 1", "win"}
  BY <1>2, <1>15, PassesAlike DEF Kind
<1> QED
  BY <1>2, <1>3, <1>4, <1>5, <1>6, <1>7, <1>8, <1>9, <1>10, <1>11, <1>12, <1>13, <1>14, <1>15
     DEF Tags

----------------------------------------------------------------------------
(* The two duels.                                                           *)

HiddenInv == AlikeFields(world[1], world[2]) /\ session[2] = session[1]

(* The two duels start with fields that look the same.                      *)
LEMMA StartsAlike ==
    ASSUME NEW start \in Starts
    PROVE  AlikeFields(start[1], start[2])
<1>1. 1 \in Duels /\ 2 \in Duels
  BY DEF Duels
<1>2. SameField(start[1], start[2]) /\ Proper(start[1]) /\ Proper(start[2])
  BY <1>1, StartsAssumption
<1>3. ASSUME NEW d \in Duels, NEW codes
      PROVE  ShownIn(start[d].hand[1], codes) = {}
  <2>1. \A i \in DOMAIN start[d].hand[1] : ~start[d].hand[1][i].shown
    BY StartsAssumption
  <2>2. PICK h : h = start[d].hand[1]
    OBVIOUS
  <2>3. Proper(start[d])
    BY StartsAssumption
  <2>4. HandOf(h, 1)
    <3>1. 1 \in Players
      BY DEF Players
    <3> QED
      BY <2>2, <2>3, <3>1, ProperParts
  <2>5. DOMAIN h = 1..Len(h)
    BY <2>4 DEF HandOf
  <2>6. ShownIn(h, codes) = {}
    BY <2>1, <2>2, <2>5 DEF ShownIn
  <2> QED
    BY <2>2, <2>6
<1>4. HeldAlike(start[1], start[2])
  BY <1>1, <1>3 DEF HeldAlike
<1> QED
  BY <1>2, <1>4 DEF AlikeFields

(* The invariant holds at the start.                                        *)
LEMMA HiddenStarts ==
    Init => HiddenInv
<1>1. ASSUME Init
      PROVE  HiddenInv
  <2>1. PICK start \in Starts : world = start
    BY <1>1 DEF Init
  <2>2. AlikeFields(world[1], world[2])
    BY <2>1, StartsAlike
  <2>3. session[2] = session[1]
    BY <1>1 DEF Init, Duels
  <2> QED
    BY <2>2, <2>3 DEF HiddenInv
<1> QED
  BY <1>1

(* A move of the engine in both duels preserves it.                         *)
LEMMA HiddenStep ==
    ASSUME HiddenInv, Move, ~MixedShuffle
    PROVE  HiddenInv'
<1>1. PICK w, v : w = world[1] /\ v = world[2]
  OBVIOUS
<1>2. AlikeFields(w, v) /\ session[2] = session[1]
  BY <1>1 DEF HiddenInv
<1>3. PICK a \in EngineMoves(w) : \E b \in EngineMoves(v) :
         /\ a.seen = b.seen
         /\ world' = <<a.field, b.field>>
         /\ session' = <<Ingest(session[1], a.told, me, moves + 1),
                         Ingest(session[2], b.told, me, moves + 1)>>
  BY <1>1 DEF Move
<1>4. PICK b \in EngineMoves(v) :
         /\ a.seen = b.seen
         /\ world' = <<a.field, b.field>>
         /\ session' = <<Ingest(session[1], a.told, me, moves + 1),
                         Ingest(session[2], b.told, me, moves + 1)>>
  BY <1>3
<1>5. Match(w, v, a, b)
  BY <1>2, <1>4, MovesAlike
<1>6. AlikeFields(a.field, b.field) /\ SameTold(a.told, b.told)
  BY <1>5 DEF Match
<1>7. world'[1] = a.field /\ world'[2] = b.field
  BY <1>4
<1>8. PICK s, n : s = session[1] /\ n = moves + 1
  OBVIOUS
<1>9. session'[1] = Ingest(s, a.told, me, n) /\ session'[2] = Ingest(s, b.told, me, n)
  BY <1>2, <1>4, <1>8
<1>10. Ingest(s, b.told, me, n) = Ingest(s, a.told, me, n)
  BY <1>6, IngestAlike
<1> QED
  BY <1>6, <1>7, <1>9, <1>10 DEF HiddenInv

(* It implies that the duels look the same to player 0.                     *)
LEMMA HiddenIsHidden ==
    HiddenInv => HidesWhatIsHidden
<1>1. ASSUME HiddenInv
      PROVE  HidesWhatIsHidden
  <2>1. PICK w, v, s : w = world[1] /\ v = world[2] /\ s = session[1]
    OBVIOUS
  <2>2. AlikeFields(w, v) /\ session[2] = s
    BY <1>1, <2>1 DEF HiddenInv
  <2>3. Observed(1) = Observe(w, me, s, Asked(w)) /\ Observed(2) = Observe(v, me, s, Asked(v))
    BY <2>1, <2>2 DEF Observed
  <2>4. Alike(Observe(w, me, s, Asked(w)), Observe(v, me, s, Asked(v)))
    BY <2>2, ObserveAlike
  <2>5. Alike(Observed(1), Observed(2))
    BY <2>3, <2>4
  <2>6. ASSUME NEW shown, shown = [d \in Duels |-> Observed(d)]
        PROVE  shown[1] = Observed(1) /\ shown[2] = Observed(2)
    BY <2>6 DEF Duels
  <2> QED
    BY <2>5, <2>6 DEF HidesWhatIsHidden
<1> QED
  BY <1>1

(* The two fields differ in nothing player 0 may know, and the two sessions *)
(* of event_projection.cpp have collected the same events.                  *)
THEOREM FieldsStayAlike ==
    ASSUME ~MixedShuffle
    PROVE  Spec => []HiddenInv
<1>1. Init => HiddenInv
  BY HiddenStarts
<1>2. HiddenInv /\ [Move]_vars => HiddenInv'
  <2>1. HiddenInv /\ Move => HiddenInv'
    BY HiddenStep
  <2>2. HiddenInv /\ UNCHANGED vars => HiddenInv'
    BY DEF HiddenInv, vars
  <2> QED
    BY <2>1, <2>2
<1> QED
  BY <1>1, <1>2, PTL DEF Spec

(* For any two duels that start with fields that look the same to player 0, *)
(* any length of play and any cards, the safe state, the events and the     *)
(* references of its decisions (observation_builder.cpp,                    *)
(* decision_integration.cpp) are the same in both: nothing it may not know  *)
(* reaches them, as long as set cards of two owners are not shuffled        *)
(* together.                                                                *)
THEOREM HiddenStaysHidden ==
    ASSUME ~MixedShuffle
    PROVE  Spec => []HidesWhatIsHidden
<1>1. Spec => []HiddenInv
  BY FieldsStayAlike
<1> QED
  BY <1>1, HiddenIsHidden, PTL

----------------------------------------------------------------------------
(* One duel: the fields the engine leaves.                                  *)

(* A field looks the same as itself.                                        *)
LEMMA AlikeItself ==
    ASSUME NEW w, Proper(w)
    PROVE  AlikeFields(w, w)
<1>1. ASSUME NEW cards
      PROVE  SameCards(cards, cards)
  BY DEF SameCards, SameCard
<1>2. SameField(w, w)
  BY <1>1 DEF SameField
<1>3. HeldAlike(w, w)
  BY DEF HeldAlike
<1> QED
  BY <1>2, <1>3 DEF AlikeFields

(* Set monsters may be shuffled whoever owns them.                          *)
LEMMA SetShufflesProper ==
    ASSUME NEW w, Proper(w), NEW a \in SetShuffles(w)
    PROVE  Proper(a.field)
<1>1. PICK p \in Players : \E order \in [Down(w, p) -> Down(w, p)] : a = SetShuffled(w, p, order)
  BY DEF SetShuffles
<1>2. PICK order \in [Down(w, p) -> Down(w, p)] : a = SetShuffled(w, p, order)
  BY <1>1
<1>3. SetShuffled(w, p, order).field = DownShuffled(w, p, order)
  BY DEF SetShuffled, After, DownShuffled
<1>4. Proper(DownShuffled(w, p, order))
  BY DownShuffledIs
<1> QED
  BY <1>2, <1>3, <1>4

(* Every move of the engine leaves a field it could be in.                  *)
LEMMA MovesAreProper ==
    ASSUME NEW w, Proper(w), NEW a \in EngineMoves(w)
    PROVE  Proper(a.field)
<1>1. AlikeFields(w, w)
  BY AlikeItself
<1>2. Match(w, w, a, a) => Proper(a.field)
  BY DEF Match, AlikeFields
<1>3. CASE a \in Draws(w)
  BY <1>1, <1>2, <1>3, DrawsAlike
<1>4. CASE a \in Plays(w)
  BY <1>1, <1>2, <1>4, PlaysAlike
<1>5. CASE a \in HandShuffles(w)
  BY <1>1, <1>2, <1>5, HandShufflesAlike
<1>6. CASE a \in Confirms(w)
  BY <1>1, <1>2, <1>6, ConfirmsAlike
<1>7. CASE a \in Turns(w)
  BY <1>1, <1>2, <1>7, TurnsAlike
<1>8. CASE a \in Leaves(w)
  BY <1>1, <1>2, <1>8, LeavesAlike
<1>9. CASE a \in SetShuffles(w)
  BY <1>9, SetShufflesProper
<1>10. CASE a \in TakesControl(w)
  BY <1>1, <1>2, <1>10, ControlAlike
<1>11. CASE a \in Attaches(w)
  BY <1>1, <1>2, <1>11, AttachesAlike
<1>12. CASE a \in Aims(w)
  BY <1>1, <1>2, <1>12, AimsAlike
<1>13. CASE a \in Activates(w)
  BY <1>1, <1>2, <1>13, ActivatesAlike
<1>14. CASE a \in Resolutions(w)
  BY <1>1, <1>2, <1>14, ResolutionsAlike
<1>15. CASE a \in Passes(w)
  BY <1>1, <1>2, <1>15, PassesAlike
<1>16. \/ a \in Draws(w) \/ a \in Plays(w) \/ a \in HandShuffles(w) \/ a \in Confirms(w)
       \/ a \in Turns(w) \/ a \in Leaves(w) \/ a \in SetShuffles(w) \/ a \in TakesControl(w)
       \/ a \in Attaches(w) \/ a \in Aims(w) \/ a \in Activates(w) \/ a \in Resolutions(w)
       \/ a \in Passes(w)
  BY DEF EngineMoves
<1> QED
  BY <1>3, <1>4, <1>5, <1>6, <1>7, <1>8, <1>9, <1>10, <1>11, <1>12, <1>13, <1>14, <1>15, <1>16

(* Both fields are always ones the engine can be in.                        *)
ProperInv == \A d \in Duels : Proper(world[d])

(* They are when the duels start,                                           *)
LEMMA ProperStarts ==
    Init => ProperInv
<1>1. ASSUME Init
      PROVE  ProperInv
  <2>1. PICK start \in Starts : world = start
    BY <1>1 DEF Init
  <2>2. \A d \in Duels : Proper(start[d])
    BY StartsAssumption
  <2> QED
    BY <2>1, <2>2 DEF ProperInv
<1> QED
  BY <1>1

(* and after every move, of which player 0 need not see the same.           *)
LEMMA ProperStep ==
    ASSUME ProperInv, Move
    PROVE  ProperInv'
<1>1. PICK w, v : w = world[1] /\ v = world[2]
  OBVIOUS
<1>2. Proper(w) /\ Proper(v)
  BY <1>1 DEF ProperInv, Duels
<1>3. PICK a \in EngineMoves(w) : \E b \in EngineMoves(v) : world' = <<a.field, b.field>>
  BY <1>1 DEF Move
<1>4. PICK b \in EngineMoves(v) : world' = <<a.field, b.field>>
  BY <1>3
<1>5. Proper(a.field) /\ Proper(b.field)
  BY <1>2, MovesAreProper
<1>6. PICK x, y : x = a.field /\ y = b.field
  OBVIOUS
<1>7. world'[1] = x /\ world'[2] = y
  BY <1>4, <1>6
<1>8. \A d \in Duels : d = 1 \/ d = 2
  BY DEF Duels
<1>9. Proper(world'[1]) /\ Proper(world'[2])
  BY <1>5, <1>6, <1>7
<1> QED
  BY <1>8, <1>9 DEF ProperInv

(* Both fields are always proper, also when set cards of two owners are     *)
(* shuffled together.                                                       *)
THEOREM FieldsStayProper ==
    Spec => []ProperInv
<1>1. Init => ProperInv
  BY ProperStarts
<1>2. ProperInv /\ [Move]_vars => ProperInv'
  <2>1. ProperInv /\ Move => ProperInv'
    BY ProperStep
  <2>2. ProperInv /\ UNCHANGED vars => ProperInv'
    BY DEF ProperInv, vars
  <2> QED
    BY <2>1, <2>2
<1> QED
  BY <1>1, <1>2, PTL DEF Spec

============================================================================
