-------------------------- MODULE ArgumentsProofs --------------------------
(***************************************************************************)
(* What reorder and the flag parser make of a line, for any command and    *)
(* any line: facts about positions in a line and about single steps.       *)
(* InvocationProofs puts the steps together.                               *)
(***************************************************************************)
EXTENDS Arguments, SequenceTheorems, FiniteSetTheorems, TLAPS

-----------------------------------------------------------------------------
(* Positions in order *)

\* f goes through the numbers of S in order.
Ascending(f, S) ==
  /\ f \in Seq(Nat)
  /\ \A i, j \in 1..Len(f) : i < j => f[i] < f[j]
  /\ S = {f[i] : i \in 1..Len(f)}

LEMMA AscendingEmpty == Ascending(<<>>, {})
BY DEF Ascending

LEMMA AscendingAppend ==
  ASSUME NEW f, NEW S, Ascending(f, S), NEW k \in Nat, \A i \in S : i < k
  PROVE  Ascending(Append(f, k), S \cup {k})
<1> DEFINE n == Len(f)
           g == Append(f, k)
<1>1. f \in Seq(Nat) /\ n \in Nat /\ g \in Seq(Nat) /\ Len(g) = n + 1
      /\ (\A i \in 1..n : g[i] = f[i]) /\ g[n + 1] = k
  BY AppendProperties DEF Ascending
<1>2. (\A i, j \in 1..n : i < j => f[i] < f[j]) /\ S = {f[i] : i \in 1..n}
  BY DEF Ascending
<1> HIDE DEF n, g
<1>3. \A i \in 1..(n + 1) : i \in 1..n \/ i = n + 1
  BY <1>1
<1>4. \A i \in 1..n : i \in 1..(n + 1) /\ i < n + 1 /\ n + 1 \in 1..(n + 1)
  BY <1>1
<1>5. ASSUME NEW i \in 1..(n + 1), NEW j \in 1..(n + 1), i < j PROVE g[i] < g[j]
  <2>1. i \in 1..n
    BY <1>1, <1>5
  <2>2. CASE j \in 1..n
    BY <1>1, <1>2, <1>5, <2>1, <2>2
  <2>3. CASE j = n + 1
    <3>1. f[i] \in S
      BY <1>2, <2>1
    <3> QED BY <1>1, <2>1, <2>3, <3>1
  <2> QED BY <1>3, <2>2, <2>3
<1>6. S \cup {k} = {g[i] : i \in 1..(n + 1)}
  <2>1. ASSUME NEW x \in S \cup {k} PROVE x \in {g[i] : i \in 1..(n + 1)}
    <3>1. CASE x = k
      <4>1. n + 1 \in 1..(n + 1)
        BY <1>1
      <4> QED BY <1>1, <3>1, <4>1
    <3>2. CASE x \in S
      <4>1. PICK i \in 1..n : x = f[i]
        BY <1>2, <3>2
      <4> QED BY <1>1, <1>4, <4>1
    <3> QED BY <3>1, <3>2
  <2>2. ASSUME NEW i \in 1..(n + 1) PROVE g[i] \in S \cup {k}
    <3>1. CASE i \in 1..n
      BY <1>1, <1>2, <3>1
    <3>2. CASE i = n + 1
      BY <1>1, <3>2
    <3> QED BY <1>3, <3>1, <3>2
  <2> QED BY <2>1, <2>2
<1> QED BY <1>1, <1>5, <1>6 DEF Ascending, n, g

\* There is one way to go through a set in order, and Pick finds it.
LEMMA PickIs ==
  ASSUME NEW f, NEW S, Ascending(f, S) PROVE Pick(S) = f
<1> DEFINE n == Len(f)
<1>1. f \in Seq(Nat) /\ n \in Nat /\ (\A i \in 1..n : f[i] \in Nat)
      /\ f = [i \in 1..n |-> f[i]]
  BY DEF Ascending
<1>2. (\A i, j \in 1..n : i < j => f[i] < f[j]) /\ S = {f[i] : i \in 1..n}
  BY DEF Ascending
<1> HIDE DEF n
<1>3. \A i, j \in 1..n : f[j] <= f[i] <=> j <= i
  <2>1. ASSUME NEW i \in 1..n, NEW j \in 1..n PROVE f[j] <= f[i] <=> j <= i
    <3>1. CASE i < j
      <4>1. f[i] < f[j] /\ f[i] \in Nat /\ f[j] \in Nat
        BY <1>1, <1>2, <3>1
      <4> QED BY <3>1, <4>1
    <3>2. CASE j < i
      <4>1. f[j] < f[i] /\ f[i] \in Nat /\ f[j] \in Nat
        BY <1>1, <1>2, <3>2
      <4> QED BY <3>2, <4>1
    <3>3. CASE j = i
      BY <1>1, <3>3
    <3> QED BY <3>1, <3>2, <3>3
  <2> QED BY <2>1
<1>4. ASSUME NEW k \in 1..n PROVE Cardinality({j \in S : j <= f[k]}) = k
  <2> DEFINE T == {j \in S : j <= f[k]}
             h == [i \in 1..k |-> f[i]]
  <2>1. k \in Nat /\ \A i \in 1..k : i \in 1..n /\ i <= k
    BY <1>1
  <2>2. \A i \in 1..k : h[i] = f[i] /\ f[i] \in T
    BY <1>2, <1>3, <2>1
  <2>3. \A t \in T : \E i \in 1..k : f[i] = t
    <3>1. ASSUME NEW t \in T PROVE \E i \in 1..k : f[i] = t
      <4>1. PICK i \in 1..n : t = f[i]
        BY <1>2
      <4>2. i <= k
        BY <1>3, <4>1
      <4>3. i \in 1..k
        BY <4>2
      <4> QED BY <4>1, <4>3
    <3> QED BY <3>1
  <2> HIDE DEF T
  <2>4. \A i, j \in 1..k : f[i] = f[j] => i = j
    <3>1. \A i, j \in 1..k : f[i] = f[j] => i <= j /\ j <= i
      <4>1. \A i, j \in 1..k : f[i] = f[j] => f[i] <= f[j] /\ f[j] <= f[i]
        BY <1>1, <2>1
      <4> QED BY <1>3, <2>1, <4>1
    <3> QED BY <3>1
  <2>5. h \in Bijection(1..k, T)
    BY <2>2, <2>3, <2>4 DEF Bijection, Injection, Surjection, IsInjective
  <2> HIDE DEF h
  <2>6. ExistsBijection(1..k, T)
    BY <2>5 DEF ExistsBijection
  <2> QED BY <2>1, <2>6, FS_CountingElements DEF T
<1>5. Cardinality(S) = n
  <2>1. CASE n = 0
    <3>1. S = {}
      BY <1>2, <2>1
    <3> QED BY <2>1, <3>1, FS_EmptySet
  <2>2. CASE n # 0
    <3>1. n \in 1..n
      BY <1>1, <2>2
    <3>2. \A i \in 1..n : i <= n
      BY <1>1
    <3>3. \A s \in S : s <= f[n]
      BY <1>2, <1>3, <3>1, <3>2
    <3>4. {j \in S : j <= f[n]} = S
      BY <3>3
    <3> QED BY <1>4, <3>1, <3>4
  <2> QED BY <2>1, <2>2
<1>6. ASSUME NEW k \in 1..n
      PROVE  (CHOOSE i \in S : Cardinality({j \in S : j <= i}) = k) = f[k]
  <2>1. f[k] \in S /\ Cardinality({j \in S : j <= f[k]}) = k
    BY <1>2, <1>4
  <2>2. ASSUME NEW i \in S, Cardinality({j \in S : j <= i}) = k PROVE i = f[k]
    <3>1. PICK m \in 1..n : i = f[m]
      BY <1>2
    <3>2. Cardinality({j \in S : j <= i}) = m
      BY <1>4, <3>1
    <3> QED BY <2>2, <3>1, <3>2
  <2> QED BY <2>1, <2>2
<1>7. Pick(S) = [k \in 1..n |-> CHOOSE i \in S : Cardinality({j \in S : j <= i}) = k]
  BY <1>5 DEF Pick
<1>8. Pick(S) = [k \in 1..n |-> f[k]]
  BY <1>6, <1>7
<1> QED BY <1>1, <1>8

-----------------------------------------------------------------------------
(* The line, read from left to right *)

\* The definitions of Arguments, of any command and any line.
Takes(c, x) == x.value = NoValue /\ x.name \in ValueFlags[c]

ValueOf(c, w) ==
  LET value[i \in 0..Len(w)] ==
        i > 1 /\ ~value[i - 1] /\ IsOption(w[i - 1]) /\ Takes(c, w[i - 1])
  IN  value

LEMMA SameValue == IsValue = ValueOf(command, args)
BY DEF IsValue, ValueOf, Takes, TakesNext

\* A set of natural numbers has a least element.
LEMMA Least ==
  ASSUME NEW S \in SUBSET Nat, S # {}
  PROVE  \E m \in S : \A t \in S : m <= t
<1>1. IsWellFoundedOn(OpToRel(<, Nat), Nat)
  BY NatLessThanWellFounded
<1>2. PICK m \in S : \A t \in S : ~(<<t, m>> \in OpToRel(<, Nat))
  BY <1>1, WFMin
<1>3. \A t \in S : ~(t < m)
  BY <1>2 DEF OpToRel
<1> QED BY <1>3

\* Whether a word is a value depends on the word before it alone, so that the
\* recursion has a solution.
LEMMA ValueExists ==
  ASSUME NEW T, NEW n \in Nat
  PROVE  \E v \in [0..n -> BOOLEAN] :
           \A i \in 0..n : v[i] <=> i > 1 /\ ~v[i - 1] /\ i - 1 \in T
<1> DEFINE Good(v, k) == /\ v \in [0..k -> BOOLEAN]
                         /\ \A i \in 0..k : v[i] <=> i > 1 /\ ~v[i - 1] /\ i - 1 \in T
           Bad == {k \in Nat : ~ \E v : Good(v, k)}
<1>1. Bad = {}
  <2> SUFFICES ASSUME Bad # {} PROVE FALSE
    OBVIOUS
  <2>1. PICK k \in Bad : \A j \in Bad : k <= j
    BY Least
  <2>2. k # 0
    <3>1. [i \in 0..0 |-> FALSE] \in [0..0 -> BOOLEAN]
      OBVIOUS
    <3>2. \A i \in 0..0 : ~(i > 1)
      OBVIOUS
    <3>3. Good([i \in 0..0 |-> FALSE], 0)
      BY <3>1, <3>2
    <3> QED BY <3>3
  <2>3. k \in Nat /\ k - 1 \in Nat /\ k - 1 \notin Bad
    BY <2>1, <2>2
  <2>4. PICK v : Good(v, k - 1)
    BY <2>3
  <2> DEFINE u == [i \in 0..k |-> IF i = k THEN k > 1 /\ ~v[k - 1] /\ k - 1 \in T ELSE v[i]]
  <2>5. \A i \in 0..k : i = k \/ (i \in 0..(k - 1) /\ i # k /\ i - 1 # k)
    BY <2>3
  <2>6. \A i \in 0..k : u[i] \in BOOLEAN
    BY <2>4, <2>5
  <2>7. \A i \in 0..k : i > 1 => i - 1 \in 0..k /\ i - 1 \in 0..(k - 1) /\ i - 1 # k
    BY <2>3
  <2>8. \A i \in 0..k : i > 1 => (u[i - 1] <=> v[i - 1])
    BY <2>7
  <2>9. \A i \in 0..k : u[i] <=> i > 1 /\ ~u[i - 1] /\ i - 1 \in T
    <3>1. ASSUME NEW i \in 0..k PROVE u[i] <=> i > 1 /\ ~u[i - 1] /\ i - 1 \in T
      <4>1. CASE i = k
        <5>1. u[i] <=> k > 1 /\ ~v[k - 1] /\ k - 1 \in T
          BY <4>1
        <5>2. k > 1 => (u[k - 1] <=> v[k - 1])
          BY <2>8, <4>1
        <5> HIDE DEF u
        <5> QED BY <4>1, <5>1, <5>2
      <4>2. CASE i # k
        <5>1. i \in 0..(k - 1) /\ (u[i] <=> v[i])
          BY <2>5, <4>2
        <5>2. v[i] <=> i > 1 /\ ~v[i - 1] /\ i - 1 \in T
          BY <2>4, <5>1
        <5>3. i > 1 => (u[i - 1] <=> v[i - 1])
          BY <2>8
        <5> HIDE DEF u
        <5> QED BY <5>1, <5>2, <5>3
      <4> QED BY <4>1, <4>2
    <3> QED BY <3>1
  <2>10. u \in [0..k -> BOOLEAN]
    <3>1. u = [i \in 0..k |-> u[i]]
      OBVIOUS
    <3> HIDE DEF u
    <3> QED BY <2>6, <3>1
  <2>11. Good(u, k)
    <3> HIDE DEF u
    <3> QED BY <2>9, <2>10
  <2> QED BY <2>1, <2>11
<1>2. PICK v : Good(v, n)
  BY <1>1
<1> QED BY <1>2

\* What IsValue says, word by word.
LEMMA ValueFacts ==
  ASSUME NEW c, NEW W, NEW w \in Seq(W)
  PROVE  \A i \in 0..Len(w) :
           ValueOf(c, w)[i] <=> /\ i > 1 /\ ~ValueOf(c, w)[i - 1]
                                /\ IsOption(w[i - 1]) /\ Takes(c, w[i - 1])
<1> DEFINE n == Len(w)
           T == {j \in 0..n : IsOption(w[j]) /\ Takes(c, w[j])}
           D(v) == [i \in 0..n |-> i > 1 /\ ~v[i - 1] /\ IsOption(w[i - 1]) /\ Takes(c, w[i - 1])]
<1>1. n \in Nat
  OBVIOUS
<1>2. PICK v \in [0..n -> BOOLEAN] :
        \A i \in 0..n : v[i] <=> i > 1 /\ ~v[i - 1] /\ i - 1 \in T
  <2> HIDE DEF n, T
  <2> QED BY <1>1, ValueExists
<1>3. \A i \in 0..n : i > 1 => (i - 1 \in T <=> IsOption(w[i - 1]) /\ Takes(c, w[i - 1]))
  BY <1>1
<1>4. v = D(v)
  <2> HIDE DEF T
  <2>1. v = [i \in 0..n |-> v[i]] /\ \A i \in 0..n : v[i] \in BOOLEAN
    BY <1>2
  <2>2. \A i \in 0..n : v[i] = (i > 1 /\ ~v[i - 1] /\ IsOption(w[i - 1]) /\ Takes(c, w[i - 1]))
    BY <1>2, <1>3, <2>1
  <2> QED BY <2>1, <2>2
<1>5. ValueOf(c, w) = CHOOSE u : u = D(u)
  BY DEF ValueOf
<1>6. ValueOf(c, w) = D(ValueOf(c, w))
  <2> HIDE DEF D, T, n
  <2> QED BY <1>4, <1>5
<1> QED BY <1>6

Ends(c, w) ==
  {i \in DOMAIN w : w[i] = Terminator /\ ~ValueOf(c, w)[i]} \cup {Len(w) + 1}

EndOf(c, w) == CHOOSE i \in Ends(c, w) : \A j \in Ends(c, w) : i <= j

LEMMA SameEnd == EndOfFlags = EndOf(command, args)
BY SameValue DEF EndOfFlags, EndOf, Ends

LEMMA EndFacts ==
  ASSUME NEW c, NEW W, NEW w \in Seq(W)
  PROVE  /\ EndOf(c, w) \in 1..(Len(w) + 1)
         /\ \A i \in 1..(EndOf(c, w) - 1) : w[i] = Terminator => ValueOf(c, w)[i]
         /\ EndOf(c, w) <= Len(w) =>
              w[EndOf(c, w)] = Terminator /\ ~ValueOf(c, w)[EndOf(c, w)]
<1> DEFINE n == Len(w)
           E == Ends(c, w)
           e == EndOf(c, w)
<1>1. n \in Nat /\ DOMAIN w = 1..n
  OBVIOUS
<1>2. E \in SUBSET Nat /\ E # {} /\ E \subseteq 1..(n + 1)
  BY <1>1 DEF Ends
<1>3. e \in E /\ \A j \in E : e <= j
  BY <1>2, Least DEF EndOf
<1>4. ASSUME NEW i \in 1..(e - 1), w[i] = Terminator PROVE ValueOf(c, w)[i]
  <2>1. i \in 1..n /\ i < e
    BY <1>1, <1>2, <1>3
  <2>2. i \notin E
    BY <1>2, <1>3, <2>1
  <2> QED BY <1>1, <1>4, <2>1, <2>2 DEF Ends
<1>5. ASSUME e <= n PROVE w[e] = Terminator /\ ~ValueOf(c, w)[e]
  BY <1>1, <1>2, <1>3, <1>5 DEF Ends
<1> QED BY <1>2, <1>3, <1>4, <1>5

\* Where the end is, once it has been found.
LEMMA EndIs ==
  ASSUME NEW c, NEW W, NEW w \in Seq(W), NEW k \in 0..Len(w),
         \A i \in 1..k : w[i] = Terminator => ValueOf(c, w)[i],
         k < Len(w) => w[k + 1] = Terminator /\ ~ValueOf(c, w)[k + 1]
  PROVE  EndOf(c, w) = k + 1
<1> DEFINE n == Len(w)
           e == EndOf(c, w)
<1>1. n \in Nat /\ DOMAIN w = 1..n /\ k \in Nat /\ k <= n
  OBVIOUS
<1>2. e \in 1..(n + 1)
      /\ (\A i \in 1..(e - 1) : w[i] = Terminator => ValueOf(c, w)[i])
      /\ (e <= n => w[e] = Terminator /\ ~ValueOf(c, w)[e])
  BY EndFacts
<1> HIDE DEF e, n
<1>3. ASSUME e <= k PROVE FALSE
  <2>1. e \in 1..k /\ e <= n
    BY <1>1, <1>2, <1>3
  <2> QED BY <1>2, <2>1
<1>4. ASSUME e > k + 1 PROVE FALSE
  <2>1. k < n /\ k + 1 \in 1..(e - 1)
    BY <1>1, <1>2, <1>4
  <2> QED BY <1>2, <2>1 DEF n
<1>5. e = k + 1
  BY <1>1, <1>2, <1>3, <1>4
<1> QED BY <1>5 DEF e

-----------------------------------------------------------------------------
(* Parts of a line *)

\* s is what G has at the positions S, in order.
Chosen(s, G, S) == \E f : Ascending(f, S) /\ s = [j \in 1..Len(f) |-> G[f[j]]]

LEMMA ChosenEmpty == ASSUME NEW G PROVE Chosen(<<>>, G, {})
<1>1. Ascending(<<>>, {}) /\ <<>> = [j \in 1..Len(<<>>) |-> G[<<>>[j]]]
  BY AscendingEmpty
<1> QED BY <1>1 DEF Chosen

LEMMA ChosenAppend ==
  ASSUME NEW n \in Nat, NEW R, NEW G \in [1..n -> R], NEW s, NEW S \in SUBSET (1..n),
         Chosen(s, G, S), NEW k \in 1..n, \A i \in S : i < k
  PROVE  Chosen(Append(s, G[k]), G, S \cup {k})
<1>1. PICK f : Ascending(f, S) /\ s = [j \in 1..Len(f) |-> G[f[j]]]
  BY DEF Chosen
<1> DEFINE m == Len(f)
           g == Append(f, k)
<1>2. Ascending(g, S \cup {k})
  <2>1. k \in Nat
    OBVIOUS
  <2> QED BY <1>1, <2>1, AscendingAppend
<1>3. m \in Nat /\ Len(g) = m + 1 /\ g[m + 1] = k /\ \A j \in 1..m : g[j] = f[j] /\ f[j] \in 1..n
  BY <1>1, AppendProperties DEF Ascending
<1>4. s \in Seq(R) /\ Len(s) = m /\ \A j \in 1..m : s[j] = G[f[j]]
  <2> HIDE DEF m
  <2>1. s = [j \in 1..m |-> G[f[j]]]
    BY <1>1 DEF m
  <2>2. \A j \in 1..m : G[f[j]] \in R
    BY <1>3
  <2> QED BY <1>3, <2>1, <2>2
<1>5. G[k] \in R
  OBVIOUS
<1>6. Append(s, G[k]) = [j \in 1..(m + 1) |-> G[g[j]]]
  <2> HIDE DEF m, g
  <2> DEFINE t == [j \in 1..(m + 1) |-> G[g[j]]]
  <2>1. \A j \in 1..(m + 1) : j \in 1..m \/ j = m + 1
    BY <1>3
  <2>2. \A j \in 1..(m + 1) : G[g[j]] \in R
    BY <1>3, <1>5, <2>1
  <2>3. t \in Seq(R) /\ Len(t) = m + 1
    BY <1>3, <2>2
  <2>4. Append(s, G[k]) \in Seq(R) /\ Len(Append(s, G[k])) = m + 1
        /\ (\A j \in 1..m : Append(s, G[k])[j] = s[j]) /\ Append(s, G[k])[m + 1] = G[k]
    BY <1>4, <1>5, AppendProperties
  <2>5. \A j \in 1..(m + 1) : Append(s, G[k])[j] = t[j]
    BY <1>3, <1>4, <2>1, <2>4
  <2> HIDE DEF t
  <2>6. Append(s, G[k]) = t
    BY <2>3, <2>4, <2>5, SeqEqual
  <2> QED BY <2>6 DEF t
<1> QED BY <1>2, <1>3, <1>6 DEF Chosen

LEMMA ChosenIs ==
  ASSUME NEW s, NEW G, NEW S, Chosen(s, G, S)
  PROVE  s = [i \in DOMAIN Pick(S) |-> G[Pick(S)[i]]]
<1>1. PICK f : Ascending(f, S) /\ s = [j \in 1..Len(f) |-> G[f[j]]]
  BY DEF Chosen
<1>2. Pick(S) = f /\ DOMAIN f = 1..Len(f)
  BY <1>1, PickIs DEF Ascending
<1> QED BY <1>1, <1>2

\* The rest of a line, after what was chosen before it.
LEMMA ChosenRest ==
  ASSUME NEW R, NEW w \in Seq(R), NEW s, NEW k \in 1..(Len(w) + 1), NEW S \in SUBSET (1..(k - 1)),
         Chosen(s, w, S)
  PROVE  Chosen(s \o From(w, k), w, S \cup k..Len(w))
<1>1. PICK f : Ascending(f, S) /\ s = [j \in 1..Len(f) |-> w[f[j]]]
  BY DEF Chosen
<1> DEFINE n == Len(w)
           m == Len(f)
           r == n - k + 1
           g == [j \in 1..(m + r) |-> IF j <= m THEN f[j] ELSE k + (j - m) - 1]
<1>2. n \in Nat /\ k \in Nat /\ 1 <= k /\ k <= n + 1 /\ r \in Nat
  OBVIOUS
<1>3. f \in Seq(Nat) /\ m \in Nat /\ (\A i, j \in 1..m : i < j => f[i] < f[j])
      /\ S = {f[i] : i \in 1..m}
  BY <1>1 DEF Ascending
<1>4. \A j \in 1..m : f[j] \in Nat /\ 1 <= f[j] /\ f[j] < k /\ f[j] <= n
  <2> HIDE DEF m, n
  <2>1. \A j \in 1..m : f[j] \in 1..(k - 1)
    BY <1>3
  <2> QED BY <1>2, <2>1
<1>5. m + r \in Nat /\ \A j \in 1..(m + r) : j \in 1..m \/ (j > m /\ j - m \in 1..r)
  <2> HIDE DEF m, r
  <2> QED BY <1>2, <1>3
<1>6. \A j \in 1..(m + r) : /\ j \in 1..m => g[j] = f[j]
                            /\ j > m => g[j] = k + (j - m) - 1
  <2> HIDE DEF m, r
  <2> QED BY <1>2, <1>3
<1>7. \A j \in 1..(m + r) : g[j] \in Nat /\ g[j] \in 1..n
  <2>1. \A i \in 1..r : k + i - 1 \in 1..n /\ k + i - 1 \in Nat
    BY <1>2
  <2> HIDE DEF g, n, m, r
  <2> QED BY <1>4, <1>5, <1>6, <2>1
<1>8. g \in Seq(Nat) /\ Len(g) = m + r
  <2>1. g = [j \in 1..(m + r) |-> g[j]]
    OBVIOUS
  <2>2. \A j \in 1..(m + r) : g[j] \in Nat
    BY <1>7
  <2>3. ASSUME NEW N \in Nat, NEW h, h = [j \in 1..N |-> h[j]], \A j \in 1..N : h[j] \in Nat
        PROVE  h \in Seq(Nat) /\ Len(h) = N
    BY <2>3
  <2> HIDE DEF g, m, r
  <2> QED BY <1>5, <2>1, <2>2, <2>3
<1>9. \A i, j \in 1..(m + r) : i < j => g[i] < g[j]
  <2> SUFFICES ASSUME NEW i \in 1..(m + r), NEW j \in 1..(m + r), i < j PROVE g[i] < g[j]
    OBVIOUS
  <2> HIDE DEF g, n, m, r
  <2>1. CASE j \in 1..m
    <3>1. i \in 1..m
      BY <1>3, <1>5, <2>1
    <3> QED BY <1>3, <1>6, <2>1, <3>1
  <2>2. CASE j > m /\ i \in 1..m
    <3>1. g[i] = f[i] /\ f[i] < k /\ f[i] \in Nat
      BY <1>4, <1>6, <2>2
    <3>2. g[j] = k + (j - m) - 1 /\ j - m \in 1..r
      BY <1>3, <1>5, <1>6, <2>2
    <3> QED BY <1>2, <3>1, <3>2
  <2>3. CASE j > m /\ i > m
    <3>1. g[i] = k + (i - m) - 1 /\ g[j] = k + (j - m) - 1
      BY <1>6, <2>3
    <3> QED BY <1>2, <1>3, <1>5, <3>1
  <2>4. i \in 1..m \/ i > m
    BY <1>5
  <2> QED BY <1>5, <2>1, <2>2, <2>3, <2>4
<1>10. S \cup k..n = {g[i] : i \in 1..(m + r)}
  <2>1. ASSUME NEW x \in S PROVE x \in {g[i] : i \in 1..(m + r)}
    <3>1. PICK i \in 1..m : x = f[i]
      BY <1>3, <2>1
    <3>2. i \in 1..(m + r)
      BY <1>2, <1>3
    <3> HIDE DEF g, m, r
    <3> QED BY <1>6, <3>1, <3>2
  <2>2. ASSUME NEW x \in k..n PROVE x \in {g[i] : i \in 1..(m + r)}
    <3>1. m + (x - k + 1) \in 1..(m + r) /\ m + (x - k + 1) > m
      BY <1>2, <1>3
    <3>2. g[m + (x - k + 1)] = k + ((m + (x - k + 1)) - m) - 1
      <4> HIDE DEF g
      <4> QED BY <1>6, <3>1
    <3>3. k + ((m + (x - k + 1)) - m) - 1 = x
      BY <1>2, <1>3
    <3> HIDE DEF g
    <3> QED BY <3>1, <3>2, <3>3
  <2>3. ASSUME NEW i \in 1..(m + r) PROVE g[i] \in S \cup k..n
    <3> HIDE DEF g
    <3>1. CASE i \in 1..m
      BY <1>3, <1>6, <3>1
    <3>2. CASE i > m /\ i - m \in 1..r
      <4>1. g[i] = k + (i - m) - 1
        BY <1>6, <3>2
      <4>2. \A x \in 1..r : k + x - 1 \in k..n
        BY <1>2
      <4> QED BY <3>2, <4>1, <4>2
    <3> QED BY <1>5, <3>1, <3>2
  <2> HIDE DEF g, m, r, n
  <2> QED BY <2>1, <2>2, <2>3
<1>11. s \in Seq(R) /\ Len(s) = m /\ \A j \in 1..m : s[j] = w[f[j]]
  <2>1. s = [j \in 1..m |-> w[f[j]]]
    BY <1>1
  <2>2. \A j \in 1..m : w[f[j]] \in R
    <3> HIDE DEF m
    <3> QED BY <1>4
  <2> HIDE DEF m
  <2> QED BY <1>3, <2>1, <2>2
<1>12. From(w, k) \in Seq(R) /\ Len(From(w, k)) = r
       /\ \A i \in 1..r : From(w, k)[i] = w[k + i - 1]
  <2>1. \A i \in k..n : w[i] \in R
    BY <1>2
  <2>2. SubSeq(w, k, n) \in Seq(R) /\ Len(SubSeq(w, k, n)) = (IF k <= n THEN n - k + 1 ELSE 0)
        /\ \A i \in 1..(n - k + 1) : SubSeq(w, k, n)[i] = w[k + i - 1]
    <3> HIDE DEF n
    <3> QED BY <1>2, <2>1, SubSeqProperties
  <2>3. (IF k <= n THEN n - k + 1 ELSE 0) = n - k + 1
    BY <1>2
  <2> QED BY <2>2, <2>3 DEF From
<1>13. s \o From(w, k) = [j \in 1..(m + r) |-> w[g[j]]]
  <2> DEFINE u == s \o From(w, k)
             t == [j \in 1..(m + r) |-> w[g[j]]]
  <2>1. u \in Seq(R) /\ Len(u) = m + r
        /\ \A j \in 1..(m + r) : u[j] = IF j <= m THEN s[j] ELSE From(w, k)[j - m]
    <3> HIDE DEF m, r
    <3> QED BY <1>11, <1>12, ConcatProperties
  <2>2. t \in Seq(R) /\ Len(t) = m + r
    <3> HIDE DEF g, m, r
    <3>1. \A j \in 1..(m + r) : w[g[j]] \in R
      BY <1>7
    <3> QED BY <1>5, <3>1
  <2>3. \A j \in 1..(m + r) : t[j] = w[g[j]]
    OBVIOUS
  <2>4. \A j \in 1..(m + r) : u[j] = t[j]
    <3> SUFFICES ASSUME NEW j \in 1..(m + r) PROVE u[j] = t[j]
      OBVIOUS
    <3> HIDE DEF g, m, r, u, t
    <3>1. CASE j \in 1..m
      <4>1. j <= m
        BY <1>3, <3>1
      <4> QED BY <1>6, <1>11, <2>1, <2>3, <3>1, <4>1, SMTT(20)
    <3>2. CASE j > m /\ j - m \in 1..r
      <4>1. ~(j <= m)
        BY <1>3, <3>2
      <4>2. u[j] = w[k + (j - m) - 1]
        BY <1>12, <2>1, <3>2, <4>1
      <4> QED BY <1>6, <2>3, <3>2, <4>2
    <3> QED BY <1>5, <3>1, <3>2
  <2> HIDE DEF u, t, g, m, r
  <2>5. u = t
    BY <2>1, <2>2, <2>4, SeqEqual
  <2> QED BY <2>5 DEF u, t
<1>14. Ascending(g, S \cup k..n)
  <2> HIDE DEF g, m, r, n
  <2> QED BY <1>8, <1>9, <1>10 DEF Ascending
<1>15. s \o From(w, k) = [j \in 1..Len(g) |-> w[g[j]]]
  <2> HIDE DEF g, m, r
  <2> QED BY <1>8, <1>13
<1> HIDE DEF g
<1> QED BY <1>14, <1>15 DEF Chosen

LEMMA ChosenType ==
  ASSUME NEW R, NEW w \in Seq(R), NEW s, NEW S \in SUBSET (1..Len(w)), Chosen(s, w, S)
  PROVE  s \in Seq(R)
<1>1. PICK f : Ascending(f, S) /\ s = [j \in 1..Len(f) |-> w[f[j]]]
  BY DEF Chosen
<1>2. Len(f) \in Nat /\ \A j \in 1..Len(f) : f[j] \in 1..Len(w)
  BY <1>1 DEF Ascending
<1>3. \A j \in 1..Len(f) : w[f[j]] \in R
  BY <1>2
<1>4. ASSUME NEW N \in Nat, NEW h, h = [j \in 1..N |-> w[f[j]]], \A j \in 1..N : w[f[j]] \in R
      PROVE  h \in Seq(R)
  BY <1>4
<1> QED BY <1>1, <1>2, <1>3, <1>4

LEMMA FromFacts ==
  ASSUME NEW R, NEW w \in Seq(R), NEW k \in 0..Len(w)
  PROVE  /\ From(w, k + 1) \in Seq(R) /\ Len(From(w, k + 1)) = Len(w) - k
         /\ \A j \in 1..(Len(w) - k) : From(w, k + 1)[j] = w[k + j]
         /\ From(w, k + 1) = <<>> <=> k = Len(w)
         /\ k < Len(w) => Head(From(w, k + 1)) = w[k + 1] /\ Tail(From(w, k + 1)) = From(w, k + 2)
         /\ \A m \in 1..(Len(w) - k) : From(From(w, k + 1), m + 1) = From(w, k + m + 1)
<1> DEFINE n == Len(w)
           t == From(w, k + 1)
<1>1. n \in Nat /\ k \in Nat /\ k <= n /\ n - k \in Nat
  OBVIOUS
<1>2. ASSUME NEW p \in 0..n
      PROVE  /\ From(w, p + 1) \in Seq(R) /\ Len(From(w, p + 1)) = n - p
             /\ \A j \in 1..(n - p) : From(w, p + 1)[j] = w[p + j]
  <2>1. \A i \in (p + 1)..n : w[i] \in R
    BY <1>1
  <2>2. p + 1 \in Int /\ n \in Int /\ n - (p + 1) + 1 = n - p
        /\ (IF p + 1 <= n THEN n - (p + 1) + 1 ELSE 0) = n - p
    BY <1>1
  <2> HIDE DEF n
  <2>3. SubSeq(w, p + 1, n) \in Seq(R)
        /\ Len(SubSeq(w, p + 1, n)) = (IF p + 1 <= n THEN n - (p + 1) + 1 ELSE 0)
        /\ \A i \in 1..(n - (p + 1) + 1) : SubSeq(w, p + 1, n)[i] = w[(p + 1) + i - 1]
    BY <2>1, <2>2, SubSeqProperties
  <2>4. \A i \in 1..(n - p) : (p + 1) + i - 1 = p + i
    BY <1>1
  <2> QED BY <2>2, <2>3, <2>4 DEF From, n
<1>3. t \in Seq(R) /\ Len(t) = n - k /\ \A j \in 1..(n - k) : t[j] = w[k + j]
  BY <1>2
<1>4. t = <<>> <=> k = n
  <2> HIDE DEF t, n
  <2>1. t = <<>> <=> Len(t) = 0
    BY <1>3, EmptySeq
  <2> QED BY <1>1, <1>3, <2>1
<1>5. ASSUME NEW m \in 1..(n - k) PROVE From(t, m + 1) = From(w, k + m + 1)
  <2> DEFINE a == From(t, m + 1)
             b == From(w, (k + m) + 1)
  <2>1. k + m \in 0..n /\ n - (k + m) = (n - k) - m /\ (n - k) - m \in Nat
    BY <1>1
  <2>2. b \in Seq(R) /\ Len(b) = n - (k + m) /\ \A j \in 1..(n - (k + m)) : b[j] = w[(k + m) + j]
    <3> HIDE DEF n
    <3> QED BY <1>2, <2>1
  <2>3. \A i \in (m + 1)..(n - k) : i \in 1..(n - k) /\ t[i] \in R
    <3> HIDE DEF t, n
    <3> QED BY <1>1, <1>3
  <2>4. m + 1 \in Int /\ n - k \in Int /\ (n - k) - (m + 1) + 1 = (n - k) - m
        /\ (IF m + 1 <= n - k THEN (n - k) - (m + 1) + 1 ELSE 0) = (n - k) - m
    BY <1>1
  <2>5. a \in Seq(R) /\ Len(a) = (n - k) - m
        /\ \A j \in 1..((n - k) - m) : a[j] = t[(m + 1) + j - 1]
    <3> HIDE DEF t, n
    <3>1. SubSeq(t, m + 1, n - k) \in Seq(R)
          /\ Len(SubSeq(t, m + 1, n - k)) = (IF m + 1 <= n - k THEN (n - k) - (m + 1) + 1 ELSE 0)
          /\ \A j \in 1..((n - k) - (m + 1) + 1) : SubSeq(t, m + 1, n - k)[j] = t[(m + 1) + j - 1]
      BY <2>3, <2>4, SubSeqProperties
    <3> QED BY <1>3, <2>4, <3>1 DEF From
  <2>6. \A j \in 1..((n - k) - m) : a[j] = b[j]
    <3> SUFFICES ASSUME NEW j \in 1..((n - k) - m) PROVE a[j] = b[j]
      OBVIOUS
    <3>1. (m + 1) + j - 1 = m + j /\ m + j \in 1..(n - k) /\ k + (m + j) = (k + m) + j
          /\ j \in 1..(n - (k + m))
      BY <1>1
    <3> HIDE DEF a, b, t, n
    <3>2. a[j] = t[m + j]
      BY <2>5, <3>1
    <3>3. t[m + j] = w[k + (m + j)]
      BY <1>3, <3>1
    <3>4. b[j] = w[(k + m) + j]
      BY <2>2, <3>1
    <3> QED BY <3>1, <3>2, <3>3, <3>4
  <2> HIDE DEF a, b, t, n
  <2>7. a = b
    BY <2>1, <2>2, <2>5, <2>6, SeqEqual
  <2> QED BY <2>7 DEF a, b
<1>6. ASSUME k < n PROVE Head(t) = w[k + 1] /\ Tail(t) = From(w, k + 2)
  <2>1. 1 \in 1..(n - k) /\ t # <<>> /\ k + 1 + 1 = k + 2
    BY <1>1, <1>4, <1>6
  <2>2. Head(t) = t[1] /\ Tail(t) = From(t, 2)
    <3> HIDE DEF t
    <3>1. Tail(t) = SubSeq(t, 2, Len(t))
      BY <1>3, <2>1, TailIsSubSeq
    <3> QED BY <1>3, <2>1, <3>1 DEF From
  <2>3. From(t, 1 + 1) = From(w, k + 1 + 1)
    <3> HIDE DEF t, n
    <3> QED BY <1>5, <2>1
  <2>4. 1 + 1 = 2
    OBVIOUS
  <2>5. t[1] = w[k + 1]
    <3> HIDE DEF t, n
    <3> QED BY <1>3, <2>1
  <2> HIDE DEF t, n
  <2> QED BY <2>1, <2>2, <2>3, <2>4, <2>5
<1> QED BY <1>3, <1>4, <1>5, <1>6

-----------------------------------------------------------------------------
(* Reordering *)

\* Of the first k words, those that reorder moves and those that it does not.
MovesOf(c, w, k) == {i \in 1..k : ValueOf(c, w)[i] \/ IsOption(w[i])}
StaysOf(c, w, k) == {i \in 1..k : ~ValueOf(c, w)[i] /\ ~IsOption(w[i])}

FlagsOf(c, w) == {i \in 1..(EndOf(c, w) - 1) : ~ValueOf(c, w)[i] /\ IsOption(w[i])}

OperandsOf(c, w) ==
  {i \in DOMAIN w : \/ i > EndOf(c, w)
                    \/ i < EndOf(c, w) /\ ~ValueOf(c, w)[i] /\ ~IsOption(w[i])}

\* The words t are left of w, no value is their first and no terminator before
\* them; the words before them are in F or in P.
Moving(c, w, t, F, P) ==
  \E k \in 0..Len(w) :
    /\ t = From(w, k + 1)
    /\ k < Len(w) => ~ValueOf(c, w)[k + 1]
    /\ \A i \in 1..k : w[i] = Terminator => ValueOf(c, w)[i]
    /\ Chosen(F, w, MovesOf(c, w, k)) /\ Chosen(P, w, StaysOf(c, w, k))

AllMoved(c, w, F, P) ==
  Chosen(F, w, MovesOf(c, w, EndOf(c, w) - 1)) /\ Chosen(P, w, OperandsOf(c, w))

LEMMA MovingStarts ==
  ASSUME NEW c, NEW R, NEW w \in Seq(R) PROVE Moving(c, w, w, <<>>, <<>>)
<1>1. 0 \in 0..Len(w) /\ From(w, 0 + 1) = w
  BY SubSeqFull DEF From
<1>2. MovesOf(c, w, 0) = {} /\ StaysOf(c, w, 0) = {}
  BY DEF MovesOf, StaysOf
<1>3. 0 < Len(w) => ~ValueOf(c, w)[0 + 1]
  BY ValueFacts
<1>4. \A i \in 1..0 : FALSE
  OBVIOUS
<1>5. Chosen(<<>>, w, {})
  BY ChosenEmpty
<1> QED BY <1>1, <1>2, <1>3, <1>4, <1>5 DEF Moving

\* One more word.
LEMMA OneMore ==
  ASSUME NEW c, NEW w, NEW k \in Nat
  PROVE  /\ MovesOf(c, w, k + 1) = IF ValueOf(c, w)[k + 1] \/ IsOption(w[k + 1])
                                   THEN MovesOf(c, w, k) \cup {k + 1} ELSE MovesOf(c, w, k)
         /\ StaysOf(c, w, k + 1) = IF ValueOf(c, w)[k + 1] \/ IsOption(w[k + 1])
                                   THEN StaysOf(c, w, k) ELSE StaysOf(c, w, k) \cup {k + 1}
<1>1. \A i : i \in 1..(k + 1) <=> i \in 1..k \/ i = k + 1
  OBVIOUS
<1> QED BY <1>1 DEF MovesOf, StaysOf

LEMMA ChosenNext ==
  ASSUME NEW R, NEW w \in Seq(R), NEW k \in 0..(Len(w) - 1), NEW s, NEW S \in SUBSET (1..k),
         Chosen(s, w, S)
  PROVE  Chosen(Append(s, w[k + 1]), w, S \cup {k + 1})
<1>1. Len(w) \in Nat /\ w \in [1..Len(w) -> R] /\ k + 1 \in 1..Len(w)
  BY LenProperties
<1>2. S \in SUBSET (1..Len(w)) /\ \A i \in S : i < k + 1
  OBVIOUS
<1> QED BY <1>1, <1>2, ChosenAppend

LEMMA FirstWords ==
  ASSUME NEW R, NEW t
  PROVE  /\ (\A j \in 1..1 : t[j] \in R) => SubSeq(t, 1, 1) = <<t[1]>>
         /\ (\A j \in 1..2 : t[j] \in R) => SubSeq(t, 1, 2) = <<t[1], t[2]>>
<1>1. ASSUME NEW m \in 1..2, \A j \in 1..m : t[j] \in R
      PROVE  /\ SubSeq(t, 1, m) \in Seq(R) /\ Len(SubSeq(t, 1, m)) = m
             /\ \A i \in 1..m : SubSeq(t, 1, m)[i] = t[i]
  <2>1. 1 \in Int /\ m \in Int /\ m - 1 + 1 = m /\ (IF 1 <= m THEN m - 1 + 1 ELSE 0) = m
    OBVIOUS
  <2>2. \A i \in 1..m : 1 + i - 1 = i
    OBVIOUS
  <2>3. /\ SubSeq(t, 1, m) \in Seq(R) /\ Len(SubSeq(t, 1, m)) = IF 1 <= m THEN m - 1 + 1 ELSE 0
        /\ \A i \in 1..(m - 1 + 1) : SubSeq(t, 1, m)[i] = t[1 + i - 1]
    BY <1>1, <2>1, SubSeqProperties
  <2> QED BY <2>1, <2>2, <2>3
<1>2. 1 \in 1..2 /\ 2 \in 1..2 /\ 1 \in 1..1
  OBVIOUS
<1>3. ASSUME NEW s \in Seq(R), Len(s) = 1 PROVE s = <<s[1]>>
  <2>1. s[1] \in R
    BY <1>3
  <2> DEFINE u == <<s[1]>>
  <2>2. u \in Seq(R) /\ Len(u) = 1 /\ u[1] = s[1]
    BY <2>1
  <2>3. \A i \in 1..1 : i = 1
    OBVIOUS
  <2> HIDE DEF u
  <2>4. s = u
    BY <1>3, <2>2, <2>3, SeqEqual
  <2> QED BY <2>4 DEF u
<1>4. ASSUME NEW s \in Seq(R), Len(s) = 2 PROVE s = <<s[1], s[2]>>
  <2>1. s[1] \in R /\ s[2] \in R
    BY <1>4
  <2> DEFINE u == <<s[1], s[2]>>
  <2>2. u \in Seq(R) /\ Len(u) = 2 /\ u[1] = s[1] /\ u[2] = s[2]
    BY <2>1
  <2>3. \A i \in 1..2 : i = 1 \/ i = 2
    OBVIOUS
  <2> HIDE DEF u
  <2>4. s = u
    BY <1>4, <2>2, <2>3, SeqEqual
  <2> QED BY <2>4 DEF u
<1>5. ASSUME \A j \in 1..1 : t[j] \in R PROVE SubSeq(t, 1, 1) = <<t[1]>>
  <2>1. SubSeq(t, 1, 1) \in Seq(R) /\ Len(SubSeq(t, 1, 1)) = 1 /\ SubSeq(t, 1, 1)[1] = t[1]
    BY <1>1, <1>2, <1>5
  <2> QED BY <1>3, <2>1
<1>6. ASSUME \A j \in 1..2 : t[j] \in R PROVE SubSeq(t, 1, 2) = <<t[1], t[2]>>
  <2>1. SubSeq(t, 1, 2) \in Seq(R) /\ Len(SubSeq(t, 1, 2)) = 2
        /\ SubSeq(t, 1, 2)[1] = t[1] /\ SubSeq(t, 1, 2)[2] = t[2]
    BY <1>1, <1>2, <1>6
  <2> QED BY <1>4, <2>1
<1> QED BY <1>5, <1>6

\* A word is taken at position k + 1, which is no value.
LEMMA MoveFlag ==
  ASSUME NEW c, NEW R, NEW w \in Seq(R), NEW t, NEW F, NEW P, Moving(c, w, t, F, P),
         t # <<>>, Head(t) # Terminator, IsOption(Head(t)),
         NEW m, m = IF Takes(c, Head(t)) /\ Len(t) > 1 THEN 2 ELSE 1
  PROVE  Moving(c, w, From(t, m + 1), F \o SubSeq(t, 1, m), P)
<1> DEFINE n == Len(w)
           V == ValueOf(c, w)
<1>1. PICK k \in 0..n :
        /\ t = From(w, k + 1)
        /\ k < n => ~V[k + 1]
        /\ \A i \in 1..k : w[i] = Terminator => V[i]
        /\ Chosen(F, w, MovesOf(c, w, k)) /\ Chosen(P, w, StaysOf(c, w, k))
  BY DEF Moving
<1>2. n \in Nat /\ k \in Nat /\ k < n /\ n - k \in Nat /\ ~V[k + 1]
  <2>1. n \in Nat /\ k # n
    BY <1>1, FromFacts
  <2> QED BY <1>1, <2>1
<1>3. /\ t \in Seq(R) /\ Len(t) = n - k /\ Head(t) = w[k + 1]
      /\ \A j \in 1..(n - k) : t[j] = w[k + j]
      /\ \A j \in 1..(n - k) : From(t, j + 1) = From(w, k + j + 1)
  <2>1. k \in 0..Len(w)
    OBVIOUS
  <2>2. /\ From(w, k + 1) \in Seq(R) /\ Len(From(w, k + 1)) = Len(w) - k
        /\ \A j \in 1..(Len(w) - k) : From(w, k + 1)[j] = w[k + j]
        /\ k < Len(w) => Head(From(w, k + 1)) = w[k + 1]
        /\ \A j \in 1..(Len(w) - k) : From(From(w, k + 1), j + 1) = From(w, k + j + 1)
    BY <2>1, FromFacts
  <2>3. k < Len(w)
    BY <1>2
  <2> HIDE DEF V
  <2>4. t = From(w, k + 1)
    BY <1>1
  <2> QED BY <2>2, <2>3, <2>4
<1>4. F \in Seq(R)
  <2>1. MovesOf(c, w, k) \in SUBSET (1..n)
    BY <1>2 DEF MovesOf
  <2> QED BY <1>1, <2>1, ChosenType
<1>5. \A i \in 0..n : V[i] <=> i > 1 /\ ~V[i - 1] /\ IsOption(w[i - 1]) /\ Takes(c, w[i - 1])
  BY ValueFacts
<1>6. w[k + 1] \in R /\ IsOption(w[k + 1]) /\ w[k + 1] # Terminator
  <2>1. k + 1 \in 1..n
    BY <1>2
  <2> HIDE DEF n
  <2>2. w[k + 1] \in R
    BY <2>1 DEF n
  <2> QED BY <1>3, <2>2
<1>7. /\ Chosen(Append(F, w[k + 1]), w, MovesOf(c, w, k + 1)) /\ StaysOf(c, w, k + 1) = StaysOf(c, w, k)
      /\ \A i \in 1..(k + 1) : w[i] = Terminator => V[i]
  <2>1. MovesOf(c, w, k + 1) = MovesOf(c, w, k) \cup {k + 1} /\ StaysOf(c, w, k + 1) = StaysOf(c, w, k)
    BY <1>2, <1>6, OneMore
  <2>2. k \in 0..(Len(w) - 1) /\ MovesOf(c, w, k) \in SUBSET (1..k)
    BY <1>2 DEF MovesOf
  <2>3. Chosen(Append(F, w[k + 1]), w, MovesOf(c, w, k + 1))
    <3> HIDE DEF V, n
    <3>1. Chosen(F, w, MovesOf(c, w, k))
      BY <1>1
    <3>2. Chosen(Append(F, w[k + 1]), w, MovesOf(c, w, k) \cup {k + 1})
      BY <2>2, <3>1, ChosenNext
    <3> QED BY <2>1, <3>2
  <2>4. \A i \in 1..(k + 1) : i \in 1..k \/ i = k + 1
    BY <1>2
  <2> HIDE DEF V, n
  <2> QED BY <1>1, <1>6, <2>1, <2>3, <2>4
<1>8. CASE ~(Takes(c, w[k + 1]) /\ n - k > 1)
  <2>1. m = 1
    BY <1>3, <1>8
  <2>2. k + 1 < n => ~V[(k + 1) + 1]
    <3> HIDE DEF V
    <3>1. ASSUME k + 1 < n PROVE ~Takes(c, w[k + 1]) /\ k + 2 \in 0..n /\ k + 2 - 1 = k + 1
      BY <1>2, <1>8, <3>1
    <3>2. k + 1 + 1 = k + 2
      BY <1>2
    <3> HIDE DEF n
    <3>3. ASSUME k + 1 < n PROVE ~V[k + 2]
      BY <1>5, <3>1, <3>3
    <3> QED BY <3>2, <3>3
  <2>3. From(t, 1 + 1) = From(w, (k + 1) + 1) /\ k + 1 \in 0..n
    <3>1. 1 \in 1..(n - k) /\ k + 1 \in 0..n
      BY <1>2
    <3> HIDE DEF n
    <3> QED BY <1>3, <3>1
  <2>4. F \o SubSeq(t, 1, 1) = Append(F, w[k + 1])
    <3>1. t # <<>> /\ 1 \in 1..Len(t) /\ t[1] = w[k + 1]
      <4>1. 1 \in 1..(n - k)
        BY <1>2
      <4> HIDE DEF n
      <4> QED BY <1>3, <4>1
    <3>2. SubSeq(t, 1, 1) = <<w[k + 1]>>
      <4>1. \A j \in 1..1 : t[j] \in R
        BY <1>6, <3>1
      <4>2. SubSeq(t, 1, 1) = <<t[1]>>
        <5> HIDE DEF V, n
        <5> QED BY <4>1, FirstWords
      <4> QED BY <3>1, <4>2
    <3> QED BY <1>4, <1>6, <3>2, AppendIsConcat
  <2> HIDE DEF V, n
  <2> QED BY <1>1, <1>7, <2>1, <2>2, <2>3, <2>4 DEF Moving, V, n
<1>9. CASE Takes(c, w[k + 1]) /\ n - k > 1
  <2>1. m = 2
    BY <1>3, <1>9
  <2>2. V[k + 2] /\ k + 2 \in 1..n
    <3>1. k + 2 \in 0..n /\ k + 2 \in 1..n /\ k + 2 > 1 /\ k + 2 - 1 = k + 1
      BY <1>2, <1>9
    <3> HIDE DEF V, n
    <3> QED BY <1>2, <1>5, <1>6, <1>9, <3>1
  <2>3. k + 2 < n => ~V[(k + 2) + 1]
    <3>1. ASSUME k + 2 < n PROVE k + 3 \in 0..n /\ k + 3 - 1 = k + 2
      BY <1>2, <3>1
    <3>2. k + 2 + 1 = k + 3
      BY <1>2
    <3> HIDE DEF V, n
    <3>3. ASSUME k + 2 < n PROVE ~V[k + 3]
      BY <1>5, <2>2, <3>1, <3>3
    <3> QED BY <3>2, <3>3
  <2>4. From(t, 2 + 1) = From(w, (k + 2) + 1) /\ k + 2 \in 0..n
    <3>1. 2 \in 1..(n - k) /\ k + 2 \in 0..n
      BY <1>2, <1>9
    <3> HIDE DEF n
    <3> QED BY <1>3, <3>1
  <2>5. F \o SubSeq(t, 1, 2) = Append(Append(F, w[k + 1]), w[k + 2])
    <3>1. Len(t) >= 2 /\ Len(t) \in Nat /\ t[1] = w[k + 1] /\ t[2] = w[k + 2]
      <4>1. 1 \in 1..(n - k) /\ 2 \in 1..(n - k)
        BY <1>2, <1>9
      <4> HIDE DEF n
      <4> QED BY <1>3, <4>1
    <3>2. w[k + 2] \in R
      BY <2>2
    <3>3. SubSeq(t, 1, 2) = <<w[k + 1], w[k + 2]>>
      <4>1. \A j \in 1..2 : j = 1 \/ j = 2
        OBVIOUS
      <4>2. \A j \in 1..2 : t[j] \in R
        BY <1>6, <3>1, <3>2, <4>1
      <4>3. SubSeq(t, 1, 2) = <<t[1], t[2]>>
        <5> HIDE DEF V, n
        <5> QED BY <4>2, FirstWords
      <4> QED BY <3>1, <4>3
    <3>4. Append(Append(F, w[k + 1]), w[k + 2]) = F \o <<w[k + 1], w[k + 2]>>
      BY <1>4, <1>6, <3>2
    <3> QED BY <3>3, <3>4
  <2>6. /\ Chosen(Append(Append(F, w[k + 1]), w[k + 2]), w, MovesOf(c, w, k + 2))
        /\ StaysOf(c, w, k + 2) = StaysOf(c, w, k)
        /\ \A i \in 1..(k + 2) : w[i] = Terminator => V[i]
    <3>1. k + 1 \in Nat /\ k + 1 + 1 = k + 2
      BY <1>2
    <3>2. MovesOf(c, w, k + 2) = MovesOf(c, w, k + 1) \cup {k + 2}
          /\ StaysOf(c, w, k + 2) = StaysOf(c, w, k + 1)
      <4>1. ValueOf(c, w)[k + 1 + 1]
        BY <2>2, <3>1
      <4>2. MovesOf(c, w, k + 1 + 1) = MovesOf(c, w, k + 1) \cup {k + 1 + 1}
            /\ StaysOf(c, w, k + 1 + 1) = StaysOf(c, w, k + 1)
        BY <3>1, <4>1, OneMore
      <4> QED BY <3>1, <4>2
    <3>3. k + 1 \in 0..(Len(w) - 1) /\ MovesOf(c, w, k + 1) \in SUBSET (1..(k + 1))
      BY <1>2, <1>9 DEF MovesOf
    <3>4. Chosen(Append(Append(F, w[k + 1]), w[k + 2]), w, MovesOf(c, w, k + 2))
      <4> HIDE DEF V, n
      <4>1. Chosen(Append(F, w[k + 1]), w, MovesOf(c, w, k + 1))
        BY <1>7
      <4>2. Chosen(Append(Append(F, w[k + 1]), w[k + 1 + 1]), w, MovesOf(c, w, k + 1) \cup {k + 1 + 1})
        BY <3>3, <4>1, ChosenNext
      <4> QED BY <3>1, <3>2, <4>2
    <3>5. \A i \in 1..(k + 2) : i \in 1..(k + 1) \/ i = k + 2
      BY <1>2
    <3> HIDE DEF V, n
    <3> QED BY <1>7, <2>2, <3>2, <3>4, <3>5
  <2> HIDE DEF V, n
  <2> QED BY <1>1, <2>1, <2>3, <2>4, <2>5, <2>6 DEF Moving, V, n
<1> QED BY <1>8, <1>9

LEMMA TerminatorIsOption == IsOption(Terminator)
<1>1. ASSUME NEW x, NEW y
      PROVE  /\ [dashes |-> 2, name |-> x, value |-> y].dashes = 2
             /\ [dashes |-> 1, name |-> x, value |-> y].dashes = 1
  OBVIOUS
<1>2. Terminator.dashes = 2 /\ Stdin.dashes = 1
  BY <1>1, Zenon DEF Terminator, Stdin
<1> QED BY <1>2 DEF IsOption

LEMMA MovePositional ==
  ASSUME NEW c, NEW R, NEW w \in Seq(R), NEW t, NEW F, NEW P, Moving(c, w, t, F, P),
         t # <<>>, ~IsOption(Head(t))
  PROVE  Moving(c, w, Tail(t), F, Append(P, Head(t)))
<1> DEFINE n == Len(w)
           V == ValueOf(c, w)
<1>1. PICK k \in 0..n :
        /\ t = From(w, k + 1)
        /\ k < n => ~V[k + 1]
        /\ \A i \in 1..k : w[i] = Terminator => V[i]
        /\ Chosen(F, w, MovesOf(c, w, k)) /\ Chosen(P, w, StaysOf(c, w, k))
  BY DEF Moving
<1>2. n \in Nat /\ k \in Nat /\ k < n /\ ~V[k + 1]
  <2>1. n \in Nat /\ k # n
    BY <1>1, FromFacts
  <2> QED BY <1>1, <2>1
<1>3. Head(t) = w[k + 1] /\ Tail(t) = From(w, k + 2) /\ w[k + 1] # Terminator
  <2>1. Head(t) = w[k + 1] /\ Tail(t) = From(w, k + 2)
    BY <1>1, <1>2, FromFacts
  <2> QED BY <2>1, TerminatorIsOption
<1>4. MovesOf(c, w, k + 1) = MovesOf(c, w, k) /\ StaysOf(c, w, k + 1) = StaysOf(c, w, k) \cup {k + 1}
  <2>1. ~ValueOf(c, w)[k + 1] /\ ~IsOption(w[k + 1])
    BY <1>2, <1>3
  <2> QED BY <1>2, <2>1, OneMore
<1>5. Chosen(Append(P, w[k + 1]), w, StaysOf(c, w, k + 1))
  <2>1. k \in 0..(Len(w) - 1) /\ StaysOf(c, w, k) \in SUBSET (1..k)
    BY <1>2 DEF StaysOf
  <2> HIDE DEF V, n
  <2>2. Chosen(P, w, StaysOf(c, w, k))
    BY <1>1
  <2>3. Chosen(Append(P, w[k + 1]), w, StaysOf(c, w, k) \cup {k + 1})
    BY <2>1, <2>2, ChosenNext
  <2> QED BY <1>4, <2>3
<1>6. k + 1 < n => ~V[(k + 1) + 1]
  <2>1. ASSUME k + 1 < n PROVE k + 2 \in 0..n /\ k + 2 - 1 = k + 1
    BY <1>2, <2>1
  <2>2. k + 1 + 1 = k + 2
    BY <1>2
  <2>3. \A i \in 0..n : V[i] => IsOption(w[i - 1])
    BY ValueFacts
  <2> HIDE DEF V, n
  <2>4. ASSUME k + 1 < n PROVE ~V[k + 2]
    BY <1>3, <2>1, <2>3, <2>4
  <2> QED BY <2>2, <2>4
<1>7. \A i \in 1..(k + 1) : w[i] = Terminator => V[i]
  <2>1. \A i \in 1..(k + 1) : i \in 1..k \/ i = k + 1
    BY <1>2
  <2> HIDE DEF V, n
  <2> QED BY <1>1, <1>3, <2>1
<1>8. k + 1 \in 0..n /\ From(w, k + 2) = From(w, (k + 1) + 1)
  BY <1>2
<1> HIDE DEF V, n
<1> QED BY <1>1, <1>3, <1>4, <1>5, <1>6, <1>7, <1>8 DEF Moving, V, n

\* A terminator that is no value ends the flags.
LEMMA MoveTerminator ==
  ASSUME NEW c, NEW R, NEW w \in Seq(R), NEW t, NEW F, NEW P, Moving(c, w, t, F, P),
         t # <<>>, Head(t) = Terminator
  PROVE  AllMoved(c, w, F, P \o Tail(t))
<1> DEFINE n == Len(w)
           V == ValueOf(c, w)
<1>1. PICK k \in 0..n :
        /\ t = From(w, k + 1)
        /\ k < n => ~V[k + 1]
        /\ \A i \in 1..k : w[i] = Terminator => V[i]
        /\ Chosen(F, w, MovesOf(c, w, k)) /\ Chosen(P, w, StaysOf(c, w, k))
  BY DEF Moving
<1>2. n \in Nat /\ k \in Nat /\ k < n /\ ~V[k + 1]
  <2>1. n \in Nat /\ k # n
    BY <1>1, FromFacts
  <2> QED BY <1>1, <2>1
<1>3. w[k + 1] = Terminator /\ Tail(t) = From(w, k + 2)
  BY <1>1, <1>2, FromFacts
<1>4. EndOf(c, w) = k + 1
  BY <1>1, <1>2, <1>3, EndIs
<1>5. OperandsOf(c, w) = StaysOf(c, w, k) \cup (k + 2)..n
  <2>1. DOMAIN w = 1..n
    OBVIOUS
  <2>2. \A i \in 1..n : (i > k + 1 <=> i \in (k + 2)..n) /\ (i < k + 1 <=> i \in 1..k)
    BY <1>2
  <2>3. (k + 2)..n \subseteq 1..n /\ 1..k \subseteq 1..n
    BY <1>2
  <2> HIDE DEF n
  <2> QED BY <1>4, <2>1, <2>2, <2>3 DEF OperandsOf, StaysOf
<1>6. Chosen(P \o Tail(t), w, OperandsOf(c, w))
  <2>1. k + 2 \in 1..(Len(w) + 1) /\ StaysOf(c, w, k) \in SUBSET (1..(k + 2 - 1))
    BY <1>2 DEF StaysOf
  <2>2. Chosen(P, w, StaysOf(c, w, k))
    BY <1>1
  <2>3. Chosen(P \o From(w, k + 2), w, StaysOf(c, w, k) \cup (k + 2)..Len(w))
    <3> HIDE DEF V, n
    <3> QED BY <2>1, <2>2, ChosenRest
  <2> QED BY <1>3, <1>5, <2>3
<1>7. EndOf(c, w) - 1 = k
  BY <1>2, <1>4
<1> QED BY <1>1, <1>6, <1>7 DEF AllMoved

\* So does the end of the line.
LEMMA MoveEnd ==
  ASSUME NEW c, NEW R, NEW w \in Seq(R), NEW F, NEW P, Moving(c, w, <<>>, F, P)
  PROVE  AllMoved(c, w, F, P)
<1> DEFINE n == Len(w)
           V == ValueOf(c, w)
<1>1. PICK k \in 0..n :
        /\ <<>> = From(w, k + 1)
        /\ \A i \in 1..k : w[i] = Terminator => V[i]
        /\ Chosen(F, w, MovesOf(c, w, k)) /\ Chosen(P, w, StaysOf(c, w, k))
  BY DEF Moving
<1>2. n \in Nat /\ k = n
  BY <1>1, FromFacts
<1>3. EndOf(c, w) = n + 1
  BY <1>1, <1>2, EndIs
<1>4. OperandsOf(c, w) = StaysOf(c, w, n)
  <2>1. DOMAIN w = 1..n /\ \A i \in 1..n : ~(i > n + 1) /\ i < n + 1
    OBVIOUS
  <2> QED BY <1>3, <2>1 DEF OperandsOf, StaysOf
<1>5. EndOf(c, w) - 1 = n
  BY <1>2, <1>3
<1> QED BY <1>1, <1>2, <1>4, <1>5 DEF AllMoved

-----------------------------------------------------------------------------
(* Parsing *)

\* What reorder hands over: the flags, and the operands behind a terminator.
LineOf(F, P) == IF P = <<>> THEN F ELSE F \o <<Terminator>> \o P

\* The setting that the flag at each position makes.
GivenAt(c, w) ==
  [i \in 1..Len(w) |->
     <<w[i].name, IF Takes(c, w[i]) THEN w[i + 1] ELSE Plain(w[i].value)>>]

Lacks(c, w) == Len(w) \in FlagsOf(c, w) /\ Takes(c, w[Len(w)])

\* The words that reorder has moved before the operands.
Moves(c, w) == MovesOf(c, w, EndOf(c, w) - 1)

\* The parser is b words into the line, f goes through the words that were moved,
\* and the settings are those that the flags among them make.
At(c, w, t, F, P, st, f, b) ==
  /\ Ascending(f, Moves(c, w)) /\ F = [j \in 1..Len(f) |-> w[f[j]]]
  /\ b \in 0..Len(f) /\ t = From(LineOf(F, P), b + 1)
  /\ b < Len(f) => ~ValueOf(c, w)[f[b + 1]]
  /\ Chosen(st, GivenAt(c, w), {f[j] : j \in 1..b} \cap FlagsOf(c, w))

ParsedAt(c, w, t, F, P, st) == \E f : \E b \in Nat : At(c, w, t, F, P, st, f, b)

LEMMA LineFacts ==
  ASSUME NEW R, Terminator \in R, NEW F \in Seq(R), NEW P \in Seq(R)
  PROVE  /\ LineOf(F, P) \in Seq(R) /\ Len(F) <= Len(LineOf(F, P))
         /\ \A j \in 1..Len(F) : LineOf(F, P)[j] = F[j]
         /\ P = <<>> => From(LineOf(F, P), Len(F) + 1) = <<>>
         /\ P # <<>> => /\ From(LineOf(F, P), Len(F) + 1) # <<>>
                        /\ Head(From(LineOf(F, P), Len(F) + 1)) = Terminator
                        /\ Tail(From(LineOf(F, P), Len(F) + 1)) = P
<1> DEFINE m == Len(F)
           p == Len(P)
           X == Terminator
           L == (F \o <<X>>) \o P
<1>1. m \in Nat /\ p \in Nat
  OBVIOUS
<1>2. CASE P = <<>>
  <2>1. LineOf(F, P) = F
    BY <1>2 DEF LineOf
  <2>2. m \in 0..m /\ From(F, m + 1) = <<>>
    <3>1. m \in 0..Len(F)
      BY <1>1
    <3> QED BY <3>1, FromFacts
  <2> HIDE DEF m
  <2> QED BY <1>1, <1>2, <2>1, <2>2 DEF m
<1>3. CASE P # <<>>
  <2>1. LineOf(F, P) = L
    BY <1>3 DEF LineOf
  <2>2. p # 0
    BY <1>3, EmptySeq
  <2>3. L \in Seq(R) /\ Len(L) = (m + 1) + p
        /\ (\A j \in 1..m : L[j] = F[j]) /\ L[m + 1] = X
        /\ \A j \in 1..p : L[(m + 1) + j] = P[j]
    <3> HIDE DEF X
    <3>1. X \in R
      BY DEF X
    <3> DEFINE A == F \o <<X>>
    <3>2. A \in Seq(R) /\ Len(A) = m + 1 /\ (\A j \in 1..m : A[j] = F[j]) /\ A[m + 1] = X
      <4>1. A = Append(F, X)
        BY <3>1, AppendIsConcat
      <4> QED BY <3>1, <4>1, AppendProperties
    <3> HIDE DEF A
    <3>3. A \o P \in Seq(R) /\ Len(A \o P) = Len(A) + p
          /\ \A j \in 1..(Len(A) + p) : (A \o P)[j] = IF j <= Len(A) THEN A[j] ELSE P[j - Len(A)]
      BY <3>2, ConcatProperties
    <3>4. \A j \in 1..m : j \in 1..((m + 1) + p) /\ j <= m + 1
      BY <1>1
    <3>5. m + 1 \in 1..((m + 1) + p) /\ m + 1 <= m + 1
      BY <1>1
    <3>6. \A j \in 1..p : /\ (m + 1) + j \in 1..((m + 1) + p) /\ ~((m + 1) + j <= m + 1)
                          /\ ((m + 1) + j) - (m + 1) = j
      BY <1>1
    <3> HIDE DEF m, p
    <3>7. \A j \in 1..m : (A \o P)[j] = F[j]
      BY <3>2, <3>3, <3>4
    <3>8. (A \o P)[m + 1] = X
      BY <3>2, <3>3, <3>5
    <3>9. \A j \in 1..p : (A \o P)[(m + 1) + j] = P[j]
      BY <3>2, <3>3, <3>6
    <3> QED BY <3>2, <3>3, <3>7, <3>8, <3>9 DEF A
  <2> HIDE DEF L, X
  <2>4. m \in 0..Len(L) /\ m < Len(L) /\ m + 1 \in 0..Len(L) /\ (m + 1) + 1 = m + 2
        /\ Len(L) - (m + 1) = p
    <3> HIDE DEF m, p
    <3> QED BY <1>1, <2>2, <2>3
  <2>5. From(L, m + 1) # <<>> /\ Head(From(L, m + 1)) = X /\ Tail(From(L, m + 1)) = From(L, m + 2)
    <3> HIDE DEF m, p
    <3>1. From(L, m + 1) = <<>> <=> m = Len(L)
      BY <2>3, <2>4, FromFacts
    <3>2. Head(From(L, m + 1)) = L[m + 1] /\ Tail(From(L, m + 1)) = From(L, m + 2)
      BY <2>3, <2>4, FromFacts
    <3> QED BY <2>3, <2>4, <3>1, <3>2
  <2>6. From(L, m + 2) = P
    <3> HIDE DEF m, p
    <3> DEFINE k == m + 1
               Q == From(L, k + 1)
    <3>0. k \in 0..Len(L) /\ Len(L) - k = p /\ k + 1 = m + 2
      BY <2>4
    <3>1. L \in Seq(R) /\ \A j \in 1..p : L[k + j] = P[j]
      BY <2>3
    <3> HIDE DEF k
    <3>2. Q \in Seq(R) /\ Len(Q) = p
      BY <3>0, <3>1, FromFacts
    <3>3. \A j \in 1..p : Q[j] = L[k + j]
      BY <3>0, <3>1, FromFacts
    <3> HIDE DEF Q
    <3>4. \A j \in 1..p : Q[j] = P[j]
      BY <3>1, <3>3
    <3>5. Q = P
      BY <3>2, <3>4, SeqEqual DEF p
    <3> QED BY <3>0, <3>5 DEF Q
  <2>7. m <= Len(L)
    <3> HIDE DEF m
    <3> QED BY <1>1, <2>4
  <2> QED BY <1>3, <2>1, <2>3, <2>5, <2>6, <2>7 DEF X
<1> QED BY <1>2, <1>3

\* What follows a number directly in order, if it is there at all.
LEMMA NextInOrder ==
  ASSUME NEW f, NEW S, Ascending(f, S), NEW b \in 1..Len(f), f[b] + 1 \in S
  PROVE  b + 1 \in 1..Len(f) /\ f[b + 1] = f[b] + 1
<1> DEFINE m == Len(f)
<1>1. m \in Nat /\ (\A i \in 1..m : f[i] \in Nat) /\ (\A i, j \in 1..m : i < j => f[i] < f[j])
      /\ S = {f[i] : i \in 1..m}
  BY DEF Ascending
<1> HIDE DEF m
<1>2. PICK i \in 1..m : f[i] = f[b] + 1
  BY <1>1
<1>3. b \in 1..m
  BY DEF m
<1>4. b < i
  <2>1. ASSUME i <= b PROVE FALSE
    <3>1. f[i] <= f[b]
      <4>1. i = b \/ i < b
        BY <1>1, <1>3, <2>1
      <4>2. f[i] \in Nat /\ f[b] \in Nat
        BY <1>1, <1>3
      <4> QED BY <1>1, <1>3, <4>1, <4>2
    <3> QED BY <1>1, <1>2, <1>3, <3>1
  <2> QED BY <1>1, <1>3, <2>1
<1>5. b + 1 \in 1..m /\ b < b + 1
  BY <1>1, <1>3, <1>4
<1>6. f[b + 1] \in Nat /\ f[b] \in Nat /\ f[b] < f[b + 1]
  BY <1>1, <1>3, <1>5
<1>7. i = b + 1
  <2>1. ASSUME b + 1 < i PROVE FALSE
    <3>1. f[b + 1] < f[i]
      BY <1>1, <1>5, <2>1
    <3> QED BY <1>2, <1>6, <3>1
  <2> QED BY <1>1, <1>3, <1>4, <2>1
<1> QED BY <1>2, <1>5, <1>7 DEF m

\* The same, of what comes directly before it.
LEMMA BeforeInOrder ==
  ASSUME NEW f, NEW S, Ascending(f, S), NEW b \in 1..Len(f), f[b] - 1 \in S
  PROVE  b - 1 \in 1..Len(f) /\ f[b - 1] = f[b] - 1
<1> DEFINE m == Len(f)
<1>1. m \in Nat /\ (\A i \in 1..m : f[i] \in Nat) /\ (\A i, j \in 1..m : i < j => f[i] < f[j])
      /\ S = {f[i] : i \in 1..m}
  BY DEF Ascending
<1> HIDE DEF m
<1>2. PICK i \in 1..m : f[i] = f[b] - 1
  BY <1>1
<1>3. b \in 1..m /\ f[b] \in Nat /\ f[i] \in Nat /\ f[i] + 1 = f[b]
  BY <1>1, <1>2 DEF m
<1>4. i + 1 \in 1..m /\ f[i + 1] = f[b]
  <2>1. f[i] + 1 \in S
    BY <1>1, <1>3
  <2>2. i \in 1..Len(f)
    BY DEF m
  <2>3. i + 1 \in 1..Len(f) /\ f[i + 1] = f[i] + 1
    BY <2>1, <2>2, NextInOrder
  <2> QED BY <1>3, <2>3 DEF m
<1>5. i + 1 = b
  <2>1. f[b] < f[b] <=> FALSE
    BY <1>3
  <2>2. ~(i + 1 < b) /\ ~(b < i + 1)
    BY <1>1, <1>3, <1>4, <2>1
  <2> QED BY <1>1, <1>3, <2>2
<1>6. b - 1 = i
  BY <1>1, <1>5
<1> QED BY <1>2, <1>6 DEF m

\* A flag that takes the next word, where none lacks one, has it moved with it.
LEMMA ValueFollows ==
  ASSUME NEW c, NEW R, NEW w \in Seq(R), ~Lacks(c, w), NEW q \in FlagsOf(c, w), Takes(c, w[q])
  PROVE  q + 1 \in Moves(c, w) /\ q + 1 \in 1..Len(w) /\ ValueOf(c, w)[q + 1]
<1> DEFINE n == Len(w)
           e == EndOf(c, w)
           V == ValueOf(c, w)
<1>1. n \in Nat /\ e \in 1..(n + 1) /\ (e <= n => ~V[e])
  BY EndFacts
<1>2. q \in 1..(e - 1) /\ ~V[q] /\ IsOption(w[q])
  BY DEF FlagsOf
<1>3. q # n
  BY DEF Lacks
<1> HIDE DEF n, e
<1>4. q + 1 \in 1..n /\ q + 1 \in 0..n /\ q + 1 > 1 /\ q + 1 - 1 = q
  BY <1>1, <1>2, <1>3
<1> USE DEF n
<1>5. V[q + 1]
  <2>1. \A i \in 0..Len(w) :
          V[i] <=> i > 1 /\ ~V[i - 1] /\ IsOption(w[i - 1]) /\ Takes(c, w[i - 1])
    BY ValueFacts
  <2> HIDE DEF V
  <2>2. ASSUME NEW i \in 0..Len(w), i > 1, i - 1 = q PROVE V[i]
    BY <1>2, <2>1, <2>2
  <2>3. q \in Int /\ Len(w) \in Nat
    BY <1>1, <1>2
  <2>4. q + 1 \in 0..Len(w) /\ q + 1 > 1 /\ (q + 1) - 1 = q
    BY <1>4, <2>3
  <2> QED BY <2>2, <2>4
<1>6. q + 1 \in 1..(e - 1)
  <2> HIDE DEF V
  <2>1. q + 1 # e
    BY <1>1, <1>4, <1>5
  <2> QED BY <1>1, <1>2, <2>1
<1> QED BY <1>4, <1>5, <1>6 DEF Moves, MovesOf, e, n

\* A value among the words that were moved directly follows the flag that takes it.
LEMMA ValueIsBehind ==
  ASSUME NEW c, NEW R, NEW w \in Seq(R), NEW f, Ascending(f, Moves(c, w)),
         NEW b \in 1..Len(f), ValueOf(c, w)[f[b]]
  PROVE  b - 1 \in 1..Len(f) /\ ~ValueOf(c, w)[f[b - 1]] /\ Takes(c, w[f[b - 1]])
<1> DEFINE n == Len(w)
           e == EndOf(c, w)
           V == ValueOf(c, w)
           r == f[b]
<1>1. n \in Nat /\ e \in 1..(n + 1)
  BY EndFacts
<1>2. r \in Moves(c, w)
  BY DEF Ascending
<1>3. r \in 1..(e - 1)
  BY <1>2 DEF Moves, MovesOf
<1> HIDE DEF r, n, e
<1>4. r \in 0..n
  BY <1>1, <1>3
<1>5. r > 1 /\ ~V[r - 1] /\ IsOption(w[r - 1]) /\ Takes(c, w[r - 1])
  <2>1. r \in 0..Len(w)
    BY <1>4 DEF n
  <2> QED BY <2>1, ValueFacts DEF r
<1>6. r - 1 \in 1..(e - 1)
  BY <1>1, <1>3, <1>5
<1>7. r - 1 \in Moves(c, w)
  BY <1>5, <1>6 DEF Moves, MovesOf, e
<1>8. b - 1 \in 1..Len(f) /\ f[b - 1] = r - 1
  BY <1>7, BeforeInOrder DEF r
<1> QED BY <1>5, <1>8

\* The next word is a flag; what is left when there is none.
FlagNext(t) == t # <<>> /\ IsOption(Head(t)) /\ Head(t) # Terminator
Left(t) == IF t # <<>> /\ Head(t) = Terminator THEN Tail(t) ELSE t

\* The next word is the flag at q.
HeadAt(c, w, t, q) == Head(t) = w[q] /\ q \in FlagsOf(c, w)

\* What the parser has before it.
LEMMA HeadFacts ==
  ASSUME NEW c, NEW R, Terminator \in R, NEW w \in Seq(R), NEW t, NEW F, NEW P \in Seq(R),
         NEW st, NEW f, NEW b \in Nat, At(c, w, t, F, P, st, f, b)
  PROVE  /\ F \in Seq(R) /\ LineOf(F, P) \in Seq(R) /\ b \in 0..Len(LineOf(F, P))
         /\ Len(f) \in Nat /\ Len(f) <= Len(LineOf(F, P))
         /\ \A j \in 1..Len(f) : LineOf(F, P)[j] = w[f[j]] /\ f[j] \in Moves(c, w)
                                 /\ f[j] \in 1..Len(w)
         /\ b < Len(f) => HeadAt(c, w, t, f[b + 1]) /\ FlagNext(t)
         /\ b = Len(f) => ~FlagNext(t) /\ Left(t) = P
<1> DEFINE L == LineOf(F, P)
           m == Len(f)
           n == Len(w)
           e == EndOf(c, w)
           V == ValueOf(c, w)
           M == Moves(c, w)
<1>1. /\ Ascending(f, M) /\ F = [j \in 1..m |-> w[f[j]]]
      /\ b \in 0..m /\ t = From(L, b + 1) /\ (b < m => ~V[f[b + 1]])
  BY DEF At
<1>2. n \in Nat /\ e \in 1..(n + 1) /\ \A i \in 1..(e - 1) : w[i] = Terminator => V[i]
  BY EndFacts
<1>3. M = {i \in 1..(e - 1) : V[i] \/ IsOption(w[i])} /\ M \subseteq 1..n
  <2>1. M = {i \in 1..(e - 1) : V[i] \/ IsOption(w[i])}
    BY DEF Moves, MovesOf
  <2> HIDE DEF M, V, n, e
  <2>2. 1..(e - 1) \subseteq 1..n
    BY <1>2
  <2> QED BY <2>1, <2>2
<1>4. m \in Nat /\ \A j \in 1..m : f[j] \in M
  <2>1. Ascending(f, M)
    BY <1>1
  <2> HIDE DEF M
  <2> QED BY <2>1 DEF Ascending
<1>5. F \in Seq(R) /\ Len(F) = m /\ \A j \in 1..m : F[j] = w[f[j]]
  <2>1. ASSUME NEW j \in 1..m PROVE w[f[j]] \in R
    <3>1. f[j] \in 1..n
      <4> HIDE DEF m, n, M
      <4> QED BY <1>3, <1>4
    <3> QED BY <3>1
  <2>2. ASSUME NEW N \in Nat, NEW h, h = [j \in 1..N |-> w[f[j]]], \A j \in 1..N : w[f[j]] \in R
        PROVE  h \in Seq(R) /\ Len(h) = N /\ \A j \in 1..N : h[j] = w[f[j]]
    BY <2>2
  <2> HIDE DEF m, M
  <2> QED BY <1>1, <1>4, <2>1, <2>2
<1>6. L \in Seq(R) /\ m <= Len(L) /\ \A j \in 1..m : L[j] = w[f[j]]
  <2>1. LineOf(F, P) \in Seq(R) /\ Len(F) <= Len(LineOf(F, P))
        /\ \A j \in 1..Len(F) : LineOf(F, P)[j] = F[j]
    BY <1>5, LineFacts
  <2> HIDE DEF m
  <2> QED BY <1>5, <2>1
<1>7. b \in 0..Len(L)
  <2>1. Len(L) \in Nat
    <3> HIDE DEF L
    <3> QED BY <1>6
  <2> HIDE DEF L, m
  <2> QED BY <1>1, <1>4, <1>6, <2>1
<1>8. ASSUME b < m
      PROVE  HeadAt(c, w, t, f[b + 1]) /\ FlagNext(t)
  <2>1. b + 1 \in 1..m /\ b \in Nat
    <3> HIDE DEF m
    <3> QED BY <1>1, <1>4, <1>8
  <2>2. Len(L) \in Nat /\ b < Len(L) /\ b # Len(L)
    <3>1. Len(L) \in Nat
      <4> HIDE DEF L
      <4> QED BY <1>6
    <3> HIDE DEF L, m
    <3> QED BY <1>4, <1>6, <1>8, <2>1, <3>1
  <2>3. t # <<>> /\ Head(t) = L[b + 1]
    <3> HIDE DEF L
    <3>1. From(L, b + 1) = <<>> <=> b = Len(L)
      BY <1>6, <1>7, FromFacts
    <3>2. Head(From(L, b + 1)) = L[b + 1]
      BY <1>6, <1>7, <2>2, FromFacts
    <3> HIDE DEF m, n, e, V, M
    <3> QED BY <1>1, <2>2, <3>1, <3>2
  <2> DEFINE q == f[b + 1]
  <2>4. Head(t) = w[q] /\ q \in M /\ ~V[q]
    <3> HIDE DEF L, m, n, e, V, M
    <3> QED BY <1>1, <1>4, <1>6, <1>8, <2>1, <2>3
  <2>5. q \in 1..(e - 1) /\ IsOption(w[q]) /\ w[q] # Terminator
    <3> HIDE DEF L, m, n, e, V, M, q
    <3> QED BY <1>2, <1>3, <2>4
  <2>6. q \in FlagsOf(c, w)
    BY <2>4, <2>5 DEF FlagsOf
  <2> HIDE DEF q
  <2> QED BY <2>3, <2>4, <2>5, <2>6 DEF q, FlagNext, HeadAt
<1>9. ASSUME b = m PROVE ~FlagNext(t) /\ Left(t) = P
  <2>1. /\ P = <<>> => From(LineOf(F, P), Len(F) + 1) = <<>>
        /\ P # <<>> => /\ From(LineOf(F, P), Len(F) + 1) # <<>>
                       /\ Head(From(LineOf(F, P), Len(F) + 1)) = Terminator
                       /\ Tail(From(LineOf(F, P), Len(F) + 1)) = P
    <3>1. F \in Seq(R)
      BY <1>5
    <3> HIDE DEF L, m, n, e, V, M
    <3> QED BY ONLY <3>1, Terminator \in R, P \in Seq(R), LineFacts
  <2>2. t = From(LineOf(F, P), Len(F) + 1)
    BY <1>1, <1>5, <1>9
  <2> HIDE DEF L, m, n, e, V, M
  <2> QED BY <2>1, <2>2 DEF FlagNext, Left
<1>10. \A j \in 1..m : f[j] \in 1..n
  <2> HIDE DEF m, n, M
  <2> QED BY <1>3, <1>4
<1> HIDE DEF V, e
<1> QED BY <1>4, <1>5, <1>6, <1>7, <1>8, <1>9, <1>10

\* The parser begins with a flag, if there is one.
LEMMA ParsingStarts ==
  ASSUME NEW c, NEW R, Terminator \in R, NEW w \in Seq(R), NEW F, NEW P \in Seq(R),
         AllMoved(c, w, F, P)
  PROVE  ParsedAt(c, w, LineOf(F, P), F, P, <<>>)
<1>1. PICK f : Ascending(f, Moves(c, w)) /\ F = [j \in 1..Len(f) |-> w[f[j]]]
  BY DEF AllMoved, Chosen, Moves
<1> DEFINE m == Len(f)
           e == EndOf(c, w)
           n == Len(w)
<1>2. m \in Nat /\ \A j \in 1..m : f[j] \in Moves(c, w)
  BY <1>1 DEF Ascending
<1>3. n \in Nat /\ e \in 1..(n + 1)
  BY EndFacts
<1>4. 0 < m => ~ValueOf(c, w)[f[0 + 1]]
  <2>1. ASSUME 0 < m, ValueOf(c, w)[f[1]] PROVE FALSE
    <3>1. 1 \in 1..Len(f) /\ 1 - 1 \notin 1..Len(f)
      BY <1>2, <2>1
    <3>2. 1 - 1 \in 1..Len(f)
      BY <1>1, <2>1, <3>1, ValueIsBehind
    <3> QED BY <3>1, <3>2
  <2> QED BY <2>1
<1>5. F \in Seq(R)
  <2>1. ASSUME NEW j \in 1..m PROVE w[f[j]] \in R
    <3>1. f[j] \in 1..(e - 1)
      BY <1>2 DEF Moves, MovesOf
    <3>2. f[j] \in 1..n
      <4> HIDE DEF m, n, e
      <4> QED BY <1>3, <3>1
    <3> QED BY <3>2
  <2>2. ASSUME NEW N \in Nat, NEW h, h = [j \in 1..N |-> w[f[j]]], \A j \in 1..N : w[f[j]] \in R
        PROVE  h \in Seq(R)
    BY <2>2
  <2> HIDE DEF m
  <2> QED BY <1>1, <1>2, <2>1, <2>2 DEF m
<1>6. LineOf(F, P) = From(LineOf(F, P), 0 + 1)
  <2> DEFINE L == LineOf(F, P)
  <2>1. L \in Seq(R)
    BY <1>5, LineFacts
  <2> HIDE DEF L
  <2>2. L = SubSeq(L, 1, Len(L))
    BY <2>1, SubSeqFull
  <2> QED BY <2>2 DEF From, L
<1>7. {f[j] : j \in 1..0} \cap FlagsOf(c, w) = {}
  OBVIOUS
<1>8. Chosen(<<>>, GivenAt(c, w), {f[j] : j \in 1..0} \cap FlagsOf(c, w))
  BY <1>7, ChosenEmpty
<1>9. 0 \in 0..Len(f)
  BY <1>2
<1>10. At(c, w, LineOf(F, P), F, P, <<>>, f, 0)
  BY <1>1, <1>4, <1>6, <1>8, <1>9 DEF At
<1> QED BY <1>10 DEF ParsedAt

\* A flag is parsed.
LEMMA ParseFlag ==
  ASSUME NEW c, NEW R, Terminator \in R, NEW w \in Seq(R), NEW t, NEW F, NEW P \in Seq(R),
         NEW st, ParsedAt(c, w, t, F, P, st), ~Lacks(c, w), FlagNext(t)
  PROVE  /\ Takes(c, Head(t)) => ParsedAt(c, w, From(t, 3), F, P,
                                          Append(st, <<Head(t).name, t[2]>>))
         /\ ~Takes(c, Head(t)) => ParsedAt(c, w, From(t, 2), F, P,
                                           Append(st, <<Head(t).name, Plain(Head(t).value)>>))
<1>0. PICK f : \E b \in Nat : At(c, w, t, F, P, st, f, b)
  BY DEF ParsedAt
<1>1. PICK b \in Nat : At(c, w, t, F, P, st, f, b)
  BY <1>0
<1> DEFINE L == LineOf(F, P)
           m == Len(f)
           n == Len(w)
           V == ValueOf(c, w)
           G == GivenAt(c, w)
           fl == FlagsOf(c, w)
           D(k) == {f[j] : j \in 1..k} \cap fl
           q == f[b + 1]
<1>2. /\ L \in Seq(R) /\ b \in 0..Len(L) /\ m \in Nat /\ m <= Len(L)
      /\ \A j \in 1..m : L[j] = w[f[j]] /\ f[j] \in Moves(c, w) /\ f[j] \in 1..n
      /\ b < m => Head(t) = w[q] /\ q \in fl
      /\ b = m => ~FlagNext(t)
  <2>1. L \in Seq(R) /\ b \in 0..Len(L) /\ m \in Nat /\ m <= Len(L)
    BY <1>1, HeadFacts
  <2>2. \A j \in 1..m : L[j] = w[f[j]] /\ f[j] \in Moves(c, w) /\ f[j] \in 1..n
    BY <1>1, HeadFacts
  <2>3. b < m => Head(t) = w[q] /\ q \in fl
    <3>1. b < m => HeadAt(c, w, t, f[b + 1])
      BY <1>1, HeadFacts
    <3> QED BY <3>1 DEF HeadAt
  <2>4. b = m => ~FlagNext(t)
    BY <1>1, HeadFacts
  <2> HIDE DEF L, m, n, V, G, fl, D, q
  <2> QED BY <2>1, <2>2, <2>3, <2>4
<1>3. /\ Ascending(f, Moves(c, w)) /\ F = [j \in 1..m |-> w[f[j]]]
      /\ b \in 0..m /\ t = From(L, b + 1) /\ (b < m => ~V[q])
      /\ Chosen(st, G, D(b))
  BY <1>1 DEF At
<1>4. b < m /\ b \in Nat /\ b + 1 \in 1..m /\ Len(L) \in Nat /\ b < Len(L)
  <2>1. b # m
    BY <1>2
  <2>2. Len(L) \in Nat
    <3> HIDE DEF L
    <3> QED BY <1>2
  <2> HIDE DEF L, m, n, V, G, fl, D, q
  <2> QED BY <1>2, <1>3, <2>1, <2>2
<1>5. Head(t) = w[q] /\ q \in fl /\ ~V[q] /\ q \in 1..n
  <2> HIDE DEF L, m, n, V, G, fl, D
  <2> QED BY <1>2, <1>3, <1>4
<1>6. \A i \in 1..(Len(L) - b) : t[i] = L[b + i] /\ From(t, i + 1) = From(L, b + i + 1)
  <2> HIDE DEF L, m, n, V, G, fl, D
  <2>1. /\ \A i \in 1..(Len(L) - b) : From(L, b + 1)[i] = L[b + i]
        /\ \A i \in 1..(Len(L) - b) : From(From(L, b + 1), i + 1) = From(L, b + i + 1)
    BY <1>2, FromFacts
  <2> QED BY <1>3, <2>1
<1>7. Chosen(Append(st, G[q]), G, D(b + 1))
  <2>1. G \in [1..n -> {G[i] : i \in 1..n}] /\ n \in Nat
    BY DEF GivenAt
  <2>2. D(b) \in SUBSET (1..n)
    <3>1. \A j \in 1..b : j \in 1..m
      BY <1>4
    <3> HIDE DEF L, m, n, V, G, fl, q
    <3> QED BY <1>2, <3>1
  <2>3. \A i \in D(b) : i < q
    <3>1. ASSUME NEW j \in 1..b PROVE f[j] < f[b + 1]
      <4>1. j \in 1..m /\ j < b + 1
        BY <1>4
      <4> QED BY <1>3, <1>4, <4>1 DEF Ascending
    <3> QED BY <3>1
  <2>4. D(b + 1) = D(b) \cup {q}
    <3>1. \A j : j \in 1..(b + 1) <=> j \in 1..b \/ j = b + 1
      BY <1>4
    <3> HIDE DEF fl
    <3> QED BY <1>5, <3>1
  <2>5. Chosen(Append(st, G[q]), G, D(b) \cup {q})
    <3> HIDE DEF L, m, n, V, G, fl, D, q
    <3> QED BY <1>3, <1>5, <2>1, <2>2, <2>3, ChosenAppend
  <2> HIDE DEF D
  <2> QED BY <2>4, <2>5
<1>8. CASE Takes(c, Head(t))
  <2>1. q + 1 \in Moves(c, w) /\ q + 1 \in 1..n /\ V[q + 1]
    <3>1. q \in FlagsOf(c, w) /\ Takes(c, w[q])
      BY <1>5, <1>8
    <3> HIDE DEF q
    <3> QED BY <3>1, ValueFollows
  <2>2. b + 2 \in 1..m /\ f[b + 2] = q + 1
    <3>1. (b + 1) + 1 \in 1..m /\ f[(b + 1) + 1] = f[b + 1] + 1
      <4> HIDE DEF L, n, V, G, fl, D
      <4> QED BY <1>3, <1>4, <2>1, NextInOrder
    <3>2. (b + 1) + 1 = b + 2
      BY <1>4
    <3> QED BY <3>1, <3>2
  <2>3. t[2] = w[q + 1] /\ From(t, 3) = From(L, (b + 2) + 1)
    <3>1. 2 \in 1..(Len(L) - b) /\ 2 + 1 = 3
      <4> HIDE DEF L, m, q
      <4> QED BY <1>2, <1>4, <2>2
    <3>2. t[2] = L[b + 2] /\ From(t, 2 + 1) = From(L, b + 2 + 1)
      <4> HIDE DEF L, m, q
      <4> QED BY <1>6, <3>1
    <3> HIDE DEF L, m, q
    <3> QED BY <1>2, <2>2, <3>1, <3>2
  <2>4. G[q] = <<Head(t).name, t[2]>>
    <3>1. G[q] = <<w[q].name, w[q + 1]>>
      BY <1>5, <1>8 DEF GivenAt
    <3> HIDE DEF G, q
    <3> QED BY <1>5, <2>3, <3>1
  <2>5. D(b + 2) = D(b + 1)
    <3>1. \A j : j \in 1..(b + 2) <=> j \in 1..(b + 1) \/ j = b + 2
      BY <1>4
    <3>2. q + 1 \notin fl
      BY <2>1 DEF FlagsOf
    <3> HIDE DEF fl, q
    <3> QED BY <2>2, <3>1, <3>2
  <2>6. b + 2 < m => ~V[f[(b + 2) + 1]]
    <3>1. ASSUME b + 2 < m, V[f[(b + 2) + 1]] PROVE FALSE
      <4>1. (b + 2) + 1 \in 1..Len(f) /\ ((b + 2) + 1) - 1 = b + 2
        BY <1>4, <3>1
      <4>2. ~ValueOf(c, w)[f[((b + 2) + 1) - 1]]
        <5> DEFINE d == (b + 2) + 1
        <5>1. d \in 1..Len(f) /\ ValueOf(c, w)[f[d]]
          BY <3>1, <4>1
        <5> HIDE DEF d
        <5>2. ~ValueOf(c, w)[f[d - 1]]
          BY <1>3, <5>1, ValueIsBehind
        <5> QED BY <5>2 DEF d
      <4> HIDE DEF q
      <4> QED BY <2>1, <2>2, <4>1, <4>2
    <3> QED BY <3>1
  <2>7. Chosen(Append(st, <<Head(t).name, t[2]>>), G, D(b + 2))
    <3> HIDE DEF L, m, n, V, G, fl, D, q
    <3> QED BY <1>7, <2>4, <2>5
  <2>8. b + 2 \in 0..m
    <3> HIDE DEF m
    <3> QED BY <2>2
  <2>9. At(c, w, From(t, 3), F, P, Append(st, <<Head(t).name, t[2]>>), f, b + 2)
    BY <1>3, <2>3, <2>6, <2>7, <2>8 DEF At
  <2>10. b + 2 \in Nat
    OBVIOUS
  <2> QED BY <1>8, <2>9, <2>10 DEF ParsedAt
<1>9. CASE ~Takes(c, Head(t))
  <2>1. From(t, 2) = From(L, (b + 1) + 1)
    <3>1. 1 \in 1..(Len(L) - b) /\ 1 + 1 = 2
      <4> HIDE DEF L, m, q
      <4> QED BY <1>2, <1>4
    <3>2. From(t, 1 + 1) = From(L, b + 1 + 1)
      <4> HIDE DEF L, m, q
      <4> QED BY <1>6, <3>1
    <3> HIDE DEF L, m, q
    <3> QED BY <3>1, <3>2
  <2>2. G[q] = <<Head(t).name, Plain(Head(t).value)>>
    <3>1. G[q] = <<w[q].name, Plain(w[q].value)>>
      BY <1>5, <1>9 DEF GivenAt
    <3> HIDE DEF G, q
    <3> QED BY <1>5, <3>1
  <2>3. b + 1 < m => ~V[f[(b + 1) + 1]]
    <3>1. ASSUME b + 1 < m, V[f[(b + 1) + 1]] PROVE FALSE
      <4>1. (b + 1) + 1 \in 1..Len(f) /\ ((b + 1) + 1) - 1 = b + 1
        BY <1>4, <3>1
      <4>2. Takes(c, w[f[((b + 1) + 1) - 1]])
        <5> DEFINE d == (b + 1) + 1
        <5>1. d \in 1..Len(f) /\ ValueOf(c, w)[f[d]]
          BY <3>1, <4>1
        <5> HIDE DEF d
        <5>2. Takes(c, w[f[d - 1]])
          BY <1>3, <5>1, ValueIsBehind
        <5> QED BY <5>2 DEF d
      <4> QED BY <1>5, <1>9, <4>1, <4>2
    <3> QED BY <3>1
  <2>4. Chosen(Append(st, <<Head(t).name, Plain(Head(t).value)>>), G, D(b + 1))
    <3> HIDE DEF L, m, n, V, G, fl, D, q
    <3> QED BY <1>7, <2>2
  <2>5. b + 1 \in 0..m
    <3> HIDE DEF m
    <3> QED BY <1>4
  <2>6. At(c, w, From(t, 2), F, P, Append(st, <<Head(t).name, Plain(Head(t).value)>>), f, b + 1)
    BY <1>3, <2>1, <2>3, <2>4, <2>5 DEF At
  <2>7. b + 1 \in Nat
    OBVIOUS
  <2> QED BY <1>9, <2>6, <2>7 DEF ParsedAt
<1> QED BY <1>8, <1>9

\* Where the parser stops, only the operands are left.
LEMMA ParsingEnds ==
  ASSUME NEW c, NEW R, Terminator \in R, NEW w \in Seq(R), NEW t, NEW F, NEW P \in Seq(R),
         NEW st, ParsedAt(c, w, t, F, P, st), ~FlagNext(t)
  PROVE  Left(t) = P /\ Chosen(st, GivenAt(c, w), FlagsOf(c, w))
<1>0. PICK f : \E b \in Nat : At(c, w, t, F, P, st, f, b)
  BY DEF ParsedAt
<1>1. PICK b \in Nat : At(c, w, t, F, P, st, f, b)
  BY <1>0
<1> DEFINE m == Len(f)
<1>2. m \in Nat /\ (b < m => FlagNext(t)) /\ (b = m => Left(t) = P)
  BY <1>1, HeadFacts
<1>3. Ascending(f, Moves(c, w)) /\ b \in 0..m
      /\ Chosen(st, GivenAt(c, w), {f[j] : j \in 1..b} \cap FlagsOf(c, w))
  BY <1>1 DEF At
<1>4. b = m
  <2> HIDE DEF m
  <2> QED BY <1>2, <1>3
<1>5. Left(t) = P
  BY <1>2, <1>4
<1>6. {f[j] : j \in 1..b} = Moves(c, w)
  BY <1>3, <1>4 DEF Ascending
<1>7. FlagsOf(c, w) \subseteq Moves(c, w)
  BY DEF FlagsOf, Moves, MovesOf
<1> QED BY <1>3, <1>5, <1>6, <1>7

=============================================================================
