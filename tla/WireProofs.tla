----------------------------- MODULE WireProofs -----------------------------
(***************************************************************************)
(* What goes on the wire, for every scenario.  The first parts are facts   *)
(* about header dicts: assignment, removal, the merging loop, the blocks   *)
(* of profiles and presets, apply_context().  The rest is the redirect     *)
(* loop of the requests-style Session: the inductive invariant WireInv     *)
(* and, from it, that the headers fit the request, that credentials and    *)
(* cookies stay where they belong and that a chain of redirects ends.      *)
(*                                                                         *)
(* The loop of Update is unrolled without the induction theorems of the    *)
(* library: Climb is induction over the rounds, from the least round that  *)
(* fails (WFMin).                                                          *)
(***************************************************************************)
EXTENDS FacadeSteps, SequenceTheorems, WellFoundedInduction, TLAPS

(* ---------------------------- header dicts ----------------------------- *)

\* The order of the naturals as a relation, for WFMin.
Less == {p \in Nat \X Nat : p[1] < p[2]}

\* The order of the naturals is well founded.
LEMMA LessWF == IsWellFoundedOn(Less, Nat)
  BY NatLessThanWellFounded, Zenon DEF OpToRel, Less

\* A set of naturals that is not empty has a least element.
LEMMA Least ==
    ASSUME NEW T, T \subseteq Nat, T # {}
    PROVE  \E x \in T : \A y \in T : x <= y
<1>1. PICK x \in T : \A y \in T : <<y, x>> \notin Less
  BY LessWF, WFMin, Zenon
<1>2. \A y \in T : x <= y
  <2> TAKE y \in T
  <2>1. x \in Nat /\ y \in Nat /\ ~(y < x)
    BY <1>1 DEF Less
  <2>2. QED
    BY <2>1
<1>3. QED
  BY <1>2

\* A header dict is a sequence of <<name, value>> entries.
IsDict(d) == \E S : d \in Seq(S)

\* The entry numbers under a folded name.
Places(d, x) == {i \in DOMAIN d : Fold(d[i][1]) = x}

\* No two entries spell one name.
Once(d, x) == \A i, j \in Places(d, x) : i = j

\* The entries, each under its folded name.
Entries(d) == {<<Fold(d[i][1]), d[i][2]>> : i \in DOMAIN d}

\* i is the first entry under any spelling of n.
First(d, n, i) == i \in Places(d, Fold(n)) /\ \A j \in Places(d, Fold(n)) : i <= j

\* A name is there when some entry goes by it.
LEMMA HasPlaces == \A d, n : Has(d, n) <=> Places(d, Fold(n)) # {}
  BY DEF Has, Folded, Names, Places

\* At finds the first spelling of a name, as the lookup loops of _core.py do.
LEMMA FirstIs ==
    ASSUME NEW d, IsDict(d), NEW n
    PROVE  /\ Has(d, n) => First(d, n, At(d, n))
           /\ \A i : First(d, n, i) => Has(d, n) /\ At(d, n) = i
<1>0. PICK S : d \in Seq(S)
  BY DEF IsDict
<1> DEFINE P == Places(d, Fold(n))
           A(i) == Fold(d[i][1]) = Fold(n) /\ \A j \in 1..(i - 1) : Fold(d[j][1]) # Fold(n)
<1>1. DOMAIN d = 1..Len(d) /\ Len(d) \in Nat
  BY <1>0
<1>2. P \subseteq Nat /\ P \subseteq DOMAIN d
  BY <1>1 DEF Places
<1>3. \A i \in DOMAIN d : A(i) <=> First(d, n, i)
  BY <1>1 DEF Places, First
<1>4. \A i : First(d, n, i) => i \in DOMAIN d
  BY DEF First, Places
<1>5. At(d, n) = CHOOSE i \in DOMAIN d : A(i)
  BY DEF At
<1>6. \A i, j : First(d, n, i) /\ First(d, n, j) => i = j
  BY <1>2 DEF First
<1>7. \A i : First(d, n, i) => First(d, n, At(d, n))
  <2> HIDE DEF A
  <2>1. QED
    BY <1>3, <1>4, <1>5
<1>8. P # {} => \E i : First(d, n, i)
  BY <1>2, Least DEF First
<1>9. \A i : First(d, n, i) => P # {}
  BY DEF First
<1>10. QED
  BY <1>6, <1>7, <1>8, <1>9, HasPlaces

\* Induction up to a bound, for the numbers of a set.
LEMMA Climb ==
    ASSUME NEW L \in Nat, NEW G, 0 \in G, \A n \in 1..L : n - 1 \in G => n \in G
    PROVE  \A n \in 0..L : n \in G
<1> DEFINE T == (0..L) \ G
<1>1. SUFFICES ASSUME T # {} PROVE FALSE
  OBVIOUS
<1>2. PICK m \in T : \A y \in T : m <= y
  <2>1. T \subseteq Nat
    OBVIOUS
  <2>2. QED
    BY <1>1, <2>1, Least
<1>3. m \in 1..L /\ m - 1 \in 0..L /\ m - 1 \notin T
  BY <1>2
<1>4. QED
  BY <1>2, <1>3

\* Assignment: the name is there with the value, every other name is as it
\* was.
LEMMA OverrideIs ==
    ASSUME NEW d, IsDict(d), NEW n, NEW v, NEW o, o = Override(d, n, v)
    PROVE  /\ IsDict(o)
           /\ Entries(o) \subseteq Entries(d) \cup {<<Fold(n), v>>}
           /\ Folded(o) = Folded(d) \cup {Fold(n)}
           /\ \A x : Once(d, x) => Once(o, x)
           /\ ValueOf(o, n) = v
           /\ \A m : Has(d, m) /\ Fold(m) # Fold(n) => ValueOf(o, m) = ValueOf(d, m)
<1>0. PICK S : d \in Seq(S)
  BY DEF IsDict
<1>1. CASE Has(d, n)
  <2> DEFINE k == At(d, n)
             w == <<d[k][1], v>>
  <2>1. First(d, n, k)
    BY <1>1, FirstIs
  <2>2. k \in DOMAIN d /\ Fold(d[k][1]) = Fold(n)
    BY <2>1 DEF First, Places
  <2>3. o = [d EXCEPT ![k] = w]
    BY <1>1 DEF Override
  <2>4. w[1] = d[k][1] /\ w[2] = v
    OBVIOUS
  <2> HIDE DEF w
  <2>5. o \in Seq(S \cup {w}) /\ DOMAIN o = DOMAIN d
    BY <1>0, <2>2, <2>3
  <2>6. o[k] = w /\ \A i \in DOMAIN d : i # k => o[i] = d[i]
    BY <2>2, <2>3
  <2>7. \A i \in DOMAIN d : o[i][1] = d[i][1]
    BY <2>4, <2>6
  <2> HIDE DEF k
  <2>8. \A x : Places(o, x) = Places(d, x)
    BY <2>5, <2>7 DEF Places
  <2>9. IsDict(o)
    BY <2>5 DEF IsDict
  <2>10. Entries(o) \subseteq Entries(d) \cup {<<Fold(n), v>>}
    <3> SUFFICES ASSUME NEW i \in DOMAIN o
                 PROVE  \/ <<Fold(o[i][1]), o[i][2]>> \in Entries(d)
                        \/ <<Fold(o[i][1]), o[i][2]>> = <<Fold(n), v>>
      BY DEF Entries
    <3>1. CASE i = k
      BY <2>2, <2>4, <2>6, <3>1
    <3>2. CASE i # k
      BY <2>5, <2>6, <3>2 DEF Entries
    <3>3. QED
      BY <3>1, <3>2
  <2>11. Folded(o) = Folded(d) \cup {Fold(n)}
    BY <1>1, <2>5, <2>7 DEF Folded, Names, Has
  <2>12. \A m, i : First(o, m, i) <=> First(d, m, i)
    BY <2>8 DEF First
  <2>13. ValueOf(o, n) = v
    <3>1. At(o, n) = k
      BY <2>1, <2>9, <2>12, FirstIs
    <3>2. QED
      BY <2>4, <2>6, <3>1 DEF ValueOf
  <2>14. ASSUME NEW m, Has(d, m), Fold(m) # Fold(n)
         PROVE  ValueOf(o, m) = ValueOf(d, m)
    <3>1. First(d, m, At(d, m))
      BY <2>14, FirstIs
    <3>2. At(o, m) = At(d, m)
      BY <2>9, <2>12, <3>1, FirstIs
    <3>3. At(d, m) # k /\ At(d, m) \in DOMAIN d
      BY <2>2, <2>14, <3>1 DEF First, Places
    <3>4. QED
      BY <2>6, <3>2, <3>3 DEF ValueOf
  <2>15. QED
    BY <2>8, <2>9, <2>10, <2>11, <2>13, <2>14 DEF Once
<1>2. CASE ~Has(d, n)
  <2> DEFINE w == <<n, v>>
             l == Len(d) + 1
  <2>1. o = Append(d, w) /\ Len(d) \in Nat /\ DOMAIN d = 1..Len(d)
    BY <1>0, <1>2 DEF Override
  <2>2. w[1] = n /\ w[2] = v
    OBVIOUS
  <2> HIDE DEF w
  <2>3. o \in Seq(S \cup {w}) /\ DOMAIN o = 1..l
    BY <1>0, <2>1
  <2>4. o[l] = w /\ \A i \in DOMAIN d : o[i] = d[i]
    BY <1>0, <2>1
  <2>5. \A i \in DOMAIN d : Fold(d[i][1]) # Fold(n)
    BY <1>2 DEF Has, Folded, Names
  <2>6. DOMAIN o = DOMAIN d \cup {l} /\ l \notin DOMAIN d /\ \A i \in DOMAIN d : i < l
    BY <2>1, <2>3
  <2> HIDE DEF l
  <2>7. IsDict(o)
    BY <2>3 DEF IsDict
  <2>8. \A x : x # Fold(n) => Places(o, x) = Places(d, x)
    BY <2>2, <2>4, <2>6 DEF Places
  <2>9. Places(o, Fold(n)) = {l} /\ Places(d, Fold(n)) = {}
    BY <2>2, <2>4, <2>5, <2>6 DEF Places
  <2>10. Entries(o) \subseteq Entries(d) \cup {<<Fold(n), v>>}
    BY <2>2, <2>4, <2>6 DEF Entries
  <2>11. Folded(o) = Folded(d) \cup {Fold(n)}
    BY <2>2, <2>4, <2>6 DEF Folded, Names
  <2>12. \A x : Once(d, x) => Once(o, x)
    BY <2>8, <2>9 DEF Once
  <2>13. ValueOf(o, n) = v
    <3>1. First(o, n, l)
      <4>1. l \in Nat
        BY <2>1 DEF l
      <4>2. QED
        BY <2>9, <4>1 DEF First
    <3>2. QED
      BY <2>2, <2>4, <2>7, <3>1, FirstIs DEF ValueOf
  <2>14. ASSUME NEW m, Has(d, m), Fold(m) # Fold(n)
         PROVE  ValueOf(o, m) = ValueOf(d, m)
    <3>1. First(d, m, At(d, m))
      BY <2>14, FirstIs
    <3>2. At(o, m) = At(d, m)
      <4>1. First(o, m, At(d, m))
        BY <2>8, <2>14, <3>1 DEF First
      <4>2. QED
        BY <2>7, <4>1, FirstIs
    <3>3. At(d, m) \in DOMAIN d
      BY <3>1 DEF First, Places
    <3>4. QED
      BY <2>4, <3>2, <3>3 DEF ValueOf
  <2>15. QED
    BY <2>7, <2>10, <2>11, <2>12, <2>13, <2>14
<1>3. QED
  BY <1>1, <1>2

\* Removal of the first spelling.
LEMMA WithoutIs ==
    ASSUME NEW d, IsDict(d), NEW n, NEW o, o = Without(d, n)
    PROVE  /\ IsDict(o)
           /\ Entries(o) \subseteq Entries(d)
           /\ Folded(o) \subseteq Folded(d)
           /\ Folded(d) \subseteq Folded(o) \cup {Fold(n)}
           /\ \A x : Once(d, x) => Once(o, x)
           /\ Once(d, Fold(n)) => Fold(n) \notin Folded(o)
           /\ \A m : Has(d, m) /\ Fold(m) # Fold(n) => ValueOf(o, m) = ValueOf(d, m)
<1>0. PICK S : d \in Seq(S)
  BY DEF IsDict
<1>1. CASE ~Has(d, n)
  BY <1>1 DEF Without, Has
<1>2. CASE Has(d, n)
  <2> DEFINE k == At(d, n)
             p(i) == IF i < k THEN i ELSE i + 1
  <2>1. First(d, n, k)
    BY <1>2, FirstIs
  <2>2. k \in 1..Len(d) /\ Fold(d[k][1]) = Fold(n) /\ Len(d) \in Nat /\ DOMAIN d = 1..Len(d)
    BY <1>0, <2>1 DEF First, Places
  <2>3. o = SubSeq(d, 1, k - 1) \o SubSeq(d, k + 1, Len(d))
    BY <1>2 DEF Without, RemoveAt
  <2> HIDE DEF k
  <2> DEFINE a == SubSeq(d, 1, k - 1)
             b == SubSeq(d, k + 1, Len(d))
  <2>a. a \in Seq(S) /\ Len(a) = k - 1 /\ \A i \in 1..(k - 1) : a[i] = d[i]
    <3>1. 1 \in Int /\ k - 1 \in Int /\ \A i \in 1..(k - 1) : d[i] \in S
      BY <1>0, <2>2
    <3>2. /\ a \in Seq(S) /\ Len(a) = (IF 1 <= k - 1 THEN (k - 1) - 1 + 1 ELSE 0)
          /\ \A i \in 1..((k - 1) - 1 + 1) : a[i] = d[1 + i - 1]
      BY <3>1, SubSeqProperties
    <3>3. QED
      BY <2>2, <3>2
  <2>b. b \in Seq(S) /\ Len(b) = Len(d) - k /\ \A i \in 1..(Len(d) - k) : b[i] = d[i + k]
    <3>1. k + 1 \in Int /\ Len(d) \in Int /\ \A i \in (k + 1)..Len(d) : d[i] \in S
      BY <1>0, <2>2
    <3>2. /\ b \in Seq(S) /\ Len(b) = (IF k + 1 <= Len(d) THEN Len(d) - (k + 1) + 1 ELSE 0)
          /\ \A i \in 1..(Len(d) - (k + 1) + 1) : b[i] = d[(k + 1) + i - 1]
      BY <3>1, SubSeqProperties
    <3>3. \A l \in Nat : \A m \in 1..l :
              /\ l - (m + 1) + 1 = l - m
              /\ l - m = IF m + 1 <= l THEN l - (m + 1) + 1 ELSE 0
              /\ \A i \in 1..(l - m) : (m + 1) + i - 1 = i + m
      OBVIOUS
    <3> HIDE DEF b
    <3>4. QED
      BY ONLY <2>2, <3>2, <3>3
  <2>c. o = a \o b
    BY <2>3
  <2> HIDE DEF a, b
  <2>4. o \in Seq(S) /\ Len(o) = Len(d) - 1 /\ DOMAIN o = 1..(Len(d) - 1)
    <3>1. o \in Seq(S) /\ Len(o) = Len(a) + Len(b)
      BY <2>a, <2>b, <2>c, ConcatProperties
    <3>2. Len(o) = Len(d) - 1
      BY <2>2, <2>a, <2>b, <3>1
    <3>3. QED
      BY <3>1, <3>2
  <2>5. \A i \in DOMAIN o : p(i) \in DOMAIN d /\ p(i) # k
    BY <2>2, <2>4
  <2>6. \A i \in DOMAIN o : o[i] = d[p(i)]
    <3>1. \A i \in 1..(Len(a) + Len(b)) : o[i] = IF i <= Len(a) THEN a[i] ELSE b[i - Len(a)]
      BY <2>a, <2>b, <2>c, ConcatProperties
    <3> TAKE i \in DOMAIN o
    <3>2. CASE i < k
      BY <2>2, <2>4, <2>a, <2>b, <3>1, <3>2
    <3>3. CASE ~(i < k)
      <4>1. i - (k - 1) \in 1..(Len(d) - k) /\ (i - (k - 1)) + k = i + 1
        BY <2>2, <2>4, <3>3
      <4>2. o[i] = b[i - (k - 1)]
        BY <2>2, <2>4, <2>a, <2>b, <3>1, <3>3
      <4>3. b[i - (k - 1)] = d[(i - (k - 1)) + k]
        BY <2>b, <4>1
      <4>4. QED
        BY <3>3, <4>1, <4>2, <4>3
    <3>4. QED
      BY <3>2, <3>3
  <2>7. \A j \in DOMAIN d \ {k} : \E i \in DOMAIN o : p(i) = j
    <3> TAKE j \in DOMAIN d \ {k}
    <3>1. CASE j < k
      BY <2>2, <2>4, <3>1
    <3>2. CASE ~(j < k)
      <4>1. j - 1 \in DOMAIN o /\ p(j - 1) = j
        BY <2>2, <2>4, <3>2
      <4>2. QED
        BY <4>1
    <3>3. QED
      BY <3>1, <3>2
  <2>8. \A i, j \in DOMAIN o : i < j <=> p(i) < p(j)
    BY <2>2, <2>4
  <2>9. \A i, j \in DOMAIN o : (i = j <=> p(i) = p(j)) /\ (i <= j <=> p(i) <= p(j))
    BY <2>2, <2>4
  <2> HIDE DEF p
  <2>10. IsDict(o)
    BY <2>4 DEF IsDict
  <2>11. \A x : \A i : i \in Places(o, x) <=> i \in DOMAIN o /\ p(i) \in Places(d, x)
    BY <2>5, <2>6 DEF Places
  <2>12. Entries(o) \subseteq Entries(d)
    BY <2>5, <2>6 DEF Entries
  <2>13. Folded(o) \subseteq Folded(d)
    BY <2>5, <2>6 DEF Folded, Names
  <2>14. Folded(d) \subseteq Folded(o) \cup {Fold(n)}
    <3> SUFFICES ASSUME NEW j \in DOMAIN d, Fold(d[j][1]) # Fold(n)
                 PROVE  Fold(d[j][1]) \in Folded(o)
      BY DEF Folded, Names
    <3>1. PICK i \in DOMAIN o : p(i) = j
      BY <2>2, <2>7
    <3>2. QED
      BY <2>6, <3>1 DEF Folded, Names
  <2>15. \A x : Once(d, x) => Once(o, x)
    BY <2>9, <2>11 DEF Once
  <2>16. Once(d, Fold(n)) => Fold(n) \notin Folded(o)
    <3> SUFFICES ASSUME Once(d, Fold(n)), NEW i \in DOMAIN o, Fold(o[i][1]) = Fold(n)
                 PROVE  FALSE
      BY DEF Folded, Names
    <3>1. p(i) \in Places(d, Fold(n)) /\ k \in Places(d, Fold(n))
      BY <2>2, <2>5, <2>6 DEF Places
    <3>2. QED
      BY <2>5, <3>1 DEF Once
  <2>17. ASSUME NEW m, Has(d, m), Fold(m) # Fold(n)
         PROVE  ValueOf(o, m) = ValueOf(d, m)
    <3>1. First(d, m, At(d, m))
      BY <2>17, FirstIs
    <3>2. At(d, m) \in DOMAIN d \ {k}
      BY <2>2, <2>17, <3>1 DEF First, Places
    <3>3. PICK i \in DOMAIN o : p(i) = At(d, m)
      BY <2>7, <3>2
    <3>4. First(o, m, i)
      <4>1. i \in Places(o, Fold(m))
        BY <2>11, <3>1, <3>3 DEF First
      <4>2. ASSUME NEW j \in Places(o, Fold(m))
            PROVE  i <= j
        <5>1. j \in DOMAIN o /\ p(j) \in Places(d, Fold(m))
          BY <2>11, <4>2
        <5>2. p(i) <= p(j)
          BY <3>1, <3>3, <5>1 DEF First
        <5>3. QED
          BY <2>9, <5>1, <5>2
      <4>3. QED
        BY <4>1, <4>2 DEF First
    <3>5. At(o, m) = i
      BY <2>10, <3>4, FirstIs
    <3>6. QED
      BY <2>6, <3>3, <3>5 DEF ValueOf
  <2>18. QED
    BY <2>10, <2>12, <2>13, <2>14, <2>15, <2>16, <2>17
<1>3. QED
  BY <1>1, <1>2

\* One entry of a merge: as an assignment, unless the name is kept.
LEMMA PutIs ==
    ASSUME NEW d, IsDict(d), NEW e, NEW K, NEW o, o = Put(d, e, K)
    PROVE  /\ IsDict(o)
           /\ Entries(o) \subseteq Entries(d) \cup {<<Fold(e[1]), e[2]>>}
           /\ Folded(o) = Folded(d) \cup {Fold(e[1])}
           /\ \A x : Once(d, x) => Once(o, x)
           /\ Fold(e[1]) \notin K => ValueOf(o, e[1]) = e[2]
           /\ \A m : Has(d, m) /\ (Fold(m) # Fold(e[1]) \/ Fold(m) \in K)
                        => ValueOf(o, m) = ValueOf(d, m)
<1>1. CASE Has(d, e[1]) /\ Fold(e[1]) \in K
  BY <1>1 DEF Put, Has
<1>2. CASE ~(Has(d, e[1]) /\ Fold(e[1]) \in K)
  <2>1. o = Override(d, e[1], e[2])
    BY <1>2 DEF Put
  <2>2. \A m : Has(d, m) /\ Fold(m) \in K => Fold(m) # Fold(e[1])
    BY <1>2 DEF Has
  <2>3. QED
    BY <2>1, <2>2, OverrideIs
<1>3. QED
  BY <1>1, <1>2

\* The states of the dict along the loop of Update.
Along(f, d, e, K) ==
    /\ f[0] = d
    /\ \A n \in 1..Len(e) : f[n] = Put(f[n - 1], e[n], K)

\* The recursion of Update has a value: there is one state of the dict for
\* each round of the loop.
LEMMA UpdateRuns ==
    ASSUME NEW d, NEW e, Len(e) \in Nat, NEW K
    PROVE  \E f : Along(f, d, e, K) /\ Update(d, e, K) = f[Len(e)]
<1> DEFINE L == Len(e)
           R(f, l) == f = [n \in 0..l |-> IF n = 0 THEN d ELSE Put(f[n - 1], e[n], K)]
           G == {l \in 0..L : \E f : R(f, l)}
<1>1. 0 \in G
  <2> DEFINE f == [n \in 0..0 |-> d]
  <2>1. R(f, 0)
    OBVIOUS
  <2> HIDE DEF f
  <2>2. QED
    BY <2>1
<1>2. ASSUME NEW l \in 1..L, l - 1 \in G
      PROVE  l \in G
  <2>1. PICK g : R(g, l - 1)
    BY <1>2
  <2> DEFINE f == [n \in 0..l |-> IF n = l THEN Put(g[l - 1], e[l], K) ELSE g[n]]
  <2>2. \A n \in 0..(l - 1) : g[n] = IF n = 0 THEN d ELSE Put(g[n - 1], e[n], K)
    BY <2>1
  <2>3. \A n \in 0..(l - 1) : f[n] = g[n]
    OBVIOUS
  <2>4. \A n \in 0..l : f[n] = IF n = 0 THEN d ELSE Put(f[n - 1], e[n], K)
    <3> TAKE n \in 0..l
    <3>1. CASE n = l
      <4>1. n # 0 /\ n - 1 \in 0..(l - 1) /\ n - 1 = l - 1
        BY <3>1
      <4>2. f[n] = Put(g[l - 1], e[l], K)
        BY <3>1
      <4>3. f[n - 1] = g[l - 1]
        BY <2>3, <4>1
      <4> HIDE DEF f
      <4>4. QED
        BY <3>1, <4>1, <4>2, <4>3
    <3>2. CASE n # l
      <4>1. n \in 0..(l - 1) /\ (n # 0 => n - 1 \in 0..(l - 1))
        BY <3>2
      <4> HIDE DEF f
      <4>2. QED
        BY <2>2, <2>3, <4>1
    <3>3. QED
      BY <3>1, <3>2
  <2>5. f = [n \in 0..l |-> f[n]]
    OBVIOUS
  <2> HIDE DEF f
  <2>6. R(f, l)
    BY <2>4, <2>5
  <2>7. QED
    BY <2>6
<1>3. L \in G
  <2> HIDE DEF G
  <2>1. \A n \in 1..L : n - 1 \in G => n \in G
    BY <1>2
  <2>2. \A n \in 0..L : n \in G
    BY <1>1, <2>1, Climb
  <2>3. QED
    BY <2>2
<1>4. \E f : R(f, L)
  BY <1>3
<1> DEFINE put == CHOOSE f : R(f, L)
<1>5. R(put, L)
  BY <1>4
<1>6. Update(d, e, K) = put[L]
  BY DEF Update
<1> HIDE DEF put
<1>7. Along(put, d, e, K)
  BY <1>5 DEF Along
<1>8. QED
  BY <1>6, <1>7

\* A dict laid over another: all names of both, of the values of either, the
\* new value where the name is not kept and the old one where it is, or
\* where there is no new one.
LEMMA UpdateIs ==
    ASSUME NEW d, IsDict(d), NEW e, IsDict(e), NEW K, NEW u, u = Update(d, e, K)
    PROVE  /\ IsDict(u)
           /\ Entries(u) \subseteq Entries(d) \cup Entries(e)
           /\ Folded(u) = Folded(d) \cup Folded(e)
           /\ \A x : Once(d, x) => Once(u, x)
           /\ \A m : Has(d, m) /\ (Fold(m) \notin Folded(e) \/ Fold(m) \in K)
                        => ValueOf(u, m) = ValueOf(d, m)
           /\ \A i \in DOMAIN e :
                 Once(e, Fold(e[i][1])) /\ Fold(e[i][1]) \notin K
                     => ValueOf(u, e[i][1]) = e[i][2]
<1>0. PICK S : e \in Seq(S)
  BY DEF IsDict
<1>1. Len(e) \in Nat /\ DOMAIN e = 1..Len(e)
  BY <1>0
<1>2. PICK f : Along(f, d, e, K) /\ u = f[Len(e)]
  BY <1>1, UpdateRuns
<1> DEFINE L == Len(e)
           D(n) == IsDict(f[n])
           E(n) == Entries(f[n]) \subseteq Entries(d) \cup Entries(e)
           F(n) == Folded(f[n]) = Folded(d) \cup {Fold(e[i][1]) : i \in 1..n}
           O(n) == \A x : Once(d, x) => Once(f[n], x)
           V(n) == \A m : Has(d, m) /\ (Fold(m) \notin Folded(e) \/ Fold(m) \in K)
                              => ValueOf(f[n], m) = ValueOf(d, m)
           W(n) == \A i \in 1..n :
                       /\ \A j \in (i + 1)..n : Fold(e[j][1]) # Fold(e[i][1])
                       /\ Fold(e[i][1]) \notin K
                       => ValueOf(f[n], e[i][1]) = e[i][2]
           G == {n \in 0..L : D(n) /\ E(n) /\ F(n) /\ O(n) /\ V(n) /\ W(n)}
<1>3. 0 \in G
  <2>1. f[0] = d /\ 1..0 = {} /\ 0 \in 0..L
    BY <1>1, <1>2 DEF Along
  <2>2. QED
    BY <2>1
<1>4. ASSUME NEW n \in 1..L, n - 1 \in G
      PROVE  n \in G
  <2> DEFINE a == f[n - 1]
             o == f[n]
             p == e[n]
  <2>1. o = Put(a, p, K) /\ n \in DOMAIN e
    BY <1>1, <1>2 DEF Along
  <2>2. D(n - 1) /\ E(n - 1) /\ F(n - 1) /\ O(n - 1) /\ V(n - 1) /\ W(n - 1)
    BY <1>4
  <2>3. /\ IsDict(o)
        /\ Entries(o) \subseteq Entries(a) \cup {<<Fold(p[1]), p[2]>>}
        /\ Folded(o) = Folded(a) \cup {Fold(p[1])}
        /\ \A x : Once(a, x) => Once(o, x)
        /\ Fold(p[1]) \notin K => ValueOf(o, p[1]) = p[2]
        /\ \A m : Has(a, m) /\ (Fold(m) # Fold(p[1]) \/ Fold(m) \in K)
                     => ValueOf(o, m) = ValueOf(a, m)
    BY <2>1, <2>2, PutIs
  <2> HIDE DEF a, o
  <2>4. E(n)
    <3>1. <<Fold(p[1]), p[2]>> \in Entries(e)
      BY <2>1 DEF Entries
    <3>2. Entries(o) \subseteq Entries(d) \cup Entries(e)
      BY <2>2, <2>3, <3>1 DEF a
    <3>3. QED
      BY <3>2 DEF o
  <2>5. F(n)
    <3>1. 1..n = (1..(n - 1)) \cup {n}
      BY <1>1
    <3>2. {Fold(e[i][1]) : i \in 1..n} = {Fold(e[i][1]) : i \in 1..(n - 1)} \cup {Fold(p[1])}
      BY <3>1
    <3>3. QED
      BY <2>2, <2>3, <3>2 DEF a, o
  <2>6. O(n)
    BY <2>2, <2>3 DEF a, o
  <2>7. V(n)
    <3> SUFFICES ASSUME NEW m, Has(d, m), Fold(m) \notin Folded(e) \/ Fold(m) \in K
                 PROVE  ValueOf(o, m) = ValueOf(d, m)
      BY DEF o
    <3>1. Has(a, m)
      BY <2>2 DEF a, Has
    <3>2. Fold(p[1]) \in Folded(e)
      BY <2>1 DEF Folded, Names
    <3>3. ValueOf(a, m) = ValueOf(d, m)
      BY <2>2 DEF a
    <3>4. QED
      BY <2>3, <3>1, <3>2, <3>3
  <2>8. W(n)
    <3> SUFFICES ASSUME NEW i \in 1..n,
                        \A j \in (i + 1)..n : Fold(e[j][1]) # Fold(e[i][1]),
                        Fold(e[i][1]) \notin K
                 PROVE  ValueOf(o, e[i][1]) = e[i][2]
      BY DEF o
    <3>1. CASE i = n
      BY <2>3, <3>1
    <3>2. CASE i # n
      <4>1. i \in 1..(n - 1) /\ n \in (i + 1)..n
        BY <1>1, <3>2
      <4>2. \A j \in (i + 1)..(n - 1) : j \in (i + 1)..n
        BY <1>1
      <4>3. ValueOf(a, e[i][1]) = e[i][2]
        BY <2>2, <4>1, <4>2 DEF a
      <4>4. Has(a, e[i][1])
        BY <2>2, <4>1 DEF a, Has
      <4>5. Fold(e[i][1]) # Fold(p[1])
        BY <4>1
      <4>6. QED
        BY <2>3, <4>3, <4>4, <4>5
    <3>3. QED
      BY <3>1, <3>2
  <2>9. D(n)
    BY <2>3 DEF o
  <2> HIDE DEF D, E, F, O, V, W
  <2>10. QED
    BY <1>1, <2>4, <2>5, <2>6, <2>7, <2>8, <2>9
<1>5. L \in G
  <2> HIDE DEF G
  <2>1. \A n \in 1..L : n - 1 \in G => n \in G
    BY <1>4
  <2>2. \A n \in 0..L : n \in G
    BY <1>1, <1>3, <2>1, Climb
  <2>3. QED
    BY <1>1, <2>2
<1>6. D(L) /\ E(L) /\ F(L) /\ O(L) /\ V(L) /\ W(L)
  BY <1>5
<1>7. Folded(u) = Folded(d) \cup Folded(e)
  <2>1. Folded(e) = {Fold(e[i][1]) : i \in 1..L}
    BY <1>1 DEF Folded, Names
  <2>2. QED
    BY <1>2, <1>6, <2>1
<1>8. ASSUME NEW i \in DOMAIN e, Once(e, Fold(e[i][1])), Fold(e[i][1]) \notin K
      PROVE  ValueOf(u, e[i][1]) = e[i][2]
  <2>1. \A j \in (i + 1)..L : j \in DOMAIN e /\ j # i
    BY <1>1, <1>8
  <2>2. \A j \in (i + 1)..L : Fold(e[j][1]) # Fold(e[i][1])
    BY <1>8, <2>1 DEF Once, Places
  <2>3. QED
    BY <1>1, <1>2, <1>6, <1>8, <2>2
<1>9. QED
  BY <1>2, <1>6, <1>7, <1>8

(* ---------------------------- header blocks ---------------------------- *)

\* Names that belong to the request; of the blocks only a caller's own
\* default_headers may hold them.
OfRequest == {"authorization", "cookie", "content-type", "content-length"}

\* The names apply_context() removes outside a navigation.
OfNavigation == {"sec-fetch-user", "upgrade-insecure-requests"}

\* A header block brings the names a context removes at most once.
BlockSound(d) == IsDict(d) /\ \A x \in OfNavigation : Once(d, x)

\* A block without the names of a navigation.
PlainBlock(d) == IsDict(d) /\ Folded(d) \cap OfNavigation = {}

\* str.lower() of the names the proofs speak of.
LEMMA FoldTable ==
    /\ Fold("User-Agent") = "user-agent" /\ Fold("Accept") = "accept"
    /\ Fold("Accept-Encoding") = "accept-encoding" /\ Fold("Accept-Language") = "accept-language"
    /\ Fold("Connection") = "connection" /\ Fold("TE") = "te"
    /\ Fold("Upgrade-Insecure-Requests") = "upgrade-insecure-requests"
    /\ Fold("Sec-Fetch-Dest") = "sec-fetch-dest" /\ Fold("Sec-Fetch-Mode") = "sec-fetch-mode"
    /\ Fold("Sec-Fetch-Site") = "sec-fetch-site" /\ Fold("Sec-Fetch-User") = "sec-fetch-user"
    /\ Fold("Authorization") = "authorization" /\ Fold("Cookie") = "cookie"
    /\ Fold("Content-Type") = "content-type" /\ Fold("Content-Length") = "content-length"
    /\ \A n \in {"sec-ch-ua", "sec-ch-ua-mobile", "sec-ch-ua-platform",
                 "sec-ch-ua-full-version-list", "sec-ch-ua-platform-version",
                 "sec-ch-ua-arch", "sec-ch-ua-bitness", "sec-ch-ua-model",
                 "sec-ch-ua-wow64", "accept", "x-mark", "content-type", "priority",
                 "sec-fetch-mode", "sec-fetch-dest", "sec-fetch-site", "sec-fetch-user",
                 "upgrade-insecure-requests"} : Fold(n) = n
  BY DEF Fold

\* One dict after another has the names of both.
LEMMA Joined ==
    ASSUME NEW a, IsDict(a), NEW b, IsDict(b)
    PROVE  IsDict(a \o b) /\ Folded(a \o b) = Folded(a) \cup Folded(b)
<1>1. PICK S : a \in Seq(S)
  BY DEF IsDict
<1>2. PICK T : b \in Seq(T)
  BY DEF IsDict
<1> DEFINE U == S \cup T
           c == a \o b
<1>3. a \in Seq(U) /\ b \in Seq(U)
  BY <1>1, <1>2
<1>4. c \in Seq(U)
  BY <1>3, ConcatProperties
<1>5. Len(c) = Len(a) + Len(b)
  BY <1>3, ConcatProperties
<1>6. \A i \in 1..(Len(a) + Len(b)) : c[i] = IF i <= Len(a) THEN a[i] ELSE b[i - Len(a)]
  BY <1>3, ConcatProperties
<1>7. /\ DOMAIN a = 1..Len(a) /\ DOMAIN b = 1..Len(b) /\ DOMAIN c = 1..Len(c)
      /\ Len(a) \in Nat /\ Len(b) \in Nat
  BY <1>1, <1>2, <1>4
<1> HIDE DEF c
<1>8. \A i \in DOMAIN a : i \in DOMAIN c /\ c[i] = a[i]
  BY <1>5, <1>6, <1>7
<1>9. \A i \in DOMAIN b : Len(a) + i \in DOMAIN c /\ c[Len(a) + i] = b[i]
  <2> TAKE i \in DOMAIN b
  <2>1. Len(a) + i \in 1..(Len(a) + Len(b)) /\ ~(Len(a) + i <= Len(a))
        /\ (Len(a) + i) - Len(a) = i
    BY <1>7
  <2>2. QED
    BY <1>5, <1>6, <1>7, <2>1
<1>10. \A i \in DOMAIN c : (\E j \in DOMAIN a : c[i] = a[j]) \/ (\E j \in DOMAIN b : c[i] = b[j])
  <2> TAKE i \in DOMAIN c
  <2>1. CASE i <= Len(a)
    BY <1>5, <1>6, <1>7, <2>1
  <2>2. CASE ~(i <= Len(a))
    <3>1. i - Len(a) \in DOMAIN b /\ c[i] = b[i - Len(a)]
      BY <1>5, <1>6, <1>7, <2>2
    <3>2. QED
      BY <3>1
  <2>3. QED
    BY <2>1, <2>2
<1>11. Folded(c) = Folded(a) \cup Folded(b)
  BY <1>8, <1>9, <1>10 DEF Folded, Names
<1>12. QED
  BY <1>4, <1>11 DEF IsDict, c

\* Names of the blocks that no navigation owns.
PlainNames ==
    {"User-Agent", "Accept", "Accept-Encoding", "Accept-Language", "Connection", "TE",
     "sec-ch-ua", "sec-ch-ua-mobile", "sec-ch-ua-platform", "sec-ch-ua-full-version-list",
     "sec-ch-ua-platform-version", "sec-ch-ua-arch", "sec-ch-ua-bitness", "sec-ch-ua-model",
     "sec-ch-ua-wow64", "accept", "x-mark", "Authorization", "Cookie", "Content-Type"}

\* A block of plain names is plain.
LEMMA PlainIs ==
    ASSUME NEW d, IsDict(d), \A i \in DOMAIN d : d[i][1] \in PlainNames
    PROVE  PlainBlock(d)
<1>1. \A n \in PlainNames : Fold(n) \notin OfNavigation
  BY FoldTable DEF PlainNames, OfNavigation
<1>2. QED
  BY <1>1 DEF PlainBlock, Folded, Names

\* A plain block is sound.
LEMMA PlainSound == \A d : PlainBlock(d) => BlockSound(d)
  BY DEF PlainBlock, BlockSound, Once, Places, Folded, Names

\* Plain blocks joined are plain.
LEMMA PlainJoined ==
    ASSUME NEW a, PlainBlock(a), NEW b, PlainBlock(b)
    PROVE  PlainBlock(a \o b)
  BY Joined DEF PlainBlock

\* The entries of a block are one of few tuples of plain names.
LEMMA ChromiumHead ==
    ASSUME NEW v1, NEW v2, NEW v3, NEW v4, NEW v5, NEW v6, NEW v7
    PROVE  PlainBlock(<< <<"User-Agent", v1>>, <<"sec-ch-ua", v2>>, <<"sec-ch-ua-mobile", v3>>,
                         <<"sec-ch-ua-platform", v4>>, <<"Accept", v5>>,
                         <<"Accept-Encoding", v6>>, <<"Accept-Language", v7>> >>)
<1> DEFINE d == << <<"User-Agent", v1>>, <<"sec-ch-ua", v2>>, <<"sec-ch-ua-mobile", v3>>,
                   <<"sec-ch-ua-platform", v4>>, <<"Accept", v5>>,
                   <<"Accept-Encoding", v6>>, <<"Accept-Language", v7>> >>
<1>1. d \in Seq({d[i] : i \in 1..7}) /\ DOMAIN d = 1..7
  OBVIOUS
<1>2. /\ d[1][1] = "User-Agent" /\ d[2][1] = "sec-ch-ua" /\ d[3][1] = "sec-ch-ua-mobile"
      /\ d[4][1] = "sec-ch-ua-platform" /\ d[5][1] = "Accept" /\ d[6][1] = "Accept-Encoding"
      /\ d[7][1] = "Accept-Language"
  OBVIOUS
<1> HIDE DEF d
<1>3. PlainBlock(d)
  BY <1>1, <1>2, PlainIs DEF IsDict, PlainNames
<1>4. QED
  BY <1>3 DEF d

\* So are the high-entropy hints, with sec-ch-ua-wow64 (Windows) and without.
LEMMA HintsTail ==
    ASSUME NEW v1, NEW v2, NEW v3, NEW v4, NEW v5, NEW v6, NEW d,
           d = << <<"sec-ch-ua-full-version-list", v1>>, <<"sec-ch-ua-platform-version", v2>>,
                  <<"sec-ch-ua-arch", v3>>, <<"sec-ch-ua-bitness", v4>>,
                  <<"sec-ch-ua-model", v5>>, <<"sec-ch-ua-wow64", v6>> >>
    PROVE  PlainBlock(d) /\ PlainBlock(Front(d))
<1>1. d \in Seq({d[i] : i \in 1..6}) /\ DOMAIN d = 1..6 /\ Len(d) = 6
  OBVIOUS
<1>2. /\ d[1][1] = "sec-ch-ua-full-version-list" /\ d[2][1] = "sec-ch-ua-platform-version"
      /\ d[3][1] = "sec-ch-ua-arch" /\ d[4][1] = "sec-ch-ua-bitness"
      /\ d[5][1] = "sec-ch-ua-model" /\ d[6][1] = "sec-ch-ua-wow64"
  OBVIOUS
<1>3. \A i \in 1..6 : d[i][1] \in PlainNames
  BY <1>2 DEF PlainNames
<1> DEFINE f == SubSeq(d, 1, 5)
           S == {d[i] : i \in 1..6}
<1>4. /\ f \in Seq(S) /\ Len(f) = (IF 1 <= 5 THEN 5 - 1 + 1 ELSE 0)
      /\ \A i \in 1..(5 - 1 + 1) : f[i] = d[1 + i - 1]
  <2>1. \A i \in 1..5 : d[i] \in S
    OBVIOUS
  <2> HIDE DEF S
  <2>2. QED
    BY <2>1, SubSeqProperties
<1>5. Front(d) = f
  BY <1>1 DEF Front
<1> HIDE DEF f, S
<1>6. DOMAIN f = 1..5 /\ \A i \in 1..5 : f[i] = d[i]
  BY <1>4
<1>7. PlainBlock(f)
  <2>1. IsDict(f)
    BY <1>4 DEF IsDict
  <2>2. \A i \in DOMAIN f : f[i][1] \in PlainNames
    BY <1>3, <1>6
  <2>3. QED
    BY <2>1, <2>2, PlainIs
<1>8. PlainBlock(d)
  BY <1>1, <1>3, PlainIs DEF IsDict
<1>9. QED
  BY <1>5, <1>7, <1>8

\* So are the blocks of four names (Safari, Firefox, cloudscraper).
LEMMA FourPlain ==
    ASSUME NEW v1, NEW v2, NEW v3, NEW v4
    PROVE  PlainBlock(<< <<"User-Agent", v1>>, <<"Accept", v2>>, <<"Accept-Encoding", v3>>,
                         <<"Accept-Language", v4>> >>)
<1> DEFINE d == << <<"User-Agent", v1>>, <<"Accept", v2>>, <<"Accept-Encoding", v3>>,
                   <<"Accept-Language", v4>> >>
<1>1. d \in Seq({d[i] : i \in 1..4}) /\ DOMAIN d = 1..4
  OBVIOUS
<1>2. /\ d[1][1] = "User-Agent" /\ d[2][1] = "Accept" /\ d[3][1] = "Accept-Encoding"
      /\ d[4][1] = "Accept-Language"
  OBVIOUS
<1> HIDE DEF d
<1>3. PlainBlock(d)
  BY <1>1, <1>2, PlainIs DEF IsDict, PlainNames
<1>4. QED
  BY <1>3 DEF d

\* So are the blocks of apps.
LEMMA ThreePlain ==
    ASSUME NEW n \in {"Accept-Language", "Connection"}, NEW v1, NEW v2, NEW v3
    PROVE  PlainBlock(<< <<"User-Agent", v1>>, <<"Accept-Encoding", v2>>, <<n, v3>> >>)
<1> DEFINE d == << <<"User-Agent", v1>>, <<"Accept-Encoding", v2>>, <<n, v3>> >>
<1>1. d \in Seq({d[i] : i \in 1..3}) /\ DOMAIN d = 1..3
  OBVIOUS
<1>2. d[1][1] = "User-Agent" /\ d[2][1] = "Accept-Encoding" /\ d[3][1] = n
  OBVIOUS
<1> HIDE DEF d
<1>3. PlainBlock(d)
  BY <1>1, <1>2, PlainIs DEF IsDict, PlainNames
<1>4. QED
  BY <1>3 DEF d

\* So is the block a caller brings as default_headers.
LEMMA UserPlain == PlainBlock(UserBlock)
<1> DEFINE d == UserBlock
<1>1. d \in Seq({d[i] : i \in 1..5}) /\ DOMAIN d = 1..5
  BY DEF UserBlock
<1>2. /\ d[1][1] = "accept" /\ d[2][1] = "x-mark" /\ d[3][1] = "Authorization"
      /\ d[4][1] = "Cookie" /\ d[5][1] = "Content-Type"
  BY DEF UserBlock
<1> HIDE DEF d
<1>3. PlainBlock(d)
  BY <1>1, <1>2, PlainIs DEF IsDict, PlainNames
<1>4. QED
  BY <1>3 DEF d

\* The block of a Firefox preset, the only one that is a navigation's.
LEMMA FirefoxSound == \A b : BlockSound(FirefoxPresetBlock(b))
<1> SUFFICES ASSUME NEW b PROVE BlockSound(FirefoxPresetBlock(b))
  OBVIOUS
<1> DEFINE d == FirefoxPresetBlock(b)
<1>0. d \in Seq({d[i] : i \in 1..10})
  BY DEF FirefoxPresetBlock
<1>1. DOMAIN d = 1..10
  BY DEF FirefoxPresetBlock
<1>2. /\ d[1][1] = "User-Agent" /\ d[2][1] = "Accept" /\ d[3][1] = "Accept-Language"
      /\ d[4][1] = "Accept-Encoding" /\ d[5][1] = "Upgrade-Insecure-Requests"
      /\ d[6][1] = "Sec-Fetch-Dest" /\ d[7][1] = "Sec-Fetch-Mode"
      /\ d[8][1] = "Sec-Fetch-Site" /\ d[9][1] = "Sec-Fetch-User" /\ d[10][1] = "TE"
  BY DEF FirefoxPresetBlock, Accept, Coding, Language
<1> HIDE DEF d
<1>3. IsDict(d)
  BY <1>0 DEF IsDict
<1>4. \A i \in 1..10 :
         /\ Fold(d[i][1]) = "upgrade-insecure-requests" => i = 5
         /\ Fold(d[i][1]) = "sec-fetch-user" => i = 9
  BY <1>2, FoldTable
<1>5. \A x \in OfNavigation : Once(d, x)
  <2>1. \A i, j \in DOMAIN d : \A x \in OfNavigation :
           Fold(d[i][1]) = x /\ Fold(d[j][1]) = x => i = j
    BY ONLY <1>1, <1>4 DEF OfNavigation
  <2>2. QED
    BY ONLY <2>1 DEF Once, Places
<1>6. QED
  BY <1>3, <1>5 DEF BlockSound, d

\* The blocks of the Chrome presets, generated and hand-written.
LEMMA ChromePresetPlain == \A b, os : PlainBlock(ChromePresetBlock(b, os))
<1> SUFFICES ASSUME NEW b, NEW os PROVE PlainBlock(ChromePresetBlock(b, os))
  OBVIOUS
<1> DEFINE h == HighEntropyHints(b, os)
           t == IF os = "windows" THEN h ELSE Front(h)
<1>1. PlainBlock(h) /\ PlainBlock(Front(h))
  BY HintsTail DEF HighEntropyHints
<1> HIDE DEF h
<1>2. PlainBlock(t)
  BY <1>1
<1>3. PICK c : PlainBlock(c) /\ ChromePresetBlock(b, os) = c \o t
  BY ChromiumHead DEF ChromePresetBlock, Accept, Coding, Language, h
<1>4. QED
  BY <1>2, <1>3, PlainJoined

\* The block of every identifier in DEFAULT_HEADERS.
LEMMA DefaultPlain == \A b : PlainBlock(DEFAULT_HEADERS(b))
<1> SUFFICES ASSUME NEW b PROVE PlainBlock(DEFAULT_HEADERS(b))
  OBVIOUS
<1>1. PlainBlock(ChromiumBlock(b))
  <2> DEFINE h == HighEntropyHints(b, "windows")
  <2>1. PlainBlock(h)
    BY HintsTail DEF HighEntropyHints
  <2> HIDE DEF h
  <2>2. PICK c : PlainBlock(c) /\ ChromiumBlock(b) = c \o h
    BY ChromiumHead DEF ChromiumBlock, Accept, Coding, Language, h
  <2>3. QED
    BY <2>1, <2>2, PlainJoined
<1>2. PlainBlock(SafariBlock(b))
  BY FourPlain DEF SafariBlock, Accept, Coding, Language
<1>3. PlainBlock(FirefoxBlock(b))
  BY FourPlain DEF FirefoxBlock, Accept, Coding, Language
<1>4. PlainBlock(CloudscraperBlock)
  BY FourPlain DEF CloudscraperBlock, Accept, Coding, Language
<1>5. PlainBlock(AppBlock(b))
  BY ThreePlain DEF AppBlock, Coding, Language
<1>6. QED
  BY <1>1, <1>2, <1>3, <1>4, <1>5 DEF DEFAULT_HEADERS

\* Whatever block a session has, a profile's, a preset's or the caller's.
LEMMA BlocksSound == \A b : BlockSound(Block(b))
<1> SUFFICES ASSUME NEW b PROVE BlockSound(Block(b))
  OBVIOUS
<1>1. PlainBlock(<<>>)
  <2>1. IsDict(<<>>)
    BY DEF IsDict
  <2>2. QED
    BY <2>1, PlainIs
<1>2. PlainBlock(UserBlock)
  BY UserPlain
<1>3. PlainBlock(ChromePresetBlock("chrome_152_macos", "macos") \o UserBlock)
  BY <1>2, ChromePresetPlain, PlainJoined
<1>4. \/ Block(b) = <<>> \/ Block(b) = UserBlock
      \/ Block(b) = ChromePresetBlock("chrome_152_macos", "macos") \o UserBlock
      \/ Block(b) = ChromePresetBlock(b, OsOf[b])
      \/ Block(b) = DEFAULT_HEADERS(b)
      \/ Block(b) = FirefoxPresetBlock(b)
  <2>1. CASE b \in {None, "empty", "NULL"}
    BY <2>1 DEF Block
  <2>2. CASE b \notin {None, "empty", "NULL"} /\ b = "mine"
    BY <2>2 DEF Block, None
  <2>3. CASE b \notin {None, "empty", "NULL", "mine"}
    BY <2>3 DEF Block
  <2>4. QED
    BY <2>1, <2>2, <2>3
<1>5. QED
  BY <1>1, <1>2, <1>3, <1>4, ChromePresetPlain, DefaultPlain, FirefoxSound, PlainSound

(* ----------------------- what a change leaves alone -------------------- *)

\* From d to o only the names N change, and those of K only when they were
\* not there.
Keeps(d, o, K, N) ==
    /\ IsDict(o)
    /\ \A e \in Entries(o) : e \in Entries(d) \/ e[1] \in N
    /\ \A x : Once(d, x) => Once(o, x)
    /\ \A m : Has(d, m) /\ (Fold(m) \in K \/ Fold(m) \notin N)
                 => Has(o, m) /\ ValueOf(o, m) = ValueOf(d, m)
    /\ Folded(o) \subseteq Folded(d) \cup N

\* Two changes after each other change the names of both.
LEMMA KeepsOn ==
    ASSUME NEW a, NEW b, NEW c, NEW K, NEW N, NEW M, Keeps(a, b, K, N), Keeps(b, c, K, M)
    PROVE  Keeps(a, c, K, N \cup M)
<1>1. /\ IsDict(c)
      /\ \A x : Once(a, x) => Once(c, x)
      /\ Folded(c) \subseteq Folded(a) \cup (N \cup M)
  BY DEF Keeps
<1>2. \A e \in Entries(c) : e \in Entries(a) \/ e[1] \in N \cup M
  BY DEF Keeps
<1>3. \A m : Has(a, m) /\ (Fold(m) \in K \/ Fold(m) \notin N \cup M)
                => Has(c, m) /\ ValueOf(c, m) = ValueOf(a, m)
  BY DEF Keeps
<1>4. QED
  BY <1>1, <1>2, <1>3 DEF Keeps

\* Entries go by the names of the dict.
LEMMA EntryName == \A d : \A e \in Entries(d) : e[1] \in Folded(d)
  BY DEF Entries, Folded, Names

\* A merge changes the names it brings, those of K only if they were absent.
LEMMA KeepsUpdate ==
    ASSUME NEW d, IsDict(d), NEW e, IsDict(e), NEW K
    PROVE  Keeps(d, Update(d, e, K), K, Folded(e))
<1> DEFINE u == Update(d, e, K)
<1>1. /\ IsDict(u)
      /\ Entries(u) \subseteq Entries(d) \cup Entries(e)
      /\ Folded(u) = Folded(d) \cup Folded(e)
      /\ \A x : Once(d, x) => Once(u, x)
      /\ \A m : Has(d, m) /\ (Fold(m) \notin Folded(e) \/ Fold(m) \in K)
                   => ValueOf(u, m) = ValueOf(d, m)
  BY UpdateIs
<1> HIDE DEF u
<1>2. \A x \in Entries(u) : x \in Entries(d) \/ x[1] \in Folded(e)
  BY <1>1, EntryName
<1>3. Keeps(d, u, K, Folded(e))
  BY <1>1, <1>2 DEF Keeps, Has
<1>4. QED
  BY <1>3 DEF u

\* So does one entry, which is there afterwards, with its value unless kept.
LEMMA KeepsPut ==
    ASSUME NEW d, IsDict(d), NEW n, NEW v, NEW K
    PROVE  /\ Keeps(d, Put(d, <<n, v>>, K), K, {Fold(n)})
           /\ Has(Put(d, <<n, v>>, K), n)
           /\ Fold(n) \notin K => ValueOf(Put(d, <<n, v>>, K), n) = v
<1> DEFINE e == <<n, v>>
           u == Put(d, e, K)
<1>0. e[1] = n /\ e[2] = v
  OBVIOUS
<1> HIDE DEF e
<1>1. /\ IsDict(u)
      /\ Entries(u) \subseteq Entries(d) \cup {<<Fold(e[1]), e[2]>>}
      /\ Folded(u) = Folded(d) \cup {Fold(e[1])}
      /\ \A x : Once(d, x) => Once(u, x)
      /\ Fold(e[1]) \notin K => ValueOf(u, e[1]) = e[2]
      /\ \A m : Has(d, m) /\ (Fold(m) # Fold(e[1]) \/ Fold(m) \in K)
                        => ValueOf(u, m) = ValueOf(d, m)
  BY PutIs
<1> HIDE DEF u
<1>2. \A x \in Entries(u) : x \in Entries(d) \/ x[1] \in {Fold(n)}
  BY <1>0, <1>1
<1>3. Keeps(d, u, K, {Fold(n)})
  BY <1>0, <1>1, <1>2 DEF Keeps, Has
<1>4. Has(u, n) /\ (Fold(n) \notin K => ValueOf(u, n) = v)
  BY <1>0, <1>1 DEF Has
<1>5. QED
  BY <1>3, <1>4 DEF u, e

\* No change keeps everything.
LEMMA KeepsSame == \A d, K, N : IsDict(d) => Keeps(d, d, K, N)
  BY DEF Keeps

\* Removing a name changes that name, and removes it when it is spelt once.
LEMMA KeepsWithout ==
    ASSUME NEW d, IsDict(d), NEW n, NEW K, Fold(n) \notin K
    PROVE  /\ Keeps(d, Without(d, n), K, {Fold(n)})
           /\ Once(d, Fold(n)) => ~Has(Without(d, n), n)
<1> DEFINE o == Without(d, n)
<1>1. /\ IsDict(o)
      /\ Entries(o) \subseteq Entries(d)
      /\ Folded(o) \subseteq Folded(d)
      /\ Folded(d) \subseteq Folded(o) \cup {Fold(n)}
      /\ \A x : Once(d, x) => Once(o, x)
      /\ Once(d, Fold(n)) => Fold(n) \notin Folded(o)
      /\ \A m : Has(d, m) /\ Fold(m) # Fold(n) => ValueOf(o, m) = ValueOf(d, m)
  BY WithoutIs
<1> HIDE DEF o
<1>2. Keeps(d, o, K, {Fold(n)})
  BY <1>1 DEF Keeps, Has
<1>3. QED
  BY <1>1, <1>2 DEF o, Has

\* The fetch metadata of a context.
LEMMA SecFetchIs ==
    ASSUME NEW c, NEW s, s = SecFetchHeaders(c)
    PROVE  /\ IsDict(s)
           /\ Folded(s) = {"sec-fetch-mode", "sec-fetch-dest", "sec-fetch-site"}
                          \cup (IF c.mode = "navigate" /\ c.user THEN {"sec-fetch-user"} ELSE {})
           /\ \A i \in DOMAIN s : Once(s, Fold(s[i][1]))
           /\ 1 \in DOMAIN s /\ s[1] = <<"sec-fetch-mode", <<"mode", c.mode>>>>
           /\ 2 \in DOMAIN s /\ s[2] = <<"sec-fetch-dest", <<"dest", c.dest>>>>
<1> DEFINE m == <<"sec-fetch-mode", <<"mode", c.mode>>>>
           t == <<"sec-fetch-dest", <<"dest", c.dest>>>>
           o == <<"sec-fetch-site", <<"site", ComputeFetchSite(c.target, c.referrer)>>>>
           u == <<"sec-fetch-user", <<"text", "?1">>>>
           w == IF c.mode = "navigate" /\ c.user THEN <<u>> ELSE <<>>
<1>1. /\ m[1] = "sec-fetch-mode" /\ t[1] = "sec-fetch-dest" /\ o[1] = "sec-fetch-site"
      /\ u[1] = "sec-fetch-user"
  OBVIOUS
<1>2. s = <<m, t, o>> \o w
  BY DEF SecFetchHeaders
<1>a. m = <<"sec-fetch-mode", <<"mode", c.mode>>>> /\ t = <<"sec-fetch-dest", <<"dest", c.dest>>>>
  OBVIOUS
<1> HIDE DEF m, t, o, u
<1>3. /\ Fold(m[1]) = "sec-fetch-mode" /\ Fold(t[1]) = "sec-fetch-dest"
      /\ Fold(o[1]) = "sec-fetch-site" /\ Fold(u[1]) = "sec-fetch-user"
  BY <1>1, FoldTable
<1>4. CASE c.mode = "navigate" /\ c.user
  <2> DEFINE S == {m, t, o, u}
             a == <<m, t, o>>
             b == <<u>>
  <2>1. a \in Seq(S) /\ b \in Seq(S) /\ s = a \o b
    BY <1>2, <1>4
  <2>a. Len(a) = 3 /\ Len(b) = 1 /\ a[1] = m /\ a[2] = t /\ a[3] = o /\ b[1] = u
    OBVIOUS
  <2> HIDE DEF a, b, S
  <2>b. /\ s \in Seq(S) /\ Len(s) = Len(a) + Len(b)
        /\ \A i \in 1..(Len(a) + Len(b)) : s[i] = IF i <= Len(a) THEN a[i] ELSE b[i - Len(a)]
    BY <2>1, ConcatProperties
  <2>2. /\ DOMAIN s = 1..4 /\ s[1] = m /\ s[2] = t /\ s[3] = o /\ s[4] = u
        /\ s \in Seq(S)
    BY <2>a, <2>b
  <2>3. IsDict(s)
    BY <2>2 DEF IsDict
  <2>4. Folded(s) = {"sec-fetch-mode", "sec-fetch-dest", "sec-fetch-site", "sec-fetch-user"}
    <3>1. {1, 2, 3, 4} = 1..4
      OBVIOUS
    <3>2. QED
      BY <1>3, <2>2, <3>1 DEF Folded, Names
  <2>5. \A i, j \in DOMAIN s : Fold(s[i][1]) = Fold(s[j][1]) => i = j
    BY <1>3, <2>2
  <2>6. QED
    BY <1>4, <1>a, <2>2, <2>3, <2>4, <2>5 DEF Once, Places
<1>5. CASE ~(c.mode = "navigate" /\ c.user)
  <2>1. s = <<m, t, o>>
    <3> DEFINE S == {m, t, o}
               a == <<m, t, o>>
    <3>1. a \in Seq(S)
      OBVIOUS
    <3> HIDE DEF S
    <3>w. w = <<>>
      BY <1>5
    <3> HIDE DEF w
    <3>a. s = a \o <<>>
      BY <1>2, <3>w
    <3> HIDE DEF a
    <3>2. s = a
      BY <3>1, <3>a, ConcatEmptySeq
    <3>3. QED
      BY <3>2 DEF a
  <2>2. /\ DOMAIN s = 1..3 /\ s[1] = m /\ s[2] = t /\ s[3] = o
        /\ s \in Seq({m, t, o})
    BY <2>1
  <2>3. IsDict(s)
    BY <2>2 DEF IsDict
  <2>4. Folded(s) = {"sec-fetch-mode", "sec-fetch-dest", "sec-fetch-site"}
    <3>1. {1, 2, 3} = 1..3
      OBVIOUS
    <3>2. QED
      BY <1>3, <2>2, <3>1 DEF Folded, Names
  <2>5. \A i, j \in DOMAIN s : Fold(s[i][1]) = Fold(s[j][1]) => i = j
    BY <1>3, <2>2
  <2>6. QED
    BY <1>5, <1>a, <2>2, <2>3, <2>4, <2>5 DEF Once, Places
<1>6. QED
  BY <1>4, <1>5

\* priority_header() yields the one name, or nothing.
LEMMA PriorityIs ==
    ASSUME NEW c, NEW s, s = PriorityHeader(c)
    PROVE  IsDict(s) /\ Folded(s) \subseteq {"priority"}
<1>1. s = <<>> \/ \E v : s = << <<"priority", v>> >>
  BY DEF PriorityHeader
<1>2. CASE s = <<>>
  BY <1>2 DEF IsDict, Folded, Names
<1>3. ASSUME NEW v, s = << <<"priority", v>> >>
      PROVE  IsDict(s) /\ Folded(s) \subseteq {"priority"}
  <2> DEFINE e == <<"priority", v>>
  <2>1. e[1] = "priority" /\ s = <<e>>
    BY <1>3
  <2> HIDE DEF e
  <2>2. s \in Seq({e}) /\ DOMAIN s = {1} /\ s[1] = e
    BY <2>1
  <2>3. Fold(s[1][1]) = "priority"
    BY <2>1, <2>2, FoldTable
  <2>4. QED
    BY <2>2, <2>3 DEF IsDict, Folded, Names
<1>4. QED
  BY <1>1, <1>2, <1>3

(* -------------------------- the wire headers --------------------------- *)

\* The names apply_context() may write or remove.
OfContext ==
    {"sec-fetch-mode", "sec-fetch-dest", "sec-fetch-site", "sec-fetch-user", "accept",
     "upgrade-insecure-requests", "priority"}

\* Under a context: its fetch metadata unless the caller named them (K), the
\* navigation headers exactly on a navigation, its Accept.
ContextFits(o, c, browser, K) ==
    LET Is(n, v) == Has(o, n) /\ ValueOf(o, n) = v
    IN  /\ "sec-fetch-mode" \notin K => Is("sec-fetch-mode", <<"mode", c.mode>>)
        /\ "sec-fetch-dest" \notin K => Is("sec-fetch-dest", <<"dest", c.dest>>)
        /\ "sec-fetch-user" \notin K =>
              (Has(o, "sec-fetch-user") <=> c.mode = "navigate" /\ c.user)
        /\ "upgrade-insecure-requests" \notin K =>
              (Has(o, "upgrade-insecure-requests") <=> c.mode = "navigate")
        /\ "accept" \notin K => Is("accept", <<"accept", AcceptFor(c, browser)>>)

\* apply_context() on top of merged headers: what the caller wrote stays,
\* nothing outside OfContext changes, and the result fits the context.
LEMMA ContextIs ==
    ASSUME NEW d, IsDict(d), NEW c, NEW browser, NEW K, NEW o,
           o = ApplyContext(d, c, browser, K),
           \A x \in OfNavigation : x \notin K => Once(d, x)
    PROVE  Keeps(d, o, K, OfContext) /\ ContextFits(o, c, browser, K)
<1> DEFINE Drop(a, n) == IF n \in K THEN a ELSE Without(a, n)
           s == SecFetchHeaders(c)
           p == PriorityHeader(c)
           ve == <<"accept", AcceptFor(c, browser)>>
           vu == <<"text", "1">>
           fetch == Update(d, s, K)
           user == IF c.mode # "navigate" \/ ~c.user THEN Drop(fetch, "sec-fetch-user")
                   ELSE fetch
           acc == Put(user, <<"accept", ve>>, K)
           nav == IF c.mode = "navigate"
                  THEN Put(acc, <<"upgrade-insecure-requests", vu>>, K)
                  ELSE Drop(acc, "upgrade-insecure-requests")
<1>0. o = Update(nav, p, K)
  BY DEF ApplyContext
<1> HIDE DEF ve, vu
<1>1. /\ IsDict(s)
      /\ Folded(s) = {"sec-fetch-mode", "sec-fetch-dest", "sec-fetch-site"}
                     \cup (IF c.mode = "navigate" /\ c.user THEN {"sec-fetch-user"} ELSE {})
      /\ \A i \in DOMAIN s : Once(s, Fold(s[i][1]))
      /\ 1 \in DOMAIN s /\ s[1] = <<"sec-fetch-mode", <<"mode", c.mode>>>>
      /\ 2 \in DOMAIN s /\ s[2] = <<"sec-fetch-dest", <<"dest", c.dest>>>>
  BY SecFetchIs
<1>2. IsDict(p) /\ Folded(p) \subseteq {"priority"}
  BY PriorityIs
<1> HIDE DEF s, p
<1>3. Keeps(d, fetch, K, Folded(s))
  BY <1>1, KeepsUpdate
<1>4. /\ "sec-fetch-mode" \notin K =>
            ValueOf(fetch, "sec-fetch-mode") = <<"mode", c.mode>>
      /\ "sec-fetch-dest" \notin K =>
            ValueOf(fetch, "sec-fetch-dest") = <<"dest", c.dest>>
      /\ Folded(fetch) = Folded(d) \cup Folded(s)
  <2>1. /\ Folded(fetch) = Folded(d) \cup Folded(s)
        /\ \A i \in DOMAIN s : Fold(s[i][1]) \notin K => ValueOf(fetch, s[i][1]) = s[i][2]
    BY <1>1, UpdateIs
  <2> DEFINE m == <<"mode", c.mode>>
             t == <<"dest", c.dest>>
  <2>2. s[1][1] = "sec-fetch-mode" /\ s[1][2] = m /\ s[2][1] = "sec-fetch-dest" /\ s[2][2] = t
    BY <1>1
  <2> HIDE DEF fetch, m, t
  <2>3. Fold(s[1][1]) = "sec-fetch-mode" /\ Fold(s[2][1]) = "sec-fetch-dest"
    BY <2>2, FoldTable
  <2>4. /\ "sec-fetch-mode" \notin K => ValueOf(fetch, "sec-fetch-mode") = m
        /\ "sec-fetch-dest" \notin K => ValueOf(fetch, "sec-fetch-dest") = t
    BY <1>1, <2>1, <2>2, <2>3
  <2>5. QED
    BY <2>1, <2>4 DEF m, t
<1> HIDE DEF fetch
<1>5. /\ Keeps(fetch, user, K, {"sec-fetch-user"})
      /\ ~(c.mode = "navigate" /\ c.user) /\ "sec-fetch-user" \notin K
            => ~Has(user, "sec-fetch-user")
      /\ c.mode = "navigate" /\ c.user => Has(user, "sec-fetch-user")
  <2>0. Fold("sec-fetch-user") = "sec-fetch-user" /\ IsDict(fetch)
    BY <1>3, FoldTable DEF Keeps
  <2>1. CASE c.mode = "navigate" /\ c.user
    <3>1. user = fetch /\ Has(fetch, "sec-fetch-user")
      BY <1>1, <1>4, <2>0, <2>1 DEF Has
    <3>2. QED
      BY <2>0, <2>1, <3>1, KeepsSame
  <2>2. CASE ~(c.mode = "navigate" /\ c.user) /\ "sec-fetch-user" \in K
    <3>1. user = fetch
      BY <2>2
    <3>2. QED
      BY <2>0, <2>2, <3>1, KeepsSame
  <2>3. CASE ~(c.mode = "navigate" /\ c.user) /\ "sec-fetch-user" \notin K
    <3>1. user = Without(fetch, "sec-fetch-user")
      BY <2>3
    <3>2. Once(fetch, "sec-fetch-user")
      BY <1>3, <2>3 DEF Keeps, OfNavigation
    <3>3. QED
      BY <2>0, <2>3, <3>1, <3>2, KeepsWithout
  <2>4. QED
    BY <2>1, <2>2, <2>3
<1> HIDE DEF user
<1>6. /\ Keeps(user, acc, K, {"accept"})
      /\ Has(acc, "accept") /\ ("accept" \notin K => ValueOf(acc, "accept") = ve)
  <2>0. Fold("accept") = "accept" /\ IsDict(user)
    BY <1>5, FoldTable DEF Keeps
  <2>1. QED
    BY <2>0, KeepsPut
<1> HIDE DEF acc
<1>7. /\ Keeps(acc, nav, K, {"upgrade-insecure-requests"})
      /\ c.mode # "navigate" /\ "upgrade-insecure-requests" \notin K =>
            ~Has(nav, "upgrade-insecure-requests")
      /\ c.mode = "navigate" => Has(nav, "upgrade-insecure-requests")
  <2>0. Fold("upgrade-insecure-requests") = "upgrade-insecure-requests" /\ IsDict(acc)
    BY <1>6, FoldTable DEF Keeps
  <2>1. CASE c.mode = "navigate"
    BY <2>0, <2>1, KeepsPut
  <2>2. CASE c.mode # "navigate" /\ "upgrade-insecure-requests" \in K
    <3>1. nav = acc
      BY <2>2
    <3>2. QED
      BY <2>0, <2>2, <3>1, KeepsSame
  <2>3. CASE c.mode # "navigate" /\ "upgrade-insecure-requests" \notin K
    <3>1. nav = Without(acc, "upgrade-insecure-requests")
      BY <2>3
    <3>2. Once(acc, "upgrade-insecure-requests")
      BY <1>3, <1>5, <1>6, <2>3 DEF Keeps, OfNavigation
    <3>3. QED
      BY <2>0, <2>3, <3>1, <3>2, KeepsWithout
  <2>4. QED
    BY <2>1, <2>2, <2>3
<1> HIDE DEF nav
<1>8. Keeps(nav, o, K, Folded(p))
  <2>1. IsDict(nav)
    BY <1>7 DEF Keeps
  <2>2. QED
    BY <1>0, <1>2, <2>1, KeepsUpdate
<1>9. Keeps(acc, o, K, {"upgrade-insecure-requests"} \cup Folded(p))
  BY <1>7, <1>8, KeepsOn
<1>10. Keeps(user, o, K, {"accept"} \cup ({"upgrade-insecure-requests"} \cup Folded(p)))
  BY <1>6, <1>9, KeepsOn
<1>11. Keeps(fetch, o, K, {"sec-fetch-user"}
                     \cup ({"accept"} \cup ({"upgrade-insecure-requests"} \cup Folded(p))))
  BY <1>5, <1>10, KeepsOn
<1>12. Keeps(d, o, K, OfContext)
  <2>1. Keeps(d, o, K, Folded(s) \cup ({"sec-fetch-user"}
                     \cup ({"accept"} \cup ({"upgrade-insecure-requests"} \cup Folded(p)))))
    BY <1>3, <1>11, KeepsOn
  <2>2. (Folded(s) \cup ({"sec-fetch-user"} \cup ({"accept"}
           \cup ({"upgrade-insecure-requests"} \cup Folded(p))))) \subseteq OfContext
    BY <1>1, <1>2 DEF OfContext
  <2>3. QED
    BY <2>1, <2>2 DEF Keeps
<1>13. \A n \in OfContext : Fold(n) = n
  BY FoldTable DEF OfContext
<1>14. ContextFits(o, c, browser, K)
  <2>1. ASSUME NEW n \in {"sec-fetch-mode", "sec-fetch-dest"}
        PROVE  Has(o, n) /\ ValueOf(o, n) = ValueOf(fetch, n)
    <3>1. Fold(n) = n /\ n \notin Folded(p) /\ Has(fetch, n)
      BY <1>1, <1>2, <1>4, <1>13 DEF OfContext, Has
    <3>2. QED
      BY <1>11, <3>1 DEF Keeps
  <2>2. "sec-fetch-user" \notin K =>
          (Has(o, "sec-fetch-user") <=> c.mode = "navigate" /\ c.user)
    <3>1. Fold("sec-fetch-user") = "sec-fetch-user" /\ "sec-fetch-user" \notin Folded(p)
      BY <1>2, <1>13 DEF OfContext
    <3>2. Has(user, "sec-fetch-user") => Has(o, "sec-fetch-user")
      BY <1>10, <3>1 DEF Keeps
    <3>3. ~Has(user, "sec-fetch-user") => ~Has(o, "sec-fetch-user")
      BY <1>10, <3>1 DEF Keeps, Has
    <3>4. QED
      BY <1>5, <3>2, <3>3
  <2>3. "upgrade-insecure-requests" \notin K =>
          (Has(o, "upgrade-insecure-requests") <=> c.mode = "navigate")
    <3>1. /\ Fold("upgrade-insecure-requests") = "upgrade-insecure-requests"
          /\ "upgrade-insecure-requests" \notin Folded(p)
      BY <1>2, <1>13 DEF OfContext
    <3>2. Has(nav, "upgrade-insecure-requests") => Has(o, "upgrade-insecure-requests")
      BY <1>8, <3>1 DEF Keeps
    <3>3. ~Has(nav, "upgrade-insecure-requests") => ~Has(o, "upgrade-insecure-requests")
      BY <1>8, <3>1 DEF Keeps, Has
    <3>4. QED
      BY <1>7, <3>2, <3>3
  <2>4. "accept" \notin K => Has(o, "accept") /\ ValueOf(o, "accept") = ve
    <3>1. Fold("accept") = "accept" /\ "accept" \notin Folded(p)
      BY <1>2, <1>13 DEF OfContext
    <3>2. QED
      BY <1>6, <1>9, <3>1 DEF Keeps
  <2>5. QED
    BY <1>4, <2>1, <2>2, <2>3, <2>4 DEF ContextFits, ve
<1>15. QED
  BY <1>12, <1>14

\* A header the caller wrote in one spelling goes out as written.
AsWritten(hdr, o) ==
    \A i \in DOMAIN hdr : Once(hdr, Fold(hdr[i][1])) =>
        Has(o, hdr[i][1]) /\ ValueOf(o, hdr[i][1]) = hdr[i][2]

\* A header the request owns comes from the request or from the block of the
\* session.
Sourced(o, hdr, block) ==
    \A e \in Entries(o) : e[1] \in OfRequest => e \in Entries(hdr) \/ e \in Entries(block)

\* The headers on the wire: those the request owns are the request's or stand
\* in the block, those the caller wrote in one spelling are as written, the
\* rest fits the context.
LEMMA WireIs ==
    ASSUME NEW r, NEW hdr, IsDict(hdr), NEW ctx, NEW o, o = WireHeaders(r, hdr, ctx)
    PROVE  /\ IsDict(o)
           /\ Sourced(o, hdr, Block(r.default_headers))
           /\ AsWritten(hdr, o)
           /\ ctx # <<>> =>
                 ContextFits(o, ctx[1], IdentifierBrowser(r.client_identifier), Folded(hdr))
<1> DEFINE K == Folded(hdr)
           block == Block(r.default_headers)
           merged == MergeDefaultHeaders(block, hdr)
           browser == IdentifierBrowser(r.client_identifier)
<1>1. BlockSound(block)
  BY BlocksSound
<1>0. o = IF ctx = <<>> THEN merged ELSE ApplyContext(merged, ctx[1], browser, K)
  BY DEF WireHeaders
<1> HIDE DEF block, browser
<1>2. /\ IsDict(merged)
      /\ Sourced(merged, hdr, block)
      /\ AsWritten(hdr, merged)
      /\ \A x \in OfNavigation : x \notin K => Once(merged, x)
  <2>1. CASE block = <<>>
    <3>1. merged = hdr
      BY <2>1 DEF MergeDefaultHeaders
    <3>2. ASSUME NEW i \in DOMAIN hdr, Once(hdr, Fold(hdr[i][1]))
          PROVE  Has(hdr, hdr[i][1]) /\ ValueOf(hdr, hdr[i][1]) = hdr[i][2]
      <4>1. Has(hdr, hdr[i][1]) /\ i \in Places(hdr, Fold(hdr[i][1]))
        BY DEF Has, Folded, Names, Places
      <4>2. At(hdr, hdr[i][1]) \in Places(hdr, Fold(hdr[i][1]))
        BY <4>1, FirstIs DEF First
      <4>3. At(hdr, hdr[i][1]) = i
        BY <3>2, <4>1, <4>2 DEF Once
      <4>4. QED
        BY <4>1, <4>3 DEF ValueOf
    <3>3. \A x : x \notin K => Once(hdr, x)
      BY DEF Once, Places, Folded, Names
    <3> HIDE DEF merged
    <3>4. QED
      BY <3>1, <3>2, <3>3 DEF AsWritten, Sourced
  <2>2. CASE block # <<>>
    <3>0. merged = Update(block, hdr, {}) /\ IsDict(block)
      BY <1>1, <2>2 DEF MergeDefaultHeaders, BlockSound
    <3> HIDE DEF merged
    <3>1. /\ IsDict(merged)
          /\ Entries(merged) \subseteq Entries(block) \cup Entries(hdr)
          /\ Folded(merged) = Folded(block) \cup Folded(hdr)
          /\ \A x : Once(block, x) => Once(merged, x)
          /\ \A i \in DOMAIN hdr :
                Once(hdr, Fold(hdr[i][1])) => ValueOf(merged, hdr[i][1]) = hdr[i][2]
      BY <3>0, UpdateIs
    <3>2. Sourced(merged, hdr, block)
      BY <3>1 DEF Sourced
    <3>3. \A i \in DOMAIN hdr : Has(merged, hdr[i][1])
      BY <3>1 DEF Has, Folded, Names
    <3>4. QED
      BY <1>1, <3>1, <3>2, <3>3 DEF BlockSound, AsWritten
  <2>3. QED
    BY <2>1, <2>2
<1> HIDE DEF merged
<1>3. CASE ctx = <<>>
  BY <1>0, <1>2, <1>3 DEF block
<1>4. CASE ctx # <<>>
  <2>1. Keeps(merged, o, K, OfContext) /\ ContextFits(o, ctx[1], browser, K)
    BY <1>0, <1>2, <1>4, ContextIs
  <2>2. Sourced(o, hdr, block)
    BY <1>2, <2>1 DEF Keeps, OfContext, OfRequest, Sourced
  <2>3. \A i \in DOMAIN hdr : Fold(hdr[i][1]) \in K
    BY DEF Folded, Names
  <2> HIDE DEF K
  <2>4. AsWritten(hdr, o)
    BY <1>2, <2>1, <2>3 DEF Keeps, AsWritten
  <2>5. QED
    BY <2>1, <2>2, <2>4 DEF K, Keeps, block, browser
<1>5. QED
  BY <1>3, <1>4

\* Spellings of one name find one entry.
LEMMA SameName ==
    ASSUME NEW d, IsDict(d), NEW n, NEW m, Fold(n) = Fold(m), Has(d, n)
    PROVE  Has(d, m) /\ ValueOf(d, m) = ValueOf(d, n)
<1>1. First(d, n, At(d, n))
  BY FirstIs
<1>2. First(d, m, At(d, n))
  BY <1>1 DEF First
<1>3. Has(d, m) /\ At(d, m) = At(d, n)
  BY <1>2, FirstIs
<1>4. QED
  BY <1>3 DEF ValueOf

\* The value found is an entry.
LEMMA FoundEntry ==
    ASSUME NEW d, IsDict(d), NEW n, Has(d, n)
    PROVE  /\ <<Fold(n), ValueOf(d, n)>> \in Entries(d)
           /\ At(d, n) \in DOMAIN d /\ Fold(d[At(d, n)][1]) = Fold(n)
<1>1. At(d, n) \in DOMAIN d /\ Fold(d[At(d, n)][1]) = Fold(n)
  BY FirstIs DEF First, Places
<1>2. QED
  BY <1>1 DEF Entries, ValueOf

\* _ensure_header() adds a name that is absent and touches nothing else.
LEMMA EnsureIs ==
    ASSUME NEW d, IsDict(d), NEW n, NEW v
    PROVE  /\ Keeps(d, EnsureHeader(d, n, v), {Fold(n)}, {Fold(n)})
           /\ Has(EnsureHeader(d, n, v), n)
           /\ ~Has(d, n) => ValueOf(EnsureHeader(d, n, v), n) = v
<1> DEFINE o == EnsureHeader(d, n, v)
<1>1. CASE Has(d, n)
  <2>1. o = d
    BY <1>1 DEF EnsureHeader
  <2> HIDE DEF o
  <2>2. Keeps(d, o, {Fold(n)}, {Fold(n)}) /\ Has(o, n)
    BY <1>1, <2>1, KeepsSame
  <2>3. QED
    BY <1>1, <2>2 DEF o
<1>2. CASE ~Has(d, n)
  <2>1. o = Override(d, n, v)
    BY <1>2 DEF EnsureHeader, Override
  <2> HIDE DEF o
  <2>2. /\ IsDict(o)
        /\ Entries(o) \subseteq Entries(d) \cup {<<Fold(n), v>>}
        /\ Folded(o) = Folded(d) \cup {Fold(n)}
        /\ \A x : Once(d, x) => Once(o, x)
        /\ ValueOf(o, n) = v
        /\ \A m : Has(d, m) /\ Fold(m) # Fold(n) => ValueOf(o, m) = ValueOf(d, m)
    BY <2>1, OverrideIs
  <2>3. \A m : Has(d, m) => Fold(m) # Fold(n)
    BY <1>2 DEF Has
  <2>4. \A x \in Entries(o) : x \in Entries(d) \/ x[1] \in {Fold(n)}
    BY <2>2
  <2>5. Keeps(d, o, {Fold(n)}, {Fold(n)}) /\ Has(o, n)
    BY <2>2, <2>3, <2>4 DEF Keeps, Has
  <2>6. QED
    BY <2>2, <2>5 DEF o
<1>3. QED
  BY <1>1, <1>2

(* -------------------------- what is handed over ------------------------ *)

\* The C struct tells the header block and the browser of the options.
Declares(opts, r) ==
    /\ Block(opts.default_headers) = Block(r.default_headers)
    /\ IdentifierBrowser(opts.client_identifier) = IdentifierBrowser(r.client_identifier)

\* Absent and empty are one to the engine: NULL is no block and no browser.
LEMMA ToCDeclares ==
    /\ \A b : Block(ToC("default_headers", b)) = Block(b)
    /\ \A i : IdentifierBrowser(ToC("client_identifier", i)) = IdentifierBrowser(i)
<1>1. \A b : ToC("default_headers", b) = IF b \in {None, "empty"} THEN "NULL" ELSE b
  BY IdentityKeys DEF ToC
<1>2. \A i : ToC("client_identifier", i) = IF i \in {None, "empty"} THEN "NULL" ELSE i
  BY IdentityKeys DEF ToC
<1>3. ASSUME NEW b \in {None, "empty", "NULL"} PROVE Block(b) = <<>>
  <2>1. b \notin SUPPORTED_CLIENT_IDENTIFIERS /\ b \notin {"mine", "mine_on_macos"}
    BY <1>3 DEF SUPPORTED_CLIENT_IDENTIFIERS, None, ChromeIdentifiers, ChromiumForks,
                SafariIdentifiers, FirefoxIdentifiers, IosApps, AndroidApps, OkHttp
  <2>2. b \notin DOMAIN OsOf
    BY <1>3 DEF OsOf, None
  <2>3. QED
    BY <1>3, <2>1, <2>2 DEF Block
<1>4. \A i \in {None, "empty", "NULL"} : IdentifierBrowser(i) = "unknown"
  BY DEF IdentifierBrowser, None, ChromeIdentifiers, ChromiumForks, FirefoxIdentifiers,
         SafariIdentifiers
<1>5. QED
  BY <1>1, <1>2, <1>3, <1>4

\* So the struct of a call tells both.
LEMMA StructDeclares ==
    ASSUME ScenarioChosen, NEW r, DOMAIN r = Resolvable, NEW opts,
           opts = [k \in DOMAIN r |-> ToC(k, r[k])]
    PROVE  Declares(opts, r)
<1>1. {"client_identifier", "default_headers"} \subseteq DOMAIN r
  BY KeysInPlay
<1>2. /\ opts.default_headers = ToC("default_headers", r.default_headers)
      /\ opts.client_identifier = ToC("client_identifier", r.client_identifier)
  BY <1>1
<1>3. QED
  BY <1>2, ToCDeclares DEF Declares

\* What a call that reaches the engine leaves in sent.
Carries(q, entry, g, hdr, ctx, body) ==
    /\ q.entry = entry /\ q.given = g /\ q.hdr = hdr /\ q.ctx = ctx /\ q.body = body
    /\ \E r : q.headers = WireHeaders(r, hdr, ctx) /\ Declares(q.opts, r)

\* Hand leaves nothing, or the call with the headers WireHeaders computes.
LEMMA HandCarries ==
    ASSUME NEW entry, NEW g, NEW hdr, NEW ctx, NEW body, NEW opts, NEW r0, NEW r,
           Hand(Called(entry, g, hdr, ctx, body, opts), r0, r), Declares(opts, r)
    PROVE  sent' = NoRequest \/ Carries(sent', entry, g, hdr, ctx, body)
<1> DEFINE record == Called(entry, g, hdr, ctx, body, opts)
           more == [headers |-> WireHeaders(r, record.hdr, record.ctx),
                    order |-> WireOrder(r, record.hdr, record.ctx),
                    client |-> ClientFor(CacheKey(r), r)]
<1>1. sent' = NoRequest \/ sent' = Over(record, more)
  BY DEF Hand
<1>2. /\ DOMAIN record = {"entry", "given", "hdr", "ctx", "body", "opts"}
      /\ record.entry = entry /\ record.given = g /\ record.hdr = hdr /\ record.ctx = ctx
      /\ record.body = body /\ record.opts = opts
  BY DEF Called
<1>3. /\ DOMAIN more = {"headers", "order", "client"}
      /\ more.headers = WireHeaders(r, record.hdr, record.ctx)
  OBVIOUS
<1> HIDE DEF record, more
<1>4. ASSUME sent' = Over(record, more)
      PROVE  Carries(sent', entry, g, hdr, ctx, body)
  <2>1. /\ sent'.entry = entry /\ sent'.given = g /\ sent'.hdr = hdr /\ sent'.ctx = ctx
        /\ sent'.body = body /\ sent'.headers = more.headers /\ sent'.opts = opts
    BY <1>2, <1>3, <1>4 DEF Over
  <2>2. more.headers = WireHeaders(r, hdr, ctx)
    BY <1>2, <1>3
  <2>3. QED
    BY <2>1, <2>2 DEF Carries
<1>5. QED
  BY <1>1, <1>4

\* So does execute_request().
LEMMA SyncCarries ==
    ASSUME ScenarioChosen, NEW entry, NEW g, NEW kw, NEW hdr, NEW ctx, NEW body,
           SyncExecute(entry, g, kw, hdr, ctx, body)
    PROVE  sent' = NoRequest \/ Carries(sent', entry, g, hdr, ctx, body)
<1> DEFINE r0 == SyncResolved(Overrides(kw))
           d  == DegradeAbi3(r0)
           r  == PairHeaders(d, kw)
<1>1. \/ Raise
      \/ Hand(Called(entry, g, hdr, ctx, body, SyncOptions(r)), r0, r)
  BY DEF SyncExecute
<1>2. DOMAIN r0 = Resolvable
  BY DEF SyncResolved
<1> HIDE DEF r0
<1>3. DOMAIN d = Resolvable
  BY <1>2 DEF DegradeAbi3
<1> HIDE DEF d
<1>4. DOMAIN r = Resolvable
  BY <1>3 DEF PairHeaders
<1> HIDE DEF r
<1>5. Declares(SyncOptions(r), r)
  BY <1>4, StructDeclares DEF SyncOptions
<1>6. QED
  BY <1>1, <1>5, HandCarries DEF Raise

\* So does _execute_async().
LEMMA AsyncCarries ==
    ASSUME ScenarioChosen, NEW entry, NEW g, NEW kw, NEW hdr, NEW ctx, NEW body,
           AsyncExecute(entry, g, kw, hdr, ctx, body)
    PROVE  sent' = NoRequest \/ Carries(sent', entry, g, hdr, ctx, body)
<1> DEFINE r0 == AsyncResolved(entry, AsyncOverrides(entry, kw), kw)
           d  == DegradeAbi3(r0)
           r  == AsyncPairHeaders(d, kw)
<1>1. \/ Raise
      \/ Hand(Called(entry, g, hdr, ctx, body, AsyncOptions(r)), r0, r)
  BY DEF AsyncExecute
<1>2. DOMAIN r0 = Resolvable
  BY DEF AsyncResolved
<1> HIDE DEF r0
<1>3. DOMAIN d = Resolvable
  BY <1>2 DEF DegradeAbi3
<1> HIDE DEF d
<1>4. DOMAIN r = Resolvable
  BY <1>3 DEF AsyncPairHeaders
<1> HIDE DEF r
<1>5. Declares(AsyncOptions(r), r)
  BY <1>4, StructDeclares DEF AsyncOptions
<1>6. QED
  BY <1>1, <1>5, HandCarries DEF Raise

(* ------------------------- HeadersFit of a call ------------------------ *)

\* HeadersFit of one request, H being the header dicts in play.
Fit(q, H) ==
        LET hdr == q.hdr
            Free(n) == n \notin Folded(hdr)
            Is(n, v) == Has(q.headers, n) /\ ValueOf(q.headers, n) = v
        IN  /\ q.ctx # <<>> =>
                LET c == q.ctx[1]
                IN  /\ Free("sec-fetch-mode") => Is("sec-fetch-mode", <<"mode", c.mode>>)
                    /\ Free("sec-fetch-dest") => Is("sec-fetch-dest", <<"dest", c.dest>>)
                    /\ Free("sec-fetch-user") =>
                          (Has(q.headers, "sec-fetch-user") <=> c.mode = "navigate" /\ c.user)
                    /\ Free("upgrade-insecure-requests") =>
                          (Has(q.headers, "upgrade-insecure-requests") <=> c.mode = "navigate")
                    /\ Free("accept") =>
                          Is("accept", <<"accept", AcceptFor(c, IdentifierBrowser(
                                                      q.opts.client_identifier))>>)
            /\ \A i \in DOMAIN hdr :
                  (\A j \in DOMAIN hdr : Fold(hdr[j][1]) = Fold(hdr[i][1]) => j = i)
                      => Is(hdr[i][1], hdr[i][2])
            /\ /\ q.entry = "request" /\ q.body \in {"form", "json"}
               /\ ~{"data", "json"} \subseteq DOMAIN q.given
               /\ ~\E h \in H : Has(h, "content-type")
               => Is("content-type", <<"type", q.body>>)

\* The headers request() builds: a dict, and with an encoded body the type
\* of that body unless the caller gave one.
LEMMA CompatHeadersIs ==
    ASSUME NEW g, Get(g, "data") # "json", NEW h, IsDict(h), NEW hdr,
           hdr = CompatHeaders(g, h)
    PROVE  /\ IsDict(hdr)
           /\ /\ CompatBody(g) \in {"form", "json"}
              /\ ~{"data", "json"} \subseteq DOMAIN g /\ ~Has(h, "content-type")
              => /\ Has(hdr, "content-type") /\ Once(hdr, "content-type")
                 /\ ValueOf(hdr, "content-type") = <<"type", CompatBody(g)>>
<1> DEFINE vf == <<"type", "form">>
           vj == <<"type", "json">>
           typed == IF Get(g, "data") = "form" THEN EnsureHeader(h, "Content-Type", vf) ELSE h
           jsoned == IF "json" \in DOMAIN g THEN EnsureHeader(typed, "Content-Type", vj)
                     ELSE typed
           auth == Either(Get(g, "auth"), Get(defaults, "auth"))
<1>0. /\ Fold("Content-Type") = "content-type" /\ Fold("content-type") = "content-type"
      /\ Fold("Authorization") = "authorization"
  BY FoldTable
<1>1. hdr = jsoned \/ \E v : hdr = EnsureHeader(jsoned, "Authorization", v)
  BY DEF CompatHeaders
<1>2. IsDict(typed)
  BY EnsureIs DEF Keeps
<1>3. IsDict(jsoned)
  <2> HIDE DEF typed
  <2>1. QED
    BY <1>2, EnsureIs DEF Keeps
<1>4. ASSUME CompatBody(g) \in {"form", "json"},
             ~{"data", "json"} \subseteq DOMAIN g, ~Has(h, "content-type")
      PROVE  /\ Has(jsoned, "content-type") /\ Once(jsoned, "content-type")
             /\ ValueOf(jsoned, "content-type") = <<"type", CompatBody(g)>>
  <2>1. ~Has(h, "Content-Type") /\ Once(h, "content-type")
    BY <1>0, <1>4 DEF Has, Once, Places, Folded, Names
  <2>2. ASSUME NEW v, jsoned = EnsureHeader(h, "Content-Type", v)
        PROVE  /\ Has(jsoned, "content-type") /\ Once(jsoned, "content-type")
               /\ ValueOf(jsoned, "content-type") = v
    <3>1. /\ Keeps(h, jsoned, {"content-type"}, {"content-type"})
          /\ Has(jsoned, "Content-Type") /\ ValueOf(jsoned, "Content-Type") = v
      BY <1>0, <2>1, <2>2, EnsureIs
    <3> HIDE DEF jsoned
    <3>2. QED
      BY <1>0, <1>3, <2>1, <3>1, SameName DEF Keeps
  <2>3. CASE "json" \in DOMAIN g
    <3>1. typed = h /\ CompatBody(g) = "json"
      BY <1>4, <2>3 DEF CompatBody, Get, None
    <3>2. jsoned = EnsureHeader(h, "Content-Type", vj)
      BY <2>3, <3>1
    <3> HIDE DEF jsoned
    <3>3. QED
      BY <2>2, <3>1, <3>2
  <2>4. CASE "json" \notin DOMAIN g
    <3>1. Get(g, "data") = "form" /\ CompatBody(g) = "form"
      BY <1>4, <2>4 DEF CompatBody
    <3>2. jsoned = EnsureHeader(h, "Content-Type", vf)
      BY <2>4, <3>1
    <3> HIDE DEF jsoned
    <3>3. QED
      BY <2>2, <3>1, <3>2
  <2>5. QED
    BY <2>3, <2>4
<1> HIDE DEF jsoned
<1>5. ASSUME NEW v, hdr = EnsureHeader(jsoned, "Authorization", v)
      PROVE  Keeps(jsoned, hdr, {"authorization"}, {"authorization"})
  BY <1>0, <1>3, <1>5, EnsureIs
<1>6. QED
  BY <1>0, <1>1, <1>3, <1>4, <1>5 DEF Keeps

\* What request() makes of the headers it is given, H those in play.
FromCaller(entry, g, hdr, body, H) ==
    entry = "request" =>
        /\ Get(g, "data") # "json" /\ body = CompatBody(g)
        /\ \E h \in H : IsDict(h) /\ hdr = CompatHeaders(g, h)

\* Every call hands over headers that fit it.
LEMMA CallFits ==
    ASSUME NEW entry, NEW g, NEW hdr, IsDict(hdr), NEW ctx, NEW body, NEW H,
           FromCaller(entry, g, hdr, body, H),
           NEW q, Carries(q, entry, g, hdr, ctx, body)
    PROVE  Fit(q, H)
<1> DEFINE o == q.headers
           Is(n, v) == Has(o, n) /\ ValueOf(o, n) = v
           Free(n) == n \notin Folded(hdr)
<1>0. q.entry = entry /\ q.given = g /\ q.hdr = hdr /\ q.ctx = ctx /\ q.body = body
  BY DEF Carries
<1>a. PICK r : q.headers = WireHeaders(r, hdr, ctx) /\ Declares(q.opts, r)
  BY DEF Carries
<1> DEFINE b == IdentifierBrowser(q.opts.client_identifier)
<1>1. o = WireHeaders(r, hdr, ctx)
  BY <1>a
<1> HIDE DEF o
<1>2. /\ IsDict(o) /\ AsWritten(hdr, o)
      /\ ctx # <<>> => ContextFits(o, ctx[1], b, Folded(hdr))
  BY <1>1, <1>a, WireIs DEF Declares
<1> HIDE DEF b
<1>3. ASSUME NEW i \in DOMAIN hdr,
             \A j \in DOMAIN hdr : Fold(hdr[j][1]) = Fold(hdr[i][1]) => j = i
      PROVE  Is(hdr[i][1], hdr[i][2])
  <2>1. \A j \in Places(hdr, Fold(hdr[i][1])) : j = i
    BY <1>3 DEF Places
  <2>2. Once(hdr, Fold(hdr[i][1]))
    BY <2>1 DEF Once
  <2>3. QED
    BY <1>2, <1>3, <2>2 DEF AsWritten
<1>4. ASSUME ctx # <<>>
      PROVE  LET c == ctx[1]
             IN  /\ Free("sec-fetch-mode") => Is("sec-fetch-mode", <<"mode", c.mode>>)
                 /\ Free("sec-fetch-dest") => Is("sec-fetch-dest", <<"dest", c.dest>>)
                 /\ Free("sec-fetch-user") =>
                       (Has(o, "sec-fetch-user") <=> c.mode = "navigate" /\ c.user)
                 /\ Free("upgrade-insecure-requests") =>
                       (Has(o, "upgrade-insecure-requests") <=> c.mode = "navigate")
                 /\ Free("accept") => Is("accept", <<"accept", AcceptFor(c, b)>>)
  BY <1>2, <1>4 DEF ContextFits
<1>5. ASSUME entry = "request", body \in {"form", "json"},
             ~{"data", "json"} \subseteq DOMAIN g, ~\E h \in H : Has(h, "content-type")
      PROVE  Is("content-type", <<"type", body>>)
  <2> DEFINE v == <<"type", body>>
  <2>1. PICK h \in H : IsDict(h) /\ hdr = CompatHeaders(g, h)
    BY <1>5 DEF FromCaller
  <2>2. body = CompatBody(g) /\ Get(g, "data") # "json" /\ ~Has(h, "content-type")
    BY <1>5, <2>1 DEF FromCaller
  <2>3. Has(hdr, "content-type") /\ Once(hdr, "content-type") /\ ValueOf(hdr, "content-type") = v
    BY <1>5, <2>1, <2>2, CompatHeadersIs
  <2> HIDE DEF v
  <2> DEFINE i == At(hdr, "content-type")
  <2>4. i \in DOMAIN hdr /\ Fold(hdr[i][1]) = Fold("content-type") /\ hdr[i][2] = v
    BY <2>3, FoundEntry DEF ValueOf
  <2>5. Fold("content-type") = "content-type"
    BY FoldTable
  <2> HIDE DEF i
  <2>6. Is(hdr[i][1], v)
    BY <1>2, <2>3, <2>4, <2>5 DEF AsWritten
  <2>7. Is("content-type", v)
    BY <1>2, <2>4, <2>6, SameName
  <2>8. QED
    BY <2>7 DEF v
<1>6. QED
  BY <1>0, <1>3, <1>4, <1>5 DEF Fit, o, b

(* ------------------------- the compat session -------------------------- *)

\* A dict with one spelling of each name, as a CaseInsensitiveDict is.
Tidy(d) == IsDict(d) /\ \A x : Once(d, x)

\* No value of the dict is a list of cookies of a jar.
NoJar(d) == \A e \in Entries(d) : e[2][1] # "cookies"

\* Headers a caller writes are a dict, and none of their values is the jar's.
LEMMA CallerDict == \A d : CallerHeaders(d) => IsDict(d) /\ NoJar(d)
<1> SUFFICES ASSUME NEW d, CallerHeaders(d)
             PROVE  IsDict(d) /\ NoJar(d)
  OBVIOUS
<1>1. IsDict(d)
  BY DEF CallerHeaders, IsDict
<1>2. ASSUME NEW e \in Entries(d)
      PROVE  e[2][1] # "cookies"
  <2>1. PICK i \in DOMAIN d : e = <<Fold(d[i][1]), d[i][2]>>
    BY <1>2, Zenon DEF Entries
  <2>2. e[2] = d[i][2]
    BY <2>1
  <2>3. QED
    BY <2>1, <2>2 DEF CallerHeaders
<1>3. QED
  BY <1>1, <1>2 DEF NoJar

\* Session.headers has one spelling of each name.
LEMMA SessionDict == \A d : SessionHeaders(d) => Tidy(d) /\ NoJar(d)
  BY CallerDict DEF SessionHeaders, Tidy, Once, Places

\* Assignment keeps a tidy dict tidy and adds one entry.
LEMMA TidyOverride ==
    ASSUME NEW d, Tidy(d), NEW n, NEW v, NEW o, o = Override(d, n, v)
    PROVE  /\ Tidy(o)
           /\ Entries(o) \subseteq Entries(d) \cup {<<Fold(n), v>>}
           /\ Folded(o) = Folded(d) \cup {Fold(n)}
  BY OverrideIs DEF Tidy

\* Adding a missing header keeps a tidy dict tidy.
LEMMA TidyEnsure ==
    ASSUME NEW d, Tidy(d), NEW n, NEW v, NEW o, o = EnsureHeader(d, n, v)
    PROVE  Tidy(o) /\ Entries(o) \subseteq Entries(d) \cup {<<Fold(n), v>>}
<1>1. CASE Has(d, n)
  BY <1>1 DEF EnsureHeader
<1>2. CASE ~Has(d, n)
  <2>1. o = Override(d, n, v)
    BY <1>2 DEF EnsureHeader, Override
  <2>2. QED
    BY <2>1, TidyOverride
<1>3. QED
  BY <1>1, <1>2

\* Removing a header from a tidy dict leaves no spelling of it.
LEMMA TidyWithout ==
    ASSUME NEW d, Tidy(d), NEW n, NEW o, o = Without(d, n)
    PROVE  /\ Tidy(o)
           /\ Entries(o) \subseteq Entries(d)
           /\ Folded(o) \subseteq Folded(d) \ {Fold(n)}
<1>1. /\ IsDict(o)
      /\ Entries(o) \subseteq Entries(d)
      /\ Folded(o) \subseteq Folded(d)
      /\ \A x : Once(d, x) => Once(o, x)
      /\ Once(d, Fold(n)) => Fold(n) \notin Folded(o)
  BY WithoutIs DEF Tidy
<1>2. QED
  BY <1>1 DEF Tidy

(* ------------------------------- cookies ------------------------------- *)

\* A cookie without a domain is the caller's, or one only the engine lists.
JarSafe(j) == \A c \in j : c.domain = <<>> => c.by = <<>> \/ c.listed

\* The cookie may go to the URL.
MayGo(c, url) ==
    /\ c.by = <<>> \/ c.listed \/ (Within(url.host, c.domain) /\ c.domain # <<>>)
    /\ PathStarts(url.path, c.path)

\* cookie_header() selects from a safe jar only cookies that may go to the URL.
LEMMA SelectedMayGo ==
    ASSUME NEW j, JarSafe(j), NEW url
    PROVE  \A c \in CookieHeader(j, url) : c \in j /\ MayGo(c, url)
  BY DEF JarSafe, MayGo, CookieHeader

\* The cookies of a plain dict are the caller's.
LEMMA DictSafe == \A names : JarSafe(FromDict(names))
<1> SUFFICES ASSUME NEW names, NEW c \in FromDict(names)
             PROVE  c.by = <<>>
  BY DEF JarSafe
<1>1. PICK n \in names : c = Cookie(<<>>, "/", n, "own", <<>>, FALSE)
  BY Zenon DEF FromDict
<1>2. QED
  BY <1>1 DEF Cookie

\* The cookies of a response have a domain, unless only the engine lists them.
LEMMA ResponseSafe ==
    ASSUME NEW cookies, NEW host
    PROVE  JarSafe(ResponseCookies(cookies, host))
<1> DEFINE parsed == ExtractCookies(cookies, host)
           extra == {c \in cookies : c.listed /\ \A d \in parsed : d.name # c.name}
           listed == {Cookie(<<>>, "/", c.name, c.value, host, TRUE) : c \in extra}
<1>1. ASSUME NEW c \in parsed, c.domain = <<>>
      PROVE  c.by = <<>>
  <2>1. PICK d \in {e \in cookies : ~e.listed} :
           c = Cookie(IF d.domain = <<>> THEN host ELSE d.domain, d.path, d.name, d.value,
                      host, FALSE)
    BY <1>1, Zenon DEF ExtractCookies
  <2>2. c.domain = (IF d.domain = <<>> THEN host ELSE d.domain) /\ c.by = host
    BY <2>1 DEF Cookie
  <2>3. QED
    BY <1>1, <2>2
<1> HIDE DEF parsed, extra
<1>2. ASSUME NEW c \in listed
      PROVE  c.listed
  <2>1. PICK d \in extra : c = Cookie(<<>>, "/", d.name, d.value, host, TRUE)
    BY <1>2, Zenon
  <2>2. QED
    BY <2>1 DEF Cookie
<1> HIDE DEF listed
<1>3. ResponseCookies(cookies, host) = parsed \cup listed
  BY Zenon DEF ResponseCookies, parsed, extra, listed
<1>4. QED
  BY <1>1, <1>2, <1>3 DEF JarSafe

\* update() of a safe jar with safe cookies leaves it safe.
LEMMA UpdateSafe ==
    ASSUME NEW j, JarSafe(j), NEW new, JarSafe(new)
    PROVE  JarSafe(JarUpdate(j, new))
  BY DEF JarSafe, JarUpdate

(* ------------------------- preparing a request ------------------------- *)

\* Every cookie list in the headers is the one selected from j for url.
FromJar(headers, j, url) ==
    \A e \in Entries(headers) : e[1] = "cookie" /\ e[2][1] = "cookies"
        => e[2][2] = CookieHeader(j, url)

\* prepare_cookies() adds at most the cookies selected for the URL.
LEMMA CookiesPrepared ==
    ASSUME NEW d, Tidy(d), NEW j, NEW url, NEW o, o = PrepareCookies(d, j, url)
    PROVE  /\ Tidy(o)
           /\ Entries(o) \subseteq Entries(d) \cup {<<"cookie", <<"cookies", CookieHeader(j, url)>>>>}
           /\ Folded(o) \subseteq Folded(d) \cup {"cookie"}
<1> DEFINE v == <<"cookies", CookieHeader(j, url)>>
<1>1. o = d \/ o = Override(d, "Cookie", v)
  BY DEF PrepareCookies
<1>2. Fold("Cookie") = "cookie"
  BY FoldTable
<1> HIDE DEF v
<1>3. /\ Tidy(o)
      /\ Entries(o) \subseteq Entries(d) \cup {<<"cookie", v>>}
      /\ Folded(o) \subseteq Folded(d) \cup {"cookie"}
  BY <1>1, <1>2, TidyOverride
<1>4. QED
  BY <1>3 DEF v

\* A prepared request: its headers have one spelling each, and the cookies
\* that were put in are those selected for its URL.
LEMMA Prepared ==
    ASSUME NEW method, NEW url, NEW headers, Tidy(headers), NoJar(headers), NEW body,
           NEW auth, NEW j, NEW p, p = Prepare(method, url, headers, body, auth, j)
    PROVE  /\ p.method = method /\ p.url = url /\ p.body = body
           /\ Tidy(p.headers) /\ FromJar(p.headers, j, url)
<1> DEFINE b == PrepareBody(headers, body)
           k == PrepareCookies(b, j, url)
           a == PrepareAuth(k, auth)
<1>1. p.method = method /\ p.url = url /\ p.body = body /\ p.headers = a
  BY DEF Prepare
<1>2. Tidy(b) /\ NoJar(b)
  <2> DEFINE vt == <<"type", body>>
             vl == <<"length", body>>
             typed == IF body \in {"form", "json", "files"}
                      THEN EnsureHeader(headers, "Content-Type", vt) ELSE headers
  <2>1. b = headers \/ b = Override(typed, "Content-Length", vl)
    BY DEF PrepareBody
  <2>2. vt[1] # "cookies" /\ vl[1] # "cookies"
    OBVIOUS
  <2> HIDE DEF vt, vl, b
  <2>3. Tidy(typed) /\ Entries(typed) \subseteq Entries(headers) \cup {<<Fold("Content-Type"), vt>>}
    BY TidyEnsure
  <2> HIDE DEF typed
  <2>4. NoJar(typed)
    BY <2>2, <2>3 DEF NoJar
  <2>5. ASSUME b = Override(typed, "Content-Length", vl)
        PROVE  Tidy(b) /\ NoJar(b)
    <3>1. Tidy(b) /\ Entries(b) \subseteq Entries(typed) \cup {<<Fold("Content-Length"), vl>>}
      BY <2>3, <2>5, TidyOverride
    <3>2. QED
      BY <2>2, <2>4, <3>1 DEF NoJar
  <2>6. QED
    BY <2>1, <2>5
<1> HIDE DEF b
<1>3. Tidy(k) /\ FromJar(k, j, url)
  <2> DEFINE v == <<"cookies", CookieHeader(j, url)>>
  <2>1. v[2] = CookieHeader(j, url)
    OBVIOUS
  <2>2. Tidy(k) /\ Entries(k) \subseteq Entries(b) \cup {<<"cookie", v>>}
    BY <1>2, CookiesPrepared
  <2> HIDE DEF v, k
  <2>3. QED
    BY <1>2, <2>1, <2>2 DEF NoJar, FromJar
<1> HIDE DEF k
<1>4. Tidy(a) /\ FromJar(a, j, url)
  <2> DEFINE v == <<"auth", auth>>
  <2>1. a = k \/ a = Override(k, "Authorization", v)
    BY DEF PrepareAuth
  <2>2. v[1] # "cookies"
    OBVIOUS
  <2> HIDE DEF v, a
  <2>3. ASSUME a = Override(k, "Authorization", v)
        PROVE  Tidy(a) /\ FromJar(a, j, url)
    <3>1. Tidy(a) /\ Entries(a) \subseteq Entries(k) \cup {<<Fold("Authorization"), v>>}
      BY <1>3, <2>3, TidyOverride
    <3>2. QED
      BY <1>3, <2>2, <3>1 DEF FromJar
  <2>4. QED
    BY <1>3, <2>1, <2>3
<1> HIDE DEF a
<1>5. QED
  BY <1>1, <1>4

\* The next request of a redirect.
LEMMA Redirected ==
    ASSUME NEW q, Tidy(q.headers), NEW answer, NEW j, NEW p,
           p = RedirectRequest(q, answer, j)
    PROVE  /\ Tidy(p.headers) /\ FromJar(p.headers, j, p.url)
           /\ Folded(p.headers) \subseteq Folded(q.headers) \cup {"cookie"}
           /\ Netloc(q.url) # Netloc(p.url) => "authorization" \notin Folded(p.headers)
           /\ ToGet(answer.status, q.method) =>
                 /\ p.body = None
                 /\ Folded(p.headers) \cap {"content-length", "content-type"} = {}
           /\ ~ToGet(answer.status, q.method) => p.method = q.method /\ p.body = q.body
<1> DEFINE url == Join(q.url, answer.location[1])
           toGet == ToGet(answer.status, q.method)
           l == Without(q.headers, "Content-Length")
           t == Without(l, "Content-Type")
           b == IF toGet THEN t ELSE q.headers
           w == Without(b, "Authorization")
           a == IF Netloc(q.url) # Netloc(url) THEN w ELSE b
           n == Without(a, "Cookie")
           h == PrepareCookies(n, j, url)
<1>0. /\ Fold("Content-Length") = "content-length" /\ Fold("Content-Type") = "content-type"
      /\ Fold("Authorization") = "authorization" /\ Fold("Cookie") = "cookie"
  BY FoldTable
<1>1. /\ p.method = (IF toGet THEN "GET" ELSE q.method) /\ p.url = url
      /\ p.body = (IF toGet THEN None ELSE q.body) /\ p.headers = h
  BY DEF RedirectRequest
<1> HIDE DEF toGet, url
<1>2. Tidy(l) /\ Folded(l) \subseteq Folded(q.headers) \ {"content-length"}
  BY <1>0, TidyWithout
<1> HIDE DEF l
<1>3. Tidy(t) /\ Folded(t) \subseteq Folded(l) \ {"content-type"}
  BY <1>0, <1>2, TidyWithout
<1> HIDE DEF t
<1>4. /\ Tidy(b) /\ Folded(b) \subseteq Folded(q.headers)
      /\ toGet => Folded(b) \cap {"content-length", "content-type"} = {}
  BY <1>2, <1>3
<1> HIDE DEF b
<1>5. Tidy(w) /\ Folded(w) \subseteq Folded(b) \ {"authorization"}
  BY <1>0, <1>4, TidyWithout
<1> HIDE DEF w
<1>6. /\ Tidy(a) /\ Folded(a) \subseteq Folded(b)
      /\ Netloc(q.url) # Netloc(url) => "authorization" \notin Folded(a)
  BY <1>4, <1>5
<1> HIDE DEF a
<1>7. Tidy(n) /\ Folded(n) \subseteq Folded(a) \ {"cookie"}
  BY <1>0, <1>6, TidyWithout
<1> HIDE DEF n
<1> DEFINE v == <<"cookies", CookieHeader(j, url)>>
<1>8. v[2] = CookieHeader(j, url)
  OBVIOUS
<1>9. /\ Tidy(h) /\ Entries(h) \subseteq Entries(n) \cup {<<"cookie", v>>}
      /\ Folded(h) \subseteq Folded(n) \cup {"cookie"}
  BY <1>7, CookiesPrepared
<1> HIDE DEF v, h
<1>10. FromJar(h, j, url)
  BY <1>7, <1>8, <1>9, EntryName DEF FromJar
<1>11. QED
  BY <1>1, <1>4, <1>6, <1>7, <1>9, <1>10 DEF toGet

(* ------------------------------ invariant ------------------------------ *)

\* A requests-style session exists only in a scenario that plays one.
Playing == facade = "compat" => scen.compat # <<>>

\* The attributes of a requests-style Session that send() relies on.
AttrSound ==
    facade = "compat" =>
        /\ {"headers", "max_redirects"} \subseteq DOMAIN attr
        /\ attr.max_redirects \in Nat
        /\ SessionHeaders(attr.headers)

\* TooManyRedirects was raised after max_redirects redirects.
EndSound ==
    outcome.kind = "TooManyRedirects" =>
        facade = "compat" /\ outcome.followed = attr.max_redirects

\* Credentials are still in the request only if no redirect left the netloc.
AuthHome(k) ==
    "authorization" \in Folded(k.current.headers) =>
        /\ Netloc(k.current.url) = Netloc(k.first.url)
        /\ \A i \in DOMAIN k.history : Netloc(k.history[i].url) = Netloc(k.first.url)

\* The cookies of the request may go where it goes, and after a redirect
\* they are the jar's.
CookiesHome(k, j) ==
    \A e \in Entries(k.current.headers) : e[1] = "cookie" /\ e[2][1] = "cookies" =>
        \A c \in e[2][2] : MayGo(c, k.current.url) /\ (k.history # <<>> => c \in j)

\* A request whose method changed has lost its body, one that met only 307
\* and 308 has kept both.
BodyRule(k) ==
    /\ k.current.method # k.first.method =>
          /\ k.current.body = None
          /\ Folded(k.current.headers) \cap {"content-length", "content-type"} = {}
    /\ (\A i \in DOMAIN k.history : k.history[i].status \in {307, 308}) =>
          k.current.method = k.first.method /\ k.current.body = k.first.body

\* The send() in progress, j the jar and max the limit of redirects.
OnCall(k, j, max) ==
    /\ DOMAIN k = {"phase", "first", "current", "history", "allow", "options"}
    /\ Tidy(k.current.headers) /\ IsDict(k.history)
    /\ Len(k.history) <= (IF k.allow THEN max ELSE 0)
    /\ AuthHome(k) /\ CookiesHome(k, j) /\ BodyRule(k)

\* The send() in progress is safe.
CallSafe == call # NoCall => OnCall(call, jar, attr.max_redirects)

\* What is on the wire is the current request over the session's block.
Wired ==
    call.phase = "wait" =>
        /\ IsDict(sent.headers) /\ sent.body = call.current.body
        /\ Sourced(sent.headers, call.current.headers, Block(sent.opts.default_headers))

\* What send() keeps true of the requests-style Session.
Sending == Playing /\ AttrSound /\ EndSound /\ JarSafe(jar) /\ CallSafe /\ Wired

\* The inductive invariant: the scenario is one of those given, send() is
\* sound, and the last request fits its caller.
WireInv == ScenarioChosen /\ CallSound /\ Sending /\ HeadersFit

(* ------------------------------- the steps ----------------------------- *)

\* While no send() runs, a step that keeps the attributes sound and the end
\* of the last call true keeps the rest.
LEMMA QuietStep ==
    ASSUME call' = NoCall, Playing', AttrSound', EndSound', JarSafe(jar)'
    PROVE  Sending'
  BY DEF Sending, CallSafe, Wired, NoCall

\* No step starts a requests-style session where none is played.
LEMMA NewPlays ==
    ASSUME Playing, Stepped
    PROVE  Playing'
<1>0. scen' = scen /\ (facade' = facade \/ facade = "none")
  BY ScenarioKept
<1>1. CASE facade' = facade
  BY <1>0, <1>1 DEF Playing
<1>2. ASSUME NEW f, NEW g, Construct(f, g), f = "compat" => scen.compat # <<>>
      PROVE  Playing'
  <2>1. facade' = f \/ UNCHANGED vars
    BY <1>2 DEF Construct, Preset, Made
  <2>2. QED
    BY <1>0, <1>1, <1>2, <2>1 DEF Playing, vars
<1>3. QED
  BY <1>1, <1>2 DEF Stepped, SetProperty, SetIdentifier, Apply, Executes, Clears, vars

\* The native facades leave the requests-style state alone.
LEMMA NativeSending ==
    ASSUME ScenarioChosen, CallSound, Sending, Next, scen.compat = <<>>, UNCHANGED cvars
    PROVE  Sending'
<1>1. Stepped
  BY NativeSteps
<1>2. Playing' /\ scen' = scen
  BY <1>1, NewPlays, ScenarioKept DEF Sending
<1>3. facade # "compat" /\ facade' # "compat"
  BY <1>2 DEF Sending, Playing
<1>4. call = NoCall /\ outcome.kind # "TooManyRedirects"
  BY <1>3 DEF CallSound, Sending, EndSound
<1>5. call' = NoCall /\ AttrSound' /\ EndSound' /\ JarSafe(jar)'
  BY <1>3, <1>4 DEF cvars, AttrSound, EndSound, Sending, JarSafe
<1>6. QED
  BY <1>2, <1>5, QuietStep

\* Session(...) starts with sound attributes, a safe jar and no call.
LEMMA NewSending ==
    ASSUME ScenarioChosen, CallSound, Sending, Stepped,
           NEW n \in InScenario("news"), NewCompat(n)
    PROVE  Sending'
<1>1. facade = "none"
  BY DEF NewCompat, Construct
<1>2. call = NoCall /\ outcome.kind # "TooManyRedirects"
  BY <1>1 DEF CallSound, Sending, EndSound
<1>3. Playing'
  BY NewPlays DEF Sending
<1>4. PICK s \in Scenarios : scen.compat = s.compat
  BY ScenarioFacts
<1>5. SessionHeaders(n.headers) /\ n.max_redirects \in Nat
  BY <1>4, CompatAssumptions DEF InScenario
<1>6. CASE facade' = "compat"
  <2> DEFINE a == [headers |-> n.headers, auth |-> n.auth, verify |-> n.verify,
                   timeout |-> n.timeout,
                   trust_env |-> n.trust_env, max_redirects |-> n.max_redirects,
                   proxies |-> n.proxies, cert |-> n.cert, closed |-> FALSE]
  <2>1. attr' = a /\ jar' = FromDict(n.cookies) /\ UNCHANGED <<call, outcome>>
    BY <1>6 DEF NewCompat
  <2>2. {"headers", "max_redirects"} \subseteq DOMAIN a /\ a.headers = n.headers
        /\ a.max_redirects = n.max_redirects
    OBVIOUS
  <2> HIDE DEF a
  <2>3. AttrSound'
    BY <1>5, <2>1, <2>2 DEF AttrSound
  <2>4. EndSound' /\ call' = NoCall
    BY <1>2, <2>1 DEF EndSound
  <2>5. JarSafe(jar)'
    <3>1. JarSafe(jar')
      BY <2>1, DictSafe
    <3>2. QED
      BY <3>1 DEF JarSafe
  <2>6. QED
    BY <1>3, <2>3, <2>4, <2>5, QuietStep
<1>7. CASE facade' # "compat"
  <2>1. UNCHANGED cvars
    BY <1>7 DEF NewCompat
  <2>2. call' = NoCall /\ AttrSound' /\ EndSound' /\ JarSafe(jar)'
    BY <1>2, <1>7, <2>1 DEF cvars, AttrSound, EndSound, Sending, JarSafe
  <2>3. QED
    BY <1>3, <2>2, QuietStep
<1>8. QED
  BY <1>6, <1>7

\* An attribute that is set is sound, and forgets how the last call ended.
LEMMA SetSending ==
    ASSUME ScenarioChosen, CallSound, Sending, Stepped,
           NEW a \in InScenario("attributes"), SetAttribute(a[1], a[2])
    PROVE  Sending'
<1>1. /\ facade = "compat" /\ call = NoCall
      /\ outcome' = NoOutcome /\ UNCHANGED <<jar, call>>
  BY DEF SetAttribute
<1>2. Playing'
  BY NewPlays DEF Sending
<1>4. PICK s \in Scenarios : scen.compat = s.compat
  BY ScenarioFacts
<1>5. /\ a[1] = "headers" => SessionHeaders(a[2])
      /\ a[1] = "max_redirects" => a[2] \in Nat
  BY <1>4, CompatAssumptions DEF InScenario
<1>6. attr' = attr \/ attr' = [attr EXCEPT ![a[1]] = a[2]] \/ attr' = [attr EXCEPT !.timeout = a[2]]
  BY DEF SetAttribute
<1>7. facade' = "compat"
  BY <1>1, ScenarioKept
<1>8. AttrSound'
  BY <1>1, <1>5, <1>6, <1>7 DEF AttrSound, Sending
<1>9. EndSound' /\ call' = NoCall /\ JarSafe(jar)'
  BY <1>1 DEF EndSound, NoOutcome, Sending, JarSafe
<1>10. QED
  BY <1>2, <1>8, <1>9, QuietStep

\* Steps that keep attributes, jar and the facade, and end the call or leave
\* none.
LEMMA EndSending ==
    ASSUME Sending, Stepped, facade = "compat", UNCHANGED attr, JarSafe(jar)',
           call' = NoCall, outcome'.kind # "TooManyRedirects" \/ UNCHANGED outcome
    PROVE  Sending'
<1>1. facade' = "compat"
  BY ScenarioKept
<1>2. Playing' /\ AttrSound' /\ EndSound'
  BY <1>1, NewPlays DEF Sending, AttrSound, EndSound
<1>3. QED
  BY <1>2, QuietStep

\* request() and the verbs start a call with a prepared request.
LEMMA AskSending ==
    ASSUME ScenarioChosen, CallSound, Sending, Stepped,
           NEW ask \in InScenario("asks"), Ask(ask)
    PROVE  Sending'
<1>1. facade = "compat" /\ UNCHANGED <<jar, attr>>
  BY DEF Ask
<1>2. JarSafe(jar)'
  BY <1>1 DEF Sending, JarSafe
<1>3. CASE call' = NoCall
  <2>1. outcome'.kind # "TooManyRedirects"
    BY DEF Ask, NoOutcome
  <2>2. QED
    BY <1>1, <1>2, <1>3, <2>1, EndSending
<1>4. CASE call' # NoCall
  <2> DEFINE p == PrepareRequest(ask)
             h == Update(attr.headers, ask.headers, {})
             j == JarUpdate(jar, FromDict(ask.cookies))
  <2>1. PICK o : call' = [phase |-> "send", first |-> p, current |-> p, history |-> <<>>,
                          allow |-> Allows(ask), options |-> o]
    BY <1>4 DEF Ask
  <2>2. outcome' = NoOutcome
    BY <1>4 DEF Ask
  <2>3. PICK s \in Scenarios : scen.compat = s.compat
    BY ScenarioFacts
  <2>4. CallerHeaders(ask.headers)
    BY <2>3, CompatAssumptions DEF InScenario
  <2>5. SessionHeaders(attr.headers) /\ attr.max_redirects \in Nat
    BY <1>1 DEF Sending, AttrSound
  <2>6. Tidy(h) /\ NoJar(h)
    <3>1. Tidy(attr.headers) /\ NoJar(attr.headers) /\ IsDict(ask.headers) /\ NoJar(ask.headers)
      BY <2>4, <2>5, CallerDict, SessionDict
    <3>2. /\ IsDict(h) /\ Entries(h) \subseteq Entries(attr.headers) \cup Entries(ask.headers)
          /\ \A x : Once(attr.headers, x) => Once(h, x)
      BY <3>1, UpdateIs DEF Tidy
    <3> HIDE DEF h
    <3>3. QED
      BY <3>1, <3>2 DEF Tidy, NoJar
  <2>7. p = Prepare(ask.method, ask.url, h, ask.body, Either(ask.auth, attr.auth), j)
    BY DEF PrepareRequest
  <2>8. JarSafe(j)
    BY DictSafe, UpdateSafe DEF Sending
  <2> HIDE DEF p, h, j
  <2>9. p.url = ask.url /\ Tidy(p.headers) /\ FromJar(p.headers, j, p.url)
    <3>1. p.url = ask.url /\ Tidy(p.headers) /\ FromJar(p.headers, j, ask.url)
      BY <2>6, <2>7, Prepared
    <3>2. QED
      BY <3>1
  <2>10. /\ DOMAIN call' = {"phase", "first", "current", "history", "allow", "options"}
         /\ call'.first = p /\ call'.current = p /\ call'.history = <<>> /\ call'.phase = "send"
    BY <2>1
  <2>11. CookiesHome(call', jar')
    BY <2>8, <2>9, <2>10, SelectedMayGo DEF CookiesHome, FromJar
  <2>12. IsDict(call'.history) /\ Len(call'.history) = 0 /\ DOMAIN call'.history = {}
    BY <2>10 DEF IsDict
  <2>13. AuthHome(call') /\ BodyRule(call')
    BY <2>10, <2>12 DEF AuthHome, BodyRule
  <2>14. OnCall(call', jar', attr.max_redirects)
    BY <2>5, <2>9, <2>10, <2>11, <2>12, <2>13 DEF OnCall
  <2>15. CallSafe' /\ Wired'
    BY <1>1, <2>10, <2>14 DEF CallSafe, Wired
  <2>16. facade' = "compat"
    BY <1>1, ScenarioKept
  <2>17. Playing' /\ AttrSound' /\ EndSound'
    BY <1>1, <2>2, <2>16, NewPlays DEF Sending, AttrSound, EndSound, NoOutcome
  <2>18. QED
    BY <1>2, <2>15, <2>17 DEF Sending
<1>5. QED
  BY <1>3, <1>4

\* TLSClientAdapter.send hands over the current request, or the call ends.
LEMMA HopSending ==
    ASSUME ScenarioChosen, CallSound, Sending, Stepped, Hop
    PROVE  Sending'
<1>1. call # NoCall /\ facade = "compat" /\ UNCHANGED <<jar, attr>>
  BY DEF Hop, NoCall, CallSound
<1>2. JarSafe(jar)'
  BY <1>1 DEF Sending, JarSafe
<1>3. CASE call' = NoCall
  <2>1. outcome'.kind # "TooManyRedirects"
    <3>1. End("refused") \/ call' = [call EXCEPT !.phase = "wait"]
      BY DEF Hop
    <3>2. DOMAIN call = {"phase", "first", "current", "history", "allow", "options"}
      BY <1>1 DEF Sending, CallSafe, OnCall
    <3>3. call' # [call EXCEPT !.phase = "wait"]
      BY <1>3, <3>2 DEF NoCall
    <3>4. QED
      BY <3>1, <3>3 DEF End
  <2>2. QED
    BY <1>1, <1>2, <1>3, <2>1, EndSending
<1>4. CASE call' # NoCall
  <2>1. /\ SyncExecute("compat", AdapterKwargs, AdapterKwargs, call.current.headers,
                       call.options.context, call.current.body)
        /\ sent' # NoRequest
        /\ call' = [call EXCEPT !.phase = "wait"] /\ UNCHANGED outcome
    BY <1>4 DEF Hop, End
  <2>2. OnCall(call, jar, attr.max_redirects)
    BY <1>1 DEF Sending, CallSafe
  <2>3. /\ DOMAIN call' = DOMAIN call /\ call'.phase = "wait" /\ call'.first = call.first
        /\ call'.current = call.current /\ call'.history = call.history
        /\ call'.allow = call.allow
    BY <2>1, <2>2 DEF OnCall
  <2>4. OnCall(call', jar', attr'.max_redirects)
    <3>1. AuthHome(call') /\ BodyRule(call')
      BY <2>2, <2>3 DEF OnCall, AuthHome, BodyRule
    <3>2. CookiesHome(call', jar')
      BY <1>1, <2>2, <2>3 DEF OnCall, CookiesHome
    <3>3. QED
      BY <1>1, <2>2, <2>3, <3>1, <3>2 DEF OnCall
  <2>5. Carries(sent', "compat", AdapterKwargs, call.current.headers, call.options.context,
                call.current.body)
    BY <2>1, SyncCarries
  <2> DEFINE o == sent'.headers
  <2>6. sent'.body = call.current.body
    BY <2>5 DEF Carries
  <2> DEFINE block == Block(sent'.opts.default_headers)
  <2>7. PICK r : /\ o = WireHeaders(r, call.current.headers, call.options.context)
                 /\ block = Block(r.default_headers)
    BY <2>5 DEF Carries, Declares
  <2>8. IsDict(call.current.headers)
    BY <2>2 DEF OnCall, Tidy
  <2> DEFINE hdr == call.current.headers
             ctx == call.options.context
  <2> HIDE DEF o, hdr, ctx, block
  <2>9. IsDict(o) /\ Sourced(o, hdr, block)
    <3>1. o = WireHeaders(r, hdr, ctx) /\ IsDict(hdr) /\ block = Block(r.default_headers)
      BY <2>7, <2>8 DEF hdr, ctx
    <3>2. QED
      BY ONLY <3>1, WireIs
  <2>10. Wired'
    BY <2>3, <2>6, <2>9 DEF Wired, o, hdr, block
  <2>11. CallSafe'
    BY <2>4 DEF CallSafe
  <2>12. facade' = "compat"
    BY <1>1, ScenarioKept
  <2>13. Playing' /\ AttrSound' /\ EndSound'
    BY <1>1, <2>1, <2>12, NewPlays DEF Sending, AttrSound, EndSound
  <2>14. QED
    BY <1>2, <2>10, <2>11, <2>13 DEF Sending
<1>5. QED
  BY <1>3, <1>4

\* Following a redirect keeps the call safe.
LEMMA FollowSafe ==
    ASSUME NEW k, NEW j, NEW max \in Nat, OnCall(k, j, max), k.allow, NEW jn, JarSafe(jn),
           NEW answer, NEW h, h = [status |-> answer.status, url |-> k.current.url],
           Len(Append(k.history, h)) <= max, NEW n,
           n = [k EXCEPT !.phase = "send", !.history = Append(k.history, h),
                         !.current = RedirectRequest(k.current, answer, jn)]
    PROVE  OnCall(n, jn, max)
<1> DEFINE p == RedirectRequest(k.current, answer, jn)
           hs == Append(k.history, h)
           l == Len(k.history) + 1
<1>1. /\ Tidy(p.headers) /\ FromJar(p.headers, jn, p.url)
      /\ Folded(p.headers) \subseteq Folded(k.current.headers) \cup {"cookie"}
      /\ Netloc(k.current.url) # Netloc(p.url) => "authorization" \notin Folded(p.headers)
      /\ ToGet(answer.status, k.current.method) =>
            /\ p.body = None
            /\ Folded(p.headers) \cap {"content-length", "content-type"} = {}
      /\ ~ToGet(answer.status, k.current.method) =>
            p.method = k.current.method /\ p.body = k.current.body
  BY Redirected DEF OnCall
<1> HIDE DEF p
<1>2. /\ DOMAIN n = DOMAIN k /\ n.current = p /\ n.history = hs /\ n.first = k.first
      /\ n.allow = k.allow
  BY DEF OnCall, p
<1>3. h.status = answer.status /\ h.url = k.current.url
  OBVIOUS
<1>4. PICK S : k.history \in Seq(S)
  BY DEF OnCall, IsDict
<1>5. /\ hs \in Seq(S \cup {h}) /\ hs # <<>>
      /\ DOMAIN hs = DOMAIN k.history \cup {l} /\ l \notin DOMAIN k.history
      /\ hs[l] = h /\ \A i \in DOMAIN k.history : hs[i] = k.history[i]
  <2>1. k.history \in Seq(S \cup {h}) /\ h \in S \cup {h}
    BY <1>4
  <2>2. /\ hs \in Seq(S \cup {h}) /\ Len(hs) = l /\ hs[l] = h
        /\ \A i \in 1..Len(k.history) : hs[i] = k.history[i]
    <3> DEFINE T == S \cup {h}
               seq == k.history
    <3>1. seq \in Seq(T) /\ h \in T
      BY <2>1
    <3> HIDE DEF T, seq
    <3>2. /\ Append(seq, h) \in Seq(T)
          /\ Len(Append(seq, h)) = Len(seq)+1
          /\ \A i \in 1 .. Len(seq) : Append(seq, h)[i] = seq[i]
          /\ Append(seq, h)[Len(seq)+1] = h
      BY ONLY <3>1, AppendProperties
    <3>3. QED
      BY <3>2 DEF T, seq
  <2>3. /\ Len(k.history) \in Nat /\ DOMAIN k.history = 1..Len(k.history)
        /\ DOMAIN hs = 1..Len(hs)
    BY <1>4, <2>2
  <2> HIDE DEF hs
  <2>4. DOMAIN hs = DOMAIN k.history \cup {l} /\ l \notin DOMAIN k.history
    BY <2>2, <2>3
  <2>5. hs # <<>>
    <3>1. Len(hs) # 0
      BY <2>2, <2>3
    <3>2. QED
      BY ONLY <3>1
  <2>6. QED
    BY <2>2, <2>3, <2>4, <2>5
<1>6. Len(hs) <= max
  OBVIOUS
<1> HIDE DEF hs, l
<1>7. AuthHome(n)
  <2> SUFFICES ASSUME "authorization" \in Folded(p.headers)
               PROVE  /\ Netloc(p.url) = Netloc(k.first.url)
                      /\ \A i \in DOMAIN hs : Netloc(hs[i].url) = Netloc(k.first.url)
    BY <1>2 DEF AuthHome
  <2>1. "authorization" \in Folded(k.current.headers) /\ Netloc(k.current.url) = Netloc(p.url)
    BY <1>1
  <2>2. /\ Netloc(k.current.url) = Netloc(k.first.url)
        /\ \A i \in DOMAIN k.history : Netloc(k.history[i].url) = Netloc(k.first.url)
    BY <2>1 DEF OnCall, AuthHome
  <2>3. QED
    BY <1>3, <1>5, <2>1, <2>2
<1>8. CookiesHome(n, jn)
  BY <1>1, <1>2, SelectedMayGo DEF CookiesHome, FromJar
<1>9. BodyRule(n)
  <2>0. BodyRule(k)
    BY DEF OnCall
  <2>1. ASSUME p.method # k.first.method
        PROVE  /\ p.body = None
               /\ Folded(p.headers) \cap {"content-length", "content-type"} = {}
    <3>1. CASE ToGet(answer.status, k.current.method)
      BY <1>1, <3>1
    <3>2. CASE ~ToGet(answer.status, k.current.method)
      BY <1>1, <2>0, <2>1, <3>2 DEF BodyRule
    <3>3. QED
      BY <3>1, <3>2
  <2>2. ASSUME \A i \in DOMAIN hs : hs[i].status \in {307, 308}
        PROVE  p.method = k.first.method /\ p.body = k.first.body
    <3>1. answer.status \in {307, 308}
      BY <1>3, <1>5, <2>2
    <3>2. ~ToGet(answer.status, k.current.method)
      BY <3>1 DEF ToGet
    <3>3. \A i \in DOMAIN k.history : k.history[i].status \in {307, 308}
      BY <1>5, <2>2
    <3>4. QED
      BY <1>1, <2>0, <3>2, <3>3 DEF BodyRule
  <2>3. QED
    BY <1>2, <2>1, <2>2 DEF BodyRule
<1>10. IsDict(hs)
  BY <1>5 DEF IsDict
<1>11. QED
  BY <1>1, <1>2, <1>6, <1>7, <1>8, <1>9, <1>10 DEF OnCall

\* An answer ends the call, or leads to a redirect that is safe.
LEMMA AnswerSending ==
    ASSUME CallSound, Sending, Stepped, NEW raw, Answer(raw)
    PROVE  Sending'
<1>1. call # NoCall /\ facade = "compat" /\ UNCHANGED attr
  BY DEF Answer, NoCall, CallSound
<1>2. OnCall(call, jar, attr.max_redirects) /\ attr.max_redirects \in Nat
  BY <1>1 DEF Sending, CallSafe, AttrSound
<1> DEFINE answer == Hooked(raw)
           host == call.current.url.host
           j == JarUpdate(jar, ResponseCookies(answer.cookies, host))
           h == [status |-> answer.status, url |-> call.current.url]
           hs == Append(call.history, h)
           n == [call EXCEPT !.phase = "send", !.history = hs,
                             !.current = RedirectRequest(call.current, answer, j)]
<1>3. JarSafe(j)
  BY ResponseSafe, UpdateSafe DEF Sending
<1>4. \/ End("CookieConflictError") /\ UNCHANGED jar
      \/ jar' = j /\ End("response")
      \/ /\ jar' = j /\ call.allow /\ Len(hs) > attr.max_redirects /\ call' = NoCall
         /\ outcome' = [kind |-> "TooManyRedirects", followed |-> Len(hs) - 1]
      \/ /\ jar' = j /\ call.allow /\ ~(Len(hs) > attr.max_redirects)
         /\ call' = n /\ UNCHANGED outcome
  BY DEF Answer
<1>5. Len(hs) = Len(call.history) + 1 /\ Len(call.history) \in Nat
  <2>1. PICK S : call.history \in Seq(S)
    BY <1>2 DEF OnCall, IsDict
  <2>2. call.history \in Seq(S \cup {h}) /\ h \in S \cup {h}
    BY <2>1
  <2> HIDE DEF h
  <2>3. QED
    BY <2>2, AppendProperties
<1>6. facade' = "compat" /\ Playing' /\ AttrSound'
  <2>1. facade' = "compat"
    BY <1>1, ScenarioKept
  <2>2. QED
    BY <1>1, <2>1, NewPlays DEF Sending, AttrSound
<1>7. JarSafe(jar)'
  <2> HIDE DEF j
  <2>1. JarSafe(jar')
    BY <1>3, <1>4 DEF Sending
  <2>2. QED
    BY <2>1 DEF JarSafe
<1>8. ASSUME NEW kind, End(kind), kind # "TooManyRedirects"
      PROVE  Sending'
  <2>1. call' = NoCall /\ outcome'.kind # "TooManyRedirects"
    BY <1>8 DEF End
  <2>2. QED
    BY <1>1, <1>7, <2>1, EndSending
<1>9. CASE /\ call.allow /\ Len(hs) > attr.max_redirects /\ call' = NoCall
           /\ outcome' = [kind |-> "TooManyRedirects", followed |-> Len(hs) - 1]
  <2>1. Len(call.history) <= attr.max_redirects
    BY <1>2, <1>9 DEF OnCall
  <2>2. Len(hs) - 1 = attr.max_redirects
    BY <1>2, <1>5, <1>9, <2>1
  <2>3. EndSound'
    BY <1>1, <1>6, <1>9, <2>2 DEF EndSound
  <2>4. QED
    BY <1>6, <1>7, <1>9, <2>3, QuietStep
<1>10. CASE /\ jar' = j /\ call.allow /\ ~(Len(hs) > attr.max_redirects)
            /\ call' = n /\ UNCHANGED outcome
  <2>1. Len(hs) <= attr.max_redirects
    BY <1>2, <1>5, <1>10
  <2>2. n.phase = "send"
    BY <1>2 DEF OnCall
  <2> HIDE DEF answer, j
  <2>3. OnCall(n, j, attr.max_redirects)
    BY <1>2, <1>3, <1>10, <2>1, FollowSafe
  <2> HIDE DEF n
  <2>4. CallSafe' /\ Wired'
    BY <1>1, <1>10, <2>2, <2>3 DEF CallSafe, Wired
  <2>5. EndSound'
    BY <1>1, <1>6, <1>10 DEF EndSound, Sending
  <2>6. QED
    BY <1>6, <1>7, <2>4, <2>5 DEF Sending
<1> HIDE DEF j, hs, n
<1>11. QED
  BY <1>4, <1>8, <1>9, <1>10

\* Every step keeps send() sound.
LEMMA SendingStep ==
    ASSUME ScenarioChosen, CallSound, Sending, [CompatNext]_<<vars, cvars>>
    PROVE  Sending'
<1>0. Stepped
  BY EveryStep
<1>1. CASE scen.compat = <<>> /\ Next /\ UNCHANGED cvars
  BY <1>1, NativeSending
<1>2. CASE \E n \in InScenario("news") : NewCompat(n)
  BY <1>0, <1>2, NewSending
<1>3. CASE \E a \in InScenario("attributes") : SetAttribute(a[1], a[2])
  BY <1>0, <1>3, SetSending
<1>4. CASE \E a \in InScenario("asks") : Ask(a)
  BY <1>0, <1>4, AskSending
<1>5. CASE Hop
  BY <1>0, <1>5, HopSending
<1>6. CASE \E r \in InScenario("answers") : Answer(r)
  BY <1>0, <1>6, AnswerSending
<1>7. CASE Fail
  <2>0. call.phase = "wait" /\ UNCHANGED <<jar, attr>>
    BY <1>7 DEF Fail
  <2>1. facade = "compat"
    BY <2>0 DEF NoCall, CallSound
  <2>2. call' = NoCall /\ outcome'.kind # "TooManyRedirects"
    BY <1>7 DEF Fail, End
  <2>3. JarSafe(jar)'
    BY <2>0 DEF Sending, JarSafe
  <2>4. QED
    BY <1>0, <2>0, <2>1, <2>2, <2>3, EndSending
<1>8. CASE CompatClose
  <2>1. /\ facade' = facade /\ call' = NoCall /\ UNCHANGED <<scen, jar, outcome>>
        /\ attr' = [attr EXCEPT !.closed = TRUE]
    BY <1>8 DEF CompatClose, vars
  <2>2. AttrSound' /\ Playing' /\ EndSound' /\ JarSafe(jar)'
    BY <1>8, <2>1 DEF Sending, AttrSound, Playing, EndSound, JarSafe, CompatClose
  <2>3. QED
    BY <2>1, <2>2, QuietStep
<1>9. CASE UNCHANGED <<vars, cvars>>
  <2>1. UNCHANGED <<facade, scen, sent, jar, attr, call, outcome>>
    BY <1>9 DEF vars, cvars
  <2>2. AttrSound' /\ Playing' /\ EndSound' /\ JarSafe(jar)'
    BY <2>1 DEF Sending, AttrSound, Playing, EndSound, JarSafe
  <2>3. CallSafe' /\ Wired'
    BY <2>1 DEF Sending, CallSafe, Wired
  <2>4. QED
    BY <2>2, <2>3 DEF Sending
<1>10. QED
  BY <1>1, <1>2, <1>3, <1>4, <1>5, <1>6, <1>7, <1>8, <1>9 DEF CompatNext

(* ------------------------------ HeadersFit ----------------------------- *)

\* The headers a scenario puts in play are dicts.
LEMMA HeadersInPlay ==
    ASSUME ScenarioChosen
    PROVE  \A h \in scen.headers : IsDict(h)
<1>1. PICK s \in Scenarios : scen = Over(s, [keys |-> InPlay(s.fields, s.presets)])
  BY DEF ScenarioChosen
<1> DEFINE f == [keys |-> InPlay(s.fields, s.presets)]
<1>2. DOMAIN f = {"keys"}
  OBVIOUS
<1> HIDE DEF f
<1>3. scen.headers = s.headers
  BY <1>1, <1>2, ScenarioAssumptions DEF Over, f
<1>4. QED
  BY <1>3, ScenarioAssumptions DEF IsDict

\* A step that sends nothing new keeps HeadersFit.
LEMMA FitKept ==
    ASSUME HeadersFit, scen' = scen, sent' = sent \/ sent' = NoRequest
    PROVE  HeadersFit'
<1>1. CASE sent' = sent
  BY <1>1 DEF HeadersFit, Requested
<1>2. CASE sent' = NoRequest
  BY <1>2 DEF HeadersFit, Requested, NoRequest
<1>3. QED
  BY <1>1, <1>2

\* So does a call that hands over headers built from the caller's.
LEMMA FitCarried ==
    ASSUME HeadersFit, scen' = scen, NEW entry, NEW g, NEW hdr, IsDict(hdr), NEW ctx, NEW body,
           FromCaller(entry, g, hdr, body, scen.headers),
           sent' = NoRequest \/ Carries(sent', entry, g, hdr, ctx, body)
    PROVE  HeadersFit'
<1>1. CASE sent' = NoRequest
  BY <1>1, FitKept
<1>2. CASE Carries(sent', entry, g, hdr, ctx, body)
  <2>1. Fit(sent', scen'.headers)
    BY <1>2, CallFits
  <2>2. QED
    BY <2>1 DEF HeadersFit, Fit
<1>3. QED
  BY <1>1, <1>2

\* So does every step of Session and AsyncSession.
LEMMA NativeFit ==
    ASSUME ScenarioChosen, HeadersFit, Next, scen.compat = <<>>
    PROVE  HeadersFit'
<1>0. scen' = scen
  BY NativeSteps, ScenarioKept
<1>1. ASSUME NEW f, NEW g, Construct(f, g)
      PROVE  HeadersFit'
  <2>1. sent' = sent
    BY <1>1 DEF Construct, Preset, Made, vars
  <2>2. QED
    BY <1>0, <2>1, FitKept
<1>2. ASSUME \/ \E p, v : SetProperty(p, v)
             \/ \E v : SetIdentifier(v)
             \/ \E n : Apply(n)
             \/ Close \/ AsyncClose
      PROVE  HeadersFit'
  <2>1. sent' = NoRequest
    BY <1>2 DEF SetProperty, SetIdentifier, Apply, Close, AsyncClose, CloseFacade
  <2>2. QED
    BY <1>0, <2>1, FitKept
<1>3. ASSUME NEW h \in scen.headers, NEW c, NEW g \in RequestArgs,
             Request(g, h, c) \/ AsyncRequest(g, h, c)
      PROVE  HeadersFit'
  <2> DEFINE hdr == CompatHeaders(g, h)
             body == CompatBody(g)
  <2>1. sent' = NoRequest \/ Carries(sent', "request", g, hdr, c, body)
    BY <1>3, SyncCarries, AsyncCarries DEF Request, AsyncRequest
  <2>2. Get(g, "data") # "json"
    <3>1. \A p \in DOMAIN g : g[p] \in ValuesOf(p)
      BY <1>3, KwargsFacts DEF RequestArgs
    <3>2. "json" \notin ValuesOf("data") /\ None # "json"
      BY DEF ValuesOf, None
    <3>3. QED
      BY <3>1, <3>2 DEF Get
  <2>3. IsDict(h)
    BY HeadersInPlay
  <2>4. FromCaller("request", g, hdr, body, scen.headers)
    BY <2>2, <2>3 DEF FromCaller
  <2>5. IsDict(hdr)
    BY <2>2, <2>3, CompatHeadersIs
  <2> HIDE DEF hdr, body
  <2>6. QED
    BY <1>0, <2>1, <2>4, <2>5, FitCarried
<1>4. ASSUME NEW h \in scen.headers, NEW c, NEW g, NEW entry \in {"execute", "typed", "stream"},
             \/ SyncExecute(entry, g, g, h, c, None)
             \/ AsyncExecute(entry, g, g, h, c, None)
      PROVE  HeadersFit'
  <2>1. sent' = NoRequest \/ Carries(sent', entry, g, h, c, None)
    BY <1>4, SyncCarries, AsyncCarries
  <2>2. IsDict(h) /\ FromCaller(entry, g, h, None, scen.headers)
    BY HeadersInPlay DEF FromCaller
  <2>3. QED
    BY <1>0, <2>1, <2>2, FitCarried
<1>5. ASSUME NEW h \in scen.headers, NEW c, NEW g,
             \/ ExecuteRequest(g, h, c) \/ AsyncExecuteRequest(g, h, c)
             \/ TypedRequest(g, h) \/ AsyncTypedRequest(g, h)
             \/ StreamToFile(g, h) \/ AsyncStreamToFile(g, h)
      PROVE  HeadersFit'
  <2>1. CASE ExecuteRequest(g, h, c) \/ AsyncExecuteRequest(g, h, c)
    BY <1>4, <2>1 DEF ExecuteRequest, AsyncExecuteRequest
  <2>2. CASE TypedRequest(g, h) \/ AsyncTypedRequest(g, h)
    BY <1>4, <2>2 DEF TypedRequest, AsyncTypedRequest
  <2>3. CASE StreamToFile(g, h) \/ AsyncStreamToFile(g, h)
    BY <1>4, <2>3 DEF StreamToFile, AsyncStreamToFile
  <2>4. QED
    BY <1>5, <2>1, <2>2, <2>3
<1>6. CASE \/ \E g \in Kwargs(scen.fields \cap SessionParams) : NewSession(g)
           \/ \E g \in Kwargs(scen.fields \cap AsyncSessionParams) : NewAsyncSession(g)
  BY <1>1, <1>6 DEF NewSession, NewAsyncSession
<1>7. QED
  BY <1>2, <1>3, <1>5, <1>6 DEF Next

\* Every step keeps HeadersFit; through the requests-style Session the
\* headers of the current request are the caller's.
LEMMA FitStep ==
    ASSUME ScenarioChosen, CallSound, Sending, HeadersFit, [CompatNext]_<<vars, cvars>>
    PROVE  HeadersFit'
<1>0. scen' = scen
  BY EveryStep, ScenarioKept
<1>1. CASE scen.compat = <<>> /\ Next
  BY <1>1, NativeFit
<1>2. CASE Hop
  <2>1. UNCHANGED vars
        \/ SyncExecute("compat", AdapterKwargs, AdapterKwargs, call.current.headers,
                       call.options.context, call.current.body)
    BY <1>2 DEF Hop
  <2>2. CASE UNCHANGED vars
    BY <1>0, <2>2, FitKept DEF vars
  <2>3. CASE SyncExecute("compat", AdapterKwargs, AdapterKwargs, call.current.headers,
                         call.options.context, call.current.body)
    <3> DEFINE g == AdapterKwargs
               hdr == call.current.headers
               ctx == call.options.context
               body == call.current.body
    <3>1. IsDict(hdr)
      BY <1>2 DEF Hop, NoCall, Sending, CallSafe, OnCall, Tidy
    <3>2. SyncExecute("compat", g, g, hdr, ctx, body)
      BY <2>3
    <3> HIDE DEF g, hdr, ctx, body
    <3>3. sent' = NoRequest \/ Carries(sent', "compat", g, hdr, ctx, body)
      BY <3>2, SyncCarries
    <3>4. FromCaller("compat", g, hdr, body, scen.headers)
      BY DEF FromCaller
    <3>5. QED
      BY <1>0, <3>1, <3>3, <3>4, FitCarried
  <2>4. QED
    BY <2>1, <2>2, <2>3
<1>3. ASSUME NEW n, NewCompat(n)
      PROVE  HeadersFit'
  <2>1. sent' = sent
    BY <1>3 DEF NewCompat, Construct, Preset, Made, vars
  <2>2. QED
    BY <1>0, <2>1, FitKept
<1>4. ASSUME \/ \E p, v : SetAttribute(p, v)
             \/ \E a : Ask(a) \/ Answer(a)
             \/ Fail \/ CompatClose \/ UNCHANGED <<vars, cvars>>
      PROVE  HeadersFit'
  <2>1. sent' = sent \/ sent' = NoRequest
    BY <1>4 DEF SetAttribute, SetProperty, Ask, Answer, Fail, CompatClose, vars
  <2>2. QED
    BY <1>0, <2>1, FitKept
<1>5. QED
  BY <1>1, <1>2, <1>3, <1>4 DEF CompatNext

(* ------------------------------ invariance ----------------------------- *)

\* Before any session exists the invariant holds.
LEMMA WireInit ==
    ASSUME CompatInit
    PROVE  WireInv
<1>1. /\ facade = "none" /\ sent = NoRequest /\ jar = {} /\ call = NoCall
      /\ outcome = NoOutcome
  BY DEF CompatInit, Init
<1>2. ScenarioChosen
  BY DEF CompatInit, Init, ScenarioChosen
<1>3. HeadersFit
  BY <1>1 DEF HeadersFit, Requested, NoRequest
<1>4. CallSound
  BY <1>1 DEF CallSound
<1>5. Playing /\ AttrSound /\ EndSound /\ JarSafe(jar) /\ CallSafe /\ Wired
  BY <1>1 DEF Playing, AttrSound, EndSound, JarSafe, CallSafe, Wired, NoOutcome, NoCall
<1>6. QED
  BY <1>2, <1>3, <1>4, <1>5 DEF WireInv, Sending

\* The invariant holds in every state of every scenario.
LEMMA WireInvariance == CompatSpec => []WireInv
<1>1. CompatInit => WireInv
  BY WireInit
<1>2. WireInv /\ [CompatNext]_<<vars, cvars>> => WireInv'
  <2> SUFFICES ASSUME WireInv, [CompatNext]_<<vars, cvars>>
               PROVE  WireInv'
    OBVIOUS
  <2>1. ScenarioChosen' /\ CallSound'
    BY EveryStep, ScenarioStep, CallStep DEF WireInv
  <2>2. Sending' /\ HeadersFit'
    BY SendingStep, FitStep DEF WireInv
  <2>3. QED
    BY <2>1, <2>2 DEF WireInv
<1>3. QED
  BY <1>1, <1>2, PTL DEF CompatSpec

\* Whatever preset, profile and session headers are in force, the request on
\* the wire carries the fetch metadata of its context, the headers its caller
\* wrote and the type of the body request() encoded (_merge_default_headers,
\* apply_context, _prepare_request_compat).
THEOREM HeadersAlwaysFit == CompatSpec => []HeadersFit
<1>1. WireInv => HeadersFit
  BY DEF WireInv
<1>2. QED
  BY <1>1, WireInvariance, PTL

\* What the request owns and the wire shows is the current request's or the
\* block's.
LEMMA OnWire ==
    ASSUME WireInv, OnTheWire
    PROVE  /\ OnCall(call, jar, attr.max_redirects) /\ sent.body = call.current.body
           /\ IsDict(sent.headers)
           /\ Sourced(sent.headers, call.current.headers, Block(sent.opts.default_headers))
  BY DEF WireInv, Sending, CallSafe, Wired, OnTheWire, NoCall

\* A header of the request that is on the wire is one of the current request,
\* unless it stands in default_headers.
LEMMA OwnHeader ==
    ASSUME WireInv, OnTheWire, NEW n, Fold(n) \in OfRequest, Has(sent.headers, n),
           ~FromDefaults(n)
    PROVE  /\ <<Fold(n), ValueOf(sent.headers, n)>> \in Entries(call.current.headers)
           /\ Fold(n) \in Folded(call.current.headers)
<1> DEFINE v == ValueOf(sent.headers, n)
           e == <<Fold(n), v>>
           own == Block(sent.opts.default_headers)
<1>1. e \in Entries(sent.headers) /\ e[1] = Fold(n) /\ e[2] = v
  BY OnWire, FoundEntry
<1>2. ASSUME e \in Entries(own) PROVE FALSE
  <2> HIDE DEF v, own
  <2>1. PICK i \in DOMAIN own : e = <<Fold(own[i][1]), own[i][2]>>
    BY <1>2 DEF Entries
  <2>2. Fold(own[i][1]) = Fold(n) /\ own[i][2] = v
    BY <2>1
  <2>3. QED
    BY <2>2 DEF FromDefaults, v, own
<1> HIDE DEF e, v, own
<1>3. e \in Entries(call.current.headers)
  BY <1>1, <1>2, OnWire DEF Sourced, own
<1>4. QED
  BY <1>1, <1>3, EntryName DEF e, v

\* However long the chain of redirects, an Authorization header of the request
\* never leaves the netloc of the first request, nor comes back after the chain
\* left it (_redirect_request); whatever else the wire shows under that name is
\* the entry of default_headers, which _merge_default_headers adds at each hop.
THEOREM CredentialsKept == CompatSpec => []CredentialsStayHome
<1>1. ASSUME WireInv PROVE CredentialsStayHome
  <2> SUFFICES ASSUME OnTheWire, Has(sent.headers, "Authorization"),
                      ~FromDefaults("Authorization")
               PROVE  /\ Netloc(call.current.url) = Netloc(call.first.url)
                      /\ \A i \in DOMAIN call.history :
                            Netloc(call.history[i].url) = Netloc(call.first.url)
    BY DEF CredentialsStayHome
  <2>1. Fold("Authorization") = "authorization" /\ "authorization" \in OfRequest
    BY FoldTable DEF OfRequest
  <2>2. "authorization" \in Folded(call.current.headers)
    BY <1>1, <2>1, OwnHeader
  <2>3. QED
    BY <1>1, <2>2, OnWire DEF OnCall, AuthHome
<1>2. QED
  BY <1>1, WireInvariance, PTL

\* However long the chain and whatever the servers set, a cookie goes only
\* where its domain and path allow, and the caller's own cookies of one call do
\* not follow a redirect (cookies.py, _redirect_request), a Cookie entry of
\* default_headers apart.
THEOREM CookiesKept == CompatSpec => []CookiesStayHome
<1>1. ASSUME WireInv PROVE CookiesStayHome
  <2> DEFINE v == ValueOf(sent.headers, "Cookie")
  <2> SUFFICES ASSUME OnTheWire, Has(sent.headers, "Cookie"), ~FromDefaults("Cookie"),
                      v[1] = "cookies", NEW c \in v[2]
               PROVE  /\ MayGo(c, call.current.url)
                      /\ call.history # <<>> => c \in jar
    BY DEF CookiesStayHome, MayGo
  <2>1. Fold("Cookie") = "cookie" /\ "cookie" \in OfRequest
    BY FoldTable DEF OfRequest
  <2> HIDE DEF v
  <2>2. <<"cookie", v>> \in Entries(call.current.headers)
    BY <1>1, <2>1, OwnHeader DEF v
  <2>3. QED
    BY <1>1, <2>2, OnWire DEF OnCall, CookiesHome
<1>2. QED
  BY <1>1, WireInvariance, PTL

\* send() follows at most max_redirects redirects, raises TooManyRedirects
\* after exactly that many, and applies the method and body rule of each
\* status along the whole chain, to all but what default_headers add.
THEOREM RedirectsBounded == CompatSpec => []RedirectChain
<1>1. ASSUME WireInv PROVE RedirectChain
  <2>1. outcome.kind = "TooManyRedirects" => outcome.followed = attr.max_redirects
    BY <1>1 DEF WireInv, Sending, EndSound
  <2>2. ASSUME OnTheWire
        PROVE  /\ Len(call.history) <= (IF call.allow THEN attr.max_redirects ELSE 0)
               /\ call.current.method # call.first.method =>
                     /\ sent.body = None
                     /\ \A n \in {"Content-Length", "Content-Type"} :
                           Has(sent.headers, n) => FromDefaults(n)
               /\ (\A i \in DOMAIN call.history : call.history[i].status \in {307, 308}) =>
                     call.current.method = call.first.method /\ sent.body = call.first.body
    <3>1. /\ Len(call.history) <= (IF call.allow THEN attr.max_redirects ELSE 0)
          /\ BodyRule(call) /\ sent.body = call.current.body
      BY <1>1, <2>2, OnWire DEF OnCall
    <3>2. /\ Fold("Content-Length") = "content-length" /\ "content-length" \in OfRequest
          /\ Fold("Content-Type") = "content-type" /\ "content-type" \in OfRequest
      BY FoldTable DEF OfRequest
    <3>3. \A n \in {"Content-Length", "Content-Type"} :
             Has(sent.headers, n) /\ ~FromDefaults(n) =>
                 Fold(n) \in Folded(call.current.headers)
      BY <1>1, <2>2, <3>2, OwnHeader
    <3>4. QED
      BY <3>1, <3>2, <3>3 DEF BodyRule
  <2>3. QED
    BY <2>1, <2>2 DEF RedirectChain
<1>2. QED
  BY <1>1, WireInvariance, PTL
=============================================================================
