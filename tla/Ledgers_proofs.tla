--------------------------- MODULE Ledgers_proofs ---------------------------
(***************************************************************************)
(* Facts about ledgers and sums that the proofs of their clients need, for *)
(* rows of any kind.                                                       *)
(***************************************************************************)
EXTENDS Ledgers, FiniteSetTheorems, SequenceTheorems, TLAPS

\* A row under an unused key that starts from the last balance continues a
\* ledger: the chain ends in the balance the row leaves, and keys stay distinct.
LEMMA ChainAppend ==
  ASSUME NEW S, NEW rows \in Seq(S), NEW entry \in S, NEW balance,
         ChainFrom(rows, balance), KeysDistinct(rows), entry.before = balance,
         \A i \in DOMAIN rows : rows[i].key # entry.key
  PROVE  /\ Append(rows, entry) \in Seq(S)
         /\ ChainFrom(Append(rows, entry), entry.after)
         /\ KeysDistinct(Append(rows, entry))
<1> DEFINE new == Append(rows, entry)
<1>1. /\ Len(new) = Len(rows) + 1 /\ new[Len(new)] = entry /\ Len(rows) \in Nat
      /\ DOMAIN rows = 1..Len(rows) /\ DOMAIN new = 1..Len(new)
      /\ \A i \in 1..Len(rows) : new[i] = rows[i]
      /\ new \in Seq(S)
  OBVIOUS
<1> HIDE DEF new
<1>2. ChainFrom(new, entry.after)
  <2>1. CASE rows = <<>>
    <3>1. Len(rows) = 0 /\ entry.before = 0
      BY <2>1 DEF ChainFrom
    <3>2. QED  BY <1>1, <3>1 DEF ChainFrom
  <2>2. CASE rows # <<>>
    <3>1. Len(rows) > 0
      BY <2>2
    <3>2. new # <<>> /\ new[1].before = 0 /\ new[Len(new)].after = entry.after
      BY <1>1, <2>2, <3>1 DEF ChainFrom
    <3>3. ASSUME NEW i \in 1..(Len(new) - 1) PROVE new[i + 1].before = new[i].after
      <4>1. CASE i = Len(rows)
        BY <1>1, <2>2, <3>1, <4>1 DEF ChainFrom
      <4>2. CASE i # Len(rows)
        <5>1. i \in 1..(Len(rows) - 1) /\ i + 1 \in 1..Len(rows) /\ i \in 1..Len(rows)
          <6>1. Len(new) - 1 = Len(rows) /\ Len(rows) \in Nat
            BY <1>1
          <6>2. i \in 1..Len(rows)
            BY <6>1, Zenon
          <6>3. QED  BY <4>2, <6>1, <6>2
        <5>2. QED  BY <1>1, <5>1 DEF ChainFrom
      <4>3. QED  BY <4>1, <4>2
    <3>4. QED  BY <3>2, <3>3 DEF ChainFrom
  <2>3. QED  BY <2>1, <2>2
<1>3. KeysDistinct(new)
  <2>1. ASSUME NEW i \in 1..Len(new), NEW j \in 1..Len(new), new[i].key = new[j].key
        PROVE  i = j
    <3>1. i \in 1..Len(rows) \/ i = Len(new)
      BY <1>1
    <3>2. j \in 1..Len(rows) \/ j = Len(new)
      BY <1>1
    <3>3. QED  BY <1>1, <2>1, <3>1, <3>2 DEF KeysDistinct
  <2>2. QED  BY <1>1, <2>1 DEF KeysDistinct
<1>4. QED  BY <1>1, <1>2, <1>3 DEF new

\* Rows that continue the chain leave it unbroken.
LEMMA ChainConcat ==
  ASSUME NEW S, NEW rows \in Seq(S), NEW more \in Seq(S), NEW balance, NEW final,
         ChainFrom(rows, balance), KeysDistinct(rows),
         more # <<>> => more[1].before = balance,
         \A i \in 1..(Len(more) - 1) : more[i + 1].before = more[i].after,
         final = IF more = <<>> THEN balance ELSE more[Len(more)].after,
         KeysDistinct(more),
         \A i \in DOMAIN rows, j \in DOMAIN more : rows[i].key # more[j].key
  PROVE  /\ rows \o more \in Seq(S)
         /\ ChainFrom(rows \o more, final) /\ KeysDistinct(rows \o more)
<1> DEFINE new == rows \o more
<1>1. /\ Len(rows) \in Nat /\ Len(more) \in Nat /\ Len(new) = Len(rows) + Len(more)
      /\ new \in Seq(S)
  BY ConcatProperties
<1>2. CASE more = <<>>
  <2>1. new = rows /\ final = balance
    BY <1>2, EmptySeq, ConcatEmptySeq
  <2>2. QED  BY <1>1, <2>1
<1>3. CASE more # <<>>
  <2> DEFINE k == Len(rows)
             m == Len(more)
  <2>1. m > 0 /\ final = more[m].after /\ new # <<>>
    BY <1>1, <1>3, EmptySeq
  <2>2. \A i \in 1..k : new[i] = rows[i]
    BY ConcatProperties
  <2>3. \A i \in 1..m : new[k + i] = more[i]
    <3>1. \A i \in 1..m : k + i \in 1..Len(new) /\ k + i > k /\ (k + i) - k = i
      BY <1>1
    <3>2. QED  BY <3>1, ConcatProperties
  <2>4. \A i \in 1..(k + m) : i \in 1..k \/ \E j \in 1..m : i = k + j
    <3> SUFFICES ASSUME NEW i \in 1..(k + m), i \notin 1..k
                 PROVE  \E j \in 1..m : i = k + j
      OBVIOUS
    <3>1. i - k \in 1..m /\ i = k + (i - k)
      BY <1>1
    <3>2. QED  BY <3>1
  <2>5. /\ k = 0 => rows = <<>> /\ balance = 0
        /\ k > 0 => rows[1].before = 0 /\ rows[k].after = balance
        /\ \A i \in 1..(k - 1) : rows[i + 1].before = rows[i].after
    BY EmptySeq DEF ChainFrom
  <2> HIDE DEF new, k, m
  <2>6. new[1].before = 0 /\ new[Len(new)].after = final
    <3>1. new[Len(new)] = more[m]
      <4>1. m \in 1..m /\ Len(new) = k + m
        BY <1>1, <2>1 DEF k, m
      <4>2. QED  BY <2>3, <4>1
    <3>2. CASE k = 0
      <4>1. new[1] = more[1]
        <5>1. 1 \in 1..m /\ k + 1 = 1
          BY <1>1, <2>1, <3>2 DEF k, m
        <5>2. QED  BY <2>3, <5>1
      <4>2. QED  BY <1>3, <2>1, <2>5, <3>1, <3>2, <4>1
    <3>3. CASE k > 0
      <4>1. 1 \in 1..k
        BY <1>1, <3>3 DEF k
      <4>2. QED  BY <2>1, <2>2, <2>5, <3>1, <3>3, <4>1
    <3>4. QED  BY <1>1, <3>2, <3>3 DEF k
  <2>7. ASSUME NEW i \in 1..(Len(new) - 1)
        PROVE  new[i + 1].before = new[i].after
    <3>1. Len(new) = k + m /\ k \in Nat /\ m \in Nat
      BY <1>1 DEF k, m
    <3>2. CASE i < k
      <4>1. i \in 1..k /\ i + 1 \in 1..k /\ i \in 1..(k - 1)
        BY <3>1, <3>2
      <4>2. QED  BY <2>2, <2>5, <4>1
    <3>3. CASE i = k
      <4>1. k \in 1..k /\ k > 0 /\ 1 \in 1..m
        BY <2>1, <3>1, <3>3
      <4>2. new[k] = rows[k] /\ new[k + 1] = more[1]
        BY <2>2, <2>3, <4>1
      <4>3. QED  BY <1>3, <2>5, <3>3, <4>1, <4>2
    <3>4. CASE i > k
      <4>1. PICK j \in 1..m : i = k + j
        BY <2>4, <3>1, <3>4
      <4>2. j \in 1..(m - 1) /\ j + 1 \in 1..m /\ k + (j + 1) = i + 1
        BY <3>1, <4>1
      <4>3. new[i + 1] = more[j + 1] /\ new[i] = more[j]
        BY <2>3, <4>1, <4>2
      <4>4. QED  BY <4>2, <4>3 DEF m
    <3>5. QED  BY <3>1, <3>2, <3>3, <3>4
  <2>8. KeysDistinct(new)
    <3> SUFFICES ASSUME NEW i \in DOMAIN new, NEW j \in DOMAIN new, new[i].key = new[j].key
                 PROVE  i = j
      BY DEF KeysDistinct
    <3>1. /\ i \in 1..(k + m) /\ j \in 1..(k + m) /\ DOMAIN rows = 1..k /\ DOMAIN more = 1..m
      BY <1>1 DEF k, m
    <3>2. /\ \A x \in 1..k, y \in 1..m : rows[x].key # more[y].key
          /\ \A x, y \in 1..k : rows[x].key = rows[y].key => x = y
          /\ \A x, y \in 1..m : more[x].key = more[y].key => x = y
      BY <3>1 DEF KeysDistinct
    <3>3. CASE i \in 1..k /\ j \in 1..k
      BY <2>2, <3>2, <3>3
    <3>4. CASE i \in 1..k /\ j \notin 1..k
      BY <2>2, <2>3, <2>4, <3>1, <3>2, <3>4
    <3>5. CASE i \notin 1..k /\ j \in 1..k
      BY <2>2, <2>3, <2>4, <3>1, <3>2, <3>5
    <3>6. CASE i \notin 1..k /\ j \notin 1..k
      BY <2>3, <2>4, <3>1, <3>2, <3>6
    <3>7. QED  BY <3>3, <3>4, <3>5, <3>6
  <2>9. QED  BY <1>1, <2>1, <2>6, <2>7, <2>8 DEF ChainFrom, new
<1>4. QED  BY <1>2, <1>3

\* Two rows inserted by one transaction are appended one after the other.
LEMMA AppendTwo ==
  ASSUME NEW S, NEW rows \in Seq(S), NEW a \in S, NEW b \in S
  PROVE  rows \o <<a, b>> = Append(Append(rows, a), b)
<1>1. Append(Append(rows, a), b) \in Seq(S)
  OBVIOUS
<1>2. rows \o <<a, b>> \in Seq(S)
  BY ConcatProperties
<1>3. Len(rows \o <<a, b>>) = Len(Append(Append(rows, a), b))
  BY ConcatProperties
<1>4. \A i \in 1..Len(rows \o <<a, b>>) :
        (rows \o <<a, b>>)[i] = Append(Append(rows, a), b)[i]
  BY ConcatProperties
<1>5. QED  BY <1>1, <1>2, <1>3, <1>4, SeqEqual

\* A set that grows by n units of one stake has n elements more.
LEMMA UnitsAdded ==
  ASSUME NEW T, NEW b, NEW n \in Nat, IsFiniteSet(T), T \cap ({b} \X (1..n)) = {}
  PROVE  /\ Cardinality(T) \in Nat
         /\ Cardinality(T \cup ({b} \X (1..n))) = Cardinality(T) + n
<1>1. IsFiniteSet(1..n) /\ Cardinality(1..n) = n
  <2>1. 1 \in Int /\ n \in Int
    OBVIOUS
  <2>2. /\ IsFiniteSet(1..n)
        /\ Cardinality(1..n) = IF 1 > n THEN 0 ELSE n - 1 + 1
    BY <2>1, FS_Interval, Zenon
  <2>3. QED  BY <2>2
<1>2. IsFiniteSet({b}) /\ Cardinality({b}) = 1
  BY FS_Singleton
<1>3. /\ IsFiniteSet({b} \X (1..n))
      /\ Cardinality({b} \X (1..n)) = 1 * n
  <2>1. /\ IsFiniteSet({b} \X (1..n))
        /\ Cardinality({b} \X (1..n)) = Cardinality({b}) * Cardinality(1..n)
    BY <1>1, <1>2, FS_Product, Zenon
  <2>2. QED  BY <1>1, <1>2, <2>1, Zenon
<1> DEFINE U == {b} \X (1..n)
<1>4. Cardinality(T) \in Nat /\ Cardinality(T \cap U) = 0
  BY FS_CardinalityType, FS_EmptySet
<1>5. Cardinality(T \cup U) = Cardinality(T) + Cardinality(U) - Cardinality(T \cap U)
  BY <1>3, FS_Union
<1>6. QED  BY <1>3, <1>4, <1>5

-----------------------------------------------------------------------------
(***************************************************************************)
(* Totals.                                                                 *)
(***************************************************************************)

\* A total is a natural number, of finitely many pieces.
LEMMA TotalType ==
  ASSUME NEW amount, NEW S, IsFiniteSet(S), \A s \in S : amount[s] \in Nat
  PROVE  IsFiniteSet(Pieces(amount, S)) /\ Total(amount, S) \in Nat
<1> DEFINE Of(s) == {s} \X (1..amount[s])
           All == {Of(s) : s \in S}
           f == [s \in S |-> Of(s)]
<1>1. \A s \in S : IsFiniteSet(Of(s))
  <2> TAKE s \in S
  <2>1. IsFiniteSet({s}) /\ IsFiniteSet(1..amount[s])
    <3>1. 1 \in Int /\ amount[s] \in Int
      OBVIOUS
    <3>2. QED  BY <3>1, FS_Interval, FS_Singleton, Zenon
  <2>2. QED  BY <2>1, FS_Product, Zenon
<1>2. IsFiniteSet(All)
  <2>1. f \in Surjection(S, All)
    BY DEF Surjection
  <2>2. QED  BY <2>1, FS_Surjection, Zenon
<1>3. IsFiniteSet(UNION All)
  <2>1. \A U \in All : IsFiniteSet(U)
    BY <1>1
  <2>2. QED  BY <1>2, <2>1, FS_UNION, Zenon
<1>4. QED  BY <1>3, FS_CardinalityType, Zenon DEF Total, Pieces

\* Rows without an amount add nothing.
LEMMA TotalOfNothing ==
  ASSUME NEW amount, NEW S, \A s \in S : amount[s] = 0
  PROVE  Total(amount, S) = 0
<1>1. Pieces(amount, S) = {}
  BY DEF Pieces
<1>2. QED  BY <1>1, FS_EmptySet DEF Total

\* Only the amounts of the rows counted matter.
LEMMA TotalSame ==
  ASSUME NEW f, NEW g, NEW S, \A s \in S : f[s] = g[s]
  PROVE  Total(f, S) = Total(g, S)
<1>1. Pieces(f, S) = Pieces(g, S)
  BY DEF Pieces
<1>2. QED  BY <1>1 DEF Total

\* The total of rows that fall into two parts is the sum of the parts' totals.
LEMMA TotalSplit ==
  ASSUME NEW amount, NEW S, NEW T, S \cap T = {}, IsFiniteSet(S), IsFiniteSet(T),
         \A s \in S \cup T : amount[s] \in Nat
  PROVE  Total(amount, S \cup T) = Total(amount, S) + Total(amount, T)
<1>1. Pieces(amount, S \cup T) = Pieces(amount, S) \cup Pieces(amount, T)
  BY DEF Pieces
<1>2. Pieces(amount, S) \cap Pieces(amount, T) = {}
  BY DEF Pieces
<1>3. /\ IsFiniteSet(Pieces(amount, S)) /\ Total(amount, S) \in Nat
      /\ IsFiniteSet(Pieces(amount, T)) /\ Total(amount, T) \in Nat
  BY TotalType
<1>4. Cardinality(Pieces(amount, S) \cup Pieces(amount, T)) =
        Cardinality(Pieces(amount, S)) + Cardinality(Pieces(amount, T))
          - Cardinality(Pieces(amount, S) \cap Pieces(amount, T))
  BY <1>3, FS_Union, Zenon
<1>5. Cardinality(Pieces(amount, S) \cap Pieces(amount, T)) = 0
  BY <1>2, FS_EmptySet
<1>6. /\ Cardinality(Pieces(amount, S)) \in Nat
      /\ Cardinality(Pieces(amount, T)) \in Nat
  BY <1>3 DEF Total
<1>7. Cardinality(Pieces(amount, S) \cup Pieces(amount, T)) =
        Cardinality(Pieces(amount, S)) + Cardinality(Pieces(amount, T))
  BY <1>4, <1>5, <1>6
<1>8. QED  BY <1>1, <1>7, Zenon DEF Total

\* One more row adds its amount.
LEMMA TotalAdd ==
  ASSUME NEW amount, NEW S, NEW row, row \notin S, IsFiniteSet(S),
         \A s \in S \cup {row} : amount[s] \in Nat
  PROVE  /\ Total(amount, S) \in Nat
         /\ Total(amount, S \cup {row}) = Total(amount, S) + amount[row]
<1>1. IsFiniteSet({row}) /\ S \cap {row} = {}
  BY FS_Singleton
<1>2. Total(amount, S \cup {row}) = Total(amount, S) + Total(amount, {row})
  BY <1>1, TotalSplit
<1>3. Total(amount, {row}) = amount[row]
  <2>1. Pieces(amount, {row}) = {} \cup ({row} \X (1..amount[row]))
    BY DEF Pieces
  <2>2. /\ amount[row] \in Nat /\ IsFiniteSet({}) /\ Cardinality({}) = 0
        /\ {} \cap ({row} \X (1..amount[row])) = {}
    BY FS_EmptySet
  <2>3. Cardinality({} \cup ({row} \X (1..amount[row]))) = Cardinality({}) + amount[row]
    BY <2>2, UnitsAdded
  <2>4. Cardinality(Pieces(amount, {row})) = amount[row]
    <3>1. Cardinality({} \cup ({row} \X (1..amount[row]))) = amount[row]
      BY <2>2, <2>3
    <3>2. QED  BY <2>1, <3>1, Zenon
  <2>5. QED  BY <2>4, Zenon DEF Total
<1>4. Total(amount, S) \in Nat
  BY TotalType
<1>5. QED  BY <1>2, <1>3, <1>4

\* The total follows the amount of one row that changes.
LEMMA TotalChange ==
  ASSUME NEW f, NEW g, NEW S, NEW i \in S, IsFiniteSet(S),
         \A s \in S : f[s] \in Nat /\ g[s] \in Nat,
         \A s \in S \ {i} : g[s] = f[s]
  PROVE  /\ Total(f, S) \in Nat /\ Total(g, S) \in Nat
         /\ Total(g, S) + f[i] = Total(f, S) + g[i]
<1> DEFINE R == S \ {i}
<1>1. IsFiniteSet(R) /\ i \notin R /\ R \cup {i} = S
  BY FS_Difference
<1> HIDE DEF R
<1>2. \A s \in R \cup {i} : f[s] \in Nat /\ g[s] \in Nat
  BY <1>1
<1>3. Total(f, R) \in Nat /\ Total(f, R \cup {i}) = Total(f, R) + f[i]
  BY <1>1, <1>2, TotalAdd
<1>4. Total(g, R) \in Nat /\ Total(g, R \cup {i}) = Total(g, R) + g[i]
  BY <1>1, <1>2, TotalAdd
<1>5. Total(f, R) = Total(g, R)
  <2>1. \A s \in R : f[s] = g[s]
    BY DEF R
  <2>2. QED  BY <2>1, TotalSame
<1>6. f[i] \in Nat /\ g[i] \in Nat
  OBVIOUS
<1>7. Total(f, S) = Total(f, R) + f[i] /\ Total(g, S) = Total(f, R) + g[i]
  BY <1>1, <1>3, <1>4, <1>5, Zenon
<1>8. QED  BY <1>3, <1>6, <1>7

\* Rows that are not counted could as well be counted with nothing.
LEMMA TotalWhere ==
  ASSUME NEW f, NEW g, NEW S, NEW T, T \subseteq S,
         \A s \in S : g[s] = IF s \in T THEN f[s] ELSE 0
  PROVE  Total(g, S) = Total(f, T)
<1>1. \A s \in S : 1..g[s] = IF s \in T THEN 1..f[s] ELSE {}
  OBVIOUS
<1>2. Pieces(g, S) = Pieces(f, T)
  BY <1>1 DEF Pieces
<1>3. QED  BY <1>2 DEF Total

\* Rows that correspond one to one and have the same amounts have the same total.
LEMMA TotalRenamed ==
  ASSUME NEW f, NEW g, NEW S, NEW T, NEW h \in Bijection(S, T), IsFiniteSet(S),
         \A s \in S : f[s] \in Nat /\ g[h[s]] = f[s]
  PROVE  Total(g, T) = Total(f, S)
<1> DEFINE P == Pieces(f, S)
           Q == Pieces(g, T)
           m == [p \in P |-> <<h[p[1]], p[2]>>]
<1>1. /\ \A s \in S : h[s] \in T
      /\ \A s, t \in S : h[s] = h[t] => s = t
      /\ \A t \in T : \E s \in S : h[s] = t
  <2>1. h \in Injection(S, T) /\ h \in Surjection(S, T)
    BY DEF Bijection
  <2>2. h \in [S -> T] /\ IsInjective(h) /\ \A t \in T : \E s \in S : h[s] = t
    BY <2>1, Zenon DEF Injection, Surjection
  <2>3. QED  BY <2>2 DEF IsInjective
<1>2. \A p : p \in P <=> \E s \in S : \E i \in 1..f[s] : p = <<s, i>>
  BY DEF Pieces
<1>3. \A q : q \in Q <=> \E t \in T : \E i \in 1..g[t] : q = <<t, i>>
  BY DEF Pieces
<1> HIDE DEF P, Q
<1>4. \A p \in P : m[p] \in Q
  BY <1>1, <1>2, <1>3
<1>5. \A p, q \in P : m[p] = m[q] => p = q
  BY <1>1, <1>2
<1>6. \A q \in Q : \E p \in P : m[p] = q
  <2> SUFFICES ASSUME NEW q \in Q PROVE \E p \in P : m[p] = q
    OBVIOUS
  <2>1. PICK t \in T : \E i \in 1..g[t] : q = <<t, i>>
    BY <1>3
  <2>2. PICK i \in 1..g[t] : q = <<t, i>>
    BY <2>1
  <2>3. PICK s \in S : h[s] = t
    BY <1>1
  <2>4. i \in 1..f[s]
    BY <2>2, <2>3
  <2>5. <<s, i>> \in P
    BY <1>2, <2>4
  <2>6. QED  BY <2>2, <2>3, <2>5
<1>7. m \in Bijection(P, Q)
  BY <1>4, <1>5, <1>6 DEF Bijection, Injection, Surjection, IsInjective
<1>8. IsFiniteSet(P)
  BY TotalType DEF P
<1>9. Cardinality(Q) = Cardinality(P)
  <2>1. ExistsBijection(P, Q)
    BY <1>7 DEF ExistsBijection
  <2>2. QED  BY <1>8, <2>1, FS_Bijection
<1>10. QED  BY <1>9 DEF P, Q, Total

\* Fewer rows have no greater total.
LEMMA TotalPart ==
  ASSUME NEW f, NEW S, NEW T, T \subseteq S, IsFiniteSet(S), \A s \in S : f[s] \in Nat
  PROVE  Total(f, T) \in Nat /\ Total(f, S) \in Nat /\ Total(f, T) <= Total(f, S)
<1>1. IsFiniteSet(T) /\ IsFiniteSet(S \ T)
  BY FS_Subset, FS_Difference
<1>2. T \cap (S \ T) = {} /\ T \cup (S \ T) = S
  OBVIOUS
<1> PICK U : U = S \ T
  OBVIOUS
<1>3. Total(f, T \cup U) = Total(f, T) + Total(f, U)
  BY <1>1, <1>2, TotalSplit
<1>4. Total(f, T) \in Nat /\ Total(f, U) \in Nat
  BY <1>1, TotalType
<1>5. Total(f, S) = Total(f, T) + Total(f, U)
  BY <1>2, <1>3
<1>6. QED  BY <1>4, <1>5

\* The total of sums is the sum of the totals.
LEMMA TotalSum ==
  ASSUME NEW f, NEW g, NEW h, NEW S, IsFiniteSet(S),
         \A s \in S : f[s] \in Nat /\ g[s] \in Nat /\ h[s] = f[s] + g[s]
  PROVE  Total(h, S) = Total(f, S) + Total(g, S)
<1> DEFINE P == Pieces(f, S)
           Q == Pieces(g, S)
           H == Pieces(h, S)
           m == [q \in Q |-> <<q[1], f[q[1]] + q[2]>>]
           R == {m[q] : q \in Q}
<1>1. \A p : p \in P <=> \E s \in S : \E i \in 1..f[s] : p = <<s, i>>
  BY DEF Pieces
<1>2. \A q : q \in Q <=> \E s \in S : \E i \in 1..g[s] : q = <<s, i>>
  BY DEF Pieces
<1>3. \A p : p \in H <=> \E s \in S : \E i \in 1..h[s] : p = <<s, i>>
  BY DEF Pieces
<1>4. IsFiniteSet(P) /\ IsFiniteSet(Q) /\ Total(f, S) \in Nat /\ Total(g, S) \in Nat
  BY TotalType
<1> HIDE DEF P, Q, H
<1>5. \A r : r \in R <=> \E s \in S : \E i \in 1..g[s] : r = <<s, f[s] + i>>
  <2>1. ASSUME NEW r \in R
        PROVE  \E s \in S : \E i \in 1..g[s] : r = <<s, f[s] + i>>
    <3>1. PICK q \in Q : r = m[q]
      OBVIOUS
    <3>2. PICK s \in S : \E i \in 1..g[s] : q = <<s, i>>
      BY <1>2
    <3>3. QED  BY <3>1, <3>2
  <2>2. ASSUME NEW s \in S, NEW i \in 1..g[s]
        PROVE  <<s, f[s] + i>> \in R
    <3>1. <<s, i>> \in Q
      BY <1>2
    <3>2. m[<<s, i>>] = <<s, f[s] + i>>
      BY <3>1
    <3>3. QED  BY <3>1, <3>2
  <2>3. QED  BY <2>1, <2>2
<1>6. m \in Bijection(Q, R)
  <2>1. \A q, r \in Q : m[q] = m[r] => q = r
    BY <1>2
  <2>2. m \in [Q -> R] /\ \A r \in R : \E q \in Q : m[q] = r
    OBVIOUS
  <2>3. QED  BY <2>1, <2>2 DEF Bijection, Injection, Surjection, IsInjective
<1>7. IsFiniteSet(R) /\ Cardinality(R) = Cardinality(Q)
  <2>1. ExistsBijection(Q, R)
    BY <1>6 DEF ExistsBijection
  <2>2. QED  BY <1>4, <2>1, FS_Bijection
<1> HIDE DEF R
<1>8. H = P \cup R
  <2>1. ASSUME NEW p \in H PROVE p \in P \cup R
    <3>1. PICK s \in S : \E i \in 1..h[s] : p = <<s, i>>
      BY <1>3
    <3>2. PICK i \in 1..h[s] : p = <<s, i>>
      BY <3>1
    <3>3. CASE i \in 1..f[s]
      BY <1>1, <3>2, <3>3
    <3>4. CASE i \notin 1..f[s]
      <4>1. i - f[s] \in 1..g[s] /\ f[s] + (i - f[s]) = i
        BY <3>4
      <4>2. QED  BY <1>5, <3>2, <4>1
    <3>5. QED  BY <3>3, <3>4
  <2>2. ASSUME NEW p \in P PROVE p \in H
    <3>1. PICK s \in S : \E i \in 1..f[s] : p = <<s, i>>
      BY <1>1
    <3>2. \A i \in 1..f[s] : i \in 1..h[s]
      OBVIOUS
    <3>3. QED  BY <1>3, <3>1, <3>2
  <2>3. ASSUME NEW p \in R PROVE p \in H
    <3>1. PICK s \in S : \E i \in 1..g[s] : p = <<s, f[s] + i>>
      BY <1>5
    <3>2. \A i \in 1..g[s] : f[s] + i \in 1..h[s]
      OBVIOUS
    <3>3. QED  BY <1>3, <3>1, <3>2
  <2>4. QED  BY <2>1, <2>2, <2>3
<1>9. P \cap R = {}
  <2> SUFFICES ASSUME NEW p \in P, p \in R PROVE FALSE
    OBVIOUS
  <2>1. PICK s \in S : \E i \in 1..f[s] : p = <<s, i>>
    BY <1>1
  <2>2. PICK t \in S : \E i \in 1..g[t] : p = <<t, f[t] + i>>
    BY <1>5
  <2>3. QED  BY <2>1, <2>2
<1>10. Cardinality(P \cup R) = Cardinality(P) + Cardinality(R)
  <2>1. Cardinality(P \cup R)
          = Cardinality(P) + Cardinality(R) - Cardinality(P \cap R)
    BY <1>4, <1>7, FS_Union
  <2>2. Cardinality(P \cap R) = 0
    BY <1>9, FS_EmptySet
  <2>3. Cardinality(P) \in Nat /\ Cardinality(R) \in Nat
    BY <1>4, <1>7, FS_CardinalityType
  <2>4. QED  BY <2>1, <2>2, <2>3
<1>11. Cardinality(H) = Cardinality(P) + Cardinality(Q)
  BY <1>7, <1>8, <1>10
<1>12. QED  BY <1>11 DEF H, P, Q, Total

\* Equal amounts.
LEMMA TotalEqual ==
  ASSUME NEW f, NEW S, NEW n \in Nat, IsFiniteSet(S), \A s \in S : f[s] = n
  PROVE  Total(f, S) = Cardinality(S) * n
<1>1. Pieces(f, S) = S \X (1..n)
  BY DEF Pieces
<1>2. IsFiniteSet(1..n) /\ Cardinality(1..n) = n
  <2>1. /\ IsFiniteSet(1..n)
        /\ Cardinality(1..n) = IF 1 > n THEN 0 ELSE n - 1 + 1
    <3>1. 1 \in Int /\ n \in Int
      OBVIOUS
    <3>2. QED  BY <3>1, FS_Interval, Zenon
  <2>2. QED  BY <2>1
<1>3. Cardinality(S \X (1..n)) = Cardinality(S) * Cardinality(1..n)
  BY <1>2, FS_Product, Zenon
<1>4. QED  BY <1>1, <1>2, <1>3, Zenon DEF Total

\* What is shared evenly, with one more for the first ones, is all of the pot.
LEMMA TotalShared ==
  ASSUME NEW share, NEW pot \in Nat, NEW n \in Nat \ {0},
         \A i \in 1..n : share[i] = (pot \div n) + (IF i <= pot % n THEN 1 ELSE 0)
  PROVE  Total(share, 1..n) = pot
<1>1. PICK q, m : /\ q = pot \div n /\ m = pot % n /\ q \in Nat /\ m \in 0..(n - 1)
                  /\ pot = n * q + m
  <2>1. pot \div n \in Nat /\ pot % n \in 0..(n - 1)
    OBVIOUS
  <2>2. pot = n * (pot \div n) + (pot % n)
    OBVIOUS
  <2>3. QED  BY <2>1, <2>2
<1>2. PICK f, g, one : /\ f = [i \in 1..n |-> q]
                       /\ g = [i \in 1..n |-> IF i \in 1..m THEN one[i] ELSE 0]
                       /\ one = [i \in 1..m |-> 1]
  <2>1. PICK one : one = [i \in 1..m |-> 1]
    OBVIOUS
  <2>2. QED  BY <2>1
<1>3. /\ IsFiniteSet(1..n) /\ Cardinality(1..n) = n
      /\ IsFiniteSet(1..m) /\ Cardinality(1..m) = m
  <2>1. 1 \in Int /\ n \in Int /\ m \in Int
    BY <1>1
  <2>2. /\ IsFiniteSet(1..n) /\ Cardinality(1..n) = IF 1 > n THEN 0 ELSE n - 1 + 1
        /\ IsFiniteSet(1..m) /\ Cardinality(1..m) = IF 1 > m THEN 0 ELSE m - 1 + 1
    BY <2>1, FS_Interval, Zenon
  <2>3. QED  BY <1>1, <2>2
<1>4. Total(f, 1..n) = n * q
  <2>1. \A i \in 1..n : f[i] = q
    BY <1>2
  <2>2. Total(f, 1..n) = Cardinality(1..n) * q
    BY <1>1, <1>3, <2>1, TotalEqual
  <2>3. QED  BY <1>3, <2>2
<1>5. Total(g, 1..n) = m
  <2>1. 1..m \subseteq 1..n /\ \A i \in 1..n : g[i] = IF i \in 1..m THEN one[i] ELSE 0
    BY <1>1, <1>2
  <2>2. Total(g, 1..n) = Total(one, 1..m)
    <3>1. PICK S, T : S = 1..n /\ T = 1..m
      OBVIOUS
    <3>2. T \subseteq S /\ \A i \in S : g[i] = IF i \in T THEN one[i] ELSE 0
      BY <2>1, <3>1
    <3>3. Total(g, S) = Total(one, T)
      BY <3>2, TotalWhere
    <3>4. QED  BY <3>1, <3>3
  <2>3. \A i \in 1..m : one[i] = 1
    BY <1>2
  <2>4. Total(one, 1..m) = Cardinality(1..m) * 1
    BY <1>3, <2>3, TotalEqual
  <2>5. QED  BY <1>1, <1>3, <2>2, <2>4
<1>6. \A i \in 1..n : f[i] \in Nat /\ g[i] \in Nat /\ share[i] = f[i] + g[i]
  <2> TAKE i \in 1..n
  <2>1. f[i] = q /\ g[i] = IF i <= m THEN 1 ELSE 0
    BY <1>1, <1>2
  <2>2. share[i] = q + (IF i <= m THEN 1 ELSE 0)
    BY <1>1
  <2>3. QED  BY <1>1, <2>1, <2>2
<1>7. Total(share, 1..n) = Total(f, 1..n) + Total(g, 1..n)
  <2>1. PICK S : S = 1..n
    OBVIOUS
  <2>2. IsFiniteSet(S) /\ \A i \in S : f[i] \in Nat /\ g[i] \in Nat /\ share[i] = f[i] + g[i]
    BY <1>3, <1>6, <2>1
  <2>3. Total(share, S) = Total(f, S) + Total(g, S)
    BY <2>2, TotalSum
  <2>4. QED  BY <2>1, <2>3
<1>8. QED  BY <1>1, <1>4, <1>5, <1>7

-----------------------------------------------------------------------------
(***************************************************************************)
(* The least of some numbers, and numbers without a gap.                   *)
(***************************************************************************)

LEMMA LeastNumber ==
  ASSUME NEW T, T \subseteq Nat, T # {}
  PROVE  \E x \in T : \A y \in T : x =< y
<1>1. PICK x \in T : \A y \in T : ~(<<y, x>> \in OpToRel(<, Nat))
  BY NatLessThanWellFounded, WFMin, Zenon
<1>2. \A y \in T : ~(y < x)
  BY <1>1 DEF OpToRel
<1>3. QED  BY <1>2

LEMMA GreatestNumber ==
  ASSUME NEW m \in Nat, NEW T, T \subseteq 1..m, T # {}
  PROVE  \E x \in T : \A y \in T : x >= y
<1> DEFINE Bounds == {n \in Nat : \A y \in T : n >= y}
<1>1. m \in Bounds
  OBVIOUS
<1>2. PICK x \in Bounds : \A n \in Bounds : x =< n
  BY <1>1, LeastNumber
<1>3. x \in T
  <2>1. SUFFICES ASSUME x \notin T PROVE FALSE
    OBVIOUS
  <2>2. \A y \in T : y \in Nat /\ y >= 1 /\ x >= y /\ x # y
    BY <1>2, <2>1
  <2>3. x >= 1 /\ x \in Nat
    <3>1. PICK y \in T : TRUE
      OBVIOUS
    <3>2. QED  BY <1>2, <2>2, <3>1
  <2>4. x - 1 \in Bounds
    BY <2>2, <2>3
  <2>5. QED  BY <1>2, <2>3, <2>4
<1>4. QED  BY <1>2, <1>3

\* Positive numbers up to a bound that have no gap below them are the first ones.
LEMMA NoGap ==
  ASSUME NEW m \in Nat, NEW T, T \subseteq 1..m, \A n \in T : 1..n \subseteq T
  PROVE  Cardinality(T) \in Nat /\ T = 1..Cardinality(T)
<1> DEFINE Missing == {n \in Nat \ {0} : n \notin T}
<1>1. m + 1 \in Missing
  OBVIOUS
<1>2. PICK x \in Missing : \A y \in Missing : x =< y
  BY <1>1, LeastNumber
<1>3. T = 1..(x - 1)
  <2>1. \A n \in 1..(x - 1) : n \in T
    BY <1>2
  <2>2. \A n \in T : n \in 1..(x - 1)
    <3> TAKE n \in T
    <3>1. n \in Nat /\ 1 =< n /\ x \in Nat /\ 1 =< x /\ x \notin T
      BY <1>2
    <3>2. x =< n => x \in 1..n
      BY <3>1
    <3>3. QED  BY <3>1, <3>2
  <2>3. QED  BY <2>1, <2>2
<1>4. 1 \in Int /\ x - 1 \in Int /\ ~(1 > x - 1 + 1) /\ x - 1 \in Nat
  BY <1>2
<1>5. Cardinality(1..(x - 1)) = IF 1 > x - 1 THEN 0 ELSE (x - 1) - 1 + 1
  BY <1>4, FS_Interval, Zenon
<1>6. Cardinality(1..(x - 1)) = x - 1
  BY <1>4, <1>5
<1>7. QED  BY <1>3, <1>4, <1>6
=============================================================================
