---------------------------- MODULE ReportsProofs ----------------------------
(***************************************************************************)
(* Proofs about Reports for every set of clients, dates and rows, and for  *)
(* every size of page: what a client puts together from several answers    *)
(* holds whatever the pipeline does between them.                          *)
(***************************************************************************)
EXTENDS ReportsProperties, RunLedgerProofs, FiniteSetTheorems, SequenceTheorems, TLAPS

----------------------------------------------------------------------------
\* Pages

\* The smaller of two numbers.
LEMMA MinOfTwo ==
  ASSUME NEW a \in Int, NEW b \in Int
  PROVE  Min({a, b}) = IF a <= b THEN a ELSE b
BY DEF Min

\* Pages are not empty.
LEMMA PageSizes ==
  /\ RecordsPerPage \in Nat \ {0}
  /\ Min({Limit, MaxLimit}) \in Nat \ {0}
BY MinOfTwo, ReportsAssumption DEF RecordsPerPage, ReportsAssumption

\* What LIMIT and OFFSET leave of a query's rows.
LEMMA PageOfRows ==
  ASSUME NEW S, NEW s \in Seq(S), NEW limit \in Nat, NEW offset \in Nat
  PROVE  LET page == LimitOffset(s, limit, offset) IN
         /\ page \in Seq(S)
         /\ Len(page) = IF offset >= Len(s) THEN 0
                        ELSE IF offset + limit <= Len(s) THEN limit ELSE Len(s) - offset
         /\ \A i \in 1..Len(page) : page[i] = s[offset + i]
<1>1. Len(s) \in Nat
  BY LenProperties
<1>2. Min({offset + limit, Len(s)}) = IF offset + limit <= Len(s) THEN offset + limit ELSE Len(s)
  BY <1>1, MinOfTwo
<1> DEFINE m == offset + 1
           n == IF offset + limit <= Len(s) THEN offset + limit ELSE Len(s)
<1>3. m \in 1..(Len(s) + 1) => SubSeq(s, m, n) \in Seq(S)
  BY <1>1, SubSeqProperties
<1>4. LimitOffset(s, limit, offset) = SubSeq(s, m, n)
  BY <1>2 DEF LimitOffset
<1>5. /\ SubSeq(s, m, n) \in Seq(S)
      /\ Len(SubSeq(s, m, n)) = IF m <= n THEN n - m + 1 ELSE 0
      /\ \A i \in 1..(n - m + 1) : SubSeq(s, m, n)[i] = s[m + i - 1]
  <2>1. CASE m <= n
    BY <1>1, <2>1, SubSeqProperties
  <2>2. CASE ~(m <= n)
    BY <1>1, <2>2, SubSeqEmpty, EmptySeq
  <2> QED BY <2>1, <2>2
<1> QED BY <1>1, <1>4, <1>5

----------------------------------------------------------------------------
\* Positions in a sorted answer

\* The place of a row in an answer sorted by a relation is the number of rows
\* that are not behind it.
LEMMA PlaceIsPosition ==
  ASSUME NEW S, IsFiniteSet(S), NEW s \in SetToSeqs(S), NEW R,
         \A i, j \in 1..Cardinality(S) : i <= j => <<s[i], s[j]>> \in R,
         \A x, y \in S : <<x, y>> \in R /\ <<y, x>> \in R => x = y
  PROVE  /\ s \in Seq(S) /\ Len(s) = Cardinality(S)
         /\ \A i \in 1..Cardinality(S) : Cardinality({y \in S : <<y, s[i]>> \in R}) = i
         /\ \A x \in S : \E i \in 1..Cardinality(S) : s[i] = x
<1> DEFINE n == Cardinality(S)
<1>1. n \in Nat /\ IsFiniteSet(1..n) /\ Cardinality(1..n) = n
  BY FS_CardinalityType, FS_Interval
<1>2. s \in [1..n -> S] /\ \A i, j \in 1..n : i # j => s[i] # s[j]
  BY DEF SetToSeqs
<1>3. s \in Seq(S) /\ Len(s) = n
  BY <1>1, <1>2, LenProperties, IsASeq
<1>4. s \in Injection(1..n, S)
  BY <1>2 DEF Injection, IsInjective
<1> HIDE DEF n
<1>5. s \in Surjection(1..n, S)
  BY <1>1, <1>4, FS_Injection DEF n
<1>6. \A x \in S : \E i \in 1..n : s[i] = x
  BY <1>5 DEF Surjection
<1>7. ASSUME NEW i \in 1..n
      PROVE  Cardinality({y \in S : <<y, s[i]>> \in R}) = i
  <2> DEFINE U == {y \in S : <<y, s[i]>> \in R}
             g == [j \in 1..i |-> s[j]]
  <2>1. \A j \in 1..i : j \in 1..n /\ s[j] \in U
    BY <1>1, <1>2 DEF n
  <2>2. ASSUME NEW y \in U PROVE \E j \in 1..i : s[j] = y
    <3>1. PICK j \in 1..n : s[j] = y
      BY <1>6
    <3>2. CASE j <= i
      BY <1>1, <3>1, <3>2
    <3>3. CASE ~(j <= i)
      <4>1. <<s[i], s[j]>> \in R
        BY <1>1, <3>3 DEF n
      <4>2. s[i] = y
        BY <1>2, <3>1, <4>1
      <4> QED BY <1>1, <4>2
    <3> QED BY <3>2, <3>3
  <2> HIDE DEF U
  <2>3. g \in Bijection(1..i, U)
    BY <1>1, <1>2, <2>1, <2>2 DEF Bijection, Injection, Surjection, IsInjective
  <2>4. i \in Nat
    BY <1>1
  <2>5. ExistsBijection(1..i, U)
    BY <2>3 DEF ExistsBijection
  <2>6. Cardinality(U) = i
    BY <2>4, <2>5, FS_CountingElements
  <2> QED BY <2>6 DEF U
<1> QED BY <1>3, <1>6, <1>7 DEF n

\* Any finite set of dates can be listed with the latest first.
LEMMA ListingExists ==
  ASSUME NEW S \in SUBSET Nat, IsFiniteSet(S)
  PROVE  \E s \in SetToSeqs(S) : \A i, j \in 1..Len(s) : i < j => s[i] > s[j]
<1> DEFINE n == Cardinality(S)
           From(d) == {e \in S : e >= d}
           r == [d \in S |-> Cardinality(From(d))]
<1>1. n \in Nat /\ IsFiniteSet(1..n) /\ Cardinality(1..n) = n
  BY FS_CardinalityType, FS_Interval
<1>2. ASSUME NEW d \in S
      PROVE  IsFiniteSet(From(d)) /\ r[d] \in 1..n /\ r[d] = Cardinality(From(d))
  <2>1. From(d) \in SUBSET S /\ From(d) # {}
    OBVIOUS
  <2> HIDE DEF From
  <2>2. IsFiniteSet(From(d)) /\ Cardinality(From(d)) <= n
    BY <2>1, FS_Subset
  <2>3. Cardinality(From(d)) \in Nat /\ Cardinality(From(d)) # 0
    BY <2>1, <2>2, FS_CardinalityType, FS_EmptySet
  <2> HIDE DEF n
  <2> QED BY <1>1, <2>2, <2>3
<1>3. ASSUME NEW d \in S, NEW e \in S, d < e PROVE r[e] < r[d]
  <2>0. d \in Nat /\ e \in Nat /\ \A x \in S : x \in Nat
    OBVIOUS
  <2>1. From(e) \in SUBSET From(d) /\ d \in From(d) /\ d \notin From(e)
    <3>1. (\A x \in S : x >= e => x >= d) /\ d >= d /\ ~(d >= e)
      BY <1>3, <2>0
    <3> QED BY <3>1
  <2> HIDE DEF From, r, n
  <2>2. Cardinality(From(e)) <= Cardinality(From(d)) /\ Cardinality(From(e)) # Cardinality(From(d))
    BY <1>2, <2>1, FS_Subset
  <2> QED BY <1>1, <1>2, <2>2
<1>4. r \in Injection(S, 1..n)
  <2>1. r \in [S -> 1..n]
    BY <1>2
  <2>2. ASSUME NEW d \in S, NEW e \in S, r[d] = r[e] PROVE d = e
    <3> HIDE DEF From, r, n
    <3>1. d \in Nat /\ e \in Nat
      OBVIOUS
    <3>2. r[d] \in Nat
      BY <1>1, <1>2
    <3>3. ~(d < e) /\ ~(e < d)
      BY <1>3, <2>2, <3>1, <3>2
    <3> QED BY <3>1, <3>3
  <2> HIDE DEF r, n
  <2> QED BY <2>1, <2>2 DEF Injection, IsInjective
<1>5. r \in Surjection(S, 1..n)
  <2> HIDE DEF r
  <2> QED BY <1>1, <1>4, FS_Injection
<1> DEFINE s == [i \in 1..n |-> CHOOSE d \in S : r[d] = i]
<1>6. ASSUME NEW i \in 1..n PROVE s[i] \in S /\ r[s[i]] = i
  <2> HIDE DEF r, n
  <2> QED BY <1>5 DEF Surjection
<1>7. s \in SetToSeqs(S) /\ Len(s) = n
  <2>1. s \in [1..n -> S] /\ \A i, j \in 1..n : i # j => s[i] # s[j]
    <3> HIDE DEF r, n
    <3>1. s \in [1..n -> S]
      BY <1>6
    <3> HIDE DEF s
    <3> QED BY <3>1, <1>6
  <2>2. s \in Seq(S) /\ Len(s) = n
    <3> HIDE DEF n, s
    <3> QED BY <1>1, <2>1, LenProperties, IsASeq
  <2> QED BY <2>1, <2>2 DEF SetToSeqs
<1>8. ASSUME NEW i \in 1..n, NEW j \in 1..n, i < j PROVE s[i] > s[j]
  <2> HIDE DEF From, r, s, n
  <2>1. s[i] \in S /\ s[j] \in S /\ r[s[i]] = i /\ r[s[j]] = j
    BY <1>6
  <2>2. s[i] \in Nat /\ s[j] \in Nat
    BY <2>1
  <2>3. i \in Nat /\ j \in Nat
    BY <1>1
  <2>4. s[i] # s[j]
    BY <1>8, <2>1, <2>3
  <2>5. PICK d \in S, e \in S : d = s[i] /\ e = s[j] /\ r[d] = i /\ r[e] = j
    BY <2>1
  <2>6. ~(d < e)
    BY <1>3, <1>8, <2>3, <2>5
  <2> QED BY <2>2, <2>4, <2>5, <2>6
<1> HIDE DEF n, s
<1> QED BY <1>7, <1>8

----------------------------------------------------------------------------
\* Sums of a column

\* What the units of a column are.
LEMMA UnitsAre ==
  ASSUME NEW column, NEW days, NEW u
  PROVE  u \in Units(column, days) <=> \E d \in days : u \in {d} \X (1..column[d])
BY DEF Units

\* Finitely many dates have finitely many units.
LEMMA UnitsAreFinite ==
  ASSUME NEW column, NEW days, IsFiniteSet(days), \A d \in days : column[d] \in Nat
  PROVE  IsFiniteSet(Units(column, days)) /\ SumOf(column, days) \in Nat
<1> DEFINE Of(d) == {d} \X (1..column[d])
           all == {Of(d) : d \in days}
           f == [d \in days |-> Of(d)]
<1>1. f \in Surjection(days, all)
  BY DEF Surjection
<1>2. ASSUME NEW d \in days PROVE IsFiniteSet(Of(d))
  <2>1. IsFiniteSet({d})
    BY FS_Singleton
  <2>2. column[d] \in Int
    OBVIOUS
  <2>3. IsFiniteSet(1..column[d])
    BY <2>2, FS_Interval
  <2> QED BY <2>1, <2>3, FS_Product
<1> HIDE DEF Of
<1>3. \A T \in all : IsFiniteSet(T)
  BY <1>2
<1> HIDE DEF f, all
<1>4. IsFiniteSet(all)
  BY <1>1, FS_Surjection
<1>5. IsFiniteSet(UNION all)
  BY <1>3, <1>4, FS_UNION
<1>6. UNION all = Units(column, days)
  BY DEF all, Of, Units
<1> QED BY <1>5, <1>6, FS_CardinalityType DEF SumOf

\* A sum is nothing for no dates, and one date's value more than without it.
LEMMA SumSplits ==
  ASSUME NEW column, NEW days, IsFiniteSet(days), \A d \in days : column[d] \in Nat
  PROVE  /\ SumOf(column, {}) = 0
         /\ \A d \in days : SumOf(column, days) = column[d] + SumOf(column, days \ {d})
<1>1. SumOf(column, {}) = 0
  <2>1. Units(column, {}) = {}
    BY DEF Units
  <2> QED BY <2>1, FS_EmptySet DEF SumOf
<1>2. ASSUME NEW d \in days
      PROVE  SumOf(column, days) = column[d] + SumOf(column, days \ {d})
  <2> DEFINE A == {d} \X (1..column[d])
             rest == days \ {d}
             B == Units(column, rest)
  <2>1. Units(column, days) = A \cup B
    BY DEF Units
  <2>2. A \cap B = {}
    BY DEF Units
  <2>3. IsFiniteSet(A) /\ Cardinality(A) = column[d]
    <3>1. IsFiniteSet({d}) /\ Cardinality({d}) = 1
      BY FS_Singleton
    <3>2. column[d] \in Nat
      OBVIOUS
    <3>3. IsFiniteSet(1..column[d]) /\ Cardinality(1..column[d]) = column[d]
      <4> DEFINE k == column[d]
      <4>1. k \in Int /\ k >= 0
        BY <3>2
      <4> HIDE DEF k
      <4>2. IsFiniteSet(1..k) /\ Cardinality(1..k) = IF 1 > k THEN 0 ELSE k - 1 + 1
        BY <4>1, FS_Interval
      <4> QED BY <4>1, <4>2 DEF k
    <3>4. IsFiniteSet(A) /\ Cardinality(A) = 1 * column[d]
      BY <3>1, <3>3, FS_Product
    <3> HIDE DEF A
    <3> QED BY <3>2, <3>4
  <2>4. IsFiniteSet(B) /\ Cardinality(B) \in Nat
    <3>1. IsFiniteSet(rest) /\ \A e \in rest : column[e] \in Nat
      BY FS_RemoveElement
    <3> HIDE DEF rest
    <3> QED BY <3>1, UnitsAreFinite, FS_CardinalityType
  <2> HIDE DEF A, B
  <2>5. Cardinality(A \cup B) = Cardinality(A) + Cardinality(B)
    <3>1. Cardinality(A \cap B) = 0
      BY <2>2, FS_EmptySet
    <3>2. Cardinality(A \cup B) = Cardinality(A) + Cardinality(B) - Cardinality(A \cap B)
      BY <2>3, <2>4, FS_Union
    <3>3. Cardinality(A) \in Nat
      BY <2>3
    <3> QED BY <2>4, <3>1, <3>2, <3>3
  <2> QED BY <2>1, <2>3, <2>4, <2>5 DEF SumOf, B
<1> QED BY <1>1, <1>2

\* A sum depends on the column at its dates only.
LEMMA SumAgrees ==
  ASSUME NEW f, NEW g, NEW days, \A d \in days : f[d] = g[d]
  PROVE  SumOf(f, days) = SumOf(g, days)
<1>1. Units(f, days) = Units(g, days)
  BY DEF Units
<1> QED BY <1>1 DEF SumOf

\* Two columns that fit into a third at each date do so in sum.
LEMMA SumsFit ==
  ASSUME NEW f, NEW g, NEW h, NEW days, IsFiniteSet(days),
         \A d \in days : f[d] \in Nat /\ g[d] \in Nat /\ h[d] \in Nat /\ f[d] + g[d] <= h[d]
  PROVE  SumOf(f, days) + SumOf(g, days) <= SumOf(h, days)
<1> DEFINE F == Units(f, days)  G == Units(g, days)  H == Units(h, days)
           shift == [u \in G |-> <<u[1], f[u[1]] + u[2]>>]
           G2 == {shift[u] : u \in G}
<1>1. IsFiniteSet(F) /\ IsFiniteSet(G) /\ IsFiniteSet(H)
  BY UnitsAreFinite
<1>2. \A u \in G : u[1] \in days /\ u[2] \in 1..g[u[1]] /\ u = <<u[1], u[2]>>
  BY DEF Units
<1>3. shift \in Bijection(G, G2)
  <2>1. ASSUME NEW u \in G, NEW v \in G, shift[u] = shift[v] PROVE u = v
    <3>1. u[1] = v[1] /\ f[u[1]] + u[2] = f[v[1]] + v[2]
      BY <2>1
    <3>2. u[2] \in Int /\ v[2] \in Int /\ f[u[1]] \in Int
      BY <1>2
    <3>3. u[2] = v[2]
      BY <3>1, <3>2
    <3> QED BY <1>2, <3>1, <3>3
  <2>2. shift \in [G -> G2]
    OBVIOUS
  <2>3. \A t \in G2 : \E u \in G : shift[u] = t
    OBVIOUS
  <2> HIDE DEF G, G2, shift
  <2> QED BY <2>1, <2>2, <2>3 DEF Bijection, Injection, Surjection, IsInjective
<1>4. F \subseteq H
  <2> SUFFICES ASSUME NEW u \in F PROVE u \in H
    OBVIOUS
  <2>1. PICK d \in days : u \in {d} \X (1..f[d])
    BY UnitsAre
  <2>2. f[d] <= h[d] /\ f[d] \in Nat /\ h[d] \in Nat
    <3>1. f[d] \in Nat /\ g[d] \in Nat /\ h[d] \in Nat /\ f[d] + g[d] <= h[d]
      OBVIOUS
    <3> QED BY <3>1
  <2>3. 1..f[d] \subseteq 1..h[d]
    BY <2>2
  <2>4. u \in {d} \X (1..h[d])
    BY <2>1, <2>3
  <2> QED BY <2>4, UnitsAre
<1>5. ASSUME NEW u \in G PROVE shift[u] \in H /\ shift[u] \notin F
  <2> DEFINE d == u[1]  i == u[2]
  <2>1. d \in days /\ i \in 1..g[d] /\ shift[u] = <<d, f[d] + i>>
    BY <1>2
  <2>2. f[d] \in Nat /\ g[d] \in Nat /\ h[d] \in Nat /\ f[d] + g[d] <= h[d]
    BY <2>1
  <2> HIDE DEF d, i, shift
  <2>3. f[d] + i \in 1..h[d] /\ f[d] + i \notin 1..f[d]
    BY <2>1, <2>2
  <2>4. <<d, f[d] + i>> \in {d} \X (1..h[d])
    BY <2>3
  <2>5. <<d, f[d] + i>> \in H
    BY <2>1, <2>4, UnitsAre
  <2>6. ASSUME NEW e \in days, <<d, f[d] + i>> \in {e} \X (1..f[e]) PROVE FALSE
    BY <2>3, <2>6
  <2>7. <<d, f[d] + i>> \notin F
    BY <2>6, UnitsAre
  <2> QED BY <2>1, <2>5, <2>7
<1>6. G2 \subseteq H /\ F \cap G2 = {}
  BY <1>5
<1>7. IsFiniteSet(G2) /\ Cardinality(G2) = Cardinality(G)
  <2>1. ExistsBijection(G, G2)
    BY <1>3 DEF ExistsBijection
  <2> HIDE DEF G, G2
  <2> QED BY <1>1, <2>1, FS_Bijection
<1> HIDE DEF F, G, H, G2
<1>8. Cardinality(F) \in Nat /\ Cardinality(G) \in Nat /\ Cardinality(H) \in Nat
  BY <1>1, FS_CardinalityType
<1>9. Cardinality(F \cup G2) = Cardinality(F) + Cardinality(G)
  <2>1. Cardinality(F \cap G2) = 0
    BY <1>6, FS_EmptySet
  <2>2. Cardinality(F \cup G2) = Cardinality(F) + Cardinality(G2) - Cardinality(F \cap G2)
    BY <1>1, <1>7, FS_Union
  <2> QED BY <1>7, <1>8, <2>1, <2>2
<1>10. Cardinality(F \cup G2) <= Cardinality(H)
  <2>1. F \cup G2 \in SUBSET H
    BY <1>4, <1>6
  <2> QED BY <1>1, <2>1, FS_Subset
<1> QED BY <1>8, <1>9, <1>10 DEF SumOf, F, G, H

----------------------------------------------------------------------------
\* The ledger under the readers

\* The row of a completed run: its counts are natural, and what is matched and
\* what is exceptional are different rows.
LEMMA Tallies ==
  ASSUME NEW rows \in SUBSET Rows
  PROVE  /\ Tally(rows) \in RunRow
         /\ Tally(rows).status = "COMPLETED"
         /\ Tally(rows).total = Cardinality(rows)
         /\ Tally(rows).exceptions = Cardinality({x \in rows : x.status = "EXCEPTION"})
         /\ Tally(rows).matched + Tally(rows).exceptions <= Tally(rows).total
<1> DEFINE Of(s) == {x \in rows : x.status = s}
           M == Of("MATCHED")  E == Of("EXCEPTION")
<1>1. IsFiniteSet(rows)
  BY FS_Subset, ReportsAssumption DEF ReportsAssumption
<1>2. \A s : Of(s) \in SUBSET rows
  OBVIOUS
<1>3. M \cap E = {} /\ M \cup E \in SUBSET rows
  OBVIOUS
<1>4. \A s : Count(rows, s) = Cardinality(Of(s))
  BY DEF Count
<1> HIDE DEF Of
<1>5. Cardinality(rows) \in Nat /\ \A s : IsFiniteSet(Of(s)) /\ Cardinality(Of(s)) \in Nat
  BY <1>1, <1>2, FS_Subset, FS_CardinalityType
<1>6. Cardinality(M \cup E) = Cardinality(M) + Cardinality(E)
  <2>1. Cardinality(M \cap E) = 0
    BY <1>3, FS_EmptySet
  <2>2. Cardinality(M \cup E) = Cardinality(M) + Cardinality(E) - Cardinality(M \cap E)
    BY <1>5, FS_Union
  <2> QED BY <1>5, <2>1, <2>2
<1>7. Cardinality(M \cup E) <= Cardinality(rows)
  BY <1>1, <1>3, FS_Subset
<1>8. Tally(rows) \in RunRow
  BY <1>4, <1>5 DEF Tally, RunRow
<1> QED BY <1>4, <1>6, <1>7, <1>8 DEF Tally, Of

\* Rows are finitely many.
LEMMA RowsAreFinite ==
  ASSUME ReportsTypeOK, NEW d, NEW wanted
  PROVE  /\ IsFiniteSet(records) /\ IsFiniteSet(RecordsOf(d)) /\ IsFiniteSet(Wanted(d, wanted))
         /\ Cardinality(Wanted(d, wanted)) \in Nat
         /\ Cardinality(Wanted(d, wanted)) <= Cardinality(Rows) /\ Cardinality(Rows) \in Nat
<1>1. IsFiniteSet(Rows) /\ Cardinality(Rows) \in Nat
  BY FS_CardinalityType, ReportsAssumption DEF ReportsAssumption
<1>2. records \in SUBSET Rows /\ RecordsOf(d) \in SUBSET Rows /\ Wanted(d, wanted) \in SUBSET Rows
  BY DEF ReportsTypeOK, RecordsOf, Wanted
<1>3. /\ IsFiniteSet(records) /\ IsFiniteSet(RecordsOf(d)) /\ IsFiniteSet(Wanted(d, wanted))
      /\ Cardinality(Wanted(d, wanted)) <= Cardinality(Rows)
  BY <1>1, <1>2, FS_Subset
<1> QED BY <1>1, <1>3, FS_CardinalityType

\* The pipeline steps as the ledger may.
LEMMA PipelineIsLedger ==
  ASSUME NEW d \in Dates, Pipeline(d)
  PROVE  LedgerNext
<1>1. ASSUME NEW rows \in SUBSET {x \in Rows : x.date = d}, AddRows(d, rows)
      PROVE  AddRows(d, records' \ records)
  <2>1. records' \ records = rows
    BY <1>1 DEF AddRows
  <2> QED BY <1>1, <2>1
<1> QED BY <1>1 DEF Pipeline, LedgerNext

\* The pipeline moves the ledger on, keeps its completed counts true and its
\* rows typed.
LEMMA PipelineMovesOn ==
  ASSUME ReportsTypeOK, TalliesHold, NEW d \in Dates, Pipeline(d)
  PROVE  LedgerMovesOn /\ TalliesHold' /\ runs' \in [Dates -> RunRow] /\ records' \subseteq Rows
<1>1. RunRows
  BY DEF ReportsTypeOK, RunRow, RunRows
<1>2. LedgerMovesOn /\ TalliesHold'
  BY <1>1, PipelineIsLedger, LedgerKeeps
<1>3. runs \in [Dates -> RunRow] /\ records \subseteq Rows
  BY DEF ReportsTypeOK
<1>4. CASE Begin(d)
  BY <1>2, <1>3, <1>4 DEF Begin, RunRow
<1>5. CASE Fail(d)
  BY <1>2, <1>3, <1>5 DEF Fail, RunRow
<1>6. CASE Complete(d)
  <2>1. RecordsOf(d) \in SUBSET Rows
    BY <1>3 DEF RecordsOf
  <2>2. Tally(RecordsOf(d)) \in RunRow
    BY <2>1, Tallies
  <2>3. runs' = [runs EXCEPT ![d] = Tally(RecordsOf(d))] /\ records' = records
    BY <1>6 DEF Complete
  <2> QED BY <1>2, <1>3, <2>2, <2>3
<1>7. CASE \E rows \in SUBSET {x \in Rows : x.date = d} : AddRows(d, rows)
  BY <1>2, <1>3, <1>7 DEF AddRows
<1> QED BY <1>2, <1>4, <1>5, <1>6, <1>7 DEF Pipeline

----------------------------------------------------------------------------
\* What clients know lasts while the ledger moves on

\* The rows of a walk when the ledger moves on: more of them, or, if the run is
\* over, the same; as long as payments have one row each, no row that was there
\* changes its position.
LEMMA WantedMovesOn ==
  ASSUME ReportsTypeOK, records' \subseteq Rows, LedgerMovesOn, NEW d \in Dates, NEW wanted
  PROVE  /\ Wanted(d, wanted) \subseteq Wanted(d, wanted)'
         /\ Wanted(d, wanted)' \subseteq Rows
         /\ Cardinality(Wanted(d, wanted)) <= Cardinality(Wanted(d, wanted)')
         /\ Cardinality(Wanted(d, wanted)) \in Nat /\ Cardinality(Wanted(d, wanted)') \in Nat
         /\ Finished(d) => /\ Wanted(d, wanted)' = Wanted(d, wanted)
                           /\ Exceptions(d)' = Exceptions(d)
         /\ OneRowEach(d)' => /\ OneRowEach(d)
                              /\ \A x \in Wanted(d, wanted) :
                                   RowPosition(x, Wanted(d, wanted))'
                                     = RowPosition(x, Wanted(d, wanted))
<1> DEFINE W == Wanted(d, wanted)  W2 == Wanted(d, wanted)'
           A == RecordsOf(d)  A2 == RecordsOf(d)'
<1>1. A \subseteq A2 /\ A2 \subseteq Rows /\ A \subseteq Rows
  BY DEF LedgerMovesOn, RecordsOf, ReportsTypeOK
<1>2. W = {x \in A : x.status \in wanted} /\ W2 = {x \in A2 : x.status \in wanted}
  BY DEF Wanted
<1>3. W \subseteq W2 /\ W2 \subseteq Rows
  BY <1>1, <1>2
<1>4. Cardinality(W) <= Cardinality(W2) /\ Cardinality(W) \in Nat /\ Cardinality(W2) \in Nat
  <2> HIDE DEF W, W2
  <2>1. IsFiniteSet(Rows)
    BY ReportsAssumption DEF ReportsAssumption
  <2>2. IsFiniteSet(W2)
    BY <1>3, <2>1, FS_Subset
  <2>3. IsFiniteSet(W) /\ Cardinality(W) <= Cardinality(W2)
    BY <1>3, <2>2, FS_Subset
  <2> QED BY <2>2, <2>3, FS_CardinalityType
<1>5. Finished(d) => W2 = W /\ Exceptions(d)' = Exceptions(d)
  BY <1>2 DEF LedgerMovesOn, Exceptions
<1>6. ASSUME OneRowEach(d)' PROVE OneRowEach(d)
  BY <1>1, <1>6 DEF OneRowEach
<1>7. ASSUME OneRowEach(d)', NEW x \in W PROVE RowPosition(x, W)' = RowPosition(x, W)
  <2>1. ASSUME NEW y \in W2, y.reference <= x.reference PROVE y \in W
    <3>1. CASE y \in A
      BY <1>2, <3>1
    <3>2. CASE y \notin A
      <4>1. x \in A /\ x \in A2 /\ y \in A2
        BY <1>1, <1>2
      <4>2. x.reference <= y.reference
        BY <3>2, <4>1 DEF LedgerMovesOn
      <4>3. x.reference \in Nat /\ y.reference \in Nat
        BY <1>1, <4>1, ReportsAssumption DEF ReportsAssumption
      <4>4. x.reference = y.reference
        BY <2>1, <4>2, <4>3
      <4>5. x = y
        BY <1>7, <4>1, <4>4 DEF OneRowEach
      <4> QED BY <4>5
    <3> QED BY <3>1, <3>2
  <2> HIDE DEF W, W2
  <2>2. {y \in W2 : y.reference <= x.reference} = {y \in W : y.reference <= x.reference}
    BY <1>3, <2>1
  <2> QED BY <2>2 DEF RowPosition, W, W2
<1> QED BY <1>3, <1>4, <1>5, <1>6, <1>7

\* The runs that have begun are finitely many, and so are those from a date on.
LEMMA RunsAreFinite ==
  ASSUME NEW d
  PROVE  /\ IsFiniteSet(Begun) /\ Cardinality(Begun) \in Nat
         /\ Cardinality(Begun) <= Cardinality(Dates) /\ Cardinality(Dates) \in Nat
         /\ RunPosition(d) \in Nat /\ RunPosition(d)' \in Nat
<1>1. IsFiniteSet(Dates) /\ Cardinality(Dates) \in Nat
  BY FS_CardinalityType, ReportsAssumption DEF ReportsAssumption
<1>2. Begun \in SUBSET Dates /\ {e \in Begun : e >= d} \in SUBSET Dates
      /\ {e \in Begun' : e >= d} \in SUBSET Dates
  BY DEF Begun
<1>3. IsFiniteSet(Begun) /\ Cardinality(Begun) <= Cardinality(Dates)
  BY <1>1, <1>2, FS_Subset
<1>4. IsFiniteSet({e \in Begun : e >= d}) /\ IsFiniteSet({e \in Begun' : e >= d})
  BY <1>1, <1>2, FS_Subset
<1>5. RunPosition(d) \in Nat /\ RunPosition(d)' \in Nat
  BY <1>4, FS_CardinalityType DEF RunPosition
<1> QED BY <1>1, <1>3, <1>5, FS_CardinalityType

\* A run that begins pushes others back in the list, so none that was ahead of
\* a client is passed over.
LEMMA ListLasts ==
  ASSUME LedgerMovesOn, NEW me \in Listing, ListFits(me)
  PROVE  ListFits(me)'
<1>1. Begun \subseteq Begun' /\ me.offset \in Nat
  BY DEF LedgerMovesOn, Listing
<1>2. ASSUME NEW d PROVE RunPosition(d) <= RunPosition(d)'
  <2> DEFINE P == {e \in Begun : e >= d}  P2 == {e \in Begun' : e >= d}
  <2>1. P \in SUBSET P2 /\ P2 \in SUBSET Dates
    BY <1>1 DEF Begun
  <2> HIDE DEF P, P2
  <2>2. IsFiniteSet(P2)
    BY <2>1, FS_Subset, ReportsAssumption DEF ReportsAssumption
  <2> QED BY <2>1, <2>2, FS_Subset DEF RunPosition, P, P2
<1>3. ASSUME NEW d \in me.known, me.step = "list", RunPosition(d)' <= me.offset
      PROVE  d \in me.listed
  <2>1. RunPosition(d) <= me.offset
    BY <1>1, <1>2, <1>3, RunsAreFinite
  <2> QED BY <1>3, <2>1 DEF ListFits
<1> QED BY <1>1, <1>3 DEF ListFits

\* What a walk has seen keeps its place.
LEMMA WalkLasts ==
  ASSUME ReportsTypeOK, records' \subseteq Rows, LedgerMovesOn,
         NEW me \in Walking, Reads(me), WalkFits(me)
  PROVE  WalkFits(me)' /\ Reads(me)'
<1> DEFINE W == Wanted(me.date, me.wanted)
<1>1. /\ me.date \in Dates /\ me.rows \in Seq(Rows) /\ Len(me.rows) \in Nat
      /\ me.step \in {"items", "count", "walked"} /\ me.page \in Nat
  BY LenProperties DEF Walking
<1>2. /\ W \subseteq W' /\ Cardinality(W) <= Cardinality(W')
      /\ Cardinality(W) \in Nat /\ Cardinality(W') \in Nat
      /\ Finished(me.date) => W' = W /\ Exceptions(me.date)' = Exceptions(me.date)
      /\ OneRowEach(me.date)' =>
           /\ OneRowEach(me.date)
           /\ \A x \in W : RowPosition(x, W)' = RowPosition(x, W)
  BY <1>1, WantedMovesOn
<1>3. RunWasFinished(me) => /\ Finished(me.date) /\ Finished(me.date)' /\ W' = W
                            /\ Exceptions(me.date)' = Exceptions(me.date)
                            /\ RecordsOf(me.date)' = RecordsOf(me.date)
  BY <1>1, <1>2 DEF WalkFits, LedgerMovesOn
<1>4. Range(me.rows) \subseteq W /\ Len(me.rows) <= Cardinality(W)
  BY DEF WalkFits
<1>5. Reads(me)'
  <2>1. runs'[me.date] # NoRun
    BY <1>1 DEF Reads, LedgerMovesOn, Begun
  <2>2. Range(me.rows) \subseteq records' /\ Len(me.rows) <= Cardinality(Rows)
    BY <1>1 DEF Reads, LedgerMovesOn
  <2>3. me.page = 1 \/ (me.page - 1) * RecordsPerPage < Cardinality(W')
    <3>1. me.page = 1 \/ (me.page - 1) * RecordsPerPage < Cardinality(W)
      BY <1>1 DEF Reads
    <3>2. (me.page - 1) * RecordsPerPage \in Int
      BY <1>1, PageSizes
    <3> HIDE DEF W
    <3> QED BY <1>2, <3>1, <3>2
  <2>4. me.step # "audit"
    BY <1>1
  <2> QED BY <2>1, <2>2, <2>3, <2>4 DEF Reads
<1>6. OneRowEach(me.date)' =>
        /\ \A i \in 1..Len(me.rows) : RowPosition(me.rows[i], W)' <= Passed(me)
        /\ \A i, j \in 1..Len(me.rows) : me.rows[i] = me.rows[j] => i = j
        /\ RunWasFinished(me) =>
             \A x \in W' : RowPosition(x, W)' <= Passed(me) => x \in Range(me.rows)
  <2> SUFFICES ASSUME OneRowEach(me.date)'
               PROVE  /\ \A i \in 1..Len(me.rows) : RowPosition(me.rows[i], W)' <= Passed(me)
                      /\ \A i, j \in 1..Len(me.rows) : me.rows[i] = me.rows[j] => i = j
                      /\ RunWasFinished(me) =>
                           \A x \in W' : RowPosition(x, W)' <= Passed(me) => x \in Range(me.rows)
    OBVIOUS
  <2>1. \A i \in 1..Len(me.rows) : me.rows[i] \in W
    BY <1>1, <1>4, LenProperties DEF Range
  <2>2. /\ \A i \in 1..Len(me.rows) : RowPosition(me.rows[i], W) <= Passed(me)
        /\ \A i, j \in 1..Len(me.rows) : me.rows[i] = me.rows[j] => i = j
        /\ RunWasFinished(me) =>
             \A x \in W : RowPosition(x, W) <= Passed(me) => x \in Range(me.rows)
    BY <1>2 DEF WalkFits
  <2> HIDE DEF W
  <2> QED BY <1>2, <1>3, <2>1, <2>2
<1>7. me.wanted \in {ReconciliationStatus, {"EXCEPTION"}} /\ Range(me.rows) \subseteq W'
      /\ Len(me.rows) <= Passed(me)
  BY <1>2 DEF WalkFits
<1>8. Len(me.rows) <= Cardinality(W')
  <2> HIDE DEF W
  <2> QED BY <1>1, <1>2, <1>4
<1>9. me.run.status = "COMPLETED" => /\ me.run.total = Cardinality(RecordsOf(me.date)')
                                     /\ me.run.exceptions = Cardinality(Exceptions(me.date)')
  BY <1>3 DEF WalkFits, RunWasFinished
<1>10. me.step = "walked" /\ RunWasFinished(me) => Cardinality(W') <= Passed(me)
  BY <1>3 DEF WalkFits
<1>11. RunWasFinished(me) => Finished(me.date)'
  BY <1>3
<1> QED BY <1>5, <1>6, <1>7, <1>8, <1>9, <1>10, <1>11 DEF WalkFits, Passed, RunWasFinished

\* Dates that were summed up are finished: they neither gain exceptions nor are
\* counted anew.
LEMMA AuditLasts ==
  ASSUME LedgerMovesOn, NEW me \in Auditing, Reads(me), AuditFits(me)
  PROVE  AuditFits(me)' /\ Reads(me)'
<1>1. me.step = "audit" /\ me.left \subseteq Dates
  BY DEF Auditing
<1>2. Reads(me)'
  BY <1>1 DEF Reads
<1>3. ASSUME NEW d \in me.left
      PROVE  /\ Finished(d)' /\ runs'[d].exceptions = runs[d].exceptions
             /\ runs'[d].exceptions = Cardinality(Exceptions(d)')
  <2>1. Finished(d) /\ runs[d].exceptions = Cardinality(Exceptions(d)) /\ d \in Dates
    BY <1>1 DEF AuditFits
  <2>2. /\ Finished(d)' /\ RecordsOf(d)' = RecordsOf(d)
        /\ runs'[d].exceptions = runs[d].exceptions
    BY <2>1 DEF LedgerMovesOn
  <2> QED BY <2>1, <2>2 DEF Exceptions
<1> DEFINE f == [d \in Dates |-> runs[d].exceptions]
           g == [d \in Dates |-> runs'[d].exceptions]
<1>4. \A d \in me.left : g[d] = f[d]
  BY <1>1, <1>3
<1>5. SumOf(g, me.left) = SumOf(f, me.left)
  <2> HIDE DEF f, g
  <2> QED BY <1>4, SumAgrees
<1>6. me.exceptions = me.found + SumOf(g, me.left)
  BY <1>5 DEF AuditFits
<1> QED BY <1>2, <1>3, <1>6 DEF AuditFits
\* Whatever a client is doing, the pipeline takes nothing of what it knows.
LEMMA KnownLasts ==
  ASSUME ReportsTypeOK, records' \subseteq Rows, LedgerMovesOn,
         NEW me \in Reader, Reads(me), Fits(me)
  PROVE  Reads(me)' /\ Fits(me)'
<1>1. CASE me = Idle
  BY <1>1 DEF Idle, Reads, Fits
<1>2. CASE me \in Listing
  <2>1. me.step \in {"list", "listed"}
    BY <1>2 DEF Listing
  <2>2. ListFits(me)'
    BY <1>2, <2>1, ListLasts DEF Fits
  <2> QED BY <2>1, <2>2 DEF Reads, Fits
<1>3. CASE me \in Walking
  <2>1. me.step \in {"items", "count", "walked"}
    BY <1>3 DEF Walking
  <2>2. WalkFits(me)' /\ Reads(me)'
    BY <1>3, <2>1, WalkLasts DEF Fits
  <2> QED BY <2>1, <2>2 DEF Fits
<1>4. CASE me \in Auditing
  <2>1. me.step = "audit"
    BY <1>4 DEF Auditing
  <2>2. AuditFits(me)' /\ Reads(me)'
    BY <1>4, <2>1, AuditLasts DEF Fits
  <2> QED BY <2>1, <2>2 DEF Fits
<1> QED BY <1>1, <1>2, <1>3, <1>4 DEF Reader

\* A step of one client keeps the invariant if what it then knows fits.
LEMMA OneReaderSteps ==
  ASSUME ReportsTypeOK, ReportsIInv, UNCHANGED ledgerVars, NEW c \in Clients,
         \E new \in Reader : Reads(new) /\ Fits(new) /\ reader' = [reader EXCEPT ![c] = new]
  PROVE  ReportsTypeOK' /\ ReportsIInv'
<1>1. PICK new \in Reader : Reads(new) /\ Fits(new) /\ reader' = [reader EXCEPT ![c] = new]
  OBVIOUS
<1>2. LedgerMovesOn /\ records' \subseteq Rows /\ runs' \in [Dates -> RunRow]
  BY LedgerStays DEF ledgerVars, ReportsTypeOK
<1>3. reader' \in [Clients -> Reader]
  BY <1>1 DEF ReportsTypeOK
<1>4. ASSUME NEW k \in Clients PROVE Reads(reader[k])' /\ Fits(reader[k])'
  <2>1. PICK me \in Reader : me = reader'[k] /\ Reads(me) /\ Fits(me)
    BY <1>1 DEF ReportsTypeOK, ReportsIInv
  <2>2. Reads(me)' /\ Fits(me)'
    BY <1>2, <2>1, KnownLasts
  <2> QED BY <2>1, <2>2
<1>5. TalliesHold'
  BY DEF ReportsIInv, TalliesHold, ledgerVars, RecordsOf
<1> QED BY <1>2, <1>3, <1>4, <1>5 DEF ReportsTypeOK, ReportsIInv
----------------------------------------------------------------------------
\* The list of runs

\* The list of runs holds each at its position.
LEMMA RunsAreInOrder ==
  /\ RunsByDate \in Seq(Dates) /\ Len(RunsByDate) = Cardinality(Begun)
  /\ \A d \in Begun : /\ RunPosition(d) \in 1..Len(RunsByDate)
                       /\ RunsByDate[RunPosition(d)] = d
<1> DEFINE S == Begun
           s == RunsByDate
           n == Cardinality(S)
           R == {p \in Nat \X Nat : p[1] >= p[2]}
<1>1. S \in SUBSET Nat /\ S \subseteq Dates /\ IsFiniteSet(S)
  BY RunsAreFinite, ReportsAssumption DEF ReportsAssumption, Begun
<1>2. s \in SetToSeqs(S) /\ \A i, j \in 1..Len(s) : i < j => s[i] > s[j]
  <2> HIDE DEF S
  <2>1. \E u \in SetToSeqs(S) : \A i, j \in 1..Len(u) : i < j => u[i] > u[j]
    BY <1>1, ListingExists
  <2> QED BY <2>1 DEF RunsByDate, S
<1> HIDE DEF S, s
<1>3. n \in Nat /\ s \in [1..n -> S]
  BY <1>1, <1>2, FS_CardinalityType DEF SetToSeqs
<1>4. s \in Seq(S) /\ Len(s) = n
  <2> HIDE DEF n
  <2> QED BY <1>3, LenProperties, IsASeq
<1>5. \A x, y \in S : <<x, y>> \in R <=> x >= y
  BY <1>1
<1>6. \A i, j \in 1..n : i <= j => <<s[i], s[j]>> \in R
  <2> SUFFICES ASSUME NEW i \in 1..n, NEW j \in 1..n, i <= j PROVE s[i] >= s[j]
    BY <1>3, <1>5
  <2>0. i \in Int /\ j \in Int /\ s[i] \in S /\ s[j] \in S
    BY <1>3
  <2>1. s[i] \in Nat /\ s[j] \in Nat /\ i \in Int /\ j \in Int
    BY <1>1, <2>0
  <2>2. CASE i = j
    BY <2>1, <2>2
  <2>3. CASE i # j
    <3>1. i < j /\ i \in 1..Len(s) /\ j \in 1..Len(s)
      BY <1>4, <2>1, <2>3
    <3>2. s[i] > s[j]
      BY <1>2, <3>1
    <3> QED BY <2>1, <3>2
  <2> QED BY <2>2, <2>3
<1>7. \A x, y \in S : <<x, y>> \in R /\ <<y, x>> \in R => x = y
  BY <1>1
<1> HIDE DEF R
<1>8. IsFiniteSet(S)
  BY <1>1
<1>9. s \in SetToSeqs(S)
  BY <1>2
<1>10. /\ \A i \in 1..n : Cardinality({y \in S : <<y, s[i]>> \in R}) = i
      /\ \A x \in S : \E i \in 1..n : s[i] = x
  <2>1. /\ s \in Seq(S) /\ Len(s) = n
        /\ \A i \in 1..n : Cardinality({y \in S : <<y, s[i]>> \in R}) = i
        /\ \A x \in S : \E i \in 1..n : s[i] = x
    BY <1>6, <1>7, <1>8, <1>9, PlaceIsPosition, Zenon
  <2> QED BY <2>1
<1> HIDE DEF n
<1>11. ASSUME NEW d \in S PROVE RunPosition(d) \in 1..n /\ s[RunPosition(d)] = d
  <2>1. PICK i \in 1..n : s[i] = d
    BY <1>10
  <2>2. {y \in S : <<y, d>> \in R} = {e \in S : e >= d}
    BY <1>5
  <2>3. RunPosition(d) = i
    BY <1>10, <2>1, <2>2 DEF RunPosition, S
  <2> QED BY <2>1, <2>3
<1>12. s \in Seq(Dates)
  BY <1>1, <1>4, SeqMonotonic
<1> QED BY <1>4, <1>11, <1>12 DEF s, S, n

\* A client that starts has nothing, and no run is at position 0.
LEMMA StartListKeeps ==
  ASSUME ReportsTypeOK, ReportsIInv, NEW c \in Clients, StartList(c)
  PROVE  ReportsTypeOK' /\ ReportsIInv'
<1> DEFINE new == [step |-> "list", offset |-> 0, listed |-> {}, known |-> Begun]
<1>1. Cardinality(Dates) \in Nat /\ Begun \subseteq Dates
  BY RunsAreFinite DEF Begun
<1>2. new \in Reader
  BY <1>1 DEF Reader, Listing
<1>3. \A d \in Begun : ~(RunPosition(d) <= 0)
  BY <1>1, RunsAreInOrder, RunsAreFinite
<1>4. Reads(new) /\ Fits(new)
  BY <1>3 DEF Reads, Fits, ListFits
<1>5. reader' = [reader EXCEPT ![c] = new] /\ UNCHANGED ledgerVars
  BY DEF StartList
<1> HIDE DEF new
<1> QED BY <1>2, <1>4, <1>5, OneReaderSteps

\* A client that gets runs has all known ones up to the last position it got;
\* one that gets nothing is past the last.
LEMMA NextListKeeps ==
  ASSUME ReportsTypeOK, ReportsIInv, NEW c \in Clients, NextList(c)
  PROVE  ReportsTypeOK' /\ ReportsIInv'
<1> DEFINE me == reader[c]
           all == RunsByDate
           limit == Min({Limit, MaxLimit})
           list == LimitOffset(all, limit, me.offset)
<1>1. /\ me \in Reader /\ me.step = "list"
      /\ reader' = IF list = <<>> THEN [reader EXCEPT ![c].step = "listed"]
                   ELSE [reader EXCEPT ![c].offset = @ + Len(list),
                                       ![c].listed = @ \cup Range(list)]
      /\ UNCHANGED ledgerVars
  BY DEF NextList, ListRuns, ReportsTypeOK
<1>2. me \in Listing
  BY <1>1 DEF Reader, Idle, Walking, Auditing
<1>3. ListFits(me)
  BY <1>1 DEF ReportsIInv, Fits
<1>4. /\ all \in Seq(Dates) /\ Len(all) \in Nat /\ Len(all) <= Cardinality(Dates)
      /\ Cardinality(Dates) \in Nat
      /\ \A d \in Begun : RunPosition(d) \in 1..Len(all) /\ all[RunPosition(d)] = d
  BY RunsAreInOrder, RunsAreFinite
<1>5. limit \in Nat \ {0} /\ me.offset \in Nat /\ me.offset <= Cardinality(Dates)
  BY <1>2, <1>4, PageSizes DEF Listing
<1> HIDE DEF limit, all
<1>6. /\ list \in Seq(Dates)
      /\ Len(list) = IF me.offset >= Len(all) THEN 0
                     ELSE IF me.offset + limit <= Len(all) THEN limit ELSE Len(all) - me.offset
      /\ \A i \in 1..Len(list) : list[i] = all[me.offset + i]
  BY <1>4, <1>5, PageOfRows
<1> HIDE DEF list
<1>7. Len(list) \in Nat /\ Range(list) \subseteq Dates
      /\ \A i \in 1..Len(list) : list[i] \in Range(list)
  BY <1>6, LenProperties DEF Range
<1>8. CASE list = <<>>
  <2> DEFINE new == [me EXCEPT !.step = "listed"]
  <2>1. new \in Listing /\ new.step = "listed" /\ new.known = me.known /\ new.listed = me.listed
    BY <1>2 DEF Listing
  <2>2. Len(list) = 0
    BY <1>8, EmptySeq
  <2>3. me.offset >= Len(all)
    <3> DEFINE total == Len(all)
               offset == me.offset
    <3>1. total \in Nat /\ offset \in Nat /\ limit \in Nat \ {0}
      BY <1>4, <1>5
    <3>2. 0 = IF offset >= total THEN 0
              ELSE IF offset + limit <= total THEN limit ELSE total - offset
      BY <1>6, <2>2
    <3> HIDE DEF total, offset
    <3>3. offset >= total
      BY <3>1, <3>2
    <3> QED BY <3>3 DEF total, offset
  <2>4. \A d \in Begun : RunPosition(d) <= me.offset
    BY <1>4, <1>5, <2>3
  <2>5. me.known \subseteq me.listed /\ me.known \subseteq Begun
    BY <1>1, <1>3, <2>4 DEF ListFits
  <2>6. reader' = [reader EXCEPT ![c] = new]
    BY <1>1, <1>8
  <2> HIDE DEF new, me
  <2>7. new \in Reader /\ Reads(new) /\ Fits(new)
    BY <2>1, <2>5 DEF Reader, Reads, Fits, ListFits
  <2> QED BY <1>1, <2>6, <2>7, OneReaderSteps
<1>9. CASE list # <<>>
  <2> DEFINE new == [me EXCEPT !.offset = @ + Len(list), !.listed = @ \cup Range(list)]
  <2>1. me.offset + Len(list) \in 0..Cardinality(Dates)
    BY <1>4, <1>5, <1>6, <1>7
  <2>2. /\ new \in Listing /\ new.step = "list" /\ new.known = me.known
        /\ new.offset = me.offset + Len(list) /\ new.listed = me.listed \cup Range(list)
    BY <1>1, <1>2, <1>7, <2>1 DEF Listing
  <2>3. ASSUME NEW d \in me.known, RunPosition(d) <= me.offset + Len(list)
        PROVE  d \in me.listed \cup Range(list)
    <3>1. d \in Begun
      BY <1>3 DEF ListFits
    <3>2. CASE RunPosition(d) <= me.offset
      BY <1>1, <1>3, <3>2 DEF ListFits
    <3>3. CASE ~(RunPosition(d) <= me.offset)
      <4> DEFINE i == RunPosition(d) - me.offset
      <4>1. RunPosition(d) \in Nat
        BY RunsAreFinite
      <4>2. i \in 1..Len(list) /\ me.offset + i = RunPosition(d)
        BY <1>5, <1>7, <2>3, <3>3, <4>1
      <4> HIDE DEF i
      <4>3. list[i] = d
        BY <1>4, <1>6, <3>1, <4>2
      <4> QED BY <1>7, <4>2, <4>3
    <3> QED BY <3>2, <3>3
  <2>4. me.known \subseteq Begun
    BY <1>3 DEF ListFits
  <2>5. reader' = [reader EXCEPT ![c] = new]
    BY <1>1, <1>9
  <2> HIDE DEF new, me
  <2>6. new \in Reader /\ Reads(new) /\ Fits(new)
    BY <2>2, <2>3, <2>4 DEF Reader, Reads, Fits, ListFits
  <2> QED BY <1>1, <2>5, <2>6, OneReaderSteps
<1> QED BY <1>8, <1>9
----------------------------------------------------------------------------
\* Walks through the records of a run

\* Rows have positions from 1 on.
LEMMA RowPositions ==
  ASSUME NEW W \in SUBSET Rows, NEW x \in W
  PROVE  RowPosition(x, W) \in Nat \ {0}
<1> DEFINE P == {y \in W : y.reference <= x.reference}
<1>1. IsFiniteSet(Rows) /\ x.reference \in Nat
  BY ReportsAssumption DEF ReportsAssumption
<1>2. P \in SUBSET Rows /\ x \in P
  BY <1>1
<1> HIDE DEF P
<1>3. IsFiniteSet(P)
  BY <1>1, <1>2, FS_Subset
<1>4. Cardinality(P) \in Nat /\ Cardinality(P) # 0
  BY <1>2, <1>3, FS_CardinalityType, FS_EmptySet
<1> QED BY <1>4 DEF RowPosition, P

\* An answer holds all rows; if payments have one row each, each at its position.
LEMMA RowsAreInOrder ==
  ASSUME NEW W \in SUBSET Rows, NEW s \in Sorted(W)
  PROVE  /\ s \in Seq(W) /\ Len(s) = Cardinality(W) /\ Len(s) \in Nat
         /\ (\A x, y \in W : x.reference = y.reference => x = y) =>
              /\ \A i \in 1..Len(s) : RowPosition(s[i], W) = i
              /\ \A x \in W : \E i \in 1..Len(s) : s[i] = x
<1> DEFINE n == Cardinality(W)
           R == {p \in W \X W : p[1].reference <= p[2].reference}
<1>1. IsFiniteSet(W) /\ \A x \in W : x.reference \in Nat
  BY FS_Subset, ReportsAssumption DEF ReportsAssumption
<1>2. s \in SetToSeqs(W) /\ \A i, j \in 1..Len(s) : i < j => s[i].reference <= s[j].reference
  BY DEF Sorted
<1>3. n \in Nat /\ s \in [1..n -> W]
  BY <1>1, <1>2, FS_CardinalityType DEF SetToSeqs
<1>4. s \in Seq(W) /\ Len(s) = n
  <2> HIDE DEF n
  <2> QED BY <1>3, LenProperties, IsASeq
<1>5. ASSUME \A x, y \in W : x.reference = y.reference => x = y
      PROVE  /\ \A i \in 1..n : RowPosition(s[i], W) = i
             /\ \A x \in W : \E i \in 1..n : s[i] = x
  <2>1. \A x, y \in W : <<x, y>> \in R <=> x.reference <= y.reference
    OBVIOUS
  <2>2. \A i, j \in 1..n : i <= j => <<s[i], s[j]>> \in R
    <3> SUFFICES ASSUME NEW i \in 1..n, NEW j \in 1..n, i <= j
                 PROVE  s[i].reference <= s[j].reference
      BY <1>3, <2>1
    <3>1. i \in Int /\ j \in Int /\ s[i] \in W /\ s[j] \in W
      BY <1>3
    <3>2. s[i].reference \in Nat /\ s[j].reference \in Nat
      BY <1>1, <3>1
    <3>3. CASE i = j
      BY <3>2, <3>3
    <3>4. CASE i # j
      <4>1. i < j /\ i \in 1..Len(s) /\ j \in 1..Len(s)
        BY <1>4, <3>1, <3>4
      <4> QED BY <1>2, <4>1
    <3> QED BY <3>3, <3>4
  <2>3. \A x, y \in W : <<x, y>> \in R /\ <<y, x>> \in R => x = y
    <3> SUFFICES ASSUME NEW x \in W, NEW y \in W, <<x, y>> \in R, <<y, x>> \in R
                 PROVE  x.reference = y.reference
      BY <1>5
    <3>1. x.reference <= y.reference /\ y.reference <= x.reference
      BY <2>1
    <3>2. x.reference \in Nat /\ y.reference \in Nat
      BY <1>1
    <3> QED BY <3>1, <3>2
  <2> HIDE DEF R
  <2>4. IsFiniteSet(W)
    BY <1>1
  <2>5. s \in SetToSeqs(W)
    BY <1>2
  <2>6. /\ \A i \in 1..n : Cardinality({y \in W : <<y, s[i]>> \in R}) = i
        /\ \A x \in W : \E i \in 1..n : s[i] = x
    <3>1. /\ s \in Seq(W) /\ Len(s) = n
          /\ \A i \in 1..n : Cardinality({y \in W : <<y, s[i]>> \in R}) = i
          /\ \A x \in W : \E i \in 1..n : s[i] = x
      BY <2>2, <2>3, <2>4, <2>5, PlaceIsPosition, Zenon
    <3> QED BY <3>1
  <2> HIDE DEF n
  <2>7. ASSUME NEW i \in 1..n PROVE RowPosition(s[i], W) = i
    <3>1. s[i] \in W
      BY <1>3
    <3>2. {y \in W : <<y, s[i]>> \in R} = {y \in W : y.reference <= s[i].reference}
      BY <2>1, <3>1
    <3> QED BY <2>6, <3>2 DEF RowPosition
  <2> QED BY <2>6, <2>7
<1> HIDE DEF n
<1>6. Len(s) = Cardinality(W)
  BY <1>4 DEF n
<1> QED BY <1>3, <1>4, <1>5, <1>6

\* A walk begins at position 0; a run that is COMPLETED has the counts of its rows.
LEMMA GetRunKeeps ==
  ASSUME ReportsTypeOK, ReportsIInv, NEW c \in Clients, NEW d \in Dates,
         NEW wanted \in {ReconciliationStatus, {"EXCEPTION"}}, GetRun(c, d, wanted)
  PROVE  ReportsTypeOK' /\ ReportsIInv'
<1> DEFINE new == [step |-> "items", date |-> d, run |-> runs[d],
                   wanted |-> wanted, page |-> 1, rows |-> <<>>]
           W == Wanted(d, wanted)
<1>1. runs[d] \in RunRow /\ runs[d] # NoRun
  BY DEF ReportsTypeOK, GetRun
<1>2. new \in Reader
  <2>1. wanted \subseteq ReconciliationStatus
    BY DEF ReconciliationStatus
  <2>2. <<>> \in Seq(Rows)
    OBVIOUS
  <2> QED BY <1>1, <2>1, <2>2 DEF Reader, Walking
<1>3. /\ W \in SUBSET Rows /\ Cardinality(W) \in Nat /\ Cardinality(Rows) \in Nat
      /\ RecordsOf(d) \in SUBSET Rows
  <2>1. W \subseteq Rows /\ RecordsOf(d) \subseteq Rows
    BY DEF ReportsTypeOK, Wanted, RecordsOf
  <2> QED BY <2>1, RowsAreFinite
<1>4. Len(<<>>) = 0 /\ Range(<<>>) = {}
  BY EmptySeq DEF Range
<1>5. Passed(new) = 0
  BY PageSizes DEF Passed
<1>6. runs[d].status = "COMPLETED" => /\ runs[d].total = Cardinality(RecordsOf(d))
                                      /\ runs[d].exceptions = Cardinality(Exceptions(d))
  BY <1>3, Tallies DEF ReportsIInv, TalliesHold, Exceptions
<1>7. OneRowEach(d) => \A x \in W : ~(RowPosition(x, W) <= Passed(new))
  <2> HIDE DEF W, new
  <2> QED BY <1>3, <1>5, RowPositions
<1>8. Reads(new)
  BY <1>1, <1>3, <1>4 DEF Reads
<1>9. WalkFits(new)
  BY <1>3, <1>4, <1>5, <1>6, <1>7 DEF WalkFits, RunWasFinished, Finished
<1>10. reader' = [reader EXCEPT ![c] = new] /\ UNCHANGED ledgerVars
  BY DEF GetRun
<1>11. Fits(new)
  BY <1>9 DEF Fits
<1> HIDE DEF new
<1> QED BY <1>2, <1>8, <1>10, <1>11, OneReaderSteps
\* A page appended to a walk: its rows are behind all the walk has, and the walk
\* then has every row up to the end of the page.
LEMMA PageIsAppended ==
  ASSUME NEW W \in SUBSET Rows, NEW s \in Sorted(W), NEW size \in Nat \ {0}, NEW past \in Nat,
         NEW rows \in Seq(Rows), Range(rows) \subseteq W,
         Len(rows) <= Cardinality(W), Len(rows) <= past
  PROVE  LET both == rows \o LimitOffset(s, size, past) IN
         /\ both \in Seq(Rows) /\ Range(both) \subseteq W
         /\ Len(both) <= Cardinality(W) /\ Len(both) <= past + size
         /\ /\ \A x, y \in W : x.reference = y.reference => x = y
            /\ \A i \in 1..Len(rows) : RowPosition(rows[i], W) <= past
            /\ \A i, j \in 1..Len(rows) : rows[i] = rows[j] => i = j
            => /\ \A i \in 1..Len(both) : RowPosition(both[i], W) <= past + size
               /\ \A i, j \in 1..Len(both) : both[i] = both[j] => i = j
               /\ (\A x \in W : RowPosition(x, W) <= past => x \in Range(rows)) =>
                  \A x \in W : RowPosition(x, W) <= past + size => x \in Range(both)
<1> DEFINE page == LimitOffset(s, size, past)
           both == rows \o page
           m == Len(rows)
           k == Len(page)
<1>1. /\ s \in Seq(W) /\ Len(s) = Cardinality(W) /\ Len(s) \in Nat
      /\ (\A x, y \in W : x.reference = y.reference => x = y) =>
           /\ \A i \in 1..Len(s) : RowPosition(s[i], W) = i
           /\ \A x \in W : \E i \in 1..Len(s) : s[i] = x
  BY RowsAreInOrder
<1>2. size \in Nat
  OBVIOUS
<1>3. /\ page \in Seq(W)
      /\ k = IF past >= Len(s) THEN 0
             ELSE IF past + size <= Len(s) THEN size ELSE Len(s) - past
      /\ \A i \in 1..k : page[i] = s[past + i]
  BY <1>1, <1>2, PageOfRows
<1>4. page \in Seq(Rows)
  BY <1>3, SeqMonotonic
<1> HIDE DEF page
<1>5. /\ both \in Seq(Rows) /\ Len(both) = m + k
      /\ \A i \in 1..(m + k) : both[i] = IF i <= m THEN rows[i] ELSE page[i - m]
  BY <1>4, ConcatProperties
<1>6. m \in Nat /\ k \in Nat /\ DOMAIN both = 1..(m + k) /\ DOMAIN rows = 1..m
  BY <1>4, <1>5, LenProperties
<1>7. Len(both) <= Cardinality(W) /\ Len(both) <= past + size
  <2> HIDE DEF m, k, both
  <2>1. m <= Len(s) /\ m <= past
    BY <1>1 DEF m
  <2> QED BY <1>1, <1>2, <1>3, <1>5, <1>6, <2>1
<1> HIDE DEF both, m, k
<1>8. ASSUME NEW i \in 1..(m + k)
      PROVE  \/ i \in 1..m /\ both[i] = rows[i] /\ rows[i] \in Range(rows)
             \/ /\ i - m \in 1..k /\ both[i] = s[past + (i - m)] /\ ~(i <= m)
                /\ past + (i - m) \in 1..Len(s)
  <2>1. CASE i <= m
    <3>1. i \in 1..m /\ both[i] = rows[i]
      BY <1>5, <1>6, <2>1
    <3> QED BY <1>6, <3>1 DEF Range
  <2>2. CASE ~(i <= m)
    <3>1. i - m \in 1..k
      BY <1>6, <2>2
    <3>2. past + (i - m) \in 1..Len(s)
      BY <1>1, <1>2, <1>3, <1>6, <3>1
    <3> QED BY <1>3, <1>5, <2>2, <3>1, <3>2
  <2> QED BY <2>1, <2>2
<1>9. \A i \in 1..Len(s) : s[i] \in W
  BY <1>1, LenProperties
<1>10. ASSUME NEW i \in 1..(m + k) PROVE both[i] \in W
  BY <1>8, <1>9
<1>11. Range(both) \subseteq W
  BY <1>6, <1>10 DEF Range
<1>12. ASSUME \A x, y \in W : x.reference = y.reference => x = y,
              \A i \in 1..m : RowPosition(rows[i], W) <= past,
              \A i, j \in 1..m : rows[i] = rows[j] => i = j
       PROVE  /\ \A i \in 1..(m + k) : RowPosition(both[i], W) <= past + size
              /\ \A i, j \in 1..(m + k) : both[i] = both[j] => i = j
              /\ (\A x \in W : RowPosition(x, W) <= past => x \in Range(rows)) =>
                 \A x \in W : RowPosition(x, W) <= past + size => x \in Range(both)
  <2>1. /\ \A i \in 1..Len(s) : RowPosition(s[i], W) = i
        /\ \A x \in W : \E i \in 1..Len(s) : s[i] = x
    BY <1>1, <1>12
  <2>2. ASSUME NEW i \in 1..(m + k)
        PROVE  \/ i \in 1..m /\ both[i] = rows[i] /\ RowPosition(both[i], W) <= past
               \/ ~(i <= m) /\ RowPosition(both[i], W) = past + (i - m) /\ i - m \in 1..k
    BY <1>8, <1>12, <2>1
  <2>3. \A x \in W : RowPosition(x, W) \in Nat
    BY RowPositions
  <2>4. ASSUME NEW i \in 1..(m + k) PROVE RowPosition(both[i], W) <= past + size
    <3>1. RowPosition(both[i], W) \in Nat
      BY <1>10, <2>3
    <3>2. k <= size
      BY <1>1, <1>2, <1>3
    <3> QED BY <1>2, <1>6, <2>2, <3>1, <3>2
  <2>5. ASSUME NEW i \in 1..(m + k), NEW j \in 1..(m + k), both[i] = both[j] PROVE i = j
    <3>1. CASE i \in 1..m /\ j \in 1..m
      <4>1. both[i] = rows[i] /\ both[j] = rows[j]
        BY <1>5, <1>6, <3>1
      <4> QED BY <1>12, <2>5, <3>1, <4>1
    <3>2. CASE ~(i <= m) /\ ~(j <= m)
      <4>1. past + (i - m) = past + (j - m)
        BY <1>6, <2>2, <2>5, <3>2
      <4> QED BY <1>6, <4>1
    <3>3. CASE i \in 1..m /\ ~(j <= m)
      <4>1. RowPosition(both[i], W) <= past /\ RowPosition(both[j], W) = past + (j - m)
            /\ j - m \in 1..k
        BY <1>6, <2>2, <3>3
      <4> QED BY <1>6, <2>5, <4>1
    <3>4. CASE ~(i <= m) /\ j \in 1..m
      <4>1. RowPosition(both[j], W) <= past /\ RowPosition(both[i], W) = past + (i - m)
            /\ i - m \in 1..k
        BY <1>6, <2>2, <3>4
      <4> QED BY <1>6, <2>5, <4>1
    <3> QED BY <1>6, <3>1, <3>2, <3>3, <3>4
  <2>6. ASSUME \A x \in W : RowPosition(x, W) <= past => x \in Range(rows),
               NEW x \in W, RowPosition(x, W) <= past + size
        PROVE  x \in Range(both)
    <3>1. PICK j \in 1..Len(s) : s[j] = x /\ RowPosition(x, W) = j
      BY <2>1
    <3>2. CASE j <= past
      <4>1. PICK i \in 1..m : rows[i] = x
        BY <1>6, <2>6, <3>1, <3>2 DEF Range
      <4>2. i \in 1..(m + k) /\ both[i] = x
        BY <1>5, <1>6, <4>1
      <4> QED BY <1>6, <4>2 DEF Range
    <3>3. CASE ~(j <= past)
      <4> DEFINE i == m + (j - past)
      <4>1. j - past \in 1..k
        BY <1>1, <1>2, <1>3, <2>6, <3>1, <3>3
      <4>2. i \in 1..(m + k) /\ ~(i <= m) /\ i - m = j - past
        BY <1>6, <3>1, <4>1
      <4>3. page[j - past] = s[past + (j - past)] /\ past + (j - past) = j
        BY <1>3, <3>1, <4>1
      <4> HIDE DEF i
      <4>4. both[i] = x
        BY <1>5, <3>1, <4>2, <4>3
      <4> QED BY <1>6, <4>2, <4>4 DEF Range
    <3> QED BY <3>1, <3>2, <3>3
  <2> QED BY <2>4, <2>5, <2>6
<1> QED BY <1>5, <1>7, <1>11, <1>12 DEF both, page, m
\* A page that comes moves the walk past its last position.
LEMMA PageItemsKeeps ==
  ASSUME ReportsTypeOK, ReportsIInv, NEW c \in Clients, PageItems(c)
  PROVE  ReportsTypeOK' /\ ReportsIInv'
<1> DEFINE me == reader[c]
           W == Wanted(me.date, me.wanted)
           past == (me.page - 1) * RecordsPerPage
<1>1. PICK s \in Sorted(W) :
        /\ me \in Reader /\ me.step = "items" /\ UNCHANGED ledgerVars
        /\ reader' = [reader EXCEPT ![c].rows = @ \o LimitOffset(s, RecordsPerPage, past),
                                    ![c].step = "count"]
  BY DEF PageItems, ReportsTypeOK
<1>2. me \in Walking /\ WalkFits(me) /\ Reads(me)
  BY <1>1 DEF Reader, Idle, Listing, Auditing, ReportsTypeOK, ReportsIInv, Fits
<1>3. W \in SUBSET Rows /\ Cardinality(W) \in Nat /\ Cardinality(Rows) \in Nat
      /\ Cardinality(W) <= Cardinality(Rows) /\ W \subseteq records
  <2>1. W \subseteq Rows /\ W \subseteq records
    BY DEF ReportsTypeOK, Wanted, RecordsOf
  <2> QED BY <2>1, RowsAreFinite
<1>4. /\ RecordsPerPage \in Nat \ {0} /\ me.page \in Nat \ {0} /\ me.rows \in Seq(Rows)
      /\ me.date \in Dates
  BY <1>2, PageSizes DEF Walking
<1>5. past \in Nat /\ me.page * RecordsPerPage = past + RecordsPerPage
  BY <1>4
<1> DEFINE both == me.rows \o LimitOffset(s, RecordsPerPage, past)
           new == [me EXCEPT !.rows = both, !.step = "count"]
<1>6. Passed(me) = past
  BY <1>1 DEF Passed
<1> HIDE DEF past
<1>7. /\ Range(me.rows) \subseteq W /\ Len(me.rows) <= Cardinality(W) /\ Len(me.rows) <= past
      /\ OneRowEach(me.date) =>
           /\ \A i \in 1..Len(me.rows) : RowPosition(me.rows[i], W) <= past
           /\ \A i, j \in 1..Len(me.rows) : me.rows[i] = me.rows[j] => i = j
           /\ RunWasFinished(me) => \A x \in W : RowPosition(x, W) <= past => x \in Range(me.rows)
  BY <1>2, <1>6 DEF WalkFits
<1>8. OneRowEach(me.date) => \A x, y \in W : x.reference = y.reference => x = y
  BY DEF OneRowEach, Wanted
<1> HIDE DEF W
<1>9. /\ both \in Seq(Rows) /\ Range(both) \subseteq W
      /\ Len(both) <= Cardinality(W) /\ Len(both) <= past + RecordsPerPage
      /\ OneRowEach(me.date) =>
           /\ \A i \in 1..Len(both) : RowPosition(both[i], W) <= past + RecordsPerPage
           /\ \A i, j \in 1..Len(both) : both[i] = both[j] => i = j
           /\ RunWasFinished(me) =>
                \A x \in W : RowPosition(x, W) <= past + RecordsPerPage => x \in Range(both)
  <2>1. W \in SUBSET Rows /\ RecordsPerPage \in Nat \ {0} /\ past \in Nat
        /\ me.rows \in Seq(Rows)
    BY <1>3, <1>4, <1>5
  <2>2. Range(me.rows) \subseteq W /\ Len(me.rows) <= Cardinality(W) /\ Len(me.rows) <= past
    BY <1>7
  <2> HIDE DEF me
  <2>3. /\ both \in Seq(Rows) /\ Range(both) \subseteq W
        /\ Len(both) <= Cardinality(W) /\ Len(both) <= past + RecordsPerPage
        /\ /\ \A x, y \in W : x.reference = y.reference => x = y
           /\ \A i \in 1..Len(me.rows) : RowPosition(me.rows[i], W) <= past
           /\ \A i, j \in 1..Len(me.rows) : me.rows[i] = me.rows[j] => i = j
           => /\ \A i \in 1..Len(both) : RowPosition(both[i], W) <= past + RecordsPerPage
              /\ \A i, j \in 1..Len(both) : both[i] = both[j] => i = j
              /\ (\A x \in W : RowPosition(x, W) <= past => x \in Range(me.rows)) =>
                 \A x \in W : RowPosition(x, W) <= past + RecordsPerPage => x \in Range(both)
    BY <2>1, <2>2, PageIsAppended, Zenon
  <2> HIDE DEF both
  <2> QED BY <1>7, <1>8, <2>3
<1>10. /\ new \in Walking /\ new.step = "count" /\ new.rows = both /\ new.page = me.page
       /\ new.date = me.date /\ new.wanted = me.wanted /\ new.run = me.run
  BY <1>2, <1>9 DEF Walking
<1>11. reader' = [reader EXCEPT ![c] = new]
  BY <1>1
<1> HIDE DEF new, both, me
<1>12. Passed(new) = past + RecordsPerPage
  BY <1>5, <1>10 DEF Passed
<1>13. Reads(new)
  <2>1. Len(both) \in Nat
    BY <1>9, LenProperties
  <2> QED BY <1>1, <1>2, <1>3, <1>9, <1>10, <2>1 DEF Reads, W
<1>14. WalkFits(new)
  <2>1. RunWasFinished(new) <=> RunWasFinished(me)
    BY <1>10 DEF RunWasFinished
  <2> QED BY <1>2, <1>9, <1>10, <1>12, <2>1 DEF WalkFits, W
<1>15. new \in Reader /\ Fits(new)
  BY <1>10, <1>14 DEF Fits, Reader
<1> QED BY <1>1, <1>11, <1>13, <1>15, OneReaderSteps

\* The total ends a walk only behind the last row, and sends it on only before.
LEMMA PageCountKeeps ==
  ASSUME ReportsTypeOK, ReportsIInv, NEW c \in Clients, PageCount(c)
  PROVE  ReportsTypeOK' /\ ReportsIInv'
<1> DEFINE me == reader[c]
           W == Wanted(me.date, me.wanted)
           past == me.page * RecordsPerPage
<1>1. /\ me \in Reader /\ me.step = "count" /\ UNCHANGED ledgerVars
      /\ reader' = IF past >= Cardinality(W) THEN [reader EXCEPT ![c].step = "walked"]
                   ELSE [reader EXCEPT ![c].page = @ + 1, ![c].step = "items"]
  BY DEF PageCount, ReportsTypeOK
<1>2. me \in Walking /\ WalkFits(me) /\ Reads(me)
  BY <1>1 DEF Reader, Idle, Listing, Auditing, ReportsTypeOK, ReportsIInv, Fits
<1>3. Cardinality(W) \in Nat
  BY RowsAreFinite
<1>4. RecordsPerPage \in Nat /\ me.page \in Nat \ {0} /\ past \in Nat
  BY <1>2, PageSizes DEF Walking
<1>5. Passed(me) = past
  BY <1>1 DEF Passed
<1>6. ASSUME NEW new, new \in Walking, new.step \in {"walked", "items"}, Passed(new) = past,
             new.rows = me.rows, new.date = me.date, new.wanted = me.wanted, new.run = me.run,
             new.step = "walked" => Cardinality(W) <= past,
             new.page = me.page \/ (new.page - 1) * RecordsPerPage < Cardinality(W),
             reader' = [reader EXCEPT ![c] = new]
      PROVE  ReportsTypeOK' /\ ReportsIInv'
  <2>1. Reads(new)
    BY <1>1, <1>2, <1>6 DEF Reads
  <2>2. RunWasFinished(new) <=> RunWasFinished(me)
    BY <1>6 DEF RunWasFinished
  <2>3. WalkFits(new)
    <3> HIDE DEF me, past
    <3> QED BY <1>2, <1>5, <1>6, <2>2 DEF WalkFits
  <2>4. new \in Reader /\ Fits(new)
    BY <1>6, <2>3 DEF Fits, Reader
  <2> QED BY <1>1, <1>6, <2>1, <2>4, OneReaderSteps
<1>7. CASE past >= Cardinality(W)
  <2> DEFINE new == [me EXCEPT !.step = "walked"]
  <2>1. /\ new \in Walking /\ new.step = "walked" /\ new.page = me.page
        /\ new.rows = me.rows /\ new.date = me.date /\ new.wanted = me.wanted
        /\ new.run = me.run
    BY <1>2 DEF Walking
  <2>2. reader' = [reader EXCEPT ![c] = new]
    BY <1>1, <1>7
  <2> HIDE DEF new
  <2>3. Passed(new) = past
    BY <2>1 DEF Passed
  <2>4. Cardinality(W) <= past
    BY <1>3, <1>4, <1>7
  <2> HIDE DEF past, W, me
  <2> QED BY <1>6, <2>1, <2>2, <2>3, <2>4
<1>8. CASE ~(past >= Cardinality(W))
  <2> DEFINE new == [me EXCEPT !.page = @ + 1, !.step = "items"]
  <2>1. /\ new \in Walking /\ new.step = "items" /\ new.page = me.page + 1
        /\ new.rows = me.rows /\ new.date = me.date /\ new.wanted = me.wanted
        /\ new.run = me.run
    <3>1. me \in Walking /\ me.page + 1 \in Nat \ {0}
      BY <1>2, <1>4
    <3> HIDE DEF me
    <3> QED BY <3>1 DEF Walking
  <2>2. reader' = [reader EXCEPT ![c] = new]
    BY <1>1, <1>8
  <2> HIDE DEF new
  <2>3. new.page - 1 = me.page
    BY <1>4, <2>1
  <2>4. Passed(new) = past /\ (new.page - 1) * RecordsPerPage = past
    BY <2>1, <2>3 DEF Passed
  <2>5. (new.page - 1) * RecordsPerPage < Cardinality(W)
    BY <1>3, <1>4, <1>8, <2>4
  <2> HIDE DEF past, W, me
  <2> QED BY <1>6, <2>1, <2>2, <2>4, <2>5
<1> QED BY <1>7, <1>8
----------------------------------------------------------------------------
\* Summaries and the exceptions reports of their dates

\* The runs summed up are COMPLETED, so their counts are those of their rows.
LEMMA SummaryKeeps ==
  ASSUME ReportsTypeOK, ReportsIInv, NEW c \in Clients, NEW from \in Dates, NEW to \in Dates,
         Summary(c, from, to)
  PROVE  ReportsTypeOK' /\ ReportsIInv'
<1> DEFINE days == InSummary(from, to)
           t == [d \in Dates |-> runs[d].total]
           m == [d \in Dates |-> runs[d].matched]
           e == [d \in Dates |-> runs[d].exceptions]
           new == [step |-> "audit", days |-> days, left |-> days, found |-> 0,
                   records |-> SumOf(t, days), matched |-> SumOf(m, days),
                   exceptions |-> SumOf(e, days)]
<1>1. reader' = [reader EXCEPT ![c] = new] /\ UNCHANGED ledgerVars
  BY DEF Summary
<1>2. days \in SUBSET Dates /\ \A d \in days : runs[d].status = "COMPLETED"
  BY DEF InSummary
<1> HIDE DEF days
<1>3. IsFiniteSet(days)
  BY <1>2, FS_Subset, ReportsAssumption DEF ReportsAssumption
<1>4. ASSUME NEW d \in days
      PROVE  /\ t[d] \in Nat /\ m[d] \in Nat /\ e[d] \in Nat /\ m[d] + e[d] <= t[d]
             /\ e[d] = runs[d].exceptions
             /\ Finished(d) /\ runs[d].exceptions = Cardinality(Exceptions(d))
  <2>1. d \in Dates /\ runs[d] \in RunRow /\ RecordsOf(d) \in SUBSET Rows
    BY <1>2 DEF ReportsTypeOK, RecordsOf
  <2>2. runs[d] = Tally(RecordsOf(d)) /\ Finished(d)
    BY <1>2, <2>1 DEF ReportsIInv, TalliesHold, Finished
  <2>3. /\ runs[d].matched + runs[d].exceptions <= runs[d].total
        /\ runs[d].exceptions = Cardinality(Exceptions(d))
    BY <2>1, <2>2, Tallies DEF Exceptions
  <2>4. runs[d].total \in Nat /\ runs[d].matched \in Nat /\ runs[d].exceptions \in Nat
    BY <2>1 DEF RunRow
  <2> QED BY <2>1, <2>2, <2>3, <2>4
<1> HIDE DEF t, m, e
<1>5. SumOf(t, days) \in Nat /\ SumOf(m, days) \in Nat /\ SumOf(e, days) \in Nat
  BY <1>3, <1>4, UnitsAreFinite
<1>6. SumOf(m, days) + SumOf(e, days) <= SumOf(t, days)
  BY <1>3, <1>4, SumsFit
<1>7. new \in Auditing
  BY <1>2, <1>5 DEF Auditing
<1>8. Reads(new)
  BY <1>6 DEF Reads
<1>9. AuditFits(new)
  <2>1. SumOf(e, days) = 0 + SumOf(e, days)
    BY <1>5
  <2> QED BY <1>4, <2>1 DEF AuditFits, e
<1>10. new \in Reader /\ Fits(new)
  BY <1>7, <1>9 DEF Fits, Reader
<1> HIDE DEF new
<1> QED BY <1>1, <1>8, <1>10, OneReaderSteps

\* What a date adds to what is found, it takes from what is left.
LEMMA ExceptionsReportKeeps ==
  ASSUME ReportsTypeOK, ReportsIInv, NEW c \in Clients, NEW d \in Dates, ExceptionsReport(c, d)
  PROVE  ReportsTypeOK' /\ ReportsIInv'
<1> DEFINE me == reader[c]
           e == [x \in Dates |-> runs[x].exceptions]
           new == [me EXCEPT !.left = @ \ {d}, !.found = @ + Cardinality(Exceptions(d))]
<1>1. me \in Reader /\ me.step = "audit" /\ d \in me.left /\ UNCHANGED ledgerVars
  BY DEF ExceptionsReport, ReportsTypeOK
<1>2. me \in Auditing /\ AuditFits(me) /\ Reads(me)
  BY <1>1 DEF Reader, Idle, Listing, Walking, ReportsTypeOK, ReportsIInv, Fits
<1>3. me.left \in SUBSET Dates /\ me.left \subseteq me.days /\ me.found \in Nat
      /\ me.exceptions \in Nat
  BY <1>1, <1>2 DEF Auditing, Reads
<1>4. \A x \in me.left : e[x] \in Nat /\ e[x] = Cardinality(Exceptions(x)) /\ Finished(x)
  BY <1>2, <1>3 DEF ReportsTypeOK, RunRow, AuditFits
<1>5. me.exceptions = me.found + SumOf(e, me.left)
  BY <1>2 DEF AuditFits
<1>6. reader' = [reader EXCEPT ![c] = new]
  BY DEF ExceptionsReport
<1> HIDE DEF me, e
<1> DEFINE left == me.left
           rest == left \ {d}
<1>7. IsFiniteSet(left) /\ IsFiniteSet(rest) /\ d \in left
  <2>1. IsFiniteSet(left)
    BY <1>3, FS_Subset, ReportsAssumption DEF ReportsAssumption
  <2> QED BY <1>1, <2>1, FS_RemoveElement
<1>8. \A x \in left : e[x] \in Nat
  BY <1>4
<1>9. SumOf(e, left) = e[d] + SumOf(e, rest)
  <2> HIDE DEF left
  <2> QED BY <1>7, <1>8, SumSplits
<1>10. SumOf(e, rest) \in Nat /\ e[d] \in Nat /\ e[d] = Cardinality(Exceptions(d))
  <2>1. \A x \in rest : e[x] \in Nat
    BY <1>8
  <2>2. SumOf(e, rest) \in Nat
    <3> HIDE DEF rest
    <3> QED BY <1>7, <2>1, UnitsAreFinite
  <2> QED BY <1>4, <1>7, <2>2
<1>11. /\ new \in Auditing /\ new.step = "audit" /\ new.left = rest
       /\ new.found = me.found + e[d] /\ new.days = me.days /\ new.records = me.records
       /\ new.matched = me.matched /\ new.exceptions = me.exceptions
  <2>1. me.found + e[d] \in Nat /\ rest \subseteq Dates
    BY <1>3, <1>10
  <2> HIDE DEF rest
  <2>2. new = [me EXCEPT !.left = rest, !.found = @ + e[d]]
    BY <1>10 DEF rest
  <2> HIDE DEF new
  <2> QED BY <1>1, <1>2, <2>1, <2>2 DEF Auditing
<1> HIDE DEF new
<1>12. Reads(new)
  BY <1>1, <1>2, <1>3, <1>11 DEF Reads
<1>13. AuditFits(new)
  <2>1. me.exceptions = me.found + e[d] + SumOf(e, rest)
    BY <1>3, <1>5, <1>9, <1>10
  <2>2. \A x \in rest : Finished(x) /\ runs[x].exceptions = Cardinality(Exceptions(x))
    BY <1>2 DEF AuditFits
  <2> HIDE DEF rest
  <2> QED BY <1>11, <2>1, <2>2 DEF AuditFits, e
<1>14. new \in Reader /\ Fits(new)
  BY <1>11, <1>13 DEF Fits, Reader
<1> QED BY <1>1, <1>6, <1>12, <1>14, OneReaderSteps

----------------------------------------------------------------------------
\* The invariant, and what follows from it

\* A client that leaves knows nothing.
LEMMA LeaveKeeps ==
  ASSUME ReportsTypeOK, ReportsIInv, NEW c \in Clients, Leave(c)
  PROVE  ReportsTypeOK' /\ ReportsIInv'
<1>1. Idle \in Reader /\ Reads(Idle) /\ Fits(Idle)
  BY DEF Reader, Idle, Reads, Fits
<1>2. reader' = [reader EXCEPT ![c] = Idle] /\ UNCHANGED ledgerVars
  BY DEF Leave
<1> QED BY <1>1, <1>2, OneReaderSteps

\* When no client moves, what each knows lasts.
LEMMA NoReaderSteps ==
  ASSUME ReportsTypeOK, ReportsIInv, UNCHANGED reader, LedgerMovesOn, TalliesHold',
         runs' \in [Dates -> RunRow], records' \subseteq Rows
  PROVE  ReportsTypeOK' /\ ReportsIInv'
<1>1. ASSUME NEW k \in Clients PROVE Reads(reader[k])' /\ Fits(reader[k])'
  <2>1. PICK me \in Reader : me = reader[k] /\ me = reader'[k] /\ Reads(me) /\ Fits(me)
    BY DEF ReportsTypeOK, ReportsIInv
  <2>2. Reads(me)' /\ Fits(me)'
    BY <2>1, KnownLasts
  <2> QED BY <2>1, <2>2
<1> QED BY <1>1 DEF ReportsTypeOK, ReportsIInv

\* A step of the pipeline.
LEMMA PipelineKeeps ==
  ASSUME ReportsTypeOK, ReportsIInv, NEW d \in Dates, Pipeline(d)
  PROVE  ReportsTypeOK' /\ ReportsIInv'
<1>1. LedgerMovesOn /\ TalliesHold' /\ runs' \in [Dates -> RunRow] /\ records' \subseteq Rows
  BY PipelineMovesOn DEF ReportsIInv
<1>2. UNCHANGED reader
  BY DEF Pipeline
<1> QED BY <1>1, <1>2, NoReaderSteps

\* ReportsTypeOK and the inductive invariant hold in every state: what clients
\* know is kept by their own steps, one lemma per action, and by the pipeline's.
THEOREM ReportsInvariant == Spec => [](ReportsTypeOK /\ ReportsIInv)
<1>1. Init => ReportsTypeOK /\ ReportsIInv
  <2> SUFFICES ASSUME Init PROVE ReportsTypeOK /\ ReportsIInv
    OBVIOUS
  <2>1. runs \in [Dates -> RunRow] /\ records \subseteq Rows /\ \A d \in Dates : runs[d] = NoRun
    BY DEF Init, LedgerInit, NoRun, RunRow
  <2>2. \A c \in Clients : reader[c] = Idle
    BY DEF Init
  <2>3. reader \in [Clients -> Reader]
    BY DEF Init, Reader
  <2>4. Reads(Idle) /\ Fits(Idle)
    BY DEF Idle, Reads, Fits
  <2>5. TalliesHold
    BY <2>1 DEF TalliesHold, NoRun
  <2> QED BY <2>1, <2>2, <2>3, <2>4, <2>5 DEF ReportsTypeOK, ReportsIInv
<1>2. ReportsTypeOK /\ ReportsIInv /\ [Next]_vars => (ReportsTypeOK /\ ReportsIInv)'
  <2> SUFFICES ASSUME ReportsTypeOK, ReportsIInv, [Next]_vars
               PROVE  ReportsTypeOK' /\ ReportsIInv'
    OBVIOUS
  <2>1. ASSUME NEW d \in Dates, Pipeline(d) PROVE ReportsTypeOK' /\ ReportsIInv'
    BY <2>1, PipelineKeeps
  <2>2. ASSUME NEW c \in Clients, StartList(c) PROVE ReportsTypeOK' /\ ReportsIInv'
    BY <2>2, StartListKeeps
  <2>3. ASSUME NEW c \in Clients, NextList(c) PROVE ReportsTypeOK' /\ ReportsIInv'
    BY <2>3, NextListKeeps
  <2>4. ASSUME NEW c \in Clients, NEW d \in Dates,
               NEW wanted \in {ReconciliationStatus, {"EXCEPTION"}}, GetRun(c, d, wanted)
        PROVE  ReportsTypeOK' /\ ReportsIInv'
    BY <2>4, GetRunKeeps
  <2>5. ASSUME NEW c \in Clients, PageItems(c) PROVE ReportsTypeOK' /\ ReportsIInv'
    BY <2>5, PageItemsKeeps
  <2>6. ASSUME NEW c \in Clients, PageCount(c) PROVE ReportsTypeOK' /\ ReportsIInv'
    BY <2>6, PageCountKeeps
  <2>7. ASSUME NEW c \in Clients, NEW from \in Dates, NEW to \in Dates, Summary(c, from, to)
        PROVE  ReportsTypeOK' /\ ReportsIInv'
    BY <2>7, SummaryKeeps
  <2>8. ASSUME NEW c \in Clients, NEW d \in Dates, ExceptionsReport(c, d)
        PROVE  ReportsTypeOK' /\ ReportsIInv'
    BY <2>8, ExceptionsReportKeeps
  <2>9. ASSUME NEW c \in Clients, Leave(c) PROVE ReportsTypeOK' /\ ReportsIInv'
    BY <2>9, LeaveKeeps
  <2>10. CASE UNCHANGED vars
    <3>1. UNCHANGED ledgerVars /\ UNCHANGED reader
      BY <2>10 DEF vars, ledgerVars
    <3>2. LedgerMovesOn /\ runs' \in [Dates -> RunRow] /\ records' \subseteq Rows
      BY <3>1, LedgerStays DEF ledgerVars, ReportsTypeOK
    <3>3. TalliesHold'
      BY <3>1 DEF ReportsIInv, TalliesHold, ledgerVars, RecordsOf
    <3> QED BY <3>1, <3>2, <3>3, NoReaderSteps
  <2> QED BY <2>1, <2>2, <2>3, <2>4, <2>5, <2>6, <2>7, <2>8, <2>9, <2>10 DEF Next
<1> QED BY <1>1, <1>2, PTL DEF Spec

\* ReportsTypeOK: no client ever asks behind the last row or gets more rows than
\* there are, and no summary counts more matched rows than rows.
THEOREM ReportsTypes == Spec => []ReportsTypeOK
BY ReportsInvariant, PTL

\* ListMissesNoRun: a client that has paged through the runs has all those that
\* existed when it started.
THEOREM ListingsMissNoRun == Spec => []ListMissesNoRun
<1>1. ReportsTypeOK /\ ReportsIInv => ListMissesNoRun
  BY DEF ReportsIInv, Fits, ListFits, ListMissesNoRun
<1> QED BY <1>1, ReportsInvariant, PTL

\* AuditAgrees: once the exceptions of all summarized dates are fetched, they are
\* as many as the summary said.
THEOREM AuditsAgree == Spec => []AuditAgrees
<1>1. ASSUME ReportsTypeOK, ReportsIInv, NEW c \in Clients,
             reader[c].step = "audit", reader[c].left = {}
      PROVE  reader[c].found = reader[c].exceptions
  <2> DEFINE me == reader[c]
             e == [d \in Dates |-> runs[d].exceptions]
  <2>1. me \in Auditing /\ AuditFits(me)
    BY <1>1 DEF Reader, Idle, Listing, Walking, ReportsTypeOK, ReportsIInv, Fits
  <2>2. me.exceptions = me.found + SumOf(e, {})
    BY <1>1, <2>1 DEF AuditFits
  <2> HIDE DEF e
  <2>3. SumOf(e, {}) = 0
    BY SumSplits, FS_EmptySet
  <2>4. me.found \in Nat
    BY <2>1 DEF Auditing
  <2> QED BY <2>2, <2>3, <2>4
<1>2. ReportsTypeOK /\ ReportsIInv => AuditAgrees
  BY <1>1 DEF AuditAgrees
<1> QED BY <1>2, ReportsInvariant, PTL

\* A sequence that repeats nothing is as long as its range is large.
LEMMA NoRepetition ==
  ASSUME NEW S, NEW s \in Seq(S), \A i, j \in 1..Len(s) : s[i] = s[j] => i = j
  PROVE  Len(s) = Cardinality(Range(s))
<1>1. Len(s) \in Nat /\ DOMAIN s = 1..Len(s) /\ s \in [1..Len(s) -> S]
  BY LenProperties
<1>2. s \in Bijection(1..Len(s), Range(s))
  BY <1>1 DEF Bijection, Injection, Surjection, IsInjective, Range
<1>3. ExistsBijection(1..Len(s), Range(s))
  BY <1>2 DEF ExistsBijection
<1> QED BY <1>1, <1>3, FS_CountingElements

\* WalkIsExact: a walk through the records of a run never has a row twice; if the
\* run was over when the client looked at it, the walk ends with all rows, as many
\* as the run has counted.
THEOREM WalksAreExact == Spec => []WalkIsExact
<1>1. ASSUME ReportsTypeOK, ReportsIInv, NEW c \in Clients,
             reader[c].step \in {"items", "count", "walked"}, OneRowEach(reader[c].date)
      PROVE  LET me == reader[c] IN
             /\ \A i, j \in 1..Len(me.rows) : me.rows[i] = me.rows[j] => i = j
             /\ me.step = "walked" /\ me.run.status \in {"COMPLETED", "FAILED"} =>
                  Range(me.rows) = Wanted(me.date, me.wanted)
             /\ me.step = "walked" /\ me.run.status = "COMPLETED" =>
                  Len(me.rows) = IF me.wanted = {"EXCEPTION"} THEN me.run.exceptions
                                 ELSE me.run.total
  <2> DEFINE me == reader[c]
             W == Wanted(me.date, me.wanted)
  <2>1. me \in Walking /\ WalkFits(me)
    BY <1>1 DEF Reader, Idle, Listing, Auditing, ReportsTypeOK, ReportsIInv, Fits
  <2>2. me.rows \in Seq(Rows) /\ me.page \in Nat /\ RecordsPerPage \in Nat
    BY <2>1, PageSizes DEF Walking
  <2>3. W \in SUBSET Rows /\ RecordsOf(me.date) \subseteq Rows /\ Cardinality(W) \in Nat
    BY <1>1, RowsAreFinite DEF ReportsTypeOK, Wanted, RecordsOf
  <2>4. Passed(me) \in Int
    <3>1. CASE me.step = "items"
      BY <2>2, <3>1 DEF Passed
    <3>2. CASE me.step # "items"
      BY <2>2, <3>2 DEF Passed
    <3> QED BY <3>1, <3>2
  <2>5. \A i, j \in 1..Len(me.rows) : me.rows[i] = me.rows[j] => i = j
    BY <1>1, <2>1 DEF WalkFits
  <2>6. ASSUME me.step = "walked", RunWasFinished(me) PROVE Range(me.rows) = W
    <3>1. Cardinality(W) <= Passed(me) /\ Range(me.rows) \subseteq W
          /\ \A x \in W : RowPosition(x, W) <= Passed(me) => x \in Range(me.rows)
      BY <1>1, <2>1, <2>6 DEF WalkFits
    <3> HIDE DEF W, me
    <3>2. ASSUME NEW x \in W PROVE RowPosition(x, W) <= Passed(me)
      <4> DEFINE P == {y \in W : y.reference <= x.reference}
      <4>1. P \in SUBSET W /\ IsFiniteSet(W)
        BY <2>3, FS_Subset, ReportsAssumption DEF ReportsAssumption
      <4> HIDE DEF P
      <4>2. Cardinality(P) <= Cardinality(W) /\ Cardinality(P) \in Nat
        BY <4>1, FS_Subset, FS_CardinalityType
      <4>3. RowPosition(x, W) = Cardinality(P)
        BY DEF RowPosition, P
      <4> QED BY <2>3, <2>4, <3>1, <4>2, <4>3
    <3> QED BY <3>1, <3>2
  <2>7. ASSUME me.step = "walked", me.run.status = "COMPLETED"
        PROVE  Len(me.rows) = IF me.wanted = {"EXCEPTION"} THEN me.run.exceptions ELSE me.run.total
    <3>1. Range(me.rows) = W
      BY <2>6, <2>7 DEF RunWasFinished
    <3>2. Len(me.rows) = Cardinality(Range(me.rows))
      <4> HIDE DEF me
      <4> QED BY <2>2, <2>5, NoRepetition
    <3>3. /\ me.run.total = Cardinality(RecordsOf(me.date))
          /\ me.run.exceptions = Cardinality(Exceptions(me.date))
          /\ me.wanted \in {ReconciliationStatus, {"EXCEPTION"}}
      BY <2>1, <2>7 DEF WalkFits
    <3>4. CASE me.wanted = {"EXCEPTION"}
      <4>1. W = Exceptions(me.date)
        BY <3>4 DEF Wanted, Exceptions
      <4> QED BY <3>1, <3>2, <3>3, <3>4, <4>1
    <3>5. CASE me.wanted # {"EXCEPTION"}
      <4>1. W = RecordsOf(me.date)
        BY <2>3, <3>3, <3>5, ReportsAssumption DEF Wanted, ReportsAssumption
      <4> QED BY <3>1, <3>2, <3>3, <3>5, <4>1
    <3> QED BY <3>4, <3>5
  <2> QED BY <2>5, <2>6, <2>7 DEF RunWasFinished
<1>2. ReportsTypeOK /\ ReportsIInv => WalkIsExact
  BY <1>1 DEF WalkIsExact
<1> QED BY <1>2, ReportsInvariant, PTL
=============================================================================
