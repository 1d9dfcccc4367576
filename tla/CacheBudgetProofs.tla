-------------------------- MODULE CacheBudgetProofs --------------------------
(***************************************************************************)
(* The disk budget, for any shards, keys, requests and limits: the         *)
(* accounts a shard keeps by differences are what a scan of its rows would *)
(* give, the recency clock is ahead of every row this process can see, the *)
(* evictor takes only rows that are cold and past the floor, and no thread *)
(* waits for a lock it holds.                                              *)
(***************************************************************************)
EXTENDS CacheBudget, SumProofs

(***************************************************************************)
(* The accounts of one shard.                                              *)
(***************************************************************************)

Rows == [Keys -> [seq : Nat, len : Nat]]
Shard == [rows : Rows, index : SUBSET (Nat \X Keys), bytes : Int, count : Int, max : Nat]
Kept(rows) == {k \in Keys : rows[k].len # 0}
Indexed(rows) == {<<rows[k].seq, k>> : k \in Kept(rows)}

\* A shard whose index, bytes and count are those of its rows, and whose
\* high-water mark is above all of them.
Exact(d) ==
    /\ d \in Shard
    /\ d.index = Indexed(d.rows)
    /\ d.bytes = Bytes(d.rows)
    /\ d.count = Cardinality(Kept(d.rows))
    /\ \A k \in Kept(d.rows) : d.rows[k].seq <= d.max

\* The sizes of a shard's accounts are natural numbers.
LEMMA AccountTypes ==
    ASSUME NEW rows \in Rows
    PROVE  /\ Bytes(rows) \in Nat
           /\ IsFiniteSet(Kept(rows)) /\ Cardinality(Kept(rows)) \in Nat
           /\ Indexed(rows) \in SUBSET (Nat \X Keys)
<1>1. Bytes(rows) \in Nat
  <2> DEFINE f == [k \in Keys |-> rows[k].len]
  <2>1. \A k \in Keys : f[k] \in Nat
    BY DEF Rows
  <2>2. IsFiniteSet(Keys)
    BY BudgetAssumption
  <2>3. SumOver(f, Keys) \in Nat
    <3> HIDE DEF f
    <3>. QED BY <2>1, <2>2, SumNat
  <2>. QED BY <2>3 DEF Bytes
<1>2. IsFiniteSet(Kept(rows))
  <2>1. IsFiniteSet(Keys) /\ Kept(rows) \in SUBSET Keys
    BY BudgetAssumption DEF Kept
  <2>. QED BY <2>1, FS_Subset
<1>3. Cardinality(Kept(rows)) \in Nat
  BY <1>2, FS_CardinalityType
<1>4. Indexed(rows) \in SUBSET (Nat \X Keys)
  BY DEF Indexed, Kept, Rows
<1>. QED BY <1>1, <1>2, <1>3, <1>4

\* The mark a scan finds is one of the sequences, and none is above it.
LEMMA ScannedMax ==
    ASSUME NEW rows \in Rows
    PROVE  /\ Rebuilt(rows).max \in Nat
           /\ \A k \in Kept(rows) : rows[k].seq <= Rebuilt(rows).max
           /\ Kept(rows) # {} => \E k \in Kept(rows) : Rebuilt(rows).max = rows[k].seq
           /\ Kept(rows) = {} => Rebuilt(rows).max = 0
<1> DEFINE K == Kept(rows)
           Q == {rows[k].seq : k \in K}
<1>1. Rebuilt(rows).max = IF K = {} THEN 0 ELSE CHOOSE m \in Q : \A k \in K : rows[k].seq <= m
  BY DEF Rebuilt, Kept
<1>2. CASE K = {}
  BY <1>1, <1>2
<1>3. CASE K # {}
  <2>1. IsFiniteSet(Q)
    <3>1. IsFiniteSet(K)
      BY AccountTypes
    <3>2. [k \in K |-> rows[k].seq] \in Surjection(K, Q)
      BY DEF Surjection
    <3> HIDE DEF K, Q
    <3>. QED BY <3>1, <3>2, FS_Surjection
  <2>2. Q # {} /\ Q \subseteq Int
    BY <1>3 DEF Rows, Kept
  <2>3. Max(Q) \in Q /\ \A y \in Q : y <= Max(Q)
    <3> HIDE DEF K, Q
    <3>. QED BY <2>1, <2>2, MaxIn
  <2>4. \E m \in Q : \A k \in K : rows[k].seq <= m
    BY <2>3
  <2>5. /\ Rebuilt(rows).max \in Q
        /\ \A k \in K : rows[k].seq <= Rebuilt(rows).max
    <3> HIDE DEF K, Q
    <3>. QED BY <1>1, <1>3, <2>4
  <2>6. Q \subseteq Nat
    BY DEF Rows, Kept
  <2>. QED BY <1>3, <2>5, <2>6
<1>. QED BY <1>2, <1>3

\* A shard counted from its rows is exact.
LEMMA RebuiltExact ==
    ASSUME NEW rows \in Rows
    PROVE  Exact(Rebuilt(rows)) /\ Rebuilt(rows).rows = rows
<1>1. /\ Rebuilt(rows).rows = rows
      /\ Rebuilt(rows).index = Indexed(rows)
      /\ Rebuilt(rows).bytes = Bytes(rows)
      /\ Rebuilt(rows).count = Cardinality(Kept(rows))
  BY DEF Rebuilt, Kept, Indexed
<1>2. /\ Bytes(rows) \in Int /\ Cardinality(Kept(rows)) \in Int
      /\ Indexed(rows) \in SUBSET (Nat \X Keys)
  BY AccountTypes
<1>3. /\ Rebuilt(rows).max \in Nat
      /\ \A k \in Kept(rows) : rows[k].seq <= Rebuilt(rows).max
  BY ScannedMax
<1>4. Rebuilt(rows) = [rows |-> Rebuilt(rows).rows, index |-> Rebuilt(rows).index,
                       bytes |-> Rebuilt(rows).bytes, count |-> Rebuilt(rows).count,
                       max |-> Rebuilt(rows).max]
  BY DEF Rebuilt
<1>5. Rebuilt(rows) \in Shard
  BY <1>1, <1>2, <1>3, <1>4 DEF Shard
<1>. QED BY <1>1, <1>3, <1>5 DEF Exact

\* Exact accounts are never counted again: write_summary's repair is idle.
LEMMA NoRepair ==
    ASSUME NEW d, Exact(d)
    PROVE  write_summary(d) = d
<1>1. d.rows \in Rows
  BY DEF Exact, Shard
<1>2. d.bytes \in Nat /\ d.count \in Nat
  BY <1>1, AccountTypes DEF Exact
<1>. QED BY <1>2 DEF write_summary

\* An insert keeps the accounts, whether or not it replaces a row.
LEMMA InsertExact ==
    ASSUME NEW d, Exact(d), NEW k \in Keys, NEW q \in Nat, NEW len \in Nat \ {0}
    PROVE  /\ Exact(write_pending_inserts(d, k, q, len))
           /\ write_pending_inserts(d, k, q, len).rows =
                 [d.rows EXCEPT ![k] = [seq |-> q, len |-> len]]
<1> DEFINE rows == [d.rows EXCEPT ![k] = [seq |-> q, len |-> len]]
           e == [rows |-> rows,
                 index |-> DropsIndexed(d, k) \cup {<<q, k>>},
                 bytes |-> (d.bytes + len) - d.rows[k].len,
                 count |-> IF Replaces(d, k) THEN d.count ELSE d.count + 1,
                 max |-> IF q > d.max THEN q ELSE d.max]
<1>1. /\ d.rows \in Rows /\ d.index \in SUBSET (Nat \X Keys)
      /\ d.max \in Nat
      /\ d.index = Indexed(d.rows)
      /\ d.bytes = Bytes(d.rows)
      /\ d.count = Cardinality(Kept(d.rows))
  BY DEF Exact, Shard
<1>2. rows \in Rows /\ rows[k] = [seq |-> q, len |-> len]
      /\ \A j \in Keys \ {k} : rows[j] = d.rows[j]
  BY <1>1 DEF Rows
<1>3. Kept(rows) = Kept(d.rows) \cup {k}
  BY <1>2 DEF Kept
<1>4. e.index = Indexed(rows)
  <2>1. DropsIndexed(d, k) = {<<d.rows[j].seq, j>> : j \in Kept(d.rows) \ {k}}
    BY <1>1 DEF DropsIndexed, Indexed
  <2>2. Indexed(rows) = {<<rows[j].seq, j>> : j \in Kept(d.rows) \ {k}} \cup {<<q, k>>}
    <3> HIDE DEF rows
    <3>. QED BY <1>2, <1>3 DEF Indexed
  <2>3. \A j \in Kept(d.rows) \ {k} : rows[j].seq = d.rows[j].seq
    BY <1>2 DEF Kept
  <2> HIDE DEF rows
  <2>. QED BY <2>1, <2>2, <2>3
<1>5. e.bytes = Bytes(rows)
  <2> DEFINE f == [j \in Keys |-> d.rows[j].len]
             g == [j \in Keys |-> rows[j].len]
  <2>1. \A j \in Keys : f[j] \in Int /\ g[j] \in Int
    BY <1>1, <1>2 DEF Rows
  <2>2. \A j \in Keys \ {k} : f[j] = g[j]
    BY <1>2
  <2>3. IsFiniteSet(Keys)
    BY BudgetAssumption
  <2>4. f[k] = d.rows[k].len /\ g[k] = len
    BY <1>2
  <2>5. SumOver(g, Keys) = (SumOver(f, Keys) - f[k]) + g[k]
    <3> HIDE DEF f, g, rows
    <3>. QED BY <2>1, <2>2, <2>3, SumUpdate
  <2>6. SumOver(f, Keys) \in Int
    <3> HIDE DEF f, g, rows
    <3>. QED BY <2>1, <2>3, SumInt
  <2>7. Bytes(rows) = SumOver(g, Keys) /\ d.bytes = SumOver(f, Keys)
    BY <1>1 DEF Bytes
  <2>8. f[k] \in Int
    BY <2>1
  <2>9. e.bytes = (SumOver(f, Keys) + len) - f[k]
    BY <2>4, <2>7
  <2> HIDE DEF f, g, rows, e
  <2>. QED BY <2>4, <2>5, <2>6, <2>7, <2>8, <2>9
<1>6. e.count = Cardinality(Kept(rows))
  <2>1. IsFiniteSet(Kept(d.rows)) /\ Cardinality(Kept(d.rows)) \in Nat
    BY <1>1, AccountTypes
  <2>2. Cardinality(Kept(d.rows) \cup {k})
          = IF k \in Kept(d.rows) THEN Cardinality(Kept(d.rows)) ELSE Cardinality(Kept(d.rows)) + 1
    BY <2>1, FS_AddElement
  <2>3. Replaces(d, k) <=> k \in Kept(d.rows)
    BY DEF Replaces, Kept
  <2> HIDE DEF rows
  <2>. QED BY <1>1, <1>3, <2>2, <2>3
<1>7. \A j \in Kept(rows) : rows[j].seq <= e.max
  <2>1. \A j \in Kept(d.rows) : d.rows[j].seq <= d.max /\ d.rows[j].seq \in Nat
    BY <1>1 DEF Exact, Kept, Rows
  <2>2. e.max \in Nat /\ q <= e.max /\ d.max <= e.max
    BY <1>1
  <2>3. ASSUME NEW j \in Kept(rows) PROVE rows[j].seq <= e.max
    <3> HIDE DEF e
    <3>1. CASE j = k
      BY <1>2, <2>2, <3>1
    <3>2. CASE j # k
      <4>1. j \in Kept(d.rows) /\ rows[j] = d.rows[j]
        BY <1>2, <1>3, <3>2 DEF Kept
      <4> HIDE DEF rows
      <4>. QED BY <4>1, <2>1, <2>2, <1>1
    <3>. QED BY <3>1, <3>2
  <2>. QED BY <2>3
<1>8. e \in Shard
  <2>1. e.index \in SUBSET (Nat \X Keys) /\ e.bytes \in Int /\ e.count \in Int
    <3> HIDE DEF e, rows
    <3>. QED BY <1>2, <1>4, <1>5, <1>6, AccountTypes
  <2>2. e.max \in Nat
    BY <1>1
  <2>. QED BY <1>2, <2>1, <2>2 DEF Shard
<1>9. Exact(e)
  <2>1. e.rows = rows
    OBVIOUS
  <2> HIDE DEF e, rows
  <2>. QED BY <2>1, <1>4, <1>5, <1>6, <1>7, <1>8 DEF Exact
<1>10. write_pending_inserts(d, k, q, len) = write_summary(e)
  BY DEF write_pending_inserts
<1>11. e.rows = rows
  OBVIOUS
<1> HIDE DEF e
<1>. QED BY <1>9, <1>10, <1>11, NoRepair

\* A removal keeps the accounts, whichever of the keys have a row.
LEMMA RemovalExact ==
    ASSUME NEW d, Exact(d), NEW ks \in SUBSET Keys
    PROVE  /\ Exact(maintain_removals(d, ks))
           /\ \A k \in Kept(maintain_removals(d, ks).rows) :
                 /\ k \in Kept(d.rows)
                 /\ maintain_removals(d, ks).rows[k] = d.rows[k]
<1> DEFINE gone == {k \in ks : d.rows[k].len # 0}
           rows == [k \in Keys |-> IF k \in gone THEN None ELSE d.rows[k]]
           f == [k \in Keys |-> d.rows[k].len]
           g == [k \in Keys |-> rows[k].len]
           e == [d EXCEPT !.rows = rows,
                          !.index = {x \in d.index : x[2] \notin gone},
                          !.bytes = d.bytes - SumOver(f, gone),
                          !.count = d.count - Cardinality(gone)]
<1>1. /\ d \in Shard
      /\ d.rows \in Rows /\ d.index \in SUBSET (Nat \X Keys)
      /\ d.max \in Nat
      /\ d.index = Indexed(d.rows)
      /\ d.bytes = Bytes(d.rows)
      /\ d.count = Cardinality(Kept(d.rows))
  BY DEF Exact, Shard
<1>2. /\ gone \in SUBSET Kept(d.rows) /\ gone \in SUBSET Keys
      /\ Kept(d.rows) \in SUBSET Keys
  BY DEF Kept
<1>3. /\ rows \in Rows
      /\ \A k \in gone : rows[k].len = 0
      /\ \A k \in Keys \ gone : rows[k] = d.rows[k]
  <2>1. None \in [seq : Nat, len : Nat] /\ None.len = 0
    BY DEF None
  <2>. QED BY <1>1, <1>2, <2>1 DEF Rows
<1>4. Kept(rows) = Kept(d.rows) \ gone
  <2> HIDE DEF rows, gone
  <2>. QED BY <1>2, <1>3 DEF Kept
<1>5. /\ e.rows = rows
      /\ e.index = {x \in d.index : x[2] \notin gone}
      /\ e.bytes = d.bytes - SumOver(f, gone)
      /\ e.count = d.count - Cardinality(gone)
      /\ e.max = d.max
  BY <1>1 DEF Shard
<1>6. e.index = Indexed(rows)
  <2>1. e.index = {<<d.rows[k].seq, k>> : k \in Kept(d.rows) \ gone}
    <3> HIDE DEF gone, rows
    <3>. QED BY <1>1, <1>5 DEF Indexed
  <2>2. \A k \in Kept(d.rows) \ gone : rows[k].seq = d.rows[k].seq
    <3> HIDE DEF gone, rows
    <3>. QED BY <1>2, <1>3
  <2>3. Indexed(rows) = {<<rows[k].seq, k>> : k \in Kept(d.rows) \ gone}
    <3> HIDE DEF gone, rows
    <3>. QED BY <1>4 DEF Indexed
  <2> HIDE DEF gone, rows, e
  <2>. QED BY <2>1, <2>2, <2>3
<1>7. e.bytes = Bytes(rows)
  <2>1. \A k \in Keys : f[k] \in Int /\ g[k] \in Int
    BY <1>1, <1>3 DEF Rows
  <2>2. (\A k \in gone : g[k] = 0) /\ \A k \in Keys \ gone : f[k] = g[k]
    BY <1>2, <1>3
  <2>3. IsFiniteSet(Keys) /\ IsFiniteSet(gone) /\ IsFiniteSet(Keys \ gone)
    BY <1>2, BudgetAssumption, FS_Subset
  <2>4. Bytes(rows) = SumOver(g, Keys) /\ d.bytes = SumOver(f, Keys)
    BY <1>1 DEF Bytes
  <2> HIDE DEF f, g, rows, gone, e
  <2>5. /\ SumOver(f, Keys) = SumOver(f, gone) + SumOver(f, Keys \ gone)
        /\ SumOver(g, Keys) = SumOver(g, gone) + SumOver(g, Keys \ gone)
    BY <1>2, <2>1, <2>3, SumSplit
  <2>6. SumOver(g, gone) = 0
    BY <2>2, <2>3, SumZero
  <2>7. SumOver(f, Keys \ gone) = SumOver(g, Keys \ gone)
    BY <2>2, <2>3, SumSame
  <2>8. SumOver(f, gone) \in Int /\ SumOver(f, Keys \ gone) \in Int
    <3>1. (\A k \in gone : f[k] \in Int) /\ \A k \in Keys \ gone : f[k] \in Int
      BY <1>2, <2>1
    <3>. QED BY <3>1, <2>3, SumInt
  <2>. QED BY <1>5, <2>4, <2>5, <2>6, <2>7, <2>8
<1>8. e.count = Cardinality(Kept(rows))
  <2>1. IsFiniteSet(Kept(d.rows))
    BY <1>1, AccountTypes
  <2>2. IsFiniteSet(gone)
    <3> HIDE DEF gone
    <3>. QED BY <1>2, <2>1, FS_Subset
  <2>3. Cardinality(Kept(d.rows) \ gone)
          = Cardinality(Kept(d.rows)) - Cardinality(Kept(d.rows) \cap gone)
    <3> HIDE DEF gone
    <3>. QED BY <2>1, <2>2, FS_Difference
  <2>4. Kept(d.rows) \cap gone = gone
    BY <1>2
  <2> HIDE DEF e, rows, gone
  <2>. QED BY <1>1, <1>4, <1>5, <2>3, <2>4
<1>9. \A k \in Kept(rows) : rows[k] = d.rows[k] /\ k \in Kept(d.rows)
  <2> HIDE DEF rows, gone
  <2>. QED BY <1>2, <1>3, <1>4
<1>10. Exact(e)
  <2>1. e.index \in SUBSET (Nat \X Keys) /\ e.bytes \in Int /\ e.count \in Int
    <3> HIDE DEF e, rows
    <3>. QED BY <1>3, <1>6, <1>7, <1>8, AccountTypes
  <2>2. e \in Shard
    <3> DEFINE index == {x \in d.index : x[2] \notin gone}
               bytes == d.bytes - SumOver(f, gone)
               count == d.count - Cardinality(gone)
    <3>1. index \in SUBSET (Nat \X Keys) /\ bytes \in Int /\ count \in Int
      BY <1>5, <2>1
    <3>2. e = [d EXCEPT !.rows = rows, !.index = index, !.bytes = bytes, !.count = count]
      OBVIOUS
    <3> HIDE DEF e, rows, gone, f, index, bytes, count
    <3>. QED BY <1>1, <1>3, <3>1, <3>2 DEF Shard
  <2>3. \A k \in Kept(rows) : rows[k].seq <= e.max
    <3>1. \A k \in Kept(d.rows) : d.rows[k].seq <= d.max
      BY DEF Exact
    <3> HIDE DEF e, rows, gone
    <3>. QED BY <1>5, <1>9, <3>1
  <2> HIDE DEF e, rows, gone
  <2>. QED BY <1>5, <1>6, <1>7, <1>8, <2>2, <2>3 DEF Exact
<1>11. maintain_removals(d, ks) = write_summary(e)
  BY DEF maintain_removals
<1> HIDE DEF e, rows, gone
<1>12. maintain_removals(d, ks) = e
  BY <1>10, <1>11, NoRepair
<1>. QED BY <1>5, <1>9, <1>10, <1>12

\* A shard that was cleared is exact.
LEMMA EmptyExact == Exact(Empty) /\ Kept(Empty.rows) = {}
<1>1. [k \in Keys |-> None] \in Rows
  BY DEF Rows, None
<1>2. Exact(Empty) /\ Empty.rows = [k \in Keys |-> None]
  BY <1>1, RebuiltExact DEF Empty
<1>. QED BY <1>2 DEF Kept, None

\* Exact accounts are those of a scan.
LEMMA ExactIsScan ==
    ASSUME NEW d, Exact(d)
    PROVE  /\ [d EXCEPT !.max = 0] = [Rebuilt(d.rows) EXCEPT !.max = 0]
           /\ d.max >= Rebuilt(d.rows).max
<1> DEFINE r == Rebuilt(d.rows)
<1>1. d \in Shard /\ d.rows \in Rows
  BY DEF Exact, Shard
<1>2. Exact(r) /\ r.rows = d.rows
  BY <1>1, RebuiltExact
<1>3. /\ r \in Shard /\ r.index = d.index /\ r.bytes = d.bytes /\ r.count = d.count
  BY <1>2 DEF Exact
<1>4. r.max \in Nat /\ d.max >= r.max
  <2>1. d.max \in Nat /\ \A k \in Kept(d.rows) : d.rows[k].seq <= d.max
    BY <1>1 DEF Exact, Shard
  <2>2. /\ r.max \in Nat
        /\ Kept(d.rows) # {} => \E k \in Kept(d.rows) : r.max = d.rows[k].seq
        /\ Kept(d.rows) = {} => r.max = 0
    BY <1>1, ScannedMax
  <2> HIDE DEF r
  <2>. QED BY <2>1, <2>2
<1>5. [d EXCEPT !.max = 0] = [r EXCEPT !.max = 0]
  <2> HIDE DEF r
  <2>. QED BY <1>1, <1>2, <1>3 DEF Shard
<1>. QED BY <1>4, <1>5

(***************************************************************************)
(* Which rows are the oldest.                                              *)
(***************************************************************************)

Rank(es, e) == Cardinality({d \in es : Older(d, e)})

\* Older is an order, and the older of two rows has fewer rows before it.
LEMMA OlderRanksLower ==
    ASSUME NEW es \in SUBSET (Nat \X Nat), IsFiniteSet(es),
           NEW d \in es, NEW e \in es, Older(d, e)
    PROVE  Rank(es, d) < Rank(es, e)
<1> DEFINE D == {x \in es : Older(x, d)}
           E == {x \in es : Older(x, e)}
<1>1. D \subseteq E
  <2>1. ASSUME NEW x \in es, Older(x, d) PROVE Older(x, e)
    BY <2>1 DEF Older
  <2>. QED BY <2>1
<1>2. d \in E /\ d \notin D
  BY DEF Older
<1>3. IsFiniteSet(E) /\ IsFiniteSet(D)
  BY FS_Subset
<1>4. Cardinality(D) \in Nat /\ Cardinality(E) \in Nat
  BY <1>3, FS_CardinalityType
<1>5. Cardinality(D) <= Cardinality(E) /\ Cardinality(D) # Cardinality(E)
  <2>1. D \in SUBSET E /\ D # E
    BY <1>1, <1>2
  <2> HIDE DEF D, E
  <2>. QED BY <1>3, <2>1, FS_Subset
<1>. QED BY <1>4, <1>5 DEF Rank

\* The n oldest are at most n, and whatever is older than one of them is one.
LEMMA OldestAreFew ==
    ASSUME NEW es \in SUBSET (Nat \X Nat), IsFiniteSet(es), NEW n \in Nat
    PROVE  /\ Oldest(es, n) \subseteq es
           /\ IsFiniteSet(Oldest(es, n)) /\ Cardinality(Oldest(es, n)) <= n
           /\ \A e \in Oldest(es, n) : \A d \in es : Older(d, e) => d \in Oldest(es, n)
<1> DEFINE L == Oldest(es, n)
           f == [e \in L |-> Rank(es, e)]
<1>1. L \in SUBSET es /\ \A e \in L : Rank(es, e) < n
  BY DEF Oldest, Rank
<1>2. \A e \in es : Rank(es, e) \in Nat
  <2>1. ASSUME NEW e \in es PROVE Rank(es, e) \in Nat
    <3>1. IsFiniteSet({d \in es : Older(d, e)})
      BY FS_Subset
    <3>. QED BY <3>1, FS_CardinalityType DEF Rank
  <2>. QED BY <2>1
<1>3. f \in Injection(L, 0..(n - 1))
  <2>1. f \in [L -> 0..(n - 1)]
    BY <1>1, <1>2
  <2>2. ASSUME NEW d \in L, NEW e \in L, f[d] = f[e] PROVE d = e
    <3>1. d \in es /\ e \in es /\ Rank(es, d) = Rank(es, e) /\ Rank(es, d) \in Nat
      BY <1>1, <1>2, <2>2
    <3>2. ~Older(d, e) /\ ~Older(e, d)
      BY <3>1, OlderRanksLower
    <3>3. d \in Nat \X Nat /\ e \in Nat \X Nat
      BY <3>1
    <3>. QED BY <3>2, <3>3 DEF Older
  <2> HIDE DEF f, L
  <2>. QED BY <2>1, <2>2 DEF Injection, IsInjective
<1>4. IsFiniteSet(0..(n - 1)) /\ Cardinality(0..(n - 1)) = n
  <2>1. 0 \in Int /\ n - 1 \in Int
    OBVIOUS
  <2>2. /\ IsFiniteSet(0..(n - 1))
        /\ Cardinality(0..(n - 1)) = IF 0 > n - 1 THEN 0 ELSE (n - 1) - 0 + 1
    BY <2>1, FS_Interval
  <2>. QED BY <2>2
<1>5. IsFiniteSet(L) /\ Cardinality(L) <= n
  <2> HIDE DEF L, f
  <2>. QED BY <1>3, <1>4, FS_Injection
<1>6. ASSUME NEW e \in L, NEW d \in es, Older(d, e) PROVE d \in L
  <2>1. Rank(es, d) < Rank(es, e)
    BY <1>1, <1>6, OlderRanksLower
  <2>2. Rank(es, d) < n
    BY <1>1, <1>2, <1>6, <2>1
  <2>. QED BY <2>2 DEF Oldest, Rank
<1>. QED BY <1>1, <1>5, <1>6

\* The smaller of two numbers.
LEMMA MinOfTwo ==
    ASSUME NEW a \in Nat, NEW b \in Nat
    PROVE  Min({a, b}) \in Nat /\ Min({a, b}) <= a /\ Min({a, b}) <= b
<1>1. \E x \in {a, b} : \A y \in {a, b} : x <= y
  <2>1. CASE a <= b
    BY <2>1
  <2>2. CASE b <= a
    BY <2>2
  <2>. QED BY <2>1, <2>2
<1>2. Min({a, b}) \in {a, b} /\ \A y \in {a, b} : Min({a, b}) <= y
  BY <1>1 DEF Min
<1>. QED BY <1>2

\* The index of a shard holds one entry a row.
LEMMA IndexCounts ==
    ASSUME NEW rows \in Rows
    PROVE  /\ Indexed(rows) \in SUBSET (Nat \X Nat)
           /\ IsFiniteSet(Indexed(rows))
           /\ \A e \in Indexed(rows) : e[2] \in Kept(rows) /\ e[1] = rows[e[2]].seq
<1>1. Indexed(rows) \in SUBSET (Nat \X Nat)
  BY BudgetAssumption DEF Indexed, Rows, Kept
<1>2. IsFiniteSet(Indexed(rows))
  <2>1. [k \in Kept(rows) |-> <<rows[k].seq, k>>] \in Surjection(Kept(rows), Indexed(rows))
    BY DEF Surjection, Indexed
  <2>2. IsFiniteSet(Kept(rows))
    BY AccountTypes
  <2>. QED BY <2>1, <2>2, FS_Surjection
<1>3. \A e \in Indexed(rows) : e[2] \in Kept(rows) /\ e[1] = rows[e[2]].seq
  BY DEF Indexed
<1>. QED BY <1>1, <1>2, <1>3

\* The n oldest rows past the floor leave Floor rows behind that are no older.
LEMMA FloorStays ==
    ASSUME NEW d, Exact(d), NEW n \in Nat, NEW ks,
           ks \subseteq {e[2] : e \in Oldest(d.index, Min({n, Monus(d.count, Floor)}))},
           NEW k \in ks
    PROVE  Cardinality({j \in Kept(d.rows) \ ks : d.rows[j].seq >= d.rows[k].seq}) >= Floor
<1> DEFINE take == Min({n, Monus(d.count, Floor)})
           L == Oldest(d.index, take)
           KL == {e[2] : e \in L}
           K == Kept(d.rows)
           stay == {j \in K \ ks : d.rows[j].seq >= d.rows[k].seq}
<1>1. /\ d.rows \in Rows /\ d.index = Indexed(d.rows) /\ d.count = Cardinality(K)
      /\ Floor \in Nat
  BY BudgetAssumption DEF Exact, Shard
<1>2. IsFiniteSet(K) /\ Cardinality(K) \in Nat
  BY <1>1, AccountTypes
<1>3. /\ d.index \in SUBSET (Nat \X Nat) /\ IsFiniteSet(d.index)
      /\ \A e \in d.index : e[2] \in K /\ e[1] = d.rows[e[2]].seq
  BY <1>1, IndexCounts
<1>4. take \in Nat /\ take <= Monus(d.count, Floor)
  <2>1. Monus(d.count, Floor) \in Nat
    BY <1>1, <1>2 DEF Monus
  <2>. QED BY <2>1, MinOfTwo
<1>5. /\ L \subseteq d.index /\ IsFiniteSet(L) /\ Cardinality(L) <= take
      /\ \A e \in L : \A x \in d.index : Older(x, e) => x \in L
  <2> HIDE DEF take
  <2>. QED BY <1>3, <1>4, OldestAreFew
<1>6. k \in KL
  OBVIOUS
<1>7. IsFiniteSet(KL) /\ Cardinality(KL) <= Cardinality(L) /\ KL \in SUBSET K
  <2>1. [e \in L |-> e[2]] \in Surjection(L, KL)
    BY DEF Surjection
  <2>2. KL \in SUBSET K
    BY <1>3, <1>5
  <2> HIDE DEF L, KL, K
  <2>. QED BY <1>5, <2>1, <2>2, FS_Surjection
<1>8. Cardinality(K \ KL) = Cardinality(K) - Cardinality(KL)
  <2>1. K \cap KL = KL
    BY <1>7
  <2> HIDE DEF K, KL, L
  <2>. QED BY <1>2, <1>7, <2>1, FS_Difference
<1>9. /\ Cardinality(KL) \in Nat /\ Cardinality(L) \in Nat
  BY <1>5, <1>7, FS_CardinalityType
<1>10. Cardinality(L) # 0
  <2>1. L # {}
    BY <1>6
  <2> HIDE DEF L
  <2>. QED BY <1>5, <2>1, FS_EmptySet
<1>11. take > 0 /\ Cardinality(K) - take >= Floor
  <2> HIDE DEF take, L, K
  <2>. QED BY <1>1, <1>2, <1>4, <1>5, <1>9, <1>10 DEF Monus
<1>12. Cardinality(K \ KL) >= Floor
  <2> HIDE DEF take, L, K, KL
  <2>. QED BY <1>1, <1>2, <1>4, <1>5, <1>7, <1>8, <1>9, <1>11
<1>13. K \ KL \subseteq stay
  <2>1. ASSUME NEW j \in K, j \notin KL
        PROVE  j \notin ks /\ d.rows[j].seq >= d.rows[k].seq
    <3>1. j \notin ks
      BY <2>1
    <3>2. PICK e \in L : e[2] = k
      BY <1>6
    <3>3. e \in d.index /\ e[1] = d.rows[k].seq
      BY <1>3, <1>5, <3>2
    <3> DEFINE x == <<d.rows[j].seq, j>>
    <3>4. x \in d.index
      BY <1>1 DEF Indexed
    <3>5. x \notin L
      <4>1. x[2] = j
        OBVIOUS
      <4> HIDE DEF x, L
      <4>. QED BY <2>1, <4>1
    <3>6. ~Older(x, e)
      BY <1>5, <3>4, <3>5
    <3>7. d.rows[j].seq \in Nat /\ d.rows[k].seq \in Nat
      BY <1>1, <1>6, <1>7 DEF Rows, Kept
    <3>. QED BY <3>1, <3>3, <3>6, <3>7 DEF Older
  <2>. QED BY <2>1
<1>14. IsFiniteSet(stay) /\ Cardinality(stay) \in Nat /\ Cardinality(K \ KL) <= Cardinality(stay)
       /\ Cardinality(K \ KL) \in Nat
  <2>1. stay \in SUBSET K /\ (K \ KL) \in SUBSET stay /\ (K \ KL) \in SUBSET K
    BY <1>13
  <2> HIDE DEF K, KL, stay
  <2>2. IsFiniteSet(stay) /\ IsFiniteSet(K \ KL)
    BY <1>2, <2>1, FS_Subset
  <2>. QED BY <2>1, <2>2, FS_Subset, FS_CardinalityType
<1>15. Cardinality(stay) >= Floor
  <2> HIDE DEF K, KL, stay
  <2>. QED BY <1>1, <1>12, <1>14
<1>. QED BY <1>15

(***************************************************************************)
(* The inductive invariant.                                                *)
(***************************************************************************)

Pages == [readers : SUBSET {"user"}, queued : BOOLEAN, writer : BOOLEAN]
Recency == [Keys -> [last : Nat, pers : Nat]]

Stages == {"no", "published", "listed", "blind", "seen"}

BudgetTypes ==
    /\ mem \in [Shards -> Recency]
    /\ clock \in Nat
    /\ open \in [Shards -> Stages]
    /\ listed \in [Shards -> SUBSET (Nat \X Keys)]
    /\ db \in [Shards -> Pages]
    /\ us \in [pc : {"ready", "decide", "remove"}, i : Nat \ {0}]
    /\ plan \in Plans
    /\ us.pc # "ready" => us.i \in 1..Len(plan)

\* Every shard's accounts are exact.
DiskExact == disk \in [Shards -> Shard] /\ \A s \in Shards : Exact(disk[s])

\* Nothing this process has seen is ahead of the clock: ClockAhead needs it of
\* memory too, which a flush writes back to the rows.  While load_recent is at
\* work, a row is below the clock or no newer than one that is about to be read.
Below(s, q, c) == q < c \/ (open[s] = "listed" /\ \E e \in listed[s] : q <= e[1])
RowsBelow(c) ==
    \A s \in Shards : open[s] \in {"listed", "seen"} =>
        \A k \in Kept(disk[s].rows) : Below(s, disk[s].rows[k].seq, c)
SeenBelow(c) == \A s \in Shards, k \in Keys : mem[s][k].last < c
ClockInv == SeenBelow(clock) /\ RowsBelow(clock)

\* The thread that removes a row has let go of its guard.
GuardInv == us.pc = "remove" => "user" \notin db[Op.s].readers

\* The pass works on shards, and evicts keys.
PassInv ==
    /\ {"pc", "s", "keys", "sel", "todo"} \subseteq DOMAIN ev
    /\ ev.pc \in {"compact", "queued", "compacting"} => ev.todo \in SUBSET Shards
    /\ ev.pc \in {"evict", "after", "queued", "compacting"} => ev.s \in Shards
    /\ ev.pc = "evict" => ev.keys \in SUBSET Keys

BudgetInv == BudgetTypes /\ DiskExact /\ ClockInv /\ GuardInv /\ PassInv /\ SparesWarm

\* Observing a set of sequences sets the clock past all of them and never back.
LEMMA ObservesAll ==
    ASSUME NEW c \in Nat, NEW Q, IsFiniteSet(Q), Q \subseteq Nat
    PROVE  LET m == Max({c} \cup {observe(c, q) : q \in Q})
           IN  m \in Nat /\ c <= m /\ \A q \in Q : q < m
<1> DEFINE O == {observe(c, q) : q \in Q}
           A == O \cup {c}
<1>1. \A q \in Q : observe(c, q) \in Nat /\ q < observe(c, q)
  BY DEF observe
<1>2. IsFiniteSet(O)
  <2>1. [q \in Q |-> observe(c, q)] \in Surjection(Q, O)
    BY DEF Surjection
  <2> HIDE DEF O
  <2>. QED BY <2>1, FS_Surjection
<1>3. IsFiniteSet(A)
  <2> HIDE DEF O
  <2>. QED BY <1>2, FS_AddElement
<1>4. A # {} /\ A \subseteq Nat
  BY <1>1
<1>5. Max(A) \in A /\ \A y \in A : y <= Max(A)
  <2>1. A \subseteq Int
    BY <1>4
  <2> HIDE DEF A
  <2>. QED BY <1>3, <1>4, <2>1, MaxIn
<1>6. A = {c} \cup O
  OBVIOUS
<1>7. Max(A) \in Nat /\ c <= Max(A) /\ \A q \in Q : observe(c, q) <= Max(A)
  BY <1>4, <1>5
<1>8. \A q \in Q : q < Max(A)
  <2> HIDE DEF A, O
  <2>. QED BY <1>1, <1>7
<1> HIDE DEF A
<1>. QED BY <1>6, <1>7, <1>8

\* The marks of some shards are observed.
LEMMA MarksObserved ==
    ASSUME DiskExact, NEW c \in Nat, NEW S \in SUBSET Shards
    PROVE  LET m == ObserveAll(c, {disk[s].max : s \in S})
           IN  m \in Nat /\ c <= m /\ \A s \in S : disk[s].max < m
<1> DEFINE Q == {disk[s].max : s \in S}
<1>1. IsFiniteSet(Q)
  <2>1. IsFiniteSet(S)
    BY BudgetAssumption, FS_Subset
  <2>2. [s \in S |-> disk[s].max] \in Surjection(S, Q)
    BY DEF Surjection
  <2> HIDE DEF Q
  <2>. QED BY <2>1, <2>2, FS_Surjection
<1>2. Q \subseteq Nat
  BY DEF DiskExact, Shard
<1>3. /\ ObserveAll(c, Q) \in Nat /\ c <= ObserveAll(c, Q)
      /\ \A q \in Q : q < ObserveAll(c, Q)
  <2> HIDE DEF Q
  <2>. QED BY <1>1, <1>2, ObservesAll DEF ObserveAll
<1>. QED BY <1>3

\* The clock a pass leaves is a number no lower than it was.
LEMMA PassObserves ==
    ASSUME BudgetTypes, DiskExact
    PROVE  /\ ObserveAll(clock, {MaxSeq(s) : s \in Shards}) \in Nat
           /\ clock <= ObserveAll(clock, {MaxSeq(s) : s \in Shards})
<1> DEFINE Q == {MaxSeq(s) : s \in Shards}
<1>1. IsFiniteSet(Q)
  <2>1. IsFiniteSet(Shards)
    BY BudgetAssumption
  <2>2. [s \in Shards |-> MaxSeq(s)] \in Surjection(Shards, Q)
    BY DEF Surjection
  <2> HIDE DEF Q
  <2>. QED BY <2>1, <2>2, FS_Surjection
<1>2. Q \subseteq Nat
  BY DEF DiskExact, Shard, MaxSeq
<1>3. ObserveAll(clock, Q) \in Nat /\ clock <= ObserveAll(clock, Q)
  <2> HIDE DEF Q
  <2>. QED BY <1>1, <1>2, ObservesAll DEF ObserveAll, BudgetTypes
<1>. QED BY <1>3

\* A seeded clock is ahead of the rows it was seeded from.
LEMMA SeedAhead ==
    ASSUME DiskExact, NEW S \in SUBSET Shards
    PROVE  /\ Seeded(S) \in Nat /\ 0 < Seeded(S)
           /\ \A s \in S : \A k \in Kept(disk[s].rows) : disk[s].rows[k].seq < Seeded(S)
<1>1. /\ Seeded(S) \in Nat /\ 1 <= Seeded(S)
      /\ \A s \in S : disk[s].max < Seeded(S)
  BY MarksObserved DEF Seeded
<1>2. ASSUME NEW s \in S, NEW k \in Kept(disk[s].rows)
      PROVE  disk[s].rows[k].seq < Seeded(S)
  <2>1. Exact(disk[s])
    BY DEF DiskExact
  <2>2. /\ disk[s].rows[k].seq <= disk[s].max /\ disk[s].max \in Nat
        /\ disk[s].rows[k].seq \in Nat
    BY <2>1 DEF Exact, Shard, Rows, Kept
  <2>. QED BY <1>1, <2>2
<1>. QED BY <1>1, <1>2

\* The request being served names a shard, a key and a length.
LEMMA OpTypes ==
    ASSUME BudgetTypes, us.i <= Len(plan)
    PROVE  Op.s \in Shards /\ Op.k \in Keys /\ Op.len \in Nat \ {0}
<1> DEFINE R == [do : STRING, s : Shards, k : Keys, len : Nat \ {0}]
<1>1. plan \in Seq(R)
  BY BudgetAssumption DEF BudgetTypes
<1>2. us.i \in Nat \ {0}
  BY DEF BudgetTypes
<1>3. plan[us.i] \in R
  <2> HIDE DEF R
  <2>1. us.i \in 1..Len(plan)
    BY <1>1, <1>2
  <2>. QED BY <1>1, <2>1
<1>. QED BY <1>3 DEF Op

\* The keys that are picked are cold, and Floor rows stay.
LEMMA PickSpares ==
    ASSUME BudgetTypes, DiskExact, NEW s \in Shards
    PROVE  /\ lowest_seq_disk_keys(s) \in SUBSET Keys
           /\ \A k \in lowest_seq_disk_keys(s) :
                 /\ mem[s][k].last <= disk[s].rows[k].seq
                 /\ Cardinality({j \in Held(s) \ lowest_seq_disk_keys(s) :
                       disk[s].rows[j].seq >= disk[s].rows[k].seq}) >= Floor
<1> DEFINE ks == lowest_seq_disk_keys(s)
<1>1. PICK n \in {Batch, Scan} :
        ks = {e[2] : e \in filter_evictable(s, lowest_seq_keys(s, n), Batch)}
  BY DEF lowest_seq_disk_keys
<1>2. n \in Nat
  BY BudgetAssumption
<1>3. Exact(disk[s]) /\ disk[s].rows \in Rows /\ disk[s].index = Indexed(disk[s].rows)
  BY DEF DiskExact, Exact, Shard
<1>4. \A e \in disk[s].index : e[2] \in Kept(disk[s].rows) /\ e[1] = disk[s].rows[e[2]].seq
  BY <1>3, IndexCounts
<1> DEFINE L == Oldest(disk[s].index, Min({n, Monus(disk[s].count, Floor)}))
           F == filter_evictable(s, lowest_seq_keys(s, n), Batch)
<1>5. F \subseteq L /\ L \subseteq disk[s].index /\ \A e \in F : ~memory_hot(s, e)
  BY DEF filter_evictable, lowest_seq_keys, Oldest
<1>6. ks \subseteq {e[2] : e \in L}
  BY <1>1, <1>5
<1>7. ASSUME NEW k \in ks
      PROVE  /\ k \in Keys
             /\ mem[s][k].last <= disk[s].rows[k].seq
             /\ Cardinality({j \in Held(s) \ ks : disk[s].rows[j].seq >= disk[s].rows[k].seq}) >= Floor
  <2>1. PICK e \in F : e[2] = k
    BY <1>1
  <2>2. k \in Kept(disk[s].rows) /\ e[1] = disk[s].rows[k].seq
    BY <1>4, <1>5, <2>1
  <2>3. k \in Keys
    BY <2>2 DEF Kept
  <2>4. mem[s][k].last \in Nat /\ disk[s].rows[k].seq \in Nat
    BY <1>3, <2>3 DEF BudgetTypes, Recency, Rows
  <2>5. ~(mem[s][k].last > e[1])
    BY <1>5, <2>1 DEF memory_hot
  <2>6. Cardinality({j \in Kept(disk[s].rows) \ ks :
                       disk[s].rows[j].seq >= disk[s].rows[k].seq}) >= Floor
    <3> HIDE DEF ks
    <3>. QED BY <1>2, <1>3, <1>6, FloorStays
  <2>7. Held(s) = Kept(disk[s].rows)
    BY DEF Held, Kept
  <2>. QED BY <2>2, <2>3, <2>4, <2>5, <2>6, <2>7
<1>. QED BY <1>7

(***************************************************************************)
(* The invariant holds at first and is kept by every step.                 *)
(***************************************************************************)

\* The invariant holds of what a start-up finds.
LEMMA InitBudget == Init => BudgetInv
<1> SUFFICES ASSUME Init PROVE BudgetInv
  OBVIOUS
<1>1. DiskExact
  <2>1. PICK d \in Disks : disk = [s \in Shards |-> Rebuilt(d[s])]
    BY DEF Init
  <2>2. d \in [Shards -> Rows]
    BY BudgetAssumption DEF Rows
  <2>3. \A s \in Shards : Exact(disk[s])
    BY <2>1, <2>2, RebuiltExact
  <2>4. \A s \in Shards : disk[s] \in Shard
    BY <2>3 DEF Exact
  <2>. QED BY <2>1, <2>3, <2>4 DEF DiskExact
<1>2. PICK S \in SUBSET Shards : /\ open = [s \in Shards |-> IF s \in S THEN "seen" ELSE "no"]
                                /\ clock = Seeded(S) /\ listed = [s \in Shards |-> {}]
  BY DEF Init
<1>3. /\ clock \in Nat /\ 0 < clock
      /\ \A s \in S : \A k \in Kept(disk[s].rows) : disk[s].rows[k].seq < clock
  BY <1>1, <1>2, SeedAhead
<1>4. mem = [s \in Shards |-> [k \in Keys |-> Cold]] /\ us = Quiet /\ plan \in Plans
      /\ db = [s \in Shards |-> Free] /\ ev = Asleep
  BY DEF Init
<1>5. BudgetTypes
  BY <1>2, <1>3, <1>4 DEF BudgetTypes, Stages, Recency, Pages, Cold, Quiet, Free
<1>6. ClockInv
  BY <1>2, <1>3, <1>4 DEF ClockInv, SeenBelow, RowsBelow, Below, Cold
<1>7. GuardInv /\ PassInv /\ SparesWarm
  BY <1>4 DEF GuardInv, PassInv, SparesWarm, Quiet, Asleep, Pass
<1>. QED BY <1>1, <1>5, <1>6, <1>7 DEF BudgetInv

\* A shard whose rows change under a request keeps exact accounts.
LEMMA OneShard ==
    ASSUME DiskExact, NEW s \in Shards, NEW d, Exact(d), disk' = [disk EXCEPT ![s] = d]
    PROVE  DiskExact'
<1>1. d \in Shard
  BY DEF Exact
<1>2. /\ disk' \in [Shards -> Shard]
      /\ \A r \in Shards : disk'[r] = IF r = s THEN d ELSE disk[r]
  BY <1>1 DEF DiskExact
<1>. QED BY <1>2 DEF DiskExact

\* What a request leaves behind: it ends, and the pass knows of it.
LEMMA ServedEnds ==
    ASSUME BudgetTypes, PassInv, us.i <= Len(plan), Served, Stirs, UNCHANGED plan
    PROVE  /\ us' \in [pc : {"ready", "decide", "remove"}, i : Nat \ {0}]
           /\ us'.pc = "ready"
           /\ plan' \in Plans
           /\ PassInv' /\ SparesWarm' /\ GuardInv'
<1>1. us'.pc = "ready" /\ us'.i = us.i + 1
  BY DEF Served
<1>2. us' \in [pc : {"ready", "decide", "remove"}, i : Nat \ {0}]
  BY DEF BudgetTypes, Served
<1>3. /\ DOMAIN ev' = DOMAIN ev /\ ev'.pc = ev.pc /\ ev'.s = ev.s /\ ev'.keys = ev.keys
      /\ ev'.todo = ev.todo /\ ev'.sel = FALSE
  BY DEF Stirs, PassInv
<1>4. PassInv'
  BY <1>3 DEF PassInv
<1>5. SparesWarm' /\ GuardInv'
  BY <1>1, <1>3 DEF SparesWarm, GuardInv, Pass
<1>. QED BY <1>1, <1>2, <1>4, <1>5 DEF BudgetTypes

\* The plan's length is a number, so a request being served is in it.
LEMMA PlanLength ==
    ASSUME BudgetTypes
    PROVE  Len(plan) \in Nat /\ (us.i \in 1..Len(plan) <=> us.i <= Len(plan))
<1> DEFINE R == [do : STRING, s : Shards, k : Keys, len : Nat \ {0}]
<1>1. plan \in Seq(R) /\ us.i \in Nat \ {0}
  BY BudgetAssumption DEF BudgetTypes
<1>2. Len(plan) \in Nat
  <2> HIDE DEF R
  <2>. QED BY <1>1
<1>. QED BY <1>1, <1>2

\* A request that is not over has told the pass all the same.
LEMMA StirsKeep ==
    ASSUME PassInv, us.pc = "ready", Stirs, UNCHANGED us
    PROVE  PassInv' /\ SparesWarm' /\ GuardInv'
<1>1. /\ DOMAIN ev' = DOMAIN ev /\ ev'.pc = ev.pc /\ ev'.s = ev.s /\ ev'.keys = ev.keys
      /\ ev'.todo = ev.todo /\ ev'.sel = FALSE
  BY DEF Stirs, PassInv
<1>. QED BY <1>1 DEF PassInv, SparesWarm, GuardInv, Pass

\* The rows and the memory are as far below a later clock.
LEMMA LaterClock ==
    ASSUME BudgetTypes, DiskExact, ClockInv, NEW c \in Nat, clock <= c
    PROVE  SeenBelow(c) /\ RowsBelow(c)
<1>1. clock \in Nat
  BY DEF BudgetTypes
<1>2. \A s \in Shards, k \in Keys : mem[s][k].last \in Nat
  BY DEF BudgetTypes, Recency
<1>3. \A s \in Shards : \A k \in Kept(disk[s].rows) : disk[s].rows[k].seq \in Nat
  BY DEF DiskExact, Shard, Rows, Kept
<1>4. SeenBelow(c)
  BY <1>1, <1>2 DEF ClockInv, SeenBelow
<1>5. RowsBelow(c)
  BY <1>1, <1>3 DEF ClockInv, RowsBelow, Below
<1>. QED BY <1>4, <1>5

\* A row written below the clock keeps the accounts and the rows' order.
LEMMA RowWritten ==
    ASSUME DiskExact, NEW c \in Nat, RowsBelow(c),
           NEW s \in Shards, NEW k \in Keys, NEW q \in Nat, q < c, NEW len \in Nat \ {0},
           disk' = [disk EXCEPT ![s] = write_pending_inserts(disk[s], k, q, len)],
           UNCHANGED <<open, listed>>
    PROVE  DiskExact' /\ RowsBelow(c)'
<1> DEFINE d == write_pending_inserts(disk[s], k, q, len)
<1>1. Exact(disk[s])
  BY DEF DiskExact
<1>2. Exact(d) /\ d.rows = [disk[s].rows EXCEPT ![k] = [seq |-> q, len |-> len]]
  BY <1>1, InsertExact
<1>3. disk' = [disk EXCEPT ![s] = d]
  OBVIOUS
<1> HIDE DEF d
<1>4. DiskExact'
  BY <1>2, <1>3, OneShard
<1>5. /\ \A r \in Shards \ {s} : disk'[r] = disk[r]
      /\ disk'[s] = d
  BY <1>3 DEF DiskExact
<1>6. disk[s].rows \in Rows
  BY DEF DiskExact, Shard
<1>7. d.rows[k].seq = q /\ \A j \in Keys \ {k} : d.rows[j] = disk[s].rows[j]
  BY <1>2, <1>6 DEF Rows
<1>8. ASSUME NEW r \in Shards, open[r] \in {"listed", "seen"}, NEW j \in Kept(disk'[r].rows)
      PROVE  Below(r, disk'[r].rows[j].seq, c)
  <2>1. CASE r # s
    BY <1>5, <1>8, <2>1 DEF RowsBelow, Below
  <2>2. CASE r = s /\ j = k
    BY <1>5, <1>7, <2>2 DEF Below
  <2>3. CASE r = s /\ j # k
    <3>1. j \in Kept(d.rows) /\ j \in Keys \ {k}
      BY <1>5, <1>8, <2>3 DEF Kept
    <3>2. d.rows[j] = disk[s].rows[j]
      BY <1>7, <3>1
    <3>3. j \in Kept(disk[s].rows)
      BY <3>1, <3>2 DEF Kept
    <3>. QED BY <1>5, <1>8, <2>3, <3>2, <3>3 DEF RowsBelow, Below
  <2>. QED BY <2>1, <2>2, <2>3
<1>. QED BY <1>4, <1>8 DEF RowsBelow, Below

\* Rows that are taken away leave the accounts exact and the others alone.
LEMMA RowsTaken ==
    ASSUME DiskExact, NEW c, RowsBelow(c), NEW s \in Shards, NEW d, Exact(d),
           \A k \in Kept(d.rows) : k \in Kept(disk[s].rows) /\ d.rows[k] = disk[s].rows[k],
           disk' = [disk EXCEPT ![s] = d] \/ UNCHANGED disk,
           UNCHANGED <<open, listed>>
    PROVE  DiskExact' /\ RowsBelow(c)'
<1>1. CASE UNCHANGED disk
  BY <1>1 DEF DiskExact, RowsBelow, Below
<1>2. CASE disk' = [disk EXCEPT ![s] = d]
  <2>1. DiskExact'
    BY <1>2, OneShard
  <2>2. /\ \A r \in Shards \ {s} : disk'[r] = disk[r]
        /\ disk'[s] = d
    BY <1>2 DEF DiskExact
  <2>. QED BY <2>1, <2>2 DEF RowsBelow, Below
<1>. QED BY <1>1, <1>2

\* One key of the memory layer changes.
LEMMA OneSeen ==
    ASSUME mem \in [Shards -> Recency], NEW c, SeenBelow(c),
           NEW s \in Shards, NEW k \in Keys, NEW v \in [last : Nat, pers : Nat],
           v.last < c, mem' = [mem EXCEPT ![s][k] = v]
    PROVE  mem' \in [Shards -> Recency] /\ SeenBelow(c)'
<1>1. /\ mem' \in [Shards -> Recency]
      /\ \A r \in Shards, j \in Keys : mem'[r][j] = IF r = s /\ j = k THEN v ELSE mem[r][j]
  BY DEF Recency
<1>. QED BY <1>1 DEF SeenBelow

\* Keys of the memory layer are forgotten.
LEMMA SomeForgotten ==
    ASSUME mem \in [Shards -> Recency], NEW c \in Nat, 0 < c, SeenBelow(c),
           NEW s \in Shards, NEW ks,
           mem' = [mem EXCEPT ![s] = [k \in Keys |-> IF k \in ks THEN Cold ELSE @[k]]]
    PROVE  mem' \in [Shards -> Recency] /\ SeenBelow(c)'
<1>1. Cold \in [last : Nat, pers : Nat] /\ Cold.last = 0
  BY DEF Cold
<1>2. \A r \in Shards, k \in Keys :
        mem'[r][k] = IF r = s /\ k \in ks THEN Cold ELSE mem[r][k]
  BY DEF Recency
<1>3. mem' \in [Shards -> Recency]
  BY <1>1 DEF Recency
<1>. QED BY <1>1, <1>2, <1>3 DEF SeenBelow

\* The clock is past zero wherever there is a key to look up.
LEMMA ClockStarted ==
    ASSUME BudgetTypes, ClockInv, NEW s \in Shards, NEW k \in Keys
    PROVE  0 < clock
<1>1. mem[s][k].last \in Nat /\ mem[s][k].last < clock /\ clock \in Nat
  BY DEF BudgetTypes, ClockInv, SeenBelow, Recency
<1>. QED BY <1>1

\* A measured entry takes the clock's sequence, and the clock moves past it.
LEMMA InsertKeeps ==
    ASSUME BudgetInv, Insert
    PROVE  BudgetInv'
<1> DEFINE s == Op.s
           k == Op.k
           len == Op.len
<1>0. BudgetTypes /\ DiskExact /\ ClockInv /\ PassInv
  BY DEF BudgetInv
<1>1. us.i <= Len(plan) /\ Served /\ Stirs
      /\ UNCHANGED <<open, listed, full, db, plan, restarts>> /\ clock' = clock + 1
  BY DEF Insert, Serving
<1>2. s \in Shards /\ k \in Keys /\ len \in Nat \ {0}
  BY <1>0, <1>1, OpTypes
<1>3. PICK c \in Nat : c = clock + 1
  BY <1>0 DEF BudgetTypes
<1>4. clock \in Nat /\ clock < c /\ mem \in [Shards -> Recency]
  BY <1>0, <1>3 DEF BudgetTypes
<1>5. SeenBelow(c) /\ RowsBelow(c)
  BY <1>0, <1>4, LaterClock
<1> HIDE DEF s, k, len
<1>6. mem' \in [Shards -> Recency] /\ SeenBelow(c)'
  <2>1. PICK v \in [last : Nat, pers : Nat] : v.last = clock /\ mem' = [mem EXCEPT ![s][k] = v]
    <3> DEFINE v == [last |-> clock, pers |-> IF Writable(s) THEN clock ELSE 0]
    <3>1. v \in [last : Nat, pers : Nat] /\ v.last = clock
      BY <1>4
    <3>2. mem' = [mem EXCEPT ![s][k] = v]
      BY DEF Insert, s, k
    <3>. QED BY <3>1, <3>2
  <2>. QED BY <1>2, <1>4, <1>5, <2>1, OneSeen
<1>7. DiskExact' /\ RowsBelow(c)'
  <2>1. CASE Writable(s)
    <3>1. disk' = [disk EXCEPT ![s] = write_pending_inserts(disk[s], k, clock, len)]
      BY <2>1 DEF Insert, s, k, len
    <3>. QED BY <1>0, <1>1, <1>2, <1>4, <1>5, <3>1, RowWritten
  <2>2. CASE ~Writable(s)
    BY <1>0, <1>1, <1>5, <2>2 DEF Insert, s, DiskExact, RowsBelow, Below
  <2>. QED BY <2>1, <2>2
<1>8. ClockInv'
  BY <1>1, <1>3, <1>6, <1>7 DEF ClockInv
<1>9. BudgetTypes'
  BY <1>0, <1>1, <1>3, <1>6, ServedEnds DEF BudgetTypes
<1>. QED BY <1>0, <1>1, <1>7, <1>8, <1>9, ServedEnds DEF BudgetInv

\* A hit observes the row it read and takes the sequence after it.
LEMMA HitKeeps ==
    ASSUME BudgetInv, Hit
    PROVE  BudgetInv'
<1> DEFINE s == Op.s
           k == Op.k
           row == disk[s].rows[k].seq
<1>0. BudgetTypes /\ DiskExact /\ ClockInv /\ PassInv
  BY DEF BudgetInv
<1>1. us.i <= Len(plan) /\ Served /\ Stirs
      /\ UNCHANGED <<disk, waste, open, listed, full, db, plan, restarts>>
  BY DEF Hit, Serving
<1>2. s \in Shards /\ k \in Keys
  BY <1>0, <1>1, OpTypes
<1>3. clock \in Nat /\ mem \in [Shards -> Recency] /\ mem[s][k] \in [last : Nat, pers : Nat]
  BY <1>0, <1>2 DEF BudgetTypes, Recency
<1>4. row \in Nat
  BY <1>0, <1>2 DEF DiskExact, Shard, Rows
<1>5. PICK q \in Nat : q = IF mem[s][k] = Cold THEN decode_cached_result(clock, row) ELSE clock
  <2> HIDE DEF row, s, k
  <2>. QED BY <1>3, <1>4 DEF decode_cached_result, observe
<1>6. clock <= q
  <2> HIDE DEF row, s, k
  <2>. QED BY <1>3, <1>4, <1>5 DEF decode_cached_result, observe
<1>7. CASE UNCHANGED <<mem, clock>>
  <2>1. ClockInv' /\ DiskExact'
    BY <1>0, <1>1, <1>7 DEF ClockInv, SeenBelow, RowsBelow, Below, DiskExact
  <2>2. BudgetTypes'
    BY <1>0, <1>1, <1>7, ServedEnds DEF BudgetTypes
  <2>. QED BY <1>0, <1>1, <2>1, <2>2, ServedEnds DEF BudgetInv
<1>8. CASE ~UNCHANGED <<mem, clock>>
  <2>1. /\ mem' = [mem EXCEPT ![s][k] = [last |-> q, pers |-> IF mem[s][k] = Cold THEN row ELSE mem[s][k].pers]]
        /\ clock' = q + 1
    BY <1>2, <1>3, <1>5, <1>8 DEF Hit, Recency
  <2>2. PICK c \in Nat : c = q + 1
    OBVIOUS
  <2>3. SeenBelow(c) /\ RowsBelow(c) /\ q < c
    BY <1>0, <1>3, <1>6, <2>2, LaterClock
  <2>4. PICK v \in [last : Nat, pers : Nat] : v.last = q /\ mem' = [mem EXCEPT ![s][k] = v]
    <3> DEFINE v == [last |-> q, pers |-> IF mem[s][k] = Cold THEN row ELSE mem[s][k].pers]
    <3>1. v \in [last : Nat, pers : Nat] /\ v.last = q
      <4> HIDE DEF row
      <4>. QED BY <1>3, <1>4
    <3>. QED BY <2>1, <3>1
  <2> HIDE DEF s, k, row
  <2>5. mem' \in [Shards -> Recency] /\ SeenBelow(c)'
    BY <1>2, <1>3, <2>3, <2>4, OneSeen
  <2>6. DiskExact' /\ RowsBelow(c)'
    BY <1>0, <1>1, <2>3 DEF DiskExact, RowsBelow, Below
  <2>7. ClockInv'
    BY <2>1, <2>2, <2>5, <2>6 DEF ClockInv
  <2>8. BudgetTypes'
    BY <1>0, <1>1, <2>1, <2>5, ServedEnds DEF BudgetTypes
  <2>. QED BY <1>0, <1>1, <2>6, <2>7, <2>8, ServedEnds DEF BudgetInv
<1>. QED BY <1>7, <1>8

\* A flush writes back the sequences memory holds, which the clock is past.
LEMMA PersistKeeps ==
    ASSUME BudgetInv, Persist
    PROVE  BudgetInv'
<1> DEFINE s == Op.s
<1>0. BudgetTypes /\ DiskExact /\ ClockInv /\ PassInv
  BY DEF BudgetInv
<1>1. us.i <= Len(plan) /\ us.pc = "ready" /\ Stirs
      /\ UNCHANGED <<clock, open, listed, full, db, plan, restarts>>
  BY DEF Persist, Serving
<1>2. s \in Shards /\ Op.len \in Nat \ {0}
  BY <1>0, <1>1, OpTypes
<1>3. clock \in Nat /\ mem \in [Shards -> Recency]
  BY <1>0 DEF BudgetTypes
<1>4. CASE Served /\ UNCHANGED <<disk, waste, mem>>
  <2>1. ClockInv' /\ DiskExact'
    BY <1>0, <1>1, <1>4 DEF ClockInv, SeenBelow, RowsBelow, Below, DiskExact
  <2>2. BudgetTypes'
    BY <1>0, <1>1, <1>4, ServedEnds DEF BudgetTypes
  <2>. QED BY <1>0, <1>1, <1>4, <2>1, <2>2, ServedEnds DEF BudgetInv
<1>5. CASE ~(Served /\ UNCHANGED <<disk, waste, mem>>)
  <2>1. PICK k \in Keys :
          /\ LET len == IF disk[s].rows[k].len = 0 THEN Op.len ELSE disk[s].rows[k].len
                 d == write_pending_inserts(disk[s], k, mem[s][k].last, len) IN
             disk' = [disk EXCEPT ![s] = d]
          /\ mem' = [mem EXCEPT ![s][k].pers = mem[s][k].last]
          /\ UNCHANGED us
    BY <1>5 DEF Persist
  <2>2. disk[s].rows[k].len \in Nat /\ mem[s][k] \in [last : Nat, pers : Nat]
    BY <1>0, <1>2, <1>3 DEF DiskExact, Shard, Rows, Recency
  <2>3. PICK len \in Nat \ {0} :
          disk' = [disk EXCEPT ![s] = write_pending_inserts(disk[s], k, mem[s][k].last, len)]
    <3> DEFINE len == IF disk[s].rows[k].len = 0 THEN Op.len ELSE disk[s].rows[k].len
    <3>1. len \in Nat \ {0}
      <4> HIDE DEF s
      <4>. QED BY <1>2, <2>2
    <3>2. disk' = [disk EXCEPT ![s] = write_pending_inserts(disk[s], k, mem[s][k].last, len)]
      BY <2>1
    <3> HIDE DEF len
    <3>. QED BY <3>1, <3>2
  <2>4. PICK c \in Nat : c = clock
    BY <1>3
  <2>5. PICK q \in Nat : q = mem[s][k].last
    BY <2>2
  <2>6. q < c /\ SeenBelow(c) /\ RowsBelow(c)
    BY <1>0, <1>2, <2>4, <2>5 DEF ClockInv, SeenBelow
  <2> HIDE DEF s
  <2>7. DiskExact' /\ RowsBelow(c)'
    BY <1>0, <1>1, <1>2, <2>3, <2>5, <2>6, RowWritten
  <2>8. mem' \in [Shards -> Recency] /\ SeenBelow(c)'
    <3>1. PICK v \in [last : Nat, pers : Nat] : v.last = q /\ v = [mem[s][k] EXCEPT !.pers = q]
      BY <2>2, <2>5
    <3>2. mem' = [mem EXCEPT ![s][k] = v]
      BY <1>2, <1>3, <2>1, <2>5, <3>1 DEF Recency
    <3>. QED BY <1>2, <1>3, <2>6, <3>1, <3>2, OneSeen
  <2>9. ClockInv'
    BY <1>1, <2>4, <2>7, <2>8 DEF ClockInv
  <2>10. BudgetTypes'
    BY <1>0, <1>1, <2>1, <2>8 DEF BudgetTypes
  <2>11. PassInv' /\ SparesWarm' /\ GuardInv'
    BY <1>0, <1>1, <2>1, StirsKeep
  <2>. QED BY <2>7, <2>9, <2>10, <2>11 DEF BudgetInv
<1>. QED BY <1>4, <1>5

\* The reader takes its guard.
LEMMA BeginReadKeeps ==
    ASSUME BudgetInv, BeginRead
    PROVE  BudgetInv'
<1>0. BudgetTypes /\ DiskExact /\ ClockInv /\ PassInv /\ SparesWarm
  BY DEF BudgetInv
<1>1. us.i <= Len(plan) /\ us' = [us EXCEPT !.pc = "decide"]
      /\ db' = [db EXCEPT ![Op.s].readers = @ \cup {"user"}]
      /\ UNCHANGED <<disk, waste, mem, clock, open, listed, full, ev, plan, restarts>>
  BY DEF BeginRead, Serving
<1>2. Op.s \in Shards
  BY <1>0, <1>1, OpTypes
<1>3. BudgetTypes'
  <2>1. db' \in [Shards -> Pages]
    BY <1>0, <1>1, <1>2 DEF BudgetTypes, Pages
  <2>2. /\ us' \in [pc : {"ready", "decide", "remove"}, i : Nat \ {0}]
        /\ us'.i = us.i
    BY <1>0, <1>1 DEF BudgetTypes
  <2>3. us.i \in 1..Len(plan)
    BY <1>0, <1>1, PlanLength DEF BudgetTypes
  <2>. QED BY <1>0, <1>1, <2>1, <2>2, <2>3 DEF BudgetTypes
<1>4. DiskExact' /\ ClockInv' /\ PassInv' /\ SparesWarm'
  BY <1>0, <1>1 DEF DiskExact, ClockInv, SeenBelow, RowsBelow, Below, PassInv, SparesWarm, Held, Pass
<1>5. GuardInv'
  BY <1>0, <1>1 DEF GuardInv, BudgetTypes
<1>. QED BY <1>3, <1>4, <1>5 DEF BudgetInv

\* The reader lets go of its guard before it asks to remove the row.
LEMMA DecideRefusalKeeps ==
    ASSUME BudgetInv, DecideRefusal
    PROVE  BudgetInv'
<1>0. BudgetTypes /\ DiskExact /\ ClockInv /\ PassInv /\ SparesWarm
  BY DEF BudgetInv
<1>1. us.pc = "decide" /\ us' = [us EXCEPT !.pc = "remove"]
      /\ db' = [db EXCEPT ![Op.s].readers = @ \ {"user"}]
      /\ UNCHANGED <<disk, waste, mem, clock, open, listed, full, ev, plan, restarts>>
  BY DEF DecideRefusal, ScopedGuard
<1>2. us.i \in 1..Len(plan)
  BY <1>0, <1>1 DEF BudgetTypes
<1>3. Op.s \in Shards
  BY <1>0, <1>2, PlanLength, OpTypes
<1>4. /\ us' \in [pc : {"ready", "decide", "remove"}, i : Nat \ {0}]
      /\ us'.i = us.i
  BY <1>0, <1>1 DEF BudgetTypes
<1>5. db' \in [Shards -> Pages] /\ "user" \notin db'[Op.s].readers
  BY <1>0, <1>1, <1>3 DEF BudgetTypes, Pages
<1>6. BudgetTypes'
  BY <1>0, <1>1, <1>2, <1>4, <1>5 DEF BudgetTypes
<1>7. DiskExact' /\ ClockInv' /\ PassInv' /\ SparesWarm'
  BY <1>0, <1>1 DEF DiskExact, ClockInv, SeenBelow, RowsBelow, Below, PassInv, SparesWarm, Held, Pass
<1>8. GuardInv'
  BY <1>1, <1>4, <1>5 DEF GuardInv, Op
<1>. QED BY <1>6, <1>7, <1>8 DEF BudgetInv

\* The refused row is taken away.
LEMMA RemoveRefusedKeeps ==
    ASSUME BudgetInv, RemoveRefused
    PROVE  BudgetInv'
<1> DEFINE s == Op.s
           d == maintain_removals(disk[s], {Op.k})
<1>0. BudgetTypes /\ DiskExact /\ ClockInv /\ PassInv
  BY DEF BudgetInv
<1>1. us.pc = "remove" /\ Served /\ Stirs
      /\ db' = [db EXCEPT ![s].readers = @ \ {"user"}]
      /\ UNCHANGED <<mem, clock, open, listed, full, plan, restarts>>
  BY DEF RemoveRefused
<1>2. us.i <= Len(plan)
  BY <1>0, <1>1, PlanLength DEF BudgetTypes
<1>3. s \in Shards /\ Op.k \in Keys
  BY <1>0, <1>2, OpTypes
<1>4. PICK c : c = clock
  OBVIOUS
<1>5. DiskExact' /\ RowsBelow(c)'
  <2>1. disk' = [disk EXCEPT ![s] = d] \/ UNCHANGED disk
    BY DEF RemoveRefused
  <2>2. Exact(disk[s]) /\ {Op.k} \in SUBSET Keys
    BY <1>0, <1>3 DEF DiskExact
  <2>3. /\ Exact(d)
        /\ \A k \in Kept(d.rows) : k \in Kept(disk[s].rows) /\ d.rows[k] = disk[s].rows[k]
    BY <2>2, RemovalExact
  <2>4. RowsBelow(c)
    BY <1>0, <1>4 DEF ClockInv
  <2> HIDE DEF d, s
  <2>. QED BY <1>0, <1>1, <1>3, <2>1, <2>3, <2>4, RowsTaken
<1>6. ClockInv'
  BY <1>0, <1>1, <1>4, <1>5 DEF ClockInv, SeenBelow
<1>7. db' \in [Shards -> Pages]
  BY <1>0, <1>1, <1>3 DEF BudgetTypes, Pages
<1>8. BudgetTypes'
  BY <1>0, <1>1, <1>2, <1>7, ServedEnds DEF BudgetTypes
<1>. QED BY <1>0, <1>1, <1>2, <1>5, <1>6, <1>8, ServedEnds DEF BudgetInv

\* An invalidation takes a key away, a clear all of them.
LEMMA ForgetKeeps ==
    ASSUME BudgetInv, Forget
    PROVE  BudgetInv'
<1> DEFINE s == Op.s
           ks == IF Op.do = "clear" THEN Keys ELSE {Op.k}
           d == IF Op.do = "clear" THEN Empty ELSE maintain_removals(disk[s], ks)
<1>0. BudgetTypes /\ DiskExact /\ ClockInv /\ PassInv
  BY DEF BudgetInv
<1>1. us.i <= Len(plan) /\ Served /\ Stirs
      /\ UNCHANGED <<clock, open, listed, full, db, plan, restarts>>
  BY DEF Forget, Serving
<1>2. s \in Shards /\ Op.k \in Keys
  BY <1>0, <1>1, OpTypes
<1>3. PICK c \in Nat : c = clock
  BY <1>0 DEF BudgetTypes
<1>4. SeenBelow(c) /\ RowsBelow(c) /\ mem \in [Shards -> Recency]
  BY <1>0, <1>3 DEF ClockInv, BudgetTypes
<1>5. DiskExact' /\ RowsBelow(c)'
  <2>1. disk' = [disk EXCEPT ![s] = d] \/ UNCHANGED disk
    BY DEF Forget
  <2>2. Exact(disk[s]) /\ ks \in SUBSET Keys
    BY <1>0, <1>2 DEF DiskExact
  <2>3. /\ Exact(d)
        /\ \A k \in Kept(d.rows) : k \in Kept(disk[s].rows) /\ d.rows[k] = disk[s].rows[k]
    <3>1. CASE Op.do = "clear"
      BY <3>1, EmptyExact
    <3>2. CASE Op.do # "clear"
      <4>1. d = maintain_removals(disk[s], ks)
        BY <3>2
      <4> HIDE DEF ks, d, s
      <4>. QED BY <2>2, <4>1, RemovalExact
    <3>. QED BY <3>1, <3>2
  <2> HIDE DEF d, s
  <2>. QED BY <1>0, <1>1, <1>2, <1>4, <2>1, <2>3, RowsTaken
<1>6. mem' \in [Shards -> Recency] /\ SeenBelow(c)'
  <2>1. mem' = [mem EXCEPT ![s] = [k \in Keys |-> IF k \in ks THEN Cold ELSE @[k]]]
    BY DEF Forget
  <2>2. 0 < c
    BY <1>0, <1>2, <1>3, ClockStarted
  <2> HIDE DEF s, ks
  <2>. QED BY <1>2, <1>4, <2>1, <2>2, SomeForgotten
<1>7. ClockInv'
  BY <1>1, <1>3, <1>5, <1>6 DEF ClockInv
<1>8. BudgetTypes'
  BY <1>0, <1>1, <1>6, ServedEnds DEF BudgetTypes
<1>. QED BY <1>0, <1>1, <1>5, <1>7, <1>8, ServedEnds DEF BudgetInv

\* What a step of the pass leaves alone when it moves no row: it may only
\* advance the clock and queue for or hold the write lock.
LEMMA PassFrame ==
    ASSUME BudgetInv, UNCHANGED <<disk, mem, open, listed, us, plan>>,
           clock' \in Nat, clock <= clock', db' \in [Shards -> Pages],
           \A s \in Shards : db'[s].readers = db[s].readers
    PROVE  BudgetTypes' /\ DiskExact' /\ ClockInv' /\ GuardInv'
<1>0. BudgetTypes /\ DiskExact /\ ClockInv /\ GuardInv
  BY DEF BudgetInv
<1>1. PICK c \in Nat : c = clock'
  OBVIOUS
<1>2. SeenBelow(c) /\ RowsBelow(c)
  BY <1>0, <1>1, LaterClock
<1>3. ClockInv' /\ DiskExact'
  BY <1>0, <1>1, <1>2 DEF ClockInv, SeenBelow, RowsBelow, Below, DiskExact
<1>4. BudgetTypes'
  BY <1>0 DEF BudgetTypes
<1>5. GuardInv'
  <2>1. us.pc = "remove" => Op.s \in Shards
    BY <1>0, PlanLength, OpTypes DEF BudgetTypes
  <2>. QED BY <1>0, <2>1 DEF GuardInv, Op
<1>. QED BY <1>3, <1>4, <1>5

\* A step of the pass that evicts nothing next: what it works on is a shard.
LEMMA PassMoves ==
    ASSUME {"pc", "s", "keys", "sel", "todo"} \subseteq DOMAIN ev',
           ev'.pc \in {"compact", "queued", "compacting"} => ev'.todo \in SUBSET Shards,
           ev'.pc \in {"after", "queued", "compacting"} => ev'.s \in Shards,
           ev'.pc # "evict"
    PROVE  PassInv' /\ SparesWarm'
BY DEF PassInv, SparesWarm, Pass

\* The pass begins within the budget, or takes the rollups.
LEMMA MaintenanceKeeps ==
    ASSUME BudgetInv, run_maintenance
    PROVE  BudgetInv'
<1>0. BudgetTypes /\ DiskExact /\ PassInv
  BY DEF BudgetInv
<1>1. UNCHANGED <<disk, mem, open, listed, us, plan, db>>
  BY DEF run_maintenance, Skips
<1>2. clock \in Nat /\ clock' \in Nat /\ clock <= clock' /\ db \in [Shards -> Pages]
  <2>1. clock \in Nat /\ db \in [Shards -> Pages]
    BY <1>0 DEF BudgetTypes
  <2>2. clock' = clock \/ clock' = ObserveAll(clock, {MaxSeq(s) : s \in Shards})
    BY DEF run_maintenance
  <2>. QED BY <1>0, <2>1, <2>2, PassObserves
<1>3. /\ DOMAIN ev' = DOMAIN ev
      /\ ev'.pc \in {"over", "pick"}
  BY <1>0 DEF run_maintenance, BeginEvict, PassInv
<1>4. PassInv' /\ SparesWarm'
  BY <1>0, <1>3, PassMoves DEF PassInv
<1>. QED BY <1>1, <1>2, <1>4, PassFrame DEF BudgetInv

\* The keys picked are cold, and past the floor.
LEMMA PickKeeps ==
    ASSUME BudgetInv, Pick
    PROVE  BudgetInv'
<1>0. BudgetTypes /\ DiskExact /\ PassInv
  BY DEF BudgetInv
<1>1. UNCHANGED <<disk, mem, open, listed, us, plan, db, clock>>
  BY DEF Pick, Skips
<1>2. clock \in Nat /\ clock <= clock /\ db \in [Shards -> Pages]
  BY <1>0 DEF BudgetTypes
<1>3. PassInv' /\ SparesWarm'
  <2>1. CASE ev'.pc # "evict"
    <3>1. DOMAIN ev' = DOMAIN ev /\ ev'.pc \in {"over", "compact", "pick"}
          /\ (ev'.pc = "compact" => ev'.todo = Shards)
      BY <1>0, <2>1 DEF Pick, PassInv, Pass
    <3>. QED BY <1>0, <2>1, <3>1, PassMoves DEF PassInv
  <2>2. CASE ev'.pc = "evict"
    <3>1. PICK s \in Shards :
            ev' = [ev EXCEPT !.pc = "evict", !.s = s, !.keys = lowest_seq_disk_keys(s),
                             !.sel = TRUE]
      <4>1. ~(ev.total <= ev.low \/ Victims = {})
        BY <1>0, <2>2 DEF Pick, PassInv
      <4>2. PICK s \in Victims :
              ev' = IF lowest_seq_disk_keys(s) = {} THEN [ev EXCEPT !.exhausted = @ \cup {s}]
                    ELSE [ev EXCEPT !.pc = "evict", !.s = s, !.keys = lowest_seq_disk_keys(s),
                                    !.sel = TRUE]
        BY <4>1 DEF Pick
      <4>3. lowest_seq_disk_keys(s) # {}
        BY <1>0, <2>2, <4>2 DEF PassInv, Pick, Pass
      <4>4. s \in Shards
        BY DEF Victims
      <4>. QED BY <4>2, <4>3, <4>4
    <3>2. /\ DOMAIN ev' = DOMAIN ev /\ ev'.s = s /\ ev'.keys = lowest_seq_disk_keys(s)
      BY <1>0, <3>1 DEF PassInv
    <3>3. /\ lowest_seq_disk_keys(s) \in SUBSET Keys
          /\ \A k \in lowest_seq_disk_keys(s) :
                 /\ mem[s][k].last <= disk[s].rows[k].seq
                 /\ Cardinality({j \in Held(s) \ lowest_seq_disk_keys(s) :
                       disk[s].rows[j].seq >= disk[s].rows[k].seq}) >= Floor
      BY <1>0, PickSpares
    <3>4. \A r : Held(r)' = Held(r)
      BY <1>1 DEF Held
    <3>. QED BY <1>0, <1>1, <2>2, <3>2, <3>3, <3>4 DEF PassInv, SparesWarm
  <2>. QED BY <2>1, <2>2
<1>. QED BY <1>1, <1>2, <1>3, PassFrame DEF BudgetInv

\* An eviction is a removal of the rows and of what memory knew of them.
LEMMA EvictKeeps ==
    ASSUME BudgetInv, evict_keys
    PROVE  BudgetInv'
<1> DEFINE s == ev.s
           d == maintain_removals(disk[s], ev.keys)
<1>0. BudgetTypes /\ DiskExact /\ ClockInv /\ PassInv /\ GuardInv
  BY DEF BudgetInv
<1>1. ev.pc = "evict" /\ UNCHANGED <<clock, open, listed, full, db, us, plan, restarts>>
  BY DEF evict_keys, Pass
<1>2. s \in Shards /\ ev.keys \in SUBSET Keys
  BY <1>0, <1>1 DEF PassInv
<1>3. PICK c \in Nat : c = clock
  BY <1>0 DEF BudgetTypes
<1>4. SeenBelow(c) /\ RowsBelow(c) /\ mem \in [Shards -> Recency]
  BY <1>0, <1>3 DEF ClockInv, BudgetTypes
<1>5. DiskExact' /\ RowsBelow(c)'
  <2>1. disk' = [disk EXCEPT ![s] = d] \/ UNCHANGED disk
    BY DEF evict_keys
  <2>2. Exact(disk[s])
    BY <1>0, <1>2 DEF DiskExact
  <2>3. /\ Exact(d)
        /\ \A k \in Kept(d.rows) : k \in Kept(disk[s].rows) /\ d.rows[k] = disk[s].rows[k]
    BY <1>2, <2>2, RemovalExact
  <2> HIDE DEF d, s
  <2>. QED BY <1>0, <1>1, <1>2, <1>4, <2>1, <2>3, RowsTaken
<1>6. mem' \in [Shards -> Recency] /\ SeenBelow(c)'
  <2>1. mem' = [mem EXCEPT ![s] = [k \in Keys |-> IF k \in ev.keys THEN Cold ELSE @[k]]]
    BY DEF evict_keys
  <2>2. CASE Keys = {}
    BY <1>2, <1>4, <2>1, <2>2 DEF Recency, SeenBelow
  <2>3. CASE Keys # {}
    <3>1. 0 < c
      BY <1>0, <1>2, <1>3, <2>3, ClockStarted
    <3> HIDE DEF s
    <3>. QED BY <1>2, <1>4, <2>1, <3>1, SomeForgotten
  <2>. QED BY <2>2, <2>3
<1>7. ClockInv'
  BY <1>1, <1>3, <1>5, <1>6 DEF ClockInv
<1>8. BudgetTypes'
  BY <1>0, <1>1, <1>6 DEF BudgetTypes
<1>9. GuardInv'
  BY <1>0, <1>1 DEF GuardInv, Op
<1>10. DOMAIN ev' = DOMAIN ev /\ ev'.pc = "after" /\ ev'.s = s
  BY <1>0 DEF evict_keys, PassInv
<1>11. PassInv' /\ SparesWarm'
  BY <1>0, <1>2, <1>10, PassMoves DEF PassInv
<1>. QED BY <1>5, <1>7, <1>8, <1>9, <1>11 DEF BudgetInv

\* The victim's rollup is taken again, and its mark observed.
LEMMA AfterEvictKeeps ==
    ASSUME BudgetInv, AfterEvict
    PROVE  BudgetInv'
<1>0. BudgetTypes /\ DiskExact /\ PassInv
  BY DEF BudgetInv
<1>1. UNCHANGED <<disk, mem, open, listed, us, plan, db>> /\ ev.s \in Shards
      /\ clock' = observe(clock, MaxSeq(ev.s))
  BY <1>0 DEF AfterEvict, Skips, PassInv, Pass
<1>2. MaxSeq(ev.s) \in Nat /\ clock \in Nat /\ db \in [Shards -> Pages]
  BY <1>0, <1>1 DEF MaxSeq, DiskExact, Shard, BudgetTypes
<1>3. clock' \in Nat /\ clock <= clock'
  BY <1>1, <1>2 DEF observe
<1>4. DOMAIN ev' = DOMAIN ev /\ ev'.pc = "pick"
  BY <1>0 DEF AfterEvict, PassInv
<1>5. PassInv' /\ SparesWarm'
  BY <1>0, <1>4, PassMoves DEF PassInv
<1>. QED BY <1>1, <1>2, <1>3, <1>5, PassFrame DEF BudgetInv

\* A compaction moves no row: it waits for, takes and gives back the lock.
LEMMA CompactionKeeps ==
    ASSUME BudgetInv, SkipCompaction \/ QueueCompaction \/ LockCompaction \/ Compact
                        \/ CompactAgain
    PROVE  BudgetInv'
<1>0. BudgetTypes /\ DiskExact /\ PassInv
  BY DEF BudgetInv
<1>1. UNCHANGED <<disk, mem, open, listed, us, plan, clock>>
  BY DEF SkipCompaction, QueueCompaction, LockCompaction, Compact, CompactAgain, Skips
<1>2. clock \in Nat /\ clock <= clock /\ db \in [Shards -> Pages]
  BY <1>0 DEF BudgetTypes
<1>3. SUFFICES /\ db' \in [Shards -> Pages] /\ \A s \in Shards : db'[s].readers = db[s].readers
               /\ DOMAIN ev' = DOMAIN ev /\ ev'.pc \in {"compact", "queued", "compacting"}
               /\ ev'.todo \in SUBSET Shards
               /\ ev'.pc # "compact" => ev'.s \in Shards
  <2>1. PassInv' /\ SparesWarm'
    BY <1>0, <1>3, PassMoves DEF PassInv
  <2>. QED BY <1>1, <1>2, <1>3, <2>1, PassFrame DEF BudgetInv
<1>4. CASE SkipCompaction \/ CompactAgain
  BY <1>0, <1>2, <1>4 DEF SkipCompaction, CompactAgain, Skips, PassInv, Pass
<1>5. CASE QueueCompaction
  <2>1. PICK s \in ev.todo : db' = [db EXCEPT ![s].queued = TRUE]
                            /\ ev' = [ev EXCEPT !.pc = "queued", !.s = s, !.todo = @ \ {s}]
    BY <1>5 DEF QueueCompaction
  <2>2. s \in Shards /\ ev.todo \in SUBSET Shards
    BY <1>0, <1>5 DEF QueueCompaction, Pass, PassInv
  <2>. QED BY <1>0, <1>2, <2>1, <2>2 DEF PassInv, Pages
<1>6. CASE LockCompaction
  <2>1. ev.s \in Shards /\ ev.todo \in SUBSET Shards /\ ev' = [ev EXCEPT !.pc = "compacting"]
        /\ db' = [db EXCEPT ![ev.s].queued = FALSE, ![ev.s].writer = TRUE]
    BY <1>0, <1>6 DEF LockCompaction, PassInv, Pass
  <2>. QED BY <1>0, <1>2, <2>1, ZenonT(60) DEF PassInv, Pages
<1>7. CASE Compact
  <2>1. ev.s \in Shards /\ ev.todo \in SUBSET Shards /\ ev' = [ev EXCEPT !.pc = "compact"]
        /\ db' = [db EXCEPT ![ev.s].writer = FALSE]
    BY <1>0, <1>7 DEF Compact, PassInv, Pass
  <2>. QED BY <1>0, <1>2, <2>1, ZenonT(60) DEF PassInv, Pages
<1>. QED BY <1>4, <1>5, <1>6, <1>7

\* The pass ends, or takes the rollups for another round.
LEMMA PhysicalPassKeeps ==
    ASSUME BudgetInv, PhysicalPass
    PROVE  BudgetInv'
<1>0. BudgetTypes /\ DiskExact /\ PassInv
  BY DEF BudgetInv
<1>1. UNCHANGED <<disk, mem, open, listed, us, plan, db>>
  BY DEF PhysicalPass, Skips
<1>2. clock \in Nat /\ clock' \in Nat /\ clock <= clock' /\ db \in [Shards -> Pages]
  <2>1. clock \in Nat /\ db \in [Shards -> Pages]
    BY <1>0 DEF BudgetTypes
  <2>2. clock' = clock \/ clock' = ObserveAll(clock, {MaxSeq(s) : s \in Shards})
    BY DEF PhysicalPass
  <2>. QED BY <1>0, <2>1, <2>2, PassObserves
<1>3. DOMAIN ev' = DOMAIN ev /\ ev'.pc \in {"over", "pick"}
  BY <1>0 DEF PhysicalPass, BeginEvict, PassInv
<1>4. PassInv' /\ SparesWarm'
  BY <1>0, <1>3, PassMoves DEF PassInv
<1>. QED BY <1>1, <1>2, <1>4, PassFrame DEF BudgetInv

\* A restart forgets memory, and seeds the clock from every shard's mark.
LEMMA RestartKeeps ==
    ASSUME BudgetInv, Restart
    PROVE  BudgetInv'
<1>0. BudgetTypes /\ DiskExact
  BY DEF BudgetInv
<1>1. /\ mem' = [s \in Shards |-> [k \in Keys |-> Cold]] /\ open' = [s \in Shards |-> "seen"]
      /\ listed' = [s \in Shards |-> {}]
      /\ clock' = Seeded(Shards) /\ db' = [s \in Shards |-> Free]
      /\ ev' = Asleep /\ us' = [us EXCEPT !.pc = "ready"] /\ UNCHANGED <<disk, plan>>
  BY DEF Restart
<1>2. /\ clock' \in Nat /\ 0 < clock'
      /\ \A s \in Shards : \A k \in Kept(disk[s].rows) : disk[s].rows[k].seq < clock'
  <2>1. Shards \in SUBSET Shards
    OBVIOUS
  <2>. QED BY <1>0, <1>1, <2>1, SeedAhead
<1>3. us' \in [pc : {"ready", "decide", "remove"}, i : Nat \ {0}] /\ us'.pc = "ready"
  BY <1>0, <1>1 DEF BudgetTypes
<1>4. BudgetTypes'
  BY <1>0, <1>1, <1>2, <1>3 DEF BudgetTypes, Stages, Recency, Pages, Cold, Free
<1>5. DiskExact' /\ ClockInv'
  BY <1>0, <1>1, <1>2 DEF DiskExact, ClockInv, SeenBelow, RowsBelow, Below, Cold
<1>6. GuardInv' /\ PassInv' /\ SparesWarm'
  BY <1>1, <1>3 DEF GuardInv, PassInv, SparesWarm, Asleep, Pass
<1>. QED BY <1>4, <1>5, <1>6 DEF BudgetInv

\* No row of a shard is newer than the newest of its most recent ones.
LEMMA RecentLeads ==
    ASSUME BudgetTypes, DiskExact, NEW s \in Shards
    PROVE  /\ Recent(s) \subseteq Kept(disk[s].rows)
           /\ \A k \in Kept(disk[s].rows) :
                 \E j \in Recent(s) : disk[s].rows[k].seq <= disk[s].rows[j].seq
<1> DEFINE K == Kept(disk[s].rows)
           R == Recent(s)
<1>1. disk[s].rows \in Rows /\ IsFiniteSet(K) /\ Held(s) = K
  <2>1. disk[s].rows \in Rows
    BY DEF DiskExact, Shard
  <2>. QED BY <2>1, AccountTypes DEF Held, Kept
<1>2. \A k \in K : disk[s].rows[k].seq \in Nat
  BY <1>1 DEF Rows, Kept
<1>3. R \subseteq K
  BY <1>1 DEF Recent
<1>4. ASSUME K # {}
      PROVE  \E j \in R : \A k \in K : disk[s].rows[k].seq <= disk[s].rows[j].seq
  <2> DEFINE A == {disk[s].rows[k].seq : k \in K}
  <2>1. IsFiniteSet(A) /\ A # {} /\ A \subseteq Int
    <3>1. [k \in K |-> disk[s].rows[k].seq] \in Surjection(K, A)
      BY DEF Surjection
    <3>2. A # {} /\ A \subseteq Int
      BY <1>2, <1>4
    <3> HIDE DEF A, K
    <3>. QED BY <1>1, <3>1, <3>2, FS_Surjection
  <2>2. Max(A) \in A /\ \A y \in A : y <= Max(A)
    <3> HIDE DEF A
    <3>. QED BY <2>1, MaxIn
  <2>3. PICK top \in K : \A k \in K : disk[s].rows[k].seq <= disk[s].rows[top].seq
    BY <2>2
  <2>4. {j \in Held(s) : disk[s].rows[j].seq > disk[s].rows[top].seq} = {}
    BY <1>1, <1>2, <2>3
  <2>5. top \in R
    <3>1. Cardinality({}) = 0 /\ 0 < Preloaded
      BY FS_EmptySet, BudgetAssumption
    <3>. QED BY <1>1, <2>3, <2>4, <3>1 DEF Recent
  <2>. QED BY <2>3, <2>5
<1> HIDE DEF K, R
<1>5. \A k \in K : \E j \in R : disk[s].rows[k].seq <= disk[s].rows[j].seq
  BY <1>4
<1>. QED BY <1>3, <1>5 DEF K, R

\* A step of the thread that attaches a shard leaves the request alone.
LEMMA AttachFrame ==
    ASSUME BudgetInv, NEW s, NEW stage, Attaching(s, stage), UNCHANGED <<db, us, plan>>
    PROVE  PassInv' /\ SparesWarm' /\ GuardInv'
<1>1. PassInv /\ GuardInv /\ Stirs
  BY DEF BudgetInv, Attaching
<1>2. /\ DOMAIN ev' = DOMAIN ev /\ ev'.pc = ev.pc /\ ev'.s = ev.s /\ ev'.keys = ev.keys
      /\ ev'.todo = ev.todo /\ ev'.sel = FALSE
  BY <1>1 DEF Stirs, PassInv
<1>3. GuardInv'
  BY <1>1 DEF GuardInv, Op
<1>. QED BY <1>1, <1>2, <1>3 DEF PassInv, SparesWarm

\* A database that could not be read at start-up is published.
LEMMA PublishKeeps ==
    ASSUME BudgetInv, NEW s \in Shards, Publish(s)
    PROVE  BudgetInv'
<1>0. BudgetTypes /\ DiskExact /\ ClockInv
  BY DEF BudgetInv
<1>1. /\ open' = [open EXCEPT ![s] = "published"]
      /\ UNCHANGED <<disk, mem, clock, listed, db, us, plan>>
  BY DEF Publish
<1>2. open' \in [Shards -> Stages] /\ \A r \in Shards \ {s} : open'[r] = open[r]
  BY <1>0, <1>1 DEF BudgetTypes, Stages
<1>3. open'[s] = "published"
  BY <1>0, <1>1 DEF BudgetTypes
<1>4. BudgetTypes'
  BY <1>0, <1>1, <1>2 DEF BudgetTypes
<1>5. DiskExact' /\ SeenBelow(clock)'
  BY <1>0, <1>1 DEF DiskExact, ClockInv, SeenBelow
<1>6. RowsBelow(clock)'
  BY <1>0, <1>1, <1>2, <1>3 DEF ClockInv, RowsBelow, Below
<1>7. PassInv' /\ SparesWarm' /\ GuardInv'
  BY <1>1, AttachFrame DEF Publish
<1>. QED BY <1>4, <1>5, <1>6, <1>7 DEF BudgetInv, ClockInv

\* What was measured without a database is written to it.
LEMMA WriteBackKeeps ==
    ASSUME BudgetInv, NEW s \in Shards, WriteBack(s)
    PROVE  BudgetInv'
<1>0. BudgetTypes /\ DiskExact /\ ClockInv
  BY DEF BudgetInv
<1>1. UNCHANGED <<clock, open, listed, full, db, us, plan, restarts>>
  BY DEF WriteBack
<1>2. PICK k \in Keys, i \in DOMAIN plan :
        /\ disk' = [disk EXCEPT ![s] = write_pending_inserts(disk[s], k, mem[s][k].last, plan[i].len)]
        /\ mem' = [mem EXCEPT ![s][k].pers = mem[s][k].last]
  BY DEF WriteBack, Waiting
<1>3. PICK len \in Nat \ {0} : len = plan[i].len
  <2> DEFINE P == [do : STRING, s : Shards, k : Keys, len : Nat \ {0}]
  <2>1. plan \in Seq(P)
    BY <1>0, BudgetAssumption DEF BudgetTypes
  <2>2. plan[i] \in P
    <3> HIDE DEF P
    <3>. QED BY <1>2, <2>1
  <2>. QED BY <2>2
<1>4. PICK c \in Nat : c = clock
  BY <1>0 DEF BudgetTypes
<1>5. mem \in [Shards -> Recency] /\ mem[s][k] \in [last : Nat, pers : Nat]
  BY <1>0, <1>2 DEF BudgetTypes, Recency
<1>6. PICK q \in Nat : q = mem[s][k].last
  BY <1>5
<1>7. q < c /\ SeenBelow(c) /\ RowsBelow(c)
  BY <1>0, <1>4, <1>6 DEF ClockInv, SeenBelow
<1>8. disk' = [disk EXCEPT ![s] = write_pending_inserts(disk[s], k, q, len)]
  BY <1>2, <1>3, <1>6
<1>9. DiskExact' /\ RowsBelow(c)'
  BY <1>0, <1>1, <1>7, <1>8, RowWritten
<1>10. mem' \in [Shards -> Recency] /\ SeenBelow(c)'
  <2>1. PICK v \in [last : Nat, pers : Nat] : v.last = q /\ v = [mem[s][k] EXCEPT !.pers = q]
    BY <1>5, <1>6
  <2>2. mem' = [mem EXCEPT ![s][k] = v]
    BY <1>2, <1>5, <1>6, <2>1 DEF Recency
  <2>. QED BY <1>5, <1>7, <2>1, <2>2, OneSeen
<1>11. ClockInv'
  BY <1>1, <1>4, <1>9, <1>10 DEF ClockInv
<1>12. BudgetTypes'
  BY <1>0, <1>1, <1>10 DEF BudgetTypes
<1>13. PassInv' /\ SparesWarm' /\ GuardInv'
  BY <1>1, AttachFrame DEF WriteBack
<1>. QED BY <1>9, <1>11, <1>12, <1>13 DEF BudgetInv

\* The most recent rows are listed: no other row is newer than all of them.
LEMMA ListKeeps ==
    ASSUME BudgetInv, NEW s \in Shards, recent_keys(s)
    PROVE  BudgetInv'
<1>0. BudgetTypes /\ DiskExact /\ ClockInv
  BY DEF BudgetInv
<1> DEFINE L == {<<disk[s].rows[k].seq, k>> : k \in Recent(s)}
<1>1. /\ open' = [open EXCEPT ![s] = "listed"] /\ listed' = [listed EXCEPT ![s] = L]
      /\ UNCHANGED <<disk, mem, clock, db, us, plan>>
  BY DEF recent_keys
<1>2. /\ Recent(s) \subseteq Kept(disk[s].rows)
      /\ \A k \in Kept(disk[s].rows) :
            \E j \in Recent(s) : disk[s].rows[k].seq <= disk[s].rows[j].seq
  BY <1>0, RecentLeads
<1>3. disk[s].rows \in Rows
  BY <1>0 DEF DiskExact, Shard
<1>4. L \in SUBSET (Nat \X Keys)
  BY <1>2, <1>3 DEF Kept, Rows
<1>5. \A k \in Kept(disk[s].rows) : \E e \in L : disk[s].rows[k].seq <= e[1]
  <2>1. ASSUME NEW k \in Kept(disk[s].rows)
        PROVE  \E e \in L : disk[s].rows[k].seq <= e[1]
    <3>1. PICK j \in Recent(s) : disk[s].rows[k].seq <= disk[s].rows[j].seq
      BY <1>2
    <3>2. <<disk[s].rows[j].seq, j>> \in L
      OBVIOUS
    <3> HIDE DEF L
    <3>. QED BY <3>1, <3>2
  <2>. QED BY <2>1
<1> HIDE DEF L
<1>6. /\ open' \in [Shards -> Stages] /\ listed' \in [Shards -> SUBSET (Nat \X Keys)]
      /\ \A r \in Shards \ {s} : open'[r] = open[r] /\ listed'[r] = listed[r]
      /\ open'[s] = "listed" /\ listed'[s] = L
  BY <1>0, <1>1, <1>4 DEF BudgetTypes, Stages
<1>7. BudgetTypes'
  BY <1>0, <1>1, <1>6 DEF BudgetTypes
<1>8. DiskExact' /\ SeenBelow(clock)'
  BY <1>0, <1>1 DEF DiskExact, ClockInv, SeenBelow
<1>9. RowsBelow(clock)'
  <2>1. ASSUME NEW r \in Shards, open'[r] \in {"listed", "seen"}, NEW k \in Kept(disk[r].rows)
        PROVE  Below(r, disk[r].rows[k].seq, clock)'
    <3>1. CASE r = s
      BY <1>1, <1>5, <1>6, <3>1 DEF Below
    <3>2. CASE r # s
      BY <1>0, <1>1, <1>6, <2>1, <3>2 DEF ClockInv, RowsBelow, Below
    <3>. QED BY <3>1, <3>2
  <2>. QED BY <1>1, <2>1 DEF RowsBelow, Below
<1>10. PassInv' /\ SparesWarm' /\ GuardInv'
  BY <1>1, AttachFrame DEF recent_keys
<1>. QED BY <1>7, <1>8, <1>9, <1>10 DEF BudgetInv, ClockInv

\* What load_recent decodes is observed.
LEMMA DecodedObserved ==
    ASSUME BudgetTypes, DiskExact, NEW s \in Shards, NEW R \in SUBSET Kept(disk[s].rows)
    PROVE  LET m == Max({clock} \cup {decode_cached_result(clock, disk[s].rows[k].seq) : k \in R})
           IN  m \in Nat /\ clock <= m /\ \A k \in R : disk[s].rows[k].seq < m
<1> DEFINE K == Kept(disk[s].rows)
           Q == {disk[s].rows[k].seq : k \in R}
           m == Max({clock} \cup {observe(clock, q) : q \in Q})
<1>1. disk[s].rows \in Rows /\ IsFiniteSet(K) /\ clock \in Nat
  <2>1. disk[s].rows \in Rows
    BY DEF DiskExact, Shard
  <2>. QED BY <2>1, AccountTypes DEF BudgetTypes
<1>2. \A k \in K : disk[s].rows[k].seq \in Nat
  BY <1>1 DEF Rows, Kept
<1>4. IsFiniteSet(Q) /\ Q \subseteq Nat
  <2>1. IsFiniteSet(R)
    <3> HIDE DEF K
    <3>. QED BY <1>1, FS_Subset DEF K
  <2>2. [k \in R |-> disk[s].rows[k].seq] \in Surjection(R, Q)
    BY DEF Surjection
  <2>3. Q \subseteq Nat
    BY <1>2
  <2> HIDE DEF Q
  <2>. QED BY <2>1, <2>2, <2>3, FS_Surjection
<1>5. m \in Nat /\ clock <= m /\ \A q \in Q : q < m
  <2> HIDE DEF Q
  <2>. QED BY <1>1, <1>4, ObservesAll
<1>6. {decode_cached_result(clock, disk[s].rows[k].seq) : k \in R} = {observe(clock, q) : q \in Q}
  BY DEF decode_cached_result
<1> HIDE DEF m
<1>7. \A k \in R : disk[s].rows[k].seq < m
  BY <1>5
<1>8. m = Max({clock} \cup {decode_cached_result(clock, disk[s].rows[k].seq) : k \in R})
  BY <1>6 DEF m
<1>. QED BY <1>5, <1>7, <1>8

\* The listed rows are read: with all of them as they were listed, every row is
\* observed.
LEMMA LoadKeeps ==
    ASSUME BudgetInv, NEW s \in Shards, load_recent(s)
    PROVE  BudgetInv'
<1>0. BudgetTypes /\ DiskExact /\ ClockInv
  BY DEF BudgetInv
<1> DEFINE U == {e \in listed[s] : e[2] \in Held(s) /\ disk[s].rows[e[2]].seq = e[1]}
           KS == {e[2] : e \in listed[s]} \cap Held(s)
           R == KS \ Waiting(s)
           m == Max({clock} \cup {decode_cached_result(clock, disk[s].rows[k].seq) : k \in R})
           stage == IF U = listed[s] /\ R = KS THEN "seen" ELSE "blind"
<1>1. /\ open[s] = "listed" /\ open' = [open EXCEPT ![s] = stage]
      /\ listed' = [listed EXCEPT ![s] = {}] /\ clock' = m
      /\ mem' = [mem EXCEPT ![s] = [k \in Keys |->
            IF k \in R /\ mem[s][k] = Cold
            THEN [last |-> disk[s].rows[k].seq, pers |-> disk[s].rows[k].seq]
            ELSE mem[s][k]]]
      /\ UNCHANGED <<disk, db, us, plan>>
  BY DEF load_recent, Attaching
<1>2. R \in SUBSET Kept(disk[s].rows) /\ Held(s) = Kept(disk[s].rows)
  BY DEF Held, Kept
<1>3. PICK c \in Nat : c = m /\ clock <= c /\ \A k \in R : disk[s].rows[k].seq < c
  <2> HIDE DEF R
  <2>. QED BY <1>0, <1>2, DecodedObserved
<1>4. ASSUME stage = "seen", NEW k \in Kept(disk[s].rows)
      PROVE  disk[s].rows[k].seq < c
  <2>1. U = listed[s] /\ R = KS
    BY <1>4
  <2>2. Below(s, disk[s].rows[k].seq, clock)
    BY <1>0, <1>1 DEF ClockInv, RowsBelow
  <2>3. disk[s].rows[k].seq \in Nat /\ clock \in Nat
    BY <1>0 DEF DiskExact, Shard, Rows, Kept, BudgetTypes
  <2>4. CASE disk[s].rows[k].seq < clock
    <3> HIDE DEF m
    <3>. QED BY <1>3, <2>3, <2>4
  <2>5. CASE \E e \in listed[s] : disk[s].rows[k].seq <= e[1]
    <3>1. PICK e \in listed[s] : disk[s].rows[k].seq <= e[1]
      BY <2>5
    <3>2. e \in U
      BY <2>1
    <3>3. e[2] \in KS /\ disk[s].rows[e[2]].seq = e[1]
      BY <3>1, <3>2
    <3>4. e[1] < c
      <4> HIDE DEF R, KS, m
      <4>. QED BY <1>3, <2>1, <3>3
    <3>5. e[1] \in Nat
      BY <1>0, <3>1 DEF BudgetTypes
    <3> HIDE DEF R, KS, m
    <3>. QED BY <2>3, <3>1, <3>4, <3>5
  <2>. QED BY <2>2, <2>4, <2>5 DEF Below
<1>5. stage \in {"seen", "blind"}
  OBVIOUS
<1> HIDE DEF m, R, stage
<1>6. SeenBelow(c) /\ RowsBelow(c)
  BY <1>0, <1>3, LaterClock
<1>7. disk[s].rows \in Rows /\ mem \in [Shards -> Recency] /\ R \subseteq Keys
  BY <1>0, <1>2 DEF DiskExact, Shard, BudgetTypes, Kept
<1>8. mem' \in [Shards -> Recency]
  BY <1>1, <1>7 DEF Recency, Rows
<1>9. SeenBelow(c)'
  <2>1. ASSUME NEW r \in Shards, NEW k \in Keys
        PROVE  mem'[r][k].last < c
    <3>1. CASE r = s /\ k \in R /\ mem[s][k] = Cold
      BY <1>1, <1>3, <1>7, <3>1
    <3>2. CASE ~(r = s /\ k \in R /\ mem[s][k] = Cold)
      <4>1. mem'[r][k] = mem[r][k]
        BY <1>1, <1>7, <3>2
      <4>. QED BY <1>6, <4>1 DEF SeenBelow
    <3>. QED BY <3>1, <3>2
  <2>. QED BY <2>1 DEF SeenBelow
<1>10. /\ open' \in [Shards -> Stages] /\ listed' \in [Shards -> SUBSET (Nat \X Keys)]
       /\ \A r \in Shards \ {s} : open'[r] = open[r] /\ listed'[r] = listed[r]
       /\ open'[s] = stage
  BY <1>0, <1>1, <1>5 DEF BudgetTypes, Stages
<1>11. RowsBelow(c)'
  <2>1. ASSUME NEW r \in Shards, open'[r] \in {"listed", "seen"}, NEW k \in Kept(disk[r].rows)
        PROVE  Below(r, disk[r].rows[k].seq, c)'
    <3>1. CASE r = s
      BY <1>1, <1>4, <1>5, <1>10, <2>1, <3>1 DEF Below
    <3>2. CASE r # s
      BY <1>1, <1>6, <1>10, <2>1, <3>2 DEF RowsBelow, Below
    <3>. QED BY <3>1, <3>2
  <2>. QED BY <1>1, <2>1 DEF RowsBelow, Below
<1>12. ClockInv' /\ DiskExact'
  BY <1>0, <1>1, <1>3, <1>9, <1>11 DEF ClockInv, DiskExact
<1>13. BudgetTypes'
  BY <1>0, <1>1, <1>3, <1>8, <1>10 DEF BudgetTypes
<1>14. PassInv' /\ SparesWarm' /\ GuardInv'
  BY <1>1, AttachFrame DEF load_recent
<1>. QED BY <1>12, <1>13, <1>14 DEF BudgetInv

\* Every step keeps the invariant.
LEMMA NextBudget == BudgetInv /\ [Next]_vars => BudgetInv'
<1> SUFFICES ASSUME BudgetInv, [Next]_vars PROVE BudgetInv'
  OBVIOUS
<1>1. CASE Maintain
  BY <1>1, MaintenanceKeeps, PickKeeps, EvictKeeps, AfterEvictKeeps, CompactionKeeps,
     PhysicalPassKeeps DEF Maintain
<1>2. CASE Request
  BY <1>2, InsertKeeps, HitKeeps, PersistKeeps, BeginReadKeeps, DecideRefusalKeeps,
     RemoveRefusedKeeps, ForgetKeeps DEF Request
<1>3. CASE Restart
  BY <1>3, RestartKeeps
<1>4. CASE reopen_disk
  BY <1>4, PublishKeeps, WriteBackKeeps, ListKeeps, LoadKeeps DEF reopen_disk
<1>5. CASE UNCHANGED vars
  <2>1. BudgetTypes'
    BY <1>5 DEF BudgetInv, BudgetTypes, vars
  <2>2. DiskExact' /\ ClockInv'
    BY <1>5 DEF BudgetInv, DiskExact, ClockInv, SeenBelow, RowsBelow, Below, vars
  <2>3. GuardInv' /\ PassInv' /\ SparesWarm'
    BY <1>5 DEF BudgetInv, GuardInv, PassInv, SparesWarm, Pass, Held, Op, vars
  <2>. QED BY <2>1, <2>2, <2>3 DEF BudgetInv
<1>. QED BY <1>1, <1>2, <1>3, <1>4, <1>5 DEF Next, Done

\* The invariant holds of every behaviour.
LEMMA BudgetInvariant == Spec => []BudgetInv
BY InitBudget, NextBudget, PTL DEF Spec

\* However a shard's rows come and go, its byte, row and index accounts stay
\* those a scan of its rows would give (write_pending_inserts,
\* maintain_removals).
THEOREM AccountsStayExact == Spec => []AccountsExact
<1>1. BudgetInv => AccountsExact
  BY ExactIsScan DEF BudgetInv, DiskExact, AccountsExact
<1>. QED BY <1>1, BudgetInvariant, PTL

\* The next access sorts newer than every row of a database whose rows were
\* observed, over restarts, promotions and flushes, and over late attachments
\* once load_recent has read what it listed (recency.rs, reopen_disk).
THEOREM ClockStaysAhead == Spec => []ClockAhead
<1>1. BudgetInv => ClockAhead
  BY DEF BudgetInv, ClockInv, RowsBelow, Below, ClockAhead, Held, Kept
<1>. QED BY <1>1, BudgetInvariant, PTL

\* A row that is evicted was not used since it was written, and Floor rows
\* no older than it stay in its shard, unless a request slipped in after the
\* selection (lowest_seq_disk_keys).
THEOREM EvictsOnlyCold == Spec => []SparesWarm
<1>1. BudgetInv => SparesWarm
  BY DEF BudgetInv
<1>. QED BY <1>1, BudgetInvariant, PTL

\* The reader that removes a refused row never holds the lock it waits for
\* (read_committed).
THEOREM ReaderLetsGo == Spec => []NeverWaitsForItself
<1>1. BudgetInv => NeverWaitsForItself
  BY DEF BudgetInv, GuardInv, NeverWaitsForItself
<1>. QED BY <1>1, BudgetInvariant, PTL
=============================================================================
