----------------------------- MODULE CacheProofs -----------------------------
(***************************************************************************)
(* Proofs about the two halves of crates/ctxfs-cache: BlobCache for every  *)
(* set of blobs, repos, sizes and limits, then BlobFiles for every set of  *)
(* blobs and threads, however stored.  The halves share no state.          *)
(***************************************************************************)
EXTENDS BlobCache, BlobFiles, FiniteSetTheorems, SequenceTheorems, TLAPS

-----------------------------------------------------------------------------
(* Sums of byte counts.                                                    *)

Slots(f, S) == UNION {{x} \X (1..f[x]) : x \in S}

\* A sum of naturals over a finite set is a natural: working sets, reserved
\* totals and total_bytes are numbers of bytes.
LEMMA BytesType ==
    ASSUME NEW f, NEW S, IsFiniteSet(S), \A x \in S : f[x] \in Nat
    PROVE  /\ IsFiniteSet(Slots(f, S))
           /\ Bytes(f, S) \in Nat
<1> DEFINE col == [x \in S |-> {x} \X (1..f[x])]
           Cols == {{x} \X (1..f[x]) : x \in S}
<1>1. col \in Surjection(S, Cols)
  BY DEF Surjection
<1>2. IsFiniteSet(Cols)
  <2> HIDE DEF col, Cols
  <2> QED BY <1>1, FS_Surjection
<1>3. \A T \in Cols : IsFiniteSet(T)
  <2> SUFFICES ASSUME NEW x \in S PROVE IsFiniteSet({x} \X (1..f[x]))
    OBVIOUS
  <2>1. f[x] \in Int OBVIOUS
  <2>2. IsFiniteSet(1..f[x]) BY <2>1, FS_Interval
  <2>3. IsFiniteSet({x}) BY FS_Singleton
  <2> QED BY <2>2, <2>3, FS_Product
<1>4. IsFiniteSet(UNION Cols)
  <2> HIDE DEF Cols
  <2> QED BY <1>2, <1>3, FS_UNION
<1>5. IsFiniteSet(Slots(f, S)) BY <1>4 DEF Slots
<1> QED BY <1>5, FS_CardinalityType DEF Bytes, Slots

\* A sum depends only on the values it adds.
LEMMA BytesCongruence ==
    ASSUME NEW f, NEW g, NEW S, \A x \in S : f[x] = g[x]
    PROVE  Bytes(f, S) = Bytes(g, S)
<1>1. {{x} \X (1..f[x]) : x \in S} = {{x} \X (1..g[x]) : x \in S}
  OBVIOUS
<1> QED BY <1>1 DEF Bytes

\* Adding one element adds its bytes.
LEMMA BytesAdd ==
    ASSUME NEW f, NEW S, NEW y, IsFiniteSet(S), y \notin S,
           \A x \in S \cup {y} : f[x] \in Nat
    PROVE  Bytes(f, S \cup {y}) = Bytes(f, S) + f[y]
<1> DEFINE C == {y} \X (1..f[y])
<1>1. Slots(f, S \cup {y}) = Slots(f, S) \cup C
  BY DEF Slots
<1>2. Slots(f, S) \cap C = {}
  <2> SUFFICES ASSUME NEW p \in Slots(f, S), p \in C PROVE FALSE
    OBVIOUS
  <2>1. PICK x \in S : p \in {x} \X (1..f[x])
    BY DEF Slots
  <2>2. p[1] = x /\ p[1] = y
    BY <2>1
  <2> QED BY <2>2
<1>3. IsFiniteSet(Slots(f, S)) /\ Cardinality(Slots(f, S)) \in Nat
  BY BytesType DEF Bytes, Slots
<1>4. IsFiniteSet(C) /\ Cardinality(C) = f[y]
  <2>1. IsFiniteSet(1..f[y]) /\ Cardinality(1..f[y]) = f[y]
    <3>1. f[y] \in Nat OBVIOUS
    <3> QED BY <3>1, FS_Interval, SMTT(30)
  <2>2. IsFiniteSet({y}) /\ Cardinality({y}) = 1 BY FS_Singleton
  <2>3. Cardinality({y} \X (1..f[y])) = Cardinality({y}) * Cardinality(1..f[y])
        /\ IsFiniteSet({y} \X (1..f[y]))
    BY <2>1, <2>2, FS_Product
  <2>4. f[y] \in Nat OBVIOUS
  <2> QED BY <2>1, <2>2, <2>3, <2>4
<1>5. Cardinality(Slots(f, S) \cup C)
        = Cardinality(Slots(f, S)) + Cardinality(C) - Cardinality(Slots(f, S) \cap C)
  <2> HIDE DEF C
  <2> QED BY <1>3, <1>4, FS_Union
<1>6. Cardinality(Slots(f, S) \cap C) = 0 BY <1>2, FS_EmptySet
<1>7. Cardinality(Slots(f, S \cup {y})) = Cardinality(Slots(f, S)) + f[y]
  <2>1. f[y] \in Nat OBVIOUS
  <2> HIDE DEF C
  <2>2. Cardinality(Slots(f, S) \cup C) = Cardinality(Slots(f, S)) + f[y]
    BY <1>3, <1>4, <1>5, <1>6, <2>1
  <2> QED BY <1>1, <2>2, Zenon
<1> QED BY <1>7 DEF Bytes, Slots

\* Taking one element out takes its bytes out.
LEMMA BytesRemove ==
    ASSUME NEW f, NEW S, NEW y \in S, IsFiniteSet(S), \A x \in S : f[x] \in Nat
    PROVE  Bytes(f, S \ {y}) = Bytes(f, S) - f[y]
<1> DEFINE R == S \ {y}
<1>1. IsFiniteSet(R) BY FS_RemoveElement
<1>2. R \cup {y} = S /\ y \notin R OBVIOUS
<1>3. \A x \in R \cup {y} : f[x] \in Nat BY <1>2
<1>4. Bytes(f, R) \in Nat
  <2> HIDE DEF R
  <2> QED BY <1>1, <1>3, BytesType
<1>5. Bytes(f, R \cup {y}) = Bytes(f, R) + f[y]
  <2> HIDE DEF R
  <2> QED BY <1>1, <1>2, <1>3, BytesAdd
<1>6. f[y] \in Nat BY <1>3
<1> QED BY <1>2, <1>4, <1>5, <1>6

\* A constant summed over a finite set is a product.
LEMMA BytesConstant ==
    ASSUME NEW f, NEW S, IsFiniteSet(S), NEW n \in Nat, \A x \in S : f[x] = n
    PROVE  Bytes(f, S) = Cardinality(S) * n
<1>1. Slots(f, S) = S \X (1..n)
  BY DEF Slots
<1>2. IsFiniteSet(1..n) /\ Cardinality(1..n) = n
  BY FS_Interval
<1>3. Cardinality(S \X (1..n)) = Cardinality(S) * Cardinality(1..n)
  BY <1>2, FS_Product
<1> QED BY <1>1, <1>2, <1>3 DEF Bytes, Slots

-----------------------------------------------------------------------------
(* The reservation table.                                                  *)

\* The explicit and the default entries are finitely many, and their sums
\* and counts are numbers.
LEMMA PoolType ==
    ASSUME NEW res \in [Repos -> Entry], NEW max \in Nat
    PROVE  /\ IsFiniteSet(Default(res))
           /\ Cardinality(Default(res)) \in Nat
           /\ Default(res) # {} => Cardinality(Default(res)) # 0
           /\ ExplicitTotal(res) \in Nat
           /\ Pool(res, max) \in Nat
<1>1. IsFiniteSet(Repos) BY BlobCacheAssumption
<1>2. Explicit(res) \subseteq Repos /\ Default(res) \subseteq Repos
  BY DEF Explicit, Default, Registered
<1>3. IsFiniteSet(Explicit(res)) /\ IsFiniteSet(Default(res))
  BY <1>1, <1>2, FS_Subset
<1>4. Cardinality(Default(res)) \in Nat BY <1>3, FS_CardinalityType
<1>5. Default(res) # {} => Cardinality(Default(res)) # 0
  BY <1>3, FS_EmptySet
<1>6. \A x \in Explicit(res) : Reserved(res)[x] \in Nat
  BY <1>2 DEF Reserved, Entry
<1>7. ExplicitTotal(res) \in Nat BY <1>3, <1>6, BytesType DEF ExplicitTotal
<1>8. Pool(res, max) \in Nat BY <1>7 DEF Pool
<1> QED BY <1>3, <1>4, <1>5, <1>7, <1>8

\* A quotient of naturals is a natural, and never more than its numerator
\* when multiplied back.
LEMMA DivProperties ==
    ASSUME NEW a \in Nat, NEW d \in Nat, d # 0
    PROVE  a \div d \in Nat /\ d * (a \div d) <= a
OBVIOUS

\* A default share is a number of bytes.
LEMMA ShareType ==
    ASSUME NEW res \in [Repos -> Entry], NEW max \in Nat
    PROVE  Share(res, max) \in Nat
<1>1. CASE Default(res) = {} BY <1>1 DEF Share
<1>2. CASE Default(res) # {}
  BY <1>2, PoolType, DivProperties DEF Share
<1> QED BY <1>1, <1>2

\* A rebalance leaves a well-formed table.
LEMMA RebalancedType ==
    ASSUME NEW res \in [Repos -> Entry], NEW max \in Nat
    PROVE  Rebalanced(res, max) \in [Repos -> Entry]
<1>1. Share(res, max) \in Nat BY ShareType
<1> HIDE DEF Entry
<1>2. ASSUME NEW r \in Repos
      PROVE  [res[r] EXCEPT !.reserved = Share(res, max)] \in Entry
  BY <1>1 DEF Entry
<1> QED BY <1>2 DEF Rebalanced

-----------------------------------------------------------------------------
(* The LRU list.                                                           *)

\* Two sequences with the same elements over the same indices.
LEMMA SameElements ==
    ASSUME NEW f, NEW g, NEW I,
           \A i \in I : \E j \in I : f[i] = g[j],
           \A j \in I : \E i \in I : f[i] = g[j]
    PROVE  {f[i] : i \in I} = {g[i] : i \in I}
<1>1. ASSUME NEW c \in {f[i] : i \in I} PROVE c \in {g[i] : i \in I}
  OBVIOUS
<1>2. ASSUME NEW c \in {g[i] : i \in I} PROVE c \in {f[i] : i \in I}
  OBVIOUS
<1> QED BY <1>1, <1>2

\* The list part of the type invariant: what the LinkedHashMap keeps.
LruOK ==
    /\ lru \in Seq(Blobs)
    /\ \A i, j \in 1..Len(lru) : lru[i] = lru[j] => i = j

\* The cached blobs are finitely many, each a blob.
LEMMA CachedFinite ==
    ASSUME LruOK
    PROVE  /\ Cached \subseteq Blobs
           /\ IsFiniteSet(Cached)
<1>1. Len(lru) \in Nat BY LenProperties DEF LruOK
<1>2. Cached \subseteq Blobs BY ElementOfSeq DEF LruOK, Cached
<1>3. IsFiniteSet(1..Len(lru)) BY <1>1, FS_Interval
<1>4. lru \in Surjection(1..Len(lru), Cached)
  BY LenProperties DEF LruOK, Cached, Surjection
<1> QED BY <1>2, <1>3, <1>4, FS_Surjection

\* Moving a key to the back keeps every other key and duplicates none.
LEMMA MovedToBackProperties ==
    ASSUME LruOK, NEW b \in Blobs
    PROVE  LET m == MovedToBack(b) IN
           /\ m \in Seq(Blobs)
           /\ \A i, j \in 1..Len(m) : m[i] = m[j] => i = j
           /\ {m[i] : i \in 1..Len(m)} = Cached \cup {b}
<1>1. CASE b \notin Cached
  BY <1>1 DEF LruOK, MovedToBack, Cached
<1>2. CASE b \in Cached
  <2> DEFINE k == Position(b)
             m == MovedToBack(b)
             n == Len(lru)
  <2>1. k \in 1..n /\ lru[k] = b
    BY <1>2 DEF Position, Cached
  <2>2. n \in Nat /\ \A i \in 1..n : lru[i] \in Blobs
    BY DEF LruOK
  <2>3. /\ m \in Seq(Blobs)
        /\ Len(m) = n
        /\ \A i \in 1..n : m[i] = IF i < k THEN lru[i]
                                  ELSE IF i < n THEN lru[i + 1] ELSE b
    <3> HIDE DEF k, n
    <3> DEFINE u == SubSeq(lru, 1, k - 1)
               v == SubSeq(lru, k + 1, n)
    <3>1. m = u \o v \o <<b>> BY <1>2 DEF MovedToBack, k, n
    <3>2. u \in Seq(Blobs) /\ Len(u) = k - 1 /\ \A i \in 1..(k - 1) : u[i] = lru[i]
      BY <2>1, <2>2, SubSeqProperties
    <3>3. v \in Seq(Blobs) /\ Len(v) = n - k
          /\ \A i \in 1..(n - k) : v[i] = lru[k + i]
      BY <2>1, <2>2, SubSeqProperties
    <3> HIDE DEF u, v
    <3>4. u \o v \in Seq(Blobs) /\ Len(u \o v) = n - 1
          /\ \A i \in 1..(n - 1) : (u \o v)[i] = IF i < k THEN lru[i] ELSE lru[i + 1]
      BY <2>1, <2>2, <3>2, <3>3, ConcatProperties
    <3>5. <<b>> \in Seq(Blobs) /\ Len(<<b>>) = 1 /\ <<b>>[1] = b
      OBVIOUS
    <3> QED BY <2>1, <2>2, <3>1, <3>4, <3>5, ConcatProperties
  <2>4. \A i, j \in 1..n : lru[i] = lru[j] => i = j
    BY DEF LruOK
  <2> HIDE DEF k, m, n
  <2>5. \A i, j \in 1..Len(m) : m[i] = m[j] => i = j
    BY <2>1, <2>2, <2>3, <2>4
  <2>6. {m[i] : i \in 1..Len(m)} = {lru[i] : i \in 1..n}
    <3>1. ASSUME NEW i \in 1..n PROVE \E j \in 1..n : m[i] = lru[j]
      BY <2>1, <2>2, <2>3
    <3>2. ASSUME NEW j \in 1..n PROVE \E i \in 1..n : m[i] = lru[j]
      <4>1. CASE j < k BY <4>1, <2>1, <2>2, <2>3
      <4>2. CASE j = k
        <5>1. m[n] = b BY <2>1, <2>2, <2>3
        <5> QED BY <4>2, <5>1, <2>1, <2>2
      <4>3. CASE j > k
        <5>1. j - 1 \in 1..n /\ ~(j - 1 < k) /\ j - 1 < n
          BY <4>3, <2>1, <2>2
        <5>2. m[j - 1] = lru[j] BY <5>1, <2>1, <2>2, <2>3
        <5> QED BY <5>1, <5>2
      <4> QED BY <4>1, <4>2, <4>3, <2>1, <2>2
    <3>3. {m[i] : i \in 1..n} = {lru[i] : i \in 1..n}
      BY <3>1, <3>2, SameElements
    <3>4. Len(m) = n BY <2>3
    <3> QED BY <3>3, <3>4, Zenon
  <2>7. {lru[i] : i \in 1..n} = Cached \cup {b}
    BY <1>2 DEF Cached, n
  <2> QED BY <2>3, <2>5, <2>6, <2>7 DEF m
<1> QED BY <1>1, <1>2

\* Removing the oldest key removes exactly that key.
LEMMA PopProperties ==
    ASSUME LruOK, lru # <<>>
    PROVE  /\ Head(lru) \in Cached
           /\ Tail(lru) \in Seq(Blobs)
           /\ Len(Tail(lru)) = Len(lru) - 1
           /\ \A i, j \in 1..Len(Tail(lru)) : Tail(lru)[i] = Tail(lru)[j] => i = j
           /\ {Tail(lru)[i] : i \in 1..Len(Tail(lru))} = Cached \ {Head(lru)}
<1>1. lru \in Seq(Blobs) /\ Len(lru) \in Nat \ {0} BY EmptySeq DEF LruOK
<1>2. /\ Tail(lru) \in Seq(Blobs)
      /\ Len(Tail(lru)) = Len(lru) - 1
      /\ \A i \in 1..Len(Tail(lru)) : Tail(lru)[i] = lru[i + 1]
  BY <1>1, HeadTailProperties
<1>3. Head(lru) = lru[1] BY <1>1
<1>4. \A i, j \in 1..Len(lru) : lru[i] = lru[j] => i = j BY DEF LruOK
<1>5. Head(lru) \in Cached BY <1>1, <1>3 DEF Cached
<1>6. \A i, j \in 1..Len(Tail(lru)) : Tail(lru)[i] = Tail(lru)[j] => i = j
  BY <1>1, <1>2, <1>4
<1>7. {Tail(lru)[i] : i \in 1..Len(Tail(lru))} = Cached \ {Head(lru)}
  <2>1. ASSUME NEW i \in 1..Len(Tail(lru))
        PROVE  Tail(lru)[i] \in Cached \ {Head(lru)}
    <3>1. i + 1 \in 1..Len(lru) /\ i + 1 # 1 /\ 1 \in 1..Len(lru) BY <1>1, <1>2
    <3> QED BY <1>2, <1>3, <1>4, <3>1 DEF Cached
  <2>2. ASSUME NEW c \in Cached \ {Head(lru)}
        PROVE  \E i \in 1..Len(Tail(lru)) : Tail(lru)[i] = c
    <3>1. PICK j \in 1..Len(lru) : lru[j] = c BY DEF Cached
    <3>2. j # 1 BY <1>3, <3>1
    <3>3. j - 1 \in 1..Len(Tail(lru)) /\ (j - 1) + 1 = j BY <1>1, <1>2, <3>2
    <3> QED BY <1>2, <3>1, <3>3, Zenon
  <2> QED BY <2>1, <2>2
<1> QED BY <1>2, <1>5, <1>6, <1>7

\* Rotation reorders the list and nothing else.
LEMMA RotateProperties ==
    ASSUME LruOK, lru # <<>>
    PROVE  LET m == Append(Tail(lru), Head(lru)) IN
           /\ m \in Seq(Blobs)
           /\ Len(m) = Len(lru)
           /\ \A i \in 1..Len(lru) :
                 m[i] = IF i < Len(lru) THEN lru[i + 1] ELSE lru[1]
           /\ \A i, j \in 1..Len(m) : m[i] = m[j] => i = j
           /\ {m[i] : i \in 1..Len(m)} = Cached
<1> DEFINE m == Append(Tail(lru), Head(lru))
           n == Len(lru)
<1>1. lru \in Seq(Blobs) /\ n \in Nat \ {0} BY EmptySeq DEF LruOK
<1>2. /\ Tail(lru) \in Seq(Blobs)
      /\ Len(Tail(lru)) = n - 1
      /\ \A i \in 1..(n - 1) : Tail(lru)[i] = lru[i + 1]
  BY <1>1, HeadTailProperties
<1>3. Head(lru) = lru[1] /\ lru[1] \in Blobs BY <1>1
<1>4. m \in Seq(Blobs) /\ Len(m) = n
  BY <1>1, <1>2, <1>3
<1>5. \A i \in 1..n : m[i] = IF i < n THEN lru[i + 1] ELSE lru[1]
  <2>1. TAKE i \in 1..n
  <2>2. CASE i < n
    <3>1. i \in 1..Len(Tail(lru)) BY <1>1, <1>2, <2>2
    <3>2. m[i] = Tail(lru)[i] BY <1>2, <1>3, <3>1, AppendProperties
    <3> QED BY <1>1, <1>2, <2>2, <3>1, <3>2
  <2>3. CASE i = n
    <3>1. m[Len(Tail(lru)) + 1] = Head(lru)
      BY <1>2, <1>3, AppendProperties
    <3> QED BY <1>1, <1>2, <1>3, <2>3, <3>1
  <2> QED BY <1>1, <2>2, <2>3
<1>6. \A i, j \in 1..n : lru[i] = lru[j] => i = j BY DEF LruOK
<1> HIDE DEF m, n
<1>7. \A i, j \in 1..Len(m) : m[i] = m[j] => i = j
  BY <1>1, <1>4, <1>5, <1>6
<1>8. {m[i] : i \in 1..Len(m)} = {lru[i] : i \in 1..n}
  <2>1. ASSUME NEW i \in 1..n PROVE \E j \in 1..n : m[i] = lru[j]
    BY <1>1, <1>5
  <2>2. ASSUME NEW j \in 1..n PROVE \E i \in 1..n : m[i] = lru[j]
    <3>1. CASE j = 1
      <4>1. n \in 1..n /\ m[n] = lru[1] BY <1>1, <1>5
      <4> QED BY <3>1, <4>1
    <3>2. CASE j # 1
      <4>1. j - 1 \in 1..n /\ j - 1 < n /\ (j - 1) + 1 = j BY <1>1, <3>2
      <4> QED BY <1>5, <4>1
    <3> QED BY <3>1, <3>2
  <2>3. {m[i] : i \in 1..n} = {lru[i] : i \in 1..n}
    <3>1. ASSUME NEW c \in {m[i] : i \in 1..n}
          PROVE  c \in {lru[i] : i \in 1..n}
      <4>1. PICK i \in 1..n : m[i] = c OBVIOUS
      <4>2. PICK j \in 1..n : m[i] = lru[j] BY <2>1
      <4> QED BY <4>1, <4>2
    <3>2. ASSUME NEW c \in {lru[i] : i \in 1..n}
          PROVE  c \in {m[i] : i \in 1..n}
      <4>1. PICK j \in 1..n : lru[j] = c OBVIOUS
      <4>2. PICK i \in 1..n : m[i] = lru[j] BY <2>2
      <4> QED BY <4>1, <4>2
    <3> QED BY <3>1, <3>2
  <2>4. Len(m) = n BY <1>4
  <2> QED BY <2>3, <2>4, Zenon
<1> QED BY <1>1, <1>4, <1>5, <1>7, <1>8, Zenon DEF Cached, m, n

-----------------------------------------------------------------------------
(* Type correctness.                                                       *)

\* One step keeps the type invariant.
LEMMA TypeStep == TypeOK /\ [Next]_vars => TypeOK'
<1> SUFFICES ASSUME TypeOK, [Next]_vars PROVE TypeOK'
  OBVIOUS
<1> USE BlobCacheAssumption
<1>a. LruOK BY DEF TypeOK, LruOK
<1>b. maxBytes \in Nat /\ loop \in LoopState /\ Len(lru) \in Nat
  BY LenProperties DEF TypeOK
<1>1. ASSUME NEW b \in Blobs, NEW n \in Sizes, BeginInsert(b, n)
      PROVE  TypeOK'
  <2>1. /\ lru' \in Seq(Blobs)
        /\ \A i, j \in 1..Len(lru') : lru'[i] = lru'[j] => i = j
        /\ Cached' = Cached \cup {b}
    <3> DEFINE m == MovedToBack(b)
    <3>1. lru' = m BY <1>1 DEF BeginInsert
    <3>2. /\ m \in Seq(Blobs)
          /\ \A i, j \in 1..Len(m) : m[i] = m[j] => i = j
          /\ {m[i] : i \in 1..Len(m)} = Cached \cup {b}
      BY <1>a, MovedToBackProperties
    <3> HIDE DEF m
    <3>3. Cached' = {lru'[i] : i \in 1..Len(lru')}
      BY DEF Cached
    <3> QED BY ONLY <3>1, <3>2, <3>3
  <2>2. size' = [size EXCEPT ![b] = n] /\ n \in Nat
    BY <1>1 DEF BeginInsert
  <2>3. size' \in [Blobs -> Nat] BY <2>2 DEF TypeOK
  <2>4. \A c \in Blobs \ Cached' : size'[c] = 0
    BY <2>1, <2>2 DEF TypeOK
  <2>5. total' \in Int
    BY <1>1, <2>2 DEF BeginInsert, TotalAfterInsert, TypeOK
  <2>6. loop' \in LoopState /\ loop'.rotated = 0
    BY <1>1, <1>b DEF BeginInsert, LoopState
  <2>7. loop'.rotated <= Len(lru') BY <2>1, <2>6, LenProperties
  <2> QED BY <1>1, <2>1, <2>3, <2>4, <2>5, <2>6, <2>7 DEF BeginInsert, TypeOK
<1>2. CASE SkipProtected
  <2>1. lru # <<>> BY <1>2 DEF SkipProtected, OverLimit
  <2>2. /\ lru' \in Seq(Blobs)
        /\ Len(lru') = Len(lru)
        /\ \A i, j \in 1..Len(lru') : lru'[i] = lru'[j] => i = j
        /\ Cached' = Cached
    <3> DEFINE m == Append(Tail(lru), Head(lru))
    <3>1. lru' = m BY <1>2, SMTT(40) DEF SkipProtected
    <3>2. /\ m \in Seq(Blobs)
          /\ Len(m) = Len(lru)
          /\ \A i, j \in 1..Len(m) : m[i] = m[j] => i = j
          /\ {m[i] : i \in 1..Len(m)} = Cached
      BY <1>a, <2>1, RotateProperties, ZenonT(40)
    <3> HIDE DEF m
    <3> QED BY <3>1, <3>2 DEF Cached
  <2>3. loop' \in LoopState /\ loop'.rotated <= Len(lru')
    BY <1>2, <1>b, <2>2 DEF SkipProtected, AllSeen, CountRotation, LoopState
  <2>4. /\ loop'.kind = "insert"
        /\ UNCHANGED <<size, total, owners, reservations, maxBytes, resizing,
                       loaded, divided>>
    BY <1>2 DEF SkipProtected, TypeOK, LoopState
  <2>5. /\ size' \in [Blobs -> Nat]
        /\ \A b \in Blobs \ Cached' : size'[b] = 0
        /\ total' \in Int
        /\ owners' \in [Blobs -> SUBSET Repos]
        /\ reservations' \in [Repos -> Entry]
    BY <2>2, <2>4 DEF TypeOK
  <2>6. /\ maxBytes' \in Limits /\ resizing' \subseteq Limits
        /\ loaded' \in [Threads -> Limits \cup {None}]
        /\ divided' \in Limits \cup {None}
    BY <2>4 DEF TypeOK
  <2> QED BY <2>2, <2>3, <2>4, <2>5, <2>6 DEF TypeOK
<1>c. ASSUME PopOldest, lru # <<>>
      PROVE  /\ lru' \in Seq(Blobs)
             /\ Len(lru') = Len(lru) - 1
             /\ \A i, j \in 1..Len(lru') : lru'[i] = lru'[j] => i = j
             /\ size' \in [Blobs -> Nat]
             /\ \A c \in Blobs \ Cached' : size'[c] = 0
             /\ total' \in Int
  <2>1. Head(lru) \in Cached /\ Head(lru) \in Blobs
    BY <1>a, <1>c, PopProperties, CachedFinite
  <2>2. lru' = Tail(lru) /\ size' = [size EXCEPT ![Head(lru)] = 0]
        /\ total' = total - size[Head(lru)]
    BY <1>c DEF PopOldest
  <2>3. Cached' = Cached \ {Head(lru)}
    BY <1>a, <1>c, <2>2, PopProperties DEF Cached
  <2>4. /\ lru' \in Seq(Blobs)
        /\ Len(lru') = Len(lru) - 1
        /\ \A i, j \in 1..Len(lru') : lru'[i] = lru'[j] => i = j
    BY <1>a, <1>c, <2>2, PopProperties
  <2>5. size' \in [Blobs -> Nat] /\ total' \in Int
    BY <2>1, <2>2 DEF TypeOK
  <2>6. \A c \in Blobs \ Cached' : size'[c] = 0
    BY <2>1, <2>2, <2>3 DEF TypeOK
  <2> QED BY <2>4, <2>5, <2>6
<1>3. CASE EvictUnprotected
  <2>1. PopOldest /\ lru # <<>>
    BY <1>3 DEF EvictUnprotected, OverLimit
  <2>2. loop' \in LoopState /\ loop'.rotated = 0
    BY <1>3, <1>b DEF EvictUnprotected, LoopState
  <2>3. owners' \in [Blobs -> SUBSET Repos]
    BY <1>3 DEF EvictUnprotected, TypeOK
  <2>4. loop'.rotated <= Len(lru') BY <1>b, <1>c, <2>1, <2>2, LenProperties
  <2> QED BY <1>3, <1>c, <2>1, <2>2, <2>3, <2>4 DEF EvictUnprotected, TypeOK
<1>4. CASE EndInsert
  <2>1. loop' \in LoopState /\ loop'.rotated = 0
    BY <1>4 DEF EndInsert, LoopState, Idle
  <2>2. UNCHANGED <<lru, size, total, owners, reservations, maxBytes, resizing>>
    BY <1>4 DEF EndInsert
  <2>3. UNCHANGED <<loaded, divided>> BY <1>4 DEF EndInsert
  <2> QED BY <1>b, <2>1, <2>2, <2>3 DEF TypeOK, Cached
<1>5. CASE PruneOldest
  <2>1. PopOldest /\ lru # <<>> BY <1>5 DEF PruneOldest, OverLimit
  <2>2. loop' = loop /\ loop.rotated = 0
    BY <1>5 DEF PruneOldest, TypeOK
  <2>3. loop'.rotated <= Len(lru') BY <1>b, <1>c, <2>1, <2>2, LenProperties
  <2>4. loop' \in LoopState /\ loop'.rotated = 0 BY <1>b, <2>2
  <2>5. UNCHANGED <<owners, reservations, maxBytes, resizing, loaded, divided>>
    BY <1>5 DEF PruneOldest
  <2> QED BY <1>c, <2>1, <2>3, <2>4, <2>5 DEF TypeOK
<1>6. CASE EndPrune
  <2>1. loop' \in LoopState /\ loop'.rotated = 0
    BY <1>6 DEF EndPrune, LoopState, Idle
  <2>2. UNCHANGED <<lru, size, total, owners, reservations, maxBytes, resizing>>
    BY <1>6 DEF EndPrune
  <2>3. UNCHANGED <<loaded, divided>> BY <1>6 DEF EndPrune
  <2> QED BY <1>b, <2>1, <2>2, <2>3 DEF TypeOK, Cached
<1>7. ASSUME NEW n \in Limits, SetMaxBytes(n) PROVE TypeOK'
  BY <1>7 DEF SetMaxBytes, TypeOK, Cached
<1>8. ASSUME NEW n \in Limits, PruneTo(n), resizing' \subseteq resizing
      PROVE  TypeOK'
  <2>1. loop' \in LoopState /\ loop'.rotated = 0
    BY <1>8 DEF PruneTo, LoopState
  <2>2. resizing' \subseteq Limits BY <1>8 DEF TypeOK
  <2> QED BY <1>8, <1>b, <2>1, <2>2 DEF PruneTo, TypeOK, Cached
<1>9. ASSUME NEW b \in Blobs, Get(b) PROVE TypeOK'
  <2>1. /\ lru' \in Seq(Blobs)
        /\ \A i, j \in 1..Len(lru') : lru'[i] = lru'[j] => i = j
        /\ Cached' = Cached
    <3> DEFINE m == MovedToBack(b)
    <3>1. lru' = m /\ Cached \cup {b} = Cached BY <1>9 DEF Get
    <3>2. /\ m \in Seq(Blobs)
          /\ \A i, j \in 1..Len(m) : m[i] = m[j] => i = j
          /\ {m[i] : i \in 1..Len(m)} = Cached \cup {b}
      BY <1>a, MovedToBackProperties
    <3> HIDE DEF m
    <3>3. Cached' = {m[i] : i \in 1..Len(m)} BY <3>1 DEF Cached
    <3> QED BY <3>1, <3>2, <3>3
  <2>2. loop' \in LoopState /\ loop'.rotated <= Len(lru')
    BY <1>9, <1>b, <2>1, LenProperties DEF Get, Idle
  <2> QED BY <1>9, <2>1, <2>2 DEF Get, TypeOK
<1>d. ASSUME NEW r \in Repos, NEW hexes \in SUBSET Blobs
      PROVE  WithOwner(r, hexes) \in [Blobs -> SUBSET Repos]
  BY DEF WithOwner, TypeOK
<1>10. ASSUME NEW r \in Repos, NEW hexes \in SUBSET Blobs, AddOwners(r, hexes)
       PROVE  TypeOK'
  BY <1>10, <1>d DEF AddOwners, TypeOK, Cached
<1>e. ASSUME NEW t \in Threads, loaded[t] # None,
             NEW res \in [Repos -> Entry], DivideAs(t, res),
             owners' \in [Blobs -> SUBSET Repos]
      PROVE  TypeOK'
  <2>1. loaded[t] \in Limits /\ loaded[t] \in Nat BY <1>e DEF TypeOK
  <2>2. reservations' \in [Repos -> Entry]
    BY <1>e, <2>1, RebalancedType DEF DivideAs
  <2>3. loaded' \in [Threads -> Limits \cup {None}] /\ divided' \in Limits \cup {None}
    BY <1>e, <2>1 DEF DivideAs, TypeOK
  <2>4. UNCHANGED <<lru, size, total, maxBytes, resizing, loop>>
    BY <1>e DEF DivideAs
  <2> QED BY <1>e, <2>2, <2>3, <2>4 DEF TypeOK, Cached
<1>11. ASSUME NEW t \in Threads, NEW r \in Repos,
              NEW opt \in Budgets \cup {None}, NEW hexes \in Seeds,
              RegisterMount(t, r, opt, hexes)
       PROVE  TypeOK'
  <2> DEFINE old == reservations[r]
             new == [reserved |-> IF opt = None THEN old.reserved ELSE opt,
                     explicit |-> old.explicit \/ opt # None,
                     refcount |-> old.refcount + 1]
  <2>1. reservations \in [Repos -> Entry] BY DEF TypeOK
  <2>2. new \in Entry
    <3>1. old \in Entry BY <2>1
    <3>2. (old.explicit \/ opt # None) \in BOOLEAN OBVIOUS
    <3>3. (IF opt = None THEN old.reserved ELSE opt) \in Nat
      BY <1>11, <3>1 DEF Entry
    <3>4. old.refcount + 1 \in Nat BY <3>1 DEF Entry
    <3> HIDE DEF old
    <3> QED BY <3>2, <3>3, <3>4, Zenon DEF Entry
  <2>3. DivideAs(t, [reservations EXCEPT ![r] = new])
        /\ loaded[t] # None /\ owners' = WithOwner(r, hexes)
    BY <1>11 DEF RegisterMount
  <2> HIDE DEF new
  <2>4. [reservations EXCEPT ![r] = new] \in [Repos -> Entry]
    BY <2>1, <2>2
  <2> QED BY <1>d, <1>e, <2>3, <2>4
<1>12. ASSUME NEW t \in Threads, NEW r \in Repos, UnregisterMount(t, r)
       PROVE  TypeOK'
  <2>1. reservations \in [Repos -> Entry] BY DEF TypeOK
  <2>2. [reservations EXCEPT ![r] = NoEntry] \in [Repos -> Entry]
    BY <2>1 DEF NoEntry, Entry
  <2>3. [reservations EXCEPT ![r].refcount = IF @ = 0 THEN 0 ELSE @ - 1]
          \in [Repos -> Entry]
    BY <2>1 DEF Entry
  <2>4. owners' \in [Blobs -> SUBSET Repos]
    BY <1>12 DEF UnregisterMount, TypeOK
  <2>5. loaded[t] # None
        /\ \/ DivideAs(t, [reservations EXCEPT ![r] = NoEntry])
           \/ DivideAs(t, [reservations EXCEPT ![r].refcount =
                                IF @ = 0 THEN 0 ELSE @ - 1])
    BY <1>12 DEF UnregisterMount
  <2> QED BY <1>e, <2>2, <2>3, <2>4, <2>5
<1>14. ASSUME NEW t \in Threads, LoadLimit(t) PROVE TypeOK'
  <2>1. loaded' \in [Threads -> Limits \cup {None}]
    BY <1>14 DEF LoadLimit, TypeOK
  <2> QED BY <1>14, <2>1 DEF LoadLimit, TypeOK, Cached
<1>13. CASE UNCHANGED vars
  BY <1>13 DEF vars, TypeOK, Cached
<1> QED
  BY <1>1, <1>2, <1>3, <1>4, <1>5, <1>6, <1>7, <1>8, <1>9, <1>10, <1>11,
     <1>12, <1>13, <1>14 DEF Next, LoopStep, Shrink, BeginPrune

\* An empty cache is well-typed.
LEMMA TypeInit == Init => TypeOK
BY BlobCacheAssumption DEF Init, TypeOK, Cached, NoEntry, Entry, Idle, LoopState

\* CacheState stays well-typed: the LRU list never holds a key twice, and
\* only cached keys have bytes.
THEOREM TypeCorrect == Spec => []TypeOK
BY TypeInit, TypeStep, PTL DEF Spec

-----------------------------------------------------------------------------
(* How a step changes the set of cached blobs.                             *)

\* An insertion adds its key and removes nothing.
LEMMA InsertCached ==
    ASSUME TypeOK, NEW b \in Blobs, NEW n \in Sizes, BeginInsert(b, n)
    PROVE  Cached' = Cached \cup {b}
<1> DEFINE m == MovedToBack(b)
<1>1. LruOK BY DEF TypeOK, LruOK
<1>2. {m[i] : i \in 1..Len(m)} = Cached \cup {b}
  BY <1>1, MovedToBackProperties
<1>3. lru' = m BY DEF BeginInsert
<1> HIDE DEF m
<1>4. Cached' = {m[i] : i \in 1..Len(m)} BY <1>3 DEF Cached
<1> QED BY <1>2, <1>4

\* Evicting the oldest entry removes exactly that key.
LEMMA PopCached ==
    ASSUME TypeOK, PopOldest, lru # <<>>
    PROVE  Cached' = Cached \ {Head(lru)} /\ Head(lru) \in Cached
<1>1. LruOK BY DEF TypeOK, LruOK
<1> QED BY <1>1, PopProperties, ZenonT(60) DEF PopOldest, Cached

\* Rotations and lookups only reorder the list.
LEMMA ReorderCached ==
    ASSUME TypeOK, SkipProtected \/ \E b \in Blobs : Get(b)
    PROVE  Cached' = Cached
<1>1. LruOK BY DEF TypeOK, LruOK
<1>2. CASE SkipProtected
  <2> DEFINE m == Append(Tail(lru), Head(lru))
  <2>1. lru # <<>> /\ lru' = m BY <1>2 DEF SkipProtected, OverLimit
  <2>2. {m[i] : i \in 1..Len(m)} = Cached BY <1>1, <2>1, RotateProperties, Zenon
  <2> HIDE DEF m
  <2>3. Cached' = {m[i] : i \in 1..Len(m)} BY <2>1 DEF Cached
  <2> QED BY <2>2, <2>3
<1>3. ASSUME NEW b \in Blobs, Get(b) PROVE Cached' = Cached
  <2> DEFINE m == MovedToBack(b)
  <2>1. Cached \cup {b} = Cached /\ lru' = m BY <1>3 DEF Get
  <2>2. {m[i] : i \in 1..Len(m)} = Cached \cup {b}
    BY <1>1, MovedToBackProperties
  <2> HIDE DEF m
  <2>3. Cached' = {m[i] : i \in 1..Len(m)} BY <2>1 DEF Cached
  <2> QED BY <2>1, <2>2, <2>3
<1> QED BY <1>2, <1>3

\* The steps that neither store nor evict an entry.
BookkeepingStep ==
    \/ SkipProtected
    \/ EndInsert
    \/ EndPrune
    \/ \E n \in Limits : SetMaxBytes(n) \/ Shrink(n) \/ BeginPrune(n)
    \/ \E b \in Blobs : Get(b)
    \/ \E r \in Repos, hexes \in SUBSET Blobs : AddOwners(r, hexes)
    \/ \E t \in Threads : LoadLimit(t)
    \/ \E t \in Threads, r \in Repos, opt \in Budgets \cup {None},
          hexes \in Seeds : RegisterMount(t, r, opt, hexes)
    \/ \E t \in Threads, r \in Repos : UnregisterMount(t, r)
    \/ UNCHANGED vars

\* A step is an insertion, an eviction, or bookkeeping.
LEMMA StepKinds ==
    ASSUME [Next]_vars
    PROVE  \/ \E b \in Blobs, n \in Sizes : BeginInsert(b, n)
           \/ EvictUnprotected
           \/ PruneOldest
           \/ BookkeepingStep
BY DEF Next, LoopStep, BookkeepingStep

\* Bookkeeping changes no cached blob, no size and no total.
LEMMA BookkeepingCached ==
    ASSUME TypeOK, BookkeepingStep
    PROVE  Cached' = Cached /\ size' = size /\ total' = total
<1>1. CASE SkipProtected
  BY <1>1, ReorderCached DEF SkipProtected
<1>2. ASSUME NEW b \in Blobs, Get(b) PROVE Cached' = Cached /\ size' = size /\ total' = total
  BY <1>2, ReorderCached DEF Get
<1>3. CASE UNCHANGED <<lru, size, total>>
  BY <1>3 DEF Cached
<1> QED
  BY <1>1, <1>2, <1>3
  DEF BookkeepingStep, EndInsert, EndPrune, SetMaxBytes, Shrink, BeginPrune,
      PruneTo, AddOwners, LoadLimit, RegisterMount, UnregisterMount, DivideAs,
      vars

-----------------------------------------------------------------------------
(* total_bytes.                                                            *)

\* One step keeps total_bytes exact.
LEMMA TotalStep == TypeOK /\ TotalIsExact /\ [Next]_vars => TotalIsExact'
<1> SUFFICES ASSUME TypeOK, TotalIsExact, [Next]_vars PROVE TotalIsExact'
  OBVIOUS
<1>1. LruOK /\ IsFiniteSet(Cached) /\ Cached \subseteq Blobs
  BY CachedFinite DEF TypeOK, LruOK
<1>2. \A b \in Blobs : size[b] \in Nat BY DEF TypeOK
<1>3. total = Bytes(size, Cached) /\ Bytes(size, Cached) \in Nat
  BY <1>1, <1>2, BytesType DEF TotalIsExact
<1>4. ASSUME NEW b \in Blobs, NEW n \in Sizes, BeginInsert(b, n)
      PROVE  TotalIsExact'
  <2> DEFINE R == Cached \ {b}
  <2>1. IsFiniteSet(R) /\ b \notin R /\ R \subseteq Blobs
    BY <1>1, FS_RemoveElement
  <2>2. size' = [size EXCEPT ![b] = n] /\ n \in Nat
        /\ total' = total - size[b] + n
    BY <1>4, BlobCacheAssumption DEF BeginInsert, TotalAfterInsert
  <2>3. Cached' = R \cup {b} BY <1>4, InsertCached
  <2>4. size' \in [Blobs -> Nat] /\ size'[b] = n
    BY <2>2 DEF TypeOK
  <2>5. \A x \in R : size[x] = size'[x] BY <2>1, <2>2 DEF TypeOK
  <2>6. Bytes(size, R) = Bytes(size', R)
    <3> HIDE DEF R
    <3> QED BY <2>5, BytesCongruence
  <2>7. Bytes(size', R \cup {b}) = Bytes(size', R) + n
    <3>1. \A x \in R \cup {b} : size'[x] \in Nat BY <2>1, <2>4
    <3> HIDE DEF R
    <3> QED BY <2>1, <2>4, <3>1, BytesAdd
  <2>8. Bytes(size, R) = Bytes(size, Cached) - size[b]
    <3>1. CASE b \in Cached BY <1>1, <1>2, <3>1, BytesRemove
    <3>2. CASE b \notin Cached
      <4>1. R = Cached /\ size[b] = 0 BY <3>2 DEF TypeOK
      <4> QED BY <1>3, <4>1
    <3> QED BY <3>1, <3>2
  <2>9. total' = Bytes(size', R \cup {b})
    <3> HIDE DEF R
    <3> QED BY <1>2, <1>3, <2>2, <2>6, <2>7, <2>8
  <2> HIDE DEF R
  <2> QED BY <2>3, <2>9 DEF TotalIsExact
<1>5. ASSUME PopOldest, lru # <<>> PROVE TotalIsExact'
  <2> DEFINE h == Head(lru)
             R == Cached \ {h}
  <2>1. Cached' = R /\ h \in Cached BY <1>5, PopCached
  <2>2. total' = total - size[h] /\ size' = [size EXCEPT ![h] = 0]
    BY <1>5 DEF PopOldest
  <2>3. \A x \in R : size[x] = size'[x] BY <1>1, <2>2 DEF TypeOK
  <2>4. Bytes(size, R) = Bytes(size, Cached) - size[h]
    <3> HIDE DEF h
    <3> QED BY <1>1, <1>2, <2>1, BytesRemove
  <2>5. Bytes(size, R) = Bytes(size', R)
    <3> HIDE DEF R
    <3> QED BY <2>3, BytesCongruence
  <2> HIDE DEF R, h
  <2> QED BY <1>3, <2>1, <2>2, <2>4, <2>5 DEF TotalIsExact
<1>6. CASE EvictUnprotected
  BY <1>5, <1>6 DEF EvictUnprotected, OverLimit
<1>7. CASE PruneOldest
  BY <1>5, <1>7 DEF PruneOldest, OverLimit
<1>8. CASE BookkeepingStep
  BY <1>8, BookkeepingCached DEF TotalIsExact
<1> QED BY <1>4, <1>6, <1>7, <1>8, StepKinds

\* The byte count the eviction loops compare with their limit is exactly the
\* bytes of the entries they can evict.
THEOREM TotalCorrect == Spec => []TotalIsExact
<1>1. Init => TotalIsExact
  <2> SUFFICES ASSUME Init PROVE TotalIsExact
    OBVIOUS
  <2>1. Cached = {} /\ total = 0 BY DEF Init, Cached
  <2>2. Slots(size, {}) = {} BY DEF Slots
  <2>3. Cardinality({}) = 0 BY FS_EmptySet
  <2> QED BY <2>1, <2>2, <2>3 DEF TotalIsExact, Bytes, Slots
<1> QED BY <1>1, TypeInit, TypeStep, TotalStep, PTL DEF Spec

-----------------------------------------------------------------------------
(* The eviction loop.                                                      *)

\* The strengthening behind the loop's exit test: the entries rotated to the
\* back since the last eviction are the last `rotated` ones of the list, and
\* all of them are protected.
RotatedAreProtected ==
    loop.kind = "insert" =>
      \A i \in 1..Len(lru) : i > Len(lru) - loop.rotated => Protected(lru[i])

\* A budget check depends on the cached set, the sizes, the owners and the
\* reservation table only.
LEMMA BudgetCheckKept ==
    ASSUME Cached' = Cached, UNCHANGED <<size, owners, reservations>>
    PROVE  \A r : WithinBudget(r)' = WithinBudget(r)
<1>1. \A r : WorkingSet(r)' = WorkingSet(r)
  BY DEF WorkingSet, Bytes
<1> QED BY <1>1 DEF WithinBudget

\* One step keeps the rotated entries protected.
LEMMA RotatedStep ==
    TypeOK /\ RotatedAreProtected /\ [Next]_vars => RotatedAreProtected'
<1> SUFFICES ASSUME TypeOK, RotatedAreProtected, [Next]_vars,
                    loop'.kind = "insert"
             PROVE  \A i \in 1..Len(lru') :
                       i > Len(lru') - loop'.rotated => Protected(lru[i])'
  BY DEF RotatedAreProtected
<1>a. Len(lru) \in Nat /\ loop.rotated \in Nat /\ loop.rotated <= Len(lru)
  BY LenProperties DEF TypeOK, LoopState
<1>b. LruOK BY DEF TypeOK, LruOK
<1>c. ASSUME loop'.rotated = 0, Len(lru') \in Nat
      PROVE  \A i \in 1..Len(lru') :
                i > Len(lru') - loop'.rotated => Protected(lru[i])'
  BY <1>c
<1>d. Len(lru') \in Nat
  <2>1. lru' \in Seq(Blobs) BY TypeStep DEF TypeOK
  <2> QED BY <2>1, LenProperties
<1>1. ASSUME NEW b \in Blobs, NEW n \in Sizes, BeginInsert(b, n)
      PROVE  loop'.rotated = 0
  BY <1>1 DEF BeginInsert
<1>2. CASE EvictUnprotected
  <2>1. loop'.rotated = 0 BY <1>2 DEF EvictUnprotected, TypeOK, LoopState
  <2> QED BY <1>c, <1>d, <2>1
<1>3. CASE SkipProtected
  <2>1. lru # <<>> /\ Protected(Head(lru)) /\ loop.kind = "insert"
        /\ lru' = Append(Tail(lru), Head(lru))
        /\ loop'.rotated = loop.rotated + 1
        /\ UNCHANGED <<size, owners, reservations>>
    BY <1>3 DEF SkipProtected, OverLimit, CountRotation, TypeOK, LoopState
  <2>2. Len(lru') = Len(lru)
        /\ \A i \in 1..Len(lru) :
              lru'[i] = IF i < Len(lru) THEN lru[i + 1] ELSE lru[1]
    BY <1>b, <2>1, RotateProperties, Zenon
  <2>3. Cached' = Cached BY <1>3, ReorderCached
  <2>4. \A r : WithinBudget(r)' = WithinBudget(r)
    BY <2>1, <2>3, BudgetCheckKept
  <2>5. Len(lru') = Len(lru) BY <2>2
  <2>6. ASSUME NEW i \in 1..Len(lru'), i > Len(lru') - loop'.rotated
        PROVE  \E j \in 1..Len(lru) : lru'[i] = lru[j] /\ Protected(lru[j])
    <3>1. i \in 1..Len(lru) /\ i > Len(lru) - (loop.rotated + 1)
      BY <2>1, <2>5, <2>6
    <3>2. CASE i < Len(lru)
      <4>1. i + 1 \in 1..Len(lru) /\ i + 1 > Len(lru) - loop.rotated
        BY <1>a, <3>1, <3>2
      <4>2. Protected(lru[i + 1]) BY <2>1, <4>1 DEF RotatedAreProtected
      <4>3. lru'[i] = lru[i + 1] BY <2>2, <3>1, <3>2
      <4> QED BY <4>1, <4>2, <4>3
    <3>3. CASE i = Len(lru)
      <4>1. ~(i < Len(lru)) BY <1>a, <3>3
      <4>2. lru'[i] = lru[1] BY <2>2, <3>1, <4>1
      <4>3. Head(lru) = lru[1] BY <1>b, <2>1 DEF LruOK
      <4>4. 1 \in 1..Len(lru) BY <1>a, <3>1
      <4> QED BY <2>1, <4>2, <4>3, <4>4
    <3> QED BY <1>a, <3>1, <3>2, <3>3
  <2> QED BY <2>1, <2>4, <2>6, SMTT(40) DEF Protected
<1>4. ASSUME NEW n \in Limits, SetMaxBytes(n)
      PROVE  \A i \in 1..Len(lru') :
                i > Len(lru') - loop'.rotated => Protected(lru[i])'
  <2>1. UNCHANGED <<lru, loop, size, owners, reservations>> /\ Cached' = Cached
    BY <1>4 DEF SetMaxBytes, Cached
  <2>2. \A r : WithinBudget(r)' = WithinBudget(r) BY <2>1, BudgetCheckKept
  <2>3. loop.kind = "insert" BY <2>1
  <2> QED BY <2>1, <2>2, <2>3 DEF RotatedAreProtected, Protected
<1>5. CASE UNCHANGED vars \/ \E t \in Threads : LoadLimit(t)
  <2>1. UNCHANGED <<lru, loop, size, owners, reservations>> /\ Cached' = Cached
    BY <1>5 DEF vars, LoadLimit, Cached
  <2>2. \A r : WithinBudget(r)' = WithinBudget(r) BY <2>1, BudgetCheckKept
  <2>3. loop.kind = "insert" BY <2>1
  <2> QED BY <2>1, <2>2, <2>3 DEF RotatedAreProtected, Protected
<1>6. ~EndInsert /\ ~EndPrune BY DEF EndInsert, EndPrune, Idle
<1>7. ~PruneOldest BY DEF PruneOldest
<1>8. ASSUME loop = Idle, loop' = loop PROVE FALSE BY <1>8 DEF Idle
<1>9. \A n \in Limits : ~PruneTo(n) BY DEF PruneTo
<1>10. \A b \in Blobs : ~Get(b) BY <1>8 DEF Get
<1>11. \A r \in Repos, hexes \in SUBSET Blobs : ~AddOwners(r, hexes)
  BY <1>8 DEF AddOwners
<1>12. \A t \in Threads, r \in Repos, opt \in Budgets \cup {None},
           hexes \in Seeds : ~RegisterMount(t, r, opt, hexes)
  BY <1>8 DEF RegisterMount, DivideAs
<1>13. \A t \in Threads, r \in Repos : ~UnregisterMount(t, r)
  BY <1>8 DEF UnregisterMount, DivideAs
<1> QED
  BY <1>1, <1>c, <1>d, <1>2, <1>3, <1>4, <1>5, <1>6, <1>7, <1>9, <1>10,
     <1>11, <1>12, <1>13 DEF Next, LoopStep, Shrink, BeginPrune

\* The insertion loop leaves the cache above max_bytes only when every cached
\* blob is protected by a repo that is within its reservation.
THEOREM OverflowCorrect == Spec => OverflowOnlyWhenAllProtected
<1>1. Init => RotatedAreProtected
  BY DEF Init, RotatedAreProtected, Idle
<1>2. ASSUME TypeOK, RotatedAreProtected, [Next]_vars,
             loop.kind = "insert", loop' = Idle
      PROVE  total <= loop.limit \/ \A b \in Cached : Protected(b)
  <2>1. EndInsert
    <3>1. loop'.kind = "idle" /\ loop # Idle /\ loop' # loop
      BY <1>2 DEF Idle
    <3>2. ~SkipProtected /\ ~EvictUnprotected
      BY <1>2, <3>1 DEF SkipProtected, EvictUnprotected, TypeOK, LoopState
    <3>3. ~EndPrune /\ ~PruneOldest BY <1>2 DEF EndPrune, PruneOldest
    <3>4. \A n \in Limits : ~SetMaxBytes(n) /\ ~PruneTo(n)
      BY <3>1 DEF SetMaxBytes, PruneTo
    <3>5. \A b \in Blobs : ~Get(b) /\ \A n \in Sizes : ~BeginInsert(b, n)
      BY <3>1 DEF Get, BeginInsert
    <3>6. \A r, hexes :
             /\ ~AddOwners(r, hexes)
             /\ \A t \in Threads, opt \in Budgets \cup {None} :
                   ~RegisterMount(t, r, opt, hexes)
      BY <3>1 DEF AddOwners, RegisterMount, DivideAs
    <3>7. \A t \in Threads : /\ ~LoadLimit(t)
                             /\ \A r \in Repos : ~UnregisterMount(t, r)
      BY <3>1 DEF LoadLimit, UnregisterMount, DivideAs
    <3>8. ~UNCHANGED vars BY <3>1 DEF vars
    <3> QED BY <1>2, <3>2, <3>3, <3>4, <3>5, <3>6, <3>7, <3>8
            DEF Next, LoopStep, Shrink, BeginPrune
  <2>2. total \in Int /\ loop.limit \in Nat /\ loop.rotated \in Nat
        /\ Len(lru) \in Nat
    BY <1>2, LenProperties DEF TypeOK, LoopState
  <2>3. CASE lru = <<>>
    BY <2>3 DEF Cached
  <2>4. CASE AllSeen
    <3>1. \A i \in 1..Len(lru) : i > Len(lru) - loop.rotated
      BY <2>2, <2>4 DEF AllSeen
    <3> QED BY <1>2, <3>1 DEF RotatedAreProtected, Cached
  <2>5. CASE total <= loop.limit
    BY <2>5
  <2> QED BY <2>1, <2>2, <2>3, <2>4, <2>5 DEF EndInsert, OverLimit
<1>3. TypeOK /\ RotatedAreProtected /\ [Next]_vars
        => [loop.kind = "insert" /\ loop' = Idle =>
              total <= loop.limit \/ \A b \in Cached : Protected(b)]_vars
  BY <1>2
<1> QED
  BY <1>1, <1>3, TypeInit, TypeStep, RotatedStep, PTL
  DEF Spec, OverflowOnlyWhenAllProtected

\* An eviction loop, which holds the cache mutex, comes closer to its end at
\* every turn: it removes an entry or counts a rotation.
THEOREM LoopAdvancesCorrect == Spec => LoopAdvances
<1> DEFINE Closer ==
        \/ loop' = Idle
        \/ Len(lru') < Len(lru)
        \/ Len(lru') = Len(lru) /\ loop'.rotated > loop.rotated
<1>1. ASSUME TypeOK, [Next]_vars, loop # Idle, lru' # lru \/ loop' # loop
      PROVE  Closer
  <2>a. lru # <<>> => Len(lru) \in Nat /\ Len(Tail(lru)) = Len(lru) - 1
    BY <1>1, PopProperties DEF TypeOK, LruOK
  <2>1. CASE SkipProtected
    <3>1. lru # <<>> /\ lru' = Append(Tail(lru), Head(lru))
          /\ loop'.rotated = loop.rotated + 1
      BY <1>1, <2>1 DEF SkipProtected, OverLimit, CountRotation, TypeOK,
                        LoopState
    <3>2. Len(lru') = Len(lru)
      BY <1>1, <3>1, RotateProperties DEF TypeOK, LruOK
    <3>3. loop.rotated \in Nat BY <1>1 DEF TypeOK, LoopState
    <3> QED BY <3>1, <3>2, <3>3
  <2>2. CASE EvictUnprotected \/ PruneOldest
    <3>1. lru # <<>> /\ lru' = Tail(lru)
      BY <2>2 DEF EvictUnprotected, PruneOldest, OverLimit, PopOldest
    <3> QED BY <2>a, <3>1
  <2>3. CASE EndInsert \/ EndPrune
    BY <2>3 DEF EndInsert, EndPrune
  <2>4. \A b \in Blobs : ~Get(b) /\ \A n \in Sizes : ~BeginInsert(b, n)
    BY <1>1 DEF Get, BeginInsert
  <2>5. \A n \in Limits : ~SetMaxBytes(n) /\ ~PruneTo(n)
    BY <1>1 DEF SetMaxBytes, PruneTo
  <2>6. \A r, hexes :
           /\ ~AddOwners(r, hexes)
           /\ \A t \in Threads, opt \in Budgets \cup {None} :
                 ~RegisterMount(t, r, opt, hexes)
    BY <1>1 DEF AddOwners, RegisterMount
  <2>7. \A t \in Threads : /\ ~LoadLimit(t)
                           /\ \A r \in Repos : ~UnregisterMount(t, r)
    BY <1>1 DEF LoadLimit, UnregisterMount
  <2>8. ~UNCHANGED vars BY <1>1 DEF vars
  <2> QED BY <1>1, <2>1, <2>2, <2>3, <2>4, <2>5, <2>6, <2>7, <2>8
          DEF Next, LoopStep, Shrink, BeginPrune
<1>2. TypeOK /\ [Next]_vars
        => [loop # Idle /\ (lru' # lru \/ loop' # loop) => Closer]_vars
  BY <1>1
<1> QED
  BY <1>2, TypeInit, TypeStep, PTL DEF Spec, LoopAdvances

\* A repo within its reservation loses no cached blob to a step of anyone's
\* insertion, lookup, registration or unmount.
THEOREM BudgetCorrect == Spec => BudgetKeepsBlobs
<1>1. ASSUME TypeOK, [Next]_vars, loop.kind # "prune",
             NEW r \in Repos, WithinBudget(r)
      PROVE  {b \in Cached : r \in owners[b]} \subseteq Cached'
  <2>1. ASSUME NEW b \in Blobs, NEW n \in Sizes, BeginInsert(b, n)
        PROVE  Cached \subseteq Cached'
    BY <1>1, <2>1, InsertCached
  <2>2. CASE EvictUnprotected
    <3>1. PopOldest /\ lru # <<>> /\ ~Protected(Head(lru))
      BY <2>2 DEF EvictUnprotected, OverLimit
    <3>2. Cached' = Cached \ {Head(lru)} BY <1>1, <3>1, PopCached
    <3>3. r \notin owners[Head(lru)] BY <1>1, <3>1 DEF Protected
    <3> QED BY <3>2, <3>3
  <2>3. ~PruneOldest BY <1>1 DEF PruneOldest
  <2>4. CASE BookkeepingStep
    BY <1>1, <2>4, BookkeepingCached
  <2> QED BY <1>1, <2>1, <2>2, <2>3, <2>4, StepKinds
<1>2. TypeOK /\ [Next]_vars
        => [loop.kind # "prune" =>
              \A r \in Repos :
                 WithinBudget(r) =>
                   {b \in Cached : r \in owners[b]} \subseteq Cached']_vars
  BY <1>1
<1> QED BY <1>2, TypeInit, TypeStep, PTL DEF Spec, BudgetKeepsBlobs

-----------------------------------------------------------------------------
(* The rebalance.                                                          *)

\* A rebalance changes no refcount, no explicit flag and no explicit budget.
LEMMA RebalancedKeeps ==
    ASSUME NEW res \in [Repos -> Entry], NEW max \in Nat
    PROVE  /\ Registered(Rebalanced(res, max)) = Registered(res)
           /\ Explicit(Rebalanced(res, max)) = Explicit(res)
           /\ Default(Rebalanced(res, max)) = Default(res)
           /\ \A r \in Repos \ Default(res) : Rebalanced(res, max)[r] = res[r]
           /\ \A r \in Repos : /\ Rebalanced(res, max)[r].explicit = res[r].explicit
                               /\ Rebalanced(res, max)[r].refcount = res[r].refcount
           /\ \A r \in Default(res) : Rebalanced(res, max)[r].reserved = Share(res, max)
<1> DEFINE D == Default(res)
<1>1. \A r \in Repos \ D : Rebalanced(res, max)[r] = res[r] BY DEF Rebalanced
<1>2. D \subseteq Repos BY DEF Default, Registered
<1>3. ASSUME NEW r \in D
      PROVE  /\ Rebalanced(res, max)[r].explicit = res[r].explicit
             /\ Rebalanced(res, max)[r].refcount = res[r].refcount
             /\ Rebalanced(res, max)[r].reserved = Share(res, max)
  <2>1. Rebalanced(res, max)[r] = [res[r] EXCEPT !.reserved = Share(res, max)]
    BY <1>2 DEF Rebalanced
  <2>2. res[r] \in Entry BY <1>2
  <2> QED BY <2>1, <2>2 DEF Entry
<1>4. \A r \in Repos : /\ Rebalanced(res, max)[r].explicit = res[r].explicit
                       /\ Rebalanced(res, max)[r].refcount = res[r].refcount
  BY <1>1, <1>3
<1>5. Registered(Rebalanced(res, max)) = Registered(res) BY <1>4 DEF Registered
<1>6. Explicit(Rebalanced(res, max)) = Explicit(res)
  BY <1>4, <1>5 DEF Explicit, Registered
<1> QED BY <1>1, <1>3, <1>4, <1>5, <1>6 DEF Default

\* After a rebalance the default budgets are equal and fit into what the
\* explicit ones leave of the limit they were made from.
LEMMA RebalancedFits ==
    ASSUME NEW res \in [Repos -> Entry], NEW max \in Nat
    PROVE  LET new == Rebalanced(res, max)
               D   == Default(new)
           IN  /\ Bytes(Reserved(new), D) <= Pool(new, max)
               /\ \A r, s \in D : new[r].reserved = new[s].reserved
<1> DEFINE new == Rebalanced(res, max)
           D == Default(res)
<1>1. /\ Default(new) = D
      /\ Explicit(new) = Explicit(res)
      /\ \A r \in Repos \ D : new[r] = res[r]
      /\ \A r \in D : new[r].reserved = Share(res, max)
  BY RebalancedKeeps
<1>2. D \subseteq Repos /\ Explicit(res) \subseteq Repos \ D
  BY DEF Default, Explicit, Registered
<1> HIDE DEF new, D
<1>3. ExplicitTotal(new) = ExplicitTotal(res)
  <2>1. \A r \in Explicit(res) : Reserved(new)[r] = Reserved(res)[r]
    BY <1>1, <1>2 DEF Reserved
  <2> QED BY <1>1, <2>1, BytesCongruence DEF ExplicitTotal
<1>4. Pool(new, max) = Pool(res, max) BY <1>3 DEF Pool
<1>5. /\ IsFiniteSet(D) /\ Cardinality(D) \in Nat /\ Pool(res, max) \in Nat
      /\ D # {} => Cardinality(D) # 0
      /\ Share(res, max) \in Nat
  BY PoolType, ShareType DEF D
<1>6. Bytes(Reserved(new), D) = Cardinality(D) * Share(res, max)
  <2>1. \A r \in D : Reserved(new)[r] = Share(res, max) BY <1>1, <1>2 DEF Reserved
  <2> QED BY <1>5, <2>1, BytesConstant
<1>7. Cardinality(D) * Share(res, max) <= Pool(res, max)
  <2>1. CASE D = {}
    <3>1. Cardinality(D) = 0 /\ Share(res, max) = 0
      BY <2>1, FS_EmptySet DEF Share, D
    <3> QED BY <1>5, <3>1
  <2>2. CASE D # {}
    <3>1. Share(res, max) = Pool(res, max) \div Cardinality(D) BY <2>2 DEF Share, D
    <3> QED BY <1>5, <2>2, <3>1, DivProperties
  <2> QED BY <2>1, <2>2
<1> QED BY <1>1, <1>4, <1>6, <1>7 DEF new

\* The reservation table changes only by a rebalance of a well-formed table.
LEMMA TableChanges ==
    ASSUME TypeOK, [Next]_vars,
           reservations' # reservations \/ divided' # divided
    PROVE  \E t \in Threads, r \in Repos, res \in [Repos -> Entry] :
              /\ loaded[t] # None /\ DivideAs(t, res)
              /\ \A s \in Repos \ {r} : res[s] = reservations[s]
              /\ \/ /\ res[r].explicit = reservations[r].explicit
                    /\ res[r].reserved = reservations[r].reserved
                 \/ res[r].explicit /\ res[r].refcount > reservations[r].refcount
                 \/ res[r].refcount = 0
<1>1. reservations \in [Repos -> Entry] BY DEF TypeOK
<1>2. ASSUME NEW t \in Threads, NEW r \in Repos,
             NEW opt \in Budgets \cup {None}, NEW hexes \in Seeds,
             RegisterMount(t, r, opt, hexes)
      PROVE  \E res \in [Repos -> Entry] :
              /\ loaded[t] # None /\ DivideAs(t, res)
              /\ \A s \in Repos \ {r} : res[s] = reservations[s]
              /\ \/ /\ res[r].explicit = reservations[r].explicit
                    /\ res[r].reserved = reservations[r].reserved
                 \/ res[r].explicit /\ res[r].refcount > reservations[r].refcount
  <2> DEFINE old == reservations[r]
             new == [reserved |-> IF opt = None THEN old.reserved ELSE opt,
                     explicit |-> old.explicit \/ opt # None,
                     refcount |-> old.refcount + 1]
             res == [reservations EXCEPT ![r] = new]
  <2>1. new \in Entry /\ old \in Entry BY <1>1, BlobCacheAssumption DEF Entry
  <2>2. loaded[t] # None /\ DivideAs(t, res)
    BY <1>2 DEF RegisterMount
  <2>3. \/ new.explicit = old.explicit /\ new.reserved = old.reserved
        \/ new.explicit /\ new.refcount > old.refcount
    <3>1. CASE opt = None
      <4>1. old.explicit \in BOOLEAN BY <2>1 DEF Entry
      <4>2. new.explicit = old.explicit BY <3>1, <4>1
      <4> QED BY <3>1, <4>2
    <3>2. CASE opt # None
      <4>1. new.refcount = old.refcount + 1 /\ old.refcount \in Nat
        BY <2>1 DEF Entry
      <4>2. new.refcount > old.refcount
        <5> HIDE DEF new, old
        <5> QED BY <4>1
      <4>3. new.explicit BY <3>2
      <4> QED BY <4>2, <4>3
    <3> QED BY <3>1, <3>2
  <2> HIDE DEF new
  <2>4. res \in [Repos -> Entry] /\ res[r] = new BY <1>1, <2>1
  <2>5. \A s \in Repos \ {r} : res[s] = reservations[s] BY <1>1
  <2> HIDE DEF res
  <2> QED BY <2>2, <2>3, <2>4, <2>5
<1>3. ASSUME NEW t \in Threads, NEW r \in Repos, UnregisterMount(t, r)
      PROVE  \E res \in [Repos -> Entry] :
              /\ loaded[t] # None /\ DivideAs(t, res)
              /\ \A s \in Repos \ {r} : res[s] = reservations[s]
              /\ \/ /\ res[r].explicit = reservations[r].explicit
                    /\ res[r].reserved = reservations[r].reserved
                 \/ res[r].refcount = 0
  <2>1. CASE reservations[r].refcount = 1
    <3> DEFINE res == [reservations EXCEPT ![r] = NoEntry]
    <3>1. loaded[t] # None /\ DivideAs(t, res)
    BY <1>3, <2>1 DEF UnregisterMount
    <3>2. res \in [Repos -> Entry] /\ res[r].refcount = 0
      BY <1>1 DEF NoEntry, Entry
    <3>3. \A s \in Repos \ {r} : res[s] = reservations[s] BY <1>1
    <3> HIDE DEF res
    <3> QED BY <3>1, <3>2, <3>3
  <2>2. CASE reservations[r].refcount # 1
    <3> DEFINE res == [reservations EXCEPT ![r].refcount =
                                   IF @ = 0 THEN 0 ELSE @ - 1]
    <3>1. loaded[t] # None /\ DivideAs(t, res)
    BY <1>3, <2>2 DEF UnregisterMount
    <3>2. res \in [Repos -> Entry] /\ res[r].explicit = reservations[r].explicit
          /\ res[r].reserved = reservations[r].reserved
      BY <1>1 DEF Entry
    <3>3. \A s \in Repos \ {r} : res[s] = reservations[s] BY <1>1
    <3> HIDE DEF res
    <3> QED BY <3>1, <3>2, <3>3
  <2> QED BY <2>1, <2>2
<1>4. \/ \E t \in Threads, r \in Repos, opt \in Budgets \cup {None},
            hexes \in Seeds : RegisterMount(t, r, opt, hexes)
      \/ \E t \in Threads, r \in Repos : UnregisterMount(t, r)
  BY DEF Next, LoopStep, BeginInsert, SkipProtected, EvictUnprotected, EndInsert,
         EndPrune, PruneOldest, SetMaxBytes, Shrink, BeginPrune, PruneTo, Get,
         AddOwners, LoadLimit, vars
<1> QED BY <1>2, <1>3, <1>4

\* The strengthening behind it: the default shares, if there are any, are equal
\* and fit into what the explicit ones leave of the limit that they were made
\* from, whatever the limit is now.
SharesOfDivided ==
    LET D == Default(reservations)
    IN  /\ \A r, s \in D : reservations[r].reserved = reservations[s].reserved
        /\ divided # None
             => Bytes(Reserved(reservations), D) <= Pool(reservations, divided)

\* However the limit changes and however long a call waits for the lock with
\* the limit it loaded, default reservations are equal, and promise no byte
\* twice of the limit they were made from.
THEOREM DefaultsCorrect == Spec => []DefaultsFitPool
<1>1. Init => SharesOfDivided
  BY DEF Init, SharesOfDivided, Default, Registered, NoEntry
<1>2. ASSUME TypeOK, SharesOfDivided, [Next]_vars PROVE SharesOfDivided'
  <2>1. CASE reservations' = reservations /\ divided' = divided
    BY <1>2, <2>1 DEF SharesOfDivided, Default, Explicit, Registered, Reserved,
                      Bytes, Pool, ExplicitTotal
  <2>2. CASE reservations' # reservations \/ divided' # divided
    <3>1. PICK t \in Threads, res \in [Repos -> Entry] :
              loaded[t] # None /\ DivideAs(t, res)
      BY <1>2, <2>2, TableChanges
    <3>2. loaded[t] \in Nat BY <1>2, <3>1, BlobCacheAssumption DEF TypeOK
    <3> DEFINE new == Rebalanced(res, loaded[t])
    <3>3. reservations' = new /\ divided' \in {None, loaded[t]}
      BY <3>1 DEF DivideAs
    <3>4. /\ Bytes(Reserved(new), Default(new)) <= Pool(new, loaded[t])
          /\ \A r, s \in Default(new) : new[r].reserved = new[s].reserved
      BY <3>2, RebalancedFits
    <3> HIDE DEF new
    <3> QED BY <3>3, <3>4 DEF SharesOfDivided, Default, Explicit, Registered,
                               Reserved, Bytes, Pool, ExplicitTotal
  <2> QED BY <2>1, <2>2
<1>3. TypeOK /\ SharesOfDivided => DefaultsFitPool
  BY BlobCacheAssumption DEF TypeOK, SharesOfDivided, DefaultsFitPool
<1> QED BY <1>1, <1>2, <1>3, TypeInit, TypeStep, PTL DEF Spec

\* An explicit reservation stays what its mount asked for, through every
\* rebalance that other mounts cause, until a later mount replaces it.
THEOREM ExplicitCorrect == Spec => ExplicitIsKept
<1>1. ASSUME TypeOK, [Next]_vars, NEW r \in Repos,
             reservations[r].explicit, reservations'[r].refcount > 0
      PROVE  /\ reservations'[r].explicit
             /\ \/ reservations'[r].reserved = reservations[r].reserved
                \/ reservations'[r].refcount > reservations[r].refcount
  <2>1. CASE reservations' = reservations BY <1>1, <2>1
  <2>2. CASE reservations' # reservations
    <3>1. PICK t \in Threads, s \in Repos, res \in [Repos -> Entry] :
              /\ loaded[t] # None /\ DivideAs(t, res)
              /\ \A q \in Repos \ {s} : res[q] = reservations[q]
              /\ \/ /\ res[s].explicit = reservations[s].explicit
                    /\ res[s].reserved = reservations[s].reserved
                 \/ res[s].explicit /\ res[s].refcount > reservations[s].refcount
                 \/ res[s].refcount = 0
      BY <1>1, <2>2, TableChanges
    <3>2. loaded[t] \in Nat BY <1>1, <3>1, BlobCacheAssumption DEF TypeOK
    <3>a. reservations' = Rebalanced(res, loaded[t]) BY <3>1 DEF DivideAs
    <3>b. res[r].refcount > 0 /\ res[r].explicit = reservations'[r].explicit
      BY <1>1, <3>a, <3>2, RebalancedKeeps
    <3>3. res[r].refcount > 0 /\ res[r].explicit
      <4>1. CASE r # s BY <1>1, <3>1, <3>b, <4>1
      <4>2. CASE r = s BY <1>1, <3>1, <3>b, <4>2
      <4> QED BY <4>1, <4>2
    <3>4. r \notin Default(res)
      BY <3>3 DEF Default, Explicit, Registered
    <3>5. reservations'[r] = res[r]
      BY <3>a, <3>2, <3>4, RebalancedKeeps
    <3> QED BY <3>1, <3>3, <3>5
  <2> QED BY <2>1, <2>2
<1>2. TypeOK /\ [Next]_vars
        => [\A r \in Repos :
              /\ reservations[r].explicit
              /\ reservations'[r].refcount > 0
              => /\ reservations'[r].explicit
                 /\ \/ reservations'[r].reserved = reservations[r].reserved
                    \/ reservations'[r].refcount > reservations[r].refcount]_vars
  BY <1>1
<1> QED BY <1>2, TypeInit, TypeStep, PTL DEF Spec, ExplicitIsKept

-----------------------------------------------------------------------------
(* The files of the cache.                                                 *)

\* What a file may hold.
Contents == {"absent", "partial", "whole"}

\* What FilesTypeOK says of each thread.
WriterOK(w) ==
    /\ writer[w].pc \in {"writing", "staging", "stored"}
         => writer[w].blob \in Digests
    /\ writer[w].attached
         => /\ writer[w].pc = "writing"
            /\ file[Canonical(writer[w].blob)] # "absent"
    /\ writer[w].pending # {} => writer[w].pc = "unlinking"

\* The file at p is known to the index or the history, or thread w will insert
\* its entry or unlink it.
CountedBy(w, p) ==
    \/ index[p[1]] = p[2]
    \/ p \in orphans
    \/ /\ writer[w].pc = "stored" \/ writer[w].attached
       /\ p = Canonical(writer[w].blob)
    \/ p \in writer[w].pending

\* Thread w truncated the file at p last and is writing it.
WrittenBy(w, p) ==
    /\ truncator[p] = w
    /\ writer[w].attached
    /\ p = Canonical(writer[w].blob)

\* A file is cut short by a put under way, or by one that failed or crashed.
PartialsExplained ==
    \A p \in Path : file[p] = "partial" => BeingWritten(p) \/ p \in broken

\* The inductive invariant about the files.
FilesInv == FilesTypeOK /\ NoUncountedFiles /\ PartialsExplained

\* A step of another thread that renames over or unlinks the paths `hit` only
\* takes from thread v the file it had open there.
Kept(v, hit) ==
    /\ writer'[v].pc = writer[v].pc
    /\ writer'[v].blob = writer[v].blob
    /\ writer'[v].pending = writer[v].pending
    /\ writer'[v].attached
         <=> writer[v].attached /\ Canonical(writer[v].blob) \notin hit

\* A blob's canonical path is a path, and no other blob's.
LEMMA CanonicalPath ==
    /\ \A b \in Digests : Canonical(b) \in Path
    /\ \A b, c \in Digests : Canonical(b) = Canonical(c) => b = c
BY BlobFilesAssumption DEF Canonical, Path

\* Detaching descriptors from p changes nothing but `attached`.
LEMMA DetachedKeeps ==
    ASSUME FilesTypeOK, NEW p
    PROVE  /\ Detached(p) \in [Writers -> Writer]
           /\ \A v \in Writers :
                 /\ Detached(p)[v].pc = writer[v].pc
                 /\ Detached(p)[v].blob = writer[v].blob
                 /\ Detached(p)[v].pending = writer[v].pending
                 /\ Detached(p)[v].attached
                      <=> /\ writer[v].attached
                          /\ Canonical(writer[v].blob) \notin {p}
<1> SUFFICES ASSUME NEW v \in Writers
             PROVE  /\ Detached(p)[v] \in Writer
                    /\ Detached(p)[v].pc = writer[v].pc
                    /\ Detached(p)[v].blob = writer[v].blob
                    /\ Detached(p)[v].pending = writer[v].pending
                    /\ Detached(p)[v].attached
                         <=> /\ writer[v].attached
                             /\ Canonical(writer[v].blob) \notin {p}
  BY DEF Detached
<1>1. /\ writer[v] \in Writer
      /\ writer[v].attached => writer[v].pc = "writing"
  BY DEF FilesTypeOK
<1>2. CASE writer[v].pc = "writing" /\ Canonical(writer[v].blob) = p
  <2>1. Detached(p)[v] = [writer[v] EXCEPT !.attached = FALSE]
    BY <1>2 DEF Detached
  <2> QED BY <1>1, <1>2, <2>1 DEF Writer
<1>3. CASE ~(writer[v].pc = "writing" /\ Canonical(writer[v].blob) = p)
  <2>1. Detached(p)[v] = writer[v] BY <1>3 DEF Detached
  <2> QED BY <1>1, <1>3, <2>1
<1> QED BY <1>2, <1>3

\* What a step of thread w has to show to keep the invariant.
LEMMA FilesKept ==
    ASSUME FilesInv, NEW w \in Writers, NEW hit,
           /\ file' \in [Path -> Contents]
           /\ truncator' \in [Path -> Writers \cup {Nothing}]
           /\ index' \in [Digests -> Algos \cup {Nothing}]
           /\ writer' \in [Writers -> Writer]
           /\ orphans' \subseteq Path /\ broken' \subseteq Path
           /\ UNCHANGED <<reader, crashes>>,
           WriterOK(w)', \A v \in Writers \ {w} : Kept(v, hit),
           \A q \in Path \ hit : file[q] # "absent" => file'[q] # "absent",
           \A q \in Path : file'[q] # "absent"
              => \/ CountedBy(w, q)'
                 \/ /\ q \notin hit /\ file[q] # "absent"
                    /\ ~CountedBy(w, q),
           \A q \in Path : file'[q] = "partial"
              => \/ WrittenBy(w, q)'
                 \/ q \in broken'
                 \/ /\ q \notin hit /\ q \notin broken /\ ~WrittenBy(w, q)
                    /\ file[q] = "partial" /\ truncator'[q] = truncator[q]
    PROVE  FilesInv'
<1>1. FilesTypeOK'
  <2>1. ASSUME NEW v \in Writers \ {w} PROVE WriterOK(v)'
    <3>1. WriterOK(v) BY DEF FilesInv, FilesTypeOK, WriterOK
    <3>2. Kept(v, hit) OBVIOUS
    <3>3. ASSUME writer'[v].attached
          PROVE  file'[Canonical(writer'[v].blob)] # "absent"
      <4>1. /\ writer[v].attached /\ Canonical(writer[v].blob) \notin hit
            /\ writer[v].pc = "writing" /\ writer[v].blob \in Digests
            /\ file[Canonical(writer[v].blob)] # "absent"
        BY <3>1, <3>2, <3>3 DEF Kept, WriterOK
      <4>2. Canonical(writer[v].blob) \in Path \ hit BY <4>1, CanonicalPath
      <4> QED BY <3>2, <4>1, <4>2 DEF Kept
    <3>4. writer'[v].attached => writer'[v].pc = "writing"
      BY <3>1, <3>2 DEF Kept, WriterOK
    <3>5. /\ writer'[v].pc \in {"writing", "staging", "stored"}
                => writer'[v].blob \in Digests
          /\ writer'[v].pending # {} => writer'[v].pc = "unlinking"
      BY <3>1, <3>2 DEF Kept, WriterOK
    <3> QED BY <3>3, <3>4, <3>5 DEF WriterOK
  <2>2. \A v \in Writers : WriterOK(v)' BY <2>1
  <2>3. reader' \in [Readers -> Reader] /\ crashes' \in 0..MaxCrashes
    BY DEF FilesInv, FilesTypeOK
  <2> QED BY <2>2, <2>3 DEF FilesTypeOK, WriterOK, Contents
<1>2. NoUncountedFiles'
  <2> SUFFICES ASSUME NEW q \in Path, file'[q] # "absent", ~CountedBy(w, q)'
               PROVE  \E v \in Writers : CountedBy(v, q)'
    BY DEF NoUncountedFiles, CountedBy
  <2>1. q \notin hit /\ file[q] # "absent" /\ ~CountedBy(w, q) OBVIOUS
  <2>2. PICK v \in Writers : CountedBy(v, q)
    BY <2>1 DEF FilesInv, NoUncountedFiles, CountedBy
  <2>3. v # w BY <2>1, <2>2
  <2>4. \/ /\ writer[v].pc = "stored" \/ writer[v].attached
           /\ q = Canonical(writer[v].blob)
        \/ q \in writer[v].pending
    BY <2>1, <2>2 DEF CountedBy
  <2>5. Kept(v, hit) BY <2>3
  <2>6. CountedBy(v, q)' BY <2>1, <2>4, <2>5 DEF Kept, CountedBy
  <2> QED BY <2>6
<1>3. PartialsExplained'
  <2> SUFFICES ASSUME NEW q \in Path, file'[q] = "partial",
                      ~WrittenBy(w, q)', q \notin broken'
               PROVE  \E v \in Writers : WrittenBy(v, q)'
    BY DEF PartialsExplained, BeingWritten, WrittenBy
  <2>1. /\ q \notin hit /\ q \notin broken /\ ~WrittenBy(w, q)
        /\ file[q] = "partial" /\ truncator'[q] = truncator[q]
    OBVIOUS
  <2>2. PICK v \in Writers : WrittenBy(v, q)
    BY <2>1 DEF FilesInv, PartialsExplained, BeingWritten, WrittenBy
  <2>3. v # w BY <2>1, <2>2
  <2>4. Kept(v, hit) BY <2>3
  <2>5. WrittenBy(v, q)' BY <2>1, <2>2, <2>4 DEF Kept, WrittenBy
  <2> QED BY <2>5
<1> QED BY <1>1, <1>2, <1>3 DEF FilesInv

\* A file left by the deduplication is the one its index entry names.
LEMMA KeptIsIndexed ==
    ASSUME NEW fs \in [Path -> Contents], NEW q \in Path,
           fs[q] # "absent", q \notin Duplicates(fs)
    PROVE  Rebuilt(fs)[q[1]] = q[2]
<1>1. q[1] \in Digests /\ q[2] \in Algos /\ q = <<q[1], q[2]>> BY DEF Path
<1>2. CASE q[2] = "sha1" BY <1>1, <1>2 DEF Rebuilt
<1>3. CASE q[2] = "sha256"
  <2>1. fs[<<q[1], "sha1">>] = "absent" BY <1>3 DEF Duplicates
  <2> QED BY <1>1, <1>3, <2>1 DEF Rebuilt
<1> QED BY <1>1, <1>2, <1>3 DEF Algos

\* A restart counts every file but the duplicates it cannot remove.
LEMMA OpenedCounts ==
    ASSUME file \in [Path -> Contents], Opened(file),
           truncator' = [q \in Path |-> Nothing],
           writer' = [w \in Writers |-> IdleWriter],
           reader' \in [Readers -> Reader], crashes' \in 0..MaxCrashes
    PROVE  FilesInv'
<1>1. PICK stuck \in SUBSET Duplicates(file) :
         /\ file' = Without(file, Duplicates(file) \ stuck)
         /\ orphans' = stuck
         /\ broken' = {p \in Path : file'[p] = "partial"}
  BY DEF Opened
<1>2. index' = Rebuilt(file) BY DEF Opened
<1>3. stuck \subseteq Path BY DEF Duplicates
<1>4. FilesTypeOK'
  <2>1. file' \in [Path -> Contents] BY <1>1 DEF Without, Contents
  <2>2. index' \in [Digests -> Algos \cup {Nothing}] BY <1>2 DEF Rebuilt, Algos
  <2>3. /\ writer' \in [Writers -> Writer]
        /\ \A w \in Writers : writer'[w] = IdleWriter
    BY DEF IdleWriter, Writer
  <2>4. truncator' \in [Path -> Writers \cup {Nothing}] OBVIOUS
  <2> QED BY <1>1, <1>3, <2>1, <2>2, <2>3, <2>4
          DEF FilesTypeOK, IdleWriter, Contents
<1>5. ASSUME NEW q \in Path, file'[q] # "absent"
      PROVE  index'[q[1]] = q[2] \/ q \in orphans'
  <2>1. file[q] # "absent" /\ (q \notin Duplicates(file) \/ q \in stuck)
    BY <1>1, <1>5 DEF Without
  <2> QED BY <1>1, <1>2, <2>1, KeptIsIndexed
<1>6. NoUncountedFiles' BY <1>5 DEF NoUncountedFiles
<1>7. PartialsExplained' BY <1>1 DEF PartialsExplained
<1> QED BY <1>4, <1>6, <1>7 DEF FilesInv

\* One step keeps every file counted and every cut-short file explained.
LEMMA FilesStep == FilesInv /\ [FilesNext]_filesVars => FilesInv'
<1> SUFFICES ASSUME FilesInv, [FilesNext]_filesVars PROVE FilesInv'
  OBVIOUS
<1>a. FilesTypeOK BY DEF FilesInv
<1>b. \A w \in Writers : writer[w] \in Writer /\ WriterOK(w)
  BY <1>a DEF FilesTypeOK, WriterOK
<1>c. /\ \A b \in Digests : Canonical(b) \in Path
      /\ \A b, c \in Digests : Canonical(b) = Canonical(c) => b = c
  BY CanonicalPath
<1>d. IdleWriter \in Writer BY DEF IdleWriter, Writer
\* A thread with no file open leaves alone what it does not account for.
<1>e. ASSUME NEW w \in Writers, NEW new \in Writer,
             writer' = [writer EXCEPT ![w] = new]
      PROVE  /\ writer' \in [Writers -> Writer] /\ writer'[w] = new
             /\ \A v \in Writers \ {w} : Kept(v, {})
  BY <1>a, <1>e DEF FilesTypeOK, Kept
<1>1. ASSUME NEW w \in Writers, NEW b \in Digests, PutOpen(w, b) PROVE FilesInv'
  <2> DEFINE new == [Start(w, "writing", b) EXCEPT !.attached = TRUE]
             p == Canonical(b)
  <2>1. /\ new \in Writer /\ new.pc = "writing" /\ new.blob = b
        /\ new.attached = TRUE /\ new.pending = {}
    BY DEF Start, IdleWriter, Writer
  <2>2. writer' = [writer EXCEPT ![w] = new] /\ writer[w].pc = "idle"
    BY <1>1 DEF PutOpen
  <2> HIDE DEF new
  <2>3. /\ writer' \in [Writers -> Writer] /\ writer'[w] = new
        /\ \A v \in Writers \ {w} : Kept(v, {})
    BY <1>e, <2>1, <2>2
  <2>4. /\ file' = [file EXCEPT ![p] = "partial"]
        /\ truncator' = [truncator EXCEPT ![p] = w]
        /\ UNCHANGED <<index, reader, crashes, orphans, broken>>
    BY <1>1 DEF PutOpen
  <2>5. p \in Path BY <1>c
  <2>6. writer[w].pending = {} /\ ~writer[w].attached
    BY <1>b, <2>2 DEF WriterOK
  <2> HIDE DEF p
  <2>7. /\ file' \in [Path -> Contents]
        /\ truncator' \in [Path -> Writers \cup {Nothing}]
        /\ file'[p] = "partial" /\ truncator'[p] = w
        /\ \A q \in Path : q # p => file'[q] = file[q] /\ truncator'[q] = truncator[q]
    BY <1>a, <2>4, <2>5 DEF FilesTypeOK, Contents
  <2>8. WriterOK(w)' BY <2>1, <2>3, <2>7 DEF WriterOK, p
  <2>9. CountedBy(w, p)' /\ WrittenBy(w, p)'
    BY <2>1, <2>3, <2>7 DEF CountedBy, WrittenBy, p
  <2>10. \A q \in Path : CountedBy(w, q) => index[q[1]] = q[2] \/ q \in orphans
    BY <2>2, <2>6 DEF CountedBy
  <2>11. \A q \in Path : CountedBy(w, q) => CountedBy(w, q)'
    BY <2>4, <2>10 DEF CountedBy
  <2>12. \A q : ~WrittenBy(w, q) BY <2>6 DEF WrittenBy
  <2>13. \A q \in Path \ {} : file[q] # "absent" => file'[q] # "absent"
    BY <2>7
  <2>14. \A q \in Path : file'[q] # "absent"
            => \/ CountedBy(w, q)'
               \/ q \notin {} /\ file[q] # "absent" /\ ~CountedBy(w, q)
    BY <2>7, <2>9, <2>11
  <2>15. \A q \in Path : file'[q] = "partial"
            => \/ WrittenBy(w, q)'
               \/ q \in broken'
               \/ /\ q \notin {} /\ q \notin broken /\ ~WrittenBy(w, q)
                  /\ file[q] = "partial" /\ truncator'[q] = truncator[q]
    BY <2>4, <2>7, <2>9, <2>12
  <2> QED
    BY <1>a, <2>3, <2>4, <2>7, <2>8, <2>13, <2>14, <2>15, FilesKept
    DEF FilesTypeOK
<1>2. ASSUME NEW w \in Writers, PutDone(w) PROVE FilesInv'
  <2> DEFINE new == [writer[w] EXCEPT !.pc = "stored", !.attached = FALSE]
             p == Canonical(writer[w].blob)
  <2>1. /\ new \in Writer /\ new.pc = "stored" /\ new.blob = writer[w].blob
        /\ new.attached = FALSE /\ new.pending = writer[w].pending
    BY <1>b DEF Writer
  <2>2. writer' = [writer EXCEPT ![w] = new] /\ writer[w].pc = "writing"
        /\ UNCHANGED <<truncator, index, reader, crashes, orphans>>
    BY <1>2, <1>a DEF PutDone, FilesTypeOK
  <2> HIDE DEF new
  <2>3. /\ writer' \in [Writers -> Writer] /\ writer'[w] = new
        /\ \A v \in Writers \ {w} : Kept(v, {})
    BY <1>e, <2>1, <2>2
  <2>4. writer[w].blob \in Digests /\ writer[w].pending = {}
    BY <1>b, <2>2 DEF WriterOK
  <2>5. p \in Path /\ (writer[w].attached => file[p] # "absent")
    BY <1>b, <1>c, <2>4 DEF WriterOK
  <2>6. \/ ~writer[w].attached /\ UNCHANGED <<file, broken>>
        \/ /\ writer[w].attached
           /\ \E content \in {"whole", file[p]} :
                 /\ truncator[p] = w => content = "whole"
                 /\ file' = [file EXCEPT ![p] = content]
                 /\ broken' = IF content = "whole" THEN broken \ {p} ELSE broken
    BY <1>2 DEF PutDone
  <2>p. p = Canonical(new.blob) BY <2>1
  <2> HIDE DEF p
  <2>7. /\ file' \in [Path -> Contents] /\ broken' \subseteq Path
        /\ \A q \in Path : q # p => file'[q] = file[q]
        /\ \A q \in Path : q \in broken => q \in broken' \/ q = p
        /\ writer[w].attached =>
              \/ file'[p] = "whole"
              \/ file'[p] = file[p] /\ truncator[p] # w /\ broken' = broken
        /\ ~writer[w].attached => file' = file /\ broken' = broken
    <3>1. CASE ~writer[w].attached
      BY <1>a, <2>6, <3>1 DEF FilesTypeOK, Contents
    <3>2. CASE writer[w].attached
      <4>1. PICK content \in {"whole", file[p]} :
                 /\ truncator[p] = w => content = "whole"
                 /\ file' = [file EXCEPT ![p] = content]
                 /\ broken' = IF content = "whole" THEN broken \ {p} ELSE broken
        BY <2>6, <3>2
      <4>2. content \in Contents BY <1>a, <2>5 DEF FilesTypeOK, Contents
      <4> QED BY <1>a, <2>5, <3>2, <4>1, <4>2 DEF FilesTypeOK, Contents
    <3> QED BY <3>1, <3>2
  <2>8. \A q \in Path : file[q] # "absent" <=> file'[q] # "absent"
    BY <2>5, <2>7
  <2>9. WriterOK(w)' BY <2>1, <2>3, <2>4 DEF WriterOK
  <2>10. \A q \in Path : CountedBy(w, q) => CountedBy(w, q)'
    <3>1. TAKE q \in Path
    <3>2. HAVE CountedBy(w, q)
    <3>3. \/ index[q[1]] = q[2]
          \/ q \in orphans
          \/ q = p
      BY <2>2, <2>4, <3>2 DEF CountedBy, p
    <3>4. q = p => CountedBy(w, q)'
      BY <2>1, <2>3, <2>p DEF CountedBy
    <3> QED BY <2>2, <3>3, <3>4 DEF CountedBy
  <2>11. \A q \in Path : file'[q] # "absent"
            => \/ CountedBy(w, q)'
               \/ q \notin {} /\ file[q] # "absent" /\ ~CountedBy(w, q)
    BY <2>8, <2>10
  <2>12. \A q \in Path : q # p => ~WrittenBy(w, q) BY DEF WrittenBy, p
  <2>13. ASSUME NEW q \in Path, file'[q] = "partial"
         PROVE  \/ WrittenBy(w, q)'
                \/ q \in broken'
                \/ /\ q \notin {} /\ q \notin broken /\ ~WrittenBy(w, q)
                   /\ file[q] = "partial" /\ truncator'[q] = truncator[q]
    <3>1. ~WrittenBy(w, q) BY <2>7, <2>12, <2>13 DEF WrittenBy
    <3>2. file[q] = "partial" BY <2>7, <2>13
    <3>3. q \in broken => q \in broken' BY <2>7, <2>13
    <3> QED BY <2>2, <3>1, <3>2, <3>3
  <2> QED
    BY <1>a, <2>2, <2>3, <2>7, <2>8, <2>9, <2>11, <2>13, FilesKept
    DEF FilesTypeOK
\* A step of w that touches no file.
<1>f. ASSUME NEW w \in Writers, NEW new \in Writer,
             writer' = [writer EXCEPT ![w] = new],
             UNCHANGED <<file, truncator, reader, crashes>>,
             index' \in [Digests -> Algos \cup {Nothing}],
             orphans' \subseteq Path, broken' \subseteq Path,
             broken \subseteq broken',
             new.attached = FALSE,
             new.pc \in {"writing", "staging", "stored"} => new.blob \in Digests,
             new.pending # {} => new.pc = "unlinking",
             \A q \in Path : /\ file[q] # "absent"
                             /\ CountedBy(w, q)
                             => CountedBy(w, q)',
             \A q \in Path : file[q] = "partial" /\ WrittenBy(w, q) => q \in broken'
      PROVE  FilesInv'
  <2>1. /\ writer' \in [Writers -> Writer] /\ writer'[w] = new
        /\ \A v \in Writers \ {w} : Kept(v, {})
    BY <1>e, <1>f
  <2>2. WriterOK(w)' BY <1>f, <2>1 DEF WriterOK
  <2>3. \A q \in Path : file'[q] # "absent"
           => \/ CountedBy(w, q)'
              \/ q \notin {} /\ file[q] # "absent" /\ ~CountedBy(w, q)
    BY <1>f
  <2>4. \A q \in Path : file'[q] = "partial"
           => \/ WrittenBy(w, q)'
              \/ q \in broken'
              \/ /\ q \notin {} /\ q \notin broken /\ ~WrittenBy(w, q)
                 /\ file[q] = "partial" /\ truncator'[q] = truncator[q]
    BY <1>f
  <2>5. /\ file' \in [Path -> Contents]
        /\ truncator' \in [Path -> Writers \cup {Nothing}]
        /\ \A q \in Path \ {} : file[q] # "absent" => file'[q] # "absent"
    BY <1>a, <1>f DEF FilesTypeOK, Contents
  <2> QED BY <1>f, <2>1, <2>2, <2>3, <2>4, <2>5, FilesKept
<1>3. ASSUME NEW w \in Writers, PutFail(w) PROVE FilesInv'
  <2> DEFINE p == Canonical(writer[w].blob)
             left == IF writer[w].attached THEN {p} ELSE {}
  <2>1. /\ writer' = [writer EXCEPT ![w] = IdleWriter]
        /\ writer[w].pc = "writing"
        /\ UNCHANGED <<file, truncator, index, reader, crashes>>
        /\ orphans' = orphans \cup {q \in left : index[q[1]] # q[2]}
        /\ broken' = broken \cup {q \in left : file[q] = "partial"}
    BY <1>3 DEF PutFail
  <2>2. writer[w].pending = {} /\ p \in Path
    BY <1>b, <1>c, <2>1 DEF WriterOK
  <2>3. /\ IdleWriter.attached = FALSE /\ IdleWriter.pc = "idle"
        /\ IdleWriter.pending = {}
    BY DEF IdleWriter
  <2>4. left \subseteq Path BY <2>2
  <2>5. ASSUME NEW q \in Path, CountedBy(w, q) PROVE CountedBy(w, q)'
    <3>1. index[q[1]] = q[2] \/ q \in orphans \/ q \in left
      BY <2>1, <2>2, <2>5 DEF CountedBy
    <3>2. index'[q[1]] = q[2] \/ q \in orphans' BY <2>1, <3>1
    <3> QED BY <3>2 DEF CountedBy
  <2>6. ASSUME NEW q \in Path, file[q] = "partial", WrittenBy(w, q)
        PROVE  q \in broken'
    BY <2>1, <2>6 DEF WrittenBy
  <2> HIDE DEF left, p
  <2>7. /\ orphans' \subseteq Path /\ broken' \subseteq Path
        /\ broken \subseteq broken'
        /\ index' \in [Digests -> Algos \cup {Nothing}]
    BY <1>a, <2>1, <2>4 DEF FilesTypeOK
  <2> QED BY <1>d, <1>f, <2>1, <2>3, <2>5, <2>6, <2>7
\* A thread that neither stores nor writes nor unlinks accounts for nothing.
<1>g. ASSUME NEW w \in Writers, writer[w].pc \notin {"stored", "writing"},
             writer[w].pending = {}
      PROVE  \A q \in Path : /\ ~WrittenBy(w, q)
                             /\ CountedBy(w, q) => index[q[1]] = q[2] \/ q \in orphans
  BY <1>b, <1>g DEF WriterOK, WrittenBy, CountedBy
<1>4. ASSUME NEW w \in Writers,
             \/ \E b \in Digests : CommitStage(w, b)
             \/ CommitDrop(w) \/ Return(w)
      PROVE  FilesInv'
  <2> DEFINE NewWriter(new) ==
                /\ writer' = [writer EXCEPT ![w] = new]
                /\ new.attached = FALSE /\ new.pending = {}
                /\ new.pc \in {"idle", "staging"}
                /\ new.pc = "staging" => new.blob \in Digests
  <2>1. PICK new \in Writer : NewWriter(new)
    <3>1. ASSUME NEW b \in Digests, CommitStage(w, b)
          PROVE  \E new \in Writer : NewWriter(new)
      <4> DEFINE s == Start(w, "staging", b)
      <4>1. /\ s \in Writer /\ s.attached = FALSE /\ s.pending = {}
            /\ s.pc = "staging" /\ s.blob = b
        BY DEF Start, IdleWriter, Writer
      <4>2. writer' = [writer EXCEPT ![w] = s] BY <3>1 DEF CommitStage
      <4> HIDE DEF s
      <4> QED BY <4>1, <4>2
    <3>2. CASE CommitDrop(w) \/ Return(w)
      <4>1. /\ IdleWriter.attached = FALSE /\ IdleWriter.pc = "idle"
            /\ IdleWriter.pending = {}
        BY DEF IdleWriter
      <4> QED BY <1>d, <3>2, <4>1 DEF CommitDrop, Return
    <3> QED BY <1>4, <3>1, <3>2
  <2>2. /\ UNCHANGED <<file, truncator, index, reader, crashes, orphans, broken>>
        /\ writer[w].pc \in {"idle", "staging", "unlinking"}
        /\ writer[w].pc = "unlinking" => writer[w].pending = {}
    BY <1>4 DEF CommitStage, CommitDrop, Return
  <2>3. writer[w].pending = {} BY <1>b, <2>2 DEF WriterOK
  <2>4. \A q \in Path : ~WrittenBy(w, q) /\ (CountedBy(w, q) => CountedBy(w, q)')
    <3>1. TAKE q \in Path
    <3>2. ~WrittenBy(w, q)
          /\ (CountedBy(w, q) => index[q[1]] = q[2] \/ q \in orphans)
      BY <1>g, <2>2, <2>3
    <3> QED BY <2>2, <3>2 DEF CountedBy
  <2>5. /\ orphans' \subseteq Path /\ broken' \subseteq Path
        /\ index' \in [Digests -> Algos \cup {Nothing}]
    BY <1>a, <2>2 DEF FilesTypeOK
  <2> QED BY <1>f, <2>1, <2>2, <2>4, <2>5
<1>h. ASSUME NEW ix \in [Digests -> Algos \cup {Nothing}],
             NEW E \in SUBSET Digests, E \subseteq Indexed(ix)
      PROVE  /\ PathsOf(E, ix) \in SUBSET Path
             /\ Dropped(E, ix) \in [Digests -> Algos \cup {Nothing}]
             /\ \A q \in Path : ix[q[1]] = q[2]
                  => Dropped(E, ix)[q[1]] = q[2] \/ q \in PathsOf(E, ix)
  <2>1. \A c \in E : <<c, ix[c]>> \in Path BY <1>h DEF Indexed, Path
  <2>2. \A q \in Path : q[1] \in Digests /\ q = <<q[1], q[2]>> BY DEF Path
  <2>3. \A q \in Path : q[1] \in E /\ ix[q[1]] = q[2] => q \in PathsOf(E, ix)
    BY <2>2 DEF PathsOf
  <2>4. \A q \in Path : q[1] \notin E => Dropped(E, ix)[q[1]] = ix[q[1]]
    BY <2>2 DEF Dropped
  <2>5. PathsOf(E, ix) \in SUBSET Path BY <2>1 DEF PathsOf
  <2>6. Dropped(E, ix) \in [Digests -> Algos \cup {Nothing}] BY DEF Dropped
  <2> QED BY <2>3, <2>4, <2>5, <2>6
<1>5. ASSUME NEW w \in Writers, Insert(w) PROVE FilesInv'
  <2> DEFINE b == writer[w].blob
             ix == [index EXCEPT ![b] = Algo[b]]
             old == {<<b, a>> : a \in {index[b]} \ {Algo[b], Nothing}}
  <2>1. /\ writer[w].pc = "stored"
        /\ orphans' = (orphans \ {Canonical(b)}) \cup old
        /\ UNCHANGED <<file, truncator, reader, crashes, broken>>
    BY <1>5 DEF Insert
  <2>2. PICK E \in SUBSET Indexed(ix) :
           /\ index' = Dropped(E, ix)
           /\ writer' = [writer EXCEPT ![w].pc = "unlinking",
                                       ![w].pending = PathsOf(E, ix)]
    BY <1>5 DEF Insert
  <2>3. b \in Digests /\ writer[w].pending = {} /\ ~writer[w].attached
    BY <1>b, <2>1 DEF WriterOK
  <2>4. /\ ix \in [Digests -> Algos \cup {Nothing}]
        /\ index \in [Digests -> Algos \cup {Nothing}]
        /\ ix[b] = Algo[b]
        /\ \A c \in Digests : c # b => ix[c] = index[c]
    BY <1>a, <2>3, BlobFilesAssumption DEF FilesTypeOK
  <2>5. E \in SUBSET Digests /\ E \subseteq Indexed(ix) BY DEF Indexed
  <2>6. old \subseteq Path BY <2>3, <2>4 DEF Path
  <2>7. ASSUME NEW q \in Path, CountedBy(w, q)
        PROVE  ix[q[1]] = q[2] \/ q \in orphans'
    <3>1. index[q[1]] = q[2] \/ q \in orphans \/ q = Canonical(b)
      BY <2>1, <2>3, <2>7 DEF CountedBy
    <3>2. q[1] \in Digests /\ q[2] \in Algos /\ q = <<q[1], q[2]>> BY DEF Path
    <3>3. Canonical(b) = <<b, Algo[b]>> BY DEF Canonical
    <3>4. CASE q = Canonical(b) BY <2>4, <3>3, <3>4
    <3>5. CASE q \in orphans /\ q # Canonical(b) BY <2>1, <3>5
    <3>6. CASE index[q[1]] = q[2] /\ q # Canonical(b)
      <4>1. CASE q[1] # b BY <2>4, <3>2, <3>6, <4>1
      <4>2. CASE q[1] = b
        <5>1. q[2] = index[b] /\ q[2] # Algo[b] BY <3>2, <3>3, <3>6, <4>2
        <5>2. q[2] # Nothing BY <3>2, BlobFilesAssumption
        <5>3. q \in old BY <3>2, <4>2, <5>1, <5>2
        <5> QED BY <2>1, <5>3
      <4> QED BY <4>1, <4>2
    <3> QED BY <3>1, <3>4, <3>5, <3>6
  <2> DEFINE new == [writer[w] EXCEPT !.pc = "unlinking",
                                      !.pending = PathsOf(E, ix)]
  <2>8. orphans' \subseteq Path BY <1>a, <2>1, <2>6 DEF FilesTypeOK
  <2> HIDE DEF ix, old
  <2>9. /\ new \in Writer /\ new.pc = "unlinking"
        /\ new.pending = PathsOf(E, ix) /\ new.attached = FALSE
    BY <1>b, <1>h, <2>3, <2>4, <2>5 DEF Writer
  <2>10. writer' = [writer EXCEPT ![w] = new] BY <1>a, <2>2 DEF FilesTypeOK
  <2> HIDE DEF new
  <2>11. writer'[w] = new BY <1>e, <2>9, <2>10
  <2>12. ASSUME NEW q \in Path, CountedBy(w, q) PROVE CountedBy(w, q)'
    <3>1. index'[q[1]] = q[2] \/ q \in orphans' \/ q \in writer'[w].pending
      BY <1>h, <2>2, <2>4, <2>5, <2>7, <2>9, <2>11, <2>12
    <3> QED BY <3>1 DEF CountedBy
  <2>13. \A q : ~WrittenBy(w, q) BY <2>3 DEF WrittenBy
  <2>14. index' \in [Digests -> Algos \cup {Nothing}] /\ broken' \subseteq Path
    BY <1>a, <1>h, <2>1, <2>2, <2>4, <2>5 DEF FilesTypeOK
  <2> QED BY <1>f, <2>1, <2>8, <2>9, <2>10, <2>12, <2>13, <2>14
<1>6. ASSUME NEW w \in Writers, NEW E \in SUBSET Digests, Prune(w, E)
      PROVE  FilesInv'
  <2> DEFINE new == [writer[w] EXCEPT !.pc = "unlinking",
                                      !.pending = PathsOf(E, index)]
  <2>1. /\ writer[w].pc = "idle"
        /\ E \subseteq Indexed(index) /\ index' = Dropped(E, index)
        /\ UNCHANGED <<file, truncator, reader, crashes, orphans, broken>>
        /\ index \in [Digests -> Algos \cup {Nothing}]
        /\ writer' = [writer EXCEPT ![w] = new]
    BY <1>6, <1>a DEF Prune, FilesTypeOK
  <2>2. writer[w].pending = {} /\ ~writer[w].attached
    BY <1>b, <2>1 DEF WriterOK
  <2>3. /\ new \in Writer /\ new.pc = "unlinking"
        /\ new.pending = PathsOf(E, index) /\ new.attached = FALSE
    BY <1>b, <1>h, <2>1, <2>2 DEF Writer
  <2> HIDE DEF new
  <2>4. writer'[w] = new BY <1>e, <2>1, <2>3
  <2>5. ASSUME NEW q \in Path, CountedBy(w, q) PROVE CountedBy(w, q)'
    <3>1. index[q[1]] = q[2] \/ q \in orphans BY <1>g, <2>1, <2>2, <2>5
    <3>2. index'[q[1]] = q[2] \/ q \in orphans' \/ q \in writer'[w].pending
      BY <1>h, <2>1, <2>3, <2>4, <3>1
    <3> QED BY <3>2 DEF CountedBy
  <2>6. \A q : ~WrittenBy(w, q) BY <2>2 DEF WrittenBy
  <2>7. /\ index' \in [Digests -> Algos \cup {Nothing}]
        /\ orphans' \subseteq Path /\ broken' \subseteq Path
    BY <1>a, <1>h, <2>1 DEF FilesTypeOK
  <2> QED BY <1>f, <2>1, <2>3, <2>5, <2>6, <2>7
<1>7. ASSUME NEW w \in Writers, NEW p \in Path, UnlinkFails(w, p)
      PROVE  FilesInv'
  <2> DEFINE new == [writer[w] EXCEPT !.pending = @ \ {p}]
  <2>1. /\ p \in writer[w].pending /\ writer[w].pc = "unlinking"
        /\ ~writer[w].attached
    BY <1>7, <1>b DEF UnlinkFails, WriterOK
  <2>2. /\ writer' = [writer EXCEPT ![w] = new]
        /\ UNCHANGED <<file, truncator, index, reader, crashes, broken>>
        /\ orphans' = IF file[p] # "absent" /\ index[p[1]] # p[2]
                      THEN orphans \cup {p} ELSE orphans
    BY <1>7, <1>a DEF UnlinkFails, FilesTypeOK
  <2>3. /\ new \in Writer /\ new.pc = "unlinking"
        /\ new.pending = writer[w].pending \ {p} /\ new.attached = FALSE
    BY <1>b, <2>1 DEF Writer
  <2> HIDE DEF new
  <2>4. writer'[w] = new BY <1>e, <2>2, <2>3
  <2>5. ASSUME NEW q \in Path, file[q] # "absent", CountedBy(w, q)
        PROVE  CountedBy(w, q)'
    <3>1. index[q[1]] = q[2] \/ q \in orphans \/ q \in writer[w].pending
      BY <2>1, <2>5 DEF CountedBy
    <3>2. index'[q[1]] = q[2] \/ q \in orphans' \/ q \in writer'[w].pending
      BY <2>2, <2>3, <2>4, <2>5, <3>1
    <3> QED BY <3>2 DEF CountedBy
  <2>6. \A q : ~WrittenBy(w, q) BY <2>1 DEF WrittenBy
  <2>7. /\ index' \in [Digests -> Algos \cup {Nothing}]
        /\ orphans' \subseteq Path /\ broken' \subseteq Path
    BY <1>a, <2>2 DEF FilesTypeOK
  <2> QED BY <1>f, <2>2, <2>3, <2>5, <2>6, <2>7
<1>8. ASSUME NEW w \in Writers, CommitRename(w) PROVE FilesInv'
  <2> DEFINE p == Canonical(writer[w].blob)
             det == Detached(p)
  <2>1. /\ writer' = [det EXCEPT ![w].pc = "stored"]
        /\ file' = [file EXCEPT ![p] = "whole"]
        /\ truncator' = [truncator EXCEPT ![p] = Nothing]
        /\ broken' = broken \ {p}
        /\ writer[w].pc = "staging"
        /\ UNCHANGED <<index, reader, crashes, orphans>>
    BY <1>8 DEF CommitRename
  <2>2. /\ writer[w].blob \in Digests /\ writer[w].pending = {}
        /\ ~writer[w].attached
    BY <1>b, <2>1 DEF WriterOK
  <2>3. p \in Path BY <1>c, <2>2
  <2>4. /\ det \in [Writers -> Writer]
        /\ \A v \in Writers : /\ det[v].pc = writer[v].pc
                              /\ det[v].blob = writer[v].blob
                              /\ det[v].pending = writer[v].pending
                              /\ det[v].attached
                                   <=> /\ writer[v].attached
                                       /\ Canonical(writer[v].blob) \notin {p}
    BY <1>a, DetachedKeeps
  <2> HIDE DEF det
  <2>5. /\ writer' \in [Writers -> Writer]
        /\ writer'[w].pc = "stored" /\ writer'[w].blob = writer[w].blob
        /\ writer'[w].pending = {} /\ ~writer'[w].attached
        /\ \A v \in Writers \ {w} : Kept(v, {p})
    BY <2>1, <2>2, <2>4 DEF Writer, Kept
  <2>6. WriterOK(w)' BY <2>2, <2>5 DEF WriterOK
  <2>7. \A q \in Path : q = p => CountedBy(w, q)' BY <2>5 DEF CountedBy
  <2> HIDE DEF p
  <2>8. /\ file' \in [Path -> Contents]
        /\ truncator' \in [Path -> Writers \cup {Nothing}]
        /\ broken' \subseteq Path
        /\ file'[p] = "whole"
        /\ \A q \in Path : q # p => file'[q] = file[q] /\ truncator'[q] = truncator[q]
    BY <1>a, <2>1, <2>3 DEF FilesTypeOK, Contents
  <2>9. \A q \in Path : ~WrittenBy(w, q)
           /\ (CountedBy(w, q) => index[q[1]] = q[2] \/ q \in orphans)
    BY <1>g, <2>1, <2>2
  <2>10. \A q \in Path : CountedBy(w, q) => CountedBy(w, q)'
    BY <2>1, <2>9 DEF CountedBy
  <2>11. \A q \in Path : file'[q] # "absent"
            => \/ CountedBy(w, q)'
               \/ q \notin {p} /\ file[q] # "absent" /\ ~CountedBy(w, q)
    <3>1. ASSUME NEW q \in Path, q # p, file'[q] # "absent"
          PROVE  file[q] # "absent"
      BY <2>8, <3>1
    <3> QED BY <2>7, <2>10, <3>1
  <2>12. \A q \in Path : file'[q] = "partial"
            => \/ WrittenBy(w, q)'
               \/ q \in broken'
               \/ /\ q \notin {p} /\ q \notin broken /\ ~WrittenBy(w, q)
                  /\ file[q] = "partial" /\ truncator'[q] = truncator[q]
    BY <2>1, <2>8, <2>9
  <2>13. \A q \in Path \ {p} : file[q] # "absent" => file'[q] # "absent"
    BY <2>8
  <2>14. /\ index' \in [Digests -> Algos \cup {Nothing}]
         /\ orphans' \subseteq Path /\ UNCHANGED <<reader, crashes>>
    BY <1>a, <2>1 DEF FilesTypeOK
  <2> QED BY <2>5, <2>6, <2>8, <2>11, <2>12, <2>13, <2>14, FilesKept
<1>9. ASSUME NEW w \in Writers, NEW p \in Path, Unlink(w, p) PROVE FilesInv'
  <2> DEFINE det == Detached(p)
  <2>1. /\ writer' = [det EXCEPT ![w].pending = @ \ {p}]
        /\ file' = [file EXCEPT ![p] = "absent"]
        /\ truncator' = [truncator EXCEPT ![p] = Nothing]
        /\ orphans' = orphans \ {p} /\ broken' = broken \ {p}
        /\ p \in writer[w].pending
        /\ UNCHANGED <<index, reader, crashes>>
    BY <1>9 DEF Unlink
  <2>2. writer[w].pc = "unlinking" /\ ~writer[w].attached
    BY <1>b, <2>1 DEF WriterOK
  <2>4. /\ det \in [Writers -> Writer]
        /\ \A v \in Writers : /\ det[v].pc = writer[v].pc
                              /\ det[v].blob = writer[v].blob
                              /\ det[v].pending = writer[v].pending
                              /\ det[v].attached
                                   <=> /\ writer[v].attached
                                       /\ Canonical(writer[v].blob) \notin {p}
    BY <1>a, DetachedKeeps
  <2> HIDE DEF det
  <2>5. /\ writer' \in [Writers -> Writer]
        /\ writer'[w].pc = "unlinking" /\ writer'[w].blob = writer[w].blob
        /\ writer'[w].pending = writer[w].pending \ {p} /\ ~writer'[w].attached
        /\ \A v \in Writers \ {w} : Kept(v, {p})
    BY <2>1, <2>2, <2>4 DEF Writer, Kept
  <2>6. WriterOK(w)' BY <2>5 DEF WriterOK
  <2>8. /\ file' \in [Path -> Contents]
        /\ truncator' \in [Path -> Writers \cup {Nothing}]
        /\ orphans' \subseteq Path /\ broken' \subseteq Path
        /\ file'[p] = "absent"
        /\ \A q \in Path : q # p => file'[q] = file[q] /\ truncator'[q] = truncator[q]
    BY <1>a, <2>1 DEF FilesTypeOK, Contents
  <2>9. \A q : ~WrittenBy(w, q) BY <2>2 DEF WrittenBy
  <2>10. ASSUME NEW q \in Path, q # p, CountedBy(w, q) PROVE CountedBy(w, q)'
    <3>1. index[q[1]] = q[2] \/ q \in orphans \/ q \in writer[w].pending
      BY <2>2, <2>10 DEF CountedBy
    <3>2. index'[q[1]] = q[2] \/ q \in orphans' \/ q \in writer'[w].pending
      BY <2>1, <2>5, <2>10, <3>1
    <3> QED BY <3>2 DEF CountedBy
  <2>11. \A q \in Path : file'[q] # "absent"
            => \/ CountedBy(w, q)'
               \/ q \notin {p} /\ file[q] # "absent" /\ ~CountedBy(w, q)
    BY <2>8, <2>10
  <2>12. \A q \in Path : file'[q] = "partial"
            => \/ WrittenBy(w, q)'
               \/ q \in broken'
               \/ /\ q \notin {p} /\ q \notin broken /\ ~WrittenBy(w, q)
                  /\ file[q] = "partial" /\ truncator'[q] = truncator[q]
    BY <2>1, <2>8, <2>9
  <2>13. \A q \in Path \ {p} : file[q] # "absent" => file'[q] # "absent"
    BY <2>8
  <2>14. index' \in [Digests -> Algos \cup {Nothing}] /\ UNCHANGED <<reader, crashes>>
    BY <1>a, <2>1 DEF FilesTypeOK
  <2> QED BY <2>5, <2>6, <2>8, <2>11, <2>12, <2>13, <2>14, FilesKept
<1>10. CASE CrashAndReopen
  <2>1. /\ Opened(file) /\ crashes' = crashes + 1 /\ crashes < MaxCrashes
        /\ truncator' = [q \in Path |-> Nothing]
        /\ writer' = [w \in Writers |-> IdleWriter]
        /\ reader' = [r \in Readers |-> IdleReader]
    BY <1>10 DEF CrashAndReopen
  <2>2. file \in [Path -> Contents] BY <1>a DEF FilesTypeOK, Contents
  <2>3. crashes' \in 0..MaxCrashes
    BY <1>a, <2>1, BlobFilesAssumption DEF FilesTypeOK
  <2>4. reader' \in [Readers -> Reader] BY <2>1 DEF IdleReader, Reader
  <2> QED BY <2>1, <2>2, <2>3, <2>4, OpenedCounts
<1>11. ASSUME UNCHANGED <<file, truncator, index, writer, crashes, orphans, broken>>,
              reader' \in [Readers -> Reader]
       PROVE  FilesInv'
  BY <1>11 DEF FilesInv, FilesTypeOK, NoUncountedFiles, PartialsExplained,
               BeingWritten
<1>12. ASSUME NEW r \in Readers, NEW b \in Digests, Lookup(r, b) PROVE FilesInv'
  <2>1. <<b, index[b]>> \in Path
    BY <1>12, <1>a DEF Lookup, Path, FilesTypeOK
  <2>2. [at |-> <<b, index[b]>>, got |-> "absent"] \in Reader
    BY <2>1 DEF Reader
  <2>3. reader' \in [Readers -> Reader]
    BY <1>12, <1>a, <2>2 DEF Lookup, FilesTypeOK
  <2> QED BY <1>11, <1>12, <2>3 DEF Lookup
<1>13. ASSUME NEW r \in Readers, Read(r) PROVE FilesInv'
  <2>1. reader[r] \in Reader /\ reader[r].at # Nothing
    BY <1>13, <1>a DEF Read, FilesTypeOK
  <2>2. reader[r].at \in Path BY <2>1 DEF Reader
  <2>3. file[reader[r].at] \in {"absent", "partial", "whole"}
    BY <1>a, <2>2 DEF FilesTypeOK
  <2>4. [at |-> Nothing, got |-> file[reader[r].at]] \in Reader
    BY <2>3 DEF Reader
  <2>5. reader' \in [Readers -> Reader]
    BY <1>13, <1>a, <2>4 DEF Read, FilesTypeOK
  <2> QED BY <1>11, <1>13, <2>5 DEF Read
<1>14. CASE UNCHANGED filesVars
  BY <1>11, <1>14, <1>a DEF filesVars, FilesTypeOK
<1> QED
  BY <1>1, <1>2, <1>3, <1>4, <1>5, <1>6, <1>7, <1>8, <1>9, <1>10, <1>12,
     <1>13, <1>14 DEF FilesNext

\* A cache opened on whole files counts them all.
LEMMA FilesStart == FilesInit => FilesInv
<1> SUFFICES ASSUME FilesInit PROVE FilesInv OBVIOUS
<1>1. PICK fs \in [Path -> {"absent", "whole"}] :
         /\ file = Without(fs, Duplicates(fs)) /\ index = Rebuilt(fs)
         /\ orphans = {} /\ broken = {} /\ crashes = 0
         /\ truncator = [p \in Path |-> Nothing]
         /\ writer = [w \in Writers |-> IdleWriter]
         /\ reader = [r \in Readers |-> IdleReader]
  BY DEF FilesInit
<1>2. \A q \in Path : file[q] # "partial" /\ file[q] \in Contents
  BY <1>1 DEF Without, Contents
<1>3. fs \in [Path -> Contents] BY DEF Contents
<1>4. FilesTypeOK
  <2>1. file \in [Path -> Contents] BY <1>1, <1>2 DEF Without
  <2>2. index \in [Digests -> Algos \cup {Nothing}] BY <1>1 DEF Rebuilt, Algos
  <2>3. /\ writer \in [Writers -> Writer] /\ reader \in [Readers -> Reader]
        /\ \A w \in Writers : writer[w] = IdleWriter
    BY <1>1 DEF IdleWriter, Writer, IdleReader, Reader
  <2>4. /\ truncator \in [Path -> Writers \cup {Nothing}]
        /\ crashes \in 0..MaxCrashes
        /\ orphans \subseteq Path /\ broken \subseteq Path
    BY <1>1, BlobFilesAssumption
  <2>5. \A w \in Writers : WriterOK(w) BY <2>3 DEF WriterOK, IdleWriter
  <2> QED BY <2>1, <2>2, <2>3, <2>4, <2>5 DEF FilesTypeOK, WriterOK, Contents
<1>5. ASSUME NEW q \in Path, file[q] # "absent" PROVE index[q[1]] = q[2]
  <2>1. q \notin Duplicates(fs) /\ fs[q] # "absent" BY <1>1, <1>5 DEF Without
  <2> QED BY <1>1, <1>3, <2>1, KeptIsIndexed
<1> QED
  BY <1>2, <1>4, <1>5 DEF FilesInv, NoUncountedFiles, PartialsExplained

\* The files, the index and the threads of the cache stay well-typed.
THEOREM FilesTypeCorrect == FilesSpec => []FilesTypeOK
BY FilesStart, FilesStep, PTL DEF FilesSpec, FilesInv

\* No overlap of stores, evictions and restarts, under both digest labels,
\* leaves a file on disk that the byte count misses and the history does not
\* name: a removal or a put that failed, or a legacy file that was relabelled.
THEOREM NothingUncounted == FilesSpec => []NoUncountedFiles
BY FilesStart, FilesStep, PTL DEF FilesSpec, FilesInv

\* A get under way has found nothing yet.
NothingYet ==
    \A r \in Readers : reader[r].at # Nothing => reader[r].got = "absent"

\* What a step may do to a get.
LEMMA ReaderStep ==
    ASSUME FilesInv, [FilesNext]_filesVars, NEW r \in Readers
    PROVE  \/ reader'[r] = reader[r]
           \/ reader'[r].got = "absent"
           \/ reader'[r].at = Nothing /\ reader'[r].got = file[reader[r].at]
<1>1. reader \in [Readers -> Reader] BY DEF FilesInv, FilesTypeOK
<1>2. ASSUME NEW q \in Readers, NEW b \in Digests, Lookup(q, b)
      PROVE  reader'[r] = reader[r] \/ reader'[r].got = "absent"
  BY <1>1, <1>2 DEF Lookup
<1>3. ASSUME NEW q \in Readers, Read(q)
      PROVE  \/ reader'[r] = reader[r]
             \/ reader'[r].at = Nothing /\ reader'[r].got = file[reader[r].at]
  BY <1>1, <1>3 DEF Read
<1>4. CASE CrashAndReopen BY <1>4 DEF CrashAndReopen, IdleReader
<1>5. CASE UNCHANGED reader BY <1>5
<1> QED
  BY <1>2, <1>3, <1>4, <1>5
  DEF FilesNext, filesVars, PutOpen, CommitStage, PutDone, PutFail, CommitDrop,
      CommitRename, Insert, Return, Prune, Unlink, UnlinkFails

\* A get finds a truncated file only where a put is still writing it, or one
\* failed or crashed and nothing has stored the blob since.
THEOREM ReadsCorrectly == FilesSpec => ReadsAreWhole
<1>1. FilesInit => NothingYet BY DEF FilesInit, NothingYet, IdleReader
<1>2. FilesInv /\ NothingYet /\ [FilesNext]_filesVars => NothingYet'
  BY ReaderStep DEF NothingYet
<1>3. ASSUME FilesInv, NothingYet, [FilesNext]_filesVars, NEW r \in Readers,
             reader[r].at # Nothing, reader'[r].got = "partial"
      PROVE  BeingWritten(reader[r].at) \/ reader[r].at \in broken
  <2>1. reader[r].at \in Path BY <1>3 DEF FilesInv, FilesTypeOK, Reader
  <2>2. reader[r].got = "absent" BY <1>3 DEF NothingYet
  <2>3. reader'[r].got = file[reader[r].at] BY <1>3, <2>2, ReaderStep
  <2> QED BY <1>3, <2>1, <2>3 DEF FilesInv, PartialsExplained
<1>4. FilesInv /\ NothingYet /\ [FilesNext]_filesVars
        => [\A r \in Readers :
              reader[r].at # Nothing /\ reader'[r].got = "partial"
                => \/ BeingWritten(reader[r].at)
                   \/ reader[r].at \in broken]_filesVars
  BY <1>3
<1> QED
  BY <1>1, <1>2, <1>4, FilesStart, FilesStep, PTL DEF FilesSpec, ReadsAreWhole
=============================================================================
