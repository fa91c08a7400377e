--------------------------- MODULE ReadingProofs ---------------------------
(***************************************************************************)
(* What the pool holds, what the caches keep and what the spread task      *)
(* leaves, for any volumes, versions, readers, capacity and budget.        *)
(***************************************************************************)
EXTENDS Reading, FiniteSetTheorems, SequenceTheorems, TLAPS

-----------------------------------------------------------------------------
(***************************************************************************)
(* Places in a sequence.                                                   *)
(***************************************************************************)
\* The indices of a sequence are ranked from one, in their order, without gaps.
LEMMA Ranks ==
    ASSUME NEW n \in Nat, NEW is \in SUBSET (1..n)
    PROVE  /\ IsFiniteSet(is) /\ Cardinality(is) \in Nat
           /\ \A i \in is : Rank(is, i) \in 1..Cardinality(is)
           /\ \A i, j \in is : i < j => Rank(is, i) < Rank(is, j)
           /\ \A m \in 1..Cardinality(is) : \E i \in is : Rank(is, i) = m
<1> DEFINE Below(i) == {j \in is : j <= i}
<1>1. IsFiniteSet(is) /\ Cardinality(is) \in Nat
  <2>1. 1 \in Int /\ n \in Int
    OBVIOUS
  <2>2. IsFiniteSet(1..n)
    BY <2>1, FS_Interval
  <2> QED BY <2>2, FS_Subset, FS_CardinalityType
<1>2. ASSUME NEW i \in is PROVE Rank(is, i) \in 1..Cardinality(is)
  <2>1. i \in Below(i) /\ Below(i) \in SUBSET is
    OBVIOUS
  <2>2. IsFiniteSet(Below(i)) /\ Cardinality(Below(i)) <= Cardinality(is)
    BY <1>1, <2>1, FS_Subset
  <2>3. Cardinality(Below(i)) \in Nat /\ Cardinality(Below(i)) # 0
    BY <2>1, <2>2, FS_CardinalityType, FS_EmptySet
  <2> QED BY <1>1, <2>2, <2>3 DEF Rank
<1>3. ASSUME NEW i \in is, NEW j \in is, i < j PROVE Rank(is, i) < Rank(is, j)
  <2>1. Below(i) \in SUBSET Below(j) /\ j \in Below(j) /\ j \notin Below(i)
    <3>1. i \in Int /\ j \in Int /\ \A k \in is : k \in Int
      OBVIOUS
    <3>2. j <= j /\ ~ (j <= i) /\ \A k \in is : k <= i => k <= j
      BY <1>3, <3>1
    <3> QED BY <3>2
  <2>2. IsFiniteSet(Below(j))
    BY <1>1, FS_Subset
  <2>3. Cardinality(Below(i)) <= Cardinality(Below(j)) /\ Cardinality(Below(i)) # Cardinality(Below(j))
    <3> HIDE DEF Below
    <3> QED BY <2>1, <2>2, FS_Subset
  <2>4. Rank(is, i) \in Nat /\ Rank(is, j) \in Nat
    BY <1>2
  <2> QED BY <2>3, <2>4 DEF Rank
<1>4. ASSUME NEW m \in 1..Cardinality(is) PROVE \E i \in is : Rank(is, i) = m
  <2> DEFINE f == [i \in is |-> Rank(is, i)]
  <2>1. f \in [is -> 1..Cardinality(is)]
    BY <1>2
  <2>2. ASSUME NEW i \in is, NEW j \in is, f[i] = f[j] PROVE i = j
    <3>1. f[i] = Rank(is, i) /\ f[j] = Rank(is, j)
      OBVIOUS
    <3>2. Rank(is, i) \in Int /\ Rank(is, j) \in Int /\ i \in Int /\ j \in Int
      BY <1>2
    <3> QED BY <1>3, <2>2, <3>1, <3>2
  <2>3. f \in Injection(is, 1..Cardinality(is))
    <3> HIDE DEF f
    <3> QED BY <2>1, <2>2 DEF Injection, IsInjective
  <2>4. IsFiniteSet(1..Cardinality(is)) /\ Cardinality(1..Cardinality(is)) = Cardinality(is)
    <3>1. 1 \in Int /\ Cardinality(is) \in Int /\ Cardinality(is) >= 0
      BY <1>1
    <3> QED BY <3>1, FS_Interval
  <2>5. f \in Surjection(is, 1..Cardinality(is))
    <3> HIDE DEF f
    <3> QED BY <2>3, <2>4, FS_Injection
  <2>6. \E i \in is : f[i] = m
    <3> HIDE DEF f
    <3> QED BY <2>5 DEF Surjection
  <2> QED BY <2>6
<1> QED BY <1>1, <1>2, <1>3, <1>4

\* The index of a rank.
At(is, m) == CHOOSE i \in is : Rank(is, i) = m

LEMMA AtRank ==
    ASSUME NEW n \in Nat, NEW is \in SUBSET (1..n)
    PROVE  /\ \A m \in 1..Cardinality(is) : At(is, m) \in is /\ Rank(is, At(is, m)) = m
           /\ \A i \in is : At(is, Rank(is, i)) = i
<1>1. ASSUME NEW m \in 1..Cardinality(is) PROVE At(is, m) \in is /\ Rank(is, At(is, m)) = m
  BY Ranks DEF At
<1>2. ASSUME NEW i \in is PROVE At(is, Rank(is, i)) = i
  <2>1. Rank(is, i) \in 1..Cardinality(is)
    BY Ranks
  <2>2. At(is, Rank(is, i)) \in is /\ Rank(is, At(is, Rank(is, i))) = Rank(is, i)
    BY <1>1, <2>1
  <2>3. ASSUME NEW j \in is, Rank(is, j) = Rank(is, i) PROVE j = i
    <3>1. i \in Int /\ j \in Int
      OBVIOUS
    <3>2. Rank(is, i) \in Int /\ Rank(is, j) \in Int
      BY Ranks
    <3>3. (i < j => Rank(is, i) < Rank(is, j)) /\ (j < i => Rank(is, j) < Rank(is, i))
      BY Ranks
    <3>4. ~ (i < j) /\ ~ (j < i)
      BY <2>3, <3>2, <3>3
    <3> QED BY <3>1, <3>4
  <2> QED BY <2>2, <2>3
<1> QED BY <1>1, <1>2

\* What is kept of a sequence is a sequence of what was at the indices, each in a place of its own.
LEMMA KeptIs ==
    ASSUME NEW S, NEW s \in Seq(S), NEW is \in SUBSET (DOMAIN s)
    PROVE  /\ Kept(s, is) \in Seq(S) /\ Len(Kept(s, is)) = Cardinality(is)
           /\ DOMAIN Kept(s, is) = 1..Cardinality(is) /\ Cardinality(is) \in Nat
           /\ \A m \in DOMAIN Kept(s, is) :
                 At(is, m) \in is /\ Rank(is, At(is, m)) = m /\ Kept(s, is)[m] = s[At(is, m)]
           /\ \A i \in is : Rank(is, i) \in DOMAIN Kept(s, is) /\ Kept(s, is)[Rank(is, i)] = s[i]
<1>1. Len(s) \in Nat /\ is \in SUBSET (1..Len(s)) /\ \A i \in is : s[i] \in S
  OBVIOUS
<1>2. Cardinality(is) \in Nat /\ \A i \in is : Rank(is, i) \in 1..Cardinality(is)
  BY <1>1, Ranks
<1>3. /\ \A m \in 1..Cardinality(is) : At(is, m) \in is /\ Rank(is, At(is, m)) = m
      /\ \A i \in is : At(is, Rank(is, i)) = i
  BY <1>1, AtRank
<1>4. Kept(s, is) = [m \in 1..Cardinality(is) |-> s[At(is, m)]]
  BY DEF Kept, At
<1>5. Kept(s, is) \in [1..Cardinality(is) -> S]
  BY <1>1, <1>3, <1>4
<1>6. Kept(s, is) \in Seq(S) /\ Len(Kept(s, is)) = Cardinality(is)
  BY <1>2, <1>5
<1> QED BY <1>2, <1>3, <1>4, <1>6

\* The first m of the indices are m, or all there are.
LEMMA FirstIs ==
    ASSUME NEW n \in Nat, NEW is \in SUBSET (1..n), NEW m \in Int
    PROVE  /\ First(is, m) \in SUBSET is
           /\ IsFiniteSet(First(is, m)) /\ Cardinality(First(is, m)) \in Nat
           /\ m <= 0 => First(is, m) = {}
           /\ m \in 1..Cardinality(is) => Cardinality(First(is, m)) = m
           /\ m > Cardinality(is) => First(is, m) = is
<1>1. IsFiniteSet(is) /\ Cardinality(is) \in Nat /\ \A i \in is : Rank(is, i) \in 1..Cardinality(is)
  BY Ranks
<1>2. First(is, m) \in SUBSET is
  BY DEF First
<1>3. IsFiniteSet(First(is, m)) /\ Cardinality(First(is, m)) \in Nat
  BY <1>1, <1>2, FS_Subset, FS_CardinalityType
<1>4. m <= 0 => First(is, m) = {}
  <2>1. ASSUME m <= 0, NEW i \in is PROVE ~ (Rank(is, i) <= m)
    <3>1. Rank(is, i) \in Int /\ Rank(is, i) >= 1
      BY <1>1
    <3> QED BY <2>1, <3>1
  <2> QED BY <2>1 DEF First
<1>5. ASSUME m \in 1..Cardinality(is) PROVE Cardinality(First(is, m)) = m
  <2>1. PICK i \in is : Rank(is, i) = m
    BY <1>5, Ranks
  <2>2. ASSUME NEW j \in is PROVE Rank(is, j) <= m <=> j <= i
    <3>1. i \in Int /\ j \in Int /\ Rank(is, j) \in Int /\ Rank(is, i) \in Int
      BY <1>1
    <3>2. (i < j => m < Rank(is, j)) /\ (j < i => Rank(is, j) < m) /\ (i = j => Rank(is, j) = m)
      BY <2>1, Ranks
    <3> QED BY <3>1, <3>2
  <2>3. First(is, m) = {j \in is : j <= i}
    BY <2>2 DEF First
  <2> QED BY <2>1, <2>3 DEF Rank
<1>6. m > Cardinality(is) => First(is, m) = is
  <2>1. ASSUME m > Cardinality(is), NEW i \in is PROVE Rank(is, i) <= m
    <3>1. Rank(is, i) \in Int /\ Rank(is, i) <= Cardinality(is)
      BY <1>1
    <3> QED BY <1>1, <2>1, <3>1
  <2> QED BY <2>1 DEF First
<1> QED BY <1>2, <1>3, <1>4, <1>5, <1>6
-----------------------------------------------------------------------------
(***************************************************************************)
(* The pool: keys differ, and what an entry holds is what its key says.    *)
(***************************************************************************)
PoolFine(p) ==
    /\ p \in Seq(Entries)
    /\ \A i, j \in DOMAIN p : KeyOf(p[i]) = KeyOf(p[j]) => i = j
    /\ \A i \in DOMAIN p : p[i].raced \/ p[i].content = p[i].rev

HasKey(p, k) == \E i \in DOMAIN p : KeyOf(p[i]) = k

LEMMA KeptPool ==
    ASSUME NEW p, PoolFine(p), NEW is \in SUBSET (DOMAIN p)
    PROVE  PoolFine(Kept(p, is)) /\ \A i \in is : HasKey(Kept(p, is), KeyOf(p[i]))
<1> DEFINE q == Kept(p, is)
<1>1. p \in Seq(Entries)
  BY DEF PoolFine
<1>2. q \in Seq(Entries)
  BY <1>1, KeptIs
<1>3. \A m \in DOMAIN q : At(is, m) \in is /\ Rank(is, At(is, m)) = m /\ q[m] = p[At(is, m)]
  BY <1>1, KeptIs
<1>4. \A i \in is : Rank(is, i) \in DOMAIN q /\ q[Rank(is, i)] = p[i]
  BY <1>1, KeptIs
<1> HIDE DEF q
<1>5. ASSUME NEW i \in DOMAIN q, NEW j \in DOMAIN q, KeyOf(q[i]) = KeyOf(q[j]) PROVE i = j
  <2>1. At(is, i) \in DOMAIN p /\ At(is, j) \in DOMAIN p /\ KeyOf(p[At(is, i)]) = KeyOf(p[At(is, j)])
    BY <1>3, <1>5
  <2>2. At(is, i) = At(is, j)
    BY <2>1 DEF PoolFine
  <2> QED BY <1>3, <2>2
<1>6. \A i \in DOMAIN q : q[i].raced \/ q[i].content = q[i].rev
  BY <1>3 DEF PoolFine
<1>7. \A i \in is : HasKey(q, KeyOf(p[i]))
  BY <1>4 DEF HasKey
<1>8. PoolFine(q)
  BY <1>2, <1>5, <1>6 DEF PoolFine
<1> QED BY <1>7, <1>8 DEF q

\* _evict takes nothing that is read from, and stops above the capacity only if all is.
LEMMA Evicted ==
    ASSUME NEW p, PoolFine(p), NEW rs
    PROVE  /\ PoolFine(Evict(p, rs))
           /\ \A k : Holders(rs, k) # {} /\ HasKey(p, k) => HasKey(Evict(p, rs), k)
           /\ Len(Evict(p, rs)) > Capacity => Removable(Evict(p, rs), rs) = {}
<1> DEFINE rem == Removable(p, rs)
           m == Len(p) - Capacity
           gone == First(rem, m)
           is == DOMAIN p \ gone
           q == Kept(p, is)
<1>0. p \in Seq(Entries) /\ Len(p) \in Nat /\ DOMAIN p = 1..Len(p) /\ Capacity \in Nat
  BY ReadingAssumption DEF PoolFine
<1>1. rem \in SUBSET (1..Len(p)) /\ m \in Int
  BY <1>0 DEF Removable
<1>2. /\ gone \in SUBSET rem
      /\ IsFiniteSet(gone) /\ Cardinality(gone) \in Nat
      /\ m <= 0 => gone = {}
      /\ m \in 1..Cardinality(rem) => Cardinality(gone) = m
      /\ m > Cardinality(rem) => gone = rem
  <2> HIDE DEF m, rem
  <2> QED BY <1>0, <1>1, FirstIs
<1>3. is \in SUBSET (DOMAIN p)
  OBVIOUS
<1>4. PoolFine(q) /\ \A i \in is : HasKey(q, KeyOf(p[i]))
  <2> HIDE DEF is
  <2> QED BY <1>3, KeptPool
<1>5. ASSUME NEW k, Holders(rs, k) # {}, HasKey(p, k) PROVE HasKey(q, k)
  <2>1. PICK i \in DOMAIN p : KeyOf(p[i]) = k
    BY <1>5 DEF HasKey
  <2>2. i \notin rem
    BY <1>5, <2>1 DEF Removable
  <2>3. i \in is
    BY <1>2, <2>2
  <2> QED BY <1>4, <2>1, <2>3
<1>6. ASSUME Len(q) > Capacity PROVE Removable(q, rs) = {}
  <2>1. Len(q) = Cardinality(is) /\ \A i \in DOMAIN q : At(is, i) \in is /\ q[i] = p[At(is, i)]
    <3> HIDE DEF is
    <3> QED BY <1>0, <1>3, KeptIs
  <2>2. Cardinality(is) = Len(p) - Cardinality(gone)
    <3>1. IsFiniteSet(1..Len(p)) /\ Cardinality(1..Len(p)) = Len(p)
      <4>1. 1 \in Int /\ Len(p) \in Int /\ Len(p) >= 0
        BY <1>0
      <4> QED BY <4>1, FS_Interval
    <3>2. (1..Len(p)) \cap gone = gone
      BY <1>1, <1>2
    <3>3. is = (1..Len(p)) \ gone
      BY <1>0
    <3> HIDE DEF gone, is
    <3>4. Cardinality((1..Len(p)) \ gone) = Cardinality(1..Len(p)) - Cardinality((1..Len(p)) \cap gone)
      BY <3>1, FS_Difference
    <3> QED BY <3>1, <3>2, <3>3, <3>4
  <2>3. Cardinality(rem) \in Nat
    <3> HIDE DEF rem
    <3> QED BY <1>0, <1>1, Ranks
  <2>4. ~ (m <= 0)
    <3>1. ASSUME m <= 0 PROVE FALSE
      <4>1. Cardinality(gone) = 0
        BY <1>2, <3>1, FS_EmptySet
      <4>2. Len(q) = Len(p)
        BY <1>0, <2>1, <2>2, <4>1
      <4> QED BY <1>0, <1>6, <3>1, <4>2
    <3> QED BY <3>1
  <2>5. ~ (m \in 1..Cardinality(rem))
    <3>1. ASSUME Cardinality(gone) = m PROVE FALSE
      <4>1. Len(q) = Len(p) - (Len(p) - Capacity)
        BY <2>1, <2>2, <3>1
      <4> HIDE DEF q
      <4> QED BY <1>0, <1>6, <4>1
    <3> QED BY <1>2, <3>1
  <2>6. gone = rem
    <3> HIDE DEF m, rem, gone
    <3> QED BY <1>1, <1>2, <2>3, <2>4, <2>5
  <2>7. ASSUME NEW i \in DOMAIN q, Holders(rs, KeyOf(q[i])) = {} PROVE FALSE
    <3>1. At(is, i) \in is /\ q[i] = p[At(is, i)]
      BY <2>1
    <3>2. At(is, i) \in rem
      BY <2>7, <3>1 DEF Removable
    <3> QED BY <2>6, <3>1, <3>2
  <2> QED BY <2>7 DEF Removable
<1>7. Evict(p, rs) = q
  BY DEF Evict
<1> HIDE DEF q
<1> QED BY <1>4, <1>5, <1>6, <1>7

\* acquire: the archive is at the end of the pool under its key, and is what the key says, unless
\* the file was replaced after archive_path.
LEMMA AppendedPool ==
    ASSUME NEW p, PoolFine(p), NEW x \in Entries, x.raced \/ x.content = x.rev, ~ HasKey(p, KeyOf(x))
    PROVE  /\ PoolFine(Append(p, x)) /\ HasKey(Append(p, x), KeyOf(x))
           /\ \A k : HasKey(p, k) => HasKey(Append(p, x), k)
<1> DEFINE q == Append(p, x)
<1>1. p \in Seq(Entries) /\ Len(p) \in Nat /\ DOMAIN p = 1..Len(p)
  BY DEF PoolFine
<1>2. q \in Seq(Entries) /\ DOMAIN q = 1..(Len(p) + 1) /\ q[Len(p) + 1] = x
      /\ \A i \in DOMAIN p : i \in DOMAIN q /\ q[i] = p[i]
  BY <1>1
<1>3. \A i \in DOMAIN q : i \in DOMAIN p \/ i = Len(p) + 1
  BY <1>1, <1>2
<1> HIDE DEF q
<1>4. ASSUME NEW i \in DOMAIN q, NEW j \in DOMAIN q, KeyOf(q[i]) = KeyOf(q[j]) PROVE i = j
  <2>1. ASSUME NEW k \in DOMAIN p PROVE KeyOf(p[k]) # KeyOf(x)
    BY DEF HasKey
  <2> QED BY <1>2, <1>3, <1>4, <2>1 DEF PoolFine
<1>5. \A i \in DOMAIN q : q[i].raced \/ q[i].content = q[i].rev
  BY <1>2, <1>3 DEF PoolFine
<1>6. PoolFine(q)
  BY <1>2, <1>4, <1>5 DEF PoolFine
<1>7. HasKey(q, KeyOf(x))
  <2>1. Len(p) + 1 \in DOMAIN q
    BY <1>1, <1>2
  <2> QED BY <1>2, <2>1 DEF HasKey
<1>8. \A k : HasKey(p, k) => HasKey(q, k)
  BY <1>2 DEF HasKey
<1> QED BY <1>6, <1>7, <1>8 DEF q

LEMMA Handled ==
    ASSUME PoolFine(pool), NEW r \in Requests, r.vol \in Volumes, r.rev \in Versions,
           disk \in [Volumes -> Versions \cup {None}],
           r.moved \/ disk[r.vol] = r.rev, disk[r.vol] # None \/ Opened(Key(r)) # {}
    PROVE  /\ Handle(r) \in Entries /\ KeyOf(Handle(r)) = Key(r)
           /\ Handle(r).raced \/ Handle(r).content = Handle(r).rev
           /\ Handle(r).rev = r.rev
<1>1. CASE Opened(Key(r)) # {}
  <2>1. PICK i \in Opened(Key(r)) : Handle(r) = pool[i]
    BY <1>1 DEF Handle
  <2>2. i \in DOMAIN pool /\ KeyOf(pool[i]) = Key(r)
    BY DEF Opened
  <2>3. pool[i] \in Entries /\ (pool[i].raced \/ pool[i].content = pool[i].rev)
    BY <2>2 DEF PoolFine
  <2>4. pool[i].rev = r.rev
    BY <2>2 DEF KeyOf, Key
  <2> QED BY <2>1, <2>2, <2>3, <2>4
<1>2. CASE Opened(Key(r)) = {}
  <2>1. Handle(r) = [vol |-> r.vol, rev |-> r.rev, content |-> disk[r.vol], raced |-> r.moved]
    BY <1>2 DEF Handle
  <2>2. disk[r.vol] \in Versions /\ r.moved \in BOOLEAN
    BY <1>2 DEF Requests
  <2> QED BY <2>1, <2>2 DEF Entries, KeyOf, Key
<1> QED BY <1>1, <1>2

LEMMA AcquiredIs ==
    ASSUME PoolFine(pool), NEW r \in Requests, r.vol \in Volumes, r.rev \in Versions,
           disk \in [Volumes -> Versions \cup {None}],
           r.moved \/ disk[r.vol] = r.rev, disk[r.vol] # None \/ Opened(Key(r)) # {}, NEW rs
    PROVE  /\ PoolFine(Acquired(r, rs))
           /\ \A k : Holders(rs, k) # {} /\ (k = Key(r) \/ HasKey(pool, k)) => HasKey(Acquired(r, rs), k)
           /\ Len(Acquired(r, rs)) > Capacity => Removable(Acquired(r, rs), rs) = {}
<1> DEFINE is == DOMAIN pool \ Opened(Key(r))
           q == Kept(pool, is)
           p == Append(q, Handle(r))
<1>1. Handle(r) \in Entries /\ KeyOf(Handle(r)) = Key(r) /\ (Handle(r).raced \/ Handle(r).content = Handle(r).rev)
  BY Handled
<1>2. is \in SUBSET (DOMAIN pool)
  OBVIOUS
<1>3. PoolFine(q) /\ \A i \in is : HasKey(q, KeyOf(pool[i]))
  <2> HIDE DEF is
  <2> QED BY <1>2, KeptPool
<1>4. ~ HasKey(q, Key(r))
  <2>1. ASSUME NEW m \in DOMAIN q, KeyOf(q[m]) = Key(r) PROVE FALSE
    <3>1. pool \in Seq(Entries)
      BY DEF PoolFine
    <3>2. At(is, m) \in is /\ q[m] = pool[At(is, m)]
      <4> HIDE DEF is
      <4> QED BY <1>2, <3>1, KeptIs
    <3> QED BY <2>1, <3>2 DEF Opened
  <2> QED BY <2>1 DEF HasKey
<1>5. PoolFine(p) /\ HasKey(p, Key(r)) /\ \A k : HasKey(q, k) => HasKey(p, k)
  <2> HIDE DEF q
  <2> QED BY <1>1, <1>3, <1>4, AppendedPool
<1>6. ASSUME NEW k, k = Key(r) \/ HasKey(pool, k) PROVE HasKey(p, k)
  <2>1. CASE k = Key(r)
    BY <1>5, <2>1
  <2>2. CASE k # Key(r)
    <3>1. PICK i \in DOMAIN pool : KeyOf(pool[i]) = k
      BY <1>6, <2>2 DEF HasKey
    <3>2. i \in is
      BY <2>2, <3>1 DEF Opened
    <3>3. HasKey(q, k)
      BY <1>3, <3>1, <3>2
    <3> QED BY <1>5, <3>3
  <2> QED BY <2>1, <2>2
<1>7. Acquired(r, rs) = Evict(p, rs)
  BY DEF Acquired
<1> HIDE DEF p
<1> QED BY <1>5, <1>6, <1>7, Evicted
-----------------------------------------------------------------------------
(***************************************************************************)
(* The caches: names differ, and a file is what its name says.             *)
(***************************************************************************)
Truthful(x) == x.raced \/ (x.content = x.rev /\ (x.kind = "page" => x.content = x.page))

CacheFine(c) ==
    /\ c \in Seq(Cached)
    /\ \A i, j \in DOMAIN c : NameOf(c[i]) = NameOf(c[j]) => i = j
    /\ \A i \in DOMAIN c : Truthful(c[i])

Named(c, n) == \E i \in DOMAIN c : NameOf(c[i]) = n

LEMMA NamesAre ==
    /\ \A x \in Cached : NameOf(x) \in Names /\ NameOf(x).kind = x.kind
    /\ \A n : HasFile(n) <=> Named(cache, n)
BY DEF Cached, Names, NameOf, HasFile, FilesAt, Named

LEMMA KeptCache ==
    ASSUME NEW c, CacheFine(c), NEW is \in SUBSET (DOMAIN c)
    PROVE  /\ CacheFine(Kept(c, is))
           /\ \A n : Named(Kept(c, is), n) <=> \E i \in is : NameOf(c[i]) = n
<1> DEFINE q == Kept(c, is)
<1>1. c \in Seq(Cached)
  BY DEF CacheFine
<1>2. q \in Seq(Cached)
  BY <1>1, KeptIs
<1>3. \A m \in DOMAIN q : At(is, m) \in is /\ Rank(is, At(is, m)) = m /\ q[m] = c[At(is, m)]
  BY <1>1, KeptIs
<1>4. \A i \in is : Rank(is, i) \in DOMAIN q /\ q[Rank(is, i)] = c[i]
  BY <1>1, KeptIs
<1> HIDE DEF q
<1>5. ASSUME NEW i \in DOMAIN q, NEW j \in DOMAIN q, NameOf(q[i]) = NameOf(q[j]) PROVE i = j
  <2>1. At(is, i) \in DOMAIN c /\ At(is, j) \in DOMAIN c /\ NameOf(c[At(is, i)]) = NameOf(c[At(is, j)])
    BY <1>3, <1>5
  <2>2. At(is, i) = At(is, j)
    BY <2>1 DEF CacheFine
  <2> QED BY <1>3, <2>2
<1>6. \A i \in DOMAIN q : Truthful(q[i])
  BY <1>3 DEF CacheFine
<1>7. ASSUME NEW n PROVE Named(q, n) <=> \E i \in is : NameOf(c[i]) = n
  BY <1>3, <1>4 DEF Named
<1>8. CacheFine(q)
  BY <1>2, <1>5, <1>6 DEF CacheFine
<1> QED BY <1>7, <1>8 DEF q

\* A new file takes the place of one of its name and of no other.
LEMMA LatestIs ==
    ASSUME CacheFine(cache), NEW file \in Cached, Truthful(file)
    PROVE  /\ CacheFine(Latest(file))
           /\ \A n : Named(Latest(file), n) <=> Named(cache, n) \/ n = NameOf(file)
<1> DEFINE is == DOMAIN cache \ FilesAt(NameOf(file))
           p == Kept(cache, is)
           q == Append(p, file)
<1>1. CacheFine(p) /\ \A n : Named(p, n) <=> \E i \in is : NameOf(cache[i]) = n
  <2>1. is \in SUBSET (DOMAIN cache)
    OBVIOUS
  <2> HIDE DEF is
  <2> QED BY <2>1, KeptCache
<1>2. \A n : Named(p, n) <=> Named(cache, n) /\ n # NameOf(file)
  BY <1>1 DEF Named, FilesAt
<1>3. Latest(file) = q
  BY DEF Latest
<1> HIDE DEF p
<1>4. p \in Seq(Cached) /\ Len(p) \in Nat /\ DOMAIN p = 1..Len(p)
  BY <1>1 DEF CacheFine
<1>5. q \in Seq(Cached) /\ DOMAIN q = 1..(Len(p) + 1) /\ q[Len(p) + 1] = file
      /\ \A i \in DOMAIN p : i \in DOMAIN q /\ q[i] = p[i]
  BY <1>4
<1>6. Len(p) + 1 \in DOMAIN q /\ \A i \in DOMAIN q : i \in DOMAIN p \/ i = Len(p) + 1
  BY <1>4, <1>5
<1> HIDE DEF q
<1>7. ASSUME NEW i \in DOMAIN q, NEW j \in DOMAIN q, NameOf(q[i]) = NameOf(q[j]) PROVE i = j
  <2>1. ASSUME NEW k \in DOMAIN p PROVE NameOf(p[k]) # NameOf(file)
    BY <1>2 DEF Named
  <2>2. \A k, l \in DOMAIN p : NameOf(p[k]) = NameOf(p[l]) => k = l
    BY <1>1 DEF CacheFine
  <2> QED BY <1>5, <1>6, <1>7, <2>1, <2>2
<1>8. \A i \in DOMAIN q : Truthful(q[i])
  <2>1. \A i \in DOMAIN p : Truthful(p[i])
    BY <1>1 DEF CacheFine
  <2> QED BY <1>5, <1>6, <2>1
<1>9. CacheFine(q)
  BY <1>5, <1>7, <1>8 DEF CacheFine
<1>10. ASSUME NEW n PROVE Named(q, n) <=> Named(p, n) \/ n = NameOf(file)
  BY <1>5, <1>6 DEF Named
<1>11. ASSUME NEW n PROVE Named(q, n) <=> Named(cache, n) \/ n = NameOf(file)
  BY <1>2, <1>10
<1> QED BY <1>3, <1>9, <1>11

\* There are as many names as files.
LEMMA NamesCounted ==
    ASSUME NEW c, CacheFine(c), NEW is \in SUBSET (DOMAIN c), NEW T,
           \A i \in is : NameOf(c[i]) \in T, \A n \in T : \E i \in is : NameOf(c[i]) = n
    PROVE  IsFiniteSet(T) /\ Cardinality(T) = Cardinality(is)
<1> DEFINE f == [i \in is |-> NameOf(c[i])]
<1>1. IsFiniteSet(is)
  <2>1. Len(c) \in Nat /\ is \in SUBSET (1..Len(c))
    BY DEF CacheFine
  <2> QED BY <2>1, Ranks
<1>2. f \in [is -> T] /\ \A i \in is : f[i] = NameOf(c[i])
  OBVIOUS
<1> HIDE DEF f
<1>3. f \in Injection(is, T)
  <2>1. \A i, j \in is : f[i] = f[j] => i = j
    BY <1>2 DEF CacheFine
  <2> QED BY <1>2, <2>1 DEF Injection, IsInjective
<1>4. f \in Surjection(is, T)
  BY <1>2 DEF Surjection
<1> QED BY <1>1, <1>3, <1>4, FS_Surjection

\* DiskCacheBudget._evict brings a cache within its budget, the new file included: it fits by itself.
LEMMA WithinBudget ==
    ASSUME CacheFine(cache), NEW n \in Names, HasFile(n)
    PROVE  LET left == {m \in Files(n.kind) : FilesAt(m) \cap Oldest(n) = {}}
           IN  /\ Oldest(n) \in SUBSET (DOMAIN cache) /\ \A i \in Oldest(n) : cache[i].kind = n.kind
               /\ IsFiniteSet(left) /\ Cardinality(left) <= Budget
<1> DEFINE left == {m \in Files(n.kind) : FilesAt(m) \cap Oldest(n) = {}}
           is == {i \in DOMAIN cache : cache[i].kind = n.kind}
           others == {i \in DOMAIN cache : cache[i].kind = n.kind /\ NameOf(cache[i]) # n}
           m == Cardinality(Files(n.kind)) - Budget
<1>1. cache \in Seq(Cached) /\ Len(cache) \in Nat /\ DOMAIN cache = 1..Len(cache)
      /\ \A i \in DOMAIN cache : cache[i] \in Cached
  BY DEF CacheFine
<1>2. Budget \in Nat /\ Budget >= 1
  BY ReadingAssumption
<1>3. is \in SUBSET (1..Len(cache)) /\ others \in SUBSET (1..Len(cache))
  BY <1>1
<1>4. IsFiniteSet(is) /\ Cardinality(is) \in Nat
  <2> HIDE DEF is
  <2> QED BY <1>1, <1>3, Ranks
<1>5. Cardinality(Files(n.kind)) = Cardinality(is)
  <2>1. \A i \in is : NameOf(cache[i]) \in Files(n.kind)
    BY <1>1, NamesAre DEF Files, Named
  <2>2. \A x \in Files(n.kind) : \E i \in is : NameOf(cache[i]) = x
    BY <1>1, NamesAre DEF Files, Named
  <2>3. is \in SUBSET (DOMAIN cache)
    OBVIOUS
  <2> HIDE DEF is
  <2> QED BY <2>1, <2>2, <2>3, NamesCounted
<1>6. Cardinality(others) = Cardinality(is) - 1
  <2>1. PICK i \in DOMAIN cache : NameOf(cache[i]) = n
    BY NamesAre DEF Named
  <2>2. i \in is /\ others = is \ {i}
    BY <1>1, <2>1, NamesAre DEF CacheFine
  <2> HIDE DEF is, others
  <2> QED BY <1>4, <2>2, FS_RemoveElement
<1>7. m = Cardinality(is) - Budget /\ m \in Int
  BY <1>2, <1>4, <1>5
<1>8. Oldest(n) = First(others, m)
  BY DEF Oldest
<1>9. /\ Oldest(n) \in SUBSET others
      /\ IsFiniteSet(Oldest(n)) /\ Cardinality(Oldest(n)) \in Nat
      /\ m \in 1..Cardinality(others) => Cardinality(Oldest(n)) = m
  <2>1. Len(cache) \in Nat /\ others \in SUBSET (1..Len(cache)) /\ m \in Int
    BY <1>1, <1>3, <1>7
  <2> HIDE DEF others, m
  <2>2. /\ First(others, m) \in SUBSET others
        /\ IsFiniteSet(First(others, m)) /\ Cardinality(First(others, m)) \in Nat
        /\ m \in 1..Cardinality(others) => Cardinality(First(others, m)) = m
    BY <2>1, FirstIs
  <2> QED BY <1>8, <2>2
<1>10. Cardinality(is \ Oldest(n)) <= Budget
  <2>1. is \cap Oldest(n) = Oldest(n)
    BY <1>9
  <2>2. Cardinality(is \ Oldest(n)) = Cardinality(is) - Cardinality(Oldest(n))
    <3> HIDE DEF is
    <3>1. Cardinality(is \ Oldest(n)) = Cardinality(is) - Cardinality(is \cap Oldest(n))
      BY <1>4, FS_Difference
    <3> QED BY <2>1, <3>1
  <2> HIDE DEF is, others, m
  <2>3. CASE m <= 0
    BY <1>2, <1>4, <1>7, <1>9, <2>2, <2>3
  <2>4. CASE m >= 1
    <3>1. m \in 1..Cardinality(others)
      BY <1>2, <1>4, <1>6, <1>7, <2>4
    <3> QED BY <1>2, <1>4, <1>7, <1>9, <2>2, <3>1
  <2> QED BY <1>7, <2>3, <2>4
<1>11. IsFiniteSet(left) /\ Cardinality(left) = Cardinality(is \ Oldest(n))
  <2>1. ASSUME NEW i \in is \ Oldest(n) PROVE NameOf(cache[i]) \in left
    <3>1. NameOf(cache[i]) \in Files(n.kind)
      BY <1>1, NamesAre DEF Files, Named
    <3>2. FilesAt(NameOf(cache[i])) = {i}
      BY DEF FilesAt, CacheFine
    <3> QED BY <3>1, <3>2
  <2>2. ASSUME NEW x \in left PROVE \E i \in is \ Oldest(n) : NameOf(cache[i]) = x
    <3>1. x \in Files(n.kind) /\ FilesAt(x) \cap Oldest(n) = {}
      OBVIOUS
    <3>2. PICK i \in DOMAIN cache : NameOf(cache[i]) = x
      BY <3>1, NamesAre DEF Files, Named
    <3>3. i \in is /\ i \in FilesAt(x)
      BY <1>1, <3>1, <3>2, NamesAre DEF Files, FilesAt
    <3> QED BY <3>1, <3>2, <3>3
  <2>3. is \ Oldest(n) \in SUBSET (DOMAIN cache)
    OBVIOUS
  <2> HIDE DEF is, left
  <2> QED BY <2>1, <2>2, <2>3, NamesCounted
<1>12. Oldest(n) \in SUBSET (DOMAIN cache) /\ \A i \in Oldest(n) : cache[i].kind = n.kind
  BY <1>9
<1>13. Cardinality(left) <= Budget
  BY <1>10, <1>11
<1> QED BY <1>11, <1>12, <1>13
-----------------------------------------------------------------------------
(***************************************************************************)
(* The requests.                                                           *)
(***************************************************************************)
Content == [content : Versions, raced : BOOLEAN]

ForPages == {"page", "cached", "wait", "stat", "open", "check", "read", "store", "add", "respond"}

ForSpreads == {"take", "known", "stat", "open", "read", "dims", "finish"}

\* What is opened after archive_path is the indexed revision, or else a race.
OpenedOK(r, dk) ==
    /\ r.pc = "open" => r.moved \/ dk[r.vol] = r.rev
    /\ r.pc \in {"check", "read", "store", "dims"} =>
          r.got \in Content /\ (r.got.raced \/ r.got.content = r.rev)

\* What was validated is the page of that revision, or else a race.
CheckedOK(r) ==
    /\ r.checked => r.kind = "page" /\ r.got \in Content /\ (r.got.raced \/ r.page = r.rev)
    /\ r.kind = "page" /\ r.pc \in {"read", "store"} => r.checked
    /\ r.pc = "check" => r.kind = "page"
    /\ r.pc \in {"page", "check"} => ~ r.checked

RequestOK(a, r, dk) ==
    /\ r \in Requests
    /\ a = Spread => r.pc \in ForSpreads \cup {"idle"} /\ (r.pc # "idle" => r.kind = "spread")
    /\ a # Spread => r.pc \in ForPages \cup {"idle", "save"} /\ (r.pc \in ForPages => r.kind \in Kinds)
    /\ a # Spread /\ r.pc \in ForPages \ {"page"} => r.page \in Versions
    /\ r.pc \notin {"idle", "take"} => r.vol \in Volumes /\ r.rev \in Versions
    /\ OpenedOK(r, dk) /\ CheckedOK(r)

RequestsOK == req \in [Actors -> Requests] /\ \A a \in Actors : RequestOK(a, req[a], disk)

CatalogTyped ==
    /\ disk \in [Volumes -> Versions \cup {None}] /\ pub \in [Volumes -> Versions \cup {None}]
    /\ dims \in [Volumes -> Content \cup {None}]

LEMMA ReaderNotSpread == Readers \subseteq Actors /\ Spread \in Actors /\ \A a \in Readers : a # Spread
BY ReadingAssumption DEF Actors

LEMMA IdleOK ==
    /\ Idle \in Requests /\ Again \in Requests
    /\ \A a, dk : RequestOK(a, Idle, dk)
    /\ \A dk : RequestOK(Spread, Again, dk)
<1>1. Idle \in Requests /\ Again \in Requests
  BY DEF Idle, Again, Requests, Kinds
<1>2. Idle.pc = "idle" /\ Idle.kind = None /\ Idle.checked = FALSE
  BY DEF Idle
<1>3. Again.pc = "take" /\ Again.kind = "spread" /\ Again.checked = FALSE
  BY DEF Again, Idle
<1>4. ASSUME NEW a, NEW dk PROVE RequestOK(a, Idle, dk)
  BY <1>1, <1>2 DEF RequestOK, OpenedOK, CheckedOK, ForPages, ForSpreads
<1>5. ASSUME NEW dk PROVE RequestOK(Spread, Again, dk)
  BY <1>1, <1>3 DEF RequestOK, OpenedOK, CheckedOK, ForPages, ForSpreads
<1> QED BY <1>1, <1>4, <1>5

LEMMA Stepping ==
    ASSUME RequestsOK, NEW a \in Actors, NEW r, Step(a, r), disk' = disk, RequestOK(a, r, disk)
    PROVE  RequestsOK'
<1>1. r \in Requests
  BY DEF RequestOK
<1>2. req' \in [Actors -> Requests] /\ req'[a] = r /\ \A b \in Actors \ {a} : req'[b] = req[b]
  BY <1>1 DEF Step, RequestsOK
<1>3. ASSUME NEW b \in Actors PROVE RequestOK(b, req'[b], disk')
  BY <1>2 DEF RequestsOK
<1> QED BY <1>2, <1>3 DEF RequestsOK

\* A request that only goes on.
LEMMA WentOn ==
    ASSUME NEW r \in Requests, NEW x \in {"idle", "page", "cached", "wait", "stat", "open", "check", "read",
                   "store", "add", "respond", "save", "take", "known", "dims", "finish"},
           NEW y, y = [r EXCEPT !.pc = x]
    PROVE  /\ y \in Requests /\ y.pc = x /\ y.kind = r.kind /\ y.vol = r.vol /\ y.rev = r.rev
           /\ y.page = r.page /\ y.checked = r.checked /\ y.moved = r.moved /\ y.got = r.got
           /\ Name(y) = Name(r) /\ Key(y) = Key(r)
BY DEF Requests, Name, Key

\* Every step of a request, whatever the catalog and the files did meanwhile, keeps what is known of it.
LEMMA ReaderSteps ==
    ASSUME RequestsOK, CatalogTyped, PoolFine(pool), NEW a \in Readers,
           \/ \E v \in Volumes : RequestPage(a, v) \/ RequestCopy(a, v) \/ RequestSave(a, v)
           \/ ReadPage(a) \/ CachedFile(a) \/ Lock(a) \/ Check(a)
           \/ StorePage(a) \/ StoreCopy(a) \/ Add(a) \/ Respond(a) \/ ClearProgress(a)
           \/ \E page \in 1..MaxPages, done \in BOOLEAN : SaveProgress(a, page, done)
    PROVE  RequestsOK'
<1> DEFINE r == req[a]
<1>0. a \in Actors /\ a # Spread /\ r \in Requests /\ RequestOK(a, r, disk)
  BY ReaderNotSpread DEF RequestsOK
<1>1. ASSUME NEW pc \in {"page", "save"}, NEW kind \in Kinds \cup {"save"}, NEW v \in Volumes,
             pc = "page" => kind \in Kinds, Request(a, pc, kind, v)
      PROVE  RequestsOK'
  <2> DEFINE y == [Idle EXCEPT !.pc = pc, !.kind = kind, !.vol = v, !.rev = pub[v]]
  <2>1. pub[v] \in Versions
    BY <1>1 DEF Request, CatalogTyped
  <2>2. y \in Requests /\ y.pc = pc /\ y.kind = kind /\ y.vol = v /\ y.rev = pub[v] /\ y.checked = FALSE
    BY <2>1 DEF Idle, Requests, Kinds
  <2>3. Step(a, y) /\ disk' = disk
    BY <1>1 DEF Request
  <2> HIDE DEF y
  <2>4. RequestOK(a, y, disk)
    BY <1>0, <1>1, <2>1, <2>2 DEF RequestOK, OpenedOK, CheckedOK, ForPages
  <2> QED BY <1>0, <2>3, <2>4, Stepping
<1>2. ASSUME NEW v \in Volumes, RequestPage(a, v) \/ RequestCopy(a, v) \/ RequestSave(a, v) PROVE RequestsOK'
  BY <1>1, <1>2 DEF RequestPage, RequestCopy, RequestSave, Kinds
<1>3. ASSUME Step(a, Idle), disk' = disk PROVE RequestsOK'
  BY <1>0, <1>3, IdleOK, Stepping
<1>4. ASSUME ReadPage(a) PROVE RequestsOK'
  <2> DEFINE y == [r EXCEPT !.pc = "cached", !.page = pub[r.vol]]
  <2>1. r.pc = "page" /\ disk' = disk /\ r.vol \in Volumes
    BY <1>0, <1>4 DEF ReadPage, Stays, RequestOK
  <2>2. CASE pub[r.vol] = None
    BY <1>3, <1>4, <2>1, <2>2 DEF ReadPage
  <2>3. CASE pub[r.vol] # None
    <3>1. pub[r.vol] \in Versions
      BY <2>1, <2>3 DEF CatalogTyped
    <3>2. y \in Requests /\ y.pc = "cached" /\ y.kind = r.kind /\ y.vol = r.vol /\ y.rev = r.rev
          /\ y.page \in Versions /\ y.checked = r.checked /\ ~ r.checked
      <4>1. ~ r.checked
        BY <1>0, <2>1 DEF RequestOK, CheckedOK
      <4> QED BY <1>0, <3>1, <4>1 DEF Requests
    <3>3. Step(a, y)
      BY <1>4, <2>3 DEF ReadPage
    <3> HIDE DEF y
    <3>4. RequestOK(a, y, disk)
      BY <1>0, <2>1, <3>2 DEF RequestOK, OpenedOK, CheckedOK, ForPages
    <3> QED BY <1>0, <2>1, <3>3, <3>4, Stepping
  <2> QED BY <2>2, <2>3
<1>5. ASSUME NEW x \in {"wait", "stat", "add", "respond"}, NEW y, y = [r EXCEPT !.pc = x],
             r.pc \in ForPages \ {"page"}, Step(a, y), disk' = disk
      PROVE  RequestsOK'
  <2>1. y \in Requests /\ y.pc = x /\ y.kind = r.kind /\ y.vol = r.vol /\ y.rev = r.rev
        /\ y.page = r.page /\ y.checked = r.checked /\ y.got = r.got
    BY <1>0, <1>5, WentOn
  <2>2. RequestOK(a, y, disk)
    BY <1>0, <1>5, <2>1 DEF RequestOK, OpenedOK, CheckedOK, ForPages
  <2> QED BY <1>0, <1>5, <2>2, Stepping
<1>6. ASSUME CachedFile(a) \/ Lock(a) \/ StorePage(a) \/ StoreCopy(a) PROVE RequestsOK'
  BY <1>5, <1>6 DEF CachedFile, Lock, StorePage, StoreCopy, Store, Stays, ForPages
<1>7. ASSUME Add(a) PROVE RequestsOK'
  BY <1>3, <1>5, <1>7 DEF Add, Stays, ForPages
<1>8. ASSUME Respond(a) \/ ClearProgress(a) PROVE RequestsOK'
  BY <1>3, <1>8 DEF Respond, ClearProgress, Stays
<1>9. ASSUME NEW page \in 1..MaxPages, NEW done \in BOOLEAN, SaveProgress(a, page, done) PROVE RequestsOK'
  BY <1>3, <1>9 DEF SaveProgress, Stays
<1>10. ASSUME Check(a) PROVE RequestsOK'
  <2> DEFINE y == [r EXCEPT !.pc = "stat", !.checked = TRUE]
  <2>1. r.pc = "check" /\ disk' = disk
    BY <1>10 DEF Check, Stays
  <2>2. CASE r.got.content = r.page
    <3>1. y \in Requests /\ y.pc = "stat" /\ y.kind = r.kind /\ y.vol = r.vol /\ y.rev = r.rev
          /\ y.page = r.page /\ y.checked = TRUE /\ y.got = r.got
      BY <1>0 DEF Requests
    <3>2. Step(a, y)
      BY <1>10, <2>2 DEF Check, Release
    <3> HIDE DEF y
    <3>3. RequestOK(a, y, disk)
      BY <1>0, <2>1, <2>2, <3>1 DEF RequestOK, OpenedOK, CheckedOK, ForPages
    <3> QED BY <1>0, <2>1, <3>2, <3>3, Stepping
  <2>3. CASE r.got.content # r.page
    BY <1>3, <1>10, <2>1, <2>3 DEF Check, Release
  <2> QED BY <2>2, <2>3
<1> QED BY <1>2, <1>4, <1>6, <1>7, <1>8, <1>9, <1>10

\* The steps a request and the spread task have in common.
LEMMA SharedSteps ==
    ASSUME RequestsOK, CatalogTyped, PoolFine(pool), NEW a \in Actors, Stat(a) \/ Open(a) \/ Read(a)
    PROVE  RequestsOK'
<1> DEFINE r == req[a]
<1>0. r \in Requests /\ RequestOK(a, r, disk)
  BY DEF RequestsOK
<1>1. Failed(r) \in Requests /\ (r.pc \in {"stat", "open"} => RequestOK(a, Failed(r), disk))
  <2>1. r.pc \in {"stat", "open"} /\ r.kind = "spread" => a = Spread
    BY <1>0 DEF RequestOK, ForPages, Kinds
  <2> QED BY <2>1, IdleOK DEF Failed
<1>2. ASSUME Stat(a) PROVE RequestsOK'
  <2> DEFINE y == [r EXCEPT !.pc = "open", !.moved = FALSE]
  <2>1. r.pc = "stat" /\ disk' = disk
    BY <1>2 DEF Stat, Stays
  <2>2. CASE disk[r.vol] = r.rev
    <3>1. y \in Requests /\ y.pc = "open" /\ y.kind = r.kind /\ y.vol = r.vol /\ y.rev = r.rev
          /\ y.page = r.page /\ y.checked = r.checked /\ y.got = r.got
      BY <1>0 DEF Requests
    <3>2. Step(a, y)
      BY <1>2, <2>2 DEF Stat
    <3> HIDE DEF y
    <3>3. RequestOK(a, y, disk)
      BY <1>0, <2>1, <2>2, <3>1 DEF RequestOK, OpenedOK, CheckedOK, ForPages, ForSpreads
    <3> QED BY <2>1, <3>2, <3>3, Stepping
  <2>3. CASE disk[r.vol] # r.rev
    BY <1>1, <1>2, <2>1, <2>3, Stepping DEF Stat
  <2> QED BY <2>2, <2>3
<1>3. ASSUME Open(a) PROVE RequestsOK'
  <2> DEFINE pc == IF r.kind = "page" /\ ~ r.checked THEN "check" ELSE "read"
             got == [content |-> Handle(r).content, raced |-> Handle(r).raced \/ (r.checked /\ r.got.raced)]
             y == [r EXCEPT !.pc = pc, !.got = got]
  <2>1. r.pc = "open" /\ disk' = disk /\ r.vol \in Volumes /\ r.rev \in Versions
        /\ (r.moved \/ disk[r.vol] = r.rev)
    BY <1>0, <1>3 DEF Open, Stays, RequestOK, OpenedOK
  <2>2. CASE disk[r.vol] = None /\ Opened(Key(r)) = {}
    BY <1>1, <1>3, <2>1, <2>2, Stepping DEF Open
  <2>3. CASE disk[r.vol] # None \/ Opened(Key(r)) # {}
    <3>1. Handle(r) \in Entries /\ (Handle(r).raced \/ Handle(r).content = r.rev)
      <4>1. Handle(r) \in Entries /\ Handle(r).rev = r.rev /\ (Handle(r).raced \/ Handle(r).content = Handle(r).rev)
        BY <1>0, <2>1, <2>3, Handled DEF CatalogTyped
      <4> QED BY <4>1
    <3>2. r.checked \in BOOLEAN /\ (r.checked => r.got \in Content)
      BY <1>0 DEF Requests, RequestOK, CheckedOK
    <3>3. got \in Content /\ (got.raced \/ got.content = r.rev) /\ (r.checked => got.raced \/ r.page = r.rev)
      <4>1. Handle(r).content \in Versions /\ Handle(r).raced \in BOOLEAN
        BY <3>1 DEF Entries
      <4>2. r.checked => r.got.raced \in BOOLEAN /\ (r.got.raced \/ r.page = r.rev)
        BY <1>0, <3>2 DEF RequestOK, CheckedOK, Content
      <4>3. got.content = Handle(r).content /\ got.raced = (Handle(r).raced \/ (r.checked /\ r.got.raced))
        OBVIOUS
      <4>4. (Handle(r).raced \/ (r.checked /\ r.got.raced)) \in BOOLEAN
        OBVIOUS
      <4>5. got \in Content
        BY <4>1, <4>4 DEF Content
      <4> HIDE DEF got
      <4> QED BY <3>1, <4>2, <4>3, <4>5
    <3> HIDE DEF got
    <3>4. y \in Requests /\ y.pc = pc /\ y.kind = r.kind /\ y.vol = r.vol /\ y.rev = r.rev
          /\ y.page = r.page /\ y.checked = r.checked /\ y.got = got
      <4>1. pc \in {"check", "read"}
        OBVIOUS
      <4> HIDE DEF pc
      <4> QED BY <1>0, <3>3, <4>1 DEF Requests, Content
    <3>5. Step(a, y)
      BY <1>3, <2>3 DEF Open, got
    <3> HIDE DEF y
    <3>6. RequestOK(a, y, disk)
      <4>1. (pc = "check" /\ r.kind = "page" /\ ~ r.checked) \/ (pc = "read" /\ (r.kind = "page" => r.checked))
        BY <3>2
      <4>2. a = Spread => pc = "read"
        BY <1>0, <2>1 DEF RequestOK
      <4>3. CheckedOK(y) /\ OpenedOK(y, disk)
        <5> HIDE DEF pc
        <5> QED BY <1>0, <3>3, <3>4, <4>1 DEF RequestOK, CheckedOK, OpenedOK
      <4> HIDE DEF pc
      <4> QED BY <1>0, <2>1, <3>4, <4>1, <4>2, <4>3 DEF RequestOK, ForPages, ForSpreads
    <3> QED BY <2>1, <3>5, <3>6, Stepping
  <2> QED BY <2>2, <2>3
<1>4. ASSUME Read(a) PROVE RequestsOK'
  <2> DEFINE x == IF r.kind = "spread" THEN "dims" ELSE "store"
             y == [r EXCEPT !.pc = x]
  <2>1. r.pc = "read" /\ disk' = disk /\ Step(a, y)
    BY <1>4 DEF Read, Stays, Release
  <2>2. a # Spread => r.kind \in Kinds
    BY <1>0, <2>1 DEF RequestOK, ForPages
  <2>3. (a = Spread /\ x = "dims") \/ (a # Spread /\ x = "store")
    BY <1>0, <2>1, <2>2 DEF RequestOK, Kinds
  <2> HIDE DEF x
  <2>4. y \in Requests /\ y.pc = x /\ y.kind = r.kind /\ y.vol = r.vol /\ y.rev = r.rev
        /\ y.page = r.page /\ y.checked = r.checked /\ y.got = r.got
    BY <1>0, <2>3, WentOn
  <2> HIDE DEF y
  <2>5. RequestOK(a, y, disk)
    BY <1>0, <2>1, <2>3, <2>4 DEF RequestOK, OpenedOK, CheckedOK, ForPages, ForSpreads
  <2> QED BY <2>1, <2>5, Stepping
<1> QED BY <1>2, <1>3, <1>4

SpreadSteps ==
    \/ \E v \in Volumes : SpreadTake(v)
    \/ SpreadEnds \/ SpreadKnown \/ SpreadDims \/ SpreadFinish

LEMMA SpreadKeeps ==
    ASSUME RequestsOK, CatalogTyped, SpreadSteps
    PROVE  RequestsOK'
<1> DEFINE r == req[Spread]
<1>0. Spread \in Actors /\ r \in Requests /\ RequestOK(Spread, r, disk)
  BY ReaderNotSpread DEF RequestsOK
<1>1. ASSUME Step(Spread, Again), disk' = disk PROVE RequestsOK'
  BY <1>0, <1>1, IdleOK, Stepping
<1>2. ASSUME NEW v \in Volumes, SpreadTake(v) PROVE RequestsOK'
  <2> DEFINE y == [Again EXCEPT !.pc = "known", !.vol = v, !.rev = pub[v], !.force = (pending[v] = "force")]
  <2>1. disk' = disk
    BY <1>2 DEF SpreadTake, SpreadStep
  <2>2. CASE pub[v] = None
    BY <1>1, <1>2, <2>1, <2>2 DEF SpreadTake
  <2>3. CASE pub[v] # None
    <3>1. pub[v] \in Versions /\ (pending[v] = "force") \in BOOLEAN
      BY <2>3 DEF CatalogTyped
    <3>2. y \in Requests /\ y.pc = "known" /\ y.kind = "spread" /\ y.vol = v /\ y.rev = pub[v] /\ y.checked = FALSE
      BY <3>1 DEF Again, Idle, Requests
    <3>3. Step(Spread, y)
      BY <1>2, <2>3 DEF SpreadTake
    <3> HIDE DEF y
    <3>4. RequestOK(Spread, y, disk)
      BY <3>1, <3>2 DEF RequestOK, OpenedOK, CheckedOK, ForSpreads
    <3> QED BY <1>0, <2>1, <3>3, <3>4, Stepping
  <2> QED BY <2>2, <2>3
<1>3. ASSUME SpreadEnds PROVE RequestsOK'
  BY <1>0, <1>3, IdleOK, Stepping DEF SpreadEnds, SpreadStep
<1>4. ASSUME SpreadKnown PROVE RequestsOK'
  <2>1. r.pc = "known" /\ disk' = disk
    BY <1>4 DEF SpreadKnown, SpreadStep
  <2>2. ASSUME NEW x \in {"finish", "stat"}, NEW y, y = [r EXCEPT !.pc = x], Step(Spread, y) PROVE RequestsOK'
    <3>1. y \in Requests /\ y.pc = x /\ y.kind = r.kind /\ y.vol = r.vol /\ y.rev = r.rev
          /\ y.page = r.page /\ y.checked = r.checked /\ y.got = r.got
      BY <1>0, <2>2, WentOn
    <3>2. RequestOK(Spread, y, disk)
      BY <1>0, <2>1, <3>1 DEF RequestOK, OpenedOK, CheckedOK, ForSpreads
    <3> QED BY <1>0, <2>1, <2>2, <3>2, Stepping
  <2>3. Step(Spread, Again) \/ Step(Spread, [r EXCEPT !.pc = "finish"]) \/ Step(Spread, [r EXCEPT !.pc = "stat"])
    BY <1>4 DEF SpreadKnown
  <2> QED BY <1>1, <2>1, <2>2, <2>3
<1>5. ASSUME SpreadDims PROVE RequestsOK'
  <2> DEFINE y == [r EXCEPT !.pc = "finish", !.got = None]
  <2>1. r.pc = "dims" /\ disk' = disk /\ Step(Spread, y)
    BY <1>5 DEF SpreadDims, SpreadStep
  <2>2. y \in Requests /\ y.pc = "finish" /\ y.kind = r.kind /\ y.vol = r.vol /\ y.rev = r.rev /\ y.checked = r.checked
    BY <1>0 DEF Requests
  <2>3. ~ r.checked
    BY <1>0, <2>1 DEF RequestOK, CheckedOK
  <2> HIDE DEF y
  <2>4. RequestOK(Spread, y, disk)
    BY <1>0, <2>1, <2>2, <2>3 DEF RequestOK, OpenedOK, CheckedOK, ForSpreads
  <2> QED BY <1>0, <2>1, <2>4, Stepping
<1>6. ASSUME SpreadFinish PROVE RequestsOK'
  BY <1>1, <1>6 DEF SpreadFinish, SpreadStep
<1> QED BY <1>2, <1>3, <1>4, <1>5, <1>6 DEF SpreadSteps

\* An archive that is replaced while a request is about to open it makes that a race.
LEMMA ReplaceKeeps ==
    ASSUME RequestsOK, CatalogTyped, NEW v \in Volumes, NEW x \in Versions \cup {None}, Replace(v, x)
    PROVE  RequestsOK' /\ \A a \in Actors : req'[a].pc = req[a].pc /\ req'[a].kind = req[a].kind
                                             /\ Key(req'[a]) = Key(req[a]) /\ Name(req'[a]) = Name(req[a])
<1>1. req' = [a \in Actors |-> [req[a] EXCEPT !.moved = req[a].moved \/ (req[a].vol = v /\ req[a].pc = "open")]]
  BY DEF Replace, Moved
<1>2. disk' = [disk EXCEPT ![v] = x]
  BY DEF Replace
<1>3. ASSUME NEW a \in Actors
      PROVE  /\ req'[a] \in Requests /\ RequestOK(a, req'[a], disk')
             /\ req'[a].pc = req[a].pc /\ req'[a].kind = req[a].kind
             /\ Key(req'[a]) = Key(req[a]) /\ Name(req'[a]) = Name(req[a])
  <2> DEFINE mv == req[a].moved \/ (req[a].vol = v /\ req[a].pc = "open")
  <2>1. req[a] \in Requests /\ RequestOK(a, req[a], disk) /\ mv \in BOOLEAN
    BY DEF RequestsOK, Requests
  <2>2. ASSUME NEW y, y = [req[a] EXCEPT !.moved = mv]
        PROVE  /\ y \in Requests /\ y.pc = req[a].pc /\ y.kind = req[a].kind /\ y.vol = req[a].vol /\ y.rev = req[a].rev
               /\ y.page = req[a].page /\ y.checked = req[a].checked /\ y.got = req[a].got /\ y.moved = mv
    <3> HIDE DEF mv
    <3> QED BY <2>1, <2>2 DEF Requests
  <2>3. PICK y : y = req'[a]
    OBVIOUS
  <2>4. y = [req[a] EXCEPT !.moved = mv]
    BY <1>1, <2>3
  <2>5. /\ y \in Requests /\ y.pc = req[a].pc /\ y.kind = req[a].kind /\ y.vol = req[a].vol /\ y.rev = req[a].rev
        /\ y.page = req[a].page /\ y.checked = req[a].checked /\ y.got = req[a].got /\ y.moved = mv
    <3> HIDE DEF mv
    <3> QED BY <2>2, <2>4
  <2>6. OpenedOK(y, disk')
    <3>1. y.pc = "open" => y.moved \/ disk'[y.vol] = y.rev
      <4>1. CASE y.pc = "open" /\ y.vol = v
        BY <2>5, <4>1
      <4>2. CASE y.pc = "open" /\ y.vol # v
        <5>1. y.vol \in Volumes /\ (req[a].moved \/ disk[y.vol] = y.rev)
          BY <2>1, <2>5, <4>2 DEF RequestOK, OpenedOK
        <5>2. disk'[y.vol] = disk[y.vol]
          BY <1>2, <4>2, <5>1 DEF CatalogTyped
        <5> QED BY <2>5, <5>1, <5>2
      <4> QED BY <4>1, <4>2
    <3> HIDE DEF mv
    <3> QED BY <2>1, <2>5, <3>1 DEF RequestOK, OpenedOK
  <2> HIDE DEF mv
  <2>7. RequestOK(a, y, disk')
    BY <2>1, <2>5, <2>6 DEF RequestOK, CheckedOK
  <2>8. Key(y) = Key(req[a]) /\ Name(y) = Name(req[a])
    BY <2>5 DEF Key, Name
  <2> QED BY <2>3, <2>5, <2>7, <2>8
<1>4. req' \in [Actors -> Requests]
  BY <1>1, <1>3
<1> QED BY <1>3, <1>4 DEF RequestsOK

LEMMA RequestsStep ==
    ASSUME RequestsOK, CatalogTyped, PoolFine(pool), [Next]_vars
    PROVE  RequestsOK'
<1>1. ASSUME NEW a \in Readers,
             \/ \E v \in Volumes : RequestPage(a, v) \/ RequestCopy(a, v) \/ RequestSave(a, v)
             \/ ReadPage(a) \/ CachedFile(a) \/ Lock(a) \/ Check(a)
             \/ StorePage(a) \/ StoreCopy(a) \/ Add(a) \/ Respond(a) \/ ClearProgress(a)
             \/ \E page \in 1..MaxPages, done \in BOOLEAN : SaveProgress(a, page, done)
      PROVE  RequestsOK'
  BY <1>1, ReaderSteps
<1>2. ASSUME NEW a \in Actors, Stat(a) \/ Open(a) \/ Read(a) PROVE RequestsOK'
  BY <1>2, SharedSteps
<1>3. ASSUME NEW v \in Volumes, NEW force \in BOOLEAN, AskSpread(v, force) PROVE RequestsOK'
  <2>1. disk' = disk /\ (req' = req \/ req' = [req EXCEPT ![Spread] = Again])
    BY <1>3 DEF AskSpread
  <2>2. CASE req' = req
    BY <2>1, <2>2 DEF RequestsOK
  <2>3. CASE req' = [req EXCEPT ![Spread] = Again]
    <3>1. Step(Spread, Again)
      BY <2>3 DEF Step
    <3> QED BY <2>1, <3>1, IdleOK, ReaderNotSpread, Stepping
  <2> QED BY <2>1, <2>2, <2>3
<1>4. ASSUME SpreadSteps PROVE RequestsOK'
  BY <1>4, SpreadKeeps
<1>5. ASSUME NEW v \in Volumes, Index(v) PROVE RequestsOK'
  BY <1>5 DEF Index, RequestsOK
<1>6. ASSUME NEW v \in Volumes, NEW x \in Versions \cup {None}, Replace(v, x) PROVE RequestsOK'
  BY <1>6, ReplaceKeeps
<1>7. ASSUME Restart PROVE RequestsOK'
  <2>1. req' = [a \in Actors |-> Idle]
    BY <1>7 DEF Restart
  <2> QED BY <2>1, IdleOK DEF RequestsOK
<1>8. ASSUME UNCHANGED vars PROVE RequestsOK'
  BY <1>8 DEF vars, RequestsOK
<1> QED BY <1>1, <1>2, <1>3, <1>4, <1>5, <1>6, <1>7, <1>8 DEF Next, SpreadSteps
-----------------------------------------------------------------------------
(***************************************************************************)
(* The pool, step by step.                                                 *)
(***************************************************************************)
Reads(r) == r.pc \in {"check", "read"}

SafeWith(p, rs) ==
    /\ \A a \in Actors : Reads(rs[a]) => HasKey(p, Key(rs[a]))
    /\ Len(p) > Capacity => Removable(p, rs) = {}

LEMMA SafeIs == (PoolSafe <=> SafeWith(pool, req)) /\ (PoolSafe' <=> SafeWith(pool', req'))
BY DEF PoolSafe, SafeWith, HasKey, Opened, Reads

LEMMA StepsAre ==
    ASSUME RequestsOK, NEW a \in Actors, NEW y, Step(a, y)
    PROVE  req'[a] = y /\ \A b \in Actors \ {a} : req'[b] = req[b]
BY DEF Step, RequestsOK

\* Nobody begins or ends to read.
LEMMA Quiet ==
    ASSUME SafeWith(pool, req), pool' = pool,
           \A a \in Actors : (Reads(req'[a]) <=> Reads(req[a])) /\ (Reads(req[a]) => Key(req'[a]) = Key(req[a]))
    PROVE  SafeWith(pool', req')
<1>1. \A k : Holders(req', k) = Holders(req, k)
  BY DEF Holders, Reads
<1>2. Removable(pool', req') = Removable(pool, req)
  BY <1>1 DEF Removable
<1> QED BY <1>2 DEF SafeWith

LEMMA QuietStep ==
    ASSUME RequestsOK, SafeWith(pool, req), pool' = pool, NEW a \in Actors, NEW y, Step(a, y),
           ~ Reads(req[a]), ~ Reads(y)
    PROVE  SafeWith(pool', req')
<1>1. \A b \in Actors : (Reads(req'[b]) <=> Reads(req[b])) /\ (Reads(req[b]) => Key(req'[b]) = Key(req[b]))
  BY StepsAre
<1> QED BY <1>1, Quiet

\* acquire holds what it gives.
LEMMA OpenSafe ==
    ASSUME RequestsOK, CatalogTyped, PoolFine(pool), SafeWith(pool, req), NEW a \in Actors, Open(a)
    PROVE  PoolFine(pool') /\ SafeWith(pool', req')
<1> DEFINE r == req[a]
           pc == IF r.kind = "page" /\ ~ r.checked THEN "check" ELSE "read"
           got == [content |-> Handle(r).content, raced |-> Handle(r).raced \/ (r.checked /\ r.got.raced)]
           y == [r EXCEPT !.pc = pc, !.got = got]
<1>0. r \in Requests /\ r.pc = "open" /\ r.vol \in Volumes /\ r.rev \in Versions /\ (r.moved \/ disk[r.vol] = r.rev)
  BY DEF RequestsOK, Open, RequestOK, OpenedOK
<1>1. CASE disk[r.vol] = None /\ Opened(Key(r)) = {}
  <2>1. pool' = pool /\ Step(a, Failed(r))
    BY <1>1 DEF Open
  <2>2. ~ Reads(r) /\ ~ Reads(Failed(r))
    BY <1>0 DEF Reads, Failed, Again, Idle
  <2> QED BY <2>1, <2>2, QuietStep
<1>2. CASE disk[r.vol] # None \/ Opened(Key(r)) # {}
  <2> DEFINE rs == [req EXCEPT ![a] = y]
             q == Acquired(r, rs)
  <2>1. pool' = q /\ req' = rs /\ Step(a, y)
    BY <1>2 DEF Open, Step, got
  <2>2. Key(y) = Key(r)
    <3> HIDE DEF pc, got
    <3>1. y.vol = r.vol /\ y.rev = r.rev
      BY <1>0 DEF Requests
    <3> HIDE DEF y
    <3> QED BY <3>1 DEF Key
  <2> HIDE DEF y, rs
  <2>3. /\ PoolFine(q)
        /\ \A k : Holders(rs, k) # {} /\ (k = Key(r) \/ HasKey(pool, k)) => HasKey(q, k)
        /\ Len(q) > Capacity => Removable(q, rs) = {}
    BY <1>0, <1>2, AcquiredIs DEF CatalogTyped
  <2>4. ASSUME NEW b \in Actors, Reads(rs[b]) PROVE HasKey(q, Key(rs[b]))
    <3>1. b \in Holders(rs, Key(rs[b]))
      BY <2>4 DEF Holders, Reads
    <3>2. Key(rs[b]) = Key(r) \/ HasKey(pool, Key(rs[b]))
      BY <2>1, <2>2, <2>4, StepsAre DEF SafeWith
    <3> HIDE DEF q
    <3> QED BY <2>3, <3>1, <3>2
  <2>5. SafeWith(q, rs)
    <3> HIDE DEF q
    <3> QED BY <2>3, <2>4 DEF SafeWith
  <2> HIDE DEF q
  <2> QED BY <2>1, <2>3, <2>5
<1> QED BY <1>1, <1>2

\* What is given back may go, what others read stays.
LEMMA ReleaseSafe ==
    ASSUME RequestsOK, PoolFine(pool), SafeWith(pool, req), NEW a \in Actors, NEW y, Release(a, y), ~ Reads(y)
    PROVE  PoolFine(pool') /\ SafeWith(pool', req')
<1> DEFINE rs == [req EXCEPT ![a] = y]
           q == Evict(pool, rs)
<1>1. pool' = q /\ req' = rs /\ Step(a, y)
  BY DEF Release, Step
<1> HIDE DEF rs
<1>2. /\ PoolFine(q)
      /\ \A k : Holders(rs, k) # {} /\ HasKey(pool, k) => HasKey(q, k)
      /\ Len(q) > Capacity => Removable(q, rs) = {}
  BY Evicted
<1> HIDE DEF q
<1>3. ASSUME NEW b \in Actors, Reads(rs[b]) PROVE HasKey(q, Key(rs[b]))
  <2>1. b \in Holders(rs, Key(rs[b]))
    BY <1>3 DEF Holders, Reads
  <2>2. HasKey(pool, Key(rs[b]))
    BY <1>1, <1>3, StepsAre DEF SafeWith
  <2> QED BY <1>2, <2>1, <2>2
<1> QED BY <1>1, <1>2, <1>3 DEF SafeWith

LEMMA PoolStep ==
    ASSUME RequestsOK, CatalogTyped, PoolFine(pool), PoolSafe, [Next]_vars
    PROVE  PoolFine(pool') /\ PoolSafe'
<1> DEFINE Good == PoolFine(pool') /\ SafeWith(pool', req')
<1>0. SafeWith(pool, req)
  BY SafeIs
<1>1. ~ Reads(Idle) /\ ~ Reads(Again) /\ Readers \subseteq Actors /\ Spread \in Actors
      /\ \A a \in Actors : ~ Reads(Failed(req[a]))
  BY ReaderNotSpread DEF Reads, Failed, Again, Idle
<1>2. ASSUME NEW a \in Actors, NEW y, Step(a, y), ~ Reads(req[a]), ~ Reads(y), pool' = pool PROVE Good
  BY <1>0, <1>2, QuietStep
<1>3. ASSUME NEW a \in Actors, NEW x \in {"cached", "wait", "stat", "add", "respond", "finish"},
             NEW y, y = [req[a] EXCEPT !.pc = x]
      PROVE  ~ Reads(y)
  <2>1. y.pc = x
    BY <1>3, WentOn DEF RequestsOK
  <2> QED BY <2>1 DEF Reads
<1>4. ASSUME NEW a \in Readers, NEW v \in Volumes, RequestPage(a, v) \/ RequestCopy(a, v) \/ RequestSave(a, v)
      PROVE  Good
  <2>1. ASSUME NEW pc \in {"page", "save"}, NEW kind, Request(a, pc, kind, v) PROVE Good
    <3> DEFINE y == [Idle EXCEPT !.pc = pc, !.kind = kind, !.vol = v, !.rev = pub[v]]
    <3>1. Step(a, y) /\ req[a].pc = "idle" /\ pool' = pool
      BY <2>1 DEF Request
    <3>2. y.pc = pc
      BY DEF Idle
    <3> HIDE DEF y
    <3> QED BY <1>1, <1>2, <3>1, <3>2 DEF Reads
  <2> QED BY <1>4, <2>1 DEF RequestPage, RequestCopy, RequestSave
<1>5. ASSUME NEW a \in Readers, ReadPage(a) PROVE Good
  <2> DEFINE y == [req[a] EXCEPT !.pc = "cached", !.page = pub[req[a].vol]]
  <2>1. req[a] \in Requests
    BY <1>1 DEF RequestsOK
  <2>2. y.pc = "cached"
    BY <2>1 DEF Requests
  <2>3. req[a].pc = "page" /\ pool' = pool /\ (Step(a, Idle) \/ Step(a, y))
    BY <1>5 DEF ReadPage
  <2> HIDE DEF y
  <2> QED BY <1>1, <1>2, <2>2, <2>3 DEF Reads
<1>6. ASSUME NEW a \in Readers, CachedFile(a) \/ Lock(a) \/ StorePage(a) \/ StoreCopy(a) \/ Add(a) \/ Respond(a)
                                \/ ClearProgress(a)
      PROVE  Good
  <2> DEFINE y(x) == [req[a] EXCEPT !.pc = x]
  <2>1. pool' = pool /\ ~ Reads(req[a])
    BY <1>6 DEF CachedFile, Lock, StorePage, StoreCopy, Store, Add, Respond, ClearProgress, Reads
  <2>2. Step(a, Idle) \/ Step(a, y("wait")) \/ Step(a, y("stat")) \/ Step(a, y("add")) \/ Step(a, y("respond"))
    BY <1>6 DEF CachedFile, Lock, StorePage, StoreCopy, Store, Add, Respond, ClearProgress
  <2> QED BY <1>1, <1>2, <1>3, <2>1, <2>2
<1>7. ASSUME NEW a \in Readers, NEW page \in 1..MaxPages, NEW done \in BOOLEAN, SaveProgress(a, page, done)
      PROVE  Good
  BY <1>1, <1>2, <1>7 DEF SaveProgress, Reads
<1>8. ASSUME NEW a \in Readers, Check(a) PROVE Good
  <2> DEFINE y == [req[a] EXCEPT !.pc = "stat", !.checked = TRUE]
  <2>1. req[a] \in Requests
    BY <1>1 DEF RequestsOK
  <2>2. y.pc = "stat"
    BY <2>1 DEF Requests
  <2>3. Release(a, y) \/ Release(a, Idle)
    BY <1>8 DEF Check
  <2> HIDE DEF y
  <2> QED BY <1>0, <1>1, <2>2, <2>3, ReleaseSafe DEF Reads
<1>9. ASSUME NEW a \in Actors, Read(a) PROVE Good
  <2>1. ASSUME NEW x \in {"dims", "store"}, NEW y, y = [req[a] EXCEPT !.pc = x], Release(a, y) PROVE Good
    <3>1. y.pc = x
      BY <2>1, WentOn DEF RequestsOK
    <3> QED BY <1>0, <2>1, <3>1, ReleaseSafe DEF Reads
  <2>2. Release(a, [req[a] EXCEPT !.pc = "dims"]) \/ Release(a, [req[a] EXCEPT !.pc = "store"])
    BY <1>9 DEF Read
  <2> QED BY <2>1, <2>2
<1>10. ASSUME NEW a \in Actors, Stat(a) PROVE Good
  <2> DEFINE y == [req[a] EXCEPT !.pc = "open", !.moved = FALSE]
  <2>1. y.pc = "open"
    BY DEF RequestsOK, Requests
  <2>2. req[a].pc = "stat" /\ pool' = pool /\ (Step(a, y) \/ Step(a, Failed(req[a])))
    BY <1>10 DEF Stat
  <2> HIDE DEF y
  <2> QED BY <1>1, <1>2, <2>1, <2>2 DEF Reads
<1>11. ASSUME NEW a \in Actors, Open(a) PROVE Good
  BY <1>0, <1>11, OpenSafe
<1>12. ASSUME NEW v \in Volumes, NEW force \in BOOLEAN, AskSpread(v, force) PROVE Good
  <2>1. pool' = pool /\ (req' = req \/ (req[Spread].pc = "idle" /\ Step(Spread, Again)))
    BY <1>12 DEF AskSpread, Step
  <2>2. CASE req' = req
    BY <1>0, <2>1, <2>2, Quiet
  <2>3. CASE req[Spread].pc = "idle" /\ Step(Spread, Again)
    BY <1>1, <1>2, <2>1, <2>3 DEF Reads
  <2> QED BY <2>1, <2>2, <2>3
<1>13. ASSUME NEW v \in Volumes, SpreadTake(v) PROVE Good
  <2> DEFINE y == [Again EXCEPT !.pc = "known", !.vol = v, !.rev = pub[v], !.force = (pending[v] = "force")]
  <2>1. y.pc = "known"
    BY DEF Again, Idle
  <2>2. req[Spread].pc = "take" /\ pool' = pool /\ (Step(Spread, Again) \/ Step(Spread, y))
    BY <1>13 DEF SpreadTake
  <2> HIDE DEF y
  <2> QED BY <1>1, <1>2, <2>1, <2>2 DEF Reads
<1>14. ASSUME SpreadEnds \/ SpreadFinish PROVE Good
  BY <1>1, <1>2, <1>14 DEF SpreadEnds, SpreadFinish, Reads
<1>15. ASSUME SpreadKnown PROVE Good
  <2>1. req[Spread].pc = "known" /\ pool' = pool
        /\ (Step(Spread, Again) \/ Step(Spread, [req[Spread] EXCEPT !.pc = "finish"])
            \/ Step(Spread, [req[Spread] EXCEPT !.pc = "stat"]))
    BY <1>15 DEF SpreadKnown
  <2> QED BY <1>1, <1>2, <1>3, <2>1 DEF Reads
<1>16. ASSUME SpreadDims PROVE Good
  <2> DEFINE y == [req[Spread] EXCEPT !.pc = "finish", !.got = None]
  <2>1. y.pc = "finish"
    BY <1>1 DEF RequestsOK, Requests
  <2>2. req[Spread].pc = "dims" /\ pool' = pool /\ Step(Spread, y)
    BY <1>16 DEF SpreadDims
  <2> HIDE DEF y
  <2> QED BY <1>1, <1>2, <2>1, <2>2 DEF Reads
<1>17. ASSUME NEW v \in Volumes, Index(v) PROVE Good
  BY <1>0, <1>17, Quiet DEF Index
<1>18. ASSUME NEW v \in Volumes, NEW x \in Versions \cup {None}, Replace(v, x) PROVE Good
  <2>1. pool' = pool
    BY <1>18 DEF Replace
  <2> QED BY <1>0, <1>18, <2>1, ReplaceKeeps, Quiet DEF Reads
<1>19. ASSUME Restart PROVE Good
  <2>1. pool' = <<>> /\ req' = [a \in Actors |-> Idle]
    BY <1>19 DEF Restart
  <2>2. PoolFine(<<>>)
    BY DEF PoolFine
  <2>3. SafeWith(<<>>, req')
    BY <1>1, <2>1, ReadingAssumption DEF SafeWith
  <2> QED BY <2>1, <2>2, <2>3
<1>20. ASSUME UNCHANGED vars PROVE Good
  BY <1>0, <1>20, Quiet DEF vars
<1>21. Good
  <2> HIDE DEF Good
  <2> QED BY <1>4, <1>5, <1>6, <1>7, <1>8, <1>9, <1>10, <1>11, <1>12, <1>13, <1>14, <1>15, <1>16, <1>17, <1>18,
             <1>19, <1>20 DEF Next
<1> QED BY <1>21, SafeIs
-----------------------------------------------------------------------------
(***************************************************************************)
(* The caches, step by step.                                               *)
(***************************************************************************)
\* Between Store and added the new file is there and not yet remembered.
Added(rs, n) == \E a \in Readers : rs[a].pc = "add" /\ Name(rs[a]) = n

\* What is in a cache and not remembered is being added; what is remembered fits.
KnownWith(kn, c, rs) ==
    \A k \in Kinds : kn[k] # None =>
        /\ IsFiniteSet(kn[k]) /\ Cardinality(kn[k]) <= Budget
        /\ \A n \in Names : n.kind = k /\ Named(c, n) => n \in kn[k] \/ Added(rs, n)

LEMMA FileIs ==
    ASSUME CacheFine(cache), NEW n, HasFile(n)
    PROVE  File(n) \in Cached /\ Truthful(File(n)) /\ NameOf(File(n)) = n
<1>1. PICK i \in DOMAIN cache : NameOf(cache[i]) = n /\ File(n) = cache[i]
  BY DEF HasFile, FilesAt, File
<1>2. cache[i] \in Cached /\ Truthful(cache[i])
  BY DEF CacheFine
<1> QED BY <1>1, <1>2

\* The file a request stores is what it read.
LEMMA StoredIs ==
    ASSUME RequestsOK, CacheFine(cache), NEW a \in Readers, NEW kind, Store(a, kind)
    PROVE  \E file \in Cached : Truthful(file) /\ NameOf(file) = Name(req[a]) /\ cache' = Latest(file)
<1> DEFINE r == req[a]
           file == [kind |-> kind, vol |-> r.vol, rev |-> r.rev, page |-> r.page,
                    content |-> r.got.content, raced |-> r.got.raced]
<1>1. r.pc = "store" /\ r.kind = kind /\ cache' = Latest(file)
  BY DEF Store
<1>2. a # Spread /\ RequestOK(a, r, disk)
  BY ReaderNotSpread DEF RequestsOK
<1>3. /\ kind \in Kinds /\ r.vol \in Volumes /\ r.rev \in Versions /\ r.page \in Versions
      /\ r.got \in Content /\ (r.got.raced \/ r.got.content = r.rev)
      /\ kind = "page" => r.got.raced \/ r.page = r.rev
  BY <1>1, <1>2 DEF RequestOK, OpenedOK, CheckedOK, ForPages
<1>4. r.got.content \in Versions /\ r.got.raced \in BOOLEAN
  BY <1>3 DEF Content
<1>5. file \in Cached
  BY <1>3, <1>4 DEF Cached
<1>6. Truthful(file)
  BY <1>3 DEF Truthful
<1>7. NameOf(file) = Name(r)
  BY <1>1 DEF NameOf, Name
<1> HIDE DEF file
<1> QED BY <1>1, <1>5, <1>6, <1>7

\* What is in the cache of a kind, and how much it may take away, when a file is added.
LEMMA AddKeeps ==
    ASSUME RequestsOK, CacheFine(cache), KnownWith(known, cache, req),
           known \in [Kinds -> (SUBSET Names) \cup {None}], NEW a \in Readers, Add(a)
    PROVE  CacheFine(cache') /\ KnownWith(known', cache', req')
           /\ known' \in [Kinds -> (SUBSET Names) \cup {None}]
<1> DEFINE r == req[a]
           n == Name(r)
           total == (IF known[r.kind] = None THEN Files(r.kind) ELSE known[r.kind]) \cup {n}
           over == Cardinality(total) > Budget
           gone == IF over THEN Oldest(n) ELSE {}
           left == {m \in Files(r.kind) : FilesAt(m) \cap Oldest(n) = {}}
           is == DOMAIN cache \ gone
<1>1. a \in Actors /\ a # Spread /\ RequestOK(a, r, disk) /\ r.pc = "add"
  BY ReaderNotSpread DEF RequestsOK, Add
<1>2. r.kind \in Kinds /\ n \in Names /\ n.kind = r.kind
  BY <1>1 DEF RequestOK, ForPages, Name, Names
<1>3. PICK y : Step(a, y)
  BY DEF Add
<1>4. \A b \in Readers \ {a} : req'[b] = req[b]
  BY <1>1, <1>3, StepsAre, ReaderNotSpread
<1>5. \A m : Added(req, m) => m = n \/ Added(req', m)
  BY <1>4 DEF Added
<1>6. CASE ~ HasFile(n)
  <2>1. cache' = cache /\ known' = known
    BY <1>6 DEF Add
  <2>2. ~ Named(cache, n)
    BY <1>6, NamesAre
  <2>3. KnownWith(known, cache, req')
    BY <1>5, <2>2 DEF KnownWith
  <2> QED BY <2>1, <2>3
<1>7. CASE HasFile(n)
  <2>1. /\ known' = [known EXCEPT ![r.kind] = IF over THEN {m \in Files(r.kind) : FilesAt(m) \cap gone = {}} ELSE total]
        /\ cache' = Kept(cache, is)
    BY <1>7 DEF Add
  <2>2. /\ Oldest(n) \in SUBSET (DOMAIN cache) /\ \A i \in Oldest(n) : cache[i].kind = r.kind
        /\ IsFiniteSet(left) /\ Cardinality(left) <= Budget
    BY <1>2, <1>7, WithinBudget
  <2>3. CacheFine(cache') /\ \A m : Named(cache', m) <=> \E i \in is : NameOf(cache[i]) = m
    <3>1. is \in SUBSET (DOMAIN cache)
      OBVIOUS
    <3> HIDE DEF is
    <3> QED BY <2>1, <3>1, KeptCache
  <2>4. \A m : Named(cache', m) => Named(cache, m)
    BY <2>3 DEF Named
  <2>5. Files(r.kind) \in SUBSET Names /\ left \in SUBSET Names
    BY DEF Files
  <2>6. IsFiniteSet(total) /\ total \in SUBSET Names
    <3>1. IsFiniteSet(Files(r.kind))
      <4> DEFINE js == {i \in DOMAIN cache : cache[i].kind = r.kind}
      <4>1. \A i \in DOMAIN cache : cache[i] \in Cached
        BY DEF CacheFine
      <4>2. \A i \in js : NameOf(cache[i]) \in Files(r.kind)
        BY <4>1, NamesAre DEF Files, Named
      <4>3. \A m \in Files(r.kind) : \E i \in js : NameOf(cache[i]) = m
        BY <4>1, NamesAre DEF Files, Named
      <4>4. js \in SUBSET (DOMAIN cache)
        OBVIOUS
      <4> HIDE DEF js
      <4> QED BY <4>2, <4>3, <4>4, NamesCounted
    <3>2. known[r.kind] # None => IsFiniteSet(known[r.kind]) /\ known[r.kind] \in SUBSET Names
      BY <1>2 DEF KnownWith
    <3> QED BY <1>2, <2>5, <3>1, <3>2, FS_AddElement
  <2>7. known'[r.kind] = (IF over THEN left ELSE total) /\ \A k \in Kinds \ {r.kind} : known'[k] = known[k]
    <3>1. over => gone = Oldest(n)
      OBVIOUS
    <3> HIDE DEF over, total
    <3> QED BY <1>2, <2>1, <3>1
  <2>8. Cardinality(known'[r.kind]) <= Budget /\ IsFiniteSet(known'[r.kind]) /\ known'[r.kind] \in SUBSET Names
    <3>1. CASE over
      <4> HIDE DEF over, left
      <4> QED BY <2>2, <2>5, <2>7, <3>1
    <3>2. CASE ~ over
      <4>1. Cardinality(total) <= Budget
        <5>1. Cardinality(total) \in Nat /\ Budget \in Nat
          <6> HIDE DEF total
          <6> QED BY <2>6, FS_CardinalityType, ReadingAssumption
        <5> HIDE DEF total
        <5> QED BY <3>2, <5>1
      <4> HIDE DEF total, over
      <4> QED BY <2>6, <2>7, <3>2, <4>1
    <3> QED BY <3>1, <3>2
  <2>9. ASSUME NEW m \in Names, m.kind = r.kind, Named(cache', m) PROVE m \in known'[r.kind] \/ Added(req', m)
    <3>1. PICK i \in is : NameOf(cache[i]) = m
      BY <2>3, <2>9
    <3>2. m \in Files(r.kind)
      BY <2>4, <2>9, NamesAre DEF Files
    <3>3. CASE over
      <4>1. FilesAt(m) = {i} /\ i \notin Oldest(n)
        BY <3>1, <3>3 DEF FilesAt, CacheFine
      <4>2. m \in left
        BY <3>2, <4>1
      <4> HIDE DEF left, over
      <4> QED BY <2>7, <3>3, <4>2
    <3>4. CASE ~ over
      <4>1. m \in total \/ Added(req', m)
        <5>1. CASE known[r.kind] = None
          BY <3>2, <5>1
        <5>2. CASE known[r.kind] # None
          BY <1>2, <1>5, <2>4, <2>9, <5>2 DEF KnownWith
        <5> QED BY <5>1, <5>2
      <4> HIDE DEF total, over
      <4> QED BY <2>7, <3>4, <4>1
    <3> QED BY <3>3, <3>4
  <2>10. ASSUME NEW k \in Kinds \ {r.kind}, NEW m \in Names, m.kind = k, known[k] # None, Named(cache', m)
         PROVE  m \in known[k] \/ Added(req', m)
    <3>1. Named(cache, m) /\ m # n
      BY <1>2, <2>4, <2>10
    <3> QED BY <1>5, <2>10, <3>1 DEF KnownWith
  <2>11. KnownWith(known', cache', req')
    <3> HIDE DEF n
    <3> QED BY <2>7, <2>8, <2>9, <2>10 DEF KnownWith
  <2>12. known' \in [Kinds -> (SUBSET Names) \cup {None}]
    <3>1. known' = [known EXCEPT ![r.kind] = known'[r.kind]]
      BY <1>2, <2>1, <2>7
    <3> QED BY <2>8, <3>1
  <2> QED BY <2>3, <2>11, <2>12
<1> QED BY <1>6, <1>7

\* What is known of the caches does not change when nothing is stored, and adding goes on.
LEMMA KnownQuiet ==
    ASSUME KnownWith(known, cache, req), known' = known, \A n : Named(cache', n) => Named(cache, n),
           \A b \in Readers : req[b].pc = "add" => req'[b].pc = "add" /\ Name(req'[b]) = Name(req[b])
    PROVE  KnownWith(known', cache', req')
<1>1. \A n : Added(req, n) => Added(req', n)
  BY DEF Added
<1> QED BY <1>1 DEF KnownWith

CachesFine ==
    /\ CacheFine(cache) /\ KnownWith(known, cache, req)
    /\ known \in [Kinds -> (SUBSET Names) \cup {None}]

LEMMA CacheStep ==
    ASSUME RequestsOK, CatalogTyped, CachesFine, [Next]_vars
    PROVE  CachesFine'
<1> DEFINE Good == CacheFine(cache') /\ KnownWith(known', cache', req')
                   /\ known' \in [Kinds -> (SUBSET Names) \cup {None}]
           Still(a) == req[a].pc = "add" => req'[a].pc = "add" /\ Name(req'[a]) = Name(req[a])
<1>0. CacheFine(cache) /\ KnownWith(known, cache, req) /\ known \in [Kinds -> (SUBSET Names) \cup {None}]
      /\ Readers \subseteq Actors /\ Spread \in Actors /\ Spread \notin Readers
  BY ReaderNotSpread DEF CachesFine
<1>1. ASSUME cache' = cache, known' = known, \A b \in Readers : Still(b) PROVE Good
  BY <1>0, <1>1, KnownQuiet
<1>2. ASSUME NEW a \in Actors, NEW y, Step(a, y), a # Spread => req[a].pc # "add" PROVE \A b \in Readers : Still(b)
  BY <1>0, <1>2, StepsAre
<1>3. ASSUME NEW a \in Actors, NEW y, Step(a, y), a # Spread => req[a].pc # "add", cache' = cache, known' = known
      PROVE  Good
  <2> HIDE DEF Good, Still
  <2> QED BY <1>1, <1>2, <1>3
<1>4. ASSUME NEW a \in Readers, NEW v \in Volumes, RequestPage(a, v) \/ RequestCopy(a, v) \/ RequestSave(a, v)
      PROVE  Good
  <2> HIDE DEF Good
  <2> QED BY <1>0, <1>3, <1>4 DEF RequestPage, RequestCopy, RequestSave, Request
<1>5. ASSUME NEW a \in Readers, ReadPage(a) \/ Lock(a) \/ Respond(a) \/ ClearProgress(a) PROVE Good
  <2> HIDE DEF Good
  <2> QED BY <1>0, <1>3, <1>5 DEF ReadPage, Lock, Respond, ClearProgress
<1>6. ASSUME NEW a \in Readers, NEW page \in 1..MaxPages, NEW done \in BOOLEAN, SaveProgress(a, page, done)
      PROVE  Good
  <2> HIDE DEF Good
  <2> QED BY <1>0, <1>3, <1>6 DEF SaveProgress
<1>7. ASSUME NEW a \in Readers, Check(a) PROVE Good
  <2> HIDE DEF Good
  <2> QED BY <1>0, <1>3, <1>7 DEF Check, Release
<1>8. ASSUME NEW a \in Readers, CachedFile(a) PROVE Good
  <2> DEFINE n == Name(req[a])
  <2>1. PICK y : Step(a, y)
    BY <1>8 DEF CachedFile
  <2>2. req[a].pc = "cached" /\ known' = known
    BY <1>8 DEF CachedFile
  <2>3. \A b \in Readers : Still(b)
    BY <1>0, <1>2, <2>1, <2>2
  <2>4. CASE HasFile(n)
    <3>1. File(n) \in Cached /\ Truthful(File(n)) /\ NameOf(File(n)) = n
      BY <1>0, <2>4, FileIs
    <3>2. cache' = Latest(File(n))
      BY <1>8, <2>4 DEF CachedFile
    <3> HIDE DEF n
    <3>3. CacheFine(cache') /\ \A m : Named(cache', m) <=> Named(cache, m) \/ m = n
      BY <1>0, <3>1, <3>2, LatestIs
    <3>4. Named(cache, n)
      BY <2>4, NamesAre
    <3> QED BY <1>0, <2>2, <2>3, <3>3, <3>4, KnownQuiet
  <2>5. CASE ~ HasFile(n)
    <3>1. cache' = cache
      BY <1>8, <2>5 DEF CachedFile
    <3> QED BY <1>1, <2>2, <2>3, <3>1
  <2> QED BY <2>4, <2>5
<1>9. ASSUME NEW a \in Readers, StorePage(a) \/ StoreCopy(a) PROVE Good
  <2>1. PICK kind : Store(a, kind)
    BY <1>9 DEF StorePage, StoreCopy
  <2> DEFINE n == Name(req[a])
             y == [req[a] EXCEPT !.pc = "add"]
  <2>2. PICK file \in Cached : Truthful(file) /\ NameOf(file) = n /\ cache' = Latest(file)
    BY <1>0, <2>1, StoredIs
  <2>3. req[a].pc = "store" /\ known' = known /\ Step(a, y)
    BY <2>1 DEF Store
  <2>4. y.pc = "add" /\ Name(y) = n
    BY <1>0, WentOn DEF RequestsOK
  <2> HIDE DEF y
  <2>5. \A b \in Readers : Still(b)
    BY <1>0, <1>2, <2>3
  <2>6. Added(req', n)
    BY <1>0, <2>3, <2>4, StepsAre DEF Added
  <2> HIDE DEF n
  <2>7. CacheFine(cache') /\ \A m : Named(cache', m) <=> Named(cache, m) \/ m = n
    BY <1>0, <2>2, LatestIs
  <2>8. \A m : Added(req, m) => Added(req', m)
    BY <2>5 DEF Added
  <2>9. KnownWith(known', cache', req')
    BY <1>0, <2>3, <2>6, <2>7, <2>8 DEF KnownWith
  <2> QED BY <1>0, <2>3, <2>7, <2>9
<1>10. ASSUME NEW a \in Readers, Add(a) PROVE Good
  BY <1>0, <1>10, AddKeeps
<1>11. ASSUME NEW a \in Actors, Stat(a) \/ Open(a) \/ Read(a) PROVE Good
  <2>1. req[a].pc # "add" /\ cache' = cache /\ known' = known
    BY <1>11 DEF Stat, Open, Read
  <2>2. \E y : Step(a, y)
    BY <1>11 DEF Stat, Open, Read, Release
  <2> HIDE DEF Good
  <2> QED BY <1>3, <2>1, <2>2
<1>12. ASSUME NEW v \in Volumes, NEW force \in BOOLEAN, AskSpread(v, force) PROVE Good
  <2>1. cache' = cache /\ known' = known /\ (req' = req \/ Step(Spread, Again))
    BY <1>12 DEF AskSpread, Step
  <2>2. CASE req' = req
    BY <1>1, <2>1, <2>2
  <2>3. CASE Step(Spread, Again)
    <3> HIDE DEF Good
    <3> QED BY <1>0, <1>3, <2>1, <2>3
  <2> QED BY <2>1, <2>2, <2>3
<1>13. ASSUME SpreadSteps PROVE Good
  <2>1. cache' = cache /\ known' = known
    BY <1>13 DEF SpreadSteps, SpreadTake, SpreadEnds, SpreadKnown, SpreadDims, SpreadFinish, SpreadStep
  <2>2. \E y : Step(Spread, y)
    BY <1>13 DEF SpreadSteps, SpreadTake, SpreadEnds, SpreadKnown, SpreadDims, SpreadFinish
  <2> HIDE DEF Good
  <2> QED BY <1>0, <1>3, <2>1, <2>2
<1>14. ASSUME NEW v \in Volumes, Index(v) PROVE Good
  BY <1>1, <1>14 DEF Index
<1>15. ASSUME NEW v \in Volumes, NEW x \in Versions \cup {None}, Replace(v, x) PROVE Good
  <2>1. cache' = cache /\ known' = known
    BY <1>15 DEF Replace
  <2>2. \A b \in Readers : Still(b)
    BY <1>0, <1>15, ReplaceKeeps
  <2> QED BY <1>1, <2>1, <2>2
<1>16. ASSUME Restart PROVE Good
  <2>1. cache' = cache /\ known' = [k \in Kinds |-> None]
    BY <1>16 DEF Restart
  <2> QED BY <1>0, <2>1 DEF KnownWith
<1>17. ASSUME UNCHANGED vars PROVE Good
  BY <1>1, <1>17 DEF vars
<1>18. Good
  <2> HIDE DEF Good
  <2> QED BY <1>4, <1>5, <1>6, <1>7, <1>8, <1>9, <1>10, <1>11, <1>12, <1>13, <1>14, <1>15, <1>16, <1>17
          DEF Next, SpreadSteps
<1> QED BY <1>18 DEF CachesFine
-----------------------------------------------------------------------------
(***************************************************************************)
(* The catalog, step by step.                                              *)
(***************************************************************************)
\* Stored dimensions are of what is indexed, or were measured across a change.
DimsOK == \A v \in Volumes : dims[v] # None => dims[v].raced \/ dims[v].content = pub[v]

ProgressRow == [page : Nat \ {0}, completed : BOOLEAN]

RestTyped ==
    /\ pending \in [Volumes -> {"no", "yes", "force"}]
    /\ analysis \in [Volumes -> Versions \cup {None}]
    /\ progress \in [Volumes -> ProgressRow \cup {None}]
    /\ requests \in 0..MaxRequests /\ changes \in 0..MaxChanges

\* Steps of requests leave files and catalog alone, but for a position.
LEMMA ReaderLeaves ==
    ASSUME RestTyped, NEW a \in Readers,
           \/ \E v \in Volumes : RequestPage(a, v) \/ RequestCopy(a, v) \/ RequestSave(a, v)
           \/ ReadPage(a) \/ CachedFile(a) \/ Lock(a) \/ Check(a)
           \/ StorePage(a) \/ StoreCopy(a) \/ Add(a) \/ Respond(a) \/ ClearProgress(a)
           \/ \E page \in 1..MaxPages, done \in BOOLEAN : SaveProgress(a, page, done)
    PROVE  disk' = disk /\ pub' = pub /\ dims' = dims /\ RestTyped'
<1>0. MaxPages \in Nat /\ MaxRequests \in Nat
  BY ReadingAssumption
<1>1. ASSUME NEW v \in Volumes, RequestPage(a, v) \/ RequestCopy(a, v) \/ RequestSave(a, v)
      PROVE  disk' = disk /\ pub' = pub /\ dims' = dims /\ RestTyped'
  <2>1. requests' \in 0..MaxRequests
    <3>1. requests < MaxRequests /\ requests' = requests + 1
      BY <1>1 DEF RequestPage, RequestCopy, RequestSave, Request
    <3> QED BY <1>0, <3>1 DEF RestTyped
  <2> QED BY <1>1, <2>1 DEF RequestPage, RequestCopy, RequestSave, Request, catalog, RestTyped
<1>2. ASSUME ReadPage(a) \/ CachedFile(a) \/ Lock(a) \/ Check(a) \/ StorePage(a) \/ StoreCopy(a) \/ Add(a) \/ Respond(a)
      PROVE  disk' = disk /\ pub' = pub /\ dims' = dims /\ RestTyped'
  BY <1>2 DEF ReadPage, CachedFile, Lock, Check, StorePage, StoreCopy, Store, Add, Respond, Stays, catalog, RestTyped
<1>3. ASSUME ClearProgress(a) PROVE disk' = disk /\ pub' = pub /\ dims' = dims /\ RestTyped'
  BY <1>3 DEF ClearProgress, Stays, RestTyped
<1>4. ASSUME NEW page \in 1..MaxPages, NEW done \in BOOLEAN, SaveProgress(a, page, done)
      PROVE  disk' = disk /\ pub' = pub /\ dims' = dims /\ RestTyped'
  <2>1. [page |-> page, completed |-> done] \in ProgressRow
    BY <1>0 DEF ProgressRow
  <2>2. progress' \in [Volumes -> ProgressRow \cup {None}]
    BY <1>4, <2>1 DEF SaveProgress, RestTyped
  <2> QED BY <1>4, <2>2 DEF SaveProgress, Stays, RestTyped
<1> QED BY <1>1, <1>2, <1>3, <1>4

LEMMA CatalogStep ==
    ASSUME RequestsOK, CatalogTyped, RestTyped, DimsOK, [Next]_vars
    PROVE  CatalogTyped' /\ RestTyped' /\ DimsOK'
<1> DEFINE Good == CatalogTyped' /\ RestTyped' /\ DimsOK'
<1>0. MaxRequests \in Nat /\ MaxChanges \in Nat /\ Spread \in Actors
  BY ReadingAssumption, ReaderNotSpread
<1>1. ASSUME disk' = disk, pub' = pub, dims' = dims, RestTyped' PROVE Good
  BY <1>1 DEF CatalogTyped, DimsOK
<1>2. ASSUME NEW a \in Readers,
             \/ \E v \in Volumes : RequestPage(a, v) \/ RequestCopy(a, v) \/ RequestSave(a, v)
             \/ ReadPage(a) \/ CachedFile(a) \/ Lock(a) \/ Check(a)
             \/ StorePage(a) \/ StoreCopy(a) \/ Add(a) \/ Respond(a) \/ ClearProgress(a)
             \/ \E page \in 1..MaxPages, done \in BOOLEAN : SaveProgress(a, page, done)
      PROVE  Good
  <2> HIDE DEF Good
  <2> QED BY <1>1, <1>2, ReaderLeaves
<1>3. ASSUME NEW a \in Actors, Stat(a) \/ Open(a) \/ Read(a) PROVE Good
  <2>1. RestTyped'
    BY <1>3 DEF Stat, Open, Read, Stays, catalog, RestTyped
  <2>2. disk' = disk /\ pub' = pub /\ dims' = dims
    BY <1>3 DEF Stat, Open, Read, Stays, catalog
  <2> QED BY <1>1, <2>1, <2>2
<1>4. ASSUME NEW v \in Volumes, NEW force \in BOOLEAN, AskSpread(v, force) PROVE Good
  <2>1. requests' \in 0..MaxRequests
    BY <1>0, <1>4 DEF AskSpread, RestTyped
  <2>2. pending' \in [Volumes -> {"no", "yes", "force"}]
    BY <1>4 DEF AskSpread, Queue, RestTyped
  <2>3. RestTyped'
    BY <1>4, <2>1, <2>2 DEF AskSpread, catalog, RestTyped
  <2>4. disk' = disk /\ pub' = pub /\ dims' = dims
    BY <1>4 DEF AskSpread, catalog
  <2> QED BY <1>1, <2>3, <2>4
<1>5. ASSUME NEW v \in Volumes, SpreadTake(v) PROVE Good
  <2>1. pending' \in [Volumes -> {"no", "yes", "force"}]
    BY <1>5 DEF SpreadTake, RestTyped
  <2>2. RestTyped'
    BY <1>5, <2>1 DEF SpreadTake, SpreadStep, catalog, RestTyped
  <2>3. disk' = disk /\ pub' = pub /\ dims' = dims
    BY <1>5 DEF SpreadTake, SpreadStep, catalog
  <2> QED BY <1>1, <2>2, <2>3
<1>6. ASSUME SpreadEnds \/ SpreadKnown PROVE Good
  <2>1. RestTyped'
    BY <1>6 DEF SpreadEnds, SpreadKnown, SpreadStep, catalog, RestTyped
  <2>2. disk' = disk /\ pub' = pub /\ dims' = dims
    BY <1>6 DEF SpreadEnds, SpreadKnown, SpreadStep, catalog
  <2> QED BY <1>1, <2>1, <2>2
<1>7. ASSUME SpreadDims PROVE Good
  <2> DEFINE r == req[Spread]
             d == [r.got EXCEPT !.raced = r.got.raced \/ pub[r.vol] # r.rev]
  <2>1. r.pc = "dims" /\ disk' = disk /\ pub' = pub /\ analysis' = analysis /\ progress' = progress
        /\ pending' = pending /\ requests' = requests /\ changes' = changes
    BY <1>7 DEF SpreadDims, SpreadStep
  <2>2. RequestOK(Spread, r, disk)
    BY <1>0 DEF RequestsOK
  <2>3. r.vol \in Volumes /\ r.rev \in Versions /\ r.got \in Content /\ (r.got.raced \/ r.got.content = r.rev)
    BY <2>1, <2>2 DEF RequestOK, OpenedOK
  <2>4. dims' = dims \/ dims' = [dims EXCEPT ![r.vol] = d]
    BY <1>7 DEF SpreadDims
  <2>5. RestTyped'
    BY <2>1 DEF RestTyped
  <2>6. CASE dims' = dims
    BY <1>1, <2>1, <2>5, <2>6
  <2>7. CASE dims' = [dims EXCEPT ![r.vol] = d]
    <3>1. d \in Content /\ d.content = r.got.content /\ d.raced = (r.got.raced \/ pub[r.vol] # r.rev)
      BY <2>3 DEF Content
    <3> HIDE DEF d
    <3>2. dims' \in [Volumes -> Content \cup {None}] /\ dims'[r.vol] = d
          /\ \A v \in Volumes \ {r.vol} : dims'[v] = dims[v]
      BY <2>3, <2>7, <3>1 DEF CatalogTyped
    <3>3. d.raced \/ d.content = pub[r.vol]
      BY <2>3, <3>1
    <3>4. DimsOK'
      BY <2>1, <2>3, <3>2, <3>3 DEF DimsOK
    <3>5. CatalogTyped'
      BY <2>1, <3>2 DEF CatalogTyped
    <3> QED BY <2>5, <3>4, <3>5
  <2> QED BY <2>4, <2>6, <2>7
<1>8. ASSUME SpreadFinish PROVE Good
  <2>1. disk' = disk /\ pub' = pub /\ dims' = dims
    BY <1>8 DEF SpreadFinish, SpreadStep
  <2>2. req[Spread].rev \in Versions \cup {None}
    BY <1>0 DEF RequestsOK, Requests
  <2>3. analysis' \in [Volumes -> Versions \cup {None}]
    BY <1>8, <2>2 DEF SpreadFinish, RestTyped
  <2>4. RestTyped'
    BY <1>8, <2>3 DEF SpreadFinish, SpreadStep, RestTyped
  <2> QED BY <1>1, <2>1, <2>4
<1>9. ASSUME NEW v \in Volumes, Index(v) PROVE Good
  <2>1. /\ disk' = disk /\ pub' = [pub EXCEPT ![v] = disk[v]] /\ dims' = [dims EXCEPT ![v] = None]
        /\ analysis' = [analysis EXCEPT ![v] = IF disk[v] = None THEN None ELSE analysis[v]]
        /\ progress' = [progress EXCEPT ![v] = IF disk[v] = None THEN None ELSE progress[v]]
        /\ pending' = pending /\ requests' = requests /\ changes' = changes
    BY <1>9 DEF Index
  <2>2. CatalogTyped'
    BY <2>1 DEF CatalogTyped
  <2>3. RestTyped'
    BY <2>1 DEF RestTyped
  <2>4. DimsOK'
    BY <2>1 DEF DimsOK, CatalogTyped
  <2> QED BY <2>2, <2>3, <2>4
<1>10. ASSUME NEW v \in Volumes, NEW x \in Versions \cup {None}, Replace(v, x) PROVE Good
  <2>1. /\ disk' = [disk EXCEPT ![v] = x] /\ pub' = pub /\ dims' = dims /\ analysis' = analysis
        /\ progress' = progress /\ pending' = pending /\ requests' = requests
        /\ changes < MaxChanges /\ changes' = changes + 1
    BY <1>10 DEF Replace, catalog
  <2>2. changes' \in 0..MaxChanges
    BY <1>0, <2>1 DEF RestTyped
  <2>3. CatalogTyped' /\ RestTyped' /\ DimsOK'
    BY <2>1, <2>2 DEF CatalogTyped, RestTyped, DimsOK
  <2> QED BY <2>3
<1>11. ASSUME Restart PROVE Good
  <2>1. /\ disk' = disk /\ pub' = pub /\ dims' = dims /\ analysis' = analysis
        /\ progress' = progress /\ pending' = [v \in Volumes |-> "no"] /\ requests' = requests
        /\ changes < MaxChanges /\ changes' = changes + 1
    BY <1>11 DEF Restart, catalog
  <2>2. changes' \in 0..MaxChanges
    BY <1>0, <2>1 DEF RestTyped
  <2>3. RestTyped'
    BY <2>1, <2>2 DEF RestTyped
  <2> QED BY <1>1, <2>1, <2>3
<1>12. ASSUME UNCHANGED vars PROVE Good
  BY <1>12 DEF vars, CatalogTyped, RestTyped, DimsOK
<1>13. Good
  <2> HIDE DEF Good
  <2> QED BY <1>2, <1>3, <1>4, <1>5, <1>6, <1>7, <1>8, <1>9, <1>10, <1>11, <1>12 DEF Next
<1> QED BY <1>13
-----------------------------------------------------------------------------
(***************************************************************************)
(* The spread task, step by step.                                          *)
(***************************************************************************)
LEMMA SpreadGoesOn ==
    ASSUME RequestsOK, SpreadAttended, [Next]_vars
    PROVE  SpreadAttended'
<1>0. Readers \subseteq Actors /\ Spread \in Actors /\ Spread \notin Readers
      /\ req[Spread] \in Requests /\ RequestOK(Spread, req[Spread], disk)
  BY ReaderNotSpread DEF RequestsOK
<1>1. ASSUME pending' = pending, req'[Spread] = req[Spread] PROVE SpreadAttended'
  BY <1>1 DEF SpreadAttended
<1>2. ASSUME NEW y, Step(Spread, y), y.pc # "idle" PROVE SpreadAttended'
  BY <1>0, <1>2, StepsAre DEF SpreadAttended
<1>3. Again.pc # "idle"
  BY DEF Again, Idle
<1>4. ASSUME NEW a \in Readers, NEW y, Step(a, y), pending' = pending PROVE SpreadAttended'
  BY <1>0, <1>1, <1>4, StepsAre
<1>5. ASSUME NEW a \in Readers, NEW v \in Volumes, RequestPage(a, v) \/ RequestCopy(a, v) \/ RequestSave(a, v)
      PROVE  SpreadAttended'
  BY <1>4, <1>5 DEF RequestPage, RequestCopy, RequestSave, Request
<1>6. ASSUME NEW a \in Readers,
             \/ ReadPage(a) \/ CachedFile(a) \/ Lock(a) \/ Check(a)
             \/ StorePage(a) \/ StoreCopy(a) \/ Add(a) \/ Respond(a) \/ ClearProgress(a)
             \/ Stat(a) \/ Open(a) \/ Read(a)
      PROVE  SpreadAttended'
  <2>1. \E y : Step(a, y)
    BY <1>6 DEF ReadPage, CachedFile, Lock, Check, StorePage, StoreCopy, Store, Add, Respond, ClearProgress,
                Stat, Open, Read, Release
  <2>2. pending' = pending
    BY <1>6 DEF ReadPage, CachedFile, Lock, Check, StorePage, StoreCopy, Store, Add, Respond, ClearProgress,
                Stat, Open, Read, Stays
  <2> QED BY <1>4, <2>1, <2>2
<1>7. ASSUME NEW a \in Readers, NEW page \in 1..MaxPages, NEW done \in BOOLEAN, SaveProgress(a, page, done)
      PROVE  SpreadAttended'
  BY <1>4, <1>7 DEF SaveProgress, Stays
<1>8. ASSUME Stat(Spread) PROVE SpreadAttended'
  <2> DEFINE y == [req[Spread] EXCEPT !.pc = "open", !.moved = FALSE]
  <2>1. y.pc = "open"
    BY <1>0 DEF Requests
  <2>2. req[Spread].kind = "spread"
    BY <1>0, <1>8 DEF Stat, RequestOK
  <2>3. Step(Spread, y) \/ Step(Spread, Again)
    BY <1>8, <2>2 DEF Stat, Failed
  <2> HIDE DEF y
  <2> QED BY <1>2, <1>3, <2>1, <2>3
<1>9. ASSUME Open(Spread) PROVE SpreadAttended'
  <2> DEFINE r == req[Spread]
             pc == IF r.kind = "page" /\ ~ r.checked THEN "check" ELSE "read"
             got == [content |-> Handle(r).content, raced |-> Handle(r).raced \/ (r.checked /\ r.got.raced)]
             y == [r EXCEPT !.pc = pc, !.got = got]
  <2>1. Step(Spread, y) \/ Step(Spread, Failed(r))
    BY <1>9 DEF Open, got
  <2>2. y.pc # "idle"
    <3>1. pc # "idle"
      OBVIOUS
    <3> HIDE DEF pc, got
    <3> QED BY <1>0, <3>1 DEF Requests
  <2>3. Failed(r) = Again
    BY <1>0, <1>9 DEF Open, Failed, RequestOK
  <2> HIDE DEF y
  <2> QED BY <1>2, <1>3, <2>1, <2>2, <2>3
<1>10. ASSUME Read(Spread) PROVE SpreadAttended'
  <2>1. ASSUME NEW x \in {"dims", "store"}, NEW y, y = [req[Spread] EXCEPT !.pc = x], Step(Spread, y)
        PROVE  SpreadAttended'
    <3>1. y.pc = x
      BY <1>0, <2>1, WentOn
    <3> QED BY <1>2, <2>1, <3>1
  <2>2. Step(Spread, [req[Spread] EXCEPT !.pc = "dims"]) \/ Step(Spread, [req[Spread] EXCEPT !.pc = "store"])
    BY <1>10 DEF Read, Release
  <2> QED BY <2>1, <2>2
<1>11. ASSUME NEW v \in Volumes, NEW force \in BOOLEAN, AskSpread(v, force) PROVE SpreadAttended'
  <2>1. (req' = req /\ req[Spread].pc # "idle") \/ Step(Spread, Again)
    BY <1>11 DEF AskSpread, Step
  <2> QED BY <1>2, <1>3, <2>1 DEF SpreadAttended
<1>12. ASSUME NEW v \in Volumes, SpreadTake(v) PROVE SpreadAttended'
  <2> DEFINE y == [Again EXCEPT !.pc = "known", !.vol = v, !.rev = pub[v], !.force = (pending[v] = "force")]
  <2>1. y.pc = "known"
    BY DEF Again, Idle
  <2>2. Step(Spread, Again) \/ Step(Spread, y)
    BY <1>12 DEF SpreadTake
  <2> HIDE DEF y
  <2> QED BY <1>2, <1>3, <2>1, <2>2
<1>13. ASSUME SpreadEnds PROVE SpreadAttended'
  BY <1>13 DEF SpreadEnds, SpreadAttended
<1>14. ASSUME SpreadKnown PROVE SpreadAttended'
  <2>1. ASSUME NEW x \in {"finish", "stat"}, NEW y, y = [req[Spread] EXCEPT !.pc = x], Step(Spread, y)
        PROVE  SpreadAttended'
    <3>1. y.pc = x
      BY <1>0, <2>1, WentOn
    <3> QED BY <1>2, <2>1, <3>1
  <2>2. Step(Spread, Again) \/ Step(Spread, [req[Spread] EXCEPT !.pc = "finish"])
        \/ Step(Spread, [req[Spread] EXCEPT !.pc = "stat"])
    BY <1>14 DEF SpreadKnown
  <2> QED BY <1>2, <1>3, <2>1, <2>2
<1>15. ASSUME SpreadDims PROVE SpreadAttended'
  <2> DEFINE y == [req[Spread] EXCEPT !.pc = "finish", !.got = None]
  <2>1. y.pc = "finish" /\ Step(Spread, y)
    BY <1>0, <1>15 DEF SpreadDims, Requests
  <2> HIDE DEF y
  <2> QED BY <1>2, <2>1
<1>16. ASSUME SpreadFinish PROVE SpreadAttended'
  BY <1>2, <1>3, <1>16 DEF SpreadFinish
<1>17. ASSUME NEW v \in Volumes, Index(v) PROVE SpreadAttended'
  BY <1>1, <1>17 DEF Index
<1>18. ASSUME NEW v \in Volumes, NEW x \in Versions \cup {None}, Replace(v, x) PROVE SpreadAttended'
  <2>1. pending' = pending /\ req'[Spread] = [req[Spread] EXCEPT !.moved = req[Spread].moved \/ (req[Spread].vol = v /\ req[Spread].pc = "open")]
    BY <1>0, <1>18 DEF Replace, Moved
  <2>2. req'[Spread].pc = req[Spread].pc
    BY <1>0, <2>1 DEF Requests
  <2> QED BY <2>1, <2>2 DEF SpreadAttended
<1>19. ASSUME Restart PROVE SpreadAttended'
  BY <1>19 DEF Restart, SpreadAttended
<1>20. ASSUME UNCHANGED vars PROVE SpreadAttended'
  BY <1>1, <1>20 DEF vars
<1>21. ASSUME NEW a \in Actors, Stat(a) \/ Open(a) \/ Read(a) PROVE SpreadAttended'
  BY <1>6, <1>8, <1>9, <1>10, <1>21 DEF Actors
<1> QED BY <1>5, <1>6, <1>7, <1>11, <1>12, <1>13, <1>14, <1>15, <1>16, <1>17, <1>18, <1>19, <1>20, <1>21 DEF Next
-----------------------------------------------------------------------------
(***************************************************************************)
(* The theorems.                                                           *)
(***************************************************************************)
IInv == RequestsOK /\ CatalogTyped /\ RestTyped /\ PoolFine(pool) /\ PoolSafe /\ CachesFine /\ DimsOK /\ SpreadAttended

LEMMA InitIInv ==
    ASSUME Init
    PROVE  IInv
<1>0. MaxRequests \in Nat /\ MaxChanges \in Nat /\ Capacity \in Nat
  BY ReadingAssumption
<1>1. RequestsOK
  BY IdleOK DEF Init, RequestsOK
<1>2. CatalogTyped
  BY DEF Init, CatalogTyped
<1>3. RestTyped
  BY <1>0 DEF Init, RestTyped
<1>4. PoolFine(pool) /\ PoolSafe
  <2>1. pool = <<>> /\ \A a \in Actors : req[a].pc = "idle"
    BY DEF Init, Idle
  <2> QED BY <1>0, <2>1 DEF PoolFine, PoolSafe
<1>5. CachesFine
  <2>1. cache = <<>> /\ known = [k \in Kinds |-> None]
    BY DEF Init
  <2> QED BY <2>1 DEF CachesFine, CacheFine, KnownWith
<1>6. DimsOK /\ SpreadAttended
  BY DEF Init, DimsOK, SpreadAttended
<1> QED BY <1>1, <1>2, <1>3, <1>4, <1>5, <1>6 DEF IInv

LEMMA IInvTyped ==
    ASSUME IInv
    PROVE  TypeOK
<1>1. pool \in Seq(Entries) /\ \A i, j \in DOMAIN pool : KeyOf(pool[i]) = KeyOf(pool[j]) => i = j
  BY DEF IInv, PoolFine
<1>2. cache \in Seq(Cached) /\ known \in [Kinds -> (SUBSET Names) \cup {None}]
  BY DEF IInv, CachesFine, CacheFine
<1> QED BY <1>1, <1>2 DEF IInv, TypeOK, RequestsOK, CatalogTyped, RestTyped, ProgressRow, Content

\* The conjunction of what the parts need of each other holds at every moment.
THEOREM Invariant == Spec => []IInv
<1>1. Init => IInv
  BY InitIInv
<1>2. IInv /\ [Next]_vars => IInv'
  <2> SUFFICES ASSUME IInv, [Next]_vars PROVE IInv'
    OBVIOUS
  <2>1. RequestsOK'
    BY RequestsStep DEF IInv
  <2>2. PoolFine(pool') /\ PoolSafe'
    BY PoolStep DEF IInv
  <2>3. CachesFine'
    BY CacheStep DEF IInv
  <2>4. CatalogTyped' /\ RestTyped' /\ DimsOK'
    BY CatalogStep DEF IInv
  <2>5. SpreadAttended'
    BY SpreadGoesOn DEF IInv
  <2>6. (PoolFine(pool))'
    BY <2>2 DEF PoolFine
  <2> QED BY <2>1, <2>2, <2>3, <2>4, <2>5, <2>6 DEF IInv
<1> QED BY <1>1, <1>2, PTL DEF Spec

\* Requests, pool, caches and positions keep their types (archives.py, reader.py), and the pool never
\* holds two archives under one path and revision.
THEOREM TypeCorrect == Spec => []TypeOK
<1>1. IInv => TypeOK
  BY IInvTyped
<1> QED BY <1>1, Invariant, PTL

\* No archive is closed under a reader, and the pool is above its capacity only while all in it are
\* read from (ArchivePool.acquire, _evict), for any capacity and number of readers.
THEOREM PoolAlwaysSafe == Spec => []PoolSafe
<1>1. IInv => PoolSafe
  BY DEF IInv
<1> QED BY <1>1, Invariant, PTL

\* What a cache keeps under a revision is of that revision, and stored dimensions are of what is indexed,
\* but for the two races named, however often archives are replaced (PageCacheService, update_page_dimensions).
THEOREM KeptAlwaysTruthful == Spec => []KeptTruthful
<1>1. IInv => KeptTruthful
  BY DEF IInv, CachesFine, CacheFine, Truthful, DimsOK, KeptTruthful
<1> QED BY <1>1, Invariant, PTL

\* A cache the process has looked at exceeds its budget by no more than is being added
\* (DiskCacheBudget.added, _evict), for any number of readers.
THEOREM BudgetAlwaysKept == Spec => []BudgetKept
<1>1. ASSUME IInv PROVE BudgetKept
  <2>1. SUFFICES ASSUME NEW k \in Kinds, known[k] # None
                 PROVE  Cardinality(Files(k)) <= Budget + Cardinality({a \in Readers : req[a].pc = "add" /\ req[a].kind = k})
    BY DEF BudgetKept
  <2> DEFINE adding == {a \in Readers : req[a].pc = "add" /\ req[a].kind = k}
             f == [a \in adding |-> Name(req[a])]
             names == {n \in Names : \E a \in adding : Name(req[a]) = n}
  <2>2. IsFiniteSet(known[k]) /\ Cardinality(known[k]) <= Budget
        /\ \A n \in Names : n.kind = k /\ Named(cache, n) => n \in known[k] \/ Added(req, n)
    BY <1>1, <2>1 DEF IInv, CachesFine, KnownWith
  <2>3. IsFiniteSet(adding)
    BY ReadingAssumption, FS_Subset
  <2>4. ASSUME NEW a \in adding PROVE Name(req[a]) \in Names
    <3>1. a \in Actors /\ a # Spread /\ RequestOK(a, req[a], disk) /\ req[a].pc = "add"
      BY <1>1, ReaderNotSpread DEF IInv, RequestsOK
    <3> QED BY <3>1 DEF RequestOK, ForPages, Name, Names
  <2>5. IsFiniteSet(names) /\ Cardinality(names) <= Cardinality(adding)
    <3>1. f \in [adding -> names] /\ \A n \in names : \E a \in adding : f[a] = n
      BY <2>4
    <3> HIDE DEF f, names, adding
    <3>2. f \in Surjection(adding, names)
      BY <3>1 DEF Surjection
    <3> QED BY <2>3, <3>2, FS_Surjection
  <2>6. ASSUME NEW n \in Files(k) PROVE n \in known[k] \cup names
    <3>1. n \in Names /\ n.kind = k /\ Named(cache, n)
      BY <2>6, NamesAre DEF Files
    <3>2. CASE Added(req, n)
      <4>1. PICK a \in Readers : req[a].pc = "add" /\ Name(req[a]) = n
        BY <3>2 DEF Added
      <4>2. req[a].kind = k
        BY <3>1, <4>1 DEF Name
      <4> QED BY <3>1, <4>1, <4>2
    <3> QED BY <2>2, <3>1, <3>2
  <2> HIDE DEF names, adding
  <2>7. IsFiniteSet(known[k] \cup names)
        /\ Cardinality(known[k] \cup names) = Cardinality(known[k]) + Cardinality(names) - Cardinality(known[k] \cap names)
    BY <2>2, <2>5, FS_Union
  <2>8. Files(k) \in SUBSET (known[k] \cup names)
    BY <2>6
  <2>9. Cardinality(Files(k)) <= Cardinality(known[k] \cup names) /\ IsFiniteSet(Files(k))
    BY <2>7, <2>8, FS_Subset
  <2>10. /\ Cardinality(known[k]) \in Nat /\ Cardinality(names) \in Nat /\ Cardinality(adding) \in Nat
         /\ Cardinality(known[k] \cap names) \in Nat /\ Cardinality(Files(k)) \in Nat /\ Budget \in Nat
    <3>1. IsFiniteSet(known[k] \cap names)
      BY <2>2, FS_Subset
    <3> QED BY <2>2, <2>3, <2>5, <2>9, <3>1, FS_CardinalityType, ReadingAssumption
  <2>11. Cardinality(Files(k)) <= Budget + Cardinality(adding)
    BY <2>2, <2>5, <2>7, <2>9, <2>10
  <2> QED BY <2>11 DEF adding
<1> QED BY <1>1, Invariant, PTL

\* Whatever is queued, a task is there that takes it (start_spread_detection, _run_spread_detection),
\* whichever archive or volume fails it.
THEOREM SpreadAlwaysAttended == Spec => []SpreadAttended
<1>1. IInv => SpreadAttended
  BY DEF IInv
<1> QED BY <1>1, Invariant, PTL
=============================================================================
