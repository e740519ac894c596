------------------------- MODULE VforkBarrierProofs -------------------------
(***************************************************************************)
(* The vfork barriers, for any number of threads, vforks and deaths: no    *)
(* registration finds its parent's barrier gone, and every barrier that    *)
(* holds the scheduler back waits for a report that is owed.               *)
(***************************************************************************)
EXTENDS VforkBarrier, FiniteSetTheorems, TLAPS

USE ZenonT(30)

-----------------------------------------------------------------------------
(* The inductive invariant.                                                *)

\* The functions from a part of A to B.
Map(A, B) == UNION {[D -> B] : D \in SUBSET A}

Behind == Threads \cup {Pending}

Made == Threads \cup {NoThread}

Outcomes == {"continue", "failed"}

BarrierMaps ==
    [of : Map(Threads, Behind), released : SUBSET Threads,
     edges : SUBSET Threads, lost : SUBSET Threads, tombs : SUBSET Threads,
     unmade : SUBSET Threads]

Types ==
    /\ queue \in Seq(Threads)
    /\ selected \in Threads \cup {NoThread}
    /\ registered \subseteq Threads /\ admitting \subseteq Threads
    /\ background \subseteq Threads /\ waiting \subseteq Threads
    /\ freed \subseteq Threads /\ unborn \subseteq Threads
    /\ posted \in Map(Threads, Outcomes)
    /\ clones \in Map(Threads, Made)
    /\ coming \in Map(Threads, Threads) /\ torn \in Map(Threads, Threads)
    /\ barriers \in BarrierMaps

\* A registered thread is in one place at most, and the selected one is in
\* none but the queue.
Places ==
    /\ Range(queue) \cup admitting \cup background \cup waiting \subseteq registered
    /\ Range(queue) \cap admitting = {} /\ Range(queue) \cap background = {}
    /\ Range(queue) \cap waiting = {} /\ admitting \cap background = {}
    /\ admitting \cap waiting = {} /\ background \cap waiting = {}
    /\ selected # NoThread =>
          selected \in registered \ (admitting \cup background \cup waiting)

\* An id is used once, and a parent's id has been used.
Ids ==
    /\ dead \subseteq registered \cap freed
    /\ unborn \cap (registered \cup freed \cup DOMAIN coming \cup DOMAIN torn) = {}
    /\ DOMAIN coming \cap (registered \cup freed) = {}
    /\ barriers.tombs \cap (registered \cup unborn \cup DOMAIN coming) = {}
    /\ (DOMAIN barriers.of \cup Range(torn)) \cap (unborn \cup DOMAIN coming) = {}

\* A thread inside a call is in the background, and has posted its request or
\* is still inside.
Calls ==
    /\ DOMAIN clones \subseteq background /\ DOMAIN posted \subseteq background
    /\ DOMAIN clones \cap DOMAIN posted = {}

\* A child still to register has its parent inside clone(2) behind a pending
\* barrier, or a parent that died and left its record.
Coming ==
    /\ \A c \in DOMAIN coming :
          \/ /\ coming[c] \in DOMAIN clones /\ clones[coming[c]] = c
             /\ coming[c] \in DOMAIN barriers.of /\ barriers.of[coming[c]] = Pending
             /\ coming[c] \notin barriers.unmade
          \/ coming[c] \in barriers.tombs
    /\ \A c, d \in DOMAIN coming : coming[c] = coming[d] => c = d

\* The same for a child whose teardown is still to be reported, except that
\* its parent may have come back from clone(2).
Torn ==
    /\ \A c \in DOMAIN torn :
          /\ c \in freed
          /\ torn[c] \in registered =>
                /\ torn[c] \in DOMAIN barriers.of /\ barriers.of[torn[c]] = Pending
                /\ torn[c] \notin barriers.unmade
                /\ \/ torn[c] \in DOMAIN clones /\ clones[torn[c]] = c
                   \/ torn[c] \in DOMAIN posted /\ posted[torn[c]] = "continue"
    /\ \A c, d \in DOMAIN torn : torn[c] = torn[d] => c = d

\* What the parent of each barrier is waiting for.
PendingIsOwed(p) ==
    /\ p \in registered
    /\ p \in DOMAIN clones =>
          \/ clones[p] = NoThread
          \/ clones[p] \in DOMAIN coming /\ coming[clones[p]] = p
          \/ clones[p] \in freed /\ p \in barriers.unmade \cup Range(torn)
    /\ p \in DOMAIN posted =>
          posted[p] = "failed" \/ p \in barriers.unmade \cup Range(torn)

MadeIsOwed(p) ==
    /\ p \in registered => (p \in DOMAIN clones => clones[p] = barriers.of[p])
    /\ p \notin registered => p \in barriers.lost \ barriers.released
    /\ p \in barriers.released => barriers.of[p] \in freed

Owed ==
    /\ \A p \in DOMAIN barriers.of :
          /\ p \in registered => p \in DOMAIN clones \cup DOMAIN posted
          /\ barriers.of[p] = Pending => PendingIsOwed(p) /\ p \notin barriers.released
          /\ barriers.of[p] # Pending => MadeIsOwed(p)
    /\ barriers.edges \subseteq barriers.released
    /\ barriers.released \subseteq DOMAIN barriers.of

IInv == Types /\ Places /\ Ids /\ Calls /\ Coming /\ Torn /\ Owed

-----------------------------------------------------------------------------
(* Sequences: what the queue operations keep.                              *)

\* A nonempty set of naturals has a least element.
LEMMA LeastNatural ==
    ASSUME NEW S \in SUBSET Nat, S # {}
    PROVE  \E m \in S : \A n \in S : m <= n
<1>1. \E m \in S : \A y \in S : ~(<<y, m>> \in OpToRel(<, Nat))
  BY NatLessThanWellFounded, WFMin
<1>2. PICK m \in S : \A y \in S : ~(<<y, m>> \in OpToRel(<, Nat))
  BY <1>1
<1>3. \A y \in S : ~(y < m)
  BY <1>2 DEF OpToRel
<1> QED BY <1>3, SMT

\* Min of a nonempty set of thread ids is one of them.
LEMMA MinIsMember ==
    ASSUME NEW S \in SUBSET Nat, S # {}
    PROVE  Min(S) \in S
BY LeastNatural DEF Min

\* The first n of s ascend.
Ascends(s, n) == \A i, j \in 1..n : i < j => s[i] < s[j]

\* The least of a finite set in front of an enumeration of the others.
LEMMA PutFirst ==
    ASSUME NEW S \in SUBSET Nat, NEW n \in Nat, NEW m \in S, \A x \in S : m <= x,
           NEW t \in [1..n -> S \ {m}], Ascends(t, n)
    PROVE  \E s \in [1..n + 1 -> S] : Ascends(s, n + 1)
<1> DEFINE s == [i \in 1..n + 1 |-> IF i = 1 THEN m ELSE t[i - 1]]
<1>1. \A i \in 1..n + 1 : i # 1 => i - 1 \in 1..n
  BY SMT
<1>2. s \in [1..n + 1 -> S]
  BY <1>1
<1>3. ASSUME NEW i \in 1..n + 1, NEW j \in 1..n + 1, i < j
      PROVE  s[i] < s[j]
  <2>1. j # 1 /\ s[j] = t[j - 1] /\ t[j - 1] \in S \ {m}
    BY <1>1, <1>3, SMT
  <2>2. CASE i = 1
    <3>1. s[i] = m
      BY <2>2
    <3>2. m \in Nat /\ t[j - 1] \in Nat /\ m <= t[j - 1] /\ m # t[j - 1]
      BY <2>1
    <3> HIDE DEF s
    <3> QED BY <2>1, <3>1, <3>2, SMT
  <2>3. CASE i # 1
    <3>1. s[i] = t[i - 1] /\ i - 1 \in 1..n /\ j - 1 \in 1..n /\ i - 1 < j - 1
      BY <1>1, <1>3, <2>1, <2>3, SMT
    <3> QED BY <2>1, <3>1 DEF Ascends
  <2> QED BY <2>2, <2>3
<1> QED BY <1>2, <1>3 DEF Ascends

\* Every finite set of naturals can be listed in ascending order.
LEMMA EnumerationExists ==
    ASSUME NEW S \in SUBSET Nat, IsFiniteSet(S)
    PROVE  \E s \in [1..Cardinality(S) -> S] : Ascends(s, Cardinality(S))
<1> DEFINE Listed(T) == \E s \in [1..Cardinality(T) -> T] : Ascends(s, Cardinality(T))
           Bad == {n \in Nat : \E T \in SUBSET S : Cardinality(T) = n /\ ~Listed(T)}
<1>1. \A T \in SUBSET S : IsFiniteSet(T) /\ Cardinality(T) \in Nat
  BY FS_Subset, FS_CardinalityType
<1>2. ASSUME Bad # {} PROVE FALSE
  <2>1. PICK n \in Bad : \A k \in Bad : n <= k
    BY <1>2, LeastNatural
  <2>2. PICK T \in SUBSET S : Cardinality(T) = n /\ ~Listed(T)
    BY <2>1
  <2>3. T # {}
    <3>1. ASSUME T = {} PROVE FALSE
      <4>1. Cardinality(T) = 0
        BY <3>1, FS_EmptySet
      <4>2. [i \in 1..0 |-> 0] \in [1..0 -> T] /\ Ascends([i \in 1..0 |-> 0], 0)
        BY SMT DEF Ascends
      <4> QED BY <2>2, <4>1, <4>2
    <3> QED BY <3>1
  <2>4. PICK m \in T : \A x \in T : m <= x
    BY <2>3, LeastNatural
  <2> DEFINE U == T \ {m}
  <2>5. U \in SUBSET S /\ Cardinality(U) = n - 1 /\ n - 1 \in Nat
    <3>1. IsFiniteSet(T) /\ U \in SUBSET S /\ Cardinality(U) \in Nat
      BY <1>1
    <3>2. Cardinality(U) = Cardinality(T) - 1
      BY <2>4, <3>1, FS_RemoveElement
    <3> QED BY <2>2, <3>1, <3>2
  <2> HIDE DEF Listed
  <2>6. Listed(U)
    <3>1. n - 1 \notin Bad
      BY <2>1, <2>5, SMT
    <3> QED BY <2>5, <3>1
  <2> USE DEF Listed
  <2>7. PICK t \in [1..n - 1 -> T \ {m}] : Ascends(t, n - 1)
    BY <2>5, <2>6
  <2>8. T \in SUBSET Nat
    OBVIOUS
  <2>9. \E s \in [1..(n - 1) + 1 -> T] : Ascends(s, (n - 1) + 1)
    BY <2>4, <2>5, <2>7, <2>8, PutFirst
  <2>10. (n - 1) + 1 = n
    BY <2>5, SMT
  <2> QED BY <2>2, <2>9, <2>10
<1> QED BY <1>1, <1>2, S \in SUBSET S

\* Sorted lists the elements of a finite set.
LEMMA SortedLists ==
    ASSUME NEW S \in SUBSET Nat, IsFiniteSet(S)
    PROVE  /\ Sorted(S) \in [1..Cardinality(S) -> S]
           /\ Ascends(Sorted(S), Cardinality(S))
           /\ Cardinality(S) \in Nat
<1> DEFINE n == Cardinality(S)
           Good(s) == \A i, j \in DOMAIN s : i < j => s[i] < s[j]
<1>1. PICK s \in [1..n -> S] : Ascends(s, n)
  BY EnumerationExists
<1>2. Good(s)
  BY <1>1 DEF Ascends
<1>3. Sorted(S) = CHOOSE t \in [1..n -> S] : Good(t)
  BY DEF Sorted
<1> HIDE DEF n
<1>4. Sorted(S) \in [1..n -> S] /\ Good(Sorted(S))
  BY <1>1, <1>2, <1>3
<1>5. DOMAIN Sorted(S) = 1..n
  BY <1>4
<1> QED BY <1>4, <1>5, FS_CardinalityType DEF Ascends, n

\* f filters the first n elements of q.
Filters(f, q, S, n) ==
    f = [k \in 0..n |-> IF k = 0 THEN <<>>
                        ELSE IF q[k] \in S THEN f[k - 1] ELSE Append(f[k - 1], q[k])]

\* The filter of a prefix extends by one element.
LEMMA FilterExtends ==
    ASSUME NEW q, NEW S, NEW n \in Nat \ {0}, NEW g, Filters(g, q, S, n - 1)
    PROVE  \E f : Filters(f, q, S, n)
<1> DEFINE next(h, k) == IF q[k] \in S THEN h[k - 1] ELSE Append(h[k - 1], q[k])
           f == [k \in 0..n |-> IF k < n THEN g[k] ELSE next(g, n)]
           r == [k \in 0..n |-> IF k = 0 THEN <<>> ELSE next(f, k)]
<1>1. \A k \in 0..n - 1 : g[k] = IF k = 0 THEN <<>> ELSE next(g, k)
  BY DEF Filters
<1>2. \A k \in 1..n : k - 1 \in 0..n /\ k - 1 < n /\ f[k - 1] = g[k - 1]
  BY SMT
<1>3. \A k \in 1..n : next(f, k) = next(g, k)
  BY <1>2
<1>4. ASSUME NEW k \in 0..n PROVE f[k] = r[k]
  <2>1. CASE k = 0
    BY <1>1, <2>1, SMT
  <2>2. CASE k # 0
    <3>1. r[k] = next(g, k)
      BY <1>3, <2>2, SMT
    <3>2. f[k] = next(g, k)
      BY <1>1, <2>2, SMT
    <3> QED BY <3>1, <3>2
  <2> QED BY <2>1, <2>2
<1>5. f = r
  BY <1>4
<1> QED BY <1>5 DEF Filters

\* So the recursion of Without defines a function.
LEMMA FilterExists ==
    ASSUME NEW q, NEW S, NEW n \in Nat
    PROVE  \E f : Filters(f, q, S, n)
<1> DEFINE Bad == {k \in Nat : ~\E f : Filters(f, q, S, k)}
<1>1. ASSUME Bad # {} PROVE FALSE
  <2>1. PICK k \in Bad : \A j \in Bad : k <= j
    BY <1>1, LeastNatural
  <2>2. k # 0
    <3>1. Filters([j \in 0..0 |-> <<>>], q, S, 0)
      BY SMT DEF Filters
    <3> QED BY <2>1, <3>1
  <2>3. k - 1 \in Nat /\ k - 1 \notin Bad
    BY <2>1, <2>2, SMT
  <2>4. \E f : Filters(f, q, S, k)
    BY <2>1, <2>2, <2>3, FilterExtends
  <2> QED BY <2>1, <2>4
<1> QED BY <1>1

\* Without is the last value of such a filter.
LEMMA WithoutFilters ==
    ASSUME NEW q, NEW S, Len(q) \in Nat
    PROVE  \E f : Filters(f, q, S, Len(q)) /\ Without(q, S) = f[Len(q)]
<1> DEFINE f == CHOOSE f : Filters(f, q, S, Len(q))
<1>1. Filters(f, q, S, Len(q))
  BY FilterExists
<1>2. Without(q, S) = f[Len(q)]
  BY DEF Without, Filters
<1> QED BY <1>1, <1>2

\* What concatenation, Append and Backwards contain.
LEMMA RangeAppend ==
    ASSUME NEW T, NEW s \in Seq(T), NEW x \in T
    PROVE  Append(s, x) \in Seq(T) /\ Range(Append(s, x)) = Range(s) \cup {x}
<1> DEFINE r == Append(s, x)
<1>1. /\ r \in Seq(T) /\ DOMAIN r = 1..Len(s) + 1 /\ DOMAIN s = 1..Len(s) /\ Len(s) \in Nat
      /\ r[Len(s) + 1] = x /\ \A i \in 1..Len(s) : r[i] = s[i]
  BY SMT
<1> HIDE DEF r
<1>2. \A y : y \in Range(r) <=> \E i \in 1..Len(s) + 1 : y = r[i]
  BY <1>1 DEF Range
<1>3. \A y : y \in Range(s) <=> \E i \in 1..Len(s) : y = s[i]
  BY <1>1 DEF Range
<1>4. \A i : i \in 1..Len(s) + 1 <=> i \in 1..Len(s) \/ i = Len(s) + 1
  BY <1>1, SMT
<1>5. Range(r) = Range(s) \cup {x}
  BY <1>1, <1>2, <1>3, <1>4, SMT
<1> QED BY <1>1, <1>5 DEF r

\* A concatenation contains what its parts do.
LEMMA RangeConcat ==
    ASSUME NEW T, NEW s \in Seq(T), NEW t \in Seq(T)
    PROVE  s \o t \in Seq(T) /\ Range(s \o t) = Range(s) \cup Range(t)
<1> DEFINE r == s \o t
<1>1. /\ r \in Seq(T) /\ Len(s) \in Nat /\ Len(t) \in Nat
      /\ DOMAIN r = 1..Len(s) + Len(t) /\ DOMAIN s = 1..Len(s) /\ DOMAIN t = 1..Len(t)
      /\ \A i \in 1..Len(s) : r[i] = s[i]
      /\ \A i \in 1..Len(t) : r[Len(s) + i] = t[i]
  BY SMT
<1> HIDE DEF r
<1>2. \A y : y \in Range(r) <=> \E i \in 1..Len(s) + Len(t) : y = r[i]
  BY <1>1 DEF Range
<1>3. \A y : y \in Range(s) <=> \E i \in 1..Len(s) : y = s[i]
  BY <1>1 DEF Range
<1>4. \A y : y \in Range(t) <=> \E i \in 1..Len(t) : y = t[i]
  BY <1>1 DEF Range
<1>5. \A i \in 1..Len(s) + Len(t) :
         i \in 1..Len(s) \/ (i - Len(s) \in 1..Len(t) /\ i = Len(s) + (i - Len(s)))
  BY <1>1, SMT
<1>6. /\ \A i \in 1..Len(s) : i \in 1..Len(s) + Len(t)
      /\ \A i \in 1..Len(t) : Len(s) + i \in 1..Len(s) + Len(t)
  BY <1>1, SMT
<1>7. ASSUME NEW y \in Range(r) PROVE y \in Range(s) \cup Range(t)
  <2>1. PICK i \in 1..Len(s) + Len(t) : y = r[i]
    BY <1>2, <1>7
  <2>2. CASE i \in 1..Len(s)
    BY <1>1, <1>3, <2>1, <2>2
  <2>3. CASE i - Len(s) \in 1..Len(t) /\ i = Len(s) + (i - Len(s))
    BY <1>1, <1>4, <2>1, <2>3
  <2> QED BY <1>5, <2>2, <2>3
<1>8. Range(s) \cup Range(t) \subseteq Range(r)
  BY <1>1, <1>2, <1>3, <1>4, <1>6, SMT
<1> QED BY <1>1, <1>7, <1>8 DEF r

\* Backwards changes no thread of the queue.
LEMMA RangeBackwards ==
    ASSUME NEW T, NEW s \in Seq(T)
    PROVE  Backwards(s) \in Seq(T) /\ Range(Backwards(s)) = Range(s)
<1> DEFINE r == Backwards(s)
           n == Len(s)
<1>1. n \in Nat /\ DOMAIN s = 1..n /\ \A i \in 1..n : s[i] \in T
  BY SMT
<1>2. \A i \in 1..n : (n - i) + 1 \in 1..n /\ (n - ((n - i) + 1)) + 1 = i
  BY <1>1, SMT
<1>3. r = [i \in 1..n |-> s[(n - i) + 1]]
  BY DEF Backwards
<1> HIDE DEF r, n
<1>4. r \in [1..n -> T] /\ DOMAIN r = 1..n
  BY <1>1, <1>2, <1>3
<1>5. r \in Seq(T)
  BY <1>1, <1>4, SMT
<1>6. \A y : y \in Range(r) <=> \E i \in 1..n : y = s[(n - i) + 1]
  BY <1>3, <1>4 DEF Range
<1>7. \A y : y \in Range(s) <=> \E i \in 1..n : y = s[i]
  BY <1>1 DEF Range
<1>8. Range(r) = Range(s)
  BY <1>2, <1>6, <1>7
<1> QED BY <1>5, <1>8 DEF r

\* A filter keeps exactly the elements outside S.
LEMMA WithoutKeeps ==
    ASSUME NEW T, NEW q \in Seq(T), NEW S
    PROVE  /\ Without(q, S) \in Seq(T)
           /\ Range(Without(q, S)) = Range(q) \ S
<1>1. Len(q) \in Nat /\ DOMAIN q = 1..Len(q) /\ \A i \in 1..Len(q) : q[i] \in T
  BY SMT
<1>2. PICK f : Filters(f, q, S, Len(q)) /\ Without(q, S) = f[Len(q)]
  BY <1>1, WithoutFilters
<1> DEFINE Kept(k) == {q[i] : i \in 1..k} \ S
           Good(k) == f[k] \in Seq(T) /\ Range(f[k]) = Kept(k)
           Bad == {k \in 0..Len(q) : ~Good(k)}
<1>3. ASSUME Bad # {} PROVE FALSE
  <2>1. PICK k \in Bad : \A j \in Bad : k <= j
    <3>1. Bad \in SUBSET Nat
      BY <1>1, SMT
    <3> QED BY <1>3, <3>1, LeastNatural
  <2>2. f[k] = IF k = 0 THEN <<>> ELSE IF q[k] \in S THEN f[k - 1] ELSE Append(f[k - 1], q[k])
    BY <1>2, <2>1 DEF Filters
  <2>3. k # 0
    <3>1. ASSUME k = 0 PROVE FALSE
      <4>1. f[k] = <<>>
        BY <2>2, <3>1
      <4>2. Kept(k) = {} /\ Range(<<>>) = {} /\ <<>> \in Seq(T)
        BY <3>1, SMT DEF Range
      <4> QED BY <2>1, <4>1, <4>2
    <3> QED BY <3>1
  <2> HIDE DEF Good
  <2>4. k \in 1..Len(q) /\ Good(k - 1)
    BY <1>1, <2>1, <2>3, SMT
  <2> USE DEF Good
  <2>5. Kept(k) = Kept(k - 1) \cup ({q[k]} \ S)
    <3>1. \A i : i \in 1..k <=> i \in 1..k - 1 \/ i = k
      BY <2>4, SMT
    <3> QED BY <3>1
  <2> HIDE DEF Kept
  <2>6. CASE q[k] \in S
    BY <2>1, <2>2, <2>3, <2>4, <2>5, <2>6
  <2>7. CASE q[k] \notin S
    <3>1. f[k] = Append(f[k - 1], q[k]) /\ f[k - 1] \in Seq(T) /\ q[k] \in T
      BY <1>1, <2>2, <2>3, <2>4, <2>7
    <3>2. f[k] \in Seq(T) /\ Range(f[k]) = Range(f[k - 1]) \cup {q[k]}
      BY <3>1, RangeAppend, SMT
    <3> QED BY <2>1, <2>4, <2>5, <2>7, <3>2
  <2> QED BY <2>6, <2>7
<1>4. Good(Len(q))
  <2> HIDE DEF Good
  <2> QED BY <1>1, <1>3, SMT
<1>5. Kept(Len(q)) = Range(q) \ S
  BY <1>1 DEF Range
<1> QED BY <1>2, <1>4, <1>5

\* Sorted lists exactly the elements of a finite set.
LEMMA RangeSorted ==
    ASSUME NEW T \in SUBSET Nat, NEW S \in SUBSET T, IsFiniteSet(S)
    PROVE  Sorted(S) \in Seq(T) /\ Range(Sorted(S)) = S
<1> DEFINE n == Cardinality(S)
           s == Sorted(S)
<1>1. s \in [1..n -> S] /\ Ascends(s, n) /\ n \in Nat
  BY SortedLists
<1> HIDE DEF s, n
<1>2. s \in Seq(T) /\ DOMAIN s = 1..n
  <2>1. s \in [1..n -> T]
    BY <1>1
  <2> QED BY <1>1, <2>1, SMTT(30)
<1>3. \A i, j \in 1..n : i # j => s[i] # s[j]
  <2> SUFFICES ASSUME NEW i \in 1..n, NEW j \in 1..n, i # j PROVE s[i] # s[j]
    OBVIOUS
  <2>1. i < j \/ j < i
    BY SMT
  <2>2. s[i] \in Nat /\ s[j] \in Nat
    BY <1>1
  <2> QED BY <1>1, <2>1, <2>2, SMT DEF Ascends
<1>4. s \in Injection(1..n, S)
  BY <1>1, <1>3 DEF Injection, IsInjective
<1>5. Cardinality(1..n) = Cardinality(S)
  BY <1>1, FS_Interval, SMT DEF n
<1>6. s \in Surjection(1..n, S)
  BY <1>4, <1>5, FS_Injection
<1>7. Range(s) = S
  BY <1>1, <1>2, <1>6 DEF Surjection, Range
<1> QED BY <1>2, <1>7 DEF s

\* A push to the front adds its threads.
LEMMA RangePushedFront ==
    ASSUME NEW T \in SUBSET Nat, NEW S \in SUBSET T, IsFiniteSet(S), NEW q \in Seq(T)
    PROVE  PushedFront(S, q) \in Seq(T) /\ Range(PushedFront(S, q)) = S \cup Range(q)
BY RangeSorted, RangeBackwards, RangeConcat, SMT DEF PushedFront

-----------------------------------------------------------------------------
(* Maps, and the fields of the barrier maps after each operation.          *)

\* What a map is, and what Limited and Bind do to one.
LEMMA MapFacts ==
    ASSUME NEW A0, NEW B0, NEW f \in Map(A0, B0)
    PROVE  DOMAIN f \subseteq A0 /\ \A x \in DOMAIN f : f[x] \in B0
BY DEF Map

\* A function on some of A0 is a map from A0.
LEMMA MapIntro ==
    ASSUME NEW A0, NEW B0, NEW D \in SUBSET A0, NEW f \in [D -> B0]
    PROVE  f \in Map(A0, B0)
BY DEF Map

\* Limited leaves a map.
LEMMA LimitedMap ==
    ASSUME NEW A0, NEW B0, NEW f \in Map(A0, B0), NEW S
    PROVE  Limited(f, S) \in Map(A0, B0)
<1>1. DOMAIN f \ S \in SUBSET A0 /\ \A x \in DOMAIN f : f[x] \in B0
  BY MapFacts
<1>2. Limited(f, S) \in [DOMAIN f \ S -> B0]
  BY <1>1 DEF Limited
<1> QED BY <1>1, <1>2, MapIntro

\* Limited drops S from the domain and keeps the other values.
LEMMA LimitedFacts ==
    ASSUME NEW f, NEW S
    PROVE  /\ DOMAIN Limited(f, S) = DOMAIN f \ S
           /\ \A x \in DOMAIN f \ S : Limited(f, S)[x] = f[x]
BY DEF Limited

\* Bind leaves a map.
LEMMA BindMap ==
    ASSUME NEW A0, NEW B0, NEW f \in Map(A0, B0), NEW x \in A0, NEW y \in B0
    PROVE  Bind(f, x, y) \in Map(A0, B0)
<1>1. DOMAIN f \cup {x} \in SUBSET A0 /\ \A z \in DOMAIN f : f[z] \in B0
  BY MapFacts
<1>2. Bind(f, x, y) \in [DOMAIN f \cup {x} -> B0]
  BY <1>1 DEF Bind
<1> QED BY <1>1, <1>2, MapIntro

\* Bind sets one value and keeps the others.
LEMMA BindFacts ==
    ASSUME NEW f, NEW x, NEW y
    PROVE  /\ DOMAIN Bind(f, x, y) = DOMAIN f \cup {x}
           /\ Bind(f, x, y)[x] = y
           /\ \A z \in DOMAIN f \ {x} : Bind(f, x, y)[z] = f[z]
BY DEF Bind

\* The fields of the barrier maps, one operation at a time.
LEMMA DropFields ==
    ASSUME NEW b \in BarrierMaps, NEW S
    PROVE  LET r == DropVforkBarriers(b, S) IN
           /\ r \in BarrierMaps
           /\ r.of = Limited(b.of, S)
           /\ r.released = b.released \ S /\ r.edges = b.edges \ S
           /\ r.lost = b.lost \ S /\ r.unmade = b.unmade \ S
           /\ r.tombs = b.tombs
<1>1. Limited(b.of, S) \in Map(Threads, Behind)
  BY LimitedMap DEF BarrierMaps
<1> QED BY <1>1 DEF DropVforkBarriers, BarrierMaps

\* begin_vfork_barrier leaves p's barrier pending and the others as they were.
LEMMA BeginFields ==
    ASSUME NEW b \in BarrierMaps, NEW p \in Threads
    PROVE  LET r == BeginVforkBarrier(b, p) IN
           /\ r \in BarrierMaps
           /\ DOMAIN r.of = DOMAIN b.of \cup {p} /\ r.of[p] = Pending
           /\ \A x \in DOMAIN b.of \ {p} : r.of[x] = b.of[x]
           /\ r.released = b.released \ {p} /\ r.edges = b.edges \ {p}
           /\ r.lost = b.lost \ {p} /\ r.unmade = b.unmade \ {p}
           /\ r.tombs = b.tombs \ {p}
<1> DEFINE d == DropVforkBarriers(b, {p})
           l == Limited(b.of, {p})
           o == Bind(l, p, Pending)
           r == BeginVforkBarrier(b, p)
<1>1. /\ d \in BarrierMaps /\ d.of = l
      /\ d.released = b.released \ {p} /\ d.edges = b.edges \ {p}
      /\ d.lost = b.lost \ {p} /\ d.unmade = b.unmade \ {p} /\ d.tombs = b.tombs
  BY DropFields
<1>2. r = [d EXCEPT !.tombs = @ \ {p}, !.of = o]
  BY <1>1 DEF BeginVforkBarrier
<1>3. b.of \in Map(Threads, Behind) /\ Pending \in Behind
  BY DEF BarrierMaps, Behind
<1>4. /\ DOMAIN l = DOMAIN b.of \ {p}
      /\ \A x \in DOMAIN b.of \ {p} : l[x] = b.of[x]
  BY DEF Limited
<1>41. l \in Map(Threads, Behind)
  BY <1>3, LimitedMap
<1> HIDE DEF d, r, l
<1>5. /\ DOMAIN o = DOMAIN l \cup {p}
      /\ o[p] = Pending /\ \A z \in DOMAIN l \ {p} : o[z] = l[z]
  BY DEF Bind
<1>51. o \in Map(Threads, Behind)
  BY <1>3, <1>41, BindMap
<1> HIDE DEF o
<1>6. /\ r \in BarrierMaps /\ r.of = o /\ r.released = d.released /\ r.edges = d.edges
      /\ r.lost = d.lost /\ r.unmade = d.unmade /\ r.tombs = d.tombs \ {p}
  BY <1>1, <1>2, <1>51 DEF BarrierMaps
<1>7. /\ DOMAIN r.of = DOMAIN b.of \cup {p} /\ r.of[p] = Pending
      /\ \A x \in DOMAIN b.of \ {p} : r.of[x] = b.of[x]
  BY <1>4, <1>5, <1>6
<1>8. /\ r \in BarrierMaps
      /\ DOMAIN r.of = DOMAIN b.of \cup {p} /\ r.of[p] = Pending
      /\ \A x \in DOMAIN b.of \ {p} : r.of[x] = b.of[x]
      /\ r.released = b.released \ {p} /\ r.edges = b.edges \ {p}
      /\ r.lost = b.lost \ {p} /\ r.unmade = b.unmade \ {p}
      /\ r.tombs = b.tombs \ {p}
  BY <1>1, <1>6, <1>7
<1> QED BY <1>8 DEF r

\* What complete_vfork_registration leaves of b in r.
Joined(b, p, c, r) ==
    /\ r \in BarrierMaps
    /\ r.released = b.released /\ r.edges = b.edges
    /\ r.lost = b.lost /\ r.unmade = b.unmade
    /\ p \in b.tombs => r.tombs = b.tombs \ {p} /\ r.of = b.of
    /\ p \notin b.tombs =>
          /\ r.tombs = b.tombs /\ DOMAIN r.of = DOMAIN b.of
          /\ p \in DOMAIN b.of => r.of[p] = c
          /\ \A x \in DOMAIN b.of \ {p} : r.of[x] = b.of[x]

\* complete_vfork_registration consumes the dead parent's record, or names
\* the child.
LEMMA RegisterFields ==
    ASSUME NEW b \in BarrierMaps, NEW p \in Threads, NEW c \in Threads
    PROVE  Joined(b, p, c, CompleteVforkRegistration(b, p, c))
<1> DEFINE r == CompleteVforkRegistration(b, p, c)
           o == [b.of EXCEPT ![p] = c]
<1>1. b.of \in Map(Threads, Behind)
  BY DEF BarrierMaps
<1>2. /\ DOMAIN b.of \in SUBSET Threads
      /\ b.of \in [DOMAIN b.of -> Behind]
  BY <1>1 DEF Map
<1>3. o \in [DOMAIN b.of -> Behind]
  BY <1>2 DEF Behind
<1>4. o \in Map(Threads, Behind)
  BY <1>2, <1>3, MapIntro
<1>5. /\ DOMAIN o = DOMAIN b.of /\ (p \in DOMAIN b.of => o[p] = c)
      /\ \A x \in DOMAIN b.of \ {p} : o[x] = b.of[x]
  BY <1>2
<1>6. CASE p \in b.tombs
  BY <1>6 DEF CompleteVforkRegistration, BarrierMaps, Joined
<1>7. CASE p \notin b.tombs
  <2>1. r = [b EXCEPT !.of = o]
    BY <1>7 DEF CompleteVforkRegistration
  <2> HIDE DEF o
  <2>2. /\ r \in BarrierMaps /\ r.released = b.released /\ r.edges = b.edges
        /\ r.lost = b.lost /\ r.unmade = b.unmade /\ r.tombs = b.tombs /\ r.of = o
    BY <1>4, <2>1 DEF BarrierMaps
  <2>3. Joined(b, p, c, r)
    BY <1>5, <1>7, <2>2 DEF Joined
  <2> QED BY <2>3
<1> QED BY <1>6, <1>7

\* record_unregistered_vfork_child_exit marks a pending barrier and nothing
\* else.
LEMMA RecordFields ==
    ASSUME NEW b \in BarrierMaps, NEW p \in Threads
    PROVE  LET r == RecordUnregisteredExit(b, p) IN
           /\ r \in BarrierMaps
           /\ r.of = b.of /\ r.released = b.released /\ r.edges = b.edges
           /\ r.lost = b.lost /\ r.tombs = b.tombs
           /\ r.unmade = IF p \in DOMAIN b.of /\ b.of[p] = Pending
                         THEN b.unmade \cup {p} ELSE b.unmade
BY DEF RecordUnregisteredExit, BarrierMaps

\* What the end of thread u does to the barriers: pending ones of other parents
\* stay, u's own leaves a record or waits for its child as lost, and a parent is
\* released only if u was its child.
Ends(b, r, u) ==
    /\ r \in BarrierMaps
    /\ DOMAIN r.of \subseteq DOMAIN b.of
    /\ \A p \in DOMAIN r.of : r.of[p] = b.of[p]
    /\ \A p \in DOMAIN b.of : b.of[p] = Pending /\ p # u =>
          p \in DOMAIN r.of /\ (p \in r.unmade <=> p \in b.unmade)
    /\ u \in DOMAIN r.of => b.of[u] # Pending /\ u \in r.lost \ r.released
    /\ \A p \in DOMAIN r.of : p # u /\ p \in b.lost =>
          p \in r.lost /\ (p \in r.released => p \in b.released)
    /\ \A p \in DOMAIN r.of : p \in r.released => p \in b.released \/ b.of[p] = u
    /\ \A p : p \in r.tombs <=>
          p \in b.tombs \/ (p = u /\ p \in DOMAIN b.of /\ b.of[p] = Pending)
    /\ r.edges \subseteq r.released /\ r.released \subseteq DOMAIN r.of

\* Only a released barrier rejoins, and only a barrier is released.
EdgesKept(b) == b.edges \subseteq b.released /\ b.released \subseteq DOMAIN b.of

\* What retire_vfork_parent leaves of b in r.
Retired(b, u, r) ==
    /\ r \in BarrierMaps
    /\ \/ u \notin DOMAIN b.of /\ r = b
       \/ /\ u \in DOMAIN b.of /\ b.of[u] # Pending /\ u \notin b.released
          /\ r.lost = b.lost \cup {u} /\ r.of = b.of /\ r.tombs = b.tombs
          /\ r.released = b.released /\ r.edges = b.edges /\ r.unmade = b.unmade
       \/ /\ u \in DOMAIN b.of
          /\ r.of = Limited(b.of, {u}) /\ r.released = b.released \ {u}
          /\ r.edges = b.edges \ {u} /\ r.lost = b.lost \ {u}
          /\ r.unmade = b.unmade \ {u}
          /\ r.tombs = IF b.of[u] = Pending THEN b.tombs \cup {u} ELSE b.tombs

\* retire_vfork_parent: nothing, lost to a known child, or dropped with a
\* record if pending.
LEMMA RetireFields ==
    ASSUME NEW b \in BarrierMaps, NEW u, NEW known
    PROVE  Retired(b, u, RetireVforkParent(b, u, known))
<1> DEFINE r == RetireVforkParent(b, u, known)
           d == DropVforkBarriers(b, {u})
<1>1. /\ d \in BarrierMaps /\ d.of = Limited(b.of, {u}) /\ d.released = b.released \ {u}
      /\ d.edges = b.edges \ {u} /\ d.lost = b.lost \ {u} /\ d.unmade = b.unmade \ {u}
      /\ d.tombs = b.tombs
  BY DropFields
<1>2. DOMAIN b.of \subseteq Threads
  BY MapFacts DEF BarrierMaps
<1>3. CASE u \notin DOMAIN b.of
  BY <1>3 DEF RetireVforkParent, Retired
<1>4. CASE u \in DOMAIN b.of /\ b.of[u] = Pending
  <2>1. r = [d EXCEPT !.tombs = @ \cup {u}]
    BY <1>4 DEF RetireVforkParent
  <2> HIDE DEF d
  <2>2. /\ r \in BarrierMaps /\ r.of = d.of /\ r.released = d.released /\ r.edges = d.edges
        /\ r.lost = d.lost /\ r.unmade = d.unmade /\ r.tombs = d.tombs \cup {u}
    BY <1>1, <1>2, <1>4, <2>1, SMT DEF BarrierMaps
  <2> HIDE DEF r
  <2>3. /\ r.of = Limited(b.of, {u}) /\ r.released = b.released \ {u}
        /\ r.edges = b.edges \ {u} /\ r.lost = b.lost \ {u}
        /\ r.unmade = b.unmade \ {u} /\ r.tombs = b.tombs \cup {u}
    BY <1>1, <2>2
  <2>4. Retired(b, u, r)
    BY <1>4, <2>2, <2>3 DEF Retired
  <2> QED BY <2>4 DEF r
<1>5. CASE u \in DOMAIN b.of /\ b.of[u] # Pending /\ b.of[u] \in known /\ u \notin b.released
  <2>1. r = [b EXCEPT !.lost = @ \cup {u}]
    BY <1>5 DEF RetireVforkParent
  <2>2. /\ r \in BarrierMaps /\ r.of = b.of /\ r.released = b.released /\ r.edges = b.edges
        /\ r.lost = b.lost \cup {u} /\ r.unmade = b.unmade /\ r.tombs = b.tombs
    BY <1>2, <1>5, <2>1, SMT DEF BarrierMaps
  <2>3. Retired(b, u, r)
    BY <1>5, <2>2 DEF Retired
  <2> QED BY <2>3
<1>6. CASE u \in DOMAIN b.of /\ b.of[u] # Pending /\ ~(b.of[u] \in known /\ u \notin b.released)
  <2>1. r = d
    BY <1>6 DEF RetireVforkParent
  <2> HIDE DEF r, d
  <2>2. Retired(b, u, r)
    BY <1>1, <1>6, <2>1 DEF Retired
  <2> QED BY <2>2 DEF r
<1> QED BY <1>3, <1>4, <1>5, <1>6

\* What release_vfork_child leaves of b in r.
Released(b, c, resumes, r) ==
    LET parents == {p \in DOMAIN b.of : b.of[p] = c}
        gone == parents \cap b.lost
        kept == parents \ b.lost
    IN /\ r \in BarrierMaps
       /\ r.of = Limited(b.of, gone) /\ r.lost = b.lost \ gone
       /\ r.unmade = b.unmade \ gone /\ r.tombs = b.tombs
       /\ r.released = (b.released \ gone) \cup kept
       /\ r.edges = IF resumes THEN (b.edges \ gone) \cup kept ELSE b.edges \ gone

\* release_vfork_child drops the child's lost parents and releases the others.
LEMMA ReleaseFields ==
    ASSUME NEW b \in BarrierMaps, NEW c, NEW resumes \in BOOLEAN
    PROVE  Released(b, c, resumes, ReleaseVforkChild(b, c, resumes))
<1> DEFINE r == ReleaseVforkChild(b, c, resumes)
           parents == {p \in DOMAIN b.of : b.of[p] = c}
           gone == parents \cap b.lost
           kept == parents \ b.lost
           d == DropVforkBarriers(b, gone)
<1>1. /\ d \in BarrierMaps /\ d.of = Limited(b.of, gone) /\ d.released = b.released \ gone
      /\ d.edges = b.edges \ gone /\ d.lost = b.lost \ gone /\ d.unmade = b.unmade \ gone
      /\ d.tombs = b.tombs
  BY DropFields
<1>2. kept \subseteq Threads
  BY MapFacts DEF BarrierMaps
<1>3. r = [d EXCEPT !.released = @ \cup kept, !.edges = @ \cup (IF resumes THEN kept ELSE {})]
  BY DEF ReleaseVforkChild
<1> HIDE DEF d, kept, gone, parents
<1>4. /\ r \in BarrierMaps /\ r.of = d.of /\ r.lost = d.lost /\ r.unmade = d.unmade
      /\ r.tombs = d.tombs /\ r.released = d.released \cup kept
      /\ r.edges = IF resumes THEN d.edges \cup kept ELSE d.edges
  BY <1>1, <1>2, <1>3 DEF BarrierMaps
<1> HIDE DEF r
<1>5. /\ r \in BarrierMaps
      /\ r.of = Limited(b.of, gone) /\ r.lost = b.lost \ gone
      /\ r.unmade = b.unmade \ gone /\ r.tombs = b.tombs
      /\ r.released = (b.released \ gone) \cup kept
      /\ r.edges = IF resumes THEN (b.edges \ gone) \cup kept ELSE b.edges \ gone
  BY <1>1, <1>4
<1>6. Released(b, c, resumes, r)
  BY <1>5 DEF Released, gone, kept, parents
<1> QED BY <1>6 DEF r

\* A parent's retirement is an end of it.
LEMMA RetireEnds ==
    ASSUME NEW b \in BarrierMaps, NEW u \in Threads, NEW known, EdgesKept(b)
    PROVE  Ends(b, RetireVforkParent(b, u, known), u)
<1> DEFINE r == RetireVforkParent(b, u, known)
<1>1. Retired(b, u, r)
  BY RetireFields
<1> SUFFICES Ends(b, r, u)
  OBVIOUS
<1> HIDE DEF r
<1>2. CASE u \notin DOMAIN b.of /\ r = b
  BY <1>2 DEF Ends, EdgesKept
<1>3. CASE /\ u \in DOMAIN b.of /\ b.of[u] # Pending /\ u \notin b.released
           /\ r.lost = b.lost \cup {u} /\ r.of = b.of /\ r.tombs = b.tombs
           /\ r.released = b.released /\ r.edges = b.edges /\ r.unmade = b.unmade
  <2>1. r \in BarrierMaps
    BY <1>1 DEF Retired
  <2> QED BY <1>3, <2>1 DEF Ends, EdgesKept
<1>4. CASE /\ u \in DOMAIN b.of
           /\ r.of = Limited(b.of, {u}) /\ r.released = b.released \ {u}
           /\ r.edges = b.edges \ {u} /\ r.lost = b.lost \ {u}
           /\ r.unmade = b.unmade \ {u}
           /\ r.tombs = IF b.of[u] = Pending THEN b.tombs \cup {u} ELSE b.tombs
  <2>1. r \in BarrierMaps
    BY <1>1 DEF Retired
  <2>2. /\ DOMAIN r.of = DOMAIN b.of \ {u}
        /\ \A p \in DOMAIN r.of : r.of[p] = b.of[p]
    BY <1>4 DEF Limited
  <2>3. \A p : p \in r.tombs <=>
           p \in b.tombs \/ (p = u /\ p \in DOMAIN b.of /\ b.of[p] = Pending)
    BY <1>4
  <2> QED BY <1>4, <2>1, <2>2, <2>3 DEF Ends, EdgesKept
<1> QED BY <1>1, <1>2, <1>3, <1>4 DEF Retired

\* The release of its parents after the end of u is still an end of u.
LEMMA ReleaseEnds ==
    ASSUME NEW b \in BarrierMaps, NEW u \in Threads, NEW m, Ends(b, m, u), NEW resumes \in BOOLEAN
    PROVE  Ends(b, ReleaseVforkChild(m, u, resumes), u)
<1> DEFINE r == ReleaseVforkChild(m, u, resumes)
           parents == {p \in DOMAIN m.of : m.of[p] = u}
           gone == parents \cap m.lost
           kept == parents \ m.lost
<1>0. Pending # u
  BY VforkAssumption
<1>1. Released(m, u, resumes, r)
  BY ReleaseFields DEF Ends
<1> HIDE DEF r
<1>2. /\ r \in BarrierMaps
      /\ r.of = Limited(m.of, gone) /\ r.lost = m.lost \ gone
      /\ r.unmade = m.unmade \ gone /\ r.tombs = m.tombs
      /\ r.released = (m.released \ gone) \cup kept
      /\ r.edges \subseteq (m.edges \ gone) \cup kept
  BY <1>1 DEF Released
<1>3. /\ DOMAIN r.of = DOMAIN m.of \ gone
      /\ \A p \in DOMAIN r.of : r.of[p] = m.of[p]
  BY <1>2 DEF Limited
<1>4. /\ DOMAIN r.of \subseteq DOMAIN b.of
      /\ \A p \in DOMAIN r.of : r.of[p] = b.of[p]
  BY <1>3 DEF Ends
<1>5. \A p \in DOMAIN b.of : b.of[p] = Pending /\ p # u =>
          p \in DOMAIN r.of /\ (p \in r.unmade <=> p \in b.unmade)
  BY <1>0, <1>2, <1>3 DEF Ends
<1>6. u \in DOMAIN r.of => b.of[u] # Pending /\ u \in r.lost \ r.released
  BY <1>2, <1>3 DEF Ends
<1>7. \A p \in DOMAIN r.of : p # u /\ p \in b.lost =>
          p \in r.lost /\ (p \in r.released => p \in b.released)
  BY <1>2, <1>3 DEF Ends
<1>8. \A p \in DOMAIN r.of : p \in r.released => p \in b.released \/ b.of[p] = u
  BY <1>2, <1>3 DEF Ends
<1>9. \A p : p \in r.tombs <=>
          p \in b.tombs \/ (p = u /\ p \in DOMAIN b.of /\ b.of[p] = Pending)
  BY <1>2 DEF Ends
<1>10. r.edges \subseteq r.released /\ r.released \subseteq DOMAIN r.of
  BY <1>2, <1>3 DEF Ends
<1>11. Ends(b, r, u)
  BY <1>2, <1>4, <1>5, <1>6, <1>7, <1>8, <1>9, <1>10 DEF Ends
<1> QED BY <1>11 DEF r

\* logically_kill_thread ends u.
LEMMA KillEnds ==
    ASSUME NEW b \in BarrierMaps, NEW u \in Threads, NEW known, EdgesKept(b)
    PROVE  Ends(b, LogicallyKill(b, u, known), u)
BY RetireEnds, ReleaseEnds DEF LogicallyKill

\* The release edge of a thread with no barrier of its own ends it.
LEMMA TurnEnds ==
    ASSUME NEW b \in BarrierMaps, NEW u \in Threads, EdgesKept(b), u \notin DOMAIN b.of
    PROVE  Ends(b, ReleaseVforkChild(b, u, TRUE), u)
<1>1. Ends(b, b, u)
  BY DEF Ends, EdgesKept
<1> QED BY <1>1, ReleaseEnds

\* An exec's removal of the barriers around a sibling it ended is still its
\* end.
LEMMA ExecDropEnds ==
    ASSUME NEW b \in BarrierMaps, NEW u \in Threads, NEW k, Ends(b, k, u)
    PROVE  Ends(b, RemoveExecVforkBarriers(k, {u}), u)
<1> DEFINE G == {p \in DOMAIN k.of : p \in {u} \/ k.of[p] \in {u}}
           r == DropVforkBarriers(k, G)
<1>0. Pending # u
  BY VforkAssumption
<1>1. k \in BarrierMaps
  BY DEF Ends
<1>2. /\ r \in BarrierMaps
      /\ r.of = Limited(k.of, G)
      /\ r.released = k.released \ G /\ r.edges = k.edges \ G
      /\ r.lost = k.lost \ G /\ r.unmade = k.unmade \ G
      /\ r.tombs = k.tombs
  BY <1>1, DropFields
<1>3. r = RemoveExecVforkBarriers(k, {u})
  BY DEF RemoveExecVforkBarriers
<1> HIDE DEF r
<1>4. /\ DOMAIN r.of = DOMAIN k.of \ G
      /\ \A p \in DOMAIN r.of : r.of[p] = k.of[p]
  BY <1>2 DEF Limited
<1>5. Ends(b, r, u)
  BY <1>0, <1>2, <1>4 DEF Ends
<1> QED BY <1>3, <1>5

-----------------------------------------------------------------------------
(* The steps of the turn that is committed.                                *)

\* The end of thread u, whichever step brings it: what every barrier waits for
\* is still owed.
LEMMA EndStep ==
    ASSUME IInv, NEW u \in registered, Ends(barriers, barriers', u),
           coming' = coming, torn' = torn,
           DOMAIN clones' = DOMAIN clones \ {u},
           \A p \in DOMAIN clones' : clones'[p] = clones[p],
           DOMAIN posted' = DOMAIN posted \ {u},
           \A p \in DOMAIN posted' : posted'[p] = posted[p],
           \/ registered' = registered \ {u}
           \/ registered' = registered /\ u \notin DOMAIN barriers.of,
           freed' = freed \cup {u}
    PROVE  Coming' /\ Torn' /\ Owed'
<1>0. u \in Threads /\ Pending \notin Threads
  BY VforkAssumption DEF IInv, Types
<1>1. Coming'
  <2>1. ASSUME NEW c \in DOMAIN coming
        PROVE  \/ /\ coming[c] \in DOMAIN clones' /\ clones'[coming[c]] = c
                  /\ coming[c] \in DOMAIN barriers'.of /\ barriers'.of[coming[c]] = Pending
                  /\ coming[c] \notin barriers'.unmade
               \/ coming[c] \in barriers'.tombs
    BY DEF IInv, Coming, Ends
  <2> QED BY <2>1 DEF IInv, Coming
<1>2. Torn'
  <2>1. ASSUME NEW c \in DOMAIN torn, torn[c] \in registered'
        PROVE  /\ torn[c] \in DOMAIN barriers'.of /\ barriers'.of[torn[c]] = Pending
               /\ torn[c] \notin barriers'.unmade
               /\ \/ torn[c] \in DOMAIN clones' /\ clones'[torn[c]] = c
                  \/ torn[c] \in DOMAIN posted' /\ posted'[torn[c]] = "continue"
    BY <2>1, SMT DEF IInv, Torn, Ends
  <2> QED BY <2>1 DEF IInv, Torn
<1>3. ASSUME NEW p \in DOMAIN barriers'.of
      PROVE  /\ p \in registered' => p \in DOMAIN clones' \cup DOMAIN posted'
             /\ barriers'.of[p] = Pending => PendingIsOwed(p)' /\ p \notin barriers'.released
             /\ barriers'.of[p] # Pending => MadeIsOwed(p)'
  <2>1. p \in DOMAIN barriers.of /\ barriers'.of[p] = barriers.of[p]
    BY DEF Ends
  <2>2. p \in registered' => p \in registered /\ p # u
    BY <2>1
  <2>3. p \in registered' => p \in DOMAIN clones' \cup DOMAIN posted'
    BY <2>1, <2>2 DEF IInv, Owed
  <2>4. ASSUME barriers.of[p] = Pending
        PROVE  PendingIsOwed(p)' /\ p \notin barriers'.released
    <3>1. p # u /\ (p \in barriers'.unmade <=> p \in barriers.unmade)
      BY <2>1, <2>4 DEF Ends
    <3>2. PendingIsOwed(p) /\ p \notin barriers.released
      BY <2>1, <2>4 DEF IInv, Owed
    <3>3. p \notin barriers'.released
      BY <1>0, <2>1, <2>4, <3>2 DEF Ends
    <3>4. PendingIsOwed(p)'
      BY <3>1, <3>2 DEF PendingIsOwed
    <3> QED BY <3>3, <3>4
  <2>5. ASSUME barriers.of[p] # Pending
        PROVE  MadeIsOwed(p)'
    <3>1. MadeIsOwed(p)
      BY <2>1, <2>5 DEF IInv, Owed
    <3>2. p \in registered' => (p \in DOMAIN clones' => clones'[p] = barriers'.of[p])
      BY <2>1, <2>2, <3>1 DEF MadeIsOwed
    <3>3. p \notin registered' => p \in barriers'.lost \ barriers'.released
      BY <3>1 DEF MadeIsOwed, Ends
    <3>4. p \in barriers'.released => barriers'.of[p] \in freed'
      BY <2>1, <3>1 DEF MadeIsOwed, Ends
    <3> QED BY <3>2, <3>3, <3>4 DEF MadeIsOwed
  <2> QED BY <2>1, <2>3, <2>4, <2>5
<1>4. Owed'
  BY <1>3 DEF Owed, Ends
<1> QED BY <1>1, <1>2, <1>4

\* The thread that holds the turn is in no call, has no barrier and is the
\* parent of no child still on its way.
LEMMA TurnHolder ==
    ASSUME IInv, NEW t, Committed(t), t \in Threads
    PROVE  /\ t \in registered
           /\ t \notin admitting \cup background \cup waiting
           /\ t \notin DOMAIN clones \cup DOMAIN posted
           /\ t \notin DOMAIN barriers.of
           /\ \A c \in DOMAIN coming : coming[c] # t
           /\ \A c \in DOMAIN torn : torn[c] # t
           /\ t \notin unborn \cup DOMAIN coming \cup barriers.tombs
           /\ selected' = NoThread
<1>1. t # NoThread
  BY VforkAssumption
<1>2. /\ t \in registered /\ t \notin admitting \cup background \cup waiting
      /\ selected' = NoThread
  BY <1>1 DEF IInv, Places, Committed
<1>3. t \notin DOMAIN clones \cup DOMAIN posted
  BY <1>2 DEF IInv, Calls
<1>4. t \notin DOMAIN barriers.of
  BY <1>2, <1>3 DEF IInv, Owed
<1>5. t \notin unborn \cup DOMAIN coming \cup barriers.tombs
  BY <1>2 DEF IInv, Ids
<1>6. \A c \in DOMAIN coming : coming[c] # t
  BY <1>3, <1>5 DEF IInv, Coming
<1>7. \A c \in DOMAIN torn : torn[c] # t
  BY <1>2, <1>4 DEF IInv, Torn
<1> QED BY <1>2, <1>3, <1>4, <1>5, <1>6, <1>7

\* The queue when the holder of the turn leaves it.
LEMMA WithoutTurn ==
    ASSUME IInv, NEW t \in Threads
    PROVE  /\ Without(queue, {t}) \in Seq(Threads)
           /\ Range(Without(queue, {t})) = Range(queue) \ {t}
BY WithoutKeeps DEF IInv, Types

\* The queue when the holder of the turn goes to its back.
LEMMA RequeuedTurn ==
    ASSUME IInv, NEW t \in Threads
    PROVE  /\ Requeued(t) \in Seq(Threads)
           /\ Range(Requeued(t)) = (Range(queue) \ {t}) \cup {t}
BY WithoutTurn, RangeAppend, SMT DEF Requeued

\* Nothing is owed or paid when the calls, the barriers and the children on
\* their way stay as they are.
LEMMA NothingOwed ==
    ASSUME IInv, UNCHANGED <<registered, posted, barriers, clones, coming, torn, freed>>
    PROVE  Coming' /\ Torn' /\ Owed'
<1>1. Coming'
  BY DEF IInv, Coming
<1>2. Torn'
  BY DEF IInv, Torn
<1>3. \A p : PendingIsOwed(p)' = PendingIsOwed(p)
  BY DEF PendingIsOwed
<1>4. \A p : MadeIsOwed(p)' = MadeIsOwed(p)
  BY DEF MadeIsOwed
<1>5. Owed'
  BY <1>3, <1>4 DEF IInv, Owed
<1> QED BY <1>1, <1>2, <1>5

\* An ordinary turn keeps the invariant.
LEMMA StepKeeps ==
    ASSUME IInv, NEW t \in Threads, Step(t)
    PROVE  IInv'
<1> USE DEF Step, kernel
<1>1. Coming' /\ Torn' /\ Owed'
  BY NothingOwed
<1>2. Types'
  BY RequeuedTurn DEF IInv, Types, Committed
<1>3. Calls'
  BY DEF IInv, Calls
<1>4. Places'
  BY RequeuedTurn, TurnHolder, SMT DEF IInv, Places
<1>5. Ids'
  BY TurnHolder DEF IInv, Ids
<1> QED BY <1>1, <1>2, <1>3, <1>4, <1>5 DEF IInv

\* The grant of a background call keeps the invariant.
LEMMA BeginCallKeeps ==
    ASSUME IInv, NEW t \in Threads, BeginCall(t)
    PROVE  IInv'
<1> USE DEF BeginCall, kernel
<1>1. Coming' /\ Torn' /\ Owed'
  BY NothingOwed
<1>2. Types'
  BY WithoutTurn DEF IInv, Types, Committed
<1>3. Calls'
  BY DEF IInv, Calls
<1>4. Places'
  BY WithoutTurn, TurnHolder, SMT DEF IInv, Places
<1>5. Ids'
  BY TurnHolder DEF IInv, Ids
<1> QED BY <1>1, <1>2, <1>3, <1>4, <1>5 DEF IInv

\* A turn that parks its thread keeps the invariant.
LEMMA WaitKeeps ==
    ASSUME IInv, NEW t \in Threads, Wait(t)
    PROVE  IInv'
<1> USE DEF Wait, kernel
<1>1. Coming' /\ Torn' /\ Owed'
  BY NothingOwed
<1>2. Types'
  BY WithoutTurn DEF IInv, Types, Committed
<1>3. Calls'
  BY DEF IInv, Calls
<1>4. Places'
  BY WithoutTurn, TurnHolder, SMT DEF IInv, Places
<1>5. Ids'
  BY TurnHolder DEF IInv, Ids
<1> QED BY <1>1, <1>2, <1>3, <1>4, <1>5 DEF IInv

\* A turn that wakes a parked thread keeps the invariant.
LEMMA WakeKeeps ==
    ASSUME IInv, NEW t \in Threads, NEW u \in Threads, Wake(t, u)
    PROVE  IInv'
<1> USE DEF Wake, kernel
<1>1. Coming' /\ Torn' /\ Owed'
  BY NothingOwed
<1>2. queue' \in Seq(Threads) /\ Range(queue') = (Range(queue) \ {t}) \cup {t} \cup {u}
  BY RequeuedTurn, RangeAppend, SMT
<1>3. Types'
  BY <1>2 DEF IInv, Types, Committed
<1>4. Calls'
  BY DEF IInv, Calls
<1>5. Places'
  BY <1>2, TurnHolder, SMT DEF IInv, Places
<1>6. Ids'
  BY <1>2, TurnHolder DEF IInv, Ids
<1> QED BY <1>1, <1>3, <1>4, <1>5, <1>6 DEF IInv

\* The release edge of the turn's own thread leaves every wait owed.
LEMMA TurnReleases ==
    ASSUME IInv, NEW t \in Threads, Committed(t),
           barriers' = ReleaseVforkChild(barriers, t, TRUE),
           freed' = freed \cup {t},
           UNCHANGED <<registered, posted, clones, coming, torn>>
    PROVE  /\ Coming' /\ Torn' /\ Owed'
           /\ barriers' \in BarrierMaps /\ barriers'.tombs = barriers.tombs
           /\ DOMAIN barriers'.of \subseteq DOMAIN barriers.of
<1>1. /\ t \in registered /\ t \notin DOMAIN barriers.of
      /\ t \notin DOMAIN clones \cup DOMAIN posted
  BY TurnHolder
<1>2. barriers \in BarrierMaps /\ EdgesKept(barriers)
  BY DEF IInv, Types, Owed, EdgesKept
<1>3. Ends(barriers, barriers', t)
  BY <1>1, <1>2, TurnEnds
<1>4. Coming' /\ Torn' /\ Owed'
  BY <1>1, <1>3, EndStep
<1>5. barriers'.tombs = barriers.tombs
  BY <1>1, <1>3 DEF Ends
<1> QED BY <1>3, <1>4, <1>5 DEF Ends

\* It uses no new id.
LEMMA TurnEndsIds ==
    ASSUME IInv, NEW t, t \in registered,
           freed' = freed \cup {t}, dead' \subseteq dead \cup {t},
           UNCHANGED <<registered, coming, torn, unborn>>,
           barriers'.tombs = barriers.tombs, DOMAIN barriers'.of \subseteq DOMAIN barriers.of
    PROVE  Ids'
<1>1. t \notin unborn \cup DOMAIN coming
  BY DEF IInv, Ids
<1>2. dead' \subseteq registered' \cap freed'
  BY DEF IInv, Ids
<1>3. unborn' \cap (registered' \cup freed' \cup DOMAIN coming' \cup DOMAIN torn') = {}
  BY <1>1, SMT DEF IInv, Ids
<1>4. DOMAIN coming' \cap (registered' \cup freed') = {}
  BY <1>1 DEF IInv, Ids
<1>5. barriers'.tombs \cap (registered' \cup unborn' \cup DOMAIN coming') = {}
  BY DEF IInv, Ids
<1>6. (DOMAIN barriers'.of \cup Range(torn')) \cap (unborn' \cup DOMAIN coming') = {}
  BY DEF IInv, Ids
<1> QED BY <1>2, <1>3, <1>4, <1>5, <1>6 DEF Ids

\* A successful exec keeps the invariant.
LEMMA ExecKeeps ==
    ASSUME IInv, NEW t \in Threads, Exec(t)
    PROVE  IInv'
<1> USE DEF Exec
<1>1. /\ Coming' /\ Torn' /\ Owed'
      /\ barriers' \in BarrierMaps /\ barriers'.tombs = barriers.tombs
      /\ DOMAIN barriers'.of \subseteq DOMAIN barriers.of
  BY TurnReleases
<1>2. Types'
  BY <1>1, RequeuedTurn DEF IInv, Types, Committed
<1>3. Calls'
  BY DEF IInv, Calls
<1>4. Places'
  BY <1>1, RequeuedTurn, TurnHolder, SMT DEF IInv, Places
<1>5. Ids'
  BY <1>1, TurnHolder, TurnEndsIds
<1> QED BY <1>1, <1>2, <1>3, <1>4, <1>5 DEF IInv

\* An exit grant keeps the invariant.
LEMMA ExitKeeps ==
    ASSUME IInv, NEW t \in Threads, Exit(t)
    PROVE  IInv'
<1> USE DEF Exit
<1>1. /\ Coming' /\ Torn' /\ Owed'
      /\ barriers' \in BarrierMaps /\ barriers'.tombs = barriers.tombs
      /\ DOMAIN barriers'.of \subseteq DOMAIN barriers.of
  BY TurnReleases
<1>2. Types'
  BY <1>1, WithoutTurn DEF IInv, Types, Committed
<1>3. Calls'
  BY DEF IInv, Calls
<1>4. Places'
  BY <1>1, WithoutTurn, TurnHolder, SMT DEF IInv, Places
<1>5. Ids'
  BY <1>1, TurnHolder, TurnEndsIds
<1> QED BY <1>1, <1>2, <1>3, <1>4, <1>5 DEF IInv

\* A thread that ends and leaves every map keeps the invariant.
LEMMA ForgottenKeeps ==
    ASSUME IInv, NEW u \in registered, NEW q \in Seq(Threads),
           Range(q) \subseteq registered \ (admitting \cup background \cup waiting),
           Forgotten(u, q), Ends(barriers, barriers', u),
           selected' \in {NoThread, selected} \ {u},
           freed' = freed \cup {u}, dead' = dead \ {u}
    PROVE  IInv'
<1> USE DEF Forgotten
<1>1. /\ DOMAIN clones' = DOMAIN clones \ {u}
      /\ \A p \in DOMAIN clones' : clones'[p] = clones[p]
      /\ DOMAIN posted' = DOMAIN posted \ {u}
      /\ \A p \in DOMAIN posted' : posted'[p] = posted[p]
  BY LimitedFacts
<1>2. Coming' /\ Torn' /\ Owed'
  BY <1>1, EndStep
<1>3. queue' \in Seq(Threads) /\ Range(queue') = Range(q) \ {u}
  BY WithoutKeeps
<1>4. u \in Threads /\ u # NoThread
  BY VforkAssumption DEF IInv, Types
<1>5. clones' \in Map(Threads, Made) /\ posted' \in Map(Threads, Outcomes)
  BY LimitedMap DEF IInv, Types
<1>6. Types'
  BY <1>3, <1>4, <1>5 DEF IInv, Types, Ends
<1>7. Calls'
  BY <1>1 DEF IInv, Calls
<1>8. barriers'.tombs \cap (registered' \cup unborn' \cup DOMAIN coming') = {}
  BY DEF IInv, Ids, Ends
<1>9. DOMAIN barriers'.of \subseteq DOMAIN barriers.of
  BY DEF Ends
<1>10. Places'
  BY <1>3, <1>4, <1>8, <1>9 DEF IInv, Places
<1>11. Ids'
  BY <1>3, <1>4, <1>8, <1>9, SMT DEF IInv, Ids
<1> QED BY <1>2, <1>6, <1>7, <1>10, <1>11 DEF IInv

\* The requeued turn is in no other place.
LEMMA RequeuedPlaces ==
    ASSUME IInv, NEW t \in Threads, Committed(t)
    PROVE  /\ Requeued(t) \in Seq(Threads)
           /\ Range(Requeued(t)) \subseteq registered \ (admitting \cup background \cup waiting)
BY RequeuedTurn, TurnHolder, SMT DEF IInv, Places

\* The death of a sibling in a turn keeps the invariant.
LEMMA KillKeeps ==
    ASSUME IInv, NEW t \in Threads, NEW u \in Threads, Kill(t, u)
    PROVE  IInv'
<1>1. barriers \in BarrierMaps /\ EdgesKept(barriers)
  BY DEF IInv, Types, Owed, EdgesKept
<1>2. Ends(barriers, barriers', u)
  BY <1>1, KillEnds DEF Kill
<1>3. /\ u \in registered /\ Committed(t) /\ Forgotten(u, Requeued(t))
      /\ selected' = NoThread /\ u # NoThread
      /\ freed' = freed \cup {u} /\ dead' = dead \ {u}
  BY VforkAssumption DEF Kill, Committed
<1> QED BY <1>2, <1>3, RequeuedPlaces, ForgottenKeeps

\* An exec that ends a sibling keeps the invariant.
LEMMA ExecEndsKeeps ==
    ASSUME IInv, NEW t \in Threads, NEW u \in Threads, ExecEnds(t, u)
    PROVE  IInv'
<1>1. barriers \in BarrierMaps /\ EdgesKept(barriers)
  BY DEF IInv, Types, Owed, EdgesKept
<1>2. Ends(barriers, barriers', u)
  BY <1>1, KillEnds, ExecDropEnds DEF ExecEnds
<1>3. /\ u \in registered /\ Committed(t) /\ Forgotten(u, Requeued(t))
      /\ selected' = NoThread /\ u # NoThread
      /\ freed' = freed \cup {u} /\ dead' = dead \ {u}
  BY VforkAssumption DEF ExecEnds, Committed
<1> QED BY <1>2, <1>3, RequeuedPlaces, ForgottenKeeps

\* A deregistration keeps the invariant.
LEMMA DeregisterKeeps ==
    ASSUME IInv, NEW u \in Threads, Deregister(u)
    PROVE  IInv'
<1>1. barriers \in BarrierMaps /\ EdgesKept(barriers)
  BY DEF IInv, Types, Owed, EdgesKept
<1>2. Ends(barriers, barriers', u)
  BY <1>1, KillEnds DEF Deregister
<1>3. /\ u \in registered /\ u \in freed /\ Forgotten(u, queue)
      /\ selected' \in {NoThread, selected} \ {u}
      /\ freed' = freed \cup {u} /\ dead' = dead \ {u}
  BY VforkAssumption DEF Deregister, IInv, Ids
<1>4. /\ queue \in Seq(Threads)
      /\ Range(queue) \subseteq registered \ (admitting \cup background \cup waiting)
  BY DEF IInv, Types, Places
<1> QED BY <1>2, <1>3, <1>4, ForgottenKeeps

\* A death from outside the run keeps the invariant.
LEMMA DieKeeps ==
    ASSUME IInv, NEW u \in Threads, Die(u)
    PROVE  IInv'
<1> USE DEF Die
<1>1. Types'
  BY DEF IInv, Types
<1>2. Places'
  BY DEF IInv, Places
<1>3. Calls'
  BY DEF IInv, Calls
<1>4. Coming'
  BY DEF IInv, Coming
<1>5. Torn'
  BY DEF IInv, Torn
<1>7. Ids'
  BY SMT DEF IInv, Ids
<1>6. Owed'
  <2>1. \A p : PendingIsOwed(p) => PendingIsOwed(p)'
    BY DEF PendingIsOwed
  <2>2. \A p : MadeIsOwed(p) => MadeIsOwed(p)'
    BY DEF MadeIsOwed
  <2> QED BY <2>1, <2>2 DEF IInv, Owed
<1> QED BY <1>1, <1>2, <1>3, <1>4, <1>5, <1>6, <1>7 DEF IInv

-----------------------------------------------------------------------------
(* What arrives in the host's time, and the grant of a vfork.              *)

\* The end of another background call keeps the invariant.
LEMMA CallDoneKeeps ==
    ASSUME IInv, NEW t \in Threads, CallDone(t)
    PROVE  IInv'
<1>1. /\ t \in background /\ t \notin DOMAIN clones \cup DOMAIN posted
      /\ UNCHANGED <<queue, admitting, selected, registered, background, waiting, barriers,
                     clones, coming, torn, freed, dead, unborn>>
  BY DEF CallDone, kernel
<1>2. /\ DOMAIN posted' = DOMAIN posted \cup {t}
      /\ posted'[t] = "continue" /\ \A p \in DOMAIN posted \ {t} : posted'[p] = posted[p]
  BY DEF CallDone, Bind
<1>3. posted' \in Map(Threads, Outcomes)
  BY BindMap DEF CallDone, IInv, Types, Outcomes
<1>4. t \notin DOMAIN barriers.of
  BY <1>1 DEF IInv, Places, Owed
<1>5. Types'
  BY <1>1, <1>3 DEF IInv, Types
<1>6. Places'
  BY <1>1 DEF IInv, Places
<1>7. Ids'
  BY <1>1 DEF IInv, Ids
<1>8. Calls'
  BY <1>1, <1>2 DEF IInv, Calls
<1>9. Coming'
  BY <1>1 DEF IInv, Coming
<1>10. Torn'
  BY <1>1, <1>2 DEF IInv, Torn
<1>11. Owed'
  <2>1. \A p \in DOMAIN barriers.of : PendingIsOwed(p) => PendingIsOwed(p)'
    BY <1>1, <1>2, <1>4 DEF PendingIsOwed
  <2>2. \A p : MadeIsOwed(p) => MadeIsOwed(p)'
    BY <1>1 DEF MadeIsOwed
  <2> QED BY <1>1, <1>2, <2>1, <2>2 DEF IInv, Owed
<1> QED BY <1>5, <1>6, <1>7, <1>8, <1>9, <1>10, <1>11 DEF IInv

\* The parent's return from clone(2) keeps the invariant.
LEMMA ContinueKeeps ==
    ASSUME IInv, NEW p \in Threads, Continue(p)
    PROVE  IInv'
<1>1. /\ p \in DOMAIN clones
      /\ clones[p] = NoThread \/ clones[p] \in freed
      /\ UNCHANGED <<queue, admitting, selected, registered, background, waiting, barriers,
                     coming, torn, freed, dead, unborn>>
  BY DEF Continue
<1>2. /\ DOMAIN posted' = DOMAIN posted \cup {p}
      /\ posted'[p] = IF clones[p] = NoThread THEN "failed" ELSE "continue"
      /\ \A x \in DOMAIN posted \ {p} : posted'[x] = posted[x]
  BY DEF Continue, Bind
<1>3. posted' \in Map(Threads, Outcomes)
  <2>1. (IF clones[p] = NoThread THEN "failed" ELSE "continue") \in Outcomes
    BY DEF Outcomes
  <2> QED BY <2>1, BindMap DEF Continue, IInv, Types
<1>4. /\ DOMAIN clones' = DOMAIN clones \ {p}
      /\ \A x \in DOMAIN clones' : clones'[x] = clones[x]
  BY DEF Continue, Limited
<1>5. clones' \in Map(Threads, Made)
  BY LimitedMap DEF Continue, IInv, Types
<1>6. \A c \in DOMAIN coming \cup DOMAIN torn : c # NoThread
  BY VforkAssumption, MapFacts DEF IInv, Types
<1>7. clones[p] \notin DOMAIN coming
  BY <1>1, <1>6 DEF IInv, Ids
<1>8. Types'
  BY <1>1, <1>3, <1>5 DEF IInv, Types
<1>9. Places'
  BY <1>1 DEF IInv, Places
<1>10. Ids'
  BY <1>1 DEF IInv, Ids
<1>11. Calls'
  BY <1>1, <1>2, <1>4 DEF IInv, Calls
<1>12. Coming'
  BY <1>1, <1>4, <1>7 DEF IInv, Coming
<1>13. Torn'
  <2>1. ASSUME NEW c \in DOMAIN torn, torn[c] \in registered
        PROVE  \/ torn[c] \in DOMAIN clones' /\ clones'[torn[c]] = c
               \/ torn[c] \in DOMAIN posted' /\ posted'[torn[c]] = "continue"
    BY <1>1, <1>2, <1>4, <1>6, <2>1, SMT DEF IInv, Torn, Calls
  <2> QED BY <1>1, <2>1 DEF IInv, Torn
<1>14. Owed'
  <2>1. \A x \in DOMAIN barriers.of : PendingIsOwed(x) => PendingIsOwed(x)'
    BY <1>1, <1>2, <1>4, <1>7 DEF PendingIsOwed
  <2>2. \A x \in DOMAIN barriers.of : MadeIsOwed(x) => MadeIsOwed(x)'
    BY <1>1, <1>4 DEF MadeIsOwed
  <2> QED BY <1>1, <1>2, <1>4, <2>1, <2>2 DEF IInv, Owed
<1> QED BY <1>8, <1>9, <1>10, <1>11, <1>12, <1>13, <1>14 DEF IInv

\* The report of a child torn down before it registered keeps the invariant.
LEMMA TearDownKeeps ==
    ASSUME IInv, NEW c \in Threads, TearDown(c)
    PROVE  IInv'
<1> DEFINE p == torn[c]
<1>1. /\ c \in DOMAIN torn
      /\ UNCHANGED <<queue, admitting, selected, registered, background, waiting, posted,
                     clones, coming, freed, dead, unborn>>
  BY DEF TearDown
<1>2. p \in Threads /\ \A x \in DOMAIN torn : x # NoThread
  BY <1>1, MapFacts, VforkAssumption DEF IInv, Types
<1>3. /\ DOMAIN torn' = DOMAIN torn \ {c}
      /\ \A x \in DOMAIN torn' : torn'[x] = torn[x]
  BY DEF TearDown, Limited
<1>4. torn' \in Map(Threads, Threads)
  BY LimitedMap DEF TearDown, IInv, Types
<1>5. /\ barriers' \in BarrierMaps
      /\ barriers'.of = barriers.of /\ barriers'.released = barriers.released
      /\ barriers'.edges = barriers.edges
      /\ barriers'.lost = barriers.lost /\ barriers'.tombs = barriers.tombs
      /\ barriers'.unmade = IF p \in DOMAIN barriers.of /\ barriers.of[p] = Pending
                            THEN barriers.unmade \cup {p} ELSE barriers.unmade
  BY <1>2, RecordFields DEF TearDown, IInv, Types
<1>6. \A d \in DOMAIN coming : coming[d] = p => p \in barriers.tombs
  BY <1>1, SMT DEF IInv, Coming, Torn, Ids, Calls, Places
<1>7. \A x \in DOMAIN torn' : torn'[x] # p
  BY <1>1, <1>3 DEF IInv, Torn
<1>8. \A x : x # p =>
         /\ x \in Range(torn') <=> x \in Range(torn)
         /\ (x \in barriers'.unmade <=> x \in barriers.unmade)
  BY <1>3, <1>5, SMT DEF Range
<1>9. Range(torn') \subseteq Range(torn)
  BY <1>3 DEF Range
<1> HIDE DEF p
<1>10. Types'
  BY <1>1, <1>4, <1>5 DEF IInv, Types
<1>11. Places'
  BY <1>1 DEF IInv, Places
<1>12. Ids'
  BY <1>1, <1>3, <1>5, <1>9 DEF IInv, Ids
<1>13. Calls'
  BY <1>1 DEF IInv, Calls
<1>14. Coming'
  BY <1>1, <1>5, <1>6, <1>8 DEF IInv, Coming
<1>15. Torn'
  BY <1>1, <1>3, <1>5, <1>7, <1>8, SMT DEF IInv, Torn
<1>16. Owed'
  <2>1. \A x \in DOMAIN barriers.of :
           barriers.of[x] = Pending /\ PendingIsOwed(x) => PendingIsOwed(x)'
    BY <1>1, <1>5, <1>8 DEF PendingIsOwed
  <2>2. \A x \in DOMAIN barriers.of : MadeIsOwed(x) => MadeIsOwed(x)'
    BY <1>1, <1>5 DEF MadeIsOwed
  <2> QED BY <1>1, <1>5, <2>1, <2>2 DEF IInv, Owed
<1> QED BY <1>10, <1>11, <1>12, <1>13, <1>14, <1>15, <1>16 DEF IInv

\* The child's registration keeps the invariant.
LEMMA RegisterKeeps ==
    ASSUME IInv, NEW c \in Threads, Register(c)
    PROVE  IInv'
<1> DEFINE p == coming[c]
<1>1. /\ c \in DOMAIN coming
      /\ registered' = registered \cup {c} /\ admitting' = admitting \cup {c}
      /\ UNCHANGED <<queue, selected, background, waiting, posted, clones, torn, freed, dead,
                     unborn>>
  BY DEF Register
<1>2. p \in Threads
  BY <1>1, MapFacts DEF IInv, Types
<1>3. /\ DOMAIN coming' = DOMAIN coming \ {c}
      /\ \A x \in DOMAIN coming' : coming'[x] = coming[x]
  BY DEF Register, Limited
<1>4. coming' \in Map(Threads, Threads)
  BY LimitedMap DEF Register, IInv, Types
<1>5. /\ barriers' \in BarrierMaps
      /\ barriers'.released = barriers.released /\ barriers'.edges = barriers.edges
      /\ barriers'.lost = barriers.lost /\ barriers'.unmade = barriers.unmade
      /\ p \in barriers.tombs =>
            barriers'.tombs = barriers.tombs \ {p} /\ barriers'.of = barriers.of
      /\ p \notin barriers.tombs =>
            /\ barriers'.tombs = barriers.tombs /\ DOMAIN barriers'.of = DOMAIN barriers.of
            /\ p \in DOMAIN barriers.of => barriers'.of[p] = c
            /\ \A x \in DOMAIN barriers.of \ {p} : barriers'.of[x] = barriers.of[x]
  <2>1. Joined(barriers, p, c, barriers')
    BY <1>2, RegisterFields DEF Register, IInv, Types
  <2> QED BY <2>1 DEF Joined
<1>6. /\ c \notin registered \cup unborn \cup freed \cup barriers.tombs
      /\ c \notin DOMAIN barriers.of /\ \A x \in DOMAIN torn : torn[x] # c
  BY <1>1 DEF IInv, Ids, Range
<1>7. \A x \in DOMAIN coming' : coming'[x] # p
  BY <1>1, <1>3 DEF IInv, Coming
<1>8. p \notin barriers.tombs =>
         /\ p \in DOMAIN clones /\ clones[p] = c /\ p \in registered
         /\ p \in DOMAIN barriers.of /\ barriers.of[p] = Pending
  BY <1>1 DEF IInv, Coming, Calls, Places
<1>9. \A x \in DOMAIN torn : torn[x] \in registered /\ p \notin barriers.tombs => torn[x] # p
  BY <1>6, <1>8 DEF IInv, Torn, Calls
<1>10. c # Pending
  BY VforkAssumption
<1>11. /\ DOMAIN barriers'.of = DOMAIN barriers.of /\ barriers'.tombs \subseteq barriers.tombs
       /\ \A x \in barriers.tombs : x # p => x \in barriers'.tombs
       /\ \A x \in DOMAIN barriers.of :
             \/ barriers'.of[x] = barriers.of[x]
             \/ x = p /\ p \notin barriers.tombs /\ barriers'.of[x] = c
  BY <1>5
<1>12. \A x \in DOMAIN barriers.of : x # p => barriers'.of[x] = barriers.of[x]
  BY <1>5
<1>13. coming[c] = p
  OBVIOUS
<1> HIDE DEF p
<1>14. Types'
  BY <1>1, <1>4, <1>5 DEF IInv, Types
<1>15. Places'
  BY <1>1, <1>6 DEF IInv, Places
<1>16. Ids'
  BY <1>1, <1>3, <1>6, <1>11, SMT DEF IInv, Ids
<1>17. Calls'
  BY <1>1 DEF IInv, Calls
<1>18. Coming'
  <2>1. ASSUME NEW d \in DOMAIN coming'
        PROVE  \/ /\ coming'[d] \in DOMAIN clones' /\ clones'[coming'[d]] = d
                  /\ coming'[d] \in DOMAIN barriers'.of /\ barriers'.of[coming'[d]] = Pending
                  /\ coming'[d] \notin barriers'.unmade
               \/ coming'[d] \in barriers'.tombs
    BY <1>1, <1>3, <1>5, <1>7, <1>11, <1>12, SMT DEF IInv, Coming
  <2> QED BY <1>3, <2>1 DEF IInv, Coming
<1>19. Torn'
  <2>1. ASSUME NEW d \in DOMAIN torn, torn[d] \in registered'
        PROVE  /\ torn[d] \in DOMAIN barriers'.of /\ barriers'.of[torn[d]] = Pending
               /\ torn[d] \notin barriers'.unmade
               /\ \/ torn[d] \in DOMAIN clones /\ clones[torn[d]] = d
                  \/ torn[d] \in DOMAIN posted /\ posted[torn[d]] = "continue"
    <3>1. torn[d] \in registered
      BY <1>1, <1>6, <2>1
    <3>2. torn[d] \in DOMAIN barriers.of
      BY <3>1 DEF IInv, Torn
    <3>3. barriers'.of[torn[d]] = barriers.of[torn[d]]
      BY <1>9, <1>11, <3>1, <3>2
    <3> QED BY <1>5, <1>11, <3>1, <3>2, <3>3 DEF IInv, Torn
  <2> QED BY <1>1, <2>1 DEF IInv, Torn
<1>20. ASSUME NEW x \in DOMAIN barriers'.of
       PROVE  /\ x \in registered' => x \in DOMAIN clones' \cup DOMAIN posted'
              /\ barriers'.of[x] = Pending => PendingIsOwed(x)' /\ x \notin barriers'.released
              /\ barriers'.of[x] # Pending => MadeIsOwed(x)'
  <2>1. x \in DOMAIN barriers.of /\ x # c
    BY <1>6, <1>11
  <2>2. x \in registered' => x \in DOMAIN clones' \cup DOMAIN posted'
    BY <1>1, <2>1 DEF IInv, Owed
  <2>3. CASE barriers'.of[x] = barriers.of[x]
    <3>1. ASSUME barriers.of[x] = Pending
          PROVE  PendingIsOwed(x)' /\ x \notin barriers'.released
      <4>1. PendingIsOwed(x) /\ x \notin barriers.released
        BY <2>1, <3>1 DEF IInv, Owed
      <4>2. x # p
        BY <1>1, <1>8, <1>10, <1>5, <2>1, <2>3, <3>1, <4>1 DEF IInv, Ids, PendingIsOwed
      <4> QED BY <1>1, <1>3, <1>5, <1>13, <4>1, <4>2, SMT DEF PendingIsOwed
    <3>2. ASSUME barriers.of[x] # Pending
          PROVE  MadeIsOwed(x)'
      <4>1. MadeIsOwed(x)
        BY <2>1, <3>2 DEF IInv, Owed
      <4> QED BY <1>1, <1>5, <2>1, <2>3, <4>1 DEF MadeIsOwed
    <3> QED BY <2>2, <2>3, <3>1, <3>2
  <2>4. CASE x = p /\ p \notin barriers.tombs /\ barriers'.of[x] = c
    <3>1. x \notin barriers.released
      BY <1>8, <2>4 DEF IInv, Owed
    <3>2. MadeIsOwed(x)'
      BY <1>1, <1>5, <1>8, <2>4, <3>1 DEF MadeIsOwed
    <3> QED BY <1>10, <2>2, <2>4, <3>2
  <2> QED BY <1>11, <2>1, <2>3, <2>4
<1>21. Owed'
  BY <1>5, <1>11, <1>20 DEF IInv, Owed
<1> QED BY <1>14, <1>15, <1>16, <1>17, <1>18, <1>19, <1>21 DEF IInv

\* The grant of a vfork: t's barrier is pending and t is inside clone(2), whose
\* outcome m is a child on its way, a child torn down, or none.
LEMMA VforkOwes ==
    ASSUME IInv, NEW t \in Threads, Vfork(t)
    PROVE  Coming' /\ Torn' /\ Owed' /\ Ids' /\ Types'
<1>1. /\ t \in registered
      /\ t \notin DOMAIN clones \cup DOMAIN posted
      /\ t \notin DOMAIN barriers.of
      /\ \A c \in DOMAIN coming : coming[c] # t
      /\ \A c \in DOMAIN torn : torn[c] # t
      /\ t \notin unborn \cup DOMAIN coming \cup barriers.tombs
      /\ selected' = NoThread
  BY TurnHolder DEF Vfork
<1>2. UNCHANGED <<admitting, registered, waiting, posted, dead, unseen>>
  BY DEF Vfork
<1>3. /\ barriers' \in BarrierMaps
      /\ DOMAIN barriers'.of = DOMAIN barriers.of \cup {t} /\ barriers'.of[t] = Pending
      /\ \A x \in DOMAIN barriers.of \ {t} : barriers'.of[x] = barriers.of[x]
      /\ barriers'.released = barriers.released \ {t} /\ barriers'.edges = barriers.edges \ {t}
      /\ barriers'.lost = barriers.lost \ {t} /\ barriers'.unmade = barriers.unmade \ {t}
      /\ barriers'.tombs = barriers.tombs \ {t}
  <2>1. barriers' = BeginVforkBarrier(barriers, t)
    BY DEF Vfork
  <2>2. barriers \in BarrierMaps
    BY DEF IInv, Types
  <2> QED BY <2>1, <2>2, BeginFields, SMT
<1>4. barriers'.tombs = barriers.tombs /\ barriers'.released = barriers.released
  <2>1. barriers.released \subseteq DOMAIN barriers.of
    BY DEF IInv, Owed
  <2>2. t \notin barriers.tombs /\ t \notin barriers.released
    BY <1>1, <2>1
  <2> QED BY <1>3, <2>2
<1>5. PICK m \in Made :
         /\ clones' = Bind(clones, t, m)
         /\ \/ /\ m \in unborn /\ unborn' = unborn \ {m}
               /\ coming' = Bind(coming, m, t) /\ torn' = torn /\ freed' = freed
            \/ /\ m \in unborn /\ unborn' = unborn \ {m}
               /\ torn' = Bind(torn, m, t) /\ freed' = freed \cup {m} /\ coming' = coming
            \/ /\ m = NoThread
               /\ UNCHANGED <<unborn, coming, torn, freed>>
  BY DEF Vfork, IInv, Types, Made
<1>6. /\ DOMAIN clones' = DOMAIN clones \cup {t} /\ clones'[t] = m
      /\ \A x \in DOMAIN clones \ {t} : clones'[x] = clones[x]
  BY <1>5 DEF Bind
<1>7. clones' \in Map(Threads, Made)
  BY <1>5, BindMap DEF IInv, Types
<1>8. queue' \in Seq(Threads) /\ background' \subseteq Threads
  BY WithoutTurn DEF Vfork, IInv, Types
<1>10. /\ DOMAIN coming \subseteq DOMAIN coming'
       /\ \A x \in DOMAIN coming : coming'[x] = coming[x]
       /\ DOMAIN torn \subseteq DOMAIN torn'
       /\ \A x \in DOMAIN torn : torn'[x] = torn[x]
       /\ coming' \in Map(Threads, Threads) /\ torn' \in Map(Threads, Threads)
       /\ freed \subseteq freed' /\ freed' \subseteq Threads
       /\ unborn' \subseteq unborn
       /\ DOMAIN coming' \subseteq DOMAIN coming \cup {m}
       /\ DOMAIN torn' \subseteq DOMAIN torn \cup {m}
       /\ freed' \subseteq freed \cup {m}
       /\ m \notin unborn' /\ (m = NoThread \/ m \in unborn)
       /\ m \in DOMAIN coming' => coming'[m] = t /\ m \notin freed'
       /\ m \in DOMAIN torn' => torn'[m] = t /\ m \in freed'
       /\ m = NoThread \/ m \in DOMAIN coming' \/ m \in DOMAIN torn'
  <2>1. NoThread \notin unborn /\ unborn \subseteq Threads
    BY VforkAssumption DEF IInv, Types
  <2>2. DOMAIN coming \subseteq Threads /\ DOMAIN torn \subseteq Threads /\ NoThread \notin Threads
    BY MapFacts, VforkAssumption DEF IInv, Types
  <2>3. freed \subseteq Threads
    BY DEF IInv, Types
  <2>4. m \in unborn => m \notin DOMAIN coming \cup DOMAIN torn \cup freed
    BY DEF IInv, Ids
  <2>5. CASE /\ m \in unborn /\ unborn' = unborn \ {m}
             /\ coming' = Bind(coming, m, t) /\ torn' = torn /\ freed' = freed
    <3>1. /\ DOMAIN coming' = DOMAIN coming \cup {m} /\ coming'[m] = t
          /\ \A x \in DOMAIN coming \ {m} : coming'[x] = coming[x]
      BY <2>5 DEF Bind
    <3>2. coming' \in Map(Threads, Threads) /\ torn' \in Map(Threads, Threads)
      BY <2>1, <2>5, BindMap DEF IInv, Types
    <3> QED BY <2>3, <2>4, <2>5, <3>1, <3>2
  <2>6. CASE /\ m \in unborn /\ unborn' = unborn \ {m}
             /\ torn' = Bind(torn, m, t) /\ freed' = freed \cup {m} /\ coming' = coming
    <3>1. /\ DOMAIN torn' = DOMAIN torn \cup {m} /\ torn'[m] = t
          /\ \A x \in DOMAIN torn \ {m} : torn'[x] = torn[x]
      BY <2>6 DEF Bind
    <3>2. coming' \in Map(Threads, Threads) /\ torn' \in Map(Threads, Threads)
      BY <2>1, <2>6, BindMap DEF IInv, Types
    <3> QED BY <2>1, <2>3, <2>4, <2>6, <3>1, <3>2
  <2>7. CASE m = NoThread /\ UNCHANGED <<unborn, coming, torn, freed>>
    <3>1. coming' \in Map(Threads, Threads) /\ torn' \in Map(Threads, Threads)
      BY <2>7 DEF IInv, Types
    <3>2. m \notin DOMAIN coming \cup DOMAIN torn \cup unborn
      BY <2>1, <2>2, <2>7
    <3> QED BY <2>3, <2>7, <3>1, <3>2
  <2> QED BY <1>5, <2>5, <2>6, <2>7
<1>11. m \notin registered \cup freed \cup DOMAIN coming \cup DOMAIN torn \cup barriers.tombs
  <2>1. CASE m \in unborn
    BY <2>1 DEF IInv, Ids
  <2>2. CASE m = NoThread
    <3>1. DOMAIN coming \subseteq Threads /\ DOMAIN torn \subseteq Threads
      BY MapFacts DEF IInv, Types
    <3>2. /\ registered \subseteq Threads /\ freed \subseteq Threads
          /\ barriers.tombs \subseteq Threads /\ NoThread \notin Threads
      BY VforkAssumption DEF IInv, Types, BarrierMaps
    <3> QED BY <2>2, <3>1, <3>2
  <2> QED BY <1>10, <2>1, <2>2
<1>12. Types'
  BY <1>1, <1>2, <1>3, <1>7, <1>8, <1>10 DEF IInv, Types
<1>13. Coming'
  <2>1. ASSUME NEW c \in DOMAIN coming'
        PROVE  \/ /\ coming'[c] \in DOMAIN clones' /\ clones'[coming'[c]] = c
                  /\ coming'[c] \in DOMAIN barriers'.of /\ barriers'.of[coming'[c]] = Pending
                  /\ coming'[c] \notin barriers'.unmade
               \/ coming'[c] \in barriers'.tombs
    <3>1. CASE c = m
      BY <1>3, <1>6, <1>10, <3>1
    <3>2. CASE c \in DOMAIN coming
      <4>1. coming'[c] = coming[c] /\ coming[c] # t
        BY <1>1, <1>10, <3>2
      <4> QED BY <1>3, <1>4, <1>6, <3>2, <4>1, SMT DEF IInv, Coming
    <3> QED BY <1>10, <3>1, <3>2
  <2>2. \A c, d \in DOMAIN coming' : coming'[c] = coming'[d] => c = d
    <3>1. \A c, d \in DOMAIN coming : coming[c] = coming[d] => c = d
      BY DEF IInv, Coming
    <3> QED BY <1>1, <1>10, <3>1, SMT
  <2> QED BY <2>1, <2>2 DEF Coming
<1>14. Torn'
  <2>1. ASSUME NEW c \in DOMAIN torn'
        PROVE  /\ c \in freed'
               /\ torn'[c] \in registered' =>
                     /\ torn'[c] \in DOMAIN barriers'.of /\ barriers'.of[torn'[c]] = Pending
                     /\ torn'[c] \notin barriers'.unmade
                     /\ \/ torn'[c] \in DOMAIN clones' /\ clones'[torn'[c]] = c
                        \/ torn'[c] \in DOMAIN posted' /\ posted'[torn'[c]] = "continue"
    <3>1. CASE c = m
      BY <1>3, <1>6, <1>10, <3>1
    <3>2. CASE c \in DOMAIN torn
      <4>1. torn'[c] = torn[c] /\ torn[c] # t
        BY <1>1, <1>10, <3>2
      <4> QED BY <1>2, <1>3, <1>6, <1>10, <3>2, <4>1, SMT DEF IInv, Torn
    <3> QED BY <1>10, <3>1, <3>2
  <2>2. \A c, d \in DOMAIN torn' : torn'[c] = torn'[d] => c = d
    <3>1. \A c, d \in DOMAIN torn : torn[c] = torn[d] => c = d
      BY DEF IInv, Torn
    <3> QED BY <1>1, <1>10, <3>1
  <2> QED BY <2>1, <2>2 DEF Torn
<1>15. Range(torn) \subseteq Range(torn') /\ Range(torn') \subseteq Range(torn) \cup {t}
       /\ (m \in DOMAIN torn' => t \in Range(torn'))
  BY <1>10, SMT DEF Range
<1>16. ASSUME NEW x \in DOMAIN barriers'.of
       PROVE  /\ x \in registered' => x \in DOMAIN clones' \cup DOMAIN posted'
              /\ barriers'.of[x] = Pending => PendingIsOwed(x)' /\ x \notin barriers'.released
              /\ barriers'.of[x] # Pending => MadeIsOwed(x)'
  <2>1. CASE x = t
    <3>1. PendingIsOwed(t)'
      BY <1>1, <1>2, <1>6, <1>10, <1>15 DEF PendingIsOwed
    <3> QED BY <1>3, <1>6, <2>1, <3>1
  <2>2. CASE x # t /\ x \in DOMAIN barriers.of
    <3>0. barriers'.of[x] = barriers.of[x]
      BY <1>3, <2>2
    <3>1. PendingIsOwed(x) => PendingIsOwed(x)'
      BY <1>2, <1>3, <1>6, <1>10, <1>15, <2>2 DEF PendingIsOwed
    <3>2. MadeIsOwed(x) => MadeIsOwed(x)'
      BY <1>2, <1>3, <1>6, <1>10, <2>2, <3>0 DEF MadeIsOwed
    <3> QED BY <1>2, <1>4, <1>6, <2>2, <3>0, <3>1, <3>2 DEF IInv, Owed
  <2> QED BY <1>3, <2>1, <2>2
<1>17. Owed'
  BY <1>3, <1>4, <1>16 DEF IInv, Owed
<1>18. Ids'
  <2>1. /\ dead' \subseteq registered' \cap freed'
        /\ unborn' \cap (registered' \cup freed' \cup DOMAIN coming' \cup DOMAIN torn') = {}
    BY <1>2, <1>10, SMT DEF IInv, Ids
  <2>2. DOMAIN coming' \cap (registered' \cup freed') = {}
    BY <1>2, <1>10, <1>11, SMT DEF IInv, Ids
  <2>3. barriers'.tombs \cap (registered' \cup unborn' \cup DOMAIN coming') = {}
    BY <1>2, <1>4, <1>10, <1>11, SMT DEF IInv, Ids
  <2>4. m \notin DOMAIN barriers.of \cup Range(torn) \/ m = NoThread
    BY <1>10 DEF IInv, Ids
  <2>5. t # m
    BY <1>1, <1>11
  <2>6. DOMAIN coming' \subseteq Threads /\ NoThread \notin Threads
    BY <1>10, MapFacts, VforkAssumption
  <2>7. (DOMAIN barriers'.of \cup Range(torn')) \cap (unborn' \cup DOMAIN coming') = {}
    <3>1. (DOMAIN barriers.of \cup Range(torn)) \cap (unborn \cup DOMAIN coming) = {}
      BY DEF IInv, Ids
    <3> QED BY <1>1, <1>3, <1>10, <1>15, <2>4, <2>5, <2>6, <3>1, SMT
  <2> QED BY <2>1, <2>2, <2>3, <2>7 DEF Ids
<1> QED BY <1>12, <1>13, <1>14, <1>17, <1>18

\* The grant of a vfork keeps the invariant.
LEMMA VforkKeeps ==
    ASSUME IInv, NEW t \in Threads, Vfork(t)
    PROVE  IInv'
<1>1. Coming' /\ Torn' /\ Owed' /\ Ids' /\ Types'
  BY VforkOwes
<1>2. /\ t \in registered /\ t \notin admitting \cup background \cup waiting
      /\ t \notin DOMAIN posted /\ selected' = NoThread
  BY TurnHolder DEF Vfork
<1>3. DOMAIN clones' = DOMAIN clones \cup {t}
  BY DEF Vfork, Bind
<1>4. Calls'
  BY <1>2, <1>3 DEF Vfork, IInv, Calls
<1>5. Range(queue') = Range(queue) \ {t}
  BY WithoutTurn DEF Vfork
<1>6. Places'
  BY <1>2, <1>5 DEF Vfork, IInv, Places
<1> QED BY <1>1, <1>4, <1>6 DEF IInv

-----------------------------------------------------------------------------
(* The pass of the scheduler.                                              *)

\* What step2a does: the barriers in E end, all of them of parents that have
\* posted, and a posted parent whose barrier stays keeps the pass waiting.
LEMMA PassBarriers ==
    ASSUME IInv, NEW b, b = DropVforkBarriers(barriers, Ended(barriers))
    PROVE  /\ b \in BarrierMaps
           /\ DOMAIN b.of = DOMAIN barriers.of \ Ended(barriers)
           /\ \A p \in DOMAIN b.of : b.of[p] = barriers.of[p]
           /\ \A p \in DOMAIN b.of :
                 /\ p \in b.released <=> p \in barriers.released
                 /\ p \in b.lost <=> p \in barriers.lost
                 /\ p \in b.unmade <=> p \in barriers.unmade
           /\ b.tombs = barriers.tombs
           /\ b.edges \subseteq b.released /\ b.released \subseteq DOMAIN b.of
           /\ \A p \in DOMAIN b.of : p \in DOMAIN posted => p \in Waits(b)
           /\ \A p \in Ended(barriers) :
                 /\ p \in DOMAIN posted
                 /\ posted[p] = "failed" \/ barriers.of[p] # Pending \/ p \in barriers.unmade
<1> DEFINE E == Ended(barriers)
<1>1. /\ b \in BarrierMaps /\ b.of = Limited(barriers.of, E)
      /\ b.released = barriers.released \ E /\ b.edges = barriers.edges \ E
      /\ b.lost = barriers.lost \ E /\ b.unmade = barriers.unmade \ E
      /\ b.tombs = barriers.tombs
  BY DropFields DEF IInv, Types
<1>2. /\ DOMAIN b.of = DOMAIN barriers.of \ E
      /\ \A p \in DOMAIN b.of : b.of[p] = barriers.of[p]
  BY <1>1 DEF Limited
<1>3. barriers.edges \subseteq barriers.released /\ barriers.released \subseteq DOMAIN barriers.of
  BY DEF IInv, Owed
<1>4. ASSUME NEW p \in DOMAIN barriers.of \ E, p \in DOMAIN posted
      PROVE  barriers.of[p] = Pending \/ p \in barriers.released
  BY <1>3, <1>4 DEF Ended, Completed, Rejoining
<1>5. ASSUME NEW p \in E
      PROVE  /\ p \in DOMAIN posted
             /\ posted[p] = "failed" \/ barriers.of[p] # Pending \/ p \in barriers.unmade
  BY DEF Ended, Completed
<1> HIDE DEF E
<1>6. \A p \in DOMAIN b.of : p \in DOMAIN posted => p \in Waits(b)
  BY <1>1, <1>2, <1>4 DEF Waits
<1>7. b.edges \subseteq b.released /\ b.released \subseteq DOMAIN b.of
  BY <1>1, <1>2, <1>3
<1>8. \A p \in DOMAIN b.of :
         /\ p \in b.released <=> p \in barriers.released
         /\ p \in b.lost <=> p \in barriers.lost
         /\ p \in b.unmade <=> p \in barriers.unmade
  BY <1>1, <1>2
<1> QED BY <1>1, <1>2, <1>5, <1>6, <1>7, <1>8 DEF E

\* Step 3 selects a thread of the queue, or none.
LEMMA Step3Queued ==
    ASSUME NEW b \in BarrierMaps, NEW q \in Seq(Threads), NEW bg
    PROVE  Step3(b, q, bg) \in Range(q) \cup {NoThread}
<1>1. CASE q = <<>>
  BY <1>1 DEF Step3
<1>2. CASE q # <<>> /\ QueuedChild(b, q) # {}
  <2>1. QueuedChild(b, q) \subseteq Nat
    BY MapFacts, VforkAssumption DEF QueuedChild, BarrierMaps
  <2>2. Min(QueuedChild(b, q)) \in QueuedChild(b, q)
    BY <1>2, <2>1, MinIsMember
  <2>3. b.of[Min(QueuedChild(b, q))] \in Range(q)
    BY <2>2 DEF QueuedChild
  <2> QED BY <1>2, <2>3 DEF Step3
<1>3. CASE q # <<>> /\ QueuedChild(b, q) = {}
  <2>1. Head(q) = q[1] /\ 1 \in DOMAIN q
    BY <1>3, SMT
  <2>2. Head(q) \in Range(q)
    BY <2>1 DEF Range
  <2> QED BY <1>3, <2>2 DEF Step3
<1> QED BY <1>1, <1>2, <1>3

\* A pass that takes the requests in G leaves every other wait owed.
LEMMA PassOwes ==
    ASSUME IInv, NEW G, G \subseteq DOMAIN posted,
           barriers' = DropVforkBarriers(barriers, Ended(barriers)),
           \A p \in G : p \in Ended(barriers) \/ Waits(barriers') = {},
           posted' = Limited(posted, G),
           UNCHANGED <<registered, clones, coming, torn, freed>>
    PROVE  Coming' /\ Torn' /\ Owed'
<1>1. /\ DOMAIN barriers'.of = DOMAIN barriers.of \ Ended(barriers)
      /\ \A p \in DOMAIN barriers'.of : barriers'.of[p] = barriers.of[p]
      /\ \A p \in DOMAIN barriers'.of :
            /\ p \in barriers'.released <=> p \in barriers.released
            /\ p \in barriers'.lost <=> p \in barriers.lost
            /\ p \in barriers'.unmade <=> p \in barriers.unmade
      /\ barriers'.tombs = barriers.tombs
      /\ barriers'.edges \subseteq barriers'.released
      /\ barriers'.released \subseteq DOMAIN barriers'.of
      /\ \A p \in DOMAIN barriers'.of : p \in DOMAIN posted => p \in Waits(barriers')
      /\ \A p \in Ended(barriers) :
            /\ p \in DOMAIN posted
            /\ posted[p] = "failed" \/ barriers.of[p] # Pending \/ p \in barriers.unmade
  BY PassBarriers
<1>2. /\ DOMAIN posted' = DOMAIN posted \ G
      /\ \A p \in DOMAIN posted' : posted'[p] = posted[p]
  BY DEF Limited
<1>3. \A p \in DOMAIN barriers'.of : p \notin G
  BY <1>1
<1>4. Coming'
  <2>1. ASSUME NEW c \in DOMAIN coming
        PROVE  \/ /\ coming[c] \in DOMAIN clones /\ clones[coming[c]] = c
                  /\ coming[c] \in DOMAIN barriers'.of /\ barriers'.of[coming[c]] = Pending
                  /\ coming[c] \notin barriers'.unmade
               \/ coming[c] \in barriers'.tombs
    BY <1>1 DEF IInv, Coming, Calls
  <2> QED BY <2>1 DEF IInv, Coming
<1>5. Torn'
  <2>1. ASSUME NEW c \in DOMAIN torn, torn[c] \in registered
        PROVE  /\ torn[c] \in DOMAIN barriers'.of /\ barriers'.of[torn[c]] = Pending
               /\ torn[c] \notin barriers'.unmade
               /\ \/ torn[c] \in DOMAIN clones /\ clones[torn[c]] = c
                  \/ torn[c] \in DOMAIN posted' /\ posted'[torn[c]] = "continue"
    <3>1. /\ torn[c] \in DOMAIN barriers.of /\ barriers.of[torn[c]] = Pending
          /\ torn[c] \notin barriers.unmade
          /\ \/ torn[c] \in DOMAIN clones /\ clones[torn[c]] = c
             \/ torn[c] \in DOMAIN posted /\ posted[torn[c]] = "continue"
      BY <2>1 DEF IInv, Torn
    <3>2. torn[c] \notin Ended(barriers)
      BY <1>1, <3>1 DEF IInv, Calls
    <3>3. torn[c] \in DOMAIN barriers'.of /\ torn[c] \notin G
      BY <1>1, <1>3, <3>1, <3>2
    <3> QED BY <1>1, <1>2, <3>1, <3>3
  <2> QED BY <2>1 DEF IInv, Torn
<1>6. ASSUME NEW p \in DOMAIN barriers'.of
      PROVE  /\ p \in registered' => p \in DOMAIN clones' \cup DOMAIN posted'
             /\ barriers'.of[p] = Pending => PendingIsOwed(p)' /\ p \notin barriers'.released
             /\ barriers'.of[p] # Pending => MadeIsOwed(p)'
  <2>1. p \in DOMAIN barriers.of /\ p \notin G /\ barriers'.of[p] = barriers.of[p]
    BY <1>1, <1>3
  <2>2. p \in DOMAIN posted => p \in DOMAIN posted' /\ posted'[p] = posted[p]
    BY <1>2, <2>1
  <2>3. p \in DOMAIN posted' => p \in DOMAIN posted
    BY <1>2
  <2>4. PendingIsOwed(p) => PendingIsOwed(p)'
    BY <1>1, <2>2, <2>3 DEF PendingIsOwed
  <2>5. MadeIsOwed(p) => MadeIsOwed(p)'
    BY <1>1, <2>1 DEF MadeIsOwed
  <2> QED BY <1>1, <2>1, <2>2, <2>4, <2>5 DEF IInv, Owed
<1>7. Owed'
  BY <1>1, <1>6 DEF Owed
<1> QED BY <1>4, <1>5, <1>7

\* A pass keeps the invariant.
LEMMA PassKeeps ==
    ASSUME IInv, Pass
    PROVE  IInv'
<1> DEFINE b   == DropVforkBarriers(barriers, Ended(barriers))
           in  == Rejoining(barriers) \cap Ended(barriers) \cap background
           q0  == queue \o Sorted(admitting)
           q   == PushedFront(in, q0)
           bg  == background \ in
           out == IF Waits(b) # {} THEN {} ELSE Harvested(b, q, bg)
           q2  == PushedFront(out, q)
<1>1. /\ barriers' = b /\ queue' = q2 /\ admitting' = {} /\ background' = bg \ out
      /\ posted' = Limited(posted, in \cup out)
      /\ selected' = IF Waits(b) # {} THEN NoThread ELSE Step3(b, q2, bg \ out)
      /\ UNCHANGED <<registered, waiting, clones, coming, torn, freed, dead, unborn, unseen>>
  BY DEF Pass, kernel
<1>2. in \subseteq background /\ in \subseteq Ended(barriers) /\ in \subseteq DOMAIN posted
  BY DEF Rejoining, Completed
<1>3. out \subseteq bg /\ out \subseteq DOMAIN posted /\ (Waits(b) # {} => out = {})
  BY DEF Harvested
<1>4. /\ b \in BarrierMaps
      /\ DOMAIN b.of \subseteq DOMAIN barriers.of /\ b.tombs = barriers.tombs
  BY PassBarriers
<1> HIDE DEF b, in, out, q, q0, bg, q2
<1>5. Coming' /\ Torn' /\ Owed'
  <2>1. in \cup out \subseteq DOMAIN posted
    BY <1>2, <1>3
  <2>2. \A p \in in \cup out : p \in Ended(barriers) \/ Waits(barriers') = {}
    BY <1>1, <1>2, <1>3
  <2>3. barriers' = DropVforkBarriers(barriers, Ended(barriers))
    BY <1>1 DEF b
  <2> QED BY <1>1, <2>1, <2>2, <2>3, PassOwes
<1>6. /\ Threads \subseteq Nat /\ bg = background \ in
      /\ in \subseteq Threads /\ IsFiniteSet(in)
      /\ out \subseteq Threads /\ IsFiniteSet(out)
      /\ admitting \subseteq Threads /\ IsFiniteSet(admitting)
  BY <1>2, <1>3, VforkAssumption, FS_Subset DEF IInv, Types, bg
<1>7. q0 \in Seq(Threads) /\ Range(q0) = Range(queue) \cup admitting
  BY <1>6, RangeSorted, RangeConcat, SMT DEF IInv, Types, q0
<1>8. q \in Seq(Threads) /\ Range(q) = in \cup Range(q0)
  BY <1>6, <1>7, RangePushedFront, SMT DEF q
<1>9. q2 \in Seq(Threads) /\ Range(q2) = out \cup Range(q)
  BY <1>6, <1>8, RangePushedFront, SMT DEF q2
<1>10. queue' \in Seq(Threads) /\ Range(queue') = in \cup out \cup Range(queue) \cup admitting
  BY <1>1, <1>7, <1>8, <1>9
<1>11. selected' \in Range(queue') \cup {NoThread}
  BY <1>1, <1>4, <1>9, Step3Queued
<1>12. posted' \in Map(Threads, Outcomes) /\ DOMAIN posted' = DOMAIN posted \ (in \cup out)
  BY <1>1, LimitedMap, LimitedFacts DEF IInv, Types
<1>13. Range(queue') \subseteq registered
  BY <1>2, <1>3, <1>6, <1>10 DEF IInv, Places
<1>14. Types'
  BY <1>1, <1>4, <1>6, <1>10, <1>11, <1>12, <1>13 DEF IInv, Types
<1>15. Calls'
  <2>1. DOMAIN clones \cap DOMAIN posted = {}
    BY DEF IInv, Calls
  <2> QED BY <1>1, <1>2, <1>3, <1>6, <1>12, <2>1 DEF IInv, Calls
<1>16. Places'
  <2>1. background' = background \ (in \cup out)
    BY <1>1, <1>6
  <2>2. in \cup out \subseteq background
    BY <1>2, <1>3, <1>6
  <2>3. /\ Range(queue') \cap background' = {} /\ Range(queue') \cap waiting' = {}
        /\ background' \cap waiting' = {}
    BY <1>1, <1>10, <2>1, <2>2 DEF IInv, Places
  <2> QED BY <1>1, <1>11, <1>13, <2>1, <2>3 DEF IInv, Places
<1>17. Ids'
  BY <1>1, <1>4 DEF IInv, Ids
<1> QED BY <1>5, <1>14, <1>15, <1>16, <1>17 DEF IInv

-----------------------------------------------------------------------------
(* The invariant, and what follows from it.                                *)

\* The empty function is a map.
LEMMA EmptyMap ==
    ASSUME NEW A0, NEW B0
    PROVE  <<>> \in Map(A0, B0) /\ DOMAIN <<>> = {} /\ Range(<<>>) = {}
<1>1. <<>> = [x \in {} |-> x]
  BY SMT
<1>2. <<>> \in [{} -> B0] /\ DOMAIN <<>> = {}
  BY <1>1
<1> QED BY <1>2, MapIntro DEF Range

\* The invariant holds at the start.
LEMMA InitInvariant == Init => IInv
<1> SUFFICES ASSUME Init PROVE IInv
  OBVIOUS
<1>1. /\ coming = <<>> /\ torn = <<>> /\ posted = <<>> /\ clones = <<>>
      /\ DOMAIN coming = {} /\ DOMAIN torn = {} /\ DOMAIN posted = {} /\ DOMAIN clones = {}
      /\ Range(torn) = {}
  BY EmptyMap DEF Init
<1>2. /\ coming \in Map(Threads, Threads) /\ torn \in Map(Threads, Threads)
      /\ posted \in Map(Threads, Outcomes) /\ clones \in Map(Threads, Made)
  BY <1>1, EmptyMap
<1>3. /\ barriers \in BarrierMaps /\ DOMAIN barriers.of = {}
      /\ barriers.released = {} /\ barriers.edges = {} /\ barriers.tombs = {}
  BY EmptyMap DEF Init, NoBarriers, BarrierMaps
<1>4. Initial \subseteq Threads /\ IsFiniteSet(Initial)
  BY VforkAssumption, FS_Subset
<1>5. queue \in Seq(Threads) /\ Range(queue) = Initial
  BY <1>4, VforkAssumption, RangeSorted DEF Init
<1>6. Types
  BY <1>2, <1>3, <1>4, <1>5, VforkAssumption DEF Init, Types
<1>7. Places
  BY <1>5 DEF Init, Places
<1>8. Ids
  BY <1>1, <1>3 DEF Init, Ids
<1>9. Calls
  BY <1>1 DEF Calls
<1>10. Coming /\ Torn
  BY <1>1 DEF Coming, Torn
<1>11. Owed
  BY <1>3 DEF Owed
<1> QED BY <1>6, <1>7, <1>8, <1>9, <1>10, <1>11 DEF IInv

\* Every step keeps the invariant.
LEMMA NextInvariant == IInv /\ [Next]_vars => IInv'
<1> SUFFICES ASSUME IInv, [Next]_vars PROVE IInv'
  OBVIOUS
<1>1. CASE Pass
  BY <1>1, PassKeeps
<1>2. ASSUME NEW t \in Threads, Turn(t)
      PROVE  IInv'
  BY <1>2, StepKeeps, VforkKeeps, BeginCallKeeps, WaitKeeps, ExecKeeps, ExitKeeps,
     WakeKeeps, KillKeeps, ExecEndsKeeps DEF Turn
<1>3. ASSUME NEW t \in Threads,
             Register(t) \/ TearDown(t) \/ Continue(t) \/ CallDone(t) \/ Die(t) \/ Deregister(t)
      PROVE  IInv'
  BY <1>3, RegisterKeeps, TearDownKeeps, ContinueKeeps, CallDoneKeeps, DieKeeps,
     DeregisterKeeps
<1>4. CASE UNCHANGED vars
  <2>1. Coming' /\ Torn' /\ Owed'
    BY <1>4, NothingOwed DEF vars
  <2>2. Types' /\ Calls'
    BY <1>4 DEF vars, IInv, Types, Calls
  <2>3. Places' /\ Ids'
    BY <1>4 DEF vars, IInv, Places, Ids
  <2> QED BY <2>1, <2>2, <2>3 DEF IInv
<1> QED BY <1>1, <1>2, <1>3, <1>4 DEF Next

\* The invariant holds of every reachable state.
LEMMA Invariance == Spec => []IInv
BY InitInvariant, NextInvariant, PTL DEF Spec

\* No child's registration finds its parent's barrier gone, whatever died,
\* execed or was torn down before it: complete_vfork_registration's panic is
\* unreachable, for any number of threads.
THEOREM RegistrationsAreMet == Spec => []RegistrationFindsItsParent
<1>1. IInv => RegistrationFindsItsParent
  BY DEF IInv, Coming, RegistrationFindsItsParent
<1> QED BY <1>1, Invariance, PTL

\* Every barrier that keeps the scheduler from committing a turn waits for a
\* report that is owed or that the next pass acts on, for any number of
\* threads, vforks and deaths.
THEOREM WaitsAreOwed == Spec => []BarrierWaitsAreOwed
<1>1. ASSUME IInv
      PROVE  BarrierWaitsAreOwed
  <2> SUFFICES ASSUME NEW p \in Waits(barriers)
               PROVE  \/ p \in Range(coming) \cup Range(torn)
                      \/ p \in DOMAIN clones /\ clones[p] \in freed \cup {NoThread}
                      \/ p \in Completed(barriers) \cup dead
    BY DEF BarrierWaitsAreOwed
  <2>1. p \in DOMAIN barriers.of /\ (barriers.of[p] = Pending \/ p \in barriers.released)
    BY DEF Waits
  <2>2. CASE barriers.of[p] = Pending
    <3>1. PendingIsOwed(p) /\ p \in DOMAIN clones \cup DOMAIN posted
      BY <1>1, <2>1, <2>2 DEF IInv, Owed, PendingIsOwed
    <3>2. CASE p \in DOMAIN clones
      BY <1>1, <3>1, <3>2 DEF PendingIsOwed, Range
    <3>3. CASE p \in DOMAIN posted
      BY <2>1, <3>1, <3>3 DEF PendingIsOwed, Completed
    <3> QED BY <3>1, <3>2, <3>3
  <2>3. CASE barriers.of[p] # Pending
    <3>1. MadeIsOwed(p) /\ p \in barriers.released
      BY <1>1, <2>1, <2>3 DEF IInv, Owed
    <3>2. p \in registered /\ barriers.of[p] \in freed
      BY <3>1 DEF MadeIsOwed
    <3>3. p \in DOMAIN clones \cup DOMAIN posted
      BY <1>1, <2>1, <3>2 DEF IInv, Owed
    <3>4. CASE p \in DOMAIN clones
      BY <3>1, <3>2, <3>4 DEF MadeIsOwed
    <3>5. CASE p \in DOMAIN posted
      BY <2>1, <2>3, <3>5 DEF Completed
    <3> QED BY <3>3, <3>4, <3>5
  <2> QED BY <2>2, <2>3
<1> QED BY <1>1, Invariance, PTL
=============================================================================
