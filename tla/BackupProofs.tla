------------------------------ MODULE BackupProofs -----------------------------
(***************************************************************************)
(* That the database survives whatever becomes of a staged restore, that   *)
(* prunes take the oldest snapshots and belong to a backup that has        *)
(* succeeded, and that the timer is what the schedule says, for any number *)
(* of snapshots, intervals, failures, crashes and starts.                  *)
(***************************************************************************)
EXTENDS Backup, SequenceTheorems, FiniteSetTheorems, WellFoundedInduction, TLAPS

-------------------------------------------------------------------------------
(***************************************************************************)
(* Sequences without a repetition: what RemoveFirst, which Forgets uses,   *)
(* leaves of one.                                                          *)
(***************************************************************************)
LEMMA Removal ==
  ASSUME NEW S, NEW s \in Seq(S), IsInjective(s), NEW k \in 1 .. Len(s)
  PROVE  LET r == RemoveFirst(s, s[k]) IN
         /\ r \in Seq(S) /\ Len(r) = Len(s) - 1
         /\ \A i \in 1 .. Len(r) : r[i] = IF i < k THEN s[i] ELSE s[i + 1]
<1> DEFINE e == s[k]
           a == SubSeq(s, 1, k - 1)
           b == SubSeq(s, k + 1, Len(s))
<1>1. Len(s) \in Nat /\ DOMAIN s = 1 .. Len(s)
  BY LenProperties
<1>2. {i \in 1 .. Len(s) : s[i] = s[k]} = {k}
  BY <1>1 DEF IsInjective
<1>3. SelectInSeq(s, LAMBDA v : v = s[k]) = k
  <2>1. Min({k}) = k
    BY DEF Min
  <2> QED BY <1>2, <2>1 DEF SelectInSeq
<1>4. RemoveFirst(s, s[k]) = a \o b
  BY <1>3 DEF RemoveFirst, RemoveAt
<1>5. /\ a \in Seq(S) /\ Len(a) = k - 1 /\ \A i \in 1 .. k - 1 : a[i] = s[i]
  <2>1. \A i \in 1 .. k - 1 : s[i] \in S
    BY <1>1, ElementOfSeq
  <2>2. 1 \in Int /\ k - 1 \in Int /\ (IF 1 <= k - 1 THEN k - 1 - 1 + 1 ELSE 0) = k - 1
    BY <1>1
  <2>3. /\ a \in Seq(S) /\ Len(a) = IF 1 <= k - 1 THEN k - 1 - 1 + 1 ELSE 0
        /\ \A i \in 1 .. k - 1 - 1 + 1 : a[i] = s[1 + i - 1]
    BY <2>1, <2>2, SubSeqProperties
  <2>4. \A i \in 1 .. k - 1 : a[i] = s[1 + i - 1] /\ 1 + i - 1 = i
    BY <1>1, <2>3
  <2> HIDE DEF a
  <2> QED BY <2>2, <2>3, <2>4
<1>6. b \in Seq(S) /\ Len(b) = Len(s) - k /\ \A i \in 1 .. Len(s) - k : b[i] = s[k + i]
  <2>1. \A i \in k + 1 .. Len(s) : s[i] \in S
    BY <1>1, ElementOfSeq
  <2>2. PICK n \in Nat : n = Len(s)
    BY <1>1
  <2>3. k \in 1 .. n /\ k + 1 \in Int
    BY <2>2
  <2>4. (IF k + 1 <= n THEN n - (k + 1) + 1 ELSE 0) = n - k
    BY <2>3
  <2>5. /\ b \in Seq(S) /\ Len(b) = IF k + 1 <= n THEN n - (k + 1) + 1 ELSE 0
        /\ \A i \in 1 .. n - (k + 1) + 1 : b[i] = s[k + 1 + i - 1]
    BY <2>1, <2>2, <2>3, SubSeqProperties
  <2>6. \A i \in 1 .. n - k : i \in 1 .. n - (k + 1) + 1 /\ k + 1 + i - 1 = k + i
    BY <2>3
  <2> HIDE DEF b
  <2> QED BY <2>2, <2>4, <2>5, <2>6
<1> HIDE DEF a, b
<1> DEFINE r == a \o b
<1>7. /\ r \in Seq(S) /\ Len(r) = Len(a) + Len(b)
      /\ \A i \in 1 .. Len(a) + Len(b) : r[i] = IF i <= Len(a) THEN a[i] ELSE b[i - Len(a)]
  BY <1>5, <1>6, ConcatProperties
<1> HIDE DEF r
<1>8. Len(r) = Len(s) - 1
  BY <1>1, <1>5, <1>6, <1>7
<1>9. ASSUME NEW i \in 1 .. Len(r)
      PROVE  r[i] = IF i < k THEN s[i] ELSE s[i + 1]
  <2>1. i \in 1 .. Len(a) + Len(b)
    BY <1>1, <1>5, <1>6, <1>8
  <2>2. CASE i < k
    <3>1. i \in 1 .. k - 1 /\ i <= Len(a)
      BY <1>1, <1>5, <2>2
    <3> QED BY <1>5, <1>7, <2>1, <2>2, <3>1
  <2>3. CASE ~(i < k)
    <3>1. i - Len(a) \in 1 .. Len(s) - k /\ ~(i <= Len(a)) /\ k + (i - Len(a)) = i + 1
      BY <1>1, <1>5, <1>6, <1>8, <2>3
    <3> QED BY <1>6, <1>7, <2>1, <2>3, <3>1
  <2> QED BY <2>2, <2>3
<1> QED BY <1>4, <1>7, <1>8, <1>9 DEF r


\* x comes before y in s.
Before(s, x, y) == \E i, j \in DOMAIN s : i < j /\ s[i] = x /\ s[j] = y

LEMMA RemovalKeeps ==
  ASSUME NEW S, NEW s \in Seq(S), IsInjective(s), NEW e
  PROVE  LET r == RemoveFirst(s, e) IN
         /\ r \in Seq(S) /\ IsInjective(r)
         /\ ToSet(r) = ToSet(s) \ {e}
         /\ \A x, y : Before(r, x, y) => Before(s, x, y) /\ x # e /\ y # e
<1> DEFINE r == RemoveFirst(s, e)
<1>1. PICK n \in Nat : n = Len(s) /\ DOMAIN s = 1 .. n
  BY LenProperties
<1>2. CASE \A k \in 1 .. n : s[k] # e
  <2>1. r = s
    BY <1>1, <1>2 DEF RemoveFirst
  <2> HIDE DEF r
  <2>2. ToSet(r) = ToSet(s) \ {e}
    BY <1>1, <1>2, <2>1 DEF ToSet
  <2>3. \A x, y : Before(r, x, y) => Before(s, x, y) /\ x # e /\ y # e
    BY <1>1, <1>2, <2>1 DEF Before
  <2> QED BY <2>1, <2>2, <2>3 DEF r
<1>3. ASSUME NEW k \in 1 .. n, s[k] = e
      PROVE  /\ r \in Seq(S) /\ IsInjective(r)
             /\ ToSet(r) = ToSet(s) \ {e}
             /\ \A x, y : Before(r, x, y) => Before(s, x, y) /\ x # e /\ y # e
  <2>1. /\ r \in Seq(S) /\ Len(r) = Len(s) - 1
        /\ \A i \in 1 .. Len(r) : r[i] = IF i < k THEN s[i] ELSE s[i + 1]
    BY <1>1, <1>3, Removal
  <2> HIDE DEF r
  <2> DEFINE up(i) == IF i < k THEN i ELSE i + 1
             down(i) == IF i < k THEN i ELSE i - 1
  <2>2. DOMAIN r = 1 .. n - 1 /\ \A i \in 1 .. n - 1 : r[i] = s[up(i)]
    BY <1>1, <2>1, LenProperties
  <2>3. /\ \A i \in 1 .. n - 1 : up(i) \in (1 .. n) \ {k}
        /\ \A i, j \in 1 .. n - 1 : (up(i) = up(j) => i = j) /\ (i < j => up(i) < up(j))
        /\ \A i \in (1 .. n) \ {k} : down(i) \in 1 .. n - 1 /\ up(down(i)) = i
    BY <1>1
  <2> HIDE DEF up, down
  <2>4. \A i, j \in 1 .. n : s[i] = s[j] => i = j
    BY <1>1 DEF IsInjective
  <2>5. ASSUME NEW i \in 1 .. n - 1, NEW j \in 1 .. n - 1, r[i] = r[j] PROVE i = j
    <3>1. up(i) \in 1 .. n /\ up(j) \in 1 .. n /\ s[up(i)] = s[up(j)]
      BY <2>2, <2>3, <2>5
    <3>2. up(i) = up(j)
      BY <2>4, <3>1
    <3> QED BY <2>3, <3>2
  <2>6. ToSet(r) = ToSet(s) \ {e}
    <3>1. ASSUME NEW x \in ToSet(r) PROVE x \in ToSet(s) \ {e}
      <4>1. PICK i \in 1 .. n - 1 : x = s[up(i)]
        BY <2>2, <3>1 DEF ToSet
      <4>2. up(i) \in 1 .. n /\ up(i) # k
        BY <2>3
      <4> QED BY <1>1, <1>3, <2>4, <4>1, <4>2 DEF ToSet
    <3>2. ASSUME NEW x \in ToSet(s) \ {e} PROVE x \in ToSet(r)
      <4>1. PICK i \in (1 .. n) \ {k} : x = s[i]
        BY <1>1, <1>3, <3>2 DEF ToSet
      <4>2. down(i) \in 1 .. n - 1 /\ r[down(i)] = s[i]
        BY <2>2, <2>3
      <4> QED BY <2>2, <4>1, <4>2 DEF ToSet
    <3> QED BY <3>1, <3>2
  <2>7. ASSUME NEW x, NEW y, Before(r, x, y)
        PROVE  Before(s, x, y) /\ x # e /\ y # e
    <3>1. PICK i, j \in 1 .. n - 1 : i < j /\ r[i] = x /\ r[j] = y
      BY <2>2, <2>7 DEF Before
    <3>2. /\ up(i) \in DOMAIN s /\ up(j) \in DOMAIN s /\ up(i) < up(j)
          /\ s[up(i)] = x /\ s[up(j)] = y
      BY <1>1, <2>2, <2>3, <3>1
    <3>3. x \in ToSet(r) /\ y \in ToSet(r)
      BY <2>2, <3>1 DEF ToSet
    <3> QED BY <2>6, <3>2, <3>3 DEF Before
  <2> QED BY <2>1, <2>2, <2>5, <2>6, <2>7 DEF IsInjective
<1> QED BY <1>2, <1>3 DEF r

\* A new first element.
LEMMA Preceded ==
  ASSUME NEW S, NEW s \in Seq(S), IsInjective(s), NEW e \in S, e \notin ToSet(s)
  PROVE  LET r == <<e>> \o s IN
         /\ r \in Seq(S) /\ IsInjective(r)
         /\ ToSet(r) = ToSet(s) \cup {e}
         /\ \A x, y : Before(r, x, y) => x = e \/ Before(s, x, y)
<1> DEFINE r == <<e>> \o s
<1>1. PICK n \in Nat : n = Len(s) /\ DOMAIN s = 1 .. n
  BY LenProperties
<1>2. <<e>> \in Seq(S) /\ Len(<<e>>) = 1 /\ <<e>>[1] = e
  OBVIOUS
<1>3. /\ r \in Seq(S) /\ Len(r) = 1 + n
      /\ \A i \in 1 .. 1 + n : r[i] = IF i <= 1 THEN <<e>>[i] ELSE s[i - 1]
  BY <1>1, <1>2, ConcatProperties
<1> HIDE DEF r
<1>4. DOMAIN r = 1 .. n + 1
  BY <1>3, LenProperties
<1>5. \A i \in 1 .. n + 1 : r[i] = IF i = 1 THEN e ELSE s[i - 1]
  BY <1>2, <1>3
<1>6. /\ \A i \in 1 .. n : s[i] # e
      /\ \A i, j \in 1 .. n : s[i] = s[j] => i = j
  BY <1>1 DEF ToSet, IsInjective
<1>7. \A i \in 1 .. n + 1 : i # 1 => i - 1 \in 1 .. n
  BY <1>1
<1>8. ASSUME NEW i \in 1 .. n + 1, NEW j \in 1 .. n + 1, r[i] = r[j] PROVE i = j
  <2>1. CASE i = 1 \/ j = 1
    BY <1>5, <1>6, <1>7, <1>8, <2>1
  <2>2. CASE i # 1 /\ j # 1
    <3>1. i - 1 = j - 1
      BY <1>5, <1>6, <1>7, <1>8, <2>2
    <3> QED BY <1>1, <3>1
  <2> QED BY <2>1, <2>2
<1>9. ToSet(r) = ToSet(s) \cup {e}
  <2>1. ASSUME NEW x \in ToSet(r) PROVE x \in ToSet(s) \cup {e}
    BY <1>1, <1>4, <1>5, <1>7, <2>1 DEF ToSet
  <2>2. ASSUME NEW x \in ToSet(s) PROVE x \in ToSet(r)
    <3>1. PICK i \in 1 .. n : x = s[i]
      BY <1>1, <2>2 DEF ToSet
    <3>2. i + 1 \in 1 .. n + 1 /\ i + 1 # 1 /\ i + 1 - 1 = i
      BY <1>1
    <3>3. r[i + 1] = s[i]
      BY <1>5, <3>2
    <3> QED BY <1>4, <3>1, <3>2, <3>3 DEF ToSet
  <2>3. e \in ToSet(r)
    <3>1. 1 \in 1 .. n + 1
      BY <1>1
    <3> QED BY <1>4, <1>5, <3>1 DEF ToSet
  <2> QED BY <2>1, <2>2, <2>3
<1>10. ASSUME NEW x, NEW y, Before(r, x, y), x # e PROVE Before(s, x, y)
  <2>1. PICK i, j \in 1 .. n + 1 : i < j /\ r[i] = x /\ r[j] = y
    BY <1>4, <1>10 DEF Before
  <2>2. i # 1 /\ j # 1
    BY <1>1, <1>5, <1>10, <2>1
  <2>3. i - 1 \in 1 .. n /\ j - 1 \in 1 .. n /\ i - 1 < j - 1
    BY <1>1, <1>7, <2>1, <2>2
  <2>4. s[i - 1] = x /\ s[j - 1] = y
    BY <1>5, <2>1, <2>2
  <2> QED BY <1>1, <2>3, <2>4 DEF Before
<1> QED BY <1>3, <1>4, <1>8, <1>9, <1>10 DEF r, IsInjective

\* What is beyond the first k takes with every element all that follow it.
LEMMA Suffix ==
  ASSUME NEW S, NEW s \in Seq(S), IsInjective(s), NEW k \in Nat
  PROVE  LET r == SubSeq(s, k + 1, Len(s)) IN
         /\ r \in Seq(S)
         /\ \A x, y : Before(s, x, y) /\ x \in ToSet(r) => y \in ToSet(r)
<1> DEFINE r == SubSeq(s, k + 1, Len(s))
<1>1. PICK n \in Nat : n = Len(s) /\ DOMAIN s = 1 .. n
  BY LenProperties
<1>2. k + 1 \in Int /\ \A i \in k + 1 .. n : s[i] \in S
  <2>1. \A i \in k + 1 .. n : i \in 1 .. n
    BY <1>1
  <2> QED BY <1>1, <2>1, ElementOfSeq
<1>3. /\ r \in Seq(S) /\ Len(r) = IF k + 1 <= n THEN n - (k + 1) + 1 ELSE 0
      /\ \A i \in 1 .. n - (k + 1) + 1 : r[i] = s[k + 1 + i - 1]
  BY <1>1, <1>2, SubSeqProperties
<1> HIDE DEF r
<1>4. DOMAIN r = 1 .. n - k
  <2>1. DOMAIN r = 1 .. Len(r)
    BY <1>3, LenProperties
  <2>2. CASE k + 1 <= n
    <3>1. Len(r) = n - k
      BY <1>3, <2>2
    <3> QED BY <2>1, <3>1
  <2>3. CASE ~(k + 1 <= n)
    <3>1. Len(r) = 0 /\ 1 .. n - k = {} /\ 1 .. 0 = {}
      BY <1>3, <2>3
    <3> QED BY <2>1, <3>1
  <2> QED BY <2>2, <2>3
<1>5. \A i \in 1 .. n - k : r[i] = s[k + i]
  <2>1. \A i \in 1 .. n - k : i \in 1 .. n - (k + 1) + 1 /\ k + 1 + i - 1 = k + i
    BY <1>1
  <2> QED BY <1>3, <2>1
<1>6. ASSUME NEW x, NEW y, Before(s, x, y), x \in ToSet(r) PROVE y \in ToSet(r)
  <2>1. PICK i, j \in 1 .. n : i < j /\ s[i] = x /\ s[j] = y
    BY <1>1, <1>6 DEF Before
  <2>2. PICK h \in 1 .. n - k : x = s[k + h]
    BY <1>4, <1>5, <1>6 DEF ToSet
  <2>3. k + h \in 1 .. n
    BY <1>1
  <2>4. i = k + h
    BY <1>1, <2>1, <2>2, <2>3 DEF IsInjective
  <2>5. j - k \in 1 .. n - k /\ k + (j - k) = j
    BY <1>1, <2>1, <2>4
  <2>6. r[j - k] = y
    BY <1>5, <2>1, <2>5
  <2> QED BY <1>4, <2>5, <2>6 DEF ToSet
<1> QED BY <1>3, <1>6 DEF r

LEMMA TailSet ==
  ASSUME NEW S, NEW s \in Seq(S), s # <<>>
  PROVE  /\ Head(s) \in S /\ Tail(s) \in Seq(S)
         /\ ToSet(s) \ {Head(s)} \subseteq ToSet(Tail(s))
         /\ ToSet(Tail(s)) \subseteq ToSet(s)
<1>1. PICK n \in Nat : n = Len(s) /\ DOMAIN s = 1 .. n
  BY LenProperties
<1>2. /\ Head(s) \in S /\ Tail(s) \in Seq(S) /\ Len(Tail(s)) = n - 1
      /\ \A i \in 1 .. Len(Tail(s)) : Tail(s)[i] = s[i + 1]
  BY <1>1, HeadTailProperties
<1>3. DOMAIN Tail(s) = 1 .. n - 1
  BY <1>2, LenProperties
<1>4. Head(s) = s[1]
  OBVIOUS
<1>5. ASSUME NEW x \in ToSet(s), x # Head(s) PROVE x \in ToSet(Tail(s))
  <2>1. PICK i \in 1 .. n : x = s[i]
    BY <1>1, <1>5 DEF ToSet
  <2>2. i - 1 \in 1 .. n - 1 /\ (i - 1) + 1 = i
    BY <1>1, <1>4, <1>5, <2>1
  <2> QED BY <1>2, <1>3, <2>1, <2>2 DEF ToSet
<1>6. ASSUME NEW x \in ToSet(Tail(s)) PROVE x \in ToSet(s)
  <2>1. PICK i \in 1 .. n - 1 : x = s[i + 1]
    BY <1>2, <1>3, <1>6 DEF ToSet
  <2>2. i + 1 \in 1 .. n
    BY <1>1
  <2> QED BY <1>1, <2>1, <2>2 DEF ToSet
<1> QED BY <1>2, <1>5, <1>6

-------------------------------------------------------------------------------
(***************************************************************************)
(* Intervals and delays.                                                   *)
(***************************************************************************)
\* A finite set of numbers has a largest one: of the sets of those above a
\* member, the smallest is empty.
LEMMA HasLargest ==
  ASSUME NEW S \in SUBSET Nat, IsFiniteSet(S), S # {}
  PROVE  \E n \in S : \A m \in S : n >= m
<1> DEFINE Above(n) == {m \in S : m > n}
           T == {Above(n) : n \in S}
<1>1. T \subseteq FiniteSubsetsOf(S) /\ T # {}
  <2>1. \A n \in S : Above(n) \in SUBSET S /\ IsFiniteSet(Above(n))
    BY FS_Subset
  <2> QED BY <2>1 DEF FiniteSubsetsOf
<1>2. PICK U \in T : \A V \in T : <<V, U>> \notin StrictSubsetOrdering(S)
  <2> HIDE DEF T
  <2> QED BY <1>1, FS_StrictSubsetOrderingWellFounded, WFMin
<1>3. PICK n \in S : U = Above(n)
  OBVIOUS
<1>4. ASSUME NEW m \in S, m > n PROVE FALSE
  <2>1. Above(m) \in T
    OBVIOUS
  <2>2. Above(m) \subseteq U /\ m \in U /\ m \notin Above(m)
    <3>1. \A k \in S : k > m => k > n
      BY <1>4
    <3>2. Above(m) \subseteq Above(n) /\ m \in Above(n)
      BY <1>4, <3>1
    <3>3. ~(m > m)
      OBVIOUS
    <3>4. m \notin Above(m)
      BY <3>3
    <3> HIDE DEF Above
    <3> QED BY <1>3, <3>2, <3>4
  <2>3. <<Above(m), U>> \in StrictSubsetOrdering(S)
    BY <1>3, <2>2 DEF StrictSubsetOrdering
  <2> QED BY <1>2, <2>1, <2>3
<1>5. \A m \in S : n >= m
  BY <1>4
<1> QED BY <1>5

LEMMA LongestBounds ==
  /\ Longest \in Nat /\ Longest \in Intervals /\ Off \in Nat
  /\ \A i \in Intervals : i \in Nat /\ i <= Longest /\ i # Off
<1>1. Intervals \in SUBSET Nat /\ IsFiniteSet(Intervals) /\ Intervals # {}
  BY BackupAssumption DEF BackupAssumption
<1>2. \E n \in Intervals : \A m \in Intervals : n >= m
  BY <1>1, HasLargest
<1>3. Longest \in Intervals /\ \A m \in Intervals : Longest >= m
  BY <1>2 DEF Longest, Max
<1> HIDE DEF Longest
<1> QED BY <1>1, <1>3 DEF Off

SnapsOK == snaps \in Seq(Names) /\ IsInjective(snaps)

AgeOK == age \in [Names -> 0 .. Longest]

\* A timer is off exactly when the schedule is.
LEMMA Delays ==
  ASSUME NEW i \in Intervals
  PROVE  /\ Timer(i) \in 0 .. Off /\ (Timer(i) = Off <=> i = 0)
         /\ SnapsOK /\ AgeOK =>
              InitialDelay(i) \in 0 .. Off /\ (InitialDelay(i) = Off <=> i = 0)
<1>1. i \in Nat /\ i <= Longest /\ i # Off /\ Longest \in Nat /\ Off = Longest + 1
  BY LongestBounds DEF Off
<1>2. Timer(i) \in 0 .. Off /\ (Timer(i) = Off <=> i = 0)
  BY <1>1 DEF Timer
<1>3. ASSUME SnapsOK, AgeOK
      PROVE  InitialDelay(i) \in 0 .. Off /\ (InitialDelay(i) = Off <=> i = 0)
  <2>1. CASE i = 0
    BY <1>1, <2>1 DEF InitialDelay
  <2>2. CASE i # 0 /\ snaps = <<>>
    BY <1>1, <2>2 DEF InitialDelay
  <2>3. CASE i # 0 /\ snaps # <<>>
    <3> DEFINE a == age[Head(snaps)]
    <3>1. Head(snaps) \in Names
      BY <1>3, <2>3, TailSet DEF SnapsOK
    <3>2. a \in 0 .. Longest
      BY <1>3, <3>1 DEF AgeOK
    <3>3. InitialDelay(i) = IF a >= i THEN 0 ELSE i - a
      BY <2>3 DEF InitialDelay
    <3> HIDE DEF a
    <3> QED BY <1>1, <2>3, <3>2, <3>3
  <2> QED BY <2>1, <2>2, <2>3
<1> QED BY <1>2, <1>3

-------------------------------------------------------------------------------
(***************************************************************************)
(* The types, in four parts that change apart from one another.            *)
(***************************************************************************)
FolderOK == SnapsOK /\ AgeOK /\ whole \subseteq Names /\ bare \subseteq Names

RunnerOK ==
  /\ interval \in Intervals /\ keep \in Keeps
  /\ changed \subseteq Intervals /\ timer \in 0 .. Off

\* Whoever writes has a name for it.
TakingOK ==
  /\ at \in [Takers -> Steps] /\ own \in [Takers -> Names \cup {"none"}]
  /\ victims \in [Takers -> Seq(Names)]
  /\ \A t \in Takers : at[t] \in {"write", "copy"} => own[t] \in Names

FilesOK ==
  /\ phase \in {"down", "aside", "up", "stopping"}
  /\ live \in {"none", "cut", "current", "snapshot"}
  /\ displaced \in {"none", "cut", "current", "earlier", "snapshot"}
  /\ staged \in {"none", "cut", "snapshot"}
  /\ used \in 0 .. MaxUsed

Typed == FolderOK /\ RunnerOK /\ TakingOK /\ FilesOK

LEMMA TypedSuffices == Typed => BackupTypeOK
BY DEF Typed, FolderOK, SnapsOK, AgeOK, RunnerOK, TakingOK, FilesOK, BackupTypeOK

LEMMA ForgetsKeeps ==
  ASSUME FolderOK, NEW n, Forgets(n)
  PROVE  /\ FolderOK'
         /\ ToSet(snaps') = ToSet(snaps) \ {n}
         /\ \A x, y : Before(snaps', x, y) => Before(snaps, x, y) /\ x # n /\ y # n
<1>1. /\ snaps' \in Seq(Names) /\ IsInjective(snaps')
      /\ ToSet(snaps') = ToSet(snaps) \ {n}
      /\ \A x, y : Before(snaps', x, y) => Before(snaps, x, y) /\ x # n /\ y # n
  BY RemovalKeeps DEF Forgets, FolderOK, SnapsOK
<1>2. age' \in [Names -> 0 .. Longest]
  <2>1. 0 \in 0 .. Longest
    BY LongestBounds
  <2>2. age \in [Names -> 0 .. Longest] /\ age' = [age EXCEPT ![n] = 0]
    BY DEF Forgets, FolderOK, AgeOK
  <2> QED BY <2>1, <2>2
<1>3. whole' \subseteq Names /\ bare' \subseteq Names
  BY DEF Forgets, FolderOK
<1> QED BY <1>1, <1>2, <1>3 DEF FolderOK, SnapsOK, AgeOK

LEMMA MovesKeeps ==
  ASSUME TakingOK, NEW t \in Takers, NEW next \in Steps, Moves(t, next)
  PROVE  /\ at' \in [Takers -> Steps] /\ at'[t] = next
         /\ \A u \in Takers : u # t => at'[u] = at[u]
BY DEF TakingOK, Moves

LEMMA BeginsKeeps ==
  ASSUME FolderOK, TakingOK, NEW t \in Takers, Begins(t)
  PROVE  /\ FolderOK' /\ TakingOK'
         /\ at'[t] = "write" /\ own'[t] \in Free
         /\ \A u \in Takers : u # t => at'[u] = at[u] /\ own'[u] = own[u]
         /\ ToSet(snaps') = ToSet(snaps) \cup {own'[t]} /\ whole \ {own'[t]} \subseteq whole'
         /\ \A x, y : Before(snaps', x, y) => x = own'[t] \/ Before(snaps, x, y)
<1> DEFINE n == CHOOSE n \in Free : TRUE
<1>1. n \in Free
  BY DEF Begins
<1>2. /\ snaps' = <<n>> \o snaps /\ own' = [own EXCEPT ![t] = n]
      /\ whole' = whole \ {n} /\ bare' = bare \ {n}
  BY DEF Begins
<1> HIDE DEF n
<1>3. n \in Names /\ n \notin ToSet(snaps)
  BY <1>1 DEF Free
<1>4. /\ snaps' \in Seq(Names) /\ IsInjective(snaps')
      /\ ToSet(snaps') = ToSet(snaps) \cup {n}
      /\ \A x, y : Before(snaps', x, y) => x = n \/ Before(snaps, x, y)
  BY <1>2, <1>3, Preceded DEF FolderOK, SnapsOK
<1>5. /\ own' \in [Takers -> Names \cup {"none"}] /\ own'[t] = n
      /\ \A u \in Takers : u # t => own'[u] = own[u]
  BY <1>2, <1>3 DEF TakingOK
<1>6. /\ at' \in [Takers -> Steps] /\ at'[t] = "write"
      /\ \A u \in Takers : u # t => at'[u] = at[u]
  BY MovesKeeps DEF Begins, Steps
<1>7. FolderOK'
  BY <1>2, <1>4 DEF Begins, FolderOK, SnapsOK, AgeOK
<1>8. \A u \in Takers : at'[u] \in {"write", "copy"} => own'[u] \in Names
  BY <1>3, <1>5, <1>6 DEF TakingOK
<1>9. TakingOK'
  BY <1>5, <1>6, <1>8 DEF Begins, TakingOK
<1> QED BY <1>1, <1>2, <1>4, <1>5, <1>6, <1>7, <1>9

LEMMA EndsKeeps ==
  ASSUME TakingOK, NEW t \in Takers, Ends(t), UNCHANGED victims
  PROVE  TakingOK' /\ at'[t] = "idle" /\ \A u \in Takers : u # t => at'[u] = at[u] /\ own'[u] = own[u]
<1>1. /\ at' \in [Takers -> Steps] /\ at'[t] = "idle"
      /\ \A u \in Takers : u # t => at'[u] = at[u]
  BY MovesKeeps DEF Ends, Steps
<1>2. /\ own' \in [Takers -> Names \cup {"none"}]
      /\ \A u \in Takers : u # t => own'[u] = own[u]
  BY DEF Ends, TakingOK
<1>3. \A u \in Takers : at'[u] \in {"write", "copy"} => own'[u] \in Names
  BY <1>1, <1>2 DEF TakingOK
<1> QED BY <1>1, <1>2, <1>3 DEF TakingOK

LEMMA CountsKeeps == ASSUME FilesOK, Counts PROVE used' \in 0 .. MaxUsed
BY BackupAssumption DEF FilesOK, Counts, BackupAssumption

LEMMA RunsOnceKeepsTypes ==
  ASSUME Typed, NEW t \in Takers, RunsOnce(t)
  PROVE  Typed'
<1> USE DEF Typed
<1>1. RunnerOK'
  BY DEF RunsOnce, Writes, WriteFails, CopiesConfig, Prunes, Removes, Pruned, RunnerOK, runner
<1>2. FilesOK'
  <2>1. UNCHANGED <<phase, files>>
    BY DEF RunsOnce, Writes, WriteFails, CopiesConfig, Prunes, Removes, Pruned
  <2>2. UNCHANGED used \/ Counts
    BY DEF RunsOnce, Writes, WriteFails, CopiesConfig, Prunes, Removes, Pruned
  <2> QED BY <2>1, <2>2, CountsKeeps DEF FilesOK, files
<1>3. FolderOK'
  <2>1. CASE Writes(t)
    <3>1. own[t] \in Names
      BY <2>1 DEF Writes, TakingOK
    <3> QED BY <2>1, <3>1 DEF Writes, FolderOK, SnapsOK, AgeOK
  <2>2. CASE WriteFails(t)
    BY <2>2, ForgetsKeeps DEF WriteFails, FolderOK, SnapsOK, AgeOK, folder
  <2>3. CASE CopiesConfig(t)
    <3>1. own[t] \in Names
      BY <2>3 DEF CopiesConfig, TakingOK
    <3> QED BY <2>3, <3>1 DEF CopiesConfig, FolderOK, SnapsOK, AgeOK
  <2>4. CASE Prunes(t) \/ Pruned(t)
    BY <2>4 DEF Prunes, Pruned, FolderOK, SnapsOK, AgeOK, folder
  <2>5. CASE Removes(t)
    <3> DEFINE n == Head(victims[t])
    <3>1. CASE Forgets(n)
      BY <3>1, ForgetsKeeps
    <3>2. CASE UNCHANGED <<snaps, age, whole>> /\ bare' = IF n \in ToSet(snaps) THEN bare \cup {n} ELSE bare
      <4>1. n \in Names
        BY <2>5, TailSet DEF Removes, TakingOK
      <4> QED BY <3>2, <4>1 DEF FolderOK, SnapsOK, AgeOK
    <3> QED BY <2>5, <3>1, <3>2 DEF Removes
  <2> QED BY <2>1, <2>2, <2>3, <2>4, <2>5 DEF RunsOnce
<1>4. TakingOK'
  <2>1. CASE Removes(t)
    <3>1. victims[t] \in Seq(Names) /\ victims[t] # <<>>
      BY <2>1 DEF Removes, TakingOK
    <3>2. Tail(victims[t]) \in Seq(Names) /\ <<>> \in Seq(Names)
      BY <3>1, TailSet
    <3>3. victims' \in [Takers -> Seq(Names)]
      BY <2>1, <3>2 DEF Removes, TakingOK
    <3> QED BY <2>1, <3>3 DEF Removes, TakingOK
  <2>2. CASE Prunes(t)
    <3>1. Beyond(keep) \in Seq(Names)
      BY Suffix, BackupAssumption DEF Beyond, FolderOK, SnapsOK, RunnerOK, BackupAssumption
    <3>2. victims' \in [Takers -> Seq(Names)]
      BY <2>2, <3>1 DEF Prunes, TakingOK
    <3> QED BY <2>2, <3>2, MovesKeeps DEF Prunes, TakingOK, Steps
  <2>3. CASE Writes(t) \/ WriteFails(t) \/ CopiesConfig(t) \/ Pruned(t)
    <3>1. PICK next \in {"copy", "over", "prune"} : Moves(t, next) /\ (next = "copy" => own[t] \in Names)
      BY <2>3 DEF Writes, WriteFails, CopiesConfig, Pruned, TakingOK
    <3>2. UNCHANGED <<own, victims>>
      BY <2>3 DEF Writes, WriteFails, CopiesConfig, Pruned
    <3> QED BY <3>1, <3>2, MovesKeeps DEF TakingOK, Steps
  <2> QED BY <2>1, <2>2, <2>3 DEF RunsOnce
<1> QED BY <1>1, <1>2, <1>3, <1>4

\* The steps of the scheduler and of requests.
Scheduling ==
  \/ Fires \/ Rearms \/ HearsChange \/ RunBackupNow \/ Answers
  \/ \E i \in Intervals, k \in Keeps : SetConfig(i, k)
  \/ \E n \in Names : DeleteBackup(n)

LEMMA SchedulingKeepsTypes ==
  ASSUME Typed, Scheduling
  PROVE  Typed'
<1> USE DEF Typed
<1>1. "schedule" \in Takers /\ (OnRequest => "request" \in Takers)
  BY DEF Takers
<1>2. Off \in 0 .. Off
  BY LongestBounds
<1>3. CASE Fires
  <2>1. RunnerOK' /\ FilesOK'
    BY <1>2, <1>3 DEF Fires, RunnerOK, FilesOK, files
  <2>2. CASE Begins("schedule")
    BY <1>1, <2>1, <2>2, BeginsKeeps
  <2>3. CASE Moves("schedule", "over") /\ UNCHANGED <<folder, own, victims>>
    BY <1>1, <2>1, <2>3, MovesKeeps
    DEF TakingOK, FolderOK, SnapsOK, AgeOK, folder, Steps
  <2> QED BY <1>3, <2>2, <2>3 DEF Fires
<1>4. CASE Rearms
  <2>1. TakingOK'
    BY <1>1, <1>4, EndsKeeps DEF Rearms
  <2>2. RunnerOK'
    BY <1>4, Delays DEF Rearms, RunnerOK
  <2> QED BY <1>4, <2>1, <2>2 DEF Rearms, FolderOK, SnapsOK, AgeOK, folder, FilesOK, files
<1>5. CASE HearsChange
  <2>1. RunnerOK'
    BY <1>5, Delays DEF HearsChange, RunnerOK, FolderOK
  <2> QED BY <1>5, <2>1
    DEF HearsChange, FolderOK, SnapsOK, AgeOK, folder, TakingOK, taking, FilesOK, files
<1>6. CASE RunBackupNow
  <2>1. FolderOK' /\ TakingOK'
    BY <1>1, <1>6, BeginsKeeps DEF RunBackupNow
  <2>2. used' \in 0 .. MaxUsed
    BY <1>6, CountsKeeps DEF RunBackupNow
  <2> QED BY <1>6, <2>1, <2>2 DEF RunBackupNow, RunnerOK, runner, FilesOK, files
<1>7. CASE Answers
  <2>1. TakingOK'
    BY <1>1, <1>7, EndsKeeps DEF Answers
  <2> QED BY <1>7, <2>1
    DEF Answers, FolderOK, SnapsOK, AgeOK, folder, RunnerOK, runner, FilesOK, files
<1>8. ASSUME NEW i \in Intervals, NEW k \in Keeps, SetConfig(i, k) PROVE Typed'
  <2>1. RunnerOK'
    BY <1>8 DEF SetConfig, RunnerOK
  <2> QED BY <1>8, <2>1
    DEF SetConfig, FolderOK, SnapsOK, AgeOK, folder, TakingOK, taking, FilesOK, files
<1>9. ASSUME NEW n \in Names, DeleteBackup(n) PROVE Typed'
  <2>1. FolderOK'
    BY <1>9, ForgetsKeeps DEF DeleteBackup
  <2> QED BY <1>9, <2>1
    DEF DeleteBackup, RunnerOK, runner, TakingOK, taking, FilesOK, files
<1> QED BY <1>3, <1>4, <1>5, <1>6, <1>7, <1>8, <1>9 DEF Scheduling

\* The steps that restore, start and stop.
Moving == Restoring \/ Stops \/ Starts

LEMMA MovingKeepsTypes ==
  ASSUME Typed, Moving
  PROVE  Typed'
<1> USE DEF Typed
<1>1. Off \in 0 .. Off
  BY LongestBounds
<1>2. CASE Restoring
  <2>1. UNCHANGED <<folder, runner, taking>>
    BY <1>2 DEF Restoring, StageRestore, SetsAside, MovesIn, StartCrashes, Staged
  <2>2. FilesOK'
    BY <1>2 DEF Restoring, StageRestore, SetsAside, MovesIn, StartCrashes, Staged, FilesOK, files
  <2> QED BY <2>1, <2>2
    DEF FolderOK, SnapsOK, AgeOK, folder, RunnerOK, runner, TakingOK, taking
<1>3. CASE Stops
  <2>1. FilesOK'
    BY <1>3, CountsKeeps DEF Stops, FilesOK
  <2>2. TakingOK'
    BY <1>3 DEF Stops, TakingOK, Steps
  <2> QED BY <1>1, <1>3, <2>1, <2>2 DEF Stops, FolderOK, SnapsOK, AgeOK, folder, RunnerOK
<1>4. CASE Starts
  <2>1. RunnerOK'
    BY <1>4, Delays DEF Starts, RunnerOK, FolderOK
  <2>2. FilesOK'
    BY <1>4 DEF Starts, FilesOK
  <2> QED BY <1>4, <2>1, <2>2 DEF Starts, FolderOK, SnapsOK, AgeOK, folder, TakingOK, taking
<1> QED BY <1>2, <1>3, <1>4 DEF Moving

LEMMA TicksKeepTypes ==
  ASSUME Typed, Ticks
  PROVE  Typed'
<1> USE DEF Typed
<1>1. Longest \in Nat /\ Off = Longest + 1
  BY LongestBounds DEF Off
<1>2. ASSUME NEW a \in 0 .. Longest, a < Longest PROVE a + 1 \in 0 .. Longest
  BY <1>1, <1>2
<1>3. age' \in [Names -> 0 .. Longest]
  BY <1>2 DEF Ticks, FolderOK, AgeOK
<1>4. timer' \in 0 .. Off
  BY <1>1 DEF Ticks, RunnerOK
<1> QED BY <1>3, <1>4
  DEF Ticks, FolderOK, SnapsOK, AgeOK, RunnerOK, TakingOK, taking, FilesOK, files

LEMMA NextSplits == BackupNext => (\E t \in Takers : RunsOnce(t)) \/ Scheduling \/ Moving \/ Ticks
BY DEF BackupNext, Scheduling, Moving

LEMMA InitTyped == BackupInit => Typed
<1> SUFFICES ASSUME BackupInit PROVE Typed
  OBVIOUS
<1>1. 0 \in 0 .. Longest
  BY LongestBounds
<1>2. SnapsOK /\ AgeOK
  BY <1>1 DEF BackupInit, SnapsOK, AgeOK, IsInjective
<1>3. RunnerOK
  BY <1>2, Delays DEF BackupInit, RunnerOK
<1>4. TakingOK
  BY DEF BackupInit, TakingOK, Steps
<1>5. FilesOK
  BY BackupAssumption DEF BackupInit, FilesOK, BackupAssumption
<1> QED BY <1>2, <1>3, <1>4, <1>5 DEF BackupInit, Typed, FolderOK

LEMMA NextKeepsTypes == Typed /\ [BackupNext]_backupVars => Typed'
<1> SUFFICES ASSUME Typed, [BackupNext]_backupVars PROVE Typed'
  OBVIOUS
<1>1. CASE BackupNext
  BY <1>1, NextSplits, RunsOnceKeepsTypes, SchedulingKeepsTypes, MovingKeepsTypes, TicksKeepTypes
<1>2. CASE UNCHANGED backupVars
  BY <1>2 DEF Typed, FolderOK, SnapsOK, AgeOK, RunnerOK, TakingOK, FilesOK,
              backupVars, folder, runner, taking, files
<1> QED BY <1>1, <1>2

\* Snapshots, schedule, steps and files have their types at all times: no
\* snapshot is written over another one, and the timer never waits for more
\* than an interval (BackupTo, initialDelay).
THEOREM BackupTypes == BackupSpec => []BackupTypeOK
<1> QED BY InitTyped, NextKeepsTypes, TypedSuffices, PTL DEF BackupSpec

-------------------------------------------------------------------------------
(***************************************************************************)
(* What prunes remove.                                                     *)
(***************************************************************************)
\* Only a prune has names to remove ...
Listed == \A t \in Takers : at[t] # "remove" => victims[t] = <<>>

\* ... only a backup that has succeeded gets to prune ...
Succeeded ==
  \A t \in Takers :
    at[t] \in {"copy", "prune", "remove"} /\ own[t] \in ToSet(snaps) => own[t] \in whole

\* ... and whatever follows a name to remove is to be removed as well.
Downwards ==
  \A t \in Takers : \A x, y :
    Before(snaps, x, y) /\ x \in ToSet(victims[t]) => y \in ToSet(victims[t])

PruneInv == Listed /\ Succeeded /\ Downwards

LEMMA PruneInvSuffices == Typed /\ PruneInv => PruneTradesUp
<1> SUFFICES ASSUME Typed, PruneInv, NEW t \in Takers
             PROVE  LET gone == ToSet(victims[t]) IN
                    /\ gone # {} /\ own[t] \in ToSet(snaps) => own[t] \in whole
                    /\ \A i, j \in DOMAIN snaps : i < j /\ snaps[i] \in gone => snaps[j] \in gone
  BY DEF PruneTradesUp
<1>1. ToSet(<<>>) = {}
  BY DEF ToSet
<1>2. ToSet(victims[t]) # {} => at[t] = "remove"
  BY <1>1 DEF PruneInv, Listed
<1>3. \A i, j \in DOMAIN snaps : i < j => Before(snaps, snaps[i], snaps[j])
  BY DEF Before
<1> QED BY <1>2, <1>3 DEF PruneInv, Succeeded, Downwards

\* A snapshot that goes, by whatever hand, disturbs no prune.
LEMMA ForgettingKeepsPrunes ==
  ASSUME Typed, PruneInv, NEW n, Forgets(n), UNCHANGED own,
         \A t \in Takers : at'[t] \in {"copy", "prune", "remove"} => at[t] \in {"copy", "prune", "remove"},
         \A t \in Takers : ToSet(victims[t]) \ {n} \subseteq ToSet(victims'[t]),
         \A t \in Takers : ToSet(victims'[t]) \subseteq ToSet(victims[t])
  PROVE  Succeeded' /\ Downwards'
<1>1. /\ ToSet(snaps') = ToSet(snaps) \ {n} /\ whole' = whole \ {n}
      /\ \A x, y : Before(snaps', x, y) => Before(snaps, x, y) /\ x # n /\ y # n
  BY ForgetsKeeps DEF Typed, Forgets
<1>2. Succeeded'
  BY <1>1 DEF PruneInv, Succeeded
<1>3. Downwards'
  BY <1>1 DEF PruneInv, Downwards
<1> QED BY <1>2, <1>3

\* Neither does a new one, which is no name to remove of anybody's.
LEMMA BeginningKeepsPrunes ==
  ASSUME Typed, PruneInv, NEW t \in Takers, Begins(t)
  PROVE  PruneInv'
<1>1. /\ at[t] = "idle" /\ at'[t] = "write" /\ own'[t] \in Free
      /\ \A u \in Takers : u # t => at'[u] = at[u] /\ own'[u] = own[u]
      /\ ToSet(snaps') = ToSet(snaps) \cup {own'[t]} /\ whole \ {own'[t]} \subseteq whole'
      /\ \A x, y : Before(snaps', x, y) => x = own'[t] \/ Before(snaps, x, y)
      /\ victims' = victims
  BY BeginsKeeps DEF Typed, Begins
<1>2. \A u \in Takers : own'[t] # own[u] /\ own'[t] \notin ToSet(victims[u])
  BY <1>1 DEF Free
<1>3. Listed'
  BY <1>1 DEF PruneInv, Listed
<1>4. Succeeded'
  BY <1>1, <1>2 DEF PruneInv, Succeeded
<1>5. Downwards'
  BY <1>1, <1>2 DEF PruneInv, Downwards
<1> QED BY <1>3, <1>4, <1>5 DEF PruneInv

LEMMA RunsOnceKeepsPrunes ==
  ASSUME Typed, PruneInv, NEW t \in Takers, RunsOnce(t)
  PROVE  PruneInv'
<1>1. CASE Writes(t)
  <2>1. /\ at'[t] = "copy" /\ whole' = whole \cup {own[t]} /\ at[t] = "write"
        /\ \A u \in Takers : u # t => at'[u] = at[u]
    BY <1>1, MovesKeeps DEF Writes, Typed, Steps
  <2> QED BY <1>1, <2>1 DEF Writes, PruneInv, Listed, Succeeded, Downwards
<1>2. CASE WriteFails(t)
  <2>1. /\ at'[t] = "over" /\ at[t] = "write" /\ UNCHANGED <<own, victims>>
        /\ \A u \in Takers : u # t => at'[u] = at[u]
    BY <1>2, MovesKeeps DEF WriteFails, Typed, Steps
  <2>2. Listed'
    BY <2>1 DEF PruneInv, Listed
  <2>3. Succeeded' /\ Downwards'
    <3>1. CASE Forgets(own[t])
      BY <2>1, <3>1, ForgettingKeepsPrunes
    <3>2. CASE UNCHANGED folder
      BY <2>1, <3>2 DEF folder, PruneInv, Succeeded, Downwards
    <3> QED BY <1>2, <3>1, <3>2 DEF WriteFails
  <2> QED BY <2>2, <2>3 DEF PruneInv
<1>3. CASE CopiesConfig(t)
  <2>1. /\ at'[t] = "prune" /\ at[t] = "copy"
        /\ \A u \in Takers : u # t => at'[u] = at[u]
    BY <1>3, MovesKeeps DEF CopiesConfig, Typed, Steps
  <2> QED BY <1>3, <2>1 DEF CopiesConfig, PruneInv, Listed, Succeeded, Downwards
<1>4. CASE Prunes(t)
  <2>1. /\ at'[t] = "remove" /\ at[t] = "prune" /\ UNCHANGED <<folder, own>>
        /\ \A u \in Takers : u # t => at'[u] = at[u]
    BY <1>4, MovesKeeps DEF Prunes, Typed, Steps
  <2>2. victims'[t] = Beyond(keep) /\ \A u \in Takers : u # t => victims'[u] = victims[u]
    BY <1>4 DEF Prunes, Typed, TakingOK
  <2>3. \A x, y : Before(snaps, x, y) /\ x \in ToSet(Beyond(keep)) => y \in ToSet(Beyond(keep))
    <3>1. ToSet(<<>>) = {}
      BY DEF ToSet
    <3>2. keep \in Nat
      BY BackupAssumption DEF BackupAssumption, Typed, RunnerOK
    <3> QED BY <3>1, <3>2, Suffix DEF Beyond, Typed, FolderOK, SnapsOK
  <2>4. Listed' /\ Succeeded'
    BY <2>1, <2>2 DEF folder, PruneInv, Listed, Succeeded
  <2>5. Downwards'
    BY <2>1, <2>2, <2>3 DEF folder, PruneInv, Downwards
  <2> QED BY <2>4, <2>5 DEF PruneInv
<1>5. CASE Removes(t)
  <2> DEFINE n == Head(victims[t])
  <2>1. at[t] = "remove" /\ victims[t] # <<>> /\ victims[t] \in Seq(Names) /\ UNCHANGED <<at, own>>
    BY <1>5 DEF Removes, Typed, TakingOK, runner
  <2>2. Listed'
    BY <1>5, <2>1 DEF Removes, PruneInv, Listed, Typed, TakingOK
  <2>3. CASE Forgets(n) /\ victims' = [victims EXCEPT ![t] = Tail(@)]
    <3>1. victims'[t] = Tail(victims[t]) /\ \A u \in Takers : u # t => victims'[u] = victims[u]
      BY <2>3 DEF Typed, TakingOK
    <3>2. /\ ToSet(victims[t]) \ {n} \subseteq ToSet(Tail(victims[t]))
          /\ ToSet(Tail(victims[t])) \subseteq ToSet(victims[t])
      BY <2>1, TailSet
    <3> HIDE DEF n
    <3>3. Succeeded' /\ Downwards'
      BY <2>1, <2>3, <3>1, <3>2, ForgettingKeepsPrunes
    <3> QED BY <2>2, <3>3 DEF PruneInv
  <2>4. CASE UNCHANGED <<snaps, age, whole>> /\ victims' = [victims EXCEPT ![t] = <<>>]
    <3>1. victims'[t] = <<>> /\ \A u \in Takers : u # t => victims'[u] = victims[u]
      BY <2>4 DEF Typed, TakingOK
    <3>2. ToSet(<<>>) = {}
      BY DEF ToSet
    <3> QED BY <2>1, <2>2, <2>4, <3>1, <3>2 DEF PruneInv, Succeeded, Downwards
  <2> QED BY <1>5, <2>3, <2>4 DEF Removes
<1>6. CASE Pruned(t)
  <2>1. /\ at'[t] = "over" /\ victims[t] = <<>>
        /\ \A u \in Takers : u # t => at'[u] = at[u]
    BY <1>6, MovesKeeps DEF Pruned, Typed, Steps
  <2> QED BY <1>6, <2>1 DEF Pruned, folder, PruneInv, Listed, Succeeded, Downwards
<1> QED BY <1>1, <1>2, <1>3, <1>4, <1>5, <1>6 DEF RunsOnce

LEMMA NextKeepsPrunes == Typed /\ PruneInv /\ [BackupNext]_backupVars => PruneInv'
<1> SUFFICES ASSUME Typed, PruneInv, [BackupNext]_backupVars PROVE PruneInv'
  OBVIOUS
<1>1. "schedule" \in Takers /\ (OnRequest => "request" \in Takers)
  BY DEF Takers
<1>2. ASSUME NEW t \in Takers, RunsOnce(t) PROVE PruneInv'
  BY <1>2, RunsOnceKeepsPrunes
<1>3. ASSUME NEW t \in Takers, Begins(t) PROVE PruneInv'
  BY <1>3, BeginningKeepsPrunes
<1>4. CASE Moves("schedule", "over") /\ at["schedule"] = "idle" /\ UNCHANGED <<folder, own, victims>>
  <2>1. /\ at'["schedule"] = "over"
        /\ \A u \in Takers : u # "schedule" => at'[u] = at[u]
    BY <1>1, <1>4, MovesKeeps DEF Typed, Steps
  <2> QED BY <1>4, <2>1 DEF folder, PruneInv, Listed, Succeeded, Downwards
<1>5. ASSUME NEW t \in Takers, Ends(t), UNCHANGED <<folder, victims>> PROVE PruneInv'
  <2>1. at[t] = "over" /\ at'[t] = "idle" /\ \A u \in Takers : u # t => at'[u] = at[u] /\ own'[u] = own[u]
    BY <1>5, EndsKeeps DEF Typed, Ends
  <2> QED BY <1>5, <2>1 DEF folder, PruneInv, Listed, Succeeded, Downwards
<1>6. ASSUME NEW n \in Names, DeleteBackup(n) PROVE PruneInv'
  <2>1. Succeeded' /\ Downwards'
    BY <1>6, ForgettingKeepsPrunes DEF DeleteBackup, taking
  <2> QED BY <1>6, <2>1 DEF DeleteBackup, taking, PruneInv, Listed
<1>7. CASE Stops
  <2>1. ToSet(<<>>) = {}
    BY DEF ToSet
  <2> QED BY <1>7, <2>1 DEF Stops, PruneInv, Listed, Succeeded, Downwards
<1>8. CASE UNCHANGED <<snaps, whole, taking>>
  BY <1>8 DEF taking, PruneInv, Listed, Succeeded, Downwards
<1>9. CASE Fires
  BY <1>1, <1>3, <1>4, <1>9 DEF Fires
<1>10. CASE Rearms \/ Answers
  BY <1>1, <1>5, <1>10 DEF Rearms, Answers
<1>11. CASE RunBackupNow
  BY <1>1, <1>3, <1>11 DEF RunBackupNow
<1>12. ASSUME HearsChange \/ Restoring \/ Starts \/ Ticks
              \/ \E i \in Intervals, k \in Keeps : SetConfig(i, k)
       PROVE  PruneInv'
  <2>1. UNCHANGED <<snaps, whole, taking>>
    BY <1>12 DEF HearsChange, Restoring, StageRestore, SetsAside, MovesIn, StartCrashes, Staged,
                 Starts, Ticks, SetConfig, folder
  <2> QED BY <1>8, <2>1
<1>13. CASE UNCHANGED backupVars
  BY <1>8, <1>13 DEF backupVars, folder
<1> QED BY <1>2, <1>6, <1>7, <1>9, <1>10, <1>11, <1>12, <1>13 DEF BackupNext

LEMMA InitPruneInv == BackupInit => PruneInv
<1> SUFFICES ASSUME BackupInit PROVE PruneInv
  OBVIOUS
<1>1. ToSet(<<>>) = {}
  BY DEF ToSet
<1> QED BY <1>1 DEF BackupInit, PruneInv, Listed, Succeeded, Downwards

\* A prune belongs to a backup that has succeeded and takes with a snapshot
\* everything older, whatever two backups, a deletion and a crash do between
\* its listing and its removals (RunOnce, prune).
THEOREM PrunesTradeUp == BackupSpec => []PruneTradesUp
<1>1. BackupInit => Typed /\ PruneInv
  BY InitTyped, InitPruneInv
<1>2. Typed /\ PruneInv /\ [BackupNext]_backupVars => (Typed /\ PruneInv)'
  BY NextKeepsTypes, NextKeepsPrunes
<1>3. Typed /\ PruneInv => PruneTradesUp
  BY PruneInvSuffices
<1> QED BY <1>1, <1>2, <1>3, PTL DEF BackupSpec

-------------------------------------------------------------------------------
(***************************************************************************)
(* The schedule.                                                           *)
(***************************************************************************)
\* What is in the channel is the interval of the settings, so whoever reads
\* it waits for the right time.
Heard == changed \subseteq {interval} /\ TimerFollowsInterval

\* RunOnce leaves the schedule alone, and is never back at its beginning.
LEMMA RunsOnceKeepsHeard ==
  ASSUME Typed, Heard, NEW t \in Takers, RunsOnce(t)
  PROVE  Heard'
<1>1. UNCHANGED <<interval, changed, timer, phase>>
  BY DEF RunsOnce, Writes, WriteFails, CopiesConfig, Prunes, Removes, Pruned, runner
<1>2. at'["schedule"] = "idle" => at["schedule"] = "idle"
  <2>1. UNCHANGED at \/ \E next \in Steps \ {"idle"} : Moves(t, next)
    BY DEF RunsOnce, Writes, WriteFails, CopiesConfig, Prunes, Removes, Pruned, Steps
  <2>2. "schedule" \in Takers
    BY DEF Takers
  <2> QED BY <2>1, <2>2, MovesKeeps DEF Typed
<1> QED BY <1>1, <1>2 DEF Heard, TimerFollowsInterval

LEMMA SchedulingKeepsHeard ==
  ASSUME Typed, Heard, Scheduling
  PROVE  Heard'
<1>1. "schedule" \in Takers /\ (OnRequest => "request" \in Takers)
  BY DEF Takers
<1>2. \A u \in Takers : u # "schedule" => u = "request"
  BY DEF Takers
<1>3. CASE Fires
  <2>1. at'["schedule"] # "idle"
    BY <1>1, <1>3, BeginsKeeps, MovesKeeps DEF Fires, Typed, Steps
  <2> QED BY <1>3, <2>1 DEF Fires, Heard, TimerFollowsInterval
<1>4. CASE Rearms
  BY <1>4, Delays DEF Rearms, Heard, TimerFollowsInterval, Typed, RunnerOK
<1>5. CASE HearsChange
  <2>1. interval \in changed /\ timer' = InitialDelay(interval)
    BY <1>5 DEF HearsChange, Heard
  <2> QED BY <1>5, <2>1, Delays
    DEF HearsChange, Heard, TimerFollowsInterval, Typed, RunnerOK, FolderOK
<1>6. CASE RunBackupNow
  <2>1. at'["schedule"] = at["schedule"]
    BY <1>1, <1>6, BeginsKeeps DEF RunBackupNow, Typed
  <2> QED BY <1>6, <2>1 DEF RunBackupNow, runner, Heard, TimerFollowsInterval
<1>7. CASE Answers
  <2>1. at'["schedule"] = at["schedule"]
    BY <1>1, <1>7, EndsKeeps DEF Answers, Typed
  <2> QED BY <1>7, <2>1 DEF Answers, runner, Heard, TimerFollowsInterval
<1>8. ASSUME NEW i \in Intervals, NEW k \in Keeps, SetConfig(i, k) PROVE Heard'
  BY <1>8 DEF SetConfig, taking, Heard, TimerFollowsInterval
<1>9. ASSUME NEW n \in Names, DeleteBackup(n) PROVE Heard'
  BY <1>9 DEF DeleteBackup, taking, runner, Heard, TimerFollowsInterval
<1> QED BY <1>3, <1>4, <1>5, <1>6, <1>7, <1>8, <1>9 DEF Scheduling

LEMMA MovingKeepsHeard ==
  ASSUME Typed, Heard, Moving
  PROVE  Heard'
<1>1. CASE Restoring
  BY <1>1 DEF Restoring, StageRestore, SetsAside, MovesIn, StartCrashes, Staged,
              runner, taking, Heard, TimerFollowsInterval
<1>2. CASE Stops
  BY <1>2 DEF Stops, Heard, TimerFollowsInterval
<1>3. CASE Starts
  BY <1>3, Delays DEF Starts, Heard, TimerFollowsInterval, Typed, RunnerOK, FolderOK
<1> QED BY <1>1, <1>2, <1>3 DEF Moving

LEMMA TicksKeepHeard ==
  ASSUME Typed, Heard, Ticks
  PROVE  Heard'
<1>1. timer' = Off <=> timer = Off
  <2>1. timer \in 0 .. Off /\ Off \in Nat
    BY LongestBounds DEF Typed, RunnerOK
  <2> QED BY <2>1 DEF Ticks
<1> QED BY <1>1 DEF Ticks, taking, Heard, TimerFollowsInterval

LEMMA NextKeepsHeard == Typed /\ Heard /\ [BackupNext]_backupVars => Heard'
<1> SUFFICES ASSUME Typed, Heard, [BackupNext]_backupVars PROVE Heard'
  OBVIOUS
<1>1. CASE BackupNext
  BY <1>1, NextSplits, RunsOnceKeepsHeard, SchedulingKeepsHeard, MovingKeepsHeard, TicksKeepHeard
<1>2. CASE UNCHANGED backupVars
  BY <1>2 DEF backupVars, runner, taking, Heard, TimerFollowsInterval
<1> QED BY <1>1, <1>2

LEMMA InitHeard == BackupInit => Heard
<1> SUFFICES ASSUME BackupInit PROVE Heard
  OBVIOUS
<1>1. timer = InitialDelay(interval) /\ SnapsOK /\ AgeOK /\ interval \in Intervals /\ changed = {}
  BY InitTyped DEF BackupInit, Typed, FolderOK
<1> QED BY <1>1, Delays DEF Heard, TimerFollowsInterval

\* Once every change has been heard of, the scheduler waits for a backup
\* exactly when the schedule, as last set, is on (SetConfig, Run): two changes
\* in a row, or one during a backup, are not taken for one another.
THEOREM TimerFollows == BackupSpec => []TimerFollowsInterval
<1>1. BackupInit => Typed /\ Heard
  BY InitTyped, InitHeard
<1>2. Typed /\ Heard /\ [BackupNext]_backupVars => (Typed /\ Heard)'
  BY NextKeepsTypes, NextKeepsHeard
<1>3. Heard => TimerFollowsInterval
  BY DEF Heard
<1> QED BY <1>1, <1>2, <1>3, PTL DEF BackupSpec

-------------------------------------------------------------------------------
(***************************************************************************)
(* The database.                                                           *)
(***************************************************************************)
\* A process that runs has the database in its place.  Between the two moves
\* of a start nothing is there, and what has been moved in is followed by a
\* start before anything else is set aside.  Whenever the database is not in
\* its place it is the one set aside, which is why a second try must not set
\* aside anything again.
Kept ==
  /\ Running => live = "current"
  /\ phase = "aside" => live = "none"
  /\ live \in {"none", "current"} \/ (phase = "down" /\ staged = "none")
  /\ live # "current" => displaced = "current"

\* Taking backups and pruning leave the process and its files alone.
LEMMA OthersKeepFiles ==
  ASSUME BackupNext, ~Moving
  PROVE  UNCHANGED <<phase, files>>
<1>1. ASSUME NEW t \in Takers, RunsOnce(t) PROVE UNCHANGED <<phase, files>>
  BY <1>1 DEF RunsOnce, Writes, WriteFails, CopiesConfig, Prunes, Removes, Pruned
<1>2. ASSUME Fires \/ Rearms \/ HearsChange \/ RunBackupNow \/ Answers
      PROVE  UNCHANGED <<phase, files>>
  BY <1>2 DEF Fires, Rearms, HearsChange, RunBackupNow, Answers
<1>3. ASSUME NEW i \in Intervals, NEW k \in Keeps, SetConfig(i, k)
      PROVE  UNCHANGED <<phase, files>>
  BY <1>3 DEF SetConfig
<1>4. ASSUME NEW n \in Names, DeleteBackup(n) PROVE UNCHANGED <<phase, files>>
  BY <1>4 DEF DeleteBackup
<1>5. ASSUME Ticks PROVE UNCHANGED <<phase, files>>
  BY <1>5 DEF Ticks
<1> QED BY <1>1, <1>2, <1>3, <1>4, <1>5 DEF BackupNext, Moving

LEMMA MovingKeeps ==
  ASSUME Kept, Moving
  PROVE  Kept'
<1>1. CASE StageRestore
  BY <1>1 DEF StageRestore, Kept, Running
<1>2. ASSUME NEW n \in Names, Staged(n) PROVE Kept'
  BY <1>2 DEF Staged, Kept, Running
<1>3. CASE SetsAside
  <2>1. live \in {"none", "current"}
    BY <1>3 DEF SetsAside, Kept
  <2>2. phase' = "aside" /\ live' = "none"
    BY <1>3 DEF SetsAside
  <2>3. displaced' = "current"
    BY <1>3, <2>1 DEF SetsAside, Kept
  <2> QED BY <2>2, <2>3 DEF Kept, Running
<1>4. CASE MovesIn
  BY <1>4 DEF MovesIn, Kept, Running
<1>5. CASE StartCrashes
  BY <1>5 DEF StartCrashes, Kept, Running, files
<1>6. CASE Stops
  BY <1>6 DEF Stops, Kept, Running
<1>7. CASE Starts
  BY <1>7 DEF Starts, Kept, Running
<1> QED BY <1>1, <1>2, <1>3, <1>4, <1>5, <1>6, <1>7 DEF Moving, Restoring

\* The database the process last worked on is in its place or set aside,
\* whatever a start is interrupted by (applyPendingRestore, RestoreBackup).
THEOREM HistoryStays == BackupSpec => []NoHistoryLost
<1>1. BackupInit => Kept
  BY DEF BackupInit, Kept, Running
<1>2. Kept /\ [BackupNext]_backupVars => Kept'
  <2> SUFFICES ASSUME Kept, [BackupNext]_backupVars PROVE Kept'
    OBVIOUS
  <2>1. CASE Moving
    BY <2>1, MovingKeeps
  <2>2. CASE BackupNext /\ ~Moving
    <3>1. UNCHANGED <<phase, files>>
      BY <2>2, OthersKeepFiles
    <3> QED BY <3>1 DEF Kept, Running, files
  <2>3. CASE UNCHANGED backupVars
    BY <2>3 DEF Kept, Running, files, backupVars
  <2> QED BY <2>1, <2>2, <2>3
<1>3. Kept => NoHistoryLost
  BY DEF Kept, NoHistoryLost
<1> QED BY <1>1, <1>2, <1>3, PTL DEF BackupSpec
===============================================================================
