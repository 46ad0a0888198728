----------------------------- MODULE RoutingProofs -----------------------------
(***************************************************************************)
(* That the registry, the configuration in memory and config.yaml stay in  *)
(* step, that an add through the API finds a provider with a key, and what *)
(* an add leaves behind, for any providers, settings requests, failed      *)
(* writes, adds and restarts.                                              *)
(***************************************************************************)
EXTENDS Routing, SequenceTheorems, FiniteSetTheorems, WellFoundedInduction, TLAPS

-------------------------------------------------------------------------------
(***************************************************************************)
(* Filter: the recursive function it is made of exists, and gives what is  *)
(* meant, by the smallest index where it would not.                        *)
(***************************************************************************)
\* Of the sets of those below a member, the smallest is empty.
LEMMA HasSmallest ==
  ASSUME NEW S \in SUBSET Nat, S # {}
  PROVE  \E n \in S : \A m \in S : n <= m
<1>1. PICK top \in S : TRUE
  OBVIOUS
<1> DEFINE Below(n) == {m \in S : m < n}
           T == {Below(n) : n \in S}
<1>2. \A n \in S : Below(n) \in FiniteSubsetsOf(Nat)
  <2> TAKE n \in S
  <2>1. IsFiniteSet(0 .. n)
    BY FS_Interval
  <2>2. Below(n) \subseteq 0 .. n
    <3>1. n \in Nat /\ \A m \in Nat : m < n => m \in 0 .. n
      OBVIOUS
    <3> QED BY <3>1
  <2> QED BY <2>1, <2>2, FS_Subset DEF FiniteSubsetsOf
<1>3. T \subseteq FiniteSubsetsOf(Nat) /\ T # {}
  BY <1>1, <1>2
<1>4. PICK U \in T : \A V \in T : <<V, U>> \notin StrictSubsetOrdering(Nat)
  <2> HIDE DEF T
  <2> QED BY <1>3, FS_StrictSubsetOrderingWellFounded, WFMin
<1>5. PICK n \in S : U = Below(n)
  OBVIOUS
<1>6. ASSUME NEW m \in S, m < n PROVE FALSE
  <2>1. Below(m) \in T
    OBVIOUS
  <2>2. Below(m) \subseteq U /\ m \in U /\ m \notin Below(m)
    <3>1. \A k \in S : k < m => k < n
      BY <1>6
    <3>2. Below(m) \subseteq Below(n) /\ m \in Below(n)
      BY <1>6, <3>1
    <3>3. ~(m < m)
      OBVIOUS
    <3>4. m \notin Below(m)
      BY <3>3
    <3> HIDE DEF Below
    <3> QED BY <1>5, <3>2, <3>4
  <2>3. Below(m) \subseteq Nat /\ U \subseteq Nat
    BY <1>5
  <2> HIDE DEF Below
  <2>4. <<Below(m), U>> \in StrictSubsetOrdering(Nat)
    BY <2>2, <2>3 DEF StrictSubsetOrdering
  <2> QED BY <1>4, <2>1, <2>4
<1>7. \A m \in S : n <= m
  BY <1>6
<1> QED BY <1>7

\* Induction up to n, for a set of numbers.
LEMMA UpTo ==
  ASSUME NEW n \in Nat, NEW T \in SUBSET Nat, 0 \in T,
         \A i \in 1 .. n : i - 1 \in T => i \in T
  PROVE  \A i \in 0 .. n : i \in T
<1> SUFFICES ASSUME {i \in 0 .. n : i \notin T} # {} PROVE FALSE
  OBVIOUS
<1>1. PICK i \in 0 .. n : i \notin T /\ \A m \in 0 .. n : m \notin T => i <= m
  <2> DEFINE S == {j \in 0 .. n : j \notin T}
  <2>1. S \in SUBSET Nat /\ S # {}
    OBVIOUS
  <2> HIDE DEF S
  <2>2. \E j \in S : \A m \in S : j <= m
    BY <2>1, HasSmallest
  <2> QED BY <2>2 DEF S
<1>2. i \in 1 .. n /\ i - 1 \in 0 .. n /\ ~(i <= i - 1)
  BY <1>1
<1> QED BY <1>1, <1>2

Filters(f, s, S, n) ==
  f = [i \in 0 .. n |->
         IF i = 0 THEN <<>> ELSE IF s[i] \in S THEN Append(f[i - 1], s[i]) ELSE f[i - 1]]

LEMMA FilterExists ==
  ASSUME NEW s, NEW S, NEW n \in Nat
  PROVE  \E f : Filters(f, s, S, n)
<1> DEFINE T == {m \in Nat : \E f : Filters(f, s, S, m)}
<1>1. 0 \in T
  <2>1. Filters([i \in 0 .. 0 |-> <<>>], s, S, 0)
    BY DEF Filters
  <2> QED BY <2>1
<1>2. ASSUME NEW m \in 1 .. n, m - 1 \in T PROVE m \in T
  <2>1. PICK f : Filters(f, s, S, m - 1)
    BY <1>2
  <2> DEFINE g == [i \in 0 .. m |->
                     IF i < m THEN f[i]
                     ELSE IF s[m] \in S THEN Append(f[m - 1], s[m]) ELSE f[m - 1]]
  <2>2. ASSUME NEW i \in 0 .. m
        PROVE  g[i] = IF i = 0 THEN <<>>
                      ELSE IF s[i] \in S THEN Append(g[i - 1], s[i]) ELSE g[i - 1]
    <3>1. CASE i = 0
      BY <2>1, <3>1 DEF Filters
    <3>2. CASE i # 0 /\ i < m
      <4>1. i \in 0 .. m - 1 /\ i - 1 \in 0 .. m - 1 /\ i - 1 \in 0 .. m /\ i - 1 < m
        BY <3>2
      <4>2. f[i] = IF s[i] \in S THEN Append(f[i - 1], s[i]) ELSE f[i - 1]
        BY <2>1, <3>2, <4>1 DEF Filters
      <4>3. g[i] = f[i] /\ g[i - 1] = f[i - 1]
        BY <3>2, <4>1
      <4> HIDE DEF g
      <4> QED BY <3>2, <4>2, <4>3
    <3>3. CASE i = m
      <4>1. m # 0 /\ m - 1 \in 0 .. m /\ m - 1 < m /\ ~(m < m)
        OBVIOUS
      <4>2. g[m - 1] = f[m - 1]
        BY <4>1
      <4>3. g[m] = IF s[m] \in S THEN Append(f[m - 1], s[m]) ELSE f[m - 1]
        BY <4>1
      <4> HIDE DEF g
      <4> QED BY <3>3, <4>1, <4>2, <4>3
    <3> QED BY <3>1, <3>2, <3>3
  <2>3. g = [i \in 0 .. m |-> g[i]]
    OBVIOUS
  <2> HIDE DEF g
  <2>4. Filters(g, s, S, m)
    BY <2>2, <2>3 DEF Filters
  <2>5. m \in Nat
    OBVIOUS
  <2> QED BY <2>4, <2>5
<1>3. n \in 0 .. n /\ T \in SUBSET Nat
  OBVIOUS
<1>4. n \in T
  <2> HIDE DEF T
  <2> QED BY <1>1, <1>2, <1>3, UpTo
<1> QED BY <1>4

\* A new last element.
LEMMA Appended ==
  ASSUME NEW X, NEW t \in Seq(X), NEW e \in X
  PROVE  LET r == Append(t, e) IN
         /\ r \in Seq(X) /\ ToSet(r) = ToSet(t) \cup {e}
         /\ IsInjective(t) /\ e \notin ToSet(t) => IsInjective(r)
<1> DEFINE r == Append(t, e)
<1>1. PICK m \in Nat : m = Len(t) /\ DOMAIN t = 1 .. m
  BY LenProperties
<1>2. /\ r \in Seq(X) /\ Len(r) = m + 1
      /\ \A j \in 1 .. m : r[j] = t[j]
      /\ r[m + 1] = e
  BY <1>1, AppendProperties
<1> HIDE DEF r
<1>3. DOMAIN r = 1 .. m + 1 /\ 1 .. m + 1 = (1 .. m) \cup {m + 1}
  BY <1>1, <1>2, LenProperties
<1>4. ToSet(r) = ToSet(t) \cup {e}
  BY <1>1, <1>2, <1>3 DEF ToSet
<1>5. IsInjective(t) /\ e \notin ToSet(t) => IsInjective(r)
  BY <1>1, <1>2, <1>3 DEF IsInjective, ToSet
<1> QED BY <1>2, <1>4, <1>5 DEF r

\* What Filter keeps: no more and no less than what is in S, once.
LEMMA FilterKeeps ==
  ASSUME NEW X, NEW s \in Seq(X), NEW S
  PROVE  /\ Filter(s, S) \in Seq(X)
         /\ ToSet(Filter(s, S)) = ToSet(s) \cap S
         /\ IsInjective(s) => IsInjective(Filter(s, S))
<1> DEFINE n == Len(s)
           f == CHOOSE f : Filters(f, s, S, n)
<1>1. n \in Nat /\ DOMAIN s = 1 .. n /\ \A i \in 1 .. n : s[i] \in X
  BY LenProperties, ElementOfSeq
<1>2. Filter(s, S) = f[n]
  BY DEF Filter, Filters
<1>3. Filters(f, s, S, n)
  <2> HIDE DEF n
  <2>1. \E g : Filters(g, s, S, n)
    BY <1>1, FilterExists
  <2> QED BY <2>1
<1> HIDE DEF n, f
<1>4. /\ f[0] = <<>>
      /\ \A i \in 1 .. n : f[i] = IF s[i] \in S THEN Append(f[i - 1], s[i]) ELSE f[i - 1]
  <2>1. 0 \in 0 .. n /\ \A i \in 1 .. n : i \in 0 .. n /\ i # 0
    BY <1>1
  <2> QED BY <1>3, <2>1 DEF Filters
<1> DEFINE Seen(i) == {s[j] : j \in 1 .. i}
           Good(i) == /\ f[i] \in Seq(X)
                      /\ ToSet(f[i]) = Seen(i) \cap S
                      /\ IsInjective(s) => IsInjective(f[i])
           T == {i \in 0 .. n : Good(i)}
<1>5. 0 \in T
  <2>1. Seen(0) = {} /\ 0 \in 0 .. n
    BY <1>1
  <2>2. <<>> \in Seq(X) /\ ToSet(<<>>) = {} /\ IsInjective(<<>>)
    BY DEF ToSet, IsInjective
  <2> QED BY <1>4, <2>1, <2>2
<1>6. ASSUME NEW i \in 1 .. n, i - 1 \in T PROVE i \in T
  <2>1. i \in 0 .. n /\ i - 1 \in 0 .. n /\ 1 .. i = (1 .. i - 1) \cup {i}
    BY <1>1
  <2>2. Good(i - 1)
    BY <1>6
  <2>3. Seen(i) = Seen(i - 1) \cup {s[i]}
    BY <2>1
  <2>4. IsInjective(s) => s[i] \notin Seen(i - 1)
    BY <1>1, <2>1 DEF IsInjective
  <2> HIDE DEF Seen
  <2>5. CASE s[i] \in S
    <3>1. f[i] = Append(f[i - 1], s[i])
      BY <1>4, <2>5
    <3>2. /\ f[i] \in Seq(X) /\ ToSet(f[i]) = ToSet(f[i - 1]) \cup {s[i]}
          /\ IsInjective(f[i - 1]) /\ s[i] \notin ToSet(f[i - 1]) => IsInjective(f[i])
      <4>1. f[i - 1] \in Seq(X) /\ s[i] \in X
        BY <1>1, <2>2
      <4> QED BY <3>1, <4>1, Appended
    <3> QED BY <2>1, <2>2, <2>3, <2>4, <2>5, <3>2
  <2>6. CASE s[i] \notin S
    BY <1>4, <2>1, <2>2, <2>3, <2>6
  <2> QED BY <2>5, <2>6
<1>7. n \in T
  <2>1. T \in SUBSET Nat /\ n \in 0 .. n
    BY <1>1
  <2> HIDE DEF T
  <2> QED BY <1>1, <1>5, <1>6, <2>1, UpTo
<1>8. Seen(n) = ToSet(s)
  BY <1>1 DEF ToSet
<1> QED BY <1>2, <1>7, <1>8

LEMMA Elements ==
  ASSUME NEW X, NEW s \in Seq(X)
  PROVE  ToSet(s) \subseteq X
BY ElementOfSeq, LenProperties DEF ToSet

\* The first that is left, if any is.
LEMMA FirstKept ==
  ASSUME NEW X, NEW s \in Seq(X), s # <<>>
  PROVE  Head(s) \in ToSet(s) /\ Head(s) \in X
<1>1. Len(s) \in Nat /\ DOMAIN s = 1 .. Len(s) /\ 1 \in 1 .. Len(s)
  BY LenProperties, EmptySeq
<1>2. Head(s) = s[1]
  OBVIOUS
<1> QED BY <1>1, <1>2, ElementOfSeq DEF ToSet

LEMMA NothingKept ==
  ASSUME NEW X, NEW s \in Seq(X)
  PROVE  s = <<>> <=> ToSet(s) = {}
<1>1. ToSet(<<>>) = {}
  BY DEF ToSet
<1> QED BY <1>1, FirstKept

-------------------------------------------------------------------------------
(***************************************************************************)
(* Configurations, entries and clients.                                    *)
(***************************************************************************)
Wrappers == UNION {[ks -> Clients] : ks \in SUBSET Kinds}

LEMMA NoneIsNoName == None \notin Names /\ None \notin Known /\ Known \subseteq Names /\ Known # {}
BY SettingsAssumption DEF SettingsAssumption

LEMMA ConfigParts ==
  ASSUME NEW c \in Config
  PROVE  /\ c.default \in Names \cup {None} /\ c.general \in Generals
         /\ DOMAIN c.providers \subseteq Names
         /\ \A n \in DOMAIN c.providers : c.providers[n] \in Entry
         /\ c = [providers |-> c.providers, default |-> c.default, general |-> c.general]
<1>1. PICK d \in SUBSET Names : c.providers \in [d -> Entry]
  BY DEF Config
<1>2. c.default \in Names \cup {None} /\ c.general \in Generals
  BY DEF Config
<1>3. c = [providers |-> c.providers, default |-> c.default, general |-> c.general]
  BY DEF Config
<1> QED BY <1>1, <1>2, <1>3

LEMMA MakesConfig ==
  ASSUME NEW d \in SUBSET Names, NEW p \in [d -> Entry],
         NEW n \in Names \cup {None}, NEW g \in Generals
  PROVE  [providers |-> p, default |-> n, general |-> g] \in Config
BY DEF Config

LEMMA DefaultsAreConfig == Defaults \in Config /\ DOMAIN Defaults.providers = {} /\ Defaults.general = DefaultGeneral
<1>1. <<>> \in [{} -> Entry]
  OBVIOUS
<1>2. DefaultGeneral \in Generals
  BY SettingsAssumption DEF SettingsAssumption
<1> QED BY <1>1, <1>2, MakesConfig DEF Defaults

LEMMA EntryFacts ==
  ASSUME NEW c \in Config, NEW n
  PROVE  /\ EntryOf(c, n) \in Entry
         /\ EntryOf(c, n).key \in Keys \cup {None} /\ EntryOf(c, n).off \subseteq Kinds
         /\ EntryOf(c, n).type \in Known \cup {None}
         /\ KindsOf(c, n) \subseteq Kinds
         /\ n \notin DOMAIN c.providers => ResolvedType(c, n) = n
<1>1. ZeroEntry \in Entry /\ ZeroEntry.type = None
  BY DEF ZeroEntry, Entry
<1>2. EntryOf(c, n) \in Entry
  BY <1>1, ConfigParts DEF EntryOf
<1>3. /\ EntryOf(c, n).key \in Keys \cup {None} /\ EntryOf(c, n).off \subseteq Kinds
      /\ EntryOf(c, n).type \in Known \cup {None}
  BY <1>2 DEF Entry
<1>4. KindsOf(c, n) \subseteq Kinds
  BY SettingsAssumption DEF SettingsAssumption, KindsOf
<1>5. n \notin DOMAIN c.providers => ResolvedType(c, n) = n
  BY <1>1 DEF ResolvedType, EntryOf
<1> QED BY <1>2, <1>3, <1>4, <1>5

\* An entry that is set leaves the others as they are.
LEMMA WithEntryFacts ==
  ASSUME NEW c \in Config, NEW n \in Names, NEW e \in Entry
  PROVE  LET w == WithEntry(c, n, e) IN
         /\ w \in Config /\ w.default = c.default /\ w.general = c.general
         /\ DOMAIN w.providers = DOMAIN c.providers \cup {n}
         /\ EntryOf(w, n) = e
         /\ \A m : m # n => /\ EntryOf(w, m) = EntryOf(c, m)
                            /\ ResolvedType(w, m) = ResolvedType(c, m)
                            /\ KindsOf(w, m) = KindsOf(c, m)
<1> DEFINE w == WithEntry(c, n, e)
           d == DOMAIN c.providers \cup {n}
           p == [m \in d |-> IF m = n THEN e ELSE c.providers[m]]
<1>1. d \in SUBSET Names /\ p \in [d -> Entry]
  BY ConfigParts
<1>2. w = [providers |-> p, default |-> c.default, general |-> c.general]
  BY ConfigParts DEF WithEntry
<1>3. w \in Config
  <2> HIDE DEF w, p, d
  <2> QED BY <1>1, <1>2, ConfigParts, MakesConfig
<1>4. w.providers = p /\ w.default = c.default /\ w.general = c.general
  <2> HIDE DEF w, p
  <2> QED BY <1>2
<1> HIDE DEF w
<1>5. DOMAIN w.providers = d /\ EntryOf(w, n) = e
  BY <1>4 DEF EntryOf
<1>6. \A m : m # n => EntryOf(w, m) = EntryOf(c, m)
  BY <1>4 DEF EntryOf
<1>7. \A m : m # n => ResolvedType(w, m) = ResolvedType(c, m) /\ KindsOf(w, m) = KindsOf(c, m)
  BY <1>6 DEF ResolvedType, KindsOf
<1> QED BY <1>3, <1>4, <1>5, <1>6, <1>7 DEF w

LEMMA WithoutEntryFacts ==
  ASSUME NEW c \in Config, NEW n
  PROVE  LET w == WithoutEntry(c, n) IN
         /\ w \in Config /\ w.default = c.default /\ w.general = c.general
         /\ DOMAIN w.providers = DOMAIN c.providers \ {n}
         /\ \A m : m # n => /\ EntryOf(w, m) = EntryOf(c, m)
                            /\ ResolvedType(w, m) = ResolvedType(c, m)
                            /\ KindsOf(w, m) = KindsOf(c, m)
<1> DEFINE w == WithoutEntry(c, n)
           d == DOMAIN c.providers \ {n}
           p == [m \in d |-> c.providers[m]]
<1>1. d \in SUBSET Names /\ p \in [d -> Entry]
  BY ConfigParts
<1>2. w = [providers |-> p, default |-> c.default, general |-> c.general]
  BY ConfigParts DEF WithoutEntry
<1>3. w \in Config
  <2> HIDE DEF w, p, d
  <2> QED BY <1>1, <1>2, ConfigParts, MakesConfig
<1>4. w.providers = p /\ w.default = c.default /\ w.general = c.general
  <2> HIDE DEF w, p
  <2> QED BY <1>2
<1> HIDE DEF w
<1>5. DOMAIN w.providers = d
  BY <1>4
<1>6. \A m : m # n => EntryOf(w, m) = EntryOf(c, m)
  BY <1>4 DEF EntryOf
<1>7. \A m : m # n => ResolvedType(w, m) = ResolvedType(c, m) /\ KindsOf(w, m) = KindsOf(c, m)
  BY <1>6 DEF ResolvedType, KindsOf
<1> QED BY <1>3, <1>4, <1>5, <1>6, <1>7 DEF w

\* A change of anything else leaves the entries alone.
LEMMA SameProviders ==
  ASSUME NEW c, NEW w, w.providers = c.providers, NEW n
  PROVE  /\ EntryOf(w, n) = EntryOf(c, n) /\ ResolvedType(w, n) = ResolvedType(c, n)
         /\ KindsOf(w, n) = KindsOf(c, n)
BY DEF EntryOf, ResolvedType, KindsOf

LEMMA OtherDefault ==
  ASSUME NEW c \in Config, NEW n \in Names \cup {None}
  PROVE  LET w == [c EXCEPT !.default = n] IN
         w \in Config /\ w.providers = c.providers /\ w.general = c.general /\ w.default = n
<1> DEFINE w == [c EXCEPT !.default = n]
<1>1. w = [providers |-> c.providers, default |-> n, general |-> c.general]
  BY ConfigParts
<1>2. c.providers \in [DOMAIN c.providers -> Entry]
  BY DEF Config
<1>3. w \in Config
  <2> HIDE DEF w
  <2> QED BY <1>1, <1>2, ConfigParts, MakesConfig
<1> QED BY <1>1, <1>3

LEMMA OtherGeneral ==
  ASSUME NEW c \in Config, NEW g \in Generals
  PROVE  LET w == [c EXCEPT !.general = g] IN
         w \in Config /\ w.providers = c.providers /\ w.general = g /\ w.default = c.default
<1> DEFINE w == [c EXCEPT !.general = g]
<1>1. w = [providers |-> c.providers, default |-> c.default, general |-> g]
  BY ConfigParts
<1>2. c.providers \in [DOMAIN c.providers -> Entry]
  BY DEF Config
<1>3. w \in Config
  <2> HIDE DEF w
  <2> QED BY <1>1, <1>2, ConfigParts, MakesConfig
<1> QED BY <1>1, <1>3

LEMMA ClientFacts ==
  ASSUME NEW key \in Keys \cup {None}, NEW g \in Generals
  PROVE  Client(key, g) \in Clients /\ (Client(key, g) = NoClient <=> key = None)
BY SettingsAssumption DEF SettingsAssumption, Client, Clients, NoClient

LEMMA WrapperFacts ==
  /\ <<>> \in Wrappers /\ DOMAIN <<>> = {}
  /\ \A ks \in SUBSET Kinds, key \in Keys \cup {None}, g \in Generals :
       [k \in ks |-> Client(key, g)] \in Wrappers
  /\ \A w \in Wrappers : DOMAIN w \subseteq Kinds
<1>1. <<>> \in [{} -> Clients] /\ DOMAIN <<>> = {}
  OBVIOUS
<1> QED BY <1>1, ClientFacts DEF Wrappers

-------------------------------------------------------------------------------
(***************************************************************************)
(* What a start makes of a configuration.                                  *)
(***************************************************************************)
\* The clients an entry of c asks for.
Served(c, n) ==
  [k \in KindsOf(c, n) \ EntryOf(c, n).off |-> Client(EntryOf(c, n).key, c.general)]

LEMMA StartOrderFacts ==
  ASSUME NEW c \in Config
  PROVE  /\ StartOrder(c) \in Seq(Names) /\ IsInjective(StartOrder(c))
         /\ ToSet(StartOrder(c)) =
              {n \in Names : n \in DOMAIN c.providers \cup Known /\ ResolvedType(c, n) \in Known}
<1>1. Sorted \in Seq(Names) /\ IsInjective(Sorted) /\ ToSet(Sorted) = Names
  BY SettingsAssumption DEF SettingsAssumption, Names
<1>2. /\ ProviderEntryNames(c) \in Seq(Names) /\ IsInjective(ProviderEntryNames(c))
      /\ ToSet(ProviderEntryNames(c)) = Names \cap (DOMAIN c.providers \cup Known)
  BY <1>1, FilterKeeps DEF ProviderEntryNames
<1> DEFINE S == {n \in Names : ResolvedType(c, n) \in Known}
<1>3. /\ StartOrder(c) \in Seq(Names) /\ IsInjective(StartOrder(c))
      /\ ToSet(StartOrder(c)) = ToSet(ProviderEntryNames(c)) \cap S
  <2> HIDE DEF S
  <2>1. StartOrder(c) = Filter(ProviderEntryNames(c), S)
    BY DEF StartOrder, S
  <2> QED BY <1>2, <2>1, FilterKeeps
<1> QED BY <1>2, <1>3

LEMMA StartSlotsFacts ==
  ASSUME NEW c \in Config
  PROVE  /\ StartSlots(c) \in [Names -> Wrappers]
         /\ \A n \in ToSet(StartOrder(c)) : StartSlots(c)[n] = Served(c, n)
         /\ \A n \in Names \ ToSet(StartOrder(c)) : StartSlots(c)[n] = <<>>
<1>1. \A n \in ToSet(StartOrder(c)) : n \in Names
  BY StartOrderFacts
<1>2. \A n \in Names : Served(c, n) \in Wrappers
  <2> TAKE n \in Names
  <2>1. KindsOf(c, n) \ EntryOf(c, n).off \in SUBSET Kinds /\ EntryOf(c, n).key \in Keys \cup {None}
    BY EntryFacts
  <2>2. c.general \in Generals
    BY ConfigParts
  <2> QED BY <2>1, <2>2, WrapperFacts DEF Served
<1>3. StartSlots(c) = [n \in Names |-> IF n \in ToSet(StartOrder(c)) THEN Served(c, n) ELSE <<>>]
  BY DEF StartSlots, Served
<1> HIDE DEF StartSlots, Served
<1> QED BY <1>1, <1>2, <1>3, WrapperFacts

\* Head(keyed) is where a start without a usable default sends downloads.
LEMMA DefaultFacts ==
  ASSUME NEW c \in Config
  PROVE  IF StartOrder(c) = <<>> THEN DefaultProviderName(c) = None
         ELSE DefaultProviderName(c) \in ToSet(StartOrder(c))
<1> DEFINE names == StartOrder(c)
           S == {n \in Names : EntryOf(c, n).key # None}
           keyed == Filter(names, S)
<1>1. names \in Seq(Names)
  BY StartOrderFacts
<1>2. keyed \in Seq(Names) /\ ToSet(keyed) \subseteq ToSet(names)
  <2> HIDE DEF names, S
  <2> QED BY <1>1, FilterKeeps
<1>3. DefaultProviderName(c) =
        IF c.default \in ToSet(names) THEN c.default
        ELSE IF keyed # <<>> THEN Head(keyed)
        ELSE IF names # <<>> THEN Head(names) ELSE None
  BY DEF DefaultProviderName
<1> HIDE DEF names, keyed
<1>4. names = <<>> => ToSet(names) = {}
  BY <1>1, NothingKept
<1>5. /\ keyed # <<>> => Head(keyed) \in ToSet(names) /\ ToSet(names) # {}
      /\ names # <<>> => Head(names) \in ToSet(names)
  BY <1>1, <1>2, FirstKept
<1>6. IF names = <<>> THEN DefaultProviderName(c) = None
      ELSE DefaultProviderName(c) \in ToSet(names)
  BY <1>3, <1>4, <1>5
<1> QED BY <1>6 DEF names

-------------------------------------------------------------------------------
(***************************************************************************)
(* The inductive invariant: everything the registry, the configuration in  *)
(* memory and the file have to do with one another.                        *)
(***************************************************************************)
CoreTypes ==
  /\ cfg \in Config /\ file \in Config
  /\ order \in Seq(Names) /\ IsInjective(order)
  /\ slots \in [Names -> Wrappers]
  /\ fallback \in Names \cup {None}
  /\ applied \in Generals
  /\ env \in Overrides /\ env \in Generals \cup {0}
  /\ missed \in BOOLEAN

\* A name is registered only for an entry that a start would register, and a
\* second account always is.
Rooted ==
  /\ \A n \in ToSet(order) : ResolvedType(cfg, n) \in Known
  /\ \A n \in DOMAIN cfg.providers \ Known : ResolvedType(cfg, n) \in Known => Registered(n)

\* Nothing is left of a name that is not.
Gone == \A n \in Names \ ToSet(order) : slots[n] = <<>>

\* Unless a write has failed, the file differs in the override at most, and
\* the clients and the importer have what the configuration says.
Agree ==
  ~missed =>
    /\ file.providers = cfg.providers
    /\ file.general = cfg.general \/ cfg.general = env
    /\ applied = cfg.general
    /\ \A n \in ToSet(order) : slots[n] = Served(cfg, n)

Sane == CoreTypes /\ Rooted /\ Gone /\ Agree /\ FallbackIsRegistered

LEMMA FallbackBySet ==
  ASSUME order \in Seq(Names)
  PROVE  FallbackIsRegistered <=>
           IF ToSet(order) = {} THEN fallback = None ELSE fallback \in ToSet(order)
BY NothingKept DEF FallbackIsRegistered, Registered

LEMMA SaveFacts ==
  ASSUME NEW c \in Config, Save(c), file \in Config, missed \in BOOLEAN
  PROVE  /\ cfg' = c /\ file' \in Config /\ missed' \in BOOLEAN
         /\ ~missed' => ~missed /\ file' = c
<1>1. CASE SaveWorks(c)
  BY <1>1 DEF SaveWorks
<1>2. CASE SaveFails(c)
  <2>1. cfg' = c /\ file' \in {file, Defaults} /\ missed' = TRUE
    BY <1>2 DEF SaveFails
  <2> QED BY <2>1, DefaultsAreConfig
<1> QED BY <1>1, <1>2 DEF Save

\* A start finds everything in step.
JustStarted ==
  /\ cfg \in Config /\ file \in Config /\ missed \in BOOLEAN
  /\ env \in Overrides /\ env \in Generals \cup {0}
  /\ file.providers = cfg.providers /\ (file.general = cfg.general \/ cfg.general = env)
  /\ order = StartOrder(cfg) /\ slots = StartSlots(cfg)
  /\ fallback = DefaultProviderName(cfg) /\ applied = cfg.general

LEMMA StartSane == JustStarted => Sane
<1> SUFFICES ASSUME JustStarted PROVE Sane
  OBVIOUS
<1>1. CoreTypes /\ FallbackIsRegistered
  <2>1. fallback \in Names \cup {None}
    BY DefaultFacts, StartOrderFacts DEF JustStarted
  <2> QED BY <2>1, StartOrderFacts, StartSlotsFacts, ConfigParts, DefaultFacts
      DEF JustStarted, CoreTypes, FallbackIsRegistered, Registered
<1>2. Rooted
  BY StartOrderFacts, ConfigParts DEF JustStarted, Rooted, Registered
<1>3. Gone /\ Agree
  BY StartSlotsFacts DEF JustStarted, Gone, Agree
<1> QED BY <1>1, <1>2, <1>3 DEF Sane

LEMMA StartSaneNext == JustStarted' => Sane'
BY StartSane, PTL

-------------------------------------------------------------------------------
(***************************************************************************)
(* The steps.                                                              *)
(***************************************************************************)
\* SetKinds for an entry that is saved with it: a provider that is added, and
\* one whose kinds are switched.
LEMMA RegisterKeeps ==
  ASSUME Sane, NEW n \in Names, NEW e \in Entry, NEW kinds,
         kinds = KindsOf(WithEntry(cfg, n, e), n) \ e.off,
         ResolvedType(WithEntry(cfg, n, e), n) \in Known,
         SetKinds(n, kinds, e.key, cfg.general),
         Save(WithEntry(cfg, n, e)), UNCHANGED <<applied, env>>
  PROVE  Sane'
<1> DEFINE w == WithEntry(cfg, n, e)
<1>1. /\ w \in Config /\ w.default = cfg.default /\ w.general = cfg.general
      /\ DOMAIN w.providers = DOMAIN cfg.providers \cup {n}
      /\ EntryOf(w, n) = e
      /\ \A m : m # n => /\ EntryOf(w, m) = EntryOf(cfg, m)
                         /\ ResolvedType(w, m) = ResolvedType(cfg, m)
                         /\ KindsOf(w, m) = KindsOf(cfg, m)
  BY WithEntryFacts DEF Sane, CoreTypes
<1>2. kinds = KindsOf(w, n) \ e.off /\ ResolvedType(w, n) \in Known /\ Save(w)
  OBVIOUS
<1> HIDE DEF w
<1>3. cfg' = w /\ file' \in Config /\ missed' \in BOOLEAN /\ (~missed' => ~missed /\ file' = w)
  BY <1>1, <1>2, SaveFacts DEF Sane, CoreTypes
<1>4. order' \in Seq(Names) /\ IsInjective(order') /\ ToSet(order') = ToSet(order) \cup {n}
  BY Appended DEF SetKinds, OrderWith, Registered, Sane, CoreTypes
<1>5. /\ slots'[n] = Served(w, n) /\ slots' \in [Names -> Wrappers]
      /\ \A m \in Names : m # n => slots'[m] = slots[m]
  <2>1. [k \in kinds |-> Client(e.key, cfg.general)] = Served(w, n)
    BY <1>1, <1>2 DEF Served
  <2>2. kinds \in SUBSET Kinds /\ e.key \in Keys \cup {None} /\ cfg.general \in Generals
    BY <1>1, <1>2, EntryFacts, ConfigParts DEF Sane, CoreTypes
  <2>3. Served(w, n) \in Wrappers
    <3>1. [k \in kinds |-> Client(e.key, cfg.general)] \in Wrappers
      BY <2>2, WrapperFacts
    <3> QED BY <2>1, <3>1
  <2>4. slots' = [slots EXCEPT ![n] = Served(w, n)]
    BY <2>1 DEF SetKinds
  <2> QED BY <2>3, <2>4 DEF Sane, CoreTypes
<1>6. FallbackIsRegistered' /\ fallback' \in Names \cup {None}
  <2>1. fallback' = IF fallback = None THEN n ELSE fallback
    BY DEF SetKinds
  <2>2. IF ToSet(order) = {} THEN fallback = None ELSE fallback \in ToSet(order)
    BY FallbackBySet DEF Sane, CoreTypes
  <2>3. fallback' \in ToSet(order') /\ order' # <<>>
    BY <1>4, <2>1, <2>2, NothingKept
  <2> QED BY <2>1, <2>3 DEF FallbackIsRegistered, Registered, Sane, CoreTypes
<1>7. CoreTypes'
  BY <1>1, <1>3, <1>4, <1>5, <1>6 DEF Sane, CoreTypes
<1>8. Rooted'
  BY <1>1, <1>2, <1>3, <1>4 DEF Sane, Rooted, Registered
<1>9. Gone'
  BY <1>4, <1>5 DEF Sane, Gone
<1>10. Agree'
  <2>1. \A m \in ToSet(order) : m # n => Served(w, m) = Served(cfg, m)
    BY <1>1 DEF Served
  <2>2. \A m \in ToSet(order) : m \in Names
    BY Elements DEF Sane, CoreTypes
  <2> QED BY <1>1, <1>3, <1>4, <1>5, <2>1, <2>2 DEF Sane, Agree
<1> QED BY <1>6, <1>7, <1>8, <1>9, <1>10 DEF Sane

\* A key is set in the entry and in the clients that are there, which for a
\* name that is gone are none.
LEMMA KeyKeeps ==
  ASSUME Sane, NEW n \in Names, NEW key \in Keys \cup {None},
         ResolvedType(cfg, n) \in Known, SetProviderAPIKey(n, key), UNCHANGED env
  PROVE  Sane'
<1> DEFINE e == KeyedEntry(n, key)
           w == WithEntry(cfg, n, e)
<1>1. e \in Entry /\ e.key = key /\ e.type = EntryOf(cfg, n).type /\ e.off = EntryOf(cfg, n).off
  BY EntryFacts DEF KeyedEntry, Entry, Sane, CoreTypes
<1> HIDE DEF e
<1>2. /\ w \in Config /\ w.default = cfg.default /\ w.general = cfg.general
      /\ DOMAIN w.providers = DOMAIN cfg.providers \cup {n}
      /\ EntryOf(w, n) = e
      /\ \A m : m # n => /\ EntryOf(w, m) = EntryOf(cfg, m)
                         /\ ResolvedType(w, m) = ResolvedType(cfg, m)
                         /\ KindsOf(w, m) = KindsOf(cfg, m)
  BY <1>1, WithEntryFacts DEF Sane, CoreTypes
<1>3. Save(w) /\ UNCHANGED <<order, fallback, applied>>
      /\ slots' = [slots EXCEPT ![n] = [k \in DOMAIN slots[n] |-> Client(key, cfg.general)]]
  BY DEF SetProviderAPIKey, e
<1> HIDE DEF w
<1>4. \A m : ResolvedType(w, m) = ResolvedType(cfg, m) /\ KindsOf(w, m) = KindsOf(cfg, m)
  BY <1>1, <1>2 DEF ResolvedType, KindsOf
<1>5. cfg' = w /\ file' \in Config /\ missed' \in BOOLEAN /\ (~missed' => ~missed /\ file' = w)
  BY <1>2, <1>3, SaveFacts DEF Sane, CoreTypes
<1>6. /\ slots'[n] = [k \in DOMAIN slots[n] |-> Client(key, cfg.general)]
      /\ slots' \in [Names -> Wrappers]
      /\ \A m \in Names : m # n => slots'[m] = slots[m]
  <2>1. DOMAIN slots[n] \in SUBSET Kinds /\ cfg.general \in Generals
    BY WrapperFacts, ConfigParts DEF Sane, CoreTypes
  <2>2. [k \in DOMAIN slots[n] |-> Client(key, cfg.general)] \in Wrappers
    BY <2>1, WrapperFacts
  <2> QED BY <1>3, <2>2 DEF Sane, CoreTypes
<1>7. CoreTypes' /\ FallbackIsRegistered'
  BY <1>2, <1>3, <1>5, <1>6 DEF Sane, CoreTypes, FallbackIsRegistered, Registered
<1>8. Rooted'
  <2>1. n \notin DOMAIN cfg.providers => n \in Known
    BY EntryFacts DEF Sane, CoreTypes
  <2> QED BY <1>2, <1>3, <1>4, <1>5, <2>1 DEF Sane, Rooted, Registered
<1>9. Gone'
  <2>1. slots[n] = <<>> => slots'[n] = <<>>
    BY <1>6
  <2> QED BY <1>3, <1>6, <2>1 DEF Sane, Gone
<1>10. Agree'
  <2>1. \A m \in ToSet(order) : m # n => Served(w, m) = Served(cfg, m)
    BY <1>2 DEF Served
  <2>2. slots[n] = Served(cfg, n) => slots'[n] = Served(w, n)
    BY <1>1, <1>2, <1>4, <1>6 DEF Served
  <2>3. \A m \in ToSet(order) : m \in Names
    BY Elements DEF Sane, CoreTypes
  <2> QED BY <1>2, <1>3, <1>5, <1>6, <2>1, <2>2, <2>3 DEF Sane, Agree
<1> QED BY <1>7, <1>8, <1>9, <1>10 DEF Sane

LEMMA RemoveKeeps ==
  ASSUME Sane, NEW n \in Names, Unregister(n),
         Save([WithoutEntry(cfg, n) EXCEPT !.default = IF @ = n THEN fallback' ELSE @]),
         UNCHANGED <<applied, env>>
  PROVE  Sane'
<1> DEFINE r == WithoutEntry(cfg, n)
           w == [r EXCEPT !.default = IF @ = n THEN fallback' ELSE @]
           rest == Filter(order, Names \ {n})
<1>1. /\ r \in Config /\ r.default = cfg.default /\ r.general = cfg.general
      /\ DOMAIN r.providers = DOMAIN cfg.providers \ {n}
      /\ \A m : m # n => /\ EntryOf(r, m) = EntryOf(cfg, m)
                         /\ ResolvedType(r, m) = ResolvedType(cfg, m)
                         /\ KindsOf(r, m) = KindsOf(cfg, m)
  BY WithoutEntryFacts DEF Sane, CoreTypes
<1>2. rest \in Seq(Names) /\ IsInjective(rest) /\ ToSet(rest) = ToSet(order) \ {n}
  <2>1. ToSet(order) \subseteq Names
    BY Elements DEF Sane, CoreTypes
  <2>2. ToSet(rest) = ToSet(order) \cap (Names \ {n})
    BY FilterKeeps DEF Sane, CoreTypes
  <2> QED BY <2>1, <2>2, FilterKeeps DEF Sane, CoreTypes
<1>3. /\ order' = rest /\ slots' = [slots EXCEPT ![n] = <<>>]
      /\ fallback' = IF fallback # n THEN fallback ELSE IF rest = <<>> THEN None ELSE Head(rest)
  BY DEF Unregister
<1> HIDE DEF rest
<1>4. /\ fallback' \in Names \cup {None}
      /\ IF ToSet(rest) = {} THEN fallback' = None ELSE fallback' \in ToSet(rest)
  <2>1. IF ToSet(order) = {} THEN fallback = None ELSE fallback \in ToSet(order)
    BY FallbackBySet DEF Sane, CoreTypes
  <2>2. CASE fallback # n
    BY <1>2, <1>3, <2>1, <2>2, FirstKept DEF Sane, CoreTypes
  <2>3. CASE fallback = n
    <3>1. rest = <<>> <=> ToSet(rest) = {}
      BY <1>2, NothingKept
    <3>2. rest # <<>> => Head(rest) \in ToSet(rest) /\ Head(rest) \in Names
      BY <1>2, FirstKept
    <3> QED BY <1>3, <2>3, <3>1, <3>2
  <2> QED BY <2>2, <2>3
<1>5. w \in Config /\ w.providers = r.providers /\ w.general = cfg.general
  <2> DEFINE d == IF r.default = n THEN fallback' ELSE r.default
  <2>1. d \in Names \cup {None} /\ w = [r EXCEPT !.default = d]
    BY <1>1, <1>4, ConfigParts
  <2> HIDE DEF d, w, r
  <2> QED BY <1>1, <2>1, OtherDefault
<1>6. /\ DOMAIN w.providers = DOMAIN cfg.providers \ {n}
      /\ \A m : m # n => /\ EntryOf(w, m) = EntryOf(cfg, m)
                         /\ ResolvedType(w, m) = ResolvedType(cfg, m)
                         /\ KindsOf(w, m) = KindsOf(cfg, m)
  <2> HIDE DEF w, r
  <2> QED BY <1>1, <1>5, SameProviders
<1>7. Save(w)
  OBVIOUS
<1> HIDE DEF w
<1>8. cfg' = w /\ file' \in Config /\ missed' \in BOOLEAN /\ (~missed' => ~missed /\ file' = w)
  BY <1>5, <1>7, SaveFacts DEF Sane, CoreTypes
<1>9. slots' \in [Names -> Wrappers] /\ slots'[n] = <<>> /\ \A m \in Names : m # n => slots'[m] = slots[m]
  BY <1>3, WrapperFacts DEF Sane, CoreTypes
<1>10. FallbackIsRegistered'
  <2>1. rest = <<>> <=> ToSet(rest) = {}
    BY <1>2, NothingKept
  <2> QED BY <1>3, <1>4, <2>1 DEF FallbackIsRegistered, Registered
<1>11. CoreTypes'
  BY <1>2, <1>3, <1>4, <1>5, <1>8, <1>9 DEF Sane, CoreTypes
<1>12. Rooted'
  BY <1>2, <1>3, <1>6, <1>8 DEF Sane, Rooted, Registered
<1>13. Gone'
  BY <1>2, <1>3, <1>9 DEF Sane, Gone
<1>14. Agree'
  <2>1. \A m \in ToSet(rest) : Served(w, m) = Served(cfg, m)
    BY <1>2, <1>5, <1>6 DEF Served
  <2>2. \A m \in ToSet(rest) : m \in Names /\ m # n
    BY <1>2, Elements
  <2> QED BY <1>2, <1>3, <1>5, <1>8, <1>9, <2>1, <2>2 DEF Sane, Agree
<1> QED BY <1>10, <1>11, <1>12, <1>13, <1>14 DEF Sane

LEMMA DefaultKeeps ==
  ASSUME Sane, NEW n \in Names, Save([cfg EXCEPT !.default = n]),
         fallback' = IF Registered(n) THEN n ELSE fallback,
         UNCHANGED <<order, slots, applied, env>>
  PROVE  Sane'
<1> DEFINE w == [cfg EXCEPT !.default = n]
<1>1. w \in Config /\ w.providers = cfg.providers /\ w.general = cfg.general
  BY OtherDefault DEF Sane, CoreTypes
<1>2. Save(w)
  OBVIOUS
<1> HIDE DEF w
<1>3. cfg' = w /\ file' \in Config /\ missed' \in BOOLEAN /\ (~missed' => ~missed /\ file' = w)
  BY <1>1, <1>2, SaveFacts DEF Sane, CoreTypes
<1>4. \A m : /\ EntryOf(w, m) = EntryOf(cfg, m) /\ ResolvedType(w, m) = ResolvedType(cfg, m)
             /\ KindsOf(w, m) = KindsOf(cfg, m)
  BY <1>1, SameProviders
<1>5. FallbackIsRegistered'
  <2>1. Registered(n) => order # <<>>
    BY NothingKept DEF Registered, Sane, CoreTypes
  <2> QED BY <2>1 DEF FallbackIsRegistered, Registered, Sane
<1>6. CoreTypes'
  BY <1>1, <1>3 DEF Sane, CoreTypes
<1>7. Rooted' /\ Gone'
  BY <1>1, <1>3, <1>4 DEF Sane, Rooted, Gone, Registered
<1>8. Agree'
  BY <1>1, <1>3, <1>4 DEF Sane, Agree, Served
<1> QED BY <1>5, <1>6, <1>7, <1>8 DEF Sane

LEMMA GeneralKeeps ==
  ASSUME Sane, NEW g, UpdateGeneral(g), UNCHANGED env
  PROVE  Sane'
<1> DEFINE w == [cfg EXCEPT !.general = g]
<1>1. g \in Generals
  BY ConfigParts DEF UpdateGeneral, WellFormed, Sane, CoreTypes, Config
<1>2. w \in Config /\ w.providers = cfg.providers /\ w.general = g
  BY <1>1, OtherGeneral DEF Sane, CoreTypes
<1>3. UNCHANGED <<order, fallback>>
  BY DEF UpdateGeneral
<1>4. \/ /\ cfg' = w /\ file' = w /\ applied' = g /\ slots' = Rebuilt(g) /\ missed' = missed
      \/ /\ cfg' = w /\ file' \in Config /\ missed' = TRUE /\ UNCHANGED <<applied, slots>>
  BY DefaultsAreConfig DEF UpdateGeneral, SaveFails, Sane, CoreTypes
<1> HIDE DEF w
<1>5. \A m : /\ EntryOf(w, m) = EntryOf(cfg, m) /\ ResolvedType(w, m) = ResolvedType(cfg, m)
             /\ KindsOf(w, m) = KindsOf(cfg, m)
  BY <1>2, SameProviders
<1>6. FallbackIsRegistered'
  BY <1>3 DEF FallbackIsRegistered, Registered, Sane
<1>7. Rooted'
  BY <1>2, <1>3, <1>4, <1>5 DEF Sane, Rooted, Registered
<1>8. CASE missed' = TRUE /\ UNCHANGED <<applied, slots>> /\ cfg' = w /\ file' \in Config
  BY <1>2, <1>3, <1>6, <1>7, <1>8 DEF Sane, CoreTypes, Gone, Agree
<1>9. CASE cfg' = w /\ file' = w /\ applied' = g /\ slots' = Rebuilt(g) /\ missed' = missed
  <2>1. \A n \in Names :
          slots'[n] = IF EntryOf(cfg, n).key # None /\ ResolvedType(cfg, n) \in Known
                      THEN [k \in DOMAIN slots[n] |-> Client(EntryOf(cfg, n).key, g)]
                      ELSE slots[n]
    BY <1>9 DEF Rebuilt
  <2>2. slots' \in [Names -> Wrappers]
    <3>1. \A n \in Names : DOMAIN slots[n] \in SUBSET Kinds /\ slots[n] \in Wrappers
      BY WrapperFacts DEF Sane, CoreTypes
    <3>2. \A n \in Names : EntryOf(cfg, n).key \in Keys \cup {None}
      BY EntryFacts DEF Sane, CoreTypes
    <3>3. \A n \in Names : [k \in DOMAIN slots[n] |-> Client(EntryOf(cfg, n).key, g)] \in Wrappers
      BY <1>1, <3>1, <3>2, WrapperFacts
    <3> QED BY <1>9, <3>1, <3>3 DEF Rebuilt
  <2>3. CoreTypes'
    BY <1>1, <1>2, <1>3, <1>9, <2>2 DEF Sane, CoreTypes
  <2>4. Gone'
    <3>1. ASSUME NEW n \in Names, slots[n] = <<>> PROVE slots'[n] = <<>>
      <4>1. [k \in DOMAIN slots[n] |-> Client(EntryOf(cfg, n).key, g)] = <<>>
        BY <3>1
      <4> QED BY <2>1, <3>1, <4>1
    <3> QED BY <1>3, <3>1 DEF Sane, Gone
  <2>5. Agree'
    <3>1. ASSUME NEW n \in ToSet(order), slots[n] = Served(cfg, n)
          PROVE  slots'[n] = Served(w, n)
      <4>1. n \in Names /\ ResolvedType(cfg, n) \in Known
        BY Elements DEF Sane, CoreTypes, Rooted
      <4>2. CASE EntryOf(cfg, n).key # None
        <5>1. slots'[n] = [k \in DOMAIN slots[n] |-> Client(EntryOf(cfg, n).key, g)]
          BY <2>1, <4>1, <4>2
        <5>2. DOMAIN slots[n] = KindsOf(cfg, n) \ EntryOf(cfg, n).off
          BY <3>1 DEF Served
        <5> QED BY <1>2, <1>5, <5>1, <5>2 DEF Served
      <4>3. CASE EntryOf(cfg, n).key = None
        <5>1. slots'[n] = slots[n]
          BY <2>1, <4>1, <4>3
        <5>2. Served(cfg, n) = Served(w, n)
          BY <1>2, <1>5, <4>3 DEF Served, Client
        <5> QED BY <3>1, <5>1, <5>2
      <4> QED BY <4>2, <4>3
    <3> QED BY <1>2, <1>3, <1>9, <3>1 DEF Sane, Agree
  <2> QED BY <1>6, <1>7, <2>3, <2>4, <2>5 DEF Sane
<1> QED BY <1>4, <1>8, <1>9

LEMMA OverriddenFacts ==
  ASSUME NEW c \in Config, NEW v, Loads(c, v)
  PROVE  LET w == Overridden(c, v) IN
         /\ w \in Config /\ w.providers = c.providers
         /\ w.general = IF v = 0 THEN c.general ELSE v
         /\ v \in Generals \cup {0}
<1>1. CASE v = 0
  BY <1>1 DEF Overridden
<1>2. CASE v # 0
  <2>1. Overridden(c, v) = [c EXCEPT !.general = v]
    BY <1>2 DEF Overridden
  <2>2. v \in Generals
    BY <2>1, ConfigParts DEF Loads, WellFormed, Config
  <2> QED BY <1>2, <2>1, <2>2, OtherGeneral
<1> QED BY <1>1, <1>2

LEMMA RestartKeeps ==
  ASSUME Sane, Restart
  PROVE  Sane'
<1>1. env' \in Overrides /\ Loads(file, env') /\ missed' = FALSE /\ file' = file
  BY DEF Restart
<1>2. /\ Overridden(file, env') \in Config
      /\ Overridden(file, env').providers = file.providers
      /\ Overridden(file, env').general = IF env' = 0 THEN file.general ELSE env'
      /\ env' \in Generals \cup {0}
  BY <1>1, OverriddenFacts DEF Sane, CoreTypes
<1> DEFINE c == Overridden(file, env')
<1>3. /\ cfg' = c /\ order' = StartOrder(c) /\ slots' = StartSlots(c)
      /\ fallback' = DefaultProviderName(c) /\ applied' = c.general
  BY DEF Restart, StartsFrom
<1> HIDE DEF c
<1>4. JustStarted'
  BY <1>1, <1>2, <1>3 DEF JustStarted, Sane, CoreTypes, c
<1> QED BY <1>4, StartSaneNext

LEMMA InitSane == SettingsInit => Sane
<1> SUFFICES ASSUME SettingsInit PROVE JustStarted
  BY StartSane
<1>1. 0 \in Overrides
  BY SettingsAssumption DEF SettingsAssumption
<1> QED BY <1>1, DefaultsAreConfig DEF SettingsInit, JustStarted

-------------------------------------------------------------------------------
(***************************************************************************)
(* The requests.                                                           *)
(***************************************************************************)
RequestsOK == request \in [Requests -> PendingRequest]

LEMMA RequestFields ==
  ASSUME NEW q \in PendingRequest, q # Idle
  PROVE  /\ q.name \in Names
         /\ q.op = "key" => q.key \in Keys \cup {None}
         /\ q.op = "clear" => q.kinds \subseteq Kinds
         /\ q.op = "add" => q.type \in Known /\ q.key \in Keys \cup {None}
BY DEF PendingRequest

LEMMA HandledRequest ==
  ASSUME RequestsOK, NEW r \in Requests, request[r].op # "none"
  PROVE  /\ request[r].name \in Names
         /\ request[r].op = "key" => request[r].key \in Keys \cup {None}
         /\ request[r].op = "clear" => request[r].kinds \subseteq Kinds
         /\ request[r].op = "add" => request[r].type \in Known /\ request[r].key \in Keys \cup {None}
<1>1. request[r] \in PendingRequest
  BY DEF RequestsOK
<1>2. request[r] # Idle
  BY DEF Idle
<1> QED BY <1>1, <1>2, RequestFields

LEMMA EndsOK == ASSUME RequestsOK, NEW r, Ends(r) PROVE RequestsOK'
BY DEF RequestsOK, Ends, PendingRequest

LEMMA GoesOK ==
  ASSUME RequestsOK, NEW r, NEW q \in PendingRequest, Goes(r, q)
  PROVE  RequestsOK'
BY DEF RequestsOK, Goes

LEMMA HandlesKeeps ==
  ASSUME Sane, RequestsOK, NEW r \in Requests, Handles(r), UNCHANGED env
  PROVE  Sane' /\ RequestsOK'
<1> DEFINE q == request[r]
           n == q.name
<1>1. ASSUME Refused(r) PROVE Sane' /\ RequestsOK'
  <2>1. Sane'
    BY <1>1 DEF Refused, Sane, CoreTypes, Rooted, Gone, Agree, FallbackIsRegistered, Registered
  <2>2. RequestsOK'
    BY <1>1, EndsOK DEF Refused
  <2> QED BY <2>1, <2>2
<1>2. CASE KeySet(r)
  <2>1. n \in Names /\ q.key \in Keys \cup {None}
    BY <1>2, HandledRequest DEF KeySet
  <2>2. CASE ResolvedType(cfg, n) \in Known /\ SetProviderAPIKey(n, q.key) /\ Ends(r)
    BY <2>1, <2>2, KeyKeeps, EndsOK
  <2> QED BY <1>1, <1>2, <2>2 DEF KeySet
<1>3. CASE KindsSet(r)
  <2>1. n \in Names
    BY <1>3, HandledRequest DEF KindsSet
  <2>2. CASE ~Refuses(n, q.ask) /\ SetProviderKinds(n, q.ask) /\ Ends(r)
    <3> DEFINE entry == EntryOf(cfg, n)
               want == WantedKinds(n, q.ask)
               e == [entry EXCEPT !.off = KindsOf(cfg, n) \ want]
    <3>1. entry \in Entry /\ KindsOf(cfg, n) \subseteq Kinds
      BY EntryFacts DEF Sane, CoreTypes
    <3>2. /\ e \in Entry /\ e.key = entry.key /\ e.type = entry.type
          /\ e.off = KindsOf(cfg, n) \ want
      BY <3>1 DEF Entry
    <3> HIDE DEF e, want
    <3>3. EntryOf(WithEntry(cfg, n, e), n) = e
      BY <2>1, <3>2, WithEntryFacts DEF Sane, CoreTypes
    <3>4. /\ ResolvedType(WithEntry(cfg, n, e), n) = ResolvedType(cfg, n)
          /\ KindsOf(WithEntry(cfg, n, e), n) = KindsOf(cfg, n)
      BY <3>2, <3>3 DEF ResolvedType, KindsOf
    <3>5. ResolvedType(cfg, n) \in Known
      BY <2>2 DEF Refuses
    <3>6. /\ SetKinds(n, KindsOf(cfg, n) \cap want, e.key, cfg.general)
          /\ Save(WithEntry(cfg, n, e)) /\ UNCHANGED applied
      BY <2>2, <3>2 DEF SetProviderKinds, e, want
    <3>7. KindsOf(cfg, n) \cap want = KindsOf(WithEntry(cfg, n, e), n) \ e.off
      BY <3>2, <3>4
    <3>8. Sane'
      BY <2>1, <3>2, <3>4, <3>5, <3>6, <3>7, RegisterKeeps
    <3> QED BY <2>2, <3>8, EndsOK
  <2> QED BY <1>1, <1>3, <2>2 DEF KindsSet
<1>4. CASE ResetReads(r)
  <2>1. Sane'
    BY <1>4 DEF ResetReads, Sane, CoreTypes, Rooted, Gone, Agree, FallbackIsRegistered, Registered
  <2>2. n \in Names /\ KindsOf(cfg, n) \in SUBSET Kinds
    BY <1>4, HandledRequest, EntryFacts DEF ResetReads, Sane, CoreTypes
  <2>3. [op |-> "clear", name |-> n, kinds |-> KindsOf(cfg, n)] \in PendingRequest
    BY <2>2 DEF PendingRequest
  <2>4. RequestsOK'
    BY <1>4, <2>3, EndsOK, GoesOK DEF ResetReads
  <2> QED BY <2>1, <2>4
<1>5. CASE ResetClears(r)
  <2>1. n \in Names /\ q.kinds \in SUBSET Kinds
    BY <1>5, HandledRequest DEF ResetClears
  <2>2. CASE /\ ResolvedType(cfg, n) \in Known
             /\ SetProviderAPIKey(n, None)
             /\ IF Saved THEN Goes(r, [op |-> "kinds", name |-> n, ask |-> [k \in q.kinds |-> TRUE]])
                ELSE Ends(r)
    <3>1. Sane'
      BY <2>1, <2>2, KeyKeeps
    <3>2. [op |-> "kinds", name |-> n, ask |-> [k \in q.kinds |-> TRUE]] \in PendingRequest
      BY <2>1 DEF PendingRequest
    <3>3. RequestsOK'
      BY <2>2, <3>2, EndsOK, GoesOK
    <3> QED BY <3>1, <3>3
  <2> QED BY <1>1, <1>5, <2>2 DEF ResetClears
<1>6. CASE AddProvider(r)
  <2>1. n \in Names /\ q.type \in Known /\ q.key \in Keys \cup {None}
    BY <1>6, HandledRequest DEF AddProvider
  <2>2. CASE /\ SetKinds(n, Supports[q.type], q.key, cfg.general)
             /\ Save(WithEntry(cfg, n, AddedEntry(n, q.type, q.key)))
             /\ Ends(r) /\ UNCHANGED applied
    <3> DEFINE e == AddedEntry(n, q.type, q.key)
    <3>1. /\ e \in Entry /\ e.key = q.key /\ e.off = {}
          /\ (IF e.type # None THEN e.type ELSE n) = q.type
      BY <2>1, NoneIsNoName DEF AddedEntry, Entry
    <3> HIDE DEF e
    <3>2. EntryOf(WithEntry(cfg, n, e), n) = e
      BY <2>1, <3>1, WithEntryFacts DEF Sane, CoreTypes
    <3>3. /\ ResolvedType(WithEntry(cfg, n, e), n) = q.type
          /\ KindsOf(WithEntry(cfg, n, e), n) = Supports[q.type]
      BY <2>1, <3>1, <3>2 DEF ResolvedType, KindsOf
    <3>4. Supports[q.type] = KindsOf(WithEntry(cfg, n, e), n) \ e.off
      BY <3>1, <3>3
    <3>5. SetKinds(n, Supports[q.type], e.key, cfg.general) /\ Save(WithEntry(cfg, n, e))
      BY <2>2, <3>1 DEF e
    <3>6. Sane'
      BY <2>1, <2>2, <3>1, <3>3, <3>4, <3>5, RegisterKeeps
    <3> QED BY <2>2, <3>6, EndsOK
  <2> QED BY <1>1, <1>6, <2>2 DEF AddProvider
<1>7. CASE RemoveProvider(r)
  <2>1. n \in Names
    BY <1>7, HandledRequest DEF RemoveProvider
  <2>2. CASE /\ Unregister(n)
             /\ Save([WithoutEntry(cfg, n) EXCEPT !.default = IF @ = n THEN fallback' ELSE @])
             /\ Ends(r) /\ UNCHANGED applied
    BY <2>1, <2>2, RemoveKeeps, EndsOK
  <2> QED BY <1>1, <1>7, <2>2 DEF RemoveProvider
<1>8. CASE SetDefaultProvider(r)
  <2>1. n \in Names
    BY <1>8, HandledRequest DEF SetDefaultProvider
  <2>2. Sane'
    BY <1>8, <2>1, DefaultKeeps DEF SetDefaultProvider
  <2> QED BY <1>8, <2>2, EndsOK DEF SetDefaultProvider
<1> QED BY <1>2, <1>3, <1>4, <1>5, <1>6, <1>7, <1>8 DEF Handles

LEMMA ArrivesKeeps ==
  ASSUME Sane, RequestsOK, NEW r \in Requests, Arrives(r), UNCHANGED env
  PROVE  Sane' /\ RequestsOK'
<1>1. Sane'
  BY DEF Arrives, Sane, CoreTypes, Rooted, Gone, Agree, FallbackIsRegistered, Registered
<1>2. PICK n \in Names : \E q \in Asked(n) : Goes(r, q)
  BY DEF Arrives
<1>3. PICK q \in Asked(n) : Goes(r, q)
  BY <1>2
<1>4. q \in PendingRequest
  BY DEF Asked, PendingRequest
<1>5. RequestsOK'
  BY <1>3, <1>4, GoesOK
<1> QED BY <1>1, <1>5

LEMMA SettingsKeep == Sane /\ RequestsOK /\ [SettingsNext]_settingsVars => (Sane /\ RequestsOK)'
<1> SUFFICES ASSUME Sane, RequestsOK, [SettingsNext]_settingsVars PROVE Sane' /\ RequestsOK'
  OBVIOUS
<1>1. ASSUME NEW r \in Requests, Arrives(r) \/ Handles(r), UNCHANGED env PROVE Sane' /\ RequestsOK'
  BY <1>1, ArrivesKeeps, HandlesKeeps
<1>2. ASSUME NEW g, UpdateGeneral(g), UNCHANGED env PROVE Sane' /\ RequestsOK'
  <2>1. UNCHANGED request
    BY <1>2 DEF UpdateGeneral
  <2> QED BY <1>2, <2>1, GeneralKeeps DEF RequestsOK
<1>3. CASE Restart
  <2>1. RequestsOK'
    BY <1>3 DEF Restart, RequestsOK, PendingRequest
  <2> QED BY <1>3, <2>1, RestartKeeps
<1>4. CASE UNCHANGED settingsVars
  BY <1>4 DEF settingsVars, RequestsOK, Sane, CoreTypes, Rooted, Gone, Agree,
              FallbackIsRegistered, Registered, Served
<1> QED BY <1>1, <1>2, <1>3, <1>4 DEF SettingsNext, SettingsSide

LEMMA InitRequests == SettingsInit => RequestsOK
BY DEF SettingsInit, RequestsOK, PendingRequest

LEMMA SettingsInvariant == SettingsSpec => [](Sane /\ RequestsOK)
<1> QED BY InitSane, InitRequests, SettingsKeep, PTL DEF SettingsSpec

-------------------------------------------------------------------------------
(***************************************************************************)
(* Theorems about the settings.                                            *)
(***************************************************************************)
\* Configuration, file, registry and requests have their types, and no name
\* is registered twice, whatever requests overlap and fail (indexOf, SetKinds).
THEOREM SettingsTypes == SettingsSpec => []SettingsTypeOK
<1>1. Sane /\ RequestsOK => SettingsTypeOK
  BY DEF Sane, CoreTypes, RequestsOK, SettingsTypeOK, Wrappers
<1> QED BY <1>1, SettingsInvariant, PTL

\* The registry always has a registered provider to send a download to, as
\* long as it has any (Unregister, SetDefault).
THEOREM FallbackRegistered == SettingsSpec => []FallbackIsRegistered
<1>1. Sane /\ RequestsOK => FallbackIsRegistered
  BY DEF Sane
<1> QED BY <1>1, SettingsInvariant, PTL

\* Until a write of config.yaml fails, a restart leaves every provider with
\* the kinds, the key and the settings it runs with (SetProviderAPIKey,
\* SetProviderKinds, AddProvider, RemoveProvider, UpdateGeneral, Load).
THEOREM RestartsChangeNothing == SettingsSpec => []RestartChangesNothing
<1>1. Sane => RestartChangesNothing
  <2> SUFFICES ASSUME Sane, ~missed
               PROVE  LET read == Overridden(file, env) IN
                      /\ Loads(file, env)
                      /\ env \in {0, applied} =>
                           /\ \A n \in ToSet(order) : slots[n] = StartSlots(read)[n]
                           /\ applied = read.general
    BY DEF RestartChangesNothing
  <2> DEFINE read == Overridden(file, env)
  <2>1. Loads(file, env)
    <3>1. CASE env = 0
      BY <3>1, ConfigParts DEF Loads, Overridden, WellFormed, Sane, CoreTypes
    <3>2. CASE env # 0
      BY <3>2, OtherGeneral DEF Loads, Overridden, WellFormed, Sane, CoreTypes
    <3> QED BY <3>1, <3>2
  <2>2. /\ read \in Config /\ read.providers = file.providers
        /\ read.general = IF env = 0 THEN file.general ELSE env
    BY <2>1, OverriddenFacts DEF Sane, CoreTypes
  <2>3. /\ file.providers = cfg.providers /\ applied = cfg.general
        /\ file.general = cfg.general \/ cfg.general = env
        /\ \A n \in ToSet(order) : slots[n] = Served(cfg, n)
    BY DEF Sane, Agree
  <2> HIDE DEF read
  <2>4. ASSUME env \in {0, applied}
        PROVE  /\ \A n \in ToSet(order) : slots[n] = StartSlots(read)[n]
               /\ applied = read.general
    <3>1. 0 \notin Generals /\ cfg.general \in Generals
      BY SettingsAssumption, ConfigParts DEF SettingsAssumption, Sane, CoreTypes
    <3>2. applied = read.general
      BY <2>2, <2>3, <2>4, <3>1
    <3>3. ASSUME NEW n \in ToSet(order) PROVE slots[n] = StartSlots(read)[n]
      <4>1. n \in Names /\ ResolvedType(cfg, n) \in Known
        BY Elements DEF Sane, CoreTypes, Rooted
      <4>2. /\ EntryOf(read, n) = EntryOf(cfg, n) /\ KindsOf(read, n) = KindsOf(cfg, n)
            /\ ResolvedType(read, n) = ResolvedType(cfg, n)
        BY <2>2, <2>3, SameProviders
      <4>3. n \in DOMAIN read.providers \cup Known
        BY <2>2, <4>1, <4>2, EntryFacts
      <4>4. StartSlots(read)[n] = Served(read, n)
        BY <2>2, <4>1, <4>2, <4>3, StartOrderFacts, StartSlotsFacts
      <4>5. Served(read, n) = Served(cfg, n)
        BY <2>3, <3>2, <4>2 DEF Served
      <4> QED BY <2>3, <4>4, <4>5
    <3> QED BY <3>2, <3>3
  <2> QED BY <2>1, <2>4 DEF read
<1> QED BY <1>1, SettingsInvariant, PTL

\* An entry that is no type of its own is registered by being added only: a
\* reset, a key or kinds that were on their way when it was removed find
\* nothing, and neither does a restart, unless a write has failed.
THEOREM RemovedStayGone == SettingsSpec => RemovedAccountsStayGone
<1> DEFINE Comes(n) == ~Registered(n) /\ Registered(n)'
           Added(n) == \E r \in Requests : request[r].op = "add" /\ request[r].name = n
<1>1. ASSUME Sane, SettingsNext, NEW n \in Names \ Known, Comes(n)
      PROVE  missed \/ Added(n)
  <2>1. ASSUME NEW r \in Requests, KindsSet(r) PROVE FALSE
    <3> DEFINE m == request[r].name
    <3>1. ~Refuses(m, request[r].ask) /\ order' = OrderWith(m)
      BY <1>1, <2>1 DEF KindsSet, Refused, SetProviderKinds, SetKinds, Registered
    <3>2. n = m
      BY <1>1, <3>1, Appended, NoneIsNoName DEF OrderWith, Registered, ToSet, Sane, CoreTypes
    <3>3. ResolvedType(cfg, n) \in Known
      BY <3>1, <3>2 DEF Refuses
    <3>4. n \in DOMAIN cfg.providers
      BY <1>1, <3>3, EntryFacts DEF Sane, CoreTypes
    <3> QED BY <1>1, <3>3, <3>4 DEF Sane, Rooted
  <2>2. ASSUME NEW r \in Requests, AddProvider(r) PROVE Added(n)
    <3> DEFINE m == request[r].name
    <3>1. order' = OrderWith(m) /\ request[r].op = "add"
      BY <1>1, <2>2 DEF AddProvider, Refused, SetKinds, Registered
    <3>2. n = m
      BY <1>1, <3>1, Appended DEF OrderWith, Registered, ToSet, Sane, CoreTypes
    <3> QED BY <3>1, <3>2
  <2>3. ASSUME NEW r \in Requests, RemoveProvider(r) PROVE FALSE
    <3>1. order' = Filter(order, Names \ {request[r].name})
      BY <1>1, <2>3 DEF RemoveProvider, Refused, Unregister, Registered
    <3>2. ToSet(order') \subseteq ToSet(order)
      BY <1>1, <3>1, FilterKeeps DEF Sane, CoreTypes
    <3> QED BY <1>1, <3>2 DEF Registered
  <2>4. CASE Restart /\ ~missed
    <3> DEFINE c == Overridden(file, env')
    <3>1. order' = StartOrder(c) /\ Loads(file, env')
      BY <2>4 DEF Restart, StartsFrom
    <3>2. c \in Config /\ c.providers = cfg.providers
      BY <1>1, <2>4, <3>1, OverriddenFacts DEF Sane, CoreTypes, Agree
    <3> HIDE DEF c
    <3>3. n \in DOMAIN c.providers \cup Known /\ ResolvedType(c, n) \in Known
      BY <1>1, <3>1, <3>2, StartOrderFacts DEF Registered
    <3>4. n \in DOMAIN cfg.providers /\ ResolvedType(cfg, n) \in Known
      BY <1>1, <3>2, <3>3, SameProviders
    <3> QED BY <1>1, <3>4 DEF Sane, Rooted
  <2>5. CASE UNCHANGED order
    BY <1>1, <2>5 DEF Registered
  <2>6. ASSUME NEW r \in Requests,
               Arrives(r) \/ KeySet(r) \/ ResetReads(r) \/ ResetClears(r) \/ SetDefaultProvider(r)
        PROVE  UNCHANGED order
    BY <2>6 DEF Arrives, KeySet, ResetReads, ResetClears, SetDefaultProvider, SetProviderAPIKey, Refused
  <2>7. ASSUME NEW g, UpdateGeneral(g) PROVE UNCHANGED order
    BY <2>7 DEF UpdateGeneral
  <2> HIDE DEF Comes, Added
  <2> QED BY <1>1, <2>1, <2>2, <2>3, <2>4, <2>5, <2>6, <2>7 DEF SettingsNext, SettingsSide, Handles
<1>2. Sane /\ [SettingsNext]_settingsVars =>
        [\A n \in Names \ Known :
           ~Registered(n) /\ Registered(n)' =>
             \/ missed
             \/ \E r \in Requests : request[r].op = "add" /\ request[r].name = n]_settingsVars
  BY <1>1
<1> QED BY <1>2, SettingsInvariant, PTL DEF SettingsSpec, RemovedAccountsStayGone

\* If any provider of a kind holds a key, an add through the API goes to one
\* that does, after any requests, failed writes and restarts
\* (resolveAddProvider, configuredProviderFor, DefaultNameFor).
THEOREM ApiFindsAKey == SettingsSpec => []ApiAddsFindAKey
<1>1. Sane => ApiAddsFindAKey
  <2> SUFFICES ASSUME Sane, NEW k \in Kinds, NEW n \in Names, Configured(n, k)
               PROVE  ResolveAddProvider(k) # None /\ Configured(ResolveAddProvider(k), k)
    BY DEF ApiAddsFindAKey
  <2> DEFINE S == {m \in Names : Serves(m, k)}
             serving == Filter(order, S)
             C == {m \in Names : Configured(m, k)}
             others == Filter(order, C)
             d == DefaultNameFor(k)
  <2>1. order \in Seq(Names)
    BY DEF Sane, CoreTypes
  <2>2. n \in ToSet(order)
    BY WrapperFacts DEF Sane, Gone, Configured, Serves
  <2>3. serving \in Seq(Names) /\ ToSet(serving) = ToSet(order) \cap S
    <3> HIDE DEF S
    <3> QED BY <2>1, FilterKeeps
  <2>4. others \in Seq(Names) /\ ToSet(others) = ToSet(order) \cap C
    <3> HIDE DEF C
    <3> QED BY <2>1, FilterKeeps
  <2>5. n \in ToSet(serving) /\ n \in ToSet(others)
    BY <2>2, <2>3, <2>4 DEF Configured
  <2>6. d = IF fallback # None /\ fallback \in ToSet(serving) THEN fallback
            ELSE IF serving # <<>> THEN Head(serving) ELSE None
    BY DEF DefaultNameFor
  <2>7. serving # <<>> /\ others # <<>>
    BY <2>3, <2>4, <2>5, NothingKept
  <2> HIDE DEF serving, d
  <2>8. d \in ToSet(serving)
    BY <2>3, <2>6, <2>7, FirstKept
  <2>9. d # None /\ Serves(d, k)
    BY <2>3, <2>8, NoneIsNoName
  <2>10. ResolveAddProvider(k) = IF Configured(d, k) THEN d ELSE Head(others)
    BY <2>7, <2>9 DEF ResolveAddProvider, ConfiguredProviderFor, d
  <2> HIDE DEF others
  <2>11. Head(others) \in Names /\ Configured(Head(others), k)
    BY <2>4, <2>7, FirstKept
  <2> QED BY <2>9, <2>10, <2>11, NoneIsNoName
<1> QED BY <1>1, SettingsInvariant, PTL

\* Adds look at the settings and change nothing in them, so everything above
\* holds beside them.
THEOREM AddsLeaveSettings == RoutingSpec => SettingsSpec
<1>1. RoutingInit => SettingsInit
  BY DEF RoutingInit
<1>2. [RoutingNext]_routingVars => [SettingsNext]_settingsVars
  <2> SUFFICES ASSUME [RoutingNext]_routingVars PROVE [SettingsNext]_settingsVars
    OBVIOUS
  <2>1. CASE SettingsSide
    BY <2>1 DEF SettingsNext
  <2>2. ASSUME NEW a \in Adders, AddStep(a) PROVE UNCHANGED settingsVars
    BY <2>2 DEF AddStep, AddsTorrent, AddsNZB, HandleAddTorrent, HandleAddUsenet,
       HandleAddWebDownload, Sends, Takes, CallFails, TriesNext, ApiStores, StoresTorrent,
       StoresNZB, ShimStores, Becomes
  <2>3. CASE RoutingRestart
    BY <2>3 DEF RoutingRestart, SettingsNext
  <2>4. CASE UNCHANGED routingVars
    BY <2>4 DEF routingVars
  <2> QED BY <2>1, <2>2, <2>3, <2>4 DEF RoutingNext
<1> QED BY <1>1, <1>2, PTL DEF RoutingSpec, SettingsSpec

-------------------------------------------------------------------------------
(***************************************************************************)
(* One add: until the provider has taken the item there is no copy, then   *)
(* one in the account asked last, and a row only when the add is over.     *)
(***************************************************************************)
Fields == {"stage", "via", "kind", "asked", "name", "chosen", "todo", "held", "row"}

RowIsRight(r) == r.via = "api" /\ r.row # None => r.row \in r.held

Sound(r) ==
  /\ DOMAIN r = Fields
  /\ r.stage \in {"new", "sent", "next", "taken", "over"}
  /\ r.stage \in {"new", "sent", "next"} => r.held = {}
  /\ r.stage = "taken" => r.held = {r.name}
  /\ r.stage # "over" => r.row = None
  /\ \E n : r.held \subseteq {n}
  /\ RowIsRight(r)

AllSound == DOMAIN add = Adders /\ \A a \in Adders : Sound(add[a])

LEMMA NewSound == Sound(NewAdd) /\ NewAdd.held = {} /\ NewAdd.row = None
BY DEF NewAdd, Sound, Fields, RowIsRight

\* An add that ends keeps its copies, and a row that names one of them.
LEMMA OverSound ==
  ASSUME NEW r, Sound(r), NEW row, r.via = "api" /\ row # None => row \in r.held
  PROVE  Sound(Over(r, row))
<1> DEFINE o == Over(r, row)
<1>1. /\ DOMAIN o = Fields /\ o.stage = "over"
      /\ o.via = r.via /\ o.held = r.held /\ o.row = row
  BY DEF Over, NewAdd, Fields
<1>2. \E n : r.held \subseteq {n}
  BY DEF Sound
<1>3. RowIsRight(o)
  BY <1>1 DEF RowIsRight
<1> HIDE DEF o
<1>4. Sound(o)
  BY <1>1, <1>2, <1>3 DEF Sound
<1> QED BY <1>4 DEF o

LEMMA BecomesSound ==
  ASSUME AllSound, NEW a \in Adders, NEW next, Sound(next), Becomes(a, next)
  PROVE  AllSound'
<1>1. DOMAIN add' = Adders /\ add'[a] = next /\ \A b \in Adders : b # a => add'[b] = add[b]
  BY DEF AllSound, Becomes
<1>2. \A b \in Adders : Sound(add'[b])
  <2> TAKE b \in Adders
  <2>1. CASE b = a
    BY <2>1, <1>1
  <2>2. CASE b # a
    <3>1. Sound(add[b])
      BY DEF AllSound
    <3> QED BY <2>2, <3>1, <1>1
  <2> QED BY <2>1, <2>2
<1> QED BY <1>1, <1>2 DEF AllSound

-------------------------------------------------------------------------------
(***************************************************************************)
(* The steps of an add.                                                    *)
(***************************************************************************)
LEMMA SendSound ==
  ASSUME AllSound, NEW a \in Adders, NEW via, NEW k, NEW n, NEW chosen,
         Sends(a, via, k, n, chosen)
  PROVE  AllSound'
<1> DEFINE next == [NewAdd EXCEPT !.stage = "sent", !.via = via, !.kind = k,
                                  !.asked = n, !.name = n, !.chosen = chosen]
<1>1. Sound(next)
  <2>1. DOMAIN next = Fields /\ next.stage = "sent" /\ next.held = {} /\ next.row = None
    BY DEF NewAdd, Fields
  <2> HIDE DEF next
  <2> QED BY <2>1 DEF Sound, RowIsRight
<1>2. Becomes(a, next)
  BY DEF Sends
<1> HIDE DEF next
<1> QED BY <1>1, <1>2, BecomesSound

LEMMA TakeSound ==
  ASSUME AllSound, NEW a \in Adders, Takes(a)
  PROVE  AllSound'
<1> DEFINE r == add[a]
           next == [r EXCEPT !.stage = "taken", !.held = r.held \cup {r.name}]
<1>1. Sound(r) /\ r.stage = "sent"
  BY DEF AllSound, Takes
<1>2. Becomes(a, next)
  BY DEF Takes
<1>3. /\ DOMAIN next = Fields /\ next.stage = "taken" /\ next.name = r.name
      /\ next.held = {r.name} /\ next.row = None
  BY <1>1 DEF Sound, Fields
<1> HIDE DEF next
<1>4. Sound(next)
  BY <1>3 DEF Sound, RowIsRight
<1> QED BY <1>2, <1>4, BecomesSound

LEMMA FailSound ==
  ASSUME AllSound, NEW a \in Adders, CallFails(a)
  PROVE  AllSound'
<1> DEFINE r == add[a]
<1>1. Sound(r) /\ r.stage = "sent" /\ r.held = {} /\ r.row = None
  BY DEF AllSound, CallFails, Sound
<1>2. PICK held \in IF HostSupported(a) THEN {{}, {r.name}} ELSE {{}} :
        LET then == [r EXCEPT !.stage = AfterFailure(a, ~HostSupported(a)),
                              !.todo = Others(a),
                              !.held = r.held \cup held]
        IN  Becomes(a, IF then.stage = "failed" THEN Over(then, None) ELSE then)
  BY DEF CallFails
<1> DEFINE stage == AfterFailure(a, ~HostSupported(a))
           todo == Others(a)
           then == [r EXCEPT !.stage = stage, !.todo = todo, !.held = r.held \cup held]
<1>3. stage \in {"next", "failed"} /\ (stage = "next" => ~HostSupported(a))
  BY DEF AfterFailure
<1>4. held \subseteq {r.name} /\ (stage = "next" => held = {})
  BY <1>2, <1>3
<1> HIDE DEF stage, todo
<1>5. /\ DOMAIN then = Fields /\ then.stage = stage /\ then.held = held
      /\ then.via = r.via /\ then.row = None /\ then.name = r.name
  BY <1>1 DEF Sound, Fields
<1>6. Becomes(a, IF then.stage = "failed" THEN Over(then, None) ELSE then)
  BY <1>2 DEF stage, todo
<1> HIDE DEF then
<1>7. CASE stage = "next"
  <2>1. Sound(then)
    BY <1>4, <1>5, <1>7 DEF Sound, RowIsRight
  <2>2. Becomes(a, then)
    BY <1>5, <1>6, <1>7
  <2> QED BY <2>1, <2>2, BecomesSound
<1>8. CASE stage = "failed"
  <2> DEFINE o == Over(then, None)
  <2>1. DOMAIN o = Fields /\ o.stage = "over" /\ o.held = held /\ o.row = None
    BY <1>5 DEF Over, NewAdd, Fields
  <2>2. Becomes(a, o)
    BY <1>5, <1>6, <1>8
  <2> HIDE DEF o
  <2>3. Sound(o)
    BY <2>1, <1>4 DEF Sound, RowIsRight
  <2> QED BY <2>2, <2>3, BecomesSound
<1> QED BY <1>3, <1>7, <1>8

LEMMA NextSound ==
  ASSUME AllSound, NEW a \in Adders, TriesNext(a)
  PROVE  AllSound'
<1> DEFINE r == add[a]
<1>1. Sound(r) /\ r.stage = "next" /\ r.held = {} /\ r.row = None
  BY DEF AllSound, TriesNext, Sound
<1>2. CASE r.todo = <<>>
  <2>1. Becomes(a, Over(r, None))
    BY <1>2 DEF TriesNext
  <2>2. Sound(Over(r, None))
    BY <1>1, OverSound
  <2> QED BY <2>1, <2>2, BecomesSound
<1>3. CASE r.todo # <<>>
  <2> DEFINE todo == Tail(r.todo)
             n == Head(r.todo)
             name == IF Configured(n, "webdl") THEN n ELSE r.name
             stage == IF Configured(n, "webdl") THEN "sent" ELSE r.stage
             next == [r EXCEPT !.todo = todo, !.name = name, !.stage = stage]
  <2>1. Becomes(a, next)
    BY <1>3 DEF TriesNext
  <2>2. stage \in {"sent", "next"}
    BY <1>1
  <2> HIDE DEF todo, name, stage
  <2>3. DOMAIN next = Fields /\ next.stage = stage /\ next.held = {} /\ next.row = None
    BY <1>1 DEF Sound, Fields
  <2> HIDE DEF next
  <2>4. Sound(next)
    BY <2>2, <2>3 DEF Sound, RowIsRight
  <2> QED BY <2>1, <2>4, BecomesSound
<1> QED BY <1>2, <1>3

LEMMA ApiStoreSound ==
  ASSUME AllSound, NEW a \in Adders, ApiStores(a)
  PROVE  AllSound'
<1> DEFINE r == add[a]
           row == IF r.kind = "webdl" /\ ~Serves(r.name, "webdl") THEN None ELSE RowTaker(a)
<1>1. Sound(r) /\ r.stage = "taken" /\ r.held = {r.name}
  BY DEF AllSound, ApiStores, Sound
<1>2. row \in {None, r.name}
  BY DEF RowTaker
<1>3. Becomes(a, Over(r, row))
  BY DEF ApiStores
<1> HIDE DEF row
<1>4. Sound(Over(r, row))
  <2>1. r.via = "api" /\ row # None => row \in r.held
    BY <1>1, <1>2
  <2> QED BY <1>1, <2>1, OverSound
<1> QED BY <1>3, <1>4, BecomesSound

LEMMA ShimStoreSound ==
  ASSUME AllSound, NEW a \in Adders, NEW k, ShimStores(a, k)
  PROVE  AllSound'
<1> DEFINE r == add[a]
           row == DefaultNameFor(k)
<1>1. Sound(r) /\ r.via = "shim"
  BY DEF AllSound, ShimStores
<1>2. Becomes(a, Over(r, row))
  BY DEF ShimStores
<1> HIDE DEF row
<1>3. Sound(Over(r, row))
  BY <1>1, OverSound
<1> QED BY <1>2, <1>3, BecomesSound

LEMMA AddStepSound ==
  ASSUME AllSound, NEW a \in Adders, AddStep(a)
  PROVE  AllSound'
<1>1. ASSUME AddsTorrent(a) PROVE AllSound'
  BY <1>1, SendSound DEF AddsTorrent
<1>2. ASSUME AddsNZB(a) PROVE AllSound'
  BY <1>2, SendSound DEF AddsNZB
<1>3. ASSUME HandleAddTorrent(a) PROVE AllSound'
  BY <1>3, SendSound DEF HandleAddTorrent
<1>4. ASSUME HandleAddUsenet(a) PROVE AllSound'
  BY <1>4, SendSound DEF HandleAddUsenet
<1>5. ASSUME HandleAddWebDownload(a) PROVE AllSound'
  BY <1>5, SendSound DEF HandleAddWebDownload
<1>6. ASSUME Takes(a) PROVE AllSound'
  BY <1>6, TakeSound
<1>7. ASSUME CallFails(a) PROVE AllSound'
  BY <1>7, FailSound
<1>8. ASSUME TriesNext(a) PROVE AllSound'
  BY <1>8, NextSound
<1>9. ASSUME ApiStores(a) PROVE AllSound'
  BY <1>9, ApiStoreSound
<1>10. ASSUME StoresTorrent(a) PROVE AllSound'
  BY <1>10, ShimStoreSound DEF StoresTorrent
<1>11. ASSUME StoresNZB(a) PROVE AllSound'
  BY <1>11, ShimStoreSound DEF StoresNZB
<1> QED BY <1>1, <1>2, <1>3, <1>4, <1>5, <1>6, <1>7, <1>8, <1>9, <1>10, <1>11 DEF AddStep

LEMMA RestartSound ==
  ASSUME AllSound, RoutingRestart
  PROVE  AllSound'
<1>1. DOMAIN add' = Adders
  BY DEF RoutingRestart
<1>2. ASSUME NEW a \in Adders
      PROVE  Sound(add'[a])
  <2>1. Sound(add[a])
    BY DEF AllSound
  <2>2. Sound(Over(add[a], None))
    BY <2>1, OverSound
  <2>3. add'[a] = add[a] \/ add'[a] = Over(add[a], None)
    BY DEF RoutingRestart
  <2> QED BY <2>1, <2>2, <2>3
<1> QED BY <1>1, <1>2 DEF AllSound

-------------------------------------------------------------------------------
(***************************************************************************)
(* The theorem about adds.                                                 *)
(***************************************************************************)
LEMMA SoundSuffices == AllSound => OneCopyWhereTheRowSays
<1> SUFFICES ASSUME AllSound, NEW a \in Adders
             PROVE  Cardinality(add[a].held) <= 1 /\ RowIsRight(add[a])
  BY DEF OneCopyWhereTheRowSays, RowIsRight
<1>1. Sound(add[a])
  BY DEF AllSound
<1>2. PICK n : add[a].held \subseteq {n}
  BY <1>1 DEF Sound
<1>3. add[a].held = {} \/ add[a].held = {n}
  BY <1>2
<1>4. Cardinality({}) = 0 /\ Cardinality({n}) = 1
  BY FS_EmptySet, FS_Singleton
<1> QED BY <1>1, <1>3, <1>4 DEF Sound

\* However many providers, adds and settings requests there are: an add leaves
\* one copy at most, and a row of the API names the account that has it
\* (addWebLink, the add handlers of the API).
THEOREM OneCopy == RoutingSpec => []OneCopyWhereTheRowSays
<1>1. RoutingInit => AllSound
  <2> SUFFICES ASSUME RoutingInit PROVE AllSound
    OBVIOUS
  <2>1. DOMAIN add = Adders /\ \A a \in Adders : add[a] = NewAdd
    BY DEF RoutingInit
  <2> QED BY <2>1, NewSound DEF AllSound
<1>2. AllSound /\ [RoutingNext]_routingVars => AllSound'
  <2> SUFFICES ASSUME AllSound, [RoutingNext]_routingVars PROVE AllSound'
    OBVIOUS
  <2>1. CASE UNCHANGED add
    BY <2>1 DEF AllSound
  <2>2. ASSUME NEW a \in Adders, AddStep(a) PROVE AllSound'
    BY <2>2, AddStepSound
  <2>3. CASE RoutingRestart
    BY <2>3, RestartSound
  <2> QED BY <2>1, <2>2, <2>3 DEF RoutingNext, routingVars
<1> QED BY <1>1, <1>2, SoundSuffices, PTL DEF RoutingSpec
===============================================================================
