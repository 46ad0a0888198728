--------------------------- MODULE HouseholdProofs ----------------------------
(***************************************************************************)
(* Theorems about accounts and categories, for any names, directories and  *)
(* bounds.                                                                 *)
(***************************************************************************)
EXTENDS Household, SequenceTheorems, TLAPS

-------------------------------------------------------------------------------
(***************************************************************************)
(* Partial functions: the accounts and the category paths.                 *)
(***************************************************************************)
Partial(S, T) == UNION {[D -> T] : D \in SUBSET S}

Accounts == Partial(Users, Account)

Paths == Partial(Categories, AnyDir)

LEMMA PartialDef ==
  ASSUME NEW S, NEW T, NEW f
  PROVE  f \in Partial(S, T) <=> \E D \in SUBSET S : f \in [D -> T]
BY DEF Partial

LEMMA PartialParts ==
  ASSUME NEW S, NEW T, NEW f \in Partial(S, T)
  PROVE  DOMAIN f \subseteq S /\ (\A x \in DOMAIN f : f[x] \in T) /\ f \in [DOMAIN f -> T]
<1>1. PICK D \in SUBSET S : f \in [D -> T]
  BY PartialDef
<1>2. DOMAIN f = D
  BY <1>1
<1> QED BY <1>1, <1>2

LEMMA EmptyPartial ==
  ASSUME NEW S, NEW T
  PROVE  <<>> \in Partial(S, T) /\ DOMAIN <<>> = {}
<1>1. <<>> \in Seq(T) /\ Len(<<>>) = 0
  BY EmptySeq
<1>2. DOMAIN <<>> = {} /\ <<>> \in [{} -> T]
  <2>1. <<>> \in [1 .. 0 -> T]
    BY <1>1, LenProperties
  <2>2. \A i : i \notin 1 .. 0
    OBVIOUS
  <2>3. 1 .. 0 = {}
    BY <2>2, Zenon
  <2> QED BY <2>1, <2>3
<1> QED BY <1>2, PartialDef

LEMMA WithPartial ==
  ASSUME NEW S, NEW T, NEW f \in Partial(S, T), NEW x \in S, NEW v \in T
  PROVE  With(f, x, v) \in Partial(S, T) /\ DOMAIN With(f, x, v) = DOMAIN f \cup {x}
<1>1. With(f, x, v) \in [DOMAIN f \cup {x} -> T]
  BY PartialParts DEF With
<1>2. DOMAIN f \cup {x} \in SUBSET S
  BY PartialParts
<1> QED BY <1>1, <1>2, PartialDef

LEMMA WithoutPartial ==
  ASSUME NEW S, NEW T, NEW f \in Partial(S, T), NEW x
  PROVE  Without(f, x) \in Partial(S, T) /\ DOMAIN Without(f, x) = DOMAIN f \ {x}
<1>1. Without(f, x) \in [DOMAIN f \ {x} -> T]
  BY PartialParts DEF Without
<1>2. DOMAIN f \ {x} \in SUBSET S
  BY PartialParts
<1> QED BY <1>1, <1>2, PartialDef

-------------------------------------------------------------------------------
(***************************************************************************)
(* The accounts of one configuration.                                      *)
(***************************************************************************)
\* There is one default account among us, an admin, or there are none at all.
Owned(us) ==
  us # <<>> => \E u \in DOMAIN us : Default(us) = {u} /\ us[u].role = "admin"

LEMMA EmptyOwned == Owned(<<>>)
BY DEF Owned

LEMMA AddOwned ==
  ASSUME NEW us \in Accounts, Owned(us), NEW u \in Users, u \notin DOMAIN us,
         NEW role \in {"admin", "member"}
  PROVE  With(us, u, NewAccount(us, role)) \in Accounts
         /\ Owned(With(us, u, NewAccount(us, role)))
<1> DEFINE new == NewAccount(us, role)
           vs == With(us, u, new)
<1>1. new \in Account
  BY DEF NewAccount, Account
<1>2. vs \in Accounts /\ DOMAIN vs = DOMAIN us \cup {u}
  <2>1. us \in Partial(Users, Account)
    BY DEF Accounts
  <2>2. vs \in Partial(Users, Account) /\ DOMAIN vs = DOMAIN us \cup {u}
    BY <1>1, <2>1, WithPartial
  <2> QED BY <2>2 DEF Accounts
<1>3. vs[u] = new /\ \A v \in DOMAIN us : vs[v] = us[v]
  BY DEF With
<1>4. CASE us = <<>>
  <2>1. DOMAIN vs = {u} /\ new = [role |-> "admin", default |-> TRUE]
    BY <1>2, <1>4, EmptyPartial DEF NewAccount
  <2>2. vs[u].default /\ vs[u].role = "admin"
    BY <2>1, <1>3
  <2>3. Default(vs) = {u}
    BY <2>1, <2>2 DEF Default
  <2> QED BY <1>2, <2>1, <2>2, <2>3 DEF Owned
<1>5. CASE us # <<>>
  <2>1. PICK o \in DOMAIN us : Default(us) = {o} /\ us[o].role = "admin"
    BY <1>5 DEF Owned
  <2>2. new.default = FALSE
    BY <1>5 DEF NewAccount
  <2>3. \A v \in DOMAIN vs : vs[v].default <=> v = o
    BY <1>2, <1>3, <2>1, <2>2 DEF Default
  <2>4. Default(vs) = {o} /\ vs[o].role = "admin"
    BY <1>2, <1>3, <2>1, <2>3 DEF Default
  <2> QED BY <1>2, <2>1, <2>4 DEF Owned
<1> QED BY <1>4, <1>5

LEMMA RemoveOwned ==
  ASSUME NEW us \in Accounts, Owned(us), NEW u \in DOMAIN us, ~us[u].default
  PROVE  Without(us, u) \in Accounts /\ Owned(Without(us, u))
<1> DEFINE vs == Without(us, u)
<1>1. vs \in Accounts /\ DOMAIN vs = DOMAIN us \ {u}
  <2>1. us \in Partial(Users, Account)
    BY DEF Accounts
  <2>2. vs \in Partial(Users, Account) /\ DOMAIN vs = DOMAIN us \ {u}
    BY <2>1, WithoutPartial
  <2> QED BY <2>2 DEF Accounts
<1>2. \A v \in DOMAIN vs : vs[v] = us[v]
  BY DEF Without
<1>3. us # <<>>
  BY EmptyPartial
<1>4. PICK o \in DOMAIN us : Default(us) = {o} /\ us[o].role = "admin"
  BY <1>3 DEF Owned
<1>5. us[o].default /\ o # u
  BY <1>4 DEF Default
<1>6. Default(vs) = {o} /\ vs[o].role = "admin" /\ o \in DOMAIN vs
  BY <1>1, <1>2, <1>4, <1>5 DEF Default
<1> QED BY <1>1, <1>6 DEF Owned

LEMMA PromoteOwned ==
  ASSUME NEW us \in Accounts, NEW u \in DOMAIN us
  PROVE  Promoted(us, u) \in Accounts /\ Owned(Promoted(us, u))
<1> DEFINE vs == Promoted(us, u)
<1>1. DOMAIN us \in SUBSET Users /\ \A v \in DOMAIN us : us[v] \in Account
  BY PartialParts DEF Accounts
<1>2. vs \in [DOMAIN us -> Account]
  <2>1. \A v \in DOMAIN us : [us[v] EXCEPT !.default = FALSE] \in Account
    BY <1>1 DEF Account
  <2>2. [role |-> "admin", default |-> TRUE] \in Account
    BY DEF Account
  <2> QED BY <2>1, <2>2 DEF Promoted
<1>3. vs \in Accounts /\ DOMAIN vs = DOMAIN us
  BY <1>1, <1>2, PartialDef DEF Accounts
<1>4. \A v \in DOMAIN us : vs[v].default <=> v = u
  BY <1>1 DEF Promoted, Account
<1>5. vs[u].role = "admin"
  BY DEF Promoted
<1>6. Default(vs) = {u}
  BY <1>3, <1>4 DEF Default
<1> QED BY <1>3, <1>5, <1>6 DEF Owned

LEMMA RoleOwned ==
  ASSUME NEW us \in Accounts, Owned(us), NEW u \in DOMAIN us,
         NEW role \in {"admin", "member"}, us[u].default => role = "admin"
  PROVE  [us EXCEPT ![u].role = role] \in Accounts
         /\ Owned([us EXCEPT ![u].role = role])
<1> DEFINE vs == [us EXCEPT ![u].role = role]
<1>1. DOMAIN us \in SUBSET Users /\ (\A v \in DOMAIN us : us[v] \in Account)
      /\ us \in [DOMAIN us -> Account]
  BY PartialParts DEF Accounts
<1>2. [us[u] EXCEPT !.role = role] \in Account
  BY <1>1 DEF Account
<1>3. vs \in [DOMAIN us -> Account]
  BY <1>1, <1>2
<1>4. vs \in Accounts /\ DOMAIN vs = DOMAIN us
  BY <1>1, <1>3, PartialDef DEF Accounts
<1>5. \A v \in DOMAIN us : vs[v].default = us[v].default
                            /\ vs[v].role = (IF v = u THEN role ELSE us[v].role)
  BY <1>1 DEF Account
<1>6. us # <<>>
  BY EmptyPartial
<1>7. PICK o \in DOMAIN us : Default(us) = {o} /\ us[o].role = "admin"
  BY <1>6 DEF Owned
<1>8. us[o].default
  BY <1>7 DEF Default
<1>9. Default(vs) = {o}
  BY <1>4, <1>5, <1>7 DEF Default
<1>10. vs[o].role = "admin"
  BY <1>5, <1>7, <1>8
<1> QED BY <1>4, <1>7, <1>9, <1>10 DEF Owned

-------------------------------------------------------------------------------
(***************************************************************************)
(* The inductive invariant.  As long as no write has failed, memory and    *)
(* file agree while the process is up, and what has been deleted is in     *)
(* neither.                                                                *)
(***************************************************************************)
UsedType == used \in [changes : Nat, failures : Nat, restarts : Nat]

NothingFailed ==
  used.failures = 0 =>
    /\ up => cfg = file /\ file.seeded
    /\ file.seeded \/ deleted = {}
    /\ deleted \cap DOMAIN file.categories = {}

OwnedConfig == {c \in Config : Owned(c.users)}

HouseholdInv ==
  /\ HouseholdTypeOK /\ UsedType /\ NothingFailed /\ CategoriesAreKnown
  /\ cfg \in OwnedConfig /\ file \in OwnedConfig

LEMMA ConfigDef == Config = [users : Accounts, categories : Paths, seeded : BOOLEAN]
BY DEF Config, Accounts, Paths, Partial

LEMMA EmptyConfig == Empty \in OwnedConfig /\ Empty.users = <<>> /\ Empty.categories = <<>>
<1>1. <<>> \in Accounts /\ <<>> \in Paths
  BY EmptyPartial DEF Accounts, Paths
<1>2. Empty \in Config
  BY <1>1, ConfigDef DEF Empty
<1>3. Empty.users = <<>> /\ Empty.categories = <<>>
  BY DEF Empty
<1> QED BY <1>2, <1>3, EmptyOwned DEF OwnedConfig

LEMMA ConfigParts ==
  ASSUME NEW c \in OwnedConfig
  PROVE  /\ c \in Config /\ Owned(c.users) /\ c.users \in Accounts
         /\ c.categories \in Paths /\ c.seeded \in BOOLEAN
BY ConfigDef DEF OwnedConfig

LEMMA UsersConfig ==
  ASSUME NEW c \in OwnedConfig, NEW us \in Accounts, Owned(us)
  PROVE  /\ [c EXCEPT !.users = us] \in OwnedConfig
         /\ [c EXCEPT !.users = us].categories = c.categories
         /\ [c EXCEPT !.users = us].seeded = c.seeded
<1>1. c \in [users : Accounts, categories : Paths, seeded : BOOLEAN]
  BY ConfigDef DEF OwnedConfig
<1>2. /\ [c EXCEPT !.users = us] \in [users : Accounts, categories : Paths, seeded : BOOLEAN]
      /\ [c EXCEPT !.users = us].users = us
      /\ [c EXCEPT !.users = us].categories = c.categories
      /\ [c EXCEPT !.users = us].seeded = c.seeded
  BY <1>1
<1> QED BY <1>2, ConfigDef DEF OwnedConfig

LEMMA CategoriesConfig ==
  ASSUME NEW c \in OwnedConfig, NEW cs \in Paths
  PROVE  /\ [c EXCEPT !.categories = cs] \in OwnedConfig
         /\ [c EXCEPT !.categories = cs].categories = cs
         /\ [c EXCEPT !.categories = cs].seeded = c.seeded
<1>1. c \in [users : Accounts, categories : Paths, seeded : BOOLEAN]
  BY ConfigDef DEF OwnedConfig
<1>2. /\ [c EXCEPT !.categories = cs] \in [users : Accounts, categories : Paths, seeded : BOOLEAN]
      /\ [c EXCEPT !.categories = cs].users = c.users
      /\ [c EXCEPT !.categories = cs].categories = cs
      /\ [c EXCEPT !.categories = cs].seeded = c.seeded
  BY <1>1
<1> QED BY <1>2, ConfigDef, ConfigParts DEF OwnedConfig

\* Seeding keeps the accounts and leaves every category that is there.
LEMMA SeededConfig ==
  ASSUME NEW c \in OwnedConfig
  PROVE  /\ Seeded(c) \in OwnedConfig /\ Seeded(c).seeded
         /\ c.seeded => Seeded(c) = c
<1>1. CASE c.seeded
  BY <1>1 DEF Seeded
<1>2. CASE ~c.seeded
  <2> DEFINE cs == [d \in DOMAIN c.categories \cup DefaultArrCategories |->
                      IF d \in DOMAIN c.categories THEN c.categories[d] ELSE NoDir]
  <2>1. c.categories \in Partial(Categories, AnyDir)
    BY ConfigParts DEF Paths
  <2>2. cs \in [DOMAIN c.categories \cup DefaultArrCategories -> AnyDir]
    <3>1. NoDir \in AnyDir
      BY Zenon DEF AnyDir
    <3> QED BY <2>1, <3>1, PartialParts
  <2>3. DOMAIN c.categories \cup DefaultArrCategories \in SUBSET Categories
    <3>1. DefaultArrCategories \subseteq Categories
      BY HouseholdAssumption, Zenon
    <3>2. DOMAIN c.categories \subseteq Categories
      BY <2>1, PartialParts
    <3> QED BY <3>1, <3>2
  <2>4. cs \in Paths
    <3>1. cs \in Partial(Categories, AnyDir)
      <4> HIDE DEF cs
      <4> QED BY <2>2, <2>3 DEF Partial
    <3> QED BY <3>1 DEF Paths
  <2>5. c \in [users : Accounts, categories : Paths, seeded : BOOLEAN]
    BY ConfigDef DEF OwnedConfig
  <2> DEFINE d == [c EXCEPT !.seeded = TRUE, !.categories = cs]
  <2>6. Seeded(c) = d
    BY <1>2 DEF Seeded
  <2> HIDE DEF cs
  <2>7. d \in [users : Accounts, categories : Paths, seeded : BOOLEAN]
        /\ d.users = c.users /\ d.seeded
    BY <2>4, <2>5
  <2>8. d \in OwnedConfig
    BY <2>7, ConfigDef, ConfigParts DEF OwnedConfig
  <2> QED BY <1>2, <2>6, <2>7, <2>8
<1> QED BY <1>1, <1>2

LEMMA CountType ==
  ASSUME NEW u \in [changes : Nat, failures : Nat, restarts : Nat]
  PROVE  /\ [u EXCEPT !.changes = @ + 1, !.failures = @ + 1]
              \in [changes : Nat, failures : Nat, restarts : Nat]
         /\ [u EXCEPT !.changes = @ + 1, !.failures = @ + 1].failures = u.failures + 1
<1>1. \A a, b \in Nat :
        /\ [u EXCEPT !.changes = a, !.failures = b]
              \in [changes : Nat, failures : Nat, restarts : Nat]
        /\ [u EXCEPT !.changes = a, !.failures = b].failures = b
  OBVIOUS
<1>2. u.changes + 1 \in Nat /\ u.failures + 1 \in Nat
  OBVIOUS
<1> QED BY <1>1, <1>2

\* What a save leaves behind.
LEMMA SaveDoes ==
  ASSUME UsedType, file \in OwnedConfig, missed \in BOOLEAN, NEW c \in OwnedConfig, Save(c)
  PROVE  /\ cfg' = c /\ file' \in OwnedConfig /\ UsedType' /\ missed' \in BOOLEAN
         /\ used'.failures = 0 => used.failures = 0 /\ file' = c
         /\ ~missed' => ~missed /\ file' = c
<1>1. CASE SaveWorks(c)
  BY <1>1 DEF SaveWorks, Counted, UsedType
<1>2. CASE SaveFails(c)
  <2>1. file' \in OwnedConfig /\ missed' = TRUE /\ cfg' = c
    BY <1>2, EmptyConfig DEF SaveFails
  <2>2. UsedType' /\ used'.failures = used.failures + 1
    <3>1. used' = [used EXCEPT !.changes = @ + 1, !.failures = @ + 1]
      BY <1>2 DEF SaveFails
    <3>2. used \in [changes : Nat, failures : Nat, restarts : Nat]
      BY DEF UsedType
    <3>3. used' \in [changes : Nat, failures : Nat, restarts : Nat]
          /\ used'.failures = used.failures + 1
      BY <3>1, <3>2, CountType
    <3> QED BY <3>3 DEF UsedType
  <2>3. used.failures \in Nat
    BY DEF UsedType
  <2> QED BY <2>1, <2>2, <2>3
<1> QED BY <1>1, <1>2 DEF Save

-------------------------------------------------------------------------------
(***************************************************************************)
(* Every step keeps the invariant.                                         *)
(***************************************************************************)
LEMMA AccountsSaved ==
  ASSUME HouseholdInv, up, NEW us \in Accounts, Owned(us), Save([cfg EXCEPT !.users = us]),
         UNCHANGED <<up, shims, paths, deleted>>, claiming' \subseteq Users
  PROVE  HouseholdInv'
<1> DEFINE c == [cfg EXCEPT !.users = us]
<1>1. c \in OwnedConfig /\ c.categories = cfg.categories /\ c.seeded = cfg.seeded
  BY UsersConfig DEF HouseholdInv
<1> HIDE DEF c
<1>2. /\ cfg' = c /\ file' \in OwnedConfig /\ UsedType' /\ missed' \in BOOLEAN
      /\ used'.failures = 0 => used.failures = 0 /\ file' = c
      /\ ~missed' => ~missed /\ file' = c
  BY <1>1, SaveDoes DEF HouseholdInv, HouseholdTypeOK, c
<1>3. up' = up /\ qbt' = qbt /\ sab' = sab /\ paths' = paths /\ deleted' = deleted
  BY DEF shims
<1>4. HouseholdTypeOK'
  BY <1>1, <1>2, <1>3 DEF HouseholdInv, HouseholdTypeOK, OwnedConfig
<1>5. CategoriesAreKnown'
  BY <1>1, <1>2, <1>3 DEF HouseholdInv, CategoriesAreKnown
<1>6. NothingFailed'
  BY <1>1, <1>2, <1>3 DEF HouseholdInv, NothingFailed
<1> QED BY <1>1, <1>2, <1>4, <1>5, <1>6 DEF HouseholdInv

LEMMA AccountChange ==
  ASSUME HouseholdInv, NEW u \in Users, NEW role \in {"admin", "member"},
         RemoveUser(u) \/ SetDefaultUser(u) \/ AddUser(u, role) \/ SetUserRole(u, role)
  PROVE  up /\ \E us \in Accounts : Owned(us) /\ Save([cfg EXCEPT !.users = us])
<1>1. cfg.users \in Accounts /\ Owned(cfg.users)
  BY ConfigParts DEF HouseholdInv
<1>2. CASE RemoveUser(u)
  BY <1>1, <1>2, RemoveOwned DEF RemoveUser, Removable, Changes
<1>3. CASE SetDefaultUser(u)
  BY <1>1, <1>3, PromoteOwned DEF SetDefaultUser, Changes
<1>4. CASE AddUser(u, role)
  BY <1>1, <1>4, AddOwned DEF AddUser, Changes
<1>5. CASE SetUserRole(u, role)
  <2> DEFINE us == [cfg.users EXCEPT ![u].role = role]
  <2>1. us \in Accounts /\ Owned(us)
    BY <1>1, <1>5, RoleOwned DEF SetUserRole, MayHaveRole
  <2>2. Save([cfg EXCEPT !.users = us])
    BY <1>5 DEF SetUserRole
  <2>3. up
    BY <1>5 DEF SetUserRole, Changes
  <2> QED BY <2>1, <2>2, <2>3
<1> QED BY <1>2, <1>3, <1>4, <1>5

LEMMA AccountsStep ==
  ASSUME HouseholdInv, ChangesAccounts
  PROVE  HouseholdInv'
<1>1. PICK u \in Users, role \in {"admin", "member"} :
        RemoveUser(u) \/ SetDefaultUser(u) \/ AddUser(u, role) \/ SetUserRole(u, role)
  BY DEF ChangesAccounts
<1>2. PICK us \in Accounts : Owned(us) /\ Save([cfg EXCEPT !.users = us])
  BY <1>1, AccountChange
<1>3. up
  BY <1>1, AccountChange
<1>4. UNCHANGED <<up, shims, paths, deleted>> /\ claiming' \subseteq Users
  BY DEF ChangesAccounts, HouseholdInv, HouseholdTypeOK
<1> QED BY <1>2, <1>3, <1>4, AccountsSaved

LEMMA SetupStep ==
  ASSUME HouseholdInv, NEW u \in Users, Setup(u)
  PROVE  HouseholdInv'
<1>1. UNCHANGED <<up, shims, paths, deleted>> /\ claiming' \subseteq Users
  BY DEF Setup, HouseholdInv, HouseholdTypeOK
<1>2. CASE AddUser(u, "admin")
  <2>1. PICK us \in Accounts : Owned(us) /\ Save([cfg EXCEPT !.users = us])
    BY <1>2, AccountChange
  <2>2. up
    BY <1>2 DEF AddUser, Changes
  <2> QED BY <1>1, <2>1, <2>2, AccountsSaved
<1>3. CASE UNCHANGED <<cfg, file, missed, used>>
  BY <1>1, <1>3 DEF HouseholdInv, HouseholdTypeOK, UsedType, NothingFailed,
       CategoriesAreKnown, shims
<1> QED BY <1>2, <1>3 DEF Setup

\* Changing one entry of the category paths.
LEMMA PathsWith ==
  ASSUME NEW cs \in Paths, NEW c \in Categories, NEW dir \in AnyDir
  PROVE  With(cs, c, dir) \in Paths /\ DOMAIN With(cs, c, dir) = DOMAIN cs \cup {c}
<1>1. cs \in Partial(Categories, AnyDir)
  BY DEF Paths
<1>2. With(cs, c, dir) \in Partial(Categories, AnyDir)
  BY <1>1, WithPartial
<1>3. DOMAIN With(cs, c, dir) = DOMAIN cs \cup {c}
  BY DEF With
<1> QED BY <1>2, <1>3 DEF Paths

LEMMA PathsWithout ==
  ASSUME NEW cs \in Paths, NEW c \in Categories
  PROVE  Without(cs, c) \in Paths /\ DOMAIN Without(cs, c) = DOMAIN cs \ {c}
<1>1. cs \in Partial(Categories, AnyDir)
  BY DEF Paths
<1>2. Without(cs, c) \in Partial(Categories, AnyDir)
      /\ DOMAIN Without(cs, c) = DOMAIN cs \ {c}
  BY <1>1, WithoutPartial
<1> QED BY <1>2 DEF Paths

LEMMA PathSaved ==
  ASSUME HouseholdInv, NEW c \in Categories, NEW dir \in AnyDir, SetCategoryPath(c, dir)
  PROVE  HouseholdInv'
<1> DEFINE cs == With(cfg.categories, c, dir)
           d == [cfg EXCEPT !.categories = cs]
<1>1. cfg.categories \in Paths
  BY ConfigParts DEF HouseholdInv
<1>2. cs \in Paths /\ DOMAIN cs = DOMAIN cfg.categories \cup {c}
  BY <1>1, PathsWith
<1>3. d \in OwnedConfig /\ d.categories = cs /\ d.seeded = cfg.seeded
  BY <1>2, CategoriesConfig DEF HouseholdInv
<1>4. Save(d) /\ up
  BY DEF SetCategoryPath, Changes
<1> HIDE DEF cs, d
<1>5. /\ cfg' = d /\ file' \in OwnedConfig /\ UsedType' /\ missed' \in BOOLEAN
      /\ used'.failures = 0 => used.failures = 0 /\ file' = d
      /\ ~missed' => ~missed /\ file' = d
  BY <1>3, <1>4, SaveDoes DEF HouseholdInv, HouseholdTypeOK
<1>6. /\ deleted' = deleted \ {c} /\ up' = up /\ claiming' = claiming
      /\ file' = d => paths' = cs /\ qbt' = qbt \cup {c} /\ sab' = sab \cup {c}
      /\ file' # d => paths' = paths /\ qbt' = qbt /\ sab' = sab
  BY <1>3, <1>5 DEF SetCategoryPath, shims
<1>7. HouseholdTypeOK'
  BY <1>2, <1>3, <1>5, <1>6 DEF HouseholdInv, HouseholdTypeOK, OwnedConfig, Paths, Partial
<1>8. CategoriesAreKnown'
  BY <1>2, <1>3, <1>4, <1>5, <1>6 DEF HouseholdInv, CategoriesAreKnown
<1>9. NothingFailed'
  BY <1>2, <1>3, <1>4, <1>5, <1>6 DEF HouseholdInv, NothingFailed
<1> QED BY <1>3, <1>5, <1>7, <1>8, <1>9 DEF HouseholdInv

LEMMA PathRemoved ==
  ASSUME HouseholdInv, NEW c \in Categories, RemoveCategory(c)
  PROVE  HouseholdInv'
<1> DEFINE cs == Without(cfg.categories, c)
           d == [cfg EXCEPT !.categories = cs]
<1>1. cfg.categories \in Paths
  BY ConfigParts DEF HouseholdInv
<1>2. cs \in Paths /\ DOMAIN cs = DOMAIN cfg.categories \ {c}
  BY <1>1, PathsWithout
<1>3. d \in OwnedConfig /\ d.categories = cs /\ d.seeded = cfg.seeded
  BY <1>2, CategoriesConfig DEF HouseholdInv
<1>4. Save(d) /\ up
  BY DEF RemoveCategory, Changes
<1> HIDE DEF cs, d
<1>5. /\ cfg' = d /\ file' \in OwnedConfig /\ UsedType' /\ missed' \in BOOLEAN
      /\ used'.failures = 0 => used.failures = 0 /\ file' = d
      /\ ~missed' => ~missed /\ file' = d
  BY <1>3, <1>4, SaveDoes DEF HouseholdInv, HouseholdTypeOK
<1>6. /\ up' = up /\ claiming' = claiming
      /\ file' = d => paths' = cs /\ qbt' = qbt \ {c} /\ sab' = sab \ {c}
                       /\ deleted' = deleted \cup {c}
      /\ file' # d => paths' = paths /\ qbt' = qbt /\ sab' = sab /\ deleted' = deleted
  BY <1>3, <1>5 DEF RemoveCategory, shims
<1>7. HouseholdTypeOK'
  <2>1. c # "*"
    BY HouseholdAssumption, Zenon
  <2> QED BY <2>1, <1>2, <1>3, <1>5, <1>6 DEF HouseholdInv, HouseholdTypeOK, OwnedConfig, Paths, Partial
<1>8. CategoriesAreKnown'
  BY <1>2, <1>3, <1>4, <1>5, <1>6 DEF HouseholdInv, CategoriesAreKnown
<1>9. NothingFailed'
  BY <1>2, <1>3, <1>4, <1>5, <1>6 DEF HouseholdInv, NothingFailed
<1> QED BY <1>3, <1>5, <1>7, <1>8, <1>9 DEF HouseholdInv

\* Only failures count.
LEMMA CountedType ==
  ASSUME UsedType, NEW what \in {"changes", "failures", "restarts"}, Counted(what)
  PROVE  /\ UsedType'
         /\ what # "failures" => used'.failures = used.failures
         /\ what = "failures" => used'.failures # 0
<1>1. used \in [changes : Nat, failures : Nat, restarts : Nat]
  BY DEF UsedType
<1>2. used' = [used EXCEPT ![what] = used[what] + 1] /\ used[what] + 1 \in Nat
  BY <1>1 DEF Counted
<1>3. used' \in [changes : Nat, failures : Nat, restarts : Nat]
  BY <1>1, <1>2
<1>4. what # "failures" => used'.failures = used.failures
  BY <1>1, <1>2
<1>5. what = "failures" => used'.failures # 0
  BY <1>1, <1>2
<1> QED BY <1>3, <1>4, <1>5 DEF UsedType

LEMMA OtherSteps ==
  ASSUME HouseholdInv,
         \/ \E u \in Users : SetupChecks(u)
         \/ \E c \in Categories, protocol \in {"torrent", "usenet"} : AddCategory(protocol, c)
         \/ Stops
  PROVE  HouseholdInv'
<1>1. UsedType' /\ used'.failures = used.failures
  BY CountedType DEF HouseholdInv, SetupChecks, AddCategory, QbtLearns, SabLearns, Stops
<1>2. /\ cfg' = cfg /\ file' = file /\ missed' = missed /\ deleted' = deleted /\ paths' = paths
      /\ up' \in {up, FALSE}
      /\ qbt \subseteq qbt' /\ sab \subseteq sab' /\ claiming' \subseteq Users
      /\ qbt' \subseteq Categories /\ sab' \subseteq Categories \cup {"*"}
  BY DEF HouseholdInv, HouseholdTypeOK, SetupChecks, AddCategory, QbtLearns, SabLearns,
         Stops, shims
<1>3. HouseholdTypeOK'
  BY <1>2 DEF HouseholdInv, HouseholdTypeOK
<1>4. CategoriesAreKnown'
  BY <1>2 DEF HouseholdInv, CategoriesAreKnown
<1>5. NothingFailed'
  BY <1>1, <1>2 DEF HouseholdInv, NothingFailed
<1> QED BY <1>1, <1>2, <1>3, <1>4, <1>5 DEF HouseholdInv

LEMMA StartStep ==
  ASSUME HouseholdInv, Starts
  PROVE  HouseholdInv'
<1> DEFINE c == Seeded(file)
<1>1. c \in OwnedConfig /\ c.seeded /\ (file.seeded => c = file)
  BY SeededConfig DEF HouseholdInv
<1>2. c.categories \in Partial(Categories, AnyDir)
      /\ DOMAIN c.categories \subseteq Categories
  <2>1. c.categories \in Partial(Categories, AnyDir)
    BY <1>1, ConfigParts DEF Paths
  <2> QED BY <2>1, PartialParts
<1> HIDE DEF c
<1>3. claiming' = claiming /\ deleted' = deleted /\ ~up
  BY DEF Starts
<1>4. CASE /\ up' = TRUE /\ cfg' = c /\ file' = c
           /\ qbt' = KnownFrom(c) /\ sab' = KnownToSab(c)
           /\ paths' = c.categories /\ missed' = FALSE /\ used' = used
  <2>1. HouseholdTypeOK'
    BY <1>1, <1>2, <1>3, <1>4 DEF HouseholdInv, HouseholdTypeOK, OwnedConfig, Partial,
         KnownFrom, KnownToSab
  <2>2. CategoriesAreKnown'
    BY <1>4 DEF CategoriesAreKnown, KnownFrom, KnownToSab
  <2>3. NothingFailed'
    BY <1>1, <1>3, <1>4 DEF HouseholdInv, NothingFailed
  <2> QED BY <1>1, <1>4, <2>1, <2>2, <2>3 DEF HouseholdInv, UsedType
<1>5. CASE /\ Counted("failures") /\ file' \in {file, Empty}
           /\ UNCHANGED <<cfg, up, shims, paths, missed>>
  <2>3. UsedType' /\ used'.failures # 0
    BY <1>5, CountedType DEF HouseholdInv
  <2>4. file' \in OwnedConfig
    BY <1>5, EmptyConfig DEF HouseholdInv
  <2> QED BY <1>3, <1>5, <2>3, <2>4 DEF HouseholdInv, HouseholdTypeOK, OwnedConfig,
            CategoriesAreKnown, NothingFailed, shims
<1> QED BY <1>4, <1>5 DEF Starts, c

LEMMA HouseholdStep ==
  ASSUME HouseholdInv, [HouseholdNext]_householdVars
  PROVE  HouseholdInv'
<1>1. CASE UNCHANGED householdVars
  BY <1>1 DEF householdVars, shims, HouseholdInv, HouseholdTypeOK, UsedType, NothingFailed,
       CategoriesAreKnown
<1>2. CASE HouseholdNext
  BY <1>2, AccountsStep, SetupStep, PathSaved, PathRemoved, OtherSteps, StartStep
     DEF HouseholdNext
<1> QED BY <1>1, <1>2

LEMMA HouseholdStart == HouseholdInit => HouseholdInv
<1> SUFFICES ASSUME HouseholdInit PROVE HouseholdInv
  OBVIOUS
<1>1. <<>> \in Paths /\ DOMAIN <<>> = {}
  BY EmptyPartial DEF Paths
<1>2. HouseholdTypeOK
  BY <1>1, EmptyConfig DEF HouseholdInit, HouseholdTypeOK, OwnedConfig, Paths, Partial
<1>3. UsedType /\ CategoriesAreKnown
  BY DEF HouseholdInit, UsedType, CategoriesAreKnown
<1>4. NothingFailed
  BY DEF HouseholdInit, NothingFailed
<1> QED BY <1>2, <1>3, <1>4, EmptyConfig DEF HouseholdInit, HouseholdInv

-------------------------------------------------------------------------------
(***************************************************************************)
(* The theorems.                                                           *)
(***************************************************************************)
\* The invariant holds throughout: liveSettings' changes of the accounts and
\* categories, writes that fail, and starts.
THEOREM HouseholdInvariant == HouseholdSpec => []HouseholdInv
BY HouseholdStart, HouseholdStep, PTL DEF HouseholdSpec

\* Configuration, file, shims and importer keep their types (config.go,
\* categoryStore).
THEOREM HouseholdTypes == HouseholdSpec => []HouseholdTypeOK
<1>1. HouseholdInv => HouseholdTypeOK
  BY DEF HouseholdInv
<1> QED BY <1>1, HouseholdInvariant, PTL

\* Any accounts that exist have one owner, an admin, for any number of names,
\* setups that race and failed writes (AddUser, RemoveUser, SetDefaultUser).
THEOREM OwnerRemains == HouseholdSpec => []OneOwner
<1>1. HouseholdInv => OneOwner
  BY DEF HouseholdInv, OwnedConfig, Owned, OneOwner
<1> QED BY <1>1, HouseholdInvariant, PTL

\* While no write has failed, shims and importer work with the configured
\* categories (SetCategoryPath, RemoveCategory, SetShimServers).
THEOREM CategoriesKnown == HouseholdSpec => []CategoriesAreKnown
<1>1. HouseholdInv => CategoriesAreKnown
  BY DEF HouseholdInv
<1> QED BY <1>1, HouseholdInvariant, PTL

\* A deleted category is not brought back by a start or by saving something
\* else (RemoveCategory, SeedDefaultCategoriesOnce).
THEOREM DeletedStayGone == HouseholdSpec => []DeletedCategoriesStayGone
<1>1. HouseholdInv => DeletedCategoriesStayGone
  BY DEF HouseholdInv, NothingFailed, DeletedCategoriesStayGone
<1> QED BY <1>1, HouseholdInvariant, PTL
===============================================================================
