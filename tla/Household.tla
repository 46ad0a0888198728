------------------------------ MODULE Household -------------------------------
(***************************************************************************)
(* The login accounts and the categories.  Both live in the configuration: *)
(* liveSettings changes it in memory under its lock and writes all of it   *)
(* to config.yaml.  Categories are known in three places more, the two     *)
(* compat shims and the importer, which keep copies of their own: *arr     *)
(* apps may register names with a shim that the configuration never hears  *)
(* of, and a start fills all three from the file.                          *)
(*                                                                         *)
(* A user is a name as EqualFold compares it.  Left out: passwords,        *)
(* sessions, who may ask for what, and the save path a qBittorrent category*)
(* comes with.                                                             *)
(***************************************************************************)
EXTENDS Naturals, FiniteSets

CONSTANTS
  Users,          \* names of accounts
  Categories,     \* names of categories, "*" not among them
  DefaultArrCategories,   \* those every instance is seeded with
  Dirs,           \* directories a category may be sent to
  MaxChanges, MaxFailures, MaxRestarts   \* bounds of a run

ASSUME HouseholdAssumption ==
  /\ DefaultArrCategories \subseteq Categories
  /\ "*" \notin Categories
  /\ MaxChanges \in Nat /\ MaxFailures \in Nat /\ MaxRestarts \in Nat

VARIABLES
  cfg,          \* the configuration in memory
  file,         \* the configuration config.yaml holds
  up,           \* whether the process is through its start
  qbt, sab,     \* the category names each shim knows
  paths,        \* the category paths the importer works with
  claiming,     \* names with a first-run setup under way
  missed,       \* a write of config.yaml has failed since the start
  deleted,      \* history: categories deleted since they were last registered
  used          \* changes, failures and restarts so far (bounded)

shims == <<qbt, sab>>
householdVars == <<cfg, file, up, shims, paths, claiming, missed, deleted, used>>

Account == [role : {"admin", "member"}, default : BOOLEAN]

\* A category with no directory is known and sent nowhere of its own.
NoDir == ""
AnyDir == Dirs \cup {NoDir}

\* What an empty or missing file is read as.
Empty == [users |-> <<>>, categories |-> <<>>, seeded |-> FALSE]

With(f, x, v) == [y \in DOMAIN f \cup {x} |-> IF y = x THEN v ELSE f[y]]

Without(f, x) == [y \in DOMAIN f \ {x} |-> f[y]]

-------------------------------------------------------------------------------
(***************************************************************************)
(* Config.Save: in place, and a write that fails leaves the file as it was *)
(* or cut short.                                                           *)
(***************************************************************************)
Changes == up /\ used.changes < MaxChanges

Counted(what) == used' = [used EXCEPT ![what] = @ + 1]

SaveWorks(c) == cfg' = c /\ file' = c /\ Counted("changes") /\ UNCHANGED missed

SaveFails(c) ==
  /\ used.failures < MaxFailures
  /\ used' = [used EXCEPT !.changes = @ + 1, !.failures = @ + 1]
  /\ cfg' = c /\ file' \in {file, Empty} /\ missed' = TRUE

Save(c) == SaveWorks(c) \/ SaveFails(c)

-------------------------------------------------------------------------------
(***************************************************************************)
(* Accounts.                                                               *)
(***************************************************************************)
Default(users) == {u \in DOMAIN users : users[u].default}

\* The very first account is the default one and an admin, whatever was asked.
NewAccount(users, role) ==
  IF users = <<>> THEN [role |-> "admin", default |-> TRUE]
  ELSE [role |-> role, default |-> FALSE]

AddUser(u, role) ==
  /\ Changes /\ u \notin DOMAIN cfg.users
  /\ Save([cfg EXCEPT !.users = With(@, u, NewAccount(@, role))])

\* handleSetup looks whether anybody has claimed the instance ...
SetupChecks(u) ==
  /\ Changes /\ cfg.users = <<>> /\ u \notin claiming
  /\ claiming' = claiming \cup {u}
  /\ Counted("changes")
  /\ UNCHANGED <<cfg, file, up, shims, paths, missed, deleted>>

\* ... and adds the account once its password is hashed.
Setup(u) ==
  /\ u \in claiming
  /\ claiming' = claiming \ {u}
  /\ IF Changes /\ u \notin DOMAIN cfg.users THEN AddUser(u, "admin")
     ELSE UNCHANGED <<cfg, file, missed, used>>
  /\ UNCHANGED <<up, shims, paths, deleted>>

\* Mutation: the default account may go like any other.
MayGo(u) == u \in DOMAIN cfg.users

Removable(u) == u \in DOMAIN cfg.users /\ ~cfg.users[u].default

RemoveUser(u) ==
  /\ Changes /\ Removable(u)
  /\ Save([cfg EXCEPT !.users = Without(@, u)])

Promoted(users, u) ==
  [v \in DOMAIN users |-> IF v = u THEN [role |-> "admin", default |-> TRUE]
                          ELSE [users[v] EXCEPT !.default = FALSE]]

SetDefaultUser(u) ==
  /\ Changes /\ u \in DOMAIN cfg.users
  /\ Save([cfg EXCEPT !.users = Promoted(@, u)])

\* The default account stays an admin.
MayHaveRole(u, role) ==
  u \in DOMAIN cfg.users /\ (cfg.users[u].default => role = "admin")

SetUserRole(u, role) ==
  /\ Changes /\ MayHaveRole(u, role)
  /\ Save([cfg EXCEPT !.users[u].role = role])

ChangesAccounts ==
  /\ \E u \in Users :
       \/ RemoveUser(u) \/ SetDefaultUser(u)
       \/ \E role \in {"admin", "member"} : AddUser(u, role) \/ SetUserRole(u, role)
  /\ UNCHANGED <<up, shims, paths, claiming, deleted>>

-------------------------------------------------------------------------------
(***************************************************************************)
(* Categories.                                                             *)
(***************************************************************************)
\* After a write that failed the handler returns, and nobody else is told.
SetCategoryPath(c, dir) ==
  /\ Changes
  /\ Save([cfg EXCEPT !.categories = With(@, c, dir)])
  /\ IF file' = cfg'
     THEN paths' = cfg'.categories /\ qbt' = qbt \cup {c} /\ sab' = sab \cup {c}
     ELSE UNCHANGED <<paths, shims>>
  /\ deleted' = deleted \ {c}
  /\ UNCHANGED <<up, claiming>>

RemoveCategory(c) ==
  /\ Changes
  /\ Save([cfg EXCEPT !.categories = Without(@, c)])
  /\ IF file' = cfg'
     THEN paths' = cfg'.categories /\ qbt' = qbt \ {c} /\ sab' = sab \ {c}
     ELSE UNCHANGED <<paths, shims>>
  /\ deleted' = IF file' = cfg' THEN deleted \cup {c} ELSE deleted
  /\ UNCHANGED <<up, claiming>>

\* What an *arr app registers with a shim, that shim learns, and nothing else
\* does; a torrent's new category is learnt as well as one that is declared.
QbtLearns(c) ==
  /\ Changes /\ qbt' = qbt \cup {c} /\ Counted("changes")
  /\ UNCHANGED <<cfg, file, up, sab, paths, claiming, missed, deleted>>

\* The cat of an addurl or addfile.
SabLearns(c) ==
  /\ Changes /\ sab' = sab \cup {c} /\ Counted("changes")
  /\ UNCHANGED <<cfg, file, up, qbt, paths, claiming, missed, deleted>>

\* The settings page registers a name with one shim, as an *arr app would.
AddCategory(protocol, c) ==
  \/ protocol = "torrent" /\ QbtLearns(c)
  \/ protocol = "usenet" /\ SabLearns(c)

-------------------------------------------------------------------------------
(***************************************************************************)
(* Start and stop.                                                         *)
(***************************************************************************)
\* Mutation: the defaults are seeded at every start.
SeedsAlways(c) ==
  [c EXCEPT !.seeded = TRUE,
            !.categories = [d \in DOMAIN @ \cup DefaultArrCategories |->
                              IF d \in DOMAIN @ THEN @[d] ELSE NoDir]]

\* SeedDefaultCategoriesOnce.
Seeded(c) ==
  IF c.seeded THEN c
  ELSE [c EXCEPT !.seeded = TRUE,
                 !.categories = [d \in DOMAIN @ \cup DefaultArrCategories |->
                                   IF d \in DOMAIN @ THEN @[d] ELSE NoDir]]

\* Mutation: the shims start empty.
NothingKnown(c) == {}

\* What SetShimServers registers with both shims.
KnownFrom(c) == DOMAIN c.categories

\* Mutation: "*" is a category like any other.
OnlyConfigured(c) == KnownFrom(c)

KnownToSab(c) == KnownFrom(c) \cup {"*"}

\* Seeding is written before anything serves; a start that cannot write ends.
Starts ==
  /\ ~up
  /\ LET c == Seeded(file) IN
     \/ /\ up' = TRUE /\ cfg' = c /\ file' = c
        /\ qbt' = KnownFrom(c) /\ sab' = KnownToSab(c)
        /\ paths' = c.categories
        /\ missed' = FALSE
        /\ UNCHANGED used
     \/ /\ c # file /\ used.failures < MaxFailures /\ Counted("failures")
        /\ file' \in {file, Empty}
        /\ UNCHANGED <<cfg, up, shims, paths, missed>>
  /\ UNCHANGED <<claiming, deleted>>

Stops ==
  /\ up /\ used.restarts < MaxRestarts
  /\ up' = FALSE
  /\ claiming' = {}
  /\ Counted("restarts")
  /\ UNCHANGED <<cfg, file, shims, paths, missed, deleted>>

HouseholdInit ==
  /\ cfg = Empty /\ file = Empty /\ up = FALSE
  /\ qbt = {} /\ sab = {"*"} /\ paths = <<>>
  /\ claiming = {} /\ missed = FALSE /\ deleted = {}
  /\ used = [changes |-> 0, failures |-> 0, restarts |-> 0]

HouseholdNext ==
  \/ ChangesAccounts
  \/ \E u \in Users : SetupChecks(u) \/ Setup(u)
  \/ \E c \in Categories :
       \/ \E dir \in AnyDir : SetCategoryPath(c, dir)
       \/ RemoveCategory(c)
       \/ \E protocol \in {"torrent", "usenet"} : AddCategory(protocol, c)
  \/ Starts \/ Stops

HouseholdSpec == HouseholdInit /\ [][HouseholdNext]_householdVars

-------------------------------------------------------------------------------
(***************************************************************************)
(* Properties.                                                             *)
(***************************************************************************)
Config ==
  [users : UNION {[us -> Account] : us \in SUBSET Users},
   categories : UNION {[cs -> AnyDir] : cs \in SUBSET Categories},
   seeded : BOOLEAN]

\* Configuration, file, shims and importer have their types, and the SABnzbd
\* shim never forgets "*", which every client expects (categoryStore).
HouseholdTypeOK ==
  /\ cfg \in Config /\ file \in Config
  /\ up \in BOOLEAN /\ missed \in BOOLEAN
  /\ qbt \subseteq Categories /\ sab \subseteq Categories \cup {"*"} /\ "*" \in sab
  /\ paths \in UNION {[cs -> AnyDir] : cs \in SUBSET Categories}
  /\ claiming \subseteq Users /\ deleted \subseteq Categories

\* Once there are accounts, one of them, and only one, is the default account,
\* and it is an admin: in memory and in the file, through setups that race,
\* promotions, removals and writes that fail (UserAccount.Default's comment:
\* "an instance can never end up with login enabled and zero admins").
OneOwner ==
  \A c \in {cfg, file} : c.users # <<>> =>
    \E u \in DOMAIN c.users : Default(c.users) = {u} /\ c.users[u].role = "admin"

\* While no write has failed, the shims know every category that is
\* configured and the importer works with the paths that are, whatever *arr
\* apps register in between and however often the process starts
\* (SetCategoryPath, RemoveCategory, SetShimServers, SetImporter).
CategoriesAreKnown ==
  up /\ ~missed => /\ DOMAIN cfg.categories \subseteq qbt \cap sab
                   /\ paths = cfg.categories

\* A category that is deleted comes back by being registered and by nothing
\* else: no start seeds it again, as long as the file is whole, and no account
\* or other category that is saved brings it along (SeedDefaultCategoriesOnce:
\* a deleted default "once deleted -- gone for good").
DeletedCategoriesStayGone ==
  up /\ file.seeded /\ used.failures = 0 =>
    deleted \cap (DOMAIN cfg.categories \cup DOMAIN file.categories) = {}
===============================================================================
