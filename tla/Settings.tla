------------------------------- MODULE Settings -------------------------------
(***************************************************************************)
(* The settings of a running instance: config.yaml, the configuration in   *)
(* memory (liveSettings.cfg) and the registry of provider wrappers that    *)
(* every add, poll and fetch goes through.  A request of the settings API  *)
(* first looks its provider up without the lock and then changes all three *)
(* under it, saving the whole configuration; the write may fail, after or  *)
(* before config.yaml was truncated, and the process may be restarted at   *)
(* any time, which rebuilds the registry from the file.                    *)
(*                                                                         *)
(* One field stands for all the general settings: it has values that are   *)
(* refused, the environment may override it, it is pushed into the         *)
(* importer and baked into each provider client like the request timeout.  *)
(* Left out: the keys of providers given in the environment.               *)
(***************************************************************************)
EXTENDS Naturals, Sequences, SequencesExt, FiniteSets

CONSTANTS
  Sorted,      \* every entry name there can be, as sort.Strings orders them
  Known,       \* the provider types of this build, entry names as well
  Kinds,       \* torrent, usenet, webdl
  Supports,    \* the kinds each type's service has
  Keys,        \* API keys
  Generals,    \* values of the general settings that are well-formed,
  Malformed,   \* ... and some that are not
  DefaultGeneral,   \* the one that comes with the program
  Overrides,   \* what the environment may set; 0 leaves the file's value
  Toggles,     \* what a request may ask of a provider's kinds
  Requests,    \* requests of the settings API under way
  MaxChanges, MaxRestarts   \* bounds of a run; a failed write counts as a change

Names == ToSet(Sorted)

\* The name of no entry, no key and no type.
None == ""

ASSUME SettingsAssumption ==
  /\ Sorted \in Seq(Names) /\ IsInjective(Sorted)
  /\ Known \subseteq Names
  /\ Known # {}
  /\ Supports \in [Known -> SUBSET Kinds]
  /\ None \notin Names \cup Keys
  /\ DefaultGeneral \in Generals
  /\ Generals \cap Malformed = {} /\ 0 \notin Generals
  /\ Overrides \subseteq Generals \cup Malformed \cup {0} /\ 0 \in Overrides
  /\ \A ask \in Toggles : DOMAIN ask \subseteq Kinds /\ \A k \in DOMAIN ask : ask[k] \in BOOLEAN
  /\ MaxChanges \in Nat /\ MaxRestarts \in Nat

VARIABLES
  cfg,         \* the configuration in memory
  file,        \* the configuration config.yaml holds
  env,         \* the override the process was started with
  order,       \* the registered names, oldest first
  slots,       \* the wrappers of each name: a client for each kind it serves
  fallback,    \* where the registry sends new downloads
  applied,     \* the general settings the importer works with
  request,     \* what each request under way is about to do
  missed,      \* a write of config.yaml has failed since the start
  used         \* changes and restarts so far (bounded)

settingsVars == <<cfg, file, env, order, slots, fallback, applied, request, missed, used>>

-------------------------------------------------------------------------------
(***************************************************************************)
(* Entries, clients and the registry.                                      *)
(***************************************************************************)
Entry == [key : Keys \cup {None}, type : Known \cup {None}, off : SUBSET Kinds]

ZeroEntry == [key |-> None, type |-> None, off |-> {}]

\* What reading a missing key of a Go map gives.
EntryOf(c, n) == IF n \in DOMAIN c.providers THEN c.providers[n] ELSE ZeroEntry

WithEntry(c, n, e) ==
  [c EXCEPT !.providers =
     [m \in DOMAIN c.providers \cup {n} |-> IF m = n THEN e ELSE c.providers[m]]]

ResolvedType(c, n) == IF EntryOf(c, n).type # None THEN EntryOf(c, n).type ELSE n

KindsOf(c, n) == IF ResolvedType(c, n) \in Known THEN Supports[ResolvedType(c, n)] ELSE {}

\* A wrapper before a key is set, and what it holds afterwards.
NoClient == [key |-> None, general |-> 0]

Client(key, general) == IF key = None THEN NoClient ELSE [key |-> key, general |-> general]

\* What of s is in S, in the order it has there.
Filter(s, S) ==
  LET upTo[i \in 0 .. Len(s)] ==
        IF i = 0 THEN <<>>
        ELSE IF s[i] \in S THEN Append(upTo[i - 1], s[i]) ELSE upTo[i - 1]
  IN upTo[Len(s)]

Registered(n) == n \in ToSet(order)

Serves(n, k) == k \in DOMAIN slots[n]

Configured(n, k) == Serves(n, k) /\ slots[n][k] # NoClient

\* Mutation: a name is put in the order each time its kinds are set.
OrderedAgain(n) == Append(order, n)

\* A name keeps its place in the order (indexOf).
OrderWith(n) == IF Registered(n) THEN order ELSE Append(order, n)

\* SetKinds: replaces the wrappers.
SetKinds(n, kinds, key, general) ==
  /\ order' = OrderWith(n)
  /\ slots' = [slots EXCEPT ![n] = [k \in kinds |-> Client(key, general)]]
  /\ fallback' = IF fallback = None THEN n ELSE fallback

\* Mutation: the fallback is left behind.
UnregisterForgets(n) ==
  /\ order' = Filter(order, Names \ {n})
  /\ slots' = [slots EXCEPT ![n] = <<>>]
  /\ UNCHANGED fallback

\* Unregister: a removed default hands over to whatever is registered first.
Unregister(n) ==
  LET rest == Filter(order, Names \ {n}) IN
  /\ order' = rest
  /\ slots' = [slots EXCEPT ![n] = <<>>]
  /\ fallback' = IF fallback # n THEN fallback ELSE IF rest = <<>> THEN None ELSE Head(rest)

-------------------------------------------------------------------------------
(***************************************************************************)
(* Start-up: the registry built from a configuration, an entry for every   *)
(* known type included.                                                    *)
(***************************************************************************)
ProviderEntryNames(c) == Filter(Sorted, DOMAIN c.providers \cup Known)

StartOrder(c) == Filter(ProviderEntryNames(c), {n \in Names : ResolvedType(c, n) \in Known})

StartSlots(c) ==
  [n \in Names |->
     IF n \in ToSet(StartOrder(c))
     THEN [k \in KindsOf(c, n) \ EntryOf(c, n).off |-> Client(EntryOf(c, n).key, c.general)]
     ELSE <<>>]

\* The configured default if it is registered, else the first entry that holds
\* a key, else the registry's own choice, the first one registered.
DefaultProviderName(c) ==
  LET names == StartOrder(c)
      keyed == Filter(names, {n \in Names : EntryOf(c, n).key # None})
  IN IF c.default \in ToSet(names) THEN c.default
     ELSE IF keyed # <<>> THEN Head(keyed)
     ELSE IF names # <<>> THEN Head(names) ELSE None

\* Validate, of a configuration read and of one asked for.
WellFormed(c) == c.general \in Generals

\* applyEnv: the environment has the last word, before anything is validated.
Overridden(c, v) == IF v = 0 THEN c ELSE [c EXCEPT !.general = v]

\* Load refuses a configuration that is not well-formed, and the process ends.
Loads(c, v) == WellFormed(Overridden(c, v))

StartsFrom(c) ==
  /\ cfg' = c
  /\ order' = StartOrder(c)
  /\ slots' = StartSlots(c)
  /\ fallback' = DefaultProviderName(c)
  /\ applied' = c.general

\* What an empty or missing config.yaml is read as.
Defaults == [providers |-> <<>>, default |-> None, general |-> DefaultGeneral]

Idle == [op |-> "none"]

SettingsInit ==
  /\ file = Defaults
  /\ env = 0
  /\ cfg = Defaults
  /\ order = StartOrder(Defaults)
  /\ slots = StartSlots(Defaults)
  /\ fallback = DefaultProviderName(Defaults)
  /\ applied = DefaultGeneral
  /\ request = [r \in Requests |-> Idle]
  /\ missed = FALSE
  /\ used = [changes |-> 0, restarts |-> 0]

\* The process stops, by a crash or a request, and comes up from the file and
\* an environment that may have been changed.
Restart ==
  /\ used.restarts < MaxRestarts
  /\ used' = [used EXCEPT !.restarts = @ + 1]
  /\ env' \in Overrides /\ Loads(file, env')
  /\ StartsFrom(Overridden(file, env'))
  /\ request' = [r \in Requests |-> Idle]
  /\ missed' = FALSE
  /\ UNCHANGED file

-------------------------------------------------------------------------------
(***************************************************************************)
(* Config.Save: the whole configuration, written in place.  A write that   *)
(* fails leaves the file as it was or cut short.                           *)
(***************************************************************************)
SaveWorks(c) == cfg' = c /\ file' = c /\ UNCHANGED <<missed, used>>

SaveFails(c) ==
  /\ used.changes < MaxChanges
  /\ used' = [used EXCEPT !.changes = @ + 1]
  /\ cfg' = c
  /\ file' \in {file, Defaults}
  /\ missed' = TRUE

Save(c) == SaveWorks(c) \/ SaveFails(c)

Saved == file' = cfg' /\ missed' = missed

-------------------------------------------------------------------------------
(***************************************************************************)
(* The requests.  Each has been let through by its handler's look at the   *)
(* registry (Arrives) and now takes the lock; ResetProvider takes it three *)
(* times.                                                                  *)
(***************************************************************************)
Ends(r) == request' = [request EXCEPT ![r] = Idle]

Goes(r, next) == request' = [request EXCEPT ![r] = next]

Refused(r) == Ends(r) /\ UNCHANGED <<cfg, file, order, slots, fallback, applied, missed, used>>

\* The entry is updated in place, so that its type and its kinds survive.
KeyedEntry(n, key) == [EntryOf(cfg, n) EXCEPT !.key = key]

SetProviderAPIKey(n, key) ==
  /\ slots' = [slots EXCEPT ![n] = [k \in DOMAIN slots[n] |-> Client(key, cfg.general)]]
  /\ Save(WithEntry(cfg, n, KeyedEntry(n, key)))
  /\ UNCHANGED <<order, fallback, applied>>

KeySet(r) ==
  LET n == request[r].name IN
  /\ request[r].op = "key"
  /\ \/ ResolvedType(cfg, n) \notin Known /\ Refused(r)
     \/ /\ ResolvedType(cfg, n) \in Known
        /\ SetProviderAPIKey(n, request[r].key)
        /\ Ends(r)

\* The kinds a provider serves once what was asked of it is applied.
WantedKinds(n, ask) ==
  {k \in Kinds : IF k \in DOMAIN ask THEN ask[k]
                 ELSE k \in KindsOf(cfg, n) \ EntryOf(cfg, n).off}

Refuses(n, ask) ==
  \/ n \notin DOMAIN cfg.providers /\ ~Registered(n)
  \/ ResolvedType(cfg, n) \notin Known
  \/ \E k \in DOMAIN ask : ask[k] /\ k \notin KindsOf(cfg, n)

SetProviderKinds(n, ask) ==
  LET entry == EntryOf(cfg, n)
      want == WantedKinds(n, ask)
  IN /\ SetKinds(n, KindsOf(cfg, n) \cap want, entry.key, cfg.general)
     /\ Save(WithEntry(cfg, n, [entry EXCEPT !.off = KindsOf(cfg, n) \ want]))
     /\ UNCHANGED applied

KindsSet(r) ==
  LET n == request[r].name
      ask == request[r].ask
  IN /\ request[r].op = "kinds"
     /\ IF Refuses(n, ask) THEN Refused(r) ELSE SetProviderKinds(n, ask) /\ Ends(r)

\* ResetProvider reads the entry, clears the key and hands every supported
\* kind back, giving the lock up in between.
ResetReads(r) ==
  LET n == request[r].name IN
  /\ request[r].op = "reset"
  /\ IF n \in DOMAIN cfg.providers \/ Registered(n)
     THEN Goes(r, [op |-> "clear", name |-> n, kinds |-> KindsOf(cfg, n)])
     ELSE Ends(r)
  /\ UNCHANGED <<cfg, file, order, slots, fallback, applied, missed, used>>

ResetClears(r) ==
  LET n == request[r].name IN
  /\ request[r].op = "clear"
  /\ \/ ResolvedType(cfg, n) \notin Known /\ Refused(r)
     \/ /\ ResolvedType(cfg, n) \in Known
        /\ SetProviderAPIKey(n, None)
        /\ IF Saved THEN Goes(r, [op |-> "kinds", name |-> n,
                                   ask |-> [k \in request[r].kinds |-> TRUE]])
           ELSE Ends(r)

AddedEntry(n, type, key) ==
  [key |-> key, type |-> IF type = n THEN None ELSE type, off |-> {}]

AddProvider(r) ==
  LET n == request[r].name IN
  /\ request[r].op = "add"
  /\ IF n \in DOMAIN cfg.providers
     THEN Refused(r)
     ELSE /\ SetKinds(n, Supports[request[r].type], request[r].key, cfg.general)
          /\ Save(WithEntry(cfg, n, AddedEntry(n, request[r].type, request[r].key)))
          /\ Ends(r)
          /\ UNCHANGED applied

\* Mutation: the entry is only unregistered, and left in the configuration.
EntryLeft(c, n) == c

WithoutEntry(c, n) ==
  [c EXCEPT !.providers = [m \in DOMAIN c.providers \ {n} |-> c.providers[m]]]

RemoveProvider(r) ==
  LET n == request[r].name
      rest == WithoutEntry(cfg, n)
  IN /\ request[r].op = "remove"
     /\ IF n \notin DOMAIN cfg.providers
        THEN Refused(r)
        ELSE /\ Unregister(n)
             /\ Save([rest EXCEPT !.default = IF @ = n THEN fallback' ELSE @])
             /\ Ends(r)
             /\ UNCHANGED applied

SetDefaultProvider(r) ==
  LET n == request[r].name IN
  /\ request[r].op = "default"
  /\ fallback' = IF Registered(n) THEN n ELSE fallback
  /\ Save([cfg EXCEPT !.default = n])
  /\ Ends(r)
  /\ UNCHANGED <<order, slots, applied>>

-------------------------------------------------------------------------------
(***************************************************************************)
(* UpdateGeneral.  A failed write returns before anything is applied; else *)
(* the importer is told and every configured client is built again.        *)
(***************************************************************************)
\* Mutation: clients keep the settings they were built with.
NotRebuilt(g) == slots

Rebuilt(g) ==
  [n \in Names |->
     IF EntryOf(cfg, n).key # None /\ ResolvedType(cfg, n) \in Known
     THEN [k \in DOMAIN slots[n] |-> Client(EntryOf(cfg, n).key, g)]
     ELSE slots[n]]

UpdateGeneral(g) ==
  LET candidate == [cfg EXCEPT !.general = g] IN
  /\ g # cfg.general
  /\ WellFormed(candidate)
  /\ used.changes < MaxChanges
  /\ \/ /\ cfg' = candidate
        /\ file' = candidate
        /\ applied' = g
        /\ slots' = Rebuilt(g)
        /\ used' = [used EXCEPT !.changes = @ + 1]
        /\ UNCHANGED missed
     \/ SaveFails(candidate) /\ UNCHANGED <<applied, slots>>
  /\ UNCHANGED <<order, fallback, request>>

(***************************************************************************)
(* A request arrives and passes its handler's check.                       *)
(***************************************************************************)
Asked(n) ==
  IF Registered(n)
  THEN [op : {"reset", "remove", "default"}, name : {n}]
       \cup [op : {"key"}, name : {n}, key : Keys \cup {None}]
       \cup [op : {"kinds"}, name : {n}, ask : Toggles]
  ELSE [op : {"add"}, name : {n}, type : Known, key : Keys \cup {None}]

Arrives(r) ==
  /\ request[r] = Idle
  /\ used.changes < MaxChanges
  /\ used' = [used EXCEPT !.changes = @ + 1]
  /\ \E n \in Names : \E q \in Asked(n) : Goes(r, q)
  /\ UNCHANGED <<cfg, file, order, slots, fallback, applied, missed>>

Handles(r) ==
  \/ KeySet(r) \/ KindsSet(r) \/ ResetReads(r) \/ ResetClears(r)
  \/ AddProvider(r) \/ RemoveProvider(r) \/ SetDefaultProvider(r)

\* The environment is read at a start only.
SettingsSide ==
  /\ \/ \E r \in Requests : Arrives(r) \/ Handles(r)
     \/ \E g \in Generals \cup Malformed : UpdateGeneral(g)
  /\ UNCHANGED env

SettingsNext == SettingsSide \/ Restart

SettingsSpec == SettingsInit /\ [][SettingsNext]_settingsVars

-------------------------------------------------------------------------------
(***************************************************************************)
(* Properties.                                                             *)
(***************************************************************************)
Config ==
  [providers : UNION {[d -> Entry] : d \in SUBSET Names},
   default : Names \cup {None}, general : Generals]

Clients == [key : Keys \cup {None}, general : Generals \cup {0}]

PendingRequest ==
  {Idle} \cup UNION {[op : {"reset", "remove", "default"}, name : Names],
                     [op : {"clear"}, name : Names, kinds : SUBSET Kinds],
                     [op : {"key"}, name : Names, key : Keys \cup {None}],
                     [op : {"kinds"}, name : Names,
                      ask : Toggles \cup {[k \in s |-> TRUE] : s \in SUBSET Kinds}],
                     [op : {"add"}, name : Names, type : Known, key : Keys \cup {None}]}

\* The configuration, the file, the registry and the requests have their types,
\* and no name is registered twice (Registry.indexOf, SetKinds).
SettingsTypeOK ==
  /\ cfg \in Config
  /\ file \in Config
  /\ order \in Seq(Names)
  /\ IsInjective(order)
  /\ slots \in [Names -> UNION {[ks -> Clients] : ks \in SUBSET Kinds}]
  /\ fallback \in Names \cup {None}
  /\ applied \in Generals /\ env \in Overrides
  /\ request \in [Requests -> PendingRequest]
  /\ missed \in BOOLEAN

\* The registry never sends a download to a name that is gone: the fallback is
\* a registered name for as long as there is one (Unregister, SetDefault,
\* against requests whose look at the registry is out of date).
FallbackIsRegistered ==
  IF order = <<>> THEN fallback = None ELSE Registered(fallback)

\* What runs is what the file says: if no write of config.yaml has failed, a
\* restart gets through and leaves every registered provider with the kinds,
\* the key and the settings it has now, unless a setting was changed that the
\* environment has the last word on (SetProviderAPIKey, SetProviderKinds,
\* UpdateGeneral, Load).
RestartChangesNothing ==
  ~missed => LET read == Overridden(file, env) IN
    /\ Loads(file, env)
    /\ env \in {0, applied} =>
         /\ \A n \in ToSet(order) : slots[n] = StartSlots(read)[n]
         /\ applied = read.general

\* A second account that has been removed comes back by being added, and by
\* nothing else: no request that was under way, no restart (handleResetProvider's
\* comment: "nothing recreates it").
RemovedAccountsStayGone ==
  [][\A n \in Names \ Known :
       ~Registered(n) /\ Registered(n)' =>
         \/ missed
         \/ \E r \in Requests : request[r].op = "add" /\ request[r].name = n]_settingsVars
===============================================================================
