-------------------------------- MODULE Routing --------------------------------
(***************************************************************************)
(* Which provider an add goes to, beside requests that change the          *)
(* registry.  The compat shims take the registry's default for the kind;   *)
(* the API takes the provider the caller names, or the default if it holds *)
(* a key, or another that does, and for a web download goes on to the next *)
(* provider when one does not support the file host.  A call to a provider *)
(* takes time: what was looked up before it is out of date after it.       *)
(***************************************************************************)
EXTENDS Settings

CONSTANTS
  Adders,      \* adds, by *arr apps and by users
  HostTakers   \* the entries whose service supports the links' file host

ASSUME RoutingAssumption == Kinds = {"torrent", "usenet", "webdl"}

VARIABLE add   \* how far each add has come, and where its item and row are

routingVars == <<settingsVars, add>>

\* Mutation: the default goes for every kind.
FallbackFor(k) == fallback

\* DefaultNameFor: the default if it serves the kind, else the first that does.
DefaultNameFor(k) ==
  LET serving == Filter(order, {n \in Names : Serves(n, k)}) IN
  IF fallback # None /\ fallback \in ToSet(serving) THEN fallback
  ELSE IF serving # <<>> THEN Head(serving) ELSE None

\* configuredProviderFor: n if it holds a key, else the first that does.
ConfiguredProviderFor(n, k) ==
  LET others == Filter(order, {m \in Names : Configured(m, k)}) IN
  IF Configured(n, k) \/ others = <<>> THEN n ELSE Head(others)

\* resolveAddProvider for a caller who names none.
ResolveAddProvider(k) ==
  LET n == DefaultNameFor(k) IN
  IF n # None /\ Serves(n, k) THEN ConfiguredProviderFor(n, k) ELSE None

-------------------------------------------------------------------------------
(***************************************************************************)
(* An add is "sent" to add.name, having asked for add.asked first, until   *)
(* the item is "taken" and the add is "over", with a row or without one.   *)
(* add.held are the entries in whose accounts there is a copy now, add.row *)
(* the one the row names.                                                  *)
(***************************************************************************)
NewAdd == [stage |-> "new", via |-> None, kind |-> None, asked |-> None, name |-> None,
           chosen |-> FALSE, todo |-> <<>>, held |-> {}, row |-> None]

\* All that is left of an add: the copies, and the row if there is one.
Over(asked, row) == [NewAdd EXCEPT !.stage = "over", !.via = asked.via,
                                   !.held = asked.held, !.row = row]

RoutingInit == SettingsInit /\ add = [a \in Adders |-> NewAdd]

Becomes(a, next) == add' = [add EXCEPT ![a] = next] /\ UNCHANGED settingsVars

Sends(a, via, k, n, chosen) ==
  /\ add[a] = NewAdd
  /\ n # None
  /\ Configured(n, k)
  /\ Becomes(a, [NewAdd EXCEPT !.stage = "sent", !.via = via, !.kind = k,
                               !.asked = n, !.name = n, !.chosen = chosen])

\* addMagnet, addTorrentFile: whatever the default is, which answers
\* ErrNoProvider when it has no key.
AddsTorrent(a) == Sends(a, "shim", "torrent", DefaultNameFor("torrent"), FALSE)

\* handleAddURL, handleAddFile: an NZB that cannot be fetched here goes as the
\* link it came as, and never as both.
AddsNZB(a) == Sends(a, "shim", "usenet", DefaultNameFor("usenet"), FALSE)

\* The API: the entry the caller chose, or the one resolveAddProvider finds,
\* which is one of the same.  Which of the two it was matters to a web download
\* only.
HandleAddTorrent(a) ==
  \E n \in Names : Sends(a, "api", "torrent", n, FALSE)

HandleAddUsenet(a) ==
  \E n \in Names : Sends(a, "api", "usenet", n, FALSE)

HandleAddWebDownload(a) ==
  \/ Sends(a, "api", "webdl", ResolveAddProvider("webdl"), FALSE)
  \/ \E n \in Names : Sends(a, "api", "webdl", n, TRUE)

HostSupported(a) == add[a].kind = "webdl" => add[a].name \in HostTakers

\* The provider takes the item and says so.
Takes(a) ==
  /\ add[a].stage = "sent"
  /\ HostSupported(a)
  /\ Becomes(a, [add[a] EXCEPT !.stage = "taken", !.held = @ \cup {add[a].name}])

\* Mutation: whatever goes wrong, the next provider is asked.
AfterAnyFailure(a, unsupported) ==
  IF add[a].chosen \/ add[a].kind # "webdl" THEN "failed" ELSE "next"

\* addWebLink: only an unsupported host is tried elsewhere, and not if the
\* caller chose the provider.
AfterFailure(a, unsupported) ==
  IF unsupported /\ ~add[a].chosen THEN "next" ELSE "failed"

\* The others, in the order they have when the first one has refused.
Others(a) ==
  IF add[a].name # add[a].asked \/ add[a].kind # "webdl" THEN add[a].todo
  ELSE Filter(order, {n \in Names \ {add[a].name} : Serves(n, "webdl")})

\* The call fails: before the provider has taken the item, after it has, or
\* because the service does not support the host.
CallFails(a) ==
  /\ add[a].stage = "sent"
  /\ \E held \in IF HostSupported(a) THEN {{}, {add[a].name}} ELSE {{}} :
       LET then == [add[a] EXCEPT !.stage = AfterFailure(a, ~HostSupported(a)),
                                  !.todo = Others(a),
                                  !.held = @ \cup held]
       IN  Becomes(a, IF then.stage = "failed" THEN Over(then, None) ELSE then)

\* The next provider that still serves web downloads and holds a key.
TriesNext(a) ==
  /\ add[a].stage = "next"
  /\ IF add[a].todo = <<>>
     THEN Becomes(a, Over(add[a], None))
     ELSE LET n == Head(add[a].todo) IN
          Becomes(a, [add[a] EXCEPT !.todo = Tail(@),
                                    !.name = IF Configured(n, "webdl") THEN n ELSE @,
                                    !.stage = IF Configured(n, "webdl") THEN "sent" ELSE @])

\* addWebLink returns the provider that accepted the link.
RowTaker(a) == add[a].name

\* The API's row; a web download whose provider is gone by now has none, as the
\* handler dies on the missing wrapper.
ApiStores(a) ==
  /\ add[a].stage = "taken"
  /\ add[a].via = "api"
  /\ Becomes(a, Over(add[a],
       IF add[a].kind = "webdl" /\ ~Serves(add[a].name, "webdl") THEN None ELSE RowTaker(a)))

\* storeNewDownload of the shims asks the registry for the default again, and
\* names that in the row.
ShimStores(a, k) ==
  /\ add[a].stage = "taken"
  /\ add[a].via = "shim" /\ add[a].kind = k
  /\ Becomes(a, Over(add[a], DefaultNameFor(k)))

StoresTorrent(a) == ShimStores(a, "torrent")

StoresNZB(a) == ShimStores(a, "usenet")

AddStep(a) ==
  \/ AddsTorrent(a) \/ AddsNZB(a)
  \/ HandleAddTorrent(a) \/ HandleAddUsenet(a) \/ HandleAddWebDownload(a)
  \/ Takes(a) \/ CallFails(a) \/ TriesNext(a)
  \/ ApiStores(a) \/ StoresTorrent(a) \/ StoresNZB(a)

\* A restart ends the adds that were under way.
RoutingRestart ==
  /\ Restart
  /\ add' = [a \in Adders |-> IF add[a].stage \in {"new", "over"} THEN add[a]
                              ELSE Over(add[a], None)]

RoutingNext ==
  \/ SettingsSide /\ UNCHANGED add
  \/ \E a \in Adders : AddStep(a)
  \/ RoutingRestart

RoutingSpec == RoutingInit /\ [][RoutingNext]_routingVars

-------------------------------------------------------------------------------
(***************************************************************************)
(* Properties.                                                             *)
(***************************************************************************)
\* If any provider for a kind holds a key, an add through the API reaches one
\* that does, whichever is the default and whatever it serves
\* (resolveAddProvider, DefaultNameFor).
ApiAddsFindAKey ==
  \A k \in Kinds :
    (\E n \in Names : Configured(n, k)) =>
      ResolveAddProvider(k) # None /\ Configured(ResolveAddProvider(k), k)

\* Whatever is refused, retried elsewhere, lost on the way or reconfigured
\* meanwhile, an add leaves at most one copy in the accounts (addWebLink:
\* "re-sending it elsewhere would risk a second copy"), and a row of the API
\* names the account the copy is in.
OneCopyWhereTheRowSays ==
  \A a \in Adders :
    /\ Cardinality(add[a].held) <= 1
    /\ add[a].via = "api" /\ add[a].row # None => add[a].row \in add[a].held

(***************************************************************************)
(* Statements of the comments that do not hold, the properties of runs     *)
(* that expect a violation.                                                *)
(***************************************************************************)
\* A download that an *arr app added is recorded against the account that took
\* it (DefaultNameFor: "what an add records against the download, so
\* everything afterwards routes back to the same account").
RowsRouteBack ==
  \A a \in Adders : add[a].row # None => add[a].row \in add[a].held
===============================================================================
