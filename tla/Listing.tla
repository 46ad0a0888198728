------------------------------ MODULE Listing ------------------------------
(***************************************************************************)
(* When a Manual download that its provider no longer lists is given up.   *)
(*                                                                         *)
(* Once an interval the importer lists one provider's account              *)
(* (importer.go, refreshKind) and compares the rows it tracks there with   *)
(* the answer (downloads.go, RefreshFromProvider).  A Manual row absent    *)
(* from several listings in a row becomes an error: the one destructive    *)
(* conclusion of the refresh.  Three guards stand before it: the provider  *)
(* must have answered several times without a failure between, the row     *)
(* must have been absent several times, and a listing that lacks more than *)
(* half of the rows is not believed until it has looked so for a grace     *)
(* period.  A fast poll of single downloads runs beside the pass and       *)
(* shares its back-off after a rate limit.                                 *)
(*                                                                         *)
(* Refresh models what a listing does to the rows it shows, two polls at   *)
(* a time; this module is about the rows it does not show.                 *)
(***************************************************************************)
EXTENDS Integers, FiniteSets

CONSTANTS
    Rows,          \* the Manual rows of one provider and kind
    Streak,        \* trustedListStreak
    Threshold,     \* missingDetectionThreshold
    MinTracked,    \* massVanishMinTracked
    Grace,         \* massVanishMaxDuration, in time units
    Interval,      \* import_interval_seconds, in time units
    MaxCooldown    \* rateLimitBackoffMax, in time units

\* The importer's interval has no upper bound in the configuration.  A pass
\* that comes less often than once a grace period starts the grace period
\* over each time, and an emptied account is then never believed.
\* A streak of one would let an anomaly's clock run on across a failure.
ASSUME ListingAssumption ==
    /\ IsFiniteSet(Rows)
    /\ Streak \in Nat /\ 1 < Streak /\ Threshold \in Nat \ {0} /\ MinTracked \in Nat
    /\ Grace \in Nat /\ Interval \in Nat \ {0} /\ MaxCooldown \in Nat \ {0}
    /\ Interval <= Grace
    /\ Threshold <= Streak

VARIABLES
    account,   \* the rows whose downloads the provider holds
    row,       \* row[r]: the state and missing_count of the downloads table
    process,   \* what the process remembers: streak, vanish, hits, cooling
    past,      \* what an observer saw: unseen[r], odd
    steady     \* the account no longer changes and the provider answers

listing == <<account, row, process, past, steady>>

----------------------------------------------------------------------------
(* The guards.                                                             *)

Least(a, b) == IF a <= b THEN a ELSE b

\* Ages past the grace period are all alike.
Older(age) == Least(age + Interval, Grace + 1)

NoAnomaly == [since |-> -1, seen |-> -1]

\* Rows the guards are about: an error is past saving.
Tracked == {r \in Rows : row[r].state = "live"}

\* isSuspectedMassVanish.
MassVanish(shown) ==
    /\ Cardinality(Tracked) >= MinTracked
    /\ 2 * Cardinality(Tracked \ shown) > Cardinality(Tracked)

\* massVanishDecision: the entry after a listing.  A long silence describes
\* another account's history and starts the clock over.
\* Mutation: an anomaly keeps the clock of one that passed long ago.
NeverForgets(suspect, v) ==
    IF suspect THEN IF v = NoAnomaly THEN [since |-> 0, seen |-> 0]
                    ELSE [v EXCEPT !.seen = 0]
    ELSE v
Anomaly(suspect, v) ==
    IF ~suspect THEN NoAnomaly
    ELSE IF v = NoAnomaly \/ v.seen > Grace THEN [since |-> 0, seen |-> 0]
    ELSE [v EXCEPT !.seen = 0]

\* Mutation: the guard is not bounded in time.
DistrustsForEver(suspect, v) == suspect
Distrusts(suspect, v) == suspect /\ v.since <= Grace

\* rateLimitBackoffDuration, doubled with every hit.
\* Mutation: the shift starts one too high and nothing caps it.
BackoffUncapped(hits) == 2 ^ hits
BackoffDuration(hits) ==
    LET d == 2 ^ (IF hits <= 1 THEN 0 ELSE hits - 1)
    IN  IF d <= 0 \/ d > MaxCooldown THEN MaxCooldown ELSE d
----------------------------------------------------------------------------
(* What a listing does to a row.                                           *)

\* A row the listing shows: it is no longer missing, and unless its own
\* retries are used up it takes the provider's state.
\* Mutation: what a row was missing before is kept.
KeepsCount(r) ==
    [row[r] EXCEPT !.state = IF @ = "gaveUp" THEN @ ELSE "live"]
Found(r) ==
    [missing |-> 0,
     state |-> IF row[r].state = "gaveUp" THEN "gaveUp" ELSE "live"]

\* handleMissingFromProvider.  The count stays as it is on the last miss.
Missing(r) ==
    IF row[r].state # "live" THEN row[r]
    ELSE IF row[r].missing + 1 < Threshold
         THEN [row[r] EXCEPT !.missing = @ + 1]
         ELSE [row[r] EXCEPT !.state = "error"]

----------------------------------------------------------------------------
\* An observer begins anew when the provider fails and with the process.
Blank == [unseen |-> [r \in Rows |-> 0], odd |-> -1]
LooksOdd(shown) ==
    /\ Cardinality(Tracked) >= MinTracked
    /\ Cardinality(Tracked \ shown) > Cardinality(Tracked \cap shown)
Since(age) == IF age = -1 THEN 0 ELSE Older(age)

ListingInit ==
    /\ account = Rows
    /\ row \in [Rows -> {[state |-> s, missing |-> 0] : s \in {"live", "gaveUp"}}]
    /\ process = [streak |-> 0, vanish |-> NoAnomaly, hits |-> 0, cooling |-> 0]
    /\ past = Blank
    /\ steady = FALSE

\* What a pass finds of the process: an interval has gone by.
Aged ==
    [process EXCEPT
       !.vanish = IF @ = NoAnomaly THEN @
                  ELSE [since |-> Older(@.since), seen |-> Older(@.seen)],
       !.cooling = IF @ > Interval THEN @ - Interval ELSE 0]

\* The provider answers with the rows of shown, some of them (old) with an
\* older record than the one applied before.  A pass that does not trust the
\* provider yet refreshes the rows it was shown, judges none of the others,
\* and takes back what looked anomalous.
Judges(shown, old) ==
    LET streak  == Least(Aged.streak + 1, Streak)
        trusted == streak = Streak
        suspect == trusted /\ MassVanish(shown)
        vanish  == Anomaly(suspect, Aged.vanish)
    IN  /\ row' = [r \in Rows |->
                     IF r \in old THEN row[r]
                     ELSE IF r \in shown THEN Found(r)
                     ELSE IF trusted /\ ~Distrusts(suspect, vanish) THEN Missing(r)
                     ELSE row[r]]
        /\ process' = [streak |-> streak, vanish |-> vanish, hits |-> 0, cooling |-> 0]
        /\ past' = [unseen |-> [r \in Rows |->
                                  IF r \in shown \ old THEN 0
                                  ELSE Least(past.unseen[r] + 1, Threshold)],
                    odd |-> IF trusted /\ LooksOdd(shown) THEN Since(past.odd) ELSE -1]

Cooling == Aged.cooling > 0

Answers(shown, old) ==
    /\ ~Cooling
    /\ shown \subseteq account
    /\ Judges(shown, old)
    /\ UNCHANGED <<account, steady>>

\* The whole account, each row with its newest record.
AnswersFully == Answers(account, {})

AnswersInPart ==
    /\ ~steady
    /\ \E shown \in SUBSET account, old \in SUBSET account :
         old \subseteq shown /\ Answers(shown, old)

FailureRecorded(next) == process' = [next EXCEPT !.streak = 0]

Fails ==
    /\ ~steady /\ ~Cooling
    /\ FailureRecorded(Aged)
    /\ past' = Blank
    /\ UNCHANGED <<account, row, steady>>

\* recordRateLimitHit.
Limited(p) ==
    LET hits == Least(p.hits + 1, MaxCooldown)
    IN  [p EXCEPT !.hits = hits, !.cooling = BackoffDuration(hits)]

RateLimits ==
    /\ ~steady /\ ~Cooling
    /\ FailureRecorded(Limited(Aged))
    /\ past' = Blank
    /\ UNCHANGED <<account, row, steady>>

\* A pass inside the back-off asks nothing; the streak stays.
Skips ==
    /\ Cooling
    /\ process' = Aged
    /\ past' = [past EXCEPT !.odd = IF @ = -1 THEN @ ELSE Older(@)]
    /\ UNCHANGED <<account, row, steady>>

\* refreshKind, once an interval.
RefreshKind == AnswersFully \/ AnswersInPart \/ Fails \/ RateLimits \/ Skips

----------------------------------------------------------------------------
(* The fast poll of the Managed downloads, which has its own ticker.       *)

FastPollLimited ==
    /\ ~steady /\ process.cooling = 0
    /\ process' = Limited(process)
    /\ UNCHANGED <<account, row, past, steady>>

\* Its answer may have been under way when the pass was rate limited.
FastPollAnswers ==
    /\ process.hits > 0
    /\ process' = [process EXCEPT !.hits = 0, !.cooling = 0]
    /\ UNCHANGED <<account, row, past, steady>>

----------------------------------------------------------------------------
(* The world.                                                              *)

\* A download leaves the account or, gone, is added there again.
Leaves(r) ==
    /\ ~steady /\ r \in account
    /\ account' = account \ {r}
    /\ UNCHANGED <<row, process, past, steady>>

ComesBack(r) ==
    /\ ~steady /\ r \notin account
    /\ account' = account \cup {r}
    /\ UNCHANGED <<row, process, past, steady>>

\* The account is taken out of the registry for longer than the grace period.
Silence ==
    /\ ~steady
    /\ process' = [process EXCEPT
         !.vanish = IF @ = NoAnomaly THEN @
                    ELSE [since |-> Grace + 1, seen |-> Grace + 1],
         !.cooling = 0]
    /\ past' = [past EXCEPT !.odd = -1]
    /\ UNCHANGED <<account, row, steady>>

\* Only the rows outlive the process.
Restart ==
    /\ ~steady
    /\ process' = [streak |-> 0, vanish |-> NoAnomaly, hits |-> 0, cooling |-> 0]
    /\ past' = Blank
    /\ UNCHANGED <<account, row, steady>>

Settles ==
    /\ ~steady /\ steady' = TRUE
    /\ UNCHANGED <<account, row, process, past>>

ListingNext ==
    \/ RefreshKind
    \/ FastPollLimited \/ FastPollAnswers
    \/ \E r \in Rows : Leaves(r) \/ ComesBack(r)
    \/ Silence \/ Restart \/ Settles

\* The importer's ticker goes on firing; nothing is assumed of the provider
\* but what steady says.
ListingSpec ==
    ListingInit /\ [][ListingNext]_listing /\ WF_listing(RefreshKind)

----------------------------------------------------------------------------
(* Properties.                                                             *)

\* Every value is one the code can hold; a row that is tracked is never left
\* at the threshold (handleMissingFromProvider).
ListingTypeOK ==
    /\ account \subseteq Rows
    /\ row \in [Rows -> [state : {"live", "error", "gaveUp"}, missing : 0 .. Threshold - 1]]
    /\ process.streak \in 0 .. Streak
    /\ process.vanish \in {NoAnomaly} \cup [since : 0 .. Grace + 1, seen : 0 .. Grace + 1]
    /\ process.hits \in 0 .. MaxCooldown /\ process.cooling \in 0 .. MaxCooldown
    /\ past.unseen \in [Rows -> 0 .. Threshold] /\ past.odd \in -1 .. Grace + 1
    /\ steady \in BOOLEAN

Flagged(r) ==
    row[r].state = "live" /\ row'[r].state = "error"

\* A row is given up as vanished only when the last listings of the account,
\* as many as the threshold says, all came back and none of them showed the
\* row with a record as new as the one it has, whatever failures, restarts and
\* rate limits there were in between.
FlaggedOnlyWhenGone ==
    [][\A r \in Rows : Flagged(r) => past'.unseen[r] = Threshold]_listing

\* A listing that lacks more than half of the tracked rows gives none of them
\* up unless the listings have looked so, one after the other and with no long
\* silence between, for longer than the grace period.
AnomaliesGetTheirGrace ==
    [][(\E r \in Rows : Flagged(r)) /\ past'.odd # -1 => past'.odd > Grace]_listing

\* Once the provider answers steadily, every row comes to say what the account
\* holds: what has left it is given up, even when that is the whole account,
\* and what it still holds, flagged or not, shows the provider's state again.
Reconciled ==
    \A r \in Rows :
        row[r].state = "gaveUp" \/ (row[r].state = "live" <=> r \in account)

RowsReconcile == steady ~> []Reconciled
=============================================================================
