-------------------------------- MODULE Backup --------------------------------
(***************************************************************************)
(* Snapshots of the database and putting one back.  A backup (RunOnce) is  *)
(* taken by the scheduler and by requests, which may overlap: it writes a  *)
(* new file, copies the configuration beside it and prunes.  A restore is  *)
(* staged by a request and applied by the next start, which moves the live *)
(* database aside first.  The process may crash between any two steps, and *)
(* be stopped and started any number of times.                             *)
(*                                                                         *)
(* Time is told in ticks, and relative to now: how many have passed since  *)
(* a snapshot was named, how many the timer has left.  Left out: clocks    *)
(* that are set back, a backup directory that cannot be read, file modes,  *)
(* and what a database has in its -wal only.                               *)
(***************************************************************************)
EXTENDS Naturals, Sequences, SequencesExt, FiniteSets

CONSTANTS
  Names,        \* file names of snapshots, used again once they are free
  Intervals,    \* values of backup_interval_hours, in ticks; 0 is off
  Keeps,        \* values of backup_keep; 0 keeps everything
  OnRequest,    \* whether backups are taken by requests, too
  Restores,     \* whether snapshots are put back
  MaxUsed       \* bounds the failures and the requested backups of a run

Longest == Max(Intervals)

ASSUME BackupAssumption ==
  /\ IsFiniteSet(Intervals) /\ Intervals \subseteq Nat /\ Intervals # {}
  /\ Keeps \subseteq Nat /\ Keeps # {}
  /\ {OnRequest, Restores} \subseteq BOOLEAN
  /\ MaxUsed \in Nat
  /\ "none" \notin Names

VARIABLES
  snaps,      \* the names of the snapshots on disk, newest first
  age,        \* name -> ticks since it was given, Longest and over alike
  whole,      \* the names whose file is complete
  bare,       \* the names that are without their configuration copy
  interval, keep,   \* the Runner's configuration
  changed,    \* its channel: the interval Run has still to hear of, if any
  timer,      \* ticks until the next backup, Off without one
  at,         \* who takes a backup -> where in RunOnce it is
  own,        \* ... -> the name of the snapshot it writes
  victims,    \* ... -> the names its prune has still to remove
  phase,      \* the process: "down", "aside" (between the moves), "up", "stopping"
  live, displaced, staged,   \* the database, the one set aside, the one staged
  used        \* failures and requested backups so far (bounded)

runner == <<interval, keep, changed, timer>>
taking == <<at, own, victims>>
folder == <<snaps, age, whole, bare>>
files == <<live, displaced, staged>>
backupVars == <<folder, runner, taking, phase, files, used>>

Takers == IF OnRequest THEN {"schedule", "request"} ELSE {"schedule"}

Running == phase \in {"up", "stopping"}

Counts == used < MaxUsed /\ used' = used + 1

\* A timer that is stopped.
Off == Longest + 1

\* What a timer is set to wait; 0 stops it.
Timer(i) == IF i = 0 THEN Off ELSE i

\* Mutation: the schedule is timed from the start of the process.
FromTheStart(i) == Timer(i)

\* initialDelay, timed from the newest snapshot; a second is no tick.
InitialDelay(i) ==
  IF i = 0 THEN Off
  ELSE IF snaps = <<>> \/ age[Head(snaps)] >= i THEN 0
  ELSE i - age[Head(snaps)]

BackupInit ==
  /\ snaps = <<>> /\ whole = {} /\ bare = {}
  /\ age = [n \in Names |-> 0]
  /\ interval \in Intervals /\ keep \in Keeps
  /\ changed = {} /\ timer = InitialDelay(interval)
  /\ at = [t \in Takers |-> "idle"]
  /\ own = [t \in Takers |-> "none"]
  /\ victims = [t \in Takers |-> <<>>]
  /\ phase = "up"
  /\ live = "current" /\ displaced = "none" /\ staged = "none"
  /\ used = 0

-------------------------------------------------------------------------------
(***************************************************************************)
(* RunOnce.  The one connection to the database writes one snapshot at a   *)
(* time; everything else of two backups may interleave.                    *)
(***************************************************************************)
Moves(t, next) == at' = [at EXCEPT ![t] = next]

\* Mutation: a file of that name may exist.
FreeOrTaken == {n \in Names : \A t \in Takers : n # own[t]}

\* Names are as good as one another, as long as nobody is about to use them.
Free == {n \in Names \ ToSet(snaps) : \A t \in Takers : n # own[t] /\ n \notin ToSet(victims[t])}

\* BackupTo: a new file under the name of the second, complete when VACUUM INTO
\* returns.  A second backup of the same second is refused.
Begins(t) ==
  /\ at[t] = "idle" /\ Running /\ Free # {}
  /\ \A u \in Takers : at[u] # "write"
  /\ LET n == CHOOSE n \in Free : TRUE IN
     /\ snaps' = <<n>> \o snaps
     /\ whole' = whole \ {n} /\ bare' = bare \ {n}
     /\ own' = [own EXCEPT ![t] = n]
  /\ Moves(t, "write")
  /\ UNCHANGED <<age, victims>>

\* What is kept of a snapshot that is gone: nothing.
Forgets(n) ==
  /\ snaps' = RemoveFirst(snaps, n)
  /\ age' = [age EXCEPT ![n] = 0]
  /\ whole' = whole \ {n}
  /\ bare' = bare \ {n}

SameSecond == snaps # <<>> /\ age[Head(snaps)] = 0

Writes(t) ==
  /\ at[t] = "write"
  /\ whole' = whole \cup {own[t]}
  /\ Moves(t, "copy")
  /\ UNCHANGED <<snaps, age, bare, runner, own, victims, phase, files, used>>

\* What was written so far may stay behind.
WriteFails(t) ==
  /\ at[t] = "write" /\ Counts
  /\ Forgets(own[t]) \/ UNCHANGED folder
  /\ Moves(t, "over")
  /\ UNCHANGED <<runner, own, victims, phase, files>>

\* copyConfig: best effort, a copy that fails costs nothing else.
CopiesConfig(t) ==
  /\ at[t] = "copy"
  /\ \/ UNCHANGED <<bare, used>>
     \/ bare' = bare \cup {own[t]} /\ Counts
  /\ Moves(t, "prune")
  /\ UNCHANGED <<snaps, age, whole, runner, own, victims, phase, files>>

\* Mutation: the listing is oldest first.
BeyondOldest(k) ==
  IF k = 0 \/ Len(snaps) <= k THEN <<>> ELSE SubSeq(Reverse(snaps), k + 1, Len(snaps))

Beyond(k) == IF k = 0 \/ Len(snaps) <= k THEN <<>> ELSE SubSeq(snaps, k + 1, Len(snaps))

\* prune lists once and removes what is beyond keep.
Prunes(t) ==
  /\ at[t] = "prune"
  /\ victims' = [victims EXCEPT ![t] = Beyond(keep)]
  /\ Moves(t, "remove")
  /\ UNCHANGED <<folder, runner, own, phase, files, used>>

\* The copy goes first.  A snapshot that cannot be removed, or is gone, ends
\* the prune.
Removes(t) ==
  /\ at[t] = "remove" /\ victims[t] # <<>>
  /\ LET n == Head(victims[t]) IN
     \/ /\ n \in ToSet(snaps)
        /\ Forgets(n)
        /\ victims' = [victims EXCEPT ![t] = Tail(@)]
        /\ UNCHANGED used
     \/ /\ IF n \in ToSet(snaps) THEN Counts ELSE UNCHANGED used
        /\ bare' = IF n \in ToSet(snaps) THEN bare \cup {n} ELSE bare
        /\ victims' = [victims EXCEPT ![t] = <<>>]
        /\ UNCHANGED <<snaps, age, whole>>
  /\ UNCHANGED <<runner, at, own, phase, files>>

Pruned(t) ==
  /\ at[t] = "remove" /\ victims[t] = <<>>
  /\ Moves(t, "over")
  /\ UNCHANGED <<folder, runner, own, victims, phase, files, used>>

Ends(t) ==
  /\ at[t] = "over"
  /\ Moves(t, "idle")
  /\ own' = [own EXCEPT ![t] = "none"]

RunsOnce(t) ==
  Writes(t) \/ WriteFails(t) \/ CopiesConfig(t) \/ Prunes(t) \/ Removes(t) \/ Pruned(t)

-------------------------------------------------------------------------------
(***************************************************************************)
(* Run, the scheduler, and the requests.                                   *)
(***************************************************************************)
Fires ==
  /\ phase = "up" /\ timer = 0
  /\ timer' = Off
  /\ \/ Begins("schedule")
     \/ /\ at["schedule"] = "idle" /\ SameSecond
        /\ Moves("schedule", "over")
        /\ UNCHANGED <<folder, own, victims>>
  /\ UNCHANGED <<interval, keep, changed, phase, files, used>>

\* Whatever came of it, the next one is an interval away.
Rearms ==
  /\ Ends("schedule")
  /\ timer' = Timer(interval)
  /\ UNCHANGED <<folder, interval, keep, changed, victims, phase, files, used>>

HearsChange ==
  /\ phase = "up" /\ at["schedule"] = "idle"
  /\ \E i \in changed : timer' = InitialDelay(i)
  /\ changed' = {}
  /\ UNCHANGED <<folder, interval, keep, taking, phase, files, used>>

\* Mutation: the channel takes nothing while an earlier interval is in it.
ChangeDropped(i, k) ==
  /\ Running
  /\ interval' = i /\ keep' = k
  /\ changed' = IF i = interval \/ changed # {} THEN changed ELSE {i}
  /\ UNCHANGED <<folder, timer, taking, phase, files, used>>

\* Under the lock of the settings, so one at a time: an interval Run has not
\* heard of yet is replaced.
SetConfig(i, k) ==
  /\ Running
  /\ interval' = i /\ keep' = k
  /\ changed' = IF i = interval THEN changed ELSE {i}
  /\ UNCHANGED <<folder, timer, taking, phase, files, used>>

RunBackupNow ==
  /\ OnRequest /\ Begins("request") /\ Counts
  /\ UNCHANGED <<runner, phase, files>>

Answers ==
  /\ OnRequest /\ Ends("request")
  /\ UNCHANGED <<folder, runner, victims, phase, files, used>>

DeleteBackup(n) ==
  /\ OnRequest /\ Running /\ n \in ToSet(snaps)
  /\ Forgets(n)
  /\ UNCHANGED <<runner, taking, phase, files, used>>

-------------------------------------------------------------------------------
(***************************************************************************)
(* Restoring.  The labels of a database's contents: "current" is the one   *)
(* the process last worked on, "snapshot" one taken from the backups,      *)
(* "cut" a file that is not complete, "earlier" anything older.            *)
(***************************************************************************)
\* stageRestore truncates the staged file and then fills it.
StageRestore ==
  /\ Restores /\ phase = "up" /\ snaps # <<>>
  /\ staged' = "cut"
  /\ UNCHANGED <<folder, runner, taking, phase, live, displaced, used>>

\* RestoreBackup ends in RequestRestart.
Staged(n) ==
  /\ phase = "up" /\ staged = "cut" /\ n \in ToSet(snaps)
  /\ staged' = IF n \in whole THEN "snapshot" ELSE "cut"
  /\ phase' = "stopping"
  /\ UNCHANGED <<folder, runner, taking, live, displaced, used>>

\* The process ends, by a request, by a signal or by a crash.  What stops a
\* backup counts as a failure.
Stops ==
  /\ Running
  /\ phase' = "down"
  /\ IF \A t \in Takers : at[t] \in {"idle", "over"} THEN UNCHANGED used ELSE Counts
  /\ at' = [t \in Takers |-> "idle"]
  /\ own' = [t \in Takers |-> "none"]
  /\ victims' = [t \in Takers |-> <<>>]
  /\ timer' = Off /\ changed' = {}
  /\ UNCHANGED <<folder, interval, keep, live, displaced, staged>>

\* Mutation: the file set aside before is replaced in any case.
SetsAsideAnyway ==
  /\ phase = "down" /\ staged # "none"
  /\ displaced' = live /\ live' = "none"
  /\ phase' = "aside"
  /\ UNCHANGED <<folder, runner, taking, staged, used>>

\* applyPendingRestore, with a staged file only: first the live database is
\* moved aside, unless a crash has left none ...
SetsAside ==
  /\ phase = "down" /\ staged # "none"
  /\ IF live = "none" THEN UNCHANGED <<live, displaced>>
     ELSE displaced' = live /\ live' = "none"
  /\ phase' = "aside"
  /\ UNCHANGED <<folder, runner, taking, staged, used>>

\* ... then its sidecars go, and the staged file takes its place.
MovesIn ==
  /\ phase = "aside"
  /\ live' = staged /\ staged' = "none"
  /\ phase' = "down"
  /\ UNCHANGED <<folder, runner, taking, displaced, used>>

\* A start without a staged file opens what is there, creating it if nothing
\* is; a file cut short opens only if it is empty.
Starts ==
  /\ phase = "down" /\ staged = "none"
  /\ phase' = "up"
  /\ live' = "current"
  /\ displaced' = IF live # "current" /\ displaced # "none" THEN "earlier" ELSE displaced
  /\ timer' = InitialDelay(interval)
  /\ UNCHANGED <<folder, interval, keep, changed, taking, staged, used>>

\* A start may crash between the two moves, and begin again.
StartCrashes ==
  /\ phase = "aside" /\ phase' = "down"
  /\ UNCHANGED <<folder, runner, taking, files, used>>

Restoring ==
  \/ StageRestore \/ SetsAside \/ MovesIn \/ StartCrashes
  \/ \E n \in Names : Staged(n)

\* What is due is begun before time goes on.
Ticks ==
  /\ ~(phase = "up" /\ timer = 0)
  /\ age' = [n \in Names |-> IF n \in ToSet(snaps) /\ age[n] < Longest THEN age[n] + 1 ELSE age[n]]
  /\ timer' = IF timer \in {0, Off} THEN timer ELSE timer - 1
  /\ UNCHANGED <<snaps, whole, bare, interval, keep, changed, taking, phase, files, used>>

BackupNext ==
  \/ \E t \in Takers : RunsOnce(t)
  \/ Fires \/ Rearms \/ HearsChange \/ RunBackupNow \/ Answers
  \/ \E i \in Intervals, k \in Keeps : SetConfig(i, k)
  \/ \E n \in Names : DeleteBackup(n)
  \/ Restoring \/ Stops \/ Starts \/ Ticks

BackupSpec == BackupInit /\ [][BackupNext]_backupVars

(***************************************************************************)
(* Fairness: time goes on, a process that stops is started again, and      *)
(* again and again a start gets through, and runs for the second a backup  *)
(* that is due waits.  Nothing keeps it from being stopped ever after.     *)
(***************************************************************************)
BackupFairness ==
  /\ WF_backupVars(phase = "stopping" /\ Stops)
  /\ WF_backupVars(SetsAside \/ Starts) /\ SF_backupVars(MovesIn)
  /\ SF_backupVars(Fires)
  /\ \A t \in Takers : WF_backupVars(RunsOnce(t))
  /\ WF_backupVars(Rearms) /\ WF_backupVars(Answers)
  /\ SF_backupVars(HearsChange)
  /\ WF_backupVars(Ticks)

FairBackupSpec == BackupSpec /\ BackupFairness

-------------------------------------------------------------------------------
(***************************************************************************)
(* Properties.                                                             *)
(***************************************************************************)
Steps == {"idle", "write", "copy", "prune", "remove", "over"}

\* Snapshots, schedule, steps and files have their types: no snapshot is ever
\* written over another one (BackupTo), and the timer never has more than an
\* interval, or less than nothing, to wait (initialDelay).
BackupTypeOK ==
  /\ snaps \in Seq(Names) /\ IsInjective(snaps)
  /\ age \in [Names -> 0..Longest]
  /\ whole \subseteq Names /\ bare \subseteq Names
  /\ interval \in Intervals /\ keep \in Keeps /\ changed \subseteq Intervals
  /\ timer \in 0..Off
  /\ at \in [Takers -> Steps] /\ own \in [Takers -> Names \cup {"none"}]
  /\ victims \in [Takers -> Seq(Names)]
  /\ phase \in {"down", "aside", "up", "stopping"}
  /\ live \in {"none", "cut", "current", "snapshot"}
  /\ displaced \in {"none", "cut", "current", "earlier", "snapshot"}
  /\ staged \in {"none", "cut", "snapshot"}
  /\ used \in 0..MaxUsed

\* Whatever a start is interrupted by, and however often, the database the
\* process last worked on is in its place or set aside (applyPendingRestore).
NoHistoryLost == live = "current" \/ displaced = "current"

\* A prune belongs to a backup that has succeeded, and takes the oldest: with
\* a snapshot everything older goes, whatever was begun, deleted or pruned
\* beside it since it listed them (RunOnce, prune).
PruneTradesUp ==
  \A t \in Takers : LET gone == ToSet(victims[t]) IN
    /\ gone # {} /\ own[t] \in ToSet(snaps) => own[t] \in whole
    /\ \A i, j \in DOMAIN snaps : i < j /\ snaps[i] \in gone => snaps[j] \in gone

\* Once Run has heard of every change, it waits for a backup exactly when the
\* schedule is on, as it was last set (SetConfig, Run).
TimerFollowsInterval ==
  phase = "up" /\ changed = {} /\ at["schedule"] = "idle" =>
    (timer = Off <=> interval = 0)

\* A schedule that is on makes a backup again and again, however often the
\* process is restarted in between (initialDelay's comment: "an instance
\* restarted more often than the interval never backed up *at all*").
BackupsGoOn == []<>(interval = 0 \/ \E t \in Takers : at[t] = "write")
===============================================================================
