----------------------------- MODULE LateAnswers -----------------------------
(***************************************************************************)
(* What an answer of the provider can undo.  A history variable beside the *)
(* importer (module Importer): for each poller, the rows it has read and   *)
(* not yet dealt with that somebody has written since it read them.  It    *)
(* reads the importer's steps and restricts none of them.                  *)
(***************************************************************************)
EXTENDS Importer

VARIABLE touched

lateVars == <<importerVars, touched>>

Held(p) == {d.id : d \in todo[p]} \cup {u.id : u \in pending[p]}

\* The columns RefreshFromProvider and checkStuckDownloads decide on.
Written(id) ==
  \/ rows'[id].state # rows[id].state
  \/ rows'[id].retries # rows[id].retries

Observes ==
  touched' = [p \in Pollers |->
    {id \in Held(p) \cap Held(p)' : id \in touched[p] \/ Written(id)}]

LateInit == ImporterInit /\ touched = Each({})
LateNext == ImporterNext /\ Observes

LateSpec == LateInit /\ [][LateNext]_lateVars

FairLateSpec == LateSpec /\ ImporterFairness

-------------------------------------------------------------------------------
(***************************************************************************)
(* Properties.                                                             *)
(***************************************************************************)
\* An answer undoes what has been settled only by losing a race: a row whose
\* files are here or that the importer has given up is left as it is, and a
\* finished one is not moved back, by any poller after whose reading of the row
\* nobody has written to it - however late or old the answer is, with both
\* pollers, fetches, sweeps, requests and restarts in any order (refreshKind,
\* refreshActiveKind, RefreshFromProvider, checkStuckDownloads).
OnlyRacesUndo ==
  [][\A p \in Pollers : \A id \in Held(p) \ (Held(p)' \cup touched[p]) :
       /\ Settled(rows[id]) => rows'[id] = rows[id]
       /\ rows[id].state = "provider_completed" =>
            rows'[id].state \notin {"queued", "downloading"}]_lateVars
===============================================================================
