------------------------------- MODULE Importer -------------------------------
(***************************************************************************)
(* The importer as a whole: rows are refreshed from their provider (module *)
(* Refresh) and fetched, retried, deleted and swept (module FetchPool) at  *)
(* the same time, over one downloads table.  The goroutine of Importer.Run *)
(* does the bulk pass, the watchdog, the dispatch and the sweeps in turn;  *)
(* everything else runs beside it.                                         *)
(***************************************************************************)
EXTENDS FetchPool, Refresh

importerVars == <<rows, poolVars, refreshOwn>>

ImporterInit == PoolInit /\ RefreshInit

\* A step of the pool.  DeleteDownload also drops what the ordering guard
\* remembers of the row (forgetRefreshState).
PoolSide(step) ==
  LET deleted == {id \in Downloads : Stored(id) /\ rows'[id].state = "gone"}
  IN /\ step
     /\ record' = [id \in Downloads |-> IF id \in deleted THEN 0 ELSE record[id]]
     /\ overtaken' = [p \in Pollers |-> overtaken[p] \ deleted]
     /\ UNCHANGED <<provider, stage, todo, heard, pending, latest>>

RefreshSide(step) == step /\ UNCHANGED poolVars

\* tick: a new pass begins when the last one is over ...
TickBegins == BulkAsks /\ pc[Ticker] = "idle" /\ SweepDone

\* ... and goes on to its dispatch when the refresh and the watchdog are done.
TickDispatches == BulkEnds /\ TickDispatch

RestartAll == Restart /\ ForgetPolls

ImporterNext ==
  \/ PoolSide(PoolStep)
  \/ RefreshSide(TickBegins \/ RefreshStep)
  \/ TickDispatches
  \/ RestartAll

ImporterSpec == ImporterInit /\ [][ImporterNext]_importerVars

(***************************************************************************)
(* Fairness, put together from that of the parts: the goroutine of Run     *)
(* keeps ticking, a provider is heard of again and again, fetches, their   *)
(* bookkeeping and requests that have begun come to their end.             *)
(***************************************************************************)
ImporterFairness ==
  /\ WF_importerVars(\/ RefreshSide(TickBegins \/ BulkPass \/ Fails("bulk"))
                     \/ TickDispatches \/ PoolSide(TickGoesOn))
  /\ SF_importerVars(RefreshSide(Answers("bulk") /\ heard'["bulk"] = provider))
  /\ \A f \in Fetchers : WF_importerVars(PoolSide(Fetch(f) \/ Dispatch(f)))
  /\ \A id \in Downloads :
       /\ WF_importerVars(PoolSide(DeleteFiles(id) \/ DeleteRow(id)))
       /\ WF_importerVars(PoolSide(RetryApplies(id)))
       /\ WF_importerVars(PoolSide(TimePasses(id)))

FairImporterSpec == ImporterSpec /\ ImporterFairness

-------------------------------------------------------------------------------
(***************************************************************************)
(* Properties.                                                             *)
(***************************************************************************)
\* A download its provider has finished ends up with its files on disk, given
\* up with a retry count that says so, or deleted: through stale answers,
\* watchdog errors, failed fetches and restarts (tick, RefreshFromProvider).
EveryFinishedSettles ==
  \A id \in Downloads :
    Life[provider[id]] = "completed" ~>
      Settled(rows[id]) \/ ~Stored(id)
===============================================================================
