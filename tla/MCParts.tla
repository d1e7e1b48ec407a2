------------------------------ MODULE MCParts ------------------------------
(***************************************************************************)
(* The small components that stand on their own, each started in a         *)
(* behaviour of its own: `part` names the one that runs.  The callback     *)
(* list runs as the instance of the constants and as a list of callbacks   *)
(* that run once, which are not notified from inside a callback.           *)
(***************************************************************************)
EXTENDS CallbackList, ExternalPump, ImageCache

CONSTANTS c1, c2, c3, l1, l2, i1, i2

VARIABLES part

OnceList == INSTANCE CallbackList WITH Once <- TRUE, MaxDepth <- 1

partsVars == <<part, listVars, pumpVars, cacheVars>>

PartsInit ==
  /\ part \in {"list", "once list", "pump", "cache"}
  /\ ListInit /\ PumpInit /\ CacheInit

\* One part runs, the others stay in their initial states.
OnlyList  == UNCHANGED <<part, pumpVars, cacheVars>>
OnlyPump  == part = "pump" /\ UNCHANGED <<part, listVars, cacheVars>>
OnlyCache == part = "cache" /\ UNCHANGED <<part, listVars, pumpVars>>

PartsNext ==
  \/ part = "list" /\ ListNext /\ OnlyList
  \/ part = "once list" /\ OnceList!ListNext /\ OnlyList
  \/ PumpNext /\ OnlyPump
  \/ CacheNext /\ OnlyCache

\* The main loop takes its messages and its timer, and Chromium's work ends;
\* modal loops and Quit are not expected.
PartsFairness ==
  /\ WF_partsVars(~is_active /\ DispatchHaveWork /\ OnlyPump)
  /\ WF_partsVars(~is_active /\ OnTimerTimeout /\ OnlyPump)
  /\ WF_partsVars(WorkDone /\ OnlyPump)

PartsSpec == PartsInit /\ [][PartsNext]_partsVars /\ PartsFairness

(* ExternalPump: whatever Chromium asked the pump for is done, or the loop is
   told to end. *)
PumpServesRequests == part = "pump" => EveryRequestIsServed

============================================================================
