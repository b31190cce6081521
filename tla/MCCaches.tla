------------------------------ MODULE MCCaches ------------------------------
(***************************************************************************)
(* The two-level cache, the lock, the cache of secrets, the reloading      *)
(* configuration, the data loader and the hedge. They share no state, so   *)
(* that interleaving their steps would show nothing: a behaviour is one of *)
(* the part chosen at its start.                                           *)
(***************************************************************************)
EXTENDS MultiLevelCache, RedisLock, SecretCache, HotReload, DataLoader, Hedge

VARIABLE part       \* the part that takes steps

Parts == {"levels", "lock", "secrets", "config", "loader", "hedge"}
vars  == <<cacheVars, lockVars, secretVars, configVars, loaderVars, hedgeVars, part>>

\* What a part may start with is fixed in the behaviours of the others.
Init ==
    /\ part \in Parts
    /\ CacheInit /\ LockInit /\ SecretInit /\ ConfigInit /\ LoaderInit /\ HedgeInit
    /\ part # "loader" => \A c \in LoadCalls : keyOf[c] = CHOOSE k \in LoadKeys : TRUE
    /\ part # "hedge" => copies = 1

Next ==
    /\ UNCHANGED part
    /\ IF part = "levels"  THEN CacheNext  ELSE UNCHANGED cacheVars
    /\ IF part = "lock"    THEN LockNext   ELSE UNCHANGED lockVars
    /\ IF part = "secrets" THEN SecretNext ELSE UNCHANGED secretVars
    /\ IF part = "config"  THEN ConfigNext ELSE UNCHANGED configVars
    /\ IF part = "loader"  THEN LoaderNext ELSE UNCHANGED loaderVars
    /\ IF part = "hedge"   THEN HedgeNext  ELSE UNCHANGED hedgeVars

Spec ==
    /\ Init /\ [][Next]_vars
    /\ CacheFairness /\ WF_lockVars(LockTick) /\ LoaderFairness /\ HedgeFairness

\* Every variable of the six parts stays in its range.
TypeOK ==
    /\ CacheTypeOK /\ LockTypeOK /\ SecretTypeOK /\ ConfigTypeOK /\ LoaderTypeOK /\ HedgeTypeOK
    /\ part \in Parts

\* Nobody waits for ever: a call of the two-level cache returns, the lock
\* comes free again and again, a load is answered unless its batch fails, and
\* a hedged call is answered once its copies are.
CallersGoOn == EveryCallReturns /\ LockComesFree /\ LoadsAnswered /\ HedgeSettles
=============================================================================
