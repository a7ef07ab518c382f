------------------------------- MODULE MCCaches -------------------------------
(***************************************************************************)
(* Instances of what a process learns from servers and keeps: the quota of *)
(* an account, the catalog of models and the client version.  They share   *)
(* nothing with each other, so a behaviour is one of a single part and the *)
(* others keep their initial state.                                        *)
(***************************************************************************)
EXTENDS QuotaWatch, Catalog, ClientVersion

CONSTANT Parts

VARIABLE part

vars == <<part, quotaVars, catalogVars, versionVars>>

MCPeriod == [w \in Windows |-> IF w = FiveHour THEN 2 ELSE 4]
MCThresholds == <<1, 0>>

Init == part \in Parts /\ QuotaInit /\ CatalogInit /\ VersionInit

Only(name) == part = name /\ UNCHANGED part
OnlyQuota == Only("quota") /\ UNCHANGED <<catalogVars, versionVars>>
OnlyCatalog == Only("catalog") /\ UNCHANGED <<quotaVars, versionVars>>
OnlyVersion == Only("version") /\ UNCHANGED <<quotaVars, catalogVars>>

Next == \/ OnlyQuota /\ QuotaNext
        \/ OnlyCatalog /\ CatalogNext
        \/ OnlyVersion /\ VersionNext

Spec == /\ Init /\ [][Next]_vars
        /\ \A c \in Callers : WF_vars(OnlyCatalog /\ CallStep(c))
        /\ WF_vars(OnlyVersion /\ FetchStep)

(* Every variable of the three parts has its type; one refresh of a quota    *)
(* and one fetch of a catalog are under way at a time; only allowed hosts    *)
(* are asked (scheduleQuotaRefresh, inFlightCatalogFetches, fetchRemoteText).*)
CachesSound == /\ QuotaTypeOK /\ CatalogTypeOK /\ VersionTypeOK
               /\ OneRefresh /\ OneFetch /\ AsksAllowedHosts

(* A quota is warned of once a period, and the cooldown of one shown to be   *)
(* exhausted is not lifted (evaluateQuotaThresholds,                         *)
(* limitsIndicateAvailability).                                              *)
QuotaIsHeeded == WarnedOnce /\ LiftSparesExhausted

(* Neither a fallback nor a failed refresh puts something worse in place of  *)
(* what is known (getCodexModelCatalog, refreshCodexClientVersion).          *)
BetterIsKept == TokenGetsLive /\ VersionIsKept

(* Every request that waits for a catalog and everyone who waits for the     *)
(* client version goes on, whatever fails.                                   *)
EveryoneGoesOn == /\ part = "catalog" => RequestsGoOn
                  /\ part = "version" => RefreshesEnd
=============================================================================
