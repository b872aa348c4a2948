------------------------------- MODULE MCWorlds -------------------------------
(***************************************************************************)
(* The components around a World side by side.  They share no state, so    *)
(* that in each behaviour one of them is active and the others rest.       *)
(***************************************************************************)
EXTENDS MCCatalog, MCCanary, Reserve, PendingTransactions, FoundingAccess,
        PumpInspection, PumpPreflight, PublicApi

VARIABLE component     \* the one that takes the steps

\* A World has assets.
ReserveStart == ReserveInit /\ inventory + active > 0

ReserveParked == reserve = 0 /\ inventory = 0 /\ active = 0

AccessParked == AccessInit /\ famous

\* One scope guards its service with few calls in a long window, the other is busier
\* and has a client window shorter than the burst window.
Policies ==
    [s \in Scope |->
        IF s = "creator-application"
        THEN [clientMax |-> 1, windowMs |-> 3, globalMax |-> 1, globalWindowMs |-> 3]
        ELSE [clientMax |-> 1, windowMs |-> 1, globalMax |-> 2, globalWindowMs |-> 2]]

\* The components whose initial state is one state rest in it.
Init ==
    /\ PendingInit /\ CoinInit /\ RehearsalInit /\ ApiInit
    /\ \/ /\ component = "catalog"
          /\ CatalogStart /\ CanaryParked /\ ReserveParked /\ AccessParked
       \/ /\ component = "canary"
          /\ CatalogParked /\ CanaryStart /\ ReserveParked /\ AccessParked
       \/ /\ component = "reserve"
          /\ CatalogParked /\ CanaryParked /\ ReserveStart /\ AccessParked
       \/ /\ component = "access"
          /\ CatalogParked /\ CanaryParked /\ ReserveParked /\ AccessInit
       \/ /\ component \in {"pending", "coin", "rehearsal", "api"}
          /\ CatalogParked /\ CanaryParked /\ ReserveParked /\ AccessParked

Catalog(step) ==
    /\ component = "catalog" /\ step
    /\ UNCHANGED <<component, canaryVars, reserveVars, pendingVars, accessVars, coinVars,
                   rehearsalVars, apiVars>>

Canary(step) ==
    /\ component = "canary" /\ step
    /\ UNCHANGED <<component, catalogVars, reserveVars, pendingVars, accessVars, coinVars,
                   rehearsalVars, apiVars>>

Custody(step) ==
    /\ component = "reserve" /\ step
    /\ UNCHANGED <<component, catalogVars, canaryVars, pendingVars, accessVars, coinVars,
                   rehearsalVars, apiVars>>

Pending(step) ==
    /\ component = "pending" /\ step
    /\ UNCHANGED <<component, catalogVars, canaryVars, reserveVars, accessVars, coinVars,
                   rehearsalVars, apiVars>>

Access(step) ==
    /\ component = "access" /\ step
    /\ UNCHANGED <<component, catalogVars, canaryVars, reserveVars, pendingVars, coinVars,
                   rehearsalVars, apiVars>>

Coin(step) ==
    /\ component = "coin" /\ step
    /\ UNCHANGED <<component, catalogVars, canaryVars, reserveVars, pendingVars, accessVars,
                   rehearsalVars, apiVars>>

Rehearsal(step) ==
    /\ component = "rehearsal" /\ step
    /\ UNCHANGED <<component, catalogVars, canaryVars, reserveVars, pendingVars, accessVars,
                   coinVars, apiVars>>

\* The clock is the server's, as in Access.
Calling(step) ==
    /\ component = "api" /\ step
    /\ UNCHANGED <<component, catalogVars, canaryVars, reserveVars, pendingVars, visitVars,
                   coinVars, rehearsalVars>>

Next ==
    \/ Catalog(CatalogNext) \/ Canary(CanaryNext) \/ Custody(ReserveNext)
    \/ Pending(PendingNext) \/ Access(AccessNext) \/ Coin(CoinNext)
    \/ Rehearsal(RehearsalNext) \/ Calling(ApiNext)

vars == <<component, catalogVars, canaryVars, reserveVars, pendingVars, accessVars,
          coinVars, rehearsalVars, apiVars>>

Spec == Init /\ [][Next]_vars

-----------------------------------------------------------------------------
\* The state of the active component has its type.
WorldsTypeOK ==
    /\ component = "catalog" => CatalogTypeOK
    /\ component = "canary" => CanaryTypeOK
    /\ component = "pending" => PendingTypeOK
    /\ component = "access" => AccessTypeOK
    /\ component = "coin" => CoinTypeOK
    /\ component = "rehearsal" => RehearsalTypeOK
    /\ component = "api" => GuardTypeOK
=============================================================================
