---------------------------- MODULE TenantManager ----------------------------
(***************************************************************************)
(* tenant.Manager and the tenant store behind it, for one tenant           *)
(* identifier.  Each store access is a step of its own.  Create writes a   *)
(* pending row, seeds it and removes it again when the seeder fails; the   *)
(* transitions and Update read the row and swap it for the new one, a few  *)
(* times over when somebody else was faster; HardDelete reads, audits and  *)
(* deletes.  A call that ends leaves its result for its caller.            *)
(***************************************************************************)
EXTENDS Naturals

CONSTANTS
    Managed,   \* those who call the manager
    Plans,     \* plan identifiers
    NoTenant,  \* no row
    MaxSwaps   \* maxCompareAndSwapAttempts

ASSUME SwapsAssumption == MaxSwaps \in Nat \ {0}

VARIABLES
    tenant,   \* the row of the tenant store
    seeded,   \* the row was seeded
    managing  \* caller -> its call of the manager

tenantVars == <<tenant, seeded, managing>>

Statuses == {"pending", "active", "suspended", "soft_deleted"}
Tenants == [status : Statuses, plan : Plans]
ASSUME NoTenantAssumption == NoTenant \notin Tenants

\* The statuses each transition starts from, and where it leads.
Transitions ==
    [Activate |-> {<<"pending", "active">>},
     Suspend |-> {<<"active", "suspended">>},
     Restore |-> {<<"suspended", "active">>},
     SoftDelete |-> {<<"active", "soft_deleted">>, <<"suspended", "soft_deleted">>}]

Idle == [kind |-> "none", plan |-> NoTenant, stage |-> "idle", seen |-> NoTenant,
         attempt |-> 0, result |-> "none"]
TenantInit ==
    /\ tenant = NoTenant
    /\ seeded = FALSE
    /\ managing = [c \in Managed |-> Idle]

Managing(kind, plan) ==
    [Idle EXCEPT !.kind = kind, !.plan = plan, !.attempt = 1,
                 !.stage = IF kind = "Create" THEN "create" ELSE "get"]
Ends(c, result) == managing' = [managing EXCEPT ![c].stage = "done", ![c].result = result]
Goes(c, stage) == managing' = [managing EXCEPT ![c].stage = stage]

-----------------------------------------------------------------------------
(* Create.                                                                 *)

StoreCreate(c) ==
    /\ managing[c].stage = "create"
    /\ IF tenant = NoTenant
       THEN /\ tenant' = [status |-> "pending", plan |-> managing[c].plan]
            /\ seeded' = FALSE
            /\ Goes(c, "seed")
       ELSE Ends(c, "exists") /\ UNCHANGED <<tenant, seeded>>

Seed(c) ==
    /\ managing[c].stage = "seed"
    /\ \/ seeded' = TRUE /\ Goes(c, "emit")
       \/ seeded' = seeded /\ Goes(c, "rollback")
    /\ UNCHANGED tenant

\* The row is removed, or the tenant is returned with both errors.
Rollback(c) ==
    /\ managing[c].stage = "rollback"
    /\ \/ tenant # NoTenant /\ tenant' = NoTenant /\ Ends(c, "failed")
       \/ tenant' \in {tenant, NoTenant} /\ Ends(c, "partial")
    /\ UNCHANGED seeded

-----------------------------------------------------------------------------
(* Update and the transitions.                                             *)

Allowed(kind, row) ==
    CASE kind = "Update" -> TRUE
      [] kind = "HardDelete" -> row.status \in {"active", "suspended"}
      [] OTHER -> \E next \in Statuses : <<row.status, next>> \in Transitions[kind]

Changed(call, row) ==
    IF call.kind = "Update" THEN [row EXCEPT !.plan = call.plan]
    ELSE [row EXCEPT !.status = CHOOSE s \in Statuses : <<row.status, s>> \in Transitions[call.kind]]

StoreGet(c) ==
    LET call == managing[c] IN
    /\ call.stage = "get"
    /\ CASE tenant = NoTenant -> Ends(c, "not_found")
         [] tenant # NoTenant /\ ~Allowed(call.kind, tenant) -> Ends(c, "invalid_state")
         [] OTHER -> managing' = [managing EXCEPT
                       ![c].stage = IF call.kind = "HardDelete" THEN "emit" ELSE "swap",
                       ![c].seen = tenant]
    /\ UNCHANGED <<tenant, seeded>>

\* What the store may answer: it swaps the rows only when nobody else has, and
\* a transaction the database ended is a conflict too.
CompareAndSwap(seen) ==
    {"conflict"} \cup (CASE tenant = NoTenant -> {"not_found"}
                         [] tenant = seen -> {"swapped"}
                         [] OTHER -> {})

\* The attempt, and the loop around it.
StoreSwap(c) ==
    LET call == managing[c] IN
    /\ call.stage = "swap"
    /\ \E answer \in CompareAndSwap(call.seen) :
          /\ tenant' = IF answer = "swapped" THEN Changed(call, tenant) ELSE tenant
          /\ CASE answer = "swapped" -> Goes(c, "emit")
               [] answer = "conflict" /\ call.attempt < MaxSwaps ->
                    managing' = [managing EXCEPT ![c].stage = "get", ![c].attempt = @ + 1]
               [] OTHER -> Ends(c, answer)
    /\ UNCHANGED seeded

\* The audit event: after the change, but before a hard delete.
Emit(c) ==
    LET kind == managing[c].kind IN
    /\ managing[c].stage = "emit"
    /\ \/ kind = "HardDelete" /\ Goes(c, "delete")
       \/ kind # "HardDelete" /\ Ends(c, "ok")
       \/ Ends(c, IF kind = "Create" THEN "partial" ELSE "failed")
    /\ UNCHANGED <<tenant, seeded>>

\* Whatever the row is by now.
StoreDelete(c) ==
    /\ managing[c].stage = "delete"
    /\ tenant' = NoTenant
    /\ Ends(c, IF tenant = NoTenant THEN "not_found" ELSE "ok")
    /\ UNCHANGED seeded

\* A store access fails, or has its effect and the answer is lost.
StoreError(c) ==
    LET call == managing[c] IN
    /\ \/ call.stage \in {"create", "get", "swap", "delete"}
          /\ UNCHANGED <<tenant, seeded>>
          /\ Ends(c, "failed")
       \/ /\ CASE call.stage = "create" -> /\ tenant = NoTenant
                                           /\ tenant' = [status |-> "pending", plan |-> call.plan]
                                           /\ seeded' = FALSE
               [] call.stage = "swap" -> /\ tenant = call.seen
                                         /\ tenant' = Changed(call, tenant)
                                         /\ UNCHANGED seeded
               [] call.stage = "delete" -> tenant' = NoTenant /\ UNCHANGED seeded
               [] OTHER -> FALSE
          /\ Ends(c, "lost")

ManagerStep(c) ==
    \/ StoreCreate(c) \/ Seed(c) \/ Rollback(c)
    \/ StoreGet(c) \/ StoreSwap(c) \/ Emit(c) \/ StoreDelete(c) \/ StoreError(c)

TenantTypeOK ==
    /\ tenant \in Tenants \cup {NoTenant}
    /\ seeded \in BOOLEAN
    /\ \A c \in Managed :
           /\ managing[c].seen \in Tenants \cup {NoTenant}
           /\ managing[c].attempt \in 0..MaxSwaps
           /\ managing[c].stage \in {"idle", "create", "seed", "rollback", "get", "swap", "emit",
                                     "delete", "done"}
           /\ managing[c].result \in {"none", "ok", "exists", "failed", "lost", "partial", "not_found",
                                      "invalid_state", "conflict"}
=============================================================================
