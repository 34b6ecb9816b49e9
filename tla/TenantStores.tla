----------------------------- MODULE TenantStores -----------------------------
(***************************************************************************)
(* What the backend's database access promises: every tenant has a store of*)
(* its own.  A request writes at most one row, into the store of its own   *)
(* tenant, and nothing it does reaches the store of another one.           *)
(***************************************************************************)
EXTENDS Naturals

CONSTANTS Tenants, Reqs

VARIABLES owner,   \* request -> its tenant, once it has arrived
          stores   \* tenant -> rows [table, by]

Init == owner = [r \in {} |-> 0] /\ stores = [t \in Tenants |-> {}]

Arrive(r, t) ==
    /\ r \notin DOMAIN owner
    /\ owner' = [q \in DOMAIN owner \cup {r} |-> IF q = r THEN t ELSE owner[q]]
    /\ UNCHANGED stores

\* An event is added; an alert rule takes the place of the tenant's rule.
Write(r, table) ==
    LET old == stores[owner[r]]
        kept == IF table = "rules" THEN {x \in old : x.table # "rules"} ELSE old
    IN  /\ r \in DOMAIN owner
        /\ \A t \in Tenants : \A x \in stores[t] : x.by # r
        /\ stores' = [stores EXCEPT ![owner[r]] = kept \cup {[table |-> table, by |-> r]}]
        /\ UNCHANGED owner

Next == \E r \in Reqs : \/ \E t \in Tenants : Arrive(r, t)
                        \/ \E table \in {"events", "rules"} : Write(r, table)

Spec == Init /\ [][Next]_<<owner, stores>>
=============================================================================
