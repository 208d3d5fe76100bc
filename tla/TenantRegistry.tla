--------------------------- MODULE TenantRegistry ---------------------------
(***************************************************************************)
(* The tenants table (models/tenant.py): who owns which credential, and    *)
(* whether the tenant is active.  This is the abstract specification of    *)
(* its life.  A commit of seed_tenants writes some of the entries of a     *)
(* configuration, an operator disables or enables a tenant with SQL, and   *)
(* nothing else changes the table.                                         *)
(*                                                                         *)
(* RequestPath takes its changes of the table from here; Startup, with     *)
(* every transaction step by step, is shown to implement it.               *)
(***************************************************************************)
EXTENDS Naturals, Sequences

CONSTANTS
    Tenants,
    Keys,      \* hashes of API keys
    None,      \* no row, no key, no tenant
    Configs    \* values of SEED_TENANTS: sequences of (tenant, key) entries

Entry == [tenant : Tenants, key : Keys]

ASSUME RegistryAssumption ==
    /\ None \notin Tenants \cup Keys \cup [key : Keys, active : BOOLEAN]
    /\ Configs \subseteq Seq(Entry)
    /\ \A c \in Configs : \A i, j \in 1..Len(c) :
          c[i].tenant = c[j].tenant => i = j

VARIABLE registry

Tenant == [key : Keys, active : BOOLEAN]

RegistryTypeOK == registry \in [Tenants -> Tenant \cup {None}]

RegistryInit == registry = [t \in Tenants |-> None]

\* api_key_hash is a unique column.
UniqueKeys(rows) ==
    \A t, u \in Tenants :
        rows[t] # None /\ rows[u] # None /\ rows[t].key = rows[u].key => t = u

\* A new row is active; the status of one that exists is left alone.
WithKey(row, k) ==
    [key |-> k, active |-> IF row = None THEN TRUE ELSE row.active]

\* The table once the keys of the function w are written; None is no write.
Written(w) ==
    [t \in Tenants |-> IF w[t] = None THEN registry[t] ELSE WithKey(registry[t], w[t])]

\* The writes that a process may make that starts with the configuration c:
\* the tenants it found missing, or with another key.
WritesOf(c) ==
    {w \in [Tenants -> Keys \cup {None}] :
        \A t \in Tenants : w[t] = None \/ [tenant |-> t, key |-> w[t]] \in {c[i] : i \in 1..Len(c)}}

Provision(c) ==
    \E w \in WritesOf(c) :
        /\ registry' = Written(w)
        /\ UniqueKeys(registry')

\* An operator disables or enables a tenant.
SetStatus(t) ==
    /\ registry[t] # None
    /\ registry' = [registry EXCEPT ![t].active = ~@]

RegistryNext ==
    \/ \E c \in Configs : Provision(c)
    \/ \E t \in Tenants : SetStatus(t)

RegistrySpec == RegistryInit /\ [][RegistryNext]_registry

\* TenantRepository.get_by_api_key_hash: the active tenants with the key k.
Owners(rows, k) == {t \in Tenants : rows[t] # None /\ rows[t].key = k /\ rows[t].active}

=============================================================================
