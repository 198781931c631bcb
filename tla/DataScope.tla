------------------------------- MODULE DataScope -------------------------------
(* What a principal's data scope lets it see and write (auth/scope.py,          *)
(* auth/tenant.py, repository/vessel_call.py).  Scope and row: [tenant, port,   *)
(* terminal]; "*" is the wildcard, None the absent value.                       *)
EXTENDS Naturals, Sequences, FiniteSets

CONSTANT None

\* Absent and wildcard place no bound on ports and terminals.
Unbounded(v) == v \in {None, "*"}

\* Tenants are compared exactly.
TenantVisible(scope, row) == scope.tenant = "*" \/ row.tenant = scope.tenant

\* Mutant: the query is built without the tenant filter.
VisibleAcross(scope, row) ==
    /\ Unbounded(scope.port) \/ row.port \in {scope.port, None}
    /\ Unbounded(scope.terminal) \/ row.terminal \in {scope.terminal, None}

\* ScopedQueryBuilder.build: rows that belong to no port or terminal are seen from every one.
Visible(scope, row) ==
    /\ TenantVisible(scope, row)
    /\ Unbounded(scope.port) \/ row.port \in {scope.port, None}
    /\ Unbounded(scope.terminal) \/ row.terminal \in {scope.terminal, None}

\* DataScope.allows_tenant, allows_port, allows_terminal: the same bounds for a single value.
Allows(scope, row) ==
    /\ TenantVisible(scope, row)
    /\ Unbounded(scope.port) \/ row.port = scope.port
    /\ Unbounded(scope.terminal) \/ row.terminal = scope.terminal

\* The filters of a list request narrow what the scope shows; absent filters do not.
Matches(filter, row) ==
    /\ Unbounded(filter.port) \/ row.port = filter.port
    /\ Unbounded(filter.terminal) \/ row.terminal = filter.terminal
    /\ filter.merged = None \/ row.merged = filter.merged

\* VesselCallRepository.list before paging, and count.
Listed(scope, filter, rows) == {r \in rows : Visible(scope, r) /\ Matches(filter, r)}

\* VesselCallRepository.get_by_id.
GetById(scope, id, rows) == {r \in rows : Visible(scope, r) /\ r.id = id}

\* VesselCallRepository.create: the row a scope writes; an attribute that names a port or a
\* terminal would be passed twice and fails.
Created(scope) ==
    [tenant |-> IF scope.tenant = "*" THEN "default-tenant" ELSE scope.tenant,
     port |-> IF scope.port = "*" THEN "ZADUR" ELSE scope.port,
     terminal |-> IF scope.terminal = "*" THEN "DCT" ELSE scope.terminal]

\* resolve_principal_tenant: the tenant a request acts for, None when it is refused.
resolve_principal_tenant(scope, requested, development) ==
    LET tenant == IF scope.tenant = "*" /\ development THEN "tenant-synthetic-01" ELSE scope.tenant
    IN  IF tenant \in {None, "*"} \/ requested \notin {None, tenant} THEN None ELSE tenant

-----------------------------------------------------------------------------
\* The tenant a request may act for, the rows it is shown and the rows it creates agree: a request
\* is shown only rows of the tenant it resolves to, unless its scope is the wildcard; whatever it is
\* allowed one by one it is also shown in a list; and a row it creates is one it is then shown.
ScopesAgree(scope, filter, requested, rows) ==
    LET tenant == resolve_principal_tenant(scope, requested, FALSE)
    IN  /\ tenant # None => \A r \in Listed(scope, filter, rows) : r.tenant = tenant
        /\ \A r \in rows : Allows(scope, r) => Visible(scope, r)
        /\ \A r \in Listed(scope, filter, rows) : r \in GetById(scope, r.id, rows)
        /\ Visible(scope, Created(scope))
=============================================================================
