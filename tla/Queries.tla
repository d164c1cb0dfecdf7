------------------------------- MODULE Queries --------------------------------
(***************************************************************************)
(* The SQL statements of the control plane, with those of the audit log.   *)
(***************************************************************************)
EXTENDS IdentityQueries, CatalogQueries

CreateAuditEvent(events, id, row) == Insert(events, id, row)

ListAuditEvents(events, before, limit) ==
    Limit({e \in DOMAIN events : e < before}, limit, descending)

===============================================================================
