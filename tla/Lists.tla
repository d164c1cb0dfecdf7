-------------------------------- MODULE Lists ---------------------------------
(***************************************************************************)
(* The control plane's lists (server/internal/core) and the client that    *)
(* collects one page after page (collectPages in web/src/lib/console.ts),  *)
(* while rows of the listed table are created, deleted and renamed.        *)
(*                                                                         *)
(* A behaviour lists one table.  Ids are numbers in the order SQLite gives *)
(* the ULIDs; an id is not used twice.  A page token is the id it names    *)
(* and, for results, the completion time before it.                        *)
(***************************************************************************)
EXTENDS Naturals, FiniteSets, SequencesExt

CONSTANTS
    MaxId,      \* bound: the ids of a table
    Time,       \* completion times: what the agents' clocks say
    Names,      \* names and descriptions
    PageSizes,  \* page sizes a client asks for
    MaxEvents   \* bound: audit events

VARIABLES
    kind,       \* the listed table
    rows,       \* its rows
    events,     \* the audit log
    used,       \* ids that rows have or had
    request,    \* the client's next request, or Done
    items,      \* ids of the items collected so far
    repeated,   \* history: an item was returned twice
    kept        \* history: ids of the rows there since the listing began

tableVars == <<rows, events, used>>
listVars == <<request, items, repeated>>
vars == <<kind, tableVars, listVars, kept>>

queries == INSTANCE Queries

Id == 1 .. MaxId
Kind == {"actions", "devices", "groups", "tokens", "roles", "users",
         "providers", "results", "audit"}
Row == [name : Names, description : Names \cup {0}, completed_at : Time \cup {0}]

\* The empty page token.
NoToken == [completed_at |-> 0, id |-> 0]
Done == [page_size |-> 0, page_token |-> NoToken, done |-> TRUE]
Request(size, token) == [page_size |-> size, page_token |-> token, done |-> FALSE]

listed == IF kind = "audit" THEN events ELSE rows

\* Only results are ordered by a time.
Times == IF kind = "results" THEN Time ELSE {0}

NewRow(name, at) == [name |-> name, description |-> 0, completed_at |-> at]

\* collectPages begins, at some table.
Init ==
    /\ kind \in Kind
    /\ \E ids \in SUBSET Id, n \in Names : \E at \in [ids -> Times] :
          /\ used = ids
          /\ rows = [i \in ids |-> NewRow(n, at[i])]
    /\ \E n \in 0 .. MaxEvents : events = [e \in 1 .. n |-> 0]
    /\ \E size \in PageSizes : request = Request(size, NoToken)
    /\ items = {} /\ repeated = FALSE /\ kept = DOMAIN listed

-------------------------------------------------------------------------------
(* Pages. *)

pageSize(requested) == IF requested <= 0 THEN 50 ELSE requested

\* One row more than the page says that there is a next page, which begins
\* after the last row of this one.
paginate(found, limit, cursor) ==
    IF Len(found) <= limit THEN [ids |-> Range(found), next |-> NoToken]
    ELSE [ids |-> Range(SubSeq(found, 1, limit)), next |-> cursor[found[limit]]]

byId == [id \in Nat |-> [completed_at |-> 0, id |-> id]]

\* The rows of a query ordered by id.
ById(ids) == SetToSortSeq(ids, queries!ascending)

ListActions(size, token) ==
    paginate(ById(queries!ListActions(rows, token.id, pageSize(size) + 1)),
             pageSize(size), byId)

ListDevices(size, token) ==
    paginate(ById(queries!ListDevices(rows, token.id, pageSize(size) + 1)),
             pageSize(size), byId)

ListDeviceGroups(size, token) ==
    paginate(ById(queries!ListDeviceGroups(rows, token.id, pageSize(size) + 1)),
             pageSize(size), byId)

ListTokens(size, token) ==
    paginate(ById(queries!ListRegistrationTokens(rows, token.id, pageSize(size) + 1)),
             pageSize(size), byId)

ListRoles(size, token) ==
    paginate(ById(queries!ListRoles(rows, token.id, pageSize(size) + 1)),
             pageSize(size), byId)

ListUsers(size, token) ==
    paginate(ById(queries!ListUsers(rows, token.id, pageSize(size) + 1)),
             pageSize(size), byId)

\* Not in pages.
ListIdentityProviders == [ids |-> queries!ListIdentityProviders(rows), next |-> NoToken]

\* "~" sorts after every id.
ListAuditEvents(size, token) ==
    LET before == IF token = NoToken THEN MaxEvents + 1 ELSE token.id
        found == queries!ListAuditEvents(events, before, pageSize(size) + 1)
    IN  paginate(SetToSortSeq(found, queries!descending), pageSize(size), byId)

executionPageToken ==
    [run \in DOMAIN rows |-> [completed_at |-> rows[run].completed_at, id |-> run]]

ListExecutionResults(size, token) ==
    LET found == queries!ListExecutionResults(rows, token # NoToken, token.completed_at,
                                              token.id, pageSize(size) + 1)
    IN  paginate(SetToSortSeq(found, LAMBDA r, s : queries!newer(rows, r, s)),
                 pageSize(size), executionPageToken)

loadPage(size, token) ==
    CASE kind = "actions" -> ListActions(size, token)
      [] kind = "devices" -> ListDevices(size, token)
      [] kind = "groups" -> ListDeviceGroups(size, token)
      [] kind = "tokens" -> ListTokens(size, token)
      [] kind = "roles" -> ListRoles(size, token)
      [] kind = "users" -> ListUsers(size, token)
      [] kind = "providers" -> ListIdentityProviders
      [] kind = "results" -> ListExecutionResults(size, token)
      [] kind = "audit" -> ListAuditEvents(size, token)

\* A page is read, and the next one asked for unless it was the last.
LoadPage ==
    /\ ~request.done
    /\ LET page == loadPage(request.page_size, request.page_token)
       IN  /\ items' = items \cup page.ids
           /\ repeated' = (repeated \/ items \cap page.ids # {})
           /\ request' = IF page.next = NoToken THEN Done
                         ELSE Request(request.page_size, page.next)
    /\ UNCHANGED <<kind, tableVars, kept>>

-------------------------------------------------------------------------------
(* What happens to the rows meanwhile. *)

\* A row is created, by the table's own handlers.
Create(id, row) ==
    /\ kind # "audit" /\ id \notin used
    /\ rows' = queries!Insert(rows, id, row) /\ used' = used \cup {id}
    /\ UNCHANGED <<kind, events, listVars, kept>>

\* A row is deleted.
DeleteRow(id) ==
    /\ kind # "audit" /\ id \in DOMAIN rows
    /\ rows' = queries!Delete(rows, id) /\ kept' = kept \ {id}
    /\ UNCHANGED <<kind, events, used, listVars>>

\* service.audit: the ids of one process increase.
audit ==
    LET id == Cardinality(DOMAIN events) + 1
    IN  /\ id <= MaxEvents
        /\ events' = queries!CreateAuditEvent(events, id, 0)

\* A transaction that updates a row: nothing without the row, and nothing if
\* a name that is UNIQUE is taken.
mutation(id, table, unique) ==
    /\ id \in DOMAIN rows /\ rows' = table
    /\ unique => queries!Unique(rows, id, LAMBDA row : row.name, table[id].name)
    /\ UNCHANGED <<kind, used, listVars, kept>>

actionMutation(id, table) == mutation(id, table, TRUE) /\ audit

groupMutation(id, table) == mutation(id, table, TRUE) /\ audit

roleMutation(id, table) == mutation(id, table, TRUE) /\ UNCHANGED events

RenameAction(id, name) ==
    kind \in {"actions", "audit"} /\ actionMutation(id, queries!RenameAction(rows, id, name))

SetActionDescription(id, text) ==
    kind = "actions" /\ actionMutation(id, queries!SetActionDescription(rows, id, text))

RenameDeviceGroup(id, name) ==
    kind = "groups" /\ groupMutation(id, queries!RenameDeviceGroup(rows, id, name))

SetDeviceGroupDescription(id, text) ==
    kind = "groups" /\ groupMutation(id, queries!SetDeviceGroupDescription(rows, id, text))

RenameRole(id, name) ==
    kind = "roles" /\ roleMutation(id, queries!RenameRole(rows, id, name))

SetRoleDescription(id, text) ==
    kind = "roles" /\ roleMutation(id, queries!SetRoleDescription(rows, id, text))

RenameToken(id, name) ==
    /\ kind = "tokens"
    /\ mutation(id, queries!RenameRegistrationToken(rows, id, name), FALSE) /\ audit

RenameIdentityProvider(id, name) ==
    /\ kind = "providers"
    /\ mutation(id, queries!RenameIdentityProvider(rows, id, name), FALSE)
    /\ UNCHANGED events

touchAgent(id, hostname) ==
    /\ kind = "devices"
    /\ mutation(id, queries!TouchDevice(rows, id, hostname), FALSE) /\ UNCHANGED events

Edit(id, text) ==
    \/ RenameAction(id, text) \/ SetActionDescription(id, text)
    \/ RenameDeviceGroup(id, text) \/ SetDeviceGroupDescription(id, text)
    \/ RenameRole(id, text) \/ SetRoleDescription(id, text)
    \/ RenameToken(id, text) \/ RenameIdentityProvider(id, text)
    \/ touchAgent(id, text)

Next ==
    \/ LoadPage
    \/ \E id \in Id : \/ \E name \in Names, at \in Times : Create(id, NewRow(name, at))
                      \/ DeleteRow(id)
                      \/ \E text \in Names : Edit(id, text)

Spec == Init /\ [][Next]_vars

-------------------------------------------------------------------------------
TypeOK ==
    /\ kind \in Kind /\ used \subseteq Id /\ DOMAIN rows \subseteq used
    /\ \A i \in DOMAIN rows : rows[i] \in Row
    /\ DOMAIN events \subseteq 1 .. MaxEvents
    /\ repeated \in BOOLEAN /\ kept \subseteq DOMAIN listed

\* A list that has been collected to its end has every row that was there all
\* the while, and no row twice, whatever was created, deleted or renamed
\* between its pages: the tokens name a place in an order that never changes
\* for a row, and do not need the row they name (paginate and the statements
\* ordered by id, by id backwards and by completion time and run).
ListingIsComplete ==
    /\ ~repeated
    /\ request.done => kept \subseteq items

===============================================================================
