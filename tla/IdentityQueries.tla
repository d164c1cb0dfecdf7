--------------------------- MODULE IdentityQueries ----------------------------
(***************************************************************************)
(* The SQL statements about identity providers, users and roles, as the    *)
(* handlers call them.                                                     *)
(***************************************************************************)
EXTENDS Tables

-------------------------------------------------------------------------------
(* Identity providers. *)

CountIdentityProviders(providers) == Cardinality(DOMAIN providers)

CreateIdentityProvider(providers, id, row) == Insert(providers, id, row)

GetIdentityProvider(providers, id) == Get(providers, id)

ListEnabledIdentityProviders(providers) ==
    {i \in DOMAIN providers : providers[i].enabled}

\* All of them: ORDER BY name is for the reader.
ListIdentityProviders(providers) == DOMAIN providers

RenameIdentityProvider(providers, id, name) == SetName(providers, id, name)

\* What it sets no module tells apart.
ConfigureIdentityProvider(providers, id) == Update(providers, {id}, LAMBDA row : row)

EnableIdentityProvider(providers, id) ==
    Update(providers, {id}, LAMBDA row : [row EXCEPT !.enabled = TRUE])

DisableIdentityProvider(providers, id) ==
    Update(providers, {id}, LAMBDA row : [row EXCEPT !.enabled = FALSE])

DeleteIdentityProvider(providers, id) == Delete(providers, id)

-------------------------------------------------------------------------------
(* Users and their sessions.  identity_links holds <<provider, subject, user>>. *)

CreateUser(users, id) == Insert(users, id, [session_version |-> 1])

\* PRIMARY KEY (provider_id, subject).
LinkIdentity(links, provider, subject, user) ==
    links \cup {<<provider, subject, user>>}

GetUser(users, id) == Get(users, id)

ListUsers(users, after, limit) == Page(users, after, limit)

bump(row) == [row EXCEPT !.session_version = @ + 1]

\* The users of this identity, one at most: their session version moves on.
IdentityUser(links, provider, subject) ==
    {l[3] : l \in {k \in links : k[1] = provider /\ k[2] = subject}}

UpdateIdentityUserLogin(users, links, provider, subject) ==
    Update(users, IdentityUser(links, provider, subject), bump)

\* Mutant: the version is rotated whatever the refresh token's version is.
RotateAnyVersion(users, id, version) == Update(users, {id}, bump)

\* One statement: the row moves on only from the version the token names.
RotateUserSession(users, id, version) ==
    Update(users, {i \in Get(users, id) : users[i].session_version = version}, bump)

RotateUserSessionByID(users, id) == Update(users, {id}, bump)

BumpSessionsForRole(users, userRoles, role) ==
    Update(users, {u \in DOMAIN users : <<u, role>> \in userRoles}, bump)

-------------------------------------------------------------------------------
(* Roles.  user_roles holds <<user, role>>, role_permissions <<role, permission>>. *)

CreateRole(roles, id) == Insert(roles, id, <<>>)

\* UPDATE with RETURNING, for the row that it returns.
TouchRole(roles, id) == Get(roles, id)

GetRole(roles, id) == Get(roles, id)

RenameRole(roles, id, name) == SetName(roles, id, name)

SetRoleDescription(roles, id, description) == SetDescription(roles, id, description)

\* Mutant: a page begins with the row the last one ended with.
PageFromCursor(roles, after, limit) ==
    Limit({i \in DOMAIN roles : i >= after}, limit, ascending)

ListRoles(roles, after, limit) == Page(roles, after, limit)

DeleteRole(roles, id) == Delete(roles, id)

\* INSERT ... SELECT: nothing to insert without the role.
GrantRolePermission(granted, roles, role, permission) ==
    granted \cup {<<r, permission>> : r \in Get(roles, role)}

RevokeRolePermission(granted, role, permission) == granted \ {<<role, permission>>}

ListRolePermissions(granted, role) == {g[2] : g \in {h \in granted : h[1] = role}}

ListUserRoles(userRoles, roles, user) == {r \in DOMAIN roles : <<user, r>> \in userRoles}

ListUserPermissions(userRoles, granted, user) ==
    {g[2] : g \in {h \in granted : <<user, h[1]>> \in userRoles}}

\* The role of a new user: the first one administrates.
AssignInitialRole(userRoles, users, roles, user, administrators, usersRole) ==
    userRoles \cup
        ({user} \X Get(roles, IF Cardinality(DOMAIN users) = 1
                              THEN administrators ELSE usersRole))

AssignRoleToUser(userRoles, users, roles, user, role) ==
    userRoles \cup (Get(users, user) \X Get(roles, role))

RevokeRoleFromUser(userRoles, user, role) == userRoles \ {<<user, role>>}

===============================================================================
