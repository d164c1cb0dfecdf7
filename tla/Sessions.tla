------------------------------- MODULE Sessions -------------------------------
(***************************************************************************)
(* Users, roles, identity providers and sessions of the control plane      *)
(* (server/internal/core/auth.go and roles.go, server/internal/auth).      *)
(*                                                                         *)
(* A login or a refresh moves the user to a new session version, reads the *)
(* user's permissions and signs a token pair, as separate database         *)
(* accesses between which administrators change roles.  The access token   *)
(* carries the permissions and is believed until it expires; the refresh   *)
(* token is good only for the session version it names.                    *)
(*                                                                         *)
(* A user stands for the identity (provider, subject) whose first login    *)
(* created the row.  Names, descriptions and the exchange with the OIDC    *)
(* provider are abstracted.                                                *)
(***************************************************************************)
EXTENDS Naturals, FiniteSets

CONSTANTS
    User,            \* identities that may log in
    Provider,        \* identity providers
    ProviderOf,      \* the provider of each identity
    Bootstrap,       \* the provider EnsureBootstrapProvider creates
    Role,            \* roles
    Administrators,  \* administratorsRoleID
    Users,           \* usersRoleID
    Permission,      \* permissions, all of them granted to Administrators
    UsersPermission, \* the ones the migration grants to Users
    Handler,         \* concurrent login and refresh handlers
    MaxVersion       \* bound: session versions of each user

ASSUME SessionsAssumption ==
    /\ ProviderOf \in [User -> Provider] /\ Bootstrap \in Provider
    /\ {Administrators, Users} \subseteq Role /\ Administrators # Users
    /\ UsersPermission \subseteq Permission
    /\ MaxVersion \in [User -> Nat \ {0}]

VARIABLES
    users,      \* users: session_version
    userRoles,  \* user_roles: pairs of a user and a role
    roles,      \* roles: no column of theirs is told apart
    granted,    \* role_permissions: pairs of a role and a permission
    providers,  \* identity_providers: enabled
    links,      \* identity_links: provider, subject and user
    drawn,      \* provider ids drawn so far: ulid.Make never repeats one
    deleting,   \* DeleteIdentityProvider transactions that counted providers
    handler,    \* state of each login or refresh handler
    pairs       \* the token pairs signed so far, with the version whose
                \* refresh token was redeemed for them (0 for a login)

roleVars == <<userRoles, roles, granted>>
providerVars == <<providers, links>>
vars == <<users, roleVars, providerVars, drawn, deleting, handler, pairs>>

queries == INSTANCE IdentityQueries

Idle == [step |-> "idle"]

\* At the start of the server; only a new database has no provider.
EnsureBootstrapProvider(ps) ==
    IF queries!CountIdentityProviders(ps) > 0 THEN ps
    ELSE queries!CreateIdentityProvider(ps, Bootstrap, [enabled |-> TRUE])

\* The migration's roles and the bootstrap provider.
Init ==
    /\ users = <<>> /\ userRoles = {}
    /\ roles = [r \in {Administrators, Users} |-> <<>>]
    /\ granted = ({Administrators} \X Permission) \cup ({Users} \X UsersPermission)
    /\ providers = EnsureBootstrapProvider(<<>>)
    /\ links = {} /\ drawn = {Bootstrap} /\ deleting = {}
    /\ handler = [h \in Handler |-> Idle]
    /\ pairs = {}

\* A committed write, with the users it leaves: SQLite refuses the later write
\* of a transaction whose snapshot it made stale.
Commit(us) ==
    /\ \A u \in DOMAIN us : us[u].session_version <= MaxVersion[u]
    /\ users' = us
    /\ deleting' = {}

-------------------------------------------------------------------------------
(* Logins and refreshes. *)

\* SSOCallback up to the exchange with the provider.
SSOCallback(h, u) ==
    /\ handler[h] = Idle
    /\ ProviderOf[u] \in queries!ListEnabledIdentityProviders(providers)
    /\ handler' = [handler EXCEPT ![h] = [step |-> "link", user |-> u]]
    /\ UNCHANGED <<users, roleVars, providerVars, drawn, deleting, pairs>>

\* The login transaction.  It creates the user of an unknown identity; without
\* its provider the insert of the link fails and the login with it.
linkIdentity(h) ==
    LET u == handler[h].user
        i == ProviderOf[u]
        login(version) == [handler EXCEPT ![h] =
            [step |-> "permissions", user |-> u, version |-> version, from |-> 0]]
    IN  /\ handler[h].step = "link"
        /\ \/ /\ Commit(queries!UpdateIdentityUserLogin(users, links, i, u))
              /\ users' # users
              /\ handler' = login(users'[u].session_version)
              /\ UNCHANGED <<userRoles, links>>
           \/ /\ queries!IdentityUser(links, i, u) = {} /\ i \in DOMAIN providers
              /\ Commit(queries!CreateUser(users, u))
              /\ links' = queries!LinkIdentity(links, i, u, u)
              /\ userRoles' = queries!AssignInitialRole(userRoles, users', roles, u,
                                                        Administrators, Users)
              /\ handler' = login(1)
           \/ /\ i \notin DOMAIN providers
              /\ handler' = [handler EXCEPT ![h] = Idle]
              /\ UNCHANGED <<users, userRoles, links, deleting>>
        /\ UNCHANGED <<roles, granted, providers, drawn, pairs>>

\* RefreshToken with the refresh token of this pair, up to the rotation.
RefreshToken(h, pair) ==
    /\ handler[h] = Idle
    /\ Commit(queries!RotateUserSession(users, pair.user, pair.version))
    /\ users' # users
    /\ handler' = [handler EXCEPT ![h] = [step |-> "permissions",
                      user |-> pair.user,
                      version |-> users'[pair.user].session_version,
                      from |-> pair.version]]
    /\ UNCHANGED <<roleVars, providerVars, drawn, pairs>>

ListUserPermissions(h) ==
    /\ handler[h].step = "permissions"
    /\ handler' = [handler EXCEPT ![h] = [step |-> "sign", user |-> @.user,
           version |-> @.version, from |-> @.from,
           permissions |-> queries!ListUserPermissions(userRoles, granted, @.user)]]
    /\ UNCHANGED <<users, roleVars, providerVars, drawn, deleting, pairs>>

\* GenerateTokens, with the version the row was given and the permissions read.
GenerateTokens(h) ==
    /\ handler[h].step = "sign"
    /\ pairs' = pairs \cup {[user |-> handler[h].user,
                             version |-> handler[h].version,
                             from |-> handler[h].from,
                             permissions |-> handler[h].permissions]}
    /\ handler' = [handler EXCEPT ![h] = Idle]
    /\ UNCHANGED <<users, roleVars, providerVars, drawn, deleting>>

Logout(pair) ==
    /\ Commit(queries!RotateUserSession(users, pair.user, pair.version))
    /\ users' # users
    /\ UNCHANGED <<roleVars, providerVars, drawn, handler, pairs>>

\* The server stops in the middle of its handlers and is started again.
Restart ==
    /\ handler' = [h \in Handler |-> Idle]
    /\ providers' = EnsureBootstrapProvider(providers)
    /\ deleting' = {}
    /\ UNCHANGED <<users, roleVars, links, drawn, pairs>>

-------------------------------------------------------------------------------
(* Administration of roles.  Each is one transaction. *)

\* Mutant: only taking a permission away ends sessions.
MutateWithoutBump(r, perms) ==
    /\ r \in queries!TouchRole(roles, r)
    /\ granted' = perms
    /\ Commit(IF granted \subseteq perms THEN users
              ELSE queries!BumpSessionsForRole(users, userRoles, r))
    /\ UNCHANGED <<userRoles, roles, providerVars, drawn, handler, pairs>>

\* roleMutation, with the role_permissions its mutation leaves.
roleMutation(r, perms) ==
    /\ r \in queries!TouchRole(roles, r)
    /\ granted' = perms
    /\ Commit(queries!BumpSessionsForRole(users, userRoles, r))
    /\ UNCHANGED <<userRoles, roles, providerVars, drawn, handler, pairs>>

\* RenameRole and SetRoleDescription.
RenameRole(r) == roleMutation(r, granted)

GrantRolePermission(r, p) ==
    /\ p \notin queries!ListRolePermissions(granted, r)
    /\ roleMutation(r, queries!GrantRolePermission(granted, roles, r, p))

RevokeRolePermission(r, p) ==
    /\ p \in queries!ListRolePermissions(granted, r)
    /\ roleMutation(r, queries!RevokeRolePermission(granted, r, p))

CreateRole(r, ps) ==
    /\ r \notin DOMAIN roles
    /\ roles' = queries!CreateRole(roles, r)
    /\ granted' = granted \cup ({r} \X ps)
    /\ Commit(users)
    /\ UNCHANGED <<userRoles, providerVars, drawn, handler, pairs>>

\* The row, and by cascade its user_roles and role_permissions.
DeleteRole(r) ==
    /\ r \in queries!TouchRole(roles, r)
    /\ Commit(queries!BumpSessionsForRole(users, userRoles, r))
    /\ roles' = queries!DeleteRole(roles, r)
    /\ userRoles' = userRoles \ (User \X {r})
    /\ granted' = granted \ ({r} \X Permission)
    /\ UNCHANGED <<providerVars, drawn, handler, pairs>>

AssignRoleToUser(u, r) ==
    /\ userRoles' = queries!AssignRoleToUser(userRoles, users, roles, u, r)
    /\ userRoles' # userRoles
    /\ Commit(queries!RotateUserSessionByID(users, u))
    /\ UNCHANGED <<roles, granted, providerVars, drawn, handler, pairs>>

RevokeRoleFromUser(u, r) ==
    /\ userRoles' = queries!RevokeRoleFromUser(userRoles, u, r)
    /\ userRoles' # userRoles
    /\ Commit(queries!RotateUserSessionByID(users, u))
    /\ UNCHANGED <<roles, granted, providerVars, drawn, handler, pairs>>

RevokeUserSessions(u) ==
    /\ Commit(queries!RotateUserSessionByID(users, u))
    /\ users' # users
    /\ UNCHANGED <<roleVars, providerVars, drawn, handler, pairs>>

-------------------------------------------------------------------------------
(* Administration of identity providers. *)

CreateIdentityProvider(i) ==
    /\ i \notin drawn /\ drawn' = drawn \cup {i}
    /\ providers' = queries!CreateIdentityProvider(providers, i, [enabled |-> TRUE])
    /\ Commit(users)
    /\ UNCHANGED <<roleVars, links, handler, pairs>>

\* RenameIdentityProvider and ConfigureIdentityProvider: a commit that changes
\* nothing modelled here but ends a deletion under way.
ConfigureIdentityProvider(i) ==
    /\ deleting # {} /\ i \in queries!GetIdentityProvider(providers, i)
    /\ providers' = queries!ConfigureIdentityProvider(providers, i)
    /\ Commit(users)
    /\ UNCHANGED <<roleVars, links, drawn, handler, pairs>>

EnableIdentityProvider(i) ==
    /\ i \in queries!GetIdentityProvider(providers, i)
    /\ providers' = queries!EnableIdentityProvider(providers, i)
    /\ Commit(users)
    /\ UNCHANGED <<roleVars, links, drawn, handler, pairs>>

DisableIdentityProvider(i) ==
    /\ i \in queries!GetIdentityProvider(providers, i)
    /\ providers' = queries!DisableIdentityProvider(providers, i)
    /\ Commit(users)
    /\ UNCHANGED <<roleVars, links, drawn, handler, pairs>>

\* The first half of DeleteIdentityProvider reads a snapshot of the table.
CountIdentityProviders(i) ==
    /\ i \in queries!GetIdentityProvider(providers, i)
    /\ queries!CountIdentityProviders(providers) > 1
    /\ deleting' = deleting \cup {i}
    /\ UNCHANGED <<users, roleVars, providerVars, drawn, handler, pairs>>

\* Mutant: the count was read before the transaction began.
DeleteCountedEarlier(i) ==
    /\ i \in deleting
    /\ providers' = queries!DeleteIdentityProvider(providers, i)
    /\ links' = {l \in links : l[1] # i}
    /\ deleting' = deleting \ {i}
    /\ UNCHANGED <<users, roleVars, drawn, handler, pairs>>

\* The second half deletes the row and, by cascade, its links.
DeleteIdentityProvider(i) ==
    /\ i \in deleting
    /\ providers' = queries!DeleteIdentityProvider(providers, i)
    /\ links' = {l \in links : l[1] # i}
    /\ Commit(users)
    /\ UNCHANGED <<roleVars, drawn, handler, pairs>>

-------------------------------------------------------------------------------
(* What the console is shown.  "{}" is the answer "not found". *)

roleProto(r) == [id |-> r, permissions |-> queries!ListRolePermissions(granted, r)]

userProto(u) ==
    [roles |-> {roleProto(r) : r \in queries!ListUserRoles(userRoles, roles, u)},
     permissions |-> queries!ListUserPermissions(userRoles, granted, u)]

GetCurrentUser(u) == {userProto(x) : x \in queries!GetUser(users, u)}

GetRole(r) == {roleProto(x) : x \in queries!GetRole(roles, r)}

-------------------------------------------------------------------------------
SessionStep ==
    \/ \E h \in Handler :
           \/ \E u \in User : SSOCallback(h, u)
           \/ \E pair \in pairs : RefreshToken(h, pair)
           \/ linkIdentity(h) \/ ListUserPermissions(h) \/ GenerateTokens(h)
    \/ \E pair \in pairs : Logout(pair)
    \/ Restart

RoleStep ==
    \/ \E r \in Role :
           \/ RenameRole(r) \/ DeleteRole(r)
           \/ \E p \in Permission :
                  GrantRolePermission(r, p) \/ RevokeRolePermission(r, p)
           \/ \E ps \in SUBSET Permission : CreateRole(r, ps)
    \/ \E u \in User :
           \/ RevokeUserSessions(u)
           \/ \E r \in Role : AssignRoleToUser(u, r) \/ RevokeRoleFromUser(u, r)

ProviderStep ==
    \E i \in Provider :
        \/ CreateIdentityProvider(i) \/ ConfigureIdentityProvider(i)
        \/ EnableIdentityProvider(i)
        \/ DisableIdentityProvider(i)
        \/ CountIdentityProviders(i) \/ DeleteIdentityProvider(i)

Next == SessionStep \/ RoleStep \/ ProviderStep

Spec == Init /\ [][Next]_vars

-------------------------------------------------------------------------------
\* The tables and the handlers' records have their types.
TypeOK ==
    /\ DOMAIN users \subseteq User
    /\ \A u \in DOMAIN users : users[u].session_version \in 1 .. MaxVersion[u]
    /\ userRoles \subseteq (DOMAIN users) \X (DOMAIN roles)
    /\ DOMAIN roles \subseteq Role /\ granted \subseteq (DOMAIN roles) \X Permission
    /\ DOMAIN providers \subseteq Provider
    /\ \A i \in DOMAIN providers : providers[i].enabled \in BOOLEAN
    /\ \A l \in links : l[1] \in DOMAIN providers /\ l[3] \in DOMAIN users
    /\ deleting \subseteq Provider
    /\ \A h \in Handler :
           /\ handler[h].step \in {"idle", "link", "permissions", "sign"}
           /\ handler[h].step # "idle" => handler[h].user \in User
    /\ \A p \in pairs :
           /\ p.user \in User
           /\ p.version \in 1 .. MaxVersion[p.user]
           /\ p.from \in 0 .. p.version
           /\ p.permissions \subseteq Permission

\* A refresh token that still works belongs to a pair whose access token
\* carries exactly the permissions that GetCurrentUser shows for the user now,
\* the ones that GetRole shows for the user's roles: every change of a role, of
\* its permissions or of its users ends the sessions it affects, and a change
\* that falls between the steps of a login or a refresh does too.
LivePairHasCurrentPermissions ==
    \A pair \in pairs : pair.version = users[pair.user].session_version =>
        \E user \in GetCurrentUser(pair.user) :
            /\ pair.permissions = user.permissions
            /\ pair.permissions = UNION {role.permissions : role \in user.roles}
            /\ \A role \in user.roles : GetRole(role.id) = {role}

\* The user and version of every token pair, and of every handler about to sign.
Signing == {h \in Handler : handler[h].step \in {"permissions", "sign"}}

\* Sessions form a chain: a version has one holder, a token pair or a handler
\* about to sign one, and is continued only from the version directly before
\* it.  So of concurrent refreshes, logouts and logins each gets a version of
\* its own or none, and a refresh token is worthless once a logout, a login
\* elsewhere, a role change or RevokeUserSessions has moved its user on.
SessionsFormAChain ==
    /\ \A h \in Signing : \A g \in Signing \ {h} :
           <<handler[g].user, handler[g].version>> # <<handler[h].user, handler[h].version>>
    /\ \A h \in Signing, p \in pairs :
           <<p.user, p.version>> # <<handler[h].user, handler[h].version>>
    /\ \A p, q \in pairs : <<p.user, p.version>> = <<q.user, q.version>> => p = q
    /\ \A p \in pairs : p.from # 0 => p.version = p.from + 1

\* DeleteIdentityProvider: "cannot delete the last identity provider", not even
\* when two deletions count the providers at the same time.
ProviderRemains ==
    DOMAIN providers # {}

===============================================================================
