\* Two users, each of a provider that may be disabled or deleted, the two
\* built-in roles, one permission and two concurrent handlers.
CONSTANTS
    u1 = u1
    u2 = u2
    i1 = i1
    i2 = i2
    adm = adm
    usr = usr
    perm = perm
    h1 = h1
    h2 = h2
    User = {u1, u2}
    Provider = {i1, i2}
    ProviderOf <- UserProviders
    Bootstrap = i1
    Role = {adm, usr}
    Administrators = adm
    Users = usr
    Permission = {perm}
    UsersPermission = {}
    Handler = {h1, h2}
    MaxVersion <- Versions
SYMMETRY HandlerSymmetry
SPECIFICATION MCSpec
INVARIANTS
    LivePairHasCurrentPermissions
    SessionsFormAChain
    ProviderRemains
