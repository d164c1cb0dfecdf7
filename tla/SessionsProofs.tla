---------------------------- MODULE SessionsProofs ----------------------------
(***************************************************************************)
(* The properties of Sessions for any number of users, roles, providers    *)
(* and concurrent handlers.                                                *)
(***************************************************************************)
EXTENDS Sessions, TLAPS

\* A leaf that names no prover is Z3's, within this many seconds.
USE SMTT(30)

Row == [session_version : Nat \ {0}]

Version(u) == users[u].session_version

Perms(u) == queries!ListUserPermissions(userRoles, granted, u)

\* The tables: what foreign keys and primary keys keep, and that an identity's
\* link is its own and is there as long as its provider.
TablesInv ==
    /\ users \in [DOMAIN users -> Row]
    /\ userRoles \subseteq User \X DOMAIN roles /\ granted \subseteq (DOMAIN roles) \X Permission
    /\ \A x \in userRoles : x[1] \in DOMAIN users
    /\ \A l \in links : l[2] = l[3]
    /\ \A u \in DOMAIN users : /\ u \in User /\ ProviderOf[u] \in drawn
                               /\ ProviderOf[u] \in DOMAIN providers =>
                                      <<ProviderOf[u], u, u>> \in links

\* Providers are not deleted to the last: two are there when a deletion counted
\* them, and a commit in between would have ended the deletion.
ProvidersInv ==
    /\ DOMAIN providers # {} /\ IsFiniteSet(DOMAIN providers)
    /\ DOMAIN providers \subseteq drawn
    /\ deleting # {} => Cardinality(DOMAIN providers) > 1

\* A version that a pair or a handler holds was given out.
Holds(x) ==
    /\ x.user \in DOMAIN users
    /\ x.version \in Nat \ {0} /\ x.version <= Version(x.user)
    /\ x.from # 0 => x.version = x.from + 1

\* While it is the user's version, the permissions that were read are current.
Current(x) == x.version = Version(x.user) => x.permissions = Perms(x.user)

HoldersInv ==
    /\ DOMAIN handler = Handler
    /\ \A h \in Handler : handler[h].step \in {"idle", "link", "permissions", "sign"}
    /\ \A h \in Handler : handler[h].step = "link" => handler[h].user \in User
    /\ \A h \in Signing : Holds(handler[h])
    /\ \A h \in Handler : handler[h].step = "sign" => Current(handler[h])
    /\ \A p \in pairs : Holds(p) /\ Current(p)

SessionsInv == TablesInv /\ ProvidersInv /\ HoldersInv /\ SessionsFormAChain

-------------------------------------------------------------------------------
(* Session versions only move on. *)

Bumped(ids) ==
    [u \in DOMAIN users |->
        IF u \in ids THEN [users[u] EXCEPT !.session_version = @ + 1] ELSE users[u]]

\* The statements that move session versions on, by the rows they select.
LEMMA LoginBumps ==
    ASSUME NEW u, NEW i
    PROVE  queries!UpdateIdentityUserLogin(users, links, i, u) =
               Bumped(queries!IdentityUser(links, i, u))
BY DEF queries!UpdateIdentityUserLogin, queries!Update, queries!bump, Bumped

LEMMA RotateBumps ==
    ASSUME NEW u, NEW version
    PROVE  queries!RotateUserSession(users, u, version) =
               Bumped({v \in {u} \cap DOMAIN users : Version(v) = version})
BY DEF queries!RotateUserSession, queries!Get, queries!Update, queries!bump, Bumped, Version

LEMMA RevocationBumps ==
    ASSUME NEW u
    PROVE  queries!RotateUserSessionByID(users, u) = Bumped({u})
BY DEF queries!RotateUserSessionByID, queries!Update, queries!bump, Bumped

LEMMA RoleBumps ==
    ASSUME NEW r
    PROVE  queries!BumpSessionsForRole(users, userRoles, r) =
               Bumped({v \in DOMAIN users : <<v, r>> \in userRoles})
BY DEF queries!BumpSessionsForRole, queries!Update, queries!bump, Bumped

LEMMA BumpedRows ==
    ASSUME TablesInv, NEW ids, users' = Bumped(ids)
    PROVE  /\ DOMAIN users' = DOMAIN users /\ users' \in [DOMAIN users -> Row]
           /\ \A u \in DOMAIN users :
                 Version(u)' = IF u \in ids THEN Version(u) + 1 ELSE Version(u)
<1>1. DOMAIN users' = DOMAIN users
  BY DEF Bumped
<1>2. ASSUME NEW u \in DOMAIN users
      PROVE  /\ users'[u] \in Row
             /\ users'[u].session_version =
                    IF u \in ids THEN users[u].session_version + 1
                    ELSE users[u].session_version
  <2>1. users[u] \in Row
    BY DEF TablesInv
  <2>2. users'[u] = IF u \in ids THEN [users[u] EXCEPT !.session_version = @ + 1] ELSE users[u]
    BY DEF Bumped
  <2> QED
    BY <2>1, <2>2 DEF Row
<1> QED
  BY <1>1, <1>2 DEF Bumped, Version

\* No step takes a user's version back, and one that changes a user's
\* permissions moves the version on.
Moved ==
    \A u \in DOMAIN users :
        /\ u \in DOMAIN users' /\ Version(u)' \in Nat /\ Version(u) <= Version(u)'
        /\ Version(u)' = Version(u) => Perms(u)' = Perms(u)

LEMMA HoldsStays ==
    ASSUME TablesInv, Moved, NEW x, Holds(x)
    PROVE  /\ Holds(x)'
           /\ Current(x) => Current(x)'
<1>1. /\ x.user \in DOMAIN users' /\ Version(x.user)' \in Nat
      /\ Version(x.user) <= Version(x.user)'
      /\ Version(x.user)' = Version(x.user) => Perms(x.user)' = Perms(x.user)
  BY DEF Moved, Holds
<1>2. Version(x.user) \in Nat
  BY DEF TablesInv, Row, Version, Holds
<1>3. Holds(x)'
  BY <1>1, <1>2 DEF Holds
<1>4. ASSUME Current(x) PROVE Current(x)'
  <2> SUFFICES ASSUME x.version = Version(x.user)' PROVE x.permissions = Perms(x.user)'
    BY DEF Current
  <2>1. x.version \in Nat /\ x.version <= Version(x.user)
    BY DEF Holds
  <2>2. Version(x.user)' = Version(x.user)
    BY <1>1, <1>2, <2>1
  <2> QED
    BY <1>1, <1>4, <2>2 DEF Current
<1> QED
  BY <1>3, <1>4

\* Steps that neither begin nor end the signing of a pair.
LEMMA HoldersStay ==
    ASSUME TablesInv, HoldersInv, SessionsFormAChain, Moved, UNCHANGED <<handler, pairs>>
    PROVE  HoldersInv' /\ SessionsFormAChain'
<1>1. Signing' = Signing
  BY DEF Signing
<1>2. \A h \in Signing : Holds(handler[h])'
  BY HoldsStays DEF HoldersInv
<1>3. \A h \in Handler : handler[h].step = "sign" => Current(handler[h])'
  <2> SUFFICES ASSUME NEW h \in Handler, handler[h].step = "sign"
               PROVE  Current(handler[h])'
    OBVIOUS
  <2>1. Holds(handler[h]) /\ Current(handler[h])
    BY DEF HoldersInv, Signing
  <2> QED
    BY <2>1, HoldsStays
<1>4. \A p \in pairs : Holds(p)' /\ Current(p)'
  BY HoldsStays DEF HoldersInv
<1>5. HoldersInv'
  BY <1>1, <1>2, <1>3, <1>4 DEF HoldersInv
<1> QED
  BY <1>1, <1>5 DEF SessionsFormAChain

\* Steps that take a handler to no version, or give it one of its own.
LEMMA HandlerMoves ==
    ASSUME TablesInv, HoldersInv, SessionsFormAChain, Moved, UNCHANGED pairs,
           NEW h \in Handler, NEW x, handler' = [handler EXCEPT ![h] = x],
           \/ x.step = "idle"
           \/ x.step = "link" /\ x.user \in User
           \/ /\ x.step = "permissions" /\ Holds(x)'
              /\ x.user \in DOMAIN users => Version(x.user) < x.version
    PROVE  HoldersInv' /\ SessionsFormAChain'
<1>1. DOMAIN handler' = Handler /\ handler'[h] = x
  BY DEF HoldersInv
<1>2. \A g \in Handler \ {h} : handler'[g] = handler[g]
  BY DEF HoldersInv
<1>3. \A y : Holds(y) => Holds(y)' /\ (Current(y) => Current(y)')
  BY HoldsStays
<1>4. ASSUME NEW g \in Handler, handler'[g].step = "sign" PROVE Current(handler[g])'
  <2>1. g # h /\ handler'[g] = handler[g]
    BY <1>1, <1>2, <1>4
  <2>2. Holds(handler[g]) /\ Current(handler[g])
    BY <1>4, <2>1 DEF HoldersInv, Signing
  <2>3. \A y : y = handler[g] => Current(y)'
    BY <1>3, <2>2
  <2> QED
    BY <2>1, <2>3 DEF Current, Version, Perms
<1>5. \A p \in pairs : Holds(p)' /\ Current(p)'
  BY <1>3 DEF HoldersInv
<1>6. \A g \in Signing' \ {h} : g \in Signing /\ handler'[g] = handler[g]
  BY <1>2 DEF Signing
<1>7. HoldersInv'
  <2>1. ASSUME NEW g \in Signing' PROVE Holds(handler[g])'
    <3>1. CASE g = h
      BY <1>1, <3>1 DEF Signing, Holds, Version
    <3>2. CASE g # h
      <4>1. Holds(handler[g]) /\ handler'[g] = handler[g]
        BY <1>6, <3>2 DEF HoldersInv
      <4>2. \A y : y = handler[g] => Holds(y)'
        BY <1>3, <4>1
      <4> QED
        BY <4>1, <4>2 DEF Holds, Version
    <3> QED
      BY <3>1, <3>2
  <2>2. \A g \in Handler :
            /\ handler'[g].step \in {"idle", "link", "permissions", "sign"}
            /\ handler'[g].step = "link" => handler'[g].user \in User
    BY <1>1, <1>2 DEF HoldersInv
  <2> QED
    BY <1>1, <1>4, <1>5, <2>1, <2>2 DEF HoldersInv
<1>8. ASSUME h \in Signing', NEW y, Holds(y)
      PROVE  <<y.user, y.version>> # <<x.user, x.version>>
  <2>1. x.user \in DOMAIN users => Version(x.user) < x.version
    BY <1>1, <1>8 DEF Signing
  <2>2. y.user \in DOMAIN users /\ y.version <= Version(y.user) /\ y.version \in Nat
    BY <1>8 DEF Holds
  <2>3. Version(y.user) \in Nat
    BY <2>2 DEF TablesInv, Row, Version
  <2>4. x.version \in Nat
    BY <1>1, <1>8 DEF Signing, Holds
  <2> QED
    BY <2>1, <2>2, <2>3, <2>4
<1>9. SessionsFormAChain'
  <2>1. ASSUME NEW g \in Signing', NEW f \in Signing' \ {g}
        PROVE  <<handler'[f].user, handler'[f].version>> # <<handler'[g].user, handler'[g].version>>
    <3>1. CASE g # h /\ f # h
      BY <1>6, <3>1 DEF SessionsFormAChain
    <3>2. CASE g = h
      BY <1>1, <1>6, <1>8, <3>2 DEF HoldersInv
    <3>3. CASE f = h
      BY <1>1, <1>6, <1>8, <3>3 DEF HoldersInv
    <3> QED
      BY <3>1, <3>2, <3>3
  <2>2. ASSUME NEW g \in Signing', NEW p \in pairs
        PROVE  <<p.user, p.version>> # <<handler'[g].user, handler'[g].version>>
    <3>1. CASE g # h
      BY <1>6, <3>1 DEF SessionsFormAChain
    <3>2. CASE g = h
      BY <1>1, <1>8, <3>2 DEF HoldersInv
    <3> QED
      BY <3>1, <3>2
  <2> QED
    BY <2>1, <2>2 DEF SessionsFormAChain
<1> QED
  BY <1>7, <1>9

-------------------------------------------------------------------------------
(* Changes of the tables. *)

LEMMA SamePerms ==
    ASSUME NEW u,
           \A x : x \in granted /\ <<u, x[1]>> \in userRoles
                     <=> x \in granted' /\ <<u, x[1]>> \in userRoles'
    PROVE  Perms(u)' = Perms(u)
BY DEF Perms, queries!ListUserPermissions

\* A commit that moves some versions on, and after which every other user has
\* the roles and their permissions as before.
LEMMA RolesChange ==
    ASSUME TablesInv, NEW ids, users' = Bumped(ids), UNCHANGED <<providerVars, drawn>>,
           userRoles' \subseteq User \X DOMAIN roles',
           \A x \in userRoles' : x[1] \in DOMAIN users,
           granted' \subseteq (DOMAIN roles') \X Permission,
           \A u \in DOMAIN users \ ids : \A x :
               x \in granted /\ <<u, x[1]>> \in userRoles
                   <=> x \in granted' /\ <<u, x[1]>> \in userRoles'
    PROVE  TablesInv' /\ Moved
<1>1. /\ DOMAIN users' = DOMAIN users /\ users' \in [DOMAIN users -> Row]
      /\ \A u \in DOMAIN users :
            Version(u)' = IF u \in ids THEN Version(u) + 1 ELSE Version(u)
  BY BumpedRows
<1>2. providers' = providers /\ links' = links /\ drawn' = drawn
  BY DEF providerVars
<1>3. TablesInv'
  BY <1>1, <1>2 DEF TablesInv
<1>4. \A u \in DOMAIN users : Version(u) \in Nat
  BY DEF TablesInv, Row, Version
<1>5. \A u \in DOMAIN users \ ids : Perms(u)' = Perms(u)
  BY SamePerms
<1> QED
  BY <1>1, <1>3, <1>4, <1>5 DEF Moved

\* A commit that only moves versions on.
LEMMA VersionsChange ==
    ASSUME TablesInv, NEW ids, users' = Bumped(ids),
           UNCHANGED <<roleVars, providerVars, drawn>>
    PROVE  TablesInv' /\ Moved
<1>1. userRoles' = userRoles /\ roles' = roles /\ granted' = granted
  BY DEF roleVars
<1>2. UNCHANGED <<providerVars, drawn>>
  OBVIOUS
<1>3. /\ userRoles' \subseteq User \X DOMAIN roles'
      /\ \A x \in userRoles' : x[1] \in DOMAIN users
      /\ granted' \subseteq (DOMAIN roles') \X Permission
  BY <1>1 DEF TablesInv
<1> QED
  BY <1>1, <1>2, <1>3, RolesChange

\* Users and roles stay as they are.
LEMMA NothingMoves ==
    ASSUME TablesInv, users' = users, UNCHANGED roleVars
    PROVE  Moved
<1>1. \A u : Perms(u)' = Perms(u)
  BY SamePerms DEF roleVars
<1>2. \A u \in DOMAIN users : Version(u) \in Nat /\ Version(u)' = Version(u)
  BY DEF TablesInv, Row, Version
<1> QED
  BY <1>1, <1>2 DEF Moved

LEMMA ProvidersStay ==
    ASSUME ProvidersInv, UNCHANGED <<providers, drawn>>, deleting' \in {deleting, {}}
    PROVE  ProvidersInv'
BY DEF ProvidersInv

-------------------------------------------------------------------------------
(* Logins, refreshes and logouts. *)

LEMMA RefreshPreserves ==
    ASSUME SessionsInv, NEW h \in Handler, NEW pair \in pairs, RefreshToken(h, pair)
    PROVE  SessionsInv'
<1> DEFINE u == pair.user
           ids == {v \in {u} \cap DOMAIN users : Version(v) = pair.version}
<1>1. PICK x : x = [step |-> "permissions", user |-> u, version |-> Version(u)',
                    from |-> pair.version]
  BY Zenon
<1>2. /\ users' = Bumped(ids) /\ users' # users /\ deleting' = {}
      /\ UNCHANGED <<roleVars, providerVars, drawn, pairs>>
      /\ handler' = [handler EXCEPT ![h] = x]
  <2>1. queries!RotateUserSession(users, u, pair.version) = Bumped(ids)
    BY RotateBumps
  <2>2. users'[u].session_version = Version(u)'
    BY DEF Version
  <2> QED
    BY <1>1, <2>1, <2>2, Zenon DEF RefreshToken, Commit
<1>3. TablesInv' /\ Moved
  BY <1>2, VersionsChange DEF SessionsInv
<1>4. /\ DOMAIN users' = DOMAIN users
      /\ \A v \in DOMAIN users :
            Version(v)' = IF v \in ids THEN Version(v) + 1 ELSE Version(v)
  BY <1>2, BumpedRows DEF SessionsInv
<1>5. u \in ids
  <2> SUFFICES ASSUME ids = {} PROVE users' = users
    BY <1>2
  <2>1. users = [v \in DOMAIN users |-> users[v]]
    BY DEF SessionsInv, TablesInv
  <2> QED
    BY <1>2, <2>1 DEF Bumped
<1>6. u \in DOMAIN users /\ Version(u) = pair.version /\ Version(u) \in Nat \ {0}
  BY <1>5 DEF SessionsInv, TablesInv, Row, Version
<1>7. Version(u)' = Version(u) + 1
  BY <1>4, <1>5, <1>6
<1>8. x.step = "permissions" /\ x.user = u /\ x.version = Version(u)' /\ x.from = Version(u)
  BY <1>1, <1>6
<1> HIDE DEF u, ids
<1>9. Holds(x)'
  BY <1>4, <1>6, <1>7, <1>8 DEF Holds, Version
<1>10. x.user \in DOMAIN users => Version(x.user) < x.version
  BY <1>6, <1>7, <1>8
<1>11. HoldersInv' /\ SessionsFormAChain'
  BY <1>2, <1>3, <1>8, <1>9, <1>10, HandlerMoves, Zenon DEF SessionsInv
<1>12. ProvidersInv'
  BY <1>2, ProvidersStay, Zenon DEF providerVars, SessionsInv
<1> QED
  BY <1>3, <1>11, <1>12 DEF SessionsInv

\* The login of a known identity.
LEMMA LoginPreserves ==
    ASSUME SessionsInv, NEW h \in Handler, handler[h].step = "link", NEW u, u = handler[h].user,
           users' = queries!UpdateIdentityUserLogin(users, links, ProviderOf[u], u),
           users' # users, deleting' = {},
           handler' = [handler EXCEPT ![h] =
               [step |-> "permissions", user |-> u, version |-> users'[u].session_version,
                from |-> 0]],
           UNCHANGED <<roleVars, providerVars, drawn, pairs>>
    PROVE  SessionsInv'
<1> DEFINE ids == queries!IdentityUser(links, ProviderOf[u], u)
<1>1. PICK x : x = [step |-> "permissions", user |-> u, version |-> Version(u)', from |-> 0]
  BY Zenon
<1>2. users' = Bumped(ids)
  BY LoginBumps, Zenon
<1>3. handler' = [handler EXCEPT ![h] = x]
  BY <1>1, Zenon DEF Version
<1>4. ids \subseteq {u}
  BY DEF queries!IdentityUser, SessionsInv, TablesInv
<1> HIDE DEF ids
<1>5. TablesInv' /\ Moved
  BY <1>2, VersionsChange DEF SessionsInv
<1>6. /\ DOMAIN users' = DOMAIN users
      /\ \A v \in DOMAIN users :
            Version(v)' = IF v \in ids THEN Version(v) + 1 ELSE Version(v)
  BY <1>2, BumpedRows DEF SessionsInv
<1>7. u \in ids /\ u \in DOMAIN users
  <2> SUFFICES ASSUME \A v \in DOMAIN users : v \notin ids PROVE users' = users
    BY <1>4, Zenon
  <2>1. users = [v \in DOMAIN users |-> users[v]]
    BY Zenon DEF SessionsInv, TablesInv
  <2> QED
    BY <1>2, <2>1, Zenon DEF Bumped
<1>8. Version(u) \in Nat \ {0} /\ Version(u)' = Version(u) + 1
  <2>1. Version(u) \in Nat \ {0}
    BY <1>7, Zenon DEF SessionsInv, TablesInv, Row, Version
  <2> QED
    BY <1>6, <1>7, <2>1, Zenon
<1>9. x.step = "permissions" /\ x.user = u /\ x.version = Version(u)' /\ x.from = 0
  BY <1>1, ZenonT(30)
<1>10. Holds(x)'
  BY <1>6, <1>7, <1>8, <1>9 DEF Holds, Version
<1>11. x.user \in DOMAIN users => Version(x.user) < x.version
  BY <1>8, <1>9
<1>12. HoldersInv' /\ SessionsFormAChain'
  BY <1>3, <1>5, <1>9, <1>10, <1>11, HandlerMoves, Zenon DEF SessionsInv
<1>13. ProvidersInv'
  BY ProvidersStay, Zenon DEF providerVars, SessionsInv
<1> QED
  BY <1>5, <1>12, <1>13 DEF SessionsInv

\* The first login of an identity: nobody holds a version of the new user.
LEMMA FirstLoginPreserves ==
    ASSUME SessionsInv, NEW h \in Handler, handler[h].step = "link", NEW u, u = handler[h].user,
           queries!IdentityUser(links, ProviderOf[u], u) = {},
           ProviderOf[u] \in DOMAIN providers,
           users' = queries!CreateUser(users, u), deleting' = {},
           links' = queries!LinkIdentity(links, ProviderOf[u], u, u),
           userRoles' = queries!AssignInitialRole(userRoles, users', roles, u,
                                                  Administrators, Users),
           handler' = [handler EXCEPT ![h] =
               [step |-> "permissions", user |-> u, version |-> 1, from |-> 0]],
           UNCHANGED <<roles, granted, providers, drawn, pairs>>
    PROVE  SessionsInv'
<1> DEFINE i == ProviderOf[u]
<1>1. u \in User
  BY Zenon DEF SessionsInv, HoldersInv
<1>2. u \notin DOMAIN users
  <2> SUFFICES ASSUME u \in DOMAIN users PROVE FALSE
    BY Zenon
  <2>1. <<i, u, u>> \in links
    BY Zenon DEF SessionsInv, TablesInv
  <2> QED
    BY <2>1 DEF queries!IdentityUser
<1>3. /\ DOMAIN users' = DOMAIN users \cup {u} /\ users'[u] = [session_version |-> 1]
      /\ \A v \in DOMAIN users : users'[v] = users[v]
      /\ users' = [v \in DOMAIN users' |-> users'[v]]
  BY <1>2 DEF queries!CreateUser, queries!Insert
<1>4. links' = links \cup {<<i, u, u>>}
  BY DEF queries!LinkIdentity
<1>5. \A x \in userRoles' : x \in userRoles \/ x \in {u} \X DOMAIN roles
  BY DEF queries!AssignInitialRole, queries!Get
<1>6. userRoles \subseteq userRoles'
  BY Zenon DEF queries!AssignInitialRole
<1>7. TablesInv'
  <2>1. [session_version |-> 1] \in Row
    BY DEF Row
  <2>2. users' \in [DOMAIN users' -> Row]
    BY <1>3, <2>1, Zenon DEF SessionsInv, TablesInv
  <2>3. /\ userRoles' \subseteq User \X DOMAIN roles'
        /\ \A x \in userRoles' : x[1] \in DOMAIN users'
    BY <1>1, <1>3, <1>5, Zenon DEF SessionsInv, TablesInv
  <2>4. \A l \in links' : l[2] = l[3]
    BY <1>4 DEF SessionsInv, TablesInv
  <2>5. \A v \in DOMAIN users' : /\ v \in User /\ ProviderOf[v] \in drawn'
                                 /\ ProviderOf[v] \in DOMAIN providers' =>
                                        <<ProviderOf[v], v, v>> \in links'
    BY <1>1, <1>3, <1>4, Zenon DEF SessionsInv, TablesInv, ProvidersInv
  <2> QED
    BY <2>2, <2>3, <2>4, <2>5 DEF SessionsInv, TablesInv
<1>8. Moved
  <2> SUFFICES ASSUME NEW v \in DOMAIN users
               PROVE  /\ v \in DOMAIN users' /\ Version(v)' \in Nat /\ Version(v) <= Version(v)'
                      /\ Perms(v)' = Perms(v)
    BY Zenon DEF Moved
  <2>1. Version(v)' = Version(v) /\ Version(v) \in Nat
    BY <1>3, Zenon DEF Version, SessionsInv, TablesInv, Row
  <2>2. \A r : <<v, r>> \in userRoles' <=> <<v, r>> \in userRoles
    BY <1>2, <1>5, <1>6, Zenon
  <2>3. Perms(v)' = Perms(v)
    BY <2>2, SamePerms
  <2> QED
    BY <1>3, <2>1, <2>3
<1>9. PICK x : x = [step |-> "permissions", user |-> u, version |-> 1, from |-> 0]
  BY Zenon
<1>10. x.step = "permissions" /\ x.user = u /\ x.version = 1 /\ x.from = 0
  BY <1>9, Zenon
<1>11. Holds(x)'
  BY <1>3, <1>10 DEF Holds, Version
<1>12. HoldersInv' /\ SessionsFormAChain'
  <2>1. handler' = [handler EXCEPT ![h] = x]
    BY <1>9, Zenon
  <2>2. x.user \in DOMAIN users => Version(x.user) < x.version
    BY <1>2, <1>10, Zenon
  <2>3. UNCHANGED pairs /\ TablesInv /\ HoldersInv /\ SessionsFormAChain
    BY Zenon DEF SessionsInv
  <2> QED
    BY <1>8, <1>10, <1>11, <2>1, <2>2, <2>3, HandlerMoves, Zenon
<1>13. ProvidersInv'
  BY ProvidersStay DEF SessionsInv
<1> QED
  BY <1>7, <1>12, <1>13, Zenon DEF SessionsInv

\* The permissions are read: they are the current ones.
LEMMA ReadPreserves ==
    ASSUME SessionsInv, NEW h \in Handler, ListUserPermissions(h)
    PROVE  SessionsInv'
<1>1. PICK x : x = [step |-> "sign", user |-> handler[h].user, version |-> handler[h].version,
                    from |-> handler[h].from, permissions |-> Perms(handler[h].user)]
  BY Zenon
<1>2. /\ handler' = [handler EXCEPT ![h] = x]
      /\ UNCHANGED <<users, roleVars, providerVars, drawn, deleting, pairs>>
  BY <1>1 DEF ListUserPermissions, Perms
<1>3. /\ x.step = "sign" /\ x.user = handler[h].user /\ x.version = handler[h].version
      /\ x.from = handler[h].from /\ x.permissions = Perms(x.user)
  BY <1>1
<1>4. h \in Signing
  BY DEF ListUserPermissions, Signing
<1>5. DOMAIN handler' = Handler /\ handler'[h] = x
      /\ \A g \in Handler \ {h} : handler'[g] = handler[g]
  BY <1>2 DEF SessionsInv, HoldersInv
<1>6. Signing' = Signing
  BY <1>3, <1>4, <1>5 DEF Signing
<1>7. /\ users' = users /\ userRoles' = userRoles /\ roles' = roles /\ granted' = granted
      /\ providers' = providers /\ links' = links /\ drawn' = drawn
      /\ deleting' = deleting /\ pairs' = pairs
  BY <1>2, Zenon DEF roleVars, providerVars
<1>8. \A y : (Holds(y)' <=> Holds(y)) /\ (Current(y)' <=> Current(y))
  BY <1>7, Zenon DEF Holds, Current, Version, Perms, queries!ListUserPermissions
<1>9. Holds(x)
  BY <1>3, <1>4, Zenon DEF Holds, SessionsInv, HoldersInv
<1>10. HoldersInv'
  <2>1. ASSUME NEW g \in Signing PROVE Holds(handler[g])'
    <3>1. \A y : y = handler'[g] => Holds(y)
      BY <1>5, <1>9 DEF SessionsInv, HoldersInv, Signing
    <3> QED
      BY <1>7, <3>1, Zenon DEF Holds, Version
  <2>2. ASSUME NEW g \in Handler, handler'[g].step = "sign" PROVE Current(handler[g])'
    <3>1. \A y : y = handler'[g] => Current(y)
      BY <1>3, <1>5, <2>2 DEF SessionsInv, HoldersInv, Current
    <3> QED
      BY <1>7, <3>1, Zenon DEF Current, Version, Perms, queries!ListUserPermissions
  <2>3. \A p \in pairs : Holds(p)' /\ Current(p)'
    BY <1>8, Zenon DEF SessionsInv, HoldersInv
  <2>4. \A g \in Handler :
            /\ handler'[g].step \in {"idle", "link", "permissions", "sign"}
            /\ handler'[g].step = "link" => handler'[g].user \in User
    BY <1>3, <1>5, Zenon DEF SessionsInv, HoldersInv
  <2> QED
    BY <1>5, <1>6, <1>7, <2>1, <2>2, <2>3, <2>4 DEF HoldersInv
<1>11. SessionsFormAChain'
  <2>1. \A g \in Signing : /\ handler'[g].user = handler[g].user
                           /\ handler'[g].version = handler[g].version
    BY <1>3, <1>5 DEF Signing
  <2> QED
    BY <1>6, <1>7, <2>1 DEF SessionsInv, SessionsFormAChain
<1> QED
  BY <1>7, <1>10, <1>11 DEF SessionsInv, TablesInv, ProvidersInv

\* A pair is signed: it takes over the version that its handler held.
LEMMA SignPreserves ==
    ASSUME SessionsInv, NEW h \in Handler, GenerateTokens(h)
    PROVE  SessionsInv'
<1> DEFINE p == [user |-> handler[h].user, version |-> handler[h].version,
                 from |-> handler[h].from, permissions |-> handler[h].permissions]
<1>1. /\ handler' = [handler EXCEPT ![h] = Idle] /\ pairs' = pairs \cup {p}
      /\ UNCHANGED <<users, roleVars, providerVars, drawn, deleting>>
  BY Zenon DEF GenerateTokens
<1>2. /\ users' = users /\ userRoles' = userRoles /\ roles' = roles /\ granted' = granted
      /\ providers' = providers /\ links' = links /\ drawn' = drawn /\ deleting' = deleting
  BY <1>1, Zenon DEF roleVars, providerVars
<1>3. h \in Signing /\ handler[h].step = "sign"
  BY Zenon DEF GenerateTokens, Signing
<1>4. DOMAIN handler' = Handler /\ handler'[h] = Idle
      /\ \A g \in Handler \ {h} : handler'[g] = handler[g]
  BY <1>1 DEF SessionsInv, HoldersInv
<1>5. Idle.step = "idle"
  BY DEF Idle
<1>6. Signing' = Signing \ {h}
  BY <1>4, <1>5 DEF Signing
<1>7. /\ p.user = handler[h].user /\ p.version = handler[h].version
      /\ p.from = handler[h].from /\ p.permissions = handler[h].permissions
  BY Zenon
<1> HIDE DEF p
<1>8. Holds(p) /\ Current(p)
  BY <1>3, <1>7, Zenon DEF Holds, Current, SessionsInv, HoldersInv
<1>9. \A y : (Holds(y)' <=> Holds(y)) /\ (Current(y)' <=> Current(y))
  BY <1>2, Zenon DEF Holds, Current, Version, Perms, queries!ListUserPermissions
<1>10. HoldersInv'
  <2>1. ASSUME NEW g \in Signing' PROVE Holds(handler[g])'
    <3>1. handler'[g] = handler[g] /\ Holds(handler[g])
      BY <1>4, <1>6, Zenon DEF SessionsInv, HoldersInv, Signing
    <3> QED
      BY <1>2, <3>1, Zenon DEF Holds, Version
  <2>2. ASSUME NEW g \in Handler, handler'[g].step = "sign" PROVE Current(handler[g])'
    <3>1. g # h /\ handler'[g] = handler[g] /\ Current(handler[g])
      BY <1>4, <1>5, <2>2 DEF SessionsInv, HoldersInv
    <3> QED
      BY <1>2, <3>1 DEF Current, Version, Perms, queries!ListUserPermissions
  <2>3. \A q \in pairs' : Holds(q)' /\ Current(q)'
    <3>1. ASSUME NEW q \in pairs' PROVE Holds(q) /\ Current(q)
      BY <1>1, <1>8, Zenon DEF SessionsInv, HoldersInv
    <3> QED
      BY <1>9, <3>1, Zenon
  <2>4. \A g \in Handler :
            /\ handler'[g].step \in {"idle", "link", "permissions", "sign"}
            /\ handler'[g].step = "link" => handler'[g].user \in User
    BY <1>4, <1>5, Zenon DEF SessionsInv, HoldersInv
  <2> QED
    BY <1>4, <2>1, <2>2, <2>3, <2>4, Zenon DEF HoldersInv
<1>11. SessionsFormAChain'
  <2>1. \A g \in Signing' : \A f \in Signing' \ {g} :
            <<handler'[f].user, handler'[f].version>> # <<handler'[g].user, handler'[g].version>>
    BY <1>4, <1>6 DEF SessionsInv, SessionsFormAChain, Signing
  <2>2. \A g \in Signing', q \in pairs' :
            <<q.user, q.version>> # <<handler'[g].user, handler'[g].version>>
    BY <1>1, <1>3, <1>4, <1>6, <1>7 DEF SessionsInv, SessionsFormAChain, Signing
  <2>3. \A q, r \in pairs' : <<q.user, q.version>> = <<r.user, r.version>> => q = r
    BY <1>1, <1>3, <1>7 DEF SessionsInv, SessionsFormAChain
  <2>4. \A q \in pairs' : q.from # 0 => q.version = q.from + 1
    BY <1>1, <1>8 DEF Holds, SessionsInv, SessionsFormAChain
  <2> QED
    BY <2>1, <2>2, <2>3, <2>4, Zenon DEF SessionsFormAChain
<1> QED
  BY <1>2, <1>10, <1>11, Zenon DEF SessionsInv, TablesInv, ProvidersInv

-------------------------------------------------------------------------------
(* Roles. *)

\* Common to the handlers of roles.go: the versions of some users move on, the
\* other users keep their roles and what these permit.
LEMMA AdministrationPreserves ==
    ASSUME SessionsInv, NEW ids, users' = Bumped(ids), deleting' = {},
           UNCHANGED <<providerVars, drawn, handler, pairs>>,
           userRoles' \subseteq User \X DOMAIN roles',
           \A x \in userRoles' : x[1] \in DOMAIN users,
           granted' \subseteq (DOMAIN roles') \X Permission,
           \A u \in DOMAIN users \ ids : \A x :
               x \in granted /\ <<u, x[1]>> \in userRoles
                   <=> x \in granted' /\ <<u, x[1]>> \in userRoles'
    PROVE  SessionsInv'
<1>1. UNCHANGED <<providerVars, drawn>> /\ UNCHANGED <<handler, pairs>>
  BY Zenon
<1>2. TablesInv' /\ Moved
  BY <1>1, RolesChange DEF SessionsInv
<1>3. HoldersInv' /\ SessionsFormAChain'
  BY <1>1, <1>2, HoldersStay DEF SessionsInv
<1>4. ProvidersInv'
  BY <1>1, ProvidersStay, Zenon DEF providerVars, SessionsInv
<1> QED
  BY <1>2, <1>3, <1>4 DEF SessionsInv

LEMMA roleMutationPreserves ==
    ASSUME SessionsInv, NEW r, NEW perms, roleMutation(r, perms),
           perms \subseteq (DOMAIN roles) \X Permission,
           \A x : x[1] # r => (x \in perms <=> x \in granted)
    PROVE  SessionsInv'
<1> DEFINE ids == {v \in DOMAIN users : <<v, r>> \in userRoles}
<1>1. /\ users' = Bumped(ids) /\ granted' = perms /\ deleting' = {}
      /\ userRoles' = userRoles /\ roles' = roles
      /\ UNCHANGED <<providerVars, drawn, handler, pairs>>
  BY RoleBumps DEF roleMutation, Commit
<1>2. \A u \in DOMAIN users \ ids : \A x :
          x \in granted /\ <<u, x[1]>> \in userRoles
              <=> x \in granted' /\ <<u, x[1]>> \in userRoles'
  BY <1>1, Zenon
<1>3. /\ userRoles' \subseteq User \X DOMAIN roles'
      /\ \A x \in userRoles' : x[1] \in DOMAIN users
      /\ granted' \subseteq (DOMAIN roles') \X Permission
  BY <1>1, Zenon DEF SessionsInv, TablesInv
<1> HIDE DEF ids
<1> QED
  BY <1>1, <1>2, <1>3, AdministrationPreserves, Zenon

LEMMA RoleStepPreserves ==
    ASSUME SessionsInv, RoleStep PROVE SessionsInv'
<1> USE DEF SessionsInv, TablesInv
<1>1. ASSUME NEW r \in Role, RenameRole(r) PROVE SessionsInv'
  BY <1>1, roleMutationPreserves, Zenon DEF RenameRole
<1>2. ASSUME NEW r \in Role, NEW p \in Permission, GrantRolePermission(r, p)
      PROVE  SessionsInv'
  <2> DEFINE perms == queries!GrantRolePermission(granted, roles, r, p)
  <2>1. roleMutation(r, perms)
    BY <1>2 DEF GrantRolePermission
  <2>2. perms = granted \cup {<<s, p>> : s \in {r} \cap DOMAIN roles}
    BY Zenon DEF queries!GrantRolePermission, queries!Get
  <2>3. \A s \in {r} \cap DOMAIN roles : <<s, p>> \in (DOMAIN roles) \X Permission
    OBVIOUS
  <2>4. perms \subseteq (DOMAIN roles) \X Permission
    BY <2>2, <2>3, Zenon
  <2>5. \A x : x[1] # r => (x \in perms <=> x \in granted)
    BY <2>2
  <2> HIDE DEF perms
  <2> QED
    BY <2>1, <2>4, <2>5, roleMutationPreserves
<1>3. ASSUME NEW r \in Role, NEW p \in Permission, RevokeRolePermission(r, p)
      PROVE  SessionsInv'
  <2> DEFINE perms == queries!RevokeRolePermission(granted, r, p)
  <2>1. roleMutation(r, perms)
    BY <1>3 DEF RevokeRolePermission
  <2>2. perms = granted \ {<<r, p>>}
    BY DEF queries!RevokeRolePermission
  <2>3. perms \subseteq (DOMAIN roles) \X Permission
    BY <2>2
  <2>4. \A x : x[1] # r => (x \in perms <=> x \in granted)
    BY <2>2
  <2> QED
    BY <2>1, <2>3, <2>4, roleMutationPreserves, Zenon
<1>4. ASSUME NEW r \in Role, NEW ps \in SUBSET Permission, CreateRole(r, ps)
      PROVE  SessionsInv'
  <2>1. /\ DOMAIN roles' = DOMAIN roles \cup {r} /\ r \notin DOMAIN roles
        /\ granted' = granted \cup ({r} \X ps) /\ userRoles' = userRoles
        /\ users' = users /\ deleting' = {}
        /\ UNCHANGED <<providerVars, drawn, handler, pairs>>
    BY <1>4 DEF CreateRole, Commit, queries!CreateRole, queries!Insert
  <2>2. users' = Bumped({})
    BY <2>1, Zenon DEF Bumped
  <2>3. /\ userRoles' \subseteq User \X DOMAIN roles'
        /\ \A x \in userRoles' : x[1] \in DOMAIN users
        /\ granted' \subseteq (DOMAIN roles') \X Permission
    <3>1. userRoles \subseteq User \X (DOMAIN roles \cup {r})
      OBVIOUS
    <3>2. granted \cup ({r} \X ps) \subseteq (DOMAIN roles \cup {r}) \X Permission
      OBVIOUS
    <3> QED
      BY <2>1, <3>1, <3>2
  <2>4. \A u \in DOMAIN users \ {} : \A x :
            x \in granted /\ <<u, x[1]>> \in userRoles
                <=> x \in granted' /\ <<u, x[1]>> \in userRoles'
    BY <2>1, Zenon
  <2> QED
    BY <2>1, <2>2, <2>3, <2>4, AdministrationPreserves, Zenon
<1>5. ASSUME NEW r \in Role, DeleteRole(r) PROVE SessionsInv'
  <2> DEFINE ids == {v \in DOMAIN users : <<v, r>> \in userRoles}
  <2>1. /\ users' = Bumped(ids) /\ deleting' = {}
        /\ UNCHANGED <<providerVars, drawn, handler, pairs>>
    BY <1>5, RoleBumps, Zenon DEF DeleteRole, Commit
  <2>2. /\ DOMAIN roles' = DOMAIN roles \ {r}
        /\ userRoles' = userRoles \ (User \X {r})
        /\ granted' = granted \ ({r} \X Permission)
    BY <1>5, Zenon DEF DeleteRole, queries!DeleteRole, queries!Delete, queries!Keep
  <2>3. /\ userRoles' \subseteq User \X DOMAIN roles'
        /\ \A x \in userRoles' : x[1] \in DOMAIN users
        /\ granted' \subseteq (DOMAIN roles') \X Permission
    <3>1. userRoles \ (User \X {r}) \subseteq User \X (DOMAIN roles \ {r})
      BY Zenon
    <3>2. granted \ ({r} \X Permission) \subseteq (DOMAIN roles \ {r}) \X Permission
      BY Zenon
    <3> QED
      BY <2>2, <3>1, <3>2, Zenon
  <2>4. \A u \in DOMAIN users \ ids : \A x :
            x \in granted /\ <<u, x[1]>> \in userRoles
                <=> x \in granted' /\ <<u, x[1]>> \in userRoles'
    BY <2>2
  <2> HIDE DEF ids
  <2> QED
    BY <2>1, <2>3, <2>4, AdministrationPreserves, Zenon
<1>6. ASSUME NEW u \in User, NEW r \in Role, AssignRoleToUser(u, r) PROVE SessionsInv'
  <2>1. /\ users' = Bumped({u}) /\ deleting' = {} /\ roles' = roles /\ granted' = granted
        /\ UNCHANGED <<providerVars, drawn, handler, pairs>>
    BY <1>6, RevocationBumps, Zenon DEF AssignRoleToUser, Commit
  <2>2. userRoles' = userRoles \cup (({u} \cap DOMAIN users) \X ({r} \cap DOMAIN roles))
    BY <1>6, Zenon DEF AssignRoleToUser, queries!AssignRoleToUser, queries!Get
  <2>3. /\ userRoles' \subseteq User \X DOMAIN roles'
        /\ \A x \in userRoles' : x[1] \in DOMAIN users
        /\ granted' \subseteq (DOMAIN roles') \X Permission
    BY <2>1, <2>2, Zenon
  <2>4. \A v \in DOMAIN users \ {u} : \A x :
            x \in granted /\ <<v, x[1]>> \in userRoles
                <=> x \in granted' /\ <<v, x[1]>> \in userRoles'
    BY <2>1, <2>2, Zenon
  <2> QED
    BY <2>1, <2>3, <2>4, AdministrationPreserves, Zenon
<1>7. ASSUME NEW u \in User, NEW r \in Role, RevokeRoleFromUser(u, r) PROVE SessionsInv'
  <2>1. /\ users' = Bumped({u}) /\ deleting' = {} /\ roles' = roles /\ granted' = granted
        /\ UNCHANGED <<providerVars, drawn, handler, pairs>>
    BY <1>7, RevocationBumps, Zenon DEF RevokeRoleFromUser, Commit
  <2>2. userRoles' = userRoles \ {<<u, r>>}
    BY <1>7, Zenon DEF RevokeRoleFromUser, queries!RevokeRoleFromUser
  <2>3. /\ userRoles' \subseteq User \X DOMAIN roles'
        /\ \A x \in userRoles' : x[1] \in DOMAIN users
        /\ granted' \subseteq (DOMAIN roles') \X Permission
    BY <2>1, <2>2, Zenon
  <2>4. \A v \in DOMAIN users \ {u} : \A x :
            x \in granted /\ <<v, x[1]>> \in userRoles
                <=> x \in granted' /\ <<v, x[1]>> \in userRoles'
    BY <2>1, <2>2
  <2> QED
    BY <2>1, <2>3, <2>4, AdministrationPreserves, Zenon
<1>8. ASSUME NEW u \in User, RevokeUserSessions(u) PROVE SessionsInv'
  <2>1. /\ users' = Bumped({u}) /\ deleting' = {}
        /\ roles' = roles /\ granted' = granted /\ userRoles' = userRoles
        /\ UNCHANGED <<providerVars, drawn, handler, pairs>>
    BY <1>8, RevocationBumps, Zenon DEF RevokeUserSessions, Commit, roleVars
  <2>2. /\ userRoles' \subseteq User \X DOMAIN roles'
        /\ \A x \in userRoles' : x[1] \in DOMAIN users
        /\ granted' \subseteq (DOMAIN roles') \X Permission
    BY <2>1, Zenon
  <2>3. \A v \in DOMAIN users \ {u} : \A x :
            x \in granted /\ <<v, x[1]>> \in userRoles
                <=> x \in granted' /\ <<v, x[1]>> \in userRoles'
    BY <2>1
  <2> QED
    BY <2>1, <2>2, <2>3, AdministrationPreserves, Zenon
<1> QED
  BY <1>1, <1>2, <1>3, <1>4, <1>5, <1>6, <1>7, <1>8, Zenon DEF RoleStep

-------------------------------------------------------------------------------
(* Identity providers. *)

LEMMA SameCardinality ==
    ASSUME NEW S PROVE queries!Cardinality(S) = Cardinality(S)
BY Zenon DEF queries!Cardinality, Cardinality

\* Steps on the table of providers.
LEMMA ProvidersPreserve ==
    ASSUME SessionsInv, UNCHANGED <<users, roleVars, handler, pairs>>, ProvidersInv',
           drawn \subseteq drawn', \A l \in links' : l \in links,
           \A i \in DOMAIN providers' : i \in DOMAIN providers \/ i \notin drawn,
           \A l \in links : l[1] \in DOMAIN providers' => l \in links'
    PROVE  SessionsInv'
<1>1. UNCHANGED <<handler, pairs>> /\ users' = users /\ UNCHANGED roleVars
  OBVIOUS
<1>2. Moved
  BY <1>1, NothingMoves, Zenon DEF SessionsInv
<1>3. HoldersInv' /\ SessionsFormAChain'
  BY <1>1, <1>2, HoldersStay, Zenon DEF SessionsInv
<1>4. TablesInv'
  <2>1. ASSUME NEW u \in DOMAIN users
        PROVE  /\ ProviderOf[u] \in drawn'
               /\ ProviderOf[u] \in DOMAIN providers' => <<ProviderOf[u], u, u>> \in links'
    BY <2>1, ZenonT(30) DEF SessionsInv, TablesInv
  <2> QED
    BY <1>1, <2>1, Zenon DEF SessionsInv, TablesInv, roleVars
<1> QED
  BY <1>2, <1>3, <1>4 DEF SessionsInv

-------------------------------------------------------------------------------
(* The other steps of handlers. *)

LEMMA linkIdentityPreserves ==
    ASSUME SessionsInv, NEW h \in Handler, linkIdentity(h) PROVE SessionsInv'
<1>1. PICK u : u = handler[h].user
  BY Zenon
<1>2. handler[h].step = "link" /\ UNCHANGED <<roles, granted, providers, drawn, pairs>>
  BY DEF linkIdentity
<1>3. CASE /\ users' = queries!UpdateIdentityUserLogin(users, links, ProviderOf[u], u)
           /\ users' # users /\ deleting' = {}
           /\ handler' = [handler EXCEPT ![h] =
                  [step |-> "permissions", user |-> u,
                   version |-> users'[u].session_version, from |-> 0]]
           /\ UNCHANGED <<userRoles, links>>
  <2>1. UNCHANGED <<roleVars, providerVars, drawn, pairs>>
    BY <1>2, <1>3, Zenon DEF roleVars, providerVars
  <2> QED
    BY <1>1, <1>2, <1>3, <2>1, LoginPreserves, Zenon
<1>4. CASE /\ queries!IdentityUser(links, ProviderOf[u], u) = {}
           /\ ProviderOf[u] \in DOMAIN providers
           /\ users' = queries!CreateUser(users, u) /\ deleting' = {}
           /\ links' = queries!LinkIdentity(links, ProviderOf[u], u, u)
           /\ userRoles' = queries!AssignInitialRole(userRoles, users', roles, u,
                                                     Administrators, Users)
           /\ handler' = [handler EXCEPT ![h] =
                  [step |-> "permissions", user |-> u, version |-> 1, from |-> 0]]
  BY <1>1, <1>2, <1>4, FirstLoginPreserves, Zenon
<1>5. CASE /\ handler' = [handler EXCEPT ![h] = Idle]
           /\ UNCHANGED <<users, userRoles, links, deleting>>
  <2>1. users' = users /\ UNCHANGED roleVars /\ UNCHANGED <<providers, drawn>>
    BY <1>2, <1>5 DEF roleVars
  <2>2. Moved
    BY <2>1, NothingMoves DEF SessionsInv
  <2>3. HoldersInv' /\ SessionsFormAChain'
    BY <1>2, <1>5, <2>2, HandlerMoves, Zenon DEF SessionsInv, Idle
  <2>4. ProvidersInv'
    BY <1>5, <2>1, ProvidersStay, Zenon DEF SessionsInv
  <2>5. TablesInv'
    BY <1>2, <1>5 DEF SessionsInv, TablesInv
  <2> QED
    BY <2>3, <2>4, <2>5 DEF SessionsInv
<1> QED
  BY <1>1, <1>3, <1>4, <1>5 DEF linkIdentity, Commit

LEMMA SSOCallbackPreserves ==
    ASSUME SessionsInv, NEW h \in Handler, NEW u \in User, SSOCallback(h, u)
    PROVE  SessionsInv'
<1>1. PICK x : x = [step |-> "link", user |-> u]
  BY Zenon
<1>2. x.step = "link" /\ x.user \in User
  BY <1>1, Zenon
<1>3. /\ handler' = [handler EXCEPT ![h] = x] /\ UNCHANGED pairs
      /\ users' = users /\ UNCHANGED roleVars /\ UNCHANGED <<providers, drawn>>
      /\ links' = links /\ deleting' = deleting
  BY <1>1 DEF SSOCallback, providerVars
<1>4. Moved
  BY <1>3, NothingMoves DEF SessionsInv
<1>5. HoldersInv' /\ SessionsFormAChain'
  BY <1>2, <1>3, <1>4, HandlerMoves, Zenon DEF SessionsInv
<1>6. ProvidersInv'
  BY <1>3, ProvidersStay, Zenon DEF SessionsInv
<1>7. TablesInv'
  BY <1>3 DEF SessionsInv, TablesInv, roleVars
<1> QED
  BY <1>5, <1>6, <1>7 DEF SessionsInv

LEMMA LogoutPreserves ==
    ASSUME SessionsInv, NEW pair \in pairs, Logout(pair) PROVE SessionsInv'
<1> DEFINE ids == {v \in {pair.user} \cap DOMAIN users : Version(v) = pair.version}
<1>1. /\ users' = Bumped(ids) /\ deleting' = {} /\ UNCHANGED <<handler, pairs>>
      /\ UNCHANGED <<roleVars, providerVars, drawn>> /\ UNCHANGED <<providers, drawn>>
  BY RotateBumps DEF Logout, Commit, providerVars
<1> HIDE DEF ids
<1>2. TablesInv' /\ Moved
  BY <1>1, VersionsChange DEF SessionsInv
<1>3. HoldersInv' /\ SessionsFormAChain'
  BY <1>1, <1>2, HoldersStay, Zenon DEF SessionsInv
<1>4. ProvidersInv'
  BY <1>1, ProvidersStay DEF SessionsInv
<1> QED
  BY <1>2, <1>3, <1>4, Zenon DEF SessionsInv

\* What GetCurrentUser and GetRole answer agrees with the table of permissions.
LEMMA AnswersAgree ==
    ASSUME TablesInv, NEW u \in DOMAIN users
    PROVE  /\ GetCurrentUser(u) = {userProto(u)}
           /\ userProto(u).permissions = Perms(u)
           /\ Perms(u) = UNION {role.permissions : role \in userProto(u).roles}
           /\ \A role \in userProto(u).roles : GetRole(role.id) = {role}
<1>1. GetCurrentUser(u) = {userProto(u)}
  BY Zenon DEF GetCurrentUser, queries!GetUser, queries!Get
<1>2. userProto(u).permissions = Perms(u)
  BY Zenon DEF userProto, Perms
<1> DEFINE mine == queries!ListUserRoles(userRoles, roles, u)
<1>3. userProto(u).roles = {roleProto(r) : r \in mine}
  BY DEF userProto
<1>4. mine \subseteq DOMAIN roles
  BY DEF queries!ListUserRoles
<1>5. \A r : roleProto(r).id = r /\ roleProto(r).permissions = queries!ListRolePermissions(granted, r)
  BY DEF roleProto
<1>6. \A r \in DOMAIN roles : GetRole(r) = {roleProto(r)}
  BY DEF GetRole, queries!GetRole, queries!Get
<1>7. Perms(u) = UNION {role.permissions : role \in {roleProto(r) : r \in mine}}
  <2>1. \A p : p \in Perms(u) <=> \E g \in granted : <<u, g[1]>> \in userRoles /\ p = g[2]
    BY Zenon DEF Perms, queries!ListUserPermissions
  <2>2. \A r, p : p \in queries!ListRolePermissions(granted, r)
                    <=> \E g \in granted : g[1] = r /\ p = g[2]
    BY Zenon DEF queries!ListRolePermissions
  <2>3. \A g \in granted : <<u, g[1]>> \in userRoles <=> g[1] \in mine
    BY Zenon DEF TablesInv, queries!ListUserRoles
  <2>4. \A p : p \in UNION {role.permissions : role \in {roleProto(r) : r \in mine}}
               <=> \E r \in mine : p \in roleProto(r).permissions
    BY Zenon
  <2> HIDE DEF mine
  <2>5. \A p : p \in UNION {role.permissions : role \in {roleProto(r) : r \in mine}}
               <=> \E g \in granted : g[1] \in mine /\ p = g[2]
    BY <1>5, <2>2, <2>4
  <2> QED
    BY <2>1, <2>3, <2>5, Zenon
<1> HIDE DEF mine
<1> QED
  BY <1>1, <1>2, <1>3, <1>4, <1>5, <1>6, <1>7

-------------------------------------------------------------------------------
(* The steps that count the identity providers, and the theorems. *)

INSTANCE FiniteSetTheorems

LEMMA ProviderStepPreserves ==
    ASSUME SessionsInv, ProviderStep PROVE SessionsInv'
<1> USE DEF SessionsInv, ProvidersInv
<1> PICK i \in Provider :
        \/ CreateIdentityProvider(i) \/ ConfigureIdentityProvider(i)
        \/ EnableIdentityProvider(i) \/ DisableIdentityProvider(i)
        \/ CountIdentityProviders(i) \/ DeleteIdentityProvider(i)
  BY Zenon DEF ProviderStep
<1>1. CASE CreateIdentityProvider(i)
  <2>1. /\ UNCHANGED <<users, roleVars, handler, pairs>> /\ links' = links
        /\ drawn' = drawn \cup {i} /\ deleting' = {} /\ i \notin drawn
        /\ DOMAIN providers' = DOMAIN providers \cup {i}
    BY <1>1, Zenon DEF CreateIdentityProvider, Commit, queries!CreateIdentityProvider,
       queries!Insert
  <2>2. IsFiniteSet(DOMAIN providers')
    BY <2>1, FS_AddElement, Zenon
  <2> QED
    BY <2>1, <2>2, ProvidersPreserve, Zenon
<1>2. CASE ConfigureIdentityProvider(i) \/ EnableIdentityProvider(i) \/ DisableIdentityProvider(i)
  <2>1. /\ UNCHANGED <<users, roleVars, handler, pairs>> /\ links' = links
        /\ drawn' = drawn /\ deleting' = {} /\ DOMAIN providers' = DOMAIN providers
    BY <1>2, Zenon DEF ConfigureIdentityProvider, EnableIdentityProvider,
       DisableIdentityProvider, Commit, queries!ConfigureIdentityProvider,
       queries!EnableIdentityProvider,
       queries!DisableIdentityProvider, queries!Update
  <2> QED
    BY <2>1, ProvidersPreserve, Zenon
<1>3. CASE CountIdentityProviders(i)
  <2>1. /\ UNCHANGED <<users, roleVars, handler, pairs>> /\ links' = links
        /\ drawn' = drawn /\ providers' = providers
        /\ Cardinality(DOMAIN providers) > 1
    BY <1>3, SameCardinality, Zenon
    DEF CountIdentityProviders, queries!CountIdentityProviders, providerVars
  <2> QED
    BY <2>1, ProvidersPreserve, Zenon
<1>4. CASE DeleteIdentityProvider(i)
  <2>1. /\ UNCHANGED <<users, roleVars, handler, pairs>>
        /\ links' = {l \in links : l[1] # i} /\ i \in deleting
        /\ drawn' = drawn /\ deleting' = {} /\ DOMAIN providers' = DOMAIN providers \ {i}
    BY <1>4, ZenonT(30) DEF DeleteIdentityProvider, Commit, queries!DeleteIdentityProvider,
                queries!Delete, queries!Keep
  <2>2. DOMAIN providers \ {i} # {}
    <3> SUFFICES ASSUME DOMAIN providers \ {i} = {} PROVE FALSE
      OBVIOUS
    <3>1. DOMAIN providers = {i}
      BY Zenon
    <3>2. Cardinality(DOMAIN providers) = 1
      BY <3>1, FS_Singleton, Zenon
    <3> QED
      BY <2>1, <3>2
  <2>3. IsFiniteSet(DOMAIN providers \ {i})
    BY FS_RemoveElement, Zenon
  <2> QED
    BY <2>1, <2>2, <2>3, ProvidersPreserve, Zenon
<1> QED
  BY <1>1, <1>2, <1>3, <1>4

\* A started server finds a provider and creates none.
LEMMA RestartPreserves ==
    ASSUME SessionsInv, Restart PROVE SessionsInv'
<1>1. Cardinality(DOMAIN providers) \in Nat \ {0}
  BY FS_CardinalityType, FS_EmptySet DEF SessionsInv, ProvidersInv
<1>2. providers' = providers
  BY <1>1, SameCardinality
  DEF Restart, EnsureBootstrapProvider, queries!CountIdentityProviders
<1>3. /\ handler' = [h \in Handler |-> Idle] /\ deleting' = {} /\ users' = users
      /\ UNCHANGED roleVars /\ links' = links /\ drawn' = drawn /\ pairs' = pairs
  BY Zenon DEF Restart
<1>4. TablesInv'
  BY <1>2, <1>3 DEF SessionsInv, TablesInv, roleVars
<1>5. ProvidersInv'
  BY <1>2, <1>3, ProvidersStay DEF SessionsInv
<1>6. Moved
  BY <1>3, NothingMoves, Zenon DEF SessionsInv
<1>7. \A p \in pairs : Holds(p)' /\ Current(p)'
  BY <1>6, HoldsStays DEF SessionsInv, HoldersInv
<1>8. \A h \in Handler : handler'[h].step = "idle"
  BY <1>3, Zenon DEF Idle
<1>9. HoldersInv'
  BY <1>3, <1>7, <1>8, ZenonT(30) DEF HoldersInv, Signing
<1>10. SessionsFormAChain'
  BY <1>3, <1>8 DEF SessionsInv, SessionsFormAChain, Signing
<1> QED
  BY <1>4, <1>5, <1>9, <1>10 DEF SessionsInv

LEMMA InitEstablishes ==
    ASSUME Init PROVE SessionsInv
<1>1. providers = EnsureBootstrapProvider(<<>>) /\ drawn = {Bootstrap} /\ deleting = {}
  BY DEF Init
<1>2. DOMAIN << >> = {} /\ Cardinality({}) = 0
  BY FS_EmptySet
<1>3. DOMAIN providers = {Bootstrap}
  BY <1>1, <1>2, SameCardinality
  DEF EnsureBootstrapProvider, queries!CountIdentityProviders,
      queries!CreateIdentityProvider, queries!Insert
<1>4. ProvidersInv
  BY <1>1, <1>3, FS_Singleton, Zenon DEF ProvidersInv
<1>5. TablesInv
  <2>1. /\ users = <<>> /\ userRoles = {} /\ links = {}
        /\ DOMAIN roles = {Administrators, Users}
        /\ granted = ({Administrators} \X Permission) \cup ({Users} \X UsersPermission)
    BY DEF Init
  <2>2. granted \subseteq (DOMAIN roles) \X Permission
    BY <2>1, SessionsAssumption
  <2>3. users \in [DOMAIN users -> Row] /\ DOMAIN users = {}
    BY <2>1
  <2> QED
    BY <2>1, <2>2, <2>3 DEF TablesInv
<1>6. \A h \in Handler : handler[h].step = "idle"
  BY Zenon DEF Init, Idle
<1>7. HoldersInv /\ SessionsFormAChain
  BY <1>6 DEF Init, HoldersInv, SessionsFormAChain, Signing
<1> QED
  BY <1>4, <1>5, <1>7, Zenon DEF SessionsInv

\* The invariant that the theorems below follow from.
THEOREM SessionsInvariant == Spec => []SessionsInv
<1>1. ASSUME SessionsInv, [Next]_vars PROVE SessionsInv'
  <2>1. CASE SessionStep
    BY <1>1, <2>1, SSOCallbackPreserves, RefreshPreserves, linkIdentityPreserves,
       ReadPreserves, SignPreserves, LogoutPreserves, RestartPreserves DEF SessionStep
  <2>2. CASE RoleStep
    BY <1>1, <2>2, RoleStepPreserves
  <2>3. CASE ProviderStep
    BY <1>1, <2>3, ProviderStepPreserves, Zenon
  <2>4. CASE UNCHANGED vars
    <3>1. /\ UNCHANGED <<users, roleVars, handler, pairs>> /\ UNCHANGED <<providers, drawn>>
          /\ links' = links /\ deleting' = deleting
      BY <2>4 DEF vars, providerVars
    <3>2. ProvidersInv'
      BY <1>1, <3>1, ProvidersStay DEF SessionsInv
    <3> QED
      BY <1>1, <3>1, <3>2, ProvidersPreserve
  <2> QED
    BY <1>1, <2>1, <2>2, <2>3, <2>4 DEF Next
<1> QED
  BY <1>1, InitEstablishes, PTL DEF Spec

\* Logins, refreshes and logouts (auth.go), however many run at once, give
\* every session version to one holder and continue it only from the one before.
THEOREM SessionsAlwaysFormAChain == Spec => []SessionsFormAChain
<1>1. SessionsInv => SessionsFormAChain
  BY DEF SessionsInv
<1> QED
  BY <1>1, SessionsInvariant, PTL

\* DeleteIdentityProvider (auth.go) never leaves the table without a provider.
THEOREM AProviderRemains == Spec => []ProviderRemains
<1>1. SessionsInv => ProviderRemains
  BY Zenon DEF SessionsInv, ProvidersInv, ProviderRemains
<1> QED
  BY <1>1, SessionsInvariant, PTL

\* Whatever administrators do between the steps of a login or a refresh, a
\* refresh token that still works has an access token beside it (GenerateTokens,
\* jwt.go) that carries what GetCurrentUser and GetRole show.
THEOREM LivePairIsCurrent == Spec => []LivePairHasCurrentPermissions
<1>1. SessionsInv => LivePairHasCurrentPermissions
  <2> SUFFICES ASSUME SessionsInv, NEW pair \in pairs,
                      pair.version = users[pair.user].session_version
               PROVE  \E user \in GetCurrentUser(pair.user) :
                         /\ pair.permissions = user.permissions
                         /\ pair.permissions = UNION {role.permissions : role \in user.roles}
                         /\ \A role \in user.roles : GetRole(role.id) = {role}
    BY Zenon DEF LivePairHasCurrentPermissions
  <2>1. pair.user \in DOMAIN users /\ pair.permissions = Perms(pair.user)
    BY DEF SessionsInv, HoldersInv, Holds, Current, Version
  <2> QED
    BY <2>1, AnswersAgree, Zenon DEF SessionsInv
<1> QED
  BY <1>1, SessionsInvariant, PTL

===============================================================================
