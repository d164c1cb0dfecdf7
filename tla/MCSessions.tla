------------------------------ MODULE MCSessions ------------------------------
(***************************************************************************)
(* Sessions with two users, each of a provider of their own.  A behaviour  *)
(* has every step but short histories, or longer ones while the providers  *)
(* stay as they are: "part" says which.                                    *)
(***************************************************************************)
EXTENDS Sessions, TLC

CONSTANTS u1, u2, i1, i2, adm, usr, perm, h1, h2

VARIABLE part

UserProviders == (u1 :> i1) @@ (u2 :> i2)
\* One user's sessions are replaced twice, the other's once.
Versions == (u1 :> 3) @@ (u2 :> 2)
HandlerSymmetry == Permutations({h1, h2})

\* In a short history one user's session is replaced once, the other's never.
Short == \A u \in DOMAIN users : users[u].session_version < Versions[u]

MCInit == Init /\ part \in {"all", "roles"}

AllNext == part = "all" /\ Next /\ Short' /\ UNCHANGED part

RolesNext ==
    /\ part = "roles"
    /\ SessionStep \/ RoleStep \/ \E i \in Provider : CreateIdentityProvider(i)
    /\ UNCHANGED part

MCSpec == MCInit /\ [][AllNext \/ RolesNext]_<<vars, part>>

===============================================================================
