-------------------------------- MODULE Access --------------------------------
(***************************************************************************)
(* What a caller of the control plane may call: the procedures of the      *)
(* service and their routes (contract, cmd/cadestro/main.go), the          *)
(* permission of each (server/internal/auth/interceptor.go) and the        *)
(* permissions there are.  A permission is named like the procedure that   *)
(* it is for; a few are for several.                                       *)
(***************************************************************************)

\* The procedures of ControlService, by the part of the console they serve.
Procedure ==
    {"RefreshToken", "Logout", "GetCurrentUser", "ListAuthMethods", "GetSSOLoginURL",
     "SSOCallback", "CreateIdentityProvider", "GetIdentityProvider",
     "ListIdentityProviders", "RenameIdentityProvider", "ConfigureIdentityProvider",
     "EnableIdentityProvider", "DisableIdentityProvider", "DeleteIdentityProvider",
     "Register", "RenewCertificate", "ListDevices", "GetDevice", "DeleteDevice",
     "CreateToken", "ListTokens", "RenameToken", "DeleteToken", "CreateAction",
     "GetAction", "ListActions", "RenameAction", "SetActionDescription",
     "ConfigureAction", "DeleteAction", "CreateDeviceGroup", "GetDeviceGroup",
     "ListDeviceGroups", "ListDeviceGroupsForDevice", "RenameDeviceGroup",
     "SetDeviceGroupDescription", "DeleteDeviceGroup", "AddDeviceToGroup",
     "RemoveDeviceFromGroup", "CreateAssignment", "DeleteAssignment",
     "ListAssignments", "GetDeviceAssignments", "GetDeviceCompliance",
     "ListExecutionResults", "ListAuditEvents", "CreateRole", "GetRole", "ListRoles",
     "RenameRole", "SetRoleDescription", "GrantRolePermission",
     "RevokeRolePermission", "DeleteRole", "AssignRoleToUser", "RevokeRoleFromUser",
     "ListPermissions", "ListUsers", "RevokeUserSessions"}

\* The mux: any other path is not found.
ControlServiceHandler(path) == path \in Procedure

\* The public listener has every procedure, behind the interceptor; the agents'
\* has the stream and the renewal, behind the client certificate.
buildServers ==
    [public |-> {p \in Procedure : ControlServiceHandler(p)},
     agent |-> {"Stream", "RenewCertificate"}]

publicProcedure(p) ==
    p \in {"RefreshToken", "Logout", "ListAuthMethods", "GetSSOLoginURL", "SSOCallback",
           "Register", "RenewCertificate"}

\* The permission enumeration of the contract, without UNSPECIFIED.
Permission ==
    {"GetCurrentUser", "CreateIdentityProvider", "GetIdentityProvider",
     "ListIdentityProviders", "UpdateIdentityProvider", "DeleteIdentityProvider",
     "ListDevices", "GetDevice", "DeleteDevice", "CreateToken", "ListTokens",
     "RenameToken", "DeleteToken", "CreateAction", "GetAction", "ListActions",
     "RenameAction", "SetActionDescription", "ConfigureAction", "DeleteAction",
     "CreateDeviceGroup", "GetDeviceGroup", "ListDeviceGroups",
     "ListDeviceGroupsForDevice", "RenameDeviceGroup", "SetDeviceGroupDescription",
     "DeleteDeviceGroup", "AddDeviceToGroup", "RemoveDeviceFromGroup",
     "CreateAssignment", "DeleteAssignment", "ListAssignments", "GetDeviceAssignments",
     "GetDeviceCompliance", "ListExecutionResults", "ListAuditEvents", "CreateRole",
     "GetRole", "ListRoles", "UpdateRole", "DeleteRole", "AssignRoleToUser",
     "RevokeRoleFromUser", "ListPermissions", "ListUsers", "RevokeUserSessions"}

Unspecified == "Unspecified"

\* The switch of PermissionForProcedure.
PermissionForProcedure(p) ==
    CASE p \in {"RenameIdentityProvider", "ConfigureIdentityProvider",
                "EnableIdentityProvider", "DisableIdentityProvider"}
              -> "UpdateIdentityProvider"
      [] p \in {"RenameRole", "SetRoleDescription", "GrantRolePermission",
                "RevokeRolePermission"} -> "UpdateRole"
      [] p \in Permission \ {"UpdateIdentityProvider", "UpdateRole"} -> p
      [] OTHER -> Unspecified

allPermissions == Permission

\* No permission is granted by the default branch.
userHasPermission(permissions, p) ==
    /\ PermissionForProcedure(p) # Unspecified
    /\ PermissionForProcedure(p) \in permissions

\* The tables agree: a procedure that is not public has a permission, which
\* the administrators' role holds; every permission is for some procedure; and
\* what the agents' listener shares with the public one is let through there,
\* where its own handler asks for the certificate.
ASSUME EveryProcedureIsGoverned ==
    /\ \A p \in buildServers.public :
          publicProcedure(p) <=> PermissionForProcedure(p) = Unspecified
    /\ \A p \in Procedure : publicProcedure(p) \/ userHasPermission(allPermissions, p)
    /\ \A q \in Permission : \E p \in Procedure : PermissionForProcedure(p) = q
    /\ \A p \in buildServers.agent \cap buildServers.public : publicProcedure(p)

===============================================================================
