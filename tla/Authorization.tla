---------------------------- MODULE Authorization ----------------------------
(***************************************************************************)
(* AuthorizationService: what a set of active role assignments lets a user *)
(* do.  "held" is the result of rolesFor, a set of records                 *)
(* [user, role, inst]; inst is NoInst for a role that is not tied to an    *)
(* institution, as is an institution argument the caller leaves out.       *)
(***************************************************************************)
CONSTANTS NoInst, NoUser

HasRole(held, u, roles, inst) ==
    /\ u # NoUser
    /\ \E a \in held :
          /\ a.user = u /\ a.role \in roles
          /\ inst = NoInst \/ a.inst = NoInst \/ a.inst = inst

IsSystemAdmin(held, u) == HasRole(held, u, {"system_admin"}, NoInst)

CanManageInstitution(held, u, inst) ==
    HasRole(held, u, {"system_admin", "institution_admin"}, inst)

CanDeposit(held, u, inst) ==
    HasRole(held, u, {"system_admin", "institution_admin", "depositor", "cataloger"}, inst)

CanCatalog(held, u, inst) ==
    HasRole(held, u, {"system_admin", "institution_admin", "cataloger"}, inst)

CanReview(held, u, inst) ==
    HasRole(held, u, {"system_admin", "institution_admin", "reviewer"}, inst)

CanApprove(held, u, inst) ==
    HasRole(held, u, {"system_admin", "institution_admin"}, inst)

CanAdministerSovereign(held, u) ==
    HasRole(held, u, {"system_admin", "sovereignty_custodian"}, NoInst)

=============================================================================
