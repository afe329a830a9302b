-------------------------- MODULE MCAccessControl --------------------------
(***************************************************************************)
(* Three roles in a chain: an editor inherits from a viewer, an admin may  *)
(* be saved that inherits from both.  Users hold one role or two.          *)
(***************************************************************************)
EXTENDS AccessControl

CONSTANTS viewer, editor, admin, read, write

MCRole(perms, parents) == [perms |-> perms, parents |-> parents]

MCDefaultRoles ==
    [r \in Role |-> CASE r = viewer -> MCRole({read}, <<>>)
                      [] r = editor -> MCRole({write}, <<viewer>>)
                      [] OTHER -> Absent]

MCRoleDef == {MCRole({read}, <<>>), MCRole({write}, <<viewer>>), MCRole({}, <<editor, viewer>>)}

MCUserRoles == {<<viewer>>, <<editor>>, <<viewer, editor>>}

ChecksSpec == RbacInit /\ PolicyInit /\ [][RbacNext /\ UNCHANGED policyVars]_<<rbacVars, policyVars>>
=============================================================================
