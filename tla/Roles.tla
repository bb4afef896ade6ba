--------------------------------- MODULE Roles ---------------------------------
(***************************************************************************)
(* Roles, permissions and the rules that keep an operator from becoming    *)
(* more than one (internal/auth/permission.go, escalation.go, the role and *)
(* account parts of store.go, admin/handlers_rbac.go and the account       *)
(* screens of admin/handlers.go).                                          *)
(*                                                                         *)
(* A request loads its caller's permissions, judges the rules R1 to R6 on  *)
(* what it reads, and then writes, in another statement: between the two   *)
(* other requests write.  What was judged is in its record of `asked`.       *)
(* There is no operation that takes a role or a permission away.           *)
(***************************************************************************)
EXTENDS Integers, FiniteSets

CONSTANTS
    Users,
    Calls,          \* bound: requests in flight
    Roles, Everyones,  \* all roles; the two each logged-in request carries (anonymous, member)
    Superuser,      \* the role with is_superuser
    Permissions, Scoped,   \* permission keys; those with is_scoped
    Scopes, Global, \* boards and theme screens; no scope at all
    Founders,       \* users the installation starts with
    FirstRoles,     \* their roles
    FirstGrants,    \* the rows of role_permissions the installation starts with
    Assignments,    \* pairs <<user, role>> an administrator enters
    Grants          \* triples <<role, permission, scope>> an administrator enters

Triples == Roles \X Permissions \X (Scopes \cup {Global})

ASSUME RolesAssumption ==
    /\ Superuser \in Roles \ Everyones /\ Everyones \subseteq Roles
    /\ Global \notin Scopes /\ Scoped \subseteq Permissions
    /\ Founders \subseteq Users
    /\ FirstRoles \in [Users -> SUBSET (Roles \ Everyones)]
    /\ \A u \in Users \ Founders : FirstRoles[u] = {}
    /\ \E u \in Founders : Superuser \in FirstRoles[u]
    /\ FirstGrants \subseteq Triples /\ Grants \subseteq Triples
    /\ Assignments \subseteq Users \X Roles

VARIABLES
    state,     \* users: not there, active, inactive, deleted
    roles,     \* user_roles
    grants,    \* role_permissions
    asked,     \* requests in flight
    endowed,   \* history: what non-superusers held at first, and what superusers gave since
    crowned    \* history: users a superuser, or the installation, made superusers

rolesVars == <<state, roles, grants, asked, endowed, crowned>>

Idle == [op |-> "idle"]
Rights == Permissions \X (Scopes \cup {Global})
Call ==
    {Idle}
    \cup [op : {"assign"}, bySuper : BOOLEAN, target : Users, role : Roles]
    \cup [op : {"grant"}, bySuper : BOOLEAN, grant : Triples]
    \cup [op : {"deactivate", "activate", "delete"}, target : Users]
    \cup [op : {"deactivating", "deleting"}, target : Users]

RolesTypeOK ==
    /\ state \in [Users -> {"new", "active", "inactive", "deleted"}]
    /\ roles \in [Users -> SUBSET (Roles \ Everyones)]
    /\ \A u \in Users : state[u] \in {"new", "deleted"} => roles[u] = {}
    /\ grants \subseteq Triples
    /\ asked \in [Calls -> Call]
    /\ endowed \subseteq Rights /\ crowned \subseteq Users

-----------------------------------------------------------------------------
(* Judgements.  Definitions commented "Mutant" are used by no other: each is *)
(* a plausible bug of the one that follows it.                               *)

EffectiveRoles(u) == Everyones \cup roles[u]
isSuperuser(u)    == Superuser \in roles[u]
\* LoadPermissions and CanOn: a superuser may do everything, a global grant
\* answers for every scope, nothing implies anything else.
CanOn(u, p, s) ==
    \/ isSuperuser(u)
    \/ \E r \in EffectiveRoles(u) : <<r, p, Global>> \in grants \/ <<r, p, s>> \in grants
Can(u, p) == CanOn(u, p, Global)
\* What a role gives, what a user holds who is no superuser, and the keys of a
\* role's permissions, whatever their scope.
LoadRolePermissions(r) == {h \in Rights : <<r, h[1], h[2]>> \in grants}
Held(u) == UNION {LoadRolePermissions(r) : r \in EffectiveRoles(u)}
RoleByKey(r) == {h[1] : h \in LoadRolePermissions(r)}
HoldsSuperuser(u) == Superuser \in roles[u]
PermissionIsScoped(p) == p \in Scoped

\* R1, R3, R2.
\* Mutant: R2 compares nothing.
CanAssignRoleAny(u, target, role) ==
    /\ u # target
    /\ role = Superuser => isSuperuser(u)
CanAssignRole(u, target, role) ==
    /\ u # target
    /\ role = Superuser => isSuperuser(u)
    /\ \A p \in RoleByKey(role) : Can(u, p)
\* R5, R4.
CanAddPermissionToRole(u, role, p) == role # Superuser /\ Can(u, p)
\* R6.
CanOperateOnAccount(u, target) == HoldsSuperuser(target) => isSuperuser(u)
ValidateGrantScope(p, s) == s # Global => PermissionIsScoped(p)

Exists(u) == state[u] \in {"active", "inactive"}
Ask(r, what) == asked' = [asked EXCEPT ![r] = what]
Ended(r) == Ask(r, Idle)

RolesInit ==
    /\ state = [u \in Users |-> IF u \in Founders THEN "active" ELSE "new"]
    /\ roles = FirstRoles
    /\ grants = FirstGrants
    /\ asked = [r \in Calls |-> Idle]
    /\ endowed = (UNION {Held(u) : u \in {v \in Founders : ~isSuperuser(v)}})
                 \cup (UNION {LoadRolePermissions(e) : e \in Everyones})
    /\ crowned = {u \in Founders : isSuperuser(u)}

\* The caller of a request: logged in, active, holding the handler's permission.
require(r, u, p) == asked[r] = Idle /\ state[u] = "active" /\ Can(u, p)

-----------------------------------------------------------------------------
(* Roles: A-405, A-404                                                       *)

RoleAssign(r, u, target, role) ==
    /\ require(r, u, "role.assign")
    /\ CanAssignRole(u, target, role)
    /\ Ask(r, [op |-> "assign", bySuper |-> isSuperuser(u), target |-> target, role |-> role])
    /\ UNCHANGED <<state, roles, grants, endowed, crowned>>

\* INSERT ... WHERE r.is_assignable; the user must still be there.
AssignRole(target, role) ==
    roles' = [roles EXCEPT ![target] =
                IF Exists(target) /\ role \notin Everyones THEN @ \cup {role} ELSE @]
RoleAssigned(r) ==
    /\ asked[r].op = "assign"
    /\ AssignRole(asked[r].target, asked[r].role)
    /\ Ended(r)
    /\ IF asked[r].bySuper
       THEN /\ endowed' = endowed \cup LoadRolePermissions(asked[r].role)
            /\ crowned' = IF asked[r].role = Superuser THEN crowned \cup {asked[r].target} ELSE crowned
       ELSE UNCHANGED <<endowed, crowned>>
    /\ UNCHANGED <<state, grants>>

RoleGrantPermission(r, u, g) ==
    /\ require(r, u, "role.manage")
    /\ CanAddPermissionToRole(u, g[1], g[2])
    /\ ValidateGrantScope(g[2], g[3])
    /\ Ask(r, [op |-> "grant", bySuper |-> isSuperuser(u), grant |-> g])
    /\ UNCHANGED <<state, roles, grants, endowed, crowned>>

GrantPermission(g) == grants' = grants \cup {g}
RoleGranted(r) ==
    LET g == asked[r].grant
    IN  /\ asked[r].op = "grant"
        /\ GrantPermission(g)
        /\ Ended(r)
        /\ endowed' = IF asked[r].bySuper THEN endowed \cup {<<g[2], g[3]>>} ELSE endowed
        /\ UNCHANGED <<state, roles, crowned>>

-----------------------------------------------------------------------------
(* Accounts: A-401, A-402, P-103, P-110                                      *)

CreateUser(u) ==
    /\ state[u] = "new"
    /\ state' = [state EXCEPT ![u] = "active"]
    /\ UNCHANGED <<roles, grants, asked, endowed, crowned>>

\* The gate of the account screens: not oneself, R6.
guardAccountOp(r, u, target, op, p) ==
    /\ require(r, u, p)
    /\ u # target /\ CanOperateOnAccount(u, target)
    /\ Ask(r, [op |-> op, target |-> target])
    /\ UNCHANGED <<state, roles, grants, endowed, crowned>>
UserDeactivate(r, u, target) == guardAccountOp(r, u, target, "deactivate", "user.update")
UserActivate(r, u, target)   == guardAccountOp(r, u, target, "activate", "user.update")
UserDelete(r, u, target)     == guardAccountOp(r, u, target, "delete", "user.delete")
\* Leaving needs no permission, and asks nobody but the owner.
deleteAccount(r, u) ==
    /\ asked[r] = Idle /\ state[u] = "active"
    /\ Ask(r, [op |-> "deactivate", target |-> u])
    /\ UNCHANGED <<state, roles, grants, endowed, crowned>>

\* SELECT ... WHERE is_superuser AND is_active FOR UPDATE: a second transaction
\* waits for the first and then reads what it left.
\* Mutant: the rows are read without the lock.
HoldersUnlockedAlways == Calls # {}
HoldersUnlocked == \A r \in Calls : asked[r].op \notin {"deactivating", "deleting"}
LockSuperuserHolders == {u \in Users : state[u] = "active" /\ isSuperuser(u)}
withLastSuperuserGuard(r) ==
    /\ asked[r].op \in {"deactivate", "delete"}
    /\ HoldersUnlocked
    /\ IF LockSuperuserHolders = {asked[r].target} THEN Ended(r)   \* ErrLastSuperuser
       ELSE asked' = [asked EXCEPT ![r].op = IF @ = "delete" THEN "deleting" ELSE "deactivating"]
    /\ UNCHANGED <<state, roles, grants, endowed, crowned>>

DeactivateUser(r) ==
    LET u == asked[r].target
    IN  /\ asked[r].op = "deactivating"
        /\ state' = IF Exists(u) THEN [state EXCEPT ![u] = "inactive"] ELSE state
        /\ Ended(r)
        /\ UNCHANGED <<roles, grants, endowed, crowned>>
\* The roles go with the row.
DeleteUserRow(u) ==
    /\ state' = [state EXCEPT ![u] = "deleted"]
    /\ roles' = [roles EXCEPT ![u] = {}]
DeleteUser(r) ==
    /\ asked[r].op = "deleting" /\ Exists(asked[r].target)
    /\ DeleteUserRow(asked[r].target)
    /\ Ended(r)
    /\ UNCHANGED <<grants, endowed, crowned>>
\* ErrUserInUse, ErrNoUser, or the request was cut short.
RolledBack(r) ==
    /\ asked[r] # Idle
    /\ Ended(r)
    /\ UNCHANGED <<state, roles, grants, endowed, crowned>>
ActivateUser(r) ==
    LET u == asked[r].target
    IN  /\ asked[r].op = "activate"
        /\ state' = IF Exists(u) THEN [state EXCEPT ![u] = "active"] ELSE state
        /\ Ended(r)
        /\ UNCHANGED <<roles, grants, endowed, crowned>>

-----------------------------------------------------------------------------
RolesNext ==
    \/ \E u \in Users : CreateUser(u)
    \/ \E r \in Calls :
          \/ \E u \in Users :
                \/ deleteAccount(r, u)
                \/ \E a \in Assignments : RoleAssign(r, u, a[1], a[2])
                \/ \E g \in Grants : RoleGrantPermission(r, u, g)
                \/ \E target \in Users :
                      \/ UserDeactivate(r, u, target)
                      \/ UserActivate(r, u, target)
                      \/ UserDelete(r, u, target)
          \/ RoleAssigned(r) \/ RoleGranted(r)
          \/ withLastSuperuserGuard(r)
          \/ DeactivateUser(r) \/ DeleteUser(r) \/ ActivateUser(r)
          \/ RolledBack(r)

RolesSpec == RolesInit /\ [][RolesNext]_rolesVars

-----------------------------------------------------------------------------
(* What must hold                                                            *)

\* Somebody can always let the others back in: an active superuser remains,
\* however many leave, deactivate and delete each other at the same time
\* (store.go:266-273, D15 5.2).
SuperuserRemains ==
    /\ RolesTypeOK
    /\ \E u \in Users : state[u] = "active" /\ isSuperuser(u)

\* Operators together never come to hold more than they held at first and what
\* a superuser gave since, and only a superuser makes another one (escalation.go,
\* D15 5.1: "can the caller end up with more power than they started with?").
NoEscalation ==
    /\ \A u \in Users : isSuperuser(u) => u \in crowned
    /\ \A u \in Users : Exists(u) /\ ~isSuperuser(u) =>
          \A h \in Held(u) : h \in endowed \/ <<h[1], Global>> \in endowed
================================================================================
