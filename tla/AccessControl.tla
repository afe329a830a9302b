--------------------------- MODULE AccessControl ---------------------------
(***************************************************************************)
(* internal/rbac: the engine's permission checks over a CachedStorage,     *)
(* while roles are saved and deleted, and the Policy with its cycle check. *)
(*                                                                         *)
(* A check walks a user's roles and their parents with one set `seen`,     *)
(* stopping at every storage read; it fills two caches on its way: the     *)
(* storage's, per role and with a time to live, and the engine's, with the *)
(* permissions a role has including inherited ones.                        *)
(***************************************************************************)
EXTENDS Integers, Sequences, SequencesExt

CONSTANTS
    Role, Permission,
    DefaultRoles,   \* the roles of NewMemoryStorageWithDefaults
    RoleDef,        \* what may be saved: [perms : SUBSET Permission, parents : Seq(Role)]
    UserRoles,      \* the role lists users come with
    ParentLists,    \* the parents that a role of the policy may be given
    Checker,        \* requests that are checked at the same time
    MaxWrites,      \* bound: how often roles are saved or deleted
    Absent

AccessAssumption ==
    /\ RoleDef \subseteq [perms : SUBSET Permission, parents : Seq(Role)]
    /\ DefaultRoles \in [Role -> RoleDef \cup {Absent}] /\ UserRoles \subseteq Seq(Role)
    /\ ParentLists \subseteq Seq(Role) /\ MaxWrites \in Nat
    /\ Absent \notin Role /\ Absent \notin RoleDef /\ Absent \notin ParentLists

VARIABLES
    roleStore,      \* the backend
    roleCache,      \* CachedStorage.cache
    dropping,       \* roles written to the backend whose cache entry is still to be dropped
    permCache,      \* permissionCache.rolePermissions
    check,          \* the checks under way
    writes,         \* bound
    circulating,    \* history: definitions of each role a check may rightly see
    policy,         \* Policy.Roles: the parents of each
    putting         \* the AddRole or UpdateRole under way

rbacVars == <<roleStore, roleCache, dropping, permCache, check, writes, circulating>>
policyVars == <<policy, putting>>

\* One activation of resolveRolePermissions; the lowest one is resolveUserPermissions.
Frame == [role : Role \cup {Absent}, left : Seq(Role), perms : SUBSET Permission]
CheckStage == {"idle", "resolve", "get", "fetch", "fill", "done"}
Check == [stage : CheckStage, stack : Seq(Frame), seen : SUBSET Role, role : Role \cup {Absent}, read : RoleDef \cup {Absent}]
NewCheck(stage, stack) == [stage |-> stage, stack |-> stack, seen |-> {}, role |-> Absent, read |-> Absent]
NoCheck == NewCheck("idle", <<>>)

RbacTypeOK ==
    /\ roleStore \in [Role -> RoleDef \cup {Absent}] /\ roleCache \in [Role -> RoleDef \cup {Absent}]
    /\ dropping \subseteq Role /\ permCache \in [Role -> (SUBSET Permission) \cup {Absent}]
    /\ check \in [Checker -> Check] /\ writes \in 0..MaxWrites /\ circulating \in [Role -> SUBSET RoleDef]

RbacInit ==
    /\ roleStore = DefaultRoles /\ roleCache = [r \in Role |-> Absent]
    /\ dropping = {} /\ permCache = [r \in Role |-> Absent]
    /\ check = [c \in Checker |-> NoCheck]
    /\ writes = 0 /\ circulating = [r \in Role |-> {DefaultRoles[r]} \cap RoleDef]

-----------------------------------------------------------------------------
(* Roles are changed *)

\* CachedStorage.SaveRole and DeleteRole: the backend first, the entry in the cache after it.
WriteRole(r, def) ==
    /\ writes < MaxWrites /\ writes' = writes + 1
    /\ def # Absent \/ roleStore[r] # Absent
    /\ roleStore' = [roleStore EXCEPT ![r] = def]
    /\ circulating' = [circulating EXCEPT ![r] = @ \cup ({def} \cap RoleDef)]
    /\ dropping' = dropping \cup {r}
    /\ UNCHANGED <<roleCache, permCache, check>>

\* The second half of a write; InvalidateRole; an entry whose time is up.
DropRole(r) ==
    /\ r \in dropping \/ roleCache[r] # Absent
    /\ roleCache' = [roleCache EXCEPT ![r] = Absent]
    /\ dropping' = dropping \ {r}
    /\ UNCHANGED <<roleStore, permCache, check, writes, circulating>>

InvalidateStorageCache ==
    /\ roleCache' = [r \in Role |-> Absent]
    /\ UNCHANGED <<roleStore, dropping, permCache, check, writes, circulating>>

\* No check is under way, no write half done, and the storage's cache agrees with the backend.
RolesSettled ==
    /\ dropping = {} /\ \A c \in Checker : check[c].stage \in {"idle", "done"}
    /\ \A r \in Role : roleCache[r] \in {Absent, roleStore[r]}

\* Engine.InvalidateCache.
InvalidateCache ==
    /\ permCache' = [r \in Role |-> Absent]
    /\ circulating' = IF RolesSettled THEN [r \in Role |-> {roleStore[r]} \cap RoleDef] ELSE circulating
    /\ UNCHANGED <<roleStore, roleCache, dropping, check, writes>>

-----------------------------------------------------------------------------
(* A check *)

Top(c) == Last(check[c].stack)
WithTop(stack, frame) == [stack EXCEPT ![Len(stack)] = frame]
\* Permissions reach the activation that asked for them.
Joined(frame, perms) == [frame EXCEPT !.perms = @ \cup perms]
Returned(stack, perms) ==
    [k \in 1..(Len(stack) - 1) |-> IF k = Len(stack) - 1 THEN Joined(stack[k], perms) ELSE stack[k]]
\* The activation for role r, whose definition was found.
Activation(r, def) == [role |-> r, left |-> def.parents, perms |-> def.perms]

\* The middleware has a user; CheckPermission finds nothing in the direct permissions.
CheckPermission(c, roles) ==
    /\ check[c].stage = "idle"
    /\ check' = [check EXCEPT ![c] =
                    NewCheck("resolve", <<[role |-> Absent, left |-> roles, perms |-> {}]>>)]
    /\ UNCHANGED <<roleStore, roleCache, dropping, permCache, writes, circulating>>

\* resolveRolePermissions of the next role up to the storage.
ResolveRole(c) ==
    /\ check[c].stage = "resolve" /\ Top(c).left # <<>>
    /\ LET r == Head(Top(c).left)
           rest == [Top(c) EXCEPT !.left = Tail(@)]
           visited == r \in check[c].seen
           cached == permCache[r] # Absent
       IN check' = [check EXCEPT ![c] =
            [stage |-> IF visited \/ cached THEN "resolve" ELSE "get",
             stack |-> WithTop(check[c].stack, IF ~visited /\ cached THEN Joined(rest, permCache[r]) ELSE rest),
             seen |-> check[c].seen \cup {r}, role |-> IF visited \/ cached THEN Absent ELSE r, read |-> Absent]]
    /\ UNCHANGED <<roleStore, roleCache, dropping, permCache, writes, circulating>>

\* CachedStorage.GetRole looks into its cache.
GetRole(c) ==
    /\ check[c].stage = "get"
    /\ LET hit == roleCache[check[c].role]
       IN check' = [check EXCEPT ![c].stage = IF hit = Absent THEN "fetch" ELSE "resolve",
             ![c].stack = IF hit = Absent THEN check[c].stack ELSE Append(check[c].stack, Activation(check[c].role, hit))]
    /\ UNCHANGED <<roleStore, roleCache, dropping, permCache, writes, circulating>>

\* The backend is read without the lock; a role it does not have gives no permissions.
FetchRole(c) ==
    /\ check[c].stage = "fetch"
    /\ LET def == roleStore[check[c].role]
       IN check' = [check EXCEPT ![c].read = def, ![c].stage = IF def = Absent THEN "resolve" ELSE "fill"]
    /\ UNCHANGED <<roleStore, roleCache, dropping, permCache, writes, circulating>>

\* What was read goes into the cache, current or not.
FillRole(c) ==
    /\ check[c].stage = "fill"
    /\ roleCache' = [roleCache EXCEPT ![check[c].role] = check[c].read]
    /\ check' = [check EXCEPT ![c].stage = "resolve", ![c].read = Absent,
                              ![c].stack = Append(check[c].stack, Activation(check[c].role, check[c].read))]
    /\ UNCHANGED <<roleStore, dropping, permCache, writes, circulating>>

\* Wrong on purpose: the role gets what its siblings had as well.
CachedWithSiblings(c) == Top(c).perms \cup check[c].stack[Len(check[c].stack) - 1].perms

CachedPermissions(c) == Top(c).perms

\* All parents are resolved: the permissions are cached and handed down.
Resolved(c) ==
    /\ check[c].stage = "resolve" /\ Top(c).left = <<>> /\ Len(check[c].stack) > 1
    /\ permCache' = [permCache EXCEPT ![Top(c).role] = CachedPermissions(c)]
    /\ check' = [check EXCEPT ![c].stack = Returned(check[c].stack, Top(c).perms)]
    /\ UNCHANGED <<roleStore, roleCache, dropping, writes, circulating>>

\* The user's roles are resolved; the request is served (200) or refused (403).
Answer(c) ==
    /\ check[c].stage = "resolve" /\ Top(c).left = <<>> /\ Len(check[c].stack) = 1
    /\ check' = [check EXCEPT ![c].stage = "done"]
    /\ UNCHANGED <<roleStore, roleCache, dropping, permCache, writes, circulating>>

NextRequest(c) ==
    /\ check[c].stage = "done"
    /\ check' = [check EXCEPT ![c] = NoCheck]
    /\ UNCHANGED <<roleStore, roleCache, dropping, permCache, writes, circulating>>

CheckStep(c) ==
    \/ \E roles \in UserRoles : CheckPermission(c, roles)
    \/ ResolveRole(c) \/ GetRole(c) \/ FetchRole(c) \/ FillRole(c) \/ Resolved(c) \/ Answer(c) \/ NextRequest(c)

RbacNext ==
    \/ \E r \in Role : DropRole(r) \/ \E def \in RoleDef \cup {Absent} : WriteRole(r, def)
    \/ InvalidateStorageCache \/ InvalidateCache
    \/ \E c \in Checker : CheckStep(c)

RbacSpec == RbacInit /\ [][RbacNext]_rbacVars

-----------------------------------------------------------------------------
(* The policy: roles with their parents, kept free of cycles. One call at a time. *)

\* A call of AddRole or UpdateRole is in its cycle check: parents that detectCycle has to look
\* at, in the order of its recursion, and those it has visited.
Put == [role : Role, parents : ParentLists, work : Seq(Role), visited : SUBSET Role]

PolicyTypeOK == policy \in [Role -> Seq(Role) \cup {Absent}] /\ putting \in Put \cup {Absent}

PolicyInit == policy = [r \in Role |-> Absent] /\ putting = Absent

\* AddRole and UpdateRole; they differ in whether the role must be new.
PutRole(r, parents) ==
    /\ putting = Absent
    /\ putting' = [role |-> r, parents |-> parents, work |-> parents, visited |-> {}]
    /\ UNCHANGED policy

\* Wrong on purpose: only the parents themselves are looked at.
NoGrandparents(p) == <<>>
\* The parents detectCycle goes on with: none when the policy does not have the role.
Grandparents(p) == IF policy[p] = Absent THEN <<>> ELSE policy[p]

\* One turn of detectCycle's loop: the role itself ends the call with ErrCyclicInheritance.
DetectCycle ==
    /\ putting # Absent /\ putting.work # <<>>
    /\ LET p == Head(putting.work)
           rest == Tail(putting.work)
       IN putting' = IF p = putting.role THEN Absent
                     ELSE IF p \in putting.visited THEN [putting EXCEPT !.work = rest]
                     ELSE [putting EXCEPT !.work = Grandparents(p) \o rest, !.visited = putting.visited \cup {p}]
    /\ UNCHANGED policy

\* No cycle was found.
StoreRole ==
    /\ putting # Absent /\ putting.work = <<>>
    /\ policy' = [policy EXCEPT ![putting.role] = putting.parents]
    /\ putting' = Absent

RemoveRole(r) ==
    /\ putting = Absent /\ policy[r] # Absent
    /\ policy' = [policy EXCEPT ![r] = Absent]
    /\ UNCHANGED putting

PolicyNext ==
    \/ \E r \in Role : RemoveRole(r) \/ \E parents \in ParentLists : PutRole(r, parents)
    \/ DetectCycle \/ StoreRole

PolicySpec == PolicyInit /\ [][PolicyNext]_policyVars

-----------------------------------------------------------------------------
(* Properties *)

\* The roles rs and all that is above them: what is in every set that has rs and, with a role,
\* the roles above it.
Closure(rs, above) ==
    {x \in Role : \A S \in SUBSET Role : rs \subseteq S /\ (\A q \in S : above[q] \subseteq S) => x \in S}

\* The permissions of a set of roles when each role has all its definitions in `known`.
AboveIn(known) == [r \in Role |-> UNION {ToSet(def.parents) : def \in known[r]}]
PermissionsOf(rs, known) == UNION {UNION {def.perms : def \in known[r]} : r \in Closure(rs, AboveIn(known))}

AboveInPolicy(roles) == [r \in Role |-> IF roles[r] = Absent THEN {} ELSE ToSet(roles[r])]

\* However roles are added, updated and removed, no role of the policy inherits from itself.
PolicyAcyclic ==
    /\ PolicyTypeOK
    /\ \A r \in Role : policy[r] # Absent => r \notin Closure(ToSet(policy[r]), AboveInPolicy(policy))

\* A check grants, and the engine caches, only what some definition of the role or of a role
\* above it gives, and of the definitions only those stored since the engine's cache
\* was last cleared in a quiet moment: nothing leaks from one role to
\* another, and what was revoked before such a moment stays revoked. And no role
\* of a policy inherits from itself.
GrantJustified ==
    /\ RbacTypeOK
    /\ \A r \in Role : permCache[r] # Absent => permCache[r] \subseteq PermissionsOf({r}, circulating)
    /\ \A c \in Checker : check[c].stack # <<>> /\ check[c].stage # "done" =>
          Top(c).perms \subseteq PermissionsOf(check[c].seen, circulating)
    /\ PolicyAcyclic

\* CheckPermission "resolves all permissions from the user's roles including inherited ones":
\* a check ends with all that the stored definitions give, as long as none is changed.
ResolvesAll ==
    \A c \in Checker : check[c].stage = "done" /\ writes = 0 =>
       PermissionsOf(check[c].seen, circulating) \subseteq Top(c).perms
=============================================================================
