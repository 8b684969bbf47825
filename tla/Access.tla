-------------------------------- MODULE Access ---------------------------------
(***************************************************************************)
(* Permissions, roles and the roles and permissions of one user, under     *)
(* parallel requests of administrators (src/src/users/users.service.ts,    *)
(* src/src/roles/roles.service.ts, src/src/permissions/                    *)
(* permissions.service.ts).                                                *)
(*                                                                         *)
(* An assignment loads the entity with its relations, looks up the rows it *)
(* names, and saves the entity: TypeORM reads the row and its relations    *)
(* once more, and inserts and deletes the rows of the join tables in which *)
(* the entity differs from them, whatever has been written meanwhile.  An  *)
(* entity that has gone by then is inserted again.                         *)
(***************************************************************************)
EXTENDS FiniteSets

CONSTANTS
  PermissionIds, SystemPermissions,   \* those with isSystem cannot be removed
  RoleIds, AdminRoles,                \* those named ADMIN cannot be edited or removed
  AccessRequests

VARIABLES
  permissions,   \* the rows that exist
  user,          \* the user: whether it exists, its roles and its own permissions
  roles,         \* the roles: whether each exists, and its permissions
  assigning,     \* what each request has loaded, and what it is to assign
  retired,       \* ids of permissions and roles that have been given out
  expected,      \* for the property: user and roles as last asked, while no old
                 \* entity has been saved
  overlapped     \* for the property: a save has missed what another request wrote

accessVars == <<permissions, user, roles, assigning, retired, expected, overlapped>>

User == [exists : BOOLEAN, roles : SUBSET RoleIds, grants : SUBSET PermissionIds]
Role == [exists : BOOLEAN, grants : SUBSET PermissionIds]
NoUser == [exists |-> FALSE, roles |-> {}, grants |-> {}]
NoRole == [exists |-> FALSE, grants |-> {}]

NotAssigning == [op |-> "idle"]
AssigningRoles  == [op : {"user roles"}, found : BOOLEAN, user : User, to : SUBSET RoleIds]
AssigningGrants == [op : {"user grants"}, found : BOOLEAN, user : User, to : SUBSET PermissionIds]
AssigningToRole == [op : {"role grants", "role edit"}, found : BOOLEAN, id : RoleIds, role : Role,
                    to : SUBSET PermissionIds]
Removing ==
  [op : {"role removal"}, id : RoleIds] \cup [op : {"permission removal"}, id : PermissionIds]
    \cup [op : {"user removal"}]
SavingUser ==
  [op : {"user save"}, of : {"user roles", "user grants"}, user : User, entity : User, before : User]
SavingRole ==
  [op : {"role save"}, of : {"role grants", "role edit"}, id : RoleIds, role : Role, entity : Role,
   before : Role]
Assigning == {NotAssigning} \cup AssigningRoles \cup AssigningGrants \cup AssigningToRole
               \cup SavingUser \cup SavingRole \cup Removing

ExistingRoles == {i \in RoleIds : roles[i].exists}

AccessTypeOK ==
  /\ permissions \subseteq retired
  /\ user \in User /\ roles \in [RoleIds -> Role]
  /\ assigning \in [AccessRequests -> Assigning]
  /\ retired \subseteq PermissionIds \cup RoleIds
  /\ overlapped \in BOOLEAN
  \* the foreign keys of the join tables
  /\ user.roles \subseteq ExistingRoles /\ user.grants \subseteq permissions
  /\ \A i \in RoleIds : roles[i].grants \subseteq permissions

AccessInit ==
  /\ permissions = {}
  /\ user = [NoUser EXCEPT !.exists = TRUE]
  /\ roles = [i \in RoleIds |-> NoRole]
  /\ assigning = [r \in AccessRequests |-> NotAssigning]
  /\ retired = {}
  /\ expected = [user |-> user, roles |-> roles]
  /\ overlapped = FALSE

-----------------------------------------------------------------------------
Start(r, request) ==
  /\ assigning[r] = NotAssigning
  /\ assigning' = [assigning EXCEPT ![r] = request]
  /\ UNCHANGED <<permissions, user, roles, retired, expected, overlapped>>

End(r) == assigning' = [assigning EXCEPT ![r] = NotAssigning]

\* What is remembered of a write: once an old entity has been saved, nothing more
\* is asked of the rows.
Expect(stale, wanted) ==
  /\ overlapped' = (overlapped \/ stale)
  /\ expected' = IF overlapped' THEN [user |-> user', roles |-> roles'] ELSE wanted

CreatePermission(p) ==
  /\ p \in PermissionIds \ retired
  /\ permissions' = permissions \cup {p}
  /\ retired' = retired \cup {p}
  /\ UNCHANGED <<user, roles, assigning, expected, overlapped>>

CreateRole(i, grants) ==
  /\ i \in RoleIds \ retired
  /\ grants \subseteq permissions
  /\ roles' = [roles EXCEPT ![i] = [exists |-> TRUE, grants |-> grants]]
  /\ retired' = retired \cup {i}
  /\ UNCHANGED <<permissions, user, assigning>>
  /\ Expect(FALSE, [expected EXCEPT !.roles = [@ EXCEPT ![i] = roles'[i]]])

LoadUserForRoles(r, to) ==
  user.exists /\ Start(r, [op |-> "user roles", found |-> FALSE, user |-> user, to |-> to])
LoadUserForGrants(r, to) ==
  user.exists /\ Start(r, [op |-> "user grants", found |-> FALSE, user |-> user, to |-> to])
LoadRoleForGrants(r, i, to) ==
  roles[i].exists
  /\ Start(r, [op |-> "role grants", found |-> FALSE, id |-> i, role |-> roles[i], to |-> to])
LoadRoleToEdit(r, i) ==
  /\ roles[i].exists /\ i \notin AdminRoles
  /\ Start(r, [op |-> "role edit", found |-> TRUE, id |-> i, role |-> roles[i],
               to |-> roles[i].grants])
LoadRoleToRemove(r, i) ==
  roles[i].exists /\ i \notin AdminRoles /\ Start(r, [op |-> "role removal", id |-> i])
LoadPermissionToRemove(r, p) ==
  /\ p \in permissions \ SystemPermissions
  /\ Start(r, [op |-> "permission removal", id |-> p])
LoadUserToRemove(r) == user.exists /\ Start(r, [op |-> "user removal"])

\* Of the rows that the request names, those that exist.
FindTargets(r) ==
  LET q == assigning[r] IN
  /\ q.op \in {"user roles", "user grants", "role grants"} /\ ~q.found
  /\ assigning' = [assigning EXCEPT
                     ![r].found = TRUE,
                     ![r].to = @ \cap IF q.op = "user roles" THEN ExistingRoles ELSE permissions]
  /\ UNCHANGED <<permissions, user, roles, retired, expected, overlapped>>

-----------------------------------------------------------------------------
\* A wrong form: the user is loaded without its permissions and saved with none.
AssignedAlone(q) ==
  IF q.op = "user roles" THEN [q.user EXCEPT !.roles = q.to, !.grants = {}]
                         ELSE [q.user EXCEPT !.grants = q.to]

\* The entity that is saved.
Assigned(q) ==
  IF q.op = "user roles" THEN [q.user EXCEPT !.roles = q.to] ELSE [q.user EXCEPT !.grants = q.to]

\* repo.save begins: the row and its relations as they are now.
ReReadUser(r) ==
  LET q == assigning[r] IN
  /\ q.op \in {"user roles", "user grants"} /\ q.found
  /\ assigning' = [assigning EXCEPT ![r] = [op |-> "user save", of |-> q.op, user |-> q.user,
                                           entity |-> Assigned(q), before |-> user]]
  /\ UNCHANGED <<permissions, user, roles, retired, expected, overlapped>>

ReReadRole(r) ==
  LET q == assigning[r] IN
  /\ q.op \in {"role grants", "role edit"} /\ q.found
  /\ assigning' = [assigning EXCEPT ![r] = [op |-> "role save", of |-> q.op, id |-> q.id,
                                           role |-> q.role, before |-> roles[q.id],
                                           entity |-> [q.role EXCEPT !.grants = q.to]]]
  /\ UNCHANGED <<permissions, user, roles, retired, expected, overlapped>>

\* A join table after the save: what the entity has and the re-read had not is
\* inserted, what the re-read had and the entity has not is deleted.
Linked(entity, before, now) == (now \ (before \ entity)) \cup (entity \ before)

\* A row of a join table that exists, or refers to nothing, fails the save.
CanLink(entity, before, now, targets) == entity \ before \subseteq targets \ now

UpdateUser(r) ==
  LET q == assigning[r]  entity == q.entity  before == q.before
      adds == (entity.roles \ before.roles) \cup (entity.grants \ before.grants) # {}
  IN
  /\ q.op = "user save"
  /\ IF before.exists THEN adds => user.exists ELSE ~user.exists
  /\ CanLink(entity.roles, before.roles, user.roles, ExistingRoles)
  /\ CanLink(entity.grants, before.grants, user.grants, permissions)
  /\ user' = [exists |-> user.exists \/ ~before.exists,
              roles  |-> Linked(entity.roles, before.roles, user.roles),
              grants |-> Linked(entity.grants, before.grants, user.grants)]
  /\ UNCHANGED <<permissions, roles, retired>>
  /\ \/ /\ q.of = "user roles"
        /\ Expect(before # q.user \/ user.roles # before.roles,
                  [expected EXCEPT !.user = [@ EXCEPT !.roles = entity.roles]])
     \/ /\ q.of = "user grants"
        /\ Expect(before # q.user \/ user.grants # before.grants,
                  [expected EXCEPT !.user = [@ EXCEPT !.grants = entity.grants]])
  /\ End(r)

UpdateRole(r) ==
  LET q == assigning[r]  entity == q.entity  before == q.before  role == roles[q.id] IN
  /\ q.op = "role save"
  /\ IF before.exists THEN entity.grants \subseteq before.grants \/ role.exists ELSE ~role.exists
  /\ CanLink(entity.grants, before.grants, role.grants, permissions)
  /\ roles' = [roles EXCEPT ![q.id] = [exists |-> role.exists \/ ~before.exists,
                                      grants |-> Linked(entity.grants, before.grants, role.grants)]]
  /\ UNCHANGED <<permissions, user, retired>>
  /\ \/ q.of = "role edit" /\ Expect(before # q.role, expected)
     \/ /\ q.of = "role grants"
        /\ Expect(before # q.role \/ role.grants # before.grants,
                  [user  |-> expected.user,
                   roles |-> [expected.roles EXCEPT ![q.id] = [@ EXCEPT !.grants = entity.grants]]])
  /\ End(r)

\* The rows of the join tables go with the role.
RemoveRole(r) ==
  LET q == assigning[r] IN
  /\ q.op = "role removal"
  /\ roles' = [roles EXCEPT ![q.id] = NoRole]
  /\ user' = [user EXCEPT !.roles = @ \ {q.id}]
  /\ UNCHANGED <<permissions, retired>>
  /\ Expect(FALSE, [user  |-> [expected.user EXCEPT !.roles = @ \ {q.id}],
                    roles |-> [expected.roles EXCEPT ![q.id] = NoRole]])
  /\ End(r)

RemovePermission(r) ==
  LET q == assigning[r]
      Without(rows) == [i \in RoleIds |-> [rows[i] EXCEPT !.grants = @ \ {q.id}]]
  IN
  /\ q.op = "permission removal"
  /\ permissions' = permissions \ {q.id}
  /\ user' = [user EXCEPT !.grants = @ \ {q.id}]
  /\ roles' = Without(roles)
  /\ UNCHANGED retired
  /\ Expect(FALSE, [user  |-> [expected.user EXCEPT !.grants = @ \ {q.id}],
                    roles |-> Without(expected.roles)])
  /\ End(r)

RemoveUser(r) ==
  /\ assigning[r].op = "user removal"
  /\ user' = NoUser
  /\ UNCHANGED <<permissions, roles, retired>>
  /\ Expect(FALSE, [expected EXCEPT !.user = NoUser])
  /\ End(r)

\* A constraint refuses the write, or the process dies.
DropAssignment(r) ==
  /\ assigning[r] # NotAssigning
  /\ End(r)
  /\ UNCHANGED <<permissions, user, roles, retired, expected, overlapped>>

AccessNext ==
  \/ \E p \in PermissionIds : CreatePermission(p)
  \/ \E i \in RoleIds, grants \in SUBSET PermissionIds : CreateRole(i, grants)
  \/ \E r \in AccessRequests :
       \/ \E to \in SUBSET RoleIds : LoadUserForRoles(r, to)
       \/ \E to \in SUBSET PermissionIds :
            LoadUserForGrants(r, to) \/ \E i \in RoleIds : LoadRoleForGrants(r, i, to)
       \/ \E i \in RoleIds : LoadRoleToEdit(r, i) \/ LoadRoleToRemove(r, i)
       \/ \E p \in PermissionIds : LoadPermissionToRemove(r, p)
       \/ LoadUserToRemove(r) \/ FindTargets(r)
       \/ ReReadUser(r) \/ ReReadRole(r) \/ UpdateUser(r) \/ UpdateRole(r)
       \/ RemoveRole(r) \/ RemovePermission(r) \/ RemoveUser(r) \/ DropAssignment(r)

AccessSpec == AccessInit /\ [][AccessNext]_accessVars

-----------------------------------------------------------------------------
\* The user and the roles hold what was last assigned to them, less what has been
\* removed, and nothing that was removed comes back: unless a row or its relations
\* changed between the load of a request and the re-read of its save, or the very
\* relation that it assigns between the re-read and the write.  So an assignment of
\* roles and one of permissions may run side by side, and so may a rename of a role.
AssignmentsHold == overlapped \/ (user = expected.user /\ roles = expected.roles)

===============================================================================
