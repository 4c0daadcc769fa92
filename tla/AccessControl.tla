--------------------------- MODULE AccessControl ----------------------------
(***************************************************************************)
(* Roles, users and permissions (rbac/), the system tables they are saved  *)
(* in (system_tables.rs), and the cache of the configuration table.        *)
(*                                                                         *)
(* acRoles, acUsers: the maps of RbacManager; a role is the sequence of    *)
(* its permissions, a user the sequence of its roles.                      *)
(* acT: the four system tables, each a set of records.                     *)
(* acUp: the tables are there.                                             *)
(* acConf, acCache: one entry of the configuration table, and CONFIG_CACHE.*)
(*                                                                         *)
(* HashMap iterates in any order: a save takes the roles, and the users,   *)
(* in an order chosen for that save.                                       *)
(***************************************************************************)
EXTENDS Naturals, Sequences, FiniteSets
LOCAL INSTANCE TLC
LOCAL INSTANCE SequencesExt

CONSTANTS AcRoles, AcUsers,  \* names that are created and dropped
          AcPermissions,     \* enum Permission, in the order of the code
          AcGrants,          \* what is granted: [perm, table, column], "" for None
          AcValues,          \* texts written to the configuration entry
          AcCap,             \* max_records of a system table (512)
          AcMaxOps           \* bound: operations

VARIABLES acRoles, acUsers, acT, acUp, acConf, acCache, acOps
acVars == <<acRoles, acUsers, acT, acUp, acConf, acCache, acOps>>

(***************************************************************************)
(* RbacManager::new                                                        *)
(***************************************************************************)
AdminGrants ==
  [k \in DOMAIN AcPermissions |-> [perm |-> AcPermissions[k], table |-> "", column |-> ""]]
NewRoles == "admin" :> AdminGrants
NewUsers == "root" :> <<"admin">>

(***************************************************************************)
(* The system tables: columns, primary keys and first records              *)
(***************************************************************************)
RoleRow(r) == [role |-> r]
RolePermissionRow(r, p, t) == [role |-> r, perm |-> p, table |-> t]
UserRow(u) == [user |-> u]
UserRoleRow(u, r) == [user |-> u, role |-> r]

RoleKey(row) == row.role
RolePermissionKey(row) == <<row.role, row.perm>>
UserKey(row) == row.user
UserRoleKey(row) == <<row.user, row.role>>

NoTables == [roles |-> {}, perms |-> {}, users |-> {}, members |-> {}]
DefaultTables ==
  [roles |-> {RoleRow("admin")},
   perms |-> {RolePermissionRow("admin", AcPermissions[i], "") : i \in DOMAIN AcPermissions},
   users |-> {UserRow("root")},
   members |-> {UserRoleRow("root", "admin")}]

(***************************************************************************)
(* save_to_system_tables: every role, permission, user and membership is   *)
(* inserted and the result ignored.  A record whose key is there, and one  *)
(* for a full table, are refused.                                          *)
(***************************************************************************)
InsertEach(Key(_), tab, rows) ==
  FoldLeft(LAMBDA t, row : IF (\E x \in t : Key(x) = Key(row)) \/ Cardinality(t) >= AcCap
                           THEN t ELSE t \cup {row},
           tab, rows)

SavedRoles(tab, order) == InsertEach(RoleKey, tab, [k \in DOMAIN order |-> RoleRow(order[k])])
SavedPermissions(tab, R, order) ==
  InsertEach(RolePermissionKey, tab, FlattenSeq([k \in DOMAIN order |->
    [j \in DOMAIN R[order[k]] |->
       RolePermissionRow(order[k], R[order[k]][j].perm, R[order[k]][j].table)]]))
SavedUsers(tab, order) == InsertEach(UserKey, tab, [k \in DOMAIN order |-> UserRow(order[k])])
SavedMembers(tab, U, order) ==
  InsertEach(UserRoleKey, tab, FlattenSeq([k \in DOMAIN order |->
    [j \in DOMAIN U[order[k]] |-> UserRoleRow(order[k], U[order[k]][j])]]))

SavedTables(R, U) ==
  {[roles |-> SavedRoles(acT.roles, ro), perms |-> SavedPermissions(acT.perms, R, ro),
    users |-> SavedUsers(acT.users, uo), members |-> SavedMembers(acT.members, U, uo)] :
     ro \in SetToSeqs(DOMAIN R), uo \in SetToSeqs(DOMAIN U)}

\* An operation of RemDb: one of the manager, then a save.
Changed(R, U) ==
  /\ acOps < AcMaxOps /\ acOps' = acOps + 1
  /\ acRoles' = R /\ acUsers' = U
  /\ acT' \in IF acUp THEN SavedTables(R, U) ELSE {acT}
  /\ UNCHANGED <<acUp, acConf, acCache>>

(***************************************************************************)
(* Operations.  One that returns an error changes nothing.                 *)
(***************************************************************************)
Without(f, x) == [y \in DOMAIN f \ {x} |-> f[y]]
Others(s, x) == SelectSeq(s, LAMBDA y : y # x)

CreateRole(r) == r \notin DOMAIN acRoles /\ Changed(acRoles @@ (r :> <<>>), acUsers)

\* Mutant: the users keep the role.
DropRoleOnly(r) == r \in DOMAIN acRoles /\ Changed(Without(acRoles, r), acUsers)

DropRole(r) ==
  /\ r \in DOMAIN acRoles
  /\ Changed(Without(acRoles, r), [u \in DOMAIN acUsers |-> Others(acUsers[u], r)])

GrantPermission(r, g) ==
  /\ r \in DOMAIN acRoles
  /\ Changed([acRoles EXCEPT ![r] = Append(@, g)], acUsers)

RevokePermission(r, g) ==
  /\ r \in DOMAIN acRoles
  /\ Changed([acRoles EXCEPT ![r] = Others(@, g)], acUsers)

CreateUser(u) == u \notin DOMAIN acUsers /\ Changed(acRoles, acUsers @@ (u :> <<>>))
DropUser(u) == u \in DOMAIN acUsers /\ Changed(acRoles, Without(acUsers, u))

GrantRole(u, r) ==
  /\ r \in DOMAIN acRoles /\ u \in DOMAIN acUsers
  /\ Changed(acRoles, [acUsers EXCEPT ![u] =
                         IF \E k \in DOMAIN @ : @[k] = r THEN @ ELSE Append(@, r)])

RevokeRole(u, r) ==
  /\ u \in DOMAIN acUsers
  /\ Changed(acRoles, [acUsers EXCEPT ![u] = Others(@, r)])

\* has_permission and check_permission: "" asks, and grants, for any table.
HasPermission(gs, p, table, column) ==
  \E k \in DOMAIN gs : /\ gs[k].perm = p
                       /\ gs[k].table \in {"", table} \/ table = ""
                       /\ gs[k].column \in {"", column} \/ column = ""
CheckPermission(R, U, u, p, table, column) ==
  /\ u \in DOMAIN U
  /\ \E k \in DOMAIN U[u] : /\ U[u][k] \in DOMAIN R
                            /\ HasPermission(R[U[u][k]], p, table, column)

(***************************************************************************)
(* init_system_tables, load_from_system_tables, load_config_cache          *)
(***************************************************************************)
\* Permissions of roles, and roles of users, that are not there are skipped.
LoadedRoles(T) ==
  [r \in {row.role : row \in T.roles} |->
     SetToSeq({[perm |-> row.perm, table |-> row.table, column |-> ""] :
                 row \in {x \in T.perms : x.role = r}})]
LoadedUsers(T) ==
  [u \in {row.user : row \in T.users} |->
     SetToSeq({row.role : row \in {x \in T.members : x.user = u}})]

\* An unknown text, like no entry (""), gives the default.
LoadConfig(entry) == IF entry \in {"float16", "zstd"} THEN entry ELSE "none"

\* RemDb::init: the first makes the tables and leaves the manager as it is, a
\* later one loads the manager from them.
InitDb ==
  /\ acOps < AcMaxOps /\ acOps' = acOps + 1
  /\ acUp' = TRUE
  /\ IF acUp
     THEN /\ acRoles' = LoadedRoles(acT) /\ acUsers' = LoadedUsers(acT)
          /\ acCache' = LoadConfig(acConf)
          /\ UNCHANGED <<acT, acConf>>
     ELSE /\ acT' = DefaultTables
          /\ acConf' = "none" /\ acCache' = "none"
          /\ UNCHANGED <<acRoles, acUsers>>

\* A new process.  The system tables are not in the log.
RestartDb ==
  /\ acOps < AcMaxOps /\ acOps' = acOps + 1
  /\ acRoles' = NewRoles /\ acUsers' = NewUsers
  /\ acT' = NoTables /\ acUp' = FALSE /\ acConf' = "" /\ acCache' = "none"

(***************************************************************************)
(* Statements on the configuration table.  Only execute_insert_query ends  *)
(* with refresh_config_cache.                                              *)
(***************************************************************************)
ConfigStep ==
  /\ acUp /\ acOps < AcMaxOps /\ acOps' = acOps + 1
  /\ UNCHANGED <<acRoles, acUsers, acT, acUp>>

InsertConfig(v) ==
  /\ ConfigStep
  /\ acConf = "" /\ acConf' = v /\ acCache' = LoadConfig(v)
UpdateConfig(v) == ConfigStep /\ acConf # "" /\ acConf' = v /\ UNCHANGED acCache
DeleteConfig == ConfigStep /\ acConf # "" /\ acConf' = "" /\ UNCHANGED acCache

AcInit ==
  /\ acRoles = NewRoles /\ acUsers = NewUsers
  /\ acT = NoTables /\ acUp = FALSE
  /\ acConf = "" /\ acCache = "none" /\ acOps = 0

AcNext ==
  \/ \E r \in AcRoles : \/ CreateRole(r) \/ DropRole(r)
                        \/ \E g \in AcGrants : GrantPermission(r, g) \/ RevokePermission(r, g)
                        \/ \E u \in AcUsers : GrantRole(u, r) \/ RevokeRole(u, r)
  \/ \E u \in AcUsers : CreateUser(u) \/ DropUser(u)
  \/ InitDb \/ RestartDb
  \/ \E v \in AcValues : InsertConfig(v) \/ UpdateConfig(v)
  \/ DeleteConfig

AcSpec == AcInit /\ [][AcNext]_acVars

(***************************************************************************)
(* Properties                                                              *)
(***************************************************************************)
Room(tab) == Cardinality(tab) < AcCap

\* What the manager holds is in the tables, as far as they have room.  The
\* table of permissions has no column, and one table name for a role and a
\* permission.
Covered(R, U, T) ==
  /\ Room(T.roles) => \A r \in DOMAIN R : RoleRow(r) \in T.roles
  /\ Room(T.perms) => \A r \in DOMAIN R : \A k \in DOMAIN R[r] :
                        \E row \in T.perms : row.role = r /\ row.perm = R[r][k].perm
  /\ Room(T.users) => \A u \in DOMAIN U : UserRow(u) \in T.users
  /\ Room(T.members) => \A u \in DOMAIN U : \A k \in DOMAIN U[u] : UserRoleRow(u, U[u][k]) \in T.members

RolesExist(R, U, T) ==
  Room(T.roles) => \A u \in DOMAIN U : \A k \in DOMAIN U[u] : U[u][k] \in DOMAIN R

\* The users hold no role that is not there, also after roles were dropped,
\* re-created and loaded; every operation leaves what the manager holds in the
\* system tables; a later init keeps every permission a user had on some
\* table; and the configuration cache only changes to what its table says
\* (rbac/manager.rs drop_role, save_to_system_tables, load_from_system_tables;
\* lib.rs init; system_tables.rs load_config_cache).
AcSound ==
  [][/\ RolesExist(acRoles', acUsers', acT')
     /\ acCache' # acCache => acCache' = LoadConfig(acConf')
     /\ acUp /\ acUp' /\ <<acRoles', acUsers'>> # <<acRoles, acUsers>> =>
          Covered(acRoles', acUsers', acT')
     /\ /\ acUp /\ acUp' /\ acT' = acT /\ Covered(acRoles, acUsers, acT) /\ InitDb
        /\ \A n \in DOMAIN acT : Room(acT[n])
        => \A u \in DOMAIN acUsers, i \in DOMAIN AcPermissions :
             CheckPermission(acRoles, acUsers, u, AcPermissions[i], "", "") =>
               CheckPermission(acRoles', acUsers', u, AcPermissions[i], "", "")]_acVars
=============================================================================
