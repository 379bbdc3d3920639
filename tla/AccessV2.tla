------------------------------ MODULE AccessV2 ------------------------------
(***************************************************************************)
(* Roles of API v2 and what they open: v2/auth/roles.ts, the admin service *)
(* and its routes, the script that makes the first admin, and the upload   *)
(* URLs.  A request's roles are read once, when it is authenticated; its   *)
(* statements come later, each on its own.  Sessions and tenants are the   *)
(* business of DeviceSessionsV2 and TenantScope.                           *)
(***************************************************************************)
EXTENDS FiniteSets

CONSTANTS
  Accounts,           \* the tenant's users
  AccessCalls,        \* admin and upload requests the API can have in flight
  Folders,            \* report ids; a folder is named before its report exists
  NoAccount, NoReportYet

ASSUME AccessAssumption ==
  /\ NoAccount \notin Accounts
  /\ NoReportYet \notin [reporter : Accounts, supervisor : Accounts \cup {NoAccount},
                         cleaner : Accounts \cup {NoAccount}]

VARIABLES
  v1Role,             \* UserAccount.role
  activeUser,         \* UserAccount.status = "active"
  roleRows,           \* UserRoleV2: <<user, role>>, unique
  folderOf,           \* ReportV2 by id: its three parties
  access,             \* what each request is doing
  script,             \* promote-admin: the user it found, and whether it is a dry run
  grants,             \* history: users who have granted a role
  promoted,           \* history: users the script promoted
  minted,             \* history: <<user, report id, whether its row existed>>
  parties             \* history: <<user, report id>> for whoever was a party

accessVars == <<v1Role, activeUser, roleRows, folderOf, access, script,
                grants, promoted, minted, parties>>
accessHistory == <<grants, promoted, minted, parties>>

Waiting == [step |-> "waiting"]
NoScript == [user |-> NoAccount, dry |-> FALSE]

AccessInit ==
  /\ v1Role \in [Accounts -> {"public", "supervisor", "cleaner"}]
  /\ activeUser = Accounts
  /\ roleRows = {}
  /\ folderOf = [f \in Folders |-> NoReportYet]
  /\ access = [q \in AccessCalls |-> Waiting]
  /\ script = NoScript
  /\ grants = {} /\ promoted = {} /\ minted = {} /\ parties = {}

\* buildRoleSet
RoleSet(u) ==
  {"reporter"} \cup ({v1Role[u]} \cap {"supervisor", "cleaner"})
               \cup {role \in {"supervisor", "cleaner", "admin"} : <<u, role>> \in roleRows}

Become(q, s) == access' = [access EXCEPT ![q] = s]

-----------------------------------------------------------------------------
(* The admin routes *)

\* requireV2Role('admin'), on the roles requireV2Auth has just read.
MayGrant(u) == "admin" \in RoleSet(u)

\* Roles the body of POST /admin/users/:id/roles may name.
Assignable == {"supervisor", "cleaner"}

BeginGrant(q, u, target, role) ==
  /\ access[q] = Waiting /\ u \in activeUser /\ MayGrant(u) /\ role \in Assignable
  /\ Become(q, [step |-> "find", by |-> u, user |-> target, role |-> role])
  /\ UNCHANGED <<v1Role, activeUser, roleRows, folderOf, script, accessHistory>>

\* assignRoleToUser: an account that is not active is not found.
FindAccount(q) ==
  /\ access[q].step = "find"
  /\ Become(q, IF access[q].user \in activeUser THEN [access[q] EXCEPT !.step = "upsert"] ELSE Waiting)
  /\ UNCHANGED <<v1Role, activeUser, roleRows, folderOf, script, accessHistory>>

\* The upsert; what follows only reads the account back.
UpsertRole(q) ==
  /\ access[q].step = "upsert"
  /\ roleRows' = roleRows \cup {<<access[q].user, access[q].role>>}
  /\ grants' = grants \cup {access[q].by}
  /\ Become(q, Waiting)
  /\ UNCHANGED <<v1Role, activeUser, folderOf, script, promoted, minted, parties>>

-----------------------------------------------------------------------------
(* scripts/promote-admin.ts *)

FindPromoted(u, dry) ==
  /\ script = NoScript /\ u \in activeUser
  /\ script' = [user |-> u, dry |-> dry]
  /\ UNCHANGED <<v1Role, activeUser, roleRows, folderOf, access, accessHistory>>

Promote ==
  /\ script # NoScript
  /\ IF "admin" \in RoleSet(script.user) \/ script.dry THEN UNCHANGED <<roleRows, promoted>>
     ELSE /\ roleRows' = roleRows \cup {<<script.user, "admin">>}
          /\ promoted' = promoted \cup {script.user}
  /\ script' = NoScript
  /\ UNCHANGED <<v1Role, activeUser, folderOf, access, grants, minted, parties>>

-----------------------------------------------------------------------------
(* POST /uploads/presign *)

\* The roles are read with the token.
BeginPresign(q, u, f) ==
  /\ access[q] = Waiting /\ u \in activeUser
  /\ Become(q, [step |-> "report", by |-> u, roles |-> RoleSet(u), folder |-> f])
  /\ UNCHANGED <<v1Role, activeUser, roleRows, folderOf, script, accessHistory>>

\* Mutant: any cleaner may upload to any report.
AnyStaff(report, u, roles) ==
  u \in {report.reporter, report.cleaner, report.supervisor}
    \/ roles \cap {"supervisor", "cleaner", "admin"} # {}

CanUpload(report, u, roles) ==
  u \in {report.reporter, report.cleaner, report.supervisor}
    \/ roles \cap {"supervisor", "admin"} # {}

\* An id nobody has reported under is somebody's draft.
CheckFolder(q) ==
  /\ access[q].step = "report"
  /\ LET a == access[q] row == folderOf[access[q].folder] IN
       Become(q, IF row = NoReportYet
                 THEN [step |-> "mint", by |-> a.by, folder |-> a.folder, existed |-> FALSE]
                 ELSE IF CanUpload(row, a.by, a.roles)
                 THEN [step |-> "mint", by |-> a.by, folder |-> a.folder, existed |-> TRUE]
                 ELSE Waiting)
  /\ UNCHANGED <<v1Role, activeUser, roleRows, folderOf, script, accessHistory>>

MintUrl(q) ==
  /\ access[q].step = "mint"
  /\ minted' = minted \cup {<<access[q].by, access[q].folder, access[q].existed>>}
  /\ Become(q, Waiting)
  /\ UNCHANGED <<v1Role, activeUser, roleRows, folderOf, script, grants, promoted, parties>>

-----------------------------------------------------------------------------
(* What happens elsewhere *)

\* ReportsV2: a report is created under its id, and assigned, by a supervisor.
FileReport(f, u) ==
  /\ folderOf[f] = NoReportYet
  /\ folderOf' = [folderOf EXCEPT ![f] = [reporter |-> u, supervisor |-> NoAccount, cleaner |-> NoAccount]]
  /\ parties' = parties \cup {<<u, f>>}
  /\ UNCHANGED <<v1Role, activeUser, roleRows, access, script, grants, promoted, minted>>

AssignFolder(f, s, c) ==
  /\ folderOf[f] # NoReportYet /\ "supervisor" \in RoleSet(s)
  /\ folderOf' = [folderOf EXCEPT ![f].supervisor = s, ![f].cleaner = c]
  /\ parties' = parties \cup {<<s, f>>, <<c, f>>}
  /\ UNCHANGED <<v1Role, activeUser, roleRows, access, script, grants, promoted, minted>>

SuspendAccount(u) ==
  /\ u \in activeUser /\ activeUser' = activeUser \ {u}
  /\ UNCHANGED <<v1Role, roleRows, folderOf, access, script, accessHistory>>

AccessNext ==
  \/ \E q \in AccessCalls :
       \/ \E u \in Accounts, target \in Accounts, role \in Assignable : BeginGrant(q, u, target, role)
       \/ FindAccount(q) \/ UpsertRole(q)
       \/ \E u \in Accounts, f \in Folders : BeginPresign(q, u, f)
       \/ CheckFolder(q) \/ MintUrl(q)
  \/ \E u \in Accounts, dry \in BOOLEAN : FindPromoted(u, dry)
  \/ Promote
  \/ \E f \in Folders, u \in Accounts : FileReport(f, u) \/ \E c \in Accounts : AssignFolder(f, u, c)
  \/ \E u \in Accounts : SuspendAccount(u)

AccessSpec == AccessInit /\ [][AccessNext]_accessVars

-----------------------------------------------------------------------------
(* Properties *)

\* Every role row leads back to the operator: an admin row to a promotion, which a
\* dry run never is, any other to a grant by somebody the operator made admin.
RolesDescendFromOperator ==
  /\ {u \in Accounts : <<u, "admin">> \in roleRows} = promoted
  /\ grants \subseteq promoted

\* An upload URL for the folder of a report that existed is only ever minted for
\* somebody who has been a party to it, a supervisor or an admin, though the check
\* and the URL are made from what was read before (comment at the check).
FoldersOfParties ==
  \A m \in minted :
    m[3] => <<m[1], m[2]>> \in parties \/ RoleSet(m[1]) \cap {"supervisor", "admin"} # {}

\* No right, to a role or to a folder, without the ground for it.
RightsHaveGround == RolesDescendFromOperator /\ FoldersOfParties
=============================================================================
