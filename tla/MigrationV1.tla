----------------------------- MODULE MigrationV1 -----------------------------
(***************************************************************************)
(* scripts/migrate-mongo-to-postgres.ts: users, roster and reports of the  *)
(* legacy database, copied document by document.  References are rewritten *)
(* through maps that live as long as the run; the script may die after any *)
(* statement and is then run again from the start, while the API serves    *)
(* what has been copied.  Masters are copied as users are, and refer to    *)
(* nothing; columns that are copied as they are, are left out.             *)
(***************************************************************************)
EXTENDS Naturals, FiniteSets

CONSTANTS
  UserDocs,           \* userkycs; an idNumber is the document's
  NoIdNumber,         \* those of them without idNumber
  CleanerDocs, ReportDocs,
  NoDoc,               \* a document that no longer exists, null
  MaxMigrations       \* bound on runs

ASSUME MigrationAssumption ==
  NoIdNumber \subseteq UserDocs /\ NoDoc \notin UserDocs \cup CleanerDocs /\ MaxMigrations \in Nat

VARIABLES
  supervisorRef,      \* cleaners.supervisorId
  userRef, cleanerRef,\* reports.userId, reports.assignedToCleanerId
  newUser,            \* UserAccount by idNumber: copied or not
  newCards,           \* Cleaner: <<document, run that made it, supervisor>>
  newReport,          \* Report by publicId, and the run that made it
  mig                 \* the run: number, documents left, the two maps

migVars == <<supervisorRef, userRef, cleanerRef, newUser, newCards, newReport, mig>>
legacy == <<supervisorRef, userRef, cleanerRef>>

Stopped(n) == [run |-> n, step |-> "stopped"]
Left(n) == [run |-> n, step |-> "users", left |-> UserDocs, users |-> {}, cards |-> {}]

MigInit ==
  /\ supervisorRef \in [CleanerDocs -> UserDocs \cup {NoDoc}]
  /\ userRef \in [ReportDocs -> UserDocs \cup {NoDoc}]
  /\ cleanerRef \in [ReportDocs -> CleanerDocs \cup {NoDoc}]
  /\ newUser = {} /\ newCards = {}
  /\ newReport = [d \in ReportDocs |-> NoDoc]
  /\ mig = Stopped(0)

StartMigration ==
  /\ mig.step = "stopped" /\ mig.run < MaxMigrations
  /\ mig' = Left(mig.run + 1)
  /\ UNCHANGED <<legacy, newUser, newCards, newReport>>

Take(d) == d \in mig.left

\* Mutant: only an account made by this run enters the map.
MappedIfCreated(d) == IF d \in NoIdNumber \cup newUser THEN {} ELSE {d}

\* userIdMap: an account that was there already is mapped, too.
Mapped(d) == IF d \in NoIdNumber THEN {} ELSE {d}

MigrateUser(d) ==
  /\ mig.step = "users" /\ Take(d)
  /\ newUser' = newUser \cup ({d} \ NoIdNumber)
  /\ mig' = [mig EXCEPT !.left = @ \ {d}, !.users = @ \cup Mapped(d)]
  /\ UNCHANGED <<legacy, newCards, newReport>>

\* userIdMap.get(id) ?? null: a supervisor nobody migrated becomes null.
MigrateCleaner(d) ==
  /\ mig.step = "cleaners" /\ Take(d)
  /\ newCards' = newCards \cup
       {<<d, mig.run, IF supervisorRef[d] \in mig.users THEN supervisorRef[d] ELSE NoDoc>>}
  /\ mig' = [mig EXCEPT !.left = @ \ {d}, !.cards = @ \cup {d}]
  /\ UNCHANGED <<legacy, newUser, newReport>>

\* upsert with update: {}
RowKept(old, new) == IF old = NoDoc THEN new ELSE old

\* .get(id) ?? the legacy id, which no row has: written here as the document.
MigrateReport(d) ==
  /\ mig.step = "reports" /\ Take(d)
  /\ newReport' = [newReport EXCEPT ![d] = RowKept(@,
       [user |-> userRef[d], run |-> mig.run,
        userMapped |-> userRef[d] \in mig.users,
        card |-> cleanerRef[d], cardMapped |-> cleanerRef[d] \in mig.cards])]
  /\ mig' = [mig EXCEPT !.left = @ \ {d}]
  /\ UNCHANGED <<legacy, newUser, newCards>>

NextCollection ==
  /\ mig.step # "stopped" /\ mig.left = {}
  /\ mig' = CASE mig.step = "users"    -> [mig EXCEPT !.step = "cleaners", !.left = CleanerDocs]
              [] mig.step = "cleaners" -> [mig EXCEPT !.step = "reports", !.left = ReportDocs]
              [] mig.step = "reports"  -> Stopped(mig.run)
  /\ UNCHANGED <<legacy, newUser, newCards, newReport>>

DieInMigration ==
  /\ mig.step # "stopped" /\ mig' = Stopped(mig.run)
  /\ UNCHANGED <<legacy, newUser, newCards, newReport>>

MigNext ==
  \/ StartMigration \/ NextCollection \/ DieInMigration
  \/ \E d \in UserDocs : MigrateUser(d)
  \/ \E d \in CleanerDocs : MigrateCleaner(d)
  \/ \E d \in ReportDocs : MigrateReport(d)

MigSpec == MigInit /\ [][MigNext]_migVars

-----------------------------------------------------------------------------
(* Properties *)

\* Whatever runs died on the way, a migrated card or report refers to the new row of
\* every document its legacy reference named, if that document could be migrated;
\* for a report's card this is a card made in the report's own run.
RefsResolve ==
  /\ \A c \in newCards :
       /\ supervisorRef[c[1]] \in UserDocs \ NoIdNumber => c[3] = supervisorRef[c[1]]
       /\ c[3] # NoDoc => c[3] \in newUser
  /\ \A d \in ReportDocs : newReport[d] # NoDoc =>
       /\ newReport[d].userMapped = (userRef[d] \in UserDocs \ NoIdNumber)
       /\ newReport[d].cardMapped = (cleanerRef[d] # NoDoc)
       /\ newReport[d].cardMapped =>
            \E c \in newCards : c[1] = cleanerRef[d] /\ c[2] = newReport[d].run
=============================================================================
