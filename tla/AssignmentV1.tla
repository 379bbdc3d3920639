---------------------------- MODULE AssignmentV1 ----------------------------
(***************************************************************************)
(* The v1 report workflow: domain/reports/reports.service.ts (create,      *)
(* update) and domain/cleaners/cleaners.service.ts (reassignSupervisor,    *)
(* assignToReport), with the repositories' statements.  A handler reads    *)
(* its row, decides, and writes with later statements that neither repeat  *)
(* the decision nor share a transaction, so every statement is an action   *)
(* here.  A roster row and the account whose idNumber is its workId are    *)
(* one cleaner; a master acts as the supervisor it names.  The bodies of   *)
(* both handlers are passed through, so either may bring any status, and   *)
(* an update may set the other columns of the row as well.  Photos,        *)
(* coordinates and texts are left out, and so is a body that renames the   *)
(* row's publicId or changes its reporter.                                 *)
(***************************************************************************)
EXTENDS FiniteSets

CONSTANTS
  Supervisors, Cleaners, Reports,
  Requests,           \* requests the API can have in flight
  Nobody, NoReport

ASSUME PeopleAssumption ==
  Supervisors \cap Cleaners = {} /\ Nobody \notin Supervisors \cup Cleaners
ASSUME ReportsAssumption == NoReport \notin Reports

VARIABLES
  report,             \* the Report rows, by publicId
  roster,             \* the Cleaner rows: supervisorId, assignedTaskId
  told,               \* the last notification sent about each report
  op,                 \* what each request is doing, and what it read
  hand,               \* history: the columns of each row that a body set by hand
  faulty              \* history: two requests have overlapped, or one has failed

vars == <<report, roster, told, op, hand, faulty>>

-----------------------------------------------------------------------------
\* The statuses the handlers name, and "In Progress" or any other string a body brings.
Statuses == {"Reported", "Assigned", "Awaiting Endorsement", "Resolved", "Rejected", "Other"}

\* An update may also name no status.
Asked == Statuses \cup {"unnamed"}

Decided == {"Resolved", "Rejected"}

Row == [status : Statuses, cleaner : Cleaners \cup {Nobody},
        supervisor : Supervisors \cup {Nobody}, reviewer : Supervisors \cup {Nobody}]

ASSUME RowAssumption == NoReport \notin Row

NewRow(status) == [status |-> status, cleaner |-> Nobody,
                   supervisor |-> Nobody, reviewer |-> Nobody]

Stored == {r \in Reports : report[r] # NoReport}

Notice == [type : {"none", "report_created", "report_acknowledged", "report_pending_endorsement",
                   "report_resolved_reporter", "report_rejected"},
           to : SUBSET (Supervisors \cup Cleaners)]
NoNotice == [type |-> "none", to |-> {}]

Idle == [step |-> "idle"]

\* A request arrives.
Begin(q) == op[q] = Idle /\ faulty' = (faulty \/ \E p \in Requests : op[p] # Idle)

\* Mutant: the cleaner's word is taken.
StatusAsRequested(actor, status) == status

\* resolveNextStatus: a cleaner's "Resolved" waits for its supervisor.
NextStatus(actor, status) ==
  IF actor \in Cleaners /\ status = "Resolved" THEN "Awaiting Endorsement" ELSE status

\* What resolveNextStatus throws on, judged on the row the request read.
Allowed(seen, actor, status) ==
  status = "Rejected" => /\ actor \in Supervisors
                         /\ seen.status \in {"Awaiting Endorsement", "Rejected"}

\* Mutant: the reviewer of an earlier round stays on a new submission.
ReviewerKept(old, actor, status) ==
  IF status \in Decided THEN actor ELSE old

\* The review stamps of update.
Reviewer(old, actor, status) ==
  CASE status = "Awaiting Endorsement"       -> Nobody
    [] status \in Decided                    -> actor
    [] OTHER                                 -> old

\* The row with the status asked for and its stamps, and the rows a body can make
\* of it: the stamps overwrite a reviewer it names, nothing overwrites its staff.
Stamped(row, actor, status) ==
  [row EXCEPT !.status = IF status = "unnamed" THEN @ ELSE status,
              !.reviewer = Reviewer(@, actor, status)]

Bodies(row, status) ==
  {b \in Row : /\ b.status = row.status
               /\ status \in Decided \cup {"Awaiting Endorsement"} => b.reviewer = row.reviewer}

Columns == {"status", "cleaner", "supervisor", "reviewer"}
Changed(row, b) == {col \in Columns : b[col] # row[col]}

People(s) == s \ {Nobody}

\* Mutant: the supervisor who assigned the work is not told.
RecipientsWithoutSupervisor(seen, status) ==
  IF status \in Decided THEN People({seen.cleaner}) ELSE {}

\* Whom update notifies, from the row it read at the start; of another status, nobody.
Recipients(seen, status) ==
  CASE status = "Awaiting Endorsement" -> People({seen.supervisor})
    [] status \in Decided              -> People({seen.cleaner, seen.supervisor})
    [] OTHER                           -> {}

\* sendToRecipients, the last thing a request does.
TellOf(q, r, type, to) ==
  /\ told' = [told EXCEPT ![r] = [type |-> type, to |-> to]]
  /\ op' = [op EXCEPT ![q] = Idle]
  /\ UNCHANGED <<report, roster, hand, faulty>>

-----------------------------------------------------------------------------
Init ==
  /\ report = [r \in Reports |-> NoReport]
  /\ roster \in [Cleaners -> [supervisor : Supervisors, task : {NoReport}]]
  /\ told = [r \in Reports |-> NoNotice]
  /\ op = [q \in Requests |-> Idle]
  /\ hand = [r \in Reports |-> {}]
  /\ faulty = FALSE

\* create, its publicId taken from the tenant's sequence and its status from the
\* body, a decision's too; the supervisors are told of what the public reports,
\* not of what staff do.
CreateReport(q, r, status) ==
  /\ Begin(q) /\ r \notin Stored
  /\ report' = [report EXCEPT ![r] = NewRow(status)]
  /\ hand' = [hand EXCEPT ![r] = IF status \in Decided THEN {"status"} ELSE {}]
  /\ \/ op' = [op EXCEPT ![q] = [step |-> "announce", report |-> r]]
     \/ UNCHANGED op
  /\ UNCHANGED <<roster, told>>

Announce(q) == op[q].step = "announce" /\ TellOf(q, op[q].report, "report_created", Supervisors)

\* reassignSupervisor: one UPDATE of the roster row.
ReassignSupervisor(q, c, s) ==
  /\ Begin(q)
  /\ roster' = [roster EXCEPT ![c].supervisor = s]
  /\ UNCHANGED <<report, told, op, hand>>

\* assignToReport reads the roster row; a cleaner of another supervisor is refused.
BeginAssign(q, s, c, r) ==
  /\ Begin(q)
  /\ roster[c].supervisor = s
  /\ op' = [op EXCEPT ![q] = [step |-> "task", by |-> s, cleaner |-> c, report |-> r]]
  /\ UNCHANGED <<report, roster, told, hand>>

\* assignTask: whatever the cleaner was busy with is overwritten, and the
\* report id is not looked up.
AssignTask(q) ==
  /\ op[q].step = "task"
  /\ roster' = [roster EXCEPT ![op[q].cleaner] =
                  [supervisor |-> op[q].by, task |-> op[q].report]]
  /\ op' = [op EXCEPT ![q].step = "assign"]
  /\ UNCHANGED <<report, told, hand, faulty>>

\* assignToCleaner, from any status; no row, no notification.
AssignReport(q) ==
  /\ op[q].step = "assign"
  /\ IF op[q].report \in Stored
     THEN /\ report' = [report EXCEPT ![op[q].report].status = "Assigned",
                                      ![op[q].report].cleaner = op[q].cleaner,
                                      ![op[q].report].supervisor = op[q].by]
          /\ hand' = [hand EXCEPT ![op[q].report] = {}]
          /\ op' = [op EXCEPT ![q].step = "acknowledge"]
     ELSE op' = [op EXCEPT ![q] = Idle] /\ UNCHANGED <<report, hand>>
  /\ UNCHANGED <<roster, told, faulty>>

Acknowledge(q) ==
  /\ op[q].step = "acknowledge"
  /\ TellOf(q, op[q].report, "report_acknowledged", {op[q].cleaner, op[q].by})

-----------------------------------------------------------------------------
\* update reads the report and resolves the status it will write.
BeginUpdate(q, actor, r, status) ==
  /\ Begin(q) /\ r \in Stored
  /\ Allowed(report[r], actor, status)
  /\ op' = [op EXCEPT ![q] =
       [step |-> IF NextStatus(actor, status) = "Resolved" THEN "clear" ELSE "write",
        by |-> actor, report |-> r, status |-> NextStatus(actor, status),
        to |-> Recipients(report[r], NextStatus(actor, status))]]
  /\ UNCHANGED <<report, roster, told, hand>>

\* Mutant: the endorsed report's cleaners stay on it.
ClearNothing(q) ==
  /\ op[q].step = "clear"
  /\ op' = [op EXCEPT ![q].step = "write"]
  /\ UNCHANGED <<report, roster, told, hand, faulty>>

\* clearAssignmentByTaskId, before photos are stored and the report is written.
ClearAssignment(q) ==
  /\ op[q].step = "clear"
  /\ roster' = [c \in Cleaners |-> IF roster[c].task = op[q].report
                                   THEN [roster[c] EXCEPT !.task = NoReport] ELSE roster[c]]
  /\ op' = [op EXCEPT ![q].step = "write"]
  /\ UNCHANGED <<report, told, hand, faulty>>

\* updateMany with the patch, whatever columns it carries besides the stamps.
WriteReport(q) ==
  LET o == op[q]
      r == o.report
      row == Stamped(report[r], o.by, o.status)
  IN
  /\ o.step = "write"
  /\ \E b \in Bodies(row, o.status) :
       /\ report' = [report EXCEPT ![r] = b]
       /\ hand' = [hand EXCEPT ![r] =
                     Changed(row, b) \cup IF o.status = "unnamed" THEN @ ELSE {}]
  /\ op' = [op EXCEPT ![q].step = "tell"]
  /\ UNCHANGED <<roster, told, faulty>>

Tell(q) ==
  LET o == op[q] IN
  /\ o.step = "tell"
  /\ \/ /\ o.status = "Awaiting Endorsement" /\ o.to # {}
        /\ TellOf(q, o.report, "report_pending_endorsement", o.to)
     \/ o.status = "Resolved" /\ TellOf(q, o.report, "report_resolved_reporter", o.to)
     \/ o.status = "Rejected" /\ TellOf(q, o.report, "report_rejected", o.to)
     \/ /\ o.status \notin Decided /\ o.to = {}
        /\ op' = [op EXCEPT ![q] = Idle]
        /\ UNCHANGED <<report, roster, told, hand, faulty>>

\* The request ends early: a photo cannot be stored, the database or the process fails.
Fail(q) ==
  /\ op[q] # Idle
  /\ op' = [op EXCEPT ![q] = Idle]
  /\ faulty' = TRUE
  /\ UNCHANGED <<report, roster, told, hand>>

-----------------------------------------------------------------------------
Serve ==
  \E q \in Requests :
    \/ \E r \in Reports, st \in Statuses : CreateReport(q, r, st)
    \/ Announce(q)
    \/ \E c \in Cleaners, s \in Supervisors : ReassignSupervisor(q, c, s)
    \/ \E s \in Supervisors, c \in Cleaners, r \in Reports : BeginAssign(q, s, c, r)
    \/ AssignTask(q) \/ AssignReport(q) \/ Acknowledge(q)
    \/ \E a \in Supervisors \cup Cleaners, r \in Reports, st \in Asked :
         BeginUpdate(q, a, r, st)
    \/ ClearAssignment(q) \/ WriteReport(q) \/ Tell(q)

Next == Serve \/ \E q \in Requests : Fail(q)

\* Nothing fails.
ReliableSpec == Init /\ [][Serve]_vars
Spec == Init /\ [][Next]_vars

-----------------------------------------------------------------------------
OpTypes ==
  {Idle} \cup [step : {"announce"}, report : Reports] \cup
  [step : {"task", "assign", "acknowledge"}, by : Supervisors,
   cleaner : Cleaners, report : Reports] \cup
  [step : {"clear", "write", "tell"}, by : Supervisors \cup Cleaners,
   report : Reports, status : Asked, to : SUBSET (Supervisors \cup Cleaners)]

\* Rows, notifications and requests stay within the schema's values; only a
\* supervisor is ever a reviewer, and only a stored report is updated.
TypeOK ==
  /\ report \in [Reports -> Row \cup {NoReport}]
  /\ roster \in [Cleaners -> [supervisor : Supervisors, task : Reports \cup {NoReport}]]
  /\ told \in [Reports -> Notice]
  /\ \A q \in Requests :
       /\ op[q] \in OpTypes
       /\ op[q].step \in {"announce", "acknowledge", "clear", "write", "tell"} => op[q].report \in Stored
  /\ hand \in [Reports -> SUBSET Columns]
  /\ faulty \in BOOLEAN

\* However requests overlap, a report that is filed becomes Resolved or Rejected only
\* at the write of a supervisor's request: the cleaner's "Resolved" never lands as such.
OnlySupervisorsDecide ==
  [][\A r \in Stored :
       /\ report'[r].status # report[r].status
       /\ report'[r].status \in Decided
       => \E q \in Requests : /\ op[q].step = "write" /\ op[q].report = r
                              /\ op[q].by \in Supervisors]_vars

\* However requests overlap, what was submitted for endorsement carries no earlier
\* reviewer, and a decision carries the supervisor who took it, unless a body set the
\* reviewer by hand or the report was filed as decided.
ReviewIsSigned ==
  \A r \in Stored : hand[r] \cap {"status", "reviewer"} = {} =>
    /\ report[r].status = "Awaiting Endorsement" => report[r].reviewer = Nobody
    /\ report[r].status \in Decided => report[r].reviewer # Nobody

\* A cleaner is taken off a task, without being given another, only by the
\* endorsement of that report: neither the cleaner's own "Resolved" nor a
\* rejection frees anyone.
OnlyEndorsementFrees ==
  [][\A c \in Cleaners :
       roster[c].task # NoReport /\ roster'[c].task = NoReport
       => \E q \in Requests : /\ op[q].step = "clear" /\ op[q].report = roster[c].task
                              /\ op[q].by \in Supervisors]_vars

\* Who may decide and who may free, whatever row the request has read.
WritesByRight == OnlySupervisorsDecide /\ OnlyEndorsementFrees

\* Type correctness and the signatures on the reviews.
AssignmentInv == TypeOK /\ ReviewIsSigned

Quiet == \A q \in Requests : op[q] = Idle

\* "Endorsement clears the cleaner's assignment so the slot frees up"
\* (reports.endorsement-lifecycle.test.ts:198): once an endorsement is over, and
\* while nothing failed, no cleaner is still on the report.
ResolvedFreesCleaners ==
  Quiet => \A r \in Stored : report[r].status = "Resolved" /\ "status" \notin hand[r]
             => \A c \in Cleaners : roster[c].task # r

\* It is so while requests run one at a time and none fails.
OrderlyResolvedFrees == ~ faulty => ResolvedFreesCleaners

\* "Only resolutions awaiting endorsement can be rejected" (reports.service.ts:183):
\* a filed report becomes Rejected from there alone.
RejectOnlyAwaiting ==
  [][\A r \in Stored :
       report'[r].status = "Rejected" /\ report[r].status # "Rejected"
       => report[r].status = "Awaiting Endorsement"]_vars

\* Requests run one at a time and none failing, the last thing said about a decided
\* report is its decision, said to the cleaner and the supervisor the row names,
\* unless a body named those by hand or the report was filed as decided.
LastNoticeTellsStatus ==
  Quiet /\ ~ faulty => \A r \in Stored : hand[r] \subseteq {"reviewer"} =>
    LET named == People({report[r].cleaner, report[r].supervisor}) IN
    /\ report[r].status = "Resolved" => told[r] = [type |-> "report_resolved_reporter", to |-> named]
    /\ report[r].status = "Rejected" => told[r] = [type |-> "report_rejected", to |-> named]
    /\ report[r].status = "Awaiting Endorsement" /\ report[r].supervisor # Nobody =>
         told[r] = [type |-> "report_pending_endorsement", to |-> {report[r].supervisor}]

\* What a decided report is at rest, of requests that run one at a time.
OrderlyRest == OrderlyResolvedFrees /\ LastNoticeTellsStatus

-----------------------------------------------------------------------------
\* The request that has written the roster and has the report yet to write.
HalfWritten(o) == o.step = "assign" \/ (o.step = "write" /\ o.status = "Resolved")

UnderWay ==
  IF \E q \in Requests : HalfWritten(op[q])
  THEN op[CHOOSE q \in Requests : HalfWritten(op[q])] ELSE Idle

\* The reports as they will be when it has.
WhenWritten(o) ==
  [r \in Reports |->
     IF ~ (HalfWritten(o) /\ o.report = r /\ r \in Stored) THEN report[r]
     ELSE IF o.step = "assign"
     THEN [report[r] EXCEPT !.status = "Assigned", !.cleaner = o.cleaner, !.supervisor = o.by]
     ELSE [report[r] EXCEPT !.status = "Resolved", !.reviewer = o.by]]

Lifecycle == INSTANCE AssignmentLifecycle WITH report <- WhenWritten(UnderWay), roster <- roster

\* Until two requests overlap or one fails, the handlers, which test first and
\* write two tables with later statements, do what the sequential workflow does:
\* each request is one step of it, at its write of the roster if it has one
\* (assignToReport, and update when it endorses), else at its write of the report;
\* what an endorsing body sets besides is a further edit.
OneByOneIsSequential ==
  /\ Lifecycle!AInit
  /\ [][faulty' \/ Lifecycle!ANext
        \/ UNCHANGED <<WhenWritten(UnderWay), roster>>]_vars
=============================================================================
