------------------------------ MODULE ReportsV2 ------------------------------
(***************************************************************************)
(* The v2 report workflow, apps/api/src/v2/reports/reports.service.ts.     *)
(*                                                                         *)
(* A request runs one handler.  The handler is a Postgres transaction at   *)
(* READ COMMITTED: it reads the report and tests it, bumps the row with    *)
(* "UPDATE .. WHERE id AND version", inserts an event (whose seq the       *)
(* sequence allocates at once, outside any transaction), inserts the       *)
(* notifications and commits; the pushes go out after the commit.  Every   *)
(* await is a point where other requests run, so each of these is an       *)
(* action.  The row lock that UPDATE takes is held until the transaction   *)
(* ends; what a transaction has written is seen by nobody else before it   *)
(* commits.                                                                *)
(***************************************************************************)
EXTENDS Integers, FiniteSets

CONSTANTS
  Users,          \* accounts of one tenant, every one of them a reporter
  Supervisors,    \* those with the supervisor role
  Cleaners,       \* those with the cleaner role
  Reports,        \* report ids that may come to exist
  Requests,       \* requests the API can have in flight
  NoUser,         \* a null assignedCleanerId / assignedSupervisorId
  NoReport, NoRequest,
  MaxSeq          \* bound: event sequence numbers ever allocated

ASSUME UsersAssumption ==
  Supervisors \subseteq Users /\ Cleaners \subseteq Users /\ NoUser \notin Users
ASSUME IdsAssumption ==
  NoReport \notin Reports /\ NoRequest \notin Requests /\ MaxSeq \in Nat

VARIABLES
  report,         \* the committed ReportV2 rows
  rowLock,        \* the request whose open transaction wrote the row, if any
  nextSeq,        \* ReportEventV2.seq autoincrement
  events,         \* committed ReportEventV2 rows
  notifications,  \* committed NotificationV2 rows
  attachments,    \* committed ReportAttachmentV2 rows
  pushed,         \* events whose pushes were handed to FCM
  pc,             \* where each request stands
  req,            \* what each request asks for
  existing,       \* the row the request read at its start
  pending,        \* the row its transaction wrote
  seqOf,          \* the seq its event received
  staged          \* the attachments its transaction inserted

database == <<report, rowLock, nextSeq, events, notifications, attachments>>
handler  == <<pc, req, existing, pending, seqOf, staged>>
vars == <<database, pushed, handler>>

-----------------------------------------------------------------------------
(* Rows and requests *)

AssignTypes     == {"report_assigned"}
CleanerTypes    == {"cleaner_accepted_task", "cleaner_rejected_task",
                    "cleaner_started_work", "cleaner_submitted_resolution"}
SupervisorTypes == {"report_assigned", "supervisor_endorsed", "supervisor_rejected"}
EventTypes      == {"report_created"} \cup SupervisorTypes \cup CleanerTypes

\* The status each handler writes.
StatusAfter(type) ==
  CASE type = "report_created"               -> "submitted"
    [] type = "report_assigned"              -> "assigned"
    [] type = "cleaner_accepted_task"        -> "accepted_by_cleaner"
    [] type = "cleaner_rejected_task"        -> "rejected_by_cleaner"
    [] type = "cleaner_started_work"         -> "in_progress"
    [] type = "cleaner_submitted_resolution" -> "resolved_by_cleaner"
    [] type = "supervisor_endorsed"          -> "endorsed_by_supervisor"
    [] type = "supervisor_rejected"          -> "rejected_by_supervisor"

\* "absent": the row is not there yet.  No handler writes closed or cancelled.
Status == {"absent", "submitted", "assigned", "accepted_by_cleaner", "in_progress",
           "resolved_by_cleaner", "endorsed_by_supervisor", "rejected_by_cleaner",
           "rejected_by_supervisor"}

MaybeUser == Users \cup {NoUser}

Row == [status : Status, version : Nat, reporter : MaybeUser,
        supervisor : MaybeUser, cleaner : MaybeUser]
AbsentRow == [status |-> "absent", version |-> 0, reporter |-> NoUser,
              supervisor |-> NoUser, cleaner |-> NoUser]

Call == [type : EventTypes \cup {"none"}, user : MaybeUser,
         report : Reports \cup {NoReport}, cleaner : MaybeUser]
NoCall == [type |-> "none", user |-> NoUser, report |-> NoReport, cleaner |-> NoUser]

\* base stands for the file: the upload belongs to the request that read this version.
Attachment == [report : Reports, by : Users, base : Nat]

Event == [seq : Nat, report : Reports, type : EventTypes, actor : Users,
          status : Status, cleaner : MaybeUser]

Notification == [user : Users, event : Nat,
                 audience : {"reporter", "supervisor", "cleaner"}]

\* The patch of each handler, applied to the row in the database.
Patch(row, q) ==
  [status     |-> StatusAfter(q.type),
   version    |-> row.version + 1,
   reporter   |-> IF q.type = "report_created" THEN q.user ELSE row.reporter,
   supervisor |-> IF q.type \in SupervisorTypes THEN q.user ELSE row.supervisor,
   cleaner    |-> IF q.type \in AssignTypes THEN q.cleaner ELSE row.cleaner]

\* Mutant: an assignment and a review tell the reporter only.
AudienceWithoutCleaner(q, row) ==
  [supervisor |-> IF q.type = "report_created" THEN Supervisors \ {q.user}
                  ELSE {row.supervisor} \ {NoUser},
   reporter |-> {row.reporter}, cleaner |-> {}]

\* The notifyUsers calls of each handler; one call drops null ids and duplicates,
\* two calls may still reach the same user twice.
Audience(q, row) ==
  CASE q.type = "report_created" -> [supervisor |-> Supervisors \ {q.user},
                                     reporter |-> {row.reporter}, cleaner |-> {}]
    [] q.type \in CleanerTypes   -> [supervisor |-> {row.supervisor} \ {NoUser},
                                     reporter |-> {row.reporter}, cleaner |-> {}]
    [] OTHER                     -> [supervisor |-> {},
                                     reporter |-> {row.reporter},
                                     cleaner |-> {row.cleaner} \ {NoUser}]

NotificationsOf(q, row, seq) ==
  {n \in [user : Users, event : {seq}, audience : {"reporter", "supervisor", "cleaner"}] :
     n.user \in Audience(q, row)[n.audience]}

EventOf(q, row, seq) ==
  [seq |-> seq, report |-> q.report, type |-> q.type, actor |-> q.user,
   status |-> row.status, cleaner |-> q.cleaner]

-----------------------------------------------------------------------------
Init ==
  /\ report = [r \in Reports |-> AbsentRow]
  /\ rowLock = [r \in Reports |-> NoRequest]
  /\ nextSeq = 1
  /\ events = {} /\ notifications = {} /\ attachments = {} /\ pushed = {}
  /\ pc = [h \in Requests |-> "idle"]
  /\ req = [h \in Requests |-> NoCall]
  /\ existing = [h \in Requests |-> AbsentRow]
  /\ pending = [h \in Requests |-> AbsentRow]
  /\ seqOf = [h \in Requests |-> 0]
  /\ staged = [h \in Requests |-> {}]

\* Requests start only while a sequence number is left for every one in flight.
WithinBound == nextSeq + Cardinality({h \in Requests : pc[h] # "idle"}) <= MaxSeq

\* Mutant: the evidence is inserted outside the transaction.
ReadStoringEvidence(h, q, evidence) ==
  /\ pc[h] = "idle" /\ WithinBound
  /\ pc' = [pc EXCEPT ![h] = "loaded"]
  /\ req' = [req EXCEPT ![h] = q]
  /\ existing' = [existing EXCEPT ![h] = report[q.report]]
  /\ attachments' = attachments \cup evidence
  /\ UNCHANGED <<report, rowLock, nextSeq, events, notifications, pushed,
                 pending, seqOf, staged>>

\* The handler's first statement, and its tests of the row it returns.  A test
\* that fails answers 404 or 409 and leaves no trace: no step.
Read(h, q, evidence) ==
  /\ pc[h] = "idle" /\ WithinBound
  /\ pc' = [pc EXCEPT ![h] = "loaded"]
  /\ req' = [req EXCEPT ![h] = q]
  /\ existing' = [existing EXCEPT ![h] = report[q.report]]
  /\ staged' = [staged EXCEPT ![h] = evidence]
  /\ UNCHANGED <<database, pushed, pending, seqOf>>

AsSupervisor(h, u, r, type, cleaner, from) ==
  /\ report[r].status \in from
  /\ Read(h, [type |-> type, user |-> u, report |-> r, cleaner |-> cleaner], {})

AsCleaner(h, u, r, type, from, evidence) ==
  /\ report[r].cleaner = u
  /\ report[r].status \in from
  /\ Read(h, [type |-> type, user |-> u, report |-> r, cleaner |-> NoUser], evidence)

\* A new row has a fresh id, so no other transaction can touch it.
CreateReport(h, u, r, evidence) ==
  LET q == [type |-> "report_created", user |-> u, report |-> r, cleaner |-> NoUser] IN
  /\ pc[h] = "idle" /\ WithinBound
  /\ report[r].status = "absent" /\ rowLock[r] = NoRequest
  /\ pc' = [pc EXCEPT ![h] = "written"]
  /\ req' = [req EXCEPT ![h] = q]
  /\ pending' = [pending EXCEPT ![h] = Patch(AbsentRow, q)]
  /\ rowLock' = [rowLock EXCEPT ![r] = h]
  /\ staged' = [staged EXCEPT ![h] = evidence]
  /\ UNCHANGED <<report, nextSeq, events, notifications, attachments, pushed,
                 existing, seqOf>>

\* The chosen account must exist; nothing asks for its cleaner role.
AssignCleaner(h, u, r, c) ==
  AsSupervisor(h, u, r, "report_assigned", c,
               {"submitted", "rejected_by_supervisor", "rejected_by_cleaner", "assigned"})

SupervisorEndorse(h, u, r) ==
  AsSupervisor(h, u, r, "supervisor_endorsed", NoUser, {"resolved_by_cleaner"})

SupervisorReject(h, u, r) ==
  AsSupervisor(h, u, r, "supervisor_rejected", NoUser, {"resolved_by_cleaner"})

CleanerAccept(h, u, r) ==
  AsCleaner(h, u, r, "cleaner_accepted_task", {"assigned"}, {})

CleanerReject(h, u, r) ==
  AsCleaner(h, u, r, "cleaner_rejected_task", {"assigned", "accepted_by_cleaner"}, {})

CleanerStart(h, u, r) ==
  AsCleaner(h, u, r, "cleaner_started_work",
            {"accepted_by_cleaner", "rejected_by_supervisor"}, {})

\* The evidence rows go in before the version is tested.
CleanerResolve(h, u, r, evidence) ==
  AsCleaner(h, u, r, "cleaner_submitted_resolution", {"in_progress"}, evidence)

\* The request is over: answered, or its process died.
Finish(h) ==
  /\ pc' = [pc EXCEPT ![h] = "idle"]
  /\ req' = [req EXCEPT ![h] = NoCall]
  /\ existing' = [existing EXCEPT ![h] = AbsentRow]
  /\ pending' = [pending EXCEPT ![h] = AbsentRow]
  /\ seqOf' = [seqOf EXCEPT ![h] = 0]
  /\ staged' = [staged EXCEPT ![h] = {}]

Unlock(h) == rowLock' = [r \in Reports |-> IF rowLock[r] = h THEN NoRequest ELSE rowLock[r]]

\* Mutant: UPDATE .. WHERE id, without the version.
BumpAnyVersion(h) ==
  LET r == req[h].report IN
  /\ pc[h] = "loaded" /\ rowLock[r] = NoRequest
  /\ pc' = [pc EXCEPT ![h] = "written"]
  /\ pending' = [pending EXCEPT ![h] = Patch(report[r], req[h])]
  /\ rowLock' = [rowLock EXCEPT ![r] = h]
  /\ UNCHANGED <<report, nextSeq, events, notifications, attachments, pushed,
                 req, existing, seqOf, staged>>

\* Mutant: the row the handler read is patched and saved.
BumpWhatWasRead(h) ==
  LET r == req[h].report IN
  /\ pc[h] = "loaded" /\ rowLock[r] = NoRequest
  /\ pc' = [pc EXCEPT ![h] = "written"]
  /\ pending' = [pending EXCEPT ![h] = Patch(existing[h], req[h])]
  /\ rowLock' = [rowLock EXCEPT ![r] = h]
  /\ UNCHANGED <<report, nextSeq, events, notifications, attachments, pushed,
                 req, existing, seqOf, staged>>

\* UPDATE .. WHERE id AND version: waits for the row's writer to end, then
\* evaluates the condition on the row as committed.
BumpVersion(h) ==
  LET r == req[h].report IN
  /\ pc[h] = "loaded" /\ rowLock[r] = NoRequest
  /\ report[r].version = existing[h].version
  /\ pc' = [pc EXCEPT ![h] = "written"]
  /\ pending' = [pending EXCEPT ![h] = Patch(report[r], req[h])]
  /\ rowLock' = [rowLock EXCEPT ![r] = h]
  /\ UNCHANGED <<report, nextSeq, events, notifications, attachments, pushed,
                 req, existing, seqOf, staged>>

StaleVersion(h) ==
  /\ pc[h] = "loaded" /\ rowLock[req[h].report] = NoRequest
  /\ report[req[h].report].version # existing[h].version
  /\ Finish(h)
  /\ UNCHANGED <<database, pushed>>

\* Mutant: the event is inserted outside the transaction.
CreateEventAtOnce(h) ==
  /\ pc[h] = "written"
  /\ pc' = [pc EXCEPT ![h] = "logged"]
  /\ seqOf' = [seqOf EXCEPT ![h] = nextSeq]
  /\ nextSeq' = nextSeq + 1
  /\ events' = events \cup {EventOf(req[h], pending[h], nextSeq)}
  /\ UNCHANGED <<report, rowLock, notifications, attachments, pushed,
                 req, existing, pending, staged>>

CreateEvent(h) ==
  /\ pc[h] = "written"
  /\ pc' = [pc EXCEPT ![h] = "logged"]
  /\ seqOf' = [seqOf EXCEPT ![h] = nextSeq]
  /\ nextSeq' = nextSeq + 1
  /\ UNCHANGED <<report, rowLock, events, notifications, attachments, pushed,
                 req, existing, pending, staged>>

\* The last inserts (the notifications) and COMMIT.
Commit(h) ==
  /\ pc[h] = "logged"
  /\ report' = [report EXCEPT ![req[h].report] = pending[h]]
  /\ events' = events \cup {EventOf(req[h], pending[h], seqOf[h])}
  /\ notifications' = notifications \cup NotificationsOf(req[h], pending[h], seqOf[h])
  /\ attachments' = attachments \cup staged[h]
  /\ Unlock(h)
  /\ pc' = [pc EXCEPT ![h] = "committed"]
  /\ UNCHANGED <<nextSeq, pushed, req, existing, pending, seqOf, staged>>

SendStagePush(h) ==
  /\ pc[h] = "committed"
  /\ pushed' = pushed \cup {seqOf[h]}
  /\ Finish(h)
  /\ UNCHANGED database

\* A statement fails, the transaction times out or the process dies: Postgres
\* rolls back what is not committed; the sequence keeps what it allocated.
Abort(h) ==
  /\ pc[h] # "idle"
  /\ Unlock(h)
  /\ Finish(h)
  /\ UNCHANGED <<report, nextSeq, events, notifications, attachments, pushed>>

Quiet == (\A h \in Requests : pc[h] = "idle") /\ UNCHANGED vars

Evidence(u, r) == {{}, {[report |-> r, by |-> u, base |-> report[r].version]}}

Step(h) == BumpVersion(h) \/ StaleVersion(h) \/ CreateEvent(h) \/ Commit(h) \/ SendStagePush(h)

Next ==
  \/ \E h \in Requests, r \in Reports :
       \/ \E u \in Users : \E e \in Evidence(u, r) : CreateReport(h, u, r, e)
       \/ \E u \in Supervisors :
            \/ \E c \in Users : AssignCleaner(h, u, r, c)
            \/ SupervisorEndorse(h, u, r)
            \/ SupervisorReject(h, u, r)
       \/ \E u \in Cleaners :
            \/ CleanerAccept(h, u, r)
            \/ CleanerReject(h, u, r)
            \/ CleanerStart(h, u, r)
            \/ \E e \in Evidence(u, r) : CleanerResolve(h, u, r, e)
  \/ \E h \in Requests : Step(h) \/ Abort(h)
  \/ Quiet

Spec == Init /\ [][Next]_vars

-----------------------------------------------------------------------------
(* Fairness: the event loop and the database run every statement that is     *)
(* issued.  Postgres queues the waiters of a row lock, so a waiting UPDATE    *)
(* is not overtaken for ever.                                                 *)
Fairness ==
  \A h \in Requests :
    /\ WF_vars(StaleVersion(h)) /\ WF_vars(CreateEvent(h))
    /\ WF_vars(Commit(h)) /\ WF_vars(SendStagePush(h))
    /\ SF_vars(BumpVersion(h) \/ StaleVersion(h))

FairSpec == Spec /\ Fairness

-----------------------------------------------------------------------------
(* Properties *)

TypeOK ==
  /\ report \in [Reports -> Row]
  /\ rowLock \in [Reports -> Requests \cup {NoRequest}]
  /\ nextSeq \in Nat \ {0}
  /\ events \subseteq Event
  /\ notifications \subseteq Notification
  /\ attachments \subseteq Attachment
  /\ pushed \subseteq Nat
  /\ pc \in [Requests -> {"idle", "loaded", "written", "logged", "committed"}]
  /\ req \in [Requests -> Call]
  /\ existing \in [Requests -> Row]
  /\ pending \in [Requests -> Row]
  /\ seqOf \in [Requests -> Nat]
  /\ staged \in [Requests -> SUBSET Attachment]

LogOf(r) == {e \in events : e.report = r}
LogUpTo(e) == {f \in LogOf(e.report) : f.seq <= e.seq}
IsLast(e, log) == e \in log /\ \A f \in log : f.seq <= e.seq

\* Concurrent requests amount to requests run one at a time: every commit is one
\* legal step of the machine on the row it replaces, whatever the row was when
\* the handler tested it.
Lifecycle == INSTANCE ReportLifecycle WITH report <- report
ImplementsLifecycle == Lifecycle!LSpec

\* The event log is the source of truth (file header, line 7): a report's version
\* counts its events, so no mutation is without an event and no event without one,
\* and no phone hears of a change that did not happen.
VersionCountsEvents ==
  /\ \A r \in Reports : report[r].version = Cardinality(LogOf(r))
  /\ \A s \in pushed : \E e \in events : e.seq = s

\* .. and the newest event, in seq order, tells the report's status.
LastEventTellsStatus ==
  \A r \in Reports : \A e \in LogOf(r) : IsLast(e, LogOf(r)) => e.status = report[r].status

\* Every accept, refusal, start and resolution in the log comes from the cleaner
\* whom the latest assignment before it names, reassignments in flight included.
WorkByAssignee ==
  \A e \in events : e.type \in CleanerTypes =>
    LET given == {f \in LogUpTo(e) : f.type = "report_assigned"} IN
      given # {} /\ \A f \in given : IsLast(f, given) => f.cleaner = e.actor

\* Whoever has to act next on a report holds a notification of the event that
\* brought it to them (file header, line 9).
NextActor(r) ==
  LET row == report[r] IN
  CASE row.status = "submitted" -> Supervisors \ {row.reporter}
    [] row.status \in {"assigned", "rejected_by_supervisor"} -> {row.cleaner}
    [] row.status \in {"resolved_by_cleaner", "rejected_by_cleaner"} -> {row.supervisor}
    [] OTHER -> {}
NextActorNotified ==
  \A r \in Reports : \A e \in LogOf(r) : IsLast(e, LogOf(r)) =>
    \A u \in NextActor(r) : \E n \in notifications : n.user = u /\ n.event = e.seq

\* Evidence in the database was committed with the creation or the resolution it
\* was uploaded for: the next event after the version that request had read.
EvidenceHasEvent ==
  \A a \in attachments : \E e \in LogOf(a.report) :
    /\ e.type \in {"report_created", "cleaner_submitted_resolution"}
    /\ e.actor = a.by
    /\ Cardinality(LogUpTo(e)) = a.base + 1

\* Endorsement is final, for every request that read the report before it too.
EndorsementIsFinal ==
  [][\A r \in Reports :
       report[r].status = "endorsed_by_supervisor" => report'[r] = report[r]]_vars

-----------------------------------------------------------------------------
(* The inductive invariant behind the theorems of ReportsV2Proofs *)

\* What the handler of call q tests of the row.
Admits(row, q) ==
  \/ q.type = "report_created" /\ q.user \in Users /\ row = AbsentRow
  \/ /\ q.type = "report_assigned" /\ q.user \in Supervisors /\ q.cleaner \in Users
     /\ row.status \in {"submitted", "rejected_by_supervisor", "rejected_by_cleaner",
                        "assigned"}
  \/ /\ q.type \in {"supervisor_endorsed", "supervisor_rejected"}
     /\ q.user \in Supervisors /\ row.status = "resolved_by_cleaner"
  \/ /\ q.user \in Cleaners /\ row.cleaner = q.user
     /\ \/ q.type = "cleaner_accepted_task" /\ row.status = "assigned"
        \/ /\ q.type = "cleaner_rejected_task"
           /\ row.status \in {"assigned", "accepted_by_cleaner"}
        \/ /\ q.type = "cleaner_started_work"
           /\ row.status \in {"accepted_by_cleaner", "rejected_by_supervisor"}
        \/ q.type = "cleaner_submitted_resolution" /\ row.status = "in_progress"

Writing(h) == pc[h] \in {"written", "logged"}

\* A row is locked by the one transaction that wrote it.
LockInv ==
  /\ \A h \in Requests : Writing(h) => rowLock[req[h].report] = h
  /\ \A r \in Reports : rowLock[r] # NoRequest => Writing(rowLock[r]) /\ req[rowLock[r]].report = r

\* A version names one row, so a reader whose version is still current read the
\* current row, and a writer's guard holds of the row it is about to replace.
ReaderInv ==
  \A h \in Requests : pc[h] = "loaded" =>
    LET r == req[h].report IN
      /\ r \in Reports
      /\ Admits(existing[h], req[h])
      /\ existing[h].version <= report[r].version
      /\ existing[h].version = report[r].version => existing[h] = report[r]
WriterInv ==
  \A h \in Requests : Writing(h) =>
    LET r == req[h].report IN
      /\ r \in Reports
      /\ Admits(report[r], req[h])
      /\ pending[h] = Patch(report[r], req[h])

\* Under the lock, the seq a transaction got is above those of the report's log.
SeqInv ==
  /\ \A e \in events : e.seq < nextSeq
  /\ \A h \in Requests : pc[h] \in {"logged", "committed"} => seqOf[h] < nextSeq
  /\ \A h \in Requests : pc[h] = "logged" =>
       \A e \in events : e.report = req[h].report => e.seq < seqOf[h]

\* A report with a log exists; one without a row has nothing but the row's default.
LogInv ==
  \A r \in Reports : report[r].status = "absent" <=> (report[r] = AbsentRow /\ LogOf(r) = {})

IInv == TypeOK /\ LockInv /\ ReaderInv /\ WriterInv /\ SeqInv /\ LogInv /\ LastEventTellsStatus
=============================================================================
