--------------------------- MODULE ReportsV2Proofs ---------------------------
(***************************************************************************)
(* Theorems about ReportsV2, for every set of users, roles, reports and    *)
(* requests and every bound on the sequence; and about the feeds of SyncV2 *)
(* over it, whose order rests on the same row lock.                        *)
(***************************************************************************)
EXTENDS SyncV2, TLAPS, FiniteSetTheorems, WellFoundedInduction

\* A patched row is a row.
LEMMA PatchIsRow ==
  ASSUME NEW row \in Row, NEW q \in Call, q.type \in EventTypes
  PROVE  Patch(row, q) \in Row
  BY DEF Patch, Row, Call, EventTypes, StatusAfter, Status, MaybeUser, SupervisorTypes,
         CleanerTypes, AssignTypes

\* What a handler admits is the call of a handler, made by a user of the tenant.
LEMMA AdmittedCall ==
  ASSUME NEW row \in Row, NEW q \in Call, Admits(row, q)
  PROVE  q.type \in EventTypes /\ q.user \in Users
  BY UsersAssumption
  DEF Admits, Call, EventTypes, SupervisorTypes, CleanerTypes, MaybeUser

\* A patch goes one version up and leaves a row that exists.
LEMMA PatchMoves ==
  ASSUME NEW row \in Row, NEW q \in Call, q.type \in EventTypes
  PROVE  /\ Patch(row, q).version = row.version + 1
         /\ Patch(row, q).status # "absent"
  BY DEF Patch, Call, EventTypes, StatusAfter, SupervisorTypes, CleanerTypes

\* The event of a call is an event.
LEMMA EventOfIsEvent ==
  ASSUME NEW row \in Row, NEW q \in Call, q.type \in EventTypes, q.user \in Users,
         q.report \in Reports, NEW seq \in Nat
  PROVE  EventOf(q, row, seq) \in Event
  BY DEF EventOf, Event, Row, Call

LEMMA AbsentRowIsRow == AbsentRow \in Row
  BY DEF AbsentRow, Row, Status, MaybeUser

LEMMA NoCallIsCall == NoCall \in Call
  BY DEF NoCall, Call, MaybeUser

\* Every handler that reads a report first is a Read of a call it admits.
LEMMA ReadCases ==
  ASSUME TypeOK, NEW h \in Requests, NEW r \in Reports,
         \/ \E u \in Supervisors : \/ \E c \in Users : AssignCleaner(h, u, r, c)
                                   \/ SupervisorEndorse(h, u, r)
                                   \/ SupervisorReject(h, u, r)
         \/ \E u \in Cleaners : \/ CleanerAccept(h, u, r)
                                \/ CleanerReject(h, u, r)
                                \/ CleanerStart(h, u, r)
                                \/ \E e \in Evidence(u, r) : CleanerResolve(h, u, r, e)
  PROVE  \E q \in Call : \E ev \in SUBSET Attachment :
           q.report \in Reports /\ Admits(report[q.report], q) /\ Read(h, q, ev)
<1>1. ASSUME NEW u \in Supervisors, NEW c \in Users, AssignCleaner(h, u, r, c)
      PROVE  \E q \in Call : \E ev \in SUBSET Attachment :
               q.report \in Reports /\ Admits(report[q.report], q) /\ Read(h, q, ev)
  <2> DEFINE q == [type |-> "report_assigned", user |-> u, report |-> r, cleaner |-> c]
  <2>1. q \in Call
    BY UsersAssumption DEF Call, MaybeUser, EventTypes, SupervisorTypes
  <2>2. Admits(report[q.report], q) /\ Read(h, q, {})
    BY <1>1 DEF AssignCleaner, AsSupervisor, Admits
  <2> QED BY <2>1, <2>2
<1>2. ASSUME NEW u \in Supervisors, SupervisorEndorse(h, u, r) \/ SupervisorReject(h, u, r)
      PROVE  \E q \in Call : \E ev \in SUBSET Attachment :
               q.report \in Reports /\ Admits(report[q.report], q) /\ Read(h, q, ev)
  <2> DEFINE q(t) == [type |-> t, user |-> u, report |-> r, cleaner |-> NoUser]
  <2>1. \A t \in SupervisorTypes : q(t) \in Call /\ q(t).report \in Reports
    BY UsersAssumption DEF Call, MaybeUser, EventTypes, SupervisorTypes
  <2>2. CASE SupervisorEndorse(h, u, r)
    <3>1. Admits(report[r], q("supervisor_endorsed")) /\ Read(h, q("supervisor_endorsed"), {})
      BY <2>2 DEF SupervisorEndorse, AsSupervisor, Admits
    <3> QED BY <2>1, <3>1 DEF SupervisorTypes
  <2>3. CASE SupervisorReject(h, u, r)
    <3>1. Admits(report[r], q("supervisor_rejected")) /\ Read(h, q("supervisor_rejected"), {})
      BY <2>3 DEF SupervisorReject, AsSupervisor, Admits
    <3> QED BY <2>1, <3>1 DEF SupervisorTypes
  <2> QED BY <1>2, <2>2, <2>3
<1>3. ASSUME NEW u \in Cleaners,
             \/ CleanerAccept(h, u, r) \/ CleanerReject(h, u, r) \/ CleanerStart(h, u, r)
             \/ \E e \in Evidence(u, r) : CleanerResolve(h, u, r, e)
      PROVE  \E q \in Call : \E ev \in SUBSET Attachment :
               q.report \in Reports /\ Admits(report[q.report], q) /\ Read(h, q, ev)
  <2> DEFINE q(t) == [type |-> t, user |-> u, report |-> r, cleaner |-> NoUser]
  <2>1. \A t \in CleanerTypes : q(t) \in Call /\ q(t).report \in Reports
    BY UsersAssumption DEF Call, MaybeUser, EventTypes
  <2>2. CASE CleanerAccept(h, u, r)
    <3>1. Admits(report[r], q("cleaner_accepted_task")) /\ Read(h, q("cleaner_accepted_task"), {})
      BY <2>2 DEF CleanerAccept, AsCleaner, Admits, CleanerTypes
    <3> QED BY <2>1, <3>1 DEF CleanerTypes
  <2>3. CASE CleanerReject(h, u, r)
    <3>1. Admits(report[r], q("cleaner_rejected_task")) /\ Read(h, q("cleaner_rejected_task"), {})
      BY <2>3 DEF CleanerReject, AsCleaner, Admits, CleanerTypes
    <3> QED BY <2>1, <3>1 DEF CleanerTypes
  <2>4. CASE CleanerStart(h, u, r)
    <3>1. Admits(report[r], q("cleaner_started_work")) /\ Read(h, q("cleaner_started_work"), {})
      BY <2>4 DEF CleanerStart, AsCleaner, Admits, CleanerTypes
    <3> QED BY <2>1, <3>1 DEF CleanerTypes
  <2>5. CASE \E e \in Evidence(u, r) : CleanerResolve(h, u, r, e)
    <3>1. PICK e \in Evidence(u, r) : CleanerResolve(h, u, r, e)
      BY <2>5
    <3>2. e \in SUBSET Attachment
      BY UsersAssumption DEF Evidence, Attachment, TypeOK, Row
    <3>3. /\ Admits(report[r], q("cleaner_submitted_resolution"))
          /\ Read(h, q("cleaner_submitted_resolution"), e)
      BY <3>1 DEF CleanerResolve, AsCleaner, Admits, CleanerTypes
    <3> QED BY <2>1, <3>2, <3>3 DEF CleanerTypes
  <2> QED BY <1>3, <2>2, <2>3, <2>4, <2>5
<1> QED BY <1>1, <1>2, <1>3

-----------------------------------------------------------------------------
(* IInv is inductive: one lemma per action *)

LEMMA InitIInv == Init => IInv
<1> SUFFICES ASSUME Init PROVE IInv
  OBVIOUS
<1>1. TypeOK
  BY AbsentRowIsRow, NoCallIsCall DEF Init, TypeOK
<1>2. LockInv /\ ReaderInv /\ WriterInv /\ SeqInv
  BY IdsAssumption DEF Init, LockInv, ReaderInv, WriterInv, SeqInv, Writing
<1>3. LogInv /\ LastEventTellsStatus
  BY DEF Init, LogInv, LastEventTellsStatus, LogOf, AbsentRow
<1> QED BY <1>1, <1>2, <1>3 DEF IInv

LEMMA ReadIInv ==
  ASSUME IInv, NEW h \in Requests, NEW q \in Call, NEW ev \in SUBSET Attachment,
         q.report \in Reports, Admits(report[q.report], q), Read(h, q, ev)
  PROVE  IInv'
<1> USE DEF IInv, Read, database
<1>1. TypeOK'
  BY DEF TypeOK
<1>2. LockInv'
  BY DEF LockInv, Writing, TypeOK
<1>3. ReaderInv'
  BY DEF ReaderInv, TypeOK, Row
<1>4. WriterInv'
  BY DEF WriterInv, Writing, TypeOK
<1>5. SeqInv'
  BY DEF SeqInv, TypeOK
<1>6. LogInv' /\ LastEventTellsStatus'
  BY DEF LogInv, LastEventTellsStatus, LogOf, IsLast
<1> QED BY <1>1, <1>2, <1>3, <1>4, <1>5, <1>6

LEMMA CreateReportIInv ==
  ASSUME IInv, NEW h \in Requests, NEW r \in Reports, NEW u \in Users,
         NEW ev \in Evidence(u, r), CreateReport(h, u, r, ev)
  PROVE  IInv'
<1> DEFINE q == [type |-> "report_created", user |-> u, report |-> r, cleaner |-> NoUser]
<1> USE DEF IInv
<1>1. q \in Call /\ q.type \in EventTypes /\ q.report = r
  BY DEF Call, EventTypes, MaybeUser
<1>2. report[r] = AbsentRow /\ Admits(report[r], q)
  BY DEF CreateReport, LogInv, Admits
<1>3. Patch(AbsentRow, q) \in Row
  BY <1>1, AbsentRowIsRow, PatchIsRow
<1>4. ev \in SUBSET Attachment
  BY DEF Evidence, Attachment, TypeOK, Row
<1>5. /\ pc[h] = "idle" /\ rowLock[r] = NoRequest
      /\ pc' = [pc EXCEPT ![h] = "written"]
      /\ req' = [req EXCEPT ![h] = q]
      /\ pending' = [pending EXCEPT ![h] = Patch(AbsentRow, q)]
      /\ rowLock' = [rowLock EXCEPT ![r] = h]
      /\ staged' = [staged EXCEPT ![h] = ev]
      /\ UNCHANGED <<report, nextSeq, events, notifications, attachments, pushed,
                     existing, seqOf>>
  BY DEF CreateReport
<1> HIDE DEF q
<1>6. TypeOK'
  BY <1>1, <1>3, <1>4, <1>5 DEF TypeOK
<1>7. LockInv'
  BY <1>1, <1>5, IdsAssumption DEF LockInv, Writing, TypeOK, Call
<1>8. ReaderInv'
  BY <1>5 DEF ReaderInv, TypeOK
<1>9. WriterInv'
  BY <1>1, <1>2, <1>5 DEF WriterInv, Writing, TypeOK
<1>10. SeqInv'
  BY <1>5 DEF SeqInv, TypeOK
<1>11. LogInv' /\ LastEventTellsStatus'
  BY <1>5 DEF LogInv, LastEventTellsStatus, LogOf, IsLast
<1> QED BY <1>6, <1>7, <1>8, <1>9, <1>10, <1>11

LEMMA BumpVersionIInv ==
  ASSUME IInv, NEW h \in Requests, BumpVersion(h)
  PROVE  IInv'
<1> DEFINE q == req[h]
           r == req[h].report
<1> USE DEF IInv
<1>1. /\ pc[h] = "loaded" /\ rowLock[r] = NoRequest
      /\ report[r].version = existing[h].version
      /\ pc' = [pc EXCEPT ![h] = "written"]
      /\ pending' = [pending EXCEPT ![h] = Patch(report[r], q)]
      /\ rowLock' = [rowLock EXCEPT ![r] = h]
      /\ UNCHANGED <<report, nextSeq, events, notifications, attachments, pushed,
                     req, existing, seqOf, staged>>
  BY DEF BumpVersion
<1>2. q \in Call /\ r \in Reports /\ report[r] \in Row /\ Admits(report[r], q)
  BY <1>1 DEF ReaderInv, TypeOK
<1>3. Patch(report[r], q) \in Row
  BY <1>2, AdmittedCall, PatchIsRow
<1>4. TypeOK'
  BY <1>1, <1>2, <1>3 DEF TypeOK
<1>5. LockInv'
  BY <1>1, <1>2, IdsAssumption DEF LockInv, Writing, TypeOK
<1>6. ReaderInv'
  BY <1>1 DEF ReaderInv, TypeOK
<1>7. WriterInv'
  BY <1>1, <1>2 DEF WriterInv, Writing, TypeOK
<1>8. SeqInv'
  BY <1>1 DEF SeqInv, TypeOK
<1>9. LogInv' /\ LastEventTellsStatus'
  BY <1>1 DEF LogInv, LastEventTellsStatus, LogOf, IsLast
<1> QED BY <1>4, <1>5, <1>6, <1>7, <1>8, <1>9

\* A request that ends without a commit leaves the log and the rows alone.
LEMMA EndIInv ==
  ASSUME IInv, NEW h \in Requests, Finish(h), pc[h] # "idle",
         Unlock(h) \/ (~ Writing(h) /\ UNCHANGED rowLock),
         UNCHANGED <<report, nextSeq, events, notifications, attachments>>,
         pushed' \subseteq Nat
  PROVE  IInv'
<1> USE DEF IInv
<1>1. TypeOK'
  BY AbsentRowIsRow, NoCallIsCall DEF TypeOK, Finish, Unlock
<1>2. LockInv'
  BY IdsAssumption DEF LockInv, Writing, TypeOK, Finish, Unlock, WriterInv
<1>3. ReaderInv'
  BY DEF ReaderInv, TypeOK, Finish
<1>4. WriterInv'
  BY DEF WriterInv, Writing, TypeOK, Finish
<1>5. SeqInv'
  BY DEF SeqInv, TypeOK, Finish
<1>6. LogInv' /\ LastEventTellsStatus'
  BY DEF LogInv, LastEventTellsStatus, LogOf, IsLast
<1> QED BY <1>1, <1>2, <1>3, <1>4, <1>5, <1>6

LEMMA CreateEventIInv ==
  ASSUME IInv, NEW h \in Requests, CreateEvent(h)
  PROVE  IInv'
<1> USE DEF IInv, CreateEvent
<1>1. TypeOK'
  BY DEF TypeOK
<1>2. LockInv'
  BY DEF LockInv, Writing, TypeOK
<1>3. ReaderInv'
  BY DEF ReaderInv, TypeOK
<1>4. WriterInv'
  BY DEF WriterInv, Writing, TypeOK
<1>5. SeqInv'
  BY DEF SeqInv, TypeOK, Event
<1>6. LogInv' /\ LastEventTellsStatus'
  BY DEF LogInv, LastEventTellsStatus, LogOf, IsLast
<1> QED BY <1>1, <1>2, <1>3, <1>4, <1>5, <1>6

LEMMA CommitIInv ==
  ASSUME IInv, NEW h \in Requests, Commit(h)
  PROVE  IInv'
<1> DEFINE q == req[h]
           r == req[h].report
           new == EventOf(req[h], pending[h], seqOf[h])
<1> USE DEF IInv
<1>1. /\ pc[h] = "logged"
      /\ report' = [report EXCEPT ![r] = pending[h]]
      /\ events' = events \cup {new}
      /\ pc' = [pc EXCEPT ![h] = "committed"]
      /\ rowLock' = [k \in Reports |-> IF rowLock[k] = h THEN NoRequest ELSE rowLock[k]]
      /\ UNCHANGED <<nextSeq, pushed, req, existing, pending, seqOf, staged>>
  BY DEF Commit, Unlock
<1>2. /\ q \in Call /\ r \in Reports /\ report[r] \in Row /\ Admits(report[r], q)
      /\ pending[h] = Patch(report[r], q) /\ rowLock[r] = h
  BY <1>1 DEF WriterInv, LockInv, Writing, TypeOK
<1>3. q.type \in EventTypes /\ q.user \in Users
  BY <1>2, AdmittedCall
<1>4. /\ pending[h] \in Row /\ pending[h].version = report[r].version + 1
      /\ pending[h].status # "absent"
  BY <1>2, <1>3, PatchIsRow, PatchMoves
<1>5. new \in Event /\ new.seq = seqOf[h] /\ new.report = r /\ new.status = pending[h].status
  BY <1>2, <1>3, <1>4, EventOfIsEvent DEF EventOf, TypeOK
<1> HIDE DEF new
<1>6. TypeOK'
  <2>1. notifications' \subseteq Notification
    BY <1>1 DEF Commit, TypeOK, NotificationsOf, Notification
  <2>2. attachments' \subseteq Attachment
    BY <1>1 DEF Commit, TypeOK
  <2> QED BY <1>1, <1>4, <1>5, <2>1, <2>2 DEF TypeOK
<1>7. LockInv'
  <2>1. ASSUME NEW g \in Requests, Writing(g)' PROVE rowLock'[req'[g].report] = g
    BY <1>1, <2>1 DEF LockInv, WriterInv, Writing, TypeOK
  <2>2. ASSUME NEW k \in Reports, rowLock'[k] # NoRequest
        PROVE  (Writing(rowLock[k]) /\ req[rowLock[k]].report = k)'
    <3>1. rowLock[k] \in Requests /\ rowLock[k] # h /\ rowLock'[k] = rowLock[k]
      BY <1>1, <2>2 DEF TypeOK
    <3> QED BY <1>1, <3>1, IdsAssumption DEF LockInv, Writing, TypeOK
  <2> QED BY <2>1, <2>2 DEF LockInv
<1>8. ReaderInv'
  BY <1>1, <1>2, <1>4 DEF ReaderInv, TypeOK, Row
<1>9. WriterInv'
  BY <1>1, <1>2 DEF WriterInv, LockInv, Writing, TypeOK
<1>10. SeqInv'
  BY <1>1, <1>2, <1>5 DEF SeqInv, WriterInv, LockInv, Writing, TypeOK
<1>11. LogInv'
  <2> SUFFICES ASSUME NEW k \in Reports
               PROVE  report'[k].status = "absent" <=>
                        (report'[k] = AbsentRow /\ LogOf(k)' = {})
    BY DEF LogInv
  <2>1. CASE k = r
    BY <1>1, <1>2, <1>4, <2>1 DEF TypeOK, AbsentRow
  <2>2. CASE k # r
    <3>1. LogOf(k)' = LogOf(k)
      BY <1>1, <1>5, <2>2 DEF LogOf
    <3> QED BY <1>1, <2>2, <3>1 DEF LogInv, TypeOK
  <2> QED BY <2>1, <2>2
<1>12. LastEventTellsStatus'
  <2> SUFFICES ASSUME NEW k \in Reports, NEW e \in LogOf(k)', IsLast(e, LogOf(k)')
               PROVE  e.status = report'[k].status
    BY DEF LastEventTellsStatus, IsLast
  <2>1. CASE k = r
    <3>1. new \in LogOf(r)'
      BY <1>1, <1>5 DEF LogOf
    <3>2. \A f \in events : f.report = r => f.seq < new.seq
      BY <1>1, <1>5 DEF SeqInv
    <3>3. e = new
      BY <1>1, <1>5, <2>1, <3>1, <3>2 DEF LogOf, IsLast, TypeOK, Event
    <3> QED BY <1>1, <1>2, <1>5, <2>1, <3>3 DEF TypeOK
  <2>2. CASE k # r
    <3>1. LogOf(k)' = LogOf(k)
      BY <1>1, <1>5, <2>2 DEF LogOf
    <3> QED BY <1>1, <2>2, <3>1 DEF LastEventTellsStatus, TypeOK
  <2> QED BY <2>1, <2>2
<1> QED BY <1>6, <1>7, <1>8, <1>9, <1>10, <1>11, <1>12

\* Spec keeps the inductive invariant.
THEOREM Invariance == Spec => []IInv
<1>1. Init => IInv
  BY InitIInv
<1>2. IInv /\ [Next]_vars => IInv'
  <2> SUFFICES ASSUME IInv, [Next]_vars PROVE IInv'
    OBVIOUS
  <2>1. ASSUME NEW h \in Requests, NEW r \in Reports, NEW u \in Users,
               NEW e \in Evidence(u, r), CreateReport(h, u, r, e)
        PROVE  IInv'
    BY <2>1, CreateReportIInv
  <2>2. ASSUME NEW h \in Requests, NEW r \in Reports,
               \/ \E u \in Supervisors : \/ \E c \in Users : AssignCleaner(h, u, r, c)
                                         \/ SupervisorEndorse(h, u, r)
                                         \/ SupervisorReject(h, u, r)
               \/ \E u \in Cleaners : \/ CleanerAccept(h, u, r)
                                      \/ CleanerReject(h, u, r)
                                      \/ CleanerStart(h, u, r)
                                      \/ \E e \in Evidence(u, r) : CleanerResolve(h, u, r, e)
        PROVE  IInv'
    <3>1. TypeOK
      BY DEF IInv
    <3>2. PICK q \in Call, ev \in SUBSET Attachment :
            q.report \in Reports /\ Admits(report[q.report], q) /\ Read(h, q, ev)
      BY <2>2, <3>1, ReadCases
    <3> QED BY <3>2, ReadIInv
  <2>3. ASSUME NEW h \in Requests, BumpVersion(h) PROVE IInv'
    BY <2>3, BumpVersionIInv
  <2>4. ASSUME NEW h \in Requests, StaleVersion(h) PROVE IInv'
    BY <2>4, EndIInv DEF StaleVersion, database, Writing, IInv, TypeOK
  <2>5. ASSUME NEW h \in Requests, CreateEvent(h) PROVE IInv'
    BY <2>5, CreateEventIInv
  <2>6. ASSUME NEW h \in Requests, Commit(h) PROVE IInv'
    BY <2>6, CommitIInv
  <2>7. ASSUME NEW h \in Requests, SendStagePush(h) PROVE IInv'
    BY <2>7, EndIInv DEF SendStagePush, database, Writing, IInv, TypeOK
  <2>8. ASSUME NEW h \in Requests, Abort(h) PROVE IInv'
    BY <2>8, EndIInv DEF Abort, IInv, TypeOK
  <2>9. CASE UNCHANGED vars
    BY <2>9 DEF vars, database, handler, IInv, TypeOK, LockInv, ReaderInv, WriterInv, SeqInv,
                LogInv, LastEventTellsStatus, LogOf, IsLast, Writing
  <2> QED
    BY <2>1, <2>2, <2>3, <2>4, <2>5, <2>6, <2>7, <2>8, <2>9 DEF Next, Step, Quiet
<1> QED BY <1>1, <1>2, PTL DEF Spec

\* Every variable keeps its type.
THEOREM TypeCorrect == Spec => []TypeOK
<1>1. IInv => TypeOK
  BY DEF IInv
<1> QED BY <1>1, Invariance, PTL

\* The newest event of a report tells its status, however requests interleave.
THEOREM LogTellsStatus == Spec => []LastEventTellsStatus
<1>1. IInv => LastEventTellsStatus
  BY DEF IInv
<1> QED BY <1>1, Invariance, PTL

-----------------------------------------------------------------------------
(* Refinement *)

\* A commit replaces a row by its patch, and the row admits the call.
LEMMA CommitPatches ==
  ASSUME IInv, NEW h \in Requests, Commit(h)
  PROVE  \E q \in Call : /\ q.report \in Reports /\ report[q.report] \in Row
                         /\ Admits(report[q.report], q)
                         /\ report' = [report EXCEPT ![q.report] = Patch(report[q.report], q)]
<1>1. req[h] \in Call /\ req[h].report \in Reports /\ Admits(report[req[h].report], req[h])
  BY DEF IInv, WriterInv, TypeOK, Commit, Writing
<1>2. report[req[h].report] \in Row
  BY <1>1 DEF IInv, TypeOK
<1>3. report' = [report EXCEPT ![req[h].report] = Patch(report[req[h].report], req[h])]
  BY DEF IInv, WriterInv, Commit, Writing
<1> QED BY <1>1, <1>2, <1>3

\* Only a commit changes rows.
LEMMA OnlyCommitsWrite ==
  ASSUME Next, report' # report
  PROVE  \E h \in Requests : Commit(h)
<1>1. ASSUME NEW h \in Requests, NEW r \in Reports, NEW u \in Users,
             NEW e \in Evidence(u, r), CreateReport(h, u, r, e)
      PROVE  report' = report
  BY <1>1 DEF CreateReport
<1>2. ASSUME NEW h \in Requests, NEW q, NEW ev, Read(h, q, ev)
      PROVE  report' = report
  BY <1>2 DEF Read, database
<1>3. ASSUME NEW h \in Requests, NEW r \in Reports, NEW u \in Supervisors,
             \/ \E c \in Users : AssignCleaner(h, u, r, c)
             \/ SupervisorEndorse(h, u, r) \/ SupervisorReject(h, u, r)
      PROVE  report' = report
  BY <1>2, <1>3 DEF AssignCleaner, SupervisorEndorse, SupervisorReject, AsSupervisor
<1>4. ASSUME NEW h \in Requests, NEW r \in Reports, NEW u \in Cleaners,
             \/ CleanerAccept(h, u, r) \/ CleanerReject(h, u, r) \/ CleanerStart(h, u, r)
             \/ \E e \in Evidence(u, r) : CleanerResolve(h, u, r, e)
      PROVE  report' = report
  BY <1>2, <1>4 DEF CleanerAccept, CleanerReject, CleanerStart, CleanerResolve, AsCleaner
<1>5. ASSUME NEW h \in Requests,
             \/ BumpVersion(h) \/ StaleVersion(h) \/ CreateEvent(h)
             \/ SendStagePush(h) \/ Abort(h)
      PROVE  report' = report
  BY <1>5 DEF BumpVersion, StaleVersion, CreateEvent, SendStagePush, Abort, database
<1>6. Quiet => report' = report
  BY DEF Quiet, vars, database
<1> QED BY <1>1, <1>3, <1>4, <1>5, <1>6 DEF Next, Step

\* A patch the row admits is a step of the lifecycle.
LEMMA PatchIsLifecycleStep ==
  ASSUME NEW q \in Call, q.report \in Reports, TypeOK,
         Admits(report[q.report], q),
         report' = [report EXCEPT ![q.report] = Patch(report[q.report], q)]
  PROVE  Lifecycle!LNext
<1> DEFINE r == q.report
<1>1. report \in [Reports -> Row] /\ report[r] \in Row
  BY DEF TypeOK
<1>2. CASE q.type = "report_created" /\ q.user \in Users /\ report[r] = AbsentRow
  <2>1. Patch(report[r], q) =
          [status |-> "submitted", version |-> 1, reporter |-> q.user,
           supervisor |-> NoUser, cleaner |-> NoUser]
    BY <1>2 DEF Patch, StatusAfter, AbsentRow, SupervisorTypes, AssignTypes
  <2>2. Lifecycle!Create(r, q.user)
    <3>1. report[r].status = "absent"
      BY <1>2 DEF AbsentRow
    <3>2. report' = [report EXCEPT ![r] = Patch(report[r], q)]
      OBVIOUS
    <3> HIDE DEF r
    <3> QED BY <2>1, <3>1, <3>2 DEF Lifecycle!Create
  <2> QED BY <1>2, <2>2 DEF Lifecycle!LNext
<1>3. CASE /\ q.type = "report_assigned" /\ q.user \in Supervisors /\ q.cleaner \in Users
           /\ report[r].status \in {"submitted", "rejected_by_supervisor",
                                    "rejected_by_cleaner", "assigned"}
  <2>1. Lifecycle!Assign(r, q.user, q.cleaner)
    BY <1>1, <1>3 DEF Lifecycle!Assign, Patch, StatusAfter, Row, SupervisorTypes, AssignTypes
  <2> QED BY <1>3, <2>1 DEF Lifecycle!LNext
<1>4. CASE /\ q.type \in {"supervisor_endorsed", "supervisor_rejected"}
           /\ q.user \in Supervisors /\ report[r].status = "resolved_by_cleaner"
  <2>1. Lifecycle!Review(r, q.user)
    BY <1>1, <1>4 DEF Lifecycle!Review, Patch, StatusAfter, Row, SupervisorTypes, AssignTypes
  <2> QED BY <1>4, <2>1 DEF Lifecycle!LNext
<1>5. CASE /\ q.user \in Cleaners /\ report[r].cleaner = q.user
           /\ \/ q.type = "cleaner_accepted_task" /\ report[r].status = "assigned"
              \/ /\ q.type = "cleaner_rejected_task"
                 /\ report[r].status \in {"assigned", "accepted_by_cleaner"}
              \/ /\ q.type = "cleaner_started_work"
                 /\ report[r].status \in {"accepted_by_cleaner", "rejected_by_supervisor"}
              \/ q.type = "cleaner_submitted_resolution" /\ report[r].status = "in_progress"
  <2>1. Lifecycle!Work(r)
    BY <1>1, <1>5 DEF Lifecycle!Work, Lifecycle!Move, Patch, StatusAfter, Row,
                      SupervisorTypes, AssignTypes
  <2> QED BY <2>1 DEF Lifecycle!LNext
<1> QED BY <1>2, <1>3, <1>4, <1>5 DEF Admits

\* The concurrent handlers implement the sequential lifecycle.
THEOREM Refinement == Spec => ImplementsLifecycle
<1>1. Init => Lifecycle!LInit
  BY DEF Init, Lifecycle!LInit, Lifecycle!NotCreated, AbsentRow
<1>2. IInv /\ [Next]_vars => [Lifecycle!LNext]_report
  <2> SUFFICES ASSUME IInv, Next, report' # report PROVE Lifecycle!LNext
    BY DEF vars, database
  <2>1. PICK h \in Requests : Commit(h)
    BY OnlyCommitsWrite
  <2>2. PICK q \in Call : /\ q.report \in Reports /\ report[q.report] \in Row
                          /\ Admits(report[q.report], q)
                          /\ report' = [report EXCEPT ![q.report] = Patch(report[q.report], q)]
    BY <2>1, CommitPatches
  <2> QED BY <2>2, PatchIsLifecycleStep DEF IInv
<1> QED BY <1>1, <1>2, Invariance, PTL DEF Spec, ImplementsLifecycle, Lifecycle!LSpec

\* No request changes an endorsed report, those that read it before included.
THEOREM EndorsedForGood == Spec => EndorsementIsFinal
<1> DEFINE Final == \A r \in Reports :
                      report[r].status = "endorsed_by_supervisor" => report'[r] = report[r]
<1>1. IInv /\ [Next]_vars => [Final]_vars
  <2> SUFFICES ASSUME IInv, Next, NEW r \in Reports,
                      report[r].status = "endorsed_by_supervisor", report'[r] # report[r]
               PROVE  FALSE
    BY DEF vars
  <2>1. PICK h \in Requests : Commit(h)
    BY OnlyCommitsWrite
  <2>2. PICK q \in Call : /\ q.report \in Reports /\ report[q.report] \in Row
                          /\ Admits(report[q.report], q)
                          /\ report' = [report EXCEPT ![q.report] = Patch(report[q.report], q)]
    BY <2>1, CommitPatches
  <2>3. q.report = r
    BY <2>2 DEF IInv, TypeOK
  <2> QED BY <2>2, <2>3 DEF Admits, AbsentRow
<1> HIDE DEF Final
<1>2. Spec => [][Final]_vars
  BY <1>1, Invariance, PTL DEF Spec
<1> QED BY <1>2 DEF EndorsementIsFinal, Final

-----------------------------------------------------------------------------
(* The log accounts for the versions *)

\* What no step but a commit or a push does.
Calm ==
  /\ UNCHANGED <<report, events, pushed>>
  /\ \A h \in Requests : pc'[h] = "committed" => pc[h] = "committed" /\ seqOf'[h] = seqOf[h]

\* VersionCountsEvents, and the event a request that has committed is about to push.
CountInv ==
  /\ \A r \in Reports : IsFiniteSet(LogOf(r)) /\ report[r].version = Cardinality(LogOf(r))
  /\ \A h \in Requests : pc[h] = "committed" => \E e \in events : e.seq = seqOf[h]
  /\ \A s \in pushed : \E e \in events : e.seq = s

LEMMA CalmSteps ==
  ASSUME TypeOK, [Next]_vars
  PROVE  Calm \/ \E h \in Requests : Commit(h) \/ SendStagePush(h)
<1>1. ASSUME NEW h \in Requests, NEW r \in Reports, NEW u \in Users,
             NEW e \in Evidence(u, r), CreateReport(h, u, r, e)
      PROVE  Calm
  BY <1>1 DEF CreateReport, Calm, TypeOK
<1>2. ASSUME NEW h \in Requests, NEW q, NEW ev, Read(h, q, ev)
      PROVE  Calm
  BY <1>2 DEF Read, database, Calm, TypeOK
<1>3. ASSUME NEW h \in Requests, NEW r \in Reports, NEW u \in Supervisors,
             \/ \E c \in Users : AssignCleaner(h, u, r, c)
             \/ SupervisorEndorse(h, u, r) \/ SupervisorReject(h, u, r)
      PROVE  Calm
  BY <1>2, <1>3 DEF AssignCleaner, SupervisorEndorse, SupervisorReject, AsSupervisor
<1>4. ASSUME NEW h \in Requests, NEW r \in Reports, NEW u \in Cleaners,
             \/ CleanerAccept(h, u, r) \/ CleanerReject(h, u, r) \/ CleanerStart(h, u, r)
             \/ \E e \in Evidence(u, r) : CleanerResolve(h, u, r, e)
      PROVE  Calm
  BY <1>2, <1>4 DEF CleanerAccept, CleanerReject, CleanerStart, CleanerResolve, AsCleaner
<1>5. ASSUME NEW h \in Requests, BumpVersion(h) \/ CreateEvent(h)
      PROVE  Calm
  BY <1>5 DEF BumpVersion, CreateEvent, Calm, TypeOK
<1>6. ASSUME NEW h \in Requests, StaleVersion(h) \/ Abort(h)
      PROVE  Calm
  BY <1>6 DEF StaleVersion, Abort, Finish, database, Calm, TypeOK
<1>7. UNCHANGED vars => Calm
  BY DEF vars, database, handler, Calm
<1> QED BY <1>1, <1>3, <1>4, <1>5, <1>6, <1>7 DEF Next, Step, Quiet

LEMMA CalmCounts == ASSUME CountInv, Calm PROVE CountInv'
BY DEF CountInv, Calm, LogOf

\* A commit adds to its report's log the one event, of a seq no event has, that
\* the version it writes is for.
LEMMA CommitCounts ==
  ASSUME IInv, CountInv, NEW h \in Requests, Commit(h)
  PROVE  CountInv'
<1> DEFINE r == req[h].report
           new == EventOf(req[h], pending[h], seqOf[h])
<1>1. /\ pc[h] = "logged" /\ report' = [report EXCEPT ![r] = pending[h]]
      /\ events' = events \cup {new} /\ pc' = [pc EXCEPT ![h] = "committed"]
      /\ UNCHANGED <<pushed, seqOf>>
  BY DEF Commit
<1>2. /\ req[h] \in Call /\ r \in Reports /\ report[r] \in Row /\ Admits(report[r], req[h])
      /\ pending[h] = Patch(report[r], req[h])
  BY <1>1 DEF IInv, WriterInv, Writing, TypeOK
<1>3. pending[h].version = report[r].version + 1
  BY <1>2, AdmittedCall, PatchMoves
<1>4. new.seq = seqOf[h] /\ new.report = r
  BY DEF EventOf
<1> HIDE DEF new
<1>5. new \notin LogOf(r)
  <2>1. \A f \in LogOf(r) : f.seq < seqOf[h]
    BY <1>1 DEF IInv, SeqInv, LogOf
  <2>2. seqOf[h] \in Nat
    BY DEF IInv, TypeOK
  <2> QED BY <1>4, <2>1, <2>2
<1>6. ASSUME NEW k \in Reports
      PROVE  IsFiniteSet(LogOf(k)') /\ report'[k].version = Cardinality(LogOf(k)')
  <2>1. CASE k = r
    <3>1. LogOf(k)' = LogOf(r) \cup {new}
      BY <1>1, <1>4, <2>1 DEF LogOf
    <3>2. IsFiniteSet(LogOf(r)) /\ report[r].version = Cardinality(LogOf(r))
      BY <1>2 DEF CountInv
    <3>3. /\ IsFiniteSet(LogOf(r) \cup {new})
          /\ Cardinality(LogOf(r) \cup {new}) = Cardinality(LogOf(r)) + 1
      BY <1>5, <3>2, FS_AddElement
    <3>4. report'[k] = pending[h]
      BY <1>1, <1>2, <2>1 DEF IInv, TypeOK
    <3> QED BY <1>3, <3>1, <3>2, <3>3, <3>4
  <2>2. CASE k # r
    <3>1. LogOf(k)' = LogOf(k)
      BY <1>1, <1>4, <2>2 DEF LogOf
    <3>2. report'[k] = report[k]
      BY <1>1, <2>2 DEF IInv, TypeOK
    <3> QED BY <3>1, <3>2 DEF CountInv
  <2> QED BY <2>1, <2>2
<1>7. ASSUME NEW g \in Requests, pc'[g] = "committed"
      PROVE  \E e \in events' : e.seq = seqOf'[g]
  <2>1. CASE g = h
    BY <1>1, <1>4, <2>1
  <2>2. CASE g # h
    BY <1>1, <1>7, <2>2 DEF CountInv, IInv, TypeOK
  <2> QED BY <2>1, <2>2
<1>8. \A s \in pushed' : \E e \in events' : e.seq = s
  BY <1>1 DEF CountInv
<1> QED BY <1>6, <1>7, <1>8 DEF CountInv

LEMMA PushCounts ==
  ASSUME TypeOK, CountInv, NEW h \in Requests, SendStagePush(h)
  PROVE  CountInv'
<1>1. /\ pc[h] = "committed" /\ pushed' = pushed \cup {seqOf[h]}
      /\ UNCHANGED <<report, events>>
      /\ \A g \in Requests : pc'[g] = "committed" => pc[g] = "committed" /\ seqOf'[g] = seqOf[g]
  BY DEF SendStagePush, Finish, database, TypeOK
<1> QED BY <1>1 DEF CountInv, LogOf

\* "Every mutation creates a ReportEventV2 row (source of truth for sync)", says
\* reports.service.ts:7: in every state a report's version is the number of its
\* events, and what has been pushed is in the log.
THEOREM VersionsCounted == Spec => []VersionCountsEvents
<1>1. Init => CountInv
  <2>1. \A r \in Reports : Init => LogOf(r) = {} /\ report[r].version = 0
    BY DEF Init, LogOf, AbsentRow
  <2> QED BY <2>1, FS_EmptySet DEF Init, CountInv
<1>2. IInv /\ CountInv /\ [Next]_vars => CountInv'
  BY CalmSteps, CalmCounts, CommitCounts, PushCounts DEF IInv
<1>3. CountInv => VersionCountsEvents
  BY DEF CountInv, VersionCountsEvents
<1> QED BY <1>1, <1>2, <1>3, Invariance, PTL DEF Spec

-----------------------------------------------------------------------------
(* The work in the log is the assignee's *)

Assignments(log) == {f \in log : f.type = "report_assigned"}

\* The row keeps the cleaner that the newest assignment in the log names, and has
\* none while the log has no assignment; so a transaction that holds the row's
\* lock has tested the actor against that assignment.
AssigneeInv ==
  \A r \in Reports :
    /\ report[r].cleaner # NoUser => Assignments(LogOf(r)) # {}
    /\ \A f \in Assignments(LogOf(r)) :
         IsLast(f, Assignments(LogOf(r))) => f.cleaner = report[r].cleaner

\* What a commit is, in terms of the call q it serves and the event new it logs.
Logs(h, q, new) ==
  /\ q = req[h] /\ q.report \in Reports /\ q.type \in EventTypes
  /\ report[q.report] \in Row /\ Admits(report[q.report], q)
  /\ pending[h] = Patch(report[q.report], q)
  /\ report' = [report EXCEPT ![q.report] = pending[h]]
  /\ new.report = q.report /\ new.type = q.type
  /\ new.actor = q.user /\ new.cleaner = q.cleaner
  /\ events' = events \cup {new}
  /\ LogOf(q.report)' = LogOf(q.report) \cup {new}
  /\ \A f \in LogOf(q.report) : f \in Event /\ f.seq < new.seq

\* .. and what that makes of the logs.
LEMMA CommitLogs ==
  ASSUME IInv, NEW h \in Requests, Commit(h)
  PROVE  \E q \in Call, new \in Event :
           /\ Logs(h, q, new)
           /\ LogUpTo(new)' = LogOf(q.report) \cup {new}
           /\ \A f \in LogOf(q.report) : LogUpTo(f)' = LogUpTo(f)
           /\ \A k \in Reports \ {q.report} : LogOf(k)' = LogOf(k) /\ report'[k] = report[k]
<1>0. PICK q : q = req[h]
  OBVIOUS
<1>1. PICK new : new = EventOf(q, pending[h], seqOf[h])
  OBVIOUS
<1>2. /\ pc[h] = "logged" /\ report' = [report EXCEPT ![q.report] = pending[h]]
      /\ events' = events \cup {new}
  BY <1>0, <1>1 DEF Commit
<1>3. /\ q \in Call /\ q.report \in Reports /\ report[q.report] \in Row
      /\ Admits(report[q.report], q) /\ pending[h] = Patch(report[q.report], q)
  BY <1>0, <1>2 DEF IInv, WriterInv, Writing, TypeOK
<1>4. q.type \in EventTypes /\ q.user \in Users
  BY <1>3, AdmittedCall
<1>5. /\ new.seq = seqOf[h] /\ new.report = q.report /\ new.type = q.type
      /\ new.actor = q.user /\ new.cleaner = q.cleaner
  BY <1>1 DEF EventOf
<1>6. new \in Event
  <2>1. pending[h] \in Row /\ seqOf[h] \in Nat
    BY DEF IInv, TypeOK
  <2> QED BY <1>1, <1>3, <1>4, <2>1, EventOfIsEvent
<1>7. \A f \in LogOf(q.report) : f \in Event /\ f.report = q.report /\ f.seq < new.seq
  BY <1>0, <1>2, <1>5 DEF IInv, SeqInv, LogOf, TypeOK
<1>8. LogOf(q.report)' = LogOf(q.report) \cup {new}
  BY <1>2, <1>5 DEF LogOf
<1>9. \A f \in LogOf(q.report) \cup {new} : f.seq \in Nat
  BY <1>6, <1>7 DEF Event
<1>10. LogUpTo(new)' = LogOf(q.report) \cup {new}
  BY <1>5, <1>7, <1>8, <1>9 DEF LogUpTo, LogOf
<1>11. ASSUME NEW f \in LogOf(q.report) PROVE LogUpTo(f)' = LogUpTo(f)
  BY <1>2, <1>6, <1>7, <1>9 DEF LogUpTo, LogOf
<1>12. \A k \in Reports \ {q.report} : LogOf(k)' = LogOf(k) /\ report'[k] = report[k]
  BY <1>2, <1>3, <1>5 DEF LogOf, IInv, TypeOK
<1>13. Logs(h, q, new)
  BY <1>0, <1>2, <1>3, <1>4, <1>5, <1>7, <1>8 DEF Logs
<1> QED BY <1>3, <1>6, <1>10, <1>11, <1>12, <1>13

\* A commit's work is the assignee's, and its assignment becomes the newest.
LEMMA CommitByAssignee ==
  ASSUME IInv, WorkByAssignee, AssigneeInv, NEW h \in Requests, Commit(h)
  PROVE  WorkByAssignee' /\ AssigneeInv'
<1>0. PICK q \in Call, new \in Event :
        /\ Logs(h, q, new)
        /\ LogUpTo(new)' = LogOf(q.report) \cup {new}
        /\ \A f \in LogOf(q.report) : LogUpTo(f)' = LogUpTo(f)
        /\ \A k \in Reports \ {q.report} : LogOf(k)' = LogOf(k) /\ report'[k] = report[k]
  BY CommitLogs
<1> DEFINE r == q.report
           log == LogOf(r)
<1>1. /\ r \in Reports /\ q.type \in EventTypes
      /\ report[r] \in Row /\ Admits(report[r], q) /\ pending[h] = Patch(report[r], q)
      /\ new.report = r /\ new.type = q.type
      /\ new.actor = q.user /\ new.cleaner = q.cleaner
      /\ LogOf(r)' = log \cup {new}
      /\ \A f \in log : f \in Event /\ f.seq < new.seq
      /\ LogUpTo(new)' = log \cup {new}
      /\ \A f \in log : LogUpTo(f)' = LogUpTo(f)
      /\ report' = [report EXCEPT ![r] = pending[h]]
      /\ \A k \in Reports \ {r} : LogOf(k)' = LogOf(k) /\ report'[k] = report[k]
  BY <1>0 DEF Logs
<1>2. events' = events \cup {new} /\ events \subseteq Event
  BY <1>0 DEF Logs, IInv, TypeOK
<1>3. ASSUME NEW e \in events', e.type \in CleanerTypes
      PROVE  LET given == Assignments(LogUpTo(e)') IN
               given # {} /\ \A f \in given : IsLast(f, given) => f.cleaner = e.actor
  <2>1. CASE e = new
    <3>1. Assignments(LogUpTo(e)') = Assignments(log)
      BY <1>1, <1>3, <2>1 DEF Assignments, CleanerTypes
    <3>2. report[r].cleaner = e.actor /\ report[r].cleaner # NoUser
      BY <1>1, <1>3, <2>1, UsersAssumption DEF Admits, CleanerTypes
    <3> QED BY <1>1, <3>1, <3>2 DEF AssigneeInv
  <2>2. CASE e \in events
    <3>1. LogUpTo(e)' = LogUpTo(e)
      <4>1. CASE e.report = r
        BY <1>1, <2>2, <4>1 DEF LogOf
      <4>2. CASE e.report # r
        BY <1>1, <1>2, <2>2, <4>2 DEF LogUpTo, Event
      <4> QED BY <4>1, <4>2
    <3> QED BY <1>3, <2>2, <3>1 DEF WorkByAssignee, Assignments
  <2> QED BY <1>2, <2>1, <2>2
<1>4. WorkByAssignee'
  BY <1>3 DEF WorkByAssignee, Assignments, IsLast
<1>5. ASSUME NEW k \in Reports
      PROVE  /\ report'[k].cleaner # NoUser => Assignments(LogOf(k)') # {}
             /\ \A f \in Assignments(LogOf(k)') :
                  IsLast(f, Assignments(LogOf(k)')) => f.cleaner = report'[k].cleaner
  <2>1. CASE k # r
    BY <1>1, <2>1 DEF AssigneeInv
  <2>2. CASE k = r /\ q.type = "report_assigned"
    <3>1. report'[k].cleaner = new.cleaner
      BY <1>1, <2>2 DEF Patch, AssignTypes, IInv, TypeOK
    <3>2. new \in Assignments(LogOf(k)')
      BY <1>1, <2>2 DEF Assignments
    <3>3. ASSUME NEW f \in Assignments(LogOf(k)'), IsLast(f, Assignments(LogOf(k)'))
          PROVE  f = new
      <4>1. f \in log \cup {new} /\ new.seq <= f.seq
        BY <1>1, <2>2, <3>2, <3>3 DEF Assignments, IsLast
      <4> QED BY <1>1, <4>1 DEF Event
    <3> QED BY <3>1, <3>2, <3>3
  <2>3. CASE k = r /\ q.type # "report_assigned"
    <3>1. report'[k].cleaner = report[k].cleaner
      BY <1>1, <2>3 DEF Patch, AssignTypes, IInv, TypeOK
    <3>2. Assignments(LogOf(k)') = Assignments(LogOf(k))
      BY <1>1, <2>3 DEF Assignments
    <3> QED BY <3>1, <3>2 DEF AssigneeInv
  <2> QED BY <2>1, <2>2, <2>3
<1>6. AssigneeInv'
  BY <1>5 DEF AssigneeInv, Assignments, IsLast
<1> QED BY <1>4, <1>6

\* Whoever accepts, refuses, starts or resolves a report is the cleaner of the
\* newest assignment before it, reassignments that overlap the work included.
THEOREM WorkIsAssigned == Spec => []WorkByAssignee
<1>1. Init => WorkByAssignee /\ AssigneeInv
  BY DEF Init, WorkByAssignee, AssigneeInv, AbsentRow, LogOf, Assignments
<1>2. IInv /\ WorkByAssignee /\ AssigneeInv /\ [Next]_vars => WorkByAssignee' /\ AssigneeInv'
  <2> SUFFICES ASSUME IInv, WorkByAssignee, AssigneeInv, [Next]_vars
               PROVE  WorkByAssignee' /\ AssigneeInv'
    OBVIOUS
  <2>1. ASSUME UNCHANGED <<report, events>> PROVE WorkByAssignee' /\ AssigneeInv'
    BY <2>1 DEF WorkByAssignee, AssigneeInv, LogOf, LogUpTo, IsLast, Assignments
  <2>2. CASE Calm
    BY <2>1, <2>2 DEF Calm
  <2>3. CASE \E h \in Requests : SendStagePush(h)
    BY <2>1, <2>3 DEF SendStagePush, database
  <2>4. CASE \E h \in Requests : Commit(h)
    BY <2>4, CommitByAssignee
  <2> QED BY <2>2, <2>3, <2>4, CalmSteps DEF IInv
<1> QED BY <1>1, <1>2, Invariance, PTL DEF Spec

-----------------------------------------------------------------------------
(* Evidence and its event *)

\* Attachments not yet committed are of the request that holds them, and were
\* uploaded for the version it read, which is the one its patch replaces.
StagedInv ==
  \A h \in Requests : \A a \in staged[h] :
    /\ pc[h] \in {"loaded", "written", "logged", "committed"}
    /\ req[h].type \in {"report_created", "cleaner_submitted_resolution"}
    /\ a.report = req[h].report /\ a.by = req[h].user /\ a.base \in Nat
    /\ pc[h] = "loaded" => existing[h].version = a.base
    /\ pc[h] # "loaded" => pending[h].version = a.base + 1

LEMMA EvidenceIs ==
  ASSUME TypeOK, NEW u \in Users, NEW r \in Reports, NEW ev \in Evidence(u, r), NEW a \in ev
  PROVE  a.report = r /\ a.by = u /\ a.base = report[r].version /\ a.base \in Nat
BY DEF Evidence, TypeOK, Row

\* Staging begins with the read row's version.
LEMMA ReadStages ==
  ASSUME TypeOK, StagedInv, NEW h \in Requests, NEW q, NEW ev, Read(h, q, ev),
         \A a \in ev : /\ q.type \in {"report_created", "cleaner_submitted_resolution"}
                       /\ a.report = q.report /\ a.by = q.user /\ a.base \in Nat
                       /\ a.base = report[q.report].version
  PROVE  StagedInv'
<1>1. /\ pc' = [pc EXCEPT ![h] = "loaded"] /\ req' = [req EXCEPT ![h] = q]
      /\ existing' = [existing EXCEPT ![h] = report[q.report]]
      /\ staged' = [staged EXCEPT ![h] = ev] /\ pending' = pending
  BY DEF Read
<1> QED BY <1>1 DEF StagedInv, TypeOK

LEMMA CreateStages ==
  ASSUME IInv, StagedInv, NEW h \in Requests, NEW r \in Reports, NEW u \in Users,
         NEW ev \in Evidence(u, r), CreateReport(h, u, r, ev)
  PROVE  StagedInv'
<1> DEFINE q == [type |-> "report_created", user |-> u, report |-> r, cleaner |-> NoUser]
<1>1. /\ pc' = [pc EXCEPT ![h] = "written"] /\ req' = [req EXCEPT ![h] = q]
      /\ pending' = [pending EXCEPT ![h] = Patch(AbsentRow, q)]
      /\ staged' = [staged EXCEPT ![h] = ev] /\ existing' = existing
      /\ report[r].status = "absent"
  BY DEF CreateReport
<1>2. Patch(AbsentRow, q).version = 1 /\ report[r].version = 0
  BY <1>1 DEF Patch, AbsentRow, IInv, LogInv
<1>3. \A a \in ev : a.report = r /\ a.by = u /\ a.base = 0
  BY <1>2, EvidenceIs DEF IInv
<1>4. q.type = "report_created" /\ q.report = r /\ q.user = u
  OBVIOUS
<1> HIDE DEF q
<1> QED BY <1>1, <1>2, <1>3, <1>4 DEF StagedInv, IInv, TypeOK

\* The bump goes from the version the handler read to the next.
LEMMA BumpStages ==
  ASSUME IInv, StagedInv, NEW h \in Requests, BumpVersion(h)
  PROVE  StagedInv'
<1> DEFINE r == req[h].report
<1>1. /\ pc[h] = "loaded" /\ pc' = [pc EXCEPT ![h] = "written"]
      /\ report[r].version = existing[h].version
      /\ pending' = [pending EXCEPT ![h] = Patch(report[r], req[h])]
      /\ UNCHANGED <<req, existing, staged>>
  BY DEF BumpVersion
<1>2. Patch(report[r], req[h]).version = existing[h].version + 1
  BY <1>1 DEF Patch
<1> QED BY <1>1, <1>2 DEF StagedInv, IInv, TypeOK

\* The steps of a handler that move on and change no row of its own, and its end.
LEMMA OthersStage ==
  ASSUME TypeOK, StagedInv, NEW h \in Requests,
         CreateEvent(h) \/ Commit(h) \/ StaleVersion(h) \/ SendStagePush(h) \/ Abort(h)
  PROVE  StagedInv'
<1>1. CASE CreateEvent(h)
  BY <1>1 DEF CreateEvent, StagedInv, TypeOK
<1>2. CASE Commit(h)
  BY <1>2 DEF Commit, StagedInv, TypeOK
<1>3. CASE StaleVersion(h) \/ SendStagePush(h) \/ Abort(h)
  <2>1. Finish(h)
    BY <1>3 DEF StaleVersion, SendStagePush, Abort
  <2> QED BY <2>1 DEF Finish, StagedInv, TypeOK
<1> QED BY <1>1, <1>2, <1>3

\* Every step of every handler keeps StagedInv.
LEMMA StepStages ==
  ASSUME IInv, StagedInv, [Next]_vars
  PROVE  StagedInv'
<1>0. TypeOK
  BY DEF IInv
<1>1. ASSUME NEW h \in Requests, NEW r \in Reports, NEW u \in Supervisors,
             \/ \E c \in Users : AssignCleaner(h, u, r, c)
             \/ SupervisorEndorse(h, u, r) \/ SupervisorReject(h, u, r)
      PROVE  StagedInv'
  <2>1. \A q : Read(h, q, {}) => StagedInv'
    BY <1>0, ReadStages
  <2> QED BY <1>1, <2>1 DEF AssignCleaner, SupervisorEndorse, SupervisorReject, AsSupervisor
<1>2. ASSUME NEW h \in Requests, NEW r \in Reports, NEW u \in Cleaners,
             CleanerAccept(h, u, r) \/ CleanerReject(h, u, r) \/ CleanerStart(h, u, r)
      PROVE  StagedInv'
  <2>1. \A q : Read(h, q, {}) => StagedInv'
    BY <1>0, ReadStages
  <2> QED BY <1>2, <2>1 DEF CleanerAccept, CleanerReject, CleanerStart, AsCleaner
<1>3. ASSUME NEW h \in Requests, NEW r \in Reports, NEW u \in Cleaners,
             NEW ev \in Evidence(u, r), CleanerResolve(h, u, r, ev)
      PROVE  StagedInv'
  <2> DEFINE q == [type |-> "cleaner_submitted_resolution", user |-> u, report |-> r,
                   cleaner |-> NoUser]
  <2>1. Read(h, q, ev)
    BY <1>3 DEF CleanerResolve, AsCleaner
  <2>2. \A a \in ev : a.report = r /\ a.by = u /\ a.base = report[r].version /\ a.base \in Nat
    BY <1>0, UsersAssumption, EvidenceIs
  <2>3. q.type = "cleaner_submitted_resolution" /\ q.report = r /\ q.user = u
    OBVIOUS
  <2> HIDE DEF q
  <2> QED BY <1>0, <2>1, <2>2, <2>3, ReadStages
<1>4. CASE UNCHANGED vars
  BY <1>4 DEF vars, handler, StagedInv
<1>5. ASSUME NEW h \in Requests, Step(h) \/ Abort(h) PROVE StagedInv'
  BY <1>0, <1>5, BumpStages, OthersStage DEF Step
<1>6. ASSUME NEW h \in Requests, NEW r \in Reports, NEW u \in Users,
             NEW ev \in Evidence(u, r), CreateReport(h, u, r, ev)
      PROVE  StagedInv'
  BY <1>6, CreateStages
<1> QED BY <1>1, <1>2, <1>3, <1>4, <1>5, <1>6 DEF Next, Quiet

\* A commit publishes its evidence with the event that is as many-th in the log as
\* the version it writes.
LEMMA CommitOfEvidence ==
  ASSUME IInv, CountInv, StagedInv, EvidenceHasEvent, NEW h \in Requests, Commit(h)
  PROVE  EvidenceHasEvent'
<1>0. PICK q \in Call, new \in Event :
        /\ Logs(h, q, new)
        /\ LogUpTo(new)' = LogOf(q.report) \cup {new}
        /\ \A f \in LogOf(q.report) : LogUpTo(f)' = LogUpTo(f)
        /\ \A k \in Reports \ {q.report} : LogOf(k)' = LogOf(k) /\ report'[k] = report[k]
  BY CommitLogs
<1>1. attachments' = attachments \cup staged[h] /\ pc[h] = "logged"
  BY DEF Commit
<1>2. /\ q = req[h] /\ q.report \in Reports /\ q.type \in EventTypes /\ report[q.report] \in Row
      /\ pending[h] = Patch(report[q.report], q)
      /\ new.report = q.report /\ new.type = q.type /\ new.actor = q.user
      /\ events' = events \cup {new} /\ LogOf(q.report)' = LogOf(q.report) \cup {new}
      /\ \A f \in LogOf(q.report) : f \in Event /\ f.seq < new.seq
  BY <1>0 DEF Logs
<1>3. Cardinality(LogUpTo(new)') = pending[h].version
  <2>1. new \notin LogOf(q.report)
    BY <1>2 DEF Event
  <2>2. /\ IsFiniteSet(LogOf(q.report))
        /\ report[q.report].version = Cardinality(LogOf(q.report))
    BY <1>2 DEF CountInv
  <2>3. Cardinality(LogOf(q.report) \cup {new}) = Cardinality(LogOf(q.report)) + 1
    BY <2>1, <2>2, FS_AddElement
  <2>4. pending[h].version = report[q.report].version + 1
    BY <1>2, PatchMoves
  <2> QED BY <1>0, <2>2, <2>3, <2>4
<1>4. ASSUME NEW a \in staged[h]
      PROVE  \E e \in LogOf(a.report)' :
               /\ e.type \in {"report_created", "cleaner_submitted_resolution"}
               /\ e.actor = a.by
               /\ Cardinality(LogUpTo(e)') = a.base + 1
  <2>1. /\ q.type \in {"report_created", "cleaner_submitted_resolution"}
        /\ a.report = q.report /\ a.by = q.user /\ pending[h].version = a.base + 1
    BY <1>1, <1>2 DEF StagedInv
  <2>2. new \in LogOf(a.report)'
    BY <1>2, <2>1
  <2> QED BY <1>2, <1>3, <2>1, <2>2
<1>5. ASSUME NEW a \in attachments
      PROVE  \E e \in LogOf(a.report)' :
               /\ e.type \in {"report_created", "cleaner_submitted_resolution"}
               /\ e.actor = a.by
               /\ Cardinality(LogUpTo(e)') = a.base + 1
  <2>1. PICK e \in LogOf(a.report) :
               /\ e.type \in {"report_created", "cleaner_submitted_resolution"}
               /\ e.actor = a.by
               /\ Cardinality(LogUpTo(e)) = a.base + 1
    BY DEF EvidenceHasEvent
  <2>2. e.report = a.report /\ e \in LogOf(a.report)'
    BY <1>2 DEF LogOf
  <2>3. LogUpTo(e)' = LogUpTo(e)
    <3>1. CASE e.report = q.report
      BY <1>0, <2>1, <2>2, <3>1
    <3>2. CASE e.report # q.report
      BY <1>2, <3>2 DEF LogUpTo, LogOf
    <3> QED BY <3>1, <3>2
  <2> QED BY <2>1, <2>2, <2>3
<1> QED BY <1>1, <1>4, <1>5 DEF EvidenceHasEvent

\* Only a commit publishes attachments and notifications.
LEMMA OnlyCommitsPublish ==
  ASSUME [Next]_vars
  PROVE  UNCHANGED <<notifications, attachments>> \/ \E h \in Requests : Commit(h)
<1>1. ASSUME NEW h \in Requests, NEW r \in Reports, NEW u \in Users,
             NEW e \in Evidence(u, r), CreateReport(h, u, r, e)
      PROVE  UNCHANGED <<notifications, attachments>>
  BY <1>1 DEF CreateReport
<1>2. ASSUME NEW h \in Requests, NEW q, NEW ev, Read(h, q, ev)
      PROVE  UNCHANGED <<notifications, attachments>>
  BY <1>2 DEF Read, database
<1>3. ASSUME NEW h \in Requests, NEW r \in Reports, NEW u \in Supervisors,
             \/ \E c \in Users : AssignCleaner(h, u, r, c)
             \/ SupervisorEndorse(h, u, r) \/ SupervisorReject(h, u, r)
      PROVE  UNCHANGED <<notifications, attachments>>
  BY <1>2, <1>3 DEF AssignCleaner, SupervisorEndorse, SupervisorReject, AsSupervisor
<1>4. ASSUME NEW h \in Requests, NEW r \in Reports, NEW u \in Cleaners,
             \/ CleanerAccept(h, u, r) \/ CleanerReject(h, u, r) \/ CleanerStart(h, u, r)
             \/ \E e \in Evidence(u, r) : CleanerResolve(h, u, r, e)
      PROVE  UNCHANGED <<notifications, attachments>>
  BY <1>2, <1>4 DEF CleanerAccept, CleanerReject, CleanerStart, CleanerResolve, AsCleaner
<1>5. ASSUME NEW h \in Requests, Step(h) \/ Abort(h)
      PROVE  UNCHANGED <<notifications, attachments>> \/ Commit(h)
  BY <1>5 DEF Step, BumpVersion, StaleVersion, CreateEvent, SendStagePush, Abort, database
<1>6. UNCHANGED vars => UNCHANGED <<notifications, attachments>>
  BY DEF vars, database
<1> QED BY <1>1, <1>3, <1>4, <1>5, <1>6 DEF Next, Quiet

\* Photos of a creation or a resolution are in the database only with that
\* event, the one after the version its request had read: a resolution that lost
\* the race for the version leaves none.
THEOREM EvidenceIsLogged == Spec => []EvidenceHasEvent
<1> DEFINE Inv == CountInv /\ StagedInv /\ EvidenceHasEvent
<1>1. Init => Inv
  <2>1. \A r \in Reports : Init => LogOf(r) = {} /\ report[r].version = 0
    BY DEF Init, LogOf, AbsentRow
  <2>2. Init => CountInv
    BY <2>1, FS_EmptySet DEF Init, CountInv
  <2>3. Init => StagedInv /\ EvidenceHasEvent
    BY DEF Init, StagedInv, EvidenceHasEvent
  <2> QED BY <2>2, <2>3
<1>2. IInv /\ Inv /\ [Next]_vars => Inv'
  <2> SUFFICES ASSUME IInv, Inv, [Next]_vars PROVE Inv'
    OBVIOUS
  <2>1. CountInv'
    BY CalmSteps, CalmCounts, CommitCounts, PushCounts DEF IInv
  <2>2. StagedInv'
    BY StepStages
  <2>3. EvidenceHasEvent'
    <3>1. CASE \E h \in Requests : Commit(h)
      BY <3>1, CommitOfEvidence
    <3>2. CASE UNCHANGED attachments /\ UNCHANGED events
      BY <3>2 DEF EvidenceHasEvent, LogOf, LogUpTo
    <3>3. CASE \E h \in Requests : SendStagePush(h)
      BY <3>2, <3>3 DEF SendStagePush, database
    <3> QED BY <3>1, <3>2, <3>3, OnlyCommitsPublish, CalmSteps DEF Calm, IInv
  <2> QED BY <2>1, <2>2, <2>3
<1>3. Inv => EvidenceHasEvent
  OBVIOUS
<1> QED BY <1>1, <1>2, <1>3, Invariance, PTL DEF Spec

-----------------------------------------------------------------------------
(* The next actor hears of it *)

\* From its first assignment on, a report has a cleaner and a supervisor to tell.
StaffedInv ==
  \A r \in Reports : report[r].status \notin {"absent", "submitted"} =>
    report[r].cleaner \in Users /\ report[r].supervisor \in Users

LEMMA PatchStaffs ==
  ASSUME NEW row \in Row, NEW q \in Call, Admits(row, q),
         row.status \notin {"absent", "submitted"} => row.cleaner \in Users /\ row.supervisor \in Users
  PROVE  q.type # "report_created" =>
           Patch(row, q).cleaner \in Users /\ Patch(row, q).supervisor \in Users
<1>1. CASE q.type = "report_assigned" /\ q.user \in Supervisors /\ q.cleaner \in Users
  BY <1>1, UsersAssumption DEF Patch, SupervisorTypes, AssignTypes
<1>2. CASE /\ q.type \in {"supervisor_endorsed", "supervisor_rejected"}
           /\ q.user \in Supervisors /\ row.status = "resolved_by_cleaner"
  BY <1>2, UsersAssumption DEF Patch, SupervisorTypes, AssignTypes
<1>3. CASE /\ q.type \in CleanerTypes
           /\ row.status \notin {"absent", "submitted"}
  BY <1>3 DEF Patch, SupervisorTypes, AssignTypes, CleanerTypes
<1> QED BY <1>1, <1>2, <1>3 DEF Admits, CleanerTypes

\* Whom a handler tells includes whoever has to act on the row it writes.
NextOn(row) ==
  CASE row.status = "submitted" -> Supervisors \ {row.reporter}
    [] row.status \in {"assigned", "rejected_by_supervisor"} -> {row.cleaner}
    [] row.status \in {"resolved_by_cleaner", "rejected_by_cleaner"} -> {row.supervisor}
    [] OTHER -> {}

LEMMA AudienceHasNext ==
  ASSUME NEW old \in Row, NEW q \in Call, q.type \in EventTypes, NEW row, row = Patch(old, q),
         q.type # "report_created" => row.cleaner \in Users /\ row.supervisor \in Users,
         NEW u \in NextOn(row)
  PROVE  u \in Users /\ \E a \in {"reporter", "supervisor", "cleaner"} : u \in Audience(q, row)[a]
<1>0. row.status = StatusAfter(q.type)
  BY DEF Patch
<1>1. CASE q.type = "report_created"
  <2>1. row.status = "submitted" /\ row.reporter = q.user
    BY <1>0, <1>1 DEF Patch, StatusAfter
  <2>2. u \in Supervisors \ {q.user} /\ u \in Users
    BY <2>1, UsersAssumption DEF NextOn
  <2>3. Audience(q, row).supervisor = Supervisors \ {q.user}
    BY <1>1 DEF Audience, CleanerTypes
  <2> QED BY <2>2, <2>3
<1>2. CASE q.type \in {"report_assigned", "supervisor_rejected"}
  <2>1. row.status \in {"assigned", "rejected_by_supervisor"}
    BY <1>0, <1>2 DEF StatusAfter
  <2>2. u = row.cleaner /\ u \in Users /\ u # NoUser
    BY <1>2, <2>1, UsersAssumption DEF NextOn
  <2>3. Audience(q, row).cleaner = {row.cleaner} \ {NoUser}
    BY <1>2 DEF Audience, CleanerTypes
  <2> QED BY <2>2, <2>3
<1>3. CASE q.type \in {"cleaner_rejected_task", "cleaner_submitted_resolution"}
  <2>1. row.status \in {"resolved_by_cleaner", "rejected_by_cleaner"}
    BY <1>0, <1>3 DEF StatusAfter
  <2>2. u = row.supervisor /\ u \in Users /\ u # NoUser
    BY <1>3, <2>1, UsersAssumption DEF NextOn
  <2>3. Audience(q, row).supervisor = {row.supervisor} \ {NoUser}
    BY <1>3 DEF Audience, CleanerTypes
  <2> QED BY <2>2, <2>3
<1>4. CASE q.type \in {"cleaner_accepted_task", "cleaner_started_work", "supervisor_endorsed"}
  <2>1. row.status \in {"accepted_by_cleaner", "in_progress", "endorsed_by_supervisor"}
    BY <1>0, <1>4 DEF StatusAfter
  <2> QED BY <2>1 DEF NextOn
<1> QED BY <1>1, <1>2, <1>3, <1>4 DEF EventTypes, SupervisorTypes, CleanerTypes

\* NextActorNotified, said of the row a report has.
NextHears(row, log) ==
  \A e \in log : IsLast(e, log) =>
    \A u \in NextOn(row) : \E n \in notifications : n.user = u /\ n.event = e.seq

LEMMA CommitTells ==
  ASSUME IInv, StaffedInv, NEW h \in Requests, Commit(h),
         \A r \in Reports : NextHears(report[r], LogOf(r))
  PROVE  StaffedInv' /\ \A r \in Reports : NextHears(report[r], LogOf(r))'
<1>1. PICK q, row, new : q = req[h] /\ row = pending[h] /\ new = EventOf(req[h], pending[h], seqOf[h])
  OBVIOUS
<1>2. PICK r, old : r = q.report /\ old = report[r]
  OBVIOUS
<1>3. /\ pc[h] = "logged" /\ report' = [report EXCEPT ![r] = row]
      /\ events' = events \cup {new}
      /\ notifications' = notifications \cup NotificationsOf(q, row, seqOf[h])
  BY <1>1, <1>2 DEF Commit
<1>4. /\ q \in Call /\ r \in Reports /\ old \in Row /\ Admits(old, q)
      /\ row = Patch(old, q)
  BY <1>1, <1>2, <1>3 DEF IInv, WriterInv, Writing, TypeOK
<1>5. q.type \in EventTypes
  BY <1>4, AdmittedCall
<1>6. q.type # "report_created" => row.cleaner \in Users /\ row.supervisor \in Users
  BY <1>2, <1>4, PatchStaffs DEF StaffedInv
<1>7. new.seq = seqOf[h] /\ new.report = r /\ seqOf[h] \in Nat
  BY <1>1, <1>2 DEF EventOf, IInv, TypeOK
<1>8. report'[r] = row /\ \A k \in Reports \ {r} : report'[k] = report[k]
  BY <1>3, <1>4 DEF IInv, TypeOK
<1>9. StaffedInv'
  <2>1. q.type = "report_created" => row.status = "submitted"
    BY <1>4 DEF Patch, StatusAfter
  <2> QED BY <1>6, <1>8, <2>1 DEF StaffedInv
<1>10. NextHears(report[r], LogOf(r))'
  <2> SUFFICES ASSUME NEW e \in LogOf(r)', \A f \in LogOf(r)' : f.seq <= e.seq, NEW u \in NextOn(row)
               PROVE  \E n \in notifications' : n.user = u /\ n.event = e.seq
    BY <1>8 DEF NextHears, IsLast, NextOn
  <2>1. new \in LogOf(r)'
    BY <1>3, <1>7 DEF LogOf
  <2>2. \A f \in events : f.report = r => f \in Event /\ f.seq < new.seq
    BY <1>1, <1>2, <1>3, <1>7 DEF IInv, SeqInv, TypeOK
  <2>3. e = new
    BY <1>3, <1>7, <2>1, <2>2 DEF LogOf, Event
  <2>4. PICK a \in {"reporter", "supervisor", "cleaner"} : u \in Users /\ u \in Audience(q, row)[a]
    BY <1>4, <1>5, <1>6, AudienceHasNext
  <2>5. [user |-> u, event |-> seqOf[h], audience |-> a] \in notifications'
    BY <1>3, <2>4 DEF NotificationsOf
  <2> QED BY <1>7, <2>3, <2>5
<1>11. ASSUME NEW k \in Reports, k # r PROVE NextHears(report[k], LogOf(k))'
  <2>1. LogOf(k)' = LogOf(k)
    BY <1>3, <1>7, <1>11 DEF LogOf
  <2>2. NextHears(report[k], LogOf(k))
    OBVIOUS
  <2>3. NextOn(report[k])' = NextOn(report[k])
    BY <1>8, <1>11 DEF NextOn
  <2> SUFFICES ASSUME NEW e \in LogOf(k)', \A f \in LogOf(k)' : f.seq <= e.seq,
                      NEW u \in NextOn(report[k])'
               PROVE  \E n \in notifications' : n.user = u /\ n.event = e.seq
    BY DEF NextHears, IsLast
  <2>4. IsLast(e, LogOf(k)) /\ u \in NextOn(report[k])
    BY <2>1, <2>3 DEF IsLast
  <2> QED BY <1>3, <2>1, <2>2, <2>4 DEF NextHears
<1> QED BY <1>9, <1>10, <1>11

\* "fan out NotificationV2 rows to the next actor(s)", says reports.service.ts:9: in
\* every state whoever has to act next on a report holds a notification of its
\* newest event.
THEOREM NextActorHears == Spec => []NextActorNotified
<1> DEFINE Told == \A r \in Reports : NextHears(report[r], LogOf(r))
<1>1. Init => StaffedInv /\ Told
  BY DEF Init, StaffedInv, NextHears, LogOf, AbsentRow
<1>2. IInv /\ StaffedInv /\ Told /\ [Next]_vars => StaffedInv' /\ Told'
  <2> SUFFICES ASSUME IInv, StaffedInv, Told, [Next]_vars PROVE StaffedInv' /\ Told'
    OBVIOUS
  <2>1. CASE \E h \in Requests : Commit(h)
    BY <2>1, CommitTells
  <2>2. CASE UNCHANGED <<report, events, notifications>>
    <3>1. \A r \in Reports : LogOf(r)' = LogOf(r)
      BY <2>2 DEF LogOf
    <3>2. StaffedInv'
      BY <2>2 DEF StaffedInv
    <3>3. ASSUME NEW r \in Reports PROVE NextHears(report[r], LogOf(r))'
      BY <2>2, <3>1 DEF NextHears, IsLast, NextOn
    <3> QED BY <3>2, <3>3
  <2>3. \/ \E h \in Requests : Commit(h)
        \/ UNCHANGED <<report, events, notifications>>
    <3>1. (\E h \in Requests : SendStagePush(h)) => UNCHANGED <<report, events, notifications>>
      BY DEF SendStagePush, database
    <3> QED BY <3>1, OnlyCommitsPublish, CalmSteps DEF Calm, IInv
  <2> QED BY <2>1, <2>2, <2>3
<1>3. Told => NextActorNotified
  BY DEF NextHears, NextOn, NextActorNotified, NextActor
<1> QED BY <1>1, <1>2, <1>3, Invariance, PTL DEF Spec

-----------------------------------------------------------------------------
(* SyncV2: the feed of a report misses nothing behind its cursor *)

\* Events told apart by their seq, in order: the newest of some, and all of them.
BySeq(S) == \A x, y \in S : x.seq = y.seq => x = y
Ordered(s, S) ==
  /\ s \in [1..Cardinality(S) -> S]
  /\ \A i, j \in 1..Cardinality(S) : i < j => s[i].seq < s[j].seq

LEMMA NewestExists ==
  ASSUME NEW S \in SUBSET Event, IsFiniteSet(S), S # {}
  PROVE  \E x \in S : \A y \in S : y.seq <= x.seq
<1> DEFINE T == {A \in SUBSET S : A # {} /\ ~ \E x \in A : \A y \in A : y.seq <= x.seq}
<1>1. T = {}
  <2> SUFFICES ASSUME T # {} PROVE FALSE
    OBVIOUS
  <2>1. IsWellFoundedOn(StrictSubsetOrdering(S), SUBSET S)
    BY FS_StrictSubsetOrderingWellFounded, FS_FiniteSubsetsOfFinite
  <2>2. T \subseteq SUBSET S
    OBVIOUS
  <2> HIDE DEF T
  <2>3. PICK A \in T : \A B \in T : <<B, A>> \notin StrictSubsetOrdering(S)
    BY <2>1, <2>2, WFMin
  <2> USE DEF T
  <2>4. PICK x \in A : x \in Event
    OBVIOUS
  <2>5. A \ {x} \notin T
    BY <2>3, <2>4 DEF StrictSubsetOrdering
  <2>6. PICK y \in A : (A \ {x} = {} => y = x) /\ \A z \in A \ {x} : z.seq <= y.seq
    BY <2>5
  <2>7. \A z \in A : z.seq \in Nat
    BY DEF Event
  <2>8. \A z \in A : z.seq <= (IF x.seq <= y.seq THEN y.seq ELSE x.seq)
    BY <2>4, <2>6, <2>7
  <2> QED
    BY <2>4, <2>8
<1> QED
  BY <1>1

LEMMA OrderExists ==
  ASSUME NEW S \in SUBSET Event, IsFiniteSet(S), BySeq(S)
  PROVE  Ordered(InOrder(S), S)
<1> DEFINE T == {A \in SUBSET S : ~ \E s : Ordered(s, A)}
<1>1. T = {}
  <2> SUFFICES ASSUME T # {} PROVE FALSE
    OBVIOUS
  <2>1. IsWellFoundedOn(StrictSubsetOrdering(S), SUBSET S)
    BY FS_StrictSubsetOrderingWellFounded, FS_FiniteSubsetsOfFinite
  <2>2. T \subseteq SUBSET S
    OBVIOUS
  <2> HIDE DEF T
  <2>3. PICK A \in T : \A B \in T : <<B, A>> \notin StrictSubsetOrdering(S)
    BY <2>1, <2>2, WFMin
  <2> USE DEF T
  <2>4. A \subseteq S /\ IsFiniteSet(A) /\ ~ \E s : Ordered(s, A)
    BY FS_Subset
  <2>5. A # {}
    <3>1. ASSUME A = {} PROVE Ordered(<<>>, A)
      BY <3>1, FS_EmptySet DEF Ordered
    <3> QED
      BY <2>4, <3>1
  <2>6. PICK x \in A : \A y \in A : y.seq <= x.seq
    BY <2>4, <2>5, NewestExists
  <2>7. PICK B : B = A \ {x}
    OBVIOUS
  <2>8. /\ IsFiniteSet(B) /\ Cardinality(B) \in Nat /\ Cardinality(A) = Cardinality(B) + 1
    <3>1. IsFiniteSet(B) /\ Cardinality(B) = Cardinality(A) - 1
      BY <2>4, <2>6, <2>7, FS_RemoveElement
    <3>2. Cardinality(A) \in Nat /\ Cardinality(B) \in Nat
      BY <2>4, <3>1, FS_CardinalityType
    <3> QED
      BY <3>1, <3>2
  <2>9. PICK s : Ordered(s, B)
    <3>1. B \in SUBSET S /\ B \subseteq A /\ B # A
      BY <2>4, <2>6, <2>7
    <3>2. <<B, A>> \in StrictSubsetOrdering(S)
      BY <2>4, <3>1 DEF StrictSubsetOrdering
    <3>3. B \notin T
      BY <2>3, <3>2
    <3> QED
      BY <3>1, <3>3
  <2>10. \A y \in B : y \in A /\ y.seq < x.seq
    BY <2>4, <2>6, <2>7 DEF BySeq, Event
  <2>11. PICK m \in Nat : m = Cardinality(B)
    BY <2>8
  <2>12. PICK t : t = [i \in 1..(m + 1) |-> IF i = m + 1 THEN x ELSE s[i]]
    OBVIOUS
  <2>13. s \in [1..m -> B] /\ \A i, j \in 1..m : i < j => s[i].seq < s[j].seq
    BY <2>9, <2>11 DEF Ordered
  <2>14. t \in [1..(m + 1) -> A]
    BY <2>6, <2>10, <2>11, <2>12, <2>13
  <2>15. ASSUME NEW i \in 1..(m + 1), NEW j \in 1..(m + 1), i < j PROVE t[i].seq < t[j].seq
    <3>1. i \in 1..m /\ t[i] = s[i] /\ s[i] \in B
      BY <2>11, <2>12, <2>13, <2>15
    <3>2. CASE j = m + 1
      BY <2>10, <2>12, <3>1, <3>2
    <3>3. CASE j # m + 1
      BY <2>11, <2>12, <2>13, <2>15, <3>1, <3>3
    <3> QED
      BY <3>2, <3>3
  <2>16. Ordered(t, A)
    BY <2>8, <2>11, <2>14, <2>15 DEF Ordered
  <2> QED
    BY <2>4, <2>16
<1>2. \E s : Ordered(s, S)
  BY <1>1
<1> QED
  BY <1>2 DEF InOrder, Ordered

\* A page: found events, the oldest of those there are.
IsPage(page, F) ==
  /\ page \in Seq(F)
  /\ page # <<>> =>
       /\ Len(page) \in DOMAIN page
       /\ \A i \in DOMAIN page : page[i].seq <= page[Len(page)].seq
       /\ \A e \in F : e.seq <= page[Len(page)].seq => \E i \in DOMAIN page : page[i] = e

LEMMA PageIs ==
  ASSUME NEW f, NEW since, Found(f, since) \subseteq Event, IsFiniteSet(Found(f, since)),
         BySeq(Found(f, since))
  PROVE  IsPage(EventsSince(f, since), Found(f, since))
<1>1. PICK F : F = Found(f, since)
  OBVIOUS
<1>2. PICK n \in Nat : n = Cardinality(F)
  BY <1>1, FS_CardinalityType
<1>3. PICK s : s = InOrder(F)
  OBVIOUS
<1>4. s \in [1..n -> F] /\ \A i, j \in 1..n : i < j => s[i].seq < s[j].seq
  BY <1>1, <1>2, <1>3, OrderExists DEF Ordered
<1>5. \A e \in F : e.seq \in Nat
  BY <1>1 DEF Event
\* Nothing is left out, for the places are as many as the events.
<1>6. \A e \in F : \E i \in 1..n : s[i] = e
  <2>1. s \in Injection(1..n, F)
    <3>1. ASSUME NEW i \in 1..n, NEW j \in 1..n, s[i] = s[j] PROVE i = j
      <4>1. i < j \/ j < i \/ i = j
        BY <1>2
      <4> QED
        BY <1>4, <1>5, <3>1, <4>1
    <3> QED
      BY <1>4, <3>1 DEF Injection, IsInjective
  <2>2. IsFiniteSet(1..n) /\ Cardinality(1..n) = n
    BY <1>2, FS_Interval
  <2>3. s \in Surjection(1..n, F)
    BY <1>1, <1>2, <2>1, <2>2, FS_Injection
  <2> QED
    BY <2>3 DEF Surjection
<1>7. PICK k \in 0..n : k = (IF n < PageSize THEN n ELSE PageSize)
  BY <1>2, FeedsAssumption
<1>8. s \in Seq(F) /\ Len(s) = n
  BY <1>2, <1>4
<1>9. PICK page : page = EventsSince(f, since) /\ page = SubSeq(s, 1, k)
  BY <1>1, <1>2, <1>3, <1>7 DEF EventsSince
<1>10. page \in Seq(F) /\ Len(page) = k /\ \A i \in 1..k : page[i] = s[i]
  BY <1>2, <1>7, <1>8, <1>9
<1>11. ASSUME page # <<>>
       PROVE  /\ Len(page) \in DOMAIN page
              /\ \A i \in DOMAIN page : page[i].seq <= page[Len(page)].seq
              /\ \A e \in F : e.seq <= page[Len(page)].seq => \E i \in DOMAIN page : page[i] = e
  <2>1. k \in 1..n /\ DOMAIN page = 1..k /\ page[k] = s[k] /\ s[k] \in F
    BY <1>4, <1>7, <1>10, <1>11
  <2>2. \A i \in 1..k : s[i].seq <= s[k].seq
    <3>1. SUFFICES ASSUME NEW i \in 1..k, i # k PROVE s[i].seq <= s[k].seq
      BY <1>5, <2>1
    <3>2. i \in 1..n /\ i < k /\ s[i] \in F
      BY <1>4, <2>1, <3>1
    <3> QED
      BY <1>4, <1>5, <2>1, <3>2
  <2>3. ASSUME NEW e \in F, e.seq <= s[k].seq PROVE \E i \in 1..k : s[i] = e
    <3>1. PICK i \in 1..n : s[i] = e
      BY <1>6
    <3>2. ~ k < i
      BY <1>4, <1>5, <2>1, <2>3, <3>1
    <3> QED
      BY <2>1, <3>1, <3>2
  <2>4. Len(page) = k /\ \A i \in 1..k : page[i] = s[i]
    BY <1>10
  <2>5. \A e \in F : e.seq <= s[k].seq => \E i \in 1..k : page[i] = e
    BY <2>3, <2>4
  <2> QED
    BY <2>1, <2>2, <2>4, <2>5
<1> QED
  BY <1>1, <1>9, <1>10, <1>11 DEF IsPage

\* No two events have one seq, and none has that of a transaction under way.
SeqsApart ==
  /\ IsFiniteSet(events) /\ BySeq(events) /\ \A e \in events : e.seq > 0
  /\ \A h \in Requests : pc[h] = "logged" => seqOf[h] > 0 /\ \A e \in events : e.seq # seqOf[h]
  /\ \A g, h \in Requests : pc[g] = "logged" /\ pc[h] = "logged" /\ seqOf[g] = seqOf[h] => g = h

LEMMA SeqSteps ==
  ASSUME TypeOK, [Next]_vars
  PROVE  \/ /\ events' = events
            /\ \A h \in Requests : pc'[h] = "logged" => pc[h] = "logged" /\ seqOf'[h] = seqOf[h]
         \/ \E h \in Requests : CreateEvent(h) \/ Commit(h)
<1> DEFINE Idle == /\ events' = events
                   /\ \A h \in Requests : pc'[h] = "logged" => pc[h] = "logged" /\ seqOf'[h] = seqOf[h]
<1>1. ASSUME NEW h \in Requests, NEW r \in Reports, NEW u \in Users,
             NEW e \in Evidence(u, r), CreateReport(h, u, r, e)
      PROVE  Idle
  BY <1>1 DEF CreateReport, TypeOK
<1>2. ASSUME NEW h \in Requests, NEW q, NEW ev, Read(h, q, ev)
      PROVE  Idle
  BY <1>2 DEF Read, database, TypeOK
<1>3. ASSUME NEW h \in Requests, BumpVersion(h) \/ StaleVersion(h) \/ SendStagePush(h) \/ Abort(h)
      PROVE  Idle
  BY <1>3 DEF BumpVersion, StaleVersion, SendStagePush, Abort, Finish, database, TypeOK
<1>4. UNCHANGED vars => Idle
  BY DEF vars, database, handler
<1> HIDE DEF Idle
<1>5. ASSUME NEW h \in Requests, NEW r \in Reports, NEW u \in Supervisors,
             \/ \E c \in Users : AssignCleaner(h, u, r, c)
             \/ SupervisorEndorse(h, u, r) \/ SupervisorReject(h, u, r)
      PROVE  Idle
  BY <1>2, <1>5 DEF AssignCleaner, SupervisorEndorse, SupervisorReject, AsSupervisor
<1>6. ASSUME NEW h \in Requests, NEW r \in Reports, NEW u \in Cleaners,
             \/ CleanerAccept(h, u, r) \/ CleanerReject(h, u, r) \/ CleanerStart(h, u, r)
             \/ \E e \in Evidence(u, r) : CleanerResolve(h, u, r, e)
      PROVE  Idle
  BY <1>2, <1>6 DEF CleanerAccept, CleanerReject, CleanerStart, CleanerResolve, AsCleaner
<1>7. Idle \/ \E h \in Requests : CreateEvent(h) \/ Commit(h)
  BY <1>1, <1>3, <1>4, <1>5, <1>6 DEF Next, Step, Quiet
<1> QED
  BY <1>7 DEF Idle

LEMMA SeqsStayApart == ASSUME IInv, SeqsApart, [Next]_vars PROVE SeqsApart'
<1>1. CASE /\ events' = events
           /\ \A h \in Requests : pc'[h] = "logged" => pc[h] = "logged" /\ seqOf'[h] = seqOf[h]
  BY <1>1 DEF SeqsApart, BySeq
<1>2. ASSUME NEW h \in Requests, CreateEvent(h) PROVE SeqsApart'
  <2>1. /\ events' = events /\ seqOf' = [seqOf EXCEPT ![h] = nextSeq]
        /\ pc' = [pc EXCEPT ![h] = "logged"]
    BY <1>2 DEF CreateEvent
  <2>2. /\ nextSeq \in Nat \ {0} /\ \A e \in events : e.seq < nextSeq /\ e.seq \in Nat
        /\ \A g \in Requests : pc[g] = "logged" => seqOf[g] < nextSeq /\ seqOf[g] \in Nat
        /\ pc \in [Requests -> {"idle", "loaded", "written", "logged", "committed"}]
        /\ seqOf \in [Requests -> Nat]
    BY DEF IInv, TypeOK, SeqInv, Event
  <2>3. \A g \in Requests : IF g = h THEN seqOf'[g] = nextSeq
                            ELSE seqOf'[g] = seqOf[g] /\ (pc'[g] = "logged" => pc[g] = "logged")
    BY <2>1, <2>2
  <2> QED
    BY <2>1, <2>2, <2>3 DEF SeqsApart, BySeq
<1>3. ASSUME NEW h \in Requests, Commit(h) PROVE SeqsApart'
  <2>1. PICK new : new = EventOf(req[h], pending[h], seqOf[h])
    OBVIOUS
  <2>2. /\ pc[h] = "logged" /\ events' = events \cup {new} /\ pc' = [pc EXCEPT ![h] = "committed"]
        /\ seqOf' = seqOf
    BY <1>3, <2>1 DEF Commit
  <2>3. new.seq = seqOf[h] /\ seqOf[h] > 0 /\ \A e \in events : e.seq # seqOf[h]
    BY <2>1, <2>2 DEF EventOf, SeqsApart
  <2>4. \A g \in Requests : pc'[g] = "logged" => g # h /\ pc[g] = "logged"
    BY <2>2 DEF IInv, TypeOK
  <2>5. IsFiniteSet(events')
    BY <2>2, FS_AddElement DEF SeqsApart
  <2>6. BySeq(events')
    BY <2>2, <2>3 DEF SeqsApart, BySeq
  <2> QED
    BY <2>2, <2>3, <2>4, <2>5, <2>6 DEF SeqsApart
<1> QED
  BY <1>1, <1>2, <1>3, SeqSteps DEF IInv

\* What a feed has received is up to its cursor; the cursor of one report's feed
\* is at an event of it, so an event whose transaction ends later, its seq being
\* above the report's log, is ahead of the cursor.
FeedInv ==
  /\ cursor \in [Feeds -> Nat] /\ received \in [Feeds -> SUBSET Nat]
  /\ \A f \in Feeds : \A s \in received[f] : s <= cursor[f]
  /\ \A f \in Feeds : f.scope \in Reports /\ cursor[f] # 0 =>
       \E e \in events : e.report = f.scope /\ e.seq = cursor[f]
  /\ ReportFeedComplete

\* A report with events keeps its reporter.
LEMMA ReportersStay ==
  ASSUME IInv, [Next]_vars
  PROVE  \A e \in events : report'[e.report].reporter = report[e.report].reporter
<1>1. CASE report' = report
  BY <1>1
<1>2. ASSUME NEW h \in Requests, Commit(h), NEW e \in events
      PROVE  report'[e.report].reporter = report[e.report].reporter
  <2>1. PICK q \in Call : /\ q.report \in Reports /\ Admits(report[q.report], q)
                          /\ report' = [report EXCEPT ![q.report] = Patch(report[q.report], q)]
    BY <1>2, CommitPatches
  <2>2. e.report \in Reports /\ e \in LogOf(e.report) /\ report \in [Reports -> Row]
    BY DEF IInv, TypeOK, Event, LogOf
  <2>3. CASE e.report # q.report
    BY <2>1, <2>2, <2>3
  <2>4. CASE e.report = q.report
    <3>1. report[q.report].status # "absent"
      BY <2>2, <2>4 DEF IInv, LogInv
    <3>2. q.type # "report_created"
      BY <2>1, <3>1 DEF Admits, AbsentRow
    <3>3. Patch(report[q.report], q).reporter = report[q.report].reporter
      BY <3>2 DEF Patch
    <3> QED
      BY <2>1, <2>2, <2>4, <3>3
  <2> QED
    BY <2>3, <2>4
<1> QED
  BY <1>1, <1>2, OnlyCommitsWrite DEF vars, database

LEMMA EventsArrive ==
  ASSUME IInv, SeqsApart, FeedInv, [Next]_vars, UNCHANGED syncVars
  PROVE  FeedInv'
<1>1. UNCHANGED <<cursor, received>>
  BY DEF syncVars
<1>2. events \subseteq events'
  BY SeqSteps DEF CreateEvent, Commit, IInv
<1>3. ASSUME NEW f \in Feeds, NEW e \in events', e \notin events, f.scope = e.report PROVE ~ e.seq <= cursor[f]
  <2>1. PICK h \in Requests : Commit(h)
    BY <1>3, SeqSteps DEF CreateEvent, IInv
  <2>2. /\ pc[h] = "logged" /\ e = EventOf(req[h], pending[h], seqOf[h])
    BY <1>3, <2>1 DEF Commit
  <2>3. /\ e.seq = seqOf[h] /\ e.report = req[h].report /\ req[h].report \in Reports
        /\ seqOf[h] \in Nat /\ seqOf[h] > 0
    BY <2>2 DEF EventOf, SeqsApart, IInv, TypeOK, WriterInv, Writing
  <2>4. \A x \in events : x.report = e.report => x.seq < e.seq /\ x.seq \in Nat
    BY <2>2, <2>3 DEF IInv, SeqInv, TypeOK, Event
  <2>5. cursor[f] \in Nat
    BY DEF FeedInv
  <2> QED
    BY <1>3, <2>3, <2>4, <2>5 DEF FeedInv
<1>4. ReportFeedComplete'
  <2>1. SUFFICES ASSUME NEW f \in Feeds, NEW e \in events', f.scope = e.report, e.seq <= cursor[f],
                        f.user \in Supervisors \cup Admins \cup {report'[e.report].reporter}
                 PROVE  e.seq \in received[f]
    BY <1>1 DEF ReportFeedComplete
  <2>2. e \in events
    BY <1>3, <2>1
  <2> QED
    BY <2>1, <2>2, ReportersStay DEF FeedInv, ReportFeedComplete
<1> QED
  BY <1>1, <1>2, <1>4 DEF FeedInv

\* A page as a poll of the feed finds it.
LEMMA FeedPageIs ==
  ASSUME IInv, SeqsApart, NEW f \in Feeds
  PROVE  IsPage(EventsSince(f, cursor[f]), Found(f, cursor[f])) /\ Found(f, cursor[f]) \subseteq events
<1>1. Found(f, cursor[f]) \subseteq events
  BY DEF Found
<1>2. /\ Found(f, cursor[f]) \subseteq Event /\ IsFiniteSet(Found(f, cursor[f]))
      /\ BySeq(Found(f, cursor[f]))
  BY <1>1, FS_Subset DEF SeqsApart, BySeq, IInv, TypeOK
<1> QED
  BY <1>1, <1>2, PageIs

LEMMA PollKeeps ==
  ASSUME IInv, SeqsApart, FeedInv, NEW f \in Feeds, GetEventsSince(f)
  PROVE  FeedInv'
<1>1. PICK page : page = EventsSince(f, cursor[f])
  OBVIOUS
<1>2. PICK last : last = page[Len(page)]
  OBVIOUS
<1>3. /\ page # <<>> /\ UNCHANGED <<report, events>>
      /\ received' = [received EXCEPT ![f] = received[f] \cup {page[i].seq : i \in DOMAIN page}]
      /\ cursor' = [cursor EXCEPT ![f] = last.seq]
  BY <1>1, <1>2 DEF GetEventsSince, NextCursor, vars, database
<1>4. /\ page \in Seq(Found(f, cursor[f])) /\ Found(f, cursor[f]) \subseteq events
      /\ Len(page) \in DOMAIN page
      /\ \A i \in DOMAIN page : page[i].seq <= last.seq
      /\ \A e \in Found(f, cursor[f]) : e.seq <= last.seq => \E i \in DOMAIN page : page[i] = e
  <2>1. IsPage(page, Found(f, cursor[f])) /\ Found(f, cursor[f]) \subseteq events
    BY <1>1, FeedPageIs
  <2> QED
    BY <1>2, <1>3, <2>1 DEF IsPage
<1>5. \A i \in DOMAIN page : page[i] \in Found(f, cursor[f]) /\ page[i].seq \in Nat
  BY <1>4 DEF IInv, TypeOK, Event
<1>6. last \in Found(f, cursor[f]) /\ last.seq \in Nat /\ last.seq > cursor[f] /\ cursor[f] \in Nat
  BY <1>2, <1>4, <1>5 DEF Found, After, FeedInv
<1>7. /\ cursor' \in [Feeds -> Nat] /\ received' \in [Feeds -> SUBSET Nat]
      /\ cursor'[f] = last.seq /\ received'[f] = received[f] \cup {page[i].seq : i \in DOMAIN page}
      /\ \A g \in Feeds : g # f => cursor'[g] = cursor[g] /\ received'[g] = received[g]
  BY <1>3, <1>5, <1>6 DEF FeedInv
<1>8. \A g \in Feeds : \A s \in received'[g] : s <= cursor'[g]
  <2>1. \A s \in received[f] : s \in Nat /\ s <= cursor[f]
    BY DEF FeedInv
  <2>2. \A s \in received'[f] : s <= last.seq
    BY <1>4, <1>6, <1>7, <2>1
  <2> QED
    BY <1>7, <2>2 DEF FeedInv
<1>9. \A g \in Feeds : g.scope \in Reports /\ cursor'[g] # 0 =>
        \E e \in events' : e.report = g.scope /\ e.seq = cursor'[g]
  <2>1. f.scope \in Reports => last \in events /\ last.report = f.scope
    BY <1>4, <1>6, FeedsAssumption DEF Found, InScope
  <2> QED
    BY <1>3, <1>7, <2>1 DEF FeedInv
<1>10. ReportFeedComplete'
  <2>1. SUFFICES ASSUME NEW g \in Feeds, NEW e \in events, g.scope = e.report, e.seq <= cursor'[g],
                        g.user \in Supervisors \cup Admins \cup {report[e.report].reporter}
                 PROVE  e.seq \in received'[g]
    BY <1>3 DEF ReportFeedComplete
  <2>2. CASE e.seq <= cursor[g]
    <3>1. e.seq \in received[g]
      BY <2>1, <2>2 DEF FeedInv, ReportFeedComplete
    <3> QED
      BY <1>7, <3>1
  <2>3. CASE ~ e.seq <= cursor[g]
    <3>1. g = f /\ e.seq <= last.seq
      BY <1>7, <2>1, <2>3
    <3>2. e \in Found(f, cursor[f])
      <4>1. e.seq \in Nat
        BY DEF IInv, TypeOK, Event
      <4>2. After(e, cursor[f]) /\ InScope(f, e) /\ Visible(f.user, e)
        BY <1>6, <2>1, <2>3, <3>1, <4>1 DEF After, InScope, Visible
      <4> QED
        BY <4>2 DEF Found
    <3>3. PICK i \in DOMAIN page : page[i] = e
      BY <1>4, <3>1, <3>2
    <3> QED
      BY <1>7, <3>1, <3>3
  <2> QED
    BY <2>2, <2>3
<1> QED
  BY <1>7, <1>8, <1>9, <1>10 DEF FeedInv

\* The feed does nothing to the reports, so what holds of them holds with it.
LEMMA FeedsWatch == SyncSpec => []IInv
<1>1. SyncInit => Init
  BY DEF SyncInit
<1>2. [SyncNext]_allVars => [Next]_vars
  BY DEF SyncNext, GetEventsSince, allVars
<1>3. SyncSpec => Spec
  BY <1>1, <1>2, PTL DEF SyncSpec, Spec
<1> QED
  BY <1>3, Invariance, PTL

LEMMA FeedsGoOn == SyncSpec => [](SeqsApart /\ FeedInv)
<1>1. SyncInit => SeqsApart /\ FeedInv
  BY FS_EmptySet DEF SyncInit, Init, SeqsApart, BySeq, FeedInv, ReportFeedComplete
<1>2. IInv /\ SeqsApart /\ FeedInv /\ [SyncNext]_allVars => SeqsApart' /\ FeedInv'
  <2> SUFFICES ASSUME IInv, SeqsApart, FeedInv, [SyncNext]_allVars PROVE SeqsApart' /\ FeedInv'
    OBVIOUS
  <2>1. CASE [Next]_vars /\ UNCHANGED syncVars
    BY <2>1, SeqsStayApart, EventsArrive
  <2>2. ASSUME NEW f \in Feeds, GetEventsSince(f) PROVE SeqsApart' /\ FeedInv'
    <3>1. [Next]_vars
      BY <2>2 DEF GetEventsSince
    <3> QED
      BY <2>2, <3>1, SeqsStayApart, PollKeeps
  <2> QED
    BY <2>1, <2>2 DEF SyncNext, allVars
<1> QED
  BY <1>1, <1>2, FeedsWatch, PTL DEF SyncSpec

\* A client that polls one report with the cursor of its last page has been given
\* every event of the report up to that cursor, for the row lock makes them commit
\* in the order of their seq: sync.service.ts, getEventsSince.
THEOREM ReportFeedsMissNothing == SyncSpec => []ReportFeedComplete
BY FeedsGoOn, PTL DEF FeedInv

\* A page brings no event again, for its events are beyond the cursor and what was
\* received is behind it; and it is the first of what was found, so nothing of that
\* is left behind its last event.
LEMMA PollIsExact ==
  ASSUME IInv, SeqsApart, FeedInv, NEW f \in Feeds, GetEventsSince(f)
  PROVE  /\ \A g \in Feeds : g # f => cursor'[g] = cursor[g]
         /\ \A i \in DOMAIN EventsSince(f, cursor[f]) :
              EventsSince(f, cursor[f])[i].seq \notin received[f]
         /\ \A e \in events :
              InScope(f, e) /\ Visible(f.user, e) /\ e.seq \in (cursor[f] + 1)..cursor'[f]
              => e.seq \in received'[f]
<1>1. PICK page : page = EventsSince(f, cursor[f])
  OBVIOUS
<1>2. /\ page # <<>> /\ cursor \in [Feeds -> Nat] /\ received \in [Feeds -> SUBSET Nat]
      /\ received' = [received EXCEPT ![f] = received[f] \cup {page[i].seq : i \in DOMAIN page}]
      /\ cursor' = [cursor EXCEPT ![f] = page[Len(page)].seq]
  BY <1>1 DEF GetEventsSince, NextCursor, FeedInv
<1>3. IsPage(page, Found(f, cursor[f])) /\ Found(f, cursor[f]) \subseteq events
  BY <1>1, FeedPageIs
<1>4. /\ \A i \in DOMAIN page : page[i] \in Found(f, cursor[f])
      /\ \A e \in Found(f, cursor[f]) :
           e.seq <= page[Len(page)].seq => \E i \in DOMAIN page : page[i] = e
  BY <1>2, <1>3 DEF IsPage
<1>5. cursor'[f] = page[Len(page)].seq
      /\ received'[f] = received[f] \cup {page[i].seq : i \in DOMAIN page}
      /\ \A g \in Feeds : g # f => cursor'[g] = cursor[g]
  BY <1>2
<1>6. ASSUME NEW i \in DOMAIN page PROVE page[i].seq \notin received[f]
  <2>1. page[i] \in Found(f, cursor[f]) /\ page[i] \in events
    BY <1>3, <1>4
  <2>2. page[i].seq > cursor[f] /\ page[i].seq \in Nat /\ cursor[f] \in Nat
    BY <2>1 DEF Found, After, FeedInv, IInv, TypeOK, Event
  <2>3. received[f] \in SUBSET Nat /\ \A s \in received[f] : s <= cursor[f]
    BY DEF FeedInv
  <2> QED
    BY <2>2, <2>3
<1>7. ASSUME NEW e \in events, InScope(f, e), Visible(f.user, e), e.seq \in (cursor[f] + 1)..cursor'[f]
      PROVE  e.seq \in received'[f]
  <2>1. e.seq > cursor[f] /\ e.seq <= page[Len(page)].seq
    BY <1>5, <1>7 DEF FeedInv, IInv, TypeOK, Event
  <2>2. e \in Found(f, cursor[f])
    BY <1>7, <2>1 DEF Found, After
  <2>3. PICK i \in DOMAIN page : page[i] = e
    BY <1>4, <2>1, <2>2
  <2> QED
    BY <1>5, <2>3
<1> QED
  BY <1>1, <1>5, <1>6, <1>7

\* sync.service.ts, getEventsSince: whatever the limit and the order in which
\* transactions commit, a page gives nothing twice and passes over nothing committed.
THEOREM PagesHold == SyncSpec => PagesAreExact
<1> DEFINE Exact == \A f \in Feeds : cursor'[f] # cursor[f] =>
                      LET page == EventsSince(f, cursor[f]) IN
                      /\ \A i \in DOMAIN page : page[i].seq \notin received[f]
                      /\ \A e \in events :
                           InScope(f, e) /\ Visible(f.user, e) /\ e.seq \in (cursor[f] + 1)..cursor'[f]
                           => e.seq \in received'[f]
<1>1. IInv /\ SeqsApart /\ FeedInv /\ SyncNext => Exact
  <2> SUFFICES ASSUME IInv, SeqsApart, FeedInv, SyncNext PROVE Exact
    OBVIOUS
  <2>1. CASE UNCHANGED syncVars
    BY <2>1 DEF syncVars
  <2>2. ASSUME NEW f \in Feeds, GetEventsSince(f) PROVE Exact
    BY <2>2, PollIsExact
  <2> QED
    BY <2>1, <2>2 DEF SyncNext
<1>2. SyncSpec => [][Exact]_allVars
  <2> HIDE DEF Exact
  <2> QED
    BY <1>1, FeedsWatch, FeedsGoOn, PTL DEF SyncSpec
<1> QED
  BY <1>2 DEF PagesAreExact, Exact
=============================================================================
