-------------------------- MODULE AssignmentV1Proofs --------------------------
(***************************************************************************)
(* Theorems about AssignmentV1, for every set of people, reports and       *)
(* requests: what holds under any overlap and failure, and what holds      *)
(* while requests run one at a time and none fails.                        *)
(***************************************************************************)
EXTENDS AssignmentV1, TLAPS

AnnounceOps == [step : {"announce"}, report : Reports]
AssignOps == [step : {"task", "assign", "acknowledge"}, by : Supervisors,
              cleaner : Cleaners, report : Reports]
UpdateOps == [step : {"clear", "write", "tell"}, by : Supervisors \cup Cleaners,
              report : Reports, status : Asked, to : SUBSET (Supervisors \cup Cleaners)]

\* A request whose report is in the database.
OnStored(o) == o.step \in {"announce", "acknowledge", "clear", "write", "tell"}

\* A decision is on its way only from a supervisor, and only an endorsement clears.
Entitled(o) ==
  o.step \in {"clear", "write", "tell"} =>
    /\ o.status \in Decided => o.by \in Supervisors
    /\ o.step = "clear" => o.status = "Resolved"

\* What the request has tested still holds.
Current(o) ==
  /\ o.step = "write" /\ o.status = "Rejected" =>
       report[o.report].status \in {"Awaiting Endorsement", "Rejected"}
  /\ o.step = "task" => roster[o.cleaner].supervisor = o.by

OpInv ==
  /\ op \in [Requests -> OpTypes]
  /\ \A q \in Requests : /\ OnStored(op[q]) => op[q].report \in Stored
                         /\ Entitled(op[q])

\* Until two requests overlap there is one at most, and nothing changes what it tested.
AloneInv ==
  ~ faulty => /\ \A p, q \in Requests : op[p] # Idle /\ op[q] # Idle => p = q
              /\ \A q \in Requests : Current(op[q])

RowInv ==
  /\ report \in [Reports -> Row \cup {NoReport}]
  /\ roster \in [Cleaners -> [supervisor : Supervisors, task : Reports \cup {NoReport}]]
  /\ told \in [Reports -> Notice]
  /\ hand \in [Reports -> SUBSET Columns]
  /\ faulty \in BOOLEAN

IInv == RowInv /\ OpInv /\ AloneInv /\ ReviewIsSigned

-----------------------------------------------------------------------------
\* The step of a request tells what it carries.
LEMMA OpShapes ==
  ASSUME NEW o \in OpTypes
  PROVE  /\ o.step = "idle" <=> o = Idle
         /\ o.step = "announce" => o \in AnnounceOps
         /\ o.step \in {"task", "assign", "acknowledge"} => o \in AssignOps
         /\ o.step \in {"clear", "write", "tell"} => o \in UpdateOps
BY DEF OpTypes, Idle, AnnounceOps, AssignOps, UpdateOps

LEMMA IdleIsOp == Idle \in OpTypes /\ ~OnStored(Idle) /\ Entitled(Idle) /\ Idle.step = "idle"
BY DEF OpTypes, Idle, OnStored, Entitled

\* A request that moves on with something it may carry, having been alone if
\* nothing is faulty yet, keeps what is said of requests.
LEMMA MoveKeeps ==
  ASSUME IInv, NEW q \in Requests, NEW o \in OpTypes,
         op' = [op EXCEPT ![q] = o],
         Stored \subseteq Stored', OnStored(o) => o.report \in Stored', Entitled(o),
         Begin(q) \/ (op[q] # Idle /\ faulty' = faulty), Current(o)'
  PROVE  OpInv' /\ AloneInv' /\ faulty' \in BOOLEAN
<1>1. /\ \A p \in Requests : op'[p] = IF p = q THEN o ELSE op[p]
      /\ op' \in [Requests -> OpTypes]
  BY DEF IInv, OpInv
<1>2. OpInv'
  BY <1>1 DEF IInv, OpInv, OnStored, Entitled
<1>3. ASSUME ~ faulty', NEW p \in Requests, p # q PROVE op'[p] = Idle
  BY <1>1, <1>3 DEF Begin, IInv, AloneInv
<1>4. AloneInv'
  <2> SUFFICES ASSUME ~ faulty'
               PROVE  /\ \A p, s \in Requests : op'[p] # Idle /\ op'[s] # Idle => p = s
                      /\ \A p \in Requests : Current(op[p])'
    BY DEF AloneInv
  <2>1. Current(Idle)'
    BY DEF Current, Idle
  <2>2. \A p \in Requests : Current(op[p])'
    BY <1>1, <1>3, <2>1 DEF Current
  <2> QED BY <1>3, <2>2
<1>5. faulty' \in BOOLEAN
  BY DEF Begin, IInv, RowInv
<1> QED BY <1>2, <1>4, <1>5

\* A request that ends is one that moves on to being idle.
LEMMA EndKeeps ==
  ASSUME IInv, NEW q \in Requests, op' = [op EXCEPT ![q] = Idle],
         Stored \subseteq Stored', Begin(q) \/ (op[q] # Idle /\ faulty' = faulty)
  PROVE  OpInv' /\ AloneInv' /\ faulty' \in BOOLEAN
<1>1. Current(Idle)'
  BY DEF Current, Idle
<1> QED BY <1>1, IdleIsOp, MoveKeeps

\* Rows not written stay as they are.
LEMMA SameRows == ASSUME IInv, UNCHANGED <<report, hand>> PROVE ReviewIsSigned' /\ Stored' = Stored
BY DEF IInv, ReviewIsSigned, Stored

LEMMA SameCurrent ==
  ASSUME NEW o, Current(o), UNCHANGED <<report, roster>> PROVE Current(o)'
BY DEF Current
-----------------------------------------------------------------------------
LEMMA InitIInv == Init => IInv
<1> SUFFICES ASSUME Init PROVE IInv
  OBVIOUS
<1>1. RowInv
  BY DEF Init, RowInv, NoNotice, Notice
<1>2. OpInv
  BY IdleIsOp DEF Init, OpInv
<1>3. AloneInv
  BY DEF Init, AloneInv, Current, Idle
<1>4. ReviewIsSigned
  BY DEF Init, ReviewIsSigned, Stored
<1> QED BY <1>1, <1>2, <1>3, <1>4 DEF IInv

LEMMA TellKeeps ==
  ASSUME IInv, NEW q \in Requests, NEW r \in Reports, NEW type, NEW to,
         type \in {"report_created", "report_acknowledged", "report_pending_endorsement",
                   "report_resolved_reporter", "report_rejected"},
         to \subseteq Supervisors \cup Cleaners, op[q] # Idle,
         TellOf(q, r, type, to)
  PROVE  IInv'
<1>1. /\ told' = [told EXCEPT ![r] = [type |-> type, to |-> to]]
      /\ op' = [op EXCEPT ![q] = Idle] /\ UNCHANGED <<report, roster, hand, faulty>>
  BY DEF TellOf
<1>2. [type |-> type, to |-> to] \in Notice
  BY DEF Notice
<1>3. RowInv'
  BY <1>1, <1>2 DEF IInv, RowInv
<1>4. ReviewIsSigned' /\ Stored' = Stored
  BY <1>1, SameRows
<1>5. OpInv' /\ AloneInv'
  BY <1>1, <1>4, EndKeeps
<1> QED BY <1>3, <1>4, <1>5 DEF IInv

LEMMA CreateKeeps ==
  ASSUME IInv, NEW q \in Requests, NEW r \in Reports, NEW st \in Statuses, CreateReport(q, r, st)
  PROVE  IInv'
<1>1. /\ Begin(q) /\ r \notin Stored /\ report' = [report EXCEPT ![r] = NewRow(st)]
      /\ hand' = [hand EXCEPT ![r] = IF st \in Decided THEN {"status"} ELSE {}]
      /\ UNCHANGED <<roster, told>>
  BY DEF CreateReport
<1>3. NewRow(st) \in Row
  BY DEF NewRow, Row
<1>4. Stored \subseteq Stored'
  BY <1>1, <1>3, RowAssumption DEF Stored, IInv, RowInv
<1>5. ReviewIsSigned'
  <2> SUFFICES ASSUME NEW k \in Stored', hand'[k] \cap {"status", "reviewer"} = {}
               PROVE  /\ report'[k].status = "Awaiting Endorsement" => report'[k].reviewer = Nobody
                      /\ report'[k].status \in Decided => report'[k].reviewer # Nobody
    BY DEF ReviewIsSigned
  <2>1. CASE k = r
    <3>1. report'[k] = NewRow(st) /\ hand'[k] = IF st \in Decided THEN {"status"} ELSE {}
      BY <1>1, <2>1 DEF IInv, RowInv, Stored
    <3> QED BY <3>1 DEF NewRow, Decided
  <2>2. CASE k # r
    BY <1>1, <2>2 DEF IInv, RowInv, ReviewIsSigned, Stored
  <2> QED BY <2>1, <2>2
<1>6. OpInv' /\ AloneInv' /\ faulty' \in BOOLEAN
  <2>1. CASE UNCHANGED op
    <3>1. op' = [op EXCEPT ![q] = Idle]
      BY <1>1, <2>1 DEF Begin, IInv, OpInv
    <3> QED BY <1>1, <1>4, <3>1, EndKeeps
  <2>2. CASE op' = [op EXCEPT ![q] = [step |-> "announce", report |-> r]]
            /\ report'[r] # NoReport
    <3> DEFINE o == [step |-> "announce", report |-> r]
    <3>1. o \in OpTypes /\ Entitled(o) /\ Current(o)' /\ o.report \in Stored'
      BY <2>2 DEF OpTypes, Entitled, Current, Stored
    <3> HIDE DEF o
    <3>2. op' = [op EXCEPT ![q] = o]
      BY <2>2 DEF o
    <3> QED BY <1>1, <1>4, <3>1, <3>2, MoveKeeps
  <2>3. report'[r] # NoReport
    BY <1>1, <1>3, RowAssumption DEF IInv, RowInv
  <2> QED BY <2>1, <2>2, <2>3 DEF CreateReport
<1>7. RowInv'
  <2>1. (IF st \in Decided THEN {"status"} ELSE {}) \in SUBSET Columns
    BY DEF Columns
  <2> QED BY <1>1, <1>3, <1>6, <2>1 DEF IInv, RowInv
<1> QED BY <1>5, <1>6, <1>7 DEF IInv

LEMMA ReassignKeeps ==
  ASSUME IInv, NEW q \in Requests, NEW c \in Cleaners, NEW s \in Supervisors,
         ReassignSupervisor(q, c, s)
  PROVE  IInv'
<1>1. /\ Begin(q) /\ roster' = [roster EXCEPT ![c].supervisor = s]
      /\ UNCHANGED <<report, told, op, hand>>
  BY DEF ReassignSupervisor
<1>2. op' = [op EXCEPT ![q] = Idle]
  BY <1>1 DEF Begin, IInv, OpInv
<1>3. ReviewIsSigned' /\ Stored' = Stored
  BY <1>1, SameRows
<1>4. OpInv' /\ AloneInv' /\ faulty' \in BOOLEAN
  BY <1>1, <1>2, <1>3, EndKeeps
<1>5. RowInv'
  BY <1>1, <1>4 DEF IInv, RowInv
<1> QED BY <1>3, <1>4, <1>5 DEF IInv

LEMMA BeginAssignKeeps ==
  ASSUME IInv, NEW q \in Requests, NEW s \in Supervisors, NEW c \in Cleaners,
         NEW r \in Reports, BeginAssign(q, s, c, r)
  PROVE  IInv'
<1> DEFINE o == [step |-> "task", by |-> s, cleaner |-> c, report |-> r]
<1>1. /\ Begin(q) /\ roster[c].supervisor = s /\ op' = [op EXCEPT ![q] = o]
      /\ UNCHANGED <<report, roster, told, hand>>
  BY DEF BeginAssign
<1>2. o \in OpTypes /\ Entitled(o) /\ ~OnStored(o) /\ Current(o)'
  BY <1>1 DEF OpTypes, Entitled, OnStored, Current
<1> HIDE DEF o
<1>3. ReviewIsSigned' /\ Stored' = Stored
  BY <1>1, SameRows
<1>4. OpInv' /\ AloneInv' /\ faulty' \in BOOLEAN
  BY <1>1, <1>2, <1>3, MoveKeeps
<1>5. RowInv'
  BY <1>1, <1>4 DEF IInv, RowInv
<1> QED BY <1>3, <1>4, <1>5 DEF IInv

LEMMA AssignTaskKeeps ==
  ASSUME IInv, NEW q \in Requests, AssignTask(q)
  PROVE  IInv'
<1>0. PICK o : o = [op[q] EXCEPT !.step = "assign"]
  OBVIOUS
<1>1. /\ op[q].step = "task"
      /\ roster' = [roster EXCEPT ![op[q].cleaner] =
                      [supervisor |-> op[q].by, task |-> op[q].report]]
      /\ op' = [op EXCEPT ![q] = o] /\ UNCHANGED <<report, told, hand, faulty>>
  BY <1>0 DEF AssignTask
<1>2. op[q] \in AssignOps /\ op[q] # Idle
  BY <1>1, OpShapes DEF IInv, OpInv
<1>3. o \in OpTypes /\ Entitled(o) /\ ~OnStored(o) /\ Current(o)'
  BY <1>0, <1>1, <1>2 DEF OpTypes, AssignOps, Entitled, OnStored, Current
<1>4. RowInv'
  BY <1>1, <1>2 DEF IInv, RowInv, AssignOps
<1>5. ReviewIsSigned' /\ Stored' = Stored
  BY <1>1, SameRows
<1>6. OpInv' /\ AloneInv'
  BY <1>1, <1>2, <1>3, <1>5, MoveKeeps
<1> QED BY <1>4, <1>5, <1>6 DEF IInv

LEMMA AssignReportKeeps ==
  ASSUME IInv, NEW q \in Requests, AssignReport(q)
  PROVE  IInv'
<1>0. PICK o : o = [op[q] EXCEPT !.step = "acknowledge"]
  OBVIOUS
<1>r. PICK r : r = op[q].report
  OBVIOUS
<1> DEFINE row == [report[r] EXCEPT !.status = "Assigned", !.cleaner = op[q].cleaner,
                                    !.supervisor = op[q].by]
<1>1. op[q].step = "assign" /\ UNCHANGED <<roster, told, faulty>>
  BY DEF AssignReport
<1>2. op[q] \in AssignOps /\ op[q] # Idle
  BY <1>1, OpShapes DEF IInv, OpInv
<1>3. CASE r \notin Stored
  <2>1. op' = [op EXCEPT ![q] = Idle] /\ UNCHANGED <<report, hand>>
    BY <1>3, <1>r DEF AssignReport
  <2>2. ReviewIsSigned' /\ Stored' = Stored
    BY <2>1, SameRows
  <2>3. OpInv' /\ AloneInv'
    BY <1>1, <1>2, <2>1, <2>2, EndKeeps
  <2>4. RowInv'
    BY <1>1, <2>1 DEF IInv, RowInv
  <2> QED BY <2>2, <2>3, <2>4 DEF IInv
<1>4. CASE r \in Stored
  <2>1. report[r] \in Row
    BY <1>4 DEF Stored, IInv, RowInv
  <2>2. /\ report' = [report EXCEPT ![r] = row] /\ op' = [op EXCEPT ![q] = o]
        /\ hand' = [hand EXCEPT ![r] = {}]
    <3>1. op' = [op EXCEPT ![q] = o] /\ hand' = [hand EXCEPT ![r] = {}]
      BY <1>0, <1>4, <1>r DEF AssignReport
    <3>2. report' = [report EXCEPT ![r].status = "Assigned", ![r].cleaner = op[q].cleaner,
                                   ![r].supervisor = op[q].by]
      BY <1>4, <1>r DEF AssignReport
    <3>3. report \in [Reports -> Row \cup {NoReport}]
      BY DEF IInv, RowInv
    <3> QED BY <2>1, <3>1, <3>2, <3>3 DEF Row
  <2>3. row \in Row /\ row.status = "Assigned"
    BY <1>2, <2>1 DEF Row, Statuses, AssignOps
  <2>4. o \in OpTypes /\ Entitled(o) /\ o.report = r /\ Current(o)'
    BY <1>0, <1>2, <1>r DEF OpTypes, AssignOps, Entitled, Current
  <2> HIDE DEF row
  <2>5. Stored' = Stored /\ r \in Reports
    BY <1>4, <2>2, <2>3, RowAssumption DEF Stored, IInv, RowInv
  <2>6. RowInv'
    BY <1>1, <2>2, <2>3 DEF IInv, RowInv
  <2>7. ReviewIsSigned'
    BY <2>2, <2>3, <2>5 DEF IInv, RowInv, ReviewIsSigned, Stored, Decided
  <2>8. OpInv' /\ AloneInv'
    BY <1>1, <1>2, <1>4, <2>2, <2>4, <2>5, MoveKeeps
  <2> QED BY <2>6, <2>7, <2>8 DEF IInv
<1> QED BY <1>3, <1>4

LEMMA BeginUpdateKeeps ==
  ASSUME IInv, NEW q \in Requests, NEW a \in Supervisors \cup Cleaners, NEW r \in Reports,
         NEW st \in Asked, BeginUpdate(q, a, r, st)
  PROVE  IInv'
<1> DEFINE next == NextStatus(a, st)
<1>0. PICK o : o =
        [step |-> IF next = "Resolved" THEN "clear" ELSE "write",
         by |-> a, report |-> r, status |-> next,
         to |-> Recipients(report[r], next)]
  OBVIOUS
<1>1. /\ Begin(q) /\ r \in Stored /\ Allowed(report[r], a, st)
      /\ op' = [op EXCEPT ![q] = o] /\ UNCHANGED <<report, roster, told, hand>>
  BY <1>0 DEF BeginUpdate
<1>2. report[r] \in Row
  BY <1>1 DEF Stored, IInv, RowInv
<1>3. next \in Asked /\ (next = "Resolved" => a \in Supervisors)
      /\ (next = "Rejected" => st = "Rejected")
  BY PeopleAssumption DEF NextStatus, Asked, Statuses
<1> HIDE DEF next
<1>4. o \in OpTypes
  <2>1. Recipients(report[r], next) \in SUBSET (Supervisors \cup Cleaners)
    BY <1>2 DEF Row, Recipients, People
  <2> QED BY <1>0, <1>3, <2>1 DEF OpTypes
<1>5. Entitled(o) /\ o.report = r
  BY <1>0, <1>1, <1>3 DEF Entitled, Allowed, Decided
<1>6. Current(o)'
  BY <1>0, <1>1, <1>3 DEF Current, Allowed
<1>7. ReviewIsSigned' /\ Stored' = Stored
  BY <1>1, SameRows
<1>8. OpInv' /\ AloneInv' /\ faulty' \in BOOLEAN
  BY <1>1, <1>4, <1>5, <1>6, <1>7, MoveKeeps
<1>9. RowInv'
  BY <1>1, <1>8 DEF IInv, RowInv
<1> QED BY <1>7, <1>8, <1>9 DEF IInv

LEMMA ClearKeeps ==
  ASSUME IInv, NEW q \in Requests, ClearAssignment(q)
  PROVE  IInv'
<1>0. PICK o : o = [op[q] EXCEPT !.step = "write"]
  OBVIOUS
<1>1. /\ op[q].step = "clear" /\ op' = [op EXCEPT ![q] = o] /\ UNCHANGED <<report, told, hand, faulty>>
      /\ roster' = [c \in Cleaners |-> IF roster[c].task = op[q].report
                                   THEN [roster[c] EXCEPT !.task = NoReport] ELSE roster[c]]
  BY <1>0 DEF ClearAssignment
<1>2. op[q] \in UpdateOps /\ op[q] # Idle
  BY <1>1, OpShapes DEF IInv, OpInv
<1>3. op[q].report \in Stored /\ op[q].status = "Resolved" /\ op[q].by \in Supervisors
  BY <1>1 DEF IInv, OpInv, OnStored, Entitled, Decided
<1>4. o \in OpTypes /\ Entitled(o) /\ o.report \in Stored /\ Current(o)'
  BY <1>0, <1>1, <1>2, <1>3 DEF OpTypes, UpdateOps, Entitled, Current
<1>5. RowInv'
  BY <1>1 DEF IInv, RowInv
<1>6. ReviewIsSigned' /\ Stored' = Stored
  BY <1>1, SameRows
<1>7. OpInv' /\ AloneInv'
  BY <1>1, <1>2, <1>4, <1>6, MoveKeeps
<1> QED BY <1>5, <1>6, <1>7 DEF IInv

\* A column not set by hand is what the row with its stamps has.
LEMMA UnchangedColumns ==
  ASSUME NEW row \in Row, NEW b \in Row
  PROVE  /\ Changed(row, b) \subseteq Columns
         /\ "cleaner" \notin Changed(row, b) => b.cleaner = row.cleaner
         /\ "supervisor" \notin Changed(row, b) => b.supervisor = row.supervisor
         /\ "reviewer" \notin Changed(row, b) => b.reviewer = row.reviewer
BY DEF Row, Changed, Columns

\* What an update writes: the status asked for or the old one, the stamps over what
\* the body names, and the other columns as the body has them.
WrittenAs(r, st, a, b) ==
  /\ r \in Stored /\ report' = [report EXCEPT ![r] = b]
  /\ b.status = IF st = "unnamed" THEN report[r].status ELSE st
  /\ st = "Awaiting Endorsement" => b.reviewer = Nobody
  /\ st \in Decided => b.reviewer = a
  /\ hand' \in [Reports -> SUBSET Columns]
  /\ \A k \in Reports : k # r => hand'[k] = hand[k]
  /\ st = "unnamed" => hand[r] \subseteq hand'[r]
  /\ "cleaner" \notin hand'[r] => b.cleaner = report[r].cleaner
  /\ "supervisor" \notin hand'[r] => b.supervisor = report[r].supervisor
  /\ "reviewer" \notin hand'[r] /\ st = "unnamed" => b.reviewer = report[r].reviewer

LEMMA Written ==
  ASSUME IInv, NEW q \in Requests, WriteReport(q), NEW r, r = op[q].report,
         NEW st, st = op[q].status
  PROVE  \E b \in Row : WrittenAs(r, st, op[q].by, b)
<1>1. op[q].step = "write" /\ op[q] \in UpdateOps
  BY OpShapes DEF WriteReport, IInv, OpInv
<1>2. r \in Stored /\ r \in Reports /\ report[r] \in Row
  BY <1>1 DEF IInv, OpInv, OnStored, Stored, RowInv
<1>3. PICK a : a = op[q].by
  OBVIOUS
<1>4. PICK row : row = Stamped(report[r], a, st)
  OBVIOUS
<1>5. st \in Asked /\ (st \in Decided => a \in Supervisors)
  BY <1>1, <1>3 DEF UpdateOps, IInv, OpInv, Entitled
<1>6. /\ row \in Row /\ row.cleaner = report[r].cleaner /\ row.supervisor = report[r].supervisor
      /\ row.status = IF st = "unnamed" THEN report[r].status ELSE st
      /\ row.reviewer = Reviewer(report[r].reviewer, a, st)
  <2>1. Reviewer(report[r].reviewer, a, st) \in Supervisors \cup {Nobody}
    BY <1>2, <1>5 DEF Reviewer, Row
  <2> QED BY <1>2, <1>4, <1>5, <2>1 DEF Stamped, Row, Asked
<1>7. PICK b \in Bodies(row, st) :
        /\ report' = [report EXCEPT ![r] = b]
        /\ hand' = [hand EXCEPT ![r] = Changed(row, b) \cup IF st = "unnamed" THEN hand[r] ELSE {}]
  BY <1>2, <1>3, <1>4 DEF WriteReport, IInv, RowInv
<1>8. b \in Row /\ b.status = row.status
      /\ (st \in Decided \cup {"Awaiting Endorsement"} => b.reviewer = row.reviewer)
  BY <1>7 DEF Bodies
<1>9. /\ st = "Awaiting Endorsement" => row.reviewer = Nobody
      /\ st \in Decided => row.reviewer = a
      /\ st = "unnamed" => row.reviewer = report[r].reviewer
  BY <1>6 DEF Reviewer, Decided
<1>10. hand'[r] = Changed(row, b) \cup (IF st = "unnamed" THEN hand[r] ELSE {})
  BY <1>2, <1>7 DEF IInv, RowInv
<1>11. hand' \in [Reports -> SUBSET Columns] /\ \A k \in Reports : k # r => hand'[k] = hand[k]
  BY <1>2, <1>6, <1>7, <1>8, UnchangedColumns DEF IInv, RowInv
<1>12. /\ st = "unnamed" => hand[r] \subseteq hand'[r]
       /\ "cleaner" \notin hand'[r] => b.cleaner = report[r].cleaner
       /\ "supervisor" \notin hand'[r] => b.supervisor = report[r].supervisor
       /\ "reviewer" \notin hand'[r] /\ st = "unnamed" => b.reviewer = report[r].reviewer
  BY <1>6, <1>8, <1>9, <1>10, UnchangedColumns
<1>13. WrittenAs(r, st, a, b)
  BY <1>2, <1>6, <1>7, <1>8, <1>9, <1>11, <1>12 DEF WrittenAs
<1> QED BY <1>3, <1>8, <1>13

\* A write signs the decision, and takes the signature off a new submission.
LEMMA WriteKeeps ==
  ASSUME IInv, NEW q \in Requests, WriteReport(q)
  PROVE  IInv'
<1>0. PICK o : o = [op[q] EXCEPT !.step = "tell"]
  OBVIOUS
<1>r. PICK r, st : r = op[q].report /\ st = op[q].status
  OBVIOUS
<1>1. /\ op[q].step = "write" /\ op' = [op EXCEPT ![q] = o] /\ UNCHANGED <<roster, told, faulty>>
  BY <1>0 DEF WriteReport
<1>2. op[q] \in UpdateOps /\ op[q] # Idle
  BY <1>1, OpShapes DEF IInv, OpInv
<1>3. st \in Decided => op[q].by \in Supervisors
  BY <1>1, <1>r DEF IInv, OpInv, Entitled
<1>w. PICK b \in Row : WrittenAs(r, st, op[q].by, b)
  BY <1>r, Written
<1>4. /\ r \in Stored /\ report' = [report EXCEPT ![r] = b]
      /\ b.status = IF st = "unnamed" THEN report[r].status ELSE st
      /\ st = "Awaiting Endorsement" => b.reviewer = Nobody
      /\ st \in Decided => b.reviewer = op[q].by
      /\ hand' \in [Reports -> SUBSET Columns]
      /\ \A k \in Reports : k # r => hand'[k] = hand[k]
      /\ st = "unnamed" => hand[r] \subseteq hand'[r]
      /\ "reviewer" \notin hand'[r] /\ st = "unnamed" => b.reviewer = report[r].reviewer
  BY <1>w DEF WrittenAs
<1>5. o \in OpTypes /\ Entitled(o) /\ o.report = r /\ Current(o)'
  BY <1>0, <1>1, <1>2, <1>3, <1>r DEF OpTypes, UpdateOps, Entitled, Current
<1>6. Stored' = Stored /\ r \in Reports
  BY <1>4, RowAssumption DEF Stored, IInv, RowInv
<1>7. RowInv'
  BY <1>1, <1>4 DEF IInv, RowInv
<1>8. ReviewIsSigned'
  <2> SUFFICES ASSUME NEW k \in Stored, hand'[k] \cap {"status", "reviewer"} = {}
               PROVE  /\ report'[k].status = "Awaiting Endorsement" => report'[k].reviewer = Nobody
                      /\ report'[k].status \in Decided => report'[k].reviewer # Nobody
    BY <1>6 DEF ReviewIsSigned
  <2>1. CASE k # r
    <3>1. report'[k] = report[k] /\ hand'[k] = hand[k]
      BY <1>4, <2>1 DEF Stored, IInv, RowInv
    <3>2. hand[k] \cap {"status", "reviewer"} = {}
      BY <3>1
    <3>3. /\ report[k].status = "Awaiting Endorsement" => report[k].reviewer = Nobody
          /\ report[k].status \in Decided => report[k].reviewer # Nobody
      BY <3>2 DEF IInv, ReviewIsSigned
    <3> QED BY <3>1, <3>3
  <2>2. CASE k = r /\ st = "unnamed"
    <3>1. report'[r] = b /\ b.status = report[r].status /\ b.reviewer = report[r].reviewer
      BY <1>4, <1>6, <2>2 DEF IInv, RowInv
    <3>2. hand[r] \cap {"status", "reviewer"} = {}
      BY <1>4, <2>2
    <3> QED BY <1>4, <2>2, <3>1, <3>2 DEF IInv, ReviewIsSigned
  <2>3. CASE k = r /\ st # "unnamed"
    <3>1. report'[r] = b /\ b.status = st
      BY <1>4, <1>6, <2>3 DEF IInv, RowInv
    <3> QED BY <1>3, <1>4, <2>3, <3>1, PeopleAssumption
  <2> QED BY <2>1, <2>2, <2>3
<1>9. OpInv' /\ AloneInv'
  BY <1>1, <1>2, <1>4, <1>5, <1>6, MoveKeeps
<1> QED BY <1>7, <1>8, <1>9 DEF IInv

LEMMA TellStepKeeps ==
  ASSUME IInv, NEW q \in Requests, Announce(q) \/ Acknowledge(q) \/ Tell(q)
  PROVE  IInv'
<1>0. op[q] \in OpTypes
  BY DEF IInv, OpInv
<1>1. CASE Announce(q)
  <2>1. op[q] \in AnnounceOps /\ op[q] # Idle
    BY <1>0, <1>1, OpShapes DEF Announce
  <2> QED BY <1>1, <2>1, TellKeeps DEF Announce, AnnounceOps
<1>2. CASE Acknowledge(q)
  <2>1. op[q] \in AssignOps /\ op[q] # Idle
    BY <1>0, <1>2, OpShapes DEF Acknowledge
  <2> QED BY <1>2, <2>1, TellKeeps DEF Acknowledge, AssignOps
<1>3. CASE Tell(q)
  <2>1. op[q] \in UpdateOps /\ op[q] # Idle
    BY <1>0, <1>3, OpShapes DEF Tell
  <2>2. op[q].report \in Reports /\ op[q].to \subseteq Supervisors \cup Cleaners
    BY <2>1 DEF UpdateOps
  <2>3. CASE op' = [op EXCEPT ![q] = Idle] /\ UNCHANGED <<report, roster, told, hand, faulty>>
    <3>1. ReviewIsSigned' /\ Stored' = Stored
      BY <2>3, SameRows
    <3>2. OpInv' /\ AloneInv'
      BY <2>1, <2>3, <3>1, EndKeeps
    <3>3. RowInv'
      BY <2>3 DEF IInv, RowInv
    <3> QED BY <3>1, <3>2, <3>3 DEF IInv
  <2>4. CASE \E type \in {"report_pending_endorsement", "report_resolved_reporter",
                          "report_rejected"} :
               TellOf(q, op[q].report, type, op[q].to)
    BY <2>1, <2>2, <2>4, TellKeeps
  <2> QED BY <1>3, <2>3, <2>4 DEF Tell
<1> QED BY <1>1, <1>2, <1>3

LEMMA FailKeeps ==
  ASSUME IInv, NEW q \in Requests, Fail(q)
  PROVE  IInv'
<1>1. /\ op' = [op EXCEPT ![q] = Idle] /\ faulty' = TRUE /\ UNCHANGED <<report, roster, told, hand>>
  BY DEF Fail
<1>2. ReviewIsSigned' /\ Stored' = Stored
  BY <1>1, SameRows
<1>3. OpInv'
  BY <1>1, <1>2, IdleIsOp DEF IInv, OpInv
<1>4. AloneInv' /\ RowInv'
  BY <1>1 DEF AloneInv, IInv, RowInv
<1> QED BY <1>2, <1>3, <1>4 DEF IInv

\* Whatever the requests do, overlap or fail, the inductive invariant stays.
THEOREM Invariance == Spec => []IInv
<1>1. IInv /\ [Next]_vars => IInv'
  <2> SUFFICES ASSUME IInv, [Next]_vars PROVE IInv'
    OBVIOUS
  <2>1. CASE UNCHANGED vars
    <3>1. UNCHANGED <<report, roster, told, op, hand, faulty>>
      BY <2>1 DEF vars
    <3> QED BY <3>1 DEF IInv, RowInv, OpInv, AloneInv, Current, ReviewIsSigned, Stored
  <2>2. ASSUME NEW q \in Requests,
               \/ \E r \in Reports, st \in Statuses : CreateReport(q, r, st)
               \/ \E c \in Cleaners, s \in Supervisors : ReassignSupervisor(q, c, s)
               \/ \E s \in Supervisors, c \in Cleaners, r \in Reports : BeginAssign(q, s, c, r)
               \/ \E a \in Supervisors \cup Cleaners, r \in Reports, st \in Asked :
                    BeginUpdate(q, a, r, st)
        PROVE  IInv'
    BY <2>2, CreateKeeps, ReassignKeeps, BeginAssignKeeps, BeginUpdateKeeps
  <2>3. ASSUME NEW q \in Requests,
               \/ Announce(q) \/ AssignTask(q) \/ AssignReport(q) \/ Acknowledge(q)
               \/ ClearAssignment(q) \/ WriteReport(q) \/ Tell(q) \/ Fail(q)
        PROVE  IInv'
    BY <2>3, TellStepKeeps, AssignTaskKeeps, AssignReportKeeps, ClearKeeps, WriteKeeps, FailKeeps
  <2> QED BY <2>1, <2>2, <2>3 DEF Next, Serve
<1> QED BY <1>1, InitIInv, PTL DEF Spec

\* Type correctness; and "Awaiting Endorsement" carries no reviewer, a decision its
\* own, whichever updates of the report overlap or stop half way.
THEOREM ReviewsAreSigned == Spec => []AssignmentInv
<1>1. IInv => AssignmentInv
  <2> SUFFICES ASSUME IInv, NEW q \in Requests
               PROVE  /\ RowInv /\ ReviewIsSigned /\ op[q] \in OpTypes
                      /\ OnStored(op[q]) => op[q].report \in Stored
    BY DEF AssignmentInv, TypeOK, OnStored, IInv, RowInv
  <2> QED BY DEF IInv, OpInv
<1> QED BY <1>1, Invariance, PTL

-----------------------------------------------------------------------------
(* Who may decide and who may free *)

\* The statements that write a stored report, or take a cleaner off its task or
\* give it one.
LEMMA OnlyStatementsWrite ==
  ASSUME IInv, [Next]_vars
  PROVE  \/ /\ UNCHANGED roster
            /\ \A r \in Stored : report'[r] = report[r]
         \/ \E q \in Requests : WriteReport(q) \/ AssignReport(q)
         \/ UNCHANGED report /\ \E q \in Requests :
              \/ AssignTask(q) \/ ClearAssignment(q)
              \/ \E c \in Cleaners, s \in Supervisors : ReassignSupervisor(q, c, s)
<1>1. ASSUME NEW q \in Requests, NEW r \in Reports, NEW st \in Statuses, CreateReport(q, r, st)
      PROVE  UNCHANGED roster /\ \A k \in Stored : report'[k] = report[k]
  BY <1>1 DEF CreateReport, Stored, IInv, RowInv
<1>2. ASSUME NEW q \in Requests, Announce(q) \/ Acknowledge(q) \/ Tell(q) \/ Fail(q)
      PROVE  UNCHANGED <<report, roster>>
  BY <1>2 DEF Announce, Acknowledge, Tell, TellOf, Fail
<1>3. ASSUME NEW q \in Requests,
             \/ \E s \in Supervisors, c \in Cleaners, r \in Reports : BeginAssign(q, s, c, r)
             \/ \E a \in Supervisors \cup Cleaners, r \in Reports, st \in Asked :
                  BeginUpdate(q, a, r, st)
      PROVE  UNCHANGED <<report, roster>>
  BY <1>3 DEF BeginAssign, BeginUpdate
<1>4. UNCHANGED vars => UNCHANGED <<report, roster>>
  BY DEF vars
<1>5. ASSUME NEW q \in Requests,
             \/ AssignTask(q) \/ ClearAssignment(q)
             \/ \E c \in Cleaners, s \in Supervisors : ReassignSupervisor(q, c, s)
      PROVE  UNCHANGED report
  BY <1>5 DEF AssignTask, ClearAssignment, ReassignSupervisor
<1> QED BY <1>1, <1>2, <1>3, <1>4, <1>5 DEF Next, Serve

\* A write, seen at one report: the decision and the row it lands on.
LEMMA WriteAt ==
  ASSUME IInv, NEW q \in Requests, WriteReport(q), NEW r \in Stored
  PROVE  /\ UNCHANGED roster /\ op[q].step = "write"
         /\ report'[r].status # report[r].status =>
              /\ op[q].report = r /\ report'[r].status = op[q].status
              /\ op[q].status \in Decided => op[q].by \in Supervisors
<1>1. op[q].step = "write" /\ UNCHANGED <<roster, told, faulty>>
  BY DEF WriteReport
<1>2. op[q].status \in Decided => op[q].by \in Supervisors
  BY <1>1 DEF IInv, OpInv, Entitled
<1>w. PICK b \in Row : WrittenAs(op[q].report, op[q].status, op[q].by, b)
  BY Written
<1>3. /\ op[q].report \in Stored /\ report' = [report EXCEPT ![op[q].report] = b]
      /\ b.status = IF op[q].status = "unnamed" THEN report[op[q].report].status ELSE op[q].status
  BY <1>w DEF WrittenAs
<1>4. op[q].report # r => report'[r] = report[r]
  BY <1>3 DEF Stored, IInv, RowInv
<1>5. op[q].report = r => report'[r] = b
  BY <1>3 DEF Stored, IInv, RowInv
<1> QED BY <1>1, <1>2, <1>3, <1>4, <1>5

\* An assignment decides nothing.
LEMMA AssignAt ==
  ASSUME IInv, NEW q \in Requests, AssignReport(q), NEW r \in Stored
  PROVE  /\ UNCHANGED roster
         /\ report'[r].status # report[r].status => report'[r].status = "Assigned"
<1>1. r \in Reports /\ report[r] \in Row
  BY DEF Stored, IInv, RowInv
<1> QED BY <1>1 DEF AssignReport, Row, IInv, RowInv

\* However requests overlap, only a supervisor decides about a filed report and only
\* an endorsement frees.
THEOREM WritesAreByRight == Spec => WritesByRight
<1> DEFINE
     Decide == \A r \in Stored :
       /\ report'[r].status # report[r].status
       /\ report'[r].status \in Decided
       => \E q \in Requests : /\ op[q].step = "write" /\ op[q].report = r
                              /\ op[q].by \in Supervisors
     Free == \A c \in Cleaners :
       roster[c].task # NoReport /\ roster'[c].task = NoReport
       => \E q \in Requests : /\ op[q].step = "clear" /\ op[q].report = roster[c].task
                              /\ op[q].by \in Supervisors
<1>1. IInv /\ [Next]_vars => Decide /\ Free
  <2> SUFFICES ASSUME IInv, [Next]_vars PROVE Decide /\ Free
    OBVIOUS
  <2>1. CASE UNCHANGED roster /\ \A r \in Stored : report'[r] = report[r]
    BY <2>1
  <2>2. ASSUME NEW q \in Requests, WriteReport(q) PROVE Decide /\ Free
    <3>1. UNCHANGED roster
      BY <2>2 DEF WriteReport
    <3>2. ASSUME NEW r \in Stored, report'[r].status # report[r].status
          PROVE  /\ op[q].step = "write" /\ op[q].report = r /\ report'[r].status = op[q].status
                 /\ op[q].status \in Decided => op[q].by \in Supervisors
      BY <2>2, <3>2, WriteAt
    <3> QED BY <3>1, <3>2
  <2>3. ASSUME NEW q \in Requests, AssignReport(q) PROVE Decide /\ Free
    <3>1. UNCHANGED roster
      BY <2>3 DEF AssignReport
    <3>2. Decide
      BY <2>3, AssignAt DEF Decided
    <3> QED BY <3>1, <3>2
  <2>4. ASSUME NEW q \in Requests, AssignTask(q) PROVE Free
    <3>1. op[q].step = "task" /\ op[q] \in AssignOps
      BY <2>4, OpShapes DEF AssignTask, IInv, OpInv
    <3>2. /\ roster' = [roster EXCEPT ![op[q].cleaner] =
                          [supervisor |-> op[q].by, task |-> op[q].report]]
          /\ op[q].report # NoReport
      BY <2>4, <3>1, ReportsAssumption DEF AssignTask, AssignOps
    <3> QED BY <3>1, <3>2 DEF IInv, RowInv
  <2>5. ASSUME NEW q \in Requests, ClearAssignment(q) PROVE Free
    <3>1. op[q].step = "clear" /\ op[q].by \in Supervisors
      BY <2>5 DEF ClearAssignment, IInv, OpInv, Entitled, Decided
    <3>2. roster' = [c \in Cleaners |-> IF roster[c].task = op[q].report
                                   THEN [roster[c] EXCEPT !.task = NoReport] ELSE roster[c]]
      BY <2>5 DEF ClearAssignment
    <3>3. ASSUME NEW c \in Cleaners, roster[c].task # op[q].report
          PROVE  roster'[c].task = roster[c].task
      BY <3>2, <3>3 DEF IInv, RowInv
    <3> QED BY <3>1, <3>3
  <2>6. ASSUME NEW q \in Requests, NEW c \in Cleaners, NEW s \in Supervisors,
               ReassignSupervisor(q, c, s)
        PROVE  Free
    BY <2>6 DEF ReassignSupervisor, IInv, RowInv
  <2>7. UNCHANGED report => Decide
    OBVIOUS
  <2> HIDE DEF Decide, Free
  <2> QED BY <2>1, <2>2, <2>3, <2>4, <2>5, <2>6, <2>7, OnlyStatementsWrite
<1> HIDE DEF Decide, Free
<1>2. Spec => [][Decide]_vars /\ [][Free]_vars
  BY <1>1, Invariance, PTL DEF Spec
<1> QED BY <1>2 DEF WritesByRight, OnlySupervisorsDecide, OnlyEndorsementFrees, Decide, Free
-----------------------------------------------------------------------------
(* What holds while requests run one at a time and none fails *)

\* What is said of r is right for its row, if no body named its status or its people.
NoticeRight(r) ==
  hand[r] \subseteq {"reviewer"} =>
    LET named == People({report[r].cleaner, report[r].supervisor}) IN
    /\ report[r].status = "Resolved" => told[r] = [type |-> "report_resolved_reporter", to |-> named]
    /\ report[r].status = "Rejected" => told[r] = [type |-> "report_rejected", to |-> named]
    /\ report[r].status = "Awaiting Endorsement" /\ report[r].supervisor # Nobody =>
         told[r] = [type |-> "report_pending_endorsement", to |-> {report[r].supervisor}]

\* The row is as the request read and left it, and the cleaners of a report about
\* to be resolved are off it.
Settled(o) ==
  /\ o.step \in {"clear", "write"} => o.to = Recipients(report[o.report], o.status)
  /\ o.step = "write" /\ o.status = "Resolved" => \A c \in Cleaners : roster[c].task # o.report
  /\ o.step = "tell" /\ o.status # "unnamed" =>
       /\ report[o.report].status = o.status
       /\ hand[o.report] \subseteq {"reviewer"} => o.to = Recipients(report[o.report], o.status)
  /\ o.step = "announce" => /\ report[o.report].status \in Decided => "status" \in hand[o.report]
                            /\ report[o.report].supervisor = Nobody
  /\ o.step = "acknowledge" => report[o.report].status = "Assigned"

\* A cleaner is on a resolved report only while it is being put there again, or
\* if it was filed as resolved.
FreedBut(r, o) ==
  /\ report[r].status = "Resolved" /\ "status" \notin hand[r]
  /\ \E c \in Cleaners : roster[c].task = r
  => o.step = "assign" /\ o.report = r

\* The last word on a report is right, or the request that has written is to say it.
ToldBut(r, o) == NoticeRight(r) \/ (o.step = "tell" /\ o.report = r /\ o.status # "unnamed")

\* What is under way.
Under == {Idle} \cup {op[q] : q \in Requests}

OrderlyInv ==
  ~ faulty => /\ \A q \in Requests : Settled(op[q])
              /\ \A r \in Stored : /\ \E o \in Under : FreedBut(r, o)
                                   /\ \E o \in Under : ToldBut(r, o)

\* If nothing is faulty after a step of q, the other requests are idle.
AloneAfter(q) == ~ faulty' => ~ faulty /\ \A p \in Requests \ {q} : op[p] = Idle

LEMMA BeginAlone ==
  ASSUME IInv, NEW q \in Requests, Begin(q)
  PROVE  AloneAfter(q)
BY DEF Begin, AloneAfter

LEMMA GoOnAlone ==
  ASSUME IInv, NEW q \in Requests, op[q] # Idle, UNCHANGED faulty
  PROVE  AloneAfter(q)
BY DEF IInv, AloneInv, AloneAfter

\* Seen from the only request, whatever is unsettled is its own.
LEMMA OrderlyAt ==
  ASSUME OrderlyInv, ~ faulty, NEW q \in Requests, \A p \in Requests \ {q} : op[p] = Idle
  PROVE  /\ Settled(op[q])
         /\ \A r \in Stored : FreedBut(r, op[q]) /\ ToldBut(r, op[q])
<1> SUFFICES ASSUME NEW r \in Stored PROVE FreedBut(r, op[q]) /\ ToldBut(r, op[q])
  BY DEF OrderlyInv
<1>1. \A o \in Under : o = op[q] \/ o = Idle
  BY DEF Under
<1>2. FreedBut(r, Idle) => FreedBut(r, op[q])
  BY DEF FreedBut, Idle
<1>3. ToldBut(r, Idle) => ToldBut(r, op[q])
  BY DEF ToldBut, Idle
<1> QED BY <1>1, <1>2, <1>3 DEF OrderlyInv

\* A step of the only request has to leave its own affairs in order.
LEMMA OrderlyKeeps ==
  ASSUME IInv, OrderlyInv, NEW q \in Requests, NEW o, op' = [op EXCEPT ![q] = o], AloneAfter(q),
         ASSUME ~ faulty, Settled(op[q]), \A r \in Stored : FreedBut(r, op[q]) /\ ToldBut(r, op[q])
         PROVE  Settled(o)' /\ \A r \in Stored' : FreedBut(r, o)' /\ ToldBut(r, o)'
  PROVE  OrderlyInv'
<1> SUFFICES ASSUME ~ faulty'
             PROVE  /\ \A p \in Requests : Settled(op[p])'
                    /\ \A r \in Stored' : /\ \E u \in Under' : FreedBut(r, u)'
                                          /\ \E u \in Under' : ToldBut(r, u)'
  BY DEF OrderlyInv
<1>1. ~ faulty /\ \A p \in Requests \ {q} : op[p] = Idle
  BY DEF AloneAfter
<1>2. op'[q] = o /\ \A p \in Requests \ {q} : op'[p] = Idle
  BY <1>1 DEF IInv, OpInv
<1>3. Settled(o)' /\ \A r \in Stored' : FreedBut(r, o)' /\ ToldBut(r, o)'
  BY <1>1, OrderlyAt
<1>4. Settled(Idle)'
  BY DEF Settled, Idle
<1>5. ASSUME NEW p \in Requests PROVE Settled(op[p])'
  <2>1. CASE p = q
    BY <1>2, <1>3, <2>1
  <2>2. CASE p # q
    BY <1>2, <1>4, <2>2
  <2> QED BY <2>1, <2>2
<1>6. o \in Under'
  BY <1>2 DEF Under
<1> QED BY <1>3, <1>5, <1>6

\* Where neither its row nor the notice changes, what was said stays right; where
\* nobody new is put on it, its cleaners stay off.
LEMMA NoticeStays ==
  ASSUME NEW r, NEW p, p.step # "tell", ToldBut(r, p), report'[r] = report[r], told'[r] = told[r],
         hand'[r] = hand[r],
         NEW o
  PROVE  ToldBut(r, o)'
BY DEF ToldBut, NoticeRight

LEMMA FreedStays ==
  ASSUME NEW r, NEW p, p.step # "assign", FreedBut(r, p), report'[r] = report[r], hand'[r] = hand[r],
         \A c \in Cleaners : roster'[c].task = r => roster[c].task = r, NEW o
  PROVE  FreedBut(r, o)'
BY DEF FreedBut

\* The steps that write nothing, and the supervisor of a cleaner.
LEMMA ReadsOrderly ==
  ASSUME IInv, OrderlyInv, NEW q \in Requests,
         \/ \E c \in Cleaners, s \in Supervisors : ReassignSupervisor(q, c, s)
         \/ \E s \in Supervisors, c \in Cleaners, r \in Reports : BeginAssign(q, s, c, r)
         \/ \E a \in Supervisors \cup Cleaners, r \in Reports, st \in Asked :
              BeginUpdate(q, a, r, st)
         \/ Fail(q)
  PROVE  OrderlyInv'
<1>1. ASSUME NEW o, op' = [op EXCEPT ![q] = o], Begin(q), UNCHANGED <<report, told, hand>>,
             \A c \in Cleaners : roster'[c].task = roster[c].task, Settled(o)'
      PROVE  OrderlyInv'
  <2>1. AloneAfter(q) /\ op[q].step = "idle" /\ Stored' = Stored
    BY <1>1, BeginAlone DEF Begin, Idle, Stored
  <2>2. ASSUME NEW r \in Stored, FreedBut(r, op[q]), ToldBut(r, op[q])
        PROVE  FreedBut(r, o)' /\ ToldBut(r, o)'
    BY <1>1, <2>1, <2>2, NoticeStays, FreedStays
  <2> QED BY <1>1, <2>1, <2>2, OrderlyKeeps
<1>2. ASSUME NEW c \in Cleaners, NEW s \in Supervisors, ReassignSupervisor(q, c, s)
      PROVE  OrderlyInv'
  <2>1. op' = [op EXCEPT ![q] = Idle] /\ Begin(q) /\ UNCHANGED <<report, told, hand>>
    BY <1>2 DEF ReassignSupervisor, Begin, IInv, OpInv
  <2>2. \A k \in Cleaners : roster'[k].task = roster[k].task
    BY <1>2 DEF ReassignSupervisor, IInv, RowInv
  <2>3. Settled(Idle)'
    BY DEF Settled, Idle
  <2> QED BY <1>1, <2>1, <2>2, <2>3
<1>3. ASSUME NEW s \in Supervisors, NEW c \in Cleaners, NEW r \in Reports, BeginAssign(q, s, c, r)
      PROVE  OrderlyInv'
  <2>1. PICK o : o = [step |-> "task", by |-> s, cleaner |-> c, report |-> r]
    OBVIOUS
  <2>2. op' = [op EXCEPT ![q] = o] /\ Begin(q) /\ UNCHANGED <<report, roster, told, hand>>
    BY <1>3, <2>1 DEF BeginAssign
  <2>3. Settled(o)'
    BY <2>1 DEF Settled
  <2> QED BY <1>1, <2>2, <2>3
<1>4. ASSUME NEW a \in Supervisors \cup Cleaners, NEW r \in Reports, NEW st \in Asked,
             BeginUpdate(q, a, r, st)
      PROVE  OrderlyInv'
  <2>1. PICK o : o =
          [step |-> IF NextStatus(a, st) = "Resolved" THEN "clear" ELSE "write",
           by |-> a, report |-> r, status |-> NextStatus(a, st),
           to |-> Recipients(report[r], NextStatus(a, st))]
    OBVIOUS
  <2>2. op' = [op EXCEPT ![q] = o] /\ Begin(q) /\ UNCHANGED <<report, roster, told, hand>>
    BY <1>4, <2>1 DEF BeginUpdate
  <2>3. Settled(o)'
    BY <2>1, <2>2 DEF Settled
  <2> QED BY <1>1, <2>2, <2>3
<1>5. Fail(q) => OrderlyInv'
  BY DEF Fail, OrderlyInv
<1> QED BY <1>2, <1>3, <1>4, <1>5

LEMMA CreateOrderly ==
  ASSUME IInv, OrderlyInv, NEW q \in Requests, NEW r \in Reports, NEW st \in Statuses,
         CreateReport(q, r, st)
  PROVE  OrderlyInv'
<1>1. /\ Begin(q) /\ r \notin Stored /\ report' = [report EXCEPT ![r] = NewRow(st)]
      /\ hand' = [hand EXCEPT ![r] = IF st \in Decided THEN {"status"} ELSE {}]
      /\ UNCHANGED <<roster, told>>
  BY DEF CreateReport
<1>2. AloneAfter(q) /\ op[q].step = "idle"
  BY <1>1, BeginAlone DEF Begin, Idle
<1>3. PICK o : /\ op' = [op EXCEPT ![q] = o]
               /\ o = Idle \/ o = [step |-> "announce", report |-> r]
  BY <1>1 DEF CreateReport, Begin, IInv, OpInv
<1>4. /\ report'[r] = NewRow(st) /\ hand'[r] = IF st \in Decided THEN {"status"} ELSE {}
      /\ \A k \in Stored' : k # r => k \in Stored /\ report'[k] = report[k] /\ hand'[k] = hand[k]
  BY <1>1 DEF IInv, RowInv, Stored
<1>5. Settled(o)'
  BY <1>3, <1>4 DEF Settled, Idle, NewRow
<1>6. FreedBut(r, o)' /\ ToldBut(r, o)'
  BY <1>4 DEF FreedBut, ToldBut, NoticeRight, NewRow, Decided
<1>7. ASSUME NEW k \in Stored, k # r, k \in Stored', FreedBut(k, op[q]), ToldBut(k, op[q])
      PROVE  FreedBut(k, o)' /\ ToldBut(k, o)'
  BY <1>1, <1>2, <1>4, <1>7, NoticeStays, FreedStays
<1> QED BY <1>2, <1>3, <1>4, <1>5, <1>6, <1>7, OrderlyKeeps

LEMMA AssignTaskOrderly ==
  ASSUME IInv, OrderlyInv, NEW q \in Requests, AssignTask(q)
  PROVE  OrderlyInv'
<1>1. PICK o : o = [op[q] EXCEPT !.step = "assign"]
  OBVIOUS
<1>2. /\ op[q].step = "task" /\ op[q] \in AssignOps /\ op[q] # Idle
      /\ roster' = [roster EXCEPT ![op[q].cleaner] =
                      [supervisor |-> op[q].by, task |-> op[q].report]]
      /\ op' = [op EXCEPT ![q] = o] /\ UNCHANGED <<report, told, hand, faulty>>
  BY <1>1, OpShapes DEF AssignTask, IInv, OpInv
<1>3. o.step = "assign" /\ o.report = op[q].report
  BY <1>1, <1>2 DEF AssignOps
<1>4. AloneAfter(q) /\ Stored' = Stored /\ Settled(o)'
  BY <1>2, <1>3, GoOnAlone DEF Stored, Settled
<1>5. ASSUME NEW r \in Stored, FreedBut(r, op[q]), ToldBut(r, op[q])
      PROVE  FreedBut(r, o)' /\ ToldBut(r, o)'
  <2>1. ToldBut(r, o)'
    BY <1>2, <1>5, NoticeStays
  <2>2. CASE r = op[q].report
    BY <1>3, <2>1, <2>2 DEF FreedBut
  <2>3. CASE r # op[q].report
    <3>1. \A c \in Cleaners : roster'[c].task = r => roster[c].task = r
      BY <1>2, <2>3 DEF IInv, RowInv
    <3> QED BY <1>2, <1>5, <2>1, <3>1, FreedStays
  <2> QED BY <2>1, <2>2, <2>3
<1> QED BY <1>2, <1>4, <1>5, OrderlyKeeps

LEMMA AssignReportOrderly ==
  ASSUME IInv, OrderlyInv, NEW q \in Requests, AssignReport(q)
  PROVE  OrderlyInv'
<1>1. /\ op[q].step = "assign" /\ op[q] \in AssignOps /\ op[q] # Idle
      /\ UNCHANGED <<roster, told, faulty>>
  BY OpShapes DEF AssignReport, IInv, OpInv
<1>2. AloneAfter(q)
  BY <1>1, GoOnAlone
<1>3. PICK r : r = op[q].report
  OBVIOUS
<1>4. PICK o : /\ op' = [op EXCEPT ![q] = o]
               /\ \/ o = Idle /\ r \notin Stored
                  \/ o = [op[q] EXCEPT !.step = "acknowledge"] /\ r \in Stored
  BY <1>3 DEF AssignReport
<1>5. /\ \A k \in Stored : k # r => report'[k] = report[k] /\ hand'[k] = hand[k]
      /\ r \in Stored => report'[r].status = "Assigned"
      /\ Stored' \subseteq Stored
  <2>1. CASE r \notin Stored
    BY <1>3, <2>1 DEF AssignReport, Stored
  <2>2. CASE r \in Stored
    <3>1. r \in Reports /\ report[r] \in Row
      BY <2>2 DEF Stored, IInv, RowInv
    <3> QED BY <1>3, <2>2, <3>1 DEF AssignReport, Stored, IInv, RowInv, Row
  <2> QED BY <2>1, <2>2
<1>6. Settled(o)'
  BY <1>1, <1>3, <1>4, <1>5 DEF Settled, Idle, AssignOps
<1>7. ASSUME NEW k \in Stored, FreedBut(k, op[q]), ToldBut(k, op[q])
      PROVE  FreedBut(k, o)' /\ ToldBut(k, o)'
  <2>1. CASE k = r
    BY <1>5, <2>1 DEF FreedBut, ToldBut, NoticeRight
  <2>2. CASE k # r
    <3>1. FreedBut(k, o)'
      BY <1>1, <1>3, <1>5, <1>7, <2>2 DEF FreedBut
    <3> QED BY <1>1, <1>5, <1>7, <2>2, <3>1, NoticeStays
  <2> QED BY <2>1, <2>2
<1> QED BY <1>2, <1>4, <1>5, <1>6, <1>7, OrderlyKeeps

LEMMA ClearOrderly ==
  ASSUME IInv, OrderlyInv, NEW q \in Requests, ClearAssignment(q)
  PROVE  OrderlyInv'
<1>1. PICK o : o = [op[q] EXCEPT !.step = "write"]
  OBVIOUS
<1>2. /\ op[q].step = "clear" /\ op[q] \in UpdateOps /\ op[q] # Idle
      /\ roster' = [c \in Cleaners |-> IF roster[c].task = op[q].report
                                   THEN [roster[c] EXCEPT !.task = NoReport] ELSE roster[c]]
      /\ op' = [op EXCEPT ![q] = o] /\ UNCHANGED <<report, told, hand, faulty>>
  BY <1>1, OpShapes DEF ClearAssignment, IInv, OpInv
<1>3. /\ o.step = "write" /\ o.report = op[q].report /\ o.to = op[q].to /\ o.status = op[q].status
      /\ op[q].report \in Reports
  BY <1>1, <1>2 DEF UpdateOps
<1>4. AloneAfter(q) /\ Stored' = Stored
  BY <1>2, GoOnAlone DEF Stored
<1>5. ASSUME NEW c \in Cleaners
      PROVE  roster'[c].task # op[q].report /\ (roster'[c].task = roster[c].task \/ roster'[c].task = NoReport)
  BY <1>2, <1>3, ReportsAssumption DEF IInv, RowInv
<1>6. Settled(op[q]) => Settled(o)'
  BY <1>2, <1>3, <1>5 DEF Settled
<1>7. ASSUME NEW r \in Stored, FreedBut(r, op[q]), ToldBut(r, op[q])
      PROVE  FreedBut(r, o)' /\ ToldBut(r, o)'
  <2>1. \A c \in Cleaners : roster'[c].task = r => roster[c].task = r
    BY <1>5, ReportsAssumption DEF Stored
  <2>2. FreedBut(r, o)'
    BY <1>2, <1>7, <2>1, FreedStays
  <2> QED BY <1>2, <1>7, <2>2, NoticeStays
<1> QED BY <1>2, <1>4, <1>6, <1>7, OrderlyKeeps

\* The status an update writes is the one it goes on to tell, and what it resolves
\* no cleaner is on.
LEMMA WriteOrderly ==
  ASSUME IInv, OrderlyInv, NEW q \in Requests, WriteReport(q)
  PROVE  OrderlyInv'
<1>1. PICK o : o = [op[q] EXCEPT !.step = "tell"]
  OBVIOUS
<1>2. /\ op[q].step = "write" /\ op[q] \in UpdateOps /\ op[q] # Idle
      /\ op' = [op EXCEPT ![q] = o] /\ UNCHANGED <<roster, told, faulty>>
  BY <1>1, OpShapes DEF WriteReport, IInv, OpInv
<1>3. PICK r, st : r = op[q].report /\ st = op[q].status
  OBVIOUS
<1>4. o.step = "tell" /\ o.report = r /\ o.to = op[q].to /\ o.status = st
  BY <1>1, <1>2, <1>3 DEF UpdateOps
<1>w. PICK b \in Row : WrittenAs(r, st, op[q].by, b)
  BY <1>3, Written
<1>5. /\ r \in Stored /\ report' = [report EXCEPT ![r] = b]
      /\ b.status = IF st = "unnamed" THEN report[r].status ELSE st
      /\ \A k \in Reports : k # r => hand'[k] = hand[k]
      /\ st = "unnamed" => hand[r] \subseteq hand'[r]
      /\ "cleaner" \notin hand'[r] => b.cleaner = report[r].cleaner
      /\ "supervisor" \notin hand'[r] => b.supervisor = report[r].supervisor
  BY <1>w DEF WrittenAs
<1>6. /\ \A k \in Stored : k # r => report'[k] = report[k] /\ hand'[k] = hand[k]
      /\ report'[r] = b /\ r \in Stored /\ Stored' \subseteq Stored
  BY <1>5 DEF Stored, IInv, RowInv
<1>7. AloneAfter(q)
  BY <1>2, GoOnAlone
<1>8. Settled(op[q]) => Settled(o)'
  <2> SUFFICES ASSUME Settled(op[q]), st # "unnamed"
               PROVE  /\ report'[r].status = st
                      /\ hand'[r] \subseteq {"reviewer"} => op[q].to = Recipients(report'[r], st)
    BY <1>4 DEF Settled
  <2>1. op[q].to = Recipients(report[r], st)
    BY <1>2, <1>3 DEF Settled
  <2>2. hand'[r] \subseteq {"reviewer"} => b.cleaner = report[r].cleaner /\ b.supervisor = report[r].supervisor
    BY <1>5
  <2> QED BY <1>5, <1>6, <2>1, <2>2 DEF Recipients
<1>9. ASSUME NEW k \in Stored, Settled(op[q]), FreedBut(k, op[q]), ToldBut(k, op[q])
      PROVE  FreedBut(k, o)' /\ ToldBut(k, o)'
  <2>1. CASE k = r /\ st # "unnamed"
    BY <1>2, <1>3, <1>4, <1>5, <1>6, <1>9, <2>1 DEF FreedBut, ToldBut, Settled
  <2>2. CASE k = r /\ st = "unnamed"
    <3>1. FreedBut(k, o)'
      BY <1>2, <1>5, <1>6, <1>9, <2>2 DEF FreedBut
    <3>2. NoticeRight(r)
      BY <1>2, <1>9, <2>2 DEF ToldBut
    <3>3. hand'[r] \subseteq {"reviewer"} =>
            /\ b.cleaner = report[r].cleaner /\ b.supervisor = report[r].supervisor
            /\ b.status = report[r].status /\ hand[r] \subseteq {"reviewer"}
      BY <1>5, <2>2
    <3>4. NoticeRight(r)'
      BY <1>2, <1>6, <3>2, <3>3 DEF NoticeRight
    <3> QED BY <2>2, <3>1, <3>4 DEF ToldBut
  <2>3. CASE k # r
    <3>1. FreedBut(k, o)'
      BY <1>2, <1>6, <1>9, <2>3, FreedStays
    <3> QED BY <1>2, <1>3, <1>6, <1>9, <2>3, <3>1 DEF ToldBut, NoticeRight
  <2> QED BY <2>1, <2>2, <2>3
<1> QED BY <1>2, <1>6, <1>7, <1>8, <1>9, OrderlyKeeps

\* What was read at the start names the people of the row, so its decision is told
\* to them.
LEMMA TellsRight ==
  ASSUME IInv, NEW q \in Requests, Tell(q), Settled(op[q]), NEW r \in Stored, r = op[q].report,
         ToldBut(r, op[q])
  PROVE  NoticeRight(r)'
<1>1. op[q].step = "tell" /\ op[q] \in UpdateOps
  BY OpShapes DEF Tell, IInv, OpInv
<1>2. PICK to, st : to = op[q].to /\ st = op[q].status
  OBVIOUS
<1>3. r \in Reports /\ st \in Asked /\ UNCHANGED <<report, hand>>
  BY <1>1, <1>2 DEF Tell, TellOf, UpdateOps
<1>4. told \in [Reports -> Notice]
  BY DEF IInv, RowInv
<1>5. CASE st # "unnamed" /\ hand[r] \subseteq {"reviewer"}
  <2>1. report[r].status = st /\ to = Recipients(report[r], st)
    BY <1>1, <1>2, <1>5 DEF Settled
  <2>2. CASE st = "Awaiting Endorsement" /\ to # {}
             /\ told' = [told EXCEPT ![r] = [type |-> "report_pending_endorsement", to |-> to]]
    <3>1. to = {report[r].supervisor} \ {Nobody}
      BY <2>1, <2>2 DEF Recipients, People, Decided
    <3>2. report[r].supervisor # Nobody => to = {report[r].supervisor}
      BY <3>1
    <3> QED BY <1>3, <1>4, <2>1, <2>2, <3>2 DEF NoticeRight, Decided
  <2>3. CASE st = "Resolved"
             /\ told' = [told EXCEPT ![r] = [type |-> "report_resolved_reporter", to |-> to]]
    <3>1. to = People({report[r].cleaner, report[r].supervisor})
      BY <2>1, <2>3 DEF Recipients, Decided
    <3> QED BY <1>3, <1>4, <2>1, <2>3, <3>1 DEF NoticeRight
  <2>4. CASE st = "Rejected"
             /\ told' = [told EXCEPT ![r] = [type |-> "report_rejected", to |-> to]]
    <3>1. to = People({report[r].cleaner, report[r].supervisor})
      BY <2>1, <2>4 DEF Recipients, Decided
    <3> QED BY <1>3, <1>4, <2>1, <2>4, <3>1 DEF NoticeRight
  <2>5. CASE st \notin Decided /\ to = {}
    <3>1. st = "Awaiting Endorsement" => report[r].supervisor = Nobody
      BY <2>1, <2>5 DEF Recipients, People
    <3> QED BY <1>3, <2>1, <2>5, <3>1 DEF NoticeRight, Decided
  <2> QED BY <1>2, <2>2, <2>3, <2>4, <2>5 DEF Tell, TellOf
<1>6. CASE st = "unnamed"
  <2>1. UNCHANGED told
    BY <1>2, <1>6 DEF Tell
  <2>2. NoticeRight(r)
    BY <1>2, <1>6 DEF ToldBut
  <2> QED BY <1>3, <2>1, <2>2 DEF NoticeRight
<1>7. CASE ~ (hand[r] \subseteq {"reviewer"})
  BY <1>3, <1>7 DEF NoticeRight
<1> QED BY <1>5, <1>6, <1>7

LEMMA TellOrderly ==
  ASSUME IInv, OrderlyInv, NEW q \in Requests, Announce(q) \/ Acknowledge(q) \/ Tell(q)
  PROVE  OrderlyInv'
<1>1. /\ op[q].step \in {"announce", "acknowledge", "tell"} /\ op[q] # Idle
      /\ op' = [op EXCEPT ![q] = Idle] /\ UNCHANGED <<report, roster, hand, faulty>>
      /\ \A r \in Reports : r # op[q].report => told'[r] = told[r]
  <2>1. op[q].step \in {"announce", "acknowledge", "tell"}
    BY DEF Announce, Acknowledge, Tell
  <2>2. op' = [op EXCEPT ![q] = Idle] /\ UNCHANGED <<report, roster, hand, faulty>>
    BY DEF Announce, Acknowledge, Tell, TellOf
  <2>3. \/ UNCHANGED told
        \/ \E n : told' = [told EXCEPT ![op[q].report] = n]
    BY DEF Announce, Acknowledge, Tell, TellOf
  <2>4. \A r \in Reports : r # op[q].report => told'[r] = told[r]
    BY <2>3 DEF IInv, RowInv
  <2> QED BY <2>1, <2>2, <2>4 DEF Idle
<1>2. AloneAfter(q) /\ Stored' = Stored /\ Settled(Idle)'
  BY <1>1, GoOnAlone DEF Stored, Settled, Idle
<1>3. ASSUME NEW r \in Stored, Settled(op[q]), FreedBut(r, op[q]), ToldBut(r, op[q])
      PROVE  FreedBut(r, Idle)' /\ ToldBut(r, Idle)'
  <2>1. FreedBut(r, Idle)'
    BY <1>1, <1>3, FreedStays
  <2>2. CASE r # op[q].report
    BY <1>1, <1>3, <2>1, <2>2 DEF Stored, ToldBut, NoticeRight
  <2>3. CASE r = op[q].report /\ Tell(q)
    <3>1. NoticeRight(r)'
      BY <1>3, <2>3, TellsRight
    <3> QED BY <2>1, <3>1 DEF ToldBut
  <2>4. CASE r = op[q].report /\ (Announce(q) \/ Acknowledge(q))
    <3>1. \/ /\ report[r].status \in Decided => "status" \in hand[r]
             /\ report[r].supervisor = Nobody
          \/ report[r].status = "Assigned"
      BY <1>3, <2>4 DEF Announce, Acknowledge, Settled
    <3> QED BY <1>1, <2>1, <3>1 DEF ToldBut, NoticeRight, Decided
  <2> QED BY <2>2, <2>3, <2>4
<1> QED BY <1>1, <1>2, <1>3, OrderlyKeeps

LEMMA OrderlyInvariance == Spec => [](IInv /\ OrderlyInv)
<1>1. Init => OrderlyInv
  BY DEF Init, OrderlyInv, Settled, Idle, Stored
<1>2. IInv /\ OrderlyInv /\ [Next]_vars => OrderlyInv'
  <2> SUFFICES ASSUME IInv, OrderlyInv, [Next]_vars PROVE OrderlyInv'
    OBVIOUS
  <2>1. CASE UNCHANGED vars
    <3>1. UNCHANGED <<report, roster, told, op, hand, faulty>>
      BY <2>1 DEF vars
    <3>2. Stored' = Stored /\ Under' = Under
      BY <3>1 DEF Stored, Under
    <3>3. ASSUME NEW o, NEW r
          PROVE  /\ Settled(o)' <=> Settled(o)
                 /\ FreedBut(r, o)' <=> FreedBut(r, o)
                 /\ ToldBut(r, o)' <=> ToldBut(r, o)
      BY <3>1 DEF Settled, FreedBut, ToldBut, NoticeRight
    <3>4. \A q \in Requests : Settled(op[q])' <=> Settled(op[q])
      BY <3>1, <3>3
    <3> QED BY <3>1, <3>2, <3>3, <3>4 DEF OrderlyInv
  <2>2. CASE Next
    BY <2>2, ReadsOrderly, CreateOrderly, AssignTaskOrderly, AssignReportOrderly, ClearOrderly,
       WriteOrderly, TellOrderly DEF Next, Serve
  <2> QED BY <2>1, <2>2
<1> QED BY <1>1, <1>2, Invariance, PTL DEF Spec

\* reports.service.ts (update, sendToRecipients): of requests that run one at a time,
\* an endorsement leaves no cleaner on the report, and the last thing said about a
\* decided report is its decision, to the people its row names.
THEOREM DecisionsAreDone == Spec => []OrderlyRest
<1>1. IInv /\ OrderlyInv => OrderlyResolvedFrees
  BY DEF OrderlyInv, Under, FreedBut, Idle, Quiet, OrderlyResolvedFrees, ResolvedFreesCleaners
<1>2. IInv /\ OrderlyInv => LastNoticeTellsStatus
  <2> SUFFICES ASSUME IInv, OrderlyInv, Quiet, ~ faulty, NEW r \in Stored PROVE NoticeRight(r)
    BY DEF LastNoticeTellsStatus, NoticeRight
  <2>1. Under = {Idle}
    BY DEF Under, Quiet
  <2> QED BY <2>1 DEF OrderlyInv, ToldBut, Idle
<1> QED BY <1>1, <1>2, OrderlyInvariance, PTL DEF OrderlyRest

-----------------------------------------------------------------------------
(* Requests that run one at a time implement the sequential workflow *)

Promised == WhenWritten(UnderWay)

\* The rows a request that is not half way leaves are those stored.
LEMMA NothingPromised ==
  ASSUME NEW o, ~ HalfWritten(o)
  PROVE  /\ RowInv => WhenWritten(o) = report
         /\ RowInv' => WhenWritten(o)' = report'
BY DEF WhenWritten, RowInv

\* Seen from the only request, what is under way is its own, before its step and after.
LEMMA PromisedAt ==
  ASSUME IInv, IInv', NEW q \in Requests, NEW o, op' = [op EXCEPT ![q] = o], AloneAfter(q), ~ faulty'
  PROVE  /\ Promised = WhenWritten(op[q])
         /\ Promised' = WhenWritten(o)'
<1>1. \A p \in Requests \ {q} : op[p] = Idle
  BY DEF AloneAfter
<1>2. op'[q] = o /\ \A p \in Requests \ {q} : op'[p] = Idle
  BY <1>1 DEF IInv, OpInv
<1>3. ~ HalfWritten(Idle)
  BY DEF HalfWritten, Idle
<1>4. Promised = WhenWritten(op[q])
  <2>1. CASE HalfWritten(op[q])
    <3>1. UnderWay = op[q]
      BY <1>1, <1>3, <2>1 DEF UnderWay
    <3> QED BY <3>1 DEF Promised
  <2>2. CASE ~ HalfWritten(op[q])
    <3>1. UnderWay = Idle
      BY <1>1, <1>3, <2>2 DEF UnderWay
    <3>2. Promised = WhenWritten(Idle)
      BY <3>1 DEF Promised
    <3> QED BY <1>3, <2>2, <3>2, NothingPromised DEF IInv
  <2> QED BY <2>1, <2>2
<1>5. Promised' = WhenWritten(o)'
  <2>1. CASE HalfWritten(o)
    <3>1. UnderWay' = o
      BY <1>2, <1>3, <2>1 DEF UnderWay
    <3> QED BY <3>1 DEF Promised, WhenWritten, Stored
  <2>2. CASE ~ HalfWritten(o)
    <3>1. UnderWay' = Idle
      BY <1>2, <1>3, <2>2 DEF UnderWay
    <3>2. Promised' = WhenWritten(Idle)'
      BY <3>1 DEF Promised, WhenWritten, Stored
    <3> QED BY <1>3, <2>2, <3>2, NothingPromised DEF IInv
  <2> QED BY <2>1, <2>2
<1> QED BY <1>4, <1>5

\* A step to something not half way, from something not half way.
LEMMA PlainStep ==
  ASSUME IInv, IInv', NEW q \in Requests, NEW o, op' = [op EXCEPT ![q] = o], AloneAfter(q), ~ faulty',
         ~ HalfWritten(op[q]), ~ HalfWritten(o)
  PROVE  Promised = report /\ Promised' = report'
<1>1. Promised = WhenWritten(op[q]) /\ Promised' = WhenWritten(o)'
  BY PromisedAt
<1>2. WhenWritten(op[q]) = report
  BY NothingPromised DEF IInv
<1>3. WhenWritten(o)' = report'
  BY NothingPromised DEF IInv
<1> QED BY <1>1, <1>2, <1>3

Sequential == Lifecycle!ANext \/ UNCHANGED <<Promised, roster>>

LEMMA ReadsAreNoStep ==
  ASSUME IInv, IInv', ~ faulty', NEW q \in Requests,
         \/ Announce(q) \/ Acknowledge(q) \/ Tell(q)
         \/ \E s \in Supervisors, c \in Cleaners, r \in Reports : BeginAssign(q, s, c, r)
         \/ \E a \in Supervisors \cup Cleaners, r \in Reports, st \in Asked :
              BeginUpdate(q, a, r, st)
  PROVE  UNCHANGED <<Promised, roster>>
<1>1. CASE Announce(q) \/ Acknowledge(q) \/ Tell(q)
  <2>1. /\ op' = [op EXCEPT ![q] = Idle] /\ UNCHANGED <<report, roster, faulty>>
        /\ op[q].step \in {"announce", "acknowledge", "tell"}
    BY <1>1 DEF Announce, Acknowledge, Tell, TellOf
  <2>2. AloneAfter(q) /\ ~ HalfWritten(op[q]) /\ ~ HalfWritten(Idle)
    BY <2>1, GoOnAlone DEF HalfWritten, Idle
  <2> QED BY <2>1, <2>2, PlainStep
<1>2. ASSUME NEW s \in Supervisors, NEW c \in Cleaners, NEW r \in Reports, BeginAssign(q, s, c, r)
      PROVE  UNCHANGED <<Promised, roster>>
  <2>1. PICK o : o = [step |-> "task", by |-> s, cleaner |-> c, report |-> r]
    OBVIOUS
  <2>2. op' = [op EXCEPT ![q] = o] /\ Begin(q) /\ UNCHANGED <<report, roster>>
    BY <1>2, <2>1 DEF BeginAssign
  <2>3. AloneAfter(q) /\ ~ HalfWritten(op[q]) /\ ~ HalfWritten(o)
    BY <2>1, <2>2, BeginAlone DEF Begin, Idle, HalfWritten
  <2> QED BY <2>2, <2>3, PlainStep
<1>3. ASSUME NEW a \in Supervisors \cup Cleaners, NEW r \in Reports, NEW st \in Asked,
             BeginUpdate(q, a, r, st)
      PROVE  UNCHANGED <<Promised, roster>>
  <2>1. PICK o : o =
          [step |-> IF NextStatus(a, st) = "Resolved" THEN "clear" ELSE "write",
           by |-> a, report |-> r, status |-> NextStatus(a, st),
           to |-> Recipients(report[r], NextStatus(a, st))]
    OBVIOUS
  <2>2. op' = [op EXCEPT ![q] = o] /\ Begin(q) /\ UNCHANGED <<report, roster>>
    BY <1>3, <2>1 DEF BeginUpdate
  <2>3. AloneAfter(q) /\ ~ HalfWritten(op[q]) /\ ~ HalfWritten(o)
    BY <2>1, <2>2, BeginAlone DEF Begin, Idle, HalfWritten
  <2> QED BY <2>2, <2>3, PlainStep
<1> QED BY <1>1, <1>2, <1>3

LEMMA CreateIsFile ==
  ASSUME IInv, IInv', ~ faulty', NEW q \in Requests, NEW r \in Reports,
         NEW st \in Statuses, CreateReport(q, r, st)
  PROVE  Lifecycle!File(r)
<1>1. /\ Begin(q) /\ r \notin Stored /\ report' = [report EXCEPT ![r] = NewRow(st)] /\ UNCHANGED roster
  BY DEF CreateReport
<1>2. PICK o : /\ op' = [op EXCEPT ![q] = o]
               /\ o = Idle \/ o = [step |-> "announce", report |-> r]
  BY <1>1 DEF CreateReport, Begin, IInv, OpInv
<1>3. AloneAfter(q) /\ ~ HalfWritten(op[q]) /\ ~ HalfWritten(o)
  BY <1>1, <1>2, BeginAlone DEF Begin, Idle, HalfWritten
<1>4. Promised = report /\ Promised' = report'
  BY <1>2, <1>3, PlainStep
<1> QED BY <1>1, <1>4 DEF Lifecycle!File, Lifecycle!Filed, Promised, Stored, NewRow

LEMMA ReassignIsTransfer ==
  ASSUME IInv, IInv', ~ faulty', NEW q \in Requests, NEW c \in Cleaners, NEW s \in Supervisors,
         ReassignSupervisor(q, c, s)
  PROVE  Lifecycle!Transfer(c, s)
<1>1. /\ Begin(q) /\ roster' = [roster EXCEPT ![c].supervisor = s] /\ UNCHANGED report
      /\ op' = [op EXCEPT ![q] = Idle]
  BY DEF ReassignSupervisor, Begin, IInv, OpInv
<1>2. AloneAfter(q) /\ ~ HalfWritten(op[q]) /\ ~ HalfWritten(Idle)
  BY <1>1, BeginAlone DEF Begin, Idle, HalfWritten
<1>3. Promised = report /\ Promised' = report'
  BY <1>1, <1>2, PlainStep
<1> QED BY <1>1, <1>3 DEF Lifecycle!Transfer, Promised

\* The task is given where the supervisor still is the cleaner's.
LEMMA TaskIsAssign ==
  ASSUME IInv, IInv', ~ faulty', NEW q \in Requests, AssignTask(q)
  PROVE  \E s \in Supervisors, c \in Cleaners, r \in Reports : Lifecycle!Assign(s, c, r)
<1>1. PICK o : o = [op[q] EXCEPT !.step = "assign"]
  OBVIOUS
<1>2. /\ op[q].step = "task" /\ op[q] \in AssignOps /\ op[q] # Idle
      /\ roster' = [roster EXCEPT ![op[q].cleaner] =
                      [supervisor |-> op[q].by, task |-> op[q].report]]
      /\ op' = [op EXCEPT ![q] = o] /\ UNCHANGED <<report, faulty>>
  BY <1>1, OpShapes DEF AssignTask, IInv, OpInv
<1>3. PICK s \in Supervisors, c \in Cleaners, r \in Reports :
        s = op[q].by /\ c = op[q].cleaner /\ r = op[q].report
  BY <1>2 DEF AssignOps
<1>4. AloneAfter(q) /\ ~ faulty
  BY <1>2, GoOnAlone
<1>5. roster[c].supervisor = s
  BY <1>2, <1>3, <1>4 DEF IInv, AloneInv, Current
<1>6. roster' = [roster EXCEPT ![c].task = r]
  BY <1>2, <1>3, <1>5 DEF IInv, RowInv
<1>7. ~ HalfWritten(op[q]) /\ HalfWritten(o) /\ o.step = "assign"
      /\ o.by = s /\ o.cleaner = c /\ o.report = r
  BY <1>1, <1>2, <1>3 DEF HalfWritten, AssignOps
<1>8. Promised = report /\ Promised' = WhenWritten(o)'
  <2>1. Promised = WhenWritten(op[q]) /\ Promised' = WhenWritten(o)'
    BY <1>2, <1>4, PromisedAt
  <2>2. WhenWritten(op[q]) = report
    BY <1>7, NothingPromised DEF IInv
  <2> QED BY <2>1, <2>2
<1>9. WhenWritten(o)' =
        IF r \in Stored
        THEN [report EXCEPT ![r].status = "Assigned", ![r].cleaner = c, ![r].supervisor = s]
        ELSE report
  <2>1. Stored' = Stored
    BY <1>2 DEF Stored
  <2>2. WhenWritten(o)' =
          [k \in Reports |->
             IF ~ (r = k /\ k \in Stored) THEN report[k]
             ELSE [report[k] EXCEPT !.status = "Assigned", !.cleaner = c, !.supervisor = s]]
    BY <1>2, <1>7, <2>1 DEF WhenWritten
  <2>3. CASE r \in Stored
    <3>1. report[r] \in Row /\ report \in [Reports -> Row \cup {NoReport}]
      BY <2>3 DEF Stored, IInv, RowInv
    <3> QED BY <2>2, <2>3, <3>1 DEF Row
  <2>4. CASE r \notin Stored
    <3>1. report = [k \in Reports |-> report[k]]
      BY DEF IInv, RowInv
    <3>2. WhenWritten(o)' = [k \in Reports |-> report[k]]
      BY <2>2, <2>4
    <3> QED BY <2>4, <3>1, <3>2
  <2> QED BY <2>3, <2>4
<1>10. Lifecycle!Assign(s, c, r)
  BY <1>5, <1>6, <1>8, <1>9 DEF Lifecycle!Assign, Lifecycle!Filed, Promised, Stored
<1> QED BY <1>10

LEMMA AssignIsPromised ==
  ASSUME IInv, IInv', ~ faulty', NEW q \in Requests, AssignReport(q)
  PROVE  UNCHANGED <<Promised, roster>>
<1>1. /\ op[q].step = "assign" /\ op[q] \in AssignOps /\ op[q] # Idle
      /\ UNCHANGED <<roster, faulty>>
  BY OpShapes DEF AssignReport, IInv, OpInv
<1>2. PICK r \in Reports : r = op[q].report
  BY <1>1 DEF AssignOps
<1>3. PICK o : op' = [op EXCEPT ![q] = o] /\ (o = Idle \/ o = [op[q] EXCEPT !.step = "acknowledge"])
  BY DEF AssignReport
<1>4. AloneAfter(q) /\ HalfWritten(op[q]) /\ ~ HalfWritten(o)
  BY <1>1, <1>3, GoOnAlone DEF HalfWritten, Idle, AssignOps
<1>5. Promised = WhenWritten(op[q]) /\ Promised' = report'
  <2>1. Promised = WhenWritten(op[q]) /\ Promised' = WhenWritten(o)'
    BY <1>3, <1>4, PromisedAt
  <2>2. WhenWritten(o)' = report'
    BY <1>4, NothingPromised DEF IInv
  <2> QED BY <2>1, <2>2
<1>6. WhenWritten(op[q]) =
        [k \in Reports |->
           IF ~ (r = k /\ k \in Stored) THEN report[k]
           ELSE [report[k] EXCEPT !.status = "Assigned", !.cleaner = op[q].cleaner,
                                  !.supervisor = op[q].by]]
  BY <1>1, <1>2, <1>4 DEF WhenWritten
<1>7. CASE r \in Stored
  <2>1. report[r] \in Row /\ report \in [Reports -> Row \cup {NoReport}]
    BY <1>7 DEF Stored, IInv, RowInv
  <2>2. report' = [report EXCEPT ![r].status = "Assigned", ![r].cleaner = op[q].cleaner,
                                 ![r].supervisor = op[q].by]
    BY <1>2, <1>7 DEF AssignReport
  <2>3. PICK c, s : c = op[q].cleaner /\ s = op[q].by
    OBVIOUS
  <2>4. WhenWritten(op[q]) = report'
    BY <1>6, <1>7, <2>1, <2>2, <2>3 DEF Row
  <2> QED BY <1>1, <1>5, <2>4
<1>8. CASE r \notin Stored
  <2>1. UNCHANGED report
    BY <1>2, <1>8 DEF AssignReport
  <2>2. report = [k \in Reports |-> report[k]]
    BY DEF IInv, RowInv
  <2>3. WhenWritten(op[q]) = [k \in Reports |-> report[k]]
    BY <1>6, <1>8
  <2> QED BY <1>1, <1>5, <2>1, <2>2, <2>3
<1> QED BY <1>7, <1>8

\* An endorsement is over, for the workflow, once the cleaners are free.
LEMMA ClearIsEndorse ==
  ASSUME IInv, IInv', ~ faulty', NEW q \in Requests, ClearAssignment(q)
  PROVE  \E s \in Supervisors, r \in Reports : Lifecycle!Endorse(s, r)
<1>1. PICK o : o = [op[q] EXCEPT !.step = "write"]
  OBVIOUS
<1>2. /\ op[q].step = "clear" /\ op[q] \in UpdateOps /\ op[q] # Idle
      /\ roster' = [c \in Cleaners |-> IF roster[c].task = op[q].report
                                   THEN [roster[c] EXCEPT !.task = NoReport] ELSE roster[c]]
      /\ op' = [op EXCEPT ![q] = o] /\ UNCHANGED <<report, faulty>>
  BY <1>1, OpShapes DEF ClearAssignment, IInv, OpInv
<1>3. op[q].status = "Resolved" /\ op[q].by \in Supervisors /\ op[q].report \in Stored
  BY <1>2 DEF IInv, OpInv, Entitled, OnStored, Decided
<1>4. PICK s \in Supervisors, r \in Reports : s = op[q].by /\ r = op[q].report
  BY <1>2, <1>3 DEF UpdateOps
<1>5. /\ ~ HalfWritten(op[q]) /\ HalfWritten(o) /\ o.step = "write"
      /\ o.by = s /\ o.report = r
  BY <1>1, <1>2, <1>3, <1>4 DEF HalfWritten, UpdateOps
<1>6. Promised = report /\ Promised' = WhenWritten(o)'
  <2>1. AloneAfter(q)
    BY <1>2, GoOnAlone
  <2>2. Promised = WhenWritten(op[q]) /\ Promised' = WhenWritten(o)'
    BY <1>2, <2>1, PromisedAt
  <2>3. WhenWritten(op[q]) = report
    BY <1>5, NothingPromised DEF IInv
  <2> QED BY <2>2, <2>3
<1>7. r \in Stored /\ report[r] \in Row /\ report \in [Reports -> Row \cup {NoReport}]
  BY <1>3, <1>4 DEF Stored, IInv, RowInv
<1>8. WhenWritten(o)' = [report EXCEPT ![r].status = "Resolved", ![r].reviewer = s]
  <2>1. Stored' = Stored
    BY <1>2 DEF Stored
  <2>2. WhenWritten(o)' =
          [k \in Reports |-> IF ~ (r = k /\ k \in Stored) THEN report[k]
                             ELSE [report[k] EXCEPT !.status = "Resolved", !.reviewer = s]]
    BY <1>2, <1>5, <2>1 DEF WhenWritten
  <2> QED BY <1>7, <2>2 DEF Row
<1>9. roster' = [c \in Cleaners |-> [supervisor |-> roster[c].supervisor,
                                     task |-> IF roster[c].task = r THEN NoReport ELSE roster[c].task]]
  BY <1>2, <1>4 DEF IInv, RowInv
<1>10. Lifecycle!Endorse(s, r)
  BY <1>6, <1>7, <1>8, <1>9 DEF Lifecycle!Endorse, Lifecycle!Filed, Promised, Stored
<1> QED BY <1>10

LEMMA WriteIsStep ==
  ASSUME IInv, IInv', ~ faulty', NEW q \in Requests, WriteReport(q)
  PROVE  Sequential
<1>1. PICK o : o = [op[q] EXCEPT !.step = "tell"]
  OBVIOUS
<1>2. /\ op[q].step = "write" /\ op[q] \in UpdateOps /\ op[q] # Idle
      /\ op' = [op EXCEPT ![q] = o] /\ UNCHANGED <<roster, faulty>>
  BY <1>1, OpShapes DEF WriteReport, IInv, OpInv
<1>3. PICK r \in Reports, st \in Asked, a \in Supervisors \cup Cleaners :
        r = op[q].report /\ st = op[q].status /\ a = op[q].by
  BY <1>2 DEF UpdateOps
<1>4. /\ r \in Stored /\ report[r] \in Row /\ report \in [Reports -> Row \cup {NoReport}]
      /\ st \in Decided => a \in Supervisors
  BY <1>2, <1>3 DEF IInv, OpInv, Entitled, OnStored, Stored, RowInv
<1>5. AloneAfter(q) /\ ~ faulty
  BY <1>2, GoOnAlone
<1>6. st = "Rejected" => report[r].status \in {"Awaiting Endorsement", "Rejected"}
  BY <1>2, <1>3, <1>5 DEF IInv, AloneInv, Current
<1>w. PICK b \in Row : WrittenAs(r, st, a, b)
  BY <1>3, Written
<1>7. /\ report' = [report EXCEPT ![r] = b]
      /\ b.status = IF st = "unnamed" THEN report[r].status ELSE st
      /\ st = "Awaiting Endorsement" => b.reviewer = Nobody
      /\ st \in Decided => b.reviewer = a
  BY <1>w DEF WrittenAs
<1>8. Promised = WhenWritten(op[q]) /\ Promised' = report' /\ (HalfWritten(op[q]) <=> st = "Resolved")
  <2>1. ~ HalfWritten(o)
    BY <1>1, <1>2 DEF HalfWritten, UpdateOps
  <2>2. Promised = WhenWritten(op[q]) /\ Promised' = WhenWritten(o)'
    BY <1>2, <1>5, PromisedAt
  <2>3. WhenWritten(o)' = report'
    BY <2>1, NothingPromised DEF IInv
  <2>4. HalfWritten(op[q]) <=> st = "Resolved"
    BY <1>2, <1>3 DEF HalfWritten
  <2> QED BY <2>2, <2>3, <2>4
<1>9. /\ Promised \in [Reports -> Row \cup {NoReport}] /\ Promised[r] \in Row
      /\ Promised[r].status = IF st = "Resolved" THEN "Resolved" ELSE report[r].status
      /\ \A k \in Reports : k # r => Promised[k] = report[k]
  <2>1. CASE st = "Resolved"
    <3>1. Promised =
            [k \in Reports |-> IF ~ (r = k /\ k \in Stored) THEN report[k]
                               ELSE [report[k] EXCEPT !.status = "Resolved", !.reviewer = a]]
      BY <1>2, <1>3, <1>8, <2>1 DEF WhenWritten
    <3>2. [report[r] EXCEPT !.status = "Resolved", !.reviewer = a] \in Row
      BY <1>4, <2>1 DEF Row, Decided, Statuses
    <3> QED BY <1>4, <2>1, <3>1, <3>2 DEF Row
  <2>2. CASE st # "Resolved"
    <3>1. Promised = report
      BY <1>8, <2>2, NothingPromised DEF IInv
    <3> QED BY <1>4, <2>2, <3>1
  <2> QED BY <2>1, <2>2
<1>10. Lifecycle!Rewrite(r) /\ Promised'[r] = b
  <2>1. r \in Lifecycle!Filed
    BY <1>9, RowAssumption DEF Lifecycle!Filed, Promised
  <2>2. Promised'[r] = b /\ Promised' = [Promised EXCEPT ![r] = b]
    BY <1>4, <1>7, <1>8, <1>9
  <2> QED BY <1>2, <2>1, <2>2 DEF Lifecycle!Rewrite, Promised
<1>11. CASE st \notin {"Awaiting Endorsement", "Rejected"}
  <2>1. \/ Promised'[r].status = Promised[r].status
        \/ Promised'[r].status \notin {"Awaiting Endorsement", "Resolved", "Rejected"}
    BY <1>7, <1>9, <1>10, <1>11
  <2>2. Lifecycle!Edit(r)
    BY <1>10, <2>1 DEF Lifecycle!Edit, Promised
  <2> QED BY <2>2 DEF Sequential, Lifecycle!ANext
<1>12. CASE st = "Awaiting Endorsement"
  <2>1. Lifecycle!Submit(r)
    BY <1>7, <1>10, <1>12 DEF Lifecycle!Submit, Promised
  <2> QED BY <2>1 DEF Sequential, Lifecycle!ANext
<1>13. CASE st = "Rejected"
  <2>1. /\ Promised[r].status \in {"Awaiting Endorsement", "Rejected"}
        /\ Promised'[r].status = "Rejected" /\ Promised'[r].reviewer = a
    BY <1>6, <1>7, <1>9, <1>10, <1>13 DEF Decided
  <2>2. Lifecycle!Reject(a, r)
    BY <1>10, <2>1 DEF Lifecycle!Reject, Promised
  <2>3. a \in Supervisors
    BY <1>4, <1>13 DEF Decided
  <2> QED BY <2>2, <2>3 DEF Sequential, Lifecycle!ANext
<1> QED BY <1>11, <1>12, <1>13

\* cleaners.service.ts, reports.service.ts (assignToReport, update): until two requests
\* overlap or one fails, each is one step of the sequential workflow.
THEOREM OneByOne == Spec => OneByOneIsSequential
<1>1. Init => Lifecycle!AInit
  <2> SUFFICES ASSUME Init PROVE Lifecycle!AInit
    OBVIOUS
  <2>1. UnderWay = Idle /\ ~ HalfWritten(Idle)
    BY DEF Init, UnderWay, HalfWritten, Idle
  <2>2. WhenWritten(UnderWay) = report
    BY <2>1, InitIInv, NothingPromised DEF IInv
  <2> QED BY <2>2 DEF Init, Lifecycle!AInit
<1>2. IInv /\ IInv' /\ [Next]_vars => faulty' \/ Sequential
  <2> SUFFICES ASSUME IInv, IInv', [Next]_vars, ~ faulty' PROVE Sequential
    OBVIOUS
  <2>1. CASE UNCHANGED vars
    <3>1. UNCHANGED <<report, roster, op>>
      BY <2>1 DEF vars
    <3>2. UnderWay' = UnderWay
      BY <3>1 DEF UnderWay
    <3>3. Promised' = Promised
      BY <3>1, <3>2 DEF Promised, WhenWritten, Stored
    <3> QED BY <3>1, <3>3 DEF Sequential
  <2>2. ASSUME NEW q \in Requests,
               \/ Announce(q) \/ Acknowledge(q) \/ Tell(q) \/ AssignReport(q)
               \/ \E s \in Supervisors, c \in Cleaners, r \in Reports : BeginAssign(q, s, c, r)
               \/ \E a \in Supervisors \cup Cleaners, r \in Reports, st \in Asked :
                    BeginUpdate(q, a, r, st)
        PROVE  Sequential
    BY <2>2, ReadsAreNoStep, AssignIsPromised DEF Sequential
  <2>3. ASSUME NEW q \in Requests, NEW r \in Reports, NEW st \in Statuses,
               CreateReport(q, r, st)
        PROVE  Sequential
    BY <2>3, CreateIsFile DEF Sequential, Lifecycle!ANext
  <2>4. ASSUME NEW q \in Requests, NEW c \in Cleaners, NEW s \in Supervisors,
               ReassignSupervisor(q, c, s)
        PROVE  Sequential
    BY <2>4, ReassignIsTransfer DEF Sequential, Lifecycle!ANext
  <2>5. ASSUME NEW q \in Requests, AssignTask(q) PROVE Sequential
    BY <2>5, TaskIsAssign DEF Sequential, Lifecycle!ANext
  <2>6. ASSUME NEW q \in Requests, ClearAssignment(q) PROVE Sequential
    BY <2>6, ClearIsEndorse DEF Sequential, Lifecycle!ANext
  <2>7. ASSUME NEW q \in Requests, WriteReport(q) PROVE Sequential
    BY <2>7, WriteIsStep
  <2>8. \A q \in Requests : ~ Fail(q)
    BY DEF Fail
  <2> QED BY <2>1, <2>2, <2>3, <2>4, <2>5, <2>6, <2>7, <2>8 DEF Next, Serve
<1>3. Spec => [][faulty' \/ Sequential]_vars
  BY <1>2, Invariance, PTL DEF Spec
<1> QED BY <1>1, <1>3, PTL DEF Spec, OneByOneIsSequential, Sequential, Promised

=============================================================================
