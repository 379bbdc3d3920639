------------------------- MODULE AssignmentLifecycle -------------------------
(***************************************************************************)
(* What the v1 report workflow promises staff who do not act at the same   *)
(* time: each accepted request is one step on the reports and the roster   *)
(* together, taken by somebody entitled to it on what is stored then.  The *)
(* workflow guards the review statuses and the roster; every other column  *)
(* of a row is free to whoever updates it.                                 *)
(***************************************************************************)
CONSTANTS Supervisors, Cleaners, Reports, Statuses, Row, Nobody, NoReport

VARIABLES report, roster

Filed == {r \in Reports : report[r] # NoReport}

AInit ==
  /\ report = [r \in Reports |-> NoReport]
  /\ roster \in [Cleaners -> [supervisor : Supervisors, task : {NoReport}]]

\* A report may be filed with any status.
File(r) ==
  /\ r \notin Filed
  /\ \E st \in Statuses :
       report' = [report EXCEPT ![r] = [status |-> st, cleaner |-> Nobody,
                                        supervisor |-> Nobody, reviewer |-> Nobody]]
  /\ UNCHANGED roster

\* A cleaner is put under another supervisor, whatever the task.
Transfer(c, s) ==
  /\ roster' = [roster EXCEPT ![c].supervisor = s]
  /\ UNCHANGED report

\* A supervisor gives a cleaner of its own a task; the report, where it is one
\* that is filed, starts again with them.
Assign(s, c, r) ==
  /\ roster[c].supervisor = s
  /\ roster' = [roster EXCEPT ![c].task = r]
  /\ report' = IF r \in Filed
               THEN [report EXCEPT ![r].status = "Assigned", ![r].cleaner = c, ![r].supervisor = s]
               ELSE report

\* One row is written anew, and nothing else.
Rewrite(r) ==
  /\ r \in Filed
  /\ report'[r] \in Row
  /\ report' = [report EXCEPT ![r] = report'[r]]
  /\ UNCHANGED roster

\* Any column may be set, and any status but those of a review.
Edit(r) ==
  /\ Rewrite(r)
  /\ \/ report'[r].status = report[r].status
     \/ report'[r].status \notin {"Awaiting Endorsement", "Resolved", "Rejected"}

\* A new submission carries no reviewer.
Submit(r) ==
  /\ Rewrite(r)
  /\ report'[r].status = "Awaiting Endorsement" /\ report'[r].reviewer = Nobody

\* Endorsement frees every cleaner of the report.
Endorse(s, r) ==
  /\ r \in Filed
  /\ report' = [report EXCEPT ![r].status = "Resolved", ![r].reviewer = s]
  /\ roster' = [c \in Cleaners |-> [supervisor |-> roster[c].supervisor,
                                    task |-> IF roster[c].task = r THEN NoReport ELSE roster[c].task]]

\* Only what was submitted is rejected, and its cleaners stay on it.
Reject(s, r) ==
  /\ Rewrite(r)
  /\ report[r].status \in {"Awaiting Endorsement", "Rejected"}
  /\ report'[r].status = "Rejected" /\ report'[r].reviewer = s

ANext ==
  \/ \E r \in Reports : File(r) \/ Edit(r) \/ Submit(r)
  \/ \E s \in Supervisors, r \in Reports : Endorse(s, r) \/ Reject(s, r)
  \/ \E s \in Supervisors, c \in Cleaners : Transfer(c, s) \/ \E r \in Reports : Assign(s, c, r)

ASpec == AInit /\ [][ANext]_<<report, roster>>
=============================================================================
