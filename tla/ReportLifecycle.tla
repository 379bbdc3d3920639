--------------------------- MODULE ReportLifecycle ---------------------------
(***************************************************************************)
(* What the v2 report service promises its callers (the header of          *)
(* v2/reports/reports.service.ts: a status state machine with version      *)
(* based optimistic concurrency): each accepted request is one step, taken *)
(* on the report as it is at that step, by somebody entitled to it then.   *)
(***************************************************************************)
EXTENDS Integers

CONSTANTS Users, Supervisors, Cleaners, Reports, NoUser

VARIABLE report

NotCreated == [status |-> "absent", version |-> 0, reporter |-> NoUser,
               supervisor |-> NoUser, cleaner |-> NoUser]

LInit == report = [r \in Reports |-> NotCreated]

\* One step of the machine: the new status, and one more version.
Move(r, from, to) ==
  /\ report[r].status \in from
  /\ report' = [report EXCEPT ![r].status = to, ![r].version = @ + 1]

Create(r, u) ==
  /\ report[r].status = "absent"
  /\ report' = [report EXCEPT ![r] =
       [status |-> "submitted", version |-> 1, reporter |-> u,
        supervisor |-> NoUser, cleaner |-> NoUser]]

Assign(r, s, c) ==
  /\ report[r].status \in {"submitted", "assigned", "rejected_by_cleaner",
                           "rejected_by_supervisor"}
  /\ report' = [report EXCEPT ![r].status = "assigned", ![r].version = @ + 1,
                              ![r].supervisor = s, ![r].cleaner = c]

\* Work is moved along by the cleaner who holds it, and nobody else.
Work(r) ==
  /\ report[r].cleaner \in Cleaners
  /\ \/ Move(r, {"assigned"}, "accepted_by_cleaner")
     \/ Move(r, {"assigned", "accepted_by_cleaner"}, "rejected_by_cleaner")
     \/ Move(r, {"accepted_by_cleaner", "rejected_by_supervisor"}, "in_progress")
     \/ Move(r, {"in_progress"}, "resolved_by_cleaner")

\* A resolution is reviewed once.
Review(r, s) ==
  /\ report[r].status = "resolved_by_cleaner"
  /\ \E to \in {"endorsed_by_supervisor", "rejected_by_supervisor"} :
       report' = [report EXCEPT ![r].status = to, ![r].version = @ + 1,
                                ![r].supervisor = s]

LNext ==
  \E r \in Reports :
    \/ \E u \in Users : Create(r, u)
    \/ \E s \in Supervisors, c \in Users : Assign(r, s, c)
    \/ Work(r)
    \/ \E s \in Supervisors : Review(r, s)

LSpec == LInit /\ [][LNext]_report
=============================================================================
