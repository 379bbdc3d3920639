----------------------------- MODULE MCReportsV2 -----------------------------
(* TLC instances of ReportsV2. *)
EXTENDS ReportsV2, TLC

CONSTANTS r1, sup, cl1   \* the report, supervisor and cleaner of ReviewInit

\* Requests are interchangeable, and so are the cleaners.
Symmetry == Permutations(Requests) \cup Permutations(Cleaners)
RequestSymmetry == Permutations(Requests)

\* A report whose cleaner has started work: the state left by four requests run
\* one after the other, so that a few more events reach the reviews.
StartedLog == <<"report_created", "report_assigned", "cleaner_accepted_task",
                "cleaner_started_work">>
StartedCall(i) ==
  [type |-> StartedLog[i], report |-> r1,
   user |-> IF i <= 2 THEN sup ELSE cl1, cleaner |-> IF i = 2 THEN cl1 ELSE NoUser]
StartedRow[i \in 0..4] == IF i = 0 THEN AbsentRow ELSE Patch(StartedRow[i - 1], StartedCall(i))

ReviewInit ==
  /\ report = [r \in Reports |-> StartedRow[4]]
  /\ rowLock = [r \in Reports |-> NoRequest]
  /\ nextSeq = 5
  /\ events = {EventOf(StartedCall(i), StartedRow[i], i) : i \in 1..4}
  /\ notifications = UNION {NotificationsOf(StartedCall(i), StartedRow[i], i) : i \in 1..4}
  /\ attachments = {[report |-> r1, by |-> sup, base |-> 0]}
  /\ pushed = 1..4
  /\ pc = [h \in Requests |-> "idle"]
  /\ req = [h \in Requests |-> NoCall]
  /\ existing = [h \in Requests |-> AbsentRow]
  /\ pending = [h \in Requests |-> AbsentRow]
  /\ seqOf = [h \in Requests |-> 0]
  /\ staged = [h \in Requests |-> {}]

ReviewSpec == ReviewInit /\ [][Next]_vars
=============================================================================
