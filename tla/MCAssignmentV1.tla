--------------------------- MODULE MCAssignmentV1 ---------------------------
(* TLC instances of AssignmentV1: MCAssignmentV1.cfg has two requests, which
   overlap and fail or come one at a time, and the others show what two that
   overlap can do. *)
EXTENDS AssignmentV1, Naturals, TLC

\* Requests, reports, cleaners and supervisors are interchangeable.
Symmetry == Permutations(Requests) \cup Permutations(Reports)
            \cup Permutations(Cleaners) \cup Permutations(Supervisors)

\* The supervisors that rows and requests name.
Named ==
  {roster[c].supervisor : c \in Cleaners}
  \cup UNION {{report[r].supervisor, report[r].reviewer} \ {Nobody} : r \in Stored}
  \cup ({op[q].by : q \in {p \in Requests : op[p].step \notin {"idle", "announce"}}} \ Cleaners)

\* Bound: behaviours with an overlap or a failure are of one supervisor.
OneSupervisor == Cardinality(Named) <= 1

MCSpec == Init /\ [][Next /\ (faulty => OneSupervisor)']_vars

\* All that properties ask of the columns set by hand, and not what was told after an
\* overlap or a failure, of which they ask nothing.
Relevant == [r \in Reports |-> <<hand[r] \cap {"status", "reviewer"}, hand[r] \subseteq {"reviewer"}>>]
View == <<report, roster, op, Relevant, faulty, IF faulty THEN {} ELSE told>>
=============================================================================
