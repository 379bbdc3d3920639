------------------------------ MODULE MonitorV2 ------------------------------
(***************************************************************************)
(* The public monitor: v2/monitor/monitor.service.ts and the page          *)
(* apps/web/src/monitor.  The page asks for an organization's overview and *)
(* for its reports together; the API answers with six statements that      *)
(* share no snapshot, while reports move and organizations are closed.     *)
(* A load that a new view or filter cancelled is forgotten: its answer is  *)
(* dropped.  Map, names and the cards' figures, which are orgStats again,  *)
(* are left out, and so is resolvedLast7Days.                              *)
(***************************************************************************)
EXTENDS Naturals, FiniteSets

CONSTANTS
  Orgs,
  MonReports,         \* natural numbers, in order of creation
  OrgOf,              \* MonReports -> Orgs
  PageLimit,          \* 200 in the code
  NoOrg,              \* the grid of organizations; no filter; no answer
  MaxMoves            \* bound on the number of report changes

ASSUME MonitorAssumption ==
  /\ MonReports \subseteq Nat /\ IsFiniteSet(MonReports) /\ OrgOf \in [MonReports -> Orgs]
  /\ NoOrg \notin Orgs /\ PageLimit \in Nat \ {0} /\ MaxMoves \in Nat

VARIABLES
  open,               \* organizations whose tenant is active
  stage,              \* ReportV2.status, or "absent"
  moves,
  listed,             \* page: the organizations of the grid, or NoOrg while loading
  view, filter,       \* page: the organization shown, the status asked for
  loading, failed, overview, shown,
  load                \* the effects under way: one, or none

pageVars == <<listed, view, filter, loading, failed, overview, shown>>
monitorVars == <<open, stage, moves, pageVars, load>>

-----------------------------------------------------------------------------
\* Mutant: a status the supervisor's rejection leaves is in no figure.
OpenButRejected ==
  {"submitted", "assigned", "accepted_by_cleaner", "in_progress", "rejected_by_cleaner"}

OpenStatuses == {"submitted", "assigned", "accepted_by_cleaner", "in_progress",
                 "rejected_by_cleaner", "rejected_by_supervisor"}
AwaitingReview == {"resolved_by_cleaner"}
ResolvedStatuses == {"endorsed_by_supervisor", "closed"}

\* STATUS_LABELS of the page; also what the status parameter may say.
Labelled == {"submitted", "assigned", "accepted_by_cleaner", "in_progress",
             "resolved_by_cleaner", "endorsed_by_supervisor", "closed",
             "rejected_by_cleaner", "rejected_by_supervisor", "cancelled"}

\* Where the report service moves a report (ReportLifecycle, without the actors).
Follows(s) ==
  CASE s = "absent"                 -> {"submitted"}
    [] s = "submitted"              -> {"assigned"}
    [] s = "assigned"               -> {"accepted_by_cleaner", "rejected_by_cleaner"}
    [] s = "accepted_by_cleaner"    -> {"in_progress", "rejected_by_cleaner"}
    [] s = "in_progress"            -> {"resolved_by_cleaner"}
    [] s = "resolved_by_cleaner"    -> {"endorsed_by_supervisor", "rejected_by_supervisor"}
    [] s = "rejected_by_cleaner"    -> {"assigned"}
    [] s = "rejected_by_supervisor" -> {"assigned", "in_progress"}
    [] OTHER                        -> {}

Of(o, statuses) == {r \in MonReports : OrgOf[r] = o /\ stage[r] \in statuses}

\* The first PageLimit rows, newest first.
Newest(rs) == {r \in rs : Cardinality({n \in rs : n > r}) < PageLimit}

\* The statements of getOrgOverview and of listOrgReports.
OverviewQueries == {"total", "open", "awaiting", "resolved", "grouped"}
Queries == OverviewQueries \cup {"reports"}

AnswerTo(q, o, f) ==
  CASE q = "total"    -> Cardinality(Of(o, Labelled))
    [] q = "open"     -> Cardinality(Of(o, OpenStatuses))
    [] q = "awaiting" -> Cardinality(Of(o, AwaitingReview))
    [] q = "resolved" -> Cardinality(Of(o, ResolvedStatuses))
    [] q = "grouped"  -> [s \in Labelled |-> Cardinality(Of(o, {s}))]
    [] q = "reports"  -> Newest(Of(o, IF f = NoOrg THEN Labelled ELSE {f}))

-----------------------------------------------------------------------------
(* The world outside *)

MonitorInit ==
  /\ open = Orgs
  /\ stage \in [MonReports -> ({"absent"} \cup Labelled) \ {"cancelled", "closed"}]
  /\ moves = 0
  /\ listed = NoOrg /\ view = NoOrg /\ filter = NoOrg
  /\ loading = TRUE /\ failed = FALSE
  /\ overview = NoOrg /\ shown = NoOrg
  /\ load = {}

\* A report is made or moved: every load under way may see both.
MoveReport(r) ==
  /\ moves < MaxMoves
  /\ \E s \in Follows(stage[r]) : stage' = [stage EXCEPT ![r] = s]
  /\ moves' = moves + 1
  /\ load' = {[l EXCEPT !.moved = TRUE] : l \in load}
  /\ UNCHANGED <<open, pageVars>>

CloseOrg(o) ==
  /\ o \in open /\ open' = open \ {o}
  /\ UNCHANGED <<stage, moves, pageVars, load>>

-----------------------------------------------------------------------------
(* The page *)

\* MonitorPage's effect: the grid, asked for once.
ListOrgs ==
  /\ listed = NoOrg /\ loading /\ view = NoOrg
  /\ \/ listed' = open /\ failed' = FALSE
     \/ listed' = {} /\ failed' = TRUE
  /\ loading' = FALSE
  /\ UNCHANGED <<open, stage, moves, view, filter, overview, shown, load>>

\* cancelled = true, in the cleanup of the effect that is left.
Cancelled == {}

\* Mutant: the effect depends on the organization only.
EffectOfOrg(o, f) ==
  /\ IF o = view THEN UNCHANGED <<load, loading, failed>>
     ELSE /\ load' = {[org |-> o, filter |-> f, looked |-> {}, moved |-> FALSE,
                       got |-> [q \in {} |-> 0]]}
          /\ loading' = TRUE /\ failed' = FALSE
  /\ view' = o /\ filter' = f

\* OrgDetail's effect, run again whenever the organization or the filter changes.
Effect(o, f) ==
  /\ load' = Cancelled \cup {[org |-> o, filter |-> f, looked |-> {}, moved |-> FALSE,
                               got |-> [q \in {} |-> 0]]}
  /\ view' = o /\ filter' = f
  /\ loading' = TRUE /\ failed' = FALSE

OpenOrg(o) ==
  /\ view = NoOrg /\ listed # NoOrg /\ o \in listed
  /\ Effect(o, NoOrg)
  /\ UNCHANGED <<open, stage, moves, listed, overview, shown>>

\* The chips: All, and each status the last overview counted; the active one
\* pressed again is All.
PickFilter(f) ==
  /\ view # NoOrg
  /\ f # NoOrg => overview # NoOrg /\ overview.grouped[f] > 0
  /\ f # NoOrg \/ filter # NoOrg
  /\ Effect(view, IF f = filter THEN NoOrg ELSE f)
  /\ UNCHANGED <<open, stage, moves, listed, overview, shown>>

\* OrgDetail unmounts: its state is gone and its effect cancelled.
Back ==
  /\ view # NoOrg
  /\ view' = NoOrg /\ filter' = NoOrg /\ loading' = FALSE /\ failed' = FALSE
  /\ overview' = NoOrg /\ shown' = NoOrg
  /\ load' = Cancelled
  /\ UNCHANGED <<open, stage, moves, listed>>

\* The catch of the effect: what was shown stays.
Reject(l) ==
  /\ load' = load \ {l}
  /\ loading' = FALSE /\ failed' = TRUE
  /\ UNCHANGED <<listed, view, filter, overview, shown>>

Step(l, to) == load' = (load \ {l}) \cup {to} /\ UNCHANGED pageVars

\* findActiveTenantBySlug, once in each of the two requests: 404 if it finds none.
LookUp(l, request) ==
  /\ request \notin l.looked
  /\ IF l.org \in open
     THEN Step(l, [l EXCEPT !.looked = @ \cup {request}])
     ELSE Reject(l)
  /\ UNCHANGED <<open, stage, moves>>

Query(l, q) ==
  /\ (IF q = "reports" THEN "reports" ELSE "overview") \in l.looked
  /\ q \in Queries \ DOMAIN l.got
  /\ Step(l, [l EXCEPT !.got =
       [p \in DOMAIN @ \cup {q} |-> IF p = q THEN AnswerTo(q, l.org, l.filter) ELSE @[p]]])
  /\ UNCHANGED <<open, stage, moves>>

\* Both requests have been answered.
Settle(l) ==
  /\ DOMAIN l.got = Queries
  /\ overview' = [org |-> l.org, moved |-> l.moved, total |-> l.got["total"],
                  open |-> l.got["open"], awaiting |-> l.got["awaiting"],
                  resolved |-> l.got["resolved"], grouped |-> l.got["grouped"]]
  /\ shown' = [org |-> l.org, filter |-> l.filter, rows |-> l.got["reports"]]
  /\ loading' = FALSE
  /\ load' = load \ {l}
  /\ UNCHANGED <<open, stage, moves, listed, view, filter, failed>>

RequestFails(l) == Reject(l) /\ UNCHANGED <<open, stage, moves>>

MonitorNext ==
  \/ \E r \in MonReports : MoveReport(r)
  \/ \E o \in Orgs : CloseOrg(o) \/ OpenOrg(o)
  \/ ListOrgs \/ Back
  \/ \E f \in Labelled \cup {NoOrg} : PickFilter(f)
  \/ \E l \in load :
       \/ \E request \in {"overview", "reports"} : LookUp(l, request)
       \/ \E q \in Queries : Query(l, q)
       \/ Settle(l) \/ RequestFails(l)

MonitorSpec == MonitorInit /\ [][MonitorNext]_monitorVars

-----------------------------------------------------------------------------
(* Properties *)

SumOf(f, S) == Cardinality({p \in S \X (1..Cardinality(MonReports)) : p[2] <= f[p[1]]})

\* The five figures of the overview are counted by five statements: unless a
\* report changed between them, every report is in exactly one of open, awaiting
\* review and resolved, and the counts per status say the same.
FiguresAgree ==
  overview # NoOrg /\ ~overview.moved =>
    /\ overview.total = overview.open + overview.awaiting + overview.resolved
    /\ overview.total = SumOf(overview.grouped, Labelled)
    /\ overview.open = SumOf(overview.grouped, OpenStatuses)
    /\ overview.resolved = SumOf(overview.grouped, ResolvedStatuses)

\* When nothing is loading, the rows are those of the organization and the filter
\* on the page, answered last for them, though filters are changed while answers
\* are on their way; and unless a report moved there are as many rows as the chip
\* counts, up to the limit.
RowsMatchFilter ==
  view # NoOrg /\ ~loading /\ ~failed =>
    /\ shown.org = view /\ shown.filter = filter /\ overview.org = view
    /\ ~overview.moved =>
         LET count == IF filter = NoOrg THEN overview.total ELSE overview.grouped[filter] IN
           Cardinality(shown.rows) = IF count < PageLimit THEN count ELSE PageLimit
=============================================================================
