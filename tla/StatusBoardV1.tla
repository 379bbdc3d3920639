---------------------------- MODULE StatusBoardV1 ----------------------------
(***************************************************************************)
(* The public status board: getPublicStatusBoard of domain/reports and the *)
(* panel of the web client that shows it.  The server reads reports and    *)
(* roster with two statements and counts; the panel filters the same rows  *)
(* again, with sets of its own, under the tile that is pressed.  Loads     *)
(* after a mutation are silent: they neither raise the panel's own busy    *)
(* flag nor wait for it.  Texts, dates and the translations are left out.  *)
(***************************************************************************)
EXTENDS Naturals, FiniteSets

CONSTANTS
  BoardReports, BoardCleaners, BoardLoads,
  OtherStatuses,      \* words of a client's own: a status may be any string
  NoTask,             \* no task; no board; no answer
  MaxChanges          \* bound on the number of changes to reports and roster

ASSUME BoardAssumption ==
  /\ IsFiniteSet(BoardReports) /\ NoTask \notin BoardReports /\ MaxChanges \in Nat
  /\ IsFiniteSet(OtherStatuses)

VARIABLES
  filed,              \* Report: [status, urgent], NoTask before it is made
  doing,              \* Cleaner.assignedTaskId
  changes,            \* how often either changed
  fetch,              \* the panel's loads
  board,              \* publicStatusBoard
  boardBusy,          \* publicStatusBusy
  loadsCrossed        \* history: two loads overlapped

boardVars == <<filed, doing, changes, fetch, board, boardBusy, loadsCrossed>>

-----------------------------------------------------------------------------
(* The server *)

ReportedAliases == {"Reported", "Pending", "Submitted"}
BoardStatuses == ReportedAliases \cup OtherStatuses \cup
  {"Assigned", "In Progress", "Awaiting Endorsement", "Resolved", "Rejected"}

PendingStatuses == ReportedAliases \cup {"Assigned"}
OpenReportStatuses == {"Assigned", "In Progress", "Awaiting Endorsement", "Rejected"}

\* Mutant: rows keep the spelling of older clients.
AsStored(s) == s

NormalizePublicStatus(s) == IF s \in ReportedAliases THEN "Reported" ELSE s

\* serializePublicStatusReport, serializePublicStatusCleaner
PublicRows ==
  {[id |-> r, status |-> NormalizePublicStatus(filed[r].status), urgent |-> filed[r].urgent] :
     r \in {r \in BoardReports : filed[r] # NoTask}}
PublicRoster == {[id |-> c, busy |-> doing[c] # NoTask] : c \in BoardCleaners}

UrgentRows(rows) == {r \in rows : r.status # "Resolved" /\ r.urgent}

\* buildPublicStatusSummary
Summary(rows, roster) ==
  [total    |-> Cardinality(rows),
   open     |-> Cardinality({r \in rows : r.status \in OpenReportStatuses}),
   pending  |-> Cardinality({r \in rows : r.status \in PendingStatuses}),
   resolved |-> Cardinality({r \in rows : r.status = "Resolved"}),
   urgent   |-> Cardinality(UrgentRows(rows)),
   cleaners |-> Cardinality(roster),
   busy     |-> Cardinality({c \in roster : c.busy})]

Asking(silent) == [silent |-> silent, rows |-> NoTask, roster |-> NoTask, at |-> 0]

\* The panel's effect on mount has started its first load.
Mounted == {[k \in BoardLoads |-> IF k = l THEN Asking(FALSE) ELSE NoTask] : l \in BoardLoads}

BoardInit ==
  /\ filed \in [BoardReports -> [status : BoardStatuses, urgent : BOOLEAN] \cup {NoTask}]
  /\ doing \in [BoardCleaners -> BoardReports \cup {NoTask}]
  /\ changes = 0
  /\ fetch \in Mounted
  /\ board = NoTask /\ boardBusy = TRUE
  /\ loadsCrossed = FALSE

\* normalizeCreatedStatus
CreatedStatus(s) == IF s \in ReportedAliases THEN "Reported" ELSE s

\* create takes the status and priority the client names; update sets any, as it is.
ChangeReport(r) ==
  /\ changes < MaxChanges
  /\ \E s \in BoardStatuses, urgent \in BOOLEAN :
       filed' = [filed EXCEPT ![r] = [status |-> IF @ = NoTask THEN CreatedStatus(s) ELSE s,
                                      urgent |-> urgent]]
  /\ changes' = changes + 1
  /\ UNCHANGED <<doing, fetch, board, boardBusy, loadsCrossed>>

ChangeTask(c) ==
  /\ changes < MaxChanges
  /\ \E t \in BoardReports \cup {NoTask} : doing' = [doing EXCEPT ![c] = t]
  /\ changes' = changes + 1
  /\ UNCHANGED <<filed, fetch, board, boardBusy, loadsCrossed>>

\* The two statements; a roster that cannot be read is empty.
ReadReports(l) ==
  /\ fetch[l] # NoTask /\ fetch[l].rows = NoTask
  /\ fetch' = [fetch EXCEPT ![l].rows = PublicRows, ![l].at = changes]
  /\ UNCHANGED <<filed, doing, changes, board, boardBusy, loadsCrossed>>

ReadRoster(l) ==
  /\ fetch[l] # NoTask /\ fetch[l].roster = NoTask
  /\ \E roster \in {PublicRoster, {}} : fetch' = [fetch EXCEPT ![l].roster = roster]
  /\ UNCHANGED <<filed, doing, changes, board, boardBusy, loadsCrossed>>

-----------------------------------------------------------------------------
(* The panel *)

\* Mutant: the button stays enabled.
NotDisabled == TRUE

\* disabled={busy}
RefreshEnabled == ~boardBusy

\* loadPublicStatusPanel, from the panel's button or silently from a handler.
BeginLoad(l, silent) ==
  /\ fetch[l] = NoTask
  /\ silent \/ RefreshEnabled
  /\ fetch' = [fetch EXCEPT ![l] = Asking(silent)]
  /\ boardBusy' = (boardBusy \/ ~silent)
  /\ loadsCrossed' = (loadsCrossed \/ (silent /\ \E k \in BoardLoads : fetch[k] # NoTask)
                         \/ \E k \in BoardLoads : fetch[k] # NoTask /\ fetch[k].silent)
  /\ UNCHANGED <<filed, doing, changes, board>>

\* The answer, or none; finally lowers the flag only for the loads that raised it.
EndLoad(l) ==
  /\ fetch[l] # NoTask
  /\ \/ /\ NoTask \notin {fetch[l].rows, fetch[l].roster}
        /\ board' = [rows |-> fetch[l].rows, roster |-> fetch[l].roster, at |-> fetch[l].at,
                     summary |-> Summary(fetch[l].rows, fetch[l].roster)]
     \/ UNCHANGED board
  /\ fetch' = [fetch EXCEPT ![l] = NoTask]
  /\ boardBusy' = (boardBusy /\ fetch[l].silent)
  /\ UNCHANGED <<filed, doing, changes, loadsCrossed>>

\* filterStatusBoardReports
FilterRows(rows, m) ==
  CASE m = "pending"  -> {r \in rows : r.status = "Reported"}
    [] m = "urgent"   -> {r \in rows : r.status # "Resolved" /\ r.urgent}
    [] m = "open"     -> {r \in rows : r.status \in {"Assigned", "In Progress"}}
    [] m = "resolved" -> {r \in rows : r.status = "Resolved"}
    [] OTHER          -> rows

BoardNext ==
  \/ \E r \in BoardReports : ChangeReport(r)
  \/ \E c \in BoardCleaners : ChangeTask(c)
  \/ \E l \in BoardLoads :
       \/ ReadReports(l) \/ ReadRoster(l) \/ EndLoad(l)
       \/ \E silent \in BOOLEAN : BeginLoad(l, silent)

BoardSpec == BoardInit /\ [][BoardNext]_boardVars

-----------------------------------------------------------------------------
(* Properties *)

\* The number on a tile is counted by the server, the rows under it are picked by
\* the client with sets of its own.  Under `urgent', `resolved' and `total' they
\* agree.  Under `pending' and `open' the client's sets are the smaller ones: no row
\* goes uncounted, and what `pending' counts stands under it or under `open'; a
\* report an older client left as Pending or Submitted stands under `pending'.
RowsUnderTile ==
  board # NoTask =>
    /\ \A m \in {"urgent", "resolved", "total"} :
         Cardinality(FilterRows(board.rows, m)) = board.summary[m]
    /\ \A m \in {"pending", "open"} :
         Cardinality(FilterRows(board.rows, m)) <= board.summary[m]
    /\ board.summary.pending
         <= Cardinality(FilterRows(board.rows, "pending") \cup FilterRows(board.rows, "open"))
    /\ \A r \in board.rows :
         r.status \in ReportedAliases => r \in FilterRows(board.rows, "pending")

\* The board goes back to an older state of the reports only when a silent load
\* crossed another: the button's loads wait for each other.
BoardNotOlder ==
  [][board # NoTask /\ ~loadsCrossed => board'.at >= board.at]_board
=============================================================================
