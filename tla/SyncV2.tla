------------------------------- MODULE SyncV2 -------------------------------
(***************************************************************************)
(* The v2 sync feed, apps/api/src/v2/sync/sync.service.ts, composed with   *)
(* the report workflow that fills it.  A client polls a feed with the      *)
(* cursor of its last page: the whole tenant's events, or one report's     *)
(* (report_id).  The query sees committed rows only, while seq was handed  *)
(* out when the event was inserted, before its transaction committed.      *)
(***************************************************************************)
EXTENDS ReportsV2, Sequences

CONSTANTS
  Feeds,      \* polled feeds: [user |-> a client, scope |-> a report or AllReports]
  AllReports, \* the scope of a poll without report_id
  Admins,     \* users with the admin role
  PageSize    \* the limit of a poll

ASSUME FeedsAssumption ==
  /\ AllReports \notin Reports /\ Admins \subseteq Users
  /\ Feeds \subseteq [user : Users, scope : Reports \cup {AllReports}]
  /\ PageSize \in Nat \ {0}

VARIABLES
  cursor,     \* the since each feed will pass
  received    \* the events each feed was given, by seq

syncVars == <<cursor, received>>
allVars == <<vars, syncVars>>

\* The filter on the report as it is assigned when the query runs.
Visible(u, e) ==
  \/ u \in Supervisors \cup Admins
  \/ u \in {report[e.report].reporter, report[e.report].cleaner, report[e.report].supervisor}

InScope(f, e) == f.scope = AllReports \/ f.scope = e.report

\* Mutant: since is inclusive.
From(e, since) == e.seq >= since

After(e, since) == e.seq > since

\* orderBy seq: each event once, the older first.
InOrder(found) ==
  LET places == 1..Cardinality(found) IN
  CHOOSE s \in [places -> found] : \A i, j \in places : i < j => s[i].seq < s[j].seq

Found(f, since) == {e \in events : After(e, since) /\ InScope(f, e) /\ Visible(f.user, e)}

\* One page: what lies beyond the cursor, in seq order, cut at the limit.
EventsSince(f, since) ==
  LET size == Cardinality(Found(f, since)) IN
  SubSeq(InOrder(Found(f, since)), 1, IF size < PageSize THEN size ELSE PageSize)

\* Mutant: the cursor jumps to the newest seq handed out.
CursorAtHead(page, since) == nextSeq - 1

NextCursor(page, since) == IF page = <<>> THEN since ELSE page[Len(page)].seq

GetEventsSince(f) ==
  LET page == EventsSince(f, cursor[f]) IN
  /\ page # <<>>
  /\ received' = [received EXCEPT ![f] = @ \cup {page[i].seq : i \in DOMAIN page}]
  /\ cursor' = [cursor EXCEPT ![f] = NextCursor(page, @)]
  /\ UNCHANGED vars

SyncInit == Init /\ cursor = [f \in Feeds |-> 0] /\ received = [f \in Feeds |-> {}]

SyncNext == (Next /\ UNCHANGED syncVars) \/ \E f \in Feeds : GetEventsSince(f)

SyncSpec == SyncInit /\ [][SyncNext]_allVars

\* A client keeps polling, and the requests that were started keep running.
SyncFairSpec == SyncSpec /\ Fairness /\ \A f \in Feeds : WF_allVars(GetEventsSince(f))

-----------------------------------------------------------------------------
(* Properties *)

\* The feed of one report, polled by somebody who sees it throughout (supervisor,
\* admin or its reporter), misses nothing behind its cursor: the row lock makes the
\* report's events commit in the order of their seq.
ReportFeedComplete ==
  \A f \in Feeds : \A e \in events :
    /\ f.scope = e.report /\ e.seq <= cursor[f]
    /\ f.user \in Supervisors \cup Admins \cup {report[e.report].reporter}
    => e.seq \in received[f]

\* "supervisors/admins see every event in the tenant" (sync.service.ts:9): a
\* supervisor's feed misses no event behind its cursor.
SupervisorSeesEveryEvent ==
  \A f \in Feeds : \A e \in events :
    f.user \in Supervisors /\ InScope(f, e) /\ e.seq <= cursor[f] => e.seq \in received[f]

\* A page repeats nothing of the pages before it and, between the cursor it was
\* asked with and the one it leaves, passes over nothing that was committed and
\* visible when it was read, with whatever limit: what a tenant feed skips was in
\* flight.
PagesAreExact ==
  [][\A f \in Feeds : cursor'[f] # cursor[f] =>
       LET page == EventsSince(f, cursor[f]) IN
       /\ \A i \in DOMAIN page : page[i].seq \notin received[f]
       /\ \A e \in events :
            InScope(f, e) /\ Visible(f.user, e) /\ e.seq \in (cursor[f] + 1)..cursor'[f]
            => e.seq \in received'[f]]_allVars

\* A client that keeps polling one report it may see is given each of its events.
FeedCatchesUp ==
  \A f \in Feeds : \A s \in 1..MaxSeq :
    (\E e \in events : /\ e.seq = s /\ e.report = f.scope
                       /\ f.user \in Supervisors \cup {report[e.report].reporter})
      ~> s \in received[f]
=============================================================================
