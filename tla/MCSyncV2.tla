------------------------------ MODULE MCSyncV2 ------------------------------
(* TLC instances of SyncV2. *)
EXTENDS SyncV2

CONSTANTS r1, r2, sup, cl1

\* One report, watched by the supervisor and by its possible reporter.
ReportFeeds == {[user |-> sup, scope |-> r1], [user |-> cl1, scope |-> r1]}

\* The supervisor's feed of the whole tenant.
TenantFeed == {[user |-> sup, scope |-> AllReports]}
=============================================================================
