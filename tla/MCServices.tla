----------------------------- MODULE MCServices -----------------------------
(***************************************************************************)
(* TLC instance of the services around the report workflow, none of which  *)
(* shares state with another: a behaviour plays one scene, that is one     *)
(* module on a small instance, and leaves the others' variables alone.     *)
(***************************************************************************)
EXTENDS PushV1, PhoneV2, PhotosV1, GeoV2, MonitorV2, StatusBoardV1, TenantScope,
        AccessV2, BootstrapV1, MigrationV1, TLC

CONSTANTS
  d1, d2,             \* an Android draft and a web client's
  l1, l2, bad,        \* landmarks; a malformed boundary entry
  o1, o2, b1, b2, k1, x1, x2, t2, ta, q2,
  invalid             \* a sheet row that fails validation

VARIABLE scene
vars == <<scene, pushVars, phoneVars, photoVars, geoVars, monitorVars, boardVars,
          tenantVars, accessVars, bootVars, migVars>>

-----------------------------------------------------------------------------
(* Values of the constants *)

DraftPhotos == (d1 :> 3) @@ (d2 :> 1)
DraftTries == (d1 :> 1) @@ (d2 :> 2)
Org == (1 :> o1) @@ (2 :> o1)

Vertices == {0, 2, 4} \X {0, 2, 4}
Triangles == {<<<<0, 0>>, v, w>> : v \in Vertices, w \in Vertices}
Figures ==   \* concave, closed, with malformed entries, crossing itself
  {<<<<0, 0>>, <<4, 0>>, <<2, 2>>, <<4, 4>>, <<0, 4>>>>,
   <<<<0, 0>>, <<4, 0>>, <<4, 4>>, <<0, 4>>, <<0, 0>>>>,
   <<<<0, 0>>, bad, <<4, 2>>, <<0, 4>>>>,
   <<bad, <<0, 0>>, <<4, 2>>>>,
   <<<<0, 4>>, <<0, 0>>, <<2, 4>>, <<4, 0>>, <<4, 4>>, <<2, 0>>>>}
Rings == Triangles \cup Figures
Grid == (0..4) \X (0..4)
Distances == {0, 41, 42, 43, 45, 46, 1600, 1602}   \* around a half metre and the 400 m
LandmarkRadii == {5, 11, 500}

Line(l, p) == [login |-> l, place |-> p]
Supervisors ==
  {<<Line("s1", "A"), Line("s2", "A"), Line("s1", "B")>>, <<invalid, Line("s1", "A"), Line("s2", "B")>>}
CleanerLines ==
  {<<Line("c1", "A"), Line("c1", "B"), Line("s2", "A")>>, <<Line("c1", "B")>>}

-----------------------------------------------------------------------------
(* The initial states: those of the scene, and one state of every other module *)

Place(lm, r) == [l \in Landmarks |-> [q |-> lm, radius |-> r]]

InitPush == (IF scene = "push" THEN TRUE ELSE fcm = FALSE) /\ PushInit

\* Either the Android composer with three photographs works alone, or both
\* clients create reports among old numbers.
InitPhotos ==
  /\ IF scene = "numbers" THEN TRUE ELSE reports = <<>>
  /\ PhotosInit

\* Every boundary and point, or every pair of landmarks.
InitGeo ==
  /\ CASE scene = "ring" -> landmark = Place(0, 5)
       [] scene = "near" -> config = NotConfigured /\ gps = <<0, 0>>
       [] OTHER          -> config = NotConfigured /\ gps = <<0, 0>> /\ landmark = Place(0, 5)
  /\ GeoInit

InitMonitor ==
  /\ IF scene = "monitor"
       THEN stage \in {(1 :> "resolved_by_cleaner") @@ (2 :> "absent"),
                       (1 :> "rejected_by_supervisor") @@ (2 :> "resolved_by_cleaner")}
       ELSE stage = [r \in MonReports |-> "absent"]
  /\ MonitorInit

InitBoard ==
  /\ doing = [c \in BoardCleaners |-> NoTask]
  /\ IF scene = "board"
       THEN \E s \in {"Pending", "Resolved"} : \E u \in {s = "Resolved", TRUE} :
              filed \in {(b1 :> [status |-> s, urgent |-> u]) @@ (b2 :> f) :
                           f \in {NoTask, [status |-> "Assigned", urgent |-> FALSE]}}
       ELSE filed = [r \in BoardReports |-> NoTask]
  /\ fetch = [k \in BoardLoads |-> IF k = k1 THEN Asking(FALSE) ELSE NoTask]
  /\ BoardInit

InitTenant ==
  /\ TenantInit
  /\ IF scene = "tenant" THEN ta \in activeTenants
       ELSE activeTenants = {} /\ owner = [r \in TenantRows |-> NoTenant]

InitAccess ==
  /\ v1Role \in IF scene = "access" THEN {(x1 :> "supervisor") @@ (x2 :> r) : r \in {"public", "cleaner"}}
                ELSE {[u \in Accounts |-> "public"]}
  /\ AccessInit

InitBoot ==
  /\ IF scene = "bootstrap" THEN TRUE
       ELSE /\ supervisorRows = (CHOOSE sheet \in SupervisorSheets : TRUE)
            /\ cleanerRows = (CHOOSE sheet \in CleanerSheets : TRUE)
  /\ BootInit

InitMigration ==
  /\ IF scene = "migration" THEN TRUE
       ELSE /\ supervisorRef = [d \in CleanerDocs |-> NoDoc]
            /\ userRef = [d \in ReportDocs |-> NoDoc] /\ cleanerRef = [d \in ReportDocs |-> NoDoc]
  /\ MigInit

Scenes == {"push", "phone", "uploads", "numbers", "ring", "near", "monitor", "board",
           "tenant", "access", "bootstrap", "migration"}

Init ==
  /\ scene \in Scenes
  /\ InitPush /\ PhoneInit /\ InitPhotos /\ InitGeo /\ InitMonitor /\ InitBoard
  /\ InitTenant /\ InitAccess /\ InitBoot /\ InitMigration

-----------------------------------------------------------------------------
(* The steps *)

Still(scenes, v) == IF scene \in scenes THEN TRUE ELSE UNCHANGED v
OthersStill ==
  /\ UNCHANGED scene
  /\ Still({"push"}, pushVars) /\ Still({"phone"}, phoneVars)
  /\ Still({"uploads", "numbers"}, photoVars) /\ Still({"ring", "near"}, geoVars)
  /\ Still({"monitor"}, monitorVars) /\ Still({"board"}, boardVars)
  /\ Still({"tenant"}, tenantVars) /\ Still({"access"}, accessVars)
  /\ Still({"bootstrap"}, bootVars) /\ Still({"migration"}, migVars)

\* Bounds on a scene's states.  Push: the first token registered is t1, and only
\* its app is uninstalled or has notifications off.  Uploads: the web client's draft
\* is never sent, two handlers at once.  Numbers: the Android composer uploads no
\* photograph.  Monitor: one of two organizations stays open.  Tenant: the first
\* tenant is active at first; the second request is for an open route, its header
\* names ta, its token another tenant or none.  Access: roles change, or URLs are made.
Within ==
  CASE scene = "push"    -> /\ nextReg = 2 => reg[t2] = Gone
                            /\ t2 \notin dead /\ (reg[t2] # Gone => reg[t2].enabled)
    [] scene = "uploads" -> composer[d2].tries = 0 /\ Cardinality(jobs) <= 2
    [] scene = "numbers" -> composer[d1].step \notin {"confirm", "legacy"}
    [] scene = "monitor" -> o2 \in open
    [] scene = "tenant"  -> http[q2] # Answered => http[q2].slug = ta /\ http[q2].token # ta /\ ~http[q2].protected
    [] scene = "access"  ->
         \/ roleRows = {} /\ script = NoScript
         \/ /\ minted = {} /\ parties = {}
            /\ \A q \in AccessCalls : access[q].step \in {"waiting", "find", "upsert"}
    [] OTHER -> TRUE

Next ==
  /\ \/ scene = "push" /\ PushNext
     \/ scene = "phone" /\ PhoneNext
     \/ scene \in {"uploads", "numbers"} /\ PhotosNext
     \/ scene \in {"ring", "near"} /\ GeoNext
     \/ scene = "monitor" /\ MonitorNext
     \/ scene = "board" /\ BoardNext
     \/ scene = "tenant" /\ TenantNext
     \/ scene = "access" /\ AccessNext
     \/ scene = "bootstrap" /\ BootNext
     \/ scene = "migration" /\ MigNext
  /\ OthersStill /\ Within'

Spec == Init /\ [][Next]_vars
=============================================================================
