--------------------------- MODULE ServicesProofs ---------------------------
(***************************************************************************)
(* The services around the report workflow, each proved about on its own:  *)
(* tenants are apart, every right has its ground, the ray cast tells the   *)
(* inside of a boundary and the landmark is nearest, a repeated            *)
(* phone call changes nothing, a tile counts its rows, the                 *)
(* monitor's figures and rows are of one state; and the scripts leave no   *)
(* dangling reference and a sound roster, however often they die and are   *)
(* run again.                                                              *)
(***************************************************************************)
EXTENDS MonitorV2, TenantScope, AccessV2, GeoV2, PhoneV2, StatusBoardV1, MigrationV1, BootstrapV1,
        TLAPS, FiniteSetTheorems, WellFoundedInduction

-----------------------------------------------------------------------------
(* TenantScope: tenants are apart *)

MaybeTenant == Tenants \cup {NoTenant}

ScopedRequest ==
  [step : {"attach", "resolve", "lookup", "guard", "query"}, surface : {"v1", "v2"},
   protected : BOOLEAN, slug : MaybeTenant, token : MaybeTenant,
   auth : MaybeTenant, scope : MaybeTenant]

\* Where the scope of a request comes from, at each of its steps: from its token
\* once that is believed, else from a slug whose tenant has been active.
ScopeInv(a, since) ==
  /\ a.surface = "v2" => a.step # "attach" /\ (a.auth # NoTenant => a.step = "query")
  /\ a.surface = "v1" => a.auth = IF a.step = "attach" THEN NoTenant ELSE a.token
  /\ a.auth # NoTenant => a.scope = a.auth /\ a.auth = a.token
  /\ a.auth = NoTenant /\ a.scope # NoTenant =>
       a.scope = a.slug /\ a.scope \in since /\ a.step \in {"guard", "query"}
  /\ a.step = "lookup" => a.auth = NoTenant /\ a.slug # NoTenant
  /\ a.step = "query" => a.scope # NoTenant /\ a.scope = ActsFor(a)

ScopesInv ==
  /\ activeTenants \subseteq activeSince /\ slugCache \subseteq activeSince
  /\ http \in [ApiCalls -> ScopedRequest \cup {Answered}]
  /\ \A q \in ApiCalls : http[q] # Answered => ScopeInv(http[q], activeSince)
  /\ RowsOfOneTenant

\* A request that is not answered has all its fields.
LEMMA RequestIsWaiting ==
  ASSUME ScopesInv, NEW q \in ApiCalls, http[q].step # "done"
  PROVE  http[q] \in ScopedRequest /\ http[q] # Answered /\ ScopeInv(http[q], activeSince)
BY DEF ScopesInv, Answered

LEMMA RequestIsNotAnswered == ASSUME NEW a \in ScopedRequest PROVE a # Answered /\ a.step # "done"
BY DEF ScopedRequest, Answered

\* What has to be shown of a step that moves one request on.
LEMMA MoveOn ==
  ASSUME ScopesInv, NEW q \in ApiCalls, NEW a \in ScopedRequest \cup {Answered},
         http' = [http EXCEPT ![q] = a], a # Answered => ScopeInv(a, activeSince),
         UNCHANGED <<activeTenants, activeSince>>, slugCache' \subseteq activeSince,
         touched' = <<>>
  PROVE  ScopesInv'
<1>1. http' \in [ApiCalls -> ScopedRequest \cup {Answered}]
  BY DEF ScopesInv
<1>2. ASSUME NEW p \in ApiCalls, http'[p] # Answered PROVE ScopeInv(http'[p], activeSince')
  <2>1. CASE p = q
    <3>1. http'[p] = a /\ activeSince' = activeSince BY <2>1 DEF ScopesInv
    <3>. QED BY <3>1, <1>2
  <2>2. CASE p # q
    <3>1. http'[p] = http[p] /\ activeSince' = activeSince BY <2>2 DEF ScopesInv
    <3>2. ScopeInv(http[p], activeSince) BY <3>1, <1>2 DEF ScopesInv
    <3>. QED BY <3>1, <3>2
  <2>. QED BY <2>1, <2>2
<1>3. RowsOfOneTenant' BY DEF RowsOfOneTenant
<1>. QED BY <1>1, <1>2, <1>3 DEF ScopesInv

LEMMA ArriveKeeps == ASSUME ScopesInv, NEW q \in ApiCalls, Arrive(q) PROVE ScopesInv'
<1>1. PICK a \in Arriving :
        a.step = (IF a.surface = "v1" THEN "attach" ELSE "resolve")
          /\ http' = [http EXCEPT ![q] = a]
  BY DEF Arrive
<1>2. a \in ScopedRequest BY DEF Arriving, ScopedRequest, MaybeTenant
<1>3. ScopeInv(a, activeSince) BY <1>1 DEF Arriving, ScopeInv
<1>. QED BY <1>1, <1>2, <1>3, MoveOn DEF Arrive, ScopesInv

LEMMA AttachKeeps == ASSUME ScopesInv, NEW q \in ApiCalls, AttachAuth(q) PROVE ScopesInv'
<1>. DEFINE o == http[q]
<1>1. o \in ScopedRequest /\ ScopeInv(o, activeSince) /\ o.step = "attach"
  BY RequestIsWaiting DEF AttachAuth, At
<1>2. o.surface = "v1" /\ o.auth = NoTenant /\ o.scope = NoTenant
  BY <1>1 DEF ScopeInv, ScopedRequest
<1>3. UNCHANGED <<activeTenants, activeSince>> /\ slugCache' \subseteq activeSince /\ touched' = <<>>
  BY DEF AttachAuth, TenantStill, ScopesInv
<1>4. CASE o.token = NoTenant /\ http' = [http EXCEPT ![q] = [o EXCEPT !.step = "resolve"]]
  <2>1. [o EXCEPT !.step = "resolve"] \in ScopedRequest BY <1>1 DEF ScopedRequest
  <2>2. ScopeInv([o EXCEPT !.step = "resolve"], activeSince)
    BY <1>1, <1>2, <1>4 DEF ScopeInv, ScopedRequest
  <2>. QED BY <2>1, <2>2, <1>3, <1>4, MoveOn
<1>5. CASE /\ o.token # NoTenant
           /\ http' = [http EXCEPT ![q] = [o EXCEPT !.scope = o.token, !.auth = o.token,
                                                    !.step = "resolve"]]
  <2>1. [o EXCEPT !.scope = o.token, !.auth = o.token, !.step = "resolve"] \in ScopedRequest
    BY <1>1 DEF ScopedRequest
  <2>2. ScopeInv([o EXCEPT !.scope = o.token, !.auth = o.token, !.step = "resolve"], activeSince)
    BY <1>1, <1>2, <1>5 DEF ScopeInv, ScopedRequest
  <2>. QED BY <2>1, <2>2, <1>3, <1>5, MoveOn
<1>6. CASE http' = [http EXCEPT ![q] = Answered]
  BY <1>6, <1>3, MoveOn
<1>. QED BY <1>4, <1>5, <1>6 DEF AttachAuth, Proceed, Refuse

LEMMA ResolveKeeps == ASSUME ScopesInv, NEW q \in ApiCalls, ResolveTenant(q) PROVE ScopesInv'
<1>. DEFINE o == http[q]
<1>1. o \in ScopedRequest /\ ScopeInv(o, activeSince) /\ o.step = "resolve"
  BY RequestIsWaiting DEF ResolveTenant, At
<1>2. UNCHANGED <<activeTenants, activeSince>> /\ slugCache' \subseteq activeSince /\ touched' = <<>>
  BY DEF ResolveTenant, TenantStill, ScopesInv
<1>3. CASE http' = [http EXCEPT ![q] = [o EXCEPT !.step = "guard"]]
  <2>1. [o EXCEPT !.step = "guard"] \in ScopedRequest BY <1>1 DEF ScopedRequest
  <2>2. ScopeInv([o EXCEPT !.step = "guard"], activeSince) BY <1>1 DEF ScopeInv, ScopedRequest
  <2>. QED BY <2>1, <2>2, <1>2, <1>3, MoveOn
<1>4. CASE /\ WantsSlug(o) /\ o.slug \in slugCache
           /\ http' = [http EXCEPT ![q] = [o EXCEPT !.scope = o.slug, !.step = "guard"]]
  <2>1. [o EXCEPT !.scope = o.slug, !.step = "guard"] \in ScopedRequest BY <1>1 DEF ScopedRequest
  <2>2. o.slug \in activeSince BY <1>4 DEF ScopesInv
  <2>3. ScopeInv([o EXCEPT !.scope = o.slug, !.step = "guard"], activeSince)
    BY <1>1, <1>4, <2>2 DEF ScopeInv, ScopedRequest, WantsSlug
  <2>. QED BY <2>1, <2>3, <1>2, <1>4, MoveOn
<1>5. CASE WantsSlug(o) /\ http' = [http EXCEPT ![q] = [o EXCEPT !.step = "lookup"]]
  <2>1. [o EXCEPT !.step = "lookup"] \in ScopedRequest BY <1>1 DEF ScopedRequest
  <2>2. ScopeInv([o EXCEPT !.step = "lookup"], activeSince)
    BY <1>1, <1>5 DEF ScopeInv, ScopedRequest, WantsSlug
  <2>. QED BY <2>1, <2>2, <1>2, <1>5, MoveOn
<1>. QED BY <1>3, <1>4, <1>5 DEF ResolveTenant, Proceed, Enter

LEMMA LookUpKeeps == ASSUME ScopesInv, NEW q \in ApiCalls, LookUpSlug(q) PROVE ScopesInv'
<1>. DEFINE o == http[q]
<1>1. o \in ScopedRequest /\ ScopeInv(o, activeSince) /\ o.step = "lookup"
  BY RequestIsWaiting DEF LookUpSlug, At
<1>2. UNCHANGED <<activeTenants, activeSince>> /\ touched' = <<>>
  BY DEF LookUpSlug
<1>3. slugCache' \subseteq activeSince BY DEF LookUpSlug, Cacheable, ScopesInv
<1>4. CASE /\ o.slug \in activeTenants
           /\ http' = [http EXCEPT ![q] = [o EXCEPT !.scope = o.slug, !.step = "guard"]]
  <2>1. [o EXCEPT !.scope = o.slug, !.step = "guard"] \in ScopedRequest BY <1>1 DEF ScopedRequest
  <2>2. o.slug \in activeSince BY <1>4 DEF ScopesInv
  <2>3. ScopeInv([o EXCEPT !.scope = o.slug, !.step = "guard"], activeSince)
    BY <1>1, <2>2 DEF ScopeInv, ScopedRequest
  <2>. QED BY <2>1, <2>3, <1>2, <1>3, <1>4, MoveOn
<1>5. CASE http' = [http EXCEPT ![q] = [o EXCEPT !.step = "guard"]]
  <2>1. [o EXCEPT !.step = "guard"] \in ScopedRequest BY <1>1 DEF ScopedRequest
  <2>2. ScopeInv([o EXCEPT !.step = "guard"], activeSince) BY <1>1 DEF ScopeInv, ScopedRequest
  <2>. QED BY <2>1, <2>2, <1>2, <1>3, <1>5, MoveOn
<1>. QED BY <1>4, <1>5 DEF LookUpSlug, Proceed, Enter

LEMMA GuardKeeps == ASSUME ScopesInv, NEW q \in ApiCalls, Guard(q) PROVE ScopesInv'
<1>. DEFINE o == http[q]
<1>1. o \in ScopedRequest /\ ScopeInv(o, activeSince) /\ o.step = "guard"
  BY RequestIsWaiting DEF Guard, At
<1>2. UNCHANGED <<activeTenants, activeSince>> /\ slugCache' \subseteq activeSince /\ touched' = <<>>
  BY DEF Guard, TenantStill, ScopesInv
<1>3. CASE /\ \/ ~o.protected /\ o.scope # NoTenant
              \/ o.surface = "v1" /\ o.auth # NoTenant
           /\ http' = [http EXCEPT ![q] = [o EXCEPT !.step = "query"]]
  <2>1. [o EXCEPT !.step = "query"] \in ScopedRequest BY <1>1 DEF ScopedRequest
  <2>2. ScopeInv([o EXCEPT !.step = "query"], activeSince)
    BY <1>1, <1>3 DEF ScopeInv, ScopedRequest, ActsFor
  <2>. QED BY <2>1, <2>2, <1>2, <1>3, MoveOn
<1>4. CASE /\ o.protected /\ o.surface = "v2" /\ o.token # NoTenant
           /\ http' = [http EXCEPT ![q] = [o EXCEPT !.auth = o.token, !.scope = o.token,
                                                    !.step = "query"]]
  <2>1. [o EXCEPT !.auth = o.token, !.scope = o.token, !.step = "query"] \in ScopedRequest
    BY <1>1 DEF ScopedRequest
  <2>2. ScopeInv([o EXCEPT !.auth = o.token, !.scope = o.token, !.step = "query"], activeSince)
    BY <1>1, <1>4 DEF ScopeInv, ScopedRequest, ActsFor
  <2>. QED BY <2>1, <2>2, <1>2, <1>4, MoveOn
<1>5. CASE http' = [http EXCEPT ![q] = Answered]
  BY <1>5, <1>2, MoveOn
<1>6. o.protected \in BOOLEAN /\ o.surface \in {"v1", "v2"} BY <1>1 DEF ScopedRequest
<1>. QED BY <1>3, <1>4, <1>5, <1>6 DEF Guard, Proceed, Refuse

\* A statement on a row of the scope's tenant, or one that makes such a row.
LEMMA StatementKeeps ==
  ASSUME ScopesInv, NEW q \in ApiCalls, NEW r \in TenantRows, ReadOrWrite(q, r) \/ CreateRow(q, r)
  PROVE  ScopesInv'
<1>1. http[q].step = "query" /\ UNCHANGED <<activeTenants, slugCache, http, activeSince>>
  BY DEF ReadOrWrite, CreateRow, At
<1>2. http[q].scope # NoTenant /\ http[q].scope = ActsFor(http[q])
  BY <1>1, RequestIsWaiting DEF ScopeInv
<1>3. touched' = <<ActsFor(http[q]), http[q].scope>>
  BY DEF ReadOrWrite, CreateRow, Touch, Reaches
<1>4. RowsOfOneTenant' BY <1>2, <1>3 DEF RowsOfOneTenant
<1>. QED BY <1>1, <1>4 DEF ScopesInv

LEMMA ReactivationKeeps ==
  ASSUME ScopesInv, NEW t \in Tenants, Deactivate(t) \/ Activate(t)
  PROVE  ScopesInv'
<1>1. /\ http' = http /\ slugCache' = slugCache /\ touched' = <<>>
      /\ activeSince \subseteq activeSince' /\ activeTenants' \subseteq activeSince'
  BY DEF Deactivate, Activate, ScopesInv
<1>2. \A q \in ApiCalls : http[q] # Answered => ScopeInv(http[q], activeSince')
  BY <1>1 DEF ScopesInv, ScopeInv
<1>. QED BY <1>1, <1>2 DEF ScopesInv, RowsOfOneTenant

LEMMA RestartKeeps == ASSUME ScopesInv, RestartApi PROVE ScopesInv'
BY DEF ScopesInv, RestartApi, RowsOfOneTenant

LEMMA ScopesStutter == ASSUME ScopesInv, UNCHANGED tenantVars PROVE ScopesInv'
BY DEF ScopesInv, tenantVars, RowsOfOneTenant, ScopeInv

LEMMA ScopesKeepApart == ASSUME ScopesInv PROVE TenantsAreApart
<1>1. ASSUME NEW q \in ApiCalls, http[q] # Answered, http[q].scope # NoTenant,
             http[q].auth = NoTenant
      PROVE  http[q].scope \in activeSince
  BY <1>1 DEF ScopesInv, ScopeInv
<1>. QED BY <1>1 DEF ScopesInv, TenantsAreApart, CachedWasActive

\* resolveTenant, attachAuth, requireV2Auth and the extension together: whatever
\* requests interleave and whatever tenants are deactivated under way, a statement
\* reaches rows of the tenant its request acts for only, and a tenant without a
\* token's say-so is entered only if it was active since the process started.
THEOREM Apart == TenantSpec => []TenantsAreApart
<1>1. TenantInit => ScopesInv
  BY DEF TenantInit, ScopesInv, RowsOfOneTenant
<1>2. ScopesInv /\ [TenantNext]_tenantVars => ScopesInv'
  <2>. SUFFICES ASSUME ScopesInv, [TenantNext]_tenantVars PROVE ScopesInv' OBVIOUS
  <2>1. ASSUME NEW q \in ApiCalls, Finish(q) PROVE ScopesInv'
    <3>1. http' = [http EXCEPT ![q] = Answered] BY <2>1 DEF Finish, Refuse
    <3>. QED BY <2>1, <3>1, MoveOn DEF Finish, TenantStill, ScopesInv
  <2>. QED
    BY <2>1, ArriveKeeps, AttachKeeps, ResolveKeeps, LookUpKeeps, GuardKeeps, StatementKeeps,
       ReactivationKeeps, RestartKeeps, ScopesStutter DEF TenantNext
<1>3. ScopesInv => TenantsAreApart BY ScopesKeepApart
<1>. QED BY <1>1, <1>2, <1>3, PTL DEF TenantSpec

-----------------------------------------------------------------------------
(* AccessV2: every right has its ground *)

RoleNames == {"supervisor", "cleaner", "admin"}

\* What a request holds, at each of its steps.
Granting == [step : {"find", "upsert"}, by : Accounts, user : Accounts, role : Assignable]
Presigning == [step : {"report"}, by : Accounts, roles : SUBSET (RoleNames \cup {"reporter"}),
               folder : Folders]
Minting == [step : {"mint"}, by : Accounts, folder : Folders, existed : BOOLEAN]

Parties == [reporter : Accounts, supervisor : Accounts \cup {NoAccount},
            cleaner : Accounts \cup {NoAccount}]

AccessTypeOK ==
  /\ v1Role \in [Accounts -> {"public", "supervisor", "cleaner"}]
  /\ activeUser \subseteq Accounts
  /\ roleRows \subseteq Accounts \X RoleNames
  /\ folderOf \in [Folders -> Parties \cup {NoReportYet}]
  /\ access \in [AccessCalls -> {Waiting} \cup Granting \cup Presigning \cup Minting]
  /\ script \in [user : Accounts, dry : BOOLEAN] \cup {NoScript}
  /\ promoted \subseteq Accounts

Ground(u, f) == <<u, f>> \in parties \/ RoleSet(u) \cap {"supervisor", "admin"} # {}

\* A request never holds more than its account has: roles are not taken away, so
\* what was read before is still so when it is used.
AccessHolds(a) ==
  /\ a \in Granting => a.by \in promoted
  /\ a \in Presigning => a.roles \subseteq RoleSet(a.by)
  /\ a \in Minting /\ a.existed => Ground(a.by, a.folder)

GroundInv ==
  /\ AccessTypeOK
  /\ \A q \in AccessCalls : AccessHolds(access[q])
  /\ \A f \in Folders : folderOf[f] \in Parties =>
       \A u \in Accounts :
         u \in {folderOf[f].reporter, folderOf[f].supervisor, folderOf[f].cleaner}
           => <<u, f>> \in parties
  /\ RightsHaveGround

\* Nothing is taken away: what held of a request or a URL goes on holding.
Grows ==
  /\ v1Role' = v1Role
  /\ roleRows \subseteq roleRows' /\ parties \subseteq parties' /\ promoted \subseteq promoted'

LEMMA RolesGrow == ASSUME Grows, NEW u PROVE RoleSet(u) \subseteq RoleSet(u)'
BY DEF Grows, RoleSet

LEMMA GroundStays == ASSUME Grows, NEW u, NEW f, Ground(u, f) PROVE Ground(u, f)'
<1>1. RoleSet(u) \subseteq RoleSet(u)' BY RolesGrow
<1>2. parties \subseteq parties' BY DEF Grows
<1>. QED BY <1>1, <1>2 DEF Ground

LEMMA HoldsStays == ASSUME Grows, NEW a, AccessHolds(a) PROVE AccessHolds(a)'
<1>1. promoted \subseteq promoted' BY DEF Grows
<1>2. RoleSet(a.by) \subseteq RoleSet(a.by)' BY RolesGrow
<1>3. Ground(a.by, a.folder) => Ground(a.by, a.folder)' BY GroundStays
<1>. QED BY <1>1, <1>2, <1>3 DEF AccessHolds, Granting, Presigning, Minting, Assignable

LEMMA FoldersStay ==
  ASSUME Grows, FoldersOfParties, minted' = minted
  PROVE  FoldersOfParties'
<1>1. ASSUME NEW m \in minted, m[3] PROVE Ground(m[1], m[2])'
  <2>1. Ground(m[1], m[2]) BY <1>1 DEF FoldersOfParties, Ground
  <2>. QED BY <2>1, GroundStays
<1>. QED BY <1>1 DEF FoldersOfParties, Ground

\* Only the operator's rows make an admin.
LEMMA AdminsArePromoted ==
  ASSUME GroundInv, NEW u \in Accounts, "admin" \in RoleSet(u)
  PROVE  u \in promoted
<1>1. v1Role[u] # "admin" BY DEF GroundInv, AccessTypeOK
<1>2. <<u, "admin">> \in roleRows BY <1>1 DEF RoleSet
<1>. QED BY <1>2 DEF GroundInv, RightsHaveGround, RolesDescendFromOperator

\* A step of one request that changes nothing but that request.
LEMMA RequestMoves ==
  ASSUME GroundInv, NEW q \in AccessCalls,
         NEW a \in {Waiting} \cup Granting \cup Presigning \cup Minting,
         AccessHolds(a), access' = [access EXCEPT ![q] = a],
         UNCHANGED <<v1Role, activeUser, roleRows, folderOf, script, accessHistory>>
  PROVE  GroundInv'
<1>1. /\ UNCHANGED <<v1Role, activeUser, roleRows, folderOf, script, grants, promoted, minted, parties>>
      /\ Grows
  BY DEF accessHistory, Grows
<1>2. AccessTypeOK' BY <1>1 DEF GroundInv, AccessTypeOK
<1>3. \A p \in AccessCalls : AccessHolds(access'[p])
  BY DEF GroundInv, AccessTypeOK
<1>4. ASSUME NEW p \in AccessCalls PROVE AccessHolds(access[p])'
  BY <1>1, <1>3 DEF AccessHolds, Ground, RoleSet
<1>5. RightsHaveGround'
  BY <1>1, FoldersStay DEF GroundInv, RightsHaveGround, RolesDescendFromOperator
<1>. QED BY <1>1, <1>2, <1>4, <1>5 DEF GroundInv

LEMMA WaitingHolds == AccessHolds(Waiting)
BY DEF AccessHolds, Waiting, Granting, Presigning, Minting

LEMMA GrantKeeps ==
  ASSUME GroundInv, NEW q \in AccessCalls, NEW u \in Accounts, NEW t \in Accounts,
         NEW role \in Assignable, BeginGrant(q, u, t, role)
  PROVE  GroundInv'
<1>. DEFINE a == [step |-> "find", by |-> u, user |-> t, role |-> role]
<1>1. u \in promoted BY AdminsArePromoted DEF BeginGrant, MayGrant
<1>2. a \in Granting BY DEF Granting
<1>3. AccessHolds(a) BY <1>1 DEF AccessHolds, Presigning, Minting
<1>4. access' = [access EXCEPT ![q] = a] BY DEF BeginGrant, Become
<1>5. UNCHANGED <<v1Role, activeUser, roleRows, folderOf, script, accessHistory>> BY DEF BeginGrant
<1>. HIDE DEF a
<1>. QED BY <1>2, <1>3, <1>4, <1>5, RequestMoves

LEMMA FindKeeps == ASSUME GroundInv, NEW q \in AccessCalls, FindAccount(q) PROVE GroundInv'
<1>. DEFINE o == access[q]
            a == [o EXCEPT !.step = "upsert"]
<1>1. o \in Granting /\ AccessHolds(o)
  BY DEF FindAccount, GroundInv, AccessTypeOK, Waiting, Presigning, Minting
<1>2. a \in Granting /\ a.by = o.by BY <1>1 DEF Granting
<1>3. AccessHolds(a) BY <1>1, <1>2 DEF AccessHolds, Granting, Presigning, Minting
<1>4. access' = [access EXCEPT ![q] = a] \/ access' = [access EXCEPT ![q] = Waiting]
  BY DEF FindAccount, Become
<1>5. UNCHANGED <<v1Role, activeUser, roleRows, folderOf, script, accessHistory>> BY DEF FindAccount
<1>. HIDE DEF a, o
<1>. QED BY <1>2, <1>3, <1>4, <1>5, RequestMoves, WaitingHolds

\* The grant of a role that is not admin, by somebody who was promoted.
LEMMA UpsertKeeps == ASSUME GroundInv, NEW q \in AccessCalls, UpsertRole(q) PROVE GroundInv'
<1>. DEFINE o == access[q]
<1>1. o \in Granting /\ o.by \in promoted
  BY DEF UpsertRole, GroundInv, AccessTypeOK, AccessHolds, Waiting, Presigning, Minting
<1>2. /\ roleRows' = roleRows \cup {<<o.user, o.role>>} /\ grants' = grants \cup {o.by}
      /\ access' = [access EXCEPT ![q] = Waiting]
      /\ UNCHANGED <<v1Role, activeUser, folderOf, script, promoted, minted, parties>>
  BY DEF UpsertRole, Become
<1>3. o.user \in Accounts /\ o.role \in {"supervisor", "cleaner"} BY <1>1 DEF Granting, Assignable
<1>4. Grows BY <1>2 DEF Grows
<1>5. AccessTypeOK' BY <1>2, <1>3 DEF GroundInv, AccessTypeOK, RoleNames
<1>6. ASSUME NEW p \in AccessCalls PROVE AccessHolds(access[p])'
  <2>1. AccessHolds(access'[p]) BY <1>2, WaitingHolds DEF GroundInv, AccessTypeOK
  <2>. QED BY <2>1, <1>4, HoldsStays
<1>7. RolesDescendFromOperator'
  BY <1>1, <1>2, <1>3 DEF GroundInv, RightsHaveGround, RolesDescendFromOperator
<1>8. FoldersOfParties' BY <1>2, <1>4, FoldersStay DEF GroundInv, RightsHaveGround
<1>. QED BY <1>2, <1>5, <1>6, <1>7, <1>8 DEF GroundInv, RightsHaveGround

LEMMA PromoteKeeps ==
  ASSUME GroundInv, Promote \/ \E u \in Accounts, dry \in BOOLEAN : FindPromoted(u, dry)
  PROVE  GroundInv'
<1>1. /\ UNCHANGED <<v1Role, activeUser, folderOf, access, grants, minted, parties>>
      /\ script' \in [user : Accounts, dry : BOOLEAN] \cup {NoScript}
      /\ \/ UNCHANGED <<roleRows, promoted>>
         \/ \E u \in Accounts : /\ roleRows' = roleRows \cup {<<u, "admin">>}
                                /\ promoted' = promoted \cup {u}
  BY DEF Promote, FindPromoted, accessHistory, GroundInv, AccessTypeOK
<1>2. Grows BY <1>1 DEF Grows
<1>3. AccessTypeOK' BY <1>1 DEF GroundInv, AccessTypeOK, RoleNames
<1>4. ASSUME NEW p \in AccessCalls PROVE AccessHolds(access[p])'
  <2>1. AccessHolds(access'[p]) BY <1>1 DEF GroundInv
  <2>. QED BY <2>1, <1>2, HoldsStays
<1>5. RolesDescendFromOperator'
  BY <1>1 DEF GroundInv, RightsHaveGround, RolesDescendFromOperator
<1>6. FoldersOfParties' BY <1>1, <1>2, FoldersStay DEF GroundInv, RightsHaveGround
<1>. QED BY <1>1, <1>3, <1>4, <1>5, <1>6 DEF GroundInv, RightsHaveGround

LEMMA PresignKeeps ==
  ASSUME GroundInv, NEW q \in AccessCalls, NEW u \in Accounts, NEW f \in Folders, BeginPresign(q, u, f)
  PROVE  GroundInv'
<1>. DEFINE a == [step |-> "report", by |-> u, roles |-> RoleSet(u), folder |-> f]
<1>1. RoleSet(u) \subseteq RoleNames \cup {"reporter"}
  BY DEF RoleSet, RoleNames
<1>2. a \in Presigning BY <1>1 DEF Presigning
<1>3. AccessHolds(a) BY DEF AccessHolds, Granting, Minting
<1>4. access' = [access EXCEPT ![q] = a] BY DEF BeginPresign, Become
<1>5. UNCHANGED <<v1Role, activeUser, roleRows, folderOf, script, accessHistory>> BY DEF BeginPresign
<1>. HIDE DEF a
<1>. QED BY <1>2, <1>3, <1>4, <1>5, RequestMoves

LEMMA CheckKeeps == ASSUME GroundInv, NEW q \in AccessCalls, CheckFolder(q) PROVE GroundInv'
<1>. DEFINE o == access[q]
            row == folderOf[o.folder]
            a(b) == [step |-> "mint", by |-> o.by, folder |-> o.folder, existed |-> b]
<1>1. o \in Presigning /\ o.roles \subseteq RoleSet(o.by)
  BY DEF CheckFolder, GroundInv, AccessTypeOK, AccessHolds, Waiting, Granting, Minting, Assignable
<1>2. o.by \in Accounts /\ o.folder \in Folders BY <1>1 DEF Presigning
<1>3. ASSUME NEW b \in BOOLEAN, b => Ground(o.by, o.folder)
      PROVE  a(b) \in Minting /\ AccessHolds(a(b))
  BY <1>2, <1>3 DEF AccessHolds, Granting, Presigning, Minting
<1>4. ASSUME row # NoReportYet, CanUpload(row, o.by, o.roles)
      PROVE  Ground(o.by, o.folder)
  <2>1. row \in Parties BY <1>2, <1>4 DEF GroundInv, AccessTypeOK
  <2>2. CASE o.by \in {row.reporter, row.cleaner, row.supervisor}
    BY <1>2, <2>1, <2>2 DEF GroundInv, Ground
  <2>3. CASE o.roles \cap {"supervisor", "admin"} # {}
    BY <1>1, <2>3 DEF Ground
  <2>. QED BY <1>4, <2>2, <2>3 DEF CanUpload
<1>5. \/ access' = [access EXCEPT ![q] = a(FALSE)]
      \/ /\ access' = [access EXCEPT ![q] = a(TRUE)]
         /\ row # NoReportYet /\ CanUpload(row, o.by, o.roles)
      \/ access' = [access EXCEPT ![q] = Waiting]
  BY DEF CheckFolder, Become
<1>6. UNCHANGED <<v1Role, activeUser, roleRows, folderOf, script, accessHistory>> BY DEF CheckFolder
<1>7. a(FALSE) \in Minting /\ AccessHolds(a(FALSE)) BY <1>3
<1>8. CASE access' = [access EXCEPT ![q] = a(TRUE)] /\ Ground(o.by, o.folder)
  <2>1. a(TRUE) \in Minting /\ AccessHolds(a(TRUE)) BY <1>3, <1>8
  <2>. HIDE DEF a, o
  <2>. QED BY <2>1, <1>6, <1>8, RequestMoves
<1>9. CASE access' = [access EXCEPT ![q] = a(FALSE)]
  <2>. HIDE DEF a, o
  <2>. QED BY <1>6, <1>7, <1>9, RequestMoves
<1>10. CASE access' = [access EXCEPT ![q] = Waiting]
  BY <1>6, <1>10, RequestMoves, WaitingHolds
<1>. QED BY <1>4, <1>5, <1>8, <1>9, <1>10

LEMMA MintKeeps == ASSUME GroundInv, NEW q \in AccessCalls, MintUrl(q) PROVE GroundInv'
<1>. DEFINE o == access[q]
<1>1. o \in Minting /\ (o.existed => Ground(o.by, o.folder))
  BY DEF MintUrl, GroundInv, AccessTypeOK, AccessHolds, Waiting, Granting, Presigning, Assignable
<1>2. /\ minted' = minted \cup {<<o.by, o.folder, o.existed>>}
      /\ access' = [access EXCEPT ![q] = Waiting]
      /\ UNCHANGED <<v1Role, activeUser, roleRows, folderOf, script, grants, promoted, parties>>
  BY DEF MintUrl, Become
<1>3. AccessTypeOK' BY <1>2 DEF GroundInv, AccessTypeOK
<1>4. Grows BY <1>2 DEF Grows
<1>5. ASSUME NEW p \in AccessCalls PROVE AccessHolds(access[p])'
  <2>1. AccessHolds(access'[p]) BY <1>2, WaitingHolds DEF GroundInv, AccessTypeOK
  <2>. QED BY <2>1, <1>4, HoldsStays
<1>6. RolesDescendFromOperator' BY <1>2 DEF GroundInv, RightsHaveGround, RolesDescendFromOperator
<1>7. ASSUME NEW m \in minted', m[3] PROVE Ground(m[1], m[2])
  <2>1. CASE m \in minted BY <1>7, <2>1 DEF GroundInv, RightsHaveGround, FoldersOfParties, Ground
  <2>2. CASE m = <<o.by, o.folder, o.existed>> BY <1>1, <1>7, <2>2
  <2>. QED BY <1>2, <2>1, <2>2
<1>8. FoldersOfParties' BY <1>2, <1>7 DEF FoldersOfParties, Ground, RoleSet
<1>. QED BY <1>2, <1>3, <1>5, <1>6, <1>8 DEF GroundInv, RightsHaveGround

LEMMA FolderKeeps ==
  ASSUME GroundInv, NEW f \in Folders, NEW u \in Accounts,
         FileReport(f, u) \/ \E c \in Accounts : AssignFolder(f, u, c)
  PROVE  GroundInv'
<1>1. /\ UNCHANGED <<v1Role, activeUser, roleRows, access, script, grants, promoted, minted>>
      /\ parties \subseteq parties'
  BY DEF FileReport, AssignFolder
<1>2. Grows BY <1>1 DEF Grows
<1>3. PICK row \in Parties :
        /\ folderOf' = [folderOf EXCEPT ![f] = row]
        /\ \A v \in Accounts : v \in {row.reporter, row.supervisor, row.cleaner}
                                  => <<v, f>> \in parties'
  <2>1. CASE FileReport(f, u)
    <3>. DEFINE new == [reporter |-> u, supervisor |-> NoAccount, cleaner |-> NoAccount]
    <3>1. new \in Parties BY DEF Parties
    <3>2. \A v \in Accounts : v \in {new.reporter, new.supervisor, new.cleaner} => v = u
      BY AccessAssumption
    <3>. QED BY <2>1, <3>1, <3>2 DEF FileReport
  <2>2. ASSUME NEW c \in Accounts, AssignFolder(f, u, c)
        PROVE  \E row \in Parties :
                 /\ folderOf' = [folderOf EXCEPT ![f] = row]
                 /\ \A v \in Accounts : v \in {row.reporter, row.supervisor, row.cleaner}
                                           => <<v, f>> \in parties'
    <3>. DEFINE new == [folderOf[f] EXCEPT !.supervisor = u, !.cleaner = c]
    <3>1. folderOf[f] \in Parties BY <2>2 DEF AssignFolder, GroundInv, AccessTypeOK
    <3>2. new \in Parties /\ new.reporter = folderOf[f].reporter
            /\ new.supervisor = u /\ new.cleaner = c
      BY <3>1 DEF Parties
    <3>3. folderOf' = [folderOf EXCEPT ![f] = new]
          /\ parties' = parties \cup {<<u, f>>, <<c, f>>}
      BY <2>2 DEF AssignFolder
    <3>4. \A v \in Accounts : v = folderOf[f].reporter => <<v, f>> \in parties
      BY <3>1 DEF GroundInv
    <3>. HIDE DEF new
    <3>. QED BY <3>2, <3>3, <3>4
  <2>. QED BY <2>1, <2>2
<1>4. AccessTypeOK' BY <1>1, <1>3 DEF GroundInv, AccessTypeOK
<1>5. ASSUME NEW p \in AccessCalls PROVE AccessHolds(access[p])'
  <2>1. AccessHolds(access'[p]) BY <1>1 DEF GroundInv
  <2>. QED BY <2>1, <1>2, HoldsStays
<1>6. ASSUME NEW g \in Folders, folderOf'[g] \in Parties, NEW v \in Accounts,
             v \in {folderOf'[g].reporter, folderOf'[g].supervisor, folderOf'[g].cleaner}
      PROVE  <<v, g>> \in parties'
  BY <1>1, <1>3, <1>6 DEF GroundInv, AccessTypeOK
<1>7. RolesDescendFromOperator' BY <1>1 DEF GroundInv, RightsHaveGround, RolesDescendFromOperator
<1>8. FoldersOfParties' BY <1>1, <1>2, FoldersStay DEF GroundInv, RightsHaveGround
<1>. QED BY <1>4, <1>5, <1>6, <1>7, <1>8 DEF GroundInv, RightsHaveGround

LEMMA AccessOthersKeep ==
  ASSUME GroundInv, UNCHANGED accessVars \/ \E u \in Accounts : SuspendAccount(u)
  PROVE  GroundInv'
<1>1. /\ UNCHANGED <<v1Role, roleRows, folderOf, access, script, grants, promoted, minted, parties>>
      /\ activeUser' \subseteq Accounts
  BY DEF accessVars, SuspendAccount, accessHistory, GroundInv, AccessTypeOK
<1>2. AccessTypeOK' BY <1>1 DEF GroundInv, AccessTypeOK
<1>3. Grows BY <1>1 DEF Grows
<1>4. ASSUME NEW p \in AccessCalls PROVE AccessHolds(access[p])'
  <2>1. AccessHolds(access'[p]) BY <1>1 DEF GroundInv
  <2>. QED BY <2>1, <1>3, HoldsStays
<1>5. RolesDescendFromOperator' BY <1>1 DEF GroundInv, RightsHaveGround, RolesDescendFromOperator
<1>6. FoldersOfParties' BY <1>1, <1>3, FoldersStay DEF GroundInv, RightsHaveGround
<1>. QED BY <1>1, <1>2, <1>4, <1>5, <1>6 DEF GroundInv, RightsHaveGround

\* The admin routes, promote-admin and the presign route together: an admin was
\* promoted by the operator, other roles were granted by such an admin, and nobody
\* is given an upload URL into a report that existed without having been a party
\* to it, a supervisor or an admin, whatever changed between check and answer.
THEOREM Grounded == AccessSpec => []RightsHaveGround
<1>1. AccessInit => GroundInv
  <2>. SUFFICES ASSUME AccessInit PROVE GroundInv OBVIOUS
  <2>1. AccessTypeOK BY DEF AccessInit, AccessTypeOK
  <2>2. \A q \in AccessCalls : AccessHolds(access[q]) BY WaitingHolds DEF AccessInit
  <2>3. \A f \in Folders : folderOf[f] = NoReportYet BY DEF AccessInit
  <2>4. RightsHaveGround
    BY DEF AccessInit, RightsHaveGround, RolesDescendFromOperator, FoldersOfParties
  <2>5. NoReportYet \notin Parties BY AccessAssumption DEF Parties
  <2>. QED BY <2>1, <2>2, <2>3, <2>4, <2>5 DEF GroundInv
<1>2. GroundInv /\ [AccessNext]_accessVars => GroundInv'
  BY GrantKeeps, FindKeeps, UpsertKeeps, PromoteKeeps, PresignKeeps, CheckKeeps, MintKeeps,
     FolderKeeps, AccessOthersKeep DEF AccessNext
<1>3. GroundInv => RightsHaveGround BY DEF GroundInv
<1>. QED BY <1>1, <1>2, <1>3, PTL DEF AccessSpec

-----------------------------------------------------------------------------
(* GeoV2: the loop of resolveLocation answers a nearest landmark *)

GeoTypeOK ==
  /\ landmark \in [Landmarks -> [q : Quarters, radius : Radii]]
  /\ found \in Seq(Landmarks)
  /\ next \in Nat /\ next <= Len(found) + 1
  /\ best \in Best \cup {NotConfigured}

\* Nothing is kept before the loop has begun.
BestComesFirst == next = 0 => best = NotConfigured

GeoInv == GeoTypeOK /\ BestComesFirst /\ NearestWhenRounded

LEMMA RoundIsNat == ASSUME NEW a \in Nat PROVE Round(a) \in Nat
BY DEF Round

\* What the comparison with the rounded best decides: a distance that is smaller
\* than the best's whole metres rounds to no more, another one to no less; and
\* whole metres are within half a metre of what they are rounded from.
LEMMA RoundedComparison ==
  ASSUME NEW a \in Nat, NEW k \in Nat
  PROVE  (a < 4 * k => Round(a) <= k) /\ (~(a < 4 * k) => k <= Round(a))
BY DEF Round

LEMMA RoundedNearby ==
  ASSUME NEW a \in Nat, NEW b \in Nat, NEW k \in Nat
  PROVE  /\ b < 4 * k /\ k <= Round(a) => b < a + HalfMetre
         /\ ~(a < 4 * k) /\ k = Round(b) => b < a + HalfMetre
BY DEF Round, HalfMetre

\* InRadius, with the smaller of the two limits, is what Eligible asks for.
LEMMA InRadiusIsEligible ==
  ASSUME NEW l \in Landmarks, landmark \in [Landmarks -> [q : Quarters, radius : Radii]]
  PROVE  InRadius(landmark[l]) <=> Eligible(l)
<1>1. landmark[l].q \in Nat /\ landmark[l].radius \in Nat BY GeoAssumption
<1>. QED BY <1>1 DEF InRadius, Eligible, MaxAssociationM

LEMMA BestIsConfigured == ASSUME NEW b \in Best PROVE b # NotConfigured
BY GeoAssumption DEF Best

LEMMA ReadPlaceKeeps == ASSUME GeoInv, ReadPlace PROVE GeoInv'
<1>1. found' \in Seq(Landmarks)
  <2>1. Cardinality(Landmarks) \in Nat BY GeoAssumption, FS_CardinalityType
  <2>2. found' \in [1..Cardinality(Landmarks) -> Landmarks] BY DEF ReadPlace, SetToSeqs
  <2>. QED BY <2>1, <2>2
<1>2. next' = 1 /\ landmark' = landmark /\ best' = best /\ next = 0 BY DEF ReadPlace
<1>3. Considered' = {} BY <1>2 DEF Considered
<1>4. best' = NotConfigured BY <1>2 DEF GeoInv, BestComesFirst
<1>5. NearestWhenRounded' BY <1>3, <1>4 DEF NearestWhenRounded
<1>6. GeoTypeOK' BY <1>1, <1>2 DEF GeoInv, GeoTypeOK
<1>. QED BY <1>2, <1>5, <1>6 DEF GeoInv, BestComesFirst

\* The loop's step: the landmark considered is kept, or the best so far is.
LEMMA ConsiderKeeps == ASSUME GeoInv, Consider PROVE GeoInv'
<1>. DEFINE l == found[next]
            nearer == InRadius(landmark[l]) /\ CloserThan(best, landmark[l])
            M(x) == Round(landmark[x].q)
<1>1. /\ next \in 1..Len(found) /\ next' = next + 1 /\ l \in Landmarks
      /\ landmark' = landmark /\ found' = found
  BY DEF Consider, GeoInv, GeoTypeOK
<1>2. Considered' = Considered \cup {l} /\ Considered' \subseteq Landmarks
  BY <1>1 DEF Considered, GeoInv, GeoTypeOK
<1>3. landmark \in [Landmarks -> [q : Quarters, radius : Radii]] BY DEF GeoInv, GeoTypeOK
<1>4. \A x \in Landmarks : landmark[x].q \in Nat /\ M(x) \in Nat
  BY <1>3, GeoAssumption, RoundIsNat
<1>5. InRadius(landmark[l]) <=> Eligible(l) BY <1>1, <1>3, InRadiusIsEligible
<1>6. \A x \in Landmarks : Eligible(x)' <=> Eligible(x) BY <1>1 DEF Eligible
<1>7. best' = IF nearer THEN [id |-> l, distanceM |-> M(l)] ELSE best BY DEF Consider
<1>8. next > 0 /\ NearestWhenRounded BY <1>1 DEF GeoInv
<1>9. CASE nearer
  <2>1. best' = [id |-> l, distanceM |-> M(l)] /\ best' \in Best
    BY <1>1, <1>4, <1>7, <1>9 DEF Best
  <2>2. \A x \in Considered : Eligible(x) => M(l) <= M(x) /\ landmark[l].q < landmark[x].q + HalfMetre
    <3>1. CASE best = NotConfigured BY <3>1, <1>8 DEF NearestWhenRounded
    <3>2. CASE best # NotConfigured
      <4>1. best \in Best BY <3>2 DEF GeoInv, GeoTypeOK
      <4>2. best.distanceM \in Nat BY <4>1 DEF Best
      <4>3. landmark[l].q < 4 * best.distanceM BY <1>9, <3>2 DEF CloserThan
      <4>4. M(l) <= best.distanceM BY <4>2, <4>3, <1>1, <1>4, RoundedComparison
      <4>5. \A x \in Considered : Eligible(x) => best.distanceM <= M(x)
        BY <3>2, <1>8 DEF NearestWhenRounded
      <4>6. \A x \in Considered : M(x) \in Nat BY <1>2, <1>4
      <4>7. \A x \in Considered : Eligible(x) => M(l) <= M(x) BY <4>2, <4>4, <4>5, <4>6, <1>1, <1>4
      <4>8. ASSUME NEW x \in Considered, Eligible(x) PROVE landmark[l].q < landmark[x].q + HalfMetre
        BY <4>2, <4>3, <4>5, <4>8, <1>1, <1>2, <1>4, RoundedNearby
      <4>. QED BY <4>7, <4>8
    <3>. QED BY <3>1, <3>2
  <2>3. Eligible(l) BY <1>5, <1>9
  <2>4. best' # NotConfigured BY <2>1, BestIsConfigured
  <2>5. NearestWhenRounded'
    <3>1. best'.id = l /\ best'.distanceM = M(l) BY <2>1
    <3>2. M(l) <= M(l) /\ landmark[l].q < landmark[l].q + HalfMetre BY <1>1, <1>4 DEF HalfMetre
    <3>3. \A x \in Considered' : Eligible(x) => M(l) <= M(x) /\ landmark[l].q < landmark[x].q + HalfMetre
      BY <1>2, <2>2, <3>2
    <3>. QED BY <1>1, <1>2, <1>6, <2>3, <2>4, <3>1, <3>3 DEF NearestWhenRounded
  <2>. QED BY <1>1, <1>3, <2>1, <2>5 DEF GeoInv, GeoTypeOK, BestComesFirst
<1>10. CASE ~nearer
  <2>1. best' = best BY <1>7, <1>10
  <2>2. CASE best = NotConfigured
    <3>1. ~Eligible(l) BY <1>5, <1>10, <2>2 DEF CloserThan
    <3>2. \A x \in Considered : ~Eligible(x) BY <2>2, <1>8 DEF NearestWhenRounded
    <3>3. NearestWhenRounded' BY <1>2, <1>6, <2>1, <2>2, <3>1, <3>2 DEF NearestWhenRounded
    <3>. QED BY <1>1, <1>3, <2>1, <3>3 DEF GeoInv, GeoTypeOK, BestComesFirst
  <2>3. CASE best # NotConfigured
    <3>1. best \in Best BY <2>3 DEF GeoInv, GeoTypeOK
    <3>2. best.distanceM \in Nat /\ best.id \in Landmarks BY <3>1 DEF Best
    <3>3. /\ best.id \in Considered /\ Eligible(best.id) /\ best.distanceM = M(best.id)
          /\ \A x \in Considered : Eligible(x) =>
               best.distanceM <= M(x) /\ landmark[best.id].q < landmark[x].q + HalfMetre
      BY <2>3, <1>8 DEF NearestWhenRounded
    <3>4. Eligible(l) => best.distanceM <= M(l) /\ landmark[best.id].q < landmark[l].q + HalfMetre
      <4>1. SUFFICES ASSUME Eligible(l)
                     PROVE  best.distanceM <= M(l) /\ landmark[best.id].q < landmark[l].q + HalfMetre
        OBVIOUS
      <4>2. ~(landmark[l].q < 4 * best.distanceM) BY <4>1, <1>5, <1>10 DEF CloserThan
      <4>3. best.distanceM <= M(l) BY <4>2, <3>2, <1>1, <1>4, RoundedComparison
      <4>4. landmark[best.id].q < landmark[l].q + HalfMetre
        BY <4>2, <3>2, <3>3, <1>1, <1>4, RoundedNearby
      <4>. QED BY <4>3, <4>4
    <3>5. \A x \in Considered' : Eligible(x) =>
            best.distanceM <= M(x) /\ landmark[best.id].q < landmark[x].q + HalfMetre
      BY <1>2, <3>3, <3>4
    <3>6. NearestWhenRounded'
      BY <1>1, <1>2, <1>6, <2>1, <2>3, <3>2, <3>3, <3>5 DEF NearestWhenRounded
    <3>. QED BY <1>1, <1>3, <2>1, <3>6 DEF GeoInv, GeoTypeOK, BestComesFirst
  <2>. QED BY <2>2, <2>3
<1>. QED BY <1>9, <1>10

LEMMA SuggestKeeps == ASSUME GeoInv, Suggest \/ UNCHANGED geoVars PROVE GeoInv'
BY DEF GeoInv, GeoTypeOK, NearestWhenRounded, BestComesFirst, Considered, Eligible, Suggest, geoVars

\* resolveLocation (geo.service.ts:112-123): although the running best is compared by
\* its rounded distance, the answer is in its radius, no landmark in reach is nearer by
\* half a metre or rounds to fewer metres, and there is an answer exactly when a landmark is in reach.
THEOREM Nearest == GeoSpec => []NearestWhenRounded
<1>1. GeoInit => GeoInv
  BY DEF GeoInit, GeoInv, GeoTypeOK, NearestWhenRounded, BestComesFirst
<1>2. GeoInv /\ [GeoNext]_geoVars => GeoInv'
  BY ReadPlaceKeeps, ConsiderKeeps, SuggestKeeps DEF GeoNext
<1>3. GeoInv => NearestWhenRounded BY DEF GeoInv
<1>. QED BY <1>1, <1>2, <1>3, PTL DEF GeoSpec

-----------------------------------------------------------------------------
(* GeoV2: the ray is cast as the fan is counted *)

\* Induction over a set of numbers, by its least gap.
LEMMA LeastExists ==
  ASSUME NEW T \in SUBSET Nat, T # {}
  PROVE  \E x \in T : \A y \in T : x <= y
<1>1. IsWellFoundedOn(OpToRel(<, Nat), Nat)
  BY NatLessThanWellFounded
<1>2. PICK x \in T : \A y \in T : <<y, x>> \notin OpToRel(<, Nat)
  BY <1>1, WFMin
<1>3. \A y \in T : ~(y < x)
  BY <1>2 DEF OpToRel
<1> QED
  BY <1>3

LEMMA Inductive ==
  ASSUME NEW S, 0 \in S, \A n \in Nat : n \in S => n + 1 \in S
  PROVE  \A n \in Nat : n \in S
<1> DEFINE T == Nat \ S
<1> SUFFICES ASSUME T # {} PROVE FALSE
  OBVIOUS
<1>1. PICK x \in T : \A y \in T : x <= y
  BY LeastExists
<1>2. x \in Nat /\ x # 0 /\ x \notin S
  OBVIOUS
<1>3. x - 1 \in Nat /\ x - 1 \in S
  BY <1>1, <1>2
<1> QED
  BY <1>2, <1>3

\* How many of the first n numbers a function marks.
Marked(x, n) == Cardinality({j \in 1..n : x[j]})

LEMMA MarkedSteps ==
  ASSUME NEW x, NEW n \in Nat
  PROVE  /\ Marked(x, 0) = 0 /\ Marked(x, n) \in Nat
         /\ Marked(x, n + 1) = Marked(x, n) + (IF x[n + 1] THEN 1 ELSE 0)
<1> DEFINE S(k) == {j \in 1..k : x[j]}
<1>1. Marked(x, 0) = 0
  <2>1. S(0) = {}
    OBVIOUS
  <2> QED
    BY <2>1, FS_EmptySet DEF Marked
<1>2. IsFiniteSet(S(n)) /\ Cardinality(S(n)) \in Nat
  <2>1. IsFiniteSet(1..n) /\ S(n) \in SUBSET (1..n)
    BY FS_Interval
  <2> QED
    BY <2>1, FS_Subset, FS_CardinalityType
<1>3. CASE x[n + 1]
  <2>1. S(n + 1) = S(n) \cup {n + 1} /\ n + 1 \notin S(n)
    BY <1>3
  <2> HIDE DEF S
  <2>2. Cardinality(S(n + 1)) = Cardinality(S(n)) + 1
    BY <1>2, <2>1, FS_AddElement
  <2> QED
    BY <1>1, <1>2, <1>3, <2>2 DEF Marked, S
<1>4. CASE ~x[n + 1]
  <2>1. S(n + 1) = S(n)
    BY <1>4
  <2> QED
    BY <1>1, <1>2, <1>4, <2>1 DEF Marked
<1> QED
  BY <1>3, <1>4

\* The recursive function exists: it tells whether the edges crossed are odd.
LEMMA TogglesExist ==
  ASSUME NEW N \in Nat, NEW x \in [1..N -> BOOLEAN]
  PROVE  \E h \in [0..N -> BOOLEAN] :
           /\ h[0] = FALSE
           /\ \A i \in 1..N : h[i] = (h[i - 1] # x[i])
<1> DEFINE h == [i \in 0..N |-> Marked(x, i) % 2 = 1]
<1>1. h \in [0..N -> BOOLEAN] /\ h[0] = FALSE
  <2>1. h \in [0..N -> BOOLEAN]
    OBVIOUS
  <2>2. h[0] = (Marked(x, 0) % 2 = 1) /\ Marked(x, 0) = 0
    BY MarkedSteps
  <2>3. ~(0 % 2 = 1)
    OBVIOUS
  <2> QED
    BY <2>1, <2>2, <2>3
<1>2. ASSUME NEW i \in 1..N PROVE h[i] = (h[i - 1] # x[i])
  <2>1. PICK n \in Nat : n = i - 1 /\ i = n + 1
    OBVIOUS
  <2>2. PICK m \in Nat : m = Marked(x, n)
    BY MarkedSteps
  <2>3. Marked(x, i) = m + (IF x[i] THEN 1 ELSE 0)
    BY <2>1, <2>2, MarkedSteps
  <2>4. x[i] \in BOOLEAN /\ h[i] \in BOOLEAN /\ h[i - 1] \in BOOLEAN
    <3>1. i \in 0..N /\ n \in 0..N
      BY <2>1
    <3> HIDE DEF h
    <3>2. h[i] \in BOOLEAN /\ h[n] \in BOOLEAN /\ x[i] \in BOOLEAN
      BY <1>1, <3>1
    <3> QED
      BY <2>1, <3>2
  <2>5. (h[i] <=> Marked(x, i) % 2 = 1) /\ (h[i - 1] <=> m % 2 = 1)
    <3>1. i \in 0..N /\ n \in 0..N
      BY <2>1
    <3>2. h[i] = (Marked(x, i) % 2 = 1)
      BY <3>1
    <3>3. h[n] = (Marked(x, n) % 2 = 1)
      BY <3>1
    <3> HIDE DEF h
    <3> QED
      BY <2>1, <2>2, <3>2, <3>3
  <2>6. (m + 1) % 2 = 1 <=> ~(m % 2 = 1)
    OBVIOUS
  <2>7. x[i] => Marked(x, i) = m + 1
    BY <2>3
  <2>8. ~x[i] => Marked(x, i) = m
    BY <2>3
  <2> HIDE DEF h
  <2>9. h[i] <=> ~(h[i - 1] <=> x[i])
    BY <2>4, <2>5, <2>6, <2>7, <2>8
  <2> QED
    BY <2>4, <2>9
<1> HIDE DEF h
<1> QED
  BY <1>1, <1>2

\* The hits of the loop of pointInRing, vertex by vertex.
HitsOf(h, p, ring) ==
  h = [i \in 0..Len(ring) |->
         IF i = 0 THEN FALSE
         ELSE h[i - 1] # Crosses(p, ring[i], ring[IF i = 1 THEN Len(ring) ELSE i - 1])]

LEMMA SomeHits ==
  ASSUME NEW p, NEW ring, NEW h0, HitsOf(h0, p, ring)
  PROVE  \E h : HitsOf(h, p, ring) /\ (PointInRing(p, ring) <=> Len(ring) >= 3 /\ h[Len(ring)])
BY Zenon DEF PointInRing, HitsOf

LEMMA HitsExist ==
  ASSUME NEW p, NEW ring \in Seq(Int \X Int)
  PROVE  \E h : HitsOf(h, p, ring)
<1> DEFINE x == [i \in 1..Len(ring) |-> Crosses(p, ring[i], ring[IF i = 1 THEN Len(ring) ELSE i - 1])]
<1>1. x \in [1..Len(ring) -> BOOLEAN]
  BY DEF Crosses
<1>2. PICK h0 \in [0..Len(ring) -> BOOLEAN] :
         /\ h0[0] = FALSE
         /\ \A i \in 1..Len(ring) : h0[i] = (h0[i - 1] # x[i])
  <2> HIDE DEF x
  <2>1. PICK N \in Nat : N = Len(ring)
    OBVIOUS
  <2>2. x \in [1..N -> BOOLEAN]
    BY <1>1, <2>1
  <2>3. \E h \in [0..N -> BOOLEAN] : h[0] = FALSE /\ \A i \in 1..N : h[i] = (h[i - 1] # x[i])
    BY <2>2, TogglesExist
  <2> QED
    BY <2>1, <2>3
<1>3. HitsOf(h0, p, ring)
  <2>1. ASSUME NEW i \in 0..Len(ring)
        PROVE  h0[i] = IF i = 0 THEN FALSE
                       ELSE h0[i - 1] # Crosses(p, ring[i], ring[IF i = 1 THEN Len(ring) ELSE i - 1])
    <3>1. CASE i = 0
      BY <1>2, <3>1
    <3>2. CASE i # 0
      <4>1. i \in 1..Len(ring)
        BY <3>2
      <4>2. x[i] = Crosses(p, ring[i], ring[IF i = 1 THEN Len(ring) ELSE i - 1])
        BY <4>1
      <4> HIDE DEF x
      <4> QED
        BY <1>2, <3>2, <4>1, <4>2
    <3> QED
      BY <3>1, <3>2
  <2>2. h0 = [i \in 0..Len(ring) |-> h0[i]]
    BY <1>2
  <2> QED
    BY <2>1, <2>2, Zenon DEF HitsOf
<1> QED
  BY <1>3

\* What the loop computes, step by step: the parity of the edges crossed so far.
LEMMA HitSteps ==
  ASSUME NEW p, NEW ring \in Seq(Int \X Int)
  PROVE  \E h \in [0..Len(ring) -> BOOLEAN] :
           /\ h[0] = FALSE
           /\ \A i \in 1..Len(ring) :
                h[i] <=> ~(h[i - 1] <=> Crosses(p, ring[i], ring[IF i = 1 THEN Len(ring) ELSE i - 1]))
           /\ PointInRing(p, ring) <=> Len(ring) >= 3 /\ h[Len(ring)]
<1>1. PICK h : HitsOf(h, p, ring) /\ (PointInRing(p, ring) <=> Len(ring) >= 3 /\ h[Len(ring)])
  BY HitsExist, SomeHits
<1>2. h = [i \in 0..Len(ring) |->
         IF i = 0 THEN FALSE
         ELSE h[i - 1] # Crosses(p, ring[i], ring[IF i = 1 THEN Len(ring) ELSE i - 1])]
  BY <1>1 DEF HitsOf
<1>3. h \in [0..Len(ring) -> BOOLEAN]
  BY <1>2, Zenon
<1>4. h[0] = FALSE
  BY <1>2
<1>5. ASSUME NEW i \in 1..Len(ring)
      PROVE  h[i] <=> ~(h[i - 1] <=> Crosses(p, ring[i], ring[IF i = 1 THEN Len(ring) ELSE i - 1]))
  <2>1. i \in 0..Len(ring) /\ i - 1 \in 0..Len(ring) /\ i # 0
    OBVIOUS
  <2>2. h[i - 1] \in BOOLEAN
    BY <1>3, <2>1
  <2>3. h[i] = (h[i - 1] # Crosses(p, ring[i], ring[IF i = 1 THEN Len(ring) ELSE i - 1]))
    BY <1>2, <2>1, Zenon
  <2>4. Crosses(p, ring[i], ring[IF i = 1 THEN Len(ring) ELSE i - 1]) \in BOOLEAN
    BY DEF Crosses
  <2> QED
    BY <2>2, <2>3, <2>4, Zenon
<1> QED
  BY <1>1, <1>3, <1>4, <1>5, Zenon

-----------------------------------------------------------------------------
(* The turns of a triangle and the edges of it that the ray meets *)

LEMMA TurnsBalance ==
  ASSUME NEW a \in Int \X Int, NEW b \in Int \X Int, NEW c \in Int \X Int, NEW p \in Int \X Int
  PROVE  /\ Turn(a, b, p) \in Int /\ Turn(b, a, p) = -Turn(a, b, p)
         /\ Turn(a, b, p) * (c[2] - p[2]) + Turn(b, c, p) * (a[2] - p[2])
              + Turn(c, a, p) * (b[2] - p[2]) = 0
<1>1. a[1] \in Int /\ a[2] \in Int /\ b[1] \in Int /\ b[2] \in Int
      /\ c[1] \in Int /\ c[2] \in Int /\ p[1] \in Int /\ p[2] \in Int
  OBVIOUS
<1>2. Turn(a, b, p) \in Int
  BY <1>1 DEF Turn
<1>3. Turn(b, a, p) = -Turn(a, b, p)
  BY <1>1 DEF Turn
<1>4. Turn(a, b, p) * (c[2] - p[2]) + Turn(b, c, p) * (a[2] - p[2])
              + Turn(c, a, p) * (b[2] - p[2]) = 0
  BY <1>1 DEF Turn
<1> QED
  BY <1>2, <1>3, <1>4

\* The quotient of the code, by the side of the edge the point is on.
LEMMA CrossesIs ==
  ASSUME NEW p \in Int \X Int, NEW a \in Int \X Int, NEW b \in Int \X Int
  PROVE  /\ Crosses(p, a, b) <=>
              \/ a[2] <= p[2] /\ b[2] > p[2] /\ Turn(a, b, p) > 0
              \/ b[2] <= p[2] /\ a[2] > p[2] /\ Turn(a, b, p) < 0
         /\ Crosses(p, a, b) <=> Crosses(p, b, a)
         /\ Crosses(p, a, b) \in BOOLEAN
<1>1. ASSUME NEW c \in Int \X Int, NEW d \in Int \X Int
      PROVE  Crosses(p, c, d) <=>
              \/ c[2] <= p[2] /\ d[2] > p[2] /\ Turn(c, d, p) > 0
              \/ d[2] <= p[2] /\ c[2] > p[2] /\ Turn(c, d, p) < 0
  <2>1. c[1] \in Int /\ c[2] \in Int /\ d[1] \in Int /\ d[2] \in Int /\ p[1] \in Int /\ p[2] \in Int
    OBVIOUS
  <2>2. PICK run \in Int, off \in Int :
          run = (d[1] - c[1]) * (p[2] - c[2]) /\ off = (p[1] - c[1]) * (d[2] - c[2])
    BY <2>1
  <2>3. Turn(c, d, p) = run - off
    BY <2>1, <2>2 DEF Turn
  <2>4. Crosses(p, c, d) <=> /\ (c[2] > p[2]) # (d[2] > p[2])
                             /\ IF d[2] > c[2] THEN off < run ELSE off > run
    BY <2>2 DEF Crosses
  <2> QED
    BY <2>1, <2>2, <2>3, <2>4
<1>2. Turn(b, a, p) = -Turn(a, b, p) /\ Turn(a, b, p) \in Int
  BY TurnsBalance
<1>3. a[2] \in Int /\ b[2] \in Int /\ p[2] \in Int
  OBVIOUS
<1>4. Crosses(p, a, b) <=> Crosses(p, b, a)
  BY <1>1, <1>2, <1>3
<1>5. Crosses(p, a, b) \in BOOLEAN
  BY DEF Crosses
<1> QED
  BY <1>1, <1>4, <1>5

\* An edge up or down from height u to height v, turning by t.
Meets(u, v, t) == (u <= 0 /\ v > 0 /\ t > 0) \/ (v <= 0 /\ u > 0 /\ t < 0)

LEMMA ProductSigns ==
  ASSUME NEW t \in Int, NEW u \in Int, t # 0
  PROVE  /\ t * u \in Int /\ (u = 0 => t * u = 0)
         /\ (t > 0 /\ u > 0 => t * u > 0) /\ (t > 0 /\ u < 0 => t * u < 0)
         /\ (t < 0 /\ u > 0 => t * u < 0) /\ (t < 0 /\ u < 0 => t * u > 0)
<1>1. t * u \in Int /\ (u = 0 => t * u = 0)
  OBVIOUS
<1>2. t > 0 /\ u > 0 => t * u > 0
  OBVIOUS
<1>3. t > 0 /\ u < 0 => t * u < 0
  OBVIOUS
<1>4. t < 0 /\ u > 0 => t * u < 0
  OBVIOUS
<1>5. t < 0 /\ u < 0 => t * u > 0
  OBVIOUS
<1> QED
  BY <1>1, <1>2, <1>3, <1>4, <1>5

\* Three edges that close meet the ray an odd number of times exactly when all
\* turn the same way.
LEMMA SignsClose ==
  ASSUME NEW r \in Int, NEW s \in Int, NEW t \in Int, NEW u \in Int, NEW v \in Int, NEW w \in Int,
         r # 0, s # 0, t # 0, r * w + s * u + t * v = 0, ~(u = 0 /\ v = 0)
  PROVE  ((r > 0 /\ s > 0 /\ t > 0) \/ (r < 0 /\ s < 0 /\ t < 0))
           <=> ~(Meets(u, v, r) <=> ~(Meets(v, w, s) <=> Meets(w, u, t)))
<1>1. PICK rw \in Int : /\ rw = r * w /\ (w = 0 => rw = 0)
                        /\ (r > 0 /\ w > 0 => rw > 0) /\ (r > 0 /\ w < 0 => rw < 0)
                        /\ (r < 0 /\ w > 0 => rw < 0) /\ (r < 0 /\ w < 0 => rw > 0)
  BY ProductSigns
<1>2. PICK su \in Int : /\ su = s * u /\ (u = 0 => su = 0)
                        /\ (s > 0 /\ u > 0 => su > 0) /\ (s > 0 /\ u < 0 => su < 0)
                        /\ (s < 0 /\ u > 0 => su < 0) /\ (s < 0 /\ u < 0 => su > 0)
  BY ProductSigns
<1>3. PICK tv \in Int : /\ tv = t * v /\ (v = 0 => tv = 0)
                        /\ (t > 0 /\ v > 0 => tv > 0) /\ (t > 0 /\ v < 0 => tv < 0)
                        /\ (t < 0 /\ v > 0 => tv < 0) /\ (t < 0 /\ v < 0 => tv > 0)
  BY ProductSigns
<1>4. rw + su + tv = 0
  BY <1>1, <1>2, <1>3
<1>5. CASE u > 0 /\ v > 0
  BY <1>1, <1>2, <1>3, <1>4, <1>5 DEF Meets
<1>6. CASE u > 0 /\ v <= 0
  BY <1>1, <1>2, <1>3, <1>4, <1>6 DEF Meets
<1>7. CASE u <= 0 /\ v > 0
  BY <1>1, <1>2, <1>3, <1>4, <1>7 DEF Meets
<1>8. CASE u <= 0 /\ v <= 0
  BY <1>1, <1>2, <1>3, <1>4, <1>8 DEF Meets
<1> QED
  BY <1>5, <1>6, <1>7, <1>8

LEMMA TurnOfNone ==
  ASSUME NEW d \in Int \X Int, NEW p \in Int \X Int
  PROVE  Turn(d, d, p) = 0
<1>1. d[1] - d[1] = 0 /\ d[2] - d[2] = 0 /\ p[1] - d[1] \in Int /\ p[2] - d[2] \in Int
  OBVIOUS
<1> QED
  BY <1>1 DEF Turn

\* A triangle holds the point when the ray meets its edges an odd number of times.
LEMMA TriangleByRay ==
  ASSUME NEW p \in Int \X Int, NEW a \in Int \X Int, NEW b \in Int \X Int, NEW c \in Int \X Int,
         a # b => Turn(a, b, p) # 0, b # c => Turn(b, c, p) # 0, c # a => Turn(c, a, p) # 0
  PROVE  StrictlyIn(p, a, b, c)
           <=> ~(Crosses(p, a, b) <=> ~(Crosses(p, b, c) <=> Crosses(p, c, a)))
<1>1. \A d \in Int \X Int : Turn(d, d, p) = 0
  BY TurnOfNone
<1>2. \A d \in Int \X Int : ~Crosses(p, d, d)
  BY DEF Crosses
<1>3. CASE a = b
  <2>1. ~StrictlyIn(p, a, b, c)
    BY <1>1, <1>3 DEF StrictlyIn
  <2>2. Crosses(p, b, c) <=> Crosses(p, c, a)
    BY <1>3, CrossesIs
  <2> QED
    BY <1>2, <1>3, <2>1, <2>2
<1>4. CASE b = c
  <2>1. ~StrictlyIn(p, a, b, c)
    BY <1>1, <1>4 DEF StrictlyIn
  <2>2. Crosses(p, a, b) <=> Crosses(p, c, a)
    BY <1>4, CrossesIs
  <2> QED
    BY <1>2, <1>4, <2>1, <2>2
<1>5. CASE c = a
  <2>1. ~StrictlyIn(p, a, b, c)
    BY <1>1, <1>5 DEF StrictlyIn
  <2>2. Crosses(p, a, b) <=> Crosses(p, b, c)
    BY <1>5, CrossesIs
  <2> QED
    BY <1>2, <1>5, <2>1, <2>2
<1>6. CASE a # b /\ b # c /\ c # a
  <2>1. PICK r \in Int : r = Turn(a, b, p) /\ r # 0
    BY <1>6, TurnsBalance
  <2>2. PICK s \in Int : s = Turn(b, c, p) /\ s # 0
    BY <1>6, TurnsBalance
  <2>3. PICK t \in Int : t = Turn(c, a, p) /\ t # 0
    BY <1>6, TurnsBalance
  <2>4. PICK u \in Int, v \in Int, w \in Int :
          u = a[2] - p[2] /\ v = b[2] - p[2] /\ w = c[2] - p[2]
    OBVIOUS
  <2>5. r * w + s * u + t * v = 0
    BY <2>1, <2>2, <2>3, <2>4, TurnsBalance
  <2>6. ~(u = 0 /\ v = 0)
    <3> SUFFICES ASSUME u = 0, v = 0 PROVE FALSE
      OBVIOUS
    <3>1. p[2] - a[2] = 0 /\ b[2] - a[2] = 0 /\ b[1] - a[1] \in Int /\ p[1] - a[1] \in Int
      BY <2>4
    <3>2. Turn(a, b, p) = 0
      BY <3>1 DEF Turn
    <3> QED
      BY <2>1, <3>2
  <2>7. a[2] \in Int /\ b[2] \in Int /\ c[2] \in Int /\ p[2] \in Int
    OBVIOUS
  <2>8. Crosses(p, a, b) <=> Meets(u, v, r)
    BY <2>1, <2>4, <2>7, CrossesIs DEF Meets
  <2>9. Crosses(p, b, c) <=> Meets(v, w, s)
    BY <2>2, <2>4, <2>7, CrossesIs DEF Meets
  <2>10. Crosses(p, c, a) <=> Meets(w, u, t)
    BY <2>3, <2>4, <2>7, CrossesIs DEF Meets
  <2>11. StrictlyIn(p, a, b, c) <=>
          ((r > 0 /\ s > 0 /\ t > 0) \/ (r < 0 /\ s < 0 /\ t < 0))
    BY <2>1, <2>2, <2>3 DEF StrictlyIn
  <2>12. ((r > 0 /\ s > 0 /\ t > 0) \/ (r < 0 /\ s < 0 /\ t < 0))
           <=> ~(Meets(u, v, r) <=> ~(Meets(v, w, s) <=> Meets(w, u, t)))
    BY <2>1, <2>2, <2>3, <2>5, <2>6, SignsClose
  <2> QED
    BY <2>8, <2>9, <2>10, <2>11, <2>12
<1> QED
  BY <1>3, <1>4, <1>5, <1>6

\* Walking round the ring, the edges met so far and the diagonal back to the
\* first vertex are odd together when the triangles passed that hold the point
\* are: e tells the edges met, d the diagonals met, x the triangles.
Walk(n, h, e, d, x) ==
  /\ n \in Nat /\ n >= 1
  /\ h \in [0..n -> BOOLEAN] /\ e \in [1..n -> BOOLEAN]
  /\ d \in [1..n -> BOOLEAN] /\ x \in [1..n -> BOOLEAN]
  /\ h[0] = FALSE /\ \A i \in 1..n : h[i] <=> ~(h[i - 1] <=> e[i])
  /\ e[1] <=> d[n]
  /\ d[1] = FALSE
  /\ \A i \in 1..(n - 1) : x[i] <=> ~(d[i] <=> ~(e[i + 1] <=> d[i + 1]))

LEMMA FanWalk ==
  ASSUME NEW n, NEW h, NEW e, NEW d, NEW x, Walk(n, h, e, d, x)
  PROVE  h[n] <=> Marked(x, n - 1) % 2 = 1
<1>0. /\ n \in Nat /\ n >= 1
      /\ h \in [0..n -> BOOLEAN] /\ e \in [1..n -> BOOLEAN]
      /\ d \in [1..n -> BOOLEAN] /\ x \in [1..n -> BOOLEAN]
      /\ h[0] = FALSE /\ \A i \in 1..n : h[i] <=> ~(h[i - 1] <=> e[i])
      /\ e[1] <=> d[n]
      /\ d[1] = FALSE
      /\ \A i \in 1..(n - 1) : x[i] <=> ~(d[i] <=> ~(e[i + 1] <=> d[i + 1]))
  BY DEF Walk
<1> USE <1>0
<1> DEFINE Claim(m) == Marked(x, m) % 2 = 1 <=> ~(~(h[m + 1] <=> d[n]) <=> d[m + 1])
           S == {m \in Nat : m + 1 <= n => Claim(m)}
<1>1. 0 \in S
  <2>1. Marked(x, 0) = 0 /\ ~(0 % 2 = 1)
    BY MarkedSteps
  <2>2. 1 \in 1..n /\ n \in 1..n /\ 0 + 1 = 1 /\ 1 - 1 = 0
    OBVIOUS
  <2>3. h[1] <=> e[1]
    <3>1. h[1] <=> ~(h[0] <=> e[1])
      BY <2>2
    <3>2. h[1] \in BOOLEAN /\ e[1] \in BOOLEAN
      BY <2>2
    <3> QED
      BY <3>1, <3>2
  <2>4. h[1] \in BOOLEAN /\ d[n] \in BOOLEAN /\ e[1] \in BOOLEAN
    BY <2>2
  <2>5. ~(~(h[0 + 1] <=> d[n]) <=> d[0 + 1]) <=> FALSE
    BY <2>2, <2>3, <2>4
  <2>6. Claim(0)
    BY <2>1, <2>5
  <2> QED
    BY <2>6
<1>2. ASSUME NEW m \in Nat, m \in S PROVE m + 1 \in S
  <2> SUFFICES ASSUME (m + 1) + 1 <= n PROVE Claim(m + 1)
    OBVIOUS
  <2>1. m + 1 \in 1..n /\ (m + 1) + 1 \in 1..n /\ m + 1 \in 1..(n - 1) /\ n \in 1..n
        /\ m + 1 \in 0..n /\ (m + 1) + 1 \in 0..n /\ ((m + 1) + 1) - 1 = m + 1 /\ m + 1 <= n
    OBVIOUS
  <2>2. Claim(m)
    BY <1>2, <2>1
  <2>3. PICK k \in Nat : k = Marked(x, m)
    BY MarkedSteps
  <2>4. Marked(x, m + 1) = k + (IF x[m + 1] THEN 1 ELSE 0)
    BY <2>3, MarkedSteps
  <2>5. (k + 1) % 2 = 1 <=> ~(k % 2 = 1)
    OBVIOUS
  <2>6. x[m + 1] => Marked(x, m + 1) = k + 1
    BY <2>4
  <2>7. ~x[m + 1] => Marked(x, m + 1) = k
    BY <2>4
  <2>8. Marked(x, m + 1) % 2 = 1 <=> ~(Marked(x, m) % 2 = 1 <=> x[m + 1])
    BY <2>3, <2>5, <2>6, <2>7
  <2>9. /\ h[m + 1] \in BOOLEAN /\ h[(m + 1) + 1] \in BOOLEAN /\ d[m + 1] \in BOOLEAN
        /\ d[(m + 1) + 1] \in BOOLEAN /\ d[n] \in BOOLEAN /\ x[m + 1] \in BOOLEAN
        /\ e[(m + 1) + 1] \in BOOLEAN
    BY <2>1
  <2>10. h[(m + 1) + 1] <=> ~(h[m + 1] <=> e[(m + 1) + 1])
    BY <2>1
  <2>11. x[m + 1] <=> ~(d[m + 1] <=> ~(e[(m + 1) + 1] <=> d[(m + 1) + 1]))
    BY <2>1
  <2> QED
    BY <2>2, <2>8, <2>9, <2>10, <2>11, Zenon
<1> HIDE DEF S
<1>3. \A m \in Nat : m \in S
  BY <1>1, <1>2, Inductive
<1>4. PICK m \in Nat : m = n - 1 /\ m + 1 = n
  OBVIOUS
<1>5. Claim(m)
  BY <1>3, <1>4 DEF S
<1>6. h[n] \in BOOLEAN /\ d[n] \in BOOLEAN
  <2>1. n \in 1..n /\ n \in 0..n
    OBVIOUS
  <2> QED
    BY <2>1
<1>7. Marked(x, m) % 2 = 1 <=> ~(~(h[n] <=> d[n]) <=> d[n])
  BY <1>4, <1>5
<1> HIDE DEF Claim
<1> QED
  BY <1>4, <1>6, <1>7

\* Casting the ray counts the fan.
LEMMA RayIsFan ==
  ASSUME NEW p \in Int \X Int, NEW ring \in Seq(Int \X Int), Len(ring) >= 3, ~OnALine(p, ring)
  PROVE  PointInRing(p, ring) = (Cardinality(FanOver(p, ring)) % 2 = 1)
<1>1. PICK n \in Nat : n = Len(ring) /\ n >= 3
  OBVIOUS
<1>2. \A i \in 1..n : ring[i] \in Int \X Int
  BY <1>1
<1>2a. PICK h \in [0..Len(ring) -> BOOLEAN] :
        /\ h[0] = FALSE
        /\ \A i \in 1..Len(ring) :
             h[i] <=> ~(h[i - 1] <=> Crosses(p, ring[i], ring[IF i = 1 THEN Len(ring) ELSE i - 1]))
        /\ PointInRing(p, ring) <=> Len(ring) >= 3 /\ h[Len(ring)]
  BY HitSteps, Zenon
<1>3. /\ h \in [0..n -> BOOLEAN] /\ h[0] = FALSE
      /\ \A i \in 1..n : h[i] <=> ~(h[i - 1] <=> Crosses(p, ring[i], ring[IF i = 1 THEN n ELSE i - 1]))
      /\ PointInRing(p, ring) <=> n >= 3 /\ h[n]
  BY <1>1, <1>2a
<1> DEFINE e == [i \in 1..n |-> Crosses(p, ring[i], ring[IF i = 1 THEN n ELSE i - 1])]
           d == [i \in 1..n |-> Crosses(p, ring[i], ring[1])]
           x == [i \in 1..n |-> i < n /\ StrictlyIn(p, ring[1], ring[i], ring[i + 1])]
<1>4. e \in [1..n -> BOOLEAN] /\ d \in [1..n -> BOOLEAN] /\ x \in [1..n -> BOOLEAN]
  BY DEF Crosses, StrictlyIn
<1>5. \A i \in 1..n : h[i] <=> ~(h[i - 1] <=> e[i])
  BY <1>3
<1>6. 1 \in 1..n /\ n \in 1..n
  BY <1>1
<1>7. e[1] <=> d[n]
  <2>1. e[1] = Crosses(p, ring[1], ring[n]) /\ d[n] = Crosses(p, ring[n], ring[1])
    BY <1>6
  <2>2. Crosses(p, ring[1], ring[n]) <=> Crosses(p, ring[n], ring[1])
    BY <1>2, <1>6, CrossesIs
  <2> QED
    BY <2>1, <2>2
<1>8. d[1] = FALSE
  <2>1. d[1] = Crosses(p, ring[1], ring[1])
    BY <1>6
  <2>2. ~Crosses(p, ring[1], ring[1])
    <3> HIDE DEF d
    <3> QED
      BY DEF Crosses
  <2> QED
    BY <2>1, <2>2
<1>9. ASSUME NEW i \in 1..(n - 1)
      PROVE  x[i] <=> ~(d[i] <=> ~(e[i + 1] <=> d[i + 1]))
  <2>1. i \in 1..n /\ i + 1 \in 1..n /\ i < n /\ i + 1 # 1 /\ (i + 1) - 1 = i
    <3>1. n \in Nat /\ i \in 1..(n - 1)
      BY <1>1
    <3> HIDE DEF e, d, x
    <3> QED
      BY <3>1
  <2>2. x[i] <=> StrictlyIn(p, ring[1], ring[i], ring[i + 1])
    BY <2>1
  <2>3. d[i] = Crosses(p, ring[i], ring[1]) /\ d[i + 1] = Crosses(p, ring[i + 1], ring[1])
    BY <2>1
  <2>4. e[i + 1] = Crosses(p, ring[i + 1], ring[i])
    BY <2>1
  <2>5. ring[1] \in Int \X Int /\ ring[i] \in Int \X Int /\ ring[i + 1] \in Int \X Int
    BY <1>2, <1>6, <2>1
  <2>6. /\ ring[1] # ring[i] => Turn(ring[1], ring[i], p) # 0
        /\ ring[i] # ring[i + 1] => Turn(ring[i], ring[i + 1], p) # 0
        /\ ring[i + 1] # ring[1] => Turn(ring[i + 1], ring[1], p) # 0
    BY <1>1, <1>6, <2>1 DEF OnALine
  <2>7. StrictlyIn(p, ring[1], ring[i], ring[i + 1])
           <=> ~(Crosses(p, ring[1], ring[i]) <=>
                  ~(Crosses(p, ring[i], ring[i + 1]) <=> Crosses(p, ring[i + 1], ring[1])))
    <3>1. PICK a \in Int \X Int, b \in Int \X Int, c \in Int \X Int :
            a = ring[1] /\ b = ring[i] /\ c = ring[i + 1]
      BY <2>5
    <3>2. /\ a # b => Turn(a, b, p) # 0
          /\ b # c => Turn(b, c, p) # 0
          /\ c # a => Turn(c, a, p) # 0
      BY <2>6, <3>1
    <3> HIDE DEF e, d, x
    <3>3. StrictlyIn(p, a, b, c)
           <=> ~(Crosses(p, a, b) <=> ~(Crosses(p, b, c) <=> Crosses(p, c, a)))
      BY <3>2, TriangleByRay
    <3> QED
      BY <3>1, <3>3, Zenon
  <2>8. Crosses(p, ring[1], ring[i]) <=> Crosses(p, ring[i], ring[1])
    BY <2>5, CrossesIs
  <2>9. Crosses(p, ring[i], ring[i + 1]) <=> Crosses(p, ring[i + 1], ring[i])
    BY <2>5, CrossesIs
  <2>10. /\ Crosses(p, ring[i], ring[1]) \in BOOLEAN /\ Crosses(p, ring[i + 1], ring[i]) \in BOOLEAN
         /\ Crosses(p, ring[i + 1], ring[1]) \in BOOLEAN
    BY <2>5, CrossesIs
  <2> HIDE DEF e, d, x
  <2> QED
    BY <2>2, <2>3, <2>4, <2>7, <2>8, <2>9, <2>10
<1>10. FanOver(p, ring) = {j \in 1..(n - 1) : x[j]}
  <2>1. ~x[1]
    <3>1. x[1] <=> 1 < n /\ StrictlyIn(p, ring[1], ring[1], ring[1 + 1])
      BY <1>6
    <3>2. ring[1] \in Int \X Int
      BY <1>2, <1>6
    <3> HIDE DEF x
    <3>3. Turn(ring[1], ring[1], p) = 0
      BY <3>2, TurnOfNone
    <3> QED
      BY <3>1, <3>3 DEF StrictlyIn
  <2>2. ASSUME NEW j \in 2..(n - 1)
        PROVE  x[j] <=> StrictlyIn(p, ring[1], ring[j], ring[j + 1])
    <3>1. j \in 1..n /\ j < n
      BY <1>1
    <3> QED
      BY <3>1
  <2>3. FanOver(p, ring) = {j \in 2..(n - 1) : x[j]}
    <3> HIDE DEF x
    <3> QED
      BY <1>1, <2>2 DEF FanOver
  <2>4. \A j : j \in 1..(n - 1) <=> j = 1 \/ j \in 2..(n - 1)
    BY <1>1
  <2> HIDE DEF x
  <2> QED
    BY <2>1, <2>3, <2>4
<1> HIDE DEF e, d, x
<1>11. h[n] <=> Marked(x, n - 1) % 2 = 1
  <2>1. \A i \in 1..(n - 1) : x[i] <=> ~(d[i] <=> ~(e[i + 1] <=> d[i + 1]))
    BY <1>9
  <2>2. h \in [0..n -> BOOLEAN] /\ h[0] = FALSE /\ n >= 1
    BY <1>1, <1>3
  <2> QED
    <3>1. Walk(n, h, e, d, x)
      BY <1>1, <1>4, <1>5, <1>7, <1>8, <2>1, <2>2 DEF Walk
    <3> QED
      BY <3>1, FanWalk
<1>12. PointInRing(p, ring) <=> Cardinality(FanOver(p, ring)) % 2 = 1
  BY <1>1, <1>3, <1>10, <1>11 DEF Marked
<1>13. PointInRing(p, ring) \in BOOLEAN
  BY DEF PointInRing
<1> QED
  BY <1>12, <1>13

-----------------------------------------------------------------------------
(* The loop of parseBoundary *)

Pair == Int \X Int
Pushed(ring, entry) == IF entry = Malformed THEN ring ELSE Append(ring, entry)

\* The rings the loop has after each entry of the column.
RingsOf(r, b) ==
  r = [i \in 0..Len(b) |->
         IF i = 0 THEN <<>>
         ELSE IF b[i] = Malformed THEN r[i - 1] ELSE Append(r[i - 1], b[i])]

LEMMA SomeRings ==
  ASSUME NEW b, NEW r0, RingsOf(r0, b)
  PROVE  \E r : RingsOf(r, b) /\ ParseBoundary(b) = r[Len(b)]
BY Zenon DEF ParseBoundary, RingsOf

LEMMA PairsStep ==
  ASSUME NEW b, NEW n \in Nat
  PROVE  /\ PairsIn(b, 0) = 0 /\ PairsIn(b, n) \in Nat
         /\ b[n + 1] # Malformed => PairsIn(b, n + 1) = PairsIn(b, n) + 1
         /\ b[n + 1] = Malformed => PairsIn(b, n + 1) = PairsIn(b, n)
<1> DEFINE x == [i \in Nat |-> b[i] # Malformed]
<1>1. ASSUME NEW m \in Nat PROVE PairsIn(b, m) = Marked(x, m)
  <2>1. {i \in 1..m : b[i] # Malformed} = {i \in 1..m : x[i]}
    <3>1. \A i \in 1..m : i \in Nat /\ x[i] = (b[i] # Malformed)
      OBVIOUS
    <3> HIDE DEF x
    <3> QED
      BY <3>1
  <2> HIDE DEF x
  <2> QED
    BY <2>1 DEF PairsIn, Marked
<1>2. n + 1 \in Nat /\ 0 \in Nat /\ x[n + 1] = (b[n + 1] # Malformed)
  OBVIOUS
<1> HIDE DEF x
<1>3. PICK k \in Nat : k = Marked(x, n)
  BY MarkedSteps
<1>4. Marked(x, 0) = 0 /\ Marked(x, n + 1) = k + (IF x[n + 1] THEN 1 ELSE 0)
  BY <1>3, MarkedSteps
<1>5. PairsIn(b, 0) = Marked(x, 0)
  BY <1>1, <1>2
<1>6. PairsIn(b, n + 1) = Marked(x, n + 1)
  BY <1>1, <1>2
<1>7. PairsIn(b, n) = k
  BY <1>1, <1>3
<1>8. b[n + 1] # Malformed => Marked(x, n + 1) = k + 1
  BY <1>2, <1>4
<1>9. b[n + 1] = Malformed => Marked(x, n + 1) = k
  <2>1. b[n + 1] = Malformed => ~x[n + 1]
    BY <1>2
  <2> QED
    BY <1>3, <1>4, <2>1
<1> QED
  BY <1>3, <1>4, <1>5, <1>6, <1>7, <1>8, <1>9

\* The loop, run over the first m entries.
Pushes(f, b, m) ==
  /\ f \in [0..m -> Seq(Pair)] /\ f[0] = <<>>
  /\ \A i \in 1..m : f[i] = Pushed(f[i - 1], b[i])

LEMMA RingsExist ==
  ASSUME NEW b \in Seq(Pair \cup {Malformed})
  PROVE  \E r : RingsOf(r, b)
<1>1. PICK N \in Nat : N = Len(b)
  OBVIOUS
<1> DEFINE S == {m \in Nat : m <= N => \E f : Pushes(f, b, m)}
<1>2. 0 \in S
  <2>1. Pushes([i \in 0..0 |-> <<>>], b, 0)
    BY DEF Pushes
  <2> QED
    BY <2>1
<1>3. ASSUME NEW m \in Nat, m \in S PROVE m + 1 \in S
  <2> SUFFICES ASSUME m + 1 <= N PROVE \E f : Pushes(f, b, m + 1)
    OBVIOUS
  <2>1. PICK f : Pushes(f, b, m)
    BY <1>3
  <2>2. f \in [0..m -> Seq(Pair)] /\ f[0] = <<>> /\ \A i \in 1..m : f[i] = Pushed(f[i - 1], b[i])
    BY <2>1 DEF Pushes
  <2>3. b[m + 1] \in Pair \cup {Malformed}
    <3>1. m + 1 \in 1..Len(b)
      BY <1>1
    <3> QED
      BY <3>1
  <2>4. PICK s \in Seq(Pair) : s = f[m]
    BY <2>2
  <2>5. PICK t \in Seq(Pair) : t = Pushed(s, b[m + 1])
    <3>1. b[m + 1] = Malformed => Pushed(s, b[m + 1]) = s
      BY DEF Pushed
    <3>2. b[m + 1] # Malformed => Pushed(s, b[m + 1]) = Append(s, b[m + 1]) /\ b[m + 1] \in Pair
      BY <2>3 DEF Pushed
    <3>3. \A y \in Pair : Append(s, y) \in Seq(Pair)
      OBVIOUS
    <3> QED
      BY <3>1, <3>2, <3>3
  <2> DEFINE g == [i \in 0..(m + 1) |-> IF i = m + 1 THEN t ELSE f[i]]
  <2>6. \A i \in 0..(m + 1) : i = m + 1 \/ i \in 0..m
    OBVIOUS
  <2>7. g \in [0..(m + 1) -> Seq(Pair)]
    BY <2>2, <2>5, <2>6
  <2>8. g[0] = <<>>
    BY <2>2
  <2>9. ASSUME NEW i \in 1..(m + 1) PROVE g[i] = Pushed(g[i - 1], b[i])
    <3>1. i \in 0..(m + 1) /\ i - 1 \in 0..(m + 1) /\ i - 1 # m + 1
      OBVIOUS
    <3>2. g[i] = (IF i = m + 1 THEN t ELSE f[i]) /\ g[i - 1] = f[i - 1]
      BY <3>1
    <3> HIDE DEF g
    <3>3. CASE i = m + 1
      <4>1. i - 1 = m
        BY <3>3
      <4> QED
        BY <2>4, <2>5, <3>2, <3>3, <4>1
    <3>4. CASE i # m + 1
      <4>1. i \in 1..m
        BY <3>4
      <4> QED
        BY <2>2, <3>2, <3>4, <4>1
    <3> QED
      BY <3>3, <3>4
  <2>10. Pushes(g, b, m + 1)
    <3> HIDE DEF g
    <3> QED
      BY <2>7, <2>8, <2>9 DEF Pushes
  <2> QED
    BY <2>10
<1>4. N \in S
  <2> HIDE DEF S
  <2> QED
    BY <1>2, <1>3, Inductive
<1>5. PICK f : Pushes(f, b, N)
  BY <1>4
<1>6. f \in [0..N -> Seq(Pair)] /\ f[0] = <<>> /\ \A i \in 1..N : f[i] = Pushed(f[i - 1], b[i])
  BY <1>5 DEF Pushes
<1> HIDE DEF S
<1>7. ASSUME NEW i \in 0..Len(b)
      PROVE  f[i] = IF i = 0 THEN <<>>
                    ELSE IF b[i] = Malformed THEN f[i - 1] ELSE Append(f[i - 1], b[i])
  <2>1. i = 0 \/ i \in 1..N
    BY <1>1
  <2> QED
    BY <1>6, <2>1 DEF Pushed
<1>8. f = [i \in 0..Len(b) |-> f[i]]
  BY <1>1, <1>6
<1>9. RingsOf(f, b)
  BY <1>7, <1>8, Zenon DEF RingsOf
<1> QED
  BY <1>9

\* Every pair of the column, and nothing else, is in the ring, in its place.
LEMMA RingIsThePairs ==
  ASSUME NEW b \in Seq(Pair \cup {Malformed})
  PROVE  /\ ParseBoundary(b) \in Seq(Pair)
         /\ Len(ParseBoundary(b)) = PairsIn(b, Len(b))
         /\ \A j \in 1..Len(b) :
              b[j] # Malformed => ParseBoundary(b)[PairsIn(b, j)] = b[j]
<1>1. PICK r : RingsOf(r, b) /\ ParseBoundary(b) = r[Len(b)]
  BY RingsExist, SomeRings
<1>2. r = [i \in 0..Len(b) |->
             IF i = 0 THEN <<>>
             ELSE IF b[i] = Malformed THEN r[i - 1] ELSE Append(r[i - 1], b[i])]
  BY <1>1 DEF RingsOf
<1>3. PICK N \in Nat : N = Len(b)
  OBVIOUS
<1>4. r[0] = <<>>
  BY <1>2, <1>3
<1>5. ASSUME NEW i \in 1..N PROVE r[i] = Pushed(r[i - 1], b[i])
  <2>1. i \in 0..Len(b) /\ i # 0
    BY <1>3
  <2>2. r[i] = IF b[i] = Malformed THEN r[i - 1] ELSE Append(r[i - 1], b[i])
    BY <1>2, <2>1, Zenon
  <2> QED
    BY <2>2 DEF Pushed
<1> DEFINE Placed(m) ==
             /\ r[m] \in Seq(Pair)
             /\ Len(r[m]) = PairsIn(b, m)
             /\ \A j \in 1..m : b[j] # Malformed =>
                  PairsIn(b, j) \in 1..PairsIn(b, m) /\ r[m][PairsIn(b, j)] = b[j]
           S == {m \in Nat : m <= N => Placed(m)}
<1>6. 0 \in S
  <2>1. PairsIn(b, 0) = 0
    BY PairsStep
  <2>2. <<>> \in Seq(Pair) /\ Len(<<>>) = 0
    OBVIOUS
  <2>3. r[0] \in Seq(Pair) /\ Len(r[0]) = PairsIn(b, 0)
    BY <1>4, <2>1, <2>2
  <2>4. \A j \in 1..0 : FALSE
    OBVIOUS
  <2> QED
    BY <2>3, <2>4
<1>7. ASSUME NEW m \in Nat, m \in S PROVE m + 1 \in S
  <2> SUFFICES ASSUME m + 1 <= N PROVE Placed(m + 1)
    OBVIOUS
  <2>1. PICK s \in Seq(Pair) : s = r[m]
    BY <1>7
  <2>2. PICK k \in Nat : k = PairsIn(b, m)
    BY PairsStep
  <2>3. Len(s) = k /\ \A j \in 1..m : b[j] # Malformed => PairsIn(b, j) \in 1..k /\ s[PairsIn(b, j)] = b[j]
    BY <1>7, <2>1, <2>2
  <2>4. m + 1 \in 1..N /\ (m + 1) - 1 = m
    OBVIOUS
  <2>5. r[m + 1] = Pushed(s, b[m + 1])
    BY <1>5, <2>1, <2>4
  <2>6. b[m + 1] \in Pair \cup {Malformed}
    <3>1. m + 1 \in 1..Len(b)
      BY <1>3
    <3> QED
      BY <3>1
  <2>7. \A j \in 1..(m + 1) : j = m + 1 \/ j \in 1..m
    OBVIOUS
  <2>8. CASE b[m + 1] = Malformed
    <3>1. PairsIn(b, m + 1) = k
      BY <2>2, <2>8, PairsStep
    <3>2. r[m + 1] = s
      BY <2>5, <2>8 DEF Pushed
    <3> QED
      BY <2>3, <2>7, <2>8, <3>1, <3>2
  <2>9. CASE b[m + 1] # Malformed
    <3>1. PairsIn(b, m + 1) = k + 1
      BY <2>2, <2>9, PairsStep
    <3>2. PICK y \in Pair : y = b[m + 1]
      BY <2>6, <2>9
    <3>3. r[m + 1] = Append(s, y)
      BY <2>5, <2>9, <3>2 DEF Pushed
    <3>4. /\ Append(s, y) \in Seq(Pair) /\ Len(Append(s, y)) = k + 1 /\ Append(s, y)[k + 1] = y
          /\ \A i \in 1..k : Append(s, y)[i] = s[i]
      BY <2>3
    <3>5. ASSUME NEW j \in 1..(m + 1), b[j] # Malformed
          PROVE  PairsIn(b, j) \in 1..(k + 1) /\ r[m + 1][PairsIn(b, j)] = b[j]
      <4>1. CASE j = m + 1
        BY <3>1, <3>2, <3>3, <3>4, <4>1
      <4>2. CASE j # m + 1
        <5>1. PairsIn(b, j) \in 1..k /\ s[PairsIn(b, j)] = b[j]
          BY <2>3, <2>7, <3>5, <4>2
        <5> QED
          BY <3>3, <3>4, <5>1
      <4> QED
        BY <4>1, <4>2
    <3> QED
      BY <3>1, <3>3, <3>4, <3>5
  <2> QED
    BY <2>8, <2>9
<1>8. N \in S
  <2> HIDE DEF S
  <2> QED
    BY <1>6, <1>7, Inductive
<1>9. Placed(N)
  BY <1>8
<1> QED
  BY <1>1, <1>3, <1>9

-----------------------------------------------------------------------------
(* resolveLocation answers what the boundary says *)

InsideAnswered ==
  /\ gps \in GpsPoints /\ config \in Boundaries \cup {NotConfigured}
  /\ next > 0 => inside = InsideCampus(gps, config)

LEMMA AnswersParity ==
  ASSUME NEW p \in GpsPoints, NEW c \in Boundaries
  PROVE  LET ring == ParseBoundary(c) IN
         /\ Len(ring) = PairsIn(c, Len(c))
         /\ \A i \in DOMAIN c : c[i] # Malformed => ring[PairsIn(c, i)] = c[i]
         /\ IF Len(ring) < 3 THEN InsideCampus(p, c) = NotConfigured
            ELSE OnALine(p, ring)
                 \/ InsideCampus(p, c) = (Cardinality(FanOver(p, ring)) % 2 = 1)
<1>1. c \in Seq(Pair \cup {Malformed}) /\ p \in Int \X Int /\ c # NotConfigured
  BY GeoAssumption DEF Pair
<1>2. DOMAIN c = 1..Len(c)
  BY <1>1
<1>3. PICK ring \in Seq(Int \X Int) : ring = ParseBoundary(c)
  BY <1>1, RingIsThePairs DEF Pair
<1>4. /\ Len(ring) = PairsIn(c, Len(c))
      /\ \A i \in DOMAIN c : c[i] # Malformed => ring[PairsIn(c, i)] = c[i]
  BY <1>1, <1>2, <1>3, RingIsThePairs
<1>5. CASE Len(ring) < 3
  <2>1. ~(Len(ring) >= 3)
    BY <1>5
  <2>2. InsideCampus(p, c) = NotConfigured
    BY <1>3, <2>1 DEF InsideCampus
  <2> QED
    BY <1>3, <1>4, <1>5, <2>2
<1>6. CASE ~(Len(ring) < 3) /\ OnALine(p, ring)
  BY <1>3, <1>4, <1>6
<1>7. CASE ~(Len(ring) < 3) /\ ~OnALine(p, ring)
  <2>1. Len(ring) >= 3
    BY <1>7
  <2>2. InsideCampus(p, c) = PointInRing(p, ring)
    BY <1>1, <1>3, <2>1 DEF InsideCampus
  <2>3. PointInRing(p, ring) = (Cardinality(FanOver(p, ring)) % 2 = 1)
    BY <1>1, <1>7, <2>1, RayIsFan
  <2> QED
    BY <1>3, <1>4, <1>7, <2>2, <2>3
<1> QED
  BY <1>5, <1>6, <1>7

\* pointInRing: for every polygon and every point on no line of its figure, the
\* ray cast with its half-open edges counts as the fan of triangles does, and the
\* polygon is the pairs of the column, in their order, whatever else it holds.
THEOREM InsideByParity == GeoSpec => []InsideIsParity
<1>1. GeoInit => InsideAnswered
  BY DEF GeoInit, InsideAnswered
<1>2. InsideAnswered /\ [GeoNext]_geoVars => InsideAnswered'
  <2> SUFFICES ASSUME InsideAnswered, [GeoNext]_geoVars PROVE InsideAnswered'
    OBVIOUS
  <2>1. CASE ReadPlace
    BY <2>1 DEF InsideAnswered, ReadPlace
  <2>2. CASE Consider
    <3>1. next > 0
      BY <2>2 DEF Consider
    <3> QED
      BY <2>2, <3>1 DEF InsideAnswered, Consider
  <2>3. CASE Suggest \/ UNCHANGED geoVars
    BY <2>3 DEF InsideAnswered, Suggest, geoVars
  <2> QED
    BY <2>1, <2>2, <2>3 DEF GeoNext
<1>3. InsideAnswered => InsideIsParity
  <2> SUFFICES ASSUME InsideAnswered, next > 0 PROVE InsideIsParity
    BY DEF InsideIsParity
  <2>1. inside = InsideCampus(gps, config)
    BY DEF InsideAnswered
  <2>2. CASE config = NotConfigured
    BY <2>1, <2>2 DEF InsideIsParity, InsideCampus
  <2>3. CASE config # NotConfigured
    <3>1. gps \in GpsPoints /\ config \in Boundaries
      BY <2>3 DEF InsideAnswered
    <3> QED
      BY <2>1, <2>3, <3>1, AnswersParity DEF InsideIsParity
  <2> QED
    BY <2>2, <2>3
<1> QED
  BY <1>1, <1>2, <1>3, PTL DEF GeoSpec

-----------------------------------------------------------------------------
(* PhoneV2: what is asked again changes nothing *)

Device == [token : PushTokens \cup {NoToken}]
Looking == [step : {"lookup"}, print : Fingerprints, token : PushTokens \cup {NoToken}, known : BOOLEAN]
Writing == [step : {"write"}, print : Fingerprints, token : PushTokens \cup {NoToken},
            known : BOOLEAN, existing : Device \cup {Absent}]
Marking == [step : {"mark"}, notice : Notices, unread : BOOLEAN]
Stamped == [step : {"stamped"}, notice : Notices, at : Nat \ {0}]
Asked == {NotAsking} \cup Looking \cup Writing \cup Marking \cup Stamped

PhoneTypeOK ==
  /\ device \in [Fingerprints -> Device \cup {Absent}]
  /\ readAt \in [Notices -> Nat] /\ firstRead \in [Notices -> Nat]
  /\ clock \in Nat \ {0}
  /\ newest \in [Fingerprints -> PushTokens \cup {NoToken}] /\ told \in [Fingerprints -> Nat]
  /\ ask \in [Asks -> Asked]

\* What a request has read is still so if no other is about the same; that a device
\* was known stays so in any case.
ReadStands(o) ==
  /\ o.step \in {"lookup", "write"} =>
       /\ o.known => device[o.print] # Absent
       /\ o.print \notin raced =>
            /\ o.known <=> device[o.print] # Absent
            /\ o.step = "write" => o.existing = device[o.print]
  /\ o.step = "mark" /\ o.notice \notin raced => (o.unread <=> readAt[o.notice] = 0)
  /\ o.step = "stamped" /\ o.notice \notin raced => readAt[o.notice] = 0

\* About what has not raced there is one request at most.
OneAbout ==
  \A a, b \in Asks : ask[a] # NotAsking /\ ask[b] # NotAsking /\ About(ask[a]) = About(ask[b])
                     /\ About(ask[a]) \notin raced => a = b

PhoneInv ==
  /\ PhoneTypeOK
  /\ OneAbout
  /\ \A a \in Asks : ReadStands(ask[a])
  /\ \A f \in Fingerprints : device[f] = Absent => newest[f] = NoToken
  /\ RepeatsChangeNothing

LEMMA DeviceIsNotAbsent == ASSUME NEW d \in Device PROVE d # Absent
BY PhoneAssumption DEF PhoneAssumption, Device

LEMMA NotAskingStands == ReadStands(NotAsking) /\ ReadStands(NotAsking)'
BY DEF ReadStands, NotAsking

LEMMA InitPhone == PhoneInit => PhoneInv
<1> SUFFICES ASSUME PhoneInit PROVE PhoneInv
  OBVIOUS
<1>1. PhoneTypeOK
  <2>1. device \in [Fingerprints -> Device \cup {Absent}]
    BY DEF PhoneInit
  <2>5. clock \in Nat \ {0}
    BY DEF PhoneInit
  <2>2. readAt \in [Notices -> Nat] /\ firstRead \in [Notices -> Nat] /\ told \in [Fingerprints -> Nat]
    BY DEF PhoneInit
  <2>3. newest \in [Fingerprints -> PushTokens \cup {NoToken}]
    BY DEF PhoneInit
  <2>4. ask \in [Asks -> Asked]
    BY DEF PhoneInit, Asked
  <2> QED
    BY <2>1, <2>2, <2>3, <2>4, <2>5 DEF PhoneTypeOK
<1>2. RepeatsChangeNothing
  BY DEF PhoneInit, RepeatsChangeNothing, NewestTokenStands, CreatedToldOnce, ReadOnce
<1> QED
  BY <1>1, <1>2, NotAskingStands DEF PhoneInit, PhoneInv, OneAbout

\* A request begins, moves on or ends: only its own entry changes.
LEMMA AskMoves ==
  ASSUME PhoneInv, NEW a \in Asks, NEW o \in Asked,
         ask' = [ask EXCEPT ![a] = o],
         ReadStands(o)',
         \/ raced' = raced /\ ask[a] # NotAsking /\ (o = NotAsking \/ About(o) = About(ask[a]))
         \/ raced' = raced \cup {x \in {About(o)} : \E b \in Asks : ask[b] # NotAsking /\ About(ask[b]) = x},
         UNCHANGED <<device, readAt, clock, newest, told, firstRead>>
  PROVE  PhoneInv'
<1>1. ask'[a] = o /\ \A b \in Asks : b # a => ask'[b] = ask[b]
  BY DEF PhoneInv, PhoneTypeOK
<1>2. raced \subseteq raced'
  OBVIOUS
<1>3. PhoneTypeOK'
  BY DEF PhoneInv, PhoneTypeOK
<1>4. ASSUME NEW b \in Asks PROVE ReadStands(ask[b])'
  <2>1. CASE b = a
    BY <1>1, <2>1 DEF ReadStands
  <2>2. CASE b # a
    BY <1>1, <1>2, <2>2 DEF ReadStands, PhoneInv
  <2> QED
    BY <2>1, <2>2
<1>5. OneAbout'
  <2>1. ASSUME NEW b \in Asks, NEW c \in Asks, ask'[b] # NotAsking, ask'[c] # NotAsking, b # c,
               About(ask'[b]) = About(ask'[c]), About(ask'[b]) \notin raced'
        PROVE  FALSE
    <3>1. CASE b # a /\ c # a
      BY <1>1, <1>2, <2>1, <3>1 DEF PhoneInv, OneAbout
    <3>2. PICK d \in Asks : (b = a \/ c = a) => d # a /\ d \in {b, c} /\ {b, c} = {a, d}
      BY <2>1
    <3>3. CASE b = a \/ c = a
      <4>1. /\ ask[d] # NotAsking /\ o # NotAsking /\ About(ask[d]) = About(o) /\ d # a
            /\ About(o) \notin raced'
        BY <1>1, <2>1, <3>2, <3>3
      <4> QED
        BY <1>2, <4>1 DEF PhoneInv, OneAbout
    <3> QED
      BY <3>1, <3>3
  <2> QED
    BY <2>1, Zenon DEF OneAbout, About
<1>6. RepeatsChangeNothing'
  BY <1>2 DEF PhoneInv, RepeatsChangeNothing, NewestTokenStands, CreatedToldOnce, ReadOnce
<1> QED
  BY <1>3, <1>4, <1>5, <1>6 DEF PhoneInv

LEMMA RegisterKeeps ==
  ASSUME PhoneInv, NEW a \in Asks, NEW f \in Fingerprints, NEW t \in PushTokens \cup {NoToken},
         RegisterDevice(a, f, t)
  PROVE  PhoneInv'
<1>1. PICK o : o = [step |-> "lookup", print |-> f, token |-> t, known |-> device[f] # Absent]
  OBVIOUS
<1>2. o \in Looking /\ o.step = "lookup" /\ o.print = f
  BY <1>1 DEF Looking
<1>3. o.known <=> device[f] # Absent
  BY <1>1
<1>4. /\ ask' = [ask EXCEPT ![a] = o]
      /\ raced' = raced \cup {x \in {About(o)} : \E b \in Asks : ask[b] # NotAsking /\ About(ask[b]) = x}
      /\ UNCHANGED <<device, readAt, clock, newest, told, firstRead>>
  BY <1>1 DEF RegisterDevice, Start
<1>5. ReadStands(o)'
  BY <1>2, <1>3, <1>4 DEF ReadStands
<1> QED
  BY <1>2, <1>4, <1>5, AskMoves DEF Asked

LEMMA MarkKeeps ==
  ASSUME PhoneInv, NEW a \in Asks, NEW u \in Readers, NEW n \in Notices, MarkRead(a, u, n)
  PROVE  PhoneInv'
<1>1. PICK o : o = [step |-> "mark", notice |-> n, unread |-> readAt[n] = 0]
  OBVIOUS
<1>2. o \in Marking /\ o.step = "mark" /\ o.notice = n
  BY <1>1 DEF Marking
<1>3. o.unread <=> readAt[n] = 0
  BY <1>1
<1>4. /\ ask' = [ask EXCEPT ![a] = o]
      /\ raced' = raced \cup {x \in {About(o)} : \E b \in Asks : ask[b] # NotAsking /\ About(ask[b]) = x}
      /\ UNCHANGED <<device, readAt, clock, newest, told, firstRead>>
  BY <1>1 DEF MarkRead, Start
<1>5. ReadStands(o)'
  BY <1>2, <1>3, <1>4 DEF ReadStands
<1> QED
  BY <1>2, <1>4, <1>5, AskMoves DEF Asked

LEMMA LookupKeeps == ASSUME PhoneInv, NEW a \in Asks, LookupDevice(a) PROVE PhoneInv'
<1>1. ask[a] \in Looking /\ ask[a] # NotAsking
  BY DEF LookupDevice, PhoneInv, PhoneTypeOK, Asked, Looking, Writing, Marking, Stamped, NotAsking
<1>2. PICK o : o = [step |-> "write", print |-> ask[a].print, token |-> ask[a].token,
                    known |-> ask[a].known, existing |-> device[ask[a].print]]
  OBVIOUS
<1>3. /\ o \in Writing /\ o.step = "write" /\ o.print = ask[a].print /\ o.known = ask[a].known
      /\ o.existing = device[o.print] /\ ask[a].step = "lookup"
  BY <1>1, <1>2 DEF Looking, Writing, PhoneInv, PhoneTypeOK
<1>4. /\ ask' = [ask EXCEPT ![a] = o] /\ raced' = raced
      /\ UNCHANGED <<device, readAt, clock, newest, told, firstRead>>
  BY <1>2 DEF LookupDevice, PhoneInv, PhoneTypeOK
<1>5. ReadStands(ask[a])
  BY DEF PhoneInv
<1>6. ReadStands(o)'
  BY <1>3, <1>4, <1>5 DEF ReadStands
<1>7. o \in Asked /\ About(o) = About(ask[a])
  BY <1>3 DEF Asked, About
<1> QED
  BY <1>1, <1>4, <1>6, <1>7, AskMoves

LEMMA DropKeeps == ASSUME PhoneInv, NEW a \in Asks, DropAsk(a) PROVE PhoneInv'
<1>1. /\ ask' = [ask EXCEPT ![a] = NotAsking] /\ raced' = raced /\ ask[a] # NotAsking
      /\ UNCHANGED <<device, readAt, clock, newest, told, firstRead>>
  BY DEF DropAsk
<1> QED
  BY <1>1, NotAskingStands, AskMoves DEF Asked

\* A request writes what it is about and is over: about that there is no other, or it
\* has raced.
LEMMA AskEnds ==
  ASSUME PhoneInv, NEW a \in Asks, ask[a] # NotAsking, ask' = [ask EXCEPT ![a] = NotAsking],
         UNCHANGED raced, \A f \in Fingerprints : device[f] # Absent => device'[f] # Absent,
         \A f \in Fingerprints : f # About(ask[a]) => device'[f] = device[f],
         \A n \in Notices : n # About(ask[a]) => readAt'[n] = readAt[n]
  PROVE  ask' \in [Asks -> Asked] /\ OneAbout' /\ \A b \in Asks : ReadStands(ask[b])'
<1>1. ask'[a] = NotAsking /\ \A b \in Asks : b # a => ask'[b] = ask[b]
  BY DEF PhoneInv, PhoneTypeOK
<1>2. ASSUME NEW b \in Asks, ask'[b] # NotAsking
      PROVE  ask'[b] = ask[b] /\ (About(ask[b]) \notin raced => About(ask[b]) # About(ask[a]))
  BY <1>1, <1>2 DEF PhoneInv, OneAbout
<1>3. ASSUME NEW b \in Asks PROVE ReadStands(ask[b])'
  <2>1. CASE ask'[b] = NotAsking
    BY <2>1, NotAskingStands DEF ReadStands
  <2>2. CASE ask'[b] # NotAsking
    <3>1. ask'[b] = ask[b] /\ (About(ask[b]) \notin raced => About(ask[b]) # About(ask[a]))
      BY <1>2, <2>2
    <3>2. /\ ask[b].step \in {"lookup", "write"} => ask[b].print \in Fingerprints /\ About(ask[b]) = ask[b].print
          /\ ask[b].step \in {"mark", "stamped"} => ask[b].notice \in Notices /\ About(ask[b]) = ask[b].notice
      BY DEF PhoneInv, PhoneTypeOK, Asked, Looking, Writing, Marking, Stamped, NotAsking, About
    <3>3. ReadStands(ask[b])
      BY DEF PhoneInv
    <3> QED
      BY <3>1, <3>2, <3>3 DEF ReadStands
  <2> QED
    BY <2>1, <2>2
<1>4. ASSUME NEW b \in Asks, NEW c \in Asks, ask'[b] # NotAsking, ask'[c] # NotAsking,
             About(ask'[b]) = About(ask'[c]), About(ask'[b]) \notin raced
      PROVE  b = c
  BY <1>2, <1>4 DEF PhoneInv, OneAbout
<1>5. OneAbout'
  BY <1>4, Zenon DEF OneAbout, About
<1>6. ask' \in [Asks -> Asked]
  BY DEF PhoneInv, PhoneTypeOK, Asked
<1> QED
  BY <1>3, <1>5, <1>6

LEMMA WriteDeviceKeeps == ASSUME PhoneInv, NEW a \in Asks, WriteDevice(a) PROVE PhoneInv'
<1>1. PICK o \in Writing : o = ask[a] /\ o # NotAsking
  BY DEF WriteDevice, PhoneInv, PhoneTypeOK, Asked, Looking, Writing, Marking, Stamped, NotAsking
<1>2. /\ o.step = "write" /\ o.print \in Fingerprints /\ o.token \in PushTokens \cup {NoToken}
      /\ o.existing \in Device \cup {Absent} /\ ReadStands(o)
  BY <1>1 DEF Writing, PhoneInv
<1>3. PICK f \in Fingerprints : f = o.print
  BY <1>2
<1>4. PICK d : d = [token |-> TokenKept(o)]
  OBVIOUS
<1>5. /\ o.existing = Absent => device[f] = Absent
      /\ device' = [device EXCEPT ![f] = d]
      /\ newest' = IF o.token = NoToken THEN newest ELSE [newest EXCEPT ![f] = o.token]
      /\ told' = IF o.known THEN told ELSE [told EXCEPT ![f] = told[f] + 1]
      /\ ask' = [ask EXCEPT ![a] = NotAsking]
      /\ UNCHANGED <<readAt, clock, raced, firstRead>>
  BY <1>1, <1>3, <1>4 DEF WriteDevice, KnownAtFirst
<1>6. d \in Device /\ d # Absent /\ d.token = TokenKept(o)
  <2>1. TokenKept(o) \in PushTokens \cup {NoToken}
    BY <1>2 DEF TokenKept, Device
  <2>2. d \in Device /\ d.token = TokenKept(o)
    BY <1>4, <2>1 DEF Device
  <2> QED
    BY <2>2, DeviceIsNotAbsent
<1>7. /\ device'[f] = d /\ \A g \in Fingerprints : g # f => device'[g] = device[g]
      /\ device' \in [Fingerprints -> Device \cup {Absent}]
  BY <1>5, <1>6 DEF PhoneInv, PhoneTypeOK
<1>8. /\ newest' \in [Fingerprints -> PushTokens \cup {NoToken}]
      /\ newest'[f] = IF o.token = NoToken THEN newest[f] ELSE o.token
      /\ \A g \in Fingerprints : g # f => newest'[g] = newest[g]
  BY <1>2, <1>5 DEF PhoneInv, PhoneTypeOK
<1>9. /\ told' \in [Fingerprints -> Nat]
      /\ told'[f] = IF o.known THEN told[f] ELSE told[f] + 1
      /\ \A g \in Fingerprints : g # f => told'[g] = told[g]
  BY <1>5 DEF PhoneInv, PhoneTypeOK
<1>10. ask' \in [Asks -> Asked] /\ OneAbout' /\ \A b \in Asks : ReadStands(ask[b])'
  <2>1. \A g \in Fingerprints : device[g] # Absent => device'[g] # Absent
    BY <1>6, <1>7
  <2>2. About(ask[a]) = f
    BY <1>1, <1>2, <1>3 DEF About
  <2> QED
    BY <1>1, <1>5, <1>7, <2>1, <2>2, AskEnds
<1>11. PhoneTypeOK'
  BY <1>5, <1>7, <1>8, <1>9, <1>10 DEF PhoneInv, PhoneTypeOK
<1>12. NewestTokenStands'
  <2>1. SUFFICES ASSUME f \notin raced PROVE device'[f].token = newest'[f]
    BY <1>5, <1>7, <1>8 DEF PhoneInv, RepeatsChangeNothing, NewestTokenStands
  <2>2. o.existing = device[f]
    BY <1>2, <1>3, <2>1 DEF ReadStands
  <2>3. device[f] = Absent => newest[f] = NoToken
    BY DEF PhoneInv
  <2>4. device[f] # Absent => device[f].token = newest[f]
    BY <2>1 DEF PhoneInv, RepeatsChangeNothing, NewestTokenStands
  <2> QED
    BY <1>6, <1>7, <1>8, <2>2, <2>3, <2>4 DEF TokenKept
<1>13. CreatedToldOnce'
  <2>1. told[f] \in Nat /\ (told[f] >= 1 <=> device[f] # Absent) /\ (f \notin raced => told[f] <= 1)
    BY DEF PhoneInv, PhoneTypeOK, RepeatsChangeNothing, CreatedToldOnce
  <2>2. (o.known => device[f] # Absent) /\ (f \notin raced => (o.known <=> device[f] # Absent))
    BY <1>2, <1>3 DEF ReadStands
  <2>3. told'[f] >= 1 /\ device'[f] # Absent /\ (f \notin raced => told'[f] <= 1)
    BY <1>6, <1>7, <1>9, <2>1, <2>2
  <2> QED
    BY <1>5, <1>7, <1>9, <2>3 DEF PhoneInv, RepeatsChangeNothing, CreatedToldOnce
<1>14. ReadOnce'
  BY <1>5 DEF PhoneInv, RepeatsChangeNothing, ReadOnce
<1>15. \A g \in Fingerprints : device'[g] = Absent => newest'[g] = NoToken
  BY <1>6, <1>7, <1>8 DEF PhoneInv
<1> QED
  BY <1>5, <1>10, <1>11, <1>12, <1>13, <1>14, <1>15 DEF PhoneInv, RepeatsChangeNothing

LEMMA StampKeeps == ASSUME PhoneInv, NEW a \in Asks, StampRead(a) PROVE PhoneInv'
<1>1. PICK o \in Marking : o = ask[a] /\ o # NotAsking
  BY DEF StampRead, PhoneInv, PhoneTypeOK, Asked, Looking, Writing, Marking, Stamped, NotAsking
<1>2. o.step = "mark" /\ o.notice \in Notices /\ ReadStands(o) /\ clock \in Nat \ {0}
  BY <1>1 DEF Marking, PhoneInv, PhoneTypeOK
<1>3. /\ ask' = [ask EXCEPT ![a] = IF o.unread THEN [step |-> "stamped", notice |-> o.notice, at |-> clock]
                                             ELSE NotAsking]
      /\ raced' = raced /\ UNCHANGED <<device, readAt, clock, newest, told, firstRead>>
  BY <1>1 DEF StampRead, Unread
<1>4. CASE ~o.unread
  BY <1>1, <1>3, <1>4, NotAskingStands, AskMoves DEF Asked
<1>5. CASE o.unread
  <2>1. PICK p : p = [step |-> "stamped", notice |-> o.notice, at |-> clock]
    OBVIOUS
  <2>2. p \in Stamped /\ p.step = "stamped" /\ p.notice = o.notice
    BY <1>2, <2>1 DEF Stamped
  <2>3. ReadStands(p)'
    BY <1>2, <1>3, <1>5, <2>2 DEF ReadStands
  <2>4. p \in Asked /\ About(p) = About(ask[a])
    BY <1>1, <1>2, <2>2 DEF Asked, About
  <2> QED
    BY <1>1, <1>3, <1>5, <2>1, <2>3, <2>4, AskMoves
<1> QED
  BY <1>4, <1>5

LEMMA WriteReadKeeps == ASSUME PhoneInv, NEW a \in Asks, WriteRead(a) PROVE PhoneInv'
<1>1. PICK o \in Stamped : o = ask[a] /\ o # NotAsking
  BY DEF WriteRead, PhoneInv, PhoneTypeOK, Asked, Looking, Writing, Marking, Stamped, NotAsking
<1>2. PICK n \in Notices : n = o.notice
  BY DEF Stamped
<1>3. o.step = "stamped" /\ ReadStands(o) /\ o.at \in Nat \ {0} /\ About(o) = n
  BY <1>1, <1>2 DEF Stamped, PhoneInv, About
<1>4. /\ readAt' = [readAt EXCEPT ![n] = o.at]
      /\ firstRead' = [firstRead EXCEPT ![n] = IF firstRead[n] = 0 THEN o.at ELSE firstRead[n]]
      /\ ask' = [ask EXCEPT ![a] = NotAsking]
      /\ UNCHANGED <<device, clock, newest, told, raced>>
  BY <1>1, <1>2 DEF WriteRead
<1>5. readAt[n] \in Nat /\ firstRead[n] \in Nat /\ (readAt[n] = 0 <=> firstRead[n] = 0)
  BY DEF PhoneInv, PhoneTypeOK, RepeatsChangeNothing, ReadOnce
<1>6. n \notin raced => readAt[n] = 0
  BY <1>2, <1>3 DEF ReadStands
<1>7. /\ readAt' \in [Notices -> Nat] /\ firstRead' \in [Notices -> Nat]
      /\ \A m \in Notices : m # n => readAt'[m] = readAt[m] /\ firstRead'[m] = firstRead[m]
      /\ readAt'[n] = o.at
      /\ firstRead'[n] = IF firstRead[n] = 0 THEN o.at ELSE firstRead[n]
  BY <1>3, <1>4 DEF PhoneInv, PhoneTypeOK
<1>8. /\ readAt'[n] # 0 /\ firstRead'[n] # 0
      /\ n \notin raced => readAt'[n] = firstRead'[n]
  BY <1>3, <1>5, <1>6, <1>7
<1>9. ask' \in [Asks -> Asked] /\ OneAbout' /\ \A b \in Asks : ReadStands(ask[b])'
  BY <1>1, <1>3, <1>4, <1>7, AskEnds
<1>10. PhoneTypeOK'
  BY <1>4, <1>7, <1>9 DEF PhoneInv, PhoneTypeOK
<1>11. ReadOnce'
  BY <1>4, <1>7, <1>8 DEF PhoneInv, RepeatsChangeNothing, ReadOnce
<1>12. NewestTokenStands' /\ CreatedToldOnce'
  BY <1>4 DEF PhoneInv, RepeatsChangeNothing, NewestTokenStands, CreatedToldOnce
<1> QED
  BY <1>4, <1>9, <1>10, <1>11, <1>12 DEF PhoneInv, RepeatsChangeNothing

LEMMA TickKeeps == ASSUME PhoneInv, Tick \/ UNCHANGED phoneVars PROVE PhoneInv'
<1>1. UNCHANGED <<device, readAt, ask, newest, told, raced, firstRead>>
      /\ clock' \in Nat \ {0}
  BY DEF Tick, phoneVars, PhoneInv, PhoneTypeOK
<1>2. PhoneTypeOK'
  BY <1>1 DEF PhoneInv, PhoneTypeOK
<1>3. OneAbout'
  BY <1>1 DEF PhoneInv, OneAbout, About
<1>4. \A a \in Asks : ReadStands(ask[a])'
  BY <1>1 DEF PhoneInv, ReadStands
<1>5. RepeatsChangeNothing'
  BY <1>1 DEF PhoneInv, RepeatsChangeNothing, NewestTokenStands, CreatedToldOnce, ReadOnce
<1> QED
  BY <1>1, <1>2, <1>3, <1>4, <1>5 DEF PhoneInv

\* However many phones register and readers read, and however often: unless two requests
\* about the same device have overlapped the newest push token given stands and 201 is told
\* once; unless two readings of the same notification have, its time of reading does not move;
\* and in any case what was read is never unread again (v2/devices/devices.repository.ts
\* upsert, v2/notifications markRead).
THEOREM RepeatsAreIdle == PhoneSpec => []RepeatsChangeNothing
<1>1. PhoneInv /\ [PhoneNext]_phoneVars => PhoneInv'
  BY RegisterKeeps, MarkKeeps, LookupKeeps, DropKeeps, WriteDeviceKeeps, StampKeeps, WriteReadKeeps, TickKeeps
  DEF PhoneNext
<1>2. PhoneInv => RepeatsChangeNothing
  BY DEF PhoneInv
<1> QED
  BY InitPhone, <1>1, <1>2, PTL DEF PhoneSpec

-----------------------------------------------------------------------------
(* StatusBoardV1: what stands under a tile, and how old it is *)

PublicRow == [id : BoardReports, status : BoardStatuses \ {"Pending", "Submitted"}, urgent : BOOLEAN]
PublicCleaner == [id : BoardCleaners, busy : BOOLEAN]
Fetching == [silent : BOOLEAN, rows : (SUBSET PublicRow) \cup {NoTask},
             roster : (SUBSET PublicCleaner) \cup {NoTask}, at : Nat]

BoardTypeOK ==
  /\ filed \in [BoardReports -> [status : BoardStatuses, urgent : BOOLEAN] \cup {NoTask}]
  /\ changes \in Nat
  /\ fetch \in [BoardLoads -> Fetching \cup {NoTask}]
  /\ boardBusy \in BOOLEAN /\ loadsCrossed \in BOOLEAN

\* A board was made from the rows of one answer.
BoardIsCounted ==
  board # NoTask =>
    /\ board.rows \subseteq PublicRow
    /\ board.summary = Summary(board.rows, board.roster)

\* Loads that have not crossed come one after the other: the one under way, if its
\* button was pressed, keeps the button disabled, and has read nothing older than
\* the board.
LoadsInTurn ==
  /\ \A l \in BoardLoads : fetch[l] # NoTask /\ ~fetch[l].silent /\ ~loadsCrossed => boardBusy
  /\ ~loadsCrossed => \A l, k \in BoardLoads : fetch[l] # NoTask /\ fetch[k] # NoTask => l = k

NothingOlder ==
  /\ \A l \in BoardLoads : fetch[l] # NoTask => fetch[l].at <= changes
  /\ board # NoTask => board.at \in Nat /\ board.at <= changes
  /\ ~loadsCrossed /\ board # NoTask =>
       \A l \in BoardLoads : fetch[l] # NoTask /\ fetch[l].rows # NoTask => fetch[l].at >= board.at

BoardInv == BoardTypeOK /\ BoardIsCounted /\ LoadsInTurn /\ NothingOlder

\* Only rows of one shape are ever read.
LEMMA RowsArePublic == ASSUME BoardTypeOK PROVE PublicRows \subseteq PublicRow
<1> SUFFICES ASSUME NEW r \in BoardReports, filed[r] # NoTask
             PROVE  [id |-> r, status |-> NormalizePublicStatus(filed[r].status),
                     urgent |-> filed[r].urgent] \in PublicRow
  BY DEF PublicRows
<1>1. filed[r].status \in BoardStatuses /\ filed[r].urgent \in BOOLEAN
  BY DEF BoardTypeOK
<1>2. NormalizePublicStatus(filed[r].status) \in BoardStatuses \ {"Pending", "Submitted"}
  BY <1>1 DEF NormalizePublicStatus, BoardStatuses, ReportedAliases
<1> QED
  BY <1>1, <1>2 DEF PublicRow

LEMMA RosterIsPublic == PublicRoster \subseteq PublicCleaner
<1> SUFFICES ASSUME NEW c \in BoardCleaners
             PROVE  [id |-> c, busy |-> doing[c] # NoTask] \in [id : BoardCleaners, busy : BOOLEAN]
  BY DEF PublicRoster, PublicCleaner
<1> QED
  BY Zenon

LEMMA PublicRowsAreFinite ==
  ASSUME NEW rows \in SUBSET PublicRow, NEW tile \in SUBSET rows, NEW counted \in SUBSET rows
  PROVE  /\ tile = counted => Cardinality(tile) = Cardinality(counted)
         /\ tile \subseteq counted => Cardinality(tile) <= Cardinality(counted)
<1>1. IsFiniteSet(PublicRow)
  <2> DEFINE Columns == BoardReports \X ((BoardStatuses \ {"Pending", "Submitted"}) \X BOOLEAN)
             made == [c \in Columns |-> [id |-> c[1], status |-> c[2][1], urgent |-> c[2][2]]]
  <2>1. IsFiniteSet(BoardStatuses \ {"Pending", "Submitted"}) /\ IsFiniteSet(BOOLEAN)
    <3>1. BoardStatuses \ {"Pending", "Submitted"} \subseteq
            OtherStatuses \cup {"Reported"} \cup {"Assigned"} \cup {"In Progress"} \cup {"Awaiting Endorsement"}
            \cup {"Resolved"} \cup {"Rejected"}
      BY DEF BoardStatuses, ReportedAliases
    <3>2. BOOLEAN = {TRUE} \cup {FALSE}
      OBVIOUS
    <3> QED
      <4> DEFINE withReported == OtherStatuses \cup {"Reported"}
                 withAssigned == withReported \cup {"Assigned"}
                 withStarted  == withAssigned \cup {"In Progress"}
                 withAwaiting == withStarted \cup {"Awaiting Endorsement"}
                 withResolved == withAwaiting \cup {"Resolved"}
      <4>a. IsFiniteSet(withReported)
        BY FS_AddElement, BoardAssumption DEF BoardAssumption
      <4>b. IsFiniteSet(withAssigned)
        <5> HIDE DEF withReported
        <5> QED
          BY <4>a, FS_AddElement
      <4>c. IsFiniteSet(withStarted)
        <5> HIDE DEF withAssigned
        <5> QED
          BY <4>b, FS_AddElement
      <4>d. IsFiniteSet(withAwaiting)
        <5> HIDE DEF withStarted
        <5> QED
          BY <4>c, FS_AddElement
      <4>e. IsFiniteSet(withResolved)
        <5> HIDE DEF withAwaiting
        <5> QED
          BY <4>d, FS_AddElement
      <4>1. IsFiniteSet(withResolved \cup {"Rejected"})
        <5> HIDE DEF withResolved
        <5> QED
          BY <4>e, FS_AddElement
      <4>2. BoardStatuses \ {"Pending", "Submitted"} \subseteq withResolved \cup {"Rejected"}
        BY <3>1
      <4>3. IsFiniteSet({TRUE} \cup {FALSE})
        BY FS_AddElement, FS_Singleton
      <4>4. IsFiniteSet(BoardStatuses \ {"Pending", "Submitted"})
        <5> HIDE DEF withResolved
        <5> QED
          BY <4>1, <4>2, FS_Subset
      <4> QED
        BY <3>2, <4>3, <4>4
  <2>2. IsFiniteSet(Columns)
    BY <2>1, FS_Product, BoardAssumption DEF BoardAssumption
  <2>3. made \in Surjection(Columns, PublicRow)
    <3>1. ASSUME NEW c \in Columns PROVE made[c] \in PublicRow
      BY DEF PublicRow
    <3>2. ASSUME NEW r \in PublicRow PROVE \E c \in Columns : made[c] = r
      <4>1. <<r.id, <<r.status, r.urgent>>>> \in Columns
        BY DEF PublicRow
      <4>2. made[<<r.id, <<r.status, r.urgent>>>>] = r
        BY <4>1 DEF PublicRow
      <4> QED
        BY <4>1, <4>2
    <3> HIDE DEF made, Columns
    <3>3. DOMAIN made = Columns
      BY DEF made
    <3>4. made \in [Columns -> PublicRow]
      BY <3>1, <3>3 DEF made
    <3> QED
      BY <3>2, <3>4 DEF Surjection
  <2> QED
    BY <2>2, <2>3, FS_Surjection
<1>2. IsFiniteSet(counted)
  BY <1>1, FS_Subset
<1> QED
  BY <1>2, FS_Subset
LEMMA AskingReads ==
  ASSUME NEW silent \in BOOLEAN
  PROVE  /\ Asking(silent) \in Fetching /\ Asking(silent).rows = NoTask
         /\ Asking(silent).at = 0 /\ Asking(silent).silent = silent
<1>1. Asking(silent).rows = NoTask /\ Asking(silent).at = 0
  BY DEF Asking
<1>2. Asking(silent).silent = silent
  BY Zenon DEF Asking
<1>3. NoTask \in (SUBSET PublicRow) \cup {NoTask} /\ NoTask \in (SUBSET PublicCleaner) \cup {NoTask} /\ 0 \in Nat
  OBVIOUS
<1>4. Asking(silent) \in Fetching
  BY <1>3, Zenon DEF Asking, Fetching
<1> QED
  BY <1>1, <1>2, <1>4

LEMMA InitBoard == BoardInit => BoardInv
<1> SUFFICES ASSUME BoardInit PROVE BoardInv
  OBVIOUS
<1>1. Asking(FALSE) \in Fetching /\ Asking(FALSE).at = 0
  BY AskingReads
<1>2. fetch \in [BoardLoads -> Fetching \cup {NoTask}]
  BY <1>1 DEF BoardInit, Mounted
<1>3. PICK l \in BoardLoads : fetch = [k \in BoardLoads |-> IF k = l THEN Asking(FALSE) ELSE NoTask]
  BY DEF BoardInit, Mounted
<1>4. LoadsInTurn
  BY <1>3 DEF BoardInit, LoadsInTurn
<1>5. boardBusy \in BOOLEAN /\ loadsCrossed \in BOOLEAN /\ changes \in Nat
  BY DEF BoardInit
<1>6. BoardTypeOK
  BY <1>2, <1>5 DEF BoardInit, BoardTypeOK
<1>7. NothingOlder
  <2>1. ASSUME NEW k \in BoardLoads, fetch[k] # NoTask PROVE fetch[k].at = 0
    BY <1>1, <1>3, <2>1
  <2> QED
    BY <2>1 DEF BoardInit, NothingOlder
<1> QED
  BY <1>4, <1>6, <1>7 DEF BoardInit, BoardInv, BoardIsCounted

LEMMA ReportsChange ==
  ASSUME BoardInv, (\E r \in BoardReports : ChangeReport(r)) \/ \E c \in BoardCleaners : ChangeTask(c)
  PROVE  BoardInv'
<1>1. filed' \in [BoardReports -> [status : BoardStatuses, urgent : BOOLEAN] \cup {NoTask}]
  <2>1. CASE \E r \in BoardReports : ChangeReport(r)
    <3>1. PICK r \in BoardReports : ChangeReport(r)
      BY <2>1
    <3>2. PICK s \in BoardStatuses, u \in BOOLEAN : filed' = [filed EXCEPT ![r] =
            [status |-> IF filed[r] = NoTask THEN CreatedStatus(s) ELSE s, urgent |-> u]]
      BY <3>1 DEF ChangeReport
    <3>3. PICK t \in BoardStatuses : t = IF filed[r] = NoTask THEN CreatedStatus(s) ELSE s
      BY DEF CreatedStatus, BoardStatuses, ReportedAliases
    <3> QED
      BY <3>2, <3>3 DEF BoardInv, BoardTypeOK
  <2>2. CASE \E c \in BoardCleaners : ChangeTask(c)
    BY <2>2 DEF ChangeTask, BoardInv, BoardTypeOK
  <2> QED
    BY <2>1, <2>2
<1>2. UNCHANGED <<fetch, board, boardBusy, loadsCrossed>> /\ changes' = changes + 1
  BY DEF ChangeReport, ChangeTask
<1>3. BoardTypeOK'
  BY <1>1, <1>2 DEF BoardInv, BoardTypeOK
<1>4. NothingOlder'
  <2>1. ASSUME NEW l \in BoardLoads, fetch[l] # NoTask PROVE fetch[l].at \in Nat /\ fetch[l].at <= changes
    BY <2>1 DEF BoardInv, BoardTypeOK, Fetching, NothingOlder
  <2>2. changes \in Nat /\ (board # NoTask => board.at \in Nat /\ board.at <= changes)
    BY DEF BoardInv, BoardTypeOK, NothingOlder
  <2>3. \A l \in BoardLoads : fetch[l] # NoTask => fetch[l].at <= changes + 1
    BY <2>1, <2>2
  <2>4. board # NoTask => board.at \in Nat /\ board.at <= changes + 1
    BY <2>2
  <2> QED
    BY <1>2, <2>3, <2>4 DEF BoardInv, NothingOlder
<1> QED
  BY <1>2, <1>3, <1>4 DEF BoardInv, BoardIsCounted, LoadsInTurn

\* One load reads on: it stays the kind of load it is.
LEMMA LoadReads ==
  ASSUME BoardInv, NEW l \in BoardLoads, NEW a \in Fetching, fetch[l] # NoTask,
         a.silent = fetch[l].silent, a.at <= changes, fetch' = [fetch EXCEPT ![l] = a],
         ~loadsCrossed /\ board # NoTask /\ a.rows # NoTask => a.at >= board.at,
         UNCHANGED <<filed, changes, board, boardBusy, loadsCrossed>>
  PROVE  BoardInv'
<1>1. fetch'[l] = a /\ \A k \in BoardLoads : k # l => fetch'[k] = fetch[k]
  BY DEF BoardInv, BoardTypeOK
<1>2. BoardTypeOK'
  BY DEF BoardInv, BoardTypeOK
<1>3. LoadsInTurn'
  <2>1. ASSUME NEW k \in BoardLoads, fetch'[k] # NoTask
        PROVE  fetch[k] # NoTask /\ fetch'[k].silent = fetch[k].silent
    BY <1>1, <2>1
  <2> QED
    BY <2>1 DEF BoardInv, LoadsInTurn
<1>4. NothingOlder'
  BY <1>1 DEF BoardInv, NothingOlder
<1> QED
  BY <1>2, <1>3, <1>4 DEF BoardInv, BoardIsCounted

LEMMA ReportsAreRead == ASSUME BoardInv, NEW l \in BoardLoads, ReadReports(l) PROVE BoardInv'
<1>1. fetch[l] \in Fetching /\ fetch[l] # NoTask
  BY DEF ReadReports, BoardInv, BoardTypeOK
<1>2. PICK a : a = [fetch[l] EXCEPT !.rows = PublicRows, !.at = changes]
  OBVIOUS
<1>3. PublicRows \in SUBSET PublicRow /\ changes \in Nat
  BY RowsArePublic DEF BoardInv, BoardTypeOK
<1>4. a \in Fetching /\ a.silent = fetch[l].silent /\ a.at = changes
  BY <1>1, <1>2, <1>3 DEF Fetching
<1>5. fetch' = [fetch EXCEPT ![l] = a]
  BY <1>2 DEF ReadReports, BoardInv, BoardTypeOK
<1>6. changes <= changes /\ (board # NoTask => changes >= board.at)
  BY <1>3 DEF BoardInv, NothingOlder
<1> QED
  BY <1>1, <1>4, <1>5, <1>6, LoadReads DEF ReadReports

LEMMA RosterIsRead == ASSUME BoardInv, NEW l \in BoardLoads, ReadRoster(l) PROVE BoardInv'
<1>1. fetch[l] \in Fetching /\ fetch[l] # NoTask
  BY DEF ReadRoster, BoardInv, BoardTypeOK
<1>2. PICK roster \in {PublicRoster, {}} : fetch' = [fetch EXCEPT ![l].roster = roster]
  BY DEF ReadRoster
<1>3. PICK a : a = [fetch[l] EXCEPT !.roster = roster]
  OBVIOUS
<1>4. roster \subseteq PublicCleaner
  BY RosterIsPublic
<1>5. a \in Fetching /\ a.silent = fetch[l].silent /\ a.at = fetch[l].at /\ a.rows = fetch[l].rows
  BY <1>1, <1>3, <1>4 DEF Fetching
<1>6. fetch' = [fetch EXCEPT ![l] = a]
  BY <1>2, <1>3 DEF BoardInv, BoardTypeOK
<1>7. ~loadsCrossed /\ board # NoTask /\ a.rows # NoTask => a.at >= board.at
  BY <1>1, <1>5 DEF BoardInv, NothingOlder
<1>8. a.at <= changes
  BY <1>1, <1>5 DEF BoardInv, NothingOlder
<1> QED
  BY <1>1, <1>5, <1>6, <1>7, <1>8, LoadReads DEF ReadRoster

LEMMA LoadBegins ==
  ASSUME BoardInv, NEW l \in BoardLoads, NEW silent \in BOOLEAN, BeginLoad(l, silent)
  PROVE  BoardInv'
<1>1. PICK a \in Fetching : a = Asking(silent) /\ a.rows = NoTask /\ a.at = 0 /\ a.silent = silent
  BY AskingReads
<1>2. fetch' = [fetch EXCEPT ![l] = a] /\ fetch[l] = NoTask /\ UNCHANGED <<filed, changes, board>>
  BY <1>1 DEF BeginLoad
<1>3. fetch'[l] = a /\ \A k \in BoardLoads : k # l => fetch'[k] = fetch[k]
  BY <1>2 DEF BoardInv, BoardTypeOK
<1>4. /\ boardBusy' = (boardBusy \/ ~silent) /\ boardBusy' \in BOOLEAN /\ (silent \/ ~boardBusy)
      /\ loadsCrossed' \in BOOLEAN /\ (loadsCrossed => loadsCrossed')
  BY DEF BeginLoad, RefreshEnabled
<1>5. BoardTypeOK'
  BY <1>2, <1>4 DEF BoardInv, BoardTypeOK
<1>6. ASSUME ~loadsCrossed' PROVE ~loadsCrossed /\ \A k \in BoardLoads : fetch[k] = NoTask
  <2>1. ~loadsCrossed
    BY <1>4, <1>6
  <2>2. ASSUME NEW k \in BoardLoads, fetch[k] # NoTask PROVE FALSE
    <3>1. ~silent /\ ~fetch[k].silent
      BY <1>6, <2>2 DEF BeginLoad
    <3>2. boardBusy
      BY <2>1, <2>2, <3>1 DEF BoardInv, LoadsInTurn
    <3> QED
      BY <1>4, <3>1, <3>2
  <2> QED
    BY <2>1, <2>2
<1>7. LoadsInTurn'
  <2>1. ASSUME NEW k \in BoardLoads, fetch'[k] # NoTask, ~fetch'[k].silent, ~loadsCrossed'
        PROVE  boardBusy'
    <3>1. k = l
      BY <1>3, <1>6, <2>1
    <3> QED
      BY <1>1, <1>3, <1>4, <2>1, <3>1
  <2>2. ASSUME ~loadsCrossed', NEW k \in BoardLoads, fetch'[k] # NoTask PROVE k = l
    BY <1>3, <1>6, <2>2
  <2> QED
    BY <2>1, <2>2 DEF LoadsInTurn
<1>8. NothingOlder'
  BY <1>1, <1>2, <1>3, <1>4 DEF BoardInv, BoardTypeOK, NothingOlder
<1> QED
  BY <1>2, <1>5, <1>7, <1>8 DEF BoardInv, BoardIsCounted

LEMMA LoadEnds ==
  ASSUME BoardInv, NEW l \in BoardLoads, EndLoad(l)
  PROVE  BoardInv' /\ (board # NoTask /\ ~loadsCrossed => board' = board \/ board'.at >= board.at)
<1>1. PICK a \in Fetching : a = fetch[l] /\ a # NoTask
  BY DEF EndLoad, BoardInv, BoardTypeOK
<1>2. fetch' = [fetch EXCEPT ![l] = NoTask] /\ UNCHANGED <<filed, changes, loadsCrossed>>
  BY DEF EndLoad
<1>3. fetch'[l] = NoTask /\ \A k \in BoardLoads : k # l => fetch'[k] = fetch[k]
  BY <1>2 DEF BoardInv, BoardTypeOK
<1>4. boardBusy' = (boardBusy /\ a.silent) /\ boardBusy' \in BOOLEAN
  BY <1>1 DEF EndLoad
<1>5. BoardTypeOK'
  BY <1>2, <1>4 DEF BoardInv, BoardTypeOK
<1>6. ASSUME ~loadsCrossed', NEW k \in BoardLoads PROVE fetch'[k] = NoTask
  BY <1>1, <1>2, <1>3, <1>6 DEF BoardInv, LoadsInTurn
<1>7. LoadsInTurn'
  BY <1>6 DEF LoadsInTurn
<1>8. CASE board' = board
  BY <1>2, <1>3, <1>5, <1>7, <1>8 DEF BoardInv, BoardIsCounted, NothingOlder
<1>9. CASE board' # board
  <2>1. /\ a.rows # NoTask
        /\ board' = [rows |-> a.rows, roster |-> a.roster, at |-> a.at,
                     summary |-> Summary(a.rows, a.roster)]
    BY <1>1, <1>9 DEF EndLoad
  <2>2. board'.rows = a.rows /\ board'.summary = Summary(board'.rows, board'.roster) /\ board'.at = a.at
    BY <2>1
  <2>3. a.rows \subseteq PublicRow /\ a.at \in Nat
    BY <1>1, <2>1 DEF Fetching
  <2>4. a.at <= changes
    BY <1>1, <2>1 DEF BoardInv, NothingOlder
  <2>5. NothingOlder'
    BY <1>2, <1>3, <1>6, <2>2, <2>3, <2>4 DEF BoardInv, NothingOlder
  <2>6. board # NoTask /\ ~loadsCrossed => board'.at >= board.at
    BY <1>1, <2>1, <2>2 DEF BoardInv, NothingOlder
  <2> QED
    BY <1>5, <1>7, <2>2, <2>3, <2>5, <2>6 DEF BoardInv, BoardIsCounted
<1> QED
  BY <1>8, <1>9

LEMMA NextBoard ==
  ASSUME BoardInv, [BoardNext]_boardVars
  PROVE  BoardInv' /\ (board # NoTask /\ ~loadsCrossed => board' = board \/ board'.at >= board.at)
<1>1. CASE \E l \in BoardLoads : EndLoad(l)
  BY <1>1, LoadEnds
<1>2. CASE ~ \E l \in BoardLoads : EndLoad(l)
  <2>1. CASE UNCHANGED boardVars
    BY <2>1 DEF boardVars, BoardInv, BoardTypeOK, BoardIsCounted, LoadsInTurn, NothingOlder
  <2>2. CASE BoardNext
    <3>1. UNCHANGED board
      BY <1>2, <2>2 DEF BoardNext, ChangeReport, ChangeTask, ReadReports, ReadRoster, BeginLoad
    <3> QED
      BY <1>2, <2>2, <3>1, ReportsChange, ReportsAreRead, RosterIsRead, LoadBegins DEF BoardNext
  <2> QED
    BY <2>1, <2>2
<1> QED
  BY <1>1, <1>2

LEMMA BoardHolds == BoardSpec => []BoardInv
<1>1. BoardInv /\ [BoardNext]_boardVars => BoardInv'
  BY NextBoard
<1> QED
  BY InitBoard, <1>1, PTL DEF BoardSpec

\* Whatever reports there are, under whatever words, and however loads overlap: the
\* number on a tile is that of the rows under it, or larger where the client's filter
\* is the narrower one; what `pending' counts stands under it or under `open'; and
\* what an older client left as Pending or Submitted stands under `pending'
\* (buildPublicStatusSummary, filterStatusBoardReports).
THEOREM TilesCountTheirRows == BoardSpec => []RowsUnderTile
<1>1. ASSUME BoardInv, board # NoTask PROVE RowsUnderTile
  <2>1. PICK rows \in SUBSET PublicRow : rows = board.rows
    BY <1>1 DEF BoardInv, BoardIsCounted
  <2>2. board.summary = Summary(rows, board.roster)
    BY <1>1, <2>1 DEF BoardInv, BoardIsCounted
  <2>3. /\ board.summary.total = Cardinality(rows)
        /\ board.summary.open = Cardinality({r \in rows : r.status \in OpenReportStatuses})
        /\ board.summary.pending = Cardinality({r \in rows : r.status \in PendingStatuses})
        /\ board.summary.resolved = Cardinality({r \in rows : r.status = "Resolved"})
        /\ board.summary.urgent = Cardinality(UrgentRows(rows))
    BY <2>2 DEF Summary
  <2>4. /\ FilterRows(rows, "urgent") = UrgentRows(rows)
        /\ FilterRows(rows, "resolved") = {r \in rows : r.status = "Resolved"}
        /\ FilterRows(rows, "total") = rows
        /\ FilterRows(rows, "pending") = {r \in rows : r.status = "Reported"}
        /\ FilterRows(rows, "open") = {r \in rows : r.status \in {"Assigned", "In Progress"}}
    BY DEF FilterRows, UrgentRows
  <2>5. ASSUME NEW r \in rows
        PROVE  /\ r.status \in ReportedAliases => r.status = "Reported"
               /\ r.status \in PendingStatuses => r.status \in {"Reported", "Assigned"}
    BY DEF PublicRow, ReportedAliases, PendingStatuses
  <2>6. FilterRows(rows, "open") \subseteq {r \in rows : r.status \in OpenReportStatuses}
    BY <2>4 DEF OpenReportStatuses
  <2>7. FilterRows(rows, "pending") \subseteq {r \in rows : r.status \in PendingStatuses}
    BY <2>4 DEF PendingStatuses, ReportedAliases
  <2>8. {r \in rows : r.status \in PendingStatuses}
          \subseteq FilterRows(rows, "pending") \cup FilterRows(rows, "open")
    BY <2>4, <2>5
  <2>9. /\ Cardinality(FilterRows(rows, "open")) <= board.summary.open
        /\ Cardinality(FilterRows(rows, "pending")) <= board.summary.pending
    <3>1. /\ FilterRows(rows, "open") \in SUBSET rows /\ FilterRows(rows, "pending") \in SUBSET rows
          /\ {r \in rows : r.status \in OpenReportStatuses} \in SUBSET rows
          /\ {r \in rows : r.status \in PendingStatuses} \in SUBSET rows
      BY <2>4
    <3>2. Cardinality(FilterRows(rows, "open"))
            <= Cardinality({r \in rows : r.status \in OpenReportStatuses})
      BY <2>6, <3>1, PublicRowsAreFinite
    <3>3. Cardinality(FilterRows(rows, "pending"))
            <= Cardinality({r \in rows : r.status \in PendingStatuses})
      BY <2>7, <3>1, PublicRowsAreFinite
    <3> QED
      BY <2>3, <3>2, <3>3
  <2>10. board.summary.pending
           <= Cardinality(FilterRows(rows, "pending") \cup FilterRows(rows, "open"))
    <3>1. FilterRows(rows, "pending") \cup FilterRows(rows, "open") \in SUBSET rows
      BY <2>4
    <3> QED
      BY <2>3, <2>8, <3>1, PublicRowsAreFinite
  <2>11. \A r \in rows : r.status \in ReportedAliases => r \in FilterRows(rows, "pending")
    BY <2>4, <2>5
  <2> QED
    BY <2>1, <2>3, <2>4, <2>9, <2>10, <2>11 DEF RowsUnderTile
<1>2. BoardInv => RowsUnderTile
  BY <1>1 DEF RowsUnderTile
<1> QED
  BY BoardHolds, <1>2, PTL

\* A board is replaced by an older one only when a silent load crossed another
\* (loadPublicStatusPanel).
THEOREM BoardOnlyAdvances == BoardSpec => BoardNotOlder
<1>1. BoardInv /\ [BoardNext]_boardVars => [board # NoTask /\ ~loadsCrossed => board'.at >= board.at]_board
  BY NextBoard
<1> QED
  BY BoardHolds, <1>1, PTL DEF BoardSpec, BoardNotOlder

-----------------------------------------------------------------------------
(* MigrationV1: what is copied refers to what was copied *)

Docs == UserDocs \cup CleanerDocs \cup ReportDocs
UnderWay == [run : Nat, step : {"users", "cleaners", "reports"}, left : SUBSET Docs,
             users : SUBSET UserDocs, cards : SUBSET CleanerDocs]
CopiedReports == [user : UserDocs \cup {NoDoc}, run : Nat, userMapped : BOOLEAN,
                  card : CleanerDocs \cup {NoDoc}, cardMapped : BOOLEAN]

MigTypeOK ==
  /\ supervisorRef \in [CleanerDocs -> UserDocs \cup {NoDoc}]
  /\ userRef \in [ReportDocs -> UserDocs \cup {NoDoc}]
  /\ cleanerRef \in [ReportDocs -> CleanerDocs \cup {NoDoc}]
  /\ newUser \subseteq UserDocs
  /\ newCards \subseteq CleanerDocs \X Nat \X (UserDocs \cup {NoDoc})
  /\ newReport \in [ReportDocs -> CopiedReports \cup {NoDoc}]
  /\ mig \in [run : Nat, step : {"stopped"}] \cup UnderWay

\* The maps of the run name what it has copied so far, and the rows are there: a
\* run that comes to the next collection has mapped the whole of the last.
MapsHold ==
  mig.step # "stopped" =>
    /\ mig.users \subseteq newUser
    /\ \A d \in mig.cards : \E c \in newCards : c[1] = d /\ c[2] = mig.run
    /\ mig.step = "users" => mig.left \subseteq UserDocs /\ mig.cards = {}
         /\ mig.users = UserDocs \ (NoIdNumber \cup mig.left)
    /\ mig.step # "users" => mig.users = UserDocs \ NoIdNumber
    /\ mig.step = "cleaners" => mig.left \subseteq CleanerDocs /\ mig.cards = CleanerDocs \ mig.left
    /\ mig.step = "reports" => mig.cards = CleanerDocs

MigInv == MigTypeOK /\ MapsHold /\ RefsResolve

LEMMA InitMigrates == MigInit => MigInv
BY DEF MigInit, MigInv, MigTypeOK, MapsHold, RefsResolve, Stopped

LEMMA UserMigrates == ASSUME MigInv, NEW d \in UserDocs, MigrateUser(d) PROVE MigInv'
<1> USE DEF MigInv
<1>1. mig \in UnderWay /\ mig.step = "users" /\ d \in mig.left
      /\ mig' = [mig EXCEPT !.left = @ \ {d}, !.users = @ \cup Mapped(d)]
      /\ newUser' = newUser \cup ({d} \ NoIdNumber)
      /\ UNCHANGED <<supervisorRef, userRef, cleanerRef, newCards, newReport>>
  BY DEF MigTypeOK, MigrateUser, Take, legacy
<1>2. mig' \in UnderWay /\ mig'.run = mig.run /\ mig'.step = "users" /\ mig'.left = mig.left \ {d}
      /\ mig'.users = mig.users \cup Mapped(d) /\ mig'.cards = mig.cards
  BY <1>1 DEF UnderWay, Mapped
<1>3. MigTypeOK'
  BY <1>1, <1>2 DEF MigTypeOK
<1>4. MapsHold'
  BY <1>1, <1>2 DEF MapsHold, Mapped
<1>5. RefsResolve'
  BY <1>1 DEF RefsResolve
<1> QED
  BY <1>3, <1>4, <1>5

LEMMA CleanerMigrates == ASSUME MigInv, NEW d \in CleanerDocs, MigrateCleaner(d) PROVE MigInv'
<1> USE DEF MigInv
<1> DEFINE card == <<d, mig.run, IF supervisorRef[d] \in mig.users THEN supervisorRef[d] ELSE NoDoc>>
<1>1. mig \in UnderWay /\ mig.step = "cleaners" /\ d \in mig.left
      /\ mig' = [mig EXCEPT !.left = @ \ {d}, !.cards = @ \cup {d}]
      /\ newCards' = newCards \cup {card}
      /\ UNCHANGED <<supervisorRef, userRef, cleanerRef, newUser, newReport>>
  BY DEF MigTypeOK, MigrateCleaner, Take, legacy
<1>2. mig' \in UnderWay /\ mig'.run = mig.run /\ mig'.step = "cleaners" /\ mig'.left = mig.left \ {d}
      /\ mig'.users = mig.users /\ mig'.cards = mig.cards \cup {d}
  BY <1>1 DEF UnderWay
<1>3. card \in CleanerDocs \X Nat \X (UserDocs \cup {NoDoc}) /\ card[1] = d /\ card[2] = mig.run
      /\ card[3] = IF supervisorRef[d] \in mig.users THEN supervisorRef[d] ELSE NoDoc
  BY <1>1 DEF MigTypeOK, UnderWay
<1> HIDE DEF card
<1>4. MigTypeOK'
  BY <1>1, <1>2, <1>3 DEF MigTypeOK
<1>5. MapsHold'
  BY <1>1, <1>2, <1>3 DEF MapsHold
<1>6. mig.users = UserDocs \ NoIdNumber /\ mig.users \subseteq newUser
  BY <1>1 DEF MapsHold
<1>7. RefsResolve'
  <2>1. /\ supervisorRef[card[1]] \in UserDocs \ NoIdNumber => card[3] = supervisorRef[card[1]]
        /\ card[3] # NoDoc => card[3] \in newUser
    BY <1>3, <1>6
  <2> QED
    BY <1>1, <2>1 DEF RefsResolve
<1> QED
  BY <1>4, <1>5, <1>7

LEMMA ReportMigrates == ASSUME MigInv, NEW d \in ReportDocs, MigrateReport(d) PROVE MigInv'
<1> USE DEF MigInv
<1>1. PICK r : r = [user |-> userRef[d], run |-> mig.run,
                    userMapped |-> userRef[d] \in mig.users,
                    card |-> cleanerRef[d], cardMapped |-> cleanerRef[d] \in mig.cards]
  OBVIOUS
<1>2. mig \in UnderWay /\ mig.step = "reports" /\ d \in mig.left
      /\ mig' = [mig EXCEPT !.left = @ \ {d}]
      /\ newReport' = [newReport EXCEPT ![d] = RowKept(@, r)]
      /\ UNCHANGED <<supervisorRef, userRef, cleanerRef, newUser, newCards>>
  BY <1>1 DEF MigTypeOK, MigrateReport, Take, legacy
<1>3. mig' \in UnderWay /\ mig'.run = mig.run /\ mig'.step = "reports"
      /\ mig'.users = mig.users /\ mig'.cards = mig.cards
  BY <1>2 DEF UnderWay
<1>4. r \in CopiedReports
  BY <1>1, <1>2 DEF MigTypeOK, UnderWay, CopiedReports
<1>5. MigTypeOK'
  BY <1>2, <1>3, <1>4 DEF MigTypeOK, RowKept
<1>6. MapsHold'
  BY <1>2, <1>3 DEF MapsHold
<1>7. /\ mig.users = UserDocs \ NoIdNumber /\ mig.cards = CleanerDocs
      /\ \A c \in mig.cards : \E k \in newCards : k[1] = c /\ k[2] = mig.run
  BY <1>2 DEF MapsHold
<1>8. /\ r.userMapped = (userRef[d] \in UserDocs \ NoIdNumber)
      /\ r.cardMapped = (cleanerRef[d] # NoDoc)
      /\ r.cardMapped => \E c \in newCards : c[1] = cleanerRef[d] /\ c[2] = r.run
  <2>1. cleanerRef[d] \in CleanerDocs \cup {NoDoc} /\ NoDoc \notin CleanerDocs
    BY MigrationAssumption DEF MigrationAssumption, MigTypeOK
  <2>2. r.userMapped = (userRef[d] \in mig.users) /\ r.cardMapped = (cleanerRef[d] \in mig.cards)
        /\ r.run = mig.run
    BY <1>1
  <2>3. (cleanerRef[d] \in mig.cards) = (cleanerRef[d] # NoDoc)
    BY <1>7, <2>1
  <2>4. cleanerRef[d] \in mig.cards => \E c \in newCards : c[1] = cleanerRef[d] /\ c[2] = r.run
    BY <1>7, <2>2
  <2> QED
    BY <1>7, <2>2, <2>3, <2>4, Zenon
<1>9. newReport'[d] \in {newReport[d], r} /\ \A e \in ReportDocs \ {d} : newReport'[e] = newReport[e]
  BY <1>2 DEF MigTypeOK, RowKept
<1>10. RefsResolve'
  BY <1>2, <1>8, <1>9 DEF RefsResolve
<1> QED
  BY <1>5, <1>6, <1>10

LEMMA RunMoves ==
  ASSUME MigInv, StartMigration \/ NextCollection \/ DieInMigration \/ UNCHANGED migVars
  PROVE  MigInv'
<1> USE DEF MigInv
<1>1. UNCHANGED <<supervisorRef, userRef, cleanerRef, newUser, newCards, newReport>>
  BY DEF StartMigration, NextCollection, DieInMigration, migVars, legacy
<1>2. RefsResolve'
  BY <1>1 DEF RefsResolve
<1>3. mig.run \in Nat
  BY DEF MigTypeOK, UnderWay
<1>4. CASE StartMigration
  <2>1. mig' = Left(mig.run + 1)
    BY <1>4 DEF StartMigration
  <2> QED
    BY <1>1, <1>2, <1>3, <2>1 DEF MigTypeOK, MapsHold, Left, UnderWay, Docs
<1>5. CASE DieInMigration \/ (NextCollection /\ mig.step = "reports")
  <2>1. mig' = Stopped(mig.run)
    BY <1>5 DEF DieInMigration, NextCollection
  <2> QED
    BY <1>1, <1>2, <1>3, <2>1 DEF MigTypeOK, MapsHold, Stopped
<1>6. CASE NextCollection /\ mig.step = "users"
  <2>1. mig' = [mig EXCEPT !.step = "cleaners", !.left = CleanerDocs]
        /\ mig \in UnderWay /\ mig.left = {}
    BY <1>6 DEF NextCollection, MigTypeOK
  <2>2. mig' \in UnderWay /\ mig'.step = "cleaners" /\ mig'.left = CleanerDocs
        /\ mig'.users = mig.users /\ mig'.cards = mig.cards /\ mig'.run = mig.run
    BY <2>1 DEF UnderWay, Docs
  <2> QED
    BY <1>1, <1>2, <1>6, <2>1, <2>2 DEF MigTypeOK, MapsHold
<1>7. CASE NextCollection /\ mig.step = "cleaners"
  <2>1. mig' = [mig EXCEPT !.step = "reports", !.left = ReportDocs]
        /\ mig \in UnderWay /\ mig.left = {}
    BY <1>7 DEF NextCollection, MigTypeOK
  <2>2. mig' \in UnderWay /\ mig'.step = "reports" /\ mig'.left = ReportDocs
        /\ mig'.users = mig.users /\ mig'.cards = mig.cards /\ mig'.run = mig.run
    BY <2>1 DEF UnderWay, Docs
  <2> QED
    BY <1>1, <1>2, <1>7, <2>1, <2>2 DEF MigTypeOK, MapsHold
<1>8. CASE UNCHANGED migVars
  BY <1>1, <1>2, <1>8 DEF migVars, MigTypeOK, MapsHold
<1> QED
  BY <1>4, <1>5, <1>6, <1>7, <1>8 DEF NextCollection, MigTypeOK, UnderWay

\* However often the migration dies between two documents and is run again, what it has
\* copied refers to the new rows of what the legacy documents named, as far as those could
\* be migrated (scripts/migrate-mongo-to-postgres.ts: userIdMap, cleanerIdMap).
THEOREM ReferencesLead == MigSpec => []RefsResolve
<1>1. MigInv /\ [MigNext]_migVars => MigInv'
  BY UserMigrates, CleanerMigrates, ReportMigrates, RunMoves DEF MigNext
<1>2. MigInv => RefsResolve
  BY DEF MigInv
<1> QED
  BY InitMigrates, <1>1, <1>2, PTL DEF MigSpec

-----------------------------------------------------------------------------
(* BootstrapV1: the roster and its supervisors *)

Supervised == UNION {[S -> LoginIds] : S \in SUBSET Locations}
Scripts == [step : {"tenant", "master", "supervisors", "cleaners", "find", "card"},
            dry : BOOLEAN, next : Nat \ {0}, by : Supervised, done : SUBSET LoginIds, found : Nat]

BootTypeOK ==
  /\ supervisorRows \in Seq(Rows \cup {Invalid}) /\ cleanerRows \in Seq(Rows \cup {Invalid})
  /\ staff \in [LoginIds -> StaffAccounts \cup {NoAccountYet}]
  /\ IsFiniteSet(cards)
  /\ \A c \in cards : c.id \in Nat \ {0} /\ c.workId \in LoginIds /\ c.supervisor \in LoginIds
  /\ boot \in {NotRunning} \cup Scripts
  /\ meddled \in BOOLEAN

\* An account that may supervise: the files gave it that role, if not last.
Supervises(l) ==
  /\ l \in LoginIds /\ staff[l] # NoAccountYet
  /\ staff[l].role = "supervisor" \/ ListedIn(cleanerRows, l)

ValidAt(i, p) == supervisorRows[i] # Invalid /\ supervisorRows[i].place = p

\* Of the rows read so far, each names a location that has a supervisor or somebody
\* who supervises elsewhere; and among those of one location there is a first.
RowsAreMet(b) ==
  \A i \in 1..(b.next - 1) : i <= Len(supervisorRows) /\ supervisorRows[i] # Invalid =>
    /\ \/ supervisorRows[i].place \in DOMAIN b.by
       \/ \E q \in DOMAIN b.by : b.by[q] = supervisorRows[i].login
    /\ \E f \in 1..i : /\ ValidAt(f, supervisorRows[i].place)
                       /\ \A j \in 1..(f - 1) : ~ValidAt(j, supervisorRows[i].place)

FirstMatches(b) ==
  \A p \in DOMAIN b.by :
    b.by[p] \in FirstAt(p) \/ \E q \in DOMAIN b.by : q # p /\ b.by[q] \in FirstAt(p)

\* The cleaner at hand is a valid row whose account is made; and when its card was
\* looked for, the one found is the only one.
CleanerAtHand(b) ==
  b.step \in {"find", "card"} =>
    /\ ~b.dry /\ b.next <= Len(cleanerRows) /\ cleanerRows[b.next] # Invalid
    /\ cleanerRows[b.next].place \in DOMAIN b.by
    /\ staff[cleanerRows[b.next].login] # NoAccountYet
    /\ b.step = "card" /\ ~meddled =>
         \A c \in cards : c.workId = cleanerRows[b.next].login => c.id = b.found

ScriptHolds(b) ==
  /\ b.step \in {"tenant", "master"} => b.next = 1
  /\ b.step = "supervisors" => b.next <= Len(supervisorRows) + 1 /\ RowsAreMet(b)
  /\ FirstMatches(b)
  /\ ~b.dry => \A p \in DOMAIN b.by : Supervises(b.by[p])
  /\ CleanerAtHand(b)

BootInv ==
  /\ BootTypeOK
  /\ boot # NotRunning => ScriptHolds(boot)
  /\ CardsAreSound

LEMMA RowIs ==
  ASSUME NEW rows \in Seq(Rows \cup {Invalid}), NEW i \in Nat \ {0}, i <= Len(rows),
         rows[i] # Invalid
  PROVE  rows[i] \in Rows /\ rows[i].login \in LoginIds /\ rows[i].place \in Locations
<1>1. rows[i] \in Rows \cup {Invalid}
  OBVIOUS
<1> QED
  BY <1>1 DEF Rows

LEMMA SupervisedIs ==
  ASSUME NEW f \in Supervised
  PROVE  DOMAIN f \subseteq Locations /\ \A p \in DOMAIN f : f[p] \in LoginIds
BY DEF Supervised

LEMMA OneMoreLocation ==
  ASSUME NEW f \in Supervised, NEW p \in Locations, NEW l \in LoginIds,
         NEW g, g = [q \in DOMAIN f \cup {p} |-> IF q = p THEN l ELSE f[q]]
  PROVE  /\ g \in Supervised /\ DOMAIN g = DOMAIN f \cup {p} /\ g[p] = l
         /\ \A q \in DOMAIN f : q # p => g[q] = f[q]
<1>1. DOMAIN f \subseteq Locations /\ \A q \in DOMAIN f : f[q] \in LoginIds
  BY SupervisedIs
<1>2. g \in [DOMAIN f \cup {p} -> LoginIds]
  BY <1>1
<1>3. DOMAIN f \cup {p} \in SUBSET Locations
  BY <1>1
<1> QED
  BY <1>2, <1>3 DEF Supervised

LEMMA BootIsScript ==
  ASSUME BootTypeOK, boot.step # "none"
  PROVE  /\ boot \in Scripts /\ boot # NotRunning
         /\ boot.next \in Nat \ {0} /\ boot.by \in Supervised /\ boot.dry \in BOOLEAN
BY DEF BootTypeOK, NotRunning, Scripts

LEMMA ScriptRuns == ASSUME NEW b \in Scripts PROVE b # NotRunning
BY DEF Scripts, NotRunning

\* Accounts are not taken away, and who supervises goes on doing so.
StaffStays ==
  /\ \A l \in LoginIds : staff[l] # NoAccountYet => staff'[l] # NoAccountYet
  /\ \A l \in LoginIds : Supervises(l) => Supervises(l)'

LEMMA StaffIsKept ==
  ASSUME UNCHANGED <<cleanerRows, staff>> PROVE StaffStays
BY DEF StaffStays, Supervises

LEMMA AccountUpserted ==
  ASSUME BootTypeOK, boot \in Scripts, UNCHANGED cleanerRows,
         NEW role \in {"supervisor", "cleaner"}, NEW row \in Rows, UpsertAccount(role, row),
         role = "cleaner" => ListedIn(cleanerRows, row.login)
  PROVE  /\ staff' \in [LoginIds -> StaffAccounts \cup {NoAccountYet}]
         /\ StaffStays
         /\ ~boot.dry => staff'[row.login] # NoAccountYet
         /\ ~boot.dry => Supervises(row.login)'
<1>1. row.login \in LoginIds /\ row.place \in Locations
  BY DEF Rows
<1>2. PICK a : a = [role |-> role, place |-> row.place]
  OBVIOUS
<1>3. a \in StaffAccounts /\ a # NoAccountYet /\ a.role = role
  <2>1. a \in StaffAccounts /\ a.role = role
    BY <1>1, <1>2 DEF StaffAccounts
  <2>2. NoAccountYet \notin StaffAccounts
    BY BootstrapAssumption DEF BootstrapAssumption
  <2> QED
    BY <2>1, <2>2
<1>4. staff' = IF boot.dry THEN staff ELSE [staff EXCEPT ![row.login] = a]
  BY <1>2 DEF UpsertAccount
<1>5. CASE boot.dry
  BY <1>4, <1>5, StaffIsKept DEF BootTypeOK
<1>6. CASE ~boot.dry
  <2>1. /\ staff' \in [LoginIds -> StaffAccounts \cup {NoAccountYet}]
        /\ staff'[row.login] = a /\ \A l \in LoginIds : l # row.login => staff'[l] = staff[l]
    BY <1>1, <1>3, <1>4, <1>6 DEF BootTypeOK
  <2>2. Supervises(row.login)'
    BY <1>1, <1>3, <2>1 DEF Supervises
  <2>3. StaffStays
    BY <1>3, <2>1, <2>2 DEF StaffStays, Supervises
  <2> QED
    BY <1>3, <2>1, <2>2, <2>3
<1> QED
  BY <1>5, <1>6

LEMMA SoundStays ==
  ASSUME BootTypeOK, CardsAreSound, StaffStays, UNCHANGED <<cleanerRows, cards, meddled>>
  PROVE  CardsAreSound'
<1>1. ASSUME ~meddled, NEW c \in cards
      PROVE  staff'[c.workId] # NoAccountYet /\ Supervises(c.supervisor)'
  BY <1>1 DEF BootTypeOK, CardsAreSound, StaffStays, Supervises
<1> QED
  BY <1>1 DEF CardsAreSound, Supervises

\* The script stays where it is, or the step leaves what its maps say alone.
LEMMA MapsStay ==
  ASSUME UNCHANGED <<supervisorRows, cleanerRows>>, NEW b
  PROVE  RowsAreMet(b)' = RowsAreMet(b) /\ FirstMatches(b)' = FirstMatches(b)
BY DEF RowsAreMet, FirstMatches, FirstAt, ValidAt

LEMMA ScriptStays ==
  ASSUME BootTypeOK, NEW b \in Scripts, ScriptHolds(b), StaffStays,
         UNCHANGED <<supervisorRows, cleanerRows>>,
         UNCHANGED <<cards, meddled>> \/ meddled'
  PROVE  ScriptHolds(b)'
<1>1. b.next \in Nat \ {0} /\ \A p \in DOMAIN b.by : b.by[p] \in LoginIds
  BY SupervisedIs DEF Scripts
<1>2. RowsAreMet(b)' = RowsAreMet(b) /\ FirstMatches(b)' = FirstMatches(b)
  BY MapsStay
<1>3. CleanerAtHand(b)'
  <2>1. ASSUME b.step \in {"find", "card"} PROVE cleanerRows[b.next].login \in LoginIds
    BY <1>1, <2>1, RowIs DEF ScriptHolds, CleanerAtHand, BootTypeOK
  <2> QED
    BY <2>1 DEF ScriptHolds, CleanerAtHand, StaffStays
<1>4. ~b.dry => \A p \in DOMAIN b.by : Supervises(b.by[p])'
  BY <1>1 DEF ScriptHolds, StaffStays
<1> QED
  BY <1>2, <1>3, <1>4 DEF ScriptHolds

LEMMA InitBoots == BootInit => BootInv
<1> SUFFICES ASSUME BootInit PROVE BootInv
  OBVIOUS
<1>1. supervisorRows \in Seq(Rows \cup {Invalid}) /\ cleanerRows \in Seq(Rows \cup {Invalid})
  BY BootstrapAssumption DEF BootstrapAssumption, BootInit
<1>2. IsFiniteSet({})
  BY FS_EmptySet
<1>3. staff \in [LoginIds -> StaffAccounts \cup {NoAccountYet}]
  BY DEF BootInit
<1> QED
  BY <1>1, <1>2, <1>3 DEF BootInit, BootInv, BootTypeOK, CardsAreSound

\* The steps that only move the script on, or end it.
LEMMA ScriptMoves ==
  ASSUME BootInv,
         \/ \E dry \in BOOLEAN : StartRun(dry)
         \/ UpsertTenant \/ CreateMaster \/ SupervisorsDone \/ EndRun \/ DieInRun
  PROVE  BootInv'
<1>0. UNCHANGED <<supervisorRows, cleanerRows, staff, cards, meddled>>
  BY DEF StartRun, UpsertTenant, CreateMaster, SupervisorsDone, EndRun, DieInRun, dbVars
<1>1. StaffStays
  BY <1>0, StaffIsKept
<1>2. CardsAreSound'
  BY <1>0, <1>1, SoundStays DEF BootInv
<1>3. ASSUME boot' \in {NotRunning} \cup Scripts PROVE BootTypeOK'
  BY <1>0, <1>3 DEF BootInv, BootTypeOK
<1>4. ASSUME NEW b \in Scripts, boot' = b, ScriptHolds(b) PROVE BootInv'
  <2>1. ScriptHolds(b)'
    BY <1>0, <1>1, <1>4, ScriptStays DEF BootInv
  <2>2. ScriptHolds(boot)'
    BY <1>4, <2>1 DEF ScriptHolds, RowsAreMet, FirstMatches, CleanerAtHand
  <2> QED
    BY <1>2, <1>3, <1>4, <2>2 DEF BootInv
<1>5. CASE EndRun \/ DieInRun
  BY <1>2, <1>3, <1>5 DEF EndRun, DieInRun, BootInv
<1>6. ASSUME NEW dry \in BOOLEAN, StartRun(dry) PROVE BootInv'
  <2>1. PICK e : e = [p \in {} |-> Invalid]
    OBVIOUS
  <2>2. e \in Supervised /\ DOMAIN e = {}
    <3>1. e \in [{} -> LoginIds]
      BY <2>1
    <3>2. {} \in SUBSET Locations
      OBVIOUS
    <3> QED
      BY <2>1, <3>1, <3>2 DEF Supervised
  <2>3. PICK b : b = [step |-> IF dry THEN "supervisors" ELSE "tenant", dry |-> dry, next |-> 1,
                      by |-> e, done |-> {}, found |-> 0]
    OBVIOUS
  <2>4. b \in Scripts /\ b.next = 1 /\ DOMAIN b.by = {} /\ b.step \notin {"find", "card"} /\ boot' = b
    BY <1>6, <2>1, <2>2, <2>3 DEF Scripts, StartRun
  <2>5. Len(supervisorRows) \in Nat
    BY DEF BootInv, BootTypeOK
  <2>6. ScriptHolds(b)
    BY <2>4, <2>5 DEF ScriptHolds, RowsAreMet, FirstMatches, CleanerAtHand
  <2> QED
    BY <1>4, <2>4, <2>6
<1>7. CASE UpsertTenant \/ CreateMaster
  <2>1. PICK s \in {"master", "supervisors"} : boot' = [boot EXCEPT !.step = s]
    BY <1>7 DEF UpsertTenant, CreateMaster
  <2>2. boot.step \in {"tenant", "master"} /\ boot \in Scripts /\ boot # NotRunning
    BY <1>7, BootIsScript DEF UpsertTenant, CreateMaster, Is, BootInv
  <2>3. PICK b : b = [boot EXCEPT !.step = s]
    OBVIOUS
  <2>4. b \in Scripts /\ b.step = s /\ b.next = boot.next /\ b.by = boot.by /\ b.dry = boot.dry
    BY <2>2, <2>3 DEF Scripts
  <2>5. boot.next = 1 /\ ScriptHolds(boot) /\ Len(supervisorRows) \in Nat
    BY <2>2 DEF BootInv, ScriptHolds, BootTypeOK
  <2>6. RowsAreMet(b)
    BY <2>4, <2>5 DEF RowsAreMet
  <2>7. ScriptHolds(b)
    BY <2>1, <2>4, <2>5, <2>6 DEF ScriptHolds, FirstMatches, CleanerAtHand
  <2> QED
    BY <1>4, <2>1, <2>3, <2>4, <2>7
<1>8. CASE SupervisorsDone
  <2>1. boot \in Scripts /\ boot # NotRunning /\ boot' = [boot EXCEPT !.step = "cleaners", !.next = 1]
    BY <1>8, BootIsScript DEF SupervisorsDone, Is, BootInv
  <2>2. PICK b : b = [boot EXCEPT !.step = "cleaners", !.next = 1]
    OBVIOUS
  <2>3. b \in Scripts /\ b.step = "cleaners" /\ b.next = 1 /\ b.by = boot.by /\ b.dry = boot.dry
    <3>1. boot \in Scripts /\ 1 \in Nat \ {0}
      BY <2>1
    <3> QED
      BY <2>2, <3>1 DEF Scripts
  <2>4. ScriptHolds(b)
    BY <2>1, <2>3 DEF BootInv, ScriptHolds, FirstMatches, CleanerAtHand
  <2> QED
    BY <1>4, <2>1, <2>2, <2>3, <2>4
<1> QED
  BY <1>5, <1>6, <1>7, <1>8

LEMMA FirstOfLocation ==
  ASSUME NEW f \in Nat, 1 <= f, f <= Len(supervisorRows), NEW p, ValidAt(f, p),
         \A j \in 1..(f - 1) : ~ValidAt(j, p)
  PROVE  supervisorRows[f].login \in FirstAt(p)
BY DEF FirstAt, ValidAt

\* A row of the supervisors' file: skipped, or a location more is supervised.
LEMMA SupervisorIsRead == ASSUME BootInv, SupervisorRow PROVE BootInv'
<1> DEFINE n == boot.next  row == supervisorRows[n]
<1>1. /\ boot \in Scripts /\ boot # NotRunning /\ n \in Nat \ {0} /\ boot.by \in Supervised
      /\ boot.dry \in BOOLEAN /\ boot.step = "supervisors" /\ ScriptHolds(boot)
  BY BootIsScript DEF SupervisorRow, Is, BootInv
<1>2. /\ n <= Len(supervisorRows) /\ Len(supervisorRows) \in Nat
      /\ UNCHANGED <<supervisorRows, cleanerRows, cards, meddled>>
  BY DEF SupervisorRow, BootInv, BootTypeOK
<1>3. /\ DOMAIN boot.by \subseteq Locations /\ \A p \in DOMAIN boot.by : boot.by[p] \in LoginIds
  BY <1>1, SupervisedIs
<1>4. row # Invalid => row \in Rows /\ row.login \in LoginIds /\ row.place \in Locations
  BY <1>1, <1>2, RowIs DEF BootInv, BootTypeOK
<1>5. RowsAreMet(boot) /\ FirstMatches(boot)
      /\ (~boot.dry => \A p \in DOMAIN boot.by : Supervises(boot.by[p]))
  BY <1>1 DEF ScriptHolds
\* Among the rows of a location there is a first, the row at hand included.
<1>6. ASSUME row # Invalid
      PROVE  \E f \in 1..n : ValidAt(f, row.place) /\ \A j \in 1..(f - 1) : ~ValidAt(j, row.place)
  <2>1. CASE \E i \in 1..(n - 1) : ValidAt(i, row.place)
    <3>1. PICK i \in 1..(n - 1) : ValidAt(i, row.place)
      BY <2>1
    <3>2. PICK f \in 1..i : ValidAt(f, row.place) /\ \A j \in 1..(f - 1) : ~ValidAt(j, row.place)
      BY <1>1, <1>2, <1>5, <3>1 DEF RowsAreMet, ValidAt
    <3> QED
      BY <1>1, <3>2
  <2>2. CASE ~\E i \in 1..(n - 1) : ValidAt(i, row.place)
    BY <1>1, <1>6, <2>2 DEF ValidAt
  <2> QED
    BY <2>1, <2>2
<1>7. ASSUME NEW b \in Scripts, boot' = b, b.step = "supervisors", b.next = n + 1, b.dry = boot.dry,
             staff' \in [LoginIds -> StaffAccounts \cup {NoAccountYet}], StaffStays,
             RowsAreMet(b), FirstMatches(b),
             ~b.dry => \A p \in DOMAIN b.by : Supervises(b.by[p])'
      PROVE  BootInv'
  <2>1. BootTypeOK'
    BY <1>2, <1>7 DEF BootInv, BootTypeOK
  <2>2. CardsAreSound'
    BY <1>2, <1>7, SoundStays DEF BootInv
  <2>3. RowsAreMet(b)' /\ FirstMatches(b)'
    BY <1>2, <1>7, MapsStay
  <2>4. ScriptHolds(b)'
    BY <1>1, <1>2, <1>7, <2>3 DEF ScriptHolds, CleanerAtHand
  <2>5. ScriptHolds(boot)'
    BY <1>7, <2>4 DEF ScriptHolds, RowsAreMet, FirstMatches, CleanerAtHand
  <2> QED
    BY <2>1, <2>2, <2>5 DEF BootInv
<1>8. CASE row = Invalid \/ (row # Invalid /\ Taken(row))
  <2>1. boot' = [boot EXCEPT !.next = @ + 1] /\ UNCHANGED staff
    BY <1>8 DEF SupervisorRow
  <2>2. PICK b : b = [boot EXCEPT !.next = @ + 1]
    OBVIOUS
  <2>3. b \in Scripts /\ b.step = "supervisors" /\ b.next = n + 1 /\ b.dry = boot.dry /\ b.by = boot.by
    BY <1>1, <2>2 DEF Scripts
  <2>4. StaffStays
    BY <1>2, <2>1, StaffIsKept
  <2>5. ASSUME row # Invalid
        PROVE  row.place \in DOMAIN b.by \/ \E q \in DOMAIN b.by : b.by[q] = row.login
    BY <1>8, <2>3, <2>5 DEF Taken
  <2>6. RowsAreMet(b)
    <3>1. \A i \in 1..(b.next - 1) : i = n \/ i \in 1..(n - 1)
      BY <1>1, <2>3
    <3>2. \A i \in 1..(n - 1) : i <= Len(supervisorRows) /\ supervisorRows[i] # Invalid =>
            /\ \/ supervisorRows[i].place \in DOMAIN b.by
               \/ \E q \in DOMAIN b.by : b.by[q] = supervisorRows[i].login
            /\ \E f \in 1..i : /\ ValidAt(f, supervisorRows[i].place)
                               /\ \A j \in 1..(f - 1) : ~ValidAt(j, supervisorRows[i].place)
      BY <1>5, <2>3 DEF RowsAreMet
    <3> QED
      BY <1>6, <2>5, <3>1, <3>2 DEF RowsAreMet
  <2>7. FirstMatches(b)
    BY <1>5, <2>3 DEF FirstMatches
  <2>8. ~b.dry => \A p \in DOMAIN b.by : Supervises(b.by[p])'
    BY <1>3, <1>5, <2>3, <2>4 DEF StaffStays
  <2>9. staff' \in [LoginIds -> StaffAccounts \cup {NoAccountYet}]
    BY <2>1 DEF BootInv, BootTypeOK
  <2> QED
    BY <1>7, <2>1, <2>2, <2>3, <2>4, <2>6, <2>7, <2>8, <2>9
<1>9. CASE row # Invalid /\ ~Taken(row)
  <2>a. PICK r \in Rows : r = row /\ r.place \in Locations /\ r.login \in LoginIds
    BY <1>4, <1>9
  <2>b. PICK by \in Supervised : by = boot.by
    BY <1>1
  <2>1. PICK g : g = [p \in DOMAIN by \cup {r.place} |-> IF p = r.place THEN r.login ELSE by[p]]
    OBVIOUS
  <2>2. /\ g \in Supervised /\ DOMAIN g = DOMAIN boot.by \cup {row.place} /\ g[row.place] = row.login
        /\ \A q \in DOMAIN boot.by : q # row.place => g[q] = boot.by[q]
    <3>1. /\ g \in Supervised /\ DOMAIN g = DOMAIN by \cup {r.place} /\ g[r.place] = r.login
          /\ \A q \in DOMAIN by : q # r.place => g[q] = by[q]
      BY <2>a, <2>1, OneMoreLocation
    <3> QED
      BY <2>a, <2>b, <3>1
  <2>3. PICK b : b = [boot EXCEPT !.next = boot.next + 1, !.by = g]
    OBVIOUS
  <2>4. b \in Scripts /\ b.step = "supervisors" /\ b.next = n + 1 /\ b.dry = boot.dry /\ b.by = g
    <3>1. boot \in Scripts /\ boot.next + 1 \in Nat \ {0} /\ g \in Supervised
      BY <1>1, <2>2
    <3> QED
      BY <1>1, <2>3, <3>1 DEF Scripts
  <2>5. boot' = b /\ UpsertAccount("supervisor", r)
    BY <1>9, <2>a, <2>b, <2>1, <2>3 DEF SupervisorRow
  <2>6. /\ staff' \in [LoginIds -> StaffAccounts \cup {NoAccountYet}] /\ StaffStays
        /\ ~boot.dry => Supervises(r.login)'
    BY <1>1, <1>2, <2>5, AccountUpserted DEF BootInv
  <2>7. row.place \notin DOMAIN boot.by /\ \A q \in DOMAIN boot.by : boot.by[q] # row.login
    BY <1>9 DEF Taken
  <2>8. RowsAreMet(b)
    <3>1. \A i \in 1..(b.next - 1) : i = n \/ i \in 1..(n - 1)
      BY <1>1, <2>4
    <3>2. \A q \in DOMAIN boot.by : q \in DOMAIN g /\ g[q] = boot.by[q]
      BY <2>2, <2>7
    <3> QED
      BY <1>5, <1>6, <1>9, <2>2, <2>4, <3>1, <3>2 DEF RowsAreMet
  <2>9. FirstMatches(b)
    <3>1. PICK f \in 1..n : ValidAt(f, row.place) /\ \A j \in 1..(f - 1) : ~ValidAt(j, row.place)
      BY <1>6, <1>9
    <3>2. supervisorRows[f].login \in FirstAt(row.place)
      BY <1>1, <1>2, <3>1, FirstOfLocation
    <3>3. g[row.place] \in FirstAt(row.place)
             \/ \E q \in DOMAIN g : q # row.place /\ g[q] \in FirstAt(row.place)
      <4>1. CASE f = n
        BY <2>2, <3>2, <4>1
      <4>2. CASE f # n
        <5>1. PICK q \in DOMAIN boot.by : boot.by[q] = supervisorRows[f].login
          BY <1>1, <1>2, <1>5, <2>7, <3>1, <4>2 DEF RowsAreMet, ValidAt
        <5> QED
          BY <2>2, <2>7, <3>2, <5>1
      <4> QED
        BY <4>1, <4>2
    <3>4. ASSUME NEW p \in DOMAIN boot.by
          PROVE  g[p] \in FirstAt(p) \/ \E q \in DOMAIN g : q # p /\ g[q] \in FirstAt(p)
      <4>1. boot.by[p] \in FirstAt(p) \/ \E q \in DOMAIN boot.by : q # p /\ boot.by[q] \in FirstAt(p)
        BY <1>5 DEF FirstMatches
      <4> QED
        BY <2>2, <2>7, <4>1
    <3> QED
      BY <2>2, <2>4, <3>3, <3>4 DEF FirstMatches
  <2>10. ~b.dry => \A p \in DOMAIN b.by : Supervises(b.by[p])'
    <3>1. ASSUME ~boot.dry, NEW p \in DOMAIN boot.by PROVE Supervises(g[p])'
      BY <1>3, <1>5, <2>2, <2>6, <2>7, <3>1 DEF StaffStays
    <3>2. ASSUME ~boot.dry PROVE Supervises(g[r.place])'
      BY <2>a, <2>2, <2>6, <3>2
    <3>3. \A p \in DOMAIN g : p = r.place \/ p \in DOMAIN boot.by
      BY <2>a, <2>2
    <3> QED
      BY <2>4, <3>1, <3>2, <3>3
  <2> HIDE DEF n, row
  <2> QED
    BY <1>7, <2>4, <2>5, <2>6, <2>8, <2>9, <2>10
<1> QED
  BY <1>8, <1>9

\* A row of the cleaners' file: skipped, or the cleaner's account is made.
LEMMA CleanerIsRead == ASSUME BootInv, CleanerRow PROVE BootInv'
<1>1. /\ boot \in Scripts /\ boot # NotRunning /\ boot.next \in Nat \ {0} /\ boot.by \in Supervised
      /\ boot.dry \in BOOLEAN /\ boot.step = "cleaners" /\ ScriptHolds(boot)
      /\ boot.done \subseteq LoginIds
  BY BootIsScript DEF CleanerRow, Is, BootInv, Scripts
<1>2. /\ boot.next <= Len(cleanerRows)
      /\ UNCHANGED <<supervisorRows, cleanerRows, cards, meddled>>
  BY DEF CleanerRow
<1>3. PICK row : row = cleanerRows[boot.next]
  OBVIOUS
<1>4. row # Invalid => row \in Rows /\ row.login \in LoginIds /\ row.place \in Locations
                       /\ ListedIn(cleanerRows, row.login)
  BY <1>1, <1>2, <1>3, RowIs DEF BootInv, BootTypeOK, ListedIn
<1>5. ASSUME NEW b \in Scripts, boot' = b, b.step \in {"cleaners", "find"},
             b.dry = boot.dry, b.by = boot.by,
             staff' \in [LoginIds -> StaffAccounts \cup {NoAccountYet}], StaffStays,
             CleanerAtHand(b)'
      PROVE  BootInv'
  <2>1. BootTypeOK'
    BY <1>2, <1>5 DEF BootInv, BootTypeOK
  <2>2. CardsAreSound'
    BY <1>2, <1>5, SoundStays DEF BootInv
  <2>3. FirstMatches(b)'
    <3>1. FirstMatches(b)
      BY <1>1, <1>5 DEF ScriptHolds, FirstMatches
    <3> QED
      BY <1>2, <3>1, MapsStay
  <2>4. ~b.dry => \A p \in DOMAIN b.by : Supervises(b.by[p])'
    <3>1. \A p \in DOMAIN b.by : b.by[p] \in LoginIds
      BY <1>1, <1>5, SupervisedIs
    <3> QED
      BY <1>1, <1>5, <3>1 DEF ScriptHolds, StaffStays
  <2>5. ScriptHolds(b)'
    BY <1>5, <2>3, <2>4 DEF ScriptHolds
  <2>6. ScriptHolds(boot)'
    BY <1>5, <2>5 DEF ScriptHolds, RowsAreMet, FirstMatches, CleanerAtHand
  <2> QED
    BY <2>1, <2>2, <2>6 DEF BootInv
<1>6. CASE row = Invalid \/ (row # Invalid /\ (row.login \in boot.done \/ row.place \notin DOMAIN boot.by))
  <2>1. boot' = [boot EXCEPT !.next = boot.next + 1] /\ UNCHANGED staff
    BY <1>3, <1>6 DEF CleanerRow
  <2>2. PICK b : b = [boot EXCEPT !.next = boot.next + 1]
    OBVIOUS
  <2>3. b \in Scripts /\ b.step = "cleaners" /\ b.dry = boot.dry /\ b.by = boot.by
    <3>1. boot \in Scripts /\ boot.next + 1 \in Nat \ {0}
      BY <1>1
    <3> QED
      BY <1>1, <2>2, <3>1 DEF Scripts
  <2>4. StaffStays /\ staff' \in [LoginIds -> StaffAccounts \cup {NoAccountYet}]
    BY <1>2, <2>1, StaffIsKept DEF BootInv, BootTypeOK
  <2>5. CleanerAtHand(b)'
    BY <2>3 DEF CleanerAtHand
  <2> QED
    BY <1>5, <2>1, <2>2, <2>3, <2>4, <2>5
<1>7. CASE row # Invalid /\ row.login \notin boot.done /\ row.place \in DOMAIN boot.by
  <2>1. /\ UpsertAccount("cleaner", row)
        /\ boot' = IF boot.dry
                     THEN [boot EXCEPT !.next = boot.next + 1, !.done = boot.done \cup {row.login}]
                     ELSE [boot EXCEPT !.step = "find"]
    BY <1>3, <1>7 DEF CleanerRow
  <2>2. /\ staff' \in [LoginIds -> StaffAccounts \cup {NoAccountYet}] /\ StaffStays
        /\ ~boot.dry => staff'[row.login] # NoAccountYet
    BY <1>1, <1>2, <1>4, <1>7, <2>1, AccountUpserted DEF BootInv
  <2>3. CASE boot.dry
    <3>1. PICK b : b = [boot EXCEPT !.next = boot.next + 1, !.done = boot.done \cup {row.login}]
      OBVIOUS
    <3>2. b \in Scripts /\ b.step = "cleaners" /\ b.dry = boot.dry /\ b.by = boot.by
      <4>1. boot \in Scripts /\ boot.next + 1 \in Nat \ {0} /\ boot.done \cup {row.login} \subseteq LoginIds
        BY <1>1, <1>4, <1>7
      <4> QED
        BY <1>1, <3>1, <4>1 DEF Scripts
    <3>3. CleanerAtHand(b)'
      BY <3>2 DEF CleanerAtHand
    <3> QED
      BY <1>5, <2>1, <2>2, <2>3, <3>1, <3>2, <3>3
  <2>4. CASE ~boot.dry
    <3>1. PICK b : b = [boot EXCEPT !.step = "find"]
      OBVIOUS
    <3>2. b \in Scripts /\ b.step = "find" /\ b.dry = boot.dry /\ b.by = boot.by /\ b.next = boot.next
      BY <1>1, <3>1 DEF Scripts
    <3>3. CleanerAtHand(b)'
      BY <1>2, <1>3, <1>7, <2>2, <2>4, <3>2 DEF CleanerAtHand
    <3> QED
      BY <1>5, <2>1, <2>2, <2>4, <3>1, <3>2, <3>3
  <2> QED
    BY <2>3, <2>4
<1> QED
  BY <1>6, <1>7

LEMMA CardIsFound == ASSUME BootInv, FindCard PROVE BootInv'
<1>1. /\ boot \in Scripts /\ boot # NotRunning /\ boot.next \in Nat \ {0} /\ boot.step = "find"
      /\ ScriptHolds(boot)
  BY BootIsScript DEF FindCard, Is, BootInv
<1>2. UNCHANGED <<supervisorRows, cleanerRows, staff, cards, meddled>>
  BY DEF FindCard, dbVars
<1>3. PICK row : row = cleanerRows[boot.next]
  OBVIOUS
<1>4. PICK c \in IF CardsOf(row) = {} THEN {0} ELSE {card.id : card \in CardsOf(row)} :
        boot' = [boot EXCEPT !.step = "card", !.found = c]
  BY <1>3 DEF FindCard
<1>5. c \in Nat
  BY <1>4 DEF CardsOf, BootInv, BootTypeOK
<1>6. PICK b : b = [boot EXCEPT !.step = "card", !.found = c]
  OBVIOUS
<1>7. b \in Scripts /\ b.step = "card" /\ b.found = c /\ b.next = boot.next
      /\ b.by = boot.by /\ b.dry = boot.dry
  BY <1>1, <1>5, <1>6 DEF Scripts
<1>8. ~meddled => \A k \in cards : k.workId = row.login => k.id = c
  BY <1>4 DEF CardsOf, BootInv, CardsAreSound
<1>9. ScriptHolds(b)
  <2>1. CleanerAtHand(boot) /\ FirstMatches(boot)
    BY <1>1 DEF ScriptHolds
  <2>2. CleanerAtHand(b)
    BY <1>1, <1>3, <1>7, <1>8, <2>1 DEF CleanerAtHand
  <2> QED
    BY <1>1, <1>7, <2>1, <2>2 DEF ScriptHolds, FirstMatches
<1>10. StaffStays
  BY <1>2, StaffIsKept
<1>11. ScriptHolds(b)'
  BY <1>2, <1>7, <1>9, <1>10, ScriptStays DEF BootInv
<1>12. ScriptHolds(boot)'
  BY <1>4, <1>6, <1>11 DEF ScriptHolds, RowsAreMet, FirstMatches, CleanerAtHand
<1>13. BootTypeOK' /\ CardsAreSound'
  BY <1>2, <1>4, <1>6, <1>7, <1>10, SoundStays DEF BootInv, BootTypeOK
<1> QED
  BY <1>12, <1>13 DEF BootInv

LEMMA CardIsWritten == ASSUME BootInv, WriteCard PROVE BootInv'
<1>1. /\ boot \in Scripts /\ boot # NotRunning /\ boot.next \in Nat \ {0} /\ boot.step = "card"
      /\ ScriptHolds(boot) /\ boot.by \in Supervised /\ boot.found \in Nat /\ boot.done \subseteq LoginIds
  BY BootIsScript DEF WriteCard, Is, BootInv, Scripts
<1>2. UNCHANGED <<supervisorRows, cleanerRows, staff, meddled>>
  BY DEF WriteCard
<1>3. PICK row : row = cleanerRows[boot.next]
  OBVIOUS
<1>4. /\ ~boot.dry /\ row # Invalid /\ row.place \in DOMAIN boot.by /\ staff[row.login] # NoAccountYet
      /\ boot.next <= Len(cleanerRows)
      /\ ~meddled => \A c \in cards : c.workId = row.login => c.id = boot.found
      /\ Supervises(boot.by[row.place]) /\ FirstMatches(boot)
  BY <1>1, <1>3 DEF ScriptHolds, CleanerAtHand
<1>5. row.login \in LoginIds /\ boot.by[row.place] \in LoginIds
  <2>1. row.login \in LoginIds
    BY <1>1, <1>3, <1>4, RowIs DEF BootInv, BootTypeOK
  <2> QED
    BY <1>1, <1>4, <2>1, SupervisedIs
<1>6. PICK id : id = IF boot.found = 0 THEN Cardinality(cards) + 1 ELSE boot.found
  OBVIOUS
<1>7. id \in Nat \ {0}
  BY <1>1, <1>6, FS_CardinalityType DEF BootInv, BootTypeOK
<1>8. PICK card : card = [id |-> id, workId |-> row.login, place |-> row.place,
                          supervisor |-> boot.by[row.place]]
  OBVIOUS
<1>9. cards' = {c \in cards : c.id # card.id} \cup {card}
      /\ boot' = [boot EXCEPT !.step = "cleaners", !.next = boot.next + 1,
                              !.done = boot.done \cup {row.login}, !.found = 0]
  BY <1>3, <1>6, <1>8 DEF WriteCard
<1>10. card.id = id /\ card.workId = row.login /\ card.supervisor = boot.by[row.place]
  BY <1>8
<1>11. IsFiniteSet(cards')
  <2>1. IsFiniteSet({c \in cards : c.id # card.id})
    BY FS_Subset DEF BootInv, BootTypeOK
  <2> QED
    BY <1>9, <2>1, FS_AddElement
<1>12. PICK b : b = [boot EXCEPT !.step = "cleaners", !.next = boot.next + 1,
                                 !.done = boot.done \cup {row.login}, !.found = 0]
  OBVIOUS
<1>13. b \in Scripts /\ b.step = "cleaners" /\ b.by = boot.by /\ b.dry = boot.dry
  <2>1. boot \in Scripts /\ boot.next + 1 \in Nat \ {0} /\ boot.done \cup {row.login} \subseteq LoginIds
    BY <1>1, <1>5
  <2> QED
    BY <1>12, <2>1 DEF Scripts
<1>14. BootTypeOK'
  BY <1>2, <1>5, <1>7, <1>9, <1>10, <1>11, <1>12, <1>13 DEF BootInv, BootTypeOK
<1>15. CardsAreSound'
  <2>1. SUFFICES ASSUME ~meddled PROVE CardsAreSound'
    BY <1>2 DEF CardsAreSound
  <2>2. ASSUME NEW c \in cards' PROVE c = card \/ (c \in cards /\ c.id # card.id)
    BY <1>9
  <2>3. \A c \in cards : c.workId = row.login /\ c.id # card.id => FALSE
    <3>1. ASSUME NEW c \in cards, c.workId = row.login PROVE c.id = card.id
      <4>1. c.id = boot.found /\ boot.found # 0
        BY <1>4, <2>1, <3>1 DEF BootInv, BootTypeOK
      <4> QED
        BY <1>6, <1>10, <4>1
    <3> QED
      BY <3>1
  <2>4. ASSUME NEW c \in cards', NEW d \in cards', c.workId = d.workId PROVE c.id = d.id
    BY <1>10, <2>1, <2>2, <2>3, <2>4 DEF BootInv, CardsAreSound
  <2>5. ASSUME NEW c \in cards'
        PROVE  staff[c.workId] # NoAccountYet /\ Supervises(c.supervisor)
    BY <1>4, <1>10, <2>1, <2>2 DEF BootInv, BootTypeOK, CardsAreSound, Supervises
  <2> QED
    BY <1>2, <2>4, <2>5 DEF CardsAreSound, Supervises
<1>16. ScriptHolds(b)'
  <2>1. StaffStays
    BY <1>2, StaffIsKept
  <2>2. FirstMatches(b)'
    BY <1>2, <1>4, <1>13, MapsStay DEF FirstMatches
  <2>3. ~b.dry => \A p \in DOMAIN b.by : Supervises(b.by[p])'
    <3>1. \A p \in DOMAIN b.by : b.by[p] \in LoginIds
      BY <1>1, <1>13, SupervisedIs
    <3> QED
      BY <1>1, <1>13, <2>1, <3>1 DEF ScriptHolds, StaffStays
  <2> QED
    BY <1>13, <2>2, <2>3 DEF ScriptHolds, CleanerAtHand
<1>17. ScriptHolds(boot)'
  BY <1>9, <1>12, <1>16 DEF ScriptHolds, RowsAreMet, FirstMatches, CleanerAtHand
<1> QED
  BY <1>14, <1>15, <1>17 DEF BootInv

\* The API in between, and no step at all.
LEMMA MeanwhileKeeps ==
  ASSUME BootInv,
         \/ \E l \in LoginIds, p \in Places : ApiAddsCard(l, p)
         \/ UNCHANGED bootVars
  PROVE  BootInv'
<1>1. UNCHANGED <<supervisorRows, cleanerRows, boot>>
  BY DEF ApiAddsCard, bootVars
<1>2. staff' \in [LoginIds -> StaffAccounts \cup {NoAccountYet}] /\ StaffStays
  <2>1. UNCHANGED <<cleanerRows, staff>>
    BY DEF ApiAddsCard, bootVars, dbVars
  <2> QED
    BY <2>1, StaffIsKept DEF BootInv, BootTypeOK
<1>3. UNCHANGED <<cards, meddled>> \/ meddled'
  BY DEF ApiAddsCard, bootVars, dbVars
<1>4. CardsAreSound'
  <2>1. CASE UNCHANGED <<cards, meddled>>
    BY <1>1, <1>2, <2>1, SoundStays DEF BootInv
  <2>2. CASE meddled'
    BY <2>2 DEF CardsAreSound
  <2> QED
    BY <1>3, <2>1, <2>2
<1>5. BootTypeOK'
  <2>1. IsFiniteSet(cards') /\ meddled' \in BOOLEAN
        /\ \A c \in cards' : c.id \in Nat \ {0} /\ c.workId \in LoginIds /\ c.supervisor \in LoginIds
    <3>1. CASE UNCHANGED <<cards, meddled>>
      BY <3>1 DEF BootInv, BootTypeOK
    <3>2. ASSUME NEW l \in LoginIds, NEW p \in Places, ApiAddsCard(l, p)
          PROVE  IsFiniteSet(cards') /\ meddled' \in BOOLEAN
                 /\ \A c \in cards' : c.id \in Nat \ {0} /\ c.workId \in LoginIds /\ c.supervisor \in LoginIds
      <4>1. PICK s \in LoginIds :
              cards' = cards \cup {[id |-> Cardinality(cards) + 1, workId |-> l, place |-> p, supervisor |-> s]}
        BY <3>2 DEF ApiAddsCard
      <4>2. Cardinality(cards) \in Nat
        BY FS_CardinalityType DEF BootInv, BootTypeOK
      <4>3. IsFiniteSet(cards')
        BY <4>1, FS_AddElement DEF BootInv, BootTypeOK
      <4>4. meddled'
        BY <3>2 DEF ApiAddsCard
      <4> QED
        BY <3>2, <4>1, <4>2, <4>3, <4>4 DEF BootInv, BootTypeOK, ApiAddsCard
    <3> QED
      BY <3>1, <3>2 DEF bootVars, dbVars
  <2> QED
    BY <1>1, <1>2, <2>1 DEF BootInv, BootTypeOK
<1>6. ASSUME boot' # NotRunning PROVE ScriptHolds(boot)'
  <2>1. boot # NotRunning /\ boot \in Scripts /\ ScriptHolds(boot)
    BY <1>1, <1>6 DEF BootInv, BootTypeOK
  <2>2. PICK b : b = boot
    OBVIOUS
  <2>3. ScriptHolds(b)'
    BY <1>1, <1>2, <1>3, <2>1, <2>2, ScriptStays DEF BootInv
  <2> QED
    BY <1>1, <2>2, <2>3 DEF ScriptHolds, RowsAreMet, FirstMatches, CleanerAtHand
<1> QED
  BY <1>4, <1>5, <1>6 DEF BootInv

\* However often the script dies, is run again, dry or not, and the API serves meanwhile:
\* a work id has one card, with its account and a supervisor of the files, unless the API
\* adds cards; and every run finds the same supervisor for a location
\* (scripts/bootstrap.ts: seedStaffFromCsv).
THEOREM RosterIsSound == BootSpec => []BootstrapInv
<1>1. BootInv /\ [BootNext]_bootVars => BootInv'
  BY ScriptMoves, SupervisorIsRead, CleanerIsRead, CardIsFound, CardIsWritten, MeanwhileKeeps
  DEF BootNext
<1>2. BootInv => BootstrapInv
  BY DEF BootInv, BootstrapInv, SupervisorIsFirstMatch, ScriptHolds, FirstMatches
<1> QED
  BY InitBoots, <1>1, <1>2, PTL DEF BootSpec

-----------------------------------------------------------------------------
(* MonitorV2: the figures of a load agree, and the rows are what they count *)

Stages == ({"absent"} \cup Labelled) \ {"cancelled", "closed"}

\* A load is for what the page shows, and its answers are those of one state
\* unless a report has moved since it began.
LoadIs(l) ==
  /\ DOMAIN l = {"org", "filter", "looked", "moved", "got"}
  /\ l.org = view /\ l.filter = filter /\ l.org # NoOrg
  /\ ~l.moved => \A q \in DOMAIN l.got : l.got[q] = AnswerTo(q, l.org, l.filter)

MonitorInv ==
  /\ stage \in [MonReports -> Stages] /\ filter \in Labelled \cup {NoOrg}
  /\ \A l \in load : LoadIs(l)
  /\ FiguresAgree /\ RowsMatchFilter

LEMMA CountsAre ==
  ASSUME NEW o, NEW X
  PROVE  /\ IsFiniteSet(Of(o, X)) /\ Cardinality(Of(o, X)) \in Nat
         /\ Cardinality(Of(o, X)) <= Cardinality(MonReports) /\ Cardinality(MonReports) \in Nat
<1>1. Of(o, X) \subseteq MonReports
  BY DEF Of
<1> QED
  BY <1>1, MonitorAssumption, FS_Subset, FS_CardinalityType

LEMMA CountsAdd ==
  ASSUME NEW o, NEW X, NEW Y, X \cap Y = {}
  PROVE  Cardinality(Of(o, X \cup Y)) = Cardinality(Of(o, X)) + Cardinality(Of(o, Y))
<1>1. PICK P, Q : P = Of(o, X) /\ Q = Of(o, Y)
  OBVIOUS
<1>2. Of(o, X \cup Y) = P \cup Q /\ P \cap Q = {}
  BY <1>1 DEF Of
<1>3. /\ IsFiniteSet(P) /\ Cardinality(P) \in Nat
      /\ IsFiniteSet(Q) /\ Cardinality(Q) \in Nat
  BY <1>1, CountsAre
<1>4. Cardinality(P \cup Q) = Cardinality(P) + Cardinality(Q) - Cardinality(P \cap Q)
  BY <1>3, FS_Union
<1>5. Cardinality(P \cap Q) = 0
  BY <1>2, FS_EmptySet
<1>6. Cardinality(P \cup Q) = Cardinality(P) + Cardinality(Q)
  BY <1>3, <1>4, <1>5
<1> QED
  BY <1>1, <1>2, <1>6

\* The figures of a state: each report is in one of them.
LEMMA FiguresAdd ==
  ASSUME NEW o, stage \in [MonReports -> Stages]
  PROVE  Cardinality(Of(o, Labelled)) =
           Cardinality(Of(o, OpenStatuses)) + Cardinality(Of(o, AwaitingReview))
             + Cardinality(Of(o, ResolvedStatuses))
<1>1. Of(o, Labelled) = Of(o, OpenStatuses \cup (AwaitingReview \cup ResolvedStatuses))
  BY DEF Of, Stages, Labelled, OpenStatuses, AwaitingReview, ResolvedStatuses
<1>2. /\ OpenStatuses \cap (AwaitingReview \cup ResolvedStatuses) = {}
      /\ AwaitingReview \cap ResolvedStatuses = {}
  BY DEF OpenStatuses, AwaitingReview, ResolvedStatuses
<1>3. Cardinality(Of(o, OpenStatuses \cup (AwaitingReview \cup ResolvedStatuses))) =
        Cardinality(Of(o, OpenStatuses)) + Cardinality(Of(o, AwaitingReview \cup ResolvedStatuses))
  BY <1>2, CountsAdd
<1>4. Cardinality(Of(o, AwaitingReview \cup ResolvedStatuses)) =
        Cardinality(Of(o, AwaitingReview)) + Cardinality(Of(o, ResolvedStatuses))
  BY <1>2, CountsAdd
<1>5. /\ Cardinality(Of(o, OpenStatuses)) \in Nat /\ Cardinality(Of(o, AwaitingReview)) \in Nat
      /\ Cardinality(Of(o, ResolvedStatuses)) \in Nat
  BY CountsAre
<1> QED
  BY <1>1, <1>3, <1>4, <1>5

LEMMA LabelledIsFinite == IsFiniteSet(Labelled)
<1>1. IsFiniteSet({"submitted"} \cup {"assigned"} \cup {"accepted_by_cleaner"})
  BY FS_Singleton, FS_Union
<1>2. IsFiniteSet({"in_progress"} \cup {"resolved_by_cleaner"} \cup {"endorsed_by_supervisor"})
  BY FS_Singleton, FS_Union
<1>3. IsFiniteSet({"closed"} \cup {"rejected_by_cleaner"})
  BY FS_Singleton, FS_Union
<1>4. IsFiniteSet({"rejected_by_supervisor"} \cup {"cancelled"})
  BY FS_Singleton, FS_Union
<1>5. PICK A, B, C, D : /\ A = {"submitted", "assigned", "accepted_by_cleaner"}
                        /\ B = {"in_progress", "resolved_by_cleaner", "endorsed_by_supervisor"}
                        /\ C = {"closed", "rejected_by_cleaner"}
                        /\ D = {"rejected_by_supervisor", "cancelled"}
  OBVIOUS
<1>6. IsFiniteSet(A) /\ IsFiniteSet(B) /\ IsFiniteSet(C) /\ IsFiniteSet(D)
  <2>1. /\ A = {"submitted"} \cup {"assigned"} \cup {"accepted_by_cleaner"}
        /\ B = {"in_progress"} \cup {"resolved_by_cleaner"} \cup {"endorsed_by_supervisor"}
        /\ C = {"closed"} \cup {"rejected_by_cleaner"}
        /\ D = {"rejected_by_supervisor"} \cup {"cancelled"}
    BY <1>5
  <2> QED
    BY <1>1, <1>2, <1>3, <1>4, <2>1
<1>7. IsFiniteSet((A \cup B) \cup (C \cup D))
  BY <1>6, FS_Union
<1>8. Labelled = (A \cup B) \cup (C \cup D)
  BY <1>5 DEF Labelled
<1> QED
  BY <1>7, <1>8

\* The counts per status add up to the count of the statuses.
Pairs(f, S) == {p \in S \X (1..Cardinality(MonReports)) : p[2] <= f[p[1]]}

LEMMA OneColumn ==
  ASSUME NEW f, NEW s, NEW m \in Nat, f[s] = m, m <= Cardinality(MonReports)
  PROVE  IsFiniteSet(Pairs(f, {s})) /\ Cardinality(Pairs(f, {s})) = m
<1>1. Cardinality(MonReports) \in Nat
  BY MonitorAssumption, FS_CardinalityType
<1>2. Pairs(f, {s}) = {<<s, n>> : n \in 1..m}
  BY <1>1 DEF Pairs
<1>3. PICK g : g = [n \in 1..m |-> <<s, n>>]
  OBVIOUS
<1>4. g \in Surjection(1..m, Pairs(f, {s})) /\ g \in Injection(1..m, Pairs(f, {s}))
  BY <1>2, <1>3 DEF Injection, Surjection, IsInjective
<1>5. IsFiniteSet(1..m) /\ Cardinality(1..m) = m
  BY FS_Interval
<1>6. PICK I, P : I = 1..m /\ P = Pairs(f, {s})
  OBVIOUS
<1>7. g \in Surjection(I, P) /\ g \in Injection(I, P) /\ IsFiniteSet(I) /\ Cardinality(I) = m
  BY <1>4, <1>5, <1>6
<1>8. IsFiniteSet(P) /\ Cardinality(P) = Cardinality(I)
  BY <1>7, FS_Surjection
<1> QED
  BY <1>6, <1>7, <1>8

LEMMA SumsAre ==
  ASSUME NEW o, NEW X \in SUBSET Labelled, NEW f, f = [s \in Labelled |-> Cardinality(Of(o, {s}))]
  PROVE  SumOf(f, X) = Cardinality(Of(o, X))
<1> DEFINE Good(A) == IsFiniteSet(Pairs(f, A)) /\ Cardinality(Pairs(f, A)) = Cardinality(Of(o, A))
           T == {A \in SUBSET Labelled : ~Good(A)}
<1>1. T = {}
  <2> SUFFICES ASSUME T # {} PROVE FALSE
    OBVIOUS
  <2>1. IsWellFoundedOn(StrictSubsetOrdering(Labelled), SUBSET Labelled)
    BY LabelledIsFinite, FS_StrictSubsetOrderingWellFounded, FS_FiniteSubsetsOfFinite
  <2>2. T \subseteq SUBSET Labelled
    OBVIOUS
  <2> HIDE DEF T
  <2>3. PICK A \in T : \A B \in T : <<B, A>> \notin StrictSubsetOrdering(Labelled)
    BY <2>1, <2>2, WFMin
  <2>4. A \in SUBSET Labelled /\ ~Good(A)
    BY DEF T
  <2>5. A # {}
    <3>1. Pairs(f, {}) = {} /\ Of(o, {}) = {}
      BY DEF Pairs, Of
    <3>2. Good({})
      BY <3>1, FS_EmptySet
    <3> QED
      BY <2>4, <3>2
  <2>6. PICK s : s \in A
    BY <2>5
  <2>7. PICK B : B = A \ {s}
    OBVIOUS
  <2>8. Good(B)
    <3>1. B \in SUBSET Labelled /\ B \subseteq A /\ B # A
      BY <2>4, <2>6, <2>7
    <3>2. <<B, A>> \in StrictSubsetOrdering(Labelled)
      BY <2>4, <3>1 DEF StrictSubsetOrdering
    <3> QED
      BY <2>3, <3>1, <3>2 DEF T
  <2>9. PICK m \in Nat : m = Cardinality(Of(o, {s})) /\ m <= Cardinality(MonReports)
    BY CountsAre
  <2>10. f[s] = m
    BY <2>4, <2>6, <2>9
  <2>11. IsFiniteSet(Pairs(f, {s})) /\ Cardinality(Pairs(f, {s})) = m
    BY <2>9, <2>10, OneColumn
  <2>12. /\ Pairs(f, A) = Pairs(f, B) \cup Pairs(f, {s}) /\ Pairs(f, B) \cap Pairs(f, {s}) = {}
         /\ A = B \cup {s} /\ B \cap {s} = {}
    BY <2>6, <2>7 DEF Pairs
  <2>13. /\ IsFiniteSet(Pairs(f, A))
         /\ Cardinality(Pairs(f, A)) = Cardinality(Pairs(f, B)) + m - 0
    <3>1. PICK P, Q : P = Pairs(f, B) /\ Q = Pairs(f, {s})
      OBVIOUS
    <3>2. IsFiniteSet(P) /\ IsFiniteSet(Q) /\ P \cap Q = {} /\ Cardinality(Q) = m
      BY <2>8, <2>11, <2>12, <3>1
    <3>3. /\ IsFiniteSet(P \cup Q)
          /\ Cardinality(P \cup Q) = Cardinality(P) + Cardinality(Q) - Cardinality(P \cap Q)
      BY <3>2, FS_Union
    <3>4. Cardinality(P \cap Q) = 0
      BY <3>2, FS_EmptySet
    <3> QED
      BY <2>12, <3>1, <3>2, <3>3, <3>4
  <2>14. Cardinality(Of(o, A)) = Cardinality(Of(o, B)) + m
    BY <2>9, <2>12, CountsAdd
  <2>15. Cardinality(Of(o, B)) \in Nat
    BY CountsAre
  <2> QED
    BY <2>4, <2>8, <2>13, <2>14, <2>15
<1>2. Good(X)
  BY <1>1
<1> QED
  BY <1>2 DEF SumOf, Pairs

\* The newest of some reports are as many as there are, up to the limit.
LEMMA OldestExists ==
  ASSUME NEW S \in SUBSET Nat, IsFiniteSet(S), S # {}
  PROVE  \E x \in S : \A y \in S : x <= y
<1> DEFINE T == {A \in SUBSET S : A # {} /\ ~ \E x \in A : \A y \in A : x <= y}
<1>1. T = {}
  <2> SUFFICES ASSUME T # {} PROVE FALSE
    OBVIOUS
  <2>1. IsWellFoundedOn(StrictSubsetOrdering(S), SUBSET S)
    BY FS_StrictSubsetOrderingWellFounded, FS_FiniteSubsetsOfFinite
  <2>2. T \subseteq SUBSET S
    OBVIOUS
  <2> HIDE DEF T
  <2>3. PICK A \in T : \A B \in T : <<B, A>> \notin StrictSubsetOrdering(S)
    BY <2>1, <2>2, WFMin
  <2> USE DEF T
  <2>4. PICK x \in A : x \in Nat
    OBVIOUS
  <2>5. A \ {x} \notin T
    BY <2>3, <2>4 DEF StrictSubsetOrdering
  <2>6. PICK y \in A : (A \ {x} = {} => y = x) /\ \A k \in A \ {x} : y <= k
    BY <2>5
  <2>7. x \in Nat /\ y \in Nat /\ \A k \in A : k \in Nat
    OBVIOUS
  <2>8. \A k \in A : (IF x <= y THEN x ELSE y) <= k
    BY <2>6, <2>7
  <2> QED
    BY <2>4, <2>8
<1> QED
  BY <1>1

AtMost(n) == IF n < PageLimit THEN n ELSE PageLimit

LEMMA NewestAre ==
  ASSUME NEW S \in SUBSET Nat, IsFiniteSet(S)
  PROVE  Cardinality(Newest(S)) = AtMost(Cardinality(S))
<1> DEFINE T == {A \in SUBSET S : Cardinality(Newest(A)) # AtMost(Cardinality(A))}
<1>0. PageLimit \in Nat /\ PageLimit > 0
  BY MonitorAssumption
<1>1. T = {}
  <2> SUFFICES ASSUME T # {} PROVE FALSE
    OBVIOUS
  <2>1. IsWellFoundedOn(StrictSubsetOrdering(S), SUBSET S)
    BY FS_StrictSubsetOrderingWellFounded, FS_FiniteSubsetsOfFinite
  <2>2. T \subseteq SUBSET S
    OBVIOUS
  <2> HIDE DEF T
  <2>3. PICK A \in T : \A B \in T : <<B, A>> \notin StrictSubsetOrdering(S)
    BY <2>1, <2>2, WFMin
  <2>4. A \in SUBSET S /\ IsFiniteSet(A) /\ Cardinality(Newest(A)) # AtMost(Cardinality(A))
    BY FS_Subset DEF T
  <2>5. A # {}
    <3>1. Newest({}) = {}
      BY DEF Newest
    <3> QED
      BY <1>0, <2>4, <3>1, FS_EmptySet DEF AtMost
  <2>6. PICK x \in A : \A y \in A : x <= y
    BY <2>4, <2>5, OldestExists
  <2>7. PICK B : B = A \ {x}
    OBVIOUS
  <2>8. PICK n \in Nat : n = Cardinality(B) /\ Cardinality(A) = n + 1 /\ IsFiniteSet(B)
    <3>1. IsFiniteSet(B) /\ Cardinality(B) = Cardinality(A) - 1
      BY <2>4, <2>6, <2>7, FS_RemoveElement
    <3>2. Cardinality(A) \in Nat /\ Cardinality(B) \in Nat
      BY <2>4, <3>1, FS_CardinalityType
    <3> QED
      BY <3>1, <3>2
  <2>9. Cardinality(Newest(B)) = AtMost(n)
    <3>1. B \in SUBSET S /\ B \subseteq A /\ B # A
      BY <2>4, <2>6, <2>7
    <3>2. <<B, A>> \in StrictSubsetOrdering(S)
      BY <2>4, <3>1 DEF StrictSubsetOrdering
    <3> QED
      BY <2>3, <2>8, <3>1, <3>2 DEF T
  \* The oldest is behind all the others, and before none.
  <2>10. {y \in A : y > x} = B
    <3>1. \A y \in A : y \in Nat
      BY <2>4
    <3> QED
      BY <2>6, <2>7, <3>1
  <2>11. ASSUME NEW r \in B PROVE {y \in A : y > r} = {y \in B : y > r}
    <3>1. r \in Nat /\ x \in Nat /\ x <= r
      BY <2>4, <2>6, <2>7
    <3> QED
      BY <2>7, <3>1
  <2>12. Newest(A) = Newest(B) \cup (IF n < PageLimit THEN {x} ELSE {})
    BY <2>6, <2>7, <2>8, <2>10, <2>11 DEF Newest
  <2>13. IsFiniteSet(Newest(B)) /\ x \notin Newest(B)
    <3>1. Newest(B) \subseteq B
      BY DEF Newest
    <3> QED
      BY <2>7, <2>8, <3>1, FS_Subset
  <2>14. CASE n < PageLimit
    <3>1. Newest(A) = Newest(B) \cup {x}
      BY <2>12, <2>14
    <3>2. Cardinality(Newest(A)) = n + 1
      BY <2>9, <2>13, <2>14, <3>1, FS_AddElement DEF AtMost
    <3> QED
      BY <1>0, <2>4, <2>8, <2>14, <3>2 DEF AtMost
  <2>15. CASE ~(n < PageLimit)
    <3>1. Newest(A) = Newest(B)
      BY <2>12, <2>15
    <3> QED
      BY <1>0, <2>4, <2>8, <2>9, <2>15, <3>1 DEF AtMost
  <2> QED
    BY <2>14, <2>15
<1> QED
  BY <1>1

\* Statements of one state answer for one state.
LEMMA Answers ==
  ASSUME NEW o, NEW f
  PROVE  /\ AnswerTo("total", o, f) = Cardinality(Of(o, Labelled))
         /\ AnswerTo("open", o, f) = Cardinality(Of(o, OpenStatuses))
         /\ AnswerTo("awaiting", o, f) = Cardinality(Of(o, AwaitingReview))
         /\ AnswerTo("resolved", o, f) = Cardinality(Of(o, ResolvedStatuses))
         /\ AnswerTo("grouped", o, f) = [s \in Labelled |-> Cardinality(Of(o, {s}))]
         /\ AnswerTo("reports", o, f) = Newest(Of(o, IF f = NoOrg THEN Labelled ELSE {f}))
  BY DEF AnswerTo

LEMMA MonitorInitSound ==
  ASSUME MonitorInit
  PROVE  MonitorInv
<1> QED
  BY DEF MonitorInit, MonitorInv, FiguresAgree, RowsMatchFilter, Stages

\* What the page shows is sound when it shows what it showed.
LEMMA PageKept ==
  ASSUME FiguresAgree, RowsMatchFilter,
         UNCHANGED <<view, filter, loading, failed, overview, shown>>
  PROVE  FiguresAgree' /\ RowsMatchFilter'
  BY DEF FiguresAgree, RowsMatchFilter, SumOf

LEMMA FollowsTo ==
  ASSUME NEW s \in Stages
  PROVE  Follows(s) \subseteq Stages
  BY DEF Follows, Stages, Labelled

LEMMA MoveReportSound ==
  ASSUME MonitorInv, NEW r \in MonReports, MoveReport(r)
  PROVE  MonitorInv'
<1>1. stage' \in [MonReports -> Stages] /\ filter' \in Labelled \cup {NoOrg}
  BY FollowsTo DEF MonitorInv, MoveReport, pageVars
<1>2. ASSUME NEW k \in load' PROVE LoadIs(k)'
  <2>1. PICK l \in load : k = [l EXCEPT !.moved = TRUE]
    BY <1>2 DEF MoveReport
  <2>2. LoadIs(l)
    BY DEF MonitorInv
  <2>3. /\ DOMAIN k = {"org", "filter", "looked", "moved", "got"}
        /\ k.org = l.org /\ k.filter = l.filter /\ k.moved = TRUE
    BY <2>1, <2>2 DEF LoadIs
  <2> QED
    BY <2>2, <2>3 DEF LoadIs, MoveReport, pageVars
<1>3. FiguresAgree' /\ RowsMatchFilter'
  BY PageKept DEF MonitorInv, MoveReport, pageVars
<1> QED
  BY <1>1, <1>2, <1>3 DEF MonitorInv

\* A load of which nothing changes, while no report moves, is what it was.
LEMMA LoadKept ==
  ASSUME NEW l, LoadIs(l), UNCHANGED <<stage, view, filter>>
  PROVE  LoadIs(l)'
  BY DEF LoadIs, AnswerTo, Of

LEMMA CloseOrgSound ==
  ASSUME MonitorInv, NEW o \in Orgs, CloseOrg(o)
  PROVE  MonitorInv'
<1>1. \A l \in load' : LoadIs(l)'
  BY LoadKept DEF MonitorInv, CloseOrg, pageVars
<1>2. FiguresAgree' /\ RowsMatchFilter'
  BY PageKept DEF MonitorInv, CloseOrg, pageVars
<1> QED
  BY <1>1, <1>2 DEF MonitorInv, CloseOrg, pageVars

LEMMA ListOrgsSound ==
  ASSUME MonitorInv, ListOrgs
  PROVE  MonitorInv'
<1>1. \A l \in load' : LoadIs(l)'
  BY LoadKept DEF MonitorInv, ListOrgs
<1>2. FiguresAgree' /\ RowsMatchFilter'
  BY DEF MonitorInv, ListOrgs, FiguresAgree, RowsMatchFilter, SumOf
<1> QED
  BY <1>1, <1>2 DEF MonitorInv, ListOrgs

\* An effect begins: the answers on their way are for nobody.
LEMMA EffectSound ==
  ASSUME MonitorInv, NEW o, NEW f \in Labelled \cup {NoOrg}, o # NoOrg, Effect(o, f),
         UNCHANGED <<stage, overview, shown>>
  PROVE  MonitorInv'
<1>1. \A l \in load' : LoadIs(l)'
  <2>1. PICK k : k = [org |-> o, filter |-> f, looked |-> {}, moved |-> FALSE,
                      got |-> [q \in {} |-> 0]]
    OBVIOUS
  <2>2. load' = {k}
    BY <2>1 DEF Effect, Cancelled
  <2>3. LoadIs(k)'
    BY <2>1 DEF Effect, LoadIs
  <2> QED
    BY <2>2, <2>3
<1>2. FiguresAgree' /\ RowsMatchFilter'
  BY DEF MonitorInv, Effect, FiguresAgree, RowsMatchFilter, SumOf
<1> QED
  BY <1>1, <1>2 DEF MonitorInv, Effect

LEMMA OpenOrgSound ==
  ASSUME MonitorInv, NEW o \in Orgs, OpenOrg(o)
  PROVE  MonitorInv'
  BY EffectSound, MonitorAssumption DEF OpenOrg

LEMMA PickFilterSound ==
  ASSUME MonitorInv, NEW f \in Labelled \cup {NoOrg}, PickFilter(f)
  PROVE  MonitorInv'
<1>1. PICK g \in Labelled \cup {NoOrg} : g = IF f = filter THEN NoOrg ELSE f
  OBVIOUS
<1>2. Effect(view, g) /\ view # NoOrg /\ UNCHANGED <<stage, overview, shown>>
  BY <1>1 DEF PickFilter
<1> QED
  BY <1>2, EffectSound

LEMMA BackSound ==
  ASSUME MonitorInv, Back
  PROVE  MonitorInv'
  BY DEF MonitorInv, Back, Cancelled, FiguresAgree, RowsMatchFilter

\* A load that is refused changes what the page says, never what it shows.
LEMMA RejectSound ==
  ASSUME MonitorInv, NEW l \in load, Reject(l), UNCHANGED stage
  PROVE  MonitorInv'
<1>1. \A k \in load' : LoadIs(k)'
  BY LoadKept DEF MonitorInv, Reject
<1>2. FiguresAgree' /\ RowsMatchFilter'
  BY DEF MonitorInv, Reject, FiguresAgree, RowsMatchFilter, SumOf
<1> QED
  BY <1>1, <1>2 DEF MonitorInv, Reject

LEMMA StepSound ==
  ASSUME MonitorInv, NEW l \in load, NEW to, Step(l, to), LoadIs(to), UNCHANGED stage
  PROVE  MonitorInv'
<1>1. \A k \in load' : LoadIs(k)'
  BY LoadKept DEF MonitorInv, Step, pageVars
<1>2. FiguresAgree' /\ RowsMatchFilter'
  BY PageKept DEF MonitorInv, Step, pageVars
<1> QED
  BY <1>1, <1>2 DEF MonitorInv, Step, pageVars

LEMMA LookUpSound ==
  ASSUME MonitorInv, NEW l \in load, NEW request, LookUp(l, request)
  PROVE  MonitorInv'
<1>1. UNCHANGED stage
  BY DEF LookUp
<1>2. CASE l.org \in open
  <2>1. PICK to : to = [l EXCEPT !.looked = @ \cup {request}]
    OBVIOUS
  <2>2. Step(l, to)
    BY <1>2, <2>1 DEF LookUp
  <2>3. LoadIs(l)
    BY DEF MonitorInv
  <2>4. LoadIs(to)
    <3>1. /\ DOMAIN to = DOMAIN l /\ to.org = l.org /\ to.filter = l.filter
          /\ to.moved = l.moved /\ to.got = l.got
      BY <2>1, <2>3 DEF LoadIs
    <3> QED
      BY <2>3, <3>1 DEF LoadIs
  <2> QED
    BY <1>1, <2>2, <2>4, StepSound
<1>3. CASE l.org \notin open
  BY <1>1, <1>3, RejectSound DEF LookUp
<1> QED
  BY <1>2, <1>3

LEMMA QuerySound ==
  ASSUME MonitorInv, NEW l \in load, NEW q \in Queries, Query(l, q)
  PROVE  MonitorInv'
<1>1. UNCHANGED stage
  BY DEF Query
<1>2. PICK g : g = [p \in DOMAIN l.got \cup {q} |->
                     IF p = q THEN AnswerTo(q, l.org, l.filter) ELSE l.got[p]]
  OBVIOUS
<1>3. PICK to : to = [l EXCEPT !.got = g]
  OBVIOUS
<1>4. Step(l, to)
  BY <1>2, <1>3 DEF Query
<1>5. LoadIs(l)
  BY DEF MonitorInv
<1>6. /\ DOMAIN to = DOMAIN l /\ to.org = l.org /\ to.filter = l.filter
      /\ to.moved = l.moved /\ to.got = g
  BY <1>3, <1>5 DEF LoadIs
<1>7. ~l.moved => \A p \in DOMAIN g : g[p] = AnswerTo(p, l.org, l.filter)
  BY <1>2, <1>5 DEF LoadIs
<1>8. LoadIs(to)
  BY <1>5, <1>6, <1>7 DEF LoadIs
<1> QED
  BY <1>1, <1>4, <1>8, StepSound

\* What a load gathered, unless a report moved, is one state's: its figures add
\* up, and its rows are those its figures count.
LEMMA LoadAgrees ==
  ASSUME MonitorInv, NEW l \in load, ~l.moved, DOMAIN l.got = Queries
  PROVE  /\ l.got["total"] = l.got["open"] + l.got["awaiting"] + l.got["resolved"]
         /\ l.got["total"] = SumOf(l.got["grouped"], Labelled)
         /\ l.got["open"] = SumOf(l.got["grouped"], OpenStatuses)
         /\ l.got["resolved"] = SumOf(l.got["grouped"], ResolvedStatuses)
         /\ Cardinality(l.got["reports"]) =
              AtMost(IF filter = NoOrg THEN l.got["total"] ELSE l.got["grouped"][filter])
<1>1. LoadIs(l)
  BY DEF MonitorInv
<1>2. \A q \in Queries : l.got[q] = AnswerTo(q, l.org, filter)
  BY <1>1 DEF LoadIs
<1>3. PICK o : o = l.org
  OBVIOUS
<1>4. /\ l.got["total"] = Cardinality(Of(o, Labelled))
      /\ l.got["open"] = Cardinality(Of(o, OpenStatuses))
      /\ l.got["awaiting"] = Cardinality(Of(o, AwaitingReview))
      /\ l.got["resolved"] = Cardinality(Of(o, ResolvedStatuses))
      /\ l.got["grouped"] = [s \in Labelled |-> Cardinality(Of(o, {s}))]
      /\ l.got["reports"] = Newest(Of(o, IF filter = NoOrg THEN Labelled ELSE {filter}))
  <2>1. /\ l.got["total"] = AnswerTo("total", o, filter)
        /\ l.got["open"] = AnswerTo("open", o, filter)
        /\ l.got["awaiting"] = AnswerTo("awaiting", o, filter)
        /\ l.got["resolved"] = AnswerTo("resolved", o, filter)
        /\ l.got["grouped"] = AnswerTo("grouped", o, filter)
        /\ l.got["reports"] = AnswerTo("reports", o, filter)
    BY <1>2, <1>3 DEF Queries, OverviewQueries
  <2> QED
    BY <2>1, Answers
<1>5. l.got["total"] = l.got["open"] + l.got["awaiting"] + l.got["resolved"]
  BY <1>4, FiguresAdd DEF MonitorInv
<1>6. /\ l.got["total"] = SumOf(l.got["grouped"], Labelled)
      /\ l.got["open"] = SumOf(l.got["grouped"], OpenStatuses)
      /\ l.got["resolved"] = SumOf(l.got["grouped"], ResolvedStatuses)
  <2>1. /\ Labelled \in SUBSET Labelled /\ OpenStatuses \in SUBSET Labelled
        /\ ResolvedStatuses \in SUBSET Labelled
    BY DEF Labelled, OpenStatuses, ResolvedStatuses
  <2> QED
    BY <1>4, <2>1, SumsAre
<1>7. PICK X : X = IF filter = NoOrg THEN Labelled ELSE {filter}
  OBVIOUS
<1>8. Cardinality(Newest(Of(o, X))) = AtMost(Cardinality(Of(o, X)))
  <2>1. Of(o, X) \in SUBSET Nat /\ IsFiniteSet(Of(o, X))
    BY CountsAre, MonitorAssumption DEF Of
  <2> QED
    BY <2>1, NewestAre
<1>9. Cardinality(Of(o, X)) = IF filter = NoOrg THEN l.got["total"] ELSE l.got["grouped"][filter]
  BY <1>4, <1>7 DEF MonitorInv
<1>10. Cardinality(l.got["reports"]) =
         AtMost(IF filter = NoOrg THEN l.got["total"] ELSE l.got["grouped"][filter])
  BY <1>4, <1>7, <1>8, <1>9
<1> QED
  BY <1>5, <1>6, <1>10

LEMMA SettleSound ==
  ASSUME MonitorInv, NEW l \in load, Settle(l)
  PROVE  MonitorInv'
<1>1. \A k \in load' : LoadIs(k)'
  BY LoadKept DEF MonitorInv, Settle
<1>2. /\ LoadIs(l) /\ DOMAIN l.got = Queries
      /\ UNCHANGED <<stage, view, filter>>
  BY DEF MonitorInv, Settle
<1>3. /\ overview'.org = view /\ overview'.moved = l.moved
      /\ overview'.total = l.got["total"] /\ overview'.open = l.got["open"]
      /\ overview'.awaiting = l.got["awaiting"] /\ overview'.resolved = l.got["resolved"]
      /\ overview'.grouped = l.got["grouped"]
      /\ shown'.org = view /\ shown'.filter = filter /\ shown'.rows = l.got["reports"]
  BY <1>2 DEF Settle, LoadIs
<1>4. FiguresAgree'
  <2> SUFFICES ASSUME ~overview'.moved
               PROVE  /\ overview'.total = overview'.open + overview'.awaiting + overview'.resolved
                      /\ overview'.total = SumOf(overview'.grouped, Labelled)
                      /\ overview'.open = SumOf(overview'.grouped, OpenStatuses)
                      /\ overview'.resolved = SumOf(overview'.grouped, ResolvedStatuses)
    BY DEF FiguresAgree, SumOf
  <2> QED
    BY <1>2, <1>3, LoadAgrees
<1>5. RowsMatchFilter'
  <2>1. ASSUME ~overview'.moved
        PROVE  Cardinality(shown'.rows) =
                 AtMost(IF filter = NoOrg THEN overview'.total ELSE overview'.grouped[filter])
    BY <1>2, <1>3, <2>1, LoadAgrees
  <2> QED
    BY <1>2, <1>3, <2>1 DEF RowsMatchFilter, AtMost
<1> QED
  BY <1>1, <1>2, <1>4, <1>5 DEF MonitorInv

LEMMA MonitorNextSound ==
  ASSUME MonitorInv, [MonitorNext]_monitorVars
  PROVE  MonitorInv'
<1>1. CASE \E r \in MonReports : MoveReport(r)
  BY <1>1, MoveReportSound
<1>2. CASE \E o \in Orgs : CloseOrg(o) \/ OpenOrg(o)
  BY <1>2, CloseOrgSound, OpenOrgSound
<1>3. CASE ListOrgs \/ Back
  BY <1>3, ListOrgsSound, BackSound
<1>4. CASE \E f \in Labelled \cup {NoOrg} : PickFilter(f)
  BY <1>4, PickFilterSound
<1>5. ASSUME NEW l \in load,
             \/ \E request \in {"overview", "reports"} : LookUp(l, request)
             \/ \E q \in Queries : Query(l, q)
             \/ Settle(l) \/ RequestFails(l)
      PROVE  MonitorInv'
  <2>1. CASE \E request \in {"overview", "reports"} : LookUp(l, request)
    BY <2>1, LookUpSound
  <2>2. CASE \E q \in Queries : Query(l, q)
    BY <2>2, QuerySound
  <2>3. CASE Settle(l)
    BY <2>3, SettleSound
  <2>4. CASE RequestFails(l)
    BY <2>4, RejectSound DEF RequestFails
  <2> QED
    BY <1>5, <2>1, <2>2, <2>3, <2>4
<1>6. CASE UNCHANGED monitorVars
  <2>1. \A l \in load' : LoadIs(l)'
    BY <1>6, LoadKept DEF MonitorInv, monitorVars, pageVars
  <2>2. FiguresAgree' /\ RowsMatchFilter'
    BY <1>6, PageKept DEF MonitorInv, monitorVars, pageVars
  <2> QED
    BY <1>6, <2>1, <2>2 DEF MonitorInv, monitorVars, pageVars
<1> QED
  BY <1>1, <1>2, <1>3, <1>4, <1>5, <1>6 DEF MonitorNext

LEMMA MonitorIsSound == MonitorSpec => []MonitorInv
<1>1. MonitorInit => MonitorInv
  BY MonitorInitSound
<1>2. MonitorInv /\ [MonitorNext]_monitorVars => MonitorInv'
  BY MonitorNextSound
<1> QED
  BY <1>1, <1>2, PTL DEF MonitorSpec

\* getOrgOverview's figures, counted by five statements that share no snapshot,
\* count every report exactly once unless a report moved between them.
THEOREM FiguresAddUp == MonitorSpec => []FiguresAgree
<1>1. MonitorInv => FiguresAgree
  BY DEF MonitorInv
<1> QED
  BY <1>1, MonitorIsSound, PTL

\* OrgDetail, at rest, shows the answer for the organization and the filter it
\* names, with as many rows as its chip counts, whatever answers were cancelled.
THEOREM RowsAreCounted == MonitorSpec => []RowsMatchFilter
<1>1. MonitorInv => RowsMatchFilter
  BY DEF MonitorInv
<1> QED
  BY <1>1, MonitorIsSound, PTL
=============================================================================
