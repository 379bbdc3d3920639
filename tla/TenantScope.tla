----------------------------- MODULE TenantScope -----------------------------
(***************************************************************************)
(* How a request comes to act for a tenant, and what its statements then   *)
(* reach.  v1 attaches the token's principal and its tenant, and reads the *)
(* X-Tenant-Slug header only if there was no token; v2 reads the header    *)
(* first and looks the token's session up inside that tenant.  The Prisma  *)
(* extension adds the tenant in scope to every statement on a scoped       *)
(* model.  Slugs are resolved through a cache that lives as long as the    *)
(* process.  Roles are left out, and so is the check of session versions.  *)
(***************************************************************************)
EXTENDS FiniteSets

CONSTANTS
  Tenants, NoTenant,
  ApiCalls,           \* requests the API can have in flight
  TenantRows          \* rows of the scoped models

ASSUME TenantAssumption == NoTenant \notin Tenants

VARIABLES
  activeTenants,      \* Tenant.status = "active"
  slugCache,
  owner,              \* tenantId of each row, NoTenant while there is none
  http,               \* the requests
  touched,            \* history: <<tenant to act for, row's tenant>>, right after a statement
  activeSince         \* history: tenants active at some time since the process started

tenantVars == <<activeTenants, slugCache, owner, http, touched, activeSince>>

Answered == [step |-> "done"]
At(q, step) == http[q].step = step

\* A request as it arrives: the surface, whether its route asks for a token, the
\* slug of the header (or of DEFAULT_TENANT_SLUG) and the tenant of a valid token.
Arriving ==
  [step : {"attach", "resolve"}, surface : {"v1", "v2"}, protected : BOOLEAN,
   slug : Tenants \cup {NoTenant}, token : Tenants \cup {NoTenant},
   auth : {NoTenant}, scope : {NoTenant}]

TenantInit ==
  /\ activeTenants \in SUBSET Tenants
  /\ slugCache = {}
  /\ owner \in [TenantRows -> Tenants \cup {NoTenant}]
  /\ http = [q \in ApiCalls |-> Answered]
  /\ touched = <<>>
  /\ activeSince = activeTenants

Arrive(q) ==
  /\ http[q] = Answered
  /\ \E a \in Arriving :
       /\ a.step = (IF a.surface = "v1" THEN "attach" ELSE "resolve")
       /\ http' = [http EXCEPT ![q] = a]
  /\ touched' = <<>> /\ UNCHANGED <<activeTenants, slugCache, owner, activeSince>>

Proceed(q, step) == http' = [http EXCEPT ![q].step = step]
Enter(q, t, step) == http' = [http EXCEPT ![q].scope = t, ![q].step = step]
Refuse(q) == http' = [http EXCEPT ![q] = Answered]
TenantStill == touched' = <<>> /\ UNCHANGED <<activeTenants, slugCache, owner, activeSince>>

\* attachAuth: loadAuthContext enters the token's tenant before its first await, so
\* that the principal is looked for there; a principal that is gone, suspended or
\* logged out ends the request, on any route.
AttachAuth(q) ==
  /\ At(q, "attach")
  /\ IF http[q].token = NoTenant THEN Proceed(q, "resolve")
     ELSE \/ http' = [http EXCEPT ![q].scope = http[q].token, ![q].auth = http[q].token,
                                  ![q].step = "resolve"]
          \/ Refuse(q)
  /\ TenantStill

\* Mutant: the header is read whatever the token says.
SlugFirst(a) == a.slug # NoTenant

\* resolveTenant returns early when the token has named a tenant.
WantsSlug(a) == a.auth = NoTenant /\ a.slug # NoTenant

ResolveTenant(q) ==
  /\ At(q, "resolve")
  /\ IF ~WantsSlug(http[q]) THEN Proceed(q, "guard")
     ELSE IF http[q].slug \in slugCache THEN Enter(q, http[q].slug, "guard")
     ELSE Proceed(q, "lookup")
  /\ TenantStill

\* What resolveSlugToId adds to the cache once it has read the tenant.
Cacheable(t) == IF t \in activeTenants THEN {t} ELSE {}

\* The lookup has answered; a tenant that is unknown or inactive leaves no scope.
LookUpSlug(q) ==
  /\ At(q, "lookup")
  /\ slugCache' = slugCache \cup Cacheable(http[q].slug)
  /\ IF http[q].slug \in activeTenants THEN Enter(q, http[q].slug, "guard")
     ELSE Proceed(q, "guard")
  /\ touched' = <<>> /\ UNCHANGED <<activeTenants, owner, activeSince>>

\* requireTenant on the open routes; requireAuth on v1's others.  v2's requireV2Auth
\* finds the token's session only through the scope the header set, and enters
\* the tenant of the user it found.
Guard(q) ==
  /\ At(q, "guard")
  /\ LET a == http[q] IN
       CASE ~a.protected                       -> IF a.scope # NoTenant THEN Proceed(q, "query") ELSE Refuse(q)
         [] a.protected /\ a.surface = "v1"    -> IF a.auth # NoTenant THEN Proceed(q, "query") ELSE Refuse(q)
         [] a.protected /\ a.surface = "v2"    ->
              IF a.token # NoTenant /\ a.scope = a.token
              THEN http' = [http EXCEPT ![q].auth = a.token, ![q].scope = a.token, ![q].step = "query"]
              ELSE Refuse(q)
  /\ TenantStill

\* The tenant a request is to act for: its token's, or the header's if the route
\* asks for no token on v2, or none came on v1.
ActsFor(a) ==
  IF a.token # NoTenant /\ (a.surface = "v1" \/ a.protected) THEN a.token ELSE a.slug

Touch(q, t) == touched' = <<ActsFor(http[q]), t>>

\* READ_OPS and WRITE_OPS: { ...where, tenantId }
Reaches(a, r) == owner[r] # NoTenant /\ owner[r] = a.scope

ReadOrWrite(q, r) ==
  /\ At(q, "query") /\ Reaches(http[q], r)
  /\ Touch(q, owner[r])
  /\ \/ UNCHANGED owner
     \/ owner' = [owner EXCEPT ![r] = NoTenant]   \* delete, deleteMany
  /\ UNCHANGED <<activeTenants, slugCache, http, activeSince>>

\* CREATE_OPS; the upsert of a row of another tenant looks for it and creates.
CreateRow(q, r) ==
  /\ At(q, "query") /\ owner[r] = NoTenant
  /\ owner' = [owner EXCEPT ![r] = http[q].scope]
  /\ Touch(q, http[q].scope)
  /\ UNCHANGED <<activeTenants, slugCache, http, activeSince>>

Finish(q) == At(q, "query") /\ Refuse(q) /\ TenantStill

-----------------------------------------------------------------------------
\* Tenant rows are only changed by operators of the system.
Deactivate(t) ==
  /\ activeTenants' = activeTenants \ {t}
  /\ touched' = <<>> /\ UNCHANGED <<slugCache, owner, http, activeSince>>

Activate(t) ==
  /\ activeTenants' = activeTenants \cup {t} /\ activeSince' = activeSince \cup {t}
  /\ touched' = <<>> /\ UNCHANGED <<slugCache, owner, http>>

RestartApi ==
  /\ slugCache' = {} /\ touched' = <<>>
  /\ http' = [q \in ApiCalls |-> Answered]
  /\ activeSince' = activeTenants
  /\ UNCHANGED <<activeTenants, owner>>

TenantNext ==
  \/ \E q \in ApiCalls :
       \/ Arrive(q) \/ AttachAuth(q) \/ ResolveTenant(q) \/ LookUpSlug(q) \/ Guard(q) \/ Finish(q)
       \/ \E r \in TenantRows : ReadOrWrite(q, r) \/ CreateRow(q, r)
  \/ \E t \in Tenants : Deactivate(t) \/ Activate(t)
  \/ RestartApi

TenantSpec == TenantInit /\ [][TenantNext]_tenantVars

-----------------------------------------------------------------------------
(* Properties *)

\* Whatever the header says and however requests interleave, every row a request
\* reads, changes or creates belongs to the tenant the request is to act for.
RowsOfOneTenant == touched # <<>> => touched[1] = touched[2] /\ touched[2] # NoTenant

\* The cache may outlive a tenant's deactivation, but it never holds a tenant that
\* was not active at some time since the process started; a request without a
\* token therefore acts only for such a tenant.
CachedWasActive ==
  /\ slugCache \subseteq activeSince
  /\ \A q \in ApiCalls : http[q] # Answered /\ http[q].scope # NoTenant /\ http[q].auth = NoTenant
       => http[q].scope \in activeSince

\* No request leaves its tenant, and none enters a tenant that never was active.
TenantsAreApart == RowsOfOneTenant /\ CachedWasActive
=============================================================================
