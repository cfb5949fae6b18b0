--------------------------- MODULE TenantLifecycle ---------------------------
(***************************************************************************)
(* The life of tenants: create, resume, restore, reconcile and delete       *)
(* (internal/tenant/service.go) over the registry (internal/store) and the  *)
(* backends each tenant has objects in.                                     *)
(*                                                                          *)
(* Every HTTP request runs its handler in a goroutine of its own, and no    *)
(* lock spans a handler: two requests interleave at every call to the store *)
(* or to a backend.  A request here is a record of the handler's locals and *)
(* of where it stands; one action is the stretch of code up to the next     *)
(* such call.  A handler that returns, whatever the answer, leaves its slot *)
(* Idle.  A request may be cut off anywhere (its client went away and the   *)
(* context is cancelled, the store failed, the process died).               *)
(*                                                                          *)
(* Data is abstracted to what the properties tell apart: the objects one    *)
(* backend step writes for a tenant are all missing, partly there or all    *)
(* there; of a tenant's resources there is one of each kind; what a secret  *)
(* is, is left out.  built is what the backends have saved for a tenant:    *)
(* whether a saved network also runs is Fabric's subject.                   *)
(***************************************************************************)
EXTENDS IndexAllocation, Sequences, FiniteSets

CONSTANTS
    Tenants,       \* tenant names
    Requests,      \* slots for requests in flight
    Optional,      \* the optional backends this site has
    ForeignZones,  \* zones the API did not build, as records [zone, vni]
    Overlap,       \* FALSE: no two requests change one tenant at once
    MaxFaults,     \* bound on failed backend calls and cut-off requests
    MaxLosses,     \* bound on losses of the registry
    Issuable,      \* the kinds of resource that are issued
    None           \* no tenant

OptionalSteps == {"device-address", "log-store", "dashboards"}

ASSUME SiteAssumption ==
    /\ Optional \subseteq OptionalSteps
    /\ Issuable \subseteq {"broker-account", "wifi-key", "device-address", "workload"}
    /\ "device-address" \in Issuable => "device-address" \in Optional
    /\ "dashboards" \in Optional => "log-store" \in Optional
    /\ None \notin Tenants
    /\ \A z \in ForeignZones : z.zone \notin Tenants /\ z.vni \in Nat
    /\ Overlap \in BOOLEAN /\ MaxFaults \in Nat /\ MaxLosses \in Nat

VARIABLES
    row,      \* the registry: row[t] = [status, index]
    steps,    \* tenant_steps: the last recorded outcome of each step
    issued,   \* issued[t]: kinds of resource the registry has a row for
    built,    \* built[t][s]: how much of step s's objects is saved for t
    zoneVNI,  \* the VRF VNI of the zone named t on the fabric, 0 for no zone
    reverse,  \* reverse[i]: whose key the reverse zone of index i is bound to
    placed,   \* placed[t]: kinds of resource t has in a backend
    req,      \* the requests in flight
    faults, losses

registry == <<row, steps, issued>>
backends == <<built, zoneVNI, reverse, placed>>
vars == <<row, steps, issued, built, zoneVNI, reverse, placed, req, faults, losses>>

-----------------------------------------------------------------------------
Statuses == {"provisioning", "ready", "deleting"}

\* Steps that keep objects of the tenant itself, and kinds of resource.
ObjectSteps == {"dns", "resolver", "state", "network", "log-store", "dashboards"}
Kinds == {"broker-account", "wifi-key", "device-address", "workload"}
StepNames == ObjectSteps \cup {"broker-account", "wifi-key", "device-address"}

If(s) == IF s \in Optional THEN <<s>> ELSE <<>>

ensureSteps ==
    <<"dns", "resolver", "state", "network">>
        \o If("device-address") \o If("log-store") \o If("dashboards")

\* Mutant: the forwards are left on the resolver.
removeStepsNoResolver ==
    If("dashboards") \o If("log-store")
        \o <<"broker-account", "wifi-key", "device-address", "network", "dns", "state">>

removeSteps ==
    If("dashboards") \o If("log-store")
        \o <<"broker-account", "wifi-key", "device-address",
             "network", "resolver", "dns", "state">>

EnsureSet == {"dns", "resolver", "state", "network"} \cup Optional

\* How much of a step's objects is in place.
Missing == 0
Partly == 1
Full == 2
Levels == Missing .. Full

NoRow == [status |-> "absent", index |-> 0]
Present(t) == row[t].status # "absent"
NoSteps == [s \in StepNames |-> "none"]

-----------------------------------------------------------------------------
(* Requests.                                                                *)
Ops == {"create", "reconcile", "delete", "issue", "withdraw"}
ResourceOps == {"issue", "withdraw"}
Points == {"get", "claims", "insert", "secrets", "ensure", "failed", "demote",
           "check", "mark", "list", "remove", "unremoved",
           "rowdown", "place", "unplace", "rowaway"}

ClaimSet == [index : 1 .. ReservedIndex, zone : Tenants \cup {z.zone : z \in ForeignZones}]

\* asked: the index of the request; supplied: it brings the three secrets;
\* index: rec.Index as the handler read it; claims: what Fabric.Claims
\* answered; todo: the steps still to run; listed: the resources the handler
\* found rows of.
Idle == [pc |-> "idle", op |-> "none", tenant |-> None, asked |-> 0,
         supplied |-> FALSE, kind |-> "workload",
         index |-> 0, claims |-> {}, todo |-> <<>>, listed |-> {}]

RequestType ==
    [pc : Points, op : Ops, tenant : Tenants, asked : 0 .. MaxAllocatable,
     supplied : BOOLEAN, kind : Kinds, index : 0 .. MaxAllocatable,
     claims : SUBSET ClaimSet, todo : Seq(StepNames), listed : SUBSET Kinds]

InFlight == {r \in Requests : req[r].pc # "idle"}

End(r) == req' = [req EXCEPT ![r] = Idle]
Goto(r, point) == req' = [req EXCEPT ![r].pc = point]

\* Where a request's handler stands and for whom.
At(r, point) == req[r].pc = point

Init ==
    /\ row = [t \in Tenants |-> NoRow]
    /\ steps = [t \in Tenants |-> NoSteps]
    /\ issued = [t \in Tenants |-> {}]
    /\ built = [t \in Tenants |-> [s \in ObjectSteps |-> Missing]]
    /\ zoneVNI = [t \in Tenants |-> 0]
    /\ reverse = [i \in Indexes |-> None]
    /\ placed = [t \in Tenants |-> {}]
    /\ req = [r \in Requests |-> Idle]
    /\ faults = 0
    /\ losses = 0

\* A client calls.  Without Overlap a call that changes the tenant itself has
\* the tenant to itself, and one that changes a resource has the resource.
Begin(r, op, t, asked, supplied, kind) ==
    /\ At(r, "idle")
    /\ Overlap \/ \A q \in InFlight :
            req[q].tenant = t => /\ {op, req[q].op} \subseteq ResourceOps
                                 /\ req[q].kind # kind
    /\ req' = [req EXCEPT ![r] =
          [Idle EXCEPT !.pc = IF op \in {"create", "reconcile"} THEN "get" ELSE "check",
                       !.op = op, !.tenant = t,
                       !.asked = asked, !.supplied = supplied, !.kind = kind]]
    /\ UNCHANGED <<registry, backends, faults, losses>>

BeginCreate(r) ==
    \E t \in Tenants, asked \in 0 .. MaxAllocatable, supplied \in BOOLEAN :
        Begin(r, "create", t, asked, supplied, "workload")
BeginReconcile(r) ==
    \E t \in Tenants : Begin(r, "reconcile", t, 0, FALSE, "workload")
BeginDelete(r) ==
    \E t \in Tenants : Begin(r, "delete", t, 0, FALSE, "workload")
BeginResource(r) ==
    \E op \in ResourceOps, t \in Tenants, kind \in Issuable :
        Begin(r, op, t, 0, FALSE, kind)

-----------------------------------------------------------------------------
(* Create and Reconcile up to the first backend step.                       *)

\* ensure runs on rec alone: what the request asked for is spent.
StartEnsure(r, index) ==
    req' = [req EXCEPT ![r] = [Idle EXCEPT !.pc = "ensure", !.op = req[r].op,
                                 !.tenant = req[r].tenant,
                                 !.index = index, !.todo = ensureSteps]]

\* Mutants: a reconcile does not look at the status; a create of a tenant that
\* exists is always refused.
GetReconcilesDeleting(r) ==
    LET q == req[r]
        found == row[q.tenant]
    IN  /\ At(r, "get")
        /\ \/ q.op = "create" /\ found.status = "absent" /\ Goto(r, "claims")
           \/ q.op = "create" /\ found.status # "absent" /\ End(r)
           \/ q.op = "reconcile" /\ found.status # "absent" /\ StartEnsure(r, found.index)
           \/ q.op = "reconcile" /\ found.status = "absent" /\ End(r)
        /\ UNCHANGED <<registry, backends, faults, losses>>

GetNeverResumes(r) ==
    LET q == req[r]
        found == row[q.tenant]
    IN  /\ At(r, "get")
        /\ IF q.op = "create" /\ found.status = "absent" THEN Goto(r, "claims") ELSE End(r)
        /\ UNCHANGED <<registry, backends, faults, losses>>

\* Store.Get, and the switch on what it found.
Get(r) ==
    LET q == req[r]
        found == row[q.tenant]
    IN  /\ At(r, "get")
        /\ \/ /\ q.op = "create" /\ found.status = "absent"
              /\ Goto(r, "claims")
           \/ /\ q.op = "create"
              /\ \/ found.status = "provisioning"
                 \/ found.status = "ready" /\ q.supplied
              /\ req' = [req EXCEPT ![r].pc = "secrets", ![r].index = found.index]
           \/ /\ q.op = "create"              \* ErrExists, or still deleting
              /\ \/ found.status = "deleting"
                 \/ found.status = "ready" /\ ~q.supplied
              /\ End(r)
           \/ /\ q.op = "reconcile" /\ found.status \in {"provisioning", "ready"}
              /\ StartEnsure(r, found.index)
           \/ /\ q.op = "reconcile" /\ found.status \in {"absent", "deleting"}
              /\ End(r)
        /\ UNCHANGED <<registry, backends, faults, losses>>

\* createNew reads the fabric before it takes the allocation lock.
ReadClaims(r) ==
    /\ At(r, "claims")
    /\ req' = [req EXCEPT ![r].pc = "insert",
          ![r].claims = Claims({[zone |-> t, vni |-> zoneVNI[t]] :
                                    t \in {u \in Tenants : zoneVNI[u] # 0}}
                               \cup ForeignZones, {})]
    /\ UNCHANGED <<registry, backends, faults, losses>>

\* Store.Create: one transaction under the allocation lock.
Insert(r) ==
    LET q == req[r]
        held == {row[t].index : t \in {u \in Tenants : Present(u)}}
        n == pickIndex(q.tenant, q.asked, held, q.claims)
    IN  /\ At(r, "insert")
        /\ IF Present(q.tenant) \/ n = 0
           THEN End(r) /\ UNCHANGED row       \* ErrExists, ErrExhausted
           ELSE /\ row' = [row EXCEPT ![q.tenant] = [status |-> "provisioning", index |-> n]]
                /\ StartEnsure(r, n)
        /\ UNCHANGED <<steps, issued, backends, faults, losses>>

\* restoreExisting: Store.SetSecrets, then the steps.  No row is ErrNotFound.
SetSecrets(r) ==
    /\ At(r, "secrets")
    /\ IF Present(req[r].tenant) THEN StartEnsure(r, req[r].index) ELSE End(r)
    /\ UNCHANGED <<registry, backends, faults, losses>>

-----------------------------------------------------------------------------
(* ensure: every step in order, each recorded; ready at the end.            *)

RecordStep(t, s, outcome) ==
    steps' = IF Present(t) THEN [steps EXCEPT ![t][s] = outcome] ELSE steps

SetStatus(t, status) ==
    row' = IF Present(t) THEN [row EXCEPT ![t].status = status] ELSE row

\* The zone of this name already carries another VNI: Ensure refuses.
WrongZone(r) ==
    /\ Head(req[r].todo) = "network"
    /\ zoneVNI[req[r].tenant] \notin {0, VRFVNI(req[r].index)}

\* Tenant t's objects of step s at index i reach the given level.
SetLevel(t, s, i, level, owner) ==
    /\ built' = [built EXCEPT ![t][s] = level]
    /\ zoneVNI' = IF s # "network" THEN zoneVNI
                  ELSE [zoneVNI EXCEPT ![t] = IF level = Missing THEN 0 ELSE VRFVNI(i)]
    /\ reverse' = IF s # "dns" THEN reverse ELSE [reverse EXCEPT ![i] = owner]
    /\ UNCHANGED placed

EnsureStep(r) ==
    LET q == req[r]
        s == Head(q.todo)
    IN  /\ At(r, "ensure") /\ q.todo # <<>> /\ ~WrongZone(r)
        /\ IF s = "device-address"
           THEN /\ placed' = [placed EXCEPT ![q.tenant] = @ \cup (issued[q.tenant] \cap {s})]
                /\ UNCHANGED <<built, zoneVNI, reverse>>
           ELSE SetLevel(q.tenant, s, q.index, Full, q.tenant)
        /\ RecordStep(q.tenant, s, "ok")
        /\ req' = [req EXCEPT ![r].todo = Tail(@)]
        /\ UNCHANGED <<row, issued, faults, losses>>

\* Mutant: a failed step is recorded and the next one run.
EnsureStepSkips(r) ==
    LET q == req[r]
    IN  /\ At(r, "ensure") /\ q.todo # <<>> /\ faults < MaxFaults
        /\ faults' = faults + 1
        /\ RecordStep(q.tenant, Head(q.todo), "failed")
        /\ req' = [req EXCEPT ![r].todo = Tail(@)]
        /\ UNCHANGED <<row, issued, backends, losses>>

\* A failed step may have written any part of what it was to write.
EnsureStepFails(r) ==
    LET q == req[r]
        s == Head(q.todo)
    IN  /\ At(r, "ensure") /\ q.todo # <<>>
        /\ \/ /\ WrongZone(r)
              /\ UNCHANGED <<backends, faults>>
           \/ /\ ~WrongZone(r) /\ faults < MaxFaults
              /\ faults' = faults + 1
              /\ \/ /\ s = "device-address"
                    /\ \E set \in {placed[q.tenant], placed[q.tenant] \cup (issued[q.tenant] \cap {s})} :
                          placed' = [placed EXCEPT ![q.tenant] = set]
                    /\ UNCHANGED <<built, zoneVNI, reverse>>
                 \/ /\ s # "device-address"
                    /\ \E level \in {l \in Levels : l >= built[q.tenant][s]} :
                       \E owner \in {reverse[q.index], q.tenant} :
                          /\ s = "dns" /\ level = Full => owner = q.tenant
                          /\ level = Missing => owner = reverse[q.index]
                          /\ SetLevel(q.tenant, s, q.index, level, owner)
        /\ Goto(r, "failed")
        /\ UNCHANGED <<registry, losses>>

\* The failed step is recorded, then the tenant left provisioning, so that a
\* second call resumes it.
EnsureFailed(r) ==
    /\ At(r, "failed")
    /\ RecordStep(req[r].tenant, Head(req[r].todo), "failed")
    /\ Goto(r, "demote")
    /\ UNCHANGED <<row, issued, backends, faults, losses>>

EnsureDemote(r) ==
    /\ At(r, "demote")
    /\ SetStatus(req[r].tenant, "provisioning")
    /\ End(r)
    /\ UNCHANGED <<steps, issued, backends, faults, losses>>

EnsureDone(r) ==
    /\ At(r, "ensure") /\ req[r].todo = <<>>
    /\ SetStatus(req[r].tenant, "ready")
    /\ End(r)
    /\ UNCHANGED <<steps, issued, backends, faults, losses>>

-----------------------------------------------------------------------------
(* Delete.                                                                  *)

\* Get and ListWorkloads; a workload stands in the way.
DeleteCheck(r) ==
    LET t == req[r].tenant
    IN  /\ At(r, "check") /\ req[r].op = "delete"
        /\ IF Present(t) /\ "workload" \notin issued[t]
           THEN req' = [req EXCEPT ![r].pc = "mark", ![r].index = row[t].index]
           ELSE End(r)
        /\ UNCHANGED <<registry, backends, faults, losses>>

\* SetStatus(deleting).
DeleteMark(r) ==
    LET t == req[r].tenant
    IN  /\ At(r, "mark")
        /\ SetStatus(t, "deleting")
        /\ IF Present(t) THEN Goto(r, "list") ELSE End(r)
        /\ UNCHANGED <<steps, issued, backends, faults, losses>>

\* Mutant: the resources that go with the tenant are not listed.
DeleteListNothing(r) ==
    /\ At(r, "list")
    /\ req' = [req EXCEPT ![r].pc = "remove", ![r].todo = removeSteps]
    /\ UNCHANGED <<registry, backends, faults, losses>>

\* The resources that go with the tenant are listed once, before any step.
DeleteList(r) ==
    /\ At(r, "list")
    /\ req' = [req EXCEPT ![r].pc = "remove", ![r].todo = removeSteps,
                          ![r].listed = issued[req[r].tenant] \ {"workload"}]
    /\ UNCHANGED <<registry, backends, faults, losses>>

RemoveStep(r) ==
    LET q == req[r]
        s == Head(q.todo)
    IN  /\ At(r, "remove") /\ q.todo # <<>>
        /\ IF s \in Kinds
           THEN /\ placed' = [placed EXCEPT ![q.tenant] = @ \ (q.listed \cap {s})]
                /\ UNCHANGED <<built, zoneVNI, reverse>>
           ELSE SetLevel(q.tenant, s, q.index, Missing, None)
        /\ req' = [req EXCEPT ![r].todo = Tail(@)]
        /\ UNCHANGED <<registry, faults, losses>>

RemoveStepFails(r) ==
    LET q == req[r]
        s == Head(q.todo)
    IN  /\ At(r, "remove") /\ q.todo # <<>> /\ faults < MaxFaults
        /\ faults' = faults + 1
        /\ \/ /\ s \in Kinds
              /\ \E set \in {placed[q.tenant], placed[q.tenant] \ (q.listed \cap {s})} :
                    placed' = [placed EXCEPT ![q.tenant] = set]
              /\ UNCHANGED <<built, zoneVNI, reverse>>
           \/ /\ s \notin Kinds
              /\ \E level \in {l \in Levels : l <= built[q.tenant][s]} :
                 \E owner \in {reverse[q.index], None} :
                    /\ level = Full => owner = reverse[q.index]
                    /\ built' = [built EXCEPT ![q.tenant][s] = level]
                    /\ zoneVNI' = IF s = "network" /\ level = Missing
                                  THEN [zoneVNI EXCEPT ![q.tenant] = 0] ELSE zoneVNI
                    /\ reverse' = IF s # "dns" THEN reverse
                                  ELSE [reverse EXCEPT ![q.index] = owner]
                    /\ UNCHANGED placed
        /\ Goto(r, "unremoved")
        /\ UNCHANGED <<registry, losses>>

\* The failed step is recorded; the tenant is left deleting.
RemoveFailed(r) ==
    /\ At(r, "unremoved")
    /\ RecordStep(req[r].tenant, Head(req[r].todo), "failed")
    /\ End(r)
    /\ UNCHANGED <<row, issued, backends, faults, losses>>

\* Store.Delete: every row that refers to the tenant goes with it.
DropRow(r) ==
    LET t == req[r].tenant
    IN  /\ At(r, "remove") /\ req[r].todo = <<>>
        /\ row' = [row EXCEPT ![t] = NoRow]
        /\ steps' = [steps EXCEPT ![t] = NoSteps]
        /\ issued' = [issued EXCEPT ![t] = {}]
        /\ End(r)
        /\ UNCHANGED <<backends, faults, losses>>

-----------------------------------------------------------------------------
(* A resource of a tenant: the tenant must be ready, the registry's row is  *)
(* written first, then the backend; removal is the other way round.         *)

IssueCheck(r) ==
    LET q == req[r]
    IN  /\ At(r, "check") /\ q.op = "issue"
        /\ IF row[q.tenant].status = "ready"
           THEN req' = [req EXCEPT ![r].pc = "rowdown",
                                   ![r].listed = issued[q.tenant] \cap {q.kind}]
           ELSE End(r)
        /\ UNCHANGED <<registry, backends, faults, losses>>

\* The row refers to the tenant's: without it the insert is refused.
IssueRow(r) ==
    LET q == req[r]
    IN  /\ At(r, "rowdown")
        /\ IF Present(q.tenant)
           THEN /\ issued' = [issued EXCEPT ![q.tenant] = @ \cup {q.kind}]
                /\ Goto(r, "place")
           ELSE End(r) /\ UNCHANGED issued
        /\ UNCHANGED <<row, steps, backends, faults, losses>>

Place(r) ==
    /\ At(r, "place")
    /\ placed' = [placed EXCEPT ![req[r].tenant] = @ \cup {req[r].kind}]
    /\ End(r)
    /\ UNCHANGED <<registry, built, zoneVNI, reverse, faults, losses>>

\* The DHCP server holds the address, or the MAC, for someone the registry
\* does not know: a row that this call made is taken back.
PlaceConflict(r) ==
    LET q == req[r]
    IN  /\ At(r, "place") /\ q.kind = "device-address"
        /\ q.kind \notin placed[q.tenant] /\ faults < MaxFaults
        /\ faults' = faults + 1
        /\ issued' = [issued EXCEPT ![q.tenant] = @ \ ({q.kind} \ q.listed)]
        /\ End(r)
        /\ UNCHANGED <<row, steps, backends, losses>>

WithdrawCheck(r) ==
    /\ At(r, "check") /\ req[r].op = "withdraw"
    /\ IF req[r].kind \in issued[req[r].tenant] THEN Goto(r, "unplace") ELSE End(r)
    /\ UNCHANGED <<registry, backends, faults, losses>>

Unplace(r) ==
    /\ At(r, "unplace")
    /\ placed' = [placed EXCEPT ![req[r].tenant] = @ \ {req[r].kind}]
    /\ Goto(r, "rowaway")
    /\ UNCHANGED <<registry, built, zoneVNI, reverse, faults, losses>>

WithdrawRow(r) ==
    /\ At(r, "rowaway")
    /\ issued' = [issued EXCEPT ![req[r].tenant] = @ \ {req[r].kind}]
    /\ End(r)
    /\ UNCHANGED <<row, steps, backends, faults, losses>>

-----------------------------------------------------------------------------
(* What goes wrong around the handlers.                                     *)

\* A request is cut off: nothing it still had to do is done.
Abandon(r) ==
    /\ ~At(r, "idle") /\ faults < MaxFaults
    /\ faults' = faults + 1
    /\ End(r)
    /\ UNCHANGED <<registry, backends, losses>>

\* The registry is lost and rebuilt empty, the API with it.
LoseRegistry ==
    /\ losses < MaxLosses /\ InFlight = {}
    /\ losses' = losses + 1
    /\ row' = [t \in Tenants |-> NoRow]
    /\ steps' = [t \in Tenants |-> NoSteps]
    /\ issued' = [t \in Tenants |-> {}]
    /\ UNCHANGED <<backends, req, faults>>

-----------------------------------------------------------------------------
\* The handler goes on.
Continue(r) ==
    \/ Get(r) \/ ReadClaims(r) \/ Insert(r) \/ SetSecrets(r)
    \/ EnsureStep(r) \/ EnsureFailed(r) \/ EnsureDemote(r) \/ EnsureDone(r)
    \/ DeleteCheck(r) \/ DeleteMark(r) \/ DeleteList(r)
    \/ RemoveStep(r) \/ RemoveFailed(r) \/ DropRow(r)
    \/ IssueCheck(r) \/ IssueRow(r) \/ Place(r)
    \/ WithdrawCheck(r) \/ Unplace(r) \/ WithdrawRow(r)

Next ==
    \/ \E r \in Requests :
          \/ BeginCreate(r) \/ BeginReconcile(r) \/ BeginDelete(r) \/ BeginResource(r)
          \/ Continue(r)
          \/ EnsureStepFails(r) \/ RemoveStepFails(r) \/ PlaceConflict(r)
          \/ Abandon(r)
    \/ LoseRegistry

Spec == Init /\ [][Next]_vars

\* The runtime schedules every handler, and a caller whose tenant was left half
\* made or half removed repeats the call, as the answer tells it to.
Proceed(r) == Continue(r) \/ EnsureStepFails(r) \/ RemoveStepFails(r) \/ PlaceConflict(r)

Resume(t) ==
    /\ row[t].status = "provisioning"
    /\ \E r \in Requests : Begin(r, "create", t, 0, FALSE, "workload")

RepeatDelete(t) ==
    /\ row[t].status = "deleting"
    /\ \E r \in Requests : Begin(r, "delete", t, 0, FALSE, "workload")

Fairness ==
    /\ \A r \in Requests : WF_vars(Proceed(r))
    /\ \A t \in Tenants : SF_vars(Resume(t)) /\ SF_vars(RepeatDelete(t))

FairSpec == Spec /\ Fairness

\* The index each tenant holds in the registry.
Registry == INSTANCE IndexRegistry WITH holds <- [t \in Tenants |-> row[t].index]

-----------------------------------------------------------------------------
(* Properties.                                                              *)

(* Type invariant: rows, step records, backend objects and the locals of    *)
(* every handler are of their kind; an index is 0 or allocatable.            *)
TypeOK ==
    /\ row \in [Tenants -> [status : Statuses \cup {"absent"}, index : 0 .. MaxAllocatable]]
    /\ steps \in [Tenants -> [StepNames -> {"none", "ok", "failed"}]]
    /\ issued \in [Tenants -> SUBSET Kinds]
    /\ built \in [Tenants -> [ObjectSteps -> Levels]]
    /\ zoneVNI \in [Tenants -> {0} \cup {VRFVNI(i) : i \in Indexes}]
    /\ reverse \in [Indexes -> Tenants \cup {None}]
    /\ placed \in [Tenants -> SUBSET Kinds]
    /\ req \in [Requests -> RequestType \cup {Idle}]
    /\ faults \in Nat /\ losses \in Nat

(* No two registered tenants hold the same index, whatever requests overlap  *)
(* and wherever they are cut off: Store.Create picks under the allocation    *)
(* lock, from the rows it reads there.                                       *)
UniqueIndex ==
    /\ \A t \in Tenants : Present(t) => row[t].index \in Indexes
    /\ \A t, u \in Tenants :
          t # u /\ Present(t) /\ Present(u) => row[t].index # row[u].index

(* No two zones on the fabric carry the same VNI, and none carries the VNI   *)
(* of a zone the API did not build.  The claims are read before the lock is  *)
(* taken, the zone is built long after the row, and the registry may be lost *)
(* with the zones still there.                                               *)
FabricUnique ==
    /\ \A t, u \in Tenants :
          t # u /\ zoneVNI[t] # 0 => zoneVNI[t] # zoneVNI[u]
    /\ \A t \in Tenants, z \in ForeignZones : zoneVNI[t] # 0 => zoneVNI[t] # z.vni

(* A ready tenant has every backend step's objects, its zone carries its     *)
(* index's VNI and its reverse zone is bound to its own key                  *)
(* (StatusReady: "every backend step succeeded"), through failed and resumed *)
(* steps, reconciles, failed deletes and an index handed over after a loss.  *)
ReadyMeansBuilt ==
    \A t \in Tenants : row[t].status = "ready" =>
        /\ \A s \in EnsureSet \cap ObjectSteps : built[t][s] = Full
        /\ zoneVNI[t] = VRFVNI(row[t].index)
        /\ reverse[row[t].index] = t

(* A ready tenant that no call is at work on is whole, and a delete that did *)
(* not finish has left it deleting ("the tenant is left `deleting`, and a    *)
(* second delete resumes it").  ensure ends with SetStatus(ready) whatever   *)
(* the status has become (service.go:794), so this needs ~Overlap.           *)
ReadyAtRest == InFlight = {} => ReadyMeansBuilt

(* What a tenant has in a backend, the registry has a row for ("a key        *)
(* written to the controller is never one the registry has no record of").   *)
PlacedIsRecorded ==
    losses = 0 => \A t \in Tenants : placed[t] \subseteq issued[t]

(* The row of a deleted tenant goes only when nothing of the tenant is left  *)
(* in any backend, however often the delete failed and was repeated, and     *)
(* wherever the create before it had stopped.                                *)
DeleteLeavesNothing ==
    [][\A t \in Tenants : Present(t) /\ ~Present(t)' /\ losses' = losses =>
          /\ \A s \in ObjectSteps : built[t][s] = Missing
          /\ zoneVNI[t] = 0
          /\ reverse[row[t].index] # t
          /\ losses = 0 => placed[t] = {}]_vars

(* A tenant that has begun to be deleted is never anything but deleting      *)
(* until its row is gone.                                                    *)
DeletingIsFinal ==
    [][\A t \in Tenants : row[t].status = "deleting" =>
          row'[t].status \in {"deleting", "absent"}]_vars

(* A tenant that comes back to a lost registry without asking for an index   *)
(* is given the index its zone on the fabric still carries, although other   *)
(* tenants were created meanwhile, from claims read at other moments.        *)
ComesBackToItsIndex ==
    [][\A t \in Tenants :
          (/\ ~Present(t) /\ Present(t)' /\ zoneVNI[t] # 0
           /\ \A r \in InFlight : req[r].tenant = t => req[r].asked = 0)
          => VRFVNI(row'[t].index) = zoneVNI[t]]_vars

(* The registry implements the abstract one: an index is held by one tenant  *)
(* at a time and changes only by being given up with the row, across every   *)
(* interleaving of creates, deletes and losses.                              *)
ImplementsRegistry == Registry!Spec

(* Repeating a create that failed part way makes the tenant ready in the end *)
(* (or someone deletes it), and repeating a delete that failed ends with the *)
(* tenant gone: failures left nothing behind that blocks the next attempt.   *)
RepeatingSucceeds ==
    \A t \in Tenants :
        /\ row[t].status = "provisioning" ~> row[t].status # "provisioning"
        /\ row[t].status = "deleting" ~> row[t].status = "absent"
=============================================================================
