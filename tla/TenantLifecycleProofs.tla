------------------------ MODULE TenantLifecycleProofs ------------------------
(***************************************************************************)
(* The registry's side of TenantLifecycle, proved for any set of tenants    *)
(* and requests, any number of faults and losses, and requests that overlap *)
(* in any way.                                                              *)
(***************************************************************************)
EXTENDS TenantLifecycle, IndexAllocationProofs

-----------------------------------------------------------------------------
(* The inductive invariant.  TypeOK alone is not inductive: that a zone gets *)
(* an allocatable index's VNI rests on the index the handler carries, which  *)
(* it read from a row or was given by pickIndex.                             *)

\* Points at which a handler carries the index of a row it has read or written.
Bound == {"secrets", "ensure", "failed", "demote", "mark", "list", "remove", "unremoved"}

CarriesIndex == \A r \in Requests : req[r].pc \in Bound => req[r].index \in Indexes

RowHasIndex ==
    \A t \in Tenants : IF Present(t) THEN row[t].index \in Indexes ELSE row[t].index = 0

IndexInv == TypeOK /\ CarriesIndex /\ RowHasIndex /\ UniqueIndex

ReqType == [Requests -> RequestType \cup {Idle}]

-----------------------------------------------------------------------------
(* Facts about requests.                                                    *)

LEMMA IdleIsNoRequest == Idle.pc = "idle" /\ Idle \notin RequestType
BY DEF Idle, RequestType, Points

\* A handler that is somewhere has the locals of a handler.
LEMMA ActiveRequest ==
    ASSUME req \in ReqType, NEW r \in Requests, req[r].pc # "idle"
    PROVE  req[r] \in RequestType
BY IdleIsNoRequest DEF ReqType

LEMMA EndKeepsType ==
    ASSUME req \in ReqType, CarriesIndex, NEW r \in Requests, End(r)
    PROVE  req' \in ReqType /\ CarriesIndex'
<1>1. req' \in ReqType
  BY DEF End, ReqType
<1>2. ASSUME NEW q \in Requests, req'[q].pc \in Bound PROVE req'[q].index \in Indexes
  BY <1>2, IdleIsNoRequest DEF End, ReqType, CarriesIndex, Bound
<1> QED BY <1>1, <1>2 DEF CarriesIndex

LEMMA GotoKeepsType ==
    ASSUME req \in ReqType, CarriesIndex, NEW r \in Requests, req[r].pc # "idle",
           NEW point \in Points, Goto(r, point),
           point \in Bound => req[r].index \in Indexes
    PROVE  req' \in ReqType /\ CarriesIndex'
<1>1. req[r] \in RequestType
  BY ActiveRequest
<1>2. [req[r] EXCEPT !.pc = point] \in RequestType
  BY <1>1 DEF RequestType
<1>3. req' = [req EXCEPT ![r] = [req[r] EXCEPT !.pc = point]]
  BY DEF Goto, ReqType
<1>4. req' \in ReqType
  BY <1>2, <1>3 DEF ReqType
<1>5. ASSUME NEW q \in Requests, req'[q].pc \in Bound PROVE req'[q].index \in Indexes
  BY <1>1, <1>3, <1>5 DEF ReqType, CarriesIndex, RequestType
<1> QED BY <1>4, <1>5 DEF CarriesIndex

\* The general form: one handler's locals are replaced.
LEMMA UpdateKeepsType ==
    ASSUME req \in ReqType, CarriesIndex, NEW r \in Requests,
           NEW q \in RequestType, req' = [req EXCEPT ![r] = q],
           q.pc \in Bound => q.index \in Indexes
    PROVE  req' \in ReqType /\ CarriesIndex'
BY DEF ReqType, CarriesIndex

LEMMA StepLists == ensureSteps \in Seq(StepNames) /\ removeSteps \in Seq(StepNames)
<1>1. \A x \in OptionalSteps : If(x) \in Seq(StepNames)
  <2>1. OptionalSteps \subseteq StepNames
    BY DEF OptionalSteps, StepNames, ObjectSteps
  <2>2. \A x \in StepNames : <<x>> \in Seq(StepNames)
    OBVIOUS
  <2>3. <<>> \in Seq(StepNames)
    OBVIOUS
  <2> QED BY <2>1, <2>2, <2>3 DEF If
<1>2. /\ <<"dns", "resolver", "state", "network">> \in Seq(StepNames)
      /\ <<"broker-account", "wifi-key", "device-address",
           "network", "resolver", "dns", "state">> \in Seq(StepNames)
  BY DEF StepNames, ObjectSteps
<1> QED BY <1>1, <1>2 DEF ensureSteps, removeSteps, OptionalSteps

LEMMA StartEnsureKeepsType ==
    ASSUME req \in ReqType, CarriesIndex, NEW r \in Requests, req[r].pc # "idle",
           NEW index \in Indexes, StartEnsure(r, index)
    PROVE  req' \in ReqType /\ CarriesIndex'
<1> DEFINE q == [Idle EXCEPT !.pc = "ensure", !.op = req[r].op, !.tenant = req[r].tenant,
                             !.index = index, !.todo = ensureSteps]
<1>1. req[r] \in RequestType
  BY ActiveRequest
<1>2. index \in 0 .. MaxAllocatable
  BY MaxAllocatableAssumption DEF Indexes, MinIndex
<1>3. q \in RequestType /\ q.index = index
  <2>2. req[r].op \in Ops /\ req[r].tenant \in Tenants
    BY <1>1 DEF RequestType
  <2>3. 0 \in 0 .. MaxAllocatable /\ "workload" \in Kinds /\ "ensure" \in Points
    BY MaxAllocatableAssumption DEF Kinds, Points
  <2>4. q \in RequestType
    BY <2>2, <2>3, <1>2, StepLists DEF RequestType, Idle
  <2>5. q.index = index
    BY DEF Idle
  <2> QED BY <2>4, <2>5
<1>4. req' = [req EXCEPT ![r] = q]
  BY DEF StartEnsure
<1> HIDE DEF q
<1> QED BY <1>3, <1>4, UpdateKeepsType

\* What Fabric.Claims answers: no claim has index 0 or an unknown zone.
LEMMA ClaimsType ==
    ASSUME TypeOK
    PROVE  Claims({[zone |-> t, vni |-> zoneVNI[t]] : t \in {u \in Tenants : zoneVNI[u] # 0}}
                  \cup ForeignZones, {}) \in SUBSET ClaimSet
<1> DEFINE Z == {[zone |-> t, vni |-> zoneVNI[t]] : t \in {u \in Tenants : zoneVNI[u] # 0}}
                \cup ForeignZones
           C == {[index |-> IndexForVRFVNI(z.vni), zone |-> z.zone] : z \in Z}
<1>1. \A z \in Z : z.vni \in Int /\ z.zone \in Tenants \cup {w.zone : w \in ForeignZones}
  <2>1. \A t \in Tenants : zoneVNI[t] \in Int
    BY MaxAllocatableAssumption, BasesAssumption DEF TypeOK, VRFVNI, Indexes, MinIndex
  <2> QED BY <2>1, SiteAssumption
<1>2. \A v \in Int : IndexForVRFVNI(v) = 0 \/ IndexForVRFVNI(v) \in 1 .. ReservedIndex
  BY MaxAllocatableAssumption, BasesAssumption
     DEF IndexForVRFVNI, InSite, MinIndex, ReservedIndex
<1>3. \A c \in C : c.index # 0 => c \in ClaimSet
  BY <1>1, <1>2 DEF ClaimSet
<1>4. Claims(Z, {}) = {c \in C : c.index # 0}
  BY DEF Claims
<1> QED BY <1>3, <1>4

-----------------------------------------------------------------------------
(* The registry's and the backends' parts of TypeOK.                        *)

RegistryType ==
    /\ row \in [Tenants -> [status : Statuses \cup {"absent"}, index : 0 .. MaxAllocatable]]
    /\ steps \in [Tenants -> [StepNames -> {"none", "ok", "failed"}]]
    /\ issued \in [Tenants -> SUBSET Kinds]

BackendType ==
    /\ built \in [Tenants -> [ObjectSteps -> Levels]]
    /\ zoneVNI \in [Tenants -> {0} \cup {VRFVNI(i) : i \in Indexes}]
    /\ reverse \in [Indexes -> Tenants \cup {None}]
    /\ placed \in [Tenants -> SUBSET Kinds]

CountType == faults \in Nat /\ losses \in Nat

LEMMA TypeParts == TypeOK <=> RegistryType /\ BackendType /\ req \in ReqType /\ CountType
BY DEF TypeOK, RegistryType, BackendType, ReqType, CountType

LEMMA SetLevelKeepsType ==
    ASSUME BackendType, NEW t \in Tenants, NEW s, NEW i \in Indexes,
           NEW level \in Levels, NEW owner \in Tenants \cup {None},
           SetLevel(t, s, i, level, owner)
    PROVE  BackendType'
<1>1. built' \in [Tenants -> [ObjectSteps -> Levels]]
  BY DEF SetLevel, BackendType
<1>2. zoneVNI' \in [Tenants -> {0} \cup {VRFVNI(n) : n \in Indexes}]
  BY DEF SetLevel, BackendType
<1>3. reverse' \in [Indexes -> Tenants \cup {None}] /\ placed' \in [Tenants -> SUBSET Kinds]
  BY DEF SetLevel, BackendType
<1> QED BY <1>1, <1>2, <1>3 DEF BackendType

LEMMA SetStatusKeepsRegistry ==
    ASSUME RegistryType, RowHasIndex, UniqueIndex,
           NEW t \in Tenants, NEW status \in Statuses, SetStatus(t, status),
           UNCHANGED <<steps, issued>>
    PROVE  RegistryType' /\ RowHasIndex' /\ UniqueIndex'
<1>1. row' \in [Tenants -> [status : Statuses \cup {"absent"}, index : 0 .. MaxAllocatable]]
  BY DEF SetStatus, RegistryType
<1>2. \A u \in Tenants : row'[u].index = row[u].index /\ (Present(u)' <=> Present(u))
  BY DEF SetStatus, RegistryType, Present, Statuses
<1> QED BY <1>1, <1>2 DEF RegistryType, RowHasIndex, UniqueIndex

LEMMA RecordStepKeepsRegistry ==
    ASSUME RegistryType, RowHasIndex, UniqueIndex, NEW t \in Tenants, NEW s,
           NEW outcome \in {"ok", "failed"}, RecordStep(t, s, outcome),
           UNCHANGED <<row, issued>>
    PROVE  RegistryType' /\ RowHasIndex' /\ UniqueIndex'
<1>1. steps' \in [Tenants -> [StepNames -> {"none", "ok", "failed"}]]
  BY DEF RecordStep, RegistryType
<1> QED BY <1>1 DEF RegistryType, RowHasIndex, UniqueIndex, Present

-----------------------------------------------------------------------------
(* The invariant is inductive.                                              *)

LEMMA InvParts ==
    IndexInv <=> /\ RegistryType /\ BackendType /\ CountType /\ req \in ReqType
                 /\ CarriesIndex /\ RowHasIndex /\ UniqueIndex
BY TypeParts DEF IndexInv

LEMMA InvPartsNext ==
    ASSUME RegistryType', BackendType', CountType', req' \in ReqType,
           CarriesIndex', RowHasIndex', UniqueIndex'
    PROVE  IndexInv'
BY DEF IndexInv, TypeOK, RegistryType, BackendType, ReqType, CountType

LEMMA InitInv == Init => IndexInv
<1> SUFFICES ASSUME Init PROVE IndexInv
  OBVIOUS
<1>1. RegistryType /\ RowHasIndex /\ UniqueIndex
  BY MaxAllocatableAssumption
     DEF Init, RegistryType, RowHasIndex, UniqueIndex, Present, NoRow, NoSteps, Statuses
<1>2. BackendType /\ CountType
  BY DEF Init, BackendType, CountType, Levels, Missing, Full
<1>3. req \in ReqType /\ CarriesIndex
  BY IdleIsNoRequest DEF Init, ReqType, CarriesIndex, Bound
<1> QED BY <1>1, <1>2, <1>3, InvParts

\* The registry's part does not change with what it is made of.
LEMMA SameRegistry ==
    ASSUME RegistryType, RowHasIndex, UniqueIndex, UNCHANGED registry
    PROVE  RegistryType' /\ RowHasIndex' /\ UniqueIndex'
BY DEF RegistryType, RowHasIndex, UniqueIndex, Present, registry

LEMMA SameBackends == ASSUME BackendType, UNCHANGED backends PROVE BackendType'
BY DEF BackendType, backends

LEMMA BeginInv ==
    ASSUME IndexInv, NEW r \in Requests, NEW op \in Ops, NEW t \in Tenants,
           NEW asked \in 0 .. MaxAllocatable, NEW supplied \in BOOLEAN, NEW kind \in Kinds,
           Begin(r, op, t, asked, supplied, kind)
    PROVE  IndexInv'
<1> DEFINE point == IF op \in {"create", "reconcile"} THEN "get" ELSE "check"
           q == [Idle EXCEPT !.pc = point, !.op = op, !.tenant = t,
                             !.asked = asked, !.supplied = supplied, !.kind = kind]
<1>1. point \in Points /\ point \notin Bound
  BY DEF Points, Bound
<1>2. q \in RequestType /\ q.pc = point
  <2> HIDE DEF point
  <2>1. 0 \in 0 .. MaxAllocatable /\ <<>> \in Seq(StepNames)
    BY MaxAllocatableAssumption
  <2>2. q \in RequestType
    BY <1>1, <2>1 DEF RequestType, Idle
  <2>3. q.pc = point
    BY DEF Idle
  <2> QED BY <2>2, <2>3
<1>3. req' = [req EXCEPT ![r] = q]
  BY DEF Begin
<1>4. req' \in ReqType /\ CarriesIndex'
  <2> HIDE DEF q, point
  <2> QED BY <1>1, <1>2, <1>3, UpdateKeepsType, InvParts
<1>5. RegistryType' /\ RowHasIndex' /\ UniqueIndex' /\ BackendType' /\ CountType'
  BY InvParts, SameRegistry, SameBackends DEF Begin, CountType
<1> QED BY <1>4, <1>5, InvPartsNext

LEMMA GetInv ==
    ASSUME IndexInv, NEW r \in Requests, Get(r)
    PROVE  IndexInv'
<1> DEFINE q == req[r]
           found == row[q.tenant]
<1>1. RegistryType' /\ RowHasIndex' /\ UniqueIndex' /\ BackendType' /\ CountType'
  BY InvParts, SameRegistry, SameBackends DEF Get, CountType
<1>2. q.pc = "get" /\ q \in RequestType
  BY InvParts, ActiveRequest DEF Get, At
<1>3. found.status # "absent" => found.index \in Indexes
  BY <1>2, InvParts DEF RowHasIndex, Present, RequestType
<1>4. req' \in ReqType /\ CarriesIndex'
  <2>1. CASE Goto(r, "claims")
    BY <2>1, <1>2, GotoKeepsType, InvParts DEF Points, Bound
  <2>2. CASE found.status # "absent"
             /\ req' = [req EXCEPT ![r].pc = "secrets", ![r].index = found.index]
    <3> DEFINE p == [q EXCEPT !.pc = "secrets", !.index = found.index]
    <3>1. found.index \in Indexes /\ found.index \in 0 .. MaxAllocatable
      BY <2>2, <1>3, MaxAllocatableAssumption DEF Indexes, MinIndex
    <3>2. "secrets" \in Points
      BY DEF Points
    <3>3. p \in RequestType /\ p.index = found.index
      BY <1>2, <3>1, <3>2 DEF RequestType
    <3>4. req' = [req EXCEPT ![r] = p]
      BY <2>2, InvParts DEF ReqType
    <3> HIDE DEF p
    <3> QED BY <3>1, <3>3, <3>4, UpdateKeepsType, InvParts
  <2>3. CASE End(r)
    BY <2>3, EndKeepsType, InvParts
  <2>4. CASE found.status # "absent" /\ StartEnsure(r, found.index)
    BY <2>4, <1>2, <1>3, StartEnsureKeepsType, InvParts
  <2> QED BY <2>1, <2>2, <2>3, <2>4 DEF Get
<1> QED BY <1>1, <1>4, InvPartsNext

LEMMA ReadClaimsInv ==
    ASSUME IndexInv, NEW r \in Requests, ReadClaims(r)
    PROVE  IndexInv'
<1> DEFINE C == Claims({[zone |-> t, vni |-> zoneVNI[t]] :
                           t \in {u \in Tenants : zoneVNI[u] # 0}} \cup ForeignZones, {})
           q == [req[r] EXCEPT !.pc = "insert", !.claims = C]
<1>1. RegistryType' /\ RowHasIndex' /\ UniqueIndex' /\ BackendType' /\ CountType'
  BY InvParts, SameRegistry, SameBackends DEF ReadClaims, CountType
<1>2. C \in SUBSET ClaimSet
  BY ClaimsType DEF IndexInv
<1>3. req' = [req EXCEPT ![r] = q]
  BY InvParts DEF ReadClaims, ReqType
<1> HIDE DEF C
<1>4. q \in RequestType /\ q.pc = "insert"
  <2>1. req[r] \in RequestType
    BY InvParts, ActiveRequest DEF ReadClaims, At
  <2> QED BY <2>1, <1>2 DEF RequestType, Points
<1> HIDE DEF q
<1>5. req' \in ReqType /\ CarriesIndex'
  BY <1>3, <1>4, UpdateKeepsType, InvParts DEF Bound
<1> QED BY <1>1, <1>5, InvPartsNext

\* The one place where an index is taken: under the lock, from the rows.
LEMMA InsertInv ==
    ASSUME IndexInv, NEW r \in Requests, Insert(r)
    PROVE  IndexInv'
<1> DEFINE q == req[r]
           held == {row[t].index : t \in {u \in Tenants : Present(u)}}
           n == pickIndex(q.tenant, q.asked, held, q.claims)
<1>1. q.pc = "insert" /\ q \in RequestType
  BY InvParts, ActiveRequest DEF Insert, At
<1>2. q.tenant \in Tenants /\ q.asked \in 0 .. MaxAllocatable
  BY <1>1 DEF RequestType
<1>3. n = 0 \/ (n \in Indexes /\ n \notin held)
  BY <1>2, PickIndexIsFree DEF Free
<1>4. BackendType' /\ CountType'
  BY InvParts, SameBackends DEF Insert, CountType
<1> HIDE DEF n
<1>5. CASE Present(q.tenant) \/ n = 0
  <2>1. End(r) /\ UNCHANGED registry
    BY <1>5 DEF Insert, registry, n
  <2> QED BY <2>1, <1>4, EndKeepsType, SameRegistry, InvParts, InvPartsNext
<1>6. CASE ~Present(q.tenant) /\ n # 0
  <2>1. /\ row' = [row EXCEPT ![q.tenant] = [status |-> "provisioning", index |-> n]]
        /\ StartEnsure(r, n)
        /\ UNCHANGED <<steps, issued>>
    BY <1>6 DEF Insert, n
  <2>2. n \in Indexes /\ n \in 0 .. MaxAllocatable /\ n \notin held
    BY <1>3, <1>6, MaxAllocatableAssumption DEF Indexes, MinIndex
  <2>3. req' \in ReqType /\ CarriesIndex'
    BY <2>1, <2>2, <1>1, StartEnsureKeepsType, InvParts
  <2>4. RegistryType'
    <3>1. [status |-> "provisioning", index |-> n]
              \in [status : Statuses \cup {"absent"}, index : 0 .. MaxAllocatable]
      BY <2>2 DEF Statuses
    <3>2. RegistryType
      BY InvParts
    <3> QED BY <2>1, <1>2, <3>1, <3>2 DEF RegistryType
  <2>5. /\ row'[q.tenant].status = "provisioning" /\ row'[q.tenant].index = n
        /\ \A u \in Tenants \ {q.tenant} :
              row'[u] = row[u] /\ (Present(u)' <=> Present(u))
    BY <2>1, <1>2, InvParts DEF RegistryType, Present
  <2>6. RowHasIndex'
    BY <2>2, <2>5, InvParts DEF RowHasIndex, Present
  <2>7. UniqueIndex'
    BY <2>2, <2>5, <2>6, InvParts DEF UniqueIndex, RowHasIndex, Present
  <2> QED BY <1>4, <2>3, <2>4, <2>6, <2>7, InvPartsNext
<1> QED BY <1>5, <1>6

LEMMA SetSecretsInv ==
    ASSUME IndexInv, NEW r \in Requests, SetSecrets(r)
    PROVE  IndexInv'
<1>1. RegistryType' /\ RowHasIndex' /\ UniqueIndex' /\ BackendType' /\ CountType'
  BY InvParts, SameRegistry, SameBackends DEF SetSecrets, CountType
<1>2. req[r].index \in Indexes /\ req[r].pc # "idle"
  BY InvParts DEF SetSecrets, At, CarriesIndex, Bound
<1>3. req' \in ReqType /\ CarriesIndex'
  BY <1>2, EndKeepsType, StartEnsureKeepsType, InvParts DEF SetSecrets
<1> QED BY <1>1, <1>3, InvPartsNext

\* What every step of a handler that runs steps starts from.
LEMMA StepFacts ==
    ASSUME IndexInv, NEW r \in Requests, req[r].pc \in Bound
    PROVE  /\ req[r].pc # "idle" /\ req[r] \in RequestType
           /\ req[r].tenant \in Tenants /\ req[r].index \in Indexes
           /\ req[r].todo \in Seq(StepNames) /\ req[r].listed \in SUBSET Kinds
<1>1. req[r].pc # "idle"
  BY DEF Bound
<1>2. req[r] \in RequestType
  BY <1>1, InvParts, ActiveRequest
<1> QED BY <1>1, <1>2, InvParts DEF RequestType, CarriesIndex

\* A step taken off the list of a handler.
LEMMA PopKeepsType ==
    ASSUME IndexInv, NEW r \in Requests, req[r].pc \in Bound, req[r].todo # <<>>,
           req' = [req EXCEPT ![r].todo = Tail(@)]
    PROVE  req' \in ReqType /\ CarriesIndex'
<1> DEFINE q == [req[r] EXCEPT !.todo = Tail(req[r].todo)]
<1>1. Tail(req[r].todo) \in Seq(StepNames)
  BY StepFacts
<1>2. q \in RequestType /\ q.index = req[r].index
  BY <1>1, StepFacts DEF RequestType
<1>3. req' = [req EXCEPT ![r] = q]
  BY InvParts DEF ReqType
<1> HIDE DEF q
<1> QED BY <1>2, <1>3, StepFacts, UpdateKeepsType, InvParts

LEMMA PlacedKeepsType ==
    ASSUME BackendType, NEW t \in Tenants, NEW set \in SUBSET Kinds,
           placed' = [placed EXCEPT ![t] = set], UNCHANGED <<built, zoneVNI, reverse>>
    PROVE  BackendType'
BY DEF BackendType

LEMMA EnsureStepInv ==
    ASSUME IndexInv, NEW r \in Requests, EnsureStep(r)
    PROVE  IndexInv'
<1> DEFINE t == req[r].tenant
           s == Head(req[r].todo)
<1>1. req[r].pc \in Bound /\ req[r].todo # <<>> /\ t \in Tenants /\ req[r].index \in Indexes
  BY StepFacts DEF EnsureStep, At, Bound
<1>2. req' \in ReqType /\ CarriesIndex'
  BY <1>1, PopKeepsType DEF EnsureStep
<1>3. RegistryType' /\ RowHasIndex' /\ UniqueIndex'
  BY <1>1, RecordStepKeepsRegistry, InvParts DEF EnsureStep
<1>4. BackendType'
  <2>1. CASE s = "device-address"
    <3>1. placed' = [placed EXCEPT ![t] = placed[t] \cup (issued[t] \cap {s})]
      BY <2>1, InvParts DEF EnsureStep, BackendType
    <3>2. placed[t] \cup (issued[t] \cap {s}) \in SUBSET Kinds
      BY <1>1, InvParts DEF BackendType, RegistryType
    <3> QED BY <1>1, <2>1, <3>1, <3>2, PlacedKeepsType, InvParts DEF EnsureStep
  <2>2. CASE s # "device-address"
    <3>1. Full \in Levels
      BY DEF Levels, Missing, Full
    <3> QED BY <1>1, <2>2, <3>1, SetLevelKeepsType, InvParts DEF EnsureStep
  <2> QED BY <2>1, <2>2
<1>5. CountType'
  BY InvParts DEF EnsureStep, CountType
<1> QED BY <1>2, <1>3, <1>4, <1>5, InvPartsNext

LEMMA EnsureStepFailsInv ==
    ASSUME IndexInv, NEW r \in Requests, EnsureStepFails(r)
    PROVE  IndexInv'
<1> DEFINE t == req[r].tenant
           i == req[r].index
           s == Head(req[r].todo)
<1>1. req[r].pc \in Bound /\ t \in Tenants /\ i \in Indexes
  BY StepFacts DEF EnsureStepFails, At, Bound
<1>2. req' \in ReqType /\ CarriesIndex'
  BY <1>1, GotoKeepsType, InvParts DEF EnsureStepFails, Bound, Points
<1>3. RegistryType' /\ RowHasIndex' /\ UniqueIndex'
  BY SameRegistry, InvParts DEF EnsureStepFails
<1>4. BackendType'
  <2>1. CASE UNCHANGED backends
    BY <2>1, SameBackends, InvParts
  <2>2. CASE /\ \E set \in {placed[t], placed[t] \cup (issued[t] \cap {s})} :
                   placed' = [placed EXCEPT ![t] = set]
             /\ UNCHANGED <<built, zoneVNI, reverse>>
    <3>1. \A set \in {placed[t], placed[t] \cup (issued[t] \cap {s})} : set \in SUBSET Kinds
      BY <1>1, InvParts DEF BackendType, RegistryType
    <3> QED BY <1>1, <2>2, <3>1, PlacedKeepsType, InvParts
  <2>3. CASE \E level \in Levels, owner \in {reverse[i], t} : SetLevel(t, s, i, level, owner)
    <3>1. PICK level \in Levels, owner \in {reverse[i], t} : SetLevel(t, s, i, level, owner)
      BY <2>3
    <3>2. owner \in Tenants \cup {None}
      BY <1>1, InvParts DEF BackendType
    <3> QED BY <1>1, <3>1, <3>2, SetLevelKeepsType, InvParts
  <2> QED BY <2>1, <2>2, <2>3 DEF EnsureStepFails
<1>5. CountType'
  BY InvParts DEF EnsureStepFails, CountType
<1> QED BY <1>2, <1>3, <1>4, <1>5, InvPartsNext

LEMMA EnsureFailedInv ==
    ASSUME IndexInv, NEW r \in Requests, EnsureFailed(r)
    PROVE  IndexInv'
<1>1. req[r].pc \in Bound
  BY DEF EnsureFailed, At, Bound
<1>2. req' \in ReqType /\ CarriesIndex'
  BY <1>1, StepFacts, GotoKeepsType, InvParts DEF EnsureFailed, Points
<1>3. RegistryType' /\ RowHasIndex' /\ UniqueIndex'
  BY <1>1, StepFacts, RecordStepKeepsRegistry, InvParts DEF EnsureFailed
<1>4. BackendType' /\ CountType'
  BY SameBackends, InvParts DEF EnsureFailed, CountType
<1> QED BY <1>2, <1>3, <1>4, InvPartsNext

\* EnsureDemote, EnsureDone: the status is set and the handler returns.
LEMMA EnsureEndsInv ==
    ASSUME IndexInv, NEW r \in Requests, EnsureDemote(r) \/ EnsureDone(r)
    PROVE  IndexInv'
<1>1. req[r].pc \in Bound
  BY DEF EnsureDemote, EnsureDone, At, Bound
<1>2. req' \in ReqType /\ CarriesIndex'
  BY EndKeepsType, InvParts DEF EnsureDemote, EnsureDone
<1>3. RegistryType' /\ RowHasIndex' /\ UniqueIndex'
  BY <1>1, StepFacts, SetStatusKeepsRegistry, InvParts DEF EnsureDemote, EnsureDone, Statuses
<1>4. BackendType' /\ CountType'
  BY SameBackends, InvParts DEF EnsureDemote, EnsureDone, CountType
<1> QED BY <1>2, <1>3, <1>4, InvPartsNext

LEMMA DeleteCheckInv ==
    ASSUME IndexInv, NEW r \in Requests, DeleteCheck(r)
    PROVE  IndexInv'
<1> DEFINE t == req[r].tenant
           q == [req[r] EXCEPT !.pc = "mark", !.index = row[t].index]
<1>1. RegistryType' /\ RowHasIndex' /\ UniqueIndex' /\ BackendType' /\ CountType'
  BY InvParts, SameRegistry, SameBackends DEF DeleteCheck, CountType
<1>2. req[r] \in RequestType /\ t \in Tenants
  <2>1. req[r] \in RequestType
    BY InvParts, ActiveRequest DEF DeleteCheck, At
  <2> QED BY <2>1 DEF RequestType
<1>3. CASE End(r)
  BY <1>1, <1>3, EndKeepsType, InvParts, InvPartsNext
<1>4. CASE Present(t) /\ req' = [req EXCEPT ![r].pc = "mark", ![r].index = row[t].index]
  <2>1. row[t].index \in Indexes /\ row[t].index \in 0 .. MaxAllocatable
    BY <1>2, <1>4, InvParts, MaxAllocatableAssumption DEF RowHasIndex, Indexes, MinIndex
  <2>2. q \in RequestType /\ q.index = row[t].index
    BY <1>2, <2>1 DEF RequestType, Points
  <2>3. req' = [req EXCEPT ![r] = q]
    BY <1>4, InvParts DEF ReqType
  <2> HIDE DEF q
  <2>4. req' \in ReqType /\ CarriesIndex'
    BY <2>1, <2>2, <2>3, UpdateKeepsType, InvParts
  <2> QED BY <1>1, <2>4, InvPartsNext
<1> QED BY <1>3, <1>4 DEF DeleteCheck

LEMMA DeleteMarkInv ==
    ASSUME IndexInv, NEW r \in Requests, DeleteMark(r)
    PROVE  IndexInv'
<1>1. req[r].pc \in Bound /\ req[r].pc # "idle" /\ req[r].tenant \in Tenants /\ req[r].index \in Indexes
  BY StepFacts DEF DeleteMark, At, Bound
<1>2. RegistryType' /\ RowHasIndex' /\ UniqueIndex'
  BY <1>1, SetStatusKeepsRegistry, InvParts DEF DeleteMark, Statuses
<1>3. BackendType' /\ CountType'
  BY SameBackends, InvParts DEF DeleteMark, CountType
<1>4. CASE End(r)
  BY <1>2, <1>3, <1>4, EndKeepsType, InvParts, InvPartsNext
<1>5. CASE Goto(r, "list")
  <2>1. req' \in ReqType /\ CarriesIndex'
    BY <1>1, <1>5, GotoKeepsType, InvParts DEF Points
  <2> QED BY <1>2, <1>3, <2>1, InvPartsNext
<1> QED BY <1>4, <1>5 DEF DeleteMark

LEMMA DeleteListInv ==
    ASSUME IndexInv, NEW r \in Requests, DeleteList(r)
    PROVE  IndexInv'
<1> DEFINE t == req[r].tenant
           q == [req[r] EXCEPT !.pc = "remove", !.todo = removeSteps,
                               !.listed = issued[t] \ {"workload"}]
<1>1. req[r].pc \in Bound /\ req[r] \in RequestType /\ t \in Tenants /\ req[r].index \in Indexes
  BY StepFacts DEF DeleteList, At, Bound
<1>2. RegistryType' /\ RowHasIndex' /\ UniqueIndex'
  BY SameRegistry, InvParts DEF DeleteList
<1>3. BackendType' /\ CountType'
  BY SameBackends, InvParts DEF DeleteList, CountType
<1>4. issued[t] \ {"workload"} \in SUBSET Kinds
  BY <1>1, InvParts DEF RegistryType
<1>5. q \in RequestType /\ q.index = req[r].index
  BY <1>1, <1>4, StepLists DEF RequestType, Points
<1>6. req' = [req EXCEPT ![r] = q]
  BY InvParts DEF DeleteList, ReqType
<1> HIDE DEF q
<1>7. req' \in ReqType /\ CarriesIndex'
  BY <1>1, <1>5, <1>6, UpdateKeepsType, InvParts
<1> QED BY <1>2, <1>3, <1>7, InvPartsNext

LEMMA RemoveStepInv ==
    ASSUME IndexInv, NEW r \in Requests, RemoveStep(r)
    PROVE  IndexInv'
<1> DEFINE t == req[r].tenant
           s == Head(req[r].todo)
<1>1. req[r].pc \in Bound /\ req[r].todo # <<>> /\ t \in Tenants /\ req[r].index \in Indexes
  BY StepFacts DEF RemoveStep, At, Bound
<1>2. req' \in ReqType /\ CarriesIndex'
  BY <1>1, PopKeepsType DEF RemoveStep
<1>3. RegistryType' /\ RowHasIndex' /\ UniqueIndex' /\ CountType'
  BY SameRegistry, InvParts DEF RemoveStep, CountType
<1>4. BackendType'
  <2>1. CASE s \in Kinds
    <3>1. placed' = [placed EXCEPT ![t] = placed[t] \ (req[r].listed \cap {s})]
      BY <2>1, InvParts DEF RemoveStep, BackendType
    <3>2. placed[t] \ (req[r].listed \cap {s}) \in SUBSET Kinds
      BY <1>1, InvParts DEF BackendType
    <3> QED BY <1>1, <2>1, <3>1, <3>2, PlacedKeepsType, InvParts DEF RemoveStep
  <2>2. CASE s \notin Kinds
    <3>1. Missing \in Levels
      BY DEF Levels, Missing, Full
    <3> QED BY <1>1, <2>2, <3>1, SetLevelKeepsType, InvParts DEF RemoveStep
  <2> QED BY <2>1, <2>2
<1> QED BY <1>2, <1>3, <1>4, InvPartsNext

LEMMA RemoveStepFailsInv ==
    ASSUME IndexInv, NEW r \in Requests, RemoveStepFails(r)
    PROVE  IndexInv'
<1> DEFINE t == req[r].tenant
           i == req[r].index
           s == Head(req[r].todo)
<1>1. req[r].pc \in Bound /\ t \in Tenants /\ i \in Indexes
  BY StepFacts DEF RemoveStepFails, At, Bound
<1>2. req' \in ReqType /\ CarriesIndex'
  BY <1>1, GotoKeepsType, InvParts DEF RemoveStepFails, Bound, Points
<1>3. RegistryType' /\ RowHasIndex' /\ UniqueIndex' /\ CountType'
  BY SameRegistry, InvParts DEF RemoveStepFails, CountType
<1>4. BackendType'
  <2>1. CASE /\ \E set \in {placed[t], placed[t] \ (req[r].listed \cap {s})} :
                   placed' = [placed EXCEPT ![t] = set]
             /\ UNCHANGED <<built, zoneVNI, reverse>>
    <3>1. \A set \in {placed[t], placed[t] \ (req[r].listed \cap {s})} : set \in SUBSET Kinds
      BY <1>1, InvParts DEF BackendType
    <3> QED BY <1>1, <2>1, <3>1, PlacedKeepsType, InvParts
  <2>2. CASE \E level \in Levels, owner \in {reverse[i], None} :
                /\ built' = [built EXCEPT ![t][s] = level]
                /\ zoneVNI' = IF s = "network" /\ level = Missing
                              THEN [zoneVNI EXCEPT ![t] = 0] ELSE zoneVNI
                /\ reverse' = IF s # "dns" THEN reverse ELSE [reverse EXCEPT ![i] = owner]
                /\ UNCHANGED placed
    <3>1. PICK level \in Levels, owner \in {reverse[i], None} :
                /\ built' = [built EXCEPT ![t][s] = level]
                /\ zoneVNI' = IF s = "network" /\ level = Missing
                              THEN [zoneVNI EXCEPT ![t] = 0] ELSE zoneVNI
                /\ reverse' = IF s # "dns" THEN reverse ELSE [reverse EXCEPT ![i] = owner]
                /\ UNCHANGED placed
      BY <2>2
    <3>2. BackendType
      BY InvParts
    <3>3. built' \in [Tenants -> [ObjectSteps -> Levels]]
      BY <3>1, <3>2 DEF BackendType
    <3>4. zoneVNI' \in [Tenants -> {0} \cup {VRFVNI(n) : n \in Indexes}]
      BY <3>1, <3>2 DEF BackendType
    <3>5. reverse' \in [Indexes -> Tenants \cup {None}]
      BY <1>1, <3>1, <3>2 DEF BackendType
    <3> QED BY <3>1, <3>2, <3>3, <3>4, <3>5 DEF BackendType
  <2> QED BY <2>1, <2>2 DEF RemoveStepFails
<1> QED BY <1>2, <1>3, <1>4, InvPartsNext

LEMMA RemoveFailedInv ==
    ASSUME IndexInv, NEW r \in Requests, RemoveFailed(r)
    PROVE  IndexInv'
<1>1. req[r].pc \in Bound
  BY DEF RemoveFailed, At, Bound
<1>2. req' \in ReqType /\ CarriesIndex'
  BY EndKeepsType, InvParts DEF RemoveFailed
<1>3. RegistryType' /\ RowHasIndex' /\ UniqueIndex'
  BY <1>1, StepFacts, RecordStepKeepsRegistry, InvParts DEF RemoveFailed
<1>4. BackendType' /\ CountType'
  BY SameBackends, InvParts DEF RemoveFailed, CountType
<1> QED BY <1>2, <1>3, <1>4, InvPartsNext

LEMMA DropRowInv ==
    ASSUME IndexInv, NEW r \in Requests, DropRow(r)
    PROVE  IndexInv'
<1> DEFINE t == req[r].tenant
<1>1. t \in Tenants
  BY StepFacts DEF DropRow, At, Bound
<1>2. req' \in ReqType /\ CarriesIndex'
  BY EndKeepsType, InvParts DEF DropRow
<1>3. BackendType' /\ CountType'
  BY SameBackends, InvParts DEF DropRow, CountType
<1>4. RegistryType'
  <2>1. NoRow \in [status : Statuses \cup {"absent"}, index : 0 .. MaxAllocatable]
    BY MaxAllocatableAssumption DEF NoRow
  <2>2. NoSteps \in [StepNames -> {"none", "ok", "failed"}]
    BY DEF NoSteps
  <2> QED BY <2>1, <2>2, InvParts DEF DropRow, RegistryType
<1>5. \A u \in Tenants : row'[u] = IF u = t THEN NoRow ELSE row[u]
  BY <1>1, InvParts DEF DropRow, RegistryType
<1>6. RowHasIndex' /\ UniqueIndex'
  BY <1>5, InvParts DEF RowHasIndex, UniqueIndex, Present, NoRow
<1> QED BY <1>2, <1>3, <1>4, <1>6, InvPartsNext

\* The actions of a resource leave rows and indexes alone.
LEMMA IssueCheckInv ==
    ASSUME IndexInv, NEW r \in Requests, IssueCheck(r)
    PROVE  IndexInv'
<1> DEFINE t == req[r].tenant
           q == [req[r] EXCEPT !.pc = "rowdown", !.listed = issued[t] \cap {req[r].kind}]
<1>1. RegistryType' /\ RowHasIndex' /\ UniqueIndex' /\ BackendType' /\ CountType'
  BY SameRegistry, SameBackends, InvParts DEF IssueCheck, CountType
<1>2. CASE End(r)
  BY <1>1, <1>2, EndKeepsType, InvParts, InvPartsNext
<1>3. CASE req' = [req EXCEPT ![r].pc = "rowdown",
                              ![r].listed = issued[t] \cap {req[r].kind}]
  <2>1. req[r] \in RequestType
    BY InvParts, ActiveRequest DEF IssueCheck, At
  <2>2. t \in Tenants /\ req[r].kind \in Kinds
    BY <2>1 DEF RequestType
  <2>3. issued[t] \cap {req[r].kind} \in SUBSET Kinds
    BY <2>2
  <2>4. q \in RequestType /\ q.pc = "rowdown"
    BY <2>1, <2>3 DEF RequestType, Points
  <2>5. req' = [req EXCEPT ![r] = q]
    BY <1>3, InvParts DEF ReqType
  <2> HIDE DEF q
  <2>6. req' \in ReqType /\ CarriesIndex'
    BY <2>4, <2>5, UpdateKeepsType, InvParts DEF Bound
  <2> QED BY <1>1, <2>6, InvPartsNext
<1> QED BY <1>2, <1>3 DEF IssueCheck

LEMMA PlaceConflictInv ==
    ASSUME IndexInv, NEW r \in Requests, PlaceConflict(r)
    PROVE  IndexInv'
<1>1. req' \in ReqType /\ CarriesIndex'
  BY EndKeepsType, InvParts DEF PlaceConflict
<1>2. BackendType' /\ CountType'
  BY SameBackends, InvParts DEF PlaceConflict, CountType
<1>3. RegistryType' /\ RowHasIndex' /\ UniqueIndex'
  <2>1. issued' \in [Tenants -> SUBSET Kinds] /\ UNCHANGED <<row, steps>>
    BY InvParts DEF PlaceConflict, RegistryType
  <2> QED BY <2>1, InvParts DEF RegistryType, RowHasIndex, UniqueIndex, Present
<1> QED BY <1>1, <1>2, <1>3, InvPartsNext

LEMMA ResourceInv ==
    ASSUME IndexInv, NEW r \in Requests,
           \/ IssueRow(r) \/ Place(r)
           \/ WithdrawCheck(r) \/ Unplace(r) \/ WithdrawRow(r)
    PROVE  IndexInv'
<1> DEFINE t == req[r].tenant
           kind == req[r].kind
<1>1. req[r].pc # "idle" /\ t \in Tenants /\ kind \in Kinds
  <2>1. req[r].pc # "idle"
    BY DEF IssueRow, Place, WithdrawCheck, Unplace, WithdrawRow, At
  <2>2. req[r] \in RequestType
    BY <2>1, InvParts, ActiveRequest
  <2> QED BY <2>1, <2>2 DEF RequestType
<1>2. req' \in ReqType /\ CarriesIndex'
  <2>1. \A point \in {"place", "unplace", "rowaway"} : point \in Points \ Bound
    BY DEF Points, Bound
  <2>2. \/ End(r)
        \/ \E point \in {"place", "unplace", "rowaway"} : Goto(r, point)
    BY DEF IssueRow, Place, WithdrawCheck, Unplace, WithdrawRow
  <2> QED BY <1>1, <2>1, <2>2, EndKeepsType, GotoKeepsType, InvParts
<1>3. RegistryType' /\ RowHasIndex' /\ UniqueIndex'
  <2>1. UNCHANGED <<row, steps>>
    BY DEF IssueRow, Place, WithdrawCheck, Unplace, WithdrawRow, registry
  <2>2. \/ issued' = issued
        \/ \E set \in SUBSET Kinds : issued' = [issued EXCEPT ![t] = set]
    <3>1. issued[t] \cup {kind} \in SUBSET Kinds /\ issued[t] \ {kind} \in SUBSET Kinds
      BY <1>1, InvParts DEF RegistryType
    <3>2. \/ issued' = issued
          \/ issued' = [issued EXCEPT ![t] = issued[t] \cup {kind}]
          \/ issued' = [issued EXCEPT ![t] = issued[t] \ {kind}]
      BY DEF IssueRow, Place, WithdrawCheck, Unplace, WithdrawRow, registry
    <3> QED BY <3>1, <3>2
  <2>3. issued' \in [Tenants -> SUBSET Kinds]
    BY <1>1, <2>2, InvParts DEF RegistryType
  <2> QED BY <2>3, <2>1, InvParts DEF RegistryType, RowHasIndex, UniqueIndex, Present
<1>4. BackendType' /\ CountType'
  <2>1. placed' \in [Tenants -> SUBSET Kinds] /\ UNCHANGED <<built, zoneVNI, reverse, faults, losses>>
    BY <1>1, InvParts
       DEF IssueRow, Place, WithdrawCheck, Unplace, WithdrawRow, backends, BackendType
  <2> QED BY <2>1, InvParts DEF BackendType, CountType
<1> QED BY <1>2, <1>3, <1>4, InvPartsNext

LEMMA AbandonInv ==
    ASSUME IndexInv, NEW r \in Requests, Abandon(r)
    PROVE  IndexInv'
<1>1. req' \in ReqType /\ CarriesIndex'
  BY EndKeepsType, InvParts DEF Abandon
<1>2. RegistryType' /\ RowHasIndex' /\ UniqueIndex' /\ BackendType' /\ CountType'
  BY SameRegistry, SameBackends, InvParts DEF Abandon, CountType
<1> QED BY <1>1, <1>2, InvPartsNext

LEMMA LoseRegistryInv ==
    ASSUME IndexInv, LoseRegistry
    PROVE  IndexInv'
<1>1. RegistryType' /\ RowHasIndex' /\ UniqueIndex'
  BY MaxAllocatableAssumption
     DEF LoseRegistry, RegistryType, RowHasIndex, UniqueIndex, Present, NoRow, NoSteps, Statuses
<1>2. BackendType' /\ CountType' /\ req' \in ReqType /\ CarriesIndex'
  BY SameBackends, InvParts DEF LoseRegistry, CountType, CarriesIndex
<1> QED BY <1>1, <1>2, InvPartsNext

LEMMA StutterInv == ASSUME IndexInv, UNCHANGED vars PROVE IndexInv'
<1>1. RegistryType' /\ RowHasIndex' /\ UniqueIndex' /\ BackendType' /\ CountType'
  BY SameRegistry, SameBackends, InvParts DEF vars, registry, backends, CountType
<1>2. req' \in ReqType /\ CarriesIndex'
  BY InvParts DEF vars, CarriesIndex
<1> QED BY <1>1, <1>2, InvPartsNext

\* A call begins: the request's fields are of their types.
LEMMA BeginsInv ==
    ASSUME IndexInv, NEW r \in Requests,
           BeginCreate(r) \/ BeginReconcile(r) \/ BeginDelete(r) \/ BeginResource(r)
    PROVE  IndexInv'
<1>1. 0 \in 0 .. MaxAllocatable /\ FALSE \in BOOLEAN /\ "workload" \in Kinds
  BY MaxAllocatableAssumption DEF Kinds
<1>2. {"create", "reconcile", "delete"} \subseteq Ops /\ ResourceOps \subseteq Ops
  BY DEF Ops, ResourceOps
<1>3. Issuable \subseteq Kinds
  BY SiteAssumption DEF Kinds
<1>4. CASE BeginCreate(r)
  BY <1>1, <1>2, <1>4, BeginInv DEF BeginCreate
<1>5. CASE BeginReconcile(r) \/ BeginDelete(r)
  BY <1>1, <1>2, <1>5, BeginInv DEF BeginReconcile, BeginDelete
<1>6. CASE BeginResource(r)
  BY <1>1, <1>2, <1>3, <1>6, BeginInv DEF BeginResource
<1> QED BY <1>4, <1>5, <1>6

LEMMA NextInv == IndexInv /\ [Next]_vars => IndexInv'
<1> SUFFICES ASSUME IndexInv, [Next]_vars PROVE IndexInv'
  OBVIOUS
<1>1. CASE UNCHANGED vars
  BY <1>1, StutterInv
<1>2. CASE LoseRegistry
  BY <1>2, LoseRegistryInv
<1>3. ASSUME NEW r \in Requests, Continue(r)
      PROVE  IndexInv'
  BY <1>3, GetInv, ReadClaimsInv, InsertInv, SetSecretsInv, EnsureStepInv, EnsureFailedInv,
     EnsureEndsInv, DeleteCheckInv, DeleteMarkInv, DeleteListInv, RemoveStepInv, RemoveFailedInv,
     DropRowInv, IssueCheckInv, ResourceInv
     DEF Continue
<1>4. ASSUME NEW r \in Requests,
             \/ BeginCreate(r) \/ BeginReconcile(r) \/ BeginDelete(r) \/ BeginResource(r)
             \/ EnsureStepFails(r) \/ RemoveStepFails(r) \/ PlaceConflict(r)
             \/ Abandon(r)
      PROVE  IndexInv'
  BY <1>4, BeginsInv, EnsureStepFailsInv, RemoveStepFailsInv, PlaceConflictInv, AbandonInv
<1> QED BY <1>1, <1>2, <1>3, <1>4 DEF Next

-----------------------------------------------------------------------------
(* The theorems.                                                            *)

\* IndexInv holds of every behaviour.
LEMMA SpecInv == Spec => []IndexInv
<1>1. Init => IndexInv
  BY InitInv
<1>2. IndexInv /\ [Next]_vars => IndexInv'
  BY NextInv
<1> QED BY <1>1, <1>2, PTL DEF Spec

\* Rows, backend objects and every handler's locals stay of their types; in
\* particular no zone is ever built with an index outside 1..MaxAllocatable.
THEOREM TypeCorrect == Spec => []TypeOK
<1>1. IndexInv => TypeOK
  BY DEF IndexInv
<1> QED BY <1>1, SpecInv, PTL

\* No two registered tenants ever hold the same index, however many requests
\* overlap, fail and are cut off, and however often the registry is lost.
THEOREM IndexesUnique == Spec => []UniqueIndex
<1>1. IndexInv => UniqueIndex
  BY DEF IndexInv
<1> QED BY <1>1, SpecInv, PTL

-----------------------------------------------------------------------------
(* The registry implements IndexRegistry.                                   *)

holds == [t \in Tenants |-> row[t].index]

\* Every step but Insert, DropRow and LoseRegistry leaves every index alone.
LEMMA SetStatusHolds ==
    ASSUME RegistryType, NEW t \in Tenants, NEW status, SetStatus(t, status)
    PROVE  holds' = holds
<1>1. \A u \in Tenants : row'[u].index = row[u].index
  BY DEF SetStatus, RegistryType
<1> QED BY <1>1 DEF holds

LEMMA InsertAllocates ==
    ASSUME IndexInv, NEW r \in Requests, Insert(r)
    PROVE  holds' = holds \/ \E t \in Tenants, i \in Indexes : Registry!Allocate(t, i)
<1> DEFINE q == req[r]
           held == {row[t].index : t \in {u \in Tenants : Present(u)}}
           n == pickIndex(q.tenant, q.asked, held, q.claims)
<1>1. q \in RequestType
  BY InvParts, ActiveRequest DEF Insert, At
<1>2. q.tenant \in Tenants /\ q.asked \in 0 .. MaxAllocatable
  BY <1>1 DEF RequestType
<1>3. n = 0 \/ (n \in Indexes /\ n \notin held)
  BY <1>2, PickIndexIsFree DEF Free
<1> HIDE DEF n
<1>4. CASE Present(q.tenant) \/ n = 0
  BY <1>4 DEF Insert, holds, n
<1>5. CASE ~Present(q.tenant) /\ n # 0
  <2>1. row' = [row EXCEPT ![q.tenant] = [status |-> "provisioning", index |-> n]]
    BY <1>5 DEF Insert, n
  <2>2. n \in Indexes /\ n \notin held /\ 0 \notin Indexes
    BY <1>3, <1>5 DEF Indexes, MinIndex
  <2>3. holds[q.tenant] = 0
    BY <1>2, <1>5, InvParts DEF RowHasIndex, holds
  <2>4. \A u \in Tenants : holds[u] # n
    BY <2>2, InvParts DEF RowHasIndex, holds
  <2>5. holds' = [holds EXCEPT ![q.tenant] = n]
    BY <1>2, <2>1, InvParts DEF holds, RegistryType
  <2>6. PICK t \in Tenants, i \in Indexes : t = q.tenant /\ i = n
    BY <1>2, <2>2
  <2>7. Registry!Allocate(t, i)
    BY <2>3, <2>4, <2>5, <2>6 DEF Registry!Allocate, holds
  <2> QED BY <2>7
<1> QED BY <1>4, <1>5

LEMMA DropRowReleases ==
    ASSUME IndexInv, NEW r \in Requests, DropRow(r)
    PROVE  holds' = holds \/ \E t \in Tenants : Registry!Release(t)
<1> DEFINE t == req[r].tenant
<1>1. t \in Tenants
  BY StepFacts DEF DropRow, At, Bound
<1>2. holds' = [holds EXCEPT ![t] = 0]
  BY <1>1, InvParts DEF DropRow, RegistryType, holds, NoRow
<1>3. CASE holds[t] = 0
  BY <1>1, <1>2, <1>3 DEF holds
<1>4. CASE holds[t] # 0
  BY <1>1, <1>2, <1>4 DEF Registry!Release, holds
<1> QED BY <1>3, <1>4

LEMMA NextRefines ==
    IndexInv /\ [Next]_vars => Registry!Next \/ holds' = holds
<1> SUFFICES ASSUME IndexInv, [Next]_vars PROVE Registry!Next \/ holds' = holds
  OBVIOUS
<1>1. CASE row' = row
  BY <1>1 DEF holds
<1>2. CASE LoseRegistry
  BY <1>2 DEF LoseRegistry, Registry!Next, Registry!Wipe, NoRow
<1>3. ASSUME NEW r \in Requests, Insert(r) PROVE Registry!Next \/ holds' = holds
  BY <1>3, InsertAllocates DEF Registry!Next
<1>4. ASSUME NEW r \in Requests, DropRow(r) PROVE Registry!Next \/ holds' = holds
  BY <1>4, DropRowReleases DEF Registry!Next
<1>5. ASSUME NEW r \in Requests, EnsureDemote(r) \/ EnsureDone(r) \/ DeleteMark(r)
      PROVE  holds' = holds
  <2>1. req[r].tenant \in Tenants
    BY <1>5, StepFacts DEF EnsureDemote, EnsureDone, DeleteMark, At, Bound
  <2> QED BY <1>5, <2>1, SetStatusHolds, InvParts DEF EnsureDemote, EnsureDone, DeleteMark
<1>6. ASSUME NEW r \in Requests, Continue(r)
      PROVE  \/ Insert(r) \/ DropRow(r)
             \/ EnsureDemote(r) \/ EnsureDone(r) \/ DeleteMark(r)
             \/ row' = row
  BY <1>6 DEF Continue, Get, ReadClaims, SetSecrets, EnsureStep, EnsureFailed, DeleteCheck,
              DeleteList, RemoveStep, RemoveFailed, IssueCheck, IssueRow, Place, WithdrawCheck, Unplace,
              WithdrawRow, registry
<1>7. ASSUME NEW r \in Requests,
             \/ BeginCreate(r) \/ BeginReconcile(r) \/ BeginDelete(r) \/ BeginResource(r)
             \/ EnsureStepFails(r) \/ RemoveStepFails(r) \/ PlaceConflict(r)
             \/ Abandon(r)
      PROVE  row' = row
  BY <1>7 DEF BeginCreate, BeginReconcile, BeginDelete, BeginResource, Begin,
              EnsureStepFails, RemoveStepFails, PlaceConflict, Abandon, registry
<1> QED BY <1>1, <1>2, <1>3, <1>4, <1>5, <1>6, <1>7 DEF Next, vars

\* The registry implements IndexRegistry: an index is taken only when nobody
\* holds it, never changes while it is held, and is given up only with the row.
THEOREM RegistryRefinement == Spec => ImplementsRegistry
<1>1. Init => Registry!Init
  BY DEF Init, Registry!Init, NoRow
<1>2. IndexInv /\ [Next]_vars => [Registry!Next]_holds
  BY NextRefines
<1>3. Registry!Spec <=> Registry!Init /\ [][Registry!Next]_holds
  BY DEF Registry!Spec, holds
<1> QED BY <1>1, <1>2, <1>3, SpecInv, PTL DEF Spec, ImplementsRegistry
=============================================================================
