------------------------- MODULE TenantObjectsProofs -------------------------
(***************************************************************************)
(* What TenantLifecycle says of a tenant's objects in the backends, proved  *)
(* for any tenants and requests and any number of faults and losses, on a   *)
(* site where nobody changes a tenant twice at once (~Overlap).             *)
(*                                                                          *)
(* A handler never looks again at what it read, so every property rests on  *)
(* what the handler has found and done by the point it is at (Standing,     *)
(* Progress, Claimed), and on nobody else having touched it since           *)
(* (Exclusive).  Tenants meet in the indexes and zones only: FabricInv.     *)
(***************************************************************************)
EXTENDS TenantLifecycleProofs

-----------------------------------------------------------------------------
(* The inductive invariant.                                                  *)

\* The points a call of each kind comes by.
Fits(op, point) ==
    /\ op = "create" => point \in {"get", "claims", "insert", "secrets", "ensure", "failed", "demote"}
    /\ op = "reconcile" => point \in {"get", "ensure", "failed", "demote"}
    /\ op = "delete" => point \in {"check", "mark", "list", "remove", "unremoved"}
    /\ op = "issue" => point \in {"check", "rowdown", "place"}
    /\ op = "withdraw" => point \in {"check", "unplace", "rowaway"}

\* Of two calls for one tenant, each is about a resource of its own.
Exclusive ==
    \A r, q \in Requests :
        r # q /\ ~At(r, "idle") /\ ~At(q, "idle") /\ req[r].tenant = req[q].tenant =>
            /\ req[r].op \in ResourceOps /\ req[q].op \in ResourceOps
            /\ req[r].kind # req[q].kind

\* What a handler read of the row is what the row is.
Standing(r) ==
    LET q == req[r] t == req[r].tenant
    IN  /\ q.pc \in {"claims", "insert"} => ~Present(t)
        /\ q.pc \in {"secrets", "ensure", "failed", "demote"} =>
              row[t].status \in {"provisioning", "ready"}
        /\ q.pc \in {"list", "remove", "unremoved"} => row[t].status = "deleting"
        /\ q.pc \in {"mark", "list", "remove", "unremoved"} => Present(t) /\ "workload" \notin issued[t]
        /\ q.pc \in Bound => q.index = row[t].index

StepsOf(todo) == {todo[i] : i \in 1 .. Len(todo)}

\* The objects of step s are there for tenant t at index i; are gone.
Done(t, i, s) ==
    /\ s \in ObjectSteps => built[t][s] = Full
    /\ s = "network" => zoneVNI[t] = VRFVNI(i)
    /\ s = "dns" => reverse[i] = t

Undone(t, i, s) ==
    /\ s \in ObjectSteps => built[t][s] = Missing
    /\ s = "network" => zoneVNI[t] = 0
    /\ s = "dns" => reverse[i] # t

\* What ensure and Delete have done by the steps still ahead of them.
Progress(r) ==
    LET q == req[r] t == req[r].tenant
    IN  /\ q.pc = "ensure" =>
              /\ StepsOf(q.todo) \subseteq EnsureSet
              /\ \A s \in EnsureSet \ StepsOf(q.todo) : Done(t, q.index, s)
        /\ q.pc = "remove" =>
              /\ \A s \in ObjectSteps \ StepsOf(q.todo) : Undone(t, q.index, s)
              /\ losses = 0 => placed[t] \subseteq StepsOf(q.todo) \cap q.listed

\* A resource has its row before it is placed, and is gone before its row.
Issuing(r) ==
    /\ At(r, "place") => req[r].kind \in issued[req[r].tenant]
    /\ At(r, "rowaway") => req[r].kind \notin placed[req[r].tenant]

\* The claims a create read are still good: what has been built since has a
\* row, nobody touched the tenant's own zone.
Claimed(r) ==
    At(r, "insert") =>
        LET t == req[r].tenant C == req[r].claims
        IN  /\ \A u \in Tenants \ {t} : zoneVNI[u] # 0 =>
                  \/ row[u].index # 0 /\ zoneVNI[u] = VRFVNI(row[u].index)
                  \/ \E c \in C : c.zone = u /\ zoneVNI[u] = VRFVNI(c.index)
            /\ \A z \in ForeignZones, i \in Indexes :
                  z.vni = VRFVNI(i) => \E c \in C : c.zone = z.zone /\ c.index = i
            /\ zoneVNI[t] # 0 =>
                  /\ \E c \in C : c.zone = t
                  /\ \A c \in C : c.zone = t <=> zoneVNI[t] = VRFVNI(c.index)

\* A tenant's objects, whatever calls are at work.
TenantInv(t) ==
    /\ built[t]["network"] = Missing <=> zoneVNI[t] = 0
    /\ \A s \in ObjectSteps \ EnsureSet : built[t][s] = Missing
    /\ losses = 0 => placed[t] \subseteq issued[t]
    /\ row[t].status = "ready" => \A s \in EnsureSet : Done(t, row[t].index, s)

\* A zone's VNI is no other tenant's, in the fabric or by its row, and no
\* foreign zone's.
FabricInv ==
    /\ \A t, u \in Tenants : t # u /\ zoneVNI[t] # 0 =>
          /\ zoneVNI[t] # zoneVNI[u]
          /\ row[u].index # 0 => zoneVNI[t] # VRFVNI(row[u].index)
    /\ \A t \in Tenants, z \in ForeignZones :
          /\ row[t].index # 0 => VRFVNI(row[t].index) # z.vni
          /\ zoneVNI[t] # 0 => zoneVNI[t] # z.vni

CallInv(r) == Fits(req[r].op, req[r].pc) /\ Standing(r) /\ Progress(r) /\ Issuing(r)

ObjectsInv ==
    /\ IndexInv /\ Exclusive /\ FabricInv
    /\ \A r \in Requests : CallInv(r) /\ Claimed(r)
    /\ \A t \in Tenants : TenantInv(t)
-----------------------------------------------------------------------------
(* A step of one call and everybody else.                                    *)

\* What a step of call r leaves alone: other calls, other tenants, other
\* tenants' reverse zones, other resources.
Local(r) ==
    LET t == req[r].tenant
    IN  /\ \A q \in Requests \ {r} : req'[q] = req[q]
        /\ \A u \in Tenants \ {t} :
              /\ row'[u] = row[u] /\ issued'[u] = issued[u] /\ built'[u] = built[u]
              /\ zoneVNI'[u] = zoneVNI[u] /\ placed'[u] = placed[u]
        /\ \A i \in Indexes :
              \/ reverse'[i] = reverse[i]
              \/ i = row[t].index /\ Present(t) /\ reverse'[i] \in {t, None}
        /\ losses' = losses
        /\ req[r].op \in ResourceOps => \A k \in Kinds \ {req[r].kind} :
              (k \in issued'[t] <=> k \in issued[t]) /\ (k \in placed'[t] <=> k \in placed[t])
        /\ \/ req'[r] = Idle
           \/ /\ req'[r].tenant = t /\ req'[r].op = req[r].op
              /\ req[r].op \in ResourceOps => req'[r].kind = req[r].kind

\* A handler that is somewhere is a handler of a kind, for a tenant.
LEMMA CallFacts ==
    ASSUME ObjectsInv, NEW r \in Requests, ~At(r, "idle")
    PROVE  /\ req[r] \in RequestType /\ req[r].tenant \in Tenants /\ req[r].op \in Ops
           /\ req[r].kind \in Kinds /\ req[r].index \in 0 .. MaxAllocatable
           /\ req[r].claims \in SUBSET ClaimSet /\ req[r].listed \in SUBSET Kinds
           /\ req[r].asked \in 0 .. MaxAllocatable /\ req[r].todo \in Seq(StepNames)
<1>1. req \in ReqType
  BY InvParts DEF ObjectsInv
<1>2. req[r] \in RequestType
  BY <1>1, ActiveRequest DEF At
<1> QED BY <1>2 DEF RequestType

LEMMA IdleCall ==
    ASSUME NEW r \in Requests, req'[r] = Idle
    PROVE  CallInv(r)' /\ Claimed(r)'
BY DEF CallInv, Claimed, Fits, Standing, Progress, Issuing, At, Idle, Bound

\* Two registered tenants have two indexes, so a step for one leaves the
\* other's reverse zone alone.
LEMMA OwnReverse ==
    ASSUME ObjectsInv, NEW r \in Requests, ~At(r, "idle"), Local(r),
           NEW u \in Tenants \ {req[r].tenant}, Present(u)
    PROVE  row[u].index \in Indexes /\ reverse'[row[u].index] = reverse[row[u].index]
<1>1. RowHasIndex /\ UniqueIndex /\ req[r].tenant \in Tenants
  BY CallFacts, InvParts DEF ObjectsInv
<1>2. row[u].index \in Indexes
  BY <1>1 DEF RowHasIndex
<1>3. Present(req[r].tenant) => row[u].index # row[req[r].tenant].index
  BY <1>1 DEF UniqueIndex
<1> QED BY <1>2, <1>3 DEF Local

LEMMA OtherCalls ==
    ASSUME ObjectsInv, NEW r \in Requests, ~At(r, "idle"), Local(r), NEW q \in Requests \ {r}
    PROVE  CallInv(q)'
<1> DEFINE t == req[r].tenant
           u == req[q].tenant
<1>1. req'[q] = req[q] /\ CallInv(q)
  BY DEF Local, ObjectsInv
<1>2. CASE At(q, "idle")
  <2>1. req[q] = Idle
    <3>1. req[q] \in RequestType \cup {Idle}
      BY InvParts DEF ObjectsInv, ReqType
    <3> QED BY <1>2, <3>1 DEF At, RequestType, Points
  <2> QED BY <1>1, <2>1, IdleCall
<1>3. CASE ~At(q, "idle") /\ u # t
  <2>1. u \in Tenants \ {t}
    BY <1>3, CallFacts
  <2>2. /\ row'[u] = row[u] /\ issued'[u] = issued[u] /\ built'[u] = built[u]
        /\ zoneVNI'[u] = zoneVNI[u] /\ placed'[u] = placed[u] /\ losses' = losses
    BY <2>1 DEF Local
  <2>3. Fits(req[q].op, req[q].pc)' /\ Standing(q)' /\ Issuing(q)'
    BY <1>1, <2>2 DEF CallInv, Fits, Standing, Issuing, At, Present
  <2>4. Progress(q)'
    <3>1. CASE req[q].pc = "ensure"
      <4>1. Present(u) /\ req[q].index = row[u].index
        BY <1>1, <3>1 DEF CallInv, Standing, Bound, Present
      <4>2. reverse'[req[q].index] = reverse[req[q].index]
        BY <2>1, <4>1, OwnReverse
      <4> QED BY <1>1, <2>2, <3>1, <4>2 DEF CallInv, Progress, Done
    <3>2. CASE req[q].pc = "remove"
      <4>1. Present(u) /\ req[q].index = row[u].index
        BY <1>1, <3>2 DEF CallInv, Standing, Bound
      <4>2. reverse'[req[q].index] = reverse[req[q].index]
        BY <2>1, <4>1, OwnReverse
      <4> QED BY <1>1, <2>2, <3>2, <4>2 DEF CallInv, Progress, Undone
    <3> QED BY <1>1, <3>1, <3>2 DEF Progress
  <2> QED BY <2>3, <2>4 DEF CallInv
<1>4. CASE ~At(q, "idle") /\ u = t
  <2>1. req[r].op \in ResourceOps /\ req[q].op \in ResourceOps /\ req[q].kind # req[r].kind
    BY <1>4 DEF ObjectsInv, Exclusive
  <2>2. req[q].kind \in Kinds \ {req[r].kind}
    BY <1>4, <2>1, CallFacts
  <2>3. /\ req[q].kind \in issued'[t] <=> req[q].kind \in issued[t]
        /\ req[q].kind \in placed'[t] <=> req[q].kind \in placed[t]
    BY <2>1, <2>2 DEF Local
  <2>4. req[q].pc \in {"check", "rowdown", "place", "unplace", "rowaway"}
    BY <1>1, <2>1 DEF CallInv, Fits, ResourceOps
  <2>5. Issuing(q)'
    BY <1>1, <1>4, <2>3 DEF CallInv, Issuing, At
  <2>6. Fits(req[q].op, req[q].pc)' /\ Standing(q)' /\ Progress(q)'
    BY <1>1, <2>4 DEF CallInv, Fits, Standing, Progress, Bound
  <2> QED BY <2>5, <2>6 DEF CallInv
<1> QED BY <1>2, <1>3, <1>4

LEMMA OtherTenants ==
    ASSUME ObjectsInv, NEW r \in Requests, ~At(r, "idle"), Local(r),
           NEW u \in Tenants \ {req[r].tenant}
    PROVE  TenantInv(u)'
<1>1. /\ row'[u] = row[u] /\ issued'[u] = issued[u] /\ built'[u] = built[u]
      /\ zoneVNI'[u] = zoneVNI[u] /\ placed'[u] = placed[u] /\ losses' = losses
  BY DEF Local
<1>2. TenantInv(u)
  BY DEF ObjectsInv
<1>3. ASSUME row[u].status = "ready", NEW s \in EnsureSet PROVE Done(u, row[u].index, s)'
  <2>1. Done(u, row[u].index, s)
    BY <1>2, <1>3 DEF TenantInv
  <2>2. reverse'[row[u].index] = reverse[row[u].index]
    BY <1>3, OwnReverse DEF Present
  <2> QED BY <1>1, <2>1, <2>2 DEF Done
<1> QED BY <1>1, <1>2, <1>3 DEF TenantInv

LEMMA StaysExclusive ==
    ASSUME ObjectsInv, NEW r \in Requests, ~At(r, "idle"), Local(r)
    PROVE  Exclusive'
<1> SUFFICES ASSUME NEW p \in Requests, NEW q \in Requests, p # q,
                    ~At(p, "idle")', ~At(q, "idle")', req'[p].tenant = req'[q].tenant
             PROVE  /\ req'[p].op \in ResourceOps /\ req'[q].op \in ResourceOps
                    /\ req'[p].kind # req'[q].kind
  BY DEF Exclusive
<1>1. ASSUME NEW x \in Requests, ~At(x, "idle")'
      PROVE  /\ ~At(x, "idle") /\ req'[x].tenant = req[x].tenant /\ req'[x].op = req[x].op
             /\ req[x].op \in ResourceOps => req'[x].kind = req[x].kind
  BY <1>1 DEF Local, At, Idle
<1> QED BY <1>1 DEF ObjectsInv, Exclusive

-----------------------------------------------------------------------------
(* The fabric.                                                               *)

LEMMA VNIsDiffer ==
    /\ \A i, j \in AnyIndex : VRFVNI(i) = VRFVNI(j) => i = j
    /\ \A i \in AnyIndex : i # 0 => VRFVNI(i) # 0
    /\ Indexes \subseteq AnyIndex /\ 0 \notin Indexes
    /\ 0 .. MaxAllocatable \subseteq AnyIndex
BY MaxAllocatableAssumption, BasesAssumption
   DEF AnyIndex, Indexes, MinIndex, ReservedIndex, VRFVNI

\* A zone is built at the index of the row only, and rows keep theirs.
ZoneStep(r) ==
    LET t == req[r].tenant
    IN  /\ \A u \in Tenants : row'[u].index = row[u].index
        /\ \/ zoneVNI'[t] \in {0, zoneVNI[t]}
           \/ row[t].index # 0 /\ zoneVNI'[t] = VRFVNI(row[t].index)

LEMMA FabricKeeps ==
    ASSUME ObjectsInv, NEW r \in Requests, ~At(r, "idle"), Local(r), ZoneStep(r)
    PROVE  FabricInv' /\ \A q \in Requests \ {r} : Claimed(q)'
<1> DEFINE t == req[r].tenant
<1>1. t \in Tenants /\ FabricInv /\ RowHasIndex /\ UniqueIndex
  BY CallFacts, InvParts DEF ObjectsInv
<1>2. \A u \in Tenants : row[u].index # 0 => row[u].index \in Indexes /\ Present(u)
  BY <1>1 DEF RowHasIndex
<1>3. \A u, v \in Tenants : u # v /\ row[u].index # 0 /\ row[v].index # 0 =>
          VRFVNI(row[u].index) # VRFVNI(row[v].index)
  BY <1>1, <1>2, VNIsDiffer DEF UniqueIndex
<1>4. \A u \in Tenants \ {t} : zoneVNI'[u] = zoneVNI[u]
  BY DEF Local
<1>5. \A u \in Tenants : row'[u].index = row[u].index
  BY DEF ZoneStep
<1>6. \/ zoneVNI'[t] \in {0, zoneVNI[t]}
      \/ row[t].index # 0 /\ zoneVNI'[t] = VRFVNI(row[t].index)
  BY DEF ZoneStep
<1>7. FabricInv'
  <2>1. ASSUME NEW u \in Tenants, NEW v \in Tenants, u # v, zoneVNI'[u] # 0
        PROVE  /\ zoneVNI'[u] # zoneVNI'[v]
               /\ row'[v].index # 0 => zoneVNI'[u] # VRFVNI(row'[v].index)
    BY <2>1, <1>1, <1>3, <1>4, <1>5, <1>6 DEF FabricInv
  <2>2. ASSUME NEW u \in Tenants, NEW z \in ForeignZones
        PROVE  /\ row'[u].index # 0 => VRFVNI(row'[u].index) # z.vni
               /\ zoneVNI'[u] # 0 => zoneVNI'[u] # z.vni
    BY <1>1, <1>4, <1>5, <1>6 DEF FabricInv
  <2> QED BY <2>1, <2>2 DEF FabricInv
<1>8. ASSUME NEW q \in Requests \ {r} PROVE Claimed(q)'
  <2> SUFFICES ASSUME At(q, "insert")' PROVE Claimed(q)'
    BY DEF Claimed
  <2>1. req'[q] = req[q] /\ At(q, "insert") /\ Claimed(q) /\ CallInv(q)
    BY DEF Local, At, ObjectsInv
  <2>2. req[q].tenant \in Tenants \ {t}
    <3>1. req[q].op \notin ResourceOps
      BY <2>1 DEF CallInv, Fits, ResourceOps, At
    <3> QED BY <2>1, <3>1, CallFacts DEF ObjectsInv, Exclusive, At
  <2>3. zoneVNI'[req[q].tenant] = zoneVNI[req[q].tenant]
    BY <1>4, <2>2
  <2>4. ASSUME NEW u \in Tenants \ {req[q].tenant}, zoneVNI'[u] # 0
        PROVE  \/ row'[u].index # 0 /\ zoneVNI'[u] = VRFVNI(row'[u].index)
               \/ \E c \in req[q].claims : c.zone = u /\ zoneVNI'[u] = VRFVNI(c.index)
    BY <2>1, <2>4, <1>4, <1>5, <1>6 DEF Claimed
  <2> QED BY <2>1, <2>3, <2>4 DEF Claimed
<1> QED BY <1>7, <1>8

\* A step of call r keeps the invariant if it keeps the call's own part and
\* its tenant's.
LEMMA StepKeeps ==
    ASSUME ObjectsInv, IndexInv', NEW r \in Requests, ~At(r, "idle"), Local(r), ZoneStep(r),
           CallInv(r)', Claimed(r)', NEW t \in Tenants, t = req[r].tenant, TenantInv(t)'
    PROVE  ObjectsInv'
<1>1. \A q \in Requests : CallInv(q)' /\ Claimed(q)'
  BY OtherCalls, FabricKeeps
<1>2. \A u \in Tenants : TenantInv(u)'
  BY OtherTenants
<1> QED BY <1>1, <1>2, StaysExclusive, FabricKeeps DEF ObjectsInv

\* A step that only moves the handler on.
LEMMA MoveKeeps ==
    ASSUME ObjectsInv, IndexInv', NEW r \in Requests, ~At(r, "idle"),
           UNCHANGED <<row, issued, backends, losses>>,
           NEW p, req' = [req EXCEPT ![r] = p],
           \/ p = Idle
           \/ /\ p.tenant = req[r].tenant /\ p.op = req[r].op
              /\ req[r].op \in ResourceOps => p.kind = req[r].kind
              /\ CallInv(r)' /\ Claimed(r)'
    PROVE  ObjectsInv'
<1>1. req \in ReqType /\ req[r].tenant \in Tenants
  BY CallFacts, InvParts DEF ObjectsInv
<1>2. req'[r] = p /\ \A q \in Requests \ {r} : req'[q] = req[q]
  BY <1>1 DEF ReqType
<1>3. Local(r) /\ ZoneStep(r)
  BY <1>2 DEF Local, ZoneStep, backends
<1>4. CallInv(r)' /\ Claimed(r)'
  BY <1>2, IdleCall
<1>5. PICK t \in Tenants : t = req[r].tenant
  BY <1>1
<1>6. TenantInv(t)'
  <2>1. TenantInv(t)
    BY DEF ObjectsInv
  <2> QED BY <2>1 DEF TenantInv, Done, backends
<1> QED BY <1>3, <1>4, <1>5, <1>6, StepKeeps

-----------------------------------------------------------------------------
(* The lists of steps.                                                       *)

LEMMA StepsOfConcat ==
    ASSUME NEW a \in Seq(StepNames), NEW b \in Seq(StepNames)
    PROVE  StepsOf(a \o b) = StepsOf(a) \cup StepsOf(b)
<1>1. ASSUME NEW x \in StepsOf(a \o b) PROVE x \in StepsOf(a) \cup StepsOf(b)
  <2>1. PICK i \in 1 .. Len(a \o b) : x = (a \o b)[i]
    BY DEF StepsOf
  <2>2. CASE i <= Len(a)
    BY <2>1, <2>2 DEF StepsOf
  <2>3. CASE i > Len(a)
    <3>1. i - Len(a) \in 1 .. Len(b) /\ x = b[i - Len(a)]
      BY <2>1, <2>3
    <3> QED BY <3>1 DEF StepsOf
  <2> QED BY <2>2, <2>3
<1>2. ASSUME NEW x \in StepsOf(a) PROVE x \in StepsOf(a \o b)
  <2>1. PICK i \in 1 .. Len(a) : x = a[i]
    BY DEF StepsOf
  <2>2. i \in 1 .. Len(a \o b) /\ x = (a \o b)[i]
    BY <2>1
  <2> QED BY <2>2 DEF StepsOf
<1>3. ASSUME NEW x \in StepsOf(b) PROVE x \in StepsOf(a \o b)
  <2>1. PICK i \in 1 .. Len(b) : x = b[i]
    BY DEF StepsOf
  <2>2. i + Len(a) \in 1 .. Len(a \o b) /\ x = (a \o b)[i + Len(a)]
    BY <2>1
  <2> QED BY <2>2 DEF StepsOf
<1> QED BY <1>1, <1>2, <1>3

LEMMA StepsOfIf ==
    ASSUME NEW s \in StepNames
    PROVE  If(s) \in Seq(StepNames) /\ StepsOf(If(s)) = Optional \cap {s}
<1>1. CASE s \in Optional
  <2>1. Len(<<s>>) = 1 /\ <<s>>[1] = s /\ <<s>> \in Seq(StepNames)
    OBVIOUS
  <2>2. StepsOf(<<s>>) = {s}
    BY <2>1 DEF StepsOf
  <2> QED BY <1>1, <2>1, <2>2 DEF If
<1>2. CASE s \notin Optional
  BY <1>2 DEF If, StepsOf
<1> QED BY <1>1, <1>2

LEMMA StepsOfTail ==
    ASSUME NEW a \in Seq(StepNames), a # <<>>
    PROVE  /\ Head(a) \in StepsOf(a) /\ Tail(a) \in Seq(StepNames)
           /\ StepsOf(Tail(a)) \subseteq StepsOf(a)
           /\ StepsOf(a) \subseteq StepsOf(Tail(a)) \cup {Head(a)}
<1>1. Len(a) \in Nat /\ Len(a) >= 1 /\ Head(a) = a[1]
  OBVIOUS
<1>2. Tail(a) \in Seq(StepNames) /\ Len(Tail(a)) = Len(a) - 1
  OBVIOUS
<1>3. \A i \in 1 .. Len(Tail(a)) : Tail(a)[i] = a[i + 1]
  OBVIOUS
<1>4. ASSUME NEW x \in StepsOf(Tail(a)) PROVE x \in StepsOf(a)
  <2>1. PICK i \in 1 .. Len(Tail(a)) : x = Tail(a)[i]
    BY DEF StepsOf
  <2>2. i + 1 \in 1 .. Len(a) /\ x = a[i + 1]
    BY <1>1, <1>2, <1>3, <2>1
  <2> QED BY <2>2 DEF StepsOf
<1>5. ASSUME NEW x \in StepsOf(a), x # Head(a) PROVE x \in StepsOf(Tail(a))
  <2>1. PICK i \in 1 .. Len(a) : x = a[i]
    BY DEF StepsOf
  <2>2. i # 1
    BY <1>1, <1>5, <2>1
  <2>3. i - 1 \in 1 .. Len(Tail(a)) /\ x = Tail(a)[i - 1]
    BY <1>1, <1>2, <1>3, <2>1, <2>2
  <2> QED BY <2>3 DEF StepsOf
<1>6. Head(a) \in StepsOf(a)
  BY <1>1 DEF StepsOf
<1> QED BY <1>2, <1>4, <1>5, <1>6

\* ensure runs the steps of the site, Delete removes what they built and the
\* resources that go with the tenant.
LEMMA StepsCovered ==
    /\ StepsOf(ensureSteps) = EnsureSet
    /\ ObjectSteps \cap EnsureSet \subseteq StepsOf(removeSteps)
    /\ {"broker-account", "wifi-key", "device-address"} \subseteq StepsOf(removeSteps)
<1>1. {"device-address", "log-store", "dashboards"} \subseteq StepNames
  BY DEF StepNames, ObjectSteps
<1>2. /\ If("device-address") \in Seq(StepNames) /\ StepsOf(If("device-address")) = Optional \cap {"device-address"}
      /\ If("log-store") \in Seq(StepNames) /\ StepsOf(If("log-store")) = Optional \cap {"log-store"}
      /\ If("dashboards") \in Seq(StepNames) /\ StepsOf(If("dashboards")) = Optional \cap {"dashboards"}
  BY <1>1, StepsOfIf
<1>3. /\ <<"dns", "resolver", "state", "network">> \in Seq(StepNames)
      /\ StepsOf(<<"dns", "resolver", "state", "network">>) = {"dns", "resolver", "state", "network"}
  <2> DEFINE a == <<"dns", "resolver", "state", "network">>
  <2>1. a \in Seq(StepNames)
    BY DEF StepNames, ObjectSteps
  <2>2. Len(a) = 4 /\ a[1] = "dns" /\ a[2] = "resolver" /\ a[3] = "state" /\ a[4] = "network"
    OBVIOUS
  <2> HIDE DEF a
  <2>3. \A i \in 1 .. 4 : i = 1 \/ i = 2 \/ i = 3 \/ i = 4
    OBVIOUS
  <2>4. StepsOf(a) = {"dns", "resolver", "state", "network"}
    BY <2>2, <2>3 DEF StepsOf
  <2> QED BY <2>1, <2>4 DEF a
<1>4. /\ <<"broker-account", "wifi-key", "device-address",
           "network", "resolver", "dns", "state">> \in Seq(StepNames)
      /\ {"broker-account", "wifi-key", "device-address", "network", "resolver", "dns", "state"}
            \subseteq StepsOf(<<"broker-account", "wifi-key", "device-address",
                                "network", "resolver", "dns", "state">>)
  <2> DEFINE a == <<"broker-account", "wifi-key", "device-address",
                    "network", "resolver", "dns", "state">>
  <2>1. a \in Seq(StepNames)
    BY DEF StepNames, ObjectSteps
  <2>2. /\ Len(a) = 7 /\ a[1] = "broker-account" /\ a[2] = "wifi-key" /\ a[3] = "device-address"
        /\ a[4] = "network" /\ a[5] = "resolver" /\ a[6] = "dns" /\ a[7] = "state"
    OBVIOUS
  <2> HIDE DEF a
  <2>3. \A i \in 1 .. 7 : a[i] \in StepsOf(a)
    BY <2>2 DEF StepsOf
  <2>4. {"broker-account", "wifi-key", "device-address", "network", "resolver", "dns", "state"}
            \subseteq StepsOf(a)
    BY <2>2, <2>3
  <2> QED BY <2>1, <2>4 DEF a
<1>5. StepsOf(ensureSteps) = {"dns", "resolver", "state", "network"} \cup (Optional \cap {"device-address"})
            \cup (Optional \cap {"log-store"}) \cup (Optional \cap {"dashboards"})
  <2> DEFINE a == <<"dns", "resolver", "state", "network">>
             b == a \o If("device-address")
             c == b \o If("log-store")
  <2>5. a \in Seq(StepNames) /\ StepsOf(a) = {"dns", "resolver", "state", "network"}
    BY <1>3
  <2> HIDE DEF a
  <2>1. b \in Seq(StepNames) /\ StepsOf(b) = StepsOf(a) \cup StepsOf(If("device-address"))
    BY <1>2, <2>5, StepsOfConcat
  <2> HIDE DEF b
  <2>2. c \in Seq(StepNames) /\ StepsOf(c) = StepsOf(b) \cup StepsOf(If("log-store"))
    BY <1>2, <2>1, StepsOfConcat
  <2>3. ensureSteps = c \o If("dashboards")
    BY DEF ensureSteps, a, b
  <2> HIDE DEF c
  <2>4. StepsOf(ensureSteps) = StepsOf(c) \cup StepsOf(If("dashboards"))
    BY <1>2, <2>2, <2>3, StepsOfConcat
  <2> QED BY <1>2, <2>5, <2>1, <2>2, <2>4
<1>6. Optional \subseteq {"device-address", "log-store", "dashboards"}
  BY SiteAssumption DEF OptionalSteps
<1>7. (Optional \cap {"dashboards"}) \cup (Optional \cap {"log-store"})
          \cup {"broker-account", "wifi-key", "device-address", "network", "resolver", "dns", "state"}
      \subseteq StepsOf(removeSteps)
  <2> DEFINE a == <<"broker-account", "wifi-key", "device-address", "network", "resolver", "dns", "state">>
             b == If("dashboards") \o If("log-store")
  <2>1. b \in Seq(StepNames) /\ StepsOf(b) = StepsOf(If("dashboards")) \cup StepsOf(If("log-store"))
    BY <1>2, StepsOfConcat
  <2>2. removeSteps = b \o a
    BY DEF removeSteps
  <2> HIDE DEF b
  <2>3. StepsOf(removeSteps) = StepsOf(b) \cup StepsOf(a)
    BY <1>4, <2>1, <2>2, StepsOfConcat
  <2> QED BY <1>2, <1>4, <2>1, <2>3
<1>8. StepsOf(ensureSteps) = EnsureSet
  BY <1>5, <1>6 DEF EnsureSet
<1>9. ObjectSteps \cap EnsureSet \subseteq StepsOf(removeSteps)
  BY <1>6, <1>7 DEF EnsureSet, ObjectSteps
<1> QED BY <1>7, <1>8, <1>9

-----------------------------------------------------------------------------
(* Calls begin; Create and Reconcile up to the first step.                   *)

LEMMA InitObjects == Init => ObjectsInv
<1> SUFFICES ASSUME Init PROVE ObjectsInv
  OBVIOUS
<1>1. IndexInv
  BY InitInv
<1>2. Exclusive
  BY DEF Init, Exclusive, At, Idle
<1>3. FabricInv
  BY DEF Init, FabricInv, NoRow
<1>4. ASSUME NEW r \in Requests PROVE CallInv(r) /\ Claimed(r)
  <2>1. req[r] = Idle
    BY DEF Init
  <2> QED BY <2>1 DEF CallInv, Claimed, Fits, Standing, Progress, Issuing, At, Idle, Bound
<1>5. ASSUME NEW t \in Tenants PROVE TenantInv(t)
  <2>1. "network" \in ObjectSteps
    BY DEF ObjectSteps
  <2> QED BY <2>1 DEF Init, TenantInv, NoRow, Missing
<1> QED BY <1>1, <1>2, <1>3, <1>4, <1>5 DEF ObjectsInv

\* The one place that rests on ~Overlap.
LEMMA BeginObjects ==
    ASSUME ObjectsInv, IndexInv', ~Overlap, NEW r \in Requests, NEW op \in Ops, NEW t \in Tenants,
           NEW asked, NEW supplied, NEW kind, Begin(r, op, t, asked, supplied, kind)
    PROVE  ObjectsInv'
<1> DEFINE point == IF op \in {"create", "reconcile"} THEN "get" ELSE "check"
           p == [Idle EXCEPT !.pc = point, !.op = op, !.tenant = t,
                             !.asked = asked, !.supplied = supplied, !.kind = kind]
<1>1. req' = [req EXCEPT ![r] = p] /\ At(r, "idle")
  BY DEF Begin
<1>2. p.pc = point /\ p.op = op /\ p.tenant = t /\ p.kind = kind
  BY DEF Idle
<1> HIDE DEF p
<1>3. req'[r] = p /\ \A q \in Requests \ {r} : req'[q] = req[q]
  BY <1>1, InvParts DEF ObjectsInv, ReqType
<1>4. UNCHANGED <<row, steps, issued, built, zoneVNI, reverse, placed, losses>>
  BY DEF Begin, registry, backends
<1>5. Exclusive'
  <2>1. ASSUME NEW q \in Requests \ {r}, ~At(q, "idle"), req[q].tenant = t
        PROVE  op \in ResourceOps /\ req[q].op \in ResourceOps /\ req[q].kind # kind
    BY <2>1 DEF Begin, InFlight, At
  <2> SUFFICES ASSUME NEW x \in Requests, NEW y \in Requests, x # y,
                      ~At(x, "idle")', ~At(y, "idle")', req'[x].tenant = req'[y].tenant
               PROVE  /\ req'[x].op \in ResourceOps /\ req'[y].op \in ResourceOps
                      /\ req'[x].kind # req'[y].kind
    BY DEF Exclusive
  <2>2. CASE x = r
    BY <2>1, <2>2, <1>2, <1>3 DEF At
  <2>3. CASE y = r
    BY <2>1, <2>3, <1>2, <1>3 DEF At
  <2>4. CASE x # r /\ y # r
    BY <2>4, <1>3 DEF ObjectsInv, Exclusive, At
  <2> QED BY <2>2, <2>3, <2>4
<1>6. ASSUME NEW q \in Requests PROVE CallInv(q)' /\ Claimed(q)'
  <2>1. CASE q # r
    <3>1. req'[q] = req[q] /\ CallInv(q) /\ Claimed(q)
      BY <2>1, <1>3 DEF ObjectsInv
    <3>2. CallInv(q)'
      BY <3>1, <1>4 DEF CallInv, Fits, Standing, Progress, Issuing, At, Done, Undone, Present
    <3>3. Claimed(q)'
      BY <3>1, <1>4 DEF Claimed, At
    <3> QED BY <3>2, <3>3
  <2>2. CASE q = r
    <3>1. /\ req'[q].pc \in {"get", "check"} /\ req'[q].op = op
          /\ req'[q].pc = "get" <=> op \in {"create", "reconcile"}
      BY <2>2, <1>2, <1>3
    <3> QED BY <3>1 DEF CallInv, Claimed, Fits, Standing, Progress, Issuing, At, Bound, Ops
  <2> QED BY <2>1, <2>2
<1>7. ASSUME NEW u \in Tenants PROVE TenantInv(u)'
  BY <1>4 DEF ObjectsInv, TenantInv, Done
<1>8. FabricInv'
  BY <1>4 DEF ObjectsInv, FabricInv
<1> QED BY <1>5, <1>6, <1>7, <1>8 DEF ObjectsInv

LEMMA BeginsObjects ==
    ASSUME ObjectsInv, IndexInv', ~Overlap, NEW r \in Requests,
           BeginCreate(r) \/ BeginReconcile(r) \/ BeginDelete(r) \/ BeginResource(r)
    PROVE  ObjectsInv'
<1>1. {"create", "reconcile", "delete"} \cup ResourceOps \subseteq Ops
  BY DEF Ops, ResourceOps
<1>2. CASE BeginCreate(r) \/ BeginReconcile(r) \/ BeginDelete(r)
  BY <1>1, <1>2, BeginObjects DEF BeginCreate, BeginReconcile, BeginDelete
<1>3. CASE BeginResource(r)
  BY <1>1, <1>3, BeginObjects DEF BeginResource
<1> QED BY <1>2, <1>3

\* The handler returns and nothing else changes.
LEMMA EndKeeps ==
    ASSUME ObjectsInv, IndexInv', NEW r \in Requests, ~At(r, "idle"), End(r),
           UNCHANGED <<row, issued, backends, losses>>
    PROVE  ObjectsInv'
BY MoveKeeps DEF End

\* The handler goes on at another point.
LEMMA GotoKeeps ==
    ASSUME ObjectsInv, IndexInv', NEW r \in Requests, ~At(r, "idle"),
           NEW point, Goto(r, point), point # "insert",
           UNCHANGED <<row, issued, backends, losses>>,
           CallInv(r)'
    PROVE  ObjectsInv'
<1> DEFINE p == [req[r] EXCEPT !.pc = point]
<1>1. req[r] \in RequestType /\ req \in ReqType
  BY CallFacts, InvParts DEF ObjectsInv
<1>2. req' = [req EXCEPT ![r] = p] /\ req'[r] = p
  BY <1>1 DEF Goto, ReqType
<1>3. p.tenant = req[r].tenant /\ p.op = req[r].op /\ p.kind = req[r].kind /\ p.pc = point
  BY <1>1 DEF RequestType
<1> HIDE DEF p
<1>4. Claimed(r)'
  BY <1>2, <1>3 DEF Claimed, At
<1> QED BY <1>2, <1>3, <1>4, MoveKeeps

\* ensure begins: every step is ahead.
LEMMA StartsEnsuring ==
    ASSUME ObjectsInv, NEW r \in Requests, ~At(r, "idle"), req[r].op \in {"create", "reconcile"},
           NEW index, StartEnsure(r, index),
           row'[req[r].tenant].status \in {"provisioning", "ready"}, row'[req[r].tenant].index = index
    PROVE  \E p : /\ req' = [req EXCEPT ![r] = p] /\ req'[r] = p
                  /\ p.tenant = req[r].tenant /\ p.op = req[r].op
                  /\ CallInv(r)' /\ Claimed(r)'
<1> DEFINE p == [Idle EXCEPT !.pc = "ensure", !.op = req[r].op, !.tenant = req[r].tenant,
                             !.index = index, !.todo = ensureSteps]
<1>1. req' = [req EXCEPT ![r] = p] /\ req'[r] = p
  BY InvParts DEF StartEnsure, ObjectsInv, ReqType
<1>2. /\ p.pc = "ensure" /\ p.op = req[r].op /\ p.tenant = req[r].tenant
      /\ p.index = index /\ p.todo = ensureSteps
  BY DEF Idle
<1> HIDE DEF p
<1>3. Fits(req[r].op, req[r].pc)' /\ Standing(r)' /\ Issuing(r)' /\ Claimed(r)'
  BY <1>1, <1>2 DEF Fits, Standing, Issuing, Claimed, At, Bound
<1>4. Progress(r)'
  BY <1>1, <1>2, StepsCovered DEF Progress
<1> QED BY <1>1, <1>2, <1>3, <1>4 DEF CallInv

LEMMA GetObjects ==
    ASSUME ObjectsInv, IndexInv', NEW r \in Requests, Get(r)
    PROVE  ObjectsInv'
<1> DEFINE q == req[r]
           found == row[q.tenant]
<1>1. q.pc = "get" /\ ~At(r, "idle") /\ q \in RequestType /\ q.tenant \in Tenants /\ req \in ReqType
  BY CallFacts, InvParts DEF Get, At, ObjectsInv
<1>2. q.op \in {"create", "reconcile"}
  BY <1>1, CallFacts DEF ObjectsInv, CallInv, Fits, Ops
<1>3. UNCHANGED <<row, issued, backends, losses>>
  BY DEF Get, registry
<1>4. CASE q.op = "create" /\ found.status = "absent" /\ Goto(r, "claims")
  <2>1. /\ req'[r].pc = "claims" /\ req'[r].op = "create" /\ req'[r].tenant = q.tenant
    BY <1>1, <1>4 DEF Goto, ReqType, RequestType
  <2>2. CallInv(r)'
    BY <2>1, <1>3, <1>4 DEF CallInv, Fits, Standing, Progress, Issuing, At, Bound, Present
  <2> QED BY <1>1, <1>3, <1>4, <2>2, GotoKeeps
<1>5. CASE /\ q.op = "create" /\ found.status \in {"provisioning", "ready"}
           /\ req' = [req EXCEPT ![r].pc = "secrets", ![r].index = found.index]
  <2> DEFINE p == [q EXCEPT !.pc = "secrets", !.index = found.index]
  <2>1. req' = [req EXCEPT ![r] = p] /\ req'[r] = p
    BY <1>1, <1>5 DEF ReqType
  <2>2. p.pc = "secrets" /\ p.index = found.index /\ p.op = q.op /\ p.tenant = q.tenant /\ p.kind = q.kind
    BY <1>1 DEF RequestType
  <2> HIDE DEF p
  <2>3. CallInv(r)' /\ Claimed(r)'
    BY <2>1, <2>2, <1>3, <1>5 DEF CallInv, Claimed, Fits, Standing, Progress, Issuing, At, Bound
  <2> QED BY <1>1, <1>3, <2>1, <2>2, <2>3, MoveKeeps
<1>6. CASE End(r)
  BY <1>1, <1>3, <1>6, EndKeeps
<1>7. CASE found.status \in {"provisioning", "ready"} /\ StartEnsure(r, found.index)
  <2>1. PICK p : /\ req' = [req EXCEPT ![r] = p] /\ req'[r] = p
                 /\ p.tenant = q.tenant /\ p.op = q.op /\ CallInv(r)' /\ Claimed(r)'
    BY <1>1, <1>2, <1>3, <1>7, StartsEnsuring
  <2>2. q.op \notin ResourceOps
    BY <1>2 DEF ResourceOps
  <2> QED BY <1>1, <1>3, <2>1, <2>2, MoveKeeps
<1> QED BY <1>4, <1>5, <1>6, <1>7 DEF Get

LEMMA SetSecretsObjects ==
    ASSUME ObjectsInv, IndexInv', NEW r \in Requests, SetSecrets(r)
    PROVE  ObjectsInv'
<1> DEFINE q == req[r]
<1>1. q.pc = "secrets" /\ ~At(r, "idle") /\ q.tenant \in Tenants
  BY CallFacts DEF SetSecrets, At
<1>2. q.op = "create" /\ row[q.tenant].status \in {"provisioning", "ready"} /\ q.index = row[q.tenant].index
  BY <1>1, CallFacts DEF ObjectsInv, CallInv, Fits, Standing, Ops, Bound
<1>3. UNCHANGED <<row, issued, backends, losses>>
  BY DEF SetSecrets, registry
<1>4. CASE End(r)
  BY <1>1, <1>3, <1>4, EndKeeps
<1>5. CASE StartEnsure(r, q.index)
  <2>1. PICK p : /\ req' = [req EXCEPT ![r] = p] /\ req'[r] = p
                 /\ p.tenant = q.tenant /\ p.op = q.op /\ CallInv(r)' /\ Claimed(r)'
    BY <1>1, <1>2, <1>3, <1>5, StartsEnsuring
  <2>2. q.op \notin ResourceOps
    BY <1>2 DEF ResourceOps
  <2> QED BY <1>1, <1>3, <2>1, <2>2, MoveKeeps
<1> QED BY <1>4, <1>5 DEF SetSecrets

\* What Fabric.Claims answers: the index of every zone on the fabric, and
\* nothing else.
LEMMA ClaimsComplete ==
    ASSUME TypeOK, NEW C,
           C = Claims({[zone |-> t, vni |-> zoneVNI[t]] : t \in {u \in Tenants : zoneVNI[u] # 0}}
                      \cup ForeignZones, {})
    PROVE  /\ \A t \in Tenants : zoneVNI[t] # 0 =>
                 \E c \in C : c.zone = t /\ VRFVNI(c.index) = zoneVNI[t]
           /\ \A z \in ForeignZones, i \in Indexes :
                 z.vni = VRFVNI(i) => \E c \in C : c.zone = z.zone /\ c.index = i
           /\ \A c \in C : \/ c.zone \in Tenants /\ zoneVNI[c.zone] # 0 /\ zoneVNI[c.zone] = VRFVNI(c.index)
                           \/ \E z \in ForeignZones : c.zone = z.zone /\ z.vni = VRFVNI(c.index)
<1> DEFINE Z == {[zone |-> t, vni |-> zoneVNI[t]] : t \in {u \in Tenants : zoneVNI[u] # 0}}
                \cup ForeignZones
           D == {[index |-> IndexForVRFVNI(z.vni), zone |-> z.zone] : z \in Z}
<1>1. C = {c \in D : c.index # 0}
  BY DEF Claims
<1>2. \A t \in Tenants : zoneVNI[t] = 0 \/ \E i \in Indexes : zoneVNI[t] = VRFVNI(i)
  BY DEF TypeOK
<1>3. \A i \in Indexes : IndexForVRFVNI(VRFVNI(i)) = i /\ i # 0
  BY VRFVNIRoundTrip, VNIsDiffer
<1>4. ASSUME NEW t \in Tenants, zoneVNI[t] # 0
      PROVE  \E c \in C : c.zone = t /\ VRFVNI(c.index) = zoneVNI[t]
  <2>1. PICK i \in Indexes : zoneVNI[t] = VRFVNI(i)
    BY <1>2, <1>4
  <2>2. [zone |-> t, vni |-> zoneVNI[t]] \in Z
    BY <1>4
  <2>3. [index |-> i, zone |-> t] \in D
    <3>1. PICK z \in Z : z.zone = t /\ z.vni = VRFVNI(i)
      BY <2>1, <2>2
    <3>2. [index |-> IndexForVRFVNI(z.vni), zone |-> z.zone] \in D
      OBVIOUS
    <3> HIDE DEF D
    <3> QED BY <1>3, <3>1, <3>2
  <2> QED BY <1>1, <1>3, <2>1, <2>3
<1>5. ASSUME NEW z \in ForeignZones, NEW i \in Indexes, z.vni = VRFVNI(i)
      PROVE  \E c \in C : c.zone = z.zone /\ c.index = i
  <2>1. [index |-> i, zone |-> z.zone] \in D
    BY <1>3, <1>5
  <2> QED BY <1>1, <1>3, <2>1
<1>6. ASSUME NEW c \in C
      PROVE  \/ c.zone \in Tenants /\ zoneVNI[c.zone] # 0 /\ zoneVNI[c.zone] = VRFVNI(c.index)
             \/ \E z \in ForeignZones : c.zone = z.zone /\ z.vni = VRFVNI(c.index)
  <2>1. PICK z \in Z : c = [index |-> IndexForVRFVNI(z.vni), zone |-> z.zone] /\ c.index # 0
    BY <1>1
  <2>2. z.vni \in Int
    <3>1. \A t \in Tenants : zoneVNI[t] \in Int
      BY MaxAllocatableAssumption, BasesAssumption DEF TypeOK, VRFVNI, Indexes, MinIndex
    <3> QED BY <3>1, SiteAssumption
  <2>3. z.vni = VRFVNI(c.index)
    BY <2>1, <2>2, MaxAllocatableAssumption, BasesAssumption
       DEF IndexForVRFVNI, InSite, MinIndex, ReservedIndex, VRFVNI
  <2>4. c.zone = z.zone
    BY <2>1
  <2> QED BY <2>3, <2>4
<1> QED BY <1>4, <1>5, <1>6

LEMMA ReadClaimsObjects ==
    ASSUME ObjectsInv, IndexInv', NEW r \in Requests, ReadClaims(r)
    PROVE  ObjectsInv'
<1> DEFINE C == Claims({[zone |-> t, vni |-> zoneVNI[t]] :
                           t \in {u \in Tenants : zoneVNI[u] # 0}} \cup ForeignZones, {})
           q == req[r]
           p == [q EXCEPT !.pc = "insert", !.claims = C]
           t == q.tenant
<1>1. q.pc = "claims" /\ ~At(r, "idle") /\ q \in RequestType /\ t \in Tenants /\ req \in ReqType /\ CallInv(r)
  BY CallFacts, InvParts DEF ReadClaims, At, ObjectsInv
<1>2. UNCHANGED <<row, issued, backends, losses>>
  BY DEF ReadClaims, registry
<1>3. req' = [req EXCEPT ![r] = p] /\ req'[r] = p
  BY <1>1 DEF ReadClaims, ReqType
<1>4. TypeOK /\ FabricInv
  BY DEF ObjectsInv, IndexInv
<1>5. /\ \A u \in Tenants : zoneVNI[u] # 0 => \E c \in C : c.zone = u /\ VRFVNI(c.index) = zoneVNI[u]
      /\ \A z \in ForeignZones, i \in Indexes :
            z.vni = VRFVNI(i) => \E c \in C : c.zone = z.zone /\ c.index = i
      /\ \A c \in C : \/ c.zone \in Tenants /\ zoneVNI[c.zone] # 0 /\ zoneVNI[c.zone] = VRFVNI(c.index)
                      \/ \E z \in ForeignZones : c.zone = z.zone /\ z.vni = VRFVNI(c.index)
  BY <1>4, ClaimsComplete
<1> HIDE DEF C
<1>6. p.pc = "insert" /\ p.claims = C /\ p.op = q.op /\ p.tenant = t /\ p.kind = q.kind
  BY <1>1 DEF RequestType
<1> HIDE DEF p
<1>7. CallInv(r)'
  <2>1. q.op = "create"
    BY <1>1, CallFacts DEF CallInv, Fits, Ops
  <2> QED BY <1>1, <1>2, <1>3, <1>6, <2>1
          DEF CallInv, Fits, Standing, Progress, Issuing, At, Bound, Present
<1>8. zoneVNI[t] # 0 => \A c \in C : c.zone = t <=> zoneVNI[t] = VRFVNI(c.index)
  <2> SUFFICES ASSUME zoneVNI[t] # 0, NEW c \in C
               PROVE  c.zone = t <=> zoneVNI[t] = VRFVNI(c.index)
    OBVIOUS
  <2>1. \A z \in ForeignZones : zoneVNI[t] # z.vni /\ z.zone # t
    BY <1>1, <1>4, SiteAssumption DEF FabricInv
  <2>2. \A u \in Tenants : u # t => zoneVNI[t] # zoneVNI[u]
    BY <1>1, <1>4 DEF FabricInv
  <2> QED BY <1>5, <2>1, <2>2
<1>9. Claimed(r)'
  BY <1>1, <1>2, <1>3, <1>5, <1>6, <1>8 DEF Claimed, At, backends
<1> QED BY <1>1, <1>2, <1>3, <1>6, <1>7, <1>9, MoveKeeps

\* Store.Create: the index is nobody's, in the registry or on the fabric.
LEMMA InsertObjects ==
    ASSUME ObjectsInv, IndexInv', NEW r \in Requests, Insert(r)
    PROVE  ObjectsInv'
<1> DEFINE q == req[r]
           held == {row[u].index : u \in {v \in Tenants : Present(v)}}
           n == pickIndex(q.tenant, q.asked, held, q.claims)
<1>1. /\ q.pc = "insert" /\ ~At(r, "idle") /\ q.asked \in 0 .. MaxAllocatable /\ req \in ReqType
      /\ q.claims \in SUBSET ClaimSet /\ CallInv(r) /\ Claimed(r)
  BY CallFacts, InvParts DEF Insert, At, ObjectsInv
<1>2. PICK t \in Tenants : t = q.tenant
  BY <1>1, CallFacts
<1>3. ~Present(t) /\ row[t].index = 0 /\ q.op = "create"
  BY <1>1, <1>2, CallFacts, InvParts DEF ObjectsInv, CallInv, Fits, Standing, RowHasIndex, Ops
<1>4. n = 0 \/ (n \in Indexes /\ Free(n, t, held, q.claims))
  BY <1>1, <1>2, PickIndexIsFree
<1> HIDE DEF n
<1>5. CASE n = 0
  <2>1. End(r) /\ UNCHANGED <<row, issued, backends, losses>>
    BY <1>5 DEF Insert, n
  <2> QED BY <1>1, <2>1, EndKeeps
<1>6. CASE n # 0
  <2>1. /\ row' = [row EXCEPT ![t] = [status |-> "provisioning", index |-> n]]
        /\ StartEnsure(r, n)
        /\ UNCHANGED <<issued, built, zoneVNI, reverse, placed, losses>>
    BY <1>2, <1>3, <1>6 DEF Insert, n, backends
  <2>2. /\ row'[t] = [status |-> "provisioning", index |-> n]
        /\ \A u \in Tenants \ {t} : row'[u] = row[u]
    BY <2>1, InvParts DEF ObjectsInv, RegistryType
  <2>3. PICK p : /\ req' = [req EXCEPT ![r] = p] /\ req'[r] = p
                 /\ p.tenant = t /\ p.op = q.op /\ CallInv(r)' /\ Claimed(r)'
    BY <1>1, <1>2, <1>3, <2>1, <2>2, StartsEnsuring
  <2>4. Local(r)
    <3>1. \A x \in Requests \ {r} : req'[x] = req[x]
      BY <1>1, <2>3 DEF ReqType
    <3>2. q.op \notin ResourceOps
      BY <1>3 DEF ResourceOps
    <3> QED BY <1>2, <2>1, <2>2, <2>3, <3>1, <3>2 DEF Local
  <2>5. TenantInv(t)'
    <3>1. TenantInv(t)
      BY DEF ObjectsInv
    <3> QED BY <2>1, <2>2, <3>1 DEF TenantInv
  <2>6. n \in Indexes /\ n \in AnyIndex /\ n # 0
    BY <1>4, <1>6, VNIsDiffer
  <2>7. ASSUME NEW u \in Tenants \ {t}, zoneVNI[u] # 0
        PROVE  zoneVNI[u] # VRFVNI(n)
    <3>1. CASE row[u].index # 0 /\ zoneVNI[u] = VRFVNI(row[u].index)
      <4>1. row[u].index \in Indexes /\ row[u].index \in held
        BY <3>1, InvParts DEF ObjectsInv, RowHasIndex
      <4> QED BY <3>1, <4>1, <2>6, <1>4, VNIsDiffer DEF Free
    <3>2. CASE \E c \in q.claims : c.zone = u /\ zoneVNI[u] = VRFVNI(c.index)
      <4>1. PICK c \in q.claims : c.zone = u /\ zoneVNI[u] = VRFVNI(c.index)
        BY <3>2
      <4>2. c.index # n
        BY <4>1, <1>4, <2>6, VNIsDiffer DEF Free
      <4>3. c.index \in AnyIndex
        BY <1>1, MaxAllocatableAssumption DEF ClaimSet, AnyIndex, ReservedIndex
      <4> QED BY <4>1, <4>2, <4>3, <2>6, VNIsDiffer
    <3> QED BY <1>1, <1>2, <2>7, <3>1, <3>2 DEF Claimed, At
  <2>8. ASSUME NEW z \in ForeignZones PROVE VRFVNI(n) # z.vni
    <3> SUFFICES ASSUME z.vni = VRFVNI(n) PROVE FALSE
      OBVIOUS
    <3>1. PICK c \in q.claims : c.zone = z.zone /\ c.index = n
      BY <1>1, <2>6 DEF Claimed, At
    <3> QED BY <3>1, <2>6, <1>4, SiteAssumption, VNIsDiffer DEF Free
  <2>9. FabricInv'
    <3>1. FabricInv
      BY DEF ObjectsInv
    <3>2. ASSUME NEW u \in Tenants, NEW v \in Tenants, u # v, zoneVNI'[u] # 0
          PROVE  /\ zoneVNI'[u] # zoneVNI'[v]
                 /\ row'[v].index # 0 => zoneVNI'[u] # VRFVNI(row'[v].index)
      BY <3>1, <3>2, <2>1, <2>2, <2>7 DEF FabricInv
    <3>3. ASSUME NEW u \in Tenants, NEW z \in ForeignZones
          PROVE  /\ row'[u].index # 0 => VRFVNI(row'[u].index) # z.vni
                 /\ zoneVNI'[u] # 0 => zoneVNI'[u] # z.vni
      BY <3>1, <2>1, <2>2, <2>8 DEF FabricInv
    <3> QED BY <3>2, <3>3 DEF FabricInv
  <2>10. ASSUME NEW x \in Requests \ {r} PROVE Claimed(x)'
    <3> SUFFICES ASSUME At(x, "insert")' PROVE Claimed(x)'
      BY DEF Claimed
    <3>1. req'[x] = req[x] /\ At(x, "insert") /\ Claimed(x)
      BY <2>4 DEF Local, At, ObjectsInv
    <3>2. \A u \in Tenants : row[u].index # 0 => row'[u] = row[u]
      BY <1>3, <2>2
    <3> QED BY <3>1, <3>2, <2>1 DEF Claimed
  <2> QED BY <1>1, <1>2, <2>3, <2>4, <2>5, <2>9, <2>10, OtherCalls, OtherTenants, StaysExclusive
          DEF ObjectsInv
<1> QED BY <1>5, <1>6

-----------------------------------------------------------------------------
(* ensure.                                                                   *)

\* What SetLevel does to the tenant, and to nobody else.
LEMMA SetLevelFacts ==
    ASSUME TypeOK, NEW t \in Tenants, NEW s \in ObjectSteps, NEW i \in Indexes, NEW level, NEW owner,
           SetLevel(t, s, i, level, owner)
    PROVE  /\ built'[t][s] = level
           /\ \A x \in ObjectSteps \ {s} : built'[t][x] = built[t][x]
           /\ \A u \in Tenants \ {t} : built'[u] = built[u] /\ zoneVNI'[u] = zoneVNI[u]
           /\ s # "network" => zoneVNI'[t] = zoneVNI[t]
           /\ s = "network" => zoneVNI'[t] = IF level = Missing THEN 0 ELSE VRFVNI(i)
           /\ s # "dns" => reverse' = reverse
           /\ s = "dns" => reverse'[i] = owner
           /\ \A j \in Indexes \ {i} : reverse'[j] = reverse[j]
           /\ placed' = placed
<1>1. /\ built \in [Tenants -> [ObjectSteps -> Levels]] /\ zoneVNI \in [Tenants -> {0} \cup {VRFVNI(n) : n \in Indexes}]
      /\ reverse \in [Indexes -> Tenants \cup {None}]
  BY DEF TypeOK
<1>2. /\ built'[t][s] = level
      /\ \A x \in ObjectSteps \ {s} : built'[t][x] = built[t][x]
      /\ \A u \in Tenants \ {t} : built'[u] = built[u]
  BY <1>1 DEF SetLevel
<1>3. /\ \A u \in Tenants \ {t} : zoneVNI'[u] = zoneVNI[u]
      /\ s # "network" => zoneVNI'[t] = zoneVNI[t]
      /\ s = "network" => zoneVNI'[t] = IF level = Missing THEN 0 ELSE VRFVNI(i)
  BY <1>1 DEF SetLevel
<1>4. /\ s # "dns" => reverse' = reverse
      /\ s = "dns" => reverse'[i] = owner
      /\ \A j \in Indexes \ {i} : reverse'[j] = reverse[j]
  BY <1>1 DEF SetLevel
<1> QED BY <1>2, <1>3, <1>4 DEF SetLevel

\* A handler inside ensure.
LEMMA EnsureFacts ==
    ASSUME ObjectsInv, NEW r \in Requests, At(r, "ensure")
    PROVE  /\ ~At(r, "idle") /\ req[r].op \in {"create", "reconcile"} /\ req[r].op \notin ResourceOps
           /\ req[r].tenant \in Tenants /\ req[r].index \in Indexes /\ req[r].todo \in Seq(StepNames)
           /\ row[req[r].tenant].status \in {"provisioning", "ready"} /\ Present(req[r].tenant)
           /\ req[r].index = row[req[r].tenant].index
           /\ StepsOf(req[r].todo) \subseteq EnsureSet
           /\ \A s \in EnsureSet \ StepsOf(req[r].todo) : Done(req[r].tenant, req[r].index, s)
           /\ req[r].todo # <<>> => Head(req[r].todo) \in EnsureSet
           /\ EnsureSet \ {"device-address"} \subseteq ObjectSteps
<1>1. req[r].pc = "ensure" /\ CallInv(r) /\ ~At(r, "idle")
  BY DEF ObjectsInv, At
<1>2. req[r].op \in Ops /\ req[r].tenant \in Tenants /\ req[r].todo \in Seq(StepNames)
  BY <1>1, CallFacts
<1>3. req[r].op \in {"create", "reconcile"} /\ req[r].op \notin ResourceOps
  BY <1>1, <1>2 DEF CallInv, Fits, Ops, ResourceOps
<1>4. /\ row[req[r].tenant].status \in {"provisioning", "ready"} /\ Present(req[r].tenant)
      /\ req[r].index = row[req[r].tenant].index
  BY <1>1 DEF CallInv, Standing, Bound, Present
<1>5. req[r].index \in Indexes
  BY <1>1, InvParts DEF ObjectsInv, CarriesIndex, Bound
<1>6. /\ StepsOf(req[r].todo) \subseteq EnsureSet
      /\ \A s \in EnsureSet \ StepsOf(req[r].todo) : Done(req[r].tenant, req[r].index, s)
  BY <1>1 DEF CallInv, Progress
<1>7. req[r].todo # <<>> => Head(req[r].todo) \in EnsureSet
  BY <1>2, <1>6, StepsOfTail
<1>8. EnsureSet \ {"device-address"} \subseteq ObjectSteps
  BY SiteAssumption DEF EnsureSet, ObjectSteps, OptionalSteps
<1> QED BY <1>1, <1>2, <1>3, <1>4, <1>5, <1>6, <1>7, <1>8

\* A step of ensure raises a level and undoes no other step.
LEMMA EnsureLevel ==
    ASSUME ObjectsInv, NEW r \in Requests, At(r, "ensure"),
           NEW t \in Tenants, t = req[r].tenant, NEW i \in Indexes, i = req[r].index,
           NEW s \in EnsureSet \ {"device-address"}, NEW level \in Levels, level >= built[t][s],
           NEW owner \in {reverse[i], t}, s = "dns" /\ level = Full => owner = t,
           SetLevel(t, s, i, level, owner), UNCHANGED <<row, issued, losses>>
    PROVE  /\ TenantInv(t)' /\ ZoneStep(r)
           /\ \A x \in EnsureSet : Done(t, i, x) => Done(t, i, x)'
           /\ level = Full => Done(t, i, s)'
           /\ \A u \in Tenants \ {t} :
                 /\ row'[u] = row[u] /\ issued'[u] = issued[u] /\ built'[u] = built[u]
                 /\ zoneVNI'[u] = zoneVNI[u] /\ placed'[u] = placed[u]
           /\ \A j \in Indexes :
                 \/ reverse'[j] = reverse[j]
                 \/ j = row[t].index /\ Present(t) /\ reverse'[j] \in {t, None}
<1>1. TypeOK /\ TenantInv(t) /\ s \in ObjectSteps /\ i = row[t].index /\ Present(t)
  BY EnsureFacts DEF ObjectsInv, IndexInv
<1>2. /\ built'[t][s] = level
      /\ \A x \in ObjectSteps \ {s} : built'[t][x] = built[t][x]
      /\ \A u \in Tenants \ {t} : built'[u] = built[u] /\ zoneVNI'[u] = zoneVNI[u]
      /\ s # "network" => zoneVNI'[t] = zoneVNI[t]
      /\ s = "network" => zoneVNI'[t] = IF level = Missing THEN 0 ELSE VRFVNI(i)
      /\ s # "dns" => reverse' = reverse
      /\ s = "dns" => reverse'[i] = owner
      /\ \A j \in Indexes \ {i} : reverse'[j] = reverse[j]
      /\ placed' = placed
  BY <1>1, SetLevelFacts
<1>3. VRFVNI(i) # 0 /\ i # 0 /\ "network" \in ObjectSteps /\ "dns" \in ObjectSteps
  BY VNIsDiffer DEF ObjectSteps
<1>4. built[t][s] \in Levels
  BY <1>1 DEF TypeOK
<1>5. level = Full => Done(t, i, s)'
  BY <1>2 DEF Done, Missing, Full
<1>6. ASSUME NEW x \in EnsureSet, Done(t, i, x) PROVE Done(t, i, x)'
  <2>1. CASE x = s
    <3>1. level = Full
      BY <1>1, <1>4, <1>6, <2>1 DEF Done, Levels, Missing, Full
    <3> QED BY <2>1, <3>1, <1>5
  <2>2. CASE x # s
    BY <1>2, <1>3, <1>6, <2>2 DEF Done
  <2> QED BY <2>1, <2>2
<1>7. ZoneStep(r)
  BY <1>1, <1>2, <1>3 DEF ZoneStep
<1>8. TenantInv(t)'
  <2>1. (built[t]["network"] = Missing <=> zoneVNI[t] = 0)'
    BY <1>1, <1>2, <1>3 DEF TenantInv
  <2>2. \A x \in ObjectSteps \ EnsureSet : built'[t][x] = Missing
    BY <1>1, <1>2 DEF TenantInv
  <2>3. (losses = 0 => placed[t] \subseteq issued[t])'
    BY <1>1, <1>2 DEF TenantInv
  <2>4. row'[t].status = "ready" => \A x \in EnsureSet : Done(t, row[t].index, x)'
    <3>1. row' = row
      OBVIOUS
    <3>2. row[t].status = "ready" => \A x \in EnsureSet : Done(t, i, x)
      BY <1>1 DEF TenantInv
    <3>3. row[t].status = "ready" => \A x \in EnsureSet : Done(t, i, x)'
      BY <3>2, <1>6
    <3> QED BY <1>1, <3>1, <3>3 DEF Done
  <2> QED BY <2>1, <2>2, <2>3, <2>4 DEF TenantInv
<1>9. \A j \in Indexes :
          \/ reverse'[j] = reverse[j]
          \/ j = row[t].index /\ Present(t) /\ reverse'[j] \in {t, None}
  BY <1>1, <1>2
<1> QED BY <1>2, <1>5, <1>6, <1>7, <1>8, <1>9

\* The addresses step puts what the registry has rows of in the backend.
LEMMA EnsureAddresses ==
    ASSUME ObjectsInv, NEW r \in Requests, At(r, "ensure"),
           NEW t \in Tenants, t = req[r].tenant, NEW i \in Indexes,
           NEW set, set \subseteq placed[t] \cup issued[t],
           placed' = [placed EXCEPT ![t] = set], UNCHANGED <<row, issued, built, zoneVNI, reverse, losses>>
    PROVE  /\ TenantInv(t)' /\ ZoneStep(r)
           /\ \A x \in EnsureSet : Done(t, i, x) => Done(t, i, x)'
           /\ \A u \in Tenants \ {t} :
                 /\ row'[u] = row[u] /\ issued'[u] = issued[u] /\ built'[u] = built[u]
                 /\ zoneVNI'[u] = zoneVNI[u] /\ placed'[u] = placed[u]
           /\ \A j \in Indexes : reverse'[j] = reverse[j]
<1>1. TypeOK /\ TenantInv(t)
  BY DEF ObjectsInv, IndexInv
<1>2. placed'[t] = set /\ \A u \in Tenants \ {t} : placed'[u] = placed[u]
  BY <1>1 DEF TypeOK
<1>3. TenantInv(t)'
  BY <1>1, <1>2 DEF TenantInv, Done
<1> QED BY <1>2, <1>3 DEF ZoneStep, Done

LEMMA EnsureStepObjects ==
    ASSUME ObjectsInv, IndexInv', NEW r \in Requests, EnsureStep(r)
    PROVE  ObjectsInv'
<1> DEFINE q == req[r]
           p == [q EXCEPT !.todo = Tail(q.todo)]
<1>1. At(r, "ensure") /\ q.todo # <<>> /\ req \in ReqType
  BY InvParts DEF EnsureStep, ObjectsInv
<1>2. PICK t \in Tenants, i \in Indexes, s \in EnsureSet : t = q.tenant /\ i = q.index /\ s = Head(q.todo)
  BY <1>1, EnsureFacts
<1>3. /\ ~At(r, "idle") /\ q.op \in {"create", "reconcile"} /\ q.op \notin ResourceOps
      /\ q.todo \in Seq(StepNames) /\ StepsOf(q.todo) \subseteq EnsureSet
      /\ row[t].status \in {"provisioning", "ready"} /\ i = row[t].index
      /\ \A x \in EnsureSet \ StepsOf(q.todo) : Done(t, i, x)
  BY <1>1, <1>2, EnsureFacts
<1>4. UNCHANGED <<row, issued, losses>>
  BY DEF EnsureStep
<1>5. req' = [req EXCEPT ![r] = p] /\ req'[r] = p /\ \A x \in Requests \ {r} : req'[x] = req[x]
  BY <1>1 DEF EnsureStep, ReqType
<1>6. p.pc = "ensure" /\ p.op = q.op /\ p.tenant = t /\ p.index = i /\ p.todo = Tail(q.todo)
  <2>1. q \in RequestType
    BY <1>3, CallFacts
  <2> QED BY <1>1, <1>2, <2>1 DEF RequestType, At
<1> HIDE DEF p
<1>7. /\ TenantInv(t)' /\ ZoneStep(r)
      /\ \A x \in EnsureSet : Done(t, i, x) => Done(t, i, x)'
      /\ Done(t, i, s)'
      /\ \A u \in Tenants \ {t} :
            /\ row'[u] = row[u] /\ issued'[u] = issued[u] /\ built'[u] = built[u]
            /\ zoneVNI'[u] = zoneVNI[u] /\ placed'[u] = placed[u]
      /\ \A j \in Indexes :
            \/ reverse'[j] = reverse[j]
            \/ j = row[t].index /\ Present(t) /\ reverse'[j] \in {t, None}
  <2>1. CASE s = "device-address"
    <3>1. /\ placed' = [placed EXCEPT ![t] = placed[t] \cup (issued[t] \cap {s})]
          /\ UNCHANGED <<built, zoneVNI, reverse>>
      BY <1>2, <2>1 DEF EnsureStep
    <3>2. Done(t, i, s)'
      BY <2>1 DEF Done, ObjectSteps
    <3> QED BY <1>1, <1>2, <1>4, <3>1, <3>2, EnsureAddresses
  <2>2. CASE s # "device-address"
    <3>1. SetLevel(t, s, i, Full, t)
      BY <1>2, <2>2 DEF EnsureStep
    <3>2. s \in ObjectSteps
      BY <1>1, <1>2, <2>2, EnsureFacts
    <3>3. Full \in Levels /\ Full >= built[t][s]
      <4>1. built[t][s] \in Levels
        BY <3>2 DEF ObjectsInv, IndexInv, TypeOK
      <4> QED BY <4>1 DEF Levels, Missing, Full
    <3> QED BY <1>1, <1>2, <1>3, <1>4, <2>2, <3>1, <3>3, EnsureLevel
  <2> QED BY <2>1, <2>2
<1>8. Local(r)
  BY <1>2, <1>3, <1>4, <1>5, <1>6, <1>7 DEF Local
<1>9. CallInv(r)' /\ Claimed(r)'
  <2>1. Fits(req[r].op, req[r].pc)' /\ Standing(r)' /\ Issuing(r)' /\ Claimed(r)'
    BY <1>3, <1>4, <1>5, <1>6 DEF Fits, Standing, Issuing, Claimed, At, Bound
  <2>2. StepsOf(Tail(q.todo)) \subseteq StepsOf(q.todo) /\ StepsOf(q.todo) \subseteq StepsOf(Tail(q.todo)) \cup {s}
    BY <1>1, <1>2, <1>3, StepsOfTail
  <2>3. \A x \in EnsureSet \ StepsOf(Tail(q.todo)) : Done(t, i, x)'
    BY <1>3, <1>7, <2>2
  <2>4. Progress(r)'
    BY <1>3, <1>5, <1>6, <2>2, <2>3 DEF Progress, Done
  <2> QED BY <2>1, <2>4 DEF CallInv
<1> QED BY <1>2, <1>3, <1>7, <1>8, <1>9, StepKeeps

LEMMA EnsureStepFailsObjects ==
    ASSUME ObjectsInv, IndexInv', NEW r \in Requests, EnsureStepFails(r)
    PROVE  ObjectsInv'
<1> DEFINE q == req[r]
           s == Head(q.todo)
           p == [q EXCEPT !.pc = "failed"]
<1>1. At(r, "ensure") /\ q.todo # <<>> /\ req \in ReqType
  BY InvParts DEF EnsureStepFails, ObjectsInv
<1>2. PICK t \in Tenants, i \in Indexes : t = q.tenant /\ i = q.index
  BY <1>1, EnsureFacts
<1>3. /\ ~At(r, "idle") /\ q.op \in {"create", "reconcile"} /\ q.op \notin ResourceOps /\ s \in EnsureSet
      /\ row[t].status \in {"provisioning", "ready"} /\ i = row[t].index
  BY <1>1, <1>2, EnsureFacts
<1>4. UNCHANGED <<row, issued, losses>>
  BY DEF EnsureStepFails, registry
<1>5. req' = [req EXCEPT ![r] = p] /\ req'[r] = p /\ \A x \in Requests \ {r} : req'[x] = req[x]
  BY <1>1 DEF EnsureStepFails, Goto, ReqType
<1>6. p.pc = "failed" /\ p.op = q.op /\ p.tenant = t /\ p.index = i
  <2>1. q \in RequestType
    BY <1>3, CallFacts
  <2> QED BY <1>2, <2>1 DEF RequestType
<1> HIDE DEF p
<1>7. CallInv(r)' /\ Claimed(r)'
  BY <1>3, <1>4, <1>5, <1>6 DEF CallInv, Fits, Standing, Progress, Issuing, Claimed, At, Bound
<1>8. CASE UNCHANGED backends
  BY <1>2, <1>3, <1>4, <1>5, <1>6, <1>7, <1>8, MoveKeeps
<1>9. ASSUME /\ TenantInv(t)' /\ ZoneStep(r)
             /\ \A u \in Tenants \ {t} :
                   /\ row'[u] = row[u] /\ issued'[u] = issued[u] /\ built'[u] = built[u]
                   /\ zoneVNI'[u] = zoneVNI[u] /\ placed'[u] = placed[u]
             /\ \A j \in Indexes :
                   \/ reverse'[j] = reverse[j]
                   \/ j = row[t].index /\ Present(t) /\ reverse'[j] \in {t, None}
      PROVE  ObjectsInv'
  <2>1. Local(r)
    BY <1>2, <1>3, <1>4, <1>5, <1>6, <1>9 DEF Local
  <2> QED BY <1>2, <1>3, <1>7, <1>9, <2>1, StepKeeps
<1>10. CASE /\ \E set \in {placed[t], placed[t] \cup (issued[t] \cap {s})} : placed' = [placed EXCEPT ![t] = set]
            /\ UNCHANGED <<built, zoneVNI, reverse>>
  <2>1. PICK set \in {placed[t], placed[t] \cup (issued[t] \cap {s})} : placed' = [placed EXCEPT ![t] = set]
    BY <1>10
  <2>2. set \subseteq placed[t] \cup issued[t]
    OBVIOUS
  <2> QED BY <1>1, <1>2, <1>4, <1>9, <1>10, <2>1, <2>2, EnsureAddresses
<1>11. CASE /\ s # "device-address"
            /\ \E level \in {l \in Levels : l >= built[t][s]} : \E owner \in {reverse[i], t} :
                  /\ s = "dns" /\ level = Full => owner = t
                  /\ SetLevel(t, s, i, level, owner)
  <2>1. PICK level \in {l \in Levels : l >= built[t][s]}, owner \in {reverse[i], t} :
                  /\ s = "dns" /\ level = Full => owner = t
                  /\ SetLevel(t, s, i, level, owner)
    BY <1>11
  <2>2. s \in EnsureSet \ {"device-address"}
    BY <1>3, <1>11
  <2> QED BY <1>1, <1>2, <1>4, <1>9, <2>1, <2>2, EnsureLevel
<1> QED BY <1>2, <1>8, <1>10, <1>11 DEF EnsureStepFails

\* The failed step is recorded; then the tenant is provisioning again.
LEMMA EnsureFailedObjects ==
    ASSUME ObjectsInv, IndexInv', NEW r \in Requests, EnsureFailed(r)
    PROVE  ObjectsInv'
<1> DEFINE q == req[r]
<1>1. q.pc = "failed" /\ ~At(r, "idle") /\ q \in RequestType /\ req \in ReqType /\ CallInv(r)
  BY CallFacts, InvParts DEF EnsureFailed, At, ObjectsInv
<1>2. UNCHANGED <<row, issued, backends, losses>>
  BY DEF EnsureFailed
<1>3. req'[r].pc = "demote" /\ req'[r].op = q.op /\ req'[r].tenant = q.tenant /\ req'[r].index = q.index
  BY <1>1 DEF EnsureFailed, Goto, ReqType, RequestType
<1>4. q.op \in {"create", "reconcile"}
  BY <1>1, CallFacts DEF CallInv, Fits, Ops
<1>5. CallInv(r)'
  BY <1>1, <1>2, <1>3, <1>4 DEF CallInv, Fits, Standing, Progress, Issuing, At, Bound
<1> QED BY <1>1, <1>2, <1>5, GotoKeeps DEF EnsureFailed

\* The status of a registered tenant is set and the handler goes on.
LEMMA StatusKeeps ==
    ASSUME ObjectsInv, IndexInv', NEW r \in Requests, ~At(r, "idle"), req[r].op \notin ResourceOps,
           NEW t \in Tenants, t = req[r].tenant, Present(t), NEW status, SetStatus(t, status),
           UNCHANGED <<issued, backends, losses>>,
           NEW p, req' = [req EXCEPT ![r] = p],
           p = Idle \/ (p.tenant = t /\ p.op = req[r].op),
           row'[t].status = status => CallInv(r)' /\ Claimed(r)',
           status = "ready" => \A s \in EnsureSet : Done(t, row[t].index, s)
    PROVE  ObjectsInv'
<1>1. row' = [row EXCEPT ![t].status = status] /\ req \in ReqType /\ RegistryType /\ TenantInv(t)
  BY InvParts DEF SetStatus, ObjectsInv
<1>2. /\ row'[t].status = status /\ row'[t].index = row[t].index
      /\ \A u \in Tenants \ {t} : row'[u] = row[u]
  BY <1>1 DEF RegistryType
<1>3. req'[r] = p /\ \A x \in Requests \ {r} : req'[x] = req[x]
  BY <1>1 DEF ReqType
<1>4. UNCHANGED <<built, zoneVNI, reverse, placed>>
  BY DEF backends
<1>5. Local(r) /\ ZoneStep(r)
  BY <1>2, <1>3, <1>4 DEF Local, ZoneStep
<1>6. TenantInv(t)'
  <2>1. row'[t].status = "ready" => \A s \in EnsureSet : Done(t, row[t].index, s)'
    BY <1>2, <1>4 DEF Done
  <2> QED BY <1>1, <1>4, <2>1 DEF TenantInv
<1>7. CallInv(r)' /\ Claimed(r)'
  BY <1>2
<1> QED BY <1>5, <1>6, <1>7, StepKeeps

LEMMA EnsureEndsObjects ==
    ASSUME ObjectsInv, IndexInv', NEW r \in Requests, EnsureDemote(r) \/ EnsureDone(r)
    PROVE  ObjectsInv'
<1> DEFINE q == req[r]
<1>1. q.pc \in {"demote", "ensure"} /\ ~At(r, "idle") /\ CallInv(r) /\ req \in ReqType
  BY InvParts DEF EnsureDemote, EnsureDone, At, ObjectsInv
<1>2. q.op \notin ResourceOps
  BY <1>1, CallFacts DEF CallInv, Fits, Ops, ResourceOps
<1>3. PICK t \in Tenants : t = q.tenant
  BY <1>1, CallFacts
<1>4. Present(t) /\ q.index = row[t].index
  BY <1>1, <1>3 DEF CallInv, Standing, Bound, Present
<1>5. req' = [req EXCEPT ![r] = Idle] /\ req'[r] = Idle
  BY <1>1 DEF EnsureDemote, EnsureDone, End, ReqType
<1>6. CallInv(r)' /\ Claimed(r)'
  BY <1>5, IdleCall
<1>7. UNCHANGED <<issued, backends, losses>>
  BY DEF EnsureDemote, EnsureDone
<1>8. CASE EnsureDemote(r)
  <2>1. PICK status \in Statuses : SetStatus(t, status) /\ status # "ready"
    BY <1>3, <1>8 DEF EnsureDemote, Statuses
  <2> QED BY <1>1, <1>2, <1>3, <1>4, <1>5, <1>6, <1>7, <2>1, StatusKeeps
<1>9. CASE EnsureDone(r)
  <2>1. SetStatus(t, "ready") /\ q.todo = <<>> /\ q.pc = "ensure"
    BY <1>3, <1>9 DEF EnsureDone, At
  <2>2. StepsOf(q.todo) = {}
    BY <2>1 DEF StepsOf
  <2>3. \A s \in EnsureSet : Done(t, row[t].index, s)
    BY <1>1, <1>3, <1>4, <2>1, <2>2 DEF CallInv, Progress
  <2> QED BY <1>1, <1>2, <1>3, <1>4, <1>5, <1>6, <1>7, <2>1, <2>3, StatusKeeps
<1> QED BY <1>8, <1>9

-----------------------------------------------------------------------------
(* Delete.                                                                   *)

LEMMA DeleteCheckObjects ==
    ASSUME ObjectsInv, IndexInv', NEW r \in Requests, DeleteCheck(r)
    PROVE  ObjectsInv'
<1> DEFINE q == req[r]
           p == [q EXCEPT !.pc = "mark", !.index = row[q.tenant].index]
<1>1. q.op = "delete" /\ ~At(r, "idle") /\ q \in RequestType /\ req \in ReqType
  BY CallFacts, InvParts DEF DeleteCheck, At, ObjectsInv
<1>2. UNCHANGED <<row, issued, backends, losses>>
  BY DEF DeleteCheck, registry
<1>3. CASE End(r)
  BY <1>1, <1>2, <1>3, EndKeeps
<1>4. CASE /\ Present(q.tenant) /\ "workload" \notin issued[q.tenant]
           /\ req' = [req EXCEPT ![r].pc = "mark", ![r].index = row[q.tenant].index]
  <2>1. req' = [req EXCEPT ![r] = p] /\ req'[r] = p
    BY <1>1, <1>4 DEF ReqType
  <2>2. /\ p.pc = "mark" /\ p.index = row[q.tenant].index /\ p.op = "delete"
        /\ p.tenant = q.tenant /\ p.kind = q.kind
    BY <1>1 DEF RequestType
  <2> HIDE DEF p
  <2>3. CallInv(r)' /\ Claimed(r)'
    BY <1>2, <1>4, <2>1, <2>2
       DEF CallInv, Claimed, Fits, Standing, Progress, Issuing, At, Bound, Present
  <2> QED BY <1>1, <1>2, <2>1, <2>2, <2>3, MoveKeeps
<1> QED BY <1>3, <1>4 DEF DeleteCheck

LEMMA DeleteMarkObjects ==
    ASSUME ObjectsInv, IndexInv', NEW r \in Requests, DeleteMark(r)
    PROVE  ObjectsInv'
<1> DEFINE q == req[r]
           p == [q EXCEPT !.pc = "list"]
<1>1. q.pc = "mark" /\ ~At(r, "idle") /\ q \in RequestType /\ req \in ReqType /\ CallInv(r)
  BY CallFacts, InvParts DEF DeleteMark, At, ObjectsInv
<1>2. q.op = "delete" /\ q.op \notin ResourceOps
  BY <1>1, CallFacts DEF CallInv, Fits, Ops, ResourceOps
<1>3. PICK t \in Tenants : t = q.tenant
  BY <1>1, CallFacts
<1>4. Present(t) /\ q.index = row[t].index /\ "workload" \notin issued[t]
  BY <1>1, <1>3 DEF CallInv, Standing, Bound
<1>5. SetStatus(t, "deleting") /\ UNCHANGED <<issued, backends, losses>>
  BY <1>3 DEF DeleteMark
<1>6. req' = [req EXCEPT ![r] = p] /\ req'[r] = p
  BY <1>1, <1>3, <1>4 DEF DeleteMark, Goto, ReqType
<1>7. p.pc = "list" /\ p.index = q.index /\ p.op = "delete" /\ p.tenant = t
  BY <1>1, <1>2, <1>3 DEF RequestType
<1> HIDE DEF p
<1>8. row'[t].index = row[t].index
  BY <1>5, InvParts DEF SetStatus, ObjectsInv, RegistryType
<1>9. row'[t].status = "deleting" => CallInv(r)' /\ Claimed(r)'
  BY <1>4, <1>5, <1>6, <1>7, <1>8
     DEF CallInv, Claimed, Fits, Standing, Progress, Issuing, At, Bound, Present
<1>10. PICK status \in Statuses : status = "deleting" /\ status # "ready"
  BY DEF Statuses
<1> QED BY <1>1, <1>2, <1>3, <1>4, <1>5, <1>6, <1>7, <1>9, <1>10, StatusKeeps

\* Before any step, all that is placed is listed and ahead.
LEMMA DeleteListObjects ==
    ASSUME ObjectsInv, IndexInv', NEW r \in Requests, DeleteList(r)
    PROVE  ObjectsInv'
<1> DEFINE q == req[r]
           p == [q EXCEPT !.pc = "remove", !.todo = removeSteps,
                          !.listed = issued[q.tenant] \ {"workload"}]
<1>1. q.pc = "list" /\ ~At(r, "idle") /\ q \in RequestType /\ req \in ReqType /\ CallInv(r)
  BY CallFacts, InvParts DEF DeleteList, At, ObjectsInv
<1>2. q.op = "delete" /\ q.op \notin ResourceOps
  BY <1>1, CallFacts DEF CallInv, Fits, Ops, ResourceOps
<1>3. PICK t \in Tenants : t = q.tenant
  BY <1>1, CallFacts
<1>4. Present(t) /\ row[t].status = "deleting" /\ q.index = row[t].index /\ "workload" \notin issued[t]
  BY <1>1, <1>3 DEF CallInv, Standing, Bound
<1>5. UNCHANGED <<row, issued, backends, losses>>
  BY DEF DeleteList, registry
<1>6. req' = [req EXCEPT ![r] = p] /\ req'[r] = p
  BY <1>1 DEF DeleteList, ReqType
<1>7. /\ p.pc = "remove" /\ p.todo = removeSteps /\ p.listed = issued[t] \ {"workload"}
      /\ p.index = q.index /\ p.op = "delete" /\ p.tenant = t
  BY <1>1, <1>2, <1>3 DEF RequestType
<1> HIDE DEF p
<1>8. TenantInv(t) /\ issued[t] \in SUBSET Kinds
  BY InvParts DEF ObjectsInv, RegistryType
<1>9. Progress(r)'
  <2>1. \A s \in ObjectSteps \ StepsOf(removeSteps) : Undone(t, q.index, s)
    <3>1. \A s \in ObjectSteps \ StepsOf(removeSteps) : s \notin EnsureSet
      BY StepsCovered
    <3>2. {"network", "dns"} \subseteq EnsureSet
      BY DEF EnsureSet
    <3> QED BY <1>8, <3>1, <3>2 DEF Undone, TenantInv
  <2>2. losses = 0 => placed[t] \subseteq StepsOf(removeSteps) \cap (issued[t] \ {"workload"})
    BY <1>4, <1>8, StepsCovered DEF TenantInv, Kinds
  <2> QED BY <1>5, <1>6, <1>7, <2>1, <2>2 DEF Progress, Undone, backends
<1>10. Fits(req[r].op, req[r].pc)' /\ Standing(r)' /\ Issuing(r)' /\ Claimed(r)'
  BY <1>4, <1>5, <1>6, <1>7 DEF Fits, Standing, Issuing, Claimed, At, Bound, Present
<1> QED BY <1>1, <1>2, <1>3, <1>5, <1>6, <1>7, <1>9, <1>10, MoveKeeps DEF CallInv

\* A handler that is removing what the tenant has.
LEMMA RemoveFacts ==
    ASSUME ObjectsInv, NEW r \in Requests, At(r, "remove") \/ At(r, "unremoved")
    PROVE  /\ ~At(r, "idle") /\ req[r].op = "delete" /\ req[r].op \notin ResourceOps
           /\ req[r].tenant \in Tenants /\ req[r].index \in Indexes /\ req[r].todo \in Seq(StepNames)
           /\ req[r].listed \in SUBSET Kinds /\ req[r] \in RequestType
           /\ row[req[r].tenant].status = "deleting" /\ Present(req[r].tenant)
           /\ req[r].index = row[req[r].tenant].index /\ "workload" \notin issued[req[r].tenant]
<1>1. req[r].pc \in {"remove", "unremoved"} /\ CallInv(r) /\ ~At(r, "idle")
  BY DEF ObjectsInv, At
<1>2. req[r].op = "delete" /\ req[r].op \notin ResourceOps
  BY <1>1, CallFacts DEF CallInv, Fits, Ops, ResourceOps
<1>3. /\ row[req[r].tenant].status = "deleting" /\ Present(req[r].tenant)
      /\ req[r].index = row[req[r].tenant].index /\ "workload" \notin issued[req[r].tenant]
  BY <1>1 DEF CallInv, Standing, Bound
<1>4. req[r].index \in Indexes
  BY <1>1, InvParts DEF ObjectsInv, CarriesIndex, Bound
<1> QED BY <1>1, <1>2, <1>3, <1>4, CallFacts

LEMMA RemoveStepObjects ==
    ASSUME ObjectsInv, IndexInv', NEW r \in Requests, RemoveStep(r)
    PROVE  ObjectsInv'
<1> DEFINE q == req[r]
           p == [q EXCEPT !.todo = Tail(q.todo)]
<1>1. At(r, "remove") /\ q.todo # <<>> /\ req \in ReqType /\ TypeOK /\ CallInv(r)
  BY InvParts DEF RemoveStep, ObjectsInv, IndexInv
<1>2. PICK t \in Tenants, i \in Indexes, s \in StepNames : t = q.tenant /\ i = q.index /\ s = Head(q.todo)
  BY <1>1, RemoveFacts
<1>3. /\ ~At(r, "idle") /\ q.op = "delete" /\ q.op \notin ResourceOps /\ q.todo \in Seq(StepNames)
      /\ row[t].status = "deleting" /\ Present(t) /\ i = row[t].index /\ "workload" \notin issued[t]
      /\ q \in RequestType
  BY <1>1, <1>2, RemoveFacts
<1>4. UNCHANGED <<row, issued, losses>>
  BY DEF RemoveStep, registry
<1>5. req' = [req EXCEPT ![r] = p] /\ req'[r] = p /\ \A x \in Requests \ {r} : req'[x] = req[x]
  BY <1>1 DEF RemoveStep, ReqType
<1>6. /\ p.pc = "remove" /\ p.op = "delete" /\ p.tenant = t /\ p.index = i
      /\ p.todo = Tail(q.todo) /\ p.listed = q.listed
  BY <1>1, <1>2, <1>3 DEF RequestType, At
<1> HIDE DEF p
<1>7. TenantInv(t) /\ t # None
  BY SiteAssumption DEF ObjectsInv
<1>8. /\ StepsOf(Tail(q.todo)) \subseteq StepsOf(q.todo)
      /\ StepsOf(q.todo) \subseteq StepsOf(Tail(q.todo)) \cup {s}
  BY <1>1, <1>2, <1>3, StepsOfTail
<1>9. /\ \A x \in ObjectSteps \ StepsOf(q.todo) : Undone(t, i, x)
      /\ losses = 0 => placed[t] \subseteq StepsOf(q.todo) \cap q.listed
  BY <1>1, <1>2 DEF CallInv, Progress, At
<1>10. Fits(req[r].op, req[r].pc)' /\ Standing(r)' /\ Issuing(r)' /\ Claimed(r)'
  BY <1>3, <1>4, <1>5, <1>6 DEF Fits, Standing, Issuing, Claimed, At, Bound, Present
<1>11. CASE s \in Kinds
  <2>1. placed' = [placed EXCEPT ![t] = placed[t] \ (q.listed \cap {s})] /\ UNCHANGED <<built, zoneVNI, reverse>>
    BY <1>2, <1>11 DEF RemoveStep
  <2>2. placed'[t] = placed[t] \ (q.listed \cap {s}) /\ \A u \in Tenants \ {t} : placed'[u] = placed[u]
    BY <2>1, <1>1 DEF TypeOK
  <2>3. TenantInv(t)'
    BY <1>3, <1>4, <1>7, <2>1, <2>2 DEF TenantInv
  <2>4. Local(r) /\ ZoneStep(r)
    BY <1>2, <1>3, <1>4, <1>5, <1>6, <2>1, <2>2 DEF Local, ZoneStep
  <2>5. losses = 0 => placed'[t] \subseteq StepsOf(Tail(q.todo)) \cap q.listed
    BY <1>8, <1>9, <2>2
  <2>6. s \notin ObjectSteps
    BY <1>11 DEF Kinds, ObjectSteps
  <2>7. \A x \in ObjectSteps \ StepsOf(Tail(q.todo)) : Undone(t, i, x)'
    BY <1>8, <1>9, <2>1, <2>6 DEF Undone
  <2>8. Progress(r)'
    BY <1>4, <1>5, <1>6, <2>5, <2>7 DEF Progress, Undone
  <2> QED BY <1>2, <1>3, <1>10, <2>3, <2>4, <2>8, StepKeeps DEF CallInv
<1>12. CASE s \notin Kinds
  <2>1. SetLevel(t, s, i, Missing, None) /\ s \in ObjectSteps
    BY <1>2, <1>12 DEF RemoveStep, StepNames, Kinds
  <2>2. /\ built'[t][s] = Missing
        /\ \A x \in ObjectSteps \ {s} : built'[t][x] = built[t][x]
        /\ \A u \in Tenants \ {t} : built'[u] = built[u] /\ zoneVNI'[u] = zoneVNI[u]
        /\ s # "network" => zoneVNI'[t] = zoneVNI[t]
        /\ s = "network" => zoneVNI'[t] = 0
        /\ s # "dns" => reverse' = reverse
        /\ s = "dns" => reverse'[i] = None
        /\ \A j \in Indexes \ {i} : reverse'[j] = reverse[j]
        /\ placed' = placed
    BY <1>1, <2>1, SetLevelFacts
  <2>3. TenantInv(t)'
    <3>1. "network" \in ObjectSteps
      BY DEF ObjectSteps
    <3>2. (built[t]["network"] = Missing <=> zoneVNI[t] = 0)'
      BY <1>7, <2>2, <3>1 DEF TenantInv
    <3>3. \A x \in ObjectSteps \ EnsureSet : built'[t][x] = Missing
      BY <1>7, <2>2 DEF TenantInv
    <3> QED BY <1>3, <1>4, <1>7, <2>2, <3>2, <3>3 DEF TenantInv
  <2>4. Local(r) /\ ZoneStep(r)
    BY <1>2, <1>3, <1>4, <1>5, <1>6, <2>2 DEF Local, ZoneStep
  <2>5. losses = 0 => placed'[t] \subseteq StepsOf(Tail(q.todo)) \cap q.listed
    <3>1. placed[t] \subseteq Kinds
      BY <1>1 DEF TypeOK
    <3> QED BY <1>8, <1>9, <1>12, <2>2, <3>1
  <2>6. \A x \in ObjectSteps \ StepsOf(Tail(q.todo)) : Undone(t, i, x)'
    <3>1. Undone(t, i, s)'
      BY <1>7, <2>2 DEF Undone
    <3>2. ASSUME NEW x \in ObjectSteps, x # s, Undone(t, i, x) PROVE Undone(t, i, x)'
      BY <2>2, <3>2 DEF Undone
    <3> QED BY <1>8, <1>9, <3>1, <3>2
  <2>7. Progress(r)'
    BY <1>4, <1>5, <1>6, <2>5, <2>6 DEF Progress, Undone
  <2> QED BY <1>2, <1>3, <1>10, <2>3, <2>4, <2>7, StepKeeps DEF CallInv
<1> QED BY <1>11, <1>12

LEMMA RemoveStepFailsObjects ==
    ASSUME ObjectsInv, IndexInv', NEW r \in Requests, RemoveStepFails(r)
    PROVE  ObjectsInv'
<1> DEFINE q == req[r]
           p == [q EXCEPT !.pc = "unremoved"]
<1>1. At(r, "remove") /\ q.todo # <<>> /\ req \in ReqType /\ TypeOK
  BY InvParts DEF RemoveStepFails, ObjectsInv, IndexInv
<1>2. PICK t \in Tenants, i \in Indexes, s \in StepNames : t = q.tenant /\ i = q.index /\ s = Head(q.todo)
  BY <1>1, RemoveFacts
<1>3. /\ ~At(r, "idle") /\ q.op = "delete" /\ q.op \notin ResourceOps
      /\ row[t].status = "deleting" /\ Present(t) /\ i = row[t].index /\ "workload" \notin issued[t]
      /\ q \in RequestType
  BY <1>1, <1>2, RemoveFacts
<1>4. UNCHANGED <<row, issued, losses>>
  BY DEF RemoveStepFails, registry
<1>5. req' = [req EXCEPT ![r] = p] /\ req'[r] = p /\ \A x \in Requests \ {r} : req'[x] = req[x]
  BY <1>1 DEF RemoveStepFails, Goto, ReqType
<1>6. p.pc = "unremoved" /\ p.op = "delete" /\ p.tenant = t /\ p.index = i
  BY <1>2, <1>3 DEF RequestType
<1> HIDE DEF p
<1>7. TenantInv(t)
  BY DEF ObjectsInv
<1>8. CallInv(r)' /\ Claimed(r)'
  BY <1>3, <1>4, <1>5, <1>6
     DEF CallInv, Fits, Standing, Progress, Issuing, Claimed, At, Bound, Present
<1>9. CASE /\ s \in Kinds
           /\ \E set \in {placed[t], placed[t] \ (q.listed \cap {s})} : placed' = [placed EXCEPT ![t] = set]
           /\ UNCHANGED <<built, zoneVNI, reverse>>
  <2>1. PICK set \in {placed[t], placed[t] \ (q.listed \cap {s})} : placed' = [placed EXCEPT ![t] = set]
    BY <1>9
  <2>2. placed'[t] \subseteq placed[t] /\ \A u \in Tenants \ {t} : placed'[u] = placed[u]
    BY <2>1, <1>1 DEF TypeOK
  <2>3. TenantInv(t)'
    BY <1>3, <1>4, <1>7, <1>9, <2>2 DEF TenantInv
  <2>4. Local(r) /\ ZoneStep(r)
    BY <1>2, <1>3, <1>4, <1>5, <1>6, <1>9, <2>2 DEF Local, ZoneStep
  <2> QED BY <1>2, <1>3, <1>8, <2>3, <2>4, StepKeeps
<1>10. CASE /\ s \notin Kinds
            /\ \E level \in {l \in Levels : l <= built[t][s]} : \E owner \in {reverse[i], None} :
                  /\ built' = [built EXCEPT ![t][s] = level]
                  /\ zoneVNI' = IF s = "network" /\ level = Missing
                                THEN [zoneVNI EXCEPT ![t] = 0] ELSE zoneVNI
                  /\ reverse' = IF s # "dns" THEN reverse ELSE [reverse EXCEPT ![i] = owner]
                  /\ UNCHANGED placed
  <2>1. PICK level \in {l \in Levels : l <= built[t][s]}, owner \in {reverse[i], None} :
                  /\ built' = [built EXCEPT ![t][s] = level]
                  /\ zoneVNI' = IF s = "network" /\ level = Missing
                                THEN [zoneVNI EXCEPT ![t] = 0] ELSE zoneVNI
                  /\ reverse' = IF s # "dns" THEN reverse ELSE [reverse EXCEPT ![i] = owner]
                  /\ UNCHANGED placed
    BY <1>10
  <2>2. s \in ObjectSteps /\ "network" \in ObjectSteps
    BY <1>10 DEF StepNames, ObjectSteps, Kinds
  <2>3. /\ built'[t][s] = level
        /\ \A x \in ObjectSteps \ {s} : built'[t][x] = built[t][x]
        /\ \A u \in Tenants \ {t} : built'[u] = built[u]
    BY <1>1, <2>1, <2>2 DEF TypeOK
  <2>4. /\ \A u \in Tenants \ {t} : zoneVNI'[u] = zoneVNI[u]
        /\ zoneVNI'[t] = IF s = "network" /\ level = Missing THEN 0 ELSE zoneVNI[t]
    BY <1>1, <2>1 DEF TypeOK
  <2>5. \A j \in Indexes : reverse'[j] = reverse[j] \/ (j = i /\ reverse'[j] = None)
    BY <1>1, <2>1 DEF TypeOK
  <2>6. built[t][s] = Missing => level = Missing
    BY <2>1 DEF Levels, Missing, Full
  <2>7. TenantInv(t)'
    <3>1. (built[t]["network"] = Missing <=> zoneVNI[t] = 0)'
      BY <1>7, <2>2, <2>3, <2>4, <2>6 DEF TenantInv
    <3>2. \A x \in ObjectSteps \ EnsureSet : built'[t][x] = Missing
      BY <1>7, <2>3, <2>6 DEF TenantInv
    <3> QED BY <1>3, <1>4, <1>7, <2>1, <3>1, <3>2 DEF TenantInv
  <2>8. Local(r) /\ ZoneStep(r)
    BY <1>2, <1>3, <1>4, <1>5, <1>6, <2>1, <2>3, <2>4, <2>5 DEF Local, ZoneStep
  <2> QED BY <1>2, <1>3, <1>8, <2>7, <2>8, StepKeeps
<1> QED BY <1>2, <1>9, <1>10 DEF RemoveStepFails

LEMMA RemoveFailedObjects ==
    ASSUME ObjectsInv, IndexInv', NEW r \in Requests, RemoveFailed(r)
    PROVE  ObjectsInv'
<1>1. ~At(r, "idle") /\ End(r) /\ UNCHANGED <<row, issued, backends, losses>>
  BY DEF RemoveFailed, At
<1> QED BY <1>1, EndKeeps

\* The row goes: nothing of the tenant is left.
LEMMA DropRowFinds ==
    ASSUME ObjectsInv, NEW r \in Requests, DropRow(r), NEW t \in Tenants, t = req[r].tenant
    PROVE  /\ \A s \in ObjectSteps : built[t][s] = Missing
           /\ zoneVNI[t] = 0 /\ reverse[row[t].index] # t
           /\ losses = 0 => placed[t] = {}
<1>1. req[r].pc = "remove" /\ req[r].todo = <<>> /\ At(r, "remove") /\ CallInv(r)
  BY DEF DropRow, At, ObjectsInv
<1>2. StepsOf(req[r].todo) = {} /\ req[r].index = row[t].index
  BY <1>1, RemoveFacts DEF StepsOf
<1>3. \A s \in ObjectSteps : Undone(t, row[t].index, s)
  BY <1>1, <1>2 DEF CallInv, Progress
<1>4. losses = 0 => placed[t] = {}
  BY <1>1, <1>2 DEF CallInv, Progress
<1>5. "network" \in ObjectSteps /\ "dns" \in ObjectSteps
  BY DEF ObjectSteps
<1> QED BY <1>3, <1>4, <1>5 DEF Undone

LEMMA DropRowObjects ==
    ASSUME ObjectsInv, IndexInv', NEW r \in Requests, DropRow(r)
    PROVE  ObjectsInv'
<1>1. At(r, "remove") /\ req \in ReqType /\ TypeOK /\ FabricInv
  BY InvParts DEF DropRow, ObjectsInv, IndexInv
<1>2. PICK t \in Tenants : t = req[r].tenant
  BY <1>1, RemoveFacts
<1>3. ~At(r, "idle") /\ req[r].op \notin ResourceOps /\ TenantInv(t)
  BY <1>1, RemoveFacts DEF ObjectsInv
<1>4. zoneVNI[t] = 0 /\ (losses = 0 => placed[t] = {})
  BY <1>2, DropRowFinds
<1>5. /\ row'[t] = NoRow /\ \A u \in Tenants \ {t} : row'[u] = row[u]
      /\ issued'[t] = {} /\ \A u \in Tenants \ {t} : issued'[u] = issued[u]
  BY <1>1, <1>2 DEF DropRow, TypeOK
<1>6. req'[r] = Idle /\ \A x \in Requests \ {r} : req'[x] = req[x]
  BY <1>1 DEF DropRow, End, ReqType
<1>7. UNCHANGED <<built, zoneVNI, reverse, placed, losses>>
  BY DEF DropRow, backends
<1>8. Local(r)
  BY <1>2, <1>3, <1>5, <1>6, <1>7 DEF Local
<1>9. TenantInv(t)'
  BY <1>3, <1>4, <1>5, <1>7 DEF TenantInv, NoRow
<1>10. FabricInv'
  BY <1>1, <1>5, <1>7 DEF FabricInv, NoRow
<1>11. ASSUME NEW x \in Requests \ {r} PROVE Claimed(x)'
  <2> SUFFICES ASSUME At(x, "insert")' PROVE Claimed(x)'
    BY DEF Claimed
  <2>1. req'[x] = req[x] /\ At(x, "insert") /\ Claimed(x)
    BY <1>6 DEF At, ObjectsInv
  <2>2. \A u \in Tenants : zoneVNI[u] # 0 => row'[u] = row[u]
    BY <1>4, <1>5
  <2> QED BY <2>1, <2>2, <1>7 DEF Claimed
<1>12. CallInv(r)' /\ Claimed(r)'
  BY <1>6, IdleCall
<1> QED BY <1>2, <1>3, <1>8, <1>9, <1>10, <1>11, <1>12, OtherCalls, OtherTenants, StaysExclusive
        DEF ObjectsInv

-----------------------------------------------------------------------------
(* Resources.  Several calls may be at a tenant's resources, each at its own. *)

LEMMA ResourceFacts ==
    ASSUME ObjectsInv, NEW r \in Requests, ~At(r, "idle"),
           \/ req[r].pc \in {"rowdown", "place", "unplace", "rowaway"}
           \/ req[r].op \in ResourceOps
    PROVE  /\ req[r] \in RequestType /\ req \in ReqType /\ TypeOK /\ req[r].op \in ResourceOps
           /\ req[r].pc \in {"rowdown", "place"} => req[r].op = "issue"
           /\ req[r].pc \in {"unplace", "rowaway"} => req[r].op = "withdraw"
           /\ req[r].tenant \in Tenants /\ req[r].kind \in Kinds /\ Issuing(r)
<1>1. CallInv(r) /\ req \in ReqType /\ TypeOK
  BY InvParts DEF ObjectsInv, IndexInv
<1>2. req[r].op \in ResourceOps /\ (req[r].pc \in {"rowdown", "place"} => req[r].op = "issue")
      /\ (req[r].pc \in {"unplace", "rowaway"} => req[r].op = "withdraw")
  BY <1>1, CallFacts DEF CallInv, Fits, Ops, ResourceOps
<1> QED BY <1>1, <1>2, CallFacts DEF CallInv

\* A step at one resource: its row and its object are all that changes.
LEMMA ResourceKeeps ==
    ASSUME ObjectsInv, IndexInv', NEW r \in Requests, ~At(r, "idle"), req[r].op \in ResourceOps,
           NEW t \in Tenants, t = req[r].tenant,
           UNCHANGED <<row, built, zoneVNI, reverse, losses>>,
           \A u \in Tenants \ {t} : issued'[u] = issued[u] /\ placed'[u] = placed[u],
           \A k \in Kinds \ {req[r].kind} :
              (k \in issued'[t] <=> k \in issued[t]) /\ (k \in placed'[t] <=> k \in placed[t]),
           losses = 0 => (req[r].kind \in placed'[t] => req[r].kind \in issued'[t]),
           NEW p, req' = [req EXCEPT ![r] = p],
           \/ p = Idle
           \/ /\ p.tenant = t /\ p.op = req[r].op /\ p.kind = req[r].kind
              /\ p.pc \in {"rowdown", "place", "unplace", "rowaway"}
              /\ Fits(p.op, p.pc) /\ Issuing(r)'
    PROVE  ObjectsInv'
<1>1. req \in ReqType /\ TypeOK
  BY ResourceFacts
<1>2. req'[r] = p /\ \A q \in Requests \ {r} : req'[q] = req[q]
  BY <1>1 DEF ReqType
<1>3. Local(r) /\ ZoneStep(r)
  BY <1>2 DEF Local, ZoneStep
<1>4. CallInv(r)' /\ Claimed(r)'
  <2>1. CASE p = Idle
    BY <1>2, <2>1, IdleCall
  <2>2. CASE /\ p.pc \in {"rowdown", "place", "unplace", "rowaway"}
             /\ Fits(p.op, p.pc) /\ Issuing(r)'
    BY <1>2, <2>2 DEF CallInv, Claimed, Fits, Standing, Progress, At, Bound
  <2> QED BY <2>1, <2>2
<1>5. TenantInv(t)'
  <2>1. TenantInv(t)
    BY DEF ObjectsInv
  <2>2. losses' = 0 => placed'[t] \subseteq issued'[t]
    <3>1. placed'[t] \subseteq Kinds
      BY DEF IndexInv, TypeOK
    <3> QED BY <2>1, <3>1 DEF TenantInv
  <2> QED BY <2>1, <2>2 DEF TenantInv, Done
<1> QED BY <1>3, <1>4, <1>5, StepKeeps

LEMMA IssueObjects ==
    ASSUME ObjectsInv, IndexInv', NEW r \in Requests,
           IssueCheck(r) \/ IssueRow(r) \/ Place(r) \/ PlaceConflict(r)
    PROVE  ObjectsInv'
<1> DEFINE q == req[r]
<1>1. /\ ~At(r, "idle") /\ q \in RequestType /\ req \in ReqType /\ TypeOK /\ q.op \in ResourceOps
      /\ q.op = "issue" /\ q.tenant \in Tenants /\ q.kind \in Kinds /\ Issuing(r)
  BY ResourceFacts DEF IssueCheck, IssueRow, Place, PlaceConflict, At, ResourceOps
<1>2. PICK t \in Tenants : t = q.tenant
  BY <1>1
<1>3. TenantInv(t)
  BY DEF ObjectsInv
<1>4. CASE IssueCheck(r)
  <2>1. UNCHANGED <<row, issued, backends, losses>>
    BY <1>4 DEF IssueCheck, registry
  <2>2. CASE End(r)
    BY <1>1, <2>1, <2>2, EndKeeps
  <2>3. CASE req' = [req EXCEPT ![r].pc = "rowdown", ![r].listed = issued[q.tenant] \cap {q.kind}]
    <3> DEFINE p == [q EXCEPT !.pc = "rowdown", !.listed = issued[q.tenant] \cap {q.kind}]
    <3>1. req' = [req EXCEPT ![r] = p] /\ req'[r] = p
      BY <1>1, <2>3 DEF ReqType
    <3>2. p.tenant = t /\ p.op = q.op /\ p.kind = q.kind /\ p.pc = "rowdown"
      BY <1>1, <1>2 DEF RequestType
    <3> HIDE DEF p
    <3>3. Fits(p.op, p.pc) /\ Issuing(r)'
      BY <1>1, <3>1, <3>2 DEF Fits, Issuing, At
    <3>4. losses = 0 => (q.kind \in placed'[t] => q.kind \in issued'[t])
      BY <1>3, <2>1 DEF TenantInv, backends
    <3> QED BY <1>1, <1>2, <2>1, <3>1, <3>2, <3>3, <3>4, ResourceKeeps DEF backends
  <2> QED BY <1>4, <2>2, <2>3 DEF IssueCheck
<1>5. CASE IssueRow(r)
  <2>1. UNCHANGED <<row, built, zoneVNI, reverse, placed, losses>>
    BY <1>5 DEF IssueRow, backends
  <2>2. CASE End(r) /\ UNCHANGED issued
    BY <1>1, <2>1, <2>2, EndKeeps DEF backends
  <2>3. CASE issued' = [issued EXCEPT ![q.tenant] = @ \cup {q.kind}] /\ Goto(r, "place")
    <3> DEFINE p == [q EXCEPT !.pc = "place"]
    <3>1. req' = [req EXCEPT ![r] = p] /\ req'[r] = p
      BY <1>1, <2>3 DEF ReqType, Goto
    <3>2. p.tenant = t /\ p.op = q.op /\ p.kind = q.kind /\ p.pc = "place"
      BY <1>1, <1>2 DEF RequestType
    <3> HIDE DEF p
    <3>3. issued'[t] = issued[t] \cup {q.kind} /\ \A u \in Tenants \ {t} : issued'[u] = issued[u]
      BY <1>1, <1>2, <2>3 DEF TypeOK
    <3>4. Fits(p.op, p.pc) /\ Issuing(r)'
      BY <1>1, <3>1, <3>2, <3>3 DEF Fits, Issuing, At
    <3> QED BY <1>1, <1>2, <2>1, <3>1, <3>2, <3>3, <3>4, ResourceKeeps
  <2> QED BY <1>5, <2>2, <2>3 DEF IssueRow
<1>6. CASE Place(r)
  <2>1. UNCHANGED <<row, issued, built, zoneVNI, reverse, losses>> /\ req' = [req EXCEPT ![r] = Idle]
    BY <1>6 DEF Place, registry, End
  <2>2. q.kind \in issued[t]
    BY <1>1, <1>2, <1>6 DEF Place, Issuing
  <2>3. placed'[t] = placed[t] \cup {q.kind} /\ \A u \in Tenants \ {t} : placed'[u] = placed[u]
    BY <1>1, <1>2, <1>6 DEF Place, TypeOK
  <2> QED BY <1>1, <1>2, <2>1, <2>2, <2>3, ResourceKeeps
<1>7. CASE PlaceConflict(r)
  <2>1. /\ UNCHANGED <<row, built, zoneVNI, reverse, placed, losses>> /\ req' = [req EXCEPT ![r] = Idle]
        /\ q.kind \notin placed[t]
    BY <1>2, <1>7 DEF PlaceConflict, backends, End
  <2>2. issued'[t] = issued[t] \ ({q.kind} \ q.listed) /\ \A u \in Tenants \ {t} : issued'[u] = issued[u]
    BY <1>1, <1>2, <1>7 DEF PlaceConflict, TypeOK
  <2> QED BY <1>1, <1>2, <2>1, <2>2, ResourceKeeps
<1> QED BY <1>4, <1>5, <1>6, <1>7

LEMMA WithdrawObjects ==
    ASSUME ObjectsInv, IndexInv', NEW r \in Requests,
           WithdrawCheck(r) \/ Unplace(r) \/ WithdrawRow(r)
    PROVE  ObjectsInv'
<1> DEFINE q == req[r]
<1>1. /\ ~At(r, "idle") /\ q \in RequestType /\ req \in ReqType /\ TypeOK /\ q.op \in ResourceOps
      /\ q.op = "withdraw" /\ q.tenant \in Tenants /\ q.kind \in Kinds /\ Issuing(r)
  BY ResourceFacts DEF WithdrawCheck, Unplace, WithdrawRow, At, ResourceOps
<1>2. PICK t \in Tenants : t = q.tenant
  BY <1>1
<1>3. TenantInv(t)
  BY DEF ObjectsInv
<1>4. CASE WithdrawCheck(r)
  <2>1. UNCHANGED <<row, issued, backends, losses>>
    BY <1>4 DEF WithdrawCheck, registry
  <2>2. CASE End(r)
    BY <1>1, <2>1, <2>2, EndKeeps
  <2>3. CASE Goto(r, "unplace")
    <3> DEFINE p == [q EXCEPT !.pc = "unplace"]
    <3>1. req'[r] = p
      BY <1>1, <2>3 DEF ReqType, Goto
    <3>2. p.op = q.op /\ p.pc = "unplace"
      BY <1>1 DEF RequestType
    <3> HIDE DEF p
    <3>3. CallInv(r)'
      BY <1>1, <3>1, <3>2 DEF CallInv, Fits, Standing, Progress, Issuing, At, Bound
    <3> QED BY <1>1, <2>1, <2>3, <3>3, GotoKeeps
  <2> QED BY <1>4, <2>2, <2>3 DEF WithdrawCheck
<1>5. CASE Unplace(r)
  <2> DEFINE p == [q EXCEPT !.pc = "rowaway"]
  <2>1. UNCHANGED <<row, issued, built, zoneVNI, reverse, losses>>
    BY <1>5 DEF Unplace, registry
  <2>2. req' = [req EXCEPT ![r] = p] /\ req'[r] = p
    BY <1>1, <1>5 DEF Unplace, Goto, ReqType
  <2>3. p.tenant = t /\ p.op = q.op /\ p.kind = q.kind /\ p.pc = "rowaway"
    BY <1>1, <1>2 DEF RequestType
  <2> HIDE DEF p
  <2>4. placed'[t] = placed[t] \ {q.kind} /\ \A u \in Tenants \ {t} : placed'[u] = placed[u]
    BY <1>1, <1>2, <1>5 DEF Unplace, TypeOK
  <2>5. Fits(p.op, p.pc) /\ Issuing(r)'
    BY <1>1, <2>2, <2>3, <2>4 DEF Fits, Issuing, At
  <2> QED BY <1>1, <1>2, <2>1, <2>2, <2>3, <2>4, <2>5, ResourceKeeps
<1>6. CASE WithdrawRow(r)
  <2>1. UNCHANGED <<row, built, zoneVNI, reverse, placed, losses>> /\ req' = [req EXCEPT ![r] = Idle]
    BY <1>6 DEF WithdrawRow, backends, End
  <2>2. q.kind \notin placed[t]
    BY <1>1, <1>2, <1>6 DEF WithdrawRow, Issuing
  <2>3. issued'[t] = issued[t] \ {q.kind} /\ \A u \in Tenants \ {t} : issued'[u] = issued[u]
    BY <1>1, <1>2, <1>6 DEF WithdrawRow, TypeOK
  <2> QED BY <1>1, <1>2, <2>1, <2>2, <2>3, ResourceKeeps
<1> QED BY <1>4, <1>5, <1>6

-----------------------------------------------------------------------------
(* Every step.                                                               *)

LEMMA AbandonObjects ==
    ASSUME ObjectsInv, IndexInv', NEW r \in Requests, Abandon(r)
    PROVE  ObjectsInv'
<1>1. ~At(r, "idle") /\ End(r) /\ UNCHANGED <<row, issued, backends, losses>>
  BY DEF Abandon, registry
<1> QED BY <1>1, EndKeeps

\* The zones outlive the rows; the resources are on record no more.
LEMMA LoseRegistryObjects ==
    ASSUME ObjectsInv, IndexInv', LoseRegistry
    PROVE  ObjectsInv'
<1>1. /\ \A t \in Tenants : row'[t] = NoRow /\ issued'[t] = {}
      /\ UNCHANGED <<built, zoneVNI, reverse, placed, req>>
  BY DEF LoseRegistry, backends
<1>2. losses' # 0
  BY DEF LoseRegistry, ObjectsInv, IndexInv, TypeOK
<1>3. ASSUME NEW r \in Requests PROVE req[r] = Idle
  <2>1. req[r].pc = "idle" /\ req[r] \in RequestType \cup {Idle}
    BY InvParts DEF LoseRegistry, InFlight, ObjectsInv, ReqType
  <2> QED BY <2>1 DEF RequestType, Points
<1>4. \A r \in Requests : req'[r] = Idle
  BY <1>1, <1>3
<1>5. Exclusive'
  BY <1>4 DEF Exclusive, At, Idle
<1>6. FabricInv'
  BY <1>1 DEF ObjectsInv, FabricInv, NoRow
<1>7. \A r \in Requests : CallInv(r)' /\ Claimed(r)'
  BY <1>4, IdleCall
<1>8. ASSUME NEW t \in Tenants PROVE TenantInv(t)'
  BY <1>1, <1>2 DEF ObjectsInv, TenantInv, NoRow
<1> QED BY <1>5, <1>6, <1>7, <1>8 DEF ObjectsInv

LEMMA StutterObjects ==
    ASSUME ObjectsInv, IndexInv', UNCHANGED vars
    PROVE  ObjectsInv'
<1>1. UNCHANGED <<row, issued, built, zoneVNI, reverse, placed, req, losses>>
  BY DEF vars
<1>2. Exclusive'
  BY <1>1 DEF ObjectsInv, Exclusive, At
<1>3. FabricInv'
  BY <1>1 DEF ObjectsInv, FabricInv
<1>4. ASSUME NEW r \in Requests PROVE CallInv(r)' /\ Claimed(r)'
  <2>1. CallInv(r) /\ Claimed(r)
    BY DEF ObjectsInv
  <2>2. CallInv(r)'
    BY <1>1, <2>1 DEF CallInv, Fits, Standing, Progress, Issuing, At, Done, Undone, Present
  <2>3. Claimed(r)'
    BY <1>1, <2>1 DEF Claimed, At
  <2> QED BY <2>2, <2>3
<1>5. ASSUME NEW t \in Tenants PROVE TenantInv(t)'
  BY <1>1 DEF ObjectsInv, TenantInv, Done
<1> QED BY <1>2, <1>3, <1>4, <1>5 DEF ObjectsInv

LEMMA NextObjects ==
    ASSUME ~Overlap, ObjectsInv, [Next]_vars
    PROVE  ObjectsInv'
<1>1. IndexInv'
  BY NextInv DEF ObjectsInv
<1>2. CASE UNCHANGED vars
  BY <1>1, <1>2, StutterObjects
<1>3. CASE LoseRegistry
  BY <1>1, <1>3, LoseRegistryObjects
<1>4. ASSUME NEW r \in Requests, Continue(r) PROVE ObjectsInv'
  BY <1>1, <1>4, GetObjects, ReadClaimsObjects, InsertObjects, SetSecretsObjects,
     EnsureStepObjects, EnsureFailedObjects, EnsureEndsObjects,
     DeleteCheckObjects, DeleteMarkObjects, DeleteListObjects,
     RemoveStepObjects, RemoveFailedObjects, DropRowObjects, IssueObjects, WithdrawObjects
     DEF Continue
<1>5. ASSUME NEW r \in Requests,
             \/ BeginCreate(r) \/ BeginReconcile(r) \/ BeginDelete(r) \/ BeginResource(r)
             \/ EnsureStepFails(r) \/ RemoveStepFails(r) \/ PlaceConflict(r)
             \/ Abandon(r)
      PROVE  ObjectsInv'
  BY <1>1, <1>5, BeginsObjects, EnsureStepFailsObjects, RemoveStepFailsObjects, IssueObjects, AbandonObjects
<1> QED BY <1>2, <1>3, <1>4, <1>5 DEF Next

\* The steps that write the registry's rows of tenants.
LEMMA RowSteps ==
    ASSUME [Next]_vars
    PROVE  \/ row' = row
           \/ LoseRegistry
           \/ \E r \in Requests : \/ Insert(r) \/ DropRow(r)
                                  \/ EnsureDemote(r) \/ EnsureDone(r) \/ DeleteMark(r)
<1>1. ASSUME NEW r \in Requests, Continue(r)
      PROVE  \/ Insert(r) \/ DropRow(r)
             \/ EnsureDemote(r) \/ EnsureDone(r) \/ DeleteMark(r)
             \/ row' = row
  BY <1>1 DEF Continue, Get, ReadClaims, SetSecrets, EnsureStep, EnsureFailed, DeleteCheck,
              DeleteList, RemoveStep, RemoveFailed, IssueCheck, IssueRow, Place, WithdrawCheck, Unplace,
              WithdrawRow, registry
<1>2. ASSUME NEW r \in Requests,
             \/ BeginCreate(r) \/ BeginReconcile(r) \/ BeginDelete(r) \/ BeginResource(r)
             \/ EnsureStepFails(r) \/ RemoveStepFails(r) \/ PlaceConflict(r)
             \/ Abandon(r)
      PROVE  row' = row
  BY <1>2 DEF BeginCreate, BeginReconcile, BeginDelete, BeginResource, Begin,
              EnsureStepFails, RemoveStepFails, PlaceConflict, Abandon, registry
<1> QED BY <1>1, <1>2 DEF Next, vars

\* What SetStatus does where a handler calls it.
LEMMA StatusSteps ==
    ASSUME ObjectsInv, NEW r \in Requests, EnsureDemote(r) \/ EnsureDone(r) \/ DeleteMark(r),
           NEW t \in Tenants, row'[t] # row[t]
    PROVE  /\ t = req[r].tenant /\ Present(t) /\ Present(t)'
           /\ row[t].status = "deleting" => row'[t].status = "deleting"
<1>1. /\ ~At(r, "idle") /\ CallInv(r) /\ RegistryType
      /\ EnsureDemote(r) \/ EnsureDone(r) => req[r].pc \in {"demote", "ensure"}
  BY InvParts DEF EnsureDemote, EnsureDone, DeleteMark, At, ObjectsInv
<1>2. PICK u \in Tenants : u = req[r].tenant
  BY <1>1, CallFacts
<1>3. PICK status \in Statuses : /\ SetStatus(u, status)
                                 /\ EnsureDemote(r) \/ EnsureDone(r) \/ status = "deleting"
  BY <1>2 DEF EnsureDemote, EnsureDone, DeleteMark, Statuses
<1>4. Present(u) /\ row' = [row EXCEPT ![u].status = status]
  BY <1>3 DEF SetStatus
<1>5. t = u /\ row'[t].status = status
  BY <1>1, <1>4 DEF RegistryType
<1>6. EnsureDemote(r) \/ EnsureDone(r) => row[u].status \in {"provisioning", "ready"}
  BY <1>1, <1>2 DEF CallInv, Standing
<1> QED BY <1>2, <1>3, <1>4, <1>5, <1>6 DEF Present, Statuses

\* Store.Create writes a row for a tenant that has none.
LEMMA InsertSteps ==
    ASSUME ObjectsInv, NEW r \in Requests, Insert(r), NEW t \in Tenants, row'[t] # row[t]
    PROVE  /\ t = req[r].tenant /\ ~Present(t) /\ Present(t)'
           /\ row'[t].index = pickIndex(t, req[r].asked,
                                        {row[u].index : u \in {v \in Tenants : Present(v)}},
                                        req[r].claims)
<1> DEFINE n == pickIndex(req[r].tenant, req[r].asked,
                          {row[u].index : u \in {v \in Tenants : Present(v)}}, req[r].claims)
<1>1. ~At(r, "idle") /\ RegistryType
  BY InvParts DEF Insert, At, ObjectsInv
<1>2. req[r].tenant \in Tenants
  BY <1>1, CallFacts
<1>3. ~Present(req[r].tenant) /\ row' = [row EXCEPT ![req[r].tenant] = [status |-> "provisioning", index |-> n]]
  BY DEF Insert
<1> HIDE DEF n
<1>4. t = req[r].tenant /\ row'[t] = [status |-> "provisioning", index |-> n]
  BY <1>1, <1>2, <1>3 DEF RegistryType
<1> QED BY <1>3, <1>4 DEF Present, n

LEMMA DropRowSteps ==
    ASSUME ObjectsInv, NEW r \in Requests, DropRow(r), NEW t \in Tenants, row'[t] # row[t]
    PROVE  t = req[r].tenant /\ row'[t] = NoRow
<1>1. RegistryType /\ req[r].tenant \in Tenants
  BY InvParts, RemoveFacts DEF ObjectsInv, DropRow
<1> QED BY <1>1 DEF DropRow, RegistryType

\* A tenant that comes back finds the index of its zone free.
LEMMA InsertGivesBack ==
    ASSUME ObjectsInv, NEW r \in Requests, Insert(r), NEW t \in Tenants, row'[t] # row[t],
           zoneVNI[t] # 0, req[r].asked = 0
    PROVE  VRFVNI(row'[t].index) = zoneVNI[t]
<1> DEFINE held == {row[u].index : u \in {v \in Tenants : Present(v)}}
           C == req[r].claims
<1>1. t = req[r].tenant /\ ~Present(t) /\ row'[t].index = pickIndex(t, 0, held, C)
  BY InsertSteps
<1>2. At(r, "insert") /\ ~At(r, "idle") /\ Claimed(r) /\ FabricInv /\ RowHasIndex /\ TypeOK
  BY InvParts DEF Insert, At, ObjectsInv, IndexInv
<1>3. PICK i \in Indexes : zoneVNI[t] = VRFVNI(i)
  BY <1>2 DEF TypeOK
<1>4. C \in SUBSET ClaimSet
  BY <1>2, CallFacts
<1>5. \A c \in C : c.index \in AnyIndex
  BY <1>4, MaxAllocatableAssumption DEF ClaimSet, AnyIndex, ReservedIndex
<1>6. \A c \in C : c.zone = t <=> c.index = i
  <2>1. \A c \in C : c.zone = t <=> VRFVNI(i) = VRFVNI(c.index)
    BY <1>1, <1>2, <1>3 DEF Claimed
  <2> QED BY <1>3, <1>5, <2>1, VNIsDiffer
<1>7. \E c \in C : c.zone = t
  BY <1>1, <1>2 DEF Claimed
<1>8. OwnIndexes(t, C) = {i}
  BY <1>6, <1>7 DEF OwnIndexes
<1>9. i \notin held
  <2> SUFFICES ASSUME NEW u \in Tenants, Present(u), i = row[u].index PROVE FALSE
    OBVIOUS
  <2>1. u # t /\ row[u].index # 0
    BY <1>1, <1>2, <1>3, VNIsDiffer
  <2> QED BY <1>2, <1>3, <2>1 DEF FabricInv
<1>10. Free(i, t, held, C)
  BY <1>3, <1>6, <1>9 DEF Free
<1> QED BY <1>1, <1>3, <1>8, <1>10, PickIndexGivesBack

-----------------------------------------------------------------------------
(* The theorems.                                                             *)

\* ObjectsInv holds of every behaviour in which nobody changes a tenant, or one
\* resource of it, twice at once.
LEMMA ObjectsInductive == ASSUME ~Overlap PROVE Spec => []ObjectsInv
<1>1. Init => ObjectsInv
  BY InitObjects
<1>2. ObjectsInv /\ [Next]_vars => ObjectsInv'
  BY NextObjects
<1> QED BY <1>1, <1>2, PTL DEF Spec

\* No two zones on the fabric ever carry one VNI, and none that of a zone the
\* API did not build: what createNew read of the fabric before it took the
\* allocation lock, and the rows it read under it, cover every zone there is
\* and every zone still to be built, after any number of lost registries.
THEOREM ZonesDiffer == ASSUME ~Overlap PROVE Spec => []FabricUnique
<1>1. ObjectsInv => FabricUnique
  BY DEF ObjectsInv, FabricInv, FabricUnique
<1> QED BY <1>1, ObjectsInductive, PTL

\* A tenant is ready only with every backend step's objects in place, its zone
\* at its index's VNI and its reverse zone under its own key, through any
\* number of failed, cut-off and repeated calls.
THEOREM ReadyTenantsAreBuilt == ASSUME ~Overlap PROVE Spec => []ReadyMeansBuilt
<1>1. ObjectsInv => ReadyMeansBuilt
  <2>1. {"network", "dns"} \subseteq EnsureSet
    BY DEF EnsureSet
  <2> QED BY <2>1 DEF ObjectsInv, TenantInv, Done, ReadyMeansBuilt
<1> QED BY <1>1, ObjectsInductive, PTL

\* Until a registry is lost, no resource is in a backend without a row: the row
\* is written before the object and taken back after it is gone, also by the
\* calls that fail between the two.
THEOREM ResourcesRecorded == ASSUME ~Overlap PROVE Spec => []PlacedIsRecorded
<1>1. ObjectsInv => PlacedIsRecorded
  BY DEF ObjectsInv, TenantInv, PlacedIsRecorded
<1> QED BY <1>1, ObjectsInductive, PTL

\* A tenant that Delete has marked is deleting until its row is gone: no ensure
\* that was under way sets it ready or provisioning again.
THEOREM DeletingStays == ASSUME ~Overlap PROVE Spec => DeletingIsFinal
<1>1. ObjectsInv /\ [Next]_vars =>
        [\A t \in Tenants : row[t].status = "deleting" =>
            row'[t].status \in {"deleting", "absent"}]_vars
  <2> SUFFICES ASSUME ObjectsInv, [Next]_vars, NEW t \in Tenants, row[t].status = "deleting",
                      row'[t] # row[t]
               PROVE  row'[t].status \in {"deleting", "absent"}
    OBVIOUS
  <2>1. Present(t)
    BY DEF Present
  <2>2. CASE LoseRegistry
    BY <2>2 DEF LoseRegistry, NoRow
  <2>3. ASSUME NEW r \in Requests, Insert(r) PROVE FALSE
    BY <2>1, <2>3, InsertSteps
  <2>4. ASSUME NEW r \in Requests, DropRow(r) PROVE row'[t].status = "absent"
    BY <2>4, DropRowSteps DEF NoRow
  <2>5. ASSUME NEW r \in Requests, EnsureDemote(r) \/ EnsureDone(r) \/ DeleteMark(r)
        PROVE  row'[t].status = "deleting"
    BY <2>5, StatusSteps
  <2> QED BY <2>2, <2>3, <2>4, <2>5, RowSteps
<1> QED BY <1>1, ObjectsInductive, PTL DEF Spec, DeletingIsFinal

\* Delete drops the row of a tenant only when its objects, its zone, its reverse
\* zone and its resources are gone from every backend: each repeated delete
\* runs all the steps again.
THEOREM DeletedTenantsAreGone == ASSUME ~Overlap PROVE Spec => DeleteLeavesNothing
<1>1. ObjectsInv /\ [Next]_vars =>
        [\A t \in Tenants : Present(t) /\ ~Present(t)' /\ losses' = losses =>
            /\ \A s \in ObjectSteps : built[t][s] = Missing
            /\ zoneVNI[t] = 0
            /\ reverse[row[t].index] # t
            /\ losses = 0 => placed[t] = {}]_vars
  <2> SUFFICES ASSUME ObjectsInv, [Next]_vars, NEW t \in Tenants, Present(t), ~Present(t)',
                      losses' = losses
               PROVE  /\ \A s \in ObjectSteps : built[t][s] = Missing
                      /\ zoneVNI[t] = 0
                      /\ reverse[row[t].index] # t
                      /\ losses = 0 => placed[t] = {}
    OBVIOUS
  <2>1. row'[t] # row[t]
    BY DEF Present
  <2>2. ~LoseRegistry
    BY DEF LoseRegistry, ObjectsInv, IndexInv, TypeOK
  <2>3. ASSUME NEW r \in Requests, Insert(r) \/ EnsureDemote(r) \/ EnsureDone(r) \/ DeleteMark(r)
        PROVE  FALSE
    BY <2>1, <2>3, InsertSteps, StatusSteps
  <2>4. PICK r \in Requests : DropRow(r)
    BY <2>1, <2>2, <2>3, RowSteps
  <2>5. t = req[r].tenant
    BY <2>1, <2>4, DropRowSteps
  <2> QED BY <2>4, <2>5, DropRowFinds
<1> QED BY <1>1, ObjectsInductive, PTL DEF Spec, DeleteLeavesNothing

\* A tenant that comes back to a lost registry without asking for an index gets
\* the one its zone carries: nobody else was given it meanwhile, and the claims
\* the create read still name it.
THEOREM TenantsComeBack == ASSUME ~Overlap PROVE Spec => ComesBackToItsIndex
<1>1. ObjectsInv /\ [Next]_vars =>
        [\A t \in Tenants :
            (/\ ~Present(t) /\ Present(t)' /\ zoneVNI[t] # 0
             /\ \A r \in InFlight : req[r].tenant = t => req[r].asked = 0)
            => VRFVNI(row'[t].index) = zoneVNI[t]]_vars
  <2> SUFFICES ASSUME ObjectsInv, [Next]_vars, NEW t \in Tenants,
                      ~Present(t), Present(t)', zoneVNI[t] # 0,
                      \A r \in InFlight : req[r].tenant = t => req[r].asked = 0
               PROVE  VRFVNI(row'[t].index) = zoneVNI[t]
    OBVIOUS
  <2>1. row'[t] # row[t]
    BY DEF Present
  <2>2. ~LoseRegistry
    BY DEF LoseRegistry, Present, NoRow
  <2>3. ASSUME NEW r \in Requests, DropRow(r) \/ EnsureDemote(r) \/ EnsureDone(r) \/ DeleteMark(r)
        PROVE  FALSE
    BY <2>1, <2>3, DropRowSteps, StatusSteps DEF Present, NoRow
  <2>4. PICK r \in Requests : Insert(r)
    BY <2>1, <2>2, <2>3, RowSteps
  <2>5. t = req[r].tenant /\ r \in InFlight
    BY <2>1, <2>4, InsertSteps DEF Insert, At, InFlight
  <2> QED BY <2>1, <2>4, <2>5, InsertGivesBack
<1> QED BY <1>1, ObjectsInductive, PTL DEF Spec, ComesBackToItsIndex
=============================================================================
