---------------------------- MODULE FabricProofs ----------------------------
(***************************************************************************)
(* The network step, proved for any number of tenants and of failed         *)
(* requests: one call at a time always; and, where no two tenants share a   *)
(* VNet id, saved and running configuration follow the tenant's status.     *)
(***************************************************************************)
EXTENDS Fabric, TLAPS

\* What the code takes for granted and names of eight characters do not give.
DistinctVNets == \A t, u \in Tenants : VNetOf[t] = VNetOf[u] => t = u

-----------------------------------------------------------------------------
(* The inductive invariant.  The status says what is saved only together     *)
(* with how far a call has come, and what runs only together with whether    *)
(* the call has changed anything.                                            *)

\* Where the call stands, what it is for, and the status that goes with it.
CallOK(t) ==
    /\ call[t].op = "none" <=> At(t, "idle")
    /\ call[t].pc \in EnsurePoints => call[t].op = "ensure"
    /\ call[t].pc \in RemovePoints => call[t].op = "remove"
    /\ call[t].op = "ensure" => status[t] \in {"provisioning", "ready"}
    /\ call[t].op = "remove" => status[t] = "deleting"
    /\ call[t].pc \in {"idle", "lock", "zone", "delSubnets"} => ~call[t].changed

\* A VNet id is only ever used by its tenant.
OwnVNet(t) ==
    /\ saved.vnets[VNetOf[t]] \in {None, t}
    /\ saved.subnets[VNetOf[t]] \subseteq {t}

\* What is saved, by the status and by how far the call has come.
Progress(t) ==
    LET v == VNetOf[t]
    IN  /\ status[t] = "ready" => Whole(saved, t)
        /\ status[t] = "absent" => Nothing(saved, t)
        /\ call[t].pc \in {"vnet", "subnet"} => t \in saved.zones
        /\ At(t, "subnet") => saved.vnets[v] = t
        /\ At(t, "delVNet") /\ call[t].changed => saved.subnets[v] = {}
        /\ At(t, "delZone") => saved.subnets[v] = {} /\ saved.vnets[v] = None
        /\ At(t, "apply") /\ call[t].op = "ensure" => Whole(saved, t)
        /\ At(t, "apply") /\ call[t].op = "remove" => Nothing(saved, t)

\* A network saved whole, or gone whole, runs like that, unless the call at
\* work has yet to apply it or an earlier one failed to.
Carried(t) ==
    t \notin missed /\ ~call[t].changed =>
        /\ Whole(saved, t) => Whole(running, t)
        /\ Nothing(saved, t) => Nothing(running, t)

PartInv(t) == CallOK(t) /\ OwnVNet(t) /\ Progress(t) /\ Carried(t)

LockInv == TypeOK /\ Serialised

FabricInv == LockInv /\ \A t \in Tenants : PartInv(t)

-----------------------------------------------------------------------------
(* What one request writes.                                                  *)

Writing == EnsurePoints \cup RemovePoints

LEMMA WritingPoints ==
    /\ Writing = Held \ {"apply"}
    /\ Writing = {"zone", "vnet", "subnet", "delSubnets", "delVNet", "delZone"}
BY DEF Writing, Held, EnsurePoints, RemovePoints

\* A write leaves a configuration behind, and another tenant's objects alone.
LEMMA WrittenType ==
    ASSUME TypeOK, NEW t \in Tenants
    PROVE  Written(t) \in Configs
<1>1. VNetOf[t] \in VNets
  BY DEF VNets
<1> QED BY <1>1 DEF Written, TypeOK, Configs

LEMMA AfterPoints ==
    /\ After["zone"] = "vnet" /\ After["vnet"] = "subnet" /\ After["subnet"] = "apply"
    /\ After["delSubnets"] = "delVNet" /\ After["delVNet"] = "delZone"
    /\ After["delZone"] = "apply"
BY DEF After

\* c and d agree on the objects of u.
SameFor(c, d, u) ==
    /\ u \in c.zones <=> u \in d.zones
    /\ c.vnets[VNetOf[u]] = d.vnets[VNetOf[u]]
    /\ c.subnets[VNetOf[u]] = d.subnets[VNetOf[u]]

LEMMA WriteIsOwn ==
    ASSUME DistinctVNets, TypeOK, NEW t \in Tenants, NEW u \in Tenants \ {t}
    PROVE  SameFor(Written(t), saved, u)
<1>1. VNetOf[t] \in VNets /\ VNetOf[u] \in VNets /\ VNetOf[u] # VNetOf[t]
  BY DEF VNets, DistinctVNets
<1>2. saved.vnets \in [VNets -> Tenants \cup {None}] /\ saved.subnets \in [VNets -> SUBSET Tenants]
  BY DEF TypeOK, Configs
<1> QED BY <1>1, <1>2 DEF SameFor, Written

-----------------------------------------------------------------------------
(* The mutex: type correctness and serialisation, whatever the VNet ids.     *)

CallType == [pc : Held \cup {"idle", "lock"}, op : {"none", "ensure", "remove"},
             changed : BOOLEAN]

LEMMA PointSets ==
    /\ "idle" \notin Held /\ "lock" \notin Held /\ "apply" \in Held
    /\ "zone" \in Held /\ "delSubnets" \in Held
    /\ NoCall \in CallType
    /\ \A p \in Writing : After[p] \in Held
BY WritingPoints, AfterPoints DEF Held, EnsurePoints, RemovePoints, NoCall, CallType

\* A call that holds the mutex returns.
LEMMA ReturnLock ==
    ASSUME LockInv, NEW t \in Tenants, call[t].pc \in Held,
           NEW s \in {"absent", "provisioning", "ready", "deleting"}, Return(t, s),
           saved' \in Configs, running' \in Configs, missed' \subseteq Tenants,
           faults' \in 0 .. MaxFaults
    PROVE  LockInv'
<1>1. sdn = t /\ \A u \in Tenants \ {t} : call[u].pc \notin Held
  BY DEF LockInv, Serialised
<1>2. call \in [Tenants -> CallType]
  BY DEF LockInv, TypeOK, CallType
<1>3. call' \in [Tenants -> CallType] /\ call'[t] = NoCall /\ \A u \in Tenants \ {t} : call'[u] = call[u]
  BY <1>2, PointSets DEF Return
<1>4. TypeOK'
  BY <1>3 DEF Return, LockInv, TypeOK, CallType
<1>5. Serialised'
  <2>1. \A u \in Tenants : call'[u].pc \notin Held
    BY <1>1, <1>3, PointSets DEF NoCall
  <2>2. \A u \in Tenants : sdn' # u
    BY FabricAssumption DEF Return
  <2> QED BY <2>1, <2>2 DEF Serialised
<1> QED BY <1>4, <1>5 DEF LockInv

\* A call goes from one of the points under the mutex to another.
LEMMA AdvanceLock ==
    ASSUME LockInv, NEW t \in Tenants, call[t].pc \in Held,
           NEW c \in CallType, c.pc \in Held, call' = [call EXCEPT ![t] = c],
           saved' \in Configs, faults' \in 0 .. MaxFaults,
           UNCHANGED <<running, status, sdn, missed>>
    PROVE  LockInv'
<1>1. call \in [Tenants -> CallType]
  BY DEF LockInv, TypeOK, CallType
<1>2. call' \in [Tenants -> CallType] /\ call'[t] = c /\ \A u \in Tenants \ {t} : call'[u] = call[u]
  BY <1>1
<1>3. TypeOK'
  BY <1>2 DEF LockInv, TypeOK, CallType
<1>4. Serialised'
  BY <1>2 DEF LockInv, Serialised
<1> QED BY <1>3, <1>4 DEF LockInv

\* A call begins.
LEMMA BeginLock ==
    ASSUME LockInv, NEW t \in Tenants, At(t, "idle"), NEW op \in {"ensure", "remove"},
           call' = [call EXCEPT ![t] = [NoCall EXCEPT !.pc = "lock", !.op = op]],
           status' \in [Tenants -> {"absent", "provisioning", "ready", "deleting"}],
           UNCHANGED <<saved, running, sdn, missed, faults>>
    PROVE  LockInv'
<1>1. call \in [Tenants -> CallType]
  BY DEF LockInv, TypeOK, CallType
<1>2. [NoCall EXCEPT !.pc = "lock", !.op = op] \in CallType
  BY DEF NoCall, CallType
<1>3. /\ call' \in [Tenants -> CallType] /\ call'[t].pc = "lock"
      /\ \A u \in Tenants \ {t} : call'[u] = call[u]
  BY <1>1, <1>2 DEF NoCall
<1>4. TypeOK'
  BY <1>3 DEF LockInv, TypeOK, CallType
<1>5. Serialised'
  BY <1>3, PointSets DEF LockInv, Serialised, At
<1> QED BY <1>4, <1>5 DEF LockInv

LEMMA LockLock ==
    ASSUME LockInv, NEW t \in Tenants, Lock(t)
    PROVE  LockInv'
<1>1. call \in [Tenants -> CallType]
  BY DEF LockInv, TypeOK, CallType
<1> DEFINE p == IF call[t].op = "ensure" THEN "zone" ELSE "delSubnets"
<1>2. p \in Held
  BY PointSets
<1>3. /\ call' \in [Tenants -> CallType] /\ call'[t].pc = p
      /\ \A u \in Tenants \ {t} : call'[u] = call[u]
  BY <1>1, <1>2 DEF Lock, CallType
<1>4. TypeOK'
  BY <1>3 DEF Lock, LockInv, TypeOK, CallType
<1>5. Serialised'
  <2>1. \A u \in Tenants : call[u].pc \notin Held
    BY FabricAssumption DEF Lock, LockInv, Serialised
  <2> QED BY <1>2, <1>3, <2>1 DEF Lock, Serialised
<1> QED BY <1>4, <1>5 DEF LockInv

LEMMA InitLock == Init => LockInv
<1> SUFFICES ASSUME Init PROVE LockInv
  OBVIOUS
<1>1. Empty \in Configs
  BY DEF Empty, Configs
<1>2. TypeOK
  BY <1>1, PointSets, FabricAssumption DEF Init, TypeOK, CallType
<1>3. Serialised
  BY PointSets, FabricAssumption DEF Init, Serialised, NoCall
<1> QED BY <1>2, <1>3 DEF LockInv

LEMMA NextLock == LockInv /\ [Next]_vars => LockInv'
<1> SUFFICES ASSUME LockInv, [Next]_vars PROVE LockInv'
  OBVIOUS
<1>1. CASE UNCHANGED vars
  BY <1>1 DEF vars, LockInv, TypeOK, Serialised
<1>2. ASSUME NEW t \in Tenants, BeginEnsure(t) PROVE LockInv'
  BY <1>2, BeginLock DEF BeginEnsure, LockInv, TypeOK
<1>3. ASSUME NEW t \in Tenants, BeginRemove(t) PROVE LockInv'
  BY <1>3, BeginLock DEF BeginRemove, LockInv, TypeOK
<1>4. ASSUME NEW t \in Tenants, Lock(t) PROVE LockInv'
  BY <1>4, LockLock
<1>5. ASSUME NEW t \in Tenants, Write(t) PROVE LockInv'
  <2>1. call \in [Tenants -> CallType] /\ call[t].pc \in Writing /\ call[t].pc \in Held
    BY <1>5, WritingPoints DEF Write, LockInv, TypeOK, CallType
  <2>2. Written(t) \in Configs
    BY WrittenType DEF LockInv
  <2> DEFINE c == [call[t] EXCEPT !.pc = After[@], !.changed = @ \/ Written(t) # saved]
  <2>3. c \in CallType /\ c.pc \in Held
    BY <2>1, PointSets DEF CallType
  <2>4. call' = [call EXCEPT ![t] = c]
    BY <1>5, <2>1 DEF Write, CallType
  <2>5. faults' \in 0 .. MaxFaults
    BY <1>5 DEF Write, LockInv, TypeOK
  <2> HIDE DEF c
  <2> QED BY <1>5, <2>1, <2>2, <2>3, <2>4, <2>5, AdvanceLock DEF Write
<1>6. ASSUME NEW t \in Tenants, SubnetsUnread(t) PROVE LockInv'
  <2>1. call \in [Tenants -> CallType] /\ call[t].pc \in Held
    BY <1>6, PointSets DEF SubnetsUnread, At, LockInv, TypeOK, CallType
  <2> DEFINE c == [call[t] EXCEPT !.pc = "delVNet"]
  <2>2. c \in CallType /\ c.pc \in Held
    BY <2>1 DEF CallType, Held, RemovePoints
  <2>3. call' = [call EXCEPT ![t] = c]
    BY <1>6, <2>1 DEF SubnetsUnread, CallType
  <2>4. saved' \in Configs /\ faults' \in 0 .. MaxFaults
    BY <1>6, FabricAssumption DEF SubnetsUnread, LockInv, TypeOK
  <2> HIDE DEF c
  <2> QED BY <1>6, <2>1, <2>2, <2>3, <2>4, AdvanceLock DEF SubnetsUnread
<1>7. ASSUME NEW t \in Tenants, Refuse(t) PROVE LockInv'
  <2>1. call[t].pc \in Held
    BY <1>7 DEF Refuse, Refused, Stuck, At, Held, EnsurePoints, RemovePoints
  <2> QED BY <1>7, <2>1, ReturnLock DEF Refuse, Fail, LockInv, TypeOK
<1>8. ASSUME NEW t \in Tenants, WriteFails(t) PROVE LockInv'
  <2>1. call[t].pc \in Held
    BY <1>8 DEF WriteFails
  <2>2. saved' \in Configs /\ running' \in Configs /\ missed' \subseteq Tenants
    BY <1>8, WrittenType DEF WriteFails, LockInv, TypeOK
  <2>3. faults' \in 0 .. MaxFaults
    BY <1>8, FabricAssumption DEF WriteFails, LockInv, TypeOK
  <2>4. \E s \in {"absent", "provisioning", "ready", "deleting"} : Return(t, s)
    BY <1>8 DEF WriteFails, Fail
  <2> QED BY <2>1, <2>2, <2>3, <2>4, ReturnLock
<1>9. ASSUME NEW t \in Tenants, Apply(t) PROVE LockInv'
  <2>1. call[t].pc \in Held
    BY <1>9, PointSets DEF Apply, At
  <2>2. saved' \in Configs /\ running' \in Configs /\ missed' \subseteq Tenants
    BY <1>9 DEF Apply, LockInv, TypeOK
  <2>3. faults' \in 0 .. MaxFaults
    BY <1>9 DEF Apply, LockInv, TypeOK
  <2>4. \E s \in {"absent", "provisioning", "ready", "deleting"} : Return(t, s)
    BY <1>9 DEF Apply, Succeed
  <2> QED BY <2>1, <2>2, <2>3, <2>4, ReturnLock
<1>10. ASSUME NEW t \in Tenants, ApplyFails(t) PROVE LockInv'
  <2>1. call[t].pc \in Held
    BY <1>10, PointSets DEF ApplyFails, At
  <2>2. saved' \in Configs /\ running' \in Configs /\ missed' \subseteq Tenants
    BY <1>10 DEF ApplyFails, LockInv, TypeOK
  <2>3. faults' \in 0 .. MaxFaults
    BY <1>10, FabricAssumption DEF ApplyFails, LockInv, TypeOK
  <2>4. \E s \in {"absent", "provisioning", "ready", "deleting"} : Return(t, s)
    BY <1>10 DEF ApplyFails, Fail
  <2> QED BY <2>1, <2>2, <2>3, <2>4, ReturnLock
<1> QED BY <1>1, <1>2, <1>3, <1>4, <1>5, <1>6, <1>7, <1>8, <1>9, <1>10 DEF Next, Proceed

LEMMA SpecLock == Spec => []LockInv
BY InitLock, NextLock, PTL DEF Spec

\* For every set of tenants and any number of failures: each state of Ensure,
\* Remove and Apply is well typed; no path leaves a status the table lacks.
THEOREM FabricTypeCorrect == Spec => []TypeOK
<1>1. LockInv => TypeOK
  BY DEF LockInv
<1> QED BY SpecLock, <1>1, PTL

\* Every write and every apply is made by the one holder of sdn, on every path
\* of Ensure, Remove and Apply, with shared VNet ids too.
THEOREM CallsSerialised == Spec => []Serialised
<1>1. LockInv => Serialised
  BY DEF LockInv
<1> QED BY SpecLock, <1>1, PTL

-----------------------------------------------------------------------------
(* What is saved and what runs, tenant by tenant.                            *)

\* A step of another tenant's call: it leaves u's objects alone, and at most
\* applies what is saved.
LEMMA OtherTenant ==
    ASSUME NEW u \in Tenants, PartInv(u), call'[u] = call[u], status'[u] = status[u],
           SameFor(saved', saved, u),
           \/ running' = running /\ (u \in missed => u \in missed')
           \/ running' = saved /\ saved' = saved
    PROVE  PartInv(u)'
<1>1. CallOK(u)'
  BY DEF PartInv, CallOK, At
<1>2. OwnVNet(u)'
  BY DEF PartInv, OwnVNet, SameFor
<1>3. (Whole(saved, u))' <=> Whole(saved, u)
  BY DEF Whole, SameFor
<1>4. (Nothing(saved, u))' <=> Nothing(saved, u)
  BY DEF Nothing, SameFor
<1>5. Progress(u)'
  BY <1>3, <1>4 DEF PartInv, Progress, At, SameFor
<1>6. Carried(u)'
  <2>1. CASE running' = running /\ (u \in missed => u \in missed')
    BY <1>3, <1>4, <2>1 DEF PartInv, Carried, Whole, Nothing
  <2>2. CASE running' = saved /\ saved' = saved
    BY <2>2 DEF Carried, Whole, Nothing
  <2> QED BY <2>1, <2>2
<1> QED BY <1>1, <1>2, <1>5, <1>6 DEF PartInv

\* A call that returns leaves an idle tenant, whose status must be true of what
\* is saved, and what is saved must run unless the tenant is missed.
LEMMA ReturnPart ==
    ASSUME LockInv, NEW t \in Tenants, NEW s, Return(t, s),
           OwnVNet(t)',
           s = "ready" => (Whole(saved, t))', s = "absent" => (Nothing(saved, t))',
           t \notin missed' => /\ (Whole(saved, t))' => (Whole(running, t))'
                               /\ (Nothing(saved, t))' => (Nothing(running, t))'
    PROVE  PartInv(t)'
<1>1. call'[t] = NoCall /\ status'[t] = s
  BY DEF Return, LockInv, TypeOK
<1>2. CallOK(t)'
  BY <1>1 DEF CallOK, At, NoCall, EnsurePoints, RemovePoints
<1>3. Progress(t)'
  BY <1>1 DEF Progress, At, NoCall
<1>4. Carried(t)'
  BY <1>1 DEF Carried, NoCall
<1> QED BY <1>2, <1>3, <1>4 DEF PartInv

\* The tenant's own step, when it begins a call or waits for the mutex.
LEMMA BeginPart ==
    ASSUME LockInv, NEW t \in Tenants, PartInv(t),
           BeginEnsure(t) \/ BeginRemove(t) \/ Lock(t)
    PROVE  PartInv(t)'
<1> USE DEF LockInv, TypeOK
<1>1. saved' = saved /\ running' = running /\ missed' = missed
  BY DEF BeginEnsure, BeginRemove, Lock
<1>2. OwnVNet(t)'
  BY <1>1 DEF PartInv, OwnVNet
<1>3. ~call[t].changed /\ ~call'[t].changed
  <2>1. ~call[t].changed
    BY DEF BeginEnsure, BeginRemove, Lock, PartInv, CallOK, At
  <2>2. CASE BeginEnsure(t) \/ BeginRemove(t)
    <3>1. \A op : ~[NoCall EXCEPT !.pc = "lock", !.op = op].changed
      BY DEF NoCall
    <3>2. PICK op : call' = [call EXCEPT ![t] = [NoCall EXCEPT !.pc = "lock", !.op = op]]
      BY <2>2 DEF BeginEnsure, BeginRemove
    <3>3. call'[t] = [NoCall EXCEPT !.pc = "lock", !.op = op]
      BY <3>2
    <3> QED BY <2>1, <3>1, <3>3
  <2>3. CASE Lock(t)
    BY <2>1, <2>3 DEF Lock
  <2> QED BY <2>2, <2>3
<1>4. Carried(t)'
  BY <1>1, <1>3 DEF PartInv, Carried, Whole, Nothing
<1>5. CASE BeginEnsure(t)
  <2>1. /\ call'[t].pc = "lock" /\ call'[t].op = "ensure"
        /\ status'[t] \in {"provisioning", "ready"} /\ (status'[t] = "ready" => status[t] = "ready")
    BY <1>5 DEF BeginEnsure, NoCall
  <2>2. CallOK(t)'
    BY <1>3, <2>1 DEF CallOK, At, EnsurePoints, RemovePoints
  <2>3. Progress(t)'
    BY <1>1, <2>1 DEF PartInv, Progress, At, Whole, Nothing
  <2> QED BY <1>2, <1>4, <2>2, <2>3 DEF PartInv
<1>6. CASE BeginRemove(t)
  <2>1. call'[t].pc = "lock" /\ call'[t].op = "remove" /\ status'[t] = "deleting"
    BY <1>6 DEF BeginRemove, NoCall
  <2>2. CallOK(t)'
    BY <1>3, <2>1 DEF CallOK, At, EnsurePoints, RemovePoints
  <2>3. Progress(t)'
    BY <1>1, <2>1 DEF PartInv, Progress, At, Whole, Nothing
  <2> QED BY <1>2, <1>4, <2>2, <2>3 DEF PartInv
<1>7. CASE Lock(t)
  <2>1. /\ call[t].op \in {"ensure", "remove"} /\ call'[t].op = call[t].op
        /\ call'[t].pc = IF call[t].op = "ensure" THEN "zone" ELSE "delSubnets"
        /\ status'[t] = status[t]
    BY <1>7 DEF Lock, PartInv, CallOK, At
  <2>2. CallOK(t)'
    BY <1>3, <2>1 DEF PartInv, CallOK, At, EnsurePoints, RemovePoints
  <2>3. Progress(t)'
    BY <1>1, <2>1 DEF PartInv, Progress, At, Whole, Nothing
  <2> QED BY <1>2, <1>4, <2>2, <2>3 DEF PartInv
<1> QED BY <1>5, <1>6, <1>7

\* What a request of t's call does to t's own objects.
LEMMA WriteFacts ==
    ASSUME LockInv, NEW t \in Tenants
    PROVE  LET w == Written(t)
               v == VNetOf[t]
           IN  /\ t \in w.zones <=> At(t, "zone") \/ (~At(t, "delZone") /\ t \in saved.zones)
               /\ w.vnets[v] = IF At(t, "vnet") THEN t
                               ELSE IF At(t, "delVNet") THEN None ELSE saved.vnets[v]
               /\ w.subnets[v] = IF At(t, "subnet") THEN saved.subnets[v] \cup {t}
                                 ELSE IF At(t, "delSubnets") THEN {} ELSE saved.subnets[v]
<1>1. VNetOf[t] \in VNets
  BY DEF VNets
<1>2. saved.vnets \in [VNets -> Tenants \cup {None}] /\ saved.subnets \in [VNets -> SUBSET Tenants]
  BY DEF LockInv, TypeOK, Configs
<1>3. ~(At(t, "zone") /\ At(t, "delZone"))
  BY DEF At
<1> QED BY <1>1, <1>2, <1>3 DEF Written

LEMMA WriteOwnVNet ==
    ASSUME LockInv, NEW t \in Tenants, OwnVNet(t)
    PROVE  /\ Written(t).vnets[VNetOf[t]] \in {None, t}
           /\ Written(t).subnets[VNetOf[t]] \subseteq {t}
BY WriteFacts DEF OwnVNet

\* Ensure never takes an object away, so a ready tenant stays whole.
LEMMA EnsureKeepsWhole ==
    ASSUME LockInv, NEW t \in Tenants, call[t].pc \in EnsurePoints, Whole(saved, t)
    PROVE  Whole(Written(t), t)
<1>1. ~At(t, "delZone") /\ ~At(t, "delVNet") /\ ~At(t, "delSubnets")
  BY DEF At, EnsurePoints
<1> QED BY <1>1, WriteFacts DEF Whole

LEMMA WritePart ==
    ASSUME LockInv, NEW t \in Tenants, PartInv(t), Write(t)
    PROVE  PartInv(t)'
<1> DEFINE w == Written(t)
           v == VNetOf[t]
<1>1. call[t].pc \in Writing
  BY WritingPoints DEF Write
<1>2. /\ saved' = w /\ running' = running /\ missed' = missed /\ status'[t] = status[t]
      /\ call'[t].pc = After[call[t].pc] /\ call'[t].op = call[t].op
      /\ call'[t].changed = (call[t].changed \/ w # saved)
  BY DEF Write, LockInv, TypeOK
<1> HIDE DEF w
<1>3. OwnVNet(t)'
  BY <1>2, WriteOwnVNet DEF OwnVNet, PartInv, w
<1>4. Carried(t)'
  BY <1>2 DEF PartInv, Carried
<1>5. call[t].op \in {"ensure", "remove"} /\ status[t] # "absent"
  BY <1>1 DEF PartInv, CallOK, Writing, At
<1>6. status[t] = "ready" => Whole(w, t)
  <2>1. status[t] = "ready" => call[t].pc \in EnsurePoints /\ Whole(saved, t)
    BY <1>1 DEF PartInv, CallOK, Progress, Writing
  <2> QED BY <2>1, EnsureKeepsWhole DEF w
<1>7. CASE At(t, "zone")
  <2>1. call'[t].pc = "vnet" /\ call[t].op = "ensure"
    BY <1>2, <1>7, AfterPoints DEF At, PartInv, CallOK, EnsurePoints
  <2>2. t \in w.zones
    BY <1>7, WriteFacts DEF w
  <2>3. CallOK(t)'
    BY <1>2, <2>1 DEF PartInv, CallOK, At, EnsurePoints, RemovePoints
  <2>4. Progress(t)'
    BY <1>2, <1>5, <1>6, <2>1, <2>2 DEF Progress, At
  <2> QED BY <1>3, <1>4, <2>3, <2>4 DEF PartInv
<1>8. CASE At(t, "vnet")
  <2>1. call'[t].pc = "subnet" /\ call[t].op = "ensure"
    BY <1>2, <1>8, AfterPoints DEF At, PartInv, CallOK, EnsurePoints
  <2>2. t \in w.zones /\ w.vnets[v] = t
    BY <1>8, WriteFacts DEF w, At, PartInv, Progress
  <2>3. CallOK(t)'
    BY <1>2, <2>1 DEF PartInv, CallOK, At, EnsurePoints, RemovePoints
  <2>4. Progress(t)'
    BY <1>2, <1>5, <1>6, <2>1, <2>2 DEF Progress, At
  <2> QED BY <1>3, <1>4, <2>3, <2>4 DEF PartInv
<1>9. CASE At(t, "subnet")
  <2>1. call'[t].pc = "apply" /\ call[t].op = "ensure"
    BY <1>2, <1>9, AfterPoints DEF At, PartInv, CallOK, EnsurePoints
  <2>2. Whole(w, t)
    BY <1>9, WriteFacts DEF w, At, PartInv, Progress, Whole
  <2>3. CallOK(t)'
    BY <1>2, <2>1 DEF PartInv, CallOK, At, EnsurePoints, RemovePoints
  <2>4. Progress(t)'
    BY <1>2, <1>5, <1>6, <2>1, <2>2 DEF Progress, At
  <2> QED BY <1>3, <1>4, <2>3, <2>4 DEF PartInv
<1>10. CASE At(t, "delSubnets")
  <2>1. call'[t].pc = "delVNet" /\ call[t].op = "remove"
    BY <1>2, <1>10, AfterPoints DEF At, PartInv, CallOK, RemovePoints
  <2>2. w.subnets[v] = {}
    BY <1>10, WriteFacts DEF w, At
  <2>3. CallOK(t)'
    BY <1>2, <2>1 DEF PartInv, CallOK, At, EnsurePoints, RemovePoints
  <2>4. Progress(t)'
    BY <1>2, <1>5, <1>6, <2>1, <2>2 DEF Progress, At
  <2> QED BY <1>3, <1>4, <2>3, <2>4 DEF PartInv
<1>11. CASE At(t, "delVNet")
  <2>1. call'[t].pc = "delZone" /\ call[t].op = "remove"
    BY <1>2, <1>11, AfterPoints DEF At, PartInv, CallOK, RemovePoints
  <2>2. w.subnets[v] = {} /\ w.vnets[v] = None
    BY <1>11, WriteFacts DEF w, At, Write, Stuck
  <2>3. CallOK(t)'
    BY <1>2, <2>1 DEF PartInv, CallOK, At, EnsurePoints, RemovePoints
  <2>4. Progress(t)'
    BY <1>2, <1>5, <1>6, <2>1, <2>2 DEF Progress, At
  <2> QED BY <1>3, <1>4, <2>3, <2>4 DEF PartInv
<1>12. CASE At(t, "delZone")
  <2>1. call'[t].pc = "apply" /\ call[t].op = "remove"
    BY <1>2, <1>12, AfterPoints DEF At, PartInv, CallOK, RemovePoints
  <2>2. Nothing(w, t)
    BY <1>12, WriteFacts, FabricAssumption DEF w, At, PartInv, Progress, Nothing
  <2>3. CallOK(t)'
    BY <1>2, <2>1 DEF PartInv, CallOK, At, EnsurePoints, RemovePoints
  <2>4. Progress(t)'
    BY <1>2, <1>5, <1>6, <2>1, <2>2 DEF Progress, At
  <2> QED BY <1>3, <1>4, <2>3, <2>4 DEF PartInv
<1> QED BY <1>1, <1>7, <1>8, <1>9, <1>10, <1>11, <1>12, WritingPoints DEF At

\* Remove goes on without its subnets having been read: nothing has changed.
LEMMA SubnetsUnreadPart ==
    ASSUME LockInv, NEW t \in Tenants, PartInv(t), SubnetsUnread(t)
    PROVE  PartInv(t)'
<1>1. /\ saved' = saved /\ running' = running /\ missed' = missed /\ status'[t] = status[t]
      /\ call'[t].pc = "delVNet" /\ call'[t].op = call[t].op
      /\ call'[t].changed = call[t].changed
  BY DEF SubnetsUnread, LockInv, TypeOK
<1>2. call[t].op = "remove" /\ ~call[t].changed /\ status[t] = "deleting"
  BY DEF SubnetsUnread, PartInv, CallOK, At, RemovePoints
<1>3. CallOK(t)'
  BY <1>1, <1>2 DEF CallOK, At, EnsurePoints, RemovePoints
<1>4. OwnVNet(t)'
  BY <1>1 DEF PartInv, OwnVNet
<1>5. Progress(t)'
  BY <1>1, <1>2 DEF Progress, At
<1>6. Carried(t)'
  BY <1>1 DEF PartInv, Carried, Whole, Nothing
<1> QED BY <1>3, <1>4, <1>5, <1>6 DEF PartInv

\* A refused call has changed nothing that would have to be applied.
LEMMA RefusePart ==
    ASSUME LockInv, \A u \in Tenants : PartInv(u), NEW t \in Tenants, Refuse(t)
    PROVE  PartInv(t)'
<1>1. /\ saved' = saved /\ running' = running /\ missed' = missed
      /\ \E s \in {"provisioning", "deleting"} : Return(t, s)
  BY DEF Refuse, Fail
<1>2. ~Refused(t)
  BY DEF Refused, PartInv, OwnVNet
<1>3. ~(At(t, "delZone") /\ \E v \in VNets : saved.vnets[v] = t)
  <2> SUFFICES ASSUME At(t, "delZone"), NEW u \in Tenants, saved.vnets[VNetOf[u]] = t
               PROVE  FALSE
    BY DEF VNets
  <2>1. u = t
    BY FabricAssumption DEF PartInv, OwnVNet
  <2> QED BY <2>1, FabricAssumption DEF PartInv, Progress
<1>4. ~call[t].changed
  BY <1>2, <1>3 DEF Refuse, Stuck, PartInv, Progress
<1>5. OwnVNet(t)'
  BY <1>1 DEF PartInv, OwnVNet
<1>6. t \notin missed' => ((Whole(saved, t))' => (Whole(running, t))')
                          /\ ((Nothing(saved, t))' => (Nothing(running, t))')
  BY <1>1, <1>4 DEF PartInv, Carried, Whole, Nothing
<1> QED BY <1>1, <1>5, <1>6, ReturnPart

\* A request that fails, its write landed or not, leaves the tenant half made
\* or half gone, or missed, or as it was before the call.
LEMMA WriteFailsPart ==
    ASSUME LockInv, NEW t \in Tenants, PartInv(t), WriteFails(t)
    PROVE  PartInv(t)'
<1> DEFINE w == Written(t)
           v == VNetOf[t]
<1>1. /\ saved' \in {saved, w} /\ running' = running /\ call[t].pc \in Writing /\ ~Stuck(t)
      /\ \E s \in {"provisioning", "deleting"} : Return(t, s)
  BY WritingPoints DEF WriteFails, Fail
<1>2. t \notin missed' => /\ t \notin missed
                          /\ call[t].op = "ensure" /\ Whole(saved', t) => saved' = running
                          /\ call[t].op # "ensure" /\ Nothing(saved', t) => saved' = running
  BY DEF WriteFails
<1> HIDE DEF w
<1>3. OwnVNet(t)'
  BY <1>1, WriteOwnVNet DEF PartInv, OwnVNet, w
<1>4. CASE call[t].pc \in EnsurePoints
  <2>1. call[t].op = "ensure"
    BY <1>4 DEF PartInv, CallOK
  <2>2. Nothing(saved', t) => saved' = saved /\ ~call[t].changed
    <3>1. CASE At(t, "zone")
      BY <1>1, <3>1, WriteFacts DEF Nothing, PartInv, CallOK, At, w
    <3>2. CASE call[t].pc \in {"vnet", "subnet"}
      BY <1>1, <3>2, WriteFacts DEF Nothing, PartInv, Progress, At, w
    <3> QED BY <1>4, <3>1, <3>2 DEF EnsurePoints, At
  <2>3. t \notin missed' => (Whole(saved', t) => Whole(running, t))
                            /\ (Nothing(saved', t) => Nothing(running, t))
    BY <1>2, <2>1, <2>2 DEF PartInv, Carried
  <2> QED BY <1>1, <1>3, <2>3, ReturnPart DEF Whole, Nothing
<1>5. CASE call[t].pc \in RemovePoints
  <2>1. call[t].op = "remove"
    BY <1>5 DEF PartInv, CallOK
  <2>2. Whole(saved', t) => saved' = saved /\ ~call[t].changed
    <3>1. CASE At(t, "delSubnets")
      BY <1>1, <3>1, WriteFacts DEF Whole, PartInv, CallOK, At, w
    <3>2. CASE At(t, "delVNet")
      BY <1>1, <3>2, WriteFacts DEF Whole, Stuck, At, w
    <3>3. CASE At(t, "delZone")
      BY <1>1, <3>3, WriteFacts DEF Whole, PartInv, Progress, At, w
    <3> QED BY <1>5, <3>1, <3>2, <3>3 DEF RemovePoints, At
  <2>3. t \notin missed' => (Whole(saved', t) => Whole(running, t))
                            /\ (Nothing(saved', t) => Nothing(running, t))
    BY <1>2, <2>1, <2>2 DEF PartInv, Carried
  <2> QED BY <1>1, <1>3, <2>3, ReturnPart DEF Whole, Nothing
<1> QED BY <1>1, <1>4, <1>5 DEF Writing

\* An apply, and one that fails with or without the cluster having taken it.
LEMMA ApplyPart ==
    ASSUME LockInv, NEW t \in Tenants, PartInv(t), Apply(t) \/ ApplyFails(t)
    PROVE  PartInv(t)'
<1>1. saved' = saved
  BY DEF Apply, ApplyFails
<1>2. OwnVNet(t)'
  BY <1>1 DEF PartInv, OwnVNet
<1>3. t \notin missed' => (Whole(saved, t) => Whole(running', t))
                          /\ (Nothing(saved, t) => Nothing(running', t))
  <2>1. CASE running' = saved
    BY <2>1
  <2>2. CASE running' = running /\ (t \in missed' \/ (missed' = missed /\ ~call[t].changed))
    BY <2>2 DEF PartInv, Carried
  <2> QED BY <2>1, <2>2 DEF Apply, ApplyFails
<1>4. \E s : /\ Return(t, s)
             /\ s = "ready" => Whole(saved, t)
             /\ s = "absent" => Nothing(saved, t)
  <2>1. CASE Apply(t)
    <3>1. call[t].op \in {"ensure", "remove"} /\ At(t, "apply")
      BY <2>1 DEF Apply, LockInv, TypeOK, PartInv, CallOK, At
    <3> QED BY <2>1, <3>1 DEF Apply, Succeed, PartInv, Progress
  <2>2. CASE ApplyFails(t)
    BY <2>2 DEF ApplyFails, Fail
  <2> QED BY <2>1, <2>2
<1> QED BY <1>1, <1>2, <1>3, <1>4, ReturnPart DEF Whole, Nothing

-----------------------------------------------------------------------------
(* Putting it together.                                                      *)

\* The steps of t's call that return leave u's call and status alone.
LEMMA ReturnIsOwn ==
    ASSUME LockInv, NEW t \in Tenants, NEW u \in Tenants \ {t}, NEW s, Return(t, s)
    PROVE  call'[u] = call[u] /\ status'[u] = status[u]
BY DEF Return, LockInv, TypeOK

LEMMA InitPart == ASSUME Init, NEW t \in Tenants PROVE PartInv(t)
<1>1. VNetOf[t] \in VNets
  BY DEF VNets
<1>2. Nothing(saved, t) /\ ~Whole(saved, t) /\ OwnVNet(t) /\ running = saved
  BY <1>1, FabricAssumption DEF Init, Empty, Nothing, Whole, OwnVNet
<1>3. call[t] = NoCall /\ status[t] = "absent"
  BY DEF Init
<1>4. CallOK(t)
  BY <1>3 DEF CallOK, At, NoCall, EnsurePoints, RemovePoints
<1>5. Progress(t)
  BY <1>2, <1>3 DEF Progress, At, NoCall
<1>6. Carried(t)
  BY <1>2 DEF Carried
<1> QED BY <1>2, <1>4, <1>5, <1>6 DEF PartInv

LEMMA NextPart ==
    ASSUME DistinctVNets, FabricInv, Next
    PROVE  \A u \in Tenants : PartInv(u)'
<1> SUFFICES ASSUME NEW u \in Tenants PROVE PartInv(u)'
  OBVIOUS
<1>1. LockInv /\ TypeOK /\ PartInv(u) /\ \A t \in Tenants : PartInv(t)
  BY DEF FabricInv, LockInv
<1>2. SameFor(saved, saved, u)
  BY DEF SameFor
<1>3. ASSUME NEW t \in Tenants, BeginEnsure(t) \/ BeginRemove(t) \/ Lock(t) PROVE PartInv(u)'
  <2>1. CASE u = t
    BY <1>1, <1>3, <2>1, BeginPart
  <2>2. CASE u # t
    <3>1. call'[u] = call[u] /\ status'[u] = status[u] /\ saved' = saved
            /\ running' = running /\ missed' = missed
      BY <1>1, <1>3, <2>2 DEF BeginEnsure, BeginRemove, Lock, TypeOK
    <3> QED BY <1>1, <1>2, <3>1, OtherTenant
  <2> QED BY <2>1, <2>2
<1>4. ASSUME NEW t \in Tenants, Write(t) PROVE PartInv(u)'
  <2>1. CASE u = t
    BY <1>1, <1>4, <2>1, WritePart
  <2>2. CASE u # t
    <3>1. call'[u] = call[u] /\ status'[u] = status[u] /\ saved' = Written(t)
            /\ running' = running /\ missed' = missed
      BY <1>1, <1>4, <2>2 DEF Write, TypeOK
    <3>2. SameFor(saved', saved, u)
      BY <1>1, <2>2, <3>1, WriteIsOwn
    <3> QED BY <1>1, <3>1, <3>2, OtherTenant
  <2> QED BY <2>1, <2>2
<1>5. ASSUME NEW t \in Tenants, SubnetsUnread(t) PROVE PartInv(u)'
  <2>1. CASE u = t
    BY <1>1, <1>5, <2>1, SubnetsUnreadPart
  <2>2. CASE u # t
    <3>1. call'[u] = call[u] /\ status'[u] = status[u] /\ saved' = saved
            /\ running' = running /\ missed' = missed
      BY <1>1, <1>5, <2>2 DEF SubnetsUnread, TypeOK
    <3> QED BY <1>1, <1>2, <3>1, OtherTenant
  <2> QED BY <2>1, <2>2
<1>6. ASSUME NEW t \in Tenants, Refuse(t) PROVE PartInv(u)'
  <2>1. CASE u = t
    BY <1>1, <1>6, <2>1, RefusePart
  <2>2. CASE u # t
    <3>1. saved' = saved /\ running' = running /\ missed' = missed /\ \E s : Return(t, s)
      BY <1>6 DEF Refuse, Fail
    <3>2. call'[u] = call[u] /\ status'[u] = status[u]
      BY <1>1, <2>2, <3>1, ReturnIsOwn
    <3> QED BY <1>1, <1>2, <3>1, <3>2, OtherTenant
  <2> QED BY <2>1, <2>2
<1>7. ASSUME NEW t \in Tenants, WriteFails(t) PROVE PartInv(u)'
  <2>1. CASE u = t
    BY <1>1, <1>7, <2>1, WriteFailsPart
  <2>2. CASE u # t
    <3>1. saved' \in {saved, Written(t)} /\ running' = running
            /\ (u \in missed => u \in missed') /\ \E s : Return(t, s)
      BY <1>7 DEF WriteFails, Fail
    <3>2. call'[u] = call[u] /\ status'[u] = status[u]
      BY <1>1, <2>2, <3>1, ReturnIsOwn
    <3>3. SameFor(saved', saved, u)
      BY <1>1, <1>2, <2>2, <3>1, WriteIsOwn
    <3> QED BY <1>1, <3>1, <3>2, <3>3, OtherTenant
  <2> QED BY <2>1, <2>2
<1>8. ASSUME NEW t \in Tenants, Apply(t) \/ ApplyFails(t) PROVE PartInv(u)'
  <2>1. CASE u = t
    BY <1>1, <1>8, <2>1, ApplyPart
  <2>2. CASE u # t
    <3>1. /\ saved' = saved /\ \E s : Return(t, s)
          /\ running' = saved \/ (running' = running /\ (u \in missed => u \in missed'))
      BY <1>8 DEF Apply, ApplyFails, Succeed, Fail
    <3>2. call'[u] = call[u] /\ status'[u] = status[u]
      BY <1>1, <2>2, <3>1, ReturnIsOwn
    <3> QED BY <1>1, <1>2, <3>1, <3>2, OtherTenant
  <2> QED BY <2>1, <2>2
<1> QED BY <1>3, <1>4, <1>5, <1>6, <1>7, <1>8 DEF Next, Proceed

LEMMA StutterPart == ASSUME FabricInv, UNCHANGED vars PROVE \A u \in Tenants : PartInv(u)'
<1> SUFFICES ASSUME NEW u \in Tenants PROVE PartInv(u)'
  OBVIOUS
<1>1. call'[u] = call[u] /\ status'[u] = status[u] /\ SameFor(saved', saved, u)
        /\ running' = running /\ missed' = missed
  BY DEF vars, SameFor
<1> QED BY <1>1, OtherTenant DEF FabricInv

LEMMA SpecFabric == ASSUME DistinctVNets PROVE Spec => []FabricInv
<1>1. Init => FabricInv
  BY InitLock, InitPart DEF FabricInv
<1>2. FabricInv /\ [Next]_vars => FabricInv'
  BY NextLock, NextPart, StutterPart DEF FabricInv
<1> QED BY <1>1, <1>2, PTL DEF Spec

\* Where VNet ids are distinct, Ensure and Remove keep saved configuration and
\* status together for every number of tenants and of failed requests: the
\* collision of finding fabric_prefix is the only way to break it.
THEOREM SavedFollowsStatus == ASSUME DistinctVNets PROVE Spec => []SavedMatchesStatus
<1>1. FabricInv => SavedMatchesStatus
  BY DEF FabricInv, PartInv, Progress, SavedMatchesStatus
<1> QED BY SpecFabric, <1>1, PTL

\* ... and what runs follows it too, save for the tenants whose call failed after
\* its last write: "if changed { Apply }" loses an apply in no other way.
THEOREM RunningFollowsStatus == ASSUME DistinctVNets PROVE Spec => []RunningUnlessMissed
<1>1. FabricInv => RunningUnlessMissed
  BY DEF FabricInv, PartInv, Progress, CallOK, Carried, RunningUnlessMissed, At
<1> QED BY SpecFabric, <1>1, PTL
=============================================================================
