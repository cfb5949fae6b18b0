------------------------ MODULE TenantResourcesProofs ------------------------
(***************************************************************************)
(* TenantResources, proved for any tenants, names, MACs and calls, any size *)
(* of the range and of the shares, and any number of calls cut off and      *)
(* rebuilds of the router.                                                  *)
(*                                                                          *)
(* Tenants meet in two places only: the range addresses are given from, and *)
(* the DHCP server's table.  All else is a tenant's own, and a tenant has   *)
(* one call at a time.  So the invariant is AddressesGivenOnce, and for     *)
(* each tenant a part that mentions its own rows, objects, names and call:  *)
(* a step of t has to be shown to keep t's part; it leaves every other's    *)
(* alone (Untouched).                                                       *)
(***************************************************************************)
EXTENDS TenantResources, FiniteSetTheorems, NaturalsInduction, TLAPS

-----------------------------------------------------------------------------
(* The inductive invariant.                                                  *)

\* Points at which the device the call is for holds an address, or does not;
\* at which the workload it is for is deployed.
HoldingPoints == {"moveDevice", "demote", "search", "withdraw", "save", "reconfigure",
                  "publish", "markReady", "unreserve", "unpublish", "dropAddress"}
FreePoints == {"dropDevice", "pubRecord", "putRow", "insert"}
WorkloadPoints == {"build", "start", "pubName", "pubPTR", "markWorkload",
                   "stop", "destroy", "unpubName", "unpubPTR", "dropWorkload"}

Reserving == {"createDevice", "createAddress", "reconcile"}

\* The calls that come by a point.
OpsAt(point) ==
    CASE point \in {"putDevice", "moveDevice", "demote"} -> {"createDevice"}
      [] point = "dropDevice" -> {"deleteDevice"}
      [] point \in {"pick", "withdraw"} -> {"createAddress"}
      [] point \in {"search", "save", "publish"} -> Reserving
      [] point = "reconfigure" -> Reserving \cup {"deleteAddress"}
      [] point = "markReady" -> {"createDevice", "createAddress"}
      [] point = "next" -> {"reconcile"}
      [] point \in {"unreserve", "unpublish", "dropAddress"} -> {"deleteAddress"}
      [] point \in {"pubRecord", "putRow"} -> {"putRecord"}
      [] point \in {"unpubRecord", "dropRow"} -> {"deleteRecord"}
      [] point \in {"insert", "build", "start", "pubName", "pubPTR", "markWorkload"} -> {"createWorkload"}
      [] OTHER -> {"deleteWorkload"}

\* A call is its tenant's, about the tenant's own names; only a reconcile goes
\* through several, and only an address just asked for has a fresh row.
CallInv(t) ==
    /\ req[t].call \in Calls => req[t].call.slot[1] = t
    /\ At(t, "idle") => req[t].todo = {} /\ ~req[t].fresh /\ req[t].sure
    /\ ~At(t, "idle") =>
          /\ req[t].call \in Calls
          /\ req[t].call.op \in OpsAt(req[t].pc)
          /\ ~At(t, "next") => req[t].slot \in Slots /\ req[t].slot[1] = t
          /\ req[t].fresh => req[t].call.op = "createAddress"
          /\ req[t].call.op # "reconcile" => req[t].todo = {} /\ req[t].slot = req[t].call.slot

Unreserved(s) == \A k \in kea : k.slot # s

\* Between the removal of a reservation and that of its row.
Leaving(t) ==
    \/ At(t, "unpublish") \/ At(t, "dropAddress")
    \/ At(t, "reconfigure") /\ req[t].call.op = "deleteAddress"

\* Before the first reservation of an address given in this call.
Arriving(t) == req[t].fresh /\ (At(t, "search") \/ At(t, "withdraw"))

\* A device with an address has a MAC and a name of its own, and a reservation
\* has its row.
AddressRows(t) ==
    /\ \A s \in HeldBy(t) : device[s] \in MACs /\ NameIsFree(s)
    /\ \A k \in kea : k.slot \in Slots /\ k.slot[1] = t => Holds(k.slot) /\ addr[k.slot].at = k.at

\* What a call that deals with an address has found or done so far.
AddressInv(t) ==
    /\ \A s \in req[t].todo : s[1] = t /\ Holds(s)
    /\ req[t].pc \in HoldingPoints => Holds(req[t].slot)
    /\ req[t].pc \in FreePoints => ~Holds(req[t].slot)
    /\ At(t, "putDevice") /\ Holds(req[t].slot) => req[t].call.mac \in MACs
    /\ At(t, "moveDevice") => req[t].call.mac \in MACs
    /\ At(t, "pick") =>
          /\ device[req[t].slot] \in MACs
          /\ req[t].fresh = ~Holds(req[t].slot)
          /\ ~Holds(req[t].slot) => NameIsFree(req[t].slot)
    /\ At(t, "withdraw") => req[t].fresh
    /\ At(t, "save") => req[t].own = NoKea \/ req[t].own.slot = req[t].slot
    /\ Arriving(t) \/ Leaving(t) => Unreserved(req[t].slot)

\* An address of the shared range that tenant t holds.
HeldTarget(t, x) == \E s \in HeldBy(t) : x = Net(addr[s].at)

\* A record points at what the tenant holds, and a name in the zone that does
\* not is no address of the range: it is a record's, a device's, or PutRecord
\* has yet to record it.
NameRows(t) ==
    /\ \A s \in Slots : s[1] = t /\ rec[s][1] = "net" => HeldTarget(t, rec[s])
    /\ \A s \in Slots \ unrecorded : s[1] = t /\ zone[s][1] = "net" =>
          zone[s] = rec[s] \/ (Holds(s) /\ zone[s] = Net(addr[s].at))

\* Nothing points at an address that is about to go, or was given just now.
NameInv(t) ==
    /\ At(t, "pubRecord") \/ At(t, "putRow") =>
          req[t].call.to[1] = "own" \/ HeldTarget(t, req[t].call.to)
    /\ At(t, "putRow") => zone[req[t].slot] = req[t].call.to
    /\ At(t, "dropRow") \/ At(t, "dropAddress") => zone[req[t].slot] = Nowhere
    /\ At(t, "unreserve") \/ Leaving(t) \/ Arriving(t) =>
          \A s \in Slots : s[1] = t => rec[s] # Net(addr[req[t].slot].at)
    /\ Arriving(t) => req[t].slot \in unrecorded \/ zone[req[t].slot][1] # "net"

\* A VM and a PTR have their workload's row, and the row outlives them.
WorkloadRows(t) ==
    /\ \A v \in VMs : v[1] = t /\ vm[v].name # None =>
          Deployed(<<t, vm[v].name>>) /\ wl[<<t, vm[v].name>>].ord = v[2]
    /\ \A v \in VMs : v[1] = t /\ ptr[v] # None =>
          Deployed(<<t, ptr[v]>>) /\ wl[<<t, ptr[v]>>].ord = v[2]

WorkloadInv(t) ==
    /\ req[t].pc \in WorkloadPoints => Deployed(req[t].slot)
    /\ At(t, "insert") => ~Deployed(req[t].slot)
    /\ req[t].pc \in {"unpubName", "unpubPTR", "dropWorkload"} => vm[VMOf(t)].name = None
    /\ At(t, "dropWorkload") => ptr[VMOf(t)] = None

\* What a call has done by the point it is at, as long as the router was not
\* rebuilt under it.
AnswerInv(t) ==
    /\ (At(t, "reconfigure") \/ At(t, "publish")) /\ req[t].call.op \in Reserving /\ req[t].sure =>
          Wanted(req[t].slot) \in kea
    /\ At(t, "markReady") /\ req[t].sure => Reserved(req[t].slot)
    /\ req[t].call.op = "reconcile" /\ req[t].sure =>
          \A s \in HeldBy(t) \ req[t].todo :
              At(t, "idle") \/ At(t, "next") \/ s # req[t].slot => Reserved(s)
    /\ Answered(t, "createAddress") =>
          addr[req[t].call.slot].status = "ready" /\ Reserved(req[t].call.slot)
    /\ At(t, "start") => vm[VMOf(t)].name = NameOf(t)
    /\ At(t, "pubName") \/ At(t, "pubPTR") \/ At(t, "markWorkload") =>
          vm[VMOf(t)] = [name |-> NameOf(t), up |-> TRUE]
    /\ At(t, "pubPTR") \/ At(t, "markWorkload") => zone[req[t].slot] = Own(wl[req[t].slot].ord)
    /\ At(t, "markWorkload") => ptr[VMOf(t)] = NameOf(t)
    /\ Answered(t, "createWorkload") =>
          LET s == req[t].call.slot
              v == <<t, wl[s].ord>>
          IN  /\ wl[s].status = "ready" /\ zone[s] = Own(wl[s].ord)
              /\ vm[v] = [name |-> s[2], up |-> TRUE] /\ ptr[v] = s[2]

\* What holds between calls too.
RowsInv(t) == AddressRows(t) /\ NameRows(t) /\ WorkloadRows(t)

TenantInv(t) ==
    CallInv(t) /\ RowsInv(t) /\ AddressInv(t) /\ NameInv(t) /\ WorkloadInv(t) /\ AnswerInv(t)

ResourcesInv ==
    TypeOK /\ AddressesGivenOnce /\ AppliedUnlessCutOff /\ \A t \in Tenants : TenantInv(t)

-----------------------------------------------------------------------------
(* Calls and their locals.                                                   *)

Locals == [pc : Points, call : Calls \cup {NoCall}, slot : Slots \cup {<<None, None>>},
           fresh : BOOLEAN, own : Rows \cup {NoKea}, todo : SUBSET Slots, sure : BOOLEAN]

ReqType == req \in [Tenants -> Locals]

\* A call goes on from another point; the row it found is of use there only.
Moved(t, point) ==
    /\ ReqType'
    /\ \A u \in Tenants \ {t} : req'[u] = req[u]
    /\ req'[t].pc = point
    /\ req'[t].call = req[t].call /\ req'[t].slot = req[t].slot /\ req'[t].fresh = req[t].fresh
    /\ req'[t].todo = req[t].todo /\ req'[t].sure = req[t].sure

\* A call is over; one that built something and went well is remembered.
Ended(t) ==
    /\ ReqType'
    /\ \A u \in Tenants \ {t} : req'[u] = req[u]
    /\ req'[t].pc = "idle" /\ req'[t].todo = {} /\ ~req'[t].fresh /\ req'[t].sure
    /\ \/ req'[t].call = NoCall
       \/ req'[t].call = req[t].call /\ req[t].sure /\ req[t].call.op \in Builds

\* A call begins.
Began(t, c, point) ==
    /\ ReqType'
    /\ \A u \in Tenants \ {t} : req'[u] = req[u]
    /\ req'[t].pc = point /\ req'[t].call = c /\ req'[t].slot = c.slot
    /\ ~req'[t].fresh /\ req'[t].todo = {} /\ req'[t].sure

LEMMA IdleType == Idle \in Locals /\ NoCall \notin Calls /\ NoCall.op = "none"
<1>1. Idle \in Locals
  BY DEF Idle, Locals, Points
<1>2. NoCall.op = "none"
  BY DEF NoCall
<1>3. \A c \in Calls : c.op \in Ops
  BY ResourcesAssumption DEF CallType
<1> QED BY <1>1, <1>2, <1>3 DEF Ops

LEMMA CallIsTyped ==
    ASSUME NEW c \in Calls
    PROVE  /\ c \in CallType /\ c.op \in Ops /\ c.slot \in Slots
           /\ c.mac \in MACs \cup {None} /\ c.to \in Targets \cup {Nowhere}
BY ResourcesAssumption DEF CallType

LEMMA GotoMoves ==
    ASSUME ReqType, NEW t \in Tenants, NEW point \in Points, Goto(t, point)
    PROVE  Moved(t, point)
BY DEF Goto, Moved, ReqType, Locals

LEMMA FoundMoves ==
    ASSUME ReqType, NEW t \in Tenants, NEW point \in Points, NEW k \in Rows \cup {NoKea},
           req' = [req EXCEPT ![t].pc = point, ![t].own = k]
    PROVE  Moved(t, point) /\ req'[t].own = k
<1> DEFINE q == [req[t] EXCEPT !.pc = point, !.own = k]
<1>1. req[t] \in Locals
  BY DEF ReqType
<1>2. q \in Locals
  BY <1>1 DEF Locals
<1>3. /\ q.pc = point /\ q.own = k /\ q.call = req[t].call /\ q.slot = req[t].slot
      /\ q.fresh = req[t].fresh /\ q.todo = req[t].todo /\ q.sure = req[t].sure
  BY <1>1 DEF Locals
<1>4. req' = [req EXCEPT ![t] = q]
  BY DEF ReqType
<1> HIDE DEF q
<1> QED BY <1>2, <1>3, <1>4 DEF Moved, ReqType

LEMMA CutEnds ==
    ASSUME ReqType, NEW t \in Tenants, Cut(t)
    PROVE  Ended(t) /\ req'[t].call = NoCall
BY IdleType DEF Cut, Ended, ReqType, Idle

LEMMA AnswerEnds ==
    ASSUME ReqType, NEW t \in Tenants, Answer(t)
    PROVE  Ended(t)
<1> DEFINE q == [Idle EXCEPT !.call = req[t].call]
<1>1. q \in Locals
  BY IdleType DEF ReqType, Locals, Idle
<1>2. q.pc = "idle" /\ q.todo = {} /\ ~q.fresh /\ q.sure /\ q.call = req[t].call
  BY DEF Idle
<1>3. Idle.pc = "idle" /\ Idle.todo = {} /\ ~Idle.fresh /\ Idle.sure /\ Idle.call = NoCall
  BY DEF Idle
<1>4. \/ req' = [req EXCEPT ![t] = q] /\ req[t].sure /\ req[t].call.op \in Builds
      \/ req' = [req EXCEPT ![t] = Idle]
  BY DEF Answer
<1> HIDE DEF q
<1> QED BY <1>1, <1>2, <1>3, <1>4, IdleType DEF Ended, ReqType

LEMMA StartBegins ==
    ASSUME ReqType, NEW t \in Tenants, NEW c \in Calls, NEW point \in Points, Start(t, c, point)
    PROVE  Began(t, c, point)
<1> DEFINE q == [Idle EXCEPT !.pc = point, !.call = c, !.slot = c.slot]
<1>1. q \in Locals
  BY IdleType, CallIsTyped DEF Locals, Idle
<1>2. q.pc = point /\ q.call = c /\ q.slot = c.slot /\ ~q.fresh /\ q.todo = {} /\ q.sure
  BY DEF Idle
<1>3. req' = [req EXCEPT ![t] = q]
  BY DEF Start
<1> HIDE DEF q
<1> QED BY <1>1, <1>2, <1>3 DEF Began, ReqType

-----------------------------------------------------------------------------
(* One tenant's step and another tenant's part.                              *)

\* A step leaves alone all that u's part mentions.
Untouched(u) ==
    /\ req'[u] = req[u]
    /\ \A s \in Slots : s[1] = u =>
          /\ device'[s] = device[s] /\ addr'[s] = addr[s] /\ wl'[s] = wl[s]
          /\ rec'[s] = rec[s] /\ zone'[s] = zone[s] /\ (s \in unrecorded' <=> s \in unrecorded)
    /\ \A v \in VMs : v[1] = u => vm'[v] = vm[v] /\ ptr'[v] = ptr[v]
    /\ \A k \in kea \cup kea' : k.slot \in Slots /\ k.slot[1] = u => (k \in kea' <=> k \in kea)

LEMMA UntouchedHeld ==
    ASSUME NEW u \in Tenants, Untouched(u)
    PROVE  /\ HeldBy(u)' = HeldBy(u)
           /\ \A s \in Slots : s[1] = u => /\ Holds(s)' = Holds(s) /\ Deployed(s)' = Deployed(s)
                                           /\ NameIsFree(s)' = NameIsFree(s)
                                           /\ Unreserved(s)' = Unreserved(s)
           /\ \A x : HeldTarget(u, x)' = HeldTarget(u, x)
<1>1. \A s \in Slots : s[1] = u => Holds(s)' = Holds(s) /\ Deployed(s)' = Deployed(s)
  BY DEF Untouched, Holds, Deployed
<1>2. HeldBy(u)' = HeldBy(u)
  BY <1>1 DEF HeldBy, Held
<1>3. \A s \in Slots : s[1] = u => NameIsFree(s)' = NameIsFree(s)
  BY <1>1 DEF Untouched, NameIsFree
<1>4. \A s \in Slots : s[1] = u => Unreserved(s)' = Unreserved(s)
  BY DEF Untouched, Unreserved
<1>5. \A x : HeldTarget(u, x)' = HeldTarget(u, x)
  BY <1>2 DEF Untouched, HeldTarget, HeldBy, Held
<1> QED BY <1>1, <1>2, <1>3, <1>4, <1>5

\* The workload of a name has a VMID, whether it is deployed or not.
LEMMA VMIDType ==
    ASSUME TypeOK, NEW t \in Tenants, NEW s \in Slots
    PROVE  wl[s].ord \in Ordinals /\ <<t, wl[s].ord>> \in VMs
<1>1. 0 \in Ordinals
  BY ResourcesAssumption DEF Ordinals
<1>2. wl[s] \in {NoWorkload} \cup [status : Statuses, ord : Ordinals]
  BY DEF TypeOK
<1>3. wl[s].ord \in Ordinals
  BY <1>1, <1>2 DEF NoWorkload
<1> QED BY <1>3 DEF VMs

\* A call that is somewhere has a name of its tenant's to work on.
LEMMA OwnSlot ==
    ASSUME NEW t \in Tenants, CallInv(t), ~At(t, "idle"), ~At(t, "next")
    PROVE  req[t].slot \in Slots /\ req[t].slot[1] = t
BY DEF CallInv

LEMMA OwnCallSlot ==
    ASSUME NEW t \in Tenants, CallInv(t), req[t].call \in Calls
    PROVE  req[t].call.slot \in Slots /\ req[t].call.slot[1] = t
BY CallIsTyped DEF CallInv

LEMMA UntouchedCall ==
    ASSUME NEW u \in Tenants, CallInv(u), Untouched(u)
    PROVE  CallInv(u)'
BY DEF CallInv, Untouched, At

LEMMA UntouchedRows ==
    ASSUME TypeOK, NEW u \in Tenants, RowsInv(u), Untouched(u)
    PROVE  RowsInv(u)'
<1> USE UntouchedHeld
<1>1. AddressRows(u)'
  <2>1. (\A s \in HeldBy(u) : device[s] \in MACs /\ NameIsFree(s))'
    BY DEF RowsInv, AddressRows, HeldBy, Held, Untouched
  <2>2. (\A k \in kea : k.slot \in Slots /\ k.slot[1] = u => Holds(k.slot) /\ addr[k.slot].at = k.at)'
    BY DEF RowsInv, AddressRows, Untouched
  <2> QED BY <2>1, <2>2 DEF AddressRows
<1>2. NameRows(u)'
  <2>1. (\A s \in Slots : s[1] = u /\ rec[s][1] = "net" => HeldTarget(u, rec[s]))'
    BY DEF RowsInv, NameRows, Untouched
  <2>2. (\A s \in Slots \ unrecorded : s[1] = u /\ zone[s][1] = "net" =>
            zone[s] = rec[s] \/ (Holds(s) /\ zone[s] = Net(addr[s].at)))'
    BY DEF RowsInv, NameRows, Untouched
  <2> QED BY <2>1, <2>2 DEF NameRows
<1>3. WorkloadRows(u)'
  <2>1. \A n \in Names : <<u, n>> \in Slots /\ wl'[<<u, n>>] = wl[<<u, n>>]
    BY DEF Untouched, Slots
  <2>2. \A v \in VMs : vm[v].name \in Names \cup {None} /\ ptr[v] \in Names \cup {None}
    BY DEF TypeOK
  <2>3. (\A v \in VMs : v[1] = u /\ vm[v].name # None =>
            Deployed(<<u, vm[v].name>>) /\ wl[<<u, vm[v].name>>].ord = v[2])'
    BY <2>1, <2>2 DEF RowsInv, WorkloadRows, Untouched, Deployed
  <2>4. (\A v \in VMs : v[1] = u /\ ptr[v] # None =>
            Deployed(<<u, ptr[v]>>) /\ wl[<<u, ptr[v]>>].ord = v[2])'
    BY <2>1, <2>2 DEF RowsInv, WorkloadRows, Untouched, Deployed
  <2> QED BY <2>3, <2>4 DEF WorkloadRows
<1> QED BY <1>1, <1>2, <1>3 DEF RowsInv

LEMMA UntouchedAddress ==
    ASSUME TypeOK, NEW u \in Tenants, CallInv(u), AddressInv(u), Untouched(u)
    PROVE  AddressInv(u)'
<1> USE UntouchedHeld
<1>1. \A point : At(u, point)' = At(u, point)
  BY DEF At, Untouched
<1>2. req'[u] = req[u]
  BY DEF Untouched
<1>5. (\A s \in req[u].todo : s[1] = u /\ Holds(s))'
  <2>1. req[u].todo \in SUBSET Slots
    BY DEF TypeOK
  <2> QED BY <2>1, <1>2 DEF AddressInv
<1>6. ~At(u, "idle") /\ ~At(u, "next") =>
         /\ Holds(req[u].slot)' = Holds(req[u].slot)
         /\ device'[req[u].slot] = device[req[u].slot]
         /\ NameIsFree(req[u].slot)' = NameIsFree(req[u].slot)
         /\ Unreserved(req[u].slot)' = Unreserved(req[u].slot)
  BY OwnSlot, <1>2 DEF Untouched
<1>7. (/\ req[u].pc \in HoldingPoints => Holds(req[u].slot)
       /\ req[u].pc \in FreePoints => ~Holds(req[u].slot))'
  BY <1>2, <1>6 DEF AddressInv, HoldingPoints, FreePoints, At
<1>8. (/\ At(u, "putDevice") /\ Holds(req[u].slot) => req[u].call.mac \in MACs
       /\ At(u, "moveDevice") => req[u].call.mac \in MACs
       /\ At(u, "pick") =>
             /\ device[req[u].slot] \in MACs
             /\ req[u].fresh = ~Holds(req[u].slot)
             /\ ~Holds(req[u].slot) => NameIsFree(req[u].slot)
       /\ At(u, "withdraw") => req[u].fresh
       /\ At(u, "save") => req[u].own = NoKea \/ req[u].own.slot = req[u].slot)'
  BY <1>2, <1>6 DEF AddressInv, At
<1>9. (Arriving(u) \/ Leaving(u) => Unreserved(req[u].slot))'
  BY <1>2, <1>6 DEF AddressInv, At, Arriving, Leaving
<1> QED BY <1>5, <1>7, <1>8, <1>9 DEF AddressInv

LEMMA UntouchedName ==
    ASSUME TypeOK, NEW u \in Tenants, CallInv(u), NameInv(u), Untouched(u)
    PROVE  NameInv(u)'
<1> USE UntouchedHeld
<1>1. req'[u] = req[u]
  BY DEF Untouched
<1>4. ~At(u, "idle") /\ ~At(u, "next") =>
         /\ zone'[req[u].slot] = zone[req[u].slot]
         /\ addr'[req[u].slot] = addr[req[u].slot]
         /\ req[u].slot \in unrecorded' <=> req[u].slot \in unrecorded
  BY OwnSlot DEF Untouched
<1>5. (/\ At(u, "pubRecord") \/ At(u, "putRow") =>
             req[u].call.to[1] = "own" \/ HeldTarget(u, req[u].call.to)
       /\ At(u, "putRow") => zone[req[u].slot] = req[u].call.to
       /\ At(u, "dropRow") \/ At(u, "dropAddress") => zone[req[u].slot] = Nowhere)'
  BY <1>1, <1>4 DEF NameInv, At
<1>6. (At(u, "unreserve") \/ Leaving(u) \/ Arriving(u) =>
          \A s \in Slots : s[1] = u => rec[s] # Net(addr[req[u].slot].at))'
  <2>1. \A s \in Slots : s[1] = u => rec'[s] = rec[s]
    BY DEF Untouched
  <2> QED BY <1>1, <1>4, <2>1 DEF NameInv, At, Leaving, Arriving
<1>7. (Arriving(u) => req[u].slot \in unrecorded \/ zone[req[u].slot][1] # "net")'
  BY <1>1, <1>4 DEF NameInv, At, Arriving
<1> QED BY <1>5, <1>6, <1>7 DEF NameInv

LEMMA UntouchedWorkload ==
    ASSUME TypeOK, NEW u \in Tenants, CallInv(u), WorkloadInv(u), Untouched(u)
    PROVE  WorkloadInv(u)'
<1>1. req'[u] = req[u]
  BY DEF Untouched
<1>6. ~At(u, "idle") /\ ~At(u, "next") =>
         /\ Deployed(req[u].slot)' = Deployed(req[u].slot)
         /\ VMOf(u)' = VMOf(u) /\ vm'[VMOf(u)] = vm[VMOf(u)] /\ ptr'[VMOf(u)] = ptr[VMOf(u)]
  <2> SUFFICES ASSUME ~At(u, "idle"), ~At(u, "next")
               PROVE  /\ Deployed(req[u].slot)' = Deployed(req[u].slot)
                      /\ VMOf(u)' = VMOf(u) /\ vm'[VMOf(u)] = vm[VMOf(u)] /\ ptr'[VMOf(u)] = ptr[VMOf(u)]
    OBVIOUS
  <2>1. req[u].slot \in Slots /\ req[u].slot[1] = u
    BY OwnSlot
  <2>2. wl'[req[u].slot] = wl[req[u].slot]
    BY <2>1 DEF Untouched
  <2>3. VMOf(u) \in VMs /\ VMOf(u)[1] = u
    BY <2>1, VMIDType DEF VMOf
  <2> QED BY <1>1, <2>1, <2>2, <2>3 DEF Untouched, Deployed, VMOf
<1>7. (/\ req[u].pc \in WorkloadPoints => Deployed(req[u].slot)
       /\ At(u, "insert") => ~Deployed(req[u].slot)
       /\ req[u].pc \in {"unpubName", "unpubPTR", "dropWorkload"} => vm[VMOf(u)].name = None
       /\ At(u, "dropWorkload") => ptr[VMOf(u)] = None)'
  BY <1>1, <1>6 DEF WorkloadInv, WorkloadPoints, At
<1> QED BY <1>7 DEF WorkloadInv

\* A reservation and a name that are in place stay as they are.
LEMMA UntouchedReserved ==
    ASSUME TypeOK, NEW u \in Tenants, Untouched(u), NEW s \in Slots, s[1] = u
    PROVE  /\ Wanted(s)' = Wanted(s)
           /\ (Wanted(s) \in kea)' <=> Wanted(s) \in kea
           /\ Reserved(s)' <=> Reserved(s)
<1>1. Wanted(s)' = Wanted(s) /\ Wanted(s).slot = s
  BY DEF Untouched, Wanted
<1>2. Wanted(s) \in kea' <=> Wanted(s) \in kea
  BY <1>1 DEF Untouched
<1> QED BY <1>1, <1>2 DEF Reserved, Untouched

LEMMA UntouchedAnswer ==
    ASSUME TypeOK, NEW u \in Tenants, CallInv(u), AnswerInv(u), Untouched(u)
    PROVE  AnswerInv(u)'
<1>1. req'[u] = req[u]
  BY DEF Untouched
<1>2. \A point : At(u, point)' = At(u, point)
  BY <1>1 DEF At
<1>3. ~At(u, "idle") /\ ~At(u, "next") =>
         /\ (Wanted(req[u].slot) \in kea)' <=> Wanted(req[u].slot) \in kea
         /\ Reserved(req[u].slot)' <=> Reserved(req[u].slot)
         /\ VMOf(u)' = VMOf(u) /\ NameOf(u)' = NameOf(u)
         /\ vm'[VMOf(u)] = vm[VMOf(u)] /\ ptr'[VMOf(u)] = ptr[VMOf(u)]
         /\ zone'[req[u].slot] = zone[req[u].slot] /\ wl'[req[u].slot] = wl[req[u].slot]
  <2> SUFFICES ASSUME ~At(u, "idle"), ~At(u, "next")
               PROVE  /\ (Wanted(req[u].slot) \in kea)' <=> Wanted(req[u].slot) \in kea
                      /\ Reserved(req[u].slot)' <=> Reserved(req[u].slot)
                      /\ VMOf(u)' = VMOf(u) /\ NameOf(u)' = NameOf(u)
                      /\ vm'[VMOf(u)] = vm[VMOf(u)] /\ ptr'[VMOf(u)] = ptr[VMOf(u)]
                      /\ zone'[req[u].slot] = zone[req[u].slot] /\ wl'[req[u].slot] = wl[req[u].slot]
    OBVIOUS
  <2>1. req[u].slot \in Slots /\ req[u].slot[1] = u
    BY OwnSlot
  <2>2. VMOf(u) \in VMs /\ VMOf(u)[1] = u
    BY <2>1, VMIDType DEF VMOf
  <2>3. wl'[req[u].slot] = wl[req[u].slot] /\ zone'[req[u].slot] = zone[req[u].slot]
    BY <2>1 DEF Untouched
  <2>4. VMOf(u)' = VMOf(u) /\ NameOf(u)' = NameOf(u)
    BY <1>1, <2>3 DEF VMOf, NameOf
  <2>6. (Wanted(req[u].slot) \in kea)' <=> Wanted(req[u].slot) \in kea
    BY <1>1, <2>1, UntouchedReserved
  <2>7. Reserved(req[u].slot)' <=> Reserved(req[u].slot)
    BY <1>1, <2>1, UntouchedReserved
  <2> QED BY <2>2, <2>3, <2>4, <2>6, <2>7 DEF Untouched
<1>4. (/\ (At(u, "reconfigure") \/ At(u, "publish")) /\ req[u].call.op \in Reserving /\ req[u].sure =>
             Wanted(req[u].slot) \in kea
       /\ At(u, "markReady") /\ req[u].sure => Reserved(req[u].slot))'
  BY <1>1, <1>3 DEF AnswerInv, At
<1>5. (req[u].call.op = "reconcile" /\ req[u].sure =>
          \A s \in HeldBy(u) \ req[u].todo :
              At(u, "idle") \/ At(u, "next") \/ s # req[u].slot => Reserved(s))'
  <2>1. \A s \in HeldBy(u) : s \in Slots /\ s[1] = u
    BY DEF HeldBy, Held
  <2>2. \A s \in HeldBy(u) : Reserved(s)' <=> Reserved(s)
    BY <2>1, UntouchedReserved
  <2> QED BY <1>1, <1>2, <2>2, UntouchedHeld DEF AnswerInv
<1>6. (/\ At(u, "start") => vm[VMOf(u)].name = NameOf(u)
       /\ At(u, "pubName") \/ At(u, "pubPTR") \/ At(u, "markWorkload") =>
             vm[VMOf(u)] = [name |-> NameOf(u), up |-> TRUE]
       /\ At(u, "pubPTR") \/ At(u, "markWorkload") => zone[req[u].slot] = Own(wl[req[u].slot].ord)
       /\ At(u, "markWorkload") => ptr[VMOf(u)] = NameOf(u))'
  BY <1>1, <1>3 DEF AnswerInv, At
<1>7. \A op \in Builds : Answered(u, op)' =>
         /\ Answered(u, op)
         /\ req[u].call.slot \in Slots /\ req[u].call.slot[1] = u
  <2>1. req[u].call \in Calls \cup {NoCall}
    BY DEF TypeOK
  <2> QED BY <1>1, <2>1, IdleType, OwnCallSlot DEF Answered, Builds, At
<1>8. (Answered(u, "createAddress") =>
          addr[req[u].call.slot].status = "ready" /\ Reserved(req[u].call.slot))'
  <2> SUFFICES ASSUME Answered(u, "createAddress")'
               PROVE  (addr[req[u].call.slot].status = "ready" /\ Reserved(req[u].call.slot))'
    OBVIOUS
  <2>1. Answered(u, "createAddress") /\ req[u].call.slot \in Slots /\ req[u].call.slot[1] = u
    BY <1>7 DEF Builds
  <2>2. Reserved(req[u].call.slot)' <=> Reserved(req[u].call.slot)
    BY <1>1, <2>1, UntouchedReserved
  <2>3. addr[req[u].call.slot].status = "ready" /\ Reserved(req[u].call.slot)
    BY <2>1 DEF AnswerInv
  <2> QED BY <1>1, <2>1, <2>2, <2>3 DEF Untouched
<1>9. (Answered(u, "createWorkload") =>
          LET s == req[u].call.slot
              v == <<u, wl[s].ord>>
          IN  /\ wl[s].status = "ready" /\ zone[s] = Own(wl[s].ord)
              /\ vm[v] = [name |-> s[2], up |-> TRUE] /\ ptr[v] = s[2])'
  <2> SUFFICES ASSUME Answered(u, "createWorkload")'
               PROVE  (LET s == req[u].call.slot
                           v == <<u, wl[s].ord>>
                       IN  /\ wl[s].status = "ready" /\ zone[s] = Own(wl[s].ord)
                           /\ vm[v] = [name |-> s[2], up |-> TRUE] /\ ptr[v] = s[2])'
    OBVIOUS
  <2> DEFINE s == req[u].call.slot
             v == <<u, wl[s].ord>>
  <2>1. Answered(u, "createWorkload") /\ s \in Slots /\ s[1] = u
    BY <1>7 DEF Builds
  <2>2. v \in VMs /\ v[1] = u
    BY <2>1, VMIDType
  <2>3. /\ wl[s].status = "ready" /\ zone[s] = Own(wl[s].ord)
        /\ vm[v] = [name |-> s[2], up |-> TRUE] /\ ptr[v] = s[2]
    BY <2>1 DEF AnswerInv
  <2>4. wl'[s] = wl[s] /\ zone'[s] = zone[s] /\ vm'[v] = vm[v] /\ ptr'[v] = ptr[v]
    BY <2>1, <2>2 DEF Untouched
  <2> QED BY <1>1, <2>3, <2>4
<1> QED BY <1>4, <1>5, <1>6, <1>8, <1>9 DEF AnswerInv

LEMMA OtherTenant ==
    ASSUME TypeOK, NEW u \in Tenants, TenantInv(u), Untouched(u)
    PROVE  TenantInv(u)'
BY UntouchedCall, UntouchedRows, UntouchedAddress, UntouchedName, UntouchedWorkload, UntouchedAnswer DEF TenantInv

-----------------------------------------------------------------------------
(* What a step of t has to keep, and the parts most steps leave alone.       *)

LEMMA StepKeeps ==
    ASSUME ResourcesInv, NEW t \in Tenants, TypeOK', AddressesGivenOnce', AppliedUnlessCutOff',
           \A u \in Tenants \ {t} : Untouched(u), TenantInv(t)'
    PROVE  ResourcesInv'
<1>1. \A u \in Tenants : TenantInv(u)'
  BY OtherTenant DEF ResourcesInv
<1> QED BY <1>1 DEF ResourcesInv

LEMMA HeldIsFinite ==
    ASSUME NEW t \in Tenants
    PROVE  IsFiniteSet(HeldBy(t)) /\ IsFiniteSet(HeldBy(t)')
<1>1. IsFiniteSet(Slots)
  BY ResourcesAssumption, FS_Product DEF Slots
<1>2. HeldBy(t) \in SUBSET Slots /\ HeldBy(t)' \in SUBSET Slots
  BY DEF HeldBy, Held
<1> QED BY <1>1, <1>2, FS_Subset

\* A step that gives no address out.
LEMMA NoneGiven ==
    ASSUME AddressesGivenOnce,
           \A s \in Slots : Holds(s)' => Holds(s) /\ addr'[s].at = addr[s].at
    PROVE  AddressesGivenOnce'
<1>1. (\A s, x \in Held : s # x => addr[s].at # addr[x].at)'
  BY DEF AddressesGivenOnce, Held
<1>2. ASSUME NEW t \in Tenants PROVE Cardinality(HeldBy(t)') <= Quota
  <2>1. HeldBy(t)' \in SUBSET HeldBy(t)
    BY DEF HeldBy, Held
  <2>2. Cardinality(HeldBy(t)') <= Cardinality(HeldBy(t))
    BY <2>1, HeldIsFinite, FS_Subset
  <2>3. Cardinality(HeldBy(t)') \in Nat /\ Cardinality(HeldBy(t)) \in Nat
    BY HeldIsFinite, FS_CardinalityType
  <2>4. Cardinality(HeldBy(t)) <= Quota
    BY DEF AddressesGivenOnce
  <2> QED BY <2>2, <2>3, <2>4, ResourcesAssumption
<1> QED BY <1>1, <1>2 DEF AddressesGivenOnce

LEMMA AddressesKept ==
    ASSUME AddressesGivenOnce, UNCHANGED addr
    PROVE  AddressesGivenOnce'
BY NoneGiven DEF Holds

\* A step that saves nothing on the DHCP server, of a call that is not about
\* to reconfigure it.
LEMMA AppliedKept ==
    ASSUME AppliedUnlessCutOff, NEW t \in Tenants, ~At(t, "reconfigure"),
           \A u \in Tenants \ {t} : req'[u] = req[u], UNCHANGED <<unapplied, faults>>
    PROVE  AppliedUnlessCutOff'
BY DEF AppliedUnlessCutOff, At

\* The call goes on.
LEMMA MovedCall ==
    ASSUME NEW t \in Tenants, CallInv(t), ~At(t, "idle"), ~At(t, "next"),
           NEW point, point # "idle", Moved(t, point), req[t].call.op \in OpsAt(point)
    PROVE  CallInv(t)'
BY DEF CallInv, Moved, At

\* A call begins with nothing of its own.
LEMMA BeganCall ==
    ASSUME NEW t \in Tenants, NEW c \in Calls, c.slot[1] = t, NEW point, point # "idle",
           Began(t, c, point), c.op \in OpsAt(point)
    PROVE  CallInv(t)'
BY CallIsTyped DEF CallInv, Began, At

\* A call that is over leaves no part but what holds between calls and its
\* answer.
LEMMA EndedParts ==
    ASSUME NEW t \in Tenants, CallInv(t), Ended(t)
    PROVE  CallInv(t)' /\ AddressInv(t)' /\ NameInv(t)' /\ WorkloadInv(t)'
<1>1. CallInv(t)'
  BY IdleType DEF CallInv, Ended, At
<1>2. AddressInv(t)'
  BY DEF Ended, AddressInv, At, HoldingPoints, FreePoints, Arriving, Leaving
<1>3. NameInv(t)'
  BY DEF Ended, NameInv, At, Arriving, Leaving
<1>4. WorkloadInv(t)'
  BY DEF Ended, WorkloadInv, At, WorkloadPoints
<1> QED BY <1>1, <1>2, <1>3, <1>4

\* An answer that promises nothing here.
LEMMA EndedAnswer ==
    ASSUME NEW t \in Tenants, Ended(t),
           \/ req'[t].call = NoCall
           \/ req[t].call.op \notin {"createAddress", "reconcile", "createWorkload"}
    PROVE  AnswerInv(t)'
BY IdleType DEF Ended, AnswerInv, Answered, At

LEMMA EndedKeeps ==
    ASSUME NEW t \in Tenants, CallInv(t), Ended(t), RowsInv(t)',
           \/ req'[t].call = NoCall
           \/ req[t].call.op \notin {"createAddress", "reconcile", "createWorkload"}
    PROVE  TenantInv(t)'
BY EndedParts, EndedAnswer DEF TenantInv

LEMMA NoAddressWork ==
    ASSUME NEW t \in Tenants, CallInv(t)',
           req'[t].pc \in WorkloadPoints \cup {"unpubRecord", "dropRow"}
    PROVE  AddressInv(t)'
BY DEF CallInv, AddressInv, At, WorkloadPoints, HoldingPoints, FreePoints, Arriving, Leaving, OpsAt

LEMMA NoNameWork ==
    ASSUME NEW t \in Tenants,
           req'[t].pc \notin {"search", "withdraw", "reconfigure", "unreserve", "unpublish",
                              "dropAddress", "pubRecord", "putRow", "dropRow"}
    PROVE  NameInv(t)'
BY DEF NameInv, At, Arriving, Leaving

LEMMA NoWorkloadWork ==
    ASSUME NEW t \in Tenants, req'[t].pc \notin WorkloadPoints \cup {"insert"}
    PROVE  WorkloadInv(t)'
BY DEF WorkloadInv, At, WorkloadPoints

LEMMA NoAnswerWork ==
    ASSUME NEW t \in Tenants, req'[t].call.op # "reconcile",
           req'[t].pc \notin {"idle", "reconfigure", "publish", "markReady", "start", "pubName",
                              "pubPTR", "markWorkload"}
    PROVE  AnswerInv(t)'
BY DEF AnswerInv, At, Answered

\* A step that changes no row and no object.
LEMMA RowsKept ==
    ASSUME NEW t \in Tenants, RowsInv(t), UNCHANGED <<registry, kea, vm, names>>
    PROVE  RowsInv(t)'
BY DEF RowsInv, AddressRows, NameRows, WorkloadRows, registry, names, HeldBy, Held, Holds,
       Deployed, NameIsFree, HeldTarget

\* A step that changes nothing but the call.
LEMMA QuietStep ==
    ASSUME ResourcesInv, NEW t \in Tenants, UNCHANGED <<registry, router, vm, names, faults>>,
           ReqType', \A u \in Tenants \ {t} : req'[u] = req[u], ~At(t, "reconfigure"),
           CallInv(t)', AddressInv(t)', NameInv(t)', WorkloadInv(t)', AnswerInv(t)'
    PROVE  ResourcesInv'
<1>1. TypeOK'
  BY DEF ResourcesInv, TypeOK, ReqType, Locals, registry, router, names
<1>2. AddressesGivenOnce'
  BY AddressesKept DEF ResourcesInv, registry
<1>3. AppliedUnlessCutOff'
  BY AppliedKept DEF ResourcesInv, router
<1>4. \A u \in Tenants \ {t} : Untouched(u)
  BY DEF Untouched, registry, router, names
<1>5. RowsInv(t)'
  BY RowsKept DEF ResourcesInv, TenantInv, router
<1> QED BY <1>1, <1>2, <1>3, <1>4, <1>5, StepKeeps DEF TenantInv

-----------------------------------------------------------------------------
(* A call begins.                                                            *)

LEMMA CreateDeviceInv ==
    ASSUME ResourcesInv, NEW t \in Tenants, At(t, "idle"), NEW c \in Calls, c.slot[1] = t,
           c.op = "createDevice", CreateDevice(t, c)
    PROVE  ResourcesInv'
<1> DEFINE moved == Holds(c.slot) /\ device[c.slot] # c.mac
           point == IF moved THEN "moveDevice" ELSE "putDevice"
<1>1. ReqType /\ c.slot \in Slots /\ c.mac \in MACs \cup {None}
  BY CallIsTyped DEF ResourcesInv, TypeOK, ReqType, Locals
<1>2. point \in {"moveDevice", "putDevice"} /\ point \in Points
  BY DEF Points
<1>3. Began(t, c, point)
  <2>1. Start(t, c, point)
    BY DEF CreateDevice, Start
  <2> HIDE DEF point
  <2> QED BY <1>1, <1>2, <2>1, StartBegins
<1>4. CallInv(t)'
  <2>1. c.op \in OpsAt(point)
    BY DEF OpsAt
  <2> HIDE DEF point
  <2> QED BY <1>2, <1>3, <2>1, BeganCall
<1>5. Holds(c.slot)' = Holds(c.slot)
  BY DEF CreateDevice, registry, Holds
<1>6. point = "moveDevice" => Holds(c.slot) /\ c.mac \in MACs
  BY <1>1 DEF CreateDevice
<1>7. point = "putDevice" /\ Holds(c.slot) => c.mac \in MACs
  BY <1>1 DEF ResourcesInv, TenantInv, RowsInv, AddressRows, HeldBy, Held
<1> HIDE DEF point
<1>8. AddressInv(t)'
  BY <1>2, <1>3, <1>5, <1>6, <1>7
     DEF Began, AddressInv, At, HoldingPoints, FreePoints, Arriving, Leaving
<1>9. NameInv(t)' /\ WorkloadInv(t)' /\ AnswerInv(t)'
  BY <1>2, <1>3, NoNameWork, NoWorkloadWork, NoAnswerWork DEF Began, WorkloadPoints
<1>10. UNCHANGED <<registry, router, vm, names, faults>> /\ ~At(t, "reconfigure")
  BY DEF CreateDevice, At
<1> QED BY <1>3, <1>4, <1>8, <1>9, <1>10, QuietStep DEF Began

LEMMA DeleteDeviceInv ==
    ASSUME ResourcesInv, NEW t \in Tenants, At(t, "idle"), NEW c \in Calls, c.slot[1] = t,
           c.op = "deleteDevice", DeleteDevice(t, c)
    PROVE  ResourcesInv'
<1>1. Began(t, c, "dropDevice")
  BY StartBegins DEF DeleteDevice, ResourcesInv, TypeOK, ReqType, Locals, Points
<1>2. CallInv(t)'
  BY <1>1, BeganCall DEF OpsAt
<1>3. AddressInv(t)'
  BY <1>1 DEF DeleteDevice, registry, Holds, Began, AddressInv, At, HoldingPoints, FreePoints,
              Arriving, Leaving
<1>4. NameInv(t)' /\ WorkloadInv(t)' /\ AnswerInv(t)'
  BY <1>1, NoNameWork, NoWorkloadWork, NoAnswerWork DEF Began, WorkloadPoints
<1> QED BY <1>1, <1>2, <1>3, <1>4, QuietStep DEF Began, DeleteDevice, At

LEMMA CreateAddressInv ==
    ASSUME ResourcesInv, NEW t \in Tenants, At(t, "idle"), NEW c \in Calls, c.slot[1] = t,
           c.op = "createAddress", CreateAddress(t, c)
    PROVE  ResourcesInv'
<1> DEFINE q == [Idle EXCEPT !.pc = "pick", !.call = c, !.slot = c.slot, !.fresh = ~Holds(c.slot)]
<1>1. q \in Locals
  BY IdleType, CallIsTyped DEF Locals, Idle, Points
<1>2. /\ q.pc = "pick" /\ q.call = c /\ q.slot = c.slot /\ q.fresh = ~Holds(c.slot)
      /\ q.todo = {} /\ q.sure
  BY DEF Idle
<1>3. req' = [req EXCEPT ![t] = q] /\ UNCHANGED <<registry, router, vm, names, faults>>
  BY DEF CreateAddress
<1> HIDE DEF q
<1>4. ReqType' /\ req'[t] = q /\ \A u \in Tenants \ {t} : req'[u] = req[u]
  BY <1>1, <1>3 DEF ResourcesInv, TypeOK, ReqType, Locals
<1>5. CallInv(t)'
  BY <1>2, <1>4, CallIsTyped DEF CallInv, At, OpsAt
<1>6. AddressInv(t)'
  <2>1. device[c.slot] \in MACs /\ (~Holds(c.slot) => NameIsFree(c.slot))
    BY DEF CreateAddress
  <2>2. /\ device' = device /\ Holds(c.slot)' = Holds(c.slot)
        /\ NameIsFree(c.slot)' = NameIsFree(c.slot)
    BY <1>3 DEF registry, Holds, NameIsFree, Deployed
  <2> QED BY <1>2, <1>4, <2>1, <2>2 DEF AddressInv, At, HoldingPoints, FreePoints, Arriving, Leaving
<1>7. NameInv(t)' /\ WorkloadInv(t)' /\ AnswerInv(t)'
  BY <1>2, <1>4, NoNameWork, NoWorkloadWork, NoAnswerWork DEF WorkloadPoints
<1> QED BY <1>3, <1>4, <1>5, <1>6, <1>7, QuietStep DEF At

LEMMA DeleteAddressInv ==
    ASSUME ResourcesInv, NEW t \in Tenants, At(t, "idle"), NEW c \in Calls, c.slot[1] = t,
           c.op = "deleteAddress", DeleteAddress(t, c)
    PROVE  ResourcesInv'
<1>1. Began(t, c, "unreserve")
  BY StartBegins DEF DeleteAddress, ResourcesInv, TypeOK, ReqType, Locals, Points
<1>2. CallInv(t)'
  BY <1>1, BeganCall DEF OpsAt
<1>3. AddressInv(t)'
  BY <1>1 DEF DeleteAddress, registry, Holds, Began, AddressInv, At, HoldingPoints, FreePoints,
              Arriving, Leaving
<1>4. NameInv(t)'
  BY <1>1 DEF DeleteAddress, registry, Began, NameInv, At, Arriving, Leaving
<1>5. WorkloadInv(t)' /\ AnswerInv(t)'
  BY <1>1, NoWorkloadWork, NoAnswerWork DEF Began, WorkloadPoints
<1> QED BY <1>1, <1>2, <1>3, <1>4, <1>5, QuietStep DEF Began, DeleteAddress, At

LEMMA ReconcileInv ==
    ASSUME ResourcesInv, NEW t \in Tenants, At(t, "idle"), NEW c \in Calls, c.slot[1] = t,
           c.op = "reconcile", Reconcile(t, c)
    PROVE  ResourcesInv'
<1> DEFINE q == [Idle EXCEPT !.pc = "next", !.call = c, !.todo = HeldBy(t)]
<1>1. q \in Locals
  BY IdleType, CallIsTyped DEF Locals, Idle, Points, HeldBy, Held
<1>2. q.pc = "next" /\ q.call = c /\ q.todo = HeldBy(t) /\ ~q.fresh
  BY DEF Idle
<1>3. req' = [req EXCEPT ![t] = q] /\ UNCHANGED <<registry, router, vm, names, faults>>
  BY DEF Reconcile
<1> HIDE DEF q
<1>4. ReqType' /\ req'[t] = q /\ \A u \in Tenants \ {t} : req'[u] = req[u]
  BY <1>1, <1>3 DEF ResourcesInv, TypeOK, ReqType, Locals
<1>5. CallInv(t)'
  BY <1>2, <1>4 DEF CallInv, At, OpsAt
<1>6. HeldBy(t)' = HeldBy(t) /\ \A s \in Slots : Holds(s)' = Holds(s)
  BY <1>3 DEF HeldBy, Held, Holds, registry
<1>7. AddressInv(t)'
  BY <1>2, <1>4, <1>6 DEF AddressInv, At, HoldingPoints, FreePoints, Arriving, Leaving, HeldBy, Held
<1>8. AnswerInv(t)'
  BY <1>2, <1>4, <1>6 DEF AnswerInv, At, Answered
<1>9. NameInv(t)' /\ WorkloadInv(t)'
  BY <1>2, <1>4, NoNameWork, NoWorkloadWork DEF WorkloadPoints
<1> QED BY <1>3, <1>4, <1>5, <1>7, <1>8, <1>9, QuietStep DEF At

LEMMA PutRecordInv ==
    ASSUME ResourcesInv, NEW t \in Tenants, At(t, "idle"), NEW c \in Calls, c.slot[1] = t,
           c.op = "putRecord", PutRecord(t, c)
    PROVE  ResourcesInv'
<1>1. Began(t, c, "pubRecord")
  BY StartBegins DEF PutRecord, ResourcesInv, TypeOK, ReqType, Locals, Points
<1>2. CallInv(t)'
  BY <1>1, BeganCall DEF OpsAt
<1>3. AddressInv(t)'
  BY <1>1 DEF PutRecord, registry, Holds, Began, AddressInv, At, HoldingPoints, FreePoints,
              Arriving, Leaving
<1>4. NameInv(t)'
  <2>1. (c.to[1] = "own" \/ HeldTarget(t, c.to))'
    BY DEF PutRecord, registry, HeldTarget, HeldBy, Held, Holds
  <2> QED BY <1>1, <2>1 DEF Began, NameInv, At, Arriving, Leaving
<1>5. WorkloadInv(t)' /\ AnswerInv(t)'
  BY <1>1, NoWorkloadWork, NoAnswerWork DEF Began, WorkloadPoints
<1> QED BY <1>1, <1>2, <1>3, <1>4, <1>5, QuietStep DEF Began, PutRecord, At

LEMMA DeleteRecordInv ==
    ASSUME ResourcesInv, NEW t \in Tenants, At(t, "idle"), NEW c \in Calls, c.slot[1] = t,
           c.op = "deleteRecord", DeleteRecord(t, c)
    PROVE  ResourcesInv'
<1>1. Began(t, c, "unpubRecord")
  BY StartBegins DEF DeleteRecord, ResourcesInv, TypeOK, ReqType, Locals, Points
<1>2. CallInv(t)'
  BY <1>1, BeganCall DEF OpsAt
<1>3. AddressInv(t)' /\ NameInv(t)' /\ WorkloadInv(t)' /\ AnswerInv(t)'
  BY <1>1, <1>2, NoAddressWork, NoNameWork, NoWorkloadWork, NoAnswerWork DEF Began, WorkloadPoints
<1> QED BY <1>1, <1>2, <1>3, QuietStep DEF Began, DeleteRecord, At

LEMMA CreateWorkloadInv ==
    ASSUME ResourcesInv, NEW t \in Tenants, At(t, "idle"), NEW c \in Calls, c.slot[1] = t,
           c.op = "createWorkload", CreateWorkload(t, c)
    PROVE  ResourcesInv'
<1>1. \/ Deployed(c.slot) /\ Began(t, c, "build")
      \/ ~Deployed(c.slot) /\ ~Holds(c.slot) /\ Began(t, c, "insert")
  BY StartBegins DEF CreateWorkload, ResourcesInv, TypeOK, ReqType, Locals, Points
<1>2. CallInv(t)'
  BY <1>1, BeganCall DEF OpsAt
<1>3. (Deployed(c.slot) <=> Deployed(c.slot)') /\ (Holds(c.slot) <=> Holds(c.slot)')
  BY DEF CreateWorkload, registry, Deployed, Holds
<1>4. AddressInv(t)'
  BY <1>1, <1>3 DEF Began, AddressInv, At, HoldingPoints, FreePoints, Arriving, Leaving
<1>5. WorkloadInv(t)'
  BY <1>1, <1>3 DEF Began, WorkloadInv, At, WorkloadPoints
<1>6. NameInv(t)' /\ AnswerInv(t)'
  BY <1>1, NoNameWork, NoAnswerWork DEF Began
<1> QED BY <1>1, <1>2, <1>4, <1>5, <1>6, QuietStep DEF Began, CreateWorkload, At

LEMMA DeleteWorkloadInv ==
    ASSUME ResourcesInv, NEW t \in Tenants, At(t, "idle"), NEW c \in Calls, c.slot[1] = t,
           c.op = "deleteWorkload", DeleteWorkload(t, c)
    PROVE  ResourcesInv'
<1>1. Began(t, c, "stop")
  BY StartBegins DEF DeleteWorkload, ResourcesInv, TypeOK, ReqType, Locals, Points
<1>2. CallInv(t)'
  BY <1>1, BeganCall DEF OpsAt
<1>3. WorkloadInv(t)'
  BY <1>1 DEF DeleteWorkload, registry, Deployed, Began, WorkloadInv, At, WorkloadPoints
<1>4. AddressInv(t)' /\ NameInv(t)' /\ AnswerInv(t)'
  BY <1>1, <1>2, NoAddressWork, NoNameWork, NoAnswerWork DEF Began, WorkloadPoints
<1> QED BY <1>1, <1>2, <1>3, <1>4, QuietStep DEF Began, DeleteWorkload, At

LEMMA BeginInv ==
    ASSUME ResourcesInv, NEW t \in Tenants, NEW c \in Calls, Begin(t, c)
    PROVE  ResourcesInv'
BY CreateDeviceInv, DeleteDeviceInv, CreateAddressInv, DeleteAddressInv, ReconcileInv,
   PutRecordInv, DeleteRecordInv, CreateWorkloadInv, DeleteWorkloadInv DEF Begin

-----------------------------------------------------------------------------
(* Devices.                                                                  *)

\* What a step of a call starts from.
LEMMA Working ==
    ASSUME ResourcesInv, NEW t \in Tenants, ~At(t, "idle"), ~At(t, "next")
    PROVE  /\ TypeOK /\ ReqType /\ TenantInv(t) /\ AddressesGivenOnce /\ AppliedUnlessCutOff
           /\ req[t].slot \in Slots /\ req[t].slot[1] = t
           /\ req[t].call \in Calls /\ req[t].call.op \in OpsAt(req[t].pc)
BY OwnSlot DEF ResourcesInv, TenantInv, CallInv, TypeOK, ReqType, Locals

LEMMA PutDeviceInv ==
    ASSUME ResourcesInv, NEW t \in Tenants, PutDevice(t)
    PROVE  ResourcesInv'
<1> PICK s : s = req[t].slot
  OBVIOUS
<1>1. /\ TypeOK /\ ReqType /\ TenantInv(t) /\ AddressesGivenOnce /\ AppliedUnlessCutOff
      /\ s \in Slots /\ s[1] = t /\ req[t].call \in Calls /\ req[t].call.op \in OpsAt(req[t].pc)
  BY Working DEF PutDevice, At
<1>2. req[t].call.op = "createDevice" /\ ~At(t, "reconfigure") /\ ~At(t, "idle") /\ ~At(t, "next")
  BY <1>1 DEF PutDevice, At, OpsAt
<1>3. \/ At(t, "moveDevice") /\ Moved(t, "demote")
      \/ At(t, "putDevice") /\ Ended(t)
  BY <1>1, GotoMoves, AnswerEnds DEF PutDevice, Points, At
<1>4. /\ device' = [device EXCEPT ![s] = req[t].call.mac]
      /\ UNCHANGED <<addr, wl, rec, kea, unapplied, vm, zone, ptr, unrecorded, faults>>
  BY DEF PutDevice, router, names
<1>5. ReqType' /\ \A u \in Tenants \ {t} : req'[u] = req[u]
  BY <1>3 DEF Moved, Ended
<1>6. device'[s] = req[t].call.mac /\ \A x \in Slots \ {s} : device'[x] = device[x]
  BY <1>1, <1>4 DEF TypeOK
<1>7. TypeOK'
  BY <1>1, <1>4, <1>5, CallIsTyped DEF TypeOK, ReqType, Locals
<1>8. AddressesGivenOnce' /\ AppliedUnlessCutOff'
  BY <1>1, <1>2, <1>4, <1>5, AddressesKept, AppliedKept
<1>9. \A u \in Tenants \ {t} : Untouched(u)
  BY <1>1, <1>4, <1>5, <1>6 DEF Untouched
<1>10. RowsInv(t)'
  <2>1. AddressRows(t)'
    <3>1. Holds(s) => req[t].call.mac \in MACs
      BY <1>1, <1>3 DEF TenantInv, AddressInv
    <3>2. HeldBy(t)' = HeldBy(t) /\ \A x \in Slots : (Holds(x)' <=> Holds(x)) /\ (NameIsFree(x)' <=> NameIsFree(x))
      BY <1>4 DEF HeldBy, Held, Holds, NameIsFree, Deployed
    <3> QED BY <1>1, <1>4, <1>6, <3>1, <3>2 DEF TenantInv, RowsInv, AddressRows, HeldBy, Held
  <2>2. NameRows(t)' /\ WorkloadRows(t)'
    BY <1>1, <1>4 DEF TenantInv, RowsInv, NameRows, WorkloadRows, HeldTarget, HeldBy, Held, Holds, Deployed
  <2> QED BY <2>1, <2>2 DEF RowsInv
<1>11. TenantInv(t)'
  <2>1. CASE Ended(t)
    BY <1>1, <1>2, <1>10, <2>1, EndedKeeps DEF TenantInv
  <2>2. CASE At(t, "moveDevice") /\ Moved(t, "demote")
    <3>1. CallInv(t)'
      BY <1>1, <1>2, <2>2, MovedCall DEF TenantInv, OpsAt
    <3>2. Holds(s)' /\ req[t].todo = {} /\ ~req[t].fresh
      BY <1>1, <1>2, <1>4, <2>2 DEF TenantInv, CallInv, AddressInv, Holds, HoldingPoints, At
    <3>3. AddressInv(t)'
      BY <2>2, <3>2 DEF AddressInv, Moved, At, HoldingPoints, FreePoints, Arriving, Leaving
    <3>4. NameInv(t)' /\ WorkloadInv(t)' /\ AnswerInv(t)'
      BY <1>2, <2>2, NoNameWork, NoWorkloadWork, NoAnswerWork DEF Moved, WorkloadPoints
    <3> QED BY <1>10, <3>1, <3>3, <3>4 DEF TenantInv
  <2> QED BY <1>3, <2>1, <2>2
<1> QED BY <1>7, <1>8, <1>9, <1>11, StepKeeps

-----------------------------------------------------------------------------
(* An address's row: its status changes, it goes, it is given.               *)

LEMMA StatusOnly ==
    ASSUME TypeOK, NEW t \in Tenants, NEW s \in Slots, s[1] = t, Holds(s), NEW st \in Statuses,
           addr' = [addr EXCEPT ![s].status = st]
    PROVE  /\ addr' \in [Slots -> {NoAddr} \cup [status : Statuses, at : Pool]]
           /\ addr'[s].status = st
           /\ \A x \in Slots : addr'[x].at = addr[x].at /\ (Holds(x)' <=> Holds(x))
           /\ \A x \in Slots \ {s} : addr'[x] = addr[x]
           /\ \A u \in Tenants : HeldBy(u)' = HeldBy(u)
           /\ \A u \in Tenants : \A x : HeldTarget(u, x)' <=> HeldTarget(u, x)
<1>1. addr[s] \in [status : Statuses, at : Pool]
  BY DEF TypeOK, Holds, NoAddr
<1>2. addr'[s] = [addr[s] EXCEPT !.status = st] /\ \A x \in Slots \ {s} : addr'[x] = addr[x]
  BY DEF TypeOK
<1>3. addr'[s] \in [status : Statuses, at : Pool] /\ addr'[s].at = addr[s].at /\ addr'[s].status = st
  BY <1>1, <1>2
<1>4. addr' \in [Slots -> {NoAddr} \cup [status : Statuses, at : Pool]]
  BY <1>1 DEF TypeOK
<1>5. \A x \in Slots : addr'[x].at = addr[x].at /\ (Holds(x)' <=> Holds(x))
  BY <1>2, <1>3 DEF Holds, Statuses
<1>6. \A u \in Tenants : HeldBy(u)' = HeldBy(u)
  BY <1>5 DEF HeldBy, Held
<1>7. \A u \in Tenants : \A x : HeldTarget(u, x)' <=> HeldTarget(u, x)
  BY <1>5, <1>6 DEF HeldTarget, HeldBy, Held
<1> QED BY <1>2, <1>3, <1>4, <1>5, <1>6, <1>7

LEMMA StatusStep ==
    ASSUME ResourcesInv, NEW t \in Tenants, NEW s \in Slots, s[1] = t, Holds(s), NEW st \in Statuses,
           addr' = [addr EXCEPT ![s].status = st],
           UNCHANGED <<device, wl, rec, router, vm, names, faults>>,
           ReqType', \A u \in Tenants \ {t} : req'[u] = req[u], ~At(t, "reconfigure"),
           CallInv(t)', AddressInv(t)', NameInv(t)', WorkloadInv(t)', AnswerInv(t)'
    PROVE  ResourcesInv'
<1>1. TypeOK /\ TenantInv(t) /\ AddressesGivenOnce /\ AppliedUnlessCutOff
  BY DEF ResourcesInv
<1>2. UNCHANGED <<device, wl, rec, kea, unapplied, vm, zone, ptr, unrecorded, faults>>
  BY DEF router, names
<1>3. /\ addr' \in [Slots -> {NoAddr} \cup [status : Statuses, at : Pool]]
      /\ \A x \in Slots : addr'[x].at = addr[x].at /\ (Holds(x)' <=> Holds(x))
      /\ \A x \in Slots \ {s} : addr'[x] = addr[x]
      /\ HeldBy(t)' = HeldBy(t) /\ \A x : HeldTarget(t, x)' <=> HeldTarget(t, x)
  BY <1>1, StatusOnly
<1>4. TypeOK'
  BY <1>1, <1>2, <1>3 DEF TypeOK, ReqType, Locals
<1>5. AddressesGivenOnce'
  BY <1>1, <1>3, NoneGiven
<1>6. AppliedUnlessCutOff'
  BY <1>1, <1>2, AppliedKept
<1>7. \A u \in Tenants \ {t} : Untouched(u)
  BY <1>2, <1>3 DEF Untouched
<1>8. AddressRows(t)'
  BY <1>1, <1>2, <1>3 DEF TenantInv, RowsInv, AddressRows, HeldBy, Held, NameIsFree, Deployed
<1>9. NameRows(t)'
  BY <1>1, <1>2, <1>3 DEF TenantInv, RowsInv, NameRows
<1>10. WorkloadRows(t)'
  BY <1>1, <1>2 DEF TenantInv, RowsInv, WorkloadRows, Deployed
<1> QED BY <1>4, <1>5, <1>6, <1>7, <1>8, <1>9, <1>10, StepKeeps DEF TenantInv, RowsInv

\* A row goes: nothing is reserved by it, no record points at it and the
\* device's name is not published.
LEMMA ReleaseStep ==
    ASSUME ResourcesInv, NEW t \in Tenants, NEW s \in Slots, s[1] = t,
           addr' = [addr EXCEPT ![s] = NoAddr],
           device' \in [Slots -> MACs \cup {None, "absent"}],
           \A x \in Slots \ {s} : device'[x] = device[x],
           UNCHANGED <<wl, rec, router, vm, names, faults>>, ~At(t, "reconfigure"), Ended(t),
           \/ req'[t].call = NoCall
           \/ req[t].call.op \notin {"createAddress", "reconcile", "createWorkload"},
           Holds(s) =>
              /\ Unreserved(s)
              /\ \A x \in Slots : x[1] = t => rec[x] # Net(addr[s].at)
              /\ s \in unrecorded \/ zone[s][1] # "net"
    PROVE  ResourcesInv'
<1>1. TypeOK /\ TenantInv(t) /\ AddressesGivenOnce /\ AppliedUnlessCutOff
  BY DEF ResourcesInv
<1>2. /\ UNCHANGED <<wl, rec, kea, unapplied, vm, zone, ptr, unrecorded, faults>>
      /\ ReqType' /\ \A u \in Tenants \ {t} : req'[u] = req[u]
  BY DEF router, names, Ended
<1>3. /\ addr' \in [Slots -> {NoAddr} \cup [status : Statuses, at : Pool]]
      /\ ~Holds(s)' /\ \A x \in Slots \ {s} : addr'[x] = addr[x] /\ (Holds(x)' <=> Holds(x))
  BY <1>1 DEF TypeOK, Holds, NoAddr
<1>4. TypeOK'
  BY <1>1, <1>2, <1>3 DEF TypeOK, ReqType, Locals
<1>5. AddressesGivenOnce'
  BY <1>1, <1>3, NoneGiven
<1>6. AppliedUnlessCutOff'
  BY <1>1, <1>2, AppliedKept
<1>7. \A u \in Tenants \ {t} : Untouched(u)
  BY <1>2, <1>3 DEF Untouched
<1>8. HeldBy(t)' = HeldBy(t) \ {s}
  BY <1>3 DEF HeldBy, Held
<1>9. AddressRows(t)'
  <2>1. (\A x \in HeldBy(t) : device[x] \in MACs /\ NameIsFree(x))'
    BY <1>1, <1>2, <1>8 DEF TenantInv, RowsInv, AddressRows, HeldBy, Held, NameIsFree, Deployed
  <2>2. (\A k \in kea : k.slot \in Slots /\ k.slot[1] = t => Holds(k.slot) /\ addr[k.slot].at = k.at)'
    BY <1>1, <1>2, <1>3 DEF TenantInv, RowsInv, AddressRows, Unreserved
  <2> QED BY <2>1, <2>2 DEF AddressRows
<1>10. NameRows(t)'
  <2>1. ASSUME NEW x \in Slots, x[1] = t, rec[x][1] = "net" PROVE HeldTarget(t, rec[x])'
    <3>1. PICK y \in HeldBy(t) : rec[x] = Net(addr[y].at)
      BY <1>1, <2>1 DEF TenantInv, RowsInv, NameRows, HeldTarget
    <3>2. y # s /\ y \in HeldBy(t)' /\ addr'[y] = addr[y]
      BY <1>3, <1>8, <2>1, <3>1 DEF HeldBy, Held
    <3> QED BY <1>2, <3>1, <3>2 DEF HeldTarget
  <2>2. (\A x \in Slots \ unrecorded : x[1] = t /\ zone[x][1] = "net" =>
            zone[x] = rec[x] \/ (Holds(x) /\ zone[x] = Net(addr[x].at)))'
    BY <1>1, <1>2, <1>3 DEF TenantInv, RowsInv, NameRows
  <2> QED BY <1>2, <2>1, <2>2 DEF NameRows
<1>11. WorkloadRows(t)'
  BY <1>1, <1>2 DEF TenantInv, RowsInv, WorkloadRows, Deployed
<1>12. TenantInv(t)'
  BY <1>1, <1>9, <1>10, <1>11, EndedKeeps DEF TenantInv, RowsInv
<1> QED BY <1>4, <1>5, <1>6, <1>7, <1>12, StepKeeps

LEMMA DemoteInv ==
    ASSUME ResourcesInv, NEW t \in Tenants, Demote(t)
    PROVE  ResourcesInv'
<1> PICK s : s = req[t].slot
  OBVIOUS
<1>1. /\ TypeOK /\ ReqType /\ TenantInv(t) /\ s \in Slots /\ s[1] = t
      /\ req[t].call \in Calls /\ req[t].call.op \in OpsAt(req[t].pc)
  BY Working DEF Demote, At
<1>2. /\ req[t].call.op = "createDevice" /\ ~At(t, "reconfigure") /\ ~At(t, "idle") /\ ~At(t, "next")
      /\ Moved(t, "search")
  BY <1>1, GotoMoves DEF Demote, At, OpsAt, Points
<1>3. Holds(s) /\ ~req[t].fresh /\ req[t].todo = {}
  BY <1>1, <1>2 DEF Demote, At, TenantInv, AddressInv, CallInv, HoldingPoints
<1>4. addr' = [addr EXCEPT ![s].status = "provisioning"] /\ Holds(s)'
  BY <1>1, <1>3, StatusOnly DEF Demote, Statuses
<1>5. CallInv(t)'
  BY <1>1, <1>2, MovedCall DEF TenantInv, OpsAt, Reserving
<1>6. AddressInv(t)'
  BY <1>2, <1>3, <1>4 DEF AddressInv, Moved, At, HoldingPoints, FreePoints, Arriving, Leaving
<1>7. NameInv(t)'
  BY <1>2, <1>3 DEF NameInv, Moved, At, Arriving, Leaving
<1>8. WorkloadInv(t)' /\ AnswerInv(t)'
  BY <1>2, NoWorkloadWork, NoAnswerWork DEF Moved, WorkloadPoints
<1> QED BY <1>1, <1>2, <1>3, <1>4, <1>5, <1>6, <1>7, <1>8, StatusStep DEF Demote, Moved, Statuses

\* DeleteDevice takes the row of an address with it; there is none.
LEMMA DropDeviceInv ==
    ASSUME ResourcesInv, NEW t \in Tenants, DropDevice(t)
    PROVE  ResourcesInv'
<1> PICK s : s = req[t].slot
  OBVIOUS
<1>1. /\ TypeOK /\ ReqType /\ TenantInv(t) /\ s \in Slots /\ s[1] = t
      /\ req[t].call.op \in OpsAt(req[t].pc)
  BY Working DEF DropDevice, At
<1>2. req[t].call.op = "deleteDevice" /\ ~At(t, "reconfigure") /\ Ended(t) /\ ~Holds(s)
  BY <1>1, AnswerEnds DEF DropDevice, At, OpsAt, TenantInv, AddressInv, FreePoints
<1>3. /\ device' \in [Slots -> MACs \cup {None, "absent"}]
      /\ \A x \in Slots \ {s} : device'[x] = device[x]
  BY <1>1 DEF DropDevice, TypeOK
<1> QED BY <1>1, <1>2, <1>3, ReleaseStep DEF DropDevice

LEMMA WithdrawInv ==
    ASSUME ResourcesInv, NEW t \in Tenants, Withdraw(t)
    PROVE  ResourcesInv'
<1> PICK s : s = req[t].slot
  OBVIOUS
<1>1. /\ TypeOK /\ ReqType /\ TenantInv(t) /\ s \in Slots /\ s[1] = t
  BY Working DEF Withdraw, At
<1>2. Ended(t) /\ req'[t].call = NoCall /\ ~At(t, "reconfigure")
  BY <1>1, CutEnds DEF Withdraw, At
<1>3. Arriving(t)
  BY <1>1 DEF Withdraw, At, Arriving, TenantInv, AddressInv
<1>4. /\ Unreserved(s)
      /\ \A x \in Slots : x[1] = t => rec[x] # Net(addr[s].at)
      /\ s \in unrecorded \/ zone[s][1] # "net"
  BY <1>1, <1>3 DEF TenantInv, AddressInv, NameInv
<1>5. device' \in [Slots -> MACs \cup {None, "absent"}] /\ UNCHANGED device
  BY <1>1 DEF Withdraw, TypeOK
<1> QED BY <1>1, <1>2, <1>4, <1>5, ReleaseStep DEF Withdraw

LEMMA DropAddressInv ==
    ASSUME ResourcesInv, NEW t \in Tenants, DropAddress(t)
    PROVE  ResourcesInv'
<1> PICK s : s = req[t].slot
  OBVIOUS
<1>1. /\ TypeOK /\ ReqType /\ TenantInv(t) /\ s \in Slots /\ s[1] = t
      /\ req[t].call.op \in OpsAt(req[t].pc)
  BY Working DEF DropAddress, At
<1>2. req[t].call.op = "deleteAddress" /\ Ended(t) /\ ~At(t, "reconfigure")
  BY <1>1, AnswerEnds DEF DropAddress, At, OpsAt
<1>3. Leaving(t)
  BY DEF DropAddress, Leaving
<1>4. Unreserved(s) /\ \A x \in Slots : x[1] = t => rec[x] # Net(addr[s].at)
  BY <1>1, <1>3 DEF TenantInv, AddressInv, NameInv
<1>5. zone[s][1] # "net"
  BY <1>1 DEF DropAddress, TenantInv, NameInv, Nowhere
<1>6. device' \in [Slots -> MACs \cup {None, "absent"}] /\ UNCHANGED device
  BY <1>1 DEF DropAddress, TypeOK
<1> QED BY <1>1, <1>2, <1>4, <1>5, <1>6, ReleaseStep DEF DropAddress

LEMMA MarkReadyInv ==
    ASSUME ResourcesInv, NEW t \in Tenants, MarkReady(t)
    PROVE  ResourcesInv'
<1> PICK s : s = req[t].slot
  OBVIOUS
<1>1. /\ TypeOK /\ ReqType /\ TenantInv(t) /\ s \in Slots /\ s[1] = t
      /\ req[t].call \in Calls /\ req[t].call.op \in OpsAt(req[t].pc)
  BY Working DEF MarkReady, At
<1>2. /\ req[t].call.op \in {"createDevice", "createAddress"} /\ s = req[t].call.slot
      /\ Ended(t) /\ ~At(t, "reconfigure")
  BY <1>1, AnswerEnds DEF MarkReady, At, OpsAt, TenantInv, CallInv
<1>3. Holds(s) /\ (req[t].sure => Reserved(s))
  BY <1>1 DEF MarkReady, At, TenantInv, AddressInv, AnswerInv, HoldingPoints
<1>4. /\ addr' = [addr EXCEPT ![s].status = "ready"] /\ "ready" \in Statuses
      /\ addr'[s].status = "ready" /\ addr'[s].at = addr[s].at
  BY <1>1, <1>3, StatusOnly DEF MarkReady, Statuses
<1>5. CallInv(t)' /\ AddressInv(t)' /\ NameInv(t)' /\ WorkloadInv(t)'
  BY <1>1, <1>2, EndedParts DEF TenantInv
<1>6. UNCHANGED <<device, kea, zone>>
  BY DEF MarkReady, router, names
<1>7. (Reserved(s) => Reserved(s)')
  BY <1>4, <1>6 DEF Reserved, Wanted
<1>8. AnswerInv(t)'
  <2>1. CASE req'[t].call = NoCall
    BY <1>2, <2>1, EndedAnswer
  <2>2. CASE req'[t].call = req[t].call /\ req[t].sure
    BY <1>2, <1>3, <1>4, <1>7, <2>2 DEF Ended, AnswerInv, Answered, At
  <2> QED BY <1>2, <2>1, <2>2 DEF Ended
<1> QED BY <1>1, <1>2, <1>3, <1>4, <1>5, <1>8, StatusStep DEF MarkReady, Ended

-----------------------------------------------------------------------------
(* An address is given.                                                      *)

\* What pickAddress answers is in the range and nobody's; the tenant has less
\* than its share and the device's MAC has no address.
LEMMA PickedIsFree ==
    ASSUME NEW s \in Slots, NEW requested, NEW a \in pickAddress(s, requested)
    PROVE  /\ a \in Pool /\ (requested # 0 => a = requested)
           /\ \A h \in Held : addr[h].at # a /\ device[h] # device[s]
           /\ ~(Cardinality(HeldBy(s[1])) >= Quota)
<1>1. a \in Free /\ ~Refused(s) /\ (requested # 0 => a = requested)
  BY DEF pickAddress
<1>2. a \in Pool /\ \A h \in Held : addr[h].at # a
  BY <1>1 DEF Free
<1> QED BY <1>1, <1>2 DEF Refused

\* pickAddress gives up only when it refuses the device, the address asked for
\* is taken, or the range is exhausted; asked for none it gives the lowest.
THEOREM PickAddressAnswers ==
    ASSUME NEW s \in Slots, ~Refused(s)
    PROVE  /\ \A r \in Free : r # 0 => pickAddress(s, r) = {r}
           /\ Free # {} => \E a \in Free : pickAddress(s, 0) = {a} /\ \A b \in Free : a <= b
<1>1. \A r \in Free : r # 0 => pickAddress(s, r) = {r}
  BY DEF pickAddress
<1>2. ASSUME Free # {} PROVE \E a \in Free : pickAddress(s, 0) = {a} /\ \A b \in Free : a <= b
  <2> DEFINE R == {ss \in Nat \X Nat : ss[1] < ss[2]}
  <2>1. Free \in SUBSET Nat
    BY ResourcesAssumption DEF Free, Pool
  <2>2. IsWellFoundedOn(R, Nat)
    BY NatLessThanWellFounded DEF OpToRel
  <2>3. PICK a \in Free : \A b \in Free : ~ (<<b, a>> \in R)
    BY <1>2, <2>1, <2>2, WFMin
  <2>4. ASSUME NEW b \in Free PROVE a <= b
    <3>1. a \in Nat /\ b \in Nat
      BY <2>1, <2>3
    <3>2. ~(b < a)
      BY <2>3, <3>1
    <3> QED BY <3>1, <3>2
  <2>5. \A b \in Free : a <= b
    BY <2>4
  <2>6. ASSUME NEW b \in Free, \A c \in Free : b <= c PROVE b = a
    <3>1. a \in Nat /\ b \in Nat
      BY <2>1, <2>3
    <3>2. a <= b /\ b <= a
      BY <2>3, <2>5, <2>6
    <3> QED BY <3>1, <3>2
  <2>7. {b \in Free : \A c \in Free : b <= c} = {a}
    BY <2>3, <2>5, <2>6
  <2> QED BY <2>3, <2>5, <2>7 DEF pickAddress
<1> QED BY <1>1, <1>2

\* A new row, at an address pickAddress gave.
LEMMA GivenOnce ==
    ASSUME TypeOK, AddressesGivenOnce, NEW t \in Tenants, NEW s \in Slots, s[1] = t, ~Holds(s),
           NEW a \in pickAddress(s, req[t].call.at),
           addr' = [addr EXCEPT ![s] = [status |-> "provisioning", at |-> a]]
    PROVE  /\ addr' \in [Slots -> {NoAddr} \cup [status : Statuses, at : Pool]]
           /\ Holds(s)' /\ addr'[s].at = a
           /\ \A x \in Slots \ {s} : addr'[x] = addr[x] /\ (Holds(x)' <=> Holds(x))
           /\ HeldBy(t)' = HeldBy(t) \cup {s}
           /\ AddressesGivenOnce'
<1>1. /\ a \in Pool /\ \A h \in Held : addr[h].at # a
      /\ ~(Cardinality(HeldBy(t)) >= Quota)
  BY PickedIsFree
<1>2. /\ addr' \in [Slots -> {NoAddr} \cup [status : Statuses, at : Pool]]
      /\ Holds(s)' /\ addr'[s].at = a
      /\ \A x \in Slots \ {s} : addr'[x] = addr[x] /\ (Holds(x)' <=> Holds(x))
  BY <1>1 DEF TypeOK, Holds, Statuses
<1>3. Held' = Held \cup {s} /\ s \notin Held
  BY <1>2 DEF Held
<1>4. HeldBy(t)' = HeldBy(t) \cup {s} /\ s \notin HeldBy(t)
  BY <1>3 DEF HeldBy
<1>5. ASSUME NEW x \in Held', NEW y \in Held', x # y PROVE addr'[x].at # addr'[y].at
  BY <1>1, <1>2, <1>3, <1>5 DEF AddressesGivenOnce, Held
<1>6. ASSUME NEW u \in Tenants PROVE Cardinality(HeldBy(u)') <= Quota
  <2>1. CASE u = t
    <3>1. Cardinality(HeldBy(t)) \in Nat
      BY HeldIsFinite, FS_CardinalityType
    <3>2. Cardinality(HeldBy(t)') = Cardinality(HeldBy(t)) + 1
      BY <1>4, HeldIsFinite, FS_AddElement
    <3> QED BY <1>1, <2>1, <3>1, <3>2, ResourcesAssumption
  <2>2. CASE u # t
    <3>1. HeldBy(u)' = HeldBy(u)
      BY <1>3, <2>2 DEF HeldBy
    <3> QED BY <3>1 DEF AddressesGivenOnce
  <2> QED BY <2>1, <2>2
<1> QED BY <1>2, <1>4, <1>5, <1>6 DEF AddressesGivenOnce

LEMMA AllocateInv ==
    ASSUME ResourcesInv, NEW t \in Tenants, Allocate(t)
    PROVE  ResourcesInv'
<1> PICK s : s = req[t].slot
  OBVIOUS
<1>1. /\ TypeOK /\ ReqType /\ TenantInv(t) /\ AddressesGivenOnce /\ AppliedUnlessCutOff
      /\ s \in Slots /\ s[1] = t /\ req[t].call \in Calls /\ req[t].call.op \in OpsAt(req[t].pc)
  BY Working DEF Allocate, At
<1>2. /\ At(t, "pick") /\ ~At(t, "reconfigure") /\ ~At(t, "idle") /\ ~At(t, "next")
      /\ req[t].call.op = "createAddress" /\ req[t].todo = {}
      /\ device[s] \in MACs /\ req[t].fresh = ~Holds(s) /\ (~Holds(s) => NameIsFree(s))
  BY <1>1 DEF Allocate, At, OpsAt, TenantInv, CallInv, AddressInv
<1>3. UNCHANGED <<device, wl, rec, router, vm, names, faults>>
  BY DEF Allocate
<1>4. UNCHANGED <<device, wl, rec, kea, unapplied, vm, zone, ptr, unrecorded, faults>>
  BY <1>3 DEF router, names
<1>5. Moved(t, "search") => CallInv(t)' /\ WorkloadInv(t)' /\ AnswerInv(t)'
  BY <1>1, <1>2, MovedCall, NoWorkloadWork, NoAnswerWork
     DEF TenantInv, OpsAt, Reserving, Moved, WorkloadPoints
<1>6. CASE Holds(s) /\ addr' = [addr EXCEPT ![s].status = "provisioning"] /\ Goto(t, "search")
  <2>1. Moved(t, "search") /\ Holds(s)' /\ "provisioning" \in Statuses
    BY <1>1, <1>6, GotoMoves, StatusOnly DEF Points, Statuses
  <2>2. AddressInv(t)'
    BY <1>2, <1>6, <2>1 DEF AddressInv, Moved, At, HoldingPoints, FreePoints, Arriving, Leaving
  <2>3. NameInv(t)'
    BY <1>2, <1>6, <2>1 DEF NameInv, Moved, At, Arriving, Leaving
  <2> QED BY <1>1, <1>2, <1>3, <1>5, <1>6, <2>1, <2>2, <2>3, StatusStep DEF Moved
<1>7. ASSUME ~Holds(s), NEW a \in pickAddress(s, req[t].call.at),
             addr' = [addr EXCEPT ![s] = [status |-> "provisioning", at |-> a]], Goto(t, "search")
      PROVE  ResourcesInv'
  <2>1. Moved(t, "search")
    BY <1>1, <1>7, GotoMoves DEF Points
  <2>2. ReqType' /\ \A u \in Tenants \ {t} : req'[u] = req[u]
    BY <2>1 DEF Moved
  <2>3. /\ addr' \in [Slots -> {NoAddr} \cup [status : Statuses, at : Pool]]
        /\ Holds(s)' /\ addr'[s].at = a
        /\ \A x \in Slots \ {s} : addr'[x] = addr[x] /\ (Holds(x)' <=> Holds(x))
        /\ HeldBy(t)' = HeldBy(t) \cup {s} /\ AddressesGivenOnce'
    BY <1>1, <1>7, GivenOnce
  <2>4. TypeOK'
    BY <1>1, <1>4, <2>2, <2>3 DEF TypeOK, ReqType, Locals
  <2>5. AppliedUnlessCutOff'
    BY <1>1, <1>2, <1>4, <2>2, AppliedKept
  <2>6. \A u \in Tenants \ {t} : Untouched(u)
    BY <1>1, <1>4, <2>2, <2>3 DEF Untouched
  <2>7. Unreserved(s)
    BY <1>1, <1>7 DEF TenantInv, RowsInv, AddressRows, Unreserved
  <2>8. AddressRows(t)'
    <3>1. \A x \in Slots : NameIsFree(x)' <=> NameIsFree(x)
      BY <1>4 DEF NameIsFree, Deployed
    <3>2. (\A x \in HeldBy(t) : device[x] \in MACs /\ NameIsFree(x))'
      BY <1>1, <1>2, <1>4, <1>7, <2>3, <3>1 DEF TenantInv, RowsInv, AddressRows, HeldBy, Held
    <3>3. (\A k \in kea : k.slot \in Slots /\ k.slot[1] = t => Holds(k.slot) /\ addr[k.slot].at = k.at)'
      BY <1>1, <1>4, <2>3, <2>7 DEF TenantInv, RowsInv, AddressRows, Unreserved
    <3> QED BY <3>2, <3>3 DEF AddressRows
  <2>9. NameRows(t)'
    <3>1. \A x : HeldTarget(t, x) => HeldTarget(t, x)'
      BY <1>7, <2>3 DEF HeldTarget, HeldBy, Held
    <3> QED BY <1>1, <1>4, <1>7, <2>3, <3>1 DEF TenantInv, RowsInv, NameRows
  <2>10. WorkloadRows(t)'
    BY <1>1, <1>4 DEF TenantInv, RowsInv, WorkloadRows, Deployed
  <2>11. AddressInv(t)'
    BY <1>2, <1>4, <2>1, <2>3, <2>7
       DEF AddressInv, Moved, At, HoldingPoints, FreePoints, Arriving, Leaving, Unreserved
  <2>12. \A x \in Slots : x[1] = t => rec[x] # Net(a)
    <3> SUFFICES ASSUME NEW x \in Slots, x[1] = t, rec[x] = Net(a) PROVE FALSE
      OBVIOUS
    <3>1. HeldTarget(t, rec[x])
      BY <1>1 DEF TenantInv, RowsInv, NameRows, Net
    <3>2. PICK y \in Held : addr[y].at = a
      BY <3>1 DEF HeldTarget, HeldBy, Net
    <3> QED BY <1>7, <3>2, <1>1, PickedIsFree
  <2>13. s \in unrecorded \/ zone[s][1] # "net"
    BY <1>1, <1>2, <1>7 DEF TenantInv, RowsInv, NameRows, NameIsFree, Nowhere
  <2>14. NameInv(t)'
    BY <1>4, <2>1, <2>3, <2>12, <2>13 DEF NameInv, Moved, At, Arriving, Leaving
  <2> QED BY <1>5, <2>1, <2>3, <2>4, <2>5, <2>6, <2>8, <2>9, <2>10, <2>11, <2>14, StepKeeps
          DEF TenantInv, RowsInv
<1>8. CASE Cut(t) /\ UNCHANGED addr
  <2>1. Ended(t) /\ req'[t].call = NoCall
    BY <1>1, <1>8, CutEnds
  <2>2. CallInv(t)' /\ AddressInv(t)' /\ NameInv(t)' /\ WorkloadInv(t)' /\ AnswerInv(t)'
    BY <1>1, <2>1, EndedParts, EndedAnswer DEF TenantInv
  <2> QED BY <1>2, <1>3, <1>8, <2>1, <2>2, QuietStep DEF Ended, registry
<1> QED BY <1>6, <1>7, <1>8 DEF Allocate

-----------------------------------------------------------------------------
(* Reservations.                                                             *)

\* A row with a tenant's description is none of inventory's.
LEMMA OwnRow ==
    ASSUME TypeOK, NEW k \in kea, k.slot \in Slots
    PROVE  k \in Rows
BY ResourcesAssumption DEF TypeOK

LEMMA NoKeaIsNobodys == NoKea.slot \notin Slots
BY ResourcesAssumption DEF NoKea, Slots

LEMMA SearchInv ==
    ASSUME ResourcesInv, NEW t \in Tenants, Search(t)
    PROVE  ResourcesInv'
<1> PICK s : s = req[t].slot
  OBVIOUS
<1>1. /\ TypeOK /\ ReqType /\ TenantInv(t) /\ s \in Slots /\ s[1] = t
      /\ req[t].call \in Calls /\ req[t].call.op \in OpsAt(req[t].pc)
  BY Working DEF Search, At
<1>2. /\ At(t, "search") /\ ~At(t, "reconfigure") /\ ~At(t, "idle") /\ ~At(t, "next")
      /\ req[t].call.op \in Reserving /\ Holds(s)
      /\ UNCHANGED <<registry, router, vm, names, faults>>
  BY <1>1 DEF Search, At, OpsAt, TenantInv, AddressInv, HoldingPoints
<1>3. UNCHANGED <<device, addr, wl, rec, kea, unapplied, vm, zone, ptr, unrecorded, faults>>
  BY <1>2 DEF registry, router, names
<1>4. /\ Holds(s)' /\ (Unreserved(s)' <=> Unreserved(s)) /\ HeldBy(t)' = HeldBy(t)
      /\ \A x \in Slots : (Holds(x)' <=> Holds(x)) /\ (Reserved(x)' <=> Reserved(x)) /\ Wanted(x)' = Wanted(x)
  BY <1>2, <1>3 DEF Holds, Unreserved, HeldBy, Held, Reserved, Wanted
<1>5. /\ \A x \in req[t].todo : x \in Slots /\ x[1] = t /\ Holds(x)
      /\ req[t].fresh => Arriving(t) /\ req[t].call.op = "createAddress"
  BY <1>1, <1>2 DEF TenantInv, AddressInv, TypeOK, Arriving, CallInv
<1>6. CASE req[t].fresh /\ Goto(t, "withdraw")
  <2>1. Moved(t, "withdraw")
    BY <1>1, <1>6, GotoMoves DEF Points
  <2>2. CallInv(t)'
    BY <1>1, <1>2, <1>5, <1>6, <2>1, MovedCall DEF TenantInv, OpsAt
  <2>3. AddressInv(t)'
    BY <1>1, <1>4, <1>5, <1>6, <2>1
       DEF TenantInv, AddressInv, Moved, At, HoldingPoints, FreePoints, Arriving, Leaving
  <2>4. NameInv(t)'
    BY <1>1, <1>3, <1>5, <1>6, <2>1 DEF TenantInv, NameInv, Moved, At, Arriving, Leaving
  <2>5. WorkloadInv(t)' /\ AnswerInv(t)'
    BY <1>5, <1>6, <2>1, NoWorkloadWork, NoAnswerWork DEF Moved, WorkloadPoints
  <2> QED BY <1>2, <2>1, <2>2, <2>3, <2>4, <2>5, QuietStep DEF Moved
<1>7. CASE Cut(t)
  <2>1. Ended(t) /\ req'[t].call = NoCall
    BY <1>1, <1>7, CutEnds
  <2>2. CallInv(t)' /\ AddressInv(t)' /\ NameInv(t)' /\ WorkloadInv(t)' /\ AnswerInv(t)'
    BY <1>1, <2>1, EndedParts, EndedAnswer DEF TenantInv
  <2> QED BY <1>2, <2>1, <2>2, QuietStep DEF Ended
<1>8. CASE Wanted(s) \in kea /\ Goto(t, "publish")
  <2>1. Moved(t, "publish")
    BY <1>1, <1>8, GotoMoves DEF Points
  <2>2. CallInv(t)'
    BY <1>1, <1>2, <2>1, MovedCall DEF TenantInv, OpsAt
  <2>3. AddressInv(t)'
    BY <1>4, <1>5, <2>1 DEF AddressInv, Moved, At, HoldingPoints, FreePoints, Arriving, Leaving
  <2>4. AnswerInv(t)'
    BY <1>1, <1>2, <1>3, <1>4, <1>8, <2>1 DEF TenantInv, AnswerInv, Moved, At, Answered, HeldBy, Held
  <2>5. NameInv(t)' /\ WorkloadInv(t)'
    BY <2>1, NoNameWork, NoWorkloadWork DEF Moved, WorkloadPoints
  <2> QED BY <1>2, <2>1, <2>2, <2>3, <2>4, <2>5, QuietStep DEF Moved
<1>9. ASSUME NEW k \in {x \in kea : x.slot = s} \cup {NoKea},
             req' = [req EXCEPT ![t].pc = "save", ![t].own = k]
      PROVE  ResourcesInv'
  <2>1. k \in Rows \cup {NoKea} /\ (k = NoKea \/ k.slot = s)
    BY <1>1, <1>9, OwnRow
  <2>2. Moved(t, "save") /\ req'[t].own = k
    <3>1. "save" \in Points
      BY DEF Points
    <3> QED BY <1>1, <1>9, <2>1, <3>1, FoundMoves
  <2>3. CallInv(t)'
    BY <1>1, <1>2, <2>2, MovedCall DEF TenantInv, OpsAt
  <2>4. AddressInv(t)'
    BY <1>4, <1>5, <2>1, <2>2 DEF AddressInv, Moved, At, HoldingPoints, FreePoints, Arriving, Leaving
  <2>5. AnswerInv(t)'
    BY <1>1, <1>2, <1>3, <1>4, <2>2 DEF TenantInv, AnswerInv, Moved, At, Answered, HeldBy, Held
  <2>6. NameInv(t)' /\ WorkloadInv(t)'
    BY <2>2, NoNameWork, NoWorkloadWork DEF Moved, WorkloadPoints
  <2> QED BY <1>2, <2>2, <2>3, <2>4, <2>5, <2>6, QuietStep DEF Moved
<1> QED BY <1>6, <1>7, <1>8, <1>9 DEF Search, Wanted

\* A step that changes nothing but the call and the DHCP server, and of its
\* table only rows of t.
LEMMA RouterStep ==
    ASSUME ResourcesInv, NEW t \in Tenants, UNCHANGED <<registry, vm, names, faults>>,
           kea' \subseteq Rows \cup Foreign, unapplied' \in BOOLEAN,
           \A k \in kea \cup kea' : k.slot \in Slots /\ k.slot[1] # t => (k \in kea' <=> k \in kea),
           \A k \in kea' : k.slot \in Slots /\ k.slot[1] = t => Holds(k.slot) /\ addr[k.slot].at = k.at,
           ReqType', \A u \in Tenants \ {t} : req'[u] = req[u], AppliedUnlessCutOff',
           CallInv(t)', AddressInv(t)', NameInv(t)', WorkloadInv(t)', AnswerInv(t)'
    PROVE  ResourcesInv'
<1>1. UNCHANGED <<device, addr, wl, rec, vm, zone, ptr, unrecorded, faults>>
  BY DEF registry, names
<1>2. TypeOK /\ TenantInv(t) /\ AddressesGivenOnce
  BY DEF ResourcesInv
<1>3. TypeOK'
  BY <1>1, <1>2 DEF TypeOK, ReqType, Locals
<1>4. AddressesGivenOnce'
  BY <1>1, <1>2, AddressesKept
<1>5. \A u \in Tenants \ {t} : Untouched(u)
  BY <1>1 DEF Untouched
<1>6. AddressRows(t)'
  BY <1>1, <1>2 DEF TenantInv, RowsInv, AddressRows, HeldBy, Held, Holds, NameIsFree, Deployed
<1>7. NameRows(t)' /\ WorkloadRows(t)'
  BY <1>1, <1>2 DEF TenantInv, RowsInv, NameRows, WorkloadRows, HeldTarget, HeldBy, Held, Holds, Deployed
<1> QED BY <1>3, <1>4, <1>5, <1>6, <1>7, StepKeeps DEF TenantInv, RowsInv

LEMMA SaveInv ==
    ASSUME ResourcesInv, NEW t \in Tenants, Save(t)
    PROVE  ResourcesInv'
<1> PICK s : s = req[t].slot
  OBVIOUS
<1>1. /\ TypeOK /\ ReqType /\ TenantInv(t) /\ s \in Slots /\ s[1] = t
      /\ req[t].call \in Calls /\ req[t].call.op \in OpsAt(req[t].pc)
  BY Working DEF Save, At
<1>2. /\ At(t, "save") /\ ~At(t, "reconfigure") /\ ~At(t, "idle") /\ ~At(t, "next")
      /\ req[t].call.op \in Reserving /\ Holds(s)
      /\ req[t].own = NoKea \/ req[t].own.slot = s
      /\ UNCHANGED <<registry, vm, names, faults>>
  BY <1>1 DEF Save, At, OpsAt, TenantInv, AddressInv, HoldingPoints
<1>3. UNCHANGED <<device, addr, wl, rec, vm, zone, ptr, unrecorded, faults>>
  BY <1>2 DEF registry, names
<1>4. CASE /\ kea' = (kea \ {req[t].own}) \cup {Wanted(s)}
           /\ unapplied' = TRUE
           /\ req' = [req EXCEPT ![t].pc = "reconfigure", ![t].own = NoKea]
  <2>1. Moved(t, "reconfigure")
    BY <1>1, <1>4, FoundMoves DEF Points
  <2>2. Wanted(s) \in Rows /\ Wanted(s).slot = s /\ Wanted(s).at = addr[s].at
    <3>1. device[s] \in MACs
      BY <1>1, <1>2 DEF TenantInv, RowsInv, AddressRows, HeldBy, Held
    <3>2. addr[s].at \in Pool
      BY <1>1, <1>2 DEF TypeOK, Holds, NoAddr
    <3> QED BY <1>1, <3>1, <3>2 DEF Wanted, Rows
  <2>3. kea' \subseteq Rows \cup Foreign /\ unapplied' \in BOOLEAN
    BY <1>1, <1>4, <2>2 DEF TypeOK
  <2>4. \A k \in kea \cup kea' : k.slot \in Slots /\ k.slot # s => (k \in kea' <=> k \in kea)
    BY <1>2, <1>4, <2>2, NoKeaIsNobodys
  <2>5. \A k \in kea' : k.slot \in Slots /\ k.slot[1] = t => Holds(k.slot) /\ addr[k.slot].at = k.at
    BY <1>1, <1>2, <1>4, <2>2 DEF TenantInv, RowsInv, AddressRows
  <2>6. AppliedUnlessCutOff'
    BY <2>1 DEF AppliedUnlessCutOff, Moved, At
  <2>7. CallInv(t)'
    BY <1>1, <1>2, <2>1, MovedCall DEF TenantInv, OpsAt
  <2>8. AddressInv(t)'
    <3>1. \A x \in req[t].todo : x[1] = t /\ Holds(x)
      BY <1>1 DEF TenantInv, AddressInv
    <3>2. \A x \in Slots : Holds(x)' <=> Holds(x)
      BY <1>3 DEF Holds
    <3>3. req[t].todo \in SUBSET Slots
      BY <1>1 DEF TypeOK
    <3> QED BY <1>1, <1>2, <2>1, <3>1, <3>2, <3>3
            DEF AddressInv, Moved, At, HoldingPoints, FreePoints, Arriving, Leaving, Reserving
  <2>9. NameInv(t)'
    BY <1>2, <2>1 DEF NameInv, Moved, At, Arriving, Leaving, Reserving
  <2>10. WorkloadInv(t)'
    BY <2>1, NoWorkloadWork DEF Moved, WorkloadPoints
  <2>11. AnswerInv(t)'
    <3>1. Wanted(s)' \in kea' /\ HeldBy(t)' = HeldBy(t)
      BY <1>3, <1>4 DEF Wanted, HeldBy, Held, Holds
    <3>2. \A x \in Slots \ {s} : Reserved(x) => Reserved(x)'
      <4>1. \A x \in Slots : Wanted(x)' = Wanted(x) /\ Wanted(x).slot = x
        BY <1>3 DEF Wanted
      <4>2. \A x \in Slots \ {s} : Wanted(x) \in kea => Wanted(x) \in kea'
        BY <2>4, <4>1
      <4> QED BY <1>3, <4>1, <4>2 DEF Reserved
    <3>3. \A x \in HeldBy(t) : x \in Slots
      BY DEF HeldBy, Held
    <3> QED BY <1>1, <1>2, <2>1, <3>1, <3>2, <3>3 DEF TenantInv, AnswerInv, Moved, At, Answered
  <2> QED BY <1>1, <1>2, <2>1, <2>3, <2>4, <2>5, <2>6, <2>7, <2>8, <2>9, <2>10, <2>11, RouterStep DEF Moved
<1>5. CASE Cut(t) /\ UNCHANGED router
  <2>1. Ended(t) /\ req'[t].call = NoCall
    BY <1>1, <1>5, CutEnds
  <2>2. CallInv(t)' /\ AddressInv(t)' /\ NameInv(t)' /\ WorkloadInv(t)' /\ AnswerInv(t)'
    BY <1>1, <2>1, EndedParts, EndedAnswer DEF TenantInv
  <2> QED BY <1>2, <1>5, <2>1, <2>2, QuietStep DEF Ended
<1> QED BY <1>4, <1>5 DEF Save

LEMMA ReconfigureInv ==
    ASSUME ResourcesInv, NEW t \in Tenants, Reconfigure(t)
    PROVE  ResourcesInv'
<1> PICK s : s = req[t].slot
  OBVIOUS
<1> DEFINE point == IF req[t].call.op = "deleteAddress" THEN "unpublish" ELSE "publish"
<1>1. /\ TypeOK /\ ReqType /\ TenantInv(t) /\ s \in Slots /\ s[1] = t
      /\ req[t].call \in Calls /\ req[t].call.op \in OpsAt(req[t].pc)
  BY Working DEF Reconfigure, At
<1>2. /\ At(t, "reconfigure") /\ ~At(t, "idle") /\ ~At(t, "next") /\ Holds(s)
      /\ req[t].call.op \in Reserving \cup {"deleteAddress"}
      /\ UNCHANGED <<registry, vm, names, faults>> /\ UNCHANGED kea /\ unapplied' = FALSE
  BY <1>1 DEF Reconfigure, At, OpsAt, TenantInv, AddressInv, HoldingPoints
<1>3. UNCHANGED <<device, addr, wl, rec, kea, vm, zone, ptr, unrecorded, faults>>
  BY <1>2 DEF registry, names
<1>4. /\ \/ point = "unpublish" /\ req[t].call.op = "deleteAddress" /\ Leaving(t)
         \/ point = "publish" /\ req[t].call.op \in Reserving
      /\ point \in Points /\ point # "idle" /\ req[t].call.op \in OpsAt(point)
  BY <1>2 DEF Points, Leaving, OpsAt, Reserving
<1>5. Goto(t, point)
  BY DEF Reconfigure
<1> HIDE DEF point
<1>6. Moved(t, point)
  BY <1>1, <1>4, <1>5, GotoMoves
<1>7. CallInv(t)'
  BY <1>1, <1>2, <1>4, <1>6, MovedCall DEF TenantInv
<1>8. /\ HeldBy(t)' = HeldBy(t) /\ (Unreserved(s)' <=> Unreserved(s))
      /\ \A x \in Slots : (Holds(x)' <=> Holds(x)) /\ (Reserved(x)' <=> Reserved(x)) /\ Wanted(x)' = Wanted(x)
  BY <1>3 DEF Holds, Unreserved, HeldBy, Held, Reserved, Wanted
<1>9. AddressInv(t)'
  <2>1. \A x \in req[t].todo : x \in Slots /\ x[1] = t /\ Holds(x)
    BY <1>1 DEF TenantInv, AddressInv, TypeOK
  <2>2. Leaving(t) => Unreserved(s)
    BY <1>1 DEF TenantInv, AddressInv
  <2> QED BY <1>1, <1>2, <1>4, <1>6, <1>8, <2>1, <2>2
          DEF AddressInv, Moved, At, HoldingPoints, FreePoints, Arriving, Leaving
<1>10. NameInv(t)'
  <2>1. Leaving(t) => \A x \in Slots : x[1] = t => rec[x] # Net(addr[s].at)
    BY <1>1 DEF TenantInv, NameInv
  <2> QED BY <1>3, <1>4, <1>6, <2>1 DEF NameInv, Moved, At, Arriving, Leaving
<1>11. WorkloadInv(t)'
  BY <1>4, <1>6, NoWorkloadWork DEF Moved, WorkloadPoints
<1>12. AnswerInv(t)'
  <2>1. \A x \in HeldBy(t) : x \in Slots
    BY DEF HeldBy, Held
  <2> QED BY <1>1, <1>2, <1>3, <1>4, <1>6, <1>8, <2>1
          DEF TenantInv, AnswerInv, Moved, At, Answered, Reserving
<1>13. AppliedUnlessCutOff'
  BY <1>2 DEF AppliedUnlessCutOff
<1>14. kea' \subseteq Rows \cup Foreign
  BY <1>1, <1>2 DEF TypeOK
<1>15. \A k \in kea' : k.slot \in Slots /\ k.slot[1] = t => Holds(k.slot) /\ addr[k.slot].at = k.at
  BY <1>1, <1>2 DEF TenantInv, RowsInv, AddressRows
<1> QED BY <1>2, <1>6, <1>7, <1>9, <1>10, <1>11, <1>12, <1>13, <1>14, <1>15, RouterStep DEF Moved

LEMMA UnreserveInv ==
    ASSUME ResourcesInv, NEW t \in Tenants, Unreserve(t)
    PROVE  ResourcesInv'
<1> PICK s : s = req[t].slot
  OBVIOUS
<1> PICK mine : mine = {k \in kea : k.slot = s}
  OBVIOUS
<1> DEFINE point == IF mine = {} THEN "unpublish" ELSE "reconfigure"
<1>1. /\ TypeOK /\ ReqType /\ TenantInv(t) /\ AppliedUnlessCutOff /\ s \in Slots /\ s[1] = t
      /\ req[t].call \in Calls /\ req[t].call.op \in OpsAt(req[t].pc)
  BY Working DEF Unreserve, At
<1>2. /\ At(t, "unreserve") /\ ~At(t, "reconfigure") /\ ~At(t, "idle") /\ ~At(t, "next") /\ Holds(s)
      /\ req[t].call.op = "deleteAddress" /\ UNCHANGED <<registry, vm, names, faults>>
  BY <1>1 DEF Unreserve, At, OpsAt, TenantInv, AddressInv, HoldingPoints
<1>3. UNCHANGED <<device, addr, wl, rec, vm, zone, ptr, unrecorded, faults>>
  BY <1>2 DEF registry, names
<1>4. kea' = kea \ mine /\ unapplied' = (unapplied \/ mine # {}) /\ Goto(t, point)
  BY DEF Unreserve
<1>5. /\ point \in {"unpublish", "reconfigure"} /\ point \in Points
      /\ req[t].call.op \in OpsAt(point)
      /\ (mine # {} => point = "reconfigure")
  BY <1>2 DEF Points, OpsAt
<1> HIDE DEF point
<1>6. Moved(t, point)
  BY <1>1, <1>4, <1>5, GotoMoves
<1>7. CallInv(t)'
  BY <1>1, <1>2, <1>5, <1>6, MovedCall DEF TenantInv
<1>8. Unreserved(s)' /\ Holds(s)' /\ req[t].todo = {} /\ ~req[t].fresh
  BY <1>1, <1>2, <1>3, <1>4 DEF Unreserved, Holds, TenantInv, CallInv
<1>9. AddressInv(t)'
  BY <1>5, <1>6, <1>8 DEF AddressInv, Moved, At, HoldingPoints, FreePoints, Arriving, Leaving
<1>10. NameInv(t)'
  <2>1. \A x \in Slots : x[1] = t => rec[x] # Net(addr[s].at)
    BY <1>1, <1>2 DEF TenantInv, NameInv
  <2> QED BY <1>3, <1>5, <1>6, <1>8, <2>1 DEF NameInv, Moved, At, Arriving, Leaving
<1>11. WorkloadInv(t)'
  BY <1>5, <1>6, NoWorkloadWork DEF Moved, WorkloadPoints
<1>12. AnswerInv(t)'
  BY <1>2, <1>5, <1>6 DEF AnswerInv, Moved, At, Answered, Reserving
<1>13. AppliedUnlessCutOff'
  <2>1. CASE mine # {}
    BY <1>5, <1>6, <2>1 DEF AppliedUnlessCutOff, Moved, At
  <2>2. CASE mine = {}
    BY <1>1, <1>2, <1>4, <1>6, <2>2 DEF AppliedUnlessCutOff, Moved, At
  <2> QED BY <2>1, <2>2
<1>14. kea' \subseteq Rows \cup Foreign /\ unapplied' \in BOOLEAN
  BY <1>1, <1>4 DEF TypeOK
<1>15. \A k \in kea' : k.slot \in Slots /\ k.slot[1] = t => Holds(k.slot) /\ addr[k.slot].at = k.at
  BY <1>1, <1>4 DEF TenantInv, RowsInv, AddressRows
<1>16. \A k \in kea \cup kea' : k.slot \in Slots /\ k.slot[1] # t => (k \in kea' <=> k \in kea)
  BY <1>1, <1>4
<1> QED BY <1>2, <1>6, <1>7, <1>9, <1>10, <1>11, <1>12, <1>13, <1>14, <1>15, <1>16, RouterStep DEF Moved

LEMMA NextAddressInv ==
    ASSUME ResourcesInv, NEW t \in Tenants, NextAddress(t)
    PROVE  ResourcesInv'
<1>1. TypeOK /\ ReqType /\ TenantInv(t)
  BY DEF ResourcesInv, TypeOK, ReqType, Locals
<1>2. /\ At(t, "next") /\ ~At(t, "idle") /\ ~At(t, "reconfigure") /\ req[t].call \in Calls
      /\ req[t].call.op = "reconcile" /\ ~req[t].fresh
      /\ UNCHANGED <<registry, router, vm, names, faults>>
  BY <1>1 DEF NextAddress, TenantInv, CallInv, At, OpsAt
<1>3. \A x \in req[t].todo : x \in Slots /\ x[1] = t /\ Holds(x)
  BY <1>1 DEF TenantInv, AddressInv, TypeOK
<1>4. /\ HeldBy(t)' = HeldBy(t)
      /\ \A x \in Slots : (Holds(x)' <=> Holds(x)) /\ (Reserved(x)' <=> Reserved(x))
  BY <1>2 DEF registry, router, names, Holds, HeldBy, Held, Reserved, Wanted
<1>5. \A x \in HeldBy(t) : x \in Slots
  BY DEF HeldBy, Held
<1>6. req[t].sure => \A x \in HeldBy(t) \ req[t].todo : Reserved(x)
  BY <1>1, <1>2 DEF TenantInv, AnswerInv
<1>7. ASSUME NEW s \in req[t].todo,
             req' = [req EXCEPT ![t].pc = "search", ![t].slot = s, ![t].todo = @ \ {s}]
      PROVE  ResourcesInv'
  <2> DEFINE q == [req[t] EXCEPT !.pc = "search", !.slot = s, !.todo = @ \ {s}]
  <2>1. req[t] \in Locals /\ s \in Slots /\ s[1] = t /\ Holds(s)
    BY <1>1, <1>3 DEF ReqType
  <2>2. q \in Locals
    BY <2>1 DEF Locals, Points
  <2>3. /\ q.pc = "search" /\ q.slot = s /\ q.todo = req[t].todo \ {s} /\ q.call = req[t].call
        /\ q.fresh = req[t].fresh /\ q.sure = req[t].sure
    BY <2>1 DEF Locals
  <2>4. req' = [req EXCEPT ![t] = q]
    BY <1>1, <1>7 DEF ReqType
  <2> HIDE DEF q
  <2>5. ReqType' /\ req'[t] = q /\ \A u \in Tenants \ {t} : req'[u] = req[u]
    BY <1>1, <2>2, <2>4 DEF ReqType
  <2>6. CallInv(t)'
    BY <1>1, <1>2, <2>1, <2>3, <2>5 DEF TenantInv, CallInv, At, OpsAt, Reserving
  <2>7. AddressInv(t)'
    BY <1>2, <1>3, <1>4, <2>1, <2>3, <2>5
       DEF AddressInv, At, HoldingPoints, FreePoints, Arriving, Leaving
  <2>8. NameInv(t)'
    BY <1>2, <2>3, <2>5 DEF NameInv, At, Arriving, Leaving
  <2>9. WorkloadInv(t)'
    BY <2>3, <2>5, NoWorkloadWork DEF WorkloadPoints
  <2>10. AnswerInv(t)'
    BY <1>4, <1>5, <1>6, <2>3, <2>5 DEF AnswerInv, At, Answered
  <2> QED BY <1>2, <2>5, <2>6, <2>7, <2>8, <2>9, <2>10, QuietStep
<1>8. CASE req[t].todo = {} /\ Answer(t)
  <2>1. Ended(t)
    BY <1>1, <1>8, AnswerEnds
  <2>2. CallInv(t)' /\ AddressInv(t)' /\ NameInv(t)' /\ WorkloadInv(t)'
    BY <1>1, <2>1, EndedParts DEF TenantInv
  <2>3. AnswerInv(t)'
    <3>1. CASE req'[t].call = NoCall
      BY <2>1, <3>1, EndedAnswer
    <3>2. CASE req'[t].call = req[t].call /\ req[t].sure
      BY <1>2, <1>4, <1>5, <1>6, <1>8, <2>1, <3>2 DEF Ended, AnswerInv, At, Answered
    <3> QED BY <2>1, <3>1, <3>2 DEF Ended
  <2> QED BY <1>2, <2>1, <2>2, <2>3, QuietStep DEF Ended
<1> QED BY <1>7, <1>8 DEF NextAddress

-----------------------------------------------------------------------------
(* Names.                                                                    *)

\* A step that publishes a name, or takes one out of the zone: an address of
\* the range is the record's or the device's own.
LEMMA ZoneStep ==
    ASSUME ResourcesInv, NEW t \in Tenants, NEW s \in Slots, s[1] = t,
           NEW x \in Targets \cup {Nowhere}, zone' = [zone EXCEPT ![s] = x],
           unrecorded' = unrecorded \ {s} \/ unrecorded' = unrecorded \cup {s},
           s \notin unrecorded' /\ x[1] = "net" => x = rec[s] \/ (Holds(s) /\ x = Net(addr[s].at)),
           UNCHANGED <<registry, router, vm, ptr, faults>>,
           ReqType', \A u \in Tenants \ {t} : req'[u] = req[u], ~At(t, "reconfigure"),
           CallInv(t)', AddressInv(t)', NameInv(t)', WorkloadInv(t)', AnswerInv(t)'
    PROVE  ResourcesInv'
<1>1. UNCHANGED <<device, addr, wl, rec, kea, unapplied, vm, ptr, faults>>
  BY DEF registry, router
<1>2. TypeOK /\ TenantInv(t) /\ AddressesGivenOnce /\ AppliedUnlessCutOff
  BY DEF ResourcesInv
<1>3. zone'[s] = x /\ \A y \in Slots \ {s} : zone'[y] = zone[y] /\ (y \in unrecorded' <=> y \in unrecorded)
  BY <1>2 DEF TypeOK
<1>4. TypeOK'
  BY <1>1, <1>2 DEF TypeOK, ReqType, Locals
<1>5. AddressesGivenOnce' /\ AppliedUnlessCutOff'
  BY <1>1, <1>2, AddressesKept, AppliedKept
<1>6. \A u \in Tenants \ {t} : Untouched(u)
  BY <1>1, <1>3 DEF Untouched
<1>7. AddressRows(t)' /\ WorkloadRows(t)'
  BY <1>1, <1>2 DEF TenantInv, RowsInv, AddressRows, WorkloadRows, HeldBy, Held, Holds, NameIsFree, Deployed
<1>8. NameRows(t)'
  <2>1. (\A y \in Slots : y[1] = t /\ rec[y][1] = "net" => HeldTarget(t, rec[y]))'
    BY <1>1, <1>2 DEF TenantInv, RowsInv, NameRows, HeldTarget, HeldBy, Held, Holds
  <2>2. (\A y \in Slots \ unrecorded : y[1] = t /\ zone[y][1] = "net" =>
            zone[y] = rec[y] \/ (Holds(y) /\ zone[y] = Net(addr[y].at)))'
    BY <1>1, <1>2, <1>3 DEF TenantInv, RowsInv, NameRows, Holds
  <2> QED BY <2>1, <2>2 DEF NameRows
<1> QED BY <1>4, <1>5, <1>6, <1>7, <1>8, StepKeeps DEF TenantInv, RowsInv

LEMMA PublishInv ==
    ASSUME ResourcesInv, NEW t \in Tenants, Publish(t)
    PROVE  ResourcesInv'
<1> PICK s : s = req[t].slot
  OBVIOUS
<1> DEFINE point == IF req[t].call.op = "reconcile" THEN "next" ELSE "markReady"
<1>1. /\ TypeOK /\ ReqType /\ TenantInv(t) /\ s \in Slots /\ s[1] = t
      /\ req[t].call \in Calls /\ req[t].call.op \in OpsAt(req[t].pc)
  BY Working DEF Publish, At
<1>2. /\ At(t, "publish") /\ ~At(t, "reconfigure") /\ ~At(t, "idle") /\ ~At(t, "next") /\ Holds(s)
      /\ req[t].call.op \in Reserving /\ (req[t].sure => Wanted(s) \in kea)
      /\ UNCHANGED <<registry, router, vm, ptr, faults>>
  BY <1>1 DEF Publish, At, OpsAt, TenantInv, AddressInv, AnswerInv, HoldingPoints
<1>3. UNCHANGED <<device, addr, wl, rec, kea, unapplied, vm, ptr, faults>>
  BY <1>2 DEF registry, router
<1>4. /\ \/ point = "next" /\ req[t].call.op = "reconcile"
         \/ point = "markReady" /\ req[t].call.op \in {"createDevice", "createAddress"}
      /\ point \in Points /\ req[t].call.op \in OpsAt(point)
  BY <1>2 DEF Points, OpsAt, Reserving
<1>5. Goto(t, point) /\ zone' = [zone EXCEPT ![s] = Net(addr[s].at)] /\ unrecorded' = unrecorded \ {s}
  BY DEF Publish
<1> HIDE DEF point
<1>6. Moved(t, point)
  BY <1>1, <1>4, <1>5, GotoMoves
<1>7. Net(addr[s].at) \in Targets
  BY <1>1, <1>2 DEF TypeOK, Holds, NoAddr, Targets, Net
<1>8. zone'[s] = Net(addr[s].at) /\ \A x \in Slots \ {s} : zone'[x] = zone[x]
  BY <1>1, <1>5 DEF TypeOK
<1>9. CallInv(t)'
  BY <1>1, <1>2, <1>4, <1>6, MovedCall DEF TenantInv
<1>10. HeldBy(t)' = HeldBy(t) /\ \A x \in Slots : (Holds(x)' <=> Holds(x)) /\ Wanted(x)' = Wanted(x)
  BY <1>3 DEF Holds, HeldBy, Held, Wanted
<1>11. AddressInv(t)'
  <2>1. \A x \in req[t].todo : x \in Slots /\ x[1] = t /\ Holds(x)
    BY <1>1 DEF TenantInv, AddressInv, TypeOK
  <2> QED BY <1>1, <1>2, <1>4, <1>6, <1>10, <2>1
          DEF AddressInv, Moved, At, HoldingPoints, FreePoints, Arriving, Leaving
<1>12. NameInv(t)' /\ WorkloadInv(t)'
  BY <1>4, <1>6, NoNameWork, NoWorkloadWork DEF Moved, WorkloadPoints
<1>13. AnswerInv(t)'
  <2>1. \A x \in HeldBy(t) : x \in Slots
    BY DEF HeldBy, Held
  <2>2. req[t].sure => Reserved(s)'
    BY <1>2, <1>3, <1>8 DEF Reserved, Wanted
  <2>3. \A x \in Slots \ {s} : Reserved(x) => Reserved(x)'
    BY <1>3, <1>8 DEF Reserved, Wanted
  <2>4. req[t].call.op = "reconcile" /\ req[t].sure => \A x \in HeldBy(t) \ req[t].todo : Reserved(x)'
    BY <1>1, <1>2, <2>1, <2>2, <2>3 DEF TenantInv, AnswerInv
  <2> QED BY <1>4, <1>6, <1>10, <2>2, <2>4 DEF AnswerInv, Moved, At, Answered
<1> QED BY <1>1, <1>2, <1>5, <1>6, <1>7, <1>9, <1>11, <1>12, <1>13, ZoneStep DEF Moved

LEMMA UnpublishInv ==
    ASSUME ResourcesInv, NEW t \in Tenants, Unpublish(t)
    PROVE  ResourcesInv'
<1> PICK s : s = req[t].slot
  OBVIOUS
<1>1. /\ TypeOK /\ ReqType /\ TenantInv(t) /\ s \in Slots /\ s[1] = t
      /\ req[t].call \in Calls /\ req[t].call.op \in OpsAt(req[t].pc)
  BY Working DEF Unpublish, At
<1>2. /\ At(t, "unpublish") /\ ~At(t, "reconfigure") /\ ~At(t, "idle") /\ ~At(t, "next") /\ Holds(s)
      /\ req[t].call.op = "deleteAddress" /\ UNCHANGED <<registry, router, vm, ptr, faults>>
      /\ zone' = [zone EXCEPT ![s] = Nowhere] /\ unrecorded' = unrecorded \ {s}
  BY <1>1 DEF Unpublish, At, OpsAt, TenantInv, AddressInv, HoldingPoints
<1>3. Moved(t, "dropAddress")
  BY <1>1, GotoMoves DEF Unpublish, Points
<1>4. CallInv(t)'
  BY <1>1, <1>2, <1>3, MovedCall DEF TenantInv, OpsAt
<1>5. /\ Unreserved(s) /\ \A x \in Slots : x[1] = t => rec[x] # Net(addr[s].at)
      /\ req[t].todo = {} /\ ~req[t].fresh
  BY <1>1, <1>2 DEF TenantInv, CallInv, AddressInv, NameInv, Leaving
<1>6. UNCHANGED <<addr, rec, kea>> /\ zone'[s] = Nowhere
  BY <1>1, <1>2 DEF registry, router, TypeOK
<1>7. AddressInv(t)'
  BY <1>2, <1>3, <1>5, <1>6
     DEF AddressInv, Moved, At, HoldingPoints, FreePoints, Arriving, Leaving, Holds, Unreserved
<1>8. NameInv(t)'
  BY <1>3, <1>5, <1>6 DEF NameInv, Moved, At, Arriving, Leaving
<1>9. WorkloadInv(t)' /\ AnswerInv(t)'
  BY <1>2, <1>3, NoWorkloadWork, NoAnswerWork DEF Moved, WorkloadPoints
<1>10. Nowhere[1] # "net"
  BY DEF Nowhere
<1> QED BY <1>1, <1>2, <1>3, <1>4, <1>7, <1>8, <1>9, <1>10, ZoneStep DEF Moved

LEMMA PublishRecordInv ==
    ASSUME ResourcesInv, NEW t \in Tenants, PublishRecord(t)
    PROVE  ResourcesInv'
<1> PICK s : s = req[t].slot
  OBVIOUS
<1>1. /\ TypeOK /\ ReqType /\ TenantInv(t) /\ s \in Slots /\ s[1] = t
      /\ req[t].call \in Calls /\ req[t].call.op \in OpsAt(req[t].pc)
  BY Working DEF PublishRecord, At
<1>2. /\ At(t, "pubRecord") /\ ~At(t, "reconfigure") /\ ~At(t, "idle") /\ ~At(t, "next") /\ ~Holds(s)
      /\ req[t].call.op = "putRecord" /\ UNCHANGED <<registry, router, vm, ptr, faults>>
      /\ zone' = [zone EXCEPT ![s] = req[t].call.to] /\ unrecorded' = unrecorded \cup {s}
  BY <1>1 DEF PublishRecord, At, OpsAt, TenantInv, AddressInv, FreePoints
<1>3. Moved(t, "putRow") /\ req[t].call.to \in Targets \cup {Nowhere}
  BY <1>1, GotoMoves, CallIsTyped DEF PublishRecord, Points
<1>4. CallInv(t)'
  BY <1>1, <1>2, <1>3, MovedCall DEF TenantInv, OpsAt
<1>5. UNCHANGED addr /\ zone'[s] = req[t].call.to /\ req[t].todo = {} /\ ~req[t].fresh
  BY <1>1, <1>2 DEF registry, TypeOK, TenantInv, CallInv
<1>6. AddressInv(t)'
  BY <1>2, <1>3, <1>5 DEF AddressInv, Moved, At, HoldingPoints, FreePoints, Arriving, Leaving, Holds
<1>7. NameInv(t)'
  <2>1. req[t].call.to[1] = "own" \/ HeldTarget(t, req[t].call.to)
    BY <1>1, <1>2 DEF TenantInv, NameInv
  <2>2. \A x : HeldTarget(t, x)' <=> HeldTarget(t, x)
    BY <1>5 DEF HeldTarget, HeldBy, Held, Holds
  <2> QED BY <1>3, <1>5, <2>1, <2>2 DEF NameInv, Moved, At, Arriving, Leaving
<1>8. WorkloadInv(t)' /\ AnswerInv(t)'
  BY <1>2, <1>3, NoWorkloadWork, NoAnswerWork DEF Moved, WorkloadPoints
<1> QED BY <1>1, <1>2, <1>3, <1>4, <1>6, <1>7, <1>8, ZoneStep DEF Moved

LEMMA UnpublishRecordInv ==
    ASSUME ResourcesInv, NEW t \in Tenants, UnpublishRecord(t)
    PROVE  ResourcesInv'
<1> PICK s : s = req[t].slot
  OBVIOUS
<1>1. /\ TypeOK /\ ReqType /\ TenantInv(t) /\ s \in Slots /\ s[1] = t
      /\ req[t].call \in Calls /\ req[t].call.op \in OpsAt(req[t].pc)
  BY Working DEF UnpublishRecord, At
<1>2. /\ At(t, "unpubRecord") /\ ~At(t, "reconfigure") /\ ~At(t, "idle") /\ ~At(t, "next")
      /\ req[t].call.op = "deleteRecord" /\ UNCHANGED <<registry, router, vm, ptr, faults>>
      /\ zone' = [zone EXCEPT ![s] = Nowhere] /\ unrecorded' = unrecorded \ {s}
  BY <1>1 DEF UnpublishRecord, At, OpsAt
<1>3. Moved(t, "dropRow")
  BY <1>1, GotoMoves DEF UnpublishRecord, Points
<1>4. CallInv(t)'
  BY <1>1, <1>2, <1>3, MovedCall DEF TenantInv, OpsAt
<1>5. zone'[s] = Nowhere /\ Nowhere[1] # "net"
  BY <1>1, <1>2 DEF TypeOK, Nowhere
<1>6. NameInv(t)'
  BY <1>3, <1>5 DEF NameInv, Moved, At, Arriving, Leaving
<1>7. AddressInv(t)' /\ WorkloadInv(t)' /\ AnswerInv(t)'
  BY <1>2, <1>3, <1>4, NoAddressWork, NoWorkloadWork, NoAnswerWork DEF Moved, WorkloadPoints
<1> QED BY <1>1, <1>2, <1>3, <1>4, <1>5, <1>6, <1>7, ZoneStep DEF Moved

\* The last step of a call about a record: the name in the zone is what the
\* row says, or there is none.
LEMMA RecordStep ==
    ASSUME ResourcesInv, NEW t \in Tenants, NEW s \in Slots, s[1] = t,
           NEW x \in Targets \cup {Nowhere}, rec' = [rec EXCEPT ![s] = x],
           unrecorded' = unrecorded \/ unrecorded' = unrecorded \ {s},
           x # Nowhere => ~Holds(s), x[1] = "net" => HeldTarget(t, x), zone[s] = x,
           UNCHANGED <<device, addr, wl, router, vm, zone, ptr, faults>>,
           ~At(t, "reconfigure"), Ended(t),
           req[t].call.op \notin {"createAddress", "reconcile", "createWorkload"}
    PROVE  ResourcesInv'
<1>1. /\ UNCHANGED <<device, addr, wl, kea, unapplied, vm, zone, ptr, faults>>
      /\ ReqType' /\ \A u \in Tenants \ {t} : req'[u] = req[u]
  BY DEF router, Ended
<1>2. TypeOK /\ TenantInv(t) /\ AddressesGivenOnce /\ AppliedUnlessCutOff
  BY DEF ResourcesInv
<1>3. rec'[s] = x /\ \A y \in Slots \ {s} : rec'[y] = rec[y] /\ (y \in unrecorded' <=> y \in unrecorded)
  BY <1>2 DEF TypeOK
<1>4. TypeOK'
  BY <1>1, <1>2 DEF TypeOK, ReqType, Locals
<1>5. AddressesGivenOnce' /\ AppliedUnlessCutOff'
  BY <1>1, <1>2, AddressesKept, AppliedKept
<1>6. \A u \in Tenants \ {t} : Untouched(u)
  BY <1>1, <1>3 DEF Untouched
<1>7. HeldBy(t)' = HeldBy(t) /\ \A y \in Slots : (Holds(y)' <=> Holds(y)) /\ (Deployed(y)' <=> Deployed(y))
  BY <1>1 DEF HeldBy, Held, Holds, Deployed
<1>8. AddressRows(t)'
  <2>1. (\A y \in HeldBy(t) : device[y] \in MACs /\ NameIsFree(y))'
    BY <1>1, <1>2, <1>3, <1>7 DEF TenantInv, RowsInv, AddressRows, HeldBy, Held, NameIsFree
  <2>2. (\A k \in kea : k.slot \in Slots /\ k.slot[1] = t => Holds(k.slot) /\ addr[k.slot].at = k.at)'
    BY <1>1, <1>2, <1>7 DEF TenantInv, RowsInv, AddressRows
  <2> QED BY <2>1, <2>2 DEF AddressRows
<1>9. NameRows(t)'
  <2>1. \A y : HeldTarget(t, y)' <=> HeldTarget(t, y)
    BY <1>1, <1>7 DEF HeldTarget
  <2>2. (\A y \in Slots : y[1] = t /\ rec[y][1] = "net" => HeldTarget(t, rec[y]))'
    BY <1>2, <1>3, <2>1 DEF TenantInv, RowsInv, NameRows
  <2>3. (\A y \in Slots \ unrecorded : y[1] = t /\ zone[y][1] = "net" =>
            zone[y] = rec[y] \/ (Holds(y) /\ zone[y] = Net(addr[y].at)))'
    BY <1>1, <1>2, <1>3, <1>7 DEF TenantInv, RowsInv, NameRows
  <2> QED BY <2>2, <2>3 DEF NameRows
<1>10. WorkloadRows(t)'
  BY <1>1, <1>2 DEF TenantInv, RowsInv, WorkloadRows, Deployed
<1>11. TenantInv(t)'
  BY <1>2, <1>8, <1>9, <1>10, EndedKeeps DEF TenantInv, RowsInv
<1> QED BY <1>4, <1>5, <1>6, <1>11, StepKeeps

LEMMA PutRowInv ==
    ASSUME ResourcesInv, NEW t \in Tenants, PutRow(t)
    PROVE  ResourcesInv'
<1> PICK s : s = req[t].slot
  OBVIOUS
<1>1. /\ TypeOK /\ ReqType /\ TenantInv(t) /\ s \in Slots /\ s[1] = t
      /\ req[t].call \in Calls /\ req[t].call.op \in OpsAt(req[t].pc)
  BY Working DEF PutRow, At
<1>2. req[t].call.op = "putRecord" /\ ~At(t, "reconfigure") /\ Ended(t) /\ ~Holds(s)
  BY <1>1, AnswerEnds DEF PutRow, At, OpsAt, TenantInv, AddressInv, FreePoints
<1>3. /\ req[t].call.to \in Targets \cup {Nowhere} /\ zone[s] = req[t].call.to
      /\ req[t].call.to[1] = "net" => HeldTarget(t, req[t].call.to)
  BY <1>1, CallIsTyped DEF PutRow, TenantInv, NameInv
<1>4. /\ rec' = [rec EXCEPT ![s] = req[t].call.to] /\ unrecorded' = unrecorded \ {s}
      /\ UNCHANGED <<device, addr, wl, router, vm, zone, ptr, faults>>
  BY DEF PutRow
<1> QED BY <1>1, <1>2, <1>3, <1>4, RecordStep

LEMMA DropRowInv ==
    ASSUME ResourcesInv, NEW t \in Tenants, DropRow(t)
    PROVE  ResourcesInv'
<1> PICK s : s = req[t].slot
  OBVIOUS
<1>1. /\ TypeOK /\ ReqType /\ TenantInv(t) /\ s \in Slots /\ s[1] = t
      /\ req[t].call \in Calls /\ req[t].call.op \in OpsAt(req[t].pc)
  BY Working DEF DropRow, At
<1>2. req[t].call.op = "deleteRecord" /\ ~At(t, "reconfigure") /\ Ended(t)
  BY <1>1, AnswerEnds DEF DropRow, At, OpsAt
<1>3. zone[s] = Nowhere /\ Nowhere[1] # "net"
  BY <1>1 DEF DropRow, TenantInv, NameInv, Nowhere
<1>4. /\ rec' = [rec EXCEPT ![s] = Nowhere] /\ unrecorded' = unrecorded
      /\ UNCHANGED <<device, addr, wl, router, vm, zone, ptr, faults>>
  BY DEF DropRow, names
<1> QED BY <1>1, <1>2, <1>3, <1>4, RecordStep

-----------------------------------------------------------------------------
(* Workloads.                                                                *)

\* A step of a call about a workload: what it starts from.
LEMMA WorkingOnVM ==
    ASSUME ResourcesInv, NEW t \in Tenants, req[t].pc \in WorkloadPoints
    PROVE  /\ TypeOK /\ ReqType /\ TenantInv(t) /\ AddressesGivenOnce /\ AppliedUnlessCutOff
           /\ req[t].slot \in Slots /\ req[t].slot[1] = t /\ req[t].slot = <<t, NameOf(t)>>
           /\ NameOf(t) \in Names /\ NameOf(t) # None
           /\ Deployed(req[t].slot) /\ wl[req[t].slot].ord \in Ordinals
           /\ VMOf(t) \in VMs /\ VMOf(t)[1] = t /\ VMOf(t)[2] = wl[req[t].slot].ord
           /\ ~At(t, "reconfigure") /\ ~At(t, "idle") /\ ~At(t, "next")
           /\ req[t].call.op \in {"createWorkload", "deleteWorkload"}
           /\ req[t].call.op \in OpsAt(req[t].pc) /\ req[t].call \in Calls
           /\ req[t].call.slot = req[t].slot
<1>1. ~At(t, "reconfigure") /\ ~At(t, "idle") /\ ~At(t, "next")
  BY DEF At, WorkloadPoints
<1>2. /\ TypeOK /\ ReqType /\ TenantInv(t) /\ AddressesGivenOnce /\ AppliedUnlessCutOff
      /\ req[t].slot \in Slots /\ req[t].slot[1] = t
      /\ req[t].call \in Calls /\ req[t].call.op \in OpsAt(req[t].pc)
  BY <1>1, Working
<1>3. req[t].call.op \in {"createWorkload", "deleteWorkload"}
  BY <1>2 DEF OpsAt, WorkloadPoints
<1>4. Deployed(req[t].slot) /\ req[t].call.slot = req[t].slot
  BY <1>1, <1>2, <1>3 DEF TenantInv, WorkloadInv, CallInv
<1>5. wl[req[t].slot].ord \in Ordinals /\ VMOf(t) \in VMs /\ VMOf(t)[1] = t
      /\ VMOf(t)[2] = wl[req[t].slot].ord
  BY <1>2, VMIDType DEF VMOf
<1>6. req[t].slot = <<t, NameOf(t)>> /\ NameOf(t) \in Names /\ NameOf(t) # None
  BY <1>2, ResourcesAssumption DEF Slots, NameOf
<1> QED BY <1>1, <1>2, <1>3, <1>4, <1>5, <1>6

\* A step that changes nothing but the call, a VM and a PTR of the tenant's.
LEMMA VMStep ==
    ASSUME ResourcesInv, NEW t \in Tenants, NEW v \in VMs, v[1] = t,
           vm' \in [VMs -> [name : Names \cup {None}, up : BOOLEAN]],
           ptr' \in [VMs -> Names \cup {None}],
           \A w \in VMs \ {v} : vm'[w] = vm[w] /\ ptr'[w] = ptr[w],
           \A n \in {vm'[v].name, ptr'[v]} \ {None} : Deployed(<<t, n>>) /\ wl[<<t, n>>].ord = v[2],
           UNCHANGED <<registry, router, zone, unrecorded, faults>>,
           ReqType', \A u \in Tenants \ {t} : req'[u] = req[u], ~At(t, "reconfigure"),
           CallInv(t)', AddressInv(t)', NameInv(t)', WorkloadInv(t)', AnswerInv(t)'
    PROVE  ResourcesInv'
<1>1. UNCHANGED <<device, addr, wl, rec, kea, unapplied, zone, unrecorded, faults>>
  BY DEF registry, router
<1>2. TypeOK /\ TenantInv(t) /\ AddressesGivenOnce /\ AppliedUnlessCutOff
  BY DEF ResourcesInv
<1>3. TypeOK'
  BY <1>1, <1>2 DEF TypeOK, ReqType, Locals
<1>4. AddressesGivenOnce' /\ AppliedUnlessCutOff'
  BY <1>1, <1>2, AddressesKept, AppliedKept
<1>5. \A u \in Tenants \ {t} : Untouched(u)
  BY <1>1 DEF Untouched
<1>6. AddressRows(t)' /\ NameRows(t)'
  BY <1>1, <1>2 DEF TenantInv, RowsInv, AddressRows, NameRows, HeldTarget, HeldBy, Held, Holds, NameIsFree, Deployed
<1>7. WorkloadRows(t)'
  BY <1>1, <1>2 DEF TenantInv, RowsInv, WorkloadRows, Deployed
<1> QED BY <1>3, <1>4, <1>5, <1>6, <1>7, StepKeeps DEF TenantInv, RowsInv

\* A step that changes nothing but the call and the row of a workload, whose
\* name no device has.
LEMMA WorkloadRowStep ==
    ASSUME ResourcesInv, NEW t \in Tenants, NEW s \in Slots, s[1] = t,
           wl' \in [Slots -> {NoWorkload} \cup [status : Statuses, ord : Ordinals]],
           \A x \in Slots \ {s} : wl'[x] = wl[x],
           Holds(s) => ~Deployed(s)', WorkloadRows(t)',
           UNCHANGED <<device, addr, rec, router, vm, names, faults>>,
           ReqType', \A u \in Tenants \ {t} : req'[u] = req[u], ~At(t, "reconfigure"),
           CallInv(t)', AddressInv(t)', NameInv(t)', WorkloadInv(t)', AnswerInv(t)'
    PROVE  ResourcesInv'
<1>1. UNCHANGED <<device, addr, rec, kea, unapplied, vm, zone, ptr, unrecorded, faults>>
  BY DEF router, names
<1>2. TypeOK /\ TenantInv(t) /\ AddressesGivenOnce /\ AppliedUnlessCutOff
  BY DEF ResourcesInv
<1>3. TypeOK'
  BY <1>1, <1>2 DEF TypeOK, ReqType, Locals
<1>4. AddressesGivenOnce' /\ AppliedUnlessCutOff'
  BY <1>1, <1>2, AddressesKept, AppliedKept
<1>5. \A u \in Tenants \ {t} : Untouched(u)
  BY <1>1 DEF Untouched
<1>6. HeldBy(t)' = HeldBy(t) /\ \A y \in Slots : Holds(y)' <=> Holds(y)
  BY <1>1 DEF HeldBy, Held, Holds
<1>7. AddressRows(t)'
  <2>1. (\A y \in HeldBy(t) : device[y] \in MACs /\ NameIsFree(y))'
    BY <1>1, <1>2, <1>6 DEF TenantInv, RowsInv, AddressRows, HeldBy, Held, NameIsFree, Deployed
  <2>2. (\A k \in kea : k.slot \in Slots /\ k.slot[1] = t => Holds(k.slot) /\ addr[k.slot].at = k.at)'
    BY <1>1, <1>2, <1>6 DEF TenantInv, RowsInv, AddressRows
  <2> QED BY <2>1, <2>2 DEF AddressRows
<1>8. NameRows(t)'
  BY <1>1, <1>2 DEF TenantInv, RowsInv, NameRows, HeldTarget, HeldBy, Held, Holds
<1> QED BY <1>3, <1>4, <1>5, <1>7, <1>8, StepKeeps DEF TenantInv, RowsInv

LEMMA InsertWorkloadInv ==
    ASSUME ResourcesInv, NEW t \in Tenants, InsertWorkload(t)
    PROVE  ResourcesInv'
<1> PICK s : s = req[t].slot
  OBVIOUS
<1>1. /\ TypeOK /\ ReqType /\ TenantInv(t) /\ s \in Slots /\ s[1] = t
      /\ req[t].call \in Calls /\ req[t].call.op \in OpsAt(req[t].pc)
  BY Working DEF InsertWorkload, At
<1>2. /\ ~At(t, "reconfigure") /\ ~At(t, "idle") /\ ~At(t, "next") /\ req[t].call.op = "createWorkload"
      /\ Moved(t, "build") /\ ~Holds(s) /\ ~Deployed(s)
      /\ UNCHANGED <<device, addr, rec, router, vm, names, faults>>
  BY <1>1, GotoMoves
     DEF InsertWorkload, At, OpsAt, Points, TenantInv, AddressInv, WorkloadInv, FreePoints
<1>3. PICK o \in Ordinals : wl' = [wl EXCEPT ![s] = [status |-> "provisioning", ord |-> o]]
  BY DEF InsertWorkload, FreeOrdinals
<1>4. /\ wl' \in [Slots -> {NoWorkload} \cup [status : Statuses, ord : Ordinals]]
      /\ Deployed(s)' /\ \A x \in Slots \ {s} : wl'[x] = wl[x]
  BY <1>1, <1>3 DEF TypeOK, Deployed, Statuses
<1>5. CallInv(t)'
  BY <1>1, <1>2, MovedCall DEF TenantInv, OpsAt
<1>6. AddressInv(t)' /\ NameInv(t)' /\ AnswerInv(t)'
  BY <1>2, <1>5, NoAddressWork, NoNameWork, NoAnswerWork DEF Moved, WorkloadPoints
<1>7. WorkloadInv(t)'
  BY <1>2, <1>4 DEF WorkloadInv, Moved, At
<1>8. WorkloadRows(t)'
  <2>1. \A n \in Names : <<t, n>> \in Slots
    BY DEF Slots
  <2>2. \A w \in VMs : vm[w].name \in Names \cup {None} /\ ptr[w] \in Names \cup {None}
    BY <1>1 DEF TypeOK
  <2>3. UNCHANGED <<vm, ptr>>
    BY <1>2 DEF names
  <2>4. \A x \in Slots : Deployed(x) => wl'[x] = wl[x] /\ Deployed(x)'
    BY <1>2, <1>4 DEF Deployed
  <2> QED BY <1>1, <2>1, <2>2, <2>3, <2>4 DEF TenantInv, RowsInv, WorkloadRows
<1> QED BY <1>1, <1>2, <1>4, <1>5, <1>6, <1>7, <1>8, WorkloadRowStep DEF Moved

LEMMA BuildVMInv ==
    ASSUME ResourcesInv, NEW t \in Tenants, BuildVM(t)
    PROVE  ResourcesInv'
<1> PICK s, v, n : s = req[t].slot /\ v = VMOf(t) /\ n = NameOf(t)
  OBVIOUS
<1>1. /\ TypeOK /\ ReqType /\ TenantInv(t) /\ s \in Slots /\ s[1] = t /\ s = <<t, n>>
      /\ n \in Names /\ n # None /\ Deployed(s) /\ v \in VMs /\ v[1] = t /\ v[2] = wl[s].ord
      /\ ~At(t, "reconfigure") /\ ~At(t, "idle") /\ ~At(t, "next") /\ req[t].call \in Calls
      /\ req[t].call.op \in OpsAt(req[t].pc)
  BY WorkingOnVM DEF BuildVM, At, WorkloadPoints
<1>2. req[t].call.op = "createWorkload" /\ Moved(t, "start")
  BY <1>1, GotoMoves DEF BuildVM, At, OpsAt, Points
<1>3. UNCHANGED <<registry, router, zone, ptr, unrecorded, faults>>
  BY DEF BuildVM, names
<1>4. /\ vm' \in [VMs -> [name : Names \cup {None}, up : BOOLEAN]]
      /\ vm'[v].name = n /\ \A w \in VMs \ {v} : vm'[w] = vm[w]
  BY <1>1 DEF BuildVM, TypeOK
<1>5. UNCHANGED wl /\ VMOf(t)' = v /\ NameOf(t)' = n /\ Deployed(s)'
  BY <1>1, <1>2, <1>3 DEF registry, VMOf, NameOf, Moved, Deployed
<1>6. CallInv(t)'
  BY <1>1, <1>2, MovedCall DEF TenantInv, OpsAt
<1>7. AddressInv(t)' /\ NameInv(t)'
  BY <1>2, <1>6, NoAddressWork, NoNameWork DEF Moved, WorkloadPoints
<1>8. WorkloadInv(t)'
  BY <1>2, <1>5 DEF WorkloadInv, Moved, At
<1>9. AnswerInv(t)'
  BY <1>2, <1>4, <1>5 DEF AnswerInv, Moved, At, Answered
<1>10. ptr' \in [VMs -> Names \cup {None}]
  BY <1>1, <1>3 DEF TypeOK
<1>11. \A m \in {vm'[v].name, ptr'[v]} \ {None} : Deployed(<<t, m>>) /\ wl[<<t, m>>].ord = v[2]
  BY <1>1, <1>3, <1>4 DEF TenantInv, RowsInv, WorkloadRows
<1> QED BY <1>1, <1>2, <1>3, <1>4, <1>6, <1>7, <1>8, <1>9, <1>10, <1>11, VMStep DEF Moved

LEMMA StartVMInv ==
    ASSUME ResourcesInv, NEW t \in Tenants, StartVM(t)
    PROVE  ResourcesInv'
<1> PICK s, v, n : s = req[t].slot /\ v = VMOf(t) /\ n = NameOf(t)
  OBVIOUS
<1>1. /\ TypeOK /\ ReqType /\ TenantInv(t) /\ s \in Slots /\ s[1] = t /\ s = <<t, n>>
      /\ n \in Names /\ n # None /\ Deployed(s) /\ v \in VMs /\ v[1] = t /\ v[2] = wl[s].ord
      /\ ~At(t, "reconfigure") /\ ~At(t, "idle") /\ ~At(t, "next") /\ req[t].call \in Calls
      /\ req[t].call.op \in OpsAt(req[t].pc)
  BY WorkingOnVM DEF StartVM, At, WorkloadPoints
<1>2. /\ req[t].call.op = "createWorkload" /\ Moved(t, "pubName")
      /\ vm[v].name = n
  BY <1>1, GotoMoves DEF StartVM, At, OpsAt, Points, TenantInv, AnswerInv
<1>3. UNCHANGED <<registry, router, zone, ptr, unrecorded, faults>>
  BY DEF StartVM, names
<1>4. /\ vm' \in [VMs -> [name : Names \cup {None}, up : BOOLEAN]]
      /\ vm'[v] = [name |-> n, up |-> TRUE] /\ \A w \in VMs \ {v} : vm'[w] = vm[w]
  <2>1. vm[v] \in [name : Names \cup {None}, up : BOOLEAN]
    BY <1>1 DEF TypeOK
  <2>2. vm' = [vm EXCEPT ![v] = [vm[v] EXCEPT !.up = TRUE]]
    BY <1>1 DEF StartVM, TypeOK
  <2>3. [vm[v] EXCEPT !.up = TRUE] = [name |-> n, up |-> TRUE]
    <3> DEFINE q == [vm[v] EXCEPT !.up = TRUE]
    <3>1. q \in [name : Names \cup {None}, up : BOOLEAN] /\ q.name = n /\ q.up = TRUE
      BY <1>2, <2>1
    <3> HIDE DEF q
    <3>2. PICK m \in Names \cup {None}, b \in BOOLEAN : q = [name |-> m, up |-> b]
      BY <3>1
    <3>3. q = [name |-> n, up |-> TRUE]
      BY <3>1, <3>2
    <3> QED BY <3>3 DEF q
  <2> QED BY <1>1, <2>2, <2>3 DEF TypeOK
<1>5. UNCHANGED wl /\ VMOf(t)' = v /\ NameOf(t)' = n /\ Deployed(s)'
  BY <1>1, <1>2, <1>3 DEF registry, VMOf, NameOf, Moved, Deployed
<1>6. CallInv(t)'
  BY <1>1, <1>2, MovedCall DEF TenantInv, OpsAt
<1>7. AddressInv(t)' /\ NameInv(t)'
  BY <1>2, <1>6, NoAddressWork, NoNameWork DEF Moved, WorkloadPoints
<1>8. WorkloadInv(t)'
  BY <1>2, <1>5 DEF WorkloadInv, Moved, At
<1>9. AnswerInv(t)'
  BY <1>2, <1>4, <1>5 DEF AnswerInv, Moved, At, Answered
<1>10. ptr' \in [VMs -> Names \cup {None}]
  BY <1>1, <1>3 DEF TypeOK
<1>11. \A m \in {vm'[v].name, ptr'[v]} \ {None} : Deployed(<<t, m>>) /\ wl[<<t, m>>].ord = v[2]
  BY <1>1, <1>3, <1>4 DEF TenantInv, RowsInv, WorkloadRows
<1> QED BY <1>1, <1>2, <1>3, <1>4, <1>6, <1>7, <1>8, <1>9, <1>10, <1>11, VMStep DEF Moved

LEMMA PublishNameInv ==
    ASSUME ResourcesInv, NEW t \in Tenants, PublishName(t)
    PROVE  ResourcesInv'
<1> PICK s, v, n : s = req[t].slot /\ v = VMOf(t) /\ n = NameOf(t)
  OBVIOUS
<1>1. /\ TypeOK /\ ReqType /\ TenantInv(t) /\ s \in Slots /\ s[1] = t /\ s = <<t, n>>
      /\ n \in Names /\ n # None /\ Deployed(s) /\ v \in VMs /\ v[1] = t /\ v[2] = wl[s].ord
      /\ ~At(t, "reconfigure") /\ ~At(t, "idle") /\ ~At(t, "next") /\ req[t].call \in Calls
      /\ req[t].call.op \in OpsAt(req[t].pc)
  BY WorkingOnVM DEF PublishName, At, WorkloadPoints
<1>2. /\ req[t].call.op = "createWorkload" /\ Moved(t, "pubPTR")
      /\ vm[v] = [name |-> n, up |-> TRUE]
  BY <1>1, GotoMoves DEF PublishName, At, OpsAt, Points, TenantInv, AnswerInv
<1>3. /\ UNCHANGED <<registry, router, vm, ptr, faults>> /\ unrecorded' = unrecorded \ {s}
      /\ zone' = [zone EXCEPT ![s] = Own(wl[s].ord)]
  BY DEF PublishName
<1>4. Own(wl[s].ord) \in Targets /\ Own(wl[s].ord)[1] # "net"
  BY <1>1, VMIDType DEF Own, Targets
<1>5. /\ UNCHANGED <<wl, vm>> /\ VMOf(t)' = v /\ NameOf(t)' = n /\ Deployed(s)'
      /\ zone'[s] = Own(wl[s].ord)
  BY <1>1, <1>2, <1>3 DEF registry, VMOf, NameOf, Moved, Deployed, TypeOK
<1>6. CallInv(t)'
  BY <1>1, <1>2, MovedCall DEF TenantInv, OpsAt
<1>7. AddressInv(t)' /\ NameInv(t)'
  BY <1>2, <1>6, NoAddressWork, NoNameWork DEF Moved, WorkloadPoints
<1>8. WorkloadInv(t)'
  BY <1>2, <1>5 DEF WorkloadInv, Moved, At
<1>9. AnswerInv(t)'
  BY <1>2, <1>5 DEF AnswerInv, Moved, At, Answered
<1> QED BY <1>1, <1>2, <1>3, <1>4, <1>6, <1>7, <1>8, <1>9, ZoneStep DEF Moved

LEMMA PublishPTRInv ==
    ASSUME ResourcesInv, NEW t \in Tenants, PublishPTR(t)
    PROVE  ResourcesInv'
<1> PICK s, v, n : s = req[t].slot /\ v = VMOf(t) /\ n = NameOf(t)
  OBVIOUS
<1>1. /\ TypeOK /\ ReqType /\ TenantInv(t) /\ s \in Slots /\ s[1] = t /\ s = <<t, n>>
      /\ n \in Names /\ n # None /\ Deployed(s) /\ v \in VMs /\ v[1] = t /\ v[2] = wl[s].ord
      /\ ~At(t, "reconfigure") /\ ~At(t, "idle") /\ ~At(t, "next") /\ req[t].call \in Calls
      /\ req[t].call.op \in OpsAt(req[t].pc)
  BY WorkingOnVM DEF PublishPTR, At, WorkloadPoints
<1>2. /\ req[t].call.op = "createWorkload" /\ Moved(t, "markWorkload")
      /\ vm[v] = [name |-> n, up |-> TRUE] /\ zone[s] = Own(wl[s].ord)
  BY <1>1, GotoMoves DEF PublishPTR, At, OpsAt, Points, TenantInv, AnswerInv
<1>3. UNCHANGED <<registry, router, vm, zone, unrecorded, faults>>
  BY DEF PublishPTR
<1>4. ptr' \in [VMs -> Names \cup {None}] /\ ptr'[v] = n /\ \A w \in VMs \ {v} : ptr'[w] = ptr[w]
  BY <1>1 DEF PublishPTR, TypeOK
<1>5. UNCHANGED <<wl, vm, zone>> /\ VMOf(t)' = v /\ NameOf(t)' = n /\ Deployed(s)'
  BY <1>1, <1>2, <1>3 DEF registry, VMOf, NameOf, Moved, Deployed
<1>6. CallInv(t)'
  BY <1>1, <1>2, MovedCall DEF TenantInv, OpsAt
<1>7. AddressInv(t)' /\ NameInv(t)'
  BY <1>2, <1>6, NoAddressWork, NoNameWork DEF Moved, WorkloadPoints
<1>8. WorkloadInv(t)'
  BY <1>2, <1>5 DEF WorkloadInv, Moved, At
<1>9. AnswerInv(t)'
  BY <1>2, <1>4, <1>5 DEF AnswerInv, Moved, At, Answered
<1>10. vm' \in [VMs -> [name : Names \cup {None}, up : BOOLEAN]]
  BY <1>1, <1>3 DEF TypeOK
<1>11. \A m \in {vm'[v].name, ptr'[v]} \ {None} : Deployed(<<t, m>>) /\ wl[<<t, m>>].ord = v[2]
  BY <1>1, <1>3, <1>4 DEF TenantInv, RowsInv, WorkloadRows
<1> QED BY <1>1, <1>2, <1>3, <1>4, <1>6, <1>7, <1>8, <1>9, <1>10, <1>11, VMStep DEF Moved

LEMMA MarkWorkloadInv ==
    ASSUME ResourcesInv, NEW t \in Tenants, MarkWorkload(t)
    PROVE  ResourcesInv'
<1> PICK s, v, n : s = req[t].slot /\ v = VMOf(t) /\ n = NameOf(t)
  OBVIOUS
<1>1. /\ TypeOK /\ ReqType /\ TenantInv(t) /\ s \in Slots /\ s[1] = t /\ s = <<t, n>>
      /\ n \in Names /\ n # None /\ Deployed(s) /\ v \in VMs /\ v[1] = t /\ v[2] = wl[s].ord
      /\ ~At(t, "reconfigure") /\ ~At(t, "idle") /\ ~At(t, "next") /\ req[t].call \in Calls
      /\ req[t].call.op \in OpsAt(req[t].pc)
  BY WorkingOnVM DEF MarkWorkload, At, WorkloadPoints
<1>2. /\ req[t].call.op = "createWorkload" /\ Ended(t) /\ req[t].call.slot = s
      /\ vm[v] = [name |-> n, up |-> TRUE] /\ zone[s] = Own(wl[s].ord) /\ ptr[v] = n
  BY <1>1, WorkingOnVM, AnswerEnds DEF MarkWorkload, At, OpsAt, WorkloadPoints, TenantInv, AnswerInv
<1>3. /\ UNCHANGED <<device, addr, rec, router, vm, names, faults>>
      /\ wl' = [wl EXCEPT ![s].status = "ready"]
  BY DEF MarkWorkload
<1>4. wl[s] \in [status : Statuses, ord : Ordinals]
  BY <1>1 DEF TypeOK, Deployed, NoWorkload
<1>5. /\ wl' \in [Slots -> {NoWorkload} \cup [status : Statuses, ord : Ordinals]]
      /\ wl'[s].status = "ready" /\ wl'[s].ord = wl[s].ord /\ \A x \in Slots \ {s} : wl'[x] = wl[x]
  BY <1>1, <1>3, <1>4 DEF TypeOK, Statuses
<1>6. UNCHANGED <<vm, zone, ptr>> /\ v = <<t, wl[s].ord>>
  BY <1>3 DEF names, VMOf
<1>7. CallInv(t)' /\ AddressInv(t)' /\ NameInv(t)' /\ WorkloadInv(t)'
  BY <1>1, <1>2, EndedParts DEF TenantInv
<1>8. AnswerInv(t)'
  <2>1. CASE req'[t].call = NoCall
    BY <1>2, <2>1, EndedAnswer
  <2>2. CASE req'[t].call = req[t].call
    <3>1. s[2] = n
      BY <1>1
    <3>2. req'[t].pc = "idle" /\ req'[t].call.slot = s /\ req'[t].call.op = "createWorkload"
      BY <1>2, <2>2 DEF Ended
    <3>3. <<t, wl'[s].ord>> = v
      BY <1>5, <1>6
    <3>4. /\ wl'[s].status = "ready" /\ zone'[s] = Own(wl'[s].ord)
          /\ vm'[v] = [name |-> s[2], up |-> TRUE] /\ ptr'[v] = s[2]
      BY <1>2, <1>5, <1>6, <3>1
    <3> QED BY <3>2, <3>3, <3>4 DEF AnswerInv, At, Answered
  <2> QED BY <1>2, <2>1, <2>2 DEF Ended
<1>9. WorkloadRows(t)'
  <2>1. \A m \in Names : <<t, m>> \in Slots
    BY DEF Slots
  <2>2. \A w \in VMs : vm[w].name \in Names \cup {None} /\ ptr[w] \in Names \cup {None}
    BY <1>1 DEF TypeOK
  <2>3. \A x \in Slots : Deployed(x) => wl'[x].ord = wl[x].ord /\ Deployed(x)'
    BY <1>5 DEF Deployed
  <2> QED BY <1>1, <1>6, <2>1, <2>2, <2>3 DEF TenantInv, RowsInv, WorkloadRows
<1>10. ~Holds(s)
  BY <1>1 DEF TenantInv, RowsInv, AddressRows, HeldBy, Held, NameIsFree
<1> QED BY <1>1, <1>2, <1>3, <1>5, <1>7, <1>8, <1>9, <1>10, WorkloadRowStep DEF Ended

LEMMA StopVMInv ==
    ASSUME ResourcesInv, NEW t \in Tenants, StopVM(t)
    PROVE  ResourcesInv'
<1> PICK s, v, n : s = req[t].slot /\ v = VMOf(t) /\ n = NameOf(t)
  OBVIOUS
<1>1. /\ TypeOK /\ ReqType /\ TenantInv(t) /\ s \in Slots /\ s[1] = t /\ s = <<t, n>>
      /\ n \in Names /\ n # None /\ Deployed(s) /\ v \in VMs /\ v[1] = t /\ v[2] = wl[s].ord
      /\ ~At(t, "reconfigure") /\ ~At(t, "idle") /\ ~At(t, "next") /\ req[t].call \in Calls
      /\ req[t].call.op \in OpsAt(req[t].pc)
  BY WorkingOnVM DEF StopVM, At, WorkloadPoints
<1> DEFINE point == IF vm[v].name = None THEN "unpubName" ELSE "destroy"
<1>2. req[t].call.op = "deleteWorkload" /\ point \in Points /\ Goto(t, point)
  BY <1>1 DEF StopVM, At, OpsAt, Points
<1>3. /\ point \in {"unpubName", "destroy"} /\ (point = "unpubName" => vm[v].name = None)
      /\ req[t].call.op \in OpsAt(point)
  BY <1>2 DEF OpsAt
<1> HIDE DEF point
<1>4. Moved(t, point)
  BY <1>1, <1>2, GotoMoves
<1>5. UNCHANGED <<registry, router, zone, ptr, unrecorded, faults>>
  BY DEF StopVM, names
<1>6. /\ vm' \in [VMs -> [name : Names \cup {None}, up : BOOLEAN]]
      /\ vm'[v].name = vm[v].name /\ \A w \in VMs \ {v} : vm'[w] = vm[w]
  BY <1>1 DEF StopVM, TypeOK
<1>7. UNCHANGED wl /\ VMOf(t)' = v /\ Deployed(s)'
  BY <1>1, <1>4, <1>5 DEF registry, VMOf, Moved, Deployed
<1>8. CallInv(t)'
  BY <1>1, <1>3, <1>4, MovedCall DEF TenantInv
<1>9. AddressInv(t)' /\ NameInv(t)' /\ AnswerInv(t)'
  BY <1>2, <1>3, <1>4, <1>8, NoAddressWork, NoNameWork, NoAnswerWork DEF Moved, WorkloadPoints
<1>10. WorkloadInv(t)'
  BY <1>3, <1>4, <1>6, <1>7 DEF WorkloadInv, Moved, At
<1>11. ptr' \in [VMs -> Names \cup {None}]
  BY <1>1, <1>5 DEF TypeOK
<1>12. \A m \in {vm'[v].name, ptr'[v]} \ {None} : Deployed(<<t, m>>) /\ wl[<<t, m>>].ord = v[2]
  BY <1>1, <1>5, <1>6 DEF TenantInv, RowsInv, WorkloadRows
<1> QED BY <1>1, <1>4, <1>5, <1>6, <1>8, <1>9, <1>10, <1>11, <1>12, VMStep DEF Moved

LEMMA DestroyVMInv ==
    ASSUME ResourcesInv, NEW t \in Tenants, DestroyVM(t)
    PROVE  ResourcesInv'
<1> PICK s, v, n : s = req[t].slot /\ v = VMOf(t) /\ n = NameOf(t)
  OBVIOUS
<1>1. /\ TypeOK /\ ReqType /\ TenantInv(t) /\ s \in Slots /\ s[1] = t /\ s = <<t, n>>
      /\ n \in Names /\ n # None /\ Deployed(s) /\ v \in VMs /\ v[1] = t /\ v[2] = wl[s].ord
      /\ ~At(t, "reconfigure") /\ ~At(t, "idle") /\ ~At(t, "next") /\ req[t].call \in Calls
      /\ req[t].call.op \in OpsAt(req[t].pc)
  BY WorkingOnVM DEF DestroyVM, At, WorkloadPoints
<1>2. req[t].call.op = "deleteWorkload" /\ Moved(t, "unpubName")
  BY <1>1, GotoMoves DEF DestroyVM, At, OpsAt, Points
<1>3. UNCHANGED <<registry, router, zone, ptr, unrecorded, faults>>
  BY DEF DestroyVM, names
<1>4. /\ vm' \in [VMs -> [name : Names \cup {None}, up : BOOLEAN]]
      /\ vm'[v].name = None /\ \A w \in VMs \ {v} : vm'[w] = vm[w]
  BY <1>1 DEF DestroyVM, TypeOK, NoVM
<1>5. UNCHANGED wl /\ VMOf(t)' = v /\ Deployed(s)'
  BY <1>1, <1>2, <1>3 DEF registry, VMOf, Moved, Deployed
<1>6. CallInv(t)'
  BY <1>1, <1>2, MovedCall DEF TenantInv, OpsAt
<1>7. AddressInv(t)' /\ NameInv(t)' /\ AnswerInv(t)'
  BY <1>2, <1>6, NoAddressWork, NoNameWork, NoAnswerWork DEF Moved, WorkloadPoints
<1>8. WorkloadInv(t)'
  BY <1>2, <1>4, <1>5 DEF WorkloadInv, Moved, At
<1>9. ptr' \in [VMs -> Names \cup {None}]
  BY <1>1, <1>3 DEF TypeOK
<1>10. \A m \in {vm'[v].name, ptr'[v]} \ {None} : Deployed(<<t, m>>) /\ wl[<<t, m>>].ord = v[2]
  BY <1>1, <1>3, <1>4 DEF TenantInv, RowsInv, WorkloadRows
<1> QED BY <1>1, <1>2, <1>3, <1>4, <1>6, <1>7, <1>8, <1>9, <1>10, VMStep DEF Moved

LEMMA UnpublishNameInv ==
    ASSUME ResourcesInv, NEW t \in Tenants, UnpublishName(t)
    PROVE  ResourcesInv'
<1> PICK s, v, n : s = req[t].slot /\ v = VMOf(t) /\ n = NameOf(t)
  OBVIOUS
<1>1. /\ TypeOK /\ ReqType /\ TenantInv(t) /\ s \in Slots /\ s[1] = t /\ s = <<t, n>>
      /\ n \in Names /\ n # None /\ Deployed(s) /\ v \in VMs /\ v[1] = t /\ v[2] = wl[s].ord
      /\ ~At(t, "reconfigure") /\ ~At(t, "idle") /\ ~At(t, "next") /\ req[t].call \in Calls
      /\ req[t].call.op \in OpsAt(req[t].pc)
  BY WorkingOnVM DEF UnpublishName, At, WorkloadPoints
<1>2. req[t].call.op = "deleteWorkload" /\ Moved(t, "unpubPTR") /\ vm[v].name = None
  BY <1>1, GotoMoves DEF UnpublishName, At, OpsAt, Points, TenantInv, WorkloadInv
<1>3. /\ UNCHANGED <<registry, router, vm, ptr, faults>> /\ unrecorded' = unrecorded \ {s}
      /\ zone' = [zone EXCEPT ![s] = Nowhere] /\ Nowhere[1] # "net"
  BY DEF UnpublishName, Nowhere
<1>4. UNCHANGED <<wl, vm>> /\ VMOf(t)' = v /\ Deployed(s)'
  BY <1>1, <1>2, <1>3 DEF registry, VMOf, Moved, Deployed
<1>5. CallInv(t)'
  BY <1>1, <1>2, MovedCall DEF TenantInv, OpsAt
<1>6. AddressInv(t)' /\ NameInv(t)' /\ AnswerInv(t)'
  BY <1>2, <1>5, NoAddressWork, NoNameWork, NoAnswerWork DEF Moved, WorkloadPoints
<1>7. WorkloadInv(t)'
  BY <1>2, <1>4 DEF WorkloadInv, Moved, At
<1> QED BY <1>1, <1>2, <1>3, <1>5, <1>6, <1>7, ZoneStep DEF Moved

LEMMA UnpublishPTRInv ==
    ASSUME ResourcesInv, NEW t \in Tenants, UnpublishPTR(t)
    PROVE  ResourcesInv'
<1> PICK s, v, n : s = req[t].slot /\ v = VMOf(t) /\ n = NameOf(t)
  OBVIOUS
<1>1. /\ TypeOK /\ ReqType /\ TenantInv(t) /\ s \in Slots /\ s[1] = t /\ s = <<t, n>>
      /\ n \in Names /\ n # None /\ Deployed(s) /\ v \in VMs /\ v[1] = t /\ v[2] = wl[s].ord
      /\ ~At(t, "reconfigure") /\ ~At(t, "idle") /\ ~At(t, "next") /\ req[t].call \in Calls
      /\ req[t].call.op \in OpsAt(req[t].pc)
  BY WorkingOnVM DEF UnpublishPTR, At, WorkloadPoints
<1>2. req[t].call.op = "deleteWorkload" /\ Moved(t, "dropWorkload") /\ vm[v].name = None
  BY <1>1, GotoMoves DEF UnpublishPTR, At, OpsAt, Points, TenantInv, WorkloadInv
<1>3. UNCHANGED <<registry, router, vm, zone, unrecorded, faults>>
  BY DEF UnpublishPTR
<1>4. ptr' \in [VMs -> Names \cup {None}] /\ ptr'[v] = None /\ \A w \in VMs \ {v} : ptr'[w] = ptr[w]
  BY <1>1 DEF UnpublishPTR, TypeOK
<1>5. UNCHANGED <<wl, vm>> /\ VMOf(t)' = v /\ Deployed(s)'
  BY <1>1, <1>2, <1>3 DEF registry, VMOf, Moved, Deployed
<1>6. CallInv(t)'
  BY <1>1, <1>2, MovedCall DEF TenantInv, OpsAt
<1>7. AddressInv(t)' /\ NameInv(t)' /\ AnswerInv(t)'
  BY <1>2, <1>6, NoAddressWork, NoNameWork, NoAnswerWork DEF Moved, WorkloadPoints
<1>8. WorkloadInv(t)'
  BY <1>2, <1>4, <1>5 DEF WorkloadInv, Moved, At
<1>9. vm' \in [VMs -> [name : Names \cup {None}, up : BOOLEAN]]
  BY <1>1, <1>3 DEF TypeOK
<1>10. \A m \in {vm'[v].name, ptr'[v]} \ {None} : Deployed(<<t, m>>) /\ wl[<<t, m>>].ord = v[2]
  BY <1>2, <1>3, <1>4
<1> QED BY <1>1, <1>2, <1>3, <1>4, <1>6, <1>7, <1>8, <1>9, <1>10, VMStep DEF Moved

\* The VM and the PTR are gone, so nothing is left of the row.
LEMMA DropWorkloadInv ==
    ASSUME ResourcesInv, NEW t \in Tenants, DropWorkload(t)
    PROVE  ResourcesInv'
<1> PICK s, v, n : s = req[t].slot /\ v = VMOf(t) /\ n = NameOf(t)
  OBVIOUS
<1>1. /\ TypeOK /\ ReqType /\ TenantInv(t) /\ s \in Slots /\ s[1] = t /\ s = <<t, n>>
      /\ n \in Names /\ n # None /\ Deployed(s) /\ v \in VMs /\ v[1] = t /\ v[2] = wl[s].ord
      /\ ~At(t, "reconfigure") /\ ~At(t, "idle") /\ ~At(t, "next") /\ req[t].call \in Calls
      /\ req[t].call.op \in OpsAt(req[t].pc)
  BY WorkingOnVM DEF DropWorkload, At, WorkloadPoints
<1>2. req[t].call.op = "deleteWorkload" /\ Ended(t) /\ vm[v].name = None /\ ptr[v] = None
  BY <1>1, AnswerEnds DEF DropWorkload, At, OpsAt, TenantInv, WorkloadInv
<1>3. /\ UNCHANGED <<device, addr, rec, router, vm, names, faults>>
      /\ wl' = [wl EXCEPT ![s] = NoWorkload]
  BY DEF DropWorkload
<1>4. /\ wl' \in [Slots -> {NoWorkload} \cup [status : Statuses, ord : Ordinals]]
      /\ ~Deployed(s)' /\ \A x \in Slots \ {s} : wl'[x] = wl[x]
  BY <1>1, <1>3 DEF TypeOK, Deployed, NoWorkload
<1>5. CallInv(t)' /\ AddressInv(t)' /\ NameInv(t)' /\ WorkloadInv(t)' /\ AnswerInv(t)'
  BY <1>1, <1>2, EndedParts, EndedAnswer DEF TenantInv
<1>6. WorkloadRows(t)'
  <2>1. \A m \in Names : <<t, m>> \in Slots /\ (<<t, m>> = s => m = n)
    BY <1>1 DEF Slots
  <2>2. \A w \in VMs : vm[w].name \in Names \cup {None} /\ ptr[w] \in Names \cup {None}
    BY <1>1 DEF TypeOK
  <2>3. UNCHANGED <<vm, ptr>>
    BY <1>3 DEF names
  <2>4. \A w \in VMs : w[1] = t /\ w[2] = v[2] => w = v
    BY <1>1 DEF VMs
  <2>5. \A w \in VMs : w[1] = t => vm[w].name # n /\ ptr[w] # n
    BY <1>1, <1>2, <2>4 DEF TenantInv, RowsInv, WorkloadRows
  <2>6. \A x \in Slots \ {s} : wl'[x] = wl[x] /\ (Deployed(x)' <=> Deployed(x))
    BY <1>4 DEF Deployed
  <2> QED BY <1>1, <2>1, <2>2, <2>3, <2>5, <2>6 DEF TenantInv, RowsInv, WorkloadRows
<1> QED BY <1>1, <1>2, <1>3, <1>4, <1>5, <1>6, WorkloadRowStep DEF Ended

-----------------------------------------------------------------------------
(* Faults.                                                                   *)

LEMMA FailInv ==
    ASSUME ResourcesInv, NEW t \in Tenants, Fail(t)
    PROVE  ResourcesInv'
<1>1. TypeOK /\ ReqType /\ TenantInv(t) /\ AddressesGivenOnce
  BY DEF ResourcesInv, TypeOK, ReqType, Locals
<1>2. Ended(t) /\ req'[t].call = NoCall
  BY <1>1, CutEnds DEF Fail
<1>3. UNCHANGED <<device, addr, wl, rec, kea, unapplied, vm, zone, ptr, unrecorded>>
  BY DEF Fail, registry, router, names
<1>4. faults' \in 0 .. MaxFaults /\ faults' # 0
  BY <1>1, ResourcesAssumption DEF Fail, TypeOK
<1>5. TypeOK'
  BY <1>1, <1>2, <1>3, <1>4 DEF TypeOK, Ended, ReqType, Locals
<1>6. AddressesGivenOnce' /\ AppliedUnlessCutOff'
  BY <1>1, <1>3, <1>4, AddressesKept DEF AppliedUnlessCutOff
<1>7. \A u \in Tenants \ {t} : Untouched(u)
  BY <1>2, <1>3 DEF Untouched, Ended
<1>8. RowsInv(t)'
  BY <1>1, <1>3, RowsKept DEF TenantInv, registry, names
<1>9. TenantInv(t)'
  BY <1>1, <1>2, <1>8, EndedKeeps DEF TenantInv
<1> QED BY <1>5, <1>6, <1>7, <1>9, StepKeeps

\* The router comes back without reservations: the calls at work are no longer
\* sure of what they found there.
LEMMA RebuildRouterInv ==
    ASSUME ResourcesInv, RebuildRouter
    PROVE  ResourcesInv'
<1>1. TypeOK /\ ReqType /\ AddressesGivenOnce
  BY DEF ResourcesInv, TypeOK, ReqType, Locals
<1>2. /\ UNCHANGED <<device, addr, wl, rec, vm, zone, ptr, unrecorded>>
      /\ kea' = Foreign /\ unapplied' = FALSE
  BY DEF RebuildRouter, registry, names
<1>3. faults' \in 0 .. MaxFaults
  BY <1>1, ResourcesAssumption DEF RebuildRouter, TypeOK
<1>4. ASSUME NEW t \in Tenants
      PROVE  /\ req'[t] \in Locals
             /\ \/ req'[t] = Idle
                \/ /\ ~At(t, "idle") /\ ~req'[t].sure
                   /\ req'[t].pc = req[t].pc /\ req'[t].call = req[t].call /\ req'[t].slot = req[t].slot
                   /\ req'[t].fresh = req[t].fresh /\ req'[t].own = req[t].own
                   /\ req'[t].todo = req[t].todo
  <2> DEFINE q == [req[t] EXCEPT !.sure = FALSE]
  <2>1. req[t] \in Locals
    BY <1>1 DEF ReqType
  <2>2. /\ q \in Locals /\ ~q.sure /\ q.pc = req[t].pc /\ q.call = req[t].call /\ q.slot = req[t].slot
        /\ q.fresh = req[t].fresh /\ q.own = req[t].own /\ q.todo = req[t].todo
    BY <2>1 DEF Locals
  <2>3. req'[t] = IF At(t, "idle") THEN Idle ELSE q
    BY DEF RebuildRouter
  <2> HIDE DEF q
  <2> QED BY <2>2, <2>3, IdleType
<1>5. ReqType'
  <2>1. req' = [t \in Tenants |-> req'[t]]
    BY DEF RebuildRouter
  <2> QED BY <1>4, <2>1 DEF ReqType
<1>6. TypeOK'
  BY <1>1, <1>2, <1>3, <1>5 DEF TypeOK, ReqType, Locals
<1>7. AddressesGivenOnce' /\ AppliedUnlessCutOff'
  BY <1>1, <1>2, AddressesKept DEF AppliedUnlessCutOff
<1>8. ASSUME NEW t \in Tenants PROVE TenantInv(t)'
  <2>1. TenantInv(t)
    BY DEF ResourcesInv
  <2>2. \A k \in kea' : k.slot \notin Slots
    BY <1>2, ResourcesAssumption
  <2>3. RowsInv(t)'
    <3>1. AddressRows(t)'
      BY <1>2, <2>1, <2>2 DEF TenantInv, RowsInv, AddressRows, HeldBy, Held, Holds, NameIsFree, Deployed
    <3>2. NameRows(t)' /\ WorkloadRows(t)'
      BY <1>2, <2>1 DEF TenantInv, RowsInv, NameRows, WorkloadRows, HeldTarget, HeldBy, Held, Holds, Deployed
    <3> QED BY <3>1, <3>2 DEF RowsInv
  <2>4. CASE req'[t] = Idle
    <3>1. /\ req'[t].pc = "idle" /\ req'[t].todo = {} /\ ~req'[t].fresh /\ req'[t].sure
          /\ req'[t].call = NoCall
      BY <2>4 DEF Idle
    <3>2. CallInv(t)'
      BY <3>1, IdleType DEF CallInv, At
    <3>3. AddressInv(t)' /\ NameInv(t)' /\ WorkloadInv(t)' /\ AnswerInv(t)'
      BY <3>1, IdleType DEF AddressInv, NameInv, WorkloadInv, AnswerInv, At, Arriving, Leaving, Answered,
                            HoldingPoints, FreePoints, WorkloadPoints
    <3> QED BY <2>3, <3>2, <3>3 DEF TenantInv
  <2>5. CASE /\ ~At(t, "idle") /\ ~req'[t].sure
             /\ req'[t].pc = req[t].pc /\ req'[t].call = req[t].call /\ req'[t].slot = req[t].slot
             /\ req'[t].fresh = req[t].fresh /\ req'[t].own = req[t].own
             /\ req'[t].todo = req[t].todo
    <3>1. CallInv(t)'
      BY <2>1, <2>5 DEF TenantInv, CallInv, At
    <3>2. ~At(t, "next") => Unreserved(req[t].slot)'
      BY <2>1, <2>2, <2>5, OwnSlot DEF TenantInv, Unreserved
    <3>3. AddressInv(t)'
      BY <1>2, <2>1, <2>5, <3>2 DEF TenantInv, AddressInv, At, Arriving, Leaving, Holds, NameIsFree, Deployed
    <3>4. NameInv(t)'
      BY <1>2, <2>1, <2>5 DEF TenantInv, NameInv, At, Arriving, Leaving, HeldTarget, HeldBy, Held, Holds
    <3>5. WorkloadInv(t)'
      BY <1>2, <2>1, <2>5 DEF TenantInv, WorkloadInv, At, Deployed, VMOf
    <3>6. AnswerInv(t)'
      BY <1>2, <2>1, <2>5 DEF TenantInv, AnswerInv, At, Answered, VMOf, NameOf
    <3> QED BY <2>3, <3>1, <3>3, <3>4, <3>5, <3>6 DEF TenantInv
  <2> QED BY <1>4, <2>4, <2>5
<1> QED BY <1>6, <1>7, <1>8 DEF ResourcesInv

-----------------------------------------------------------------------------
(* The theorems.                                                             *)

LEMMA InitResources ==
    ASSUME Init
    PROVE  ResourcesInv
<1>1. TypeOK
  <2>1. ReqType
    BY IdleType DEF Init, ReqType
  <2>2. vm \in [VMs -> [name : Names \cup {None}, up : BOOLEAN]] /\ faults \in 0 .. MaxFaults
    BY ResourcesAssumption DEF Init, NoVM
  <2> QED BY <2>1, <2>2 DEF Init, TypeOK, ReqType, Locals
<1>2. \A s \in Slots : ~Holds(s) /\ ~Deployed(s) /\ rec[s] = Nowhere /\ zone[s] = Nowhere
  BY DEF Init, Holds, Deployed, NoAddr, NoWorkload
<1>3. AddressesGivenOnce
  <2>1. Held = {} /\ \A t \in Tenants : HeldBy(t) = {}
    BY <1>2 DEF Held, HeldBy
  <2> QED BY <2>1, FS_EmptySet, ResourcesAssumption DEF AddressesGivenOnce
<1>4. AppliedUnlessCutOff
  BY DEF Init, AppliedUnlessCutOff
<1>5. ASSUME NEW t \in Tenants PROVE TenantInv(t)
  <2>1. req[t].pc = "idle" /\ req[t].todo = {} /\ ~req[t].fresh /\ req[t].sure /\ req[t].call = NoCall
    BY DEF Init, Idle
  <2>2. CallInv(t) /\ AddressInv(t) /\ NameInv(t) /\ WorkloadInv(t) /\ AnswerInv(t)
    BY <2>1, IdleType DEF CallInv, AddressInv, NameInv, WorkloadInv, AnswerInv, At, Arriving, Leaving,
                          Answered, HoldingPoints, FreePoints, WorkloadPoints
  <2>3. AddressRows(t)
    BY <1>2, ResourcesAssumption DEF Init, AddressRows, HeldBy, Held
  <2>4. NameRows(t)
    BY <1>2 DEF NameRows, Nowhere
  <2>5. WorkloadRows(t)
    BY DEF Init, WorkloadRows, NoVM
  <2> QED BY <2>2, <2>3, <2>4, <2>5 DEF TenantInv, RowsInv
<1> QED BY <1>1, <1>3, <1>4, <1>5 DEF ResourcesInv

LEMMA StepInv ==
    ASSUME ResourcesInv, NEW t \in Tenants, Step(t)
    PROVE  ResourcesInv'
BY PutDeviceInv, DemoteInv, DropDeviceInv, AllocateInv, SearchInv, WithdrawInv, SaveInv,
   ReconfigureInv, PublishInv, MarkReadyInv, NextAddressInv, UnreserveInv, UnpublishInv,
   DropAddressInv, PublishRecordInv, PutRowInv, UnpublishRecordInv, DropRowInv,
   InsertWorkloadInv, BuildVMInv, StartVMInv, PublishNameInv, PublishPTRInv, MarkWorkloadInv,
   StopVMInv, DestroyVMInv, UnpublishNameInv, UnpublishPTRInv, DropWorkloadInv DEF Step

LEMMA NextResources ==
    ASSUME ResourcesInv, [Next]_vars
    PROVE  ResourcesInv'
<1>1. CASE Next
  BY <1>1, StepInv, FailInv, BeginInv, RebuildRouterInv DEF Next
<1>2. CASE UNCHANGED vars
  <2>1. UNCHANGED <<device, addr, wl, rec, kea, unapplied, vm, zone, ptr, unrecorded, req, faults>>
    BY <1>2 DEF vars, registry, router, names
  <2>2. TypeOK'
    BY <2>1 DEF ResourcesInv, TypeOK
  <2>3. AddressesGivenOnce' /\ AppliedUnlessCutOff'
    BY <2>1, AddressesKept DEF ResourcesInv, AppliedUnlessCutOff, At
  <2>4. \A t \in Tenants : Untouched(t)
    BY <2>1 DEF Untouched
  <2> QED BY <2>2, <2>3, <2>4, OtherTenant DEF ResourcesInv
<1> QED BY <1>1, <1>2

\* ResourcesInv holds in every state: what each call found or did by the point it
\* is at, with the rows and objects of its tenant, whatever is cut off and however
\* often the router is rebuilt.
THEOREM ResourcesInductive == Spec => []ResourcesInv
BY InitResources, NextResources, PTL DEF Spec

\* The registry's rows, the backends and the calls keep their types.
THEOREM ResourcesTypeCorrect == Spec => []TypeOK
<1>1. ResourcesInv => TypeOK
  BY DEF ResourcesInv
<1> QED BY <1>1, ResourcesInductive, PTL

\* No address of the shared range is given to two devices and no tenant gets
\* more than its share, whatever calls are between their checks and their
\* writes: pickAddress alone sees to it.
THEOREM AddressesUnique == Spec => []AddressesGivenOnce
<1>1. ResourcesInv => AddressesGivenOnce
  BY DEF ResourcesInv
<1> QED BY <1>1, ResourcesInductive, PTL

\* Reservations, VMs and PTRs have their rows, at that address or ordinal,
\* through calls cut off anywhere.
THEOREM ObjectsHaveRows == Spec => []EveryObjectHasARow
<1>1. ASSUME ResourcesInv PROVE EveryObjectHasARow
  <2>1. TypeOK /\ \A t \in Tenants : RowsInv(t)
    BY <1>1 DEF ResourcesInv, TenantInv
  <2>2. ASSUME NEW k \in kea \ Foreign PROVE Holds(k.slot) /\ addr[k.slot].at = k.at
    <3>1. k.slot \in Slots /\ k.slot[1] \in Tenants
      BY <2>1 DEF TypeOK, Rows, Slots
    <3> QED BY <2>1, <3>1 DEF RowsInv, AddressRows
  <2>3. ASSUME NEW v \in VMs
        PROVE  /\ vm[v].name # None => Deployed(<<v[1], vm[v].name>>) /\ wl[<<v[1], vm[v].name>>].ord = v[2]
               /\ ptr[v] # None => Deployed(<<v[1], ptr[v]>>) /\ wl[<<v[1], ptr[v]>>].ord = v[2]
    <3>1. v[1] \in Tenants
      BY DEF VMs
    <3> QED BY <2>1, <3>1 DEF RowsInv, WorkloadRows
  <2> QED BY <2>2, <2>3 DEF EveryObjectHasARow
<1> QED BY <1>1, ResourcesInductive, PTL

\* A name a device is published by is no workload's and no record's.
THEOREM NamesHaveOneOwner == Spec => []OneOwnerPerName
<1>1. ASSUME ResourcesInv PROVE OneOwnerPerName
  <2>1. \A s \in Held : s[1] \in Tenants /\ s \in HeldBy(s[1])
    BY DEF Held, HeldBy, Slots
  <2> QED BY <1>1, <2>1 DEF ResourcesInv, TenantInv, RowsInv, AddressRows, OneOwnerPerName
<1> QED BY <1>1, ResourcesInductive, PTL

\* No zone names an address of the shared range that its tenant does not hold,
\* but for a PutRecord that was cut off between its two writes.
THEOREM NamesDoNotOutlive == Spec => []NoNameLeftBehind
<1>1. ASSUME ResourcesInv PROVE NoNameLeftBehind
  <2> SUFFICES ASSUME NEW s \in Slots \ unrecorded, zone[s][1] = "net"
               PROVE  \E x \in HeldBy(s[1]) : Net(addr[x].at) = zone[s]
    BY DEF NoNameLeftBehind
  <2>1. s[1] \in Tenants
    BY DEF Slots
  <2>2. NameRows(s[1])
    BY <1>1, <2>1 DEF ResourcesInv, TenantInv, RowsInv
  <2>3. zone[s] = rec[s] => HeldTarget(s[1], zone[s])
    BY <2>2 DEF NameRows
  <2>4. Holds(s) => s \in HeldBy(s[1])
    BY DEF HeldBy, Held
  <2> QED BY <2>2, <2>3, <2>4 DEF NameRows, HeldTarget
<1> QED BY <1>1, ResourcesInductive, PTL

\* What a good answer says is so until the tenant's next call, whatever the
\* other tenants do; only a rebuild of the router takes the answer back.
THEOREM GoodAnswersHold == Spec => []AnswerHolds
<1>1. ASSUME ResourcesInv PROVE AnswerHolds
  <2> SUFFICES ASSUME NEW t \in Tenants
               PROVE  LET s == req[t].call.slot
                      IN  /\ Answered(t, "createAddress") => addr[s].status = "ready" /\ Reserved(s)
                          /\ Answered(t, "reconcile") => \A x \in HeldBy(t) : Reserved(x)
                          /\ Answered(t, "createWorkload") =>
                                LET v == <<t, wl[s].ord>>
                                IN  /\ wl[s].status = "ready" /\ zone[s] = Own(wl[s].ord)
                                    /\ vm[v] = [name |-> s[2], up |-> TRUE] /\ ptr[v] = s[2]
    BY DEF AnswerHolds
  <2>1. CallInv(t) /\ AnswerInv(t)
    BY <1>1 DEF ResourcesInv, TenantInv
  <2>2. Answered(t, "reconcile") => \A x \in HeldBy(t) : Reserved(x)
    BY <2>1 DEF CallInv, AnswerInv, Answered
  <2> QED BY <2>1, <2>2 DEF AnswerInv
<1> QED BY <1>1, ResourcesInductive, PTL

\* The DHCP server runs what is saved unless a call is about to reconfigure it
\* or one was cut off.
THEOREM SavedIsApplied == Spec => []AppliedUnlessCutOff
<1>1. ResourcesInv => AppliedUnlessCutOff
  BY DEF ResourcesInv
<1> QED BY <1>1, ResourcesInductive, PTL
=============================================================================
