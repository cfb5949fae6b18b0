--------------------------- MODULE TenantResources ---------------------------
(***************************************************************************)
(* What a ready tenant keeps inside its network: registered devices, fixed  *)
(* device addresses, workloads and extra records (internal/tenant/          *)
(* devices.go, addresses.go, service.go), over the registry, the DHCP       *)
(* server on the router (internal/backend/opnsense/kea.go), the VMs         *)
(* (internal/backend/proxmox/compute.go) and the tenant's zones             *)
(* (internal/backend/powerdns).                                             *)
(*                                                                          *)
(* All tenants draw their addresses from one range and their reservations   *)
(* live in one table, beside inventory's; everything else is a tenant's     *)
(* own.  A tenant makes one call at a time, tenants call concurrently, so   *)
(* what a handler reads of its own tenant is read where it is used, and     *)
(* only the reads of other tenants' rows are steps apart from the writes    *)
(* that rest on them.  A handler may stop at any point: a failed request, a *)
(* lost answer, a crash.                                                    *)
(*                                                                          *)
(* There is one trust class.  A refusal that changes nothing is no step.    *)
(***************************************************************************)
EXTENDS Naturals, FiniteSets

CONSTANTS
    Tenants,
    Names,         \* labels: of devices, workloads and records alike
    MACs,
    PoolSize,      \* the range set aside for tenants is 1 .. PoolSize
    Quota,         \* Site.AddressQuota
    MaxWorkloads,
    Calls,         \* the calls the tenants may make
    Foreign,       \* inventory's reservations
    MaxFaults,     \* bound on calls cut off and rebuilds of the router
    None

Slots == Tenants \X Names
Pool == 1 .. PoolSize
Ordinals == 0 .. MaxWorkloads - 1
VMs == Tenants \X Ordinals

\* An address: in the shared range, or a workload's in the tenant's subnet.
Net(a) == <<"net", a>>
Own(o) == <<"own", o>>
Nowhere == <<"none", 0>>
Targets == ({"net"} \X Pool) \cup ({"own"} \X Ordinals)

\* A row of the DHCP server's table; slot stands for its description.
Rows == [slot : Slots, mac : MACs, at : Pool]
NoKea == [slot |-> <<None, None>>, mac |-> None, at |-> 0]

Ops == {"createDevice", "deleteDevice", "createAddress", "deleteAddress", "reconcile",
        "putRecord", "deleteRecord", "createWorkload", "deleteWorkload"}

\* mac: the device's, None for none; at: the address asked for, 0 for any; to:
\* where a record points.
CallType == [op : Ops, slot : Slots, mac : MACs \cup {None}, at : Nat, to : Targets \cup {Nowhere}]

ASSUME ResourcesAssumption ==
    /\ IsFiniteSet(Tenants) /\ IsFiniteSet(Names)
    /\ PoolSize \in Nat /\ Quota \in Nat \ {0} /\ MaxWorkloads \in Nat \ {0}
    /\ MaxFaults \in Nat
    /\ None \notin Tenants \cup Names \cup MACs
    /\ "absent" \notin MACs \cup {None}
    /\ Calls \subseteq CallType
    /\ \A k \in Foreign : k.slot \notin Slots /\ k.at \in Nat

VARIABLES
    device,      \* the registered MAC of a device, None for none, or "absent"
    addr,        \* the row of a device's address
    kea,         \* the DHCP server's table
    unapplied,   \* it was written since the server was last reconfigured
    wl,          \* the row of a workload
    vm,          \* the VMs, by VMID
    rec,         \* the rows of the extra records
    zone, ptr,   \* the names published in the tenants' zones, and the PTRs
    req,         \* each tenant's call in flight, or its last answer
    unrecorded,  \* names PutRecord published and has not recorded yet
    faults

registry == <<device, addr, wl, rec>>
router == <<kea, unapplied>>
names == <<zone, ptr, unrecorded>>
vars == <<registry, router, vm, names, req, faults>>

NoAddr == [status |-> "absent", at |-> 0]
NoWorkload == [status |-> "absent", ord |-> 0]
NoVM == [name |-> None, up |-> FALSE]

NoCall == [op |-> "none", slot |-> <<None, None>>, mac |-> None, at |-> 0, to |-> Nowhere]

\* slot: the device a reservation is being made for; fresh: its row was made by
\* this call; own: the row of the table that bears its description; todo: what
\* a reconcile has left; sure: the router was not rebuilt under the call.
Idle == [pc |-> "idle", call |-> NoCall, slot |-> <<None, None>>, fresh |-> FALSE,
         own |-> NoKea, todo |-> {}, sure |-> TRUE]

At(t, point) == req[t].pc = point
Goto(t, point) == req' = [req EXCEPT ![t].pc = point]
Cut(t) == req' = [req EXCEPT ![t] = Idle]

\* A good answer; of those that build something the call is kept.
Builds == {"createDevice", "createAddress", "reconcile", "createWorkload"}
Answer(t) ==
    req' = [req EXCEPT ![t] = IF req[t].sure /\ req[t].call.op \in Builds
                              THEN [Idle EXCEPT !.call = req[t].call] ELSE Idle]

Start(t, c, point) ==
    req' = [req EXCEPT ![t] = [Idle EXCEPT !.pc = point, !.call = c, !.slot = c.slot]]

Holds(s) == addr[s].status # "absent"
Held == {s \in Slots : Holds(s)}
HeldBy(t) == {s \in Held : s[1] = t}
Deployed(s) == wl[s].status # "absent"

Init ==
    /\ device = [s \in Slots |-> "absent"]
    /\ addr = [s \in Slots |-> NoAddr]
    /\ wl = [s \in Slots |-> NoWorkload]
    /\ rec = [s \in Slots |-> Nowhere]
    /\ kea = Foreign /\ unapplied = FALSE
    /\ vm = [v \in VMs |-> NoVM]
    /\ zone = [s \in Slots |-> Nowhere]
    /\ ptr = [v \in VMs |-> None]
    /\ unrecorded = {}
    /\ req = [t \in Tenants |-> Idle]
    /\ faults = 0

-----------------------------------------------------------------------------
(* Devices.                                                                  *)

\* CreateDevice up to its write.  The MAC of a device that holds an address
\* may not be cleared, and another device's is refused.
CreateDevice(t, c) ==
    LET moved == Holds(c.slot) /\ device[c.slot] # c.mac
    IN  /\ moved => c.mac # None /\ \A s \in Held \ {c.slot} : device[s] # c.mac
        /\ req' = [req EXCEPT ![t] = [Idle EXCEPT !.pc = IF moved THEN "moveDevice" ELSE "putDevice",
                                                  !.call = c, !.slot = c.slot]]
        /\ UNCHANGED <<registry, router, vm, names, faults>>

PutDevice(t) ==
    /\ At(t, "putDevice") \/ At(t, "moveDevice")
    /\ device' = [device EXCEPT ![req[t].slot] = req[t].call.mac]
    /\ IF At(t, "moveDevice") THEN Goto(t, "demote") ELSE Answer(t)
    /\ UNCHANGED <<addr, wl, rec, router, vm, names, faults>>

\* The address is provisioning again while its reservation moves.
Demote(t) ==
    /\ At(t, "demote")
    /\ addr' = [addr EXCEPT ![req[t].slot].status = "provisioning"]
    /\ Goto(t, "search")
    /\ UNCHANGED <<device, wl, rec, router, vm, names, faults>>

\* For a mutant: the address is not looked for.
DeleteDeviceUnchecked(t, c) ==
    /\ device[c.slot] # "absent"
    /\ Start(t, c, "dropDevice")
    /\ UNCHANGED <<registry, router, vm, names, faults>>

DeleteDevice(t, c) ==
    /\ device[c.slot] # "absent"
    /\ ~Holds(c.slot)
    /\ Start(t, c, "dropDevice")
    /\ UNCHANGED <<registry, router, vm, names, faults>>

\* The row of its address would go with it.
DropDevice(t) ==
    /\ At(t, "dropDevice")
    /\ device' = [device EXCEPT ![req[t].slot] = "absent"]
    /\ addr' = [addr EXCEPT ![req[t].slot] = NoAddr]
    /\ Answer(t)
    /\ UNCHANGED <<wl, rec, router, vm, names, faults>>

-----------------------------------------------------------------------------
(* Fixed addresses.                                                          *)

\* nameIsFree
NameIsFree(s) == ~Deployed(s) /\ rec[s] = Nowhere

\* CreateDeviceAddress up to the allocation.  A device that holds an address
\* keeps it.
CreateAddress(t, c) ==
    /\ device[c.slot] \in MACs
    /\ c.at \in Pool \cup {0}
    /\ IF Holds(c.slot) THEN c.at \in {0, addr[c.slot].at} ELSE NameIsFree(c.slot)
    /\ req' = [req EXCEPT ![t] = [Idle EXCEPT !.pc = "pick", !.call = c, !.slot = c.slot,
                                              !.fresh = ~Holds(c.slot)]]
    /\ UNCHANGED <<registry, router, vm, names, faults>>

Free == Pool \ {addr[s].at : s \in Held}

\* The MAC has an address already, whoever's, or the tenant its share.
Refused(s) ==
    \/ \E h \in Held : device[h] = device[s]
    \/ Cardinality(HeldBy(s[1])) >= Quota

\* For a mutant: a requested address is given without a look at who holds it.
PickRequestedBlindly(s, requested) ==
    IF Refused(s) THEN {}
    ELSE IF requested # 0 THEN {requested}
    ELSE {a \in Free : \A b \in Free : a <= b}

\* For a mutant: the walk begins one below the range.
PickFromZero(s, requested) ==
    IF Refused(s) THEN {}
    ELSE IF requested # 0 THEN {requested} \cap Free
    ELSE {a \in Free \cup {0} : \A b \in Free \cup {0} : a <= b}

\* pickAddress: the address asked for, or the lowest free one; empty when it
\* refuses, or that address is taken, or none is free.
pickAddress(s, requested) ==
    IF Refused(s) THEN {}
    ELSE IF requested # 0 THEN {requested} \cap Free
    ELSE {a \in Free : \A b \in Free : a <= b}

\* Postgres.CreateDeviceAddress, under the allocation lock.
Allocate(t) ==
    LET s == req[t].slot
    IN  /\ At(t, "pick")
        /\ \/ /\ Holds(s)
              /\ addr' = [addr EXCEPT ![s].status = "provisioning"]
              /\ Goto(t, "search")
           \/ /\ ~Holds(s)
              /\ \E a \in pickAddress(s, req[t].call.at) :
                    addr' = [addr EXCEPT ![s] = [status |-> "provisioning", at |-> a]]
              /\ Goto(t, "search")
           \/ /\ ~Holds(s) /\ pickAddress(s, req[t].call.at) = {}
              /\ Cut(t)
              /\ UNCHANGED addr
        /\ UNCHANGED <<device, wl, rec, router, vm, names, faults>>

\* Service.reservation
Wanted(s) == [slot |-> s, mac |-> device[s], at |-> addr[s].at]

Clash(r) == \E k \in kea : k.slot # r.slot /\ (k.at = r.at \/ k.mac = r.mac)

\* EnsureReservation reads the table.  A conflict takes back the row of a call
\* that made it; the row in place needs no write.
Search(t) ==
    LET r == Wanted(req[t].slot)
        mine == {k \in kea : k.slot = r.slot}
    IN  /\ At(t, "search")
        /\ \/ /\ Clash(r) /\ req[t].fresh
              /\ Goto(t, "withdraw")
           \/ /\ Clash(r) /\ ~req[t].fresh
              /\ Cut(t)
           \/ /\ ~Clash(r) /\ r \in mine
              /\ Goto(t, "publish")
           \/ /\ ~Clash(r) /\ r \notin mine
              /\ \E k \in IF mine = {} THEN {NoKea} ELSE mine :
                    req' = [req EXCEPT ![t].pc = "save", ![t].own = k]
        /\ UNCHANGED <<registry, router, vm, names, faults>>

Withdraw(t) ==
    /\ At(t, "withdraw")
    /\ addr' = [addr EXCEPT ![req[t].slot] = NoAddr]
    /\ Cut(t)
    /\ UNCHANGED <<device, wl, rec, router, vm, names, faults>>

\* The server refuses a second row for a MAC or an address, and a change of a
\* row that is gone.
Accepts(r, own) ==
    /\ own \in kea \cup {NoKea}
    /\ \A k \in kea \ {own} : k.at # r.at /\ k.mac # r.mac

\* add_reservation, or set_reservation of the row found.
Save(t) ==
    LET r == Wanted(req[t].slot)
    IN  /\ At(t, "save")
        /\ \/ /\ Accepts(r, req[t].own)
              /\ kea' = (kea \ {req[t].own}) \cup {r}
              /\ unapplied' = TRUE
              /\ req' = [req EXCEPT ![t].pc = "reconfigure", ![t].own = NoKea]
           \/ /\ ~Accepts(r, req[t].own)
              /\ Cut(t)
              /\ UNCHANGED router
        /\ UNCHANGED <<registry, vm, names, faults>>

\* The server runs what is saved, whoever saved it.
Reconfigure(t) ==
    /\ At(t, "reconfigure")
    /\ unapplied' = FALSE
    /\ Goto(t, IF req[t].call.op = "deleteAddress" THEN "unpublish" ELSE "publish")
    /\ UNCHANGED <<registry, kea, vm, names, faults>>

\* pushAddress and ensureAddresses publish the device's name.
Publish(t) ==
    LET s == req[t].slot
    IN  /\ At(t, "publish")
        /\ zone' = [zone EXCEPT ![s] = Net(addr[s].at)]
        /\ unrecorded' = unrecorded \ {s}
        /\ Goto(t, IF req[t].call.op = "reconcile" THEN "next" ELSE "markReady")
        /\ UNCHANGED <<registry, router, vm, ptr, faults>>

MarkReady(t) ==
    /\ At(t, "markReady")
    /\ addr' = [addr EXCEPT ![req[t].slot].status = "ready"]
    /\ Answer(t)
    /\ UNCHANGED <<device, wl, rec, router, vm, names, faults>>

\* For a mutant: records are not looked at.
DeleteAddressUnchecked(t, c) ==
    /\ Holds(c.slot)
    /\ Start(t, c, "unreserve")
    /\ UNCHANGED <<registry, router, vm, names, faults>>

\* DeleteDeviceAddress up to its first removal: no record points at it.
DeleteAddress(t, c) ==
    /\ Holds(c.slot)
    /\ \A s \in Slots : s[1] = t => rec[s] # Net(addr[c.slot].at)
    /\ Start(t, c, "unreserve")
    /\ UNCHANGED <<registry, router, vm, names, faults>>

\* For a mutant: the server is not reconfigured.
UnreserveQuietly(t) ==
    LET mine == {k \in kea : k.slot = req[t].slot}
    IN  /\ At(t, "unreserve")
        /\ kea' = kea \ mine
        /\ unapplied' = (unapplied \/ mine # {})
        /\ Goto(t, "unpublish")
        /\ UNCHANGED <<registry, vm, names, faults>>

\* RemoveReservation, by description.
Unreserve(t) ==
    LET mine == {k \in kea : k.slot = req[t].slot}
    IN  /\ At(t, "unreserve")
        /\ kea' = kea \ mine
        /\ unapplied' = (unapplied \/ mine # {})
        /\ Goto(t, IF mine = {} THEN "unpublish" ELSE "reconfigure")
        /\ UNCHANGED <<registry, vm, names, faults>>

Unpublish(t) ==
    /\ At(t, "unpublish")
    /\ zone' = [zone EXCEPT ![req[t].slot] = Nowhere]
    /\ unrecorded' = unrecorded \ {req[t].slot}
    /\ Goto(t, "dropAddress")
    /\ UNCHANGED <<registry, router, vm, ptr, faults>>

DropAddress(t) ==
    /\ At(t, "dropAddress")
    /\ addr' = [addr EXCEPT ![req[t].slot] = NoAddr]
    /\ Answer(t)
    /\ UNCHANGED <<device, wl, rec, router, vm, names, faults>>

\* For a mutant: only what is ready is put back.
ReconcileReadyOnly(t, c) ==
    /\ req' = [req EXCEPT ![t] = [Idle EXCEPT !.pc = "next", !.call = c,
                                              !.todo = {s \in HeldBy(t) : addr[s].status = "ready"}]]
    /\ UNCHANGED <<registry, router, vm, names, faults>>

\* ensureAddresses, the addresses step of a reconcile.
Reconcile(t, c) ==
    /\ req' = [req EXCEPT ![t] = [Idle EXCEPT !.pc = "next", !.call = c, !.todo = HeldBy(t)]]
    /\ UNCHANGED <<registry, router, vm, names, faults>>

NextAddress(t) ==
    /\ At(t, "next")
    /\ \/ \E s \in req[t].todo :
            req' = [req EXCEPT ![t].pc = "search", ![t].slot = s, ![t].todo = @ \ {s}]
       \/ req[t].todo = {} /\ Answer(t)
    /\ UNCHANGED <<registry, router, vm, names, faults>>

-----------------------------------------------------------------------------
(* Extra records.                                                            *)

\* For a mutant: deviceHoldsName is not asked.
PutRecordUnchecked(t, c) ==
    /\ c.to[1] = "own" \/ \E s \in HeldBy(t) : c.to = Net(addr[s].at)
    /\ Start(t, c, "pubRecord")
    /\ UNCHANGED <<registry, router, vm, names, faults>>

\* PutRecord up to its first write: into the tenant's subnet, or at an address
\* it holds, under a name no device is published by.
PutRecord(t, c) ==
    /\ ~Holds(c.slot)
    /\ c.to[1] = "own" \/ \E s \in HeldBy(t) : c.to = Net(addr[s].at)
    /\ Start(t, c, "pubRecord")
    /\ UNCHANGED <<registry, router, vm, names, faults>>

PublishRecord(t) ==
    LET s == req[t].slot
    IN  /\ At(t, "pubRecord")
        /\ zone' = [zone EXCEPT ![s] = req[t].call.to]
        /\ unrecorded' = unrecorded \cup {s}
        /\ Goto(t, "putRow")
        /\ UNCHANGED <<registry, router, vm, ptr, faults>>

PutRow(t) ==
    LET s == req[t].slot
    IN  /\ At(t, "putRow")
        /\ rec' = [rec EXCEPT ![s] = req[t].call.to]
        /\ unrecorded' = unrecorded \ {s}
        /\ Answer(t)
        /\ UNCHANGED <<device, addr, wl, router, vm, zone, ptr, faults>>

DeleteRecord(t, c) ==
    /\ rec[c.slot] # Nowhere
    /\ Start(t, c, "unpubRecord")
    /\ UNCHANGED <<registry, router, vm, names, faults>>

UnpublishRecord(t) ==
    LET s == req[t].slot
    IN  /\ At(t, "unpubRecord")
        /\ zone' = [zone EXCEPT ![s] = Nowhere]
        /\ unrecorded' = unrecorded \ {s}
        /\ Goto(t, "dropRow")
        /\ UNCHANGED <<registry, router, vm, ptr, faults>>

DropRow(t) ==
    /\ At(t, "dropRow")
    /\ rec' = [rec EXCEPT ![req[t].slot] = Nowhere]
    /\ Answer(t)
    /\ UNCHANGED <<device, addr, wl, router, vm, names, faults>>

-----------------------------------------------------------------------------
(* Workloads.  Sizing is left out; a VMID stands for its tenant and ordinal. *)

FreeOrdinals(t) == Ordinals \ {wl[s].ord : s \in {x \in Slots : x[1] = t /\ Deployed(x)}}

\* CreateWorkload up to its row; an existing one is re-applied as it is.
CreateWorkload(t, c) ==
    /\ Deployed(c.slot) \/ (~Holds(c.slot) /\ FreeOrdinals(t) # {})
    /\ Start(t, c, IF Deployed(c.slot) THEN "build" ELSE "insert")
    /\ UNCHANGED <<registry, router, vm, names, faults>>

\* Postgres.CreateWorkload, under the allocation lock.
InsertWorkload(t) ==
    /\ At(t, "insert")
    /\ \E o \in FreeOrdinals(t) :
          /\ \A p \in FreeOrdinals(t) : o <= p
          /\ wl' = [wl EXCEPT ![req[t].slot] = [status |-> "provisioning", ord |-> o]]
    /\ Goto(t, "build")
    /\ UNCHANGED <<device, addr, rec, router, vm, names, faults>>

VMOf(t) == <<t, wl[req[t].slot].ord>>
NameOf(t) == req[t].slot[2]

\* EnsureWorkload clones the VM, or adopts one of this name; configureWorkload
\* starts it unless it runs.
BuildVM(t) ==
    /\ At(t, "build")
    /\ vm[VMOf(t)].name \in {None, NameOf(t)}
    /\ vm' = [vm EXCEPT ![VMOf(t)].name = NameOf(t)]
    /\ Goto(t, "start")
    /\ UNCHANGED <<registry, router, names, faults>>

StartVM(t) ==
    /\ At(t, "start")
    /\ vm' = [vm EXCEPT ![VMOf(t)].up = TRUE]
    /\ Goto(t, "pubName")
    /\ UNCHANGED <<registry, router, names, faults>>

\* EnsureRecords: the A record, then the PTR in the reverse zone.
PublishName(t) ==
    LET s == req[t].slot
    IN  /\ At(t, "pubName")
        /\ zone' = [zone EXCEPT ![s] = Own(wl[s].ord)]
        /\ unrecorded' = unrecorded \ {s}
        /\ Goto(t, "pubPTR")
        /\ UNCHANGED <<registry, router, vm, ptr, faults>>

PublishPTR(t) ==
    /\ At(t, "pubPTR")
    /\ ptr' = [ptr EXCEPT ![VMOf(t)] = NameOf(t)]
    /\ Goto(t, "markWorkload")
    /\ UNCHANGED <<registry, router, vm, zone, unrecorded, faults>>

MarkWorkload(t) ==
    /\ At(t, "markWorkload")
    /\ wl' = [wl EXCEPT ![req[t].slot].status = "ready"]
    /\ Answer(t)
    /\ UNCHANGED <<device, addr, rec, router, vm, names, faults>>

DeleteWorkload(t, c) ==
    /\ Deployed(c.slot)
    /\ Start(t, c, "stop")
    /\ UNCHANGED <<registry, router, vm, names, faults>>

\* RemoveWorkload: an absent VM is removed already, a running one is stopped.
StopVM(t) ==
    /\ At(t, "stop")
    /\ vm' = [vm EXCEPT ![VMOf(t)].up = FALSE]
    /\ Goto(t, IF vm[VMOf(t)].name = None THEN "unpubName" ELSE "destroy")
    /\ UNCHANGED <<registry, router, names, faults>>

DestroyVM(t) ==
    /\ At(t, "destroy")
    /\ vm' = [vm EXCEPT ![VMOf(t)] = NoVM]
    /\ Goto(t, "unpubName")
    /\ UNCHANGED <<registry, router, names, faults>>

UnpublishName(t) ==
    LET s == req[t].slot
    IN  /\ At(t, "unpubName")
        /\ zone' = [zone EXCEPT ![s] = Nowhere]
        /\ unrecorded' = unrecorded \ {s}
        /\ Goto(t, "unpubPTR")
        /\ UNCHANGED <<registry, router, vm, ptr, faults>>

UnpublishPTR(t) ==
    /\ At(t, "unpubPTR")
    /\ ptr' = [ptr EXCEPT ![VMOf(t)] = None]
    /\ Goto(t, "dropWorkload")
    /\ UNCHANGED <<registry, router, vm, zone, unrecorded, faults>>

DropWorkload(t) ==
    /\ At(t, "dropWorkload")
    /\ wl' = [wl EXCEPT ![req[t].slot] = NoWorkload]
    /\ Answer(t)
    /\ UNCHANGED <<device, addr, rec, router, vm, names, faults>>

-----------------------------------------------------------------------------
\* A call is cut off before its next step: a request failed, before or after
\* it landed, or the process stopped.
Fail(t) ==
    /\ ~At(t, "idle")
    /\ faults < MaxFaults
    /\ faults' = faults + 1
    /\ Cut(t)
    /\ UNCHANGED <<registry, router, vm, names>>

\* The router is rebuilt from inventory, which has no tenant's reservations.
RebuildRouter ==
    /\ faults < MaxFaults
    /\ faults' = faults + 1
    /\ kea' = Foreign /\ unapplied' = FALSE
    /\ req' = [t \in Tenants |-> IF At(t, "idle") THEN Idle ELSE [req[t] EXCEPT !.sure = FALSE]]
    /\ UNCHANGED <<registry, vm, names>>

Begin(t, c) ==
    /\ At(t, "idle") /\ c.slot[1] = t
    /\ \/ c.op = "createDevice" /\ CreateDevice(t, c)
       \/ c.op = "deleteDevice" /\ DeleteDevice(t, c)
       \/ c.op = "createAddress" /\ CreateAddress(t, c)
       \/ c.op = "deleteAddress" /\ DeleteAddress(t, c)
       \/ c.op = "reconcile" /\ Reconcile(t, c)
       \/ c.op = "putRecord" /\ PutRecord(t, c)
       \/ c.op = "deleteRecord" /\ DeleteRecord(t, c)
       \/ c.op = "createWorkload" /\ CreateWorkload(t, c)
       \/ c.op = "deleteWorkload" /\ DeleteWorkload(t, c)

Step(t) ==
    \/ PutDevice(t) \/ Demote(t) \/ DropDevice(t)
    \/ Allocate(t) \/ Search(t) \/ Withdraw(t) \/ Save(t) \/ Reconfigure(t)
    \/ Publish(t) \/ MarkReady(t) \/ NextAddress(t)
    \/ Unreserve(t) \/ Unpublish(t) \/ DropAddress(t)
    \/ PublishRecord(t) \/ PutRow(t) \/ UnpublishRecord(t) \/ DropRow(t)
    \/ InsertWorkload(t) \/ BuildVM(t) \/ StartVM(t)
    \/ PublishName(t) \/ PublishPTR(t) \/ MarkWorkload(t)
    \/ StopVM(t) \/ DestroyVM(t) \/ UnpublishName(t) \/ UnpublishPTR(t) \/ DropWorkload(t)

Next ==
    \/ \E t \in Tenants : Step(t) \/ Fail(t) \/ \E c \in Calls : Begin(t, c)
    \/ RebuildRouter

Spec == Init /\ [][Next]_vars

-----------------------------------------------------------------------------
(* Properties.                                                               *)

Statuses == {"provisioning", "ready"}

Points == {"idle", "putDevice", "moveDevice", "demote", "dropDevice", "pick", "search", "withdraw",
           "save", "reconfigure", "publish", "markReady", "unreserve", "unpublish", "dropAddress",
           "next", "pubRecord", "putRow", "unpubRecord", "dropRow", "insert", "build", "start",
           "pubName", "pubPTR", "markWorkload", "stop", "destroy", "unpubName", "unpubPTR",
           "dropWorkload"}

\* Types, of the registry's rows (the tables' CHECK constraints), the backends
\* and the calls.
TypeOK ==
    /\ device \in [Slots -> MACs \cup {None, "absent"}]
    /\ addr \in [Slots -> {NoAddr} \cup [status : Statuses, at : Pool]]
    /\ wl \in [Slots -> {NoWorkload} \cup [status : Statuses, ord : Ordinals]]
    /\ rec \in [Slots -> Targets \cup {Nowhere}]
    /\ kea \subseteq Rows \cup Foreign
    /\ unapplied \in BOOLEAN
    /\ vm \in [VMs -> [name : Names \cup {None}, up : BOOLEAN]]
    /\ zone \in [Slots -> Targets \cup {Nowhere}]
    /\ ptr \in [VMs -> Names \cup {None}]
    /\ unrecorded \subseteq Slots
    /\ req \in [Tenants -> [pc : Points, call : Calls \cup {NoCall},
                            slot : Slots \cup {<<None, None>>}, fresh : BOOLEAN,
                            own : Rows \cup {NoKea}, todo : SUBSET Slots, sure : BOOLEAN]]
    /\ faults \in 0 .. MaxFaults

\* No two devices of any tenants are given one address, and no tenant has more
\* than its share: pickAddress alone sees to it, under the allocation lock,
\* whatever calls are between their checks and their writes.
AddressesGivenOnce ==
    /\ \A s, x \in Held : s # x => addr[s].at # addr[x].at
    /\ \A t \in Tenants : Cardinality(HeldBy(t)) <= Quota

\* What the API has placed on the DHCP server, the node and in the reverse
\* zone has its row in the registry, at that address or ordinal: a row is made
\* before the object and outlives it (DeleteDevice, DeleteDeviceAddress,
\* DeleteWorkload), through calls cut off anywhere.  An object without a row
\* would keep an address of the shared range, or a VMID, for nobody.
EveryObjectHasARow ==
    /\ \A k \in kea \ Foreign : Holds(k.slot) /\ addr[k.slot].at = k.at
    /\ \A v \in VMs : LET n == vm[v].name IN n # None => Deployed(<<v[1], n>>) /\ wl[<<v[1], n>>].ord = v[2]
    /\ \A v \in VMs : ptr[v] # None => Deployed(<<v[1], ptr[v]>>) /\ wl[<<v[1], ptr[v]>>].ord = v[2]

\* A name a device is published by is no workload's and no record's: whichever
\* came first keeps it (nameIsFree, deviceHoldsName).
OneOwnerPerName ==
    \A s \in Held : NameIsFree(s)

\* No tenant's zone names an address of the shared range that the tenant does
\* not hold, which would be whichever tenant's is given it next
\* (DeleteDeviceAddress), unless a PutRecord was cut off between its two writes.
NoNameLeftBehind ==
    \A s \in Slots \ unrecorded :
        zone[s][1] = "net" => \E x \in HeldBy(s[1]) : Net(addr[x].at) = zone[s]

\* The same with no exception, at the point where it does harm: no tenant's zone
\* names an address that another tenant holds, which is why
\* DeleteDeviceAddress looks for a name that points at it
\* (addresses.go:232-233).  Violated: PutRecord publishes the name before its
\* row is written, and the row is all that DeleteDeviceAddress looks at.
NoNameForAnother ==
    \A s \in Slots, x \in Held : zone[s] = Net(addr[x].at) => s[1] = x[1]

Reserved(s) == Wanted(s) \in kea /\ zone[s] = Net(addr[s].at)

\* The call last answered well for t is op.
Answered(t, op) == At(t, "idle") /\ req[t].call.op = op

\* What a good answer says is so, until the tenant's next call, whatever the
\* other tenants do: an address is ready, reserved for the device's MAC and
\* published; a reconcile has put all of them back; a workload's VM runs and
\* is published both ways.
AnswerHolds ==
    \A t \in Tenants :
        LET s == req[t].call.slot
        IN  /\ Answered(t, "createAddress") => addr[s].status = "ready" /\ Reserved(s)
            /\ Answered(t, "reconcile") => \A x \in HeldBy(t) : Reserved(x)
            /\ Answered(t, "createWorkload") =>
                  LET v == <<t, wl[s].ord>>
                  IN  /\ wl[s].status = "ready" /\ zone[s] = Own(wl[s].ord)
                      /\ vm[v] = [name |-> s[2], up |-> TRUE] /\ ptr[v] = s[2]

\* The DHCP server runs what is saved unless a call is about to reconfigure it
\* or one was cut off: no handler leaves another's write, or its own,
\* unapplied.
AppliedUnlessCutOff ==
    unapplied /\ faults = 0 => \E t \in Tenants : At(t, "reconfigure")

\* When CreateDeviceAddress answers well the DHCP server runs what is saved, or
\* a call is about to reconfigure it: the call that repeats a failed one
\* resumes it (conventions.md:57).  Violated: the repeated call finds the
\* reservation saved as it should be and returns (kea.go:114-116), and what
\* its predecessor failed to apply stays so.
AnsweredIsApplied ==
    [][\A t \in Tenants :
          ~At(t, "idle") /\ Answered(t, "createAddress")'
            => ~unapplied' \/ \E u \in Tenants : At(u, "reconfigure")']_vars

\* The reservation follows the device's registered MAC: when CreateDevice has
\* answered well, the device has no reservation for another one.
ReservationFollowsMAC ==
    \A t \in Tenants :
        LET s == req[t].call.slot
        IN  Answered(t, "createDevice") => \A k \in kea : k.slot = s => k.mac = device[s]
=============================================================================
