------------------------------- MODULE Fabric -------------------------------
(***************************************************************************)
(* The network step: Service.network and removeNetwork                      *)
(* (internal/tenant/service.go) over Ensure, Remove and Apply of            *)
(* internal/backend/proxmox/network.go.                                     *)
(*                                                                          *)
(* Proxmox keeps SDN configuration twice: what is saved, which the API's    *)
(* reads and writes see, and what the cluster runs, which is the saved one  *)
(* as of the last successful apply.  Apply is cluster-wide, so the service  *)
(* runs one call at a time under the mutex sdn.  A call's writes are        *)
(* separate HTTP requests; each may fail, with or without having landed.    *)
(*                                                                          *)
(* A tenant has one call at a time; its index, and with it the VNIs, is     *)
(* fixed here (TenantLifecycle has the zone of a wrong VNI).                *)
(***************************************************************************)
EXTENDS Naturals

CONSTANTS
    Tenants,
    VNetOf,      \* VNetOf[t]: t's VNet id, the first six characters of its name
    MaxFaults,   \* bound on failed requests
    None

VNets == {VNetOf[t] : t \in Tenants}

ASSUME FabricAssumption ==
    /\ None \notin Tenants
    /\ DOMAIN VNetOf = Tenants
    /\ MaxFaults \in Nat

VARIABLES
    saved,    \* the saved configuration
    running,  \* the one the cluster runs
    status,   \* the tenant's status in the registry
    call,     \* the network call of each tenant
    sdn,      \* who holds the mutex
    missed,   \* tenants whose call failed with nothing left to write
    faults

vars == <<saved, running, status, call, sdn, missed, faults>>

-----------------------------------------------------------------------------
(* A configuration: the zones, the zone each VNet belongs to, and whose      *)
(* subnets each VNet carries (a subnet is told by its tenant's index).       *)
Configs == [zones : SUBSET Tenants,
            vnets : [VNets -> Tenants \cup {None}],
            subnets : [VNets -> SUBSET Tenants]]

Empty == [zones |-> {}, vnets |-> [v \in VNets |-> None], subnets |-> [v \in VNets |-> {}]]

Whole(c, t) == t \in c.zones /\ c.vnets[VNetOf[t]] = t /\ t \in c.subnets[VNetOf[t]]
Nothing(c, t) == t \notin c.zones /\ c.vnets[VNetOf[t]] # t /\ t \notin c.subnets[VNetOf[t]]

EnsurePoints == {"zone", "vnet", "subnet"}
RemovePoints == {"delSubnets", "delVNet", "delZone"}
Held == EnsurePoints \cup RemovePoints \cup {"apply"}

NoCall == [pc |-> "idle", op |-> "none", changed |-> FALSE]

At(t, point) == call[t].pc = point

Init ==
    /\ saved = Empty /\ running = Empty
    /\ status = [t \in Tenants |-> "absent"]
    /\ call = [t \in Tenants |-> NoCall]
    /\ sdn = None
    /\ missed = {}
    /\ faults = 0

-----------------------------------------------------------------------------
(* Create, resume, reconcile reach the network step; so does delete.         *)

BeginEnsure(t) ==
    /\ At(t, "idle") /\ status[t] # "deleting"
    /\ status' = [status EXCEPT ![t] = IF @ = "absent" THEN "provisioning" ELSE @]
    /\ call' = [call EXCEPT ![t] = [NoCall EXCEPT !.pc = "lock", !.op = "ensure"]]
    /\ UNCHANGED <<saved, running, sdn, missed, faults>>

BeginRemove(t) ==
    /\ At(t, "idle") /\ status[t] # "absent"
    /\ status' = [status EXCEPT ![t] = "deleting"]
    /\ call' = [call EXCEPT ![t] = [NoCall EXCEPT !.pc = "lock", !.op = "remove"]]
    /\ UNCHANGED <<saved, running, sdn, missed, faults>>

\* Mutant: the mutex is not waited for.
LockUnguarded(t) ==
    /\ At(t, "lock")
    /\ sdn' = t
    /\ call' = [call EXCEPT ![t].pc = IF call[t].op = "ensure" THEN "zone" ELSE "delSubnets"]
    /\ UNCHANGED <<saved, running, status, missed, faults>>

Lock(t) ==
    /\ At(t, "lock") /\ sdn = None
    /\ sdn' = t
    /\ call' = [call EXCEPT ![t].pc = IF call[t].op = "ensure" THEN "zone" ELSE "delSubnets"]
    /\ UNCHANGED <<saved, running, status, missed, faults>>

\* The call returns and the mutex is released, deferred as it is.
Return(t, newStatus) ==
    /\ call' = [call EXCEPT ![t] = NoCall]
    /\ sdn' = None
    /\ status' = [status EXCEPT ![t] = newStatus]

\* Mutant: a status the registry's table does not know.
SucceedRemoved(t) == Return(t, IF call[t].op = "ensure" THEN "ready" ELSE "removed")

Succeed(t) == Return(t, IF call[t].op = "ensure" THEN "ready" ELSE "absent")

Fail(t) == Return(t, IF call[t].op = "ensure" THEN "provisioning" ELSE "deleting")

-----------------------------------------------------------------------------
(* Ensure and Remove, one object at a time: read, and write what is missing. *)

\* Another zone's VNet carries the id: Ensure refuses.
Refused(t) == At(t, "vnet") /\ saved.vnets[VNetOf[t]] \notin {None, t}

\* The id is all that Remove goes by, for the subnets and for the VNet; Proxmox
\* keeps a VNet that has subnets, and a zone that has VNets.
Stuck(t) ==
    \/ At(t, "delVNet") /\ saved.subnets[VNetOf[t]] # {}
    \/ At(t, "delZone") /\ \E v \in VNets : saved.vnets[v] = t

\* Mutant: the subnet is never created.
WrittenNoSubnets(t) ==
    LET v == VNetOf[t]
    IN  [zones |-> IF At(t, "zone") THEN saved.zones \cup {t}
                   ELSE IF At(t, "delZone") THEN saved.zones \ {t} ELSE saved.zones,
         vnets |-> [saved.vnets EXCEPT ![v] = IF At(t, "vnet") THEN t
                                              ELSE IF At(t, "delVNet") THEN None ELSE @],
         subnets |-> [saved.subnets EXCEPT ![v] = IF At(t, "delSubnets") THEN {} ELSE @]]

\* The saved configuration once the call's request has landed.
Written(t) ==
    LET v == VNetOf[t]
    IN  [zones |-> IF At(t, "zone") THEN saved.zones \cup {t}
                   ELSE IF At(t, "delZone") THEN saved.zones \ {t} ELSE saved.zones,
         vnets |-> [saved.vnets EXCEPT ![v] = IF At(t, "vnet") THEN t
                                              ELSE IF At(t, "delVNet") THEN None ELSE @],
         subnets |-> [saved.subnets EXCEPT ![v] = IF At(t, "subnet") THEN @ \cup {t}
                                                  ELSE IF At(t, "delSubnets") THEN {} ELSE @]]

After == [zone |-> "vnet", vnet |-> "subnet", subnet |-> "apply",
          delSubnets |-> "delVNet", delVNet |-> "delZone", delZone |-> "apply"]

\* Mutant: only a new zone, or a zone removed, counts as a change.
WriteForgetsChange(t) ==
    /\ call[t].pc \in Held \ {"apply"} /\ ~Refused(t) /\ ~Stuck(t)
    /\ saved' = Written(t)
    /\ call' = [call EXCEPT ![t].pc = After[@],
                            ![t].changed = @ \/ Written(t).zones # saved.zones]
    /\ UNCHANGED <<running, status, sdn, missed, faults>>

Write(t) ==
    /\ call[t].pc \in Held \ {"apply"} /\ ~Refused(t) /\ ~Stuck(t)
    /\ saved' = Written(t)
    /\ call' = [call EXCEPT ![t].pc = After[@],
                            ![t].changed = @ \/ Written(t) # saved]
    /\ UNCHANGED <<running, status, sdn, missed, faults>>

\* Remove takes a failed read of the subnets for none and goes on.
SubnetsUnread(t) ==
    /\ At(t, "delSubnets") /\ faults < MaxFaults
    /\ faults' = faults + 1
    /\ call' = [call EXCEPT ![t].pc = "delVNet"]
    /\ UNCHANGED <<saved, running, status, sdn, missed>>

Refuse(t) ==
    /\ Refused(t) \/ Stuck(t)
    /\ Fail(t)
    /\ UNCHANGED <<saved, running, missed, faults>>

\* Mutant: an error path that keeps the mutex.
WriteFailsLocked(t) ==
    /\ call[t].pc \in Held \ {"apply"} /\ faults < MaxFaults
    /\ faults' = faults + 1
    /\ call' = [call EXCEPT ![t] = NoCall]
    /\ status' = [status EXCEPT ![t] = IF call[t].op = "ensure" THEN "provisioning" ELSE "deleting"]
    /\ UNCHANGED <<saved, running, sdn, missed>>

\* The request fails; what it wrote may have landed.
WriteFails(t) ==
    /\ call[t].pc \in Held \ {"apply"} /\ ~Refused(t) /\ ~Stuck(t) /\ faults < MaxFaults
    /\ faults' = faults + 1
    /\ saved' \in {saved, Written(t)}
    /\ missed' = IF saved' # running /\ (IF call[t].op = "ensure" THEN Whole(saved', t)
                                                                   ELSE Nothing(saved', t))
                 THEN missed \cup {t} ELSE missed
    /\ Fail(t)
    /\ UNCHANGED running

\* The last line of both: apply, but only what this call has changed.
Apply(t) ==
    /\ At(t, "apply")
    /\ IF call[t].changed THEN running' = saved /\ missed' = {}
                          ELSE UNCHANGED <<running, missed>>
    /\ Succeed(t)
    /\ UNCHANGED <<saved, faults>>

\* The apply, or the wait for its task, fails; the cluster may have taken it.
ApplyFails(t) ==
    /\ At(t, "apply") /\ call[t].changed /\ faults < MaxFaults
    /\ faults' = faults + 1
    /\ \/ running' = saved /\ missed' = {}
       \/ running' = running /\ missed' = missed \cup {t}
    /\ Fail(t)
    /\ UNCHANGED saved

-----------------------------------------------------------------------------
Proceed(t) == Write(t) \/ Refuse(t) \/ Apply(t)

Next ==
    \E t \in Tenants :
        \/ BeginEnsure(t) \/ BeginRemove(t) \/ Lock(t)
        \/ Proceed(t)
        \/ SubnetsUnread(t) \/ WriteFails(t) \/ ApplyFails(t)

Spec == Init /\ [][Next]_vars

\* A call that runs goes on, and sync.Mutex hands itself to a waiter that has
\* waited long: no caller is passed over for ever.
Fairness ==
    \A t \in Tenants :
        /\ WF_vars(Proceed(t) \/ SubnetsUnread(t) \/ WriteFails(t) \/ ApplyFails(t))
        /\ SF_vars(Lock(t))

FairSpec == Spec /\ Fairness

-----------------------------------------------------------------------------
(* Properties.                                                               *)

(* Type invariant.                                                           *)
TypeOK ==
    /\ saved \in Configs /\ running \in Configs
    /\ status \in [Tenants -> {"absent", "provisioning", "ready", "deleting"}]
    /\ call \in [Tenants -> [pc : Held \cup {"idle", "lock"},
                             op : {"none", "ensure", "remove"}, changed : BOOLEAN]]
    /\ sdn \in Tenants \cup {None}
    /\ missed \subseteq Tenants
    /\ faults \in 0 .. MaxFaults

(* A call writes and applies only while it holds sdn, so that no apply        *)
(* publishes what another call has half written (ADR-0015 section 11).        *)
Serialised == \A t \in Tenants : call[t].pc \in Held <=> sdn = t

(* The zone, the VNet and the subnet of a ready tenant are saved, and nothing *)
(* of an absent one is, whatever other tenants' calls and failures did.       *)
SavedMatchesStatus ==
    \A t \in Tenants : At(t, "idle") =>
        /\ status[t] = "ready" => Whole(saved, t)
        /\ status[t] = "absent" => Nothing(saved, t)

(* ... and the cluster runs what is saved, except where a call failed after   *)
(* its last write: that is the only way the two part company for good.        *)
RunningUnlessMissed ==
    \A t \in Tenants : At(t, "idle") /\ t \notin missed =>
        /\ status[t] = "ready" => Whole(running, t)
        /\ status[t] = "absent" => Nothing(running, t)

(* Calling again after a failure makes the network work ("the same call       *)
(* resumes it"): a ready tenant's network is one the cluster runs.            *)
ReadyIsRunning ==
    \A t \in Tenants : At(t, "idle") /\ status[t] = "ready" => Whole(running, t)

(* Every call returns: the mutex is released on every path, so no call waits  *)
(* for ever behind one that failed.                                           *)
EveryCallEnds == \A t \in Tenants : ~At(t, "idle") ~> At(t, "idle")
=============================================================================
