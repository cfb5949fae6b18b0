--------------------------- MODULE IndexAllocation ---------------------------
(***************************************************************************)
(* How a tenant's index is chosen, and everything that is derived from it. *)
(*                                                                         *)
(* internal/tenant/site.go numbers a tenant from one small integer: its    *)
(* VRF VNI, the block of VNet tags and the block of VMIDs.  A tenant's     *)
(* fabric objects are read back as Claims (internal/backend/proxmox), a    *)
(* set of records [index, zone], and pickIndex (internal/tenant/service.go)*)
(* decides from the claims and from what the registry holds which index a  *)
(* new tenant gets.                                                        *)
(*                                                                         *)
(* Indexes are integers; 0 is Go's zero value, "no index".                 *)
(***************************************************************************)
EXTENDS Integers, FiniteSetsExt

CONSTANTS
    MaxAllocatable,   \* 62 in the code: the highest index ever allocated
    VRFVNIBase,       \* the site's base of VRF VNIs
    VNetVNIBase,      \* the site's base of VNet tags
    TenantVMIDBase    \* the site's base of workload VMIDs

ASSUME MaxAllocatableAssumption == MaxAllocatable \in Nat \ {0}
ASSUME BasesAssumption ==
    VRFVNIBase \in Nat /\ VNetVNIBase \in Nat /\ TenantVMIDBase \in Nat

MinIndex == 1
ReservedIndex == MaxAllocatable + 1   \* drills; never allocated
vnetsPerTenant == 10
MaxWorkloads == 40

Indexes == MinIndex .. MaxAllocatable
AnyIndex == 0 .. ReservedIndex        \* what IndexFor... can answer

-----------------------------------------------------------------------------
(* Numbering: what one index stands for.                                   *)

VRFVNI(index) == VRFVNIBase + index
VNetTags(index) ==
    LET base == VNetVNIBase + index * vnetsPerTenant
    IN  base .. base + vnetsPerTenant - 1
WorkloadVMID(index, ordinal) == TenantVMIDBase + index * MaxWorkloads + ordinal

InSite(n) == IF n < MinIndex \/ n > ReservedIndex THEN 0 ELSE n

IndexForVRFVNI(vni) == InSite(vni - VRFVNIBase)

IndexForVNetTag(tag) ==
    LET off == tag - VNetVNIBase
    IN  IF off < 0 THEN 0 ELSE InSite(off \div vnetsPerTenant)

-----------------------------------------------------------------------------
(* The claims the live fabric makes.                                        *)

\* Mutant: a VNI outside the site's range claims index 0.
ClaimsUnfiltered(zoneVNIs, vnetTags) ==
    {[index |-> IndexForVRFVNI(z.vni), zone |-> z.zone] : z \in zoneVNIs}
        \cup {[index |-> IndexForVNetTag(v.tag), zone |-> v.zone] : v \in vnetTags}

\* zoneVNIs is a set of records [zone, vni], vnetTags a set of records
\* [zone, tag]; pending objects are read like the applied ones.  A VNI outside
\* the site's range claims nothing.
Claims(zoneVNIs, vnetTags) ==
    { c \in {[index |-> IndexForVRFVNI(z.vni), zone |-> z.zone] : z \in zoneVNIs}
            \cup {[index |-> IndexForVNetTag(v.tag), zone |-> v.zone] : v \in vnetTags} :
        c.index # 0 }

-----------------------------------------------------------------------------
(* pickIndex.  held is the set of indexes the registry holds.               *)

\* Mutants: the rows, or the fabric, are not looked at.
FreeOnFabric(n, name, held, claims) == \A c \in claims : c.index = n => c.zone = name
FreeInRegistry(n, name, held, claims) == n \notin held

\* Not held, and not on the fabric under another zone: the tenant's own zone
\* holding the index is the tenant coming back.
Free(n, name, held, claims) ==
    /\ n \notin held
    /\ \A c \in claims : c.index = n => c.zone = name

OwnIndexes(name, claims) == {c.index : c \in {d \in claims : d.zone = name}}

\* Mutant: a tenant that comes back gets the lowest free index.
pickLowest(name, requested, held, claims) ==
    LET usable == {n \in Indexes : Free(n, name, held, claims)}
    IN  IF requested # 0 /\ Free(requested, name, held, claims) THEN requested
        ELSE IF usable # {} THEN Min(usable) ELSE 0

\* 0 stands for ErrExhausted.
pickIndex(name, requested, held, claims) ==
    LET usable == {n \in Indexes : Free(n, name, held, claims)}
        own    == OwnIndexes(name, claims) \cap usable
    IN  IF requested # 0 /\ Free(requested, name, held, claims) THEN requested
        ELSE IF own # {} THEN Min(own)
        ELSE IF usable # {} THEN Min(usable)
        ELSE 0
=============================================================================
