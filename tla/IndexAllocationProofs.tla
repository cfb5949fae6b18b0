------------------------ MODULE IndexAllocationProofs ------------------------
(***************************************************************************)
(* What pickIndex answers, for every size of the site: the facts the        *)
(* allocation of indexes rests on, and those of the numbering.              *)
(***************************************************************************)
EXTENDS IndexAllocation, WellFoundedInduction, TLAPS

-----------------------------------------------------------------------------
(* Min of FiniteSetsExt is a least element.                                 *)

\* Every nonempty set of naturals has a least element.
LEMMA LeastElement ==
    ASSUME NEW S \in SUBSET Nat, S # {}
    PROVE  \E x \in S : \A y \in S : x <= y
<1> DEFINE R == {ss \in Nat \X Nat : ss[1] < ss[2]}
<1>1. IsWellFoundedOn(R, Nat)
  BY NatLessThanWellFounded DEF OpToRel
<1>2. PICK x \in S : \A y \in S : ~ (<<y, x>> \in R)
  BY <1>1, WFMin
<1>3. \A m, n \in Nat : n < m => <<n, m>> \in R
  OBVIOUS
<1>4. ASSUME NEW y \in S PROVE x <= y
  <2>1. x \in Nat /\ y \in Nat
    OBVIOUS
  <2>2. ~ (y < x)
    BY <1>2, <1>3, <2>1
  <2> QED BY <2>1, <2>2
<1> QED BY <1>4

\* Min, as pickIndex uses it, answers that element.
LEMMA MinIsLeast ==
    ASSUME NEW S \in SUBSET Nat, S # {}
    PROVE  Min(S) \in S /\ \A y \in S : Min(S) <= y
BY LeastElement DEF Min

-----------------------------------------------------------------------------
(* The numbering.                                                           *)

\* An allocatable index read back from its VRF VNI is the index: what Claims
\* reads off the fabric is what Numbering wrote there.
THEOREM VRFVNIRoundTrip ==
    ASSUME NEW i \in Indexes
    PROVE  IndexForVRFVNI(VRFVNI(i)) = i
BY MaxAllocatableAssumption, BasesAssumption
   DEF Indexes, MinIndex, ReservedIndex, VRFVNI, IndexForVRFVNI, InSite

\* Every tag of an index's block of VNet tags is read back as that index.
THEOREM VNetTagRoundTrip ==
    ASSUME NEW i \in Indexes, NEW tag \in VNetTags(i)
    PROVE  IndexForVNetTag(tag) = i
<1> DEFINE off == tag - VNetVNIBase
<1>1. i \in Nat /\ i >= MinIndex /\ i <= ReservedIndex
  BY MaxAllocatableAssumption DEF Indexes, MinIndex, ReservedIndex
<1>2. off \in Nat /\ off >= 10 * i /\ off < 10 * i + 10
  BY <1>1, BasesAssumption DEF VNetTags, vnetsPerTenant
<1>3. off \div 10 = i
  BY <1>1, <1>2
<1> QED
  BY <1>1, <1>2, <1>3, MaxAllocatableAssumption
     DEF IndexForVNetTag, InSite, vnetsPerTenant, MinIndex, ReservedIndex

\* Two tenants' VRF VNIs differ.
LEMMA VRFVNIInjective ==
    ASSUME NEW i \in Nat, NEW j \in Nat, VRFVNI(i) = VRFVNI(j)
    PROVE  i = j
BY BasesAssumption DEF VRFVNI

\* The blocks of VNet tags of two indexes share no tag, and neither do their
\* blocks of VMIDs: a tenant's objects never carry another tenant's numbers.
THEOREM BlocksDisjoint ==
    ASSUME NEW i \in Nat, NEW j \in Nat, i # j
    PROVE  /\ VNetTags(i) \cap VNetTags(j) = {}
           /\ \A m, n \in 0 .. MaxWorkloads - 1 : WorkloadVMID(i, m) # WorkloadVMID(j, n)
<1>1. i < j \/ j < i
  OBVIOUS
<1>2. i + 1 <= j \/ j + 1 <= i
  BY <1>1
<1>3. VNetTags(i) \cap VNetTags(j) = {}
  BY <1>2, BasesAssumption DEF VNetTags, vnetsPerTenant
<1>4. ASSUME NEW m \in 0 .. MaxWorkloads - 1, NEW n \in 0 .. MaxWorkloads - 1
      PROVE  WorkloadVMID(i, m) # WorkloadVMID(j, n)
  BY <1>2, BasesAssumption DEF WorkloadVMID, MaxWorkloads
<1> QED BY <1>3, <1>4

-----------------------------------------------------------------------------
(* pickIndex.                                                               *)

\* Whatever the request, the rows and the fabric: the index pickIndex answers is
\* allocatable, no row holds it and no zone but the tenant's own carries it; and
\* it answers none only when there is none.
THEOREM PickIndexIsFree ==
    ASSUME NEW name, NEW requested \in 0 .. MaxAllocatable, NEW held, NEW claims
    PROVE  LET n == pickIndex(name, requested, held, claims)
           IN  \/ n \in Indexes /\ Free(n, name, held, claims)
               \/ n = 0 /\ \A m \in Indexes : ~Free(m, name, held, claims)
<1> DEFINE usable == {n \in Indexes : Free(n, name, held, claims)}
           own == OwnIndexes(name, claims) \cap usable
<1>1. usable \in SUBSET Nat /\ own \in SUBSET Nat /\ own \subseteq usable
  BY MaxAllocatableAssumption DEF Indexes, MinIndex
<1>2. CASE requested # 0 /\ Free(requested, name, held, claims)
  <2>1. requested \in Indexes
    BY <1>2, MaxAllocatableAssumption DEF Indexes, MinIndex
  <2>2. pickIndex(name, requested, held, claims) = requested
    BY <1>2 DEF pickIndex
  <2> QED BY <1>2, <2>1, <2>2
<1>3. CASE ~(requested # 0 /\ Free(requested, name, held, claims)) /\ own # {}
  <2>1. Min(own) \in usable
    BY <1>1, <1>3, MinIsLeast
  <2>2. pickIndex(name, requested, held, claims) = Min(own)
    BY <1>3 DEF pickIndex
  <2> QED BY <2>1, <2>2
<1>4. CASE ~(requested # 0 /\ Free(requested, name, held, claims)) /\ own = {} /\ usable # {}
  <2>1. Min(usable) \in usable
    BY <1>1, <1>4, MinIsLeast
  <2>2. pickIndex(name, requested, held, claims) = Min(usable)
    BY <1>4 DEF pickIndex
  <2> QED BY <2>1, <2>2
<1>5. CASE ~(requested # 0 /\ Free(requested, name, held, claims)) /\ own = {} /\ usable = {}
  <2>1. pickIndex(name, requested, held, claims) = 0
    BY <1>5 DEF pickIndex
  <2> QED BY <1>5, <2>1
<1> QED BY <1>2, <1>3, <1>4, <1>5

\* A tenant that asks for no index, and whose zone on the fabric carries one
\* allocatable index that is free for it, is given that index.
THEOREM PickIndexGivesBack ==
    ASSUME NEW name, NEW held, NEW claims, NEW i \in Indexes,
           OwnIndexes(name, claims) = {i}, Free(i, name, held, claims)
    PROVE  pickIndex(name, 0, held, claims) = i
<1> DEFINE usable == {n \in Indexes : Free(n, name, held, claims)}
           own == OwnIndexes(name, claims) \cap usable
<1>1. own = {i}
  OBVIOUS
<1>2. own \in SUBSET Nat
  BY MaxAllocatableAssumption DEF Indexes, MinIndex
<1>3. Min(own) = i
  BY <1>1, <1>2, MinIsLeast
<1>4. pickIndex(name, 0, held, claims) = Min(own)
  BY <1>1 DEF pickIndex
<1> QED BY <1>3, <1>4
=============================================================================
