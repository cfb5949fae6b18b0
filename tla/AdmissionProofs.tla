--------------------------- MODULE AdmissionProofs ---------------------------
(***************************************************************************)
(* Admission, proved for any number of tenants, any calls made without need *)
(* and any number of faults.                                                *)
(*                                                                          *)
(* Calls about one name are not kept apart, so what a call found may be     *)
(* gone when it acts on it.  The invariant says of a call that met no other *)
(* that it is alone with its name (Alone), and what it has found or done by *)
(* the point it is at: RecordInv, PlacedInv, StageInv.  The profile is      *)
(* shared by all names, so what a call read of it counts only until         *)
(* somebody writes it (StaleInv).                                           *)
(***************************************************************************)
EXTENDS Admission, FiniteSetTheorems, NaturalsInduction, TLAPS

-----------------------------------------------------------------------------
(* The inductive invariant.                                                  *)

Ensuring == {"ensRead", "ensGuard", "ensDelete", "ensAdd", "ensAfter", "ensClear"}
Removing == {"remRead", "remGuard", "remDelete"}
Placing == {"admit", "createKey"}
Withdrawing == {"revoke", "deleteKey"}

\* The points a call of each kind comes by.
Fits(op, point) ==
    /\ op = "none" => point = "idle"
    /\ op = "admit" => point \in {"wrap", "putAdm", "answer"} \cup Ensuring
    /\ op = "revoke" => point \in {"dropAdm", "answer"} \cup Removing
    /\ op = "create" => point \in {"redeem", "createGet", "insert", "secrets", "build",
                                   "adoptGet", "adoptPut", "dropAdm", "answer"}
    /\ op = "createKey" => point \in {"putKey", "keyReady", "answer"} \cup Ensuring
    /\ op = "deleteKey" => point \in {"dropKey", "answer"} \cup Removing
    /\ op = "delete" => point \in {"mark", "list", "dropTenant", "answer"} \cup Removing

\* A call is about a name as long as it lasts, and has the key and the token
\* its next write needs.
CallInv(c) ==
    /\ Fits(req[c].op, req[c].pc)
    /\ At(c, "idle") <=> Name(c) = None
    /\ At(c, "idle") => req[c].op = "none"
    /\ req[c].op = "createKey" \/ (req[c].op = "admit" /\ ~At(c, "wrap")) \/ At(c, "adoptPut") =>
          req[c].psk # 0
    /\ req[c].op \in Withdrawing => req[c].psk = 0
    /\ req[c].supplied /\ req[c].pc \in {"redeem", "createGet", "insert", "secrets"} => req[c].tok # 0
    /\ req[c].met => Name(c) \in unsettled
    /\ req[c].op \in Touches => told[Name(c)] = None

\* Of two calls about one name, both have met another.
Alone ==
    \A c, d \in Callers : c # d /\ Name(c) = Name(d) /\ Name(c) # None => req[c].met

HasRecord(n) == adm[n] # 0 \/ wifi[n].status # "absent"

\* A key is placed on a record, and a record dropped when the key is gone or
\* has another.
RecordInv(c) ==
    Name(c) \in Names \ escaped =>
        /\ req[c].op \in Placing /\ req[c].pc \in {"ensRead", "ensGuard", "ensDelete", "ensAdd"} =>
              HasRecord(Name(c))
        /\ ~req[c].met =>
              /\ At(c, "dropAdm") /\ req[c].op = "create" => wifi[Name(c)].status # "absent"
              /\ At(c, "dropTenant") => profile[Name(c)] = 0 \/ adm[Name(c)] # 0

\* What EnsureKey and RemoveKey have done for a call that met no other.
PlacedInv(c) ==
    ~req[c].met =>
        /\ req[c].op \in Placing /\ req[c].pc \in {"ensAfter", "ensClear", "keyReady", "answer"} =>
              profile[Name(c)] = req[c].psk
        /\ req[c].op \in Withdrawing /\ req[c].pc \in {"dropAdm", "dropKey", "answer"} =>
              profile[Name(c)] = 0

\* What a call read of the profile is so until another writes it.
StaleInv(c) ==
    ~req[c].stale =>
        /\ req[c].pc \in {"ensGuard", "ensDelete", "remGuard", "remDelete", "ensAfter", "ensClear"} =>
              profile[Name(c)] # 0
        /\ req[c].pc \in {"ensDelete", "remDelete"} =>
              placeholder \/ \E m \in Names : m # Name(c) /\ profile[m] # 0
        /\ At(c, "ensClear") => placeholder

\* Registry and controller agree about n, as Settled says; Adoptable leaves out
\* that an admission's key is no ready tenant's.
Adoptable(n) ==
    /\ adm[n] # 0 => profile[n] = adm[n] /\ wifi[n] = NoKey
    /\ wifi[n].status = "ready" => profile[n] = wifi[n].psk
    /\ adm[n] = 0 /\ wifi[n] = NoKey => profile[n] = 0

Agreed(n) == Adoptable(n) /\ (adm[n] # 0 => row[n].status # "ready")

AgreedPoints == {"wrap", "putAdm", "redeem", "createGet", "insert", "secrets", "build",
                 "putKey", "mark", "list", "answer"}

\* How far a call has taken them from there, about a name on which no call
\* stopped half done or met another.
StageInv(c) ==
    Name(c) \in Names \ unsettled =>
        LET n == Name(c) q == req[c]
        IN  /\ q.pc \in AgreedPoints => Agreed(n)
            /\ q.op = "admit" => row[n] = NoRow /\ (q.pc \in Ensuring => adm[n] = q.psk)
            /\ q.op = "revoke" => wifi[n] = NoKey
            /\ q.op = "createKey" =>
                  adm[n] = 0 /\ (q.pc \in Ensuring \cup {"keyReady"} =>
                                    wifi[n].status # "absent" /\ wifi[n].psk = q.psk)
            /\ q.op = "deleteKey" => adm[n] = 0
            /\ q.op = "delete" => (q.pc \in Removing => adm[n] = 0)
                                  /\ (q.pc = "dropTenant" => profile[n] = adm[n])
            /\ q.op = "create" =>
                  /\ q.pc \in {"insert", "secrets", "build"} /\ q.adopts = "no" => adm[n] = 0
                  /\ q.pc \in {"adoptGet", "adoptPut"} => Adoptable(n)
                  /\ q.pc = "adoptPut" => q.psk = adm[n]
                  /\ q.pc = "dropAdm" => wifi[n].status = "ready" /\ profile[n] = wifi[n].psk

NameInv(n) ==
    /\ n \notin escaped => (profile[n] # 0 => HasRecord(n))
    /\ told[n] # None => profile[n] = told[n]
    /\ ~Registered(n) => wifi[n] = NoKey
    /\ n \notin unsettled /\ (\A c \in Callers : Name(c) # n) => Agreed(n)

AdmissionInv ==
    /\ TypeOK /\ Alone
    /\ \A c \in Callers : CallInv(c) /\ RecordInv(c) /\ PlacedInv(c) /\ StaleInv(c) /\ StageInv(c)
    /\ \A n \in Names : NameInv(n)
-----------------------------------------------------------------------------
(* A call's step.                                                            *)

Requests == [pc : Points, op : Ops \cup {"none"}, name : Names \cup {None},
             psk : Secrets, tok : Secrets, supplied : BOOLEAN,
             adopts : {"no", "built", "always"}, stale : BOOLEAN, met : BOOLEAN]

LEMMA RequestsType == TypeOK => req \in [Callers -> Requests]
BY DEF TypeOK, Requests

\* What a step of one call leaves of another's: all but that its read of the
\* profile may have gone stale.
SameCall(d) ==
    /\ req'[d].pc = req[d].pc /\ req'[d].op = req[d].op /\ req'[d].name = req[d].name
    /\ req'[d].psk = req[d].psk /\ req'[d].tok = req[d].tok
    /\ req'[d].supplied = req[d].supplied /\ req'[d].adopts = req[d].adopts
    /\ req'[d].met = req[d].met
    /\ req[d].stale => req'[d].stale

\* The call goes on about its name, or is over.
GoesOn(c) ==
    \/ req'[c].name = req[c].name /\ req'[c].op = req[c].op /\ req'[c].met = req[c].met
    \/ req'[c] = Idle

CallFrame(c) ==
    /\ req' \in [Callers -> Requests]
    /\ \A d \in Callers \ {c} : SameCall(d)
    /\ GoesOn(c)
    /\ \/ UNCHANGED controller
       \/ \A d \in Callers \ {c} : req[d].pc \in AtController => req'[d].stale

SameName(m) ==
    /\ row'[m] = row[m] /\ adm'[m] = adm[m] /\ wifi'[m] = wifi[m] /\ profile'[m] = profile[m]
    /\ told'[m] = told[m] /\ (m \in escaped' <=> m \in escaped) /\ (m \in unsettled' <=> m \in unsettled)

\* A step touches what there is of the call's own name only; that of a call
\* that met another withdraws nothing it answered, and leaves a record or says
\* that it dropped it.
NameFrame(c) ==
    /\ \A m \in Names \ {Name(c)} : SameName(m)
    /\ unsettled \subseteq unsettled'
    /\ req[c].met =>
          /\ told' = told /\ escaped \subseteq escaped'
          /\ \A n \in Names \ escaped' : n = Name(c) /\ HasRecord(n) => HasRecord(n)'

Own(c) ==
    CallInv(c) /\ RecordInv(c) /\ PlacedInv(c) /\ StaleInv(c) /\ StageInv(c)

LEMMA NoneIsNobody == None \notin Names /\ None # 0 /\ None \notin Secrets
BY AdmissionAssumption DEF Secrets

\* A call in flight is about a name.
LEMMA Facts ==
    ASSUME AdmissionInv, NEW c \in Callers, ~At(c, "idle")
    PROVE  /\ Name(c) \in Names /\ Name(c) # None
           /\ NameInv(Name(c)) /\ Own(c) /\ req[c] \in Requests /\ TypeOK
           /\ req[c].op \in Ops
           /\ Name(c) \notin unsettled => ~req[c].met
           /\ row[Name(c)] \in {NoRow} \cup [status : {"provisioning", "ready", "deleting"}, tok : Secrets \ {0}]
           /\ adm[Name(c)] \in Secrets /\ profile[Name(c)] \in Secrets
           /\ wifi[Name(c)] \in {NoKey} \cup [status : {"provisioning", "ready"}, psk : Secrets \ {0}]
           /\ told[Name(c)] \in Secrets \cup {None}
<1>1. req[c] \in Requests /\ TypeOK
  BY RequestsType DEF AdmissionInv
<1>2. Own(c)
  BY DEF AdmissionInv, Own
<1>3. Name(c) \in Names /\ Name(c) # None
  BY <1>1, <1>2, NoneIsNobody DEF Own, CallInv, Requests, Name
<1>4. req[c].op \in Ops
  BY <1>1, <1>2 DEF Own, CallInv, Fits, Requests, At
<1>5. NameInv(Name(c))
  BY <1>3 DEF AdmissionInv
<1>6. Name(c) \notin unsettled => ~req[c].met
  BY <1>2 DEF Own, CallInv
<1> QED BY <1>1, <1>2, <1>3, <1>4, <1>5, <1>6 DEF TypeOK

\* What is left of a call that is over.
LEMMA IdleOwn ==
    ASSUME NEW c \in Callers, req'[c] = Idle
    PROVE  Own(c)'
<1>1. /\ req'[c].pc = "idle" /\ req'[c].op = "none" /\ req'[c].name = None /\ req'[c].psk = 0
      /\ req'[c].supplied = FALSE /\ req'[c].met = FALSE
  BY DEF Idle
<1>2. CallInv(c)'
  BY <1>1 DEF CallInv, Fits, At, Name, Touches, Withdrawing
<1>3. RecordInv(c)' /\ StageInv(c)'
  BY <1>1, NoneIsNobody DEF RecordInv, StageInv, Name
<1>4. PlacedInv(c)' /\ StaleInv(c)'
  BY <1>1 DEF PlacedInv, StaleInv, Placing, Withdrawing, At
<1> QED BY <1>2, <1>3, <1>4 DEF Own

\* Another call about another name.
LEMMA OthersKeep ==
    ASSUME AdmissionInv, NEW c \in Callers, ~At(c, "idle"), CallFrame(c), NameFrame(c),
           NEW d \in Callers, d # c
    PROVE  Own(d)'
<1> USE DEF Name
<1>1. SameCall(d) /\ Own(d)
  BY DEF CallFrame, AdmissionInv, Own
<1>2. /\ At(d, "idle")' <=> At(d, "idle")
      /\ req'[d].name = req[d].name /\ req'[d].met = req[d].met
  BY <1>1 DEF SameCall, At
<1>3. CASE At(d, "idle")
  <2>1. req[d].op = "none" /\ req[d].name = None /\ req[d].pc = "idle"
    BY <1>1, <1>3 DEF Own, CallInv, At
  <2>2. CallInv(d)'
    BY <1>1, <1>2, <2>1 DEF SameCall, Own, CallInv, Fits, At, Touches, Withdrawing, NameFrame
  <2>3. RecordInv(d)' /\ StageInv(d)'
    BY <1>2, <2>1, NoneIsNobody DEF RecordInv, StageInv
  <2>4. PlacedInv(d)' /\ StaleInv(d)'
    BY <1>1, <2>1 DEF SameCall, PlacedInv, StaleInv, Placing, Withdrawing, At
  <2> QED BY <2>2, <2>3, <2>4 DEF Own
<1>4. CASE ~At(d, "idle")
  <2>1. req[d].name \in Names
    BY <1>4, Facts
  <2>2. StaleInv(d)'
    <3>1. CASE UNCHANGED controller
      BY <1>1, <3>1 DEF SameCall, Own, StaleInv, At, controller
    <3>2. CASE req[d].pc \in AtController => req'[d].stale
      BY <1>1, <3>2 DEF SameCall, StaleInv, At, AtController
    <3> QED BY <3>1, <3>2 DEF CallFrame
  <2>3. CASE req[d].name = req[c].name
    <3>1. req[d].met /\ req[c].met
      BY <2>1, <2>3, Facts DEF AdmissionInv, Alone
    <3>2. req[d].name \in unsettled /\ req[d].name \in unsettled'
      BY <1>1, <3>1 DEF Own, CallInv, NameFrame
    <3>3. CallInv(d)'
      <4>1. told' = told
        BY <3>1 DEF NameFrame
      <4> QED BY <1>1, <3>2, <4>1 DEF SameCall, Own, CallInv, Fits, At
    <3>4. RecordInv(d)'
      <4>1. PICK n : n = req[d].name
        OBVIOUS
      <4>2. n \notin escaped' /\ HasRecord(n) => HasRecord(n)'
        BY <2>1, <2>3, <3>1, <4>1 DEF NameFrame
      <4>3. n \notin escaped' => n \notin escaped
        BY <3>1 DEF NameFrame
      <4> QED BY <1>1, <3>1, <4>1, <4>2, <4>3 DEF SameCall, Own, RecordInv, At, HasRecord
    <3>5. PlacedInv(d)' /\ StageInv(d)'
      BY <1>2, <3>1, <3>2 DEF PlacedInv, StageInv
    <3> QED BY <2>2, <3>3, <3>4, <3>5 DEF Own
  <2>4. CASE req[d].name # req[c].name
    <3>1. SameName(req[d].name)
      BY <2>1, <2>4 DEF NameFrame
    <3>2. CallInv(d)'
      BY <1>1, <3>1 DEF SameCall, SameName, Own, CallInv, Fits, At
    <3>3. RecordInv(d)' /\ PlacedInv(d)'
      BY <1>1, <3>1 DEF SameCall, SameName, Own, RecordInv, PlacedInv, HasRecord, At
    <3>4. StageInv(d)'
      BY <1>1, <3>1 DEF SameCall, SameName, Own, StageInv, Agreed, Adoptable
    <3> QED BY <2>2, <3>2, <3>3, <3>4 DEF Own
  <2> QED BY <2>3, <2>4
<1> QED BY <1>3, <1>4

\* It is enough to look at the call itself and at its name.
LEMMA StepKeeps ==
    ASSUME AdmissionInv, NEW c \in Callers, ~At(c, "idle"), CallFrame(c), NameFrame(c),
           NEW n, n = Name(c), TypeOK', Own(c)', NameInv(n)'
    PROVE  AdmissionInv'
<1> USE DEF Name
<1>1. ASSUME NEW d \in Callers PROVE Own(d)'
  BY OthersKeep
<1>2. \A d \in Callers : \/ req'[d].name = req[d].name /\ req'[d].met = req[d].met
                         \/ d = c /\ req'[d].name = None
  BY DEF CallFrame, SameCall, GoesOn, Idle
<1>3. Alone'
  BY <1>2 DEF AdmissionInv, Alone
<1>4. ASSUME NEW m \in Names PROVE NameInv(m)'
  <2>1. CASE m = req[c].name
    BY <2>1
  <2>2. CASE m # req[c].name
    <3>1. SameName(m) /\ NameInv(m)
      BY <2>2 DEF NameFrame, AdmissionInv
    <3>2. (\A d \in Callers : req'[d].name # m) => (\A d \in Callers : req[d].name # m)
      BY <1>2, <2>2
    <3> QED BY <3>1, <3>2 DEF SameName, NameInv, HasRecord, Registered, Agreed, Adoptable
  <2> QED BY <2>1, <2>2
<1> QED BY <1>1, <1>3, <1>4 DEF AdmissionInv, Own
-----------------------------------------------------------------------------
(* There is a secret that nobody holds.                                      *)

LEMMA OneMore ==
    ASSUME NEW S, IsFiniteSet(S), NEW k \in Nat, Cardinality(S) <= k, NEW x
    PROVE  IsFiniteSet(S \cup {x}) /\ Cardinality(S \cup {x}) <= k + 1
<1>1. Cardinality(S) \in Nat
  BY FS_CardinalityType
<1>2. IsFiniteSet(S \cup {x}) /\ Cardinality(S \cup {x}) \in {Cardinality(S), Cardinality(S) + 1}
  BY FS_AddElement
<1> QED BY <1>1, <1>2

LEMMA LeastOf ==
    ASSUME NEW S \in SUBSET Nat, S # {}
    PROVE  Min(S) \in S
<1> DEFINE R == {ss \in Nat \X Nat : ss[1] < ss[2]}
<1>1. IsWellFoundedOn(R, Nat)
  BY NatLessThanWellFounded DEF OpToRel
<1>2. PICK x \in S : \A y \in S : ~ (<<y, x>> \in R)
  BY <1>1, WFMin
<1>3. \A m, n \in Nat : n < m => <<n, m>> \in R
  OBVIOUS
<1>4. ASSUME NEW y \in S PROVE x <= y
  <2>1. x \in Nat /\ y \in Nat
    OBVIOUS
  <2>2. ~ (y < x)
    BY <1>2, <1>3, <2>1
  <2> QED BY <2>1, <2>2
<1> QED BY <1>4 DEF Min

LEMMA UnusedIsThere ==
    ASSUME NEW S, IsFiniteSet(S), Cardinality(S) <= Cardinality(Names) + 6
    PROVE  Unused(S) \in Secrets \ {0}
<1>1. IsFiniteSet(1 .. MaxSecret) /\ Cardinality(1 .. MaxSecret) = MaxSecret /\ MaxSecret \in Nat
  BY FS_Interval, AdmissionAssumption
<1>2. ~(1 .. MaxSecret \subseteq S)
  <2>1. SUFFICES ASSUME 1 .. MaxSecret \subseteq S PROVE FALSE
    OBVIOUS
  <2>2. Cardinality(1 .. MaxSecret) <= Cardinality(S)
    BY <2>1, FS_Subset
  <2>3. Cardinality(S) \in Nat /\ Cardinality(Names) \in Nat
    BY FS_CardinalityType, AdmissionAssumption
  <2> QED BY <1>1, <2>2, <2>3, AdmissionAssumption
<1>3. (1 .. MaxSecret) \ S # {} /\ (1 .. MaxSecret) \ S \in SUBSET Nat
  BY <1>2
<1>4. Unused(S) \in (1 .. MaxSecret) \ S
  BY <1>3, LeastOf DEF Unused
<1> QED BY <1>1, <1>4 DEF Secrets

\* The calls in flight hold at most one each.
LEMMA HeldByCalls ==
    ASSUME NEW f \in [Callers -> Secrets], NEW n
    PROVE  LET S == {f[c] : c \in {d \in Callers : Name(d) = n}}
           IN  IsFiniteSet(S) /\ Cardinality(S) <= Cardinality(Names) + 1
<1> DEFINE C == {d \in Callers : Name(d) = n}
           S == {f[c] : c \in C}
           g == [c \in C |-> f[c]]
<1>1. IsFiniteSet(Callers) /\ Cardinality(Callers) <= Cardinality(Names) + 1 /\ Cardinality(Names) \in Nat
  <2>1. IsFiniteSet(Names) /\ Cardinality(Names) \in Nat /\ Cardinality(Names) <= Cardinality(Names)
    BY AdmissionAssumption, FS_CardinalityType
  <2> QED BY <2>1, OneMore DEF Callers
<1>2. IsFiniteSet(C) /\ Cardinality(C) <= Cardinality(Callers)
  BY <1>1, FS_Subset
<1>3. g \in Surjection(C, S)
  BY DEF Surjection
<1>4. IsFiniteSet(S) /\ Cardinality(S) <= Cardinality(C)
  BY <1>2, <1>3, FS_Surjection
<1>5. Cardinality(S) \in Nat /\ Cardinality(C) \in Nat /\ Cardinality(Callers) \in Nat
  BY <1>1, <1>2, <1>4, FS_CardinalityType
<1> QED BY <1>1, <1>2, <1>4, <1>5

LEMMA NewSecrets ==
    ASSUME TypeOK, NEW n
    PROVE  MintKey(n) \in Secrets \ {0} /\ MintToken(n) \in Secrets \ {0}
<1> DEFINE K == {req[c].psk : c \in {d \in Callers : Name(d) = n}}
           T == {req[c].tok : c \in {d \in Callers : Name(d) = n}}
           k == Cardinality(Names) + 1
<1>1. k \in Nat
  BY AdmissionAssumption, FS_CardinalityType
<1>2. IsFiniteSet(K) /\ Cardinality(K) <= k
  <2> DEFINE f == [c \in Callers |-> req[c].psk]
  <2>1. f \in [Callers -> Secrets]
    BY RequestsType DEF Requests
  <2>2. K = {f[c] : c \in {d \in Callers : Name(d) = n}}
    OBVIOUS
  <2> QED BY <2>1, <2>2, HeldByCalls
<1>3. IsFiniteSet(T) /\ Cardinality(T) <= k
  <2> DEFINE f == [c \in Callers |-> req[c].tok]
  <2>1. f \in [Callers -> Secrets]
    BY RequestsType DEF Requests
  <2>2. T = {f[c] : c \in {d \in Callers : Name(d) = n}}
    OBVIOUS
  <2> QED BY <2>1, <2>2, HeldByCalls
<1> HIDE DEF K, T
<1>4. MintKey(n) \in Secrets \ {0}
  <2> DEFINE K1 == K \cup {adm[n]}
             K2 == K1 \cup {wifi[n].psk}
             K3 == K2 \cup {profile[n]}
             K4 == K3 \cup {held[n].psk}
             K5 == K4 \cup {told[n]}
  <2>0. /\ k + 1 \in Nat /\ k + 2 \in Nat /\ k + 3 \in Nat /\ k + 4 \in Nat
        /\ (k + 1) + 1 = k + 2 /\ (k + 2) + 1 = k + 3 /\ (k + 3) + 1 = k + 4 /\ (k + 4) + 1 = k + 5
        /\ k + 5 = Cardinality(Names) + 6
    BY <1>1, AdmissionAssumption, FS_CardinalityType
  <2>1. {adm[n], wifi[n].psk, profile[n], held[n].psk, told[n]} \cup K = K5
    OBVIOUS
  <2> HIDE DEF k, K1, K2, K3, K4, K5
  <2>2. IsFiniteSet(K1) /\ Cardinality(K1) <= k + 1
    BY <1>1, <1>2, OneMore DEF K1
  <2>3. IsFiniteSet(K2) /\ Cardinality(K2) <= k + 2
    BY <2>0, <2>2, OneMore DEF K2
  <2>4. IsFiniteSet(K3) /\ Cardinality(K3) <= k + 3
    BY <2>0, <2>3, OneMore DEF K3
  <2>5. IsFiniteSet(K4) /\ Cardinality(K4) <= k + 4
    BY <2>0, <2>4, OneMore DEF K4
  <2>6. IsFiniteSet(K5) /\ Cardinality(K5) <= k + 5
    BY <2>0, <2>5, OneMore DEF K5
  <2>7. Unused(K5) \in Secrets \ {0}
    BY <2>0, <2>6, UnusedIsThere
  <2> QED BY <2>1, <2>7 DEF MintKey, K
<1>5. MintToken(n) \in Secrets \ {0}
  <2> DEFINE T1 == T \cup {row[n].tok}
             T2 == T1 \cup {held[n].tok}
  <2>0. /\ k + 1 \in Nat /\ (k + 1) + 1 = k + 2 /\ k + 2 <= Cardinality(Names) + 6 /\ k + 2 \in Nat
        /\ Cardinality(Names) + 6 \in Nat
    BY <1>1, AdmissionAssumption, FS_CardinalityType
  <2>1. {row[n].tok, held[n].tok} \cup T = T2
    OBVIOUS
  <2> HIDE DEF k, T1, T2
  <2>2. IsFiniteSet(T1) /\ Cardinality(T1) <= k + 1
    BY <1>1, <1>3, OneMore DEF T1
  <2>3. IsFiniteSet(T2) /\ Cardinality(T2) <= k + 2
    BY <2>0, <2>2, OneMore DEF T2
  <2>4. Cardinality(T2) <= Cardinality(Names) + 6
    BY <2>0, <2>3, FS_CardinalityType
  <2>5. Unused(T2) \in Secrets \ {0}
    BY <2>3, <2>4, UnusedIsThere
  <2> QED BY <2>1, <2>5 DEF MintToken, T
<1> QED BY <1>4, <1>5
-----------------------------------------------------------------------------
(* How a call moves.                                                         *)

LEMMA ReturnIs ==
    ASSUME NEW c
    PROVE  /\ req[c].op = "admit" => Return(c) = "answer"
           /\ req[c].op = "createKey" => Return(c) = "keyReady"
           /\ req[c].op = "revoke" => Return(c) = "dropAdm"
           /\ req[c].op = "deleteKey" => Return(c) = "dropKey"
           /\ req[c].op = "delete" => Return(c) = "dropTenant"
BY DEF Return

LEMMA IdleType == Idle \in Requests
BY AdmissionAssumption DEF Idle, Requests, Points, Secrets

\* c's call is now q, and the others are as they were.
Becomes(c, q) == req' = [req EXCEPT ![c] = q]

LEMMA BecomesMoves ==
    ASSUME TypeOK, NEW c \in Callers, NEW q \in Requests, Becomes(c, q)
    PROVE  /\ req' \in [Callers -> Requests] /\ req'[c] = q
           /\ \A d \in Callers \ {c} : req'[d] = req[d]
BY RequestsType DEF Becomes

\* c goes on at a point with what it has.
LEMMA GotoMoves ==
    ASSUME TypeOK, NEW c \in Callers, NEW p \in Points, Goto(c, p)
    PROVE  /\ req' \in [Callers -> Requests]
           /\ \A d \in Callers \ {c} : req'[d] = req[d]
           /\ req'[c] = [req[c] EXCEPT !.pc = p]
           /\ req'[c].pc = p /\ req'[c].op = req[c].op /\ req'[c].name = req[c].name
           /\ req'[c].psk = req[c].psk /\ req'[c].tok = req[c].tok
           /\ req'[c].supplied = req[c].supplied /\ req'[c].adopts = req[c].adopts
           /\ req'[c].stale = req[c].stale /\ req'[c].met = req[c].met
<1> DEFINE q == [req[c] EXCEPT !.pc = p]
<1>1. req[c] \in Requests
  BY RequestsType
<1>2. q \in Requests
  BY <1>1 DEF Requests
<1>3. Becomes(c, q)
  BY RequestsType DEF Goto, Becomes
<1>4. /\ q.pc = p /\ q.op = req[c].op /\ q.name = req[c].name /\ q.psk = req[c].psk
      /\ q.tok = req[c].tok /\ q.supplied = req[c].supplied /\ q.adopts = req[c].adopts
      /\ q.stale = req[c].stale /\ q.met = req[c].met
  BY <1>1 DEF Requests
<1>5. req'[c] = [req[c] EXCEPT !.pc = p]
  BY <1>2, <1>3, BecomesMoves
<1> HIDE DEF q
<1> QED BY <1>2, <1>3, <1>4, <1>5, BecomesMoves

LEMMA FailsMoves ==
    ASSUME TypeOK, NEW c \in Callers, Fails(c)
    PROVE  /\ req' \in [Callers -> Requests] /\ req'[c] = Idle
           /\ \A d \in Callers \ {c} : req'[d] = req[d]
BY IdleType, BecomesMoves DEF Fails, Becomes

\* c wrote the profile: those that read it before know less now.
LEMMA WroteMoves ==
    ASSUME TypeOK, NEW c \in Callers, NEW p \in Points, Wrote(c, p)
    PROVE  /\ req' \in [Callers -> Requests] /\ CallFrame(c)
           /\ req'[c].pc = p /\ req'[c].op = req[c].op /\ req'[c].name = req[c].name
           /\ req'[c].psk = req[c].psk /\ req'[c].tok = req[c].tok
           /\ req'[c].supplied = req[c].supplied /\ req'[c].adopts = req[c].adopts
           /\ req'[c].stale = req[c].stale /\ req'[c].met = req[c].met
<1>1. req \in [Callers -> Requests]
  BY RequestsType
<1>2. req'[c] = [req[c] EXCEPT !.pc = p]
  BY DEF Wrote
<1>3. ASSUME NEW d \in Callers, d # c
      PROVE  req'[d] = IF req[d].pc \in AtController THEN [req[d] EXCEPT !.stale = TRUE] ELSE req[d]
  BY <1>3 DEF Wrote
<1>4. /\ req'[c] \in Requests /\ req'[c].pc = p /\ req'[c].op = req[c].op /\ req'[c].name = req[c].name
      /\ req'[c].psk = req[c].psk /\ req'[c].tok = req[c].tok
      /\ req'[c].supplied = req[c].supplied /\ req'[c].adopts = req[c].adopts
      /\ req'[c].stale = req[c].stale /\ req'[c].met = req[c].met
  BY <1>1, <1>2 DEF Requests
<1>5. ASSUME NEW d \in Callers, d # c
      PROVE  SameCall(d) /\ req'[d] \in Requests /\ (req[d].pc \in AtController => req'[d].stale)
  <2>1. req[d] \in Requests
    BY <1>1
  <2>2. CASE req[d].pc \in AtController
    <3>1. req'[d] = [req[d] EXCEPT !.stale = TRUE]
      BY <1>3, <1>5, <2>2
    <3> QED BY <2>1, <3>1 DEF SameCall, Requests
  <2>3. CASE req[d].pc \notin AtController
    <3>1. req'[d] = req[d]
      BY <1>3, <1>5, <2>3
    <3> QED BY <2>1, <2>3, <3>1 DEF SameCall
  <2> QED BY <2>2, <2>3
<1>6. req' \in [Callers -> Requests]
  <2>1. req' = [d \in Callers |-> req'[d]]
    BY DEF Wrote
  <2>2. \A d \in Callers : req'[d] \in Requests
    BY <1>4, <1>5
  <2> QED BY <2>1, <2>2
<1> QED BY <1>4, <1>5, <1>6 DEF CallFrame, GoesOn

\* A step that leaves the controller alone disturbs no other call's read.
LEMMA MovesFrame ==
    ASSUME NEW c \in Callers, req' \in [Callers -> Requests], UNCHANGED controller, GoesOn(c),
           \A d \in Callers \ {c} : req'[d] = req[d]
    PROVE  CallFrame(c)
BY DEF CallFrame, SameCall

\* Nothing of the name changes but perhaps its key in the controller.
LEMMA QuietFrame ==
    ASSUME UNCHANGED <<registry, history>>, NEW c \in Callers,
           \A m \in Names \ {Name(c)} : profile'[m] = profile[m]
    PROVE  NameFrame(c)
<1>1. UNCHANGED <<row, adm, wifi, told, escaped, unsettled>>
  BY DEF registry, history
<1> QED BY <1>1 DEF NameFrame, SameName, HasRecord

LEMMA QuietName ==
    ASSUME UNCHANGED <<registry, controller, history>>, NEW c \in Callers, NEW n, NameInv(n), req'[c].name = n
    PROVE  NameInv(n)'
<1>1. UNCHANGED <<row, adm, wifi, profile, told, escaped, unsettled>>
  BY DEF registry, history, controller
<1> QED BY <1>1 DEF NameInv, HasRecord, Registered, Name

\* The call moves on, and that is all: its own parts are left to show.
LEMMA QuietStep ==
    ASSUME AdmissionInv, NEW c \in Callers, ~At(c, "idle"), UNCHANGED <<registry, controller, history>>,
           req' \in [Callers -> Requests], \A d \in Callers \ {c} : req'[d] = req[d],
           req'[c].name = req[c].name, req'[c].op = req[c].op, req'[c].met = req[c].met,
           TypeOK', Own(c)'
    PROVE  AdmissionInv'
<1>1. PICK n : n = Name(c)
  OBVIOUS
<1>2. CallFrame(c)
  BY MovesFrame DEF GoesOn
<1>3. NameFrame(c)
  BY QuietFrame DEF controller
<1>4. NameInv(n)'
  BY <1>1, Facts, QuietName DEF Name
<1> QED BY <1>1, <1>2, <1>3, <1>4, StepKeeps

\* A call is over while registry and controller agree.
LEMMA EndsSettled ==
    ASSUME AdmissionInv, NEW c \in Callers, ~At(c, "idle"), Fails(c),
           Name(c) \notin unsettled => Agreed(Name(c)),
           UNCHANGED <<registry, controller, history>>, TypeOK'
    PROVE  AdmissionInv'
<1>1. PICK n : n = Name(c)
  OBVIOUS
<1>2. /\ req' \in [Callers -> Requests] /\ req'[c] = Idle
      /\ \A d \in Callers \ {c} : req'[d] = req[d]
  BY FailsMoves DEF AdmissionInv
<1>3. CallFrame(c) /\ NameFrame(c)
  BY <1>2, MovesFrame, QuietFrame DEF GoesOn, controller
<1>4. Own(c)'
  BY <1>2, IdleOwn
<1>5. NameInv(n) /\ (n \notin unsettled => Agreed(n))
  BY <1>1, Facts
<1>6. UNCHANGED <<row, adm, wifi, profile, told, escaped, unsettled>>
  BY DEF registry, history, controller
<1>7. NameInv(n)'
  BY <1>5, <1>6 DEF NameInv, HasRecord, Registered, Agreed, Adoptable
<1> QED BY <1>1, <1>3, <1>4, <1>7, StepKeeps

\* A call is over before it took them apart.
LEMMA EndsAgreed ==
    ASSUME AdmissionInv, NEW c \in Callers, req[c].pc \in AgreedPoints, Fails(c),
           UNCHANGED <<registry, controller, history>>, TypeOK'
    PROVE  AdmissionInv'
<1>1. ~At(c, "idle")
  BY DEF At, AgreedPoints
<1>2. Name(c) \notin unsettled => Agreed(Name(c))
  BY <1>1, Facts DEF Own, StageInv
<1> QED BY <1>1, <1>2, EndsSettled

\* A call stops half done: the name stays unsettled.
LEMMA EndsHalfDone ==
    ASSUME AdmissionInv, NEW c \in Callers, ~At(c, "idle"), Fails(c),
           UNCHANGED <<registry, controller, told, escaped>>, unsettled' = unsettled \cup {Name(c)}, TypeOK'
    PROVE  AdmissionInv'
<1>1. PICK n : n = Name(c)
  OBVIOUS
<1>2. /\ req' \in [Callers -> Requests] /\ req'[c] = Idle
      /\ \A d \in Callers \ {c} : req'[d] = req[d]
  BY FailsMoves DEF AdmissionInv
<1>3. UNCHANGED <<row, adm, wifi, profile, told, escaped>>
  BY DEF registry, controller
<1>4. CallFrame(c)
  BY <1>2, MovesFrame DEF GoesOn
<1>5. NameFrame(c)
  BY <1>3 DEF NameFrame, SameName, HasRecord
<1>6. NameInv(n)'
  BY <1>1, <1>3, Facts DEF NameInv, HasRecord, Registered
<1> QED BY <1>1, <1>2, <1>4, <1>5, <1>6, IdleOwn, StepKeeps

-----------------------------------------------------------------------------
(* What happens to the process and to OpenBao.                               *)

LEMMA SameElsewhere ==
    ASSUME AdmissionInv, UNCHANGED <<registry, controller, req, history>>, TypeOK'
    PROVE  AdmissionInv'
<1>1. UNCHANGED <<row, adm, wifi, profile, placeholder, told, escaped, unsettled, req>>
  BY DEF registry, controller, history
<1>2. Alone' /\ \A c \in Callers : CallInv(c)' /\ RecordInv(c)' /\ PlacedInv(c)'
  BY <1>1 DEF AdmissionInv, Alone, Name, At, CallInv, RecordInv, PlacedInv, HasRecord
<1>3. \A c \in Callers : StaleInv(c)' /\ StageInv(c)'
  BY <1>1 DEF AdmissionInv, Name, At, StaleInv, StageInv, Agreed, Adoptable
<1>4. \A n \in Names : NameInv(n)'
  BY <1>1 DEF AdmissionInv, NameInv, Name, Registered, HasRecord, Agreed, Adoptable
<1> QED BY <1>2, <1>3, <1>4 DEF AdmissionInv

LEMMA FaultType == ASSUME TypeOK, Fault PROVE faults' \in 0 .. MaxFaults
BY AdmissionAssumption DEF TypeOK, Fault

LEMMA ProcessInv ==
    ASSUME AdmissionInv, Build \/ Migrate \/ Seal \/ Unseal \/ RevokeLogin \/ Lapse
    PROVE  AdmissionInv'
<1>1. UNCHANGED <<registry, controller, req, history, held, spare>>
  BY DEF Build, Migrate, Seal, Unseal, RevokeLogin, Lapse
<1>2. /\ sealed' \in BOOLEAN /\ refused' \in BOOLEAN /\ migrated' \in BOOLEAN
      /\ api' \in {"starting", "waiting", "serving"}
  BY DEF AdmissionInv, TypeOK, Build, Migrate, Seal, Unseal, RevokeLogin, Lapse, bao, process
<1>3. faults' \in 0 .. MaxFaults
  BY FaultType DEF AdmissionInv, TypeOK, Build, Migrate, Seal, Unseal, RevokeLogin, Lapse
<1>4. TypeOK'
  BY <1>1, <1>2, <1>3 DEF AdmissionInv, TypeOK, registry, controller, history
<1> QED BY <1>1, <1>4, SameElsewhere

LEMMA ExpireInv ==
    ASSUME AdmissionInv, NEW n \in Names, Expire(n)
    PROVE  AdmissionInv'
<1>1. held' \in [Names -> [enrol : {"none", "live", "spent"}, tok : Secrets, psk : Secrets]]
  BY DEF AdmissionInv, TypeOK, Expire
<1>2. faults' \in 0 .. MaxFaults
  BY FaultType DEF AdmissionInv, Expire
<1>3. UNCHANGED <<registry, controller, bao, process, req, history, spare>>
  BY DEF Expire
<1>4. TypeOK'
  BY <1>1, <1>2, <1>3 DEF AdmissionInv, TypeOK, registry, controller, history, bao, process
<1> QED BY <1>3, <1>4, SameElsewhere

LEMMA CrashInv ==
    ASSUME AdmissionInv, Crash
    PROVE  AdmissionInv'
<1>1. \A c \in Callers : req'[c] = Idle
  BY DEF Crash
<1>2. req' \in [Callers -> Requests]
  BY IdleType DEF Crash
<1>3. UNCHANGED <<row, adm, wifi, profile, placeholder, held, sealed, told, escaped, spare>>
  BY DEF Crash, registry, controller
<1>4. unsettled' = unsettled \cup ({Name(c) : c \in Callers} \ {None})
  BY DEF Crash
<1>5. TypeOK'
  <2>1. faults' \in 0 .. MaxFaults
    BY FaultType DEF AdmissionInv, Crash
  <2>2. unsettled' \subseteq Names
    BY <1>4, RequestsType DEF AdmissionInv, TypeOK, Name, Requests
  <2> QED BY <1>2, <1>3, <2>1, <2>2 DEF AdmissionInv, TypeOK, Crash, Requests
<1>6. \A c \in Callers : Own(c)'
  BY <1>1, IdleOwn
<1>7. Alone'
  BY <1>1 DEF Alone, Name, Idle
<1>8. ASSUME NEW n \in Names PROVE NameInv(n)'
  <2>1. NameInv(n) /\ n # None
    BY NoneIsNobody DEF AdmissionInv
  <2>2. n \notin unsettled' => n \notin unsettled /\ \A c \in Callers : Name(c) # n
    BY <1>4, <2>1
  <2> QED BY <1>3, <2>1, <2>2 DEF NameInv, HasRecord, Registered, Agreed, Adoptable
<1> QED BY <1>5, <1>6, <1>7, <1>8 DEF AdmissionInv, Own
-----------------------------------------------------------------------------
(* A call moves on with another key or token, or having read the profile.    *)

TakesKey(c, p, k) == req' = [req EXCEPT ![c].pc = p, ![c].psk = k]
TakesToken(c, p, k) == req' = [req EXCEPT ![c].pc = p, ![c].tok = k]
TakesAdopts(c, p, a) == req' = [req EXCEPT ![c].pc = p, ![c].adopts = a]

\* With a key.
LEMMA KeyMoves ==
    ASSUME TypeOK, NEW c \in Callers, NEW p \in Points, NEW k \in Secrets,
           TakesKey(c, p, k)
    PROVE  /\ req' \in [Callers -> Requests]
           /\ \A d \in Callers \ {c} : req'[d] = req[d]
           /\ req'[c].pc = p /\ req'[c].psk = k
           /\ req'[c].op = req[c].op /\ req'[c].name = req[c].name /\ req'[c].tok = req[c].tok
           /\ req'[c].supplied = req[c].supplied /\ req'[c].adopts = req[c].adopts /\ req'[c].stale = req[c].stale
           /\ req'[c].met = req[c].met
<1> DEFINE q == [req[c] EXCEPT !.pc = p, !.psk = k]
<1>1. req[c] \in Requests
  BY RequestsType
<1>2. q \in Requests
  BY <1>1 DEF Requests
<1>3. Becomes(c, q)
  BY RequestsType DEF Becomes, TakesKey
<1>4. /\ q.pc = p /\ q.psk = k
      /\ q.op = req[c].op /\ q.name = req[c].name /\ q.tok = req[c].tok
      /\ q.supplied = req[c].supplied /\ q.adopts = req[c].adopts /\ q.stale = req[c].stale
      /\ q.met = req[c].met
  BY <1>1 DEF Requests
<1> HIDE DEF q
<1> QED BY <1>2, <1>3, <1>4, BecomesMoves

\* With a token.
LEMMA TokenMoves ==
    ASSUME TypeOK, NEW c \in Callers, NEW p \in Points, NEW k \in Secrets,
           TakesToken(c, p, k)
    PROVE  /\ req' \in [Callers -> Requests]
           /\ \A d \in Callers \ {c} : req'[d] = req[d]
           /\ req'[c].pc = p /\ req'[c].tok = k
           /\ req'[c].op = req[c].op /\ req'[c].name = req[c].name /\ req'[c].psk = req[c].psk
           /\ req'[c].supplied = req[c].supplied /\ req'[c].adopts = req[c].adopts /\ req'[c].stale = req[c].stale
           /\ req'[c].met = req[c].met
<1> DEFINE q == [req[c] EXCEPT !.pc = p, !.tok = k]
<1>1. req[c] \in Requests
  BY RequestsType
<1>2. q \in Requests
  BY <1>1 DEF Requests
<1>3. Becomes(c, q)
  BY RequestsType DEF Becomes, TakesToken
<1>4. /\ q.pc = p /\ q.tok = k
      /\ q.op = req[c].op /\ q.name = req[c].name /\ q.psk = req[c].psk
      /\ q.supplied = req[c].supplied /\ q.adopts = req[c].adopts /\ q.stale = req[c].stale
      /\ q.met = req[c].met
  BY <1>1 DEF Requests
<1> HIDE DEF q
<1> QED BY <1>2, <1>3, <1>4, BecomesMoves

\* Decided about adopting.
LEMMA AdoptsMoves ==
    ASSUME TypeOK, NEW c \in Callers, NEW p \in Points, NEW a \in {"no", "built", "always"},
           TakesAdopts(c, p, a)
    PROVE  /\ req' \in [Callers -> Requests]
           /\ \A d \in Callers \ {c} : req'[d] = req[d]
           /\ req'[c].pc = p /\ req'[c].adopts = a
           /\ req'[c].op = req[c].op /\ req'[c].name = req[c].name /\ req'[c].psk = req[c].psk
           /\ req'[c].tok = req[c].tok /\ req'[c].supplied = req[c].supplied /\ req'[c].stale = req[c].stale
           /\ req'[c].met = req[c].met
<1> DEFINE q == [req[c] EXCEPT !.pc = p, !.adopts = a]
<1>1. req[c] \in Requests
  BY RequestsType
<1>2. q \in Requests
  BY <1>1 DEF Requests
<1>3. Becomes(c, q)
  BY RequestsType DEF Becomes, TakesAdopts
<1>4. /\ q.pc = p /\ q.adopts = a
      /\ q.op = req[c].op /\ q.name = req[c].name /\ q.psk = req[c].psk
      /\ q.tok = req[c].tok /\ q.supplied = req[c].supplied /\ q.stale = req[c].stale
      /\ q.met = req[c].met
  BY <1>1 DEF Requests
<1> HIDE DEF q
<1> QED BY <1>2, <1>3, <1>4, BecomesMoves

\* With a fresh read of the profile.
LEMMA ReadMoves ==
    ASSUME TypeOK, NEW c \in Callers, NEW p \in Points,
           Read(c, p)
    PROVE  /\ req' \in [Callers -> Requests]
           /\ \A d \in Callers \ {c} : req'[d] = req[d]
           /\ req'[c].pc = p /\ req'[c].stale = FALSE
           /\ req'[c].op = req[c].op /\ req'[c].name = req[c].name /\ req'[c].psk = req[c].psk
           /\ req'[c].tok = req[c].tok /\ req'[c].supplied = req[c].supplied /\ req'[c].adopts = req[c].adopts
           /\ req'[c].met = req[c].met
<1> DEFINE q == [req[c] EXCEPT !.pc = p, !.stale = FALSE]
<1>1. req[c] \in Requests
  BY RequestsType
<1>2. q \in Requests
  BY <1>1 DEF Requests
<1>3. Becomes(c, q)
  BY RequestsType DEF Becomes, Read
<1>4. /\ q.pc = p /\ q.stale = FALSE
      /\ q.op = req[c].op /\ q.name = req[c].name /\ q.psk = req[c].psk
      /\ q.tok = req[c].tok /\ q.supplied = req[c].supplied /\ q.adopts = req[c].adopts
      /\ q.met = req[c].met
  BY <1>1 DEF Requests
<1> HIDE DEF q
<1> QED BY <1>2, <1>3, <1>4, BecomesMoves

\* The types of what a step of a call seldom changes.
LEMMA CallTypes ==
    ASSUME TypeOK, req' \in [Callers -> Requests], UNCHANGED <<placeholder, process, spare>>,
           row' \in [Names -> {NoRow} \cup [status : {"provisioning", "ready", "deleting"}, tok : Secrets \ {0}]],
           adm' \in [Names -> Secrets],
           wifi' \in [Names -> {NoKey} \cup [status : {"provisioning", "ready"}, psk : Secrets \ {0}]],
           profile' \in [Names -> Secrets],
           held' \in [Names -> [enrol : {"none", "live", "spent"}, tok : Secrets, psk : Secrets]],
           sealed' \in BOOLEAN, refused' \in BOOLEAN,
           told' \in [Names -> Secrets \cup {None}], escaped' \subseteq Names, unsettled' \subseteq Names,
           faults' \in 0 .. MaxFaults
    PROVE  TypeOK'
BY DEF TypeOK, Requests, process

LEMMA QuietTypes ==
    ASSUME TypeOK, req' \in [Callers -> Requests], UNCHANGED <<registry, controller, process, history, spare, faults>>,
           held' \in [Names -> [enrol : {"none", "live", "spent"}, tok : Secrets, psk : Secrets]],
           sealed' \in BOOLEAN, refused' \in BOOLEAN
    PROVE  TypeOK'
BY DEF TypeOK, Requests, registry, controller, process, history

-----------------------------------------------------------------------------
(* Steps that only move the call on.                                         *)

LEMMA WrapInv ==
    ASSUME AdmissionInv, NEW c \in Callers, Wrap(c)
    PROVE  AdmissionInv'
<1>0. At(c, "wrap") /\ ~At(c, "idle") /\ UNCHANGED <<registry, controller, held, bao, process, history, spare, faults>>
  BY DEF Wrap, At
<1>1. PICK n : n = Name(c)
  OBVIOUS
<1>2. CASE Fails(c)
  <2>1. TypeOK'
    BY <1>0, <1>2, FailsMoves, QuietTypes DEF AdmissionInv, TypeOK, bao
  <2>2. req[c].pc \in AgreedPoints
    BY <1>0 DEF At, AgreedPoints
  <2> QED BY <1>0, <1>2, <2>1, <2>2, EndsAgreed
<1>3. CASE TakesKey(c, "putAdm", MintKey(Name(c)))
  <2>1. PICK k \in Secrets \ {0} : k = MintKey(n)
    BY NewSecrets DEF AdmissionInv
  <2>2. /\ req' \in [Callers -> Requests]
        /\ \A d \in Callers \ {c} : req'[d] = req[d]
        /\ req'[c].pc = "putAdm" /\ req'[c].psk = k
        /\ req'[c].op = req[c].op /\ req'[c].name = req[c].name /\ req'[c].tok = req[c].tok
        /\ req'[c].supplied = req[c].supplied /\ req'[c].adopts = req[c].adopts /\ req'[c].stale = req[c].stale
        /\ req'[c].met = req[c].met
    BY <1>1, <1>3, <2>1, KeyMoves DEF AdmissionInv, Points
  <2>3. TypeOK'
    BY <1>0, <2>2, QuietTypes DEF AdmissionInv, TypeOK, bao
  <2>4. req[c].op = "admit" /\ Own(c) /\ n \in Names
    BY <1>0, <1>1, Facts DEF Own, CallInv, Fits, At, Ops, Touches, Ensuring, Removing
  <2>5. UNCHANGED <<row, adm, wifi, profile, told, unsettled>>
    BY <1>0 DEF registry, controller, history
  <2>6. CallInv(c)'
    BY <1>0, <2>1, <2>2, <2>4, <2>5 DEF Own, CallInv, Fits, At, Name, Withdrawing
  <2>7. RecordInv(c)' /\ PlacedInv(c)' /\ StaleInv(c)'
    BY <2>2 DEF RecordInv, PlacedInv, StaleInv, At, Name
  <2>8. StageInv(c)'
    BY <1>0, <2>2, <2>4, <2>5 DEF Own, StageInv, At, Name, AgreedPoints, Agreed, Adoptable, Ensuring
  <2> QED BY <1>0, <2>2, <2>3, <2>6, <2>7, <2>8, QuietStep DEF Own
<1> QED BY <1>2, <1>3, Zenon DEF Wrap, TakesKey

\* Which call is at a point.
LEMMA OpAt ==
    ASSUME AdmissionInv, NEW c \in Callers
    PROVE  /\ req[c].pc \in {"wrap", "putAdm"} => req[c].op = "admit"
           /\ req[c].pc \in {"redeem", "createGet", "insert", "secrets", "build", "adoptGet", "adoptPut"} =>
                 req[c].op = "create"
           /\ req[c].pc \in {"putKey", "keyReady"} => req[c].op = "createKey"
           /\ req[c].pc \in {"mark", "list", "dropTenant"} => req[c].op = "delete"
           /\ req[c].pc = "dropKey" => req[c].op = "deleteKey"
           /\ req[c].pc = "dropAdm" => req[c].op \in {"revoke", "create"}
           /\ req[c].pc \in Ensuring => req[c].op \in {"admit", "createKey"}
           /\ req[c].pc \in Removing => req[c].op \in {"revoke", "deleteKey", "delete"}
<1>1. CASE At(c, "idle")
  BY <1>1 DEF At, Ensuring, Removing
<1>2. CASE ~At(c, "idle")
  <2>1. req[c].op \in Ops /\ Fits(req[c].op, req[c].pc)
    BY <1>2, Facts DEF Own, CallInv
  <2> QED BY <2>1 DEF Ops, Touches, Fits, Ensuring, Removing
<1> QED BY <1>1, <1>2

LEMMA RedeemInv ==
    ASSUME AdmissionInv, NEW c \in Callers, Redeem(c)
    PROVE  AdmissionInv'
<1>0. /\ At(c, "redeem") /\ ~At(c, "idle") /\ TypeOK
      /\ UNCHANGED <<registry, controller, bao, process, history, spare, faults>>
  BY DEF Redeem, At, AdmissionInv
<1>1. /\ held' \in [Names -> [enrol : {"none", "live", "spent"}, tok : Secrets, psk : Secrets]]
      /\ sealed' \in BOOLEAN /\ refused' \in BOOLEAN
  <2> DEFINE H == [enrol : {"none", "live", "spent"}, tok : Secrets, psk : Secrets]
  <2>1. held \in [Names -> H] /\ held' = [held EXCEPT ![c].enrol = "spent"]
    BY <1>0 DEF Redeem, Unwrap, TypeOK
  <2>2. held' \in [Names -> H]
    <3>1. CASE c \in Names
      BY <2>1, <3>1
    <3>2. CASE c \notin Names
      BY <2>1, <3>2
    <3> QED BY <3>1, <3>2
  <2>3. sealed' \in BOOLEAN /\ refused' \in BOOLEAN
    BY <1>0 DEF TypeOK, bao
  <2> QED BY <2>2, <2>3
<1>2. CASE Fails(c)
  <2>1. TypeOK'
    BY <1>0, <1>1, <1>2, FailsMoves, QuietTypes
  <2>2. req[c].pc \in AgreedPoints
    BY <1>0 DEF At, AgreedPoints
  <2> QED BY <1>0, <1>2, <2>1, <2>2, EndsAgreed
<1>3. CASE Goto(c, "createGet")
  <2>1. /\ req' \in [Callers -> Requests]
        /\ \A d \in Callers \ {c} : req'[d] = req[d]
        /\ req'[c].pc = "createGet" /\ req'[c].psk = req[c].psk
        /\ req'[c].op = req[c].op /\ req'[c].name = req[c].name /\ req'[c].tok = req[c].tok
        /\ req'[c].supplied = req[c].supplied /\ req'[c].met = req[c].met
    BY <1>0, <1>3, GotoMoves DEF Points
  <2>2. TypeOK'
    BY <1>0, <1>1, <2>1, QuietTypes
  <2>3. req[c].op = "create" /\ Own(c)
    BY <1>0, OpAt, Facts DEF At
  <2>4. UNCHANGED <<row, adm, wifi, profile, told, unsettled>>
    BY <1>0 DEF registry, controller, history
  <2>5. CallInv(c)'
    BY <1>0, <2>1, <2>3, <2>4 DEF Own, CallInv, Fits, At, Name, Withdrawing, Touches
  <2>6. RecordInv(c)' /\ PlacedInv(c)' /\ StaleInv(c)'
    BY <2>1 DEF RecordInv, PlacedInv, StaleInv, At, Name
  <2>7. StageInv(c)'
    BY <1>0, <2>1, <2>3, <2>4 DEF Own, StageInv, At, Name, AgreedPoints, Agreed, Adoptable
  <2> QED BY <1>0, <2>1, <2>2, <2>5, <2>6, <2>7, QuietStep DEF Own
<1> QED BY <1>2, <1>3 DEF Redeem

LEMMA CreateGetInv ==
    ASSUME AdmissionInv, NEW c \in Callers, CreateGet(c)
    PROVE  AdmissionInv'
<1>0. /\ At(c, "createGet") /\ ~At(c, "idle") /\ TypeOK
      /\ UNCHANGED <<registry, controller, held, sealed, process, history, spare, faults>>
  BY DEF CreateGet, At, AdmissionInv
<1>1. /\ held' \in [Names -> [enrol : {"none", "live", "spent"}, tok : Secrets, psk : Secrets]]
      /\ sealed' \in BOOLEAN /\ refused' \in BOOLEAN
  <2>1. refused' = (refused /\ row[Name(c)].status = "absent")
    BY DEF CreateGet
  <2> QED BY <1>0, <2>1 DEF TypeOK
<1>2. PICK n : n = Name(c)
  OBVIOUS
<1>3. req[c].op = "create" /\ Own(c) /\ n \in Names
  BY <1>0, <1>2, OpAt, Facts DEF At
<1>4. n \notin unsettled => Agreed(n)
  BY <1>0, <1>2, <1>3 DEF Own, StageInv, At, AgreedPoints
<1>5. UNCHANGED <<row, adm, wifi, profile, told, unsettled>>
  BY <1>0 DEF registry, controller, history
<1>6. ASSUME req' \in [Callers -> Requests],
             \A d \in Callers \ {c} : req'[d] = req[d],
             req'[c].pc \in {"insert", "secrets"},
             req'[c].op = req[c].op, req'[c].name = req[c].name, req'[c].tok = req[c].tok,
             req'[c].supplied = req[c].supplied, req'[c].met = req[c].met,
             req'[c].adopts # "no" \/ row[n].status = "ready"
      PROVE  AdmissionInv'
  <2>1. TypeOK'
    BY <1>0, <1>1, <1>6, QuietTypes
  <2>2. CallInv(c)'
    BY <1>0, <1>3, <1>5, <1>6 DEF Own, CallInv, Fits, At, Name, Withdrawing, Touches
  <2>3. RecordInv(c)' /\ PlacedInv(c)' /\ StaleInv(c)'
    BY <1>6 DEF RecordInv, PlacedInv, StaleInv, At, Name
  <2>4. n \notin unsettled /\ req'[c].adopts = "no" => adm[n] = 0
    BY <1>4, <1>6 DEF Agreed
  <2>5. StageInv(c)'
    BY <1>2, <1>3, <1>4, <1>5, <1>6, <2>4 DEF StageInv, Name, AgreedPoints, Agreed, Adoptable
  <2> QED BY <1>0, <1>6, <2>1, <2>2, <2>3, <2>5, QuietStep DEF Own
<1>7. CASE Fails(c)
  <2>1. TypeOK'
    BY <1>0, <1>1, <1>7, FailsMoves, QuietTypes
  <2>2. req[c].pc \in AgreedPoints
    BY <1>0 DEF At, AgreedPoints
  <2> QED BY <1>0, <1>7, <2>1, <2>2, EndsAgreed
<1>8. CASE TakesAdopts(c, "insert", "built")
  BY <1>0, <1>6, <1>8, AdoptsMoves DEF Points
<1>9. CASE TakesAdopts(c, "secrets", "always")
  BY <1>0, <1>6, <1>9, AdoptsMoves DEF Points
<1>10. CASE Goto(c, "secrets") /\ row[n].status = "ready"
  BY <1>0, <1>6, <1>10, GotoMoves DEF Points
<1> QED
  <2>1. \/ req' = [req EXCEPT ![c].pc = "insert", ![c].adopts = "built"]
        \/ req' = [req EXCEPT ![c].pc = "secrets", ![c].adopts = "always"]
        \/ row[Name(c)].status = "ready" /\ Goto(c, "secrets")
        \/ Fails(c)
    BY Zenon DEF CreateGet
  <2>2. \/ TakesAdopts(c, "insert", "built") \/ TakesAdopts(c, "secrets", "always")
        \/ row[n].status = "ready" /\ Goto(c, "secrets")
        \/ Fails(c)
    BY <1>2, <2>1, Zenon DEF TakesAdopts
  <2> QED BY <1>7, <1>8, <1>9, <1>10, <2>2

\* A create fails before its steps, or finds its row gone.
LEMMA CreateFailsInv ==
    ASSUME AdmissionInv, NEW c \in Callers, req[c].pc \in {"secrets", "build"}, CreateFails(c),
           UNCHANGED <<registry, controller, held, process, history, spare, faults>>,
           sealed' \in BOOLEAN, refused' \in BOOLEAN
    PROVE  AdmissionInv'
<1>0. ~At(c, "idle") /\ TypeOK
  BY DEF At, AdmissionInv
<1>1. held' \in [Names -> [enrol : {"none", "live", "spent"}, tok : Secrets, psk : Secrets]]
  BY <1>0 DEF TypeOK
<1>2. CASE Fails(c)
  <2>1. TypeOK'
    BY <1>0, <1>1, <1>2, FailsMoves, QuietTypes
  <2>2. req[c].pc \in AgreedPoints
    BY DEF AgreedPoints
  <2> QED BY <1>0, <1>2, <2>1, <2>2, EndsAgreed
<1>3. CASE TakesToken(c, "adoptGet", 0)
  <2>0. 0 \in Secrets
    BY AdmissionAssumption DEF Secrets
  <2>1. /\ req' \in [Callers -> Requests]
        /\ \A d \in Callers \ {c} : req'[d] = req[d]
        /\ req'[c].pc = "adoptGet" /\ req'[c].psk = req[c].psk
        /\ req'[c].op = req[c].op /\ req'[c].name = req[c].name
        /\ req'[c].met = req[c].met
    BY <1>0, <1>3, <2>0, TokenMoves DEF Points
  <2>2. TypeOK'
    BY <1>0, <1>1, <2>1, QuietTypes
  <2>3. req[c].op = "create" /\ Own(c)
    BY <1>0, OpAt, Facts DEF At
  <2>4. UNCHANGED <<row, adm, wifi, profile, told, unsettled>>
    BY DEF registry, controller, history
  <2>5. CallInv(c)'
    BY <1>0, <2>1, <2>3, <2>4 DEF Own, CallInv, Fits, At, Name, Withdrawing, Touches
  <2>6. RecordInv(c)' /\ PlacedInv(c)' /\ StaleInv(c)'
    BY <2>1 DEF RecordInv, PlacedInv, StaleInv, At, Name
  <2>7. StageInv(c)'
    BY <1>0, <2>1, <2>3, <2>4 DEF Own, StageInv, At, Name, AgreedPoints, Agreed, Adoptable
  <2> QED BY <1>0, <2>1, <2>2, <2>5, <2>6, <2>7, QuietStep DEF Own
<1> QED BY <1>2, <1>3, Zenon DEF CreateFails, TakesToken

LEMMA UnavailableInv ==
    ASSUME AdmissionInv, NEW c \in Callers, Unavailable(c)
    PROVE  AdmissionInv'
<1>0. TypeOK /\ UNCHANGED <<registry, controller, held, bao, process, history, spare, faults>>
  BY DEF Unavailable, AdmissionInv
<1>1. /\ held' \in [Names -> [enrol : {"none", "live", "spent"}, tok : Secrets, psk : Secrets]]
      /\ sealed' \in BOOLEAN /\ refused' \in BOOLEAN
  BY <1>0 DEF TypeOK, bao
<1>2. CASE At(c, "secrets") /\ CreateFails(c)
  BY <1>0, <1>1, <1>2, CreateFailsInv DEF At
<1>3. CASE req[c].pc \in AgreedPoints /\ Fails(c)
  <2>1. TypeOK'
    BY <1>0, <1>1, <1>3, FailsMoves, QuietTypes
  <2> QED BY <1>0, <1>3, <2>1, EndsAgreed
<1> QED BY <1>2, <1>3 DEF Unavailable, At, AgreedPoints

LEMMA AdoptGetInv ==
    ASSUME AdmissionInv, NEW c \in Callers, AdoptGet(c)
    PROVE  AdmissionInv'
<1>0. /\ At(c, "adoptGet") /\ ~At(c, "idle") /\ TypeOK
      /\ UNCHANGED <<registry, controller, held, process, history, spare, faults>>
  BY DEF AdoptGet, At, AdmissionInv
<1>1. /\ held' \in [Names -> [enrol : {"none", "live", "spent"}, tok : Secrets, psk : Secrets]]
      /\ sealed' \in BOOLEAN /\ refused' \in BOOLEAN
  <2>1. (sealed' = sealed /\ refused' = refused) \/ (sealed' = sealed /\ refused' = FALSE)
    BY Zenon DEF AdoptGet, Do, bao
  <2> QED BY <1>0, <2>1 DEF TypeOK
<1>2. PICK n : n = Name(c)
  OBVIOUS
<1>3. req[c].op = "create" /\ Own(c) /\ n \in Names /\ adm[n] \in Secrets
  BY <1>0, <1>2, OpAt, Facts DEF At
<1>4. n \notin unsettled => Adoptable(n)
  BY <1>0, <1>2, <1>3 DEF Own, StageInv, At
<1>5. UNCHANGED <<row, adm, wifi, profile, told, unsettled>>
  BY <1>0 DEF registry, controller, history
<1>6. ASSUME req' \in [Callers -> Requests],
             \A d \in Callers \ {c} : req'[d] = req[d],
             \/ req'[c].pc = "answer" /\ adm[n] = 0
             \/ req'[c].pc = "adoptPut" /\ adm[n] # 0 /\ req'[c].psk = adm[n],
             req'[c].op = req[c].op, req'[c].name = req[c].name, req'[c].met = req[c].met
      PROVE  AdmissionInv'
  <2>1. TypeOK'
    BY <1>0, <1>1, <1>6, QuietTypes
  <2>2. CallInv(c)'
    BY <1>0, <1>3, <1>5, <1>6 DEF Own, CallInv, Fits, At, Name, Withdrawing, Touches
  <2>3. RecordInv(c)' /\ PlacedInv(c)' /\ StaleInv(c)'
    BY <1>3, <1>6 DEF RecordInv, PlacedInv, StaleInv, At, Name, Placing, Withdrawing
  <2>4. StageInv(c)'
    BY <1>2, <1>3, <1>4, <1>5, <1>6 DEF StageInv, Name, AgreedPoints, Agreed, Adoptable
  <2> QED BY <1>0, <1>6, <2>1, <2>2, <2>3, <2>4, QuietStep DEF Own
<1>7. CASE adm[n] = 0 /\ Goto(c, "answer")
  BY <1>0, <1>6, <1>7, GotoMoves DEF Points
<1>8. CASE adm[n] # 0 /\ TakesKey(c, "adoptPut", adm[n])
  BY <1>0, <1>3, <1>6, <1>8, KeyMoves DEF Points
<1> QED BY <1>2, <1>7, <1>8, Zenon DEF AdoptGet, TakesKey

LEMMA ListInv ==
    ASSUME AdmissionInv, NEW c \in Callers, List(c)
    PROVE  AdmissionInv'
<1>0. /\ At(c, "list") /\ ~At(c, "idle") /\ TypeOK
      /\ UNCHANGED <<registry, controller, held, sealed, process, history, spare, faults>>
  BY DEF List, At, AdmissionInv
<1>1. /\ held' \in [Names -> [enrol : {"none", "live", "spent"}, tok : Secrets, psk : Secrets]]
      /\ sealed' \in BOOLEAN /\ refused' \in BOOLEAN
  <2>1. refused' = (refused /\ wifi[Name(c)].status = "absent")
    BY DEF List
  <2> QED BY <1>0, <2>1 DEF TypeOK
<1>2. PICK n : n = Name(c)
  OBVIOUS
<1>3. PICK p \in {"dropTenant", "remRead"} :
        Goto(c, p) /\ (p = "dropTenant" <=> wifi[n].status = "absent")
  BY <1>2 DEF List
<1>4. /\ req[c].op = "delete" /\ Own(c) /\ NameInv(n) /\ n \in Names
      /\ wifi[n] \in {NoKey} \cup [status : {"provisioning", "ready"}, psk : Secrets \ {0}]
  BY <1>0, <1>2, OpAt, Facts DEF At
<1>5. n \notin unsettled => Agreed(n)
  BY <1>0, <1>2, <1>4 DEF Own, StageInv, At, AgreedPoints
<1>6. UNCHANGED <<row, adm, wifi, profile, told, escaped, unsettled>>
  BY <1>0 DEF registry, controller, history
<1>7. /\ req' \in [Callers -> Requests]
      /\ \A d \in Callers \ {c} : req'[d] = req[d]
      /\ req'[c].pc = p /\ req'[c].op = req[c].op /\ req'[c].name = req[c].name
      /\ req'[c].met = req[c].met
  BY <1>0, <1>3, GotoMoves DEF Points
<1>8. TypeOK'
  BY <1>0, <1>1, <1>7, QuietTypes
<1>9. CallInv(c)'
  BY <1>0, <1>3, <1>4, <1>6, <1>7 DEF Own, CallInv, Fits, At, Name, Withdrawing, Touches, Removing
<1>10. wifi[n].status = "absent" <=> wifi[n] = NoKey
  BY <1>4 DEF NoKey
<1>11. RecordInv(c)'
  BY <1>2, <1>3, <1>4, <1>6, <1>7, <1>10 DEF RecordInv, NameInv, HasRecord, Placing, At, Name
<1>12. PlacedInv(c)' /\ StaleInv(c)'
  BY <1>3, <1>4, <1>7 DEF PlacedInv, StaleInv, At, Name, Placing, Withdrawing
<1>13. n \notin unsettled => /\ p = "remRead" => adm[n] = 0
                             /\ p = "dropTenant" => profile[n] = adm[n]
  BY <1>3, <1>5, <1>10 DEF Agreed, Adoptable
<1>14. StageInv(c)'
  BY <1>2, <1>3, <1>4, <1>6, <1>7, <1>13 DEF StageInv, Name, AgreedPoints, Removing
<1> QED BY <1>0, <1>7, <1>8, <1>9, <1>11, <1>12, <1>14, QuietStep DEF Own
-----------------------------------------------------------------------------
(* EnsureKey and RemoveKey.                                                  *)

\* What a call keeps as it moves on there.
SameOwn(c) ==
    /\ req'[c].op = req[c].op /\ req'[c].name = req[c].name /\ req'[c].psk = req[c].psk
    /\ req'[c].supplied = req[c].supplied /\ req'[c].tok = req[c].tok /\ req'[c].met = req[c].met

\* Such a call is one that may change a key, so nothing is said of the key.
LEMMA AtKey ==
    ASSUME AdmissionInv, NEW c \in Callers, req[c].pc \in Ensuring \cup Removing
    PROVE  /\ ~At(c, "idle") /\ TypeOK /\ Own(c) /\ NameInv(Name(c)) /\ Name(c) \in Names
           /\ req[c].op \in Touches /\ told[Name(c)] = None
           /\ req[c].pc \in Ensuring => req[c].op \in {"admit", "createKey"} /\ req[c].psk # 0
           /\ req[c].pc \in Removing => req[c].op \in {"revoke", "deleteKey", "delete"}
<1>1. ~At(c, "idle")
  BY DEF At, Ensuring, Removing
<1>2. /\ req[c].pc \in Ensuring => req[c].op \in {"admit", "createKey"}
      /\ req[c].pc \in Removing => req[c].op \in {"revoke", "deleteKey", "delete"}
  BY OpAt
<1>3. req[c].op \in Touches
  BY <1>2 DEF Touches
<1>4. Own(c) /\ NameInv(Name(c)) /\ Name(c) \in Names /\ TypeOK
  BY <1>1, Facts
<1>5. req[c].pc \in Ensuring => req[c].psk # 0
  BY <1>2, <1>4 DEF Own, CallInv, At, Ensuring
<1>6. told[Name(c)] = None
  BY <1>3, <1>4 DEF Own, CallInv
<1> QED BY <1>1, <1>2, <1>3, <1>4, <1>5, <1>6

LEMMA KeyCall ==
    ASSUME AdmissionInv, NEW c \in Callers, req[c].pc \in Ensuring \cup Removing, SameOwn(c),
           UNCHANGED <<told, unsettled>>,
           \/ req[c].pc \in Ensuring /\ req'[c].pc \in Ensuring
           \/ req[c].pc \in Removing /\ req'[c].pc \in Removing
           \/ req'[c].pc = Return(c)
    PROVE  CallInv(c)'
<1>1. /\ ~At(c, "idle") /\ Own(c)
      /\ req[c].pc \in Ensuring => req[c].op \in {"admit", "createKey"} /\ req[c].psk # 0
      /\ req[c].pc \in Removing => req[c].op \in {"revoke", "deleteKey", "delete"}
  BY AtKey
<1>2. /\ Fits(req[c].op, req'[c].pc)
      /\ req'[c].pc \notin {"idle", "wrap", "redeem", "createGet", "insert", "secrets", "adoptPut"}
  BY <1>1, ReturnIs DEF Fits, Ensuring, Removing
<1> QED BY <1>1, <1>2 DEF SameOwn, Own, CallInv, At, Name

\* EnsureKey returns: the key is there.
LEMMA ReturnPlaced ==
    ASSUME AdmissionInv, NEW c \in Callers, req[c].pc \in {"ensAfter", "ensClear"}, SameOwn(c),
           UNCHANGED <<row, adm, wifi, profile, told, escaped, unsettled>>, req'[c].pc = Return(c)
    PROVE  Own(c)'
<1>1. PICK n : n = Name(c)
  OBVIOUS
<1>2. req[c].pc \in Ensuring
  BY DEF Ensuring
<1>3. /\ ~At(c, "idle") /\ Own(c) /\ NameInv(n) /\ n \in Names
      /\ req[c].op \in {"admit", "createKey"} /\ req[c].psk # 0
  BY <1>1, <1>2, AtKey
<1>4. \/ req[c].op = "admit" /\ req'[c].pc = "answer"
      \/ req[c].op = "createKey" /\ req'[c].pc = "keyReady"
  BY <1>3, ReturnIs
<1>5. CallInv(c)'
  BY <1>2, KeyCall
<1>6. RecordInv(c)' /\ StaleInv(c)'
  BY <1>4 DEF RecordInv, StaleInv, At
<1>7. ~req[c].met => profile[n] = req[c].psk
  BY <1>1, <1>3 DEF Own, PlacedInv, Placing
<1>8. PlacedInv(c)'
  BY <1>1, <1>4, <1>7 DEF SameOwn, PlacedInv, Placing, Withdrawing, Name
<1>9. StageInv(c)'
  <2>1. SUFFICES ASSUME n \notin unsettled PROVE StageInv(c)'
    BY <1>1 DEF SameOwn, StageInv, Name
  <2>2. profile[n] = req[c].psk
    BY <1>1, <1>3, <1>7, <2>1 DEF Own, CallInv
  <2>3. CASE req[c].op = "admit"
    <3>1. row[n] = NoRow /\ adm[n] = req[c].psk
      BY <1>1, <1>2, <1>3, <2>1, <2>3 DEF Own, StageInv
    <3>2. wifi[n] = NoKey
      BY <1>3, <3>1 DEF NameInv, Registered, NoRow
    <3>3. Agreed(n)
      BY <1>3, <2>2, <3>1, <3>2 DEF Agreed, Adoptable, NoRow, NoKey
    <3> QED BY <1>1, <1>4, <2>3, <3>1, <3>3
            DEF SameOwn, StageInv, Name, Agreed, Adoptable, AgreedPoints, Ensuring
  <2>4. CASE req[c].op = "createKey"
    <3>1. adm[n] = 0 /\ wifi[n].status # "absent" /\ wifi[n].psk = req[c].psk
      BY <1>1, <1>2, <1>3, <2>1, <2>4 DEF Own, StageInv
    <3> QED BY <1>1, <1>4, <2>4, <3>1 DEF SameOwn, StageInv, Name, AgreedPoints
  <2> QED BY <1>3, <2>3, <2>4
<1> QED BY <1>5, <1>6, <1>8, <1>9 DEF Own

\* RemoveKey returns: the key is gone.
LEMMA ReturnRemoved ==
    ASSUME AdmissionInv, NEW c \in Callers, req[c].pc \in Removing, SameOwn(c),
           UNCHANGED <<row, adm, wifi, told, escaped, unsettled>>, profile'[Name(c)] = 0, req'[c].pc = Return(c)
    PROVE  Own(c)'
<1>1. PICK n : n = Name(c)
  OBVIOUS
<1>2. /\ ~At(c, "idle") /\ Own(c) /\ n \in Names
      /\ req[c].op \in {"revoke", "deleteKey", "delete"}
  BY <1>1, AtKey
<1>3. \/ req[c].op = "revoke" /\ req'[c].pc = "dropAdm"
      \/ req[c].op = "deleteKey" /\ req'[c].pc = "dropKey"
      \/ req[c].op = "delete" /\ req'[c].pc = "dropTenant"
  BY <1>2, ReturnIs
<1>4. CallInv(c)'
  BY KeyCall
<1>5. profile'[n] = 0
  BY <1>1
<1>6. RecordInv(c)' /\ StaleInv(c)' /\ PlacedInv(c)'
  BY <1>1, <1>3, <1>5 DEF SameOwn, RecordInv, StaleInv, PlacedInv, Placing, Withdrawing, At, Name
<1>7. StageInv(c)'
  BY <1>1, <1>2, <1>3, <1>5 DEF SameOwn, Own, StageInv, Name, AgreedPoints, Removing
<1> QED BY <1>4, <1>6, <1>7 DEF Own

\* The call is still at it.
LEMMA StillAtKey ==
    ASSUME AdmissionInv, NEW c \in Callers, SameOwn(c),
           UNCHANGED <<row, adm, wifi, told, escaped, unsettled>>,
           \/ req[c].pc \in Ensuring \ {"ensAfter", "ensClear"} /\ req'[c].pc \in {"ensGuard", "ensDelete", "ensAdd"}
           \/ /\ req[c].pc \in Ensuring /\ req'[c].pc \in {"ensAfter", "ensClear"}
              /\ ~req[c].met => profile'[Name(c)] = req[c].psk
           \/ req[c].pc \in Removing /\ req'[c].pc \in Removing
    PROVE  CallInv(c)' /\ RecordInv(c)' /\ PlacedInv(c)' /\ StageInv(c)'
<1>1. PICK n : n = Name(c)
  OBVIOUS
<1>2. /\ ~At(c, "idle") /\ Own(c) /\ n \in Names
      /\ req[c].pc \in Ensuring => req[c].op \in {"admit", "createKey"} /\ req[c].psk # 0
      /\ req[c].pc \in Removing => req[c].op \in {"revoke", "deleteKey", "delete"}
  BY <1>1, AtKey
<1>3. \/ req[c].pc \in Ensuring /\ req'[c].pc \in Ensuring
      \/ req[c].pc \in Removing /\ req'[c].pc \in Removing
  BY DEF Ensuring
<1>4. CallInv(c)'
  BY <1>3, KeyCall
<1>5. RecordInv(c)'
  BY <1>1, <1>2 DEF SameOwn, Own, RecordInv, HasRecord, Ensuring, Removing, Placing, At, Name
<1>6. PlacedInv(c)'
  BY <1>1, <1>2 DEF SameOwn, PlacedInv, Ensuring, Removing, Placing, Withdrawing, Name
<1>7. StageInv(c)'
  BY <1>1, <1>2, <1>3 DEF SameOwn, Own, StageInv, Name, AgreedPoints, Ensuring, Removing
<1> QED BY <1>4, <1>5, <1>6, <1>7

\* A key that is there is not the last: guardMinimum saw to it or need not.
LEMMA NoGuardNeeded ==
    ASSUME NEW n \in Names, profile[n] # 0, ~NeedsGuard(n)
    PROVE  placeholder \/ \E m \in Names : m # n /\ profile[m] # 0
BY DEF NeedsGuard, Entries

LEMMA EnsureReadInv ==
    ASSUME AdmissionInv, NEW c \in Callers, EnsureRead(c)
    PROVE  AdmissionInv'
<1>0. /\ At(c, "ensRead") /\ req[c].pc \in Ensuring /\ TypeOK
      /\ UNCHANGED <<registry, controller, held, bao, process, history, spare, faults>>
  BY DEF EnsureRead, At, AdmissionInv, Ensuring
<1>1. PICK n : n = Name(c)
  OBVIOUS
<1>2. n \in Names /\ ~At(c, "idle") /\ req[c].psk # 0
  BY <1>0, <1>1, AtKey
<1>3. PICK p \in {"ensAfter", "ensAdd", "ensGuard", "ensDelete"} :
        /\ Read(c, p)
        /\ p = "ensAfter" => profile[n] = req[c].psk
        /\ p \in {"ensGuard", "ensDelete"} => profile[n] # 0
        /\ p = "ensDelete" => ~NeedsGuard(n)
  <2> DEFINE g == IF NeedsGuard(n) THEN "ensGuard" ELSE "ensDelete"
  <2>1. \/ profile[n] = req[c].psk /\ Read(c, "ensAfter")
        \/ profile[n] = 0 /\ Read(c, "ensAdd")
        \/ profile[n] \notin {0, req[c].psk} /\ Read(c, g)
    BY <1>1 DEF EnsureRead
  <2>2. CASE profile[n] \notin {0, req[c].psk} /\ Read(c, g)
    <3>1. g \in {"ensGuard", "ensDelete"} /\ (g = "ensDelete" => ~NeedsGuard(n))
      OBVIOUS
    <3> HIDE DEF g
    <3> QED BY <2>2, <3>1
  <2> QED BY <2>1, <2>2
<1>4. /\ req' \in [Callers -> Requests]
      /\ \A d \in Callers \ {c} : req'[d] = req[d]
      /\ req'[c].pc = p /\ SameOwn(c)
  BY <1>0, <1>3, ReadMoves DEF Points, AtController, SameOwn
<1>5. UNCHANGED <<row, adm, wifi, profile, placeholder, told, escaped, unsettled>>
  BY <1>0 DEF registry, controller, history
<1>6. CallInv(c)' /\ RecordInv(c)' /\ PlacedInv(c)' /\ StageInv(c)'
  <2>1. req[c].pc \in Ensuring \ {"ensAfter", "ensClear"}
    BY <1>0 DEF At
  <2> QED BY <1>1, <1>3, <1>4, <1>5, <2>1, StillAtKey
<1>7. StaleInv(c)'
  <2>1. p = "ensDelete" => placeholder \/ \E m \in Names : m # n /\ profile[m] # 0
    BY <1>2, <1>3, NoGuardNeeded
  <2> QED BY <1>1, <1>2, <1>3, <1>4, <1>5, <2>1 DEF StaleInv, SameOwn, At, Name
<1>8. TypeOK'
  BY <1>0, <1>4, QuietTypes DEF TypeOK, bao
<1> QED BY <1>0, <1>2, <1>4, <1>6, <1>7, <1>8, QuietStep DEF Own, SameOwn

LEMMA RemoveReadInv ==
    ASSUME AdmissionInv, NEW c \in Callers, RemoveRead(c)
    PROVE  AdmissionInv'
<1>0. /\ At(c, "remRead") /\ req[c].pc \in Removing /\ TypeOK
      /\ UNCHANGED <<registry, controller, held, bao, process, history, spare, faults>>
  BY DEF RemoveRead, At, AdmissionInv, Removing
<1>1. PICK n : n = Name(c)
  OBVIOUS
<1>2. n \in Names /\ ~At(c, "idle") /\ req[c].op \in {"revoke", "deleteKey", "delete"}
  BY <1>0, <1>1, AtKey
<1>3. PICK p \in {Return(c), "remGuard", "remDelete"} :
        /\ Read(c, p)
        /\ \/ profile[n] = 0 /\ p = Return(c)
           \/ profile[n] # 0 /\ p \in {"remGuard", "remDelete"} /\ (p = "remDelete" => ~NeedsGuard(n))
  <2> DEFINE g == IF NeedsGuard(n) THEN "remGuard" ELSE "remDelete"
  <2>1. \/ profile[n] = 0 /\ Read(c, Return(c))
        \/ profile[n] # 0 /\ Read(c, g)
    BY <1>1, Zenon DEF RemoveRead
  <2>2. g \in {"remGuard", "remDelete"} /\ (g = "remDelete" => ~NeedsGuard(n))
    OBVIOUS
  <2> HIDE DEF g
  <2>3. CASE profile[n] = 0 /\ Read(c, Return(c))
    BY <2>3, Zenon
  <2>4. CASE profile[n] # 0 /\ Read(c, g)
    BY <2>2, <2>4, Zenon
  <2> QED BY <2>1, <2>3, <2>4, Zenon
<1>4. p \in Points
  BY <1>2, <1>3, ReturnIs DEF Points, AtController
<1>5. /\ req' \in [Callers -> Requests]
      /\ \A d \in Callers \ {c} : req'[d] = req[d]
      /\ req'[c].pc = p /\ SameOwn(c)
  BY <1>0, <1>3, <1>4, ReadMoves DEF SameOwn
<1>6. UNCHANGED <<row, adm, wifi, profile, placeholder, told, escaped, unsettled>>
  BY <1>0 DEF registry, controller, history
<1>7. TypeOK'
  BY <1>0, <1>5, QuietTypes DEF TypeOK, bao
<1>8. Own(c)'
  <2>1. CASE profile[n] = 0 /\ p = Return(c)
    BY <1>0, <1>1, <1>5, <1>6, <2>1, ReturnRemoved
  <2>2. CASE profile[n] # 0 /\ p \in {"remGuard", "remDelete"} /\ (p = "remDelete" => ~NeedsGuard(n))
    <3>1. CallInv(c)' /\ RecordInv(c)' /\ PlacedInv(c)' /\ StageInv(c)'
      <4>1. req'[c].pc \in Removing
        BY <1>5, <2>2 DEF Removing
      <4> QED BY <1>0, <1>5, <1>6, <4>1, StillAtKey
    <3>2. p = "remDelete" => placeholder \/ \E m \in Names : m # n /\ profile[m] # 0
      BY <1>2, <2>2, NoGuardNeeded
    <3>3. StaleInv(c)'
      BY <1>1, <1>2, <1>5, <1>6, <2>2, <3>2 DEF StaleInv, SameOwn, At, Name
    <3> QED BY <3>1, <3>3 DEF Own
  <2> QED BY <1>3, <2>1, <2>2
<1> QED BY <1>0, <1>2, <1>5, <1>7, <1>8, QuietStep DEF SameOwn

LEMMA EnsureAfterInv ==
    ASSUME AdmissionInv, NEW c \in Callers, EnsureAfter(c)
    PROVE  AdmissionInv'
<1>0. /\ At(c, "ensAfter") /\ req[c].pc \in Ensuring /\ TypeOK
      /\ UNCHANGED <<registry, controller, held, bao, process, history, spare, faults>>
  BY DEF EnsureAfter, At, AdmissionInv, Ensuring
<1>1. PICK n : n = Name(c)
  OBVIOUS
<1>2. n \in Names /\ ~At(c, "idle") /\ req[c].op \in {"admit", "createKey"} /\ Own(c)
  BY <1>0, <1>1, AtKey
<1>3. PICK p \in {Return(c), "ensClear"} : Goto(c, p) /\ (p = "ensClear" => placeholder)
  <2>1. IF placeholder THEN Goto(c, "ensClear") ELSE Goto(c, Return(c))
    BY DEF EnsureAfter
  <2>2. Return(c) # "ensClear"
    BY <1>2, ReturnIs
  <2> QED BY <2>1, <2>2
<1>4. p \in Points
  BY <1>2, <1>3, ReturnIs DEF Points, AtController
<1>5. /\ req' \in [Callers -> Requests]
      /\ \A d \in Callers \ {c} : req'[d] = req[d]
      /\ req'[c].pc = p /\ SameOwn(c) /\ req'[c].stale = req[c].stale
  BY <1>0, <1>3, <1>4, GotoMoves DEF SameOwn
<1>6. UNCHANGED <<row, adm, wifi, profile, placeholder, told, escaped, unsettled>>
  BY <1>0 DEF registry, controller, history
<1>7. TypeOK'
  BY <1>0, <1>5, QuietTypes DEF TypeOK, bao
<1>8. Own(c)'
  <2>1. CASE p = Return(c)
    BY <1>0, <1>5, <1>6, <2>1, ReturnPlaced DEF At
  <2>2. CASE p = "ensClear"
    <3>1. ~req[c].met => profile'[n] = req[c].psk
      BY <1>0, <1>1, <1>2, <1>6 DEF Own, PlacedInv, Placing, At
    <3>2. CallInv(c)' /\ RecordInv(c)' /\ PlacedInv(c)' /\ StageInv(c)'
      BY <1>0, <1>1, <1>5, <1>6, <2>2, <3>1, StillAtKey
    <3>3. StaleInv(c)'
      BY <1>0, <1>2, <1>3, <1>5, <1>6, <2>2 DEF Own, StaleInv, SameOwn, At, Name
    <3> QED BY <3>2, <3>3 DEF Own
  <2> QED BY <1>3, <2>1, <2>2
<1> QED BY <1>0, <1>2, <1>5, <1>7, <1>8, QuietStep DEF SameOwn
-----------------------------------------------------------------------------
(* Writes to the profile.                                                    *)

LEMMA HandedType ==
    ASSUME AdmissionInv, NEW c \in Callers, ~At(c, "idle")
    PROVE  Handed(c) \in [Names -> [enrol : {"none", "live", "spent"}, tok : Secrets, psk : Secrets]]
<1> DEFINE H == [enrol : {"none", "live", "spent"}, tok : Secrets, psk : Secrets]
<1>1. held \in [Names -> H] /\ req[c].psk \in Secrets /\ Name(c) \in Names
  BY Facts DEF TypeOK, Requests
<1>2. [held EXCEPT ![Name(c)].psk = req[c].psk] \in [Names -> H]
  <2> QED BY <1>1
<1> QED BY <1>1, <1>2 DEF Handed

\* The controller refuses: the call stops where it is.
LEMMA HalfDoneInv ==
    ASSUME AdmissionInv, NEW c \in Callers, ~At(c, "idle"), HalfDone(c),
           UNCHANGED <<registry, controller, bao, process, told, escaped, spare, faults>>
    PROVE  AdmissionInv'
<1>1. Fails(c) /\ held' = Handed(c) /\ unsettled' = unsettled \cup {Name(c)} /\ TypeOK
  BY DEF HalfDone, AdmissionInv
<1>2. UNCHANGED <<row, adm, wifi, profile, placeholder, sealed, refused, told, escaped, faults>>
  BY DEF registry, controller, bao
<1>3. TypeOK'
  <2>1. held' \in [Names -> [enrol : {"none", "live", "spent"}, tok : Secrets, psk : Secrets]]
    BY <1>1, HandedType
  <2>2. unsettled' \subseteq Names
    BY <1>1, Facts DEF TypeOK
  <2>3. req' \in [Callers -> Requests]
    BY <1>1, FailsMoves
  <2> QED BY <1>1, <1>2, <2>1, <2>2, <2>3, CallTypes DEF TypeOK
<1> QED BY <1>1, <1>3, EndsHalfDone

\* A write lands: of the name, only its key in the controller is another, and
\* a key that is there has a record.
LEMMA WriteLands ==
    ASSUME AdmissionInv, NEW c \in Callers, req[c].pc \in Ensuring \cup Removing, NEW p \in Points, Wrote(c, p),
           UNCHANGED <<registry, held, bao, process, history, spare, faults>>,
           placeholder' \in BOOLEAN, profile' \in [Names -> Secrets],
           \A m \in Names \ {Name(c)} : profile'[m] = profile[m],
           profile'[Name(c)] # 0 /\ Name(c) \notin escaped => HasRecord(Name(c)),
           Own(c)'
    PROVE  AdmissionInv'
<1>1. PICK n : n = Name(c)
  OBVIOUS
<1>2. ~At(c, "idle") /\ TypeOK /\ NameInv(n) /\ told[n] = None /\ n \in Names
  BY <1>1, AtKey
<1>3. req' \in [Callers -> Requests] /\ CallFrame(c) /\ req'[c].name = n
  BY <1>1, <1>2, WroteMoves DEF Name
<1>4. NameFrame(c)
  BY QuietFrame
<1>5. UNCHANGED <<row, adm, wifi, told, escaped, unsettled>>
  BY DEF registry, history
<1>6. NameInv(n)'
  BY <1>1, <1>2, <1>3, <1>5 DEF NameInv, HasRecord, Registered, Name
<1>7. TypeOK'
  BY <1>2, <1>3, <1>5 DEF TypeOK, Requests, bao, process
<1> QED BY <1>1, <1>2, <1>3, <1>4, <1>6, <1>7, StepKeeps

LEMMA AddPlaceholderInv ==
    ASSUME AdmissionInv, NEW c \in Callers, AddPlaceholder(c)
    PROVE  AdmissionInv'
<1>0. /\ req[c].pc \in {"ensGuard", "remGuard"} /\ req[c].pc \in Ensuring \cup Removing
      /\ UNCHANGED <<registry, profile, bao, process, told, escaped, spare, faults>>
  BY DEF AddPlaceholder, At, Ensuring, Removing
<1>1. PICK n : n = Name(c)
  OBVIOUS
<1>2. ~At(c, "idle") /\ TypeOK /\ NameInv(n) /\ n \in Names /\ Own(c)
  BY <1>0, <1>1, AtKey
<1>3. CASE placeholder
  <2>1. HalfDone(c) /\ UNCHANGED placeholder
    BY <1>3 DEF AddPlaceholder
  <2> QED BY <1>0, <1>2, <2>1, HalfDoneInv DEF controller
<1>4. CASE ~placeholder
  <2>1. PICK p \in {"ensDelete", "remDelete"} :
          Wrote(c, p) /\ (p = "ensDelete" <=> req[c].pc = "ensGuard")
    BY <1>4 DEF AddPlaceholder, At
  <2>2. placeholder' = TRUE /\ UNCHANGED <<held, unsettled>>
    BY <1>4 DEF AddPlaceholder
  <2>3. req'[c].pc = p /\ SameOwn(c) /\ req'[c].stale = req[c].stale
    BY <1>2, <2>1, WroteMoves DEF SameOwn, Points, AtController
  <2>4. UNCHANGED <<row, adm, wifi, profile, told, escaped, unsettled>>
    BY <1>0, <2>2 DEF registry
  <2>5. CallInv(c)' /\ RecordInv(c)' /\ PlacedInv(c)' /\ StageInv(c)'
    <3>1. \/ req[c].pc \in Ensuring \ {"ensAfter", "ensClear"} /\ req'[c].pc \in {"ensGuard", "ensDelete", "ensAdd"}
          \/ req[c].pc \in Removing /\ req'[c].pc \in Removing
      BY <1>0, <2>1, <2>3 DEF Ensuring, Removing
    <3> QED BY <2>3, <2>4, <3>1, StillAtKey
  <2>6. StaleInv(c)'
    BY <1>0, <1>2, <2>1, <2>2, <2>3, <2>4 DEF Own, StaleInv, SameOwn, At, Name
  <2>7. profile' \in [Names -> Secrets] /\ (profile'[n] # 0 /\ n \notin escaped => HasRecord(n))
    BY <1>2, <2>4 DEF TypeOK, NameInv
  <2>8. p \in Points
    BY DEF Points, AtController
  <2>9. UNCHANGED <<registry, held, bao, process, history, spare, faults>>
    BY <1>0, <2>2 DEF history
  <2> QED BY <1>0, <1>1, <2>1, <2>2, <2>4, <2>5, <2>6, <2>7, <2>8, <2>9, WriteLands DEF Own
<1> QED BY <1>3, <1>4

LEMMA ClearPlaceholderInv ==
    ASSUME AdmissionInv, NEW c \in Callers, ClearPlaceholder(c)
    PROVE  AdmissionInv'
<1>0. /\ req[c].pc = "ensClear" /\ req[c].pc \in Ensuring \cup Removing
      /\ UNCHANGED <<registry, profile, bao, process, told, escaped, spare, faults>>
  BY DEF ClearPlaceholder, At, Ensuring, Removing
<1>1. PICK n : n = Name(c)
  OBVIOUS
<1>2. ~At(c, "idle") /\ TypeOK /\ NameInv(n) /\ n \in Names /\ req[c].op \in {"admit", "createKey"}
  BY <1>0, <1>1, AtKey DEF Ensuring
<1>3. CASE Refuses(c)
  <2>1. HalfDone(c) /\ UNCHANGED placeholder
    BY <1>3 DEF ClearPlaceholder
  <2> QED BY <1>0, <1>2, <2>1, HalfDoneInv DEF controller
<1>4. CASE ~Refuses(c)
  <2>1. placeholder' = FALSE /\ Wrote(c, Return(c)) /\ UNCHANGED <<held, unsettled>>
    BY <1>4 DEF ClearPlaceholder
  <2>2. PICK p \in Points : p = Return(c)
    BY <1>2, ReturnIs DEF Points
  <2>3. req'[c].pc = Return(c) /\ SameOwn(c)
    BY <1>2, <2>1, <2>2, WroteMoves DEF SameOwn
  <2>4. UNCHANGED <<row, adm, wifi, profile, told, escaped, unsettled>>
    BY <1>0, <2>1 DEF registry
  <2>5. Own(c)'
    BY <1>0, <2>3, <2>4, ReturnPlaced
  <2>6. profile' \in [Names -> Secrets] /\ (profile'[n] # 0 /\ n \notin escaped => HasRecord(n))
    BY <1>2, <2>4 DEF TypeOK, NameInv
  <2>7. UNCHANGED <<registry, held, bao, process, history, spare, faults>>
    BY <1>0, <2>1 DEF history
  <2> QED BY <1>0, <1>1, <2>1, <2>2, <2>4, <2>5, <2>6, <2>7, WriteLands
<1> QED BY <1>3, <1>4

LEMMA AddKeyInv ==
    ASSUME AdmissionInv, NEW c \in Callers, AddKey(c)
    PROVE  AdmissionInv'
<1>0. /\ req[c].pc = "ensAdd" /\ req[c].pc \in Ensuring
      /\ UNCHANGED <<registry, placeholder, bao, process, told, escaped, spare, faults>>
  BY DEF AddKey, At, Ensuring
<1>1. PICK n : n = Name(c)
  OBVIOUS
<1>2. /\ ~At(c, "idle") /\ TypeOK /\ NameInv(n) /\ n \in Names /\ Own(c)
      /\ req[c].op \in {"admit", "createKey"} /\ req[c].psk # 0
  BY <1>0, <1>1, AtKey
<1>3. CASE profile[n] # 0
  <2>1. HalfDone(c) /\ UNCHANGED profile
    BY <1>1, <1>3 DEF AddKey
  <2> QED BY <1>0, <1>2, <2>1, HalfDoneInv DEF controller
<1>4. CASE profile[n] = 0
  <2>1. profile' = [profile EXCEPT ![n] = req[c].psk] /\ Wrote(c, "ensAfter") /\ UNCHANGED <<held, unsettled>>
    BY <1>1, <1>4 DEF AddKey
  <2>2. req'[c].pc = "ensAfter" /\ SameOwn(c) /\ req'[c].stale = req[c].stale
    BY <1>2, <2>1, WroteMoves DEF SameOwn, Points, AtController
  <2>3. req[c].psk \in Secrets
    BY <1>2, RequestsType DEF Requests
  <2>4. /\ profile' \in [Names -> Secrets] /\ profile'[n] = req[c].psk
        /\ \A m \in Names \ {n} : profile'[m] = profile[m]
    BY <1>2, <2>1, <2>3 DEF TypeOK
  <2>5. n \notin escaped => HasRecord(n)
    BY <1>0, <1>1, <1>2 DEF Own, RecordInv, Placing
  <2>6. UNCHANGED <<row, adm, wifi, told, escaped, unsettled>>
    BY <1>0, <2>1 DEF registry
  <2>7. CallInv(c)' /\ RecordInv(c)' /\ PlacedInv(c)' /\ StageInv(c)'
    BY <1>0, <1>1, <2>2, <2>4, <2>6, StillAtKey
  <2>8. StaleInv(c)'
    BY <1>1, <1>2, <2>2, <2>4 DEF StaleInv, SameOwn, At, Name
  <2>9. UNCHANGED <<registry, held, bao, process, history, spare, faults>> /\ placeholder' \in BOOLEAN
    BY <1>0, <1>2, <2>1 DEF history, TypeOK
  <2>10. "ensAfter" \in Points
    BY DEF Points, AtController
  <2> QED BY <1>0, <1>1, <2>1, <2>4, <2>5, <2>7, <2>8, <2>9, <2>10, WriteLands DEF Own
<1> QED BY <1>3, <1>4

LEMMA DeleteKeyInv ==
    ASSUME AdmissionInv, NEW c \in Callers, DeleteKey(c)
    PROVE  AdmissionInv'
<1>0. /\ req[c].pc \in {"ensDelete", "remDelete"} /\ req[c].pc \in Ensuring \cup Removing
      /\ UNCHANGED <<registry, placeholder, bao, process, told, escaped, spare, faults>>
  BY DEF DeleteKey, At, Ensuring, Removing
<1>1. PICK n : n = Name(c)
  OBVIOUS
<1>2. /\ ~At(c, "idle") /\ TypeOK /\ NameInv(n) /\ n \in Names /\ Own(c)
      /\ req[c].pc \in Removing => req[c].op \in {"revoke", "deleteKey", "delete"}
  BY <1>0, <1>1, AtKey
<1>3. CASE Refuses(c)
  <2>1. HalfDone(c) /\ UNCHANGED profile
    BY <1>3 DEF DeleteKey
  <2> QED BY <1>0, <1>2, <2>1, HalfDoneInv DEF controller
<1>4. CASE ~Refuses(c)
  <2>1. profile' = [profile EXCEPT ![n] = 0] /\ UNCHANGED <<held, unsettled>>
    BY <1>1, <1>4 DEF DeleteKey
  <2>2. IF req[c].pc = "ensDelete" THEN Wrote(c, "ensAdd") ELSE Wrote(c, Return(c))
    BY <1>4 DEF DeleteKey, At
  <2>3. PICK p \in Points : Wrote(c, p) /\ p = IF req[c].pc = "ensDelete" THEN "ensAdd" ELSE Return(c)
    <3>1. req[c].pc # "ensDelete" => Return(c) \in Points
      BY <1>0, <1>2, ReturnIs DEF Points, Removing
    <3>2. "ensAdd" \in Points
      BY DEF Points, AtController
    <3> QED BY <2>2, <3>1, <3>2
  <2>4. req'[c].pc = p /\ SameOwn(c)
    BY <1>2, <2>3, WroteMoves DEF SameOwn
  <2>5. /\ profile' \in [Names -> Secrets] /\ profile'[n] = 0
        /\ \A m \in Names \ {n} : profile'[m] = profile[m]
    BY <1>2, <2>1, AdmissionAssumption DEF TypeOK, Secrets
  <2>6. UNCHANGED <<row, adm, wifi, told, escaped, unsettled>>
    BY <1>0, <2>1 DEF registry
  <2>7. Own(c)'
    <3>1. CASE req[c].pc = "ensDelete"
      <4>1. CallInv(c)' /\ RecordInv(c)' /\ PlacedInv(c)' /\ StageInv(c)'
        BY <2>3, <2>4, <2>6, <3>1, StillAtKey DEF Ensuring
      <4>2. StaleInv(c)'
        BY <2>3, <2>4, <3>1 DEF StaleInv, At
      <4> QED BY <4>1, <4>2 DEF Own
    <3>2. CASE req[c].pc = "remDelete"
      <4>1. req[c].pc \in Removing /\ req'[c].pc = Return(c)
        BY <2>3, <2>4, <3>2 DEF Removing
      <4> QED BY <1>1, <2>4, <2>5, <2>6, <4>1, ReturnRemoved
    <3> QED BY <1>0, <3>1, <3>2
  <2>8. UNCHANGED <<registry, held, bao, process, history, spare, faults>> /\ placeholder' \in BOOLEAN
    BY <1>0, <1>2, <2>1 DEF history, TypeOK
  <2> QED BY <1>0, <1>1, <2>3, <2>5, <2>7, <2>8, WriteLands
<1> QED BY <1>3, <1>4
-----------------------------------------------------------------------------
(* Writes to the registry.                                                   *)

Rows == {NoRow} \cup [status : {"provisioning", "ready", "deleting"}, tok : Secrets \ {0}]
Keys == {NoKey} \cup [status : {"provisioning", "ready"}, psk : Secrets \ {0}]

LEMMA RegistryTypes ==
    ASSUME TypeOK
    PROVE  row \in [Names -> Rows] /\ adm \in [Names -> Secrets] /\ wifi \in [Names -> Keys]
BY DEF TypeOK, Rows, Keys

\* The call goes on, and the others are as they were.
Proceeds(c) ==
    /\ req' \in [Callers -> Requests] /\ \A d \in Callers \ {c} : req'[d] = req[d]
    /\ req'[c].name = req[c].name /\ req'[c].op = req[c].op /\ req'[c].met = req[c].met

LEMMA RecordLands ==
    ASSUME AdmissionInv, NEW c \in Callers, ~At(c, "idle"), NEW n, n = Name(c), Proceeds(c),
           UNCHANGED <<controller, held, process, told, unsettled, spare>>,
           sealed' \in BOOLEAN, refused' \in BOOLEAN, faults' \in 0 .. MaxFaults,
           row' \in [Names -> Rows], adm' \in [Names -> Secrets], wifi' \in [Names -> Keys],
           \A m \in Names \ {n} : row'[m] = row[m] /\ adm'[m] = adm[m] /\ wifi'[m] = wifi[m],
           escaped' \in {escaped, escaped \cup {n}},
           req[c].met /\ n \notin escaped' /\ HasRecord(n) => HasRecord(n)',
           n \notin escaped' /\ profile[n] # 0 => HasRecord(n)',
           row'[n].status # "absent" \/ wifi'[n] = NoKey,
           Own(c)'
    PROVE  AdmissionInv'
<1>1. TypeOK /\ n \in Names /\ NameInv(n)
  BY Facts
<1>2. UNCHANGED <<profile, placeholder>>
  BY DEF controller
<1>3. CallFrame(c)
  BY MovesFrame DEF Proceeds, GoesOn
<1>4. NameFrame(c)
  <2>1. \A m \in Names \ {n} : m \in escaped' <=> m \in escaped
    OBVIOUS
  <2>2. \A m \in Names \ {Name(c)} : SameName(m)
    BY <1>2, <2>1 DEF SameName
  <2> QED BY <2>2 DEF NameFrame
<1>5. TypeOK'
  <2>1. escaped' \subseteq Names
    BY <1>1 DEF TypeOK
  <2> QED BY <1>1, <1>2, <2>1, CallTypes DEF TypeOK, Rows, Keys, Proceeds
<1>6. req'[c].name = n
  BY DEF Proceeds, Name
<1>7. NameInv(n)'
  BY <1>1, <1>2, <1>6 DEF NameInv, Registered, Name
<1> QED BY <1>3, <1>4, <1>5, <1>7, StepKeeps

LEMMA TokenOfType ==
    ASSUME AdmissionInv, NEW c \in Callers, req[c].pc \in {"insert", "secrets"}
    PROVE  TokenOf(c) \in Secrets \ {0}
<1>1. ~At(c, "idle")
  BY DEF At
<1>2. req[c].supplied => req[c].tok # 0
  BY <1>1, Facts DEF Own, CallInv
<1>3. req[c].tok \in Secrets
  BY <1>1, Facts DEF Requests
<1>4. MintToken(Name(c)) \in Secrets \ {0}
  BY NewSecrets DEF AdmissionInv
<1> QED BY <1>2, <1>3, <1>4 DEF TokenOf

\* A create writes its row.
LEMMA RowLands ==
    ASSUME AdmissionInv, NEW c \in Callers, req[c].pc \in {"insert", "secrets", "build"},
           NEW n, n = Name(c), Proceeds(c),
           UNCHANGED <<adm, wifi, escaped, controller, held, process, told, unsettled, spare>>,
           sealed' \in BOOLEAN, refused' \in BOOLEAN, faults' \in 0 .. MaxFaults,
           row' \in [Names -> Rows], \A m \in Names \ {n} : row'[m] = row[m],
           row'[n].status # "absent" \/ row'[n] = row[n],
           \/ /\ req'[c].pc = "build" /\ req'[c].adopts = req[c].adopts
              /\ row'[n].status \in {"provisioning", row[n].status}
           \/ req'[c].pc = "answer" /\ (row'[n].status = "ready" => req[c].adopts = "no")
           \/ req'[c].pc = "adoptGet"
    PROVE  AdmissionInv'
<1>1. ~At(c, "idle") /\ req[c].op = "create"
  BY OpAt DEF At
<1>2. Own(c) /\ n \in Names /\ NameInv(n) /\ TypeOK
  BY <1>1, Facts
<1>3. req'[c].op = "create" /\ req'[c].name = n /\ req'[c].met = req[c].met
  BY <1>1 DEF Proceeds, Name
<1>4. UNCHANGED profile
  BY DEF controller
<1>5. CallInv(c)'
  BY <1>1, <1>2, <1>3 DEF Own, CallInv, Fits, At, Name, Touches, Withdrawing
<1>6. RecordInv(c)' /\ PlacedInv(c)' /\ StaleInv(c)'
  BY <1>3 DEF RecordInv, PlacedInv, StaleInv, Placing, Withdrawing, At
<1>7. n \notin unsettled => Agreed(n) /\ (req[c].adopts = "no" => adm[n] = 0)
  BY <1>1, <1>2 DEF Own, StageInv, AgreedPoints
<1>8. StageInv(c)'
  BY <1>3, <1>4, <1>7 DEF StageInv, AgreedPoints, Agreed, Adoptable, Name
<1>9. /\ n \notin escaped' /\ profile[n] # 0 => HasRecord(n)'
      /\ HasRecord(n) => HasRecord(n)'
      /\ row'[n].status # "absent" \/ wifi'[n] = NoKey
  BY <1>2 DEF NameInv, HasRecord, Registered
<1>10. adm' \in [Names -> Secrets] /\ wifi' \in [Names -> Keys]
  BY <1>2, RegistryTypes
<1> QED BY <1>1, <1>5, <1>6, <1>8, <1>9, <1>10, RecordLands DEF Own

LEMMA DoTypes ==
    ASSUME TypeOK, Do
    PROVE  sealed' \in BOOLEAN /\ refused' \in BOOLEAN
BY DEF TypeOK, Do

LEMMA InsertInv ==
    ASSUME AdmissionInv, NEW c \in Callers, Insert(c)
    PROVE  AdmissionInv'
<1>0. /\ req[c].pc = "insert" /\ TypeOK /\ Do
      /\ UNCHANGED <<adm, wifi, controller, held, process, history, spare, faults>>
  BY DEF Insert, At, AdmissionInv
<1>1. PICK n : n = Name(c)
  OBVIOUS
<1>2. PICK k \in Secrets \ {0} : k = TokenOf(c)
  BY <1>0, TokenOfType
<1>3. sealed' \in BOOLEAN /\ refused' \in BOOLEAN /\ faults' \in 0 .. MaxFaults
  BY <1>0, DoTypes DEF TypeOK
<1>4. CASE Registered(n)
  <2>1. Fails(c) /\ UNCHANGED registry
    BY <1>0, <1>1, <1>4 DEF Insert, registry
  <2>2. TypeOK'
    BY <1>0, <1>3, <2>1, FailsMoves, QuietTypes DEF TypeOK
  <2> QED BY <1>0, <2>1, <2>2, EndsAgreed DEF AgreedPoints
<1>5. CASE ~Registered(n)
  <2>1. /\ row' = [row EXCEPT ![n] = [status |-> "provisioning", tok |-> k]]
        /\ TakesToken(c, "build", k)
    BY <1>1, <1>2, <1>5, Zenon DEF Insert, TakesToken
  <2>2. Proceeds(c) /\ req'[c].pc = "build" /\ req'[c].adopts = req[c].adopts
    BY <1>0, <2>1, TokenMoves DEF Proceeds, Points
  <2>3. n \in Names
    BY <1>0, <1>1, Facts DEF At
  <2>4. /\ row' \in [Names -> Rows] /\ row'[n].status = "provisioning"
        /\ \A m \in Names \ {n} : row'[m] = row[m]
    BY <1>0, <2>1, <2>3, RegistryTypes DEF Rows
  <2>5. UNCHANGED <<told, escaped, unsettled>>
    BY <1>0 DEF history
  <2> QED BY <1>0, <1>1, <1>3, <2>2, <2>4, <2>5, RowLands
<1> QED BY <1>4, <1>5

LEMMA SetSecretsInv ==
    ASSUME AdmissionInv, NEW c \in Callers, SetSecrets(c)
    PROVE  AdmissionInv'
<1>0. /\ req[c].pc = "secrets" /\ TypeOK /\ Do
      /\ UNCHANGED <<adm, wifi, controller, held, process, history, spare, faults>>
  BY DEF SetSecrets, At, AdmissionInv
<1>1. PICK n : n = Name(c)
  OBVIOUS
<1>2. PICK k \in Secrets \ {0} : k = TokenOf(c)
  BY <1>0, TokenOfType
<1>3. sealed' \in BOOLEAN /\ refused' \in BOOLEAN /\ faults' \in 0 .. MaxFaults
  BY <1>0, DoTypes DEF TypeOK
<1>4. CASE ~Registered(n)
  <2>1. CreateFails(c) /\ UNCHANGED registry
    BY <1>0, <1>1, <1>4, Zenon DEF SetSecrets, registry
  <2> QED BY <1>0, <1>3, <2>1, CreateFailsInv
<1>5. CASE Registered(n)
  <2>1. /\ row' = [row EXCEPT ![n].tok = k]
        /\ TakesToken(c, "build", k)
    BY <1>1, <1>2, <1>5, Zenon DEF SetSecrets, TakesToken
  <2>2. Proceeds(c) /\ req'[c].pc = "build" /\ req'[c].adopts = req[c].adopts
    BY <1>0, <2>1, TokenMoves DEF Proceeds, Points
  <2>3. n \in Names
    BY <1>0, <1>1, Facts DEF At
  <2>4. row[n] \in [status : {"provisioning", "ready", "deleting"}, tok : Secrets \ {0}]
    BY <1>0, <1>5, <2>3, RegistryTypes DEF Rows, Registered, NoRow
  <2>5. /\ row' \in [Names -> Rows] /\ row'[n].status = row[n].status /\ row'[n].status # "absent"
        /\ \A m \in Names \ {n} : row'[m] = row[m]
    BY <1>0, <2>1, <2>3, <2>4, RegistryTypes DEF Rows
  <2>6. UNCHANGED <<told, escaped, unsettled>>
    BY <1>0 DEF history
  <2> QED BY <1>0, <1>1, <1>3, <2>2, <2>5, <2>6, RowLands
<1> QED BY <1>4, <1>5

LEMMA StatusRow ==
    ASSUME TypeOK, NEW n \in Names, Registered(n), NEW s \in {"provisioning", "ready", "deleting"},
           row' = [row EXCEPT ![n].status = s]
    PROVE  /\ row' \in [Names -> Rows] /\ row'[n].status = s
           /\ \A m \in Names \ {n} : row'[m] = row[m]
<1>1. row[n] \in [status : {"provisioning", "ready", "deleting"}, tok : Secrets \ {0}]
  BY RegistryTypes DEF Rows, Registered, NoRow
<1> QED BY <1>1, RegistryTypes DEF Rows

LEMMA BuiltInv ==
    ASSUME AdmissionInv, NEW c \in Callers, Built(c)
    PROVE  AdmissionInv'
<1>0. /\ req[c].pc = "build" /\ TypeOK
      /\ UNCHANGED <<adm, wifi, controller, held, bao, process, history, spare, faults>>
  BY DEF Built, At, AdmissionInv
<1>1. PICK n : n = Name(c)
  OBVIOUS
<1>2. n \in Names
  BY <1>0, <1>1, Facts DEF At
<1>3. sealed' \in BOOLEAN /\ refused' \in BOOLEAN /\ faults' \in 0 .. MaxFaults
  BY <1>0 DEF TypeOK, bao
<1>4. CASE ~Registered(n)
  <2>1. CreateFails(c) /\ UNCHANGED registry
    BY <1>0, <1>1, <1>4, Zenon DEF Built, registry
  <2> QED BY <1>0, <1>3, <2>1, CreateFailsInv
<1>5. CASE Registered(n)
  <2>1. row' = [row EXCEPT ![n].status = "ready"]
    BY <1>1, <1>5 DEF Built
  <2>2. PICK p \in {"answer", "adoptGet"} : Goto(c, p) /\ (p = "answer" <=> req[c].adopts = "no")
    BY <1>1, <1>5 DEF Built
  <2>3. Proceeds(c) /\ req'[c].pc = p
    BY <1>0, <2>2, GotoMoves DEF Proceeds, Points
  <2>4. /\ row' \in [Names -> Rows] /\ row'[n].status = "ready"
        /\ \A m \in Names \ {n} : row'[m] = row[m]
    BY <1>0, <1>2, <1>5, <2>1, StatusRow
  <2>5. UNCHANGED <<told, escaped, unsettled>>
    BY <1>0 DEF history
  <2> QED BY <1>0, <1>1, <1>3, <2>2, <2>3, <2>4, <2>5, RowLands
<1> QED BY <1>4, <1>5

LEMMA BuildFailsInv ==
    ASSUME AdmissionInv, NEW c \in Callers, BuildFails(c)
    PROVE  AdmissionInv'
<1>0. /\ req[c].pc = "build" /\ TypeOK /\ Fault
      /\ UNCHANGED <<adm, wifi, controller, held, bao, process, history, spare>>
  BY DEF BuildFails, At, AdmissionInv, Fault
<1>1. PICK n : n = Name(c)
  OBVIOUS
<1>2. n \in Names
  BY <1>0, <1>1, Facts DEF At
<1>3. sealed' \in BOOLEAN /\ refused' \in BOOLEAN /\ faults' \in 0 .. MaxFaults
  BY <1>0, FaultType DEF TypeOK, bao
<1>4. PICK p \in {"answer", "adoptGet"} : Goto(c, p)
  BY DEF BuildFails
<1>5. Proceeds(c) /\ req'[c].pc = p
  BY <1>0, <1>4, GotoMoves DEF Proceeds, Points
<1>6. /\ row' \in [Names -> Rows]
      /\ \A m \in Names \ {n} : row'[m] = row[m]
      /\ \/ row'[n].status = "provisioning"
         \/ row'[n] = row[n] /\ row[n].status = "absent"
  <2>1. CASE Registered(n)
    <3>1. row' = [row EXCEPT ![n].status = "provisioning"]
      BY <1>1, <2>1 DEF BuildFails
    <3> QED BY <1>0, <1>2, <2>1, <3>1, StatusRow
  <2>2. CASE ~Registered(n)
    BY <1>0, <1>1, <2>2, RegistryTypes DEF BuildFails, Registered
  <2> QED BY <2>1, <2>2
<1>7. UNCHANGED <<told, escaped, unsettled>>
  BY <1>0 DEF history
<1> QED BY <1>0, <1>1, <1>3, <1>4, <1>5, <1>6, <1>7, RowLands

LEMMA MarkInv ==
    ASSUME AdmissionInv, NEW c \in Callers, Mark(c)
    PROVE  AdmissionInv'
<1>0. /\ req[c].pc = "mark" /\ TypeOK /\ ~At(c, "idle")
      /\ UNCHANGED <<adm, wifi, controller, held, bao, process, history, spare, faults>>
  BY DEF Mark, At, AdmissionInv
<1>1. PICK n : n = Name(c)
  OBVIOUS
<1>2. n \in Names /\ Own(c) /\ NameInv(n) /\ req[c].op = "delete"
  BY <1>0, <1>1, Facts, OpAt
<1>3. sealed' \in BOOLEAN /\ refused' \in BOOLEAN /\ faults' \in 0 .. MaxFaults
  BY <1>0 DEF TypeOK, bao
<1>4. CASE ~Registered(n)
  <2>1. Fails(c) /\ UNCHANGED registry
    BY <1>0, <1>1, <1>4 DEF Mark, registry
  <2>2. TypeOK'
    BY <1>0, <1>3, <2>1, FailsMoves, QuietTypes DEF TypeOK
  <2> QED BY <1>0, <2>1, <2>2, EndsAgreed DEF AgreedPoints
<1>5. CASE Registered(n)
  <2>1. row' = [row EXCEPT ![n].status = "deleting"] /\ Goto(c, "list")
    BY <1>1, <1>5 DEF Mark
  <2>2. Proceeds(c) /\ req'[c].pc = "list"
    BY <1>0, <2>1, GotoMoves DEF Proceeds, Points
  <2>3. /\ row' \in [Names -> Rows] /\ row'[n].status = "deleting"
        /\ \A m \in Names \ {n} : row'[m] = row[m]
    BY <1>0, <1>2, <1>5, <2>1, StatusRow
  <2>4. UNCHANGED <<told, escaped, unsettled, profile>>
    BY <1>0 DEF history, controller
  <2>5. req'[c].op = "delete" /\ req'[c].name = n /\ req'[c].met = req[c].met
    BY <1>1, <1>2, <2>2 DEF Proceeds, Name
  <2>6. CallInv(c)'
    BY <1>0, <1>1, <1>2, <2>2, <2>4, <2>5 DEF Own, CallInv, Fits, At, Name, Touches, Withdrawing
  <2>7. RecordInv(c)' /\ PlacedInv(c)' /\ StaleInv(c)'
    BY <2>2, <2>5 DEF RecordInv, PlacedInv, StaleInv, Placing, Withdrawing, At
  <2>8. n \notin unsettled => Agreed(n)
    BY <1>0, <1>1, <1>2 DEF Own, StageInv, AgreedPoints
  <2>9. StageInv(c)'
    BY <1>0, <2>2, <2>3, <2>4, <2>5, <2>8 DEF StageInv, AgreedPoints, Agreed, Adoptable, Removing, Name
  <2>10. /\ n \notin escaped' /\ profile[n] # 0 => HasRecord(n)'
         /\ HasRecord(n) => HasRecord(n)'
    BY <1>0, <1>2, <2>4 DEF NameInv, HasRecord
  <2>11. adm' \in [Names -> Secrets] /\ wifi' \in [Names -> Keys]
    BY <1>0, RegistryTypes
  <2> QED BY <1>0, <1>1, <1>3, <2>2, <2>3, <2>4, <2>6, <2>7, <2>9, <2>10, <2>11, RecordLands DEF Own
<1> QED BY <1>4, <1>5

\* The step that drops a record tells of it when the call met another.
LEMMA DropsRecord ==
    ASSUME NEW c, NEW n, n = Name(c), RecordDropped(c)
    PROVE  /\ escaped' \in {escaped, escaped \cup {n}}
           /\ n \notin escaped' => n \notin escaped /\ ~req[c].met
BY DEF RecordDropped

LEMMA DropTenantInv ==
    ASSUME AdmissionInv, NEW c \in Callers, DropTenant(c)
    PROVE  AdmissionInv'
<1>0. /\ req[c].pc = "dropTenant" /\ TypeOK /\ ~At(c, "idle")
      /\ Goto(c, "answer") /\ RecordDropped(c)
      /\ UNCHANGED <<adm, controller, held, bao, process, told, unsettled, spare, faults>>
  BY DEF DropTenant, At, AdmissionInv
<1>1. PICK n : n = Name(c)
  OBVIOUS
<1>2. n \in Names /\ Own(c) /\ NameInv(n) /\ req[c].op = "delete" /\ (n \notin unsettled => ~req[c].met)
  BY <1>0, <1>1, Facts, OpAt
<1>3. sealed' \in BOOLEAN /\ refused' \in BOOLEAN /\ faults' \in 0 .. MaxFaults
  BY <1>0 DEF TypeOK, bao
<1>4. row' = [row EXCEPT ![n] = NoRow] /\ wifi' = [wifi EXCEPT ![n] = NoKey]
  BY <1>1 DEF DropTenant
<1>5. /\ row' \in [Names -> Rows] /\ wifi' \in [Names -> Keys] /\ adm' \in [Names -> Secrets]
      /\ row'[n] = NoRow /\ wifi'[n] = NoKey /\ adm'[n] = adm[n]
      /\ \A m \in Names \ {n} : row'[m] = row[m] /\ wifi'[m] = wifi[m] /\ adm'[m] = adm[m]
  BY <1>0, <1>2, <1>4, RegistryTypes DEF Rows, Keys
<1>6. Proceeds(c) /\ req'[c].pc = "answer"
  BY <1>0, GotoMoves DEF Proceeds, Points
<1>7. req'[c].op = "delete" /\ req'[c].name = n /\ req'[c].met = req[c].met
  BY <1>1, <1>2, <1>6 DEF Proceeds, Name
<1>8. UNCHANGED profile
  BY <1>0 DEF controller
<1>9. /\ escaped' \in {escaped, escaped \cup {n}}
      /\ n \notin escaped' => n \notin escaped /\ ~req[c].met
  BY <1>0, <1>1, DropsRecord
<1>10. n \notin escaped' => profile[n] = 0 \/ adm[n] # 0
  BY <1>0, <1>1, <1>2, <1>9 DEF Own, RecordInv, At
<1>11. CallInv(c)'
  BY <1>0, <1>1, <1>2, <1>6, <1>7 DEF Own, CallInv, Fits, At, Name, Touches, Withdrawing
<1>12. RecordInv(c)' /\ PlacedInv(c)' /\ StaleInv(c)'
  BY <1>6, <1>7 DEF RecordInv, PlacedInv, StaleInv, Placing, Withdrawing, At
<1>13. n \notin unsettled => profile[n] = adm[n]
  BY <1>0, <1>1, <1>2 DEF Own, StageInv
<1>14. StageInv(c)'
  BY <1>0, <1>5, <1>6, <1>7, <1>8, <1>13
     DEF StageInv, AgreedPoints, Agreed, Adoptable, Removing, Name, NoRow, NoKey
<1>15. /\ n \notin escaped' /\ profile[n] # 0 => HasRecord(n)'
       /\ req[c].met /\ n \notin escaped' /\ HasRecord(n) => HasRecord(n)'
  BY <1>5, <1>9, <1>10 DEF HasRecord
<1> QED BY <1>0, <1>1, <1>3, <1>5, <1>6, <1>9, <1>11, <1>12, <1>14, <1>15, RecordLands DEF Own

LEMMA DropWiFiKeyInv ==
    ASSUME AdmissionInv, NEW c \in Callers, DropWiFiKey(c)
    PROVE  AdmissionInv'
<1>0. /\ req[c].pc = "dropKey" /\ TypeOK /\ ~At(c, "idle")
      /\ Goto(c, "answer") /\ RecordDropped(c)
      /\ UNCHANGED <<row, adm, controller, held, bao, process, told, unsettled, spare, faults>>
  BY DEF DropWiFiKey, At, AdmissionInv
<1>1. PICK n : n = Name(c)
  OBVIOUS
<1>2. n \in Names /\ Own(c) /\ NameInv(n) /\ req[c].op = "deleteKey" /\ (n \notin unsettled => ~req[c].met)
  BY <1>0, <1>1, Facts, OpAt
<1>3. sealed' \in BOOLEAN /\ refused' \in BOOLEAN /\ faults' \in 0 .. MaxFaults
  BY <1>0 DEF TypeOK, bao
<1>4. wifi' = [wifi EXCEPT ![n] = NoKey]
  BY <1>1 DEF DropWiFiKey
<1>5. /\ row' \in [Names -> Rows] /\ wifi' \in [Names -> Keys] /\ adm' \in [Names -> Secrets]
      /\ wifi'[n] = NoKey /\ \A m \in Names \ {n} : wifi'[m] = wifi[m]
  BY <1>0, <1>2, <1>4, RegistryTypes DEF Keys
<1>6. Proceeds(c) /\ req'[c].pc = "answer" /\ req'[c].psk = req[c].psk
  BY <1>0, GotoMoves DEF Proceeds, Points
<1>7. req'[c].op = "deleteKey" /\ req'[c].name = n /\ req'[c].met = req[c].met
  BY <1>1, <1>2, <1>6 DEF Proceeds, Name
<1>8. UNCHANGED profile
  BY <1>0 DEF controller
<1>9. /\ escaped' \in {escaped, escaped \cup {n}}
      /\ n \notin escaped' => n \notin escaped /\ ~req[c].met
  BY <1>0, <1>1, DropsRecord
<1>10. ~req[c].met => profile[n] = 0
  BY <1>0, <1>1, <1>2 DEF Own, PlacedInv, Withdrawing
<1>11. CallInv(c)'
  BY <1>0, <1>1, <1>2, <1>6, <1>7 DEF Own, CallInv, Fits, At, Name, Touches, Withdrawing
<1>12. RecordInv(c)' /\ PlacedInv(c)' /\ StaleInv(c)'
  BY <1>6, <1>7, <1>8, <1>10 DEF RecordInv, PlacedInv, StaleInv, Placing, Withdrawing, At, Name
<1>13. n \notin unsettled => profile[n] = 0 /\ adm[n] = 0
  BY <1>0, <1>1, <1>2, <1>10 DEF Own, StageInv
<1>14. StageInv(c)'
  BY <1>0, <1>5, <1>6, <1>7, <1>8, <1>13 DEF StageInv, AgreedPoints, Agreed, Adoptable, Name, NoKey
<1>15. /\ n \notin escaped' /\ profile[n] # 0 => HasRecord(n)'
       /\ req[c].met /\ n \notin escaped' /\ HasRecord(n) => HasRecord(n)'
  BY <1>9, <1>10 DEF HasRecord
<1> QED BY <1>0, <1>1, <1>3, <1>5, <1>6, <1>9, <1>11, <1>12, <1>14, <1>15, RecordLands DEF Own

LEMMA DeleteAdmissionKeyInv ==
    ASSUME AdmissionInv, NEW c \in Callers, DeleteAdmissionKey(c)
    PROVE  AdmissionInv'
<1>0. /\ req[c].pc = "dropAdm" /\ TypeOK /\ ~At(c, "idle")
      /\ Goto(c, "answer") /\ RecordDropped(c)
      /\ UNCHANGED <<row, wifi, controller, held, bao, process, told, unsettled, spare, faults>>
  BY DEF DeleteAdmissionKey, At, AdmissionInv
<1>1. PICK n : n = Name(c)
  OBVIOUS
<1>2. n \in Names /\ Own(c) /\ NameInv(n) /\ req[c].op \in {"revoke", "create"} /\ (n \notin unsettled => ~req[c].met)
  BY <1>0, <1>1, Facts, OpAt
<1>3. sealed' \in BOOLEAN /\ refused' \in BOOLEAN /\ faults' \in 0 .. MaxFaults
  BY <1>0 DEF TypeOK, bao
<1>4. adm' = [adm EXCEPT ![n] = 0]
  BY <1>1 DEF DeleteAdmissionKey
<1>5. /\ row' \in [Names -> Rows] /\ wifi' \in [Names -> Keys] /\ adm' \in [Names -> Secrets]
      /\ adm'[n] = 0 /\ \A m \in Names \ {n} : adm'[m] = adm[m]
  BY <1>0, <1>2, <1>4, RegistryTypes, AdmissionAssumption DEF Secrets
<1>6. Proceeds(c) /\ req'[c].pc = "answer" /\ req'[c].psk = req[c].psk
  BY <1>0, GotoMoves DEF Proceeds, Points
<1>7. req'[c].op = req[c].op /\ req'[c].name = n /\ req'[c].met = req[c].met
  BY <1>1, <1>2, <1>6 DEF Proceeds, Name
<1>8. UNCHANGED profile
  BY <1>0 DEF controller
<1>9. /\ escaped' \in {escaped, escaped \cup {n}}
      /\ n \notin escaped' => n \notin escaped /\ ~req[c].met
  BY <1>0, <1>1, DropsRecord
<1>10. ~req[c].met /\ req[c].op = "revoke" => profile[n] = 0
  BY <1>0, <1>1, <1>2 DEF Own, PlacedInv, Withdrawing
<1>11. n \notin escaped' /\ req[c].op = "create" => wifi[n].status # "absent"
  BY <1>0, <1>1, <1>2, <1>9 DEF Own, RecordInv, At
<1>12. CallInv(c)'
  BY <1>0, <1>1, <1>2, <1>6, <1>7 DEF Own, CallInv, Fits, At, Name, Touches, Withdrawing
<1>13. RecordInv(c)' /\ PlacedInv(c)' /\ StaleInv(c)'
  BY <1>2, <1>6, <1>7, <1>8, <1>10 DEF RecordInv, PlacedInv, StaleInv, Placing, Withdrawing, At, Name
<1>14. n \notin unsettled =>
         /\ req[c].op = "revoke" => wifi[n] = NoKey /\ profile[n] = 0
         /\ req[c].op = "create" => wifi[n].status = "ready" /\ profile[n] = wifi[n].psk
  BY <1>0, <1>1, <1>2, <1>10 DEF Own, StageInv
<1>15. StageInv(c)'
  BY <1>0, <1>2, <1>5, <1>6, <1>7, <1>8, <1>14 DEF StageInv, AgreedPoints, Agreed, Adoptable, Name, NoKey
<1>16. /\ n \notin escaped' /\ profile[n] # 0 => HasRecord(n)'
       /\ req[c].met /\ n \notin escaped' /\ HasRecord(n) => HasRecord(n)'
  BY <1>0, <1>2, <1>9, <1>10, <1>11 DEF HasRecord
<1>17. row'[n].status # "absent" \/ wifi'[n] = NoKey
  BY <1>0, <1>2 DEF NameInv, Registered
<1> QED BY <1>0, <1>1, <1>3, <1>5, <1>6, <1>9, <1>12, <1>13, <1>15, <1>16, <1>17, RecordLands DEF Own

LEMMA PutAdmissionKeyInv ==
    ASSUME AdmissionInv, NEW c \in Callers, PutAdmissionKey(c)
    PROVE  AdmissionInv'
<1>0. /\ req[c].pc = "putAdm" /\ TypeOK /\ ~At(c, "idle") /\ Do /\ Goto(c, "ensRead")
      /\ UNCHANGED <<row, wifi, controller, held, process, history, spare, faults>>
  BY DEF PutAdmissionKey, At, AdmissionInv
<1>1. PICK n : n = Name(c)
  OBVIOUS
<1>2. n \in Names /\ Own(c) /\ NameInv(n) /\ req[c].op = "admit" /\ req[c].psk \in Secrets
  BY <1>0, <1>1, Facts, OpAt DEF Requests
<1>3. req[c].psk # 0
  BY <1>0, <1>2 DEF Own, CallInv, At
<1>4. sealed' \in BOOLEAN /\ refused' \in BOOLEAN /\ faults' \in 0 .. MaxFaults
  BY <1>0, DoTypes DEF TypeOK
<1>5. adm' = [adm EXCEPT ![n] = req[c].psk]
  BY <1>1 DEF PutAdmissionKey
<1>6. /\ row' \in [Names -> Rows] /\ wifi' \in [Names -> Keys] /\ adm' \in [Names -> Secrets]
      /\ adm'[n] = req[c].psk /\ \A m \in Names \ {n} : adm'[m] = adm[m]
  BY <1>0, <1>2, <1>5, RegistryTypes
<1>7. Proceeds(c) /\ req'[c].pc = "ensRead" /\ req'[c].psk = req[c].psk
  BY <1>0, GotoMoves DEF Proceeds, Points
<1>8. req'[c].op = "admit" /\ req'[c].name = n /\ req'[c].met = req[c].met
  BY <1>1, <1>2, <1>7 DEF Proceeds, Name
<1>9. UNCHANGED <<told, escaped, unsettled>>
  BY <1>0 DEF history
<1>10. CallInv(c)'
  BY <1>0, <1>1, <1>2, <1>3, <1>7, <1>8, <1>9 DEF Own, CallInv, Fits, At, Name, Ensuring, Withdrawing
<1>11. HasRecord(n)'
  BY <1>3, <1>6 DEF HasRecord
<1>12. RecordInv(c)' /\ PlacedInv(c)' /\ StaleInv(c)'
  BY <1>7, <1>8, <1>11 DEF RecordInv, PlacedInv, StaleInv, Withdrawing, At, Name
<1>13. n \notin unsettled => row[n] = NoRow
  BY <1>1, <1>2 DEF Own, StageInv
<1>14. StageInv(c)'
  BY <1>0, <1>6, <1>7, <1>8, <1>9, <1>13 DEF StageInv, AgreedPoints, Ensuring, Name
<1>15. row'[n].status # "absent" \/ wifi'[n] = NoKey
  BY <1>0, <1>2 DEF NameInv, Registered
<1> QED BY <1>0, <1>1, <1>4, <1>6, <1>7, <1>9, <1>10, <1>11, <1>12, <1>14, <1>15, RecordLands DEF Own

LEMMA PutWiFiKeyInv ==
    ASSUME AdmissionInv, NEW c \in Callers, PutWiFiKey(c)
    PROVE  AdmissionInv'
<1>0. /\ req[c].pc = "putKey" /\ TypeOK /\ ~At(c, "idle") /\ Do
      /\ UNCHANGED <<row, adm, controller, held, process, history, spare, faults>>
  BY DEF PutWiFiKey, At, AdmissionInv
<1>1. PICK n : n = Name(c)
  OBVIOUS
<1>2. n \in Names /\ Own(c) /\ NameInv(n) /\ req[c].op = "createKey" /\ req[c].psk \in Secrets
  BY <1>0, <1>1, Facts, OpAt DEF Requests
<1>3. req[c].psk # 0
  BY <1>2 DEF Own, CallInv
<1>4. sealed' \in BOOLEAN /\ refused' \in BOOLEAN /\ faults' \in 0 .. MaxFaults
  BY <1>0, DoTypes DEF TypeOK
<1>5. CASE ~Registered(n)
  <2>1. Fails(c) /\ UNCHANGED registry
    BY <1>0, <1>1, <1>5 DEF PutWiFiKey, registry
  <2>2. TypeOK'
    BY <1>0, <1>4, <2>1, FailsMoves, QuietTypes DEF TypeOK
  <2> QED BY <1>0, <2>1, <2>2, EndsAgreed DEF AgreedPoints
<1>6. CASE Registered(n)
  <2>1. wifi' = [wifi EXCEPT ![n] = [status |-> "provisioning", psk |-> req[c].psk]] /\ Goto(c, "ensRead")
    BY <1>1, <1>6 DEF PutWiFiKey
  <2>2. /\ row' \in [Names -> Rows] /\ wifi' \in [Names -> Keys] /\ adm' \in [Names -> Secrets]
        /\ wifi'[n].status = "provisioning" /\ wifi'[n].psk = req[c].psk
        /\ \A m \in Names \ {n} : wifi'[m] = wifi[m]
    BY <1>0, <1>2, <1>3, <2>1, RegistryTypes DEF Keys
  <2>3. Proceeds(c) /\ req'[c].pc = "ensRead" /\ req'[c].psk = req[c].psk
    BY <1>0, <2>1, GotoMoves DEF Proceeds, Points
  <2>4. req'[c].op = "createKey" /\ req'[c].name = n /\ req'[c].met = req[c].met
    BY <1>1, <1>2, <2>3 DEF Proceeds, Name
  <2>5. UNCHANGED <<told, escaped, unsettled>>
    BY <1>0 DEF history
  <2>6. CallInv(c)'
    BY <1>0, <1>1, <1>2, <1>3, <2>3, <2>4, <2>5 DEF Own, CallInv, Fits, At, Name, Ensuring, Withdrawing
  <2>7. HasRecord(n)'
    BY <2>2 DEF HasRecord
  <2>8. RecordInv(c)' /\ PlacedInv(c)' /\ StaleInv(c)'
    BY <2>3, <2>4, <2>7 DEF RecordInv, PlacedInv, StaleInv, Withdrawing, At, Name
  <2>9. n \notin unsettled => adm[n] = 0
    BY <1>1, <1>2 DEF Own, StageInv
  <2>10. StageInv(c)'
    BY <1>0, <2>2, <2>3, <2>4, <2>5, <2>9 DEF StageInv, AgreedPoints, Name
  <2>11. row'[n].status # "absent"
    BY <1>0, <1>6 DEF Registered
  <2> QED BY <1>0, <1>1, <1>4, <2>2, <2>3, <2>5, <2>6, <2>7, <2>8, <2>10, <2>11, RecordLands DEF Own
<1> QED BY <1>5, <1>6

LEMMA SetWiFiKeyStatusInv ==
    ASSUME AdmissionInv, NEW c \in Callers, SetWiFiKeyStatus(c)
    PROVE  AdmissionInv'
<1>0. /\ req[c].pc = "keyReady" /\ TypeOK /\ ~At(c, "idle")
      /\ UNCHANGED <<row, adm, controller, held, bao, process, history, spare, faults>>
  BY DEF SetWiFiKeyStatus, At, AdmissionInv
<1>1. PICK n : n = Name(c)
  OBVIOUS
<1>2. /\ n \in Names /\ Own(c) /\ NameInv(n) /\ req[c].op = "createKey" /\ (n \notin unsettled => ~req[c].met)
      /\ wifi[n] \in Keys
  BY <1>0, <1>1, Facts, OpAt, RegistryTypes
<1>3. n \notin unsettled => adm[n] = 0 /\ wifi[n].status # "absent" /\ wifi[n].psk = req[c].psk
  BY <1>0, <1>1, <1>2 DEF Own, StageInv
<1>4. sealed' \in BOOLEAN /\ refused' \in BOOLEAN /\ faults' \in 0 .. MaxFaults
  BY <1>0 DEF TypeOK, bao
<1>5. CASE wifi[n].status = "absent"
  <2>1. Fails(c) /\ UNCHANGED registry
    BY <1>0, <1>1, <1>5 DEF SetWiFiKeyStatus, registry
  <2>2. TypeOK'
    BY <1>0, <1>4, <2>1, FailsMoves, QuietTypes DEF TypeOK
  <2> QED BY <1>0, <1>1, <1>3, <1>5, <2>1, <2>2, EndsSettled
<1>6. CASE wifi[n].status # "absent"
  <2>1. wifi' = [wifi EXCEPT ![n].status = "ready"] /\ Goto(c, "answer")
    BY <1>1, <1>6 DEF SetWiFiKeyStatus
  <2>2. wifi[n] \in [status : {"provisioning", "ready"}, psk : Secrets \ {0}]
    BY <1>2, <1>6 DEF Keys, NoKey
  <2>3. /\ row' \in [Names -> Rows] /\ wifi' \in [Names -> Keys] /\ adm' \in [Names -> Secrets]
        /\ wifi'[n].status = "ready" /\ wifi'[n].psk = wifi[n].psk
        /\ \A m \in Names \ {n} : wifi'[m] = wifi[m]
    BY <1>0, <1>2, <2>1, <2>2, RegistryTypes DEF Keys
  <2>4. Proceeds(c) /\ req'[c].pc = "answer" /\ req'[c].psk = req[c].psk
    BY <1>0, <2>1, GotoMoves DEF Proceeds, Points
  <2>5. req'[c].op = "createKey" /\ req'[c].name = n /\ req'[c].met = req[c].met
    BY <1>1, <1>2, <2>4 DEF Proceeds, Name
  <2>6. UNCHANGED <<told, escaped, unsettled, profile>>
    BY <1>0 DEF history, controller
  <2>7. CallInv(c)'
    BY <1>0, <1>1, <1>2, <2>4, <2>5, <2>6 DEF Own, CallInv, Fits, At, Name, Withdrawing
  <2>8. HasRecord(n)'
    BY <2>3 DEF HasRecord
  <2>9. ~req[c].met => profile[n] = req[c].psk
    BY <1>0, <1>1, <1>2 DEF Own, PlacedInv, Placing
  <2>10. RecordInv(c)' /\ PlacedInv(c)' /\ StaleInv(c)'
    BY <2>4, <2>5, <2>6, <2>9 DEF RecordInv, PlacedInv, StaleInv, Withdrawing, At, Name
  <2>11. StageInv(c)'
    BY <1>0, <1>2, <1>3, <2>3, <2>4, <2>5, <2>6, <2>9
       DEF StageInv, AgreedPoints, Ensuring, Agreed, Adoptable, Name, NoKey
  <2>12. row'[n].status # "absent"
    BY <1>0, <1>2, <1>6 DEF NameInv, Registered, NoKey
  <2> QED BY <1>0, <1>1, <1>4, <2>3, <2>4, <2>6, <2>7, <2>8, <2>10, <2>11, <2>12, RecordLands DEF Own
<1> QED BY <1>5, <1>6

LEMMA AdoptPutInv ==
    ASSUME AdmissionInv, NEW c \in Callers, AdoptPut(c)
    PROVE  AdmissionInv'
<1>0. /\ req[c].pc = "adoptPut" /\ TypeOK /\ ~At(c, "idle") /\ Do
      /\ UNCHANGED <<row, adm, controller, held, process, history, spare, faults>>
  BY DEF AdoptPut, At, AdmissionInv
<1>1. PICK n : n = Name(c)
  OBVIOUS
<1>2. n \in Names /\ Own(c) /\ NameInv(n) /\ req[c].op = "create" /\ req[c].psk \in Secrets
  BY <1>0, <1>1, Facts, OpAt DEF Requests
<1>3. req[c].psk # 0
  BY <1>0, <1>2 DEF Own, CallInv, At
<1>4. n \notin unsettled => Adoptable(n) /\ req[c].psk = adm[n]
  BY <1>0, <1>1, <1>2 DEF Own, StageInv
<1>5. sealed' \in BOOLEAN /\ refused' \in BOOLEAN /\ faults' \in 0 .. MaxFaults
  BY <1>0, DoTypes DEF TypeOK
<1>6. 0 \in Secrets
  BY AdmissionAssumption DEF Secrets
<1>7. UNCHANGED <<told, escaped, unsettled, profile>>
  BY <1>0 DEF history, controller
<1>8. CASE Registered(n)
  <2>1. /\ wifi' = [wifi EXCEPT ![n] = [status |-> "ready", psk |-> req[c].psk]]
        /\ TakesKey(c, "dropAdm", 0)
    BY <1>1, <1>8, Zenon DEF AdoptPut, TakesKey
  <2>2. /\ row' \in [Names -> Rows] /\ wifi' \in [Names -> Keys] /\ adm' \in [Names -> Secrets]
        /\ wifi'[n].status = "ready" /\ wifi'[n].psk = req[c].psk
        /\ \A m \in Names \ {n} : wifi'[m] = wifi[m]
    BY <1>0, <1>2, <1>3, <2>1, RegistryTypes DEF Keys
  <2>3. Proceeds(c) /\ req'[c].pc = "dropAdm" /\ req'[c].psk = 0
    BY <1>0, <1>6, <2>1, KeyMoves DEF Proceeds, Points
  <2>4. req'[c].op = "create" /\ req'[c].name = n /\ req'[c].met = req[c].met
    BY <1>1, <1>2, <2>3 DEF Proceeds, Name
  <2>5. CallInv(c)'
    BY <1>0, <1>1, <1>2, <1>7, <2>3, <2>4 DEF Own, CallInv, Fits, At, Name, Withdrawing, Touches
  <2>6. HasRecord(n)'
    BY <2>2 DEF HasRecord
  <2>7. RecordInv(c)' /\ PlacedInv(c)' /\ StaleInv(c)'
    BY <2>2, <2>3, <2>4 DEF RecordInv, PlacedInv, StaleInv, Placing, Withdrawing, At, Name
  <2>8. StageInv(c)'
    BY <1>3, <1>4, <1>7, <2>2, <2>3, <2>4 DEF StageInv, AgreedPoints, Adoptable, Name
  <2>9. row'[n].status # "absent"
    BY <1>0, <1>8 DEF Registered
  <2> QED BY <1>0, <1>1, <1>5, <1>7, <2>2, <2>3, <2>5, <2>6, <2>7, <2>8, <2>9, RecordLands DEF Own
<1>9. CASE ~Registered(n)
  <2>1. TakesKey(c, "answer", 0) /\ UNCHANGED registry
    BY <1>0, <1>1, <1>9, Zenon DEF AdoptPut, TakesKey, registry
  <2>2. Proceeds(c) /\ req'[c].pc = "answer" /\ req'[c].psk = 0
    BY <1>0, <1>6, <2>1, KeyMoves DEF Proceeds, Points
  <2>3. req'[c].op = "create" /\ req'[c].name = n /\ req'[c].met = req[c].met
    BY <1>1, <1>2, <2>2 DEF Proceeds, Name
  <2>4. CallInv(c)'
    BY <1>0, <1>1, <1>2, <1>7, <2>2, <2>3 DEF Own, CallInv, Fits, At, Name, Withdrawing, Touches
  <2>5. RecordInv(c)' /\ PlacedInv(c)' /\ StaleInv(c)'
    BY <2>2, <2>3 DEF RecordInv, PlacedInv, StaleInv, Placing, Withdrawing, At, Name
  <2>6. UNCHANGED wifi
    BY <2>1 DEF registry
  <2>7. StageInv(c)'
    BY <1>0, <1>4, <1>7, <1>9, <2>2, <2>3, <2>6 DEF StageInv, AgreedPoints, Agreed, Adoptable, Name, Registered
  <2>8. TypeOK'
    BY <1>0, <1>5, <2>1, <2>2, QuietTypes DEF TypeOK, Proceeds
  <2> QED BY <1>0, <2>1, <2>2, <2>4, <2>5, <2>7, <2>8, QuietStep DEF Own, Proceeds
<1> QED BY <1>8, <1>9

LEMMA AdoptFailsInv ==
    ASSUME AdmissionInv, NEW c \in Callers, AdoptFails(c)
    PROVE  AdmissionInv'
<1>0. /\ req[c].pc \in {"adoptGet", "adoptPut", "dropAdm"} /\ TypeOK /\ ~At(c, "idle")
      /\ req[c].pc = "dropAdm" => req[c].op = "create"
      /\ unsettled' = unsettled \cup {Name(c)}
      /\ UNCHANGED <<registry, controller, held, bao, process, told, escaped, spare>>
  BY DEF AdoptFails, At, AdmissionInv
<1>1. PICK n : n = Name(c)
  OBVIOUS
<1>2. n \in Names /\ Own(c) /\ NameInv(n) /\ req[c].op = "create"
  BY <1>0, <1>1, Facts, OpAt
<1>3. faults' \in 0 .. MaxFaults
  <2>1. Fault \/ UNCHANGED faults
    BY DEF AdoptFails, Fault
  <2> QED BY <1>0, <2>1, FaultType DEF TypeOK
<1>4. 0 \in Secrets
  BY AdmissionAssumption DEF Secrets
<1>5. TakesKey(c, "answer", 0)
  BY Zenon DEF AdoptFails, TakesKey
<1>6. Proceeds(c) /\ req'[c].pc = "answer" /\ req'[c].psk = 0
  BY <1>0, <1>4, <1>5, KeyMoves DEF Proceeds, Points
<1>7. req'[c].op = "create" /\ req'[c].name = n /\ req'[c].met = req[c].met
  BY <1>1, <1>2, <1>6 DEF Proceeds, Name
<1>8. UNCHANGED <<row, adm, wifi, profile, placeholder, told, escaped, sealed, refused>>
  BY <1>0 DEF registry, controller, bao
<1>9. CallInv(c)'
  BY <1>0, <1>1, <1>2, <1>6, <1>7 DEF Own, CallInv, Fits, At, Name, Withdrawing, Touches
<1>10. RecordInv(c)' /\ PlacedInv(c)' /\ StaleInv(c)'
  BY <1>6, <1>7 DEF RecordInv, PlacedInv, StaleInv, Placing, Withdrawing, At, Name
<1>11. StageInv(c)'
  BY <1>0, <1>1, <1>7 DEF StageInv, Name
<1>12. CallFrame(c)
  BY <1>0, <1>6, MovesFrame DEF Proceeds, GoesOn
<1>13. NameFrame(c)
  BY <1>0, <1>8 DEF NameFrame, SameName, HasRecord
<1>14. NameInv(n)'
  BY <1>2, <1>7, <1>8 DEF NameInv, HasRecord, Registered, Name
<1>15. TypeOK'
  <2>1. unsettled' \subseteq Names
    BY <1>0, <1>1, <1>2 DEF TypeOK
  <2> QED BY <1>0, <1>3, <1>6, <1>8, <2>1, CallTypes DEF TypeOK, Proceeds
<1> QED BY <1>0, <1>1, <1>9, <1>10, <1>11, <1>12, <1>13, <1>14, <1>15, StepKeeps DEF Own

-----------------------------------------------------------------------------
(* Calls end.                                                                *)

LEMMA CutOffInv ==
    ASSUME AdmissionInv, NEW c \in Callers, CutOff(c)
    PROVE  AdmissionInv'
<1>1. /\ ~At(c, "idle") /\ Fault /\ Fails(c) /\ held' \in {held, Handed(c)} /\ TypeOK
      /\ unsettled' = unsettled \cup {Name(c)}
      /\ UNCHANGED <<registry, controller, bao, process, told, escaped, spare>>
  BY DEF CutOff, AdmissionInv
<1>2. UNCHANGED <<row, adm, wifi, profile, placeholder, sealed, refused, told, escaped>>
  BY <1>1 DEF registry, controller, bao
<1>3. TypeOK'
  <2>1. held' \in [Names -> [enrol : {"none", "live", "spent"}, tok : Secrets, psk : Secrets]]
    BY <1>1, HandedType DEF TypeOK
  <2>2. unsettled' \subseteq Names
    BY <1>1, Facts DEF TypeOK
  <2>3. req' \in [Callers -> Requests]
    BY <1>1, FailsMoves
  <2>4. faults' \in 0 .. MaxFaults
    BY <1>1, FaultType
  <2> QED BY <1>1, <1>2, <2>1, <2>2, <2>3, <2>4, CallTypes DEF TypeOK
<1> QED BY <1>1, <1>3, EndsHalfDone

LEMMA AnswerInv ==
    ASSUME AdmissionInv, NEW c \in Callers, Answer(c)
    PROVE  AdmissionInv'
<1>0. /\ req[c].pc = "answer" /\ TypeOK /\ ~At(c, "idle") /\ Fails(c)
      /\ UNCHANGED <<registry, controller, bao, process, escaped, unsettled, spare, faults>>
  BY DEF Answer, At, AdmissionInv
<1>1. PICK n : n = Name(c)
  OBVIOUS
<1>2. n \in Names /\ Own(c) /\ NameInv(n) /\ req[c].op \in Ops /\ req[c] \in Requests
  BY <1>0, <1>1, Facts
<1>3. req[c].psk \in Secrets /\ req[c].tok \in Secrets
  BY <1>2 DEF Requests
<1>4. held' \in [Names -> [enrol : {"none", "live", "spent"}, tok : Secrets, psk : Secrets]]
  <2> DEFINE H == [enrol : {"none", "live", "spent"}, tok : Secrets, psk : Secrets]
             h == [enrol |-> IF req[c].op = "admit" THEN "live" ELSE held[n].enrol,
                   tok   |-> IF req[c].op = "create" /\ req[c].tok # 0 THEN req[c].tok ELSE held[n].tok,
                   psk   |-> IF req[c].op \in {"admit", "createKey"} THEN req[c].psk ELSE held[n].psk]
  <2>1. held \in [Names -> H] /\ held[n] \in H
    BY <1>0, <1>2 DEF TypeOK
  <2>2. h \in H
    BY <1>3, <2>1
  <2>3. held' = [held EXCEPT ![n] = h]
    BY <1>1, <2>1 DEF Answer, Name
  <2> HIDE DEF h, H
  <2>4. held' \in [Names -> H]
    BY <2>1, <2>2, <2>3
  <2> QED BY <2>4 DEF H
<1>5. \/ told' = told
      \/ /\ req[c].op \in Touches \ {"delete"} /\ ~req[c].met
         /\ told' = [told EXCEPT ![n] = req[c].psk]
  BY <1>1 DEF Answer, Name
<1>6. /\ told' \in [Names -> Secrets \cup {None}] /\ \A m \in Names \ {n} : told'[m] = told[m]
      /\ \/ told'[n] = told[n]
         \/ req[c].op \in Touches \ {"delete"} /\ ~req[c].met /\ told'[n] = req[c].psk
      /\ req[c].met => told' = told
  BY <1>0, <1>2, <1>3, <1>5 DEF TypeOK
<1>7. /\ req' \in [Callers -> Requests] /\ req'[c] = Idle
      /\ \A d \in Callers \ {c} : req'[d] = req[d]
  BY <1>0, FailsMoves
<1>8. UNCHANGED <<row, adm, wifi, profile, placeholder, sealed, refused, escaped, unsettled>>
  BY <1>0 DEF registry, controller, bao
<1>9. TypeOK'
  BY <1>0, <1>4, <1>6, <1>7, <1>8, CallTypes DEF TypeOK
<1>10. CallFrame(c) /\ NameFrame(c)
  <2>1. CallFrame(c)
    BY <1>0, <1>7, MovesFrame DEF GoesOn
  <2>2. NameFrame(c)
    BY <1>1, <1>6, <1>8 DEF NameFrame, SameName, HasRecord
  <2> QED BY <2>1, <2>2
<1>11. req[c].op \in Touches \ {"delete"} /\ ~req[c].met => profile[n] = req[c].psk
  <2>1. req[c].op \in Withdrawing => req[c].psk = 0
    BY <1>2 DEF Own, CallInv
  <2> QED BY <1>0, <1>1, <1>2, <2>1 DEF Own, PlacedInv, Placing, Withdrawing, Touches
<1>12. n \notin unsettled => Agreed(n)
  BY <1>0, <1>1, <1>2 DEF Own, StageInv, AgreedPoints
<1>13. NameInv(n)'
  BY <1>2, <1>6, <1>8, <1>11, <1>12 DEF NameInv, HasRecord, Registered, Agreed, Adoptable
<1> QED BY <1>0, <1>1, <1>7, <1>9, <1>10, <1>13, IdleOwn, StepKeeps

-----------------------------------------------------------------------------
(* Calls begin.                                                              *)

\* How a call about n starts out, after its handler's checks.
Entry(n, call) ==
    /\ call \in Requests
    /\ \/ call.op = "admit" /\ call.pc = "wrap" /\ ~Registered(n)
       \/ call.op = "revoke" /\ call.pc = "remRead" /\ adm[n] # 0
       \/ call.op = "create" /\ call.pc \in {"createGet", "redeem"}
       \/ call.op = "createKey" /\ call.pc = "putKey" /\ row[n].status = "ready" /\ call.psk # 0
       \/ call.op = "deleteKey" /\ call.pc = "remRead" /\ wifi[n].status # "absent"
       \/ call.op = "delete" /\ call.pc = "mark"
    /\ call.op \in Withdrawing => call.psk = 0
    /\ call.supplied => call.tok # 0

LEMMA EnterInv ==
    ASSUME AdmissionInv, NEW c \in Callers, NEW n \in Names, NEW call, Entry(n, call), Enter(c, n, call),
           UNCHANGED <<registry, controller, held, process>>,
           sealed' \in BOOLEAN, refused' \in BOOLEAN, spare' \in 0 .. MaxSpare, faults' \in 0 .. MaxFaults
    PROVE  AdmissionInv'
<1> USE DEF Name
<1> DEFINE others == Others(c, n)
           q == [call EXCEPT !.name = n, !.met = others # {}]
<1>1. TypeOK /\ NameInv(n) /\ n # None /\ At(c, "idle") /\ req \in [Callers -> Requests]
  BY NoneIsNobody, RequestsType DEF AdmissionInv, Enter
<1>2. req[c].name = None
  BY <1>1 DEF AdmissionInv, CallInv
<1>3. /\ q \in Requests /\ q.name = n /\ q.met = (others # {})
      /\ q.pc = call.pc /\ q.op = call.op /\ q.psk = call.psk /\ q.tok = call.tok /\ q.supplied = call.supplied
  BY DEF Entry, Requests
<1>4. /\ req'[c] = q
      /\ \A d \in Callers \ {c} : req'[d] = [req[d] EXCEPT !.met = req[d].met \/ d \in others]
      /\ req' = [d \in Callers |-> req'[d]]
  BY DEF Enter
<1>5. /\ told' = told \/ told' = [told EXCEPT ![n] = None]
      /\ call.op \in Touches => told' = [told EXCEPT ![n] = None]
      /\ unsettled' = IF others # {} THEN unsettled \cup {n} ELSE unsettled
      /\ escaped' = escaped
  BY DEF Enter
<1> HIDE DEF q, others
<1>6. ASSUME NEW d \in Callers, d # c
      PROVE  /\ req'[d] \in Requests
             /\ req'[d].pc = req[d].pc /\ req'[d].op = req[d].op /\ req'[d].name = req[d].name
             /\ req'[d].psk = req[d].psk /\ req'[d].tok = req[d].tok
             /\ req'[d].supplied = req[d].supplied /\ req'[d].stale = req[d].stale
             /\ req'[d].adopts = req[d].adopts
             /\ req'[d].met = (req[d].met \/ d \in others)
  <2>1. req[d] \in Requests
    BY <1>1
  <2>2. req'[d] = [req[d] EXCEPT !.met = req[d].met \/ d \in others]
    BY <1>4, <1>6
  <2> QED BY <2>1, <2>2 DEF Requests
<1>7. \A d \in Callers \ {c} : d \in others <=> req[d].name = n
  BY DEF others, Others
<1>8. UNCHANGED <<row, adm, wifi, profile, placeholder>>
  BY DEF registry, controller
<1>9. /\ told' \in [Names -> Secrets \cup {None}] /\ told'[n] \in {told[n], None}
      /\ call.op \in Touches => told'[n] = None
      /\ \A m \in Names \ {n} : told'[m] = told[m]
  BY <1>1, <1>5 DEF TypeOK
<1>10. /\ unsettled \subseteq unsettled' /\ (others # {} => n \in unsettled')
       /\ \A m \in Names \ {n} : m \in unsettled' <=> m \in unsettled
       /\ unsettled' \subseteq Names
  BY <1>1, <1>5 DEF TypeOK
<1>11. TypeOK'
  <2>1. req' \in [Callers -> Requests]
    <3>1. \A d \in Callers : req'[d] \in Requests
      BY <1>3, <1>4, <1>6
    <3> QED BY <1>4, <3>1
  <2> QED BY <1>1, <1>5, <1>8, <1>9, <1>10, <2>1 DEF TypeOK, Requests, process
<1>12. Alone'
  <2>1. SUFFICES ASSUME NEW d \in Callers, NEW e \in Callers, d # e,
                        req'[d].name = req'[e].name, req'[d].name # None
                 PROVE  req'[d].met
    BY DEF Alone
  <2>2. CASE d = c
    <3>1. e \in others
      BY <1>3, <1>4, <1>6, <1>7, <2>1, <2>2
    <3> QED BY <1>3, <1>4, <2>2, <3>1
  <2>3. CASE e = c
    <3>1. d \in others
      BY <1>3, <1>4, <1>6, <1>7, <2>1, <2>3
    <3> QED BY <1>6, <2>1, <2>3, <3>1
  <2>4. CASE d # c /\ e # c
    <3>1. req[d].met
      BY <1>6, <2>1, <2>4 DEF AdmissionInv, Alone
    <3> QED BY <1>6, <2>4, <3>1
  <2> QED BY <2>2, <2>3, <2>4
<1>13. Own(c)'
  <2>1. CallInv(c)'
    BY <1>1, <1>3, <1>4, <1>9, <1>10 DEF Entry, CallInv, Fits, At, Removing
  <2>2. RecordInv(c)' /\ PlacedInv(c)' /\ StaleInv(c)'
    BY <1>3, <1>4 DEF Entry, RecordInv, PlacedInv, StaleInv, At
  <2>3. StageInv(c)'
    <3>1. SUFFICES ASSUME n \notin unsettled' PROVE StageInv(c)'
      BY <1>3, <1>4 DEF StageInv
    <3>2. Agreed(n)
      <4>1. \A d \in Callers : req[d].name # n
        BY <1>1, <1>2, <1>7, <1>10, <3>1
      <4> QED BY <1>1, <1>10, <3>1, <4>1 DEF NameInv
    <3>3. row[n] \in Rows /\ wifi[n] \in Keys
      BY <1>1, RegistryTypes
    <3>4. /\ call.op = "admit" => row[n] = NoRow /\ call.pc = "wrap"
          /\ call.op = "revoke" => wifi[n] = NoKey
          /\ call.op = "createKey" => adm[n] = 0 /\ call.pc = "putKey"
          /\ call.op = "deleteKey" => adm[n] = 0
          /\ call.op = "delete" => call.pc = "mark"
          /\ call.op = "create" => call.pc \in {"createGet", "redeem"}
      BY <3>2, <3>3 DEF Entry, Agreed, Adoptable, Rows, Keys, Registered, NoRow, NoKey
    <3>5. Agreed(n)'
      BY <1>8, <3>2 DEF Agreed, Adoptable
    <3> QED BY <1>3, <1>4, <1>8, <3>4, <3>5 DEF StageInv, Removing, Ensuring
  <2> QED BY <2>1, <2>2, <2>3 DEF Own
<1>14. ASSUME NEW d \in Callers, d # c PROVE Own(d)'
  <2>1. Own(d)
    BY DEF AdmissionInv, Own
  <2>2. StaleInv(d)'
    BY <1>6, <1>8, <1>14, <2>1 DEF Own, StaleInv, At
  <2>3. CASE req[d].name = n
    <3>1. req'[d].met /\ n \in unsettled'
      BY <1>6, <1>7, <1>10, <1>14, <2>3
    <3>2. CallInv(d)'
      BY <1>1, <1>6, <1>9, <1>14, <2>1, <2>3, <3>1 DEF Own, CallInv, Fits, At
    <3>3. RecordInv(d)'
      BY <1>5, <1>6, <1>8, <1>14, <2>1, <2>3, <3>1 DEF Own, RecordInv, HasRecord, At
    <3>4. PlacedInv(d)' /\ StageInv(d)'
      BY <1>6, <1>14, <2>3, <3>1 DEF PlacedInv, StageInv
    <3> QED BY <2>2, <3>2, <3>3, <3>4 DEF Own
  <2>4. CASE req[d].name # n
    <3>1. req'[d].met <=> req[d].met
      BY <1>6, <1>7, <1>14, <2>4
    <3>2. req[d].op \in Touches => req[d].name \in Names
      <4>1. req[d].op \in Touches => ~At(d, "idle")
        BY <2>1 DEF Own, CallInv, Touches
      <4> QED BY <4>1, Facts
    <3>3. CallInv(d)'
      BY <1>6, <1>9, <1>10, <1>14, <2>1, <2>4, <3>1, <3>2 DEF Own, CallInv, Fits, At
    <3>4. RecordInv(d)' /\ PlacedInv(d)'
      BY <1>5, <1>6, <1>8, <1>14, <2>1, <3>1 DEF Own, RecordInv, PlacedInv, HasRecord, At
    <3>5. StageInv(d)'
      BY <1>6, <1>8, <1>10, <1>14, <2>1, <2>4 DEF Own, StageInv, Agreed, Adoptable
    <3> QED BY <2>2, <3>3, <3>4, <3>5 DEF Own
  <2> QED BY <2>3, <2>4
<1>15. ASSUME NEW m \in Names PROVE NameInv(m)'
  <2>1. NameInv(m)
    BY DEF AdmissionInv
  <2>2. CASE m = n
    BY <1>3, <1>4, <1>5, <1>8, <1>9, <2>1, <2>2 DEF NameInv, HasRecord, Registered
  <2>3. CASE m # n
    <3>1. (\A d \in Callers : req'[d].name # m) => \A d \in Callers : req[d].name # m
      BY <1>2, <1>6, NoneIsNobody
    <3> QED BY <1>5, <1>8, <1>9, <1>10, <2>1, <2>3, <3>1
            DEF NameInv, HasRecord, Registered, Agreed, Adoptable
  <2> QED BY <2>2, <2>3
<1> QED BY <1>11, <1>12, <1>13, <1>14, <1>15 DEF AdmissionInv, Own

LEMMA CallIs ==
    ASSUME NEW op \in Ops, NEW p \in Points
    PROVE  /\ Call(op, p) \in Requests /\ Call(op, p).op = op /\ Call(op, p).pc = p
           /\ Call(op, p).psk = 0 /\ Call(op, p).tok = 0 /\ Call(op, p).supplied = FALSE
<1>1. PICK i : i = Idle
  OBVIOUS
<1>2. i \in Requests /\ i.psk = 0 /\ i.tok = 0 /\ i.supplied = FALSE
  BY <1>1, IdleType DEF Idle
<1> DEFINE q == [i EXCEPT !.op = op, !.pc = p]
<1>3. /\ q \in Requests /\ q.op = op /\ q.pc = p
      /\ q.psk = 0 /\ q.tok = 0 /\ q.supplied = FALSE
  BY <1>2 DEF Requests
<1>4. Call(op, p) = q
  BY <1>1, Zenon DEF Call
<1> HIDE DEF q
<1> QED BY <1>3, <1>4

LEMMA PlainCall ==
    ASSUME NEW c, NEW n, NEW op \in Ops, NEW p \in Points, Enter(c, n, Call(op, p)),
           \/ op = "admit" /\ p = "wrap" /\ ~Registered(n)
           \/ op = "revoke" /\ p = "remRead" /\ adm[n] # 0
           \/ op = "create" /\ p \in {"createGet", "redeem"}
           \/ op = "deleteKey" /\ p = "remRead" /\ wifi[n].status # "absent"
           \/ op = "delete" /\ p = "mark"
    PROVE  \E call : Entry(n, call) /\ Enter(c, n, call)
<1>1. PICK call : call = Call(op, p)
  OBVIOUS
<1>2. call \in Requests /\ call.op = op /\ call.pc = p /\ call.psk = 0 /\ call.supplied = FALSE
  BY <1>1, CallIs
<1>3. Entry(n, call)
  BY <1>2 DEF Entry
<1> QED BY <1>1, <1>3

\* The checks of each handler are what Entry says.
LEMMA Enters ==
    ASSUME AdmissionInv, NEW c \in Callers, NEW n \in Names,
           \/ Admit(c, n) \/ RevokeAdmission(c, n) \/ Create(c, n)
           \/ CreateWiFiKey(c, n) \/ DeleteWiFiKey(c, n) \/ Delete(c, n)
    PROVE  /\ \E call : Entry(n, call) /\ Enter(c, n, call)
           /\ UNCHANGED <<registry, controller, held, process>>
           /\ sealed' \in BOOLEAN /\ refused' \in BOOLEAN
<1>0. TypeOK
  BY DEF AdmissionInv
<1>p. {"wrap", "remRead", "createGet", "redeem", "putKey", "mark"} \subseteq Points
  BY DEF Points
<1>o. {"admit", "revoke", "create", "createKey", "deleteKey", "delete"} \subseteq Ops
  BY DEF Ops, Touches
<1>1. CASE Admit(c, n)
  <2>1. \E call : Entry(n, call) /\ Enter(c, n, call)
    BY <1>p, <1>o, <1>1, PlainCall DEF Admit
  <2> QED BY <1>0, <1>1, <2>1 DEF Admit, TypeOK, bao
<1>2. CASE RevokeAdmission(c, n)
  <2>1. \E call : Entry(n, call) /\ Enter(c, n, call)
    BY <1>p, <1>o, <1>2, PlainCall DEF RevokeAdmission
  <2> QED BY <1>0, <1>2, <2>1, DoTypes DEF RevokeAdmission
<1>3. CASE Create(c, n)
  <2>1. UNCHANGED <<registry, controller, held, bao, process>>
    BY <1>3 DEF Create
  <2>2. ASSUME NEW p \in {"createGet", "redeem"}, Enter(c, n, Call("create", p))
        PROVE  \E call : Entry(n, call) /\ Enter(c, n, call)
    BY <1>p, <1>o, <2>2, PlainCall
  <2>o. "create" \in Ops /\ "createGet" \in Points
    BY <1>p, <1>o
  <2>s. PICK s \in Requests : s = Call("create", "createGet") /\ s.op = "create" /\ s.pc = "createGet"
    BY <2>o, CallIs, Zenon
  <2>3. ASSUME c # Operator, Authenticate(c, n),
               Enter(c, n, [s EXCEPT !.supplied = TRUE, !.tok = held[c].tok])
        PROVE  \E call : Entry(n, call) /\ Enter(c, n, call)
    <3> DEFINE call == [s EXCEPT !.supplied = TRUE, !.tok = held[c].tok]
    <3>1. held[c].tok \in Secrets \ {0}
      BY <1>0, <2>3 DEF Authenticate, Verify, TypeOK
    <3>3. /\ call \in Requests /\ call.op = "create" /\ call.pc = "createGet"
          /\ call.tok = held[c].tok
      BY <2>s, <3>1 DEF Requests
    <3>4. Entry(n, call)
      <4> HIDE DEF call
      <4> QED BY <3>1, <3>3 DEF Entry, Withdrawing
    <3>5. Enter(c, n, call)
      BY <2>3, Zenon
    <3> HIDE DEF call
    <3> QED BY <3>4, <3>5
  <2>4. \/ Enter(c, n, Call("create", "createGet"))
        \/ Enter(c, n, Call("create", "redeem"))
        \/ /\ c # Operator /\ Authenticate(c, n)
           /\ Enter(c, n, [s EXCEPT !.supplied = TRUE, !.tok = held[c].tok])
    BY <1>3, <2>s, Zenon DEF Create
  <2>5. \E call : Entry(n, call) /\ Enter(c, n, call)
    BY <2>2, <2>3, <2>4, Zenon
  <2> QED BY <1>0, <2>1, <2>5 DEF TypeOK, bao
<1>4. CASE CreateWiFiKey(c, n)
  <2>o. "createKey" \in Ops /\ "putKey" \in Points
    BY <1>p, <1>o
  <2>s. PICK s \in Requests : /\ s = Call("createKey", "putKey") /\ s.op = "createKey"
                              /\ s.pc = "putKey" /\ s.supplied = FALSE
    BY <2>o, CallIs, Zenon
  <2> DEFINE k == choosePSK(held[c].psk, wifi[n].psk, n)
             call == [s EXCEPT !.psk = k]
  <2>1. c \in Names /\ row[n].status = "ready" /\ Do /\ UNCHANGED <<registry, controller, held, process>>
    BY <1>4 DEF CreateWiFiKey, Callers
  <2>2. k \in Secrets \ {0}
    <3>1. held[c].psk \in Secrets
      BY <1>0, <2>1 DEF TypeOK
    <3>2. wifi[n].psk \in Secrets
      BY <1>0, AdmissionAssumption DEF TypeOK, NoKey, Secrets
    <3> QED BY <1>0, <3>1, <3>2, NewSecrets DEF choosePSK
  <2>4. Enter(c, n, call)
    BY <1>4, <2>s, Zenon DEF CreateWiFiKey
  <2> HIDE DEF k
  <2>5. /\ call \in Requests /\ call.op = "createKey" /\ call.pc = "putKey" /\ call.psk = k
        /\ call.supplied = FALSE
    BY <2>s, <2>2 DEF Requests
  <2> HIDE DEF call
  <2>6. Entry(n, call)
    BY <2>1, <2>2, <2>5 DEF Entry, Withdrawing
  <2> QED BY <1>0, <2>1, <2>4, <2>6, DoTypes
<1>5. CASE DeleteWiFiKey(c, n)
  <2>1. \E call : Entry(n, call) /\ Enter(c, n, call)
    BY <1>p, <1>o, <1>5, PlainCall DEF DeleteWiFiKey
  <2> QED BY <1>0, <1>5, <2>1, DoTypes DEF DeleteWiFiKey
<1>6. CASE Delete(c, n)
  <2>1. \E call : Entry(n, call) /\ Enter(c, n, call)
    BY <1>p, <1>o, <1>6, PlainCall DEF Delete
  <2> QED BY <1>0, <1>6, <2>1, DoTypes DEF Delete
<1> QED BY <1>1, <1>2, <1>3, <1>4, <1>5, <1>6

LEMMA BeginInv ==
    ASSUME AdmissionInv, NEW c \in Callers, NEW n \in Names, Begin(c, n)
    PROVE  AdmissionInv'
<1>1. spare' \in 0 .. MaxSpare /\ faults' \in 0 .. MaxFaults
  BY DEF Begin, AdmissionInv, TypeOK
<1>2. row[n].status \in {"absent", "provisioning", "ready", "deleting"}
  BY RegistryTypes DEF AdmissionInv, Rows, NoRow
<1>3. Admit(c, n) \/ Create(c, n) \/ CreateWiFiKey(c, n) \/ Delete(c, n)
  BY <1>2 DEF Begin, Needed
<1> QED BY <1>1, <1>3, Enters, EnterInv

LEMMA UnneededInv ==
    ASSUME AdmissionInv, NEW k \in Calls, Unneeded(k)
    PROVE  AdmissionInv'
<1>1. spare' \in 0 .. MaxSpare /\ faults' \in 0 .. MaxFaults
  BY AdmissionAssumption DEF Unneeded, AdmissionInv, TypeOK
<1>2. k.by \in Callers /\ k.name \in Names
  BY AdmissionAssumption
<1>3. \/ Admit(k.by, k.name) \/ RevokeAdmission(k.by, k.name) \/ Create(k.by, k.name)
      \/ CreateWiFiKey(k.by, k.name) \/ DeleteWiFiKey(k.by, k.name) \/ Delete(k.by, k.name)
  BY DEF Unneeded
<1> QED BY <1>1, <1>2, <1>3, Enters, EnterInv

-----------------------------------------------------------------------------
(* The invariant.                                                            *)

LEMMA InitAdmission == Init => AdmissionInv
<1> SUFFICES ASSUME Init PROVE AdmissionInv
  OBVIOUS
<1> USE DEF Name
<1>0. 0 \in Secrets /\ 1 \in Secrets \ {0} /\ MaxFaults \in Nat /\ MaxSpare \in Nat
  BY AdmissionAssumption, FS_CardinalityType DEF Secrets
<1>1. /\ \A c \in Callers : req[c] = Idle
      /\ req \in [Callers -> Requests]
  BY IdleType DEF Init
<1>2. ASSUME NEW n \in Names
      PROVE  /\ row[n] = IF n \in Established THEN [status |-> "ready", tok |-> 1] ELSE NoRow
             /\ wifi[n] = IF n \in Established THEN [status |-> "ready", psk |-> 1] ELSE NoKey
             /\ profile[n] = IF n \in Established THEN 1 ELSE 0
             /\ adm[n] = 0 /\ told[n] = None /\ First(n) \in {0, 1}
  BY DEF Init, First
<1>3. TypeOK
  <2>1. row \in [Names -> Rows] /\ wifi \in [Names -> Keys]
    <3>1. row = [n \in Names |-> row[n]] /\ wifi = [n \in Names |-> wifi[n]]
      BY DEF Init
    <3>2. \A n \in Names : row[n] \in Rows /\ wifi[n] \in Keys
      BY <1>0, <1>2 DEF Rows, Keys
    <3> QED BY <3>1, <3>2
  <2>2. adm \in [Names -> Secrets] /\ profile \in [Names -> Secrets] /\ told \in [Names -> Secrets \cup {None}]
    BY <1>0, <1>2 DEF Init
  <2>3. held \in [Names -> [enrol : {"none", "live", "spent"}, tok : Secrets, psk : Secrets]]
    <3>1. PICK h : h = NoneHeld
      OBVIOUS
    <3>2. h \in [enrol : {"none", "live", "spent"}, tok : Secrets, psk : Secrets]
      BY <1>0, <3>1 DEF NoneHeld
    <3>3. held = [n \in Names |-> [h EXCEPT !.tok = First(n), !.psk = First(n)]]
      BY <3>1, Zenon DEF Init
    <3>4. \A n \in Names : First(n) \in Secrets
      BY <1>0, <1>2
    <3> QED BY <3>2, <3>3, <3>4
  <2>4. /\ placeholder \in BOOLEAN /\ sealed \in BOOLEAN /\ refused \in BOOLEAN /\ migrated \in BOOLEAN
        /\ api \in {"starting", "waiting", "serving"} /\ escaped \subseteq Names /\ unsettled \subseteq Names
        /\ spare \in 0 .. MaxSpare /\ faults \in 0 .. MaxFaults
    <3>1. /\ placeholder = FALSE /\ sealed = FALSE /\ refused = FALSE /\ migrated = FALSE
          /\ api = "starting" /\ escaped = {} /\ unsettled = {} /\ spare = 0 /\ faults = 0
      BY Zenon DEF Init
    <3>2. /\ placeholder \in BOOLEAN /\ sealed \in BOOLEAN /\ refused \in BOOLEAN /\ migrated \in BOOLEAN
          /\ api \in {"starting", "waiting", "serving"} /\ escaped \subseteq Names /\ unsettled \subseteq Names
      BY <3>1, Zenon
    <3>3. spare \in 0 .. MaxSpare /\ faults \in 0 .. MaxFaults
      BY <1>0, <3>1
    <3> QED BY <3>2, <3>3
  <2> QED BY <1>1, <2>1, <2>2, <2>3, <2>4 DEF TypeOK, Rows, Keys, Requests
<1>4. ASSUME NEW c \in Callers PROVE Own(c)
  <2>1. /\ req[c].pc = "idle" /\ req[c].op = "none" /\ req[c].name = None /\ req[c].psk = 0
        /\ req[c].supplied = FALSE /\ req[c].met = FALSE
    BY <1>1 DEF Idle
  <2>2. CallInv(c)
    BY <2>1 DEF CallInv, Fits, At, Touches, Withdrawing
  <2>3. RecordInv(c) /\ StageInv(c)
    BY <2>1, NoneIsNobody DEF RecordInv, StageInv
  <2>4. PlacedInv(c) /\ StaleInv(c)
    BY <2>1 DEF PlacedInv, StaleInv, Placing, Withdrawing, At
  <2> QED BY <2>2, <2>3, <2>4 DEF Own
<1>5. Alone
  BY <1>1 DEF Alone, Idle
<1>6. ASSUME NEW n \in Names PROVE NameInv(n)
  BY <1>2 DEF NameInv, HasRecord, Registered, Agreed, Adoptable, NoRow, NoKey
<1> QED BY <1>3, <1>4, <1>5, <1>6 DEF AdmissionInv, Own

LEMMA NextAdmission == AdmissionInv /\ [Next]_vars => AdmissionInv'
<1> SUFFICES ASSUME AdmissionInv, [Next]_vars PROVE AdmissionInv'
  OBVIOUS
<1>1. CASE UNCHANGED vars
  <2>1. UNCHANGED <<registry, controller, held, bao, process, req, history, spare, faults>>
    BY <1>1 DEF vars
  <2>2. TypeOK'
    BY <2>1 DEF AdmissionInv, TypeOK, registry, controller, bao, process, history
  <2> QED BY <2>1, <2>2, SameElsewhere
<1>2. CASE Build \/ Migrate \/ Seal \/ Unseal \/ RevokeLogin \/ Lapse
  BY <1>2, ProcessInv
<1>3. CASE Crash
  BY <1>3, CrashInv
<1>4. CASE \E n \in Names : Expire(n)
  BY <1>4, ExpireInv
<1>5. ASSUME NEW c \in Callers, Step(c) PROVE AdmissionInv'
  <2>1. CASE \/ Wrap(c) \/ PutAdmissionKey(c) \/ DeleteAdmissionKey(c) \/ Redeem(c)
             \/ CreateGet(c) \/ Insert(c) \/ SetSecrets(c) \/ Built(c)
             \/ AdoptGet(c) \/ AdoptPut(c)
    BY <2>1, WrapInv, PutAdmissionKeyInv, DeleteAdmissionKeyInv, RedeemInv, CreateGetInv, InsertInv,
       SetSecretsInv, BuiltInv, AdoptGetInv, AdoptPutInv
  <2>2. CASE \/ PutWiFiKey(c) \/ SetWiFiKeyStatus(c) \/ DropWiFiKey(c)
             \/ Mark(c) \/ List(c) \/ DropTenant(c) \/ Unavailable(c) \/ Answer(c)
    BY <2>2, PutWiFiKeyInv, SetWiFiKeyStatusInv, DropWiFiKeyInv, MarkInv, ListInv, DropTenantInv,
       UnavailableInv, AnswerInv
  <2>3. CASE \/ EnsureRead(c) \/ RemoveRead(c) \/ AddPlaceholder(c) \/ DeleteKey(c)
             \/ AddKey(c) \/ EnsureAfter(c) \/ ClearPlaceholder(c)
    BY <2>3, EnsureReadInv, RemoveReadInv, AddPlaceholderInv, DeleteKeyInv, AddKeyInv, EnsureAfterInv,
       ClearPlaceholderInv
  <2> QED BY <1>5, <2>1, <2>2, <2>3 DEF Step
<1>6. ASSUME NEW c \in Callers, BuildFails(c) \/ AdoptFails(c) \/ CutOff(c) PROVE AdmissionInv'
  BY <1>6, BuildFailsInv, AdoptFailsInv, CutOffInv
<1>7. CASE \E c \in Callers, n \in Names : Begin(c, n)
  BY <1>7, BeginInv
<1>8. CASE \E k \in Calls : Unneeded(k)
  BY <1>8, UnneededInv
<1> QED BY <1>1, <1>2, <1>3, <1>4, <1>5, <1>6, <1>7, <1>8 DEF Next

\* AdmissionInv holds throughout: of calls about one name that nothing keeps
\* apart, through crashes, seals, refused writes and answers that are lost.
THEOREM AdmissionInductive == Spec => []AdmissionInv
BY InitAdmission, NextAdmission, PTL DEF Spec

\* Rows, keys, entries, calls and the process stay in their types, and a fresh
\* key or token can always be minted (choosePSK, Enroller.Wrap, createNew).
THEOREM AdmissionTypeCorrect == Spec => []TypeOK
<1>1. AdmissionInv => TypeOK
  BY DEF AdmissionInv
<1> QED BY <1>1, AdmissionInductive, PTL

\* A key in the controller has a record in the registry, unless a record was
\* dropped by a call that ran beside another about the name: issueAdmissionKey,
\* CreateWiFiKey, RevokeAdmission, DeleteWiFiKey, Delete and adoptAdmissionKey,
\* cut off anywhere.
THEOREM KeysHaveRecords == Spec => []EveryKeyHasARecord
<1>1. AdmissionInv => EveryKeyHasARecord
  BY DEF AdmissionInv, NameInv, HasRecord, EveryKeyHasARecord
<1> QED BY <1>1, AdmissionInductive, PTL

\* What the last good answer said of a tenant's key stays so until somebody
\* asks again, through other tenants' writes to the same profile (EnsureKey,
\* RemoveKey).
THEOREM AdmissionAnswersHold == Spec => []AnswerHolds
<1>1. AdmissionInv => AnswerHolds
  BY DEF AdmissionInv, NameInv, AnswerHolds
<1> QED BY <1>1, AdmissionInductive, PTL

\* Once the calls about a name are over, and none stopped half done or met
\* another, registry and controller agree about its key (Admit,
\* RevokeAdmission, Create, CreateWiFiKey, DeleteWiFiKey, Delete).
THEOREM AdmissionSettles == Spec => []Settled
<1>1. AdmissionInv => Settled
  BY DEF AdmissionInv, NameInv, Settled, Agreed, Adoptable
<1> QED BY <1>1, AdmissionInductive, PTL

\* The controller refuses a delete only when another call wrote the profile
\* since this one read it: guardMinimum, on its own, never lets a revocation
\* or a correction fail for emptying the profile.
THEOREM RefusalsAreStale == Spec => []RefusedOnlyOnStaleRead
<1>1. AdmissionInv => RefusedOnlyOnStaleRead
  <2> SUFFICES ASSUME AdmissionInv, NEW c \in Callers, Refuses(c), ~req[c].stale PROVE FALSE
    BY RequestsType DEF RefusedOnlyOnStaleRead, AdmissionInv, Requests
  <2>1. ~At(c, "idle")
    BY DEF Refuses, At
  <2>2. StaleInv(c) /\ Name(c) \in Names /\ None \notin Names
    BY <2>1, Facts, NoneIsNobody DEF Own
  <2>3. CASE req[c].pc \in {"ensDelete", "remDelete"} /\ ~CanDelete(Name(c))
    <3>1. /\ profile[Name(c)] # 0
          /\ placeholder \/ \E m \in Names : m # Name(c) /\ profile[m] # 0
      BY <2>2, <2>3 DEF StaleInv
    <3> QED BY <2>2, <2>3, <3>1 DEF CanDelete, Entries
  <2>4. CASE At(c, "ensClear") /\ ~CanDelete(None)
    <3>1. profile[Name(c)] # 0 /\ placeholder
      BY <2>2, <2>4 DEF StaleInv, At
    <3> QED BY <2>2, <2>4, <3>1 DEF CanDelete, Entries
  <2> QED BY <2>3, <2>4 DEF Refuses
<1> QED BY <1>1, AdmissionInductive, PTL
=============================================================================
