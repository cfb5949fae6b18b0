------------------------ MODULE TenantSecretsProofs ------------------------
(***************************************************************************)
(* TenantSecrets, proved for any number of faults and losses: well typed    *)
(* with any number of requests at once, and what it says of the copies of a *)
(* secret with one request at a time (OneAtATime).                          *)
(*                                                                          *)
(* A handler holds up to three copies of the tenant's secrets and the row   *)
(* may become unreadable between any two of its steps.  The invariant       *)
(* orders the copies: what the answer will carry is of the record ensure    *)
(* was called with, that of the copy the step works on, and that of the     *)
(* row; a copy lacks a secret only if the row's could not be read.          *)
(***************************************************************************)
EXTENDS TenantSecrets, FiniteSetTheorems, NaturalsInduction, TLAPS

-----------------------------------------------------------------------------
(* Types.                                                                    *)

Secrets == 0 .. MaxSecret
Value == [Fields -> Secrets]
Points == Pushes \cup {"idle", "get", "insert", "secrets", "mintLog",
                       "loadDash", "mintDash", "done", "failed"}

RequestType ==
    [pc : Points, op : {"none", "create", "reconcile"}, supplied : BOOLEAN, given : Value,
     rec : Value, mine : Value, issued : Value, org : BOOLEAN]

RowType == [status : {"absent", "provisioning", "ready"}, org : BOOLEAN, secrets : Value]

TypeInv ==
    /\ row \in RowType
    /\ lost \in {{}, Sealed} /\ sealed \in BOOLEAN
    /\ held \in [Pushed -> Secrets]
    /\ mem \in Value
    /\ req \in [Requests -> RequestType]
    /\ faults \in 0 .. MaxFaults /\ losses \in 0 .. MaxLosses

-----------------------------------------------------------------------------
(* The copies of a request that is alone.                                    *)

OneAtATime == \A r, q \in Requests : r = q

\* Every secret that a has is b's.
Within(a, b) == \A f \in Fields : a[f] \in {0, b[f]}

\* c is the row's secrets, but for those it cannot be read of.
Current(c) == Within(c, row.secrets) /\ \A f \in Fields \ lost : c[f] = row.secrets[f]

\* The key of the zone and the secret of the state store come and go together.
Paired(c) == c["tsig"] = 0 <=> c["state"] = 0

AfterDash == {"dash", "done"}
AfterLog == {"loadDash", "mintDash"} \cup AfterDash
AfterState == {"mintLog", "log"} \cup AfterLog
Ensuring == {"dns", "state"} \cup AfterState

\* The copies in order.
CopiesInv(r) ==
    LET q == req[r]
    IN  /\ q.pc # "idle" => q.op # "none"
        /\ q.pc = "insert" => ~Present /\ q.op = "create"
        /\ q.supplied => \A f \in Supplied : q.given[f] # 0
        /\ q.pc = "secrets" => Present /\ q.op = "create" /\ Current(q.rec) /\ Paired(q.rec)
        /\ q.pc \in Ensuring =>
              /\ Present /\ Current(q.mine) /\ Paired(q.mine)
              /\ Within(q.issued, q.rec) /\ Within(q.rec, q.mine)
              /\ \A f \in Supplied : q.rec[f] = q.mine[f]
              /\ q.pc \notin AfterDash => q.rec["dash"] = q.mine["dash"]
              /\ q.pc \in {"dns", "state", "mintLog"} => q.rec["log"] = q.mine["log"]
              /\ q.op = "create" => /\ \A f \in Supplied : q.issued[f] = q.rec[f]
                                    /\ q.rec["token"] # 0
        /\ q.pc = "failed" => Within(q.issued, q.rec) /\ Within(q.rec, row.secrets)

\* What the steps behind have pushed.
PushedInv(r) ==
    LET q == req[r]
    IN  /\ q.pc \in AfterState \cup {"state"} => q.mine["tsig"] \in {0, held["tsig"]}
        /\ q.pc \in AfterState => q.mine["state"] # 0 /\ held["state"] = q.mine["state"]
        /\ q.pc \in AfterLog \cup {"log"} => q.mine["log"] # 0
        /\ q.pc \in AfterLog => held["log"] = q.mine["log"]
        /\ q.pc \in AfterDash => q.mine["dash"] # 0
        /\ q.pc = "done" => /\ held["dash"] = q.mine["dash"] /\ held["dread"] = q.mine["log"]
                            /\ row.org

SecretsInv ==
    /\ TypeInv
    /\ Paired(row.secrets)
    /\ \A r \in Requests : CopiesInv(r) /\ PushedInv(r)

-----------------------------------------------------------------------------
(* There is always a new secret.                                             *)

\* Every nonempty set of naturals has a least element, which Min chooses.
LEMMA LeastOf ==
    ASSUME NEW S \in SUBSET Nat, S # {}
    PROVE  Min(S) \in S
<1> DEFINE R == {ss \in Nat \X Nat : ss[1] < ss[2]}
<1>1. IsWellFoundedOn(R, Nat)
  BY NatLessThanWellFounded DEF OpToRel
<1>2. PICK x \in S : \A y \in S : ~ (<<y, x>> \in R)
  BY <1>1, WFMin
<1>3. \A m, n \in Nat : n < m => <<n, m>> \in R
  OBVIOUS
<1>4. ASSUME NEW y \in S PROVE x <= y
  <2>1. x \in Nat /\ y \in Nat
    OBVIOUS
  <2>2. ~ (y < x)
    BY <1>2, <1>3, <2>1
  <2> QED BY <2>1, <2>2
<1> QED BY <1>4 DEF Min

LEMMA UnionBound ==
    ASSUME NEW S, IsFiniteSet(S), NEW T, IsFiniteSet(T), NEW m \in Nat, NEW n \in Nat,
           Cardinality(S) <= m, Cardinality(T) <= n
    PROVE  IsFiniteSet(S \cup T) /\ Cardinality(S \cup T) <= m + n
<1>1. Cardinality(S) \in Nat /\ Cardinality(T) \in Nat
  BY FS_CardinalityType
<1>2. IsFiniteSet(S \cap T)
  BY FS_Subset
<1>3. Cardinality(S \cap T) \in Nat
  BY <1>2, FS_CardinalityType
<1>4. IsFiniteSet(S \cup T) /\ Cardinality(S \cup T) = Cardinality(S) + Cardinality(T) - Cardinality(S \cap T)
  BY FS_Union
<1> QED BY <1>1, <1>3, <1>4

LEMMA SingleBound ==
    ASSUME NEW a
    PROVE  IsFiniteSet({a}) /\ Cardinality({a}) <= 1
<1>1. IsFiniteSet({a})
  BY FS_Singleton, Zenon
<1>2. Cardinality({a}) = 1
  BY FS_Singleton, Zenon
<1> QED BY <1>1, <1>2

LEMMA PairBound ==
    ASSUME NEW a, NEW b
    PROVE  IsFiniteSet({a, b}) /\ Cardinality({a, b}) <= 2
<1>1. IsFiniteSet({a}) /\ Cardinality({a}) <= 1 /\ IsFiniteSet({b}) /\ Cardinality({b}) <= 1
  BY SingleBound
<1>2. IsFiniteSet({a} \cup {b}) /\ Cardinality({a} \cup {b}) <= 1 + 1
  BY <1>1, UnionBound
<1>3. {a} \cup {b} = {a, b}
  OBVIOUS
<1> QED BY <1>2, <1>3

\* The requests hold one secret each in any one of their copies.
LEMMA RequestsBound ==
    ASSUME NEW g, g = [r \in Requests |-> g[r]]
    PROVE  LET S == {g[r] : r \in Requests}
           IN  IsFiniteSet(S) /\ Cardinality(S) <= Cardinality(Requests)
<1> DEFINE S == {g[r] : r \in Requests}
<1>1. g \in Surjection(Requests, S)
  BY DEF Surjection
<1> QED BY <1>1, FS_Surjection, SecretsAssumption

LEMMA MintIsNew ==
    ASSUME NEW f \in Fields
    PROVE  Mint(f) \in 1 .. MaxSecret
<1> DEFINE G == [r \in Requests |-> req[r].given[f]]
           R == [r \in Requests |-> req[r].rec[f]]
           M == [r \in Requests |-> req[r].mine[f]]
           I == [r \in Requests |-> req[r].issued[f]]
           SG == {G[r] : r \in Requests}
           SR == {R[r] : r \in Requests}
           SM == {M[r] : r \in Requests}
           SI == {I[r] : r \in Requests}
           own == {row.secrets[f], mem[f]}
           push == IF f \in Pushed THEN {held[f]} ELSE {}
           read == IF f = "log" THEN {held["dread"]} ELSE {}
           copies == own \cup push \cup read
                       \cup UNION {{req[r].given[f], req[r].rec[f], req[r].mine[f], req[r].issued[f]} :
                                       r \in Requests}
           n == Cardinality(Requests)
<1>1. n \in Nat /\ MaxSecret \in Nat /\ MaxSecret > 4 * n + 4
  BY SecretsAssumption, FS_CardinalityType
<1>2. IsFiniteSet(own) /\ Cardinality(own) <= 2
  BY PairBound
<1>3. IsFiniteSet(push) /\ Cardinality(push) <= 1 /\ IsFiniteSet(read) /\ Cardinality(read) <= 1
  <2>1. /\ IsFiniteSet({held[f]}) /\ Cardinality({held[f]}) <= 1
        /\ IsFiniteSet({held["dread"]}) /\ Cardinality({held["dread"]}) <= 1
    BY SingleBound
  <2>2. IsFiniteSet({}) /\ Cardinality({}) <= 1
    BY FS_EmptySet
  <2>3. push = {held[f]} \/ push = {}
    OBVIOUS
  <2>4. read = {held["dread"]} \/ read = {}
    OBVIOUS
  <2> HIDE DEF push, read
  <2> QED BY <2>1, <2>2, <2>3, <2>4
<1>4. /\ IsFiniteSet(SG) /\ Cardinality(SG) <= n
      /\ IsFiniteSet(SR) /\ Cardinality(SR) <= n
      /\ IsFiniteSet(SM) /\ Cardinality(SM) <= n
      /\ IsFiniteSet(SI) /\ Cardinality(SI) <= n
  BY RequestsBound
<1>5. copies \subseteq ((((own \cup push) \cup read) \cup SG) \cup SR) \cup (SM \cup SI)
  OBVIOUS
<1> HIDE DEF SG, SR, SM, SI, own, push, read, copies, n
<1> DEFINE a == own \cup push
           b == a \cup read
           c == b \cup SG
           d == c \cup SR
           e == SM \cup SI
           all == d \cup e
<1>0. /\ \A k \in Nat : k + 1 \in Nat /\ k + n \in Nat
      /\ {1, 2, 3, 4} \subseteq Nat /\ 2 + 1 = 3 /\ 3 + 1 = 4
  BY <1>1
<1>6. IsFiniteSet(a) /\ Cardinality(a) <= 2 + 1
  BY <1>0, <1>2, <1>3, UnionBound
<1>7. IsFiniteSet(b) /\ Cardinality(b) <= 3 + 1
  <2> HIDE DEF a
  <2>1. Cardinality(a) <= 3
    BY <1>0, <1>6
  <2> QED BY <1>0, <1>3, <1>6, <2>1, UnionBound
<1>8. IsFiniteSet(c) /\ Cardinality(c) <= 4 + n
  <2> HIDE DEF b
  <2>1. Cardinality(b) <= 4
    BY <1>0, <1>7
  <2> QED BY <1>0, <1>1, <1>4, <1>7, <2>1, UnionBound
<1>9. IsFiniteSet(d) /\ Cardinality(d) <= (4 + n) + n
  <2> HIDE DEF c
  <2> QED BY <1>0, <1>1, <1>4, <1>8, UnionBound
<1>10. IsFiniteSet(e) /\ Cardinality(e) <= n + n
  BY <1>1, <1>4, UnionBound
<1>11. IsFiniteSet(all) /\ Cardinality(all) <= ((4 + n) + n) + (n + n)
  <2>1. (4 + n) + n \in Nat /\ n + n \in Nat
    BY <1>1
  <2> HIDE DEF d, e
  <2> QED BY <1>9, <1>10, <2>1, UnionBound
<1> HIDE DEF all
<1>12. ~(1 .. MaxSecret \subseteq all)
  <2> SUFFICES ASSUME 1 .. MaxSecret \subseteq all PROVE FALSE
    OBVIOUS
  <2>1. Cardinality(1 .. MaxSecret) <= Cardinality(all)
    BY <1>11, FS_Subset
  <2>2. Cardinality(1 .. MaxSecret) = MaxSecret
    BY <1>1, FS_Interval
  <2>3. Cardinality(all) \in Nat
    BY <1>11, FS_CardinalityType
  <2> QED BY <1>1, <1>11, <2>1, <2>2, <2>3
<1>13. (1 .. MaxSecret) \ copies # {} /\ (1 .. MaxSecret) \ copies \in SUBSET Nat
  BY <1>5, <1>12 DEF all
<1>14. Min((1 .. MaxSecret) \ copies) \in (1 .. MaxSecret) \ copies
  BY <1>13, LeastOf
<1>15. Mint(f) = Min((1 .. MaxSecret) \ copies)
  BY DEF Mint, copies, own, push, read
<1> QED BY <1>14, <1>15

-----------------------------------------------------------------------------
(* What the moves of a handler do to its locals.                             *)

ReqType == [Requests -> RequestType]

LEMMA Names ==
    /\ Fields = {"token", "tsig", "state", "log", "dash"}
    /\ Supplied = {"token", "tsig", "state"} /\ Sealed = {"tsig", "state", "log", "dash"}
    /\ Pushed = {"tsig", "state", "log", "dash", "dread"}
    /\ Pushes = {"dns", "state", "log", "dash"}
    /\ After["dns"] = "state" /\ After["state"] = "mintLog"
    /\ After["log"] = "loadDash" /\ After["dash"] = "done"
    /\ Empty \in Value /\ \A f \in Fields : Empty[f] = 0
    /\ Secrets \subseteq Nat /\ 0 \in Secrets /\ 1 .. MaxSecret \subseteq Secrets
<1>1. MaxSecret \in Nat
  BY SecretsAssumption
<1>2. Secrets \subseteq Nat /\ 0 \in Secrets /\ 1 .. MaxSecret \subseteq Secrets
  BY <1>1 DEF Secrets
<1>3. Pushes = {"dns", "state", "log", "dash"}
  BY DEF Pushes, After
<1>4. /\ After["dns"] = "state" /\ After["state"] = "mintLog"
      /\ After["log"] = "loadDash" /\ After["dash"] = "done"
  BY DEF After
<1> QED BY <1>2, <1>3, <1>4 DEF Fields, Supplied, Sealed, Pushed, Empty, Value

LEMMA EndFacts ==
    ASSUME req \in ReqType, NEW r \in Requests, End(r)
    PROVE  /\ req' \in ReqType /\ req'[r].pc = "idle" /\ req'[r].supplied = FALSE
           /\ \A q \in Requests \ {r} : req'[q] = req[q]
<1>1. Idle \in RequestType /\ Idle.pc = "idle" /\ Idle.supplied = FALSE
  BY Names DEF Idle, RequestType, Points
<1> HIDE DEF Idle
<1> QED BY <1>1 DEF End, ReqType

LEMMA GotoFacts ==
    ASSUME req \in ReqType, NEW r \in Requests, NEW point \in Points, Goto(r, point)
    PROVE  /\ req' \in ReqType
           /\ req'[r].pc = point /\ req'[r].op = req[r].op /\ req'[r].supplied = req[r].supplied
           /\ req'[r].given = req[r].given /\ req'[r].rec = req[r].rec /\ req'[r].mine = req[r].mine
           /\ req'[r].issued = req[r].issued /\ req'[r].org = req[r].org
           /\ \A q \in Requests \ {r} : req'[q] = req[q]
<1> DEFINE p == [req[r] EXCEPT !.pc = point]
<1>1. req[r] \in RequestType
  BY DEF ReqType
<1>2. /\ p \in RequestType
      /\ p.pc = point /\ p.op = req[r].op /\ p.supplied = req[r].supplied
      /\ p.given = req[r].given /\ p.rec = req[r].rec /\ p.mine = req[r].mine
      /\ p.issued = req[r].issued /\ p.org = req[r].org
  BY <1>1 DEF RequestType
<1>3. req' = [req EXCEPT ![r] = p]
  BY DEF Goto, ReqType
<1> HIDE DEF p
<1> QED BY <1>2, <1>3 DEF ReqType

\* The handler goes on with another copy of the record.
GoOn(r, point, mine) == req' = [req EXCEPT ![r].pc = point, ![r].mine = mine]

LEMMA MineFacts ==
    ASSUME req \in ReqType, NEW r \in Requests, NEW point \in Points, NEW mine \in Value,
           GoOn(r, point, mine)
    PROVE  /\ req' \in ReqType
           /\ req'[r].pc = point /\ req'[r].op = req[r].op /\ req'[r].supplied = req[r].supplied
           /\ req'[r].given = req[r].given /\ req'[r].rec = req[r].rec /\ req'[r].mine = mine
           /\ req'[r].issued = req[r].issued /\ req'[r].org = req[r].org
           /\ \A q \in Requests \ {r} : req'[q] = req[q]
<1> DEFINE p == [req[r] EXCEPT !.pc = point, !.mine = mine]
<1>1. req[r] \in RequestType
  BY DEF ReqType
<1>2. /\ p \in RequestType
      /\ p.pc = point /\ p.op = req[r].op /\ p.supplied = req[r].supplied
      /\ p.given = req[r].given /\ p.rec = req[r].rec /\ p.mine = mine
      /\ p.issued = req[r].issued /\ p.org = req[r].org
  BY <1>1 DEF RequestType
<1>3. req' = [req EXCEPT ![r] = p]
  BY DEF GoOn, ReqType
<1> HIDE DEF p
<1> QED BY <1>2, <1>3 DEF ReqType

\* ensure has started.
Started(r, rec, issued) ==
    /\ req'[r].pc = "dns" /\ req'[r].op = req[r].op /\ req'[r].supplied = FALSE
    /\ req'[r].rec = rec /\ req'[r].mine = rec /\ req'[r].issued = issued

LEMMA StartFacts ==
    ASSUME req \in ReqType, NEW r \in Requests, NEW rec \in Value, NEW issued \in Value,
           NEW org \in BOOLEAN, StartEnsure(r, rec, issued, org)
    PROVE  req' \in ReqType /\ Started(r, rec, issued)
<1> DEFINE p == [Idle EXCEPT !.pc = "dns", !.op = req[r].op, !.rec = rec,
                             !.mine = rec, !.issued = issued, !.org = org]
<1>1. req[r].op \in {"none", "create", "reconcile"}
  BY DEF ReqType, RequestType
<1>2. /\ p \in RequestType /\ p.pc = "dns" /\ p.op = req[r].op /\ p.supplied = FALSE
      /\ p.rec = rec /\ p.mine = rec /\ p.issued = issued
  BY <1>1, Names DEF Idle, RequestType, Points
<1>3. req' = [req EXCEPT ![r] = p]
  BY DEF StartEnsure
<1> HIDE DEF p
<1> QED BY <1>2, <1>3 DEF ReqType, Started

\* What is read of the row.
LEMMA OpenedFacts ==
    ASSUME TypeInv
    PROVE  /\ Opened \in Value /\ Within(Opened, row.secrets)
           /\ \A f \in Fields : Opened[f] = IF f \in lost THEN 0 ELSE row.secrets[f]
<1>1. row.secrets \in Value
  BY DEF TypeInv, RowType
<1>2. \A f \in Fields : Opened[f] = IF f \in lost THEN 0 ELSE row.secrets[f]
  BY DEF Opened
<1>3. Opened \in Value
  BY <1>1, Names DEF Opened, Value
<1> QED BY <1>2, <1>3 DEF Within

-----------------------------------------------------------------------------
(* Types are kept, with any number of requests.                              *)

LEMMA InitType == Init => TypeInv
<1> SUFFICES ASSUME Init PROVE TypeInv
  OBVIOUS
<1>1. Idle \in RequestType
  BY Names DEF Idle, RequestType, Points
<1>2. NoRow \in RowType
  BY Names DEF NoRow, RowType
<1>3. 0 \in 0 .. MaxFaults /\ 0 \in 0 .. MaxLosses
  BY SecretsAssumption
<1> QED BY <1>1, <1>2, <1>3, Names DEF Init, TypeInv

LEMMA BeginType ==
    ASSUME TypeInv, NEW r \in Requests, NEW op \in {"create", "reconcile"},
           NEW supplied \in BOOLEAN, Begin(r, op, supplied)
    PROVE  /\ TypeInv' /\ req'[r].pc = "get" /\ req'[r].op = op /\ req'[r].supplied = supplied
           /\ supplied => req'[r].given = mem
           /\ \A q \in Requests \ {r} : req'[q] = req[q]
<1> DEFINE given == IF supplied THEN mem ELSE Empty
           p == [Idle EXCEPT !.pc = "get", !.op = op, !.supplied = supplied, !.given = given]
<1>1. given \in Value
  BY Names DEF TypeInv
<1>2. supplied => given = mem
  OBVIOUS
<1>3. req' = [req EXCEPT ![r] = p]
  BY DEF Begin
<1> HIDE DEF given
<1>4. p \in RequestType /\ p.pc = "get" /\ p.op = op /\ p.supplied = supplied /\ p.given = given
  BY <1>1, Names DEF Idle, RequestType, Points
<1> HIDE DEF p
<1>5. /\ req' \in [Requests -> RequestType] /\ req'[r] = p
      /\ \A q \in Requests \ {r} : req'[q] = req[q]
  BY <1>3, <1>4 DEF TypeInv
<1>6. UNCHANGED <<row, lost, sealed, held, mem, faults, losses>>
  BY DEF Begin
<1>7. TypeInv'
  BY <1>5, <1>6 DEF TypeInv
<1> QED BY <1>2, <1>4, <1>5, <1>7

\* Everything but the requests is as it was.
LEMMA SameType ==
    ASSUME TypeInv, UNCHANGED <<row, lost, sealed, held, mem, faults, losses>>, req' \in ReqType
    PROVE  TypeInv'
BY DEF TypeInv, ReqType

LEMMA GetType ==
    ASSUME TypeInv, NEW r \in Requests, Get(r)
    PROVE  TypeInv'
<1>1. req \in ReqType /\ req[r] \in RequestType /\ row \in RowType
  BY DEF TypeInv, ReqType
<1>2. UNCHANGED <<row, lost, sealed, held, mem, faults, losses>>
  BY DEF Get
<1>3. CASE Goto(r, "insert")
  <2>1. "insert" \in Points
    BY DEF Points
  <2> QED BY <1>1, <1>2, <1>3, <2>1, GotoFacts, SameType
<1>4. CASE End(r)
  BY <1>1, <1>2, <1>4, EndFacts, SameType
<1>5. CASE req' = [req EXCEPT ![r].pc = "secrets", ![r].rec = Opened, ![r].org = row.org]
  <2> DEFINE p == [req[r] EXCEPT !.pc = "secrets", !.rec = Opened, !.org = row.org]
  <2>1. p \in RequestType
    BY <1>1, OpenedFacts DEF RequestType, RowType, Points
  <2>2. req' = [req EXCEPT ![r] = p]
    BY <1>1, <1>5 DEF ReqType
  <2> HIDE DEF p
  <2>3. req' \in ReqType
    BY <1>1, <2>1, <2>2 DEF ReqType
  <2> QED BY <1>2, <2>3, SameType
<1>6. CASE StartEnsure(r, Opened, Empty, row.org)
  <2>1. Opened \in Value /\ Empty \in Value /\ row.org \in BOOLEAN
    BY <1>1, OpenedFacts, Names DEF RowType
  <2> QED BY <1>1, <1>2, <1>6, <2>1, StartFacts, SameType
<1> QED BY <1>3, <1>4, <1>5, <1>6 DEF Get

\* secretsFor's secrets.
ChosenField(q, f) == CASE f = "dash"     -> 0
                       [] f \in Supplied -> IF q.supplied THEN q.given[f] ELSE Mint(f)
                       [] f = "log"      -> Mint(f)
Chosen(q) == [f \in Fields |-> ChosenField(q, f)]

\* restoreExisting's secrets.
RestoredField(q, f) == CASE q.supplied                 -> IF f \in Supplied THEN q.given[f] ELSE 0
                         [] ~q.supplied /\ f = "token" -> Mint(f)
                         [] OTHER                      -> q.rec[f]
Restored(q) == [f \in Fields |-> RestoredField(q, f)]

LEMMA ChosenFacts ==
    ASSUME NEW q \in RequestType
    PROVE  /\ Chosen(q) \in Value /\ Chosen(q)["dash"] = 0
           /\ q.supplied => \A f \in Supplied : Chosen(q)[f] = q.given[f]
           /\ ~q.supplied => \A f \in Supplied : Chosen(q)[f] # 0
<1>1. \A f \in Fields : Mint(f) \in Secrets /\ Mint(f) # 0
  BY MintIsNew, Names
<1>2. q.given \in Value /\ q.supplied \in BOOLEAN
  BY DEF RequestType
<1>3. /\ "dash" \notin Supplied /\ "log" \notin Supplied
      /\ Supplied \subseteq Fields /\ Fields = Supplied \cup {"log", "dash"}
  BY Names
<1>4. ChosenField(q, "dash") = 0 /\ ChosenField(q, "log") = Mint("log")
  BY <1>3 DEF ChosenField
<1>5. ASSUME NEW f \in Supplied PROVE ChosenField(q, f) = IF q.supplied THEN q.given[f] ELSE Mint(f)
  <2> DEFINE given == IF q.supplied THEN q.given[f] ELSE Mint(f)
  <2>1. f # "dash" /\ f # "log"
    BY <1>3
  <2>2. ChosenField(q, f) = CASE f = "dash"     -> 0
                              [] f \in Supplied -> given
                              [] f = "log"      -> Mint(f)
    BY DEF ChosenField
  <2> HIDE DEF given
  <2>3. ChosenField(q, f) = given
    BY <1>5, <2>1, <2>2
  <2> QED BY <2>3 DEF given
<1>6. \A f \in Fields : ChosenField(q, f) \in Secrets
  BY <1>1, <1>2, <1>3, <1>4, <1>5, Names DEF Value
<1>7. Chosen(q) \in Value /\ \A f \in Fields : Chosen(q)[f] = ChosenField(q, f)
  BY <1>6 DEF Chosen, Value
<1> QED BY <1>1, <1>3, <1>4, <1>5, <1>7

LEMMA RestoredFacts ==
    ASSUME NEW q \in RequestType
    PROVE  /\ Restored(q) \in Value
           /\ q.supplied => \A f \in Fields : Restored(q)[f] = IF f \in Supplied THEN q.given[f] ELSE 0
           /\ ~q.supplied => /\ Restored(q)["token"] # 0
                             /\ \A f \in Sealed : Restored(q)[f] = q.rec[f]
<1>1. \A f \in Fields : Mint(f) \in Secrets /\ Mint(f) # 0
  BY MintIsNew, Names
<1>2. q.given \in Value /\ q.rec \in Value /\ q.supplied \in BOOLEAN
  BY DEF RequestType
<1>3. q.supplied => \A f \in Fields : RestoredField(q, f) = IF f \in Supplied THEN q.given[f] ELSE 0
  BY DEF RestoredField
<1>4. ~q.supplied => \A f \in Fields : RestoredField(q, f) = IF f = "token" THEN Mint(f) ELSE q.rec[f]
  BY DEF RestoredField
<1>5. \A f \in Fields : RestoredField(q, f) \in Secrets
  BY <1>1, <1>2, <1>3, <1>4, Names DEF Value
<1>6. Restored(q) \in Value /\ \A f \in Fields : Restored(q)[f] = RestoredField(q, f)
  BY <1>5 DEF Restored, Value
<1> QED BY <1>1, <1>3, <1>4, <1>6, Names

\* Store.SetSecrets writes typed secrets.
LEMMA StoreFacts ==
    ASSUME row \in RowType, NEW secrets \in Value, Store(secrets)
    PROVE  /\ row' \in RowType /\ lost' = {} /\ row'.status = row.status
           /\ Present => row'.secrets = secrets
           /\ ~Present => row' = row
<1>1. [row EXCEPT !.secrets = secrets] \in RowType
  BY DEF RowType
<1>2. /\ [row EXCEPT !.secrets = secrets].status = row.status
      /\ [row EXCEPT !.secrets = secrets].secrets = secrets
  BY DEF RowType
<1> QED BY <1>1, <1>2 DEF Store

LEMMA InsertType ==
    ASSUME TypeInv, NEW r \in Requests, Insert(r)
    PROVE  TypeInv'
<1>1. req \in ReqType /\ req[r] \in RequestType
  BY DEF TypeInv, ReqType
<1>2. UNCHANGED <<sealed, held, mem, faults, losses>>
  BY DEF Insert
<1>3. CASE End(r) /\ UNCHANGED <<row, lost>>
  BY <1>1, <1>2, <1>3, EndFacts, SameType
<1>4. CASE /\ row' = [status |-> "provisioning", org |-> FALSE, secrets |-> Chosen(req[r])]
           /\ lost' = {}
           /\ StartEnsure(r, Chosen(req[r]), Chosen(req[r]), FALSE)
  <2>1. Chosen(req[r]) \in Value
    BY <1>1, ChosenFacts
  <2>2. req' \in ReqType
    BY <1>1, <1>4, <2>1, StartFacts
  <2>3. row' \in RowType
    BY <1>4, <2>1 DEF RowType
  <2> QED BY <1>2, <1>4, <2>2, <2>3 DEF TypeInv, ReqType
<1> QED BY <1>3, <1>4 DEF Insert, Chosen, ChosenField

LEMMA SetSecretsType ==
    ASSUME TypeInv, NEW r \in Requests, SetSecrets(r)
    PROVE  TypeInv'
<1> DEFINE issued == [f \in Fields |-> IF f \in Supplied THEN Restored(req[r])[f] ELSE 0]
<1>1. req \in ReqType /\ req[r] \in RequestType /\ row \in RowType /\ req[r].org \in BOOLEAN
  BY DEF TypeInv, ReqType, RequestType
<1>2. UNCHANGED <<sealed, held, mem, faults, losses>>
  BY DEF SetSecrets
<1>3. CASE End(r) /\ UNCHANGED <<row, lost>>
  BY <1>1, <1>2, <1>3, EndFacts, SameType
<1>4. CASE Store(Restored(req[r])) /\ StartEnsure(r, Restored(req[r]), issued, req[r].org)
  <2>1. Restored(req[r]) \in Value
    BY <1>1, RestoredFacts
  <2>2. issued \in Value
    BY <2>1, Names DEF Value
  <2> HIDE DEF issued
  <2>3. req' \in ReqType
    BY <1>1, <1>4, <2>1, <2>2, StartFacts
  <2>4. row' \in RowType /\ lost' = {}
    BY <1>1, <1>4, <2>1, StoreFacts
  <2> QED BY <1>2, <2>3, <2>4 DEF TypeInv, ReqType
<1> QED BY <1>3, <1>4 DEF SetSecrets, Restored, RestoredField

\* What a push leaves in the backends.
LEMMA LandedFacts ==
    ASSUME TypeInv, NEW r \in Requests, req[r].pc \in Pushes
    PROVE  /\ Landed(r) \in [Pushed -> Secrets]
           /\ At(r, "dns") =>
                 /\ req[r].mine["tsig"] # 0 => Landed(r)["tsig"] = req[r].mine["tsig"]
                 /\ \A f \in Pushed \ {"tsig"} : Landed(r)[f] = held[f]
           /\ At(r, "state") =>
                 /\ Landed(r)["state"] = req[r].mine["state"]
                 /\ \A f \in Pushed \ {"state"} : Landed(r)[f] = held[f]
           /\ At(r, "log") =>
                 /\ Landed(r)["log"] = req[r].mine["log"]
                 /\ \A f \in Pushed \ {"log"} : Landed(r)[f] = held[f]
           /\ At(r, "dash") =>
                 /\ Landed(r)["dash"] = req[r].mine["dash"] /\ Landed(r)["dread"] = req[r].mine["log"]
                 /\ \A f \in Pushed \ {"dash", "dread"} : Landed(r)[f] = held[f]
<1>1. /\ held \in [Pushed -> Secrets] /\ req[r].mine \in Value
      /\ "tsig" \in Fields /\ Mint("tsig") \in Secrets
  BY MintIsNew, Names DEF TypeInv, RequestType
<1>2. req[r].mine["tsig"] \in Secrets /\ req[r].mine["state"] \in Secrets
      /\ req[r].mine["log"] \in Secrets /\ req[r].mine["dash"] \in Secrets
  BY <1>1, Names DEF Value
<1>3. {"tsig", "state", "log", "dash", "dread"} \subseteq Pushed
  BY Names
<1>4. CASE At(r, "dns")
  <2> DEFINE key == IF req[r].mine["tsig"] # 0 THEN req[r].mine["tsig"]
                    ELSE IF held["tsig"] # 0 THEN held["tsig"] ELSE Mint("tsig")
  <2>1. Landed(r) = [held EXCEPT !["tsig"] = key]
    BY <1>1, <1>3, <1>4 DEF Landed, At
  <2>2. key \in Secrets /\ (req[r].mine["tsig"] # 0 => key = req[r].mine["tsig"])
    BY <1>1, <1>2, <1>3
  <2> HIDE DEF key
  <2> QED BY <1>1, <1>3, <1>4, <2>1, <2>2 DEF At
<1>5. CASE At(r, "state")
  <2>1. Landed(r) = [held EXCEPT !["state"] = req[r].mine["state"]]
    BY <1>5 DEF Landed, At
  <2> QED BY <1>1, <1>2, <1>3, <1>5, <2>1 DEF At
<1>6. CASE At(r, "log")
  <2>1. Landed(r) = [held EXCEPT !["log"] = req[r].mine["log"]]
    BY <1>6 DEF Landed, At
  <2> QED BY <1>1, <1>2, <1>3, <1>6, <2>1 DEF At
<1>7. CASE At(r, "dash")
  <2>1. Landed(r) = [held EXCEPT !["dash"] = req[r].mine["dash"], !["dread"] = req[r].mine["log"]]
    BY <1>7 DEF Landed, At
  <2> QED BY <1>1, <1>2, <1>3, <1>7, <2>1 DEF At
<1> QED BY <1>4, <1>5, <1>6, <1>7, Names DEF At

LEMMA PushType ==
    ASSUME TypeInv, NEW r \in Requests, Push(r)
    PROVE  TypeInv'
<1>1. req \in ReqType /\ row \in RowType /\ req[r].pc \in Pushes
  BY DEF TypeInv, ReqType, Push
<1>2. After[req[r].pc] \in Points
  BY <1>1, Names DEF Points
<1>3. req' \in ReqType
  BY <1>1, <1>2, GotoFacts DEF Push
<1>4. held' \in [Pushed -> Secrets]
  BY <1>1, LandedFacts DEF Push
<1>5. row' \in RowType
  <2>1. [row EXCEPT !.org = TRUE] \in RowType
    BY <1>1 DEF RowType
  <2> QED BY <1>1, <2>1 DEF Push
<1>6. UNCHANGED <<lost, sealed, mem, faults, losses>>
  BY DEF Push
<1> QED BY <1>3, <1>4, <1>5, <1>6 DEF TypeInv, ReqType

LEMMA OneMoreFault ==
    ASSUME faults \in 0 .. MaxFaults
    PROVE  faults < MaxFaults => faults + 1 \in 0 .. MaxFaults
BY SecretsAssumption

LEMMA PushFailsType ==
    ASSUME TypeInv, NEW r \in Requests, PushFails(r)
    PROVE  TypeInv'
<1>1. req \in ReqType /\ req[r].pc \in Pushes /\ "failed" \in Points /\ faults \in 0 .. MaxFaults
  BY DEF TypeInv, ReqType, PushFails, Points
<1>2. req' \in ReqType
  BY <1>1, GotoFacts DEF PushFails
<1>3. held' \in [Pushed -> Secrets] /\ faults' \in 0 .. MaxFaults
  BY <1>1, LandedFacts, OneMoreFault DEF PushFails, TypeInv
<1>4. UNCHANGED <<row, lost, sealed, mem, losses>>
  BY DEF PushFails
<1> QED BY <1>2, <1>3, <1>4 DEF TypeInv, ReqType

\* mine is the step's copy with a secret for f.
Adds(mine, r, f) == mine[f] # 0 /\ \A g \in Fields \ {f} : mine[g] = req[r].mine[g]

\* What a step with a secret of its own does.
LEMMA MintFieldFacts ==
    ASSUME TypeInv, NEW r \in Requests, NEW f \in Fields, NEW next \in Points, MintField(r, f, next)
    PROVE  /\ TypeInv'
           /\ \/ req[r].mine[f] # 0 /\ Goto(r, next) /\ UNCHANGED <<row, lost>>
              \/ Goto(r, "failed") /\ UNCHANGED <<row, lost>>
              \/ \E mine \in Value :
                    /\ req[r].mine[f] = 0 /\ Present /\ lost' = {}
                    /\ row'.secrets = mine /\ row'.status = row.status
                    /\ Adds(mine, r, f)
                    /\ GoOn(r, next, mine)
           /\ UNCHANGED <<sealed, held, mem, faults, losses>>
<1> DEFINE mine == [req[r].mine EXCEPT ![f] = Mint(f)]
<1>1. req \in ReqType /\ row \in RowType /\ req[r].mine \in Value /\ "failed" \in Points
  BY DEF TypeInv, ReqType, RequestType, Points
<1>2. Mint(f) \in Secrets /\ Mint(f) # 0
  BY MintIsNew, Names
<1>3. mine \in Value /\ Adds(mine, r, f)
  BY <1>1, <1>2 DEF Value, Adds
<1>4. UNCHANGED <<sealed, held, mem, faults, losses>>
  BY DEF MintField
<1>5. \/ req[r].mine[f] # 0 /\ Goto(r, next) /\ UNCHANGED <<row, lost>>
      \/ Goto(r, "failed") /\ UNCHANGED <<row, lost>>
      \/ /\ req[r].mine[f] = 0 /\ Present /\ Store(mine)
         /\ GoOn(r, next, mine)
  BY DEF MintField, GoOn
<1> HIDE DEF mine
<1>6. CASE \/ req[r].mine[f] # 0 /\ Goto(r, next) /\ UNCHANGED <<row, lost>>
           \/ Goto(r, "failed") /\ UNCHANGED <<row, lost>>
  <2>1. req' \in ReqType
    BY <1>1, <1>6, GotoFacts
  <2>2. TypeInv'
    BY <1>4, <1>6, <2>1, SameType
  <2> QED BY <1>4, <1>6, <2>2
<1>7. CASE /\ req[r].mine[f] = 0 /\ Present /\ Store(mine)
           /\ GoOn(r, next, mine)
  <2>1. req' \in ReqType
    BY <1>1, <1>3, <1>7, MineFacts
  <2>2. row' \in RowType /\ lost' = {} /\ row'.secrets = mine /\ row'.status = row.status
    BY <1>1, <1>3, <1>7, StoreFacts
  <2>3. TypeInv'
    BY <1>4, <2>1, <2>2 DEF TypeInv, ReqType
  <2> QED BY <1>3, <1>4, <1>7, <2>2, <2>3
<1> QED BY <1>5, <1>6, <1>7

LEMMA MintType ==
    ASSUME TypeInv, NEW r \in Requests, MintLog(r) \/ MintDash(r)
    PROVE  TypeInv'
<1>1. {"log", "dash"} \subseteq Fields /\ {"log", "dash"} \subseteq Points
  BY Names DEF Points
<1> QED BY <1>1, MintFieldFacts DEF MintLog, MintDash

\* What reload answers.
LEMMA ReloadedFacts ==
    ASSUME TypeInv, NEW r \in Requests
    PROVE  /\ Reloaded(r).secrets \in Value /\ Reloaded(r).org \in BOOLEAN
           /\ Reloaded(r).secrets \in {req[r].rec, Opened}
<1>1. req[r].rec \in Value /\ req[r].org \in BOOLEAN /\ row.org \in BOOLEAN
  BY DEF TypeInv, RequestType, RowType
<1> QED BY <1>1, OpenedFacts DEF Reloaded

LEMMA LoadDashType ==
    ASSUME TypeInv, NEW r \in Requests, LoadDash(r)
    PROVE  TypeInv'
<1> DEFINE mine == Reloaded(r).secrets
           point == IF mine["log"] # 0 THEN "mintDash" ELSE "failed"
<1>1. req \in ReqType /\ mine \in Value /\ point \in Points
  BY ReloadedFacts DEF TypeInv, ReqType, Points
<1>2. GoOn(r, point, mine)
  BY DEF LoadDash, GoOn
<1>3. UNCHANGED <<row, lost, sealed, held, mem, faults, losses>>
  BY DEF LoadDash
<1> HIDE DEF mine, point
<1> QED BY <1>1, <1>2, <1>3, MineFacts, SameType

LEMMA AnswerFacts ==
    ASSUME TypeInv, NEW r \in Requests
    PROVE  /\ Answer(r) \in Value
           /\ Answer(r)["dash"] \in {0, Reloaded(r).secrets["dash"]}
           /\ req[r].op = "create" => \A f \in Fields \ {"dash"} : Answer(r)[f] = req[r].issued[f]
           /\ req[r].op # "create" =>
                 /\ Answer(r)["log"] \in {0, Reloaded(r).secrets["log"]}
                 /\ \A f \in Supplied : Answer(r)[f] = 0
<1> DEFINE now == Reloaded(r)
           dash == IF now.org THEN now.secrets["dash"] ELSE 0
<1>1. req[r].issued \in Value /\ now.secrets \in Value
  BY ReloadedFacts DEF TypeInv, RequestType
<1>2. dash \in {0, now.secrets["dash"]} /\ dash \in Secrets
  BY <1>1, Names DEF Value
<1>3. \/ req[r].op = "create" /\ Answer(r) = [req[r].issued EXCEPT !["dash"] = dash]
      \/ /\ req[r].op # "create"
         /\ \/ Answer(r) = [Empty EXCEPT !["log"] = now.secrets["log"], !["dash"] = dash]
            \/ Answer(r) = Empty
  BY DEF Answer
<1> HIDE DEF now, dash
<1>4. now.secrets["log"] \in Secrets /\ {"log", "dash"} \subseteq Fields
  BY <1>1, Names DEF Value
<1>5. CASE req[r].op = "create" /\ Answer(r) = [req[r].issued EXCEPT !["dash"] = dash]
  BY <1>1, <1>2, <1>4, <1>5 DEF Value, now
<1>6. CASE req[r].op # "create" /\ Answer(r) = [Empty EXCEPT !["log"] = now.secrets["log"], !["dash"] = dash]
  BY <1>1, <1>2, <1>4, <1>6, Names DEF Value, now
<1>7. CASE req[r].op # "create" /\ Answer(r) = Empty
  BY <1>7, Names
<1> QED BY <1>3, <1>5, <1>6, <1>7

LEMMA FinishType ==
    ASSUME TypeInv, NEW r \in Requests, EnsureDone(r) \/ EnsureFailed(r)
    PROVE  TypeInv'
<1>1. PICK point \in {"done", "failed"}, status \in {"provisioning", "ready"} : Finish(r, point, status)
  BY DEF EnsureDone, EnsureFailed
<1>2. req \in ReqType /\ row \in RowType /\ mem \in Value /\ faults \in 0 .. MaxFaults
  BY DEF TypeInv, ReqType
<1>3. req' \in ReqType
  BY <1>1, <1>2, EndFacts DEF Finish
<1>4. row' \in RowType
  <2>1. [row EXCEPT !.status = status] \in RowType
    BY <1>2 DEF RowType
  <2> QED BY <1>1, <1>2, <2>1 DEF Finish
<1>5. mem' \in Value /\ faults' \in 0 .. MaxFaults
  <2>1. Deliver(r)
    BY <1>1 DEF Finish
  <2>2. CASE /\ mem' = [f \in Fields |-> IF Answer(r)[f] # 0 THEN Answer(r)[f] ELSE mem[f]]
             /\ UNCHANGED faults
    BY <1>2, <2>2, AnswerFacts DEF Value
  <2>3. CASE faults < MaxFaults /\ faults' = faults + 1 /\ UNCHANGED mem
    BY <1>2, <2>3, OneMoreFault
  <2> QED BY <2>1, <2>2, <2>3 DEF Deliver
<1>6. UNCHANGED <<lost, sealed, held, losses>>
  BY <1>1 DEF Finish
<1> QED BY <1>3, <1>4, <1>5, <1>6 DEF TypeInv, ReqType

LEMMA AroundType ==
    ASSUME TypeInv, (\E r \in Requests : Abandon(r)) \/ Seal \/ Unseal \/ RebuildKey \/ LoseRegistry
    PROVE  TypeInv'
<1>1. req \in ReqType /\ faults \in 0 .. MaxFaults /\ losses \in 0 .. MaxLosses
  BY DEF TypeInv, ReqType
<1>2. ASSUME NEW r \in Requests, Abandon(r) PROVE TypeInv'
  <2>1. req' \in ReqType
    BY <1>1, <1>2, EndFacts DEF Abandon
  <2> QED BY <1>1, <1>2, <2>1, OneMoreFault DEF Abandon, TypeInv, ReqType
<1>3. CASE Seal
  BY <1>1, <1>3, OneMoreFault DEF Seal, TypeInv
<1>4. CASE Unseal
  BY <1>4 DEF Unseal, TypeInv
<1>5. CASE RebuildKey
  BY <1>1, <1>5, OneMoreFault DEF RebuildKey, TypeInv
<1>6. CASE LoseRegistry
  <2>1. NoRow \in RowType
    BY Names DEF NoRow, RowType
  <2>2. losses' \in 0 .. MaxLosses
    BY <1>1, <1>6, SecretsAssumption DEF LoseRegistry
  <2> QED BY <1>6, <2>1, <2>2 DEF LoseRegistry, TypeInv
<1> QED BY <1>2, <1>3, <1>4, <1>5, <1>6

LEMMA NextType == TypeInv /\ [Next]_vars => TypeInv'
<1> SUFFICES ASSUME TypeInv, [Next]_vars PROVE TypeInv'
  OBVIOUS
<1>1. CASE UNCHANGED vars
  BY <1>1 DEF vars, TypeInv
<1>2. ASSUME NEW r \in Requests, Restore(r) \/ Begin(r, "create", FALSE) \/ Begin(r, "reconcile", FALSE)
      PROVE  TypeInv'
  BY <1>2, BeginType DEF Restore
<1>3. ASSUME NEW r \in Requests, Proceed(r) PROVE TypeInv'
  BY <1>3, GetType, InsertType, SetSecretsType, PushType, PushFailsType, MintType, LoadDashType, FinishType
     DEF Proceed
<1> QED BY <1>1, <1>2, <1>3, AroundType DEF Next

-----------------------------------------------------------------------------
(* The copies stay in order, with one request at a time.                     *)

LEMMA Alone ==
    ASSUME OneAtATime, NEW r \in Requests, TypeInv', Paired(row.secrets)', CopiesInv(r)', PushedInv(r)'
    PROVE  SecretsInv'
<1>1. \A q \in Requests : q = r
  BY DEF OneAtATime
<1> QED BY <1>1 DEF SecretsInv

\* The handler of a request that is over holds nothing that matters.
LEMMA EndKeeps ==
    ASSUME SecretsInv, OneAtATime, TypeInv', NEW r \in Requests, End(r), row'.secrets = row.secrets
    PROVE  SecretsInv'
<1>1. req'[r].pc = "idle" /\ req'[r].supplied = FALSE
  BY EndFacts DEF SecretsInv, TypeInv, ReqType
<1>2. Paired(row.secrets)'
  BY DEF SecretsInv, Paired
<1>3. CopiesInv(r)'
  BY <1>1 DEF CopiesInv, Ensuring, AfterState, AfterLog, AfterDash
<1>4. PushedInv(r)'
  BY <1>1 DEF PushedInv, AfterState, AfterLog, AfterDash
<1> QED BY <1>2, <1>3, <1>4, Alone

\* rec is what the row will hold, but for what cannot be read of it.
WillHold(rec) ==
    /\ row'.status # "absent"
    /\ \A f \in Fields : rec[f] \in {0, row'.secrets[f]}
    /\ \A f \in Fields \ lost' : rec[f] = row'.secrets[f]

\* A create's answer carries the record's supplied secrets.
Issues(rec, issued) == rec["token"] # 0 /\ \A f \in Supplied : issued[f] = rec[f]

\* Nothing is pushed yet when ensure starts, and the copies are the row's.
LEMMA StartKeeps ==
    ASSUME TypeInv, OneAtATime, TypeInv', NEW r \in Requests, NEW rec \in Value, NEW issued \in Value,
           Started(r, rec, issued), Paired(row.secrets)', WillHold(rec), Paired(rec), Within(issued, rec),
           req[r].op # "none", req[r].op = "create" => Issues(rec, issued)
    PROVE  SecretsInv'
<1>1. /\ req'[r].pc = "dns" /\ req'[r].op = req[r].op /\ req'[r].supplied = FALSE
      /\ req'[r].rec = rec /\ req'[r].mine = rec /\ req'[r].issued = issued
  BY DEF Started
<1>2. Current(req[r].mine)' /\ Within(req[r].rec, req[r].mine)' /\ Within(req[r].issued, req[r].rec)'
  BY <1>1 DEF WillHold, Current, Within
<1>3. Paired(req[r].mine)'
  BY <1>1 DEF Paired
<1>4. Present'
  BY DEF WillHold, Present
<1>5. CopiesInv(r)'
  BY <1>1, <1>2, <1>3, <1>4 DEF CopiesInv, Issues
<1>6. PushedInv(r)'
  BY <1>1 DEF PushedInv, AfterState, AfterLog, AfterDash
<1> QED BY <1>5, <1>6, Alone

LEMMA OpenedIsCurrent ==
    ASSUME TypeInv, Paired(row.secrets)
    PROVE  Current(Opened) /\ Paired(Opened)
<1>1. /\ \A f \in Fields : Opened[f] = IF f \in lost THEN 0 ELSE row.secrets[f]
      /\ Within(Opened, row.secrets)
  BY OpenedFacts
<1>2. Current(Opened)
  BY <1>1 DEF Current
<1>3. lost \in {{}, Sealed}
  BY DEF TypeInv
<1>4. Opened["tsig"] = IF "tsig" \in lost THEN 0 ELSE row.secrets["tsig"]
  BY <1>1, Names
<1>5. Opened["state"] = IF "state" \in lost THEN 0 ELSE row.secrets["state"]
  BY <1>1, Names
<1>6. "tsig" \in lost <=> "state" \in lost
  BY <1>3, Names
<1>7. Paired(Opened)
  BY <1>4, <1>5, <1>6 DEF Paired
<1> QED BY <1>2, <1>7

LEMMA BeginKeeps ==
    ASSUME SecretsInv, OneAtATime, NEW r \in Requests, NEW op \in {"create", "reconcile"},
           NEW supplied \in BOOLEAN, Begin(r, op, supplied)
    PROVE  SecretsInv'
<1>1. /\ TypeInv' /\ req'[r].pc = "get" /\ req'[r].op = op /\ req'[r].supplied = supplied
      /\ supplied => req'[r].given = mem
  BY BeginType DEF SecretsInv
<1>2. supplied => \A f \in Supplied : mem[f] # 0
  BY DEF Begin
<1>3. CopiesInv(r)'
  BY <1>1, <1>2 DEF CopiesInv, Ensuring, AfterState, AfterLog, AfterDash
<1>4. PushedInv(r)'
  BY <1>1 DEF PushedInv, AfterState, AfterLog, AfterDash
<1>5. Paired(row.secrets)'
  BY DEF SecretsInv, Begin, Paired
<1> QED BY <1>1, <1>3, <1>4, <1>5, Alone

LEMMA GetKeeps ==
    ASSUME SecretsInv, OneAtATime, NEW r \in Requests, Get(r)
    PROVE  SecretsInv'
<1>1. /\ TypeInv /\ TypeInv' /\ req \in ReqType /\ req[r] \in RequestType /\ row \in RowType
      /\ Paired(row.secrets) /\ CopiesInv(r)
  BY GetType DEF SecretsInv, TypeInv, ReqType
<1>2. row' = row /\ lost' = lost
  BY DEF Get
<1>3. Current(Opened) /\ Paired(Opened) /\ Opened \in Value
  BY <1>1, OpenedIsCurrent, OpenedFacts
<1>4. Paired(row.secrets)'
  BY <1>1, <1>2 DEF Paired
<1>5. CASE Goto(r, "insert") /\ ~Present /\ req[r].op = "create"
  <2>1. "insert" \in Points
    BY DEF Points
  <2>2. /\ req'[r].pc = "insert" /\ req'[r].op = req[r].op
        /\ req'[r].supplied = req[r].supplied /\ req'[r].given = req[r].given
    BY <1>1, <1>5, <2>1, GotoFacts
  <2>3. CopiesInv(r)'
    BY <1>1, <1>2, <1>5, <2>2 DEF CopiesInv, Present, Ensuring, AfterState, AfterLog, AfterDash
  <2>4. PushedInv(r)'
    BY <2>2 DEF PushedInv, AfterState, AfterLog, AfterDash
  <2> QED BY <1>1, <1>4, <2>3, <2>4, Alone
<1>6. CASE End(r)
  BY <1>1, <1>2, <1>6, EndKeeps
<1>7. CASE /\ Present /\ req[r].op = "create"
           /\ req' = [req EXCEPT ![r].pc = "secrets", ![r].rec = Opened, ![r].org = row.org]
  <2>1. /\ req'[r].pc = "secrets" /\ req'[r].op = req[r].op /\ req'[r].rec = Opened
        /\ req'[r].supplied = req[r].supplied /\ req'[r].given = req[r].given
    BY <1>1, <1>7 DEF ReqType, RequestType
  <2>2. Current(req[r].rec)' /\ Paired(req[r].rec)'
    BY <1>2, <1>3, <2>1 DEF Current, Within, Paired
  <2>3. CopiesInv(r)'
    BY <1>1, <1>2, <1>7, <2>1, <2>2 DEF CopiesInv, Present, Ensuring, AfterState, AfterLog, AfterDash
  <2>4. PushedInv(r)'
    BY <2>1 DEF PushedInv, AfterState, AfterLog, AfterDash
  <2> QED BY <1>1, <1>4, <2>3, <2>4, Alone
<1>8. CASE Present /\ req[r].op = "reconcile" /\ StartEnsure(r, Opened, Empty, row.org)
  <2>1. Empty \in Value /\ row.org \in BOOLEAN /\ Within(Empty, Opened)
    BY <1>1, Names DEF RowType, Within
  <2>2. WillHold(Opened)
    BY <1>2, <1>3, <1>8 DEF WillHold, Present, Current, Within
  <2>3. req[r].op # "create" /\ req[r].op # "none"
    BY <1>8
  <2>4. Started(r, Opened, Empty)
    BY <1>1, <1>3, <1>8, <2>1, StartFacts
  <2> QED BY <1>1, <1>3, <1>4, <2>1, <2>2, <2>3, <2>4, StartKeeps
<1> QED BY <1>5, <1>6, <1>7, <1>8 DEF Get

LEMMA InsertKeeps ==
    ASSUME SecretsInv, OneAtATime, NEW r \in Requests, Insert(r)
    PROVE  SecretsInv'
<1> DEFINE q == req[r]
           secrets == Chosen(q)
<1>1. TypeInv /\ TypeInv' /\ req \in ReqType /\ q \in RequestType /\ q.supplied \in BOOLEAN /\ CopiesInv(r)
  BY InsertType DEF SecretsInv, TypeInv, ReqType, RequestType
<1>2. CASE End(r) /\ UNCHANGED <<row, lost>>
  BY <1>1, <1>2, EndKeeps
<1>3. CASE /\ row' = [status |-> "provisioning", org |-> FALSE, secrets |-> secrets]
           /\ lost' = {}
           /\ StartEnsure(r, secrets, secrets, FALSE)
  <2>1. secrets \in Value /\ \A f \in Supplied : secrets[f] # 0
    BY <1>1, ChosenFacts DEF CopiesInv
  <2> HIDE DEF secrets
  <2>2. row'.secrets = secrets /\ row'.status = "provisioning" /\ FALSE \in BOOLEAN
    BY <1>3
  <2>3. Paired(secrets) /\ secrets["token"] # 0 /\ Within(secrets, secrets)
    BY <2>1, Names DEF Paired, Within
  <2>4. Paired(row.secrets)'
    BY <2>2, <2>3 DEF Paired
  <2>5. WillHold(secrets) /\ Issues(secrets, secrets)
    BY <2>2, <2>3 DEF WillHold, Issues
  <2>6. Started(r, secrets, secrets)
    BY <1>1, <1>3, <2>1, StartFacts
  <2>7. req[r].op # "none"
    BY <1>1 DEF CopiesInv, Insert, At
  <2> QED BY <1>1, <2>1, <2>3, <2>4, <2>5, <2>6, <2>7, StartKeeps
<1> QED BY <1>2, <1>3 DEF Insert, Chosen, ChosenField

LEMMA SetSecretsKeeps ==
    ASSUME SecretsInv, OneAtATime, NEW r \in Requests, SetSecrets(r)
    PROVE  SecretsInv'
<1> DEFINE q == req[r]
           secrets == Restored(q)
           issued == [f \in Fields |-> IF f \in Supplied THEN secrets[f] ELSE 0]
<1>1. /\ TypeInv /\ TypeInv' /\ req \in ReqType /\ q \in RequestType /\ q.supplied \in BOOLEAN /\ q.org \in BOOLEAN
      /\ row \in RowType /\ CopiesInv(r)
  BY SetSecretsType DEF SecretsInv, TypeInv, ReqType, RequestType
<1>2. CASE End(r) /\ UNCHANGED <<row, lost>>
  BY <1>1, <1>2, EndKeeps
<1>3. CASE At(r, "secrets") /\ Present /\ Store(secrets) /\ StartEnsure(r, secrets, issued, q.org)
  <2>1. secrets \in Value
    BY <1>1, RestoredFacts
  <2>2. Paired(q.rec) /\ (q.supplied => \A f \in Supplied : q.given[f] # 0)
    BY <1>1, <1>3 DEF CopiesInv, At
  <2>3. Paired(secrets) /\ secrets["token"] # 0
    <3>1. CASE q.supplied
      <4>1. \A f \in Supplied : secrets[f] = q.given[f]
        BY <1>1, <3>1, RestoredFacts, Names
      <4> QED BY <2>2, <3>1, <4>1, Names DEF Paired
    <3>2. CASE ~q.supplied
      <4>1. secrets["token"] # 0 /\ \A f \in Sealed : secrets[f] = q.rec[f]
        BY <1>1, <3>2, RestoredFacts
      <4> QED BY <2>2, <4>1, Names DEF Paired
    <3> QED BY <1>1, <3>1, <3>2
  <2> HIDE DEF secrets
  <2>4. issued \in Value /\ Within(issued, secrets) /\ \A f \in Supplied : issued[f] = secrets[f]
    BY <2>1, Names DEF Value, Within
  <2> HIDE DEF issued
  <2>5. row'.secrets = secrets /\ row'.status = row.status /\ lost' = {}
    BY <1>1, <1>3, <2>1, StoreFacts
  <2>6. Paired(row.secrets)'
    BY <2>3, <2>5 DEF Paired
  <2>7. WillHold(secrets) /\ Issues(secrets, issued)
    BY <1>3, <2>3, <2>4, <2>5 DEF WillHold, Present, Issues
  <2>8. Started(r, secrets, issued)
    BY <1>1, <1>3, <2>1, <2>4, StartFacts
  <2>9. req[r].op # "none"
    BY <1>1, <1>3 DEF CopiesInv, At
  <2> QED BY <1>1, <2>1, <2>3, <2>4, <2>6, <2>7, <2>8, <2>9, StartKeeps
<1> QED BY <1>2, <1>3 DEF SetSecrets, Restored, RestoredField

\* A step that fails leaves the copies as they were.
LEMMA FailedKeeps ==
    ASSUME SecretsInv, OneAtATime, TypeInv', NEW r \in Requests, req[r].pc \in Ensuring,
           req'[r].pc = "failed", req'[r].op = req[r].op,
           req'[r].supplied = req[r].supplied, req'[r].given = req[r].given,
           req'[r].rec = req[r].rec, req'[r].issued = req[r].issued, UNCHANGED row
    PROVE  SecretsInv'
<1>1. CopiesInv(r) /\ Paired(row.secrets)
  BY DEF SecretsInv
<1>2. /\ Within(req[r].issued, req[r].rec) /\ Within(req[r].rec, req[r].mine)
      /\ Within(req[r].mine, row.secrets)
  BY <1>1 DEF CopiesInv, Current
<1>3. Within(req[r].issued, req[r].rec)' /\ Within(req[r].rec, row.secrets)'
  BY <1>2 DEF Within
<1>4. CopiesInv(r)'
  BY <1>1, <1>3 DEF CopiesInv, Ensuring, AfterState, AfterLog, AfterDash
<1>5. PushedInv(r)'
  BY DEF PushedInv, AfterState, AfterLog, AfterDash
<1>6. Paired(row.secrets)'
  BY <1>1 DEF Paired
<1> QED BY <1>4, <1>5, <1>6, Alone

\* The copies of a step that goes on with the row and its own copies as they
\* were are in order at the next point.
LEMMA CopiesGoOn ==
    ASSUME NEW r \in Requests, CopiesInv(r), req[r].pc \in Ensuring, req'[r].pc \in Ensuring,
           req[r].pc \in AfterDash => req'[r].pc \in AfterDash,
           req'[r].pc \in {"dns", "state", "mintLog"} => req[r].pc \in {"dns", "state", "mintLog"},
           req'[r].op = req[r].op, req'[r].supplied = req[r].supplied,
           req'[r].given = req[r].given, req'[r].rec = req[r].rec, req'[r].issued = req[r].issued,
           \A f \in Fields : req'[r].mine[f] = req[r].mine[f],
           row'.secrets = row.secrets, row'.status = row.status, lost' = lost
    PROVE  CopiesInv(r)'
<1>1. /\ Present /\ Current(req[r].mine) /\ Paired(req[r].mine)
      /\ Within(req[r].issued, req[r].rec) /\ Within(req[r].rec, req[r].mine)
      /\ \A f \in Supplied : req[r].rec[f] = req[r].mine[f]
      /\ req[r].pc \notin AfterDash => req[r].rec["dash"] = req[r].mine["dash"]
      /\ req[r].pc \in {"dns", "state", "mintLog"} => req[r].rec["log"] = req[r].mine["log"]
      /\ req[r].op = "create" => /\ \A f \in Supplied : req[r].issued[f] = req[r].rec[f]
                                 /\ req[r].rec["token"] # 0
      /\ req[r].supplied => \A f \in Supplied : req[r].given[f] # 0
      /\ req[r].op # "none"
  BY DEF CopiesInv, Ensuring, AfterState, AfterLog, AfterDash
<1>2. Present'
  BY <1>1 DEF Present
<1>3. Current(req[r].mine)'
  BY <1>1 DEF Current, Within
<1>4. Paired(req[r].mine)'
  BY <1>1, Names DEF Paired
<1>5. Within(req[r].issued, req[r].rec)' /\ Within(req[r].rec, req[r].mine)'
  BY <1>1 DEF Within
<1>6. \A f \in Supplied : req'[r].rec[f] = req'[r].mine[f]
  BY <1>1, Names
<1>7. req'[r].pc \notin AfterDash => req'[r].rec["dash"] = req'[r].mine["dash"]
  BY <1>1, Names
<1>8. req'[r].pc \in {"dns", "state", "mintLog"} => req'[r].rec["log"] = req'[r].mine["log"]
  BY <1>1, Names
<1>9. req'[r].pc \notin {"insert", "secrets", "failed"}
  BY DEF Ensuring, AfterState, AfterLog, AfterDash
<1> QED BY <1>1, <1>2, <1>3, <1>4, <1>5, <1>6, <1>7, <1>8, <1>9 DEF CopiesInv

LEMMA PushKeeps ==
    ASSUME SecretsInv, OneAtATime, NEW r \in Requests, Push(r)
    PROVE  SecretsInv'
<1>1. /\ TypeInv /\ TypeInv' /\ req \in ReqType /\ row \in RowType /\ Paired(row.secrets)
      /\ CopiesInv(r) /\ PushedInv(r) /\ req[r].pc \in {"dns", "state", "log", "dash"}
  BY PushType, Names DEF SecretsInv, TypeInv, ReqType, Push
<1>2. row'.secrets = row.secrets /\ row'.status = row.status /\ lost' = lost
  <2>1. [row EXCEPT !.org = TRUE].secrets = row.secrets /\ [row EXCEPT !.org = TRUE].status = row.status
    BY <1>1 DEF RowType
  <2> QED BY <2>1 DEF Push
<1>3. After[req[r].pc] \in Points
  BY <1>1, Names DEF Points
<1>4. /\ req'[r].pc = After[req[r].pc] /\ req'[r].op = req[r].op /\ req'[r].supplied = req[r].supplied
      /\ req'[r].given = req[r].given /\ req'[r].rec = req[r].rec /\ req'[r].mine = req[r].mine
      /\ req'[r].issued = req[r].issued
  BY <1>1, <1>3, GotoFacts DEF Push
<1>5. CopiesInv(r)'
  <2>1. /\ req[r].pc \in Ensuring /\ req'[r].pc \in Ensuring
        /\ req[r].pc \in AfterDash => req'[r].pc \in AfterDash
        /\ req'[r].pc \in {"dns", "state", "mintLog"} => req[r].pc \in {"dns", "state", "mintLog"}
    BY <1>1, <1>4, Names DEF Ensuring, AfterState, AfterLog, AfterDash
  <2> QED BY <1>1, <1>2, <1>4, <2>1, CopiesGoOn
<1>6. Paired(row.secrets)'
  BY <1>1, <1>2 DEF Paired
<1>7. PushedInv(r)'
  <2>1. held' = Landed(r) /\ ~Refused(r) /\ req[r].pc \in Pushes
    BY DEF Push
  <2>2. {"tsig", "state", "log", "dash", "dread"} \subseteq Pushed
    BY Names
  <2>3. CASE req[r].pc = "dns"
    <3>1. req'[r].pc = "state"
      BY <1>4, <2>3, Names
    <3>2. req[r].mine["tsig"] # 0 => held'["tsig"] = req[r].mine["tsig"]
      BY <1>1, <2>1, <2>3, LandedFacts DEF At
    <3> QED BY <1>4, <3>1, <3>2 DEF PushedInv, AfterState, AfterLog, AfterDash
  <2>4. CASE req[r].pc = "state"
    <3>1. req'[r].pc = "mintLog"
      BY <1>4, <2>4, Names
    <3>2. held'["state"] = req[r].mine["state"] /\ held'["tsig"] = held["tsig"]
      BY <1>1, <2>1, <2>2, <2>4, LandedFacts DEF At
    <3>3. req[r].mine["state"] # 0 /\ req[r].mine["tsig"] \in {0, held["tsig"]}
      BY <1>1, <2>1, <2>4 DEF Refused, At, PushedInv
    <3> QED BY <1>4, <3>1, <3>2, <3>3 DEF PushedInv, AfterState, AfterLog, AfterDash
  <2>5. CASE req[r].pc = "log"
    <3>1. req'[r].pc = "loadDash"
      BY <1>4, <2>5, Names
    <3>2. held'["log"] = req[r].mine["log"] /\ held'["tsig"] = held["tsig"] /\ held'["state"] = held["state"]
      BY <1>1, <2>1, <2>2, <2>5, LandedFacts DEF At
    <3>3. /\ req[r].mine["state"] # 0 /\ held["state"] = req[r].mine["state"]
          /\ req[r].mine["tsig"] \in {0, held["tsig"]} /\ req[r].mine["log"] # 0
      BY <1>1, <2>5 DEF PushedInv, AfterState
    <3> QED BY <1>4, <3>1, <3>2, <3>3 DEF PushedInv, AfterState, AfterLog, AfterDash
  <2>6. CASE req[r].pc = "dash"
    <3>1. req'[r].pc = "done"
      BY <1>4, <2>6, Names
    <3>2. /\ held'["dash"] = req[r].mine["dash"] /\ held'["dread"] = req[r].mine["log"]
          /\ held'["log"] = held["log"] /\ held'["tsig"] = held["tsig"] /\ held'["state"] = held["state"]
      BY <1>1, <2>1, <2>2, <2>6, LandedFacts DEF At
    <3>3. /\ req[r].mine["state"] # 0 /\ held["state"] = req[r].mine["state"]
          /\ req[r].mine["tsig"] \in {0, held["tsig"]} /\ req[r].mine["log"] # 0
          /\ held["log"] = req[r].mine["log"] /\ req[r].mine["dash"] # 0
      BY <1>1, <2>6 DEF PushedInv, AfterState, AfterLog, AfterDash
    <3>4. row'.org
      <4>1. Present
        BY <1>1, <2>6 DEF CopiesInv, Ensuring, AfterState, AfterLog, AfterDash
      <4>2. [row EXCEPT !.org = TRUE].org
        BY <1>1 DEF RowType
      <4> QED BY <2>6, <4>1, <4>2 DEF Push, At
    <3> QED BY <1>4, <3>1, <3>2, <3>3, <3>4 DEF PushedInv, AfterState, AfterLog, AfterDash
  <2> QED BY <1>1, <2>3, <2>4, <2>5, <2>6
<1> QED BY <1>1, <1>5, <1>6, <1>7, Alone

LEMMA PushFailsKeeps ==
    ASSUME SecretsInv, OneAtATime, NEW r \in Requests, PushFails(r)
    PROVE  SecretsInv'
<1>1. TypeInv /\ TypeInv' /\ req \in ReqType /\ req[r].pc \in Pushes /\ "failed" \in Points
  BY PushFailsType DEF SecretsInv, TypeInv, ReqType, PushFails, Points
<1>2. req[r].pc \in Ensuring
  BY <1>1, Names DEF Ensuring, AfterState, AfterLog, AfterDash
<1>3. Goto(r, "failed") /\ UNCHANGED row
  BY DEF PushFails
<1>4. /\ req'[r].pc = "failed" /\ req'[r].op = req[r].op
      /\ req'[r].supplied = req[r].supplied /\ req'[r].given = req[r].given
      /\ req'[r].rec = req[r].rec /\ req'[r].issued = req[r].issued
  BY <1>1, <1>3, GotoFacts
<1> QED BY <1>1, <1>2, <1>3, <1>4, FailedKeeps

\* The secret that is minted is one the record did not have.
LEMMA MintedKeeps ==
    ASSUME SecretsInv, OneAtATime, TypeInv', NEW r \in Requests,
           NEW f \in {"log", "dash"}, NEW mine \in Value,
           f = "log" => req[r].pc = "mintLog" /\ req'[r].pc = "log",
           f = "dash" => req[r].pc = "mintDash" /\ req'[r].pc = "dash",
           req[r].mine[f] = 0, Adds(mine, r, f),
           row'.secrets = mine, row'.status = row.status, lost' = {}, held' = held,
           req'[r].op = req[r].op, req'[r].supplied = req[r].supplied,
           req'[r].given = req[r].given, req'[r].rec = req[r].rec, req'[r].issued = req[r].issued,
           req'[r].mine = mine
    PROVE  SecretsInv'
<1>0. mine[f] # 0 /\ \A g \in Fields \ {f} : mine[g] = req[r].mine[g]
  BY DEF Adds
<1>1. CopiesInv(r) /\ PushedInv(r)
  BY DEF SecretsInv
<1>2. /\ req[r].pc \in Ensuring /\ req[r].pc \notin AfterDash
      /\ f = "log" => req[r].pc \in {"dns", "state", "mintLog"}
  BY DEF Ensuring, AfterState, AfterLog, AfterDash
<1>3. /\ Present /\ Paired(req[r].mine)
      /\ Within(req[r].issued, req[r].rec) /\ Within(req[r].rec, req[r].mine)
      /\ \A g \in Supplied : req[r].rec[g] = req[r].mine[g]
      /\ req[r].rec["dash"] = req[r].mine["dash"]
      /\ f = "log" => req[r].rec["log"] = req[r].mine["log"]
      /\ req[r].op = "create" => /\ \A g \in Supplied : req[r].issued[g] = req[r].rec[g]
                                 /\ req[r].rec["token"] # 0
      /\ req[r].supplied => \A g \in Supplied : req[r].given[g] # 0
      /\ req[r].op # "none"
  BY <1>1, <1>2 DEF CopiesInv, Ensuring, AfterState, AfterLog, AfterDash
<1>4. req[r].rec[f] = 0
  BY <1>3
<1>5. Paired(mine)
  BY <1>0, <1>3, Names DEF Paired
<1>6. Paired(row.secrets)' /\ Paired(req[r].mine)'
  BY <1>5 DEF Paired
<1>7. Present' /\ Current(req[r].mine)'
  BY <1>3 DEF Present, Current, Within
<1>8. Within(req[r].issued, req[r].rec)' /\ Within(req[r].rec, req[r].mine)'
  BY <1>0, <1>3, <1>4 DEF Within
<1>9. \A g \in Supplied : req'[r].rec[g] = req'[r].mine[g]
  BY <1>0, <1>3, Names
<1>10. f = "log" => req'[r].rec["dash"] = req'[r].mine["dash"]
  BY <1>0, <1>3, Names
<1>11. f = "dash" => mine["log"] = req[r].mine["log"]
  BY <1>0, Names
<1>12. mine["tsig"] = req[r].mine["tsig"] /\ mine["state"] = req[r].mine["state"]
  BY <1>0, Names
<1>13. CopiesInv(r)'
  BY <1>3, <1>6, <1>7, <1>8, <1>9, <1>10 DEF CopiesInv, AfterDash
<1>14. PushedInv(r)'
  BY <1>0, <1>1, <1>11, <1>12 DEF PushedInv, AfterState, AfterLog, AfterDash
<1> QED BY <1>6, <1>13, <1>14, Alone

\* The steps with a secret of their own.
LEMMA MintKeeps ==
    ASSUME SecretsInv, OneAtATime, NEW r \in Requests, NEW f \in {"log", "dash"},
           MintField(r, f, f),
           f = "log" => req[r].pc = "mintLog", f = "dash" => req[r].pc = "mintDash"
    PROVE  SecretsInv'
<1>1. TypeInv /\ req \in ReqType /\ f \in Fields /\ f \in Points /\ "failed" \in Points
  BY Names DEF SecretsInv, TypeInv, ReqType, Points
<1>2. /\ TypeInv'
      /\ \/ req[r].mine[f] # 0 /\ Goto(r, f) /\ UNCHANGED <<row, lost>>
         \/ Goto(r, "failed") /\ UNCHANGED <<row, lost>>
         \/ \E mine \in Value :
               /\ req[r].mine[f] = 0 /\ Present /\ lost' = {}
               /\ row'.secrets = mine /\ row'.status = row.status
               /\ Adds(mine, r, f)
               /\ GoOn(r, f, mine)
      /\ held' = held
  BY <1>1, MintFieldFacts
<1>3. req[r].pc \in Ensuring
  BY DEF Ensuring, AfterState, AfterLog, AfterDash
<1>4. CASE Goto(r, "failed") /\ UNCHANGED <<row, lost>>
  <2>1. /\ req'[r].pc = "failed" /\ req'[r].op = req[r].op
        /\ req'[r].supplied = req[r].supplied /\ req'[r].given = req[r].given
        /\ req'[r].rec = req[r].rec /\ req'[r].issued = req[r].issued
    BY <1>1, <1>4, GotoFacts
  <2> QED BY <1>2, <1>3, <1>4, <2>1, FailedKeeps
<1>5. CASE req[r].mine[f] # 0 /\ Goto(r, f) /\ UNCHANGED <<row, lost>>
  <2>1. /\ req'[r].pc = f /\ req'[r].op = req[r].op /\ req'[r].supplied = req[r].supplied
        /\ req'[r].given = req[r].given /\ req'[r].rec = req[r].rec /\ req'[r].mine = req[r].mine
        /\ req'[r].issued = req[r].issued
    BY <1>1, <1>5, GotoFacts
  <2>2. CopiesInv(r) /\ PushedInv(r) /\ Paired(row.secrets)
    BY DEF SecretsInv
  <2>3. /\ req'[r].pc \in Ensuring /\ req[r].pc \notin AfterDash
        /\ req'[r].pc \notin {"dns", "state", "mintLog"}
    BY <2>1 DEF Ensuring, AfterState, AfterLog, AfterDash
  <2>4. CopiesInv(r)'
    BY <1>3, <1>5, <2>1, <2>2, <2>3, CopiesGoOn
  <2>5. PushedInv(r)'
    BY <1>2, <1>5, <2>1, <2>2 DEF PushedInv, AfterState, AfterLog, AfterDash
  <2>6. Paired(row.secrets)'
    BY <1>5, <2>2 DEF Paired
  <2> QED BY <1>2, <2>4, <2>5, <2>6, Alone
<1>6. ASSUME NEW mine \in Value,
             /\ req[r].mine[f] = 0 /\ Present /\ lost' = {}
             /\ row'.secrets = mine /\ row'.status = row.status
             /\ Adds(mine, r, f)
             /\ GoOn(r, f, mine)
      PROVE  SecretsInv'
  <2>1. /\ req'[r].pc = f /\ req'[r].op = req[r].op /\ req'[r].supplied = req[r].supplied
        /\ req'[r].given = req[r].given /\ req'[r].rec = req[r].rec /\ req'[r].mine = mine
        /\ req'[r].issued = req[r].issued
    BY <1>1, <1>6, MineFacts
  <2> QED BY <1>2, <1>6, <2>1, MintedKeeps
<1> QED BY <1>2, <1>4, <1>5, <1>6

\* The record read again is the copy the step had, or the step fails.
LEMMA LoadDashKeeps ==
    ASSUME SecretsInv, OneAtATime, NEW r \in Requests, LoadDash(r)
    PROVE  SecretsInv'
<1> DEFINE mine == Reloaded(r).secrets
           point == IF mine["log"] # 0 THEN "mintDash" ELSE "failed"
<1>1. /\ TypeInv /\ TypeInv' /\ req \in ReqType /\ Paired(row.secrets) /\ CopiesInv(r) /\ PushedInv(r)
      /\ req[r].pc = "loadDash"
  BY LoadDashType DEF SecretsInv, TypeInv, ReqType, LoadDash, At
<1>2. mine \in Value /\ mine \in {req[r].rec, Opened}
  BY <1>1, ReloadedFacts
<1>3. point \in Points
  BY DEF Points
<1>4. GoOn(r, point, mine)
  BY DEF LoadDash, GoOn
<1>5. row' = row /\ lost' = lost /\ held' = held
  BY DEF LoadDash
<1>6. mine["log"] # 0 => point = "mintDash"
  OBVIOUS
<1>7. mine["log"] = 0 => point = "failed"
  OBVIOUS
<1> HIDE DEF mine, point
<1>8. /\ req'[r].pc = point /\ req'[r].op = req[r].op /\ req'[r].supplied = req[r].supplied
      /\ req'[r].given = req[r].given /\ req'[r].rec = req[r].rec /\ req'[r].mine = mine
      /\ req'[r].issued = req[r].issued
  BY <1>1, <1>2, <1>3, <1>4, MineFacts
<1>9. req[r].pc \in Ensuring /\ req[r].pc \notin AfterDash
  BY <1>1 DEF Ensuring, AfterState, AfterLog, AfterDash
<1>10. CASE mine["log"] = 0
  BY <1>1, <1>5, <1>7, <1>8, <1>9, <1>10, FailedKeeps
<1>11. CASE mine["log"] # 0
  <2>1. \A f \in Fields : mine[f] = req[r].mine[f]
    <3>1. /\ Current(req[r].mine) /\ Within(req[r].rec, req[r].mine)
          /\ \A f \in Supplied : req[r].rec[f] = req[r].mine[f]
          /\ req[r].rec["dash"] = req[r].mine["dash"]
      BY <1>1, <1>9 DEF CopiesInv
    <3>2. CASE mine = req[r].rec
      <4>1. mine["log"] = req[r].mine["log"]
        BY <1>11, <3>1, <3>2, Names DEF Within
      <4> QED BY <3>1, <3>2, <4>1, Names
    <3>3. CASE mine = Opened
      <4>1. \A f \in Fields : Opened[f] = IF f \in lost THEN 0 ELSE row.secrets[f]
        BY <1>1, OpenedFacts
      <4>2. "log" \notin lost
        BY <1>11, <3>3, <4>1, Names
      <4>3. lost = {}
        BY <1>1, <4>2, Names DEF TypeInv
      <4> QED BY <3>1, <3>3, <4>1, <4>3 DEF Current
    <3> QED BY <1>2, <3>2, <3>3
  <2>2. req'[r].pc = "mintDash"
    BY <1>6, <1>8, <1>11
  <2>3. req'[r].pc \in Ensuring /\ req'[r].pc \notin {"dns", "state", "mintLog"}
    BY <2>2 DEF Ensuring, AfterState, AfterLog, AfterDash
  <2>4. CopiesInv(r)'
    BY <1>1, <1>5, <1>8, <1>9, <2>1, <2>3, CopiesGoOn
  <2>5. mine["tsig"] = req[r].mine["tsig"] /\ mine["state"] = req[r].mine["state"] /\ mine["log"] = req[r].mine["log"]
    BY <2>1, Names
  <2>6. PushedInv(r)'
    BY <1>1, <1>5, <1>8, <2>2, <2>5 DEF PushedInv, AfterState, AfterLog, AfterDash
  <2>7. Paired(row.secrets)'
    BY <1>1, <1>5 DEF Paired
  <2> QED BY <1>1, <2>4, <2>6, <2>7, Alone
<1> QED BY <1>10, <1>11

\* The row's status is no secret.
LEMMA FinishKeeps ==
    ASSUME SecretsInv, OneAtATime, NEW r \in Requests, EnsureDone(r) \/ EnsureFailed(r)
    PROVE  SecretsInv'
<1>1. TypeInv /\ TypeInv' /\ row \in RowType
  BY FinishType DEF SecretsInv, TypeInv
<1>2. PICK point \in {"done", "failed"}, status \in {"provisioning", "ready"} : Finish(r, point, status)
  BY DEF EnsureDone, EnsureFailed
<1>3. row'.secrets = row.secrets
  <2>1. [row EXCEPT !.status = status].secrets = row.secrets
    BY <1>1 DEF RowType
  <2> QED BY <1>2, <2>1 DEF Finish
<1>4. End(r)
  BY <1>2 DEF Finish
<1> QED BY <1>1, <1>3, <1>4, EndKeeps

\* No handler depends on OpenBao being unsealed or on its key, and none runs
\* when the registry is lost.
LEMMA AroundKeeps ==
    ASSUME SecretsInv, OneAtATime,
           (\E r \in Requests : Abandon(r)) \/ Seal \/ Unseal \/ RebuildKey \/ LoseRegistry
    PROVE  SecretsInv'
<1>1. TypeInv /\ TypeInv' /\ Paired(row.secrets) /\ lost \in {{}, Sealed}
  BY AroundType DEF SecretsInv, TypeInv
<1>2. ASSUME NEW r \in Requests, Abandon(r) PROVE SecretsInv'
  <2>1. End(r) /\ row'.secrets = row.secrets
    BY <1>2 DEF Abandon
  <2> QED BY <1>1, <2>1, EndKeeps
<1>3. CASE Seal \/ Unseal
  <2>1. UNCHANGED <<row, lost, held, req>>
    BY <1>3 DEF Seal, Unseal
  <2>2. Paired(row.secrets)'
    BY <1>1, <2>1 DEF Paired
  <2>3. ASSUME NEW r \in Requests PROVE CopiesInv(r)' /\ PushedInv(r)'
    <3>1. CopiesInv(r) /\ PushedInv(r)
      BY DEF SecretsInv
    <3> QED BY <2>1, <3>1 DEF CopiesInv, PushedInv, Present, Current, Within, Paired
  <2> QED BY <1>1, <2>2, <2>3 DEF SecretsInv
<1>4. CASE RebuildKey
  <2>1. UNCHANGED <<row, held, req>> /\ lost' = Sealed
    BY <1>4 DEF RebuildKey
  <2>2. Paired(row.secrets)'
    BY <1>1, <2>1 DEF Paired
  <2>3. ASSUME NEW r \in Requests PROVE CopiesInv(r)' /\ PushedInv(r)'
    <3>1. CopiesInv(r) /\ PushedInv(r)
      BY DEF SecretsInv
    <3>2. Fields \ lost' \subseteq Fields \ lost
      BY <1>1, <2>1
    <3>3. Current(req[r].rec) => Current(req[r].rec)'
      BY <2>1, <3>2 DEF Current, Within
    <3>4. Current(req[r].mine) => Current(req[r].mine)'
      BY <2>1, <3>2 DEF Current, Within
    <3>5. PushedInv(r)'
      BY <2>1, <3>1 DEF PushedInv
    <3>6. CopiesInv(r)'
      BY <2>1, <3>1, <3>3, <3>4 DEF CopiesInv, Present, Within, Paired
    <3> QED BY <3>5, <3>6
  <2> QED BY <1>1, <2>2, <2>3 DEF SecretsInv
<1>5. CASE LoseRegistry
  <2>1. row' = NoRow /\ UNCHANGED <<held, req>> /\ \A r \in Requests : req[r].pc = "idle"
    BY <1>5 DEF LoseRegistry, At
  <2>2. Paired(row.secrets)'
    BY <2>1, Names DEF Paired, NoRow
  <2>3. ASSUME NEW r \in Requests PROVE CopiesInv(r)' /\ PushedInv(r)'
    <3>1. req' = req /\ req[r].pc = "idle" /\ CopiesInv(r)
      BY <2>1 DEF SecretsInv
    <3> QED BY <3>1 DEF CopiesInv, PushedInv, Ensuring, AfterState, AfterLog, AfterDash
  <2> QED BY <1>1, <2>2, <2>3 DEF SecretsInv
<1> QED BY <1>2, <1>3, <1>4, <1>5

LEMMA InitSecrets == Init => SecretsInv
<1> SUFFICES ASSUME Init PROVE SecretsInv
  OBVIOUS
<1>1. TypeInv
  BY InitType
<1>2. Paired(row.secrets)
  BY Names DEF Init, NoRow, Paired
<1>3. ASSUME NEW r \in Requests PROVE CopiesInv(r) /\ PushedInv(r)
  <2>1. req[r].pc = "idle" /\ req[r].supplied = FALSE
    BY DEF Init, Idle
  <2> QED BY <2>1 DEF CopiesInv, PushedInv, Ensuring, AfterState, AfterLog, AfterDash
<1> QED BY <1>1, <1>2, <1>3 DEF SecretsInv

LEMMA NextSecrets ==
    ASSUME OneAtATime, SecretsInv, [Next]_vars
    PROVE  SecretsInv'
<1>1. CASE UNCHANGED vars
  <2>1. TypeInv'
    BY <1>1, NextType DEF SecretsInv
  <2>2. UNCHANGED <<row, lost, held, req>>
    BY <1>1 DEF vars
  <2>3. Paired(row.secrets)'
    BY <2>2 DEF SecretsInv, Paired
  <2>4. ASSUME NEW r \in Requests PROVE CopiesInv(r)' /\ PushedInv(r)'
    <3>1. CopiesInv(r) /\ PushedInv(r)
      BY DEF SecretsInv
    <3> QED BY <2>2, <3>1 DEF CopiesInv, PushedInv, Present, Current, Within, Paired
  <2> QED BY <2>1, <2>3, <2>4 DEF SecretsInv
<1>2. ASSUME NEW r \in Requests, Restore(r) \/ Begin(r, "create", FALSE) \/ Begin(r, "reconcile", FALSE)
      PROVE  SecretsInv'
  BY <1>2, BeginKeeps DEF Restore
<1>3. ASSUME NEW r \in Requests, MintLog(r) \/ MintDash(r) PROVE SecretsInv'
  <2>1. CASE MintLog(r)
    <3>1. MintField(r, "log", "log") /\ req[r].pc = "mintLog"
      BY <2>1 DEF MintLog, At
    <3> QED BY <3>1, MintKeeps
  <2>2. CASE MintDash(r)
    <3>1. MintField(r, "dash", "dash") /\ req[r].pc = "mintDash"
      BY <2>2 DEF MintDash, At
    <3> QED BY <3>1, MintKeeps
  <2> QED BY <1>3, <2>1, <2>2
<1>4. ASSUME NEW r \in Requests, Proceed(r) PROVE SecretsInv'
  BY <1>3, <1>4, GetKeeps, InsertKeeps, SetSecretsKeeps, PushKeeps, PushFailsKeeps, LoadDashKeeps, FinishKeeps
     DEF Proceed
<1> QED BY <1>1, <1>2, <1>4, AroundKeeps DEF Next

LEMMA SecretsInductive ==
    ASSUME OneAtATime
    PROVE  Spec => []SecretsInv
<1>1. SecretsInv /\ [Next]_vars => SecretsInv'
  BY NextSecrets
<1> QED BY <1>1, InitSecrets, PTL DEF Spec

-----------------------------------------------------------------------------
(* Well typed.                                                               *)

(* Every state of TenantSecrets is well typed, with any number of requests   *)
(* at once: a row has one of the statuses the registry's table knows, every  *)
(* handler is at a point of service.go's flows, and there is always a new    *)
(* secret to mint.                                                           *)
THEOREM SecretsTypeCorrect == Spec => []TypeOK
<1>1. TypeInv => TypeOK
  <2> SUFFICES ASSUME TypeInv PROVE TypeOK
    OBVIOUS
  <2>1. /\ row \in [status : {"absent", "provisioning", "ready"}, org : BOOLEAN, secrets : Value]
        /\ lost \subseteq Sealed /\ sealed \in BOOLEAN
        /\ held \in [Pushed -> Secrets] /\ mem \in Value
        /\ faults \in 0 .. MaxFaults /\ losses \in 0 .. MaxLosses
    BY DEF TypeInv, RowType
  <2>2. ASSUME NEW r \in Requests
        PROVE  /\ req[r].pc \in Points /\ req[r].op \in {"none", "create", "reconcile"}
               /\ {req[r].supplied, req[r].org} \subseteq BOOLEAN
               /\ {req[r].given, req[r].rec, req[r].mine, req[r].issued} \subseteq Value
    <3>1. req[r] \in RequestType
      BY DEF TypeInv
    <3> QED BY <3>1 DEF RequestType
  <2> QED BY <2>1, <2>2 DEF TypeOK, Value, Secrets, Points
<1> QED BY <1>1, InitType, NextType, PTL DEF Spec

-----------------------------------------------------------------------------
(* A secret that can be read is kept.                                        *)

\* What becomes of a secret of the row that can be read.
Kept(f) == row'.secrets[f] = row.secrets[f]

LEMMA MintFieldKeepsSecrets ==
    ASSUME SecretsInv, NEW r \in Requests, req[r].pc \in {"mintLog", "mintDash"},
           NEW g \in {"log", "dash"}, MintField(r, g, g),
           NEW f \in Sealed, f \notin lost, row.secrets[f] # 0
    PROVE  Kept(f)
<1>1. TypeInv /\ g \in Fields /\ g \in Points /\ f \in Fields
  BY Names DEF SecretsInv, Points
<1>2. req[r].pc \in Ensuring
  BY DEF Ensuring, AfterState, AfterLog, AfterDash
<1>3. req[r].mine[f] = row.secrets[f]
  BY <1>1, <1>2 DEF SecretsInv, CopiesInv, Current
<1>4. \/ UNCHANGED <<row, lost>>
      \/ \E mine \in Value :
            /\ req[r].mine[g] = 0 /\ row'.secrets = mine
            /\ Adds(mine, r, g)
  BY <1>1, MintFieldFacts
<1>5. CASE UNCHANGED <<row, lost>>
  BY <1>5 DEF Kept
<1>6. ASSUME NEW mine \in Value, req[r].mine[g] = 0, row'.secrets = mine, Adds(mine, r, g)
      PROVE  Kept(f)
  <2>1. f # g
    BY <1>3, <1>6
  <2>2. mine[f] = req[r].mine[f]
    BY <1>1, <1>6, <2>1 DEF Adds
  <2> QED BY <1>3, <1>6, <2>2 DEF Kept
<1> QED BY <1>4, <1>5, <1>6

LEMMA SetSecretsWrites ==
    ASSUME NEW r \in Requests, SetSecrets(r), ~(row' = row /\ lost' = lost)
    PROVE  Present /\ Store(Restored(req[r]))
<1> DEFINE issued == [f \in Fields |-> IF f \in Supplied THEN Restored(req[r])[f] ELSE 0]
<1>1. \/ End(r) /\ UNCHANGED <<row, lost>>
      \/ Present /\ Store(Restored(req[r])) /\ StartEnsure(r, Restored(req[r]), issued, req[r].org)
  BY DEF SetSecrets, Restored, RestoredField
<1> QED BY <1>1

LEMMA SetSecretsKeepsSecrets ==
    ASSUME SecretsInv, NEW r \in Requests, SetSecrets(r), ~req[r].supplied,
           NEW f \in Sealed, f \notin lost
    PROVE  Kept(f)
<1>1. /\ TypeInv /\ row \in RowType /\ req[r] \in RequestType /\ CopiesInv(r) /\ f \in Fields
      /\ req[r].pc = "secrets"
  BY Names DEF SecretsInv, TypeInv, SetSecrets, At
<1>2. req[r].rec[f] = row.secrets[f]
  BY <1>1 DEF CopiesInv, Current
<1>3. Restored(req[r]) \in Value /\ Restored(req[r])[f] = req[r].rec[f]
  BY <1>1, RestoredFacts
<1>4. CASE row' = row /\ lost' = lost
  BY <1>4 DEF Kept
<1>5. CASE ~(row' = row /\ lost' = lost)
  <2>1. Present /\ Store(Restored(req[r]))
    BY <1>5, SetSecretsWrites
  <2>2. row'.secrets = Restored(req[r])
    BY <1>1, <1>3, <2>1, StoreFacts
  <2> QED BY <1>2, <1>3, <2>2 DEF Kept
<1> QED BY <1>4, <1>5

\* The other steps write no secret, but for the insert of a new row.
LEMMA OthersKeepSecrets ==
    ASSUME SecretsInv, Present, row'.status # "absent",
           \/ \E r \in Requests :
                 \/ Restore(r) \/ Begin(r, "create", FALSE) \/ Begin(r, "reconcile", FALSE)
                 \/ Get(r) \/ Insert(r) \/ Push(r) \/ PushFails(r) \/ LoadDash(r)
                 \/ EnsureDone(r) \/ EnsureFailed(r) \/ Abandon(r)
           \/ Seal \/ Unseal \/ RebuildKey \/ LoseRegistry
    PROVE  row'.secrets = row.secrets
<1>1. /\ [row EXCEPT !.org = TRUE].secrets = row.secrets
      /\ [row EXCEPT !.status = "ready"].secrets = row.secrets
      /\ [row EXCEPT !.status = "provisioning"].secrets = row.secrets
  BY DEF SecretsInv, TypeInv, RowType
<1>2. ASSUME NEW r \in Requests,
             Restore(r) \/ Begin(r, "create", FALSE) \/ Begin(r, "reconcile", FALSE)
               \/ Get(r) \/ PushFails(r) \/ LoadDash(r) \/ Abandon(r)
      PROVE  row' = row
  BY <1>2 DEF Restore, Begin, Get, PushFails, LoadDash, Abandon
<1>3. ASSUME NEW r \in Requests, Insert(r) PROVE row' = row
  BY <1>3 DEF Insert
<1>4. ASSUME NEW r \in Requests, Push(r) PROVE row'.secrets = row.secrets
  BY <1>1, <1>4 DEF Push
<1>5. ASSUME NEW r \in Requests, EnsureDone(r) \/ EnsureFailed(r) PROVE row'.secrets = row.secrets
  BY <1>1, <1>5 DEF EnsureDone, EnsureFailed, Finish
<1>6. ASSUME Seal \/ Unseal \/ RebuildKey \/ LoseRegistry PROVE row' = row
  BY <1>6 DEF Seal, Unseal, RebuildKey, LoseRegistry, NoRow
<1> QED BY <1>2, <1>3, <1>4, <1>5, <1>6

\* A restore writes what it brings, and nothing for the rest.
LEMMA RestoreWrites ==
    ASSUME SecretsInv, NEW r \in Requests, SetSecrets(r), req[r].supplied,
           NEW f \in Sealed, ~Kept(f)
    PROVE  row'.secrets[f] = IF f \in Supplied THEN req[r].given[f] ELSE 0
<1>1. row \in RowType /\ req[r] \in RequestType /\ f \in Fields
  BY Names DEF SecretsInv, TypeInv
<1>2. ~(row' = row /\ lost' = lost)
  BY DEF Kept
<1>3. Present /\ Store(Restored(req[r]))
  BY <1>2, SetSecretsWrites
<1>4. /\ Restored(req[r]) \in Value
      /\ Restored(req[r])[f] = IF f \in Supplied THEN req[r].given[f] ELSE 0
  BY <1>1, RestoredFacts
<1>5. row'.secrets = Restored(req[r])
  BY <1>1, <1>3, <1>4, StoreFacts
<1> QED BY <1>4, <1>5

(* With one request at a time, a stored secret that can be read is replaced  *)
(* only by a restore, which writes what it brings and drops the log tokens   *)
(* and the dashboard password, however often OpenBao is sealed or its key    *)
(* rebuilt while ensure runs: restoreExisting without secrets,               *)
(* ensureLogTokens and ensureDashboards write back whole records, and those  *)
(* hold every secret the row can still give.                                 *)
THEOREM IssuedSecretsAreKept ==
    ASSUME OneAtATime
    PROVE  Spec => KeptUnlessRestored
<1> DEFINE A == \A f \in Sealed : Replaced(f) =>
                    \E r \in Requests :
                       /\ At(r, "secrets") /\ req[r].supplied
                       /\ row'.secrets[f] = IF f \in Supplied THEN req[r].given[f] ELSE 0
<1>1. SecretsInv /\ [Next]_vars => [A]_vars
  <2> SUFFICES ASSUME SecretsInv, Next, NEW f \in Sealed, Replaced(f)
               PROVE  \E r \in Requests :
                         /\ At(r, "secrets") /\ req[r].supplied
                         /\ row'.secrets[f] = IF f \in Supplied THEN req[r].given[f] ELSE 0
    OBVIOUS
  <2> USE DEF Replaced
  <2>1. ~(\E r \in Requests : MintLog(r) \/ MintDash(r))
    <3> SUFFICES ASSUME NEW r \in Requests, MintLog(r) \/ MintDash(r) PROVE Kept(f)
      BY DEF Kept
    <3>1. req[r].pc \in {"mintLog", "mintDash"} /\ (MintField(r, "log", "log") \/ MintField(r, "dash", "dash"))
      BY DEF MintLog, MintDash, At
    <3> QED BY <3>1, MintFieldKeepsSecrets
  <2>2. PICK r \in Requests : SetSecrets(r)
    BY <2>1, OthersKeepSecrets DEF Next, Proceed
  <2>3. req[r].supplied
    BY <2>2, SetSecretsKeepsSecrets DEF Kept
  <2>4. At(r, "secrets")
    BY <2>2 DEF SetSecrets
  <2>5. row'.secrets[f] = IF f \in Supplied THEN req[r].given[f] ELSE 0
    BY <2>2, <2>3, RestoreWrites DEF Kept
  <2> QED BY <2>3, <2>4, <2>5
<1> QED BY <1>1, SecretsInductive, PTL DEF Spec, KeptUnlessRestored

-----------------------------------------------------------------------------
(* The answers.                                                              *)

\* The two points where a handler answers, and the record it reads there.
LEMMA AnswerIsOfTheRow ==
    ASSUME SecretsInv, NEW r \in Requests, req[r].pc \in {"done", "failed"}
    PROVE  Within(Answer(r), row.secrets)
<1>1. TypeInv /\ CopiesInv(r)
  BY DEF SecretsInv
<1>2. Within(req[r].issued, req[r].rec) /\ Within(req[r].rec, row.secrets)
  <2>1. CASE req[r].pc = "failed"
    BY <1>1, <2>1 DEF CopiesInv
  <2>2. CASE req[r].pc = "done"
    <3>1. req[r].pc \in Ensuring
      BY <2>2 DEF Ensuring, AfterState, AfterLog, AfterDash
    <3>2. /\ Within(req[r].issued, req[r].rec) /\ Within(req[r].rec, req[r].mine)
          /\ Within(req[r].mine, row.secrets)
      BY <1>1, <3>1 DEF CopiesInv, Current
    <3> QED BY <3>2 DEF Within
  <2> QED BY <2>1, <2>2
<1>3. Within(req[r].issued, row.secrets)
  BY <1>2 DEF Within
<1>4. Within(Reloaded(r).secrets, row.secrets)
  <2>1. Reloaded(r).secrets \in {req[r].rec, Opened} /\ Within(Opened, row.secrets)
    BY <1>1, ReloadedFacts, OpenedFacts
  <2> QED BY <1>2, <2>1
<1>5. /\ Reloaded(r).secrets["log"] \in {0, row.secrets["log"]}
      /\ Reloaded(r).secrets["dash"] \in {0, row.secrets["dash"]}
      /\ \A f \in Fields : req[r].issued[f] \in {0, row.secrets[f]}
  BY <1>3, <1>4, Names DEF Within
<1>6. Answer(r)["dash"] \in {0, row.secrets["dash"]}
  BY <1>1, <1>5, AnswerFacts
<1>7. CASE req[r].op = "create"
  <2>1. \A f \in Fields \ {"dash"} : Answer(r)[f] = req[r].issued[f]
    BY <1>1, <1>7, AnswerFacts
  <2> QED BY <1>5, <1>6, <2>1 DEF Within
<1>8. CASE req[r].op # "create"
  <2>1. Answer(r)["log"] \in {0, Reloaded(r).secrets["log"]} /\ \A f \in Supplied : Answer(r)[f] = 0
    BY <1>1, <1>8, AnswerFacts
  <2> QED BY <1>5, <1>6, <2>1, Names DEF Within
<1> QED BY <1>7, <1>8

\* Only an answer changes what the caller holds.
LEMMA OnlyAnswersReachTheCaller ==
    ASSUME Next, mem' # mem
    PROVE  \E r \in Requests : EnsureDone(r) \/ EnsureFailed(r)
<1>1. ASSUME NEW r \in Requests,
             Restore(r) \/ Begin(r, "create", FALSE) \/ Begin(r, "reconcile", FALSE)
               \/ Get(r) \/ Insert(r) \/ SetSecrets(r) \/ Push(r) \/ PushFails(r)
               \/ MintLog(r) \/ MintDash(r) \/ LoadDash(r) \/ Abandon(r)
      PROVE  mem' = mem
  BY <1>1 DEF Restore, Begin, Get, Insert, SetSecrets, Push, PushFails, MintLog, MintDash, MintField,
     LoadDash, Abandon
<1>2. ASSUME Seal \/ Unseal \/ RebuildKey \/ LoseRegistry PROVE mem' = mem
  BY <1>2 DEF Seal, Unseal, RebuildKey, LoseRegistry
<1> QED BY <1>1, <1>2 DEF Next, Proceed

(* With one request at a time, what an answer carries, good or 502, is what  *)
(* the row holds: service.go's Create and Reconcile answer with secrets the  *)
(* registry already has, also when the record cannot be read again at the    *)
(* end and the copy ensure was called with stands in for it.                 *)
THEOREM AnswersAreStored ==
    ASSUME OneAtATime
    PROVE  Spec => AnswerIsStored
<1> DEFINE A == \A r \in Requests, f \in Fields :
                    req[r].pc \in {"done", "failed"} /\ mem' # mem /\ Answer(r)[f] # 0
                    => Answer(r)[f] = row'.secrets[f]
<1>1. SecretsInv /\ [Next]_vars => [A]_vars
  <2> SUFFICES ASSUME SecretsInv, Next, NEW r \in Requests, NEW f \in Fields,
                      req[r].pc \in {"done", "failed"}, mem' # mem, Answer(r)[f] # 0
               PROVE  Answer(r)[f] = row'.secrets[f]
    OBVIOUS
  <2>1. PICK q \in Requests : EnsureDone(q) \/ EnsureFailed(q)
    BY OnlyAnswersReachTheCaller
  <2>2. /\ [row EXCEPT !.status = "ready"].secrets = row.secrets
        /\ [row EXCEPT !.status = "provisioning"].secrets = row.secrets
    BY DEF SecretsInv, TypeInv, RowType
  <2>3. row'.secrets = row.secrets
    BY <2>1, <2>2 DEF EnsureDone, EnsureFailed, Finish
  <2>4. Answer(r)[f] = row.secrets[f]
    BY AnswerIsOfTheRow DEF Within
  <2> QED BY <2>3, <2>4
<1> QED BY <1>1, SecretsInductive, PTL DEF Spec, AnswerIsStored

\* A handler at its good end is over only by answering.
LEMMA OnlyDoneAnswers ==
    ASSUME OneAtATime, TypeInv, Next, NEW r \in Requests, req[r].pc = "done", req'[r].pc = "idle",
           faults' = faults
    PROVE  EnsureDone(r)
<1>1. \A q \in Requests : q = r
  BY DEF OneAtATime
<1>2. faults' # faults + 1
  BY SecretsAssumption DEF TypeInv
<1>3. "done" \notin Pushes
  BY Names
<1>4. ASSUME NEW q \in Requests,
             Restore(q) \/ Begin(q, "create", FALSE) \/ Begin(q, "reconcile", FALSE)
               \/ Get(q) \/ Insert(q) \/ SetSecrets(q) \/ Push(q) \/ PushFails(q)
               \/ MintLog(q) \/ MintDash(q) \/ LoadDash(q) \/ EnsureFailed(q)
      PROVE  req[q].pc # "done"
  BY <1>3, <1>4 DEF Restore, Begin, Get, Insert, SetSecrets, Push, PushFails, MintLog, MintDash,
     LoadDash, EnsureFailed, Finish, At
<1>5. ASSUME NEW q \in Requests, Abandon(q) PROVE FALSE
  BY <1>2, <1>5 DEF Abandon
<1>6. ASSUME Seal \/ Unseal \/ RebuildKey \/ LoseRegistry PROVE FALSE
  <2>1. req' = req
    BY <1>6 DEF Seal, Unseal, RebuildKey, LoseRegistry
  <2> QED BY <2>1
<1>7. \E q \in Requests : EnsureDone(q)
  BY <1>1, <1>4, <1>5, <1>6 DEF Next, Proceed
<1> QED BY <1>1, <1>7

\* What is in force at a good end.
LEMMA DoneIsInForce ==
    ASSUME SecretsInv, NEW r \in Requests, req[r].pc = "done"
    PROVE  /\ \A f \in Sealed : /\ held[f] = row.secrets[f] /\ held[f] # 0
                                /\ req[r].mine[f] = held[f]
           /\ held["dread"] = held["log"]
           /\ req[r].op = "create" =>
                 /\ \A f \in Supplied : req[r].issued[f] = req[r].mine[f]
                 /\ req[r].mine["token"] # 0 /\ req[r].mine["token"] = row.secrets["token"]
           /\ Present /\ row.org
<1>1. CopiesInv(r) /\ PushedInv(r)
  BY DEF SecretsInv
<1>2. req[r].pc \in Ensuring
  BY DEF Ensuring, AfterState, AfterLog, AfterDash
<1>3. /\ Within(req[r].mine, row.secrets) /\ Paired(req[r].mine)
      /\ \A f \in Supplied : req[r].rec[f] = req[r].mine[f]
      /\ req[r].op = "create" => /\ \A f \in Supplied : req[r].issued[f] = req[r].rec[f]
                                 /\ req[r].rec["token"] # 0
  BY <1>1, <1>2 DEF CopiesInv, Current
<1>4. /\ req[r].mine["tsig"] \in {0, held["tsig"]}
      /\ req[r].mine["state"] # 0 /\ held["state"] = req[r].mine["state"]
      /\ req[r].mine["log"] # 0 /\ held["log"] = req[r].mine["log"]
      /\ req[r].mine["dash"] # 0 /\ held["dash"] = req[r].mine["dash"]
      /\ held["dread"] = req[r].mine["log"]
  BY <1>1 DEF PushedInv, AfterState, AfterLog, AfterDash
<1>5. \A f \in Sealed : req[r].mine[f] = held[f] /\ held[f] # 0
  BY <1>3, <1>4, Names DEF Paired
<1>6. \A f \in Fields : req[r].mine[f] # 0 => req[r].mine[f] = row.secrets[f]
  BY <1>3 DEF Within
<1>7. Present /\ row.org
  BY <1>1, <1>2 DEF CopiesInv, PushedInv
<1> QED BY <1>3, <1>4, <1>5, <1>6, <1>7, Names

\* What a good answer reads back, when it can be read.
LEMMA DoneAnswers ==
    ASSUME SecretsInv, NEW r \in Requests, req[r].pc = "done", ~sealed
    PROVE  /\ "dash" \notin lost => Answer(r)["dash"] = row.secrets["dash"]
           /\ "log" \notin lost /\ req[r].op = "reconcile" => Answer(r)["log"] = row.secrets["log"]
<1>1. TypeInv /\ Present /\ row.org /\ req[r].op \in {"create", "reconcile"}
  <2>1. CopiesInv(r) /\ TypeInv /\ Present /\ row.org
    BY DoneIsInForce DEF SecretsInv
  <2> QED BY <2>1 DEF CopiesInv, TypeInv, RequestType
<1>2. {"log", "dash"} \subseteq Fields /\ req[r].issued \in Value /\ Opened \in Value
  BY <1>1, OpenedFacts, Names DEF TypeInv, RequestType
<1>3. Reloaded(r) = [secrets |-> Opened, org |-> row.org]
  BY <1>1 DEF Reloaded
<1>4. \A f \in Fields : f \notin lost => Opened[f] = row.secrets[f]
  BY DEF Opened
<1>5. CASE req[r].op = "create"
  <2>1. Answer(r) = [req[r].issued EXCEPT !["dash"] = Opened["dash"]]
    BY <1>1, <1>3, <1>5 DEF Answer
  <2>2. Answer(r)["dash"] = Opened["dash"]
    BY <1>2, <2>1 DEF Value
  <2> QED BY <1>2, <1>4, <1>5, <2>2
<1>6. CASE req[r].op = "reconcile"
  <2>1. Answer(r) = [Empty EXCEPT !["log"] = Opened["log"], !["dash"] = Opened["dash"]]
    BY <1>1, <1>3, <1>6 DEF Answer, At
  <2>2. Answer(r)["dash"] = Opened["dash"] /\ Answer(r)["log"] = Opened["log"]
    BY <1>2, <2>1, Names DEF Empty
  <2> QED BY <1>2, <1>4, <2>2
<1> QED BY <1>1, <1>5, <1>6

(* With one request at a time, after a good answer the name server, the      *)
(* state store, the log proxy and the dashboards hold the row's secrets, the *)
(* dashboards read with the log token in force, and the caller holds the     *)
(* row's token, key and state secret after a create, the log tokens after a  *)
(* reconcile and the dashboard password after either, unless OpenBao cannot  *)
(* be read for the answer.  A create's log tokens are not among them:        *)
(* AnswerCarriesEverything is what the documentation says, and is false.     *)
THEOREM GoodAnswersAreInForce ==
    ASSUME OneAtATime
    PROVE  Spec => GoodAnswerIsInForce
<1> DEFINE A == \A r \in Requests : Answered(r) =>
                    /\ \A f \in Sealed : held[f] = row.secrets[f] /\ held[f] # 0
                    /\ held["dread"] = held["log"]
                    /\ req[r].op = "create" => \A f \in Supplied : mem'[f] = row.secrets[f]
                    /\ ~sealed /\ "dash" \notin lost => mem'["dash"] = row.secrets["dash"]
                    /\ ~sealed /\ "log" \notin lost /\ req[r].op = "reconcile"
                          => mem'["log"] = row.secrets["log"]
<1>1. SecretsInv /\ [Next]_vars => [A]_vars
  <2> SUFFICES ASSUME SecretsInv, Next, NEW r \in Requests, Answered(r)
               PROVE  /\ \A f \in Sealed : held[f] = row.secrets[f] /\ held[f] # 0
                      /\ held["dread"] = held["log"]
                      /\ req[r].op = "create" => \A f \in Supplied : mem'[f] = row.secrets[f]
                      /\ ~sealed /\ "dash" \notin lost => mem'["dash"] = row.secrets["dash"]
                      /\ ~sealed /\ "log" \notin lost /\ req[r].op = "reconcile"
                            => mem'["log"] = row.secrets["log"]
    OBVIOUS
  <2>1. /\ TypeInv /\ req[r].pc = "done" /\ req'[r].pc = "idle" /\ faults' = faults
        /\ faults \in 0 .. MaxFaults
    BY DEF SecretsInv, TypeInv, Answered, At
  <2>2. EnsureDone(r)
    BY <2>1, OnlyDoneAnswers
  <2>3. faults' # faults + 1
    BY <2>1, SecretsAssumption
  <2>4. \A f \in Fields : mem'[f] = IF Answer(r)[f] # 0 THEN Answer(r)[f] ELSE mem[f]
    BY <2>2, <2>3 DEF EnsureDone, Finish, Deliver
  <2>5. /\ \A f \in Sealed : /\ held[f] = row.secrets[f] /\ held[f] # 0
                             /\ req[r].mine[f] = held[f]
        /\ held["dread"] = held["log"]
        /\ req[r].op = "create" =>
              /\ \A f \in Supplied : req[r].issued[f] = req[r].mine[f]
              /\ req[r].mine["token"] # 0 /\ req[r].mine["token"] = row.secrets["token"]
    BY <2>1, DoneIsInForce
  <2>6. ASSUME req[r].op = "create", NEW f \in Supplied
        PROVE  mem'[f] = row.secrets[f]
    <3>1. f \in Fields \ {"dash"} /\ (f = "token" \/ f \in Sealed)
      BY Names
    <3>2. req[r].mine[f] = row.secrets[f] /\ req[r].mine[f] # 0
      BY <2>5, <2>6, <3>1
    <3>3. Answer(r)[f] = req[r].mine[f]
      BY <2>1, <2>5, <2>6, <3>1, AnswerFacts
    <3> QED BY <2>4, <3>1, <3>2, <3>3
  <2>7. {"log", "dash"} \subseteq Fields /\ row.secrets["log"] # 0 /\ row.secrets["dash"] # 0
    BY <2>5, Names
  <2>8. ~sealed /\ "dash" \notin lost => mem'["dash"] = row.secrets["dash"]
    BY <2>1, <2>4, <2>7, DoneAnswers
  <2>9. ~sealed /\ "log" \notin lost /\ req[r].op = "reconcile" => mem'["log"] = row.secrets["log"]
    BY <2>1, <2>4, <2>7, DoneAnswers
  <2> QED BY <2>5, <2>6, <2>8, <2>9
<1> QED BY <1>1, SecretsInductive, PTL DEF Spec, GoodAnswerIsInForce
=============================================================================
