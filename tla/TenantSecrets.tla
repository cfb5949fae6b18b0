---------------------------- MODULE TenantSecrets ----------------------------
(***************************************************************************)
(* One tenant's secrets: who holds which copy, through creates, resumes,    *)
(* restores and reconciles (internal/tenant/service.go, logtokens.go,       *)
(* dashboards.go) over a registry that seals them with OpenBao's Transit    *)
(* engine (internal/store/store.go, internal/openbao).                      *)
(*                                                                          *)
(* Four parties hold copies: the registry's row, the backends, the caller's *)
(* own state, and each handler in flight, whose copy may be old.  A sealed  *)
(* or unreachable OpenBao fails every read and write of the row's secrets;  *)
(* a rebuilt Transit key leaves them stored and unreadable, which the store *)
(* reads as empty.                                                          *)
(*                                                                          *)
(* A secret is a number, 0 is the empty string.  Steps that carry no secret *)
(* are left out: TenantLifecycle has them.                                  *)
(***************************************************************************)
EXTENDS Naturals, FiniteSetsExt

CONSTANTS
    Requests,      \* slots for requests in flight
    MaxSecret,     \* values of a secret: more than there can be copies
    MaxFaults,     \* bound on failed calls, lost answers, seals, rebuilt keys
    MaxLosses      \* bound on losses of the registry

ASSUME SecretsAssumption ==
    /\ IsFiniteSet(Requests)
    /\ MaxSecret \in Nat /\ MaxSecret > 4 * Cardinality(Requests) + 4
    /\ MaxFaults \in Nat /\ MaxLosses \in Nat

VARIABLES
    row,      \* [status, org, secrets]: org, its dashboard organisation is known
    lost,     \* the row's secrets that the Transit key no longer opens
    sealed,   \* OpenBao is sealed
    held,     \* what the backends hold; "dread", the dashboards' read token
    mem,      \* what the caller's state holds
    req, faults, losses

vars == <<row, lost, sealed, held, mem, req, faults, losses>>

Fields == {"token", "tsig", "state", "log", "dash"}
Supplied == {"token", "tsig", "state"}   \* what a restore brings
Sealed == Fields \ {"token"}             \* the token is kept as its hash
Pushed == Sealed \cup {"dread"}

Empty == [f \in Fields |-> 0]
NoRow == [status |-> "absent", org |-> FALSE, secrets |-> Empty]
Present == row.status # "absent"

\* given: what the request brings; rec: the record ensure was called with;
\* mine: the copy of it the running step works on; issued: what the answer
\* will carry; org: rec.DashboardOrg is known.
Idle == [pc |-> "idle", op |-> "none", supplied |-> FALSE, given |-> Empty,
         rec |-> Empty, mine |-> Empty, issued |-> Empty, org |-> FALSE]

At(r, point) == req[r].pc = point
End(r) == req' = [req EXCEPT ![r] = Idle]
Goto(r, point) == req' = [req EXCEPT ![r].pc = point]

\* A new secret is one that nobody holds.
Mint(f) ==
    LET copies == {row.secrets[f], mem[f]}
                    \cup (IF f \in Pushed THEN {held[f]} ELSE {})
                    \cup (IF f = "log" THEN {held["dread"]} ELSE {})
                    \cup UNION {{req[r].given[f], req[r].rec[f], req[r].mine[f], req[r].issued[f]} :
                                    r \in Requests}
    IN  Min((1 .. MaxSecret) \ copies)

\* For a mutant below: while OpenBao is sealed its secrets read as empty.
OpenedEmpty == [f \in Fields |-> IF f \in lost \/ (sealed /\ f \in Sealed) THEN 0 ELSE row.secrets[f]]

\* Postgres.open: what will not open is read as empty.
Opened == [f \in Fields |-> IF f \in lost THEN 0 ELSE row.secrets[f]]

\* secrets_stored in the answers.
SecretsStored == lost \cap {"tsig", "state"} = {}

Init ==
    /\ row = NoRow /\ lost = {} /\ sealed = FALSE
    /\ held = [f \in Pushed |-> 0]
    /\ mem = Empty
    /\ req = [r \in Requests |-> Idle]
    /\ faults = 0 /\ losses = 0

-----------------------------------------------------------------------------
Begin(r, op, supplied) ==
    /\ At(r, "idle")
    /\ supplied => \A f \in Supplied : mem[f] # 0
    /\ req' = [req EXCEPT ![r] = [Idle EXCEPT !.pc = "get", !.op = op, !.supplied = supplied,
                                     !.given = IF supplied THEN mem ELSE Empty]]
    /\ UNCHANGED <<row, lost, sealed, held, mem, faults, losses>>

\* ensure(rec), for an answer that will carry issued.
StartEnsure(r, rec, issued, org) ==
    req' = [req EXCEPT ![r] = [Idle EXCEPT !.pc = "dns", !.op = req[r].op, !.rec = rec,
                                           !.mine = rec, !.issued = issued, !.org = org]]

\* Mutant: the read of a sealed store is taken for a read of empty secrets.
GetSealed(r) ==
    LET q == req[r]
    IN  /\ At(r, "get")
        /\ \/ ~Present /\ q.op = "create" /\ Goto(r, "insert")
           \/ ~Present /\ q.op = "reconcile" /\ End(r)
           \/ /\ Present /\ q.op = "create" /\ (row.status = "provisioning" \/ q.supplied)
              /\ req' = [req EXCEPT ![r].pc = "secrets", ![r].rec = OpenedEmpty, ![r].org = row.org]
           \/ Present /\ q.op = "create" /\ row.status = "ready" /\ ~q.supplied /\ End(r)
           \/ Present /\ q.op = "reconcile" /\ StartEnsure(r, OpenedEmpty, Empty, row.org)
        /\ UNCHANGED <<row, lost, sealed, held, mem, faults, losses>>

\* Store.Get, and what Create and Reconcile make of it.
Get(r) ==
    LET q == req[r]
    IN  /\ At(r, "get")
        /\ \/ ~Present /\ q.op = "create" /\ Goto(r, "insert")
           \/ ~Present /\ q.op = "reconcile" /\ End(r)
           \/ Present /\ sealed /\ End(r)
           \/ /\ Present /\ ~sealed /\ q.op = "create"
              /\ row.status = "provisioning" \/ q.supplied
              /\ req' = [req EXCEPT ![r].pc = "secrets", ![r].rec = Opened, ![r].org = row.org]
           \/ /\ Present /\ ~sealed /\ q.op = "create"
              /\ row.status = "ready" /\ ~q.supplied
              /\ End(r)
           \/ /\ Present /\ ~sealed /\ q.op = "reconcile"
              /\ StartEnsure(r, Opened, Empty, row.org)
        /\ UNCHANGED <<row, lost, sealed, held, mem, faults, losses>>

\* createNew: secretsFor, then Store.Create, which seals them.
Insert(r) ==
    LET q == req[r]
        secrets == [f \in Fields |->
                      CASE f = "dash"     -> 0
                        [] f \in Supplied -> IF q.supplied THEN q.given[f] ELSE Mint(f)
                        [] f = "log"      -> Mint(f)]
    IN  /\ At(r, "insert")
        /\ IF Present \/ sealed
           THEN End(r) /\ UNCHANGED <<row, lost>>
           ELSE /\ row' = [status |-> "provisioning", org |-> FALSE, secrets |-> secrets]
                /\ lost' = {}
                /\ StartEnsure(r, secrets, secrets, FALSE)
        /\ UNCHANGED <<sealed, held, mem, faults, losses>>

\* Store.SetSecrets writes, and seals, every column.
Store(secrets) ==
    /\ row' = IF Present THEN [row EXCEPT !.secrets = secrets] ELSE row
    /\ lost' = {}

\* Mutant: supplied secrets lose to stored ones, which get a new token.
SetSecretsStoredWin(r) ==
    LET q == req[r]
        secrets == [q.rec EXCEPT !["token"] = IF q.supplied THEN q.given["token"] ELSE Mint("token")]
    IN  /\ At(r, "secrets")
        /\ IF sealed \/ ~Present
           THEN End(r) /\ UNCHANGED <<row, lost>>
           ELSE /\ Store(secrets)
                /\ StartEnsure(r, secrets, [f \in Fields |->
                      IF f \notin Supplied THEN 0 ELSE IF q.supplied THEN q.given[f] ELSE secrets[f]], q.org)
        /\ UNCHANGED <<sealed, held, mem, faults, losses>>

\* restoreExisting: supplied secrets win and leave the rest to be minted again;
\* without them the stored ones stay and only the token is new.
SetSecrets(r) ==
    LET q == req[r]
        secrets == [f \in Fields |->
                      CASE q.supplied                 -> IF f \in Supplied THEN q.given[f] ELSE 0
                        [] ~q.supplied /\ f = "token" -> Mint(f)
                        [] OTHER                      -> q.rec[f]]
    IN  /\ At(r, "secrets")
        /\ IF sealed \/ ~Present
           THEN End(r) /\ UNCHANGED <<row, lost>>
           ELSE /\ Store(secrets)
                /\ StartEnsure(r, secrets,
                      [f \in Fields |-> IF f \in Supplied THEN secrets[f] ELSE 0], q.org)
        /\ UNCHANGED <<sealed, held, mem, faults, losses>>

-----------------------------------------------------------------------------
(* The steps of ensure that push a secret.                                   *)

After == [dns |-> "state", state |-> "mintLog", log |-> "loadDash", dash |-> "done"]
Pushes == DOMAIN After

\* What the backends hold once the step's write has landed.  PowerDNS keeps its
\* key when it is sent none, and makes one up for a new name.
Landed(r) ==
    LET mine == req[r].mine
    IN  CASE At(r, "dns")   -> [held EXCEPT !["tsig"] = IF mine["tsig"] # 0 THEN mine["tsig"]
                                                        ELSE IF @ # 0 THEN @ ELSE Mint("tsig")]
          [] At(r, "state") -> [held EXCEPT !["state"] = mine["state"]]
          [] At(r, "log")   -> [held EXCEPT !["log"] = mine["log"]]
          [] At(r, "dash")  -> [held EXCEPT !["dash"] = mine["dash"], !["dread"] = mine["log"]]

\* MinIO itself, not its client, takes no user without a secret.
Refused(r) == At(r, "state") /\ req[r].mine["state"] = 0

\* The dashboards step ends with Store.SetDashboardOrg.
Push(r) ==
    /\ req[r].pc \in Pushes /\ ~Refused(r)
    /\ held' = Landed(r)
    /\ row' = IF At(r, "dash") /\ Present THEN [row EXCEPT !.org = TRUE] ELSE row
    /\ Goto(r, After[req[r].pc])
    /\ UNCHANGED <<lost, sealed, mem, faults, losses>>

PushFails(r) ==
    /\ req[r].pc \in Pushes
    /\ \/ Refused(r) /\ UNCHANGED <<held, faults>>
       \/ /\ ~Refused(r) /\ faults < MaxFaults
          /\ faults' = faults + 1
          /\ held' \in {held, Landed(r)}
    /\ Goto(r, "failed")
    /\ UNCHANGED <<row, lost, sealed, mem, losses>>

\* A secret of the step's own is minted if its copy of the record has none, and
\* the whole copy written back.
MintField(r, f, next) ==
    LET mine == [req[r].mine EXCEPT ![f] = Mint(f)]
    IN  /\ \/ /\ req[r].mine[f] # 0
              /\ Goto(r, next) /\ UNCHANGED <<row, lost>>
           \/ /\ req[r].mine[f] = 0 /\ ~sealed /\ Present
              /\ Store(mine)
              /\ req' = [req EXCEPT ![r].pc = next, ![r].mine = mine]
           \/ /\ req[r].mine[f] = 0 /\ (sealed \/ ~Present)
              /\ Goto(r, "failed") /\ UNCHANGED <<row, lost>>
        /\ UNCHANGED <<sealed, held, mem, faults, losses>>

\* Mutant: the new pair is not written down.
MintLogOnly(r) ==
    /\ At(r, "mintLog")
    /\ req' = [req EXCEPT ![r].pc = "log",
                          ![r].mine["log"] = IF @ = 0 THEN Mint("log") ELSE @]
    /\ UNCHANGED <<row, lost, sealed, held, mem, faults, losses>>

MintLog(r) == At(r, "mintLog") /\ MintField(r, "log", "log")
MintDash(r) == At(r, "mintDash") /\ MintField(r, "dash", "dash")

\* reload: the record as it is now, or the old one if it cannot be read.
Reloaded(r) == IF sealed \/ ~Present THEN [secrets |-> req[r].rec, org |-> req[r].org]
                                     ELSE [secrets |-> Opened, org |-> row.org]

\* Mutant: the step works on the record that ensure was called with.
LoadDashStale(r) ==
    /\ At(r, "loadDash")
    /\ req' = [req EXCEPT ![r].pc = "mintDash", ![r].mine = req[r].rec]
    /\ UNCHANGED <<row, lost, sealed, held, mem, faults, losses>>

\* No read token for the data sources is an error.
LoadDash(r) ==
    LET mine == Reloaded(r).secrets
    IN  /\ At(r, "loadDash")
        /\ req' = [req EXCEPT ![r].pc = IF mine["log"] # 0 THEN "mintDash" ELSE "failed",
                              ![r].mine = mine]
        /\ UNCHANGED <<row, lost, sealed, held, mem, faults, losses>>

-----------------------------------------------------------------------------
(* The answer.                                                               *)

\* A create's answer carries what was issued and the password the record now
\* has, once the organisation is known; a good reconcile's the record's log
\* tokens and password, a failed one's nothing.
Answer(r) ==
    LET q == req[r]
        now == Reloaded(r)
        dash == IF now.org THEN now.secrets["dash"] ELSE 0
    IN  CASE q.op = "create"         -> [q.issued EXCEPT !["dash"] = dash]
          [] q.op = "reconcile" /\ At(r, "done")
                                     -> [Empty EXCEPT !["log"] = now.secrets["log"], !["dash"] = dash]
          [] OTHER                   -> Empty

\* The caller records what it is given; the answer may be lost on the way.
Deliver(r) ==
    \/ /\ mem' = [f \in Fields |-> IF Answer(r)[f] # 0 THEN Answer(r)[f] ELSE mem[f]]
       /\ UNCHANGED faults
    \/ /\ faults < MaxFaults /\ faults' = faults + 1
       /\ UNCHANGED mem

Finish(r, point, status) ==
    /\ At(r, point)
    /\ row' = IF Present THEN [row EXCEPT !.status = status] ELSE row
    /\ Deliver(r)
    /\ End(r)
    /\ UNCHANGED <<lost, sealed, held, losses>>

\* Mutant: a status the registry's table does not know.
EnsureFailedStatus(r) == Finish(r, "failed", "failed")

EnsureDone(r) == Finish(r, "done", "ready")
EnsureFailed(r) == Finish(r, "failed", "provisioning")

-----------------------------------------------------------------------------
(* What goes wrong around the handlers.                                      *)

Abandon(r) ==
    /\ ~At(r, "idle") /\ faults < MaxFaults
    /\ faults' = faults + 1
    /\ End(r)
    /\ UNCHANGED <<row, lost, sealed, held, mem, losses>>

Seal ==
    /\ ~sealed /\ faults < MaxFaults
    /\ sealed' = TRUE /\ faults' = faults + 1
    /\ UNCHANGED <<row, lost, held, mem, req, losses>>

Unseal ==
    /\ sealed /\ sealed' = FALSE
    /\ UNCHANGED <<row, lost, held, mem, req, faults, losses>>

\* OpenBao is rebuilt with a new Transit key.
RebuildKey ==
    /\ Present /\ lost # Sealed /\ faults < MaxFaults
    /\ lost' = Sealed /\ faults' = faults + 1
    /\ UNCHANGED <<row, sealed, held, mem, req, losses>>

LoseRegistry ==
    /\ Present /\ losses < MaxLosses /\ \A r \in Requests : At(r, "idle")
    /\ row' = NoRow /\ lost' = {} /\ losses' = losses + 1
    /\ UNCHANGED <<sealed, held, mem, req, faults>>

-----------------------------------------------------------------------------
Proceed(r) ==
    \/ Get(r) \/ Insert(r) \/ SetSecrets(r)
    \/ Push(r) \/ PushFails(r) \/ MintLog(r) \/ LoadDash(r) \/ MintDash(r)
    \/ EnsureDone(r) \/ EnsureFailed(r)

Restore(r) == Begin(r, "create", TRUE)

Next ==
    \/ \E r \in Requests :
          \/ Restore(r) \/ Begin(r, "create", FALSE) \/ Begin(r, "reconcile", FALSE)
          \/ Proceed(r) \/ Abandon(r)
    \/ Seal \/ Unseal \/ RebuildKey \/ LoseRegistry

Spec == Init /\ [][Next]_vars

\* Handlers are scheduled, a sealed OpenBao is unsealed, and the owner of an
\* unfinished tenant applies its state again.
Fairness ==
    /\ \A r \in Requests : WF_vars(Proceed(r)) /\ SF_vars(row.status # "ready" /\ Restore(r))
    /\ WF_vars(Unseal)

FairSpec == Spec /\ Fairness

-----------------------------------------------------------------------------
(* Properties.                                                               *)

(* Type invariant.                                                           *)
TypeOK ==
    LET Value == [Fields -> 0 .. MaxSecret]
    IN  /\ row \in [status : {"absent", "provisioning", "ready"}, org : BOOLEAN, secrets : Value]
        /\ lost \subseteq Sealed /\ sealed \in BOOLEAN
        /\ held \in [Pushed -> 0 .. MaxSecret]
        /\ mem \in Value
        /\ \A r \in Requests :
              /\ req[r].pc \in Pushes \cup {"idle", "get", "insert", "secrets", "mintLog",
                                            "loadDash", "mintDash", "done", "failed"}
              /\ req[r].op \in {"none", "create", "reconcile"}
              /\ {req[r].supplied, req[r].org} \subseteq BOOLEAN
              /\ {req[r].given, req[r].rec, req[r].mine, req[r].issued} \subseteq Value
        /\ faults \in 0 .. MaxFaults /\ losses \in 0 .. MaxLosses

\* A secret the row holds, and can give, becomes another in a row that stays.
Replaced(f) ==
    /\ Present /\ row'.status # "absent"
    /\ f \notin lost /\ row.secrets[f] # 0 /\ row'.secrets[f] # row.secrets[f]

(* A stored secret that can be read is replaced only by a restore, although  *)
(* OpenBao may be sealed, and its key rebuilt, at any point of the handler:  *)
(* no reconcile and no resume re-mints one that works.  A restore takes what *)
(* it brings and drops the log tokens and the dashboard password, which it   *)
(* does not bring and ensure mints again: KeptUnlessSupplied is without      *)
(* that.                                                                     *)
KeptUnlessRestored ==
    [][\A f \in Sealed : Replaced(f) =>
          \E r \in Requests :
             /\ At(r, "secrets") /\ req[r].supplied
             /\ row'.secrets[f] = IF f \in Supplied THEN req[r].given[f] ELSE 0]_vars

(* "The identity stays, an issued secret is kept, and only what the caller   *)
(* may change is taken": a stored secret that can be read is replaced only   *)
(* by one that the caller supplies.  restoreExisting starts a restore from   *)
(* an empty record (service.go:278) and so loses the other two.              *)
KeptUnlessSupplied ==
    [][\A f \in Sealed : Replaced(f) =>
          \E r \in Requests :
             /\ At(r, "secrets") /\ req[r].supplied
             /\ f \in Supplied /\ row'.secrets[f] = req[r].given[f]]_vars

(* What a create's answer carries, good or 502, is what the row holds ("the  *)
(* row holds them, and a caller that retries resumes with the same ones").   *)
AnswerIsStored ==
    [][\A r \in Requests, f \in Fields :
          req[r].pc \in {"done", "failed"} /\ mem' # mem /\ Answer(r)[f] # 0
          => Answer(r)[f] = row'.secrets[f]]_vars

\* A handler that went well has answered, and the answer has arrived.
Answered(r) == At(r, "done") /\ req'[r].pc = "idle" /\ faults' = faults

(* After a good answer the backends hold the row's secrets, the dashboards   *)
(* read with the log token in force, and the caller holds: after a create,   *)
(* the row's token, key and state secret; after either, the dashboard        *)
(* password, and after a reconcile the log tokens, unless OpenBao is sealed  *)
(* or its key gone when the record is read again for the answer.  The log    *)
(* tokens are not in the answer of a restore or a resume, which replaces or  *)
(* keeps them: AnswerCarriesEverything is with them.                         *)
GoodAnswerIsInForce ==
    [][\A r \in Requests : Answered(r) =>
          /\ \A f \in Sealed : held[f] = row.secrets[f] /\ held[f] # 0
          /\ held["dread"] = held["log"]
          /\ req[r].op = "create" => \A f \in Supplied : mem'[f] = row.secrets[f]
          /\ ~sealed /\ "dash" \notin lost => mem'["dash"] = row.secrets["dash"]
          /\ ~sealed /\ "log" \notin lost /\ req[r].op = "reconcile"
                => mem'["log"] = row.secrets["log"]]_vars

(* "The create response carries everything the tenant needs, and its secrets *)
(* appear nowhere else": after a good create, with OpenBao there to be read, *)
(* the caller holds every secret that is in force.  restoreExisting answers  *)
(* with no log tokens (service.go:273, 277), also when it has just made      *)
(* ensure mint new ones.                                                     *)
AnswerCarriesEverything ==
    [][\A r \in Requests : Answered(r) /\ req[r].op = "create" /\ ~sealed /\ lost = {} =>
          \A f \in Fields : mem'[f] = row.secrets[f]]_vars

(* A tenant whose state holds its secrets can always be finished by applying *)
(* it again, whatever the registry lost or can no longer read.               *)
RestoreHeals ==
    (row.status # "ready" /\ \A f \in Supplied : mem[f] # 0) ~> row.status = "ready"

(* secrets_stored "is false when the API holds a secret it can no longer     *)
(* read": an answer that says true has the two secrets only the tenant can   *)
(* supply.                                                                   *)
ResupplyIsAsked ==
    Present /\ SecretsStored => row.secrets["tsig"] # 0 /\ row.secrets["state"] # 0
=============================================================================
