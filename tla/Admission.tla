------------------------------ MODULE Admission ------------------------------
(***************************************************************************)
(* How a tenant gets in: the operator admits a name (internal/tenant/       *)
(* service.go, admissionkeys.go), which gives its developer an enrollment   *)
(* token and a key to the developer network; the developer spends the token *)
(* on creating the tenant (internal/server/tenants.go), which makes the key *)
(* one of the tenant's own (wifikeys.go); from then on the tenant's API     *)
(* token (token.go, internal/server/principal.go) lets it in.  Underneath,  *)
(* the wireless controller's profile (internal/backend/omada), OpenBao      *)
(* (internal/openbao) and the process that serves (cmd/deevnet-api).        *)
(*                                                                          *)
(* The operator and each developer make one call at a time; nothing keeps   *)
(* their calls apart.  There is one profile, the admission class's, and one *)
(* key a tenant, so a key is named by its tenant; a number stands for a     *)
(* key's PSK, VLAN and MAC together, 0 for no key.  A developer uses the    *)
(* last enrollment token it was given.  Of a create, the index, the other   *)
(* secrets and the backends are TenantLifecycle's and TenantSecrets'.       *)
(*                                                                          *)
(* A refusal that changes nothing is no step.                               *)
(***************************************************************************)
EXTENDS Naturals, FiniteSetsExt

CONSTANTS
    Names,       \* tenants, and their developers
    Established, \* those already in when the process starts
    Operator,
    Calls,       \* the calls somebody may make without need
    MaxSecret,   \* as many keys or tokens of one name as there can be copies, and one
    MaxSpare,    \* bound on calls made without need
    MaxFaults,   \* bound on failed steps, crashes, seals, revocations, expiries
    None

Callers == Names \cup {Operator}
Secrets == 0 .. MaxSecret

ASSUME AdmissionAssumption ==
    /\ IsFiniteSet(Names) /\ Established \subseteq Names
    /\ Operator \notin Names /\ None \notin Nat \cup Names
    /\ MaxSecret \in Nat /\ MaxSecret > Cardinality(Names) + 6
    /\ MaxSpare \in Nat /\ MaxFaults \in Nat
    /\ Calls \subseteq [by : Callers, op : STRING, name : Names]

VARIABLES
    row,         \* a tenant's registry row: its status and the API token it accepts
    adm,         \* the key of an admission not yet used
    wifi,        \* the tenant's own key "admission": its row
    profile,     \* the controller's entries, by name
    placeholder, \* the profile holds the entry that is nobody's
    held,        \* what a developer was given: enrollment token, API token, key
    sealed,      \* OpenBao is sealed or unreachable
    refused,     \* OpenBao no longer takes the API's cached login token
    api,         \* the process
    migrated,    \* the database schema is in place
    req,         \* each caller's call in flight
    told,        \* what the last good answer said of a key; None when nothing
    escaped,     \* names whose record was dropped by a call that met another
    unsettled,   \* names a call about which stopped half done, or met another
    spare, faults

registry == <<row, adm, wifi>>
controller == <<profile, placeholder>>
bao == <<sealed, refused>>
process == <<api, migrated>>
history == <<told, escaped, unsettled>>
vars == <<registry, controller, held, bao, process, req, history, spare, faults>>

NoRow == [status |-> "absent", tok |-> 0]
NoKey == [status |-> "absent", psk |-> 0]
NoneHeld == [enrol |-> "none", tok |-> 0, psk |-> 0]

\* name: the tenant the call is about; psk, tok: the key and the API token it
\* works on; supplied: a create that brings its secrets; adopts: whether it
\* adopts the admission's key, if its steps succeed or always; stale: another call
\* wrote the profile since this one first read it; met: another call about the name ran beside it.
Idle == [pc |-> "idle", op |-> "none", name |-> None, psk |-> 0, tok |-> 0,
         supplied |-> FALSE, adopts |-> "no", stale |-> FALSE, met |-> FALSE]

At(c, point) == req[c].pc = point
Goto(c, point) == req' = [req EXCEPT ![c].pc = point]
Name(c) == req[c].name
Registered(n) == row[n].status # "absent"

Others(c, n) == {d \in Callers \ {c} : req[d].name = n}

\* The calls that may change a key in the controller.
Touches == {"admit", "revoke", "createKey", "deleteKey", "delete"}
Ops == Touches \cup {"create"}

\* A new secret is one that nobody holds.
Unused(copies) == Min((1 .. MaxSecret) \ copies)
MintKey(n) ==
    Unused({adm[n], wifi[n].psk, profile[n], held[n].psk, told[n]}
             \cup {req[c].psk : c \in {d \in Callers : Name(d) = n}})
MintToken(n) == Unused({row[n].tok, held[n].tok} \cup {req[c].tok : c \in {d \in Callers : Name(d) = n}})

\* An established tenant has the first token and the first key.
First(n) == IF n \in Established THEN 1 ELSE 0

Init ==
    /\ row = [n \in Names |-> IF n \in Established THEN [status |-> "ready", tok |-> First(n)] ELSE NoRow]
    /\ adm = [n \in Names |-> 0]
    /\ wifi = [n \in Names |-> IF n \in Established THEN [status |-> "ready", psk |-> First(n)] ELSE NoKey]
    /\ profile = [n \in Names |-> First(n)] /\ placeholder = FALSE
    /\ held = [n \in Names |-> [NoneHeld EXCEPT !.tok = First(n), !.psk = First(n)]]
    /\ sealed = FALSE /\ refused = FALSE
    /\ api = "starting" /\ migrated = FALSE
    /\ req = [c \in Callers |-> Idle]
    /\ told = [n \in Names |-> None] /\ escaped = {} /\ unsettled = {}
    /\ spare = 0 /\ faults = 0

-----------------------------------------------------------------------------
(* The process.                                                              *)

\* requireMigrated, requireSecrets: /v1 is served once both loops of run are
\* through.
Serving == api = "serving" /\ migrated

\* tenantService reads the backends' credentials from OpenBao.
CredentialsRead == ~sealed

\* For a mutant: only the first build is tried.
BuildOnce ==
    /\ api = "starting"
    /\ api' = IF CredentialsRead THEN "serving" ELSE "waiting"
    /\ UNCHANGED <<registry, controller, held, bao, migrated, req, history, spare, faults>>

\* The first build, and those of the loop that waits for OpenBao.
Build ==
    /\ api # "serving"
    /\ api = "starting" \/ CredentialsRead
    /\ api' = IF CredentialsRead THEN "serving" ELSE "waiting"
    /\ UNCHANGED <<registry, controller, held, bao, migrated, req, history, spare, faults>>

Migrate ==
    /\ ~migrated
    /\ migrated' = TRUE
    /\ UNCHANGED <<registry, controller, held, bao, api, req, history, spare, faults>>

-----------------------------------------------------------------------------
(* OpenBao.  Client.do logs in again when its token is refused; Wrap does    *)
(* not, and the token stays cached until it lapses or a call of do's drops   *)
(* it.                                                                       *)

\* A call of do's: it needs OpenBao open and leaves a good login behind.
Do == ~sealed /\ refused' = FALSE /\ UNCHANGED sealed

-----------------------------------------------------------------------------
(* Calls begin.                                                              *)

\* A call about n begins.  It and those in flight about n have met.
Enter(c, n, call) ==
    LET others == Others(c, n)
    IN  /\ At(c, "idle") /\ Serving
        /\ req' = [d \in Callers |->
                      IF d = c THEN [call EXCEPT !.name = n, !.met = others # {}]
                      ELSE [req[d] EXCEPT !.met = @ \/ d \in others]]
        /\ told' = IF call.op \in Touches THEN [told EXCEPT ![n] = None] ELSE told
        /\ unsettled' = IF others # {} THEN unsettled \cup {n} ELSE unsettled
        /\ UNCHANGED escaped

\* A record of the name's key is dropped.  A call that ran beside this one and
\* passed its check before may have placed the key, or do so yet.
RecordDropped(c) == escaped' = IF req[c].met THEN escaped \cup {Name(c)} ELSE escaped

Call(op, point) == [Idle EXCEPT !.op = op, !.pc = point]

\* Admit up to its first write: a registered name is refused.
Admit(c, n) ==
    /\ c = Operator /\ ~Registered(n)
    /\ Enter(c, n, Call("admit", "wrap"))
    /\ UNCHANGED <<registry, controller, held, bao, process>>

\* For a mutant: the row goes before the key does.
RevokeRowFirst(c, n) ==
    /\ c = Operator /\ adm[n] # 0 /\ Do
    /\ Enter(c, n, Call("revoke", "remRead"))
    /\ adm' = [adm EXCEPT ![n] = 0]
    /\ UNCHANGED <<row, wifi, controller, held, process>>

\* RevokeAdmission, operatorOnly.
RevokeAdmission(c, n) ==
    /\ c = Operator /\ adm[n] # 0 /\ Do
    /\ Enter(c, n, Call("revoke", "remRead"))
    /\ UNCHANGED <<registry, controller, held, process>>

\* Tokens.Verify: the token was issued for the name.
Verify(d, n) == d = n /\ held[d].tok # 0

\* Authenticate: while the name is registered, the token is the one its row
\* accepts.
Authenticate(d, n) ==
    /\ Verify(d, n)
    /\ Registered(n) => held[d].tok = row[n].tok

\* ownTenant
Owner(c, n) == c = Operator \/ (Authenticate(c, n) /\ Registered(n))

\* tenantHandlers.create: the operator, the tenant itself bringing its
\* secrets, or the holder of an enrollment token, which is spent first.
Create(c, n) ==
    /\ \/ c = Operator /\ Enter(c, n, Call("create", "createGet"))
       \/ /\ c # Operator /\ Authenticate(c, n) /\ (Registered(n) => ~sealed)
          /\ Enter(c, n, [Call("create", "createGet") EXCEPT !.supplied = TRUE, !.tok = held[c].tok])
       \/ /\ c # Operator /\ held[c].enrol = "live"
          /\ Enter(c, n, Call("create", "redeem"))
    /\ UNCHANGED <<registry, controller, held, bao, process>>

\* For a mutant: a key neither supplied nor stored is left blank.
chooseBlankPSK(supplied, existing, n) == IF supplied # 0 THEN supplied ELSE existing

\* choosePSK: the key the developer holds, else the one stored, else a new one.
choosePSK(supplied, existing, n) ==
    IF supplied # 0 THEN supplied ELSE IF existing # 0 THEN existing ELSE MintKey(n)

\* CreateWiFiKey up to its row.
CreateWiFiKey(c, n) ==
    /\ c # Operator /\ Owner(c, n) /\ row[n].status = "ready" /\ Do
    /\ Enter(c, n, [Call("createKey", "putKey") EXCEPT !.psk = choosePSK(held[c].psk, wifi[n].psk, n)])
    /\ UNCHANGED <<registry, controller, held, process>>

DeleteWiFiKey(c, n) ==
    /\ c # Operator /\ Owner(c, n) /\ wifi[n].status # "absent" /\ Do
    /\ Enter(c, n, Call("deleteKey", "remRead"))
    /\ UNCHANGED <<registry, controller, held, process>>

Delete(c, n) ==
    /\ Owner(c, n) /\ Registered(n) /\ Do
    /\ Enter(c, n, Call("delete", "mark"))
    /\ UNCHANGED <<registry, controller, held, process>>

-----------------------------------------------------------------------------
(* Calls end.                                                                *)

\* A call fails: its answer carries nothing that its caller keeps.
Fails(c) == req' = [req EXCEPT ![c] = Idle]

\* A good answer, and the answer 502 of a create that left a row, whose body
\* carries the token.  The operator hands on what it is given.
Answer(c) ==
    LET q == req[c] n == q.name
    IN  /\ At(c, "answer")
        /\ held' = [held EXCEPT ![n] =
                      [enrol |-> IF q.op = "admit" THEN "live" ELSE @.enrol,
                       tok   |-> IF q.op = "create" /\ q.tok # 0 THEN q.tok ELSE @.tok,
                       psk   |-> IF q.op \in {"admit", "createKey"} THEN q.psk ELSE @.psk]]
        /\ told' = IF q.op \in Touches \ {"delete"} /\ ~q.met THEN [told EXCEPT ![n] = q.psk] ELSE told
        /\ Fails(c)
        /\ UNCHANGED <<registry, controller, bao, process, escaped, unsettled, spare, faults>>

-----------------------------------------------------------------------------
(* Admission.                                                                *)

\* Enroller.Wrap.  A login OpenBao refuses fails the admission, and stays.
Wrap(c) ==
    /\ At(c, "wrap") /\ ~sealed
    /\ IF refused THEN Fails(c)
       ELSE req' = [req EXCEPT ![c].pc = "putAdm", ![c].psk = MintKey(Name(c))]
    /\ UNCHANGED <<registry, controller, held, bao, process, history, spare, faults>>

\* issueAdmissionKey: the row goes down before the key.
PutAdmissionKey(c) ==
    /\ At(c, "putAdm") /\ Do
    /\ adm' = [adm EXCEPT ![Name(c)] = req[c].psk]
    /\ Goto(c, "ensRead")
    /\ UNCHANGED <<row, wifi, controller, held, process, history, spare, faults>>

\* The end of RevokeAdmission, and of an adoption.
DeleteAdmissionKey(c) ==
    /\ At(c, "dropAdm")
    /\ adm' = [adm EXCEPT ![Name(c)] = 0]
    /\ Goto(c, "answer") /\ RecordDropped(c)
    /\ UNCHANGED <<row, wifi, controller, held, bao, process, told, unsettled, spare, faults>>

-----------------------------------------------------------------------------
(* Creating the tenant.                                                      *)

\* Client.Unwrap: the token is the credential, and is spent.
Unwrap(c) == ~sealed /\ held' = [held EXCEPT ![c].enrol = "spent"]

\* Redeem: the token is spent also when it names another tenant.
Redeem(c) ==
    /\ At(c, "redeem") /\ Unwrap(c)
    /\ IF held[c].enrol = "live" /\ Name(c) = c THEN Goto(c, "createGet") ELSE Fails(c)
    /\ UNCHANGED <<registry, controller, bao, process, history, spare, faults>>

\* Service.Create: a new name, a resume, or a restore over a ready tenant.
CreateGet(c) ==
    LET s == row[Name(c)].status
    IN  /\ At(c, "createGet") /\ (s = "absent" \/ ~sealed)
        /\ \/ s = "absent" /\ req' = [req EXCEPT ![c].pc = "insert", ![c].adopts = "built"]
           \/ s = "provisioning" /\ req' = [req EXCEPT ![c].pc = "secrets", ![c].adopts = "always"]
           \/ s = "ready" /\ req[c].supplied /\ Goto(c, "secrets")
           \/ s = "ready" /\ ~req[c].supplied /\ Fails(c)
           \/ s = "deleting" /\ Fails(c)
        /\ refused' = (refused /\ s = "absent")
        /\ UNCHANGED <<registry, controller, held, sealed, process, history, spare, faults>>

TokenOf(c) == IF req[c].supplied THEN req[c].tok ELSE MintToken(Name(c))

\* createNew, up to its row.
Insert(c) ==
    LET n == Name(c)
    IN  /\ At(c, "insert") /\ Do
        /\ IF Registered(n)
           THEN Fails(c) /\ UNCHANGED row
           ELSE /\ row' = [row EXCEPT ![n] = [status |-> "provisioning", tok |-> TokenOf(c)]]
                /\ req' = [req EXCEPT ![c].pc = "build", ![c].tok = TokenOf(c)]
        /\ UNCHANGED <<adm, wifi, controller, held, process, history, spare, faults>>

\* A create fails before its steps: a resume still tries to adopt.
CreateFails(c) ==
    IF req[c].adopts = "always" THEN req' = [req EXCEPT ![c].pc = "adoptGet", ![c].tok = 0]
    ELSE Fails(c)

\* restoreExisting, up to its steps.
SetSecrets(c) ==
    LET n == Name(c)
    IN  /\ At(c, "secrets") /\ Do
        /\ IF Registered(n)
           THEN /\ row' = [row EXCEPT ![n].tok = TokenOf(c)]
                /\ req' = [req EXCEPT ![c].pc = "build", ![c].tok = TokenOf(c)]
           ELSE CreateFails(c) /\ UNCHANGED row
        /\ UNCHANGED <<adm, wifi, controller, held, process, history, spare, faults>>

\* ensure, when every step succeeds.
Built(c) ==
    LET n == Name(c)
    IN  /\ At(c, "build")
        /\ IF Registered(n)
           THEN /\ row' = [row EXCEPT ![n].status = "ready"]
                /\ Goto(c, IF req[c].adopts = "no" THEN "answer" ELSE "adoptGet")
           ELSE CreateFails(c) /\ UNCHANGED row
        /\ UNCHANGED <<adm, wifi, controller, held, bao, process, history, spare, faults>>

\* ensure, when a step fails.
BuildFails(c) ==
    LET n == Name(c)
    IN  /\ At(c, "build")
        /\ faults < MaxFaults /\ faults' = faults + 1
        /\ row' = IF Registered(n) THEN [row EXCEPT ![n].status = "provisioning"] ELSE row
        /\ Goto(c, IF req[c].adopts = "always" THEN "adoptGet" ELSE "answer")
        /\ UNCHANGED <<adm, wifi, controller, held, bao, process, history, spare>>

\* adoptAdmissionKey, which leaves the controller alone.
AdoptGet(c) ==
    LET n == Name(c)
    IN  /\ At(c, "adoptGet")
        /\ \/ adm[n] = 0 /\ Goto(c, "answer") /\ UNCHANGED bao
           \/ /\ adm[n] # 0 /\ Do
              /\ req' = [req EXCEPT ![c].pc = "adoptPut", ![c].psk = adm[n]]
        /\ UNCHANGED <<registry, controller, held, process, history, spare, faults>>

\* For a mutant: the admission's row stays.
AdoptPutOnly(c) ==
    LET n == Name(c)
    IN  /\ At(c, "adoptPut") /\ Do
        /\ wifi' = IF Registered(n) THEN [wifi EXCEPT ![n] = [status |-> "ready", psk |-> req[c].psk]] ELSE wifi
        /\ req' = [req EXCEPT ![c].pc = "answer", ![c].psk = 0]
        /\ UNCHANGED <<row, adm, controller, held, process, history, spare, faults>>

AdoptPut(c) ==
    LET n == Name(c)
    IN  /\ At(c, "adoptPut") /\ Do
        /\ IF Registered(n)
           THEN /\ wifi' = [wifi EXCEPT ![n] = [status |-> "ready", psk |-> req[c].psk]]
                /\ req' = [req EXCEPT ![c].pc = "dropAdm", ![c].psk = 0]
           ELSE /\ req' = [req EXCEPT ![c].pc = "answer", ![c].psk = 0]
                /\ UNCHANGED wifi
        /\ UNCHANGED <<row, adm, controller, held, process, history, spare, faults>>

\* An adoption that fails is logged and fails nothing else.
AdoptFails(c) ==
    /\ req[c].pc \in {"adoptGet", "adoptPut"} \/ (At(c, "dropAdm") /\ req[c].op = "create")
    /\ \/ faults < MaxFaults /\ faults' = faults + 1
       \/ sealed /\ ~At(c, "dropAdm") /\ adm[Name(c)] # 0 /\ UNCHANGED faults
    /\ req' = [req EXCEPT ![c].pc = "answer", ![c].psk = 0]
    /\ unsettled' = unsettled \cup {Name(c)}
    /\ UNCHANGED <<registry, controller, held, bao, process, told, escaped, spare>>

-----------------------------------------------------------------------------
(* The tenant's own key, and its end.                                        *)

PutWiFiKey(c) ==
    LET n == Name(c)
    IN  /\ At(c, "putKey") /\ Do
        /\ IF Registered(n)
           THEN /\ wifi' = [wifi EXCEPT ![n] = [status |-> "provisioning", psk |-> req[c].psk]]
                /\ Goto(c, "ensRead")
           ELSE Fails(c) /\ UNCHANGED wifi
        /\ UNCHANGED <<row, adm, controller, held, process, history, spare, faults>>

SetWiFiKeyStatus(c) ==
    LET n == Name(c)
    IN  /\ At(c, "keyReady")
        /\ IF wifi[n].status # "absent"
           THEN wifi' = [wifi EXCEPT ![n].status = "ready"] /\ Goto(c, "answer")
           ELSE Fails(c) /\ UNCHANGED wifi
        /\ UNCHANGED <<row, adm, controller, held, bao, process, history, spare, faults>>

DropWiFiKey(c) ==
    /\ At(c, "dropKey")
    /\ wifi' = [wifi EXCEPT ![Name(c)] = NoKey]
    /\ Goto(c, "answer") /\ RecordDropped(c)
    /\ UNCHANGED <<row, adm, controller, held, bao, process, told, unsettled, spare, faults>>

Mark(c) ==
    LET n == Name(c)
    IN  /\ At(c, "mark")
        /\ IF Registered(n)
           THEN row' = [row EXCEPT ![n].status = "deleting"] /\ Goto(c, "list")
           ELSE Fails(c) /\ UNCHANGED row
        /\ UNCHANGED <<adm, wifi, controller, held, bao, process, history, spare, faults>>

\* ListWiFiKeys.
List(c) ==
    LET none == wifi[Name(c)].status = "absent"
    IN  /\ At(c, "list")
        /\ none \/ ~sealed
        /\ refused' = (refused /\ none)
        /\ Goto(c, IF none THEN "dropTenant" ELSE "remRead")
        /\ UNCHANGED <<registry, controller, held, sealed, process, history, spare, faults>>

\* Postgres.Delete, by name; the row of the key goes with it.
DropTenant(c) ==
    LET n == Name(c)
    IN  /\ At(c, "dropTenant")
        /\ row' = [row EXCEPT ![n] = NoRow]
        /\ wifi' = [wifi EXCEPT ![n] = NoKey]
        /\ Goto(c, "answer") /\ RecordDropped(c)
        /\ UNCHANGED <<adm, controller, held, bao, process, told, unsettled, spare, faults>>

-----------------------------------------------------------------------------
(* The controller's profile.  Names are its keys; it refuses to add a name   *)
(* it has, to delete one it has not, and to delete its last entry.  A        *)
(* request whose token has lapsed is repeated with a new one by Client.call, *)
(* unseen.                                                                   *)

Entries == {n \in Names : profile[n] # 0} \cup (IF placeholder THEN {None} ELSE {})

AtController == {"ensGuard", "ensDelete", "ensAdd", "ensAfter", "ensClear", "remGuard", "remDelete"}

\* The profile was written by c, which goes on at point.
Wrote(c, point) ==
    req' = [d \in Callers |->
              IF d = c THEN [req[d] EXCEPT !.pc = point]
              ELSE IF req[d].pc \in AtController THEN [req[d] EXCEPT !.stale = TRUE] ELSE req[d]]

\* The first read of the profile decides where c goes on.
Read(c, point) ==
    req' = [req EXCEPT ![c].pc = point, ![c].stale = FALSE]

\* Where EnsureKey and RemoveKey return to.
Return(c) ==
    CASE req[c].op = "admit"     -> "answer"
      [] req[c].op = "createKey" -> "keyReady"
      [] req[c].op = "revoke"    -> "dropAdm"
      [] req[c].op = "deleteKey" -> "dropKey"
      [] req[c].op = "delete"    -> "dropTenant"

\* For a mutant: the key about to go is counted among those that stay.
NeedsGuardMiscounted(n) == ~placeholder /\ Entries = {}

\* guardMinimum adds a placeholder unless there is one or another real key.
NeedsGuard(n) == ~placeholder /\ Entries = {n}

\* For a mutant: a key of that name will do.
EnsureReadName(c) ==
    /\ At(c, "ensRead")
    /\ Read(c, IF profile[Name(c)] # 0 THEN "ensAfter" ELSE "ensAdd")
    /\ UNCHANGED <<registry, controller, held, bao, process, history, spare, faults>>

\* EnsureKey reads the profile.  A key that differs is deleted and added.
EnsureRead(c) ==
    LET n == Name(c)
    IN  /\ At(c, "ensRead")
        /\ \/ profile[n] = req[c].psk /\ Read(c, "ensAfter")
           \/ profile[n] = 0 /\ Read(c, "ensAdd")
           \/ /\ profile[n] \notin {0, req[c].psk}
              /\ Read(c, IF NeedsGuard(n) THEN "ensGuard" ELSE "ensDelete")
        /\ UNCHANGED <<registry, controller, held, bao, process, history, spare, faults>>

\* RemoveKey reads the profile.  A key that is not there is removed already.
RemoveRead(c) ==
    LET n == Name(c)
    IN  /\ At(c, "remRead")
        /\ \/ profile[n] = 0 /\ Read(c, Return(c))
           \/ profile[n] # 0 /\ Read(c, IF NeedsGuard(n) THEN "remGuard" ELSE "remDelete")
        /\ UNCHANGED <<registry, controller, held, bao, process, history, spare, faults>>

\* The answer 502 of a CreateWiFiKey that reached the controller carries the key.
Handed(c) ==
    IF req[c].op = "createKey" /\ req[c].pc \in AtController \cup {"ensRead"}
    THEN [held EXCEPT ![Name(c)].psk = req[c].psk] ELSE held

\* The controller refuses a write: what the call did so far stays.
HalfDone(c) == Fails(c) /\ held' = Handed(c) /\ unsettled' = unsettled \cup {Name(c)}

AddPlaceholder(c) ==
    /\ At(c, "ensGuard") \/ At(c, "remGuard")
    /\ IF placeholder THEN HalfDone(c) /\ UNCHANGED placeholder
       ELSE placeholder' = TRUE /\ Wrote(c, IF At(c, "ensGuard") THEN "ensDelete" ELSE "remDelete") /\ UNCHANGED <<held, unsettled>>
    /\ UNCHANGED <<registry, profile, bao, process, told, escaped, spare, faults>>

CanDelete(e) == e \in Entries /\ Entries # {e}

\* A delete the controller refuses fails the call.
Refuses(c) ==
    \/ req[c].pc \in {"ensDelete", "remDelete"} /\ ~CanDelete(Name(c))
    \/ At(c, "ensClear") /\ ~CanDelete(None)

DeleteKey(c) ==
    /\ At(c, "ensDelete") \/ At(c, "remDelete")
    /\ IF Refuses(c) THEN HalfDone(c) /\ UNCHANGED profile
       ELSE /\ profile' = [profile EXCEPT ![Name(c)] = 0]
            /\ Wrote(c, IF At(c, "ensDelete") THEN "ensAdd" ELSE Return(c)) /\ UNCHANGED <<held, unsettled>>
    /\ UNCHANGED <<registry, placeholder, bao, process, told, escaped, spare, faults>>

AddKey(c) ==
    /\ At(c, "ensAdd")
    /\ IF profile[Name(c)] # 0 THEN HalfDone(c) /\ UNCHANGED profile
       ELSE profile' = [profile EXCEPT ![Name(c)] = req[c].psk] /\ Wrote(c, "ensAfter") /\ UNCHANGED <<held, unsettled>>
    /\ UNCHANGED <<registry, placeholder, bao, process, told, escaped, spare, faults>>

\* EnsureKey reads again: a placeholder has done its job.
EnsureAfter(c) ==
    /\ At(c, "ensAfter")
    /\ Goto(c, IF placeholder THEN "ensClear" ELSE Return(c))
    /\ UNCHANGED <<registry, controller, held, bao, process, history, spare, faults>>

ClearPlaceholder(c) ==
    /\ At(c, "ensClear")
    /\ IF Refuses(c) THEN HalfDone(c) /\ UNCHANGED placeholder
       ELSE placeholder' = FALSE /\ Wrote(c, Return(c)) /\ UNCHANGED <<held, unsettled>>
    /\ UNCHANGED <<registry, profile, bao, process, told, escaped, spare, faults>>

-----------------------------------------------------------------------------
(* Faults.                                                                   *)

Fault == faults < MaxFaults /\ faults' = faults + 1

\* A call is cut off before its next step: a request failed, before or after
\* it landed, or its caller went away; the answer may still arrive.
CutOff(c) ==
    /\ ~At(c, "idle") /\ Fault
    /\ Fails(c)
    /\ held' \in {held, Handed(c)}
    /\ unsettled' = unsettled \cup {Name(c)}
    /\ UNCHANGED <<registry, controller, bao, process, told, escaped, spare>>

\* The process stops, and every call with it; it is started again.
Crash ==
    /\ Fault
    /\ api' = "starting" /\ migrated' = FALSE
    /\ req' = [c \in Callers |-> Idle]
    /\ unsettled' = unsettled \cup ({Name(c) : c \in Callers} \ {None})
    /\ refused' = FALSE
    /\ UNCHANGED <<registry, controller, held, sealed, told, escaped, spare>>

\* OpenBao is sealed or unreachable, and opened again.
Seal ==
    /\ ~sealed /\ Fault
    /\ sealed' = TRUE
    /\ UNCHANGED <<registry, controller, held, refused, process, req, history, spare>>

Unseal ==
    /\ sealed
    /\ sealed' = FALSE
    /\ UNCHANGED <<registry, controller, held, refused, process, req, history, spare, faults>>

\* OpenBao revokes the API's login, and the time it was good for passes.
RevokeLogin ==
    /\ ~refused /\ Fault
    /\ refused' = TRUE
    /\ UNCHANGED <<registry, controller, held, sealed, process, req, history, spare>>

Lapse ==
    /\ refused
    /\ refused' = FALSE
    /\ UNCHANGED <<registry, controller, held, sealed, process, req, history, spare, faults>>

\* An enrollment token expires.
Expire(n) ==
    /\ held[n].enrol = "live" /\ Fault
    /\ held' = [held EXCEPT ![n].enrol = "spent"]
    /\ UNCHANGED <<registry, controller, bao, process, req, history, spare>>

\* A call that needs OpenBao while it is sealed fails.  A resume still tries to
\* adopt.
Unavailable(c) ==
    /\ sealed
    /\ \/ /\ \/ req[c].pc \in {"wrap", "putAdm", "redeem", "insert", "putKey"}
             \/ (At(c, "createGet") /\ Registered(Name(c)))
             \/ (At(c, "list") /\ wifi[Name(c)].status # "absent")
          /\ Fails(c)
       \/ At(c, "secrets") /\ CreateFails(c)
    /\ UNCHANGED <<registry, controller, held, bao, process, history, spare, faults>>

-----------------------------------------------------------------------------
\* What the parties do until a developer is in, one call after the other: a
\* token for the one who has none that works, the create it is for, a resume or
\* a delete by the operator where the developer never got the token, and the
\* key where it does not work.
TokenWorks(n) == held[n].tok # 0 /\ held[n].tok = row[n].tok
KeyWorks(n) == held[n].psk # 0 /\ profile[n] = held[n].psk

Needed(c, n) ==
    /\ c \in {n, Operator} /\ \A d \in Callers : Name(d) # n
    /\ CASE row[n].status = "absent" ->
               IF held[n].tok # 0 \/ held[n].enrol = "live" THEN c = n /\ Create(c, n) ELSE Admit(c, n)
         [] row[n].status = "provisioning" -> Create(c, n)
         [] row[n].status = "ready" ->
               IF TokenWorks(n) THEN ~KeyWorks(n) /\ CreateWiFiKey(c, n) ELSE c = Operator /\ Delete(c, n)
         [] row[n].status = "deleting" -> Delete(c, n)

\* Anything else the parties may call, beside whatever is in flight.
Unneeded(k) ==
    /\ spare < MaxSpare /\ spare' = spare + 1
    /\ \/ k.op = "admit" /\ Admit(k.by, k.name)
       \/ k.op = "revoke" /\ RevokeAdmission(k.by, k.name)
       \/ k.op = "create" /\ Create(k.by, k.name)
       \/ k.op = "createKey" /\ CreateWiFiKey(k.by, k.name)
       \/ k.op = "deleteKey" /\ DeleteWiFiKey(k.by, k.name)
       \/ k.op = "delete" /\ Delete(k.by, k.name)
    /\ UNCHANGED faults

Begin(c, n) == Needed(c, n) /\ UNCHANGED <<spare, faults>>

Step(c) ==
    \/ Wrap(c) \/ PutAdmissionKey(c) \/ DeleteAdmissionKey(c) \/ Redeem(c)
    \/ CreateGet(c) \/ Insert(c) \/ SetSecrets(c) \/ Built(c)
    \/ AdoptGet(c) \/ AdoptPut(c)
    \/ PutWiFiKey(c) \/ SetWiFiKeyStatus(c) \/ DropWiFiKey(c)
    \/ Mark(c) \/ List(c) \/ DropTenant(c)
    \/ EnsureRead(c) \/ RemoveRead(c) \/ AddPlaceholder(c) \/ DeleteKey(c)
    \/ AddKey(c) \/ EnsureAfter(c) \/ ClearPlaceholder(c)
    \/ Unavailable(c) \/ Answer(c)

Next ==
    \/ Build \/ Migrate \/ Crash \/ Seal \/ Unseal \/ RevokeLogin \/ Lapse
    \/ \E n \in Names : Expire(n)
    \/ \E c \in Callers : Step(c) \/ BuildFails(c) \/ AdoptFails(c) \/ CutOff(c)
    \/ \E c \in Callers, n \in Names : Begin(c, n)
    \/ \E k \in Calls : Unneeded(k)

\* Something goes on while it can: a loop of run, a handler, a party that does
\* what is needed.  And OpenBao is opened, and a login lapses, in time.
Progress ==
    \/ Build \/ Migrate
    \/ \E c \in Callers : Step(c) \/ \E n \in Names : Begin(c, n)

Fairness == WF_vars(Progress) /\ WF_vars(Unseal) /\ WF_vars(Lapse)

Spec == Init /\ [][Next]_vars /\ Fairness

-----------------------------------------------------------------------------
(* Properties.                                                               *)

Points == {"idle", "wrap", "putAdm", "dropAdm", "redeem", "createGet", "insert", "secrets", "build",
           "adoptGet", "adoptPut", "putKey", "keyReady", "dropKey", "mark", "list", "dropTenant",
           "ensRead", "remRead", "answer"} \cup AtController

\* Types, of the rows (the tables' CHECK constraints), the controller's
\* entries, the process and the calls.
TypeOK ==
    /\ row \in [Names -> {NoRow} \cup [status : {"provisioning", "ready", "deleting"}, tok : Secrets \ {0}]]
    /\ adm \in [Names -> Secrets]
    /\ wifi \in [Names -> {NoKey} \cup [status : {"provisioning", "ready"}, psk : Secrets \ {0}]]
    /\ profile \in [Names -> Secrets] /\ placeholder \in BOOLEAN
    /\ held \in [Names -> [enrol : {"none", "live", "spent"}, tok : Secrets, psk : Secrets]]
    /\ sealed \in BOOLEAN /\ refused \in BOOLEAN
    /\ api \in {"starting", "waiting", "serving"} /\ migrated \in BOOLEAN
    /\ req \in [Callers -> [pc : Points, op : Ops \cup {"none"}, name : Names \cup {None},
                            psk : Secrets, tok : Secrets, supplied : BOOLEAN,
                            adopts : {"no", "built", "always"}, stale : BOOLEAN, met : BOOLEAN]]
    /\ told \in [Names -> Secrets \cup {None}]
    /\ escaped \subseteq Names /\ unsettled \subseteq Names
    /\ spare \in 0 .. MaxSpare /\ faults \in 0 .. MaxFaults

\* A key in the controller is one the registry has a record of: the row goes
\* down first and is dropped last (issueAdmissionKey, CreateWiFiKey,
\* RevokeAdmission, DeleteWiFiKey, Delete), through adoption, crashes and calls
\* cut off anywhere.  The one way out is a record dropped by a call that ran
\* beside another about the name: a CreateWiFiKey behind the list of a Delete,
\* an Admit that read no tenant before the create that adopted the key.
EveryKeyHasARecord ==
    \A n \in Names \ escaped : profile[n] # 0 => adm[n] # 0 \/ wifi[n].status # "absent"

\* What the two writers of a record say of it, with no exception: the row goes
\* down first, so a key written to the controller is never one the registry has
\* no record of (wifikeys.go:117-118, admissionkeys.go:54-55).  Violated: a
\* CreateWiFiKey that has put its row is overtaken by another call about the
\* name, which lists or reads the key, finds none in the controller and drops
\* the record, before the first one writes to the controller.
NoKeyWithoutRecord ==
    \A n \in Names : profile[n] # 0 => adm[n] # 0 \/ wifi[n].status # "absent"

\* What the last good answer said of a tenant's key stays so until somebody
\* asks again, whatever happens to other tenants' keys beside it in the
\* profile, and through the tenant's create: the key handed over is the one
\* the controller lets in (EnsureKey), a revoked one is gone (RemoveKey).
AnswerHolds ==
    \A n \in Names : told[n] # None => profile[n] = told[n]

\* Once the calls about a name are over, and none stopped half done or met
\* another, registry and controller agree: an admission's key is in the controller and
\* not yet a ready tenant's, a tenant's ready key is in the controller, and a
\* name with neither has none (adoptAdmissionKey moves the record only).
Settled ==
    \A n \in Names \ unsettled :
        (\A c \in Callers : Name(c) # n) =>
            /\ adm[n] # 0 => profile[n] = adm[n] /\ wifi[n] = NoKey /\ row[n].status # "ready"
            /\ wifi[n].status = "ready" => profile[n] = wifi[n].psk
            /\ adm[n] = 0 /\ wifi[n] = NoKey => profile[n] = 0

\* A create that runs alone, with nothing failing, and finds its tenant ready
\* ends with no key left on the admission's record: what Service.Create says of
\* an adoption that failed, the next create or resume adopts it
\* (service.go:163-165).  Violated: over a ready tenant a create is refused, or
\* restores, and neither adopts.
AdoptedByNextCreate ==
    [][\A c \in Callers :
          /\ req[c].op = "create" /\ ~req[c].met /\ req'[c] = Idle
          /\ \/ At(c, "createGet") /\ row[Name(c)].status = "ready"
             \/ At(c, "answer") /\ req[c].adopts = "no"
          /\ ~sealed /\ faults' = faults
          => adm[Name(c)] = 0]_vars

\* The controller refuses a delete only when another call wrote the profile
\* after this one first read it: on its own, guardMinimum never leaves a revocation,
\* or a correction, to be refused for emptying the profile.
RefusedOnlyOnStaleRead ==
    \A c \in Callers : Refuses(c) => req[c].stale

In(n) == row[n].status = "ready" /\ TokenWorks(n) /\ KeyWorks(n)

\* Whatever was lost on the way (an enrollment token spent on a create that
\* failed before its row, an answer, a login, the process, OpenBao for a
\* while), repeating what each state calls for gets every tenant in: registered
\* and ready, its developer with the token the row accepts and a key that
\* works.
EventuallyIn == \A n \in Names : <>[]In(n)
=============================================================================
