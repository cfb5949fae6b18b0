--------------------------- MODULE AccountWriters ---------------------------
(***************************************************************************)
(* The two backends the API reaches through a forced command over SSH:      *)
(* broker accounts (internal/tenant/brokeraccounts.go, internal/backend/    *)
(* brokerwriter, cmd/deevnet-broker-account) and the log store's users      *)
(* (internal/tenant/logtokens.go, internal/backend/logwriter,               *)
(* cmd/deevnet-log-user).                                                   *)
(*                                                                          *)
(* A call of the API and the invocation it starts at the far end are two    *)
(* processes: when the API stops waiting, the invocation goes on.  Neither  *)
(* is kept apart from another's.  A call and its invocation have one        *)
(* number, and a password or a pair of log tokens has the number of the     *)
(* call that made it up, 0 for none; a hash is the password it verifies.    *)
(* Ansible renders the log store's file with an invocation of its own.  The *)
(* tenants are registered and ready; how they come and go is                *)
(* TenantLifecycle's.                                                       *)
(*                                                                          *)
(* A refusal that changes nothing is no step.                               *)
(***************************************************************************)
EXTENDS BrokerGrants

CONSTANTS
    Accounts, TenantOf,  \* broker accounts, and whose each is
    Asks,                \* what a create may ask for: [device, pub, sub]
    Filters, Topics,     \* patterns and topics the rules are checked with
    MaxCalls,            \* bound on calls
    MaxAtOnce,           \* bound on those at work at once, invocations included
    Together,            \* bound on their kinds: sets of kinds that occur together
    MaxFaults            \* bound on time-outs, cut-off calls, failed invocations

Calls == 1 .. MaxCalls
Secrets == 0 .. MaxCalls
Things == Accounts \cup Tenants

ASSUME WritersAssumption ==
    /\ TenantOf \in [Accounts -> Tenants] /\ Accounts \cap Tenants = {} /\ None \notin Things
    /\ \A ask \in Asks : /\ ask.pub \cup ask.sub \subseteq Seq(Levels) \ {<<>>}
                         /\ IsFiniteSet(ask.pub) /\ IsFiniteSet(ask.sub)
    /\ Filters \subseteq Seq(Levels) \ {<<>>}
    /\ Topics \subseteq Seq(Levels \cup Tenants \cup IoTDevices \cup {LogLevel})
    /\ MaxCalls \in Nat \ {0} /\ MaxAtOnce \in Nat \ {0} /\ MaxFaults \in Nat
    /\ UNION Together \subseteq {"put", "delete", "putUsers", "removeUsers", "render"}

VARIABLES
    acct,      \* the registry's rows of broker accounts
    users,     \* the registry's log tokens
    broker,    \* the broker's accounts
    files,     \* users.d: a file with a tenant's tokens
    auth,      \* auth.yml: the tokens rendered into it
    live,      \* the tokens vmauth serves
    known,     \* the password a tenant was given for an account
    call,      \* the API's calls
    job,       \* invocations at the far end
    begun,     \* how many there were
    told,      \* what the last good answer said of an account or a tenant
    mixed,     \* those about which two calls or invocations were at work at once
    raced,     \* tenants whose file was written after another invocation's read
    faults

registry == <<acct, users>>
farEnd == <<broker, files, auth, live>>
history == <<told, mixed, raced>>
vars == <<registry, farEnd, known, call, job, begun, history, faults>>

NoAccount == [status |-> "absent", device |-> None, hash |-> 0, pub |-> {}, sub |-> {}]
Gone == [hash |-> 0, pub |-> {}, sub |-> {}]
Granted(row) == [hash |-> row.hash, pub |-> row.pub, sub |-> row.sub]

\* plain: the password the answer carries; met: it was about a thing that
\* another call or invocation was at work on.
NoCall == [pc |-> "idle", op |-> "none", about |-> None, device |-> None,
           grant |-> Gone, plain |-> 0, met |-> FALSE]
NoTokens == [t \in Tenants |-> 0]
NoJob == [pc |-> "none", reload |-> TRUE, seen |-> NoTokens]

Init ==
    /\ acct = [a \in Accounts |-> NoAccount] /\ users = NoTokens
    /\ broker = [a \in Accounts |-> Gone]
    /\ files = NoTokens /\ auth = NoTokens /\ live = NoTokens
    /\ known = [a \in Accounts |-> 0]
    /\ call = [i \in Calls |-> NoCall] /\ job = [i \in Calls |-> NoJob] /\ begun = 0
    /\ told = [w \in Things |-> None] /\ mixed = {} /\ raced = {}
    /\ faults = 0

At(i, point) == call[i].pc = point
Goto(i, point) == call' = [call EXCEPT ![i].pc = point]
JobAt(i, point) == job[i].pc = point
Then(i, point) == job' = [job EXCEPT ![i].pc = point]
Finished == {"none", "ok", "refused", "failed"}
About(i) == call[i].about
Busy(i) == ~At(i, "idle") \/ job[i].pc \notin Finished

-----------------------------------------------------------------------------
(* The API's calls.                                                          *)

\* The next call is of this kind.
NextIs(i, op) ==
    /\ begun' = i
    /\ Cardinality({j \in Calls : Busy(j)}) < MaxAtOnce
    /\ \E kinds \in Together : op \in kinds /\ \A j \in 1 .. begun : call[j].op \in kinds

\* A call begins.
Enter(i, w, c) ==
    LET others == {j \in Calls : Busy(j) /\ About(j) = w}
    IN  /\ NextIs(i, c.op)
        /\ call' = [j \in Calls |->
                      IF j = i THEN [c EXCEPT !.about = w, !.met = others # {}]
                      ELSE [call[j] EXCEPT !.met = @ \/ j \in others]]
        /\ told' = [told EXCEPT ![w] = None]
        /\ mixed' = IF others # {} THEN mixed \cup {w} ELSE mixed
        /\ UNCHANGED <<registry, farEnd, job, raced, faults>>

\* For a mutant: a password not supplied is made up anew.
chooseNewSecret(i, supplied, existing) ==
    IF supplied # 0 THEN [hash |-> supplied, plain |-> supplied] ELSE [hash |-> i, plain |-> i]

\* chooseBrokerSecret: the password supplied, else the hash stored, for which
\* there is nothing to answer, else a new one.
chooseBrokerSecret(i, supplied, existing) ==
    IF supplied # 0 THEN [hash |-> supplied, plain |-> supplied]
    ELSE IF existing.hash # 0 THEN [hash |-> existing.hash, plain |-> 0]
    ELSE [hash |-> i, plain |-> i]

\* CreateBrokerAccount up to its row.  A tenant that supplies a password
\* supplies the one it holds.
CreateBrokerAccount(i, a, ask, supplies) ==
    LET t == TenantOf[a]
        s == chooseBrokerSecret(i, IF supplies THEN known[a] ELSE 0, acct[a])
    IN  /\ Acceptable(t, ask)
        /\ Enter(i, a, [NoCall EXCEPT !.pc = "row", !.op = "put", !.device = ask.device, !.plain = s.plain,
                          !.grant = [hash |-> s.hash, pub |-> Absolute(t, ask.pub), sub |-> Absolute(t, ask.sub)]])
        /\ UNCHANGED known

\* DeleteBrokerAccount.  The tenant gives its password up.
DeleteBrokerAccount(i, a) ==
    /\ acct[a] # NoAccount
    /\ Enter(i, a, [NoCall EXCEPT !.pc = "send", !.op = "delete"])
    /\ known' = [known EXCEPT ![a] = 0]

\* ensureLogTokens, of a create or a reconcile, makes up tokens that are
\* missing.
ensureLogTokens(i, t) ==
    /\ Enter(i, t, [NoCall EXCEPT !.op = "putUsers", !.pc = IF users[t] = 0 THEN "row" ELSE "send",
                      !.grant.hash = IF users[t] = 0 THEN i ELSE users[t]])
    /\ UNCHANGED known

\* removeLogTokens, and with Delete's end the tenant's row.
removeLogTokens(i, t) ==
    /\ Enter(i, t, [NoCall EXCEPT !.op = "removeUsers", !.pc = "send"])
    /\ UNCHANGED known

\* The row before the far end: PutBrokerAccount, SetSecrets.
PutRow(i) ==
    LET w == About(i) c == call[i]
    IN  /\ At(i, "row") /\ Goto(i, "send")
        /\ \/ /\ c.op = "put" /\ UNCHANGED users
              /\ acct' = [acct EXCEPT ![w] = [status |-> "provisioning", device |-> c.device,
                                              hash |-> c.grant.hash, pub |-> c.grant.pub, sub |-> c.grant.sub]]
           \/ /\ c.op = "putUsers" /\ UNCHANGED acct
              /\ users' = [users EXCEPT ![w] = c.grant.hash]
        /\ UNCHANGED <<farEnd, known, job, begun, history, faults>>

\* The broker writer's send: the session is open, and the far end has the
\* request, which it decodes and validates.
SendAccount(i) ==
    LET c == call[i]
    IN  /\ At(i, "send") /\ c.op \in {"put", "delete"} /\ Goto(i, "wait")
        /\ Then(i, IF c.op = "put" /\ ~Validate(TenantOf[c.about], c.grant.hash, c.grant.pub, c.grant.sub)
                   THEN "refused" ELSE "sql")
        /\ UNCHANGED <<registry, farEnd, known, begun, history, faults>>

\* The log writer's.  Both ends validate by one function, so nothing is refused.
SendUsers(i) ==
    /\ At(i, "send") /\ call[i].op \in {"putUsers", "removeUsers"}
    /\ Goto(i, "wait") /\ Then(i, "file")
    /\ UNCHANGED <<registry, farEnd, known, begun, history, faults>>

\* The call ends.  An answer 201, and the answer 502 that carries the account,
\* hand over the password.
End(i, carries) ==
    /\ call' = [call EXCEPT ![i] = [@ EXCEPT !.pc = "idle"]]
    /\ known' = IF carries /\ call[i].plain # 0
                THEN [known EXCEPT ![About(i)] = call[i].plain] ELSE known

\* For a mutant: a delete goes on whatever the far end says.
ReceiveAny(i) ==
    /\ At(i, "wait") /\ call[i].op \in {"put", "delete"}
    /\ \/ /\ JobAt(i, "ok") \/ (call[i].op = "delete" /\ JobAt(i, "failed"))
          /\ Goto(i, IF call[i].op = "put" THEN "ready" ELSE "drop") /\ UNCHANGED known
       \/ call[i].op = "put" /\ job[i].pc \in {"refused", "failed"} /\ End(i, TRUE)
    /\ UNCHANGED <<registry, farEnd, job, begun, history, faults>>

\* send has an answer from the far end.
ReceiveAccount(i) ==
    /\ At(i, "wait") /\ call[i].op \in {"put", "delete"}
    /\ \/ /\ JobAt(i, "ok") /\ UNCHANGED known
          /\ Goto(i, IF call[i].op = "put" THEN "ready" ELSE "drop")
       \/ job[i].pc \in {"refused", "failed"} /\ End(i, TRUE)
    /\ UNCHANGED <<registry, farEnd, job, begun, history, faults>>

ReceiveUsers(i) ==
    /\ At(i, "wait") /\ call[i].op \in {"putUsers", "removeUsers"}
    /\ \/ /\ JobAt(i, "ok") /\ UNCHANGED known
          /\ Goto(i, IF call[i].op = "putUsers" THEN "answer" ELSE "drop")
       \/ JobAt(i, "failed") /\ End(i, TRUE)
    /\ UNCHANGED <<registry, farEnd, job, begun, history, faults>>

\* SetBrokerAccountStatus.  Of a row that is gone the answer carries nothing.
SetBrokerAccountStatus(i) ==
    LET a == About(i)
    IN  /\ At(i, "ready")
        /\ IF acct[a] # NoAccount
           THEN /\ acct' = [acct EXCEPT ![a].status = "ready"]
                /\ Goto(i, "answer") /\ UNCHANGED known
           ELSE End(i, FALSE) /\ UNCHANGED acct
        /\ UNCHANGED <<users, farEnd, job, begun, history, faults>>

\* The far end before the row: the end of DeleteBrokerAccount, and of Delete.
DropRow(i) ==
    LET w == About(i)
    IN  /\ At(i, "drop") /\ Goto(i, "answer")
        /\ \/ call[i].op = "delete" /\ acct' = [acct EXCEPT ![w] = NoAccount] /\ UNCHANGED users
           \/ call[i].op = "removeUsers" /\ users' = [users EXCEPT ![w] = 0] /\ UNCHANGED acct
        /\ UNCHANGED <<farEnd, known, job, begun, history, faults>>

\* A good answer: of a call that met no other, it tells what holds.
Answer(i) ==
    /\ At(i, "answer") /\ End(i, TRUE)
    /\ told' = IF call[i].met THEN told ELSE [told EXCEPT ![About(i)] = call[i].grant]
    /\ UNCHANGED <<registry, farEnd, job, begun, mixed, raced, faults>>

-----------------------------------------------------------------------------
(* The far end.                                                              *)

\* --render, with or without --no-reload: it starts where regenerate does.
Render(i, reload) ==
    /\ NextIs(i, "render")
    /\ call' = [call EXCEPT ![i].op = "render"]
    /\ job' = [job EXCEPT ![i] = [NoJob EXCEPT !.pc = "load", !.reload = reload]]
    /\ UNCHANGED <<registry, farEnd, known, history, faults>>

\* put and del of deevnet-broker-account: one statement.
WriteAccount(i) ==
    /\ JobAt(i, "sql") /\ Then(i, "ok")
    /\ broker' = [broker EXCEPT ![About(i)] = call[i].grant]
    /\ UNCHANGED <<registry, files, auth, live, known, call, begun, history, faults>>

\* run of deevnet-log-user writes or removes the tenant's file.
WriteUsers(i) ==
    LET t == About(i)
    IN  /\ JobAt(i, "file") /\ Then(i, "load")
        /\ files' = [files EXCEPT ![t] = call[i].grant.hash]
        /\ raced' = IF \E j \in Calls : JobAt(j, "rename") THEN raced \cup {t} ELSE raced \ {t}
        /\ UNCHANGED <<registry, broker, auth, live, known, call, begun, told, mixed, faults>>

\* For a mutant: only the tenant's own file is read.
LoadOne(i) ==
    /\ JobAt(i, "load")
    /\ job' = [job EXCEPT ![i].pc = "rename",
                          ![i].seen = [t \in Tenants |-> IF t = About(i) THEN files[t] ELSE 0]]
    /\ UNCHANGED <<registry, farEnd, known, call, begun, history, faults>>

\* regenerate reads the base file and every tenant's.
Load(i) ==
    /\ JobAt(i, "load")
    /\ job' = [job EXCEPT ![i].pc = "rename", ![i].seen = files]
    /\ UNCHANGED <<registry, farEnd, known, call, begun, history, faults>>

\* It renders what it read and puts the file in place.
Rename(i) ==
    /\ JobAt(i, "rename") /\ Then(i, IF job[i].reload THEN "reload" ELSE "ok")
    /\ auth' = job[i].seen
    /\ UNCHANGED <<registry, broker, files, live, known, call, begun, history, faults>>

\* vmauth reads the file that is in place now.
Reload(i) ==
    /\ JobAt(i, "reload") /\ Then(i, "ok")
    /\ live' = auth
    /\ UNCHANGED <<registry, broker, files, auth, known, call, begun, history, faults>>

-----------------------------------------------------------------------------
(* Faults.                                                                   *)

Fault == faults < MaxFaults /\ faults' = faults + 1

\* dial does not reach the far end, or runBounded gives up on it; the answer
\* says so.
Timeout(i) ==
    /\ At(i, "send") \/ At(i, "wait")
    /\ Fault
    /\ End(i, TRUE)
    /\ UNCHANGED <<registry, farEnd, job, begun, history>>

\* The caller goes away, the API stops, or a write fails: nothing is answered.
CutOff(i) ==
    /\ ~At(i, "idle") /\ Fault
    /\ End(i, FALSE)
    /\ UNCHANGED <<registry, farEnd, job, begun, history>>

\* An invocation fails: the database, a file, vmauth.
JobFails(i) ==
    /\ job[i].pc \notin Finished /\ Fault
    /\ Then(i, "failed")
    /\ UNCHANGED <<registry, farEnd, known, call, begun, history>>

-----------------------------------------------------------------------------
Begin(i) ==
    /\ i = begun + 1
    /\ \/ \E a \in Accounts :
             \/ \E ask \in Asks, supplies \in BOOLEAN : CreateBrokerAccount(i, a, ask, supplies)
             \/ DeleteBrokerAccount(i, a)
       \/ \E t \in Tenants : ensureLogTokens(i, t) \/ removeLogTokens(i, t)
       \/ \E reload \in BOOLEAN : Render(i, reload)

Next ==
    \E i \in Calls :
        \/ Begin(i)
        \/ PutRow(i) \/ SendAccount(i) \/ SendUsers(i) \/ ReceiveAccount(i) \/ ReceiveUsers(i)
        \/ SetBrokerAccountStatus(i) \/ DropRow(i) \/ Answer(i)
        \/ WriteAccount(i) \/ WriteUsers(i) \/ Load(i) \/ Rename(i) \/ Reload(i)
        \/ Timeout(i) \/ CutOff(i) \/ JobFails(i)

Spec == Init /\ [][Next]_vars

-----------------------------------------------------------------------------
(* Properties.                                                               *)

\* Types, of the rows (the tables' CHECK constraints), of what the far ends
\* hold and of the calls and invocations.
TypeOK ==
    /\ \A a \in Accounts :
          \/ acct[a] = NoAccount
          \/ /\ acct[a].status \in {"provisioning", "ready"} /\ acct[a].hash \in Secrets \ {0}
             /\ acct[a].device \in IoTDevices \cup {None} /\ acct[a].pub \cup acct[a].sub # {}
    /\ \A a \in Accounts : broker[a] = Gone \/ broker[a].hash \in Secrets \ {0}
    /\ {users, files, auth, live} \subseteq [Tenants -> Secrets]
    /\ known \in [Accounts -> Secrets]
    /\ \A i \in Calls :
          /\ call[i].pc \in {"idle", "row", "send", "wait", "ready", "drop", "answer"}
          /\ job[i].pc \in Finished \cup {"sql", "file", "load", "rename", "reload"}
          /\ job[i].seen \in [Tenants -> Secrets]
    /\ mixed \subseteq Things /\ raced \subseteq Tenants
    /\ begun \in 0 .. MaxCalls /\ faults \in 0 .. MaxFaults

\* The rules over every short pattern, asked for alone.
RulesConfine ==
    \A t \in Tenants, device \in IoTDevices \cup {None}, f \in Filters :
        LET publishes == [device |-> device, pub |-> {f}, sub |-> {}]
            subscribes == [device |-> device, pub |-> {}, sub |-> {f}]
        IN  /\ Acceptable(t, publishes) => Confined(t, device, Absolute(t, {f}), {}, Topics)
            /\ Acceptable(t, subscribes) => Confined(t, device, {}, Absolute(t, {f}), Topics)

\* No account reaches a topic outside its tenant's, none writes another
\* device's log and no device reads logs, whatever wildcards spell it
\* (CheckLogGrants, touchesLog), by the broker's own matching: of every pattern
\* the rules accept, and of what the broker holds for as long as it holds it.
GrantsConfined ==
    /\ RulesConfine
    /\ \A a \in Accounts : broker[a] # Gone =>
          \E device \in IoTDevices \cup {None} :
              Confined(TenantOf[a], device, broker[a].pub, broker[a].sub, Topics)

\* The writer refuses a request the API validated in one case only, a pattern
\* that grows past the limit by the prefix: PrefixPattern measures it without,
\* validPatterns with the tenant's name (contract.go says the two cannot
\* disagree).
RefusedOnlyOverlong ==
    \A i \in Calls : JobAt(i, "refused") =>
        \E p \in call[i].grant.pub \cup call[i].grant.sub :
            ~(Size(p) <= maxPattern) /\ Size(Tail(p)) <= maxPattern

\* An account the broker holds is one the registry has a row of, through
\* time-outs, lost answers and failures at any point: the row is written first
\* and dropped last.  Only two calls about one account at once, or a call
\* beside an invocation its caller gave up on, can leave one behind.
EveryAccountHasARow ==
    \A a \in Accounts \ mixed : broker[a] # Gone => acct[a] # NoAccount

\* The same with no exception: an account in the broker is never one the registry
\* has no record of (brokeraccounts.go:115-116).  Violated: of a create and a delete
\* of one account, at once or after the API gave up on the create's session,
\* the broker takes the create's statement last, and the delete drops the row.
AccountsAreRecorded ==
    \A a \in Accounts : broker[a] # Gone => acct[a] # NoAccount

\* A password handed out stays the account's: no retry, with the password or
\* without, after any failure, rotates what devices are flashed with
\* (chooseBrokerSecret), in the registry or at the broker.
GivenPasswordKept ==
    \A a \in Accounts \ mixed :
        known[a] # 0 /\ acct[a] # NoAccount =>
            acct[a].hash = known[a] /\ broker[a].hash \in {0, known[a]}

\* What a good answer said holds until the next call about the same account or
\* tenant, whatever calls, renderings and failures about others come between:
\* the broker grants what the row says; vmauth serves the tenant's tokens and
\* the registry holds them; what was removed is gone.  Except for a tenant
\* whose file was written while another invocation, having read the directory
\* before, had yet to put its rendering in place: that older file may come
\* last, and the tenant's next call repairs it.
AnswerHolds ==
    /\ \A a \in Accounts : told[a] # None =>
          broker[a] = told[a] /\ (IF told[a] = Gone THEN acct[a] = NoAccount
                                  ELSE acct[a].status = "ready" /\ Granted(acct[a]) = told[a])
    /\ \A t \in Tenants \ raced : told[t] # None =>
          live[t] = told[t].hash /\ users[t] = told[t].hash

\* No rendering drops the users of a tenant that was told its tokens are live,
\* whoever renders: main.go:13-15 of deevnet-log-user, an Ansible run cannot
\* drop a tenant's users.  Violated: nothing keeps two invocations apart, and
\* one that read the directory before the tenant's file was written puts its
\* rendering in place after the tenant's own, to be read by the reload.
ToldUsersStay ==
    \A t \in Tenants : told[t] \notin {None, Gone} => live[t] = told[t].hash
=============================================================================
