------------------------ MODULE AccountWritersProofs ------------------------
(***************************************************************************)
(* AccountWriters, proved for any accounts, tenants, patterns and topics,   *)
(* any number of calls, overlapping at will, and any number of faults.      *)
(*                                                                          *)
(* Most of what a call relies on holds only while nobody else is at work on *)
(* the same account or tenant.  The invariant says of a call that met no    *)
(* other that it is alone (Alone), and what it has found or done so far:    *)
(* PutInv, DeleteInv, UsersInv.  A step of another call is then about       *)
(* another thing (Stranger), and what the two share, the log store's one    *)
(* file, is left to SeenInv.                                                *)
(***************************************************************************)
EXTENDS AccountWriters, FiniteSetTheorems, SequenceTheorems, TLAPS

-----------------------------------------------------------------------------
(* The inductive invariant.                                                  *)

AccountOps == {"put", "delete"}
UserOps == {"putUsers", "removeUsers"}
OpNames == {"none", "render"} \cup AccountOps \cup UserOps
CallPoints == {"idle", "row", "send", "wait", "ready", "drop", "answer"}
JobPoints == Finished \cup {"sql", "file", "load", "rename", "reload"}

Patterns == Seq(Levels \cup Tenants)
Grants == [hash : Secrets, pub : SUBSET Patterns, sub : SUBSET Patterns]
Records == [pc : CallPoints, op : OpNames, about : Things \cup {None},
            device : IoTDevices \cup {None}, grant : Grants, plain : Secrets, met : BOOLEAN]
Invocations == [pc : JobPoints, reload : BOOLEAN, seen : [Tenants -> Secrets]]
Rows == [status : {"provisioning", "ready"}, device : IoTDevices \cup {None},
         hash : Secrets \ {0}, pub : SUBSET Patterns, sub : SUBSET Patterns]

Types ==
    /\ acct \in [Accounts -> Rows \cup {NoAccount}]
    /\ broker \in [Accounts -> Grants]
    /\ users \in [Tenants -> Secrets] /\ files \in [Tenants -> Secrets]
    /\ auth \in [Tenants -> Secrets] /\ live \in [Tenants -> Secrets]
    /\ known \in [Accounts -> Secrets]
    /\ call \in [Calls -> Records] /\ job \in [Calls -> Invocations]
    /\ told \in [Things -> Grants \cup {None}]
    /\ mixed \subseteq Things /\ raced \subseteq Tenants
    /\ begun \in 0 .. MaxCalls /\ faults \in 0 .. MaxFaults

\* The points a call of each kind comes by, and those of its invocation.
Fits(op, point, jobPoint) ==
    /\ op = "put" => /\ point \in {"idle", "row", "send", "wait", "ready", "answer"}
                     /\ jobPoint \in {"none", "sql", "ok", "refused", "failed"}
    /\ op = "delete" => /\ point \in {"idle", "send", "wait", "drop", "answer"}
                        /\ jobPoint \in {"none", "sql", "ok", "failed"}
    /\ op = "putUsers" => point \in {"idle", "row", "send", "wait", "answer"}
    /\ op = "removeUsers" => point \in {"idle", "send", "wait", "drop", "answer"}
    /\ op \in UserOps => jobPoint \in {"none", "file", "load", "rename", "reload", "ok", "failed"}
    /\ op = "render" => point = "idle" /\ jobPoint \in {"load", "rename", "reload", "ok", "failed"}
    /\ op = "none" => point = "idle" /\ jobPoint = "none"

\* A call is of a kind, about a thing of that kind, and has the answer of its
\* invocation before it goes on.
CallInv(i) ==
    /\ i > begun => call[i].op = "none"
    /\ Fits(call[i].op, call[i].pc, job[i].pc)
    /\ call[i].op \in AccountOps => About(i) \in Accounts
    /\ call[i].op \in UserOps => About(i) \in Tenants
    /\ call[i].op \in {"none", "render"} => About(i) = None
    /\ call[i].op # "render" => job[i].reload
    /\ At(i, "row") \/ At(i, "send") => JobAt(i, "none")
    /\ At(i, "ready") \/ At(i, "drop") \/ At(i, "answer") => JobAt(i, "ok")
    /\ call[i].met => About(i) \in mixed

\* Of two at work on one thing, both have met another.
Alone ==
    \A i, j \in Calls : i # j /\ Busy(i) /\ Busy(j) /\ About(i) = About(j) /\ About(i) \in Things =>
        call[i].met

\* What the last good answer said is about a thing nobody is at work on since.
Quiet == \A i \in Calls : Busy(i) /\ About(i) \in Things => told[About(i)] = None

\* What the API's checks made sure of when the call began.
AskedInv(i) ==
    /\ call[i].op = "put" =>
          /\ \E ask \in Asks :
                /\ Acceptable(TenantOf[About(i)], ask) /\ call[i].device = ask.device
                /\ call[i].grant.pub = Absolute(TenantOf[About(i)], ask.pub)
                /\ call[i].grant.sub = Absolute(TenantOf[About(i)], ask.sub)
          /\ call[i].grant.hash # 0 /\ call[i].plain \in {0, call[i].grant.hash}
    /\ call[i].op # "put" => call[i].plain = 0
    /\ call[i].op \in {"delete", "removeUsers"} => call[i].grant = Gone
    /\ JobAt(i, "refused") =>
          \E p \in call[i].grant.pub \cup call[i].grant.sub :
              ~(Size(p) <= maxPattern) /\ Size(Tail(p)) <= maxPattern

Kept(i) == acct[About(i)] # NoAccount /\ Granted(acct[About(i)]) = call[i].grant

\* A put that met no other.
PutInv(i) ==
    call[i].op = "put" /\ Busy(i) /\ ~call[i].met =>
        /\ ~At(i, "row") => Kept(i)
        /\ At(i, "ready") \/ At(i, "answer") \/ (At(i, "wait") /\ JobAt(i, "ok")) =>
              broker[About(i)] = call[i].grant
        /\ At(i, "answer") => acct[About(i)].status = "ready"

\* And one about an account that never was at work on twice at once: the hash
\* it writes is the one that is there.
HashInv(i) ==
    call[i].op = "put" /\ At(i, "row") /\ About(i) \notin mixed /\ acct[About(i)] # NoAccount =>
        call[i].grant.hash = acct[About(i)].hash

DeleteInv(i) ==
    call[i].op = "delete" /\ Busy(i) =>
        /\ About(i) \notin mixed => known[About(i)] = 0
        /\ ~call[i].met =>
              /\ At(i, "drop") \/ At(i, "answer") \/ (At(i, "wait") /\ JobAt(i, "ok")) =>
                    broker[About(i)] = Gone
              /\ At(i, "answer") => acct[About(i)] = NoAccount

ConfinedAt(a) ==
    broker[a] # Gone =>
        /\ broker[a].hash # 0
        /\ \E device \in IoTDevices \cup {None} :
              Confined(TenantOf[a], device, broker[a].pub, broker[a].sub, Topics)

AccountInv(a) ==
    /\ acct[a] # NoAccount => acct[a].pub \cup acct[a].sub # {}
    /\ ConfinedAt(a)
    /\ a \notin mixed =>
          /\ broker[a] # Gone => acct[a] # NoAccount
          /\ known[a] # 0 => acct[a] # NoAccount /\ acct[a].hash = known[a]
          /\ acct[a] # NoAccount => broker[a].hash \in {0, acct[a].hash}
    /\ told[a] # None =>
          broker[a] = told[a] /\ (IF told[a] = Gone THEN acct[a] = NoAccount
                                  ELSE acct[a].status = "ready" /\ Granted(acct[a]) = told[a])

\* Nobody who read the directory before the tenant's file was last written has
\* yet to put its rendering in place.
SeenInv(t) ==
    t \notin raced => \A j \in Calls : JobAt(j, "rename") => job[j].seen[t] = files[t]

\* A call about a tenant's tokens that met no other.
UsersInv(i) ==
    call[i].op \in UserOps /\ Busy(i) /\ ~call[i].met =>
        LET t == About(i)
        IN  /\ call[i].op = "putUsers" /\ call[i].pc \in {"send", "wait", "answer"} =>
                  users[t] = call[i].grant.hash
            /\ call[i].op = "removeUsers" /\ At(i, "answer") => users[t] = 0
            /\ job[i].pc \in {"load", "rename", "reload", "ok"} => files[t] = call[i].grant.hash
            /\ t \notin raced /\ job[i].pc \in {"reload", "ok"} => auth[t] = files[t]
            /\ t \notin raced /\ JobAt(i, "ok") => live[t] = files[t]

TenantInv(t) ==
    /\ SeenInv(t)
    /\ t \notin raced /\ told[t] # None =>
          /\ live[t] = told[t].hash /\ users[t] = told[t].hash
          /\ auth[t] = files[t] /\ live[t] = files[t]

WritersInv ==
    /\ Types /\ Alone /\ Quiet
    /\ \A i \in Calls : CallInv(i) /\ AskedInv(i) /\ PutInv(i) /\ HashInv(i) /\ DeleteInv(i) /\ UsersInv(i)
    /\ \A a \in Accounts : AccountInv(a)
    /\ \A t \in Tenants : TenantInv(t)
-----------------------------------------------------------------------------
(* The rules and the broker's matching, for patterns and topics of any       *)
(* length.                                                                   *)

\* A pattern under the tenant's prefix.
LEMMA PrefixedPattern ==
    ASSUME NEW t \in Tenants, NEW r \in Seq(Levels) \ {<<>>}
    PROVE  /\ <<t>> \o r \in Patterns /\ Len(<<t>> \o r) = Len(r) + 1 /\ Len(r) \in Nat \ {0}
           /\ (<<t>> \o r)[1] = t /\ \A k \in 1 .. Len(r) : (<<t>> \o r)[k + 1] = r[k]
           /\ Tail(<<t>> \o r) = r
<1>1. <<t>> \in Seq(Levels \cup Tenants) /\ r \in Seq(Levels \cup Tenants)
  OBVIOUS
<1>2. Len(r) \in Nat \ {0}
  OBVIOUS
<1>3. /\ <<t>> \o r \in Seq(Levels \cup Tenants) /\ Len(<<t>> \o r) = Len(r) + 1
      /\ (<<t>> \o r)[1] = t /\ \A k \in 1 .. Len(r) : (<<t>> \o r)[k + 1] = r[k]
  BY <1>1, <1>2
<1>4. Tail(<<t>> \o r) = r
  BY <1>1, <1>2, <1>3, ConcatProperties, HeadTailProperties
<1> QED BY <1>2, <1>3, <1>4 DEF Patterns

TopicLevels == Levels \cup Tenants \cup IoTDevices \cup {LogLevel}

\* A pattern under the prefix reaches the tenant's topics only, and its log
\* space only if touchesLog says so.
LEMMA StaysHome ==
    ASSUME NEW t \in Tenants, NEW p, Len(p) \in Nat, Len(p) >= 2, p[1] = t,
           NEW topic \in Seq(TopicLevels), Matches(p, topic)
    PROVE  topic[1] = t /\ (InLog(t, topic) => touchesLog(t, p))
<1> DEFINE n == IF Last(p) = "#" THEN Len(p) - 1 ELSE Len(p)
<1>1. n \in Nat /\ n >= 1 /\ \A k \in 1 .. n : p[k] \in {"+", topic[k]}
  BY DEF Matches
<1>2. t # "+"
  BY GrantsAssumption
<1>3. topic[1] = t
  BY <1>1, <1>2
<1>4. CASE n = 1
  <2>1. Len(p) = 2 /\ p[2] = "#"
    BY <1>4 DEF Last
  <2> QED BY <1>3, <2>1 DEF touchesLog
<1>5. CASE n >= 2
  <2>1. p[2] \in {"+", topic[2]}
    BY <1>1, <1>5
  <2> QED BY <1>3, <2>1 DEF touchesLog, InLog
<1>6. n = 1 \/ n >= 2
  <2> HIDE DEF n
  <2> QED BY <1>1
<1> QED BY <1>4, <1>5, <1>6

\* The one pattern of a device in the log space is the one topic.
LEMMA OwnLogOnly ==
    ASSUME NEW t \in Tenants, NEW device \in IoTDevices, NEW topic \in Seq(TopicLevels),
           InLog(t, topic), Matches(<<t, LogLevel, device>>, topic)
    PROVE  topic = <<t, LogLevel, device>>
<1> DEFINE p == <<t, LogLevel, device>>
<1>1. device # "#" /\ device # "+"
  BY GrantsAssumption
<1>2. Len(p) = 3 /\ p[3] = device /\ Last(p) = device
  BY DEF Last
<1>3. Len(topic) = 3 /\ \A k \in 1 .. 3 : p[k] \in {"+", topic[k]}
  BY <1>1, <1>2 DEF Matches
<1>4. topic[3] = device
  BY <1>1, <1>2, <1>3
<1>5. topic[1] = t /\ topic[2] = LogLevel
  BY DEF InLog
<1>6. p \in Seq(TopicLevels) /\ p[1] = t /\ p[2] = LogLevel
  BY DEF TopicLevels
<1> QED BY <1>2, <1>3, <1>4, <1>5, <1>6

\* What the rules accept confines the account, for topics and patterns of any
\* number of levels: the tenant's topics, a device's own log and nobody else's,
\* and logs read by workloads only (CheckLogGrants, PrefixPatterns).
THEOREM AcceptedIsConfined ==
    ASSUME NEW t \in Tenants, NEW device, NEW pub, NEW sub,
           pub \cup sub \subseteq Seq(Levels) \ {<<>>},
           checkBrokerDevice(device), CheckLogGrants(t, device, Absolute(t, pub), Absolute(t, sub))
    PROVE  Confined(t, device, Absolute(t, pub), Absolute(t, sub), Seq(TopicLevels))
<1>1. ASSUME NEW p \in Absolute(t, pub) \cup Absolute(t, sub)
      PROVE  Len(p) \in Nat /\ Len(p) >= 2 /\ p[1] = t
  <2>1. PICK r \in pub \cup sub : p = <<t>> \o r
    BY DEF Absolute
  <2>2. r \in Seq(Levels) \ {<<>>}
    OBVIOUS
  <2>3. Len(p) = Len(r) + 1 /\ Len(r) \in Nat \ {0} /\ p[1] = t
    BY <2>1, <2>2, PrefixedPattern
  <2> QED BY <2>3
<1>2. ASSUME NEW topic \in Seq(TopicLevels), NEW p \in Absolute(t, pub), Matches(p, topic)
      PROVE  /\ topic[1] = t
             /\ InLog(t, topic) => device # None /\ topic = <<t, LogLevel, device>>
  <2>1. topic[1] = t /\ (InLog(t, topic) => touchesLog(t, p))
    BY <1>1, <1>2, StaysHome
  <2>2. touchesLog(t, p) => device # None /\ device \in IoTDevices /\ p = <<t, LogLevel, device>>
    BY DEF CheckLogGrants, checkBrokerDevice
  <2> QED BY <1>2, <2>1, <2>2, OwnLogOnly
<1>3. ASSUME NEW topic \in Seq(TopicLevels), NEW p \in Absolute(t, sub), Matches(p, topic)
      PROVE  topic[1] = t /\ (InLog(t, topic) => device = None)
  <2>1. topic[1] = t /\ (InLog(t, topic) => touchesLog(t, p))
    BY <1>1, <1>3, StaysHome
  <2> QED BY <2>1 DEF CheckLogGrants
<1> QED BY <1>2, <1>3 DEF Confined

LEMMA ConfinedOnTopics ==
    ASSUME NEW t, NEW device, NEW pub, NEW sub, Confined(t, device, pub, sub, Seq(TopicLevels))
    PROVE  Confined(t, device, pub, sub, Topics)
BY WritersAssumption DEF Confined, TopicLevels

LEMMA RulesAlwaysConfine == RulesConfine
<1> SUFFICES ASSUME NEW t \in Tenants, NEW device \in IoTDevices \cup {None}, NEW f \in Filters
             PROVE  /\ Acceptable(t, [device |-> device, pub |-> {f}, sub |-> {}]) =>
                          Confined(t, device, Absolute(t, {f}), {}, Topics)
                    /\ Acceptable(t, [device |-> device, pub |-> {}, sub |-> {f}]) =>
                          Confined(t, device, {}, Absolute(t, {f}), Topics)
  BY DEF RulesConfine
<1>1. {f} \cup {} \subseteq Seq(Levels) \ {<<>>} /\ {} \cup {f} \subseteq Seq(Levels) \ {<<>>}
  BY WritersAssumption
<1>2. Absolute(t, {}) = {}
  BY DEF Absolute
<1>3. ASSUME Acceptable(t, [device |-> device, pub |-> {f}, sub |-> {}])
      PROVE  Confined(t, device, Absolute(t, {f}), {}, Topics)
  <2>1. checkBrokerDevice(device) /\ CheckLogGrants(t, device, Absolute(t, {f}), Absolute(t, {}))
    BY <1>3 DEF Acceptable
  <2> QED BY <1>1, <1>2, <2>1, AcceptedIsConfined, ConfinedOnTopics
<1>4. ASSUME Acceptable(t, [device |-> device, pub |-> {}, sub |-> {f}])
      PROVE  Confined(t, device, {}, Absolute(t, {f}), Topics)
  <2>1. checkBrokerDevice(device) /\ CheckLogGrants(t, device, Absolute(t, {}), Absolute(t, {f}))
    BY <1>4 DEF Acceptable
  <2> QED BY <1>1, <1>2, <2>1, AcceptedIsConfined, ConfinedOnTopics
<1> QED BY <1>3, <1>4
\* There are no more patterns with the prefix than without.
LEMMA AsManyPatterns ==
    ASSUME NEW t, NEW R, IsFiniteSet(R)
    PROVE  /\ Cardinality(Absolute(t, R)) \in Nat /\ Cardinality(R) \in Nat
           /\ Cardinality(Absolute(t, R)) <= Cardinality(R)
<1> DEFINE f == [r \in R |-> <<t>> \o r]
<1>1. f \in Surjection(R, Absolute(t, R))
  BY DEF Surjection, Absolute
<1>2. IsFiniteSet(Absolute(t, R)) /\ Cardinality(Absolute(t, R)) <= Cardinality(R)
  BY <1>1, FS_Surjection
<1> QED BY <1>2, FS_CardinalityType

\* A pattern the API accepted passes the writer's rules but for its length.
LEMMA AcceptedPattern ==
    ASSUME NEW t \in Tenants, NEW r \in Seq(Levels) \ {<<>>}, PrefixPattern(t, r)
    PROVE  LET p == <<t>> \o r
           IN  /\ Len(p) >= 2 /\ p[1] = t /\ ~Uses(p, PercentLevels) /\ validWildcards(p)
               /\ Size(Tail(p)) <= maxPattern
<1> DEFINE p == <<t>> \o r
<1>1. /\ Len(p) = Len(r) + 1 /\ Len(r) \in Nat \ {0} /\ p[1] = t /\ p \in Patterns
      /\ Tail(p) = r /\ \A k \in 1 .. Len(r) : p[k + 1] = r[k]
  BY PrefixedPattern
<1>2. Size(Tail(p)) <= maxPattern /\ validWildcards(p) /\ ~Uses(r, PercentLevels)
  BY <1>1 DEF PrefixPattern
<1>3. ASSUME NEW k \in DOMAIN p PROVE p[k] \notin PercentLevels
  <2>1. k \in 1 .. Len(r) + 1
    BY <1>1 DEF Patterns
  <2>2. CASE k = 1
    BY <1>1, <2>2, GrantsAssumption
  <2>3. CASE k # 1
    <3>1. k - 1 \in 1 .. Len(r) /\ p[(k - 1) + 1] = r[k - 1]
      BY <1>1, <2>1, <2>3
    <3>2. (k - 1) + 1 = k /\ k - 1 \in DOMAIN r
      BY <2>1, <3>1
    <3> QED BY <1>2, <3>1, <3>2 DEF Uses
  <2> QED BY <2>2, <2>3
<1>4. Len(p) >= 2 /\ ~Uses(p, PercentLevels)
  BY <1>1, <1>3 DEF Uses
<1> QED BY <1>1, <1>2, <1>4

\* What the API accepted the writer refuses only for a pattern that grows past
\* the limit by the prefix (Request.Validate against PrefixPattern).
THEOREM RefusalIsOverlong ==
    ASSUME NEW t \in Tenants, NEW ask, NEW hash, hash # 0,
           ask.pub \cup ask.sub \subseteq Seq(Levels) \ {<<>>},
           IsFiniteSet(ask.pub), IsFiniteSet(ask.sub), Acceptable(t, ask),
           ~Validate(t, hash, Absolute(t, ask.pub), Absolute(t, ask.sub))
    PROVE  \E p \in Absolute(t, ask.pub) \cup Absolute(t, ask.sub) :
              ~(Size(p) <= maxPattern) /\ Size(Tail(p)) <= maxPattern
<1>1. /\ PrefixPatterns(t, ask.pub) /\ PrefixPatterns(t, ask.sub)
      /\ CheckGrant(Absolute(t, ask.pub), Absolute(t, ask.sub))
  BY DEF Acceptable
<1>2. /\ Cardinality(Absolute(t, ask.pub)) <= maxPatterns
      /\ Cardinality(Absolute(t, ask.sub)) <= maxPatterns
  BY <1>1, AsManyPatterns, GrantsAssumption DEF PrefixPatterns
<1>3. ASSUME NEW p \in Absolute(t, ask.pub) \cup Absolute(t, ask.sub)
      PROVE  /\ Len(p) >= 2 /\ p[1] = t /\ ~Uses(p, PercentLevels) /\ validWildcards(p)
             /\ Size(Tail(p)) <= maxPattern
  <2>1. PICK r \in ask.pub \cup ask.sub : p = <<t>> \o r
    BY DEF Absolute
  <2>2. r \in Seq(Levels) \ {<<>>} /\ PrefixPattern(t, r)
    BY <1>1 DEF PrefixPatterns
  <2> QED BY <2>1, <2>2, AcceptedPattern
<1>4. ~validPatterns(t, Absolute(t, ask.pub)) \/ ~validPatterns(t, Absolute(t, ask.sub))
  BY <1>1 DEF Validate
<1> QED BY <1>2, <1>3, <1>4 DEF validPatterns

-----------------------------------------------------------------------------
(* The shape of a step.                                                      *)

Same(i) ==
    /\ call'[i].op = call[i].op /\ About(i)' = About(i) /\ call'[i].device = call[i].device
    /\ call'[i].grant = call[i].grant /\ call'[i].plain = call[i].plain /\ call'[i].met = call[i].met

\* Call i goes to a point, and so does its invocation; all others stay.
Moves(i, point) ==
    /\ call' \in [Calls -> Records] /\ call'[i].pc = point /\ Same(i)
    /\ \A j \in Calls \ {i} : call'[j] = call[j]

JobMoves(i, point) ==
    /\ job' \in [Calls -> Invocations]
    /\ job'[i].pc = point /\ job'[i].reload = job[i].reload /\ job'[i].seen = job[i].seen
    /\ \A j \in Calls \ {i} : job'[j] = job[j]

LEMMA GotoMoves ==
    ASSUME Types, NEW i \in Calls, NEW point \in CallPoints, Goto(i, point)
    PROVE  Moves(i, point)
<1>1. call[i] \in Records
  BY DEF Types
<1> DEFINE c == [call[i] EXCEPT !.pc = point]
<1>2. c \in Records
  BY <1>1 DEF Records
<1>3. /\ c.pc = point /\ c.op = call[i].op /\ c.about = call[i].about /\ c.device = call[i].device
      /\ c.grant = call[i].grant /\ c.plain = call[i].plain /\ c.met = call[i].met
  BY <1>1 DEF Records
<1>4. call' = [call EXCEPT ![i] = c]
  BY DEF Goto, Types
<1> HIDE DEF c
<1> QED BY <1>2, <1>3, <1>4 DEF Moves, Same, About, Types

LEMMA EndMoves ==
    ASSUME Types, NEW i \in Calls, NEW carries \in BOOLEAN, End(i, carries)
    PROVE  Moves(i, "idle")
<1>1. Goto(i, "idle")
  BY DEF End, Goto, Types
<1> QED BY <1>1, GotoMoves DEF CallPoints

LEMMA ThenMoves ==
    ASSUME Types, NEW i \in Calls, NEW point \in JobPoints, Then(i, point)
    PROVE  JobMoves(i, point)
<1>1. job[i] \in Invocations
  BY DEF Types
<1> DEFINE c == [job[i] EXCEPT !.pc = point]
<1>2. c \in Invocations
  BY <1>1 DEF Invocations
<1>3. c.pc = point /\ c.reload = job[i].reload /\ c.seen = job[i].seen
  BY <1>1 DEF Invocations
<1>4. job' = [job EXCEPT ![i] = c]
  BY DEF Then, Types
<1> HIDE DEF c
<1> QED BY <1>2, <1>3, <1>4 DEF JobMoves, Types

LEMMA JobStays ==
    ASSUME Types, NEW i \in Calls, job' = job
    PROVE  JobMoves(i, job[i].pc)
BY DEF JobMoves, Types

LEMMA CallStays ==
    ASSUME Types, NEW i \in Calls, call' = call
    PROVE  Moves(i, call[i].pc)
BY DEF Moves, Same, About, Types
-----------------------------------------------------------------------------
(* One call's step and the others.                                           *)

\* A step of call i: of rows, accounts, files and answers it changes those of
\* the thing it is about.
Step(i) ==
    /\ Busy(i) /\ Types' /\ Same(i) /\ mixed' = mixed /\ begun' = begun
    /\ \A j \in Calls \ {i} : call'[j] = call[j] /\ job'[j] = job[j]
    /\ \A a \in Accounts \ {About(i)} :
          acct'[a] = acct[a] /\ broker'[a] = broker[a] /\ known'[a] = known[a]
    /\ \A t \in Tenants \ {About(i)} :
          users'[t] = users[t] /\ files'[t] = files[t] /\ (t \in raced' <=> t \in raced)
    /\ \A w \in Things \ {About(i)} : told'[w] = told[w]

\* Who is at work beside a call that met no other is about another thing.
LEMMA Stranger ==
    ASSUME Alone, NEW i \in Calls, NEW j \in Calls, i # j, Busy(i), Busy(j),
           ~call[j].met, About(j) \in Things
    PROVE  About(i) # About(j)
BY DEF Alone

LEMMA UnmixedUnmet ==
    ASSUME NEW i \in Calls, CallInv(i), About(i) \notin mixed
    PROVE  ~call[i].met
BY DEF CallInv

LEMMA OthersKeep ==
    ASSUME WritersInv, NEW i \in Calls, Step(i), NEW j \in Calls, j # i
    PROVE  CallInv(j)' /\ AskedInv(j)' /\ PutInv(j)' /\ HashInv(j)' /\ DeleteInv(j)'
<1>1. /\ Alone /\ CallInv(j) /\ AskedInv(j) /\ PutInv(j) /\ HashInv(j) /\ DeleteInv(j)
      /\ call'[j] = call[j] /\ job'[j] = job[j] /\ mixed' = mixed /\ begun' = begun /\ Busy(i)
  BY DEF WritersInv, Step
<1>2. CallInv(j)' /\ AskedInv(j)' /\ (Busy(j)' <=> Busy(j)) /\ About(j)' = About(j)
  BY <1>1 DEF CallInv, AskedInv, Busy, At, JobAt, About
<1>3. ASSUME Busy(j), About(j) \in Accounts, ~call[j].met
      PROVE  /\ acct'[About(j)] = acct[About(j)] /\ broker'[About(j)] = broker[About(j)]
             /\ known'[About(j)] = known[About(j)]
  <2>1. About(i) # About(j)
    BY <1>1, <1>3, Stranger DEF Things
  <2> QED BY <1>3, <2>1 DEF Step
<1>4. call[j].op \in AccountOps => About(j) \in Accounts
  BY <1>1 DEF CallInv
<1>5. PutInv(j)'
  BY <1>1, <1>2, <1>3, <1>4 DEF PutInv, Kept, At, JobAt, AccountOps
<1>6. About(j) \notin mixed => ~call[j].met
  BY <1>1, UnmixedUnmet
<1>7. At(j, "row") => Busy(j)
  BY DEF At, Busy
<1>8. HashInv(j)'
  BY <1>1, <1>2, <1>3, <1>4, <1>6, <1>7 DEF HashInv, At, AccountOps
<1>9. DeleteInv(j)'
  BY <1>1, <1>2, <1>3, <1>4, <1>6 DEF DeleteInv, At, JobAt, AccountOps
<1> QED BY <1>2, <1>5, <1>8, <1>9

LEMMA StepAlone ==
    ASSUME WritersInv, NEW i \in Calls, Step(i)
    PROVE  Alone'
<1>1. \A j \in Calls : About(j)' = About(j) /\ call'[j].met = call[j].met /\ (Busy(j)' => Busy(j))
  BY DEF Step, Same, About, Busy, At
<1> QED BY <1>1 DEF WritersInv, Alone

LEMMA StepQuiet ==
    ASSUME WritersInv, NEW i \in Calls, Step(i), told' = told
    PROVE  Quiet'
<1>1. \A j \in Calls : About(j)' = About(j) /\ (Busy(j)' => Busy(j))
  BY DEF Step, Same, About, Busy, At
<1> QED BY <1>1 DEF WritersInv, Quiet

LEMMA OtherAccount ==
    ASSUME WritersInv, NEW i \in Calls, Step(i), NEW a \in Accounts, a # About(i)
    PROVE  AccountInv(a)'
<1>1. /\ acct'[a] = acct[a] /\ broker'[a] = broker[a] /\ known'[a] = known[a]
      /\ told'[a] = told[a] /\ mixed' = mixed /\ AccountInv(a)
  BY DEF Step, WritersInv, Things
<1> QED BY <1>1 DEF AccountInv, ConfinedAt

\* What was asked for stays so.
LEMMA AskedStays ==
    ASSUME NEW i \in Calls, AskedInv(i), Same(i), JobAt(i, "refused")' => JobAt(i, "refused")
    PROVE  AskedInv(i)'
BY DEF AskedInv, Same, JobAt, About

\* A step of a call about an account.
LEMMA AccountStep ==
    ASSUME WritersInv, NEW i \in Calls, Step(i), call[i].op \in AccountOps,
           NEW a \in Accounts, a = About(i),
           UNCHANGED <<users, files, auth, live, raced>>, Quiet',
           CallInv(i)', AskedInv(i)', PutInv(i)', HashInv(i)', DeleteInv(i)', AccountInv(a)'
    PROVE  WritersInv'
<1>1. \A j \in Calls : CallInv(j)' /\ AskedInv(j)' /\ PutInv(j)' /\ HashInv(j)' /\ DeleteInv(j)'
  BY OthersKeep
<1>2. \A b \in Accounts : AccountInv(b)'
  BY OtherAccount
<1>3. call'[i].op \in AccountOps /\ job'[i].pc \notin {"rename"}
  <2>1. call'[i].op \in AccountOps /\ Fits(call'[i].op, call'[i].pc, job'[i].pc)
    BY DEF Step, Same, CallInv
  <2> QED BY <2>1 DEF Fits, AccountOps
<1>4. ASSUME NEW j \in Calls PROVE UsersInv(j)'
  <2>1. CASE j = i
    BY <1>3, <2>1 DEF UsersInv, UserOps, AccountOps
  <2>2. CASE j # i
    <3>1. call'[j] = call[j] /\ job'[j] = job[j] /\ UsersInv(j)
      BY <2>2 DEF Step, WritersInv
    <3> QED BY <3>1 DEF UsersInv, Busy, At, JobAt, About
  <2> QED BY <2>1, <2>2
<1>5. ASSUME NEW t \in Tenants PROVE TenantInv(t)'
  <2>1. told'[t] = told[t] /\ TenantInv(t)
    BY WritersAssumption DEF Step, WritersInv, Things
  <2>2. \A j \in Calls : JobAt(j, "rename")' => JobAt(j, "rename") /\ job'[j].seen = job[j].seen
    BY <1>3 DEF Step, JobAt
  <2> QED BY <2>1, <2>2 DEF TenantInv, SeenInv
<1> QED BY <1>1, <1>2, <1>4, <1>5, StepAlone DEF WritersInv, Step

\* A step of a call about a tenant's tokens, or of a rendering.
LEMMA UserStep ==
    ASSUME WritersInv, NEW i \in Calls, Step(i), call[i].op \in UserOps \cup {"render"},
           UNCHANGED <<acct, broker, known>>, Quiet', CallInv(i)', AskedInv(i)',
           \A j \in Calls : UsersInv(j)', \A t \in Tenants : TenantInv(t)'
    PROVE  WritersInv'
<1>1. call'[i].op \notin AccountOps
  BY DEF Step, Same, AccountOps, UserOps
<1>2. PutInv(i)' /\ HashInv(i)' /\ DeleteInv(i)'
  BY <1>1 DEF PutInv, HashInv, DeleteInv, AccountOps
<1>3. \A j \in Calls : CallInv(j)' /\ AskedInv(j)' /\ PutInv(j)' /\ HashInv(j)' /\ DeleteInv(j)'
  BY <1>2, OthersKeep
<1>4. About(i) \notin Accounts
  BY WritersAssumption DEF WritersInv, CallInv, UserOps, Things
<1>5. \A b \in Accounts : AccountInv(b)'
  BY <1>4, OtherAccount
<1> QED BY <1>3, <1>5, StepAlone DEF WritersInv, Step
LEMMA Facts ==
    ASSUME WritersInv, NEW i \in Calls
    PROVE  /\ Types /\ call[i] \in Records /\ job[i] \in Invocations
           /\ CallInv(i) /\ AskedInv(i) /\ PutInv(i) /\ HashInv(i) /\ DeleteInv(i) /\ UsersInv(i)
           /\ About(i) \in Things => (Busy(i) => told[About(i)] = None)
BY DEF WritersInv, Types, Quiet

LEMMA AccountOf ==
    ASSUME WritersInv, NEW i \in Calls, call[i].op \in AccountOps
    PROVE  About(i) \in Accounts /\ About(i) \in Things /\ AccountInv(About(i))
BY DEF WritersInv, CallInv, Things

LEMMA TenantOfCall ==
    ASSUME WritersInv, NEW i \in Calls, call[i].op \in UserOps
    PROVE  About(i) \in Tenants /\ About(i) \in Things /\ TenantInv(About(i))
BY DEF WritersInv, CallInv, Things

LEMMA AccountFrame ==
    ASSUME WritersInv, NEW i \in Calls, NEW a \in Accounts, a = About(i), Busy(i),
           NEW point, NEW jobPoint, Moves(i, point), JobMoves(i, jobPoint),
           acct' \in [Accounts -> Rows \cup {NoAccount}], broker' \in [Accounts -> Grants],
           known' \in [Accounts -> Secrets],
           \A b \in Accounts \ {a} :
              acct'[b] = acct[b] /\ broker'[b] = broker[b] /\ known'[b] = known[b],
           UNCHANGED <<users, files, auth, live, raced, mixed, begun>>,
           told' \in [Things -> Grants \cup {None}], \A w \in Things \ {a} : told'[w] = told[w],
           faults' \in 0 .. MaxFaults
    PROVE  Step(i)
<1>1. Types'
  BY DEF WritersInv, Types, Moves, JobMoves
<1> QED BY <1>1 DEF Step, Moves, JobMoves

LEMMA UserFrame ==
    ASSUME WritersInv, NEW i \in Calls, Busy(i), NEW point, Moves(i, point),
           job' \in [Calls -> Invocations], \A j \in Calls \ {i} : job'[j] = job[j],
           users' \in [Tenants -> Secrets], files' \in [Tenants -> Secrets],
           auth' \in [Tenants -> Secrets], live' \in [Tenants -> Secrets], raced' \subseteq Tenants,
           \A t \in Tenants \ {About(i)} :
              users'[t] = users[t] /\ files'[t] = files[t] /\ (t \in raced' <=> t \in raced),
           UNCHANGED <<acct, broker, known, mixed, begun>>,
           told' \in [Things -> Grants \cup {None}], \A w \in Things \ {About(i)} : told'[w] = told[w],
           faults' \in 0 .. MaxFaults
    PROVE  Step(i)
<1>1. Types'
  BY DEF WritersInv, Types, Moves
<1> QED BY <1>1 DEF Step, Moves

-----------------------------------------------------------------------------
(* The end of a call.                                                        *)

LEMMA EndKnown ==
    ASSUME Types, NEW i \in Calls, NEW carries \in BOOLEAN, End(i, carries),
           NEW a \in Accounts, a = About(i)
    PROVE  /\ known' \in [Accounts -> Secrets] /\ \A b \in Accounts \ {a} : known'[b] = known[b]
           /\ known'[a] = IF carries /\ call[i].plain # 0 THEN call[i].plain ELSE known[a]
<1>1. call[i].plain \in Secrets
  BY DEF Types, Records
<1> QED BY <1>1 DEF End, Types

\* A call about an account ends, well or not.
LEMMA AccountEnds ==
    ASSUME WritersInv, NEW i \in Calls, call[i].op \in AccountOps, Busy(i),
           NEW carries \in BOOLEAN, End(i, carries), carries => ~At(i, "row"),
           UNCHANGED <<registry, farEnd, job, raced, mixed, begun>>, faults' \in 0 .. MaxFaults,
           \/ told' = told
           \/ /\ At(i, "answer") /\ ~call[i].met
              /\ told' = [told EXCEPT ![About(i)] = call[i].grant]
    PROVE  WritersInv'
<1> PICK a : a = About(i)
  OBVIOUS
<1>1. /\ Types /\ call[i] \in Records /\ CallInv(i) /\ AskedInv(i) /\ PutInv(i) /\ DeleteInv(i)
      /\ a \in Accounts /\ a \in Things /\ AccountInv(a) /\ told[a] = None
  BY Facts, AccountOf
<1>2. Moves(i, "idle") /\ JobMoves(i, job[i].pc) /\ call'[i].pc = "idle" /\ Same(i)
  BY <1>1, EndMoves, JobStays DEF Moves
<1>3. /\ known' \in [Accounts -> Secrets] /\ \A b \in Accounts \ {a} : known'[b] = known[b]
      /\ known'[a] = IF carries /\ call[i].plain # 0 THEN call[i].plain ELSE known[a]
  BY <1>1, EndKnown
<1>4. /\ UNCHANGED <<acct, users, broker, files, auth, live, job, raced, mixed, begun>>
      /\ call[i].grant \in Grants
  BY <1>1 DEF registry, farEnd, Records
<1>5. told' \in [Things -> Grants \cup {None}] /\ \A w \in Things \ {a} : told'[w] = told[w]
  BY <1>1, <1>4 DEF Types
<1>6. Step(i)
  BY <1>1, <1>2, <1>3, <1>4, <1>5, AccountFrame DEF Types
<1>7. CallInv(i)' /\ AskedInv(i)'
  <2>1. Fits(call[i].op, "idle", job[i].pc)
    BY <1>1 DEF CallInv, Fits
  <2>2. CallInv(i)'
    BY <1>1, <1>2, <1>4, <2>1 DEF CallInv, At, JobAt, About, Same
  <2> QED BY <1>1, <1>2, <1>4, <2>2, AskedStays DEF JobAt
<1>8. Busy(i)' => Busy(i) /\ ~At(i, "row")
  BY <1>1, <1>2, <1>4 DEF Busy, At, CallInv, JobAt, Finished
<1>9. PutInv(i)'
  BY <1>1, <1>2, <1>4, <1>8 DEF PutInv, Kept, At, JobAt, Same, About
<1>10. HashInv(i)'
  BY <1>2 DEF HashInv, At
<1>11. DeleteInv(i)'
  <2>1. call[i].op = "delete" => call[i].plain = 0
    BY <1>1 DEF AskedInv
  <2> QED BY <1>1, <1>2, <1>3, <1>4, <1>8, <2>1 DEF DeleteInv, At, JobAt, Same, About
<1>12. ASSUME a \notin mixed, carries, call[i].plain # 0
       PROVE  acct[a] # NoAccount /\ acct[a].hash = call[i].plain
  <2>1. call[i].op = "put" /\ call[i].plain = call[i].grant.hash /\ ~call[i].met
    BY <1>1, <1>12, UnmixedUnmet DEF AskedInv
  <2>2. Kept(i)
    BY <1>1, <1>12, <2>1 DEF PutInv
  <2> QED BY <2>1, <2>2 DEF Kept, Granted
<1>13. ASSUME told'[a] # None
       PROVE  /\ At(i, "answer") /\ ~call[i].met /\ told'[a] = call[i].grant
              /\ broker[a] = told'[a] /\ (IF told'[a] = Gone THEN acct[a] = NoAccount
                                  ELSE acct[a].status = "ready" /\ Granted(acct[a]) = told'[a])
  <2>1. At(i, "answer") /\ ~call[i].met /\ told'[a] = call[i].grant
    BY <1>1, <1>13 DEF Types
  <2>2. CASE call[i].op = "put"
    <3>1. call[i].grant # Gone
      BY <1>1, <2>2 DEF AskedInv, Gone
    <3> QED BY <1>1, <2>1, <2>2, <3>1 DEF PutInv, Kept, At
  <2>3. CASE call[i].op = "delete"
    <3>1. call[i].grant = Gone
      BY <1>1, <2>3 DEF AskedInv
    <3> QED BY <1>1, <2>1, <2>3, <3>1 DEF DeleteInv
  <2> QED BY <2>1, <2>2, <2>3 DEF AccountOps
<1>14. AccountInv(a)'
  BY <1>1, <1>3, <1>4, <1>12, <1>13 DEF AccountInv, ConfinedAt
<1>15. Quiet'
  <2>1. CASE told' = told
    BY <1>6, <2>1, StepQuiet
  <2>2. CASE At(i, "answer") /\ ~call[i].met
    <3>1. ~Busy(i)'
      BY <1>1, <1>2, <1>4, <2>2 DEF Busy, At, CallInv, JobAt, Finished
    <3>2. ASSUME NEW j \in Calls, j # i, Busy(j)', About(j)' \in Things PROVE told'[About(j)'] = None
      <4>1. Busy(j) /\ About(j)' = About(j) /\ call[j] \in Records
        BY <1>6, <3>2 DEF Step, Busy, At, About, Types, WritersInv
      <4>2. About(j) # a
        BY <1>1, <2>2, <3>2, <4>1, Stranger DEF WritersInv
      <4> QED BY <1>5, <3>2, <4>1, <4>2 DEF WritersInv, Quiet
    <3> QED BY <3>1, <3>2 DEF Quiet
  <2> QED BY <2>1, <2>2
<1> QED BY <1>1, <1>4, <1>6, <1>7, <1>9, <1>10, <1>11, <1>14, <1>15, AccountStep
\* A call about a tenant's tokens ends.
LEMMA UserEnds ==
    ASSUME WritersInv, NEW i \in Calls, call[i].op \in UserOps, Busy(i),
           NEW carries \in BOOLEAN, End(i, carries),
           UNCHANGED <<registry, farEnd, job, raced, mixed, begun>>, faults' \in 0 .. MaxFaults,
           \/ told' = told
           \/ /\ At(i, "answer") /\ ~call[i].met
              /\ told' = [told EXCEPT ![About(i)] = call[i].grant]
    PROVE  WritersInv'
<1> PICK t : t = About(i)
  OBVIOUS
<1>1. /\ Types /\ call[i] \in Records /\ CallInv(i) /\ AskedInv(i) /\ UsersInv(i)
      /\ t \in Tenants /\ t \in Things /\ TenantInv(t) /\ told[t] = None
  BY Facts, TenantOfCall
<1>2. Moves(i, "idle") /\ JobMoves(i, job[i].pc) /\ call'[i].pc = "idle" /\ Same(i)
  BY <1>1, EndMoves, JobStays DEF Moves
<1>3. known' = known
  BY <1>1 DEF End, AskedInv, UserOps
<1>4. /\ UNCHANGED <<acct, users, broker, files, auth, live, job, raced, mixed, begun>>
      /\ call[i].grant \in Grants
  BY <1>1 DEF registry, farEnd, Records
<1>5. told' \in [Things -> Grants \cup {None}] /\ \A w \in Things \ {t} : told'[w] = told[w]
  BY <1>1, <1>4 DEF Types
<1>6. Step(i)
  BY <1>1, <1>2, <1>3, <1>4, <1>5, UserFrame DEF Types
<1>7. CallInv(i)' /\ AskedInv(i)'
  <2>1. Fits(call[i].op, "idle", job[i].pc)
    BY <1>1 DEF CallInv, Fits, UserOps
  <2>2. CallInv(i)'
    BY <1>1, <1>2, <1>4, <2>1 DEF CallInv, At, JobAt, About, Same
  <2> QED BY <1>1, <1>2, <1>4, <2>2, AskedStays DEF JobAt
<1>8. ASSUME NEW j \in Calls PROVE UsersInv(j)'
  <2>1. UsersInv(j) /\ job'[j] = job[j]
    BY <1>4 DEF WritersInv
  <2>2. CASE j = i
    BY <1>2, <1>4, <2>1, <2>2 DEF UsersInv, Busy, At, JobAt, About, Same
  <2>3. CASE j # i
    <3>1. call'[j] = call[j]
      BY <1>6, <2>3 DEF Step
    <3> QED BY <1>4, <2>1, <3>1 DEF UsersInv, Busy, At, JobAt, About
  <2> QED BY <2>2, <2>3
<1>9. ASSUME told'[t] # None, t \notin raced
      PROVE  /\ live[t] = told'[t].hash /\ users[t] = told'[t].hash
             /\ auth[t] = files[t] /\ live[t] = files[t]
  <2>1. At(i, "answer") /\ ~call[i].met /\ told'[t] = call[i].grant
    BY <1>1, <1>9 DEF Types
  <2>2. JobAt(i, "ok")
    BY <1>1, <2>1 DEF CallInv
  <2>3. users[t] = call[i].grant.hash
    <3>1. CASE call[i].op = "putUsers"
      BY <1>1, <2>1, <3>1 DEF UsersInv, UserOps, At
    <3>2. CASE call[i].op = "removeUsers"
      <4>1. call[i].grant.hash = 0
        BY <1>1, <3>2 DEF AskedInv, Gone
      <4> QED BY <1>1, <2>1, <3>2, <4>1 DEF UsersInv, UserOps
    <3> QED BY <3>1, <3>2 DEF UserOps
  <2> QED BY <1>1, <1>9, <2>1, <2>2, <2>3 DEF UsersInv, JobAt
<1>10. ASSUME NEW u \in Tenants PROVE TenantInv(u)'
  <2>1. SeenInv(u)'
    BY <1>4 DEF WritersInv, TenantInv, SeenInv, JobAt
  <2>2. CASE u = t
    BY <1>4, <1>9, <2>1, <2>2 DEF TenantInv
  <2>3. CASE u # t
    <3>1. told'[u] = told[u] /\ TenantInv(u)
      BY <1>5, <2>3 DEF WritersInv, Things
    <3> QED BY <1>4, <2>1, <3>1 DEF TenantInv
  <2> QED BY <2>2, <2>3
<1>11. Quiet'
  <2>1. CASE told' = told
    BY <1>6, <2>1, StepQuiet
  <2>2. CASE At(i, "answer") /\ ~call[i].met
    <3>1. ~Busy(i)'
      BY <1>1, <1>2, <1>4, <2>2 DEF Busy, At, CallInv, JobAt, Finished
    <3>2. ASSUME NEW j \in Calls, j # i, Busy(j)', About(j)' \in Things PROVE told'[About(j)'] = None
      <4>1. Busy(j) /\ About(j)' = About(j)
        BY <1>6, <3>2 DEF Step, Busy, At, About
      <4>2. About(j) # t
        BY <1>1, <2>2, <3>2, <4>1, Stranger DEF WritersInv
      <4> QED BY <1>5, <3>2, <4>1, <4>2 DEF WritersInv, Quiet
    <3> QED BY <3>1, <3>2 DEF Quiet
  <2> QED BY <2>1, <2>2
<1> QED BY <1>3, <1>4, <1>6, <1>7, <1>8, <1>10, <1>11, UserStep

\* The kinds of call that are at a point.
LEMMA AtWork ==
    ASSUME WritersInv, NEW i \in Calls, ~At(i, "idle")
    PROVE  call[i].op \in AccountOps \/ call[i].op \in UserOps
<1>1. call[i] \in Records /\ Fits(call[i].op, call[i].pc, job[i].pc)
  BY Facts DEF CallInv
<1>2. call[i].op \in OpNames
  BY <1>1 DEF Records
<1> QED BY <1>1, <1>2 DEF At, Fits, OpNames

LEMMA CallEnds ==
    ASSUME WritersInv, NEW i \in Calls, ~At(i, "idle"),
           NEW carries \in BOOLEAN, End(i, carries), carries => ~At(i, "row"),
           UNCHANGED <<registry, farEnd, job, raced, mixed, begun>>, faults' \in 0 .. MaxFaults,
           \/ told' = told
           \/ /\ At(i, "answer") /\ ~call[i].met
              /\ told' = [told EXCEPT ![About(i)] = call[i].grant]
    PROVE  WritersInv'
<1>1. Busy(i)
  BY DEF Busy
<1> QED BY <1>1, AtWork, AccountEnds, UserEnds

LEMMA FaultsType ==
    ASSUME WritersInv
    PROVE  faults \in 0 .. MaxFaults /\ (Fault => faults' \in 0 .. MaxFaults)
BY WritersAssumption DEF WritersInv, Types, Fault

LEMMA AnswerInv ==
    ASSUME WritersInv, NEW i \in Calls, Answer(i)
    PROVE  WritersInv'
<1>1. /\ ~At(i, "idle") /\ End(i, TRUE) /\ ~At(i, "row")
      /\ UNCHANGED <<registry, farEnd, job, raced, mixed, begun>> /\ faults' = faults
  BY DEF Answer, At
<1>2. \/ told' = told
      \/ At(i, "answer") /\ ~call[i].met /\ told' = [told EXCEPT ![About(i)] = call[i].grant]
  BY DEF Answer
<1> QED BY <1>1, <1>2, CallEnds, FaultsType

LEMMA TimeoutInv ==
    ASSUME WritersInv, NEW i \in Calls, Timeout(i)
    PROVE  WritersInv'
<1>1. /\ ~At(i, "idle") /\ End(i, TRUE) /\ ~At(i, "row") /\ told' = told
      /\ UNCHANGED <<registry, farEnd, job, raced, mixed, begun>> /\ Fault
  BY DEF Timeout, At, history
<1> QED BY <1>1, CallEnds, FaultsType

LEMMA CutOffInv ==
    ASSUME WritersInv, NEW i \in Calls, CutOff(i)
    PROVE  WritersInv'
<1>1. /\ ~At(i, "idle") /\ End(i, FALSE) /\ told' = told
      /\ UNCHANGED <<registry, farEnd, job, raced, mixed, begun>> /\ Fault
  BY DEF CutOff, history
<1> QED BY <1>1, CallEnds, FaultsType
-----------------------------------------------------------------------------
(* Calls about an account.                                                   *)

\* The call or its invocation goes on, and nothing else changes.
LEMMA AccountMoves ==
    ASSUME WritersInv, NEW i \in Calls, call[i].op \in AccountOps, Busy(i),
           NEW point, NEW jobPoint, Moves(i, point), JobMoves(i, jobPoint),
           UNCHANGED <<acct, broker, known, users, files, auth, live, raced, mixed, begun, told>>,
           faults' \in 0 .. MaxFaults,
           CallInv(i)', AskedInv(i)', PutInv(i)', HashInv(i)', DeleteInv(i)'
    PROVE  WritersInv'
<1> PICK a : a = About(i)
  OBVIOUS
<1>1. a \in Accounts /\ AccountInv(a) /\ Types
  BY Facts, AccountOf
<1>2. Step(i)
  BY <1>1, AccountFrame DEF Types
<1>3. AccountInv(a)'
  BY <1>1 DEF AccountInv, ConfinedAt
<1> QED BY <1>1, <1>2, <1>3, AccountStep, StepQuiet

LEMMA PutAccountRow ==
    ASSUME WritersInv, NEW i \in Calls, PutRow(i), call[i].op = "put"
    PROVE  WritersInv'
<1> PICK a : a = About(i)
  OBVIOUS
<1> DEFINE row == [status |-> "provisioning", device |-> call[i].device, hash |-> call[i].grant.hash,
                   pub |-> call[i].grant.pub, sub |-> call[i].grant.sub]
<1>1. /\ Types /\ call[i] \in Records /\ CallInv(i) /\ AskedInv(i) /\ HashInv(i) /\ Busy(i)
      /\ a \in Accounts /\ AccountInv(a) /\ told[a] = None /\ call[i].op \in AccountOps
  BY Facts, AccountOf DEF PutRow, Busy, At, AccountOps
<1>2. /\ Moves(i, "send") /\ JobMoves(i, job[i].pc) /\ call'[i].pc = "send" /\ Same(i)
      /\ At(i, "row") /\ JobAt(i, "none") /\ job' = job /\ acct' = [acct EXCEPT ![a] = row]
      /\ UNCHANGED <<broker, known, users, files, auth, live, raced, mixed, begun, told, faults>>
  BY <1>1, GotoMoves, JobStays DEF PutRow, Moves, CallPoints, CallInv, farEnd, history
<1>3. /\ row \in Rows /\ row # NoAccount /\ Granted(row) = call[i].grant /\ row.hash = call[i].grant.hash
      /\ row.pub = call[i].grant.pub /\ row.sub = call[i].grant.sub
  <2>1. call[i].grant \in Grants /\ call[i].device \in IoTDevices \cup {None} /\ call[i].grant.hash # 0
    BY <1>1 DEF Records, AskedInv
  <2> QED BY <2>1 DEF Rows, NoAccount, Granted, Grants
<1>4. row.pub \cup row.sub # {}
  BY <1>1, <1>3 DEF AskedInv, Acceptable, CheckGrant
<1> HIDE DEF row
<1>5. /\ acct' \in [Accounts -> Rows \cup {NoAccount}] /\ acct'[a] = row
      /\ \A b \in Accounts \ {a} : acct'[b] = acct[b]
  BY <1>1, <1>2, <1>3 DEF Types
<1>6. Step(i)
  BY <1>1, <1>2, <1>5, AccountFrame DEF Types, WritersInv
<1>7. CallInv(i)' /\ AskedInv(i)'
  <2>1. CallInv(i)'
    BY <1>1, <1>2 DEF CallInv, At, JobAt, About, Same, Fits, UserOps
  <2> QED BY <1>1, <1>2, <2>1, AskedStays DEF JobAt
<1>8. PutInv(i)' /\ HashInv(i)' /\ DeleteInv(i)'
  <2>1. Kept(i)'
    BY <1>2, <1>3, <1>5 DEF Kept, Same, Granted
  <2> QED BY <1>2, <2>1 DEF PutInv, HashInv, DeleteInv, At, Same
<1>9. AccountInv(a)'
  <2>1. a \notin mixed /\ acct[a] # NoAccount => row.hash = acct[a].hash
    BY <1>1, <1>2, <1>3 DEF HashInv
  <2>2. a \notin mixed => broker[a].hash \in {0, row.hash}
    BY <1>1, <2>1 DEF AccountInv, Gone
  <2> QED BY <1>1, <1>2, <1>3, <1>4, <1>5, <2>1, <2>2 DEF AccountInv, ConfinedAt
<1> QED BY <1>1, <1>2, <1>6, <1>7, <1>8, <1>9, AccountStep, StepQuiet

\* The far end validates what it is sent.
LEMMA SendAccountInv ==
    ASSUME WritersInv, NEW i \in Calls, SendAccount(i)
    PROVE  WritersInv'
<1> DEFINE valid == Validate(TenantOf[About(i)], call[i].grant.hash, call[i].grant.pub, call[i].grant.sub)
           point == IF call[i].op = "put" /\ ~valid THEN "refused" ELSE "sql"
<1>1. /\ Types /\ call[i] \in Records /\ CallInv(i) /\ AskedInv(i) /\ PutInv(i) /\ DeleteInv(i)
      /\ Busy(i) /\ About(i) \in Accounts /\ call[i].op \in AccountOps /\ At(i, "send")
  BY Facts, AccountOf DEF SendAccount, Busy, At, AccountOps
<1>2. /\ Moves(i, "wait") /\ call'[i].pc = "wait" /\ Same(i) /\ JobMoves(i, point) /\ job'[i].pc = point
      /\ job'[i].reload = job[i].reload
      /\ UNCHANGED <<acct, broker, known, users, files, auth, live, raced, mixed, begun, told, faults>>
  <2>1. Then(i, point) /\ point \in JobPoints /\ Goto(i, "wait") /\ "wait" \in CallPoints
    BY DEF SendAccount, JobPoints, Finished, About, CallPoints
  <2>2. UNCHANGED <<acct, broker, known, users, files, auth, live, raced, mixed, begun, told, faults>>
    BY DEF SendAccount, registry, farEnd, history
  <2> HIDE DEF point
  <2> QED BY <1>1, <2>1, <2>2, GotoMoves, ThenMoves DEF Moves, JobMoves
<1>3. point \in {"refused", "sql"} /\ (point = "refused" => call[i].op = "put" /\ ~valid)
  OBVIOUS
<1>4. CallInv(i)'
  BY <1>1, <1>2, <1>3 DEF CallInv, At, JobAt, About, Same, Fits, AccountOps, UserOps
<1>5. AskedInv(i)'
  <2>1. CASE point = "refused"
    <3>1. PICK ask \in Asks :
                /\ Acceptable(TenantOf[About(i)], ask) /\ call[i].device = ask.device
                /\ call[i].grant.pub = Absolute(TenantOf[About(i)], ask.pub)
                /\ call[i].grant.sub = Absolute(TenantOf[About(i)], ask.sub)
      BY <1>1, <1>3, <2>1 DEF AskedInv
    <3>2. TenantOf[About(i)] \in Tenants /\ call[i].grant.hash # 0
      BY <1>1, <1>3, <2>1, WritersAssumption DEF AskedInv
    <3>3. /\ ask.pub \cup ask.sub \subseteq Seq(Levels) \ {<<>>}
          /\ IsFiniteSet(ask.pub) /\ IsFiniteSet(ask.sub)
      BY WritersAssumption
    <3>4. \E p \in call[i].grant.pub \cup call[i].grant.sub :
              ~(Size(p) <= maxPattern) /\ Size(Tail(p)) <= maxPattern
      BY <1>3, <2>1, <3>1, <3>2, <3>3, RefusalIsOverlong
    <3> QED BY <1>1, <1>2, <3>4 DEF AskedInv, Same, About
  <2>2. CASE point = "sql"
    BY <1>1, <1>2, <2>2, AskedStays DEF JobAt
  <2> QED BY <1>3, <2>1, <2>2
<1>6. PutInv(i)' /\ HashInv(i)' /\ DeleteInv(i)'
  BY <1>1, <1>2, <1>3 DEF PutInv, HashInv, DeleteInv, Kept, At, JobAt, Same, About, Busy
<1> HIDE DEF point
<1>7. faults' \in 0 .. MaxFaults
  BY <1>2, FaultsType
<1> QED BY <1>1, <1>2, <1>4, <1>5, <1>6, <1>7, AccountMoves

LEMMA ReceiveAccountInv ==
    ASSUME WritersInv, NEW i \in Calls, ReceiveAccount(i)
    PROVE  WritersInv'
<1>1. /\ Types /\ CallInv(i) /\ AskedInv(i) /\ PutInv(i) /\ DeleteInv(i) /\ Busy(i)
      /\ call[i].op \in AccountOps /\ At(i, "wait") /\ ~At(i, "idle") /\ ~At(i, "row")
  BY Facts DEF ReceiveAccount, Busy, At, AccountOps
<1>2. /\ UNCHANGED <<acct, broker, users, files, auth, live, raced, mixed, begun, told, faults, job>>
      /\ UNCHANGED <<registry, farEnd>> /\ faults' \in 0 .. MaxFaults
  BY FaultsType DEF ReceiveAccount, registry, farEnd, history
<1>3. CASE JobAt(i, "ok") /\ known' = known /\ Goto(i, IF call[i].op = "put" THEN "ready" ELSE "drop")
  <2>1. PICK point : point = IF call[i].op = "put" THEN "ready" ELSE "drop"
    OBVIOUS
  <2>2. /\ Moves(i, point) /\ JobMoves(i, job[i].pc) /\ call'[i].pc = point /\ Same(i)
    BY <1>1, <1>2, <1>3, <2>1, GotoMoves, JobStays DEF Moves, CallPoints
  <2>3. CallInv(i)'
    BY <1>1, <1>2, <1>3, <2>1, <2>2 DEF CallInv, At, JobAt, About, Same, Fits, AccountOps, UserOps
  <2>4. AskedInv(i)'
    BY <1>1, <1>2, <2>2, AskedStays DEF JobAt
  <2>5. PutInv(i)' /\ HashInv(i)' /\ DeleteInv(i)'
    BY <1>1, <1>2, <1>3, <2>1, <2>2 DEF PutInv, HashInv, DeleteInv, Kept, At, JobAt, Same, About, Busy
  <2> QED BY <1>1, <1>2, <1>3, <2>2, <2>3, <2>4, <2>5, AccountMoves
<1>4. CASE End(i, TRUE)
  BY <1>1, <1>2, <1>4, CallEnds
<1> QED BY <1>3, <1>4 DEF ReceiveAccount

LEMMA SetBrokerAccountStatusInv ==
    ASSUME WritersInv, NEW i \in Calls, SetBrokerAccountStatus(i)
    PROVE  WritersInv'
<1> PICK a : a = About(i)
  OBVIOUS
<1>1. /\ Types /\ CallInv(i) /\ AskedInv(i) /\ PutInv(i) /\ Busy(i) /\ At(i, "ready")
      /\ call[i].op = "put" /\ ~At(i, "idle") /\ ~At(i, "row")
  <2>1. Types /\ CallInv(i) /\ AskedInv(i) /\ PutInv(i) /\ At(i, "ready") /\ ~At(i, "idle") /\ ~At(i, "row")
    BY Facts DEF SetBrokerAccountStatus, At
  <2>2. call[i].op \in AccountOps \/ call[i].op \in UserOps
    BY <2>1, AtWork
  <2> QED BY <2>1, <2>2 DEF CallInv, Fits, Busy, At, AccountOps, UserOps
<1>2. a \in Accounts /\ AccountInv(a) /\ told[a] = None /\ call[i].op \in AccountOps
  BY <1>1, AccountOf, Facts DEF AccountOps
<1>3. /\ UNCHANGED <<broker, users, files, auth, live, raced, mixed, begun, told, faults, job>>
      /\ faults' \in 0 .. MaxFaults
  BY FaultsType DEF SetBrokerAccountStatus, farEnd, history
<1>4. CASE acct[a] # NoAccount
  <2> DEFINE row == [acct[a] EXCEPT !.status = "ready"]
  <2>1. /\ acct' = [acct EXCEPT ![a] = row] /\ Goto(i, "answer") /\ known' = known
    BY <1>2, <1>4 DEF SetBrokerAccountStatus, Types
  <2>2. acct[a] \in Rows
    BY <1>1, <1>2, <1>4 DEF Types
  <2>3. /\ row \in Rows /\ row # NoAccount /\ row.status = "ready" /\ Granted(row) = Granted(acct[a])
        /\ row.hash = acct[a].hash /\ row.pub = acct[a].pub /\ row.sub = acct[a].sub
    BY <2>2 DEF Rows, NoAccount, Granted
  <2> HIDE DEF row
  <2>4. /\ Moves(i, "answer") /\ JobMoves(i, job[i].pc) /\ call'[i].pc = "answer" /\ Same(i)
        /\ acct' \in [Accounts -> Rows \cup {NoAccount}] /\ acct'[a] = row
        /\ \A b \in Accounts \ {a} : acct'[b] = acct[b]
    BY <1>1, <1>2, <1>3, <2>1, <2>3, GotoMoves, JobStays DEF Moves, CallPoints, Types
  <2>5. Step(i)
    BY <1>1, <1>2, <1>3, <2>1, <2>4, AccountFrame DEF Types
  <2>6. CallInv(i)'
    BY <1>1, <1>3, <2>4 DEF CallInv, At, JobAt, About, Same, Fits, UserOps
  <2>7. AskedInv(i)'
    BY <1>1, <1>3, <2>4, AskedStays DEF JobAt
  <2>8. PutInv(i)' /\ HashInv(i)' /\ DeleteInv(i)'
    BY <1>1, <1>3, <2>3, <2>4 DEF PutInv, HashInv, DeleteInv, Kept, At, JobAt, Same, About, Busy
  <2>9. AccountInv(a)'
    BY <1>2, <1>3, <1>4, <2>1, <2>3, <2>4 DEF AccountInv, ConfinedAt
  <2> QED BY <1>2, <1>3, <2>5, <2>6, <2>7, <2>8, <2>9, AccountStep, StepQuiet
<1>5. CASE acct[a] = NoAccount
  <2>1. End(i, FALSE) /\ UNCHANGED <<registry, farEnd>>
    BY <1>5 DEF SetBrokerAccountStatus, registry
  <2> QED BY <1>1, <1>3, <2>1, CallEnds
<1> QED BY <1>4, <1>5

LEMMA DropAccountRow ==
    ASSUME WritersInv, NEW i \in Calls, DropRow(i), call[i].op = "delete"
    PROVE  WritersInv'
<1> PICK a : a = About(i)
  OBVIOUS
<1>1. /\ Types /\ CallInv(i) /\ AskedInv(i) /\ DeleteInv(i) /\ Busy(i) /\ At(i, "drop")
      /\ call[i].op \in AccountOps /\ a \in Accounts /\ AccountInv(a) /\ told[a] = None
  BY Facts, AccountOf DEF DropRow, Busy, At, AccountOps
<1>2. /\ UNCHANGED <<broker, known, users, files, auth, live, raced, mixed, begun, told, faults, job>>
      /\ faults' \in 0 .. MaxFaults /\ acct' = [acct EXCEPT ![a] = NoAccount] /\ Goto(i, "answer")
  BY FaultsType DEF DropRow, farEnd, history
<1>3. /\ Moves(i, "answer") /\ JobMoves(i, job[i].pc) /\ call'[i].pc = "answer" /\ Same(i)
      /\ acct' \in [Accounts -> Rows \cup {NoAccount}] /\ acct'[a] = NoAccount
      /\ \A b \in Accounts \ {a} : acct'[b] = acct[b]
  BY <1>1, <1>2, GotoMoves, JobStays DEF Moves, CallPoints, Types
<1>4. Step(i)
  BY <1>1, <1>2, <1>3, AccountFrame DEF Types
<1>5. CallInv(i)' /\ AskedInv(i)'
  <2>1. CallInv(i)'
    BY <1>1, <1>2, <1>3 DEF CallInv, At, JobAt, About, Same, Fits, UserOps
  <2> QED BY <1>1, <1>2, <1>3, <2>1, AskedStays DEF JobAt
<1>6. PutInv(i)' /\ HashInv(i)' /\ DeleteInv(i)'
  BY <1>1, <1>2, <1>3 DEF PutInv, HashInv, DeleteInv, At, JobAt, Same, About, Busy
<1>7. AccountInv(a)'
  <2>1. a \notin mixed => known[a] = 0 /\ broker[a] = Gone
    BY <1>1, UnmixedUnmet DEF DeleteInv
  <2> QED BY <1>1, <1>2, <1>3, <2>1 DEF AccountInv, ConfinedAt
<1> QED BY <1>1, <1>2, <1>4, <1>5, <1>6, <1>7, AccountStep, StepQuiet

\* The statement at the broker: what it grants is what the API accepted.
LEMMA WriteAccountInv ==
    ASSUME WritersInv, NEW i \in Calls, WriteAccount(i)
    PROVE  WritersInv'
<1> PICK a : a = About(i)
  OBVIOUS
<1>1. /\ Types /\ call[i] \in Records /\ CallInv(i) /\ AskedInv(i) /\ PutInv(i) /\ DeleteInv(i) /\ HashInv(i)
      /\ Busy(i) /\ JobAt(i, "sql") /\ call[i].op \in AccountOps
  <2>1. JobAt(i, "sql") /\ call[i] \in Records /\ CallInv(i)
    BY Facts DEF WriteAccount
  <2>2. call[i].op \in OpNames
    BY <2>1 DEF Records
  <2>3. call[i].op \in AccountOps
    BY <2>1, <2>2 DEF CallInv, Fits, OpNames, AccountOps, UserOps, JobAt
  <2> QED BY <2>1, <2>3, Facts DEF Busy, JobAt, Finished
<1>2. a \in Accounts /\ AccountInv(a) /\ told[a] = None /\ call[i].grant \in Grants
  BY <1>1, AccountOf, Facts DEF Records
<1>3. /\ UNCHANGED <<acct, known, users, files, auth, live, raced, mixed, begun, told, faults, call>>
      /\ faults' \in 0 .. MaxFaults /\ broker' = [broker EXCEPT ![a] = call[i].grant] /\ Then(i, "ok")
  BY FaultsType DEF WriteAccount, registry, history
<1>4. /\ Moves(i, call[i].pc) /\ JobMoves(i, "ok") /\ job'[i].pc = "ok" /\ Same(i)
      /\ broker' \in [Accounts -> Grants] /\ broker'[a] = call[i].grant /\ job'[i].reload = job[i].reload
      /\ \A b \in Accounts \ {a} : broker'[b] = broker[b]
  BY <1>1, <1>2, <1>3, CallStays, ThenMoves DEF Moves, JobMoves, JobPoints, Finished, Types
<1>5. Step(i)
  BY <1>1, <1>2, <1>3, <1>4, AccountFrame DEF Types
<1>6. CallInv(i)'
  BY <1>1, <1>3, <1>4 DEF CallInv, At, JobAt, About, Fits, UserOps, AccountOps
<1>7. AskedInv(i)'
  BY <1>1, <1>3, <1>4, AskedStays DEF JobAt
<1>8. HashInv(i)' /\ PutInv(i)' /\ DeleteInv(i)'
  <2>1. HashInv(i)'
    BY <1>1, <1>3 DEF HashInv, At, About
  <2>2. Busy(i)' => Busy(i)
    BY <1>1
  <2>3. PutInv(i)'
    BY <1>1, <1>3, <1>4, <2>2 DEF PutInv, Kept, At, JobAt, About, CallInv
  <2>4. DeleteInv(i)'
    BY <1>1, <1>3, <1>4, <2>2 DEF DeleteInv, At, JobAt, About, CallInv, AskedInv
  <2> QED BY <2>1, <2>3, <2>4
<1>9. AccountInv(a)'
  <2>1. CASE call[i].op = "put"
    <3>1. PICK ask \in Asks :
                /\ Acceptable(TenantOf[a], ask) /\ call[i].device = ask.device
                /\ call[i].grant.pub = Absolute(TenantOf[a], ask.pub)
                /\ call[i].grant.sub = Absolute(TenantOf[a], ask.sub)
      BY <1>1, <2>1 DEF AskedInv
    <3>2. /\ TenantOf[a] \in Tenants /\ call[i].grant.hash # 0 /\ call[i].device \in IoTDevices \cup {None}
          /\ ask.pub \cup ask.sub \subseteq Seq(Levels) \ {<<>>}
          /\ checkBrokerDevice(ask.device)
          /\ CheckLogGrants(TenantOf[a], ask.device, Absolute(TenantOf[a], ask.pub), Absolute(TenantOf[a], ask.sub))
      BY <1>1, <1>2, <2>1, <3>1, WritersAssumption DEF AskedInv, Acceptable, Records
    <3>3. Confined(TenantOf[a], call[i].device, call[i].grant.pub, call[i].grant.sub, Topics)
      BY <3>1, <3>2, AcceptedIsConfined, ConfinedOnTopics
    <3>4. ConfinedAt(a)'
      BY <1>4, <3>2, <3>3 DEF ConfinedAt
    <3>5. a \notin mixed => acct[a] # NoAccount /\ acct[a].hash = call[i].grant.hash
      <4>1. ~At(i, "row")
        BY <1>1 DEF CallInv, JobAt, At
      <4>2. a \notin mixed => Kept(i)
        BY <1>1, <2>1, <4>1, UnmixedUnmet DEF PutInv
      <4> QED BY <4>2 DEF Kept, Granted
    <3> QED BY <1>2, <1>3, <1>4, <3>4, <3>5 DEF AccountInv
  <2>2. CASE call[i].op = "delete"
    <3>1. broker'[a] = Gone /\ Gone.hash = 0
      BY <1>1, <1>4, <2>2 DEF AskedInv, Gone
    <3> QED BY <1>2, <1>3, <3>1 DEF AccountInv, ConfinedAt
  <2> QED BY <1>1, <2>1, <2>2 DEF AccountOps
<1> QED BY <1>1, <1>2, <1>3, <1>5, <1>6, <1>7, <1>8, <1>9, AccountStep, StepQuiet
-----------------------------------------------------------------------------
(* Calls about a tenant's tokens, and renderings.                            *)

\* The other calls about tokens, when none of theirs changes.
LEMMA OtherUsers ==
    ASSUME WritersInv, NEW i \in Calls, Step(i), NEW j \in Calls, j # i,
           UNCHANGED <<auth, live>>
    PROVE  UsersInv(j)'
<1>1. call'[j] = call[j] /\ job'[j] = job[j] /\ UsersInv(j) /\ Busy(i)
  BY DEF Step, WritersInv
<1>2. ASSUME call[j].op \in UserOps, Busy(j), ~call[j].met
      PROVE  LET t == About(j)
             IN  t \in Tenants /\ users'[t] = users[t] /\ files'[t] = files[t] /\ (t \in raced' <=> t \in raced)
  <2>1. About(j) \in Tenants /\ About(j) \in Things
    BY <1>2, TenantOfCall
  <2>2. About(i) # About(j)
    BY <1>1, <1>2, <2>1, Stranger DEF WritersInv
  <2> QED BY <2>1, <2>2 DEF Step
<1> QED BY <1>1, <1>2 DEF UsersInv, Busy, At, JobAt, About

\* The call or its invocation goes on, and nothing else changes.
LEMMA UserMoves ==
    ASSUME WritersInv, NEW i \in Calls, call[i].op \in UserOps \cup {"render"}, Busy(i),
           NEW point, NEW jobPoint, jobPoint # "rename", Moves(i, point), JobMoves(i, jobPoint),
           UNCHANGED <<acct, broker, known, users, files, auth, live, raced, mixed, begun, told>>,
           faults' \in 0 .. MaxFaults,
           CallInv(i)', AskedInv(i)', UsersInv(i)'
    PROVE  WritersInv'
<1>1. Types
  BY Facts
<1>2. Step(i)
  BY <1>1, UserFrame DEF Types, JobMoves
<1>3. \A j \in Calls : UsersInv(j)'
  BY <1>2, OtherUsers
<1>4. ASSUME NEW t \in Tenants PROVE TenantInv(t)'
  <2>1. TenantInv(t) /\ \A j \in Calls : JobAt(j, "rename")' => JobAt(j, "rename") /\ job'[j] = job[j]
    BY DEF WritersInv, JobMoves, JobAt
  <2> QED BY <2>1 DEF TenantInv, SeenInv, JobAt
<1> QED BY <1>2, <1>3, <1>4, UserStep, StepQuiet

\* A tenant's row of tokens is written, and nothing else.
LEMMA UsersRow ==
    ASSUME WritersInv, NEW i \in Calls, call[i].op \in UserOps, Busy(i),
           NEW point, Moves(i, point), job' = job, NEW tokens \in Secrets,
           users' = [users EXCEPT ![About(i)] = tokens],
           UNCHANGED <<acct, broker, known, files, auth, live, raced, mixed, begun, told, faults>>,
           CallInv(i)', UsersInv(i)'
    PROVE  WritersInv'
<1> PICK t : t = About(i)
  OBVIOUS
<1>1. Types /\ t \in Tenants /\ AskedInv(i) /\ told[t] = None /\ faults' \in 0 .. MaxFaults
  BY Facts, TenantOfCall, FaultsType
<1>2. users' \in [Tenants -> Secrets] /\ \A u \in Tenants \ {t} : users'[u] = users[u]
  BY <1>1 DEF Types
<1>3. Step(i)
  BY <1>1, <1>2, UserFrame DEF Types
<1>4. \A j \in Calls : UsersInv(j)'
  BY <1>3, OtherUsers
<1>5. ASSUME NEW u \in Tenants PROVE TenantInv(u)'
  <2>1. TenantInv(u)
    BY DEF WritersInv
  <2>2. CASE u = t
    BY <1>1, <2>1, <2>2 DEF TenantInv, SeenInv, JobAt
  <2>3. CASE u # t
    BY <1>2, <2>1, <2>3 DEF TenantInv, SeenInv, JobAt
  <2> QED BY <2>2, <2>3
<1>6. AskedInv(i)'
  BY <1>1, AskedStays DEF Moves, JobAt
<1> QED BY <1>3, <1>4, <1>5, <1>6, UserStep, StepQuiet

LEMMA PutUsersRow ==
    ASSUME WritersInv, NEW i \in Calls, PutRow(i), call[i].op = "putUsers"
    PROVE  WritersInv'
<1>1. /\ Types /\ call[i] \in Records /\ CallInv(i) /\ UsersInv(i) /\ Busy(i) /\ At(i, "row") /\ JobAt(i, "none")
      /\ call[i].op \in UserOps /\ About(i) \in Tenants
  BY Facts, TenantOfCall DEF PutRow, Busy, At, UserOps, CallInv
<1>2. /\ Moves(i, "send") /\ call'[i].pc = "send" /\ Same(i) /\ job' = job
      /\ users' = [users EXCEPT ![About(i)] = call[i].grant.hash]
      /\ UNCHANGED <<acct, broker, known, files, auth, live, raced, mixed, begun, told, faults>>
  BY <1>1, GotoMoves DEF PutRow, Moves, CallPoints, farEnd, history
<1>3. call[i].grant.hash \in Secrets
  BY <1>1 DEF Records, Grants
<1>4. CallInv(i)'
  BY <1>1, <1>2 DEF CallInv, At, JobAt, About, Same, Fits, UserOps
<1>5. users'[About(i)] = call[i].grant.hash
  BY <1>1, <1>2 DEF Types
<1>6. UsersInv(i)'
  BY <1>1, <1>2, <1>5 DEF UsersInv, At, JobAt, Same
<1> QED BY <1>1, <1>2, <1>3, <1>4, <1>6, UsersRow

LEMMA DropUsersRow ==
    ASSUME WritersInv, NEW i \in Calls, DropRow(i), call[i].op = "removeUsers"
    PROVE  WritersInv'
<1>1. /\ Types /\ CallInv(i) /\ UsersInv(i) /\ Busy(i) /\ At(i, "drop") /\ JobAt(i, "ok")
      /\ call[i].op \in UserOps /\ About(i) \in Tenants
  BY Facts, TenantOfCall DEF DropRow, Busy, At, UserOps, CallInv
<1>2. /\ Moves(i, "answer") /\ call'[i].pc = "answer" /\ Same(i) /\ job' = job
      /\ users' = [users EXCEPT ![About(i)] = 0]
      /\ UNCHANGED <<acct, broker, known, files, auth, live, raced, mixed, begun, told, faults>>
  BY <1>1, GotoMoves DEF DropRow, Moves, CallPoints, farEnd, history
<1>3. 0 \in Secrets
  BY WritersAssumption DEF Secrets
<1>4. CallInv(i)'
  BY <1>1, <1>2 DEF CallInv, At, JobAt, About, Same, Fits, UserOps
<1>5. users'[About(i)] = 0
  BY <1>1, <1>2 DEF Types
<1>6. UsersInv(i)'
  BY <1>1, <1>2, <1>5 DEF UsersInv, At, JobAt, Same, About
<1> QED BY <1>1, <1>2, <1>3, <1>4, <1>6, UsersRow

LEMMA SendUsersInv ==
    ASSUME WritersInv, NEW i \in Calls, SendUsers(i)
    PROVE  WritersInv'
<1>1. /\ Types /\ CallInv(i) /\ UsersInv(i) /\ AskedInv(i) /\ Busy(i) /\ At(i, "send")
      /\ call[i].op \in UserOps
  BY Facts DEF SendUsers, Busy, At, UserOps
<1>2. /\ Moves(i, "wait") /\ JobMoves(i, "file") /\ call'[i].pc = "wait" /\ Same(i) /\ job'[i].pc = "file"
      /\ job'[i].reload = job[i].reload
      /\ UNCHANGED <<acct, broker, known, users, files, auth, live, raced, mixed, begun, told>>
      /\ faults' \in 0 .. MaxFaults
  BY <1>1, GotoMoves, ThenMoves, FaultsType
     DEF SendUsers, Moves, JobMoves, CallPoints, JobPoints, registry, farEnd, history
<1>3. CallInv(i)' /\ AskedInv(i)'
  <2>1. CallInv(i)'
    BY <1>1, <1>2 DEF CallInv, At, JobAt, About, Same, Fits, UserOps, AccountOps
  <2> QED BY <1>1, <1>2, <2>1, AskedStays DEF JobAt
<1>4. UsersInv(i)'
  BY <1>1, <1>2 DEF UsersInv, At, JobAt, Same, About
<1> QED BY <1>1, <1>2, <1>3, <1>4, UserMoves

LEMMA ReceiveUsersInv ==
    ASSUME WritersInv, NEW i \in Calls, ReceiveUsers(i)
    PROVE  WritersInv'
<1>1. /\ Types /\ CallInv(i) /\ UsersInv(i) /\ AskedInv(i) /\ Busy(i) /\ At(i, "wait")
      /\ call[i].op \in UserOps /\ ~At(i, "idle") /\ ~At(i, "row")
  BY Facts DEF ReceiveUsers, Busy, At, UserOps
<1>2. /\ UNCHANGED <<acct, broker, users, files, auth, live, raced, mixed, begun, told, faults, job>>
      /\ UNCHANGED <<registry, farEnd>> /\ faults' \in 0 .. MaxFaults
  BY FaultsType DEF ReceiveUsers, registry, farEnd, history
<1>3. CASE JobAt(i, "ok") /\ known' = known /\ Goto(i, IF call[i].op = "putUsers" THEN "answer" ELSE "drop")
  <2>1. PICK point : point = IF call[i].op = "putUsers" THEN "answer" ELSE "drop"
    OBVIOUS
  <2>2. /\ Moves(i, point) /\ JobMoves(i, job[i].pc) /\ call'[i].pc = point /\ Same(i) /\ job[i].pc # "rename"
    BY <1>1, <1>2, <1>3, <2>1, GotoMoves, JobStays DEF Moves, CallPoints, JobAt
  <2>3. CallInv(i)'
    BY <1>1, <1>2, <1>3, <2>1, <2>2 DEF CallInv, At, JobAt, About, Same, Fits, AccountOps, UserOps
  <2>4. AskedInv(i)'
    BY <1>1, <1>2, <2>2, AskedStays DEF JobAt
  <2>5. UsersInv(i)'
    BY <1>1, <1>2, <1>3, <2>1, <2>2 DEF UsersInv, At, JobAt, Same, About
  <2> QED BY <1>1, <1>2, <1>3, <2>2, <2>3, <2>4, <2>5, UserMoves
<1>4. CASE End(i, TRUE)
  BY <1>1, <1>2, <1>4, CallEnds
<1> QED BY <1>3, <1>4 DEF ReceiveUsers

\* An invocation at work on the log store's files.
LEMMA LogJob ==
    ASSUME WritersInv, NEW i \in Calls, job[i].pc \in {"file", "load", "rename", "reload"}
    PROVE  /\ Types /\ CallInv(i) /\ UsersInv(i) /\ AskedInv(i) /\ Busy(i) /\ job[i] \in Invocations
           /\ call[i].op \in UserOps \cup {"render"}
           /\ ~At(i, "row") /\ ~At(i, "send") /\ ~At(i, "answer") /\ ~At(i, "ready") /\ ~At(i, "drop")
<1>1. Types /\ CallInv(i) /\ UsersInv(i) /\ AskedInv(i) /\ call[i] \in Records /\ job[i] \in Invocations
  BY Facts
<1>2. call[i].op \in OpNames
  BY <1>1 DEF Records
<1>3. call[i].op \in UserOps \cup {"render"}
  BY <1>1, <1>2 DEF CallInv, Fits, OpNames, AccountOps
<1>4. Busy(i)
  BY DEF Busy, Finished
<1>5. ~At(i, "row") /\ ~At(i, "send") /\ ~At(i, "answer") /\ ~At(i, "ready") /\ ~At(i, "drop")
  BY <1>1 DEF CallInv, JobAt
<1> QED BY <1>1, <1>3, <1>4, <1>5

\* Its shape after a step of the invocation.
LEMMA LogJobCall ==
    ASSUME WritersInv, NEW i \in Calls, job[i].pc \in {"file", "load", "rename", "reload"},
           NEW point \in {"load", "rename", "reload", "ok"}, call' = call, mixed' = mixed, begun' = begun,
           job'[i].pc = point, job'[i].reload = job[i].reload
    PROVE  CallInv(i)' /\ AskedInv(i)'
<1>1. CallInv(i) /\ AskedInv(i) /\ call[i].op \in UserOps \cup {"render"} /\ Same(i)
      /\ ~At(i, "row") /\ ~At(i, "send") /\ ~At(i, "answer") /\ ~At(i, "ready") /\ ~At(i, "drop")
  BY LogJob DEF Same, About
<1>2. CallInv(i)'
  BY <1>1 DEF CallInv, At, JobAt, About, Fits, UserOps, AccountOps
<1> QED BY <1>1, <1>2, AskedStays DEF JobAt

LEMMA WriteUsersInv ==
    ASSUME WritersInv, NEW i \in Calls, WriteUsers(i)
    PROVE  WritersInv'
<1> PICK t : t = About(i)
  OBVIOUS
<1>1. /\ Types /\ CallInv(i) /\ UsersInv(i) /\ Busy(i) /\ call[i].op \in UserOps \cup {"render"}
      /\ JobAt(i, "file") /\ ~At(i, "answer") /\ call[i] \in Records
  BY LogJob, Facts DEF WriteUsers, JobAt
<1>2. call[i].op \in UserOps
  BY <1>1 DEF CallInv, Fits, JobAt
<1>3. t \in Tenants /\ t \in Things /\ told[t] = None /\ call[i].grant.hash \in Secrets
  BY <1>1, <1>2, TenantOfCall, Facts DEF Records, Grants
<1>4. /\ UNCHANGED <<acct, broker, known, users, auth, live, mixed, begun, told, faults, call>>
      /\ Then(i, "load") /\ files' = [files EXCEPT ![t] = call[i].grant.hash]
      /\ raced' = IF \E j \in Calls : JobAt(j, "rename") THEN raced \cup {t} ELSE raced \ {t}
      /\ faults' \in 0 .. MaxFaults
  BY FaultsType DEF WriteUsers, registry
<1>5. /\ Moves(i, call[i].pc) /\ JobMoves(i, "load") /\ job'[i].pc = "load" /\ Same(i)
      /\ job'[i].reload = job[i].reload
      /\ files' \in [Tenants -> Secrets] /\ files'[t] = call[i].grant.hash /\ raced' \subseteq Tenants
      /\ \A u \in Tenants \ {t} : files'[u] = files[u] /\ (u \in raced' <=> u \in raced)
  BY <1>1, <1>3, <1>4, CallStays, ThenMoves DEF Moves, JobMoves, JobPoints, Types
<1>6. Step(i)
  BY <1>1, <1>3, <1>4, <1>5, UserFrame DEF Types, JobMoves
<1>7. CallInv(i)' /\ AskedInv(i)'
  BY <1>1, <1>4, <1>5, LogJobCall DEF JobAt
<1>8. ASSUME NEW j \in Calls PROVE UsersInv(j)'
  <2>1. CASE j = i
    BY <1>1, <1>4, <1>5, <2>1 DEF UsersInv, At, JobAt, About
  <2>2. CASE j # i
    BY <1>4, <1>6, <2>2, OtherUsers
  <2> QED BY <2>1, <2>2
<1>9. ASSUME NEW u \in Tenants PROVE TenantInv(u)'
  <2>1. TenantInv(u) /\ \A j \in Calls : JobAt(j, "rename")' => JobAt(j, "rename") /\ job'[j] = job[j]
    BY <1>5 DEF WritersInv, JobMoves, JobAt
  <2>2. CASE u = t
    <3>1. t \notin raced' => \A j \in Calls : ~JobAt(j, "rename")
      BY <1>4
    <3> QED BY <1>3, <1>4, <2>1, <2>2, <3>1 DEF TenantInv, SeenInv
  <2>3. CASE u # t
    BY <1>4, <1>5, <2>1, <2>3 DEF TenantInv, SeenInv, JobAt
  <2> QED BY <2>2, <2>3
<1> QED BY <1>1, <1>4, <1>6, <1>7, <1>8, <1>9, UserStep, StepQuiet

LEMMA LoadInv ==
    ASSUME WritersInv, NEW i \in Calls, Load(i)
    PROVE  WritersInv'
<1>1. /\ Types /\ CallInv(i) /\ UsersInv(i) /\ Busy(i) /\ call[i].op \in UserOps \cup {"render"}
      /\ JobAt(i, "load") /\ job[i] \in Invocations
  BY LogJob DEF Load, JobAt
<1> DEFINE v == [job[i] EXCEPT !.pc = "rename", !.seen = files]
<1>2. v \in Invocations /\ v.pc = "rename" /\ v.seen = files /\ v.reload = job[i].reload
  BY <1>1 DEF Invocations, JobPoints, Types
<1>3. job' = [job EXCEPT ![i] = v]
  BY <1>1 DEF Load, Types
<1> HIDE DEF v
<1>4. /\ UNCHANGED <<acct, broker, known, users, files, auth, live, raced, mixed, begun, told, call>>
      /\ faults' \in 0 .. MaxFaults /\ Moves(i, call[i].pc)
      /\ job' \in [Calls -> Invocations] /\ job'[i] = v /\ \A j \in Calls \ {i} : job'[j] = job[j]
  BY <1>1, <1>2, <1>3, FaultsType, CallStays DEF Load, registry, farEnd, history, Types
<1>5. Step(i)
  BY <1>1, <1>4, UserFrame DEF Types
<1>6. CallInv(i)' /\ AskedInv(i)'
  BY <1>1, <1>2, <1>4, LogJobCall DEF JobAt
<1>7. ASSUME NEW j \in Calls PROVE UsersInv(j)'
  <2>1. CASE j = i
    BY <1>1, <1>2, <1>4, <2>1 DEF UsersInv, At, JobAt, About
  <2>2. CASE j # i
    BY <1>4, <1>5, <2>2, OtherUsers
  <2> QED BY <2>1, <2>2
<1>8. ASSUME NEW u \in Tenants PROVE TenantInv(u)'
  <2>1. TenantInv(u)
    BY DEF WritersInv
  <2>2. SeenInv(u)'
    BY <1>2, <1>4, <2>1 DEF TenantInv, SeenInv, JobAt
  <2> QED BY <1>4, <2>1, <2>2 DEF TenantInv
<1> QED BY <1>1, <1>4, <1>5, <1>6, <1>7, <1>8, UserStep, StepQuiet

\* The rendering is put in place: of a tenant that was not raced it holds what
\* the file holds, whoever rendered it.
LEMMA RenameInv ==
    ASSUME WritersInv, NEW i \in Calls, Rename(i)
    PROVE  WritersInv'
<1>1. /\ Types /\ CallInv(i) /\ UsersInv(i) /\ Busy(i) /\ call[i].op \in UserOps \cup {"render"}
      /\ JobAt(i, "rename") /\ job[i] \in Invocations
  BY LogJob DEF Rename, JobAt
<1>2. PICK point : point = IF job[i].reload THEN "reload" ELSE "ok"
  OBVIOUS
<1>3. /\ UNCHANGED <<acct, broker, known, users, files, live, raced, mixed, begun, told, call>>
      /\ faults' \in 0 .. MaxFaults /\ Then(i, point) /\ auth' = job[i].seen
      /\ auth' \in [Tenants -> Secrets]
  BY <1>1, <1>2, FaultsType DEF Rename, registry, history, Invocations
<1>4. /\ Moves(i, call[i].pc) /\ JobMoves(i, point) /\ job'[i].pc = point
      /\ job'[i].reload = job[i].reload
  BY <1>1, <1>2, <1>3, CallStays, ThenMoves DEF JobMoves, JobPoints, Finished
<1>5. Step(i)
  BY <1>1, <1>3, <1>4, UserFrame DEF Types, JobMoves
<1>6. CallInv(i)' /\ AskedInv(i)'
  BY <1>1, <1>2, <1>3, <1>4, LogJobCall DEF JobAt
<1>7. \A u \in Tenants : u \notin raced => auth'[u] = files[u]
  BY <1>1, <1>3 DEF WritersInv, TenantInv, SeenInv
<1>8. ASSUME NEW j \in Calls PROVE UsersInv(j)'
  <2>1. UsersInv(j) /\ (call[j].op \in UserOps => About(j) \in Tenants)
    BY TenantOfCall DEF WritersInv
  <2>2. CASE j = i
    <3>1. call[i].op \in UserOps => point = "reload"
      BY <1>1, <1>2 DEF CallInv, UserOps
    <3> QED BY <1>1, <1>3, <1>4, <1>7, <2>1, <2>2, <3>1 DEF UsersInv, At, JobAt, About
  <2>3. CASE j # i
    <3>1. job'[j] = job[j]
      BY <1>4, <2>3 DEF JobMoves
    <3> QED BY <1>3, <1>7, <2>1, <3>1 DEF UsersInv, Busy, At, JobAt, About
  <2> QED BY <2>2, <2>3
<1>9. ASSUME NEW u \in Tenants PROVE TenantInv(u)'
  <2>1. TenantInv(u) /\ \A j \in Calls : JobAt(j, "rename")' => JobAt(j, "rename") /\ job'[j] = job[j]
    BY <1>2, <1>4 DEF WritersInv, JobMoves, JobAt
  <2> QED BY <1>3, <1>7, <2>1 DEF TenantInv, SeenInv, JobAt
<1> QED BY <1>1, <1>3, <1>5, <1>6, <1>8, <1>9, UserStep, StepQuiet

LEMMA ReloadInv ==
    ASSUME WritersInv, NEW i \in Calls, Reload(i)
    PROVE  WritersInv'
<1>1. /\ Types /\ CallInv(i) /\ UsersInv(i) /\ Busy(i) /\ call[i].op \in UserOps \cup {"render"}
      /\ JobAt(i, "reload") /\ ~At(i, "answer")
  BY LogJob DEF Reload, JobAt
<1>2. /\ UNCHANGED <<acct, broker, known, users, files, auth, raced, mixed, begun, told, call>>
      /\ faults' \in 0 .. MaxFaults /\ Then(i, "ok") /\ live' = auth
  BY FaultsType DEF Reload, registry, history
<1>3. /\ Moves(i, call[i].pc) /\ JobMoves(i, "ok") /\ job'[i].pc = "ok"
      /\ job'[i].reload = job[i].reload
  BY <1>1, <1>2, CallStays, ThenMoves DEF JobMoves, JobPoints, Finished
<1>4. Step(i)
  BY <1>1, <1>2, <1>3, UserFrame DEF Types, JobMoves
<1>5. CallInv(i)' /\ AskedInv(i)'
  BY <1>1, <1>2, <1>3, LogJobCall DEF JobAt
<1>6. ASSUME NEW j \in Calls PROVE UsersInv(j)'
  <2>1. UsersInv(j)
    BY DEF WritersInv
  <2>2. CASE j = i
    BY <1>1, <1>2, <1>3, <2>1, <2>2 DEF UsersInv, At, JobAt, About
  <2>3. CASE j # i
    <3>1. job'[j] = job[j]
      BY <1>3, <2>3 DEF JobMoves
    <3> QED BY <1>2, <2>1, <3>1 DEF UsersInv, Busy, At, JobAt, About
  <2> QED BY <2>2, <2>3
<1>7. ASSUME NEW u \in Tenants PROVE TenantInv(u)'
  <2>1. TenantInv(u) /\ \A j \in Calls : JobAt(j, "rename")' => JobAt(j, "rename") /\ job'[j] = job[j]
    BY <1>3 DEF WritersInv, JobMoves, JobAt
  <2> QED BY <1>2, <2>1 DEF TenantInv, SeenInv, JobAt
<1> QED BY <1>1, <1>2, <1>4, <1>5, <1>6, <1>7, UserStep, StepQuiet

LEMMA JobFailsInv ==
    ASSUME WritersInv, NEW i \in Calls, JobFails(i)
    PROVE  WritersInv'
<1>1. /\ Types /\ call[i] \in Records /\ CallInv(i) /\ AskedInv(i) /\ PutInv(i) /\ HashInv(i)
      /\ DeleteInv(i) /\ UsersInv(i) /\ Busy(i) /\ job[i].pc \notin Finished
  BY Facts DEF JobFails, Busy
<1>2. /\ UNCHANGED <<acct, broker, known, users, files, auth, live, raced, mixed, begun, told, call>>
      /\ faults' \in 0 .. MaxFaults /\ Then(i, "failed")
  BY FaultsType DEF JobFails, registry, farEnd, history
<1>3. /\ Moves(i, call[i].pc) /\ JobMoves(i, "failed") /\ job'[i].pc = "failed" /\ Same(i)
      /\ job'[i].reload = job[i].reload
  BY <1>1, <1>2, CallStays, ThenMoves DEF Moves, JobMoves, JobPoints, Finished
<1>4. call[i].op \in AccountOps \/ call[i].op \in UserOps \cup {"render"}
  <2>1. call[i].op \in OpNames
    BY <1>1 DEF Records
  <2> QED BY <1>1, <2>1 DEF CallInv, Fits, OpNames, Finished
<1>5. CallInv(i)' /\ AskedInv(i)'
  <2>1. ~At(i, "row") /\ ~At(i, "send") /\ ~At(i, "answer") /\ ~At(i, "ready") /\ ~At(i, "drop")
    BY <1>1 DEF CallInv, JobAt, Finished
  <2>2. Fits(call[i].op, call[i].pc, "failed")
    BY <1>1 DEF CallInv, Fits, Finished
  <2>3. CallInv(i)'
    BY <1>1, <1>2, <1>3, <2>1, <2>2 DEF CallInv, At, JobAt, About
  <2> QED BY <1>1, <1>3, <2>3, AskedStays DEF JobAt
<1>6. CASE call[i].op \in AccountOps
  <2>1. PutInv(i)' /\ HashInv(i)' /\ DeleteInv(i)'
    BY <1>1, <1>2, <1>3 DEF PutInv, HashInv, DeleteInv, Kept, At, JobAt, About
  <2> QED BY <1>1, <1>2, <1>3, <1>5, <1>6, <2>1, AccountMoves
<1>7. CASE call[i].op \in UserOps \cup {"render"}
  <2>1. UsersInv(i)'
    BY <1>1, <1>2, <1>3 DEF UsersInv, At, JobAt, About
  <2> QED BY <1>1, <1>2, <1>3, <1>5, <1>7, <2>1, UserMoves
<1> QED BY <1>4, <1>6, <1>7
-----------------------------------------------------------------------------
(* Calls begin.                                                              *)

\* The next number has not been used.
LEMMA NextIsFresh ==
    ASSUME WritersInv, NEW i \in Calls, i = begun + 1
    PROVE  /\ call[i].op = "none" /\ At(i, "idle") /\ JobAt(i, "none") /\ job[i].reload /\ ~Busy(i)
           /\ About(i) = None /\ call[i].plain = 0 /\ ~call[i].met
<1>1. begun \in Nat /\ i > begun /\ CallInv(i) /\ AskedInv(i) /\ mixed \subseteq Things
  BY WritersAssumption DEF WritersInv, Types, Calls
<1>2. call[i].op = "none"
  BY <1>1 DEF CallInv
<1> QED BY <1>1, <1>2, WritersAssumption DEF CallInv, AskedInv, Fits, At, JobAt, Busy, Finished

\* Call i begins as c says, about w; who is at work on w has met it.
Entered(i, w, c) ==
    /\ call' \in [Calls -> Records]
    /\ call'[i].pc = c.pc /\ call'[i].op = c.op /\ call'[i].device = c.device
    /\ call'[i].grant = c.grant /\ call'[i].plain = c.plain /\ About(i)' = w
    /\ call'[i].met => w \in mixed'
    /\ \A j \in Calls \ {i} :
          /\ call'[j].pc = call[j].pc /\ call'[j].op = call[j].op /\ About(j)' = About(j)
          /\ call'[j].device = call[j].device /\ call'[j].grant = call[j].grant
          /\ call'[j].plain = call[j].plain
          /\ call[j].met => call'[j].met
          /\ call'[j].met => call[j].met \/ (About(j) = w /\ w \in mixed')
          /\ Busy(j) /\ About(j) = w => call'[j].met /\ call'[i].met
    /\ mixed \subseteq mixed' /\ mixed' \subseteq Things
    /\ told' \in [Things -> Grants \cup {None}] /\ told'[w] = None
    /\ \A x \in Things \ {w} : told'[x] = told[x]
    /\ begun' = i
    /\ UNCHANGED <<acct, users, broker, files, auth, live, job, raced, faults>>

LEMMA EnterEnters ==
    ASSUME Types, NEW i \in Calls, NEW w \in Things, NEW c \in Records, Enter(i, w, c)
    PROVE  Entered(i, w, c)
<1> DEFINE others == {j \in Calls : Busy(j) /\ About(j) = w}
           new == [c EXCEPT !.about = w, !.met = others # {}]
           old(j) == [call[j] EXCEPT !.met = call[j].met \/ j \in others]
<1>1. /\ new \in Records /\ new.pc = c.pc /\ new.op = c.op /\ new.device = c.device
      /\ new.grant = c.grant /\ new.plain = c.plain /\ new.about = w /\ new.met = (others # {})
  BY DEF Records
<1>2. ASSUME NEW j \in Calls
      PROVE  /\ old(j) \in Records /\ old(j).pc = call[j].pc /\ old(j).op = call[j].op
             /\ old(j).about = call[j].about /\ old(j).device = call[j].device
             /\ old(j).grant = call[j].grant /\ old(j).plain = call[j].plain
             /\ old(j).met = (call[j].met \/ j \in others)
  BY DEF Types, Records
<1>3. /\ call' = [j \in Calls |-> IF j = i THEN new ELSE old(j)]
      /\ told' = [told EXCEPT ![w] = None]
      /\ mixed' = IF others # {} THEN mixed \cup {w} ELSE mixed
      /\ begun' = i
      /\ UNCHANGED <<acct, users, broker, files, auth, live, job, raced, faults>>
  BY DEF Enter, NextIs, registry, farEnd
<1>4. \A j \in Calls : j \in others <=> Busy(j) /\ About(j) = w
  OBVIOUS
<1>5. call[i] \in Records
  BY DEF Types
<1> HIDE DEF new, old, others
<1>6. call' \in [Calls -> Records] /\ call'[i] = new /\ \A j \in Calls \ {i} : call'[j] = old(j)
  BY <1>1, <1>2, <1>3
<1>7. /\ told' \in [Things -> Grants \cup {None}] /\ told'[w] = None
      /\ \A x \in Things \ {w} : told'[x] = told[x]
      /\ mixed \subseteq mixed' /\ mixed' \subseteq Things /\ (others # {} => w \in mixed')
  BY <1>3 DEF Types
<1>8. \A j \in Calls : j \in others => others # {}
  OBVIOUS
<1>9. ASSUME NEW j \in Calls \ {i}
      PROVE  /\ call'[j].pc = call[j].pc /\ call'[j].op = call[j].op /\ About(j)' = About(j)
             /\ call'[j].device = call[j].device /\ call'[j].grant = call[j].grant
             /\ call'[j].plain = call[j].plain
             /\ call[j].met => call'[j].met
             /\ call'[j].met => call[j].met \/ (About(j) = w /\ w \in mixed')
             /\ Busy(j) /\ About(j) = w => call'[j].met /\ call'[i].met
  <2>1. /\ call'[j].pc = call[j].pc /\ call'[j].op = call[j].op /\ call'[j].about = call[j].about
        /\ call'[j].device = call[j].device /\ call'[j].grant = call[j].grant
        /\ call'[j].plain = call[j].plain
    BY <1>2, <1>6
  <2>2. call'[j].met = (call[j].met \/ j \in others)
    BY <1>2, <1>6
  <2>3. call'[i].met = (others # {})
    BY <1>1, <1>6
  <2>4. j \in others <=> Busy(j) /\ About(j) = w
    BY <1>4
  <2>5. j \in others => call'[i].met /\ w \in mixed'
    BY <1>7, <1>8, <2>3
  <2>6. /\ call[j].met => call'[j].met
        /\ call'[j].met => call[j].met \/ j \in others
        /\ j \in others => call'[j].met
    BY <2>2
  <2> QED BY <2>1, <2>4, <2>5, <2>6 DEF About
<1> QED BY <1>1, <1>3, <1>6, <1>7, <1>9 DEF Entered, About

LEMMA EnterInv ==
    ASSUME WritersInv, NEW i \in Calls, i = begun + 1, NEW w \in Things, NEW c \in Records,
           Enter(i, w, c), known' \in [Accounts -> Secrets],
           \A a \in Accounts : known'[a] = known[a] \/ (a = w /\ known'[a] = 0),
           CallInv(i)', AskedInv(i)', PutInv(i)', HashInv(i)', DeleteInv(i)', UsersInv(i)'
    PROVE  WritersInv'
<1>1. Types /\ Entered(i, w, c) /\ ~Busy(i)
  BY EnterEnters, NextIsFresh DEF WritersInv
<1>2. Types'
  BY <1>1 DEF Types, Entered, Calls
<1>3. \A j \in Calls \ {i} : (Busy(j)' <=> Busy(j)) /\ About(j)' = About(j) /\ job'[j] = job[j]
  BY <1>1 DEF Entered, Busy, At
<1>4. ASSUME NEW j \in Calls, j # i
      PROVE  CallInv(j)' /\ AskedInv(j)' /\ PutInv(j)' /\ HashInv(j)' /\ DeleteInv(j)' /\ UsersInv(j)'
  <2>1. /\ CallInv(j) /\ AskedInv(j) /\ PutInv(j) /\ HashInv(j) /\ DeleteInv(j) /\ UsersInv(j)
        /\ call'[j].pc = call[j].pc /\ call'[j].op = call[j].op /\ About(j)' = About(j)
        /\ call'[j].device = call[j].device /\ call'[j].grant = call[j].grant
        /\ call'[j].plain = call[j].plain /\ (call[j].met => call'[j].met)
        /\ call'[j].met => call[j].met \/ About(j) \in mixed'
        /\ Busy(j) /\ About(j) = w => w \in mixed'
        /\ mixed \subseteq mixed' /\ begun' = i
        /\ UNCHANGED <<acct, users, broker, files, auth, live, job, raced>>
    BY <1>1, <1>4 DEF WritersInv, Entered
  <2>2. j > begun' => j > begun
    BY <2>1, <1>1, WritersAssumption DEF Types, Calls
  <2>3. CallInv(j)'
    BY <2>1, <2>2 DEF CallInv, At, JobAt
  <2>4. AskedInv(j)'
    BY <2>1 DEF AskedInv, JobAt
  <2>5. PutInv(j)' /\ HashInv(j)'
    BY <1>3, <1>4, <2>1 DEF PutInv, HashInv, Kept, At, JobAt
  <2>6. DeleteInv(j)'
    <3>1. call[j].op = "delete" => About(j) \in Accounts
      BY <2>1 DEF CallInv, AccountOps
    <3> QED BY <1>3, <1>4, <2>1, <3>1 DEF DeleteInv, At, JobAt
  <2>7. UsersInv(j)'
    BY <1>3, <1>4, <2>1 DEF UsersInv, At, JobAt
  <2> QED BY <2>3, <2>4, <2>5, <2>6, <2>7
<1>5. Alone'
  <2> SUFFICES ASSUME NEW j \in Calls, NEW k \in Calls, j # k, Busy(j)', Busy(k)',
                      About(j)' = About(k)', About(j)' \in Things
               PROVE  call'[j].met
    BY DEF Alone
  <2>1. CASE j = i
    BY <1>1, <1>3, <2>1 DEF Entered
  <2>2. CASE k = i
    BY <1>1, <1>3, <2>2 DEF Entered
  <2>3. CASE j # i /\ k # i
    <3>1. call[j].met
      BY <1>3, <2>3 DEF WritersInv, Alone
    <3> QED BY <1>1, <2>3, <3>1 DEF Entered
  <2> QED BY <2>1, <2>2, <2>3
<1>6. Quiet'
  <2> SUFFICES ASSUME NEW j \in Calls, Busy(j)', About(j)' \in Things PROVE told'[About(j)'] = None
    BY DEF Quiet
  <2>1. CASE About(j)' = w
    BY <1>1, <2>1 DEF Entered
  <2>2. CASE About(j)' # w
    <3>1. j # i
      BY <1>1, <2>2 DEF Entered
    <3>2. told[About(j)] = None
      BY <1>3, <3>1 DEF WritersInv, Quiet
    <3> QED BY <1>1, <1>3, <2>2, <3>1, <3>2 DEF Entered
  <2> QED BY <2>1, <2>2
<1>7. ASSUME NEW a \in Accounts PROVE AccountInv(a)'
  <2>1. /\ AccountInv(a) /\ mixed \subseteq mixed' /\ UNCHANGED <<acct, broker>> /\ a \in Things
        /\ (told'[a] = told[a] \/ told'[a] = None)
    BY <1>1 DEF WritersInv, Entered, Things
  <2> QED BY <2>1 DEF AccountInv, ConfinedAt
<1>8. ASSUME NEW t \in Tenants PROVE TenantInv(t)'
  <2>1. /\ TenantInv(t) /\ UNCHANGED <<users, files, auth, live, job, raced>> /\ t \in Things
        /\ (told'[t] = told[t] \/ told'[t] = None)
    BY <1>1 DEF WritersInv, Entered, Things
  <2> QED BY <2>1 DEF TenantInv, SeenInv, JobAt
<1> QED BY <1>2, <1>4, <1>5, <1>6, <1>7, <1>8 DEF WritersInv

\* The shape of a call that has just begun.
LEMMA EnteredCall ==
    ASSUME WritersInv, NEW i \in Calls, i = begun + 1, NEW w \in Things, NEW c \in Records, Enter(i, w, c),
           c.op \in AccountOps => w \in Accounts, c.op \in UserOps => w \in Tenants,
           c.op \in AccountOps \cup UserOps, Fits(c.op, c.pc, "none"), c.pc \in {"row", "send"}
    PROVE  /\ CallInv(i)' /\ call'[i].pc = c.pc /\ call'[i].op = c.op /\ call'[i].device = c.device
           /\ call'[i].grant = c.grant /\ call'[i].plain = c.plain /\ About(i)' = w
           /\ job'[i].pc = "none" /\ mixed \subseteq mixed' /\ acct' = acct /\ users' = users
<1>1. Entered(i, w, c) /\ JobAt(i, "none") /\ job[i].reload /\ job' = job /\ begun' = i
  BY EnterEnters, NextIsFresh DEF WritersInv, Entered
<1>2. job'[i].pc = "none" /\ ~(i > begun')
  BY <1>1 DEF JobAt, Calls
<1>3. CallInv(i)'
  BY <1>1, <1>2 DEF Entered, CallInv, At, JobAt, AccountOps, UserOps
<1> QED BY <1>1, <1>2, <1>3 DEF Entered
LEMMA GoneType == Gone \in Grants /\ Gone.hash = 0 /\ 0 \in Secrets /\ NoTokens \in [Tenants -> Secrets]
<1>1. 0 \in Secrets
  BY WritersAssumption DEF Secrets
<1> QED BY <1>1 DEF Gone, Grants, NoTokens

\* The hash a put writes, and the password its answer carries.
LEMMA SecretChosen ==
    ASSUME WritersInv, NEW i \in Calls, NEW a \in Accounts, NEW supplied \in {0, known[a]}
    PROVE  LET s == chooseBrokerSecret(i, supplied, acct[a])
           IN  /\ s.hash \in Secrets /\ s.hash # 0 /\ s.plain \in Secrets /\ s.plain \in {0, s.hash}
               /\ a \notin mixed /\ acct[a] # NoAccount => s.hash = acct[a].hash
<1>1. known[a] \in Secrets /\ acct[a] \in Rows \cup {NoAccount} /\ AccountInv(a)
  BY DEF WritersInv, Types
<1>2. NoAccount.hash = 0 /\ (acct[a] # NoAccount => acct[a].hash \in Secrets \ {0})
  BY <1>1 DEF NoAccount, Rows
<1>3. i \in Secrets /\ i # 0 /\ 0 \in Secrets
  BY WritersAssumption DEF Calls, Secrets
<1> QED BY <1>1, <1>2, <1>3 DEF chooseBrokerSecret, AccountInv

LEMMA CreateInv ==
    ASSUME WritersInv, NEW i \in Calls, i = begun + 1, NEW a \in Accounts, NEW ask \in Asks,
           NEW supplies \in BOOLEAN, CreateBrokerAccount(i, a, ask, supplies)
    PROVE  WritersInv'
<1> DEFINE t == TenantOf[a]
           s == chooseBrokerSecret(i, IF supplies THEN known[a] ELSE 0, acct[a])
           g == [hash |-> s.hash, pub |-> Absolute(t, ask.pub), sub |-> Absolute(t, ask.sub)]
           c == [NoCall EXCEPT !.pc = "row", !.op = "put", !.device = ask.device, !.plain = s.plain,
                               !.grant = g]
<1>1. /\ s.hash \in Secrets /\ s.hash # 0 /\ s.plain \in Secrets /\ s.plain \in {0, s.hash}
      /\ a \notin mixed /\ acct[a] # NoAccount => s.hash = acct[a].hash
  BY SecretChosen
<1>2. /\ Acceptable(t, ask) /\ Enter(i, a, c) /\ known' = known
  BY DEF CreateBrokerAccount
<1>3. t \in Tenants /\ ask.device \in IoTDevices \cup {None} /\ a \in Things
  BY <1>2, WritersAssumption DEF Acceptable, checkBrokerDevice, Things
<1>4. Absolute(t, ask.pub) \subseteq Patterns /\ Absolute(t, ask.sub) \subseteq Patterns
  <2>1. ask.pub \cup ask.sub \subseteq Seq(Levels) \ {<<>>}
    BY WritersAssumption
  <2>2. \A r \in ask.pub \cup ask.sub : <<t>> \o r \in Patterns
    <3> HIDE DEF t
    <3> QED BY <1>3, <2>1, PrefixedPattern
  <2> HIDE DEF c, g, s, t
  <2> QED BY <2>2 DEF Absolute
<1> HIDE DEF s, t
<1>5. g \in Grants /\ g.hash = s.hash /\ g.pub = Absolute(t, ask.pub) /\ g.sub = Absolute(t, ask.sub)
  BY <1>1, <1>4 DEF Grants
<1> HIDE DEF g
<1>6. c \in Records
  BY <1>1, <1>3, <1>5 DEF NoCall, Records, CallPoints, OpNames, AccountOps
<1>7. /\ c.pc = "row" /\ c.op = "put" /\ c.device = ask.device /\ c.plain = s.plain /\ c.grant = g
  BY DEF NoCall
<1> HIDE DEF c
<1>8. Fits(c.op, c.pc, "none")
  BY <1>7 DEF Fits, UserOps
<1>9. /\ CallInv(i)' /\ call'[i].pc = "row" /\ call'[i].op = "put" /\ call'[i].device = ask.device
      /\ call'[i].grant = g /\ call'[i].plain = s.plain /\ About(i)' = a
      /\ job'[i].pc = "none" /\ mixed \subseteq mixed' /\ acct' = acct
  BY <1>2, <1>3, <1>6, <1>7, <1>8, EnteredCall DEF AccountOps, UserOps
<1>10. AskedInv(i)'
  BY <1>1, <1>2, <1>5, <1>9 DEF AskedInv, JobAt, t
<1>11. PutInv(i)' /\ HashInv(i)' /\ DeleteInv(i)' /\ UsersInv(i)'
  BY <1>1, <1>5, <1>9 DEF PutInv, HashInv, DeleteInv, UsersInv, At, JobAt, UserOps
<1>12. known' \in [Accounts -> Secrets]
  BY <1>2 DEF WritersInv, Types
<1> QED BY <1>2, <1>3, <1>6, <1>9, <1>10, <1>11, <1>12, EnterInv

LEMMA DeleteInvHolds ==
    ASSUME WritersInv, NEW i \in Calls, i = begun + 1, NEW a \in Accounts, DeleteBrokerAccount(i, a)
    PROVE  WritersInv'
<1> DEFINE c == [NoCall EXCEPT !.pc = "send", !.op = "delete"]
<1>1. Enter(i, a, c) /\ known' = [known EXCEPT ![a] = 0] /\ a \in Things
  BY DEF DeleteBrokerAccount, Things
<1>2. c \in Records
  BY GoneType DEF NoCall, Records, CallPoints, OpNames, AccountOps
<1>3. c.pc = "send" /\ c.op = "delete" /\ c.plain = 0 /\ c.grant = Gone
  BY DEF NoCall
<1> HIDE DEF c
<1>4. Fits(c.op, c.pc, "none")
  BY <1>3 DEF Fits, UserOps
<1>5. /\ CallInv(i)' /\ call'[i].pc = "send" /\ call'[i].op = "delete" /\ call'[i].grant = Gone
      /\ call'[i].plain = 0 /\ About(i)' = a /\ job'[i].pc = "none"
  BY <1>1, <1>2, <1>3, <1>4, EnteredCall DEF AccountOps, UserOps
<1>6. known' \in [Accounts -> Secrets] /\ known'[a] = 0 /\ \A b \in Accounts \ {a} : known'[b] = known[b]
  BY <1>1, GoneType DEF WritersInv, Types
<1>7. AskedInv(i)'
  BY <1>5 DEF AskedInv, JobAt
<1>8. PutInv(i)' /\ HashInv(i)' /\ DeleteInv(i)' /\ UsersInv(i)'
  BY <1>5, <1>6 DEF PutInv, HashInv, DeleteInv, UsersInv, At, JobAt, UserOps
<1> QED BY <1>1, <1>2, <1>5, <1>6, <1>7, <1>8, EnterInv

LEMMA EnsureLogTokensInv ==
    ASSUME WritersInv, NEW i \in Calls, i = begun + 1, NEW t \in Tenants, ensureLogTokens(i, t)
    PROVE  WritersInv'
<1> DEFINE hash == IF users[t] = 0 THEN i ELSE users[t]
           point == IF users[t] = 0 THEN "row" ELSE "send"
           c == [NoCall EXCEPT !.op = "putUsers", !.pc = point, !.grant.hash = hash]
<1>1. Enter(i, t, c) /\ known' = known /\ t \in Things
  BY DEF ensureLogTokens, Things
<1>2. hash \in Secrets /\ point \in {"row", "send"} /\ (point = "send" => hash = users[t])
  BY WritersAssumption DEF WritersInv, Types, Calls, Secrets
<1> HIDE DEF hash, point
<1>3. c \in Records
  BY <1>2, GoneType DEF NoCall, Records, CallPoints, OpNames, UserOps, Grants, Gone
<1>4. c.pc = point /\ c.op = "putUsers" /\ c.plain = 0 /\ c.grant.hash = hash
  BY DEF NoCall, Gone
<1> HIDE DEF c
<1>5. Fits(c.op, c.pc, "none")
  BY <1>2, <1>4 DEF Fits
<1>6. /\ CallInv(i)' /\ call'[i].pc = point /\ call'[i].op = "putUsers" /\ call'[i].grant = c.grant
      /\ call'[i].plain = 0 /\ About(i)' = t /\ job'[i].pc = "none" /\ users' = users
  BY <1>1, <1>2, <1>3, <1>4, <1>5, EnteredCall DEF AccountOps, UserOps
<1>7. AskedInv(i)'
  BY <1>6 DEF AskedInv, JobAt
<1>8. PutInv(i)' /\ HashInv(i)' /\ DeleteInv(i)' /\ UsersInv(i)'
  BY <1>2, <1>4, <1>6 DEF PutInv, HashInv, DeleteInv, UsersInv, At, JobAt, UserOps
<1>9. known' \in [Accounts -> Secrets]
  BY <1>1 DEF WritersInv, Types
<1> QED BY <1>1, <1>3, <1>6, <1>7, <1>8, <1>9, EnterInv

LEMMA RemoveLogTokensInv ==
    ASSUME WritersInv, NEW i \in Calls, i = begun + 1, NEW t \in Tenants, removeLogTokens(i, t)
    PROVE  WritersInv'
<1> DEFINE c == [NoCall EXCEPT !.op = "removeUsers", !.pc = "send"]
<1>1. Enter(i, t, c) /\ known' = known /\ t \in Things
  BY DEF removeLogTokens, Things
<1>2. c \in Records
  BY GoneType DEF NoCall, Records, CallPoints, OpNames, UserOps
<1>3. c.pc = "send" /\ c.op = "removeUsers" /\ c.plain = 0 /\ c.grant = Gone
  BY DEF NoCall
<1> HIDE DEF c
<1>4. Fits(c.op, c.pc, "none")
  BY <1>3 DEF Fits, UserOps
<1>5. /\ CallInv(i)' /\ call'[i].pc = "send" /\ call'[i].op = "removeUsers" /\ call'[i].grant = Gone
      /\ call'[i].plain = 0 /\ About(i)' = t /\ job'[i].pc = "none"
  BY <1>1, <1>2, <1>3, <1>4, EnteredCall DEF AccountOps, UserOps
<1>6. AskedInv(i)'
  BY <1>5 DEF AskedInv, JobAt
<1>7. PutInv(i)' /\ HashInv(i)' /\ DeleteInv(i)' /\ UsersInv(i)'
  BY <1>5 DEF PutInv, HashInv, DeleteInv, UsersInv, At, JobAt, UserOps
<1>8. known' \in [Accounts -> Secrets]
  BY <1>1 DEF WritersInv, Types
<1> QED BY <1>1, <1>2, <1>5, <1>6, <1>7, <1>8, EnterInv

\* Ansible's invocation, which is about no tenant in particular.
LEMMA RenderInv ==
    ASSUME WritersInv, NEW i \in Calls, i = begun + 1, NEW reload \in BOOLEAN, Render(i, reload)
    PROVE  WritersInv'
<1> DEFINE c == [call[i] EXCEPT !.op = "render"]
           v == [NoJob EXCEPT !.pc = "load", !.reload = reload]
<1>1. /\ Types /\ call[i] \in Records /\ call[i].op = "none" /\ At(i, "idle") /\ ~Busy(i)
      /\ About(i) = None /\ call[i].plain = 0 /\ ~call[i].met /\ None \notin Things
  BY NextIsFresh, WritersAssumption DEF WritersInv, Types
<1>2. /\ c \in Records /\ c.op = "render" /\ c.pc = "idle" /\ c.about = None /\ c.plain = 0 /\ ~c.met
  BY <1>1 DEF Records, OpNames, At, About
<1>3. v \in Invocations /\ v.pc = "load"
  BY GoneType DEF NoJob, Invocations, JobPoints
<1>4. /\ call' = [call EXCEPT ![i] = c] /\ job' = [job EXCEPT ![i] = v] /\ begun' = i
      /\ UNCHANGED <<acct, users, broker, files, auth, live, known, told, mixed, raced, faults>>
  BY <1>1 DEF Render, NextIs, Types, registry, farEnd, history
<1> HIDE DEF c, v
<1>5. /\ Types' /\ call'[i] = c /\ job'[i] = v
      /\ \A j \in Calls \ {i} : call'[j] = call[j] /\ job'[j] = job[j]
  BY <1>1, <1>2, <1>3, <1>4 DEF Types, Calls
<1>6. ASSUME NEW j \in Calls
      PROVE  CallInv(j)' /\ AskedInv(j)' /\ PutInv(j)' /\ HashInv(j)' /\ DeleteInv(j)' /\ UsersInv(j)'
  <2>1. CASE j = i
    <3>1. ~(i > begun')
      BY <1>4 DEF Calls
    <3> QED BY <1>2, <1>3, <1>5, <2>1, <3>1
            DEF CallInv, AskedInv, PutInv, HashInv, DeleteInv, UsersInv, Fits, At, JobAt, About, AccountOps, UserOps
  <2>2. CASE j # i
    <3>1. /\ CallInv(j) /\ AskedInv(j) /\ PutInv(j) /\ HashInv(j) /\ DeleteInv(j) /\ UsersInv(j)
          /\ call'[j] = call[j] /\ job'[j] = job[j]
      BY <1>5, <2>2 DEF WritersInv
    <3>2. j > begun' => j > begun
      BY <1>1, <1>4, WritersAssumption DEF Types, Calls
    <3>3. CallInv(j)' /\ AskedInv(j)'
      BY <1>4, <3>1, <3>2 DEF CallInv, AskedInv, At, JobAt, About
    <3> QED BY <1>4, <3>1, <3>3 DEF PutInv, HashInv, DeleteInv, UsersInv, Kept, Busy, At, JobAt, About
  <2> QED BY <2>1, <2>2
<1>7. \A j \in Calls : Busy(j)' /\ About(j)' \in Things =>
          j # i /\ Busy(j) /\ About(j)' = About(j) /\ call'[j].met = call[j].met
  BY <1>1, <1>2, <1>5 DEF Busy, At, About
<1>8. Alone' /\ Quiet'
  BY <1>4, <1>7 DEF WritersInv, Alone, Quiet
<1>9. \A a \in Accounts : AccountInv(a)'
  BY <1>4 DEF WritersInv, AccountInv, ConfinedAt
<1>10. ASSUME NEW t \in Tenants PROVE TenantInv(t)'
  <2>1. TenantInv(t) /\ \A j \in Calls : JobAt(j, "rename")' => JobAt(j, "rename") /\ job'[j] = job[j]
    BY <1>3, <1>5 DEF WritersInv, JobAt
  <2> QED BY <1>4, <2>1 DEF TenantInv, SeenInv
<1> QED BY <1>5, <1>6, <1>8, <1>9, <1>10 DEF WritersInv

LEMMA BeginInv ==
    ASSUME WritersInv, NEW i \in Calls, Begin(i)
    PROVE  WritersInv'
BY CreateInv, DeleteInvHolds, EnsureLogTokensInv, RemoveLogTokensInv, RenderInv DEF Begin

LEMMA InitWriters ==
    ASSUME Init
    PROVE  WritersInv
<1>1. NoCall \in Records /\ NoJob \in Invocations
  BY GoneType DEF NoCall, Records, NoJob, Invocations, CallPoints, OpNames, JobPoints, Finished
<1>2. Types
  BY <1>1, GoneType, WritersAssumption DEF Init, Types, Secrets
<1>3. \A i \in Calls : call[i] = NoCall /\ job[i] = NoJob /\ begun = 0
  BY DEF Init
<1>4. ASSUME NEW i \in Calls
      PROVE  /\ ~Busy(i) /\ CallInv(i) /\ AskedInv(i) /\ PutInv(i) /\ HashInv(i) /\ DeleteInv(i) /\ UsersInv(i)
  BY <1>3, <1>4 DEF Busy, CallInv, AskedInv, PutInv, HashInv, DeleteInv, UsersInv, Fits, At, JobAt, About,
                    NoCall, NoJob, AccountOps, UserOps, Finished
<1>5. Alone /\ Quiet
  BY <1>4 DEF Alone, Quiet
<1>6. ASSUME NEW a \in Accounts PROVE AccountInv(a)
  <2>1. acct[a] = NoAccount /\ broker[a] = Gone /\ known[a] = 0 /\ told[a] = None
    BY DEF Init, Things
  <2> QED BY <2>1 DEF AccountInv, ConfinedAt
<1>7. ASSUME NEW t \in Tenants PROVE TenantInv(t)
  <2>1. told[t] = None /\ \A i \in Calls : ~JobAt(i, "rename")
    BY <1>3 DEF Init, Things, JobAt, NoJob
  <2> QED BY <2>1 DEF TenantInv, SeenInv
<1> QED BY <1>2, <1>4, <1>5, <1>6, <1>7 DEF WritersInv

LEMMA NextWriters ==
    ASSUME WritersInv, [Next]_vars
    PROVE  WritersInv'
<1>1. ASSUME NEW i \in Calls, PutRow(i) PROVE WritersInv'
  BY <1>1, PutAccountRow, PutUsersRow DEF PutRow
<1>2. ASSUME NEW i \in Calls, DropRow(i) PROVE WritersInv'
  BY <1>2, DropAccountRow, DropUsersRow DEF DropRow
<1>3. CASE Next
  BY <1>1, <1>2, <1>3, BeginInv, SendAccountInv, SendUsersInv, ReceiveAccountInv, ReceiveUsersInv,
     SetBrokerAccountStatusInv, AnswerInv, WriteAccountInv, WriteUsersInv, LoadInv, RenameInv,
     ReloadInv, TimeoutInv, CutOffInv, JobFailsInv DEF Next
<1>4. CASE UNCHANGED vars
  <2>1. UNCHANGED <<acct, users, broker, files, auth, live, known, call, job, begun, told, mixed, raced, faults>>
    BY <1>4 DEF vars, registry, farEnd, history
  <2>2. Types' /\ Alone' /\ Quiet'
    BY <2>1 DEF WritersInv, Types, Alone, Quiet, Busy, At, About
  <2>3. \A i \in Calls : CallInv(i)' /\ AskedInv(i)' /\ PutInv(i)' /\ HashInv(i)' /\ DeleteInv(i)' /\ UsersInv(i)'
    BY <2>1 DEF WritersInv, CallInv, AskedInv, PutInv, HashInv, DeleteInv, UsersInv, Kept, Busy, At, JobAt, About
  <2>4. (\A a \in Accounts : AccountInv(a)') /\ (\A t \in Tenants : TenantInv(t)')
    BY <2>1 DEF WritersInv, AccountInv, ConfinedAt, TenantInv, SeenInv, JobAt
  <2> QED BY <2>2, <2>3, <2>4 DEF WritersInv
<1> QED BY <1>3, <1>4

-----------------------------------------------------------------------------
(* Theorems.                                                                 *)

\* WritersInv holds in every state: what each call found and did by the point
\* it is at, with rows and far ends, whoever else is at work and whatever fails.
THEOREM WritersInductive == Spec => []WritersInv
BY InitWriters, NextWriters, PTL DEF Spec

\* Rows, accounts, files, calls and invocations are well typed; a row asks for
\* something (CheckGrant) and no account is without a password.
THEOREM WritersTypeCorrect == Spec => []TypeOK
<1>1. ASSUME WritersInv PROVE TypeOK
  <2>1. Types /\ \A a \in Accounts : AccountInv(a)
    BY <1>1 DEF WritersInv
  <2>2. ASSUME NEW a \in Accounts
        PROVE  /\ \/ acct[a] = NoAccount
                  \/ /\ acct[a].status \in {"provisioning", "ready"} /\ acct[a].hash \in Secrets \ {0}
                     /\ acct[a].device \in IoTDevices \cup {None} /\ acct[a].pub \cup acct[a].sub # {}
               /\ broker[a] = Gone \/ broker[a].hash \in Secrets \ {0}
    <3>1. acct[a] \in Rows \cup {NoAccount} /\ broker[a] \in Grants
      BY <2>1 DEF Types
    <3> QED BY <2>1, <3>1 DEF Rows, Grants, AccountInv, ConfinedAt
  <2>3. ASSUME NEW i \in Calls
        PROVE  /\ call[i].pc \in {"idle", "row", "send", "wait", "ready", "drop", "answer"}
               /\ job[i].pc \in Finished \cup {"sql", "file", "load", "rename", "reload"}
               /\ job[i].seen \in [Tenants -> Secrets]
    <3>1. call[i] \in Records /\ job[i] \in Invocations
      BY <2>1 DEF Types
    <3> QED BY <3>1 DEF Records, Invocations, CallPoints, JobPoints
  <2> QED BY <2>1, <2>2, <2>3 DEF TypeOK, Types
<1> QED BY <1>1, WritersInductive, PTL

\* No account, at any time and whoever wrote it, reaches another tenant's
\* topics or a log that is not its own (CheckLogGrants, touchesLog).
THEOREM GrantsStayConfined == Spec => []GrantsConfined
<1>1. ASSUME WritersInv PROVE GrantsConfined
  BY <1>1, RulesAlwaysConfine DEF WritersInv, AccountInv, ConfinedAt, GrantsConfined
<1> QED BY <1>1, WritersInductive, PTL

\* The account writer never refuses what the API accepted but for one reason, a
\* pattern the prefix makes too long (Request.Validate).
THEOREM RefusalsAreOverlong == Spec => []RefusedOnlyOverlong
<1>1. ASSUME WritersInv PROVE RefusedOnlyOverlong
  BY <1>1 DEF WritersInv, AskedInv, RefusedOnlyOverlong
<1> QED BY <1>1, WritersInductive, PTL

\* The row of a broker account is written before the account and dropped after
\* it, through time-outs, lost answers and failures at any point, unless two
\* were at work on the account at once.
THEOREM AccountsHaveRows == Spec => []EveryAccountHasARow
<1>1. ASSUME WritersInv PROVE EveryAccountHasARow
  BY <1>1 DEF WritersInv, AccountInv, EveryAccountHasARow
<1> QED BY <1>1, WritersInductive, PTL

\* A password that was handed out stays the account's, in the registry and at
\* the broker, over every retry after every failure (chooseBrokerSecret).
THEOREM PasswordsStay == Spec => []GivenPasswordKept
<1>1. ASSUME WritersInv PROVE GivenPasswordKept
  BY <1>1 DEF WritersInv, AccountInv, GivenPasswordKept
<1> QED BY <1>1, WritersInductive, PTL

\* What a good answer said of an account or of a tenant's tokens holds until
\* the next call about it, whoever renders the log store's file and whatever
\* fails in between; except for a tenant whose file was written between another
\* invocation's read and its rename.
THEOREM WritersAnswersHold == Spec => []AnswerHolds
<1>1. ASSUME WritersInv PROVE AnswerHolds
  BY <1>1 DEF WritersInv, AccountInv, TenantInv, AnswerHolds
<1> QED BY <1>1, WritersInductive, PTL
=============================================================================
