---------------------------- MODULE BrokerGrants ----------------------------
(***************************************************************************)
(* What a broker account may ask for (internal/brokeracct/contract.go), as  *)
(* the API checks it and as the account writer checks it again, beside what *)
(* the broker makes of it.                                                  *)
(*                                                                          *)
(* A topic or a filter is the sequence of its levels.  Of a level's         *)
(* characters the rules tell apart how many they are and whether +, #, %    *)
(* or a leading $ is among them.  A list of patterns is a set.              *)
(***************************************************************************)
EXTENDS Naturals, Sequences, FiniteSets, SequencesExt

CONSTANTS
    Tenants, IoTDevices,    \* names, each of them a level
    Levels,                 \* levels a tenant may write in a pattern
    Chars,                  \* how many characters a level has
    PlusLevels, HashLevels, \* levels with a + or a # in them
    PercentLevels, DollarLevels,
    maxPattern, maxPatterns,
    None

LogLevel == "log"

ASSUME GrantsAssumption ==
    /\ Chars \in [Levels \cup Tenants \cup IoTDevices \cup {LogLevel} -> Nat]
    /\ "+" \in PlusLevels /\ "#" \in HashLevels
    /\ (Tenants \cup IoTDevices) \cap (PlusLevels \cup HashLevels \cup PercentLevels) = {}
    /\ maxPattern \in Nat /\ maxPatterns \in Nat

\* The length of a pattern, slashes included.
Size(p) == FoldSeq(LAMBDA l, n : n + Chars[l], Len(p) - 1, p)

Uses(p, levels) == \E i \in DOMAIN p : p[i] \in levels

\* + occupies a whole level, # the last one.
validWildcards(p) ==
    \A i \in DOMAIN p :
        /\ p[i] \in PlusLevels => p[i] = "+"
        /\ p[i] \in HashLevels => p[i] = "#" /\ i = Len(p)

\* For a mutant: the API leaves % to the writer.
PrefixPatternPercent(t, relative) ==
    /\ relative[1] # "" /\ Size(relative) <= maxPattern
    /\ relative[1] \notin DollarLevels
    /\ validWildcards(<<t>> \o relative)

\* PrefixPattern: whether a tenant may declare the pattern.
PrefixPattern(t, relative) ==
    /\ relative[1] # "" /\ Size(relative) <= maxPattern
    /\ relative[1] \notin DollarLevels /\ ~Uses(relative, PercentLevels)
    /\ validWildcards(<<t>> \o relative)

\* PrefixPatterns: the patterns as the writer is sent them.
Absolute(t, relatives) == {<<t>> \o r : r \in relatives}

PrefixPatterns(t, relatives) ==
    Cardinality(relatives) <= maxPatterns /\ \A r \in relatives : PrefixPattern(t, r)

\* For a mutant: an account may ask for nothing.
CheckNothing(pub, sub) == TRUE

CheckGrant(pub, sub) == pub # {} \/ sub # {}

\* For a mutant: a filter reaches the log level only if it spells it.
touchesLogSpelled(t, f) == Len(f) >= 2 /\ f[1] = t /\ f[2] = LogLevel

\* touchesLog: whether the filter and the tenant's log space could meet.
touchesLog(t, f) ==
    \/ f[1] = "#"
    \/ f[1] \in {"+", t} /\ Len(f) >= 2 /\ f[2] \in {"#", "+", LogLevel}

\* CheckLogGrants: a device publishes its own log and reads none; a workload,
\* which has no device, may read and publishes none.
CheckLogGrants(t, device, pub, sub) ==
    /\ \A p \in pub : touchesLog(t, p) => device # None /\ p = <<t, LogLevel, device>>
    /\ \A s \in sub : touchesLog(t, s) => device = None

\* An account's device, if it has one, is an IoT device of the tenant's.
checkBrokerDevice(device) == device = None \/ device \in IoTDevices

\* What CreateBrokerAccount asks of a request before it looks for the account.
Acceptable(t, ask) ==
    LET pub == Absolute(t, ask.pub) sub == Absolute(t, ask.sub)
    IN  /\ checkBrokerDevice(ask.device)
        /\ PrefixPatterns(t, ask.pub) /\ PrefixPatterns(t, ask.sub)
        /\ CheckGrant(pub, sub)
        /\ CheckLogGrants(t, ask.device, pub, sub)

\* The writer's own rules: validPatterns, under the tenant's prefix.
validPatterns(t, pats) ==
    /\ Cardinality(pats) <= maxPatterns
    /\ \A p \in pats : /\ Size(p) <= maxPattern
                       /\ Len(p) >= 2 /\ p[1] = t
                       /\ ~Uses(p, PercentLevels)
                       /\ validWildcards(p)

\* Request.Validate of a put.  Its checks of the version, of the names, which the
\* API's ValidName and ValidWorkloadName imply, and Decode's limit on the
\* request's bytes are left out.
Validate(t, hash, pub, sub) ==
    hash # 0 /\ CheckGrant(pub, sub) /\ validPatterns(t, pub) /\ validPatterns(t, sub)

-----------------------------------------------------------------------------
(* The broker: MQTT 3.1.1, section 4.7.                                      *)

Matches(f, topic) ==
    LET n == IF Last(f) = "#" THEN Len(f) - 1 ELSE Len(f)
    IN  /\ Len(topic) >= n /\ (Last(f) # "#" => Len(topic) = n)
        /\ \A i \in 1 .. n : f[i] \in {"+", topic[i]}

InLog(t, topic) == Len(topic) >= 2 /\ topic[1] = t /\ topic[2] = LogLevel

\* An account is confined to its tenant's topics; in the log space a device
\* writes its own topic, and only a workload reads.
Confined(t, device, pub, sub, topics) ==
    \A topic \in topics :
        /\ \A p \in pub : Matches(p, topic) =>
              /\ topic[1] = t
              /\ InLog(t, topic) => device # None /\ topic = <<t, LogLevel, device>>
        /\ \A s \in sub : Matches(s, topic) =>
              topic[1] = t /\ (InLog(t, topic) => device = None)
=============================================================================
