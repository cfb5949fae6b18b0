-------------------------- MODULE MCAccountWriters --------------------------
(* AccountWriters for TLC: two tenants, an account of one of them.           *)
EXTENDS AccountWriters

CONSTANTS scene

MCTenants == {"eds", "ops"}
MCDevices == {"lamp", "cam"}
MCAccounts == {scene}
MCTenantOf == [a \in MCAccounts |-> "eds"]

\* "long" is as long as a pattern may be.
MCPlain == {"log", "lamp", "x", ""}
MCLevels == MCPlain \cup {"+", "#", "a+", "#b", "%u", "$s", "long"}
MCMaxPattern == 12
MCChars == [l \in MCLevels \cup MCTenants \cup MCDevices \cup {"log"} |->
              CASE l = "" -> 0 [] l = "long" -> MCMaxPattern [] OTHER -> 2]

MCAsk(d, pub, sub) == [device |-> d, pub |-> pub, sub |-> sub]

MCAsks ==
    { MCAsk(None, {<<"x">>}, {<<"log", "#">>}),
      MCAsk("lamp", {<<"log", "lamp">>}, {<<"x", "+">>}),
      MCAsk("lamp", {<<"+", "lamp">>}, {}),
      MCAsk(None, {<<"long">>}, {}),
      MCAsk(None, {<<"%u">>}, {}),
      MCAsk(None, {}, {}) }

\* The two backends share nothing.
MCTogether == {{"put", "delete"}, {"putUsers", "removeUsers", "render"}}

MCFilters == UNION {[1 .. n -> MCLevels] : n \in 1 .. 3}
MCTopics ==
    {<<t>> \o s : t \in MCTenants \cup {"x"},
                  s \in {<<>>} \cup {<<l>> : l \in {"log", "x", ""}}
                         \cup {<<l, m>> : l \in {"log", "x", ""}, m \in {"lamp", "cam", "x"}}
                         \cup {<<l, m, "x">> : l \in {"log", "x"}, m \in {"lamp", "x"}}}
=============================================================================
