------------------------------- MODULE Market -------------------------------
(***************************************************************************)
(* What the market looks like to those who look around in it: the docent's *)
(* tools and resources (mcp_docent.py), the tools a provider's own agent   *)
(* has (souk_tools.py) and the roster route (api_registry.py).  All of     *)
(* them are functions of what souk lists at that moment: the rows of the   *)
(* roster, and which of them somebody serves (online).  What an agent says *)
(* about itself is a sequence of words.                                    *)
(***************************************************************************)
EXTENDS Roster, SequencesExt

CONSTANTS
  Label,      \* key -> its storefront name, self-chosen, not unique
  Says,       \* name -> the words of its name, description and skills
  WordLength  \* word -> its length

\* describe_agent: one agent, its keeper and the directions to it.
Describe(row, online) ==
  [agent |-> row, online |-> row \in online, keeper |-> row.key, endpoint |-> Path(row)]

\* describe_stall: one provider and everything it offers.
DescribeStall(key, rows, online) ==
  [ provider_key    |-> key,
    storefront_name |-> Label[key],
    agent_count     |-> Cardinality(rows),
    online_count    |-> Cardinality(rows \cap online),
    agents          |-> {Describe(row, online) : row \in rows} ]

\* Mutant: stalls are told apart by the name over the door.
SameStorefront(row, other) == Label[row.key] = Label[other.key]

\* Two agents are kept at one stall if one key keeps them.
SameStall(row, other) == row.key = other.key

\* describe_market: the agents grouped by stall, each under the key of the
\* first agent the grouping met.
DescribeMarket(rows, online) ==
  LET stalls == {{other \in rows : SameStall(row, other)} : row \in rows}
  IN  [ agent_count    |-> Cardinality(rows),
        online_count   |-> Cardinality(rows \cap online),
        provider_count |-> Cardinality(stalls),
        providers      |-> {DescribeStall(AnyOf(stall).key, stall, online) : stall \in stalls} ]

\* browse_souk, and the resource souk://providers, which shows everyone.
BrowseSouk(rows, online, onlyOnline) ==
  DescribeMarket(IF onlyOnline THEN rows \cap online ELSE rows, online)

\* The docent's describe_stall, by the provider's key; empty if not found.
DescribeStallTool(rows, online, key) ==
  LET members == {row \in rows : row.key = key}
  IN  IF members = {} THEN {} ELSE {DescribeStall(key, members, online)}

\* The resource souk://agents.
RosterResource(rows, online) ==
  [ agent_count  |-> Cardinality(rows),
    online_count |-> Cardinality(rows \cap online),
    agents       |-> {Describe(row, online) : row \in rows} ]

\* _matches: the whole phrase, or a word of it that is not too short.
Matches(row, needle) ==
  LET text == Says[row.name]
  IN  \/ \E i \in 0 .. Len(text) - Len(needle) : SubSeq(text, i + 1, i + Len(needle)) = needle
      \/ \E w \in ToSet(needle) : WordLength[w] >= 3 /\ w \in ToSet(text)

\* search_agents: without a query, everyone.
SearchAgents(rows, needle) ==
  IF needle = <<>> THEN rows ELSE {row \in rows : Matches(row, needle)}

\* One roster row on the wire (AgentRosterEntry).
RosterEntry(row, online) ==
  [provider_key |-> row.key, fingerprint |-> Fingerprint[row.key], name |-> row.name, online |-> row \in online]

\* GET /agents, which the provider's own tools and the client SDK read.
ListAgents(rows, online) == {RosterEntry(row, online) : row \in rows}

\* list_souk_agents of the provider's own tools: a line each.
ListSoukAgents(agents, includeOffline) ==
  {[name |-> a.name, provider |-> a.fingerprint, online |-> a.online] :
     a \in {b \in agents : includeOffline \/ b.online}}

\* get_souk_stats.
SoukStats(agents) ==
  LET total  == Cardinality(agents)
      online == Cardinality({a \in agents : a.online})
  IN  [total |-> total, online |-> online, offline |-> total - online]

-----------------------------------------------------------------------------
(* What makes a description of the market right; a module with a roster    *)
(* that changes states it of that roster.                                  *)

\* The views are of one market: every agent stands at exactly one stall, its
\* keeper's, and the directions given there lead to it; asking for the stall
\* shows the same; the counts of the docent, of the provider's tools and of
\* the list of those online add up; and an agent is found by every sentence
\* with a word of its own in it that is not too short.
AddsUp(rows, online) ==
  LET market == BrowseSouk(rows, online, FALSE)
      open   == BrowseSouk(rows, online, TRUE)
      agents == ListAgents(rows, online)
      stats  == SoukStats(agents)
      named  == [all \in BOOLEAN |-> Cardinality(ListSoukAgents(agents, all))]
  IN  /\ \A row \in rows :
           {stall.provider_key : stall \in {s \in market.providers : \E a \in s.agents : a.agent = row}}
             = {row.key}
      /\ \A stall \in market.providers :
           /\ DescribeStallTool(rows, online, stall.provider_key) = {stall}
           /\ \A a \in stall.agents : ResolveRef(rows, a.endpoint.provider, a.endpoint.name) = a.agent
      /\ UNION {stall.agents : stall \in market.providers} = RosterResource(rows, online).agents
      /\ stats.total = named[TRUE] /\ stats.total = market.agent_count
      /\ stats.online = named[FALSE] /\ stats.online = open.agent_count
      /\ stats.offline = market.agent_count - open.online_count
      /\ SearchAgents(rows, <<>>) = rows
      /\ \A row \in rows : \A own \in ToSet(Says[row.name]), other \in DOMAIN WordLength :
           WordLength[own] >= 3 => row \in SearchAgents(rows, <<other, own>>)

=============================================================================
