------------------------------- MODULE Roster -------------------------------
(***************************************************************************)
(* Turning the name of an agent into the one agent it addresses.  Two      *)
(* providers may list the same name, so an agent is a pair of a provider's *)
(* key and a name; a provider may be said by its key or by the fingerprint *)
(* that stands for it in a path.  The sub-agent tool (resolve.py), the     *)
(* client SDK (client.py), the docent (mcp_docent.py), the provider's own  *)
(* tools (souk_tools.py) and the gateway's routes (deps.py) each look the  *)
(* roster up with code of their own.                                       *)
(*                                                                         *)
(* A roster is a set of rows [key, name].                                  *)
(***************************************************************************)
EXTENDS Naturals, FiniteSets

CONSTANTS
  Providers,     \* the keys of providers
  Fingerprint,   \* key -> its fingerprint
  Unsaid         \* no provider was given

ASSUME RosterConstants ==
  /\ IsFiniteSet(Providers)
  /\ DOMAIN Fingerprint = Providers
  /\ Unsaid \notin Providers \cup {Fingerprint[p] : p \in Providers}

\* Every way of saying which provider is meant.
Sayings == {Unsaid} \cup Providers \cup {Fingerprint[p] : p \in Providers}

\* What a lookup ends in when it is not an agent.
NotFound  == [key |-> Unsaid, name |-> "not found"]
Ambiguous == [key |-> Unsaid, name |-> "ambiguous"]

\* A provider is said by its key or by its fingerprint.
Means(said, row) == said \in {row.key, Fingerprint[row.key]}

\* The first that fits, and the only one that fits.
AnyOf(found)  == IF found = {} THEN NotFound ELSE CHOOSE row \in found : TRUE
OnlyOf(found) == IF Cardinality(found) > 1 THEN Ambiguous ELSE AnyOf(found)

-----------------------------------------------------------------------------
\* Mutant: the provider said is not looked at.
SameName(roster, name, said) == {row \in roster : row.name = name}

\* The rows a name and a provider, if one is said, may stand for.
Candidates(roster, name, said) ==
  {row \in roster : row.name = name /\ (said = Unsaid \/ Means(said, row))}

\* resolve_address of the sub-agent tool.
ResolveAddress(roster, name, said) == OnlyOf(Candidates(roster, name, said))

\* Mutant: the first of several will do.
ClientTakesFirst(roster, name, said) == AnyOf(Candidates(roster, name, said))

\* SoukClient.resolve: its rows carry the fingerprint and the key.
ClientResolve(roster, name, said) ==
  OnlyOf({row \in roster : row.name = name /\ said \in {Unsaid, Fingerprint[row.key], row.key}})

\* get_agent_card of the provider's own tools, which then reads the card at
\* the path of the one it found.
CardOf(roster, name, said) ==
  OnlyOf({row \in roster : row.name = name /\ said \in {Unsaid, row.key, Fingerprint[row.key]}})

\* The docent's describe_agent: with a provider said it answers with the
\* first that fits, without one it refuses to choose.
DescribeAgentTool(roster, name, said) ==
  IF said # Unsaid THEN AnyOf({row \in roster : row.name = name /\ Means(said, row)})
                   ELSE OnlyOf({row \in roster : row.name = name})

\* The docent's souk://agent/{provider}/{name}.
AgentResource(roster, said, name) == AnyOf({row \in roster : row.name = name /\ Means(said, row)})

\* resolve_ref: the pair of a path, or AgentNotFound.
ResolveRef(roster, said, name) == AnyOf({row \in roster : row.name = name /\ Means(said, row)})

\* The path an address is written into and read back from: the agent's
\* fingerprint and name.
Path(row) == [provider |-> Fingerprint[row.key], name |-> row.name]

\* Core keeps fingerprints apart (ProviderFingerprintTaken).
MayList(roster, row) ==
  \A other \in roster : other.key # row.key => Fingerprint[other.key] # Fingerprint[row.key]

-----------------------------------------------------------------------------
\* Nobody picks a winner: a name and a provider come to the same agent, or to
\* the same refusal, in the sub-agent tool, the client SDK, the provider's
\* tools and at the docent, and the path they lead to is that agent's.
Agree(rows, names) ==
  \A name \in names, said \in Sayings :
    LET row == ResolveAddress(rows, name, said)
    IN  /\ ClientResolve(rows, name, said) = row
        /\ CardOf(rows, name, said) = row
        /\ DescribeAgentTool(rows, name, said) = row
        /\ said # Unsaid => AgentResource(rows, said, name) = row
        /\ row \in rows => ResolveRef(rows, Path(row).provider, Path(row).name) = row

=============================================================================
