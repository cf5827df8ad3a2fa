----------------------------- MODULE Delegation -----------------------------
(***************************************************************************)
(* The pydantic-ai provider delegating to a sub-agent over A2A: the run's  *)
(* stream, fed by the agent's own events and by its tools' progress        *)
(* (make_run_stream in providers/pydantic-ai-agent/pydantic_ai_agent/      *)
(* main.py), the tool call (call_sub_agent in sub_agent_tool.py) and the   *)
(* address it resolves and keeps (resolve.py), against a roster on which   *)
(* providers come and go.                                                  *)
(*                                                                         *)
(* One sub-agent.  Runs of one conversation share the table of the         *)
(* sub-agent's threads; the model may call its tool several times at once, *)
(* and two runs of one conversation may overlap.  The agent's own events   *)
(* are left out of its stream: only their end matters here.                *)
(***************************************************************************)
EXTENDS Roster, Sequences

CONSTANTS
  Runs,         \* runs of this agent
  Threads,      \* the conversations they belong to
  Assignments,  \* which run may belong to which
  MaxCalls,     \* calls of the sub-agent's tool, numbered in the order they are made
  NoRun,        \* what a call not yet made belongs to
  MaxUpdates,   \* updates the sub-agent streams in one call
  Configs,      \* what its configuration says of the sub-agent
  Others        \* who lists another agent

ASSUME DelegationConstants ==
  /\ IsFiniteSet(Runs) /\ MaxCalls \in Nat
  /\ NoRun \notin Runs
  /\ Assignments \subseteq [Runs -> Threads]
  /\ MaxUpdates \in Nat
  /\ Configs \subseteq [url : BOOLEAN, said : Sayings]
  /\ \A c \in Configs : c.url => c.said \in Providers
  /\ Others \subseteq Providers

Calls     == 1 .. MaxCalls
NoThread  == 0
NoAddress == [provider |-> Unsaid, name |-> ""]
NoMessage == [path |-> NoAddress, contextId |-> NoThread]

\* The sub-agent, and another agent of the market.
SubAgent == "sub"
Rows     == [key : Providers, name : {SubAgent, "other"}]

VARIABLES
  threadOf,   \* run -> its conversation
  gen,        \* run -> its run_stream generator
  adapter,    \* run -> its drain_adapter task
  combined,   \* run -> the queue the generator reads
  yielded,    \* run -> how much progress the generator has yielded
  context,    \* conversation -> the sub-agent's contextId kept for it (sub_threads)
  config,     \* the sub-agent's url or provider, if it has one
  roster,     \* what souk lists
  address,    \* ResolvedAddress._address
  caller,     \* call -> the run it was made in
  at,         \* call -> where call_sub_agent is
  message,    \* call -> the address found for it, and its message while that is on its way
  dest,       \* call -> the agent its message reached
  sub,        \* call -> the sub-agent's thread souk serves it on
  before,     \* call -> the calls of its conversation that had been told their
              \* contextId when it began (history)
  updates,    \* call -> updates it has relayed
  minted      \* threads souk has started for the sub-agent

runVars  == <<threadOf, gen, adapter, combined, yielded>>
callVars == <<caller, at, message, dest, sub, before, updates>>
souk     == <<roster, minted>>
vars     == <<runVars, callVars, context, config, address, souk>>

Done == "_DONE"

\* What a run's queue holds: progress of a call, and the end.
Items == {"progress", Done}

CallsOf(r) == {k \in Calls : caller[k] = r}
Under(t)   == {k \in Calls : caller[k] # NoRun /\ threadOf[caller[k]] = t}

Init ==
  /\ threadOf \in Assignments
  /\ gen = [r \in Runs |-> "idle"]
  /\ adapter = [r \in Runs |-> "none"]
  /\ combined = [r \in Runs |-> <<>>]
  /\ yielded = [r \in Runs |-> 0]
  /\ context = [t \in Threads |-> NoThread]
  /\ config \in Configs
  /\ roster = [key : Others, name : {"other"}]
  /\ address = NoAddress
  /\ caller = [k \in Calls |-> NoRun]
  /\ at = [k \in Calls |-> "none"]
  /\ message = [k \in Calls |-> NoMessage]
  /\ dest = [k \in Calls |-> NotFound]
  /\ sub = [k \in Calls |-> NoThread]
  /\ before = [k \in Calls |-> {}]
  /\ updates = [k \in Calls |-> 0]
  /\ minted = 0

-----------------------------------------------------------------------------
(* run_stream.                                                             *)

\* Mutant: every run gets a table of its own.
NewTable(t) == context' = [context EXCEPT ![t] = NoThread]

\* The table of the conversation's sub-agents, made by its first run.
TableOf(t) == UNCHANGED context

\* The generator is entered: the conversation's table is looked up or made,
\* and drain_adapter starts.
StartRun(r) ==
  /\ gen[r] = "idle"
  /\ gen' = [gen EXCEPT ![r] = "streaming"]
  /\ adapter' = [adapter EXCEPT ![r] = "running"]
  /\ TableOf(threadOf[r])
  /\ UNCHANGED <<threadOf, combined, yielded, callVars, config, address, souk>>

\* The adapter's stream ends once its tools have returned; the finally of
\* drain_adapter queues the sentinel.
AdapterEnds(r) ==
  /\ adapter[r] = "running"
  /\ \A k \in CallsOf(r) : at[k] = "returned"
  /\ adapter' = [adapter EXCEPT ![r] = "ended"]
  /\ combined' = [combined EXCEPT ![r] = Append(@, Done)]
  /\ UNCHANGED <<threadOf, gen, yielded, callVars, context, config, address, souk>>

\* The calls of a run go down with the exception or the cancel that ended its
\* adapter; souk may yet take a message that is on its way, on a thread nobody
\* is told of.  That the other calls end when one raises is pydantic-ai's doing
\* (external) and assumed here: drain_adapter's finally queues the sentinel
\* whether or not a call is still at it.
Abort(r) ==
  /\ at' = [k \in Calls |-> IF caller[k] = r THEN "returned" ELSE at[k]]
  /\ message' = [k \in Calls |-> IF caller[k] = r THEN NoMessage ELSE message[k]]

\* Mutant: an agent that failed has nothing more to say.
SaysNothing(r) == UNCHANGED combined

\* drain_adapter's log and finally, when the agent's run failed.
QueuesDone(r) == combined' = [combined EXCEPT ![r] = Append(@, Done)]

\* The HTTP call, refused or broken, or the lookup raises out of the tool: the
\* agent's run fails with it, is logged, and the sentinel is queued all the same.
CallRaises(k) ==
  /\ at[k] \in {"resolving", "found", "posting", "calling", "refused"}
  /\ adapter' = [adapter EXCEPT ![caller[k]] = "ended"]
  /\ QueuesDone(caller[k])
  /\ Abort(caller[k])
  /\ UNCHANGED <<threadOf, gen, yielded, caller, dest, sub, before, updates, context, config, address, souk>>

\* Mutant: the stream is over when the adapter is.
AdapterIsOver(r) == adapter[r] = "ended"

\* The sentinel is what ends the generator's loop.
IsOver(r) == Head(combined[r]) = Done

\* The generator's loop: items are yielded until the sentinel.
Yield(r) ==
  /\ gen[r] = "streaming"
  /\ combined[r] # <<>>
  /\ combined' = [combined EXCEPT ![r] = Tail(@)]
  /\ IF IsOver(r)
     THEN gen' = [gen EXCEPT ![r] = "over"] /\ UNCHANGED yielded
     ELSE yielded' = [yielded EXCEPT ![r] = @ + 1] /\ UNCHANGED gen
  /\ UNCHANGED <<threadOf, adapter, callVars, context, config, address, souk>>

\* The run is cancelled: the generator's finally cancels drain_adapter, and
\* its queue goes with it.
CloseRun(r) ==
  /\ gen[r] = "streaming"
  /\ gen' = [gen EXCEPT ![r] = "closed"]
  /\ adapter' = [adapter EXCEPT ![r] = "ended"]
  /\ combined' = [combined EXCEPT ![r] = <<>>]
  /\ Abort(r)
  /\ UNCHANGED <<threadOf, yielded, caller, dest, sub, before, updates, context, config, address, souk>>

-----------------------------------------------------------------------------
(* call_sub_agent.                                                         *)

\* The calls of conversation t that have been told their contextId.
Known(t) == {k \in Under(t) : updates[k] > 0}

\* The agent a thread of the sub-agent's was started with.
OwnerOf(s) == {dest[k] : k \in {j \in Calls : sub[j] = s}}

\* rpc_by_pair: the agent a path leads to by now.
RpcByPair(path) == ResolveRef(roster, path.provider, path.name)

\* The message goes to an address, with the contextId kept for the conversation.
SendMessage(k, t, path) ==
  /\ at' = [at EXCEPT ![k] = "posting"]
  /\ message' = [message EXCEPT ![k] = [path |-> path, contextId |-> context[t]]]
  /\ before' = [before EXCEPT ![k] = Known(t)]

\* _address_from_url: a url written out names its agent, and is not looked up.
AddressFromUrl == [provider |-> config.said, name |-> SubAgent]

\* The model calls the tool.  An address kept, or configured as a url, needs
\* no lookup; any other is waited for.
CallTool(k, r) ==
  /\ adapter[r] = "running"
  /\ at[k] = "none" /\ \A j \in 1 .. k - 1 : at[j] # "none"
  /\ caller' = [caller EXCEPT ![k] = r]
  /\ address' = IF address = NoAddress /\ config.url THEN AddressFromUrl ELSE address
  /\ IF address' # NoAddress
     THEN SendMessage(k, threadOf[r], address')
     ELSE at' = [at EXCEPT ![k] = "resolving"] /\ UNCHANGED <<message, before>>
  /\ UNCHANGED <<runVars, dest, sub, updates, context, config, souk>>

\* The roster, asked, names exactly one agent.
Find(k) ==
  LET row == ResolveAddress(roster, SubAgent, config.said)
  IN  /\ at[k] = "resolving"
      /\ row \in Rows
      /\ at' = [at EXCEPT ![k] = "found"]
      /\ message' = [message EXCEPT ![k].path = Path(row)]
      /\ UNCHANGED <<runVars, caller, dest, sub, before, updates, context, config, address, souk>>

\* The answer is there: the address is kept, whatever another call has kept
\* meanwhile, and the message goes out.
Resolve(k) ==
  /\ at[k] = "found"
  /\ address' = message[k].path
  /\ SendMessage(k, threadOf[caller[k]], message[k].path)
  /\ UNCHANGED <<runVars, caller, dest, sub, updates, context, config, souk>>

\* Souk takes a message if its path leads to an agent by now, and the thread is
\* that agent's; without a thread it starts one for the call.
TakeMessage(k) ==
  LET known   == message[k].contextId # NoThread
      reached == RpcByPair(message[k].path)
      taken   == reached # NotFound /\ (known => OwnerOf(message[k].contextId) = {reached})
  IN  /\ at[k] = "posting"
      /\ at' = [at EXCEPT ![k] = IF taken THEN "calling" ELSE "refused"]
      /\ message' = [message EXCEPT ![k] = NoMessage]
      /\ dest' = [dest EXCEPT ![k] = IF taken THEN reached ELSE NotFound]
      /\ sub' = [sub EXCEPT ![k] = IF ~ taken THEN NoThread
                                   ELSE IF known THEN message[k].contextId ELSE minted + 1]
      /\ minted' = IF taken /\ ~ known THEN minted + 1 ELSE minted
      /\ UNCHANGED <<runVars, caller, before, updates, context, config, address, roster>>

\* It names none, or several: said to the model, and not remembered.
Unresolvable(k) ==
  /\ at[k] = "resolving"
  /\ ResolveAddress(roster, SubAgent, config.said) \in {NotFound, Ambiguous}
  /\ at' = [at EXCEPT ![k] = "returned"]
  /\ UNCHANGED <<runVars, caller, message, dest, sub, before, updates, context, config, address, souk>>

\* Mutant: the contextId is kept per sub-agent, whatever the conversation.
KeepForAll(t, s) == context' = [u \in Threads |-> s]

\* An update's contextId is kept for the conversation.
Keep(t, s) == context' = [context EXCEPT ![t] = s]

\* One streamed update: relayed as progress, and its contextId kept.
Update(k) ==
  /\ at[k] = "calling"
  /\ updates[k] < MaxUpdates
  /\ updates' = [updates EXCEPT ![k] = @ + 1]
  /\ combined' = [combined EXCEPT ![caller[k]] = Append(@, "progress")]
  /\ Keep(threadOf[caller[k]], sub[k])
  /\ UNCHANGED <<threadOf, gen, adapter, yielded, caller, at, message, dest, sub, before, config, address, souk>>

\* The sub-agent's stream ends, with or without an answer in it.
EndCall(k) ==
  /\ at[k] = "calling"
  /\ at' = [at EXCEPT ![k] = "returned"]
  /\ UNCHANGED <<runVars, caller, message, dest, sub, before, updates, context, config, address, souk>>

-----------------------------------------------------------------------------
(* The market.                                                             *)

\* A provider registers an agent of that name, or one vanishes: deleted, or
\* lost with a restored database.
Registered(p) ==
  LET row == [key |-> p, name |-> SubAgent]
  IN  /\ row \notin roster /\ MayList(roster, row)
      /\ roster' = roster \cup {row}
      /\ UNCHANGED <<runVars, callVars, context, config, address, minted>>

Deleted(p) ==
  LET row == [key |-> p, name |-> SubAgent]
  IN  /\ row \in roster
      /\ roster' = roster \ {row}
      /\ UNCHANGED <<runVars, callVars, context, config, address, minted>>

-----------------------------------------------------------------------------
Next ==
  \/ \E r \in Runs : StartRun(r) \/ AdapterEnds(r) \/ Yield(r) \/ CloseRun(r)
  \/ \E k \in Calls, r \in Runs : CallTool(k, r)
  \/ \E k \in Calls :
       \/ Find(k) \/ Unresolvable(k) \/ Resolve(k) \/ TakeMessage(k)
       \/ Update(k) \/ EndCall(k) \/ CallRaises(k)
  \/ \E p \in Providers : Registered(p) \/ Deleted(p)

Spec == Init /\ [][Next]_vars

\* Calls end (the HTTP timeout sees to it), refused ones raise, lookups are
\* answered, the agent comes to an end and the runtime reads the stream.
Fairness ==
  /\ \A r \in Runs : WF_vars(AdapterEnds(r)) /\ WF_vars(Yield(r))
  /\ \A k \in Calls :
       WF_vars(\/ Find(k) \/ Unresolvable(k) \/ Resolve(k) \/ TakeMessage(k) \/ EndCall(k)
               \/ (at[k] = "refused" /\ CallRaises(k)))

FairSpec == Spec /\ Fairness

-----------------------------------------------------------------------------
SubThreads == 0 .. MaxCalls
Addresses  == {Path(row) : row \in Rows} \cup [provider : Providers, name : {SubAgent}] \cup {NoAddress}

\* The type invariant.
TypeOK ==
  /\ threadOf \in [Runs -> Threads]
  /\ gen \in [Runs -> {"idle", "streaming", "over", "closed"}]
  /\ adapter \in [Runs -> {"none", "running", "ended"}]
  /\ combined \in [Runs -> Seq(Items)]
  /\ yielded \in [Runs -> 0 .. MaxUpdates * MaxCalls]
  /\ context \in [Threads -> SubThreads]
  /\ config \in Configs
  /\ roster \subseteq Rows
  /\ address \in Addresses
  /\ caller \in [Calls -> Runs \cup {NoRun}]
  /\ at \in [Calls -> {"none", "resolving", "found", "posting", "calling", "refused", "returned"}]
  /\ message \in [Calls -> [path : Addresses, contextId : SubThreads]]
  /\ dest \in [Calls -> Rows \cup {NotFound}]
  /\ sub \in [Calls -> SubThreads]
  /\ before \in [Calls -> SUBSET Calls]
  /\ updates \in [Calls -> 0 .. MaxUpdates]
  /\ minted \in SubThreads

\* The updates relayed in a run: which call's, and the how-manieth.
Sent(r) == {u \in Calls \X (1 .. MaxUpdates) : caller[u[1]] = r /\ u[2] <= updates[u[1]]}

\* A sub-agent's progress reaches whoever watches the run: a stream that came
\* to its end has yielded every update its tools relayed.
ProgressIsSeen ==
  \A r \in Runs : gen[r] = "over" => yielded[r] = Cardinality(Sent(r))

\* A follow-up never meets a stranger: once any call of a conversation has
\* been told its contextId, a later one that is taken, of whatever run, is on
\* a thread the sub-agent has already been spoken to on.
FollowsUp ==
  \A k \in Calls : before[k] # {} /\ sub[k] # NoThread => \E j \in before[k] : sub[j] = sub[k]

\* Conversations are kept apart: no two of them share a thread of the sub-agent.
ConversationsApart ==
  \A s, t \in Threads : s # t =>
    \A j \in Under(s), k \in Under(t) : sub[j] = sub[k] => sub[j] = NoThread

\* A configured provider is the one spoken to, whoever else has come to offer
\* the name, so no contextId of its is carried to another.
ResolvedToTheMeant ==
  \A k \in Calls : dest[k] # NotFound /\ config.said # Unsaid =>
    Means(config.said, dest[k]) /\ dest[k].name = SubAgent

\* Every stream ends, also when the agent behind it fails.
StreamEnds == \A r \in Runs : gen[r] = "streaming" ~> gen[r] # "streaming"

-----------------------------------------------------------------------------
(* What the repository says of delegation and the code does not do.        *)

\* One conversation with this agent is one conversation with its sub-agent.
OneSubConversation ==
  \A t \in Threads : Cardinality({sub[k] : k \in Under(t)} \ {NoThread}) <= 1

\* A sub-agent's address is resolved at most once: it does not change.
AddressIsKept == [][address # NoAddress => address' = address]_vars

=============================================================================
