--------------------------- MODULE DelegationProofs ---------------------------
(***************************************************************************)
(* Delegation for every number of runs, conversations, calls and updates:  *)
(* a stream that came to its end has yielded what its tools relayed,       *)
(* threads of the sub-agent belong to one conversation each, a follow-up   *)
(* meets one it already spoke on, and the agent spoken to is the one that  *)
(* was configured.                                                         *)
(***************************************************************************)
EXTENDS Delegation, FiniteSetTheorems, SequenceTheorems, TLAPS

\* Where a call may be.
Places == {"none", "resolving", "found", "posting", "calling", "refused", "returned"}

\* The types of TypeOK, without the two bounds that take counting.
Typed ==
  /\ threadOf \in [Runs -> Threads]
  /\ gen \in [Runs -> {"idle", "streaming", "over", "closed"}]
  /\ adapter \in [Runs -> {"none", "running", "ended"}]
  /\ combined \in [Runs -> Seq(Items)]
  /\ yielded \in [Runs -> Nat]
  /\ context \in [Threads -> Nat]
  /\ config \in Configs
  /\ roster \subseteq Rows
  /\ address \in Addresses
  /\ caller \in [Calls -> Runs \cup {NoRun}]
  /\ at \in [Calls -> Places]
  /\ message \in [Calls -> [path : Addresses, contextId : Nat]]
  /\ dest \in [Calls -> Rows \cup {NotFound}]
  /\ sub \in [Calls -> Nat]
  /\ before \in [Calls -> SUBSET Calls]
  /\ updates \in [Calls -> 0 .. MaxUpdates]
  /\ minted \in Nat

\* A call belongs to a run once it is made, and has neither a thread nor
\* updates until its message is taken; only a message carries a contextId,
\* and what was found is an address.
CallsInStep ==
  \A k \in Calls :
    /\ at[k] = "none" <=> caller[k] = NoRun
    /\ at[k] \in {"none", "resolving", "found", "posting", "refused"} => sub[k] = NoThread
    /\ at[k] # "posting" => message[k].contextId = NoThread
    /\ at[k] = "found" => message[k].path # NoAddress
    /\ at[k] = "calling" => sub[k] # NoThread
    /\ updates[k] > 0 => sub[k] # NoThread

\* The adapter runs inside its generator, and a call inside its adapter.
RunsInStep ==
  /\ \A r \in Runs :
       /\ adapter[r] = "none" <=> gen[r] = "idle"
       /\ adapter[r] = "running" => gen[r] = "streaming"
  /\ \A k \in Calls : caller[k] # NoRun /\ adapter[caller[k]] # "running" => at[k] = "returned"

\* What a run's queue holds: progress, and behind it the sentinel once its
\* adapter has ended.
SentinelIsLast(r) ==
  /\ \A i \in DOMAIN combined[r] : combined[r][i] = Done <=> adapter[r] = "ended" /\ i = Len(combined[r])
  /\ gen[r] = "streaming" /\ adapter[r] = "ended" => combined[r] # <<>>
  /\ gen[r] # "streaming" => combined[r] = <<>>

\* The progress in a run's queue.
Queued(r) == IF combined[r] # <<>> /\ adapter[r] = "ended" THEN Len(combined[r]) - 1 ELSE Len(combined[r])

\* Nothing relayed is lost between a tool and the stream, unless it is closed.
ProgressAddsUp(r) ==
  /\ gen[r] # "closed" => yielded[r] + Queued(r) = Cardinality(Sent(r))
  /\ yielded[r] <= Cardinality(Sent(r))

\* Threads are numbered as they are started, each by a call.
ThreadsNumbered ==
  /\ \A k \in Calls : sub[k] <= minted
  /\ \A s \in 1 .. minted : \E k \in Calls : sub[k] = s

\* What a conversation keeps is what a call of it has been told.
KeptIsKnown ==
  \A t \in Threads :
    /\ context[t] # NoThread => \E k \in Known(t) : sub[k] = context[t]
    /\ Known(t) # {} => context[t] # NoThread

\* The contextId a message carries is one its conversation had been told when
\* it went out, and it carries one if there was any.
SentIsKnown ==
  \A k \in Calls : at[k] = "posting" =>
    /\ message[k].contextId # NoThread => \E j \in before[k] : sub[j] = message[k].contextId
    /\ before[k] # {} => message[k].contextId # NoThread
    /\ \A j \in before[k] : caller[j] # NoRun /\ threadOf[caller[j]] = threadOf[caller[k]]

\* An address leads to the sub-agent, and to nobody but the provider that was
\* configured.
Leads(path) ==
  /\ path.name = SubAgent
  /\ config.said # Unsaid => \A row \in Rows : Means(path.provider, row) => Means(config.said, row)

\* So do the one that is kept, and those found and sent to.
LeadsToTheMeant ==
  /\ address # NoAddress => Leads(address)
  /\ \A k \in Calls : at[k] \in {"found", "posting"} => Leads(message[k].path)

\* The progress of a run, from its tools to whoever watches it.
StreamInv ==
  Typed /\ CallsInStep /\ RunsInStep /\ \A r \in Runs : SentinelIsLast(r) /\ ProgressAddsUp(r)

\* The threads of the sub-agent, and where they are known.
ThreadInv ==
  Typed /\ CallsInStep /\ ThreadsNumbered /\ KeptIsKnown /\ SentIsKnown /\ FollowsUp /\ ConversationsApart

\* A url written out is not looked up.
UrlIsTaken == config.url => \A k \in Calls : at[k] \notin {"resolving", "found"}

\* The agent that calls are made to.
MeantInv == Typed /\ CallsInStep /\ LeadsToTheMeant /\ UrlIsTaken /\ ResolvedToTheMeant

\* Nobody else answers to the fingerprint of a provider configured by its key.
KeysAreTheirOwn ==
  \A c \in Configs : ~ c.url /\ c.said \in Providers =>
    \A key \in Providers : Fingerprint[c.said] \in {key, Fingerprint[key]} => key = c.said

\* What a lookup of the roster leads to.
LEMMA LookupFacts ==
  ASSUME Typed
  PROVE  /\ NotFound \notin Rows /\ Ambiguous \notin Rows
         /\ \A path : \/ RpcByPair(path) = NotFound
                      \/ /\ RpcByPair(path) \in roster /\ RpcByPair(path) \in Rows
                         /\ RpcByPair(path).name = path.name /\ Means(path.provider, RpcByPair(path))
         /\ LET row == ResolveAddress(roster, SubAgent, config.said)
            IN  row \in Rows =>
                  row \in roster /\ row.name = SubAgent /\ (config.said # Unsaid => Means(config.said, row))
<1>1. NotFound \notin Rows /\ Ambiguous \notin Rows
  BY RosterConstants DEF RosterConstants, NotFound, Ambiguous, Rows
<1>2. ASSUME NEW path, RpcByPair(path) # NotFound
      PROVE  /\ RpcByPair(path) \in roster /\ RpcByPair(path) \in Rows
             /\ RpcByPair(path).name = path.name /\ Means(path.provider, RpcByPair(path))
  <2> DEFINE found == {row \in roster : row.name = path.name /\ Means(path.provider, row)}
  <2>1. RpcByPair(path) = IF found = {} THEN NotFound ELSE CHOOSE row \in found : TRUE
    BY DEF RpcByPair, ResolveRef, AnyOf
  <2>2. RpcByPair(path) \in found
    BY <1>2, <2>1
  <2> QED
    BY <2>2 DEF Typed
<1>3. ASSUME ResolveAddress(roster, SubAgent, config.said) \in Rows
      PROVE  LET row == ResolveAddress(roster, SubAgent, config.said)
             IN  row \in roster /\ row.name = SubAgent /\ (config.said # Unsaid => Means(config.said, row))
  <2> DEFINE found == Candidates(roster, SubAgent, config.said)
             row   == ResolveAddress(roster, SubAgent, config.said)
  <2>1. row = Ambiguous \/ row = NotFound \/ (found # {} /\ row = CHOOSE other \in found : TRUE)
    BY DEF ResolveAddress, OnlyOf, AnyOf
  <2>2. row \in found
    BY <1>1, <1>3, <2>1
  <2> QED
    BY <2>2 DEF Candidates
<1> QED
  BY <1>1, <1>2, <1>3

\* Souk has a message, and takes or refuses it.
Taken(k) ==
  /\ at' = [at EXCEPT ![k] = "calling"]
  /\ \E row \in roster :
       /\ row.name = message[k].path.name /\ Means(message[k].path.provider, row)
       /\ dest' = [dest EXCEPT ![k] = row]
  /\ \/ /\ message[k].contextId # NoThread
        /\ sub' = [sub EXCEPT ![k] = message[k].contextId] /\ minted' = minted
     \/ /\ message[k].contextId = NoThread
        /\ sub' = [sub EXCEPT ![k] = minted + 1] /\ minted' = minted + 1

Refused(k) ==
  /\ at' = [at EXCEPT ![k] = "refused"]
  /\ dest' = [dest EXCEPT ![k] = NotFound]
  /\ sub' = [sub EXCEPT ![k] = NoThread] /\ minted' = minted

\* What souk makes of a message, by whether it takes it.
LEMMA TakeFacts ==
  ASSUME Typed, NEW k \in Calls, TakeMessage(k)
  PROVE  Taken(k) \/ Refused(k)
<1> DEFINE known   == message[k].contextId # NoThread
           reached == RpcByPair(message[k].path)
           taken   == reached # NotFound /\ (known => OwnerOf(message[k].contextId) = {reached})
<1>1. CASE taken
  <2>1. /\ at' = [at EXCEPT ![k] = "calling"] /\ dest' = [dest EXCEPT ![k] = reached]
        /\ sub' = [sub EXCEPT ![k] = IF known THEN message[k].contextId ELSE minted + 1]
        /\ minted' = IF ~ known THEN minted + 1 ELSE minted
    BY <1>1 DEF TakeMessage
  <2>2. /\ reached \in roster /\ reached.name = message[k].path.name
        /\ Means(message[k].path.provider, reached)
    BY <1>1, LookupFacts
  <2>3. \/ known /\ sub' = [sub EXCEPT ![k] = message[k].contextId] /\ minted' = minted
        \/ ~ known /\ sub' = [sub EXCEPT ![k] = minted + 1] /\ minted' = minted + 1
    BY <2>1
  <2> QED
    BY <2>1, <2>2, <2>3 DEF Taken
<1>2. CASE ~ taken
  BY <1>2 DEF TakeMessage, Refused
<1> QED
  BY <1>1, <1>2

\* A call's message goes out.
Sends(k, r) ==
  /\ r \in Runs
  /\ caller' = [caller EXCEPT ![k] = r]
  /\ at[k] \in {"none", "found"}
  /\ at[k] = "none" => adapter[r] = "running"
  /\ address' # NoAddress
  /\ at[k] = "found" => caller[k] = r
  /\ at' = [at EXCEPT ![k] = "posting"]
  /\ message' = [message EXCEPT ![k] = [path |-> address', contextId |-> context[threadOf[r]]]]
  /\ before' = [before EXCEPT ![k] = Known(threadOf[r])]
  /\ UNCHANGED <<runVars, dest, sub, updates, context, config, souk>>

\* A call waits for its lookup.
Waits(k, r) ==
  /\ r \in Runs
  /\ caller' = [caller EXCEPT ![k] = r]
  /\ at[k] = "none" /\ adapter[r] = "running" /\ ~ config.url
  /\ at' = [at EXCEPT ![k] = "resolving"]
  /\ UNCHANGED <<message, dest, sub, before, updates, runVars, context, config, address, souk>>

\* A call made, or resolved, sends its message or waits.
LEMMA CallFacts ==
  ASSUME Typed, CallsInStep, NEW k \in Calls
  PROVE  /\ \A r \in Runs : CallTool(k, r) => Sends(k, r) \/ Waits(k, r)
         /\ Resolve(k) => caller[k] \in Runs /\ Sends(k, caller[k])
<1>1. ASSUME NEW r \in Runs, CallTool(k, r)
      PROVE  Sends(k, r) \/ Waits(k, r)
  <2>1. /\ adapter[r] = "running" /\ at[k] = "none"
        /\ caller' = [caller EXCEPT ![k] = r]
        /\ UNCHANGED <<runVars, dest, sub, updates, context, config, souk>>
    BY <1>1 DEF CallTool
  <2>2. CASE address' # NoAddress
    <3>1. PICK path : path = address'
      OBVIOUS
    <3>2. SendMessage(k, threadOf[r], path)
      BY <1>1, <2>2, <3>1 DEF CallTool, SendMessage
    <3> QED
      BY <2>1, <2>2, <3>1, <3>2 DEF Sends, SendMessage
  <2>3. CASE address' = NoAddress
    <3>1. address = NoAddress
      BY <1>1, <2>3 DEF CallTool
    <3>2. AddressFromUrl # NoAddress
      BY DEF AddressFromUrl, NoAddress, SubAgent
    <3>3. address' = address /\ at' = [at EXCEPT ![k] = "resolving"] /\ UNCHANGED <<message, before>>
      BY <1>1, <2>3, <3>1 DEF CallTool
    <3>4. ~ config.url
      BY <1>1, <2>3, <3>1, <3>2 DEF CallTool
    <3> QED
      BY <2>1, <3>3, <3>4 DEF Waits
  <2> QED
    BY <2>2, <2>3
<1>2. ASSUME Resolve(k)
      PROVE  caller[k] \in Runs /\ Sends(k, caller[k])
  <2>1. at[k] = "found" /\ address' = message[k].path /\ SendMessage(k, threadOf[caller[k]], message[k].path)
    BY <1>2 DEF Resolve
  <2>2. caller[k] \in Runs /\ message[k].path # NoAddress
    BY <2>1 DEF CallsInStep, Typed
  <2>3. caller' = [caller EXCEPT ![k] = caller[k]]
    BY <1>2 DEF Resolve, Typed
  <2>4. UNCHANGED <<runVars, dest, sub, updates, context, config, souk>>
    BY <1>2 DEF Resolve
  <2> QED
    BY <1>2, <2>1, <2>2, <2>3, <2>4 DEF Sends, SendMessage
<1> QED
  BY <1>1, <1>2

\* How the address kept comes about: from the url, or from what was found.
LEMMA AddressFacts ==
  ASSUME Typed, [Next]_vars
  PROVE  /\ config' = config
         /\ \/ address' = address
            \/ config.url /\ config.said \in Providers /\ address' = AddressFromUrl
            \/ \E k \in Calls : Resolve(k) /\ address' = message[k].path
<1>1. ASSUME NEW k \in Calls, NEW r \in Runs, CallTool(k, r)
      PROVE  config' = config /\ (address' = address \/
               (config.url /\ config.said \in Providers /\ address' = AddressFromUrl))
  BY <1>1, DelegationConstants DEF DelegationConstants, CallTool, Typed
<1>2. ASSUME NEW k \in Calls, Resolve(k)
      PROVE  config' = config /\ address' = message[k].path
  BY <1>2 DEF Resolve
<1>3. CASE config' = config /\ address' = address
  BY <1>3
<1> QED
  BY <1>1, <1>2, <1>3 DEF Next, vars, StartRun, AdapterEnds, Yield, CloseRun, Find, TakeMessage, Unresolvable, Update, EndCall,
       CallRaises, Registered, Deleted

\* Everything starts with its type.
LEMMA TypedInit == Init => Typed
<1> SUFFICES ASSUME Init PROVE Typed
  OBVIOUS
<1>1. combined \in [Runs -> Seq(Items)]
  BY DEF Init
<1>2. threadOf \in [Runs -> Threads] /\ config \in Configs /\ roster \subseteq Rows
  BY DelegationConstants DEF DelegationConstants, Init, Rows
<1>3. /\ dest \in [Calls -> Rows \cup {NotFound}] /\ before \in [Calls -> SUBSET Calls]
      /\ updates \in [Calls -> 0 .. MaxUpdates]
      /\ message \in [Calls -> [path : Addresses, contextId : Nat]]
  BY DelegationConstants DEF DelegationConstants, Init, NoMessage, NoThread, Addresses
<1> QED
  BY <1>1, <1>2, <1>3 DEF Init, Typed, NoThread, Places, Addresses

\* The queue of a run stays a queue of items.
LEMMA QueueType ==
  ASSUME Typed, NEW r \in Runs
  PROVE  /\ \A x \in Items : [combined EXCEPT ![r] = Append(@, x)] \in [Runs -> Seq(Items)]
         /\ combined[r] # <<>> => [combined EXCEPT ![r] = Tail(@)] \in [Runs -> Seq(Items)]
         /\ [combined EXCEPT ![r] = <<>>] \in [Runs -> Seq(Items)]
<1>1. combined[r] \in Seq(Items) /\ combined \in [Runs -> Seq(Items)]
  BY DEF Typed
<1>2. \A x \in Items : Append(combined[r], x) \in Seq(Items)
  BY <1>1
<1>3. combined[r] # <<>> => Tail(combined[r]) \in Seq(Items)
  BY <1>1, HeadTailProperties
<1> QED
  BY <1>1, <1>2, <1>3

\* No step leaves the types.
LEMMA TypedStep == Typed /\ CallsInStep /\ [Next]_vars => Typed'
<1> SUFFICES ASSUME Typed, CallsInStep, [Next]_vars
             PROVE  Typed'
  OBVIOUS
<1>1. address' \in Addresses
  <2>1. ASSUME NEW k \in Calls
        PROVE  message[k].path \in Addresses
    BY DEF Typed
  <2> QED
    BY <2>1, AddressFacts DEF Typed, AddressFromUrl, Addresses
<1>2. config' \in Configs /\ threadOf' = threadOf
  <2>1. threadOf' = threadOf
    BY DEF Next, vars, runVars, StartRun, AdapterEnds, Yield, CloseRun, CallTool, Find, Resolve, TakeMessage, Unresolvable, Update,
           EndCall, CallRaises, Registered, Deleted
  <2> QED
    BY <2>1, AddressFacts DEF Typed
<1>3. roster' \subseteq Rows
  <2>1. \/ roster' \subseteq roster
        \/ \E p \in Providers : roster' = roster \cup {[key |-> p, name |-> SubAgent]}
    BY DEF Next, vars, souk, StartRun, AdapterEnds, Yield, CloseRun, CallTool, Find, Resolve, TakeMessage, Unresolvable, Update,
           EndCall, CallRaises, Registered, Deleted
  <2> QED
    BY <2>1 DEF Typed, Rows
<1> DEFINE StreamTyped ==
             /\ gen' \in [Runs -> {"idle", "streaming", "over", "closed"}]
             /\ adapter' \in [Runs -> {"none", "running", "ended"}]
             /\ combined' \in [Runs -> Seq(Items)]
             /\ yielded' \in [Runs -> Nat]
           CallTyped ==
             /\ context' \in [Threads -> Nat]
             /\ caller' \in [Calls -> Runs \cup {NoRun}]
             /\ at' \in [Calls -> Places]
             /\ message' \in [Calls -> [path : Addresses, contextId : Nat]]
             /\ dest' \in [Calls -> Rows \cup {NotFound}]
             /\ sub' \in [Calls -> Nat]
             /\ before' \in [Calls -> SUBSET Calls]
             /\ updates' \in [Calls -> 0 .. MaxUpdates]
             /\ minted' \in Nat
<1>4. StreamTyped /\ CallTyped => Typed'
  BY <1>1, <1>2, <1>3 DEF Typed
<1>5. ASSUME UNCHANGED runVars PROVE StreamTyped
  BY <1>5 DEF runVars, Typed
<1>6. ASSUME UNCHANGED <<callVars, context, minted>> PROVE CallTyped
  BY <1>6 DEF callVars, Typed
<1>7. ASSUME NEW k \in Calls, NEW r \in Runs, Sends(k, r) \/ Waits(k, r)
      PROVE  CallTyped
  <2>1. Known(threadOf[r]) \in SUBSET Calls
    BY DEF Known, Under
  <2>2. CASE Sends(k, r)
    <3>1. [path |-> address', contextId |-> context[threadOf[r]]] \in [path : Addresses, contextId : Nat]
      BY <1>1 DEF Typed
    <3> QED
      BY <2>1, <2>2, <3>1 DEF Sends, Typed, Places, souk
  <2>3. CASE Waits(k, r)
    BY <2>3 DEF Waits, Typed, Places, souk
  <2> QED
    BY <1>7, <2>2, <2>3
<1>19. ASSUME NEW k \in Calls, Find(k)
       PROVE  CallTyped
  <2>1. \A row \in Rows : Path(row) \in Addresses
    BY DEF Addresses
  <2>2. PICK row \in Rows : message' = [message EXCEPT ![k].path = Path(row)]
    BY <1>19 DEF Find
  <2>3. message' \in [Calls -> [path : Addresses, contextId : Nat]]
    BY <2>1, <2>2 DEF Typed
  <2> QED
    BY <1>19, <2>3 DEF Find, Typed, Places, souk
<1>20. ASSUME NEW k \in Calls, TakeMessage(k)
       PROVE  CallTyped
  <2>1. message' \in [Calls -> [path : Addresses, contextId : Nat]]
    BY <1>20 DEF TakeMessage, Typed, NoMessage, NoThread, Addresses
  <2>2. UNCHANGED <<caller, before, updates, context>>
    BY <1>20 DEF TakeMessage
  <2>3. CASE Taken(k)
    <3>1. sub' \in [Calls -> Nat]
      <4>1. \E s \in Nat : sub' = [sub EXCEPT ![k] = s]
        BY <2>3 DEF Taken, Typed
      <4> QED
        BY <4>1 DEF Typed
    <3>2. minted' \in Nat
      BY <2>3 DEF Taken, Typed
    <3>3. dest' \in [Calls -> Rows \cup {NotFound}]
      <4>1. \E row \in Rows : dest' = [dest EXCEPT ![k] = row]
        BY <2>3 DEF Taken, Typed
      <4> QED
        BY <4>1 DEF Typed
    <3>4. at' \in [Calls -> Places]
      BY <2>3 DEF Taken, Typed, Places
    <3> QED
      BY <2>1, <2>2, <3>1, <3>2, <3>3, <3>4 DEF Typed
  <2>4. CASE Refused(k)
    BY <2>1, <2>2, <2>4 DEF Refused, Typed, NoThread, Places
  <2> QED
    BY <1>20, <2>3, <2>4, TakeFacts
<1> HIDE DEF StreamTyped, CallTyped
<1>8. ASSUME NEW k \in Calls, NEW r \in Runs, CallTool(k, r)
      PROVE  Typed'
  BY <1>4, <1>5, <1>7, <1>8, CallFacts DEF CallTool
<1>9. ASSUME NEW k \in Calls, Resolve(k)
      PROVE  Typed'
  BY <1>4, <1>5, <1>7, <1>9, CallFacts DEF Resolve
<1>10. ASSUME NEW r \in Runs, StartRun(r)
       PROVE  Typed'
  <2>1. StreamTyped
    BY <1>10 DEF StartRun, Typed, StreamTyped
  <2>2. CallTyped
    BY <1>6, <1>10 DEF StartRun, TableOf, souk
  <2> QED
    BY <1>4, <2>1, <2>2
<1>11. ASSUME NEW r \in Runs, AdapterEnds(r)
       PROVE  Typed'
  <2>1. Done \in Items
    BY DEF Items
  <2>2. StreamTyped
    BY <1>11, <2>1, QueueType DEF AdapterEnds, Typed, StreamTyped
  <2>3. CallTyped
    BY <1>6, <1>11 DEF AdapterEnds, souk
  <2> QED
    BY <1>4, <2>2, <2>3
<1>12. ASSUME NEW r \in Runs, Yield(r)
       PROVE  Typed'
  <2>1. combined' \in [Runs -> Seq(Items)]
    BY <1>12, QueueType DEF Yield
  <2>2. gen' \in [Runs -> {"idle", "streaming", "over", "closed"}] /\ yielded' \in [Runs -> Nat]
    <3>1. CASE IsOver(r)
      BY <1>12, <3>1 DEF Yield, Typed
    <3>2. CASE ~ IsOver(r)
      BY <1>12, <3>2 DEF Yield, Typed
    <3> QED
      BY <3>1, <3>2
  <2>3. StreamTyped
    BY <1>12, <2>1, <2>2 DEF Yield, Typed, StreamTyped
  <2>4. CallTyped
    BY <1>6, <1>12 DEF Yield, souk
  <2> QED
    BY <1>4, <2>3, <2>4
<1>13. ASSUME NEW r \in Runs, Abort(r), UNCHANGED <<caller, dest, sub, before, updates, context, souk>>
       PROVE  CallTyped
  BY <1>13 DEF Abort, Typed, CallTyped, souk, Places, NoMessage, NoThread, Addresses
<1>14. ASSUME NEW r \in Runs, CloseRun(r)
       PROVE  Typed'
  <2>1. StreamTyped
    BY <1>14, QueueType DEF CloseRun, Typed, StreamTyped
  <2> QED
    BY <1>4, <1>13, <1>14, <2>1 DEF CloseRun
<1>15. ASSUME NEW k \in Calls, CallRaises(k)
       PROVE  Typed'
  <2>1. caller[k] \in Runs /\ Done \in Items
    BY <1>15 DEF CallRaises, CallsInStep, Typed, Items
  <2>2. StreamTyped
    BY <1>15, <2>1, QueueType DEF CallRaises, QueuesDone, Typed, StreamTyped
  <2> QED
    BY <1>4, <1>13, <1>15, <2>1, <2>2 DEF CallRaises
<1>16. ASSUME NEW k \in Calls, Unresolvable(k) \/ EndCall(k)
       PROVE  Typed'
  <2>1. StreamTyped
    BY <1>5, <1>16 DEF Unresolvable, EndCall
  <2>2. at' \in [Calls -> Places] /\ UNCHANGED <<message, caller, dest, sub, before, updates, context, souk>>
    <3>1. at' = [at EXCEPT ![k] = "returned"] /\ UNCHANGED <<message, caller, dest, sub, before, updates, context, souk>>
      BY <1>16 DEF Unresolvable, EndCall
    <3> QED
      BY <3>1 DEF Typed, Places
  <2>3. CallTyped
    BY <2>2 DEF Typed, CallTyped, souk
  <2> QED
    BY <1>4, <2>1, <2>3
<1>17. ASSUME NEW k \in Calls, Update(k)
       PROVE  Typed'
  <2>1. caller[k] \in Runs /\ "progress" \in Items
    BY <1>17 DEF Update, CallsInStep, Typed, Items
  <2>2. StreamTyped
    BY <1>17, <2>1, QueueType DEF Update, Typed, StreamTyped
  <2>3. updates' \in [Calls -> 0 .. MaxUpdates]
    BY <1>17, DelegationConstants DEF DelegationConstants, Update, Typed
  <2>4. context' \in [Threads -> Nat]
    BY <1>17 DEF Update, Keep, Typed
  <2>5. CallTyped
    BY <1>17, <2>3, <2>4 DEF Update, Typed, CallTyped, souk
  <2> QED
    BY <1>4, <2>2, <2>5
<1>18. CASE (\E p \in Providers : Registered(p) \/ Deleted(p)) \/ UNCHANGED vars
  <2>1. UNCHANGED <<runVars, callVars, context, minted>>
    BY <1>18 DEF Registered, Deleted, vars, souk
  <2> QED
    BY <1>4, <1>5, <1>6, <2>1
<1>21. ASSUME NEW k \in Calls, Find(k) \/ TakeMessage(k)
       PROVE  Typed'
  BY <1>4, <1>5, <1>19, <1>20, <1>21 DEF Find, TakeMessage
<1> QED
  BY <1>8, <1>9, <1>10, <1>11, <1>12, <1>14, <1>15, <1>16, <1>17, <1>18, <1>21 DEF Next

\* What a step of the runs does to the calls: nothing, or it ends them.
CallsEnd(ks) ==
  /\ \A k \in Calls : at'[k] = IF k \in ks THEN "returned" ELSE at[k]
  /\ \A k \in ks : at[k] # "none" /\ message'[k].contextId = NoThread
  /\ \A k \in Calls \ ks : message'[k] = message[k]
  /\ UNCHANGED <<caller, dest, sub, before, updates, context, minted>>

\* Every step, by what it does to the calls.
LEMMA StepsOfCalls ==
  ASSUME Typed, CallsInStep, [Next]_vars
  PROVE  \/ \E k \in Calls, r \in Runs : Sends(k, r) \/ Waits(k, r)
         \/ \E k \in Calls : Find(k) \/ TakeMessage(k) \/ Update(k)
         \/ \E ks \in SUBSET Calls : CallsEnd(ks)
<1>1. ASSUME NEW k \in Calls, NEW r \in Runs, CallTool(k, r)
      PROVE  Sends(k, r) \/ Waits(k, r)
  BY <1>1, CallFacts
<1>2. ASSUME NEW k \in Calls, Resolve(k)
      PROVE  \E r \in Runs : Sends(k, r)
  BY <1>2, CallFacts
<1>3. ASSUME UNCHANGED <<callVars, context, minted>>
      PROVE  CallsEnd({})
  BY <1>3 DEF callVars, CallsEnd
<1>4. ASSUME NEW r \in Runs, Abort(r), UNCHANGED <<caller, dest, sub, before, updates, context, souk>>
      PROVE  CallsEnd(CallsOf(r))
  <2>1. \A k \in CallsOf(r) : at[k] # "none"
    BY DelegationConstants DEF DelegationConstants, CallsOf, CallsInStep
  <2> QED
    BY <1>4, <2>1 DEF Abort, CallsEnd, CallsOf, NoMessage, souk
<1>5. ASSUME NEW k \in Calls, Unresolvable(k) \/ EndCall(k)
      PROVE  CallsEnd({k})
  BY <1>5 DEF Unresolvable, EndCall, CallsEnd, CallsInStep, souk, Typed
<1>6. ASSUME NEW r \in Runs, StartRun(r) \/ AdapterEnds(r) \/ Yield(r)
      PROVE  CallsEnd({})
  BY <1>3, <1>6 DEF StartRun, TableOf, AdapterEnds, Yield, souk
<1>7. ASSUME NEW p \in Providers, Registered(p) \/ Deleted(p)
      PROVE  CallsEnd({})
  BY <1>3, <1>7 DEF Registered, Deleted
<1>8. ASSUME NEW r \in Runs, CloseRun(r)
      PROVE  CallsEnd(CallsOf(r))
  BY <1>4, <1>8 DEF CloseRun
<1>9. ASSUME NEW k \in Calls, CallRaises(k)
      PROVE  \E ks \in SUBSET Calls : CallsEnd(ks)
  <2>1. caller[k] \in Runs
    BY <1>9 DEF CallRaises, CallsInStep, Typed
  <2>2. CallsEnd(CallsOf(caller[k]))
    BY <1>4, <1>9, <2>1 DEF CallRaises
  <2> QED
    BY <2>2 DEF CallsOf
<1>10. ASSUME UNCHANGED vars
       PROVE  CallsEnd({})
  BY <1>3, <1>10 DEF vars, souk
<1>11. \A r \in Runs : CallsOf(r) \in SUBSET Calls
  BY DEF CallsOf
<1> QED
  BY <1>1, <1>2, <1>5, <1>6, <1>7, <1>8, <1>9, <1>10, <1>11 DEF Next

\* What a call sent has changed, call by call.
LEMMA SentFacts ==
  ASSUME Typed, CallsInStep, NEW k \in Calls, NEW r \in Runs, Sends(k, r)
  PROVE  /\ \A j \in Calls \ {k} : /\ at'[j] = at[j] /\ caller'[j] = caller[j]
                                   /\ before'[j] = before[j] /\ message'[j] = message[j]
         /\ caller'[k] = r /\ (caller[k] # NoRun => caller[k] = r)
         /\ at'[k] = "posting" /\ before'[k] = Known(threadOf[r])
         /\ message'[k].path = address' /\ message'[k].contextId = context[threadOf[r]]
         /\ sub[k] = NoThread /\ updates[k] = 0
         /\ UNCHANGED <<sub, dest, updates, context, threadOf, minted, config>>
<1>1. UNCHANGED <<sub, dest, updates, context, threadOf, minted, config>>
  BY DEF Sends, runVars, souk
<1>2. caller'[k] = r /\ (caller[k] # NoRun => caller[k] = r) /\ \A j \in Calls \ {k} : caller'[j] = caller[j]
  BY DEF Sends, Typed, CallsInStep
<1>3. sub[k] = NoThread /\ updates[k] = 0
  <2>1. updates[k] \in 0 .. MaxUpdates
    BY DEF Typed
  <2>2. sub[k] = NoThread /\ ~ updates[k] > 0
    BY DEF CallsInStep, Sends
  <2> QED
    BY <2>1, <2>2, DelegationConstants DEF DelegationConstants
<1>4. /\ \A j \in Calls \ {k} : at'[j] = at[j] /\ before'[j] = before[j] /\ message'[j] = message[j]
      /\ at'[k] = "posting" /\ before'[k] = Known(threadOf[r])
      /\ message'[k] = [path |-> address', contextId |-> context[threadOf[r]]]
  BY DEF Sends, Typed
<1> QED
  BY <1>1, <1>2, <1>3, <1>4

\* What a message taken or refused has changed, call by call.
LEMMA TakenFacts ==
  ASSUME Typed, CallsInStep, NEW k \in Calls, TakeMessage(k)
  PROVE  /\ \A j \in Calls \ {k} : at'[j] = at[j] /\ sub'[j] = sub[j] /\ message'[j] = message[j]
         /\ at[k] = "posting" /\ at'[k] \in {"calling", "refused"} /\ message'[k].contextId = NoThread
         /\ sub[k] = NoThread /\ updates[k] = 0
         /\ UNCHANGED <<caller, before, updates, context, threadOf>>
         /\ \/ /\ at'[k] = "calling" /\ message[k].contextId # NoThread
               /\ sub'[k] = message[k].contextId /\ minted' = minted
            \/ /\ at'[k] = "calling" /\ message[k].contextId = NoThread
               /\ sub'[k] = minted + 1 /\ minted' = minted + 1
            \/ at'[k] = "refused" /\ sub'[k] = NoThread /\ minted' = minted
<1>1. UNCHANGED <<caller, before, updates, context, threadOf>> /\ at[k] = "posting"
  BY DEF TakeMessage, runVars
<1>2. sub[k] = NoThread /\ updates[k] = 0
  <2>1. updates[k] \in 0 .. MaxUpdates
    BY DEF Typed
  <2>2. sub[k] = NoThread /\ ~ updates[k] > 0
    BY <1>1 DEF CallsInStep
  <2> QED
    BY <2>1, <2>2, DelegationConstants DEF DelegationConstants
<1>3. (\A j \in Calls \ {k} : message'[j] = message[j]) /\ message'[k].contextId = NoThread
  BY DEF TakeMessage, NoMessage, Typed
<1>4. CASE Taken(k)
  <2>1. (\A j \in Calls \ {k} : at'[j] = at[j] /\ sub'[j] = sub[j]) /\ at'[k] = "calling"
    BY <1>4 DEF Taken, Typed
  <2>2. \/ message[k].contextId # NoThread /\ sub'[k] = message[k].contextId /\ minted' = minted
        \/ message[k].contextId = NoThread /\ sub'[k] = minted + 1 /\ minted' = minted + 1
    BY <1>4 DEF Taken, Typed
  <2> QED
    BY <1>1, <1>2, <1>3, <2>1, <2>2
<1>5. CASE Refused(k)
  BY <1>1, <1>2, <1>3, <1>5 DEF Refused, Typed
<1> QED
  BY <1>4, <1>5, TakeFacts

\* The books of the calls are kept.
LEMMA CallsStep == Typed /\ CallsInStep /\ [Next]_vars => CallsInStep'
<1> SUFFICES ASSUME Typed, CallsInStep, [Next]_vars
             PROVE  CallsInStep'
  OBVIOUS
<1> USE DelegationConstants DEF DelegationConstants
<1>1. ASSUME NEW k \in Calls, NEW r \in Runs, Sends(k, r)
      PROVE  CallsInStep'
  <2>1. r # NoRun
    OBVIOUS
  <2> QED
    BY <1>1, <2>1, SentFacts DEF CallsInStep
<1>2. ASSUME NEW k \in Calls, NEW r \in Runs, Waits(k, r)
      PROVE  CallsInStep'
  <2>1. r # NoRun
    OBVIOUS
  <2> QED
    BY <1>2, <2>1 DEF Waits, CallsInStep, Typed
<1>5. ASSUME NEW k \in Calls, Find(k)
      PROVE  CallsInStep'
  <2>1. PICK row \in Rows : message' = [message EXCEPT ![k].path = Path(row)]
    BY <1>5 DEF Find
  <2>2. Path(row) # NoAddress
    <3>1. Path(row).name = row.name /\ row.name # "" /\ NoAddress.name = ""
      BY DEF Path, Rows, SubAgent, NoAddress
    <3> QED
      BY <3>1
  <2>3. /\ message'[k].path # NoAddress /\ message'[k].contextId = message[k].contextId
        /\ \A j \in Calls \ {k} : message'[j] = message[j]
    BY <2>1, <2>2 DEF Typed
  <2>4. /\ at[k] = "resolving" /\ at'[k] = "found" /\ \A j \in Calls \ {k} : at'[j] = at[j]
        /\ UNCHANGED <<caller, sub, updates>>
    BY <1>5 DEF Find, Typed
  <2> QED
    BY <2>3, <2>4 DEF CallsInStep
<1>6. ASSUME NEW k \in Calls, TakeMessage(k)
      PROVE  CallsInStep'
  <2>1. message[k].contextId \in Nat /\ minted \in Nat /\ minted + 1 # NoThread
    BY DEF Typed, NoThread
  <2> QED
    BY <1>6, <2>1, TakenFacts DEF CallsInStep
<1>3. ASSUME NEW k \in Calls, Update(k)
      PROVE  CallsInStep'
  BY <1>3 DEF Update, CallsInStep, Typed
<1>4. ASSUME NEW ks \in SUBSET Calls, CallsEnd(ks)
      PROVE  CallsInStep'
  BY <1>4 DEF CallsEnd, CallsInStep
<1> QED
  BY <1>1, <1>2, <1>3, <1>4, <1>5, <1>6, StepsOfCalls

\* Nothing has a thread before a call is made.
LEMMA ThreadInit == Init => ThreadInv
<1> SUFFICES ASSUME Init PROVE ThreadInv
  OBVIOUS
<1>1. CallsInStep /\ ThreadsNumbered /\ KeptIsKnown /\ SentIsKnown /\ FollowsUp /\ ConversationsApart
  BY DEF Init, CallsInStep, ThreadsNumbered, KeptIsKnown, SentIsKnown, FollowsUp, ConversationsApart, Known,
         Under, NoThread, NoMessage
<1> QED
  BY <1>1, TypedInit DEF ThreadInv

\* A call made has no thread yet, and its message goes out with what its
\* conversation keeps.
LEMMA ThreadsCall ==
  ASSUME ThreadInv, NEW k \in Calls, NEW r \in Runs, Sends(k, r) \/ Waits(k, r)
  PROVE  ThreadsNumbered' /\ KeptIsKnown' /\ SentIsKnown' /\ FollowsUp' /\ ConversationsApart'
<1> USE DEF ThreadInv
<1> DEFINE t == threadOf[r]
<1>1. /\ UNCHANGED <<sub, updates, context, minted, threadOf>>
      /\ \A j \in Calls \ {k} : /\ at'[j] = at[j] /\ caller'[j] = caller[j]
                                /\ before'[j] = before[j] /\ message'[j] = message[j]
      /\ caller'[k] = r /\ (caller[k] # NoRun => caller[k] = r)
      /\ sub[k] = NoThread /\ ~ updates[k] > 0
      /\ \/ at'[k] = "resolving"
         \/ at'[k] = "posting" /\ before'[k] = Known(t) /\ message'[k].contextId = context[t]
  <2>1. CASE Sends(k, r)
    BY <2>1, SentFacts
  <2>2. CASE Waits(k, r)
    BY <2>2 DEF Waits, CallsInStep, Typed, souk, runVars
  <2> QED
    BY <2>1, <2>2
<1>2. /\ t \in Threads /\ minted \in Nat /\ r # NoRun
      /\ (\A j \in Calls : sub[j] \in Nat) /\ \A j \in Calls : before[j] \in SUBSET Calls
  BY DelegationConstants DEF DelegationConstants, Typed
<1>3. /\ \A s : Known(s)' = Known(s)
      /\ \A s : Under(s) \subseteq Under(s)'
      /\ \A s : \A j \in Under(s)' : j \in Calls /\ (j = k \/ j \in Under(s))
  <2>1. ASSUME NEW s
        PROVE  /\ \A j \in Calls \ {k} : j \in Under(s)' <=> j \in Under(s)
               /\ k \in Under(s) => k \in Under(s)'
    BY <1>1, <1>2 DEF Under
  <2>2. ASSUME NEW s
        PROVE  \A j : j \in Known(s)' <=> j \in Known(s)
    <3>1. /\ \A j : j \in Known(s) <=> j \in Under(s) /\ updates[j] > 0
          /\ \A j : j \in Known(s)' <=> j \in Under(s)' /\ updates[j] > 0
      BY <1>1 DEF Known
    <3>2. \A j : (j \in Under(s) => j \in Calls) /\ (j \in Under(s)' => j \in Calls)
      BY DEF Under
    <3> QED
      BY <1>1, <2>1, <3>1, <3>2
  <2>3. \A s : \A j : (j \in Under(s) => j \in Calls) /\ (j \in Under(s)' => j \in Calls)
    BY DEF Under
  <2>4. \A s : Known(s)' = Known(s)
    BY <2>2
  <2>5. \A s : Under(s) \subseteq Under(s)'
    BY <2>1, <2>3
  <2>6. \A s : \A j \in Under(s)' : j \in Calls /\ (j = k \/ j \in Under(s))
    BY <2>1, <2>3
  <2> QED
    BY <2>4, <2>5, <2>6
<1> HIDE DEF t
<1>4. ThreadsNumbered' /\ KeptIsKnown'
  BY <1>1, <1>3 DEF ThreadsNumbered, KeptIsKnown
<1>5. ConversationsApart'
  BY <1>1, <1>3 DEF ConversationsApart
<1>6. FollowsUp'
  BY <1>1 DEF FollowsUp
<1>7. SentIsKnown'
  <2>1. ASSUME NEW j \in Calls \ {k}, at'[j] = "posting"
        PROVE  /\ message'[j].contextId # NoThread => \E i \in before'[j] : sub'[i] = message'[j].contextId
               /\ before'[j] # {} => message'[j].contextId # NoThread
               /\ \A i \in before'[j] : caller'[i] # NoRun /\ threadOf'[caller'[i]] = threadOf'[caller'[j]]
    <3>1. /\ message[j].contextId # NoThread => \E i \in before[j] : sub[i] = message[j].contextId
          /\ before[j] # {} => message[j].contextId # NoThread
          /\ \A i \in before[j] : caller[i] # NoRun /\ threadOf[caller[i]] = threadOf[caller[j]]
      BY <1>1, <2>1 DEF SentIsKnown
    <3>2. \A i \in before[j] : caller'[i] = caller[i]
      BY <1>1, <1>2, <3>1
    <3> QED
      BY <1>1, <3>1, <3>2
  <2>2. ASSUME at'[k] = "posting"
        PROVE  /\ message'[k].contextId # NoThread => \E i \in before'[k] : sub'[i] = message'[k].contextId
               /\ before'[k] # {} => message'[k].contextId # NoThread
               /\ \A i \in before'[k] : caller'[i] # NoRun /\ threadOf'[caller'[i]] = threadOf'[caller'[k]]
    <3>1. before'[k] = Known(t) /\ message'[k].contextId = context[t]
      BY <1>1, <2>2
    <3>2. /\ context[t] # NoThread => \E i \in Known(t) : sub[i] = context[t]
          /\ Known(t) # {} => context[t] # NoThread
      BY <1>2 DEF KeptIsKnown
    <3>3. \A i \in Known(t) : i \in Calls /\ i # k /\ caller[i] # NoRun /\ threadOf[caller[i]] = t
      BY <1>1 DEF Known, Under
    <3>4. \A i \in Known(t) : caller'[i] # NoRun /\ threadOf'[caller'[i]] = t
      BY <1>1, <3>3
    <3>5. threadOf'[caller'[k]] = t
      BY <1>1 DEF t
    <3> QED
      BY <1>1, <3>1, <3>2, <3>4, <3>5
  <2> QED
    BY <2>1, <2>2 DEF SentIsKnown
<1> QED
  BY <1>4, <1>5, <1>6, <1>7

\* A message taken is on the thread its conversation was told of, or on a new one.
LEMMA ThreadsTake ==
  ASSUME ThreadInv, NEW k \in Calls, TakeMessage(k)
  PROVE  ThreadsNumbered' /\ KeptIsKnown' /\ SentIsKnown' /\ FollowsUp' /\ ConversationsApart'
<1> USE DEF ThreadInv
<1> DEFINE t == threadOf[caller[k]]
<1>1. /\ \A j \in Calls \ {k} : at'[j] = at[j] /\ sub'[j] = sub[j] /\ message'[j] = message[j]
      /\ at[k] = "posting" /\ at'[k] # "posting"
      /\ sub[k] = NoThread /\ ~ updates[k] > 0
      /\ UNCHANGED <<caller, before, updates, context, threadOf>>
      /\ \/ message[k].contextId # NoThread /\ sub'[k] = message[k].contextId /\ minted' = minted
         \/ message[k].contextId = NoThread /\ sub'[k] = minted + 1 /\ minted' = minted + 1
         \/ sub'[k] = NoThread /\ minted' = minted
  <2>1. updates[k] = 0
    BY TakenFacts
  <2>2. ~ updates[k] > 0
    BY <2>1
  <2> QED
    BY <2>2, TakenFacts
<1>2. /\ t \in Threads /\ minted \in Nat /\ (\A j \in Calls : sub[j] \in Nat)
      /\ \A j \in Calls : before[j] \in SUBSET Calls
  BY <1>1 DEF CallsInStep, Typed
<1>3. /\ \A s : Under(s) \subseteq Calls /\ Under(s)' = Under(s) /\ Known(s)' = Known(s)
      /\ \A s : Known(s) \subseteq Under(s) /\ k \notin Known(s)
      /\ k \in Under(t)
      /\ \A s \in Threads : k \in Under(s) => s = t
  <2>1. caller[k] # NoRun
    BY <1>1 DEF CallsInStep
  <2> QED
    BY <1>1, <2>1 DEF Under, Known
<1>4. message[k].contextId # NoThread =>
        \E j \in before[k] : j \in Under(t) /\ j # k /\ sub[j] = message[k].contextId
  BY <1>1, <1>2 DEF SentIsKnown, Under
<1> HIDE DEF t
<1>5. ThreadsNumbered'
  <2>1. sub'[k] <= minted' /\ minted <= minted'
    BY <1>1, <1>2, <1>3, <1>4 DEF ThreadsNumbered, NoThread
  <2>2. \A j \in Calls \ {k} : sub'[j] <= minted'
    BY <1>1, <1>2, <2>1 DEF ThreadsNumbered
  <2>3. ASSUME NEW s \in 1 .. minted'
        PROVE  \E j \in Calls : sub'[j] = s
    <3>1. CASE s \in 1 .. minted
      BY <1>1, <3>1 DEF ThreadsNumbered, NoThread
    <3>2. CASE s \notin 1 .. minted
      BY <1>1, <1>2, <2>3, <3>2
    <3> QED
      BY <3>1, <3>2
  <2> QED
    BY <2>1, <2>2, <2>3 DEF ThreadsNumbered
<1>6. KeptIsKnown'
  BY <1>1, <1>3 DEF KeptIsKnown
<1>7. FollowsUp'
  <2>1. ASSUME NEW j \in Calls \ {k}, before'[j] # {}, sub'[j] # NoThread
        PROVE  \E i \in before'[j] : sub'[i] = sub'[j]
    <3>1. PICK i \in before[j] : sub[i] = sub[j]
      BY <1>1, <2>1 DEF FollowsUp
    <3>2. i \in Calls /\ i # k
      BY <1>1, <1>2, <2>1, <3>1
    <3> QED
      BY <1>1, <2>1, <3>1, <3>2
  <2>2. ASSUME before'[k] # {}, sub'[k] # NoThread
        PROVE  \E i \in before'[k] : sub'[i] = sub'[k]
    <3>1. message[k].contextId # NoThread
      BY <1>1, <2>2 DEF SentIsKnown
    <3>2. sub'[k] = message[k].contextId
      BY <1>1, <2>2, <3>1
    <3> QED
      BY <1>1, <1>2, <1>4, <3>1, <3>2
  <2> QED
    BY <2>1, <2>2 DEF FollowsUp
<1>8. ConversationsApart'
  <2>1. ASSUME NEW s \in Threads \ {t}, NEW i \in Under(s), sub'[k] = sub[i]
        PROVE  sub'[k] = NoThread
    <3>1. i \in Calls /\ sub[i] <= minted /\ sub[i] \in Nat
      BY <1>2, <1>3 DEF ThreadsNumbered
    <3>2. CASE message[k].contextId # NoThread /\ sub'[k] = message[k].contextId
      <4>1. PICK j \in Under(t) : sub[j] = message[k].contextId
        BY <1>4, <3>2
      <4> QED
        BY <1>2, <2>1, <3>2, <4>1 DEF ConversationsApart
    <3>3. CASE sub'[k] = minted + 1
      BY <1>2, <2>1, <3>1, <3>3
    <3> QED
      BY <1>1, <3>2, <3>3
  <2>2. ASSUME NEW s1 \in Threads, NEW s2 \in Threads, s1 # s2,
               NEW j \in Under(s1), NEW i \in Under(s2), sub'[j] = sub'[i]
        PROVE  sub'[j] = NoThread
    <3>1. j \in Calls /\ i \in Calls
      BY <1>3
    <3>2. CASE j = k
      <4>1. s1 = t /\ s2 # t /\ i # k
        BY <1>3, <2>2, <3>2
      <4> QED
        BY <1>1, <2>1, <2>2, <3>1, <3>2, <4>1
    <3>3. CASE i = k
      <4>1. s2 = t /\ s1 # t /\ j # k
        BY <1>3, <2>2, <3>3
      <4> QED
        BY <1>1, <2>1, <2>2, <3>1, <3>3, <4>1
    <3>4. CASE j # k /\ i # k
      BY <1>1, <2>2, <3>1, <3>4 DEF ConversationsApart
    <3> QED
      BY <3>2, <3>3, <3>4
  <2> QED
    BY <1>3, <2>2 DEF ConversationsApart
<1>9. SentIsKnown'
  <2> SUFFICES ASSUME NEW j \in Calls, at'[j] = "posting"
               PROVE  /\ message'[j].contextId # NoThread =>
                           \E i \in before'[j] : sub'[i] = message'[j].contextId
                      /\ before'[j] # {} => message'[j].contextId # NoThread
                      /\ \A i \in before'[j] : caller'[i] # NoRun /\ threadOf'[caller'[i]] = threadOf'[caller'[j]]
    BY DEF SentIsKnown
  <2>1. j # k /\ at[j] = "posting" /\ message'[j] = message[j] /\ before'[j] = before[j]
    BY <1>1
  <2>2. \A i \in before'[j] : caller'[i] # NoRun /\ threadOf'[caller'[i]] = threadOf'[caller'[j]]
    BY <1>1, <2>1 DEF SentIsKnown
  <2>3. ASSUME message[j].contextId # NoThread
        PROVE  \E i \in before[j] : sub'[i] = message[j].contextId
    <3>1. PICK i \in before[j] : sub[i] = message[j].contextId
      BY <2>1, <2>3 DEF SentIsKnown
    <3>2. i \in Calls /\ i # k
      BY <1>1, <1>2, <2>3, <3>1
    <3> QED
      BY <1>1, <3>1, <3>2
  <2> QED
    BY <2>1, <2>2, <2>3 DEF SentIsKnown
<1> QED
  BY <1>5, <1>6, <1>7, <1>8, <1>9

\* The threads stay in step with the calls.
LEMMA ThreadStep == ThreadInv /\ [Next]_vars => ThreadInv'
<1> SUFFICES ASSUME ThreadInv, [Next]_vars
             PROVE  ThreadInv'
  OBVIOUS
<1> USE DEF ThreadInv
<1>1. Typed' /\ CallsInStep'
  BY TypedStep, CallsStep
<1>2. threadOf' = threadOf
  BY DEF Next, vars, runVars, StartRun, AdapterEnds, Yield, CloseRun, CallTool, Find, Resolve, TakeMessage, Unresolvable, Update,
         EndCall, CallRaises, Registered, Deleted
<1>3. ASSUME NEW k \in Calls, Find(k)
      PROVE  ThreadsNumbered' /\ KeptIsKnown' /\ SentIsKnown' /\ FollowsUp' /\ ConversationsApart'
  <2>1. /\ UNCHANGED <<caller, sub, before, updates, context, minted>>
        /\ at'[k] = "found" /\ \A j \in Calls \ {k} : at'[j] = at[j] /\ message'[j] = message[j]
    BY <1>3 DEF Find, souk, Typed
  <2>2. \A s : Under(s)' = Under(s) /\ Known(s)' = Known(s)
    BY <1>2, <2>1 DEF Under, Known
  <2>3. SentIsKnown'
    BY <1>2, <2>1, <2>2 DEF SentIsKnown
  <2> QED
    BY <2>1, <2>2, <2>3 DEF ThreadsNumbered, KeptIsKnown, FollowsUp, ConversationsApart
<1>4. ASSUME NEW k \in Calls, Update(k)
      PROVE  ThreadsNumbered' /\ KeptIsKnown' /\ SentIsKnown' /\ FollowsUp' /\ ConversationsApart'
  <2> DEFINE t == threadOf[caller[k]]
  <2>1. /\ UNCHANGED <<caller, sub, before, minted>>
        /\ context' = [context EXCEPT ![t] = sub[k]]
        /\ updates' = [updates EXCEPT ![k] = @ + 1]
        /\ sub[k] # NoThread /\ caller[k] \in Runs /\ caller[k] # NoRun
    <3>1. at[k] = "calling" /\ caller[k] # NoRun /\ sub[k] # NoThread
      BY <1>4 DEF Update, CallsInStep
    <3>2. UNCHANGED <<caller, sub, before, minted>>
      BY <1>4 DEF Update, souk
    <3> QED
      BY <1>4, <3>1, <3>2 DEF Update, Keep, Typed
  <2>2. k \in Under(t) /\ t \in Threads
    BY <2>1 DEF Under, Typed
  <2>3. \A s : Under(s)' = Under(s)
    BY <1>2, <2>1 DEF Under
  <2>4. \A j \in Calls : updates[j] \in Nat
    BY DelegationConstants DEF DelegationConstants, Typed
  <2>5. \A j \in Calls : updates'[j] = IF j = k THEN updates[k] + 1 ELSE updates[j]
    BY <2>1 DEF Typed
  <2>6. \A s \in Threads : \A j : j \in Known(s)' <=> j \in Known(s) \/ (s = t /\ j = k)
    <3>1. \A s \in Threads : \A j \in Calls : j \in Under(s) /\ j = k => s = t
      BY DEF Under
    <3>2. \A s : Under(s) \subseteq Calls
      BY DEF Under
    <3> QED
      BY <2>2, <2>3, <2>4, <2>5, <3>1, <3>2 DEF Known
  <2>7. \A s \in Threads : context'[s] = IF s = t THEN sub[k] ELSE context[s]
    BY <2>1 DEF Typed
  <2> HIDE DEF t
  <2>8. KeptIsKnown'
    <3>1. ASSUME NEW s \in Threads
          PROVE  /\ context'[s] # NoThread => \E j \in Known(s)' : sub'[j] = context'[s]
                 /\ Known(s)' # {} => context'[s] # NoThread
      <4>1. CASE s = t
        BY <2>1, <2>6, <2>7, <4>1
      <4>2. CASE s # t
        BY <2>1, <2>6, <2>7, <4>2 DEF KeptIsKnown
      <4> QED
        BY <4>1, <4>2
    <3> QED
      BY <3>1 DEF KeptIsKnown
  <2>9. ConversationsApart'
    BY <2>1, <2>3 DEF ConversationsApart
  <2>10. SentIsKnown'
    <3>1. at' = at /\ message' = message
      BY <1>4 DEF Update
    <3> QED
      BY <1>2, <2>1, <2>3, <3>1 DEF SentIsKnown
  <2> QED
    BY <2>1, <2>8, <2>9, <2>10 DEF ThreadsNumbered, FollowsUp
<1>5. ASSUME NEW ks \in SUBSET Calls, CallsEnd(ks)
      PROVE  ThreadsNumbered' /\ KeptIsKnown' /\ SentIsKnown' /\ FollowsUp' /\ ConversationsApart'
  <2>1. ThreadsNumbered' /\ KeptIsKnown' /\ FollowsUp' /\ ConversationsApart'
    BY <1>2, <1>5 DEF CallsEnd, ThreadsNumbered, KeptIsKnown, FollowsUp, ConversationsApart, Known, Under
  <2>2. \A j \in Calls : at'[j] = "posting" => at[j] = "posting" /\ message'[j] = message[j]
    BY <1>5 DEF CallsEnd
  <2>3. UNCHANGED <<caller, sub, before>> /\ \A s : Under(s)' = Under(s)
    BY <1>2, <1>5 DEF CallsEnd, Under
  <2> QED
    BY <1>2, <2>1, <2>2, <2>3 DEF SentIsKnown
<1> QED
  BY <1>1, <1>3, <1>4, <1>5, StepsOfCalls, ThreadsCall, ThreadsTake

\* A follow-up is on a thread its conversation already spoke on: the contextId
\* kept in sub_threads is one a call of the same conversation was told.
THEOREM AlwaysFollowsUp == Spec => []FollowsUp
<1>1. ThreadInv => FollowsUp
  BY DEF ThreadInv
<1> QED
  BY <1>1, ThreadInit, ThreadStep, PTL DEF Spec

\* Two conversations never share a thread of the sub-agent, however their
\* runs and calls overlap on the table kept per thread_id.
THEOREM AlwaysApart == Spec => []ConversationsApart
<1>1. ThreadInv => ConversationsApart
  BY DEF ThreadInv
<1> QED
  BY <1>1, ThreadInit, ThreadStep, PTL DEF Spec

\* No address is kept at first, and nobody spoken to.
LEMMA MeantInit == Init => MeantInv
<1> SUFFICES ASSUME Init PROVE MeantInv
  OBVIOUS
<1>1. CallsInStep /\ LeadsToTheMeant /\ UrlIsTaken /\ ResolvedToTheMeant
  BY DEF Init, CallsInStep, LeadsToTheMeant, UrlIsTaken, ResolvedToTheMeant, NoThread, NoMessage
<1> QED
  BY <1>1, TypedInit DEF MeantInv

\* Every way an address comes about leads to the provider configured.
LEMMA MeantStep == KeysAreTheirOwn /\ MeantInv /\ [Next]_vars => MeantInv'
<1> SUFFICES ASSUME KeysAreTheirOwn, MeantInv, [Next]_vars
             PROVE  MeantInv'
  OBVIOUS
<1> USE DEF MeantInv
<1>1. Typed' /\ CallsInStep' /\ config' = config /\ config \in Configs
  BY TypedStep, CallsStep, AddressFacts DEF Typed
<1>2. UrlIsTaken'
  <2>1. ASSUME NEW k \in Calls, NEW r \in Runs, Sends(k, r)
        PROVE  UrlIsTaken'
    BY <1>1, <2>1, SentFacts DEF UrlIsTaken
  <2>2. ASSUME NEW k \in Calls, NEW r \in Runs, Waits(k, r)
        PROVE  UrlIsTaken'
    BY <1>1, <2>2 DEF UrlIsTaken, Waits
  <2>3. ASSUME NEW k \in Calls, Find(k) \/ Update(k)
        PROVE  UrlIsTaken'
    BY <1>1, <2>3 DEF UrlIsTaken, Find, Update
  <2>4. ASSUME NEW k \in Calls, TakeMessage(k)
        PROVE  UrlIsTaken'
    BY <1>1, <2>4, TakenFacts DEF UrlIsTaken
  <2>5. ASSUME NEW ks \in SUBSET Calls, CallsEnd(ks)
        PROVE  UrlIsTaken'
    BY <1>1, <2>5 DEF UrlIsTaken, CallsEnd
  <2> QED
    BY <2>1, <2>2, <2>3, <2>4, <2>5, StepsOfCalls
<1>3. \A path : Leads(path)' <=> Leads(path)
  BY <1>1 DEF Leads
<1>4. address' # NoAddress => Leads(address')
  <2>1. CASE address' = address
    BY <2>1 DEF LeadsToTheMeant
  <2>2. CASE config.said \in Providers /\ address' = AddressFromUrl
    BY <2>2 DEF Leads, AddressFromUrl
  <2>3. ASSUME NEW k \in Calls, Resolve(k), address' = message[k].path
        PROVE  Leads(address')
    BY <2>3 DEF LeadsToTheMeant, Resolve
  <2> QED
    BY <2>1, <2>2, <2>3, AddressFacts
<1>5. \A k \in Calls : at'[k] \in {"found", "posting"} => Leads(message'[k].path)
  <2>1. ASSUME NEW k \in Calls, NEW r \in Runs, Sends(k, r)
        PROVE  \A j \in Calls : at'[j] \in {"found", "posting"} => Leads(message'[j].path)
    <3>1. Leads(message'[k].path)
      BY <1>4, <2>1, SentFacts DEF Sends
    <3> QED
      BY <2>1, <3>1, SentFacts DEF LeadsToTheMeant
  <2>2. ASSUME NEW k \in Calls, Find(k)
        PROVE  \A j \in Calls : at'[j] \in {"found", "posting"} => Leads(message'[j].path)
    <3> DEFINE row == ResolveAddress(roster, SubAgent, config.said)
    <3>1. row \in Rows /\ row.name = SubAgent /\ (config.said # Unsaid => Means(config.said, row))
      BY <2>2, LookupFacts DEF Find
    <3>2. message'[k].path = Path(row)
      BY <2>2 DEF Find, Typed
    <3> HIDE DEF row
    <3>3. message'[k].path.name = SubAgent /\ message'[k].path.provider = Fingerprint[row.key]
      BY <3>1, <3>2 DEF Path
    <3>4. ~ config.url
      BY <2>2 DEF Find, UrlIsTaken
    <3>5. ASSUME config.said # Unsaid, NEW other \in Rows, Means(Fingerprint[row.key], other)
          PROVE  Means(config.said, other)
      <4>1. CASE config.said = Fingerprint[row.key]
        BY <3>5, <4>1
      <4>2. CASE config.said = row.key
        <5>1. row.key \in Providers /\ other.key \in Providers
          BY <3>1 DEF Rows
        <5>2. other.key = row.key
          BY <1>1, <3>4, <3>5, <4>2, <5>1 DEF KeysAreTheirOwn, Means
        <5> QED
          BY <4>2, <5>2 DEF Means
      <4> QED
        BY <3>1, <3>5, <4>1, <4>2 DEF Means
    <3>6. Leads(message'[k].path)
      BY <3>3, <3>5 DEF Leads
    <3>7. \A j \in Calls \ {k} : at'[j] = at[j] /\ message'[j] = message[j]
      BY <2>2 DEF Find, Typed
    <3> QED
      BY <3>6, <3>7 DEF LeadsToTheMeant
  <2>3. ASSUME NEW k \in Calls, TakeMessage(k)
        PROVE  \A j \in Calls : at'[j] \in {"found", "posting"} => Leads(message'[j].path)
    BY <2>3, TakenFacts DEF LeadsToTheMeant
  <2>4. ASSUME NEW k \in Calls, NEW r \in Runs, Waits(k, r)
        PROVE  \A j \in Calls : at'[j] \in {"found", "posting"} => Leads(message'[j].path)
    BY <2>4 DEF LeadsToTheMeant, Waits, Typed
  <2>5. ASSUME NEW k \in Calls, Update(k)
        PROVE  \A j \in Calls : at'[j] \in {"found", "posting"} => Leads(message'[j].path)
    BY <2>5 DEF LeadsToTheMeant, Update
  <2>6. ASSUME NEW ks \in SUBSET Calls, CallsEnd(ks)
        PROVE  \A j \in Calls : at'[j] \in {"found", "posting"} => Leads(message'[j].path)
    BY <2>6 DEF LeadsToTheMeant, CallsEnd
  <2> QED
    BY <2>1, <2>2, <2>3, <2>4, <2>5, <2>6, StepsOfCalls
<1>6. LeadsToTheMeant'
  BY <1>3, <1>4, <1>5 DEF LeadsToTheMeant
<1>7. ResolvedToTheMeant'
  <2>1. ASSUME NEW k \in Calls, TakeMessage(k)
        PROVE  ResolvedToTheMeant'
    <3>1. \A j \in Calls \ {k} : dest'[j] = dest[j]
      BY <2>1 DEF TakeMessage, Typed
    <3>2. \/ dest'[k] = NotFound
          \/ /\ dest'[k] \in Rows /\ dest'[k].name = message[k].path.name
             /\ Means(message[k].path.provider, dest'[k])
      <4>1. Taken(k) \/ Refused(k)
        BY <2>1, TakeFacts
      <4> QED
        BY <4>1 DEF Taken, Refused, Typed
    <3>3. Leads(message[k].path)
      BY <2>1 DEF LeadsToTheMeant, TakeMessage
    <3>4. dest'[k] # NotFound /\ config.said # Unsaid =>
            Means(config.said, dest'[k]) /\ dest'[k].name = SubAgent
      BY <3>2, <3>3 DEF Leads
    <3> QED
      BY <1>1, <3>1, <3>4 DEF ResolvedToTheMeant
  <2>2. CASE dest' = dest
    BY <1>1, <2>2 DEF ResolvedToTheMeant
  <2> QED
    BY <2>1, <2>2, StepsOfCalls DEF Sends, Waits, Find, Update, CallsEnd
<1> QED
  BY <1>1, <1>2, <1>6, <1>7

\* A configured provider is the one spoken to: resolve_address of
\* sub_agent_tool's resolver and the path it keeps lead to no other, as the
\* roster changes, provided that nobody else answers to the fingerprint of a
\* provider that is configured by its key.
THEOREM AlwaysResolvedToTheMeant ==
  ASSUME KeysAreTheirOwn
  PROVE  Spec => []ResolvedToTheMeant
<1>1. MeantInv => ResolvedToTheMeant
  BY DEF MeantInv
<1>2. MeantInv /\ [Next]_vars => MeantInv'
  BY MeantStep
<1> QED
  BY <1>1, <1>2, MeantInit, PTL DEF Spec

\* The first elements of a queue, and what is behind its head.
LEMMA QueueFacts ==
  ASSUME NEW S, NEW s \in Seq(S)
  PROVE  /\ DOMAIN s = 1 .. Len(s) /\ Len(s) \in Nat /\ (s = <<>> <=> Len(s) = 0)
         /\ \A x \in S : /\ Append(s, x) \in Seq(S) /\ Append(s, x) # <<>> /\ Len(Append(s, x)) = Len(s) + 1
                         /\ Append(s, x)[Len(s) + 1] = x /\ \A i \in 1 .. Len(s) : Append(s, x)[i] = s[i]
         /\ s # <<>> => /\ Tail(s) \in Seq(S) /\ Len(Tail(s)) = Len(s) - 1 /\ Head(s) = s[1]
                        /\ \A i \in 1 .. Len(s) - 1 : Tail(s)[i] = s[i + 1]
<1>1. DOMAIN s = 1 .. Len(s) /\ Len(s) \in Nat /\ (s = <<>> <=> Len(s) = 0)
  OBVIOUS
<1>2. \A x \in S : /\ Append(s, x) \in Seq(S) /\ Append(s, x) # <<>> /\ Len(Append(s, x)) = Len(s) + 1
                   /\ Append(s, x)[Len(s) + 1] = x /\ \A i \in 1 .. Len(s) : Append(s, x)[i] = s[i]
  OBVIOUS
<1>3. s # <<>> => /\ Tail(s) \in Seq(S) /\ Len(Tail(s)) = Len(s) - 1 /\ Head(s) = s[1]
                  /\ \A i \in 1 .. Len(s) - 1 : Tail(s)[i] = s[i + 1]
  BY HeadTailProperties
<1> QED
  BY <1>1, <1>2, <1>3

\* The updates relayed are finitely many, and one more with each.
LEMMA SentCounts ==
  ASSUME Typed, NEW r \in Runs
  PROVE  IsFiniteSet(Sent(r)) /\ Cardinality(Sent(r)) \in Nat /\ Cardinality(Sent(r)) <= MaxUpdates * MaxCalls
<1> USE DelegationConstants DEF DelegationConstants
<1>1. /\ IsFiniteSet(Calls) /\ Cardinality(Calls) = MaxCalls
      /\ IsFiniteSet(1 .. MaxUpdates) /\ Cardinality(1 .. MaxUpdates) = MaxUpdates
  BY FS_Interval DEF Calls
<1>2. IsFiniteSet(Calls \X (1 .. MaxUpdates)) /\ Cardinality(Calls \X (1 .. MaxUpdates)) = MaxCalls * MaxUpdates
  BY <1>1, FS_Product
<1>3. Sent(r) \in SUBSET (Calls \X (1 .. MaxUpdates))
  BY DEF Sent
<1>4. IsFiniteSet(Sent(r)) /\ Cardinality(Sent(r)) <= MaxCalls * MaxUpdates
  BY <1>2, <1>3, FS_Subset
<1>5. Cardinality(Sent(r)) \in Nat
  BY <1>4, FS_CardinalityType
<1> QED
  BY <1>4, <1>5

\* What a run's tools have relayed only changes with an update of one of them.
LEMMA SentStep ==
  ASSUME Typed, CallsInStep, [Next]_vars
  PROVE  \/ \A r \in Runs : Sent(r)' = Sent(r)
         \/ \E k \in Calls : Update(k)
<1> SUFFICES ASSUME ~ \E k \in Calls : Update(k), NEW r \in Runs
             PROVE  Sent(r)' = Sent(r)
  OBVIOUS
<1> USE DelegationConstants DEF DelegationConstants
<1>1. ASSUME NEW k \in Calls, NEW s \in Runs, Sends(k, s) \/ Waits(k, s)
      PROVE  Sent(r)' = Sent(r)
  <2>1. /\ updates' = updates /\ updates[k] = 0
        /\ \A j \in Calls \ {k} : caller'[j] = caller[j]
    <3>1. CASE Sends(k, s)
      BY <3>1, SentFacts
    <3>2. CASE Waits(k, s)
      <4>1. updates[k] \in 0 .. MaxUpdates /\ ~ updates[k] > 0
        BY <3>2 DEF Waits, CallsInStep, Typed
      <4> QED
        BY <3>2, <4>1 DEF Waits, Typed
    <3> QED
      BY <1>1, <3>1, <3>2
  <2>2. \A u \in Calls \X (1 .. MaxUpdates) :
          (caller'[u[1]] = r /\ u[2] <= updates'[u[1]]) <=> (caller[u[1]] = r /\ u[2] <= updates[u[1]])
    <3>1. \A j \in Calls, n \in 1 .. MaxUpdates :
            (caller'[j] = r /\ n <= updates'[j]) <=> (caller[j] = r /\ n <= updates[j])
      BY <2>1
    <3> QED
      BY <3>1
  <2> QED
    BY <2>2 DEF Sent
<1>2. ASSUME NEW ks \in SUBSET Calls, CallsEnd(ks)
      PROVE  Sent(r)' = Sent(r)
  BY <1>2 DEF CallsEnd, Sent
<1>3. ASSUME NEW k \in Calls, Find(k) \/ TakeMessage(k)
      PROVE  Sent(r)' = Sent(r)
  BY <1>3 DEF Find, TakeMessage, Sent
<1> QED
  BY <1>1, <1>2, <1>3, StepsOfCalls

\* An update is one more.
LEMMA UpdateCounts ==
  ASSUME Typed, CallsInStep, NEW k \in Calls, Update(k)
  PROVE  /\ Cardinality(Sent(caller[k]))' = Cardinality(Sent(caller[k])) + 1
         /\ \A r \in Runs \ {caller[k]} : Sent(r)' = Sent(r)
<1> USE DelegationConstants DEF DelegationConstants
<1>1. PICK r : r = caller[k]
  OBVIOUS
<1>2. r \in Runs /\ caller' = caller /\ updates[k] \in Nat /\ updates[k] < MaxUpdates
  BY <1>1 DEF Update, CallsInStep, Typed
<1>3. \A j \in Calls : updates'[j] = IF j = k THEN updates[k] + 1 ELSE updates[j]
  BY DEF Update, Typed
<1>4. /\ \A j \in Calls, n \in 1 .. MaxUpdates : n <= updates'[j] <=> n <= updates[j] \/ <<j, n>> = <<k, updates[k] + 1>>
      /\ updates[k] + 1 \in 1 .. MaxUpdates
  BY <1>2, <1>3 DEF Typed
<1>5. \A s \in Runs : \A u :
        u \in Sent(s)' <=> u \in Sent(s) \/ (s = r /\ u = <<k, updates[k] + 1>>)
  <2>1. ASSUME NEW s \in Runs, NEW j \in Calls, NEW n \in 1 .. MaxUpdates
        PROVE  <<j, n>> \in Sent(s)' <=> <<j, n>> \in Sent(s) \/ (s = r /\ <<j, n>> = <<k, updates[k] + 1>>)
    BY <1>1, <1>2, <1>4 DEF Sent
  <2>2. ASSUME NEW s \in Runs, NEW u
        PROVE  u \in Sent(s)' \/ u \in Sent(s) \/ u = <<k, updates[k] + 1>>
               => \E j \in Calls, n \in 1 .. MaxUpdates : u = <<j, n>>
    BY <1>4 DEF Sent
  <2> QED
    BY <2>1, <2>2
<1>6. <<k, updates[k] + 1>> \notin Sent(r)
  BY <1>2 DEF Sent
<1>7. Sent(r)' = Sent(r) \cup {<<k, updates[k] + 1>>}
  BY <1>2, <1>5
<1>8. Cardinality(Sent(r)') = Cardinality(Sent(r)) + 1
  BY <1>2, <1>6, <1>7, SentCounts, FS_AddElement
<1>9. Cardinality(Sent(caller[k]))' = Cardinality(Sent(r)')
  BY <1>1, <1>2 DEF Sent
<1> QED
  BY <1>1, <1>5, <1>8, <1>9

\* Nothing has run at first.
LEMMA StreamInit == Init => StreamInv
<1> SUFFICES ASSUME Init PROVE StreamInv
  OBVIOUS
<1>1. CallsInStep /\ RunsInStep
  BY DEF Init, CallsInStep, RunsInStep, NoThread, NoMessage
<1>2. ASSUME NEW r \in Runs
      PROVE  SentinelIsLast(r) /\ ProgressAddsUp(r)
  <2>1. Sent(r) = {}
    BY DelegationConstants DEF DelegationConstants, Init, Sent
  <2>2. Cardinality(Sent(r)) = 0
    BY <2>1, FS_EmptySet
  <2> QED
    BY <2>2 DEF Init, SentinelIsLast, ProgressAddsUp, Queued
<1> QED
  BY <1>1, <1>2, TypedInit DEF StreamInv

\* A run no step touches keeps its books.
LEMMA RunUntouched ==
  ASSUME NEW r \in Runs, SentinelIsLast(r), ProgressAddsUp(r), Sent(r)' = Sent(r),
         gen'[r] = gen[r], adapter'[r] = adapter[r], combined'[r] = combined[r], yielded'[r] = yielded[r]
  PROVE  SentinelIsLast(r)' /\ ProgressAddsUp(r)'
  BY DEF SentinelIsLast, ProgressAddsUp, Queued

\* The sentinel goes behind everything relayed.
LEMMA SentinelQueued ==
  ASSUME Typed, NEW r \in Runs, SentinelIsLast(r), ProgressAddsUp(r), Sent(r)' = Sent(r),
         gen[r] = "streaming", adapter[r] = "running", gen' = gen, yielded' = yielded,
         adapter'[r] = "ended", combined'[r] = Append(combined[r], Done)
  PROVE  SentinelIsLast(r)' /\ ProgressAddsUp(r)'
<1> DEFINE s == combined[r]
<1>1. s \in Seq(Items) /\ Done \in Items
  BY DEF Typed, Items
<1>2. /\ Len(combined'[r]) = Len(s) + 1 /\ DOMAIN combined'[r] = 1 .. Len(s) + 1 /\ Len(s) \in Nat
      /\ DOMAIN s = 1 .. Len(s)
      /\ combined'[r] # <<>> /\ combined'[r][Len(s) + 1] = Done
      /\ \A i \in 1 .. Len(s) : combined'[r][i] = s[i]
  <2>1. Append(s, Done) \in Seq(Items)
    BY <1>1, QueueFacts
  <2>2. DOMAIN Append(s, Done) = 1 .. Len(Append(s, Done))
    BY <2>1, QueueFacts
  <2> QED
    BY <1>1, <2>2, QueueFacts
<1>3. \A i \in 1 .. Len(s) : s[i] # Done
  BY <1>2 DEF SentinelIsLast
<1> HIDE DEF s
<1>4. \A i \in 1 .. Len(s) + 1 : combined'[r][i] = Done <=> i = Len(s) + 1
  BY <1>2, <1>3
<1>5. SentinelIsLast(r)'
  BY <1>2, <1>4 DEF SentinelIsLast
<1>6. Queued(r)' = Len(s) /\ Queued(r) = Len(s)
  BY <1>2 DEF Queued, s
<1> QED
  BY <1>5, <1>6 DEF ProgressAddsUp

\* The books of the runs are kept.
LEMMA LedgerStep ==
  ASSUME StreamInv, [Next]_vars
  PROVE  \A r \in Runs : SentinelIsLast(r)' /\ ProgressAddsUp(r)'
<1> USE DEF StreamInv
<1>1. ASSUME NEW r \in Runs, ~ (\E k \in Calls : Update(k)),
             gen'[r] = gen[r], adapter'[r] = adapter[r], combined'[r] = combined[r], yielded'[r] = yielded[r]
      PROVE  SentinelIsLast(r)' /\ ProgressAddsUp(r)'
  BY <1>1, SentStep, RunUntouched
<1>2. ASSUME NEW r \in Runs, StartRun(r)
      PROVE  \A s \in Runs : SentinelIsLast(s)' /\ ProgressAddsUp(s)'
  <2>1. ~ \E k \in Calls : Update(k)
    BY <1>2, DelegationConstants DEF DelegationConstants, StartRun, Update, callVars, Typed
  <2>2. \A s \in Runs \ {r} : SentinelIsLast(s)' /\ ProgressAddsUp(s)'
    BY <1>1, <1>2, <2>1 DEF StartRun, Typed
  <2>3. /\ gen'[r] = "streaming" /\ adapter'[r] = "running" /\ combined'[r] = combined[r] /\ yielded'[r] = yielded[r]
        /\ gen[r] = "idle" /\ adapter[r] = "none"
    BY <1>2 DEF StartRun, Typed, RunsInStep
  <2>4. Sent(r)' = Sent(r) /\ combined[r] = <<>>
    BY <2>1, <2>3, SentStep DEF SentinelIsLast
  <2>5. SentinelIsLast(r)' /\ ProgressAddsUp(r)'
    BY <2>3, <2>4 DEF SentinelIsLast, ProgressAddsUp, Queued
  <2> QED
    BY <2>2, <2>5
<1>3. ASSUME NEW r \in Runs, ~ (\E k \in Calls : Update(k)), adapter[r] = "running",
             gen' = gen, yielded' = yielded,
             adapter' = [adapter EXCEPT ![r] = "ended"], combined' = [combined EXCEPT ![r] = Append(@, Done)]
      PROVE  \A s \in Runs : SentinelIsLast(s)' /\ ProgressAddsUp(s)'
  <2>1. \A s \in Runs \ {r} : SentinelIsLast(s)' /\ ProgressAddsUp(s)'
    BY <1>1, <1>3 DEF Typed
  <2>2. adapter'[r] = "ended" /\ combined'[r] = Append(combined[r], Done) /\ gen[r] = "streaming"
    BY <1>3 DEF Typed, RunsInStep
  <2>3. Sent(r)' = Sent(r)
    BY <1>3, SentStep
  <2>4. SentinelIsLast(r)' /\ ProgressAddsUp(r)'
    BY <1>3, <2>2, <2>3, SentinelQueued
  <2> QED
    BY <2>1, <2>4
<1>4. ASSUME NEW r \in Runs, AdapterEnds(r)
      PROVE  \A s \in Runs : SentinelIsLast(s)' /\ ProgressAddsUp(s)'
  <2>1. ~ \E k \in Calls : Update(k)
    BY <1>4, DelegationConstants DEF DelegationConstants, AdapterEnds, Update, callVars, Typed
  <2> QED
    BY <1>3, <1>4, <2>1 DEF AdapterEnds
<1>5. ASSUME NEW k \in Calls, CallRaises(k)
      PROVE  \A s \in Runs : SentinelIsLast(s)' /\ ProgressAddsUp(s)'
  <2>1. ~ \E j \in Calls : Update(j)
    BY <1>5, DelegationConstants DEF DelegationConstants, CallRaises, Update, Typed
  <2>2. caller[k] \in Runs /\ adapter[caller[k]] = "running"
    BY <1>5 DEF CallRaises, CallsInStep, RunsInStep, Typed
  <2>3. PICK r \in Runs : r = caller[k]
    BY <2>2
  <2>4. /\ gen' = gen /\ yielded' = yielded /\ adapter' = [adapter EXCEPT ![r] = "ended"]
        /\ combined' = [combined EXCEPT ![r] = Append(@, Done)]
    BY <1>5, <2>3 DEF CallRaises, QueuesDone
  <2> QED
    BY <1>3, <2>1, <2>2, <2>3, <2>4
<1>6. ASSUME NEW r \in Runs, Yield(r)
      PROVE  \A s \in Runs : SentinelIsLast(s)' /\ ProgressAddsUp(s)'
  <2>1. ~ \E k \in Calls : Update(k)
    <3>1. updates' = updates
      BY <1>6 DEF Yield, callVars
    <3> QED
      BY <3>1, DelegationConstants DEF DelegationConstants, Update, Typed
  <2>2. /\ adapter' = adapter /\ combined' = [combined EXCEPT ![r] = Tail(@)]
        /\ \A s \in Runs \ {r} : gen'[s] = gen[s] /\ yielded'[s] = yielded[s]
    <3>1. CASE IsOver(r)
      BY <1>6, <3>1 DEF Yield, Typed
    <3>2. CASE ~ IsOver(r)
      BY <1>6, <3>2 DEF Yield, Typed
    <3> QED
      BY <3>1, <3>2
  <2>3. \A s \in Runs \ {r} : SentinelIsLast(s)' /\ ProgressAddsUp(s)'
    BY <1>1, <2>1, <2>2 DEF Typed
  <2>4. combined[r] \in Seq(Items) /\ combined[r] # <<>> /\ combined'[r] = Tail(combined[r])
    BY <1>6, <2>2 DEF Yield, Typed
  <2>5. PICK n \in Nat : n = Len(combined[r])
    BY <2>4, QueueFacts
  <2>6. n >= 1 /\ DOMAIN combined[r] = 1 .. n /\ Head(combined[r]) = combined[r][1]
    BY <2>4, <2>5, QueueFacts
  <2>7. /\ Len(combined'[r]) = n - 1 /\ DOMAIN combined'[r] = 1 .. n - 1 /\ (combined'[r] = <<>> <=> n = 1)
        /\ \A i \in 1 .. n - 1 : combined'[r][i] = combined[r][i + 1]
    <3>1. Tail(combined[r]) \in Seq(Items) /\ Len(Tail(combined[r])) = n - 1
      BY <2>4, <2>5, QueueFacts
    <3>2. DOMAIN Tail(combined[r]) = 1 .. n - 1 /\ (Tail(combined[r]) = <<>> <=> n - 1 = 0)
      BY <3>1, QueueFacts
    <3>3. \A i \in 1 .. n - 1 : Tail(combined[r])[i] = combined[r][i + 1]
      BY <2>4, <2>5, QueueFacts
    <3> QED
      BY <2>4, <3>1, <3>2, <3>3
  <2>8. gen[r] = "streaming" /\ yielded[r] \in Nat /\ Sent(r)' = Sent(r)
    BY <1>6, <2>1, SentStep DEF Yield, Typed
  <2>9. \A i \in 1 .. n : combined[r][i] = Done <=> (adapter[r] = "ended" /\ i = n)
    BY <2>5, <2>6 DEF SentinelIsLast
  <2>10. /\ Queued(r) = IF adapter[r] = "ended" THEN n - 1 ELSE n
         /\ yielded[r] + Queued(r) = Cardinality(Sent(r))
    BY <2>4, <2>5, <2>8 DEF Queued, ProgressAddsUp
  <2>11. Queued(r)' = IF n # 1 /\ adapter[r] = "ended" THEN n - 1 - 1 ELSE n - 1
    BY <2>2, <2>7 DEF Queued
  <2>12. \A i \in 1 .. n - 1 : i + 1 \in 1 .. n /\ (i + 1 = n <=> i = n - 1)
    BY <2>6
  <2>13. \A i \in DOMAIN combined'[r] : combined'[r][i] = Done <=> (adapter'[r] = "ended" /\ i = Len(combined'[r]))
    BY <2>2, <2>7, <2>9, <2>12
  <2>14. CASE IsOver(r)
    <3>1. combined[r][1] = Done /\ 1 \in 1 .. n
      BY <2>6, <2>14 DEF IsOver
    <3>2. adapter[r] = "ended" /\ n = 1
      BY <2>9, <3>1
    <3>3. gen'[r] = "over" /\ yielded'[r] = yielded[r]
      BY <1>6, <2>14 DEF Yield, Typed
    <3>4. SentinelIsLast(r)'
      BY <2>7, <2>13, <3>2, <3>3 DEF SentinelIsLast
    <3>5. Queued(r)' = 0 /\ Queued(r) = 0
      BY <2>10, <2>11, <3>2
    <3>6. ProgressAddsUp(r)'
      BY <2>8, <2>10, <3>3, <3>5 DEF ProgressAddsUp
    <3> QED
      BY <2>3, <3>4, <3>6
  <2>15. CASE ~ IsOver(r)
    <3>1. combined[r][1] # Done /\ 1 \in 1 .. n
      BY <2>6, <2>15 DEF IsOver
    <3>2. adapter[r] = "ended" => n # 1
      BY <2>9, <3>1
    <3>3. gen'[r] = "streaming" /\ yielded'[r] = yielded[r] + 1
      BY <1>6, <2>8, <2>15 DEF Yield, Typed
    <3>4. SentinelIsLast(r)'
      BY <2>2, <2>7, <2>13, <3>2, <3>3 DEF SentinelIsLast
    <3>5. Queued(r)' = Queued(r) - 1 /\ Queued(r) \in Nat \ {0}
      BY <2>6, <2>10, <2>11, <3>2
    <3>6. yielded'[r] + Queued(r)' = Cardinality(Sent(r)) /\ yielded'[r] <= Cardinality(Sent(r))
      BY <2>8, <2>10, <3>3, <3>5
    <3>7. ProgressAddsUp(r)'
      BY <2>8, <3>6 DEF ProgressAddsUp
    <3> QED
      BY <2>3, <3>4, <3>7
  <2> QED
    BY <2>3, <2>14, <2>15
<1>7. ASSUME NEW r \in Runs, CloseRun(r)
      PROVE  \A s \in Runs : SentinelIsLast(s)' /\ ProgressAddsUp(s)'
  <2>1. ~ \E k \in Calls : Update(k)
    BY <1>7, DelegationConstants DEF DelegationConstants, CloseRun, Update, Typed
  <2>2. \A s \in Runs \ {r} : SentinelIsLast(s)' /\ ProgressAddsUp(s)'
    BY <1>1, <1>7, <2>1 DEF CloseRun, Typed
  <2>3. gen'[r] = "closed" /\ combined'[r] = <<>> /\ yielded' = yielded /\ Sent(r)' = Sent(r)
    BY <1>7, <2>1, SentStep DEF CloseRun, Typed
  <2>4. SentinelIsLast(r)' /\ ProgressAddsUp(r)'
    BY <2>3 DEF SentinelIsLast, ProgressAddsUp
  <2> QED
    BY <2>2, <2>4
<1>8. ASSUME NEW k \in Calls, Update(k)
      PROVE  \A s \in Runs : SentinelIsLast(s)' /\ ProgressAddsUp(s)'
  <2>1. PICK r \in Runs : r = caller[k]
    BY <1>8 DEF Update, CallsInStep, Typed
  <2>2. adapter[r] = "running" /\ gen[r] = "streaming" /\ gen' = gen /\ adapter' = adapter /\ yielded' = yielded
    <3>1. caller[k] # NoRun /\ at[k] # "returned"
      BY <1>8 DEF Update, CallsInStep
    <3> QED
      BY <1>8, <2>1, <3>1 DEF Update, RunsInStep
  <2>3. combined' = [combined EXCEPT ![r] = Append(@, "progress")]
    BY <1>8, <2>1 DEF Update
  <2>4. \A s \in Runs \ {r} : Sent(s)' = Sent(s) /\ combined'[s] = combined[s]
    BY <1>8, <2>1, <2>3, UpdateCounts DEF Typed
  <2>5. \A s \in Runs \ {r} : SentinelIsLast(s)' /\ ProgressAddsUp(s)'
    BY <2>2, <2>4, RunUntouched
  <2> DEFINE q == combined[r]
  <2>6. q \in Seq(Items) /\ "progress" \in Items /\ combined'[r] = Append(q, "progress")
    BY <2>3 DEF Typed, Items
  <2>7. /\ Len(q) \in Nat /\ DOMAIN q = 1 .. Len(q) /\ combined'[r] # <<>> /\ Len(combined'[r]) = Len(q) + 1
        /\ combined'[r][Len(q) + 1] = "progress" /\ (\A i \in 1 .. Len(q) : combined'[r][i] = q[i])
        /\ DOMAIN combined'[r] = 1 .. Len(q) + 1
    <3>1. Append(q, "progress") \in Seq(Items)
      BY <2>6, QueueFacts
    <3>2. DOMAIN Append(q, "progress") = 1 .. Len(Append(q, "progress"))
      BY <3>1, QueueFacts
    <3> QED
      BY <2>6, <3>2, QueueFacts
  <2>8. \A i \in 1 .. Len(q) : q[i] # Done
    BY <2>2, <2>7 DEF SentinelIsLast
  <2>9. Queued(r) = Len(q)
    BY <2>2 DEF Queued
  <2> HIDE DEF q
  <2>10. Queued(r)' = Len(q) + 1
    BY <2>2, <2>7 DEF Queued
  <2>11. \A i \in 1 .. Len(q) + 1 : combined'[r][i] # Done
    BY <2>7, <2>8 DEF Done
  <2>12. SentinelIsLast(r)'
    BY <2>2, <2>7, <2>11 DEF SentinelIsLast
  <2>13. Cardinality(Sent(r))' = Cardinality(Sent(r)) + 1
    <3>1. Cardinality(Sent(caller[k]))' = Cardinality(Sent(caller[k])) + 1
      BY <1>8, UpdateCounts
    <3>2. caller'[k] = r
      BY <1>8, <2>1 DEF Update
    <3> QED
      BY <2>1, <3>1, <3>2 DEF Sent
  <2>14. Cardinality(Sent(r)) \in Nat /\ yielded[r] \in Nat
    BY SentCounts DEF Typed
  <2>15. ProgressAddsUp(r)'
    BY <2>2, <2>7, <2>9, <2>10, <2>13, <2>14 DEF ProgressAddsUp
  <2> QED
    BY <2>5, <2>12, <2>15
<1>9. CASE UNCHANGED runVars
  <2>1. CASE \E k \in Calls : Update(k)
    BY <1>8, <2>1
  <2>2. CASE ~ \E k \in Calls : Update(k)
    BY <1>1, <1>9, <2>2 DEF runVars
  <2> QED
    BY <2>1, <2>2
<1> QED
  BY <1>2, <1>4, <1>5, <1>6, <1>7, <1>8, <1>9 DEF Next, vars, CallTool, Find, Resolve, TakeMessage,
       Unresolvable, EndCall, Registered, Deleted

\* Adapters run inside their generators, and calls inside their adapters.
LEMMA RunsStep == StreamInv /\ [Next]_vars => RunsInStep'
<1> SUFFICES ASSUME StreamInv, [Next]_vars
             PROVE  RunsInStep'
  OBVIOUS
<1> USE DelegationConstants DEF DelegationConstants, StreamInv
<1> DEFINE Inside  == \A r \in Runs : /\ adapter[r] = "none" <=> gen[r] = "idle"
                                      /\ adapter[r] = "running" => gen[r] = "streaming"
           CallsIn == \A k \in Calls : caller[k] # NoRun /\ adapter[caller[k]] # "running" => at[k] = "returned"
<1>1. Inside /\ CallsIn
  BY DEF RunsInStep
<1>2. ASSUME gen' = gen, adapter' = adapter PROVE Inside'
  BY <1>1, <1>2
<1>3. ASSUME NEW k \in Calls, NEW r \in Runs, Sends(k, r) \/ Waits(k, r)
      PROVE  RunsInStep'
  <2>1. gen' = gen /\ adapter' = adapter
    BY <1>3 DEF Sends, Waits, runVars
  <2>2. /\ \A j \in Calls \ {k} : at'[j] = at[j] /\ caller'[j] = caller[j]
        /\ caller'[k] = r /\ adapter[r] = "running"
    <3>1. CASE Sends(k, r)
      <4>1. at[k] = "none" => adapter[r] = "running"
        BY <3>1 DEF Sends
      <4>2. at[k] = "found" => caller[k] = r /\ caller[k] # NoRun
        BY <3>1 DEF Sends
      <4>3. at[k] \in {"none", "found"}
        BY <3>1 DEF Sends
      <4>4. adapter[r] = "running"
        BY <1>1, <4>1, <4>2, <4>3
      <4> QED
        BY <3>1, <4>4, SentFacts
    <3>2. CASE Waits(k, r)
      BY <3>2 DEF Waits, Typed
    <3> QED
      BY <1>3, <3>1, <3>2
  <2>3. CallsIn'
    BY <1>1, <2>1, <2>2
  <2> QED
    BY <1>2, <2>1, <2>3 DEF RunsInStep
<1>4. ASSUME gen' = gen, adapter' = adapter, NEW ks \in SUBSET Calls, CallsEnd(ks)
      PROVE  RunsInStep'
  <2>1. CallsIn'
    BY <1>1, <1>4 DEF CallsEnd
  <2> QED
    BY <1>2, <1>4, <2>1 DEF RunsInStep
<1>5. ASSUME gen' = gen, adapter' = adapter, caller' = caller, at' = at
      PROVE  RunsInStep'
  BY <1>1, <1>5 DEF RunsInStep
<1>6. ASSUME NEW r \in Runs, StartRun(r)
      PROVE  RunsInStep'
  <2>1. Inside'
    BY <1>1, <1>6 DEF StartRun, Typed
  <2>2. CallsIn'
    BY <1>1, <1>6 DEF StartRun, callVars, Typed
  <2> QED
    BY <2>1, <2>2 DEF RunsInStep
<1>7. ASSUME NEW r \in Runs, AdapterEnds(r)
      PROVE  RunsInStep'
  <2>1. Inside'
    BY <1>1, <1>7 DEF AdapterEnds, Typed
  <2>2. CallsIn'
    BY <1>1, <1>7 DEF AdapterEnds, CallsOf, callVars, Typed
  <2> QED
    BY <2>1, <2>2 DEF RunsInStep
<1>8. ASSUME NEW r \in Runs, Abort(r), caller' = caller, \A s \in Runs \ {r} : adapter'[s] = adapter[s]
      PROVE  CallsIn'
  BY <1>1, <1>8 DEF Abort, Typed
<1>9. ASSUME NEW r \in Runs, CloseRun(r)
      PROVE  RunsInStep'
  <2>1. Inside'
    BY <1>1, <1>9 DEF CloseRun, Typed
  <2>2. CallsIn'
    BY <1>8, <1>9 DEF CloseRun, Typed
  <2> QED
    BY <2>1, <2>2 DEF RunsInStep
<1>10. ASSUME NEW k \in Calls, CallRaises(k)
       PROVE  RunsInStep'
  <2>1. PICK r \in Runs : r = caller[k]
    BY <1>10 DEF CallRaises, CallsInStep, Typed
  <2>2. /\ Abort(r) /\ caller' = caller /\ gen' = gen /\ adapter' = [adapter EXCEPT ![r] = "ended"]
        /\ adapter[r] = "running"
    <3>1. at[k] # "returned" /\ caller[k] # NoRun
      BY <1>10, <2>1 DEF CallRaises
    <3> QED
      BY <1>1, <1>10, <2>1, <3>1 DEF CallRaises
  <2>3. Inside'
    BY <1>1, <2>2 DEF Typed
  <2>4. CallsIn'
    BY <1>8, <2>2 DEF Typed
  <2> QED
    BY <2>3, <2>4 DEF RunsInStep
<1>11. ASSUME NEW r \in Runs, Yield(r)
       PROVE  RunsInStep'
  <2>1. adapter' = adapter /\ caller' = caller /\ at' = at /\ gen[r] = "streaming" /\ combined[r] # <<>>
    BY <1>11 DEF Yield, callVars
  <2>2. CASE IsOver(r)
    <3>1. gen' = [gen EXCEPT ![r] = "over"]
      BY <1>11, <2>2 DEF Yield
    <3>2. combined[r][1] = Done /\ 1 \in DOMAIN combined[r]
      <4>1. combined[r] \in Seq(Items)
        BY DEF Typed
      <4> QED
        BY <2>1, <2>2, <4>1, QueueFacts DEF IsOver
    <3>3. adapter[r] = "ended"
      BY <3>2 DEF SentinelIsLast
    <3>4. Inside'
      BY <1>1, <2>1, <3>1, <3>3 DEF Typed
    <3> QED
      BY <1>1, <2>1, <3>4 DEF RunsInStep
  <2>3. CASE ~ IsOver(r)
    BY <1>5, <1>11, <2>1, <2>3 DEF Yield
  <2> QED
    BY <2>2, <2>3
<1>12. ASSUME NEW k \in Calls, Unresolvable(k) \/ EndCall(k)
       PROVE  RunsInStep'
  <2>1. CallsIn'
    BY <1>1, <1>12 DEF Unresolvable, EndCall, runVars, Typed
  <2> QED
    BY <1>2, <1>12, <2>1 DEF Unresolvable, EndCall, runVars, RunsInStep
<1>13. ASSUME NEW k \in Calls, Update(k)
       PROVE  RunsInStep'
  BY <1>5, <1>13 DEF Update
<1>14. CASE (\E p \in Providers : Registered(p) \/ Deleted(p)) \/ UNCHANGED vars
  BY <1>5, <1>14 DEF Registered, Deleted, vars, runVars, callVars
<1>15. ASSUME NEW k \in Calls, NEW r \in Runs, CallTool(k, r)
       PROVE  RunsInStep'
  BY <1>3, <1>15, CallFacts
<1>16. ASSUME NEW k \in Calls, Resolve(k)
       PROVE  RunsInStep'
  BY <1>3, <1>16, CallFacts
<1>17. ASSUME NEW k \in Calls, Find(k) \/ TakeMessage(k)
       PROVE  RunsInStep'
  <2>1. /\ caller' = caller /\ gen' = gen /\ adapter' = adapter
        /\ at[k] # "returned" /\ \A j \in Calls \ {k} : at'[j] = at[j]
    BY <1>17, TakenFacts DEF Find, TakeMessage, runVars, Typed
  <2>2. CallsIn'
    BY <1>1, <2>1
  <2> QED
    BY <1>2, <2>1, <2>2 DEF RunsInStep
<1> QED
  BY <1>6, <1>7, <1>9, <1>10, <1>11, <1>12, <1>13, <1>14, <1>15, <1>16, <1>17 DEF Next

\* No step leads out of the invariant of the streams.
LEMMA StreamStep == StreamInv /\ [Next]_vars => StreamInv'
  BY TypedStep, CallsStep, RunsStep, LedgerStep DEF StreamInv

\* A stream that came to its end has yielded every update its tools relayed:
\* the sentinel is queued behind all of them, by drain_adapter's finally.
THEOREM ProgressIsAlwaysSeen == Spec => []ProgressIsSeen
<1>1. StreamInv => ProgressIsSeen
  <2> SUFFICES ASSUME StreamInv, NEW r \in Runs, gen[r] = "over"
               PROVE  yielded[r] = Cardinality(Sent(r))
    BY DEF ProgressIsSeen
  <2>1. combined[r] = <<>>
    BY DEF StreamInv, SentinelIsLast
  <2>2. Queued(r) = 0
    BY <2>1 DEF Queued
  <2>3. yielded[r] \in Nat /\ yielded[r] + Queued(r) = Cardinality(Sent(r))
    BY DEF StreamInv, ProgressAddsUp, Typed
  <2> QED
    BY <2>2, <2>3
<1> QED
  BY <1>1, StreamInit, StreamStep, PTL DEF Spec

\* Every variable keeps its type, the two counters within their bounds: there
\* is a call for each thread started, and no more updates than calls allow.
THEOREM TypeCorrect == Spec => []TypeOK
<1> USE DelegationConstants DEF DelegationConstants
<1>1. ASSUME StreamInv, ThreadInv
      PROVE  TypeOK
  <2>1. \A r \in Runs : yielded[r] \in 0 .. MaxUpdates * MaxCalls
    <3>1. MaxUpdates * MaxCalls \in Nat
      OBVIOUS
    <3> QED
      BY <1>1, <3>1, SentCounts DEF StreamInv, ProgressAddsUp, Typed
  <2>2. minted \in SubThreads
    <3> DEFINE first == [s \in 1 .. minted |-> CHOOSE k \in Calls : sub[k] = s]
    <3>1. minted \in Nat
      BY <1>1 DEF StreamInv, Typed
    <3>2. \A s \in 1 .. minted : first[s] \in Calls /\ sub[first[s]] = s
      BY <1>1 DEF ThreadInv, ThreadsNumbered
    <3>3. first \in [1 .. minted -> Calls]
      BY <3>2
    <3>4. IsFiniteSet(Calls) /\ Cardinality(Calls) = MaxCalls
          /\ IsFiniteSet(1 .. minted) /\ Cardinality(1 .. minted) = minted
      BY <3>1, FS_Interval DEF Calls
    <3>5. minted <= MaxCalls
      <4> SUFFICES ASSUME ~ minted <= MaxCalls
                   PROVE  FALSE
        OBVIOUS
      <4>1. PICK n \in Nat : n = minted
        BY <3>1
      <4>2. PICK f \in [1 .. n -> Calls] : f = first
        BY <3>3, <4>1
      <4>3. Cardinality(Calls) < Cardinality(1 .. n)
        BY <3>1, <3>4, <4>1
      <4>4. \E s, t \in 1 .. n : s # t /\ f[s] = f[t]
        <5> HIDE DEF first
        <5>1. IsFiniteSet(Calls) /\ IsFiniteSet(1 .. n)
          BY <3>4, <4>1
        <5> QED
          BY <4>3, <5>1, FS_PigeonHole, Zenon
      <4> QED
        BY <3>2, <4>1, <4>2, <4>4
    <3> QED
      BY <3>1, <3>5 DEF SubThreads
  <2>3. \A k \in Calls : sub[k] \in SubThreads
    BY <1>1, <2>2 DEF ThreadInv, ThreadsNumbered, Typed, SubThreads
  <2>4. \A t \in Threads : context[t] \in SubThreads
    <3>1. ASSUME NEW t \in Threads
          PROVE  context[t] = NoThread \/ \E k \in Calls : sub[k] = context[t]
      BY <1>1 DEF ThreadInv, KeptIsKnown, Known, Under
    <3> QED
      BY <2>3, <3>1 DEF SubThreads, NoThread
  <2>6. \A k \in Calls : message[k].contextId \in SubThreads
    <3>1. ASSUME NEW k \in Calls
          PROVE  message[k].contextId = NoThread \/ \E j \in Calls : sub[j] = message[k].contextId
      BY <1>1 DEF ThreadInv, CallsInStep, SentIsKnown, Typed
    <3> QED
      BY <2>3, <3>1 DEF SubThreads, NoThread
  <2>7. message \in [Calls -> [path : Addresses, contextId : SubThreads]]
    BY <1>1, <2>6 DEF StreamInv, Typed
  <2>5. yielded \in [Runs -> 0 .. MaxUpdates * MaxCalls] /\ sub \in [Calls -> SubThreads] /\ context \in [Threads -> SubThreads]
    BY <1>1, <2>1, <2>3, <2>4 DEF StreamInv, Typed
  <2> QED
    BY <1>1, <2>2, <2>5, <2>7 DEF StreamInv, Typed, TypeOK, Places
<1> QED
  BY <1>1, StreamInit, StreamStep, ThreadInit, ThreadStep, PTL DEF Spec

=============================================================================
