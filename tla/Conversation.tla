---------------------------- MODULE Conversation ----------------------------
(***************************************************************************)
(* A conversation over AG-UI: a caller takes its turns one after another,  *)
(* souk's AG-UI surface turns each into a run on a thread, and the         *)
(* openai-compat provider answers it from a chat endpoint.                 *)
(*                                                                         *)
(*   - the caller is SoukClient (souk-client-sdk/souk_client_sdk/          *)
(*     client.py), whose user passes last_thread_id on, or the page of     *)
(*     souk-directory (src/agent.ts), which keeps a threadId;              *)
(*   - the surface is api_agui.py with resolve_ref of deps.py;             *)
(*   - run_stream is openai_compat_agent/main.py;                          *)
(*   - external: what core makes of a turn (souk.protocols.agui, used      *)
(*     through AGUIAdapter), the roster and its providers, the endpoint.   *)
(*                                                                         *)
(* How a run's events reach souk over the provider socket is modelled in   *)
(* ProviderRelay; here they arrive in order while the provider is attached *)
(* and none of those that arrive is preceded by one that does not.  The    *)
(* caller speaks to one agent, held since it was resolved.  An action is   *)
(* the code between two awaits.                                            *)
(***************************************************************************)
EXTENDS Market

CONSTANTS
  Listable,     \* the agents providers may list
  Asked,        \* the name and provider the caller asks for
  Kinds,        \* who may call: "sdk", "page"
  MaxTurns,     \* turns the caller takes
  Deltas,       \* turn -> deltas of the longest answer to it
  MaxDeltas,    \* deltas an answer has at most
  MaxRestarts   \* restarts of the gateway

ASSUME ConversationConstants ==
  /\ IsFiniteSet(Listable) /\ Listable \subseteq [key : Providers, name : DOMAIN Says]
  /\ Kinds \subseteq {"sdk", "page"}
  /\ MaxTurns \in Nat /\ MaxRestarts \in Nat
  /\ MaxDeltas \in Nat /\ Deltas \in [1 .. MaxTurns -> 0 .. MaxDeltas]

Turns    == 1 .. MaxTurns
NoThread == 0

\* run_stream came to its end, the second time over an error it passed over.
Over == {"over", "overlooked"}

VARIABLES
  \* souk
  roster,    \* the agents it lists
  serving,   \* those a provider serves
  threads,   \* thread -> the agent it belongs to, or NotFound once it is lost
  restarts,
  \* the caller
  kind,      \* "sdk" or "page"
  held,      \* the Agent it resolved
  threadId,  \* last_thread_id, or the page's threadId
  turn,      \* the turn it is at
  at,        \* where that turn is
  sent,      \* turn -> the thread it was sent with
  seen,      \* turn -> how many of its run's events the caller has
  end,       \* turn -> how it ended for the caller
  \* the runs
  on,        \* turn -> the thread of its run
  gen,       \* turn -> its run_stream, as far as souk has heard of it
  deltas,    \* turn -> deltas the endpoint has yielded
  events     \* turn -> the events of the run that souk has

souk   == <<roster, serving, threads, restarts>>
caller == <<kind, held, threadId, turn, at, sent, seen, end>>
runs   == <<on, gen, deltas, events>>
vars   == <<souk, caller, runs>>

Init ==
  /\ roster = {} /\ serving = {}
  /\ threads = <<>>
  /\ restarts = 0
  /\ kind \in Kinds
  /\ held = NotFound
  /\ threadId = NoThread
  /\ turn = 0 /\ at = "idle"
  /\ sent = [n \in Turns |-> NoThread]
  /\ seen = [n \in Turns |-> 0]
  /\ end = [n \in Turns |-> "none"]
  /\ on = [n \in Turns |-> NoThread]
  /\ gen = [n \in Turns |-> "none"]
  /\ deltas = [n \in Turns |-> 0]
  /\ events = [n \in Turns |-> <<>>]

Known(t)  == t \in DOMAIN threads /\ threads[t] # NotFound
\* A run souk takes to be under way; of one that is gone nothing comes any more.
Open(n)   == gen[n] \in {"running", "gone"}
Active(t) == \E n \in Turns : on[n] = t /\ Open(n)
Reached   == ResolveRef(roster, Path(held).provider, Path(held).name)

-----------------------------------------------------------------------------
(* The caller, and the surface answering it.                               *)

\* SoukClient.resolve, or loadAgentInfo of the page, which shows no form
\* until an agent is found.
Resolve ==
  /\ held = NotFound
  /\ held' = ClientResolve(roster, Asked.name, Asked.said)
  /\ held' \in roster
  /\ UNCHANGED <<souk, kind, threadId, turn, at, sent, seen, end, runs>>

\* run or sendMessage, with the thread of the turns before; without one a
\* thread is asked for first.
TakeTurn ==
  /\ at = "idle" /\ turn < MaxTurns
  /\ held # NotFound
  /\ turn' = turn + 1
  /\ sent' = [sent EXCEPT ![turn + 1] = threadId]
  /\ at' = IF threadId = NoThread THEN "creating" ELSE "posting"
  /\ UNCHANGED <<souk, kind, held, threadId, seen, end, runs>>

\* The turn is over for the caller.
Ends(how) ==
  /\ at' = "idle"
  /\ end' = [end EXCEPT ![turn] = how]

\* POST /threads of an agent souk lists: the page keeps the id it is given, the SDK
\* has it in a local variable.
CreateThread ==
  /\ at = "creating"
  /\ Reached # NotFound
  /\ threads' = Append(threads, Reached)
  /\ sent' = [sent EXCEPT ![turn] = Len(threads) + 1]
  /\ threadId' = IF kind = "page" THEN Len(threads) + 1 ELSE threadId
  /\ at' = "posting"
  /\ UNCHANGED <<roster, serving, restarts, kind, held, turn, seen, end, runs>>

\* POST /threads of one it does not list: 404 raises in the SDK, while the
\* page reads no id out of the answer and posts without one.
CreateRefused ==
  /\ at = "creating"
  /\ Reached = NotFound
  /\ IF kind = "sdk" THEN Ends("refused") ELSE at' = "posting" /\ UNCHANGED end
  /\ UNCHANGED <<souk, kind, held, threadId, turn, sent, seen, runs>>

\* The answer's headers are there: the SDK notes the thread it sent.
Connected(t) == threadId' = IF kind = "sdk" THEN t ELSE threadId

\* An answer that is no stream: aiter_sse raises in the SDK, the page takes
\* it for the snapshot of a run in flight.
AnsweredWithJson == Ends(IF kind = "sdk" THEN "refused" ELSE "inflight")

\* The first event of every run, and those of a run that found nobody serving.
Started(t) == [type |-> "RUN_STARTED", thread |-> t]
Event(type) == [type |-> type]

\* _run_agent: a run is started on the thread sent, or on a new one if souk
\* does not know it; with nobody serving the agent it fails at once.  The
\* answer may be lost on its way.
StartRun ==
  LET t == IF Known(sent[turn]) THEN sent[turn] ELSE Len(threads) + 1
  IN  /\ at = "posting"
      /\ sent[turn] # NoThread
      /\ Reached # NotFound
      /\ ~ Active(t)
      /\ threads' = IF Known(t) THEN threads ELSE Append(threads, Reached)
      /\ on' = [on EXCEPT ![turn] = t]
      /\ gen' = [gen EXCEPT ![turn] = IF Reached \in serving THEN "running" ELSE "over"]
      /\ events' = [events EXCEPT ![turn] =
                      IF Reached \in serving THEN <<Started(t)>> ELSE <<Started(t), Event("RUN_ERROR")>>]
      /\ \/ Connected(sent[turn]) /\ at' = "reading" /\ UNCHANGED end
         \/ Ends("lost") /\ UNCHANGED threadId
      /\ UNCHANGED <<roster, serving, restarts, kind, held, turn, sent, seen, deltas>>

\* A run is active on the thread: its snapshot is the answer, and names the
\* thread that was sent.
ReportActive ==
  /\ at = "posting"
  /\ Reached # NotFound
  /\ Active(sent[turn])
  /\ Connected(sent[turn])
  /\ AnsweredWithJson
  /\ UNCHANGED <<souk, kind, held, turn, sent, seen, runs>>

\* An agent souk does not list, or no thread in the body: an error as JSON.
RunRefused ==
  /\ at = "posting"
  /\ Reached = NotFound \/ sent[turn] = NoThread
  /\ Connected(sent[turn])
  /\ AnsweredWithJson
  /\ UNCHANGED <<souk, kind, held, turn, sent, seen, runs>>

\* A request fails on its way, or the answer does, or times out.
RequestFails ==
  /\ at \in {"creating", "posting"}
  /\ Ends("lost")
  /\ UNCHANGED <<souk, kind, held, threadId, turn, sent, seen, runs>>

\* Mutant: the thread a run says it is on is not looked at.
LearnNothing(event) == UNCHANGED threadId

\* RUN_STARTED says which thread the run is on.
Learn(event) == threadId' = IF event.type = "RUN_STARTED" THEN event.thread ELSE threadId

\* The next event reaches the caller.
ReadEvent ==
  /\ at = "reading"
  /\ seen[turn] < Len(events[turn])
  /\ seen' = [seen EXCEPT ![turn] = @ + 1]
  /\ Learn(events[turn][seen[turn] + 1])
  /\ UNCHANGED <<souk, kind, held, turn, at, sent, end, runs>>

\* Mutant: the stream is kept open until the run has finished.
SaidAllAndFinished(n) == Last(events[n]).type = "RUN_FINISHED" /\ seen[n] = Len(events[n])

\* The caller has all that the run will ever say.
SaidAll(n) == gen[n] \in Over /\ seen[n] = Len(events[n])

\* The stream ends behind its last event.
StreamEnds ==
  /\ at = "reading"
  /\ SaidAll(turn)
  /\ Ends("told")
  /\ UNCHANGED <<souk, kind, held, threadId, turn, sent, seen, runs>>

\* It breaks off: the read timeout, or the connection.
BreaksOff ==
  /\ at = "reading"
  /\ Ends("broken")
  /\ UNCHANGED <<souk, kind, held, threadId, turn, sent, seen, runs>>

-----------------------------------------------------------------------------
(* run_stream of the openai-compat provider.                               *)

\* Has the reply been opened?
Opened(n) == \E i \in DOMAIN events[n] : events[n][i].type = "TEXT_MESSAGE_START"

Content(d) == [type |-> "TEXT_MESSAGE_CONTENT", delta |-> d]

\* Mutant: the delta that opens the message is not passed on.
PassOnOrOpen(n, d) == IF Opened(n) THEN <<Content(d)>> ELSE <<Event("TEXT_MESSAGE_START")>>

\* A delta is passed on; the first opens the message.
PassOn(n, d) == (IF Opened(n) THEN <<>> ELSE <<Event("TEXT_MESSAGE_START")>>) \o <<Content(d)>>

\* The end of an answer closes its message.
Finished(n) == (IF Opened(n) THEN <<Event("TEXT_MESSAGE_END")>> ELSE <<>>) \o <<Event("RUN_FINISHED")>>

\* Mutant: the error is yielded, and the function goes on behind the try.
FailedAndFinished(n) == <<Event("RUN_ERROR")>> \o Finished(n)

\* The upstream call failed.
Failed(n) == <<Event("RUN_ERROR")>>

\* What souk records of a run, and where that leaves it.
Records(n, more, next) ==
  /\ events' = [events EXCEPT ![n] = @ \o more]
  /\ gen' = [gen EXCEPT ![n] = next]
  /\ UNCHANGED <<souk, caller, on>>

\* What run_stream yields next reaches souk once its provider is attached.
Yields(n, more, next) ==
  /\ gen[n] = "running"
  /\ threads[on[n]] \in serving
  /\ Records(n, more, next)

\* A chunk with a delta in it.
Delta(n) ==
  /\ deltas[n] < Deltas[n]
  /\ deltas' = [deltas EXCEPT ![n] = @ + 1]
  /\ Yields(n, PassOn(n, deltas[n] + 1), "running")

\* The endpoint says [DONE], or its stream ends.
EndpointEnds(n) == Yields(n, Finished(n), "over") /\ UNCHANGED deltas

\* It reports an error in the middle of its stream and ends it: a chunk without
\* choices is passed over, whatever else it has.
EndpointReports(n) ==
  /\ deltas[n] > 0
  /\ Yields(n, Finished(n), "overlooked")
  /\ UNCHANGED deltas

\* The call fails, times out or is answered with anything but a stream.
EndpointFails(n) == Yields(n, Failed(n), "over") /\ UNCHANGED deltas

-----------------------------------------------------------------------------
(* The market (external), and the gateway coming up again.                 *)

\* A provider registers what it offers.
Register(key) ==
  LET batch == {row \in Listable : row.key = key}
  IN  /\ ~ batch \subseteq roster
      /\ \A row \in batch : MayList(roster, row)
      /\ roster' = roster \cup batch
      /\ UNCHANGED <<serving, threads, restarts, caller, runs>>

\* It attaches and serves it.  Whether somebody serves an agent the caller
\* does not mean makes no difference to it.
Serve(row) ==
  /\ row \in roster \ serving /\ Means(Asked.said, row)
  /\ serving' = serving \cup {row}
  /\ UNCHANGED <<roster, threads, restarts, caller, runs>>

\* A provider's socket drops or its process ends, and all it served is gone
\* at once.  The runs in lost are not heard of any more: every run of a process
\* that ended, or the one whose last frame the writer of the socket had in hand.
Detach(key, lost) ==
  LET left == {row \in serving : row.key = key}
      its  == {n \in Turns : gen[n] = "running" /\ threads[on[n]] \in left}
  IN  /\ left # {}
      /\ lost = its \/ (lost \subseteq its /\ Cardinality(lost) <= 1)
      /\ serving' = serving \ left
      /\ gen' = [n \in Turns |-> IF n \in lost THEN "gone" ELSE gen[n]]
      /\ UNCHANGED <<roster, threads, restarts, caller, on, deltas, events>>

\* Core's stall sweep ends a run that is gone, or whose provider stays away.
Sweep(n) ==
  /\ gen[n] = "gone" \/ (gen[n] = "running" /\ threads[on[n]] \notin serving)
  /\ Records(n, <<Event("RUN_ERROR")>>, "over")
  /\ UNCHANGED deltas

\* The gateway is started again, on the database it had or on another: what
\* was under way is over, and nobody serves until it attaches again.
Restart(sameDatabase) ==
  /\ restarts < MaxRestarts
  /\ restarts' = restarts + 1
  /\ serving' = {}
  /\ roster' = IF sameDatabase THEN roster ELSE {}
  /\ threads' = IF sameDatabase THEN threads ELSE [t \in DOMAIN threads |-> NotFound]
  /\ gen' = [n \in Turns |-> IF Open(n) THEN "cut" ELSE gen[n]]
  /\ IF at = "idle" THEN UNCHANGED <<at, end>>
     ELSE Ends(IF at = "reading" THEN "broken" ELSE "lost")
  /\ UNCHANGED <<kind, held, threadId, turn, sent, seen, on, deltas, events>>

-----------------------------------------------------------------------------
Next ==
  \/ Resolve \/ TakeTurn
  \/ CreateThread \/ CreateRefused
  \/ StartRun \/ ReportActive \/ RunRefused \/ RequestFails
  \/ ReadEvent \/ StreamEnds \/ BreaksOff
  \/ \E n \in Turns : Delta(n) \/ EndpointEnds(n) \/ EndpointReports(n) \/ EndpointFails(n)
  \/ \E key \in Providers : Register(key)
  \/ \E row \in Listable : Serve(row)
  \/ \E key \in Providers, lost \in SUBSET Turns : Detach(key, lost)
  \/ \E n \in Turns : Sweep(n)
  \/ \E sameDatabase \in BOOLEAN : Restart(sameDatabase)

Spec == Init /\ [][Next]_vars

\* souk answers a request that does not fail, and the caller reads what it is
\* sent.  A silent run is ended by its provider, which gives the endpoint up
\* after timeout_seconds, or by the sweep if its provider is gone or away.
Fairness ==
  /\ WF_vars(\/ CreateThread \/ CreateRefused \/ StartRun \/ ReportActive \/ RunRefused
             \/ ReadEvent \/ StreamEnds)
  /\ \A n \in Turns : WF_vars(EndpointFails(n) \/ Sweep(n))

FairSpec == Spec /\ Fairness

-----------------------------------------------------------------------------
Terminal == {"RUN_FINISHED", "RUN_ERROR"}

\* The type invariant.
TypeOK ==
  /\ roster \subseteq Listable /\ serving \subseteq roster
  /\ threads \in Seq(Listable \cup {NotFound})
  /\ restarts \in 0 .. MaxRestarts
  /\ kind \in Kinds
  /\ held \in Listable \cup {NotFound}
  /\ threadId \in 0 .. Len(threads)
  /\ turn \in 0 .. MaxTurns
  /\ at \in {"idle", "creating", "posting", "reading"}
  /\ sent \in [Turns -> 0 .. Len(threads)] /\ on \in [Turns -> 0 .. Len(threads)]
  /\ end \in [Turns -> {"none", "told", "refused", "inflight", "lost", "broken"}]
  /\ gen \in [Turns -> {"none", "running", "gone", "cut"} \cup Over]
  /\ \A n \in Turns : deltas[n] \in 0 .. Deltas[n]
  /\ \A n \in Turns : seen[n] \in 0 .. Len(events[n])

\* Whatever the endpoint does, and wherever it fails, a run's stream is one a
\* caller can follow: it begins with RUN_STARTED, opens its message once and
\* says nothing outside it, closes it before it finishes, and a stream that
\* was not cut ends with the one RUN_FINISHED or RUN_ERROR it has.
StreamIsWellFormed ==
  \A n \in Turns :
    LET types == [i \in DOMAIN events[n] |-> events[n][i].type]
        count(type) == Cardinality({i \in DOMAIN types : types[i] = type})
        before(i, type) == \E j \in 1 .. i - 1 : types[j] = type
    IN  /\ gen[n] \in Over => types # <<>> /\ Last(types) \in Terminal
        /\ count("TEXT_MESSAGE_START") <= 1
        /\ \A i \in DOMAIN types :
             /\ (types[i] = "RUN_STARTED") <=> (i = 1)
             /\ types[i] \in Terminal => i = Len(types)
             /\ types[i] = "TEXT_MESSAGE_CONTENT" =>
                  before(i, "TEXT_MESSAGE_START") /\ ~ before(i, "TEXT_MESSAGE_END")
             /\ types[i] = "RUN_FINISHED" => count("TEXT_MESSAGE_START") = count("TEXT_MESSAGE_END")

\* The caller was told the thread of turn j's run: by RUN_STARTED, or by the
\* answer to a turn sent on it.
Told(j) == seen[j] > 0 \/ (on[j] = sent[j] /\ end[j] \notin {"none", "lost"})

\* A conversation stays one: whatever refusals, lost answers, broken streams
\* and restarts lie between, every run of the caller's is on the thread of an
\* earlier run it was told of, as long as souk still has that thread.
TurnsStayTogether ==
  \A j, k \in Turns :
    j < k /\ on[j] # NoThread /\ on[k] # NoThread /\ Told(j) /\ Known(on[j]) => on[k] = on[j]

\* The deltas among the events a caller has of turn n, in their order.
Received(n) ==
  LET read == {i \in 1 .. seen[n] : events[n][i].type = "TEXT_MESSAGE_CONTENT"}
      place(k) == CHOOSE i \in read : Cardinality({j \in read : j <= i}) = k
  IN  [k \in 1 .. Cardinality(read) |-> events[n][place(k)].delta]

HasRead(n, type) == \E i \in 1 .. seen[n] : events[n][i].type = type

\* A run of the openai-compat provider keeps the promise of AnswerStream.
Answer == INSTANCE AnswerStream WITH
  Reqs     <- Turns,
  Chunks   <- MaxDeltas,
  state    <- [n \in Turns |-> IF HasRead(n, "RUN_FINISHED") THEN "completed"
                               ELSE IF end[n] # "none" THEN "failed"
                               ELSE IF on[n] # NoThread THEN "open" ELSE "new"],
  received <- [n \in Turns |-> Received(n)],
  yielded  <- deltas,
  finished <- [n \in Turns |-> \E i \in DOMAIN events[n] : events[n][i].type = "RUN_FINISHED"]

\* What a caller reads of an answer, and what passes as a finished one, is
\* what AnswerStream allows.
AnswersAsPromised == Answer!Spec

\* No turn is waited for in vain: an answer comes to every request, and a
\* stream ends although its provider's process is gone for good, lost the end
\* of the run or comes and goes, or the endpoint or souk fails in the middle.
TurnEnds == at # "idle" ~> at = "idle"

\* The docent, the provider's tools and the roster route show one market,
\* whoever lists an agent, serves one or goes away.
MarketAddsUp == AddsUp(roster, serving)

\* Nobody picks a winner: the sub-agent tool, the client SDK, the provider's
\* tools, the docent and the routes come to the same agent or the same
\* refusal, whatever the roster becomes.
ResolversAgree == Agree(roster, DOMAIN Says)

-----------------------------------------------------------------------------
(* What the repository says of this and the code does not do.              *)

\* An answer the endpoint broke off with an error does not pass as finished.
ReportedErrorIsTold ==
  \A n \in Turns : gen[n] = "overlooked" => Last(events[n]).type = "RUN_ERROR"

\* The page says that a turn is already in flight when it is.
InFlightMeansRunning ==
  [][\A n \in Turns : end'[n] = "inflight" /\ end[n] = "none" => Active(sent[n])]_vars

\* A word such as "for" in a visitor's sentence finds nobody.
ShortWordsAreDropped ==
  \A row \in roster : SearchAgents({row}, <<"help", "for">>) = {}

=============================================================================
