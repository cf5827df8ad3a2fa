# AgentSoukServer: TLA+ models, checks and proofs

AgentSoukServer is the network face of *souk*, a market in which providers
offer agents and LLMs. This directory holds TLA+ specifications of the parts of
it that keep state across awaits, sockets and processes, TLC configurations
that check them on small instances, and TLAPS proofs that the invariants those
runs check hold for every value of the constants. All paths below are relative to the repository root.

## The system

| Part | State it keeps | Operations | Talks to | Correct when |
|---|---|---|---|---|
| Provider socket, `souk_server/ws_provider.py`, `ws_common.py` | per socket: the link, the acks awaited, an outbound queue, a writer and a watcher task | handshake, attach, deliver an offer, cancel, read ack/event/finish/query, recheck registration, clean up | core (attach, detach, report), the provider's client | no offer waits on a dead socket; what is recorded of a run is what the provider did; a provider is not served by a dead link nor left invisible |
| Agent SDK, `souk-agent-sdk/souk_agent_sdk/client.py` | one outbound queue and one table of query waiters over all sockets | register, connect, prove itself, take offers, cancel, report, ask for a thread | provider socket, registry | nothing is said twice after a reconnect, a finish is not lost in the queue, a caller is not left waiting, the pinned souk is the one served |
| KYOK socket, `souk_server/ws_kyok.py` | per socket: a table of answer streams | deliver a completion, feed chunks, end, fail what is pending | core's completion relay, an LLM provider | answers stay on the connection their request went to; a truncated answer never looks complete |
| KYOK bridge, `souk-client-sdk/souk_client_sdk/kyok_bridge.py` | a serve task, per socket a writer and one task per completion, the registration | `serving()`, `serve_forever`, register, deregister | KYOK socket, registry, the caller's LLM | leaving the block ends it, and an ephemeral offering does not outlive it |
| Registry and HTTP surfaces, `souk_server/api_*.py`, `deps.py` | none of their own | register, delete, list, resolve a path, create a thread, run on one | core | a name leads to the agent that was meant or to nobody; a turn is always answered |
| Docent, `souk_server/mcp_docent.py`, and the provider's own market tools, `souk_tools.py` | none | read-only tools over the roster | core, registry | all show the same market, and a name means the same agent to all of them |
| Client SDK, `souk-client-sdk/souk_client_sdk/client.py`, and the page, `souk-directory/src/agent.ts` | the agent held, the thread of the conversation | resolve, create a thread, take a turn, read its stream | AG-UI surface, registry | a conversation stays on one thread; what the caller takes for an answer is one |
| openai-compat agent, `providers/openai-compat-agent` | per run: whether the reply is opened | run a stream from a chat endpoint | agent SDK, an LLM endpoint | a stream is well formed however the endpoint fails |
| pod-probe agent (Go), `providers/pod-probe-agent` | one goroutine per run, bound to a socket; a table of cancels per socket | dial, prove, serve, start, cancel, finish | provider socket | a run taken is acked first, can be cancelled and ends |
| pydantic-ai agent, `providers/pydantic-ai-agent` | per conversation: the sub-agents' contextIds; per process: their addresses | run a stream, call a sub-agent, rebuild history | agent SDK, A2A over HTTP, registry | progress is seen, streams end, conversations stay apart, turns stay in order |
| souk core | everything persistent | | | a git submodule that is empty here: external |

What is hard in it: every component reconnects for ever, so anything may be in
flight on a socket that is gone while its successor is already up; cleanups
await tasks that may themselves be failing; questions and answers are matched
through tables that outlive neither end; timeouts race late answers; and the
registry may change under a connection that was valid when it was made.
`PROJECT.json` lists these hazards at the lines where they bite, with the
properties that would show them going wrong.

## The modules

| Module | Models | Composition |
|---|---|---|
| `ProviderRelay` | offers, acks, cancels, events and finishes of runs between core's broker, the gateway and the SDK, over a sequence of sockets | |
| `KyokRelay` | completions between core, the KYOK socket and the bridge | implements `AnswerStream` |
| `AnswerStream` | what a completion promises whoever reads it | abstract specification |
| `LinkQueries` | questions a provider asks over its socket, and the conversation rebuilt from the answer | EXTENDS `ThreadHistory` |
| `ThreadHistory` | the merge of stored and sent turns, as operators | |
| `Attachment` | registration, the four-frame handshake of three clients with both sockets, pins, and the registration watcher | |
| `BridgeLifecycle` | the bridge's `serving()` block, its serve task, registration and deletion | |
| `PodProbe` | the Go probe: dial loop, goroutines, cancels, termination | |
| `Delegation` | runs of the pydantic-ai agent calling a sub-agent over A2A | EXTENDS `Roster` |
| `Roster` | the ways a name is turned into an agent, as operators | |
| `Market` | the views of the roster: docent, provider's tools, roster route, as operators | EXTENDS `Roster` |
| `Conversation` | a caller's turns over AG-UI, the threads they are on, and the openai-compat agent's streams | EXTENDS `Market`, implements `AnswerStream` |
| `ProviderRelayProofs`, `KyokRelayProofs`, `LinkQueriesProofs`, `AttachmentProofs`, `BridgeLifecycleProofs`, `PodProbeProofs`, `DelegationProofs`, `ConversationProofs` | the theorems about a module and their proofs | each EXTENDS its module |

Each `MC*.tla` gives a module's constants their values. An action is one
uninterrupted stretch of one task, from one `await` (or one channel or socket
operation, in Go) to the next, so every interleaving the event loop or the Go
scheduler can produce is a behaviour. The variables carry, in their comments,
the attribute or local they stand for. Definitions whose comment begins with
"Mutant" are plausible bugs: each property is shown to fail when the definition
next to the mutant is replaced by it (`mutants` in `PROJECT.json`).

**ProviderRelay.** `deliver` is `Deliver` (queue the frame, await the ack) and
`OfferReturns` or `OfferTimesOut` (the `finally` that takes the waiter out of
the table). `provider_socket` is `Accept`, `Attach`/`AttachReturns`/
`AttachRefused`, the `Read*` actions of its loop, and `Disconnected`, its whole
`finally`: pending acks fail, then the scoped detach. On the client,
`run_forever` is `Connect` and `ConnectionLost`, `_offer` is `ReceiveRun`,
`_write_loop` is `WriteFrame`/`WriteFails`. `offer.by` and the stamp on frames
are history, telling which offer an ack was really sent for. A provider is
never offered a name it does not host, so that branch of `_offer` is no input.
The watcher's close of a socket is one of the reasons behind `Drop`.

**KyokRelay.** `complete` binds a request to the connection it was delivered on
and `_answer_stream` reads items until a done, an error, the gap timeout or the
caller's departure; the reader may also never start. `ReadChunk`/`ReadEnd` are
the gateway's loop, `StreamChunk`/`EndTask` the bridge's task per completion.
`StrayFrame` is a frame that names a completion of another connection. Each
connection of the bridge has an outbound queue of its own, which its tasks were
handed when they began: a task left over from a dead connection goes on with its
LLM and fills a queue no writer reads, until `ConnectionLost` cancels it, which it
does only if the writer had not failed before.

**Attachment.** One module for the four frames because all three clients speak
to the same gateway code: `kind` says which client it is, and they differ where
the code does (the probe connects although registering failed, and waits without
a timeout; the bridge does not check who answers and has no watcher). Signatures
are abstracted to the key that made them; `hello` says whether the client's frames
are such as the gateway accepts, and which of its checks they fail. One socket at a
time: the race between an old socket's cleanup and its replacement is
`ProviderRelay`'s.

**LinkQueries.** `thread_messages` is `Ask`, `Resume` and `TimesOut`; the
gateway's task per query is `GetThread`, `GetThreadMessages` and
`AnswerRaises`. Messages are numbered by their position in the thread, and an
answer is the span it covers. What `merge` keeps of the sent turns is a list
comprehension with a condition; `TailOf` says it by positions, without
recursion, so that it can be proved about, and `MCLinkQueries` checks that it is
`SelectSeq` on small inputs (`TailIsTheFilter`). The selections a caller may have
sent are its turns in order, some left out.

**BridgeLifecycle.** Requests in flight to the registry are part of the state,
so that a registration can arrive after the deletion. `LeaveReadLoop` and
`WriterEnds` are the two halves of `_serve_connection`'s `finally`, around its
`await writer`.

**PodProbe.** Executions are bound to the socket their run came by (`wsOf`).
Souk is simplified to what the probe can tell apart: an ack read in time claims
the run at once. Frames from souk always parse: the gateway offers only a run it has
validated (`ws_provider.py:136`).

**Conversation, Market.** `SoukClient.run` and the page's `sendMessage` are one
caller of two kinds, which differ where the code does: the page keeps the thread
id as soon as it has one and takes any JSON for a run in flight; the SDK learns
it with the answer's headers and raises on anything but a stream. `_run_agent`
is `StartRun`, `ReportActive` and `RunRefused`. What core does with a turn is
external: a run on the thread that was sent or, if souk does not know it, on a
new one; the snapshot if a run is active there. `run_stream` is `Delta` and the
four ways its endpoint can stop. What it yields reaches souk while its provider is
attached. `Detach` is the end of that: of a socket, which ends no run ("A dropped
socket ends nothing", `docs/server-mode.md:363`) but may take along the frame its
writer had in hand, or of the process, which takes every run with it. souk records
nothing then; a run that is `gone` stays open, its stream is held, and its thread
counts as active until core's stall sweep ends it (`Sweep`, external: the doc's "one
that is truly gone is caught by the stall sweep"). That a frame is lost in the middle
of a stream that goes on is left to `ProviderRelay`. `Restart` of the gateway keeps
its database or comes up on another. Agents come through `Register`, so `Market` and `Roster`
are checked on every roster that can arise, with whoever is serving then; the
two providers share a storefront name and an agent's name. What an
agent says is a sequence of words with a length; that a searched word may also
lie inside a longer one is left out. A delta is numbered; what a caller received
is its deltas in the order they were read.

**Delegation, Roster.** Tool calls of one or two runs, in parallel, over a
table of contextIds per conversation and one kept address; providers list and
lose the name while that goes on, one of them with the fingerprint of another,
which core refuses as long as both are listed. Every update carries a contextId.
A call is a step between any two of its awaits: `CallTool` (the kept address is
tested), `Find` or `Unresolvable` (the roster it was answered with), `Resolve` (the
address is kept and the message sent, with the contextId read at that moment),
`TakeMessage` (souk resolves the path again and takes the message or refuses it),
`Update`, `EndCall`; `message` is what is on its way between them. `Abort` ends the
calls of a run together when one of them raises. That is an assumption about
pydantic-ai (2.22.0 in its `uv.lock`), not something this repository does:
`drain_adapter`'s `finally` (`main.py:177`) queues the sentinel whether or not
another call is still running, and `ProgressIsSeen` would fail if one were.

## What the runs check

| Run | Configuration | Shows |
|---|---|---|
| `relay_safety` | 2 runs, 2 sockets, 2 offers, 1 event, capacity 1 | `WelcomeFirst`, `NoOrphanedWaiter`, `ServedByLiveLink`, `ClaimIsBacked`, `OutcomeIsReported`, `EventRecordedOnce`, `TypeOK` |
| `relay_liveness` | 1 run, fair | `DeadSocketReleasesOffer`, `FinishSurvivesReconnect` |
| `relay_replacement` | violation | the cleanup of an old socket can leave its live replacement unserved |
| `kyok_safety` | 2 completions, 2 sockets, 1 chunk, 1 stray frame | `AnsweredWhereDelivered`, `NoTruncatedCompletion` |
| `kyok_promise` | 1 completion, 2 chunks, valid or invalid, fair | `KeepsPromise` (refinement of `AnswerStream`), `DeadSocketEndsCompletion` |
| `queries` | 2 queries, 2 sockets, a thread of 2 messages, fair | `NewestWithinLimit` (an empty past only if there is none), `CallerIsHeardOnce` (and the turns in order), `AnswerIsFinal`, `WaitingEnds` |
| `attachment` | 2 names, 2 souk keys, 2 losses, each kind of client, hello and pin, fair | `ServedByThePinned`, `WelcomeMeansAttached`, `ListedNameKeepsSocket`, `HandshakeEnds`, `InvisibleIsRepaired` |
| `probe` | 2 runs, 2 sockets, 2 offers, fair | `CancelFindsTheRun`, `EndsOnItsSocket`, `ServedAgain` |
| `bridge_life` | 2 drops, fair | `DeletedStaysDeleted`, `ExitEnds`, `EnterEnds` |
| `bridge_exit` | violation | a cancel can be lost in the cleanup, and leaving the block then never ends |
| `delegation` | 2 runs, of one or two conversations, 2 calls, 3 providers, fair | `ProgressIsSeen`, `FollowsUp`, `ConversationsApart`, `ResolvedToTheMeant`, `StreamEnds` |
| `conversation` | 3 turns, the first answered with content, either kind of caller, 3 agents of 2 providers, 1 restart, fair | `StreamIsWellFormed`, `TurnsStayTogether`, `AnswersAsPromised` (refinement of `AnswerStream`), `TurnEnds`, `MarketAddsUp`, `ResolversAgree` |

**Bounds.** Two sockets are enough for every race between a connection and its
successor, since only a connection and the one after it are ever live at once;
two offers let a run be offered again after a deadline; two runs, completions,
queries or calls let one actor's frame meet another's table entry. The last
socket of a relay neither drops nor is refused, so that "eventually" is
meaningful under a bounded number of reconnects; `Attachment` has no bound on
reconnects, only on how often the world changes (`MaxLosses`). Three turns are
the fewest in which a turn whose answer was lost lies between two others, and
one restart lets a database go between any two of them; only the first answer
has content (`Deltas`, of `MaxDeltas` = 1), as a run's stream does not depend on
the turn it answers. Symmetry
is used in safety runs only. Deadlock is checked in `attachment`, whose actors never
finish; the other models stop when their bounded work is done.

**Fairness.** Weak fairness of every task that has something to do: the event
loop and the Go scheduler run what is ready. On the sockets no deadline or
timeout is assumed to fire, and a socket need not drop, so no liveness property
about them rests on a timeout. Four assumptions go further. Registration does
not fail for ever (`SF` on `Register` in `Attachment`): without it no client is
ever served. A dialled souk is reached in the end (`WF` on `Dial` in
`PodProbe`), where the loop dials for ever. Model and HTTP calls end, as their
clients' timeouts see to (`Answered`, `EndCall`); in `KyokRelay` the LLM may
hang. In `Conversation` a request that does not fail is answered and the caller
reads what it is sent; a run from which nothing is heard ends, either by its provider,
which gives up the endpoint after `timeout_seconds` (`EndpointFails`), or, if that
is gone or away, by core's stall sweep (`Sweep`). Nothing else of the market, the
endpoint or the gateway is fair there; in particular no request is assumed to
fail, nor a caller to give up.

## What is proved

Every invariant and every action property the passing runs check is a theorem,
and so is each refinement of `AnswerStream`. The theorems hold for every value
of the constants that satisfies the `ASSUME` of the module (bounds are natural
numbers, "no such thing" is none of the things, finite sets where something is
counted) and for any number of sockets, runs, offers, questions, turns, deltas
or restarts. None of the properties is inductive; each follows from an
invariant that is, given here with what it says beyond the property.
Every conjunct has a lemma of its own that steps keep it, with one case per action.

**Run relay (`ProviderRelayProofs`).** `TypeCorrect`, and:

- `WelcomeIsFirst`, `AlwaysServedByLiveLink`, `NeverOrphanedWaiter` from
  `LinkInv`: a connection not yet opened is untouched; the only ack awaited
  anywhere is the one of the offer that is out, on a connection that is attached;
  while the client waits for its welcome there is a frame for it to read unless
  the socket is dead.
- `ClaimsAreBacked`, `OutcomesAreReported` from `TruthInv`, about frames still
  travelling: every ack and finish queued, on the wire or handed to the offer was
  true when written and has stayed so, because nothing undoes an execution
  (`Monotone`). That an execution begins at most once needs each run frame to
  be unread and the only one of its offer.
- `EventsAreRecordedOnce` from `OnceInv`: an event frame stands in one place only,
  was emitted, and is not among those recorded. Frames move from the client's
  queue to a wire, are read or are lost; `Carried` says of every such step that
  what is in a place now was in a place before, and different frames in different
  ones, so each action only has to show where its frames come from.

**Completion relay (`KyokRelayProofs`).** `TypeCorrect`, and:

- `AlwaysAnsweredWhereDelivered` from `Books`: a
  completion is in the table of no connection but the one it was delivered to,
  a connection that has not begun to serve has nothing queued (`QuietBefore`), a
  connection's queue holds frames of its own completions only (`OwnQueue`),
  every frame to the gateway names a completion that was delivered, a request is
  on its way once and has no task yet.
- `NeverTruncated` from `FlowInv`, which follows an answer through the bridge's
  queue, the socket and the completion's queue: as long as the gateway holds the
  completion, what is still coming continues where its queue stops and, on a
  connection that lives, leaves no gap; nothing comes behind the end; and "done"
  stands only behind the last chunk of a finished answer.
- `KeepsThePromise`: every step of the relay is a step of `AnswerStream` or
  changes nothing it sees.

The last two assume `ObjectChunks`: no chunk the bridge sends is valid JSON and
yet no object. `_to_chunk_dict` (`kyok_bridge.py`) makes a dict of every chunk
before it is sent. Without it the statement is false, as `MCInvalidChunkFails`
shows: the gateway skips such a chunk and goes on.

**Questions (`LinkQueriesProofs`).**

- `AlwaysNewest` and `AnswersAreFinal` from `QueryInv`: nothing carries a queryId
  before its question is asked, and every answer queued, on the wire, set in
  a waiter or handed over is the newest of its thread as of some moment since.
- `AlwaysHeardOnce`: threads and selections of any length. The turns sent that
  history does not hold keep their order and their number, because the
  positions kept are counted by an order-keeping bijection (`Counting`); the
  merge is therefore the history followed by them, with no turn twice.

**Handshake (`AttachmentProofs`).** From `AttachInv`: the handshake on a live
socket is in one of six situations (who waits for whom, and the one frame under
way); whoever pinned a souk and signed for another is not on that socket; a name
that was asked for and stayed listed was found. Hence `WelcomedIsAttached`,
`OnlyThePinnedServes` and, for the watcher, `ListedKeepsItsSocket`.

**Bridge (`BridgeLifecycleProofs`).** `DeletedIsKeptDeleted` from `LifeInv`: a
registration is awaited only by the task that sent it, and the deletion goes out
only behind the end of that task, on the way out of the block.

**Go probe (`PodProbeProofs`).** `CancelAlwaysFinds` from `ProbeInv`: each offer
that reached the probe started one goroutine with the socket it came by, a run
frame under way is an offer not yet started and no other frame is the same offer,
and the cancel function in a socket's table is the one of the run that came by it
once, for as long as its goroutine lives.

**Delegation (`DelegationProofs`).** `TypeCorrect`, and:

- `ProgressIsAlwaysSeen` from `StreamInv`: the sentinel is the last item of
  its queue, and progress yielded and progress queued add up to what the
  tools relayed.
- `AlwaysFollowsUp`, `AlwaysApart` from `ThreadInv`: threads are numbered as
  calls start them, what a conversation keeps is what a call of it was told, and
  the contextId of a message on its way is one its conversation had been told
  when it went out (`SentIsKnown`).
- `AlwaysResolvedToTheMeant` from `MeantInv`: the address kept, and every address
  found or written on a message under way, leads to nobody but the provider
  configured. It assumes `KeysAreTheirOwn`: a provider
  configured by its full key shares its fingerprint with nobody. The path that is
  kept names a provider by its fingerprint, so that without the assumption another
  that is listed later under the same fingerprint would be reached. A provider
  configured by its fingerprint, or by a url, needs no such assumption.

**Conversations and market (`ConversationProofs`).** `TypeCorrect`, and:

- `AlwaysWellFormed`, `TurnsAlwaysTogether` from `ThreadInv`. Its `Streams` says
  what a stream is at any moment: the start, the message opened with the first
  delta, the deltas in order, then nothing yet, an error, or an end that closes
  the message. Its `Follows` says of every run the caller was told of, on a thread
  souk still has, that the caller holds its thread and that every later turn was
  sent and run on it.
- `ResolversAlwaysAgree`, `MarketAlwaysAddsUp`: on every roster in which no two
  keys share a fingerprint (`Listing`, which every step keeps because core refuses
  the second), for any set of providers and agents. They assume
  `KeysAreNoFingerprints`: a fingerprint is shorter than a key, and "Core
  tells the two apart by length" (`tests/test_api_a2a.py:51`).
- `AnswersKeepThePromise`: every step is a step of `AnswerStream` for the answer
  read, or changes nothing of it. The mapping's state is written with IF:
  its conditions overlap, and a CASE left open which of them counts.

`TypeOK` of `LinkQueries`, `Attachment`, `BridgeLifecycle` and `PodProbe` is a
conjunct of the invariant proved there; `TypeCorrect` states it in each of them.

Only model-checked: the liveness properties (`DeadSocketReleasesOffer`,
`FinishSurvivesReconnect`, `DeadSocketEndsCompletion`, `WaitingEnds`,
`HandshakeEnds`, `InvisibleIsRepaired`, `EndsOnItsSocket`, `ServedAgain`,
`ExitEnds`, `EnterEnds`, `StreamEnds`, `TurnEnds`), as the prover does not
reason about fairness and ENABLED; that `TailOf` is the recursive `SelectSeq`,
which takes induction; and the violation runs, which are counterexamples.
`AnswerStream` states safety only, so its refinements are proved in full.

## Known divergences

Statements of the repository that the code does not keep. The first two
are the violation runs and are recorded as findings; the others are reproduced by
running TLC on the configuration named.

| Says | Code | Configuration (module) |
|---|---|---|
| `ws_provider.py:509` "this cleanup withdraws nothing and the replacement stays serving" | not if the old socket's attach completed last | `MCReplacementStaysServing` (`MCProviderRelay`) |
| `kyok_bridge.py:247` "On exit the serve task is cancelled and awaited" | the cancel can be suppressed or replaced at `await writer` | `MCExitAlwaysEnds` (`MCBridgeLifecycle`) |
| `kyok_bridge.py:340` "Stop paying the LLM for output with nowhere to go" | not when a write had already failed | `MCStopsPayingTheLLM` (`MCKyokRelay`) |
| `run.go:80` "Every path ends the run with a finish", `main.go:41` | the finish goes to the socket the run came by, dead or not | `MCHeldRunEnds` (`MCPodProbe`) |
| `docs/server-mode.md:348` a late ack "is dropped" | it answers the next offer of that run | `MCLateAckIsDropped` (`MCProviderRelay`) |
| `test_ws_client.py:415` "frames a dead socket failed to carry go out on the next one" | except the one in the writer's hand | `MCUnsentFramesAreKept` (`MCProviderRelay`) |
| `docs/server-mode.md:424` "an invalid one fails the completion" | a chunk whose data is no object is skipped | `MCInvalidChunkFails` (`MCKyokRelay`) |
| `docs/server-mode.md:303` "It is not retried on reconnect either" | a query still queued goes out on the next socket | `MCNotRetriedOnReconnect` (`MCLinkQueries`) |
| `docs/server-mode.md:296` "A malformed query is answered, not dropped" | params that are no object end the task | `MCMalformedIsAnswered` (`MCLinkQueries`) |
| `ws_provider.py:264` "Close this socket if souk stops listing every agent it serves" | not after one lookup raised | `MCUnlistedIsClosed` (`MCAttachment`) |
| `main.py:158` "one conversation with each of its sub-agents" | parallel first calls start two | `MCOneSubConversation` (`MCDelegation`) |
| `resolve.py:127` "resolved at most once per process" | concurrent first calls each resolve, the later answer wins | `MCAddressIsKept` (`MCDelegation`) |
| `agent.ts:402` "Duplicate-call snapshot branch (an active run already exists on this thread)" | an agent no longer listed, or a request that does not parse, is answered with JSON too and shown as in flight | `MCInFlightMeansRunning` (`MCConversation`) |
| `openai_compat_agent/main.py:97` a failed upstream call is a RUN_ERROR | an error the endpoint reports inside its stream has no choices and is passed over; the run finishes | `MCReportedErrorIsTold` (`MCConversation`) |
| `mcp_docent.py:160` "Short words are dropped so that "with"/"the"/"for" do not match the entire market" | "for" has three letters, and words of three are kept | `MCShortWordsAreDropped` (`MCConversation`) |

## Not modelled

- souk core's own logic: an empty submodule, external, modelled from how it is
  called.
- Cryptography, settings and configuration files, key files, the health probe,
  the probe's inspection of `/proc`: no state between two requests, or data.
- The wording and framing of HTTP, SSE, MCP and A2A bodies; the developer guide
  among the provider's tools; when an agent was last seen; the messages the
  openai-compat agent builds from a run's input.
- In `Conversation`: cancelling a run, overlapping calls on one `SoukClient` or
  overlapping submissions of the page (a turn ends before the next), interrupts
  and `resume`, and the refusal of a thread that belongs to another agent, which
  a caller holding one agent never meets.
- The page's rendering, and its listener for a change of souk.
- A2A's methods other than the streaming call, and the reads of a thread's
  snapshot and tree.

## Plan

1. Done: the relays (`ProviderRelay`, `KyokRelay`), `Attachment`, `LinkQueries`,
   `BridgeLifecycle`, `PodProbe`, `Delegation`, and `Conversation` with `Market`
   and `Roster`; every invariant and action property proved, and both
   refinements.
2. Next to prove: action properties the invariants already give, such as that
   an execution is never undone and that a cleaned up connection is never served
   again; the violation runs' properties under the condition that excludes the
   counterexample (a replacement stays serving if the old attach completed
   first).
3. Then to model: the SDK runtime's cancellation of a run that is finishing, and
   a composition of `Attachment` with `ProviderRelay` so that the watcher's
   close meets runs in flight.
