------------------------------ MODULE KyokRelay ------------------------------
(***************************************************************************)
(* The KYOK relay: an agent's chat completion travels through the gateway  *)
(* to the caller's own LLM bridge and its answer travels back.             *)
(*                                                                         *)
(*   - SocketLLMProvider with its table of in-flight answers, its answer   *)
(*     streams, the read loop and the cleanup (souk_server/ws_kyok.py);    *)
(*   - KyokBridge: one reader, one writer and one task per completion      *)
(*     (souk-client-sdk/souk_client_sdk/kyok_bridge.py);                   *)
(*   - external: core's relay, which resolves the offering to the attached *)
(*     link and reads the stream, and the LLM the bridge calls.            *)
(*                                                                         *)
(* A request id is minted per completion, so a completion and its id are   *)
(* one value here.  An action is the code between two awaits.              *)
(***************************************************************************)
EXTENDS Naturals, Sequences, FiniteSets

CONSTANTS
  Reqs,        \* completions agents ask for
  NoReq,       \* what a frame that names no completion names
  MaxConns,    \* sockets the bridge opens; the last one neither drops nor is refused
  Chunks,      \* chunks of a complete answer
  ChunkKinds,  \* what a chunk's data may be: "ok", "invalid" (an object that is no
               \* chat.completion.chunk) or "shapeless" (no object at all, which an LLM
               \* provider other than KyokBridge may send)
  MaxStrays    \* frames naming a completion of another connection

ASSUME ConstantsAssumption ==
  /\ MaxConns \in Nat \ {0}
  /\ Chunks \in Nat
  /\ MaxStrays \in Nat
  /\ NoReq \notin Reqs
  /\ ChunkKinds \subseteq {"ok", "invalid", "shapeless"}

Conns  == 1 .. MaxConns
NoConn == 0

VARIABLES
  \* core (external)
  current,   \* the link the offering is attached through, or NoConn
  req,       \* completion -> how far its caller has come
  got,       \* completion -> the chunks its caller has received
  \* the gateway
  link,      \* connection -> how far kyok_socket has come
  answers,   \* connection -> completions in its table (SocketLLMProvider._answers)
  bound,     \* completion -> the connection it was delivered to
  queue,     \* completion -> its answer queue
  down,      \* connection -> frames queued for or on their way to the bridge
  \* the network
  sock,      \* connection -> "none", "up" or "dead"
  up,        \* connection -> frames on their way to the gateway
  strays,    \* frames sent so far for a completion of another connection
  \* the bridge
  bridge,    \* "idle", "hello" (welcome awaited) or "serving"
  bconn,     \* the connection it opened last
  writer,    \* is the connection's _write_loop task alive
  outbound,  \* connection -> its outbound queue, which its tasks keep hold of
  task,      \* completion -> its _serve_one task
  made       \* completion -> the kinds of the chunks its LLM call has yielded

coreVars   == <<current, req, got>>
linkVars   == <<link, answers, bound, queue, down>>
netVars    == <<sock, up, strays>>
bridgeVars == <<bridge, bconn, writer, outbound>>
taskVars   == <<task, made>>
vars       == <<coreVars, linkVars, netVars, bridgeVars, taskVars>>

\* Frames and queue items: chunk number n of kind k, the end, or a failure.
Frame(type, q, n, k) == [type |-> type, req |-> q, n |-> n, kind |-> k]
Item(type, n, k, via) == [type |-> type, n |-> n, kind |-> k, via |-> via]

\* outbound.put_nowait and write_loop on the gateway: in order, and nothing
\* queued for a dead socket is ever carried.
Send(c, f) == down' = IF sock[c] = "dead" THEN down ELSE [down EXCEPT ![c] = Append(@, f)]

Waiting == {"held", "reading"}
Over    == {"completed", "failed", "unavailable", "abandoned"}

Init ==
  /\ current = NoConn
  /\ req = [q \in Reqs |-> "new"]
  /\ got = [q \in Reqs |-> <<>>]
  /\ link = [c \in Conns |-> "none"]
  /\ answers = [c \in Conns |-> {}]
  /\ bound = [q \in Reqs |-> NoConn]
  /\ queue = [q \in Reqs |-> <<>>]
  /\ down = [c \in Conns |-> <<>>]
  /\ sock = [c \in Conns |-> "none"]
  /\ up = [c \in Conns |-> <<>>]
  /\ strays = 0
  /\ bridge = "idle"
  /\ bconn = NoConn
  /\ writer = FALSE
  /\ outbound = [c \in Conns |-> <<>>]
  /\ task = [q \in Reqs |-> "none"]
  /\ made = [q \in Reqs |-> <<>>]

-----------------------------------------------------------------------------
(* A completion on the gateway.                                            *)

\* SocketLLMProvider.complete: the table entry and the request frame at
\* once, before anybody reads the stream it returns.
Complete(q) ==
  /\ req[q] = "new"
  /\ current # NoConn
  /\ req' = [req EXCEPT ![q] = "held"]
  /\ bound' = [bound EXCEPT ![q] = current]
  /\ answers' = [answers EXCEPT ![current] = @ \cup {q}]
  /\ Send(current, Frame("completionRequest", q, 0, "ok"))
  /\ UNCHANGED <<current, got, link, queue, netVars, bridgeVars, taskVars>>

\* Nothing attached for the offering: core answers 503 (external).
CompleteUnattached(q) ==
  /\ req[q] = "new"
  /\ current = NoConn
  /\ req' = [req EXCEPT ![q] = "unavailable"]
  /\ UNCHANGED <<current, got, linkVars, netVars, bridgeVars, taskVars>>

\* chat_completions starts to read the stream, as SSE or collapsed.
StartReading(q) ==
  /\ req[q] = "held"
  /\ req' = [req EXCEPT ![q] = "reading"]
  /\ UNCHANGED <<current, got, linkVars, netVars, bridgeVars, taskVars>>

\* The caller goes away before the stream was started: a generator that was
\* never entered has no finally to run.
DropUnstarted(q) ==
  /\ req[q] = "held"
  /\ req' = [req EXCEPT ![q] = "abandoned"]
  /\ UNCHANGED <<current, got, linkVars, netVars, bridgeVars, taskVars>>

\* _answer_stream ends, one way or another; its finally takes the entry out.
EndStream(q, outcome) ==
  /\ req' = [req EXCEPT ![q] = outcome]
  /\ answers' = [answers EXCEPT ![bound[q]] = @ \ {q}]

\* The caller goes away while the stream is read.
CloseStream(q) ==
  /\ req[q] = "reading"
  /\ EndStream(q, "abandoned")
  /\ UNCHANGED <<current, got, link, bound, queue, down, netVars, bridgeVars, taskVars>>

Valid(item) == item.type = "chunk" /\ item.kind = "ok"

\* Mutant: a chunk that does not validate is skipped.
SkipsInvalid(item) ==
  IF item.type = "chunk" THEN "reading" ELSE IF item.type = "done" THEN "completed" ELSE "failed"

\* What an item makes of the completion: a valid chunk leaves it going, the
\* end completes it, anything else fails it.
Verdict(item) ==
  IF Valid(item) THEN "reading" ELSE IF item.type = "done" THEN "completed" ELSE "failed"

\* _answer_stream takes the next item: a valid chunk goes to the caller.
NextItem(q) ==
  LET item == Head(queue[q])
  IN  /\ req[q] = "reading"
      /\ queue[q] # <<>>
      /\ queue' = [queue EXCEPT ![q] = Tail(@)]
      /\ got' = IF Valid(item) THEN [got EXCEPT ![q] = Append(@, item.n)] ELSE got
      /\ IF Verdict(item) = "reading" THEN UNCHANGED <<req, answers>> ELSE EndStream(q, Verdict(item))
      /\ UNCHANGED <<current, link, bound, down, netVars, bridgeVars, taskVars>>

\* CHUNK_GAP_TIMEOUT_SECONDS without an item.
GapTimeout(q) ==
  /\ req[q] = "reading"
  /\ queue[q] = <<>>
  /\ EndStream(q, "failed")
  /\ UNCHANGED <<current, got, link, bound, queue, down, netVars, bridgeVars, taskVars>>

-----------------------------------------------------------------------------
(* The gateway: kyok_socket around one SocketLLMProvider.                  *)

\* The handshake is over: the welcome is queued, then attach is awaited.
Accept(c) ==
  /\ link' = [link EXCEPT ![c] = "attaching"]
  /\ Send(c, Frame("welcome", NoReq, 0, "ok"))
  /\ UNCHANGED <<answers, bound, queue>>

\* attach_llm_provider takes effect: the later attach takes the offering over.
Attach(c) ==
  /\ link[c] = "attaching"
  /\ link' = [link EXCEPT ![c] = "attached"]
  /\ current' = c
  /\ UNCHANGED <<req, got, answers, bound, queue, down, netVars, bridgeVars, taskVars>>

\* attach_llm_provider returns; writer and read loop start.
AttachReturns(c) ==
  /\ link[c] = "attached"
  /\ link' = [link EXCEPT ![c] = "open"]
  /\ UNCHANGED <<coreVars, answers, bound, queue, down, netVars, bridgeVars, taskVars>>

\* attach_llm_provider refuses; the queued welcome is never written.
AttachRefused(c) ==
  /\ c < MaxConns
  /\ link[c] = "attaching"
  /\ link' = [link EXCEPT ![c] = "closed"]
  /\ sock' = [sock EXCEPT ![c] = "dead"]
  /\ down' = [down EXCEPT ![c] = <<>>]
  /\ up' = [up EXCEPT ![c] = <<>>]
  /\ UNCHANGED <<coreVars, answers, bound, queue, strays, bridgeVars, taskVars>>

\* Mutant: a completion in flight on any connection of the identity is fed.
TakesForAny(c, q) == \E d \in Conns : q \in answers[d]

\* The completion is in this connection's own table.
Takes(c, q) == q \in answers[c]

\* feed: an item goes to its completion if it is taken here; otherwise the
\* sender is told.
Feed(c, q, item) ==
  IF Takes(c, q)
  THEN /\ queue' = [queue EXCEPT ![q] = Append(@, item)]
       /\ UNCHANGED down
  ELSE /\ Send(c, Frame("error", q, 0, "ok"))
       /\ UNCHANGED queue

\* The next frame the read loop of connection c takes, and its removal.
Reads(c, types) ==
  /\ link[c] = "open"
  /\ up[c] # <<>>
  /\ Head(up[c]).type \in types
  /\ up' = [up EXCEPT ![c] = Tail(@)]
  /\ UNCHANGED <<coreVars, link, answers, bound, sock, strays, bridgeVars, taskVars>>

\* A chunk whose data is not an object is answered with an error frame and
\* goes no further; any other is fed and validated by the stream.
ReadChunk(c) ==
  /\ Reads(c, {"chunk"})
  /\ LET f == Head(up[c]) IN
       IF f.kind = "shapeless"
       THEN Send(c, Frame("error", f.req, 0, "ok")) /\ UNCHANGED queue
       ELSE Feed(c, f.req, Item("chunk", f.n, f.kind, c))

\* The end of an answer, or the bridge failing or refusing it.
ReadEnd(c) ==
  /\ Reads(c, {"done", "error"})
  /\ LET f == Head(up[c]) IN Feed(c, f.req, Item(f.type, 0, "ok", c))

\* Mutant: a disconnect ends the answers instead of failing them.
FailureAsDone(c) == Item("done", 0, "ok", c)

Failure(c) == Item("error", 0, "ok", c)

\* Mutant: the table is cleared and the streams are told nothing.
FailPendingClearsOnly(c) ==
  /\ answers' = [answers EXCEPT ![c] = {}]
  /\ UNCHANGED queue

\* fail_pending: every completion still in the table gets a failure behind
\* whatever its queue already holds.
FailPending(c) ==
  /\ queue' = [q \in Reqs |-> IF q \in answers[c] THEN Append(queue[q], Failure(c)) ELSE queue[q]]
  /\ answers' = [answers EXCEPT ![c] = {}]

\* The read loop meets the disconnect and the finally block runs; the detach
\* names the connection.
Disconnected(c) ==
  /\ link[c] = "open"
  /\ sock[c] = "dead"
  /\ up[c] = <<>>
  /\ current' = IF current = c THEN NoConn ELSE current
  /\ FailPending(c)
  /\ link' = [link EXCEPT ![c] = "closed"]
  /\ UNCHANGED <<req, got, bound, down, netVars, bridgeVars, taskVars>>

-----------------------------------------------------------------------------
(* The network.                                                            *)

\* A socket dies.  Each side still reads some of what was under way to it.
Drop(c) ==
  /\ c < MaxConns
  /\ sock[c] = "up"
  /\ sock' = [sock EXCEPT ![c] = "dead"]
  /\ \E i \in 0 .. Len(up[c]) : up' = [up EXCEPT ![c] = SubSeq(@, 1, i)]
  /\ \E i \in 0 .. Len(down[c]) : down' = [down EXCEPT ![c] = SubSeq(@, 1, i)]
  /\ UNCHANGED <<coreVars, link, answers, bound, queue, strays, bridgeVars, taskVars>>

\* A frame naming a completion delivered to another connection arrives on c:
\* nothing a frame carries says which connection its request went to.
StrayFrame(c, q, type) ==
  /\ strays < MaxStrays
  /\ sock[c] = "up"
  /\ bound[q] \notin {c, NoConn}
  /\ strays' = strays + 1
  /\ up' = [up EXCEPT ![c] = Append(@, Frame(type, q, 0, "ok"))]
  /\ UNCHANGED <<coreVars, linkVars, sock, bridgeVars, taskVars>>

-----------------------------------------------------------------------------
(* The bridge.                                                             *)

\* serve_forever opens the next connection; its outbound queue is new.
Connect ==
  /\ bridge = "idle"
  /\ bconn < MaxConns
  /\ bridge' = "hello"
  /\ bconn' = bconn + 1
  /\ sock' = [sock EXCEPT ![bconn + 1] = "up"]
  /\ Accept(bconn + 1)
  /\ UNCHANGED <<coreVars, up, strays, writer, outbound, taskVars>>

\* The next frame from the gateway, once its writer runs, and its removal.
Receives(state, types) ==
  /\ bridge = state
  /\ link[bconn] \in {"open", "closed"}
  /\ down[bconn] # <<>>
  /\ Head(down[bconn]).type \in types
  /\ down' = [down EXCEPT ![bconn] = Tail(@)]
  /\ UNCHANGED <<coreVars, link, answers, bound, queue, up, strays, bconn>>

\* _handshake reads one frame after its proof and gives up unless it is the welcome.
ReceiveWelcome ==
  /\ Receives("hello", {"welcome", "completionRequest", "error"})
  /\ IF Head(down[bconn]).type = "welcome"
     THEN bridge' = "serving" /\ writer' = TRUE /\ UNCHANGED sock
     ELSE bridge' = "idle" /\ sock' = [sock EXCEPT ![bconn] = "dead"] /\ UNCHANGED writer
  /\ UNCHANGED <<outbound, taskVars>>

\* A request starts a task of its own.
ReceiveRequest ==
  /\ Receives("serving", {"completionRequest"})
  /\ task' = [task EXCEPT ![Head(down[bconn]).req] = "running"]
  /\ UNCHANGED <<sock, bridge, writer, outbound, made>>

\* An error frame is logged.
ReceiveError ==
  /\ Receives("serving", {"error"})
  /\ UNCHANGED <<sock, bridge, writer, outbound, taskVars>>

\* A task queues a frame on the outbound queue it was started with, that of
\* the connection its request came on; a task left over from a connection that
\* is over does so too, and nobody takes the frame.
Queue(q, f) == outbound' = [outbound EXCEPT ![bound[q]] = Append(@, f)]

\* _serve_one passes on the next chunk of the LLM's stream.
StreamChunk(q, k) ==
  /\ task[q] = "running"
  /\ Len(made[q]) < Chunks
  /\ made' = [made EXCEPT ![q] = Append(@, k)]
  /\ Queue(q, Frame("chunk", q, Len(made[q]) + 1, k))
  /\ UNCHANGED <<coreVars, linkVars, netVars, bridge, bconn, writer, task>>

\* The LLM's stream ends: "done" after the last chunk, or one "error" frame
\* for a malformed request, a refusal or a call that failed.
EndTask(q) ==
  /\ task[q] = "running"
  /\ \/ /\ Len(made[q]) = Chunks
        /\ task' = [task EXCEPT ![q] = "done"]
        /\ Queue(q, Frame("done", q, 0, "ok"))
     \/ /\ task' = [task EXCEPT ![q] = "broken"]
        /\ Queue(q, Frame("error", q, 0, "ok"))
  /\ UNCHANGED <<coreVars, linkVars, netVars, bridge, bconn, writer, made>>

\* _write_loop on a live socket.
WriteFrame ==
  /\ bridge = "serving"
  /\ writer
  /\ outbound[bconn] # <<>>
  /\ sock[bconn] = "up"
  /\ outbound' = [outbound EXCEPT ![bconn] = Tail(@)]
  /\ up' = [up EXCEPT ![bconn] = Append(@, Head(outbound[bconn]))]
  /\ UNCHANGED <<coreVars, linkVars, sock, strays, bridge, bconn, writer, taskVars>>

\* _write_loop on a socket that died under it: send raises, the task ends.
WriteFails ==
  /\ bridge = "serving"
  /\ writer
  /\ outbound[bconn] # <<>>
  /\ sock[bconn] = "dead"
  /\ outbound' = [outbound EXCEPT ![bconn] = Tail(@)]
  /\ writer' = FALSE
  /\ UNCHANGED <<coreVars, linkVars, netVars, bridge, bconn, taskVars>>

\* The bridge meets the end of its socket.  The finally block awaits the
\* writer before it cancels the tasks: a writer that already ended with an
\* error raises it there, and the tasks are left running.
ConnectionLost ==
  /\ bridge \in {"hello", "serving"}
  /\ sock[bconn] = "dead"
  /\ down[bconn] = <<>> \/ link[bconn] \in {"attaching", "attached"}
  /\ bridge' = "idle"
  /\ writer' = FALSE
  /\ task' = IF writer
             THEN [q \in Reqs |-> IF task[q] = "running" /\ bound[q] = bconn
                                  THEN "cancelled" ELSE task[q]]
             ELSE task
  /\ UNCHANGED <<coreVars, linkVars, netVars, bconn, outbound, made>>

-----------------------------------------------------------------------------
Next ==
  \/ \E q \in Reqs : Complete(q) \/ CompleteUnattached(q) \/ StartReading(q) \/ DropUnstarted(q)
  \/ \E q \in Reqs : CloseStream(q) \/ NextItem(q) \/ GapTimeout(q)
  \/ \E c \in Conns : Attach(c) \/ AttachReturns(c) \/ AttachRefused(c)
  \/ \E c \in Conns : ReadChunk(c) \/ ReadEnd(c) \/ Disconnected(c)
  \/ \E c \in Conns : Drop(c)
  \/ \E c \in Conns, q \in Reqs, type \in {"chunk", "done"} : StrayFrame(c, q, type)
  \/ Connect
  \/ ReceiveWelcome \/ ReceiveRequest \/ ReceiveError
  \/ \E q \in Reqs, k \in ChunkKinds : StreamChunk(q, k)
  \/ \E q \in Reqs : EndTask(q)
  \/ WriteFrame
  \/ WriteFails
  \/ ConnectionLost

Spec == Init /\ [][Next]_vars

\* Every task that has something to do gets its turn and core reads the
\* streams it holds; no timeout is assumed to fire and the LLM may hang.
Fairness ==
  /\ \A q \in Reqs : WF_vars(StartReading(q)) /\ WF_vars(NextItem(q))
  /\ \A c \in Conns : WF_vars(AttachReturns(c)) /\ WF_vars(ReadChunk(c)) /\ WF_vars(ReadEnd(c))
  /\ \A c \in Conns : WF_vars(Disconnected(c))
  /\ WF_vars(ReceiveWelcome) /\ WF_vars(ReceiveRequest) /\ WF_vars(ReceiveError)
  /\ WF_vars(WriteFrame)

FairSpec == Spec /\ Fairness

-----------------------------------------------------------------------------
DownFrames == [type : {"welcome", "completionRequest", "error"}, req : Reqs \cup {NoReq}, n : {0}, kind : {"ok"}]
UpFrames == [type : {"chunk", "done", "error"}, req : Reqs, n : 0 .. Chunks, kind : ChunkKinds \cup {"ok"}]
Items == [type : {"chunk", "done", "error"}, n : 0 .. Chunks, kind : ChunkKinds \cup {"ok"}, via : Conns]

\* The type invariant.
TypeOK ==
  /\ current \in Conns \cup {NoConn}
  /\ req \in [Reqs -> {"new"} \cup Waiting \cup Over]
  /\ got \in [Reqs -> Seq(0 .. Chunks)]
  /\ link \in [Conns -> {"none", "attaching", "attached", "open", "closed"}]
  /\ answers \in [Conns -> SUBSET Reqs]
  /\ bound \in [Reqs -> Conns \cup {NoConn}]
  /\ queue \in [Reqs -> Seq(Items)]
  /\ down \in [Conns -> Seq(DownFrames)]
  /\ sock \in [Conns -> {"none", "up", "dead"}]
  /\ up \in [Conns -> Seq(UpFrames)]
  /\ strays \in 0 .. MaxStrays
  /\ bridge \in {"idle", "hello", "serving"}
  /\ bconn \in 0 .. MaxConns
  /\ bridge # "idle" => bconn # NoConn
  /\ writer \in BOOLEAN
  /\ outbound \in [Conns -> Seq(UpFrames)]
  /\ task \in [Reqs -> {"none", "running", "done", "broken", "cancelled"}]
  /\ made \in [Reqs -> Seq(ChunkKinds)]

\* An answer is accepted only on the connection its request was delivered
\* to: whatever a completion's queue holds was read on that connection.
AnsweredWhereDelivered ==
  \A q \in Reqs : \A i \in DOMAIN queue[q] : queue[q][i].via = bound[q]

\* A truncated answer never passes as a complete one: the caller of a
\* completed completion has every chunk of an answer the LLM finished.
NoTruncatedCompletion ==
  \A q \in Reqs : req[q] = "completed" =>
    /\ task[q] = "done"
    /\ got[q] = [i \in 1 .. Chunks |-> i]

\* The relay implements the promise of AnswerStream.
Promise == INSTANCE AnswerStream WITH
  state    <- [q \in Reqs |-> CASE req[q] = "new" -> "new"
                                [] req[q] \in Waiting -> "open"
                                [] req[q] = "completed" -> "completed"
                                [] OTHER -> "failed"],
  received <- got,
  yielded  <- [q \in Reqs |-> Len(made[q])],
  finished <- [q \in Reqs |-> task[q] = "done"]

\* Whatever reaches a caller, and whatever passes as complete, is what
\* AnswerStream allows.
KeepsPromise == Promise!Spec

\* A socket that drops mid-answer fails its completions when the gateway
\* meets the disconnect, without waiting for the gap timeout.
DeadSocketEndsCompletion ==
  \A q \in Reqs :
    req[q] \in Waiting /\ bound[q] # NoConn /\ sock[bound[q]] = "dead" ~> req[q] \in Over

-----------------------------------------------------------------------------
(* What the repository says of this relay and the code does not do.        *)

\* When a connection is over the bridge stops paying the LLM for answers with
\* nowhere to go: no _serve_one task goes on once its connection is left.
StopsPayingTheLLM ==
  \A q \in Reqs : task[q] = "running" => bridge = "serving" /\ bconn = bound[q]

\* A chunk that is not valid fails the completion.
InvalidChunkFails ==
  \A q \in Reqs : req[q] = "completed" => \A i \in DOMAIN made[q] : made[q][i] = "ok"

=============================================================================
