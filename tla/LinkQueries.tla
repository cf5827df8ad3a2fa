----------------------------- MODULE LinkQueries -----------------------------
(***************************************************************************)
(* The questions a provider asks souk over its link.  An agent awaits      *)
(* SoukProvider.thread_messages in the middle of a run; the question goes  *)
(* out through the client's one outbound queue, the gateway answers it in  *)
(* a task of its own (_answer_query), and the answer is matched to the     *)
(* waiting caller by queryId (souk-agent-sdk/souk_agent_sdk/client.py,     *)
(* souk_server/ws_provider.py).                                            *)
(*                                                                         *)
(* A message of a thread is its position in it, so what a caller is given  *)
(* is an interval of positions, <<first, last>>, empty when first > last.  *)
(* The caller in this repository is with_thread_history, which merges what *)
(* it is given with the messages its own caller sent (ThreadHistory).      *)
(***************************************************************************)
EXTENDS Naturals, Sequences, FiniteSets, ThreadHistory

CONSTANTS
  Queries,     \* the questions asked, each with its own queryId
  MaxConns,    \* sockets the client opens; the last one does not drop
  MaxLength,   \* messages a thread may grow to
  NoLimit,     \* the limit of a caller that passes none
  Asks         \* what may be asked, [limit, thread, shape]: of which thread, how put

\* The provider's own thread, and one of somebody else's agent.
Threads == {"own", "other"}

\* Params that can be read, and params that are no object.
Shapes == {"sound", "unreadable"}

ASSUME QueryConstants ==
  /\ MaxConns \in Nat \ {0}
  /\ MaxLength \in Nat
  /\ NoLimit \notin Nat
  /\ Asks \subseteq [limit : Nat \cup {NoLimit}, thread : Threads, shape : Shapes]
  /\ IsFiniteSet(Queries)

Conns  == 1 .. MaxConns
NoConn == 0

VARIABLES
  ask,       \* query -> what is asked
  caller,    \* query -> where the coroutine in thread_messages is, or how it left
  got,       \* query -> the interval of messages its caller was given
  asked,     \* query -> the connection it was asked of: the one open then, or the next
  since,     \* query -> how long the thread was when it was asked
  pending,   \* SoukProvider._pending, the queries whose waiter can be found
  waiter,    \* query -> the state of its future
  outbound,  \* SoukProvider._outbound: the query frames in it
  sdkConn,   \* the connection the client opened last
  serving,   \* is the client past its handshake on it
  writer,    \* is its _write_loop task alive
  sock,      \* connection -> "none", "up" or "dead"
  up,        \* connection -> query frames on their way to the gateway
  down,      \* connection -> queryResult frames on their way to the client
  task,      \* query -> the _answer_query task that answers it
  length     \* how many messages souk holds of the provider's own thread

clientVars  == <<ask, caller, got, asked, since, pending, waiter, outbound, sdkConn, serving, writer>>
netVars     == <<sock, up>>
gatewayVars == <<task, down>>
vars        == <<clientVars, netVars, gatewayVars, length>>

Nothing  == [is |-> "none", first |-> 0, last |-> 0]
NoTask   == [at |-> "none", conn |-> NoConn]

\* One queryResult frame: an error, or the messages first .. last.
ErrorResult(q) == [query |-> q, is |-> "error", first |-> 0, last |-> 0]
Messages(q, first, last) == [query |-> q, is |-> "messages", first |-> first, last |-> last]

Init ==
  /\ ask \in [Queries -> Asks]
  /\ caller = [q \in Queries |-> "idle"]
  /\ got = [q \in Queries |-> Nothing]
  /\ asked = [q \in Queries |-> NoConn]
  /\ since = [q \in Queries |-> 0]
  /\ pending = {}
  /\ waiter = [q \in Queries |-> Nothing]
  /\ outbound = <<>>
  /\ sdkConn = NoConn
  /\ serving = FALSE
  /\ writer = FALSE
  /\ sock = [c \in Conns |-> "none"]
  /\ up = [c \in Conns |-> <<>>]
  /\ down = [c \in Conns |-> <<>>]
  /\ task = [q \in Queries |-> NoTask]
  /\ length = 0

-----------------------------------------------------------------------------
(* The client.                                                             *)

\* The connection a question asked now is asked of.
Addressee == IF serving THEN sdkConn ELSE sdkConn + 1

\* thread_messages up to its await.  A query may be asked between two
\* sockets: it waits in the queue for the next one.
Ask(q) ==
  /\ caller[q] = "idle"
  /\ caller' = [caller EXCEPT ![q] = "waiting"]
  /\ pending' = pending \cup {q}
  /\ outbound' = Append(outbound, q)
  /\ asked' = [asked EXCEPT ![q] = Addressee]
  /\ since' = [since EXCEPT ![q] = length]
  /\ UNCHANGED <<ask, got, waiter, sdkConn, serving, writer, netVars, gatewayVars, length>>

\* The finally of thread_messages.
Forget(q) == pending' = pending \ {q}

\* Its waiter is done: thread_messages returns the messages or raises.
Resume(q) ==
  /\ caller[q] = "waiting"
  /\ waiter[q].is # "none"
  /\ caller' = [caller EXCEPT ![q] = IF waiter[q].is = "messages" THEN "answered" ELSE "failed"]
  /\ got' = [got EXCEPT ![q] = waiter[q]]
  /\ Forget(q)
  /\ UNCHANGED <<ask, asked, since, waiter, outbound, sdkConn, serving, writer, netVars, gatewayVars, length>>

\* QUERY_TIMEOUT_SECONDS run out, possibly with an answer already set that
\* the coroutine has not seen.
TimesOut(q) ==
  /\ caller[q] = "waiting"
  /\ caller' = [caller EXCEPT ![q] = "failed"]
  /\ Forget(q)
  /\ UNCHANGED <<ask, got, asked, since, waiter, outbound, sdkConn, serving, writer, netVars, gatewayVars, length>>

\* _resolve_query: an answer nobody waits for is dropped.
ResolveQuery(f) ==
  waiter' = IF f.query \in pending /\ waiter[f.query].is = "none"
            THEN [waiter EXCEPT ![f.query] = [is |-> f.is, first |-> f.first, last |-> f.last]]
            ELSE waiter

\* _run_connection reads a queryResult frame.
ReceiveResult ==
  /\ serving
  /\ down[sdkConn] # <<>>
  /\ ResolveQuery(Head(down[sdkConn]))
  /\ down' = [down EXCEPT ![sdkConn] = Tail(@)]
  /\ UNCHANGED <<ask, caller, got, asked, since, pending, outbound, sdkConn, serving, writer, netVars, task, length>>

\* Mutant: the table is cleared and the callers left waiting.
FailPendingClearsOnly ==
  /\ pending' = {}
  /\ UNCHANGED waiter

\* Mutant: waiters that are done and not yet seen are failed as well.
InTable(q) == q \in pending

\* A waiter in the table that is not done.
Outstanding(q) == q \in pending /\ waiter[q].is = "none"

\* _fail_pending_queries: every waiter not yet done raises.
FailPendingQueries ==
  /\ waiter' = [q \in Queries |-> IF Outstanding(q) THEN [Nothing EXCEPT !.is = "error"] ELSE waiter[q]]
  /\ pending' = {}

\* _run_connection past its handshake.
Connect ==
  /\ ~ serving
  /\ sdkConn < MaxConns
  /\ sdkConn' = sdkConn + 1
  /\ serving' = TRUE
  /\ writer' = TRUE
  /\ sock' = [sock EXCEPT ![sdkConn + 1] = "up"]
  /\ UNCHANGED <<ask, caller, got, asked, since, pending, waiter, outbound, up, gatewayVars, length>>

\* The finally of _run_connection: queries die with the socket, the queue
\* and what is still in it does not.
ConnectionLost ==
  /\ serving
  /\ sock[sdkConn] = "dead"
  /\ down[sdkConn] = <<>>
  /\ serving' = FALSE
  /\ writer' = FALSE
  /\ FailPendingQueries
  /\ UNCHANGED <<ask, caller, got, asked, since, outbound, sdkConn, netVars, gatewayVars, length>>

\* _write_loop takes the next frame and sends it.
WriteFrame ==
  /\ writer
  /\ outbound # <<>>
  /\ sock[sdkConn] = "up"
  /\ outbound' = Tail(outbound)
  /\ up' = [up EXCEPT ![sdkConn] = Append(@, Head(outbound))]
  /\ UNCHANGED <<ask, caller, got, asked, since, pending, waiter, sdkConn, serving, writer, sock, gatewayVars, length>>

\* A socket that died under _write_loop loses the frame it had taken and
\* ends the task; the rest of the queue waits for the next socket.
WriteFails ==
  /\ writer
  /\ outbound # <<>>
  /\ sock[sdkConn] = "dead"
  /\ outbound' = Tail(outbound)
  /\ writer' = FALSE
  /\ UNCHANGED <<ask, caller, got, asked, since, pending, waiter, sdkConn, serving, netVars, gatewayVars, length>>

-----------------------------------------------------------------------------
(* The gateway.                                                            *)

\* A frame queued for a dead socket is never carried.
Send(c, f) == down' = IF sock[c] = "dead" THEN down ELSE [down EXCEPT ![c] = Append(@, f)]

\* The checks _answer_query makes before its first await: of the fields a
\* query can get wrong the limit stands for all.
Malformed(q) == ask[q].limit # NoLimit /\ ask[q].limit = 0

\* The read loop spawns _answer_query, which runs to its first await; params
\* that are no object end it there.
ReadQuery(c) ==
  /\ up[c] # <<>>
  /\ up' = [up EXCEPT ![c] = Tail(@)]
  /\ LET q == Head(up[c]) IN
       IF ask[q].shape = "unreadable"
       THEN task' = [task EXCEPT ![q] = [at |-> "raised", conn |-> c]] /\ UNCHANGED down
       ELSE IF Malformed(q)
       THEN Send(c, ErrorResult(q)) /\ UNCHANGED task
       ELSE task' = [task EXCEPT ![q] = [at |-> "thread", conn |-> c]] /\ UNCHANGED down
  /\ UNCHANGED <<clientVars, sock, length>>

\* souk.get_thread returns: a thread of somebody else's agent gets the same
\* answer as none.
GetThread(q) ==
  /\ task[q].at = "thread"
  /\ IF ask[q].thread = "other"
     THEN /\ Send(task[q].conn, ErrorResult(q))
          /\ task' = [task EXCEPT ![q].at = "done"]
     ELSE /\ task' = [task EXCEPT ![q].at = "messages"]
          /\ UNCHANGED down
  /\ UNCHANGED <<clientVars, netVars, length>>

\* Mutant: the first messages instead of the last.
OldestOf(n, limit) ==
  IF limit = NoLimit THEN <<1, n>> ELSE <<1, IF limit < n THEN limit ELSE n>>

\* messages[-limit:], or all of them.
LastOf(n, limit) ==
  IF limit = NoLimit THEN <<1, n>> ELSE <<IF limit < n THEN n - limit + 1 ELSE 1, n>>

\* souk.get_thread_messages returns and the answer is queued, on the socket
\* the question came by, whether or not that is still there.
GetThreadMessages(q) ==
  /\ task[q].at = "messages"
  /\ LET span == LastOf(length, ask[q].limit) IN
       Send(task[q].conn, Messages(q, span[1], span[2]))
  /\ task' = [task EXCEPT ![q].at = "done"]
  /\ UNCHANGED <<clientVars, netVars, length>>

\* The database fails under either await: the task ends with the exception
\* and nobody is told.
AnswerRaises(q) ==
  /\ task[q].at \in {"thread", "messages"}
  /\ task' = [task EXCEPT ![q].at = "raised"]
  /\ UNCHANGED <<clientVars, netVars, down, length>>

-----------------------------------------------------------------------------
(* The world.                                                              *)

\* Souk records another message of the thread.
Grow ==
  /\ length < MaxLength
  /\ length' = length + 1
  /\ UNCHANGED <<clientVars, netVars, gatewayVars>>

\* A socket dies; each side still reads some of what was under way to it.
Drop(c) ==
  /\ c < MaxConns
  /\ sock[c] = "up"
  /\ sock' = [sock EXCEPT ![c] = "dead"]
  /\ \E i \in 0 .. Len(up[c]) : up' = [up EXCEPT ![c] = SubSeq(@, 1, i)]
  /\ \E i \in 0 .. Len(down[c]) : down' = [down EXCEPT ![c] = SubSeq(@, 1, i)]
  /\ UNCHANGED <<clientVars, task, length>>

-----------------------------------------------------------------------------
Next ==
  \/ \E q \in Queries : Ask(q) \/ Resume(q) \/ TimesOut(q)
  \/ ReceiveResult \/ Connect \/ ConnectionLost \/ WriteFrame \/ WriteFails
  \/ \E c \in Conns : ReadQuery(c) \/ Drop(c)
  \/ \E q \in Queries : GetThread(q) \/ GetThreadMessages(q) \/ AnswerRaises(q)
  \/ Grow

Spec == Init /\ [][Next]_vars

\* Tasks get their turn and the client reconnects; no deadline is assumed to
\* fire and the database is assumed to answer.
Fairness ==
  /\ \A q \in Queries : WF_vars(Resume(q)) /\ WF_vars(GetThread(q)) /\ WF_vars(GetThreadMessages(q))
  /\ WF_vars(ReceiveResult) /\ WF_vars(Connect) /\ WF_vars(ConnectionLost) /\ WF_vars(WriteFrame)
  /\ \A c \in Conns : WF_vars(ReadQuery(c))

FairSpec == Spec /\ Fairness

-----------------------------------------------------------------------------
Spans == [is : {"none", "error", "messages"}, first : 0 .. MaxLength + 1, last : 0 .. MaxLength]

\* The type invariant.
TypeOK ==
  /\ ask \in [Queries -> Asks]
  /\ caller \in [Queries -> {"idle", "waiting", "answered", "failed"}]
  /\ got \in [Queries -> Spans]
  /\ asked \in [Queries -> 0 .. MaxConns + 1]
  /\ since \in [Queries -> 0 .. MaxLength]
  /\ pending \subseteq Queries
  /\ waiter \in [Queries -> Spans]
  /\ outbound \in Seq(Queries)
  /\ sdkConn \in 0 .. MaxConns
  /\ serving \in BOOLEAN
  /\ writer \in BOOLEAN
  /\ serving => sdkConn # NoConn
  /\ sock \in [Conns -> {"none", "up", "dead"}]
  /\ up \in [Conns -> Seq(Queries)]
  /\ down \in [Conns -> Seq([query : Queries, is : {"error", "messages"}, first : 0 .. MaxLength + 1, last : 0 .. MaxLength])]
  /\ task \in [Queries -> [at : {"none", "thread", "messages", "done", "raised"}, conn : 0 .. MaxConns]]
  /\ length \in 0 .. MaxLength

\* The caller is given the newest messages of its thread, no more than it
\* asked for, and all of them when the thread holds fewer; they are the
\* newest as of some moment between the question and the answer, so that a
\* lost link never looks like a conversation with nothing in it.
NewestWithinLimit ==
  \A q \in Queries : caller[q] = "answered" =>
    LET count == got[q].last - got[q].first + 1 IN
      /\ got[q].last \in since[q] .. length
      /\ ask[q].limit = NoLimit => count = got[q].last
      /\ ask[q].limit # NoLimit =>
           count = IF ask[q].limit < got[q].last THEN ask[q].limit ELSE got[q].last

\* The selections of the conversation a caller may have sent for its run,
\* stored or not: an AG-UI client sends all turns, an A2A one the newest.
Increasing(s) == \A i, j \in DOMAIN s : i < j => s[i] < s[j]
Selections    == {s \in UNION {[1 .. n -> 1 .. MaxLength] : n \in 0 .. MaxLength} : Increasing(s)}

\* What the agent behind q is shown, its caller having sent these messages.
Shown(q, sent) ==
  LET history == IF caller[q] = "answered"
                 THEN [i \in 1 .. got[q].last + 1 - got[q].first |-> got[q].first + i - 1] ELSE <<>>
  IN WithThreadHistory(history, sent)

\* Whatever became of the query, the agent is shown every turn its caller
\* sent and no turn twice, although the thread includes what this run was
\* started with; and it is shown them in the order they were taken, as long as
\* none its caller sent is older than the oldest souk answered with.
CallerIsHeardOnce ==
  \A q \in Queries : caller[q] \in {"answered", "failed"} => \A sent \in Selections :
    LET shown == Shown(q, sent)
    IN  /\ Elements(sent) \subseteq Elements(shown)
        /\ Cardinality(Elements(shown)) = Len(shown)
        /\ (\A i \in DOMAIN sent : sent[i] >= got[q].first) =>
             Increasing(shown)

\* An answer once set is the answer: neither a second queryResult nor the
\* end of the socket replaces it before the caller has seen it.
AnswerIsFinal ==
  [][\A q \in Queries : waiter[q].is # "none" => waiter'[q] = waiter[q]]_vars

\* A caller is not left to its timeout: unless the task answering it died,
\* the answer or the end of its socket wakes it.
WaitingEnds ==
  \A q \in Queries : caller[q] = "waiting" ~> caller[q] # "waiting" \/ task[q].at = "raised"

-----------------------------------------------------------------------------
(* What the repository says of queries and the code does not do.           *)

\* A query is not retried on reconnect: what reaches the gateway on a
\* connection was asked of that connection.
NotRetriedOnReconnect ==
  \A c \in Conns : \A i \in DOMAIN up[c] : asked[up[c][i]] = c

\* A malformed query is answered, not dropped: what ends a task without an
\* answer is never the question.
MalformedIsAnswered ==
  \A q \in Queries : task[q].at = "raised" => ask[q].shape = "sound"

=============================================================================
