--------------------------- MODULE LinkQueriesProofs ---------------------------
(***************************************************************************)
(* What a caller of thread_messages is given is the newest of its thread,  *)
(* for every number of questions, sockets and messages: the answer is      *)
(* right where it is made and stays right on the socket, in the waiter and *)
(* at the caller, because a thread only grows and a queryId is used once.  *)
(***************************************************************************)
EXTENDS LinkQueries, SequenceTheorems, FiniteSetTheorems, TLAPS

Frames == [query : Queries, is : {"error", "messages"}, first : 0 .. MaxLength + 1, last : 0 .. MaxLength]

\* The answer r to question q: the newest messages as of some moment since.
Newest(q, r) ==
  r.is = "messages" =>
    /\ r.last \in since[q] .. length
    /\ ask[q].limit = NoLimit => r.last - r.first + 1 = r.last
    /\ ask[q].limit # NoLimit =>
         r.last - r.first + 1 = IF ask[q].limit < r.last THEN ask[q].limit ELSE r.last

\* The write loop belongs to the connection served, an answering task to one
\* the gateway read from, and a thread never shrinks.
InStep ==
  /\ writer => serving
  /\ \A q \in Queries : task[q].at # "none" => task[q].conn \in Conns
  /\ \A q \in Queries : since[q] <= length

\* Nothing carries a queryId before its question is asked.
AskedFirst ==
  \A q \in Queries : caller[q] = "idle" =>
    /\ q \notin pending
    /\ waiter[q].is = "none"
    /\ task[q].at = "none"
    /\ \A i \in DOMAIN outbound : outbound[i] # q
    /\ \A c \in Conns : \A i \in DOMAIN up[c] : up[c][i] # q
    /\ \A c \in Conns : \A i \in DOMAIN down[c] : down[c][i].query # q

\* Every answer under way, set or handed over is right.
NewestOnTheWay ==
  /\ \A c \in Conns : \A i \in DOMAIN down[c] : Newest(down[c][i].query, down[c][i])
  /\ \A q \in Queries : Newest(q, waiter[q])
  /\ \A q \in Queries : caller[q] = "answered" => got[q].is = "messages" /\ Newest(q, got[q])

\* The questions' invariant.
QueryInv == TypeOK /\ InStep /\ AskedFirst /\ NewestOnTheWay

\* What the queues do to the set their elements come from, and to the elements.
LEMMA QueueFacts ==
  ASSUME NEW S
  PROVE  /\ <<>> \in Seq(S)
         /\ \A s \in Seq(S), x \in S :
              /\ Append(s, x) \in Seq(S)
              /\ \A i \in DOMAIN Append(s, x) : Append(s, x)[i] = x \/ \E j \in DOMAIN s : Append(s, x)[i] = s[j]
         /\ \A s \in Seq(S) : s # <<>> =>
              /\ Head(s) \in S /\ Tail(s) \in Seq(S)
              /\ \E j \in DOMAIN s : Head(s) = s[j]
              /\ \A i \in DOMAIN Tail(s) : \E j \in DOMAIN s : Tail(s)[i] = s[j]
         /\ \A s \in Seq(S) : \A n \in 0 .. Len(s) :
              /\ SubSeq(s, 1, n) \in Seq(S)
              /\ \A i \in DOMAIN SubSeq(s, 1, n) : \E j \in DOMAIN s : SubSeq(s, 1, n)[i] = s[j]
<1>1. <<>> \in Seq(S)
  OBVIOUS
<1>2. ASSUME NEW s \in Seq(S), NEW x \in S
      PROVE  /\ Append(s, x) \in Seq(S)
             /\ \A i \in DOMAIN Append(s, x) : Append(s, x)[i] = x \/ \E j \in DOMAIN s : Append(s, x)[i] = s[j]
  OBVIOUS
<1>3. ASSUME NEW s \in Seq(S), s # <<>>
      PROVE  /\ Head(s) \in S /\ Tail(s) \in Seq(S)
             /\ \E j \in DOMAIN s : Head(s) = s[j]
             /\ \A i \in DOMAIN Tail(s) : \E j \in DOMAIN s : Tail(s)[i] = s[j]
  <2>1. Head(s) \in S /\ Tail(s) \in Seq(S) /\ Head(s) = s[1] /\ 1 \in DOMAIN s
    BY <1>3, HeadTailProperties
  <2>2. ASSUME NEW i \in DOMAIN Tail(s)
        PROVE  \E j \in DOMAIN s : Tail(s)[i] = s[j]
    <3>1. i \in 1 .. Len(s) - 1 /\ Tail(s)[i] = s[i + 1]
      BY <1>3, <2>2, HeadTailProperties
    <3>2. i + 1 \in DOMAIN s
      BY <3>1
    <3> QED
      BY <3>1, <3>2
  <2> QED
    BY <2>1, <2>2
<1>4. ASSUME NEW s \in Seq(S), NEW n \in 0 .. Len(s)
      PROVE  /\ SubSeq(s, 1, n) \in Seq(S)
             /\ \A i \in DOMAIN SubSeq(s, 1, n) : \E j \in DOMAIN s : SubSeq(s, 1, n)[i] = s[j]
  <2>1. \A j \in 1 .. n : s[j] \in S
    BY <1>4, ElementOfSeq
  <2>2. SubSeq(s, 1, n) \in Seq(S)
    BY <2>1, SubSeqProperties
  <2>3. ASSUME NEW i \in DOMAIN SubSeq(s, 1, n)
        PROVE  \E j \in DOMAIN s : SubSeq(s, 1, n)[i] = s[j]
    <3>1. i \in 1 .. n /\ SubSeq(s, 1, n)[i] = s[i]
      BY <1>4, <2>1, <2>3, SubSeqProperties
    <3> QED
      BY <3>1
  <2> QED
    BY <2>2, <2>3
<1> QED
  BY <1>1, <1>2, <1>3, <1>4

\* What a frame sent does to a queue: it stays a queue of frames, and holds
\* at most that one new.
LEMMA SendFacts ==
  ASSUME TypeOK, NEW c \in Conns, NEW f \in Frames, Send(c, f)
  PROVE  /\ down' \in [Conns -> Seq(Frames)]
         /\ \A d \in Conns : \A i \in DOMAIN down'[d] :
              down'[d][i] = f \/ \E j \in DOMAIN down[d] : down'[d][i] = down[d][j]
<1>0. down \in [Conns -> Seq(Frames)]
  BY DEF TypeOK, Frames
<1>1. CASE sock[c] = "dead"
  BY <1>0, <1>1 DEF Send
<1>2. CASE sock[c] # "dead"
  <2>1. down' = [down EXCEPT ![c] = Append(@, f)]
    BY <1>2 DEF Send
  <2>2. down[c] \in Seq(Frames)
    BY <1>0
  <2>3. /\ Append(down[c], f) \in Seq(Frames)
        /\ \A i \in DOMAIN Append(down[c], f) :
             Append(down[c], f)[i] = f \/ \E j \in DOMAIN down[c] : Append(down[c], f)[i] = down[c][j]
    BY <2>2, QueueFacts
  <2>4. \A d \in Conns : down'[d] = IF d = c THEN Append(down[c], f) ELSE down[d]
    BY <1>0, <2>1
  <2>5. down' \in [Conns -> Seq(Frames)]
    BY <1>0, <2>1, <2>3
  <2> QED
    BY <2>3, <2>4, <2>5
<1> QED
  BY <1>1, <1>2

\* A frame that is an answer.
LEMMA FrameFacts ==
  ASSUME NEW q \in Queries
  PROVE  /\ ErrorResult(q) \in Frames /\ ErrorResult(q).is = "error" /\ ErrorResult(q).query = q
         /\ \A first \in 0 .. MaxLength + 1, last \in 0 .. MaxLength :
              /\ Messages(q, first, last) \in Frames /\ Messages(q, first, last).query = q
              /\ Messages(q, first, last).first = first /\ Messages(q, first, last).last = last
  BY QueryConstants DEF QueryConstants, Frames, ErrorResult, Messages

\* The newest of n messages within a limit.
LEMMA LastOfFacts ==
  ASSUME NEW n \in 0 .. MaxLength, NEW limit \in Nat \cup {NoLimit}
  PROVE  LET span == LastOf(n, limit)
         IN  /\ span[1] \in 0 .. MaxLength + 1 /\ span[2] = n
             /\ limit = NoLimit => span[2] - span[1] + 1 = span[2]
             /\ limit # NoLimit => span[2] - span[1] + 1 = IF limit < n THEN limit ELSE n
  BY QueryConstants DEF QueryConstants, LastOf

\* Everything starts with its type, and nothing has been asked.
LEMMA QueryInit == Init => QueryInv
<1> SUFFICES ASSUME Init PROVE QueryInv
  OBVIOUS
<1> USE QueryConstants DEF QueryConstants, Init, NoConn
<1>1. /\ outbound \in Seq(Queries)
      /\ up \in [Conns -> Seq(Queries)]
      /\ down \in [Conns -> Seq(Frames)]
  OBVIOUS
<1>2. Nothing \in Spans /\ Nothing.is = "none"
  BY DEF Nothing, Spans
<1>3. TypeOK
  <2>1. task \in [Queries -> [at : {"none", "thread", "messages", "done", "raised"}, conn : 0 .. MaxConns]]
    BY DEF NoTask
  <2>2. /\ caller \in [Queries -> {"idle", "waiting", "answered", "failed"}]
        /\ sock \in [Conns -> {"none", "up", "dead"}]
        /\ asked \in [Queries -> 0 .. MaxConns + 1] /\ since \in [Queries -> 0 .. MaxLength]
        /\ sdkConn \in 0 .. MaxConns /\ length \in 0 .. MaxLength
    OBVIOUS
  <2>3. /\ ask \in [Queries -> Asks] /\ pending \subseteq Queries
        /\ got \in [Queries -> Spans] /\ waiter \in [Queries -> Spans]
        /\ serving = FALSE /\ writer = FALSE
    BY <1>2
  <2> QED
    BY <1>1, <2>1, <2>2, <2>3 DEF TypeOK, Frames
<1>4. InStep /\ AskedFirst /\ NewestOnTheWay
  BY <1>2 DEF InStep, AskedFirst, NewestOnTheWay, Newest, NoTask
<1> QED
  BY <1>3, <1>4 DEF QueryInv

\* No step of the client, the gateway or the world leaves the types.
LEMMA QueryTypeStep == TypeOK /\ InStep /\ [Next]_vars => TypeOK'
<1> SUFFICES ASSUME TypeOK, InStep, [Next]_vars
             PROVE  TypeOK'
  OBVIOUS
<1>0. down \in [Conns -> Seq(Frames)]
  BY DEF TypeOK, Frames
<1>1. ASSUME NEW q \in Queries, Ask(q)
      PROVE  TypeOK'
  <2>1. outbound' \in Seq(Queries)
    BY <1>1, QueueFacts DEF Ask, TypeOK
  <2>2. Addressee \in 0 .. MaxConns + 1
    BY QueryConstants DEF QueryConstants, Addressee, TypeOK
  <2>3. asked' \in [Queries -> 0 .. MaxConns + 1] /\ since' \in [Queries -> 0 .. MaxLength]
    BY <1>1, <2>2 DEF Ask, TypeOK
  <2> QED
    BY <1>1, <2>1, <2>3 DEF Ask, TypeOK, netVars, gatewayVars
<1>2. ASSUME NEW q \in Queries, Resume(q) \/ TimesOut(q)
      PROVE  TypeOK'
  <2>1. caller' \in [Queries -> {"idle", "waiting", "answered", "failed"}]
    BY <1>2 DEF Resume, TimesOut, TypeOK
  <2>2. got' \in [Queries -> Spans] /\ pending' \subseteq Queries
    BY <1>2 DEF Resume, TimesOut, Forget, TypeOK
  <2>3. UNCHANGED <<ask, asked, since, waiter, outbound, sdkConn, serving, writer, netVars, gatewayVars, length>>
    BY <1>2 DEF Resume, TimesOut
  <2> QED
    BY <2>1, <2>2, <2>3 DEF TypeOK, netVars, gatewayVars
<1>3. CASE ReceiveResult
  <2>1. sdkConn \in Conns
    BY <1>3 DEF ReceiveResult, TypeOK, Conns, NoConn
  <2>2. Head(down[sdkConn]) \in Frames /\ Tail(down[sdkConn]) \in Seq(Frames)
    BY <1>0, <1>3, <2>1, QueueFacts DEF ReceiveResult
  <2>3. down' \in [Conns -> Seq(Frames)]
    BY <1>0, <1>3, <2>2 DEF ReceiveResult
  <2>4. waiter' \in [Queries -> Spans]
    BY <1>3, <2>2 DEF ReceiveResult, ResolveQuery, Frames, Spans, TypeOK
  <2> QED
    BY <1>3, <2>3, <2>4 DEF ReceiveResult, TypeOK, netVars, Frames
<1>4. CASE Connect
  <2>1. sdkConn' \in 0 .. MaxConns /\ sdkConn' # NoConn
    BY <1>4, QueryConstants DEF QueryConstants, Connect, TypeOK, NoConn
  <2>2. sock' \in [Conns -> {"none", "up", "dead"}]
    BY <1>4 DEF Connect, TypeOK
  <2> QED
    BY <1>4, <2>1, <2>2 DEF Connect, TypeOK, gatewayVars
<1>5. CASE ConnectionLost
  <2>1. waiter' \in [Queries -> Spans] /\ pending' = {}
    <3>1. [Nothing EXCEPT !.is = "error"] \in Spans
      BY QueryConstants DEF QueryConstants, Nothing, Spans
    <3> QED
      BY <1>5, <3>1 DEF ConnectionLost, FailPendingQueries, TypeOK
  <2> QED
    BY <1>5, <2>1 DEF ConnectionLost, TypeOK, netVars, gatewayVars
<1>6. ASSUME outbound \in Seq(Queries), outbound # <<>>
      PROVE  Head(outbound) \in Queries /\ Tail(outbound) \in Seq(Queries)
  BY <1>6, QueueFacts
<1>7. CASE WriteFrame
  <2>1. sdkConn \in Conns
    BY <1>7 DEF WriteFrame, InStep, TypeOK, Conns, NoConn
  <2>2. Head(outbound) \in Queries /\ outbound' \in Seq(Queries)
    BY <1>6, <1>7 DEF WriteFrame, TypeOK
  <2>3. Append(up[sdkConn], Head(outbound)) \in Seq(Queries)
    BY <2>1, <2>2, QueueFacts DEF TypeOK
  <2>4. up' \in [Conns -> Seq(Queries)]
    BY <1>7, <2>3 DEF WriteFrame, TypeOK
  <2> QED
    BY <1>7, <2>2, <2>4 DEF WriteFrame, TypeOK, gatewayVars
<1>8. CASE WriteFails
  <2>1. outbound' \in Seq(Queries)
    BY <1>6, <1>8 DEF WriteFails, TypeOK
  <2> QED
    BY <1>8, <2>1 DEF WriteFails, TypeOK, netVars, gatewayVars
<1>9. ASSUME NEW c \in Conns, ReadQuery(c)
      PROVE  TypeOK'
  <2>1. Head(up[c]) \in Queries /\ Tail(up[c]) \in Seq(Queries)
    BY <1>9, QueueFacts DEF ReadQuery, TypeOK
  <2>2. up' \in [Conns -> Seq(Queries)]
    BY <1>9, <2>1 DEF ReadQuery, TypeOK
  <2>3. down' \in [Conns -> Seq(Frames)]
    BY <1>0, <1>9, <2>1, SendFacts, FrameFacts DEF ReadQuery
  <2>4. task' \in [Queries -> [at : {"none", "thread", "messages", "done", "raised"}, conn : 0 .. MaxConns]]
    <3>1. \A at \in {"thread", "raised"} :
            [at |-> at, conn |-> c] \in [at : {"none", "thread", "messages", "done", "raised"}, conn : 0 .. MaxConns]
      BY DEF Conns
    <3>2. \/ task' = task
          \/ \E at \in {"thread", "raised"} : task' = [task EXCEPT ![Head(up[c])] = [at |-> at, conn |-> c]]
      BY <1>9 DEF ReadQuery
    <3> QED
      BY <2>1, <3>1, <3>2 DEF TypeOK
  <2> QED
    BY <1>9, <2>2, <2>3, <2>4 DEF ReadQuery, TypeOK, clientVars, Frames
<1>10. ASSUME NEW c \in Conns, Drop(c)
       PROVE  TypeOK'
  <2>1. \A i \in 0 .. Len(up[c]) : SubSeq(up[c], 1, i) \in Seq(Queries)
    BY QueueFacts DEF TypeOK
  <2>2. \A i \in 0 .. Len(down[c]) : SubSeq(down[c], 1, i) \in Seq(Frames)
    BY <1>0, QueueFacts
  <2>3. up' \in [Conns -> Seq(Queries)]
    BY <1>10, <2>1 DEF Drop, TypeOK
  <2>4. down' \in [Conns -> Seq(Frames)]
    BY <1>0, <1>10, <2>2 DEF Drop
  <2> QED
    BY <1>10, <2>3, <2>4 DEF Drop, TypeOK, clientVars, Frames
<1>11. ASSUME NEW q \in Queries, GetThread(q) \/ GetThreadMessages(q) \/ AnswerRaises(q)
       PROVE  TypeOK'
  <2>1. task[q].conn \in Conns
    BY <1>11 DEF GetThread, GetThreadMessages, AnswerRaises, InStep
  <2>2. down' \in [Conns -> Seq(Frames)]
    <3>1. CASE GetThread(q)
      BY <1>0, <2>1, <3>1, SendFacts, FrameFacts DEF GetThread
    <3>2. CASE GetThreadMessages(q)
      <4> DEFINE span == LastOf(length, ask[q].limit)
      <4>1. length \in 0 .. MaxLength /\ ask[q].limit \in Nat \cup {NoLimit}
        BY QueryConstants DEF QueryConstants, TypeOK
      <4>2. span[1] \in 0 .. MaxLength + 1 /\ span[2] \in 0 .. MaxLength
        BY <4>1, LastOfFacts
      <4>3. Send(task[q].conn, Messages(q, span[1], span[2]))
        BY <3>2 DEF GetThreadMessages
      <4>4. Messages(q, span[1], span[2]) \in Frames
        BY <4>2, FrameFacts
      <4> QED
        BY <2>1, <4>3, <4>4, SendFacts
    <3>3. CASE AnswerRaises(q)
      BY <1>0, <3>3 DEF AnswerRaises
    <3> QED
      BY <1>11, <3>1, <3>2, <3>3
  <2>3. task' \in [Queries -> [at : {"none", "thread", "messages", "done", "raised"}, conn : 0 .. MaxConns]]
    <3>1. \E at \in {"messages", "done", "raised"} : task' = [task EXCEPT ![q].at = at]
      BY <1>11 DEF GetThread, GetThreadMessages, AnswerRaises
    <3>2. \A at \in {"messages", "done", "raised"} :
            [task[q] EXCEPT !.at = at] \in [at : {"none", "thread", "messages", "done", "raised"}, conn : 0 .. MaxConns]
      BY DEF TypeOK
    <3> QED
      BY <3>1, <3>2 DEF TypeOK
  <2>4. UNCHANGED <<clientVars, netVars, length>>
    BY <1>11 DEF GetThread, GetThreadMessages, AnswerRaises
  <2> QED
    BY <2>2, <2>3, <2>4 DEF TypeOK, clientVars, netVars, Frames
<1>12. CASE Grow
  <2>1. length' \in 0 .. MaxLength
    BY <1>12, QueryConstants DEF QueryConstants, Grow, TypeOK
  <2> QED
    BY <1>12, <2>1 DEF Grow, TypeOK, clientVars, netVars, gatewayVars
<1>13. CASE UNCHANGED vars
  BY <1>13 DEF vars, TypeOK, clientVars, netVars, gatewayVars
<1> QED
  BY <1>1, <1>2, <1>3, <1>4, <1>5, <1>7, <1>8, <1>9, <1>10, <1>11, <1>12, <1>13 DEF Next

\* A question once put is put, and nothing is ever taken out of a thread.
LEMMA OnlyGrows ==
  ASSUME TypeOK, [Next]_vars
  PROVE  /\ ask' = ask /\ length <= length'
         /\ \A q \in Queries : caller[q] # "idle" => caller'[q] # "idle" /\ since'[q] = since[q]
         /\ \A q \in Queries : since[q] <= length => since'[q] <= length'
<1> USE QueryConstants DEF QueryConstants, TypeOK
<1>1. ASSUME NEW q \in Queries, Ask(q)
      PROVE  /\ ask' = ask /\ length <= length'
             /\ \A p \in Queries : caller[p] # "idle" => caller'[p] # "idle" /\ since'[p] = since[p]
             /\ \A p \in Queries : since[p] <= length => since'[p] <= length'
  BY <1>1 DEF Ask
<1>2. ASSUME NEW q \in Queries, Resume(q) \/ TimesOut(q)
      PROVE  /\ ask' = ask /\ length' = length /\ since' = since
             /\ \A p \in Queries : caller[p] # "idle" => caller'[p] # "idle"
  BY <1>2 DEF Resume, TimesOut
<1>3. CASE \/ ReceiveResult \/ Connect \/ ConnectionLost \/ WriteFrame \/ WriteFails
           \/ \E c \in Conns : ReadQuery(c) \/ Drop(c)
           \/ \E q \in Queries : GetThread(q) \/ GetThreadMessages(q) \/ AnswerRaises(q)
           \/ UNCHANGED vars
  <2>1. ask' = ask /\ length' = length /\ since' = since /\ caller' = caller
    BY <1>3 DEF ReceiveResult, Connect, ConnectionLost, WriteFrame, WriteFails, ReadQuery, Drop, GetThread,
                GetThreadMessages, AnswerRaises, vars, clientVars
  <2> QED
    BY <2>1
<1>4. CASE Grow
  <2>1. ask' = ask /\ length' = length + 1 /\ since' = since /\ caller' = caller
    BY <1>4 DEF Grow, clientVars
  <2> QED
    BY <2>1
<1> QED
  BY <1>1, <1>2, <1>3, <1>4 DEF Next

\* The tasks and the loops keep to their connections.
LEMMA InStepStep == TypeOK /\ InStep /\ [Next]_vars => InStep'
<1> SUFFICES ASSUME TypeOK, InStep, [Next]_vars
             PROVE  InStep'
  OBVIOUS
<1>1. \A q \in Queries : (since[q] <= length)'
  BY OnlyGrows DEF InStep
<1>2. (writer => serving)'
  <2>1. \/ writer' = writer /\ serving' = serving
        \/ writer' = FALSE
        \/ serving' = TRUE
    BY DEF Next, vars, Ask, Resume, TimesOut, ReceiveResult, Connect, ConnectionLost, WriteFrame, WriteFails,
           ReadQuery, Drop, GetThread, GetThreadMessages, AnswerRaises, Grow, clientVars
  <2> QED
    BY <2>1 DEF InStep
<1>3. ASSUME NEW q \in Queries, task'[q].at # "none"
      PROVE  task'[q].conn \in Conns
  <2>1. CASE \E c \in Conns : ReadQuery(c)
    <3> PICK c \in Conns : ReadQuery(c)
      BY <2>1
    <3>1. Head(up[c]) \in Queries
      BY QueueFacts DEF ReadQuery, TypeOK
    <3>2. \/ task' = task
          \/ \E at \in {"thread", "raised"} : task' = [task EXCEPT ![Head(up[c])] = [at |-> at, conn |-> c]]
      BY DEF ReadQuery
    <3>3. CASE q = Head(up[c])
      BY <1>3, <3>1, <3>2, <3>3 DEF InStep, TypeOK
    <3>4. CASE q # Head(up[c])
      BY <1>3, <3>1, <3>2, <3>4 DEF InStep, TypeOK
    <3> QED
      BY <3>3, <3>4
  <2>2. CASE \E p \in Queries : GetThread(p) \/ GetThreadMessages(p) \/ AnswerRaises(p)
    <3>1. \E p \in Queries : \E at \in {"messages", "done", "raised"} :
            task[p].at # "none" /\ task' = [task EXCEPT ![p].at = at]
      BY <2>2 DEF GetThread, GetThreadMessages, AnswerRaises
    <3> QED
      BY <1>3, <3>1 DEF InStep, TypeOK
  <2>3. CASE task' = task
    BY <1>3, <2>3 DEF InStep
  <2> QED
    BY <2>1, <2>2, <2>3 DEF Next, vars, Ask, Resume, TimesOut, ReceiveResult, Connect, ConnectionLost, WriteFrame,
         WriteFails, Drop, Grow, gatewayVars
<1> QED
  BY <1>1, <1>2, <1>3 DEF InStep

\* The frames the client writes: each is in the queue because it was asked.
LEMMA QuestionsCarried ==
  ASSUME TypeOK, [Next]_vars
  PROVE  /\ \A i \in DOMAIN outbound' :
              caller'[outbound'[i]] # "idle" \/ \E j \in DOMAIN outbound : outbound'[i] = outbound[j]
         /\ \A c \in Conns : \A i \in DOMAIN up'[c] :
              \/ \E j \in DOMAIN up[c] : up'[c][i] = up[c][j]
              \/ \E j \in DOMAIN outbound : up'[c][i] = outbound[j]
<1> DEFINE Kept == \A i \in DOMAIN outbound' :
                     caller'[outbound'[i]] # "idle" \/ \E j \in DOMAIN outbound : outbound'[i] = outbound[j]
           Sent == \A c \in Conns : \A i \in DOMAIN up'[c] :
                     \/ \E j \in DOMAIN up[c] : up'[c][i] = up[c][j]
                     \/ \E j \in DOMAIN outbound : up'[c][i] = outbound[j]
<1>1. ASSUME up' = up PROVE Sent
  BY <1>1
<1>2. ASSUME outbound' = outbound PROVE Kept
  BY <1>2
<1>3. ASSUME NEW c \in Conns, \A d \in Conns \ {c} : up'[d] = up[d],
             \A i \in DOMAIN up'[c] :
               \/ \E j \in DOMAIN up[c] : up'[c][i] = up[c][j]
               \/ \E j \in DOMAIN outbound : up'[c][i] = outbound[j]
      PROVE  Sent
  BY <1>3
<1> HIDE DEF Sent
<1>4. ASSUME outbound # <<>>, outbound' = Tail(outbound)
      PROVE  Kept
  <2>1. outbound \in Seq(Queries)
    BY DEF TypeOK
  <2>2. \A i \in DOMAIN Tail(outbound) : \E j \in DOMAIN outbound : Tail(outbound)[i] = outbound[j]
    BY <1>4, <2>1, QueueFacts
  <2> QED
    BY <1>4, <2>2
<1>5. ASSUME NEW q \in Queries, Ask(q)
      PROVE  Kept
  <2>1. \A i \in DOMAIN outbound' : outbound'[i] = q \/ \E j \in DOMAIN outbound : outbound'[i] = outbound[j]
    <3>1. outbound \in Seq(Queries) /\ outbound' = Append(outbound, q)
      BY <1>5 DEF Ask, TypeOK
    <3>2. \A i \in DOMAIN Append(outbound, q) :
            Append(outbound, q)[i] = q \/ \E j \in DOMAIN outbound : Append(outbound, q)[i] = outbound[j]
      BY <3>1, QueueFacts
    <3> QED
      BY <3>1, <3>2
  <2>2. caller'[q] # "idle"
    BY <1>5 DEF Ask, TypeOK
  <2> QED
    BY <2>1, <2>2
<1> HIDE DEF Kept
<1>6. CASE \E q \in Queries : Ask(q)
  <2>1. up' = up
    BY <1>6 DEF Ask, netVars
  <2> QED
    BY <1>1, <1>5, <1>6, <2>1 DEF Sent, Kept
<1>7. CASE WriteFrame
  <2>1. Kept
    BY <1>4, <1>7 DEF WriteFrame
  <2>2. sock[sdkConn] = "up" /\ up' = [up EXCEPT ![sdkConn] = Append(@, Head(outbound))]
    BY <1>7 DEF WriteFrame
  <2>3. Sent
    <3>1. CASE sdkConn \in Conns
      <4>1. up[sdkConn] \in Seq(Queries) /\ outbound \in Seq(Queries) /\ outbound # <<>>
        BY <1>7, <3>1 DEF TypeOK, WriteFrame
      <4>2. Head(outbound) \in Queries /\ \E j \in DOMAIN outbound : Head(outbound) = outbound[j]
        BY <4>1, QueueFacts
      <4>3. \A i \in DOMAIN Append(up[sdkConn], Head(outbound)) :
              \/ Append(up[sdkConn], Head(outbound))[i] = Head(outbound)
              \/ \E j \in DOMAIN up[sdkConn] : Append(up[sdkConn], Head(outbound))[i] = up[sdkConn][j]
        BY <4>1, <4>2, QueueFacts
      <4>4. up' = [up EXCEPT ![sdkConn] = Append(up[sdkConn], Head(outbound))]
        BY <2>2
      <4>5. up'[sdkConn] = Append(up[sdkConn], Head(outbound)) /\ \A d \in Conns \ {sdkConn} : up'[d] = up[d]
        BY <3>1, <4>4 DEF TypeOK
      <4>6. \A i \in DOMAIN up'[sdkConn] :
              \/ \E j \in DOMAIN up[sdkConn] : up'[sdkConn][i] = up[sdkConn][j]
              \/ \E j \in DOMAIN outbound : up'[sdkConn][i] = outbound[j]
        BY <4>2, <4>3, <4>5
      <4>7. PICK c \in Conns : c = sdkConn
        BY <3>1
      <4>8. \A i \in DOMAIN up'[c] :
              \/ \E j \in DOMAIN up[c] : up'[c][i] = up[c][j]
              \/ \E j \in DOMAIN outbound : up'[c][i] = outbound[j]
        BY <4>6, <4>7
      <4>9. \A d \in Conns \ {c} : up'[d] = up[d]
        BY <4>5, <4>7
      <4> QED
        BY <1>3, <4>8, <4>9
    <3>2. CASE sdkConn \notin Conns
      BY <1>1, <2>2, <3>2 DEF TypeOK
    <3> QED
      BY <3>1, <3>2
  <2> QED
    BY <2>1, <2>3 DEF Sent, Kept
<1>8. CASE WriteFails
  <2>1. Kept
    BY <1>4, <1>8 DEF WriteFails
  <2>2. Sent
    BY <1>1, <1>8 DEF WriteFails, netVars
  <2> QED
    BY <2>1, <2>2 DEF Sent, Kept
<1>9. ASSUME NEW c \in Conns, ReadQuery(c) \/ Drop(c)
      PROVE  Kept /\ Sent
  <2>1. Kept
    BY <1>2, <1>9 DEF ReadQuery, Drop, clientVars
  <2>2. CASE ReadQuery(c)
    <3>1. up[c] \in Seq(Queries) /\ up[c] # <<>> /\ up' = [up EXCEPT ![c] = Tail(up[c])]
      BY <2>2 DEF ReadQuery, TypeOK
    <3>2. \A i \in DOMAIN Tail(up[c]) : \E j \in DOMAIN up[c] : Tail(up[c])[i] = up[c][j]
      BY <3>1, QueueFacts
    <3>3. up'[c] = Tail(up[c]) /\ \A d \in Conns \ {c} : up'[d] = up[d]
      BY <3>1 DEF TypeOK
    <3>4. \A i \in DOMAIN up'[c] : \E j \in DOMAIN up[c] : up'[c][i] = up[c][j]
      BY <3>2, <3>3
    <3> QED
      BY <1>3, <2>1, <3>3, <3>4
  <2>3. CASE Drop(c)
    <3>1. up[c] \in Seq(Queries)
      BY DEF TypeOK
    <3>2. PICK n \in 0 .. Len(up[c]) : up' = [up EXCEPT ![c] = SubSeq(up[c], 1, n)]
      BY <2>3 DEF Drop
    <3>3. \A i \in DOMAIN SubSeq(up[c], 1, n) : \E j \in DOMAIN up[c] : SubSeq(up[c], 1, n)[i] = up[c][j]
      BY <3>1, QueueFacts
    <3>4. up'[c] = SubSeq(up[c], 1, n) /\ \A d \in Conns \ {c} : up'[d] = up[d]
      BY <3>2 DEF TypeOK
    <3>5. \A i \in DOMAIN up'[c] : \E j \in DOMAIN up[c] : up'[c][i] = up[c][j]
      BY <3>3, <3>4
    <3> QED
      BY <1>3, <2>1, <3>4, <3>5
  <2> QED
    BY <1>9, <2>2, <2>3
<1>10. CASE outbound' = outbound /\ up' = up
  BY <1>1, <1>2, <1>10 DEF Sent, Kept
<1> QED
  BY <1>6, <1>7, <1>8, <1>9, <1>10 DEF Sent, Kept, Next, vars, Resume, TimesOut, ReceiveResult, Connect,
       ConnectionLost, GetThread, GetThreadMessages, AnswerRaises, Grow, clientVars, netVars

\* The answers under way: each was on its way before, or is made now, for a
\* question that was put, and right.
LEMMA AnswersCarried ==
  ASSUME QueryInv, [Next]_vars
  PROVE  \A c \in Conns : \A i \in DOMAIN down'[c] :
           \/ \E j \in DOMAIN down[c] : down'[c][i] = down[c][j]
           \/ caller[down'[c][i].query] # "idle" /\ Newest(down'[c][i].query, down'[c][i])
<1> USE DEF QueryInv
<1>0. down \in [Conns -> Seq(Frames)]
  BY DEF TypeOK, Frames
<1>1. ASSUME NEW c \in Conns, NEW f \in Frames, Send(c, f), caller[f.query] # "idle", Newest(f.query, f)
      PROVE  \A d \in Conns : \A i \in DOMAIN down'[d] :
               \/ \E j \in DOMAIN down[d] : down'[d][i] = down[d][j]
               \/ caller[down'[d][i].query] # "idle" /\ Newest(down'[d][i].query, down'[d][i])
  <2>1. \A d \in Conns : \A i \in DOMAIN down'[d] :
          down'[d][i] = f \/ \E j \in DOMAIN down[d] : down'[d][i] = down[d][j]
    BY <1>1, SendFacts
  <2> QED
    BY <1>1, <2>1
<1>2. ASSUME NEW q \in Queries
      PROVE  ErrorResult(q) \in Frames /\ ErrorResult(q).query = q /\ Newest(q, ErrorResult(q))
  BY FrameFacts DEF Newest
<1>3. ASSUME NEW c \in Conns, ReadQuery(c)
      PROVE  \A d \in Conns : \A i \in DOMAIN down'[d] :
               \/ \E j \in DOMAIN down[d] : down'[d][i] = down[d][j]
               \/ caller[down'[d][i].query] # "idle" /\ Newest(down'[d][i].query, down'[d][i])
  <2>1. CASE down' = down
    BY <2>1
  <2>2. CASE Send(c, ErrorResult(Head(up[c])))
    <3>1. Head(up[c]) \in Queries /\ \E j \in DOMAIN up[c] : Head(up[c]) = up[c][j]
      BY <1>3, QueueFacts DEF ReadQuery, TypeOK
    <3>2. PICK q \in Queries : q = Head(up[c])
      BY <3>1
    <3>3. caller[q] # "idle"
      BY <3>1, <3>2 DEF AskedFirst
    <3> QED
      BY <1>1, <1>2, <2>2, <3>2, <3>3
  <2> QED
    BY <1>3, <2>1, <2>2 DEF ReadQuery
<1>4. ASSUME NEW q \in Queries, GetThread(q)
      PROVE  \A d \in Conns : \A i \in DOMAIN down'[d] :
               \/ \E j \in DOMAIN down[d] : down'[d][i] = down[d][j]
               \/ caller[down'[d][i].query] # "idle" /\ Newest(down'[d][i].query, down'[d][i])
  <2>1. CASE down' = down
    BY <2>1
  <2>2. CASE Send(task[q].conn, ErrorResult(q))
    <3>1. task[q].conn \in Conns /\ caller[q] # "idle"
      BY <1>4 DEF GetThread, InStep, AskedFirst
    <3>2. PICK c \in Conns : c = task[q].conn
      BY <3>1
    <3> QED
      BY <1>1, <1>2, <2>2, <3>1, <3>2
  <2> QED
    BY <1>4, <2>1, <2>2 DEF GetThread
<1>5. ASSUME NEW q \in Queries, GetThreadMessages(q)
      PROVE  \A d \in Conns : \A i \in DOMAIN down'[d] :
               \/ \E j \in DOMAIN down[d] : down'[d][i] = down[d][j]
               \/ caller[down'[d][i].query] # "idle" /\ Newest(down'[d][i].query, down'[d][i])
  <2> DEFINE span == LastOf(length, ask[q].limit)
  <2>1. task[q].conn \in Conns /\ caller[q] # "idle" /\ since[q] <= length
    BY <1>5 DEF GetThreadMessages, InStep, AskedFirst
  <2>2. length \in 0 .. MaxLength /\ since[q] \in 0 .. MaxLength /\ ask[q].limit \in Nat \cup {NoLimit}
    BY QueryConstants DEF QueryConstants, TypeOK
  <2>3. /\ span[1] \in 0 .. MaxLength + 1 /\ span[2] = length
        /\ ask[q].limit = NoLimit => span[2] - span[1] + 1 = span[2]
        /\ ask[q].limit # NoLimit => span[2] - span[1] + 1 = IF ask[q].limit < length THEN ask[q].limit ELSE length
    BY <2>2, LastOfFacts
  <2>4. PICK c \in Conns : c = task[q].conn
    BY <2>1
  <2>5. PICK f : f = Messages(q, span[1], span[2])
    OBVIOUS
  <2>6. f \in Frames /\ f.query = q /\ f.first = span[1] /\ f.last = span[2]
    BY <2>2, <2>3, <2>5, FrameFacts
  <2>7. Newest(q, f)
    BY <2>1, <2>2, <2>3, <2>6 DEF Newest
  <2>8. Send(c, f)
    BY <1>5, <2>4, <2>5 DEF GetThreadMessages
  <2> QED
    BY <1>1, <2>1, <2>6, <2>7, <2>8
<1>6. CASE ReceiveResult
  <2>1. down' = [down EXCEPT ![sdkConn] = Tail(@)] /\ sdkConn \in Conns /\ down[sdkConn] # <<>>
    BY <1>6 DEF ReceiveResult, TypeOK, Conns, NoConn
  <2>2. \A i \in DOMAIN Tail(down[sdkConn]) : \E j \in DOMAIN down[sdkConn] : Tail(down[sdkConn])[i] = down[sdkConn][j]
    BY <1>0, <2>1, QueueFacts
  <2>3. \A d \in Conns : down'[d] = IF d = sdkConn THEN Tail(down[sdkConn]) ELSE down[d]
    BY <1>0, <2>1
  <2> QED
    BY <2>2, <2>3
<1>7. ASSUME NEW c \in Conns, Drop(c)
      PROVE  \A d \in Conns : \A i \in DOMAIN down'[d] : \E j \in DOMAIN down[d] : down'[d][i] = down[d][j]
  <2>1. PICK n \in 0 .. Len(down[c]) : down' = [down EXCEPT ![c] = SubSeq(down[c], 1, n)]
    BY <1>7 DEF Drop
  <2>2. \A i \in DOMAIN SubSeq(down[c], 1, n) : \E j \in DOMAIN down[c] : SubSeq(down[c], 1, n)[i] = down[c][j]
    BY <1>0, QueueFacts
  <2>3. \A d \in Conns : down'[d] = IF d = c THEN SubSeq(down[c], 1, n) ELSE down[d]
    BY <1>0, <2>1
  <2> QED
    BY <2>2, <2>3
<1>8. CASE down' = down
  BY <1>8
<1> QED
  BY <1>3, <1>4, <1>5, <1>6, <1>7, <1>8 DEF Next, vars, Ask, Resume, TimesOut, Connect, ConnectionLost,
       WriteFrame, WriteFails, AnswerRaises, Grow, gatewayVars

\* What a waiter is given came out of the socket, and stays.
LEMMA WaitersCarried ==
  ASSUME TypeOK, [Next]_vars
  PROVE  \A q \in Queries :
           \/ waiter'[q] = waiter[q]
           \/ /\ waiter[q].is = "none" /\ q \in pending
              /\ \/ waiter'[q].is = "error"
                 \/ \E c \in Conns : \E j \in DOMAIN down[c] :
                      LET f == down[c][j]
                      IN  f.query = q /\ waiter'[q] = [is |-> f.is, first |-> f.first, last |-> f.last]
<1>1. CASE ReceiveResult
  <2>1. sdkConn \in Conns /\ down[sdkConn] # <<>> /\ ResolveQuery(Head(down[sdkConn]))
    BY <1>1 DEF ReceiveResult, TypeOK, Conns, NoConn
  <2>2. Head(down[sdkConn]) \in Frames /\ \E j \in DOMAIN down[sdkConn] : Head(down[sdkConn]) = down[sdkConn][j]
    <3>1. down[sdkConn] \in Seq(Frames)
      BY <2>1 DEF TypeOK, Frames
    <3> QED
      BY <2>1, <3>1, QueueFacts
  <2>3. PICK c \in Conns, j \in DOMAIN down[sdkConn] : c = sdkConn /\ Head(down[sdkConn]) = down[c][j]
    BY <2>1, <2>2
  <2>4. down[c][j] \in Frames /\ j \in DOMAIN down[c]
    BY <2>2, <2>3
  <2>5. PICK f \in Frames : f = down[c][j]
    BY <2>4
  <2>6. \/ waiter' = waiter
        \/ /\ f.query \in pending /\ waiter[f.query].is = "none"
           /\ waiter' = [waiter EXCEPT ![f.query] = [is |-> f.is, first |-> f.first, last |-> f.last]]
    BY <2>1, <2>3, <2>5 DEF ResolveQuery
  <2>7. ASSUME NEW q \in Queries, waiter'[q] # waiter[q]
        PROVE  /\ f.query = q /\ q \in pending /\ waiter[q].is = "none"
               /\ waiter'[q] = [is |-> f.is, first |-> f.first, last |-> f.last]
    BY <2>6, <2>7 DEF TypeOK
  <2> QED
    BY <2>4, <2>5, <2>7
<1>2. CASE ConnectionLost
  <2>1. \A q \in Queries : waiter'[q] = IF q \in pending /\ waiter[q].is = "none"
                                        THEN [Nothing EXCEPT !.is = "error"] ELSE waiter[q]
    BY <1>2 DEF ConnectionLost, FailPendingQueries, Outstanding
  <2>2. [Nothing EXCEPT !.is = "error"].is = "error"
    BY DEF Nothing
  <2> QED
    BY <2>1, <2>2
<1>3. CASE waiter' = waiter
  BY <1>3
<1> QED
  BY <1>1, <1>2, <1>3 DEF Next, vars, Ask, Resume, TimesOut, Connect, WriteFrame, WriteFails, ReadQuery, Drop,
       GetThread, GetThreadMessages, AnswerRaises, Grow, clientVars

\* A question still to be put is mentioned nowhere after a step either.
LEMMA AskedFirstStep == QueryInv /\ [Next]_vars => AskedFirst'
<1> SUFFICES ASSUME QueryInv, [Next]_vars, NEW q \in Queries, caller'[q] = "idle"
             PROVE  /\ q \notin pending'
                    /\ waiter'[q].is = "none"
                    /\ task'[q].at = "none"
                    /\ \A i \in DOMAIN outbound' : outbound'[i] # q
                    /\ \A c \in Conns : \A i \in DOMAIN up'[c] : up'[c][i] # q
                    /\ \A c \in Conns : \A i \in DOMAIN down'[c] : down'[c][i].query # q
  BY DEF AskedFirst
<1> USE DEF QueryInv
<1>1. caller[q] = "idle"
  BY OnlyGrows
<1>2. /\ q \notin pending /\ waiter[q].is = "none" /\ task[q].at = "none"
      /\ \A i \in DOMAIN outbound : outbound[i] # q
      /\ \A c \in Conns : \A i \in DOMAIN up[c] : up[c][i] # q
      /\ \A c \in Conns : \A i \in DOMAIN down[c] : down[c][i].query # q
  BY <1>1 DEF AskedFirst
<1>3. waiter'[q].is = "none"
  BY <1>2, WaitersCarried
<1>4. task'[q].at = "none"
  <2>1. CASE \E c \in Conns : ReadQuery(c)
    <3> PICK c \in Conns : ReadQuery(c)
      BY <2>1
    <3>1. Head(up[c]) \in Queries /\ \E j \in DOMAIN up[c] : Head(up[c]) = up[c][j]
      BY QueueFacts DEF ReadQuery, TypeOK
    <3>2. Head(up[c]) # q
      BY <1>2, <3>1
    <3>3. \/ task' = task
          \/ \E at \in {"thread", "raised"} : task' = [task EXCEPT ![Head(up[c])] = [at |-> at, conn |-> c]]
      BY DEF ReadQuery
    <3> QED
      BY <1>2, <3>2, <3>3 DEF TypeOK
  <2>2. CASE \E p \in Queries : GetThread(p) \/ GetThreadMessages(p) \/ AnswerRaises(p)
    <3>1. \E p \in Queries : \E at \in {"messages", "done", "raised"} :
            task[p].at # "none" /\ task' = [task EXCEPT ![p].at = at]
      BY <2>2 DEF GetThread, GetThreadMessages, AnswerRaises
    <3> QED
      BY <1>2, <3>1 DEF TypeOK
  <2>3. CASE task' = task
    BY <1>2, <2>3
  <2> QED
    BY <2>1, <2>2, <2>3 DEF Next, vars, Ask, Resume, TimesOut, ReceiveResult, Connect, ConnectionLost, WriteFrame,
         WriteFails, Drop, Grow, gatewayVars
<1>5. \A i \in DOMAIN outbound' : outbound'[i] # q
  BY <1>2, QuestionsCarried
<1>6. \A c \in Conns : \A i \in DOMAIN up'[c] : up'[c][i] # q
  BY <1>2, QuestionsCarried
<1>7. \A c \in Conns : \A i \in DOMAIN down'[c] : down'[c][i].query # q
  BY <1>1, <1>2, AnswersCarried
<1>8. q \notin pending'
  <2>1. \A p \in Queries : Ask(p) => p # q
    BY DEF Ask, TypeOK
  <2>2. \/ pending' \subseteq pending
        \/ \E p \in Queries : Ask(p) /\ pending' = pending \cup {p}
    BY DEF Next, vars, Ask, Resume, TimesOut, Forget, ReceiveResult, Connect, ConnectionLost, FailPendingQueries,
           WriteFrame, WriteFails, ReadQuery, Drop, GetThread, GetThreadMessages, AnswerRaises, Grow, clientVars
  <2> QED
    BY <1>2, <2>1, <2>2
<1> QED
  BY <1>3, <1>4, <1>5, <1>6, <1>7, <1>8

\* Once a question is put, an answer that is right stays right.
LEMMA NewestStays ==
  ASSUME TypeOK, TypeOK', [Next]_vars
  PROVE  \A q \in Queries : \A r : caller[q] # "idle" /\ r.last \in Nat /\ Newest(q, r) => Newest(q, r)'
<1> SUFFICES ASSUME NEW q \in Queries, NEW r, caller[q] # "idle", r.last \in Nat, Newest(q, r)
             PROVE  Newest(q, r)'
  OBVIOUS
<1>1. ask' = ask /\ length <= length' /\ since'[q] = since[q]
  BY OnlyGrows
<1>2. length \in Nat /\ length' \in Nat /\ since[q] \in Nat
  BY QueryConstants DEF QueryConstants, TypeOK
<1> QED
  BY <1>1, <1>2 DEF Newest

\* Every answer stays right, from the gateway to the caller.
LEMMA NewestStep == QueryInv /\ TypeOK' /\ [Next]_vars => NewestOnTheWay'
<1> SUFFICES ASSUME QueryInv, TypeOK', [Next]_vars
             PROVE  NewestOnTheWay'
  OBVIOUS
<1> USE DEF QueryInv
<1>1. ASSUME NEW c \in Conns, NEW i \in DOMAIN down'[c]
      PROVE  Newest(down[c][i].query, down[c][i])'
  <2>1. PICK f : f = down'[c][i]
    OBVIOUS
  <2>2. f.query \in Queries /\ f.last \in Nat
    <3>1. down'[c] \in Seq(Frames)
      BY DEF TypeOK, Frames
    <3>2. f \in Frames
      BY <2>1, <3>1, ElementOfSeq
    <3> QED
      BY <3>2, QueryConstants DEF QueryConstants, Frames
  <2>3. caller[f.query] # "idle" /\ Newest(f.query, f)
    <3>1. CASE \E j \in DOMAIN down[c] : f = down[c][j]
      BY <2>2, <3>1 DEF AskedFirst, NewestOnTheWay
    <3> QED
      BY <2>1, <3>1, AnswersCarried
  <2>4. Newest(f.query, f)'
    BY <2>2, <2>3, NewestStays
  <2> QED
    BY <2>1, <2>4 DEF Newest
<1>2. ASSUME NEW q \in Queries
      PROVE  Newest(q, waiter[q])'
  <2>1. PICK w : w = waiter'[q]
    OBVIOUS
  <2>2. w \in Spans /\ w.last \in Nat
    <3>1. w \in Spans
      BY <2>1 DEF TypeOK
    <3> QED
      BY <3>1, QueryConstants DEF QueryConstants, Spans
  <2>3. w.is = "messages" => caller[q] # "idle" /\ Newest(q, w)
    <3>1. CASE w = waiter[q]
      BY <3>1 DEF AskedFirst, NewestOnTheWay
    <3>2. ASSUME NEW c \in Conns, NEW j \in DOMAIN down[c], down[c][j].query = q,
                 w = [is |-> down[c][j].is, first |-> down[c][j].first, last |-> down[c][j].last]
          PROVE  caller[q] # "idle" /\ Newest(q, w)
      <4>1. caller[q] # "idle" /\ Newest(q, down[c][j])
        BY <3>2 DEF AskedFirst, NewestOnTheWay
      <4> QED
        BY <3>2, <4>1 DEF Newest
    <3> QED
      BY <2>1, <3>1, <3>2, WaitersCarried
  <2>4. Newest(q, w)'
    <3>1. CASE w.is = "messages"
      BY <2>2, <2>3, <3>1, NewestStays
    <3>2. CASE w.is # "messages"
      BY <3>2 DEF Newest
    <3> QED
      BY <3>1, <3>2
  <2> QED
    BY <2>1, <2>4 DEF Newest
<1>3. ASSUME NEW q \in Queries, caller'[q] = "answered"
      PROVE  got'[q].is = "messages" /\ Newest(q, got[q])'
  <2>1. PICK g : g = got'[q]
    OBVIOUS
  <2>2. g.last \in Nat
    BY <2>1, QueryConstants DEF QueryConstants, TypeOK, Spans
  <2>3. caller[q] # "idle" /\ g.is = "messages" /\ Newest(q, g)
    <3>1. CASE Resume(q)
      <4>1. caller[q] = "waiting" /\ g = waiter[q] /\ waiter[q].is = "messages"
        BY <1>3, <2>1, <3>1 DEF Resume, TypeOK
      <4> QED
        BY <4>1 DEF NewestOnTheWay
    <3>2. CASE caller[q] = "answered" /\ got'[q] = got[q]
      BY <2>1, <3>2 DEF NewestOnTheWay
    <3>3. ASSUME NEW p \in Queries, Ask(p) \/ TimesOut(p) \/ (Resume(p) /\ p # q)
          PROVE  caller[q] = "answered" /\ got'[q] = got[q]
      BY <1>3, <3>3 DEF Ask, TimesOut, Resume, TypeOK
    <3>4. CASE caller' = caller /\ got' = got
      BY <1>3, <3>2, <3>4
    <3> QED
      BY <3>1, <3>2, <3>3, <3>4 DEF Next, vars, ReceiveResult, Connect, ConnectionLost, WriteFrame, WriteFails,
           ReadQuery, Drop, GetThread, GetThreadMessages, AnswerRaises, Grow, clientVars
  <2>4. Newest(q, g)'
    BY <2>2, <2>3, NewestStays
  <2> QED
    BY <2>1, <2>3, <2>4 DEF Newest
<1> QED
  BY <1>1, <1>2, <1>3 DEF NewestOnTheWay

\* No step leads out of the invariant.
LEMMA QueryStep == QueryInv /\ [Next]_vars => QueryInv'
  BY QueryTypeStep, InStepStep, AskedFirstStep, NewestStep DEF QueryInv

\* thread_messages never gives a caller anything but the newest messages of
\* its thread within its limit: get_thread_messages cut to messages[-limit:],
\* carried by one queryResult and matched by its queryId.
THEOREM AlwaysNewest == Spec => []NewestWithinLimit
<1>1. QueryInv => NewestWithinLimit
  BY DEF QueryInv, NewestOnTheWay, Newest, NewestWithinLimit
<1>2. QueryInv /\ [Next]_vars => QueryInv'
  BY QueryStep
<1> QED
  BY <1>1, <1>2, QueryInit, PTL DEF Spec

\* An answer set in a waiter is what its caller will see: a second frame is
\* dropped by _resolve_query and the end of the socket fails only the waiters
\* that are not done.
THEOREM AnswersAreFinal == Spec => AnswerIsFinal
<1>1. QueryInv /\ [Next]_vars => QueryInv'
  BY QueryStep
<1>2. QueryInv /\ [Next]_vars => [\A q \in Queries : waiter[q].is # "none" => waiter'[q] = waiter[q]]_vars
  BY WaitersCarried DEF QueryInv
<1> QED
  BY <1>1, <1>2, QueryInit, PTL DEF Spec, AnswerIsFinal


-----------------------------------------------------------------------------
(* What the agent is shown.  The tail of the merge keeps what was sent and *)
(* not answered with, in its order: the n-th kept position is the one with *)
(* n kept up to it, and counting them is a bijection that keeps the order. *)

\* Counting the positions in a set of them, from the smallest.
LEMMA Counting ==
  ASSUME NEW N \in Nat, NEW K, K \subseteq 1 .. N
  PROVE  /\ Cardinality(K) \in Nat
         /\ \A i \in K : Cardinality({j \in K : j <= i}) \in 1 .. Cardinality(K)
         /\ \A i, j \in K : i < j => Cardinality({m \in K : m <= i}) < Cardinality({m \in K : m <= j})
         /\ \A n \in 1 .. Cardinality(K) : \E i \in K : Cardinality({j \in K : j <= i}) = n
<1> DEFINE P(i) == {j \in K : j <= i}
           rank == [i \in K |-> Cardinality(P(i))]
           C    == 1 .. Cardinality(K)
<1>1. IsFiniteSet(K) /\ Cardinality(K) \in Nat
  <2>1. 1 \in Int /\ N \in Int /\ K \in SUBSET (1 .. N)
    OBVIOUS
  <2>2. IsFiniteSet(1 .. N)
    BY <2>1, FS_Interval
  <2>3. IsFiniteSet(K)
    BY <2>1, <2>2, FS_Subset
  <2> QED
    BY <2>3, FS_CardinalityType
<1>2. ASSUME NEW i \in K
      PROVE  IsFiniteSet(P(i)) /\ Cardinality(P(i)) \in C
  <2>1. IsFiniteSet(P(i)) /\ Cardinality(P(i)) <= Cardinality(K) /\ Cardinality(P(i)) \in Nat
    BY <1>1, FS_Subset, FS_CardinalityType
  <2>2. i \in P(i)
    OBVIOUS
  <2>3. Cardinality(P(i)) # 0
    BY <2>1, <2>2, FS_EmptySet
  <2> QED
    BY <1>1, <2>1, <2>3
<1>3. ASSUME NEW i \in K, NEW j \in K, i < j
      PROVE  Cardinality(P(i)) < Cardinality(P(j))
  <2>1. P(i) \subseteq P(j) /\ j \in P(j) /\ j \notin P(i)
    <3>1. i \in Nat /\ j \in Nat /\ \A m \in K : m \in Nat
      OBVIOUS
    <3>2. \A m \in K : m <= i => m <= j
      BY <1>3, <3>1
    <3>3. j <= j /\ ~ (j <= i)
      BY <1>3, <3>1
    <3> QED
      BY <3>2, <3>3
  <2>2. Cardinality(P(i)) <= Cardinality(P(j)) /\ Cardinality(P(i)) # Cardinality(P(j))
    BY <1>2, <2>1, FS_Subset
  <2> QED
    BY <1>1, <1>2, <2>2
<1>4. rank \in [K -> C] /\ \A i \in K : rank[i] = Cardinality(P(i))
  BY <1>2
<1>5. IsFiniteSet(C) /\ Cardinality(C) = Cardinality(K)
  BY <1>1, FS_Interval
<1> HIDE DEF rank
<1>6. rank \in Injection(K, C)
  <2>1. ASSUME NEW i \in K, NEW j \in K, rank[i] = rank[j]
        PROVE  i = j
    <3>1. \A m \in K : Cardinality(P(m)) \in Nat
      BY <1>1, <1>2
    <3>2. Cardinality(P(i)) = Cardinality(P(j))
      BY <1>4, <2>1
    <3> HIDE DEF P
    <3>3. ~ (i < j) /\ ~ (j < i)
      BY <1>3, <3>1, <3>2
    <3>4. i \in Nat /\ j \in Nat
      OBVIOUS
    <3> QED
      BY <3>3, <3>4
  <2> QED
    BY <1>4, <2>1 DEF Injection, IsInjective
<1>7. rank \in Surjection(K, C)
  BY <1>5, <1>6, FS_Injection
<1>8. \A n \in C : \E i \in K : rank[i] = n
  BY <1>7 DEF Surjection
<1> QED
  BY <1>1, <1>2, <1>3, <1>4, <1>8

\* The tail is what of s is not in seen, and in the order of s.
LEMMA TailFacts ==
  ASSUME NEW seen, NEW s \in Seq(Nat), Increasing(s)
  PROVE  /\ TailOf(seen, s) \in Seq(Nat)
         /\ Increasing(TailOf(seen, s))
         /\ Elements(TailOf(seen, s)) = Elements(s) \ seen
<1> DEFINE K == Unseen(seen, s)
           Rank(i) == Cardinality(UpTo(seen, s, i))
           At(n) == CHOOSE i \in K : Rank(i) = n
           t == TailOf(seen, s)
<1>1. K \subseteq 1 .. Len(s) /\ Len(s) \in Nat /\ DOMAIN s = 1 .. Len(s) /\ s \in [1 .. Len(s) -> Nat]
  BY LenProperties DEF Unseen
<1>2. /\ Cardinality(K) \in Nat
      /\ \A i \in K : Rank(i) \in 1 .. Cardinality(K)
      /\ \A i, j \in K : i < j => Rank(i) < Rank(j)
      /\ \A n \in 1 .. Cardinality(K) : \E i \in K : Rank(i) = n
  <2>1. \A i : UpTo(seen, s, i) = {j \in K : j <= i}
    BY DEF UpTo
  <2> HIDE DEF K
  <2>2. /\ Cardinality(K) \in Nat
        /\ \A i \in K : Cardinality({j \in K : j <= i}) \in 1 .. Cardinality(K)
        /\ \A i, j \in K : i < j => Cardinality({m \in K : m <= i}) < Cardinality({m \in K : m <= j})
        /\ \A n \in 1 .. Cardinality(K) : \E i \in K : Cardinality({j \in K : j <= i}) = n
    BY <1>1, Counting
  <2> QED
    BY <2>1, <2>2
<1>3. t = [n \in 1 .. Cardinality(K) |-> s[At(n)]]
  BY DEF TailOf
<1> HIDE DEF K, Rank, t
<1>4. \A n \in 1 .. Cardinality(K) : At(n) \in K /\ Rank(At(n)) = n
  BY <1>2
<1>5. \A i \in K : At(Rank(i)) = i
  <2> SUFFICES ASSUME NEW i \in K
               PROVE  At(Rank(i)) = i
    OBVIOUS
  <2>1. At(Rank(i)) \in K /\ Rank(At(Rank(i))) = Rank(i)
    BY <1>2, <1>4
  <2> HIDE DEF At
  <2>2. PICK j \in K : j = At(Rank(i))
    BY <2>1
  <2>3. ~ (i < j) /\ ~ (j < i)
    BY <1>2, <2>1, <2>2
  <2>4. i \in Nat /\ j \in Nat
    BY <1>1
  <2> QED
    BY <2>2, <2>3, <2>4
<1> HIDE DEF At
<1>6. \A n \in 1 .. Cardinality(K) : t[n] = s[At(n)] /\ t[n] \in Nat
  BY <1>1, <1>3, <1>4
<1>7. t \in [1 .. Cardinality(K) -> Nat]
  BY <1>3, <1>6
<1>8. t \in Seq(Nat) /\ DOMAIN t = 1 .. Cardinality(K)
  BY <1>2, <1>7, SeqDef
<1>9. Increasing(t)
  <2> SUFFICES ASSUME NEW m \in 1 .. Cardinality(K), NEW n \in 1 .. Cardinality(K), m < n
               PROVE  t[m] < t[n]
    BY <1>8 DEF Increasing
  <2>1. PICK i \in K : i = At(m) /\ Rank(i) = m
    BY <1>4
  <2>2. PICK j \in K : j = At(n) /\ Rank(j) = n
    BY <1>4
  <2>3. i \in DOMAIN s /\ j \in DOMAIN s /\ i \in Nat /\ j \in Nat
    BY <1>1
  <2>4. ~ (j < i) /\ i # j
    BY <1>2, <2>1, <2>2
  <2>5. i < j
    BY <2>3, <2>4
  <2> QED
    BY <1>6, <2>1, <2>2, <2>3, <2>5 DEF Increasing
<1>10. Elements(t) = Elements(s) \ seen
  <2>1. ASSUME NEW n \in 1 .. Cardinality(K)
        PROVE  t[n] \in Elements(s) \ seen
    <3>1. PICK i \in K : i = At(n)
      BY <1>4
    <3> QED
      BY <1>6, <3>1 DEF K, Unseen, Elements
  <2>2. ASSUME NEW i \in DOMAIN s, s[i] \notin seen
        PROVE  \E n \in 1 .. Cardinality(K) : t[n] = s[i]
    <3>1. i \in K
      BY <2>2 DEF K, Unseen
    <3>2. Rank(i) \in 1 .. Cardinality(K) /\ t[Rank(i)] = s[i]
      BY <1>2, <1>5, <1>6, <3>1
    <3> QED
      BY <3>2
  <2> QED
    BY <1>8, <2>1, <2>2 DEF Elements
<1> QED
  BY <1>8, <1>9, <1>10 DEF t

\* A sequence that repeats nothing has as many elements as positions.
LEMMA Distinct ==
  ASSUME NEW s \in Seq(Nat), \A i, j \in DOMAIN s : s[i] = s[j] => i = j
  PROVE  Cardinality(Elements(s)) = Len(s)
<1>1. Len(s) \in Nat /\ DOMAIN s = 1 .. Len(s) /\ s \in [1 .. Len(s) -> Nat]
  BY LenProperties
<1>2. s \in [1 .. Len(s) -> Elements(s)]
  BY <1>1 DEF Elements
<1>3. s \in Bijection(1 .. Len(s), Elements(s))
  BY <1>1, <1>2 DEF Bijection, Injection, IsInjective, Surjection, Elements
<1>4. ExistsBijection(1 .. Len(s), Elements(s))
  BY <1>3 DEF ExistsBijection
<1>5. IsFiniteSet(1 .. Len(s)) /\ Cardinality(1 .. Len(s)) = Len(s)
  <2>1. 1 \in Int /\ Len(s) \in Int /\ Len(s) \in Nat
    BY <1>1
  <2>2. /\ IsFiniteSet(1 .. Len(s))
        /\ Cardinality(1 .. Len(s)) = IF 1 > Len(s) THEN 0 ELSE Len(s) - 1 + 1
    BY <2>1, FS_Interval
  <2> QED
    BY <2>1, <2>2
<1> QED
  BY <1>4, <1>5, FS_Bijection

\* Stored turns in their order, and what was sent of them in its order: merged,
\* every sent turn is there and none twice, and the order is kept if none of
\* those sent is older than the oldest stored one.
LEMMA MergeFacts ==
  ASSUME NEW first \in Nat, NEW last \in Nat, NEW sent \in Seq(Nat), Increasing(sent),
         NEW history, history = [i \in 1 .. last + 1 - first |-> first + i - 1]
  PROVE  LET shown == WithThreadHistory(history, sent)
         IN  /\ Elements(sent) \subseteq Elements(shown)
             /\ Cardinality(Elements(shown)) = Len(shown)
             /\ (\A i \in DOMAIN sent : sent[i] >= first) => Increasing(shown)
<1> DEFINE N     == last + 1 - first
           seen  == Elements(history)
           tail  == TailOf(seen, sent)
           shown == WithThreadHistory(history, sent)
<1>1. CASE history = <<>>
  <2>1. shown = sent
    BY <1>1 DEF WithThreadHistory
  <2>2. DOMAIN sent = 1 .. Len(sent) /\ Len(sent) \in Nat /\ sent \in [1 .. Len(sent) -> Nat]
    BY LenProperties
  <2>3. \A i, j \in DOMAIN sent : sent[i] = sent[j] => i = j
    BY <2>2 DEF Increasing
  <2>4. Cardinality(Elements(sent)) = Len(sent)
    BY <2>3, Distinct
  <2> QED
    BY <2>1, <2>4
<1>2. CASE history # <<>>
  <2>1. N \in Nat
    <3>1. CASE N < 1
      <4>1. 1 .. N = {}
        BY <3>1
      <4>2. history = [i \in {} |-> first + i - 1]
        BY <4>1
      <4>3. history = <<>>
        BY <4>2
      <4> QED
        BY <1>2, <4>3
    <3> QED
      BY <3>1
  <2>2. history \in [1 .. N -> Nat] /\ \A i \in 1 .. N : history[i] = first + i - 1
    BY <2>1
  <2>3. history \in Seq(Nat) /\ Len(history) = N /\ DOMAIN history = 1 .. N
    BY <2>1, <2>2, SeqDef, LenProperties
  <2>4. \A x \in Nat : x \in seen <=> first <= x /\ x <= last
    <3>1. ASSUME NEW x \in Nat, first <= x, x <= last
          PROVE  x \in seen
      <4>1. x - first + 1 \in 1 .. N /\ first + (x - first + 1) - 1 = x
        BY <3>1
      <4>2. history[x - first + 1] = x
        BY <2>2, <4>1
      <4> QED
        BY <2>3, <4>1, <4>2 DEF Elements
    <3>2. ASSUME NEW x \in seen
          PROVE  first <= x /\ x <= last
      <4>1. PICK i \in 1 .. N : x = history[i]
        BY <2>3 DEF Elements
      <4> QED
        BY <2>1, <2>2, <4>1
    <3> QED
      BY <3>1, <3>2
  <2>5. tail \in Seq(Nat) /\ Increasing(tail) /\ Elements(tail) = Elements(sent) \ seen
    BY TailFacts
  <2>6. shown = history \o tail
    BY <1>2 DEF WithThreadHistory, Merge
  <2> DEFINE M == Len(tail)
  <2>7. M \in Nat /\ DOMAIN tail = 1 .. M /\ tail \in [1 .. M -> Nat]
    BY <2>5, LenProperties
  <2> HIDE DEF tail, N, seen
  <2>8. /\ shown \in Seq(Nat) /\ Len(shown) = N + M /\ DOMAIN shown = 1 .. N + M
        /\ \A i \in 1 .. N + M : shown[i] = IF i <= N THEN history[i] ELSE tail[i - N]
    <3>1. /\ shown \in Seq(Nat) /\ Len(shown) = N + M
          /\ \A i \in 1 .. N + M : shown[i] = IF i <= N THEN history[i] ELSE tail[i - N]
      <4>1. /\ history \o tail \in Seq(Nat) /\ Len(history \o tail) = Len(history) + Len(tail)
            /\ \A i \in 1 .. Len(history) + Len(tail) :
                 (history \o tail)[i] = IF i <= Len(history) THEN history[i] ELSE tail[i - Len(history)]
        BY <2>3, <2>5, ConcatProperties
      <4> QED
        BY <2>3, <2>6, <4>1
    <3> QED
      BY <3>1, LenProperties
  <2> HIDE DEF shown, M
  <2>9. ASSUME NEW i \in 1 .. N + M
        PROVE  \/ i \in 1 .. N /\ shown[i] = first + i - 1 /\ shown[i] \in seen
               \/ i \notin 1 .. N /\ i - N \in 1 .. M /\ shown[i] = tail[i - N] /\ shown[i] \notin seen
    <3>3. i \in Nat /\ i <= N + M /\ i >= 1
      BY <2>1, <2>7
    <3>1. CASE i <= N
      <4>1. i \in 1 .. N /\ shown[i] = history[i]
        BY <2>1, <2>8, <3>1
      <4>2. history[i] \in seen
        BY <2>3, <4>1 DEF Elements, seen
      <4> QED
        BY <2>2, <4>1, <4>2
    <3>2. CASE ~ (i <= N)
      <4>1. i - N \in 1 .. M /\ i \notin 1 .. N /\ shown[i] = tail[i - N]
        <5>1. i - N \in 1 .. M /\ i \notin 1 .. N
          BY <2>1, <2>7, <3>2, <3>3
        <5> QED
          BY <2>8, <3>2, <5>1
      <4>2. tail[i - N] \in Elements(tail)
        BY <2>7, <4>1 DEF Elements
      <4> QED
        BY <2>5, <4>1, <4>2
    <3> QED
      BY <3>1, <3>2
  <2>10. Elements(sent) \subseteq Elements(shown)
    <3> SUFFICES ASSUME NEW x \in Elements(sent)
                 PROVE  \E i \in 1 .. N + M : shown[i] = x
      BY <2>8 DEF Elements
    <3>1. CASE x \in seen
      <4>1. PICK i \in 1 .. N : x = history[i]
        BY <2>3, <3>1 DEF Elements, seen
      <4>2. i \in 1 .. N + M /\ i <= N
        BY <2>1, <2>7
      <4> QED
        BY <2>8, <4>1, <4>2
    <3>2. CASE x \notin seen
      <4>1. PICK i \in 1 .. M : x = tail[i]
        BY <2>5, <2>7, <3>2 DEF Elements
      <4>2. N + i \in 1 .. N + M /\ ~ (N + i <= N) /\ (N + i) - N = i
        BY <2>1, <2>7
      <4> QED
        BY <2>8, <4>1, <4>2
    <3> QED
      BY <3>1, <3>2
  <2>11. \A i, j \in 1 .. N + M : i < j /\ shown[i] \in seen /\ shown[j] \in seen => shown[i] < shown[j]
    BY <2>1, <2>7, <2>9
  <2>12. \A i, j \in 1 .. N + M : i < j /\ shown[i] \notin seen /\ shown[j] \notin seen => shown[i] < shown[j]
    <3> SUFFICES ASSUME NEW i \in 1 .. N + M, NEW j \in 1 .. N + M, i < j, shown[i] \notin seen, shown[j] \notin seen
                 PROVE  shown[i] < shown[j]
      OBVIOUS
    <3>1. i - N \in 1 .. M /\ shown[i] = tail[i - N] /\ j - N \in 1 .. M /\ shown[j] = tail[j - N]
      BY <2>9
    <3>2. i - N < j - N
      BY <2>1, <2>7
    <3> QED
      BY <2>5, <2>7, <3>1, <3>2 DEF Increasing
  <2>13. \A i, j \in 1 .. N + M : i < j => ~ (shown[i] \notin seen /\ shown[j] \in seen)
    BY <2>1, <2>7, <2>9
  <2>14. \A i \in 1 .. N + M : shown[i] \in Nat
    BY <2>8, LenProperties
  <2>15. \A i, j \in DOMAIN shown : shown[i] = shown[j] => i = j
    <3> SUFFICES ASSUME NEW i \in 1 .. N + M, NEW j \in 1 .. N + M, shown[i] = shown[j]
                 PROVE  i = j
      BY <2>8
    <3>1. ~ (i < j) /\ ~ (j < i)
      BY <2>11, <2>12, <2>14
    <3> QED
      BY <2>1, <2>7, <3>1
  <2>16. Cardinality(Elements(shown)) = Len(shown)
    BY <2>8, <2>15, Distinct
  <2>17. ASSUME \A i \in DOMAIN sent : sent[i] >= first
         PROVE  Increasing(shown)
    <3>1. \A x \in Elements(sent) : x \in Nat /\ x >= first
      BY <2>17, LenProperties DEF Elements
    <3>2. \A i \in 1 .. N + M : shown[i] \notin seen => shown[i] > last
      <4> SUFFICES ASSUME NEW i \in 1 .. N + M, shown[i] \notin seen
                   PROVE  shown[i] > last
        OBVIOUS
      <4>1. i - N \in 1 .. M /\ shown[i] = tail[i - N]
        BY <2>9
      <4>2. shown[i] \in Elements(sent)
        BY <2>5, <2>7, <4>1 DEF Elements
      <4>3. shown[i] >= first
        BY <3>1, <4>2
      <4> QED
        BY <2>4, <2>14, <4>3
    <3>3. \A i \in 1 .. N + M : shown[i] \in seen => shown[i] <= last
      BY <2>4, <2>14
    <3> SUFFICES ASSUME NEW i \in 1 .. N + M, NEW j \in 1 .. N + M, i < j
                 PROVE  shown[i] < shown[j]
      BY <2>8 DEF Increasing
    <3>4. CASE shown[i] \in seen /\ shown[j] \notin seen
      BY <2>14, <3>2, <3>3, <3>4
    <3> QED
      BY <2>11, <2>12, <2>13, <3>4
  <2> QED
    BY <2>10, <2>16, <2>17 DEF shown
<1> QED
  BY <1>1, <1>2

\* Whatever became of the question, the agent is shown each turn its caller
\* sent, none twice, and in their order: for every length of a thread, every
\* limit and every selection of turns the caller may have sent.
THEOREM AlwaysHeardOnce == Spec => []CallerIsHeardOnce
<1>1. QueryInv => CallerIsHeardOnce
  <2> SUFFICES ASSUME QueryInv, NEW q \in Queries, caller[q] \in {"answered", "failed"}, NEW sent \in Selections
               PROVE  LET shown == Shown(q, sent)
                      IN  /\ Elements(sent) \subseteq Elements(shown)
                          /\ Cardinality(Elements(shown)) = Len(shown)
                          /\ (\A i \in DOMAIN sent : sent[i] >= got[q].first) => Increasing(shown)
    BY DEF CallerIsHeardOnce
  <2>1. MaxLength \in Nat
    BY QueryConstants DEF QueryConstants
  <2>2. PICK n \in 0 .. MaxLength : sent \in [1 .. n -> 1 .. MaxLength] /\ Increasing(sent)
    BY DEF Selections
  <2>3. sent \in Seq(Nat)
    <3>1. n \in Nat /\ sent \in [1 .. n -> Nat]
      BY <2>1, <2>2
    <3> QED
      BY <3>1, SeqDef
  <2>4. CASE caller[q] = "answered"
    <3>1. got[q] \in Spans
      BY DEF QueryInv, TypeOK
    <3>2. got[q].first \in Nat /\ got[q].last \in Nat
      BY <2>1, <3>1 DEF Spans
    <3> DEFINE history == [i \in 1 .. got[q].last + 1 - got[q].first |-> got[q].first + i - 1]
    <3>3. Shown(q, sent) = WithThreadHistory(history, sent)
      BY <2>4 DEF Shown
    <3> QED
      BY <2>2, <2>3, <3>2, <3>3, MergeFacts
  <2>5. CASE caller[q] = "failed"
    <3>1. Shown(q, sent) = sent
      BY <2>5 DEF Shown, WithThreadHistory
    <3>2. DOMAIN sent = 1 .. Len(sent) /\ Len(sent) \in Nat /\ sent \in [1 .. Len(sent) -> Nat]
      BY <2>3, LenProperties
    <3>3. \A i, j \in DOMAIN sent : sent[i] = sent[j] => i = j
      BY <2>2, <3>2 DEF Increasing
    <3>4. Cardinality(Elements(sent)) = Len(sent)
      BY <2>3, <3>3, Distinct
    <3> QED
      BY <2>2, <3>1, <3>4
  <2> QED
    BY <2>4, <2>5
<1> QED
  BY <1>1, QueryInit, QueryStep, PTL DEF Spec

\* Every table, queue and task of the questions keeps its type, whatever sockets
\* drop and whoever gives up waiting.
THEOREM TypeCorrect == Spec => []TypeOK
<1>1. QueryInv => TypeOK
  BY DEF QueryInv
<1> QED
  BY <1>1, QueryInit, QueryStep, PTL DEF Spec

=============================================================================
