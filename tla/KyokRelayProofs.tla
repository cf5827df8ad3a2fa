--------------------------- MODULE KyokRelayProofs ---------------------------
(***************************************************************************)
(* Safety of the KYOK relay for every number of completions, connections   *)
(* and chunks: an answer is taken where its request went, and what its     *)
(* caller gets is what AnswerStream promises.                              *)
(***************************************************************************)
EXTENDS KyokRelay, SequenceTheorems, TLAPS

\* What the queues do to the set their elements come from.
LEMMA QueueFacts ==
  ASSUME NEW S
  PROVE  /\ <<>> \in Seq(S)
         /\ \A s \in Seq(S), x \in S : Append(s, x) \in Seq(S)
         /\ \A s \in Seq(S) : s # <<>> => Head(s) \in S /\ Tail(s) \in Seq(S)
         /\ \A s \in Seq(S) : \A i \in 0 .. Len(s) : SubSeq(s, 1, i) \in Seq(S)
<1>1. <<>> \in Seq(S)
  OBVIOUS
<1>2. ASSUME NEW s \in Seq(S), NEW x \in S
      PROVE  Append(s, x) \in Seq(S)
  OBVIOUS
<1>3. ASSUME NEW s \in Seq(S), s # <<>>
      PROVE  Head(s) \in S /\ Tail(s) \in Seq(S)
  BY <1>3, HeadTailProperties
<1>4. ASSUME NEW s \in Seq(S), NEW i \in 0 .. Len(s)
      PROVE  SubSeq(s, 1, i) \in Seq(S)
  <2>1. \A j \in 1 .. i : s[j] \in S
    BY <1>4, ElementOfSeq
  <2> QED
    BY <2>1, SubSeqProperties
<1> QED
  BY <1>1, <1>2, <1>3, <1>4

\* The gateway's Send keeps what is queued for the bridge a queue of frames.
LEMMA SendType ==
  ASSUME NEW S, down \in [Conns -> Seq(S)], NEW c \in Conns, NEW f \in S, Send(c, f)
  PROVE  down' \in [Conns -> Seq(S)]
  BY QueueFacts DEF Send

\* Every variable starts with its type.
LEMMA TypeInit == Init => TypeOK
<1> SUFFICES ASSUME Init PROVE TypeOK
  OBVIOUS
<1>1. /\ got \in [Reqs -> Seq(0 .. Chunks)]
      /\ queue \in [Reqs -> Seq(Items)]
      /\ down \in [Conns -> Seq(DownFrames)]
      /\ up \in [Conns -> Seq(UpFrames)]
      /\ outbound \in [Conns -> Seq(UpFrames)]
      /\ made \in [Reqs -> Seq(ChunkKinds)]
  BY DEF Init
<1>2. strays \in 0 .. MaxStrays /\ bconn \in 0 .. MaxConns
  BY ConstantsAssumption DEF ConstantsAssumption, Init, NoConn
<1> QED
  BY <1>1, <1>2 DEF Init, TypeOK

\* No step takes a variable outside its type.
LEMMA TypeStep == TypeOK /\ [Next]_vars => TypeOK'
<1> SUFFICES ASSUME TypeOK, [Next]_vars
             PROVE  TypeOK'
  OBVIOUS
<1> USE ConstantsAssumption DEF ConstantsAssumption, TypeOK
<1>1. ASSUME NEW q \in Reqs, Complete(q)
      PROVE  TypeOK'
  <2>1. current \in Conns
    BY <1>1 DEF Complete, NoConn
  <2>2. Frame("completionRequest", q, 0, "ok") \in DownFrames
    BY DEF Frame, DownFrames
  <2>3. down' \in [Conns -> Seq(DownFrames)]
    BY <1>1, <2>1, <2>2, SendType DEF Complete
  <2>4. /\ req' \in [Reqs -> {"new"} \cup Waiting \cup Over]
        /\ bound' \in [Reqs -> Conns \cup {NoConn}]
        /\ answers' \in [Conns -> SUBSET Reqs]
    BY <1>1, <2>1 DEF Complete, Waiting
  <2> QED
    BY <1>1, <2>3, <2>4 DEF Complete, netVars, bridgeVars, taskVars
<1>2. ASSUME NEW q \in Reqs, CompleteUnattached(q) \/ StartReading(q) \/ DropUnstarted(q)
      PROVE  TypeOK'
  BY <1>2 DEF CompleteUnattached, StartReading, DropUnstarted, Waiting, Over,
              linkVars, netVars, bridgeVars, taskVars
<1>3. ASSUME NEW q \in Reqs, NEW outcome \in Over, EndStream(q, outcome)
      PROVE  /\ req' \in [Reqs -> {"new"} \cup Waiting \cup Over]
             /\ answers' \in [Conns -> SUBSET Reqs]
  BY <1>3 DEF EndStream
<1>4. ASSUME NEW q \in Reqs, CloseStream(q) \/ GapTimeout(q)
      PROVE  TypeOK'
  <2>1. /\ req' \in [Reqs -> {"new"} \cup Waiting \cup Over]
        /\ answers' \in [Conns -> SUBSET Reqs]
    BY <1>3, <1>4 DEF CloseStream, GapTimeout, Over
  <2> QED
    BY <1>4, <2>1 DEF CloseStream, GapTimeout, netVars, bridgeVars, taskVars
<1>5. ASSUME NEW q \in Reqs, NextItem(q)
      PROVE  TypeOK'
  <2> DEFINE item == Head(queue[q])
  <2>1. item \in Items /\ Tail(queue[q]) \in Seq(Items)
    BY <1>5, QueueFacts DEF NextItem
  <2>2. queue' \in [Reqs -> Seq(Items)]
    BY <1>5, <2>1 DEF NextItem
  <2>3. Append(got[q], item.n) \in Seq(0 .. Chunks)
    BY <2>1, QueueFacts DEF Items
  <2>4. got' = [got EXCEPT ![q] = Append(@, item.n)] \/ got' = got
    BY <1>5 DEF NextItem
  <2>5. got' \in [Reqs -> Seq(0 .. Chunks)]
    BY <2>3, <2>4
  <2>6. Verdict(item) \in {"reading"} \cup Over
    BY DEF Verdict, Over
  <2>7. /\ req' \in [Reqs -> {"new"} \cup Waiting \cup Over]
        /\ answers' \in [Conns -> SUBSET Reqs]
    BY <1>3, <1>5, <2>6 DEF NextItem
  <2> QED
    BY <1>5, <2>2, <2>5, <2>7 DEF NextItem, netVars, bridgeVars, taskVars
<1>6. ASSUME NEW c \in Conns, Attach(c) \/ AttachReturns(c)
      PROVE  TypeOK'
  BY <1>6 DEF Attach, AttachReturns, coreVars, netVars, bridgeVars, taskVars
<1>7. ASSUME NEW c \in Conns, AttachRefused(c)
      PROVE  TypeOK'
  <2>1. down' \in [Conns -> Seq(DownFrames)] /\ up' \in [Conns -> Seq(UpFrames)]
    BY <1>7 DEF AttachRefused
  <2> QED
    BY <1>7, <2>1 DEF AttachRefused, coreVars, bridgeVars, taskVars
<1>8. ASSUME NEW c \in Conns, NEW types, Reads(c, types)
      PROVE  /\ Head(up[c]) \in UpFrames
             /\ up' \in [Conns -> Seq(UpFrames)]
             /\ UNCHANGED <<coreVars, link, answers, bound, sock, strays, bridgeVars, taskVars>>
  BY <1>8, QueueFacts DEF Reads
<1>9. ASSUME NEW c \in Conns, NEW q \in Reqs, Send(c, Frame("error", q, 0, "ok"))
      PROVE  down' \in [Conns -> Seq(DownFrames)]
  <2>1. Frame("error", q, 0, "ok") \in DownFrames
    BY DEF Frame, DownFrames
  <2> QED
    BY <1>9, <2>1, SendType
<1>10. ASSUME NEW c \in Conns, NEW q \in Reqs, NEW item \in Items, Feed(c, q, item)
       PROVE  queue' \in [Reqs -> Seq(Items)] /\ down' \in [Conns -> Seq(DownFrames)]
  <2>1. Append(queue[q], item) \in Seq(Items)
    BY QueueFacts
  <2>2. CASE Takes(c, q)
    BY <1>10, <2>1, <2>2 DEF Feed
  <2>3. CASE ~ Takes(c, q)
    BY <1>9, <1>10, <2>3 DEF Feed
  <2> QED
    BY <2>2, <2>3
<1>11. ASSUME NEW c \in Conns, ReadChunk(c) \/ ReadEnd(c)
       PROVE  TypeOK'
  <2> DEFINE f == Head(up[c])
  <2>1. /\ f \in UpFrames
        /\ up' \in [Conns -> Seq(UpFrames)]
        /\ UNCHANGED <<coreVars, link, answers, bound, sock, strays, bridgeVars, taskVars>>
    BY <1>8, <1>11 DEF ReadChunk, ReadEnd
  <2>2. f.req \in Reqs /\ Item("chunk", f.n, f.kind, c) \in Items
    BY <2>1 DEF UpFrames, Item, Items
  <2>3. f.type \in {"done", "error"} => Item(f.type, 0, "ok", c) \in Items
    BY DEF Item, Items
  <2>4. queue' \in [Reqs -> Seq(Items)] /\ down' \in [Conns -> Seq(DownFrames)]
    BY <1>9, <1>10, <1>11, <2>2, <2>3 DEF ReadChunk, ReadEnd, Reads
  <2> QED
    BY <2>1, <2>4 DEF coreVars, bridgeVars, taskVars
<1>12. ASSUME NEW c \in Conns, Disconnected(c)
       PROVE  TypeOK'
  <2>1. Failure(c) \in Items
    BY DEF Failure, Item, Items
  <2>2. \A q \in Reqs : Append(queue[q], Failure(c)) \in Seq(Items)
    BY <2>1, QueueFacts
  <2>3. queue' \in [Reqs -> Seq(Items)] /\ answers' \in [Conns -> SUBSET Reqs]
    BY <1>12, <2>2 DEF Disconnected, FailPending
  <2> QED
    BY <1>12, <2>3 DEF Disconnected, netVars, bridgeVars, taskVars
<1>13. ASSUME NEW c \in Conns, Drop(c)
       PROVE  TypeOK'
  <2>1. up' \in [Conns -> Seq(UpFrames)]
    BY <1>13, QueueFacts DEF Drop
  <2>2. down' \in [Conns -> Seq(DownFrames)]
    BY <1>13, QueueFacts DEF Drop
  <2> QED
    BY <1>13, <2>1, <2>2 DEF Drop, coreVars, bridgeVars, taskVars
<1>14. ASSUME NEW c \in Conns, NEW q \in Reqs, NEW type \in {"chunk", "done"}, StrayFrame(c, q, type)
       PROVE  TypeOK'
  <2>1. Frame(type, q, 0, "ok") \in UpFrames
    BY DEF Frame, UpFrames
  <2>2. up' \in [Conns -> Seq(UpFrames)]
    BY <1>14, <2>1, QueueFacts DEF StrayFrame
  <2>3. strays' \in 0 .. MaxStrays
    BY <1>14 DEF StrayFrame
  <2>4. UNCHANGED <<coreVars, linkVars, sock, bridgeVars, taskVars>>
    BY <1>14 DEF StrayFrame
  <2> QED
    BY <2>2, <2>3, <2>4 DEF coreVars, linkVars, bridgeVars, taskVars
<1>15. CASE Connect
  <2>1. bconn + 1 \in Conns /\ bconn + 1 \in 0 .. MaxConns
    BY <1>15 DEF Connect, Conns
  <2>2. Frame("welcome", NoReq, 0, "ok") \in DownFrames
    BY DEF Frame, DownFrames
  <2>3. down' \in [Conns -> Seq(DownFrames)]
    BY <1>15, <2>1, <2>2, SendType DEF Connect, Accept
  <2>4. outbound' = outbound /\ bconn' # NoConn
    BY <1>15, <2>1 DEF Connect, NoConn, Conns
  <2> QED
    BY <1>15, <2>1, <2>3, <2>4 DEF Connect, Accept, coreVars, taskVars
<1>16. ASSUME NEW state \in {"hello", "serving"}, NEW types, Receives(state, types)
       PROVE  /\ bconn \in Conns
              /\ Head(down[bconn]) \in DownFrames
              /\ Head(down[bconn]).type \in types
              /\ down' \in [Conns -> Seq(DownFrames)]
              /\ UNCHANGED <<coreVars, link, answers, bound, queue, up, strays, bconn>>
  <2>1. bconn \in Conns
    BY <1>16 DEF Receives, NoConn, Conns
  <2> QED
    BY <1>16, <2>1, QueueFacts DEF Receives
<1>17. CASE ReceiveWelcome
  <2>1. /\ bconn \in Conns
        /\ down' \in [Conns -> Seq(DownFrames)]
        /\ UNCHANGED <<coreVars, link, answers, bound, queue, up, strays, bconn>>
    BY <1>16, <1>17 DEF ReceiveWelcome
  <2>2. /\ bridge' \in {"idle", "serving"} /\ writer' \in BOOLEAN
        /\ sock' = sock \/ sock' = [sock EXCEPT ![bconn] = "dead"]
    BY <1>17 DEF ReceiveWelcome
  <2>3. sock' \in [Conns -> {"none", "up", "dead"}]
    BY <2>1, <2>2
  <2>4. bridge' # "idle" => bconn' # NoConn
    BY <2>1 DEF NoConn, Conns
  <2> QED
    BY <1>17, <2>1, <2>2, <2>3, <2>4 DEF ReceiveWelcome, coreVars, taskVars
<1>18. CASE ReceiveRequest
  <2>1. /\ down' \in [Conns -> Seq(DownFrames)]
        /\ UNCHANGED <<coreVars, link, answers, bound, queue, up, strays, bconn>>
    BY <1>16, <1>18 DEF ReceiveRequest
  <2>2. task' \in [Reqs -> {"none", "running", "done", "broken", "cancelled"}]
    BY <1>18 DEF ReceiveRequest
  <2> QED
    BY <1>18, <2>1, <2>2 DEF ReceiveRequest, coreVars
<1>19. CASE ReceiveError
  <2>1. /\ down' \in [Conns -> Seq(DownFrames)]
        /\ UNCHANGED <<coreVars, link, answers, bound, queue, up, strays, bconn>>
    BY <1>16, <1>19 DEF ReceiveError
  <2> QED
    BY <1>19, <2>1 DEF ReceiveError, coreVars, taskVars
<1>20. ASSUME NEW q \in Reqs, NEW f \in UpFrames, Queue(q, f)
       PROVE  outbound' \in [Conns -> Seq(UpFrames)]
  BY <1>20, QueueFacts DEF Queue
<1>21. ASSUME NEW q \in Reqs, NEW k \in ChunkKinds, StreamChunk(q, k)
       PROVE  TypeOK'
  <2>1. Append(made[q], k) \in Seq(ChunkKinds) /\ Len(made[q]) \in Nat
    BY QueueFacts, LenProperties
  <2>2. Frame("chunk", q, Len(made[q]) + 1, k) \in UpFrames
    BY <1>21, <2>1 DEF StreamChunk, Frame, UpFrames
  <2>3. outbound' \in [Conns -> Seq(UpFrames)]
    BY <1>20, <1>21, <2>2 DEF StreamChunk
  <2>4. made' \in [Reqs -> Seq(ChunkKinds)]
    BY <1>21, <2>1 DEF StreamChunk
  <2> QED
    BY <1>21, <2>3, <2>4 DEF StreamChunk, coreVars, linkVars, netVars
<1>22. ASSUME NEW q \in Reqs, EndTask(q)
       PROVE  TypeOK'
  <2>1. \A type \in {"done", "error"} : Frame(type, q, 0, "ok") \in UpFrames
    BY DEF Frame, UpFrames
  <2>2. outbound' \in [Conns -> Seq(UpFrames)]
    BY <1>20, <1>22, <2>1 DEF EndTask
  <2> QED
    BY <1>22, <2>2 DEF EndTask, coreVars, linkVars, netVars
<1>23. CASE WriteFrame
  <2>1. /\ bconn \in Conns /\ Head(outbound[bconn]) \in UpFrames
        /\ outbound' \in [Conns -> Seq(UpFrames)]
    BY <1>23, QueueFacts DEF WriteFrame, NoConn, Conns
  <2>2. up' \in [Conns -> Seq(UpFrames)]
    BY <1>23, <2>1, QueueFacts DEF WriteFrame
  <2> QED
    BY <1>23, <2>1, <2>2 DEF WriteFrame, coreVars, linkVars, taskVars
<1>24. CASE WriteFails
  <2>1. bconn \in Conns /\ outbound' \in [Conns -> Seq(UpFrames)]
    BY <1>24, QueueFacts DEF WriteFails, NoConn, Conns
  <2> QED
    BY <1>24, <2>1 DEF WriteFails, coreVars, linkVars, netVars, taskVars
<1>25. CASE ConnectionLost
  BY <1>25, QueueFacts DEF ConnectionLost, coreVars, linkVars, netVars
<1>26. CASE UNCHANGED vars
  BY <1>26 DEF vars, coreVars, linkVars, netVars, bridgeVars, taskVars
<1> HIDE DEF TypeOK
<1> QED
  BY <1>1, <1>2, <1>4, <1>5, <1>6, <1>7, <1>11, <1>12, <1>13, <1>14, <1>15, <1>17, <1>18,
     <1>19, <1>21, <1>22, <1>23, <1>24, <1>25, <1>26 DEF Next

\* Every variable of the relay keeps its type.
THEOREM TypeCorrect == Spec => []TypeOK
  BY TypeInit, TypeStep, PTL DEF Spec

-----------------------------------------------------------------------------
(* What a sequence of frames tells of one completion.                      *)

\* Frame f carries chunk n of completion q.
Numbered(f, q, n) == f.req = q /\ f.type = "chunk" /\ f.n = n

\* No frame of s is about q.
Silent(s, q) == \A i \in DOMAIN s : s[i].req # q

\* The frames of q in s go on where b chunks have been taken, of m made by a
\* task in state t: the next chunks by number, none left out, then at most
\* one end, which says "done" only behind the last chunk of a finished answer.
Tells(s, q, b, m, t) ==
  \A i \in DOMAIN s : s[i].req = q =>
    /\ \A j \in 1 .. i - 1 : s[j].req = q => s[j].type = "chunk"
    /\ s[i].type = "chunk" =>
         /\ s[i].n \in b + 1 .. m
         /\ \A j \in 1 .. i - 1 : s[j].req = q => s[j].n < s[i].n
         /\ s[i].n > b + 1 => \E j \in 1 .. i - 1 : Numbered(s[j], q, s[i].n - 1)
    /\ s[i].type = "done" =>
         /\ t = "done" /\ m = Chunks
         /\ m > b => \E j \in 1 .. i - 1 : Numbered(s[j], q, m)
    /\ s[i].type = "error" => t = "broken"

\* The last chunk made, unless it was taken, is in s.
CaughtUp(s, q, b, m) == m > b => \E i \in DOMAIN s : Numbered(s[i], q, m)

\* Every frame of q in t is in s too, behind the same frames of q.
SameBefore(s, t, q) ==
  \A i \in DOMAIN t : t[i].req = q =>
    \E k \in DOMAIN s :
      /\ s[k] = t[i]
      /\ \A j \in 1 .. i - 1 : t[j].req = q => \E l \in 1 .. k - 1 : s[l] = t[j]
      /\ \A l \in 1 .. k - 1 : s[l].req = q => \E j \in 1 .. i - 1 : t[j] = s[l]

\* What is told does not depend on where in a sequence it is told.
LEMMA TellsMoved ==
  ASSUME NEW s, NEW t, NEW q, SameBefore(s, t, q)
  PROVE  /\ Silent(s, q) => Silent(t, q)
         /\ \A b, m, st : Tells(s, q, b, m, st) => Tells(t, q, b, m, st)
<1>1. Silent(s, q) => Silent(t, q)
  BY DEF Silent, SameBefore
<1>2. ASSUME NEW b, NEW m, NEW st, Tells(s, q, b, m, st)
      PROVE  Tells(t, q, b, m, st)
  <2> SUFFICES ASSUME NEW i \in DOMAIN t, t[i].req = q
               PROVE  /\ \A j \in 1 .. i - 1 : t[j].req = q => t[j].type = "chunk"
                      /\ t[i].type = "chunk" =>
                           /\ t[i].n \in b + 1 .. m
                           /\ \A j \in 1 .. i - 1 : t[j].req = q => t[j].n < t[i].n
                           /\ t[i].n > b + 1 => \E j \in 1 .. i - 1 : Numbered(t[j], q, t[i].n - 1)
                      /\ t[i].type = "done" =>
                           /\ st = "done" /\ m = Chunks
                           /\ m > b => \E j \in 1 .. i - 1 : Numbered(t[j], q, m)
                      /\ t[i].type = "error" => st = "broken"
    BY DEF Tells
  <2>1. PICK k \in DOMAIN s :
          /\ s[k] = t[i]
          /\ \A j \in 1 .. i - 1 : t[j].req = q => \E l \in 1 .. k - 1 : s[l] = t[j]
          /\ \A l \in 1 .. k - 1 : s[l].req = q => \E j \in 1 .. i - 1 : t[j] = s[l]
    BY <1>2 DEF SameBefore
  <2>2. /\ \A l \in 1 .. k - 1 : s[l].req = q => s[l].type = "chunk"
        /\ t[i].type = "chunk" =>
             /\ t[i].n \in b + 1 .. m
             /\ \A l \in 1 .. k - 1 : s[l].req = q => s[l].n < t[i].n
             /\ t[i].n > b + 1 => \E l \in 1 .. k - 1 : Numbered(s[l], q, t[i].n - 1)
        /\ t[i].type = "done" =>
             /\ st = "done" /\ m = Chunks
             /\ m > b => \E l \in 1 .. k - 1 : Numbered(s[l], q, m)
        /\ t[i].type = "error" => st = "broken"
    BY <1>2, <2>1 DEF Tells
  <2>3. \A n : (\E l \in 1 .. k - 1 : Numbered(s[l], q, n))
                 => \E j \in 1 .. i - 1 : Numbered(t[j], q, n)
    BY <2>1 DEF Numbered
  <2>4. /\ \A j \in 1 .. i - 1 : t[j].req = q => t[j].type = "chunk"
        /\ t[i].type = "chunk" => \A j \in 1 .. i - 1 : t[j].req = q => t[j].n < t[i].n
    BY <2>1, <2>2
  <2> QED
    BY <2>2, <2>3, <2>4
<1> QED
  BY <1>1, <1>2

\* Part of what is on its way is lost.
LEMMA TellsPrefix ==
  ASSUME NEW S, NEW s \in Seq(S), NEW n \in 0 .. Len(s), NEW q
  PROVE  /\ Silent(s, q) => Silent(SubSeq(s, 1, n), q)
         /\ \A b, m, st : Tells(s, q, b, m, st) => Tells(SubSeq(s, 1, n), q, b, m, st)
<1> DEFINE t == SubSeq(s, 1, n)
<1>1. \A j \in 1 .. n : s[j] \in S
  BY ElementOfSeq
<1>2. t \in Seq(S) /\ Len(t) = n /\ \A i \in 1 .. n : t[i] = s[i]
  BY <1>1, SubSeqProperties, LenProperties
<1>3. DOMAIN t = 1 .. n /\ DOMAIN s = 1 .. Len(s) /\ Len(s) \in Nat
  BY <1>2, LenProperties
<1> HIDE DEF t
<1>4. SameBefore(s, t, q)
  BY <1>2, <1>3 DEF SameBefore
<1> QED
  BY <1>4, TellsMoved DEF t

\* A frame about another completion comes in between.
LEMMA TellsInserted ==
  ASSUME NEW S, NEW u \in Seq(S), NEW v \in Seq(S), NEW f \in S, NEW q, f.req # q
  PROVE  /\ Silent(u \o v, q) => Silent(Append(u, f) \o v, q)
         /\ \A b, m, st : Tells(u \o v, q, b, m, st) => Tells(Append(u, f) \o v, q, b, m, st)
         /\ \A b, m : CaughtUp(u \o v, q, b, m) => CaughtUp(Append(u, f) \o v, q, b, m)
<1> DEFINE s == u \o v
           t == Append(u, f) \o v
<1>1. Len(u) \in Nat /\ Len(v) \in Nat
  BY LenProperties
<1>2. s \in Seq(S) /\ Len(s) = Len(u) + Len(v) /\ DOMAIN s = 1 .. Len(u) + Len(v)
  BY <1>1, ConcatProperties, LenProperties
<1>3. \A i \in 1 .. Len(u) + Len(v) : s[i] = IF i <= Len(u) THEN u[i] ELSE v[i - Len(u)]
  BY ConcatProperties
<1>4. /\ Append(u, f) \in Seq(S)
      /\ Len(Append(u, f)) = Len(u) + 1
      /\ \A i \in 1 .. Len(u) : Append(u, f)[i] = u[i]
      /\ Append(u, f)[Len(u) + 1] = f
  BY AppendProperties
<1>5. t \in Seq(S) /\ Len(t) = Len(u) + 1 + Len(v) /\ DOMAIN t = 1 .. Len(u) + 1 + Len(v)
  BY <1>1, <1>4, ConcatProperties, LenProperties
<1>6. \A i \in 1 .. Len(u) + 1 + Len(v) :
        t[i] = IF i <= Len(u) + 1 THEN Append(u, f)[i] ELSE v[i - (Len(u) + 1)]
  BY <1>4, ConcatProperties
<1> HIDE DEF s, t
<1>7. ASSUME NEW i \in 1 .. Len(u) + 1 + Len(v)
      PROVE  /\ i <= Len(u) => t[i] = s[i]
             /\ i = Len(u) + 1 => t[i] = f
             /\ i > Len(u) + 1 => i - 1 \in 1 .. Len(u) + Len(v) /\ t[i] = s[i - 1]
  BY <1>1, <1>3, <1>4, <1>6
<1>8. ASSUME NEW i \in DOMAIN t, t[i].req = q
      PROVE  \E k \in DOMAIN s :
               /\ s[k] = t[i]
               /\ \A j \in 1 .. i - 1 : t[j].req = q => \E l \in 1 .. k - 1 : s[l] = t[j]
               /\ \A l \in 1 .. k - 1 : s[l].req = q => \E j \in 1 .. i - 1 : t[j] = s[l]
  <2>1. CASE i <= Len(u)
    <3>1. i \in DOMAIN s /\ s[i] = t[i]
      BY <1>1, <1>2, <1>5, <1>7, <2>1
    <3>2. \A j \in 1 .. i - 1 : s[j] = t[j]
      BY <1>1, <1>2, <1>5, <1>7, <2>1
    <3> QED
      BY <3>1, <3>2
  <2>2. CASE i > Len(u) + 1
    <3>1. i - 1 \in DOMAIN s /\ s[i - 1] = t[i]
      BY <1>1, <1>2, <1>5, <1>7, <2>2
    <3>2. ASSUME NEW j \in 1 .. i - 1, t[j].req = q
          PROVE  \E l \in 1 .. (i - 1) - 1 : s[l] = t[j]
      <4>1. j \in 1 .. Len(u) + 1 + Len(v)
        BY <1>1, <1>5
      <4>2. CASE j <= Len(u)
        <5>1. t[j] = s[j] /\ j \in 1 .. (i - 1) - 1
          BY <1>1, <1>5, <1>7, <2>2, <4>1, <4>2
        <5> QED
          BY <5>1
      <4>3. CASE j > Len(u) + 1
        <5>1. t[j] = s[j - 1] /\ j - 1 \in 1 .. (i - 1) - 1
          BY <1>1, <1>5, <1>7, <4>1, <4>3
        <5> QED
          BY <5>1
      <4>4. j # Len(u) + 1
        BY <1>1, <1>7, <3>2, <4>1
      <4> QED
        BY <1>1, <4>1, <4>2, <4>3, <4>4
    <3>3. ASSUME NEW l \in 1 .. (i - 1) - 1
          PROVE  \E j \in 1 .. i - 1 : t[j] = s[l]
      <4>1. CASE l <= Len(u)
        BY <1>1, <1>5, <1>7, <2>2, <4>1
      <4>2. CASE l > Len(u)
        <5>1. l + 1 \in 1 .. i - 1 /\ l + 1 \in 1 .. Len(u) + 1 + Len(v) /\ l + 1 > Len(u) + 1
          BY <1>1, <1>5, <2>2, <4>2
        <5>2. t[l + 1] = s[l]
          BY <1>1, <1>7, <5>1
        <5> QED
          BY <5>1, <5>2
      <4> QED
        BY <1>1, <4>1, <4>2
    <3> QED
      BY <3>1, <3>2, <3>3
  <2>3. i # Len(u) + 1
    BY <1>1, <1>5, <1>7, <1>8
  <2> QED
    BY <1>1, <1>5, <2>1, <2>2, <2>3
<1>9. SameBefore(s, t, q)
  BY <1>8 DEF SameBefore
<1>10. ASSUME NEW b, NEW m, CaughtUp(s, q, b, m)
       PROVE  CaughtUp(t, q, b, m)
  <2>1. ASSUME NEW i \in DOMAIN s
        PROVE  \E j \in DOMAIN t : t[j] = s[i]
    <3>1. CASE i <= Len(u)
      BY <1>1, <1>2, <1>5, <1>7, <3>1
    <3>2. CASE i > Len(u)
      <4>1. i + 1 \in DOMAIN t /\ i + 1 > Len(u) + 1
        BY <1>1, <1>2, <1>5, <3>2
      <4>2. t[i + 1] = s[i]
        BY <1>1, <1>2, <1>5, <1>7, <4>1
      <4> QED
        BY <4>1, <4>2
    <3> QED
      BY <1>1, <1>2, <3>1, <3>2
  <2> QED
    BY <1>10, <2>1 DEF CaughtUp, Numbered
<1> QED
  BY <1>9, <1>10, TellsMoved DEF s, t

\* A frame about another completion comes last.
LEMMA TellsSameBehind ==
  ASSUME NEW S, NEW s \in Seq(S), NEW f \in S, NEW q, f.req # q
  PROVE  /\ Silent(s, q) => Silent(Append(s, f), q)
         /\ \A b, m, st : Tells(s, q, b, m, st) => Tells(Append(s, f), q, b, m, st)
         /\ \A b, m : CaughtUp(s, q, b, m) => CaughtUp(Append(s, f), q, b, m)
<1>1. s \o <<>> = s /\ Append(s, f) \o <<>> = Append(s, f)
  BY ConcatEmptySeq, AppendProperties
<1> QED
  BY <1>1, TellsInserted, EmptySeq

\* A running task's next chunk comes last, or its end.
LEMMA TellsNext ==
  ASSUME NEW s \in Seq(UpFrames), NEW f \in UpFrames, NEW q, f.req = q,
         NEW b \in Nat, NEW m \in Nat, b <= m,
         Tells(s, q, b, m, "running"), CaughtUp(s, q, b, m)
  PROVE  /\ Numbered(f, q, m + 1) =>
              Tells(Append(s, f), q, b, m + 1, "running") /\ CaughtUp(Append(s, f), q, b, m + 1)
         /\ f.type = "done" /\ m = Chunks => Tells(Append(s, f), q, b, m, "done")
         /\ f.type = "error" => Tells(Append(s, f), q, b, m, "broken")
<1> DEFINE t == Append(s, f)
           l == Len(s)
<1>1. l \in Nat /\ DOMAIN s = 1 .. l /\ \A i \in 1 .. l : s[i] \in UpFrames
  BY LenProperties, ElementOfSeq
<1>2. /\ DOMAIN t = 1 .. l + 1 /\ t[l + 1] = f
      /\ \A i \in 1 .. l : t[i] = s[i]
  BY AppendProperties, LenProperties
<1> HIDE DEF t, l
<1>3. ASSUME NEW i \in 1 .. l, s[i].req = q
      PROVE  /\ s[i].type = "chunk"
             /\ s[i].n \in b + 1 .. m
             /\ \A j \in 1 .. i - 1 : s[j].req = q => s[j].type = "chunk" /\ s[j].n < s[i].n
             /\ s[i].n > b + 1 => \E j \in 1 .. i - 1 : Numbered(s[j], q, s[i].n - 1)
  <2>1. s[i].type \in {"chunk", "done", "error"}
    BY <1>1, <1>3 DEF UpFrames
  <2> QED
    BY <1>1, <1>3, <2>1 DEF Tells
<1>4. m > b => \E j \in 1 .. l : Numbered(s[j], q, m)
  BY <1>1 DEF CaughtUp
<1>5. ASSUME NEW i \in 1 .. l, t[i].req = q
      PROVE  /\ t[i].type = "chunk"
             /\ t[i].n \in b + 1 .. m
             /\ \A j \in 1 .. i - 1 : t[j].req = q => t[j].type = "chunk" /\ t[j].n < t[i].n
             /\ t[i].n > b + 1 => \E j \in 1 .. i - 1 : Numbered(t[j], q, t[i].n - 1)
  <2>1. t[i] = s[i] /\ \A j \in 1 .. i - 1 : t[j] = s[j] /\ j \in 1 .. l
    BY <1>1, <1>2
  <2> QED
    BY <1>3, <1>5, <2>1
<1>6. \A j \in 1 .. (l + 1) - 1 : j \in 1 .. l /\ t[j] = s[j]
  BY <1>1, <1>2
<1>7. \A j \in 1 .. (l + 1) - 1 : t[j].req = q => t[j].type = "chunk" /\ t[j].n \in b + 1 .. m
  BY <1>3, <1>6
<1>8. m > b => \E j \in 1 .. (l + 1) - 1 : Numbered(t[j], q, m)
  <2>1. ASSUME m > b
        PROVE  \E j \in 1 .. (l + 1) - 1 : Numbered(t[j], q, m)
    <3>1. PICK j \in 1 .. l : Numbered(s[j], q, m)
      BY <1>4, <2>1
    <3>2. j \in 1 .. (l + 1) - 1 /\ t[j] = s[j]
      BY <1>1, <1>2
    <3> QED
      BY <3>1, <3>2
  <2> QED
    BY <2>1
<1>9. ASSUME Numbered(f, q, m + 1)
      PROVE  Tells(t, q, b, m + 1, "running") /\ CaughtUp(t, q, b, m + 1)
  <2>1. CaughtUp(t, q, b, m + 1)
    BY <1>1, <1>2, <1>9 DEF CaughtUp
  <2>2. ASSUME NEW i \in DOMAIN t, t[i].req = q
        PROVE  /\ t[i].type = "chunk"
               /\ t[i].n \in b + 1 .. m + 1
               /\ \A j \in 1 .. i - 1 : t[j].req = q => t[j].type = "chunk" /\ t[j].n < t[i].n
               /\ t[i].n > b + 1 => \E j \in 1 .. i - 1 : Numbered(t[j], q, t[i].n - 1)
    <3>1. CASE i \in 1 .. l
      BY <1>5, <2>2, <3>1
    <3>2. CASE i = l + 1
      <4>1. t[i] = f /\ f.type = "chunk" /\ f.n = m + 1
        BY <1>2, <1>9, <3>2 DEF Numbered
      <4>2. \A j \in 1 .. i - 1 : t[j].req = q => t[j].type = "chunk" /\ t[j].n < m + 1
        BY <1>7, <3>2
      <4>3. t[i].n > b + 1 => \E j \in 1 .. i - 1 : Numbered(t[j], q, t[i].n - 1)
        BY <1>8, <3>2, <4>1
      <4> QED
        BY <4>1, <4>2, <4>3
    <3> QED
      BY <1>1, <1>2, <2>2, <3>1, <3>2
  <2>3. Tells(t, q, b, m + 1, "running")
    BY <2>2 DEF Tells
  <2> QED
    BY <2>1, <2>3
<1>10. ASSUME NEW st, \/ f.type = "done" /\ m = Chunks /\ st = "done"
                      \/ f.type = "error" /\ st = "broken"
       PROVE  Tells(t, q, b, m, st)
  <2>1. ASSUME NEW i \in DOMAIN t, t[i].req = q
        PROVE  /\ \A j \in 1 .. i - 1 : t[j].req = q => t[j].type = "chunk"
               /\ t[i].type = "chunk" =>
                    /\ t[i].n \in b + 1 .. m
                    /\ \A j \in 1 .. i - 1 : t[j].req = q => t[j].n < t[i].n
                    /\ t[i].n > b + 1 => \E j \in 1 .. i - 1 : Numbered(t[j], q, t[i].n - 1)
               /\ t[i].type = "done" =>
                    /\ st = "done" /\ m = Chunks
                    /\ m > b => \E j \in 1 .. i - 1 : Numbered(t[j], q, m)
               /\ t[i].type = "error" => st = "broken"
    <3>1. CASE i \in 1 .. l
      BY <1>5, <2>1, <3>1
    <3>2. CASE i = l + 1
      BY <1>2, <1>7, <1>8, <1>10, <3>2
    <3> QED
      BY <1>1, <1>2, <2>1, <3>1, <3>2
  <2> QED
    BY <2>1 DEF Tells
<1> QED
  BY <1>9, <1>10 DEF t

\* A frame about another completion is taken from the front.
LEMMA TellsSameAhead ==
  ASSUME NEW S, NEW s \in Seq(S), s # <<>>, NEW q, Head(s).req # q
  PROVE  /\ Silent(s, q) => Silent(Tail(s), q)
         /\ \A b, m, st : Tells(s, q, b, m, st) => Tells(Tail(s), q, b, m, st)
         /\ \A b, m : CaughtUp(s, q, b, m) => CaughtUp(Tail(s), q, b, m)
<1> DEFINE t == Tail(s)
           l == Len(t)
<1>1. /\ l \in Nat /\ DOMAIN s = 1 .. l + 1 /\ DOMAIN t = 1 .. l
      /\ \A i \in 1 .. l : t[i] = s[i + 1]
      /\ s[1].req # q
  <2>1. t \in Seq(S) /\ Len(t) = Len(s) - 1 /\ Len(s) \in Nat
    BY HeadTailProperties, LenProperties
  <2>2. Head(s) = s[1]
    OBVIOUS
  <2> QED
    BY <2>1, <2>2, HeadTailProperties, LenProperties
<1> HIDE DEF t, l
<1>2. \A k \in 1 .. l + 1 : s[k].req = q => k - 1 \in 1 .. l /\ t[k - 1] = s[k]
  BY <1>1
<1>3. SameBefore(s, t, q)
  <2> SUFFICES ASSUME NEW i \in 1 .. l, t[i].req = q
               PROVE  \E k \in 1 .. l + 1 :
                 /\ s[k] = t[i]
                 /\ \A j \in 1 .. i - 1 : t[j].req = q => \E h \in 1 .. k - 1 : s[h] = t[j]
                 /\ \A h \in 1 .. k - 1 : s[h].req = q => \E j \in 1 .. i - 1 : t[j] = s[h]
    BY <1>1 DEF SameBefore
  <2>1. i + 1 \in 1 .. l + 1 /\ s[i + 1] = t[i]
    BY <1>1
  <2>2. ASSUME NEW j \in 1 .. i - 1
        PROVE  \E h \in 1 .. (i + 1) - 1 : s[h] = t[j]
    <3>1. j + 1 \in 1 .. (i + 1) - 1 /\ s[j + 1] = t[j]
      BY <1>1
    <3> QED
      BY <3>1
  <2>3. ASSUME NEW h \in 1 .. (i + 1) - 1, s[h].req = q
        PROVE  \E j \in 1 .. i - 1 : t[j] = s[h]
    <3>1. h - 1 \in 1 .. i - 1 /\ t[h - 1] = s[h]
      BY <1>1, <1>2, <2>3
    <3> QED
      BY <3>1
  <2> QED
    BY <2>1, <2>2, <2>3
<1>4. ASSUME NEW b, NEW m, CaughtUp(s, q, b, m)
      PROVE  CaughtUp(t, q, b, m)
  BY <1>1, <1>2, <1>4 DEF CaughtUp, Numbered
<1> QED
  BY <1>3, <1>4, TellsMoved DEF t

\* A frame of the completion itself is taken from the front: its next chunk,
\* or its end with nothing behind it.
LEMMA TellsTaken ==
  ASSUME NEW s \in Seq(UpFrames), s # <<>>, NEW q, Head(s).req = q,
         NEW b \in Nat, NEW m \in Nat, NEW st, Tells(s, q, b, m, st)
  PROVE  /\ Head(s).type = "chunk" =>
              /\ Head(s).n = b + 1 /\ b + 1 <= m
              /\ Tells(Tail(s), q, b + 1, m, st)
              /\ CaughtUp(s, q, b, m) => CaughtUp(Tail(s), q, b + 1, m)
         /\ Head(s).type # "chunk" => Silent(Tail(s), q)
         /\ Head(s).type = "done" => st = "done" /\ m = Chunks /\ m <= b
         /\ Head(s).type = "error" => st = "broken"
<1> DEFINE t == Tail(s)
           l == Len(t)
<1>1. /\ l \in Nat /\ DOMAIN s = 1 .. l + 1 /\ DOMAIN t = 1 .. l
      /\ \A i \in 1 .. l : t[i] = s[i + 1]
      /\ s[1] = Head(s) /\ s[1] \in UpFrames
  <2>1. t \in Seq(UpFrames) /\ Len(t) = Len(s) - 1 /\ Len(s) \in Nat
    BY HeadTailProperties, LenProperties
  <2>2. Head(s) = s[1]
    OBVIOUS
  <2> QED
    BY <2>1, <2>2, HeadTailProperties, LenProperties
<1> HIDE DEF t, l
<1>2. 1 \in DOMAIN s /\ s[1].req = q /\ \A j : j \notin 1 .. 1 - 1
  BY <1>1
<1>3. /\ s[1].type = "done" => st = "done" /\ m = Chunks /\ m <= b
      /\ s[1].type = "error" => st = "broken"
  BY <1>2 DEF Tells
<1>4. ASSUME s[1].type # "chunk"
      PROVE  Silent(t, q)
  <2>1. ASSUME NEW i \in 1 .. l, t[i].req = q
        PROVE  FALSE
    <3>1. i + 1 \in DOMAIN s /\ s[i + 1].req = q /\ 1 \in 1 .. (i + 1) - 1
      BY <1>1, <2>1
    <3> QED
      BY <1>2, <1>4, <3>1 DEF Tells
  <2> QED
    BY <1>1, <2>1 DEF Silent
<1>5. ASSUME s[1].type = "chunk"
      PROVE  /\ s[1].n = b + 1 /\ b + 1 <= m
             /\ Tells(t, q, b + 1, m, st)
             /\ CaughtUp(s, q, b, m) => CaughtUp(t, q, b + 1, m)
  <2>1. s[1].n \in b + 1 .. m /\ ~ (s[1].n > b + 1)
    BY <1>2, <1>5 DEF Tells
  <2>2. s[1].n = b + 1 /\ b + 1 <= m
    BY <2>1
  <2>3. \A n, k : k \in 1 .. l + 1 /\ Numbered(s[k], q, n) /\ n # b + 1 =>
          k - 1 \in 1 .. l /\ t[k - 1] = s[k]
    BY <1>1, <2>2 DEF Numbered
  <2>4. CaughtUp(s, q, b, m) => CaughtUp(t, q, b + 1, m)
    <3>1. ASSUME CaughtUp(s, q, b, m), m > b + 1
          PROVE  \E i \in 1 .. l : Numbered(t[i], q, m)
      <4>1. PICK k \in 1 .. l + 1 : Numbered(s[k], q, m)
        BY <1>1, <3>1 DEF CaughtUp
      <4>2. m # b + 1
        BY <3>1
      <4>3. k - 1 \in 1 .. l /\ t[k - 1] = s[k]
        BY <2>3, <4>1, <4>2
      <4> QED
        BY <4>1, <4>3
    <3> QED
      BY <1>1, <3>1 DEF CaughtUp
  <2>5. ASSUME NEW i \in 1 .. l, t[i].req = q
        PROVE  /\ \A j \in 1 .. i - 1 : t[j].req = q => t[j].type = "chunk"
               /\ t[i].type = "chunk" =>
                    /\ t[i].n \in (b + 1) + 1 .. m
                    /\ \A j \in 1 .. i - 1 : t[j].req = q => t[j].n < t[i].n
                    /\ t[i].n > (b + 1) + 1 => \E j \in 1 .. i - 1 : Numbered(t[j], q, t[i].n - 1)
               /\ t[i].type = "done" =>
                    /\ st = "done" /\ m = Chunks
                    /\ m > b + 1 => \E j \in 1 .. i - 1 : Numbered(t[j], q, m)
               /\ t[i].type = "error" => st = "broken"
    <3> DEFINE k == i + 1
    <3>1. k \in DOMAIN s /\ s[k] = t[i] /\ s[k].req = q /\ 1 \in 1 .. k - 1
      BY <1>1, <2>5
    <3>2. \A j \in 1 .. i - 1 : j + 1 \in 1 .. k - 1 /\ t[j] = s[j + 1]
      BY <1>1
    <3>3. \A h \in 1 .. k - 1 : h \in 1 .. l + 1 /\ (h - 1 \in 1 .. l => h - 1 \in 1 .. i - 1)
      BY <1>1
    <3> HIDE DEF k
    <3>4. /\ \A h \in 1 .. k - 1 : s[h].req = q => s[h].type = "chunk"
          /\ s[k].type = "chunk" =>
               /\ s[k].n \in b + 1 .. m
               /\ \A h \in 1 .. k - 1 : s[h].req = q => s[h].n < s[k].n
               /\ s[k].n > b + 1 => \E h \in 1 .. k - 1 : Numbered(s[h], q, s[k].n - 1)
          /\ s[k].type = "done" =>
               /\ st = "done" /\ m = Chunks
               /\ m > b => \E h \in 1 .. k - 1 : Numbered(s[h], q, m)
          /\ s[k].type = "error" => st = "broken"
      BY <3>1 DEF Tells
    <3>5. ASSUME NEW n, n # b + 1, \E h \in 1 .. k - 1 : Numbered(s[h], q, n)
          PROVE  \E j \in 1 .. i - 1 : Numbered(t[j], q, n)
      <4>1. PICK h \in 1 .. k - 1 : Numbered(s[h], q, n)
        BY <3>5
      <4>2. h - 1 \in 1 .. i - 1 /\ t[h - 1] = s[h]
        BY <2>3, <3>3, <3>5, <4>1
      <4> QED
        BY <4>1, <4>2
    <3>6. \A j \in 1 .. i - 1 : t[j].req = q => t[j].type = "chunk"
      BY <3>2, <3>4
    <3>7. ASSUME t[i].type = "chunk"
          PROVE  /\ t[i].n \in (b + 1) + 1 .. m
                 /\ \A j \in 1 .. i - 1 : t[j].req = q => t[j].n < t[i].n
                 /\ t[i].n > (b + 1) + 1 => \E j \in 1 .. i - 1 : Numbered(t[j], q, t[i].n - 1)
      <4>1. t[i].n \in b + 1 .. m /\ s[1].n < t[i].n
        BY <1>2, <3>1, <3>4, <3>7
      <4>2. t[i].n \in (b + 1) + 1 .. m
        BY <2>2, <4>1
      <4>3. \A j \in 1 .. i - 1 : t[j].req = q => t[j].n < t[i].n
        BY <3>1, <3>2, <3>4, <3>7
      <4>4. ASSUME t[i].n > (b + 1) + 1
            PROVE  \E j \in 1 .. i - 1 : Numbered(t[j], q, t[i].n - 1)
        <5>1. t[i].n - 1 # b + 1 /\ t[i].n > b + 1
          BY <4>1, <4>4
        <5> QED
          BY <3>1, <3>4, <3>5, <3>7, <5>1
      <4> QED
        BY <4>2, <4>3, <4>4
    <3>8. ASSUME t[i].type = "done"
          PROVE  /\ st = "done" /\ m = Chunks
                 /\ m > b + 1 => \E j \in 1 .. i - 1 : Numbered(t[j], q, m)
      <4>1. st = "done" /\ m = Chunks /\ (m > b => \E h \in 1 .. k - 1 : Numbered(s[h], q, m))
        BY <3>1, <3>4, <3>8
      <4>2. m > b + 1 => m # b + 1 /\ m > b
        OBVIOUS
      <4> QED
        BY <3>5, <4>1, <4>2
    <3> QED
      BY <3>1, <3>4, <3>6, <3>7, <3>8
  <2>6. Tells(t, q, b + 1, m, st)
    BY <1>1, <2>5 DEF Tells
  <2> QED
    BY <2>2, <2>4, <2>6
<1> QED
  BY <1>1, <1>3, <1>4, <1>5 DEF t

\* A task that has not ended may go on.
LEMMA TellsOn ==
  ASSUME NEW s \in Seq(UpFrames), NEW q, NEW b \in Nat, NEW m \in Nat, NEW n \in Nat, m <= n,
         NEW st, st \notin {"done", "broken"}, NEW st2, Tells(s, q, b, m, st)
  PROVE  Tells(s, q, b, n, st2)
  BY LenProperties, ElementOfSeq DEF Tells, UpFrames

-----------------------------------------------------------------------------
(* Who is connected, and what names whom.                                  *)

\* A connection is used only once the bridge has opened it.
Opened ==
  /\ current <= bconn
  /\ \A q \in Reqs : bound[q] <= bconn
  /\ \A c \in Conns : link[c] # "none" => c <= bconn

\* Nothing is there of a completion nobody asked for, nor of an answer whose
\* task has not started.
NothingYet ==
  /\ \A q \in Reqs : req[q] = "new" => bound[q] = NoConn /\ queue[q] = <<>> /\ got[q] = <<>>
  /\ \A q \in Reqs : bound[q] = NoConn => task[q] = "none"
  /\ \A q \in Reqs : task[q] = "none" => made[q] = <<>>

\* A connection's table holds completions that were delivered to it.
OwnTable == \A c \in Conns : \A q \in answers[c] : bound[q] = c /\ req[q] # "new"

\* Nothing is queued on a connection before it serves.
QuietBefore ==
  \A c \in Conns : c > bconn \/ (bridge = "hello" /\ c = bconn) => outbound[c] = <<>>

\* A connection's queue holds answers to requests that came on it.
OwnQueue == \A c \in Conns : \A i \in DOMAIN outbound[c] : bound[outbound[c][i].req] = c

\* Every frame the gateway reads names a completion that was delivered somewhere.
Named == \A c \in Conns : \A i \in DOMAIN up[c] : bound[up[c][i].req] # NoConn

IsRequest(f) == f.type = "completionRequest"

\* The requests in s, on their way on connection c, are each there once, were
\* delivered to c and have no task yet.
FreshIn(s, c, bd, tk) ==
  \A i \in DOMAIN s : IsRequest(s[i]) =>
    /\ s[i].req \in Reqs
    /\ bd[s[i].req] = c
    /\ tk[s[i].req] = "none"
    /\ \A j \in DOMAIN s : IsRequest(s[j]) /\ s[j].req = s[i].req => j = i

\* No request is served twice.
RequestsFresh == \A c \in Conns : FreshIn(down[c], c, bound, task)

\* Before the welcome nothing delivered to the connection has been started.
HelloIsQuiet == bridge = "hello" => \A q \in Reqs : bound[q] = bconn => task[q] = "none"

\* The books: who is connected, what was delivered where, and what names whom.
Books ==
  /\ TypeOK
  /\ Opened
  /\ NothingYet
  /\ OwnTable
  /\ QuietBefore
  /\ Named
  /\ RequestsFresh
  /\ HelloIsQuiet
  /\ AnsweredWhereDelivered
  /\ OwnQueue

\* The books are in order at the start.
LEMMA BooksInit == Init => Books
<1> SUFFICES ASSUME Init PROVE Books
  OBVIOUS
<1> USE ConstantsAssumption DEF ConstantsAssumption, Init, NoConn
<1>1. TypeOK
  BY TypeInit
<1>2. Opened /\ NothingYet /\ OwnTable /\ QuietBefore /\ HelloIsQuiet
  BY DEF Opened, NothingYet, OwnTable, QuietBefore, HelloIsQuiet
<1>3. Named /\ RequestsFresh /\ AnsweredWhereDelivered /\ OwnQueue
  BY DEF Named, RequestsFresh, FreshIn, AnsweredWhereDelivered, OwnQueue
<1> QED
  BY <1>1, <1>2, <1>3 DEF Books

\* What a queue is after one more, or one fewer.
LEMMA ElemFacts ==
  ASSUME NEW S, NEW s \in Seq(S)
  PROVE  /\ DOMAIN s = 1 .. Len(s) /\ Len(s) \in Nat
         /\ \A i \in 1 .. Len(s) : s[i] \in S
         /\ \A x \in S : /\ DOMAIN Append(s, x) = 1 .. Len(s) + 1
                         /\ \A i \in 1 .. Len(s) : Append(s, x)[i] = s[i]
                         /\ Append(s, x)[Len(s) + 1] = x
         /\ s # <<>> => /\ 1 \in DOMAIN s /\ Head(s) = s[1]
                        /\ DOMAIN Tail(s) = 1 .. Len(s) - 1
                        /\ \A i \in 1 .. Len(s) - 1 : Tail(s)[i] = s[i + 1]
         /\ \A n \in 0 .. Len(s) : /\ DOMAIN SubSeq(s, 1, n) = 1 .. n
                                   /\ \A i \in 1 .. n : SubSeq(s, 1, n)[i] = s[i]
<1>1. DOMAIN s = 1 .. Len(s) /\ Len(s) \in Nat /\ \A i \in 1 .. Len(s) : s[i] \in S
  BY LenProperties, ElementOfSeq
<1>2. ASSUME NEW x \in S
      PROVE  /\ DOMAIN Append(s, x) = 1 .. Len(s) + 1
             /\ \A i \in 1 .. Len(s) : Append(s, x)[i] = s[i]
             /\ Append(s, x)[Len(s) + 1] = x
  BY AppendProperties, LenProperties
<1>3. ASSUME s # <<>>
      PROVE  /\ 1 \in DOMAIN s /\ Head(s) = s[1]
             /\ DOMAIN Tail(s) = 1 .. Len(s) - 1
             /\ \A i \in 1 .. Len(s) - 1 : Tail(s)[i] = s[i + 1]
  <2>1. Len(s) \in Nat \ {0} /\ Head(s) = s[1]
    BY <1>3, EmptySeq
  <2> QED
    BY <1>1, <1>3, <2>1, HeadTailProperties, LenProperties
<1>4. ASSUME NEW n \in 0 .. Len(s)
      PROVE  /\ DOMAIN SubSeq(s, 1, n) = 1 .. n
             /\ \A i \in 1 .. n : SubSeq(s, 1, n)[i] = s[i]
  <2>1. \A i \in 1 .. n : s[i] \in S
    BY <1>1
  <2> QED
    BY <1>1, <2>1, SubSeqProperties, LenProperties
<1> QED
  BY <1>1, <1>2, <1>3, <1>4

\* The read loop's step: the frame is gone from the socket, and it was either
\* put in the queue of its completion or answered with an error.
LEMMA ReadFacts ==
  ASSUME TypeOK, NEW c \in Conns, ReadChunk(c) \/ ReadEnd(c)
  PROVE  /\ up[c] # <<>> /\ Head(up[c]) \in UpFrames
         /\ up' = [up EXCEPT ![c] = Tail(@)]
         /\ UNCHANGED <<coreVars, link, answers, bound, sock, strays, bridgeVars, taskVars>>
         /\ \/ /\ Head(up[c]).req \in answers[c]
               /\ \E item \in Items :
                    /\ item.type = Head(up[c]).type /\ item.via = c
                    /\ item.type = "chunk" => item.n = Head(up[c]).n
                    /\ queue' = [queue EXCEPT ![Head(up[c]).req] = Append(@, item)]
               /\ down' = down
            \/ /\ Head(up[c]).req \notin answers[c] \/ Head(up[c]).kind = "shapeless"
               /\ Send(c, Frame("error", Head(up[c]).req, 0, "ok"))
               /\ queue' = queue
<1> DEFINE f == Head(up[c])
<1>1. /\ up[c] # <<>> /\ f \in UpFrames
      /\ up' = [up EXCEPT ![c] = Tail(@)]
      /\ UNCHANGED <<coreVars, link, answers, bound, sock, strays, bridgeVars, taskVars>>
  BY QueueFacts DEF ReadChunk, ReadEnd, Reads, TypeOK
<1>2. ASSUME NEW item \in Items, item.type = f.type, item.via = c,
             item.type = "chunk" => item.n = f.n, Feed(c, f.req, item)
      PROVE  \/ /\ f.req \in answers[c]
                /\ \E it \in Items :
                     /\ it.type = f.type /\ it.via = c
                     /\ it.type = "chunk" => it.n = f.n
                     /\ queue' = [queue EXCEPT ![f.req] = Append(@, it)]
                /\ down' = down
             \/ /\ f.req \notin answers[c]
                /\ Send(c, Frame("error", f.req, 0, "ok"))
                /\ queue' = queue
  BY <1>2 DEF Feed, Takes
<1>3. CASE ReadChunk(c)
  <2>1. Item("chunk", f.n, f.kind, c) \in Items /\ f.type = "chunk"
    BY <1>1, <1>3 DEF ReadChunk, Reads, Item, Items, UpFrames
  <2>2. CASE f.kind = "shapeless"
    BY <1>1, <1>3, <2>2 DEF ReadChunk
  <2>3. CASE f.kind # "shapeless"
    <3>1. Feed(c, f.req, Item("chunk", f.n, f.kind, c))
      BY <1>3, <2>3 DEF ReadChunk
    <3>2. /\ Item("chunk", f.n, f.kind, c).type = f.type
          /\ Item("chunk", f.n, f.kind, c).via = c
          /\ Item("chunk", f.n, f.kind, c).n = f.n
      BY <2>1 DEF Item
    <3> HIDE DEF f
    <3> QED
      BY <1>1, <1>2, <2>1, <3>1, <3>2 DEF f
  <2> QED
    BY <2>2, <2>3
<1>4. CASE ReadEnd(c)
  <2>1. f.type \in {"done", "error"} /\ Feed(c, f.req, Item(f.type, 0, "ok", c))
    BY <1>4 DEF ReadEnd, Reads
  <2>2. Item(f.type, 0, "ok", c) \in Items
    BY <2>1, ConstantsAssumption DEF ConstantsAssumption, Item, Items
  <2>3. /\ Item(f.type, 0, "ok", c).type = f.type
        /\ Item(f.type, 0, "ok", c).via = c
        /\ f.type # "chunk"
    BY <2>1 DEF Item
  <2> HIDE DEF f
  <2> QED
    BY <1>1, <1>2, <2>1, <2>2, <2>3 DEF f
<1> QED
  BY <1>3, <1>4

\* The bridge's reader takes the first frame off the connection it serves.
LEMMA ReceiveFacts ==
  ASSUME TypeOK, NEW state \in {"hello", "serving"}, NEW types, Receives(state, types)
  PROVE  /\ bridge = state /\ bconn \in Conns /\ down[bconn] # <<>>
         /\ Head(down[bconn]) \in DownFrames /\ Head(down[bconn]).type \in types
         /\ down' = [down EXCEPT ![bconn] = Tail(@)]
         /\ UNCHANGED <<coreVars, link, answers, bound, queue, up, strays, bconn>>
<1>1. bconn \in Conns
  BY DEF Receives, TypeOK, NoConn, Conns
<1> QED
  BY <1>1, QueueFacts DEF Receives, TypeOK

\* The connections stay the ones the bridge has opened.
LEMMA OpenedStep == Books /\ [Next]_vars => Opened'
<1> SUFFICES ASSUME Books, [Next]_vars
             PROVE  Opened'
  OBVIOUS
<1>1. TypeOK /\ TypeOK' /\ Opened
  BY TypeStep DEF Books
<1> USE DEF Opened
<1>2. ASSUME NEW q \in Reqs, Complete(q)
      PROVE  Opened'
  BY <1>1, <1>2 DEF Complete, TypeOK, bridgeVars
<1>3. ASSUME NEW q \in Reqs,
             CompleteUnattached(q) \/ StartReading(q) \/ DropUnstarted(q) \/ CloseStream(q)
               \/ NextItem(q) \/ GapTimeout(q) \/ EndTask(q) \/ \E k \in ChunkKinds : StreamChunk(q, k)
      PROVE  Opened'
  BY <1>1, <1>3 DEF CompleteUnattached, StartReading, DropUnstarted, CloseStream, NextItem,
                    GapTimeout, EndTask, StreamChunk, linkVars, bridgeVars, coreVars
<1>4. ASSUME NEW c \in Conns, Attach(c) \/ AttachReturns(c) \/ AttachRefused(c) \/ Disconnected(c)
      PROVE  Opened'
  <2>1. link[c] # "none" /\ bound' = bound /\ bconn' = bconn
    BY <1>4 DEF Attach, AttachReturns, AttachRefused, Disconnected, bridgeVars
  <2>2. \A d \in Conns : d # c => link'[d] = link[d]
    BY <1>1, <1>4 DEF Attach, AttachReturns, AttachRefused, Disconnected, TypeOK
  <2>3. current' \in {current, c, NoConn}
    BY <1>4 DEF Attach, AttachReturns, AttachRefused, Disconnected, coreVars
  <2>4. current' <= bconn
    BY <1>1, <2>1, <2>3 DEF NoConn, TypeOK, Conns
  <2> QED
    BY <1>1, <2>1, <2>2, <2>4
<1>5. ASSUME NEW c \in Conns, ReadChunk(c) \/ ReadEnd(c)
      PROVE  Opened'
  BY <1>1, <1>5, ReadFacts DEF coreVars, bridgeVars
<1>6. ASSUME NEW c \in Conns, Drop(c) \/ \E q \in Reqs, type \in {"chunk", "done"} : StrayFrame(c, q, type)
      PROVE  Opened'
  BY <1>1, <1>6 DEF Drop, StrayFrame, coreVars, linkVars, bridgeVars
<1>7. CASE Connect
  <2>1. \A d \in Conns : link'[d] # "none" => d <= bconn + 1
    BY <1>1, <1>7 DEF Connect, Accept, TypeOK, Conns
  <2>2. \A q \in Reqs : bound[q] <= bconn + 1
    <3>1. ASSUME NEW q \in Reqs
          PROVE  bound[q] <= bconn + 1
      <4>1. bound[q] \in Int /\ bconn \in Int /\ bound[q] <= bconn
        BY <1>1 DEF TypeOK, Conns, NoConn
      <4> QED
        BY <4>1
    <3> QED
      BY <3>1
  <2>3. current <= bconn + 1
    BY <1>1 DEF TypeOK, Conns, NoConn
  <2> QED
    BY <1>7, <2>1, <2>2, <2>3 DEF Connect, Accept, coreVars
<1>8. CASE ReceiveWelcome \/ ReceiveRequest \/ ReceiveError
  BY <1>1, <1>8 DEF ReceiveWelcome, ReceiveRequest, ReceiveError, Receives, coreVars
<1>9. CASE WriteFrame \/ WriteFails \/ ConnectionLost \/ UNCHANGED vars
  BY <1>1, <1>9 DEF WriteFrame, WriteFails, ConnectionLost, vars, coreVars, linkVars, bridgeVars
<1> HIDE DEF Opened
<1> QED
  BY <1>2, <1>3, <1>4, <1>5, <1>6, <1>7, <1>8, <1>9 DEF Next

\* A stream that ends only takes its completion out of a table.
LEMMA EndStreamFacts ==
  ASSUME TypeOK, NEW q \in Reqs, NEW outcome, EndStream(q, outcome)
  PROVE  \A c \in Conns : answers'[c] = IF c = bound[q] THEN answers[c] \ {q} ELSE answers[c]
  BY DEF EndStream, TypeOK

\* What was never asked or never started stays untouched, and the tables and
\* the bridge's queues stay its own.
Ledger == NothingYet /\ OwnTable /\ QuietBefore /\ HelloIsQuiet

\* The ledger is kept by every step.
LEMMA LedgerStep == Books /\ [Next]_vars => Ledger'
<1> SUFFICES ASSUME Books, [Next]_vars
             PROVE  Ledger'
  OBVIOUS
<1>1. TypeOK /\ TypeOK' /\ Opened /\ RequestsFresh /\ Ledger
  BY TypeStep DEF Books, Ledger
<1> USE DEF Ledger, NothingYet, OwnTable, QuietBefore, HelloIsQuiet
<1>2. ASSUME NEW q \in Reqs, Complete(q)
      PROVE  Ledger'
  <2>1. task[q] = "none" /\ bound[q] = NoConn
    BY <1>1, <1>2 DEF Complete
  <2> QED
    BY <1>1, <1>2, <2>1 DEF Complete, TypeOK, bridgeVars, taskVars
<1>3. ASSUME NEW q \in Reqs, CompleteUnattached(q) \/ StartReading(q) \/ DropUnstarted(q)
      PROVE  Ledger'
  <2>1. \A x \in Reqs : req'[x] = "new" => req[x] = "new"
    BY <1>1, <1>3 DEF CompleteUnattached, StartReading, DropUnstarted, TypeOK
  <2>2. UNCHANGED <<got, linkVars, bridgeVars, taskVars>>
    BY <1>3 DEF CompleteUnattached, StartReading, DropUnstarted
  <2>3. \A x \in Reqs : req[x] # "new" => req'[x] # "new"
    BY <2>1
  <2> QED
    BY <1>1, <2>1, <2>2, <2>3 DEF TypeOK, linkVars, bridgeVars, taskVars
<1>4. ASSUME NEW q \in Reqs, CloseStream(q) \/ GapTimeout(q)
      PROVE  Ledger'
  <2>1. req[q] = "reading" /\ \A x \in Reqs : req'[x] = "new" => req[x] = "new"
    BY <1>1, <1>4 DEF CloseStream, GapTimeout, EndStream, TypeOK
  <2>2. \A c \in Conns : answers'[c] \subseteq answers[c]
    BY <1>1, <1>4, EndStreamFacts DEF CloseStream, GapTimeout
  <2>3. UNCHANGED <<got, bound, queue, bridgeVars, taskVars>>
    BY <1>4 DEF CloseStream, GapTimeout
  <2> QED
    BY <1>1, <2>1, <2>2, <2>3 DEF TypeOK, bridgeVars, taskVars
<1>5. ASSUME NEW q \in Reqs, NextItem(q)
      PROVE  Ledger'
  <2>1. req[q] = "reading" /\ req'[q] # "new" /\ \A x \in Reqs : x # q => req'[x] = req[x]
    BY <1>1, <1>5 DEF NextItem, EndStream, Verdict, TypeOK
  <2>2. \A c \in Conns : answers'[c] \subseteq answers[c]
    BY <1>1, <1>5, EndStreamFacts DEF NextItem
  <2>3. \A x \in Reqs : x # q => got'[x] = got[x] /\ queue'[x] = queue[x]
    BY <1>1, <1>5 DEF NextItem, TypeOK
  <2> QED
    BY <1>1, <1>5, <2>1, <2>2, <2>3 DEF NextItem, TypeOK, bridgeVars, taskVars
<1>6. ASSUME NEW c \in Conns, Attach(c) \/ AttachReturns(c) \/ AttachRefused(c)
      PROVE  Ledger'
  BY <1>1, <1>6 DEF Attach, AttachReturns, AttachRefused, coreVars, bridgeVars, taskVars
<1>7. ASSUME NEW c \in Conns, ReadChunk(c) \/ ReadEnd(c)
      PROVE  Ledger'
  <2>1. \A x \in Reqs : x \notin answers[c] => queue'[x] = queue[x]
    <3>1. \/ queue' = queue
          \/ /\ Head(up[c]).req \in answers[c]
             /\ \E item \in Items : queue' = [queue EXCEPT ![Head(up[c]).req] = Append(@, item)]
      BY <1>1, <1>7, ReadFacts
    <3>2. queue \in [Reqs -> Seq(Items)]
      BY <1>1 DEF TypeOK
    <3> QED
      BY <3>1, <3>2
  <2>2. \A x \in Reqs : req[x] = "new" => x \notin answers[c]
    BY <1>1
  <2> QED
    BY <1>1, <1>7, <2>1, <2>2, ReadFacts DEF coreVars, bridgeVars, taskVars
<1>8. ASSUME NEW c \in Conns, Disconnected(c)
      PROVE  Ledger'
  <2>1. /\ \A x \in Reqs : x \notin answers[c] => queue'[x] = queue[x]
        /\ \A d \in Conns : answers'[d] \subseteq answers[d]
    BY <1>1, <1>8 DEF Disconnected, FailPending, TypeOK
  <2>2. \A x \in Reqs : req[x] = "new" => x \notin answers[c]
    BY <1>1
  <2> QED
    BY <1>1, <1>8, <2>1, <2>2 DEF Disconnected, bridgeVars, taskVars
<1>9. ASSUME NEW c \in Conns, Drop(c) \/ \E q \in Reqs, type \in {"chunk", "done"} : StrayFrame(c, q, type)
      PROVE  Ledger'
  BY <1>1, <1>9 DEF Drop, StrayFrame, coreVars, linkVars, bridgeVars, taskVars
<1>10. CASE Connect
  <2>1. \A q \in Reqs : bound[q] # bconn + 1
    BY <1>1 DEF Opened, TypeOK, Conns, NoConn
  <2>2. \A c \in Conns : c > bconn + 1 \/ c = bconn + 1 => c > bconn
    BY <1>1 DEF TypeOK, Conns
  <2>3. QuietBefore'
    BY <1>1, <1>10, <2>2 DEF Connect
  <2>4. UNCHANGED <<coreVars, answers, bound, queue, taskVars>> /\ bconn' = bconn + 1
    BY <1>10 DEF Connect, Accept
  <2> QED
    BY <1>1, <2>1, <2>3, <2>4 DEF coreVars, taskVars
<1>11. CASE ReceiveWelcome
  <2>1. UNCHANGED <<coreVars, link, answers, bound, queue, bconn, outbound>> /\ bridge' # "hello"
    BY <1>11 DEF ReceiveWelcome, Receives
  <2> QED
    BY <1>1, <1>11, <2>1 DEF ReceiveWelcome, coreVars, taskVars
<1>12. CASE ReceiveRequest
  <2> DEFINE f == Head(down[bconn])
  <2>1. /\ bridge = "serving" /\ bconn \in Conns /\ down[bconn] # <<>>
        /\ f \in DownFrames /\ f.type = "completionRequest"
        /\ UNCHANGED <<coreVars, link, answers, bound, queue, up, strays, bconn>>
    BY <1>1, <1>12, ReceiveFacts DEF ReceiveRequest
  <2>2. 1 \in DOMAIN down[bconn] /\ f = down[bconn][1]
    BY <1>1, <2>1, ElemFacts DEF TypeOK
  <2>3. bound[f.req] = bconn
    BY <1>1, <2>1, <2>2 DEF RequestsFresh, FreshIn, IsRequest
  <2>4. \A q \in Reqs : task'[q] = task[q] \/ (q = f.req /\ task'[q] = "running")
    BY <1>1, <1>12 DEF ReceiveRequest, TypeOK
  <2> HIDE DEF f
  <2>5. NoConn # bconn
    BY <2>1 DEF NoConn, Conns
  <2> QED
    BY <1>1, <1>12, <2>1, <2>3, <2>4, <2>5 DEF ReceiveRequest, coreVars
<1>13. CASE ReceiveError
  BY <1>1, <1>13 DEF ReceiveError, Receives, coreVars, taskVars
<1>14. ASSUME NEW q \in Reqs, EndTask(q) \/ \E k \in ChunkKinds : StreamChunk(q, k)
       PROVE  Ledger'
  <2>1. /\ task[q] = "running" /\ task'[q] # "none"
        /\ \A x \in Reqs : x # q => task'[x] = task[x] /\ made'[x] = made[x]
    BY <1>1, <1>14 DEF EndTask, StreamChunk, TypeOK
  <2>2. /\ UNCHANGED <<coreVars, linkVars, netVars, bridge, bconn>>
        /\ \A c \in Conns : c # bound[q] => outbound'[c] = outbound[c]
    <3>1. UNCHANGED <<coreVars, linkVars, netVars, bridge, bconn>>
      BY <1>14 DEF EndTask, StreamChunk
    <3>2. \E f : Queue(q, f)
      BY <1>14 DEF EndTask, StreamChunk
    <3>3. outbound \in [Conns -> Seq(UpFrames)]
      BY <1>1 DEF TypeOK
    <3> QED
      BY <3>1, <3>2, <3>3 DEF Queue
  <2>3. ~ (bound[q] > bconn) /\ ~ (bridge = "hello" /\ bound[q] = bconn)
    BY <1>1, <2>1 DEF Opened, TypeOK, Conns, NoConn
  <2>4. QuietBefore'
    BY <1>1, <2>2, <2>3
  <2> QED
    BY <1>1, <2>1, <2>2, <2>4 DEF coreVars, linkVars
<1>15. CASE WriteFrame \/ WriteFails
  <2>1. bridge = "serving" /\ bridge' = bridge /\ bconn' = bconn
    BY <1>15 DEF WriteFrame, WriteFails
  <2>2. \A c \in Conns : c # bconn => outbound'[c] = outbound[c]
    BY <1>1, <1>15 DEF WriteFrame, WriteFails, TypeOK
  <2>3. QuietBefore'
    BY <1>1, <2>1, <2>2 DEF TypeOK, Conns
  <2> QED
    BY <1>1, <1>15, <2>3 DEF WriteFrame, WriteFails, coreVars, linkVars, taskVars
<1>16. CASE ConnectionLost
  <2>1. \A q \in Reqs : task'[q] = task[q] \/ (task[q] = "running" /\ task'[q] = "cancelled")
    BY <1>1, <1>16 DEF ConnectionLost, TypeOK
  <2> QED
    BY <1>1, <1>16, <2>1 DEF ConnectionLost, coreVars, linkVars
<1>17. CASE UNCHANGED vars
  BY <1>1, <1>17 DEF vars, coreVars, linkVars, bridgeVars, taskVars
<1> HIDE DEF Ledger
<1> QED
  BY <1>2, <1>3, <1>4, <1>5, <1>6, <1>7, <1>8, <1>9, <1>10, <1>11, <1>12, <1>13, <1>14, <1>15,
     <1>16, <1>17 DEF Next

\* Where a completion was delivered to never changes.
LEMMA BoundKept ==
  Books /\ [Next]_vars => \A q \in Reqs : bound[q] # NoConn => bound'[q] = bound[q]
<1> SUFFICES ASSUME Books, [Next]_vars
             PROVE  \A q \in Reqs : bound[q] # NoConn => bound'[q] = bound[q]
  OBVIOUS
<1>1. TypeOK /\ NothingYet
  BY DEF Books
<1>2. bound' = bound \/ \E q \in Reqs : Complete(q)
  <2>1. ASSUME NEW q \in Reqs,
               \/ CompleteUnattached(q) \/ StartReading(q) \/ DropUnstarted(q) \/ CloseStream(q)
               \/ NextItem(q) \/ GapTimeout(q) \/ EndTask(q) \/ \E k \in ChunkKinds : StreamChunk(q, k)
        PROVE  bound' = bound
    BY <2>1 DEF CompleteUnattached, StartReading, DropUnstarted, CloseStream, NextItem, GapTimeout,
                EndTask, StreamChunk, linkVars
  <2>2. ASSUME NEW c \in Conns,
               \/ Attach(c) \/ AttachReturns(c) \/ AttachRefused(c) \/ ReadChunk(c) \/ ReadEnd(c)
               \/ Disconnected(c) \/ Drop(c)
               \/ \E q \in Reqs, type \in {"chunk", "done"} : StrayFrame(c, q, type)
        PROVE  bound' = bound
    BY <2>2 DEF Attach, AttachReturns, AttachRefused, ReadChunk, ReadEnd, Reads, Disconnected, Drop,
                StrayFrame, linkVars
  <2>3. ASSUME \/ Connect \/ ReceiveWelcome \/ ReceiveRequest \/ ReceiveError
               \/ WriteFrame \/ WriteFails \/ ConnectionLost \/ UNCHANGED vars
        PROVE  bound' = bound
    BY <2>3 DEF Connect, Accept, ReceiveWelcome, ReceiveRequest, ReceiveError, Receives,
                WriteFrame, WriteFails, ConnectionLost, vars, linkVars
  <2> QED
    BY <2>1, <2>2, <2>3 DEF Next
<1>3. ASSUME NEW q \in Reqs, Complete(q)
      PROVE  \A x \in Reqs : bound[x] # NoConn => bound'[x] = bound[x]
  BY <1>1, <1>3 DEF Complete, TypeOK, NothingYet
<1> QED
  BY <1>2, <1>3

\* Every frame the gateway reads still names a completion delivered somewhere.
LEMMA NamedStep == Books /\ [Next]_vars => Named'
<1> SUFFICES ASSUME Books, [Next]_vars
             PROVE  Named'
  OBVIOUS
<1>1. TypeOK /\ TypeOK' /\ Named /\ OwnQueue
  BY TypeStep DEF Books
<1>2. \A q \in Reqs : bound[q] # NoConn => bound'[q] # NoConn
  BY BoundKept
<1>3. \A c \in Conns : DOMAIN up[c] = 1 .. Len(up[c]) /\ \A i \in DOMAIN up[c] : up[c][i].req \in Reqs
  <2>1. \A c \in Conns : DOMAIN up[c] = 1 .. Len(up[c]) /\ \A i \in DOMAIN up[c] : up[c][i] \in UpFrames
    BY <1>1, LenProperties, ElementOfSeq DEF TypeOK
  <2> QED
    BY <2>1 DEF UpFrames
<1>4. ASSUME NEW c \in Conns, \A d \in Conns : d # c => up'[d] = up[d],
             \A i \in DOMAIN up'[c] : \/ \E j \in DOMAIN up[c] : up'[c][i] = up[c][j]
                                      \/ up'[c][i].req \in Reqs /\ bound[up'[c][i].req] # NoConn
      PROVE  Named'
  BY <1>1, <1>2, <1>3, <1>4 DEF Named
<1>5. ASSUME up' = up
      PROVE  Named'
  BY <1>1, <1>2, <1>3, <1>5 DEF Named
<1>6. ASSUME NEW q \in Reqs,
             \/ Complete(q) \/ CompleteUnattached(q) \/ StartReading(q) \/ DropUnstarted(q)
             \/ CloseStream(q) \/ NextItem(q) \/ GapTimeout(q) \/ EndTask(q)
             \/ \E k \in ChunkKinds : StreamChunk(q, k)
      PROVE  up' = up
  BY <1>6 DEF Complete, CompleteUnattached, StartReading, DropUnstarted, CloseStream, NextItem,
              GapTimeout, EndTask, StreamChunk, netVars
<1>7. ASSUME NEW c \in Conns, Attach(c) \/ AttachReturns(c) \/ Disconnected(c)
      PROVE  up' = up
  BY <1>7 DEF Attach, AttachReturns, Disconnected, netVars
<1>8. ASSUME NEW c \in Conns, AttachRefused(c)
      PROVE  Named'
  BY <1>1, <1>4, <1>8 DEF AttachRefused, TypeOK
<1>9. ASSUME NEW c \in Conns, ReadChunk(c) \/ ReadEnd(c)
      PROVE  Named'
  <2>1. up[c] # <<>> /\ up' = [up EXCEPT ![c] = Tail(@)]
    BY <1>1, <1>9, ReadFacts
  <2>2. DOMAIN Tail(up[c]) = 1 .. Len(up[c]) - 1 /\ Len(up[c]) \in Nat
    BY <1>1, <2>1, ElemFacts DEF TypeOK
  <2>3. \A i \in 1 .. Len(up[c]) - 1 : i + 1 \in 1 .. Len(up[c]) /\ Tail(up[c])[i] = up[c][i + 1]
    BY <1>1, <2>1, <2>2, ElemFacts DEF TypeOK
  <2>4. up'[c] = Tail(up[c]) /\ \A d \in Conns : d # c => up'[d] = up[d]
    BY <1>1, <2>1 DEF TypeOK
  <2>5. \A i \in DOMAIN up'[c] : \E j \in DOMAIN up[c] : up'[c][i] = up[c][j]
    <3>1. ASSUME NEW i \in DOMAIN up'[c]
          PROVE  i + 1 \in DOMAIN up[c] /\ up'[c][i] = up[c][i + 1]
      BY <1>3, <2>2, <2>3, <2>4
    <3> QED
      BY <3>1
  <2> QED
    BY <1>4, <2>4, <2>5
<1>10. ASSUME NEW c \in Conns, Drop(c)
       PROVE  Named'
  <2>1. PICK n \in 0 .. Len(up[c]) : up' = [up EXCEPT ![c] = SubSeq(@, 1, n)]
    BY <1>10 DEF Drop
  <2>2. /\ DOMAIN SubSeq(up[c], 1, n) = 1 .. n /\ Len(up[c]) \in Nat
        /\ \A i \in 1 .. n : SubSeq(up[c], 1, n)[i] = up[c][i]
    BY <1>1, <2>1, ElemFacts DEF TypeOK
  <2>3. up'[c] = SubSeq(up[c], 1, n) /\ \A d \in Conns : d # c => up'[d] = up[d]
    BY <1>1, <2>1 DEF TypeOK
  <2>4. \A i \in DOMAIN up'[c] : i \in DOMAIN up[c] /\ up'[c][i] = up[c][i]
    BY <1>3, <2>2, <2>3
  <2> QED
    BY <1>4, <2>2, <2>3, <2>4
<1>11. ASSUME NEW c \in Conns, NEW f \in UpFrames, bound[f.req] # NoConn, up' = [up EXCEPT ![c] = Append(@, f)]
       PROVE  Named'
  <2>1. /\ DOMAIN Append(up[c], f) = 1 .. Len(up[c]) + 1 /\ Len(up[c]) \in Nat
        /\ \A i \in 1 .. Len(up[c]) : Append(up[c], f)[i] = up[c][i]
        /\ Append(up[c], f)[Len(up[c]) + 1] = f
    BY <1>1, ElemFacts DEF TypeOK
  <2>2. up'[c] = Append(up[c], f) /\ \A d \in Conns : d # c => up'[d] = up[d]
    BY <1>1, <1>11 DEF TypeOK
  <2>3. f.req \in Reqs
    BY DEF UpFrames
  <2>4. \A i \in DOMAIN up'[c] : i \in DOMAIN up[c] \/ i = Len(up[c]) + 1
    BY <1>3, <2>1, <2>2
  <2> QED
    BY <1>3, <1>4, <1>11, <2>1, <2>2, <2>3, <2>4
<1>12. ASSUME NEW c \in Conns, NEW q \in Reqs, NEW type \in {"chunk", "done"}, StrayFrame(c, q, type)
       PROVE  Named'
  <2>1. Frame(type, q, 0, "ok") \in UpFrames /\ Frame(type, q, 0, "ok").req = q
    BY ConstantsAssumption DEF ConstantsAssumption, Frame, UpFrames
  <2> QED
    BY <1>11, <1>12, <2>1 DEF StrayFrame
<1>13. CASE Connect \/ WriteFails \/ ConnectionLost \/ UNCHANGED vars
  BY <1>5, <1>13 DEF Connect, WriteFails, ConnectionLost, vars, netVars
<1>14. CASE ReceiveWelcome \/ ReceiveRequest \/ ReceiveError
  BY <1>5, <1>14 DEF ReceiveWelcome, ReceiveRequest, ReceiveError, Receives
<1>15. CASE WriteFrame
  <2>1. bconn \in Conns /\ bconn # NoConn /\ outbound[bconn] # <<>>
    BY <1>1, <1>15 DEF WriteFrame, TypeOK, NoConn, Conns
  <2>2. /\ Head(outbound[bconn]) \in UpFrames
        /\ 1 \in DOMAIN outbound[bconn] /\ Head(outbound[bconn]) = outbound[bconn][1]
    BY <1>1, <2>1, QueueFacts, ElemFacts DEF TypeOK
  <2>3. bound[Head(outbound[bconn]).req] # NoConn
    BY <1>1, <2>1, <2>2 DEF OwnQueue
  <2> QED
    BY <1>11, <1>15, <2>1, <2>2, <2>3 DEF WriteFrame
<1> QED
  BY <1>5, <1>6, <1>7, <1>8, <1>9, <1>10, <1>12, <1>13, <1>14, <1>15 DEF Next

\* A completion's queue holds only what was read where it was delivered, and
\* the queue of a connection only what was asked for there.
LEMMA PlaceStep == Books /\ [Next]_vars => AnsweredWhereDelivered' /\ OwnQueue'
<1> SUFFICES ASSUME Books, [Next]_vars
             PROVE  AnsweredWhereDelivered' /\ OwnQueue'
  OBVIOUS
<1>1. /\ TypeOK /\ TypeOK' /\ NothingYet /\ OwnTable 
      /\ AnsweredWhereDelivered /\ OwnQueue
  BY TypeStep, LedgerStep DEF Books, Ledger
<1>2. \A q \in Reqs : bound[q] # NoConn => bound'[q] = bound[q]
  BY BoundKept
<1>3. /\ \A q \in Reqs : DOMAIN queue[q] = 1 .. Len(queue[q]) /\ Len(queue[q]) \in Nat
      /\ \A q \in Reqs : \A i \in DOMAIN queue[q] : queue[q][i].via # NoConn
      /\ \A c \in Conns : DOMAIN outbound[c] = 1 .. Len(outbound[c]) /\ Len(outbound[c]) \in Nat
      /\ \A c \in Conns : \A i \in DOMAIN outbound[c] : outbound[c][i].req \in Reqs
      /\ \A c \in Conns : c # NoConn
  <2>1. \A q \in Reqs : \A i \in DOMAIN queue[q] : queue[q][i] \in Items
    BY <1>1, LenProperties, ElementOfSeq DEF TypeOK
  <2>2. \A c \in Conns : \A i \in DOMAIN outbound[c] : outbound[c][i] \in UpFrames
    BY <1>1, LenProperties, ElementOfSeq DEF TypeOK
  <2>3. /\ \A q \in Reqs : DOMAIN queue[q] = 1 .. Len(queue[q]) /\ Len(queue[q]) \in Nat
        /\ \A c \in Conns : DOMAIN outbound[c] = 1 .. Len(outbound[c]) /\ Len(outbound[c]) \in Nat
    BY <1>1, LenProperties DEF TypeOK
  <2>4. \A item \in Items : item.via # NoConn
    BY DEF Items, NoConn, Conns
  <2>5. \A f \in UpFrames : f.req \in Reqs
    BY DEF UpFrames
  <2>6. \A c \in Conns : c # NoConn
    BY DEF NoConn, Conns
  <2> QED
    BY <2>1, <2>2, <2>3, <2>4, <2>5, <2>6
<1>4. ASSUME queue' = queue
      PROVE  AnsweredWhereDelivered'
  BY <1>1, <1>2, <1>3, <1>4 DEF AnsweredWhereDelivered
<1>5. ASSUME NEW q \in Reqs, NEW item \in Items, item.via = bound[q], queue'[q] = Append(queue[q], item)
      PROVE  \A i \in DOMAIN queue'[q] : queue'[q][i].via = bound'[q]
  <2>1. /\ DOMAIN Append(queue[q], item) = 1 .. Len(queue[q]) + 1
        /\ \A i \in 1 .. Len(queue[q]) : Append(queue[q], item)[i] = queue[q][i]
        /\ Append(queue[q], item)[Len(queue[q]) + 1] = item
    BY <1>1, ElemFacts DEF TypeOK
  <2>2. bound'[q] = bound[q]
    BY <1>2, <1>5 DEF Items, NoConn, Conns
  <2>3. \A i \in DOMAIN queue'[q] : i \in DOMAIN queue[q] \/ i = Len(queue[q]) + 1
    BY <1>3, <1>5, <2>1
  <2> QED
    BY <1>1, <1>3, <1>5, <2>1, <2>2, <2>3 DEF AnsweredWhereDelivered
<1>6. ASSUME NEW q \in Reqs, queue'[q] = queue[q]
      PROVE  \A i \in DOMAIN queue'[q] : queue'[q][i].via = bound'[q]
  BY <1>1, <1>2, <1>3, <1>6 DEF AnsweredWhereDelivered
<1>7. ASSUME NEW c \in Conns, outbound'[c] = outbound[c]
      PROVE  \A i \in DOMAIN outbound'[c] : bound'[outbound'[c][i].req] = c
  BY <1>1, <1>2, <1>3, <1>7 DEF OwnQueue
<1>8. ASSUME outbound' = outbound
      PROVE  OwnQueue'
  BY <1>7, <1>8 DEF OwnQueue
<1>9. ASSUME bconn \in Conns, outbound[bconn] # <<>>,
             outbound' = [outbound EXCEPT ![bconn] = Tail(@)], bound' = bound
      PROVE  OwnQueue'
  <2>1. /\ DOMAIN Tail(outbound[bconn]) = 1 .. Len(outbound[bconn]) - 1
        /\ \A i \in 1 .. Len(outbound[bconn]) - 1 : Tail(outbound[bconn])[i] = outbound[bconn][i + 1]
    BY <1>1, <1>9, ElemFacts DEF TypeOK
  <2>2. \A i \in 1 .. Len(outbound[bconn]) - 1 : i + 1 \in DOMAIN outbound[bconn]
    BY <1>3, <1>9
  <2>3. /\ outbound'[bconn] = Tail(outbound[bconn])
        /\ \A c \in Conns : c # bconn => outbound'[c] = outbound[c]
    BY <1>1, <1>9 DEF TypeOK
  <2>4. \A i \in DOMAIN outbound'[bconn] : bound'[outbound'[bconn][i].req] = bconn
    BY <1>1, <1>9, <2>1, <2>2, <2>3 DEF OwnQueue
  <2> QED
    BY <1>7, <2>3, <2>4 DEF OwnQueue
<1>10. ASSUME NEW q \in Reqs, bound[q] # NoConn, NEW f \in UpFrames, f.req = q, Queue(q, f),
              bound' = bound
       PROVE  OwnQueue'
  <2> DEFINE c == bound[q]
  <2>1. c \in Conns
    BY <1>1, <1>10 DEF TypeOK
  <2>2. outbound'[c] = Append(outbound[c], f) /\ \A d \in Conns : d # c => outbound'[d] = outbound[d]
    BY <1>1, <1>10, <2>1 DEF Queue, TypeOK
  <2>3. /\ DOMAIN Append(outbound[c], f) = 1 .. Len(outbound[c]) + 1
        /\ \A i \in 1 .. Len(outbound[c]) : Append(outbound[c], f)[i] = outbound[c][i]
        /\ Append(outbound[c], f)[Len(outbound[c]) + 1] = f
    BY <1>1, <2>1, ElemFacts DEF TypeOK
  <2>4. \A i \in 1 .. Len(outbound[c]) + 1 : i \in DOMAIN outbound[c] \/ i = Len(outbound[c]) + 1
    BY <1>3, <2>1
  <2>5. f.req = q /\ bound'[q] = c
    BY <1>10
  <2> HIDE DEF c
  <2>6. \A i \in DOMAIN outbound'[c] : bound'[outbound'[c][i].req] = c
    BY <1>1, <1>3, <1>10, <2>1, <2>2, <2>3, <2>4, <2>5 DEF OwnQueue
  <2> QED
    BY <1>7, <2>2, <2>6 DEF OwnQueue
<1>11. ASSUME NEW q \in Reqs,
              \/ Complete(q) \/ CompleteUnattached(q) \/ StartReading(q) \/ DropUnstarted(q)
              \/ CloseStream(q) \/ GapTimeout(q)
       PROVE  UNCHANGED <<queue, outbound>>
  BY <1>11 DEF Complete, CompleteUnattached, StartReading, DropUnstarted, CloseStream, GapTimeout,
               linkVars, bridgeVars
<1>12. ASSUME NEW q \in Reqs, NextItem(q)
       PROVE  AnsweredWhereDelivered' /\ OwnQueue'
  <2>1. queue[q] # <<>> /\ queue'[q] = Tail(queue[q]) /\ \A x \in Reqs : x # q => queue'[x] = queue[x]
    BY <1>1, <1>12 DEF NextItem, TypeOK
  <2>2. /\ DOMAIN Tail(queue[q]) = 1 .. Len(queue[q]) - 1
        /\ \A i \in 1 .. Len(queue[q]) - 1 : Tail(queue[q])[i] = queue[q][i + 1]
    BY <1>1, <2>1, ElemFacts DEF TypeOK
  <2>3. \A i \in 1 .. Len(queue[q]) - 1 : i + 1 \in DOMAIN queue[q]
    BY <1>3
  <2>4. bound' = bound /\ outbound' = outbound
    BY <1>12 DEF NextItem, bridgeVars
  <2>5. \A i \in DOMAIN queue'[q] : queue'[q][i].via = bound'[q]
    BY <1>1, <2>1, <2>2, <2>3, <2>4 DEF AnsweredWhereDelivered
  <2> QED
    BY <1>6, <1>8, <2>1, <2>4, <2>5 DEF AnsweredWhereDelivered
<1>13. ASSUME NEW c \in Conns, Attach(c) \/ AttachReturns(c) \/ AttachRefused(c) \/ Drop(c)
       PROVE  UNCHANGED <<queue, outbound>>
  BY <1>13 DEF Attach, AttachReturns, AttachRefused, Drop, bridgeVars
<1>14. ASSUME NEW c \in Conns, ReadChunk(c) \/ ReadEnd(c)
       PROVE  AnsweredWhereDelivered' /\ OwnQueue'
  <2> DEFINE q == Head(up[c]).req
  <2>1. outbound' = outbound
    BY <1>1, <1>14, ReadFacts DEF bridgeVars
  <2>2. CASE queue' = queue
    BY <1>4, <1>8, <2>1, <2>2
  <2>3. CASE queue' # queue
    <3>1. q \in answers[c] /\ \E item \in Items : item.via = c /\ queue' = [queue EXCEPT ![q] = Append(@, item)]
      BY <1>1, <1>14, <2>3, ReadFacts
    <3>2. PICK item \in Items : item.via = c /\ queue' = [queue EXCEPT ![q] = Append(@, item)]
      BY <3>1
    <3>3. q \in Reqs /\ bound[q] = c
      BY <1>1, <3>1 DEF OwnTable, TypeOK
    <3> HIDE DEF q
    <3>4. queue'[q] = Append(queue[q], item) /\ \A x \in Reqs : x # q => queue'[x] = queue[x]
      BY <1>1, <3>2, <3>3 DEF TypeOK
    <3>5. \A x \in Reqs : \A i \in DOMAIN queue'[x] : queue'[x][i].via = bound'[x]
      BY <1>5, <1>6, <3>2, <3>3, <3>4
    <3> QED
      BY <1>8, <2>1, <3>5 DEF AnsweredWhereDelivered
  <2> QED
    BY <2>2, <2>3
<1>15. ASSUME NEW c \in Conns, Disconnected(c)
       PROVE  AnsweredWhereDelivered' /\ OwnQueue'
  <2>1. Failure(c) \in Items /\ Failure(c).via = c
    BY ConstantsAssumption DEF ConstantsAssumption, Failure, Item, Items
  <2>2. \A x \in Reqs : IF x \in answers[c] THEN queue'[x] = Append(queue[x], Failure(c)) ELSE queue'[x] = queue[x]
    BY <1>15 DEF Disconnected, FailPending
  <2>3. \A x \in answers[c] : bound[x] = c
    BY <1>1 DEF OwnTable
  <2>4. \A x \in Reqs : \A i \in DOMAIN queue'[x] : queue'[x][i].via = bound'[x]
    BY <1>5, <1>6, <2>1, <2>2, <2>3
  <2>5. outbound' = outbound
    BY <1>15 DEF Disconnected, bridgeVars
  <2> QED
    BY <1>8, <2>4, <2>5 DEF AnsweredWhereDelivered
<1>16. ASSUME NEW c \in Conns, NEW q \in Reqs, NEW type \in {"chunk", "done"}, StrayFrame(c, q, type)
       PROVE  UNCHANGED <<queue, outbound>>
  BY <1>16 DEF StrayFrame, linkVars, bridgeVars
<1>17. CASE Connect
  BY <1>4, <1>8, <1>17 DEF Connect, Accept
<1>18. CASE ReceiveWelcome \/ ReceiveRequest \/ ReceiveError
  BY <1>4, <1>8, <1>18 DEF ReceiveWelcome, ReceiveRequest, ReceiveError, Receives
<1>19. ASSUME NEW q \in Reqs, EndTask(q) \/ \E k \in ChunkKinds : StreamChunk(q, k)
       PROVE  AnsweredWhereDelivered' /\ OwnQueue'
  <2>1. UNCHANGED <<queue, bound>> /\ bound[q] # NoConn
    BY <1>1, <1>19 DEF EndTask, StreamChunk, linkVars, NothingYet
  <2>2. ASSUME NEW k \in ChunkKinds, StreamChunk(q, k)
        PROVE  \E f \in UpFrames : f.req = q /\ Queue(q, f)
    <3>1. Len(made[q]) + 1 \in 0 .. Chunks
      BY <1>1, <2>2, LenProperties, ConstantsAssumption DEF ConstantsAssumption, StreamChunk, TypeOK
    <3>2. Frame("chunk", q, Len(made[q]) + 1, k) \in UpFrames /\ Frame("chunk", q, Len(made[q]) + 1, k).req = q
      BY <3>1 DEF Frame, UpFrames
    <3> QED
      BY <2>2, <3>2 DEF StreamChunk
  <2>3. ASSUME EndTask(q)
        PROVE  \E f \in UpFrames : f.req = q /\ Queue(q, f)
    <3>1. \A type \in {"done", "error"} : Frame(type, q, 0, "ok") \in UpFrames /\ Frame(type, q, 0, "ok").req = q
      BY ConstantsAssumption DEF ConstantsAssumption, Frame, UpFrames
    <3> QED
      BY <2>3, <3>1 DEF EndTask
  <2> QED
    BY <1>4, <1>10, <1>19, <2>1, <2>2, <2>3
<1>20. CASE WriteFrame \/ WriteFails
  <2>1. bconn \in Conns
    BY <1>1, <1>20 DEF WriteFrame, WriteFails, TypeOK, NoConn, Conns
  <2> QED
    BY <1>4, <1>9, <1>20, <2>1 DEF WriteFrame, WriteFails, linkVars
<1>21. CASE ConnectionLost
  BY <1>4, <1>8, <1>21 DEF ConnectionLost, linkVars
<1>22. CASE UNCHANGED vars
  BY <1>4, <1>8, <1>22 DEF vars, linkVars, bridgeVars
<1> QED
  BY <1>4, <1>8, <1>11, <1>12, <1>13, <1>14, <1>15, <1>16, <1>17, <1>18, <1>19, <1>20, <1>21, <1>22 DEF Next

\* What the queue towards the bridge does to the requests in it.
LEMMA FreshFacts ==
  ASSUME NEW s \in Seq(DownFrames), NEW c, NEW bd, NEW tk, FreshIn(s, c, bd, tk)
  PROVE  /\ s # <<>> => FreshIn(Tail(s), c, bd, tk)
         /\ s # <<>> /\ IsRequest(Head(s)) =>
              \A i \in DOMAIN Tail(s) : IsRequest(Tail(s)[i]) => Tail(s)[i].req # Head(s).req
         /\ \A n \in 0 .. Len(s) : FreshIn(SubSeq(s, 1, n), c, bd, tk)
         /\ \A f \in DownFrames : ~ IsRequest(f) => FreshIn(Append(s, f), c, bd, tk)
         /\ \A f \in DownFrames :
              /\ IsRequest(f) /\ f.req \in Reqs /\ bd[f.req] = c /\ tk[f.req] = "none"
              /\ \A i \in DOMAIN s : IsRequest(s[i]) => s[i].req # f.req
              => FreshIn(Append(s, f), c, bd, tk)
<1>1. DOMAIN s = 1 .. Len(s) /\ Len(s) \in Nat
  BY ElemFacts
<1>2. ASSUME s # <<>>
      PROVE  /\ FreshIn(Tail(s), c, bd, tk)
             /\ IsRequest(Head(s)) =>
                  \A i \in DOMAIN Tail(s) : IsRequest(Tail(s)[i]) => Tail(s)[i].req # Head(s).req
  <2> DEFINE t == Tail(s)
  <2>1. /\ DOMAIN t = 1 .. Len(s) - 1 /\ Head(s) = s[1] /\ 1 \in DOMAIN s
        /\ \A i \in 1 .. Len(s) - 1 : t[i] = s[i + 1]
    BY <1>2, ElemFacts
  <2> HIDE DEF t
  <2>2. \A i \in DOMAIN t : i + 1 \in DOMAIN s /\ t[i] = s[i + 1] /\ i + 1 # 1 /\ i \in Int
    BY <1>1, <2>1
  <2>3. FreshIn(t, c, bd, tk)
    <3> SUFFICES ASSUME NEW i \in DOMAIN t, IsRequest(t[i])
                 PROVE  /\ t[i].req \in Reqs /\ bd[t[i].req] = c /\ tk[t[i].req] = "none"
                        /\ \A j \in DOMAIN t : IsRequest(t[j]) /\ t[j].req = t[i].req => j = i
      BY DEF FreshIn
    <3>1. /\ t[i].req \in Reqs /\ bd[t[i].req] = c /\ tk[t[i].req] = "none"
          /\ \A j \in DOMAIN s : IsRequest(s[j]) /\ s[j].req = t[i].req => j = i + 1
      BY <2>2 DEF FreshIn
    <3>2. ASSUME NEW j \in DOMAIN t, IsRequest(t[j]), t[j].req = t[i].req
          PROVE  j = i
      <4>1. j + 1 = i + 1
        BY <2>2, <3>1, <3>2
      <4> QED
        BY <2>2, <4>1
    <3> QED
      BY <3>1, <3>2
  <2>4. ASSUME IsRequest(s[1]), NEW i \in DOMAIN t, IsRequest(t[i]), t[i].req = s[1].req
        PROVE  FALSE
    BY <2>1, <2>2, <2>4 DEF FreshIn
  <2> QED
    BY <2>1, <2>3, <2>4 DEF t
<1>3. ASSUME NEW n \in 0 .. Len(s)
      PROVE  FreshIn(SubSeq(s, 1, n), c, bd, tk)
  <2>1. \A i \in DOMAIN SubSeq(s, 1, n) : i \in DOMAIN s /\ SubSeq(s, 1, n)[i] = s[i]
    BY <1>1, ElemFacts
  <2> QED
    BY <2>1 DEF FreshIn
<1>4. ASSUME NEW f \in DownFrames,
             IsRequest(f) => /\ f.req \in Reqs /\ bd[f.req] = c /\ tk[f.req] = "none"
                             /\ \A i \in DOMAIN s : IsRequest(s[i]) => s[i].req # f.req
      PROVE  FreshIn(Append(s, f), c, bd, tk)
  <2> DEFINE t == Append(s, f)
  <2>1. /\ \A i \in DOMAIN t : i \in DOMAIN s \/ i = Len(s) + 1
        /\ \A i \in DOMAIN s : t[i] = s[i]
        /\ t[Len(s) + 1] = f
    BY <1>1, ElemFacts
  <2> HIDE DEF t
  <2> SUFFICES ASSUME NEW i \in DOMAIN t, IsRequest(t[i])
               PROVE  /\ t[i].req \in Reqs /\ bd[t[i].req] = c /\ tk[t[i].req] = "none"
                      /\ \A j \in DOMAIN t : IsRequest(t[j]) /\ t[j].req = t[i].req => j = i
    BY DEF FreshIn, t
  <2>2. CASE i \in DOMAIN s
    BY <1>4, <2>1, <2>2 DEF FreshIn
  <2>3. CASE i = Len(s) + 1
    BY <1>4, <2>1, <2>3
  <2> QED
    BY <2>1, <2>2, <2>3
<1> QED
  BY <1>2, <1>3, <1>4

\* Requests stay where they are going, once each.
LEMMA RequestsStep == Books /\ [Next]_vars => RequestsFresh'
<1> SUFFICES ASSUME Books, [Next]_vars
             PROVE  RequestsFresh'
  OBVIOUS
<1>1. TypeOK /\ TypeOK' /\ NothingYet /\ RequestsFresh
  BY TypeStep DEF Books
<1>2. /\ \A c \in Conns : down[c] \in Seq(DownFrames) /\ FreshIn(down[c], c, bound, task)
      /\ \A c \in Conns : DOMAIN down[c] = 1 .. Len(down[c])
      /\ \A c \in Conns : \A i \in DOMAIN down[c] :
           IsRequest(down[c][i]) => down[c][i].req \in Reqs /\ bound[down[c][i].req] = c
  <2>1. \A c \in Conns : down[c] \in Seq(DownFrames) /\ FreshIn(down[c], c, bound, task)
    BY <1>1 DEF TypeOK, RequestsFresh
  <2> QED
    BY <2>1, LenProperties DEF FreshIn
<1>3. ASSUME bound' = bound, task' = task, \A c \in Conns : FreshIn(down'[c], c, bound, task)
      PROVE  RequestsFresh'
  BY <1>3 DEF RequestsFresh
<1>4. ASSUME bound' = bound, task' = task, down' = down
      PROVE  RequestsFresh'
  BY <1>2, <1>3, <1>4
<1>5. ASSUME NEW c \in Conns, NEW s, down' = [down EXCEPT ![c] = s], FreshIn(s, c, bound, task),
             bound' = bound, task' = task
      PROVE  RequestsFresh'
  <2>1. \A d \in Conns : down'[d] = IF d = c THEN s ELSE down[d]
    BY <1>1, <1>5 DEF TypeOK
  <2> QED
    BY <1>2, <1>3, <1>5, <2>1
<1>6. ASSUME NEW c \in Conns, NEW f \in DownFrames, ~ IsRequest(f), Send(c, f),
             bound' = bound, task' = task
      PROVE  RequestsFresh'
  <2>1. FreshIn(Append(down[c], f), c, bound, task)
    BY <1>2, <1>6, FreshFacts
  <2>2. down' = down \/ down' = [down EXCEPT ![c] = Append(down[c], f)]
    BY <1>6 DEF Send
  <2> QED
    BY <1>4, <1>5, <1>6, <2>1, <2>2
<1>7. ASSUME NEW q \in Reqs, Complete(q)
      PROVE  RequestsFresh'
  <2> DEFINE f == Frame("completionRequest", q, 0, "ok")
  <2>1. current \in Conns /\ current # NoConn /\ bound[q] = NoConn /\ task[q] = "none"
    BY <1>1, <1>7 DEF Complete, TypeOK, NothingYet
  <2>2. bound' = [bound EXCEPT ![q] = current] /\ task' = task
    BY <1>7 DEF Complete, taskVars
  <2>3. \A c \in Conns : \A i \in DOMAIN down[c] : IsRequest(down[c][i]) => down[c][i].req # q
    BY <1>2, <2>1 DEF NoConn, Conns
  <2>4. \A c \in Conns : FreshIn(down[c], c, bound', task)
    <3>1. \A x \in Reqs : x # q => bound'[x] = bound[x]
      BY <1>1, <2>2 DEF TypeOK
    <3> QED
      BY <1>2, <2>3, <3>1 DEF FreshIn
  <2>5. f \in DownFrames /\ IsRequest(f) /\ f.req = q
    BY DEF Frame, DownFrames, IsRequest
  <2>6. bound'[q] = current
    BY <1>1, <2>2 DEF TypeOK
  <2> HIDE DEF f
  <2>7. FreshIn(Append(down[current], f), current, bound', task)
    BY <1>2, <2>1, <2>3, <2>4, <2>5, <2>6, FreshFacts
  <2>8. down' = down \/ down' = [down EXCEPT ![current] = Append(down[current], f)]
    BY <1>7 DEF Complete, Send, f
  <2>9. \A c \in Conns : down'[c] = down[c] \/ (c = current /\ down'[c] = Append(down[c], f))
    <3>1. down \in [Conns -> Seq(DownFrames)]
      BY <1>1 DEF TypeOK
    <3> QED
      BY <2>1, <2>8, <3>1
  <2> QED
    BY <2>2, <2>4, <2>7, <2>9 DEF RequestsFresh
<1>8. ASSUME NEW q \in Reqs,
             \/ CompleteUnattached(q) \/ StartReading(q) \/ DropUnstarted(q) \/ CloseStream(q)
             \/ NextItem(q) \/ GapTimeout(q) \/ \E k \in ChunkKinds : StreamChunk(q, k)
      PROVE  UNCHANGED <<bound, task, down>>
  BY <1>8 DEF CompleteUnattached, StartReading, DropUnstarted, CloseStream, NextItem, GapTimeout,
              StreamChunk, linkVars, taskVars
<1>9. ASSUME NEW c \in Conns, Attach(c) \/ AttachReturns(c) \/ Disconnected(c)
      PROVE  UNCHANGED <<bound, task, down>>
  BY <1>9 DEF Attach, AttachReturns, Disconnected, taskVars
<1>10. ASSUME NEW c \in Conns, AttachRefused(c)
       PROVE  RequestsFresh'
  <2>1. FreshIn(<<>>, c, bound, task)
    BY DEF FreshIn
  <2> QED
    BY <1>5, <1>10, <2>1 DEF AttachRefused, taskVars
<1>11. ASSUME NEW c \in Conns, ReadChunk(c) \/ ReadEnd(c)
       PROVE  RequestsFresh'
  <2>1. bound' = bound /\ task' = task /\ Head(up[c]).req \in Reqs
    BY <1>1, <1>11, ReadFacts DEF taskVars, UpFrames
  <2>2. /\ Frame("error", Head(up[c]).req, 0, "ok") \in DownFrames
        /\ ~ IsRequest(Frame("error", Head(up[c]).req, 0, "ok"))
    BY <2>1 DEF Frame, DownFrames, IsRequest
  <2>3. down' = down \/ Send(c, Frame("error", Head(up[c]).req, 0, "ok"))
    BY <1>1, <1>11, ReadFacts
  <2> QED
    BY <1>4, <1>6, <2>1, <2>2, <2>3
<1>12. ASSUME NEW c \in Conns, Drop(c)
       PROVE  RequestsFresh'
  <2>1. PICK n \in 0 .. Len(down[c]) : down' = [down EXCEPT ![c] = SubSeq(@, 1, n)]
    BY <1>12 DEF Drop
  <2>2. FreshIn(SubSeq(down[c], 1, n), c, bound, task)
    BY <1>2, <2>1, FreshFacts
  <2> QED
    BY <1>5, <1>12, <2>1, <2>2 DEF Drop, taskVars
<1>13. ASSUME NEW c \in Conns, NEW q \in Reqs, NEW type \in {"chunk", "done"}, StrayFrame(c, q, type)
       PROVE  UNCHANGED <<bound, task, down>>
  BY <1>13 DEF StrayFrame, linkVars, taskVars
<1>14. CASE Connect
  <2>1. bconn + 1 \in Conns
    BY <1>1, <1>14, ConstantsAssumption DEF ConstantsAssumption, Connect, Conns, TypeOK
  <2>2. Frame("welcome", NoReq, 0, "ok") \in DownFrames /\ ~ IsRequest(Frame("welcome", NoReq, 0, "ok"))
    BY DEF Frame, DownFrames, IsRequest
  <2> QED
    BY <1>6, <1>14, <2>1, <2>2 DEF Connect, Accept, taskVars
<1>15. ASSUME NEW state \in {"hello", "serving"}, NEW types, Receives(state, types), task' = task
       PROVE  RequestsFresh'
  <2>1. /\ bconn \in Conns /\ down[bconn] # <<>> /\ bound' = bound
        /\ down' = [down EXCEPT ![bconn] = Tail(@)]
    BY <1>1, <1>15, ReceiveFacts
  <2>2. FreshIn(Tail(down[bconn]), bconn, bound, task)
    BY <1>2, <2>1, FreshFacts
  <2> QED
    BY <1>5, <1>15, <2>1, <2>2
<1>16. CASE ReceiveWelcome
  BY <1>15, <1>16 DEF ReceiveWelcome, taskVars
<1>17. CASE ReceiveError
  BY <1>15, <1>17 DEF ReceiveError, taskVars
<1>18. CASE ReceiveRequest
  <2> DEFINE q == Head(down[bconn]).req
  <2>1. /\ bconn \in Conns /\ down[bconn] # <<>> /\ bound' = bound /\ IsRequest(Head(down[bconn]))
        /\ down' = [down EXCEPT ![bconn] = Tail(@)]
        /\ task' = [task EXCEPT ![q] = "running"]
    BY <1>1, <1>18, ReceiveFacts DEF ReceiveRequest, IsRequest
  <2>2. \A c \in Conns : down'[c] = IF c = bconn THEN Tail(down[c]) ELSE down[c]
    BY <1>1, <2>1 DEF TypeOK
  <2>3. /\ FreshIn(Tail(down[bconn]), bconn, bound, task)
        /\ \A i \in DOMAIN Tail(down[bconn]) :
             IsRequest(Tail(down[bconn])[i]) => Tail(down[bconn])[i].req # q
    BY <1>2, <2>1, FreshFacts
  <2>4. bound[q] = bconn
    <3>1. Head(down[bconn]) = down[bconn][1] /\ 1 \in DOMAIN down[bconn]
      BY <1>2, <2>1, ElemFacts
    <3> QED
      BY <1>2, <2>1, <3>1
  <2>5. \A x \in Reqs : x # q => task'[x] = task[x]
    BY <1>1, <2>1 DEF TypeOK
  <2> HIDE DEF q
  <2>6. ASSUME NEW c \in Conns
        PROVE  FreshIn(down'[c], c, bound, task')
    <3>1. FreshIn(down'[c], c, bound, task)
      BY <1>2, <2>2, <2>3
    <3>2. \A i \in DOMAIN down'[c] : IsRequest(down'[c][i]) => down'[c][i].req # q
      <4>1. CASE c = bconn
        BY <2>2, <2>3, <4>1
      <4>2. CASE c # bconn
        BY <1>2, <2>2, <2>4, <4>2
      <4> QED
        BY <4>1, <4>2
    <3>3. \A i \in DOMAIN down'[c] : IsRequest(down'[c][i]) => task'[down'[c][i].req] = "none"
      BY <2>5, <3>1, <3>2 DEF FreshIn
    <3> QED
      BY <3>1, <3>3 DEF FreshIn
  <2> QED
    BY <2>1, <2>6 DEF RequestsFresh
<1>19. ASSUME bound' = bound, down' = down, \A q \in Reqs : task[q] = "none" => task'[q] = "none"
       PROVE  RequestsFresh'
  BY <1>2, <1>19 DEF RequestsFresh, FreshIn
<1>20. ASSUME NEW q \in Reqs, EndTask(q)
       PROVE  RequestsFresh'
  BY <1>1, <1>19, <1>20 DEF EndTask, TypeOK, linkVars
<1>21. CASE ConnectionLost
  BY <1>1, <1>19, <1>21 DEF ConnectionLost, TypeOK, linkVars
<1>22. CASE WriteFrame \/ WriteFails \/ UNCHANGED vars
  BY <1>4, <1>22 DEF WriteFrame, WriteFails, vars, linkVars, taskVars
<1> QED
  BY <1>4, <1>7, <1>8, <1>9, <1>10, <1>11, <1>12, <1>13, <1>14, <1>16, <1>17, <1>18, <1>20, <1>21, <1>22 DEF Next

\* The books stay in order.
LEMMA BooksStep == Books /\ [Next]_vars => Books'
  BY TypeStep, OpenedStep, LedgerStep, NamedStep, RequestsStep, PlaceStep DEF Books, Ledger

\* An answer is accepted only on the connection its request was delivered to.
THEOREM AlwaysAnsweredWhereDelivered == Spec => []AnsweredWhereDelivered
<1>1. Books => AnsweredWhereDelivered
  BY DEF Books
<1> QED
  BY <1>1, BooksInit, BooksStep, PTL DEF Spec

-----------------------------------------------------------------------------
(* An answer on its way: from the task over the bridge's queue and the     *)
(* socket to the completion's queue and its caller.                        *)

\* What the bridge still sends on c reaches the gateway.
Live(c) == bridge = "serving" /\ bconn = c /\ sock[c] = "up"

\* The frames the gateway will read on c unless c drops.
Pipe(c) == IF Live(c) THEN up[c] \o outbound[c] ELSE up[c]

\* The chunks of q the gateway has taken, and whether it still waits for more.
Taken(q) == Len(got[q]) + Len(queue[q])
OnlyChunks(q) == \A i \in DOMAIN queue[q] : queue[q][i].type = "chunk"

\* What comes on c goes on where the queue of q stops, and once the end is in
\* the queue nothing more comes.
Flow(q, c) ==
  IF OnlyChunks(q)
  THEN /\ Taken(q) <= Len(made[q])
       /\ Tells(Pipe(c), q, Taken(q), Len(made[q]), task[q])
       /\ Live(c) /\ task[q] = "running" => CaughtUp(Pipe(c), q, Taken(q), Len(made[q]))
  ELSE /\ Silent(Pipe(c), q)
       /\ task[q] \in {"done", "broken"}

AnswersFlow == \A c \in Conns : \A q \in answers[c] : Flow(q, c)

\* The caller has the first chunks, its queue holds the next ones, and "done"
\* stands only behind the last chunk of a finished answer.
InOrder(q) ==
  /\ \A i \in DOMAIN got[q] : got[q][i] = i
  /\ Len(got[q]) <= Len(made[q])
  /\ \A i \in DOMAIN queue[q] :
       /\ queue[q][i].type = "chunk" =>
            queue[q][i].n = Len(got[q]) + i /\ Len(got[q]) + i <= Len(made[q])
       /\ queue[q][i].type = "done" =>
            task[q] = "done" /\ Len(made[q]) = Chunks /\ Len(got[q]) + i - 1 = Chunks

QueueInOrder == \A q \in Reqs : req[q] \in Waiting => InOrder(q)

\* An answer on its way from the task that makes it to the caller that reads it.
FlowInv == Books /\ AnswersFlow /\ QueueInOrder /\ NoTruncatedCompletion

\* KyokBridge turns every chunk into a dict before it sends it (_to_chunk_dict):
\* a chunk that is no object never comes from it.
ObjectChunks == "shapeless" \notin ChunkKinds

\* The pipe carries frames.
LEMMA PipeType ==
  ASSUME TypeOK, TypeOK', NEW c \in Conns
  PROVE  /\ Pipe(c) \in Seq(UpFrames) /\ Pipe(c)' \in Seq(UpFrames)
         /\ up[c] \in Seq(UpFrames) /\ up[c] \o <<>> = up[c] /\ outbound[c] \in Seq(UpFrames)
<1>1. up[c] \in Seq(UpFrames) /\ outbound[c] \in Seq(UpFrames)
  BY DEF TypeOK
<1>2. up'[c] \in Seq(UpFrames) /\ outbound'[c] \in Seq(UpFrames)
  BY DEF TypeOK
<1>3. Pipe(c)' \in Seq(UpFrames)
  BY <1>2, ConcatProperties DEF Pipe
<1> QED
  BY <1>1, <1>3, ConcatProperties, ConcatEmptySeq DEF Pipe

\* One more in the queue, or one from the queue to the caller.
LEMMA Sums ==
  /\ \A x, y, z \in Nat : z = y + 1 => x + z = (x + y) + 1
  /\ \A x, y, v, z \in Nat : v = x + 1 /\ z = y - 1 => v + z = x + y
  OBVIOUS

\* What was told is still told.
Keeps(s, t, q) ==
  /\ Silent(s, q) => Silent(t, q)
  /\ \A b, m, st : Tells(s, q, b, m, st) => Tells(t, q, b, m, st)

\* A completion's answer flows on if its queue and its caller are left alone,
\* its task has not ended before, and the pipe keeps what it tells of it.
LEMMA FlowKept ==
  ASSUME TypeOK, TypeOK', NEW c \in Conns, NEW q \in Reqs, Flow(q, c),
         queue'[q] = queue[q], got'[q] = got[q], made'[q] = made[q],
         task'[q] = task[q] \/ task[q] \notin {"done", "broken"},
         Keeps(Pipe(c), Pipe(c)', q),
         Live(c)' /\ task'[q] = "running" =>
           \/ made[q] = <<>>
           \/ /\ Live(c) /\ task[q] = "running"
              /\ \A b, m : CaughtUp(Pipe(c), q, b, m) => CaughtUp(Pipe(c)', q, b, m)
  PROVE  Flow(q, c)'
<1> DEFINE b == Taken(q)
           m == Len(made[q])
<1>1. b \in Nat /\ m \in Nat /\ Pipe(c)' \in Seq(UpFrames)
  BY PipeType, LenProperties DEF Taken, TypeOK
<1>2. Taken(q)' = Taken(q) /\ Len(made[q])' = m /\ OnlyChunks(q)' = OnlyChunks(q)
  BY DEF Taken, OnlyChunks
<1>3. CASE ~ OnlyChunks(q)
  BY <1>2, <1>3 DEF Flow, Keeps
<1>4. CASE OnlyChunks(q)
  <2>1. b <= m /\ Tells(Pipe(c)', q, b, m, task[q])
    BY <1>4 DEF Flow, Keeps
  <2>2. Tells(Pipe(c)', q, b, m, task'[q])
    <3>1. CASE task'[q] = task[q]
      BY <2>1, <3>1
    <3>2. CASE task[q] \notin {"done", "broken"}
      BY <1>1, <2>1, <3>2, TellsOn
    <3> QED
      BY <3>1, <3>2
  <2>3. ASSUME Live(c)', task'[q] = "running"
        PROVE  CaughtUp(Pipe(c)', q, b, m)
    <3>1. CASE made[q] = <<>>
      <4>1. m = 0
        BY <3>1, EmptySeq
      <4> QED
        BY <1>1, <4>1 DEF CaughtUp
    <3>2. CASE made[q] # <<>>
      BY <1>4, <2>3, <3>2 DEF Flow
    <3> QED
      BY <3>1, <3>2
  <2> HIDE DEF b, m
  <2>4. /\ Taken(q)' <= Len(made[q])'
        /\ Tells(Pipe(c)', q, Taken(q)', Len(made[q])', task'[q])
        /\ Live(c)' /\ task'[q] = "running" => CaughtUp(Pipe(c)', q, Taken(q)', Len(made[q])')
    BY <1>2, <2>1, <2>2, <2>3 DEF b, m
  <2> QED
    BY <1>2, <1>4, <2>4 DEF Flow
<1> QED
  BY <1>3, <1>4

\* Steps that leave the sockets, the bridge's queue and the tasks alone leave
\* every answer flowing whose queue and caller they leave alone.
LEMMA FlowStill ==
  ASSUME FlowInv, TypeOK', UNCHANGED <<up, sock, bridge, bconn, outbound, task, made>>,
         NEW c \in Conns, NEW q \in answers[c], queue'[q] = queue[q], got'[q] = got[q]
  PROVE  Flow(q, c)'
<1>1. TypeOK /\ q \in Reqs /\ Flow(q, c)
  BY DEF FlowInv, AnswersFlow, Books, TypeOK
<1>2. Pipe(c)' = Pipe(c) /\ Live(c)' = Live(c)
  BY DEF Pipe, Live
<1> QED
  BY <1>1, <1>2, FlowKept DEF Keeps

\* What stands in front of the pipe goes first, and what stands behind it last.
LEMMA ConcatEnds ==
  ASSUME NEW S, NEW u \in Seq(S), NEW o \in Seq(S)
  PROVE  /\ u # <<>> => /\ u \o o # <<>> /\ Head(u \o o) = Head(u)
                        /\ Tail(u \o o) = Tail(u) \o o
         /\ \A f \in S : u \o Append(o, f) = Append(u \o o, f)
         /\ o # <<>> => Append(u, Head(o)) \o Tail(o) = u \o o
<1>1. Len(u) \in Nat /\ Len(o) \in Nat
  BY LenProperties
<1>2. /\ u \o o \in Seq(S) /\ Len(u \o o) = Len(u) + Len(o)
      /\ \A i \in 1 .. Len(u) + Len(o) : (u \o o)[i] = IF i <= Len(u) THEN u[i] ELSE o[i - Len(u)]
  BY ConcatProperties
<1>3. ASSUME u # <<>>
      PROVE  /\ u \o o # <<>> /\ Head(u \o o) = Head(u)
             /\ Tail(u \o o) = Tail(u) \o o
  <2>1. Len(u) > 0 /\ Head(u) = u[1]
    BY <1>1, <1>3, EmptySeq
  <2>2. u \o o # <<>> /\ Head(u \o o) = (u \o o)[1]
    BY <1>1, <1>2, <2>1, EmptySeq
  <2>3. (u \o o)[1] = u[1]
    BY <1>1, <1>2, <2>1
  <2>4. /\ Tail(u) \in Seq(S) /\ Len(Tail(u)) = Len(u) - 1
        /\ \A i \in 1 .. Len(u) - 1 : Tail(u)[i] = u[i + 1]
    BY <1>3, HeadTailProperties
  <2>5. /\ Tail(u \o o) \in Seq(S) /\ Len(Tail(u \o o)) = Len(u) + Len(o) - 1
        /\ \A i \in 1 .. Len(u) + Len(o) - 1 : Tail(u \o o)[i] = (u \o o)[i + 1]
    BY <1>2, <2>2, HeadTailProperties
  <2>6. /\ Tail(u) \o o \in Seq(S) /\ Len(Tail(u) \o o) = Len(u) - 1 + Len(o)
        /\ \A i \in 1 .. Len(u) - 1 + Len(o) :
             (Tail(u) \o o)[i] = IF i <= Len(u) - 1 THEN Tail(u)[i] ELSE o[i - (Len(u) - 1)]
    BY <2>4, ConcatProperties
  <2>7. ASSUME NEW i \in 1 .. Len(u) - 1 + Len(o)
        PROVE  Tail(u \o o)[i] = (Tail(u) \o o)[i]
    <3>1. i + 1 \in 1 .. Len(u) + Len(o) /\ i \in 1 .. Len(u) + Len(o) - 1
      BY <1>1
    <3>2. Tail(u \o o)[i] = IF i + 1 <= Len(u) THEN u[i + 1] ELSE o[i + 1 - Len(u)]
      BY <1>2, <2>5, <3>1
    <3>3. CASE i <= Len(u) - 1
      BY <1>1, <2>4, <2>6, <3>2, <3>3
    <3>4. CASE i > Len(u) - 1
      <4>1. i + 1 - Len(u) = i - (Len(u) - 1)
        BY <1>1
      <4> QED
        BY <1>1, <2>6, <3>2, <3>4, <4>1
    <3> QED
      BY <1>1, <3>3, <3>4
  <2>8. Tail(u \o o) = Tail(u) \o o
    BY <1>1, <2>5, <2>6, <2>7, SeqEqual
  <2> QED
    BY <2>1, <2>2, <2>3, <2>8
<1>4. ASSUME NEW f \in S
      PROVE  u \o Append(o, f) = Append(u \o o, f)
  <2>1. <<f>> \in Seq(S)
    OBVIOUS
  <2>2. Append(o, f) = o \o <<f>> /\ Append(u \o o, f) = (u \o o) \o <<f>>
    BY <1>2, AppendIsConcat
  <2> QED
    BY <2>1, <2>2, ConcatAssociative
<1>5. ASSUME o # <<>>
      PROVE  Append(u, Head(o)) \o Tail(o) = u \o o
  <2>1. Head(o) \in S /\ Tail(o) \in Seq(S) /\ <<Head(o)>> \in Seq(S)
    BY <1>5, HeadTailProperties
  <2>2. Append(u, Head(o)) = u \o <<Head(o)>>
    BY <2>1, AppendIsConcat
  <2>3. <<Head(o)>> \o Tail(o) = o
    <3>1. Len(o) >= 1 /\ 1 \in 1 .. Len(o) /\ Len(o) \in 1 .. Len(o)
      BY <1>1, <1>5, EmptySeq
    <3>2. SubSeq(o, 1, Len(o)) = <<o[1]>> \o SubSeq(o, 2, Len(o))
      BY <3>1, SubSeqRecursiveFirst
    <3> QED
      BY <1>5, <3>2, SubSeqFull, TailIsSubSeq
  <2> QED
    BY <2>1, <2>2, <2>3, ConcatAssociative
<1> QED
  BY <1>3, <1>4, <1>5

\* What the pipe is made of, and what is left of it when its end is lost.
LEMMA ConcatParts ==
  ASSUME NEW S, NEW u \in Seq(S), NEW o \in Seq(S)
  PROVE  /\ \A i \in DOMAIN (u \o o) : \/ i \in DOMAIN u /\ (u \o o)[i] = u[i]
                                     \/ \E j \in DOMAIN o : (u \o o)[i] = o[j]
         /\ \A n \in 0 .. Len(u) : n \in 0 .. Len(u \o o) /\ SubSeq(u \o o, 1, n) = SubSeq(u, 1, n)
<1>1. /\ Len(u) \in Nat /\ Len(o) \in Nat /\ u \o o \in Seq(S) /\ Len(u \o o) = Len(u) + Len(o)
      /\ DOMAIN u = 1 .. Len(u) /\ DOMAIN o = 1 .. Len(o) /\ DOMAIN (u \o o) = 1 .. Len(u \o o)
  BY ConcatProperties, LenProperties
<1>2. \A i \in 1 .. Len(u) + Len(o) : (u \o o)[i] = IF i <= Len(u) THEN u[i] ELSE o[i - Len(u)]
  BY ConcatProperties
<1>3. ASSUME NEW i \in DOMAIN (u \o o)
      PROVE  \/ i \in DOMAIN u /\ (u \o o)[i] = u[i]
             \/ \E j \in DOMAIN o : (u \o o)[i] = o[j]
  <2>1. CASE i <= Len(u)
    BY <1>1, <1>2, <2>1
  <2>2. CASE ~ (i <= Len(u))
    BY <1>1, <1>2, <2>2
  <2> QED
    BY <2>1, <2>2
<1>4. ASSUME NEW n \in 0 .. Len(u)
      PROVE  n \in 0 .. Len(u \o o) /\ SubSeq(u \o o, 1, n) = SubSeq(u, 1, n)
  <2>1. n \in 0 .. Len(u \o o) /\ \A j \in 1 .. n : (u \o o)[j] = u[j]
    BY <1>1, <1>2
  <2>2. /\ SubSeq(u, 1, n) \in Seq(S) /\ DOMAIN SubSeq(u, 1, n) = 1 .. n
        /\ \A j \in 1 .. n : SubSeq(u, 1, n)[j] = u[j]
    BY QueueFacts, ElemFacts
  <2>3. /\ SubSeq(u \o o, 1, n) \in Seq(S) /\ DOMAIN SubSeq(u \o o, 1, n) = 1 .. n
        /\ \A j \in 1 .. n : SubSeq(u \o o, 1, n)[j] = (u \o o)[j]
    BY <1>1, <2>1, QueueFacts, ElemFacts
  <2>4. Len(SubSeq(u, 1, n)) = n /\ Len(SubSeq(u \o o, 1, n)) = n
    BY <2>2, <2>3, LenProperties
  <2> QED
    BY <2>1, <2>2, <2>3, <2>4, SeqEqual
<1> QED
  BY <1>3, <1>4

\* The next frame the gateway reads for an answer is the one that is due.
LEMMA NextIsDue ==
  ASSUME FlowInv, TypeOK', NEW c \in Conns, up[c] # <<>>, Head(up[c]).req \in answers[c]
  PROVE  LET f == Head(up[c])
             q == f.req
         IN  /\ OnlyChunks(q) /\ Taken(q) \in Nat
             /\ Pipe(c) # <<>> /\ Head(Pipe(c)) = f
             /\ f.type = "chunk" =>
                  /\ f.n = Taken(q) + 1 /\ Taken(q) + 1 <= Len(made[q])
                  /\ Tells(Tail(Pipe(c)), q, Taken(q) + 1, Len(made[q]), task[q])
                  /\ Live(c) /\ task[q] = "running" =>
                       CaughtUp(Tail(Pipe(c)), q, Taken(q) + 1, Len(made[q]))
             /\ f.type # "chunk" => Silent(Tail(Pipe(c)), q)
             /\ f.type = "done" => task[q] = "done" /\ Len(made[q]) = Chunks /\ Taken(q) = Chunks
             /\ f.type = "error" => task[q] = "broken"
<1> DEFINE f == Head(up[c])
           q == f.req
           s == Pipe(c)
           b == Taken(q)
           m == Len(made[q])
<1>1. TypeOK /\ q \in Reqs /\ Flow(q, c) /\ s \in Seq(UpFrames)
  BY PipeType DEF FlowInv, AnswersFlow, Books, TypeOK
<1>2. b \in Nat /\ m \in Nat
  BY <1>1, LenProperties DEF Taken, TypeOK
<1>3. s # <<>> /\ Head(s) = f
  BY <1>1, PipeType, ConcatEnds DEF Pipe
<1>4. OnlyChunks(q)
  <2>1. 1 \in DOMAIN s /\ s[1].req = q
    BY <1>1, <1>3, ElemFacts
  <2> QED
    BY <1>1, <2>1 DEF Flow, Silent
<1>5. /\ b <= m /\ Tells(s, q, b, m, task[q])
      /\ Live(c) /\ task[q] = "running" => CaughtUp(s, q, b, m)
  BY <1>1, <1>4 DEF Flow
<1> HIDE DEF f, q, s, b, m
<1>6. Head(s).req = q
  BY <1>3 DEF q
<1>7. /\ f.type = "chunk" =>
           /\ f.n = b + 1 /\ b + 1 <= m
           /\ Tells(Tail(s), q, b + 1, m, task[q])
           /\ CaughtUp(s, q, b, m) => CaughtUp(Tail(s), q, b + 1, m)
      /\ f.type # "chunk" => Silent(Tail(s), q)
      /\ f.type = "done" => task[q] = "done" /\ m = Chunks /\ m <= b
      /\ f.type = "error" => task[q] = "broken"
  BY <1>1, <1>2, <1>3, <1>5, <1>6, TellsTaken
<1>8. f.type = "done" => b = Chunks
  BY <1>2, <1>5, <1>7
<1> QED
  BY <1>2, <1>3, <1>4, <1>5, <1>7, <1>8 DEF f, q, s, b, m

\* The gateway reads a frame and every answer flows on.
LEMMA ReadFlow ==
  ASSUME ObjectChunks, FlowInv, TypeOK', NEW c \in Conns, ReadChunk(c) \/ ReadEnd(c)
  PROVE  AnswersFlow'
<1> DEFINE f == Head(up[c])
<1>1. TypeOK /\ OwnTable
  BY DEF FlowInv, Books
<1>2. /\ up[c] # <<>> /\ f \in UpFrames /\ f.kind # "shapeless"
      /\ up' = [up EXCEPT ![c] = Tail(@)]
      /\ UNCHANGED <<coreVars, link, answers, bound, sock, strays, bridgeVars, taskVars>>
  BY <1>1, ReadFacts DEF UpFrames, ObjectChunks
<1>3. /\ f.req \in answers[c] =>
           \E item \in Items : /\ item.type = f.type
                               /\ queue' = [queue EXCEPT ![f.req] = Append(@, item)]
      /\ f.req \notin answers[c] => queue' = queue
  BY <1>1, <1>2, ReadFacts
<1>4. Pipe(c) # <<>> /\ Head(Pipe(c)) = f /\ Pipe(c)' = Tail(Pipe(c))
  <2>1. up'[c] = Tail(up[c]) /\ Live(c)' = Live(c) /\ outbound'[c] = outbound[c]
    BY <1>1, <1>2 DEF Live, bridgeVars, TypeOK
  <2>2. up[c] \in Seq(UpFrames) /\ outbound[c] \in Seq(UpFrames)
    BY <1>1, PipeType
  <2>3. /\ up[c] \o outbound[c] # <<>> /\ Head(up[c] \o outbound[c]) = f
        /\ Tail(up[c] \o outbound[c]) = Tail(up[c]) \o outbound[c]
    BY <1>2, <2>2, ConcatEnds
  <2> HIDE DEF f
  <2>4. CASE Live(c)
    BY <2>1, <2>3, <2>4 DEF Pipe
  <2>5. CASE ~ Live(c)
    BY <1>2, <2>1, <2>5 DEF Pipe, f
  <2> QED
    BY <2>4, <2>5
<1>5. \A d \in Conns : Live(d)' = Live(d) /\ (d # c => Pipe(d)' = Pipe(d))
  BY <1>1, <1>2 DEF Pipe, Live, bridgeVars, TypeOK
<1>6. \A x \in Reqs : got'[x] = got[x] /\ made'[x] = made[x] /\ task'[x] = task[x]
  BY <1>2 DEF coreVars, taskVars
<1> SUFFICES ASSUME NEW d \in Conns, NEW q \in answers[d]
             PROVE  Flow(q, d)'
  BY <1>2 DEF AnswersFlow
<1>7. q \in Reqs /\ Flow(q, d) /\ bound[q] = d /\ Pipe(d) \in Seq(UpFrames)
  BY <1>1, PipeType DEF FlowInv, AnswersFlow, TypeOK, OwnTable
<1> HIDE DEF f
<1>8. CASE d # c
  <2>1. q \notin answers[c]
    BY <1>1, <1>7, <1>8 DEF OwnTable
  <2>2. queue'[q] = queue[q]
    BY <1>1, <1>3, <1>7, <2>1 DEF TypeOK
  <2> QED
    BY <1>1, <1>5, <1>6, <1>7, <1>8, <2>2, FlowKept DEF Keeps
<1>9. CASE d = c /\ q # f.req
  <2>1. queue'[q] = queue[q]
    BY <1>1, <1>3, <1>7, <1>9 DEF TypeOK
  <2>2. /\ Keeps(Pipe(d), Pipe(d)', q)
        /\ \A b, m : CaughtUp(Pipe(d), q, b, m) => CaughtUp(Pipe(d)', q, b, m)
    BY <1>4, <1>7, <1>9, TellsSameAhead DEF Keeps
  <2> QED
    BY <1>1, <1>5, <1>6, <1>7, <2>1, <2>2, FlowKept
<1>10. CASE d = c /\ q = f.req
  <2> DEFINE b == Taken(q)
             m == Len(made[q])
             t == Tail(Pipe(c))
  <2>1. /\ OnlyChunks(q) /\ b \in Nat
        /\ f.type = "chunk" =>
             /\ b + 1 <= m
             /\ Tells(t, q, b + 1, m, task[q])
             /\ Live(c) /\ task[q] = "running" => CaughtUp(t, q, b + 1, m)
        /\ f.type # "chunk" => Silent(t, q)
        /\ f.type = "done" => task[q] = "done"
        /\ f.type = "error" => task[q] = "broken"
    BY <1>2, <1>10, NextIsDue DEF f
  <2>2. PICK item \in Items : item.type = f.type /\ queue'[q] = Append(queue[q], item)
    BY <1>1, <1>3, <1>7, <1>10 DEF TypeOK
  <2>3. /\ DOMAIN queue[q] = 1 .. Len(queue[q]) /\ Len(queue[q]) \in Nat /\ Len(got[q]) \in Nat
        /\ DOMAIN queue'[q] = 1 .. Len(queue[q]) + 1 /\ Len(queue'[q]) = Len(queue[q]) + 1
        /\ \A i \in 1 .. Len(queue[q]) : queue'[q][i] = queue[q][i]
        /\ queue'[q][Len(queue[q]) + 1] = item
    <3>1. queue[q] \in Seq(Items) /\ got[q] \in Seq(0 .. Chunks)
      BY <1>1, <1>7 DEF TypeOK
    <3> QED
      BY <2>2, <3>1, ElemFacts, AppendProperties
  <2>4. Taken(q)' = b + 1 /\ Len(made[q])' = m /\ task'[q] = task[q] /\ Pipe(d)' = t /\ Live(d)' = Live(c)
    <3>1. Taken(q)' = Len(got[q]) + Len(queue'[q])
      BY <1>6, <1>7 DEF Taken
    <3>2. Len(got[q]) + Len(queue'[q]) = (Len(got[q]) + Len(queue[q])) + 1
      <4>1. Len(got[q]) \in Nat /\ Len(queue[q]) \in Nat /\ Len(queue'[q]) \in Nat
        BY <2>3
      <4> QED
        BY <2>3, <4>1, Sums
    <3>3. Taken(q)' = Taken(q) + 1
      BY <3>1, <3>2 DEF Taken
    <3> QED
      BY <1>4, <1>5, <1>6, <1>7, <1>10, <3>3
  <2> HIDE DEF b, m, t
  <2>5. CASE f.type = "chunk"
    <3>1. OnlyChunks(q)'
      BY <2>1, <2>2, <2>3, <2>5 DEF OnlyChunks
    <3> QED
      BY <1>10, <2>1, <2>4, <2>5, <3>1 DEF Flow
  <2>6. CASE f.type # "chunk"
    <3>1. ~ OnlyChunks(q)'
      BY <2>2, <2>3, <2>6 DEF OnlyChunks
    <3>2. f.type \in {"done", "error"}
      BY <1>2, <2>6 DEF UpFrames
    <3> QED
      BY <1>10, <2>1, <2>4, <2>6, <3>1, <3>2 DEF Flow
  <2> QED
    BY <2>5, <2>6
<1> QED
  BY <1>8, <1>9, <1>10

\* A task goes on or ends and every answer flows on: what it queues on the
\* connection that serves it comes last in that connection's pipe.
LEMMA TaskFlow ==
  ASSUME FlowInv, TypeOK', NEW r \in Reqs, EndTask(r) \/ \E k \in ChunkKinds : StreamChunk(r, k)
  PROVE  AnswersFlow'
<1>1. TypeOK /\ OwnTable
  BY DEF FlowInv, Books
<1>2. \E f \in UpFrames :
        /\ f.req = r /\ Queue(r, f)
        /\ \/ /\ Numbered(f, r, Len(made[r]) + 1) /\ task' = task
              /\ Len(made'[r]) = Len(made[r]) + 1 /\ \A x \in Reqs : x # r => made'[x] = made[x]
           \/ /\ f.type = "done" /\ Len(made[r]) = Chunks /\ task' = [task EXCEPT ![r] = "done"] /\ made' = made
           \/ /\ f.type = "error" /\ task' = [task EXCEPT ![r] = "broken"] /\ made' = made
  <2>1. ASSUME NEW k \in ChunkKinds, StreamChunk(r, k)
        PROVE  LET f == Frame("chunk", r, Len(made[r]) + 1, k)
               IN  /\ f \in UpFrames /\ f.req = r /\ Queue(r, f)
                   /\ Numbered(f, r, Len(made[r]) + 1) /\ task' = task
                   /\ Len(made'[r]) = Len(made[r]) + 1 /\ \A x \in Reqs : x # r => made'[x] = made[x]
    <3>1. Len(made[r]) + 1 \in 0 .. Chunks
      BY <1>1, <2>1, LenProperties, ConstantsAssumption DEF ConstantsAssumption, StreamChunk, TypeOK
    <3>2. made'[r] = Append(made[r], k) /\ made[r] \in Seq(ChunkKinds)
      BY <1>1, <2>1 DEF StreamChunk, TypeOK
    <3>3. Len(made'[r]) = Len(made[r]) + 1
      BY <3>2, AppendProperties
    <3> QED
      BY <1>1, <2>1, <3>1, <3>3 DEF StreamChunk, TypeOK, Frame, UpFrames, Numbered
  <2>2. ASSUME NEW type \in {"done", "error"}
        PROVE  Frame(type, r, 0, "ok") \in UpFrames /\ Frame(type, r, 0, "ok").req = r /\ Frame(type, r, 0, "ok").type = type
    BY ConstantsAssumption DEF ConstantsAssumption, Frame, UpFrames
  <2>3. CASE EndTask(r)
    <3>1. CASE Len(made[r]) = Chunks /\ task' = [task EXCEPT ![r] = "done"] /\ Queue(r, Frame("done", r, 0, "ok"))
      BY <2>2, <2>3, <3>1 DEF EndTask
    <3>2. CASE task' = [task EXCEPT ![r] = "broken"] /\ Queue(r, Frame("error", r, 0, "ok"))
      BY <2>2, <2>3, <3>2 DEF EndTask
    <3> QED
      BY <2>3, <3>1, <3>2 DEF EndTask
  <2> QED
    BY <2>1, <2>3
<1>3. PICK f \in UpFrames :
        /\ f.req = r /\ Queue(r, f)
        /\ \/ /\ Numbered(f, r, Len(made[r]) + 1) /\ task' = task
              /\ Len(made'[r]) = Len(made[r]) + 1 /\ \A x \in Reqs : x # r => made'[x] = made[x]
           \/ /\ f.type = "done" /\ Len(made[r]) = Chunks /\ task' = [task EXCEPT ![r] = "done"] /\ made' = made
           \/ /\ f.type = "error" /\ task' = [task EXCEPT ![r] = "broken"] /\ made' = made
  BY <1>2
<1>4. /\ task[r] = "running"
      /\ UNCHANGED <<current, req, got, link, answers, bound, queue, up, sock, bridge, bconn>>
  BY DEF EndTask, StreamChunk, coreVars, linkVars, netVars
<1>5. \A x \in Reqs : x # r => task'[x] = task[x] /\ made'[x] = made[x]
  BY <1>1, <1>3 DEF TypeOK
<1> SUFFICES ASSUME NEW d \in Conns, NEW q \in answers[d]
             PROVE  Flow(q, d)'
  BY <1>4 DEF AnswersFlow
<1>6. q \in Reqs /\ Flow(q, d) /\ bound[q] = d /\ Pipe(d) \in Seq(UpFrames) /\ Live(d)' = Live(d)
  BY <1>1, <1>4, PipeType DEF FlowInv, AnswersFlow, TypeOK, OwnTable, Live
<1>7. Pipe(d)' = IF Live(d) /\ bound[r] = d THEN Append(Pipe(d), f) ELSE Pipe(d)
  <2>1. CASE Live(d) /\ bound[r] = d
    <3>1. outbound'[d] = Append(outbound[d], f) /\ up'[d] = up[d]
      BY <1>1, <1>3, <1>4, <2>1 DEF Queue, TypeOK
    <3>2. up[d] \in Seq(UpFrames) /\ outbound[d] \in Seq(UpFrames) /\ f \in UpFrames
      BY <1>1, <1>3, PipeType
    <3>3. up[d] \o Append(outbound[d], f) = Append(up[d] \o outbound[d], f)
      <4> DEFINE u == up[d]
                 o == outbound[d]
      <4>1. u \in Seq(UpFrames) /\ o \in Seq(UpFrames)
        BY <3>2
      <4> HIDE DEF u, o
      <4>2. u \o Append(o, f) = Append(u \o o, f)
        BY <3>2, <4>1, ConcatEnds
      <4> QED
        BY <4>2 DEF u, o
    <3> QED
      BY <1>6, <2>1, <3>1, <3>3 DEF Pipe
  <2>2. CASE ~ (Live(d) /\ bound[r] = d)
    <3>1. ~ Live(d) \/ outbound'[d] = outbound[d]
      BY <1>1, <1>3, <2>2 DEF Queue, TypeOK
    <3> QED
      BY <1>4, <1>6, <2>2, <3>1 DEF Pipe
  <2> QED
    BY <2>1, <2>2
<1>8. CASE q # r
  <2>1. /\ Keeps(Pipe(d), Pipe(d)', q)
        /\ \A b, m : CaughtUp(Pipe(d), q, b, m) => CaughtUp(Pipe(d)', q, b, m)
    BY <1>3, <1>6, <1>7, <1>8, TellsSameBehind DEF Keeps
  <2> QED
    BY <1>1, <1>4, <1>5, <1>6, <1>8, <2>1, FlowKept
<1>9. CASE q = r
  <2> DEFINE b == Taken(q)
             m == Len(made[q])
             s == Pipe(d)
  <2>1. /\ OnlyChunks(q) /\ b \in Nat /\ m \in Nat /\ b <= m
        /\ Tells(s, q, b, m, "running")
        /\ Live(d) => CaughtUp(s, q, b, m)
    <3>1. b \in Nat /\ m \in Nat
      BY <1>1, <1>6, LenProperties DEF Taken, TypeOK
    <3> QED
      BY <1>4, <1>6, <1>9, <3>1 DEF Flow
  <2>2. Taken(q)' = b /\ OnlyChunks(q)'
    BY <1>4, <2>1 DEF Taken, OnlyChunks
  <2>3. \/ Numbered(f, q, m + 1) /\ Len(made[q])' = m + 1 /\ task'[q] = "running"
        \/ f.type = "done" /\ m = Chunks /\ Len(made[q])' = m /\ task'[q] = "done"
        \/ f.type = "error" /\ Len(made[q])' = m /\ task'[q] = "broken"
    BY <1>1, <1>3, <1>4, <1>9 DEF TypeOK
  <2>4. s \in Seq(UpFrames) /\ f.req = q
    BY <1>3, <1>6, <1>9
  <2>5. Pipe(d)' = IF Live(d) THEN Append(s, f) ELSE s
    BY <1>6, <1>7, <1>9
  <2> HIDE DEF b, m, s
  <2>6. CASE Live(d)
    <3>1. /\ Numbered(f, q, m + 1) =>
               Tells(Append(s, f), q, b, m + 1, "running") /\ CaughtUp(Append(s, f), q, b, m + 1)
          /\ f.type = "done" /\ m = Chunks => Tells(Append(s, f), q, b, m, "done")
          /\ f.type = "error" => Tells(Append(s, f), q, b, m, "broken")
      BY <2>1, <2>4, <2>6, TellsNext
    <3>2. Taken(q)' <= Len(made[q])'
      BY <2>1, <2>2, <2>3
    <3>3. /\ Tells(Append(s, f), q, b, Len(made[q])', task'[q])
          /\ task'[q] = "running" => CaughtUp(Append(s, f), q, b, Len(made[q])')
      BY <2>3, <3>1
    <3> QED
      BY <2>2, <2>5, <2>6, <3>2, <3>3 DEF Flow
  <2>7. CASE ~ Live(d)
    <3>1. Taken(q)' <= Len(made[q])' /\ m <= Len(made[q])' /\ Len(made[q])' \in Nat
      BY <2>1, <2>2, <2>3
    <3>2. Tells(s, q, b, Len(made[q])', task'[q])
      <4>1. "running" \notin {"done", "broken"}
        OBVIOUS
      <4> QED
        BY <2>1, <2>4, <3>1, <4>1, TellsOn
    <3> QED
      BY <1>6, <2>2, <2>5, <2>7, <3>1, <3>2 DEF Flow
  <2> QED
    BY <2>6, <2>7
<1> QED
  BY <1>8, <1>9

\* A frame is written, another's frame comes in, or a socket dies, and every
\* answer that may still come flows on.
LEMMA SocketFlow ==
  ASSUME FlowInv, TypeOK', NEW c \in Conns,
         \/ WriteFrame \/ Drop(c) \/ AttachRefused(c)
         \/ \E r \in Reqs, type \in {"chunk", "done"} : StrayFrame(c, r, type)
  PROVE  AnswersFlow'
<1>1. TypeOK /\ OwnTable
  BY DEF FlowInv, Books
<1>2. UNCHANGED <<got, answers, bound, queue, bridge, bconn, task, made>>
  BY DEF WriteFrame, Drop, AttachRefused, StrayFrame, coreVars, linkVars, bridgeVars, taskVars
<1> SUFFICES ASSUME NEW d \in Conns, NEW q \in answers[d]
             PROVE  Flow(q, d)'
  BY <1>2 DEF AnswersFlow
<1>3. /\ q \in Reqs /\ Flow(q, d) /\ bound[q] = d /\ Pipe(d) \in Seq(UpFrames)
      /\ up[d] \in Seq(UpFrames) /\ outbound[d] \in Seq(UpFrames)
  BY <1>1, <1>2, PipeType DEF FlowInv, AnswersFlow, TypeOK, OwnTable
<1>4. ASSUME Keeps(Pipe(d), Pipe(d)', q),
             Live(d)' => Live(d) /\ \A b, m : CaughtUp(Pipe(d), q, b, m) => CaughtUp(Pipe(d)', q, b, m)
      PROVE  Flow(q, d)'
  BY <1>1, <1>2, <1>3, <1>4, FlowKept
<1>5. ASSUME Pipe(d)' = Pipe(d), Live(d)' => Live(d)
      PROVE  Flow(q, d)'
  BY <1>4, <1>5 DEF Keeps
<1>6. CASE WriteFrame
  <2>1. /\ Live(bconn) /\ outbound[bconn] # <<>> /\ sock' = sock
        /\ outbound' = [outbound EXCEPT ![bconn] = Tail(@)]
        /\ up' = [up EXCEPT ![bconn] = Append(@, Head(outbound[bconn]))]
    BY <1>6 DEF WriteFrame, Live
  <2>2. Live(d)' = Live(d)
    BY <1>2, <2>1 DEF Live
  <2>3. CASE d = bconn
    <3>1. up'[d] = Append(up[d], Head(outbound[d])) /\ outbound'[d] = Tail(outbound[d])
      BY <1>1, <2>1, <2>3 DEF TypeOK
    <3>2. Append(up[d], Head(outbound[d])) \o Tail(outbound[d]) = up[d] \o outbound[d]
      <4>1. PICK u \in Seq(UpFrames), o \in Seq(UpFrames) : u = up[d] /\ o = outbound[d]
        BY <1>3
      <4>2. o # <<>>
        BY <2>1, <2>3, <4>1
      <4>3. Append(u, Head(o)) \o Tail(o) = u \o o
        BY <4>2, ConcatEnds
      <4> QED
        BY <4>1, <4>3
    <3> QED
      BY <1>5, <2>1, <2>2, <2>3, <3>1, <3>2 DEF Pipe
  <2>4. CASE d # bconn
    <3>1. up'[d] = up[d] /\ ~ Live(d)
      BY <1>1, <2>1, <2>4 DEF TypeOK, Live
    <3> QED
      BY <1>5, <2>2, <3>1 DEF Pipe
  <2> QED
    BY <2>3, <2>4
<1>7. ASSUME d # c, up'[d] = up[d], sock'[d] = sock[d], outbound' = outbound
      PROVE  Flow(q, d)'
  BY <1>2, <1>5, <1>7 DEF Pipe, Live
<1>8. ASSUME d = c, sock'[d] = "dead", NEW i \in 0 .. Len(up[d]), up'[d] = SubSeq(up[d], 1, i)
      PROVE  Flow(q, d)'
  <2>1. ~ Live(d)' /\ Pipe(d)' = SubSeq(up[d], 1, i)
    BY <1>8 DEF Live, Pipe
  <2>2. SubSeq(up[d], 1, i) = SubSeq(Pipe(d), 1, i) /\ i \in 0 .. Len(Pipe(d))
    <3>1. CASE Live(d)
      <4>1. PICK u \in Seq(UpFrames), o \in Seq(UpFrames) : u = up[d] /\ o = outbound[d]
        BY <1>3
      <4>2. i \in 0 .. Len(u)
        BY <1>8, <4>1
      <4>3. i \in 0 .. Len(u \o o) /\ SubSeq(u \o o, 1, i) = SubSeq(u, 1, i)
        BY <4>2, ConcatParts
      <4> QED
        BY <3>1, <4>1, <4>3 DEF Pipe
    <3>2. CASE ~ Live(d)
      BY <3>2 DEF Pipe
    <3> QED
      BY <3>1, <3>2
  <2>3. Keeps(Pipe(d), SubSeq(Pipe(d), 1, i), q)
    BY <1>3, <2>2, TellsPrefix DEF Keeps
  <2> QED
    BY <1>4, <2>1, <2>2, <2>3
<1>9. CASE Drop(c)
  <2>1. outbound' = outbound /\ sock' = [sock EXCEPT ![c] = "dead"]
    BY <1>9 DEF Drop, bridgeVars
  <2>2. PICK i \in 0 .. Len(up[c]) : up' = [up EXCEPT ![c] = SubSeq(@, 1, i)]
    BY <1>9 DEF Drop
  <2>3. CASE d = c
    <3>1. i \in 0 .. Len(up[d]) /\ up'[d] = SubSeq(up[d], 1, i) /\ sock'[d] = "dead"
      BY <1>1, <2>1, <2>2, <2>3 DEF TypeOK
    <3> QED
      BY <1>8, <2>3, <3>1
  <2>4. CASE d # c
    BY <1>1, <1>7, <2>1, <2>2, <2>4 DEF TypeOK
  <2> QED
    BY <2>3, <2>4
<1>10. CASE AttachRefused(c)
  <2>1. outbound' = outbound /\ sock' = [sock EXCEPT ![c] = "dead"] /\ up' = [up EXCEPT ![c] = <<>>]
    BY <1>10 DEF AttachRefused, bridgeVars
  <2>2. SubSeq(up[d], 1, 0) = <<>> /\ 0 \in 0 .. Len(up[d])
    BY <1>3, SubSeqEmpty, LenProperties
  <2>3. CASE d = c
    BY <1>1, <1>8, <2>1, <2>2, <2>3 DEF TypeOK
  <2>4. CASE d # c
    BY <1>1, <1>7, <2>1, <2>4 DEF TypeOK
  <2> QED
    BY <2>3, <2>4
<1>11. ASSUME NEW r \in Reqs, NEW type \in {"chunk", "done"}, StrayFrame(c, r, type)
       PROVE  Flow(q, d)'
  <2> DEFINE f == Frame(type, r, 0, "ok")
  <2>1. /\ bound[r] # c /\ sock' = sock /\ outbound' = outbound
        /\ up' = [up EXCEPT ![c] = Append(@, f)]
    BY <1>11 DEF StrayFrame, bridgeVars
  <2>2. f \in UpFrames /\ f.req = r
    BY ConstantsAssumption DEF ConstantsAssumption, Frame, UpFrames
  <2> HIDE DEF f
  <2>3. CASE d = c
    <3>1. f.req # q /\ up'[d] = Append(up[d], f)
      BY <1>1, <1>3, <2>1, <2>2, <2>3 DEF TypeOK
    <3>2. Live(d)' = Live(d) /\ Pipe(d)' = IF Live(d) THEN Append(up[d], f) \o outbound[d] ELSE Append(up[d], f)
      BY <1>2, <2>1, <3>1 DEF Live, Pipe
    <3>3. CASE Live(d)
      <4>1. Pipe(d) = up[d] \o outbound[d]
        BY <3>3 DEF Pipe
      <4>2. /\ Keeps(Pipe(d), Pipe(d)', q)
            /\ \A b, m : CaughtUp(Pipe(d), q, b, m) => CaughtUp(Pipe(d)', q, b, m)
        BY <1>3, <2>2, <3>1, <3>2, <3>3, <4>1, TellsInserted DEF Keeps
      <4> QED
        BY <1>4, <3>3, <4>2
    <3>4. CASE ~ Live(d)
      <4>1. Pipe(d) = up[d]
        BY <3>4 DEF Pipe
      <4>2. Keeps(Pipe(d), Pipe(d)', q)
        BY <1>3, <2>2, <3>1, <3>2, <3>4, <4>1, TellsSameBehind DEF Keeps
      <4> QED
        BY <1>4, <3>2, <3>4, <4>2
    <3> QED
      BY <3>3, <3>4
  <2>4. CASE d # c
    BY <1>1, <1>7, <2>1, <2>4 DEF TypeOK
  <2> QED
    BY <2>3, <2>4
<1> QED
  BY <1>6, <1>9, <1>10, <1>11

\* Steps that leave the sockets, the bridge's queue and the tasks alone, and
\* the queue and the caller of whatever stays in a table, keep answers flowing.
LEMMA QuietFlow ==
  ASSUME FlowInv, TypeOK', UNCHANGED <<up, sock, bridge, bconn, outbound, task, made>>,
         \A c \in Conns : \A q \in answers'[c] :
           q \in answers[c] /\ queue'[q] = queue[q] /\ got'[q] = got[q]
  PROVE  AnswersFlow'
<1> SUFFICES ASSUME NEW c \in Conns, NEW q \in answers'[c]
             PROVE  Flow(q, c)'
  BY DEF AnswersFlow
<1>1. q \in answers[c] /\ queue'[q] = queue[q] /\ got'[q] = got[q]
  OBVIOUS
<1> QED
  BY <1>1, FlowStill

\* A completion that is turned away, read or dropped, an attach, an error frame
\* that is logged and a disconnect disturb no answer that may still come.
LEMMA AsideFlow ==
  ASSUME FlowInv, TypeOK',
         \/ \E q \in Reqs : \/ CompleteUnattached(q) \/ StartReading(q) \/ DropUnstarted(q)
                            \/ CloseStream(q) \/ GapTimeout(q)
         \/ \E c \in Conns : Attach(c) \/ AttachReturns(c) \/ Disconnected(c)
         \/ ReceiveError \/ UNCHANGED vars
  PROVE  AnswersFlow'
<1>1. TypeOK /\ OwnTable
  BY DEF FlowInv, Books
<1>2. ASSUME NEW q \in Reqs, CompleteUnattached(q) \/ StartReading(q) \/ DropUnstarted(q)
      PROVE  AnswersFlow'
  BY <1>2, QuietFlow DEF CompleteUnattached, StartReading, DropUnstarted, linkVars, netVars,
                         bridgeVars, taskVars
<1>3. ASSUME NEW q \in Reqs, CloseStream(q) \/ GapTimeout(q)
      PROVE  AnswersFlow'
  <2>1. \A c \in Conns : answers'[c] \subseteq answers[c]
    BY <1>1, <1>3, EndStreamFacts DEF CloseStream, GapTimeout
  <2> QED
    BY <1>3, <2>1, QuietFlow DEF CloseStream, GapTimeout, netVars, bridgeVars, taskVars
<1>4. ASSUME NEW c \in Conns, Attach(c) \/ AttachReturns(c)
      PROVE  AnswersFlow'
  BY <1>4, QuietFlow DEF Attach, AttachReturns, coreVars, netVars, bridgeVars, taskVars
<1>5. ASSUME NEW c \in Conns, Disconnected(c)
      PROVE  AnswersFlow'
  <2>1. \A d \in Conns : answers'[d] = IF d = c THEN {} ELSE answers[d]
    BY <1>1, <1>5 DEF Disconnected, FailPending, TypeOK
  <2>2. \A d \in Conns : \A q \in answers[d] : d # c => q \notin answers[c] /\ q \in Reqs
    BY <1>1 DEF OwnTable, TypeOK
  <2>3. \A q \in Reqs : q \notin answers[c] => queue'[q] = queue[q]
    BY <1>5 DEF Disconnected, FailPending
  <2>4. \A d \in Conns : \A q \in answers'[d] :
          q \in answers[d] /\ queue'[q] = queue[q] /\ got'[q] = got[q]
    BY <1>5, <2>1, <2>2, <2>3 DEF Disconnected
  <2> QED
    BY <1>5, <2>4, QuietFlow DEF Disconnected, netVars, bridgeVars, taskVars
<1>6. CASE ReceiveError
  BY <1>6, QuietFlow DEF ReceiveError, Receives, coreVars, taskVars
<1>7. CASE UNCHANGED vars
  BY <1>7, QuietFlow DEF vars, coreVars, linkVars, netVars, bridgeVars, taskVars
<1> QED
  BY <1>2, <1>3, <1>4, <1>5, <1>6, <1>7

\* A new completion has an answer of which nothing is under way.
LEMMA CompleteFlow ==
  ASSUME FlowInv, TypeOK', NEW r \in Reqs, Complete(r)
  PROVE  AnswersFlow'
<1>1. /\ TypeOK /\ NothingYet /\ Named /\ OwnQueue /\ OwnTable
      /\ current \in Conns /\ req[r] = "new"
  BY DEF FlowInv, Books, Complete, TypeOK
<1> PICK k \in Conns : k = current
  BY <1>1
<1>2. /\ answers' = [answers EXCEPT ![k] = @ \cup {r}]
      /\ UNCHANGED <<got, queue, up, sock, bridge, bconn, outbound, task, made>>
  BY DEF Complete, netVars, bridgeVars, taskVars
<1>3. /\ bound[r] = NoConn /\ queue[r] = <<>> /\ got[r] = <<>> /\ task[r] = "none" /\ made[r] = <<>>
  BY <1>1 DEF NothingYet
<1>4. Silent(Pipe(k), r)
  <2>1. \A i \in DOMAIN up[k] : up[k][i].req # r
    BY <1>1, <1>3 DEF Named
  <2>2. CASE ~ Live(k)
    BY <2>1, <2>2 DEF Silent, Pipe
  <2>3. CASE Live(k)
    <3>1. \A i \in DOMAIN outbound[k] : outbound[k][i].req # r
      BY <1>1, <1>3 DEF OwnQueue, NoConn, Conns
    <3>2. PICK u \in Seq(UpFrames), o \in Seq(UpFrames) : u = up[k] /\ o = outbound[k]
      BY <1>1 DEF TypeOK
    <3>3. /\ \A i \in DOMAIN u : u[i].req # r
          /\ \A i \in DOMAIN o : o[i].req # r
      BY <2>1, <3>1, <3>2
    <3>4. ASSUME NEW i \in DOMAIN (u \o o)
          PROVE  (u \o o)[i].req # r
      <4>1. \/ i \in DOMAIN u /\ (u \o o)[i] = u[i]
            \/ \E j \in DOMAIN o : (u \o o)[i] = o[j]
        BY ConcatParts
      <4> QED
        BY <3>3, <4>1
    <3> QED
      BY <2>3, <3>2, <3>4 DEF Silent, Pipe
  <2> QED
    BY <2>2, <2>3
<1>5. Flow(r, k)'
  <2>1. Taken(r)' = 0 /\ Len(made[r])' = 0 /\ OnlyChunks(r)'
    BY <1>2, <1>3 DEF Taken, OnlyChunks
  <2>2. Pipe(k)' = Pipe(k)
    BY <1>2 DEF Pipe, Live
  <2>3. Tells(Pipe(k), r, 0, 0, "none")
    BY <1>4 DEF Tells, Silent
  <2> QED
    BY <1>2, <1>3, <2>1, <2>2, <2>3 DEF Flow
<1> SUFFICES ASSUME NEW c \in Conns, NEW q \in answers'[c]
             PROVE  Flow(q, c)'
  BY DEF AnswersFlow
<1>6. q \in answers[c] \/ (c = k /\ q = r)
  BY <1>1, <1>2 DEF TypeOK
<1>7. CASE q \in answers[c]
  BY <1>2, <1>7, FlowStill
<1> QED
  BY <1>5, <1>6, <1>7

\* The caller takes an item: a chunk moves from the queue to the caller, and
\* anything else takes the completion out of its table.
LEMMA NextItemFlow ==
  ASSUME FlowInv, TypeOK', NEW r \in Reqs, NextItem(r)
  PROVE  AnswersFlow'
<1> DEFINE item == Head(queue[r])
<1>1. TypeOK /\ OwnTable
  BY DEF FlowInv, Books
<1>2. /\ queue[r] # <<>> /\ queue' = [queue EXCEPT ![r] = Tail(@)]
      /\ UNCHANGED <<up, sock, bridge, bconn, outbound, task, made>>
      /\ got' = IF Valid(item) THEN [got EXCEPT ![r] = Append(@, item.n)] ELSE got
      /\ IF Verdict(item) = "reading" THEN answers' = answers ELSE EndStream(r, Verdict(item))
  BY DEF NextItem, netVars, bridgeVars, taskVars
<1>3. queue[r] \in Seq(Items) /\ got[r] \in Seq(0 .. Chunks) /\ item \in Items
  BY <1>1, <1>2, QueueFacts DEF TypeOK
<1>4. \A q \in Reqs : q # r => queue'[q] = queue[q] /\ got'[q] = got[q]
  BY <1>1, <1>2 DEF TypeOK
<1> HIDE DEF item
<1>5. CASE Valid(item)
  <2>1. answers' = answers /\ got'[r] = Append(got[r], item.n) /\ queue'[r] = Tail(queue[r])
    BY <1>1, <1>2, <1>5 DEF Verdict, TypeOK
  <2>2. /\ Len(got[r]) \in Nat /\ Len(queue[r]) \in Nat /\ Len(got'[r]) \in Nat /\ Len(queue'[r]) \in Nat
        /\ Len(got'[r]) = Len(got[r]) + 1 /\ Len(queue'[r]) = Len(queue[r]) - 1
    <3>1. item.n \in 0 .. Chunks
      BY <1>3 DEF Items
    <3>2. Len(got'[r]) = Len(got[r]) + 1 /\ Len(got[r]) \in Nat
      BY <1>3, <2>1, <3>1, AppendProperties, LenProperties
    <3>3. Len(queue[r]) \in Nat /\ Len(queue[r]) # 0
      BY <1>2, <1>3, EmptySeq
    <3>4. Len(queue'[r]) = Len(queue[r]) - 1
      BY <1>2, <1>3, <2>1, HeadTailProperties
    <3> QED
      BY <3>2, <3>3, <3>4
  <2>3. Taken(r)' = Taken(r)
    <3>1. Len(got'[r]) + Len(queue'[r]) = Len(got[r]) + Len(queue[r])
      <4> DEFINE v == Len(got'[r])
                 x == Len(got[r])
                 y == Len(queue[r])
                 z == Len(queue'[r])
      <4>1. v \in Nat /\ x \in Nat /\ y \in Nat /\ z \in Nat /\ v = x + 1 /\ z = y - 1
        BY <2>2
      <4> HIDE DEF v, x, y, z
      <4>2. v + z = x + y
        BY <4>1, Sums
      <4> QED
        BY <4>2 DEF v, x, y, z
    <3> QED
      BY <3>1 DEF Taken
  <2>4. OnlyChunks(r)' <=> OnlyChunks(r)
    <3>1. queue[r][1].type = "chunk"
      BY <1>2, <1>3, <1>5, EmptySeq DEF Valid, item
    <3>2. /\ DOMAIN queue[r] = 1 .. Len(queue[r]) /\ DOMAIN queue'[r] = 1 .. Len(queue[r]) - 1
          /\ \A i \in 1 .. Len(queue[r]) - 1 : queue'[r][i] = queue[r][i + 1]
      <4> DEFINE s == queue[r]
      <4>1. s \in Seq(Items) /\ s # <<>> /\ queue'[r] = Tail(s)
        BY <1>2, <1>3, <2>1
      <4> HIDE DEF s
      <4>2. /\ DOMAIN s = 1 .. Len(s) /\ DOMAIN Tail(s) = 1 .. Len(s) - 1
            /\ \A i \in 1 .. Len(s) - 1 : Tail(s)[i] = s[i + 1]
        BY <4>1, ElemFacts
      <4> QED
        BY <4>1, <4>2 DEF s
    <3>3. ASSUME OnlyChunks(r), NEW i \in DOMAIN queue'[r]
          PROVE  queue'[r][i].type = "chunk"
      <4>1. i + 1 \in DOMAIN queue[r] /\ queue'[r][i] = queue[r][i + 1]
        BY <2>2, <3>2
      <4> QED
        BY <3>3, <4>1 DEF OnlyChunks
    <3>4. ASSUME \A i \in DOMAIN queue'[r] : queue'[r][i].type = "chunk", NEW i \in DOMAIN queue[r]
          PROVE  queue[r][i].type = "chunk"
      <4>1. CASE i = 1
        BY <3>1, <4>1
      <4>2. CASE i # 1
        <5>1. i - 1 \in DOMAIN queue'[r] /\ (i - 1) + 1 = i
          BY <2>2, <3>2, <4>2
        <5>2. queue'[r][i - 1] = queue[r][i]
          BY <3>2, <5>1
        <5> QED
          BY <3>4, <5>1, <5>2
      <4> QED
        BY <4>1, <4>2
    <3> QED
      BY <3>3, <3>4 DEF OnlyChunks
  <2> SUFFICES ASSUME NEW c \in Conns, NEW q \in answers[c]
               PROVE  Flow(q, c)'
    BY <2>1 DEF AnswersFlow
  <2>5. CASE q = r
    <3>1. Flow(q, c) /\ Live(c)' = Live(c) /\ Pipe(c)' = Pipe(c)
      BY <1>2 DEF FlowInv, AnswersFlow, Live, Pipe
    <3> QED
      BY <1>2, <2>3, <2>4, <2>5, <3>1 DEF Flow
  <2>6. CASE q # r
    <3>1. q \in Reqs
      BY <1>1 DEF TypeOK
    <3> QED
      BY <1>2, <1>4, <2>6, <3>1, FlowStill
  <2> QED
    BY <2>5, <2>6
<1>6. CASE ~ Valid(item)
  <2>1. EndStream(r, Verdict(item))
    BY <1>2, <1>6 DEF Verdict
  <2>2. ASSUME NEW c \in Conns, NEW q \in answers'[c]
        PROVE  q \in answers[c] /\ q # r /\ q \in Reqs
    <3>1. answers'[c] = IF c = bound[r] THEN answers[c] \ {r} ELSE answers[c]
      BY <1>1, <2>1, EndStreamFacts
    <3>2. q \in answers[c]
      BY <2>2, <3>1
    <3>3. q \in Reqs /\ bound[q] = c
      BY <1>1, <3>2 DEF OwnTable, TypeOK
    <3> QED
      BY <2>2, <3>1, <3>2, <3>3
  <2> QED
    BY <1>2, <1>4, <2>2, QuietFlow
<1> QED
  BY <1>5, <1>6

\* The bridge's steps that put nothing into a pipe keep answers flowing.
LEMMA PipesKept ==
  ASSUME FlowInv, TypeOK', UNCHANGED <<got, answers, queue, made>>,
         \A c \in Conns : Pipe(c)' = Pipe(c),
         \A q \in Reqs : task'[q] = task[q] \/ task[q] \notin {"done", "broken"},
         \A c \in Conns : \A q \in answers[c] :
           Live(c)' /\ task'[q] = "running" => made[q] = <<>> \/ (Live(c) /\ task[q] = "running")
  PROVE  AnswersFlow'
<1> SUFFICES ASSUME NEW c \in Conns, NEW q \in answers[c]
             PROVE  Flow(q, c)'
  BY DEF AnswersFlow
<1>1. TypeOK /\ q \in Reqs /\ Flow(q, c)
  BY DEF FlowInv, Books, AnswersFlow, TypeOK
<1>2. /\ Pipe(c)' = Pipe(c)
      /\ task'[q] = task[q] \/ task[q] \notin {"done", "broken"}
      /\ Live(c)' /\ task'[q] = "running" => made[q] = <<>> \/ (Live(c) /\ task[q] = "running")
  BY <1>1
<1> QED
  BY <1>1, <1>2, FlowKept DEF Keeps

\* The bridge connects, is welcomed, takes a request, or loses its writer or
\* its socket: no answer that may still come is disturbed.
LEMMA BridgeFlow ==
  ASSUME FlowInv, TypeOK',
         Connect \/ ReceiveWelcome \/ ReceiveRequest \/ WriteFails \/ ConnectionLost
  PROVE  AnswersFlow'
<1>1. TypeOK /\ OwnTable /\ NothingYet /\ QuietBefore /\ HelloIsQuiet /\ RequestsFresh
  BY DEF FlowInv, Books
<1>2. UNCHANGED <<got, answers, queue, made, up>>
  BY DEF Connect, Accept, ReceiveWelcome, ReceiveRequest, Receives, WriteFails, ConnectionLost,
         coreVars, linkVars, netVars, taskVars
<1>3. \A c \in Conns : \A q \in answers[c] : q \in Reqs /\ bound[q] = c
  BY <1>1 DEF OwnTable, TypeOK
<1>4. ASSUME \A c \in Conns : ~ Live(c) /\ ~ Live(c)',
             \A q \in Reqs : task'[q] = task[q] \/ task[q] \notin {"done", "broken"}
      PROVE  AnswersFlow'
  <2>1. \A c \in Conns : Pipe(c)' = Pipe(c)
    BY <1>2, <1>4 DEF Pipe
  <2> QED
    BY <1>2, <1>4, <2>1, PipesKept
<1>5. CASE Connect
  BY <1>4, <1>5 DEF Connect, taskVars, Live
<1>6. CASE ReceiveWelcome
  <2>1. /\ bridge = "hello" /\ bconn' = bconn /\ outbound' = outbound /\ task' = task
        /\ bridge' \in {"idle", "serving"}
    BY <1>6 DEF ReceiveWelcome, Receives, taskVars
  <2>2. ASSUME NEW c \in Conns
        PROVE  Pipe(c)' = Pipe(c)
    <3>1. c = bconn => up[c] \o outbound[c] = up[c]
      BY <1>1, <2>1, PipeType DEF QuietBefore
    <3> QED
      BY <1>2, <2>1, <3>1 DEF Pipe, Live
  <2>3. ASSUME NEW c \in Conns, NEW q \in answers[c], Live(c)'
        PROVE  task'[q] # "running"
    BY <1>1, <1>3, <2>1, <2>3 DEF HelloIsQuiet, Live
  <2> QED
    BY <1>2, <2>1, <2>2, <2>3, PipesKept
<1>7. CASE ReceiveRequest
  <2> DEFINE r == Head(down[bconn]).req
  <2>1. /\ bconn \in Conns /\ down[bconn] # <<>> /\ IsRequest(Head(down[bconn]))
        /\ UNCHANGED <<sock, bridge, bconn, outbound>>
        /\ task' = [task EXCEPT ![r] = "running"]
    BY <1>1, <1>7, ReceiveFacts DEF ReceiveRequest, IsRequest
  <2>2. r \in Reqs /\ task[r] = "none"
    <3>1. Head(down[bconn]) = down[bconn][1] /\ 1 \in DOMAIN down[bconn]
      BY <1>1, <2>1, ElemFacts DEF TypeOK
    <3> QED
      BY <1>1, <2>1, <3>1 DEF RequestsFresh, FreshIn
  <2>3. made[r] = <<>>
    BY <1>1, <2>2 DEF NothingYet
  <2> HIDE DEF r
  <2>4. task'[r] = "running" /\ \A q \in Reqs : q # r => task'[q] = task[q]
    BY <1>1, <2>1, <2>2 DEF TypeOK
  <2>5. \A c \in Conns : Pipe(c)' = Pipe(c) /\ Live(c)' = Live(c)
    BY <1>2, <2>1 DEF Pipe, Live
  <2> QED
    BY <1>2, <1>3, <2>2, <2>3, <2>4, <2>5, PipesKept
<1>8. CASE WriteFails
  BY <1>4, <1>8 DEF WriteFails, netVars, taskVars, Live
<1>9. CASE ConnectionLost
  <2>1. \A q \in Reqs : task'[q] = task[q] \/ task[q] \notin {"done", "broken"}
    BY <1>1, <1>9 DEF ConnectionLost, TypeOK
  <2> QED
    BY <1>4, <1>9, <2>1 DEF ConnectionLost, netVars, Live
<1> QED
  BY <1>5, <1>6, <1>7, <1>8, <1>9

\* Answers flow on through every step.
LEMMA FlowStep ==
  ASSUME ObjectChunks, FlowInv, TypeOK', [Next]_vars
  PROVE  AnswersFlow'
<1>1. ASSUME NEW q \in Reqs,
             \/ Complete(q) \/ CompleteUnattached(q) \/ StartReading(q) \/ DropUnstarted(q)
             \/ CloseStream(q) \/ NextItem(q) \/ GapTimeout(q)
             \/ EndTask(q) \/ \E k \in ChunkKinds : StreamChunk(q, k)
      PROVE  AnswersFlow'
  BY <1>1, AsideFlow, CompleteFlow, NextItemFlow, TaskFlow
<1>2. ASSUME NEW c \in Conns,
             \/ Attach(c) \/ AttachReturns(c) \/ AttachRefused(c) \/ ReadChunk(c) \/ ReadEnd(c)
             \/ Disconnected(c) \/ Drop(c)
             \/ \E q \in Reqs, type \in {"chunk", "done"} : StrayFrame(c, q, type)
      PROVE  AnswersFlow'
  BY <1>2, AsideFlow, ReadFlow, SocketFlow
<1>3. CASE WriteFrame
  BY <1>3, ConstantsAssumption, SocketFlow DEF ConstantsAssumption, Conns
<1>4. CASE Connect \/ ReceiveWelcome \/ ReceiveRequest \/ WriteFails \/ ConnectionLost
  BY <1>4, BridgeFlow
<1>5. CASE ReceiveError \/ UNCHANGED vars
  BY <1>5, AsideFlow
<1> QED
  BY <1>1, <1>2, <1>3, <1>4, <1>5 DEF Next

\* An answer grows while its task runs, and stays what it is once it is finished.
LEMMA TaskOn ==
  ASSUME Books, TypeOK', [Next]_vars, NEW q \in Reqs
  PROVE  /\ Len(made[q]) \in Nat /\ Len(made'[q]) \in Nat /\ Len(made[q]) <= Len(made'[q])
         /\ task[q] = "done" => task'[q] = "done" /\ made'[q] = made[q]
<1>1. TypeOK /\ RequestsFresh
  BY DEF Books
<1>2. Len(made[q]) \in Nat /\ Len(made'[q]) \in Nat
  <2>1. made[q] \in Seq(ChunkKinds) /\ made'[q] \in Seq(ChunkKinds)
    BY <1>1 DEF TypeOK
  <2> QED
    BY <2>1, LenProperties
<1>3. ASSUME UNCHANGED taskVars
      PROVE  made'[q] = made[q] /\ task'[q] = task[q]
  BY <1>3 DEF taskVars
<1>4. ASSUME NEW r \in Reqs,
             \/ Complete(r) \/ CompleteUnattached(r) \/ StartReading(r) \/ DropUnstarted(r)
             \/ CloseStream(r) \/ NextItem(r) \/ GapTimeout(r)
      PROVE  UNCHANGED taskVars
  BY <1>4 DEF Complete, CompleteUnattached, StartReading, DropUnstarted, CloseStream, NextItem, GapTimeout
<1>5. ASSUME NEW c \in Conns,
             \/ Attach(c) \/ AttachReturns(c) \/ AttachRefused(c) \/ ReadChunk(c) \/ ReadEnd(c)
             \/ Disconnected(c) \/ Drop(c)
             \/ \E r \in Reqs, type \in {"chunk", "done"} : StrayFrame(c, r, type)
      PROVE  UNCHANGED taskVars
  BY <1>5 DEF Attach, AttachReturns, AttachRefused, ReadChunk, ReadEnd, Reads, Disconnected, Drop, StrayFrame
<1>6. CASE Connect \/ ReceiveWelcome \/ ReceiveError \/ WriteFrame \/ WriteFails \/ UNCHANGED vars
  <2>1. UNCHANGED taskVars
    BY <1>6 DEF Connect, ReceiveWelcome, ReceiveError, WriteFrame, WriteFails, vars
  <2> QED
    BY <1>2, <1>3, <2>1
<1>7. CASE ReceiveRequest
  <2> DEFINE r == Head(down[bconn]).req
  <2>1. /\ bconn \in Conns /\ down[bconn] # <<>> /\ IsRequest(Head(down[bconn]))
        /\ made' = made /\ task' = [task EXCEPT ![r] = "running"]
    BY <1>1, <1>7, ReceiveFacts DEF ReceiveRequest, IsRequest
  <2>2. r \in Reqs /\ task[r] = "none"
    <3>1. Head(down[bconn]) = down[bconn][1] /\ 1 \in DOMAIN down[bconn]
      BY <1>1, <2>1, ElemFacts DEF TypeOK
    <3> QED
      BY <1>1, <2>1, <3>1 DEF RequestsFresh, FreshIn
  <2> HIDE DEF r
  <2> QED
    BY <1>1, <1>2, <2>1, <2>2 DEF TypeOK
<1>8. ASSUME NEW r \in Reqs, NEW k \in ChunkKinds, StreamChunk(r, k)
      PROVE  /\ Len(made[q]) <= Len(made'[q])
             /\ task[q] = "done" => task'[q] = "done" /\ made'[q] = made[q]
  <2>1. /\ task[r] = "running" /\ task' = task /\ made' = [made EXCEPT ![r] = Append(@, k)]
        /\ made[r] \in Seq(ChunkKinds)
    BY <1>1, <1>8 DEF StreamChunk, TypeOK
  <2>2. Len(Append(made[r], k)) = Len(made[r]) + 1
    BY <2>1, AppendProperties
  <2> QED
    BY <1>1, <1>2, <2>1, <2>2 DEF TypeOK
<1>9. ASSUME NEW r \in Reqs, EndTask(r)
      PROVE  made'[q] = made[q] /\ (task[q] = "done" => task'[q] = "done")
  BY <1>1, <1>9 DEF EndTask, TypeOK
<1>10. CASE ConnectionLost
  BY <1>1, <1>2, <1>10 DEF ConnectionLost, TypeOK
<1> QED
  BY <1>2, <1>3, <1>4, <1>5, <1>6, <1>7, <1>8, <1>9, <1>10 DEF Next

\* What may become of a completion and its caller in a step.
LEMMA CallerMoves ==
  ASSUME TypeOK, [Next]_vars, NEW q \in Reqs
  PROVE  \/ NextItem(q)
         \/ Complete(q)
         \/ /\ got'[q] = got[q]
            /\ \/ req'[q] = req[q]
               \/ req[q] = "held" /\ req'[q] = "reading"
               \/ req[q] \in {"new", "held", "reading"} /\ req'[q] \in Over \ {"completed"}
<1>1. ASSUME NEW r \in Reqs,
             \/ Complete(r) \/ CompleteUnattached(r) \/ StartReading(r) \/ DropUnstarted(r)
             \/ CloseStream(r) \/ GapTimeout(r) \/ NextItem(r)
      PROVE  \/ r = q
             \/ got'[q] = got[q] /\ req'[q] = req[q]
  BY <1>1 DEF Complete, CompleteUnattached, StartReading, DropUnstarted, CloseStream, GapTimeout,
              EndStream, NextItem, TypeOK
<1>2. ASSUME CompleteUnattached(q) \/ StartReading(q) \/ DropUnstarted(q)
             \/ CloseStream(q) \/ GapTimeout(q)
      PROVE  /\ got'[q] = got[q]
             /\ \/ req[q] = "held" /\ req'[q] = "reading"
                \/ req[q] \in {"new", "held", "reading"} /\ req'[q] \in Over \ {"completed"}
  BY <1>2 DEF CompleteUnattached, StartReading, DropUnstarted, CloseStream, GapTimeout, EndStream,
              TypeOK, Over
<1>3. ASSUME NEW c \in Conns,
             \/ Attach(c) \/ AttachReturns(c) \/ AttachRefused(c) \/ ReadChunk(c) \/ ReadEnd(c)
             \/ Disconnected(c) \/ Drop(c)
             \/ \E r \in Reqs, type \in {"chunk", "done"} : StrayFrame(c, r, type)
      PROVE  req' = req /\ got' = got
  BY <1>3 DEF Attach, AttachReturns, AttachRefused, ReadChunk, ReadEnd, Reads, Disconnected, Drop,
              StrayFrame, coreVars
<1>4. ASSUME \/ Connect \/ ReceiveWelcome \/ ReceiveRequest \/ ReceiveError
             \/ WriteFrame \/ WriteFails \/ ConnectionLost \/ UNCHANGED vars
             \/ \E r \in Reqs : EndTask(r) \/ \E k \in ChunkKinds : StreamChunk(r, k)
      PROVE  req' = req /\ got' = got
  BY <1>4 DEF Connect, ReceiveWelcome, ReceiveRequest, ReceiveError, Receives, WriteFrame, WriteFails,
              ConnectionLost, EndTask, StreamChunk, vars, coreVars
<1> QED
  BY <1>1, <1>2, <1>3, <1>4 DEF Next

\* What may become of a completion's queue in a step.
LEMMA QueueMoves ==
  ASSUME TypeOK, [Next]_vars, NEW q \in Reqs
  PROVE  \/ NextItem(q)
         \/ \E c \in Conns : ReadChunk(c) \/ ReadEnd(c) \/ Disconnected(c)
         \/ queue'[q] = queue[q]
<1>1. ASSUME NEW r \in Reqs,
             \/ Complete(r) \/ CompleteUnattached(r) \/ StartReading(r) \/ DropUnstarted(r)
             \/ CloseStream(r) \/ GapTimeout(r) \/ (NextItem(r) /\ r # q)
      PROVE  queue'[q] = queue[q]
  BY <1>1 DEF Complete, CompleteUnattached, StartReading, DropUnstarted, CloseStream, GapTimeout,
              NextItem, TypeOK, linkVars
<1>2. ASSUME NEW c \in Conns,
             \/ Attach(c) \/ AttachReturns(c) \/ AttachRefused(c) \/ Drop(c)
             \/ \E r \in Reqs, type \in {"chunk", "done"} : StrayFrame(c, r, type)
      PROVE  queue' = queue
  BY <1>2 DEF Attach, AttachReturns, AttachRefused, Drop, StrayFrame, linkVars
<1>3. ASSUME \/ Connect \/ ReceiveWelcome \/ ReceiveRequest \/ ReceiveError
             \/ WriteFrame \/ WriteFails \/ ConnectionLost \/ UNCHANGED vars
             \/ \E r \in Reqs : EndTask(r) \/ \E k \in ChunkKinds : StreamChunk(r, k)
      PROVE  queue' = queue
  BY <1>3 DEF Connect, Accept, ReceiveWelcome, ReceiveRequest, ReceiveError, Receives, WriteFrame,
              WriteFails, ConnectionLost, EndTask, StreamChunk, vars, linkVars
<1> QED
  BY <1>1, <1>2, <1>3 DEF Next

\* An order that no step has touched lasts.
LEMMA OrderKept ==
  ASSUME Books, TypeOK', [Next]_vars, NEW q \in Reqs, InOrder(q),
         got'[q] = got[q], queue'[q] = queue[q]
  PROVE  InOrder(q)'
<1> DEFINE g == Len(got[q])
           m == Len(made[q])
           n == Len(made'[q])
<1>1. /\ m \in Nat /\ n \in Nat /\ m <= n
      /\ task[q] = "done" => task'[q] = "done" /\ n = m
  BY TaskOn
<1>2. g \in Nat /\ Len(got'[q]) = g
  BY LenProperties DEF Books, TypeOK
<1>3. /\ DOMAIN queue[q] = 1 .. Len(queue[q]) /\ Len(queue[q]) \in Nat
      /\ DOMAIN queue'[q] = 1 .. Len(queue[q])
  BY LenProperties DEF Books, TypeOK
<1>4. /\ \A i \in DOMAIN got[q] : got[q][i] = i
      /\ g <= m
      /\ \A i \in DOMAIN queue[q] :
           /\ queue[q][i].type = "chunk" => queue[q][i].n = g + i /\ g + i <= m
           /\ queue[q][i].type = "done" => task[q] = "done" /\ m = Chunks /\ g + i - 1 = Chunks
  BY DEF InOrder
<1> HIDE DEF g, m, n
<1>5. /\ g <= n
      /\ \A i \in DOMAIN queue[q] :
           /\ queue[q][i].type = "chunk" => queue[q][i].n = g + i /\ g + i <= n
           /\ queue[q][i].type = "done" => task'[q] = "done" /\ n = Chunks /\ g + i - 1 = Chunks
  BY <1>1, <1>2, <1>3, <1>4
<1> QED
  BY <1>2, <1>4, <1>5 DEF InOrder, g, n

\* Behind an order the next chunk, a failure, or the end of a finished answer
\* whose chunks are all there may follow.
LEMMA OrderAppended ==
  ASSUME TypeOK, TypeOK', NEW q \in Reqs, InOrder(q), NEW item \in Items,
         queue'[q] = Append(queue[q], item),
         got'[q] = got[q], made'[q] = made[q], task'[q] = task[q],
         item.type = "chunk" => item.n = Taken(q) + 1 /\ Taken(q) + 1 <= Len(made[q]),
         item.type = "done" => task[q] = "done" /\ Len(made[q]) = Chunks /\ Taken(q) = Chunks
  PROVE  InOrder(q)'
<1> DEFINE g == Len(got[q])
           m == Len(made[q])
           l == Len(queue[q])
<1>1. g \in Nat /\ m \in Nat /\ l \in Nat /\ Taken(q) = g + l /\ Len(got'[q]) = g
  BY LenProperties DEF Taken, TypeOK
<1>2. queue[q] \in Seq(Items)
  BY DEF TypeOK
<1>3. /\ DOMAIN queue[q] = 1 .. l /\ DOMAIN queue'[q] = 1 .. l + 1
      /\ \A i \in 1 .. l : queue'[q][i] = queue[q][i]
      /\ queue'[q][l + 1] = item
  BY <1>2, ElemFacts
<1>4. /\ \A i \in DOMAIN got[q] : got[q][i] = i
      /\ g <= m
      /\ \A i \in DOMAIN queue[q] :
           /\ queue[q][i].type = "chunk" => queue[q][i].n = g + i /\ g + i <= m
           /\ queue[q][i].type = "done" => task[q] = "done" /\ m = Chunks /\ g + i - 1 = Chunks
  BY DEF InOrder
<1>5. /\ item.type = "chunk" => item.n = Taken(q) + 1 /\ Taken(q) + 1 <= m
      /\ item.type = "done" => task[q] = "done" /\ m = Chunks /\ Taken(q) = Chunks
  OBVIOUS
<1> HIDE DEF g, m, l
<1>6. /\ item.type = "chunk" => item.n = g + (l + 1) /\ g + (l + 1) <= m
      /\ item.type = "done" => task[q] = "done" /\ m = Chunks /\ g + (l + 1) - 1 = Chunks
  BY <1>1, <1>5
<1>7. ASSUME NEW i \in 1 .. l + 1
      PROVE  /\ queue'[q][i].type = "chunk" => queue'[q][i].n = g + i /\ g + i <= m
             /\ queue'[q][i].type = "done" => task[q] = "done" /\ m = Chunks /\ g + i - 1 = Chunks
  <2>1. CASE i = l + 1
    BY <1>3, <1>6, <2>1
  <2>2. CASE i # l + 1
    <3>1. i \in 1 .. l
      BY <1>1, <2>2
    <3> QED
      BY <1>3, <1>4, <3>1
  <2> QED
    BY <2>1, <2>2
<1> QED
  BY <1>1, <1>3, <1>4, <1>7 DEF InOrder, g, m

\* A chunk the caller takes is the one due, and the rest of the queue follows it.
LEMMA OrderTaken ==
  ASSUME TypeOK, TypeOK', NEW q \in Reqs, InOrder(q), NextItem(q), Valid(Head(queue[q]))
  PROVE  InOrder(q)'
<1> DEFINE g == Len(got[q])
           m == Len(made[q])
           l == Len(queue[q])
           item == Head(queue[q])
<1>1. g \in Nat /\ m \in Nat /\ l \in Nat
  BY LenProperties DEF TypeOK
<1>2. queue[q] \in Seq(Items) /\ queue[q] # <<>> /\ got[q] \in Seq(0 .. Chunks)
  BY DEF TypeOK, NextItem
<1>3. /\ DOMAIN queue[q] = 1 .. l /\ 1 \in DOMAIN queue[q] /\ item = queue[q][1]
      /\ DOMAIN Tail(queue[q]) = 1 .. l - 1
      /\ \A i \in 1 .. l - 1 : Tail(queue[q])[i] = queue[q][i + 1]
  BY <1>2, ElemFacts
<1>4. /\ \A i \in DOMAIN got[q] : got[q][i] = i
      /\ g <= m
      /\ \A i \in DOMAIN queue[q] :
           /\ queue[q][i].type = "chunk" => queue[q][i].n = g + i /\ g + i <= m
           /\ queue[q][i].type = "done" => task[q] = "done" /\ m = Chunks /\ g + i - 1 = Chunks
  BY DEF InOrder
<1>5. item.n = g + 1 /\ g + 1 <= m /\ item.n \in 0 .. Chunks
  <2>1. queue[q][1].type = "chunk" /\ queue[q][1] \in Items
    BY <1>2, <1>3, ElementOfSeq DEF Valid
  <2>2. item.n \in 0 .. Chunks
    BY <1>3, <2>1 DEF Items
  <2> QED
    BY <1>3, <1>4, <2>1, <2>2
<1>6. /\ queue'[q] = Tail(queue[q]) /\ got'[q] = Append(got[q], item.n)
      /\ made' = made /\ task' = task
  BY DEF NextItem, TypeOK, taskVars
<1>7. /\ DOMAIN got[q] = 1 .. g
      /\ DOMAIN got'[q] = 1 .. g + 1 /\ Len(got'[q]) = g + 1
      /\ \A i \in 1 .. g : got'[q][i] = got[q][i]
      /\ got'[q][g + 1] = item.n
  BY <1>2, <1>5, <1>6, ElemFacts, AppendProperties
<1> HIDE DEF g, m, l, item
<1>8. ASSUME NEW i \in 1 .. g + 1
      PROVE  got'[q][i] = i
  <2>1. CASE i = g + 1
    BY <1>5, <1>7, <2>1
  <2>2. CASE i # g + 1
    <3>1. i \in 1 .. g
      BY <1>1, <2>2
    <3> QED
      BY <1>4, <1>7, <3>1
  <2> QED
    BY <2>1, <2>2
<1>9. ASSUME NEW i \in 1 .. l - 1
      PROVE  /\ queue'[q][i].type = "chunk" => queue'[q][i].n = g + 1 + i /\ g + 1 + i <= m
             /\ queue'[q][i].type = "done" => task'[q] = "done" /\ m = Chunks /\ g + 1 + i - 1 = Chunks
  <2>1. i + 1 \in 1 .. l /\ queue'[q][i] = queue[q][i + 1]
    BY <1>1, <1>3, <1>6
  <2>2. /\ queue[q][i + 1].type = "chunk" => queue[q][i + 1].n = g + (i + 1) /\ g + (i + 1) <= m
        /\ queue[q][i + 1].type = "done" => task[q] = "done" /\ m = Chunks /\ g + (i + 1) - 1 = Chunks
    BY <1>3, <1>4, <2>1
  <2>3. g + (i + 1) = g + 1 + i /\ g + (i + 1) - 1 = g + 1 + i - 1
    BY <1>1, <2>1
  <2> QED
    BY <1>6, <2>1, <2>2, <2>3
<1> QED
  BY <1>3, <1>5, <1>6, <1>7, <1>8, <1>9 DEF InOrder, m

\* Every queue that is still read stays in order.
LEMMA OrderStep ==
  ASSUME ObjectChunks, FlowInv, TypeOK', [Next]_vars
  PROVE  QueueInOrder'
<1>1. Books /\ TypeOK /\ QueueInOrder /\ NothingYet /\ OwnTable
  BY DEF FlowInv, Books
<1> SUFFICES ASSUME NEW q \in Reqs, req'[q] \in Waiting
             PROVE  InOrder(q)'
  BY DEF QueueInOrder
<1>2. CASE Complete(q)
  <2>1. queue'[q] = <<>> /\ got'[q] = <<>>
    BY <1>1, <1>2 DEF Complete, NothingYet
  <2>2. Len(made'[q]) \in Nat
    BY LenProperties DEF TypeOK
  <2> QED
    BY <2>1, <2>2 DEF InOrder
<1>3. CASE NextItem(q)
  <2>1. Verdict(Head(queue[q])) = "reading"
    BY <1>1, <1>3 DEF NextItem, EndStream, Verdict, Waiting, TypeOK
  <2>2. Valid(Head(queue[q])) /\ req[q] \in Waiting
    BY <1>3, <2>1 DEF Verdict, NextItem, Waiting
  <2> QED
    BY <1>1, <1>3, <2>2, OrderTaken DEF QueueInOrder
<1>4. CASE ~ Complete(q) /\ ~ NextItem(q)
  <2>1. req[q] \in Waiting /\ got'[q] = got[q]
    BY <1>1, <1>4, CallerMoves DEF Waiting, Over
  <2>2. InOrder(q)
    BY <1>1, <2>1 DEF QueueInOrder
  <2>3. CASE queue'[q] = queue[q]
    BY <1>1, <2>1, <2>2, <2>3, OrderKept
  <2>4. ASSUME queue'[q] # queue[q], NEW c \in Conns, ReadChunk(c) \/ ReadEnd(c)
        PROVE  InOrder(q)'
    <3> DEFINE f == Head(up[c])
    <3>1. /\ up[c] # <<>> /\ f \in UpFrames /\ f.kind # "shapeless"
          /\ UNCHANGED <<made, task>>
          /\ \/ /\ f.req \in answers[c]
                /\ \E item \in Items :
                     /\ item.type = f.type /\ item.via = c
                     /\ item.type = "chunk" => item.n = f.n
                     /\ queue' = [queue EXCEPT ![f.req] = Append(@, item)]
             \/ queue' = queue
      BY <1>1, <2>4, ReadFacts DEF UpFrames, ObjectChunks, taskVars
    <3>2. f.req \in answers[c]
      BY <2>4, <3>1
    <3>3. \E item \in Items :
            /\ item.type = f.type
            /\ item.type = "chunk" => item.n = f.n
            /\ queue' = [queue EXCEPT ![f.req] = Append(@, item)]
      BY <2>4, <3>1
    <3>4. PICK item \in Items :
            /\ item.type = f.type
            /\ item.type = "chunk" => item.n = f.n
            /\ queue' = [queue EXCEPT ![f.req] = Append(@, item)]
      BY <3>3
    <3>5. f.req = q /\ queue'[q] = Append(queue[q], item)
      BY <1>1, <2>4, <3>4 DEF TypeOK
    <3>6. /\ f.type = "chunk" => f.n = Taken(q) + 1 /\ Taken(q) + 1 <= Len(made[q])
          /\ f.type = "done" => task[q] = "done" /\ Len(made[q]) = Chunks /\ Taken(q) = Chunks
      BY <3>1, <3>2, <3>5, NextIsDue
    <3> HIDE DEF f
    <3>7. /\ item.type = "chunk" => item.n = Taken(q) + 1 /\ Taken(q) + 1 <= Len(made[q])
          /\ item.type = "done" => task[q] = "done" /\ Len(made[q]) = Chunks /\ Taken(q) = Chunks
      BY <3>4, <3>6
    <3> QED
      BY <1>1, <2>1, <2>2, <3>1, <3>5, <3>7, OrderAppended
  <2>5. ASSUME queue'[q] # queue[q], NEW c \in Conns, Disconnected(c)
        PROVE  InOrder(q)'
    <3>1. /\ queue'[q] = Append(queue[q], Failure(c)) /\ made' = made /\ task' = task
          /\ Failure(c) \in Items /\ Failure(c).type = "error"
      BY <2>5, ConstantsAssumption DEF ConstantsAssumption, Disconnected, FailPending, taskVars, Failure,
                                       Item, Items
    <3> QED
      BY <1>1, <2>1, <2>2, <3>1, OrderAppended
  <2> QED
    BY <1>1, <1>4, <2>3, <2>4, <2>5, QueueMoves
<1> QED
  BY <1>2, <1>3, <1>4

\* What an end at the head of a queue in order means.
LEMMA EndIsComplete ==
  ASSUME TypeOK, NEW q \in Reqs, InOrder(q), queue[q] # <<>>, Head(queue[q]).type = "done"
  PROVE  /\ task[q] = "done" /\ Len(made[q]) = Chunks /\ Len(got[q]) = Chunks
         /\ got[q] = [i \in 1 .. Chunks |-> i]
<1>1. /\ 1 \in DOMAIN queue[q] /\ Head(queue[q]) = queue[q][1]
      /\ DOMAIN got[q] = 1 .. Len(got[q]) /\ Len(got[q]) \in Nat
  BY ElemFacts, LenProperties DEF TypeOK
<1>2. task[q] = "done" /\ Len(made[q]) = Chunks /\ Len(got[q]) + 1 - 1 = Chunks
  BY <1>1 DEF InOrder
<1>3. Len(got[q]) = Chunks
  BY <1>1, <1>2
<1>4. \A i \in DOMAIN got[q] : got[q][i] = i
  BY DEF InOrder
<1>5. got[q] = [i \in DOMAIN got[q] |-> got[q][i]]
  BY DEF TypeOK
<1> QED
  BY <1>1, <1>2, <1>3, <1>4, <1>5

\* Only an answer that is all there completes, and it stays so.
LEMMA CompletionStep ==
  ASSUME FlowInv, TypeOK', [Next]_vars
  PROVE  NoTruncatedCompletion'
<1>1. Books /\ TypeOK /\ QueueInOrder /\ NoTruncatedCompletion
  BY DEF FlowInv, Books
<1> SUFFICES ASSUME NEW q \in Reqs, req'[q] = "completed"
             PROVE  task'[q] = "done" /\ got'[q] = [i \in 1 .. Chunks |-> i]
  BY DEF NoTruncatedCompletion
<1>2. CASE NextItem(q)
  <2>1. /\ req[q] = "reading" /\ queue[q] # <<>> /\ task' = task
        /\ Verdict(Head(queue[q])) = "completed"
    BY <1>1, <1>2 DEF NextItem, EndStream, TypeOK, taskVars
  <2>2. Head(queue[q]).type = "done" /\ ~ Valid(Head(queue[q]))
    BY <2>1 DEF Verdict, Valid
  <2>3. InOrder(q) /\ got' = got
    BY <1>1, <1>2, <2>1, <2>2 DEF QueueInOrder, Waiting, NextItem
  <2> QED
    BY <1>1, <2>1, <2>2, <2>3, EndIsComplete
<1>3. CASE ~ NextItem(q)
  <2>1. ~ Complete(q)
    BY <1>1 DEF Complete, TypeOK
  <2>2. got'[q] = got[q] /\ req[q] = "completed"
    BY <1>1, <1>3, <2>1, CallerMoves
  <2> QED
    BY <1>1, <2>2, TaskOn DEF NoTruncatedCompletion
<1> QED
  BY <1>2, <1>3

\* At the start nothing is under way and nothing is complete.
LEMMA FlowInit == Init => FlowInv
<1> SUFFICES ASSUME Init PROVE FlowInv
  OBVIOUS
<1>1. AnswersFlow /\ QueueInOrder /\ NoTruncatedCompletion
  BY DEF Init, AnswersFlow, QueueInOrder, Waiting, NoTruncatedCompletion
<1> QED
  BY <1>1, BooksInit DEF FlowInv

\* The answers' invariant is inductive.
LEMMA FlowInvStep == ObjectChunks /\ FlowInv /\ [Next]_vars => FlowInv'
<1> SUFFICES ASSUME ObjectChunks, FlowInv, [Next]_vars PROVE FlowInv'
  OBVIOUS
<1>1. Books' /\ TypeOK'
  BY BooksStep DEF FlowInv, Books
<1> QED
  BY <1>1, FlowStep, OrderStep, CompletionStep DEF FlowInv

\* As long as every chunk is an object, which KyokBridge sees to, a truncated
\* answer never passes as a complete one.
THEOREM NeverTruncated == ASSUME ObjectChunks PROVE Spec => []NoTruncatedCompletion
<1>1. FlowInv => NoTruncatedCompletion
  BY DEF FlowInv
<1>2. FlowInv /\ [Next]_vars => FlowInv'
  BY FlowInvStep
<1> QED
  BY <1>1, <1>2, FlowInit, PTL DEF Spec

-----------------------------------------------------------------------------
(* The relay keeps the promise of AnswerStream.                            *)

\* What the promise sees of the relay.
Mode(r) == CASE r = "new" -> "new"
             [] r \in Waiting -> "open"
             [] r = "completed" -> "completed"
             [] OTHER -> "failed"
Told     == [q \in Reqs |-> Mode(req[q])]
Yielded  == [q \in Reqs |-> Len(made[q])]
Finished == [q \in Reqs |-> task[q] = "done"]
Seen     == <<Told, got, Yielded, Finished>>

\* The promise in these terms.
LEMMA PromiseMeans ==
  ASSUME NEW q \in Reqs
  PROVE  /\ /\ Told[q] = "new"
            /\ \E s \in {"open", "failed"} : Told' = [Told EXCEPT ![q] = s]
            /\ UNCHANGED <<got, Yielded, Finished>>
            => Promise!Ask(q)
         /\ /\ Told[q] # "new" /\ ~ Finished[q] /\ Yielded[q] < Chunks
            /\ Yielded' = [Yielded EXCEPT ![q] = @ + 1]
            /\ UNCHANGED <<Told, got, Finished>>
            => Promise!Yield(q)
         /\ /\ Told[q] # "new"
            /\ Finished' = [Finished EXCEPT ![q] = TRUE]
            /\ UNCHANGED <<Told, got, Yielded>>
            => Promise!Finish(q)
         /\ /\ Told[q] = "open" /\ Len(got[q]) < Yielded[q]
            /\ got' = [got EXCEPT ![q] = Append(@, Len(@) + 1)]
            /\ UNCHANGED <<Told, Yielded, Finished>>
            => Promise!Receive(q)
         /\ /\ Told[q] = "open" /\ Finished[q] /\ Len(got[q]) = Yielded[q]
            /\ Told' = [Told EXCEPT ![q] = "completed"]
            /\ UNCHANGED <<got, Yielded, Finished>>
            => Promise!Complete(q)
         /\ /\ Told[q] = "open"
            /\ Told' = [Told EXCEPT ![q] = "failed"]
            /\ UNCHANGED <<got, Yielded, Finished>>
            => Promise!Fail(q)
<1>1. /\ Told[q] = "new"
      /\ \E s \in {"open", "failed"} : Told' = [Told EXCEPT ![q] = s]
      /\ UNCHANGED <<got, Yielded, Finished>>
      => Promise!Ask(q)
  BY DEF Promise!Ask, Told, Mode, Yielded, Finished
<1>2. /\ Told[q] # "new" /\ ~ Finished[q] /\ Yielded[q] < Chunks
      /\ Yielded' = [Yielded EXCEPT ![q] = @ + 1]
      /\ UNCHANGED <<Told, got, Finished>>
      => Promise!Yield(q)
  BY DEF Promise!Yield, Told, Mode, Yielded, Finished
<1>3. /\ Told[q] # "new"
      /\ Finished' = [Finished EXCEPT ![q] = TRUE]
      /\ UNCHANGED <<Told, got, Yielded>>
      => Promise!Finish(q)
  BY DEF Promise!Finish, Told, Mode, Yielded, Finished
<1>4. /\ Told[q] = "open" /\ Len(got[q]) < Yielded[q]
      /\ got' = [got EXCEPT ![q] = Append(@, Len(@) + 1)]
      /\ UNCHANGED <<Told, Yielded, Finished>>
      => Promise!Receive(q)
  BY DEF Promise!Receive, Told, Mode, Yielded, Finished
<1>5. /\ Told[q] = "open" /\ Finished[q] /\ Len(got[q]) = Yielded[q]
      /\ Told' = [Told EXCEPT ![q] = "completed"]
      /\ UNCHANGED <<got, Yielded, Finished>>
      => Promise!Complete(q)
  BY DEF Promise!Complete, Told, Mode, Yielded, Finished
<1>6. /\ Told[q] = "open"
      /\ Told' = [Told EXCEPT ![q] = "failed"]
      /\ UNCHANGED <<got, Yielded, Finished>>
      => Promise!Fail(q)
  BY DEF Promise!Fail, Told, Mode, Yielded, Finished
<1> QED
  BY <1>1, <1>2, <1>3, <1>4, <1>5, <1>6

\* The relay starts where the promise starts.
LEMMA PromiseInit == Init => Promise!Init
<1> SUFFICES ASSUME Init PROVE Promise!Init
  OBVIOUS
<1>1. \A q \in Reqs : req[q] = "new" /\ Len(made[q]) = 0 /\ ~ (task[q] = "done")
  BY DEF Init
<1>2. Told = [q \in Reqs |-> "new"]
  <2>1. Mode("new") = "new"
    BY DEF Mode, Waiting
  <2> QED
    BY <1>1, <2>1 DEF Told
<1>3. Yielded = [q \in Reqs |-> 0]
  BY <1>1 DEF Yielded
<1>4. Finished = [q \in Reqs |-> FALSE]
  <2>1. \A q \in Reqs : (task[q] = "done") = FALSE
    BY <1>1
  <2> QED
    BY <2>1 DEF Finished
<1>5. got = [q \in Reqs |-> <<>>]
  BY DEF Init
<1> QED
  BY <1>2, <1>5, <1>3, <1>4 DEF Promise!Init, Told, Mode, Yielded, Finished

\* What a completion that moves on is to the promise.
LEMMA ToldMoves ==
  ASSUME TypeOK, NEW q \in Reqs, NEW v, req' = [req EXCEPT ![q] = v]
  PROVE  Told' = [Told EXCEPT ![q] = Mode(v)]
<1>1. req'[q] = v /\ \A x \in Reqs : x # q => req'[x] = req[x]
  BY DEF TypeOK
<1>2. Told' = [x \in Reqs |-> Mode(req'[x])]
  BY DEF Told
<1>3. [Told EXCEPT ![q] = Mode(v)] = [x \in Reqs |-> IF x = q THEN Mode(v) ELSE Mode(req[x])]
  BY DEF Told
<1> QED
  BY <1>1, <1>2, <1>3

\* What the promise does not see.
LEMMA Unseen ==
  /\ UNCHANGED req => UNCHANGED Told
  /\ UNCHANGED taskVars => UNCHANGED <<Yielded, Finished>>
  BY DEF Told, Yielded, Finished, taskVars

\* A step of a completion is a step of the promise or none.
LEMMA CompletionKeeps ==
  ASSUME FlowInv, TypeOK', NEW q \in Reqs,
         \/ Complete(q) \/ CompleteUnattached(q) \/ StartReading(q) \/ DropUnstarted(q)
         \/ CloseStream(q) \/ NextItem(q) \/ GapTimeout(q)
  PROVE  Promise!Next \/ UNCHANGED Seen
<1>1. TypeOK /\ UNCHANGED taskVars /\ UNCHANGED <<Yielded, Finished>>
  BY Unseen DEF FlowInv, Books, Complete, CompleteUnattached, StartReading, DropUnstarted, CloseStream,
                NextItem, GapTimeout
<1>2. /\ Told[q] = Mode(req[q]) /\ Yielded[q] = Len(made[q]) /\ Finished[q] = (task[q] = "done")
      /\ Mode("new") = "new" /\ Mode("held") = "open" /\ Mode("reading") = "open"
      /\ Mode("completed") = "completed" /\ Mode("failed") = "failed"
      /\ Mode("unavailable") = "failed" /\ Mode("abandoned") = "failed"
  BY DEF Told, Mode, Yielded, Finished, Waiting
<1>3. CASE Complete(q) \/ CompleteUnattached(q)
  <2>1. /\ req[q] = "new" /\ got' = got
        /\ req' = [req EXCEPT ![q] = "held"] \/ req' = [req EXCEPT ![q] = "unavailable"]
    BY <1>3 DEF Complete, CompleteUnattached
  <2>2. \E s \in {"open", "failed"} : Told' = [Told EXCEPT ![q] = s]
    BY <1>1, <1>2, <2>1, ToldMoves
  <2>3. Promise!Ask(q)
    BY <1>1, <1>2, <2>1, <2>2, PromiseMeans
  <2> QED
    BY <2>3 DEF Promise!Next
<1>4. CASE StartReading(q)
  <2>1. req[q] = "held" /\ got' = got /\ req' = [req EXCEPT ![q] = "reading"]
    BY <1>4 DEF StartReading
  <2>2. Told' = [Told EXCEPT ![q] = Mode("reading")] /\ Told[q] = Mode("reading")
    BY <1>1, <1>2, <2>1, ToldMoves
  <2>3. Told' = Told
    BY <2>2 DEF Told
  <2> QED
    BY <1>1, <2>1, <2>3 DEF Seen
<1>5. ASSUME req[q] \in Waiting, got' = got, NEW v \in {"failed", "abandoned"}, req' = [req EXCEPT ![q] = v]
      PROVE  Promise!Next
  <2>1. Told[q] = "open" /\ Mode(v) = "failed"
    BY <1>2, <1>5 DEF Waiting
  <2>2. Told' = [Told EXCEPT ![q] = "failed"]
    BY <1>1, <1>5, <2>1, ToldMoves
  <2>3. Promise!Fail(q)
    BY <1>1, <1>5, <2>1, <2>2, PromiseMeans
  <2> QED
    BY <2>3 DEF Promise!Next
<1>6. CASE DropUnstarted(q) \/ CloseStream(q) \/ GapTimeout(q)
  BY <1>5, <1>6 DEF DropUnstarted, CloseStream, GapTimeout, EndStream, Waiting
<1>7. CASE NextItem(q)
  <2> DEFINE item == Head(queue[q])
  <2>1. /\ req[q] = "reading" /\ queue[q] # <<>>
        /\ got' = IF Valid(item) THEN [got EXCEPT ![q] = Append(@, item.n)] ELSE got
        /\ IF Verdict(item) = "reading" THEN req' = req ELSE req' = [req EXCEPT ![q] = Verdict(item)]
    BY <1>7 DEF NextItem, EndStream
  <2>2. InOrder(q) /\ queue[q] \in Seq(Items)
    BY <1>1, <2>1 DEF FlowInv, QueueInOrder, Waiting, TypeOK
  <2>3. CASE Valid(item)
    <3>1. item = queue[q][1] /\ 1 \in DOMAIN queue[q] /\ item.type = "chunk"
      BY <2>1, <2>2, <2>3, ElemFacts DEF Valid
    <3>2. item.n = Len(got[q]) + 1 /\ Len(got[q]) + 1 <= Len(made[q])
      BY <2>2, <3>1 DEF InOrder
    <3>3. Len(got[q]) \in Nat /\ Len(made[q]) \in Nat
      BY <1>1, LenProperties DEF TypeOK
    <3>4. Len(got[q]) < Len(made[q])
      BY <3>2, <3>3
    <3>5. req' = req
      BY <2>1, <2>3 DEF Verdict
    <3>6. got' = [got EXCEPT ![q] = Append(@, Len(@) + 1)]
      BY <2>1, <2>3, <3>2
    <3>7. Promise!Receive(q)
      BY <1>1, <1>2, <2>1, <3>4, <3>5, <3>6, PromiseMeans, Unseen
    <3> QED
      BY <3>7 DEF Promise!Next
  <2>4. CASE item.type = "done"
    <3>1. ~ Valid(item) /\ Verdict(item) = "completed"
      BY <2>4 DEF Valid, Verdict
    <3>2. task[q] = "done" /\ Len(made[q]) = Chunks /\ Len(got[q]) = Chunks
      BY <1>1, <2>1, <2>2, <2>4, EndIsComplete
    <3> HIDE DEF item
    <3>3. Told' = [Told EXCEPT ![q] = "completed"] /\ got' = got
      BY <1>1, <1>2, <2>1, <3>1, ToldMoves
    <3>4. Finished[q]
      BY <3>2 DEF Finished
    <3>5. Told[q] = "open" /\ Len(got[q]) = Yielded[q]
      BY <1>2, <2>1, <3>2
    <3>6. Promise!Complete(q)
      BY <1>1, <3>3, <3>4, <3>5, PromiseMeans
    <3> QED
      BY <3>6 DEF Promise!Next
  <2>5. CASE ~ Valid(item) /\ item.type # "done"
    <3>1. Verdict(item) = "failed"
      BY <2>5 DEF Verdict
    <3> HIDE DEF item
    <3> QED
      BY <1>5, <2>1, <2>5, <3>1 DEF Waiting
  <2> QED
    BY <2>3, <2>4, <2>5
<1> QED
  BY <1>3, <1>4, <1>6, <1>7

\* A step of a task is a step of the promise or none.
LEMMA TaskKeeps ==
  ASSUME FlowInv, TypeOK', NEW q \in Reqs, EndTask(q) \/ \E k \in ChunkKinds : StreamChunk(q, k)
  PROVE  Promise!Next \/ UNCHANGED Seen
<1>1. TypeOK /\ NothingYet
  BY DEF FlowInv, Books
<1>2. task[q] = "running" /\ req' = req /\ got' = got /\ UNCHANGED Told
  BY Unseen DEF EndTask, StreamChunk, coreVars
<1>3. req[q] # "new" /\ ~ Finished[q] /\ Yielded[q] = Len(made[q])
  BY <1>1, <1>2 DEF NothingYet, Finished, Yielded
<1>4. Told[q] # "new"
  BY <1>3 DEF Told, Mode
<1>5. ASSUME NEW k \in ChunkKinds, StreamChunk(q, k)
      PROVE  Promise!Next
  <2>1. Len(made[q]) < Chunks /\ made' = [made EXCEPT ![q] = Append(@, k)] /\ task' = task
    BY <1>5 DEF StreamChunk
  <2>2. Len(Append(made[q], k)) = Len(made[q]) + 1
    BY <1>1, AppendProperties DEF TypeOK
  <2>3. Len(made'[q]) = Len(made[q]) + 1 /\ \A x \in Reqs : x # q => made'[x] = made[x]
    BY <1>1, <2>1, <2>2 DEF TypeOK
  <2>4. Yielded' = [Yielded EXCEPT ![q] = @ + 1] /\ Finished' = Finished
    <3>1. Yielded' = [x \in Reqs |-> IF x = q THEN Len(made[q]) + 1 ELSE Len(made[x])]
      BY <2>3 DEF Yielded
    <3>2. [Yielded EXCEPT ![q] = @ + 1] = [x \in Reqs |-> IF x = q THEN Len(made[q]) + 1 ELSE Len(made[x])]
      BY DEF Yielded
    <3> QED
      BY <2>1, <3>1, <3>2 DEF Finished
  <2>5. Promise!Yield(q)
    BY <1>2, <1>3, <1>4, <2>1, <2>4, PromiseMeans
  <2> QED
    BY <2>5 DEF Promise!Next
<1>6. CASE EndTask(q)
  <2>1. made' = made /\ Yielded' = Yielded
    BY <1>6 DEF EndTask, Yielded
  <2>2. CASE task' = [task EXCEPT ![q] = "done"]
    <3>1. Finished' = [Finished EXCEPT ![q] = TRUE]
      BY <1>1, <2>2 DEF Finished, TypeOK
    <3>2. Promise!Finish(q)
      BY <1>2, <1>4, <2>1, <3>1, PromiseMeans
    <3> QED
      BY <3>2 DEF Promise!Next
  <2>3. CASE task' = [task EXCEPT ![q] = "broken"]
    <3>1. \A x \in Reqs : (task'[x] = "done") = (task[x] = "done")
      BY <1>1, <1>2, <2>3 DEF TypeOK
    <3>2. Finished' = Finished
      BY <3>1 DEF Finished
    <3> QED
      BY <1>2, <2>1, <3>2 DEF Seen
  <2> QED
    BY <1>6, <2>2, <2>3 DEF EndTask
<1> QED
  BY <1>5, <1>6

\* Every step of the relay is a step of the promise or none.
LEMMA PromiseStep ==
  ASSUME FlowInv, [Next]_vars
  PROVE  [Promise!Next]_(Promise!vars)
<1>1. TypeOK /\ TypeOK' /\ RequestsFresh
  BY TypeStep DEF FlowInv, Books
<1>2. Promise!Next \/ UNCHANGED Seen => [Promise!Next]_(Promise!vars)
  BY DEF Promise!vars, Seen, Told, Mode, Yielded, Finished
<1>3. ASSUME UNCHANGED <<req, got, made, task>>
      PROVE  UNCHANGED Seen
  BY <1>3 DEF Seen, Told, Yielded, Finished
<1>4. ASSUME UNCHANGED <<req, got, made>>, \A q \in Reqs : (task'[q] = "done") = (task[q] = "done")
       PROVE  UNCHANGED Seen
  <2>1. Finished' = Finished
    BY <1>4 DEF Finished
  <2> QED
    BY <1>4, <2>1 DEF Seen, Told, Yielded
<1>5. ASSUME NEW c \in Conns,
             \/ Attach(c) \/ AttachReturns(c) \/ AttachRefused(c) \/ ReadChunk(c) \/ ReadEnd(c)
             \/ Disconnected(c) \/ Drop(c)
             \/ \E q \in Reqs, type \in {"chunk", "done"} : StrayFrame(c, q, type)
      PROVE  UNCHANGED Seen
  BY <1>3, <1>5 DEF Attach, AttachReturns, AttachRefused, ReadChunk, ReadEnd, Reads, Disconnected, Drop,
                    StrayFrame, coreVars, taskVars
<1>6. ASSUME Connect \/ ReceiveWelcome \/ ReceiveError \/ WriteFrame \/ WriteFails \/ UNCHANGED vars
      PROVE  UNCHANGED Seen
  <2>1. UNCHANGED <<req, got, made, task>>
    BY <1>6 DEF Connect, ReceiveWelcome, ReceiveError, Receives, WriteFrame, WriteFails, vars,
                coreVars, taskVars
  <2> QED
    BY <1>3, <2>1
<1>7. ASSUME ReceiveRequest
      PROVE  UNCHANGED Seen
  <2> DEFINE r == Head(down[bconn]).req
  <2>1. /\ bconn \in Conns /\ down[bconn] # <<>> /\ IsRequest(Head(down[bconn]))
        /\ UNCHANGED <<req, got, made>> /\ task' = [task EXCEPT ![r] = "running"]
    BY <1>1, <1>7, ReceiveFacts DEF ReceiveRequest, IsRequest, coreVars
  <2>2. r \in Reqs /\ task[r] = "none"
    <3>1. Head(down[bconn]) = down[bconn][1] /\ 1 \in DOMAIN down[bconn]
      BY <1>1, <2>1, ElemFacts DEF TypeOK
    <3> QED
      BY <1>1, <2>1, <3>1 DEF RequestsFresh, FreshIn
  <2> HIDE DEF r
  <2>3. \A q \in Reqs : (task'[q] = "done") = (task[q] = "done")
    BY <1>1, <2>1, <2>2 DEF TypeOK
  <2> QED
    BY <1>4, <2>1, <2>3
<1>8. ASSUME ConnectionLost
      PROVE  UNCHANGED Seen
  <2>1. UNCHANGED <<req, got, made>> /\ \A q \in Reqs : (task'[q] = "done") = (task[q] = "done")
    BY <1>1, <1>8 DEF ConnectionLost, coreVars, TypeOK
  <2> QED
    BY <1>4, <2>1
<1>9. ASSUME NEW q \in Reqs,
             \/ Complete(q) \/ CompleteUnattached(q) \/ StartReading(q) \/ DropUnstarted(q)
             \/ CloseStream(q) \/ NextItem(q) \/ GapTimeout(q)
             \/ EndTask(q) \/ \E k \in ChunkKinds : StreamChunk(q, k)
      PROVE  Promise!Next \/ UNCHANGED Seen
  BY <1>1, <1>9, CompletionKeeps, TaskKeeps
<1>10. Promise!Next \/ UNCHANGED Seen
  <2>1. \/ \E q \in Reqs :
             \/ Complete(q) \/ CompleteUnattached(q) \/ StartReading(q) \/ DropUnstarted(q)
             \/ CloseStream(q) \/ NextItem(q) \/ GapTimeout(q)
             \/ EndTask(q) \/ \E k \in ChunkKinds : StreamChunk(q, k)
        \/ \E c \in Conns :
             \/ Attach(c) \/ AttachReturns(c) \/ AttachRefused(c) \/ ReadChunk(c) \/ ReadEnd(c)
             \/ Disconnected(c) \/ Drop(c)
             \/ \E q \in Reqs, type \in {"chunk", "done"} : StrayFrame(c, q, type)
        \/ Connect \/ ReceiveWelcome \/ ReceiveRequest \/ ReceiveError \/ WriteFrame
        \/ WriteFails \/ ConnectionLost \/ UNCHANGED vars
    BY DEF Next
  <2> QED
    BY <1>5, <1>6, <1>7, <1>8, <1>9, <2>1
<1> QED
  BY <1>2, <1>10

\* The relay implements AnswerStream: a caller has the first chunks the LLM
\* yielded, in order, and completes only with all of a finished answer.
THEOREM KeepsThePromise == ASSUME ObjectChunks PROVE Spec => KeepsPromise
<1>1. FlowInv /\ [Next]_vars => FlowInv'
  BY FlowInvStep
<1>2. FlowInv /\ [Next]_vars => [Promise!Next]_(Promise!vars)
  BY PromiseStep
<1> QED
  BY <1>1, <1>2, FlowInit, PromiseInit, PTL DEF Spec, KeepsPromise, Promise!Spec
=============================================================================
