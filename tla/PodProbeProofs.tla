---------------------------- MODULE PodProbeProofs ----------------------------
(***************************************************************************)
(* The Go provider for every number of runs, offers and sockets: as long   *)
(* as serve reads the socket a run came by, a cancel finds its goroutine.  *)
(***************************************************************************)
EXTENDS PodProbe, SequenceTheorems, TLAPS

\* The offers that reached the probe each started one goroutine, which has
\* the socket it came by; the others have none and no socket.
Started ==
  \A o \in Offers :
    /\ o > made => phase[o] = "none"
    /\ o \in 1 .. made => runOf[o] \in Runs
    /\ phase[o] = "none" => wsOf[o] = NoConn
    /\ phase[o] # "none" => wsOf[o] \in 1 .. conn

IsRun(f) == f.type = "run"

\* A run is what a cancel frame names.  A run frame under way to the probe is
\* an offer made and not yet started, and no other frame is the same offer.
Fresh ==
  \A c \in Conns : \A i \in DOMAIN down[c] :
    /\ down[c][i].type = "cancel" => down[c][i].run \in Runs
    /\ IsRun(down[c][i]) =>
         /\ down[c][i].by \in 1 .. made
         /\ down[c][i].run = runOf[down[c][i].by]
         /\ phase[down[c][i].by] = "none"
         /\ \A d \in Conns : \A j \in DOMAIN down[d] :
              IsRun(down[d][j]) /\ down[d][j].by = down[c][i].by => d = c /\ j = i

\* A run that came by a socket only once is the one that socket's cancelSet
\* has the cancel function of, for as long as its goroutine lives.
Kept ==
  \A o \in Offers :
    /\ Live(o)
    /\ \A other \in Offers \ {o} : ~ (runOf[other] = runOf[o] /\ wsOf[other] = wsOf[o])
    => cancels[wsOf[o]][runOf[o]] = o

\* There is a socket while the probe reads one.
Connected == mode \in {"hello", "serving"} => conn \in Conns

\* The cancels of a serve loop, and the goroutines and frames they are for.
ProbeInv == TypeOK /\ Connected /\ Started /\ Fresh /\ Kept

\* The frames souk and the probe send each other.
DownFrames == [type : {"welcome", "run", "cancel", "error"}, run : Runs \cup {NoRun}, by : 0 .. MaxOffers]
UpFrames   == [type : {"ack", "event", "finish"}, run : Runs \cup {NoRun}, by : Offers]

-----------------------------------------------------------------------------
\* What sequences of frames become when frames are read, sent or lost.
LEMMA QueueFacts ==
  ASSUME NEW S
  PROVE  /\ \A s \in Seq(S), x \in S : Append(s, x) \in Seq(S)
         /\ \A s \in Seq(S) : s # <<>> => Head(s) \in S /\ Tail(s) \in Seq(S)
         /\ \A s \in Seq(S) : \A i \in 0 .. Len(s) : SubSeq(s, 1, i) \in Seq(S)
<1>1. \A s \in Seq(S), x \in S : Append(s, x) \in Seq(S)
  OBVIOUS
<1>2. \A s \in Seq(S) : s # <<>> => Head(s) \in S /\ Tail(s) \in Seq(S)
  OBVIOUS
<1>3. \A s \in Seq(S) : \A i \in 0 .. Len(s) : SubSeq(s, 1, i) \in Seq(S)
  OBVIOUS
<1> QED
  BY <1>1, <1>2, <1>3

\* A frame put on a wire is one of its frames.
LEMMA PushType ==
  ASSUME down \in [Conns -> Seq(DownFrames)], NEW c \in Conns, NEW f \in DownFrames, Push(c, f)
  PROVE  down' \in [Conns -> Seq(DownFrames)]
  BY QueueFacts DEF Push

\* Every socket carries frames, both ways.
LEMMA WireType ==
  ASSUME up \in [Conns -> Seq(UpFrames)], NEW c \in Conns, NEW f \in UpFrames, Wire(c, f)
  PROVE  up' \in [Conns -> Seq(UpFrames)]
  BY QueueFacts DEF Wire

\* In the beginning nothing was offered and nothing is under way.
LEMMA ProbeInit == Init => ProbeInv
<1> SUFFICES ASSUME Init PROVE ProbeInv
  OBVIOUS
<1>1. TypeOK
  <2>1. /\ up \in [Conns -> Seq(UpFrames)] /\ down \in [Conns -> Seq(DownFrames)]
        /\ offer = NoOffer /\ cancelled \subseteq Offers
    BY DEF Init
  <2>2. /\ cancels \in [Conns -> [Runs -> 0 .. MaxOffers]]
        /\ made \in 0 .. MaxOffers /\ conn \in 0 .. MaxConns /\ soukConn \in 0 .. MaxConns
        /\ wsOf \in [Offers -> 0 .. MaxConns]
    BY ProbeConstants DEF ProbeConstants, Init, NoConn, None
  <2> QED
    BY <2>1, <2>2 DEF Init, TypeOK, Phases, UpFrames, DownFrames
<1>2. Connected /\ Fresh
  BY DEF Init, Connected, Fresh
<1>3. Started /\ Kept
  BY DEF Init, Started, Kept, Live, Offers
<1> QED
  BY <1>1, <1>2, <1>3 DEF ProbeInv

\* A live goroutine belongs to a run and has a socket.
LEMMA LiveFacts ==
  ASSUME TypeOK, Started, NEW o \in Offers, phase[o] # "none"
  PROVE  o \in 1 .. made /\ runOf[o] \in Runs /\ wsOf[o] \in Conns
  BY ProbeConstants DEF ProbeConstants, TypeOK, Started, Offers, Conns

\* The frame serve reads is the first one on the socket it reads.
LEMMA ReadFacts ==
  ASSUME TypeOK, Connected, NEW type, Reads(type)
  PROVE  /\ conn \in Conns /\ 1 \in DOMAIN down[conn]
         /\ Head(down[conn]) = down[conn][1] /\ Head(down[conn]) \in DownFrames
         /\ down[conn] # <<>> /\ down' \in [Conns -> Seq(DownFrames)]
<1>1. conn \in Conns /\ down \in [Conns -> Seq(DownFrames)] /\ down[conn] # <<>>
      /\ down' = [down EXCEPT ![conn] = Tail(down[conn])]
  BY DEF Reads, Connected, TypeOK, DownFrames
<1>2. /\ Head(down[conn]) \in DownFrames /\ Tail(down[conn]) \in Seq(DownFrames)
  BY <1>1, QueueFacts
<1>3. Head(down[conn]) = down[conn][1] /\ 1 \in DOMAIN down[conn]
  BY <1>1
<1> QED
  BY <1>1, <1>2, <1>3

\* No step takes a variable outside its type.
LEMMA TypeStep == ProbeInv /\ [Next]_vars => TypeOK' /\ Connected'
<1> SUFFICES ASSUME ProbeInv, [Next]_vars
             PROVE  TypeOK' /\ Connected'
  OBVIOUS
<1> USE ProbeConstants DEF ProbeConstants, Connected
<1>0. /\ TypeOK /\ Connected /\ Started /\ Fresh
      /\ down \in [Conns -> Seq(DownFrames)] /\ up \in [Conns -> Seq(UpFrames)]
  BY DEF ProbeInv, TypeOK, DownFrames, UpFrames
<1>00. (down' \in [Conns -> Seq(DownFrames)]) /\ up' \in [Conns -> Seq(UpFrames)]
        => /\ down' \in [Conns -> Seq([type : {"welcome", "run", "cancel", "error"},
                                         run : Runs \cup {NoRun}, by : 0 .. MaxOffers])]
           /\ up' \in [Conns -> Seq([type : {"ack", "event", "finish"}, run : Runs \cup {NoRun}, by : Offers])]
  BY DEF DownFrames, UpFrames
<1>1. CASE UNCHANGED vars
  BY <1>0, <1>1 DEF TypeOK, vars, soukVars, netVars, probeVars
<1>2. CASE Boot \/ DialFails
  BY <1>0, <1>2 DEF Boot, DialFails, Registers, TypeOK, netVars, probeVars
<1>3. CASE Dial
  <2>1. conn + 1 \in Conns /\ conn' = conn + 1 /\ conn' \in 0 .. MaxConns
    BY <1>0, <1>3 DEF Dial, TypeOK, Conns
  <2> QED
    BY <1>0, <1>3, <2>1 DEF Dial, RegistersAgain, Registers, TypeOK
<1>4. CASE Welcomed
  <2>1. conn \in Conns
    BY <1>0, <1>4 DEF Welcomed
  <2>2. down' \in [Conns -> Seq(DownFrames)]
    BY <1>0, <1>4, <2>1, QueueFacts DEF Welcomed
  <2> QED
    BY <1>0, <1>00, <1>4, <2>1, <2>2 DEF Welcomed, TypeOK, soukVars
<1>5. CASE ConnectionEnds
  BY <1>0, <1>5 DEF ConnectionEnds, TypeOK, soukVars, netVars
<1>6. CASE Terminate
  <2>1. /\ sock' \in [Conns -> {"none", "up", "dead"}] /\ phase' \in [Offers -> Phases]
    BY <1>0, <1>6 DEF Terminate, TypeOK, Phases
  <2> QED
    BY <1>0, <1>6, <2>1 DEF Terminate, TypeOK, soukVars
<1>7. CASE StartRun
  <2> DEFINE f == Head(down[conn])
  <2>1. Reads("run") /\ f.type = "run"
    BY <1>7 DEF StartRun, Reads
  <2>2. conn \in Conns /\ 1 \in DOMAIN down[conn] /\ f = down[conn][1] /\ down' \in [Conns -> Seq(DownFrames)]
    BY <1>0, <2>1, ReadFacts
  <2>3. f.by \in Offers /\ f.run \in Runs
    BY <1>0, <2>1, <2>2 DEF Fresh, IsRun, Started, Offers, TypeOK
  <2>4. up' \in [Conns -> Seq(UpFrames)]
    <3>1. Frame("ack", f.run, f.by) \in UpFrames
      BY <2>3 DEF Frame, UpFrames
    <3>2. Wire(conn, Frame("ack", f.run, f.by))
      BY <1>7 DEF StartRun
    <3> QED
      BY <1>0, <2>2, <3>1, <3>2, WireType
  <2>5. /\ phase' \in [Offers -> Phases] /\ wsOf' \in [Offers -> 0 .. MaxConns]
        /\ cancels' \in [Conns -> [Runs -> 0 .. MaxOffers]]
    <3>1. f.by \in 0 .. MaxOffers /\ conn \in 0 .. MaxConns
      BY <2>2, <2>3 DEF Offers, Conns
    <3>2. \/ UNCHANGED <<cancels, phase, wsOf>>
          \/ /\ cancels' = [cancels EXCEPT ![conn][f.run] = f.by]
             /\ phase' = [phase EXCEPT ![f.by] = "start"]
             /\ wsOf' = [wsOf EXCEPT ![f.by] = conn]
      BY <1>7 DEF StartRun, KeepCancel
    <3> HIDE DEF f
    <3>3. CASE UNCHANGED <<cancels, phase, wsOf>>
      BY <1>0, <3>3 DEF TypeOK
    <3>4. CASE /\ cancels' = [cancels EXCEPT ![conn][f.run] = f.by]
               /\ phase' = [phase EXCEPT ![f.by] = "start"]
               /\ wsOf' = [wsOf EXCEPT ![f.by] = conn]
      BY <1>0, <2>2, <2>3, <3>1, <3>4 DEF TypeOK, Phases
    <3> QED
      BY <3>2, <3>3, <3>4
  <2> QED
    BY <1>0, <1>00, <1>7, <2>2, <2>4, <2>5 DEF StartRun, TypeOK, soukVars
<1>8. CASE CancelRun
  <2>1. conn \in Conns /\ down' \in [Conns -> Seq(DownFrames)] /\ Head(down[conn]) \in DownFrames
    BY <1>0, <1>8, ReadFacts DEF CancelRun
  <2>2. cancelled' \subseteq Offers
    <3>1. PICK r \in Runs : r = Head(down[conn]).run
      <4>1. Reads("cancel") /\ Head(down[conn]).type = "cancel"
        BY <1>8 DEF CancelRun, Reads
      <4>2. 1 \in DOMAIN down[conn] /\ Head(down[conn]) = down[conn][1]
        BY <1>0, <4>1, ReadFacts
      <4> QED
        BY <1>0, <2>1, <4>1, <4>2 DEF Fresh
    <3>2. cancels[conn][r] \in 0 .. MaxOffers /\ cancelled \subseteq Offers
      BY <1>0, <2>1, <3>1 DEF TypeOK
    <3>3. cancelled' = IF cancels[conn][r] = None THEN cancelled ELSE cancelled \cup {cancels[conn][r]}
      BY <1>8, <3>1 DEF CancelRun
    <3>4. PICK o \in 0 .. MaxOffers : o = cancels[conn][r]
      BY <3>2
    <3>5. o = 0 \/ o \in 1 .. MaxOffers
      OBVIOUS
    <3> QED
      BY <3>2, <3>3, <3>4, <3>5 DEF None, Offers
  <2> QED
    BY <1>0, <1>00, <1>8, <2>1, <2>2 DEF CancelRun, TypeOK, soukVars
<1>9. CASE IgnoreFrame
  <2>1. conn \in Conns /\ down' \in [Conns -> Seq(DownFrames)]
    BY <1>0, <1>9, ReadFacts DEF IgnoreFrame
  <2> QED
    BY <1>0, <1>00, <1>9, <2>1 DEF IgnoreFrame, TypeOK, soukVars
<1>10. ASSUME NEW o \in Offers, EmitStarted(o) \/ EmitAnswer(o) \/ Answered(o)
       PROVE  TypeOK' /\ Connected'
  <2>1. runOf[o] \in Runs /\ wsOf[o] \in Conns
    BY <1>0, <1>10, LiveFacts DEF EmitStarted, EmitAnswer, Answered
  <2>2. up' \in [Conns -> Seq(UpFrames)]
    <3>1. Frame("event", runOf[o], o) \in UpFrames
      BY <2>1 DEF Frame, UpFrames
    <3>2. Wire(wsOf[o], Frame("event", runOf[o], o)) \/ UNCHANGED up
      BY <1>10 DEF EmitStarted, EmitAnswer, Answered, netVars
    <3> QED
      BY <1>0, <2>1, <3>1, <3>2, WireType
  <2>3. phase' \in [Offers -> Phases]
    BY <1>0, <1>10 DEF EmitStarted, EmitAnswer, Answered, TypeOK, Phases
  <2> QED
    BY <1>0, <1>00, <1>10, <2>2, <2>3 DEF EmitStarted, EmitAnswer, Answered, TypeOK, soukVars, netVars
<1>11. ASSUME NEW o \in Offers, Finish(o)
       PROVE  TypeOK' /\ Connected'
  <2>1. runOf[o] \in Runs /\ wsOf[o] \in Conns
    BY <1>0, <1>11, LiveFacts DEF Finish
  <2>2. up' \in [Conns -> Seq(UpFrames)]
    <3>1. Frame("finish", runOf[o], o) \in UpFrames /\ Wire(wsOf[o], Frame("finish", runOf[o], o))
      BY <1>11, <2>1 DEF Frame, UpFrames, Finish, ReportFinish
    <3> QED
      BY <1>0, <2>1, <3>1, WireType
  <2>3. phase' \in [Offers -> Phases] /\ cancelled' \subseteq Offers
    BY <1>0, <1>11 DEF Finish, TypeOK, Phases
  <2>4. cancels' \in [Conns -> [Runs -> 0 .. MaxOffers]]
    BY <1>0, <1>11, <2>1 DEF Finish, TypeOK, None
  <2> QED
    BY <1>0, <1>00, <1>11, <2>2, <2>3, <2>4 DEF Finish, TypeOK, soukVars
<1>12. CASE Attach
  <2>1. conn \in Conns /\ conn \in 0 .. MaxConns
    BY <1>0, <1>12 DEF Attach, Conns
  <2>2. down' \in [Conns -> Seq(DownFrames)]
    <3>1. Frame("welcome", NoRun, None) \in DownFrames
      BY DEF Frame, DownFrames, None
    <3>2. Push(conn, Frame("welcome", NoRun, None)) \/ UNCHANGED down
      BY <1>12 DEF Attach
    <3> QED
      BY <1>0, <2>1, <3>1, <3>2, PushType
  <2> QED
    BY <1>0, <1>00, <1>12, <2>1, <2>2 DEF Attach, TypeOK, probeVars
<1>13. CASE OfferTimesOut
  BY <1>0, <1>13 DEF OfferTimesOut, TypeOK, netVars, probeVars
<1>14. CASE Forget
  BY <1>0, <1>14 DEF Forget, TypeOK, probeVars, Conns
<1>15. ASSUME NEW r \in Runs, Offer(r)
       PROVE  TypeOK' /\ Connected'
  <2>1. soukConn \in Conns /\ made + 1 \in Offers /\ made' = made + 1 /\ made' \in 0 .. MaxOffers
    BY <1>0, <1>15 DEF Offer, TypeOK, Conns, Offers, NoConn
  <2>2. down' \in [Conns -> Seq(DownFrames)]
    <3>1. Frame("run", r, made + 1) \in DownFrames
      BY <2>1 DEF Frame, DownFrames, Offers
    <3> QED
      BY <1>0, <1>15, <2>1, <3>1, PushType DEF Offer
  <2>3. offer' \in [no : Offers, run : Runs, conn : Conns] /\ runOf' \in [Offers -> Runs \cup {NoRun}]
    BY <1>0, <1>15, <2>1 DEF Offer, TypeOK
  <2> QED
    BY <1>0, <1>00, <1>15, <2>1, <2>2, <2>3 DEF Offer, TypeOK, probeVars
<1>16. ASSUME NEW r \in Runs, SoukCancels(r)
       PROVE  TypeOK' /\ Connected'
  <2>1. down' \in [Conns -> Seq(DownFrames)]
    <3>1. Frame("cancel", r, None) \in DownFrames
      BY DEF Frame, DownFrames, None
    <3>2. CASE soukConn = NoConn
      BY <1>0, <1>16, <3>2 DEF SoukCancels
    <3>3. CASE soukConn # NoConn
      <4>1. soukConn \in Conns
        BY <1>0, <3>3 DEF TypeOK, Conns, NoConn
      <4> QED
        BY <1>0, <1>16, <3>1, <3>3, <4>1, PushType DEF SoukCancels
    <3> QED
      BY <3>2, <3>3
  <2>2. status' \in [Runs -> {"queued", "running", "cancelling", "ended"}]
    BY <1>0, <1>16 DEF SoukCancels, TypeOK
  <2> QED
    BY <1>0, <1>00, <1>16, <2>1, <2>2 DEF SoukCancels, TypeOK, probeVars
<1>17. ASSUME NEW c \in Conns, ReadFrame(c)
       PROVE  TypeOK' /\ Connected'
  <2> DEFINE f == Head(up[c])
  <2>1. f \in UpFrames /\ up' \in [Conns -> Seq(UpFrames)]
    BY <1>0, <1>17, QueueFacts DEF ReadFrame
  <2>2. f.run \in Runs \cup {NoRun}
    BY <2>1 DEF UpFrames
  <2>3. Frame("error", f.run, None) \in DownFrames
    BY <2>2 DEF Frame, DownFrames, None
  <2>4. \/ UNCHANGED down \/ Push(c, Frame("error", f.run, None))
    BY <1>17, <2>1 DEF ReadFrame, UpFrames
  <2>5. /\ offer' \in {offer, NoOffer}
        /\ \/ UNCHANGED status
           \/ offer.run = f.run /\ offer.conn = c /\ status' = [status EXCEPT ![f.run] = "running"]
           \/ f.run \in Claimed /\ status' = [status EXCEPT ![f.run] = "ended"]
    BY <1>17, <2>1 DEF ReadFrame, UpFrames
  <2>6. down' \in [Conns -> Seq(DownFrames)]
    BY <1>0, <2>3, <2>4, PushType
  <2>7. status' \in [Runs -> {"queued", "running", "cancelling", "ended"}]
    <3> HIDE DEF f
    <3>1. CASE UNCHANGED status
      BY <1>0, <3>1 DEF TypeOK
    <3>2. CASE offer.run = f.run /\ offer.conn = c /\ status' = [status EXCEPT ![f.run] = "running"]
      BY <1>0, <3>2 DEF TypeOK
    <3>3. CASE f.run \in Claimed /\ status' = [status EXCEPT ![f.run] = "ended"]
      BY <1>0, <3>3 DEF TypeOK
    <3> QED
      BY <2>5, <3>1, <3>2, <3>3
  <2> QED
    BY <1>0, <1>00, <1>17, <2>1, <2>5, <2>6, <2>7 DEF ReadFrame, TypeOK, probeVars
<1>18. ASSUME NEW c \in Conns, Detach(c)
       PROVE  TypeOK' /\ Connected'
  <2>1. soukConn' \in 0 .. MaxConns /\ offer' \in {offer, NoOffer}
    BY <1>0, <1>18 DEF Detach, NoConn
  <2> QED
    BY <1>0, <1>18, <2>1 DEF Detach, TypeOK, netVars, probeVars
<1>19. ASSUME NEW c \in Conns, Drop(c)
       PROVE  TypeOK' /\ Connected'
  <2>1. up' \in [Conns -> Seq(UpFrames)] /\ down' \in [Conns -> Seq(DownFrames)]
    BY <1>0, <1>19, QueueFacts DEF Drop
  <2>2. sock' \in [Conns -> {"none", "up", "dead"}]
    BY <1>0, <1>19 DEF Drop, TypeOK
  <2> QED
    BY <1>0, <1>00, <1>19, <2>1, <2>2 DEF Drop, TypeOK, soukVars, probeVars
<1> QED
  BY <1>1, <1>2, <1>3, <1>4, <1>5, <1>6, <1>7, <1>8, <1>9, <1>10, <1>11, <1>12, <1>13, <1>14, <1>15, <1>16,
     <1>17, <1>18, <1>19 DEF Next

-----------------------------------------------------------------------------
\* What frames under way become when some are read or lost: those that are
\* left were under way before, a number of places further on.
LEMMA FramesLeft ==
  ASSUME Fresh, UNCHANGED <<made, runOf>>,
         NEW k \in [Conns -> Nat],
         \A c \in Conns : \A i \in DOMAIN down'[c] :
           i + k[c] \in DOMAIN down[c] /\ i \in Nat /\ down'[c][i] = down[c][i + k[c]],
         \A c \in Conns : \A i \in DOMAIN down'[c] :
           IsRun(down'[c][i]) => phase'[down'[c][i].by] = phase[down'[c][i].by]
  PROVE  Fresh'
<1> SUFFICES ASSUME NEW c \in Conns, NEW i \in DOMAIN down'[c]
             PROVE  /\ down'[c][i].type = "cancel" => down'[c][i].run \in Runs
                    /\ IsRun(down'[c][i]) =>
                         /\ down'[c][i].by \in 1 .. made'
                         /\ down'[c][i].run = runOf'[down'[c][i].by]
                         /\ phase'[down'[c][i].by] = "none"
                         /\ \A d \in Conns : \A j \in DOMAIN down'[d] :
                              IsRun(down'[d][j]) /\ down'[d][j].by = down'[c][i].by => d = c /\ j = i
  BY DEF Fresh, IsRun
<1>1. i + k[c] \in DOMAIN down[c] /\ i \in Nat /\ k[c] \in Nat /\ down'[c][i] = down[c][i + k[c]]
  OBVIOUS
<1>2. down'[c][i].type = "cancel" => down'[c][i].run \in Runs
  BY <1>1 DEF Fresh
<1>3. ASSUME IsRun(down'[c][i])
      PROVE  /\ down'[c][i].by \in 1 .. made'
             /\ down'[c][i].run = runOf'[down'[c][i].by]
             /\ phase'[down'[c][i].by] = "none"
  BY <1>1, <1>3 DEF Fresh
<1>4. ASSUME IsRun(down'[c][i]), NEW d \in Conns, NEW j \in DOMAIN down'[d],
             IsRun(down'[d][j]), down'[d][j].by = down'[c][i].by
      PROVE  d = c /\ j = i
  <2>1. j + k[d] \in DOMAIN down[d] /\ j \in Nat /\ k[d] \in Nat /\ down'[d][j] = down[d][j + k[d]]
    OBVIOUS
  <2>2. d = c /\ j + k[d] = i + k[c]
    BY <1>1, <1>4, <2>1 DEF Fresh
  <2> QED
    BY <1>1, <2>1, <2>2
<1> QED
  BY <1>2, <1>3, <1>4

\* A frame that is no run frame and names no other run may come behind them.
LEMMA FramesPlus ==
  ASSUME TypeOK, Fresh, UNCHANGED <<made, runOf, phase>>,
         NEW c \in Conns, NEW f, ~ IsRun(f), f.type = "cancel" => f.run \in Runs,
         Push(c, f)
  PROVE  Fresh'
<1>0. down \in [Conns -> Seq(DownFrames)]
  BY DEF TypeOK, DownFrames
<1>1. CASE down' = down
  BY <1>1 DEF Fresh
<1>2. CASE down' = [down EXCEPT ![c] = Append(down[c], f)]
  <2>1. /\ \A d \in Conns : d # c => down'[d] = down[d]
        /\ down'[c] = Append(down[c], f) /\ Len(down[c]) \in Nat
        /\ DOMAIN down[c] = 1 .. Len(down[c])
    BY <1>0, <1>2
  <2>2. /\ DOMAIN down'[c] = 1 .. Len(down[c]) + 1
        /\ \A i \in 1 .. Len(down[c]) : down'[c][i] = down[c][i]
        /\ down'[c][Len(down[c]) + 1] = f
    BY <1>0, <2>1
  <2>3. ASSUME NEW d \in Conns, NEW i \in DOMAIN down'[d]
        PROVE  (i \in DOMAIN down[d] /\ down'[d][i] = down[d][i]) \/ down'[d][i] = f
    BY <2>1, <2>2
  <2> QED
    BY <2>3 DEF Fresh
<1> QED
  BY <1>1, <1>2 DEF Push

\* The first frame of a socket is taken off it.
LEMMA FrameRead ==
  ASSUME TypeOK, Fresh, UNCHANGED <<made, runOf>>,
         NEW c \in Conns, down[c] # <<>>, down' = [down EXCEPT ![c] = Tail(@)],
         \/ UNCHANGED phase
         \/ /\ IsRun(Head(down[c]))
            /\ \E p \in Phases : phase' = [phase EXCEPT ![Head(down[c]).by] = p]
  PROVE  Fresh'
<1> DEFINE k == [d \in Conns |-> IF d = c THEN 1 ELSE 0]
<1>0. down \in [Conns -> Seq(DownFrames)]
  BY DEF TypeOK, DownFrames
<1>1. /\ \A d \in Conns : d # c => down'[d] = down[d]
      /\ down'[c] = Tail(down[c]) /\ Len(down[c]) \in Nat /\ DOMAIN down[c] = 1 .. Len(down[c])
      /\ 1 \in DOMAIN down[c] /\ Head(down[c]) = down[c][1]
  BY <1>0
<1>2. \A d \in Conns : \A i \in DOMAIN down'[d] :
        i + k[d] \in DOMAIN down[d] /\ i \in Nat /\ down'[d][i] = down[d][i + k[d]]
  <2> SUFFICES ASSUME NEW d \in Conns, NEW i \in DOMAIN down'[d]
               PROVE  i + k[d] \in DOMAIN down[d] /\ i \in Nat /\ down'[d][i] = down[d][i + k[d]]
    OBVIOUS
  <2>1. CASE d = c
    <3>1. k[d] = 1
      BY <2>1
    <3> HIDE DEF k
    <3>2. Tail(down[c]) \in Seq(DownFrames) /\ Len(Tail(down[c])) = Len(down[c]) - 1
          /\ DOMAIN Tail(down[c]) = 1 .. Len(down[c]) - 1
          /\ \A m \in 1 .. Len(down[c]) - 1 : Tail(down[c])[m] = down[c][m + 1]
      BY <1>0
    <3>3. i \in 1 .. Len(down[c]) - 1 /\ down'[d][i] = Tail(down[c])[i]
      <4>1. down'[d] = Tail(down[c])
        BY <1>1, <2>1
      <4> QED
        BY <3>2, <4>1
    <3>4. down'[d][i] = down[c][i + 1] /\ i + 1 \in DOMAIN down[c] /\ i \in Nat
      BY <1>1, <3>2, <3>3
    <3> QED
      BY <2>1, <3>1, <3>4
  <2>2. CASE d # c
    <3>1. k[d] = 0 /\ down'[d] = down[d]
      BY <1>1, <2>2
    <3> HIDE DEF k
    <3>2. i \in Nat /\ i + 0 = i
      BY <1>0, <3>1
    <3> QED
      BY <3>1, <3>2
  <2> QED
    BY <2>1, <2>2
<1>3. ASSUME NEW d \in Conns, NEW i \in DOMAIN down'[d], IsRun(down'[d][i])
      PROVE  phase'[down'[d][i].by] = phase[down'[d][i].by]
  <2>1. CASE UNCHANGED phase
    BY <2>1
  <2>2. ASSUME IsRun(Head(down[c])), NEW p \in Phases, phase' = [phase EXCEPT ![Head(down[c]).by] = p]
        PROVE  phase'[down'[d][i].by] = phase[down'[d][i].by]
    <3>1. ~ (d = c /\ i + k[d] = 1)
      <4>1. d = c => k[d] = 1
        OBVIOUS
      <4> HIDE DEF k
      <4>2. down'[c] \in Seq(DownFrames)
        BY <1>0, <1>1
      <4>3. d = c => i \in Nat /\ i >= 1
        BY <4>2
      <4> QED
        BY <4>1, <4>3
    <3>2. down'[d][i].by # Head(down[c]).by /\ down'[d][i].by \in Offers
      <4> HIDE DEF k
      <4>1. down'[d][i] = down[d][i + k[d]] /\ i + k[d] \in DOMAIN down[d]
        BY <1>2
      <4>2. IsRun(down[d][i + k[d]]) /\ down[c][1] = Head(down[c])
        BY <1>1, <1>3, <4>1
      <4>3. down[d][i + k[d]].by # Head(down[c]).by
        BY <1>1, <2>2, <3>1, <4>1, <4>2 DEF Fresh
      <4>4. down[d][i + k[d]].by \in 1 .. made /\ made \in 0 .. MaxOffers
        BY <4>1, <4>2 DEF Fresh, TypeOK
      <4>5. 1 .. made \subseteq Offers
        BY <4>4, ProbeConstants DEF ProbeConstants, Offers
      <4> QED
        BY <4>1, <4>3, <4>4, <4>5
    <3> QED
      BY <2>2, <3>2 DEF TypeOK
  <2> QED
    BY <2>1, <2>2
<1>4. k \in [Conns -> Nat]
  OBVIOUS
<1> HIDE DEF k
<1> QED
  BY <1>2, <1>3, <1>4, FramesLeft

\* A step that puts no frame under way and takes none, nor starts a goroutine.
LEMMA FramesStay ==
  ASSUME TypeOK, Fresh, UNCHANGED <<down, made, runOf>>,
         \A o \in Offers : phase[o] = "none" => phase'[o] = "none"
  PROVE  Fresh'
<1>1. \A o \in 1 .. made : o \in Offers
  BY ProbeConstants DEF ProbeConstants, TypeOK, Offers
<1> QED
  BY <1>1 DEF Fresh

\* An offer is a frame with a number of its own.
LEMMA OfferIsFresh ==
  ASSUME TypeOK, Started, Fresh, NEW r \in Runs, Offer(r)
  PROVE  Fresh'
<1> DEFINE f == Frame("run", r, made + 1)
           n == made + 1
<1>0. /\ down \in [Conns -> Seq(DownFrames)] /\ made \in Nat /\ n \in Offers /\ soukConn \in Conns
      /\ phase \in [Offers -> Phases] /\ runOf \in [Offers -> Runs \cup {NoRun}]
  <2>1. made \in Nat /\ n \in Offers
    BY ProbeConstants DEF ProbeConstants, TypeOK, Offer, Offers
  <2>2. soukConn \in Conns
    BY DEF TypeOK, Offer, Conns, NoConn
  <2> QED
    BY <2>1, <2>2 DEF TypeOK, DownFrames
<1>1. /\ made' = n /\ runOf' = [runOf EXCEPT ![n] = r] /\ UNCHANGED phase
      /\ Push(soukConn, f)
  BY DEF Offer, probeVars
<1>2. /\ f.type = "run" /\ f.run = r /\ f.by = n
  BY DEF Frame
<1>3. phase[n] = "none" /\ runOf'[n] = r
  BY <1>0, <1>1 DEF Started
<1>4. \A m \in 1 .. made : m \in 1 .. n /\ m # n /\ runOf'[m] = runOf[m]
  BY <1>0, <1>1 DEF Offers
<1> HIDE DEF f, n
<1>5. n \in 1 .. n
  BY <1>0 DEF Offers
<1>6. CASE down' = down
  BY <1>1, <1>4, <1>6 DEF Fresh
<1>7. CASE down' = [down EXCEPT ![soukConn] = Append(down[soukConn], f)]
  <2>1. PICK c \in Conns : c = soukConn
    BY <1>0
  <2>2. /\ \A d \in Conns : d # c => down'[d] = down[d]
        /\ down'[c] = Append(down[c], f) /\ Len(down[c]) \in Nat
        /\ DOMAIN down[c] = 1 .. Len(down[c])
    BY <1>0, <1>7, <2>1
  <2>3. /\ DOMAIN down'[c] = 1 .. Len(down[c]) + 1
        /\ \A i \in 1 .. Len(down[c]) : down'[c][i] = down[c][i]
        /\ down'[c][Len(down[c]) + 1] = f
    BY <1>0, <2>2
  <2>4. ASSUME NEW d \in Conns, NEW i \in DOMAIN down'[d]
        PROVE  \/ i \in DOMAIN down[d] /\ down'[d][i] = down[d][i]
               \/ d = c /\ i = Len(down[c]) + 1 /\ down'[d][i] = f
    BY <2>2, <2>3
  <2>5. ASSUME NEW d \in Conns, NEW i \in DOMAIN down[d], down'[d][i] = down[d][i]
        PROVE  /\ down'[d][i].type = "cancel" => down'[d][i].run \in Runs
               /\ IsRun(down'[d][i]) =>
                    /\ down'[d][i].by \in 1 .. n /\ down'[d][i].by # n
                    /\ down'[d][i].run = runOf'[down'[d][i].by]
                    /\ phase[down'[d][i].by] = "none"
    BY <1>4, <2>5 DEF Fresh
  <2> SUFFICES ASSUME NEW d \in Conns, NEW i \in DOMAIN down'[d]
               PROVE  /\ down'[d][i].type = "cancel" => down'[d][i].run \in Runs
                      /\ IsRun(down'[d][i]) =>
                           /\ down'[d][i].by \in 1 .. made'
                           /\ down'[d][i].run = runOf'[down'[d][i].by]
                           /\ phase'[down'[d][i].by] = "none"
                           /\ \A e \in Conns : \A j \in DOMAIN down'[e] :
                                IsRun(down'[e][j]) /\ down'[e][j].by = down'[d][i].by => e = d /\ j = i
    BY DEF Fresh, IsRun
  <2>6. /\ down'[d][i].type = "cancel" => down'[d][i].run \in Runs
        /\ IsRun(down'[d][i]) =>
             /\ down'[d][i].by \in 1 .. made'
             /\ down'[d][i].run = runOf'[down'[d][i].by]
             /\ phase'[down'[d][i].by] = "none"
    BY <1>1, <1>2, <1>3, <1>5, <2>4, <2>5
  <2>7. ASSUME IsRun(down'[d][i]), NEW e \in Conns, NEW j \in DOMAIN down'[e],
               IsRun(down'[e][j]), down'[e][j].by = down'[d][i].by
        PROVE  e = d /\ j = i
    <3>1. CASE i \in DOMAIN down[d] /\ down'[d][i] = down[d][i]
      <4>1. j \in DOMAIN down[e] /\ down'[e][j] = down[e][j]
        BY <1>2, <2>4, <2>5, <2>7, <3>1
      <4> QED
        BY <2>7, <3>1, <4>1 DEF Fresh
    <3>2. CASE d = c /\ i = Len(down[c]) + 1 /\ down'[d][i] = f
      <4>1. e = c /\ j = Len(down[c]) + 1
        BY <1>2, <2>4, <2>5, <2>7, <3>2
      <4> QED
        BY <3>2, <4>1
    <3> QED
      BY <2>4, <3>1, <3>2
  <2> QED
    BY <2>6, <2>7
<1> QED
  BY <1>1, <1>6, <1>7 DEF Push

\* A socket that dies takes the last of its frames with it.
LEMMA DropKeepsFresh ==
  ASSUME TypeOK, Fresh, NEW c \in Conns, Drop(c)
  PROVE  Fresh'
<1> DEFINE k == [d \in Conns |-> 0]
<1>0. down \in [Conns -> Seq(DownFrames)]
  BY DEF TypeOK, DownFrames
<1>1. PICK n \in 0 .. Len(down[c]) : down' = [down EXCEPT ![c] = SubSeq(down[c], 1, n)]
  BY DEF Drop
<1>2. /\ \A d \in Conns : d # c => down'[d] = down[d]
      /\ down'[c] = SubSeq(down[c], 1, n) /\ Len(down[c]) \in Nat
      /\ DOMAIN down[c] = 1 .. Len(down[c])
  BY <1>0, <1>1
<1>3. DOMAIN down'[c] = 1 .. n /\ \A i \in 1 .. n : down'[c][i] = down[c][i] /\ i \in DOMAIN down[c]
  <2>1. \A i \in 1 .. n : down[c][i] \in DownFrames
    BY <1>0, <1>2
  <2>2. /\ SubSeq(down[c], 1, n) \in Seq(DownFrames) /\ Len(SubSeq(down[c], 1, n)) = n
        /\ \A i \in 1 .. n : SubSeq(down[c], 1, n)[i] = down[c][i]
    BY <1>0, <2>1
  <2> QED
    BY <1>2, <2>2
<1>4. ASSUME NEW d \in Conns, NEW i \in DOMAIN down'[d]
      PROVE  i \in DOMAIN down[d] /\ i \in Nat /\ down'[d][i] = down[d][i]
  BY <1>0, <1>2, <1>3
<1>5. ASSUME NEW d \in Conns, NEW i \in DOMAIN down'[d]
      PROVE  i + k[d] \in DOMAIN down[d] /\ i \in Nat /\ down'[d][i] = down[d][i + k[d]]
  <2>1. k[d] = 0 /\ i + 0 = i
    BY <1>4
  <2> HIDE DEF k
  <2> QED
    BY <1>4, <2>1
<1>6. k \in [Conns -> Nat]
  OBVIOUS
<1>7. UNCHANGED <<made, runOf, phase>>
  BY DEF Drop, soukVars, probeVars
<1> HIDE DEF k
<1> QED
  BY <1>5, <1>6, <1>7, FramesLeft

\* Every step keeps the frames under way the offers they were.
LEMMA FreshStep == ProbeInv /\ [Next]_vars => Fresh'
<1> SUFFICES ASSUME ProbeInv, [Next]_vars
             PROVE  Fresh'
  OBVIOUS
<1>0. TypeOK /\ Connected /\ Started /\ Fresh
  BY DEF ProbeInv
<1>1. CASE \/ Boot \/ Dial \/ DialFails \/ ConnectionEnds \/ Terminate \/ OfferTimesOut \/ Forget
           \/ \E o \in Offers : EmitStarted(o) \/ Answered(o) \/ EmitAnswer(o) \/ Finish(o)
           \/ \E c \in Conns : Detach(c)
           \/ UNCHANGED vars
  <2>1. UNCHANGED <<down, made, runOf>>
    BY <1>1 DEF Boot, Dial, DialFails, ConnectionEnds, Terminate, OfferTimesOut, Forget, EmitStarted,
                Answered, EmitAnswer, Finish, Detach, vars, soukVars, netVars
  <2>2. \A o \in Offers : phase[o] = "none" => phase'[o] = "none"
    BY <1>0, <1>1 DEF Boot, Dial, DialFails, ConnectionEnds, Terminate, OfferTimesOut, Forget, EmitStarted,
                      Answered, EmitAnswer, Finish, Detach, vars, probeVars, Live, TypeOK
  <2> QED
    BY <1>0, <2>1, <2>2, FramesStay
<1>2. CASE Welcomed
  BY <1>0, <1>2, FrameRead DEF Welcomed, Connected, soukVars
<1>3. CASE StartRun \/ CancelRun \/ IgnoreFrame
  <2>1. PICK type : Reads(type)
    BY <1>3 DEF StartRun, CancelRun, IgnoreFrame
  <2>2. /\ conn \in Conns /\ down[conn] # <<>> /\ down' = [down EXCEPT ![conn] = Tail(@)]
        /\ UNCHANGED <<made, runOf>>
    BY <1>0, <1>3, <2>1, ReadFacts DEF Reads, StartRun, CancelRun, IgnoreFrame, soukVars
  <2>3. \/ UNCHANGED phase
        \/ /\ IsRun(Head(down[conn]))
           /\ \E p \in Phases : phase' = [phase EXCEPT ![Head(down[conn]).by] = p]
    BY <1>3 DEF StartRun, CancelRun, IgnoreFrame, Reads, IsRun, Phases
  <2>4. PICK c \in Conns : c = conn
    BY <2>2
  <2> QED
    BY <1>0, <2>2, <2>3, <2>4, FrameRead
<1>4. CASE Attach
  <2>1. PICK c \in Conns : c = conn
    BY <1>0, <1>4 DEF Attach, Connected
  <2>2. Push(c, Frame("welcome", NoRun, None)) \/ UNCHANGED down
    BY <1>4, <2>1 DEF Attach
  <2>3. UNCHANGED <<made, runOf, phase>>
    BY <1>4 DEF Attach, probeVars
  <2>4. LET f == Frame("welcome", NoRun, None) IN ~ IsRun(f) /\ f.type # "cancel"
    BY DEF IsRun, Frame
  <2> QED
    BY <1>0, <2>2, <2>3, <2>4, FramesPlus, FramesStay
<1>5. ASSUME NEW r \in Runs, SoukCancels(r)
      PROVE  Fresh'
  <2>1. UNCHANGED <<made, runOf, phase>>
    BY <1>5 DEF SoukCancels, probeVars
  <2>2. LET f == Frame("cancel", r, None) IN ~ IsRun(f) /\ f.run \in Runs
    BY DEF IsRun, Frame
  <2>3. CASE soukConn = NoConn
    BY <1>0, <1>5, <2>1, <2>3, FramesStay DEF SoukCancels
  <2>4. CASE soukConn # NoConn
    <3>1. PICK c \in Conns : c = soukConn
      BY <1>0, <2>4 DEF TypeOK, Conns, NoConn
    <3>2. Push(c, Frame("cancel", r, None))
      BY <1>5, <2>4, <3>1 DEF SoukCancels
    <3> QED
      BY <1>0, <2>1, <2>2, <3>2, FramesPlus
  <2> QED
    BY <2>3, <2>4
<1>6. ASSUME NEW c \in Conns, ReadFrame(c)
      PROVE  Fresh'
  <2>1. UNCHANGED <<made, runOf, phase>>
    BY <1>6 DEF ReadFrame, probeVars
  <2>2. PICK run : UNCHANGED down \/ Push(c, Frame("error", run, None))
    <3>1. Head(up[c]) \in UpFrames
      BY <1>0, <1>6, QueueFacts DEF ReadFrame, TypeOK, UpFrames
    <3> QED
      BY <1>6, <3>1 DEF ReadFrame, UpFrames
  <2>3. LET f == Frame("error", run, None) IN ~ IsRun(f) /\ f.type # "cancel"
    BY DEF IsRun, Frame
  <2> QED
    BY <1>0, <2>1, <2>2, <2>3, FramesPlus, FramesStay
<1> QED
  BY <1>0, <1>1, <1>2, <1>3, <1>4, <1>5, <1>6, OfferIsFresh, DropKeepsFresh DEF Next

-----------------------------------------------------------------------------
\* What startRun starts: the goroutine of an offer that has none yet, unless
\* the socket is gone.
LEMMA StartFacts ==
  ASSUME TypeOK, Connected, Started, Fresh, StartRun
  PROVE  /\ conn \in Conns
         /\ \/ UNCHANGED <<cancels, phase, wsOf>>
            \/ \E n \in 1 .. made :
                 /\ n \in Offers /\ phase[n] = "none" /\ wsOf[n] = NoConn /\ runOf[n] \in Runs
                 /\ cancels' = [cancels EXCEPT ![conn][runOf[n]] = n]
                 /\ phase' = [phase EXCEPT ![n] = "start"]
                 /\ wsOf' = [wsOf EXCEPT ![n] = conn]
<1>1. Reads("run") /\ Head(down[conn]).type = "run"
  BY DEF StartRun, Reads
<1>2. conn \in Conns /\ 1 \in DOMAIN down[conn] /\ Head(down[conn]) = down[conn][1]
  BY <1>1, ReadFacts
<1>3. PICK n : n = Head(down[conn]).by
  OBVIOUS
<1>4. /\ n \in 1 .. made /\ phase[n] = "none" /\ Head(down[conn]).run = runOf[n]
  BY <1>1, <1>2, <1>3 DEF Fresh, IsRun
<1>5. n \in Offers
  BY <1>4, ProbeConstants DEF ProbeConstants, TypeOK, Offers
<1>6. wsOf[n] = NoConn /\ runOf[n] \in Runs
  BY <1>4, <1>5 DEF Started
<1>7. \/ UNCHANGED <<cancels, phase, wsOf>>
      \/ /\ cancels' = [cancels EXCEPT ![conn][runOf[n]] = n]
         /\ phase' = [phase EXCEPT ![n] = "start"]
         /\ wsOf' = [wsOf EXCEPT ![n] = conn]
  BY <1>3, <1>4 DEF StartRun, KeepCancel
<1> QED
  BY <1>2, <1>4, <1>5, <1>6, <1>7

\* Every step keeps a goroutine to the offer and the socket it was started by.
LEMMA StartedStep == ProbeInv /\ [Next]_vars => Started'
<1> SUFFICES ASSUME ProbeInv, [Next]_vars
             PROVE  Started'
  OBVIOUS
<1>0. /\ TypeOK /\ Connected /\ Started /\ Fresh
      /\ made \in Nat /\ conn \in Nat
  <2>1. TypeOK /\ Connected /\ Started /\ Fresh
    BY DEF ProbeInv
  <2>2. made \in Nat /\ conn \in Nat
    BY <2>1 DEF TypeOK
  <2> QED
    BY <2>1, <2>2
<1>1. CASE \/ Boot \/ DialFails \/ Welcomed \/ ConnectionEnds \/ CancelRun \/ IgnoreFrame
           \/ Attach \/ OfferTimesOut \/ Forget
           \/ \E r \in Runs : SoukCancels(r)
           \/ \E c \in Conns : ReadFrame(c) \/ Detach(c) \/ Drop(c)
           \/ UNCHANGED vars
  <2>1. UNCHANGED <<made, runOf, phase, wsOf, conn>>
    BY <1>1 DEF Boot, DialFails, Welcomed, ConnectionEnds, CancelRun, IgnoreFrame, Attach, OfferTimesOut,
                Forget, SoukCancels, ReadFrame, Detach, Drop, vars, soukVars, probeVars
  <2> QED
    BY <1>0, <2>1 DEF Started
<1>2. CASE Dial
  <2>1. UNCHANGED <<made, runOf, phase, wsOf>> /\ conn' = conn + 1
    BY <1>2 DEF Dial
  <2> QED
    BY <1>0, <2>1 DEF Started
<1>3. ASSUME UNCHANGED <<made, runOf, wsOf, conn>>,
             \A o \in Offers : phase'[o] = "none" <=> phase[o] = "none"
      PROVE  Started'
  BY <1>0, <1>3 DEF Started
<1>4. CASE Terminate
  BY <1>0, <1>3, <1>4 DEF Terminate, Live, TypeOK, soukVars
<1>5. ASSUME NEW o \in Offers, EmitStarted(o) \/ Answered(o) \/ EmitAnswer(o) \/ Finish(o)
      PROVE  Started'
  BY <1>0, <1>3, <1>5 DEF EmitStarted, Answered, EmitAnswer, Finish, TypeOK, soukVars
<1>6. CASE StartRun
  <2>0. UNCHANGED <<made, runOf, conn>>
    BY <1>6 DEF StartRun, soukVars
  <2>1. CASE UNCHANGED <<cancels, phase, wsOf>>
    BY <1>0, <2>0, <2>1 DEF Started
  <2>2. ASSUME NEW n \in 1 .. made, n \in Offers, phase' = [phase EXCEPT ![n] = "start"],
               wsOf' = [wsOf EXCEPT ![n] = conn]
        PROVE  Started'
    <3>1. conn \in 1 .. conn
      BY <1>0, <1>6, StartFacts DEF Conns
    <3>2. /\ phase'[n] = "start" /\ wsOf'[n] = conn /\ n <= made
          /\ \A o \in Offers : o # n => phase'[o] = phase[o] /\ wsOf'[o] = wsOf[o]
      BY <1>0, <2>2 DEF TypeOK
    <3> QED
      BY <1>0, <2>0, <3>1, <3>2 DEF Started, Offers
  <2> QED
    BY <1>0, <1>6, <2>1, <2>2, StartFacts
<1>7. ASSUME NEW r \in Runs, Offer(r)
      PROVE  Started'
  <2>1. /\ made' = made + 1 /\ made + 1 \in Offers /\ UNCHANGED <<phase, wsOf, conn>>
        /\ runOf' = [runOf EXCEPT ![made + 1] = r]
    BY <1>0, <1>7, ProbeConstants DEF ProbeConstants, Offer, Offers, probeVars
  <2>2. runOf'[made + 1] = r /\ \A o \in Offers : o # made + 1 => runOf'[o] = runOf[o]
    BY <1>0, <2>1 DEF TypeOK
  <2>3. \A o \in Offers : o > made' => o > made
    BY <1>0, <2>1 DEF Offers
  <2>4. \A o \in Offers : o \in 1 .. made' => o = made + 1 \/ o \in 1 .. made
    BY <1>0, <2>1 DEF Offers
  <2> QED
    BY <1>0, <2>1, <2>2, <2>3, <2>4 DEF Started
<1> QED
  BY <1>1, <1>2, <1>4, <1>5, <1>6, <1>7 DEF Next

\* Every step keeps the cancel functions where a cancel looks for them.
LEMMA KeptStep == ProbeInv /\ [Next]_vars => Kept'
<1> SUFFICES ASSUME ProbeInv, [Next]_vars, NEW o \in Offers, Live(o)',
                    \A other \in Offers \ {o} : ~ (runOf'[other] = runOf'[o] /\ wsOf'[other] = wsOf'[o])
             PROVE  cancels'[wsOf'[o]][runOf'[o]] = o
  BY DEF Kept
<1>0. TypeOK /\ Connected /\ Started /\ Fresh /\ Kept /\ made \in Nat
  <2>1. TypeOK /\ Connected /\ Started /\ Fresh /\ Kept
    BY DEF ProbeInv
  <2>2. made \in Nat
    BY <2>1 DEF TypeOK
  <2> QED
    BY <2>1, <2>2
<1>1. ASSUME UNCHANGED <<runOf, wsOf, cancels>>, Live(o)
      PROVE  cancels'[wsOf'[o]][runOf'[o]] = o
  BY <1>0, <1>1 DEF Kept
<1>2. CASE \/ Boot \/ Dial \/ DialFails \/ Welcomed \/ ConnectionEnds \/ CancelRun \/ IgnoreFrame
           \/ Attach \/ OfferTimesOut \/ Forget
           \/ \E r \in Runs : SoukCancels(r)
           \/ \E c \in Conns : ReadFrame(c) \/ Detach(c) \/ Drop(c)
           \/ UNCHANGED vars
  <2>1. UNCHANGED <<runOf, phase, wsOf, cancels>>
    BY <1>2 DEF Boot, Dial, DialFails, Welcomed, ConnectionEnds, CancelRun, IgnoreFrame, Attach, OfferTimesOut,
                Forget, SoukCancels, ReadFrame, Detach, Drop, vars, soukVars, probeVars
  <2>2. Live(o)
    BY <2>1 DEF Live
  <2> QED
    BY <1>1, <2>1, <2>2
<1>3. CASE Terminate
  <2>1. UNCHANGED <<runOf, wsOf, cancels>>
    BY <1>3 DEF Terminate, soukVars
  <2>2. Live(o)
    BY <1>0, <1>3 DEF Terminate, Live, TypeOK
  <2> QED
    BY <1>1, <2>1, <2>2
<1>4. ASSUME NEW n \in Offers, EmitStarted(n) \/ Answered(n) \/ EmitAnswer(n)
      PROVE  cancels'[wsOf'[o]][runOf'[o]] = o
  <2>1. UNCHANGED <<runOf, wsOf, cancels>>
    BY <1>4 DEF EmitStarted, Answered, EmitAnswer, soukVars
  <2>2. Live(o)
    BY <1>0, <1>4 DEF EmitStarted, Answered, EmitAnswer, Live, TypeOK
  <2> QED
    BY <1>1, <2>1, <2>2
<1>5. ASSUME NEW n \in Offers, Finish(n)
      PROVE  cancels'[wsOf'[o]][runOf'[o]] = o
  <2>1. /\ phase[n] = "finish" /\ phase' = [phase EXCEPT ![n] = "returned"]
        /\ cancels' = [cancels EXCEPT ![wsOf[n]][runOf[n]] = None]
        /\ UNCHANGED <<runOf, wsOf>>
    BY <1>5 DEF Finish, soukVars
  <2>2. o # n /\ Live(o)
    BY <1>0, <2>1 DEF Live, TypeOK
  <2>3. runOf[o] # runOf[n] \/ wsOf[o] # wsOf[n]
    BY <2>1, <2>2
  <2>4. cancels[wsOf[o]][runOf[o]] = o
    BY <1>0, <2>1, <2>2 DEF Kept
  <2>5. /\ wsOf[o] \in Conns /\ runOf[o] \in Runs
        /\ wsOf[n] \in Conns /\ runOf[n] \in Runs
    BY <1>0, <2>1, <2>2, LiveFacts DEF Live
  <2>6. cancels'[wsOf[o]][runOf[o]] = cancels[wsOf[o]][runOf[o]]
    BY <1>0, <2>1, <2>3, <2>5 DEF TypeOK
  <2> QED
    BY <2>1, <2>4, <2>6
<1>6. CASE StartRun
  <2>0. UNCHANGED runOf /\ conn \in Conns
    BY <1>0, <1>6, StartFacts DEF StartRun, soukVars
  <2>1. CASE UNCHANGED <<cancels, phase, wsOf>>
    BY <1>1, <2>0, <2>1 DEF Live
  <2>2. ASSUME NEW n \in 1 .. made, n \in Offers, phase[n] = "none", wsOf[n] = NoConn, runOf[n] \in Runs,
               cancels' = [cancels EXCEPT ![conn][runOf[n]] = n],
               phase' = [phase EXCEPT ![n] = "start"],
               wsOf' = [wsOf EXCEPT ![n] = conn]
        PROVE  cancels'[wsOf'[o]][runOf'[o]] = o
    <3>0. /\ wsOf'[n] = conn
          /\ \A m \in Offers : m # n => wsOf'[m] = wsOf[m] /\ phase'[m] = phase[m]
      BY <1>0, <2>2 DEF TypeOK
    <3>1. CASE o = n
      BY <1>0, <2>0, <2>2, <3>0, <3>1 DEF TypeOK
    <3>2. CASE o # n
      <4>1. Live(o) /\ wsOf[o] \in Conns /\ runOf[o] \in Runs
        <5>1. Live(o)
          BY <3>0, <3>2 DEF Live
        <5> QED
          BY <1>0, <5>1, LiveFacts DEF Live
      <4>2. cancels[wsOf[o]][runOf[o]] = o
        <5>1. \A other \in Offers \ {o} : ~ (runOf[other] = runOf[o] /\ wsOf[other] = wsOf[o])
          <6>1. wsOf[n] # wsOf[o]
            BY <2>2, <4>1 DEF NoConn, Conns
          <6> QED
            BY <2>0, <3>0, <3>2, <6>1
        <5> QED
          BY <1>0, <4>1, <5>1 DEF Kept
      <4>3. ~ (runOf[n] = runOf[o] /\ conn = wsOf[o])
        BY <2>0, <2>2, <3>0, <3>2
      <4>4. cancels'[wsOf[o]][runOf[o]] = cancels[wsOf[o]][runOf[o]]
        BY <1>0, <2>0, <2>2, <4>1, <4>3 DEF TypeOK
      <4> QED
        BY <2>0, <3>0, <3>2, <4>2, <4>4
    <3> QED
      BY <3>1, <3>2
  <2> QED
    BY <1>0, <1>6, <2>1, <2>2, StartFacts
<1>7. ASSUME NEW r \in Runs, Offer(r)
      PROVE  cancels'[wsOf'[o]][runOf'[o]] = o
  <2>1. /\ made + 1 \in Offers /\ UNCHANGED <<phase, wsOf, cancels>>
        /\ runOf' = [runOf EXCEPT ![made + 1] = r]
    BY <1>0, <1>7, ProbeConstants DEF ProbeConstants, Offer, Offers, probeVars
  <2>2. \A m \in Offers : m # made + 1 => runOf'[m] = runOf[m]
    BY <1>0, <2>1 DEF TypeOK
  <2>3. phase[made + 1] = "none" /\ wsOf[made + 1] = NoConn
    BY <1>0, <2>1 DEF Started, Offers
  <2>4. Live(o) /\ o # made + 1
    BY <2>1, <2>3 DEF Live
  <2>5. wsOf[o] # NoConn
    BY <1>0, <2>4, LiveFacts DEF Live, Conns, NoConn
  <2>6. \A other \in Offers \ {o} : ~ (runOf[other] = runOf[o] /\ wsOf[other] = wsOf[o])
    BY <2>1, <2>2, <2>3, <2>4, <2>5
  <2> QED
    BY <1>0, <2>1, <2>2, <2>4, <2>6 DEF Kept
<1> QED
  BY <1>2, <1>3, <1>4, <1>5, <1>6, <1>7 DEF Next

\* All of it is kept by every step.
LEMMA ProbeStep == ProbeInv /\ [Next]_vars => ProbeInv'
  BY TypeStep, StartedStep, FreshStep, KeptStep DEF ProbeInv

\* While serve reads a socket, a cancel for a run that came by it once finds
\* that run's cancel function, whatever offers, timeouts, drops and
\* reconnections went before.
THEOREM CancelAlwaysFinds == Spec => []CancelFindsTheRun
<1>1. ProbeInv => CancelFindsTheRun
  BY DEF ProbeInv, Kept, CancelFindsTheRun
<1> QED
  BY <1>1, ProbeInit, ProbeStep, PTL DEF Spec

\* Goroutines, tables of cancels and wires keep their types, whatever souk
\* offers and whichever sockets go.
THEOREM TypeCorrect == Spec => []TypeOK
<1>1. ProbeInv => TypeOK
  BY DEF ProbeInv
<1> QED
  BY <1>1, ProbeInit, ProbeStep, PTL DEF Spec

=============================================================================
