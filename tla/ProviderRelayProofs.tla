------------------------- MODULE ProviderRelayProofs -------------------------
(***************************************************************************)
(* Safety of the run relay for every number of runs, sockets, offers and   *)
(* events and every capacity.                                              *)
(***************************************************************************)
EXTENDS ProviderRelay, SequenceTheorems, TLAPS

\* What the queues do to the set their elements come from.
LEMMA QueueFacts ==
  ASSUME NEW S
  PROVE  /\ <<>> \in Seq(S)
         /\ \A s \in Seq(S), x \in S : Append(s, x) \in Seq(S)
         /\ \A s \in Seq(S) : s # <<>> => Head(s) \in S /\ Tail(s) \in Seq(S)
         /\ \A s \in Seq(S) : \A i \in 0 .. Len(s) : SubSeq(s, 1, i) \in Seq(S)
<1>1. <<>> \in Seq(S)
  OBVIOUS
<1>2. ASSUME NEW s \in Seq(S), NEW x \in S
      PROVE  Append(s, x) \in Seq(S)
  OBVIOUS
<1>3. ASSUME NEW s \in Seq(S), s # <<>>
      PROVE  Head(s) \in S /\ Tail(s) \in Seq(S)
  BY <1>3, HeadTailProperties
<1>4. ASSUME NEW s \in Seq(S), NEW i \in 0 .. Len(s)
      PROVE  SubSeq(s, 1, i) \in Seq(S)
  <2>1. \A j \in 1 .. i : s[j] \in S
    BY <1>4, ElementOfSeq
  <2> QED
    BY <2>1, SubSeqProperties
<1> QED
  BY <1>1, <1>2, <1>3, <1>4

-----------------------------------------------------------------------------
\* The gateway's Send keeps a queue of frames a queue of frames.
LEMMA SendType ==
  ASSUME NEW S, down \in [Conns -> Seq(S)], NEW c \in Conns, NEW f \in S, Send(c, f)
  PROVE  down' \in [Conns -> Seq(S)]
  BY QueueFacts DEF Send

\* Every variable keeps its type.
LEMMA TypeInit == Init => TypeOK
<1> SUFFICES ASSUME Init PROVE TypeOK
  OBVIOUS
<1>1. /\ events \in [Runs -> Seq(Offers \X (0 .. Events))]
      /\ down \in [Conns -> Seq(DownFrames)]
      /\ up \in [Conns -> Seq(UpFrames)]
      /\ outbound \in Seq(UpFrames)
  BY DEF Init
<1>2. offer \in OffersOut \cup {NoOffer}
  BY DEF Init
<1>3. sdkConn \in 0 .. MaxConns /\ made \in 0 .. MaxOffers /\ emitted \in [Offers -> 0 .. Events]
  BY ConstantsAssumption DEF ConstantsAssumption, Init, NoConn
<1> QED
  BY <1>1, <1>2, <1>3 DEF Init, TypeOK, Statuses

\* No step takes a variable outside its type.
LEMMA TypeStep == TypeOK /\ [Next]_vars => TypeOK'
<1> SUFFICES ASSUME TypeOK, [Next]_vars
             PROVE  TypeOK'
  OBVIOUS
<1> USE ConstantsAssumption DEF ConstantsAssumption, TypeOK
<1>1. ASSUME NEW r \in Runs, StartRun(r)
      PROVE  TypeOK'
  BY <1>1 DEF StartRun, Statuses, linkVars, netVars, sdkVars, runtimeVars
<1>2. ASSUME NEW r \in Runs, Deliver(r)
      PROVE  TypeOK'
  <2>1. current \in Conns /\ NextOffer \in Offers /\ NextOffer \in 0 .. MaxOffers
    BY <1>2 DEF Deliver, Offerable, NoConn, Offers
  <2>2. Frame("run", r, NextOffer, 0) \in DownFrames
    BY <2>1 DEF Frame, DownFrames
  <2>3. down' \in [Conns -> Seq(DownFrames)]
    BY <1>2, <2>1, <2>2, SendType DEF Deliver
  <2>4. offer' \in OffersOut
    BY <1>2, <2>1 DEF Deliver, OffersOut
  <2>5. runOf' \in [Offers -> Runs \cup {NoRun}] /\ acks' \in [Conns -> SUBSET Runs]
    BY <1>2, <2>1 DEF Deliver
  <2> QED
    BY <1>2, <2>1, <2>3, <2>4, <2>5 DEF Deliver, netVars, sdkVars, runtimeVars
<1>3. ASSUME NEW r \in Runs, DeliverInvalid(r)
      PROVE  TypeOK'
  BY <1>3 DEF DeliverInvalid, Statuses, linkVars, netVars, sdkVars, runtimeVars
<1>4. ASSUME NEW r \in Runs, CancelRun(r)
      PROVE  TypeOK'
  <2>1. Frame("cancel", r, 0, 0) \in DownFrames
    BY DEF Frame, DownFrames
  <2>2. down' \in [Conns -> Seq(DownFrames)]
    BY <1>4, <2>1, SendType DEF CancelRun, NoConn
  <2>3. PICK x \in {"cancelled", "cancelling"} : status' = [status EXCEPT ![r] = x]
    BY <1>4 DEF CancelRun
  <2>4. x \in Statuses
    BY DEF Statuses
  <2>5. status' \in [Runs -> Statuses]
    BY <2>3, <2>4
  <2> QED
    BY <1>4, <2>2, <2>5 DEF CancelRun, netVars, sdkVars, runtimeVars
<1>5. ASSUME offer # NoOffer
      PROVE  offer \in OffersOut /\ offer.run \in Runs /\ offer.conn \in Conns
  BY <1>5 DEF OffersOut
<1>6. CASE OfferReturns
  <2>1. acks' \in [Conns -> SUBSET Runs]
    BY <1>6, <1>5 DEF OfferReturns, PopWaiter
  <2> DEFINE x == IF offer.answer = "accept" THEN "running" ELSE "failed"
  <2>4. x \in Statuses
    BY DEF Statuses
  <2>5. status' = status \/ status' = [status EXCEPT ![offer.run] = x]
    BY <1>6 DEF OfferReturns
  <2> HIDE DEF x
  <2>2. status' \in [Runs -> Statuses]
    BY <2>4, <2>5
  <2>3. parked' \subseteq Runs
    BY <1>6, <1>5 DEF OfferReturns
  <2> QED
    BY <1>6, <2>1, <2>2, <2>3 DEF OfferReturns, netVars, sdkVars, runtimeVars
<1>7. CASE OfferTimesOut
  <2>1. acks' \in [Conns -> SUBSET Runs] /\ parked' \subseteq Runs
    BY <1>7, <1>5 DEF OfferTimesOut, PopWaiter
  <2> QED
    BY <1>7, <2>1 DEF OfferTimesOut, netVars, sdkVars, runtimeVars
<1>8. ASSUME NEW c \in Conns, Attach(c) \/ AttachReturns(c)
      PROVE  TypeOK'
  BY <1>8 DEF Attach, AttachReturns, brokerVars, netVars, sdkVars, runtimeVars
<1>9. ASSUME NEW c \in Conns, AttachRefused(c)
      PROVE  TypeOK'
  <2>1. down' \in [Conns -> Seq(DownFrames)] /\ up' \in [Conns -> Seq(UpFrames)]
    BY <1>9 DEF AttachRefused
  <2> QED
    BY <1>9, <2>1 DEF AttachRefused, brokerVars, sdkVars, runtimeVars
<1>10. ASSUME NEW c \in Conns, NEW types, Reads(c, types)
       PROVE  Head(up[c]) \in UpFrames /\ up' \in [Conns -> Seq(UpFrames)] /\ sock' = sock
  BY <1>10, QueueFacts DEF Reads
<1>11. ASSUME NEW r \in Runs \cup {NoRun}, NEW c \in Conns, Send(c, Frame("error", r, 0, 0))
       PROVE  down' \in [Conns -> Seq(DownFrames)]
  <2>1. Frame("error", r, 0, 0) \in DownFrames
    BY DEF Frame, DownFrames
  <2> QED
    BY <1>11, <2>1, SendType
<1>12. ASSUME NEW c \in Conns, ReadAck(c)
       PROVE  TypeOK'
  <2>1. Head(up[c]) \in UpFrames /\ Head(up[c]).type \in AckTypes /\ up' \in [Conns -> Seq(UpFrames)] /\ sock' = sock
    BY <1>10, <1>12 DEF ReadAck, Reads
  <2>2. CASE offer.answer = "waiting"
    <3>1. offer \in OffersOut
      BY <2>2 DEF NoOffer
    <3>2. Head(up[c]).by \in 0 .. MaxOffers
      BY <2>1 DEF UpFrames, Offers
    <3>3. [offer EXCEPT !.answer = Head(up[c]).type, !.by = Head(up[c]).by] \in OffersOut
      BY <2>1, <3>1, <3>2 DEF OffersOut
    <3>4. offer' \in OffersOut
      BY <1>12, <3>1, <3>3 DEF ReadAck
    <3> QED
      BY <1>12, <2>1, <3>4 DEF ReadAck, linkVars, sdkVars, runtimeVars
  <2>3. CASE offer.answer # "waiting"
    BY <1>12, <2>1, <2>3 DEF ReadAck, linkVars, sdkVars, runtimeVars
  <2> QED
    BY <2>2, <2>3
<1>13. ASSUME NEW c \in Conns, ReadEvent(c)
       PROVE  TypeOK'
  <2> DEFINE f == Head(up[c])
  <2>1. f \in UpFrames /\ up' \in [Conns -> Seq(UpFrames)] /\ sock' = sock
    BY <1>10, <1>13 DEF ReadEvent
  <2>2. f.run \in Runs \cup {NoRun} /\ <<f.by, f.n>> \in Offers \X (0 .. Events)
    BY <2>1 DEF UpFrames
  <2>3. CASE f.run \in Claimed
    <3>1. f.run \in Runs
      BY <2>3 DEF Claimed
    <3>2. Append(events[f.run], <<f.by, f.n>>) \in Seq(Offers \X (0 .. Events))
      BY <2>2, <3>1, QueueFacts
    <3>4. events' = [events EXCEPT ![f.run] = Append(@, <<f.by, f.n>>)] /\ down' = down
      BY <1>13, <2>3 DEF ReadEvent
    <3>3. events' \in [Runs -> Seq(Offers \X (0 .. Events))] /\ down' = down
      BY <3>1, <3>2, <3>4
    <3> QED
      BY <1>13, <2>1, <3>3 DEF ReadEvent, sdkVars, runtimeVars
  <2>4. CASE f.run \notin Claimed
    <3>1. down' \in [Conns -> Seq(DownFrames)] /\ events' = events
      BY <1>11, <1>13, <2>2, <2>4 DEF ReadEvent
    <3> QED
      BY <1>13, <2>1, <3>1 DEF ReadEvent, sdkVars, runtimeVars
  <2> QED
    BY <2>3, <2>4
<1>14. ASSUME NEW c \in Conns, ReadFinish(c)
       PROVE  TypeOK'
  <2> DEFINE f == Head(up[c])
  <2>1. f \in UpFrames /\ up' \in [Conns -> Seq(UpFrames)] /\ sock' = sock
    BY <1>10, <1>14 DEF ReadFinish
  <2>2. f.run \in Runs \cup {NoRun}
    BY <2>1 DEF UpFrames
  <2>3. CASE f.run \in Claimed
    <3>1. f.run \in Runs /\ Outcome(f.run) \in Statuses
      BY <2>3 DEF Claimed, Outcome, Statuses
    <3>3. status' = [status EXCEPT ![f.run] = Outcome(f.run)] /\ parked' = {} /\ down' = down
      BY <1>14, <2>3 DEF ReadFinish
    <3>2. status' \in [Runs -> Statuses] /\ parked' = {} /\ down' = down
      BY <3>1, <3>3
    <3> QED
      BY <1>14, <2>1, <3>2 DEF ReadFinish, sdkVars, runtimeVars
  <2>4. CASE f.run \notin Claimed
    <3>1. down' \in [Conns -> Seq(DownFrames)] /\ UNCHANGED <<status, parked>>
      BY <1>11, <1>14, <2>2, <2>4 DEF ReadFinish
    <3> QED
      BY <1>14, <2>1, <3>1 DEF ReadFinish, sdkVars, runtimeVars
  <2> QED
    BY <2>3, <2>4
<1>15. ASSUME NEW c \in Conns, Disconnected(c)
       PROVE  TypeOK'
  <2>1. acks' \in [Conns -> SUBSET Runs] /\ current' \in Conns \cup {NoConn}
    BY <1>15 DEF Disconnected, FailPending, Detach
  <2>2. offer' \in OffersOut \cup {NoOffer}
    <3>1. CASE offer.answer = "waiting"
      <4>1. offer \in OffersOut
        BY <3>1 DEF NoOffer
      <4>2. offer.no \in 0 .. MaxOffers
        BY <4>1 DEF OffersOut, Offers
      <4>3. [offer EXCEPT !.answer = "decline", !.by = offer.no] \in OffersOut
        BY <4>1, <4>2 DEF OffersOut, AckTypes
      <4> QED
        BY <1>15, <4>1, <4>3 DEF Disconnected, FailPending
    <3> QED
      BY <1>15, <3>1 DEF Disconnected, FailPending
  <2> QED
    BY <1>15, <2>1, <2>2 DEF Disconnected, netVars, sdkVars, runtimeVars
<1>16. ASSUME NEW c \in Conns, Drop(c)
       PROVE  TypeOK'
  <2>1. up' \in [Conns -> Seq(UpFrames)]
    BY <1>16, QueueFacts DEF Drop
  <2>2. down' \in [Conns -> Seq(DownFrames)]
    BY <1>16, QueueFacts DEF Drop
  <2> QED
    BY <1>16, <2>1, <2>2 DEF Drop, brokerVars, sdkVars, runtimeVars
<1>17. CASE Connect
  <2>1. sdkConn + 1 \in Conns /\ sdkConn + 1 \in 0 .. MaxConns
    BY <1>17 DEF Connect, Conns
  <2>2. Frame("welcome", NoRun, 0, 0) \in DownFrames
    BY DEF Frame, DownFrames
  <2>3. down' \in [Conns -> Seq(DownFrames)]
    BY <1>17, <2>1, <2>2, SendType DEF Connect, Accept
  <2>4. sdkConn' \in 0 .. MaxConns /\ (sdk' # "idle" => sdkConn' # NoConn)
    BY <1>17, <2>1 DEF Connect, NoConn, Conns
  <2> QED
    BY <1>17, <2>1, <2>3, <2>4 DEF Connect, Accept, brokerVars, runtimeVars
<1>18. ASSUME NEW state \in {"hello", "serving"}, NEW types, Receives(state, types)
       PROVE  /\ sdkConn \in Conns
              /\ Head(down[sdkConn]) \in DownFrames
              /\ Head(down[sdkConn]).type \in types
              /\ down' \in [Conns -> Seq(DownFrames)]
              /\ UNCHANGED <<link, acks, sdkConn>>
  <2>1. sdkConn \in Conns
    BY <1>18 DEF Receives, NoConn, Conns
  <2> QED
    BY <1>18, <2>1, QueueFacts DEF Receives
<1>19. CASE ReceiveWelcome
  <2>1. /\ sdkConn \in Conns
        /\ down' \in [Conns -> Seq(DownFrames)]
        /\ UNCHANGED <<link, acks, sdkConn>>
    BY <1>18, <1>19 DEF ReceiveWelcome
  <2>2. /\ sdk' \in {"idle", "serving"} /\ writer' \in BOOLEAN
        /\ sock' = sock \/ sock' = [sock EXCEPT ![sdkConn] = "dead"]
    BY <1>19 DEF ReceiveWelcome
  <2>3. sock' \in [Conns -> {"none", "up", "dead"}]
    BY <2>1, <2>2
  <2>4. sdk' # "idle" => sdkConn' # NoConn
    BY <2>1 DEF NoConn, Conns
  <2> QED
    BY <1>19, <2>1, <2>2, <2>3, <2>4 DEF ReceiveWelcome, brokerVars, runtimeVars
<1>20. CASE ReceiveRun
  <2> DEFINE f == Head(down[sdkConn])
  <2>1. /\ f \in DownFrames /\ f.type = "run"
        /\ down' \in [Conns -> Seq(DownFrames)]
        /\ UNCHANGED <<link, acks, sdkConn>>
    BY <1>18, <1>20 DEF ReceiveRun
  <2>2. f.run \in Runs /\ f.by \in Offers
    BY <2>1 DEF DownFrames
  <2>3. AnswerTo(f.run) \in AckTypes
    BY DEF AnswerTo, AckTypes
  <2>4. Frame(AnswerTo(f.run), f.run, f.by, 0) \in UpFrames
    BY <2>2, <2>3 DEF Frame, UpFrames
  <2>5. outbound' \in Seq(UpFrames)
    BY <1>20, <2>4, QueueFacts DEF ReceiveRun
  <2>6. phase' = phase \/ phase' = [phase EXCEPT ![f.by] = "running"]
    BY <1>20 DEF ReceiveRun
  <2>7. phase' \in [Offers -> {"none", "running", "stopping", "ended"}]
    BY <2>2, <2>6
  <2> QED
    BY <1>20, <2>1, <2>5, <2>7 DEF ReceiveRun, brokerVars, netVars
<1>21. CASE ReceiveCancel
  <2>1. down' \in [Conns -> Seq(DownFrames)] /\ UNCHANGED <<link, acks, sdkConn>>
    BY <1>18, <1>21 DEF ReceiveCancel
  <2>2. phase' \in [Offers -> {"none", "running", "stopping", "ended"}]
    BY <1>21 DEF ReceiveCancel
  <2> QED
    BY <1>21, <2>1, <2>2 DEF ReceiveCancel, brokerVars, netVars
<1>22. CASE ReceiveError
  <2>1. down' \in [Conns -> Seq(DownFrames)] /\ UNCHANGED <<link, acks, sdkConn>>
    BY <1>18, <1>22 DEF ReceiveError
  <2> QED
    BY <1>22, <2>1 DEF ReceiveError, brokerVars, netVars, runtimeVars
<1>23. ASSUME NEW o \in Offers, ReportEvent(o)
       PROVE  TypeOK'
  <2>1. emitted[o] + 1 \in 0 .. Events
    BY <1>23 DEF ReportEvent
  <2>2. Frame("event", runOf[o], o, emitted[o] + 1) \in UpFrames
    BY <2>1 DEF Frame, UpFrames
  <2>3. outbound' \in Seq(UpFrames)
    BY <1>23, <2>2, QueueFacts DEF ReportEvent
  <2>4. emitted' \in [Offers -> 0 .. Events]
    BY <1>23, <2>1 DEF ReportEvent
  <2> QED
    BY <1>23, <2>3, <2>4 DEF ReportEvent, brokerVars, linkVars, netVars
<1>24. ASSUME NEW o \in Offers, FinishRun(o)
       PROVE  TypeOK'
  <2>1. Frame("finish", runOf[o], o, 0) \in UpFrames
    BY DEF Frame, UpFrames
  <2>2. outbound' \in Seq(UpFrames)
    BY <1>24, <2>1, QueueFacts DEF FinishRun
  <2> QED
    BY <1>24, <2>2 DEF FinishRun, brokerVars, linkVars, netVars
<1>25. CASE WriteFrame
  <2>1. sdkConn \in Conns /\ Head(outbound) \in UpFrames /\ outbound' \in Seq(UpFrames)
    BY <1>25, QueueFacts DEF WriteFrame, NoConn, Conns
  <2>2. up' \in [Conns -> Seq(UpFrames)]
    BY <1>25, <2>1, QueueFacts DEF WriteFrame
  <2> QED
    BY <1>25, <2>1, <2>2 DEF WriteFrame, brokerVars, linkVars, runtimeVars
<1>26. CASE WriteFails
  <2>1. outbound' \in Seq(UpFrames)
    BY <1>26, QueueFacts DEF WriteFails
  <2> QED
    BY <1>26, <2>1 DEF WriteFails, brokerVars, linkVars, netVars, runtimeVars
<1>27. CASE ConnectionLost
  BY <1>27 DEF ConnectionLost, brokerVars, linkVars, netVars, runtimeVars
<1>28. CASE UNCHANGED vars
  BY <1>28 DEF vars, brokerVars, linkVars, netVars, sdkVars, runtimeVars
<1> QED
  BY <1>1, <1>2, <1>3, <1>4, <1>6, <1>7, <1>8, <1>9, <1>12, <1>13, <1>14, <1>15, <1>16,
     <1>17, <1>19, <1>20, <1>21, <1>22, <1>23, <1>24, <1>25, <1>26, <1>27, <1>28
  DEF Next

\* Type correctness: no interleaving of broker, sockets, client and runtime
\* takes a table, a queue or a frame outside the values the code gives it.
THEOREM TypeCorrect == Spec => []TypeOK
  BY TypeInit, TypeStep, PTL DEF Spec

-----------------------------------------------------------------------------
(* The connections.  A connection the client has not opened yet is         *)
(* untouched, the broker holds one whose read loop runs, and there is at   *)
(* most one awaited ack anywhere: the one of the offer that is out.        *)

FreshConns ==
  \A c \in Conns : c > sdkConn => link[c] = "none" /\ down[c] = <<>> /\ sock[c] = "none"

AwaitedIsTheOffer ==
  /\ \A c \in Conns : acks[c] # {} =>
       /\ link[c] \in {"attached", "open"}
       /\ offer.conn = c
       /\ acks[c] = {offer.run}
  /\ offer.answer = "waiting" => offer.run \in acks[offer.conn]

WelcomeOrDead ==
  sdk = "hello" =>
    \/ sock[sdkConn] = "dead"
    \/ down[sdkConn] # <<>>

\* The sockets of the identity and the offer that is out.
LinkInv ==
  /\ TypeOK
  /\ FreshConns
  /\ ServedByLiveLink
  /\ AwaitedIsTheOffer
  /\ WelcomeOrDead
  /\ WelcomeFirst

\* The connections' invariant holds before the first socket is opened.
LEMMA LinkInit == Init => LinkInv
<1> SUFFICES ASSUME Init PROVE LinkInv
  OBVIOUS
<1>1. TypeOK
  BY TypeInit
<1>2. FreshConns /\ ServedByLiveLink
  BY DEF Init, FreshConns, ServedByLiveLink
<1>3. AwaitedIsTheOffer
  BY DEF Init, AwaitedIsTheOffer, NoOffer
<1>4. WelcomeOrDead /\ WelcomeFirst
  BY DEF Init, WelcomeOrDead, WelcomeFirst
<1> QED
  BY <1>1, <1>2, <1>3, <1>4 DEF LinkInv

\* Unopened connections stay untouched, and attaching, replacing, refusing and
\* cleaning up connections leaves the broker with a live one or none.
LEMMA ConnStep == LinkInv /\ [Next]_vars => FreshConns' /\ ServedByLiveLink'
<1> SUFFICES ASSUME TypeOK, FreshConns, ServedByLiveLink, [Next]_vars
             PROVE  FreshConns' /\ ServedByLiveLink'
  BY DEF LinkInv
<1> USE DEF FreshConns, ServedByLiveLink
<1>0. sdkConn \in Nat /\ Conns \subseteq Nat /\ (current # NoConn => current \in Conns /\ ~ (current > sdkConn))
  BY ConstantsAssumption DEF ConstantsAssumption, TypeOK, Conns, NoConn
<1>1. ASSUME UNCHANGED <<current, link, sdkConn>>,
             \A c \in Conns : c > sdkConn => down'[c] = down[c] /\ sock'[c] = sock[c]
      PROVE  FreshConns' /\ ServedByLiveLink'
  BY <1>1
<1>2. ASSUME NEW c \in Conns, NEW f, ~ (c > sdkConn), Send(c, f)
      PROVE  \A d \in Conns : d > sdkConn => down'[d] = down[d]
  BY <1>2 DEF Send, TypeOK
<1>3. ASSUME NEW r \in Runs, StartRun(r) \/ Deliver(r) \/ DeliverInvalid(r) \/ CancelRun(r)
      PROVE  FreshConns' /\ ServedByLiveLink'
  <2>1. CASE StartRun(r) \/ DeliverInvalid(r)
    BY <1>1, <2>1 DEF StartRun, DeliverInvalid, linkVars, netVars, sdkVars
  <2>2. CASE Deliver(r)
    BY <1>0, <1>1, <1>2, <2>2 DEF Deliver, Offerable, netVars, sdkVars
  <2>3. CASE CancelRun(r)
    BY <1>0, <1>1, <1>2, <2>3 DEF CancelRun, netVars, sdkVars
  <2> QED
    BY <1>3, <2>1, <2>2, <2>3
<1>4. CASE OfferReturns \/ OfferTimesOut
  BY <1>1, <1>4 DEF OfferReturns, OfferTimesOut, netVars, sdkVars
<1>5. ASSUME NEW c \in Conns, Attach(c) \/ AttachReturns(c) \/ AttachRefused(c)
      PROVE  FreshConns' /\ ServedByLiveLink'
  <2>1. CASE Attach(c)
    BY <2>1 DEF Attach, netVars, sdkVars, TypeOK, NoConn
  <2>2. CASE AttachReturns(c)
    BY <2>2 DEF AttachReturns, brokerVars, netVars, sdkVars, TypeOK, NoConn
  <2>3. CASE AttachRefused(c)
    BY <2>3 DEF AttachRefused, brokerVars, sdkVars, TypeOK, NoConn
  <2> QED
    BY <1>5, <2>1, <2>2, <2>3
<1>6. ASSUME NEW c \in Conns, ReadAck(c) \/ ReadEvent(c) \/ ReadFinish(c)
      PROVE  FreshConns' /\ ServedByLiveLink'
  <2>1. link[c] = "open" /\ ~ (c > sdkConn) /\ sock' = sock
    BY <1>6 DEF ReadAck, ReadEvent, ReadFinish, Reads
  <2>2. UNCHANGED <<current, link, sdkConn>>
    BY <1>6 DEF ReadAck, ReadEvent, ReadFinish, linkVars, sdkVars
  <2>3. down' = down \/ \E f : Send(c, f)
    BY <1>6 DEF ReadAck, ReadEvent, ReadFinish, linkVars
  <2> QED
    BY <1>1, <1>2, <2>1, <2>2, <2>3
<1>7. ASSUME NEW c \in Conns, Disconnected(c)
      PROVE  FreshConns' /\ ServedByLiveLink'
  BY <1>7 DEF Disconnected, Detach, netVars, sdkVars, TypeOK, NoConn
<1>8. ASSUME NEW c \in Conns, Drop(c)
      PROVE  FreshConns' /\ ServedByLiveLink'
  BY <1>1, <1>8 DEF Drop, brokerVars, sdkVars, TypeOK
<1>9. CASE Connect
  <2>1. sdkConn' = sdkConn + 1 /\ sdkConn + 1 \in Conns /\ current' = current
    BY <1>9, <1>0, ConstantsAssumption DEF ConstantsAssumption, Connect, brokerVars, Conns
  <2>2. \A c \in Conns : c # sdkConn + 1 => link'[c] = link[c] /\ down'[c] = down[c] /\ sock'[c] = sock[c]
    BY <1>9, <2>1 DEF Connect, Accept, Send, TypeOK
  <2>3. \A c \in Conns : c > sdkConn + 1 => c > sdkConn /\ c # sdkConn + 1
    BY <1>0
  <2>4. current # NoConn => current \in Conns /\ current # sdkConn + 1
    BY <1>0
  <2>5. FreshConns'
    BY <2>1, <2>2, <2>3
  <2>6. ServedByLiveLink'
    BY <2>1, <2>2, <2>4
  <2> QED
    BY <2>5, <2>6
<1>10. ASSUME NEW state, NEW types, Receives(state, types)
       PROVE  /\ UNCHANGED <<link, sdkConn>>
              /\ \A c \in Conns : c > sdkConn => down'[c] = down[c]
  BY <1>0, <1>10 DEF Receives, TypeOK
<1>11. CASE ReceiveWelcome \/ ReceiveRun \/ ReceiveCancel \/ ReceiveError
  <2>1. sock' = sock \/ sock' = [sock EXCEPT ![sdkConn] = "dead"]
    BY <1>11 DEF ReceiveWelcome, ReceiveRun, ReceiveCancel, ReceiveError, netVars
  <2>2. current' = current
    BY <1>11 DEF ReceiveWelcome, ReceiveRun, ReceiveCancel, ReceiveError, brokerVars
  <2>3. /\ UNCHANGED <<link, sdkConn>>
        /\ \A c \in Conns : c > sdkConn => down'[c] = down[c]
    BY <1>10, <1>11 DEF ReceiveWelcome, ReceiveRun, ReceiveCancel, ReceiveError
  <2> QED
    BY <1>0, <1>1, <2>1, <2>2, <2>3 DEF TypeOK
<1>12. ASSUME NEW o \in Offers, ReportEvent(o) \/ FinishRun(o)
       PROVE  FreshConns' /\ ServedByLiveLink'
  BY <1>1, <1>12 DEF ReportEvent, FinishRun, brokerVars, linkVars, netVars
<1>13. CASE WriteFrame \/ WriteFails \/ ConnectionLost
  BY <1>1, <1>13 DEF WriteFrame, WriteFails, ConnectionLost, brokerVars, linkVars, netVars
<1>14. CASE UNCHANGED vars
  BY <1>1, <1>14 DEF vars, brokerVars, linkVars, netVars, sdkVars
<1> QED
  BY <1>3, <1>4, <1>5, <1>6, <1>7, <1>8, <1>9, <1>11, <1>12, <1>13, <1>14 DEF Next

\* The one awaited ack, wherever it is, is the one of the offer that is out.
LEMMA AwaitStep == LinkInv /\ [Next]_vars => AwaitedIsTheOffer'
<1> SUFFICES ASSUME TypeOK, FreshConns, ServedByLiveLink, AwaitedIsTheOffer, [Next]_vars
             PROVE  AwaitedIsTheOffer'
  BY DEF LinkInv
<1> USE DEF AwaitedIsTheOffer
<1>1. ASSUME UNCHANGED <<acks, offer>>,
             \A c \in Conns : link[c] \in {"attached", "open"} => link'[c] \in {"attached", "open"}
      PROVE  AwaitedIsTheOffer'
  BY <1>1
<1>2. ASSUME offer # NoOffer
      PROVE  offer.run \in Runs /\ offer.conn \in Conns
  BY <1>2 DEF TypeOK, OffersOut
<1>3. ASSUME offer # NoOffer, PopWaiter, offer' = NoOffer
      PROVE  AwaitedIsTheOffer'
  <2>1. \A c \in Conns : acks'[c] = {}
    BY <1>2, <1>3 DEF PopWaiter, TypeOK
  <2> QED
    BY <1>3, <2>1 DEF NoOffer
<1>4. ASSUME NEW r \in Runs, StartRun(r) \/ Deliver(r) \/ DeliverInvalid(r) \/ CancelRun(r)
      PROVE  AwaitedIsTheOffer'
  <2>1. CASE StartRun(r) \/ DeliverInvalid(r) \/ CancelRun(r)
    BY <1>1, <2>1 DEF StartRun, DeliverInvalid, CancelRun, linkVars
  <2>2. CASE Deliver(r)
    <3>1. offer = NoOffer /\ current \in Conns /\ link' = link /\ link[current] \in {"attached", "open"}
      BY <2>2 DEF Deliver, Offerable, TypeOK, ServedByLiveLink
    <3>2. \A c \in Conns : acks[c] = {}
      BY <3>1 DEF NoOffer, NoConn, Conns
    <3>3. \A c \in Conns : acks'[c] = IF c = current THEN {r} ELSE {}
      BY <2>2, <3>1, <3>2 DEF Deliver, TypeOK
    <3>4. offer'.conn = current /\ offer'.run = r
      BY <2>2 DEF Deliver
    <3> QED
      BY <3>1, <3>3, <3>4
  <2> QED
    BY <1>4, <2>1, <2>2
<1>5. CASE OfferReturns \/ OfferTimesOut
  BY <1>3, <1>5 DEF OfferReturns, OfferTimesOut
<1>6. ASSUME NEW c \in Conns, Attach(c) \/ AttachReturns(c) \/ AttachRefused(c)
      PROVE  AwaitedIsTheOffer'
  <2>1. UNCHANGED <<acks, offer>>
    BY <1>6 DEF Attach, AttachReturns, AttachRefused, brokerVars
  <2>2. \A d \in Conns : link[d] \in {"attached", "open"} => link'[d] \in {"attached", "open"}
    BY <1>6 DEF Attach, AttachReturns, AttachRefused, TypeOK
  <2> QED
    BY <1>1, <2>1, <2>2
<1>7. ASSUME NEW c \in Conns, ReadAck(c)
      PROVE  AwaitedIsTheOffer'
  <2>1. UNCHANGED <<acks, link>>
    BY <1>7 DEF ReadAck, linkVars
  <2>2. CASE offer' = offer
    BY <1>1, <2>1, <2>2
  <2>3. CASE offer' # offer
    <3>1. offer.answer = "waiting" /\ Head(up[c]).type \in AckTypes
      BY <1>7, <2>3 DEF ReadAck, Reads
    <3>2. offer \in OffersOut
      BY <3>1 DEF TypeOK, NoOffer
    <3>3. offer' = [offer EXCEPT !.answer = Head(up[c]).type, !.by = Head(up[c]).by]
      BY <1>7, <2>3 DEF ReadAck
    <3>4. offer'.conn = offer.conn /\ offer'.run = offer.run /\ offer'.answer # "waiting"
      BY <3>1, <3>2, <3>3 DEF OffersOut, AckTypes
    <3> QED
      BY <2>1, <3>4
  <2> QED
    BY <2>2, <2>3
<1>8. ASSUME NEW c \in Conns, ReadEvent(c) \/ ReadFinish(c) \/ Drop(c)
      PROVE  AwaitedIsTheOffer'
  BY <1>1, <1>8 DEF ReadEvent, ReadFinish, Drop, brokerVars
<1>9. ASSUME NEW c \in Conns, Disconnected(c)
      PROVE  AwaitedIsTheOffer'
  <2>1. /\ acks' = [acks EXCEPT ![c] = {}]
        /\ link' = [link EXCEPT ![c] = "closed"]
    BY <1>9 DEF Disconnected, FailPending
  <2>2. CASE offer.run \in acks[c] /\ offer.answer = "waiting"
    <3>1. offer \in OffersOut
      BY <2>2 DEF TypeOK, NoOffer
    <3>2. offer' = [offer EXCEPT !.answer = "decline", !.by = offer.no]
      BY <1>9, <2>2 DEF Disconnected, FailPending
    <3>3. offer'.conn = offer.conn /\ offer'.run = offer.run /\ offer'.answer # "waiting"
      BY <3>1, <3>2 DEF OffersOut
    <3> QED
      BY <2>1, <3>3 DEF TypeOK
  <2>3. CASE ~ (offer.run \in acks[c] /\ offer.answer = "waiting")
    <3>1. offer' = offer
      BY <1>9, <2>3 DEF Disconnected, FailPending
    <3>2. offer.answer = "waiting" => offer.conn # c
      BY <2>3
    <3> QED
      BY <2>1, <3>1, <3>2, <1>2 DEF TypeOK, NoOffer
  <2> QED
    BY <2>2, <2>3
<1>10. CASE Connect
  <2>1. UNCHANGED <<acks, offer>>
    BY <1>10 DEF Connect, Accept, brokerVars
  <2>4. sdkConn + 1 \in Conns /\ sdkConn + 1 > sdkConn
    BY <1>10, ConstantsAssumption DEF ConstantsAssumption, Connect, TypeOK, Conns
  <2>2. sdkConn + 1 \in Conns /\ link[sdkConn + 1] = "none"
    BY <2>4 DEF FreshConns
  <2>3. \A d \in Conns : link[d] \in {"attached", "open"} => link'[d] \in {"attached", "open"}
    BY <1>10, <2>2 DEF Connect, Accept, TypeOK
  <2> QED
    BY <1>1, <2>1, <2>3
<1>11. CASE ReceiveWelcome \/ ReceiveRun \/ ReceiveCancel \/ ReceiveError
  BY <1>1, <1>11 DEF ReceiveWelcome, ReceiveRun, ReceiveCancel, ReceiveError, Receives, brokerVars
<1>12. ASSUME NEW o \in Offers, ReportEvent(o) \/ FinishRun(o)
       PROVE  AwaitedIsTheOffer'
  BY <1>1, <1>12 DEF ReportEvent, FinishRun, brokerVars, linkVars
<1>13. CASE WriteFrame \/ WriteFails \/ ConnectionLost
  BY <1>1, <1>13 DEF WriteFrame, WriteFails, ConnectionLost, brokerVars, linkVars
<1>14. CASE UNCHANGED vars
  BY <1>1, <1>14 DEF vars, brokerVars, linkVars
<1> QED
  BY <1>4, <1>5, <1>6, <1>7, <1>8, <1>9, <1>10, <1>11, <1>12, <1>13, <1>14 DEF Next

\* What a queue's first element is after the operations on it.
LEMMA HeadFacts ==
  ASSUME NEW S, NEW s \in Seq(S), s # <<>>
  PROVE  /\ \A x \in S : Append(s, x) # <<>> /\ Head(Append(s, x)) = Head(s)
         /\ \A i \in 0 .. Len(s) : SubSeq(s, 1, i) # <<>> => Head(SubSeq(s, 1, i)) = Head(s)
<1>1. ASSUME NEW x \in S
      PROVE  Append(s, x) # <<>> /\ Head(Append(s, x)) = Head(s)
  BY AppendProperties, HeadTailProperties
<1>2. ASSUME NEW i \in 0 .. Len(s), SubSeq(s, 1, i) # <<>>
      PROVE  Head(SubSeq(s, 1, i)) = Head(s)
  BY <1>2
<1> QED
  BY <1>1, <1>2

\* While the client awaits the welcome nothing is queued ahead of it.
LEMMA WelcomeStep == LinkInv /\ [Next]_vars => WelcomeOrDead' /\ WelcomeFirst'
<1> SUFFICES ASSUME TypeOK, TypeOK', FreshConns, ServedByLiveLink, WelcomeOrDead, WelcomeFirst, [Next]_vars
             PROVE  WelcomeOrDead' /\ WelcomeFirst'
  BY TypeStep DEF LinkInv
<1> DEFINE KeepsHead ==
             /\ down'[sdkConn] # <<>> => down[sdkConn] # <<>> /\ Head(down'[sdkConn]) = Head(down[sdkConn])
             /\ down'[sdkConn] = <<>> => down[sdkConn] = <<>> \/ sock'[sdkConn] = "dead"
<1>1. ASSUME sdk' = sdk, sdkConn' = sdkConn,
             sdk = "hello" => (sock[sdkConn] = "dead" => sock'[sdkConn] = "dead") /\ KeepsHead
      PROVE  WelcomeOrDead' /\ WelcomeFirst'
  BY <1>1 DEF WelcomeOrDead, WelcomeFirst
<1>2. ASSUME sdk' # "hello"
      PROVE  WelcomeOrDead' /\ WelcomeFirst'
  BY <1>2 DEF WelcomeOrDead, WelcomeFirst
<1>3. sdk = "hello" => sdkConn \in Conns
  BY ConstantsAssumption DEF ConstantsAssumption, TypeOK, NoConn, Conns
<1>4. ASSUME UNCHANGED <<sdk, sdkConn, sock, down>>
      PROVE  WelcomeOrDead' /\ WelcomeFirst'
  BY <1>4 DEF WelcomeOrDead, WelcomeFirst
<1>5. ASSUME NEW c \in Conns, NEW f \in DownFrames, Send(c, f), UNCHANGED <<sdk, sdkConn, sock>>
      PROVE  WelcomeOrDead' /\ WelcomeFirst'
  <2>1. ASSUME sdk = "hello" PROVE KeepsHead
    <3>1. CASE down'[sdkConn] = down[sdkConn]
      BY <3>1
    <3>2. CASE down'[sdkConn] # down[sdkConn]
      <4>1. sock[sdkConn] # "dead" /\ down'[sdkConn] = Append(down[sdkConn], f)
        BY <1>3, <1>5, <2>1, <3>2 DEF Send, TypeOK
      <4>2. down[sdkConn] \in Seq(DownFrames) /\ down[sdkConn] # <<>>
        BY <1>3, <2>1, <4>1 DEF TypeOK, WelcomeOrDead
      <4> QED
        BY <4>1, <4>2, HeadFacts
    <3> QED
      BY <3>1, <3>2
  <2> QED
    BY <1>1, <1>5, <2>1
<1>6. ASSUME NEW r \in Runs, StartRun(r) \/ Deliver(r) \/ DeliverInvalid(r) \/ CancelRun(r)
      PROVE  WelcomeOrDead' /\ WelcomeFirst'
  <2>1. UNCHANGED <<sdk, sdkConn, sock>>
    BY <1>6 DEF StartRun, Deliver, DeliverInvalid, CancelRun, netVars, sdkVars
  <2>2. CASE StartRun(r) \/ DeliverInvalid(r)
    BY <1>4, <2>1, <2>2 DEF StartRun, DeliverInvalid, linkVars
  <2>3. CASE Deliver(r)
    <3>1. current \in Conns /\ Frame("run", r, NextOffer, 0) \in DownFrames
      BY <2>3 DEF Deliver, Offerable, TypeOK, Frame, DownFrames
    <3> QED
      BY <1>5, <2>1, <2>3, <3>1 DEF Deliver
  <2>4. CASE CancelRun(r)
    <3>1. Frame("cancel", r, 0, 0) \in DownFrames
      BY DEF Frame, DownFrames
    <3> QED
      BY <1>4, <1>5, <2>1, <2>4, <3>1 DEF CancelRun, TypeOK
  <2> QED
    BY <1>6, <2>2, <2>3, <2>4
<1>7. CASE OfferReturns \/ OfferTimesOut
  BY <1>4, <1>7 DEF OfferReturns, OfferTimesOut, netVars, sdkVars
<1>8. ASSUME NEW c \in Conns, Attach(c) \/ AttachReturns(c) \/ Disconnected(c) \/ ReadAck(c)
      PROVE  WelcomeOrDead' /\ WelcomeFirst'
  BY <1>4, <1>8 DEF Attach, AttachReturns, Disconnected, ReadAck, Reads, linkVars, netVars, sdkVars
<1>9. ASSUME NEW c \in Conns, AttachRefused(c)
      PROVE  WelcomeOrDead' /\ WelcomeFirst'
  <2>1. sdk' = sdk /\ sdkConn' = sdkConn
    BY <1>9 DEF AttachRefused, sdkVars
  <2>2. ASSUME sdk = "hello"
        PROVE  (sock[sdkConn] = "dead" => sock'[sdkConn] = "dead") /\ KeepsHead
    BY <1>3, <1>9, <2>2 DEF AttachRefused, TypeOK
  <2> QED
    BY <1>1, <2>1, <2>2
<1>10. ASSUME NEW c \in Conns, ReadEvent(c) \/ ReadFinish(c)
       PROVE  WelcomeOrDead' /\ WelcomeFirst'
  <2>1. UNCHANGED <<sdk, sdkConn, sock>>
    BY <1>10 DEF ReadEvent, ReadFinish, Reads, sdkVars
  <2>2. Head(up[c]) \in UpFrames
    BY <1>10, QueueFacts DEF ReadEvent, ReadFinish, Reads, TypeOK
  <2>3. Frame("error", Head(up[c]).run, 0, 0) \in DownFrames
    BY <2>2 DEF UpFrames, Frame, DownFrames
  <2>4. down' = down \/ Send(c, Frame("error", Head(up[c]).run, 0, 0))
    BY <1>10 DEF ReadEvent, ReadFinish
  <2> QED
    BY <1>4, <1>5, <2>1, <2>3, <2>4
<1>11. ASSUME NEW c \in Conns, Drop(c)
       PROVE  WelcomeOrDead' /\ WelcomeFirst'
  <2>1. sdk' = sdk /\ sdkConn' = sdkConn
    BY <1>11 DEF Drop, sdkVars
  <2>2. ASSUME sdk = "hello"
        PROVE  (sock[sdkConn] = "dead" => sock'[sdkConn] = "dead") /\ KeepsHead
    <3>1. CASE sdkConn # c
      BY <1>3, <1>11, <2>2, <3>1 DEF Drop, TypeOK
    <3>2. CASE sdkConn = c
      <4>1. sock'[c] = "dead" /\ sock[c] = "up"
        BY <1>11 DEF Drop, TypeOK
      <4>2. PICK i \in 0 .. Len(down[c]) : down'[c] = SubSeq(down[c], 1, i)
        BY <1>11 DEF Drop, TypeOK
      <4>3. down[c] # <<>> /\ down[c] \in Seq(DownFrames)
        BY <2>2, <3>2, <4>1 DEF WelcomeOrDead, TypeOK
      <4> QED
        BY <3>2, <4>1, <4>2, <4>3, HeadFacts
    <3> QED
      BY <3>1, <3>2
  <2> QED
    BY <1>1, <2>1, <2>2
<1>12. CASE Connect
  <2> DEFINE k == sdkConn + 1
             w == Frame("welcome", NoRun, 0, 0)
  <2>1. k \in Conns /\ k > sdkConn
    BY <1>12, ConstantsAssumption DEF ConstantsAssumption, Connect, TypeOK, Conns
  <2>2. sock[k] = "none" /\ down[k] = <<>>
    BY <2>1 DEF FreshConns
  <2>3. sdkConn' = k /\ down' = [down EXCEPT ![k] = Append(@, w)]
    BY <1>12, <2>2 DEF Connect, Accept, Send
  <2>4. down'[k] = <<w>>
    BY <2>1, <2>2, <2>3 DEF TypeOK
  <2>5. w.type = "welcome"
    BY DEF Frame
  <2> QED
    BY <2>3, <2>4, <2>5 DEF WelcomeOrDead, WelcomeFirst
<1>13. CASE ReceiveWelcome \/ ReceiveRun \/ ReceiveCancel \/ ReceiveError
  BY <1>2, <1>13 DEF ReceiveWelcome, ReceiveRun, ReceiveCancel, ReceiveError, Receives
<1>14. ASSUME NEW o \in Offers, ReportEvent(o) \/ FinishRun(o)
       PROVE  WelcomeOrDead' /\ WelcomeFirst'
  BY <1>4, <1>14 DEF ReportEvent, FinishRun, linkVars, netVars
<1>15. CASE WriteFrame \/ WriteFails
  BY <1>4, <1>15 DEF WriteFrame, WriteFails, linkVars, netVars
<1>16. CASE ConnectionLost
  BY <1>2, <1>16 DEF ConnectionLost
<1>17. CASE UNCHANGED vars
  BY <1>4, <1>17 DEF vars, linkVars, netVars, sdkVars
<1> QED
  BY <1>6, <1>7, <1>8, <1>9, <1>10, <1>11, <1>12, <1>13, <1>14, <1>15, <1>16, <1>17 DEF Next

\* The connections' invariant is inductive.
LEMMA LinkStep == LinkInv /\ [Next]_vars => LinkInv'
  BY TypeStep, ConnStep, AwaitStep, WelcomeStep DEF LinkInv

\* With the invariant, a cleaned up connection has no waiter.
LEMMA LinkSafety == LinkInv => NoOrphanedWaiter
  BY DEF LinkInv, AwaitedIsTheOffer, NoOrphanedWaiter

\* The welcome is the first frame the client reads on every connection, so
\* no handshake is given up because a run overtook it.
THEOREM WelcomeIsFirst == Spec => []WelcomeFirst
<1>1. LinkInv => WelcomeFirst
  BY DEF LinkInv
<1> QED
  BY <1>1, LinkInit, LinkStep, PTL DEF Spec

\* The broker only ever holds a connection whose read loop runs, for any
\* number of reconnects and any order of attaches and cleanups.
THEOREM AlwaysServedByLiveLink == Spec => []ServedByLiveLink
<1>1. LinkInv => ServedByLiveLink
  BY DEF LinkInv
<1> QED
  BY <1>1, LinkInit, LinkStep, PTL DEF Spec

\* No offer is ever left waiting on a connection that was cleaned up.
THEOREM NeverOrphanedWaiter == Spec => []NoOrphanedWaiter
  BY LinkSafety, LinkInit, LinkStep, PTL DEF Spec

-----------------------------------------------------------------------------
(* The answers.  A frame under way is true when it is written and stays    *)
(* true however long it travels: an execution that began has begun, one    *)
(* that ended has ended.  That needs each run frame to be read at most     *)
(* once, hence the order of the frames still on their way down.            *)

Elems(s) == {s[i] : i \in DOMAIN s}

Truthful(f) ==
  /\ f.type = "accept" => runOf[f.by] = f.run /\ phase[f.by] # "none"
  /\ f.type = "finish" => runOf[f.by] = f.run /\ phase[f.by] = "ended"
  /\ f.type = "refuse" => input[f.run] = "unreadable"

\* An execution ends only once it began.
NewOffers == \A o \in Offers : o > made => phase[o] = "none"

\* A run frame on its way down has not been read.
Unread ==
  \A c \in Conns : \A i \in DOMAIN down[c] : LET f == down[c][i] IN
    f.type = "run" => f.by <= made /\ runOf[f.by] = f.run /\ phase[f.by] = "none"

\* There is one run frame for an offer.
OneFrame ==
  \A c, d \in Conns : \A i \in DOMAIN down[c], j \in DOMAIN down[d] :
    down[c][i].type = "run" /\ down[d][j].type = "run" /\ down[c][i].by = down[d][j].by
      => c = d /\ i = j

FramesTruthful ==
  /\ \A c \in Conns : \A f \in Elems(up[c]) : Truthful(f)
  /\ \A f \in Elems(outbound) : Truthful(f)

AnswerTruthful ==
  /\ offer.answer = "accept" =>
       offer.by \in Offers /\ runOf[offer.by] = offer.run /\ phase[offer.by] # "none"
  /\ offer.answer = "refuse" => input[offer.run] = "unreadable"

\* The frames and what souk makes of them.
TruthInv ==
  /\ LinkInv
  /\ NewOffers
  /\ Unread
  /\ OneFrame
  /\ FramesTruthful
  /\ AnswerTruthful
  /\ ClaimIsBacked
  /\ OutcomeIsReported

\* What no step does: undo an execution or move it to another run.
Monotone ==
  /\ input' = input
  /\ \A o \in Offers :
       /\ phase[o] # "none" => phase'[o] # "none" /\ runOf'[o] = runOf[o]
       /\ phase[o] = "ended" => phase'[o] = "ended"

\* What is in a queue after the operations on it.
LEMMA ElemFacts ==
  ASSUME NEW S, NEW s \in Seq(S)
  PROVE  /\ Elems(s) \subseteq S
         /\ \A x \in S : Elems(Append(s, x)) \subseteq Elems(s) \cup {x}
         /\ s # <<>> => Head(s) \in Elems(s) /\ Elems(Tail(s)) \subseteq Elems(s)
         /\ \A i \in 0 .. Len(s) : Elems(SubSeq(s, 1, i)) \subseteq Elems(s)
<1>1. Elems(s) \subseteq S
  BY ElementOfSeq DEF Elems
<1>2. ASSUME NEW x \in S
      PROVE  Elems(Append(s, x)) \subseteq Elems(s) \cup {x}
  BY AppendProperties DEF Elems
<1>3. ASSUME s # <<>>
      PROVE  Head(s) \in Elems(s) /\ Elems(Tail(s)) \subseteq Elems(s)
  <2>1. Len(s) \in Nat /\ Len(s) > 0 /\ Head(s) = s[1] /\ DOMAIN s = 1 .. Len(s)
    BY <1>3, EmptySeq, LenProperties
  <2>2. \A i \in DOMAIN Tail(s) : i + 1 \in DOMAIN s /\ Tail(s)[i] = s[i + 1]
    BY <1>3, <2>1
  <2>3. Head(s) \in Elems(s)
    BY <2>1 DEF Elems
  <2>4. Elems(Tail(s)) \subseteq Elems(s)
    BY <2>2 DEF Elems
  <2> QED
    BY <2>3, <2>4
<1>4. ASSUME NEW i \in 0 .. Len(s)
      PROVE  Elems(SubSeq(s, 1, i)) \subseteq Elems(s)
  <2>1. \A j \in DOMAIN SubSeq(s, 1, i) : j \in DOMAIN s /\ SubSeq(s, 1, i)[j] = s[j]
    BY SubSeqProperties, LenProperties
  <2> QED
    BY <2>1 DEF Elems
<1> QED
  BY <1>1, <1>2, <1>3, <1>4

\* With nothing sent and nothing recorded the answers' invariant holds.
LEMMA TruthInit == Init => TruthInv
<1> SUFFICES ASSUME Init PROVE TruthInv
  OBVIOUS
<1>1. LinkInv
  BY LinkInit
<1>2. NewOffers /\ ClaimIsBacked /\ OutcomeIsReported
  BY DEF Init, NewOffers, ClaimIsBacked, Claimed, OutcomeIsReported
<1>3. Unread /\ OneFrame
  BY DEF Init, Unread, OneFrame
<1>4. FramesTruthful
  BY DEF Init, FramesTruthful, Elems
<1>5. AnswerTruthful
  BY DEF Init, AnswerTruthful, NoOffer
<1> QED
  BY <1>1, <1>2, <1>3, <1>4, <1>5 DEF TruthInv

\* No step undoes an execution or moves it to another run.
LEMMA MonotoneStep == TruthInv /\ [Next]_vars => Monotone
<1> SUFFICES ASSUME TypeOK, NewOffers, Unread, [Next]_vars
             PROVE  Monotone
  BY DEF TruthInv, LinkInv
<1>1. ASSUME UNCHANGED <<input, runOf, phase>>
      PROVE  Monotone
  BY <1>1 DEF Monotone
<1>2. ASSUME NEW r \in Runs, StartRun(r) \/ Deliver(r) \/ DeliverInvalid(r) \/ CancelRun(r)
      PROVE  Monotone
  <2>1. CASE StartRun(r) \/ DeliverInvalid(r) \/ CancelRun(r)
    BY <1>1, <2>1 DEF StartRun, DeliverInvalid, CancelRun, runtimeVars
  <2>2. CASE Deliver(r)
    <3>1. NextOffer \in Offers /\ NextOffer > made
      BY <2>2 DEF Deliver, NextOffer, TypeOK
    <3>2. phase[NextOffer] = "none"
      BY <3>1 DEF NewOffers
    <3>3. \A o \in Offers : o # NextOffer => runOf'[o] = runOf[o]
      BY <2>2 DEF Deliver, TypeOK
    <3>4. UNCHANGED <<input, phase>>
      BY <2>2 DEF Deliver, runtimeVars
    <3> QED
      BY <3>2, <3>3, <3>4 DEF Monotone
  <2> QED
    BY <1>2, <2>1, <2>2
<1>3. CASE OfferReturns \/ OfferTimesOut
  BY <1>1, <1>3 DEF OfferReturns, OfferTimesOut, runtimeVars
<1>4. ASSUME NEW c \in Conns, Attach(c) \/ AttachReturns(c) \/ AttachRefused(c) \/ Drop(c)
      PROVE  Monotone
  BY <1>1, <1>4 DEF Attach, AttachReturns, AttachRefused, Drop, brokerVars, runtimeVars
<1>5. ASSUME NEW c \in Conns, ReadAck(c) \/ ReadEvent(c) \/ ReadFinish(c) \/ Disconnected(c)
      PROVE  Monotone
  BY <1>1, <1>5 DEF ReadAck, ReadEvent, ReadFinish, Disconnected, runtimeVars
<1>6. CASE Connect \/ ReceiveWelcome \/ ReceiveError
  BY <1>1, <1>6 DEF Connect, ReceiveWelcome, ReceiveError, brokerVars, runtimeVars
<1>7. CASE ReceiveRun
  <2> DEFINE f == Head(down[sdkConn])
  <2>1. sdkConn \in Conns /\ down[sdkConn] \in Seq(DownFrames) /\ down[sdkConn] # <<>> /\ f.type = "run"
    BY <1>7 DEF ReceiveRun, Receives, TypeOK, NoConn, Conns
  <2>2. 1 \in DOMAIN down[sdkConn] /\ f = down[sdkConn][1]
    BY <2>1, EmptySeq, LenProperties
  <2>3. phase[f.by] = "none"
    BY <2>1, <2>2 DEF Unread
  <2>4. phase' = phase \/ phase' = [phase EXCEPT ![f.by] = "running"]
    BY <1>7 DEF ReceiveRun
  <2>5. UNCHANGED <<input, runOf>>
    BY <1>7 DEF ReceiveRun, brokerVars
  <2> HIDE DEF f
  <2> QED
    BY <2>3, <2>4, <2>5 DEF Monotone, TypeOK
<1>8. CASE ReceiveCancel
  <2>1. UNCHANGED <<input, runOf>>
    BY <1>8 DEF ReceiveCancel, brokerVars
  <2>2. \A o \in Offers : phase'[o] = phase[o] \/ (phase[o] = "running" /\ phase'[o] = "stopping")
    BY <1>8 DEF ReceiveCancel
  <2> QED
    BY <2>1, <2>2 DEF Monotone
<1>9. ASSUME NEW o \in Offers, ReportEvent(o) \/ FinishRun(o)
      PROVE  Monotone
  BY <1>9 DEF ReportEvent, FinishRun, brokerVars, Monotone, TypeOK
<1>10. CASE WriteFrame \/ WriteFails \/ ConnectionLost
  BY <1>1, <1>10 DEF WriteFrame, WriteFails, ConnectionLost, brokerVars, runtimeVars
<1>11. CASE UNCHANGED vars
  BY <1>1, <1>11 DEF vars, brokerVars, runtimeVars
<1> QED
  BY <1>2, <1>3, <1>4, <1>5, <1>6, <1>7, <1>8, <1>9, <1>10, <1>11 DEF Next

\* So a frame that was true stays true while it travels.
LEMMA TruthfulStays ==
  ASSUME Monotone, NEW f \in UpFrames, Truthful(f)
  PROVE  Truthful(f)'
  BY DEF Monotone, Truthful, UpFrames

\* Every run frame still queued was queued before, at most one place later.
Moved(k) ==
  \A c \in Conns : \A i \in DOMAIN down'[c] :
    down'[c][i].type = "run" => i + k[c] \in DOMAIN down[c] /\ down'[c][i] = down[c][i + k[c]]

\* Run frames on their way down stay unread and one per offer.
LEMMA DownStep == TruthInv /\ [Next]_vars => NewOffers' /\ Unread' /\ OneFrame'
<1> SUFFICES ASSUME TypeOK, TypeOK', NewOffers, Unread, OneFrame, [Next]_vars
             PROVE  NewOffers' /\ Unread' /\ OneFrame'
  BY TypeStep DEF TruthInv, LinkInv
<1> DEFINE zero == [c \in Conns |-> 0]
<1>1. \A c \in Conns : /\ down[c] \in Seq(DownFrames) /\ DOMAIN down[c] = 1 .. Len(down[c])
                       /\ down'[c] \in Seq(DownFrames) /\ DOMAIN down'[c] = 1 .. Len(down'[c])
  BY LenProperties DEF TypeOK
<1>2. ASSUME NEW k \in [Conns -> {0, 1}], Moved(k)
      PROVE  OneFrame'
  <2> SUFFICES ASSUME NEW c \in Conns, NEW d \in Conns,
                      NEW i \in DOMAIN down'[c], NEW j \in DOMAIN down'[d],
                      down'[c][i].type = "run", down'[d][j].type = "run", down'[c][i].by = down'[d][j].by
               PROVE  c = d /\ i = j
    BY DEF OneFrame
  <2>1. /\ i + k[c] \in DOMAIN down[c] /\ down'[c][i] = down[c][i + k[c]]
        /\ j + k[d] \in DOMAIN down[d] /\ down'[d][j] = down[d][j + k[d]]
    BY <1>2 DEF Moved
  <2>2. c = d /\ i + k[c] = j + k[d]
    BY <2>1 DEF OneFrame
  <2>3. i \in Nat /\ j \in Nat /\ k[c] \in Nat
    BY <1>1
  <2> QED
    BY <2>2, <2>3
<1>3. ASSUME NEW k \in [Conns -> {0, 1}], Moved(k), UNCHANGED <<made, runOf>>,
             \A o \in Offers : phase[o] = "none" => phase'[o] = "none"
      PROVE  NewOffers' /\ Unread' /\ OneFrame'
  <2>1. NewOffers'
    BY <1>3 DEF NewOffers
  <2>2. Unread'
    <3> SUFFICES ASSUME NEW c \in Conns, NEW i \in DOMAIN down'[c], down'[c][i].type = "run"
                 PROVE  LET f == down'[c][i] IN f.by <= made' /\ runOf'[f.by] = f.run /\ phase'[f.by] = "none"
      BY DEF Unread
    <3>1. i + k[c] \in DOMAIN down[c] /\ down'[c][i] = down[c][i + k[c]]
      BY <1>3 DEF Moved
    <3>2. down'[c][i].by \in Offers
      BY <1>1 DEF DownFrames
    <3> QED
      BY <1>3, <3>1, <3>2 DEF Unread
  <2> QED
    BY <1>2, <1>3, <2>1, <2>2
<1>4. zero \in [Conns -> {0, 1}]
  OBVIOUS
<1>5. ASSUME down' = down PROVE Moved(zero)
  BY <1>1, <1>5 DEF Moved
<1>6. ASSUME NEW c \in Conns, NEW f \in DownFrames, f.type # "run", Send(c, f)
      PROVE  Moved(zero)
  <2>1. CASE down' = down
    BY <1>5, <2>1
  <2>2. CASE down' = [down EXCEPT ![c] = Append(@, f)]
    <3> SUFFICES ASSUME NEW d \in Conns, NEW i \in DOMAIN down'[d], down'[d][i].type = "run"
                 PROVE  i + 0 \in DOMAIN down[d] /\ down'[d][i] = down[d][i + 0]
      BY DEF Moved
    <3>1. CASE d # c
      BY <1>1, <2>2, <3>1 DEF TypeOK
    <3>2. CASE d = c
      <4>1. down'[c] = Append(down[c], f)
        BY <2>2 DEF TypeOK
      <4>2. /\ Len(down'[c]) = Len(down[c]) + 1
            /\ \A j \in 1 .. Len(down[c]) : down'[c][j] = down[c][j]
            /\ down'[c][Len(down[c]) + 1] = f
        BY <1>1, <4>1, AppendProperties
      <4>3. i # Len(down[c]) + 1
        BY <1>6, <3>2, <4>2
      <4>4. i \in 1 .. Len(down[c])
        BY <1>1, <3>2, <4>2, <4>3
      <4> QED
        BY <1>1, <3>2, <4>2, <4>4
    <3> QED
      BY <3>1, <3>2
  <2> QED
    BY <1>6, <2>1, <2>2 DEF Send
<1>7. ASSUME UNCHANGED <<down, made, runOf, phase>>
      PROVE  NewOffers' /\ Unread' /\ OneFrame'
  BY <1>3, <1>4, <1>5, <1>7
<1>8. ASSUME NEW r \in Runs, StartRun(r) \/ DeliverInvalid(r) \/ CancelRun(r)
      PROVE  NewOffers' /\ Unread' /\ OneFrame'
  <2>1. UNCHANGED <<made, runOf, phase>>
    BY <1>8 DEF StartRun, DeliverInvalid, CancelRun, runtimeVars
  <2>2. Frame("cancel", r, 0, 0) \in DownFrames /\ Frame("cancel", r, 0, 0).type # "run"
    BY DEF Frame, DownFrames
  <2>3. down' = down \/ \E c \in Conns : Send(c, Frame("cancel", r, 0, 0))
    BY <1>8 DEF StartRun, DeliverInvalid, CancelRun, linkVars, TypeOK
  <2>4. Moved(zero)
    BY <1>5, <1>6, <2>2, <2>3
  <2> QED
    BY <1>3, <1>4, <2>1, <2>4
<1>9. ASSUME NEW r \in Runs, Deliver(r)
      PROVE  NewOffers' /\ Unread' /\ OneFrame'
  <2> DEFINE n == made + 1
             f == Frame("run", r, n, 0)
  <2>1. /\ n \in Offers /\ made \in Nat /\ made' = n /\ current \in Conns /\ phase' = phase
        /\ runOf' = [runOf EXCEPT ![n] = r] /\ Send(current, f)
    BY <1>9 DEF Deliver, Offerable, NextOffer, TypeOK, runtimeVars
  <2>2. Offers \subseteq Nat
    BY DEF Offers
  <2>3. NewOffers'
    BY <2>1, <2>2 DEF NewOffers
  <2>4. phase[n] = "none"
    BY <2>1 DEF NewOffers
  <2>5. f.type = "run" /\ f.by = n /\ f.run = r
    BY DEF Frame
  <2>6. \A o \in Offers : o <= made => o # n /\ o <= n /\ runOf'[o] = runOf[o]
    BY <2>1, <2>2 DEF TypeOK
  <2>7. runOf'[n] = r /\ n <= n
    BY <2>1 DEF TypeOK
  <2>8. \A c \in Conns : \A i \in DOMAIN down[c] : down[c][i].type = "run" => down[c][i].by \in Offers
    BY <1>1 DEF DownFrames
  \* Every run frame was there before, or is the new one in the last place.
  <2>9. \A c \in Conns : \A i \in DOMAIN down'[c] :
          \/ i \in DOMAIN down[c] /\ down'[c][i] = down[c][i]
          \/ c = current /\ i = Len(down[c]) + 1 /\ down'[c][i] = f
    <3>1. CASE down' = down
      BY <3>1
    <3>2. CASE down' = [down EXCEPT ![current] = Append(@, f)]
      <4>1. down'[current] = Append(down[current], f) /\ \A c \in Conns : c # current => down'[c] = down[c]
        BY <2>1, <3>2 DEF TypeOK
      <4>2. \A i \in DOMAIN down'[current] :
              \/ i \in DOMAIN down[current] /\ down'[current][i] = down[current][i]
              \/ i = Len(down[current]) + 1 /\ down'[current][i] = f
        BY <1>1, <2>1, <4>1, AppendProperties
      <4> QED
        BY <4>1, <4>2
    <3> QED
      BY <2>1, <3>1, <3>2 DEF Send
  <2> HIDE DEF n, f
  <2>10. Unread'
    <3> SUFFICES ASSUME NEW c \in Conns, NEW i \in DOMAIN down'[c], down'[c][i].type = "run"
                 PROVE  LET g == down'[c][i] IN g.by <= made' /\ runOf'[g.by] = g.run /\ phase'[g.by] = "none"
      BY DEF Unread
    <3>1. CASE i \in DOMAIN down[c] /\ down'[c][i] = down[c][i]
      BY <2>1, <2>6, <2>8, <3>1 DEF Unread
    <3>2. CASE down'[c][i] = f
      BY <2>1, <2>4, <2>5, <2>7, <3>2
    <3> QED
      BY <2>9, <3>1, <3>2
  <2>11. OneFrame'
    <3>1. \A c \in Conns : \A i \in DOMAIN down[c] : down[c][i].type = "run" => down[c][i].by # n
      BY <2>6, <2>8 DEF Unread
    <3> QED
      BY <2>5, <2>9, <3>1 DEF OneFrame
  <2> QED
    BY <2>3, <2>10, <2>11
<1>10. CASE OfferReturns \/ OfferTimesOut
  BY <1>7, <1>10 DEF OfferReturns, OfferTimesOut, runtimeVars
<1>11. ASSUME NEW c \in Conns, Attach(c) \/ AttachReturns(c) \/ Disconnected(c) \/ ReadAck(c)
       PROVE  NewOffers' /\ Unread' /\ OneFrame'
  BY <1>7, <1>11 DEF Attach, AttachReturns, Disconnected, ReadAck, brokerVars, linkVars, runtimeVars
<1>12. ASSUME NEW c \in Conns, AttachRefused(c)
       PROVE  NewOffers' /\ Unread' /\ OneFrame'
  <2>1. UNCHANGED <<made, runOf, phase>>
    BY <1>12 DEF AttachRefused, brokerVars, runtimeVars
  <2>2. Moved(zero)
    <3>1. down'[c] = <<>> /\ \A d \in Conns : d # c => down'[d] = down[d]
      BY <1>12 DEF AttachRefused, TypeOK
    <3>2. DOMAIN down'[c] = {}
      BY <3>1
    <3> QED
      BY <1>1, <3>1, <3>2 DEF Moved
  <2> QED
    BY <1>3, <1>4, <2>1, <2>2
<1>13. ASSUME NEW c \in Conns, ReadEvent(c) \/ ReadFinish(c)
       PROVE  NewOffers' /\ Unread' /\ OneFrame'
  <2> DEFINE e == Frame("error", Head(up[c]).run, 0, 0)
  <2>1. UNCHANGED <<made, runOf, phase>>
    BY <1>13 DEF ReadEvent, ReadFinish, runtimeVars
  <2>2. Head(up[c]) \in UpFrames
    BY <1>13, QueueFacts DEF ReadEvent, ReadFinish, Reads, TypeOK
  <2>3. e \in DownFrames /\ e.type # "run"
    BY <2>2 DEF UpFrames, Frame, DownFrames
  <2>4. down' = down \/ Send(c, e)
    BY <1>13 DEF ReadEvent, ReadFinish
  <2> HIDE DEF e
  <2>5. Moved(zero)
    BY <1>5, <1>6, <2>3, <2>4
  <2> QED
    BY <1>3, <1>4, <2>1, <2>5
<1>14. ASSUME NEW c \in Conns, Drop(c)
       PROVE  NewOffers' /\ Unread' /\ OneFrame'
  <2>1. UNCHANGED <<made, runOf, phase>>
    BY <1>14 DEF Drop, brokerVars, runtimeVars
  <2>2. PICK i \in 0 .. Len(down[c]) : down' = [down EXCEPT ![c] = SubSeq(@, 1, i)]
    BY <1>14 DEF Drop
  <2>3. down'[c] = SubSeq(down[c], 1, i) /\ \A d \in Conns : d # c => down'[d] = down[d]
    BY <2>2 DEF TypeOK
  <2>4. \A j \in DOMAIN down'[c] : j \in DOMAIN down[c] /\ down'[c][j] = down[c][j]
    BY <1>1, <2>3, SubSeqProperties
  <2>5. Moved(zero)
    <3> SUFFICES ASSUME NEW d \in Conns, NEW j \in DOMAIN down'[d]
                 PROVE  j + 0 \in DOMAIN down[d] /\ down'[d][j] = down[d][j + 0]
      BY DEF Moved
    <3>1. j + 0 = j
      BY <1>1
    <3> QED
      BY <2>3, <2>4, <3>1
  <2> QED
    BY <1>3, <1>4, <2>1, <2>5
<1>15. CASE Connect
  <2>1. UNCHANGED <<made, runOf, phase>>
    BY <1>15 DEF Connect, brokerVars, runtimeVars
  <2>2. sdkConn + 1 \in Conns
    BY <1>15, ConstantsAssumption DEF ConstantsAssumption, Connect, TypeOK, Conns
  <2>3. Frame("welcome", NoRun, 0, 0) \in DownFrames /\ Frame("welcome", NoRun, 0, 0).type # "run"
    BY DEF Frame, DownFrames
  <2>4. Moved(zero)
    BY <1>6, <1>15, <2>2, <2>3 DEF Connect, Accept
  <2> QED
    BY <1>3, <1>4, <2>1, <2>4
<1>16. ASSUME NEW state \in {"hello", "serving"}, NEW types, Receives(state, types)
       PROVE  /\ sdkConn \in Conns /\ 1 \in DOMAIN down[sdkConn] /\ Head(down[sdkConn]) = down[sdkConn][1]
              /\ Head(down[sdkConn]).type \in types
              /\ \A d \in Conns : d # sdkConn => down'[d] = down[d]
              /\ \A i \in DOMAIN down'[sdkConn] :
                   i + 1 \in DOMAIN down[sdkConn] /\ down'[sdkConn][i] = down[sdkConn][i + 1]
  <2>1. sdkConn \in Conns /\ down[sdkConn] # <<>> /\ Head(down[sdkConn]).type \in types
    BY <1>16 DEF Receives, TypeOK, NoConn, Conns
  <2>2. down'[sdkConn] = Tail(down[sdkConn]) /\ \A d \in Conns : d # sdkConn => down'[d] = down[d]
    BY <1>16, <2>1 DEF Receives, TypeOK
  <2>3. 1 \in DOMAIN down[sdkConn] /\ Head(down[sdkConn]) = down[sdkConn][1]
    BY <1>1, <2>1, EmptySeq
  <2>4. \A i \in DOMAIN down'[sdkConn] :
          i + 1 \in DOMAIN down[sdkConn] /\ down'[sdkConn][i] = down[sdkConn][i + 1]
    BY <1>1, <2>1, <2>2
  <2> QED
    BY <2>1, <2>2, <2>3, <2>4
<1>17. ASSUME NEW state \in {"hello", "serving"}, NEW types, Receives(state, types)
       PROVE  \E k \in [Conns -> {0, 1}] : Moved(k)
  <2> DEFINE k == [c \in Conns |-> IF c = sdkConn THEN 1 ELSE 0]
  <2>1. \A c \in Conns : \A i \in DOMAIN down'[c] : i + 0 = i
    BY <1>1
  <2>2. Moved(k)
    BY <1>16, <1>17, <2>1 DEF Moved
  <2>3. k \in [Conns -> {0, 1}]
    OBVIOUS
  <2> QED
    BY <2>2, <2>3
<1>18. CASE ReceiveWelcome \/ ReceiveError \/ ReceiveCancel
  <2>1. UNCHANGED <<made, runOf>> /\ \A o \in Offers : phase[o] = "none" => phase'[o] = "none"
    BY <1>18 DEF ReceiveWelcome, ReceiveError, ReceiveCancel, brokerVars, runtimeVars
  <2>2. \E k \in [Conns -> {0, 1}] : Moved(k)
    BY <1>17, <1>18 DEF ReceiveWelcome, ReceiveError, ReceiveCancel
  <2> QED
    BY <1>3, <2>1, <2>2
<1>22. CASE ReceiveRun
  <2> DEFINE f == Head(down[sdkConn])
  <2>1. /\ sdkConn \in Conns /\ 1 \in DOMAIN down[sdkConn] /\ f = down[sdkConn][1] /\ f.type = "run"
        /\ \A d \in Conns : d # sdkConn => down'[d] = down[d]
        /\ \A i \in DOMAIN down'[sdkConn] :
             i + 1 \in DOMAIN down[sdkConn] /\ down'[sdkConn][i] = down[sdkConn][i + 1]
    BY <1>16, <1>22 DEF ReceiveRun
  <2>2. \E k \in [Conns -> {0, 1}] : Moved(k)
    BY <1>17, <1>22 DEF ReceiveRun
  <2>3. UNCHANGED <<made, runOf>> /\ (phase' = phase \/ phase' = [phase EXCEPT ![f.by] = "running"])
    BY <1>22 DEF ReceiveRun, brokerVars
  <2>8. f \in DownFrames
    BY <1>1, <2>1
  <2>9. f.by \in Offers
    BY <2>1, <2>8 DEF DownFrames
  <2>10. f.by <= made
    BY <2>1 DEF Unread
  <2>4. f.by <= made /\ made \in Nat /\ f.by \in Offers /\ Offers \subseteq Nat
    BY <2>9, <2>10 DEF TypeOK, Offers
  <2> HIDE DEF f
  <2>5. \A o \in Offers : o # f.by => phase'[o] = phase[o]
    BY <2>3 DEF TypeOK
  <2>6. NewOffers'
    <3>1. \A o \in Offers : o > made => o # f.by
      BY <2>4
    <3> QED
      BY <2>3, <2>5, <3>1 DEF NewOffers
  <2>7. Unread'
    <3> SUFFICES ASSUME NEW c \in Conns, NEW i \in DOMAIN down'[c], down'[c][i].type = "run"
                 PROVE  LET g == down'[c][i] IN g.by <= made' /\ runOf'[g.by] = g.run /\ phase'[g.by] = "none"
      BY DEF Unread
    <3>1. PICK j \in DOMAIN down[c] : down'[c][i] = down[c][j] /\ (c = sdkConn => j # 1)
      <4>1. CASE c = sdkConn
        <5>1. i \in 1 .. Len(down'[c])
          BY <1>1
        <5>2. i + 1 \in DOMAIN down[c] /\ down'[c][i] = down[c][i + 1] /\ i + 1 # 1
          BY <2>1, <4>1, <5>1
        <5> QED
          BY <5>2
      <4>2. CASE c # sdkConn
        BY <2>1, <4>2
      <4> QED
        BY <4>1, <4>2
    <3>2. down[c][j].by # f.by
      BY <2>1, <3>1 DEF OneFrame
    <3>3. down[c][j].by \in Offers
      BY <1>1, <3>1 DEF DownFrames
    <3> QED
      BY <2>3, <2>5, <3>1, <3>2, <3>3 DEF Unread
  <2> QED
    BY <1>2, <2>2, <2>6, <2>7
<1>19. ASSUME NEW o \in Offers, ReportEvent(o) \/ FinishRun(o)
       PROVE  NewOffers' /\ Unread' /\ OneFrame'
  <2>1. UNCHANGED <<down, made, runOf>> /\ \A p \in Offers : phase[p] = "none" => phase'[p] = "none"
    BY <1>19 DEF ReportEvent, FinishRun, brokerVars, linkVars, TypeOK
  <2> QED
    BY <1>3, <1>4, <1>5, <2>1
<1>20. CASE WriteFrame \/ WriteFails \/ ConnectionLost
  BY <1>7, <1>20 DEF WriteFrame, WriteFails, ConnectionLost, brokerVars, linkVars, runtimeVars
<1>21. CASE UNCHANGED vars
  BY <1>7, <1>21 DEF vars, brokerVars, linkVars, runtimeVars
<1> QED
  BY <1>8, <1>9, <1>10, <1>11, <1>12, <1>13, <1>14, <1>15, <1>18, <1>19, <1>20, <1>21, <1>22 DEF Next

\* Every frame the provider queues is true, and every one under way stays so.
LEMMA FramesStep == TruthInv /\ [Next]_vars => FramesTruthful'
<1> SUFFICES ASSUME TypeOK, TypeOK', Unread, FramesTruthful, Monotone, [Next]_vars
             PROVE  FramesTruthful'
  BY TypeStep, MonotoneStep DEF TruthInv, LinkInv
<1>1. \A c \in Conns : up[c] \in Seq(UpFrames) /\ up'[c] \in Seq(UpFrames)
  BY DEF TypeOK
<1>2. outbound \in Seq(UpFrames)
  BY DEF TypeOK
<1>3. ASSUME \A c \in Conns : \A f \in Elems(up'[c]) : f \in Elems(up[c]) \/ Truthful(f)',
             \A f \in Elems(outbound') : f \in Elems(outbound) \/ Truthful(f)'
      PROVE  FramesTruthful'
  <2>1. \A c \in Conns : \A f \in Elems(up[c]) : Truthful(f)'
    BY <1>1, TruthfulStays, ElemFacts DEF FramesTruthful
  <2>2. \A f \in Elems(outbound) : Truthful(f)'
    BY <1>2, TruthfulStays, ElemFacts DEF FramesTruthful
  <2>3. \A c \in Conns : \A f \in Elems(up'[c]) : Truthful(f)'
    BY <1>3, <2>1
  <2>4. \A f \in Elems(outbound') : Truthful(f)'
    BY <1>3, <2>2
  <2>5. \A c \in Conns : Elems(up[c])' = Elems(up'[c])
    BY DEF Elems
  <2>6. Elems(outbound)' = Elems(outbound')
    BY DEF Elems
  <2> QED
    BY <2>3, <2>4, <2>5, <2>6 DEF FramesTruthful
<1>4. ASSUME UNCHANGED <<up, outbound>>
      PROVE  FramesTruthful'
  BY <1>3, <1>4
<1>5. ASSUME NEW g \in UpFrames, outbound' = Append(outbound, g), up' = up, Truthful(g)'
      PROVE  FramesTruthful'
  <2>1. Elems(outbound') \subseteq Elems(outbound) \cup {g}
    BY <1>2, <1>5, ElemFacts
  <2> QED
    BY <1>3, <1>5, <2>1
<1>6. ASSUME outbound # <<>>, outbound' = Tail(outbound)
      PROVE  Head(outbound) \in Elems(outbound) /\ Elems(outbound') \subseteq Elems(outbound)
  BY <1>2, <1>6, ElemFacts
<1>7. ASSUME NEW r \in Runs, StartRun(r) \/ Deliver(r) \/ DeliverInvalid(r) \/ CancelRun(r)
      PROVE  FramesTruthful'
  BY <1>4, <1>7 DEF StartRun, Deliver, DeliverInvalid, CancelRun, netVars, sdkVars
<1>8. CASE OfferReturns \/ OfferTimesOut
  BY <1>4, <1>8 DEF OfferReturns, OfferTimesOut, netVars, sdkVars
<1>9. ASSUME NEW c \in Conns, Attach(c) \/ AttachReturns(c) \/ Disconnected(c)
      PROVE  FramesTruthful'
  BY <1>4, <1>9 DEF Attach, AttachReturns, Disconnected, netVars, sdkVars
<1>10. ASSUME NEW c \in Conns, AttachRefused(c)
       PROVE  FramesTruthful'
  <2>1. up'[c] = <<>> /\ (\A d \in Conns : d # c => up'[d] = up[d]) /\ outbound' = outbound
    BY <1>10 DEF AttachRefused, sdkVars, TypeOK
  <2>2. Elems(up'[c]) = {}
    BY <2>1 DEF Elems
  <2> QED
    BY <1>3, <2>1, <2>2
<1>11. ASSUME NEW c \in Conns, ReadAck(c) \/ ReadEvent(c) \/ ReadFinish(c)
       PROVE  FramesTruthful'
  <2>1. up[c] # <<>> /\ up' = [up EXCEPT ![c] = Tail(@)] /\ outbound' = outbound
    BY <1>11 DEF ReadAck, ReadEvent, ReadFinish, Reads, sdkVars
  <2>2. up'[c] = Tail(up[c]) /\ \A d \in Conns : d # c => up'[d] = up[d]
    BY <2>1 DEF TypeOK
  <2>3. Elems(up'[c]) \subseteq Elems(up[c])
    BY <1>1, <2>1, <2>2, ElemFacts
  <2> QED
    BY <1>3, <2>1, <2>2, <2>3
<1>12. ASSUME NEW c \in Conns, Drop(c)
       PROVE  FramesTruthful'
  <2>1. PICK i \in 0 .. Len(up[c]) : up' = [up EXCEPT ![c] = SubSeq(@, 1, i)]
    BY <1>12 DEF Drop
  <2>2. up'[c] = SubSeq(up[c], 1, i) /\ \A d \in Conns : d # c => up'[d] = up[d]
    BY <2>1 DEF TypeOK
  <2>3. Elems(up'[c]) \subseteq Elems(up[c])
    BY <1>1, <2>2, ElemFacts
  <2>4. outbound' = outbound
    BY <1>12 DEF Drop, sdkVars
  <2> QED
    BY <1>3, <2>2, <2>3, <2>4
<1>13. CASE Connect \/ ReceiveWelcome \/ ReceiveError \/ ReceiveCancel \/ ConnectionLost
  BY <1>4, <1>13 DEF Connect, ReceiveWelcome, ReceiveError, ReceiveCancel, ConnectionLost, netVars
<1>14. CASE ReceiveRun
  <2> DEFINE f == Head(down[sdkConn])
             g == Frame(AnswerTo(f.run), f.run, f.by, 0)
  <2>1. sdkConn \in Conns /\ down[sdkConn] \in Seq(DownFrames) /\ down[sdkConn] # <<>> /\ f.type = "run"
    BY <1>14 DEF ReceiveRun, Receives, TypeOK, NoConn, Conns
  <2>2. 1 \in DOMAIN down[sdkConn] /\ f = down[sdkConn][1] /\ f \in DownFrames
    BY <2>1, EmptySeq, LenProperties, HeadTailProperties
  <2>3. f.by \in Offers /\ f.run \in Runs /\ runOf[f.by] = f.run
    BY <2>1, <2>2 DEF Unread, DownFrames
  <2>4. AnswerTo(f.run) \in AckTypes /\ (AnswerTo(f.run) = "refuse" => input[f.run] = "unreadable")
    BY DEF AnswerTo, AckTypes
  <2>5. /\ outbound' = Append(outbound, g)
        /\ phase' = IF AnswerTo(f.run) = "accept" THEN [phase EXCEPT ![f.by] = "running"] ELSE phase
        /\ UNCHANGED <<up, input, runOf>>
    BY <1>14 DEF ReceiveRun, brokerVars, netVars
  <2>6. g.type = AnswerTo(f.run) /\ g.run = f.run /\ g.by = f.by
    BY DEF Frame
  <2>7. g \in UpFrames
    BY <2>3, <2>4, ConstantsAssumption DEF ConstantsAssumption, Frame, UpFrames
  <2>10. PICK x \in UpFrames : x = g
    BY <2>7
  <2> HIDE DEF f, g
  <2>8. AnswerTo(f.run) = "accept" => phase'[f.by] = "running"
    BY <2>3, <2>5 DEF TypeOK
  <2>11. x.type = AnswerTo(f.run) /\ x.run = f.run /\ x.by = f.by
    BY <2>6, <2>10
  <2>9. Truthful(x)'
    BY <2>3, <2>4, <2>5, <2>8, <2>11 DEF Truthful, AckTypes
  <2> QED
    BY <1>5, <2>5, <2>9, <2>10
<1>15. ASSUME NEW o \in Offers, ReportEvent(o)
       PROVE  FramesTruthful'
  <2> DEFINE g == Frame("event", runOf[o], o, emitted[o] + 1)
  <2>1. outbound' = Append(outbound, g) /\ up' = up
    BY <1>15 DEF ReportEvent, netVars
  <2>2. emitted[o] + 1 \in 0 .. Events
    BY <1>15, ConstantsAssumption DEF ReportEvent, TypeOK, ConstantsAssumption
  <2>3. g \in UpFrames /\ g.type = "event"
    BY <2>2 DEF Frame, UpFrames, TypeOK
  <2>5. PICK x \in UpFrames : x = g
    BY <2>3
  <2> HIDE DEF g
  <2>4. Truthful(x)'
    BY <2>3, <2>5 DEF Truthful
  <2> QED
    BY <1>5, <2>1, <2>4, <2>5
<1>16. ASSUME NEW o \in Offers, FinishRun(o)
       PROVE  FramesTruthful'
  <2> DEFINE g == Frame("finish", runOf[o], o, 0)
  <2>1. outbound' = Append(outbound, g) /\ UNCHANGED <<up, runOf, input>> /\ phase' = [phase EXCEPT ![o] = "ended"]
    BY <1>16 DEF FinishRun, netVars, brokerVars
  <2>2. g \in UpFrames
    BY ConstantsAssumption DEF ConstantsAssumption, Frame, UpFrames, TypeOK
  <2>3. g.type = "finish" /\ g.run = runOf[o] /\ g.by = o
    BY DEF Frame
  <2>5. PICK x \in UpFrames : x = g
    BY <2>2
  <2>6. x.type = "finish" /\ x.run = runOf[o] /\ x.by = o
    BY <2>3, <2>5
  <2> HIDE DEF g
  <2>7. phase'[o] = "ended" /\ runOf'[o] = x.run
    BY <2>1, <2>6 DEF TypeOK
  <2>4. Truthful(x)'
    BY <2>6, <2>7 DEF Truthful
  <2> QED
    BY <1>5, <2>1, <2>4, <2>5
<1>17. CASE WriteFrame
  <2>1. sdkConn \in Conns /\ outbound # <<>> /\ outbound' = Tail(outbound)
    BY <1>17 DEF WriteFrame, TypeOK, NoConn, Conns
  <2>2. /\ up'[sdkConn] = Append(up[sdkConn], Head(outbound))
        /\ \A d \in Conns : d # sdkConn => up'[d] = up[d]
    BY <1>17, <2>1 DEF WriteFrame, TypeOK
  <2>3. Head(outbound) \in Elems(outbound) /\ Elems(outbound') \subseteq Elems(outbound)
    BY <1>6, <2>1
  <2>4. Head(outbound) \in UpFrames /\ Truthful(Head(outbound))
    BY <1>2, <2>3, ElemFacts DEF FramesTruthful
  <2> DEFINE h == Head(outbound)
  <2>5. Elems(up'[sdkConn]) \subseteq Elems(up[sdkConn]) \cup {h}
    BY <1>1, <2>1, <2>2, <2>4, ElemFacts
  <2>6. \A f \in UpFrames : Truthful(f) => Truthful(f)'
    BY TruthfulStays
  <2>7. \A f \in {h} : Truthful(f)'
    BY <2>4, <2>6
  <2> QED
    BY <1>3, <2>2, <2>3, <2>5, <2>7
<1>18. CASE WriteFails
  <2>1. outbound # <<>> /\ outbound' = Tail(outbound) /\ up' = up
    BY <1>18 DEF WriteFails, netVars
  <2> QED
    BY <1>3, <1>6, <2>1
<1>19. CASE UNCHANGED vars
  BY <1>4, <1>19 DEF vars, netVars, sdkVars
<1> QED
  BY <1>7, <1>8, <1>9, <1>10, <1>11, <1>12, <1>13, <1>14, <1>15, <1>16, <1>17, <1>18, <1>19 DEF Next

\* What souk makes of a true frame is true: the answer of the offer, the claim
\* and the outcome.
LEMMA VerdictStep == TruthInv /\ [Next]_vars => AnswerTruthful' /\ ClaimIsBacked' /\ OutcomeIsReported'
<1> SUFFICES ASSUME TypeOK, AwaitedIsTheOffer, FramesTruthful, AnswerTruthful,
                    ClaimIsBacked, OutcomeIsReported, Monotone, [Next]_vars
             PROVE  AnswerTruthful' /\ ClaimIsBacked' /\ OutcomeIsReported'
  BY MonotoneStep DEF TruthInv, LinkInv
<1> DEFINE Began(r) == \E o \in Offers : runOf[o] = r /\ phase[o] # "none"
           Ended(r) == \E o \in Offers : runOf[o] = r /\ phase[o] = "ended"
<1>1. ASSUME offer' = offer \/ offer'.answer \notin {"accept", "refuse"}
      PROVE  AnswerTruthful'
  BY <1>1 DEF AnswerTruthful, Monotone
<1>2. ASSUME \A r \in Runs : status'[r] \in {"running", "cancelling"} => r \in Claimed \/ Began(r)
      PROVE  ClaimIsBacked'
  <2>1. \A r \in Runs : status'[r] \in {"running", "cancelling"} => Began(r)
    BY <1>2 DEF ClaimIsBacked
  <2> QED
    BY <2>1 DEF ClaimIsBacked, Claimed, Monotone
<1>3. ASSUME \A r \in Runs : input[r] = "valid" /\ status'[r] \in {"completed", "failed"} =>
               status[r] \in {"completed", "failed"} \/ Ended(r)
      PROVE  OutcomeIsReported'
  <2>1. \A r \in Runs : input[r] = "valid" /\ status'[r] \in {"completed", "failed"} => Ended(r)
    BY <1>3 DEF OutcomeIsReported
  <2> QED
    BY <2>1 DEF OutcomeIsReported, Monotone
<1>4. ASSUME status' = status
      PROVE  ClaimIsBacked' /\ OutcomeIsReported'
  BY <1>2, <1>3, <1>4 DEF Claimed
<1> HIDE DEF Began, Ended
<1>5. ASSUME NEW r \in Runs, StartRun(r) \/ Deliver(r) \/ DeliverInvalid(r) \/ CancelRun(r)
      PROVE  AnswerTruthful' /\ ClaimIsBacked' /\ OutcomeIsReported'
  <2>1. CASE StartRun(r)
    <3>1. offer' = offer /\ status' = [status EXCEPT ![r] = "queued"]
      BY <2>1 DEF StartRun
    <3> QED
      BY <1>1, <1>2, <1>3, <3>1 DEF TypeOK, Claimed
  <2>2. CASE Deliver(r)
    <3>1. offer'.answer = "waiting" /\ status' = status
      BY <2>2 DEF Deliver
    <3> QED
      BY <1>1, <1>4, <3>1
  <2>3. CASE DeliverInvalid(r)
    <3>1. offer' = offer /\ status' = [status EXCEPT ![r] = "failed"] /\ input[r] = "invalid"
      BY <2>3 DEF DeliverInvalid
    <3> QED
      BY <1>1, <1>2, <1>3, <3>1 DEF TypeOK, Claimed
  <2>4. CASE CancelRun(r)
    <3>1. /\ offer' = offer
          /\ \/ status' = [status EXCEPT ![r] = "cancelled"]
             \/ status[r] = "running" /\ status' = [status EXCEPT ![r] = "cancelling"]
      BY <2>4 DEF CancelRun
    <3> QED
      BY <1>1, <1>2, <1>3, <3>1 DEF TypeOK, Claimed
  <2> QED
    BY <1>5, <2>1, <2>2, <2>3, <2>4
<1>6. CASE OfferReturns
  <2>1. offer' = NoOffer /\ offer # NoOffer /\ offer.answer # "waiting"
    BY <1>6 DEF OfferReturns
  <2>2. offer.run \in Runs /\ offer.answer \in AckTypes
    BY <2>1 DEF TypeOK, OffersOut
  <2>3. \/ status' = status
        \/ offer.answer = "accept" /\ status' = [status EXCEPT ![offer.run] = "running"]
        \/ offer.answer = "refuse" /\ status' = [status EXCEPT ![offer.run] = "failed"]
    BY <1>6, <2>2 DEF OfferReturns, AckTypes
  <2>4. offer.answer = "accept" => Began(offer.run)
    BY DEF AnswerTruthful, Began
  <2>5. offer.answer = "refuse" => input[offer.run] # "valid"
    BY DEF AnswerTruthful
  <2>6. ClaimIsBacked' /\ OutcomeIsReported'
    <3>1. CASE status' = status
      BY <1>4, <3>1
    <3>2. CASE offer.answer = "accept" /\ status' = [status EXCEPT ![offer.run] = "running"]
      BY <1>2, <1>3, <2>2, <2>4, <3>2 DEF TypeOK, Claimed
    <3>3. CASE offer.answer = "refuse" /\ status' = [status EXCEPT ![offer.run] = "failed"]
      BY <1>2, <1>3, <2>2, <2>5, <3>3 DEF TypeOK, Claimed
    <3> QED
      BY <2>3, <3>1, <3>2, <3>3
  <2>7. AnswerTruthful'
    BY <1>1, <2>1 DEF NoOffer
  <2> QED
    BY <2>6, <2>7
<1>7. CASE OfferTimesOut
  BY <1>1, <1>4, <1>7 DEF OfferTimesOut, NoOffer
<1>8. ASSUME NEW c \in Conns, Attach(c) \/ AttachReturns(c) \/ AttachRefused(c) \/ Drop(c) \/ ReadEvent(c)
      PROVE  AnswerTruthful' /\ ClaimIsBacked' /\ OutcomeIsReported'
  BY <1>1, <1>4, <1>8 DEF Attach, AttachReturns, AttachRefused, Drop, ReadEvent, brokerVars
<1>9. ASSUME NEW c \in Conns, NEW types, Reads(c, types)
      PROVE  Head(up[c]) \in UpFrames /\ Head(up[c]).type \in types /\ Truthful(Head(up[c]))
  BY <1>9, ElemFacts DEF Reads, TypeOK, FramesTruthful
<1>10. ASSUME NEW c \in Conns, ReadAck(c)
       PROVE  AnswerTruthful' /\ ClaimIsBacked' /\ OutcomeIsReported'
  <2> DEFINE f == Head(up[c])
  <2>1. f \in UpFrames /\ f.type \in AckTypes /\ Truthful(f)
    BY <1>9, <1>10 DEF ReadAck
  <2>2. UNCHANGED <<status, input, phase, runOf>>
    BY <1>10 DEF ReadAck, runtimeVars
  <2>3. CASE offer' = offer
    BY <1>1, <1>4, <2>2, <2>3
  <2>4. CASE offer' # offer
    <3>1. f.run \in acks[c] /\ offer.answer = "waiting" /\ offer' = [offer EXCEPT !.answer = f.type, !.by = f.by]
      BY <1>10, <2>4 DEF ReadAck
    <3>2. offer \in OffersOut
      BY <3>1 DEF TypeOK, NoOffer
    <3>3. offer.run = f.run
      BY <3>1 DEF AwaitedIsTheOffer
    <3>4. offer'.answer = f.type /\ offer'.by = f.by /\ offer'.run = f.run
      BY <3>1, <3>2, <3>3 DEF OffersOut
    <3>5. f.by \in Offers
      BY <2>1 DEF UpFrames
    <3>6. AnswerTruthful'
      BY <2>1, <2>2, <3>4, <3>5 DEF AnswerTruthful, Truthful
    <3> QED
      BY <1>4, <2>2, <3>6
  <2> QED
    BY <2>3, <2>4
<1>11. ASSUME NEW c \in Conns, ReadFinish(c)
       PROVE  AnswerTruthful' /\ ClaimIsBacked' /\ OutcomeIsReported'
  <2> DEFINE f == Head(up[c])
  <2>1. f \in UpFrames /\ f.type = "finish" /\ Truthful(f)
    BY <1>9, <1>11 DEF ReadFinish
  <2>2. f.by \in Offers /\ runOf[f.by] = f.run /\ phase[f.by] = "ended"
    BY <2>1 DEF Truthful, UpFrames
  <2>3. Ended(f.run)
    BY <2>2 DEF Ended
  <2>4. offer' = offer /\ (status' = status \/ (f.run \in Claimed /\ status' = [status EXCEPT ![f.run] = Outcome(f.run)]))
    BY <1>11 DEF ReadFinish
  <2>5. Outcome(f.run) \notin {"running", "cancelling"}
    BY DEF Outcome
  <2> HIDE DEF f
  <2>6. CASE status' = status
    BY <1>1, <1>4, <2>4, <2>6
  <2>7. CASE f.run \in Claimed /\ status' = [status EXCEPT ![f.run] = Outcome(f.run)]
    <3>1. f.run \in Runs /\ status'[f.run] = Outcome(f.run) /\ \A r \in Runs : r # f.run => status'[r] = status[r]
      BY <2>7 DEF Claimed, TypeOK
    <3>2. ClaimIsBacked'
      BY <1>2, <2>5, <3>1 DEF Claimed
    <3>3. OutcomeIsReported'
      BY <1>3, <2>3, <3>1
    <3> QED
      BY <1>1, <2>4, <3>2, <3>3
  <2> QED
    BY <2>4, <2>6, <2>7
<1>12. ASSUME NEW c \in Conns, Disconnected(c)
       PROVE  AnswerTruthful' /\ ClaimIsBacked' /\ OutcomeIsReported'
  <2>1. status' = status
    BY <1>12 DEF Disconnected
  <2>2. CASE offer.answer = "waiting"
    <3>1. offer \in OffersOut
      BY <2>2 DEF TypeOK, NoOffer
    <3>2. offer' = offer \/ offer' = [offer EXCEPT !.answer = "decline", !.by = offer.no]
      BY <1>12 DEF Disconnected, FailPending
    <3>3. offer' = offer \/ offer'.answer = "decline"
      BY <3>1, <3>2 DEF OffersOut
    <3> QED
      BY <1>1, <1>4, <2>1, <3>3
  <2>3. CASE offer.answer # "waiting"
    BY <1>1, <1>4, <1>12, <2>1, <2>3 DEF Disconnected, FailPending
  <2> QED
    BY <2>2, <2>3
<1>13. CASE Connect \/ ReceiveWelcome \/ ReceiveRun \/ ReceiveCancel \/ ReceiveError
  BY <1>1, <1>4, <1>13 DEF Connect, ReceiveWelcome, ReceiveRun, ReceiveCancel, ReceiveError, brokerVars
<1>14. ASSUME NEW o \in Offers, ReportEvent(o) \/ FinishRun(o)
       PROVE  AnswerTruthful' /\ ClaimIsBacked' /\ OutcomeIsReported'
  BY <1>1, <1>4, <1>14 DEF ReportEvent, FinishRun, brokerVars
<1>15. CASE WriteFrame \/ WriteFails \/ ConnectionLost
  BY <1>1, <1>4, <1>15 DEF WriteFrame, WriteFails, ConnectionLost, brokerVars
<1>16. CASE UNCHANGED vars
  BY <1>1, <1>4, <1>16 DEF vars, brokerVars
<1> QED
  BY <1>5, <1>6, <1>7, <1>8, <1>10, <1>11, <1>12, <1>13, <1>14, <1>15, <1>16 DEF Next

\* The answers' invariant is inductive.
LEMMA TruthStep == TruthInv /\ [Next]_vars => TruthInv'
  BY LinkStep, DownStep, FramesStep, VerdictStep DEF TruthInv

\* A run souk records as held was taken by the provider, however acks,
\* deadlines, drops and reconnects interleave.
THEOREM ClaimsAreBacked == Spec => []ClaimIsBacked
<1>1. TruthInv => ClaimIsBacked
  BY DEF TruthInv
<1> QED
  BY <1>1, TruthInit, TruthStep, PTL DEF Spec

\* A run the provider could take ends only because the provider ended it:
\* no disconnect, timeout or refused socket records an outcome.
THEOREM OutcomesAreReported == Spec => []OutcomeIsReported
<1>1. TruthInv => OutcomeIsReported
  BY DEF TruthInv
<1> QED
  BY <1>1, TruthInit, TruthStep, PTL DEF Spec
-----------------------------------------------------------------------------
(* The events.  An event frame stands in one place only, the client's      *)
(* queue or one socket, and souk has not recorded it yet: so whatever is   *)
(* read, lost or written, it is recorded at most once.                     *)

\* Where a frame of the provider can be: its queue (0) or a socket.
Places   == 0 .. MaxConns
Queue(c) == IF c = 0 THEN outbound ELSE up[c]

IsEvent(f) == f.type = "event"
Same(f, g) == f.by = g.by /\ f.n = g.n

\* Nothing is on its way, or recorded, that no execution has reported yet.
FramesReported ==
  \A c \in Places : \A i \in DOMAIN Queue(c) :
    IsEvent(Queue(c)[i]) => Queue(c)[i].n <= emitted[Queue(c)[i].by]

EventsReported ==
  \A r \in Runs : \A k \in DOMAIN events[r] : events[r][k][2] <= emitted[events[r][k][1]]

\* One event is on its way once.
FramesApart ==
  \A c, d \in Places : \A i \in DOMAIN Queue(c), j \in DOMAIN Queue(d) :
    IsEvent(Queue(c)[i]) /\ IsEvent(Queue(d)[j]) /\ Same(Queue(c)[i], Queue(d)[j]) => c = d /\ i = j

\* What is on its way has not been recorded.
FramesUnread ==
  \A c \in Places : \A i \in DOMAIN Queue(c) : IsEvent(Queue(c)[i]) =>
    \A r \in Runs : \A k \in DOMAIN events[r] : events[r][k] # <<Queue(c)[i].by, Queue(c)[i].n>>

\* The events, on their way and recorded.
OnceInv ==
  TypeOK /\ FramesReported /\ EventsReported /\ FramesApart /\ FramesUnread /\ EventRecordedOnce

\* Every place holds a queue of the provider's frames.
LEMMA QueueType == TypeOK => \A c \in Places : Queue(c) \in Seq(UpFrames)
  BY ConstantsAssumption DEF ConstantsAssumption, TypeOK, Places, Conns, Queue

\* Nothing is under way at first.
LEMMA OnceInit == Init => OnceInv
<1> SUFFICES ASSUME Init PROVE OnceInv
  OBVIOUS
<1>1. TypeOK
  BY TypeInit
<1>2. \A c \in Places : Queue(c) = <<>>
  BY DEF Init, Places, Conns, Queue
<1>3. \A r \in Runs : events[r] = <<>>
  BY DEF Init
<1>4. DOMAIN <<>> = {}
  OBVIOUS
<1>5. FramesReported
  BY <1>2, <1>4 DEF FramesReported
<1>6. FramesApart
  BY <1>2, <1>4 DEF FramesApart
<1>7. FramesUnread
  BY <1>2, <1>4 DEF FramesUnread
<1>8. EventsReported /\ EventRecordedOnce
  BY <1>3, <1>4 DEF EventsReported, EventRecordedOnce
<1> QED
  BY <1>1, <1>5, <1>6, <1>7, <1>8 DEF OnceInv

\* Frames only move or are lost: what is the i-th of place c after the step
\* was the x[c][i]-th of place q[c][i] before it, and no two were the same.
Carried(q, x) ==
  /\ \A c \in Places : \A i \in DOMAIN Queue(c)' :
       /\ q[c][i] \in Places
       /\ x[c][i] \in DOMAIN Queue(q[c][i])
       /\ Queue(q[c][i])[x[c][i]] = Queue(c)'[i]
  /\ \A c, d \in Places : \A i \in DOMAIN Queue(c)', j \in DOMAIN Queue(d)' :
       q[c][i] = q[d][j] /\ x[c][i] = x[d][j] => c = d /\ i = j

\* Moving and losing frames reports, records and repeats nothing.
LEMMA FramesMoved ==
  ASSUME OnceInv, UNCHANGED <<events, emitted>>, NEW q, NEW x, Carried(q, x)
  PROVE  FramesReported' /\ EventsReported' /\ FramesApart' /\ FramesUnread' /\ EventRecordedOnce'
<1> USE DEF Carried
<1>1. FramesReported'
  BY DEF OnceInv, FramesReported
<1>2. FramesApart'
  <2> SUFFICES ASSUME NEW c \in Places, NEW d \in Places, NEW i \in DOMAIN Queue(c)', NEW j \in DOMAIN Queue(d)',
                      IsEvent(Queue(c)'[i]), IsEvent(Queue(d)'[j]), Same(Queue(c)'[i], Queue(d)'[j])
               PROVE  c = d /\ i = j
    BY DEF FramesApart
  <2>1. q[c][i] = q[d][j] /\ x[c][i] = x[d][j]
    BY DEF OnceInv, FramesApart
  <2> QED
    BY <2>1
<1>3. FramesUnread'
  BY DEF OnceInv, FramesUnread
<1>4. EventsReported' /\ EventRecordedOnce'
  BY DEF OnceInv, EventsReported, EventRecordedOnce
<1> QED
  BY <1>1, <1>2, <1>3, <1>4

\* The positions of a queue that lost its head, its end, or got one more frame.
LEMMA Positions ==
  ASSUME NEW S, NEW s \in Seq(S)
  PROVE  /\ s # <<>> => /\ 1 \in DOMAIN s /\ Head(s) = s[1]
                        /\ DOMAIN s \subseteq Nat
                        /\ \A i \in DOMAIN Tail(s) : i \in Nat /\ i + 1 \in DOMAIN s /\ i + 1 # 1 /\ Tail(s)[i] = s[i + 1]
         /\ \A n \in 0 .. Len(s) : \A i \in DOMAIN SubSeq(s, 1, n) :
              i \in Nat /\ i \in DOMAIN s /\ SubSeq(s, 1, n)[i] = s[i]
         /\ \A x \in S : /\ DOMAIN Append(s, x) = DOMAIN s \cup {Len(s) + 1}
                         /\ Len(s) + 1 \notin DOMAIN s
                         /\ Append(s, x)[Len(s) + 1] = x
                         /\ \A i \in DOMAIN s : Append(s, x)[i] = s[i]
<1>1. DOMAIN s = 1 .. Len(s) /\ Len(s) \in Nat
  BY LenProperties
<1>2. ASSUME s # <<>>
      PROVE  /\ 1 \in DOMAIN s /\ Head(s) = s[1] /\ DOMAIN s \subseteq Nat
             /\ \A i \in DOMAIN Tail(s) : i \in Nat /\ i + 1 \in DOMAIN s /\ i + 1 # 1 /\ Tail(s)[i] = s[i + 1]
  <2>1. Len(s) # 0
    BY <1>2, EmptySeq
  <2>2. Head(s) = s[1]
    BY <1>2, HeadTailProperties
  <2>3. Tail(s) \in Seq(S) /\ Len(Tail(s)) = Len(s) - 1 /\ \A i \in 1 .. Len(Tail(s)) : Tail(s)[i] = s[i + 1]
    BY <1>2, HeadTailProperties
  <2>4. DOMAIN Tail(s) = 1 .. Len(Tail(s))
    BY <2>3, LenProperties
  <2> QED
    BY <1>1, <2>1, <2>2, <2>3, <2>4
<1>3. ASSUME NEW n \in 0 .. Len(s), NEW i \in DOMAIN SubSeq(s, 1, n)
      PROVE  i \in Nat /\ i \in DOMAIN s /\ SubSeq(s, 1, n)[i] = s[i]
  <2>1. SubSeq(s, 1, n) = [j \in 1 .. n |-> s[j]]
    <3>1. Len(SubSeq(s, 1, n)) = n /\ \A j \in 1 .. n : SubSeq(s, 1, n)[j] = s[j]
      OBVIOUS
    <3>2. DOMAIN SubSeq(s, 1, n) = 1 .. n
      OBVIOUS
    <3> QED
      BY <3>1, <3>2
  <2> QED
    BY <1>1, <1>3, <2>1
<1>4. ASSUME NEW x \in S
      PROVE  /\ DOMAIN Append(s, x) = DOMAIN s \cup {Len(s) + 1}
             /\ Len(s) + 1 \notin DOMAIN s
             /\ Append(s, x)[Len(s) + 1] = x
             /\ \A i \in DOMAIN s : Append(s, x)[i] = s[i]
  <2>1. /\ Append(s, x) \in Seq(S) /\ Len(Append(s, x)) = Len(s) + 1
        /\ Append(s, x)[Len(s) + 1] = x /\ \A i \in 1 .. Len(s) : Append(s, x)[i] = s[i]
    BY AppendProperties
  <2>2. DOMAIN Append(s, x) = 1 .. Len(s) + 1
    BY <2>1, LenProperties
  <2> QED
    BY <1>1, <2>1, <2>2
<1> QED
  BY <1>2, <1>3, <1>4

\* Queues that only lose frames, the first k[c] of each or some at its end.
LEMMA FramesLeft ==
  ASSUME OnceInv, UNCHANGED <<events, emitted>>, NEW k \in [Places -> Nat],
         \A c \in Places : \A i \in DOMAIN Queue(c)' :
           i \in Nat /\ i + k[c] \in DOMAIN Queue(c) /\ Queue(c)'[i] = Queue(c)[i + k[c]]
  PROVE  FramesReported' /\ EventsReported' /\ FramesApart' /\ FramesUnread' /\ EventRecordedOnce'
<1> DEFINE q == [c \in Places |-> [i \in Nat |-> c]]
           x == [c \in Places |-> [i \in Nat |-> i + k[c]]]
<1>1. \A c \in Places, i \in Nat : q[c][i] = c /\ x[c][i] = i + k[c]
  OBVIOUS
<1> HIDE DEF q, x
<1>2. \A c \in Places : \A i \in DOMAIN Queue(c)' :
        q[c][i] \in Places /\ x[c][i] \in DOMAIN Queue(q[c][i]) /\ Queue(q[c][i])[x[c][i]] = Queue(c)'[i]
  BY <1>1
<1>3. \A c, d \in Places : \A i \in DOMAIN Queue(c)', j \in DOMAIN Queue(d)' :
        q[c][i] = q[d][j] /\ x[c][i] = x[d][j] => c = d /\ i = j
  <2> SUFFICES ASSUME NEW c \in Places, NEW d \in Places, NEW i \in DOMAIN Queue(c)', NEW j \in DOMAIN Queue(d)',
                      q[c][i] = q[d][j] /\ x[c][i] = x[d][j]
               PROVE  c = d /\ i = j
    OBVIOUS
  <2>1. i \in Nat /\ j \in Nat
    OBVIOUS
  <2>2. c = d /\ i + k[c] = j + k[d]
    BY <1>1, <2>1
  <2> QED
    BY <2>1, <2>2
<1>4. Carried(q, x)
  BY <1>2, <1>3 DEF Carried
<1> QED
  BY <1>4, FramesMoved

\* What does not touch the queues.
LEMMA FramesStay ==
  ASSUME OnceInv, UNCHANGED <<events, emitted, up, outbound>>
  PROVE  FramesReported' /\ EventsReported' /\ FramesApart' /\ FramesUnread' /\ EventRecordedOnce'
<1>1. \A c \in Places : Queue(c)' = Queue(c)
  BY DEF Queue
<1>2. \A c \in Places : \A i \in DOMAIN Queue(c) : i \in Nat
  BY QueueType, LenProperties DEF OnceInv
<1> DEFINE k == [c \in Places |-> 0]
<1>3. k \in [Places -> Nat] /\ \A c \in Places : k[c] = 0
  OBVIOUS
<1> HIDE DEF k
<1> QED
  BY <1>1, <1>2, <1>3, FramesLeft

\* A frame more in the client's queue, which is no event or a new one.
LEMMA FrameQueued ==
  ASSUME OnceInv, UNCHANGED <<events, up>>, NEW g \in UpFrames, outbound' = Append(outbound, g),
         \A o \in Offers : emitted[o] <= emitted'[o],
         emitted' \in [Offers -> 0 .. Events],
         IsEvent(g) => emitted[g.by] < g.n /\ g.n <= emitted'[g.by]
  PROVE  FramesReported' /\ EventsReported' /\ FramesApart' /\ FramesUnread' /\ EventRecordedOnce'
<1> USE DEF OnceInv
<1>1. emitted \in [Offers -> 0 .. Events] /\ events \in [Runs -> Seq(Offers \X (0 .. Events))] /\ outbound \in Seq(UpFrames)
  BY DEF TypeOK
<1>2. Events \in Nat
  BY ConstantsAssumption DEF ConstantsAssumption
<1>3. 0 \in Places /\ Queue(0)' = Append(Queue(0), g) /\ \A c \in Places : c # 0 => Queue(c)' = Queue(c)
  BY ConstantsAssumption DEF ConstantsAssumption, Places, Queue
<1>4. \A c \in Places : \A i \in DOMAIN Queue(c) : Queue(c)[i] \in UpFrames
  BY QueueType, LenProperties, ElementOfSeq
<1>5. \A c \in Places : \A i \in DOMAIN Queue(c)' :
        \/ i \in DOMAIN Queue(c) /\ Queue(c)'[i] = Queue(c)[i]
        \/ c = 0 /\ i = Len(Queue(0)) + 1 /\ Queue(c)'[i] = g
  BY <1>3, QueueType, Positions
<1>6. \A f \in UpFrames : f.by \in Offers /\ f.n \in 0 .. Events
  BY DEF UpFrames
<1>7. \A r \in Runs : \A m \in DOMAIN events[r] : events[r][m][1] \in Offers /\ events[r][m][2] \in 0 .. Events
  <2> SUFFICES ASSUME NEW r \in Runs, NEW m \in DOMAIN events[r]
               PROVE  events[r][m][1] \in Offers /\ events[r][m][2] \in 0 .. Events
    OBVIOUS
  <2>1. events[r] \in Seq(Offers \X (0 .. Events))
    BY <1>1
  <2>2. events[r][m] \in Offers \X (0 .. Events)
    BY <2>1, LenProperties, ElementOfSeq
  <2> QED
    BY <2>2
<1>8. FramesReported'
  <2> SUFFICES ASSUME NEW c \in Places, NEW i \in DOMAIN Queue(c)', IsEvent(Queue(c)'[i])
               PROVE  Queue(c)'[i].n <= emitted'[Queue(c)'[i].by]
    BY DEF FramesReported
  <2>1. CASE i \in DOMAIN Queue(c) /\ Queue(c)'[i] = Queue(c)[i]
    <3>1. PICK f \in UpFrames : f = Queue(c)[i]
      BY <1>4, <2>1
    <3>2. f.n <= emitted[f.by]
      BY <2>1, <3>1 DEF FramesReported
    <3> QED
      BY <1>1, <1>2, <1>6, <2>1, <3>1, <3>2
  <2> QED
    BY <1>5, <2>1
<1>9. EventsReported'
  <2> SUFFICES ASSUME NEW r \in Runs, NEW m \in DOMAIN events[r]
               PROVE  events[r][m][2] <= emitted'[events[r][m][1]]
    BY DEF EventsReported
  <2>1. events[r][m][2] <= emitted[events[r][m][1]]
    BY DEF EventsReported
  <2> QED
    BY <1>1, <1>2, <1>7, <2>1
<1>10. ASSUME NEW c \in Places, NEW i \in DOMAIN Queue(c), IsEvent(Queue(c)[i]), IsEvent(g)
       PROVE  ~ Same(Queue(c)[i], g)
  <2>1. PICK f \in UpFrames : f = Queue(c)[i]
    BY <1>4, <1>10
  <2>2. f.n <= emitted[f.by]
    BY <1>10, <2>1 DEF FramesReported
  <2> QED
    BY <1>1, <1>2, <1>6, <1>10, <2>1, <2>2 DEF Same
<1>11. FramesApart'
  <2> SUFFICES ASSUME NEW c \in Places, NEW d \in Places, NEW i \in DOMAIN Queue(c)', NEW j \in DOMAIN Queue(d)',
                      IsEvent(Queue(c)'[i]), IsEvent(Queue(d)'[j]), Same(Queue(c)'[i], Queue(d)'[j])
               PROVE  c = d /\ i = j
    BY DEF FramesApart
  <2>1. CASE i \in DOMAIN Queue(c) /\ Queue(c)'[i] = Queue(c)[i] /\ j \in DOMAIN Queue(d) /\ Queue(d)'[j] = Queue(d)[j]
    BY <2>1 DEF FramesApart
  <2>2. Same(g, Queue(c)'[i]) => Same(Queue(c)'[i], g)
    BY DEF Same
  <2>4. Same(g, Queue(d)'[j]) => Same(Queue(d)'[j], g)
    BY DEF Same
  <2>5. CASE c = 0 /\ i = Len(Queue(0)) + 1 /\ Queue(c)'[i] = g /\ j \in DOMAIN Queue(d) /\ Queue(d)'[j] = Queue(d)[j]
    BY <1>10, <2>4, <2>5
  <2>6. CASE d = 0 /\ j = Len(Queue(0)) + 1 /\ Queue(d)'[j] = g /\ i \in DOMAIN Queue(c) /\ Queue(c)'[i] = Queue(c)[i]
    BY <1>10, <2>6
  <2> QED
    BY <1>5, <2>1, <2>5, <2>6
<1>12. FramesUnread'
  <2> SUFFICES ASSUME NEW c \in Places, NEW i \in DOMAIN Queue(c)', IsEvent(Queue(c)'[i]),
                      NEW r \in Runs, NEW m \in DOMAIN events[r]
               PROVE  events[r][m] # <<Queue(c)'[i].by, Queue(c)'[i].n>>
    BY DEF FramesUnread
  <2>1. CASE i \in DOMAIN Queue(c) /\ Queue(c)'[i] = Queue(c)[i]
    BY <2>1 DEF FramesUnread
  <2>2. CASE Queue(c)'[i] = g
    <3>1. events[r][m][2] <= emitted[events[r][m][1]]
      BY DEF EventsReported
    <3>2. ASSUME events[r][m] = <<g.by, g.n>>
          PROVE  FALSE
      <4>1. events[r][m][1] = g.by /\ events[r][m][2] = g.n
        BY <3>2
      <4> QED
        BY <1>1, <1>2, <1>6, <2>2, <3>1, <4>1
    <3> QED
      BY <2>2, <3>2
  <2> QED
    BY <1>5, <2>1, <2>2
<1> QED
  BY <1>8, <1>9, <1>11, <1>12 DEF EventRecordedOnce

\* The writer takes the client's first frame and sends it on socket s.
LEMMA FrameSent ==
  ASSUME OnceInv, UNCHANGED <<events, emitted>>, NEW s \in Conns, outbound # <<>>,
         outbound' = Tail(outbound), up' = [up EXCEPT ![s] = Append(@, Head(outbound))]
  PROVE  FramesReported' /\ EventsReported' /\ FramesApart' /\ FramesUnread' /\ EventRecordedOnce'
<1> DEFINE h == Head(outbound)
           L == Len(up[s]) + 1
           q == [c \in Places |-> [i \in Nat |-> IF c = s /\ i = L THEN 0 ELSE c]]
           x == [c \in Places |-> [i \in Nat |-> IF c = 0 THEN i + 1 ELSE IF c = s /\ i = L THEN 1 ELSE i]]
<1>1. s # 0 /\ s \in Places /\ 0 \in Places /\ s \in Nat
  BY ConstantsAssumption DEF ConstantsAssumption, Conns, Places
<1>2. outbound \in Seq(UpFrames) /\ up \in [Conns -> Seq(UpFrames)] /\ h \in UpFrames
  BY QueueFacts DEF OnceInv, TypeOK
<1>3. L \in Nat
  BY <1>2, LenProperties
<1>4. /\ \A c \in Places, i \in Nat : q[c][i] = IF c = s /\ i = L THEN 0 ELSE c
      /\ \A c \in Places, i \in Nat : x[c][i] = IF c = 0 THEN i + 1 ELSE IF c = s /\ i = L THEN 1 ELSE i
  OBVIOUS
<1>6. \A c \in Places : \A i \in DOMAIN Queue(c) : i \in Nat
  BY QueueType, LenProperties DEF OnceInv
<1>7. /\ Queue(0) = outbound /\ Queue(0)' = Tail(outbound)
      /\ Queue(s) = up[s] /\ Queue(s)' = Append(up[s], h)
      /\ \A c \in Places : c # 0 /\ c # s => Queue(c)' = Queue(c)
  BY <1>1, <1>2 DEF Queue, Places, Conns
<1>8. /\ 1 \in DOMAIN outbound /\ h = outbound[1]
      /\ \A i \in DOMAIN Tail(outbound) :
           i \in Nat /\ i + 1 \in DOMAIN outbound /\ i + 1 # 1 /\ Tail(outbound)[i] = outbound[i + 1]
  BY <1>2, Positions
<1>9. /\ DOMAIN Append(up[s], h) = DOMAIN up[s] \cup {L}
      /\ L \notin DOMAIN up[s]
      /\ Append(up[s], h)[L] = h
      /\ \A i \in DOMAIN up[s] : Append(up[s], h)[i] = up[s][i]
  BY <1>2, Positions
<1> HIDE DEF q, x, h, L
<1>10. ASSUME NEW c \in Places, NEW i \in DOMAIN Queue(c)'
       PROVE  \/ c = 0 /\ i \in Nat /\ i + 1 # 1 /\ q[c][i] = 0 /\ x[c][i] = i + 1
                 /\ x[c][i] \in DOMAIN Queue(0) /\ Queue(0)[x[c][i]] = Queue(c)'[i]
              \/ c = s /\ i = L /\ q[c][i] = 0 /\ x[c][i] = 1
                 /\ x[c][i] \in DOMAIN Queue(0) /\ Queue(0)[x[c][i]] = Queue(c)'[i]
              \/ c # 0 /\ q[c][i] = c /\ x[c][i] = i
                 /\ i \in DOMAIN Queue(c) /\ Queue(c)[i] = Queue(c)'[i]
  <2>1. CASE c = 0
    BY <1>1, <1>4, <1>7, <1>8, <1>10, <2>1
  <2>2. CASE c = s /\ i = L
    BY <1>1, <1>3, <1>4, <1>7, <1>8, <1>9, <1>10, <2>2
  <2>3. CASE c = s /\ i # L
    <3>1. i \in DOMAIN Queue(c) /\ i \in Nat
      BY <1>6, <1>7, <1>9, <1>10, <2>3
    <3>2. Queue(c)[i] = Queue(c)'[i]
      BY <1>7, <1>9, <2>3, <3>1
    <3> QED
      BY <1>1, <1>4, <2>3, <3>1, <3>2
  <2>4. CASE c # 0 /\ c # s
    <3>1. i \in DOMAIN Queue(c) /\ i \in Nat /\ Queue(c)[i] = Queue(c)'[i]
      BY <1>6, <1>7, <1>10, <2>4
    <3> QED
      BY <1>4, <2>4, <3>1
  <2> QED
    BY <2>1, <2>2, <2>3, <2>4
<1>11. \A c \in Places : \A i \in DOMAIN Queue(c)' :
         q[c][i] \in Places /\ x[c][i] \in DOMAIN Queue(q[c][i]) /\ Queue(q[c][i])[x[c][i]] = Queue(c)'[i]
  BY <1>1, <1>10
<1>12. \A c, d \in Places : \A i \in DOMAIN Queue(c)', j \in DOMAIN Queue(d)' :
         q[c][i] = q[d][j] /\ x[c][i] = x[d][j] => c = d /\ i = j
  <2> SUFFICES ASSUME NEW c \in Places, NEW d \in Places, NEW i \in DOMAIN Queue(c)', NEW j \in DOMAIN Queue(d)',
                      q[c][i] = q[d][j], x[c][i] = x[d][j]
               PROVE  c = d /\ i = j
    OBVIOUS
  <2>1. \/ c = 0 /\ i \in Nat /\ i + 1 # 1 /\ q[c][i] = 0 /\ x[c][i] = i + 1
        \/ c = s /\ i = L /\ q[c][i] = 0 /\ x[c][i] = 1
        \/ c # 0 /\ q[c][i] = c /\ x[c][i] = i
    BY <1>10
  <2>2. \/ d = 0 /\ j \in Nat /\ j + 1 # 1 /\ q[d][j] = 0 /\ x[d][j] = j + 1
        \/ d = s /\ j = L /\ q[d][j] = 0 /\ x[d][j] = 1
        \/ d # 0 /\ q[d][j] = d /\ x[d][j] = j
    BY <1>10
  <2> QED
    BY <2>1, <2>2
<1>13. Carried(q, x)
  BY <1>11, <1>12 DEF Carried
<1> QED
  BY <1>13, FramesMoved

\* An event is read from socket s: souk records it, or refuses it.
LEMMA EventRead ==
  ASSUME OnceInv, UNCHANGED <<emitted, outbound>>, NEW s \in Conns, up[s] # <<>>,
         up' = [up EXCEPT ![s] = Tail(@)],
         IsEvent(Head(up[s])), NEW r \in Runs,
         events' = [events EXCEPT ![r] = Append(@, <<Head(up[s]).by, Head(up[s]).n>>)]
  PROVE  FramesReported' /\ EventsReported' /\ FramesApart' /\ FramesUnread' /\ EventRecordedOnce'
<1> DEFINE h == Head(up[s])
           e == <<h.by, h.n>>
           N == Len(events[r]) + 1
<1>1. s \in Places /\ s # 0 /\ up[s] \in Seq(UpFrames) /\ events[r] \in Seq(Offers \X (0 .. Events))
  BY ConstantsAssumption DEF ConstantsAssumption, Conns, Places, OnceInv, TypeOK
<1>2. h \in UpFrames
  BY <1>1, QueueFacts
<1>3. e \in Offers \X (0 .. Events)
  BY <1>2 DEF UpFrames
<1>4. /\ Queue(s) = up[s] /\ Queue(s)' = Tail(up[s])
      /\ \A c \in Places : c # s => Queue(c)' = Queue(c)
  BY <1>1 DEF Queue, Places, Conns, OnceInv, TypeOK
<1>5. /\ 1 \in DOMAIN Queue(s) /\ h = Queue(s)[1]
      /\ \A i \in DOMAIN Queue(s)' : i \in Nat /\ i + 1 \in DOMAIN Queue(s) /\ i + 1 # 1 /\ Queue(s)'[i] = Queue(s)[i + 1]
  BY <1>1, <1>4, Positions
<1>6. events'[r] = Append(events[r], e) /\ \A t \in Runs : t # r => events'[t] = events[t]
  BY DEF OnceInv, TypeOK
<1>7. /\ DOMAIN events'[r] = DOMAIN events[r] \cup {N}
      /\ events'[r][N] = e
      /\ \A m \in DOMAIN events[r] : events'[r][m] = events[r][m]
  BY <1>1, <1>3, <1>6, Positions
<1>8. IsEvent(h)
  OBVIOUS
<1> HIDE DEF h, N
<1>9. \A t \in Runs : \A m \in DOMAIN events'[t] :
        \/ m \in DOMAIN events[t] /\ events'[t][m] = events[t][m]
        \/ t = r /\ m = N /\ events'[t][m] = e
  BY <1>6, <1>7
<1>10. \A c \in Places : \A i \in DOMAIN Queue(c)' :
         \E j \in DOMAIN Queue(c) : Queue(c)[j] = Queue(c)'[i] /\ ~ (c = s /\ j = 1)
  BY <1>4, <1>5
<1>11. FramesReported'
  BY <1>10 DEF OnceInv, FramesReported
<1>12. EventsReported'
  <2>1. h.n <= emitted[h.by]
    BY <1>1, <1>5, <1>8 DEF OnceInv, FramesReported
  <2>2. e[1] = h.by /\ e[2] = h.n
    OBVIOUS
  <2> HIDE DEF e
  <2> QED
    BY <1>9, <2>1, <2>2 DEF OnceInv, EventsReported
<1>13. FramesApart'
  <2> DEFINE k == [c \in Places |-> IF c = s THEN 1 ELSE 0]
  <2>1. \A c \in Places : k[c] = IF c = s THEN 1 ELSE 0
    OBVIOUS
  <2>2. \A c \in Places : \A i \in DOMAIN Queue(c) : i \in Nat
    BY QueueType, LenProperties DEF OnceInv
  <2> HIDE DEF k
  <2>3. \A c \in Places : \A i \in DOMAIN Queue(c)' :
          i \in Nat /\ k[c] \in Nat /\ i + k[c] \in DOMAIN Queue(c) /\ Queue(c)'[i] = Queue(c)[i + k[c]]
    BY <1>4, <1>5, <2>1, <2>2
  <2> SUFFICES ASSUME NEW c \in Places, NEW d \in Places, NEW i \in DOMAIN Queue(c)', NEW j \in DOMAIN Queue(d)',
                      IsEvent(Queue(c)'[i]), IsEvent(Queue(d)'[j]), Same(Queue(c)'[i], Queue(d)'[j])
               PROVE  c = d /\ i = j
    BY DEF FramesApart
  <2>4. c = d /\ i + k[c] = j + k[d]
    BY <2>3 DEF OnceInv, FramesApart
  <2> QED
    BY <2>3, <2>4
<1>14. FramesUnread'
  <2> SUFFICES ASSUME NEW c \in Places, NEW i \in DOMAIN Queue(c)', IsEvent(Queue(c)'[i]),
                      NEW t \in Runs, NEW m \in DOMAIN events'[t]
               PROVE  events'[t][m] # <<Queue(c)'[i].by, Queue(c)'[i].n>>
    BY DEF FramesUnread
  <2>1. PICK j \in DOMAIN Queue(c) : Queue(c)[j] = Queue(c)'[i] /\ ~ (c = s /\ j = 1)
    BY <1>10
  <2>2. CASE m \in DOMAIN events[t] /\ events'[t][m] = events[t][m]
    BY <2>1, <2>2 DEF OnceInv, FramesUnread
  <2>3. CASE events'[t][m] = e
    <3>1. ~ Same(Queue(s)[1], Queue(c)[j])
      BY <1>1, <1>5, <1>8, <2>1 DEF OnceInv, FramesApart
    <3>2. ~ (h.by = Queue(c)[j].by /\ h.n = Queue(c)[j].n)
      BY <1>5, <3>1 DEF Same
    <3> QED
      BY <2>1, <2>3, <3>2
  <2> QED
    BY <1>9, <2>2, <2>3
<1>15. EventRecordedOnce'
  <2>1. \A m \in DOMAIN events[r] : events[r][m] # e
    BY <1>1, <1>5, <1>8 DEF OnceInv, FramesUnread
  <2> HIDE DEF e
  <2> SUFFICES ASSUME NEW t \in Runs, NEW i \in DOMAIN events'[t], NEW j \in DOMAIN events'[t],
                      events'[t][i] = events'[t][j]
               PROVE  i = j
    BY DEF EventRecordedOnce
  <2> QED
    BY <1>9, <2>1 DEF OnceInv, EventRecordedOnce
<1> QED
  BY <1>11, <1>12, <1>13, <1>14, <1>15

\* The events' invariant is inductive.
LEMMA OnceStep == OnceInv /\ [Next]_vars => OnceInv'
<1> DEFINE Kept == FramesReported' /\ EventsReported' /\ FramesApart' /\ FramesUnread' /\ EventRecordedOnce'
<1> SUFFICES ASSUME OnceInv, [Next]_vars
             PROVE  Kept
  BY TypeStep DEF OnceInv
<1>1. /\ up \in [Conns -> Seq(UpFrames)] /\ outbound \in Seq(UpFrames)
      /\ emitted \in [Offers -> 0 .. Events] /\ sdkConn \in 0 .. MaxConns
      /\ sdk # "idle" => sdkConn # NoConn
      /\ runOf \in [Offers -> Runs \cup {NoRun}]
  BY DEF OnceInv, TypeOK
<1>2. MaxConns \in Nat /\ Events \in Nat
  BY ConstantsAssumption DEF ConstantsAssumption
<1>3. ASSUME UNCHANGED <<events, emitted, up, outbound>>
      PROVE  Kept
  BY <1>3, FramesStay
<1>4. ASSUME UNCHANGED <<events, emitted>>, NEW k \in [Places -> Nat],
             \A c \in Places : \A i \in DOMAIN Queue(c)' :
               i \in Nat /\ i + k[c] \in DOMAIN Queue(c) /\ Queue(c)'[i] = Queue(c)[i + k[c]]
      PROVE  Kept
  BY <1>4, FramesLeft
<1>5. ASSUME UNCHANGED <<events, emitted, outbound>>, NEW s \in Conns, NEW n \in {0, 1},
             \A c \in Conns : c # s => up'[c] = up[c],
             \A i \in DOMAIN up'[s] : i \in Nat /\ i + n \in DOMAIN up[s] /\ up'[s][i] = up[s][i + n]
      PROVE  Kept
  <2> DEFINE k == [c \in Places |-> IF c = s THEN n ELSE 0]
  <2>1. k \in [Places -> Nat] /\ \A c \in Places : k[c] = IF c = s THEN n ELSE 0
    OBVIOUS
  <2>2. \A c \in Places : \A i \in DOMAIN Queue(c) : i \in Nat
    BY QueueType, LenProperties DEF OnceInv
  <2>3. /\ s \in Places /\ Queue(s) = up[s] /\ Queue(s)' = up'[s]
        /\ \A c \in Places : c # s => Queue(c)' = Queue(c)
    BY <1>2, <1>5 DEF Queue, Places, Conns
  <2> HIDE DEF k
  <2>4. \A c \in Places : \A i \in DOMAIN Queue(c)' :
          i \in Nat /\ i + k[c] \in DOMAIN Queue(c) /\ Queue(c)'[i] = Queue(c)[i + k[c]]
    BY <1>5, <2>1, <2>2, <2>3
  <2> HIDE DEF Kept
  <2> QED
    BY <1>4, <1>5, <2>1, <2>4
<1>6. ASSUME UNCHANGED <<events, emitted, outbound>>, NEW c \in Conns, up[c] # <<>>,
             up' = [up EXCEPT ![c] = Tail(@)]
      PROVE  Kept
  <2>1. up'[c] = Tail(up[c]) /\ \A d \in Conns : d # c => up'[d] = up[d]
    BY <1>1, <1>6
  <2>2. \A i \in DOMAIN up'[c] : i \in Nat /\ i + 1 \in DOMAIN up[c] /\ up'[c][i] = up[c][i + 1]
    BY <1>1, <1>6, <2>1, Positions
  <2> HIDE DEF Kept
  <2> QED
    BY <1>5, <1>6, <2>1, <2>2
<1>7. ASSUME UNCHANGED <<events, up>>, NEW g \in UpFrames, outbound' = Append(outbound, g),
             ~ IsEvent(g), emitted' = emitted
      PROVE  Kept
  <2>1. \A o \in Offers : emitted[o] <= emitted'[o]
    BY <1>1, <1>2, <1>7
  <2> QED
    BY <1>1, <1>7, <2>1, FrameQueued
<1> HIDE DEF Kept
<1>8. ASSUME NEW r \in Runs, StartRun(r) \/ Deliver(r) \/ DeliverInvalid(r) \/ CancelRun(r)
      PROVE  Kept
  BY <1>3, <1>8 DEF StartRun, Deliver, DeliverInvalid, CancelRun, netVars, sdkVars, runtimeVars
<1>9. CASE OfferReturns \/ OfferTimesOut
  BY <1>3, <1>9 DEF OfferReturns, OfferTimesOut, netVars, sdkVars, runtimeVars
<1>10. ASSUME NEW c \in Conns, Attach(c) \/ AttachReturns(c) \/ Disconnected(c)
       PROVE  Kept
  BY <1>3, <1>10 DEF Attach, AttachReturns, Disconnected, brokerVars, netVars, sdkVars, runtimeVars
<1>11. ASSUME NEW c \in Conns, AttachRefused(c)
       PROVE  Kept
  <2>1. up'[c] = <<>> /\ \A d \in Conns : d # c => up'[d] = up[d]
    BY <1>1, <1>11 DEF AttachRefused
  <2>2. \A i \in DOMAIN up'[c] : i \in Nat /\ i + 0 \in DOMAIN up[c] /\ up'[c][i] = up[c][i + 0]
    BY <2>1
  <2>3. UNCHANGED <<events, emitted, outbound>>
    BY <1>11 DEF AttachRefused, brokerVars, sdkVars, runtimeVars
  <2> QED
    BY <1>5, <2>1, <2>2, <2>3
<1>12. ASSUME NEW c \in Conns, ReadAck(c) \/ ReadFinish(c)
       PROVE  Kept
  BY <1>6, <1>12 DEF ReadAck, ReadFinish, Reads, sdkVars, runtimeVars
<1>13. ASSUME NEW c \in Conns, ReadEvent(c)
       PROVE  Kept
  <2> DEFINE f == Head(up[c])
  <2>1. up[c] # <<>> /\ up' = [up EXCEPT ![c] = Tail(@)] /\ UNCHANGED <<emitted, outbound>> /\ IsEvent(f)
    BY <1>13 DEF ReadEvent, Reads, sdkVars, runtimeVars, IsEvent
  <2>2. CASE f.run \in Claimed
    <3>1. f.run \in Runs /\ events' = [events EXCEPT ![f.run] = Append(@, <<f.by, f.n>>)]
      BY <1>13, <2>2 DEF ReadEvent, Claimed
    <3> QED
      BY <2>1, <3>1, EventRead DEF Kept
  <2>3. CASE f.run \notin Claimed
    <3>1. events' = events
      BY <1>13, <2>3 DEF ReadEvent
    <3> QED
      BY <1>6, <2>1, <3>1
  <2> QED
    BY <2>2, <2>3
<1>14. ASSUME NEW c \in Conns, Drop(c)
       PROVE  Kept
  <2>1. PICK n \in 0 .. Len(up[c]) : up' = [up EXCEPT ![c] = SubSeq(@, 1, n)]
    BY <1>14 DEF Drop
  <2>2. up'[c] = SubSeq(up[c], 1, n) /\ \A d \in Conns : d # c => up'[d] = up[d]
    BY <1>1, <2>1
  <2>3. \A i \in DOMAIN up'[c] : i \in Nat /\ i + 0 \in DOMAIN up[c] /\ up'[c][i] = up[c][i + 0]
    <3>1. \A i \in DOMAIN up'[c] : i \in Nat /\ i \in DOMAIN up[c] /\ up'[c][i] = up[c][i]
      BY <1>1, <2>2, Positions
    <3> QED
      BY <3>1
  <2>4. UNCHANGED <<events, emitted, outbound>>
    BY <1>14 DEF Drop, brokerVars, sdkVars, runtimeVars
  <2> QED
    BY <1>5, <2>2, <2>3, <2>4
<1>15. CASE Connect \/ ReceiveWelcome \/ ReceiveError \/ ReceiveCancel \/ ConnectionLost
  BY <1>3, <1>15 DEF Connect, ReceiveWelcome, ReceiveError, ReceiveCancel, ConnectionLost,
                     brokerVars, netVars, runtimeVars
<1>16. CASE ReceiveRun
  <2> DEFINE f == Head(down[sdkConn])
             g == Frame(AnswerTo(f.run), f.run, f.by, 0)
  <2>1. /\ outbound' = Append(outbound, g)
        /\ UNCHANGED <<events, up, emitted>>
    BY <1>16 DEF ReceiveRun, brokerVars, netVars
  <2>2. f \in DownFrames /\ f.type = "run"
    <3>1. sdkConn \in Conns
      BY <1>1, <1>2, <1>16 DEF ReceiveRun, Receives, NoConn, Conns
    <3>2. down[sdkConn] \in Seq(DownFrames)
      BY <3>1 DEF OnceInv, TypeOK
    <3>3. down[sdkConn] # <<>> /\ f.type = "run"
      BY <1>16 DEF ReceiveRun, Receives
    <3> QED
      BY <3>2, <3>3, QueueFacts
  <2>3. AnswerTo(f.run) \in AckTypes /\ f.by \in Offers /\ f.run \in Runs
    BY <2>2 DEF AnswerTo, AckTypes, DownFrames
  <2>4. g \in UpFrames /\ ~ IsEvent(g)
    BY <1>2, <2>3 DEF Frame, UpFrames, IsEvent, AckTypes
  <2> QED
    BY <1>7, <2>1, <2>4
<1>17. ASSUME NEW o \in Offers, ReportEvent(o)
       PROVE  Kept
  <2> DEFINE g == Frame("event", runOf[o], o, emitted[o] + 1)
  <2>1. outbound' = Append(outbound, g) /\ UNCHANGED <<events, up>>
    BY <1>17 DEF ReportEvent, brokerVars, netVars
  <2>2. emitted' = [emitted EXCEPT ![o] = emitted[o] + 1] /\ emitted[o] < Events
    BY <1>17 DEF ReportEvent
  <2>3. emitted[o] \in Nat /\ emitted[o] + 1 \in 0 .. Events
    BY <1>1, <1>2, <2>2
  <2>4. /\ emitted' \in [Offers -> 0 .. Events]
        /\ \A p \in Offers : emitted[p] <= emitted'[p]
        /\ emitted'[o] = emitted[o] + 1
    BY <1>1, <1>2, <2>2, <2>3
  <2>5. g \in UpFrames /\ g.by = o /\ g.n = emitted[o] + 1
    BY <1>1, <2>3 DEF Frame, UpFrames
  <2>6. emitted[g.by] < g.n /\ g.n <= emitted'[g.by]
    BY <2>3, <2>4, <2>5
  <2> HIDE DEF g
  <2> QED
    BY <2>1, <2>4, <2>5, <2>6, FrameQueued DEF Kept
<1>18. ASSUME NEW o \in Offers, FinishRun(o)
       PROVE  Kept
  <2> DEFINE g == Frame("finish", runOf[o], o, 0)
  <2>1. outbound' = Append(outbound, g) /\ UNCHANGED <<events, up, emitted>>
    BY <1>18 DEF FinishRun, brokerVars, netVars
  <2>2. g \in UpFrames /\ ~ IsEvent(g)
    BY <1>1, <1>2 DEF Frame, UpFrames, IsEvent
  <2> HIDE DEF g
  <2> QED
    BY <1>7, <2>1, <2>2
<1>19. CASE WriteFrame
  <2>1. sdkConn \in Conns
    BY <1>1, <1>2, <1>19 DEF WriteFrame, NoConn, Conns
  <2>2. /\ outbound # <<>> /\ outbound' = Tail(outbound)
        /\ up' = [up EXCEPT ![sdkConn] = Append(@, Head(outbound))]
        /\ UNCHANGED <<events, emitted>>
    BY <1>19 DEF WriteFrame, brokerVars, runtimeVars
  <2> QED
    BY <2>1, <2>2, FrameSent DEF Kept
<1>20. CASE WriteFails
  <2> DEFINE k == [c \in Places |-> IF c = 0 THEN 1 ELSE 0]
  <2>1. k \in [Places -> Nat] /\ \A c \in Places : k[c] = IF c = 0 THEN 1 ELSE 0
    OBVIOUS
  <2>2. \A c \in Places : \A i \in DOMAIN Queue(c) : i \in Nat
    BY QueueType, LenProperties DEF OnceInv
  <2>3. outbound # <<>> /\ outbound' = Tail(outbound) /\ UNCHANGED <<events, emitted, up>>
    BY <1>20 DEF WriteFails, brokerVars, netVars, runtimeVars
  <2>4. \A i \in DOMAIN outbound' : i \in Nat /\ i + 1 \in DOMAIN outbound /\ outbound'[i] = outbound[i + 1]
    BY <1>1, <2>3, Positions
  <2>5. Queue(0) = outbound /\ Queue(0)' = outbound' /\ \A c \in Places : c # 0 => Queue(c)' = Queue(c)
    BY <2>3 DEF Queue
  <2> HIDE DEF k
  <2>6. \A c \in Places : \A i \in DOMAIN Queue(c)' :
          i \in Nat /\ i + k[c] \in DOMAIN Queue(c) /\ Queue(c)'[i] = Queue(c)[i + k[c]]
    BY <2>1, <2>2, <2>4, <2>5
  <2> QED
    BY <1>4, <2>1, <2>3, <2>6
<1>21. CASE UNCHANGED vars
  BY <1>3, <1>21 DEF vars, brokerVars, netVars, sdkVars, runtimeVars
<1> QED
  BY <1>8, <1>9, <1>10, <1>11, <1>12, <1>13, <1>14, <1>15, <1>16, <1>17, <1>18, <1>19, <1>20, <1>21 DEF Next

\* souk records no event of a run twice, whatever sockets its frame was queued
\* for, sent on and read from, and whatever was lost on the way.
THEOREM EventsAreRecordedOnce == Spec => []EventRecordedOnce
<1>1. OnceInv => EventRecordedOnce
  BY DEF OnceInv
<1> QED
  BY <1>1, OnceInit, OnceStep, PTL DEF Spec
=============================================================================
