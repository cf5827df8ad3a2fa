---------------------------- MODULE ProviderRelay ----------------------------
(***************************************************************************)
(* One provider identity and the run relay it is served through:           *)
(*                                                                         *)
(*   - the gateway's half of every /ws/provider socket, the SocketProvider *)
(*     with its table of awaited acks, the read loop and the cleanup       *)
(*     (souk_server/ws_provider.py);                                       *)
(*   - the provider's half, SoukProvider with its one outbound queue that  *)
(*     outlives sockets (souk-agent-sdk/souk_agent_sdk/client.py);         *)
(*   - what both are used with and this repository does not hold: souk's   *)
(*     broker, and the runtime that executes the agent.                    *)
(*                                                                         *)
(* Everything on one event loop is atomic between two awaits, so an action *)
(* here is the code between two awaits.  Every offer has a number.  Frames *)
(* on the wire name a run, as in the code; the number that run and ack and *)
(* event frames also carry here ("by") is never read by an action that     *)
(* models code, it lets the properties say which offer is being answered.  *)
(***************************************************************************)
EXTENDS Naturals, Sequences, FiniteSets

CONSTANTS
  Runs,        \* the runs callers start
  NoRun,       \* what a frame that names no run names
  MaxConns,    \* sockets the provider opens; the last one neither drops nor is refused
  MaxOffers,   \* offers the broker makes
  Events,      \* events of one complete run; the last one is RUN_FINISHED
  Capacity     \* maxConcurrentRuns, declared in the hello

ASSUME ConstantsAssumption ==
  /\ MaxConns \in Nat \ {0}
  /\ MaxOffers \in Nat \ {0}
  /\ Events \in Nat \ {0}
  /\ Capacity \in Nat \ {0}
  /\ IsFiniteSet(Runs)
  /\ NoRun \notin Runs

Conns  == 1 .. MaxConns
Offers == 1 .. MaxOffers
NoConn == 0

VARIABLES
  \* souk's broker (external)
  input,     \* run -> what validating its input will say
  status,    \* run -> what souk records of it
  events,    \* run -> the events souk recorded, each as <<offer, index>>
  parked,    \* queued runs declined since anything last changed
  current,   \* the connection the identity is attached through, or NoConn
  offer,     \* the one offer the delivery loop has out
  made,      \* how many offers it has made
  runOf,     \* offer number -> the run it was of, or NoRun
  \* the gateway, per connection
  link,      \* connection -> how far provider_socket has come
  acks,      \* connection -> the runs whose ack is awaited (SocketProvider._acks)
  down,      \* connection -> frames queued for or on their way to the provider
  \* the network
  sock,      \* connection -> "none", "up" or "dead"
  up,        \* connection -> frames on their way to the gateway
  \* the provider
  sdk,       \* the client: "idle", "hello" (welcome awaited) or "serving"
  sdkConn,   \* the connection it opened last, the one it reads
  writer,    \* is its _write_loop task alive
  outbound,  \* SoukProvider._outbound, one queue for all connections
  phase,     \* offer number -> the execution that accepting it started
  emitted    \* offer number -> how many events that execution has reported

brokerVars   == <<input, status, events, parked, current, offer, made, runOf>>
linkVars     == <<link, acks, down>>
netVars      == <<sock, up>>
sdkVars      == <<sdk, sdkConn, writer, outbound>>
runtimeVars  == <<phase, emitted>>
vars         == <<brokerVars, linkVars, netVars, sdkVars, runtimeVars>>

NoOffer == [no |-> 0, run |-> NoRun, conn |-> NoConn, answer |-> "none", by |-> 0]

Frame(type, run, by, n) == [type |-> type, run |-> run, by |-> by, n |-> n]

AckTypes == {"accept", "decline", "refuse"}
Claimed  == {r \in Runs : status[r] \in {"running", "cancelling"}}
Live     == {o \in Offers : phase[o] \in {"running", "stopping"}}

\* outbound.put_nowait and write_loop, one writer: frames leave in the order
\* they were queued, and one queued for a dead socket is never carried.
Send(c, f) == down' = IF sock[c] = "dead" THEN down ELSE [down EXCEPT ![c] = Append(@, f)]

-----------------------------------------------------------------------------
Init ==
  /\ input \in [Runs -> {"valid", "invalid", "unreadable"}]
  /\ status = [r \in Runs |-> "new"]
  /\ events = [r \in Runs |-> <<>>]
  /\ parked = {}
  /\ current = NoConn
  /\ offer = NoOffer
  /\ made = 0
  /\ runOf = [o \in Offers |-> NoRun]
  /\ link = [c \in Conns |-> "none"]
  /\ acks = [c \in Conns |-> {}]
  /\ down = [c \in Conns |-> <<>>]
  /\ sock = [c \in Conns |-> "none"]
  /\ up = [c \in Conns |-> <<>>]
  /\ sdk = "idle"
  /\ sdkConn = NoConn
  /\ writer = FALSE
  /\ outbound = <<>>
  /\ phase = [o \in Offers |-> "none"]
  /\ emitted = [o \in Offers |-> 0]

-----------------------------------------------------------------------------
(* souk's broker, as the gateway uses it (external).                       *)

\* A caller starts a run.  Something changed, so declined runs are offered again.
StartRun(r) ==
  /\ status[r] = "new"
  /\ status' = [status EXCEPT ![r] = "queued"]
  /\ parked' = {}
  /\ UNCHANGED <<input, events, current, offer, made, runOf, linkVars, netVars, sdkVars, runtimeVars>>

\* One delivery loop: a queued run goes to the attached connection when no
\* other offer is out and the provider's capacity is not spent.
Offerable(r) ==
  /\ offer = NoOffer
  /\ current # NoConn
  /\ status[r] = "queued"
  /\ r \notin parked
  /\ Cardinality(Claimed) < Capacity

NextOffer == made + 1

\* SocketProvider.deliver up to its await: the waiter enters the table and
\* the run frame the queue in one step.
Deliver(r) ==
  /\ Offerable(r)
  /\ input[r] # "invalid"
  /\ NextOffer \in Offers
  /\ offer' = [no |-> NextOffer, run |-> r, conn |-> current, answer |-> "waiting", by |-> 0]
  /\ made' = NextOffer
  /\ runOf' = [runOf EXCEPT ![NextOffer] = r]
  /\ acks' = [acks EXCEPT ![current] = @ \cup {r}]
  /\ Send(current, Frame("run", r, NextOffer, 0))
  /\ UNCHANGED <<input, status, events, parked, current, link, netVars, sdkVars, runtimeVars>>

\* deliver's early return: input that does not validate is a permanent
\* refusal, answered without touching the wire.
DeliverInvalid(r) ==
  /\ Offerable(r)
  /\ input[r] = "invalid"
  /\ status' = [status EXCEPT ![r] = "failed"]
  /\ UNCHANGED <<input, events, parked, current, offer, made, runOf, linkVars, netVars, sdkVars, runtimeVars>>

\* deliver's finally: the awaited ack leaves the table.
PopWaiter == acks' = [acks EXCEPT ![offer.conn] = @ \ {offer.run}]

\* The waiter has its answer and the delivery loop acts on it.  A run that
\* was cancelled while nobody held it is over whatever the answer was.
OfferReturns ==
  /\ offer # NoOffer
  /\ offer.answer # "waiting"
  /\ PopWaiter
  /\ offer' = NoOffer
  /\ LET r == offer.run IN
       IF status[r] # "queued" THEN UNCHANGED <<status, parked>>
       ELSE IF offer.answer = "decline"
       THEN parked' = parked \cup {r} /\ UNCHANGED status
       ELSE /\ status' = [status EXCEPT ![r] = IF offer.answer = "accept" THEN "running" ELSE "failed"]
            /\ UNCHANGED parked
  /\ UNCHANGED <<input, events, current, made, runOf, link, down, netVars, sdkVars, runtimeVars>>

\* souk's deadline on the offer (or, without one, ACK_TIMEOUT_SECONDS) runs
\* out: a decline, even if an ack was set and deliver has not resumed yet.
OfferTimesOut ==
  /\ offer # NoOffer
  /\ PopWaiter
  /\ offer' = NoOffer
  /\ parked' = IF status[offer.run] = "queued" THEN parked \cup {offer.run} ELSE parked
  /\ UNCHANGED <<input, status, events, current, made, runOf, link, down, netVars, sdkVars, runtimeVars>>

\* Souk.cancel_run: a run nobody holds ends at once; a held one is asked to
\* stop through SocketProvider.cancel on the connection the identity has now.
CancelRun(r) ==
  \/ /\ status[r] = "queued"
     /\ status' = [status EXCEPT ![r] = "cancelled"]
     /\ UNCHANGED <<down>>
     /\ UNCHANGED <<input, events, parked, current, offer, made, runOf, link, acks, netVars, sdkVars, runtimeVars>>
  \/ /\ status[r] = "running"
     /\ status' = [status EXCEPT ![r] = "cancelling"]
     /\ IF current # NoConn THEN Send(current, Frame("cancel", r, 0, 0)) ELSE UNCHANGED down
     /\ UNCHANGED <<input, events, parked, current, offer, made, runOf, link, acks, netVars, sdkVars, runtimeVars>>

-----------------------------------------------------------------------------
(* The gateway: provider_socket around one SocketProvider.                 *)

\* Mutant: the welcome is not queued before attaching.
AcceptWithoutWelcome(c) ==
  /\ link' = [link EXCEPT ![c] = "attaching"]
  /\ UNCHANGED <<acks, down>>

\* The handshake is over: the welcome is queued before attach_provider is
\* awaited, and nothing is written until the writer starts.
Accept(c) ==
  /\ link' = [link EXCEPT ![c] = "attaching"]
  /\ Send(c, Frame("welcome", NoRun, 0, 0))
  /\ UNCHANGED acks

\* attach_provider takes effect: this connection replaces any earlier one
\* and the broker may offer through it before the call has returned.
Attach(c) ==
  /\ link[c] = "attaching"
  /\ link' = [link EXCEPT ![c] = "attached"]
  /\ current' = c
  /\ parked' = {}
  /\ UNCHANGED <<input, status, events, offer, made, runOf, acks, down, netVars, sdkVars, runtimeVars>>

\* attach_provider returns: the writer and the read loop start.
AttachReturns(c) ==
  /\ link[c] = "attached"
  /\ link' = [link EXCEPT ![c] = "open"]
  /\ UNCHANGED <<brokerVars, acks, down, netVars, sdkVars, runtimeVars>>

\* attach_provider refuses (a name that is not registered, a proof that does
\* not verify): closed without the queued welcome ever being written.
AttachRefused(c) ==
  /\ c < MaxConns
  /\ link[c] = "attaching"
  /\ link' = [link EXCEPT ![c] = "closed"]
  /\ sock' = [sock EXCEPT ![c] = "dead"]
  /\ down' = [down EXCEPT ![c] = <<>>]
  /\ up' = [up EXCEPT ![c] = <<>>]
  /\ UNCHANGED <<brokerVars, acks, sdkVars, runtimeVars>>

\* The next frame the read loop of connection c takes, and its removal.
Reads(c, types) ==
  /\ link[c] = "open"
  /\ up[c] # <<>>
  /\ Head(up[c]).type \in types
  /\ up' = [up EXCEPT ![c] = Tail(@)]
  /\ UNCHANGED sock

\* Mutant: the "accepted" field of an ack is not read.
ReadAckAsAccepted(c) ==
  /\ Reads(c, AckTypes)
  /\ LET f == Head(up[c]) IN
       offer' = IF f.run \in acks[c] /\ offer.answer = "waiting"
                THEN [offer EXCEPT !.answer = "accept", !.by = f.by] ELSE offer
  /\ UNCHANGED <<input, status, events, parked, current, made, runOf, linkVars, sdkVars, runtimeVars>>

\* SocketProvider.ack: the table is keyed by run; an ack nobody awaits is dropped.
ReadAck(c) ==
  /\ Reads(c, AckTypes)
  /\ LET f == Head(up[c]) IN
       offer' = IF f.run \in acks[c] /\ offer.answer = "waiting"
                THEN [offer EXCEPT !.answer = f.type, !.by = f.by] ELSE offer
  /\ UNCHANGED <<input, status, events, parked, current, made, runOf, linkVars, sdkVars, runtimeVars>>

\* An event of a run this identity does not hold is refused with an error frame.
ReadEvent(c) ==
  /\ Reads(c, {"event"})
  /\ LET f == Head(up[c]) IN
       IF f.run \in Claimed
       THEN /\ events' = [events EXCEPT ![f.run] = Append(@, <<f.by, f.n>>)]
            /\ UNCHANGED down
       ELSE /\ Send(c, Frame("error", f.run, 0, 0))
            /\ UNCHANGED events
  /\ UNCHANGED <<input, status, parked, current, offer, made, runOf, link, acks, sdkVars, runtimeVars>>

\* What souk records of a run whose stream ended.
Outcome(r) ==
  IF status[r] = "cancelling" THEN "cancelled"
  ELSE IF \E i \in DOMAIN events[r] : events[r][i][2] = Events THEN "completed"
  ELSE "failed"

\* The end of a run's stream.  A run ended, so declined ones are offered again.
ReadFinish(c) ==
  /\ Reads(c, {"finish"})
  /\ LET f == Head(up[c]) IN
       IF f.run \in Claimed
       THEN /\ status' = [status EXCEPT ![f.run] = Outcome(f.run)]
            /\ parked' = {}
            /\ UNCHANGED down
       ELSE /\ Send(c, Frame("error", f.run, 0, 0))
            /\ UNCHANGED <<status, parked>>
  /\ UNCHANGED <<input, events, current, offer, made, runOf, link, acks, sdkVars, runtimeVars>>

\* Mutant: the table is cleared and the waiters are left unanswered.
FailPendingClearsOnly(c) ==
  /\ acks' = [acks EXCEPT ![c] = {}]
  /\ UNCHANGED offer

\* SocketProvider.fail_pending: every awaited offer of c is declined.
FailPending(c) ==
  /\ offer' = IF offer.run \in acks[c] /\ offer.answer = "waiting"
              THEN [offer EXCEPT !.answer = "decline", !.by = offer.no] ELSE offer
  /\ acks' = [acks EXCEPT ![c] = {}]

\* Mutant: the cleanup does not detach.
DetachNothing(c) == UNCHANGED current

\* Souk.detach_provider, named by connection.
Detach(c) == current' = IF current = c THEN NoConn ELSE current

\* Mutant: a disconnect fails the runs this provider holds.
DisconnectedEndsRuns(c) ==
  /\ link[c] = "open"
  /\ sock[c] = "dead"
  /\ up[c] = <<>>
  /\ FailPending(c)
  /\ Detach(c)
  /\ link' = [link EXCEPT ![c] = "closed"]
  /\ status' = [r \in Runs |-> IF r \in Claimed THEN "failed" ELSE status[r]]
  /\ UNCHANGED <<input, events, parked, made, runOf, down, netVars, sdkVars, runtimeVars>>

\* The read loop meets the disconnect and the finally block runs.
Disconnected(c) ==
  /\ link[c] = "open"
  /\ sock[c] = "dead"
  /\ up[c] = <<>>
  /\ FailPending(c)
  /\ Detach(c)
  /\ link' = [link EXCEPT ![c] = "closed"]
  /\ UNCHANGED <<input, status, events, parked, made, runOf, down, netVars, sdkVars, runtimeVars>>

-----------------------------------------------------------------------------
(* The network.                                                            *)

\* A socket dies.  Each side still reads some of what was under way to it.
Drop(c) ==
  /\ c < MaxConns
  /\ sock[c] = "up"
  /\ sock' = [sock EXCEPT ![c] = "dead"]
  /\ \E i \in 0 .. Len(up[c]) : up' = [up EXCEPT ![c] = SubSeq(@, 1, i)]
  /\ \E i \in 0 .. Len(down[c]) : down' = [down EXCEPT ![c] = SubSeq(@, 1, i)]
  /\ UNCHANGED <<brokerVars, link, acks, sdkVars, runtimeVars>>

-----------------------------------------------------------------------------
(* The provider: SoukProvider around one ProviderRuntime.                  *)

\* Mutant: the outbound queue belongs to the connection.
ConnectWithFreshQueue ==
  /\ sdk = "idle"
  /\ sdkConn < MaxConns
  /\ sdk' = "hello"
  /\ sdkConn' = sdkConn + 1
  /\ outbound' = <<>>
  /\ sock' = [sock EXCEPT ![sdkConn + 1] = "up"]
  /\ Accept(sdkConn + 1)
  /\ UNCHANGED <<brokerVars, up, writer, runtimeVars>>

\* run_forever opens the next connection and sends hello and proof.
Connect ==
  /\ sdk = "idle"
  /\ sdkConn < MaxConns
  /\ sdk' = "hello"
  /\ sdkConn' = sdkConn + 1
  /\ sock' = [sock EXCEPT ![sdkConn + 1] = "up"]
  /\ Accept(sdkConn + 1)
  /\ UNCHANGED <<brokerVars, up, writer, outbound, runtimeVars>>

\* The next frame from the gateway, once its writer runs, and its removal.
Receives(state, types) ==
  /\ sdk = state
  /\ link[sdkConn] \in {"open", "closed"}
  /\ down[sdkConn] # <<>>
  /\ Head(down[sdkConn]).type \in types
  /\ down' = [down EXCEPT ![sdkConn] = Tail(@)]
  /\ UNCHANGED <<link, acks, sdkConn>>

\* _handshake reads exactly one frame after its proof and gives the socket
\* up if that is not the welcome; then the writer starts.
ReceiveWelcome ==
  /\ Receives("hello", {"welcome", "run", "cancel", "error"})
  /\ IF Head(down[sdkConn]).type = "welcome"
     THEN sdk' = "serving" /\ writer' = TRUE /\ UNCHANGED sock
     ELSE sdk' = "idle" /\ sock' = [sock EXCEPT ![sdkConn] = "dead"] /\ UNCHANGED writer
  /\ UNCHANGED <<brokerVars, up, outbound, runtimeVars>>

\* The answer of _offer: a frame that does not validate is refused with a
\* reason, a runtime without room declines, otherwise the run is taken.
AnswerTo(r) ==
  IF input[r] = "unreadable" THEN "refuse"
  ELSE IF Cardinality(Live) < Capacity THEN "accept" ELSE "decline"

\* _offer: the ack is queued behind whatever is already queued, and taking
\* the run starts its execution.
ReceiveRun ==
  /\ Receives("serving", {"run"})
  /\ LET f == Head(down[sdkConn])
         answer == AnswerTo(f.run) IN
       /\ outbound' = Append(outbound, Frame(answer, f.run, f.by, 0))
       /\ phase' = IF answer = "accept" THEN [phase EXCEPT ![f.by] = "running"] ELSE phase
  /\ UNCHANGED <<brokerVars, netVars, sdk, writer, emitted>>

\* cancel: the runtime interrupts every execution of that run it has.
ReceiveCancel ==
  /\ Receives("serving", {"cancel"})
  /\ LET r == Head(down[sdkConn]).run IN
       phase' = [o \in Offers |-> IF phase[o] = "running" /\ runOf[o] = r
                                  THEN "stopping" ELSE phase[o]]
  /\ UNCHANGED <<brokerVars, netVars, sdk, writer, outbound, emitted>>

\* An error frame is logged.
ReceiveError ==
  /\ Receives("serving", {"error"})
  /\ UNCHANGED <<brokerVars, netVars, sdk, writer, outbound, runtimeVars>>

\* Mutant: one event too many.
ReportEventPastEnd(o) ==
  /\ phase[o] = "running"
  /\ emitted[o] <= Events
  /\ emitted' = [emitted EXCEPT ![o] = @ + 1]
  /\ outbound' = Append(outbound, Frame("event", runOf[o], o, emitted[o] + 1))
  /\ UNCHANGED <<brokerVars, linkVars, netVars, sdk, sdkConn, writer, phase>>

\* The runtime reports the next event of an execution (report_event).
ReportEvent(o) ==
  /\ phase[o] = "running"
  /\ emitted[o] < Events
  /\ emitted' = [emitted EXCEPT ![o] = @ + 1]
  /\ outbound' = Append(outbound, Frame("event", runOf[o], o, emitted[o] + 1))
  /\ UNCHANGED <<brokerVars, linkVars, netVars, sdk, sdkConn, writer, phase>>

\* The stream of an execution ends (finish_run): complete, broken off or cancelled.
FinishRun(o) ==
  /\ phase[o] \in {"running", "stopping"}
  /\ phase' = [phase EXCEPT ![o] = "ended"]
  /\ outbound' = Append(outbound, Frame("finish", runOf[o], o, 0))
  /\ UNCHANGED <<brokerVars, linkVars, netVars, sdk, sdkConn, writer, emitted>>

\* _write_loop on a live socket: the frame is taken from the queue and sent.
WriteFrame ==
  /\ sdk = "serving"
  /\ writer
  /\ outbound # <<>>
  /\ sock[sdkConn] = "up"
  /\ outbound' = Tail(outbound)
  /\ up' = [up EXCEPT ![sdkConn] = Append(@, Head(outbound))]
  /\ UNCHANGED <<brokerVars, linkVars, sock, sdk, sdkConn, writer, runtimeVars>>

\* _write_loop on a socket that died under it: the frame was taken from the
\* queue before send raised, and the task ends with it in hand.
WriteFails ==
  /\ sdk = "serving"
  /\ writer
  /\ outbound # <<>>
  /\ sock[sdkConn] = "dead"
  /\ outbound' = Tail(outbound)
  /\ writer' = FALSE
  /\ UNCHANGED <<brokerVars, linkVars, netVars, sdk, sdkConn, runtimeVars>>

\* Mutant: frames the gateway was not seen to read are queued again.
ConnectionLostResends ==
  /\ sdk \in {"hello", "serving"}
  /\ sock[sdkConn] = "dead"
  /\ down[sdkConn] = <<>> \/ link[sdkConn] \in {"attaching", "attached"}
  /\ sdk' = "idle"
  /\ writer' = FALSE
  /\ outbound' = up[sdkConn] \o outbound
  /\ UNCHANGED <<brokerVars, linkVars, netVars, sdkConn, runtimeVars>>

\* The client meets the end of the socket: the writer is cancelled, the
\* queue and the runtime stay, run_forever comes round again.
ConnectionLost ==
  /\ sdk \in {"hello", "serving"}
  /\ sock[sdkConn] = "dead"
  /\ down[sdkConn] = <<>> \/ link[sdkConn] \in {"attaching", "attached"}
  /\ sdk' = "idle"
  /\ writer' = FALSE
  /\ UNCHANGED <<brokerVars, linkVars, netVars, sdkConn, outbound, runtimeVars>>

-----------------------------------------------------------------------------
Next ==
  \/ \E r \in Runs : StartRun(r) \/ Deliver(r) \/ DeliverInvalid(r) \/ CancelRun(r)
  \/ OfferReturns
  \/ OfferTimesOut
  \/ \E c \in Conns : Attach(c) \/ AttachReturns(c) \/ AttachRefused(c)
  \/ \E c \in Conns : ReadAck(c) \/ ReadEvent(c) \/ ReadFinish(c) \/ Disconnected(c)
  \/ \E c \in Conns : Drop(c)
  \/ Connect
  \/ ReceiveWelcome \/ ReceiveRun \/ ReceiveCancel \/ ReceiveError
  \/ \E o \in Offers : ReportEvent(o) \/ FinishRun(o)
  \/ WriteFrame
  \/ WriteFails
  \/ ConnectionLost

Spec == Init /\ [][Next]_vars

\* Every task that has something to do gets its turn, the client reconnects
\* for ever and attach_provider returns; no deadline is assumed to fire, no
\* caller to act and no socket to drop.
Fairness ==
  /\ WF_vars(OfferReturns)
  /\ \A c \in Conns : WF_vars(Attach(c)) /\ WF_vars(AttachReturns(c))
  /\ \A c \in Conns : WF_vars(ReadAck(c)) /\ WF_vars(ReadEvent(c)) /\ WF_vars(ReadFinish(c))
  /\ \A c \in Conns : WF_vars(Disconnected(c))
  /\ WF_vars(Connect)
  /\ WF_vars(ReceiveWelcome) /\ WF_vars(ReceiveRun) /\ WF_vars(ReceiveCancel) /\ WF_vars(ReceiveError)
  /\ WF_vars(WriteFrame)
  /\ WF_vars(ConnectionLost)

FairSpec == Spec /\ Fairness

-----------------------------------------------------------------------------
DownFrames == [type : {"run"}, run : Runs, by : Offers, n : {0}]
                \cup [type : {"welcome", "cancel", "error"}, run : Runs \cup {NoRun}, by : {0}, n : {0}]
UpFrames   == [type : AckTypes \cup {"event", "finish"}, run : Runs \cup {NoRun}, by : Offers, n : 0 .. Events]
OffersOut  == [no : Offers, run : Runs, conn : Conns, answer : AckTypes \cup {"waiting"}, by : 0 .. MaxOffers]
Statuses   == {"new", "queued", "running", "cancelling", "completed", "failed", "cancelled"}

\* The type invariant.
TypeOK ==
  /\ input \in [Runs -> {"valid", "invalid", "unreadable"}]
  /\ status \in [Runs -> Statuses]
  /\ events \in [Runs -> Seq(Offers \X (0 .. Events))]
  /\ parked \subseteq Runs
  /\ current \in Conns \cup {NoConn}
  /\ offer \in OffersOut \cup {NoOffer}
  /\ made \in 0 .. MaxOffers
  /\ runOf \in [Offers -> Runs \cup {NoRun}]
  /\ link \in [Conns -> {"none", "attaching", "attached", "open", "closed"}]
  /\ acks \in [Conns -> SUBSET Runs]
  /\ down \in [Conns -> Seq(DownFrames)]
  /\ sock \in [Conns -> {"none", "up", "dead"}]
  /\ up \in [Conns -> Seq(UpFrames)]
  /\ sdk \in {"idle", "hello", "serving"}
  /\ sdkConn \in 0 .. MaxConns
  /\ sdk # "idle" => sdkConn # NoConn
  /\ writer \in BOOLEAN
  /\ outbound \in Seq(UpFrames)
  /\ phase \in [Offers -> {"none", "running", "stopping", "ended"}]
  /\ emitted \in [Offers -> 0 .. Events]

\* The welcome is the first frame the client reads after its proof, even
\* when the broker offers runs from inside attach_provider's own awaits.
WelcomeFirst ==
  sdk = "hello" /\ down[sdkConn] # <<>> => Head(down[sdkConn]).type = "welcome"

\* No offer waits on a connection that has been cleaned up: fail_pending
\* leaves neither a table entry nor an unanswered waiter behind.
NoOrphanedWaiter ==
  \A c \in Conns : link[c] = "closed" =>
    acks[c] = {} /\ ~ (offer.conn = c /\ offer.answer = "waiting")

\* The broker never holds a connection whose read loop is gone, whatever the
\* order in which reconnects attach and old sockets are cleaned up.
ServedByLiveLink == current # NoConn => link[current] \in {"attached", "open"}

\* souk records a run as held only if the provider took it: nothing that
\* happens to sockets, acks or deadlines turns into an acceptance.
ClaimIsBacked ==
  \A r \in Claimed : \E o \in Offers : runOf[o] = r /\ phase[o] # "none"

\* A dropped socket ends nothing: a run the provider could take is recorded
\* as completed or failed only after one of its executions has ended.
OutcomeIsReported ==
  \A r \in Runs : input[r] = "valid" /\ status[r] \in {"completed", "failed"} =>
    \E o \in Offers : runOf[o] = r /\ phase[o] = "ended"

\* No event is recorded twice, whatever sockets it was queued, sent and read
\* across: frames are lost with a socket but never repeated on the next one.
EventRecordedOnce ==
  \A r \in Runs : \A i, j \in DOMAIN events[r] : events[r][i] = events[r][j] => i = j

\* An offer made through a socket that died is answered when the gateway
\* meets the disconnect, without waiting for any deadline to run out.
DeadSocketReleasesOffer ==
  \A o \in Offers :
    offer.no = o /\ offer.conn # NoConn /\ sock[offer.conn] = "dead" ~> offer.no # o

\* The client is on its last socket, or about to open it.
Settled == sdkConn = MaxConns \/ (sdkConn = MaxConns - 1 /\ sdk = "idle")

\* A finish that waits in the client's queue goes out on the next socket and
\* ends the run, once a socket stays up.
FinishSurvivesReconnect ==
  \A r \in Runs :
    /\ Settled
    /\ r \in Claimed
    /\ \E i \in DOMAIN outbound : outbound[i].type = "finish" /\ outbound[i].run = r
    ~> r \notin Claimed

-----------------------------------------------------------------------------
(* What the repository says of this relay and the code does not do.        *)

\* An ack that arrives after its offer ran out is dropped: whatever answers
\* an offer was sent for that offer.
LateAckIsDropped == offer.answer \in AckTypes => offer.by = offer.no

\* The cleanup of an old socket withdraws nothing from its replacement: an
\* identity with an open live socket is served.
ReplacementStaysServing ==
  \A c \in Conns : link[c] = "open" /\ sock[c] = "up" => current # NoConn

\* A frame a dead socket failed to carry stays queued for the next one: the
\* client's queue loses a frame only to a live socket.
UnsentFramesAreKept ==
  [][outbound # <<>> /\ outbound' = Tail(outbound)
       => \E c \in Conns : up'[c] = Append(up[c], Head(outbound))]_vars

=============================================================================
