------------------------------ MODULE PodProbe ------------------------------
(***************************************************************************)
(* The Go provider, pod-probe-agent: main's reconnect loop (main.go), the  *)
(* serve loop with its set of cancel functions, and one goroutine per      *)
(* accepted run (run.go).  Unlike the Python SDK it has no queue between   *)
(* a run and the socket: a goroutine writes to the socket its run came by. *)
(*                                                                         *)
(* Souk is external and kept to what the probe can see of it; the          *)
(* gateway's own interleavings are ProviderRelay's subject, so here an ack *)
(* that is read in time claims its run at once.  As there, "by" numbers    *)
(* the offer a frame belongs to and no action of the probe reads it from a *)
(* frame that would not carry it.                                          *)
(***************************************************************************)
EXTENDS Naturals, Sequences, FiniteSets

CONSTANTS
  Runs,        \* the runs callers start
  NoRun,       \* what the welcome names
  MaxConns,    \* sockets the probe opens; the last one does not drop and follows
               \* a registration that succeeded
  MaxOffers,   \* offers souk makes
  MaxRuns      \* PROBE_MAX_CONCURRENT_RUNS, declared in the hello

ASSUME ProbeConstants ==
  /\ MaxConns \in Nat \ {0}
  /\ MaxOffers \in Nat \ {0}
  /\ MaxRuns \in Nat \ {0}
  /\ IsFiniteSet(Runs)
  /\ NoRun \notin Runs

Conns  == 1 .. MaxConns
Offers == 1 .. MaxOffers
NoConn == 0
None   == 0

VARIABLES
  \* souk (external)
  listed,    \* does souk have a record of the probe's agent
  status,    \* run -> what souk records of it
  soukConn,  \* the connection the probe is attached through, or NoConn
  offer,     \* the offer out, [no, run, conn], no = 0 for none
  made,      \* how many offers were made
  runOf,     \* offer -> its run
  \* the network
  sock,      \* connection -> "none", "up" or "dead"
  up,        \* connection -> frames the probe wrote
  down,      \* connection -> frames souk wrote
  \* the probe
  mode,      \* where main is
  conn,      \* the connection it opened last
  cancels,   \* connection -> run -> the offer whose cancel function cancelSet holds
  phase,     \* offer -> how far its goroutine is
  wsOf,      \* offer -> the socket its goroutine writes to
  cancelled  \* the offers whose runCtx is cancelled

soukVars  == <<listed, status, soukConn, offer, made, runOf>>
netVars   == <<sock, up, down>>
probeVars == <<mode, conn, cancels, phase, wsOf, cancelled>>
vars      == <<soukVars, netVars, probeVars>>

NoOffer == [no |-> None, run |-> NoRun, conn |-> NoConn]

\* A goroutine: RUN_STARTED is written next, the probe works, the message and
\* RUN_FINISHED are written next, finish is written next, it has returned.
Live(o) == phase[o] \in {"start", "work", "report", "finish"}
Claimed == {r \in Runs : status[r] \in {"running", "cancelling"}}

Frame(type, run, by) == [type |-> type, run |-> run, by |-> by]

\* ws.Write: on a dead socket an error, which every caller but the ack's drops.
Wire(c, f) == up' = IF sock[c] = "up" THEN [up EXCEPT ![c] = Append(@, f)] ELSE up

Init ==
  /\ listed = FALSE
  /\ status = [r \in Runs |-> "queued"]
  /\ soukConn = NoConn
  /\ offer = NoOffer
  /\ made = 0
  /\ runOf = [o \in Offers |-> NoRun]
  /\ sock = [c \in Conns |-> "none"]
  /\ up = [c \in Conns |-> <<>>]
  /\ down = [c \in Conns |-> <<>>]
  /\ mode = "boot"
  /\ conn = NoConn
  /\ cancels = [c \in Conns |-> [r \in Runs |-> None]]
  /\ phase = [o \in Offers |-> "none"]
  /\ wsOf = [o \in Offers |-> NoConn]
  /\ cancelled = {}

-----------------------------------------------------------------------------
(* main and connectOnce.                                                   *)

\* register: souk answers 201 and lists the agent, or the call fails.
Registers == listed' \in {listed, TRUE}

\* main's registration up front; a failure is logged and left to connectOnce.
Boot ==
  /\ mode = "boot"
  /\ Registers
  /\ mode' = "dialing"
  /\ UNCHANGED <<status, soukConn, offer, made, runOf, netVars, conn, cancels, phase, wsOf, cancelled>>

\* Mutant: connectOnce relies on the registration made at boot.
ReliesOnBoot == UNCHANGED listed

\* connectOnce's own registration, whose failure it ignores.
RegistersAgain == Registers /\ (conn + 1 = MaxConns => listed')

\* connectOnce up to the end of its handshake's proof: registration is
\* repeated and its failure ignored, then the socket is dialled.
Dial ==
  /\ mode = "dialing"
  /\ conn < MaxConns
  /\ RegistersAgain
  /\ mode' = "hello"
  /\ conn' = conn + 1
  /\ sock' = [sock EXCEPT ![conn + 1] = "up"]
  /\ UNCHANGED <<status, soukConn, offer, made, runOf, up, down, cancels, phase, wsOf, cancelled>>

\* The dial fails: main sleeps its backoff and comes round again.
DialFails ==
  /\ mode = "dialing"
  /\ Registers
  /\ UNCHANGED <<status, soukConn, offer, made, runOf, netVars, probeVars>>

\* handshake reads the welcome and nothing past it; serve begins with an
\* empty cancelSet.
Welcomed ==
  /\ mode = "hello"
  /\ down[conn] # <<>>
  /\ Head(down[conn]).type = "welcome"
  /\ down' = [down EXCEPT ![conn] = Tail(@)]
  /\ mode' = "serving"
  /\ UNCHANGED <<soukVars, sock, up, conn, cancels, phase, wsOf, cancelled>>

\* Read fails, in the handshake or in serve: connectOnce returns the error,
\* the runs it started go on.
ConnectionEnds ==
  /\ mode \in {"hello", "serving"}
  /\ sock[conn] = "dead"
  /\ down[conn] = <<>>
  /\ mode' = "dialing"
  /\ UNCHANGED <<soukVars, netVars, conn, cancels, phase, wsOf, cancelled>>

\* SIGTERM: the context ends, main returns and takes every goroutine with it.
Terminate ==
  /\ mode # "stopped"
  /\ conn < MaxConns
  /\ mode' = "stopped"
  /\ sock' = [c \in Conns |-> IF sock[c] = "up" THEN "dead" ELSE sock[c]]
  /\ phase' = [o \in Offers |-> IF Live(o) THEN "killed" ELSE phase[o]]
  /\ UNCHANGED <<soukVars, up, down, conn, cancels, wsOf, cancelled>>

-----------------------------------------------------------------------------
(* serve and startRun.                                                     *)

Reads(type) ==
  /\ mode = "serving"
  /\ down[conn] # <<>>
  /\ Head(down[conn]).type = type
  /\ down' = [down EXCEPT ![conn] = Tail(@)]

\* Mutant: the cancel function is not kept.
KeepNothing(run, o) == UNCHANGED cancels

\* cancelSet keeps the cancel function of a run.
KeepCancel(run, o) == cancels' = [cancels EXCEPT ![conn][run] = o]

\* startRun: the ack is written by the read loop itself; if that fails there
\* is no run, otherwise its cancel function is kept and its goroutine started.
\* The refusal of a run frame that does not parse is left out: the gateway
\* offers only what it has validated, with a string in each field read here.
StartRun ==
  /\ Reads("run")
  /\ LET f == Head(down[conn]) IN
       /\ Wire(conn, Frame("ack", f.run, f.by))
       /\ IF sock[conn] = "up"
          THEN /\ KeepCancel(f.run, f.by)
               /\ phase' = [phase EXCEPT ![f.by] = "start"]
               /\ wsOf' = [wsOf EXCEPT ![f.by] = conn]
          ELSE UNCHANGED <<cancels, phase, wsOf>>
  /\ UNCHANGED <<soukVars, sock, mode, conn, cancelled>>

\* A cancel frame: the function kept for that run, if any, is called.
CancelRun ==
  /\ Reads("cancel")
  /\ LET o == cancels[conn][Head(down[conn]).run] IN
       cancelled' = IF o = None THEN cancelled ELSE cancelled \cup {o}
  /\ UNCHANGED <<soukVars, sock, up, mode, conn, cancels, phase, wsOf>>

\* An error frame (or any frame serve does not know) is logged.
IgnoreFrame ==
  /\ Reads("error")
  /\ UNCHANGED <<soukVars, sock, up, mode, conn, cancels, phase, wsOf, cancelled>>

\* RUN_STARTED.
EmitStarted(o) ==
  /\ phase[o] = "start"
  /\ phase' = [phase EXCEPT ![o] = "work"]
  /\ Wire(wsOf[o], Frame("event", runOf[o], o))
  /\ UNCHANGED <<soukVars, sock, down, mode, conn, cancels, wsOf, cancelled>>

\* brain.Answer returns: a report, interpreted or not.  It never fails the
\* run; a cancelled context only cuts the model call short.
Answered(o) ==
  /\ phase[o] = "work"
  /\ phase' = [phase EXCEPT ![o] = "report"]
  /\ UNCHANGED <<soukVars, netVars, mode, conn, cancels, wsOf, cancelled>>

\* The message and RUN_FINISHED.
EmitAnswer(o) ==
  /\ phase[o] = "report"
  /\ phase' = [phase EXCEPT ![o] = "finish"]
  /\ Wire(wsOf[o], Frame("event", runOf[o], o))
  /\ UNCHANGED <<soukVars, sock, down, mode, conn, cancels, wsOf, cancelled>>

\* Mutant: the finish frame is left out.
ReportNothing(o) == UNCHANGED up

ReportFinish(o) == Wire(wsOf[o], Frame("finish", runOf[o], o))

\* The finish frame, then the deferred calls: the context is cancelled and
\* whatever cancelSet holds for the run is removed.
Finish(o) ==
  /\ phase[o] = "finish"
  /\ phase' = [phase EXCEPT ![o] = "returned"]
  /\ ReportFinish(o)
  /\ cancels' = [cancels EXCEPT ![wsOf[o]][runOf[o]] = None]
  /\ cancelled' = cancelled \cup {o}
  /\ UNCHANGED <<soukVars, sock, down, mode, conn, wsOf>>

-----------------------------------------------------------------------------
(* Souk and the network (external).                                        *)

Push(c, f) == down' = IF sock[c] = "up" THEN [down EXCEPT ![c] = Append(@, f)] ELSE down

\* attach_provider: refused and closed unless the agent is listed.
Attach ==
  /\ mode = "hello"
  /\ sock[conn] = "up"
  /\ soukConn # conn
  /\ IF listed
     THEN Push(conn, Frame("welcome", NoRun, None)) /\ soukConn' = conn /\ UNCHANGED sock
     ELSE sock' = [sock EXCEPT ![conn] = "dead"] /\ UNCHANGED <<down, soukConn>>
  /\ UNCHANGED <<listed, status, offer, made, runOf, up, probeVars>>

\* A queued run is offered while the declared capacity is not spent.
Offer(r) ==
  /\ offer = NoOffer
  /\ soukConn # NoConn
  /\ status[r] = "queued"
  /\ Cardinality(Claimed) < MaxRuns
  /\ made < MaxOffers
  /\ made' = made + 1
  /\ runOf' = [runOf EXCEPT ![made + 1] = r]
  /\ offer' = [no |-> made + 1, run |-> r, conn |-> soukConn]
  /\ Push(soukConn, Frame("run", r, made + 1))
  /\ UNCHANGED <<listed, status, soukConn, sock, up, probeVars>>

\* The deadline on an offer runs out; the run stays queued.
OfferTimesOut ==
  /\ offer # NoOffer
  /\ offer' = NoOffer
  /\ UNCHANGED <<listed, status, soukConn, made, runOf, netVars, probeVars>>

\* Souk reads what the probe wrote.  An ack counts if that run is on offer
\* through that connection, an event or a finish if the run is held.
ReadFrame(c) ==
  /\ up[c] # <<>>
  /\ up' = [up EXCEPT ![c] = Tail(@)]
  /\ LET f == Head(up[c]) IN
       CASE f.type = "ack" ->
              IF offer.run = f.run /\ offer.conn = c
              THEN /\ offer' = NoOffer
                   /\ status' = [status EXCEPT ![f.run] = "running"]
                   /\ UNCHANGED down
              ELSE UNCHANGED <<offer, status, down>>
         [] f.type = "event" ->
              /\ IF f.run \in Claimed THEN UNCHANGED down ELSE Push(c, Frame("error", f.run, None))
              /\ UNCHANGED <<offer, status>>
         [] f.type = "finish" ->
              /\ IF f.run \in Claimed
                 THEN status' = [status EXCEPT ![f.run] = "ended"] /\ UNCHANGED down
                 ELSE Push(c, Frame("error", f.run, None)) /\ UNCHANGED status
              /\ UNCHANGED offer
  /\ UNCHANGED <<listed, soukConn, made, runOf, sock, probeVars>>

\* A caller cancels a run that is held.
SoukCancels(r) ==
  /\ status[r] = "running"
  /\ status' = [status EXCEPT ![r] = "cancelling"]
  /\ IF soukConn = NoConn THEN UNCHANGED down ELSE Push(soukConn, Frame("cancel", r, None))
  /\ UNCHANGED <<listed, soukConn, offer, made, runOf, sock, up, probeVars>>

\* Souk meets the end of a socket: the offer through it is declined, the
\* probe is detached, the runs stay held.
Detach(c) ==
  /\ soukConn = c
  /\ sock[c] = "dead"
  /\ up[c] = <<>>
  /\ soukConn' = NoConn
  /\ offer' = IF offer.conn = c THEN NoOffer ELSE offer
  /\ UNCHANGED <<listed, status, made, runOf, netVars, probeVars>>

\* A socket dies; each side still reads some of what was under way to it.
Drop(c) ==
  /\ c < MaxConns
  /\ sock[c] = "up"
  /\ sock' = [sock EXCEPT ![c] = "dead"]
  /\ \E i \in 0 .. Len(up[c]) : up' = [up EXCEPT ![c] = SubSeq(@, 1, i)]
  /\ \E i \in 0 .. Len(down[c]) : down' = [down EXCEPT ![c] = SubSeq(@, 1, i)]
  /\ UNCHANGED <<soukVars, probeVars>>

\* Souk loses the record of the agent together with the socket to it.
Forget ==
  /\ conn \in 1 .. MaxConns - 1
  /\ sock[conn] = "up"
  /\ listed' = FALSE
  /\ sock' = [sock EXCEPT ![conn] = "dead"]
  /\ UNCHANGED <<status, soukConn, offer, made, runOf, up, down, probeVars>>

-----------------------------------------------------------------------------
Next ==
  \/ Boot \/ Dial \/ DialFails \/ Welcomed \/ ConnectionEnds \/ Terminate
  \/ StartRun \/ CancelRun \/ IgnoreFrame
  \/ \E o \in Offers : EmitStarted(o) \/ Answered(o) \/ EmitAnswer(o) \/ Finish(o)
  \/ Attach \/ OfferTimesOut \/ Forget
  \/ \E r \in Runs : Offer(r) \/ SoukCancels(r)
  \/ \E c \in Conns : ReadFrame(c) \/ Detach(c) \/ Drop(c)

Spec == Init /\ [][Next]_vars

\* Goroutines and souk's loops get their turn, a model call ends (the HTTP
\* client's timeout), and a souk that is dialled for ever is reached; sockets
\* need not drop, nor deadlines pass.
Fairness ==
  /\ WF_vars(Boot) /\ WF_vars(Welcomed) /\ WF_vars(ConnectionEnds)
  /\ WF_vars(Dial)
  /\ WF_vars(StartRun) /\ WF_vars(CancelRun) /\ WF_vars(IgnoreFrame)
  /\ \A o \in Offers : WF_vars(EmitStarted(o)) /\ WF_vars(Answered(o))
                         /\ WF_vars(EmitAnswer(o)) /\ WF_vars(Finish(o))
  /\ WF_vars(Attach)
  /\ \A c \in Conns : WF_vars(ReadFrame(c)) /\ WF_vars(Detach(c))

FairSpec == Spec /\ Fairness

-----------------------------------------------------------------------------
Phases == {"none", "start", "work", "report", "finish", "returned", "killed"}

\* The type invariant.
TypeOK ==
  /\ listed \in BOOLEAN
  /\ status \in [Runs -> {"queued", "running", "cancelling", "ended"}]
  /\ soukConn \in 0 .. MaxConns
  /\ offer \in [no : Offers, run : Runs, conn : Conns] \cup {NoOffer}
  /\ made \in 0 .. MaxOffers
  /\ runOf \in [Offers -> Runs \cup {NoRun}]
  /\ sock \in [Conns -> {"none", "up", "dead"}]
  /\ up \in [Conns -> Seq([type : {"ack", "event", "finish"}, run : Runs \cup {NoRun}, by : Offers])]
  /\ down \in [Conns -> Seq([type : {"welcome", "run", "cancel", "error"}, run : Runs \cup {NoRun}, by : 0 .. MaxOffers])]
  /\ mode \in {"boot", "dialing", "hello", "serving", "stopped"}
  /\ conn \in 0 .. MaxConns
  /\ cancels \in [Conns -> [Runs -> 0 .. MaxOffers]]
  /\ phase \in [Offers -> Phases]
  /\ wsOf \in [Offers -> 0 .. MaxConns]
  /\ cancelled \subseteq Offers

\* While serve reads a socket, the cancel function of every run that came by
\* it can be found, unless that run came by it twice.
CancelFindsTheRun ==
  \A o \in Offers :
    /\ mode = "serving"
    /\ Live(o)
    /\ wsOf[o] = conn
    /\ \A other \in Offers \ {o} : ~ (runOf[other] = runOf[o] /\ wsOf[other] = conn)
    => cancels[conn][runOf[o]] = o

\* Every path ends the run with a finish, as long as its socket stays up.
EndsOnItsSocket ==
  \A o \in Offers :
    Live(o) /\ runOf[o] \in Claimed
      ~> runOf[o] \notin Claimed \/ (wsOf[o] # NoConn /\ sock[wsOf[o]] = "dead")

\* A souk that forgot the agent lists and serves it again after a reconnect.
ServedAgain ==
  mode = "dialing" ~> mode = "stopped" \/ (mode = "serving" /\ listed)

-----------------------------------------------------------------------------
(* What the repository says of the probe and the code does not do.         *)

\* A dropped socket ends nothing and reconnecting is the whole recovery: a
\* run souk holds is ended by the probe, unless the probe itself is stopped.
HeldRunEnds ==
  \A r \in Runs : r \in Claimed ~> r \notin Claimed \/ mode = "stopped"

=============================================================================
