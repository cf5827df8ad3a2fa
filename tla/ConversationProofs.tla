-------------------------- MODULE ConversationProofs --------------------------
(***************************************************************************)
(* A conversation over AG-UI for every number of turns, deltas and         *)
(* restarts and every roster: a caller can follow each run's stream, its   *)
(* turns stay on one thread, and everyone who looks a name up comes to     *)
(* the same agent.                                                         *)
(***************************************************************************)
EXTENDS Conversation, FiniteSetTheorems, SequenceTheorems, TLAPS

\* What a run says.
EventRecords ==
  [type : {"RUN_STARTED"}, thread : Nat] \cup [type : {"TEXT_MESSAGE_CONTENT"}, delta : Nat]
    \cup [type : {"TEXT_MESSAGE_START", "TEXT_MESSAGE_END", "RUN_FINISHED", "RUN_ERROR"}]

\* TypeOK, and the types of what it bounds by another variable.
Typed ==
  /\ TypeOK
  /\ events \in [Turns -> Seq(EventRecords)]
  /\ deltas \in [Turns -> Nat] /\ seen \in [Turns -> Nat]

\* A turn is blank until its run is started.
Blank ==
  /\ at # "idle" => turn \in Turns
  /\ \A n \in Turns :
       n > turn \/ (n = turn /\ at \in {"creating", "posting"}) =>
         on[n] = NoThread /\ gen[n] = "none" /\ seen[n] = 0 /\ end[n] = "none"

\* The events run_stream has yielded while it goes on: the start of the run
\* and, once there was a delta, the opened message and the deltas in order.
Spoken(n) == IF deltas[n] = 0 THEN 1 ELSE deltas[n] + 2

Body(n) ==
  /\ Len(events[n]) >= Spoken(n)
  /\ events[n][1] = Started(on[n])
  /\ deltas[n] > 0 => events[n][2] = Event("TEXT_MESSAGE_START")
  /\ \A d \in 1 .. deltas[n] : events[n][d + 2] = Content(d)

\* What comes behind them: nothing yet, the error, or the end of an answer.
Failing(n) ==
  /\ Len(events[n]) = Spoken(n) + 1
  /\ events[n][Spoken(n) + 1] = Event("RUN_ERROR")

Finishing(n) ==
  \/ /\ deltas[n] = 0
     /\ Len(events[n]) = 2
     /\ events[n][2] = Event("RUN_FINISHED")
  \/ /\ deltas[n] > 0
     /\ Len(events[n]) = deltas[n] + 4
     /\ events[n][deltas[n] + 3] = Event("TEXT_MESSAGE_END")
     /\ events[n][deltas[n] + 4] = Event("RUN_FINISHED")

\* Every stream is of that form, wherever it is.
Stream(n) ==
  /\ gen[n] = "none" => events[n] = <<>> /\ deltas[n] = 0
  /\ gen[n] # "none" => on[n] # NoThread /\ Body(n)
  /\ gen[n] \in {"running", "gone", "cut"} => Len(events[n]) = Spoken(n)
  /\ gen[n] \in Over => Failing(n) \/ Finishing(n)

Streams == \A n \in Turns : Stream(n)

\* The thread the caller goes on with while a turn is under way.
Holding ==
  /\ at = "creating" => threadId = NoThread /\ sent[turn] = NoThread
  /\ at = "posting" /\ kind = "page" => threadId = sent[turn]
  /\ at = "reading" => threadId \in {sent[turn], on[turn]} /\ on[turn] # NoThread /\ end[turn] = "none"

\* A run the caller was told of, on a thread souk still has.
Reliable(j) == on[j] # NoThread /\ Told(j) /\ Known(on[j])

\* Its thread is the one the caller holds, and every turn after it was sent
\* and run on that thread.
Follows ==
  \A j \in Turns :
    Reliable(j) =>
      /\ threadId = on[j]
      /\ \A k \in Turns : j < k /\ k <= turn => sent[k] = on[j] /\ on[k] \in {NoThread, on[j]}

\* The caller's threads, and the streams they are learned from.
ThreadInv == Typed /\ Blank /\ Streams /\ Holding /\ Follows

-----------------------------------------------------------------------------
\* What a lookup of the roster returns is a row of it or NotFound, which no
\* provider can list.
LEMMA LookedUp ==
  ASSUME TypeOK
  PROVE  /\ Reached \in roster \cup {NotFound}
         /\ NotFound \notin Listable
  BY RosterConstants, ConversationConstants
  DEF RosterConstants, ConversationConstants, TypeOK, Reached, ResolveRef, AnyOf, NotFound

\* A stream that run_stream adds to, or that is begun, is a stream.
LEMMA StreamTypes ==
  /\ \A t \in Nat : Started(t) \in EventRecords
  /\ \A d \in Nat : Content(d) \in EventRecords
  /\ \A type \in {"TEXT_MESSAGE_START", "TEXT_MESSAGE_END", "RUN_FINISHED", "RUN_ERROR"} :
       Event(type) \in EventRecords
  BY DEF EventRecords, Started, Content, Event

\* Two sequences of one element make one of two.
LEMMA TwoInOne ==
  ASSUME NEW S, NEW a \in S, NEW b \in S
  PROVE  <<a>> \o <<b>> = <<a, b>>
<1> DEFINE s == <<a>> \o <<b>>
           t == <<a, b>>
<1>1. s \in Seq(S) /\ t \in Seq(S)
  OBVIOUS
<1>2. Len(s) = 2 /\ Len(t) = 2
  OBVIOUS
<1>3. s[1] = t[1] /\ s[2] = t[2]
  OBVIOUS
<1> HIDE DEF s, t
<1>4. Len(s) = Len(t) /\ \A i \in 1 .. Len(s) : s[i] = t[i]
  BY <1>2, <1>3
<1>5. s = t
  BY <1>1, <1>4, SeqEqual
<1> QED
  BY <1>5 DEF s, t

\* What is yielded for a delta, for the end and for a failure is a stream.
LEMMA YieldTypes ==
  ASSUME NEW n \in Turns
  PROVE  /\ \A d \in Nat : PassOn(n, d) \in Seq(EventRecords)
         /\ Finished(n) \in Seq(EventRecords)
         /\ Failed(n) \in Seq(EventRecords)
<1>1. ASSUME NEW d \in Nat
      PROVE  PassOn(n, d) \in Seq(EventRecords)
  BY StreamTypes DEF PassOn
<1>2. Finished(n) \in Seq(EventRecords)
  BY StreamTypes DEF Finished
<1>3. Failed(n) \in Seq(EventRecords)
  BY StreamTypes DEF Failed
<1> QED
  BY <1>1, <1>2, <1>3

\* Threads are only added, and those lost with a database stay lost.
LEMMA ThreadsGrow ==
  ASSUME TypeOK, Next
  PROVE  /\ threads' \in Seq(Listable \cup {NotFound})
         /\ Len(threads) <= Len(threads')
         /\ \A t \in 1 .. Len(threads) : Known(t)' => Known(t)
<1> USE DEF Known
<1>0. /\ threads \in Seq(Listable \cup {NotFound})
      /\ Reached \in Listable \cup {NotFound}
  BY LookedUp DEF TypeOK
<1>1. CASE threads' = Append(threads, Reached)
  BY <1>0, <1>1
<1>2. CASE threads' = [t \in DOMAIN threads |-> NotFound]
  BY <1>0, <1>2
<1>3. CASE UNCHANGED threads
  BY <1>0, <1>3
<1> QED
  BY <1>1, <1>2, <1>3
  DEF Next, Resolve, TakeTurn, CreateThread, CreateRefused, StartRun, ReportActive, RunRefused, RequestFails,
      ReadEvent, StreamEnds, BreaksOff, Delta, EndpointEnds, EndpointReports, EndpointFails, Yields,
      Records, Register, Serve, Detach, Sweep, Restart, souk

-----------------------------------------------------------------------------
\* An event is one of those, at its place in the stream.
LEMMA Wording ==
  ASSUME Typed, Streams, NEW n \in Turns, NEW i \in 1 .. Len(events[n])
  PROVE  \/ i = 1 /\ events[n][i] = Started(on[n])
         \/ i = 2 /\ deltas[n] > 0 /\ events[n][i] = Event("TEXT_MESSAGE_START")
         \/ \E d \in 1 .. deltas[n] : i = d + 2 /\ events[n][i] = Content(d)
         \/ i = Len(events[n]) /\ i > 1 /\ gen[n] \in Over /\ events[n][i] = Event("RUN_ERROR")
         \/ i = deltas[n] + 3 /\ Len(events[n]) = deltas[n] + 4 /\ events[n][i] = Event("TEXT_MESSAGE_END")
         \/ i = Len(events[n]) /\ i > 1 /\ gen[n] \in Over /\ events[n][i] = Event("RUN_FINISHED")
<1>1. Len(events[n]) \in Nat /\ deltas[n] \in Nat /\ gen[n] \in {"none", "running", "gone", "cut"} \cup Over
  BY DEF Typed, TypeOK
<1>2. gen[n] # "none" /\ Body(n)
  <2>1. gen[n] = "none" => Len(events[n]) = 0
    BY DEF Streams, Stream
  <2> QED
    BY <1>1, <2>1 DEF Streams, Stream
<1>3. CASE i <= Spoken(n)
  <2>1. i = 1 \/ (deltas[n] > 0 /\ i = 2) \/ (i - 2 \in 1 .. deltas[n] /\ i = (i - 2) + 2)
    BY <1>1, <1>3 DEF Spoken
  <2>2. CASE i = 1
    BY <1>2, <2>2 DEF Body
  <2>3. CASE deltas[n] > 0 /\ i = 2
    BY <1>2, <2>3 DEF Body
  <2>4. CASE i - 2 \in 1 .. deltas[n] /\ i = (i - 2) + 2
    BY <1>2, <2>4 DEF Body
  <2> QED
    BY <2>1, <2>2, <2>3, <2>4
<1>4. CASE i > Spoken(n)
  <2>1. gen[n] \in Over /\ (Failing(n) \/ Finishing(n))
    BY <1>1, <1>2, <1>4 DEF Streams, Stream, Spoken
  <2>2. CASE Failing(n)
    BY <1>1, <1>4, <2>1, <2>2 DEF Failing, Spoken
  <2>3. CASE Finishing(n)
    <3>1. CASE deltas[n] = 0
      <4>1. /\ i = Len(events[n]) /\ i > 1 /\ i = 2
            /\ events[n][2] = Event("RUN_FINISHED")
        <5>1. Len(events[n]) = 2 /\ events[n][2] = Event("RUN_FINISHED") /\ ~ deltas[n] > 0
          BY <2>3, <3>1 DEF Finishing
        <5>2. Spoken(n) = 1
          BY <3>1 DEF Spoken
        <5> QED
          BY <1>4, <5>1, <5>2
      <4>2. events[n][i] = Event("RUN_FINISHED")
        BY <4>1
      <4> QED
        BY <2>1, <4>1, <4>2
    <3>2. CASE deltas[n] > 0
      <4>1. i = deltas[n] + 3 \/ i = deltas[n] + 4
        BY <1>1, <1>4, <2>3, <3>2 DEF Finishing, Spoken
      <4> QED
        BY <1>1, <2>1, <2>3, <3>2, <4>1 DEF Finishing
    <3> QED
      BY <1>1, <3>1, <3>2
  <2> QED
    BY <2>1, <2>2, <2>3
<1> QED
  BY <1>1, <1>3, <1>4 DEF Spoken

\* Only the first event says a thread, and it is the run's.
LEMMA SaysItsThread ==
  ASSUME Typed, Streams, NEW n \in Turns, NEW i \in 1 .. Len(events[n])
  PROVE  /\ events[n][i].type = "RUN_STARTED" <=> i = 1
         /\ i = 1 => events[n][i].thread = on[n]
<1>1. Len(events[n]) \in Nat /\ deltas[n] \in Nat
  BY DEF Typed
<1>2. CASE i = 1 /\ events[n][i] = Started(on[n])
  BY <1>2 DEF Started
<1>3. CASE \E d \in 1 .. deltas[n] : i = d + 2 /\ events[n][i] = Content(d)
  BY <1>1, <1>3 DEF Content
<1>4. CASE \/ i = 2 /\ deltas[n] > 0 /\ events[n][i] = Event("TEXT_MESSAGE_START")
           \/ i = Len(events[n]) /\ i > 1 /\ gen[n] \in Over /\ events[n][i] = Event("RUN_ERROR")
           \/ i = deltas[n] + 3 /\ Len(events[n]) = deltas[n] + 4 /\ events[n][i] = Event("TEXT_MESSAGE_END")
           \/ i = Len(events[n]) /\ i > 1 /\ gen[n] \in Over /\ events[n][i] = Event("RUN_FINISHED")
  BY <1>1, <1>4 DEF Event
<1> QED
  BY <1>2, <1>3, <1>4, Wording

\* Reading an event, the caller goes on with its thread or takes the run's;
\* with the first event it does.
LEMMA Reading ==
  ASSUME Typed, Blank, Streams, ReadEvent
  PROVE  /\ turn \in Turns
         /\ threadId' \in {threadId, on[turn]}
         /\ seen[turn] = 0 => threadId' = on[turn]
<1>1. turn \in Turns
  BY DEF ReadEvent, Blank
<1>2. seen[turn] \in Nat /\ Len(events[turn]) \in Nat /\ seen[turn] + 1 \in 1 .. Len(events[turn])
  BY <1>1 DEF ReadEvent, Typed
<1>3. /\ events[turn][seen[turn] + 1].type = "RUN_STARTED" <=> seen[turn] = 0
      /\ seen[turn] = 0 => events[turn][seen[turn] + 1].thread = on[turn]
  BY <1>1, <1>2, SaysItsThread
<1> QED
  BY <1>1, <1>3 DEF ReadEvent, Learn

-----------------------------------------------------------------------------
\* In the beginning every variable has its type and every turn is blank.
LEMMA TypeInit == Init => Typed /\ Blank
<1> SUFFICES ASSUME Init PROVE Typed /\ Blank
  OBVIOUS
<1> USE ConversationConstants DEF ConversationConstants, NoThread
<1>1. /\ threads = <<>> /\ Len(threads) = 0 /\ threads \in Seq(Listable \cup {NotFound})
      /\ events = [n \in Turns |-> <<>>] /\ events \in [Turns -> Seq(EventRecords)]
  BY DEF Init
<1>2. \A n \in Turns : deltas[n] \in 0 .. Deltas[n] /\ seen[n] \in 0 .. Len(events[n])
  BY <1>1 DEF Init, Turns
<1>3. TypeOK
  BY <1>1, <1>2 DEF Init, TypeOK
<1>4. Blank
  BY DEF Init, Blank
<1> QED
  BY <1>1, <1>3, <1>4 DEF Init, Typed

\* No step takes a variable outside its type.
LEMMA TypeStep == Typed /\ Blank /\ Streams /\ [Next]_vars => Typed'
<1> SUFFICES ASSUME Typed, Blank, Streams, [Next]_vars
             PROVE  Typed'
  OBVIOUS
<1> USE ConversationConstants DEF ConversationConstants, NoThread
<1>1. CASE UNCHANGED vars
  BY <1>1 DEF Typed, TypeOK, vars, souk, caller, runs
<1>2. CASE Next
  <2>0. /\ Reached \in roster \cup {NotFound}
        /\ threads' \in Seq(Listable \cup {NotFound})
        /\ Len(threads) <= Len(threads')
        /\ Len(threads) \in Nat /\ Len(threads') \in Nat
    BY <1>2, LookedUp, ThreadsGrow DEF Typed, TypeOK
  <2> USE DEF Typed
  <2>1. CASE Resolve
    BY <2>1 DEF Resolve, TypeOK, souk, runs
  <2>2. CASE TakeTurn
    <3>1. turn + 1 \in Turns /\ turn + 1 \in 0 .. MaxTurns
      BY <2>2 DEF TakeTurn, TypeOK, Turns
    <3> QED
      BY <2>2, <3>1 DEF TakeTurn, TypeOK, souk, runs
  <2>3. CASE CreateThread
    <3>1. Len(threads') = Len(threads) + 1
      BY <2>0, <2>3, LookedUp DEF CreateThread, TypeOK
    <3> QED
      <4>1. turn \in Turns
        BY <2>3 DEF CreateThread, Blank
      <4>2. sent' \in [Turns -> 0 .. Len(threads')] /\ threadId' \in 0 .. Len(threads')
        BY <2>0, <2>3, <3>1, <4>1 DEF CreateThread, TypeOK
      <4>3. on' \in [Turns -> 0 .. Len(threads')]
        BY <2>0, <2>3 DEF CreateThread, TypeOK, runs
      <4> QED
        BY <2>0, <2>3, <4>2, <4>3 DEF CreateThread, TypeOK, runs
  <2>4. CASE CreateRefused
    BY <2>4 DEF CreateRefused, Ends, TypeOK, souk, runs
  <2>5. CASE StartRun
    <3> DEFINE t == IF Known(sent[turn]) THEN sent[turn] ELSE Len(threads) + 1
               said == IF Reached \in serving THEN <<Started(t)>> ELSE <<Started(t), Event("RUN_ERROR")>>
    <3>1. turn \in Turns /\ sent[turn] \in 0 .. Len(threads) /\ seen[turn] = 0
      BY <2>5 DEF StartRun, TypeOK, Blank
    <3>2. t \in 0 .. Len(threads')
      BY <2>0, <2>5, <3>1, LookedUp DEF StartRun, TypeOK, Known
    <3>3. said \in Seq(EventRecords) /\ Len(said) \in Nat
      BY <3>2, StreamTypes
    <3>4. /\ on' = [on EXCEPT ![turn] = t]
          /\ gen' = [gen EXCEPT ![turn] = IF Reached \in serving THEN "running" ELSE "over"]
          /\ events' = [events EXCEPT ![turn] = said]
          /\ \/ threadId' = IF kind = "sdk" THEN sent[turn] ELSE threadId
             \/ UNCHANGED threadId
          /\ at' \in {"reading", "idle"}
          /\ end' \in {end, [end EXCEPT ![turn] = "lost"]}
          /\ UNCHANGED <<roster, serving, restarts, kind, held, turn, sent, seen, deltas>>
      BY <2>5 DEF StartRun, Connected, Ends
    <3> HIDE DEF t, said
    <3>5. /\ roster' \subseteq Listable /\ serving' \subseteq roster'
          /\ restarts' \in 0 .. MaxRestarts /\ kind' \in Kinds
          /\ held' \in Listable \cup {NotFound} /\ turn' \in 0 .. MaxTurns
          /\ at' \in {"idle", "creating", "posting", "reading"}
          /\ \A n \in Turns : deltas'[n] \in 0 .. Deltas[n]
      BY <3>4 DEF TypeOK
    <3>6. threadId' \in 0 .. Len(threads')
      BY <2>0, <3>1, <3>4 DEF TypeOK
    <3>7. sent' \in [Turns -> 0 .. Len(threads')] /\ on' \in [Turns -> 0 .. Len(threads')]
      <4>1. sent \in [Turns -> 0 .. Len(threads')] /\ on \in [Turns -> 0 .. Len(threads')]
        BY <2>0 DEF TypeOK
      <4> QED
        BY <3>2, <3>4, <4>1
    <3>8. /\ end' \in [Turns -> {"none", "told", "refused", "inflight", "lost", "broken"}]
          /\ gen' \in [Turns -> {"none", "running", "gone", "cut"} \cup Over]
          /\ events' \in [Turns -> Seq(EventRecords)]
      BY <3>3, <3>4 DEF TypeOK, Over
    <3>9. /\ \A n \in Turns : seen'[n] \in 0 .. Len(events'[n])
          /\ seen' \in [Turns -> Nat] /\ deltas' \in [Turns -> Nat]
      BY <3>1, <3>3, <3>4 DEF TypeOK
    <3> QED
      BY <2>0, <3>5, <3>6, <3>7, <3>8, <3>9 DEF TypeOK
  <2>6. CASE ReportActive
    BY <2>6 DEF ReportActive, Connected, AnsweredWithJson, Ends, Blank, TypeOK, souk, runs
  <2>7. CASE RunRefused
    BY <2>7 DEF RunRefused, Connected, AnsweredWithJson, Ends, Blank, TypeOK, souk, runs
  <2>8. CASE RequestFails
    BY <2>8 DEF RequestFails, Ends, TypeOK, souk, runs
  <2>9. CASE ReadEvent
    <3>1. turn \in Turns /\ threadId' \in {threadId, on[turn]}
      BY <2>9, Reading
    <3>2. threadId' \in 0 .. Len(threads)
      BY <3>1 DEF TypeOK
    <3>3. seen' \in [Turns -> Nat] /\ \A n \in Turns : seen'[n] \in 0 .. Len(events[n])
      BY <2>9, <3>1 DEF ReadEvent, TypeOK
    <3> QED
      BY <2>9, <3>2, <3>3 DEF ReadEvent, TypeOK, souk, runs
  <2>10. CASE StreamEnds
    BY <2>10 DEF StreamEnds, Ends, TypeOK, souk, runs
  <2>11. CASE BreaksOff
    BY <2>11 DEF BreaksOff, Ends, TypeOK, souk, runs
  <2>12. ASSUME NEW n \in Turns, NEW more \in Seq(EventRecords), NEW next \in {"running"} \cup Over,
                Records(n, more, next), deltas' \in [Turns -> Nat], \A m \in Turns : deltas'[m] <= Deltas[m]
         PROVE  Typed'
    <3>1. /\ events' = [events EXCEPT ![n] = events[n] \o more]
          /\ gen' = [gen EXCEPT ![n] = next]
          /\ UNCHANGED <<souk, caller, on>>
      BY <2>12 DEF Records
    <3>2. events' \in [Turns -> Seq(EventRecords)]
      BY <3>1
    <3>3. \A m \in Turns : Len(events[m]) <= Len(events'[m]) /\ Len(events'[m]) \in Nat
      BY <3>1, <3>2
    <3> QED
      BY <2>12, <3>1, <3>2, <3>3 DEF TypeOK, souk, caller
  <2>13. ASSUME NEW n \in Turns, Delta(n)
         PROVE  Typed'
    <3>1. deltas[n] \in Nat /\ Deltas[n] \in Nat /\ deltas[n] < Deltas[n]
      BY <2>13 DEF Delta, Turns
    <3>2. deltas' \in [Turns -> Nat] /\ \A m \in Turns : deltas'[m] <= Deltas[m]
      <4>1. deltas' = [deltas EXCEPT ![n] = deltas[n] + 1] /\ \A m \in Turns : Deltas[m] \in Nat
        BY <2>13 DEF Delta, Turns
      <4>2. deltas \in [Turns -> Nat] /\ \A m \in Turns : deltas[m] <= Deltas[m]
        BY <4>1 DEF TypeOK
      <4>3. deltas' \in [Turns -> Nat]
        BY <3>1, <4>1, <4>2
      <4>4. ASSUME NEW m \in Turns
            PROVE  deltas'[m] <= Deltas[m]
        BY <3>1, <4>1, <4>2
      <4> QED
        BY <4>3, <4>4
    <3>3. PassOn(n, deltas[n] + 1) \in Seq(EventRecords)
      BY <3>1, YieldTypes
    <3> QED
      BY <2>12, <2>13, <3>2, <3>3 DEF Delta, Yields
  <2>14. ASSUME NEW n \in Turns, EndpointEnds(n) \/ EndpointReports(n) \/ EndpointFails(n) \/ Sweep(n)
         PROVE  Typed'
    <3>1. deltas' \in [Turns -> Nat] /\ \A m \in Turns : deltas'[m] <= Deltas[m]
      BY <2>14 DEF EndpointEnds, EndpointReports, EndpointFails, Sweep, TypeOK
    <3>2. PICK more \in {Finished(n), Failed(n)}, next \in Over : Records(n, more, next)
      BY <2>14 DEF EndpointEnds, EndpointReports, EndpointFails, Sweep, Yields, Failed, Over
    <3>3. more \in Seq(EventRecords)
      BY <3>2, YieldTypes
    <3> QED
      BY <2>12, <3>1, <3>2, <3>3
  <2>15. ASSUME NEW key \in Providers, Register(key)
         PROVE  Typed'
    BY <2>15 DEF Register, TypeOK, caller, runs
  <2>16. ASSUME NEW row \in Listable, Serve(row)
         PROVE  Typed'
    BY <2>16 DEF Serve, TypeOK, caller, runs
  <2>17. ASSUME NEW key \in Providers, NEW lost \in SUBSET Turns, Detach(key, lost)
         PROVE  Typed'
    <3>1. serving' \subseteq serving /\ UNCHANGED <<roster, threads, restarts, caller, on, deltas, events>>
      BY <2>17 DEF Detach
    <3>2. gen' \in [Turns -> {"none", "running", "gone", "cut"} \cup Over]
      BY <2>17 DEF Detach, TypeOK
    <3> QED
      BY <3>1, <3>2 DEF TypeOK, caller
  <2>18. ASSUME NEW sameDatabase \in BOOLEAN, Restart(sameDatabase)
         PROVE  Typed'
    <3>1. Len(threads') = Len(threads)
      BY <2>0, <2>18 DEF Restart, TypeOK
    <3>2. gen' \in [Turns -> {"none", "running", "gone", "cut"} \cup Over]
      BY <2>18 DEF Restart, TypeOK, Over
    <3>3. /\ at' \in {"idle", "creating", "posting", "reading"}
          /\ end' \in [Turns -> {"none", "told", "refused", "inflight", "lost", "broken"}]
      BY <2>18 DEF Restart, Ends, TypeOK
    <3>4. /\ roster' \subseteq Listable /\ serving' \subseteq roster'
          /\ restarts' \in 0 .. MaxRestarts
      BY <2>18 DEF Restart, TypeOK
    <3> QED
      BY <2>0, <2>18, <3>1, <3>2, <3>3, <3>4 DEF Restart, TypeOK
  <2> QED
    BY <1>2, <2>1, <2>2, <2>3, <2>4, <2>5, <2>6, <2>7, <2>8, <2>9, <2>10, <2>11, <2>13, <2>14, <2>15, <2>16,
       <2>17, <2>18 DEF Next
<1> QED
  BY <1>1, <1>2

-----------------------------------------------------------------------------
\* Only the turn under way is written to, and its run is only started once.
LEMMA BlankStep == Typed /\ Blank /\ Streams /\ [Next]_vars => Blank'
<1> SUFFICES ASSUME Typed, Blank, Streams, [Next]_vars
             PROVE  Blank'
  OBVIOUS
<1> USE ConversationConstants DEF ConversationConstants, Blank
<1>1. CASE UNCHANGED vars
  BY <1>1 DEF vars, souk, caller, runs
<1>2. CASE Next
  <2>0. turn \in 0 .. MaxTurns /\ turn' \in 0 .. MaxTurns /\ Turns = 1 .. MaxTurns /\ MaxTurns \in Nat
    BY TypeStep, <1>2 DEF Typed, TypeOK, Turns
  <2>1. CASE Resolve
    BY <2>1 DEF Resolve, souk, runs
  <2>2. CASE TakeTurn
    BY <2>0, <2>2 DEF TakeTurn, souk, runs
  <2>3. CASE CreateThread
    BY <2>3 DEF CreateThread, runs
  <2>4. CASE CreateRefused
    <3>1. /\ at' \in {"idle", "posting"} /\ UNCHANGED <<turn, on, gen, seen>> /\ turn \in Turns
          /\ \A n \in Turns : end'[n] = end[n] \/ (n = turn /\ at' = "idle")
      BY <2>0, <2>4 DEF CreateRefused, Ends, Typed, TypeOK, souk, runs
    <3> QED
      BY <2>0, <2>4, <3>1 DEF CreateRefused
  <2>5. CASE StartRun
    <3>1. /\ turn \in Turns /\ UNCHANGED <<turn, seen>> /\ at' \in {"reading", "idle"}
          /\ \A n \in Turns : n # turn => on'[n] = on[n] /\ gen'[n] = gen[n] /\ end'[n] = end[n]
      BY <2>5 DEF StartRun, Ends, Typed, TypeOK
    <3> QED
      BY <2>0, <3>1
  <2>6. CASE ReportActive
    <3>1. /\ at' = "idle" /\ UNCHANGED <<turn, on, gen, seen>>
          /\ \A n \in Turns : n # turn => end'[n] = end[n]
      BY <2>6 DEF ReportActive, AnsweredWithJson, Ends, Typed, TypeOK, runs
    <3> QED
      BY <2>0, <3>1
  <2>7. CASE RunRefused
    <3>1. /\ at' = "idle" /\ UNCHANGED <<turn, on, gen, seen>>
          /\ \A n \in Turns : n # turn => end'[n] = end[n]
      BY <2>7 DEF RunRefused, AnsweredWithJson, Ends, Typed, TypeOK, runs
    <3> QED
      BY <2>0, <3>1
  <2>8. CASE RequestFails
    <3>1. /\ at' = "idle" /\ UNCHANGED <<turn, on, gen, seen>>
          /\ \A n \in Turns : n # turn => end'[n] = end[n]
      BY <2>8 DEF RequestFails, Ends, Typed, TypeOK, runs
    <3> QED
      BY <2>0, <3>1
  <2>9. CASE ReadEvent
    BY <2>0, <2>9 DEF ReadEvent, Typed, TypeOK, souk, runs
  <2>10. CASE StreamEnds
    BY <2>0, <2>10 DEF StreamEnds, Ends, Typed, TypeOK, souk, runs
  <2>11. CASE BreaksOff
    BY <2>0, <2>11 DEF BreaksOff, Ends, Typed, TypeOK, souk, runs
  <2>12. ASSUME NEW n \in Turns, NEW more, NEW next \in {"running"} \cup Over, gen[n] # "none",
                Records(n, more, next)
         PROVE  Blank'
    BY <2>0, <2>12 DEF Records, Typed, TypeOK, souk, caller
  <2>13. ASSUME NEW n \in Turns,
                Delta(n) \/ EndpointEnds(n) \/ EndpointReports(n) \/ EndpointFails(n) \/ Sweep(n)
         PROVE  Blank'
    BY <2>12, <2>13 DEF Delta, EndpointEnds, EndpointReports, EndpointFails, Sweep, Yields, Over
  <2>14. ASSUME NEW key \in Providers, Register(key)
         PROVE  Blank'
    BY <2>14 DEF Register, caller, runs
  <2>15. ASSUME NEW row \in Listable, Serve(row)
         PROVE  Blank'
    BY <2>15 DEF Serve, caller, runs
  <2>16. ASSUME NEW key \in Providers, NEW lost \in SUBSET Turns, Detach(key, lost)
         PROVE  Blank'
    <3>1. /\ UNCHANGED <<caller, on>>
          /\ \A n \in Turns : gen[n] = "none" => gen'[n] = "none"
      BY <2>16 DEF Detach
    <3> QED
      BY <3>1 DEF caller
  <2>17. ASSUME NEW sameDatabase \in BOOLEAN, Restart(sameDatabase)
         PROVE  Blank'
    <3>1. /\ at' = "idle" /\ UNCHANGED <<turn, on, seen>>
          /\ \A n \in Turns : gen[n] = "none" => gen'[n] = "none"
          /\ \A n \in Turns : n # turn \/ at = "idle" => end'[n] = end[n]
      BY <2>17 DEF Restart, Open, Ends, Typed, TypeOK
    <3> QED
      BY <2>0, <3>1
  <2> QED
    BY <1>2, <2>1, <2>2, <2>3, <2>4, <2>5, <2>6, <2>7, <2>8, <2>9, <2>10, <2>11, <2>13, <2>14, <2>15, <2>16,
       <2>17
    DEF Next
<1> QED
  BY <1>1, <1>2

-----------------------------------------------------------------------------
\* A reply is open from its first delta on.
LEMMA OpenedByDelta ==
  ASSUME Typed, NEW n \in Turns, Stream(n), gen[n] = "running"
  PROVE  Opened(n) <=> deltas[n] > 0
<1>1. deltas[n] \in Nat /\ Len(events[n]) \in Nat /\ DOMAIN events[n] = 1 .. Len(events[n])
  BY DEF Typed
<1>2. CASE deltas[n] = 0
  <2>1. Len(events[n]) = 1 /\ events[n][1] = Started(on[n])
    BY <1>2 DEF Stream, Spoken, Body
  <2> QED
    BY <1>1, <1>2, <2>1 DEF Opened, Started
<1>3. CASE deltas[n] > 0
  <2>1. 2 \in DOMAIN events[n] /\ events[n][2].type = "TEXT_MESSAGE_START"
    BY <1>1, <1>3 DEF Stream, Spoken, Body, Event
  <2> QED
    BY <1>3, <2>1 DEF Opened
<1> QED
  BY <1>1, <1>2, <1>3

\* A stream that is left alone keeps its form.
LEMMA StreamKept ==
  ASSUME NEW n \in Turns, Stream(n), UNCHANGED <<on[n], gen[n], deltas[n], events[n]>>
  PROVE  Stream(n)'
  BY DEF Stream, Body, Spoken, Failing, Finishing

\* So does one that a restart cuts, or that nothing comes for any more.
LEMMA StreamCut ==
  ASSUME NEW n \in Turns, Stream(n), gen[n] \in {"running", "gone"}, gen'[n] \in {"gone", "cut"},
         UNCHANGED <<on[n], deltas[n], events[n]>>
  PROVE  Stream(n)'
  BY DEF Stream, Body, Spoken, Over

\* What was said stays said when an end is put behind it.
LEMMA BodyKept ==
  ASSUME Typed, NEW n \in Turns, Body(n), on'[n] = on[n], deltas'[n] = deltas[n],
         Len(events[n]) = Spoken(n),
         Len(events'[n]) \in Nat, Len(events'[n]) >= Len(events[n]),
         \A i \in 1 .. Len(events[n]) : events'[n][i] = events[n][i]
  PROVE  Body(n)'
<1>1. deltas[n] \in Nat /\ deltas'[n] = deltas[n]
  BY DEF Typed
<1>2. Spoken(n)' = Spoken(n) /\ Spoken(n) \in Nat
  BY <1>1 DEF Spoken
<1>3. events'[n][1] = Started(on'[n])
  BY <1>1, <1>2 DEF Body, Spoken
<1>4. deltas'[n] > 0 => events'[n][2] = Event("TEXT_MESSAGE_START")
  BY <1>1, <1>2 DEF Body, Spoken
<1>5. ASSUME NEW d \in 1 .. deltas'[n]
      PROVE  events'[n][d + 2] = Content(d)
  <2>1. Len(events[n]) = deltas[n] + 2 /\ d \in 1 .. deltas[n] /\ d + 2 \in 1 .. Len(events[n])
    BY <1>1 DEF Spoken
  <2>2. events[n][d + 2] = Content(d)
    BY <2>1 DEF Body
  <2> QED
    BY <2>1, <2>2
<1> QED
  BY <1>2, <1>3, <1>4, <1>5 DEF Body

\* A run begins with its RUN_STARTED, and ends there if nobody serves the agent.
LEMMA StreamBegins ==
  ASSUME NEW n \in Turns, deltas[n] = 0, deltas'[n] = 0, NEW t \in Nat \ {0}, on'[n] = t,
         \/ gen'[n] = "running" /\ events'[n] = <<Started(t)>>
         \/ gen'[n] = "over" /\ events'[n] = <<Started(t), Event("RUN_ERROR")>>
  PROVE  Stream(n)'
<1>1. on'[n] # NoThread /\ Spoken(n)' = 1
  BY DEF Spoken, NoThread
<1>2. CASE gen'[n] = "running" /\ events'[n] = <<Started(t)>>
  <2>1. Len(events'[n]) = 1 /\ events'[n][1] = Started(t)
    BY <1>2
  <2> QED
    BY <1>1, <1>2, <2>1 DEF Stream, Body, Over
<1>3. CASE gen'[n] = "over" /\ events'[n] = <<Started(t), Event("RUN_ERROR")>>
  <2>1. Len(events'[n]) = 2 /\ events'[n][1] = Started(t) /\ events'[n][2] = Event("RUN_ERROR")
    BY <1>3
  <2> QED
    BY <1>1, <1>3, <2>1 DEF Stream, Body, Failing, Over
<1> QED
  BY <1>2, <1>3

\* What run_stream yields, or the sweep says for it, keeps its stream in that form.
LEMMA StreamGoesOn ==
  ASSUME Typed, NEW n \in Turns, Stream(n), on'[n] = on[n],
         Delta(n) \/ EndpointEnds(n) \/ EndpointReports(n) \/ EndpointFails(n) \/ Sweep(n)
  PROVE  Stream(n)'
<1>0. gen[n] = "running" \/ (gen[n] = "gone" /\ Sweep(n))
  BY DEF Delta, EndpointEnds, EndpointReports, EndpointFails, Sweep, Yields
<1>1. /\ deltas[n] \in Nat /\ events[n] \in Seq(EventRecords) /\ Len(events[n]) \in Nat
      /\ on[n] # NoThread /\ Body(n) /\ Len(events[n]) = Spoken(n)
  BY <1>0 DEF Typed, Stream
<1>2. gen[n] = "running" => (Opened(n) <=> deltas[n] > 0)
  BY <1>1, OpenedByDelta
<1>3. CASE Delta(n)
  <2>1. /\ deltas'[n] = deltas[n] + 1 /\ gen'[n] = "running" /\ gen[n] = "running"
        /\ events'[n] = events[n] \o PassOn(n, deltas[n] + 1)
    BY <1>3 DEF Delta, Yields, Records, Typed, TypeOK
  <2>2. CASE deltas[n] = 0
    <3>1. events'[n] = events[n] \o <<Event("TEXT_MESSAGE_START"), Content(1)>>
      BY <1>2, <2>1, <2>2 DEF PassOn
    <3>2. Len(events'[n]) = 3 /\ events'[n][1] = events[n][1]
          /\ events'[n][2] = Event("TEXT_MESSAGE_START") /\ events'[n][3] = Content(1)
      BY <1>1, <2>2, <3>1 DEF Spoken
    <3> QED
      BY <1>1, <2>1, <2>2, <3>2 DEF Stream, Body, Spoken, Over
  <2>3. CASE deltas[n] > 0
    <3>1. events'[n] = events[n] \o <<Content(deltas[n] + 1)>>
      <4>1. PassOn(n, deltas[n] + 1) = <<Content(deltas[n] + 1)>>
        <5>1. <<Content(deltas[n] + 1)>> \in Seq(EventRecords)
          BY <1>1, StreamTypes
        <5>2. PassOn(n, deltas[n] + 1) = <<>> \o <<Content(deltas[n] + 1)>>
          BY <1>2, <2>1, <2>3 DEF PassOn
        <5> QED
          BY <5>1, <5>2, ConcatEmptySeq
      <4> QED
        BY <2>1, <4>1
    <3>2. /\ Len(events'[n]) = Len(events[n]) + 1
          /\ \A i \in 1 .. Len(events[n]) : events'[n][i] = events[n][i]
          /\ events'[n][Len(events[n]) + 1] = Content(deltas[n] + 1)
      BY <1>1, <3>1
    <3>3. Len(events'[n]) = Spoken(n)'
      <4>1. Len(events[n]) = deltas[n] + 2
        BY <1>1, <2>3 DEF Spoken
      <4>2. Spoken(n)' = deltas[n] + 3
        BY <1>1, <2>1 DEF Spoken
      <4> QED
        BY <1>1, <3>2, <4>1, <4>2
    <3>5. Len(events'[n]) >= Spoken(n)' /\ on'[n] # NoThread
      <4>1. Len(events'[n]) \in Nat
        BY <1>1, <3>2
      <4> QED
        BY <1>1, <3>3, <4>1
    <3>4. /\ events'[n][1] = Started(on'[n]) /\ events'[n][2] = Event("TEXT_MESSAGE_START")
          /\ \A d \in 1 .. deltas'[n] : events'[n][d + 2] = Content(d)
      <4>1. Len(events[n]) = deltas[n] + 2
        BY <1>1, <2>3 DEF Spoken
      <4>2. events'[n][1] = Started(on'[n]) /\ events'[n][2] = Event("TEXT_MESSAGE_START")
        <5>1. events[n][1] = Started(on[n]) /\ events[n][2] = Event("TEXT_MESSAGE_START")
          BY <1>1, <2>3 DEF Body
        <5>2. 1 \in 1 .. Len(events[n]) /\ 2 \in 1 .. Len(events[n])
          BY <1>1, <2>3, <4>1
        <5> QED
          BY <3>2, <5>1, <5>2
      <4>3. ASSUME NEW d \in 1 .. deltas'[n]
            PROVE  events'[n][d + 2] = Content(d)
        <5>1. d \in 1 .. deltas[n] \/ d = deltas[n] + 1
          BY <1>1, <2>1
        <5>2. CASE d \in 1 .. deltas[n]
          <6>1. d + 2 \in 1 .. Len(events[n])
            BY <1>1, <4>1, <5>2
          <6>2. events[n][d + 2] = Content(d)
            BY <1>1, <5>2 DEF Body
          <6> QED
            BY <3>2, <6>1, <6>2
        <5>3. CASE d = deltas[n] + 1
          BY <1>1, <3>2, <4>1, <5>3
        <5> QED
          BY <5>1, <5>2, <5>3
      <4> QED
        BY <4>2, <4>3
    <3> QED
      BY <1>1, <2>1, <3>3, <3>4, <3>5 DEF Stream, Body, Over
  <2> QED
    BY <1>1, <2>2, <2>3
<1>4. CASE EndpointFails(n) \/ Sweep(n)
  <2>1. deltas'[n] = deltas[n] /\ gen'[n] = "over" /\ events'[n] = events[n] \o <<Event("RUN_ERROR")>>
    BY <1>4 DEF EndpointFails, Sweep, Yields, Records, Failed, Typed, TypeOK
  <2>2. /\ Len(events'[n]) = Len(events[n]) + 1
        /\ \A i \in 1 .. Len(events[n]) : events'[n][i] = events[n][i]
        /\ events'[n][Len(events[n]) + 1] = Event("RUN_ERROR")
    BY <1>1, <2>1
  <2>3. Body(n)' /\ Failing(n)'
    <3>1. Spoken(n)' = Spoken(n) /\ Spoken(n) \in Nat /\ Failing(n)'
      BY <1>1, <2>1, <2>2 DEF Spoken, Failing
    <3>2. Body(n)'
      <4>1. Len(events'[n]) \in Nat /\ Len(events'[n]) >= Len(events[n])
        BY <1>1, <2>2
      <4> QED
        BY <1>1, <2>1, <2>2, <4>1, BodyKept
    <3> QED
      BY <3>1, <3>2
  <2> QED
    BY <1>1, <2>1, <2>3 DEF Stream
<1>5. CASE EndpointEnds(n) \/ EndpointReports(n)
  <2>1. /\ deltas'[n] = deltas[n] /\ gen'[n] \in Over /\ gen[n] = "running"
        /\ events'[n] = events[n] \o Finished(n)
    BY <1>5 DEF EndpointEnds, EndpointReports, Yields, Records, Over, Typed, TypeOK
  <2>2. CASE deltas[n] = 0
    <3>1. events'[n] = events[n] \o <<Event("RUN_FINISHED")>>
      BY <1>2, <2>1, <2>2 DEF Finished
    <3>2. Len(events'[n]) = 2 /\ events'[n][1] = events[n][1] /\ events'[n][2] = Event("RUN_FINISHED")
      BY <1>1, <2>2, <3>1 DEF Spoken
    <3> QED
      BY <1>1, <2>1, <2>2, <3>2 DEF Stream, Body, Spoken, Finishing, Over
  <2>3. CASE deltas[n] > 0
    <3>1. events'[n] = events[n] \o <<Event("TEXT_MESSAGE_END"), Event("RUN_FINISHED")>>
      <4>1. Finished(n) = <<Event("TEXT_MESSAGE_END"), Event("RUN_FINISHED")>>
        <5>1. Finished(n) = <<Event("TEXT_MESSAGE_END")>> \o <<Event("RUN_FINISHED")>>
          BY <1>2, <2>1, <2>3 DEF Finished
        <5>2. <<Event("TEXT_MESSAGE_END")>> \o <<Event("RUN_FINISHED")>>
                = <<Event("TEXT_MESSAGE_END"), Event("RUN_FINISHED")>>
          BY StreamTypes, TwoInOne
        <5> QED
          BY <5>1, <5>2
      <4> QED
        BY <2>1, <4>1
    <3>2. /\ Len(events'[n]) = Len(events[n]) + 2
          /\ \A i \in 1 .. Len(events[n]) : events'[n][i] = events[n][i]
          /\ events'[n][Len(events[n]) + 1] = Event("TEXT_MESSAGE_END")
          /\ events'[n][Len(events[n]) + 2] = Event("RUN_FINISHED")
      BY <1>1, <3>1
    <3>3. Body(n)' /\ Finishing(n)'
      <4>1. Finishing(n)'
        <5>1. Len(events[n]) = deltas[n] + 2
          BY <1>1, <2>3 DEF Spoken
        <5>2. /\ deltas'[n] > 0 /\ deltas'[n] + 3 = Len(events[n]) + 1
              /\ deltas'[n] + 4 = Len(events[n]) + 2
          BY <1>1, <2>1, <2>3, <5>1
        <5> QED
          BY <3>2, <5>2 DEF Finishing
      <4>2. Body(n)'
        <5>1. Len(events'[n]) \in Nat /\ Len(events'[n]) >= Len(events[n])
          BY <1>1, <3>2
        <5> QED
          BY <1>1, <2>1, <3>2, <5>1, BodyKept
      <4> QED
        BY <4>1, <4>2
    <3> QED
      BY <1>1, <2>1, <3>3 DEF Stream, Over
  <2> QED
    BY <1>1, <2>2, <2>3
<1> QED
  BY <1>3, <1>4, <1>5

\* Every step keeps every stream in its form.
LEMMA StreamsStep == Typed /\ Blank /\ Streams /\ [Next]_vars => Streams'
<1> SUFFICES ASSUME Typed, Blank, Streams, [Next]_vars, NEW n \in Turns
             PROVE  Stream(n)'
  BY DEF Streams
<1>0. Stream(n)
  BY DEF Streams
<1>1. CASE UNCHANGED <<on[n], gen[n], deltas[n], events[n]>>
  BY <1>0, <1>1, StreamKept
<1>2. CASE StartRun
  <2> DEFINE t == IF Known(sent[turn]) THEN sent[turn] ELSE Len(threads) + 1
  <2>1. /\ turn \in Turns /\ gen[turn] = "none" /\ deltas[turn] = 0 /\ UNCHANGED deltas
        /\ on' = [on EXCEPT ![turn] = t]
        /\ gen' = [gen EXCEPT ![turn] = IF Reached \in serving THEN "running" ELSE "over"]
        /\ events' = [events EXCEPT ![turn] = IF Reached \in serving THEN <<Started(t)>>
                                              ELSE <<Started(t), Event("RUN_ERROR")>>]
    BY <1>2 DEF StartRun, Blank, Streams, Stream
  <2>2. t \in Nat \ {0}
    BY <1>2, <2>1 DEF StartRun, Typed, TypeOK, NoThread
  <2> HIDE DEF t
  <2>3. CASE n = turn
    <3>1. on'[n] = t /\ deltas[n] = 0 /\ deltas'[n] = 0
      BY <2>1, <2>3 DEF Typed, TypeOK
    <3>2. \/ gen'[n] = "running" /\ events'[n] = <<Started(t)>>
          \/ gen'[n] = "over" /\ events'[n] = <<Started(t), Event("RUN_ERROR")>>
      BY <2>1, <2>3 DEF Typed, TypeOK
    <3> QED
      BY <2>2, <3>1, <3>2, StreamBegins
  <2>4. CASE n # turn
    BY <1>1, <2>1, <2>4 DEF Typed, TypeOK
  <2> QED
    BY <2>3, <2>4
<1>3. ASSUME NEW m \in Turns, Delta(m) \/ EndpointEnds(m) \/ EndpointReports(m) \/ EndpointFails(m) \/ Sweep(m)
      PROVE  Stream(n)'
  <2>1. on'[n] = on[n]
    BY <1>3 DEF Delta, EndpointEnds, EndpointReports, EndpointFails, Sweep, Yields, Records
  <2>2. CASE m = n
    BY <1>0, <1>3, <2>1, <2>2, StreamGoesOn
  <2>3. CASE m # n
    <3>1. UNCHANGED <<on[n], gen[n], deltas[n], events[n]>>
      BY <1>3, <2>1, <2>3
      DEF Delta, EndpointEnds, EndpointReports, EndpointFails, Sweep, Yields, Records, Typed, TypeOK
    <3> QED
      BY <1>1, <3>1
  <2> QED
    BY <2>2, <2>3
<1>4. ASSUME NEW sameDatabase \in BOOLEAN, Restart(sameDatabase)
      PROVE  Stream(n)'
  <2>1. /\ on'[n] = on[n] /\ deltas'[n] = deltas[n] /\ events'[n] = events[n]
        /\ gen'[n] = IF gen[n] \in {"running", "gone"} THEN "cut" ELSE gen[n]
    BY <1>4 DEF Restart, Open
  <2> QED
    BY <1>0, <2>1, StreamCut, StreamKept
<1>5. ASSUME NEW key \in Providers, NEW lost \in SUBSET Turns, Detach(key, lost)
      PROVE  Stream(n)'
  <2>1. /\ on'[n] = on[n] /\ deltas'[n] = deltas[n] /\ events'[n] = events[n]
        /\ gen'[n] = gen[n] \/ (gen[n] = "running" /\ gen'[n] = "gone")
    BY <1>5 DEF Detach
  <2> QED
    BY <1>0, <2>1, StreamCut, StreamKept
<1>6. CASE \/ Resolve \/ TakeTurn \/ CreateThread \/ CreateRefused \/ ReportActive \/ RunRefused
           \/ RequestFails \/ ReadEvent \/ StreamEnds \/ BreaksOff
           \/ UNCHANGED vars
           \/ \E key \in Providers : Register(key)
           \/ \E row \in Listable : Serve(row)
  <2>1. UNCHANGED runs
    BY <1>6 DEF Resolve, TakeTurn, CreateThread, CreateRefused, ReportActive, RunRefused, RequestFails,
                ReadEvent, StreamEnds, BreaksOff, Register, Serve, vars
  <2> QED
    BY <1>1, <2>1 DEF runs
<1> QED
  BY <1>2, <1>3, <1>4, <1>5, <1>6 DEF Next

\* Only a stream that is over has finished.
LEMMA Finishes ==
  ASSUME Typed, Streams, NEW n \in Turns, NEW i \in 1 .. Len(events[n]), events[n][i].type = "RUN_FINISHED"
  PROVE  gen[n] \in Over
<1>1. CASE i = 1 /\ events[n][i] = Started(on[n])
  BY <1>1 DEF Started
<1>2. CASE i = 2 /\ deltas[n] > 0 /\ events[n][i] = Event("TEXT_MESSAGE_START")
  BY <1>2 DEF Event
<1>3. CASE \E d \in 1 .. deltas[n] : i = d + 2 /\ events[n][i] = Content(d)
  BY <1>3 DEF Content
<1>4. CASE i = deltas[n] + 3 /\ Len(events[n]) = deltas[n] + 4 /\ events[n][i] = Event("TEXT_MESSAGE_END")
  BY <1>4 DEF Event
<1> QED
  BY <1>1, <1>2, <1>3, <1>4, Wording

\* A caller can follow a stream of that form.
LEMMA FormIsWellFormed == Typed /\ Streams => StreamIsWellFormed
<1> SUFFICES ASSUME Typed, Streams, NEW n \in Turns
             PROVE
    LET types == [i \in DOMAIN events[n] |-> events[n][i].type]
        count(type) == Cardinality({i \in DOMAIN types : types[i] = type})
        before(i, type) == \E j \in 1 .. i - 1 : types[j] = type
    IN  /\ gen[n] \in Over => types # <<>> /\ Last(types) \in Terminal
        /\ count("TEXT_MESSAGE_START") <= 1
        /\ \A i \in DOMAIN types :
             /\ (types[i] = "RUN_STARTED") <=> (i = 1)
             /\ types[i] \in Terminal => i = Len(types)
             /\ types[i] = "TEXT_MESSAGE_CONTENT" =>
                  before(i, "TEXT_MESSAGE_START") /\ ~ before(i, "TEXT_MESSAGE_END")
             /\ types[i] = "RUN_FINISHED" => count("TEXT_MESSAGE_START") = count("TEXT_MESSAGE_END")
  BY DEF StreamIsWellFormed
<1> DEFINE types == [i \in DOMAIN events[n] |-> events[n][i].type]
           count(type) == Cardinality({i \in DOMAIN types : types[i] = type})
           before(i, type) == \E j \in 1 .. i - 1 : types[j] = type
<1>1. /\ events[n] \in Seq(EventRecords) /\ Len(events[n]) \in Nat /\ DOMAIN events[n] = 1 .. Len(events[n])
      /\ deltas[n] \in Nat
  BY DEF Typed
<1>2. /\ DOMAIN types = 1 .. Len(events[n]) /\ Len(types) = Len(events[n])
      /\ \A i \in 1 .. Len(events[n]) : types[i] = events[n][i].type
  <2>1. DOMAIN types = 1 .. Len(events[n])
    BY <1>1
  <2>2. Len(types) = Len(events[n])
    BY <1>1
  <2> QED
    BY <1>1, <2>1, <2>2
<1> HIDE DEF types
<1>4. /\ gen[n] \in Over /\ Len(events[n]) > 1 =>
           /\ Len(events[n]) # 2 \/ deltas[n] = 0
           /\ Len(events[n]) > deltas[n] + 2 \/ deltas[n] = 0
           /\ Len(events[n]) # deltas[n] + 3 \/ Len(events[n]) # deltas[n] + 4
  BY <1>1 DEF Streams, Stream, Failing, Finishing, Spoken
<1>3. ASSUME NEW i \in 1 .. Len(events[n])
      PROVE  /\ types[i] = "RUN_STARTED" <=> i = 1
             /\ types[i] = "TEXT_MESSAGE_START" <=> i = 2 /\ deltas[n] > 0
             /\ types[i] = "TEXT_MESSAGE_CONTENT" <=> i - 2 \in 1 .. deltas[n]
             /\ types[i] = "TEXT_MESSAGE_END" <=> i = deltas[n] + 3 /\ Len(events[n]) = deltas[n] + 4
             /\ types[i] \in Terminal => i = Len(events[n])
  <2>1. CASE i = 1 /\ events[n][i] = Started(on[n])
    BY <1>1, <1>2, <2>1 DEF Started, Terminal
  <2>2. CASE i = 2 /\ deltas[n] > 0 /\ events[n][i] = Event("TEXT_MESSAGE_START")
    BY <1>1, <1>2, <2>2 DEF Event, Terminal
  <2>3. CASE \E d \in 1 .. deltas[n] : i = d + 2 /\ events[n][i] = Content(d)
    <3>1. i - 2 \in 1 .. deltas[n] /\ i # 1 /\ i # 2 /\ i # deltas[n] + 3
      BY <1>1, <2>3
    <3> QED
      BY <1>1, <1>2, <2>3, <3>1 DEF Content, Terminal
  <2>4. CASE i = Len(events[n]) /\ i > 1 /\ gen[n] \in Over /\ events[n][i] = Event("RUN_ERROR")
    <3>1. types[i] = "RUN_ERROR"
      BY <1>2, <2>4 DEF Event
    <3> QED
      BY <1>1, <1>4, <2>4, <3>1 DEF Terminal
  <2>5. CASE i = deltas[n] + 3 /\ Len(events[n]) = deltas[n] + 4 /\ events[n][i] = Event("TEXT_MESSAGE_END")
    BY <1>1, <1>2, <2>5 DEF Event, Terminal
  <2>6. CASE i = Len(events[n]) /\ i > 1 /\ gen[n] \in Over /\ events[n][i] = Event("RUN_FINISHED")
    <3>1. types[i] = "RUN_FINISHED"
      BY <1>2, <2>6 DEF Event
    <3> QED
      BY <1>1, <1>4, <2>6, <3>1 DEF Terminal
  <2> QED
    BY <2>1, <2>2, <2>3, <2>4, <2>5, <2>6, Wording
<1>5. ASSUME gen[n] \in Over
      PROVE  /\ Len(events[n]) > 0 /\ types[Len(events[n])] \in Terminal
             /\ types[Len(events[n])] = "RUN_FINISHED" => (deltas[n] > 0 <=> Len(events[n]) = deltas[n] + 4)
  <2>1. Failing(n) \/ Finishing(n)
    BY <1>5 DEF Streams, Stream
  <2>2. CASE Failing(n)
    <3>1. Len(events[n]) > 0 /\ events[n][Len(events[n])] = Event("RUN_ERROR")
      BY <1>1, <2>2 DEF Failing, Spoken
    <3> QED
      BY <1>1, <1>2, <3>1 DEF Event, Terminal
  <2>3. CASE Finishing(n)
    <3>1. /\ Len(events[n]) > 0 /\ events[n][Len(events[n])] = Event("RUN_FINISHED")
          /\ deltas[n] > 0 <=> Len(events[n]) = deltas[n] + 4
      <4>1. CASE deltas[n] = 0
        BY <1>1, <2>3, <4>1 DEF Finishing
      <4>2. CASE deltas[n] > 0
        <5>1. Len(events[n]) = deltas[n] + 4 /\ events[n][deltas[n] + 4] = Event("RUN_FINISHED")
          BY <1>1, <2>3, <4>2 DEF Finishing
        <5> QED
          BY <1>1, <4>2, <5>1
      <4> QED
        BY <1>1, <4>1, <4>2
    <3> QED
      BY <1>1, <1>2, <3>1 DEF Event, Terminal
  <2> QED
    BY <2>1, <2>2, <2>3
<1>6. /\ {i \in DOMAIN types : types[i] = "TEXT_MESSAGE_START"}
           = {i \in 1 .. Len(events[n]) : i = 2 /\ deltas[n] > 0}
      /\ {i \in DOMAIN types : types[i] = "TEXT_MESSAGE_END"}
           = {i \in 1 .. Len(events[n]) : i = deltas[n] + 3 /\ Len(events[n]) = deltas[n] + 4}
  BY <1>2, <1>3
<1>7. /\ count("TEXT_MESSAGE_START") = IF deltas[n] > 0 THEN 1 ELSE 0
      /\ count("TEXT_MESSAGE_END") = IF Len(events[n]) = deltas[n] + 4 THEN 1 ELSE 0
  <2>1. deltas[n] > 0 => 2 \in 1 .. Len(events[n])
    <3>1. gen[n] # "none" => Body(n)
      BY DEF Streams, Stream
    <3>2. gen[n] = "none" => deltas[n] = 0
      BY DEF Streams, Stream
    <3> QED
      BY <1>1, <3>1, <3>2 DEF Body, Spoken
  <2>2. {i \in 1 .. Len(events[n]) : i = 2 /\ deltas[n] > 0} = IF deltas[n] > 0 THEN {2} ELSE {}
    BY <1>1, <2>1
  <2>3. {i \in 1 .. Len(events[n]) : i = deltas[n] + 3 /\ Len(events[n]) = deltas[n] + 4}
          = IF Len(events[n]) = deltas[n] + 4 THEN {deltas[n] + 3} ELSE {}
    BY <1>1
  <2>4. Cardinality({}) = 0 /\ Cardinality({2}) = 1 /\ Cardinality({deltas[n] + 3}) = 1
    BY FS_EmptySet, FS_Singleton
  <2>5. count("TEXT_MESSAGE_START") = IF deltas[n] > 0 THEN 1 ELSE 0
    BY <1>6, <2>2, <2>4
  <2>6. count("TEXT_MESSAGE_END") = IF Len(events[n]) = deltas[n] + 4 THEN 1 ELSE 0
    BY <1>6, <2>3, <2>4
  <2> QED
    BY <2>5, <2>6
<1> HIDE DEF count
<1>8. ASSUME NEW i \in 1 .. Len(events[n])
      PROVE  /\ types[i] = "TEXT_MESSAGE_CONTENT" =>
                  before(i, "TEXT_MESSAGE_START") /\ ~ before(i, "TEXT_MESSAGE_END")
             /\ types[i] = "RUN_FINISHED" => count("TEXT_MESSAGE_START") = count("TEXT_MESSAGE_END")
  <2>1. ASSUME types[i] = "TEXT_MESSAGE_CONTENT"
        PROVE  before(i, "TEXT_MESSAGE_START") /\ ~ before(i, "TEXT_MESSAGE_END")
    <3>1. i - 2 \in 1 .. deltas[n]
      BY <1>3, <2>1
    <3>2. 2 \in 1 .. i - 1 /\ 2 \in 1 .. Len(events[n]) /\ deltas[n] > 0
      BY <1>1, <3>1
    <3>3. types[2] = "TEXT_MESSAGE_START"
      BY <1>3, <3>2
    <3>4. ASSUME NEW j \in 1 .. i - 1
          PROVE  types[j] # "TEXT_MESSAGE_END"
      <4>1. j \in 1 .. Len(events[n]) /\ j # deltas[n] + 3
        BY <1>1, <3>1
      <4> QED
        BY <1>3, <4>1
    <3> QED
      BY <3>2, <3>3, <3>4
  <2>2. ASSUME types[i] = "RUN_FINISHED"
        PROVE  count("TEXT_MESSAGE_START") = count("TEXT_MESSAGE_END")
    <3>1. i = Len(events[n])
      BY <1>3, <2>2 DEF Terminal
    <3>2. gen[n] \in Over
      <4>1. events[n][i].type = "RUN_FINISHED"
        BY <1>2, <2>2
      <4> QED
        BY <4>1, Finishes
    <3> QED
      BY <1>5, <1>7, <2>2, <3>1, <3>2
  <2> QED
    BY <2>1, <2>2
<1>9. gen[n] \in Over => types # <<>> /\ Last(types) \in Terminal
  BY <1>2, <1>5 DEF Last
<1>10. count("TEXT_MESSAGE_START") <= 1
  BY <1>7
<1>11. \A i \in DOMAIN types : (types[i] = "RUN_STARTED" <=> i = 1) /\ (types[i] \in Terminal => i = Len(types))
  BY <1>2, <1>3
<1>12. \A i \in DOMAIN types :
             /\ types[i] = "TEXT_MESSAGE_CONTENT" =>
                  before(i, "TEXT_MESSAGE_START") /\ ~ before(i, "TEXT_MESSAGE_END")
             /\ types[i] = "RUN_FINISHED" => count("TEXT_MESSAGE_START") = count("TEXT_MESSAGE_END")
  BY <1>2, <1>8
<1> HIDE DEF before
<1> QED
  BY <1>9, <1>10, <1>11, <1>12, Zenon DEF types, count, before

-----------------------------------------------------------------------------
\* What the caller holds on to while a turn is under way.
LEMMA HoldingStep == Typed /\ Blank /\ Streams /\ Holding /\ [Next]_vars => Holding'
<1> SUFFICES ASSUME Typed, Blank, Streams, Holding, [Next]_vars
             PROVE  Holding'
  OBVIOUS
<1> USE DEF Holding
<1>1. CASE UNCHANGED <<at, threadId, sent, on, turn, kind, end>>
  BY <1>1
<1>2. CASE TakeTurn
  <2>1. turn + 1 \in Turns /\ turn + 1 > turn /\ turn' = turn + 1
    BY <1>2, ConversationConstants DEF ConversationConstants, TakeTurn, Typed, TypeOK, Turns
  <2>2. sent'[turn + 1] = threadId /\ UNCHANGED <<threadId, kind>>
    BY <1>2, <2>1 DEF TakeTurn, Typed, TypeOK
  <2> QED
    BY <1>2, <2>1, <2>2 DEF TakeTurn
<1>3. CASE CreateThread
  <2>1. turn \in Turns
    BY <1>3 DEF CreateThread, Blank
  <2> QED
    BY <1>3, <2>1 DEF CreateThread, Typed, TypeOK, runs
<1>4. CASE CreateRefused
  BY <1>4 DEF CreateRefused, Ends, runs
<1>5. CASE StartRun
  <2>1. turn \in Turns /\ UNCHANGED <<sent, turn, kind>> /\ at' \in {"reading", "idle"}
    BY <1>5 DEF StartRun, Ends, Blank
  <2>2. at' = "reading" => threadId' = IF kind = "sdk" THEN sent[turn] ELSE threadId
    BY <1>5 DEF StartRun, Connected, Ends
  <2>3. kind \in {"sdk", "page"}
    BY ConversationConstants DEF ConversationConstants, Typed, TypeOK
  <2>4. on'[turn] # NoThread
    <3>1. sent[turn] # NoThread /\ Len(threads) + 1 # NoThread
      BY <1>5 DEF StartRun, Typed, TypeOK, NoThread
    <3> QED
      BY <1>5, <2>1, <3>1 DEF StartRun, Typed, TypeOK
  <2>5. at' = "reading" => end'[turn] = "none"
    BY <1>5, <2>1 DEF StartRun, Ends, Blank
  <2> QED
    BY <1>5, <2>1, <2>2, <2>3, <2>4, <2>5 DEF StartRun
<1>6. CASE \/ ReportActive \/ RunRefused \/ RequestFails \/ StreamEnds \/ BreaksOff
           \/ \E sameDatabase \in BOOLEAN : Restart(sameDatabase)
  <2>1. at' = "idle"
    BY <1>6 DEF ReportActive, RunRefused, RequestFails, StreamEnds, BreaksOff, AnsweredWithJson, Restart, Ends
  <2> QED
    BY <2>1
<1>7. CASE ReadEvent
  BY <1>7, Reading DEF ReadEvent, runs
<1>8. CASE \/ Resolve \/ UNCHANGED vars
           \/ \E n \in Turns :
                Delta(n) \/ EndpointEnds(n) \/ EndpointReports(n) \/ EndpointFails(n) \/ Sweep(n)
           \/ \E key \in Providers : Register(key)
           \/ \E row \in Listable : Serve(row)
           \/ \E key \in Providers, lost \in SUBSET Turns : Detach(key, lost)
  BY <1>1, <1>8
  DEF Resolve, Delta, EndpointEnds, EndpointReports, EndpointFails, Sweep, Yields, Records, Register, Serve,
      Detach, souk, caller, runs, vars
<1> QED
  BY <1>2, <1>3, <1>4, <1>5, <1>6, <1>7, <1>8 DEF Next

\* A run that is reliable after a step was so before, if the step left it alone.
LEMMA ReliableBefore ==
  ASSUME Typed, [Next]_vars, NEW j \in Turns, Reliable(j)',
         on'[j] = on[j], seen'[j] = seen[j], end'[j] = end[j], sent'[j] = sent[j]
  PROVE  Reliable(j)
<1>1. PICK t \in 1 .. Len(threads) : t = on[j]
  BY DEF Typed, TypeOK, Reliable, NoThread
<1>2. Known(t)'
  BY <1>1 DEF Reliable, Known
<1>3. Known(t)
  BY <1>1, <1>2, ThreadsGrow DEF Typed, vars, souk, Known
<1> QED
  BY <1>1, <1>3 DEF Reliable, Told

\* Whatever is told of other turns, the conversation stays together.
LEMMA FollowsStep == Typed /\ Blank /\ Streams /\ Holding /\ Follows /\ [Next]_vars => Follows'
<1> SUFFICES ASSUME Typed, Blank, Streams, Holding, Follows, [Next]_vars,
                    NEW j \in Turns, Reliable(j)'
             PROVE  /\ threadId' = on'[j]
                    /\ \A k \in Turns : j < k /\ k <= turn' => sent'[k] = on'[j] /\ on'[k] \in {NoThread, on'[j]}
  BY DEF Follows
<1>0. /\ turn \in 0 .. MaxTurns /\ Turns = 1 .. MaxTurns /\ MaxTurns \in Nat
      /\ on \in [Turns -> 0 .. Len(threads)] /\ sent \in [Turns -> 0 .. Len(threads)]
      /\ seen \in [Turns -> Nat] /\ DOMAIN end = Turns
  BY ConversationConstants DEF ConversationConstants, Typed, TypeOK, Turns
\* Nothing happens to the thread the caller holds or to the turns it took.
<1>1. ASSUME Reliable(j), UNCHANGED <<threadId, turn, sent, on>>
      PROVE  /\ threadId' = on'[j]
             /\ \A k \in Turns : j < k /\ k <= turn' => sent'[k] = on'[j] /\ on'[k] \in {NoThread, on'[j]}
  BY <1>1 DEF Follows
\* What the caller was reading is over for it.
<1>2. ASSUME at # "idle", UNCHANGED <<threadId, turn, sent, on, seen>>,
             \A n \in Turns : n # turn => end'[n] = end[n]
      PROVE  /\ threadId' = on'[j]
             /\ \A k \in Turns : j < k /\ k <= turn' => sent'[k] = on'[j] /\ on'[k] \in {NoThread, on'[j]}
  <2>1. CASE j # turn
    BY <1>1, <1>2, <2>1, ReliableBefore
  <2>2. CASE j = turn
    <3>1. on[turn] # NoThread /\ on[turn] = on'[j]
      BY <1>2, <2>2 DEF Reliable
    <3>2. at = "reading"
      BY <1>0, <1>2, <2>2, <3>1 DEF Blank, Typed, TypeOK
    <3>3. CASE seen[j] > 0
      <4>1. Told(j)
        BY <3>3 DEF Told
      <4>2. PICK t \in 1 .. Len(threads) : t = on[j]
        BY <2>2, <3>1 DEF Typed, TypeOK, NoThread
      <4>3. Known(t)'
        BY <2>2, <3>1, <4>2 DEF Reliable, Known
      <4>4. Known(t)
        BY <4>2, <4>3, ThreadsGrow DEF Typed, vars, souk, Known
      <4>5. Reliable(j)
        BY <2>2, <3>1, <4>1, <4>2, <4>4 DEF Reliable
      <4> QED
        BY <1>1, <1>2, <4>5
    <3>4. CASE ~ seen[j] > 0
      <4>1. on[j] = sent[j]
        BY <1>2, <3>4 DEF Reliable, Told
      <4>2. threadId = on[j]
        BY <2>2, <3>2, <4>1 DEF Holding
      <4> QED
        BY <1>0, <1>2, <2>2, <4>2
    <3> QED
      BY <3>3, <3>4
  <2> QED
    BY <2>1, <2>2
\* The answer to a turn whose run was not started says no new thread.
<1>3. ASSUME at \in {"creating", "posting"}, UNCHANGED <<turn, sent, on, seen>>,
             threadId' \in {threadId, sent[turn]},
             \A n \in Turns : n # turn => end'[n] = end[n]
      PROVE  /\ threadId' = on'[j]
             /\ \A k \in Turns : j < k /\ k <= turn' => sent'[k] = on'[j] /\ on'[k] \in {NoThread, on'[j]}
  <2>1. turn \in Turns /\ on[turn] = NoThread
    BY <1>3 DEF Blank
  <2>2. j # turn
    BY <1>3, <2>1 DEF Reliable
  <2>3. Reliable(j)
    BY <1>3, <2>2, ReliableBefore
  <2>4. j < turn
    BY <1>0, <2>2, <2>3 DEF Blank, Reliable
  <2>5. sent[turn] = on[j] /\ threadId = on[j]
    BY <1>0, <2>1, <2>3, <2>4 DEF Follows
  <2> QED
    BY <1>3, <2>3, <2>5 DEF Follows
<1>4. CASE TakeTurn
  <2>1. /\ turn + 1 \in Turns /\ turn' = turn + 1 /\ on[turn + 1] = NoThread /\ sent'[turn + 1] = threadId
        /\ UNCHANGED <<threadId, on, seen, end>>
        /\ \A n \in Turns : n # turn + 1 => sent'[n] = sent[n]
    BY <1>0, <1>4 DEF TakeTurn, runs, Blank
  <2>2. j # turn + 1
    BY <2>1 DEF Reliable
  <2>3. Reliable(j)
    BY <2>1, <2>2, ReliableBefore
  <2>4. ASSUME NEW k \in Turns, j < k, k <= turn'
        PROVE  sent'[k] = on'[j] /\ on'[k] \in {NoThread, on'[j]}
    <3>1. CASE k = turn + 1
      BY <2>1, <2>3, <3>1 DEF Follows
    <3>2. CASE k # turn + 1
      <4>1. k <= turn
        BY <1>0, <2>1, <2>4, <3>2
      <4> QED
        BY <2>1, <2>3, <2>4, <3>2, <4>1 DEF Follows
    <3> QED
      BY <3>1, <3>2
  <2> QED
    BY <2>1, <2>3, <2>4 DEF Follows
<1>5. CASE CreateThread
  <2>1. /\ turn \in Turns /\ on[turn] = NoThread /\ threadId = NoThread
        /\ UNCHANGED <<turn, on, seen, end>>
        /\ \A n \in Turns : n # turn => sent'[n] = sent[n]
    BY <1>0, <1>5 DEF CreateThread, Blank, Holding, runs
  <2>2. j # turn
    BY <2>1 DEF Reliable
  <2>3. Reliable(j)
    BY <2>1, <2>2, ReliableBefore
  <2>4. threadId = on[j] /\ on[j] # NoThread
    BY <2>3 DEF Follows, Reliable
  <2> QED
    BY <2>1, <2>4
<1>6. CASE StartRun
  <2> DEFINE t == IF Known(sent[turn]) THEN sent[turn] ELSE Len(threads) + 1
  <2>1. /\ turn \in Turns /\ seen[turn] = 0 /\ end[turn] = "none"
        /\ on'[turn] = t
        /\ UNCHANGED <<turn, sent, seen>>
        /\ threadId' \in {threadId, sent[turn]}
        /\ end'[turn] \in {"none", "lost"}
        /\ \A n \in Turns : n # turn => on'[n] = on[n] /\ end'[n] = end[n]
    BY <1>0, <1>6 DEF StartRun, Blank, Connected, Ends
  <2>2. j # turn
    BY <2>1 DEF Reliable, Told
  <2>3. Reliable(j)
    BY <2>1, <2>2, ReliableBefore
  <2>4. j < turn
    BY <1>0, <2>2, <2>3 DEF Blank, Reliable
  <2>5. sent[turn] = on[j] /\ threadId = on[j] /\ Known(on[j])
    BY <1>0, <2>1, <2>3, <2>4 DEF Follows, Reliable
  <2>6. t = on[j]
    BY <2>5
  <2> HIDE DEF t
  <2> QED
    BY <2>1, <2>2, <2>3, <2>5, <2>6 DEF Follows
<1>7. CASE ReadEvent
  <2>1. /\ turn \in Turns /\ threadId' \in {threadId, on[turn]}
        /\ seen[turn] = 0 => threadId' = on[turn]
    BY <1>7, Reading
  <2>2. on[turn] # NoThread
    <3>1. events[turn] # <<>>
      BY <1>0, <1>7, <2>1 DEF ReadEvent
    <3> QED
      BY <2>1, <3>1 DEF Streams, Stream
  <2>3. /\ UNCHANGED <<turn, sent, on, end>>
        /\ \A n \in Turns : n # turn => seen'[n] = seen[n]
    BY <1>0, <1>7 DEF ReadEvent, runs
  <2>4. CASE j = turn
    <3>1. threadId' = on[j]
      <4>1. CASE seen[turn] = 0
        BY <2>1, <2>4, <4>1
      <4>2. CASE seen[turn] > 0
        <5>1. PICK s \in 1 .. Len(threads) : s = on[j]
          BY <2>2, <2>4 DEF Typed, TypeOK, NoThread
        <5>2. Known(s)'
          BY <2>3, <5>1 DEF Reliable, Known
        <5>3. Known(s)
          BY <5>1, <5>2, ThreadsGrow DEF Typed, vars, souk, Known
        <5>4. Reliable(j)
          BY <2>2, <2>4, <4>2, <5>1, <5>3 DEF Reliable, Told
        <5> QED
          BY <2>1, <2>4, <5>4 DEF Follows
      <4> QED
        BY <1>0, <2>1, <4>1, <4>2
    <3> QED
      BY <1>0, <2>3, <2>4, <3>1
  <2>5. CASE j # turn
    <3>1. Reliable(j)
      BY <2>3, <2>5, ReliableBefore
    <3>2. j < turn
      BY <1>0, <2>5, <3>1 DEF Blank, Reliable
    <3>3. on[turn] = on[j] /\ threadId = on[j]
      BY <1>0, <2>1, <2>2, <3>1, <3>2 DEF Follows
    <3> QED
      BY <2>1, <2>3, <3>1, <3>3 DEF Follows
  <2> QED
    BY <2>4, <2>5
<1>8. CASE CreateRefused \/ ReportActive \/ RunRefused \/ RequestFails
  <2>1. /\ at \in {"creating", "posting"} /\ UNCHANGED <<turn, sent, on, seen>>
        /\ threadId' \in {threadId, sent[turn]}
        /\ \A n \in Turns : n # turn => end'[n] = end[n]
    BY <1>0, <1>8 DEF CreateRefused, ReportActive, RunRefused, RequestFails, AnsweredWithJson, Ends, Connected,
                      runs
  <2> QED
    BY <1>3, <2>1
<1>9. CASE \/ StreamEnds \/ BreaksOff
           \/ at # "idle" /\ \E sameDatabase \in BOOLEAN : Restart(sameDatabase)
  <2>1. /\ at # "idle" /\ UNCHANGED <<threadId, turn, sent, on, seen>>
        /\ \A n \in Turns : n # turn => end'[n] = end[n]
    BY <1>0, <1>9 DEF StreamEnds, BreaksOff, Restart, Ends, runs
  <2> QED
    BY <1>2, <2>1
<1>10. CASE \/ Resolve \/ UNCHANGED vars
            \/ \E n \in Turns :
                 Delta(n) \/ EndpointEnds(n) \/ EndpointReports(n) \/ EndpointFails(n) \/ Sweep(n)
            \/ \E key \in Providers : Register(key)
            \/ \E row \in Listable : Serve(row)
            \/ \E key \in Providers, lost \in SUBSET Turns : Detach(key, lost)
            \/ at = "idle" /\ \E sameDatabase \in BOOLEAN : Restart(sameDatabase)
  <2>1. UNCHANGED <<threadId, turn, sent, on, seen, end>>
    BY <1>10
    DEF Resolve, Delta, EndpointEnds, EndpointReports, EndpointFails, Sweep, Yields, Records, Register, Serve,
        Detach, Restart, souk, caller, runs, vars
  <2>2. Reliable(j)
    BY <2>1, ReliableBefore
  <2> QED
    BY <1>1, <2>1, <2>2
<1> QED
  BY <1>4, <1>5, <1>6, <1>7, <1>8, <1>9, <1>10 DEF Next

-----------------------------------------------------------------------------
\* In the beginning there is nothing to follow.
LEMMA ThreadInit == Init => ThreadInv
<1> SUFFICES ASSUME Init PROVE ThreadInv
  OBVIOUS
<1>1. Typed /\ Blank
  BY TypeInit
<1>2. Streams
  BY DEF Init, Streams, Stream, Over
<1>3. Holding
  BY DEF Init, Holding
<1>4. Follows
  BY DEF Init, Follows, Reliable
<1> QED
  BY <1>1, <1>2, <1>3, <1>4 DEF ThreadInv

\* All of it is kept by every step.
LEMMA ThreadStep == ThreadInv /\ [Next]_vars => ThreadInv'
  BY TypeStep, BlankStep, StreamsStep, HoldingStep, FollowsStep DEF ThreadInv

\* Every variable keeps its type.
THEOREM TypeCorrect == Spec => []TypeOK
<1>1. ThreadInv => TypeOK
  BY DEF ThreadInv, Typed
<1> QED
  BY <1>1, ThreadInit, ThreadStep, PTL DEF Spec

\* Whatever the endpoint of the openai-compat provider does, run_stream yields
\* a stream a caller can follow.
THEOREM AlwaysWellFormed == Spec => []StreamIsWellFormed
<1>1. ThreadInv => StreamIsWellFormed
  BY FormIsWellFormed DEF ThreadInv
<1> QED
  BY <1>1, ThreadInit, ThreadStep, PTL DEF Spec

\* A caller that is told the thread of a run takes every later turn on it, for
\* as long as souk has that thread.
THEOREM TurnsAlwaysTogether == Spec => []TurnsStayTogether
<1>1. ThreadInv => TurnsStayTogether
  <2> SUFFICES ASSUME ThreadInv, NEW j \in Turns, NEW k \in Turns,
                      j < k, on[j] # NoThread, on[k] # NoThread, Told(j), Known(on[j])
               PROVE  on[k] = on[j]
    BY DEF TurnsStayTogether
  <2>1. k <= turn
    BY ConversationConstants DEF ConversationConstants, ThreadInv, Typed, TypeOK, Blank, Turns
  <2> QED
    BY <2>1 DEF ThreadInv, Follows, Reliable
<1> QED
  BY <1>1, ThreadInit, ThreadStep, PTL DEF Spec

-----------------------------------------------------------------------------
\* Core tells a key from a fingerprint by its length, so no provider's key is
\* the fingerprint of one.
KeysAreNoFingerprints ==
  \A one \in Providers, other \in Providers : Fingerprint[one] # other

\* The rows providers list, no two keys among them with one fingerprint.
Listing(rows) ==
  /\ rows \subseteq [key : Providers, name : DOMAIN Says]
  /\ \A a \in rows, b \in rows : Fingerprint[a.key] = Fingerprint[b.key] => a.key = b.key

\* A provider that is said means one row of a name at most.
LEMMA SaidMeansOne ==
  ASSUME KeysAreNoFingerprints, NEW rows, Listing(rows), NEW said,
         NEW a \in rows, NEW b \in rows, a.name = b.name, Means(said, a), Means(said, b)
  PROVE  a = b
<1>1. a \in [key : Providers, name : DOMAIN Says] /\ b \in [key : Providers, name : DOMAIN Says]
  BY DEF Listing
<1>2. a.key = b.key
  BY <1>1 DEF Listing, Means, KeysAreNoFingerprints
<1> QED
  BY <1>1, <1>2

\* With at most one to choose from, the first that fits is the only one.
LEMMA OneToChoose ==
  ASSUME NEW found, \A a \in found, b \in found : a = b
  PROVE  /\ OnlyOf(found) = AnyOf(found)
         /\ \A a \in found : AnyOf(found) = a
<1>1. CASE found = {}
  BY <1>1, FS_EmptySet DEF OnlyOf, AnyOf
<1>2. CASE found # {}
  <2>1. PICK a : a \in found
    BY <1>2
  <2>2. found = {a}
    BY <2>1
  <2>3. Cardinality(found) = 1
    BY <2>2, FS_Singleton
  <2> QED
    BY <2>2, <2>3 DEF OnlyOf, AnyOf
<1> QED
  BY <1>1, <1>2

\* The path of a row leads to it.
LEMMA PathLeadsBack ==
  ASSUME KeysAreNoFingerprints, NEW rows, Listing(rows), NEW row \in rows
  PROVE  ResolveRef(rows, Path(row).provider, Path(row).name) = row
<1> DEFINE found == {other \in rows : other.name = row.name /\ Means(Fingerprint[row.key], other)}
<1>1. Means(Fingerprint[row.key], row)
  BY DEF Means
<1>2. row \in found /\ \A a \in found, b \in found : a = b
  BY <1>1, SaidMeansOne
<1>3. AnyOf(found) = row
  <2> HIDE DEF found
  <2> QED
    BY <1>2, OneToChoose
<1> QED
  BY <1>3 DEF ResolveRef, Path

\* All the lookups agree on such a roster.
LEMMA Agreement ==
  ASSUME KeysAreNoFingerprints, NEW rows, Listing(rows), NEW names
  PROVE  Agree(rows, names)
<1> SUFFICES ASSUME NEW name \in names, NEW said \in Sayings
             PROVE  LET row == ResolveAddress(rows, name, said)
                    IN  /\ ClientResolve(rows, name, said) = row
                        /\ CardOf(rows, name, said) = row
                        /\ DescribeAgentTool(rows, name, said) = row
                        /\ said # Unsaid => AgentResource(rows, said, name) = row
                        /\ row \in rows => ResolveRef(rows, Path(row).provider, Path(row).name) = row
  BY DEF Agree
<1> DEFINE row == ResolveAddress(rows, name, said)
<1>1. ClientResolve(rows, name, said) = row
  <2>1. {r \in rows : r.name = name /\ said \in {Unsaid, Fingerprint[r.key], r.key}} = Candidates(rows, name, said)
    BY DEF Candidates, Means
  <2> QED
    BY <2>1 DEF ClientResolve, ResolveAddress
<1>2. CardOf(rows, name, said) = row
  <2>1. {r \in rows : r.name = name /\ said \in {Unsaid, r.key, Fingerprint[r.key]}} = Candidates(rows, name, said)
    BY DEF Candidates, Means
  <2> QED
    BY <2>1 DEF CardOf, ResolveAddress
<1>3. CASE said = Unsaid
  <2>1. {r \in rows : r.name = name} = Candidates(rows, name, said)
    BY <1>3 DEF Candidates
  <2>2. DescribeAgentTool(rows, name, said) = row
    BY <1>3, <2>1 DEF DescribeAgentTool, ResolveAddress
  <2> QED
    BY <1>1, <1>2, <1>3, <2>2, PathLeadsBack
<1>4. CASE said # Unsaid
  <2> DEFINE found == {r \in rows : r.name = name /\ Means(said, r)}
  <2>1. found = Candidates(rows, name, said)
    BY <1>4 DEF Candidates
  <2>2. \A a \in found, b \in found : a = b
    BY SaidMeansOne
  <2>3. OnlyOf(found) = AnyOf(found)
    <3> HIDE DEF found
    <3> QED
      BY <2>2, OneToChoose
  <2>4. DescribeAgentTool(rows, name, said) = row /\ AgentResource(rows, said, name) = row
    BY <1>4, <2>1, <2>3 DEF DescribeAgentTool, AgentResource, ResolveAddress
  <2> QED
    BY <1>1, <1>2, <2>4, PathLeadsBack
<1> QED
  BY <1>3, <1>4

\* What core checks of a batch keeps fingerprints apart.
LEMMA ListingStep == ThreadInv /\ Listing(roster) /\ [Next]_vars => Listing(roster)'
<1> SUFFICES ASSUME ThreadInv, Listing(roster), [Next]_vars
             PROVE  Listing(roster)'
  OBVIOUS
<1>1. CASE UNCHANGED roster
  BY <1>1 DEF Listing
<1>2. ASSUME NEW key \in Providers, Register(key)
      PROVE  Listing(roster)'
  <2> DEFINE batch == {row \in Listable : row.key = key}
  <2>1. roster' = roster \cup batch /\ \A row \in batch : MayList(roster, row)
    BY <1>2 DEF Register
  <2>2. batch \subseteq [key : Providers, name : DOMAIN Says]
    BY ConversationConstants DEF ConversationConstants
  <2>3. ASSUME NEW a \in roster', NEW b \in roster', Fingerprint[a.key] = Fingerprint[b.key]
        PROVE  a.key = b.key
    <3>1. CASE a \in roster /\ b \in roster
      BY <2>3, <3>1 DEF Listing
    <3>2. CASE a \in batch /\ b \in batch
      BY <3>2
    <3>3. CASE a \in batch /\ b \in roster
      BY <2>1, <2>3, <3>3 DEF MayList
    <3>4. CASE a \in roster /\ b \in batch
      BY <2>1, <2>3, <3>4 DEF MayList
    <3> QED
      BY <2>1, <3>1, <3>2, <3>3, <3>4
  <2> HIDE DEF batch
  <2> QED
    BY <2>1, <2>2, <2>3 DEF Listing
<1>3. ASSUME NEW sameDatabase \in BOOLEAN, Restart(sameDatabase)
      PROVE  Listing(roster)'
  <2>1. roster' = roster \/ roster' = {}
    BY <1>3 DEF Restart
  <2> QED
    BY <1>1, <2>1 DEF Listing
<1>4. CASE UNCHANGED vars
  BY <1>1, <1>4 DEF vars, souk
<1> QED
  BY <1>1, <1>2, <1>3, <1>4
  DEF Next, Resolve, TakeTurn, CreateThread, CreateRefused, StartRun, ReportActive, RunRefused, RequestFails,
      ReadEvent, StreamEnds, BreaksOff, Delta, EndpointEnds, EndpointReports, EndpointFails, Yields,
      Records, Serve, Detach, Sweep, souk

\* Nobody picks a winner: as long as no key is a fingerprint, all who look an
\* agent up on the roster come to the same one or to the same refusal.
THEOREM ResolversAlwaysAgree ==
  ASSUME KeysAreNoFingerprints
  PROVE  Spec => []ResolversAgree
<1>1. Listing(roster) => ResolversAgree
  BY Agreement DEF ResolversAgree
<1>2. Init => Listing(roster)
  BY DEF Init, Listing
<1>3. ThreadInv /\ Listing(roster) /\ [Next]_vars => Listing(roster)'
  BY ListingStep
<1> QED
  BY <1>1, <1>2, <1>3, ThreadInit, ThreadStep, PTL DEF Spec

-----------------------------------------------------------------------------
\* A function that tells the elements of a finite set apart counts them.
LEMMA Counted ==
  ASSUME NEW S, IsFiniteSet(S), NEW T, NEW f \in [S -> T],
         \A t \in T : \E s \in S : f[s] = t,
         \A a \in S, b \in S : f[a] = f[b] => a = b
  PROVE  Cardinality(T) = Cardinality(S)
<1>1. f \in Surjection(S, T)
  BY DEF Surjection
<1>2. IsFiniteSet(T) /\ Cardinality(T) <= Cardinality(S)
  BY <1>1, FS_Surjection
<1>3. Cardinality(S) \in Nat /\ Cardinality(T) \in Nat
  BY <1>2, FS_CardinalityType
<1>4. ~ Cardinality(T) < Cardinality(S)
  <2> SUFFICES ASSUME Cardinality(T) < Cardinality(S)
               PROVE  FALSE
    OBVIOUS
  <2>1. \E a, b \in S : a # b /\ f[a] = f[b]
    BY <1>2, FS_PigeonHole
  <2> QED
    BY <2>1
<1> QED
  BY <1>2, <1>3, <1>4

\* The stall a row stands at.
StallOf(rows, row) == {other \in rows : SameStall(row, other)}

\* The market has the stall of every row, under its key.
LEMMA StallsOfMarket ==
  ASSUME NEW rows, NEW online
  PROVE  BrowseSouk(rows, online, FALSE).providers
           = {DescribeStall(row.key, StallOf(rows, row), online) : row \in rows}
<1> DEFINE stalls == {{other \in rows : SameStall(row, other)} : row \in rows}
<1>1. \A row \in rows : AnyOf(StallOf(rows, row)).key = row.key
  <2> SUFFICES ASSUME NEW row \in rows
               PROVE  AnyOf(StallOf(rows, row)).key = row.key
    OBVIOUS
  <2>1. row \in StallOf(rows, row)
    BY DEF StallOf, SameStall
  <2>2. AnyOf(StallOf(rows, row)) \in StallOf(rows, row)
    BY <2>1 DEF AnyOf
  <2> QED
    BY <2>2 DEF StallOf, SameStall
<1>2. stalls = {StallOf(rows, row) : row \in rows}
  BY DEF StallOf
<1>3. BrowseSouk(rows, online, FALSE).providers
        = {DescribeStall(AnyOf(stall).key, stall, online) : stall \in stalls}
  BY DEF BrowseSouk, DescribeMarket
<1> HIDE DEF stalls
<1>4. {DescribeStall(AnyOf(stall).key, stall, online) : stall \in stalls}
        = {DescribeStall(row.key, StallOf(rows, row), online) : row \in rows}
  BY <1>1, <1>2
<1> QED
  BY <1>3, <1>4

\* What the docent says of a stall.
LEMMA StallSays ==
  ASSUME NEW rows, NEW online, NEW row
  PROVE  /\ DescribeStall(row.key, StallOf(rows, row), online).provider_key = row.key
         /\ DescribeStall(row.key, StallOf(rows, row), online).agents
              = {Describe(other, online) : other \in StallOf(rows, row)}
  BY DEF DescribeStall

\* Every row stands at one stall, its keeper's.
LEMMA OneStallEach ==
  ASSUME NEW rows, NEW online, NEW row \in rows
  PROVE  {stall.provider_key :
            stall \in {s \in BrowseSouk(rows, online, FALSE).providers : \E a \in s.agents : a.agent = row}}
           = {row.key}
<1> DEFINE stands(s) == \E a \in s.agents : a.agent = row
           stallOf(r) == DescribeStall(r.key, StallOf(rows, r), online)
<1>1. \A r \in rows : stands(stallOf(r)) <=> r.key = row.key
  <2> SUFFICES ASSUME NEW r \in rows
               PROVE  stands(stallOf(r)) <=> r.key = row.key
    OBVIOUS
  <2>1. stallOf(r).agents = {Describe(other, online) : other \in StallOf(rows, r)}
    BY StallSays
  <2>2. \A other : Describe(other, online).agent = other
    BY DEF Describe
  <2>3. stands(stallOf(r)) <=> row \in StallOf(rows, r)
    BY <2>1, <2>2
  <2> QED
    BY <2>3 DEF StallOf, SameStall
<1>2. \A r \in rows : stallOf(r).provider_key = r.key
  BY StallSays
<1>3. BrowseSouk(rows, online, FALSE).providers = {stallOf(r) : r \in rows}
  BY StallsOfMarket
<1> HIDE DEF stands, stallOf
<1>4. {stall.provider_key : stall \in {s \in {stallOf(r) : r \in rows} : stands(s)}} = {row.key}
  BY <1>1, <1>2
<1> QED
  BY <1>3, <1>4 DEF stands

\* Asking for a stall by its key shows the stall of the market, and the
\* directions given there lead to each of its agents.
LEMMA StallIsTheSame ==
  ASSUME KeysAreNoFingerprints, NEW rows, Listing(rows), NEW online,
         NEW stall \in BrowseSouk(rows, online, FALSE).providers
  PROVE  /\ DescribeStallTool(rows, online, stall.provider_key) = {stall}
         /\ \A a \in stall.agents : ResolveRef(rows, a.endpoint.provider, a.endpoint.name) = a.agent
<1>1. PICK row \in rows : stall = DescribeStall(row.key, StallOf(rows, row), online)
  <2>1. BrowseSouk(rows, online, FALSE).providers
          = {DescribeStall(row.key, StallOf(rows, row), online) : row \in rows}
    BY StallsOfMarket
  <2> QED
    BY <2>1
<1>2. stall.provider_key = row.key /\ stall.agents = {Describe(other, online) : other \in StallOf(rows, row)}
  BY <1>1, StallSays
<1>3. DescribeStallTool(rows, online, row.key) = {stall}
  <2>1. {other \in rows : other.key = row.key} = StallOf(rows, row)
    BY DEF StallOf, SameStall
  <2>2. StallOf(rows, row) # {}
    BY DEF StallOf, SameStall
  <2> QED
    BY <1>1, <2>1, <2>2 DEF DescribeStallTool
<1>4. ASSUME NEW a \in stall.agents
      PROVE  ResolveRef(rows, a.endpoint.provider, a.endpoint.name) = a.agent
  <2>1. PICK other \in rows : a = Describe(other, online)
    BY <1>2 DEF StallOf
  <2>2. a.agent = other /\ a.endpoint = Path(other)
    BY <2>1 DEF Describe
  <2> QED
    BY <2>2, PathLeadsBack
<1> QED
  BY <1>2, <1>3, <1>4

\* All the stalls together show the agents of the roster.
LEMMA StallsShowAll ==
  ASSUME NEW rows, NEW online
  PROVE  UNION {stall.agents : stall \in BrowseSouk(rows, online, FALSE).providers}
           = RosterResource(rows, online).agents
<1> DEFINE stallOf(r) == DescribeStall(r.key, StallOf(rows, r), online)
<1>1. \A r \in rows : stallOf(r).agents = {Describe(other, online) : other \in StallOf(rows, r)}
  BY StallSays
<1>2. BrowseSouk(rows, online, FALSE).providers = {stallOf(r) : r \in rows}
  BY StallsOfMarket
<1>3. RosterResource(rows, online).agents = {Describe(row, online) : row \in rows}
  BY DEF RosterResource
<1>4. \A r \in rows : r \in StallOf(rows, r) /\ StallOf(rows, r) \subseteq rows
  BY DEF StallOf, SameStall
<1> HIDE DEF stallOf
<1>5. UNION {stall.agents : stall \in {stallOf(r) : r \in rows}} = {Describe(row, online) : row \in rows}
  BY <1>1, <1>4
<1> QED
  BY <1>2, <1>3, <1>5

\* The provider's tools list one line for each agent, and as many of them as
\* the docent counts are online.
LEMMA ToolsCount ==
  ASSUME NEW rows, IsFiniteSet(rows), Listing(rows), NEW online
  PROVE  LET agents == ListAgents(rows, online)
         IN  /\ Cardinality(agents) = Cardinality(rows)
             /\ Cardinality({a \in agents : a.online}) = Cardinality(rows \cap online)
             /\ Cardinality(ListSoukAgents(agents, TRUE)) = Cardinality(rows)
             /\ Cardinality(ListSoukAgents(agents, FALSE)) = Cardinality(rows \cap online)
<1> DEFINE agents == ListAgents(rows, online)
           line(r) == [name |-> r.name, provider |-> Fingerprint[r.key], online |-> r \in online]
<1>1. /\ agents = {RosterEntry(r, online) : r \in rows}
      /\ {a \in agents : a.online} = {RosterEntry(r, online) : r \in rows \cap online}
  <2>1. agents = {RosterEntry(r, online) : r \in rows}
    BY DEF ListAgents
  <2>2. \A r : RosterEntry(r, online).online <=> r \in online
    BY DEF RosterEntry
  <2> QED
    BY <2>1, <2>2
<1>2. /\ ListSoukAgents(agents, TRUE) = {line(r) : r \in rows}
      /\ ListSoukAgents(agents, FALSE) = {line(r) : r \in rows \cap online}
  <2>1. \A r : /\ RosterEntry(r, online).name = r.name
               /\ RosterEntry(r, online).fingerprint = Fingerprint[r.key]
               /\ RosterEntry(r, online).online = (r \in online)
    BY DEF RosterEntry
  <2> DEFINE shown(a) == [name |-> a.name, provider |-> a.fingerprint, online |-> a.online]
  <2>2. \A r : shown(RosterEntry(r, online)) = line(r)
    BY <2>1
  <2>3. {b \in agents : TRUE \/ b.online} = agents /\ {b \in agents : FALSE \/ b.online} = {a \in agents : a.online}
    OBVIOUS
  <2> HIDE DEF agents, line
  <2>4. /\ ListSoukAgents(agents, TRUE) = {shown(a) : a \in agents}
        /\ ListSoukAgents(agents, FALSE) = {shown(a) : a \in {b \in agents : b.online}}
    BY <2>3 DEF ListSoukAgents
  <2> HIDE DEF shown
  <2>5. ASSUME NEW some
        PROVE  {shown(a) : a \in {RosterEntry(r, online) : r \in some}} = {line(r) : r \in some}
    BY <2>2
  <2>6. {shown(a) : a \in agents} = {line(r) : r \in rows}
    BY <1>1, <2>5
  <2>7. {shown(a) : a \in {b \in agents : b.online}} = {line(r) : r \in rows \cap online}
    BY <1>1, <2>5
  <2> QED
    BY <2>4, <2>6, <2>7
<1>3. ASSUME NEW some \in SUBSET rows
      PROVE  /\ Cardinality({RosterEntry(r, online) : r \in some}) = Cardinality(some)
             /\ Cardinality({line(r) : r \in some}) = Cardinality(some)
  <2>1. IsFiniteSet(some) /\ some \subseteq [key : Providers, name : DOMAIN Says]
    BY FS_Subset DEF Listing
  <2>2. Cardinality({RosterEntry(r, online) : r \in some}) = Cardinality(some)
    <3> DEFINE T == {RosterEntry(r, online) : r \in some}
               f == [r \in some |-> RosterEntry(r, online)]
    <3>1. f \in [some -> T] /\ \A t \in T : \E r \in some : f[r] = t
      OBVIOUS
    <3>2. \A a \in some, b \in some : f[a] = f[b] => a = b
      BY <2>1 DEF RosterEntry
    <3> HIDE DEF T, f
    <3>3. Cardinality(T) = Cardinality(some)
      BY <2>1, <3>1, <3>2, Counted
    <3> QED
      BY <3>3 DEF T
  <2>3. Cardinality({line(r) : r \in some}) = Cardinality(some)
    <3> DEFINE T == {line(r) : r \in some}
               f == [r \in some |-> line(r)]
    <3>1. f \in [some -> T] /\ \A t \in T : \E r \in some : f[r] = t
      OBVIOUS
    <3>2. ASSUME NEW a \in some, NEW b \in some, f[a] = f[b]
          PROVE  a = b
      <4>1. a.name = b.name /\ Fingerprint[a.key] = Fingerprint[b.key]
        BY <3>2
      <4>2. a.key = b.key
        BY <4>1 DEF Listing
      <4> QED
        BY <2>1, <4>1, <4>2
    <3> HIDE DEF T, f
    <3>3. Cardinality(T) = Cardinality(some)
      BY <2>1, <3>1, <3>2, Counted
    <3> QED
      BY <3>3 DEF T
  <2> QED
    BY <2>2, <2>3
<1>4. rows \in SUBSET rows /\ rows \cap online \in SUBSET rows
  OBVIOUS
<1> HIDE DEF line
<1> QED
  BY <1>1, <1>2, <1>3, <1>4

\* The views of such a roster add up.
LEMMA ViewsAddUp ==
  ASSUME KeysAreNoFingerprints, NEW rows, IsFiniteSet(rows), Listing(rows), NEW online
  PROVE  AddsUp(rows, online)
<1> DEFINE market == BrowseSouk(rows, online, FALSE)
           open   == BrowseSouk(rows, online, TRUE)
           agents == ListAgents(rows, online)
           stats  == SoukStats(agents)
           named  == [all \in BOOLEAN |-> Cardinality(ListSoukAgents(agents, all))]
<1>1. \A row \in rows :
        {stall.provider_key : stall \in {s \in market.providers : \E a \in s.agents : a.agent = row}} = {row.key}
  BY OneStallEach
<1>2. \A stall \in market.providers :
        /\ DescribeStallTool(rows, online, stall.provider_key) = {stall}
        /\ \A a \in stall.agents : ResolveRef(rows, a.endpoint.provider, a.endpoint.name) = a.agent
  BY StallIsTheSame
<1>3. UNION {stall.agents : stall \in market.providers} = RosterResource(rows, online).agents
  BY StallsShowAll
<1>4. /\ stats.total = named[TRUE] /\ stats.total = market.agent_count
      /\ stats.online = named[FALSE] /\ stats.online = open.agent_count
      /\ stats.offline = market.agent_count - open.online_count
  <2>1. /\ stats.total = Cardinality(rows) /\ stats.online = Cardinality(rows \cap online)
        /\ stats.offline = Cardinality(rows) - Cardinality(rows \cap online)
    BY ToolsCount DEF SoukStats
  <2>2. named[TRUE] = Cardinality(rows) /\ named[FALSE] = Cardinality(rows \cap online)
    BY ToolsCount
  <2>3. (rows \cap online) \cap online = rows \cap online
    OBVIOUS
  <2>4. /\ market.agent_count = Cardinality(rows)
        /\ open.agent_count = Cardinality(rows \cap online)
        /\ open.online_count = Cardinality(rows \cap online)
    BY <2>3 DEF BrowseSouk, DescribeMarket
  <2> QED
    BY <2>1, <2>2, <2>4
<1>5. SearchAgents(rows, <<>>) = rows
  BY DEF SearchAgents
<1>6. \A row \in rows : \A own \in ToSet(Says[row.name]), other \in DOMAIN WordLength :
        WordLength[own] >= 3 => row \in SearchAgents(rows, <<other, own>>)
  <2> SUFFICES ASSUME NEW row \in rows, NEW own \in ToSet(Says[row.name]), NEW other,
                      WordLength[own] >= 3
               PROVE  row \in SearchAgents(rows, <<other, own>>)
    OBVIOUS
  <2>1. own \in ToSet(<<other, own>>)
    BY DEF ToSet
  <2>2. Matches(row, <<other, own>>)
    BY <2>1 DEF Matches
  <2>3. <<other, own>> # <<>>
    OBVIOUS
  <2> QED
    BY <2>2, <2>3 DEF SearchAgents
<1> QED
  BY <1>1, <1>2, <1>3, <1>4, <1>5, <1>6, Zenon DEF AddsUp

\* The docent, the provider's tools and the roster route show one market:
\* describe_market, describe_stall, search_agents, get_souk_stats,
\* list_souk_agents and GET /agents agree on whatever souk lists.
THEOREM MarketAlwaysAddsUp ==
  ASSUME KeysAreNoFingerprints
  PROVE  Spec => []MarketAddsUp
<1>1. ThreadInv /\ Listing(roster) => MarketAddsUp
  <2> SUFFICES ASSUME ThreadInv, Listing(roster)
               PROVE  MarketAddsUp
    OBVIOUS
  <2>1. IsFiniteSet(roster)
    BY ConversationConstants, FS_Subset DEF ConversationConstants, ThreadInv, Typed, TypeOK
  <2> QED
    BY <2>1, ViewsAddUp DEF MarketAddsUp
<1>2. Init => Listing(roster)
  BY DEF Init, Listing
<1>3. ThreadInv /\ Listing(roster) /\ [Next]_vars => Listing(roster)'
  BY ListingStep
<1> QED
  BY <1>1, <1>2, <1>3, ThreadInit, ThreadStep, PTL DEF Spec

-----------------------------------------------------------------------------
(* A run of the openai-compat provider keeps the promise of AnswerStream.  *)

\* How many deltas the caller has of turn n, and whether it has the end.
Heard(n) == IF seen[n] <= 2 THEN 0 ELSE IF seen[n] <= deltas[n] + 2 THEN seen[n] - 2 ELSE deltas[n]
HeardEnd(n) == HasRead(n, "RUN_FINISHED")
SaidEnd(n)  == \E i \in DOMAIN events[n] : events[n][i].type = "RUN_FINISHED"

\* What the promise sees of a run.
Standing(n) == IF HeardEnd(n) THEN "completed"
               ELSE IF end[n] # "none" THEN "failed"
               ELSE IF on[n] # NoThread THEN "open" ELSE "new"
Standings == [n \in Turns |-> Standing(n)]
Has       == [n \in Turns |-> Received(n)]
Said      == [n \in Turns |-> SaidEnd(n)]
Shown     == <<Standings, Has, deltas, Said>>

\* An interval that begins at 3 has as many elements up to its k-th.
LEMMA PlacesCount ==
  ASSUME NEW m \in Nat
  PROVE  /\ Cardinality(3 .. m + 2) = m
         /\ \A i \in 3 .. m + 2 : Cardinality({j \in 3 .. m + 2 : j <= i}) = i - 2
<1>1. Cardinality(3 .. m + 2) = m
  BY FS_Interval
<1>2. ASSUME NEW i \in 3 .. m + 2
      PROVE  Cardinality({j \in 3 .. m + 2 : j <= i}) = i - 2
  <2>1. {j \in 3 .. m + 2 : j <= i} = 3 .. i
    OBVIOUS
  <2>2. Cardinality(3 .. i) = i - 2
    BY FS_Interval
  <2> QED
    BY <2>1, <2>2
<1> QED
  BY <1>1, <1>2

\* Where the deltas are in a stream.
LEMMA ContentAt ==
  ASSUME Typed, Streams, NEW n \in Turns, NEW i \in 1 .. Len(events[n])
  PROVE  /\ events[n][i].type = "TEXT_MESSAGE_CONTENT" <=> i - 2 \in 1 .. deltas[n]
         /\ i - 2 \in 1 .. deltas[n] => events[n][i].delta = i - 2
<1>1. deltas[n] \in Nat /\ Len(events[n]) \in Nat
  BY DEF Typed
<1>2. CASE i - 2 \in 1 .. deltas[n]
  <2>1. PICK d \in 1 .. deltas[n] : d = i - 2
    BY <1>2
  <2>2. gen[n] # "none"
    BY <1>1, <1>2 DEF Streams, Stream
  <2>3. events[n][d + 2] = Content(d)
    BY <2>2 DEF Streams, Stream, Body
  <2>4. d + 2 = i
    BY <2>1
  <2> QED
    BY <1>2, <2>1, <2>3, <2>4 DEF Content
<1>3. CASE ~ i - 2 \in 1 .. deltas[n]
  <2>1. ~ \E d \in 1 .. deltas[n] : i = d + 2 /\ events[n][i] = Content(d)
    BY <1>1, <1>3
  <2>2. events[n][i] \in {Started(on[n]), Event("TEXT_MESSAGE_START"), Event("RUN_ERROR"),
                          Event("TEXT_MESSAGE_END"), Event("RUN_FINISHED")}
    BY <2>1, Wording
  <2> QED
    BY <1>3, <2>2 DEF Started, Event
<1> QED
  BY <1>2, <1>3

\* The caller has the first deltas, in order.
LEMMA ReceivedIs ==
  ASSUME Typed, Streams, NEW n \in Turns
  PROVE  /\ Heard(n) \in Nat /\ Heard(n) <= deltas[n]
         /\ Received(n) = [k \in 1 .. Heard(n) |-> k]
<1> DEFINE m == Heard(n)
           read == {i \in 1 .. seen[n] : events[n][i].type = "TEXT_MESSAGE_CONTENT"}
           place(k) == CHOOSE i \in read : Cardinality({j \in read : j <= i}) = k
<1>1. /\ deltas[n] \in Nat /\ seen[n] \in Nat /\ Len(events[n]) \in Nat /\ seen[n] <= Len(events[n])
  BY DEF Typed, TypeOK
<1>2. m \in Nat /\ m <= deltas[n]
  BY <1>1 DEF Heard
<1>3. \A i \in 1 .. Len(events[n]) :
        /\ events[n][i].type = "TEXT_MESSAGE_CONTENT" <=> i - 2 \in 1 .. deltas[n]
        /\ i - 2 \in 1 .. deltas[n] => events[n][i].delta = i - 2
  BY ContentAt
<1>4. read = 3 .. m + 2
  BY <1>1, <1>3 DEF Heard
<1>5. ASSUME NEW k \in 1 .. m
      PROVE  events[n][place(k)].delta = k
  <2>1. k + 2 \in 3 .. m + 2 /\ m \in Nat
    BY <1>2
  <2>2. \A i \in read : Cardinality({j \in read : j <= i}) = k <=> i = k + 2
    <3>1. \A i \in 3 .. m + 2 : Cardinality({j \in 3 .. m + 2 : j <= i}) = i - 2
      BY <1>2, PlacesCount
    <3> HIDE DEF read, m
    <3>2. \A i \in read : Cardinality({j \in read : j <= i}) = i - 2 /\ i \in Nat
      BY <1>2, <1>4, <3>1
    <3> QED
      BY <3>2
  <2>3. place(k) = k + 2
    BY <1>4, <2>1, <2>2
  <2>4. k + 2 \in 1 .. Len(events[n]) /\ (k + 2) - 2 \in 1 .. deltas[n] /\ (k + 2) - 2 = k
    BY <1>1, <1>2, <1>4, <2>1
  <2> QED
    BY <1>3, <2>3, <2>4
<1>6. Cardinality(read) = m
  BY <1>2, <1>4, PlacesCount
<1>7. Received(n) = [k \in 1 .. Cardinality(read) |-> events[n][place(k)].delta]
  BY DEF Received
<1> HIDE DEF read, place, m
<1>8. Received(n) = [k \in 1 .. m |-> k]
  BY <1>5, <1>6, <1>7
<1> QED
  BY <1>2, <1>8 DEF m

\* The same behind a step.
FirstOnes == \A n \in Turns : /\ Heard(n) \in Nat /\ Heard(n) <= deltas[n]
                             /\ Received(n) = [k \in 1 .. Heard(n) |-> k]

\* What a caller has of a turn is the first deltas of it, before a step and after it.
LEMMA ReceivedNow == Typed /\ Streams => FirstOnes
  BY ReceivedIs DEF FirstOnes

\* The same in the next state.
LEMMA ReceivedNext == (Typed /\ Streams => FirstOnes)'
  BY ReceivedNow, PTL

\* The end is the last event there is, and comes behind all the deltas.
LEMMA EndIsLast ==
  ASSUME Typed, Streams, NEW n \in Turns
  PROVE  /\ \A i \in 1 .. Len(events[n]) :
              events[n][i].type = "RUN_FINISHED" => i = Len(events[n]) /\ gen[n] \in Over /\ (deltas[n] = 0 \/ i > deltas[n] + 2)
         /\ HeardEnd(n) => SaidEnd(n) /\ seen[n] = Len(events[n]) /\ Heard(n) = deltas[n] /\ on[n] # NoThread
         /\ seen[n] > 0 => on[n] # NoThread
<1>1. /\ deltas[n] \in Nat /\ seen[n] \in Nat /\ Len(events[n]) \in Nat /\ seen[n] <= Len(events[n])
      /\ DOMAIN events[n] = 1 .. Len(events[n])
  BY DEF Typed, TypeOK
<1>2. ASSUME NEW i \in 1 .. Len(events[n]), events[n][i].type = "RUN_FINISHED"
      PROVE  /\ i = Len(events[n]) /\ gen[n] \in Over
             /\ deltas[n] = 0 \/ i > deltas[n] + 2
  <2>1. i = Len(events[n]) /\ i > 1 /\ gen[n] \in Over
    <3>1. CASE i = 1 /\ events[n][i] = Started(on[n])
      BY <1>2, <3>1 DEF Started
    <3>2. CASE i = 2 /\ deltas[n] > 0 /\ events[n][i] = Event("TEXT_MESSAGE_START")
      BY <1>2, <3>2 DEF Event
    <3>3. CASE \E d \in 1 .. deltas[n] : i = d + 2 /\ events[n][i] = Content(d)
      BY <1>2, <3>3 DEF Content
    <3>4. CASE i = deltas[n] + 3 /\ Len(events[n]) = deltas[n] + 4 /\ events[n][i] = Event("TEXT_MESSAGE_END")
      BY <1>2, <3>4 DEF Event
    <3>5. CASE i = Len(events[n]) /\ i > 1 /\ gen[n] \in Over
      BY <3>5
    <3> QED
      BY <3>1, <3>2, <3>3, <3>4, <3>5, Wording
  <2>2. Failing(n) \/ Finishing(n)
    BY <2>1 DEF Streams, Stream
  <2>3. CASE Failing(n)
    <3>1. events[n][Len(events[n])] = Event("RUN_ERROR")
      BY <2>3 DEF Failing
    <3> QED
      BY <1>2, <2>1, <3>1 DEF Event
  <2>4. CASE Finishing(n)
    BY <1>1, <2>1, <2>4 DEF Finishing
  <2> QED
    BY <2>1, <2>2, <2>3, <2>4
<1>3. seen[n] > 0 => on[n] # NoThread
  <2>1. Len(events[n]) > 0 => gen[n] # "none"
    BY <1>1 DEF Streams, Stream
  <2> QED
    BY <1>1, <2>1 DEF Streams, Stream
<1>4. HeardEnd(n) => SaidEnd(n) /\ seen[n] = Len(events[n]) /\ Heard(n) = deltas[n] /\ on[n] # NoThread
  <2> SUFFICES ASSUME HeardEnd(n)
               PROVE  SaidEnd(n) /\ seen[n] = Len(events[n]) /\ Heard(n) = deltas[n] /\ on[n] # NoThread
    OBVIOUS
  <2>1. PICK i \in 1 .. seen[n] : events[n][i].type = "RUN_FINISHED"
    BY DEF HeardEnd, HasRead
  <2>2. i \in 1 .. Len(events[n])
    BY <1>1
  <2>3. i = Len(events[n]) /\ (deltas[n] = 0 \/ i > deltas[n] + 2) /\ SaidEnd(n)
    BY <1>1, <1>2, <2>1, <2>2 DEF SaidEnd
  <2> QED
    BY <1>1, <1>3, <2>2, <2>3 DEF Heard
<1> QED
  BY <1>1, <1>2, <1>3, <1>4

\* A run that goes on, or was cut, has not said the end of its answer.
OnlyOver == \A n \in Turns : SaidEnd(n) => gen[n] \in Over

\* Only a run that is over has said that it ended.
LEMMA SaidNow == Typed /\ Streams => OnlyOver
<1> SUFFICES ASSUME Typed, Streams, NEW n \in Turns, SaidEnd(n)
             PROVE  gen[n] \in Over
  BY DEF OnlyOver
<1>1. PICK i \in 1 .. Len(events[n]) : events[n][i].type = "RUN_FINISHED"
  BY DEF SaidEnd, Typed
<1> QED
  BY <1>1, EndIsLast

\* The same in the next state.
LEMMA SaidNext == (Typed /\ Streams => OnlyOver)'
  BY SaidNow, PTL

\* The promise in these terms.
LEMMA PromiseMeans ==
  ASSUME NEW n \in Turns
  PROVE  /\ /\ Standings[n] = "new"
            /\ \E s \in {"open", "failed"} : Standings' = [Standings EXCEPT ![n] = s]
            /\ UNCHANGED <<Has, deltas, Said>>
            => Answer!Ask(n)
         /\ /\ Standings[n] # "new" /\ ~ Said[n] /\ deltas[n] < MaxDeltas
            /\ deltas' = [deltas EXCEPT ![n] = @ + 1]
            /\ UNCHANGED <<Standings, Has, Said>>
            => Answer!Yield(n)
         /\ /\ Standings[n] # "new"
            /\ Said' = [Said EXCEPT ![n] = TRUE]
            /\ UNCHANGED <<Standings, Has, deltas>>
            => Answer!Finish(n)
         /\ /\ Standings[n] = "open" /\ Len(Has[n]) < deltas[n]
            /\ Has' = [Has EXCEPT ![n] = Append(@, Len(@) + 1)]
            /\ UNCHANGED <<Standings, deltas, Said>>
            => Answer!Receive(n)
         /\ /\ Standings[n] = "open" /\ Said[n] /\ Len(Has[n]) = deltas[n]
            /\ Standings' = [Standings EXCEPT ![n] = "completed"]
            /\ UNCHANGED <<Has, deltas, Said>>
            => Answer!Complete(n)
         /\ /\ Standings[n] = "open"
            /\ Standings' = [Standings EXCEPT ![n] = "failed"]
            /\ UNCHANGED <<Has, deltas, Said>>
            => Answer!Fail(n)
<1>1. /\ Standings[n] = "new"
      /\ \E s \in {"open", "failed"} : Standings' = [Standings EXCEPT ![n] = s]
      /\ UNCHANGED <<Has, deltas, Said>>
      => Answer!Ask(n)
  BY DEF Answer!Ask, Standings, Standing, HeardEnd, Has, Said, SaidEnd
<1>2. /\ Standings[n] # "new" /\ ~ Said[n] /\ deltas[n] < MaxDeltas
      /\ deltas' = [deltas EXCEPT ![n] = @ + 1]
      /\ UNCHANGED <<Standings, Has, Said>>
      => Answer!Yield(n)
  BY DEF Answer!Yield, Standings, Standing, HeardEnd, Has, Said, SaidEnd
<1>3. /\ Standings[n] # "new"
      /\ Said' = [Said EXCEPT ![n] = TRUE]
      /\ UNCHANGED <<Standings, Has, deltas>>
      => Answer!Finish(n)
  BY DEF Answer!Finish, Standings, Standing, HeardEnd, Has, Said, SaidEnd
<1>4. /\ Standings[n] = "open" /\ Len(Has[n]) < deltas[n]
      /\ Has' = [Has EXCEPT ![n] = Append(@, Len(@) + 1)]
      /\ UNCHANGED <<Standings, deltas, Said>>
      => Answer!Receive(n)
  BY DEF Answer!Receive, Standings, Standing, HeardEnd, Has, Said, SaidEnd
<1>5. /\ Standings[n] = "open" /\ Said[n] /\ Len(Has[n]) = deltas[n]
      /\ Standings' = [Standings EXCEPT ![n] = "completed"]
      /\ UNCHANGED <<Has, deltas, Said>>
      => Answer!Complete(n)
  BY DEF Answer!Complete, Standings, Standing, HeardEnd, Has, Said, SaidEnd
<1>6. /\ Standings[n] = "open"
      /\ Standings' = [Standings EXCEPT ![n] = "failed"]
      /\ UNCHANGED <<Has, deltas, Said>>
      => Answer!Fail(n)
  BY DEF Answer!Fail, Standings, Standing, HeardEnd, Has, Said, SaidEnd
<1> QED
  BY <1>1, <1>2, <1>3, <1>4, <1>5, <1>6

\* A conversation starts where the promise starts.
LEMMA PromiseInit == Init => Answer!Init
<1> SUFFICES ASSUME Init PROVE Answer!Init
  OBVIOUS
<1>1. \A n \in Turns : seen[n] = 0 /\ end[n] = "none" /\ on[n] = NoThread /\ events[n] = <<>>
  BY DEF Init
<1>2. \A n \in Turns : ~ HeardEnd(n)
  BY <1>1 DEF HeardEnd, HasRead
<1>3. Standings = [n \in Turns |-> "new"]
  BY <1>1, <1>2 DEF Standings, Standing
<1>4. Has = [n \in Turns |-> <<>>]
  <2>1. Typed /\ Streams
    BY TypeInit, ThreadInit DEF ThreadInv
  <2>2. ASSUME NEW n \in Turns
        PROVE  Received(n) = <<>>
    <3>1. Heard(n) = 0 /\ Received(n) = [k \in 1 .. Heard(n) |-> k]
      BY <1>1, <2>1, ReceivedIs DEF Heard
    <3> QED
      BY <3>1
  <2> QED
    BY <2>2 DEF Has
<1>5. Said = [n \in Turns |-> FALSE]
  <2>1. \A n \in Turns : SaidEnd(n) = FALSE
    BY <1>1 DEF SaidEnd
  <2> QED
    BY <2>1 DEF Said
<1>6. deltas = [n \in Turns |-> 0]
  BY DEF Init
<1> QED
  BY <1>3, <1>4, <1>5, <1>6 DEF Answer!Init, Standings, Standing, HeardEnd, Has, Said, SaidEnd

\* A step that leaves what the caller has and the runs have said alone.
LEMMA NothingShown ==
  UNCHANGED <<seen, end, on, deltas, events>> => UNCHANGED Shown
  BY DEF Shown, Standings, Standing, HeardEnd, HasRead, Has, Received, Said, SaidEnd

\* A step that leaves the streams alone leaves what was said alone.
LEMMA NothingSaid ==
  UNCHANGED events => UNCHANGED Said
  BY DEF Said, SaidEnd

\* A turn whose standing is all that a step changes.
LEMMA StandingMoves ==
  ASSUME NEW n \in Turns, \A m \in Turns : m # n => Standing(m)' = Standing(m),
         NEW s, Standing(n)' = s
  PROVE  Standings' = [Standings EXCEPT ![n] = s]
<1>1. Standings' = [m \in Turns |-> Standing(m)']
  BY DEF Standings
<1>2. [Standings EXCEPT ![n] = s] = [m \in Turns |-> IF m = n THEN s ELSE Standing(m)]
  BY DEF Standings
<1>3. \A m \in Turns : Standing(m)' = IF m = n THEN s ELSE Standing(m)
  OBVIOUS
<1> QED
  BY <1>1, <1>2, <1>3

\* The turns a step does not touch stand where they stood.
LEMMA StandsStill ==
  ASSUME NEW m \in Turns, seen'[m] = seen[m], end'[m] = end[m], on'[m] = on[m], events'[m] = events[m]
  PROVE  Standing(m)' = Standing(m) /\ Received(m)' = Received(m) /\ SaidEnd(m)' = SaidEnd(m)
<1>1. HeardEnd(m)' = HeardEnd(m)
  BY DEF HeardEnd, HasRead
<1>2. Standing(m)' = Standing(m)
  BY <1>1 DEF Standing
<1>3. Received(m)' = Received(m)
  BY DEF Received
<1>4. SaidEnd(m)' = SaidEnd(m)
  BY DEF SaidEnd
<1> QED
  BY <1>2, <1>3, <1>4

\* A turn that is over for the caller before its run began was never taken on.
LEMMA RefusedIsAsked ==
  ASSUME Typed, Blank, NEW n \in Turns, n = turn, at \in {"creating", "posting"},
         NEW how, how # "none", end' = [end EXCEPT ![n] = how],
         UNCHANGED <<seen, on, deltas, events>>
  PROVE  Answer!Ask(n)
<1>1. n \in Turns /\ on[n] = NoThread /\ seen[n] = 0 /\ end[n] = "none"
  BY DEF Blank
<1>2. ~ HeardEnd(n) /\ ~ HeardEnd(n)'
  BY <1>1 DEF HeardEnd, HasRead
<1>3. end'[n] = how /\ \A m \in Turns : m # n => end'[m] = end[m]
  BY <1>1 DEF Typed, TypeOK
<1>4. Standing(n) = "new" /\ Standing(n)' = "failed"
  BY <1>1, <1>2, <1>3 DEF Standing
<1>5. Standings' = [Standings EXCEPT ![n] = "failed"]
  BY <1>1, <1>3, <1>4, StandsStill, StandingMoves
<1>6. Standings[n] = "new"
  BY <1>1, <1>4 DEF Standings
<1>7. UNCHANGED <<Has, deltas, Said>>
  BY NothingSaid DEF Has, Received
<1> QED
  BY <1>1, <1>5, <1>6, <1>7, PromiseMeans

\* One that is over while it is read failed, unless the caller has the end.
LEMMA BrokenIsFailed ==
  ASSUME Typed, Blank, Holding, NEW n \in Turns, n = turn, at = "reading",
         NEW how, how # "none", end' = [end EXCEPT ![n] = how],
         UNCHANGED <<seen, on, deltas, events>>
  PROVE  Answer!Fail(n) \/ UNCHANGED Shown
<1>1. n \in Turns /\ on[n] # NoThread /\ end[n] = "none"
  BY DEF Blank, Holding
<1>2. HeardEnd(n)' <=> HeardEnd(n)
  BY DEF HeardEnd, HasRead
<1>3. end'[n] = how /\ \A m \in Turns : m # n => end'[m] = end[m]
  BY <1>1 DEF Typed, TypeOK
<1>4. UNCHANGED <<Has, deltas, Said>>
  BY NothingSaid DEF Has, Received
<1>5. \A m \in Turns : m # n => Standing(m)' = Standing(m)
  BY <1>3, StandsStill
<1>6. CASE HeardEnd(n)
  <2>0. HeardEnd(n) /\ HeardEnd(n)'
    BY <1>2, <1>6
  <2>1. Standing(n)' = Standing(n)
    BY <2>0 DEF Standing
  <2>2. Standings' = Standings
    BY <1>5, <2>1 DEF Standings
  <2> QED
    BY <1>4, <2>2 DEF Shown
<1>7. CASE ~ HeardEnd(n)
  <2>1. Standing(n) = "open" /\ Standing(n)' = "failed"
    <3>1. ~ HeardEnd(n) /\ ~ HeardEnd(n)'
      BY <1>2, <1>7
    <3>2. Standing(n) = "open"
      BY <1>1, <3>1 DEF Standing
    <3>3. Standing(n)' = "failed"
      BY <1>3, <3>1 DEF Standing
    <3> QED
      BY <3>2, <3>3
  <2>2. Standings' = [Standings EXCEPT ![n] = "failed"] /\ Standings[n] = "open"
    <3>1. Standings' = [Standings EXCEPT ![n] = "failed"]
      BY <1>1, <1>5, <2>1, StandingMoves
    <3> QED
      BY <1>1, <2>1, <3>1 DEF Standings
  <2> QED
    BY <1>1, <1>4, <2>2, PromiseMeans
<1> QED
  BY <1>6, <1>7

\* A run that is started is an answer asked for, even if the caller never
\* hears of it.
LEMMA StartIsAsked ==
  ASSUME Typed, Blank, Streams, Typed', Streams', NEW n \in Turns, n = turn, StartRun
  PROVE  Answer!Ask(n)
<1> DEFINE t == IF Known(sent[n]) THEN sent[n] ELSE Len(threads) + 1
<1>1. /\ n \in Turns /\ on[n] = NoThread /\ seen[n] = 0 /\ end[n] = "none"
      /\ gen[n] = "none" /\ UNCHANGED <<seen, deltas>>
      /\ on' = [on EXCEPT ![n] = t]
      /\ events' = [events EXCEPT ![n] = IF Reached \in serving THEN <<Started(t)>>
                                            ELSE <<Started(t), Event("RUN_ERROR")>>]
      /\ UNCHANGED end \/ end' = [end EXCEPT ![n] = "lost"]
  BY DEF StartRun, Blank, Ends
<1>2. t \in Nat \ {0}
  BY <1>1 DEF StartRun, Typed, TypeOK, NoThread
<1> HIDE DEF t
<1>3. /\ \A m \in Turns : m # n => end'[m] = end[m] /\ on'[m] = on[m] /\ events'[m] = events[m]
      /\ on'[n] # NoThread
      /\ events'[n] = <<Started(t)>> \/ events'[n] = <<Started(t), Event("RUN_ERROR")>>
  BY <1>1, <1>2 DEF Typed, TypeOK, NoThread
<1>4. ~ HeardEnd(n) /\ ~ HeardEnd(n)'
  BY <1>1 DEF HeardEnd, HasRead
<1>5. PICK s \in {"open", "failed"} : Standing(n)' = s
  <2>1. Standing(n)' \in {"open", "failed"}
    BY <1>3, <1>4 DEF Standing
  <2> QED
    BY <2>1
<1>6. Standing(n) = "new"
  BY <1>1, <1>4 DEF Standing
<1>7. Standings' = [Standings EXCEPT ![n] = s] /\ Standings[n] = "new"
  <2>1. \A m \in Turns : m # n => Standing(m)' = Standing(m)
    BY <1>1, <1>3, StandsStill
  <2>2. Standings' = [Standings EXCEPT ![n] = s]
    BY <1>1, <1>5, <2>1, StandingMoves
  <2> QED
    BY <1>1, <1>6, <2>2 DEF Standings
<1>8. UNCHANGED Has
  <2>1. Received(n) = [k \in 1 .. 0 |-> k]
    <3>1. Heard(n) = 0
      BY <1>1 DEF Heard
    <3> QED
      BY <1>1, <3>1, ReceivedIs
  <2>2. Received(n)' = [k \in 1 .. 0 |-> k]
    <3>1. Heard(n)' = 0
      BY <1>1 DEF Heard
    <3> QED
      BY <3>1, ReceivedNext DEF FirstOnes
  <2>3. \A m \in Turns : Received(m)' = Received(m)
    BY <1>1, <1>3, <2>1, <2>2, StandsStill
  <2> QED
    BY <2>3 DEF Has
<1>9. UNCHANGED Said
  <2>1. ~ SaidEnd(n)
    <3>1. events[n] = <<>>
      BY <1>1 DEF Streams, Stream
    <3> QED
      BY <3>1 DEF SaidEnd
  <2>2. ~ SaidEnd(n)'
    <3>1. CASE events'[n] = <<Started(t)>>
      BY <3>1 DEF SaidEnd, Started
    <3>2. CASE events'[n] = <<Started(t), Event("RUN_ERROR")>>
      <4>1. \A i \in DOMAIN events'[n] : i = 1 \/ i = 2
        BY <3>2
      <4>2. events'[n][1].type = "RUN_STARTED" /\ events'[n][2].type = "RUN_ERROR"
        BY <3>2 DEF Started, Event
      <4> QED
        BY <4>1, <4>2 DEF SaidEnd
    <3> QED
      BY <1>3, <3>1, <3>2
  <2>3. \A m \in Turns : SaidEnd(m)' = SaidEnd(m)
    <3>1. SaidEnd(n)' = SaidEnd(n)
      BY <2>1, <2>2 DEF SaidEnd
    <3> QED
      BY <1>1, <1>3, <3>1, StandsStill
  <2> QED
    BY <2>3 DEF Said
<1> QED
  BY <1>1, <1>7, <1>8, <1>9, PromiseMeans

\* Reading on is receiving the next delta, or the end of a finished answer, or
\* nothing the promise is about.
LEMMA ReadIsReceived ==
  ASSUME Typed, Blank, Streams, Holding, Typed', Streams', NEW n \in Turns, n = turn, ReadEvent
  PROVE  Answer!Next \/ UNCHANGED Shown
<1> DEFINE s == seen[n]
           type == events[n][s + 1].type
<1>1. /\ on[n] # NoThread /\ end[n] = "none"
      /\ s \in Nat /\ Len(events[n]) \in Nat /\ s < Len(events[n]) /\ s + 1 \in 1 .. Len(events[n])
      /\ deltas[n] \in Nat
      /\ seen'[n] = s + 1 /\ \A m \in Turns : m # n => seen'[m] = seen[m]
      /\ UNCHANGED <<end, on, deltas, events>>
  BY DEF ReadEvent, Holding, Typed, TypeOK, runs
<1>2. ~ HeardEnd(n)
  BY <1>1, EndIsLast
<1>3. Standing(n) = "open" /\ Standings[n] = "open"
  BY <1>1, <1>2 DEF Standing, Standings
<1>4. /\ UNCHANGED <<deltas, Said>>
      /\ \A m \in Turns : m # n => Standing(m)' = Standing(m) /\ Received(m)' = Received(m)
  BY <1>1, StandsStill, NothingSaid
<1>5. HeardEnd(n)' <=> type = "RUN_FINISHED"
  BY <1>1, <1>2 DEF HeardEnd, HasRead
<1>6. /\ Has[n] = [k \in 1 .. Heard(n) |-> k] /\ Heard(n) \in Nat
      /\ Received(n)' = [k \in 1 .. Heard(n)' |-> k] /\ Heard(n)' \in Nat
      /\ Len(Has[n]) = Heard(n)
  BY ReceivedIs, ReceivedNext DEF FirstOnes, Has
<1>7. type = "TEXT_MESSAGE_CONTENT" <=> s - 1 \in 1 .. deltas[n]
  <2>1. type = "TEXT_MESSAGE_CONTENT" <=> (s + 1) - 2 \in 1 .. deltas[n]
    BY <1>1, ContentAt
  <2> QED
    BY <1>1, <2>1
<1>8. Answer!Receive(n) \/ Answer!Complete(n) => Answer!Next
  BY DEF Answer!Next
<1>9. CASE type = "TEXT_MESSAGE_CONTENT"
  <2>1. Heard(n)' = Heard(n) + 1 /\ Heard(n) < deltas[n]
    BY <1>1, <1>7, <1>9 DEF Heard
  <2>2. Standing(n)' = "open"
    BY <1>1, <1>5, <1>9 DEF Standing
  <2>3. Standings' = Standings
    BY <1>3, <1>4, <2>2 DEF Standings
  <2>4. Received(n)' = Append(Has[n], Len(Has[n]) + 1)
    BY <1>6, <2>1
  <2>5. Has' = [Has EXCEPT ![n] = Append(@, Len(@) + 1)]
    BY <1>4, <2>4 DEF Has
  <2>6. Answer!Receive(n)
    BY <1>3, <1>4, <1>6, <2>1, <2>3, <2>5, PromiseMeans
  <2> QED
    BY <1>8, <2>6
<1>10. CASE type # "TEXT_MESSAGE_CONTENT"
  <2>1. Heard(n)' = Heard(n)
    BY <1>1, <1>7, <1>10 DEF Heard
  <2>2. Received(n)' = Received(n)
    BY <1>6, <2>1 DEF Has
  <2>3. UNCHANGED Has
    BY <1>4, <2>2 DEF Has
  <2>4. CASE type = "RUN_FINISHED"
    <3>1. Heard(n) = deltas[n] /\ SaidEnd(n)
      <4>1. s + 1 = Len(events[n]) /\ (deltas[n] = 0 \/ s + 1 > deltas[n] + 2)
        BY <1>1, <2>4, EndIsLast
      <4>2. Heard(n) = deltas[n]
        BY <1>1, <4>1 DEF Heard
      <4>3. SaidEnd(n)
        BY <1>1, <2>4 DEF SaidEnd
      <4> QED
        BY <4>2, <4>3
    <3>2. Standing(n)' = "completed"
      BY <1>5, <2>4 DEF Standing
    <3>3. Standings' = [Standings EXCEPT ![n] = "completed"]
      BY <1>4, <3>2, StandingMoves
    <3>4. Said[n]
      BY <3>1 DEF Said
    <3>5. Answer!Complete(n)
      BY <1>3, <1>4, <1>6, <2>3, <3>1, <3>3, <3>4, PromiseMeans
    <3> QED
      BY <1>8, <3>5
  <2>5. CASE type # "RUN_FINISHED"
    <3>1. Standing(n)' = "open"
      BY <1>1, <1>5, <2>5 DEF Standing
    <3>2. Standings' = Standings
      BY <1>3, <1>4, <3>1 DEF Standings
    <3> QED
      BY <1>4, <2>3, <3>2 DEF Shown
  <2> QED
    BY <2>4, <2>5
<1> QED
  BY <1>9, <1>10

\* What is added behind a stream leaves what the caller has of it alone.
LEMMA BehindWhatIsRead ==
  ASSUME Typed, Streams, Typed', Streams', NEW n \in Turns, gen[n] \in {"running", "gone"},
         seen'[n] = seen[n], end'[n] = end[n], on'[n] = on[n], deltas'[n] >= deltas[n],
         \A i \in 1 .. Len(events[n]) : events'[n][i] = events[n][i]
  PROVE  Standing(n)' = Standing(n) /\ Received(n)' = Received(n)
<1>1. seen[n] \in Nat /\ Len(events[n]) \in Nat /\ seen[n] <= Len(events[n])
  BY DEF Typed, TypeOK
<1>2. \A i \in 1 .. seen[n] : events'[n][i] = events[n][i]
  BY <1>1
<1>3. HeardEnd(n)' <=> HeardEnd(n)
  BY <1>2 DEF HeardEnd, HasRead
<1>4. Standing(n)' = Standing(n)
  BY <1>3 DEF Standing
<1>5. Received(n)' = Received(n)
  <2>1. seen[n] <= IF deltas[n] = 0 THEN 1 ELSE deltas[n] + 2
    BY <1>1 DEF Streams, Stream, Spoken
  <2>2. deltas[n] \in Nat /\ deltas'[n] \in Nat
    BY DEF Typed
  <2>3. Heard(n)' = Heard(n)
    BY <1>1, <2>1, <2>2 DEF Heard
  <2>4. Received(n)' = [k \in 1 .. Heard(n)' |-> k] /\ Received(n) = [k \in 1 .. Heard(n) |-> k]
    BY ReceivedIs, ReceivedNext DEF FirstOnes
  <2> QED
    BY <2>3, <2>4
<1> QED
  BY <1>4, <1>5

\* What run_stream does is what the endpoint does: it yields a delta, finishes
\* its answer, or fails and says no more; so does what the sweep says for it.
LEMMA YieldIsYielded ==
  ASSUME Typed, Blank, Streams, Typed', Streams', NEW n \in Turns,
         Delta(n) \/ EndpointEnds(n) \/ EndpointReports(n) \/ EndpointFails(n) \/ Sweep(n)
  PROVE  Answer!Next \/ UNCHANGED Shown
<1>1. PICK more \in Seq(EventRecords), next \in {"running"} \cup Over : Records(n, more, next)
  <2>1. /\ PassOn(n, deltas[n] + 1) \in Seq(EventRecords) /\ Finished(n) \in Seq(EventRecords)
        /\ Failed(n) \in Seq(EventRecords)
    BY YieldTypes DEF Typed
  <2> QED
    BY <2>1 DEF Delta, EndpointEnds, EndpointReports, EndpointFails, Sweep, Yields, Failed, Over
<1>2. /\ gen[n] \in {"running", "gone"} /\ UNCHANGED <<seen, end, on>>
      /\ events'[n] = events[n] \o more
      /\ \A m \in Turns : m # n => events'[m] = events[m]
  BY <1>1 DEF Delta, EndpointEnds, EndpointReports, EndpointFails, Sweep, Yields, Records, caller, Typed
<1>3. /\ events[n] \in Seq(EventRecords) /\ Len(events[n]) \in Nat /\ deltas[n] \in Nat
      /\ \A i \in 1 .. Len(events[n]) : events'[n][i] = events[n][i]
  BY <1>1, <1>2 DEF Typed
<1>4. deltas'[n] >= deltas[n]
  BY DEF Delta, EndpointEnds, EndpointReports, EndpointFails, Sweep, Typed
<1>5. \A m \in Turns : Standing(m)' = Standing(m) /\ Received(m)' = Received(m)
  <2>1. Standing(n)' = Standing(n) /\ Received(n)' = Received(n)
    BY <1>2, <1>3, <1>4, BehindWhatIsRead
  <2>2. \A m \in Turns : m # n => Standing(m)' = Standing(m) /\ Received(m)' = Received(m)
    BY <1>2, StandsStill
  <2> QED
    BY <2>1, <2>2
<1>6. UNCHANGED <<Standings, Has>>
  BY <1>5 DEF Standings, Has
<1>7. Standings[n] # "new" /\ ~ Said[n] /\ ~ SaidEnd(n)
  <2>1. on[n] # NoThread
    BY <1>2 DEF Streams, Stream
  <2>2. ~ SaidEnd(n)
    BY <1>2, SaidNow DEF OnlyOver, Over
  <2> QED
    BY <2>1, <2>2 DEF Standings, Standing, Said
<1>8. ~ SaidEnd(n)' => UNCHANGED Said
  <2> SUFFICES ASSUME ~ SaidEnd(n)' PROVE UNCHANGED Said
    OBVIOUS
  <2>1. SaidEnd(n)' = SaidEnd(n)
    BY <1>7 DEF SaidEnd
  <2>2. \A m \in Turns : SaidEnd(m)' = SaidEnd(m)
    BY <1>2, <2>1, StandsStill
  <2> QED
    BY <2>2 DEF Said
<1>9. Answer!Yield(n) \/ Answer!Finish(n) => Answer!Next
  BY DEF Answer!Next
<1>10. CASE Delta(n)
  <2>1. deltas' = [deltas EXCEPT ![n] = @ + 1] /\ deltas[n] < MaxDeltas
    BY <1>3, <1>10, ConversationConstants DEF Delta, ConversationConstants, Turns
  <2>2. ~ SaidEnd(n)'
    <3>1. gen'[n] = "running"
      BY <1>10 DEF Delta, Yields, Records, Typed, TypeOK
    <3> QED
      BY <3>1, SaidNext DEF OnlyOver, Over
  <2>3. UNCHANGED Said
    BY <1>8, <2>2
  <2> QED
    BY <1>6, <1>7, <1>9, <2>1, <2>3, PromiseMeans
<1>11. CASE EndpointEnds(n) \/ EndpointReports(n)
  <2>1. events'[n] = events[n] \o Finished(n) /\ UNCHANGED deltas
    BY <1>11 DEF EndpointEnds, EndpointReports, Yields, Records, Typed
  <2>2. SaidEnd(n)'
    <3>1. PICK k \in 1 .. Len(Finished(n)) : Finished(n)[k].type = "RUN_FINISHED"
      <4>1. CASE Opened(n)
        <5>1. Finished(n) = <<Event("TEXT_MESSAGE_END"), Event("RUN_FINISHED")>>
          BY <4>1, StreamTypes, TwoInOne DEF Finished
        <5>2. Len(Finished(n)) = 2 /\ Finished(n)[2].type = "RUN_FINISHED"
          BY <5>1 DEF Event
        <5> QED
          BY <5>2
      <4>2. CASE ~ Opened(n)
        <5>1. Finished(n) = <<Event("RUN_FINISHED")>>
          BY <4>2, StreamTypes, ConcatEmptySeq DEF Finished
        <5>2. Len(Finished(n)) = 1 /\ Finished(n)[1].type = "RUN_FINISHED"
          BY <5>1 DEF Event
        <5> QED
          BY <5>2
      <4> QED
        BY <4>1, <4>2
    <3>2. Finished(n) \in Seq(EventRecords) /\ Len(Finished(n)) \in Nat
      BY YieldTypes
    <3>3. /\ Len(events[n]) + k \in DOMAIN events'[n]
          /\ events'[n][Len(events[n]) + k] = Finished(n)[k]
      BY <1>3, <2>1, <3>1, <3>2
    <3> QED
      BY <3>1, <3>3 DEF SaidEnd
  <2>3. Said' = [Said EXCEPT ![n] = TRUE]
    <3>1. \A m \in Turns : m # n => SaidEnd(m)' = SaidEnd(m)
      BY <1>2 DEF SaidEnd
    <3>2. SaidEnd(n)' = TRUE
      BY <2>2 DEF SaidEnd
    <3> QED
      BY <3>1, <3>2 DEF Said
  <2> QED
    BY <1>6, <1>7, <1>9, <2>1, <2>3, PromiseMeans
<1>12. CASE EndpointFails(n) \/ Sweep(n)
  <2>1. events'[n] = events[n] \o <<Event("RUN_ERROR")>> /\ UNCHANGED deltas
    BY <1>12 DEF EndpointFails, Sweep, Failed, Yields, Records, Typed
  <2>2. ~ SaidEnd(n)'
    <3> SUFFICES ASSUME NEW i \in DOMAIN events'[n], events'[n][i].type = "RUN_FINISHED"
                 PROVE  FALSE
      BY DEF SaidEnd
    <3>1. i \in 1 .. Len(events[n]) \/ (i = Len(events[n]) + 1 /\ events'[n][i] = Event("RUN_ERROR"))
      BY <1>3, <2>1
    <3>2. CASE i \in 1 .. Len(events[n])
      BY <1>3, <1>7, <3>2 DEF SaidEnd
    <3>3. CASE events'[n][i] = Event("RUN_ERROR")
      BY <3>3 DEF Event
    <3> QED
      BY <3>1, <3>2, <3>3
  <2>3. UNCHANGED Said
    BY <1>8, <2>2
  <2> QED
    BY <1>6, <2>1, <2>3 DEF Shown
<1> QED
  BY <1>10, <1>11, <1>12

\* Every step of a conversation is a step of the promise or none.
LEMMA PromiseStep ==
  ASSUME ThreadInv, [Next]_vars
  PROVE  [Answer!Next]_(Answer!vars)
<1>1. Typed /\ Blank /\ Streams /\ Holding /\ Typed' /\ Streams'
  BY TypeStep, StreamsStep DEF ThreadInv
<1>2. Answer!Next \/ UNCHANGED Shown => [Answer!Next]_(Answer!vars)
  BY DEF Answer!vars, Shown, Standings, Standing, HeardEnd, Has, Said, SaidEnd
<1> SUFFICES Answer!Next \/ UNCHANGED Shown
  BY <1>2
<1>3. \A n \in Turns : Answer!Ask(n) \/ Answer!Fail(n) => Answer!Next
  BY DEF Answer!Next
<1>4. at # "idle" => turn \in Turns
  BY <1>1 DEF Blank
<1>5. CASE \/ Resolve \/ TakeTurn \/ CreateThread
           \/ \E key \in Providers : Register(key)
           \/ \E row \in Listable : Serve(row)
           \/ \E key \in Providers, lost \in SUBSET Turns : Detach(key, lost)
           \/ UNCHANGED vars
  <2>1. UNCHANGED <<seen, end, on, deltas, events>>
    BY <1>5 DEF Resolve, TakeTurn, CreateThread, Register, Serve, Detach, vars, caller, runs
  <2> QED
    BY <2>1, NothingShown
<1>6. CASE CreateRefused \/ ReportActive \/ RunRefused \/ RequestFails
  <2>1. at \in {"creating", "posting"} /\ UNCHANGED <<seen, on, deltas, events>>
    BY <1>6 DEF CreateRefused, ReportActive, RunRefused, RequestFails, runs
  <2>2. \/ end' = end
        \/ \E how \in {"refused", "inflight", "lost"} : end' = [end EXCEPT ![turn] = how]
    BY <1>6 DEF CreateRefused, ReportActive, RunRefused, RequestFails, AnsweredWithJson, Ends
  <2>3. CASE end' = end
    BY <2>1, <2>3, NothingShown
  <2>4. ASSUME NEW how \in {"refused", "inflight", "lost"}, end' = [end EXCEPT ![turn] = how]
        PROVE  Answer!Next
    <3>1. PICK n \in Turns : n = turn
      BY <1>4, <2>1
    <3>2. Answer!Ask(n)
      BY <1>1, <2>1, <2>4, <3>1, RefusedIsAsked
    <3> QED
      BY <1>3, <3>2
  <2> QED
    BY <2>2, <2>3, <2>4
<1>7. CASE StartRun
  <2>1. PICK n \in Turns : n = turn
    BY <1>4, <1>7 DEF StartRun
  <2>2. Answer!Ask(n)
    BY <1>1, <1>7, <2>1, StartIsAsked
  <2> QED
    BY <1>3, <2>2
<1>8. CASE ReadEvent
  <2>1. PICK n \in Turns : n = turn
    BY <1>4, <1>8 DEF ReadEvent
  <2> QED
    BY <1>1, <1>8, <2>1, ReadIsReceived
<1>9. ASSUME at = "reading", NEW how \in {"told", "broken"}, end' = [end EXCEPT ![turn] = how],
             UNCHANGED <<seen, on, deltas, events>>
      PROVE  Answer!Next \/ UNCHANGED Shown
  <2>1. PICK n \in Turns : n = turn
    BY <1>4, <1>9
  <2>2. Answer!Fail(n) \/ UNCHANGED Shown
    BY <1>1, <1>9, <2>1, BrokenIsFailed
  <2> QED
    BY <1>3, <2>2
<1>10. CASE StreamEnds \/ BreaksOff
  <2>1. at = "reading" /\ UNCHANGED <<seen, on, deltas, events>>
    BY <1>10 DEF StreamEnds, BreaksOff, runs
  <2>2. \E how \in {"told", "broken"} : end' = [end EXCEPT ![turn] = how]
    BY <1>10 DEF StreamEnds, BreaksOff, Ends
  <2> QED
    BY <1>9, <2>1, <2>2
<1>11. ASSUME NEW sameDatabase \in BOOLEAN, Restart(sameDatabase)
       PROVE  Answer!Next \/ UNCHANGED Shown
  <2>1. UNCHANGED <<seen, on, deltas, events>>
    BY <1>11 DEF Restart
  <2>2. CASE at = "idle"
    BY <1>11, <2>1, <2>2, NothingShown DEF Restart
  <2>3. CASE at = "reading"
    <3>1. end' = [end EXCEPT ![turn] = "broken"]
      BY <1>11, <2>3 DEF Restart, Ends
    <3> QED
      BY <1>9, <2>1, <2>3, <3>1
  <2>4. CASE at \in {"creating", "posting"}
    <3>1. end' = [end EXCEPT ![turn] = "lost"]
      BY <1>11, <2>4 DEF Restart, Ends
    <3>2. PICK n \in Turns : n = turn
      BY <1>4, <2>4
    <3>3. Answer!Ask(n)
      BY <1>1, <2>1, <2>4, <3>1, <3>2, RefusedIsAsked
    <3> QED
      BY <1>3, <3>3
  <2> QED
    BY <1>1, <2>2, <2>3, <2>4 DEF Typed, TypeOK
<1>12. ASSUME NEW n \in Turns,
              Delta(n) \/ EndpointEnds(n) \/ EndpointReports(n) \/ EndpointFails(n) \/ Sweep(n)
       PROVE  Answer!Next \/ UNCHANGED Shown
  BY <1>1, <1>12, YieldIsYielded
<1> QED
  BY <1>5, <1>6, <1>7, <1>8, <1>10, <1>11, <1>12 DEF Next

\* A run of the openai-compat provider keeps the promise of AnswerStream: the
\* caller has the first deltas the endpoint yielded, in order, and an answer
\* passes as finished only with all of them.
THEOREM AnswersKeepThePromise == Spec => AnswersAsPromised
<1>1. ThreadInv /\ [Next]_vars => [Answer!Next]_(Answer!vars)
  BY PromiseStep
<1> QED
  BY <1>1, ThreadInit, ThreadStep, PromiseInit, PTL DEF Spec, AnswersAsPromised, Answer!Spec
=============================================================================
