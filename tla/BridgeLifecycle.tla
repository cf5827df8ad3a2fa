--------------------------- MODULE BridgeLifecycle ---------------------------
(***************************************************************************)
(* The life of a KYOK bridge around the run it pays for: the serving()     *)
(* block, the serve_forever task inside it that registers, connects and    *)
(* reconnects, and the deregistration of an identity that will not come    *)
(* back (souk-client-sdk/souk_client_sdk/kyok_bridge.py).  What the bridge *)
(* does while it is attached is KyokRelay's subject.                       *)
(*                                                                         *)
(* The task is where its coroutine is suspended.  A cancel is delivered at *)
(* that await, which is why it matters which one it is.  The gateway and   *)
(* its roster act on requests when they get to them, also on one whose     *)
(* sender has stopped waiting for the answer.                              *)
(***************************************************************************)
EXTENDS Naturals

CONSTANTS
  MaxDrops     \* times a connection breaks

ASSUME BridgeConstants == MaxDrops \in Nat

VARIABLES
  ephemeral,   \* did the bridge generate its own identity
  block,       \* where serving() is
  task,        \* where serve_forever is suspended
  why,         \* what ended the connection whose writer is being awaited
  unwritten,   \* has the connection's writer ended on a failed send
  attached,    \* KyokBridge.attached
  woken,       \* has setting it woken serving()'s waiter
  swallowed,   \* was serving()'s cancel lost in the writer's end
  post,        \* register's request: "none", "sent" or "answered"
  late,        \* a registration given up on: "none", "pending", or "overtaken",
               \* carried out after the deletion it was sent before
  deletion,    \* deregister's request: "none", "sent", or how it was answered
  listed,      \* is the offering on souk's roster
  served,      \* the bridge's connection souk has attached: "none", "open", or
               \* "old", one the bridge has left and souk has not seen the end of
  drops        \* connections broken so far

taskVars == <<task, why, unwritten, attached, woken>>
requests == <<post, late, deletion>>
soukVars == <<listed, served>>
vars     == <<ephemeral, block, taskVars, swallowed, requests, soukVars, drops>>

Init ==
  /\ ephemeral \in BOOLEAN
  /\ block = "outside"
  /\ task = "none"
  /\ why = "none"
  /\ unwritten = FALSE
  /\ attached = FALSE
  /\ woken = FALSE
  /\ swallowed = FALSE
  /\ post = "none"
  /\ late = "none"
  /\ deletion = "none"
  /\ listed \in BOOLEAN
  /\ ephemeral => ~ listed
  /\ served = "none"
  /\ drops = 0

-----------------------------------------------------------------------------
(* serve_forever.                                                          *)

\* register sends its request.
SendRegister ==
  /\ task = "register"
  /\ task' = "registering"
  /\ post' = "sent"
  /\ UNCHANGED <<ephemeral, block, why, unwritten, attached, woken, swallowed, late, deletion, soukVars, drops>>

\* register returns and _serve_connection dials.
Registered ==
  /\ task = "registering"
  /\ post = "answered"
  /\ task' = "connecting"
  /\ post' = "none"
  /\ UNCHANGED <<ephemeral, block, why, unwritten, attached, woken, swallowed, late, deletion, soukVars, drops>>

\* What the coroutine leaves behind at the await it gives up: a request souk
\* may still carry out, a connection souk has not seen the end of.
Abandon ==
  /\ late' = IF post = "sent" THEN "pending" ELSE late
  /\ post' = "none"
  /\ served' = IF served = "open" THEN "old" ELSE served

\* register or the handshake raises: logged, and the loop sleeps.
AttemptFails ==
  /\ task \in {"registering", "connecting"}
  /\ drops < MaxDrops
  /\ drops' = drops + 1
  /\ task' = "sleeping"
  /\ Abandon
  /\ UNCHANGED <<ephemeral, block, why, unwritten, attached, woken, swallowed, deletion, listed>>

\* Mutant: the welcome is not announced.
KeepQuiet == UNCHANGED <<attached, woken>>

\* attached.set() wakes whoever waits for it.
Announce == attached' = TRUE /\ woken' = TRUE

\* The welcome: souk has attached the bridge, and attached is set.
Welcomed ==
  /\ task = "connecting"
  /\ served = "open"
  /\ task' = "serving"
  /\ Announce
  /\ UNCHANGED <<ephemeral, block, why, unwritten, swallowed, requests, soukVars, drops>>

\* A send fails under the writer before the read loop meets the end of the
\* socket: the writer task is over, with its exception.
SendFails ==
  /\ task = "serving"
  /\ ~ unwritten
  /\ drops < MaxDrops
  /\ drops' = drops + 1
  /\ unwritten' = TRUE
  /\ UNCHANGED <<ephemeral, block, task, why, attached, woken, swallowed, requests, soukVars>>

\* The end of _serve_connection's read loop: attached is cleared, the writer
\* is cancelled and awaited.  One that already ended raises at once, in place
\* of whatever ended the read loop, and serve_forever sleeps on it.
LeaveReadLoop(reason) ==
  /\ task' = IF unwritten THEN "sleeping" ELSE "awaiting writer"
  /\ why' = IF unwritten THEN "none" ELSE reason
  /\ unwritten' = FALSE
  /\ attached' = FALSE
  /\ UNCHANGED woken

\* The socket breaks under the read loop.
ConnectionDrops ==
  /\ task = "serving"
  /\ unwritten \/ drops < MaxDrops
  /\ drops' = IF unwritten THEN drops ELSE drops + 1
  /\ LeaveReadLoop("dropped")
  /\ Abandon
  /\ UNCHANGED <<ephemeral, block, swallowed, deletion, listed>>

\* The cancelled writer ends.  Its CancelledError is suppressed, and the
\* exception that ended the read loop goes on: a broken connection to the
\* sleep before the next one, a cancel out of serve_forever.
WriterEnds ==
  /\ task = "awaiting writer"
  /\ task' = IF why = "cancelled" THEN "done" ELSE "sleeping"
  /\ why' = "none"
  /\ UNCHANGED <<ephemeral, block, unwritten, attached, woken, swallowed, requests, soukVars, drops>>

\* reconnect_delay has passed.
Wake ==
  /\ task = "sleeping"
  /\ task' = "register"
  /\ UNCHANGED <<ephemeral, block, why, unwritten, attached, woken, swallowed, requests, soukVars, drops>>

-----------------------------------------------------------------------------
(* serving().                                                              *)

\* The task is created and the first attach awaited.
Enter ==
  /\ block = "outside"
  /\ block' = "entering"
  /\ task' = "register"
  /\ UNCHANGED <<ephemeral, why, unwritten, attached, woken, swallowed, requests, soukVars, drops>>

\* The waiter on attached was woken and the body starts, even if the
\* connection has broken again since.
Yield ==
  /\ block = "entering"
  /\ woken
  /\ block' = "body"
  /\ UNCHANGED <<ephemeral, taskVars, swallowed, requests, soukVars, drops>>

\* Mutant: the task is not cancelled.
LetRun == UNCHANGED <<taskVars, swallowed, post, late, served>>

\* task.cancel(), wherever the task is suspended.  At most awaits it ends
\* the task; in the read loop it first takes the connection down, and is
\* lost if the writer had failed; at the await of a cancelled writer it
\* cannot be told from the writer's own.
Cancel ==
  CASE task = "serving" ->
         LeaveReadLoop("cancelled") /\ Abandon /\ swallowed' = unwritten
    [] task = "awaiting writer" ->
         swallowed' = TRUE /\ UNCHANGED <<taskVars, post, late, served>>
    [] OTHER ->
         /\ task' = "done"
         /\ Abandon
         /\ UNCHANGED <<why, unwritten, attached, woken, swallowed>>

\* The body is left, or entering is given up: the finally begins.
Exit ==
  /\ block \in {"entering", "body"}
  /\ block' = "awaiting task"
  /\ Cancel
  /\ UNCHANGED <<ephemeral, deletion, listed, drops>>

\* Mutant: the task is not awaited before the deletion.
NotAwaited == TRUE

\* `await task` returns.
Awaited == task = "done"

\* The awaited task has ended: an ephemeral identity sends its deletion.
TaskEnded ==
  /\ block = "awaiting task"
  /\ Awaited
  /\ IF ephemeral
     THEN block' = "deregistering" /\ deletion' = "sent"
     ELSE block' = "left" /\ UNCHANGED deletion
  /\ UNCHANGED <<ephemeral, taskVars, swallowed, post, late, soukVars, drops>>

\* deregister returns whatever it was told, a transport failure included.
Deregistered ==
  /\ block = "deregistering"
  /\ deletion # "sent" \/ drops < MaxDrops
  /\ deletion' = IF deletion = "sent" THEN "failed" ELSE deletion
  /\ block' = "left"
  /\ UNCHANGED <<ephemeral, taskVars, swallowed, post, late, soukVars, drops>>

-----------------------------------------------------------------------------
(* Souk (external), and the routes in api_registry.py that reach it.       *)

\* register_llm_providers: the upsert.
SoukRegisters ==
  /\ post = "sent"
  /\ listed' = TRUE
  /\ post' = "answered"
  /\ UNCHANGED <<ephemeral, block, taskVars, swallowed, late, deletion, served, drops>>

\* The same for a request whose sender gave up, or it never arrives.
SoukRegistersLate ==
  /\ late = "pending"
  /\ \/ listed' = TRUE /\ late' = IF deletion = "deleted" THEN "overtaken" ELSE "none"
     \/ late' = "none" /\ UNCHANGED listed
  /\ UNCHANGED <<ephemeral, block, taskVars, swallowed, post, deletion, served, drops>>

\* kyok_socket attaches a bridge whose offering is listed, in place of an
\* earlier connection of the same key.
SoukAttaches ==
  /\ task = "connecting"
  /\ listed
  /\ served # "open"
  /\ served' = "open"
  /\ UNCHANGED <<ephemeral, block, taskVars, swallowed, requests, listed, drops>>

\* The gateway meets the end of a socket the bridge has left, in its own time.
SoukDetaches ==
  /\ served = "old"
  /\ served' = "none"
  /\ UNCHANGED <<ephemeral, block, taskVars, swallowed, requests, listed, drops>>

\* delete_llm_offering: refused with 409 while the offering is attached.
SoukDeletes ==
  /\ deletion = "sent"
  /\ IF served = "none"
     THEN deletion' = "deleted" /\ listed' = FALSE
     ELSE deletion' = "refused" /\ UNCHANGED listed
  /\ UNCHANGED <<ephemeral, block, taskVars, swallowed, post, late, served, drops>>

-----------------------------------------------------------------------------
Next ==
  \/ SendRegister \/ Registered \/ AttemptFails \/ Welcomed \/ SendFails \/ ConnectionDrops \/ WriterEnds \/ Wake
  \/ Enter \/ Yield \/ Exit \/ TaskEnded \/ Deregistered
  \/ SoukRegisters \/ SoukRegistersLate \/ SoukAttaches \/ SoukDetaches \/ SoukDeletes

Spec == Init /\ [][Next]_vars

\* Every suspended coroutine is resumed once what it awaits has happened, and
\* souk gets to its requests.  The body need not end, nor a connection break.
Fairness ==
  /\ WF_vars(SendRegister) /\ WF_vars(Registered) /\ WF_vars(Welcomed) /\ WF_vars(WriterEnds) /\ WF_vars(Wake)
  /\ WF_vars(Yield) /\ WF_vars(TaskEnded) /\ WF_vars(Deregistered)
  /\ WF_vars(SoukRegisters) /\ WF_vars(SoukAttaches) /\ WF_vars(SoukDetaches) /\ WF_vars(SoukDeletes)

FairSpec == Spec /\ Fairness

-----------------------------------------------------------------------------
\* The type invariant.
TypeOK ==
  /\ ephemeral \in BOOLEAN
  /\ block \in {"outside", "entering", "body", "awaiting task", "deregistering", "left"}
  /\ task \in {"none", "register", "registering", "connecting", "serving", "awaiting writer", "sleeping", "done"}
  /\ why \in {"none", "dropped", "cancelled"}
  /\ unwritten \in BOOLEAN
  /\ attached \in BOOLEAN
  /\ woken \in BOOLEAN
  /\ swallowed \in BOOLEAN
  /\ post \in {"none", "sent", "answered"}
  /\ late \in {"none", "pending", "overtaken"}
  /\ deletion \in {"none", "sent", "refused", "deleted", "failed"}
  /\ listed \in BOOLEAN
  /\ served \in {"none", "open", "old"}
  /\ drops \in 0 .. MaxDrops

\* A throwaway bridge cleans up after itself: an offering whose deletion
\* souk carried out stays off the roster, except where a registration the
\* bridge had given up on was carried out after it.
DeletedStaysDeleted == deletion = "deleted" /\ late # "overtaken" => ~ listed

\* Leaving the block ends it, unless the cancel met the bridge where it is
\* lost in the writer's end.
ExitEnds == block = "awaiting task" ~> block = "left" \/ swallowed

\* Entering the block ends in its body once connections stop breaking.
EnterEnds == block = "entering" ~> block # "entering"

-----------------------------------------------------------------------------
(* What the repository says of the bridge and the code does not do.        *)

\* On exit the serve task is cancelled and awaited: leaving the block ends.
ExitAlwaysEnds == block = "awaiting task" ~> block = "left"

=============================================================================
