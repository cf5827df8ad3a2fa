------------------------ MODULE BridgeLifecycleProofs ------------------------
(***************************************************************************)
(* A throwaway bridge's deleted offering stays deleted, however often its  *)
(* connections break: the task has ended, and every request of its own is  *)
(* answered or given up, before the deletion is sent.                      *)
(***************************************************************************)
EXTENDS BridgeLifecycle, TLAPS

\* A registration is awaited only by the task that sent it, which starts in the block.
OwnRequest ==
  /\ post # "none" => task = "registering"
  /\ block = "outside" => task = "none"

\* The deletion is sent behind the end of the task, and only on the way out.
DeletionIsLast ==
  /\ deletion # "none" => block \in {"deregistering", "left"}
  /\ block \in {"deregistering", "left"} => task = "done"

\* The deletion, and the order of requests it rests on.
LifeInv == TypeOK /\ OwnRequest /\ DeletionIsLast /\ DeletedStaysDeleted

\* Before the block is entered nothing is registered or deleted.
LEMMA LifeInit == Init => LifeInv
<1> SUFFICES ASSUME Init PROVE LifeInv
  OBVIOUS
<1>1. drops \in 0 .. MaxDrops
  BY BridgeConstants DEF BridgeConstants, Init
<1> QED
  BY <1>1 DEF Init, LifeInv, TypeOK, OwnRequest, DeletionIsLast, DeletedStaysDeleted

\* What leaving the block does to the task, wherever it is suspended.
LEMMA CancelFacts ==
  ASSUME TypeOK, Exit
  PROVE  /\ block \in {"entering", "body"} /\ block' = "awaiting task"
         /\ UNCHANGED <<ephemeral, woken, deletion, listed, drops>>
         /\ \/ /\ task' \in {"sleeping", "awaiting writer", "done"} /\ Abandon
               /\ why' \in {"none", "cancelled", why}
               /\ unwritten' \in {FALSE, unwritten} /\ attached' \in {FALSE, attached}
               /\ swallowed' \in {unwritten, swallowed}
            \/ /\ task = "awaiting writer" /\ swallowed' = TRUE
               /\ UNCHANGED <<task, why, unwritten, attached, post, late, served>>
<1>1. CASE task = "serving"
  BY <1>1 DEF Exit, Cancel, LeaveReadLoop
<1>2. CASE task = "awaiting writer"
  BY <1>2 DEF Exit, Cancel, taskVars
<1>3. CASE task \notin {"serving", "awaiting writer"}
  BY <1>3 DEF Exit, Cancel
<1> QED
  BY <1>1, <1>2, <1>3

\* No step of the bridge or of souk leaves the types.
LEMMA LifeTypeStep == TypeOK /\ [Next]_vars => TypeOK'
<1> SUFFICES ASSUME TypeOK, [Next]_vars
             PROVE  TypeOK'
  OBVIOUS
<1>1. drops' \in 0 .. MaxDrops
  <2>1. drops' = drops \/ (drops < MaxDrops /\ drops' = drops + 1)
    BY DEF Next, vars, SendRegister, Registered, AttemptFails, Welcomed, SendFails, ConnectionDrops, WriterEnds,
           Wake, Enter, Yield, Exit, TaskEnded, Deregistered, SoukRegisters, SoukRegistersLate, SoukAttaches,
           SoukDetaches, SoukDeletes
  <2>2. drops \in 0 .. MaxDrops
    BY DEF TypeOK
  <2> QED
    BY <2>1, <2>2, BridgeConstants DEF BridgeConstants
<1> USE DEF TypeOK, taskVars, requests, soukVars
<1>2. CASE SendRegister \/ Registered \/ Welcomed \/ WriterEnds \/ Wake
  BY <1>1, <1>2, Zenon DEF SendRegister, Registered, Welcomed, Announce, WriterEnds, Wake
<1>3. CASE AttemptFails \/ SendFails
  BY <1>1, <1>3, Zenon DEF AttemptFails, SendFails, Abandon
<1>4. CASE ConnectionDrops
  BY <1>1, <1>4, Zenon DEF ConnectionDrops, LeaveReadLoop, Abandon
<1>5. CASE Enter \/ Yield \/ TaskEnded \/ Deregistered
  BY <1>1, <1>5, Zenon DEF Enter, Yield, TaskEnded, Deregistered
<1>6. CASE Exit
  <2>1. /\ block' = "awaiting task" /\ task' \in {"sleeping", "awaiting writer", "done", task}
        /\ why' \in {"none", "cancelled", why} /\ late' \in {"pending", late} /\ post' \in {"none", post}
        /\ served' \in {"old", served} /\ UNCHANGED deletion
    BY <1>6, CancelFacts DEF Abandon
  <2>2. /\ block' \in {"outside", "entering", "body", "awaiting task", "deregistering", "left"}
        /\ task' \in {"none", "register", "registering", "connecting", "serving", "awaiting writer", "sleeping", "done"}
        /\ why' \in {"none", "dropped", "cancelled"}
        /\ post' \in {"none", "sent", "answered"}
        /\ late' \in {"none", "pending", "overtaken"}
        /\ deletion' \in {"none", "sent", "refused", "deleted", "failed"}
        /\ served' \in {"none", "open", "old"}
    BY <2>1
  <2>3. UNCHANGED <<ephemeral, woken, listed>>
    BY <1>6, CancelFacts
  <2>4. /\ unwritten' = FALSE \/ unwritten' = unwritten
        /\ attached' = FALSE \/ attached' = attached
        /\ swallowed' = TRUE \/ swallowed' = unwritten \/ swallowed' = swallowed
    BY <1>6, CancelFacts
  <2>5. /\ ephemeral' \in BOOLEAN /\ woken' \in BOOLEAN /\ listed' \in BOOLEAN
        /\ unwritten' \in BOOLEAN /\ attached' \in BOOLEAN /\ swallowed' \in BOOLEAN
    BY <2>3, <2>4, Zenon
  <2> QED
    BY <1>1, <2>2, <2>5, Zenon
<1>7. CASE SoukRegisters \/ SoukRegistersLate \/ SoukAttaches \/ SoukDetaches \/ SoukDeletes
  BY <1>1, <1>7, Zenon DEF SoukRegisters, SoukRegistersLate, SoukAttaches, SoukDetaches, SoukDeletes
<1>8. CASE UNCHANGED vars
  <2>1. /\ ephemeral' = ephemeral /\ block' = block /\ task' = task /\ why' = why
        /\ unwritten' = unwritten /\ attached' = attached /\ woken' = woken /\ swallowed' = swallowed
        /\ post' = post /\ late' = late /\ deletion' = deletion
        /\ listed' = listed /\ served' = served
    BY <1>8 DEF vars
  <2>2. /\ ephemeral' \in BOOLEAN /\ woken' \in BOOLEAN /\ listed' \in BOOLEAN
        /\ unwritten' \in BOOLEAN /\ attached' \in BOOLEAN /\ swallowed' \in BOOLEAN
    BY <2>1, Zenon
  <2>3. /\ block' \in {"outside", "entering", "body", "awaiting task", "deregistering", "left"}
        /\ task' \in {"none", "register", "registering", "connecting", "serving", "awaiting writer", "sleeping", "done"}
    BY <2>1, Zenon
  <2>4. /\ why' \in {"none", "dropped", "cancelled"} /\ post' \in {"none", "sent", "answered"}
        /\ late' \in {"none", "pending", "overtaken"}
    BY <2>1, Zenon
  <2>5. /\ deletion' \in {"none", "sent", "refused", "deleted", "failed"}
        /\ served' \in {"none", "open", "old"}
    BY <2>1, Zenon
  <2> QED
    BY <1>1, <2>2, <2>3, <2>4, <2>5, Zenon
<1> QED
  BY <1>2, <1>3, <1>4, <1>5, <1>6, <1>7, <1>8 DEF Next

\* What the deletion rests on is kept by every step.
LEMMA LifeStep == LifeInv /\ [Next]_vars => LifeInv'
<1> SUFFICES ASSUME LifeInv, [Next]_vars
             PROVE  LifeInv'
  OBVIOUS
<1>1. TypeOK'
  BY LifeTypeStep DEF LifeInv
<1>2. OwnRequest' /\ DeletionIsLast' /\ DeletedStaysDeleted'
  <2> USE DEF LifeInv, OwnRequest, DeletionIsLast, DeletedStaysDeleted, taskVars, requests, soukVars
  <2>1. CASE SendRegister \/ Registered \/ Welcomed \/ WriterEnds \/ Wake
    BY <2>1, Zenon DEF SendRegister, Registered, Welcomed, WriterEnds, Wake
  <2>2. CASE AttemptFails \/ SendFails \/ ConnectionDrops
    BY <2>2, Zenon DEF AttemptFails, SendFails, ConnectionDrops, LeaveReadLoop, Abandon
  <2>3. CASE Enter \/ Yield
    BY <2>3 DEF Enter, Yield
  <2>10. CASE Deregistered
    BY <2>10 DEF Deregistered
  <2>4. CASE TaskEnded
    BY <2>4, Zenon DEF TaskEnded, Awaited
  <2>5. CASE Exit
    BY <2>5, CancelFacts, Zenon DEF Abandon
  <2>6. CASE SoukRegisters
    BY <2>6, Zenon DEF SoukRegisters
  <2>7. CASE SoukRegistersLate
    BY <2>7 DEF SoukRegistersLate
  <2>8. CASE SoukAttaches \/ SoukDetaches
    BY <2>8 DEF SoukAttaches, SoukDetaches
  <2>11. CASE SoukDeletes
    BY <2>11 DEF SoukDeletes
  <2>9. CASE UNCHANGED vars
    BY <2>9, Zenon DEF vars
  <2> QED
    BY <2>1, <2>2, <2>3, <2>4, <2>5, <2>6, <2>7, <2>8, <2>9, <2>10, <2>11 DEF Next
<1> QED
  BY <1>1, <1>2 DEF LifeInv

\* An offering whose deletion souk carried out stays off the roster, except
\* where a registration given up on was carried out after it.
THEOREM DeletedIsKeptDeleted == Spec => []DeletedStaysDeleted
<1>1. LifeInv => DeletedStaysDeleted
  BY DEF LifeInv
<1> QED
  BY <1>1, LifeInit, LifeStep, PTL DEF Spec

\* serving(), its task and the requests to the registry keep to the states the
\* code gives them, in every order of drops, cancels and answers.
THEOREM TypeCorrect == Spec => []TypeOK
<1>1. LifeInv => TypeOK
  BY DEF LifeInv
<1> QED
  BY <1>1, LifeInit, LifeStep, PTL DEF Spec

=============================================================================
