----------------------------- MODULE AnswerStream -----------------------------
(***************************************************************************)
(* What a relayed answer promises whoever asked for it, whatever sockets   *)
(* do in between: the chunks received are the first ones the LLM yielded,  *)
(* in order, and the answer passes as complete only if the LLM finished it *)
(* and every chunk arrived.  The KYOK relay makes this promise to the      *)
(* agent that asked for a completion, and a run of the openai-compat       *)
(* provider to the caller who reads its stream.                            *)
(***************************************************************************)
EXTENDS Naturals, Sequences

CONSTANTS
  Reqs,      \* what is asked
  Chunks     \* chunks an answer has at most

VARIABLES
  state,     \* completion -> "new", "open", "completed" or "failed"
  received,  \* completion -> chunks its caller has, by their number
  yielded,   \* completion -> how many chunks the LLM has yielded
  finished   \* completion -> has the LLM finished its answer

vars == <<state, received, yielded, finished>>

Init ==
  /\ state = [q \in Reqs |-> "new"]
  /\ received = [q \in Reqs |-> <<>>]
  /\ yielded = [q \in Reqs |-> 0]
  /\ finished = [q \in Reqs |-> FALSE]

\* The completion is taken on, or turned away.
Ask(q) ==
  /\ state[q] = "new"
  /\ \E s \in {"open", "failed"} : state' = [state EXCEPT ![q] = s]
  /\ UNCHANGED <<received, yielded, finished>>

\* The LLM goes on with an answer, even one nobody waits for any more.
Yield(q) ==
  /\ state[q] # "new"
  /\ ~ finished[q]
  /\ yielded[q] < Chunks
  /\ yielded' = [yielded EXCEPT ![q] = @ + 1]
  /\ UNCHANGED <<state, received, finished>>

Finish(q) ==
  /\ state[q] # "new"
  /\ finished' = [finished EXCEPT ![q] = TRUE]
  /\ UNCHANGED <<state, received, yielded>>

\* The next chunk reaches the caller.
Receive(q) ==
  /\ state[q] = "open"
  /\ Len(received[q]) < yielded[q]
  /\ received' = [received EXCEPT ![q] = Append(@, Len(@) + 1)]
  /\ UNCHANGED <<state, yielded, finished>>

\* A complete answer, all of it delivered.
Complete(q) ==
  /\ state[q] = "open"
  /\ finished[q]
  /\ Len(received[q]) = yielded[q]
  /\ state' = [state EXCEPT ![q] = "completed"]
  /\ UNCHANGED <<received, yielded, finished>>

Fail(q) ==
  /\ state[q] = "open"
  /\ state' = [state EXCEPT ![q] = "failed"]
  /\ UNCHANGED <<received, yielded, finished>>

Next == \E q \in Reqs :
  Ask(q) \/ Yield(q) \/ Finish(q) \/ Receive(q) \/ Complete(q) \/ Fail(q)

Spec == Init /\ [][Next]_vars
=============================================================================
