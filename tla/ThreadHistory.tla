---------------------------- MODULE ThreadHistory ----------------------------
(***************************************************************************)
(* What an agent is shown of its conversation: with_thread_history merges  *)
(* the messages souk holds of a thread into the ones the caller sent for   *)
(* this run (providers/pydantic-ai-agent/pydantic_ai_agent/history.py).    *)
(* A message is its position in the conversation, which is also its id.    *)
(***************************************************************************)
EXTENDS Naturals, Sequences, FiniteSets

Elements(s) == {s[i] : i \in DOMAIN s}

\* Where s holds what is not in seen, and those of them up to the i-th.
Unseen(seen, s)     == {i \in DOMAIN s : s[i] \notin seen}
UpTo(seen, s, i)    == {j \in Unseen(seen, s) : j <= i}

\* tail = [m for m in messages if not in seen]: the n-th of the tail is the
\* one of s up to which n are kept.  SelectSeq says the same, but it is a
\* recursive definition and nothing can be proved of it.
TailOf(seen, s) ==
  [n \in 1 .. Cardinality(Unseen(seen, s)) |->
     s[CHOOSE i \in Unseen(seen, s) : Cardinality(UpTo(seen, s, i)) = n]]

\* Mutant: the caller's own messages come first.
TailFirst(history, messages) ==
  TailOf(Elements(history), messages) \o history

\* [*history, *tail]: what the caller sent and the answer does not hold goes
\* behind it.
Merge(history, messages) ==
  history \o TailOf(Elements(history), messages)

\* with_thread_history: an empty answer, like a failed query, an agent with
\* no limit configured or a provider without its link, leaves the input alone.
WithThreadHistory(history, messages) ==
  IF history = <<>> THEN messages ELSE Merge(history, messages)

=============================================================================
