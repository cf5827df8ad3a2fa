--------------------------- MODULE MCLinkQueries ---------------------------
EXTENDS LinkQueries

\* Every check of _answer_query passed and failed, one at a time.
EachCase ==
  { [limit |-> NoLimit, thread |-> "own",   shape |-> "sound"],
    [limit |-> 1,       thread |-> "own",   shape |-> "sound"],
    [limit |-> 0,       thread |-> "own",   shape |-> "sound"],
    [limit |-> NoLimit, thread |-> "other", shape |-> "sound"],
    [limit |-> NoLimit, thread |-> "own",   shape |-> "unreadable"] }

\* The tail of the merge is what Python's filter keeps.
ASSUME TailIsTheFilter ==
  \A seen \in SUBSET (1 .. 3) : \A n \in 0 .. 4 : \A s \in [1 .. n -> 1 .. 4] :
    TailOf(seen, s) = SelectSeq(s, LAMBDA m : m \notin seen)

=============================================================================
