--------------------------- MODULE MCConversation ---------------------------
EXTENDS Conversation

\* Two providers under one storefront name.
CONSTANTS p, q

Prints == (p :> "fp") @@ (q :> "fq")
Labels == (p :> "stall") @@ (q :> "stall")

\* Both may offer the same name, and one of them a second one.
Offers == {[key |-> p, name |-> "chef"], [key |-> q, name |-> "chef"], [key |-> q, name |-> "baker"]}

Texts   == [chef |-> <<"cooks", "for", "you">>, baker |-> <<"bread">>]
Lengths == [cooks |-> 5, for |-> 3, you |-> 3, bread |-> 5, help |-> 4]

\* The first answer has content.
OneWithContent == <<1, 0, 0>>

TheChef == [name |-> "chef", said |-> "fp"]

=============================================================================
