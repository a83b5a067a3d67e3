------------------------------- MODULE MCInbox ------------------------------
\* Finite instances of Inbox for TLC.
EXTENDS Inbox, TLC

CONSTANTS c1, m1, m2, one, here, there, k1, word

OneCallback == {c1}
Messages == {m1, m2}
Batches == c1 :> {m1, m2}
\* Both messages come from the same number, and at the same time.
Numbers == m1 :> one @@ m2 :> one
Same == Permutations(Messages)

TwoInstances == {here, there}
OneClient == {k1}
Homes == k1 :> here

\* A word that both messages have in a column, and answers across columns.
Words == {word}
Hits == word :> [c \in Column |-> CASE c = "receiver_data" -> Messages
                                    [] c = "together"      -> Messages \cup {None}
                                    [] OTHER               -> {}]
Queries == [kind : {"messages", "conversations"}]
           \cup {[kind |-> "key", pattern |-> word, column |-> "receiver_data"],
                 [kind |-> "conversation content", link |-> 1, pattern |-> word]}
=============================================================================
