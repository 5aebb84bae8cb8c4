--------------------------- MODULE MCEventManager ---------------------------
EXTENDS EventManager, TLC

CONSTANTS e1, e2, e3, g1, g2, a1, a2, a3, b

\* One task publishes e1, e2 and e3; another one publishes e2 as well, as two
\* monitors of one worker do.
MCTopic == [s \in Subscribers |-> g1]
MCGroup == [e \in Events |-> g1]
MCDataGroup == [e \in Events |-> CASE e = e1 -> NoGroup [] e = e2 -> g1 [] e = e3 -> g2]
MCEvent == a1 :> e1 @@ a2 :> e2 @@ a3 :> e3 @@ b :> e2
MCBefore == a1 :> {} @@ a2 :> {a1} @@ a3 :> {a1, a2} @@ b :> {}
MCEarlier == [c \in Calls |-> MCBefore[c]]
=============================================================================
