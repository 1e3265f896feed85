------------------------ MODULE MCConversationRouter ------------------------
(* Small instances of ConversationRouter for TLC. *)
EXTENDS ConversationRouter

CONSTANTS r1, r2, r3, c1, c2, c3

\* What StoreBatch can yield for a run.
MCBatches ==
  { b \in UNION { [1 .. n -> [seq : 1 .. MaxEvents, call : {NoId}, native : {NoId},
                              kind : {"delta", "run.terminal"}]] : n \in 1 .. MaxEvents } :
      \A i \in DOMAIN b : b[i].seq = b[1].seq + i - 1 }

MCScopes == 1 .. MaxGen

\* Two prompts to one conversation; one prompt; a parent, its child and the
\* child's child, each in a conversation of its own.
OneConversation == [r \in Runs |-> c1]
NoParent        == [r \in Runs |-> NoRun]
TreeConv        == [r \in Runs |-> IF r = r1 THEN c1 ELSE IF r = r2 THEN c2 ELSE c3]
TreeParent      == [r \in Runs |-> IF r = r1 THEN NoRun ELSE IF r = r2 THEN r1 ELSE r2]
=============================================================================
