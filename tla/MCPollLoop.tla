----------------------------- MODULE MCPollLoop -----------------------------
(***************************************************************************)
(* A small world for PollLoop: thread "A" with a request, a reply on it    *)
(* and a bounce of something sent on it; thread "B" with a request of its  *)
(* own and a message from a sender who is not allowed.                     *)
(***************************************************************************)
EXTENDS PollLoop

MCThreads == {"A", "B"}

MCRoot == [m \in Msgs |-> IF m \in {"ask", "reply", "bounce"} THEN "A" ELSE "B"]

MCRefs == [m \in Msgs |-> IF m \in {"reply", "bounce"} /\ "ask" \in Msgs
                            THEN <<"ask">> ELSE << >>]

MCSender == [m \in Msgs |-> CASE m \in {"ask", "other"} -> "user"
                              [] m \in {"reply", "bounce"} -> "coworker"
                              [] OTHER -> "stranger"]

MCAutoReplies == Msgs \cap {"bounce"}

MCRejected == Msgs \cap {"spam"}

=============================================================================
