---------------------------- MODULE MCAgentLoop ----------------------------
(***************************************************************************)
(* A small world for AgentLoop: a model that answers, sends, sets a status *)
(* too early or in time, looks things up twice, is cut off in an input or  *)
(* before one, or stops for no reason; memory files of older versions.     *)
(***************************************************************************)
EXTENDS AgentLoop

C(tool, input) == [tool |-> tool, input |-> input]
R(calls, why) == [calls |-> calls, stop |-> why, text |-> TRUE,
                   server |-> "none", think |-> "none"]

MCToolSets == {Tools, Tools \ {"lookup"}}

MCMails == {UserMessage("human", TRUE), UserMessage("agent", FALSE)}

MCReplies ==
    { [R(<< >>, "end_turn") EXCEPT !.text = FALSE],
      [R(<< >>, "max_tokens") EXCEPT !.server = "ok", !.think = "ok"],
      R(<<C("status", "full"), C("send", "full")>>, "tool_use"),
      R(<<C("lookup", "full"), C("lookup", "full")>>, "tool_use"),
      R(<<C("send", "cut"), C("abort", "full")>>, "max_tokens"),
      R(<<C("lookup", "unbegun")>>, "max_tokens"),
      R(<<C("snooze", "full"), C("unknown", "empty")>>, "tool_use") }

(* A model behind OpenRouter that reports "stop" along with its calls.     *)
MCStopWithCalls == MCReplies \cup {R(<<C("send", "full")>>, "end_turn")}

(* What older versions left behind: results of server tools that cannot be *)
(* sent again, with a call in the same message, and thinking without a     *)
(* signature; a history that starts in the middle.                         *)
MCFiles ==
    LET asked == UserMessage("human", FALSE)
        answer == [Blank EXCEPT !.role = "assistant", !.text = TRUE]
        call == [answer EXCEPT !.calls = {90}, !.server = "corrupt", !.think = "bad"]
        search == [answer EXCEPT !.server = "extra"]
        result == [Blank EXCEPT !.results = {90}, !.big = {90}]
    IN { << >>,
         <<asked, call, result, search>>,
         <<answer, UserMessage("agent", FALSE), [answer EXCEPT !.think = "bad"]>>,
         <<result, asked, [Blank EXCEPT !.role = "assistant", !.server = "corrupt"]>> }

=============================================================================
