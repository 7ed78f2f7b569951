--------------------------- MODULE MCMailNetwork ---------------------------
(***************************************************************************)
(* Small offices for MailNetwork: a coordinator, a coworker that keeps to  *)
(* whom it may serve, one whose mailbox is gone, and two people.           *)
(***************************************************************************)
EXTENDS MailNetwork

Lists(kiku, beta) == [a \in Agents |-> IF a = "kiku" THEN kiku
                                       ELSE IF a = "beta" THEN beta ELSE {}]

MCWhitelist == Lists({"ann", "bob", "kiku", "beta"}, {})
MCBlacklist == Lists({}, {"bob"})
Nobody == Lists({}, {})

Messages(new, reply, message, report, strict, ooo) ==
    [new |-> new, reply |-> reply, message |-> message,
     report |-> report, strict |-> strict, giveup |-> 1, ooo |-> ooo]

MCBudgets == { Messages(1, 0, 2, 0, 0, 1), Messages(1, 1, 1, 0, 0, 1),
               Messages(1, 1, 0, 1, 0, 5), Messages(2, 0, 0, 1, 0, 1),
               Messages(2, 0, 0, 0, 1, 1) }
MCRelay == {Messages(1, 0, 2, 0, 0, 0)}
MCReplies == {Messages(1, 2, 0, 1, 0, 0)}

=============================================================================
