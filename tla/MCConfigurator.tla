---------------------------- MODULE MCConfigurator ----------------------------
(***************************************************************************)
(* Small deployments for Configurator: two addresses, two remote servers   *)
(* and a local one, the forms that rename, assign, delete and collide.     *)
(***************************************************************************)
EXTENDS Configurator, TLC

MCStem == [e \in Emails |-> e]
MCRoster == [agents |-> ("kiku" :> [tools |-> {"crm", "xero"}, own |-> TRUE]),
             common |-> None, partners |-> {}]
MCCatalog == ("crm" :> "v1")

Form(op, from, to, tools, value) ==
    [op |-> op, from |-> from, to |-> to, tools |-> tools, value |-> value]

Rename == Form("agent", "kiku", "momo", {"crm"}, "pw1")
Reassign == Form("agent", "kiku", "kiku", {"crm", "docs"}, "pw2")
Return == Form("agent", "kiku", "kiku", {"crm", "xero"}, None)
AddAgent == Form("agent", None, "momo", {"status"}, None)
AddServer == Form("mcp", None, "docs", {}, "v1")
EditServer == Form("mcp", "crm", "crm", {}, "v2")
RenameServer == Form("mcp", "crm", "docs", {}, "v2")
DropServer == Form("dropMcp", "crm", None, {}, None)
Knowledge == Form("knowledge", None, "n1", {}, "t1")
RenameKnowledge == Form("knowledge", "n1", "n2", {}, "t2")
DropKnowledge == Form("dropKnowledge", "n1", None, {}, None)
Defaults == Form("defaults", None, None, {}, "own")
Partner == Form("partner", None, "partner", {}, None)
DropPartner == Form("dropPartner", "partner", None, {}, None)
Enable == Form("enable", None, None, {}, None)
Disable == Form("disable", None, None, {}, None)

MCForms == {Rename, Reassign, Return, AddAgent, AddServer, EditServer, RenameServer,
            DropServer, Knowledge, RenameKnowledge, DropKnowledge, Defaults, Partner, DropPartner,
            Enable, Disable}
AgentForms == {Rename, Reassign}
ServerForms == {EditServer, RenameServer}

=============================================================================
