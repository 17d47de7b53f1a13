------------------------------ MODULE MCGateway ------------------------------
(* An owner and an analyst who propose and approve, and an approver; a group *)
(* whose threshold drops from two to one, and a name nobody has configured.  *)
(* The plans have a source, a step between and a sink.                       *)
EXTENDS Gateway, TLC

CONSTANTS owner, ana, bo, c1, c2, r1, r2

MCInitialRoles == owner :> "owner" @@ ana :> "security_analyst" @@ bo :> "approver"

Approvals(n) ==
    [roles |-> {"owner", "admin", "security_analyst", "approver"},
     members |-> {owner}, min |-> n]

MCInitialGroups ==
    "security-approvers" :> Approvals(2) @@ "unconfigured" :> NoGroup

MCGroupConfigs == {Approvals(1)}

MCLoad(direct, registrations, proposals, voting, changes) ==
    [direct |-> direct, registrations |-> registrations, proposals |-> proposals,
     votes |-> voting, changes |-> changes]

\* One request with four votes and a change, two with a vote each, one beside
\* two direct registrations, one registration beside plans, and plans alone.
Voting == {MCLoad(FALSE, 0, 1, 4, 1), MCLoad(FALSE, 0, 2, 2, 0), MCLoad(TRUE, 2, 1, 1, 0)}
Registering == MCLoad(TRUE, 1, 0, 0, 0)
Idling == MCLoad(FALSE, 0, 0, 0, 0)
MCLoads == Voting \cup {Registering, Idling}

Plain(id, tool, op, deps) ==
    [id |-> id, tool |-> tool, op |-> op, kind |-> "", server |-> ByUri,
     destination |-> "none", labels |-> {}, untrusted |-> FALSE, sensitivity |-> "PUBLIC",
     secretName |-> FALSE, deps |-> deps, sanitizes |-> {}, redactable |-> FALSE,
     protected |-> FALSE, amount |-> 0, flaws |-> {}]

Sources(deps) ==
    LET read == Plain("a", "file", "read", deps)
    IN  {read,
         [read EXCEPT !.secretName = TRUE],
         [read EXCEPT !.sensitivity = "CONFIDENTIAL_DATA"],
         [read EXCEPT !.untrusted = TRUE],
         [read EXCEPT !.untrusted = TRUE, !.labels = {"SECRET_DATA"}]}

Between(id, deps) ==
    LET note == Plain(id, "file", "summarize", deps)
        mcp  == [Plain(id, "mcp_tool", "call", deps) EXCEPT !.flaws = {"unverified"}]
    IN  {note,
         [note EXCEPT !.sanitizes = {"SECRET_DATA"}],
         [note EXCEPT !.sanitizes = {"UNTRUSTED_INPUT", "CONFIDENTIAL_DATA"}],
         Plain(id, "database", "drop", deps),
         [Plain(id, "workflow", "trigger", deps) EXCEPT !.amount = 1],
         mcp, [mcp EXCEPT !.server = 1]}

Sinks(deps) ==
    LET send == [Plain("c", "email", "send", deps) EXCEPT !.destination = "elsewhere"]
    IN  {send,
         [send EXCEPT !.redactable = TRUE],
         [send EXCEPT !.redactable = TRUE, !.sensitivity = "CONFIDENTIAL_DATA",
                      !.sanitizes = {"UNTRUSTED_INPUT"}],
         [send EXCEPT !.destination = "partner"],
         [Plain("c", "github", "push", deps) EXCEPT !.protected = TRUE],
         [Plain("c", "github", "push", deps) EXCEPT !.protected = TRUE, !.destination = "partner"],
         Plain("c", "memory", "write", deps),
         [Plain("c", "payment", "pay", deps) EXCEPT !.amount = 1]}

Agents ==
    {NoAgent, Foreign,
     [status |-> "known", tools |-> {"file", "database", "email", "github", "mcp_tool", "memory"},
      operations |-> "database" :> {"select", "drop"}, domains |-> {"partner"},
      maxPayment |-> 0]}

Asked == [tools |-> {}, destructive |-> FALSE]

PlansOf(sequences) ==
    [actions : sequences, agent : Agents, intent : {Asked}]

\* The last action may depend on a later one, and the second may have the first
\* one's id.
ThreeActions ==
    UNION {{<<s, b, e>> : s \in Sources(first), b \in Between("b", {"a"}), e \in Sinks(last)} :
                first \in {{}, {"b"}}, last \in {{}, {"a"}, {"b"}, {"a", "b"}}}
TwoActions ==
    {<<s, b>> : s \in Sources({}), b \in Between("a", {"a"})}

MCPlansUnder ==
    [l \in MCLoads |->
        IF l = Idling THEN PlansOf(ThreeActions \cup TwoActions \cup {<< >>})
        ELSE IF l = Registering
        THEN PlansOf({<<b, c>> : b \in Between("b", {}), c \in Between("c", {"b"})})
        ELSE {}]

Symmetry == Permutations({c1, c2}) \cup Permutations({r1, r2})
==============================================================================
