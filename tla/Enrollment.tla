----------------------------- MODULE Enrollment -----------------------------
(***************************************************************************)
(* How a node gets an agent: administrators issue enrollment tokens, an    *)
(* agent exchanges one for its credential and writes its configuration,    *)
(* and the panel accepts or refuses what the credential is used for.       *)
(*                                                                         *)
(* One node.  A token is the number of its issue, a credential the number  *)
(* of the exchange that created it: both are 256 random bits in the code,  *)
(* of which the panel keeps a hash.                                        *)
(***************************************************************************)
EXTENDS Naturals, Sequences

CONSTANTS
    Admins,       \* slots for requests to issue a token
    Processes,    \* slots for processes of the agent's program on the node
    MaxTokens,    \* bound on tokens
    MaxTroubles   \* bound on failures, and on what nobody needed to do

ASSUME BoundsAssumption == MaxTokens \in Nat /\ MaxTroubles \in Nat

None == 0
Tokens == 1..MaxTokens
Credentials == 1..MaxTokens

VARIABLES
    tokens,     \* how many tokens were generated
    row,        \* the node's row in the table of tokens
    gone,       \* why there is no such row
    issue,      \* the requests to issue a token
    handed,     \* the tokens an administrator was given
    exchanges,  \* the token each credential was created from
    agent,      \* the node's row in the table of agents
    late,       \* tokens of requests whose client has given up
    process,    \* the processes
    config,     \* the configuration file, and the credential in it
    troubles    \* how much went wrong or was done without need

panelVars == <<tokens, row, gone, issue, handed, exchanges, agent, late>>
vars == <<panelVars, process, config, troubles>>

NoRow == [token |-> None, expired |-> FALSE]
Off == [pc |-> "off", runs |-> FALSE, token |-> None, cred |-> None]

TypeOK ==
    /\ tokens \in 0..MaxTokens
    /\ row \in [token: Tokens \cup {None}, expired: BOOLEAN]
    /\ gone \in {"never", "deleted", "exchanged", "failed"}
    /\ issue \in [Admins -> Tokens \cup {None}]
    /\ handed \in SUBSET Tokens
    /\ exchanges \in Seq(Tokens)
    /\ Len(exchanges) <= MaxTokens
    /\ agent \in [cred: Credentials \cup {None}, revoked: BOOLEAN]
    /\ late \in SUBSET Tokens
    /\ process \in [Processes -> [pc: {"off", "post", "answer", "write", "load", "up"},
                                  runs: BOOLEAN, token: Tokens \cup {None},
                                  cred: Credentials \cup {None}]]
    /\ config \in [file: {"missing", "broken", "written"},
                   cred: Credentials \cup {None}]
    /\ troubles \in 0..MaxTroubles

Init ==
    /\ tokens = 0
    /\ row = NoRow
    /\ gone = "never"
    /\ issue = [a \in Admins |-> None]
    /\ handed = {}
    /\ exchanges = <<>>
    /\ agent = [cred |-> None, revoked |-> FALSE]
    /\ late = {}
    /\ process = [p \in Processes |-> Off]
    /\ config = [file |-> "missing", cred |-> None]
    /\ troubles = 0

Trouble == troubles < MaxTroubles /\ troubles' = troubles + 1

\* Done because it is needed, or at the expense of a trouble.
NeededOr(need) == (need /\ UNCHANGED troubles) \/ (~need /\ Trouble)

-----------------------------------------------------------------------------
(* The panel. *)

\* authenticate_agent.
Accepted(cred) == agent.cred = cred /\ cred # None /\ ~agent.revoked

Live(token) == row.token = token /\ token # None /\ ~row.expired

InService == \E p \in Processes : process[p].pc = "up" /\ Accepted(process[p].cred)

Enrolling(p) == process[p].pc \in {"post", "answer", "write"}

\* The first statement of the request to issue a token: the old one goes.
\* What is needed is one token at a time, on a node that has neither one that
\* works and that somebody was given, nor a credential that does, nor one on
\* its way.
DeleteToken(a) ==
    /\ issue[a] = None
    /\ tokens < MaxTokens
    /\ NeededOr(/\ ~(Live(row.token) /\ row.token \in handed)
                /\ ~Accepted(config.cred)
                /\ \A b \in Admins : issue[b] = None
                /\ \A p \in Processes : ~Enrolling(p))
    /\ tokens' = tokens + 1
    /\ issue' = [issue EXCEPT ![a] = tokens']
    /\ row' = NoRow
    /\ gone' = "deleted"
    /\ UNCHANGED <<handed, exchanges, agent, late, process, config>>

\* Mutant: the request that meets another's row cleans up after itself.
InsertOrClean(a) ==
    /\ issue[a] # None
    /\ row' = IF row = NoRow THEN [token |-> issue[a], expired |-> FALSE]
                             ELSE NoRow
    /\ handed' = IF row = NoRow THEN handed \cup {issue[a]} ELSE handed
    /\ issue' = [issue EXCEPT ![a] = None]
    /\ UNCHANGED <<tokens, gone, exchanges, agent, late, process, config,
                   troubles>>

\* The second one.  The node is the row's key: when another request has put
\* its token there in the meantime, this one ends with an error.
InsertToken(a) ==
    /\ issue[a] # None
    /\ \/ /\ row = NoRow
          /\ row' = [token |-> issue[a], expired |-> FALSE]
          /\ handed' = handed \cup {issue[a]}
       \/ /\ row # NoRow
          /\ UNCHANGED <<row, handed>>
    /\ issue' = [issue EXCEPT ![a] = None]
    /\ UNCHANGED <<tokens, gone, exchanges, agent, late, process, config,
                   troubles>>

\* The token is in its row and nobody is told: the request is dropped after
\* its second statement, or the answer does not arrive.
InsertUnanswered(a) ==
    /\ issue[a] # None
    /\ row = NoRow
    /\ Trouble
    /\ row' = [token |-> issue[a], expired |-> FALSE]
    /\ issue' = [issue EXCEPT ![a] = None]
    /\ UNCHANGED <<tokens, gone, handed, exchanges, agent, late, process, config>>

\* The database fails, or the request is dropped, between the two.
InsertFails(a) ==
    /\ issue[a] # None
    /\ Trouble
    /\ issue' = [issue EXCEPT ![a] = None]
    /\ gone' = "failed"
    /\ UNCHANGED <<tokens, row, handed, exchanges, agent, late, process, config>>

\* Fifteen minutes pass.
Expire ==
    /\ row # NoRow /\ ~row.expired
    /\ Trouble
    /\ row' = [row EXCEPT !.expired = TRUE]
    /\ UNCHANGED <<tokens, gone, issue, handed, exchanges, agent, late, process,
                   config>>

\* The administrator revokes the node's agent.
Revoke ==
    /\ agent.cred # None /\ ~agent.revoked
    /\ Trouble
    /\ agent' = [agent EXCEPT !.revoked = TRUE]
    /\ UNCHANGED <<tokens, row, gone, issue, handed, exchanges, late, process,
                   config>>

\* Mutant: the token is looked up and not deleted.
LooksUpToken(token) ==
    /\ Live(token)
    /\ UNCHANGED <<row, gone>>
    /\ exchanges' = Append(exchanges, token)
    /\ agent' = [cred |-> Len(exchanges'), revoked |-> FALSE]

\* Mutant: a node that has a row keeps its credential.
KeepsCredential(token) ==
    /\ Live(token)
    /\ row' = NoRow
    /\ gone' = "exchanged"
    /\ exchanges' = Append(exchanges, token)
    /\ agent' = [cred |-> IF agent.cred = None THEN Len(exchanges') ELSE agent.cred,
                 revoked |-> FALSE]

\* The transaction of enroll: the token is deleted and a new credential takes
\* the place of the node's previous one.
ExchangeToken(token) ==
    /\ Live(token)
    /\ row' = NoRow
    /\ gone' = "exchanged"
    /\ exchanges' = Append(exchanges, token)
    /\ agent' = [cred |-> Len(exchanges'), revoked |-> FALSE]

-----------------------------------------------------------------------------
(* The agent's program on the node. *)

Post(p, token, runs) ==
    /\ process[p].pc = "off"
    /\ process' = [process EXCEPT ![p] = [Off EXCEPT !.pc = "post",
                                          !.token = token, !.runs = runs]]
    /\ UNCHANGED <<panelVars, config>>

\* `enroll`, whatever the node's configuration is.  What is needed is one at a
\* time, with a token that works, on a node whose credential does not.
CommandEnroll(p, token) ==
    /\ token \in handed
    /\ NeededOr(/\ Live(token)
                /\ ~Accepted(config.cred)
                /\ \A q \in Processes : ~Enrolling(q))
    /\ Post(p, token, FALSE)

\* `run` without a configuration enrolls with the token of its environment.
RunEnrolls(p, token) ==
    /\ token \in handed
    /\ config.file = "missing"
    /\ NeededOr(Live(token) /\ \A q \in Processes : ~Enrolling(q))
    /\ Post(p, token, TRUE)

\* `run` with one loads it.
RunLoads(p) ==
    /\ process[p].pc = "off"
    /\ config.file # "missing"
    /\ NeededOr(\A q \in Processes : process[q].pc = "off")
    /\ process' = [process EXCEPT ![p] = [Off EXCEPT !.pc = "load", !.runs = TRUE]]
    /\ UNCHANGED <<panelVars, config>>

\* The panel exchanges the token, or refuses it and the program ends.
Enroll(p) ==
    /\ process[p].pc = "post"
    /\ \/ /\ ExchangeToken(process[p].token)
          /\ process' = [process EXCEPT ![p].pc = "answer",
                                        ![p].cred = Len(exchanges')]
       \/ /\ ~Live(process[p].token)
          /\ process' = [process EXCEPT ![p] = Off]
          /\ UNCHANGED <<row, gone, exchanges, agent>>
    /\ UNCHANGED <<tokens, issue, handed, late, config, troubles>>

\* A request whose client has given up is handled all the same.
EnrollLate(token) ==
    /\ token \in late
    /\ \/ ExchangeToken(token)
       \/ ~Live(token) /\ UNCHANGED <<row, gone, exchanges, agent>>
    /\ late' = late \ {token}
    /\ UNCHANGED <<tokens, issue, handed, process, config, troubles>>

\* Mutant: the file is created, and kept when there is one.
CreatesConfig(p) ==
    /\ process[p].pc = "answer"
    /\ \/ /\ config.file = "missing"
          /\ config' = [file |-> "broken", cred |-> None]
          /\ process' = [process EXCEPT ![p].pc = "write"]
       \/ /\ config.file # "missing"
          /\ process' = [process EXCEPT ![p] = IF process[p].runs
                                              THEN [@ EXCEPT !.pc = "load"] ELSE Off]
          /\ UNCHANGED config
    /\ UNCHANGED <<panelVars, troubles>>

\* save: the file is truncated ...
TruncateConfig(p) ==
    /\ process[p].pc = "answer"
    /\ config' = [file |-> "broken", cred |-> None]
    /\ process' = [process EXCEPT ![p].pc = "write"]
    /\ UNCHANGED <<panelVars, troubles>>

\* ... and written.
WriteConfig(p) ==
    /\ process[p].pc = "write"
    /\ config' = [file |-> "written", cred |-> process[p].cred]
    /\ process' = [process EXCEPT ![p] = IF process[p].runs
                                         THEN [@ EXCEPT !.pc = "load"] ELSE Off]
    /\ UNCHANGED <<panelVars, troubles>>

\* load, and run up to its listener: a file that does not parse or a port that
\* is taken ends the program.
Load(p) ==
    /\ process[p].pc = "load"
    /\ process' = [process EXCEPT ![p] =
           IF config.file = "written" /\ \A q \in Processes : process[q].pc # "up"
           THEN [Off EXCEPT !.pc = "up", !.runs = TRUE, !.cred = config.cred]
           ELSE Off]
    /\ UNCHANGED <<panelVars, config, troubles>>

\* An agent the panel refuses is stopped by its operator.
Stop(p) ==
    /\ process[p].pc = "up"
    /\ ~Accepted(process[p].cred)
    /\ process' = [process EXCEPT ![p] = Off]
    /\ UNCHANGED <<panelVars, config, troubles>>

\* The program is killed, times out, or fails to write its file.  A request
\* it has sent may still be on its way.
Dies(p) ==
    /\ process[p].pc # "off"
    /\ Trouble
    /\ process' = [process EXCEPT ![p] = Off]
    /\ \/ UNCHANGED late
       \/ process[p].pc = "post" /\ late' = late \cup {process[p].token}
    /\ UNCHANGED <<tokens, row, gone, issue, handed, exchanges, agent, config>>

-----------------------------------------------------------------------------

PanelStep ==
    \/ \E a \in Admins : \/ DeleteToken(a)
                        \/ InsertToken(a) \/ InsertUnanswered(a) \/ InsertFails(a)
    \/ Expire
    \/ Revoke
    \/ \E token \in Tokens : EnrollLate(token)

ProcessStep(p) ==
    \/ \E token \in Tokens : CommandEnroll(p, token) \/ RunEnrolls(p, token)
    \/ RunLoads(p) \/ Enroll(p) \/ TruncateConfig(p) \/ WriteConfig(p)
    \/ Load(p) \/ Stop(p) \/ Dies(p)

Next == PanelStep \/ \E p \in Processes : ProcessStep(p)

Spec == Init /\ [][Next]_vars

\* Requests are handled and programs run.
Fairness ==
    /\ \A a \in Admins : WF_vars(InsertToken(a))
    /\ \A p \in Processes :
        WF_vars(Enroll(p) \/ TruncateConfig(p) \/ WriteConfig(p) \/ Load(p))

FairSpec == Spec /\ Fairness

-----------------------------------------------------------------------------
(* Properties. *)

\* A token makes one credential, whatever is sent twice or late.
OneTokenOneCredential ==
    \A i, j \in 1..Len(exchanges) : exchanges[i] = exchanges[j] => i = j

\* A credential that was replaced or revoked is never accepted again, whatever
\* is issued and enrolled afterwards.
RefusedForGood ==
    [][\A cred \in 1..Len(exchanges) : ~Accepted(cred) => ~Accepted(cred)']_vars

\* Requests to issue a token that overlap leave one that works, although the
\* two statements of each are no transaction: a row that was deleted for a new
\* token, and not used, is missing only while some request has still to insert
\* its own, or after an insert failed.
OverlappingIssuesLeaveOne ==
    row = NoRow /\ gone = "deleted" => \E a \in Admins : issue[a] # None

\* Nothing that fails leaves the node in a state that a new token, a new
\* enrollment and a restart do not repair: tokens that nobody was told of,
\* answers lost after the exchange, files truncated and not written, requests
\* handled late, revocations.  The administrator and the operator do what is
\* needed, as long as it is.
Operated ==
    /\ WF_vars(\E a \in Admins : DeleteToken(a) /\ UNCHANGED troubles)
    /\ WF_vars(\E p \in Processes, token \in Tokens :
                  CommandEnroll(p, token) /\ UNCHANGED troubles)
    /\ WF_vars(\E p \in Processes : RunLoads(p) /\ UNCHANGED troubles)
    /\ WF_vars(\E p \in Processes : Stop(p))

ServiceRestored == Operated => <>[]InService
=============================================================================
