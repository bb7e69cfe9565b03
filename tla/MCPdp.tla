------------------------------- MODULE MCPdp -------------------------------
(***************************************************************************)
(* A menu of policies, one rule each and some that set two, and requests   *)
(* on both sides of each of their limits, for TLC.                         *)
(***************************************************************************)
EXTENDS Replay

CONSTANTS bot, bare, acme, corp, pay, Pay, star, mail, user, robot, large, risk, bad,
          agentToken, clientKey, web, none

\* pay and Pay are one name in two spellings; a grant can be of star by no name.
MCFold == [t \in {pay, Pay, star, mail, AllTools} |-> IF t = Pay THEN pay ELSE t]

\* A policy of no org, on the one agent, that sets nothing.
Blank ==
    [target |-> {bot}, org |-> NoOrg, pins |-> TRUE,
     denyTool |-> {}, allowTool |-> {}, grantTool |-> {}, floor |-> FALSE,
     maxChainDepth |-> 0, roots |-> {}, denyIfUnproven |-> FALSE,
     denyIfUnattested |-> FALSE, sources |-> {}, models |-> {}, maxSteps |-> 0,
     domains |-> {}, denyAbove |-> NoLimit, humanAbove |-> NoLimit,
     signal |-> NoRule]

Rule(whenAbsent) ==
    [name |-> risk, values |-> {bad}, min |-> 1, whenAbsent |-> whenAbsent]

MCPolicies ==
    {[Blank EXCEPT !.denyTool = {pay}],
     [Blank EXCEPT !.allowTool = {pay}],
     [Blank EXCEPT !.allowTool = {mail}, !.target = {bot, bare}, !.pins = FALSE],
     [Blank EXCEPT !.floor = TRUE, !.target = {bot, bare}, !.pins = FALSE],
     [Blank EXCEPT !.floor = TRUE, !.grantTool = {pay}],
     [Blank EXCEPT !.grantTool = {Pay}],
     [Blank EXCEPT !.grantTool = {AllTools}, !.org = corp],
     [Blank EXCEPT !.grantTool = {mail}, !.pins = FALSE],
     [Blank EXCEPT !.humanAbove = 0],
     [Blank EXCEPT !.humanAbove = 1, !.denyAbove = 1],
     [Blank EXCEPT !.denyAbove = 0, !.target = {bare}, !.pins = FALSE],
     [Blank EXCEPT !.signal = Rule(FALSE)],
     [Blank EXCEPT !.signal = Rule(TRUE)],
     [Blank EXCEPT !.denyIfUnattested = TRUE],
     [Blank EXCEPT !.maxChainDepth = 1, !.denyIfUnproven = TRUE],
     [Blank EXCEPT !.roots = {user}],
     [Blank EXCEPT !.sources = {agentToken}],
     [Blank EXCEPT !.models = {large}],
     [Blank EXCEPT !.maxSteps = 1],
     [Blank EXCEPT !.domains = {web}]}

NoChain == [length |-> 0, root |-> none, valid |-> FALSE]

\* A request of the one agent that no rule of the menu but the gates looks at.
Plain ==
    [agent |-> bot, org |-> acme, tools |-> {}, call |-> NoCall, cost |-> 0,
     chain |-> NoChain, proven |-> FALSE, attested |-> TRUE,
     source |-> agentToken, model |-> large, steps |-> 0, domains |-> {},
     signals |-> {}, token |-> "none"]

\* What the gates read, in every combination but a token bound to no call.
Gated ==
    {[Plain EXCEPT !.tools = ts, !.call = c, !.cost = usd, !.signals = ss, !.token = t] :
        ts \in SUBSET {pay, mail}, c \in {NoCall, pay}, usd \in 0..2,
        ss \in {{}} \cup {{[name |-> risk, value |-> bad, probability |-> p]} : p \in 0..1},
        t \in {"none", "refused", "unbound", "bound"}}

\* Requests that differ in what the other rules read.
Varied ==
    {[r EXCEPT !.attested = FALSE] : r \in {Plain, [Plain EXCEPT !.call = pay]}} \cup
    {[r EXCEPT !.source = clientKey] : r \in {Plain, [Plain EXCEPT !.call = pay]}} \cup
    {[r EXCEPT !.model = m] :
        r \in {Plain, [Plain EXCEPT !.call = pay]}, m \in {NoModel, NoModelKey}} \cup
    {[Plain EXCEPT !.steps = 1], [Plain EXCEPT !.domains = {web}],
     [Plain EXCEPT !.domains = {web, mail}], [Plain EXCEPT !.call = mail],
     [Plain EXCEPT !.agent = bare], [Plain EXCEPT !.org = corp, !.call = mail],
     [Plain EXCEPT !.cost = 2, !.token = "refused", !.attested = FALSE]} \cup
    {[Plain EXCEPT !.chain = [length |-> n, root |-> who, valid |-> ok], !.proven = sure] :
        n \in 1..2, who \in {user, robot}, ok \in BOOLEAN, sure \in BOOLEAN}

\* What only the floor and the tool lists look at: a second spelling of a tool's name,
\* a name with a "*" in it, and an agent that no grant can name.
Spelled ==
    {[Plain EXCEPT !.tools = ts, !.call = c] :
        ts \in {{Pay}, {pay, Pay}}, c \in {NoCall, pay, Pay}} \cup
    {[Plain EXCEPT !.call = star], [Plain EXCEPT !.agent = bare, !.call = pay],
     [Plain EXCEPT !.agent = bare, !.call = mail]}

MCRequests == {r \in Gated : r.token = "bound" => r.call # NoCall} \cup Varied \cup Spelled
=============================================================================
