---------------------------- MODULE MCDecidePath ----------------------------
(* Values of the constants of DecidePath for TLC. *)
EXTENDS DecidePath, TLC

CONSTANTS r1, a1, t1, t2, i1, i2, x1, d1, bot, pay, risk, bad, fine

Blank ==
    [target |-> {bot}, org |-> NoOrg, pins |-> FALSE,
     denyTool |-> {}, allowTool |-> {}, grantTool |-> {}, floor |-> FALSE,
     maxChainDepth |-> 0, roots |-> {}, denyIfUnproven |-> FALSE,
     denyIfUnattested |-> FALSE, sources |-> {}, models |-> {}, maxSteps |-> 0,
     domains |-> {}, denyAbove |-> NoLimit, humanAbove |-> NoLimit,
     signal |-> NoRule]

\* One spelling of the one tool.
MCFold == [t \in {pay, AllTools} |-> t]

\* A signal rule and a limit of steps; the floor and a threshold.
Watched == [Blank EXCEPT !.signal = [name |-> risk, values |-> {bad}, min |-> 1,
                                     whenAbsent |-> TRUE]]
Short   == [Blank EXCEPT !.maxSteps = 1]
Floor   == [Blank EXCEPT !.floor = TRUE, !.humanAbove = 1]

MCPolicies == {Watched, Short, Floor}
MCSets     == {{Watched, Short}, {Floor}}

Signal(value) == [name |-> risk, value |-> value, probability |-> 1]

Question(call, cost, steps, signals) ==
    [agent |-> bot, org |-> NoOrg, tools |-> {pay}, call |-> call, cost |-> cost,
     chain |-> [length |-> 0, valid |-> TRUE, root |-> NoCall], proven |-> FALSE,
     attested |-> TRUE, source |-> NoModel, model |-> NoModelKey, steps |-> steps,
     domains |-> {}, signals |-> signals, token |-> "none"]

Says(question, run, digest) == [question |-> question, run |-> run, digest |-> digest]

\* What the first set and the second do with each; between them every gate is met:
\* a call, at a late step: denied, held by the floor; the call at a price: free, held
\* above the threshold and by the floor; the call in another run, with no signal:
\* held for the signal, held by the floor; the tools at that price and no call named:
\* held by its signal, held above the threshold.
MCBodies ==
    {Says(Question(pay, 1, 1, {Signal(fine)}), "run", d1),
     Says(Question(pay, 2, 0, {Signal(fine)}), "run", d1),
     Says(Question(pay, 1, 0, {}), "another", d1),
     Says(Question(NoCall, 2, 0, {Signal(bad)}), "run", NoDigest)}

MCAsks == {AskOf(b) : b \in MCBodies}

Symmetry == Permutations(Tokens) \cup Permutations(Ids)
=============================================================================
