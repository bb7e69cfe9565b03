# A TLA+ verification of wardryx

wardryx is a decision service for AI agents. An agent (or the proxy in front of
it) asks `POST /v1/decide` whether it may make a call; the policies in force
answer allow, deny or hold. A hold waits for a person, whose grant is a signed
token; the token, presented with the call, turns the hold into one allow. Around
this sit the API that changes policies, the archive of every policy set that ever
decided, the tokens by which agents identify themselves, and the stores, in
memory or in Postgres, with one process or several over the same database.

This directory holds TLA+ modules translated from the Go code, TLC
configurations that check them on small instances, and proofs, for every value of
the constants, about every part that is modelled. Paths
below are relative to the repository.

## 1. The system

Each entry: the state kept, the operations, how it interacts, what is hard, and
what makes it correct.

**Decide and approvals handlers** (`internal/api/api.go`).
State: none between requests but what is in the store and the record; per handler, the
verdict and the token it carries. Operations: `handleDecide`, `requestApproval`,
`recordDecision`, `handleApprovalDecide`. A handler calls the engine, then the
store (redeem the token or write the pending row), then the record, then answers.
Hard: handlers run concurrently and every one of those calls may fail after it
took effect. Correct when what was presented once earns no second allow, an allow rests on a
grant that covers it, and nothing is answered that the record lacks.

**Approval tokens and keys** (`internal/approval`).
State: the signing keys. `DecideWith` reads a row, signs a token bound to what was
held, and only then has the store decide the row; verification never asks the
store. Hard: several admins, a signer that fails, a write that took effect and whose
answer was lost. Correct when one token leaves per grant and every grant has its
token.

**Approval token v3 and the key service client** (`internal/approval/v3.go`,
`internal/keyryx`, `cmd/wardryx/approval_keys.go`). With v3 the signer is Keyryx, an external
service whose keys rotate. State: per process, the key set of the last good refresh. `mintV3` asks for the
current key, signs, and signs again if another key answered; `parseV3` verifies under the
cached key that the header names. Hard: the key may rotate between the two calls,
a set is as old as its last good poll, another process mints under the next key already. Correct
when a process with a fresh set verifies every token whose key is still published, and a
key that was withdrawn leaves every cache.

**Stores** (`internal/store`).
State: approvals, redemption keys, policies, proofs, one decision log. The in-memory
store does each operation under a mutex and is empty after a restart; Postgres does it
in one statement or transaction, is shared, survives, and may fail before or
after it has applied a write. Hard: the limit on pending rows, read in an older
snapshot than the write.

**Policy admin API** (`internal/api/api.go`, `cmd/wardryx/main.go`).
State: the policy rows, and in each process the set its engine decides by.
`PUT` and `DELETE` read all rows, compile the set that would result, archive it,
write the row, and swap the engine's pointer, with no lock around the five; a
start restores the stored set. Hard: two writes at once in one process or in two, a
crash between any two steps. Correct when what decides is archived and
the engine follows the store.

**Policy archive** (`internal/archive`). Files named by the digest of the set; `Keep` looks for
the file, writes a temporary one and renames it. Hard: two processes or a crash between these. Correct when
a set that decides can be produced later, in whole.

**Policy decision point** (`internal/pdp`, `internal/policy`).
State: one atomic pointer to the compiled set. `Decide` walks fifteen rules in
order over the policies that match; `Filter` repeats two of them over a tool
list. Hard: what a rule means depends on the order, on every policy that matches,
and on a token that some rules take and others do not. Correct when
restrictions only narrow, grants lift only the floor, and what callers conclude
from an answer (that a token must be redeemed, that it may be cached) is so.

**Replay** (`internal/replay`, `decisionInput` in `api.go`). Reads a recorded decision and the
archived set back and asks again. Hard: the token is not kept, so an answer that a token earned,
spent or failed to earn cannot be asked again. Correct when a record of the running code never disagrees.

**Agent-token proofs** (`internal/agenttoken`, `internal/api/agent_token.go`).
State: the record of proofs accepted, in Postgres or in the process. Hard: the
clock is read before the record is locked, instances have different clocks and windows,
rows are purged. Correct when a proof is accepted once and refused only for a cause.

**Agent-token keys and revocations** (`internal/agenttoken/verifier.go`,
`cmd/wardryx/agent_tokens.go`). State: the last set of each of two sources, the installed set and its
generation, a cache of verified tokens, a revocation list and its age. One goroutine
polls, requests verify. Hard: verification runs outside the lock, an install may
come before its cache write; a list in flight is older than its arrival. Correct
when nothing is accepted under a key that was not held, past its expiry, or later
after its revocation than the list's age limit.

**Sweep, record health and queue reports** (`api.go`). State, in memory: `unansweredSeen`,
`queueFullSeen`, the flag behind `/readyz`. A goroutine lists the holds nobody decided and reports each
once; handlers report a full queue once per agent; every write to the record is followed by a
note of how it went. Hard: a write and its note are two steps, a hold is decided while it is swept,
a list fails. Correct when each event is written once, an overdue hold is reported, and
readiness is that of the last write.

**SLO-burn signal** (`internal/sloburn`). One goroutine reads a hash-chained file that
another program appends to and replaces; requests ask the last reading. Hard: the file changes
between the stat, the open and the reads of one poll. Correct when a signal rests on a
chain that was there and follows the file once it is left alone.

**Authentication and scope** (`internal/api/auth.go`): a function of its configuration; only
`canRead`/`canWrite` are used here. **Approver statements** (`internal/approverstmt`): a check of a
signed statement before a decision that changes nothing. **Telemetry, passports, configuration,
the command line**: input, output and formatting with no state that a property here is about, except
the order of a start, which is in `PolicyAdmin`.

## 2. Modules

| Module | Models | State and actions |
|---|---|---|
| `ApprovalContract` | what the approval path promises | a held request is decided once; its grant releases one allow, in each text of its token, of a request it covers |
| `Approvals` | `handleDecide` after the engine, `DecideWith`, `handleApprovalDecide`, and the store calls they make | `row` is the approvals table, `redeemed` the redemption keys (a token in one of its texts), `minted` what each token's signature says, `req`/`adm` the handlers by program counter. One action per store call, record write and answer |
| `DecidePath` | `POST /v1/decide` from end to end: the engine, and the handlers of `Approvals` behind it, while `SetPolicies` swaps the set | extends `Approvals` by `inForce`, the set in force, and `basis`, what an allow on its way out was decided by; its rules are those of `PdpRules` (`Engine == INSTANCE ... WITH`) |
| `ApprovalKeys` | `mintV3`, `parseV3`'s choice of a key, the cache of `keyryx.go` with its refresh; Keyryx itself from what its client relies on | `phase` and `published` are Keyryx's, `cache` and `fetch` each process's, `grant`/`token` a grant between its calls |
| `PolicyAdmin` | `handlePutPolicy`, `handleDeletePolicy`, `ComputePolicySet` and the order of a start in `runServe`, `archive.Keep` | `stored`, and per process `engine`, `files` (the archive, whole and partial) and `boot`; `slot` holds the writes in flight. Actions are the steps between which others run: read and compile, `Keep`, `Place`, `Write`, `Swap`, and those of a start |
| `PdpRules` | `Engine.Decide`, `Engine.Filter`, `requestSpecific` | no state: one operator per rule, under the source's name |
| `Pdp` | the engine: `Decide` and `SetPolicies` | the set in force, a request and its answer; a decision loads the pointer once, so it is one step |
| `Replay` | `decisionInput`, and `question` and `replayOne` of `internal/replay`; `Ungranted` | extends `Pdp`: what an answer leaves on the record, what is read back of it, and the verdict on the row |
| `AgentProofs` | `CheckProof`, `recordProof`, `TryRecordProof`, `PurgeProofs` | the clock, each instance's `skew`, the shared `rows`, the `local` records, the requests in flight with the clock reading they carry |
| `AgentKeys` | `Load`, `Refresh`, `install`, `Verify` and its cache, the revocation list | the sources as last read, the installed set, `cache`, `list`, the poller by program counter, the requests with the keys and clock they read |
| `Reports` | `WatchUnansweredApprovals`, `forgetDecidedApprovals`, `reportQueueFull`, `writeRecord` with `recordHealth` | the approvals as a sweep sees them, the sweep by program counter, the markers, each writer between its write and its note, `failing` |
| `SloBurn` | `Refresh`, `load`, `parse`, the view, `For` | what is at the path, the reader by program counter with what it has read, the last reading, the view |
| `*Proofs` | | the theorems of section 6 |
| `MC*` | | model values, request and policy menus, symmetry |

How they meet. The code's components meet at narrow points, and each module states what it takes from the other.
`Approvals` takes the engine's verdict as the first *gate* that fires (`Gates`), which is nondeterministic there, and
`PdpRules` takes what a token verifies as (`none`, `refused`, `unbound`, `bound`). `DecidePath` puts the two together: the engine is
asked about the token as it verifies at that moment (`TokenClass`), the handler reads of the answer what `handleDecide` reads
(`Dispatch`: the decision, `approval_token_required`; at the store, the kind of the hold), and the policies are swapped whenever an admin likes. That this is an instance of
`Approvals`, with the gates the policies put there, is a refinement that is checked (`ImplementsApprovals`) and proved.
The other modules share no variables.
`PolicyAdmin` swaps sets that `Pdp` decides by, and its `SetsInForceAreKept` is what `Replay` takes for
granted when it finds the recorded version. `ApprovalKeys` has tokens that are a header and a key; their
claims and lifetime are those of `Approvals`. `Reports` takes the rows as decided by anyone. `Approvals` refines `ApprovalContract`
(`Contract == INSTANCE ... WITH`, a property of `approvals_race`).

Conventions. A definition has the source's name where there is one. Data is
abstracted to what the properties tell apart: a request body is
`[agent, run, tools, digest, cost]`, a signature is who minted what, a glob is
the set it matches. In `Approvals` each fault is switched by a name in
`Faults`. An operator whose comment begins with "Fault:" is not part of any
specification: it is a plausible bug of the definition after it, kept to
show that a property notices it (listed under `mutants` in `PROJECT.json`).

Five points in the translation deserve a reader's eye:

- A redemption key is of the *string* that was presented (`approval.go:436`), and `Approvals` keeps a token, which is what a signature says, apart
  from the `Texts` it verifies as. A token of version 2 has one text, since `parseV2` compares the whole of it (`keys.go:124`); of version 3
  the signature is taken as it decodes (`v3.go:111-116`), and nothing in the code says that it has one encoding only. So whichever
  text a request presents is a choice of the model, `RedemptionKey` is the pair, and single use is claimed and counted for each text.
- Names of tools are compared as `containsFold` does, by what `Fold` makes of their spelling; `Ungranted` and `Filter` drop repeats by
  spelling, as the code does. `Compiles` holds what the properties need of a policy's check: which names a grant may hold
  (`Grantable`), and that a target of one trust domain matches no agent outside of it (`Pinnable`).

- A failed Postgres call is a choice between "applied" and "not applied" wherever the
  statement may have been committed before the answer was lost (`RedeemFails`, `RequestFails`,
  `ReadbackFails`, `WriteLost`, `RecordFails`).
- A set has one file name in the archive and a line of the event file one hash: SHA-256 is taken to have no
  collisions. A power failure that undoes a rename is not modelled (`Keep` calls no fsync).
- `CreateApprovalOnce` on Postgres is one step here that may see an older count (so the limit may
  be passed, as `pgstore.go:117` says); the partial unique index makes the key and the
  insert one step, and its second attempt ends in one of the same outcomes. In memory
  the limit is exact.

## 3. Runs

Sizes are of complete explorations with two workers.

| Run | Instance | Question | States, time |
|---|---|---|---|
| `approvals_race` | Postgres, 2 requests, 2 admins, 2 approvals, 2 tokens of 2 texts, one call, gates cost and floor, every fault, restarts, clock to 1, any two handlers at work at a time, symmetry | does a grant give one token, and a text one allow, is every answer recorded, is the contract implemented? | 0.29 M, 85 s |
| `decide_path` | in-memory store, 1 request, 1 admin, 2 approvals, 2 tokens, two sets of policies that put every gate before some request, 4 request bodies, clock to 1, restarts, failing signer | does the engine with its handlers implement `Approvals`; has every allow ground in the set it was decided by and in what a person approved; does every grant have its token; does the floor's queue keep its limit? | 0.75 M, 80 s |
| `approvals_grant_lost` | Postgres, 1 request, 1 admin, gate cost, no fault but the failed readback | *violation*, finding 1 | |
| `approval_keys` | 1 process, 3 keys, 2 grants, lost refreshes, restarts, signer failures | does a fresh set verify what is published, do withdrawn keys leave? | 55 s |
| `policy_admin` | 2 processes, 2 writes in flight, 1 policy id, faults of archive and store, crashes in the middle of a `Keep` | is what decides archived whole; does the engine part from the store only for the reasons known? | 20 s |
| `policy_admin_parted` | 1 process, 2 ids, no fault | *violation*, finding 2 | |
| `pdp_rules` | every set of up to 3 of 20 policies, some 300 requests, a tool's name in two spellings, one no grant may hold, an agent no grant can name | what may each kind of rule change, does every answer replay from its record, and is what `Ungranted` lists what to grant? | 0.29 M, 42 s |
| `pdp_narrow` | sets of up to 2 | *violation*, finding 3 | |
| `agent_proofs` | 2 instances (windows 1 and 2), clocks up to 1 apart, 2 requests, 3 proofs of 2 keys, shared record and own records | is a proof accepted once, refused only for a cause, and its row dropped? | 1.4 M, 53 s |
| `agent_keys` | 2 requests, 2 tokens of 2 keys, contradictory and failing sources, cache of 1, revocations, restarts | is nothing accepted under a key not held, past its expiry, or too late after its revocation? | 3.6 M, 56 s |
| `reports` | 1 handler and the sweep, 2 holds, 1 agent, a record and a list that fail, 1 restart | is each event written once, an overdue hold reported, `/readyz` right? | 0.58 M, 39 s |
| `slo_burn` | 1 agent, 2 indicators, 3 kinds of event, files of up to 2 lines (the cap), 3 changes or read failures, clock to 1 | does the signal rest on the file and follow it? | 1.2 M, 63 s |

**Bounds, and why they are enough.** Every bound is a constant named in its module.
Races here are of two handlers over one row, key or set: two requests, two
admins, two writes. `Ids` and `Tokens` bound how many holds and mints a behaviour
may have; two are enough for a token to be confused with another approval's or for a
second mint of one approval; two `Texts` for two requests to present one token in two ways. `TwoInFlight` (in `MCApprovals`) lets
any two of the two requests and two admins be at work at a time, since every race here is of two; the theorems have no such bound. `MaxAllows` counts to 2, one more than is allowed.
The clock runs past an expiry (`TTL` 0, `MaxTime` 1: a token is good for the tick it is minted in; in `agent_proofs` six
ticks, which is past iat + window + grace, so that a row is claimed, purged and
met again). Limits (`PendingLimit`, `Cap`, `MaxCached`) are
1, so that they are reached. `MaxGeneration` 2 lets a set be replaced and come back.
`MaxSet` 3 because a rule combines at most a policy with those that match beside it; the menu has each rule
in the forms the code distinguishes (absent, restrictive, intersecting with another). In `slo_burn`, three
changes are enough for a file to be broken, mended and broken again, or edited twice during one read. Where section 6
has a theorem for a property, it removes the bounds.

**Deadlock** is checked in every run: no bound stops a system altogether, because an agent
may always ask again, a policy be put again and a process restart.

**Fairness.** Each is one the code's scheduling gives, and each faulty outcome stays possible beside it:

- `AgentProofs!FairSpec`: weak fairness of `Purge`, which `RunProofPurge` does at start and every minute; a purge that
  fails is tried again, and the property claims nothing if all of them fail.
- `ApprovalKeys!FairSpec`: weak fairness of `Fetch`, which a ticker starts every minute, and strong fairness of `Install`: refreshes
  may be lost again and again, but not all of them for ever.
- `Reports!FairSpec`: weak fairness of the steps of the sweep, a goroutine with a ticker, and strong fairness of `List`: the
  store may fail to list, but not each time for ever. No request is obliged to come.
- `SloBurn!Spec`: weak fairness of `Poll`, the steps of the reader's goroutine, with no fairness of what happens to the file.

The other specifications need none: all their properties are safety properties.

## 4. What the runs say

Approvals:

- `OneTokenPerGrant`: of one approval at most one token leaves, although every
  admin signs one before the store says who was first.
- `TextReleasesOneAllow`: with single use and Postgres, one allow per grant and text of its token, across
  races, lost answers, crashes and repeated presentation. For a token of one text that is one allow per grant; in general it is
  not (section 5).
- `HumanApproved`: an allow on its way out that a gate stood in front of rests on a
  grant of the same agent, run and tools, at no higher cost, bound to the call
  where the gate asks for that; in memory the row may have been lost by a restart.
- `AnswersAreRecorded`: in the closed mode no allow or hold goes out unrecorded.
- `ImplementsApprovals`: the engine and the handlers together do what `Approvals` does, whichever policies are in force.
- `AllowsHaveGround`: policies may be swapped between a hold, its grant and the retry. An allow on its way out is one that the set
  *it was decided by* gives without a token, or holds; then a person granted an approval of the same agent, run and tools, at no lower
  cost, and of this very call where that set has the floor in front of it. A grant made under other policies passes no deny and no floor.
- `ImplementsContract`: every step of the path is a `Hold`, a `Resolve` or a `Release` of the contract, or none. A `Release` is of a grant in
  a text.
- `GrantKeepsItsToken`, `OnePendingPerCall`, `QueueWithinLimit`: as their comments say. `OnePendingPerCall` is about what the handlers do around
  `CreateApprovalOnce` (retries, lost answers, restarts, decisions in between); the call itself is one step. The
  first holds in memory, not on Postgres (finding 1). The limit is exact in memory
  for holds of the floor; other gates' holds are not limited by the code.

Keys of approval tokens:

- `FreshSetVerifies`: a process whose set was read less than `Lead` ago verifies every token whose key is
  published. A process that has read no set yet refuses valid v3 tokens: the server starts before the first refresh is
  done, and the refusal costs a second approval.
- `WithdrawnKeysLeave`: liveness; a refresh in flight may bring the key back once.

Policies:

- `SetsInForceAreKept`, `PartsOnlyWhenOvertaken`, `WritesOwnPolicies` in `PolicyAdmin`: the
  second says exactly when the engine may differ from the store. The third
  excludes a write whose row changed after the permission was checked: there the check was of another row. So it
  finds a check that is missing or wrong, and does not find that the row may change hands after it: the code allows that.
- In `Pdp`, signal rules and the floor only hold (`GatesOnlyHold`), a grant lifts only the floor, restrictions
  narrow except for finding 3, the filter agrees with the decision, a redeemable
  allow is one that would have been held, a cacheable answer is the same for every request of the agent with
  these tools and this chain.
- In `Replay`, every answer is reproduced from its record and the archived set, or is one of those that replay says it
  cannot ask again because a token decided.
- `UngrantedSuffices`: of a request the floor holds, a grant that compiles lets it pass exactly if it covers each tool that `Ungranted` lists, in
  whatever spelling, or every tool (`*`). So two spellings of a tool on the list are two entries that one grant serves, a listed name that is blank or
  has a `*` in it is granted only by `*`, and for an agent whose id no target can pin (one without `agent://`) no policy put beside those in force
  lets it pass, which is what `noGrant.reason` tells the reader.

Agent tokens:

- `AcceptedOnce` needs `Lag + Timeout <= Grace`, an assumption of the module that
  `proofPurgeGrace` is there to satisfy; nothing in the code enforces it, it is
  about the clocks of the machines.
  With a record of its own a proof is accepted twice only by a request that was overtaken (section 5).
- `RefusedForCause`: a record refuses only for the same key, or when it is full of entries whose windows are open.
- `RowsAreDropped`: rows of the shared record go in the end.
- `AcceptedAsVerified`, `RevocationIsTimely`, `SourcesInForce` for keys, cache and revocations.

Reports and signals:

- `ReportedOnce`, `OverdueIsReported`: one event per hold and process; a hold is marked before its event
  is written, so one whose write fails is lost for the life of the process, and the liveness property asks that it is tried.
- `ReadyUnlessOvertaken`: see section 5.
- `SignalStandsOnTheFile`: a reading that is believed is how the file began at one moment of the read. A file that is edited in
  place twice during one read, being no chain between, may be believed in a mixture: excluded, and noted in the property.
- `FollowsTheFile`: a pipe swapped in between the stat and the open blocks the reader for as long as nobody
  writes to it, and `For` keeps answering from the last view: excluded in the property too.

## 5. Where the code and its documents part

1. `approvals_grant_lost`. `internal/approval/keys.go:179-181`: "a human's grant is never recorded without
   the token it was for". On Postgres, `DecideApproval` (`pgstore.go:231`) returns
   an error when the update was applied and the row could not be read back; `DecideWith`
   then drops the token, and a retry is a conflict.
2. `policy_admin_parted`. `internal/api/api.go:1545-1547`: no window in which store and engine
   disagree. Of two concurrent writes, the one that read first and swaps last leaves the
   engine without the other's policy until the next write or start.
3. `pdp_narrow`. `internal/pdp/pdp.go:366-368`: every other rule can only narrow. A policy
   with `require_human_above_usd`, added, turns a hold on an absent signal into an
   allow for a token bound to no call: rule 13 takes it and answers before rule 14.

The following are delimited by a passing property, which names the exception and says that there is no other:

- `CacheableGivenChain`. `internal/pdp/pdp.go:219-221`: a cacheable decision is a pure function of agent and tools.
  A malformed delegation chain is denied before any policy matches. That deny is itself not cacheable (`pdp.go:411-415`), but an answer that was
  cached for a request with a well-formed chain is not the answer of one whose chain is malformed; the property holds given the chain.
- `AcceptedOnce`. `internal/agenttoken/verifier.go:453-454`: "A window that closed before now has
  closed for good". A handler whose clock reading (`:452`) is older than another's pruning accepts
  a proof again, on a record of its own only; with the shared record single use is unconditional.
- `ReadyUnlessOvertaken`. `internal/api/api.go:341-345`: failing until a write succeeds again. A note of an earlier write that
  comes after the note of the last one leaves `/readyz` wrong, in either direction, until the next write. The property excepts this reordering:
  it finds a note that does not say how its write went, and not the order of two.
- `TextReleasesOneAllow`. `internal/approval/approval.go:25` and `internal/api/api.go:905-906` say of a *token* that it allows once. What
  the code claims is the string presented (`approval.go:436`). The two are the same for a token with one text; that every token of version 3
  has one is nothing the code sees to, and no property here rests on it.

Met without a run of its own: `pdp.go:319-320` says that `max_chain_depth` denies a chain that
"reached or exceeded" it; the code (`pdp.go:998`) and its test
(`chainrules_test.go:102`) deny only one that exceeds it. The model follows the code.

## 6. What is proved

With TLAPS, for any sets of processes, handlers, keys, tokens, policies and requests, and any values of the bounds.
The assumptions are the named `ASSUME`s of each module: types of the constants, that a "none" value is
none of the real ones, and those in the last column, which carry weight.

| Module | Theorems | Assumption beyond types |
|---|---|---|
| `ApprovalsProofs` | `TypeCorrect`, `StructureHolds`, `OnlyHumanApproved` (`HumanApproved`), `OneTokenLeaves` (`OneTokenPerGrant`), `OneAllowPerText` (`TextReleasesOneAllow`), `OnePendingRow`, `QueueKeepsItsLimit`, `NothingUnrecorded` | |
| the same, about `DecidePath` | `EngineAnswersThePath`, `PathImplementsApprovals` (`ImplementsApprovals`), `AllowsAreGrounded` (`AllowsHaveGround`), `PathKeepsItsPromises` | `PathAssumption`: the requests are records with the fields of theirs, and a body has a digest exactly when it has a call |
| the same | `ContractHolds` (`ImplementsContract`), `ReleasesWereGranted`, and of `DecidePath` `PathMeetsTheContract` | `SingleUse` and `Durable`, as the contract says |
| the same | `DecisionsStand` (an action property) | `Durable` |
| the same | `GrantHasToken` (`GrantKeepsItsToken`) | `GrantsKept`: no fault of a lost reply, nor, on a durable store, of a lost readback or a cut connection |
| `ApprovalKeysProofs` | `TypeCorrect`, `FreshSetsVerify`, `WithdrawnKeysStayGone` (an action property), `WithdrawnKeysVerifyNothing` | |
| `PolicyAdminProofs` | `TypeCorrect`, `SetsInForceStayKept`, `EnginesPartOnlyWhenOvertaken`, `PrincipalsWriteTheirOwn` (an action property), `VersionsStayProducible` | `Ids` finite |
| `AgentProofsProofs` | `TypeCorrect`, `ProofsAreAcceptedOnce`, `JtiIsSpentOnce`, `RefusalsHaveACause` and `RowsAreKeptInTime` (action properties) | `GraceAssumption`: clocks and a claim's way to the record are apart by no more than the grace of the purge |
| `AgentKeysProofs` | `TypeCorrect`, `AcceptedTokensVerify`, `RevocationsAreTimely`, `InstalledSetIsTheSources`, `KeysTakeTheirTokens`, `RevocationsStick` | `KeySetsAssumption`: a set that is read has one key to a kid, as `parseSet` sees to |
| `PdpProofs` (`Pdp` and `Replay`) | `TypeCorrect`, `PoliciesNarrow`, `GatesHoldAndNoMore`, `GrantsLiftOnlyTheFloor`, `AllowsKnowTheirToken`, `FilterFollowsDecide`, `CachedAnswersAreRight`, `ReplayIsFaithful`, `UngrantedToolsSuffice` | `FieldsAssumption`: policies and requests are records with the fields of theirs |
| `ReportsProofs` | `TypeCorrect`, `EventsAreReportedOnce`, `ReadinessIsTheLastWrite`, `MarkersStandForReports`, `SweepsPassNothingOver` (an action property) | |
| `SloBurnProofs` | `SloBurnTypeCorrect`, `SignalStands` (`SignalStandsOnTheFile`), `PollsFollowTheFile` (an action property) | |

Each module states its inductive invariant in named parts, proves one lemma per action (or per group of actions that touch
the same variables) that the action keeps it, and combines them with `PTL`. What the invariants say, and why the property
alone would not do:

*Approvals.* None of the safety properties is inductive. `Structure` is: `TypeOK` with

- `RowsHaveAsks`, `TokensMatchRows`: a row that exists was written for a request, and a signed token carries
  what its approval was held for (rows never change their request);
- `DecisionsInOrder`: what an admin handler knows at each step; above all that one
  which reached its reply decided the row itself, and that its token has not left;
- `OneHandlerPerToken`: a token that has not left is in one handler's hands;
- `DeliveredAreGranted`: one that left is of a row that was granted;
- `RequestsInOrder`: what a decide handler knows, above all that its token, if its allow came from one, covers its request.

`HumanApproved` follows from `Structure` alone: the token was handed out, so its row
was granted, and it carries what the row was held for. `OneTokenPerGrant` is
preserved because only a pending row is decided, so the second admin finds it decided before its token
can leave. `TextReleasesOneAllow` needs one more conjunct, `SpentOnce`, under
single use and a durable store: of the handlers past redemption and the allows
already counted, at most one stands for each approval and text, and its redemption key is claimed. That a redeemed token is the only one of its
approval is `OneTokenPerGrant`; that is why the two are proved in this order.

*The contract.* With `Structure`, `HumanApproved`, `SpentOnce` and `NothingLost` (a durable store loses no row), a step that changes `row`
writes or decides one row and leaves the count of allows (`RowsStep`), and is a `Hold` or a `Resolve`; one that changes the
count is the answer of a handler that spends, whose approval was granted for such a request and has released nothing, and is a `Release`.

The contract has an invariant of its own, that what is released was granted; `ReleasesWereGranted` carries it over the
mapping to the path, where it says that of every allow counted as released the row was granted.

*The token of a grant.* `GrantKeepsItsToken` fails where finding 1 says and its theorem says that there is no other place: with `Structure`, a row
that was granted has the handler that granted it still on its way with the token, or the token has left, or the process
of the handler has died and, the store being in memory, taken the row with it. Every step that could part a grant from its token is one of the
faults `GrantsKept` leaves out.

*Engine and handlers.* `AnswersAtGates` says what `Decide` answers at each gate, in terms of what the token verifies as there, and `TokensVerify` that
this is what lifts the gate in `Approvals`. Since no rule reads the token before a gate does (`GatesReadNoToken`), the gate is that of the request without
it, and the answer is `Verdict` of that gate (`EngineAnswersThePath`). So a step of `DecideRequest` is an `Ask`, a swap is a stutter, and
everything proved of `Spec` holds of `PathSpec`. `AllowsHaveGround` needs to know, steps after the decision and a few swaps later, which gate
the request stood at: `BasisHolds` keeps that the handler's gate is the one that the remembered set puts there. The rest is `HumanApproved`, carried over by the refinement.

*The queue.* `QueueWithinLimit` speaks of queues that only the floor filled and is not inductive, since a decision may leave such a queue behind.
The invariant bounds the floor's rows of every queue: one is added only where all rows together are fewer than the limit.

*Approval keys.* A key that has signed was published for `Lead` (`KeysAreAged`), and a set holds every key that was published
before it was read and still is (`Complete`, for cached sets and those in flight). So a token that a fresh set cannot verify
would have a key published after the set was read, which cannot have signed yet.

*Policies.* What a write is about to store is kept before it is stored (`SetsAreKept`, with the same of a start, `StartsInOrder`). A write that was not
overtaken has in hand the set that its row gives with what is stored (`WritesKnowTheStore`), and a start that nobody
wrote behind has the stored set (`StartsKnowTheStore`).

*Proofs of agent tokens.* The row of an accepted proof is there, or `now` is past its time and the grace (`RowsOutlastWindows`); a
request at the record read a clock that was in its proof's window (`RequestsInWindow`). `Lag + Timeout <= Grace` then leaves
no request that could miss a purged row. For a record of its own (`EntriesOutlastWindows`), an entry is there, or every request that could still think
its window open has been overtaken.

*Keys of agent tokens.* An entry of the cache carries the generation that is held, whose set has its key (`CacheIsCurrent`); a request
knows the set of its generation (`RequestsKnow`); a list names every token revoked before it was asked for, in flight or installed (`ListsAreFull`),
so a token that a young list does not name was revoked at most `MaxAge` ago.

*Reports.* A hold that was reported, or is about to be, is marked until it is decided, and its marker goes only after a list without it
(`HoldsAreMarked`); an agent's report is in one handler's hands (`AgentsOnce`).

*The SLO-burn signal.* `SignalStandsOnTheFile` speaks of a view that was made polls ago. The invariant `SInv` says of each of the two ways there that it holds:
of a reader that has lines in hand (`ReadsChains`), that what it has read is the beginning of each chain the file has been meanwhile, unless it was no chain at some moment;
of the view (`ViewHolds`), that a believed one is the reading of a chain, whose newest event per indicator it carries. Three facts about the data hold it up.
Two chains that share a line agree on everything before it (`ChainsAgree`), so a file that grew between two reads still begins with what was read.
The table by agent and indicator that `parse` fills line by line is, after any number of lines, the last event of each (`NewestIsLast`), and what
`For` makes of it is the worst of those (`ForIsWorst`).

*Decisions and replay.* The invariant is only that the answer is `Decide` of the set in force; the rest is about `Decide`. `AnswersOf` says what it
answers at each of the places where a request ends up (refused, at the cost gate, at a signal, at the floor, at the end). Each property compares two such
questions. Lemmas of one form (`RestReaches`, `ListsReach`, `SignalsReach`, `GrantsReach`, `FloorsReach`) say that a rule of one set is met by a second
that has the policy's fields too; they serve for a rule taken out, for a policy added and for a token taken away. The menu of `pdp_rules` has some twenty policies;
the theorems are for any. `UngrantedToolsSuffice` compares the set with
any one grant added to it (`GrantsOnlyGrant`: that changes no rule but what is granted), and, for an agent that no target can pin, with any one policy
added (`NoGrantReaches`: such a policy grants it nothing).

*What the liveness properties rest on.* The four liveness properties are checked by TLC: their proofs need ENABLED. All that each needs besides
fairness is proved:

- `WithdrawnKeysLeave`: a withdrawn key that is out of a process's set and of the answer on its way (`GoneFrom`) stays out, through refreshes,
  rotations and restarts, and the first answer read since brings it there (`WithdrawnKeysStayGone`); no token under it verifies from then on.
- `OverdueIsReported`: what a sweep found overdue it marks unless the hold was decided, the list failed or the process started again (`SweepsPassNothingOver`), and
  a marker stands for a report (`MarkersStandForReports`), so none is lost between the two.
- `RowsAreDropped`: a purge leaves no overdue row and takes no other; an acceptance writes none, because `Lag + Timeout <= Grace` (`RowsAreKeptInTime`). A claim
  whose answer was lost may come so late that it is overdue at once, which is why the property is about a key and not about the table.
- `FollowsTheFile`: a poll that has seen nothing of the file but what it is (`SeenAsItIs`; every poll begun since it was left alone) goes on so, has one step fewer left
  with each it takes, and leaves the file's view (`PollsFollowTheFile`). That covers the digest of the last parse, half a line at the end and the cap.

*Once and for all.* Three theorems have the form `[](P => []Q)` and follow from a conjunct that no step takes away: a set that was ever in force stays in the archive
(`VersionsStayProducible`, which is what the archive is for: `SetsInForceAreKept` speaks of the set in force only), a revoked token that a list has named passes no check again
(`RevocationsStick`, across restarts, because each list is of a later moment than the one held, `ListsGrow`), and a withdrawn key verifies nothing
(`WithdrawnKeysVerifyNothing`). `JtiIsSpentOnce` is of the record's keys instead of its proofs: a record has one entry to a key (`RecordsAreKeyed`), and an accepted proof's is there
while its window may be open, so of two proofs signed with one jti only one is accepted.

*Two refinements in a row.* `DecidePath` implements `Approvals` and `Approvals` the contract, so the safety properties (`PathKeepsItsPromises`) and the contract itself
(`PathMeetsTheContract`) hold of the engine and the handlers together, with any policies and any gates.

*Induction over data.* The induction theorems of the library take an operator as a parameter, which no installed prover can instantiate. Where a
proof needs induction over the lines of a file, `SloBurnProofs` takes the least counterexample instead: the indices at which a
given claim fails are a set of naturals, and a set of naturals that is not empty has a least member (`LeastNatural`, from `WFMin`). That serves for a
claim about one sequence that is at hand.

The types of `Pdp` and `PolicyAdmin` are proved and no longer checked by a run. *Only model-checked*: what is out of the
prover's reach, liveness under fairness (`RowsAreDropped`, `WithdrawnKeysLeave`, `OverdueIsReported`, `FollowsTheFile`), and
`GrantKeepsItsToken` for faults outside `GrantsKept`, where it is false on Postgres. No module has a
RECURSIVE operator.

To check: `tlc -config approvals_race.cfg MCApprovals.tla`, `tlapm ApprovalsProofs.tla`; `PROJECT.json` lists
every run, its module and its configuration, and maps every definition to its lines.

## 7. Not modelled, and what could follow

Not modelled, because they keep no state and decide nothing that a step of two actors can disturb: approver statements,
telemetry, passports, configuration, the checks of `V2Rule` and of algorithms, `speaksFor`. Partly modelled:

- the stores: `CreateApprovalOnce` on Postgres as one step; its statements (`pgstore.go:107-147`: the insert with its count, the search
  for the row that stopped it, the second attempt) would derive the "may see an older count" of `RequestOnce` instead of assuming it;
- policies: decoding, glob compilation and the digest are data;
- the SLO-burn signal: `withStandingSignal`, which replaces a caller's own `slo_burn` signal, is a guard of a request that
  `Pdp` takes as given;
- replay: rows that cannot be read or whose version is not archived, and the report;
- record health: `storeOutage`, which only keeps the log short.
