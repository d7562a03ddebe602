----------------------------- MODULE Stage2cRunner -----------------------------
(***************************************************************************)
(* The Stage 2C runner (src/scripts/stage2c-runner.ts,                     *)
(* stage2c-real-adapter.ts, src/src/cli/stage2c-run.ts): a chain of gates  *)
(* decides whether the deterministic agent, the managed agent or none acts *)
(* on a fresh workspace; proposed writes are applied one by one through a  *)
(* boundary check; a receipt tells what was done.  The user may edit the   *)
(* repository meanwhile.                                                   *)
(*                                                                         *)
(* "src" is a path of the workspace and "status" is src/status.js below    *)
(* it, so that one write can be in the way of another.                     *)
(***************************************************************************)
EXTENDS Naturals, Sequences, FiniteSets

CONSTANT MaxActions   \* bound: actions an adapter proposes (the real one: 1)

ASSUME Stage2cAssumption == MaxActions \in Nat

Inside  == {"src", "status", "notes"}
Targets == Inside \cup {"outside"}

\* What a path holds: nothing, a directory, a part of a text, or the text of a write,
\* which are told apart by their number.
None    == <<"none", 0>>
Dir     == <<"dir", 0>>
Torn    == <<"torn", 0>>
Text(n) == <<"text", n>>

VARIABLES
  runner,     \* the run: options, gates, place, actions left, what it noted
  workspace,  \* what each path of the workspace holds
  repo,       \* version of the repository the runner is started in
  apiCalls,   \* history: messages.create was called
  receipt     \* stage2c-receipt.json, as a set of at most one record

stage2cVars == <<runner, workspace, repo, apiCalls, receipt>>

Options == [dryRun : BOOLEAN, fakeAgent : BOOLEAN, oracle : BOOLEAN, fixture : BOOLEAN,
            managedAgent : BOOLEAN]
Gates == [enabled : BOOLEAN, live : BOOLEAN, credentials : BOOLEAN]

RunnerIdle(o, g) ==
  [pc |-> "start", opts |-> o, gates |-> g, todo |-> <<>>, n |-> 0, events |-> <<>>,
   before |-> {}, after |-> {}, oracle |-> "none", input |-> None, outcome |-> "none"]

Stage2cInit ==
  /\ \E o \in Options, g \in Gates : runner = RunnerIdle(o, g)
  /\ workspace = [p \in Inside |-> None]
  /\ repo = 0 /\ apiCalls = 0 /\ receipt = {}

RunnerAt(l) == runner.pc = l

\* computeDirectoryManifestHash may throw: the hash is then null, the empty set.
RepoHash == {{}, {repo}}

\* The runner returns outcome o; its receipt is still to be written.
Report(r, o) == runner' = [r EXCEPT !.pc = "receipt", !.outcome = o]

------------------------------------------------------------------------------
(* What the receipts say, by outcome.                                      *)

\* Receipts of runs in which no agent was asked (agentExecutionAttempted: false).
NotAttempted ==
  {"SKELETON_NO_AGENT_EXECUTION", "MANAGED_AGENT_BLOCKED_NOT_ENABLED",
   "MANAGED_AGENT_BLOCKED_NO_ADAPTER", "MANAGED_AGENT_BLOCKED_MISSING_CREDENTIALS"}

\* Receipts that hold toolEvents, those of a denied action without workspace hashes.
Attempted ==
  {"FAKE_AGENT_WORKSPACE_MUTATION_RECORDED", "FAKE_AGENT_TOOL_DENIED_OUTSIDE_WORKSPACE",
   "FAKE_AGENT_ORACLE_EVALUATED", "MANAGED_AGENT_ADAPTER_WORKSPACE_MUTATION_RECORDED",
   "MANAGED_AGENT_ADAPTER_TOOL_DENIED_OUTSIDE_WORKSPACE", "MANAGED_AGENT_ADAPTER_INVALID_RESPONSE"}

\* repoManifestImmutable.
Immutable(r) ==
  IF r.before # {} /\ r.after # {} THEN (IF r.before = r.after THEN "true" ELSE "false")
  ELSE "unavailable"

Receipt(r) ==
  [outcome |-> r.outcome, attempted |-> r.outcome \in Attempted, events |-> r.events,
   immutable |-> Immutable(r), oracle |-> r.oracle, input |-> r.input]

------------------------------------------------------------------------------
(* Steps 1 to 3 of the runner, and its gates.                              *)

RunnerUnchanged == UNCHANGED <<workspace, repo, apiCalls, receipt>>

\* No task, or a directory that cannot be made: blocked, without a receipt.
Start ==
  /\ RunnerAt("start")
  /\ \/ runner' = [runner EXCEPT !.pc = "ended", !.outcome = "RUNNER_BLOCKED"]
     \/ runner' = [runner EXCEPT !.pc = "gates"]
  /\ RunnerUnchanged

Fake == runner.opts.fakeAgent /\ ~runner.opts.dryRun
Managed == runner.opts.managedAgent /\ ~runner.opts.dryRun /\ ~Fake

Skeleton ==
  /\ RunnerAt("gates") /\ ~Fake /\ ~Managed
  /\ Report(runner, "SKELETON_NO_AGENT_EXECUTION")
  /\ RunnerUnchanged

\* The deterministic agent proposes one write; a test may give it a target outside.
StartFakeAgent ==
  /\ RunnerAt("gates") /\ Fake
  /\ \E h \in RepoHash, t \in {IF runner.opts.fixture THEN "status" ELSE "notes", "outside"} :
       runner' = [runner EXCEPT !.pc = "apply", !.todo = <<t>>, !.before = h]
  /\ RunnerUnchanged

NotEnabled ==
  /\ RunnerAt("gates") /\ Managed /\ ~runner.gates.enabled
  /\ \E h \in RepoHash : Report([runner EXCEPT !.before = h], "MANAGED_AGENT_BLOCKED_NOT_ENABLED")
  /\ RunnerUnchanged

\* Credentials are looked at only behind the live gate.
MissingCredentials ==
  /\ RunnerAt("gates") /\ Managed /\ runner.gates.enabled
  /\ runner.gates.live /\ ~runner.gates.credentials
  /\ \E h \in RepoHash, k \in RepoHash :
       Report([runner EXCEPT !.before = h, !.after = k], "MANAGED_AGENT_BLOCKED_MISSING_CREDENTIALS")
  /\ RunnerUnchanged

NoAdapter ==
  /\ RunnerAt("gates") /\ Managed /\ runner.gates.enabled /\ ~runner.gates.live
  /\ \E h \in RepoHash, k \in RepoHash :
       Report([runner EXCEPT !.before = h, !.after = k], "MANAGED_AGENT_BLOCKED_NO_ADAPTER")
  /\ RunnerUnchanged

RunAdapter ==
  /\ RunnerAt("gates") /\ Managed
  /\ runner.gates.enabled /\ runner.gates.live /\ runner.gates.credentials
  /\ \E h \in RepoHash : runner' = [runner EXCEPT !.pc = "asked", !.before = h]
  /\ apiCalls' = apiCalls + 1
  /\ UNCHANGED <<workspace, repo, receipt>>

------------------------------------------------------------------------------
(* The adapter's answer, and its actions.                                  *)

\* The call fails, or its text is not one JSON object with well-formed actions.
InvalidResponse ==
  /\ RunnerAt("asked")
  /\ \E k \in RepoHash : Report([runner EXCEPT !.after = k], "MANAGED_AGENT_ADAPTER_INVALID_RESPONSE")
  /\ RunnerUnchanged

Actions == UNION {[1..n -> Targets] : n \in 0..MaxActions}

\* Relative targets are resolved against the workspace.
Answer ==
  /\ RunnerAt("asked")
  /\ \E todo \in Actions : runner' = [runner EXCEPT !.pc = "apply", !.todo = todo]
  /\ RunnerUnchanged

\* checkWorkspaceBoundaryCanonical: the target, or its deepest existing ancestor,
\* resolves into the workspace.
WithinBoundary(t) == t \in Inside

\* mkdir -p of the parent and writeFile succeed.
Writable(t) ==
  CASE t = "status" -> workspace["src"] \in {None, Dir}
    [] t = "src"    -> workspace["src"] # Dir
    [] OTHER        -> TRUE

Written(t) ==
  IF t = "status" THEN [workspace EXCEPT !["src"] = Dir, ![t] = Text(runner.n)]
  ELSE [workspace EXCEPT ![t] = Text(runner.n)]

Event(t, allowed) == [target |-> t, allowed |-> allowed, content |-> Text(runner.n)]

Next1(t, allowed) ==
  runner' = [runner EXCEPT !.todo = Tail(@), !.n = @ + 1, !.events = Append(@, Event(t, allowed))]

ApplyAction_ReportsFirst ==
  /\ RunnerAt("apply") /\ runner.todo # <<>>
  /\ LET t == Head(runner.todo) IN
       \/ ~WithinBoundary(t) /\ Next1(t, FALSE) /\ UNCHANGED workspace
       \/ /\ WithinBoundary(t)
          /\ Next1(t, TRUE)
          /\ workspace' = IF Writable(t) THEN Written(t) ELSE workspace
  /\ UNCHANGED <<repo, apiCalls, receipt>>

\* One action: denied, or written.  A write that throws leaves the runner: the file, or
\* only its directory, may be there, and no receipt tells.
ApplyAction ==
  /\ RunnerAt("apply") /\ runner.todo # <<>>
  /\ LET t == Head(runner.todo) IN
       \/ ~WithinBoundary(t) /\ Next1(t, FALSE) /\ UNCHANGED workspace
       \/ WithinBoundary(t) /\ Writable(t) /\ Next1(t, TRUE) /\ workspace' = Written(t)
       \/ /\ WithinBoundary(t)
          /\ runner' = [runner EXCEPT !.pc = "threw"]
          /\ \/ UNCHANGED workspace
             \/ Writable(t) /\ workspace' = [Written(t) EXCEPT ![t] = Torn]
  /\ UNCHANGED <<repo, apiCalls, receipt>>

Denied == \E i \in DOMAIN runner.events : ~runner.events[i].allowed

\* All actions were tried: the repository is hashed again.
FakeAgentDone ==
  /\ RunnerAt("apply") /\ runner.todo = <<>> /\ Fake
  /\ \E k \in RepoHash :
       LET r == [runner EXCEPT !.after = k] IN
       CASE Denied -> Report(r, "FAKE_AGENT_TOOL_DENIED_OUTSIDE_WORKSPACE")
         [] ~Denied /\ runner.opts.oracle -> runner' = [r EXCEPT !.pc = "oracle"]
         [] OTHER -> Report(r, "FAKE_AGENT_WORKSPACE_MUTATION_RECORDED")
  /\ RunnerUnchanged

AdapterDone ==
  /\ RunnerAt("apply") /\ runner.todo = <<>> /\ ~Fake
  /\ \E k \in RepoHash :
       Report([runner EXCEPT !.after = k],
              IF Denied THEN "MANAGED_AGENT_ADAPTER_TOOL_DENIED_OUTSIDE_WORKSPACE"
                        ELSE "MANAGED_AGENT_ADAPTER_WORKSPACE_MUTATION_RECORDED")
  /\ RunnerUnchanged

OracleStatuses == {"PASS", "FAIL", "ERROR", "TIMEOUT", "OUTPUT_CAPPED"}

\* src/status.js is judged if it is there, else the agent's notes.
EvaluateOracle ==
  /\ RunnerAt("oracle")
  /\ \E s \in OracleStatuses :
       Report([runner EXCEPT !.oracle = s,
                             !.input = IF workspace["status"] # None THEN workspace["status"]
                                                                    ELSE workspace["notes"]],
              "FAKE_AGENT_ORACLE_EVALUATED")
  /\ RunnerUnchanged

\* A receipt that cannot be written: RUNNER_BLOCKED, although the agent may have acted.
WriteReceipt ==
  /\ RunnerAt("receipt")
  /\ \/ runner' = [runner EXCEPT !.pc = "ended"] /\ receipt' = {Receipt(runner)}
     \/ runner' = [runner EXCEPT !.pc = "ended", !.outcome = "RUNNER_BLOCKED"] /\ UNCHANGED receipt
  /\ UNCHANGED <<workspace, repo, apiCalls>>

EditRepo ==
  /\ repo = 0 /\ ~RunnerAt("ended")
  /\ repo' = 1
  /\ UNCHANGED <<runner, workspace, apiCalls, receipt>>

Stage2cNext ==
  \/ Start \/ Skeleton \/ StartFakeAgent \/ NotEnabled \/ MissingCredentials \/ NoAdapter
  \/ RunAdapter \/ InvalidResponse \/ Answer \/ ApplyAction \/ FakeAgentDone \/ AdapterDone
  \/ EvaluateOracle \/ WriteReceipt \/ EditRepo

Stage2cSpec == Stage2cInit /\ [][Stage2cNext]_stage2cVars

------------------------------------------------------------------------------

\* The last allowed event on path t.
LastWrite(events, t) ==
  LET at == {i \in DOMAIN events : events[i].allowed /\ events[i].target = t}
  IN IF at = {} THEN None ELSE events[CHOOSE i \in at : \A j \in at : j <= i].content

\* A receipt tells the workspace: every file holds what the last allowed event on it
\* wrote, and nothing else was written, also when a later action was denied; a run whose
\* receipt says that no agent was asked asked none, and so does a dry run or a closed gate;
\* the oracle judged what was written.
ReceiptTellsTheWorkspace ==
  \A r \in receipt :
    /\ \A t \in Inside : workspace[t] # Dir => workspace[t] = LastWrite(r.events, t)
    /\ ~r.attempted => r.events = <<>> /\ apiCalls = 0
    /\ r.oracle # "none" => r.input = r.events[Len(r.events)].content
    /\ apiCalls # 0 => apiCalls = 1 /\ ~runner.opts.dryRun /\ runner.gates.live
================================================================================
