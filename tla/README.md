# Verification of the powerplant

The powerplant (`src/src`) lets a managed agent work on a sanitized copy of a
project: a broker executes the agent's tool calls, a gate releases a patch package
when the required checks pass, the operator reviews the package and approves it
onto a git branch, and a session chains approved runs so that the next run starts
from their combined result. Around that core stand skills (guidance that is imported,
validated, promoted and shown to an agent under audit), the operator's setup, and
harnesses and probes that judge a run. This directory holds TLA+ models of that program, TLC
configurations that check them on small instances, and TLAPS proofs.

Contents: 1 inventory of the system; 2 modules; 3 runs; 4 bounds, fairness and
abstractions; 5 disagreements the runs show; 6 proofs; 7 what is not modelled; 8 plan.

## 1. Inventory

| Component | State | Operations | What makes it correct |
|---|---|---|---|
| **Project tool broker** (`broker/project-tool-broker.ts`) | one `BrokerState` per session: workspace, check results, passed required checks, budget, finalize flags; computed results by tool-use id | session loop over API events; list, read, write, run check, finalize | a package is released once, only from a tree on which every required check's last run passed; every call the API waits for is answered; the session ends |
| **Patch package** (`projects/generate-patch-package.ts`) | artifacts in the run's directory | write nine artifacts in order | a summary exists only beside a complete package |
| **Run outcome** (`projects/evaluate-terminal-outcome.ts`) | none (pure) | classify the end of a run | eligible only when every gate holds; one verdict |
| **Approve** (`cli/commands/approve.ts`, `runs/apply-patch.ts`) | the user's git repository: HEAD, branches, index, working tree | checks, branch, apply, add, commit, cleanup | one commit on the run's own branch, the patch over what the user had in the patched files and nothing else; a failure leaves other branches alone |
| **Session chain** (`sessions/session-chain.ts`, `session-workspace.ts`, `cli/commands/session.ts`) | `SESSION.json`: status and links; base workspace; stored patches | create, close, extend, build the snapshot of a run | the chain holds approved, passed runs and can be rebuilt; a closed session stays closed |
| **Skill ingestion** (`skills/skill-ingestion.ts`, `candidate-store.ts`) | a candidate directory, the quarantine, the audit log | Gate 0 (walk and copy), Gate 1, move | an imported file is whole, and the limits hold, however the package is edited meanwhile |
| **Skill lifecycle** (`skills/skill-lifecycle.ts`, `skill-audit.ts`) | `skill-registry.json`, candidate manifests, audit log | validate, promote, disable, rollback | registry and audit agree; a version number means one candidate |
| **Skill envelope and invocation audit** (`skills/skill-envelope.ts`, `skill-invocation-audit.ts`) | `skill-invocation-audit.jsonl` | render, append phase A and B | guidance that is shown is what was validated; nothing is released without its record |
| **Skill-guided pilot** (`sessions/run-skill-guided-sanitized-project-pilot.ts`) | one invocation, its start window | check the skill, phase A, session, phase B, release | an eligible result has both phases on record, and they tell its real end |
| **Synthetic guidance pilot** (`sessions/run-synthetic-promoted-guidance-pilot.ts`) | one batch of skills | check, render, audit, expose | what is exposed is audited and within the budget |
| **Snapshot and sanitization** (`projects/preview-sanitization.ts`, `build-pilot-snapshot.ts`, `build-sanitized-workspace.ts`, `verify-source-unchanged.ts`, ...) | source manifest, baseline, workspace | preview, capture, copy, validate, compare | "source unmodified" means that the copy is the source |
| **Capsule evaluator and oracle bundle** (`preflight/*`) | a docker client, its timer, output and result file | spawn, time out, cap, kill, close, clean up | one verdict, of a run that no limit cut short; it returns |
| **L1 runner** (`scripts/l1-runner.ts`, `cli/l1-harness-run.ts`) | hashes of state root and oracle, its verdict | fourteen steps around pilot and capsule | a pass is earned by this run, unmutated |
| **Stage 2C runner** (`scripts/stage2c-runner.ts`, `stage2c-real-adapter.ts`) | gates, workspace, receipt | gate chain, apply actions, oracle, receipt | the receipt tells what was done |
| **Setup and operator state** (`cli/commands/setup.ts`, `platform/*`, `provision/*`) | three state files and a legacy one, remote agent and environment | report, validate, migrate, provision, repair, quarantine | the files name one set of resources that exist |
| **Confirmations, workers, diagnostic sessions, outputs** (`approvals/*`, `worker/*`, `sessions/run-*`, `outputs/*`) | one event loop, one worker, one queue | decide, post, claim, run a tool, list outputs | only what was asked for is allowed; a conformant verdict is of this session |
| **Capsule checks, other commands, scout, contract, configuration** | little or none | | |

Interactions. `run` builds a snapshot (of the source, or of the session's cumulative
workspace), creates an API session and calls the broker, which writes the package;
`review` and `approve` read the package from disk; `approve --extend-session` appends
to the session that a later `run --session` builds on. A skill goes from `import` through
`validate` and `promote` into the prompt of a pilot; the L1 harness runs such a pilot and
lets the capsule judge its workspace. Everything between commands is
a file under `~/.powerplant`; nothing is locked, and saves are whole-file rewrites.

What is hard here:

- the API batches tool uses, resolves results one at a time and re-emits what it
  still waits on, while checks and writes of a batch interleave;
- a handler can fail half-way (a torn write, a package generation that throws after
  `finalizeReceived` is set);
- the operator edits the source and works in the same git repository while commands
  run; each command checks first and acts later;
- several processes load, change and save `SESSION.json`, and may die inside a save;
- skill commands share a registry in the same way, and their input is a directory that
  its author goes on editing;
- files are hashed, copied and hashed again one by one, beside an editor;
- a timer, an output cap, a child's exit and its last output race in one event loop;
- an oracle and the candidate it judges run in one process and share its output;
- an event stream is reopened and loses what was sent in between, and a queue of an
  environment is shared by the workers of everybody who uses it;
- three places judge a run, each from its own evidence.

`PROJECT.json` lists each hazard at its line with the properties that cover it.

## 2. Modules

- **`TerminalOutcome`** - the three verdicts over one run's evidence, as pure operators:
  `FinalVerificationPassed` (the gates of `evaluateTerminalRunOutcome`), `SummaryPassed`
  (`generatePatchPackage`), `RunCommandPassed` (`cmdRun`). Used by `ProjectToolBroker`.
- **`FinalizeGate`** - the abstract promise of a session: a tree rewritten at will,
  checks proven on a tree, one release, open only while every required check is proven
  on exactly that tree.
- **`ProjectToolBroker`** - one session. `phase` is the place in
  `runProjectPilotBrokerSession` (`top`: budget test; `streaming`: reading events;
  `executing`: the batch); `newToolUses`, `computedResults` and `waiting` are the turn's
  uses, the results the broker keeps, and what the API waits on. One action per event
  and per handler: handlers await nothing that lets another run in between.
  `HandleFinalizeFails` is a finalize that throws after any number of artifacts, and
  perhaps inside the write of the next one, the summary included.
  Composed with `FinalizeGate` by the refinement `Gate`.
- **`Approve`** - `approve` up to its commit: every check and git command is a step, and
  between any two the user edits, stages, commits, switches branches or detaches HEAD,
  another approve runs, or the process dies. git is external and given by what its
  commands do (`checkout` refuses to overwrite local changes, `commit` takes the whole
  index, `branch -D` refuses the current branch) and by how they fail: `checkout -b` may
  make the branch and then fail, `apply` may stop between two files, and the cleanup's
  `checkout` and `branch -D` may fail for reasons of their own, which the code does not
  look at (`slips` records it). A file's content is the author of the part that the
  patches are about and of the rest, so that a patch goes over the user's own edits.
- **`SessionChain`** - the session commands as processes. A load, the truncation of a
  save and its write are separate steps; the file may be left unreadable. A link holds a
  run and the manifest hash of the workspace up to it; a workspace is the set of runs in
  it and which of its stored parts were altered, and its hash is the workspace itself.
  The git half of `approve` is the single step `ApproveCommits` here.
- **`SkillIngestion`** - `skill import`. A file is copied chunk by chunk, with the `fstat`
  before and after; a copy is the sequence of the versions its chunks were read from, so
  a copy that mixes two versions can be told. The author edits and replaces entries
  between any two steps; the process may die at any.
- **`SkillLifecycle`** (extends it) - validate, promote, disable, rollback and rendering as
  processes `cmd[p]` that load, save and append in separate steps. `alone` records
  whether commands have overlapped or died.
- **`SkillGuidedPilot`** - the pilot, from the look-up of the skill to the release gate.
  `invocations` is the audit file, line by line; an append may be cut short, and the
  next one is then joined to the stump, as `appendFile` joins it. The broker session is
  one step that ends with evidence for `TerminalOutcome`.
- **`SyntheticPilot`** - the batch pilot, on the same audit file: `listed` is the first
  reading of the registry, each rendering reads it again.
- **`CapsuleEvaluator`** - evaluator, docker client, container and the process in it as four
  parties; every callback (`timeout`, `data`, `close`, `error`) is an action of its own. The
  oracle (`tests/oracle/operator-task-oracle.mjs`) prints its result, then writes it; the
  candidate that it imports into its process may print and write any result at any time
  (`CandidatePrints`, `CandidateWrites`), which `oracle.foreign` records.
- **`L1Runner`** - the harness, over `SkillGuidedPilot` and `CapsuleEvaluator`, which run
  inside it with their own steps; others change the state root, the oracle and the skill
  beside it.
- **`SanitizedSnapshot`** - preview, capture, copy, validation and the two comparisons,
  one file per step, with the user's edits in between; also the disposable workspace of
  `powerplant verify`. The scan of the copy for the forbidden marker passes over a file that
  cannot be read (`skipped`).
- **`Stage2cRunner`** - options and environment as chosen in `Init`, the gate chain, and the
  proposed actions applied one by one to a workspace in which one path lies below another.
- **`OperatorSetup`** - the setup command beside a service in which the user deletes
  resources; each save is a step, before and inside which the process may die.
  `setup.reused` records what a command took over from a file without asking the service.
- **`ApprovalProbe`** - a probe session: driver, event stream, service, worker, queue and
  another operator of the same environment. `probe.kind` selects one of eight probes. A
  worker need not wait for a confirmation; a tool use is the one asked for or another.
  The tools' directory is new in each run (`cli/sprint3t-sdk-worker-selection.ts:15-24`
  puts the time into its path).
- **`MCProjectToolBroker`, `MCApprove`, `MCSessionChain`, `MCSkillLifecycle`** - symmetry
  sets and constant values for TLC; the instances are in the `.cfg` files.
- **`MCOperations`** - the modules from `SkillGuidedPilot` to `OperatorSetup`, one scenario per
  command or harness: in a behaviour one of them runs and the variables of the others stay where
  they began, so that their states add up and do not multiply. Where they do share state
  they are composed: pilot and capsule in the harness.
- **`MCEventLoops`** - in the same way, the two components whose end is in question, each
  under its own fairness: the capsule alone, with any candidate, and the probes.
- **`ProjectToolBrokerProofs`, `ApproveProofs`, `SessionChainProofs`, `SkillLifecycleProofs`,
  `L1Proofs`, `SyntheticPilotProofs`, `SanitizedSnapshotProofs`, `OperatorProofs`** - theorems
  and proofs. `L1Proofs` is about the harness with the capsule and the pilot inside it,
  `OperatorProofs` about `OperatorSetup`, `Stage2cRunner` and `ApprovalProbe`.

A definition `Name_Variant` is `Name` with a plausible bug in it; no action uses it. The
checks replace `Name` by it to see that a property would notice.

## 3. Runs

| Run | Config | Shows |
|---|---|---|
| `broker` | `Broker.cfg` | one required and one advisory check, a writable and a read-only file, four calls in batches of up to two. The whole inductive invariant `IInv` holds, types and a gate that never holds a stale pass among its parts; eligible means verified on the final tree (`EligibleMeansVerified`); the summary comes after every other artifact, and a package is recorded only when all are whole (`SummaryComesLast`); every waiting call has a result when the broker answers; the budget overshoots by less than a batch; the patch is verified; the package never changes after release; the session refines `FinalizeGate`; every session ends |
| `broker_writing` | `BrokerWriting.cfg` | two required checks of which one rewrites files, and torn writes: the verdict half of `EligibleMeansVerified` and `PatchIsVerified` still holds (the tree half is conditional on `OnlyWritesChangeTree`, which is false here) |
| `approve` | `Approve.cfg` | two approves of two overlapping patches, one of which adds a file, and two user actions anywhere: no two approves hold one run's branch (`RunHeldByOne`); an undisturbed approve changes no branch but its own (`OnlyOwnBranch`), commits the patch over what the user had in the patched files, and nothing more when nothing was staged (`CleanCommitIsThePatch`), commits the captured source plus the patch when the tree was clean (`CleanCommitIsTheVerifiedTree`); when it fails, its branch is gone, or at the commit it began on, or holds what it committed, and if git did not fail in the cleanup there is no branch and HEAD is back (`FailureLeavesNoCommit`) |
| `session` | `Session.cfg` | two processes, two runs, deaths, an edited part, removed parts: the chain holds only approved runs that passed; session runs build on nothing else; and as long as no save overtook another command, the chain can be rebuilt with exactly the recorded hashes, a closed session stays closed and no reported extension is lost |
| `skills` | `Skills.cfg` | imports beside an author at work, and overlapping commands on one or two candidates, with deaths: imported files are whole and within the limits (`WholeFilesWithinLimits`); the last event of a skill in the log tells its registry entry, and the versions it has had, while commands do not overlap or die (`AuditTellsRegistry`); versions have distinct numbers until a promote follows a rollback (`VersionsDistinct`); rendered guidance is the content under the hash it was promoted with, also after overlaps and deaths, unless the candidate was edited, or was still being imported, when it was rendered; and without overlaps and deaths it was validated and promoted in that order (`RenderedWasValidated`) |
| `operations` | `Operations.cfg` | *pilots*: an eligible result has phase A and B on record with its real end (`EligibleIsAudited`); exposed guidance is within the budget and audited (`ExposedIsAudited`). *L1*: a candidate pass rests on this run's records, on the workspace that was read, and on the oracle that was hashed, unless that was edited before it was bundled (`CandidatePassIsEarned`), a mutation of the state root while it is watched blocks the verdict (`MutationIsBlocked`). *snapshot*: a source found unmodified is what was copied, and what was shown when it was left alone, and the marker is in no file that the scan could read (`UnmodifiedMeansCopied`). *Stage 2C*: the receipt tells the workspace and the gates (`ReceiptTellsTheWorkspace`). *setup*: an agent that was created is in a file unless a command died (`NoAgentIsLost`), the files agree (`FilesAgree`), and a successful repair leaves live ids but for what it reused unasked, whatever it began with (`RepairLeavesLiveOrReused`) |
| `event_loops` | `EventLoops.cfg` | *capsule*: a verdict is of a run that was not cut short and is the last result printed, else the file's, and the oracle's finding unless the candidate made a result (`VerdictIsOfAWholeRun`); the evaluator returns unless its kill was missed or given up (`CapsuleSettles`). *probes*: what stands behind `CONFORMANT` (`ConformantIsTrue`), only what was asked for is allowed (`AllowedAsAsked`), and the always-allow probe returns unless the session asks for ever (`AlwaysAllowReturns`) |
| `broker_source`, `broker_torn`, `session_closed_run`, `approve_switched`, `skills_rollback` | `BrokerSource.cfg`, and so on | each violates one property that a comment or a document states; see 5 |

Histories. Some properties hold only of an undisturbed command, and the model records
whether it was: `start[p]` in `Approve` is the repository as it was when `p` began,
forgotten as soon as anybody else touches it; `raced` in `SessionChain` is set when a
save overtakes another command, or a link is appended to a chain other than the one it
was hashed on; `alone` in `SkillLifecycle`, `torn` in the pilots, `died` in `OperatorSetup` and
`changes` in `SanitizedSnapshot` (how often a path was changed) do the same there. Where such
a premise cuts a hazard away, the hazard's note in `PROJECT.json` says so, and section 5 tells
what the code then does. That saves *can* overtake each other is what the code allows, and is
listed as a hazard; the properties say that nothing else breaks the chain.

## 4. Bounds, fairness, abstractions

Bounds.

- Broker: `MaxToolCalls` (the code: `SPRINT4A_MAX_TOOL_CALLS`) 4 is enough for check,
  write, check, finalize, for a check that fails after the finalize while budget is
  left, and for a batch across the budget. `BrokerWriting`, with two required checks,
  needs 5: two checks, the finalize, a failing check after it, and one call to spare, so
  that the session ends by itself and not by the budget. `MaxBatch` 2 is the smallest
  batch in which two handlers interleave (1 in `BrokerWriting`, for its size).
  One built-in tool event is told apart from none, as `evaluateTerminalRunOutcome` does.
- Approve: one approve per process, two processes, two runs, three files (one ignored by
  the manifest, one that only a patch adds), `MaxActs` 2 user actions: an edit and a
  staging or commit, or any others. An edit of the part that a patch is about no longer
  fits it; one of the rest does.
- SessionChain: two processes and two runs are what the interesting interleavings need
  (a second command between two loads of the first; a chain of two links whose order
  matters). One part is altered, after the removals. `OtherProject` is empty in
  the runs: the clause of `LinksAreApproved` about another project's runs is covered by
  the theorem only. `RepoHome` is TRUE so that a session run can be approved at all.
- Skills: `MCBudgets` gives each behaviour one of five sets of budgets, since their
  product is out of reach: one import under two edits; two imports and a command; one
  import, an edit and three commands (validate, promote and render it half-way);
  four commands and an edit on one imported candidate; five commands on two (two
  validations, two promotions, and a rollback or rendering). Files of two chunks, at the
  limits' value, are the smallest that can be torn between two versions and that can
  outgrow a limit. One skill name: entries of different names meet only in the
  whole-file save, which two candidates of one name show as well.
- Operations: two hashes tell the requested content from another; `MaxClock` 1 lets the
  clock jump across the start window; `MaxOutputChunks` 1 and one chunk besides the
  oracle's own result (`MaxChunks` 1; 2 in `EventLoops`): one below the cap and one above;
  two proposed actions (the second can fail after the first was written); three setup
  commands and two deletions (provision, delete, repair, look again); two skills per batch, each changed at most once
  during it; four paths (copied, uncopied, excluded, denied) and two changes of the tree;
  one disturbance from outside in an L1 run, at any place of it.
- Probes: `MaxUses` 2 tool uses of the agent, one asked for and one not;
  `MaxClosedReconnects` 1 where the code has 8, one reopening and the refusal of the next.
  The session may ask as often as it likes, one unread question at a time, since the
  driver does not count them.

Fairness. `FairSpec` of `ProjectToolBroker` has weak fairness of `Handler \/ Session`:
the process keeps running and the API keeps delivering events. The first is the
runtime's; the second is an assumption, since `project-tool-broker.ts:419` reads the
stream without a timeout (a hazard). `CapsuleFairness` is weak fairness of the evaluator's event
loop (a callback that is due runs), of its timer (it expires), and of docker (the
container is started or fails to): nothing is assumed of the oracle, which may hang, so that
`CapsuleSettles` is the timer's and the cap's doing. `ProbeFairness` is weak fairness of
the driver and of the server closing a stream that has nothing more to say (an HTTP
stream that stays open for ever is the hazard listed for the broker). The other modules
assume no fairness and state safety only; in them a process may always stop.

Sessions, approves and commands really end, so the configurations turn deadlock
checking off.

Abstractions worth knowing.

- A tool use gets its tool and input when it is executed; nothing reads them before.
- A check's verdict and its writes are nondeterministic; its writes happen within the
  check. On a timeout the code kills the docker client, which forwards the signal; a
  container that ignores it is not modelled.
- `FAIL_CHECK` stands for every verdict that is neither `PASS` nor
  `FAIL_VERIFICATION_INTEGRITY`; the five artifacts something reads stand for nine.
- In `Approve` the checks before the branch are one step, and so is the capture of the
  source; `--pr` and `--dry-run` are left out.
- Globs are given by the paths they match; an excluded directory is the paths below it
  (the walk prunes on `dir/`, so that a pattern such as `build/*` prunes deeper than one
  level). A content stands for its hash. Links that lead nowhere are ignored.
- The broker session is one step in `SkillGuidedPilot`, with any evidence that
  `TerminalOutcome` tells apart; `ProjectToolBroker` is its detail.
- A skill package is one directory deep; the depth limit is a kind of entry that Gate 0
  refuses, as links and special files are.
- The service is not followed once a probe has its result. The other operator's session
  in `ApprovalProbe` is of the same probe, run as asked.
- Provisioning a missing environment is one step of `OperatorSetup`.
- In `SessionChain` a save that overlaps another may leave a mixture (`Unreadable`).

## 5. Disagreements

| Run | The text says | The code does |
|---|---|---|
| `broker_source` | `evaluate-terminal-outcome.ts:85-90`: never eligible unless the source is unmodified | `project-tool-broker.ts:511` passes `sourceUnmodified: true` whatever was found |
| `broker_torn` | `project-tool-broker.ts:171`: any write invalidates the check gate | a write that throws after truncating the file does not |
| `session_closed_run` | `run.ts:119`: no run against a closed session | the session is loaded again after the prompt, and its status not looked at |
| `approve_switched` | `docs/ROAD_TO_USABLE.md:110`: the branch is always `powerplant/<run-id>` | `git commit` commits wherever HEAD is by then |
| `skills_rollback` | `skill-lifecycle.ts:338`: rollback restores a previously promoted exact version | a promote after a rollback takes a number that an archived version has |

Met while modelling, without a run of their own (the properties named above are stated so
that they hold beside these, and their premises say where):

*Broker.* `evaluate-terminal-outcome.ts:2-4` speaks of a single source of truth for the
summary's `passed`; `generate-patch-package.ts:288` derives it from the last check of any
kind, so that after a required check that passed and an advisory one that failed the summary
says not passed and the classification eligible. `powerplant run` exits 1 after an
intermediate failure that the classification forgives (`IntermediateFailureDoesNotPoison`
states it), and does not refuse on `forbiddenDetected`, which it shows.

*Approve.* An edit made between the drift check and `git apply`, in a part of a file that
the patch is not about, enters the commit (`approve.ts:210`). So does one that was there
when the run was captured, and whatever was staged before, although `approve.ts:273` says
"exactly the patch files, nothing more". `docs/ROAD_TO_USABLE.md:111` promises that the
branch is deleted when a step fails after its creation, and `approve.ts:297` reports it; on
a detached HEAD the cleanup stays on the branch, which git then refuses to delete, and a
`checkout -b` that makes the branch and fails itself (a hook) is followed by no cleanup. A
session run records `session-baseline` as its source, which is no git repository, so it
cannot be approved or extend the session (`session-workspace.ts:160`).

*Session.* `docs/ROAD_TO_USABLE.md:238` says that a mismatch of the manifest hash closes the
session. An extension does not compare: it hashes what it finds, an edited base included,
and records that (`session-workspace.ts:114-120`).

*Skills.* `validate` "requires the candidate to have passed Gates 0 and 1"
(`skill-lifecycle.ts:181`) and looks at `sha256 === null` (`196`), which every copied
manifest has: it accepts a candidate still being imported, and what an import that died
left, and so do `promote` and the rendering: guidance may be rendered under the hash of a
package that is half copied, or that the gates then refuse. An unreadable registry is read
as an empty one (`109`), and commands that overlap lose each other's change (`122`). A torn
line of the invocation audit garbles the next append, which is reported as written
(`skill-invocation-audit.ts:200`). The synthetic pilot does not compare the rendered hash
with the expected one again.

*L1 and capsule.* The candidate's code runs in the oracle's process, so that what is read as
the oracle's result may be the candidate's (`VerdictIsOfAWholeRun` tells the two apart). The
result file is "never used as sole trust source" (`capsule-evaluator.ts:9`), and its `PASS`
is taken when no result was printed (345-352). A pass requires neither that the patch is
eligible nor an `envelopeHash` match, both of which
`docs/architecture/SKILL_LIFECYCLE_STAGE_2B_LIVE_ACCEPTANCE_PLAN.md` asks for in lines
136-145: eligibility is only compared between two records (`l1-runner.ts:659` and before).
`tamperCheckPassed` is not looked at. `verifySourceUnchanged` may throw between a pilot's
session and its phase B (`run-skill-guided-sanitized-project-pilot.ts:478`), which every
started session is said to reach (38). The oracle is hashed for the last time before it is
read for the bundle. A state root that is changed and changed back is not noticed. A kill
that comes before the container exists is missed, and the timer does not fire again.

*Stage 2C.* When the receipt cannot be written the run is reported `RUNNER_BLOCKED` with no
receipt, although the agent acted; a write that throws leaves none either.

*Setup.* "Resources not found -> quarantine and re-provision" (`setup.ts:199`): step 3 of a
repair finds the dead agent again in `sprint4a-pilot.json` (`ensure-sprint4a-agent.ts:158`),
and it is saved as validated (363). A death between the creation of an agent and its first
save loses the agent, and one between two saves leaves files that disagree (`setup.ts:338`).
An error of the API counts as "not found", so a good state is quarantined. The override of
the environment is ignored when an agent is reused.

*Probes.* In `event-ordering.ts` the deny variant cannot be `CONFORMANT`, against its
comment (63-64). The allow variant of the SDK probe may be although the tool ran unasked, or
although it was the tool of a session that the worker claimed second that wrote the file
(`run-sdk-isolated-worker.ts:53`). The deny variant reports "bash did not execute"
(`run-sdk-approval-deny-diagnostic.ts:108`), and looks only at the file of the command it
denied. A worker that claimed nothing is no mismatch. With one of two files written the
write probe is `CONFORMANT`. A probe that throws in `runWithConfirmation` leaves its worker
polling. The listing of outputs takes its first non-empty answer, or its third empty one, as
final. Reopenings after `requires_action` are unbounded in `runAlwaysAllowSession`.
`immediateConfirmation` has no caller.

*Snapshot.* A copied file's manifest entry is hashed from the source, after the copy;
`checkSourceModified` of `powerplant verify` sees neither new files nor an edit between copy
and hash; the preview counts links, which the build refuses. A file that the scan for the
forbidden marker cannot read, or that is too long for a string, is copied and passes
(`validate-sanitized-workspace.ts:50`).

## 6. Proofs

Every theorem holds for every value of the constants that the modules' assumptions allow,
so for any number of processes, runs, files, skills, edits, deaths and disturbances. The
assumptions are those about kinds (limits are positive numbers, `None` is no path) and
these: the required checks are checks (`ContractAssumption`); not every file of the
project is an excluded one (`ProjectAssumption`); a registry's record is told from no record
(`RegistryAssumption`); a batch of the synthetic pilot and the candidates at hand
when a behaviour begins are finite (`SyntheticAssumption`, `IngestionAssumption`).
The theorems about the modules of the run `operations` are about the specification of the
component itself (`CapsuleSpec`, `PilotSpec`, `L1Spec`, `SyntheticSpec`, `SnapshotSpec`,
`SetupSpec`, `Stage2cSpec`, `ProbeSpec`); a scenario of `MCOperations` is one of them on a
small instance, with the others' variables at rest.

| Module | Inductive invariant | Theorems |
|---|---|---|
| `ProjectToolBrokerProofs` | `IInv` | `TypeCorrect`, `EligibleIsVerified`, `SummaryIsLast`, `BudgetHolds`, `CallsAreAnswered`, `PatchVerified`, `PackageIsFinal`, `SessionImplementsGate` |
| `ApproveProofs` | `AInv` | `TypeCorrect`, `HeldByOne`, `CommitsThePatch`, `CommitsTheVerifiedTree`, `ChangesOnlyItsBranch`, `LeavesNoCommit` |
| `SessionChainProofs` | `CInv`, then `KInv` | `TypeCorrect`, `ChainIsApproved`, `RunsBuildOnApproved`, `SavesKeep`, `ChainReproduces` |
| `SkillLifecycleProofs` | `LInv`, `LogInv`, `FileInv` | `GuidanceWasValidated`, `LogTellsRegistry`, `NumbersAreDistinct`, `ImportedFilesAreWhole` |
| `L1Proofs` | `CapsuleInv`, `PilotInv`, `L1Inv` | `CapsuleVerdictIsWhole`, `PilotEligibleIsAudited`, `InsideTheHarness`, `PassIsEarned`, `MutationBlocks` |
| `SyntheticPilotProofs` | `BatchInv` | `ExposureIsAudited` |
| `SanitizedSnapshotProofs` | `SnapInv` | `UnmodifiedIsCopied` |
| `OperatorProofs` | `SetupInv`, `RunnerInv`, `ProbeInv` | `AgentsAreTracked`, `StatesAgree`, `RepairTells`; `ReceiptIsTrue`; `ConformantTells`, `NothingElseIsAllowed` |

**`ProjectToolBrokerProofs`.** `TypeCorrect` comes first, on its own. `EligibleMeansVerified`
is not inductive: at the end of a session it needs that the gate's set of passed checks
holds only checks whose latest run passed on the present workspace (`GateIsFresh`), that
the derived flag `testCheckPassed` agrees with that set (`DerivedFlagAgrees`), and that
the package is complete and whole when it is recorded
(`SummaryComesLast`); the budget needs
`TurnsAreTracked`, which also gives that every waiting call is computed or still to run.
`IInv` conjoins them; one lemma per part says what a handler does to it and one what a
loop step does. `SessionImplementsGate` proves, where only accepted writes change the tree
and no writable path is excluded from the diff, that every step of a session is a step of
`FinalizeGate` or a stutter. Both conditions are needed: a check that rewrites files, or an
excluded writable path, makes the released tree another one than the tested one.

**`ApproveProofs`.** What an approve commits is decided many steps before, by what it found
when it began. `SinceStart` relates the repository at each place of an approve to
`start[p]`; it survives the process's own steps, and whoever else touches the repository
takes `start[p]` away (`AloneKnows`). A cleanup command that git refuses is a case of
its own there, one that fails by itself is in `slips`. `RunHeldByOne` is part of the invariant: the branch
that an approve made is its own until it ends. `TreesAreWhole` keeps the tracked files in every
commit, so that `git apply`, a checkout and a commit can be compared file by file. The project needs
a file outside the excluded paths: the model writes a branch that does not exist as a
tree without files, and only a tree with a tracked file differs from that.

**`SessionChainProofs`.** That the file holds only approved runs is not inductive: a
process holds a session, a run to extend it with, or a hash, long before the file shows
it. `CInv` adds that what each process holds is approved and passed (`HeldIsApproved`) and
that an unapproved session run is still on disk, so that no new run takes its id
(`UnapprovedIsKept`, from the guard of `Remove`). `approved` and `passed` only grow
(`NextGrows`), so the facts about one process survive what the others do (`OthersHold`).
The chain's reproducibility needs the second invariant, `KInv`: while no save was
overtaken, what each process saw, hashed and is about to save is what the file says or
extends it, and each link's hash is that of the runs before it with its own, but for parts
altered since (`Kept`, `Unraced`, `FollowsIn`).

**`SkillLifecycleProofs`.** An envelope's hash comes from the registry, the registry's from a
promote, and a promote's from a validate, any of which may not have reached the log yet.
`Evidence` follows a hash along that way: whoever holds one (a candidate, the registry, its
archived versions, a copy that a process is about to save, an envelope) can show its events in
the log or the one process that will write them, and the other processes are idle then,
while commands do not overlap. `StillCompared` keeps the `SKILL.md` that was compared until
it is read. The first attempt at this proof failed on an import in progress, and TLC then
found the behaviour of section 5: a candidate promoted while it was being copied. The model
had let an import and a command on the same candidate pass each other by; it does not now.

That the log tells the registry needs `LogInv`: a command that is alone holds a copy of the
registry that is one event ahead of the log, or has saved one, and `Adds` says what log and
event tell together; the events of a skill are a set of places in the log, so that one more
event adds one place (`PlacesGrow`). Version numbers are distinct after a rollback because
they rose until then, so `LogInv` has both (`Numbered`). That imported files are whole
needs `FileInv`, which follows a file through the import: the entries of the walk have
different files, and any two of them fit in the running total (`WalkTold`); a copy is no longer
than its entry, and of the walked version as long as the source still has that version, and for
good once the last `fstat` is passed (`CopyTold`). A `validate` in progress holds a manifest
it read before, and will write it back: it is the one that the import copied, or one that
was whole when the import ended (`HeldTold`, `Within`).

**`L1Proofs`.** For the capsule: the result that was read last, or else the last one still in
the pipe, is the last one printed (`OnItsWay`); what was printed or written by a candidate is
marked, and all else is what the oracle found (`FoundOrForeign`); nothing comes from a
container that never ran, and the evaluator judges when there is nothing more to read. So a
verdict needs no assumption about the race of timer, cap and `close`, and none about the
candidate. For the pilot: without a torn append every line stays whole, and at each
place the file holds what the run has appended (`PilotKnows`). Both are proved again inside
the harness, whose steps and whose surroundings leave them to their own steps
(`L1Projects`), and `HarnessInv` says what the harness's hashes tell of state root, oracle
and records.

**`SyntheticPilotProofs`.** The requests are the skills collected so far and those still to do,
in order; what nobody changed is as it was listed; every collected skill has its line.

**`SanitizedSnapshotProofs`.** Path by path: where the command has come with it
(`AsShown`, `AsCaptured`, `AsMissed`), against how often it was changed. The first change of a
path makes it differ from what was recorded, so the comparison notices; the second may
change it back, and takes the path out of the promise. No assumption that the walks see a
consistent tree.

**`OperatorProofs`.** Setup: an agent is quarantined, the operator's, or in the hand of the
command that made it (`Tracked`); the pilot file is written or read before the operator
state (`PilotByPlace`); in a calm command what was validated or
made lives, and what was only found in a file is marked as reused (`CalmLives`).
Runner: every path holds what the last allowed event on it wrote (`WorkspaceTold`). Probes: what
is on disk was written by a tool that ran, or by a session that the worker claimed
(`WrittenByTools`), a use that waits is not allowed yet, and what the driver has decided at
each place (`DecidedByPlace`).

Only model-checked: `SessionEnds`, `CapsuleSettles` and `AlwaysAllowReturns`, since liveness
under fairness is out of the prover's reach. Every safety invariant and every action property
that a passing run checks is a theorem or a conjunct of an invariant that is one. No module
declares a RECURSIVE operator.

## 7. Not modelled

`PROJECT.json` lists every component with its reason. In short:

- *Not modelled.* The sanitized pilot, an older driver without skills of the broker
  session; the custom tool broker, the one-call predecessor of the project broker; the
  tool policy, the contract and the scout, pure functions; the capsule checks
  (`run-capsule-checks.ts` and their classification), whose verdict is nondeterministic in
  the broker's module; the `run` command's printing and exit code beyond
  `TerminalOutcome` and `SessionChain`; `review`, `inspect`, `doctor`, `init` and `verify`, which
  read and print; the provisioning of earlier sprints; configuration.
- *Partly.* `approve` without `--pr` and `--dry-run`; snapshots without the mount manifest of
  an earlier sprint; confirmations, workers, diagnostic sessions and outputs as far as
  `ApprovalProbe` goes: not the container worker's own loop, the boundary diagnostic, nor
  the download.

## 8. Plan

Proofs. What remains is to keep them beside the models as those grow; the first new ones are the
capsule checks' verdict and, from it, `EligibleMeansVerified` with a check that is no longer
nondeterministic.

Modules: the capsule checks (profiles, timeout, classification), composed with
`ProjectToolBroker` in place of the nondeterministic verdict.
