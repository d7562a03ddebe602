-------------------------- MODULE ProjectToolBroker --------------------------
(***************************************************************************)
(* One broker session: runProjectPilotBrokerSession and the handlers of    *)
(* the five project tools (src/src/broker/project-tool-broker.ts), with    *)
(* the package that an accepted finalize writes                            *)
(* (src/src/projects/generate-patch-package.ts).                           *)
(*                                                                         *)
(* The broker is sequential; what interleaves with it is the managed-agent *)
(* API (which batches tool uses, resolves results a few at a time and may  *)
(* fail) and the operator, who may edit the source project meanwhile.      *)
(* Every handler is one action: the broker awaits nothing that could let   *)
(* another handler run in between.                                         *)
(*                                                                         *)
(* A tool use is bound to its tool and its input when the broker executes  *)
(* it, not when the API emits it: nothing reads them in between.           *)
(*                                                                         *)
(* A definition Name_Variant is a mutant of Name: no action uses it.       *)
(***************************************************************************)
EXTENDS Naturals, Sequences, FiniteSets, TerminalOutcome

CONSTANTS
  Checks,         \* the checks VERIFY.yaml declares (contract.allowedChecks)
  Required,       \* those that are required; the others are advisory
  WritingChecks,  \* checks whose command changes files of the workspace
  Files,          \* paths of the workspace
  Writable,       \* paths that match contract.allowedWritePaths
  Excluded,       \* paths that match contract.excludePaths
  Contents,       \* what a file may hold, Base included
  Base,           \* what every file holds in the baseline snapshot (or its absence)
  Rejected,       \* contents the write guards refuse (marker, corrupt artifact)
  Torn,           \* what a write that fails half-way leaves; {}: no write fails so
  MaxToolCalls,   \* SPRINT4A_MAX_TOOL_CALLS
  MaxBatch        \* bound: the tool uses an agent emits in one turn

ASSUME ContractAssumption ==
  /\ IsFiniteSet(Checks)
  /\ Required \subseteq Checks
  /\ WritingChecks \subseteq Checks
  /\ Files # {}
  /\ Writable \subseteq Files
  /\ Excluded \subseteq Files
  /\ Base \in Contents
  /\ Rejected \subseteq Contents
  /\ Torn \subseteq Contents

ASSUME BudgetAssumption == MaxToolCalls \in Nat /\ MaxBatch \in Nat \ {0}

VARIABLES
  phase,                     \* where the session loop is
  newToolUses,               \* ids of this turn's tool uses not executed yet
  totalCustomToolCalls,      \* also the id of the last tool use
  waiting,                   \* ids the API still waits on
  computedResults,           \* ids whose result the broker has computed
  workspace,                 \* the writable workspace: Files -> Contents
  checksValidAfterLastWrite,
  passedRequiredChecks,
  testCheckPassed,
  checkResults,
  finalizeAttempted,
  finalizeReceived,
  patchPackage,              \* state.patchPackage # null
  builtinToolUseCount,
  artifacts,                 \* files of the package on disk
  tornArtifact,              \* the one of them a failing write left half-written, or "NONE"
  patchDiff,                 \* the tree PATCH.diff makes of the baseline
  summaryPassed,             \* "passed" in SESSION_SUMMARY.json
  sourceVerified,            \* postRunVerification in SOURCE_MANIFEST.json
  sourceUnmodified,          \* does the source still match the manifest?
  terminationReason,         \* RUN_CLASSIFICATION.json, "NONE" before the end
  patchEligible,             \* patchEligibleForApplication
  latestVerdict,             \* history: the verdict of each check's last run
  testedTree                 \* history: the tree each check last ran on

apiVars     == <<totalCustomToolCalls, waiting, builtinToolUseCount>>
gateVars    == <<checksValidAfterLastWrite, passedRequiredChecks, testCheckPassed,
                 checkResults>>
finalVars   == <<finalizeAttempted, finalizeReceived>>
packageVars == <<patchPackage, artifacts, tornArtifact, patchDiff, summaryPassed,
                 sourceVerified>>
outcomeVars == <<terminationReason, patchEligible>>
historyVars == <<latestVerdict, testedTree>>
vars == <<phase, newToolUses, computedResults, workspace, sourceUnmodified,
          apiVars, gateVars, finalVars, packageVars, outcomeVars, historyVars>>

Trees    == [Files -> Contents]
Baseline == [f \in Files |-> Base]

\* The id of a built-in tool use the API waits on; the broker never answers it.
BuiltinId == 0

\* The artifacts generatePatchPackage writes, in its order; the ones nothing
\* else reads (SANITIZED_MANIFEST, PROMPT_ENVELOPE, CHANGED_FILES,
\* ADVERSARIAL_REVIEW) are left out.
ArtifactOrder_SummaryFirst == <<"SESSION_SUMMARY", "SOURCE_MANIFEST", "TASK", "PATCH",
                                "VERIFICATION_REPORT">>
ArtifactOrder == <<"SOURCE_MANIFEST", "TASK", "PATCH", "VERIFICATION_REPORT",
                   "SESSION_SUMMARY">>
ArtifactNames == {ArtifactOrder[i] : i \in 1..Len(ArtifactOrder)}
ArtifactsUpTo(n) == {ArtifactOrder[i] : i \in 1..n}

\* The paths whose diff goes into PATCH.diff.
ChangedWritePaths ==
  {f \in Files : f \in Writable /\ f \notin Excluded /\ workspace[f] # Base}

\* What applying PATCH.diff to the baseline yields.
PatchedTree ==
  [f \in Files |-> IF f \in ChangedWritePaths THEN workspace[f] ELSE Base]

------------------------------------------------------------------------------
Init ==
  /\ phase = "top"
  /\ newToolUses = <<>>
  /\ totalCustomToolCalls = 0
  /\ waiting = {}
  /\ computedResults = {}
  /\ workspace = Baseline
  /\ checksValidAfterLastWrite = FALSE
  /\ passedRequiredChecks = {}
  /\ testCheckPassed = (Required = {})
  /\ checkResults = <<>>
  /\ finalizeAttempted = FALSE
  /\ finalizeReceived = FALSE
  /\ patchPackage = FALSE
  /\ builtinToolUseCount = 0
  /\ artifacts = {}
  /\ tornArtifact = "NONE"
  /\ patchDiff = Baseline
  /\ summaryPassed = FALSE
  /\ sourceVerified = FALSE
  /\ sourceUnmodified = TRUE
  /\ terminationReason = "NONE"
  /\ patchEligible = FALSE
  /\ latestVerdict = [c \in Checks |-> "NONE"]
  /\ testedTree = [c \in Checks |-> Baseline]

------------------------------------------------------------------------------
(* The end of the session: the loop breaks and the outcome is evaluated.   *)
(* The source is reported unmodified whatever it is.                       *)

EvidenceAtEnd(budgetExhausted, hasMarker) ==
  [budgetExhausted           |-> budgetExhausted,
   finalizeReceived          |-> finalizeReceived,
   patchPackagePresent       |-> patchPackage,
   checksValidAfterLastWrite |-> checksValidAfterLastWrite,
   testCheckPassed           |-> testCheckPassed,
   lastVerdict               |-> LastVerdict(checkResults),
   sourceUnmodified          |-> TRUE,
   builtInToolUseCount       |-> builtinToolUseCount,
   finalResponseHasMarker    |-> hasMarker]

EndSession(budgetExhausted) ==
  /\ phase' = "done"
  /\ terminationReason' = TerminationReason(budgetExhausted, finalizeReceived)
  /\ \E hasMarker \in BOOLEAN :
       patchEligible' = FinalVerificationPassed(EvidenceAtEnd(budgetExhausted, hasMarker))
  /\ UNCHANGED <<newToolUses, computedResults, workspace, sourceUnmodified,
                 apiVars, gateVars, finalVars, packageVars, historyVars>>

------------------------------------------------------------------------------
(* The session loop.                                                       *)

BudgetExhausted ==
  /\ phase = "top"
  /\ totalCustomToolCalls >= MaxToolCalls
  /\ EndSession(TRUE)

OpenTurn_ForgetsResults ==
  /\ phase = "top"
  /\ totalCustomToolCalls < MaxToolCalls
  /\ phase' = "streaming"
  /\ newToolUses' = <<>>
  /\ computedResults' = {}
  /\ UNCHANGED <<workspace, sourceUnmodified, apiVars, gateVars, finalVars,
                 packageVars, outcomeVars, historyVars>>

OpenTurn_OffByOne ==
  /\ phase = "top"
  /\ totalCustomToolCalls <= MaxToolCalls
  /\ phase' = "streaming"
  /\ newToolUses' = <<>>
  /\ UNCHANGED <<computedResults, workspace, sourceUnmodified, apiVars, gateVars,
                 finalVars, packageVars, outcomeVars, historyVars>>

OpenTurn ==
  /\ phase = "top"
  /\ totalCustomToolCalls < MaxToolCalls
  /\ phase' = "streaming"
  /\ newToolUses' = <<>>
  /\ UNCHANGED <<computedResults, workspace, sourceUnmodified, apiVars, gateVars,
                 finalVars, packageVars, outcomeVars, historyVars>>

\* agent.custom_tool_use.  The agent speaks again only when every earlier
\* tool use is resolved.
ReceiveToolUse ==
  LET id == totalCustomToolCalls + 1 IN
  /\ phase = "streaming"
  /\ Len(newToolUses) < MaxBatch
  /\ waiting \subseteq {newToolUses[i] : i \in 1..Len(newToolUses)} \cup {BuiltinId}
  /\ newToolUses' = Append(newToolUses, id)
  /\ totalCustomToolCalls' = id
  /\ waiting' = waiting \cup {id}
  /\ UNCHANGED <<phase, builtinToolUseCount, computedResults, workspace,
                 sourceUnmodified, gateVars, finalVars, packageVars, outcomeVars,
                 historyVars>>

\* agent.tool_use: a built-in tool was used.  The API may or may not wait for
\* an answer to it.  Bound: one such event is told apart from none.
ReceiveBuiltinToolUse ==
  /\ phase = "streaming"
  /\ builtinToolUseCount = 0
  /\ builtinToolUseCount' = 1
  /\ waiting' \in {waiting, waiting \cup {BuiltinId}}
  /\ UNCHANGED <<phase, newToolUses, totalCustomToolCalls, computedResults, workspace,
                 sourceUnmodified, gateVars, finalVars, packageVars, outcomeVars,
                 historyVars>>

\* session.status_idle with stop_reason requires_action.
ReceiveRequiresAction ==
  /\ phase = "streaming"
  /\ waiting # {}
  /\ phase' = "executing"
  /\ UNCHANGED <<newToolUses, computedResults, workspace, sourceUnmodified, apiVars,
                 gateVars, finalVars, packageVars, outcomeVars, historyVars>>

\* session.status_terminated, an idle that asks for nothing, or the end of the stream.
ReceiveSessionEnd ==
  /\ phase = "streaming"
  /\ EndSession(FALSE)

\* An unknown tool name, or a stream or send that fails, throws out of the session.
SessionThrows ==
  /\ phase \in {"top", "streaming", "executing"}
  /\ phase = "executing" => newToolUses = <<>>
  /\ phase' = "exception"
  /\ UNCHANGED <<newToolUses, computedResults, workspace, sourceUnmodified, apiVars,
                 gateVars, finalVars, packageVars, outcomeVars, historyVars>>

\* All new tool uses are executed: send the results the API waits for.  It
\* resolves some of them, at least one, and reports the others again.
SendResults ==
  /\ phase = "executing"
  /\ newToolUses = <<>>
  /\ waiting \cap computedResults # {}
  /\ \E resolved \in SUBSET (waiting \cap computedResults) \ {{}} :
       waiting' = waiting \ resolved
  /\ phase' = "top"
  /\ UNCHANGED <<newToolUses, totalCustomToolCalls, builtinToolUseCount,
                 computedResults, workspace, sourceUnmodified, gateVars, finalVars,
                 packageVars, outcomeVars, historyVars>>

NoResultsToSend_LoopsAgain ==
  /\ phase = "executing"
  /\ newToolUses = <<>>
  /\ waiting \cap computedResults = {}
  /\ phase' = "top"
  /\ UNCHANGED <<newToolUses, computedResults, workspace, sourceUnmodified, apiVars,
                 gateVars, finalVars, packageVars, outcomeVars, historyVars>>

NoResultsToSend ==
  /\ phase = "executing"
  /\ newToolUses = <<>>
  /\ waiting \cap computedResults = {}
  /\ EndSession(FALSE)

------------------------------------------------------------------------------
(* The tool handlers.  An error thrown by a handler becomes its result.    *)

\* Take the next tool use of the batch and store its result.
Execute ==
  /\ phase = "executing"
  /\ newToolUses # <<>>
  /\ newToolUses' = Tail(newToolUses)
  /\ computedResults' = computedResults \cup {Head(newToolUses)}
  /\ UNCHANGED <<phase, sourceUnmodified, apiVars, outcomeVars>>

\* project_list_files, project_read_file, and every call that is refused
\* before it changes anything: a malformed input, an unauthorized path or
\* check, a rejected content, a capsule that cannot be started.
HandleWithoutEffect ==
  /\ Execute
  /\ UNCHANGED <<workspace, gateVars, finalVars, packageVars, historyVars>>

\* project_write_file, accepted.
HandleWriteFile(f, v) ==
  /\ Execute
  /\ f \in Writable
  /\ v \notin Rejected
  /\ workspace' = [workspace EXCEPT ![f] = v]
  /\ checksValidAfterLastWrite' = FALSE
  /\ passedRequiredChecks' = {}
  /\ testCheckPassed' = (Required = {})
  /\ UNCHANGED <<checkResults, finalVars, packageVars, historyVars>>

\* project_write_file, when writeFileSync throws after it has truncated or partly
\* written the file: the lines that invalidate the check gate are never reached.
HandleWriteFileTorn(f, v) ==
  /\ Execute
  /\ f \in Writable
  /\ v \in Torn
  /\ workspace' = [workspace EXCEPT ![f] = v]
  /\ UNCHANGED <<gateVars, finalVars, packageVars, historyVars>>

\* The check's own writes: its command runs with the workspace mounted
\* read-write (run-capsule-checks.ts) or as its directory (run-approved-checks.ts).
TreesAfterCheck(c) == IF c \in WritingChecks THEN Trees ELSE {workspace}

HandleRunCheck_FailKeepsPass(c, verdict) ==
  LET passed == verdict = "PASS" IN
  /\ Execute
  /\ workspace' \in TreesAfterCheck(c)
  /\ checkResults' = Append(checkResults, [checkId |-> c, verdict |-> verdict])
  /\ passedRequiredChecks' =
       IF c \in Required /\ passed THEN passedRequiredChecks \cup {c}
                                  ELSE passedRequiredChecks
  /\ testCheckPassed' =
       IF c \in Required
       THEN Cardinality(passedRequiredChecks') = Cardinality(Required)
       ELSE testCheckPassed
  /\ checksValidAfterLastWrite' =
       (passed \/ c \notin Required \/ checksValidAfterLastWrite)
  /\ latestVerdict' = [latestVerdict EXCEPT ![c] = verdict]
  /\ testedTree' = [testedTree EXCEPT ![c] = workspace]
  /\ UNCHANGED <<finalVars, packageVars>>

\* project_run_check of a declared check, with the verdict its run gets.
HandleRunCheck(c, verdict) ==
  LET passed == verdict = "PASS" IN
  /\ Execute
  /\ workspace' \in TreesAfterCheck(c)
  /\ checkResults' = Append(checkResults, [checkId |-> c, verdict |-> verdict])
  /\ passedRequiredChecks' =
       IF c \in Required /\ passed THEN passedRequiredChecks \cup {c}
                                  ELSE passedRequiredChecks \ {c}
  /\ testCheckPassed' =
       IF c \in Required
       THEN Cardinality(passedRequiredChecks') = Cardinality(Required)
       ELSE testCheckPassed
  /\ checksValidAfterLastWrite' =
       (passed \/ c \notin Required \/ checksValidAfterLastWrite)
  /\ latestVerdict' = [latestVerdict EXCEPT ![c] = verdict]
  /\ testedTree' = [testedTree EXCEPT ![c] = workspace]
  /\ UNCHANGED <<finalVars, packageVars>>

FinalizeAllowed_IgnoresRequired ==
  /\ checksValidAfterLastWrite
  /\ ~finalizeReceived

FinalizeAllowed_Repeatable ==
  /\ Required \subseteq passedRequiredChecks
  /\ checksValidAfterLastWrite

\* The conditions under which project_finalize goes past its rejections.
FinalizeAllowed ==
  /\ Required \subseteq passedRequiredChecks
  /\ checksValidAfterLastWrite
  /\ ~finalizeReceived

\* project_finalize, rejected: checks missing, stale after a write, or a duplicate.
HandleFinalizeRejected ==
  /\ Execute
  /\ ~FinalizeAllowed
  /\ finalizeAttempted' = TRUE
  /\ UNCHANGED <<finalizeReceived, workspace, gateVars, packageVars, historyVars>>

\* generatePatchPackage has begun to write its first n artifacts, of which torn
\* is not whole.  A torn artifact holds nothing that can be read from it.
WriteArtifacts(n, torn) ==
  LET Whole(a) == a \in artifacts' \ {torn} IN
  /\ artifacts' = ArtifactsUpTo(n)
  /\ tornArtifact' = torn
  /\ sourceVerified' = IF Whole("SOURCE_MANIFEST") THEN sourceUnmodified ELSE sourceVerified
  /\ patchDiff' = IF Whole("PATCH") THEN PatchedTree ELSE patchDiff
  /\ summaryPassed' =
       IF Whole("SESSION_SUMMARY")
       THEN SummaryPassed(checksValidAfterLastWrite, LastVerdict(checkResults),
                          sourceUnmodified)
       ELSE summaryPassed

\* project_finalize past its rejections: finalizeReceived is set first, then
\* the source is verified and the package written.  Either may throw, between
\* two artifacts or in the writeFileSync of one, which stays on disk truncated,
\* the last one included: what was written stays, and no package is recorded.
HandleFinalizeFails ==
  /\ Execute
  /\ FinalizeAllowed
  /\ finalizeAttempted' = TRUE
  /\ finalizeReceived' = TRUE
  /\ \/ \E n \in 0..(Len(ArtifactOrder) - 1) : WriteArtifacts(n, "NONE")
     \/ \E n \in 1..Len(ArtifactOrder) : WriteArtifacts(n, ArtifactOrder[n])
  /\ UNCHANGED <<patchPackage, workspace, gateVars, historyVars>>

HandleFinalize ==
  /\ Execute
  /\ FinalizeAllowed
  /\ finalizeAttempted' = TRUE
  /\ finalizeReceived' = TRUE
  /\ WriteArtifacts(Len(ArtifactOrder), "NONE")
  /\ patchPackage' = TRUE
  /\ UNCHANGED <<workspace, gateVars, historyVars>>

------------------------------------------------------------------------------
(* The operator edits the source project while the run is in flight.       *)
(* Bound: what was edited is not restored.                                 *)
EditSource ==
  /\ phase \notin {"done", "exception"}
  /\ sourceUnmodified
  /\ sourceUnmodified' = FALSE
  /\ UNCHANGED <<phase, newToolUses, computedResults, workspace, apiVars, gateVars,
                 finalVars, packageVars, outcomeVars, historyVars>>

Handler ==
  \/ HandleWithoutEffect
  \/ \E f \in Files, v \in Contents : HandleWriteFile(f, v)
  \/ \E f \in Files, v \in Torn : HandleWriteFileTorn(f, v)
  \/ \E c \in Checks, verdict \in CheckVerdicts : HandleRunCheck(c, verdict)
  \/ HandleFinalizeRejected
  \/ HandleFinalizeFails
  \/ HandleFinalize

Session ==
  \/ BudgetExhausted
  \/ OpenTurn
  \/ ReceiveToolUse
  \/ ReceiveBuiltinToolUse
  \/ ReceiveRequiresAction
  \/ ReceiveSessionEnd
  \/ SessionThrows
  \/ SendResults
  \/ NoResultsToSend

Next == Handler \/ Session \/ EditSource

Spec == Init /\ [][Next]_vars

\* The broker keeps running, and the API keeps delivering events: the stream
\* has no timeout of its own, so the second half is the API's promise.
FairSpec == Spec /\ WF_vars(Handler \/ Session)

------------------------------------------------------------------------------
(* Properties.                                                             *)

\* Every variable stays in its set.
TypeOK ==
  /\ phase \in {"top", "streaming", "executing", "done", "exception"}
  /\ newToolUses \in Seq(Nat)
  /\ totalCustomToolCalls \in Nat
  /\ waiting \subseteq Nat
  /\ computedResults \subseteq Nat
  /\ workspace \in Trees
  /\ checksValidAfterLastWrite \in BOOLEAN
  /\ passedRequiredChecks \subseteq Required
  /\ testCheckPassed \in BOOLEAN
  /\ checkResults \in Seq([checkId : Checks, verdict : CheckVerdicts])
  /\ finalizeAttempted \in BOOLEAN
  /\ finalizeReceived \in BOOLEAN
  /\ patchPackage \in BOOLEAN
  /\ builtinToolUseCount \in {0, 1}
  /\ artifacts \subseteq ArtifactNames
  /\ tornArtifact \in ArtifactNames \cup {"NONE"}
  /\ patchDiff \in Trees
  /\ summaryPassed \in BOOLEAN
  /\ sourceVerified \in BOOLEAN
  /\ sourceUnmodified \in BOOLEAN
  /\ terminationReason \in TerminationReasons \cup {"NONE"}
  /\ patchEligible \in BOOLEAN
  /\ latestVerdict \in [Checks -> CheckVerdicts \cup {"NONE"}]
  /\ testedTree \in [Checks -> Trees]

\* The workspace changes only by accepted writes.
OnlyWritesChangeTree == WritingChecks = {} /\ Torn = {}

\* Check c stands: its last run passed, and it ran on tree t.
Stands(c, t) ==
  /\ latestVerdict[c] = "PASS"
  /\ OnlyWritesChangeTree => testedTree[c] = t

\* The gate never holds a check that does not stand on the current workspace:
\* passedRequiredChecks (handleWriteFile, handleRunCheck) is never stale.
GateIsFresh == \A c \in passedRequiredChecks : Stands(c, workspace)

\* The "Derived" flag of BrokerState is the predicate its comment gives.
DerivedFlagAgrees == testCheckPassed <=> (passedRequiredChecks = Required)

\* Outside the paths the agent may write the workspace is the baseline.
WritesStayInWritable ==
  OnlyWritesChangeTree => \A f \in Files \ Writable : workspace[f] = Base

\* PATCH.diff is written only when every required check's latest run passed, and
\* a whole one only on exactly the tree that the patch makes of the baseline (provided
\* no writable path is excluded from the diff and only writes change the tree).
PatchIsVerified ==
  [][("PATCH" \notin artifacts /\ "PATCH" \in artifacts') =>
       /\ \A c \in Required : latestVerdict[c] = "PASS"
       /\ OnlyWritesChangeTree /\ Writable \cap Excluded = {} /\ tornArtifact' # "PATCH"
            => \A c \in Required : testedTree[c] = patchDiff']_vars

\* A run judged eligible has a complete package, ended regularly, and every
\* required check stands on the workspace the session left behind.
EligibleMeansVerified ==
  patchEligible => /\ phase = "done"
                   /\ patchPackage
                   /\ artifacts = ArtifactNames /\ tornArtifact = "NONE"
                   /\ terminationReason = "COMPLETED"
                   /\ \A c \in Required : Stands(c, workspace)

\* One session releases at most one package: from the finalize that passed the
\* gate on, whether it succeeded or threw, nothing on disk changes any more.
ReleasedOnce == [][finalizeReceived => UNCHANGED packageVars]_vars

\* SESSION_SUMMARY.json, whose existence alone approve tests (approve.ts:183),
\* comes last: once it is on disk, even torn by the write that failed, every other
\* artifact is there and whole.  A package is recorded exactly when all of them
\* are whole, and without a finalize that passed the gate nothing is on disk.
SummaryComesLast ==
  /\ "SESSION_SUMMARY" \in artifacts =>
       /\ artifacts = ArtifactNames
       /\ tornArtifact \in {"NONE", "SESSION_SUMMARY"}
  /\ patchPackage <=> (artifacts = ArtifactNames /\ tornArtifact = "NONE")
  /\ artifacts # {} => finalizeReceived

\* When the broker answers, it has a result for every custom tool use the API
\* still waits on, those of earlier turns included (computedResults persists).
EveryWaitingCallHasResult ==
  phase = "executing" /\ newToolUses = <<>> => waiting \ {BuiltinId} \subseteq computedResults

\* The budget is tested once a turn, so the batch that reaches it runs to its
\* end, but no turn starts after it.
BudgetOvershootBounded == totalCustomToolCalls < MaxToolCalls + MaxBatch

\* What the turns of the loop maintain: the budget was not exhausted when the
\* turn started, and an unresolved tool use is either computed or still to run.
TurnsAreTracked ==
  /\ Len(newToolUses) <= MaxBatch
  /\ phase = "top" => newToolUses = <<>>
  /\ phase = "streaming" => totalCustomToolCalls - Len(newToolUses) < MaxToolCalls
  /\ waiting \subseteq {BuiltinId} \cup computedResults
                        \cup {newToolUses[i] : i \in 1..Len(newToolUses)}

\* The invariants above are inductive together.
IInv ==
  /\ TypeOK
  /\ GateIsFresh
  /\ DerivedFlagAgrees
  /\ WritesStayInWritable
  /\ SummaryComesLast
  /\ EligibleMeansVerified
  /\ TurnsAreTracked
  /\ BudgetOvershootBounded

\* Every session ends, by its own end, the budget or an exception.
SessionEnds == <>(phase \in {"done", "exception"})

\* The session implements the release gate: seen through the latest runs of the
\* checks, it is a tree rewritten at will and released once, when proven.
NoTree == [f \in {} |-> Base]
Gate == INSTANCE FinalizeGate WITH
  tree     <- workspace,
  proven   <- [c \in Checks |-> IF latestVerdict[c] = "PASS" THEN testedTree[c] ELSE NoTree],
  released <- IF patchPackage THEN patchDiff ELSE NoTree,
  closed   <- finalizeReceived

\* Refinement of FinalizeGate!Spec, where only writes change the tree and no
\* writable path is left out of the diff.
ImplementsGate == Gate!Spec

------------------------------------------------------------------------------
(* What the comments promise and the code does not keep.                   *)

\* evaluate-terminal-outcome.ts:90: never eligible unless every gate holds, of
\* which one is "source project not modified".
EligibleMeansSourceUnmodified == patchEligible => sourceVerified

\* evaluate-terminal-outcome.ts:7-8: intermediate check failures do not poison a
\* run that then passed its checks and finalized; powerplant run exits with
\* RunCommandPassed as soon as the session has ended.
IntermediateFailureDoesNotPoison ==
  phase = "done" /\ patchEligible /\ sourceUnmodified
    => RunCommandPassed(checkResults, sourceUnmodified, builtinToolUseCount)

\* project-tool-broker.ts:171: any write invalidates the check gate, so a package
\* is released only from the tree the required checks ran on.
ReleaseIsTested ==
  [][~patchPackage /\ patchPackage' => \A c \in Required : testedTree[c] = workspace]_vars
=============================================================================
