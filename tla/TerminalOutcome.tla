--------------------------- MODULE TerminalOutcome ---------------------------
(***************************************************************************)
(* How a finished run is judged.  Three places of the code derive a        *)
(* verdict from the same evidence, each in its own way:                    *)
(*   - evaluateTerminalRunOutcome (projects/evaluate-terminal-outcome.ts), *)
(*     which feeds RUN_CLASSIFICATION.json;                                *)
(*   - generatePatchPackage (projects/generate-patch-package.ts), which    *)
(*     writes "passed" into SESSION_SUMMARY.json at finalize time;         *)
(*   - cmdRun (cli/commands/run.ts), which sets the process exit code.     *)
(* The operators are pure.  checkResults is the run's history, a sequence  *)
(* of [checkId, verdict] records.                                          *)
(*                                                                         *)
(* A definition Name_Variant is a mutant of Name: nothing uses it.         *)
(***************************************************************************)
EXTENDS Naturals, Sequences

\* FAIL_CHECK stands for every verdict that is neither of the other two
\* (FAIL_BOUNDARY, BLOCKED_MISSING_TOOLING, ...): no code tells them apart here.
CheckVerdicts == {"PASS", "FAIL_CHECK", "FAIL_VERIFICATION_INTEGRITY"}

TerminationReasons == {"COMPLETED",
                       "FAILED_INCOMPLETE_AGENT_RUN",
                       "FAILED_TOOL_BUDGET_EXHAUSTED"}

TerminationReason(budgetExhausted, finalizeReceived) ==
  CASE budgetExhausted                       -> "FAILED_TOOL_BUDGET_EXHAUSTED"
    [] ~budgetExhausted /\ ~finalizeReceived -> "FAILED_INCOMPLETE_AGENT_RUN"
    [] ~budgetExhausted /\ finalizeReceived  -> "COMPLETED"

\* The verdict of the last check run, of whatever check; "NONE" before the first.
LastVerdict(checkResults) ==
  IF checkResults = <<>> THEN "NONE" ELSE checkResults[Len(checkResults)].verdict

FinalVerificationPassed_TrustsFinalize(e) ==
  /\ TerminationReason(e.budgetExhausted, e.finalizeReceived) = "COMPLETED"
  /\ e.finalizeReceived
  /\ e.patchPackagePresent
  /\ e.sourceUnmodified
  /\ e.builtInToolUseCount = 0

\* The gates of evaluateTerminalRunOutcome; e is the evidence handed to it.
FinalVerificationPassed(e) ==
  /\ TerminationReason(e.budgetExhausted, e.finalizeReceived) = "COMPLETED"
  /\ e.finalizeReceived
  /\ e.patchPackagePresent
  /\ e.checksValidAfterLastWrite
  /\ e.testCheckPassed
  /\ e.lastVerdict # "FAIL_VERIFICATION_INTEGRITY"
  /\ e.sourceUnmodified
  /\ e.builtInToolUseCount = 0
  /\ \/ e.finalizeReceived /\ e.patchPackagePresent
     \/ e.finalResponseHasMarker

\* "passed" of SESSION_SUMMARY.json, derived when the package is generated.
SummaryPassed(checksValidAfterLastWrite, lastVerdict, sourceUnmodified) ==
  /\ checksValidAfterLastWrite
  /\ lastVerdict = "PASS"
  /\ sourceUnmodified

EveryCheckPassed(checkResults) ==
  /\ checkResults # <<>>
  /\ \A i \in 1..Len(checkResults) : checkResults[i].verdict = "PASS"

\* "passed" of powerplant run: printed as the headline, and the exit code.
RunCommandPassed(checkResults, sourceUnmodified, builtinToolUseCount) ==
  /\ EveryCheckPassed(checkResults)
  /\ sourceUnmodified
  /\ builtinToolUseCount = 0
=============================================================================
