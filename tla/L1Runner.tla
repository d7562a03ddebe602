-------------------------------- MODULE L1Runner --------------------------------
(***************************************************************************)
(* The L1 acceptance harness (src/scripts/l1-runner.ts,                    *)
(* src/src/cli/l1-harness-run.ts, src/src/preflight/oracle-bundle.ts): it  *)
(* hashes the real state root and the oracle, runs the skill-guided pilot, *)
(* reads its audit records, lets the capsule judge the workspace, hashes   *)
(* the state root again and gives a verdict.  SkillGuidedPilot and         *)
(* CapsuleEvaluator run inside it; others go on working beside it.         *)
(***************************************************************************)
EXTENDS SkillGuidedPilot, CapsuleEvaluator

VARIABLES
  harness,      \* its place, what it hashed, and its verdict
  stateRoot,    \* ~/.powerplant/state: its version, and where the harness was at each change
  oracleFile,   \* tests/oracle/operator-task-oracle.mjs, likewise
  disturbances  \* bound: what the others may still do

harnessVars == <<harness, stateRoot, oracleFile, disturbances>>
l1Vars == <<pilotVars, capsuleVars, harnessVars>>

HarnessIdle == [pc |-> "idle", root |-> 0, oracle |-> 0, bundled |-> 0, payload |-> 0,
                verdict |-> "none"]

Untouched == [version |-> 0, at |-> {}]

HarnessInit == harness = HarnessIdle /\ stateRoot = Untouched /\ oracleFile = Untouched

HarnessAt(l) == harness.pc = l

Conclude(verdict) == harness' = [harness EXCEPT !.pc = "done", !.verdict = verdict]
Proceed(l) == harness' = [harness EXCEPT !.pc = l]
Blocked == Conclude("L1_HARNESS_BLOCKED")
Failed == Conclude("L1_HARNESS_FAILED")

Beside == UNCHANGED <<pilotVars, capsuleVars, stateRoot, oracleFile, disturbances>>

------------------------------------------------------------------------------

\* loadL0Receipt and the live gate: the process ends before the harness is entered.
LoadReceipt ==
  /\ HarnessAt("idle")
  /\ \/ Proceed("receipt")
     \/ Conclude("none")
  /\ Beside

\* Steps 1 and 2: the home is contained, and the fixture is in its registry, enabled,
\* with the receipt's hash.
CheckFixture ==
  /\ HarnessAt("receipt")
  /\ \/ Blocked
     \/ /\ ~skill.disabled /\ skill.hash = Expected
        /\ Proceed("fixture")
  /\ Beside

\* Steps 3 and 4: the oracle's hash (unreadable: blocked), then the state root's.
HashOracle ==
  /\ HarnessAt("fixture")
  /\ \/ Blocked
     \/ harness' = [harness EXCEPT !.pc = "oracle", !.oracle = oracleFile.version]
  /\ Beside

HashStateRoot ==
  /\ HarnessAt("oracle")
  /\ harness' = [harness EXCEPT !.pc = "pilot", !.root = stateRoot.version]
  /\ Beside

\* Step 5.
RunPilot ==
  /\ HarnessAt("pilot")
  /\ PilotStep
  /\ UNCHANGED <<capsuleVars, harnessVars>>

PilotThrew ==
  /\ HarnessAt("pilot") /\ PilotAt("threw")
  /\ IF stateRoot.version # harness.root THEN Blocked ELSE Failed
  /\ Beside

PilotReturned_HashLater ==
  /\ HarnessAt("pilot") /\ PilotAt("released")
  /\ Proceed("rehash")
  /\ Beside

\* Step 6.
PilotReturned ==
  /\ HarnessAt("pilot") /\ PilotAt("released")
  /\ IF stateRoot.version # harness.root THEN Blocked ELSE Proceed("rehash")
  /\ Beside

RehashOracle_Trusts ==
  /\ HarnessAt("rehash")
  /\ IF pilot.result.builtins # 0 THEN Failed ELSE Proceed("records")
  /\ Beside

\* Steps 7 and 8.
RehashOracle ==
  /\ HarnessAt("rehash")
  /\ \/ Blocked
     \/ /\ oracleFile.version = harness.oracle
        /\ IF pilot.result.builtins # 0 THEN Failed ELSE Proceed("records")
  /\ Beside

\* readAuditPair: the last line of each phase.
LastLine(phase) ==
  IF Lines(phase) = {} THEN 0 ELSE CHOOSE i \in Lines(phase) : \A j \in Lines(phase) : j <= i

\* Steps 9 to 12: both records, in order, by line and by time, and one eligibility.
CheckRecords ==
  /\ HarnessAt("records")
  /\ LET a == LastLine("A")
         b == LastLine("B")
     IN IF /\ a # 0 /\ a < b
           /\ pilot.ts < pilot.start
           /\ invocations[b].eligible = pilot.result.eligible
        THEN Proceed("workspace")
        ELSE Failed
  /\ Beside

\* Step 13: the patched file is read, then the oracle is bundled; both may throw, the
\* second inside the try.
ReadWorkspace ==
  /\ HarnessAt("workspace")
  /\ harness' = [harness EXCEPT !.pc = "bundle", !.payload = project.workspace]
  /\ Beside

BundleOracle ==
  /\ HarnessAt("bundle")
  /\ \/ harness' = [harness EXCEPT !.pc = "capsule", !.bundled = oracleFile.version]
     \/ IF stateRoot.version # harness.root THEN Blocked ELSE Failed
  /\ Beside

RunCapsule ==
  /\ HarnessAt("capsule")
  /\ CapsuleNext
  /\ UNCHANGED <<pilotVars, harnessVars>>

\* The capsule threw, or its receipt is judged: steps 13 and 14.
Judgement ==
  /\ HarnessAt("capsule") /\ CapsuleAt("ended")
  /\ CASE stateRoot.version # harness.root -> Blocked
       [] stateRoot.version = harness.root ->
            IF ~capsule.thrown /\ capsule.cleaned /\ ~capsule.capped /\ capsule.status = "PASS"
            THEN Conclude("L1_CANDIDATE_PASS") ELSE Failed
  /\ Beside

HarnessStep ==
  \/ LoadReceipt \/ CheckFixture \/ HashOracle \/ HashStateRoot
  \/ RunPilot \/ PilotThrew \/ PilotReturned \/ RehashOracle \/ CheckRecords
  \/ ReadWorkspace \/ BundleOracle \/ RunCapsule \/ Judgement

------------------------------------------------------------------------------

Changed(file) == [version |-> file.version + 1, at |-> file.at \cup {harness.pc}]

PilotRuns == ~PilotAt("released") /\ ~PilotAt("threw")

\* What the others do while the harness runs; what only the pilot reads, while it runs.
Disturb ==
  /\ disturbances > 0 /\ ~HarnessAt("idle") /\ ~HarnessAt("done")
  /\ disturbances' = disturbances - 1
  /\ UNCHANGED <<harness, capsuleVars>>
  /\ \/ /\ PilotRuns /\ (ChangeSkill \/ EditSource \/ OtherAppendDies)
        /\ UNCHANGED <<stateRoot, oracleFile>>
     \/ stateRoot' = Changed(stateRoot) /\ UNCHANGED <<pilotVars, oracleFile>>
     \/ oracleFile' = Changed(oracleFile) /\ UNCHANGED <<pilotVars, stateRoot>>

PassTime ==
  /\ HarnessAt("pilot") /\ PilotRuns /\ SetClock
  /\ UNCHANGED <<capsuleVars, harnessVars>>

L1Init == PilotInit /\ CapsuleInit /\ HarnessInit /\ disturbances \in Nat
L1Next == HarnessStep \/ Disturb \/ PassTime
L1Spec == L1Init /\ [][L1Next]_l1Vars

------------------------------------------------------------------------------

\* The harness passes a candidate only on a run whose two records are in the audit file
\* in order and agree with the result, that used no built-in tool, over an unchanged
\* state root, by a run of the oracle that was not cut short and found PASS unless the
\* candidate printed or wrote a result itself, on the workspace that was read, and
\* cleaned up after.  (The oracle is hashed before it is bundled: an edit in between is
\* what is judged by.)
CandidatePassIsEarned ==
  harness.verdict = "L1_CANDIDATE_PASS" =>
    /\ \E i \in Lines("A"), j \in Lines("B") : i < j /\ invocations[j].eligible = pilot.result.eligible
    /\ pilot.result.builtins = 0
    /\ stateRoot.at \cap {"pilot", "rehash", "records", "workspace", "bundle", "capsule"} = {}
    /\ HasReceipt /\ capsule.status = "PASS" /\ capsule.cleaned
    /\ oracle.foreign \/ oracle.finds = "PASS"
    /\ harness.payload = project.workspace
    /\ \/ harness.bundled = harness.oracle
       \/ oracleFile.at \cap {"records", "workspace", "bundle"} # {}

\* "Pre/post real-state manifest equality enforced after every terminal exit path,
\* including pilot throw, oracle throw, and oracle-stage mutation" (l1-runner.ts:12): a
\* state root that changed while the pilot or the capsule ran is BLOCKED, whatever else
\* went wrong.
MutationIsBlocked ==
  HarnessAt("done") /\ stateRoot.at \cap {"pilot", "capsule"} # {} =>
    harness.verdict = "L1_HARNESS_BLOCKED"
================================================================================
