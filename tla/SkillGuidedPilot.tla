---------------------------- MODULE SkillGuidedPilot ----------------------------
(***************************************************************************)
(* runSkillGuidedSanitizedProjectPilot                                     *)
(* (src/src/sessions/run-skill-guided-sanitized-project-pilot.ts,          *)
(* src/src/skills/skill-invocation-audit.ts): the skill is checked, phase  *)
(* A is appended to the audit file, the broker session runs, phase B is    *)
(* appended, and only then the result is released.                         *)
(*                                                                         *)
(* Meanwhile others promote, disable or edit the skill (SkillLifecycle),   *)
(* edit the project, append to the same audit file and set the clock.  The *)
(* broker session is one step with the outcomes that TerminalOutcome       *)
(* allows (ProjectToolBroker is the detailed one).                         *)
(***************************************************************************)
EXTENDS TerminalOutcome, FiniteSets

CONSTANTS Hashes,     \* content hashes of the skill
          Expected,   \* the hash of the request
          MaxClock    \* bound on the wall clock

ASSUME PilotAssumption == Expected \in Hashes /\ MaxClock \in Nat

VARIABLES
  skill,        \* the skill: its registry entry, and what its candidate holds now
  invocations,  \* skill-invocation-audit.jsonl, line by line
  torn,         \* history: an append was cut short and left a line without its end
  project,      \* the source project and the run's workspace, as versions
  wallClock,
  pilot         \* the run

pilotVars == <<skill, invocations, torn, project, wallClock, pilot>>

\* What the pilot derives when there is no broker result, or none it may release.
NoResult == [eligible |-> FALSE, accepted |-> FALSE, reason |-> "none", outcome |-> "none",
             unmodified |-> FALSE, builtins |-> 1]

PilotIdle == [pc |-> "idle", ts |-> 0, start |-> 0, guidance |-> Expected, captured |-> 0,
              reread |-> FALSE, broker |-> NoResult, returned |-> FALSE, result |-> NoResult]

PilotInit ==
  /\ \E h \in Hashes, off \in BOOLEAN : skill = [hash |-> h, live |-> h, disabled |-> off]
  /\ invocations = <<>>
  /\ torn = FALSE
  /\ project = [source |-> 0, workspace |-> 0]
  /\ wallClock = 0
  /\ pilot = PilotIdle

PilotAt(l) == pilot.pc = l

Throw == pilot' = [pilot EXCEPT !.pc = "threw"]

------------------------------------------------------------------------------
(* Steps 1 to 8: nothing is written yet.                                   *)

\* Steps 1-4: the request against the registry, read once.
LookUp ==
  /\ PilotAt("idle")
  /\ IF skill.disabled \/ skill.hash # Expected
     THEN pilot' = [pilot EXCEPT !.pc = "threw", !.ts = wallClock]
     ELSE pilot' = [pilot EXCEPT !.pc = "found", !.ts = wallClock]
  /\ UNCHANGED <<skill, invocations, torn, project, wallClock>>

\* Steps 5-7: renderPromptEnvelope reads the registry again, and the candidate.
Render ==
  /\ PilotAt("found")
  /\ IF skill.disabled \/ skill.live # skill.hash
     THEN Throw
     ELSE pilot' = [pilot EXCEPT !.pc = "rendered", !.guidance = skill.hash]
  /\ UNCHANGED <<skill, invocations, torn, project, wallClock>>

\* Step 8: the contract is loaded and the project captured; both may fail.
Capture ==
  /\ PilotAt("rendered")
  /\ \/ Throw
     \/ pilot' = [pilot EXCEPT !.pc = "captured", !.captured = project.source]
  /\ UNCHANGED <<skill, invocations, torn, project, wallClock>>

------------------------------------------------------------------------------
(* The audit file.  A line that follows one without an end is joined to it.*)

Own(phase, eligible) == [phase |-> phase, eligible |-> eligible]
CutShort == Own("cut", FALSE)     \* a beginning of a line, without its newline
Garbled  == Own("garbled", FALSE) \* two lines in one: readers skip it

Appended(line) ==
  IF invocations # <<>> /\ invocations[Len(invocations)] = CutShort
  THEN [invocations EXCEPT ![Len(invocations)] = IF line = CutShort THEN CutShort ELSE Garbled]
  ELSE Append(invocations, line)

\* appendFileSync throws before it wrote, or after a part.
AppendFails ==
  \/ UNCHANGED <<invocations, torn>>
  \/ invocations' = Appended(CutShort) /\ torn' = TRUE

\* Step 9: phase A; without it there is no session.
AppendPhaseA ==
  /\ PilotAt("captured")
  /\ \/ /\ invocations' = Appended(Own("A", FALSE))
        /\ pilot' = [pilot EXCEPT !.pc = "audited"]
        /\ UNCHANGED torn
     \/ AppendFails /\ Throw
  /\ UNCHANGED <<skill, project, wallClock>>

\* Step 10: the clock must be seen past the invocation's timestamp, or the wait ends
\* after 500 ms of the monotonic clock.
AwaitStrictlyAfter ==
  /\ PilotAt("audited")
  /\ \/ /\ wallClock > pilot.ts
        /\ pilot' = [pilot EXCEPT !.pc = "starting", !.start = wallClock]
     \/ wallClock <= pilot.ts /\ Throw
  /\ UNCHANGED <<skill, invocations, torn, project, wallClock>>

------------------------------------------------------------------------------
(* Steps 10 and 11: the session and what is derived from it.               *)

\* The evidence a broker session may end with.  It passes sourceUnmodified: TRUE
\* whatever happened to the source.
Evidence ==
  { [budgetExhausted |-> b, finalizeReceived |-> f, patchPackagePresent |-> f /\ p,
     checksValidAfterLastWrite |-> v, testCheckPassed |-> v, lastVerdict |-> "PASS",
     sourceUnmodified |-> TRUE, builtInToolUseCount |-> n, finalResponseHasMarker |-> FALSE]
    : b \in BOOLEAN, f \in BOOLEAN, p \in BOOLEAN, v \in BOOLEAN, n \in {0, 1} }

\* deriveTerminationReason: a broker that returned has not run out of budget.
DerivedReason(accepted) == IF accepted THEN "COMPLETED" ELSE "FAILED_INCOMPLETE_AGENT_RUN"

Derived(e) ==
  [NoResult EXCEPT !.eligible = FinalVerificationPassed(e),
                   !.accepted = e.patchPackagePresent,
                   !.reason = DerivedReason(e.patchPackagePresent),
                   !.outcome = IF e.patchPackagePresent /\ FinalVerificationPassed(e)
                               THEN "COMPLETED" ELSE "FAILED_INCOMPLETE_AGENT_RUN",
                   !.builtins = e.builtInToolUseCount]

\* The session ends with evidence, or throws: out of budget, or otherwise.
BrokerSession ==
  /\ PilotAt("starting")
  /\ \/ \E e \in Evidence : pilot' = [pilot EXCEPT !.pc = "ran", !.returned = TRUE, !.broker = Derived(e)]
     \/ \E r \in {"FAILED_TOOL_BUDGET_EXHAUSTED", "BROKER_SESSION_EXCEPTION"} :
          pilot' = [pilot EXCEPT !.pc = "verified", !.returned = FALSE,
                                 !.result = [NoResult EXCEPT !.reason = r, !.outcome = r]]
  /\ \E w \in {0, 1} : project' = [project EXCEPT !.workspace = w]
  /\ UNCHANGED <<skill, invocations, torn, wallClock>>

\* git or the file system may fail: the session has then run without a phase B.
VerifySource ==
  /\ PilotAt("ran")
  /\ \/ Throw
     \/ LET same == project.source = pilot.captured IN
        pilot' = [pilot EXCEPT !.pc = "verified",
                               !.result = [pilot.broker EXCEPT !.eligible = @ /\ same,
                                                               !.unmodified = same]]
  /\ UNCHANGED <<skill, invocations, torn, project, wallClock>>

------------------------------------------------------------------------------

Refused(b) == [NoResult EXCEPT !.outcome = "FAILED_INVOCATION_AUDIT_PERSISTENCE", !.builtins = b]

AppendPhaseB_ReleasesAnyway ==
  /\ PilotAt("verified")
  /\ \/ invocations' = Appended(Own("B", pilot.result.eligible)) /\ UNCHANGED torn
     \/ AppendFails
  /\ pilot' = [pilot EXCEPT !.pc = "released"]
  /\ UNCHANGED <<skill, project, wallClock>>

\* Step 12 and the release gate: without phase B nothing of the result is released
\* but the count of built-in tool uses.
AppendPhaseB ==
  /\ PilotAt("verified")
  /\ \/ /\ invocations' = Appended(Own("B", pilot.result.eligible))
        /\ pilot' = [pilot EXCEPT !.pc = "released"]
        /\ UNCHANGED torn
     \/ /\ AppendFails
        /\ pilot' = [pilot EXCEPT !.pc = "released",
                                  !.result = Refused(IF pilot.returned THEN pilot.broker.builtins ELSE 1)]
  /\ UNCHANGED <<skill, project, wallClock>>

PilotStep ==
  \/ LookUp \/ Render \/ Capture \/ AppendPhaseA \/ AwaitStrictlyAfter
  \/ BrokerSession \/ VerifySource \/ AppendPhaseB

------------------------------------------------------------------------------
(* The others, one step each.                                              *)

\* A promote of other content, a disable, or an edit of the candidate.
ChangeSkill ==
  /\ \/ \E h \in Hashes : skill' = [skill EXCEPT !.hash = h, !.live = h]
     \/ skill' = [skill EXCEPT !.disabled = TRUE]
     \/ \E h \in Hashes : skill' = [skill EXCEPT !.live = h]
  /\ skill' # skill
  /\ pilot' = [pilot EXCEPT !.reread = @ \/ PilotAt("found")]
  /\ UNCHANGED <<invocations, torn, project, wallClock>>

EditSource ==
  /\ project' = [project EXCEPT !.source = @ + 1]
  /\ UNCHANGED <<skill, invocations, torn, wallClock, pilot>>

\* Another invocation dies inside its append.
OtherAppendDies ==
  /\ invocations' = Appended(CutShort) /\ torn' = TRUE
  /\ UNCHANGED <<skill, project, wallClock, pilot>>

\* Time passes, or the clock is set back.
SetClock ==
  /\ \E t \in 0..MaxClock : t # wallClock /\ wallClock' = t
  /\ UNCHANGED <<skill, invocations, torn, project, pilot>>

PilotNext == PilotStep \/ ChangeSkill \/ EditSource \/ OtherAppendDies \/ SetClock
PilotSpec == PilotInit /\ [][PilotNext]_pilotVars

------------------------------------------------------------------------------

Lines(phase) == {i \in DOMAIN invocations : invocations[i].phase = phase}

\* An eligible result is released only when the audit file holds the run's phase A and,
\* after it, a phase B that says eligible too, the source was then as it was captured,
\* and the guidance was the content that the request named, unless the skill was
\* promoted again between the two readings of the registry.  (An append that was cut
\* short garbles the next one, which appendFileSync does not report.)
EligibleIsAudited ==
  PilotAt("released") /\ pilot.result.eligible =>
    /\ ~torn => \E i \in Lines("A"), j \in Lines("B") : i < j /\ invocations[j].eligible
    /\ pilot.result.unmodified /\ pilot.result.accepted
    /\ pilot.start > pilot.ts
    /\ pilot.guidance = Expected \/ pilot.reread
================================================================================
