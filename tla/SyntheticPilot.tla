----------------------------- MODULE SyntheticPilot -----------------------------
(***************************************************************************)
(* runSyntheticPromotedGuidancePilot                                       *)
(* (src/src/sessions/run-synthetic-promoted-guidance-pilot.ts): a batch of *)
(* skills is checked and rendered, the invocation is appended to the audit *)
(* file, and only then the guidance is handed to the caller.               *)
(*                                                                         *)
(* The registry is read once for the batch and again for every skill that  *)
(* is rendered; the skill commands and editors of others come in between.  *)
(* The audit file is the one of SkillGuidedPilot.                          *)
(***************************************************************************)
EXTENDS SkillGuidedPilot, SequencesExt

CONSTANT Skills

ASSUME SyntheticAssumption == IsFiniteSet(Skills)

VARIABLES
  shelf,  \* the registry: skill -> its hash, what its candidate holds, disabled
          \* (a skill that is not registered is as one that is disabled)
  batch   \* the invocation

syntheticVars == <<shelf, batch, invocations, torn>>

BatchIdle == [pc |-> "idle", requests |-> <<>>, listed |-> <<>>, todo |-> <<>>, hash |-> Expected,
              collected |-> <<>>, budget |-> 0, touched |-> {}, exposed |-> <<>>]

SyntheticInit ==
  /\ shelf \in [Skills -> [hash : Hashes, live : Hashes, disabled : BOOLEAN]]
  /\ batch = BatchIdle

BatchAt(l) == batch.pc = l
BatchThrows == batch' = [batch EXCEPT !.pc = "threw"]

------------------------------------------------------------------------------
(* The checks of all skills, before anything is written.                   *)

\* Bound: a batch names at most as many skills as there are, none twice.
Requests == {q \in SeqOf(Skills, Cardinality(Skills)) : IsInjective(q)}

\* Step 1, and the registry as it is now.
ListSkills ==
  /\ BatchAt("idle")
  /\ \E q \in Requests, b \in {0, 5} :
       batch' = [batch EXCEPT !.pc = IF q = <<>> THEN "threw" ELSE "check",
                              !.requests = q, !.todo = q, !.listed = shelf, !.budget = b]
  /\ UNCHANGED <<shelf, invocations, torn>>

\* Steps 2-4, against the list.
CheckRequest ==
  /\ BatchAt("check") /\ batch.todo # <<>>
  /\ LET listed == batch.listed[Head(batch.todo)] IN
     IF listed.disabled \/ listed.hash # Expected
     THEN BatchThrows
     ELSE batch' = [batch EXCEPT !.pc = "render"]
  /\ UNCHANGED <<shelf, invocations, torn>>

\* Step 5, renderPromptEnvelope: the registry once more, and the live hash.
VerifyLiveHash ==
  /\ BatchAt("render")
  /\ LET now == shelf[Head(batch.todo)] IN
     IF now.disabled \/ now.live # now.hash
     THEN BatchThrows
     ELSE batch' = [batch EXCEPT !.pc = "read", !.hash = now.hash]
  /\ UNCHANGED <<shelf, invocations, torn>>

Envelope(s, h, text) == [skill |-> s, hash |-> h, text |-> text]

\* Steps 5-7: SKILL.md is read.  The hash of the envelope is not compared with the
\* one of the request.
ReadGuidance ==
  /\ BatchAt("read")
  /\ \/ BatchThrows
     \/ LET s == Head(batch.todo) IN
        batch' = [batch EXCEPT !.pc = "check", !.todo = Tail(@),
                               !.collected = Append(@, Envelope(s, batch.hash, shelf[s].live))]
  /\ UNCHANGED <<shelf, invocations, torn>>

------------------------------------------------------------------------------
(* The audit, and the exposure.                                            *)

Invocation == [phase |-> "synthetic", eligible |-> FALSE, skills |-> batch.collected,
               outcome |-> IF batch.budget <= 0 THEN "SYNTHETIC_BUDGET_EXCEEDED" ELSE "COMPLETED"]

Checked == BatchAt("check") /\ batch.todo = <<>>

OpenInvocation_Anyway ==
  /\ Checked
  /\ \/ invocations' = Appended(Invocation) /\ UNCHANGED torn
     \/ AppendFails
  /\ batch' = [batch EXCEPT !.pc = IF batch.budget <= 0 THEN "threw" ELSE "audited"]
  /\ UNCHANGED shelf

\* Step 8: without the line nothing is returned; an exhausted budget throws after it.
OpenInvocation ==
  /\ Checked
  /\ \/ /\ invocations' = Appended(Invocation)
        /\ batch' = [batch EXCEPT !.pc = IF batch.budget <= 0 THEN "threw" ELSE "audited"]
        /\ UNCHANGED torn
     \/ AppendFails /\ BatchThrows
  /\ UNCHANGED shelf

\* Step 9.
Expose ==
  /\ BatchAt("audited")
  /\ batch' = [batch EXCEPT !.pc = "exposed", !.exposed = batch.collected]
  /\ UNCHANGED <<shelf, invocations, torn>>

SyntheticStep ==
  ListSkills \/ CheckRequest \/ VerifyLiveHash \/ ReadGuidance \/ OpenInvocation \/ Expose

------------------------------------------------------------------------------

\* Others promote a skill with other content, disable it, or edit its candidate (bound:
\* each skill once, while its guidance may still be read).
ChangeShelf ==
  /\ batch.pc \in {"check", "render", "read"}
  /\ \E s \in ToSet(batch.todo) \ batch.touched :
       /\ \/ \E h \in Hashes : shelf' = [shelf EXCEPT ![s] = [hash |-> h, live |-> h, disabled |-> FALSE]]
          \/ shelf' = [shelf EXCEPT ![s].disabled = TRUE]
          \/ \E h \in Hashes : shelf' = [shelf EXCEPT ![s].live = h]
       /\ shelf' # shelf
       /\ batch' = [batch EXCEPT !.touched = @ \cup {s}]
  /\ UNCHANGED <<invocations, torn>>

\* Another invocation dies inside its append, once.
OtherInvocationDies ==
  /\ ~torn
  /\ invocations' = Appended(CutShort) /\ torn' = TRUE
  /\ UNCHANGED <<shelf, batch>>

SyntheticNext == SyntheticStep \/ ChangeShelf \/ OtherInvocationDies

SyntheticSpec ==
  SyntheticInit /\ invocations = <<>> /\ torn = FALSE /\ [][SyntheticNext]_syntheticVars

------------------------------------------------------------------------------

\* "If ANY skill fails steps 2-7, NO envelope is produced for ANY skill" and the audit
\* record is on disk before an envelope is returned
\* (run-synthetic-promoted-guidance-pilot.ts:107-111): what was exposed is one envelope per
\* requested skill, with the text that the request named unless somebody changed that
\* skill during the invocation, and the audit file tells the very same.  (An append that
\* was cut short garbles the next one, which appendFileSync does not report.)
ExposedIsAudited ==
  BatchAt("exposed") =>
    /\ ~torn => Contains(invocations, Invocation) /\ Invocation.skills = batch.exposed
    /\ [i \in DOMAIN batch.exposed |-> batch.exposed[i].skill] = batch.requests
    /\ \A i \in DOMAIN batch.exposed :
         LET e == batch.exposed[i] IN
         e.skill \notin batch.touched => e.text = Expected /\ e.hash = Expected
================================================================================
