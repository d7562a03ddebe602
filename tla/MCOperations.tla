------------------------------ MODULE MCOperations ------------------------------
(***************************************************************************)
(* The commands and harnesses around the broker, one per scenario: the L1  *)
(* harness with its pilot and capsule, the synthetic pilot, a snapshot,    *)
(* the Stage 2C runner, and setup.  They share no state (the two pilots    *)
(* share the audit file, and are not run side by side), so a behaviour is  *)
(* a behaviour of one of them and the others stay where they began; the    *)
(* states of the scenarios add up.                                         *)
(***************************************************************************)
EXTENDS L1Runner, SyntheticPilot, SanitizedSnapshot, Stage2cRunner, OperatorSetup

VARIABLE scenario

vars == <<scenario, l1Vars, shelf, batch, snapshotVars, stage2cVars, setupVars>>

\* What the modules of the other scenarios hold: one of their initial states.
NoL1 ==
  /\ skill = [hash |-> Expected, live |-> Expected, disabled |-> FALSE]
  /\ disturbances = 0

NoSynthetic ==
  /\ shelf = [s \in Skills |-> [hash |-> Expected, live |-> Expected, disabled |-> FALSE]]
  /\ batch = BatchIdle

NoSnapshot ==
  /\ tree = Absent /\ changes = [p \in Paths |-> 0] /\ snap = SnapIdle
  /\ copies = [baseline |-> Absent, workspace |-> Absent]

NoStage2c ==
  runner = RunnerIdle([dryRun |-> TRUE, fakeAgent |-> FALSE, oracle |-> FALSE, fixture |-> FALSE,
                       managedAgent |-> FALSE],
                      [enabled |-> FALSE, live |-> FALSE, credentials |-> FALSE])

NoSetup == files = [operator |-> <<>>, sprint4a |-> <<>>, smoke |-> <<>>, legacy |-> <<>>]

Init ==
  /\ scenario \in {"l1", "synthetic", "snapshot", "stage2c", "setup"}
  /\ CapsuleInit /\ HarnessInit
  /\ IF scenario = "l1" THEN PilotInit /\ disturbances = 1 ELSE PilotInit /\ NoL1
  /\ IF scenario = "synthetic" THEN SyntheticInit ELSE NoSynthetic
  /\ IF scenario = "snapshot" THEN SnapshotInit ELSE NoSnapshot
  /\ IF scenario = "stage2c" THEN Stage2cInit ELSE Stage2cInit /\ NoStage2c
  /\ IF scenario = "setup" THEN SetupInit ELSE SetupInit /\ NoSetup

Next ==
  /\ UNCHANGED scenario
  /\ \/ scenario = "l1" /\ L1Next /\ UNCHANGED <<shelf, batch, snapshotVars, stage2cVars, setupVars>>
     \/ scenario = "synthetic" /\ SyntheticNext
        /\ UNCHANGED <<skill, project, wallClock, pilot, capsuleVars, harnessVars, snapshotVars, stage2cVars, setupVars>>
     \/ scenario = "snapshot" /\ SnapshotNext
        /\ UNCHANGED <<l1Vars, shelf, batch, stage2cVars, setupVars>>
     \/ scenario = "stage2c" /\ Stage2cNext /\ UNCHANGED <<l1Vars, shelf, batch, snapshotVars, setupVars>>
     \/ scenario = "setup" /\ SetupNext /\ UNCHANGED <<l1Vars, shelf, batch, snapshotVars, stage2cVars>>

Spec == Init /\ [][Next]_vars
================================================================================
