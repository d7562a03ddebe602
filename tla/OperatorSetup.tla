------------------------------ MODULE OperatorSetup ------------------------------
(***************************************************************************)
(* powerplant setup (src/src/cli/commands/setup.ts,                        *)
(* platform/operator-state.ts, sprint4a-state.ts, managed-agent-state.ts,  *)
(* provision/ensure-sprint4a-agent.ts, ensure-cloud-environment.ts): three *)
(* state files under the powerplant home, and a legacy one in the package, *)
(* name an agent and an environment that live behind the API.  Setup       *)
(* reports, validates, migrates or provisions them.  The process may die   *)
(* between two saves or in one; the user may delete the resources.         *)
(*                                                                         *)
(* A file is a sequence of at most one record: a file that does not parse  *)
(* is loaded as an absent one.  Id 0 is a mock id, which no API gives.     *)
(***************************************************************************)
EXTENDS Naturals, Sequences, FiniteSets

CONSTANTS MaxCommands, MaxDeletes   \* bounds

ASSUME SetupAssumption == {MaxCommands, MaxDeletes} \subseteq Nat

VARIABLES
  remote,      \* live agents and environments, and the agents that setup made
  files,       \* project-operator.json, sprint4a-pilot.json, cloud-smoke.json, the legacy file
  quarantined, \* agents named in quarantine records
  setup,       \* the command that runs; as history, whether it was left in peace and what
               \* it took over from a file without asking the API
  died,        \* history: a command died
  allowance    \* bound: commands and deletions left

setupVars == <<remote, files, quarantined, setup, died, allowance>>

SetupIdle == [pc |-> "idle", repair |-> FALSE, agent |-> 0, env |-> 0, kept |-> 0,
              validated |-> FALSE, agentOk |-> FALSE, calm |-> FALSE, reused |-> {}]

Pilot(a, e, schema) == [agent |-> a, env |-> e, schema |-> schema]
Operator(a, e, v) == [agent |-> a, env |-> e, validated |-> v]
Smoke(a, e) == [agent |-> a, env |-> e]

\* A new user; one with a mock or an old pilot file; one whose agent and environment
\* date from before the move to the powerplant home.
SetupInit ==
  /\ remote = [agents |-> {1}, envs |-> {1}, made |-> {}, next |-> 2]
  /\ \E pilot \in {<<>>, <<Pilot(0, 1, 2)>>, <<Pilot(1, 1, 1)>>, <<Pilot(1, 1, 2)>>},
        legacy \in {<<>>, <<Pilot(1, 1, 2)>>}, smoke \in {<<>>, <<Smoke(1, 1)>>} :
       files = [operator |-> <<>>, sprint4a |-> pilot, smoke |-> smoke, legacy |-> legacy]
  /\ quarantined = {}
  /\ setup = SetupIdle
  /\ died = FALSE
  /\ allowance = [commands |-> MaxCommands, deletes |-> MaxDeletes]

SetupAt(l) == setup.pc = l
Production(id) == id # 0
Live(r) == r.agent \in remote.agents /\ r.env \in remote.envs

Finish == setup' = [setup EXCEPT !.pc = "done"]
Exit == setup' = [setup EXCEPT !.pc = "idle"]
At(l) == setup' = [setup EXCEPT !.pc = l]

\* A save of one file.
Save(name, record) == files' = [files EXCEPT ![name] = <<record>>]

------------------------------------------------------------------------------

\* Step 0: a pilot file with a mock id is quarantined.
BeginSetup ==
  /\ setup.pc \in {"idle", "done"} /\ allowance.commands > 0
  /\ allowance' = [allowance EXCEPT !.commands = @ - 1]
  /\ \E repair \in BOOLEAN :
       setup' = [SetupIdle EXCEPT !.pc = "operator", !.repair = repair, !.calm = TRUE]
  /\ IF \E i \in DOMAIN files.sprint4a : ~Production(files.sprint4a[i].agent)
     THEN /\ quarantined' = quarantined \cup {files.sprint4a[1].agent}
          /\ files' = [files EXCEPT !.sprint4a = <<>>]
     ELSE UNCHANGED <<quarantined, files>>
  /\ UNCHANGED <<remote, died>>

\* Step 1: a plausible operator state is reported, or validated when repairing.
CheckOperatorState ==
  /\ SetupAt("operator")
  /\ IF files.operator = <<>> THEN At("legacy")
     ELSE IF ~setup.repair THEN Exit
     ELSE setup' = [setup EXCEPT !.pc = "agent?", !.agent = files.operator[1].agent,
                                 !.env = files.operator[1].env]
  /\ UNCHANGED <<remote, files, quarantined, died, allowance>>

\* validateAgentExists and validateEnvironmentExists list what the API has; an error
\* of the API counts as not found.
ValidateAgent ==
  /\ setup.pc \in {"agent?", "legacy agent?"}
  /\ LET next == IF SetupAt("agent?") THEN "env?" ELSE "legacy env?" IN
       \/ setup' = [setup EXCEPT !.pc = next, !.agentOk = setup.agent \in remote.agents]
       \/ setup' = [setup EXCEPT !.pc = next, !.agentOk = FALSE, !.calm = FALSE]
  /\ UNCHANGED <<remote, files, quarantined, died, allowance>>

\* The state is stamped as validated, or quarantined.
ValidateEnvironment_Only ==
  /\ SetupAt("env?")
  /\ IF setup.env \in remote.envs
     THEN Save("operator", Operator(setup.agent, setup.env, TRUE)) /\ Finish /\ UNCHANGED quarantined
     ELSE /\ quarantined' = quarantined \cup {setup.agent}
          /\ files' = [files EXCEPT !.operator = <<>>]
          /\ At("legacy")
  /\ UNCHANGED <<remote, died, allowance>>

ValidateEnvironment ==
  /\ SetupAt("env?")
  /\ \E envOk \in {setup.env \in remote.envs, FALSE} :
       IF setup.agentOk /\ envOk
       THEN Save("operator", Operator(setup.agent, setup.env, TRUE)) /\ Finish /\ UNCHANGED quarantined
       ELSE /\ quarantined' = quarantined \cup {setup.agent}
            /\ files' = [files EXCEPT !.operator = <<>>]
            /\ setup' = [setup EXCEPT !.pc = "legacy",
                                      !.calm = @ /\ envOk = (setup.env \in remote.envs)]
  /\ UNCHANGED <<remote, died, allowance>>

\* Step 2: an environment from cloud-smoke.json and an agent from the legacy file are
\* migrated, after a validation when repairing.
CheckLegacy ==
  /\ SetupAt("legacy")
  /\ IF files.smoke # <<>> /\ files.legacy # <<>>
     THEN setup' = [setup EXCEPT !.agent = files.legacy[1].agent, !.env = files.smoke[1].env,
                                 !.pc = IF setup.repair THEN "legacy agent?" ELSE "migrate"]
     ELSE At("environment")
  /\ UNCHANGED <<remote, files, quarantined, died, allowance>>

ValidateLegacyEnvironment ==
  /\ SetupAt("legacy env?")
  /\ \E envOk \in {setup.env \in remote.envs, FALSE} :
       setup' = [setup EXCEPT !.pc = IF setup.agentOk /\ envOk THEN "migrate" ELSE "environment",
                              !.calm = @ /\ envOk = (setup.env \in remote.envs),
                              !.validated = setup.agentOk /\ envOk]
  /\ UNCHANGED <<remote, files, quarantined, died, allowance>>

SaveMigratedOperator_Only ==
  /\ SetupAt("migrate")
  /\ Save("operator", Operator(setup.agent, setup.env, setup.validated))
  /\ Finish
  /\ UNCHANGED <<remote, quarantined, died, allowance>>

SaveMigratedOperator ==
  /\ SetupAt("migrate")
  /\ Save("operator", Operator(setup.agent, setup.env, setup.validated))
  /\ At("migrate pilot")
  /\ UNCHANGED <<remote, quarantined, died, allowance>>

SaveMigratedPilot ==
  /\ SetupAt("migrate pilot")
  /\ Save("sprint4a", Pilot(setup.agent, setup.env, 2))
  /\ Finish
  /\ UNCHANGED <<remote, quarantined, died, allowance>>

------------------------------------------------------------------------------
(* Step 3: resources are reused from the files, without asking the API, or *)
(* created.  An error of the API ends the command.                         *)

\* ensureCloudEnvironment: that of cloud-smoke.json, else a new one, else (409) the
\* one that has its name.
EnsureCloudEnvironment ==
  /\ SetupAt("environment")
  /\ \/ /\ files.smoke # <<>>
        /\ setup' = [setup EXCEPT !.pc = "agent", !.env = files.smoke[1].env, !.reused = {"env"}]
        /\ UNCHANGED remote
     \/ /\ files.smoke = <<>> /\ remote.envs = {}
        /\ setup' = [setup EXCEPT !.pc = "agent", !.env = remote.next]
        /\ remote' = [remote EXCEPT !.envs = {remote.next}, !.next = @ + 1]
     \/ /\ files.smoke = <<>>
        /\ \E e \in remote.envs : setup' = [setup EXCEPT !.pc = "agent", !.env = e]
        /\ UNCHANGED remote
     \/ files.smoke = <<>> /\ Exit /\ UNCHANGED remote
  /\ UNCHANGED <<files, quarantined, died, allowance>>

\* ensureSprint4aAgent: the agent of the pilot file, with the environment it has there,
\* unless its tools have an old schema; else a new agent.
EnsureSprint4aAgent ==
  /\ SetupAt("agent")
  /\ \/ /\ files.sprint4a # <<>> /\ files.sprint4a[1].schema >= 2
        /\ setup' = [setup EXCEPT !.pc = "smoke", !.agent = files.sprint4a[1].agent,
                                  !.kept = files.sprint4a[1].env, !.reused = {"agent", "env"}]
        /\ UNCHANGED remote
     \/ /\ \A i \in DOMAIN files.sprint4a : files.sprint4a[i].schema < 2
        /\ \/ /\ remote' = [remote EXCEPT !.agents = @ \cup {remote.next},
                                          !.made = @ \cup {remote.next}, !.next = @ + 1]
              /\ setup' = [setup EXCEPT !.pc = "pilot", !.agent = remote.next, !.kept = setup.env]
           \/ Exit /\ UNCHANGED remote
  /\ UNCHANGED <<files, quarantined, died, allowance>>

SaveSprint4aState_Late ==
  /\ SetupAt("pilot")
  /\ At("smoke")
  /\ UNCHANGED <<remote, files, quarantined, died, allowance>>

SaveSprint4aState ==
  /\ SetupAt("pilot")
  /\ Save("sprint4a", Pilot(setup.agent, setup.env, 2))
  /\ At("smoke")
  /\ UNCHANGED <<remote, quarantined, died, allowance>>

\* cloud-smoke.json, "only after both resources are confirmed".
SaveCloudSmoke ==
  /\ SetupAt("smoke")
  /\ Save("smoke", Smoke(setup.agent, setup.env))
  /\ At("save operator")
  /\ UNCHANGED <<remote, quarantined, died, allowance>>

SaveOperatorState ==
  /\ SetupAt("save operator")
  /\ Save("operator", Operator(setup.agent, setup.kept, TRUE))
  /\ Finish
  /\ UNCHANGED <<remote, quarantined, died, allowance>>

------------------------------------------------------------------------------

\* The file that the command is about to save, if any: the stamp of a state that was
\* found, a migrated or a new one.
Stamping == SetupAt("env?") /\ setup.agentOk /\ setup.env \in remote.envs
Saving == CASE Stamping \/ setup.pc \in {"migrate", "save operator"} -> {"operator"}
            [] setup.pc \in {"migrate pilot", "pilot"}   -> {"sprint4a"}
            [] SetupAt("smoke")                          -> {"smoke"}
            [] OTHER                                     -> {}

\* The process dies, or has no credentials: between two steps, or in a save, which
\* then leaves a file that does not parse.
SetupDies ==
  /\ setup.pc \notin {"idle", "done"}
  /\ Exit /\ died' = TRUE
  /\ \/ UNCHANGED files
     \/ \E f \in Saving : files' = [files EXCEPT ![f] = <<>>]
  /\ UNCHANGED <<remote, quarantined, allowance>>

DeleteResource ==
  /\ allowance.deletes > 0
  /\ allowance' = [allowance EXCEPT !.deletes = @ - 1]
  /\ \/ \E a \in remote.agents : remote' = [remote EXCEPT !.agents = @ \ {a}]
     \/ \E e \in remote.envs : remote' = [remote EXCEPT !.envs = @ \ {e}]
  /\ setup' = [setup EXCEPT !.calm = FALSE]
  /\ UNCHANGED <<files, quarantined, died>>

SetupNext ==
  \/ BeginSetup \/ CheckOperatorState \/ ValidateAgent \/ ValidateEnvironment \/ CheckLegacy
  \/ ValidateLegacyEnvironment \/ SaveMigratedOperator \/ SaveMigratedPilot
  \/ EnsureCloudEnvironment \/ EnsureSprint4aAgent \/ SaveSprint4aState
  \/ SaveCloudSmoke \/ SaveOperatorState \/ SetupDies \/ DeleteResource

SetupSpec == SetupInit /\ [][SetupNext]_setupVars

------------------------------------------------------------------------------

Named == quarantined \cup UNION {{files[f][i].agent : i \in DOMAIN files[f]} : f \in DOMAIN files}

\* setup never loses sight of an agent it made: as long as no command died, every such
\* agent is named by a state file, by a quarantine record, or by the running command.
NoAgentIsLost ==
  ~died => \A a \in remote.made : a \in Named \/ (SetupAt("pilot") /\ setup.agent = a)

\* project-operator.json, which setup reports, and sprint4a-pilot.json, which the runs
\* use, name the same agent and environment whenever no command runs and none has died
\* between the saves of the two.
FilesAgree ==
  ~died /\ setup.pc \in {"idle", "done"} /\ files.operator # <<>> =>
    /\ files.sprint4a # <<>>
    /\ files.sprint4a[1].agent = files.operator[1].agent
    /\ files.sprint4a[1].env = files.operator[1].env

\* A repair that ends in success leaves an operator state that is stamped as validated
\* and whose agent and environment live, but for what step 3 took over from a pilot or a
\* smoke file without asking; if the API answered and nothing was deleted meanwhile.  It
\* holds whatever the files named when the repair began, torn or dead, and whoever died
\* before.
RepairLeavesLiveOrReused ==
  SetupAt("done") /\ setup.repair /\ setup.calm =>
    /\ files.operator # <<>> /\ files.operator[1].validated
    /\ files.operator[1].agent \in remote.agents \/ "agent" \in setup.reused
    /\ files.operator[1].env \in remote.envs \/ "env" \in setup.reused
================================================================================
