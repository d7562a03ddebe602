----------------------------- MODULE OperatorProofs -----------------------------
(***************************************************************************)
(* Proofs about three components around the broker.  OperatorSetup: which  *)
(* agents are named where, when the state files agree, and what a repair   *)
(* leaves, for any number of setups, of deaths and of deletions.           *)
(* Stage2cRunner: a receipt tells what was done.  ApprovalProbe: what      *)
(* CONFORMANT says, and that a confirmation lets nothing else through.     *)
(***************************************************************************)
EXTENDS OperatorSetup, Stage2cRunner, ApprovalProbe, FiniteSetTheorems, WellFoundedInduction, TLAPS

Validating == {"agent?", "env?"}
ValidatingLegacy == {"legacy agent?", "legacy env?"}
Resting == {"idle", "done"}
Provisioned == {"pilot", "smoke", "save operator"}
SetupPlaces ==
  Resting \cup Validating \cup ValidatingLegacy \cup Provisioned
  \cup {"operator", "legacy", "migrate", "migrate pilot", "environment", "agent"}

OperatorRecords == [agent : Nat, env : Nat, validated : BOOLEAN]
PilotRecords == [agent : Nat, env : Nat, schema : {1, 2}]
SmokeRecords == [agent : Nat, env : Nat]

SetupTypes ==
  /\ remote \in [agents : SUBSET Nat, envs : SUBSET Nat, made : SUBSET Nat, next : Nat]
  /\ files \in [operator : Seq(OperatorRecords), sprint4a : Seq(PilotRecords), smoke : Seq(SmokeRecords),
                legacy : Seq(PilotRecords)]
  /\ Len(files.sprint4a) <= 1
  /\ setup \in [pc : SetupPlaces, repair : BOOLEAN, agent : Nat, env : Nat, kept : Nat,
                validated : BOOLEAN, agentOk : BOOLEAN, calm : BOOLEAN, reused : SUBSET {"agent", "env"}]
  /\ died \in BOOLEAN

\* No mock id stays in a file that setup writes or reuses.
NoMockIds ==
  /\ remote.next # 0
  /\ files.legacy # <<>> => files.legacy[1].agent # 0
  /\ files.operator # <<>> => files.operator[1].agent # 0
  /\ files.sprint4a # <<>> /\ setup.pc \notin Resting => files.sprint4a[1].agent # 0
  /\ setup.pc \in Validating \cup ValidatingLegacy \cup Provisioned \cup {"migrate", "migrate pilot"} =>
       setup.agent # 0

\* The operator state is validated, or gone before anything is provisioned.
OperatorByPlace ==
  /\ setup.pc \in ValidatingLegacy \cup Provisioned \cup {"legacy", "migrate", "environment", "agent"} =>
       files.operator = <<>>
  /\ setup.pc \in Validating \cup {"migrate pilot"} =>
       files.operator # <<>> /\ files.operator[1].agent = setup.agent /\ files.operator[1].env = setup.env

\* The pilot file is written, or read, before the operator state.
PilotByPlace ==
  /\ ~died /\ setup.pc \in Resting \cup Validating \cup {"operator"} /\ files.operator # <<>> =>
       /\ files.sprint4a # <<>>
       /\ files.sprint4a[1].agent = files.operator[1].agent
       /\ files.sprint4a[1].env = files.operator[1].env
  /\ setup.pc \in {"smoke", "save operator"} =>
       /\ files.sprint4a # <<>>
       /\ files.sprint4a[1].agent = setup.agent
       /\ files.sprint4a[1].env = setup.kept
  /\ SetupAt("pilot") => setup.kept = setup.env

\* An agent that setup made is quarantined, is the operator's, or is being saved.
Tracked ==
  ~died => \A a \in remote.made :
    \/ a \in quarantined
    \/ files.operator # <<>> /\ files.operator[1].agent = a
    \/ setup.pc \in Provisioned /\ setup.agent = a

\* In a calm command what is validated or made lives; the rest was taken over from a file.
AgentLives(a) == a \in remote.agents \/ "agent" \in setup.reused
EnvLives(e) == e \in remote.envs \/ "env" \in setup.reused

CalmLives ==
  setup.calm =>
    /\ setup.pc \in {"env?", "legacy env?"} /\ setup.agentOk => setup.agent \in remote.agents
    /\ SetupAt("migrate") /\ setup.repair =>
         setup.validated /\ setup.agent \in remote.agents /\ setup.env \in remote.envs
    /\ SetupAt("agent") => EnvLives(setup.env)
    /\ setup.pc \in Provisioned => AgentLives(setup.agent) /\ EnvLives(setup.kept)
    /\ setup.pc \in {"migrate pilot", "done"} /\ setup.repair =>
         /\ files.operator # <<>> /\ files.operator[1].validated
         /\ AgentLives(files.operator[1].agent) /\ EnvLives(files.operator[1].env)

SetupInv == SetupTypes /\ NoMockIds /\ OperatorByPlace /\ PilotByPlace /\ Tracked /\ CalmLives

------------------------------------------------------------------------------

LEMMA HeadIsThere ==
  ASSUME NEW R, NEW s \in Seq(R), s # <<>>
  PROVE  1 \in DOMAIN s /\ s[1] \in R
OBVIOUS

LEMMA OneRecord == ASSUME NEW R, NEW r \in R PROVE <<r>> \in Seq(R) /\ Len(<<r>>) = 1 /\ <<r>>[1] = r /\ <<r>> # <<>>
OBVIOUS

LEMMA RecordsThere ==
  ASSUME SetupTypes
  PROVE  /\ files.operator # <<>> => files.operator[1] \in OperatorRecords
         /\ files.sprint4a # <<>> => files.sprint4a[1] \in PilotRecords
         /\ files.smoke # <<>> => files.smoke[1] \in SmokeRecords
         /\ files.legacy # <<>> => files.legacy[1] \in PilotRecords
<1>1. /\ files.operator \in Seq(OperatorRecords) /\ files.sprint4a \in Seq(PilotRecords)
      /\ files.smoke \in Seq(SmokeRecords) /\ files.legacy \in Seq(PilotRecords)
  BY DEF SetupTypes
<1> QED
  BY <1>1, HeadIsThere

USE DEF SetupAt, Resting, Validating, ValidatingLegacy, Provisioned

LEMMA SetupStarts == SetupInit => SetupInv
<1> SUFFICES ASSUME SetupInit PROVE SetupInv
  OBVIOUS
<1>1. PICK pilot \in {<<>>, <<Pilot(0, 1, 2)>>, <<Pilot(1, 1, 1)>>, <<Pilot(1, 1, 2)>>},
           legacy \in {<<>>, <<Pilot(1, 1, 2)>>}, smoke \in {<<>>, <<Smoke(1, 1)>>} :
        files = [operator |-> <<>>, sprint4a |-> pilot, smoke |-> smoke, legacy |-> legacy]
  BY DEF SetupInit
<1>2. /\ remote = [agents |-> {1}, envs |-> {1}, made |-> {}, next |-> 2] /\ quarantined = {}
      /\ setup = SetupIdle /\ died = FALSE
  BY DEF SetupInit
<1>3. pilot \in Seq(PilotRecords) /\ legacy \in Seq(PilotRecords) /\ smoke \in Seq(SmokeRecords)
  <2>1. \A a, e \in {0, 1}, s \in {1, 2} : Pilot(a, e, s) \in PilotRecords
    BY DEF Pilot, PilotRecords
  <2>2. Smoke(1, 1) \in SmokeRecords
    BY DEF Smoke, SmokeRecords
  <2>3. <<>> \in Seq(PilotRecords) /\ <<>> \in Seq(SmokeRecords)
    OBVIOUS
  <2> QED
    BY <2>1, <2>2, <2>3, OneRecord
<1>4. <<>> \in Seq(OperatorRecords)
  OBVIOUS
<1>5. SetupTypes
  <2>1. Len(pilot) <= 1
    <3>1. CASE pilot = <<>>
      <4>1. Len(<<>>) <= 1
        OBVIOUS
      <4> QED
        BY <3>1, <4>1
    <3>2. CASE \E r : pilot = <<r>>
      <4>1. PICK r : pilot = <<r>>
        BY <3>2
      <4>2. Len(<<r>>) <= 1
        OBVIOUS
      <4> QED
        BY <4>1, <4>2
    <3>3. pilot = <<>> \/ \E r : pilot = <<r>>
      OBVIOUS
    <3> QED
      BY <3>1, <3>2, <3>3
  <2>2. files.sprint4a = pilot
    BY <1>1
  <2>3. files \in [operator : Seq(OperatorRecords), sprint4a : Seq(PilotRecords), smoke : Seq(SmokeRecords),
                  legacy : Seq(PilotRecords)]
    BY <1>1, <1>3, <1>4
  <2>4. setup \in [pc : SetupPlaces, repair : BOOLEAN, agent : Nat, env : Nat, kept : Nat,
                  validated : BOOLEAN, agentOk : BOOLEAN, calm : BOOLEAN, reused : SUBSET {"agent", "env"}]
    BY <1>2 DEF SetupIdle, SetupPlaces
  <2> QED
    <3>1. remote \in [agents : SUBSET Nat, envs : SUBSET Nat, made : SUBSET Nat, next : Nat] /\ died \in BOOLEAN
      <4>1. {1} \in SUBSET Nat /\ {} \in SUBSET Nat /\ 2 \in Nat
        OBVIOUS
      <4>2. died \in BOOLEAN
        BY <1>2
      <4>3. remote = [agents |-> {1}, envs |-> {1}, made |-> {}, next |-> 2]
        BY <1>2
      <4> QED
        BY <4>1, <4>2, <4>3
    <3> QED
      BY <2>1, <2>2, <2>3, <2>4, <3>1 DEF SetupTypes
<1>6. legacy # <<>> => legacy[1].agent # 0
  BY DEF Pilot
<1>7. setup.pc = "idle" /\ files.operator = <<>> /\ files.legacy = legacy /\ remote.made = {} /\ remote.next = 2
  BY <1>1, <1>2 DEF SetupIdle
<1> QED
  BY <1>5, <1>6, <1>7 DEF SetupInv, NoMockIds, OperatorByPlace, PilotByPlace, Tracked, CalmLives

LEMMA BeginSetupKeeps == ASSUME SetupInv, BeginSetup PROVE SetupInv'
<1> SetupTypes /\ NoMockIds /\ OperatorByPlace /\ PilotByPlace /\ Tracked /\ CalmLives
  BY DEF SetupInv
<1>1. PICK repair \in BOOLEAN :
        setup' = [SetupIdle EXCEPT !.pc = "operator", !.repair = repair, !.calm = TRUE]
  BY DEF BeginSetup
<1>2. setup.pc \in {"idle", "done"} /\ UNCHANGED <<remote, died>>
  BY DEF BeginSetup
<1>4. setup'.pc = "operator" /\ setup'.calm = TRUE
  BY <1>1 DEF SetupIdle
<1>5. setup' \in [pc : SetupPlaces, repair : BOOLEAN, agent : Nat, env : Nat, kept : Nat,
                  validated : BOOLEAN, agentOk : BOOLEAN, calm : BOOLEAN, reused : SUBSET {"agent", "env"}]
  BY <1>1 DEF SetupIdle, SetupPlaces
<1>6. CASE \E i \in DOMAIN files.sprint4a : ~Production(files.sprint4a[i].agent)
  <2>1. /\ files' = [files EXCEPT !.sprint4a = <<>>] /\ quarantined \subseteq quarantined'
    BY <1>6 DEF BeginSetup
  <2> QED
    <3>1. files'.operator = files.operator /\ files'.legacy = files.legacy /\ files'.smoke = files.smoke
          /\ files'.sprint4a = <<>>
      BY <2>1 DEF SetupTypes
    <3>2. SetupTypes'
      <4>1. <<>> \in Seq(PilotRecords) /\ Len(<<>>) <= 1
        OBVIOUS
      <4>2. files' \in [operator : Seq(OperatorRecords), sprint4a : Seq(PilotRecords), smoke : Seq(SmokeRecords),
                       legacy : Seq(PilotRecords)]
        BY <2>1, <4>1 DEF SetupTypes
      <4>3. Len(files'.sprint4a) <= 1
        BY <3>1, <4>1
      <4> QED
        BY <1>2, <1>5, <4>2, <4>3 DEF SetupTypes
    <3>3. NoMockIds' /\ OperatorByPlace' /\ Tracked'
      BY <1>2, <1>4, <2>1, <3>1 DEF NoMockIds, OperatorByPlace, Tracked
    <3>4. CalmLives'
      BY <1>2, <1>4, <3>1 DEF CalmLives, AgentLives, EnvLives
    <3>5. PilotByPlace'
      <4>1. files.sprint4a # <<>> /\ files.sprint4a[1].agent = 0
        BY <1>6 DEF SetupTypes, Production
      <4>2. died \/ files.operator = <<>>
        BY <1>2, <4>1 DEF PilotByPlace, NoMockIds
      <4> QED
        BY <1>2, <1>4, <3>1, <4>2 DEF PilotByPlace
    <3> QED
      BY <3>2, <3>3, <3>4, <3>5 DEF SetupInv
<1>7. CASE \A i \in DOMAIN files.sprint4a : Production(files.sprint4a[i].agent)
  <2>1. UNCHANGED <<files, quarantined>>
    BY <1>7 DEF BeginSetup
  <2>2. files.sprint4a # <<>> => files.sprint4a[1].agent # 0
    BY <1>7, HeadIsThere DEF SetupTypes, Production
  <2>3. SetupTypes' /\ NoMockIds' /\ OperatorByPlace' /\ PilotByPlace' /\ Tracked'
    BY <1>2, <1>4, <1>5, <2>1, <2>2 DEF SetupTypes, NoMockIds, OperatorByPlace, PilotByPlace, Tracked
  <2>4. CalmLives'
    BY <1>2, <1>4, <2>1 DEF CalmLives, AgentLives, EnvLives
  <2> QED
    BY <2>3, <2>4 DEF SetupInv
<1> QED
  BY <1>6, <1>7

LEMMA CheckOperatorStateKeeps == ASSUME SetupInv, CheckOperatorState PROVE SetupInv'
<1> SetupTypes /\ NoMockIds /\ OperatorByPlace /\ PilotByPlace /\ Tracked /\ CalmLives
  BY DEF SetupInv
<1>1. setup.pc = "operator" /\ UNCHANGED <<remote, files, quarantined, died>>
  BY DEF CheckOperatorState
<1>2. CASE files.operator = <<>>
  <2>1. setup' = [setup EXCEPT !.pc = "legacy"]
    BY <1>2 DEF CheckOperatorState, At
  <2> QED
    BY <1>1, <1>2, <2>1
    DEF SetupInv, SetupTypes, SetupPlaces, NoMockIds, OperatorByPlace, PilotByPlace, Tracked, CalmLives,
        AgentLives, EnvLives
<1>3. CASE files.operator # <<>> /\ ~setup.repair
  <2>1. setup' = [setup EXCEPT !.pc = "idle"]
    BY <1>3 DEF CheckOperatorState, Exit
  <2> QED
    BY <1>1, <1>3, <2>1
    DEF SetupInv, SetupTypes, SetupPlaces, NoMockIds, OperatorByPlace, PilotByPlace, Tracked, CalmLives
<1>4. CASE files.operator # <<>> /\ setup.repair
  <2>1. files.operator[1].agent \in Nat /\ files.operator[1].env \in Nat
    BY <1>4, RecordsThere DEF OperatorRecords
  <2>2. setup' = [setup EXCEPT !.pc = "agent?", !.agent = files.operator[1].agent, !.env = files.operator[1].env]
    BY <1>4 DEF CheckOperatorState
  <2> QED
    BY <1>1, <1>4, <2>1, <2>2
    DEF SetupInv, SetupTypes, SetupPlaces, NoMockIds, OperatorByPlace, PilotByPlace, Tracked, CalmLives,
        AgentLives, EnvLives
<1> QED
  BY <1>2, <1>3, <1>4

LEMMA ValidateAgentKeeps == ASSUME SetupInv, ValidateAgent PROVE SetupInv'
<1> SetupTypes /\ NoMockIds /\ OperatorByPlace /\ PilotByPlace /\ Tracked /\ CalmLives
  BY DEF SetupInv
<1>1. setup.pc \in {"agent?", "legacy agent?"} /\ UNCHANGED <<remote, files, quarantined, died>>
  BY DEF ValidateAgent
<1> DEFINE next == IF setup.pc = "agent?" THEN "env?" ELSE "legacy env?"
<1>2. PICK ok \in BOOLEAN, calm \in BOOLEAN :
        /\ setup' = [setup EXCEPT !.pc = next, !.agentOk = ok, !.calm = calm]
        /\ calm => setup.calm /\ (ok <=> setup.agent \in remote.agents)
  <2>1. CASE setup' = [setup EXCEPT !.pc = next, !.agentOk = setup.agent \in remote.agents]
    <3> DEFINE lives == setup.agent \in remote.agents
               calmly == setup.calm
    <3>1. lives \in BOOLEAN /\ calmly \in BOOLEAN
      BY DEF SetupTypes
    <3>2. setup' = [setup EXCEPT !.pc = next, !.agentOk = lives, !.calm = calmly]
      BY <2>1 DEF SetupTypes
    <3>3. (calmly => setup.calm) /\ (lives <=> setup.agent \in remote.agents)
      OBVIOUS
    <3> HIDE DEF lives, calmly, next
    <3> QED
      BY <3>1, <3>2, <3>3
  <2>2. CASE setup' = [setup EXCEPT !.pc = next, !.agentOk = FALSE, !.calm = FALSE]
    BY <2>2
  <2> QED
    BY <2>1, <2>2 DEF ValidateAgent
<1>3. CASE setup.pc = "agent?"
  <2>1. setup' = [setup EXCEPT !.pc = "env?", !.agentOk = ok, !.calm = calm]
    BY <1>2, <1>3
  <2> QED
    <3>1. SetupTypes'
      BY <1>1, <1>2, <1>3, <2>1
      DEF SetupInv, SetupTypes, SetupPlaces, NoMockIds, OperatorByPlace, PilotByPlace, Tracked, CalmLives,
          AgentLives, EnvLives
    <3>2. NoMockIds' /\ OperatorByPlace'
      BY <1>1, <1>2, <1>3, <2>1
      DEF SetupInv, SetupTypes, SetupPlaces, NoMockIds, OperatorByPlace, PilotByPlace, Tracked, CalmLives,
          AgentLives, EnvLives
    <3>3. PilotByPlace' /\ Tracked'
      BY <1>1, <1>2, <1>3, <2>1
      DEF SetupInv, SetupTypes, SetupPlaces, NoMockIds, OperatorByPlace, PilotByPlace, Tracked, CalmLives,
          AgentLives, EnvLives
    <3>4. CalmLives'
      BY <1>1, <1>2, <1>3, <2>1
      DEF SetupInv, SetupTypes, SetupPlaces, NoMockIds, OperatorByPlace, PilotByPlace, Tracked, CalmLives,
          AgentLives, EnvLives
    <3> QED
      BY <3>1, <3>2, <3>3, <3>4 DEF SetupInv
<1>4. CASE setup.pc = "legacy agent?"
  <2>1. setup' = [setup EXCEPT !.pc = "legacy env?", !.agentOk = ok, !.calm = calm]
    BY <1>2, <1>4
  <2> QED
    <3>1. SetupTypes'
      BY <1>1, <1>2, <1>4, <2>1
      DEF SetupInv, SetupTypes, SetupPlaces, NoMockIds, OperatorByPlace, PilotByPlace, Tracked, CalmLives,
          AgentLives, EnvLives
    <3>2. NoMockIds' /\ OperatorByPlace'
      BY <1>1, <1>2, <1>4, <2>1
      DEF SetupInv, SetupTypes, SetupPlaces, NoMockIds, OperatorByPlace, PilotByPlace, Tracked, CalmLives,
          AgentLives, EnvLives
    <3>3. PilotByPlace' /\ Tracked'
      BY <1>1, <1>2, <1>4, <2>1
      DEF SetupInv, SetupTypes, SetupPlaces, NoMockIds, OperatorByPlace, PilotByPlace, Tracked, CalmLives,
          AgentLives, EnvLives
    <3>4. CalmLives'
      BY <1>1, <1>2, <1>4, <2>1
      DEF SetupInv, SetupTypes, SetupPlaces, NoMockIds, OperatorByPlace, PilotByPlace, Tracked, CalmLives,
          AgentLives, EnvLives
    <3> QED
      BY <3>1, <3>2, <3>3, <3>4 DEF SetupInv
<1> QED
  BY <1>1, <1>3, <1>4

\* Saving one record.
LEMMA SavedOperator ==
  ASSUME SetupTypes, NEW r \in OperatorRecords, Save("operator", r)
  PROVE  /\ files' \in [operator : Seq(OperatorRecords), sprint4a : Seq(PilotRecords), smoke : Seq(SmokeRecords),
                       legacy : Seq(PilotRecords)]
         /\ files'.operator # <<>> /\ files'.operator[1] = r /\ files'.sprint4a = files.sprint4a
         /\ files'.smoke = files.smoke /\ files'.legacy = files.legacy
<1> DEFINE s == <<r>>
<1>1. s \in Seq(OperatorRecords) /\ s # <<>> /\ s[1] = r
  BY OneRecord
<1>2. files' = [files EXCEPT !["operator"] = s]
  BY DEF Save
<1> HIDE DEF s
<1> QED
  BY <1>1, <1>2 DEF SetupTypes

LEMMA SavedPilot ==
  ASSUME SetupTypes, NEW r \in PilotRecords, Save("sprint4a", r)
  PROVE  /\ files' \in [operator : Seq(OperatorRecords), sprint4a : Seq(PilotRecords), smoke : Seq(SmokeRecords),
                       legacy : Seq(PilotRecords)]
         /\ files'.sprint4a # <<>> /\ files'.sprint4a[1] = r /\ Len(files'.sprint4a) <= 1
         /\ files'.operator = files.operator /\ files'.smoke = files.smoke /\ files'.legacy = files.legacy
<1> DEFINE s == <<r>>
<1>1. s \in Seq(PilotRecords) /\ s # <<>> /\ s[1] = r /\ Len(s) <= 1
  <2>1. Len(s) = 1
    BY OneRecord
  <2> QED
    BY <2>1, OneRecord
<1>2. files' = [files EXCEPT !["sprint4a"] = s]
  BY DEF Save
<1> HIDE DEF s
<1> QED
  BY <1>1, <1>2 DEF SetupTypes

LEMMA SavedSmoke ==
  ASSUME SetupTypes, NEW r \in SmokeRecords, Save("smoke", r)
  PROVE  /\ files' \in [operator : Seq(OperatorRecords), sprint4a : Seq(PilotRecords), smoke : Seq(SmokeRecords),
                       legacy : Seq(PilotRecords)]
         /\ files'.operator = files.operator /\ files'.sprint4a = files.sprint4a /\ files'.legacy = files.legacy
<1> DEFINE s == <<r>>
<1>1. s \in Seq(SmokeRecords)
  BY OneRecord
<1>2. files' = [files EXCEPT !["smoke"] = s]
  BY DEF Save
<1> HIDE DEF s
<1> QED
  BY <1>1, <1>2 DEF SetupTypes

LEMMA OperatorIs ==
  ASSUME NEW a \in Nat, NEW e \in Nat, NEW v \in BOOLEAN
  PROVE  /\ Operator(a, e, v) \in OperatorRecords /\ Operator(a, e, v).agent = a
         /\ Operator(a, e, v).env = e /\ Operator(a, e, v).validated = v
BY DEF Operator, OperatorRecords

LEMMA PilotIs ==
  ASSUME NEW a \in Nat, NEW e \in Nat
  PROVE  Pilot(a, e, 2) \in PilotRecords /\ Pilot(a, e, 2).agent = a /\ Pilot(a, e, 2).env = e
BY DEF Pilot, PilotRecords

LEMMA ValidateEnvironmentKeeps == ASSUME SetupInv, ValidateEnvironment PROVE SetupInv'
<1> SetupTypes /\ NoMockIds /\ OperatorByPlace /\ PilotByPlace /\ Tracked /\ CalmLives
  BY DEF SetupInv
<1>1. setup.pc = "env?" /\ UNCHANGED <<remote, died>>
  BY DEF ValidateEnvironment
<1>2. PICK envOk \in {setup.env \in remote.envs, FALSE} :
        IF setup.agentOk /\ envOk
        THEN Save("operator", Operator(setup.agent, setup.env, TRUE)) /\ Finish /\ UNCHANGED quarantined
        ELSE /\ quarantined' = quarantined \cup {setup.agent}
             /\ files' = [files EXCEPT !.operator = <<>>]
             /\ setup' = [setup EXCEPT !.pc = "legacy",
                                       !.calm = @ /\ envOk = (setup.env \in remote.envs)]
  BY DEF ValidateEnvironment
<1>3. CASE setup.agentOk /\ envOk
  <2>1. setup.agent \in Nat /\ setup.env \in Nat
    BY DEF SetupTypes
  <2>2. setup' = [setup EXCEPT !.pc = "done"] /\ UNCHANGED quarantined
    BY <1>2, <1>3 DEF Finish
  <2> DEFINE r == Operator(setup.agent, setup.env, TRUE)
  <2>3. Save("operator", r)
    BY <1>2, <1>3
  <2>4. r \in OperatorRecords /\ r.agent = setup.agent /\ r.env = setup.env /\ r.validated = TRUE
    BY <2>1 DEF Operator, OperatorRecords
  <2> HIDE DEF r
  <2>5. setup.env \in remote.envs
    BY <1>2, <1>3
  <2>6. SetupTypes'
    BY <1>1, <2>2, <2>3, <2>4, SavedOperator DEF SetupTypes, SetupPlaces
  <2>7. NoMockIds' /\ OperatorByPlace'
    BY <1>1, <2>2, <2>3, <2>4, SavedOperator DEF SetupTypes, NoMockIds, OperatorByPlace
  <2>8. PilotByPlace' /\ Tracked'
    BY <1>1, <2>2, <2>3, <2>4, SavedOperator DEF SetupTypes, OperatorByPlace, PilotByPlace, Tracked
  <2>9. CalmLives'
    BY <1>1, <1>3, <2>2, <2>3, <2>4, <2>5, SavedOperator DEF SetupTypes, CalmLives, AgentLives, EnvLives
  <2> QED
    BY <2>6, <2>7, <2>8, <2>9 DEF SetupInv
<1>4. CASE ~(setup.agentOk /\ envOk)
  <2> DEFINE calm == setup.calm /\ envOk = (setup.env \in remote.envs)
  <2>1. calm \in BOOLEAN /\ (calm => setup.calm)
    BY DEF SetupTypes
  <2>2. setup' = [setup EXCEPT !.pc = "legacy", !.calm = calm]
    BY <1>2, <1>4
  <2> HIDE DEF calm
  <2>3. quarantined' = quarantined \cup {setup.agent} /\ files' = [files EXCEPT !.operator = <<>>]
    BY <1>2, <1>4
  <2>4. <<>> \in Seq(OperatorRecords)
    OBVIOUS
  <2>5. SetupTypes' /\ files'.operator = <<>> /\ files'.sprint4a = files.sprint4a /\ files'.smoke = files.smoke
        /\ files'.legacy = files.legacy /\ setup'.pc = "legacy" /\ setup'.calm = calm
    BY <1>1, <2>1, <2>2, <2>3, <2>4 DEF SetupTypes, SetupPlaces
  <2>6. NoMockIds' /\ OperatorByPlace' /\ PilotByPlace' /\ Tracked'
    BY <1>1, <2>3, <2>5 DEF NoMockIds, OperatorByPlace, PilotByPlace, Tracked
  <2>7. CalmLives'
    BY <1>1, <2>1, <2>5 DEF CalmLives, AgentLives, EnvLives
  <2> QED
    BY <2>5, <2>6, <2>7 DEF SetupInv
<1> QED
  BY <1>3, <1>4

LEMMA CheckLegacyKeeps == ASSUME SetupInv, CheckLegacy PROVE SetupInv'
<1> SetupTypes /\ NoMockIds /\ OperatorByPlace /\ PilotByPlace /\ Tracked /\ CalmLives
  BY DEF SetupInv
<1>1. setup.pc = "legacy" /\ UNCHANGED <<remote, files, quarantined, died>>
  BY DEF CheckLegacy
<1>2. CASE files.smoke # <<>> /\ files.legacy # <<>>
  <2> DEFINE a == files.legacy[1].agent
             e == files.smoke[1].env
             l == IF setup.repair THEN "legacy agent?" ELSE "migrate"
  <2>1. a \in Nat /\ e \in Nat /\ a # 0
    BY <1>2, RecordsThere DEF PilotRecords, SmokeRecords, NoMockIds
  <2>2. setup' = [setup EXCEPT !.agent = a, !.env = e, !.pc = l]
    BY <1>2 DEF CheckLegacy
  <2>3. (setup.repair /\ l = "legacy agent?") \/ (~setup.repair /\ l = "migrate")
    <3>1. CASE setup.repair
      <4>1. l = "legacy agent?"
        BY <3>1
      <4> QED
        BY <3>1, <4>1
    <3>2. CASE ~setup.repair
      BY <3>2
    <3> QED
      BY <3>1, <3>2
  <2> HIDE DEF a, e, l
  <2>4. SetupTypes' /\ setup'.pc = l /\ setup'.agent = a /\ setup'.calm = setup.calm /\ setup'.repair = setup.repair
    BY <1>1, <2>1, <2>2, <2>3 DEF SetupTypes, SetupPlaces
  <2> QED
    BY <1>1, <2>1, <2>3, <2>4
    DEF SetupInv, NoMockIds, OperatorByPlace, PilotByPlace, Tracked, CalmLives, AgentLives, EnvLives
<1>3. CASE ~(files.smoke # <<>> /\ files.legacy # <<>>)
  <2>1. setup' = [setup EXCEPT !.pc = "environment"]
    BY <1>3 DEF CheckLegacy, At
  <2> QED
    BY <1>1, <2>1
    DEF SetupInv, SetupTypes, SetupPlaces, NoMockIds, OperatorByPlace, PilotByPlace, Tracked, CalmLives,
        AgentLives, EnvLives
<1> QED
  BY <1>2, <1>3

LEMMA ValidateLegacyEnvironmentKeeps == ASSUME SetupInv, ValidateLegacyEnvironment PROVE SetupInv'
<1> SetupTypes /\ NoMockIds /\ OperatorByPlace /\ PilotByPlace /\ Tracked /\ CalmLives
  BY DEF SetupInv
<1>1. setup.pc = "legacy env?" /\ UNCHANGED <<remote, files, quarantined, died>>
  BY DEF ValidateLegacyEnvironment
<1>2. PICK envOk \in {setup.env \in remote.envs, FALSE} :
        setup' = [setup EXCEPT !.pc = IF setup.agentOk /\ envOk THEN "migrate" ELSE "environment",
                               !.calm = @ /\ envOk = (setup.env \in remote.envs),
                               !.validated = setup.agentOk /\ envOk]
  BY DEF ValidateLegacyEnvironment
<1> DEFINE ok == setup.agentOk /\ envOk
           calm == setup.calm /\ envOk = (setup.env \in remote.envs)
           l == IF ok THEN "migrate" ELSE "environment"
<1>3. /\ ok \in BOOLEAN /\ calm \in BOOLEAN /\ (calm => setup.calm)
      /\ ok => setup.agentOk /\ setup.env \in remote.envs
  BY <1>2 DEF SetupTypes
<1>4. (ok /\ l = "migrate") \/ (~ok /\ l = "environment")
  <2>1. CASE ok
    <3>1. l = "migrate"
      BY <2>1
    <3> QED
      BY <2>1, <3>1
  <2>2. CASE ~ok
    BY <2>2
  <2> QED
    BY <2>1, <2>2
<1>5. setup' = [setup EXCEPT !.pc = l, !.calm = calm, !.validated = ok]
  BY <1>2
<1> HIDE DEF ok, calm, l
<1>6. /\ SetupTypes' /\ setup'.pc = l /\ setup'.agent = setup.agent /\ setup'.env = setup.env
      /\ setup'.calm = calm /\ setup'.validated = ok
  BY <1>1, <1>3, <1>4, <1>5 DEF SetupTypes, SetupPlaces
<1> QED
  BY <1>1, <1>3, <1>4, <1>6
  DEF SetupInv, NoMockIds, OperatorByPlace, PilotByPlace, Tracked, CalmLives, AgentLives, EnvLives

LEMMA SaveMigratedOperatorKeeps == ASSUME SetupInv, SaveMigratedOperator PROVE SetupInv'
<1> SetupTypes /\ NoMockIds /\ OperatorByPlace /\ PilotByPlace /\ Tracked /\ CalmLives
  BY DEF SetupInv
<1> DEFINE r == Operator(setup.agent, setup.env, setup.validated)
<1>1. setup.pc = "migrate" /\ UNCHANGED <<remote, quarantined, died>> /\ Save("operator", r)
  BY DEF SaveMigratedOperator
<1>2. setup' = [setup EXCEPT !.pc = "migrate pilot"]
  BY DEF SaveMigratedOperator, At
<1>3. r \in OperatorRecords /\ r.agent = setup.agent /\ r.env = setup.env /\ r.validated = setup.validated
  <2>1. setup.agent \in Nat /\ setup.env \in Nat /\ setup.validated \in BOOLEAN
    BY DEF SetupTypes
  <2> QED
    BY <2>1, OperatorIs
<1> HIDE DEF r
<1>4. SetupTypes'
  BY <1>1, <1>2, <1>3, SavedOperator DEF SetupTypes, SetupPlaces
<1>5. NoMockIds' /\ OperatorByPlace'
  BY <1>1, <1>2, <1>3, SavedOperator DEF SetupTypes, NoMockIds, OperatorByPlace
<1>6. PilotByPlace' /\ Tracked'
  BY <1>1, <1>2, <1>3, SavedOperator DEF SetupTypes, OperatorByPlace, PilotByPlace, Tracked
<1>7. CalmLives'
  BY <1>1, <1>2, <1>3, SavedOperator DEF SetupTypes, CalmLives, AgentLives, EnvLives
<1> QED
  BY <1>4, <1>5, <1>6, <1>7 DEF SetupInv

LEMMA SaveMigratedPilotKeeps == ASSUME SetupInv, SaveMigratedPilot PROVE SetupInv'
<1> SetupTypes /\ NoMockIds /\ OperatorByPlace /\ PilotByPlace /\ Tracked /\ CalmLives
  BY DEF SetupInv
<1> DEFINE r == Pilot(setup.agent, setup.env, 2)
<1>1. setup.pc = "migrate pilot" /\ UNCHANGED <<remote, quarantined, died>> /\ Save("sprint4a", r)
  BY DEF SaveMigratedPilot
<1>2. setup' = [setup EXCEPT !.pc = "done"]
  BY DEF SaveMigratedPilot, Finish
<1>3. r \in PilotRecords /\ r.agent = setup.agent /\ r.env = setup.env
  BY PilotIs DEF SetupTypes
<1> HIDE DEF r
<1>4. SetupTypes'
  BY <1>1, <1>2, <1>3, SavedPilot DEF SetupTypes, SetupPlaces
<1>5. NoMockIds' /\ OperatorByPlace'
  BY <1>1, <1>2, <1>3, SavedPilot DEF SetupTypes, NoMockIds, OperatorByPlace
<1>6. PilotByPlace' /\ Tracked'
  <2>1. PilotByPlace'
    <3>1. setup'.pc = "done"
      BY <1>2 DEF SetupTypes
    <3>2. files'.sprint4a # <<>> /\ files'.sprint4a[1] = r /\ files'.operator = files.operator
      BY <1>1, <1>3, SavedPilot
    <3> QED
      BY <1>1, <1>3, <3>1, <3>2 DEF OperatorByPlace, PilotByPlace, SetupAt
  <2>2. Tracked'
    BY <1>1, <1>2, <1>3, SavedPilot DEF SetupTypes, OperatorByPlace, PilotByPlace, Tracked
  <2> QED
    BY <2>1, <2>2
<1>7. CalmLives'
  BY <1>1, <1>2, <1>3, SavedPilot DEF SetupTypes, CalmLives, AgentLives, EnvLives
<1> QED
  BY <1>4, <1>5, <1>6, <1>7 DEF SetupInv

\* A command that ends early, or moves on with another environment.
LEMMA ExitKeeps ==
  ASSUME SetupInv, Exit, setup.pc \in {"environment", "agent"}, UNCHANGED <<remote, files, quarantined, died>>
  PROVE  SetupInv'
<1> SetupTypes /\ NoMockIds /\ OperatorByPlace /\ PilotByPlace /\ Tracked /\ CalmLives
  BY DEF SetupInv
<1> QED
  BY DEF Exit, SetupInv, SetupTypes, SetupPlaces, NoMockIds, OperatorByPlace, PilotByPlace, Tracked, CalmLives

LEMMA EnsureCloudEnvironmentKeeps == ASSUME SetupInv, EnsureCloudEnvironment PROVE SetupInv'
<1> SetupTypes /\ NoMockIds /\ OperatorByPlace /\ PilotByPlace /\ Tracked /\ CalmLives
  BY DEF SetupInv
<1>1. setup.pc = "environment" /\ UNCHANGED <<files, quarantined, died>>
  BY DEF EnsureCloudEnvironment
<1>2. ASSUME NEW e \in Nat, NEW reused \in SUBSET {"agent", "env"},
             setup' = [setup EXCEPT !.pc = "agent", !.env = e, !.reused = reused],
             UNCHANGED <<remote.agents, remote.made>>, remote.envs \subseteq remote'.envs,
             "env" \in reused \/ e \in remote'.envs,
             remote' \in [agents : SUBSET Nat, envs : SUBSET Nat, made : SUBSET Nat, next : Nat],
             remote'.next # 0
      PROVE  SetupInv'
  <2>1. SetupTypes' /\ setup'.pc = "agent" /\ setup'.env = e /\ setup'.calm = setup.calm
        /\ setup'.reused = reused
    BY <1>1, <1>2 DEF SetupTypes, SetupPlaces
  <2>2. NoMockIds' /\ OperatorByPlace' /\ PilotByPlace' /\ Tracked'
    BY <1>1, <1>2, <2>1 DEF NoMockIds, OperatorByPlace, PilotByPlace, Tracked
  <2>3. CalmLives'
    BY <1>1, <1>2, <2>1 DEF CalmLives, AgentLives, EnvLives
  <2> QED
    BY <2>1, <2>2, <2>3 DEF SetupInv
<1>7. \A e : [setup EXCEPT !.pc = "agent", !.env = e]
              = [setup EXCEPT !.pc = "agent", !.env = e, !.reused = setup.reused]
  BY DEF SetupTypes
<1>8. setup.reused \in SUBSET {"agent", "env"}
  BY DEF SetupTypes
<1>3. CASE /\ files.smoke # <<>> /\ UNCHANGED remote
           /\ setup' = [setup EXCEPT !.pc = "agent", !.env = files.smoke[1].env, !.reused = {"env"}]
  <2>1. files.smoke[1].env \in Nat
    BY <1>3, RecordsThere DEF SmokeRecords
  <2>2. {"env"} \in SUBSET {"agent", "env"} /\ "env" \in {"env"}
    OBVIOUS
  <2>3. remote' \in [agents : SUBSET Nat, envs : SUBSET Nat, made : SUBSET Nat, next : Nat] /\ remote'.next # 0
    BY <1>3 DEF SetupTypes, NoMockIds
  <2>4. UNCHANGED <<remote.agents, remote.made>> /\ remote.envs \subseteq remote'.envs
    BY <1>3
  <2> QED
    BY <1>2, <1>3, <2>1, <2>2, <2>3, <2>4
<1>4. CASE /\ remote.envs = {}
           /\ setup' = [setup EXCEPT !.pc = "agent", !.env = remote.next]
           /\ remote' = [remote EXCEPT !.envs = {remote.next}, !.next = @ + 1]
  <2> DEFINE n == remote.next
             more == n + 1
  <2>1. n \in Nat /\ more \in Nat /\ more # 0
    BY DEF SetupTypes
  <2>2. remote' = [remote EXCEPT !.envs = {n}, !.next = more]
    BY <1>4 DEF SetupTypes
  <2>3. setup' = [setup EXCEPT !.pc = "agent", !.env = n]
    BY <1>4
  <2> HIDE DEF n, more
  <2>4. /\ remote' \in [agents : SUBSET Nat, envs : SUBSET Nat, made : SUBSET Nat, next : Nat]
        /\ remote'.envs = {n} /\ remote'.next = more /\ UNCHANGED <<remote.agents, remote.made>>
    BY <2>1, <2>2 DEF SetupTypes
  <2>5. remote.envs \subseteq remote'.envs /\ n \in remote'.envs
    BY <1>4, <2>4
  <2>6. setup' = [setup EXCEPT !.pc = "agent", !.env = n, !.reused = setup.reused]
    BY <1>7, <2>3
  <2>7. remote'.next # 0
    BY <2>1, <2>4
  <2> QED
    BY <1>2, <1>8, <2>1, <2>4, <2>5, <2>6, <2>7
<1>5. CASE /\ \E e \in remote.envs : setup' = [setup EXCEPT !.pc = "agent", !.env = e]
           /\ UNCHANGED remote
  <2>1. PICK e \in remote.envs : setup' = [setup EXCEPT !.pc = "agent", !.env = e]
    BY <1>5
  <2>2. e \in Nat
    BY DEF SetupTypes
  <2> QED
    BY <1>2, <1>5, <1>7, <1>8, <2>1, <2>2 DEF SetupTypes, NoMockIds
<1>6. CASE Exit /\ UNCHANGED remote
  BY <1>1, <1>6, ExitKeeps
<1> QED
  BY <1>3, <1>4, <1>5, <1>6 DEF EnsureCloudEnvironment

LEMMA EnsureSprint4aAgentKeeps == ASSUME SetupInv, EnsureSprint4aAgent PROVE SetupInv'
<1> SetupTypes /\ NoMockIds /\ OperatorByPlace /\ PilotByPlace /\ Tracked /\ CalmLives
  BY DEF SetupInv
<1>1. setup.pc = "agent" /\ UNCHANGED <<files, quarantined, died>>
  BY DEF EnsureSprint4aAgent
<1>2. CASE files.sprint4a # <<>> /\ UNCHANGED remote
           /\ setup' = [setup EXCEPT !.pc = "smoke", !.agent = files.sprint4a[1].agent,
                                     !.kept = files.sprint4a[1].env, !.reused = {"agent", "env"}]
  <2> DEFINE a == files.sprint4a[1].agent
             e == files.sprint4a[1].env
  <2>1. a \in Nat /\ e \in Nat /\ a # 0
    BY <1>1, <1>2, RecordsThere DEF PilotRecords, NoMockIds
  <2>3. setup' = [setup EXCEPT !.pc = "smoke", !.agent = a, !.kept = e, !.reused = {"agent", "env"}]
    BY <1>2
  <2>4. files.sprint4a[1].agent = a /\ files.sprint4a[1].env = e
    OBVIOUS
  <2> HIDE DEF a, e
  <2>5. SetupTypes' /\ setup'.pc = "smoke" /\ setup'.agent = a /\ setup'.kept = e
        /\ setup'.reused = {"agent", "env"}
    <3>1. PICK both \in SUBSET {"agent", "env"} : both = {"agent", "env"}
      OBVIOUS
    <3>2. setup' = [setup EXCEPT !.pc = "smoke", !.agent = a, !.kept = e, !.reused = both]
      BY <2>3, <3>1
    <3>3. setup \in [pc : SetupPlaces, repair : BOOLEAN, agent : Nat, env : Nat, kept : Nat,
                     validated : BOOLEAN, agentOk : BOOLEAN, calm : BOOLEAN, reused : SUBSET {"agent", "env"}]
      BY DEF SetupTypes
    <3>4. "smoke" \in SetupPlaces
      BY DEF SetupPlaces, Provisioned
    <3>5. setup' \in [pc : SetupPlaces, repair : BOOLEAN, agent : Nat, env : Nat, kept : Nat,
                      validated : BOOLEAN, agentOk : BOOLEAN, calm : BOOLEAN, reused : SUBSET {"agent", "env"}]
      BY <2>1, <3>1, <3>2, <3>3, <3>4
    <3>6. setup'.pc = "smoke" /\ setup'.agent = a /\ setup'.kept = e /\ setup'.reused = both
      BY <3>2, <3>3
    <3> QED
      BY <1>1, <1>2, <3>1, <3>5, <3>6 DEF SetupTypes
  <2>6. NoMockIds' /\ OperatorByPlace' /\ PilotByPlace' /\ Tracked'
    BY <1>1, <1>2, <2>1, <2>4, <2>5 DEF NoMockIds, OperatorByPlace, PilotByPlace, Tracked
  <2>7. CalmLives'
    BY <1>2, <2>5 DEF CalmLives, AgentLives, EnvLives
  <2> QED
    BY <2>5, <2>6, <2>7 DEF SetupInv
<1>3. CASE /\ remote' = [remote EXCEPT !.agents = @ \cup {remote.next}, !.made = @ \cup {remote.next},
                                       !.next = @ + 1]
           /\ setup' = [setup EXCEPT !.pc = "pilot", !.agent = remote.next, !.kept = setup.env]
  <2> DEFINE n == remote.next
             more == n + 1
             agents == remote.agents \cup {n}
             made == remote.made \cup {n}
  <2>1. n \in Nat /\ n # 0 /\ more \in Nat /\ more # 0 /\ agents \subseteq Nat /\ made \subseteq Nat
    <3>1. n \in Nat /\ n # 0 /\ remote.agents \subseteq Nat /\ remote.made \subseteq Nat
      BY DEF SetupTypes, NoMockIds
    <3>2. more \in Nat /\ more # 0
      BY <3>1
    <3>3. agents \subseteq Nat /\ made \subseteq Nat
      BY <3>1
    <3> QED
      BY <3>1, <3>2, <3>3
  <2>2. remote' = [remote EXCEPT !.agents = agents, !.made = made, !.next = more]
    BY <1>3 DEF SetupTypes
  <2>3. setup' = [setup EXCEPT !.pc = "pilot", !.agent = n, !.kept = setup.env]
    BY <1>3
  <2>4. n \in agents /\ \A x \in made : x \in remote.made \/ x = n
    OBVIOUS
  <2> HIDE DEF n, more, agents, made
  <2>5. SetupTypes' /\ setup'.pc = "pilot" /\ setup'.agent = n /\ setup'.kept = setup.env
        /\ setup'.env = setup.env /\ setup'.calm = setup.calm /\ setup'.reused = setup.reused
        /\ remote'.agents = agents /\ remote'.envs = remote.envs /\ remote'.made = made /\ remote'.next = more
    BY <1>1, <2>1, <2>2, <2>3 DEF SetupTypes, SetupPlaces
  <2>6. NoMockIds' /\ OperatorByPlace' /\ PilotByPlace' /\ Tracked'
    BY <1>1, <2>1, <2>4, <2>5 DEF NoMockIds, OperatorByPlace, PilotByPlace, Tracked
  <2>7. CalmLives'
    BY <1>1, <2>4, <2>5 DEF CalmLives, AgentLives, EnvLives
  <2> QED
    BY <2>5, <2>6, <2>7 DEF SetupInv
<1>4. CASE Exit /\ UNCHANGED remote
  BY <1>1, <1>4, ExitKeeps
<1> QED
  BY <1>2, <1>3, <1>4 DEF EnsureSprint4aAgent

LEMMA SaveSprint4aStateKeeps == ASSUME SetupInv, SaveSprint4aState PROVE SetupInv'
<1> SetupTypes /\ NoMockIds /\ OperatorByPlace /\ PilotByPlace /\ Tracked /\ CalmLives
  BY DEF SetupInv
<1> DEFINE r == Pilot(setup.agent, setup.env, 2)
<1>1. setup.pc = "pilot" /\ UNCHANGED <<remote, quarantined, died>> /\ Save("sprint4a", r)
  BY DEF SaveSprint4aState
<1>2. setup' = [setup EXCEPT !.pc = "smoke"]
  BY DEF SaveSprint4aState, At
<1>3. r \in PilotRecords /\ r.agent = setup.agent /\ r.env = setup.env
  BY PilotIs DEF SetupTypes
<1> HIDE DEF r
<1>4. SetupTypes'
  BY <1>1, <1>2, <1>3, SavedPilot DEF SetupTypes, SetupPlaces
<1>5. NoMockIds' /\ OperatorByPlace'
  BY <1>1, <1>2, <1>3, SavedPilot DEF SetupTypes, NoMockIds, OperatorByPlace
<1>6. PilotByPlace' /\ Tracked'
  BY <1>1, <1>2, <1>3, SavedPilot DEF SetupTypes, OperatorByPlace, PilotByPlace, Tracked
<1>7. CalmLives'
  BY <1>1, <1>2, <1>3, SavedPilot DEF SetupTypes, CalmLives, AgentLives, EnvLives
<1> QED
  BY <1>4, <1>5, <1>6, <1>7 DEF SetupInv

LEMMA SaveCloudSmokeKeeps == ASSUME SetupInv, SaveCloudSmoke PROVE SetupInv'
<1> SetupTypes /\ NoMockIds /\ OperatorByPlace /\ PilotByPlace /\ Tracked /\ CalmLives
  BY DEF SetupInv
<1> DEFINE r == Smoke(setup.agent, setup.env)
<1>1. setup.pc = "smoke" /\ UNCHANGED <<remote, quarantined, died>> /\ Save("smoke", r)
  BY DEF SaveCloudSmoke
<1>2. setup' = [setup EXCEPT !.pc = "save operator"]
  BY DEF SaveCloudSmoke, At
<1>3. r \in SmokeRecords
  BY DEF Smoke, SmokeRecords, SetupTypes
<1> HIDE DEF r
<1>4. SetupTypes'
  BY <1>1, <1>2, <1>3, SavedSmoke DEF SetupTypes, SetupPlaces
<1>5. NoMockIds' /\ OperatorByPlace' /\ PilotByPlace' /\ Tracked'
  BY <1>1, <1>2, <1>3, SavedSmoke
  DEF SetupTypes, NoMockIds, OperatorByPlace, PilotByPlace, Tracked
<1>6. CalmLives'
  BY <1>1, <1>2, <1>3, SavedSmoke DEF SetupTypes, CalmLives, AgentLives, EnvLives
<1> QED
  BY <1>4, <1>5, <1>6 DEF SetupInv

LEMMA SaveOperatorStateKeeps == ASSUME SetupInv, SaveOperatorState PROVE SetupInv'
<1> SetupTypes /\ NoMockIds /\ OperatorByPlace /\ PilotByPlace /\ Tracked /\ CalmLives
  BY DEF SetupInv
<1> DEFINE r == Operator(setup.agent, setup.kept, TRUE)
<1>1. setup.pc = "save operator" /\ UNCHANGED <<remote, quarantined, died>> /\ Save("operator", r)
  BY DEF SaveOperatorState
<1>2. setup' = [setup EXCEPT !.pc = "done"]
  BY DEF SaveOperatorState, Finish
<1>3. r \in OperatorRecords /\ r.agent = setup.agent /\ r.env = setup.kept /\ r.validated = TRUE
  <2>1. setup.agent \in Nat /\ setup.kept \in Nat
    BY DEF SetupTypes
  <2> QED
    BY <2>1 DEF Operator, OperatorRecords
<1> HIDE DEF r
<1>4. SetupTypes'
  BY <1>1, <1>2, <1>3, SavedOperator DEF SetupTypes, SetupPlaces
<1>5. NoMockIds' /\ OperatorByPlace'
  BY <1>1, <1>2, <1>3, SavedOperator DEF SetupTypes, NoMockIds, OperatorByPlace
<1>6. PilotByPlace' /\ Tracked'
  <2>1. setup'.pc = "done" /\ files'.sprint4a = files.sprint4a /\ files'.operator[1] = r /\ files'.operator # <<>>
    BY <1>1, <1>2, <1>3, SavedOperator DEF SetupTypes
  <2>2. /\ files.sprint4a # <<>> /\ files.sprint4a[1].agent = setup.agent
        /\ files.sprint4a[1].env = setup.kept
    BY <1>1 DEF PilotByPlace
  <2>3. PilotByPlace'
    BY <1>3, <2>1, <2>2 DEF PilotByPlace
  <2>4. Tracked'
    BY <1>1, <1>3, <2>1 DEF OperatorByPlace, Tracked
  <2> QED
    BY <2>3, <2>4
<1>7. CalmLives'
  BY <1>1, <1>2, <1>3, SavedOperator DEF SetupTypes, CalmLives, AgentLives, EnvLives
<1> QED
  BY <1>4, <1>5, <1>6, <1>7 DEF SetupInv

\* Whatever is lost in a save, the file is empty then.
LEMMA SetupDiesKeeps == ASSUME SetupInv, SetupDies PROVE SetupInv'
<1> SetupTypes /\ NoMockIds /\ OperatorByPlace /\ PilotByPlace /\ Tracked /\ CalmLives
  BY DEF SetupInv
<1>1. setup' = [setup EXCEPT !.pc = "idle"] /\ died' = TRUE /\ UNCHANGED <<remote, quarantined>>
  BY DEF SetupDies, Exit
<1>2. /\ files' \in [operator : Seq(OperatorRecords), sprint4a : Seq(PilotRecords), smoke : Seq(SmokeRecords),
                     legacy : Seq(PilotRecords)]
      /\ files'.sprint4a = files.sprint4a \/ files'.sprint4a = <<>>
      /\ files'.operator = files.operator \/ files'.operator = <<>>
      /\ files'.legacy = files.legacy
  <2>1. CASE UNCHANGED files
    BY <2>1 DEF SetupTypes
  <2>2. CASE \E f \in {"operator", "sprint4a", "smoke"} : files' = [files EXCEPT ![f] = <<>>]
    <3>1. <<>> \in Seq(OperatorRecords) /\ <<>> \in Seq(PilotRecords) /\ <<>> \in Seq(SmokeRecords)
      OBVIOUS
    <3>2. CASE files' = [files EXCEPT !["operator"] = <<>>]
      BY <3>1, <3>2 DEF SetupTypes
    <3>3. CASE files' = [files EXCEPT !["sprint4a"] = <<>>]
      BY <3>1, <3>3 DEF SetupTypes
    <3>4. CASE files' = [files EXCEPT !["smoke"] = <<>>]
      BY <3>1, <3>4 DEF SetupTypes
    <3> QED
      BY <2>2, <3>2, <3>3, <3>4
  <2>3. Saving \subseteq {"operator", "sprint4a", "smoke"}
    BY DEF Saving
  <2> QED
    BY <2>1, <2>2, <2>3 DEF SetupDies
<1>3. Len(files'.sprint4a) <= 1
  <2>1. Len(<<>>) <= 1
    OBVIOUS
  <2> QED
    BY <1>2, <2>1 DEF SetupTypes
<1>4. SetupTypes'
  BY <1>1, <1>2, <1>3 DEF SetupTypes, SetupPlaces
<1>5. NoMockIds' /\ OperatorByPlace' /\ PilotByPlace' /\ Tracked' /\ CalmLives'
  BY <1>1, <1>2 DEF SetupTypes, NoMockIds, OperatorByPlace, PilotByPlace, Tracked, CalmLives
<1> QED
  BY <1>4, <1>5 DEF SetupInv

LEMMA DeleteResourceKeeps == ASSUME SetupInv, DeleteResource PROVE SetupInv'
<1> SetupTypes /\ NoMockIds /\ OperatorByPlace /\ PilotByPlace /\ Tracked /\ CalmLives
  BY DEF SetupInv
<1>1. setup' = [setup EXCEPT !.calm = FALSE] /\ UNCHANGED <<files, quarantined, died>>
  BY DEF DeleteResource
<1>2. /\ remote' \in [agents : SUBSET Nat, envs : SUBSET Nat, made : SUBSET Nat, next : Nat]
      /\ remote'.made = remote.made /\ remote'.next = remote.next
  <2>1. CASE \E a \in remote.agents : remote' = [remote EXCEPT !.agents = @ \ {a}]
    BY <2>1 DEF SetupTypes
  <2>2. CASE \E e \in remote.envs : remote' = [remote EXCEPT !.envs = @ \ {e}]
    BY <2>2 DEF SetupTypes
  <2> QED
    BY <2>1, <2>2 DEF DeleteResource
<1>3. SetupTypes'
  BY <1>1, <1>2 DEF SetupTypes
<1>4. NoMockIds' /\ OperatorByPlace' /\ PilotByPlace' /\ Tracked' /\ CalmLives'
  BY <1>1, <1>2 DEF SetupTypes, NoMockIds, OperatorByPlace, PilotByPlace, Tracked, CalmLives
<1> QED
  BY <1>3, <1>4 DEF SetupInv

------------------------------------------------------------------------------

LEMMA SetupKeeps == SetupInv /\ [SetupNext]_setupVars => SetupInv'
<1> SUFFICES ASSUME SetupInv, [SetupNext]_setupVars PROVE SetupInv'
  OBVIOUS
<1>1. CASE SetupNext
  BY <1>1, BeginSetupKeeps, CheckOperatorStateKeeps, ValidateAgentKeeps, ValidateEnvironmentKeeps,
     CheckLegacyKeeps, ValidateLegacyEnvironmentKeeps, SaveMigratedOperatorKeeps, SaveMigratedPilotKeeps,
     EnsureCloudEnvironmentKeeps, EnsureSprint4aAgentKeeps, SaveSprint4aStateKeeps, SaveCloudSmokeKeeps,
     SaveOperatorStateKeeps, SetupDiesKeeps, DeleteResourceKeeps
  DEF SetupNext
<1>2. CASE UNCHANGED setupVars
  <2>1. UNCHANGED <<remote, files, quarantined, setup, died>>
    BY <1>2 DEF setupVars
  <2>2. SetupTypes' /\ NoMockIds' /\ OperatorByPlace'
    <3>1. SetupTypes'
      BY <2>1 DEF SetupInv, SetupTypes, NoMockIds, OperatorByPlace
    <3>2. NoMockIds' /\ OperatorByPlace'
      BY <2>1 DEF SetupInv, SetupTypes, NoMockIds, OperatorByPlace
    <3> QED
      BY <3>1, <3>2
  <2>3. PilotByPlace' /\ Tracked'
    BY <2>1 DEF SetupInv, PilotByPlace, Tracked
  <2>4. CalmLives'
    BY <2>1 DEF SetupInv, CalmLives, AgentLives, EnvLives
  <2> QED
    BY <2>2, <2>3, <2>4 DEF SetupInv
<1> QED
  BY <1>1, <1>2

LEMMA SetupAlways == SetupSpec => []SetupInv
<1>1. SetupInit => SetupInv
  BY SetupStarts
<1>2. SetupInv /\ [SetupNext]_setupVars => SetupInv'
  BY SetupKeeps
<1> QED
  BY <1>1, <1>2, PTL DEF SetupSpec

LEMMA OperatorIsNamed ==
  ASSUME SetupTypes
  PROVE  /\ files.operator # <<>> => files.operator[1].agent \in Named
         /\ files.sprint4a # <<>> => files.sprint4a[1].agent \in Named
<1>1. {"operator", "sprint4a"} \subseteq DOMAIN files
  BY DEF SetupTypes
<1>2. ASSUME NEW f \in DOMAIN files, NEW i \in DOMAIN files[f] PROVE files[f][i].agent \in Named
  BY DEF Named
<1>3. files.operator # <<>> => 1 \in DOMAIN files["operator"]
  BY HeadIsThere DEF SetupTypes
<1>4. files.sprint4a # <<>> => 1 \in DOMAIN files["sprint4a"]
  BY HeadIsThere DEF SetupTypes
<1> QED
  BY <1>1, <1>2, <1>3, <1>4

\* As long as no setup died, every agent that a setup made is named by a state file, by a
\* quarantine record or by the setup that just made it, whatever was deleted and however
\* often setup and its repair ran.
THEOREM AgentsAreTracked == SetupSpec => []NoAgentIsLost
<1>1. SetupInv => NoAgentIsLost
  <2> SUFFICES ASSUME SetupInv, ~died, NEW a \in remote.made
               PROVE  a \in Named \/ (SetupAt("pilot") /\ setup.agent = a)
    BY DEF NoAgentIsLost
  <2>1. quarantined \subseteq Named
    BY DEF Named
  <2>2. CASE a \in quarantined
    BY <2>1, <2>2
  <2>3. CASE files.operator # <<>> /\ files.operator[1].agent = a
    BY <2>3, OperatorIsNamed DEF SetupInv
  <2>4. CASE setup.pc \in Provisioned /\ setup.agent = a
    BY <2>4, OperatorIsNamed DEF SetupInv, PilotByPlace
  <2> QED
    BY <2>2, <2>3, <2>4 DEF SetupInv, Tracked
<1> QED
  BY <1>1, SetupAlways, PTL

\* As long as no setup died, the operator state that setup reports and the pilot state
\* that the runs use name the same agent and environment between two setups.
THEOREM StatesAgree == SetupSpec => []FilesAgree
<1>1. SetupInv => FilesAgree
  BY DEF SetupInv, PilotByPlace, FilesAgree
<1> QED
  BY <1>1, SetupAlways, PTL

\* When the API answered and nothing was deleted meanwhile, a repair that ends in success
\* leaves a state that is stamped as validated and lives, but for the ids that step 3 took
\* over from a file without asking; whatever dead or torn files it began with.
THEOREM RepairTells == SetupSpec => []RepairLeavesLiveOrReused
<1>1. SetupInv => RepairLeavesLiveOrReused
  BY DEF SetupInv, CalmLives, AgentLives, EnvLives, RepairLeavesLiveOrReused
<1> QED
  BY <1>1, SetupAlways, PTL

------------------------------------------------------------------------------
(* The Stage 2C runner.                                                    *)

Texts == {"text"} \X Nat
Entries == {"none", "dir", "torn", "text"} \X Nat
Events == [target : Targets, allowed : BOOLEAN, content : Texts]
RunnerPlaces == {"start", "gates", "asked", "apply", "oracle", "receipt", "ended", "threw"}
Outcomes == NotAttempted \cup Attempted \cup {"none", "RUNNER_BLOCKED"}

Runners ==
  [pc : RunnerPlaces, opts : Options, gates : Gates, todo : Seq(Targets), n : Nat, events : Seq(Events),
   before : SUBSET {0, 1}, after : SUBSET {0, 1}, oracle : OracleStatuses \cup {"none"},
   input : Entries, outcome : Outcomes]

RunnerTypes ==
  /\ runner \in Runners
  /\ workspace \in [Inside -> Entries]
  /\ repo \in {0, 1}
  /\ apiCalls \in {0, 1}

\* Every path holds what the last allowed event on it wrote.
Told(files_, events) == \A t \in Inside : files_[t] # Dir => files_[t] = LastWrite(events, t)

\* Nobody has written yet.
NothingWritten == runner.events = <<>> /\ \A t \in Inside : workspace[t] = None

\* The deterministic agent's one action was tried: where it was not denied, the file the
\* oracle looks for first is the one it wrote.
FakeTried ==
  /\ Len(runner.events) = 1
  /\ LET e == runner.events[1] IN
       e.allowed => e.content = IF workspace["status"] # None THEN workspace["status"] ELSE workspace["notes"]

WorkspaceTold ==
  /\ runner.pc # "threw" => Told(workspace, runner.events)
  /\ runner.pc \in {"start", "gates", "asked"} => NothingWritten
  /\ Fake /\ RunnerAt("apply") =>
       \/ NothingWritten /\ \E t \in {"status", "notes", "outside"} : runner.todo = <<t>>
       \/ runner.todo = <<>> /\ FakeTried
  /\ RunnerAt("oracle") => FakeTried /\ ~Denied
  /\ runner.oracle # "none" => runner.pc \in {"receipt", "ended"}
  /\ RunnerAt("receipt") /\ runner.oracle # "none" => runner.input = runner.events[Len(runner.events)].content

AskedOnce ==
  /\ runner.pc \in {"start", "gates"} => apiCalls = 0
  /\ RunnerAt("asked") => Managed
  /\ apiCalls # 0 => apiCalls = 1 /\ ~runner.opts.dryRun /\ runner.gates.live
  /\ RunnerAt("receipt") /\ runner.outcome \notin Attempted => runner.events = <<>> /\ apiCalls = 0

ReceiptLast == receipt # {} => RunnerAt("ended") /\ ReceiptTellsTheWorkspace

RunnerInv == RunnerTypes /\ WorkspaceTold /\ AskedOnce /\ ReceiptLast

\* The paths a sequence of events was allowed to write, by the events.
Writes(events, t) == {i \in DOMAIN events : events[i].allowed /\ events[i].target = t}

\* A path that was written was last written by one of the events.
LEMMA LastWriteIsAWrite ==
  ASSUME NEW events \in Seq(Events), NEW t, Writes(events, t) # {}
  PROVE  (CHOOSE i \in Writes(events, t) : \A j \in Writes(events, t) : j <= i) \in Writes(events, t)
<1> DEFINE at == Writes(events, t)
           n == Len(events)
           T == {n - i : i \in at}
<1>1. n \in Nat /\ at \subseteq 1..n
  BY DEF Writes
<1> HIDE DEF n, at
<1>2. T \subseteq Nat /\ T # {}
  BY <1>1 DEF at
<1>3. PICK m \in T : \A k \in T : ~(<<k, m>> \in OpToRel(<, Nat))
  BY <1>2, NatLessThanWellFounded, WFMin
<1>4. PICK i \in at : m = n - i
  BY <1>3
<1>5. ASSUME NEW j \in at PROVE j <= i
  <2>1. n - j \in T /\ n - j \in Nat /\ m \in Nat
    BY <1>2, <1>3
  <2>2. ~(n - j < m)
    BY <1>3, <2>1 DEF OpToRel
  <2> QED
    BY <1>1, <1>4, <2>2
<1> QED
  BY <1>5 DEF at

\* One more event: an allowed one is the last on its path, and on no other.
LEMMA LastWriteOfAppend ==
  ASSUME NEW events \in Seq(Events), NEW e \in Events, NEW t
  PROVE  LastWrite(Append(events, e), t)
           = IF e.allowed /\ e.target = t THEN e.content ELSE LastWrite(events, t)
<1> DEFINE more == Append(events, e)
           n == Len(events)
<1>1. /\ n \in Nat /\ more \in Seq(Events) /\ Len(more) = n + 1 /\ more[n + 1] = e
      /\ DOMAIN events = 1..n /\ DOMAIN more = 1..(n + 1)
      /\ \A i \in 1..n : more[i] = events[i]
  OBVIOUS
<1> HIDE DEF more, n
<1>2. CASE e.allowed /\ e.target = t
  <2>1. n + 1 \in Writes(more, t) /\ \A j \in Writes(more, t) : j <= n + 1
    BY <1>1, <1>2 DEF Writes
  <2>2. \A i \in Writes(more, t) : (\A j \in Writes(more, t) : j <= i) => i = n + 1
    BY <1>1, <2>1 DEF Writes
  <2>3. (CHOOSE i \in Writes(more, t) : \A j \in Writes(more, t) : j <= i) = n + 1
    BY <2>1, <2>2
  <2>4. LastWrite(more, t) = e.content
    BY <1>1, <2>1, <2>3 DEF LastWrite, Writes
  <2> QED
    BY <1>2, <2>4 DEF more
<1>3. CASE ~(e.allowed /\ e.target = t)
  <2>1. Writes(more, t) = Writes(events, t) /\ Writes(events, t) \subseteq 1..n
    BY <1>1, <1>3 DEF Writes
  <2>2. LastWrite(more, t) = LastWrite(events, t)
    <3>1. CASE Writes(events, t) = {}
      BY <2>1, <3>1 DEF LastWrite, Writes
    <3>2. CASE Writes(events, t) # {}
      <4> DEFINE c == CHOOSE i \in Writes(events, t) : \A j \in Writes(events, t) : j <= i
      <4>1. c \in 1..n
        BY <2>1, <3>2, LastWriteIsAWrite
      <4>2. LastWrite(events, t) = events[c].content
        BY <3>2 DEF LastWrite, Writes
      <4>3. LastWrite(more, t) = more[c].content
        BY <2>1, <3>2 DEF LastWrite, Writes
      <4> QED
        BY <1>1, <4>1, <4>2, <4>3
    <3> QED
      BY <3>1, <3>2
  <2> QED
    BY <1>3, <2>2 DEF more
<1> QED
  BY <1>2, <1>3

\* Nothing was written where there is no event.
LEMMA NoEventNoWrite ==
  ASSUME NEW t
  PROVE  LastWrite(<<>>, t) = None
BY DEF LastWrite

LEMMA RunnerStarts == Stage2cInit => RunnerInv
<1> SUFFICES ASSUME Stage2cInit PROVE RunnerInv
  OBVIOUS
<1>1. PICK o \in Options, g \in Gates : runner = RunnerIdle(o, g)
  BY DEF Stage2cInit
<1>2. /\ runner.pc = "start" /\ runner.events = <<>> /\ runner.todo = <<>> /\ runner.oracle = "none"
      /\ workspace = [p \in Inside |-> None] /\ repo = 0 /\ apiCalls = 0 /\ receipt = {}
  BY <1>1 DEF RunnerIdle, Stage2cInit
<1>3. RunnerTypes
  <2>1. <<>> \in Seq(Targets) /\ <<>> \in Seq(Events) /\ {} \in SUBSET {0, 1} /\ None \in Entries
    BY DEF None, Entries
  <2>2. runner \in Runners
    BY <1>1, <2>1 DEF RunnerIdle, Runners, RunnerPlaces, Outcomes, OracleStatuses
  <2> QED
    BY <1>2, <2>1, <2>2 DEF RunnerTypes
<1>4. Told(workspace, runner.events) /\ NothingWritten
  BY <1>2, NoEventNoWrite DEF Told, NothingWritten
<1> QED
  BY <1>2, <1>3, <1>4 DEF RunnerInv, WorkspaceTold, AskedOnce, ReceiptLast, RunnerAt

\* A step of the runner that writes nothing and calls nothing, before the end.
Quiet ==
  /\ RunnerUnchanged
  /\ runner.pc \in RunnerPlaces \ {"ended", "threw"}
  /\ runner' \in Runners
  /\ runner'.opts = runner.opts /\ runner'.gates = runner.gates /\ runner'.events = runner.events

\* Nothing is told of the runner until it ends.
LEMMA QuietKeeps ==
  ASSUME RunnerInv, Quiet
  PROVE  /\ RunnerTypes' /\ ReceiptLast' /\ Told(workspace', runner'.events)
         /\ NothingWritten => NothingWritten'
         /\ FakeTried => FakeTried'
         /\ apiCalls' # 0 => apiCalls' = 1 /\ ~runner'.opts.dryRun /\ runner'.gates.live
<1>1. receipt = {} /\ receipt' = {}
  BY DEF RunnerInv, ReceiptLast, RunnerAt, Quiet, RunnerUnchanged
<1>2. RunnerTypes'
  BY DEF RunnerInv, RunnerTypes, Quiet, RunnerUnchanged
<1>3. Told(workspace', runner'.events)
  BY DEF RunnerInv, WorkspaceTold, Quiet, RunnerUnchanged
<1>4. /\ NothingWritten => NothingWritten'
      /\ FakeTried => FakeTried'
  BY DEF NothingWritten, FakeTried, Quiet, RunnerUnchanged
<1>5. apiCalls' # 0 => apiCalls' = 1 /\ ~runner'.opts.dryRun /\ runner'.gates.live
  BY DEF RunnerInv, AskedOnce, Quiet, RunnerUnchanged
<1> QED
  BY <1>1, <1>2, <1>3, <1>4, <1>5 DEF ReceiptLast

\* The repository's hash, or none.
LEMMA HashIsTyped == RunnerTypes => RepoHash \subseteq SUBSET {0, 1}
BY DEF RunnerTypes, RepoHash

\* A report from a place where no agent was asked.
LEMMA GateReports ==
  ASSUME RunnerInv, RunnerAt("gates"), Skeleton \/ NotEnabled \/ MissingCredentials \/ NoAdapter
  PROVE  RunnerInv'
<1>1. PICK b \in SUBSET {0, 1}, a \in SUBSET {0, 1}, o \in NotAttempted :
        runner' = [runner EXCEPT !.before = b, !.after = a, !.pc = "receipt", !.outcome = o]
  <2>0. runner \in Runners /\ RepoHash \subseteq SUBSET {0, 1}
    BY HashIsTyped DEF RunnerInv, RunnerTypes
  <2>1. CASE Skeleton
    <3>1. runner' = [runner EXCEPT !.before = runner.before, !.after = runner.after, !.pc = "receipt",
                                   !.outcome = "SKELETON_NO_AGENT_EXECUTION"]
      BY <2>0, <2>1 DEF Skeleton, Report, Runners
    <3> QED
      BY <2>0, <3>1 DEF NotAttempted, Runners
  <2>2. CASE NotEnabled
    <3>1. PICK h \in RepoHash :
            runner' = [[runner EXCEPT !.before = h] EXCEPT !.pc = "receipt",
                                                           !.outcome = "MANAGED_AGENT_BLOCKED_NOT_ENABLED"]
      BY <2>2 DEF NotEnabled, Report
    <3>2. runner' = [runner EXCEPT !.before = h, !.after = runner.after, !.pc = "receipt",
                                   !.outcome = "MANAGED_AGENT_BLOCKED_NOT_ENABLED"]
      BY <2>0, <3>1 DEF Runners
    <3> QED
      BY <2>0, <3>2 DEF NotAttempted, Runners
  <2>3. CASE MissingCredentials
    BY <2>0, <2>3 DEF MissingCredentials, Report, Runners, NotAttempted
  <2>4. CASE NoAdapter
    BY <2>0, <2>4 DEF NoAdapter, Report, Runners, NotAttempted
  <2> QED
    BY <2>1, <2>2, <2>3, <2>4
<1>2. /\ runner' \in Runners /\ runner'.pc = "receipt" /\ runner'.outcome = o /\ runner'.opts = runner.opts
      /\ runner'.gates = runner.gates /\ runner'.events = runner.events /\ runner'.oracle = runner.oracle
      /\ runner.pc = "gates"
  BY <1>1 DEF RunnerInv, RunnerTypes, Runners, RunnerPlaces, Outcomes, RunnerAt
<1>3. Quiet
  BY <1>2 DEF Quiet, Skeleton, NotEnabled, MissingCredentials, NoAdapter, RunnerPlaces
<1>4. NothingWritten /\ apiCalls = 0 /\ apiCalls' = 0 /\ runner.oracle = "none"
  BY <1>2, <1>3 DEF RunnerInv, WorkspaceTold, AskedOnce, Quiet, RunnerUnchanged
<1>5. WorkspaceTold'
  BY <1>2, <1>3, <1>4, QuietKeeps DEF WorkspaceTold, RunnerAt
<1>6. AskedOnce'
  BY <1>2, <1>3, <1>4, QuietKeeps DEF AskedOnce, RunnerAt, NothingWritten
<1> QED
  BY <1>3, <1>5, <1>6, QuietKeeps DEF RunnerInv

\* The steps up to the first proposed action.
LEMMA OpeningKeeps ==
  ASSUME RunnerInv, Start \/ StartFakeAgent \/ Answer \/ RunAdapter
  PROVE  RunnerInv'
<1>0. runner \in Runners /\ RepoHash \subseteq SUBSET {0, 1}
  BY HashIsTyped DEF RunnerInv, RunnerTypes
<1>1. CASE Start
  <2>1. /\ runner' \in Runners /\ runner'.pc \in {"ended", "gates"} /\ runner'.opts = runner.opts
        /\ runner'.gates = runner.gates /\ runner'.events = runner.events /\ runner'.oracle = runner.oracle
        /\ runner.pc = "start"
    <3>1. runner' \in Runners /\ runner'.pc \in {"ended", "gates"}
      <4>1. CASE runner' = [runner EXCEPT !.pc = "ended", !.outcome = "RUNNER_BLOCKED"]
        BY <1>0, <4>1 DEF Runners, RunnerPlaces, Outcomes
      <4>2. CASE runner' = [runner EXCEPT !.pc = "gates"]
        BY <1>0, <4>2 DEF Runners, RunnerPlaces
      <4> QED
        BY <1>1, <4>1, <4>2 DEF Start
    <3>2. /\ runner'.opts = runner.opts /\ runner'.gates = runner.gates
          /\ runner'.events = runner.events /\ runner'.oracle = runner.oracle /\ runner.pc = "start"
      BY <1>0, <1>1 DEF Start, RunnerAt, Runners, RunnerPlaces, Outcomes
    <3> QED
      BY <3>1, <3>2
  <2>2. Quiet
    BY <1>1, <2>1 DEF Quiet, Start, RunnerPlaces
  <2>3. NothingWritten /\ apiCalls = 0 /\ apiCalls' = 0 /\ runner.oracle = "none"
    BY <2>1, <2>2 DEF RunnerInv, WorkspaceTold, AskedOnce, Quiet, RunnerUnchanged
  <2>4. WorkspaceTold' /\ AskedOnce'
    BY <2>1, <2>2, <2>3, QuietKeeps DEF WorkspaceTold, AskedOnce, RunnerAt
  <2> QED
    BY <2>2, <2>4, QuietKeeps DEF RunnerInv
<1>2. CASE StartFakeAgent
  <2>1. PICK h \in SUBSET {0, 1}, t \in {"status", "notes", "outside"} :
          runner' = [runner EXCEPT !.pc = "apply", !.todo = <<t>>, !.before = h]
    BY <1>0, <1>2 DEF StartFakeAgent
  <2>2. <<t>> \in Seq(Targets)
    BY DEF Targets, Inside
  <2>3. /\ runner' \in Runners /\ runner'.pc = "apply" /\ runner'.opts = runner.opts /\ runner'.todo = <<t>>
        /\ runner'.gates = runner.gates /\ runner'.events = runner.events /\ runner'.oracle = runner.oracle
        /\ runner.pc = "gates"
    BY <1>0, <1>2, <2>1, <2>2 DEF StartFakeAgent, RunnerAt, Runners, RunnerPlaces
  <2>4. Quiet
    BY <1>2, <2>3 DEF Quiet, StartFakeAgent, RunnerPlaces
  <2>5. NothingWritten /\ NothingWritten' /\ runner.oracle = "none"
    BY <2>3, <2>4, QuietKeeps DEF RunnerInv, WorkspaceTold
  <2>6. WorkspaceTold' /\ AskedOnce'
    BY <2>3, <2>4, <2>5, QuietKeeps DEF WorkspaceTold, AskedOnce, RunnerAt
  <2> QED
    BY <2>4, <2>6, QuietKeeps DEF RunnerInv
<1>3. CASE Answer
  <2>1. PICK todo \in Actions : runner' = [runner EXCEPT !.pc = "apply", !.todo = todo]
    BY <1>3 DEF Answer
  <2>2. todo \in Seq(Targets)
    BY Stage2cAssumption DEF Actions
  <2>3. /\ runner' \in Runners /\ runner'.pc = "apply" /\ runner'.opts = runner.opts
        /\ runner'.gates = runner.gates /\ runner'.events = runner.events /\ runner'.oracle = runner.oracle
        /\ runner.pc = "asked"
    BY <1>0, <1>3, <2>1, <2>2 DEF Answer, RunnerAt, Runners, RunnerPlaces
  <2>4. Quiet
    BY <1>3, <2>3 DEF Quiet, Answer, RunnerPlaces
  <2>5. NothingWritten /\ NothingWritten' /\ runner.oracle = "none"
    BY <2>3, <2>4, QuietKeeps DEF RunnerInv, WorkspaceTold
  <2>6. ~Fake'
    BY <2>3 DEF RunnerInv, AskedOnce, Managed, Fake, RunnerAt
  <2>7. WorkspaceTold' /\ AskedOnce'
    BY <2>3, <2>4, <2>5, <2>6, QuietKeeps DEF WorkspaceTold, AskedOnce, RunnerAt
  <2> QED
    BY <2>4, <2>7, QuietKeeps DEF RunnerInv
<1>4. CASE RunAdapter
  <2>1. PICK h \in SUBSET {0, 1} : runner' = [runner EXCEPT !.pc = "asked", !.before = h]
    BY <1>0, <1>4 DEF RunAdapter
  <2>2. /\ runner' \in Runners /\ runner'.pc = "asked" /\ runner'.opts = runner.opts
        /\ runner'.gates = runner.gates /\ runner'.events = runner.events /\ runner'.oracle = runner.oracle
        /\ runner.pc = "gates" /\ Managed /\ runner.gates.live
        /\ workspace' = workspace /\ repo' = repo /\ receipt' = receipt
    BY <1>0, <1>4, <2>1 DEF RunAdapter, RunnerAt, Runners, RunnerPlaces
  <2>3. apiCalls = 0 /\ apiCalls' = 1 /\ receipt = {} /\ NothingWritten /\ runner.oracle = "none"
    <3>1. apiCalls = 0
      BY <2>2 DEF RunnerInv, AskedOnce
    <3>2. apiCalls' = apiCalls + 1
      BY <1>4 DEF RunAdapter
    <3>3. receipt = {}
      BY <2>2 DEF RunnerInv, ReceiptLast, RunnerAt
    <3>4. NothingWritten /\ runner.oracle = "none"
      BY <2>2 DEF RunnerInv, WorkspaceTold
    <3> QED
      BY <3>1, <3>2, <3>3, <3>4
  <2>4. Managed' /\ ~runner'.opts.dryRun /\ ~Fake' /\ NothingWritten'
    BY <2>2, <2>3 DEF Managed, Fake, NothingWritten
  <2>5. RunnerTypes' /\ ReceiptLast' /\ AskedOnce'
    BY <2>2, <2>3, <2>4 DEF RunnerInv, RunnerTypes, ReceiptLast, AskedOnce, RunnerAt
  <2>6. WorkspaceTold'
    BY <2>2, <2>3, <2>4 DEF RunnerInv, WorkspaceTold, RunnerAt
  <2> QED
    BY <2>5, <2>6 DEF RunnerInv
<1> QED
  BY <1>1, <1>2, <1>3, <1>4

\* An answer that is none.
LEMMA InvalidKeeps == RunnerInv /\ InvalidResponse => RunnerInv'
<1> SUFFICES ASSUME RunnerInv, InvalidResponse PROVE RunnerInv'
  OBVIOUS
<1>0. runner \in Runners /\ RepoHash \subseteq SUBSET {0, 1}
  BY HashIsTyped DEF RunnerInv, RunnerTypes
<1>1. PICK k \in SUBSET {0, 1} :
        runner' = [[runner EXCEPT !.after = k] EXCEPT !.pc = "receipt",
                                                      !.outcome = "MANAGED_AGENT_ADAPTER_INVALID_RESPONSE"]
  BY <1>0 DEF InvalidResponse, Report
<1>2. /\ runner' \in Runners /\ runner'.pc = "receipt" /\ runner'.opts = runner.opts
      /\ runner'.outcome \in Attempted
      /\ runner'.gates = runner.gates /\ runner'.events = runner.events /\ runner'.oracle = runner.oracle
      /\ runner.pc = "asked"
  BY <1>0, <1>1 DEF InvalidResponse, RunnerAt, Runners, RunnerPlaces, Outcomes, Attempted
<1>3. Quiet
  BY <1>2 DEF Quiet, InvalidResponse, RunnerPlaces
<1>4. runner.oracle = "none"
  BY <1>2 DEF RunnerInv, WorkspaceTold
<1>5. WorkspaceTold' /\ AskedOnce'
  BY <1>2, <1>3, <1>4, QuietKeeps DEF WorkspaceTold, AskedOnce, RunnerAt
<1> QED
  BY <1>3, <1>5, QuietKeeps DEF RunnerInv

\* All actions were tried: what is reported, or given to the oracle.
LEMMA DoneKeeps ==
  ASSUME RunnerInv, FakeAgentDone \/ AdapterDone
  PROVE  RunnerInv'
<1>0. runner \in Runners /\ RepoHash \subseteq SUBSET {0, 1}
  BY HashIsTyped DEF RunnerInv, RunnerTypes
<1>1. PICK k \in SUBSET {0, 1}, o \in Attempted :
        \/ runner' = [[runner EXCEPT !.after = k] EXCEPT !.pc = "receipt", !.outcome = o]
        \/ runner' = [[runner EXCEPT !.after = k] EXCEPT !.pc = "oracle"] /\ ~Denied /\ Fake
  <2>1. CASE FakeAgentDone
    BY <1>0, <2>1 DEF FakeAgentDone, Report, Attempted
  <2>2. CASE AdapterDone
    BY <1>0, <2>2 DEF AdapterDone, Report, Attempted
  <2> QED
    BY <2>1, <2>2
<1>2. /\ runner' \in Runners /\ runner'.opts = runner.opts
      /\ \/ runner'.pc = "receipt" /\ runner'.outcome \in Attempted
         \/ runner'.pc = "oracle" /\ ~Denied /\ Fake
      /\ runner'.gates = runner.gates /\ runner'.events = runner.events /\ runner'.oracle = runner.oracle
      /\ runner.pc = "apply" /\ runner.todo = <<>>
  <2>1. runner.pc = "apply" /\ runner.todo = <<>>
    BY DEF FakeAgentDone, AdapterDone, RunnerAt
  <2>2. CASE runner' = [[runner EXCEPT !.after = k] EXCEPT !.pc = "receipt", !.outcome = o]
    BY <1>0, <2>1, <2>2 DEF Runners, RunnerPlaces, Outcomes
  <2>3. CASE runner' = [[runner EXCEPT !.after = k] EXCEPT !.pc = "oracle"] /\ ~Denied /\ Fake
    BY <1>0, <2>1, <2>3 DEF Runners, RunnerPlaces
  <2> QED
    BY <1>1, <2>2, <2>3
<1>3. Quiet
  BY <1>2 DEF Quiet, FakeAgentDone, AdapterDone, RunnerPlaces
<1>4. runner.oracle = "none"
  BY <1>2 DEF RunnerInv, WorkspaceTold
<1>5. Fake => FakeTried
  <2>1. \A t : <<t>> # <<>>
    OBVIOUS
  <2> QED
    BY <1>2, <2>1 DEF RunnerInv, WorkspaceTold, RunnerAt
<1>6. runner'.pc = "oracle" => FakeTried' /\ ~Denied'
  BY <1>2, <1>3, <1>5, QuietKeeps DEF Denied
<1>7. WorkspaceTold' /\ AskedOnce'
  BY <1>2, <1>3, <1>4, <1>6, QuietKeeps DEF WorkspaceTold, AskedOnce, RunnerAt
<1> QED
  BY <1>3, <1>7, QuietKeeps DEF RunnerInv

\* The oracle is given the file that the one action wrote.
LEMMA OracleKeeps == RunnerInv /\ EvaluateOracle => RunnerInv'
<1> SUFFICES ASSUME RunnerInv, EvaluateOracle PROVE RunnerInv'
  OBVIOUS
<1> DEFINE judged == IF workspace["status"] # None THEN workspace["status"] ELSE workspace["notes"]
<1>0. runner \in Runners /\ judged \in Entries
  BY DEF RunnerInv, RunnerTypes, Inside
<1>1. PICK o \in OracleStatuses :
        runner' = [[runner EXCEPT !.oracle = o, !.input = judged]
                     EXCEPT !.pc = "receipt", !.outcome = "FAKE_AGENT_ORACLE_EVALUATED"]
  BY DEF EvaluateOracle, Report
<1>2. runner.pc = "oracle" /\ Len(runner.events) = 1 /\ runner.events[1].content = judged
  BY DEF RunnerInv, WorkspaceTold, FakeTried, Denied, EvaluateOracle, RunnerAt
<1> HIDE DEF judged
<1>3. /\ runner' \in Runners /\ runner'.opts = runner.opts /\ runner'.pc = "receipt"
      /\ runner'.outcome \in Attempted /\ runner'.input = judged
      /\ runner'.gates = runner.gates /\ runner'.events = runner.events
  BY <1>0, <1>1 DEF Runners, RunnerPlaces, Outcomes, Attempted
<1>4. Quiet
  BY <1>2, <1>3 DEF Quiet, EvaluateOracle, RunnerPlaces
<1>5. runner'.input = runner'.events[Len(runner'.events)].content
  BY <1>2, <1>3
<1>6. WorkspaceTold' /\ AskedOnce'
  BY <1>3, <1>4, <1>5, QuietKeeps DEF WorkspaceTold, AskedOnce, RunnerAt
<1> QED
  BY <1>4, <1>6, QuietKeeps DEF RunnerInv

\* One action, denied or written: the event that tells of it, and the file.
LEMMA EventTold ==
  ASSUME RunnerInv, RunnerAt("apply"), NEW t \in Targets, NEW allowed \in BOOLEAN, NEW events,
         events = Append(runner.events, Event(t, allowed)),
         \/ ~allowed /\ workspace' = workspace
         \/ allowed /\ t \in Inside /\ Writable(t) /\ workspace' = Written(t)
  PROVE  /\ events \in Seq(Events) /\ workspace' \in [Inside -> Entries]
         /\ Told(workspace', events)
<1> DEFINE e == Event(t, allowed)
<1>1. /\ runner.events \in Seq(Events) /\ e \in Events /\ e.allowed = allowed /\ e.target = t
      /\ e.content = Text(runner.n) /\ Text(runner.n) \in Entries
      /\ workspace \in [Inside -> Entries]
  BY DEF RunnerInv, RunnerTypes, Runners, Event, Events, Texts, Text, Entries
<1>2. Told(workspace, runner.events)
  BY DEF RunnerInv, WorkspaceTold, RunnerAt
<1>3. \A u : LastWrite(events, u) = IF allowed /\ t = u THEN Text(runner.n) ELSE LastWrite(runner.events, u)
  BY <1>1, LastWriteOfAppend
<1>4. events \in Seq(Events)
  BY <1>1
<1>5. CASE ~allowed
  BY <1>1, <1>2, <1>3, <1>4, <1>5 DEF Told
<1>6. CASE allowed
  <2>1. Dir \in Entries /\ "src" \in Inside /\ "status" \in Inside /\ t \in Inside
    BY <1>6 DEF Dir, Entries, Inside
  <2>2. workspace' \in [Inside -> Entries]
    BY <1>1, <1>6, <2>1 DEF Written
  <2>3. \A u \in Inside : \/ u = t /\ workspace'[u] = Text(runner.n)
                          \/ u # t /\ workspace'[u] \in {workspace[u], Dir} /\ (workspace'[u] # Dir => workspace'[u] = workspace[u])
    BY <1>1, <1>6, <2>1 DEF Written
  <2>4. Told(workspace', events)
    BY <1>2, <1>3, <1>6, <2>3 DEF Told
  <2> QED
    BY <1>4, <2>2, <2>4
<1> QED
  BY <1>5, <1>6

\* The deterministic agent's action is the only one, on an empty workspace.
LEMMA FakeActs ==
  ASSUME RunnerInv, RunnerAt("apply"), Fake, NEW t \in Targets, NEW allowed \in BOOLEAN, Len(runner.todo) > 0,
         t = Head(runner.todo), runner'.events = Append(runner.events, Event(t, allowed)),
         runner'.todo = Tail(runner.todo),
         \/ ~allowed
         \/ allowed /\ t \in Inside /\ workspace' = Written(t)
  PROVE  runner'.todo = <<>> /\ FakeTried'
<1>1. PICK u \in {"status", "notes", "outside"} : runner.todo = <<u>>
  BY DEF RunnerInv, WorkspaceTold
<1>2. NothingWritten
  BY DEF RunnerInv, WorkspaceTold
<1>3. t = u /\ runner'.todo = <<>>
  BY <1>1
<1>4. Len(runner'.events) = 1 /\ runner'.events[1] = Event(t, allowed)
  BY <1>2 DEF NothingWritten
<1>5. ASSUME allowed
      PROVE  Text(runner.n) = IF workspace'["status"] # None THEN workspace'["status"] ELSE workspace'["notes"]
  <2>1. workspace \in [Inside -> Entries] /\ \A v \in Inside : workspace[v] = None
    BY <1>2 DEF RunnerInv, RunnerTypes, NothingWritten
  <2>2. CASE t = "status"
    BY <1>5, <2>1, <2>2 DEF Written, Inside, Text, None
  <2>3. CASE t = "notes"
    BY <1>5, <2>1, <2>3 DEF Written, Inside, Text, None
  <2> QED
    BY <1>3, <1>5, <2>2, <2>3 DEF Inside
<1>6. FakeTried'
  BY <1>4, <1>5 DEF FakeTried, Event
<1> QED
  BY <1>3, <1>6

LEMMA ActionKeeps == RunnerInv /\ ApplyAction => RunnerInv'
<1> SUFFICES ASSUME RunnerInv, ApplyAction PROVE RunnerInv'
  OBVIOUS
<1> DEFINE t == Head(runner.todo)
<1>1. /\ runner \in Runners /\ runner.pc = "apply" /\ runner.todo # <<>> /\ t \in Targets
      /\ Len(runner.todo) > 0 /\ Tail(runner.todo) \in Seq(Targets) /\ runner.n \in Nat
  BY DEF RunnerInv, RunnerTypes, Runners, ApplyAction, RunnerAt
<1>2. receipt = {} /\ runner.oracle = "none" /\ repo' = repo /\ apiCalls' = apiCalls /\ receipt' = receipt
  BY <1>1 DEF RunnerInv, ReceiptLast, WorkspaceTold, RunnerAt, ApplyAction
<1>3. CASE runner' = [runner EXCEPT !.pc = "threw"]
  <2>1. /\ runner' \in Runners /\ runner'.pc = "threw" /\ runner'.opts = runner.opts
        /\ runner'.gates = runner.gates /\ runner'.events = runner.events /\ runner'.oracle = runner.oracle
    BY <1>1, <1>3 DEF Runners, RunnerPlaces
  <2>2. workspace' \in [Inside -> Entries]
    <3>1. /\ workspace \in [Inside -> Entries] /\ Text(runner.n) \in Entries /\ Dir \in Entries /\ Torn \in Entries
          /\ "src" \in Inside
      BY <1>1 DEF RunnerInv, RunnerTypes, Text, Dir, Torn, Entries, Inside
    <3>2. Written(t) \in [Inside -> Entries]
      BY <3>1 DEF Written
    <3>3. \/ workspace' \in {workspace, Written(t), [Written(t) EXCEPT ![t] = Torn]}
      BY DEF ApplyAction, Next1
    <3> QED
      BY <3>1, <3>2, <3>3
  <2>3. RunnerTypes' /\ ReceiptLast'
    BY <1>2, <2>1, <2>2 DEF RunnerInv, RunnerTypes, ReceiptLast
  <2>4. WorkspaceTold' /\ AskedOnce'
    BY <1>2, <2>1 DEF RunnerInv, WorkspaceTold, AskedOnce, RunnerAt
  <2> QED
    BY <2>3, <2>4 DEF RunnerInv
<1>4. CASE runner' # [runner EXCEPT !.pc = "threw"]
  <2>1. PICK allowed \in BOOLEAN :
          /\ Next1(t, allowed)
          /\ \/ ~allowed /\ workspace' = workspace
             \/ allowed /\ t \in Inside /\ Writable(t) /\ workspace' = Written(t)
    BY <1>4 DEF ApplyAction, WithinBoundary
  <2> DEFINE events == Append(runner.events, Event(t, allowed))
             m == runner.n + 1
             rest == Tail(runner.todo)
  <2>2. /\ events \in Seq(Events) /\ workspace' \in [Inside -> Entries]
        /\ Told(workspace', events)
    BY <1>1, <2>1, EventTold DEF RunnerAt
  <2>3. runner' = [runner EXCEPT !.todo = rest, !.n = m, !.events = events]
    BY <1>1, <2>1 DEF Next1, Runners
  <2>4. m \in Nat /\ rest \in Seq(Targets)
    BY <1>1
  <2>5. /\ runner' \in Runners /\ runner'.pc = "apply" /\ runner'.opts = runner.opts
        /\ runner'.gates = runner.gates /\ runner'.events = events /\ runner'.oracle = runner.oracle
        /\ runner'.todo = rest
    <3> HIDE DEF events, m, rest
    <3> QED
      BY <1>1, <2>2, <2>3, <2>4 DEF Runners
  <2>6. RunnerTypes' /\ ReceiptLast'
    BY <1>2, <2>2, <2>5 DEF RunnerInv, RunnerTypes, ReceiptLast
  <2>7. AskedOnce'
    BY <1>2, <2>5 DEF RunnerInv, AskedOnce, RunnerAt
  <2>8. Fake => rest = <<>> /\ FakeTried'
    BY <1>1, <2>1, <2>5, FakeActs DEF RunnerAt
  <2>9. WorkspaceTold'
    <3>1. Fake' = Fake
      BY <2>5 DEF Fake
    <3>2. Told(workspace', runner'.events)
      BY <2>2, <2>5
    <3> HIDE DEF events, m, rest
    <3> QED
      BY <1>2, <2>5, <2>8, <3>1, <3>2 DEF WorkspaceTold, RunnerAt
  <2> QED
    BY <2>6, <2>7, <2>9 DEF RunnerInv
<1> QED
  BY <1>3, <1>4

\* The receipt is of the run that ends, and nothing changes after it.
LEMMA WriteKeeps == RunnerInv /\ WriteReceipt => RunnerInv'
<1> SUFFICES ASSUME RunnerInv, WriteReceipt PROVE RunnerInv'
  OBVIOUS
<1>1. PICK o \in Outcomes :
        /\ runner' = [runner EXCEPT !.pc = "ended", !.outcome = o]
        /\ receipt' = {Receipt(runner)} \/ receipt' = receipt
  <2>1. CASE runner' = [runner EXCEPT !.pc = "ended"] /\ receipt' = {Receipt(runner)}
    <3>1. runner' = [runner EXCEPT !.pc = "ended", !.outcome = runner.outcome] /\ runner.outcome \in Outcomes
      BY <2>1 DEF RunnerInv, RunnerTypes, Runners
    <3> QED
      BY <2>1, <3>1
  <2>2. CASE runner' = [runner EXCEPT !.pc = "ended", !.outcome = "RUNNER_BLOCKED"] /\ UNCHANGED receipt
    BY <2>2 DEF Outcomes
  <2> QED
    BY <2>1, <2>2 DEF WriteReceipt
<1>2. /\ runner' \in Runners /\ runner'.pc = "ended" /\ runner'.opts = runner.opts
      /\ runner'.gates = runner.gates /\ runner'.events = runner.events /\ runner'.oracle = runner.oracle
      /\ runner.pc = "receipt"
      /\ workspace' = workspace /\ repo' = repo /\ apiCalls' = apiCalls
  BY <1>1 DEF RunnerInv, RunnerTypes, Runners, RunnerPlaces, WriteReceipt, RunnerAt
<1>3. RunnerTypes' /\ WorkspaceTold' /\ AskedOnce'
  BY <1>2 DEF RunnerInv, RunnerTypes, WorkspaceTold, AskedOnce, RunnerAt
<1>4. ReceiptLast'
  <2>1. receipt = {}
    BY <1>2 DEF RunnerInv, ReceiptLast, RunnerAt
  <2>2. SUFFICES ASSUME receipt' = {Receipt(runner)} PROVE ReceiptTellsTheWorkspace'
    BY <1>1, <1>2, <2>1 DEF ReceiptLast, RunnerAt
  <2>3. \A u \in Inside : workspace[u] # Dir => workspace[u] = LastWrite(runner.events, u)
    BY <1>2 DEF RunnerInv, WorkspaceTold, Told
  <2>4. runner.outcome \notin Attempted => runner.events = <<>> /\ apiCalls = 0
    BY <1>2 DEF RunnerInv, AskedOnce, RunnerAt
  <2>5. runner.oracle # "none" => runner.input = runner.events[Len(runner.events)].content
    BY <1>2 DEF RunnerInv, WorkspaceTold, RunnerAt
  <2>6. apiCalls # 0 => apiCalls = 1 /\ ~runner.opts.dryRun /\ runner.gates.live
    BY DEF RunnerInv, AskedOnce
  <2>7. \A q \in receipt' :
          /\ q.events = runner.events /\ q.attempted = (runner.outcome \in Attempted)
          /\ q.oracle = runner.oracle /\ q.input = runner.input
    BY <2>2 DEF Receipt
  <2> QED
    BY <1>2, <2>3, <2>4, <2>5, <2>6, <2>7 DEF ReceiptTellsTheWorkspace
<1> QED
  BY <1>3, <1>4 DEF RunnerInv

\* The runner keeps its hands off the repository, and the user's edits off the run.
LEMMA EditKeeps == RunnerInv /\ EditRepo => RunnerInv'
BY DEF RunnerInv, RunnerTypes, WorkspaceTold, NothingWritten, FakeTried, Denied, Told, Fake, Managed, AskedOnce, ReceiptLast,
       ReceiptTellsTheWorkspace, RunnerAt, EditRepo

LEMMA RunnerKeeps == RunnerInv /\ [Stage2cNext]_stage2cVars => RunnerInv'
<1> SUFFICES ASSUME RunnerInv, [Stage2cNext]_stage2cVars PROVE RunnerInv'
  OBVIOUS
<1>1. CASE UNCHANGED stage2cVars
  BY <1>1 DEF stage2cVars, RunnerInv, RunnerTypes, WorkspaceTold, NothingWritten, FakeTried, Denied, Told, Fake, Managed,
              AskedOnce, ReceiptLast, ReceiptTellsTheWorkspace, RunnerAt
<1>2. CASE Skeleton \/ NotEnabled \/ MissingCredentials \/ NoAdapter
  <2>1. RunnerAt("gates")
    BY <1>2 DEF Skeleton, NotEnabled, MissingCredentials, NoAdapter
  <2> QED
    BY <1>2, <2>1, GateReports
<1>3. CASE Start \/ StartFakeAgent \/ Answer \/ RunAdapter
  BY <1>3, OpeningKeeps
<1>4. CASE InvalidResponse \/ ApplyAction \/ EvaluateOracle \/ WriteReceipt \/ EditRepo
  BY <1>4, InvalidKeeps, ActionKeeps, OracleKeeps, WriteKeeps, EditKeeps
<1>5. CASE FakeAgentDone \/ AdapterDone
  BY <1>5, DoneKeeps
<1> QED
  BY <1>1, <1>2, <1>3, <1>4, <1>5 DEF Stage2cNext

\* For any number of proposed actions, of allowed and denied ones in any order, and of edits of
\* the repository meanwhile: a receipt tells what the workspace holds, whether an agent was
\* asked, and what the oracle judged (executeFakeAgent, runManagedAgent, the receipt of
\* stage2c-runner.ts).
THEOREM ReceiptIsTrue == Stage2cSpec => []ReceiptTellsTheWorkspace
<1>1. RunnerInv => ReceiptTellsTheWorkspace
  BY DEF RunnerInv, ReceiptLast, ReceiptTellsTheWorkspace
<1> QED
  BY RunnerStarts, RunnerKeeps, <1>1, PTL DEF Stage2cSpec

------------------------------------------------------------------------------
(* The approval probes.                                                    *)

ProbePlaces ==
  {"idle", "create", "open", "listen", "decided", "post", "confirm", "returned", "stopped", "done"}
ProbeStatuses ==
  {"none", "ERROR", "CONFORMANT", "ANOMALY", "INCONCLUSIVE", "passed", "failed", "returned"}
StreamEvents == [type : {"use", "asks", "end_turn", "terminated", "closed"}, use : Nat]
UseStates == {"pending", "allowed", "denied", "runs", "ran", "killed"}
Uses == [what : {"good", "bad"}, ok : BOOLEAN, state : UseStates]
SessionRecords == [status : {"none", "new", "running", "asking", "over"}, uses : Seq(Uses)]
Sessions == {"own", "other"}

Probes ==
  [kind : ProbeKinds, pc : ProbePlaces, turn : Seq(Nat), asked : BOOLEAN, confirmed : BOOLEAN,
   early : BOOLEAN, text : BOOLEAN, lists : Nat, reconnects : Nat, status : ProbeStatuses]

ProbeTypes ==
  /\ probe \in Probes
  /\ stream \in [open : BOOLEAN, events : Seq(StreamEvents)]
  /\ session \in SessionRecords
  /\ queue \subseteq Sessions
  /\ worker \in [pc : {"none", "polling", "working", "stopped"}, claims : Seq(Sessions), runs : Nat]
  /\ written \in [{"good", "bad"} -> Sessions \cup {"none"}]

\* Every tool use that is spoken of is one of the session.
UsesKnown ==
  /\ \A i \in DOMAIN probe.turn : probe.turn[i] \in DOMAIN session.uses
  /\ \A i \in DOMAIN stream.events :
       stream.events[i].type = "use" => stream.events[i].use \in DOMAIN session.uses
  /\ worker.runs # 0 =>
       worker.runs \in DOMAIN session.uses /\ session.uses[worker.runs].state = "runs"

\* What a tool wrote is there, and what is there was written by a tool that ran, or by
\* another session that the worker claimed.
Claimed(s) == \E i \in DOMAIN worker.claims : worker.claims[i] = s

WrittenByTools ==
  /\ \A t \in {"good", "bad"} : Ran(t) => Found(t)
  /\ \A t \in {"good", "bad"} : Found(t) => Ran(t) \/ Claimed("other")
  /\ worker.pc # "none" \/ worker.claims # <<>> => probe.kind \in SdkKinds
  /\ worker.pc = "working" => worker.claims # <<>>

\* A tool use that waits is not allowed yet.
PendingIsNotOk == \A i \in DOMAIN session.uses : session.uses[i].state = "pending" => ~session.uses[i].ok

Allowed == {i \in DOMAIN session.uses : session.uses[i].ok}

\* What the driver decided, by where it is.
DecidedByPlace ==
  /\ probe.pc \in {"idle", "create", "open"} => ~probe.confirmed
  /\ probe.pc \in {"decided", "post"} =>
       /\ probe.kind \in TurnKinds
       /\ probe.confirmed => probe.kind \in {"allow", "write", "smoke allow"}
       /\ probe.confirmed /\ probe.kind = "smoke allow" =>
            Len(probe.turn) = 1 /\ session.uses[probe.turn[1]].what = "good"
  /\ ProbeAt("confirm") => probe.kind \in AntKinds /\ probe.turn # <<>> /\ ~probe.confirmed
  /\ ProbeAt("stopped") => probe.kind \in SdkKinds /\ worker.pc = "stopped" /\ worker.runs = 0
  /\ probe.status # "none" => ProbeAt("done")
  /\ probe.kind = "smoke allow" /\ probe.confirmed /\ probe.pc \in {"listen", "returned"} => Allowed # {}
  /\ probe.kind = "ant allow" /\ ~probe.confirmed => Allowed = {}
  /\ probe.kind = "ant allow" => \A i, j \in Allowed : i = j
  /\ probe.kind = "smoke allow" => \A i \in Allowed : session.uses[i].what = "good"
  /\ probe.kind \in {"deny", "smoke deny", "ant deny"} => Allowed = {}

\* What was found, once it is found.
FoundAtTheEnd ==
  /\ probe.status = "CONFORMANT" =>
       /\ probe.kind \in {"allow", "deny", "write", "ant allow"}
       /\ probe.kind \in SdkKinds => worker.pc = "stopped" /\ worker.runs = 0
  /\ ConformantIsTrue
  /\ probe.kind = "smoke allow" /\ probe.status = "passed" => Allowed # {}

ProbeInv ==
  ProbeTypes /\ UsesKnown /\ WrittenByTools /\ PendingIsNotOk /\ DecidedByPlace /\ FoundAtTheEnd

\* A stream whose events speak of known tool uses.
Streams == [open : BOOLEAN, events : Seq(StreamEvents)]
Knows(str, uses) ==
  /\ str \in Streams
  /\ \A i \in DOMAIN str.events : str.events[i].type = "use" => str.events[i].use \in DOMAIN uses

LEMMA StreamsKnow ==
  ASSUME ProbeInv
  PROVE  /\ Knows(stream, session.uses)
         /\ Knows(OpenStream, session.uses)
         /\ Knows([open |-> FALSE, events |-> <<>>], session.uses)
         /\ stream.events # <<>> =>
              /\ Knows(Rest, session.uses)
              /\ NextEvent = "use" => Head(stream.events).use \in DOMAIN session.uses
<1>1. Knows(stream, session.uses)
  BY DEF ProbeInv, ProbeTypes, UsesKnown, Knows, Streams
<1>2. Knows(OpenStream, session.uses) /\ Knows([open |-> FALSE, events |-> <<>>], session.uses)
  <2>1. <<>> \in Seq(StreamEvents)
    OBVIOUS
  <2> QED
    BY <2>1 DEF Knows, Streams, OpenStream
<1>3. ASSUME stream.events # <<>>
      PROVE  /\ Knows(Rest, session.uses)
             /\ NextEvent = "use" => Head(stream.events).use \in DOMAIN session.uses
  <2> DEFINE ev == stream.events
             rest == Tail(ev)
  <2>1. ev \in Seq(StreamEvents) /\ Len(ev) > 0 /\ stream \in Streams
    BY <1>1, <1>3 DEF Knows, Streams
  <2>2. rest \in Seq(StreamEvents) /\ \A i \in DOMAIN rest : i + 1 \in DOMAIN ev /\ rest[i] = ev[i + 1]
    BY <2>1
  <2>3. Head(ev) = ev[1] /\ 1 \in DOMAIN ev
    BY <2>1
  <2>4. NextEvent = "use" => Head(stream.events).use \in DOMAIN session.uses
    BY <1>1, <2>3 DEF Knows, NextEvent
  <2>5. Knows(Rest, session.uses)
    <3>1. Rest = [stream EXCEPT !.events = rest]
      BY <2>1 DEF Rest, Streams
    <3>2. \A i \in DOMAIN rest : rest[i].type = "use" => rest[i].use \in DOMAIN session.uses
      BY <1>1, <2>2 DEF Knows
    <3> HIDE DEF rest, ev
    <3> QED
      BY <2>1, <2>2, <3>1, <3>2 DEF Knows, Streams
  <2> QED
    BY <2>4, <2>5
<1> QED
  BY <1>1, <1>2, <1>3

\* A step that leaves the tool uses, and the tools, alone.
Reads ==
  /\ session' \in SessionRecords /\ session'.uses = session.uses
  /\ queue' \subseteq Sessions
  /\ UNCHANGED <<worker, written>>
  /\ probe' \in Probes /\ probe'.kind = probe.kind
  /\ Knows(stream', session.uses)
  /\ \A i \in DOMAIN probe'.turn : probe'.turn[i] \in DOMAIN session.uses

LEMMA ReadsKeep ==
  ASSUME ProbeInv, Reads
  PROVE  /\ ProbeTypes' /\ UsesKnown' /\ WrittenByTools' /\ PendingIsNotOk' /\ Allowed' = Allowed
         /\ \A t \in {"good", "bad"} : Ran(t)' = Ran(t)
<1>1. ProbeTypes'
  BY DEF ProbeInv, ProbeTypes, Reads, Knows, Streams
<1>2. UsesKnown'
  BY DEF ProbeInv, UsesKnown, Reads, Knows
<1>3. WrittenByTools'
  BY DEF ProbeInv, WrittenByTools, Reads, Ran, Found, Claimed
<1>4. PendingIsNotOk' /\ Allowed' = Allowed
  BY DEF ProbeInv, PendingIsNotOk, Reads, Allowed
<1>5. \A t \in {"good", "bad"} : Ran(t)' = Ran(t)
  BY DEF Reads, Ran
<1> QED
  BY <1>1, <1>2, <1>3, <1>4, <1>5

\* It was not over, and is not: nothing is found yet, and what was decided stays decided.
Goes ==
  /\ probe'.status = "none" /\ probe'.confirmed = probe.confirmed
  /\ \/ probe.pc = "listen" /\ probe'.pc \in {"listen", "returned"}
     \/ probe.pc = "idle" /\ probe'.pc = "create"
     \/ probe.pc = "open" /\ probe'.pc = "listen"
     \/ probe.pc = "decided" /\ probe'.pc = "post" /\ probe'.turn = probe.turn
     \/ probe.pc = "listen" /\ probe'.pc = "confirm" /\ probe.kind \in AntKinds /\ probe'.turn # <<>> /\ ~probe.confirmed
     \/ probe.pc = "returned" /\ probe'.pc = "returned"

LEMMA ReadsOn ==
  ASSUME ProbeInv, Reads, Goes
  PROVE  ProbeInv'
<1>1. /\ ProbeTypes' /\ UsesKnown' /\ WrittenByTools' /\ PendingIsNotOk' /\ Allowed' = Allowed
      /\ \A t \in {"good", "bad"} : Ran(t)' = Ran(t)
  BY ReadsKeep
<1>2. FoundAtTheEnd'
  BY DEF FoundAtTheEnd, ConformantIsTrue, Goes
<1>3. DecidedByPlace'
  BY <1>1 DEF ProbeInv, DecidedByPlace, Reads, ProbeAt, Goes
<1> QED
  BY <1>1, <1>2, <1>3 DEF ProbeInv

\* The probe ends with what it found.
Ends ==
  /\ probe'.pc = "done" /\ probe'.confirmed = probe.confirmed
  /\ probe'.status = "CONFORMANT" =>
       /\ probe.kind \in {"allow", "deny", "write", "ant allow"}
       /\ probe.kind \in SdkKinds => worker.pc = "stopped" /\ worker.runs = 0
       /\ probe.kind = "deny" => ~Ran("good")
       /\ probe.kind = "allow" => Ran("good") \/ Len(worker.claims) > 1
       /\ probe.kind = "write" => Ran("good") \/ Ran("bad") \/ Len(worker.claims) > 1
       /\ probe.kind = "ant allow" => Ran("good")
  /\ probe.kind = "smoke allow" /\ probe'.status = "passed" => Allowed # {}

LEMMA ReadsEnd ==
  ASSUME ProbeInv, Reads, Ends
  PROVE  ProbeInv'
<1>1. /\ ProbeTypes' /\ UsesKnown' /\ WrittenByTools' /\ PendingIsNotOk' /\ Allowed' = Allowed
      /\ \A t \in {"good", "bad"} : Ran(t)' = Ran(t)
  BY ReadsKeep
<1>2. FoundAtTheEnd'
  <2>1. /\ worker' = worker /\ probe'.kind = probe.kind /\ (Ran("good")' <=> Ran("good")) /\ (Ran("bad")' <=> Ran("bad"))
    BY <1>1 DEF Reads
  <2>2. ConformantIsTrue'
    <3>1. CASE probe'.status # "CONFORMANT"
      BY <3>1 DEF ConformantIsTrue
    <3>2. CASE probe'.status = "CONFORMANT"
      <4>1. CASE probe.kind = "deny"
        BY <2>1, <3>2, <4>1 DEF ConformantIsTrue, Ends
      <4>2. CASE probe.kind = "allow"
        BY <2>1, <3>2, <4>2 DEF ConformantIsTrue, Ends
      <4>4. CASE probe.kind = "write"
        BY <2>1, <3>2, <4>4 DEF ConformantIsTrue, Ends
      <4>3. CASE probe.kind = "ant allow"
        BY <2>1, <3>2, <4>3 DEF ConformantIsTrue, Ends
      <4> QED
        BY <3>2, <4>1, <4>2, <4>3, <4>4 DEF Ends
    <3> QED
      BY <3>1, <3>2
  <2> QED
    BY <1>1, <2>1, <2>2 DEF FoundAtTheEnd, Ends
<1>3. DecidedByPlace'
  BY <1>1 DEF ProbeInv, DecidedByPlace, Reads, ProbeAt, Ends
<1> QED
  BY <1>1, <1>2, <1>3 DEF ProbeInv

\* The service's steps that use no tool.
LEMMA ServiceKeeps ==
  ASSUME ProbeInv, SessionAsks \/ SessionEnds \/ StreamCloses \/ OtherSession \/ SendMessage
  PROVE  ProbeInv'
<1>0. /\ probe \in Probes /\ stream \in Streams /\ session \in SessionRecords /\ queue \subseteq Sessions
  BY DEF ProbeInv, ProbeTypes, Streams
<1>1. \A ty \in {"asks", "end_turn", "terminated", "closed"} : Knows(Delivered(ty, 0), session.uses)
  <2> SUFFICES ASSUME NEW ty \in {"asks", "end_turn", "terminated", "closed"}
               PROVE  Knows(Delivered(ty, 0), session.uses)
    OBVIOUS
  <2> DEFINE e == StreamEvent(ty, 0)
             more == Append(stream.events, e)
  <2>1. e \in StreamEvents /\ e.type # "use"
    BY DEF StreamEvents, StreamEvent
  <2>2. /\ stream.events \in Seq(StreamEvents) /\ Knows(stream, session.uses)
    BY <1>0, StreamsKnow DEF Streams
  <2> HIDE DEF e
  <2>3. /\ more \in Seq(StreamEvents)
        /\ \A i \in DOMAIN more : more[i] = e \/ (i \in DOMAIN stream.events /\ more[i] = stream.events[i])
    BY <2>1, <2>2
  <2>4. \A i \in DOMAIN more : more[i].type = "use" => more[i].use \in DOMAIN session.uses
    BY <2>1, <2>2, <2>3 DEF Knows
  <2>5. Delivered(ty, 0) = IF stream.open THEN [stream EXCEPT !.events = more] ELSE stream
    BY <1>0 DEF Delivered, e, Streams
  <2> HIDE DEF more
  <2>6. CASE stream.open
    BY <1>0, <2>3, <2>4, <2>5, <2>6 DEF Knows, Streams
  <2>7. CASE ~stream.open
    BY <2>2, <2>5, <2>7
  <2> QED
    BY <2>6, <2>7
<1>2. Knows(stream', session.uses)
  <2>1. CASE SessionAsks
    BY <1>1, <2>1 DEF SessionAsks
  <2>2. CASE SessionEnds
    BY <1>1, <2>2 DEF SessionEnds
  <2>3. CASE StreamCloses
    BY <1>1, <2>3 DEF StreamCloses
  <2>4. CASE OtherSession \/ SendMessage
    BY <2>4, StreamsKnow DEF OtherSession, SendMessage
  <2> QED
    BY <2>1, <2>2, <2>3, <2>4
<1>3. session' \in SessionRecords /\ session'.uses = session.uses
  <2>1. CASE SessionAsks
    <3>1. session' = [session EXCEPT !.status = "asking"] \/ session' = session
      BY <2>1 DEF SessionAsks
    <3> QED
      BY <1>0, <3>1 DEF SessionRecords
  <2>2. CASE SessionEnds
    BY <1>0, <2>2 DEF SessionEnds, SessionRecords
  <2>3. CASE StreamCloses \/ OtherSession
    BY <1>0, <2>3 DEF StreamCloses, OtherSession
  <2>4. CASE SendMessage
    BY <1>0, <2>4 DEF SendMessage, SessionRecords
  <2> QED
    BY <2>1, <2>2, <2>3, <2>4
<1>4. queue' \subseteq Sessions /\ worker' = worker /\ written' = written
  BY <1>0 DEF SessionAsks, SessionEnds, StreamCloses, OtherSession, SendMessage, Sessions
<1>5. CASE SendMessage
  <2>1. probe' \in Probes /\ probe'.kind = probe.kind /\ probe'.turn = probe.turn /\ probe'.status = probe.status
        /\ probe'.confirmed = probe.confirmed /\ probe.pc = "open" /\ probe'.pc = "listen"
    BY <1>0, <1>5 DEF SendMessage, ProbeAt, ProbeGoes, Probes, ProbePlaces
  <2>2. Reads
    BY <1>2, <1>3, <1>4, <2>1 DEF Reads, ProbeInv, UsesKnown
  <2>3. Goes
    BY <2>1 DEF Goes, ProbeInv, DecidedByPlace, ProbeAt, ProbeTypes, Probes
  <2> QED
    BY <2>2, <2>3, ReadsOn
<1>6. CASE ~SendMessage
  <2>1. probe' = probe
    BY <1>6 DEF SessionAsks, SessionEnds, StreamCloses, OtherSession
  <2>2. Reads
    BY <1>0, <1>2, <1>3, <1>4, <2>1 DEF Reads, ProbeInv, UsesKnown
  <2>3. /\ ProbeTypes' /\ UsesKnown' /\ WrittenByTools' /\ PendingIsNotOk' /\ Allowed' = Allowed
        /\ (Ran("good")' <=> Ran("good")) /\ (Ran("bad")' <=> Ran("bad"))
    BY <2>2, ReadsKeep
  <2>4. DecidedByPlace'
    BY <1>3, <1>4, <2>1, <2>3 DEF ProbeInv, DecidedByPlace, ProbeAt
  <2>5. FoundAtTheEnd'
    BY <1>3, <1>4, <2>1, <2>3 DEF ProbeInv, FoundAtTheEnd, ConformantIsTrue
  <2> QED
    BY <2>3, <2>4, <2>5 DEF ProbeInv
<1> QED
  BY <1>5, <1>6

\* Before its end the probe has found nothing.
LEMMA NothingFound == ProbeInv /\ ~ProbeAt("done") => probe.status = "none"
BY DEF ProbeInv, DecidedByPlace

LEMMA QueueKeeps == ProbeInv /\ RequireQueueDrained => ProbeInv'
<1> SUFFICES ASSUME ProbeInv, RequireQueueDrained PROVE ProbeInv'
  OBVIOUS
<1>0. probe \in Probes /\ session \in SessionRecords /\ queue \subseteq Sessions /\ probe.pc = "idle"
  BY DEF ProbeInv, ProbeTypes, RequireQueueDrained, ProbeAt
<1>1. UNCHANGED <<stream, session, queue, worker, written>>
  BY DEF RequireQueueDrained
<1>2. CASE probe' = [probe EXCEPT !.pc = "done", !.status = "ERROR"]
  <2>1. /\ probe' \in Probes /\ probe'.kind = probe.kind /\ probe'.turn = probe.turn /\ probe'.confirmed = probe.confirmed
        /\ probe'.pc = "done" /\ probe'.status = "ERROR"
    BY <1>0, <1>2 DEF Probes, ProbePlaces, ProbeStatuses
  <2>2. Reads /\ Ends
    BY <1>0, <1>1, <2>1, StreamsKnow DEF Reads, Ends, ProbeInv, UsesKnown
  <2> QED
    BY <2>2, ReadsEnd
<1>3. CASE probe' = [probe EXCEPT !.pc = "create"]
  <2>1. /\ probe' \in Probes /\ probe'.kind = probe.kind /\ probe'.turn = probe.turn /\ probe'.confirmed = probe.confirmed
        /\ probe'.pc = "create" /\ probe'.status = "none"
    BY <1>0, <1>3, NothingFound DEF Probes, ProbePlaces, ProbeStatuses, ProbeAt
  <2>2. Reads /\ Goes
    BY <1>0, <1>1, <2>1, StreamsKnow DEF Reads, Goes, ProbeInv, UsesKnown
  <2> QED
    BY <2>2, ReadsOn
<1> QED
  BY <1>2, <1>3 DEF RequireQueueDrained, EndProbe, ProbeGoes

\* What the driver does with an event of the stream, but for the decision.
LEMMA EventKeeps ==
  ASSUME ProbeInv, OnToolUse \/ OnEnd \/ OnAntAsks \/ OnArtifact
  PROVE  ProbeInv'
<1>0. /\ probe \in Probes /\ session \in SessionRecords /\ queue \subseteq Sessions /\ probe.pc = "listen"
      /\ stream.events # <<>> /\ probe.status = "none"
  BY NothingFound DEF ProbeInv, ProbeTypes, OnToolUse, OnEnd, OnAntAsks, OnArtifact, ReadsStream, ProbeAt
<1>1. UNCHANGED <<session, queue, worker, written>>
  BY DEF OnToolUse, OnEnd, OnAntAsks, OnArtifact
<1>2. Knows(stream', session.uses)
  <2>1. CASE OnToolUse \/ OnAntAsks
    BY <1>0, <2>1, StreamsKnow DEF OnToolUse, OnAntAsks
  <2>2. CASE OnEnd \/ OnArtifact
    BY <2>2, StreamsKnow DEF OnEnd, OnArtifact
  <2> QED
    BY <2>1, <2>2
<1>3. /\ probe' \in Probes /\ probe'.kind = probe.kind /\ probe'.confirmed = probe.confirmed
      /\ probe'.status = "none"
      /\ \A i \in DOMAIN probe'.turn : probe'.turn[i] \in DOMAIN session.uses
      /\ \/ probe'.pc \in {"listen", "returned"}
         \/ probe'.pc = "confirm" /\ probe.kind \in AntKinds /\ probe'.turn # <<>> /\ ~probe.confirmed
  <2>0. \A i \in DOMAIN probe.turn : probe.turn[i] \in DOMAIN session.uses
    BY DEF ProbeInv, UsesKnown
  <2>1. CASE OnToolUse
    <3> DEFINE u == Head(stream.events).use
               turn == Append(probe.turn, u)
    <3>1. u \in DOMAIN session.uses /\ session.uses \in Seq(Uses) /\ probe.turn \in Seq(Nat)
      BY <1>0, <2>1, StreamsKnow DEF OnToolUse, SessionRecords, Probes
    <3>2. u \in Nat
      BY <3>1
    <3>3. probe' = [probe EXCEPT !.turn = turn]
      BY <1>0, <2>1 DEF OnToolUse, Probes
    <3> HIDE DEF u
    <3>4. turn \in Seq(Nat) /\ \A i \in DOMAIN turn : turn[i] \in DOMAIN session.uses
      BY <2>0, <3>1, <3>2
    <3> HIDE DEF turn
    <3> QED
      BY <1>0, <3>3, <3>4 DEF Probes
  <2>2. CASE OnEnd
    <3>1. PICK t \in BOOLEAN : probe' = [probe EXCEPT !.pc = "returned", !.text = t]
      BY <2>2 DEF OnEnd
    <3> QED
      BY <1>0, <2>0, <3>1 DEF Probes, ProbePlaces
  <2>3. CASE OnAntAsks
    <3> DEFINE early == written["good"] # "none"
    <3>1. \/ /\ probe' = [probe EXCEPT !.pc = "confirm", !.asked = TRUE, !.early = early]
             /\ probe.turn # <<>> /\ ~probe.confirmed /\ probe.kind \in AntKinds
          \/ probe' = [probe EXCEPT !.asked = TRUE]
      BY <2>3 DEF OnAntAsks, ReadsStream
    <3>2. early \in BOOLEAN
      OBVIOUS
    <3> HIDE DEF early
    <3> QED
      BY <1>0, <2>0, <3>1, <3>2 DEF Probes, ProbePlaces
  <2>4. CASE OnArtifact
    BY <1>0, <2>0, <2>4 DEF OnArtifact
  <2> QED
    BY <2>1, <2>2, <2>3, <2>4
<1>4. Reads
  BY <1>0, <1>1, <1>2, <1>3 DEF Reads
<1>5. Goes
  BY <1>0, <1>3 DEF Goes
<1> QED
  BY <1>4, <1>5, ReadsOn

\* The stream ends or is reopened; a call is refused.
LEMMA ClosedKeeps ==
  ASSUME ProbeInv, OnClosed \/ OnTerminal \/ EmptyCallRefused \/ Reopen
  PROVE  ProbeInv'
<1>0. /\ probe \in Probes /\ session \in SessionRecords /\ queue \subseteq Sessions
      /\ probe.status = "none"
  BY NothingFound DEF ProbeInv, ProbeTypes, OnClosed, OnTerminal, EmptyCallRefused, Reopen, ReadsStream, ProbeAt
<1>1. UNCHANGED <<session, queue, worker, written>>
  BY DEF OnClosed, OnTerminal, EmptyCallRefused, Reopen
<1>2. Knows(stream', session.uses)
  <2>1. CASE OnClosed \/ OnTerminal
    BY <2>1, StreamsKnow DEF OnClosed, OnTerminal, ReadsStream
  <2>2. CASE EmptyCallRefused \/ Reopen
    BY <2>2, StreamsKnow DEF EmptyCallRefused, Reopen
  <2> QED
    BY <2>1, <2>2
<1>3. CASE \E st \in {"returned", "ERROR"} : probe' = [probe EXCEPT !.pc = "done", !.status = st]
  <2>1. /\ probe' \in Probes /\ probe'.kind = probe.kind /\ probe'.turn = probe.turn /\ probe'.confirmed = probe.confirmed
        /\ probe'.pc = "done" /\ probe'.status \in {"returned", "ERROR"}
    BY <1>0, <1>3 DEF Probes, ProbePlaces, ProbeStatuses
  <2>2. Reads /\ Ends
    BY <1>0, <1>1, <1>2, <2>1 DEF Reads, Ends, ProbeInv, UsesKnown
  <2> QED
    BY <2>2, ReadsEnd
<1>4. CASE probe.pc = "decided" /\ probe' = [probe EXCEPT !.pc = "post"]
  <2>1. /\ probe' \in Probes /\ probe'.kind = probe.kind /\ probe'.turn = probe.turn /\ probe'.confirmed = probe.confirmed
        /\ probe'.pc = "post" /\ probe'.status = "none"
    BY <1>0, <1>4 DEF Probes, ProbePlaces
  <2>2. Reads /\ Goes
    BY <1>0, <1>1, <1>2, <1>4, <2>1 DEF Reads, Goes, ProbeInv, UsesKnown
  <2> QED
    BY <2>2, ReadsOn
<1>5. CASE probe.pc = "listen" /\ probe' = [probe EXCEPT !.reconnects = @ + 1]
  <2> DEFINE n == probe.reconnects + 1
  <2>0. n \in Nat /\ probe' = [probe EXCEPT !.reconnects = n]
    BY <1>0, <1>5 DEF Probes
  <2> HIDE DEF n
  <2>1. /\ probe' \in Probes /\ probe'.kind = probe.kind /\ probe'.turn = probe.turn /\ probe'.confirmed = probe.confirmed
        /\ probe'.pc = "listen" /\ probe'.status = "none"
    BY <1>0, <1>5, <2>0 DEF Probes, ProbePlaces
  <2>2. Reads /\ Goes
    BY <1>0, <1>1, <1>2, <1>5, <2>1 DEF Reads, Goes, ProbeInv, UsesKnown
  <2> QED
    BY <2>2, ReadsOn
<1> QED
  BY <1>3, <1>4, <1>5 DEF OnClosed, OnTerminal, EmptyCallRefused, Reopen, EndProbe, ProbeGoes, ReadsStream, ProbeAt

\* One decision for the tool uses of the turn.
LEMMA DecisionKeeps == ProbeInv /\ OnAsks => ProbeInv'
<1> SUFFICES ASSUME ProbeInv, OnAsks PROVE ProbeInv'
  OBVIOUS
<1> DEFINE d == Decision(probe.kind, probe.turn)
<1>0. /\ probe \in Probes /\ session \in SessionRecords /\ queue \subseteq Sessions /\ probe.pc = "listen"
      /\ probe.kind \in TurnKinds /\ probe.status = "none"
  BY NothingFound DEF ProbeInv, ProbeTypes, OnAsks, ReadsStream, ProbeAt
<1>1. d \in BOOLEAN /\ (d => \/ probe.kind \in {"allow", "write"}
                            \/ /\ probe.kind = "smoke allow" /\ Len(probe.turn) = 1
                               /\ session.uses[probe.turn[1]].what = "good")
  <2>1. CASE probe.kind \in {"allow", "write"}
    BY <2>1 DEF Decision
  <2>2. CASE probe.kind \in {"deny", "smoke deny"}
    BY <2>2 DEF Decision
  <2>3. CASE probe.kind = "smoke allow"
    BY <2>3 DEF Decision
  <2> QED
    BY <1>0, <2>1, <2>2, <2>3 DEF TurnKinds, SdkKinds, CloudKinds
<1>2. probe' = [probe EXCEPT !.pc = "decided", !.asked = TRUE, !.confirmed = d]
  BY DEF OnAsks
<1> HIDE DEF d
<1>3. /\ probe' \in Probes /\ probe'.kind = probe.kind /\ probe'.turn = probe.turn /\ probe'.confirmed = d
      /\ probe'.pc = "decided" /\ probe'.status = "none"
  BY <1>0, <1>1, <1>2 DEF Probes, ProbePlaces
<1>4. Reads
  BY <1>0, <1>3, StreamsKnow DEF Reads, OnAsks, ProbeInv, UsesKnown
<1>5. /\ ProbeTypes' /\ UsesKnown' /\ WrittenByTools' /\ PendingIsNotOk' /\ Allowed' = Allowed
  BY <1>4, ReadsKeep
<1>6. FoundAtTheEnd'
  BY <1>3 DEF FoundAtTheEnd, ConformantIsTrue
<1>7. probe.kind # "ant allow"
  BY <1>0 DEF TurnKinds, SdkKinds, CloudKinds
<1>8. DecidedByPlace'
  BY <1>0, <1>1, <1>3, <1>4, <1>5, <1>7 DEF ProbeInv, DecidedByPlace, Reads, ProbeAt
<1> QED
  BY <1>5, <1>6, <1>8 DEF ProbeInv

\* The probe ends with a status that its judgement gives.
LEMMA JudgementKeeps ==
  ASSUME ProbeInv, NEW st \in ProbeStatuses,
         UNCHANGED <<stream, session, queue, worker, written>>,
         probe' = [probe EXCEPT !.pc = "done", !.status = st],
         st = "CONFORMANT" =>
           /\ probe.kind \in {"allow", "deny", "write", "ant allow"}
           /\ probe.kind \in SdkKinds => worker.pc = "stopped" /\ worker.runs = 0
           /\ probe.kind = "deny" => ~Ran("good")
           /\ probe.kind = "allow" => Ran("good") \/ Len(worker.claims) > 1
           /\ probe.kind = "write" => Ran("good") \/ Ran("bad") \/ Len(worker.claims) > 1
           /\ probe.kind = "ant allow" => Ran("good"),
         probe.kind = "smoke allow" /\ st = "passed" => Allowed # {}
  PROVE  ProbeInv'
<1>0. probe \in Probes /\ session \in SessionRecords /\ queue \subseteq Sessions
  BY DEF ProbeInv, ProbeTypes
<1>1. /\ probe' \in Probes /\ probe'.kind = probe.kind /\ probe'.turn = probe.turn /\ probe'.confirmed = probe.confirmed
      /\ probe'.pc = "done" /\ probe'.status = st
  BY <1>0 DEF Probes, ProbePlaces
<1>2. Reads
  BY <1>0, <1>1, StreamsKnow DEF Reads, ProbeInv, UsesKnown
<1>3. Ends
  BY <1>1 DEF Ends
<1> QED
  BY <1>2, <1>3, ReadsEnd

LEMMA AntKeeps == ProbeInv /\ JudgeAnt => ProbeInv'
<1> SUFFICES ASSUME ProbeInv, JudgeAnt PROVE ProbeInv'
  OBVIOUS
<1>1. /\ probe.kind \in AntKinds /\ probe.kind \notin SdkKinds
      /\ probe' = [probe EXCEPT !.pc = "done", !.status = AntStatus]
      /\ UNCHANGED <<stream, session, queue, worker, written>>
  BY DEF JudgeAnt, EndProbe, AntKinds, SdkKinds
<1>2. AntStatus \in {"CONFORMANT", "ANOMALY", "INCONCLUSIVE"}
  BY DEF AntStatus
<1>3. AntStatus = "CONFORMANT" => probe.kind = "ant allow" /\ Found("good")
  BY DEF AntStatus, Found
<1>4. Found("good") => Ran("good")
  <2>1. worker.claims = <<>>
    BY <1>1 DEF ProbeInv, WrittenByTools
  <2>2. ~Claimed("other")
    BY <2>1 DEF Claimed
  <2> QED
    BY <2>2 DEF ProbeInv, WrittenByTools
<1>5. AntStatus \in ProbeStatuses /\ probe.kind # "smoke allow" /\ probe.kind # "deny"
  BY <1>1, <1>2 DEF ProbeStatuses, AntKinds
<1> HIDE DEF AntStatus
<1> QED
  BY <1>1, <1>3, <1>4, <1>5, JudgementKeeps DEF AntKinds

LEMMA ProbeJudgeKeeps == ProbeInv /\ JudgeProbe => ProbeInv'
<1> SUFFICES ASSUME ProbeInv, JudgeProbe PROVE ProbeInv'
  OBVIOUS
<1> DEFINE st == CASE probe.kind = "allow" -> AllowStatus
                   [] probe.kind = "deny"  -> DenyStatus
                   [] probe.kind = "write" -> WriteStatus
<1>1. /\ probe.kind \in SdkKinds /\ worker.pc = "stopped" /\ worker.runs = 0
      /\ probe' = [probe EXCEPT !.pc = "done", !.status = st]
      /\ UNCHANGED <<stream, session, queue, worker, written>>
  BY DEF JudgeProbe, EndProbe, ProbeInv, DecidedByPlace
<1>2. st \in {"CONFORMANT", "ANOMALY", "INCONCLUSIVE"}
  BY <1>1 DEF SdkKinds, AllowStatus, DenyStatus, WriteStatus
<1>3. st = "CONFORMANT" =>
        /\ probe.kind \in {"allow", "deny", "write"} /\ ~SessionMismatch
        /\ probe.kind = "deny" => ~Found("good")
        /\ probe.kind = "allow" => Found("good")
        /\ probe.kind = "write" => Found("good") \/ Found("bad")
  BY <1>1 DEF SdkKinds, AllowStatus, DenyStatus, WriteStatus
<1>4. ~SessionMismatch => ~Claimed("other") \/ Len(worker.claims) > 1
  <2> SUFFICES ASSUME ~(Len(worker.claims) > 1), ~SessionMismatch, Claimed("other") PROVE FALSE
    OBVIOUS
  <2>1. worker.claims \in Seq(Sessions)
    BY DEF ProbeInv, ProbeTypes
  <2>2. PICK i \in DOMAIN worker.claims : worker.claims[i] = "other"
    BY DEF Claimed
  <2>3. i = 1
    BY <2>1, <2>2
  <2> QED
    BY <2>1, <2>2, <2>3 DEF SessionMismatch
<1>5. /\ ~Found("good") => ~Ran("good")
      /\ \A t \in {"good", "bad"} : ~Claimed("other") /\ Found(t) => Ran(t)
  BY DEF ProbeInv, WrittenByTools
<1>6. st \in ProbeStatuses /\ probe.kind # "smoke allow" /\ probe.kind # "ant allow"
  BY <1>1, <1>2 DEF ProbeStatuses, SdkKinds
<1> HIDE DEF st
<1> QED
  BY <1>1, <1>3, <1>4, <1>5, <1>6, JudgementKeeps

LEMMA OutputsKeep == ProbeInv /\ ListOutputs => ProbeInv'
<1> SUFFICES ASSUME ProbeInv, ListOutputs PROVE ProbeInv'
  OBVIOUS
<1>0. /\ probe \in Probes /\ session \in SessionRecords /\ queue \subseteq Sessions /\ probe.pc = "returned"
      /\ probe.status = "none" /\ probe.kind \in CloudKinds
      /\ UNCHANGED <<stream, session, queue, worker, written>>
  BY NothingFound DEF ProbeInv, ProbeTypes, ListOutputs, ProbeAt
<1>1. PICK st \in {"passed", "failed"} :
        \/ probe' = [probe EXCEPT !.pc = "done", !.status = st]
           /\ (probe.kind = "smoke allow" /\ st = "passed" => probe.confirmed)
        \/ probe' = [probe EXCEPT !.lists = @ + 1]
  <2>1. CASE ~Lists
    BY <2>1 DEF ListOutputs, EndProbe
  <2>2. CASE Lists
    BY <2>2 DEF ListOutputs, EndProbe, Lists
  <2> QED
    BY <2>1, <2>2
<1>2. CASE probe' = [probe EXCEPT !.lists = @ + 1]
  <2> DEFINE n == probe.lists + 1
  <2>1. n \in Nat /\ probe' = [probe EXCEPT !.lists = n]
    BY <1>0, <1>2 DEF Probes
  <2> HIDE DEF n
  <2>2. /\ probe' \in Probes /\ probe'.kind = probe.kind /\ probe'.turn = probe.turn /\ probe'.confirmed = probe.confirmed
        /\ probe'.pc = "returned" /\ probe'.status = "none"
    BY <1>0, <2>1 DEF Probes
  <2>3. Reads /\ Goes
    BY <1>0, <2>2, StreamsKnow DEF Reads, Goes, ProbeInv, UsesKnown
  <2> QED
    BY <2>3, ReadsOn
<1>3. CASE probe' # [probe EXCEPT !.lists = @ + 1]
  <2>1. /\ st \in ProbeStatuses /\ st # "CONFORMANT"
    BY DEF ProbeStatuses
  <2>2. probe.kind = "smoke allow" /\ st = "passed" => Allowed # {}
    BY <1>0, <1>1, <1>3 DEF ProbeInv, DecidedByPlace
  <2> QED
    BY <1>0, <1>1, <1>3, <2>1, <2>2, JudgementKeeps
<1> QED
  BY <1>2, <1>3

\* The tool uses stay what they are, and what ran has run.
SameUses ==
  /\ session' \in SessionRecords /\ DOMAIN session'.uses = DOMAIN session.uses
  /\ \A i \in DOMAIN session.uses :
       /\ session'.uses[i].what = session.uses[i].what /\ session'.uses[i].ok = session.uses[i].ok
       /\ session.uses[i].state = "ran" => session'.uses[i].state = "ran"
       /\ session'.uses[i].state = "pending" => session.uses[i].state = "pending"

\* The tools go on beside the probe, and add nothing to what a probe has found.
LEMMA ToolsKeepWord ==
  ASSUME ProbeInv, probe' = probe, SameUses,
         probe.kind \in SdkKinds => ~(worker.pc = "stopped" /\ worker.runs = 0)
  PROVE  /\ DecidedByPlace' /\ FoundAtTheEnd' /\ PendingIsNotOk' /\ Allowed' = Allowed
         /\ \A t \in {"good", "bad"} : Ran(t) => Ran(t)'
<1>1. Allowed' = Allowed
  BY DEF SameUses, Allowed
<1>2. \A t \in {"good", "bad"} : Ran(t) => Ran(t)'
  BY DEF SameUses, Ran
<1>3. PendingIsNotOk'
  BY DEF ProbeInv, PendingIsNotOk, SameUses
<1>4. DecidedByPlace'
  <2>1. probe.pc \in {"decided", "post"} /\ probe.confirmed /\ probe.kind = "smoke allow" =>
          session'.uses[probe.turn[1]].what = "good"
    <3>1. probe.turn \in Seq(Nat)
      BY DEF ProbeInv, ProbeTypes, Probes
    <3>2. Len(probe.turn) = 1 => probe.turn[1] \in DOMAIN session.uses
      BY <3>1 DEF ProbeInv, UsesKnown
    <3> QED
      BY <3>2 DEF ProbeInv, DecidedByPlace, SameUses
  <2>2. probe.pc # "stopped"
    BY DEF ProbeInv, DecidedByPlace, ProbeAt
  <2>3. probe.kind = "smoke allow" => \A i \in Allowed' : session'.uses[i].what = "good"
    BY <1>1 DEF ProbeInv, DecidedByPlace, SameUses, Allowed
  <2> QED
    BY <1>1, <2>1, <2>2, <2>3 DEF ProbeInv, DecidedByPlace, ProbeAt
<1>5. FoundAtTheEnd'
  <2>1. probe.status = "CONFORMANT" => probe.kind \notin SdkKinds /\ probe.kind = "ant allow"
    BY DEF ProbeInv, FoundAtTheEnd, SdkKinds
  <2>2. probe.status = "CONFORMANT" => Ran("good")
    BY <2>1 DEF ProbeInv, FoundAtTheEnd, ConformantIsTrue
  <2>3. probe.status = "CONFORMANT" => Ran("good")'
    BY <1>2, <2>2
  <2> QED
    BY <1>1, <2>1, <2>3 DEF ProbeInv, FoundAtTheEnd, ConformantIsTrue
<1> QED
  BY <1>1, <1>2, <1>3, <1>4, <1>5

\* The state of one tool use changes.
LEMMA UseMoves ==
  ASSUME ProbeInv, NEW k \in DOMAIN session.uses, NEW st \in UseStates \ {"pending"},
         session.uses[k].state = "ran" => st = "ran",
         session' = [session EXCEPT !.uses[k].state = st]
  PROVE  /\ SameUses
         /\ session'.uses[k].state = st
         /\ \A i \in DOMAIN session.uses : i # k => session'.uses[i] = session.uses[i]
<1> DEFINE uses == session.uses
           u == [uses[k] EXCEPT !.state = st]
           after == [uses EXCEPT ![k] = u]
<1>1. session \in SessionRecords /\ uses \in Seq(Uses) /\ uses[k] \in Uses
  BY DEF ProbeInv, ProbeTypes, SessionRecords
<1>2. u \in Uses /\ u.what = uses[k].what /\ u.ok = uses[k].ok /\ u.state = st
  BY <1>1 DEF Uses
<1> HIDE DEF u
<1>3. /\ after \in Seq(Uses) /\ DOMAIN after = DOMAIN uses /\ after[k] = u
      /\ \A i \in DOMAIN uses : i # k => after[i] = uses[i]
  BY <1>1, <1>2
<1>4. session' = [session EXCEPT !.uses = after]
  BY <1>1 DEF SessionRecords, u
<1> HIDE DEF after
<1>5. session' \in SessionRecords /\ session'.uses = after
  BY <1>1, <1>3, <1>4 DEF SessionRecords
<1> QED
  BY <1>2, <1>3, <1>5 DEF SameUses

LEMMA ToolStartsKeep == ProbeInv /\ ToolStarts => ProbeInv'
<1> SUFFICES ASSUME ProbeInv, ToolStarts PROVE ProbeInv'
  OBVIOUS
<1>0. /\ worker \in [pc : {"none", "polling", "working", "stopped"}, claims : Seq(Sessions), runs : Nat]
      /\ session.uses \in Seq(Uses)
  BY DEF ProbeInv, ProbeTypes, SessionRecords
<1>1. PICK k \in DOMAIN session.uses :
        /\ session.uses[k].state \in {"pending", "allowed"}
        /\ worker' = [worker EXCEPT !.runs = k]
        /\ session' = [session EXCEPT !.uses[k].state = "runs"]
  BY DEF ToolStarts
<1>2. /\ probe' = probe /\ stream' = stream /\ queue' = queue /\ written' = written
      /\ probe.kind \in SdkKinds => worker.pc = "working"
  BY DEF ToolStarts
<1>3. /\ SameUses /\ session'.uses[k].state = "runs"
      /\ \A i \in DOMAIN session.uses : i # k => session'.uses[i] = session.uses[i]
  BY <1>1, UseMoves DEF UseStates
<1>4. /\ DecidedByPlace' /\ FoundAtTheEnd' /\ PendingIsNotOk' /\ \A t \in {"good", "bad"} : Ran(t) => Ran(t)'
  BY <1>2, <1>3, ToolsKeepWord
<1>5. /\ worker' \in [pc : {"none", "polling", "working", "stopped"}, claims : Seq(Sessions), runs : Nat]
      /\ worker'.pc = worker.pc /\ worker'.claims = worker.claims /\ worker'.runs = k
  BY <1>0, <1>1
<1>6. ProbeTypes' /\ UsesKnown'
  BY <1>2, <1>3, <1>5 DEF ProbeInv, ProbeTypes, UsesKnown, SameUses
<1>7. \A t \in {"good", "bad"} : Ran(t)' => Ran(t)
  BY <1>3 DEF Ran, SameUses
<1>8. WrittenByTools'
  BY <1>2, <1>4, <1>5, <1>7 DEF ProbeInv, WrittenByTools, Found, Claimed
<1> QED
  BY <1>4, <1>6, <1>8 DEF ProbeInv

LEMMA ToolFinishesKeeps == ProbeInv /\ ToolFinishes => ProbeInv'
<1> SUFFICES ASSUME ProbeInv, ToolFinishes PROVE ProbeInv'
  OBVIOUS
<1> DEFINE k == worker.runs
           what == session.uses[k].what
<1>0. /\ worker \in [pc : {"none", "polling", "working", "stopped"}, claims : Seq(Sessions), runs : Nat]
      /\ session.uses \in Seq(Uses) /\ written \in [{"good", "bad"} -> Sessions \cup {"none"}]
  BY DEF ProbeInv, ProbeTypes, SessionRecords
<1>1. /\ k # 0 /\ k \in DOMAIN session.uses /\ what \in {"good", "bad"}
      /\ worker' = [worker EXCEPT !.runs = 0]
      /\ session' = [session EXCEPT !.uses[k].state = "ran"]
      /\ written' = [written EXCEPT ![what] = "own"]
      /\ probe' = probe /\ stream' = stream /\ queue' = queue
  <2>1. k # 0 /\ k \in DOMAIN session.uses
    BY DEF ToolFinishes, ProbeInv, UsesKnown
  <2>2. session.uses[k] \in Uses
    BY <1>0, <2>1
  <2>3. what \in {"good", "bad"}
    BY <2>2 DEF Uses
  <2> QED
    BY <2>1, <2>3 DEF ToolFinishes
<1>2. k = worker.runs /\ what = session.uses[k].what
  OBVIOUS
<1> HIDE DEF k, what
<1>3. /\ SameUses /\ session'.uses[k].state = "ran"
      /\ \A i \in DOMAIN session.uses : i # k => session'.uses[i] = session.uses[i]
  BY <1>1, UseMoves DEF UseStates
<1>4. /\ DecidedByPlace' /\ FoundAtTheEnd' /\ PendingIsNotOk' /\ \A t \in {"good", "bad"} : Ran(t) => Ran(t)'
  BY <1>1, <1>2, <1>3, ToolsKeepWord
<1>5. /\ worker' \in [pc : {"none", "polling", "working", "stopped"}, claims : Seq(Sessions), runs : Nat]
      /\ worker'.pc = worker.pc /\ worker'.claims = worker.claims /\ worker'.runs = 0
  BY <1>0, <1>1
<1>6. /\ written' \in [{"good", "bad"} -> Sessions \cup {"none"}] /\ written'[what] = "own"
      /\ \A t \in {"good", "bad"} : t # what => written'[t] = written[t]
  BY <1>0, <1>1 DEF Sessions
<1>7. ProbeTypes' /\ UsesKnown'
  BY <1>1, <1>3, <1>5, <1>6 DEF ProbeInv, ProbeTypes, UsesKnown, SameUses
<1>8. /\ "good" = what => Ran("good")' /\ written'["good"] # "none"
      /\ "bad" = what => Ran("bad")' /\ written'["bad"] # "none"
  BY <1>1, <1>2, <1>3, <1>6 DEF Ran, SameUses
<1>9. /\ "good" # what => (Ran("good")' <=> Ran("good")) /\ written'["good"] = written["good"]
      /\ "bad" # what => (Ran("bad")' <=> Ran("bad")) /\ written'["bad"] = written["bad"]
  BY <1>1, <1>2, <1>3, <1>6 DEF Ran, SameUses
<1>10. WrittenByTools'
  BY <1>1, <1>5, <1>8, <1>9 DEF ProbeInv, WrittenByTools, Found, Claimed
<1> QED
  BY <1>4, <1>7, <1>10 DEF ProbeInv

\* Claims, releases and the other session's tools.
LEMMA WorkerKeeps ==
  ASSUME ProbeInv, WorkerClaims \/ ForeignToolRuns \/ WorkerReleases
  PROVE  ProbeInv'
<1> DEFINE Workers == [pc : {"none", "polling", "working", "stopped"}, claims : Seq(Sessions), runs : Nat]
<1>0. /\ worker \in Workers /\ session \in SessionRecords /\ queue \subseteq Sessions
      /\ written \in [{"good", "bad"} -> Sessions \cup {"none"}] /\ worker.pc \in {"polling", "working"}
  BY DEF ProbeInv, ProbeTypes, WorkerClaims, ForeignToolRuns, WorkerReleases
<1>1. probe' = probe /\ stream' = stream /\ session' = session
  BY DEF WorkerClaims, ForeignToolRuns, WorkerReleases
<1>2. SameUses
  BY <1>0, <1>1 DEF SameUses
<1>3. /\ DecidedByPlace' /\ FoundAtTheEnd' /\ PendingIsNotOk'
      /\ (Ran("good")' <=> Ran("good")) /\ (Ran("bad")' <=> Ran("bad"))
  <2>1. DecidedByPlace' /\ FoundAtTheEnd' /\ PendingIsNotOk'
    BY <1>0, <1>1, <1>2, ToolsKeepWord
  <2> QED
    BY <1>1, <2>1 DEF Ran
<1>4. CASE WorkerClaims
  <2>1. PICK q \in queue : worker' = [worker EXCEPT !.pc = "working", !.claims = Append(@, q)] /\ queue' = queue \ {q}
    BY <1>4 DEF WorkerClaims
  <2> DEFINE claims == Append(worker.claims, q)
  <2>2. /\ claims \in Seq(Sessions) /\ claims # <<>>
        /\ \A i \in DOMAIN worker.claims : i \in DOMAIN claims /\ claims[i] = worker.claims[i]
    BY <1>0, <2>1
  <2>3. worker' = [worker EXCEPT !.pc = "working", !.claims = claims]
    BY <1>0, <2>1
  <2> HIDE DEF claims
  <2>4. worker' \in Workers /\ worker'.pc = "working" /\ worker'.claims = claims /\ worker'.runs = worker.runs
    BY <1>0, <2>2, <2>3
  <2>5. written' = written /\ queue' \subseteq Sessions
    BY <1>0, <1>4, <2>1 DEF WorkerClaims
  <2>6. ProbeTypes' /\ UsesKnown'
    BY <1>1, <2>4, <2>5 DEF ProbeInv, ProbeTypes, UsesKnown
  <2>7. Claimed("other") => Claimed("other")'
    BY <2>2, <2>4 DEF Claimed
  <2>8. WrittenByTools'
    BY <1>0, <1>1, <1>3, <2>2, <2>4, <2>5, <2>7 DEF ProbeInv, WrittenByTools, Found
  <2> QED
    BY <1>3, <2>6, <2>8 DEF ProbeInv
<1>5. CASE ForeignToolRuns
  <2>1. /\ worker' = worker /\ queue' = queue /\ worker.pc = "working" /\ Current = "other"
        /\ written' = [written EXCEPT !["good"] = "other"]
    BY <1>5 DEF ForeignToolRuns
  <2>2. Claimed("other")
    <3>1. worker.claims # <<>> /\ worker.claims \in Seq(Sessions)
      BY <1>0, <2>1 DEF ProbeInv, WrittenByTools
    <3>2. Len(worker.claims) \in DOMAIN worker.claims
      BY <3>1
    <3> QED
      BY <2>1, <3>2 DEF Claimed, Current
  <2>3. written' \in [{"good", "bad"} -> Sessions \cup {"none"}] /\ written'["good"] = "other" /\ written'["bad"] = written["bad"]
    BY <1>0, <2>1 DEF Sessions
  <2>4. ProbeTypes' /\ UsesKnown'
    BY <1>1, <2>1, <2>3 DEF ProbeInv, ProbeTypes, UsesKnown
  <2>5. Claimed("other")'
    BY <2>1, <2>2 DEF Claimed
  <2>6. WrittenByTools'
    BY <1>1, <1>3, <2>1, <2>3, <2>5 DEF ProbeInv, WrittenByTools, Found
  <2> QED
    BY <1>3, <2>4, <2>6 DEF ProbeInv
<1>6. CASE WorkerReleases
  <2>1. /\ worker' \in Workers /\ worker'.pc = "polling" /\ worker'.claims = worker.claims /\ worker'.runs = worker.runs
        /\ written' = written /\ queue' = queue
    BY <1>0, <1>6 DEF WorkerReleases
  <2>2. ProbeTypes' /\ UsesKnown'
    BY <1>1, <2>1 DEF ProbeInv, ProbeTypes, UsesKnown
  <2>3. WrittenByTools'
    BY <1>0, <1>1, <1>3, <2>1 DEF ProbeInv, WrittenByTools, Found, Claimed
  <2> QED
    BY <1>3, <2>2, <2>3 DEF ProbeInv
<1> QED
  BY <1>4, <1>5, <1>6

\* The service makes a new tool use, that waits or is allowed.
LEMMA AgentKeeps == ProbeInv /\ AgentUsesTool => ProbeInv'
<1> SUFFICES ASSUME ProbeInv, AgentUsesTool PROVE ProbeInv'
  OBVIOUS
<1>0. /\ session \in SessionRecords /\ session.uses \in Seq(Uses) /\ stream \in Streams
      /\ probe.pc \notin {"stopped", "done"} /\ probe.status = "none" /\ probe \in Probes
      /\ probe' = probe /\ queue' = queue /\ worker' = worker /\ written' = written
  BY NothingFound DEF ProbeInv, ProbeTypes, SessionRecords, Streams, AgentUsesTool, Watched, ProbeAt
<1>1. PICK w \in {"good", "bad"} :
        session' = [session EXCEPT !.uses = Append(@, [what |-> w, ok |-> probe.kind = "always",
                      state |-> IF probe.kind = "always" THEN "allowed" ELSE "pending"])]
  BY DEF AgentUsesTool
<1> DEFINE u == [what |-> w, ok |-> probe.kind = "always",
                 state |-> IF probe.kind = "always" THEN "allowed" ELSE "pending"]
           uses == Append(session.uses, u)
           n == Len(session.uses)
<1>2. /\ u \in Uses /\ u.state \in {"allowed", "pending"} /\ (u.state = "pending" => ~u.ok)
      /\ u.ok => probe.kind = "always"
  BY DEF Uses, UseStates
<1>3. session' = [session EXCEPT !.uses = uses]
  BY <1>0, <1>1 DEF SessionRecords
<1> HIDE DEF u
<1>4. /\ uses \in Seq(Uses) /\ n \in Nat /\ DOMAIN session.uses = 1..n /\ DOMAIN uses = 1..(n + 1)
      /\ uses[n + 1] = u /\ \A i \in 1..n : uses[i] = session.uses[i]
  BY <1>0, <1>2
<1> HIDE DEF uses
<1>5. session' \in SessionRecords /\ session'.uses = uses
  BY <1>0, <1>3, <1>4 DEF SessionRecords
<1>6. Knows(stream', uses)
  <2> DEFINE e == StreamEvent("use", n + 1)
             more == Append(stream.events, e)
  <2>1. e \in StreamEvents /\ e.use = n + 1 /\ n + 1 \in DOMAIN uses
    BY <1>4 DEF StreamEvents, StreamEvent
  <2>2. stream.events \in Seq(StreamEvents) /\ Knows(stream, session.uses)
    BY <1>0, StreamsKnow DEF Streams
  <2>3. stream' = IF stream.open THEN [stream EXCEPT !.events = more] ELSE stream
    BY <1>0 DEF AgentUsesTool, Delivered, Streams
  <2> HIDE DEF e
  <2>4. /\ more \in Seq(StreamEvents)
        /\ \A i \in DOMAIN more : more[i] = e \/ (i \in DOMAIN stream.events /\ more[i] = stream.events[i])
    BY <2>1, <2>2
  <2>5. \A i \in DOMAIN more : more[i].type = "use" => more[i].use \in DOMAIN uses
    BY <1>4, <2>1, <2>2, <2>4 DEF Knows
  <2> HIDE DEF more
  <2>6. CASE stream.open
    BY <1>0, <2>3, <2>4, <2>5, <2>6 DEF Knows, Streams
  <2>7. CASE ~stream.open
    BY <1>0, <1>4, <2>2, <2>3, <2>7 DEF Knows
  <2> QED
    BY <2>6, <2>7
<1> HIDE DEF n
<1>7. ProbeTypes'
  BY <1>0, <1>5, <1>6 DEF ProbeInv, ProbeTypes, Knows, Streams
<1>8. UsesKnown'
  BY <1>0, <1>4, <1>5, <1>6 DEF ProbeInv, UsesKnown, Knows
<1>9. /\ (Ran("good")' <=> Ran("good")) /\ (Ran("bad")' <=> Ran("bad"))
  BY <1>2, <1>4, <1>5 DEF Ran
<1>10. WrittenByTools' /\ PendingIsNotOk'
  BY <1>0, <1>2, <1>4, <1>5, <1>9 DEF ProbeInv, WrittenByTools, Found, Claimed, PendingIsNotOk
<1>11. probe.kind # "always" => Allowed' = Allowed
  BY <1>2, <1>4, <1>5 DEF Allowed
<1>12. DecidedByPlace'
  <2>1. probe.pc \in {"decided", "post"} /\ probe.confirmed /\ probe.kind = "smoke allow" =>
          uses[probe.turn[1]].what = "good"
    <3>1. probe.turn \in Seq(Nat)
      BY <1>0 DEF Probes
    <3>2. Len(probe.turn) = 1 => probe.turn[1] \in DOMAIN session.uses
      BY <3>1 DEF ProbeInv, UsesKnown
    <3> QED
      BY <1>4, <3>2 DEF ProbeInv, DecidedByPlace
  <2>2. probe.kind = "smoke allow" => \A i \in Allowed' : uses[i].what = "good"
    BY <1>4, <1>11 DEF ProbeInv, DecidedByPlace, Allowed
  <2> QED
    BY <1>0, <1>5, <1>11, <2>1, <2>2 DEF ProbeInv, DecidedByPlace, ProbeAt, AntKinds
<1>13. FoundAtTheEnd'
  BY <1>0 DEF FoundAtTheEnd, ConformantIsTrue
<1> QED
  BY <1>7, <1>8, <1>10, <1>12, <1>13 DEF ProbeInv

\* Confirmations touch what is pending, and nothing that runs or ran.
Confirms ==
  /\ session' \in SessionRecords /\ DOMAIN session'.uses = DOMAIN session.uses
  /\ UNCHANGED <<stream, queue, worker, written>>
  /\ probe' \in Probes /\ probe'.kind = probe.kind /\ probe'.status = "none"
  /\ \A i \in DOMAIN probe'.turn : probe'.turn[i] \in DOMAIN session.uses
  /\ \A i \in DOMAIN session.uses :
       /\ session'.uses[i].what = session.uses[i].what
       /\ session'.uses[i] # session.uses[i] =>
            i \in Pending /\ session'.uses[i].state \in {"allowed", "denied"}

LEMMA ConfirmsKeep ==
  ASSUME ProbeInv, Confirms
  PROVE  ProbeTypes' /\ UsesKnown' /\ WrittenByTools' /\ PendingIsNotOk' /\ FoundAtTheEnd'
<1>1. ProbeTypes'
  BY DEF ProbeInv, ProbeTypes, Confirms
<1>2. UsesKnown'
  BY DEF ProbeInv, UsesKnown, Confirms, Pending
<1>3. /\ (Ran("good")' <=> Ran("good")) /\ (Ran("bad")' <=> Ran("bad"))
  BY DEF Ran, Confirms, Pending
<1>4. WrittenByTools' /\ PendingIsNotOk'
  BY <1>3 DEF ProbeInv, WrittenByTools, Found, Claimed, PendingIsNotOk, Confirms
<1>5. FoundAtTheEnd'
  BY DEF FoundAtTheEnd, ConformantIsTrue, Confirms
<1> QED
  BY <1>1, <1>2, <1>4, <1>5

\* Of sequences.
LEMMA OneElement ==
  ASSUME NEW S, NEW q \in Seq(S), Len(q) = 1
  PROVE  DOMAIN q = {1}
OBVIOUS

LEMMA SetElement ==
  ASSUME NEW S, NEW q \in Seq(S), NEW k \in DOMAIN q, NEW x \in S
  PROVE  /\ [q EXCEPT ![k] = x] \in Seq(S)
         /\ DOMAIN [q EXCEPT ![k] = x] = DOMAIN q
         /\ [q EXCEPT ![k] = x][k] = x
         /\ \A i \in DOMAIN q : i # k => [q EXCEPT ![k] = x][i] = q[i]
OBVIOUS

LEMMA PostKeeps == ProbeInv /\ PostConfirmations => ProbeInv'
<1> SUFFICES ASSUME ProbeInv, PostConfirmations PROVE ProbeInv'
  OBVIOUS
<1>0. /\ probe \in Probes /\ session \in SessionRecords /\ session.uses \in Seq(Uses) /\ probe.pc = "post"
      /\ probe.status = "none" /\ queue \subseteq Sessions /\ probe.turn \in Seq(Nat) /\ probe.confirmed \in BOOLEAN
      /\ UNCHANGED <<stream, queue, worker, written>>
  BY NothingFound DEF ProbeInv, ProbeTypes, SessionRecords, Probes, PostConfirmations, ProbeAt
<1>1. CASE ~ \A i \in DOMAIN probe.turn : probe.turn[i] \in Pending
  <2>1. session' = session /\ probe' = [probe EXCEPT !.pc = "done", !.status = "ERROR"]
    BY <1>1 DEF PostConfirmations, EndProbe
  <2> QED
    BY <1>0, <2>1, JudgementKeeps DEF ProbeStatuses
<1>2. CASE \A i \in DOMAIN probe.turn : probe.turn[i] \in Pending
  <2> DEFINE st == IF session.status = "asking" /\ probe.turn # <<>> THEN "running" ELSE session.status
             In(i) == \E j \in DOMAIN probe.turn : probe.turn[j] = i
             uses == [i \in DOMAIN session.uses |->
                        IF In(i) THEN [session.uses[i] EXCEPT !.state = IF probe.confirmed THEN "allowed" ELSE "denied",
                                                              !.ok = probe.confirmed]
                        ELSE session.uses[i]]
  <2>1. session' = [session EXCEPT !.status = st, !.uses = uses]
    BY <1>0, <1>2 DEF PostConfirmations, SessionRecords
  <2>2. /\ probe' \in Probes /\ probe'.kind = probe.kind /\ probe'.status = "none" /\ probe'.confirmed = probe.confirmed
        /\ probe'.pc = "listen" /\ probe'.turn = <<>>
    <3>1. probe' = [probe EXCEPT !.pc = "listen", !.turn = <<>>] /\ <<>> \in Seq(Nat)
      BY <1>2 DEF PostConfirmations
    <3> QED
      BY <1>0, <3>1 DEF Probes, ProbePlaces
  <2>3. \A i \in DOMAIN session.uses :
          /\ session.uses[i] \in Uses /\ uses[i] \in Uses
          /\ uses[i].what = session.uses[i].what
          /\ uses[i].ok = IF In(i) THEN probe.confirmed ELSE session.uses[i].ok
          /\ In(i) => uses[i].state \in {"allowed", "denied"}
          /\ ~In(i) => uses[i] = session.uses[i]
    <3> SUFFICES ASSUME NEW i \in DOMAIN session.uses
                 PROVE  /\ session.uses[i] \in Uses /\ uses[i] \in Uses
                        /\ uses[i].what = session.uses[i].what
                        /\ uses[i].ok = IF In(i) THEN probe.confirmed ELSE session.uses[i].ok
                        /\ In(i) => uses[i].state \in {"allowed", "denied"}
                        /\ ~In(i) => uses[i] = session.uses[i]
      OBVIOUS
    <3> DEFINE v == [session.uses[i] EXCEPT !.state = IF probe.confirmed THEN "allowed" ELSE "denied",
                                            !.ok = probe.confirmed]
    <3>1. session.uses[i] \in Uses
      BY <1>0
    <3>2. v \in Uses /\ v.what = session.uses[i].what /\ v.ok = probe.confirmed /\ v.state \in {"allowed", "denied"}
      BY <1>0, <3>1 DEF Uses, UseStates
    <3>3. uses[i] = IF In(i) THEN v ELSE session.uses[i]
      OBVIOUS
    <3> HIDE DEF v, uses, In
    <3> QED
      BY <3>1, <3>2, <3>3
  <2>4. \A i : In(i) => i \in Pending
    BY <1>2
  <2>5. DOMAIN uses = DOMAIN session.uses /\ uses \in Seq(Uses)
    <3>1. DOMAIN uses = DOMAIN session.uses /\ DOMAIN session.uses = 1..Len(session.uses) /\ Len(session.uses) \in Nat
      BY <1>0
    <3>2. uses = [i \in 1..Len(session.uses) |-> uses[i]]
      BY <3>1
    <3> HIDE DEF uses
    <3>3. \A i \in 1..Len(session.uses) : uses[i] \in Uses
      BY <2>3, <3>1
    <3>4. uses \in [1..Len(session.uses) -> Uses]
      BY <3>2, <3>3
    <3> QED
      BY <3>1, <3>4
  <2> HIDE DEF uses
  <2>6. session' \in SessionRecords /\ session'.uses = uses
    <3>1. st \in {"none", "new", "running", "asking", "over"}
      BY <1>0 DEF SessionRecords
    <3> HIDE DEF st
    <3> QED
      BY <1>0, <2>1, <2>5, <3>1 DEF SessionRecords
  <2>7. Confirms
    BY <1>0, <2>2, <2>3, <2>4, <2>5, <2>6 DEF Confirms
  <2>8. \A i \in DOMAIN session.uses : In(i) => ~session.uses[i].ok
    BY <2>4 DEF ProbeInv, PendingIsNotOk, Pending
  <2>9. ~probe.confirmed => Allowed' = Allowed
    BY <2>3, <2>5, <2>6, <2>8 DEF Allowed
  <2>10. probe.confirmed /\ probe.kind = "smoke allow" =>
           Allowed' # {} /\ \A i \in Allowed' : uses[i].what = "good"
    <3> SUFFICES ASSUME probe.confirmed, probe.kind = "smoke allow"
                 PROVE  Allowed' # {} /\ \A i \in Allowed' : uses[i].what = "good"
      OBVIOUS
    <3>1. Len(probe.turn) = 1 /\ session.uses[probe.turn[1]].what = "good"
      BY <1>0 DEF ProbeInv, DecidedByPlace
    <3>8. DOMAIN probe.turn = {1}
      <4>1. probe.turn \in Seq(Nat)
        BY <1>0
      <4> QED
        BY <3>1, <4>1, OneElement
    <3>9. In(probe.turn[1])
      BY <3>8
    <3>2. In(probe.turn[1]) /\ probe.turn[1] \in DOMAIN session.uses
      BY <2>4, <3>9 DEF Pending
    <3>3. \A i \in DOMAIN session.uses : In(i) => i = probe.turn[1]
      BY <3>8
    <3>4. \A i \in Allowed' : i \in Allowed \/ i = probe.turn[1]
      BY <2>3, <2>5, <2>6, <3>3 DEF Allowed
    <3>5. probe.turn[1] \in Allowed'
      BY <2>3, <2>5, <2>6, <3>2 DEF Allowed
    <3>6. \A i \in Allowed' : i \in DOMAIN session.uses /\ uses[i].what = session.uses[i].what
      BY <2>3, <2>5, <2>6 DEF Allowed
    <3>7. \A i \in Allowed : session.uses[i].what = "good"
      BY DEF ProbeInv, DecidedByPlace
    <3> QED
      BY <3>1, <3>4, <3>5, <3>6, <3>7
  <2>11. /\ probe.kind \in TurnKinds
         /\ probe.confirmed => probe.kind \in {"allow", "write", "smoke allow"}
    BY <1>0 DEF ProbeInv, DecidedByPlace
  <2>12. probe.kind # "ant allow" /\ probe.kind # "ant deny"
    BY <2>11 DEF TurnKinds, SdkKinds, CloudKinds
  <2>13. ASSUME ~probe.confirmed, probe.kind = "smoke allow" PROVE \A i \in Allowed' : uses[i].what = "good"
    <3>1. \A i \in Allowed : session.uses[i].what = "good" /\ i \in DOMAIN session.uses
      BY <2>13 DEF ProbeInv, DecidedByPlace, Allowed
    <3>2. \A i \in Allowed : uses[i].what = session.uses[i].what
      BY <2>3, <3>1
    <3> QED
      BY <2>9, <2>13, <3>1, <3>2
  <2>14. DecidedByPlace'
    BY <2>2, <2>6, <2>9, <2>10, <2>11, <2>12, <2>13 DEF ProbeInv, DecidedByPlace, ProbeAt
  <2> QED
    BY <2>7, <2>14, ConfirmsKeep DEF ProbeInv
<1> QED
  BY <1>1, <1>2

\* The one confirmation of the ant probes.
LEMMA LastKeeps == ProbeInv /\ ConfirmLast => ProbeInv'
<1> SUFFICES ASSUME ProbeInv, ConfirmLast PROVE ProbeInv'
  OBVIOUS
<1> DEFINE last == probe.turn[Len(probe.turn)]
           allow == probe.kind = "ant allow"
<1>0. /\ probe \in Probes /\ session \in SessionRecords /\ session.uses \in Seq(Uses) /\ probe.pc = "confirm"
      /\ probe.status = "none" /\ queue \subseteq Sessions /\ probe.kind \in AntKinds /\ ~probe.confirmed
      /\ UNCHANGED <<stream, queue, worker, written>>
  BY NothingFound DEF ProbeInv, ProbeTypes, SessionRecords, ConfirmLast, ProbeAt, DecidedByPlace
<1>1. CASE last \notin Pending
  <2>1. session' = session /\ probe' = [probe EXCEPT !.pc = "done", !.status = "ERROR"]
    BY <1>1 DEF ConfirmLast, EndProbe
  <2> QED
    BY <1>0, <2>1, JudgementKeeps DEF ProbeStatuses
<1>2. CASE last \in Pending
  <2> DEFINE st == IF session.status = "asking" THEN "running" ELSE session.status
             v == [session.uses[last] EXCEPT !.state = IF allow THEN "allowed" ELSE "denied", !.ok = allow]
             uses == [session.uses EXCEPT ![last] = v]
  <2>0. last \in DOMAIN session.uses /\ session.uses[last] \in Uses /\ session.uses[last].state = "pending"
    BY <1>0, <1>2 DEF Pending
  <2>1. v \in Uses /\ v.what = session.uses[last].what /\ v.ok = allow /\ v.state \in {"allowed", "denied"}
    BY <2>0 DEF Uses, UseStates
  <2>2. session' = [session EXCEPT !.status = st, !.uses = uses]
    <3> DEFINE two == [session.uses EXCEPT ![last].state = IF allow THEN "allowed" ELSE "denied", ![last].ok = allow]
    <3>1. session' = [session EXCEPT !.status = st,
                                     !.uses[last].state = IF allow THEN "allowed" ELSE "denied",
                                     !.uses[last].ok = allow]
      BY <1>2 DEF ConfirmLast
    <3> DEFINE answer == IF allow THEN "allowed" ELSE "denied"
               s1 == [session EXCEPT !.status = st]
               s2 == [s1 EXCEPT !.uses[last].state = answer]
               s3 == [s2 EXCEPT !.uses[last].ok = allow]
    <3>4. s1 \in [status : {st}, uses : Seq(Uses)] /\ s1.uses = session.uses /\ s1.status = st
      BY <1>0 DEF SessionRecords
    <3>5. session' = s3
      BY <3>1
    <3> HIDE DEF answer, s1, last, st, allow
    <3>6. /\ DOMAIN s2 = {"status", "uses"} /\ s2.status = st
          /\ s2.uses = [session.uses EXCEPT ![last].state = answer]
      BY <3>4
    <3> HIDE DEF s2
    <3>7. /\ DOMAIN s3 = {"status", "uses"} /\ s3.status = st
          /\ s3.uses = [s2.uses EXCEPT ![last].ok = allow]
      BY <3>6
    <3>8. s3.uses = two
      BY <3>6, <3>7 DEF answer
    <3> HIDE DEF two
    <3>9. s3 = [session EXCEPT !.status = st, !.uses = two]
      BY <1>0, <3>7, <3>8 DEF SessionRecords
    <3>2. session' = [session EXCEPT !.status = st, !.uses = two]
      BY <3>5, <3>9
    <3> USE DEF two, last, st, allow
    <3>3. two = uses
      BY <2>0
    <3> QED
      BY <3>2, <3>3
  <2>3. probe' = [probe EXCEPT !.pc = "listen", !.confirmed = TRUE]
    BY <1>2 DEF ConfirmLast
  <2>4. /\ probe' \in Probes /\ probe'.kind = probe.kind /\ probe'.status = "none" /\ probe'.confirmed = TRUE
        /\ probe'.pc = "listen" /\ probe'.turn = probe.turn
    BY <1>0, <2>3 DEF Probes, ProbePlaces
  <2> HIDE DEF v, last
  <2>5. /\ uses \in Seq(Uses) /\ DOMAIN uses = DOMAIN session.uses /\ uses[last] = v
        /\ \A i \in DOMAIN session.uses : i # last => uses[i] = session.uses[i]
    <3>1. session.uses \in Seq(Uses)
      BY <1>0
    <3> QED
      BY <2>0, <2>1, <3>1, SetElement
  <2> HIDE DEF uses
  <2>6. session' \in SessionRecords /\ session'.uses = uses
    <3>1. st \in {"none", "new", "running", "asking", "over"}
      BY <1>0 DEF SessionRecords
    <3> HIDE DEF st
    <3> QED
      BY <1>0, <2>2, <2>5, <3>1 DEF SessionRecords
  <2>7. \A i \in DOMAIN probe'.turn : probe'.turn[i] \in DOMAIN session.uses
    BY <2>4 DEF ProbeInv, UsesKnown
  <2>8. Confirms
    BY <1>0, <1>2, <2>1, <2>4, <2>5, <2>6, <2>7 DEF Confirms
  <2>9. \A i \in Allowed' : i \in Allowed \/ (i = last /\ allow)
    BY <2>1, <2>5, <2>6 DEF Allowed
  <2>10. probe.kind = "ant allow" => \A i \in Allowed' : i = last
    BY <1>0, <2>9 DEF ProbeInv, DecidedByPlace
  <2>11. probe.kind = "ant deny" => Allowed' = {}
    BY <1>0, <2>9 DEF ProbeInv, DecidedByPlace
  <2>12. probe.kind \in {"ant allow", "ant deny"}
    BY <1>0 DEF AntKinds
  <2>13. DecidedByPlace'
    BY <2>4, <2>10, <2>11, <2>12 DEF DecidedByPlace, ProbeAt
  <2> QED
    BY <2>8, <2>13, ConfirmsKeep DEF ProbeInv
<1> QED
  BY <1>1, <1>2

LEMMA CreateKeeps == ProbeInv /\ CreateSession => ProbeInv'
<1> SUFFICES ASSUME ProbeInv, CreateSession PROVE ProbeInv'
  OBVIOUS
<1> DEFINE Workers == [pc : {"none", "polling", "working", "stopped"}, claims : Seq(Sessions), runs : Nat]
<1>0. /\ probe \in Probes /\ session \in SessionRecords /\ queue \subseteq Sessions /\ worker \in Workers
      /\ probe.pc = "create" /\ probe.status = "none" /\ ~probe.confirmed
      /\ stream' = stream /\ written' = written
  BY NothingFound DEF ProbeInv, ProbeTypes, CreateSession, ProbeAt, DecidedByPlace
<1>1. /\ probe' \in Probes /\ probe'.kind = probe.kind /\ probe'.turn = probe.turn /\ probe'.confirmed = probe.confirmed
      /\ probe'.pc = "open" /\ probe'.status = "none"
  BY <1>0 DEF CreateSession, ProbeGoes, Probes, ProbePlaces
<1>2. session' \in SessionRecords /\ session'.uses = session.uses
  BY <1>0 DEF CreateSession, SessionRecords
<1>3. /\ worker' \in Workers /\ worker'.claims = worker.claims /\ worker'.runs = worker.runs
      /\ worker'.pc = worker.pc \/ (worker'.pc = "polling" /\ probe.kind \in SdkKinds)
      /\ queue' \subseteq Sessions
  BY <1>0 DEF CreateSession, Sessions
<1>4. ProbeTypes' /\ UsesKnown'
  BY <1>0, <1>1, <1>2, <1>3 DEF ProbeInv, ProbeTypes, UsesKnown
<1>5. /\ (Ran("good")' <=> Ran("good")) /\ (Ran("bad")' <=> Ran("bad")) /\ Allowed' = Allowed /\ PendingIsNotOk'
  BY <1>2 DEF Ran, Allowed, ProbeInv, PendingIsNotOk
<1>6. WrittenByTools'
  BY <1>0, <1>1, <1>3, <1>5 DEF ProbeInv, WrittenByTools, Found, Claimed
<1>7. FoundAtTheEnd'
  BY <1>1 DEF FoundAtTheEnd, ConformantIsTrue
<1>8. DecidedByPlace'
  BY <1>0, <1>1, <1>2, <1>5 DEF ProbeInv, DecidedByPlace, ProbeAt
<1> QED
  BY <1>4, <1>5, <1>6, <1>7, <1>8 DEF ProbeInv

\* The worker is stopped, with the tool that it runs, if any.
LEMMA StopKeeps == ProbeInv /\ StopWorker => ProbeInv'
<1> SUFFICES ASSUME ProbeInv, StopWorker PROVE ProbeInv'
  OBVIOUS
<1> DEFINE Workers == [pc : {"none", "polling", "working", "stopped"}, claims : Seq(Sessions), runs : Nat]
           k == worker.runs
           what == session.uses[k].what
<1>0. /\ probe \in Probes /\ session \in SessionRecords /\ session.uses \in Seq(Uses) /\ queue \subseteq Sessions
      /\ worker \in Workers /\ written \in [{"good", "bad"} -> Sessions \cup {"none"}]
      /\ probe.pc = "returned" /\ probe.status = "none" /\ probe.kind \in SdkKinds
      /\ stream' = stream /\ queue' = queue
  BY NothingFound DEF ProbeInv, ProbeTypes, SessionRecords, StopWorker, ProbeAt
<1>1. /\ probe' \in Probes /\ probe'.kind = probe.kind /\ probe'.turn = probe.turn /\ probe'.confirmed = probe.confirmed
      /\ probe'.pc = "stopped" /\ probe'.status = "none"
  BY <1>0 DEF StopWorker, ProbeGoes, Probes, ProbePlaces
<1>2. worker' \in Workers /\ worker'.pc = "stopped" /\ worker'.runs = 0 /\ worker'.claims = worker.claims
  BY <1>0 DEF StopWorker
<1>3. k # 0 => k \in DOMAIN session.uses /\ session.uses[k].state = "runs" /\ what \in {"good", "bad"}
  <2>1. k # 0 => k \in DOMAIN session.uses /\ session.uses[k].state = "runs"
    BY DEF ProbeInv, UsesKnown
  <2>2. k # 0 => session.uses[k] \in Uses
    BY <1>0, <2>1
  <2> QED
    BY <2>1, <2>2 DEF Uses
<1>4. \/ session' = session /\ written' = written
      \/ k # 0 /\ session' = [session EXCEPT !.uses[k].state = "ran"] /\ written' = [written EXCEPT ![what] = "own"]
      \/ k # 0 /\ session' = [session EXCEPT !.uses[k].state = "killed"] /\ written' = written
  BY DEF StopWorker
<1>9. what = session.uses[k].what
  OBVIOUS
<1> HIDE DEF k, what
<1>5. /\ SameUses /\ written' \in [{"good", "bad"} -> Sessions \cup {"none"}]
      /\ (Ran("good") => Ran("good")') /\ (Ran("bad") => Ran("bad")')
      /\ (Ran("good")' => Found("good")') /\ (Ran("bad")' => Found("bad")')
      /\ (Found("good")' => Ran("good")' \/ Claimed("other")) /\ (Found("bad")' => Ran("bad")' \/ Claimed("other"))
  <2>1. CASE session' = session /\ written' = written
    BY <1>0, <2>1 DEF SameUses, Ran, Found, ProbeInv, WrittenByTools
  <2>2. CASE k # 0 /\ session' = [session EXCEPT !.uses[k].state = "ran"] /\ written' = [written EXCEPT ![what] = "own"]
    <3>1. /\ SameUses /\ session'.uses[k].state = "ran"
          /\ \A i \in DOMAIN session.uses : i # k => session'.uses[i] = session.uses[i]
      BY <1>3, <2>2, UseMoves DEF UseStates
    <3>2. /\ written' \in [{"good", "bad"} -> Sessions \cup {"none"}] /\ written'[what] = "own"
          /\ \A t \in {"good", "bad"} : t # what => written'[t] = written[t]
      BY <1>0, <1>3, <2>2 DEF Sessions
    <3>3. /\ "good" = what => Ran("good")' /\ written'["good"] # "none"
          /\ "bad" = what => Ran("bad")' /\ written'["bad"] # "none"
      BY <1>3, <1>9, <2>2, <3>1, <3>2 DEF Ran, SameUses
    <3>4. /\ "good" # what => (Ran("good")' <=> Ran("good")) /\ written'["good"] = written["good"]
          /\ "bad" # what => (Ran("bad")' <=> Ran("bad")) /\ written'["bad"] = written["bad"]
      BY <1>3, <1>9, <2>2, <3>1, <3>2 DEF Ran, SameUses
    <3> QED
      BY <3>1, <3>2, <3>3, <3>4 DEF Found, ProbeInv, WrittenByTools
  <2>3. CASE k # 0 /\ session' = [session EXCEPT !.uses[k].state = "killed"] /\ written' = written
    <3>1. /\ SameUses /\ session'.uses[k].state = "killed"
          /\ \A i \in DOMAIN session.uses : i # k => session'.uses[i] = session.uses[i]
      BY <1>3, <2>3, UseMoves DEF UseStates
    <3>2. (Ran("good")' <=> Ran("good")) /\ (Ran("bad")' <=> Ran("bad"))
      BY <1>3, <2>3, <3>1 DEF Ran, SameUses
    <3> QED
      BY <1>0, <2>3, <3>1, <3>2 DEF Found, ProbeInv, WrittenByTools
  <2> QED
    BY <1>4, <2>1, <2>2, <2>3
<1>6. ProbeTypes'
  BY <1>0, <1>1, <1>2, <1>5 DEF ProbeInv, ProbeTypes, SameUses
<1>7. UsesKnown' /\ PendingIsNotOk' /\ Allowed' = Allowed
  BY <1>0, <1>1, <1>2, <1>5 DEF ProbeInv, UsesKnown, PendingIsNotOk, Allowed, SameUses
<1>8. WrittenByTools'
  BY <1>0, <1>1, <1>2, <1>5 DEF WrittenByTools, Claimed
<1>10. FoundAtTheEnd'
  BY <1>1 DEF FoundAtTheEnd, ConformantIsTrue
<1>11. DecidedByPlace'
  <2>1. probe.kind # "smoke allow" /\ probe.kind # "ant allow"
    BY <1>0 DEF SdkKinds
  <2> QED
    BY <1>0, <1>1, <1>2, <1>7, <2>1 DEF ProbeInv, DecidedByPlace, ProbeAt
<1> QED
  BY <1>6, <1>7, <1>8, <1>10, <1>11 DEF ProbeInv

LEMMA ProbeStarts == ProbeInit => ProbeInv
<1> SUFFICES ASSUME ProbeInit PROVE ProbeInv
  OBVIOUS
<1>1. PICK k \in ProbeKinds :
        probe = [kind |-> k, pc |-> "idle", turn |-> <<>>, asked |-> FALSE, confirmed |-> FALSE,
                 early |-> FALSE, text |-> FALSE, lists |-> 0, reconnects |-> 0, status |-> "none"]
  BY DEF ProbeInit
<1>2. /\ probe.pc = "idle" /\ probe.turn = <<>> /\ ~probe.confirmed /\ probe.status = "none"
      /\ stream = [open |-> FALSE, events |-> <<>>]
      /\ session = [status |-> "none", uses |-> <<>>]
      /\ queue = {} /\ worker = [pc |-> "none", claims |-> <<>>, runs |-> 0]
      /\ written = [t \in {"good", "bad"} |-> "none"]
  BY <1>1 DEF ProbeInit
<1>3. <<>> \in Seq(Nat) /\ <<>> \in Seq(StreamEvents) /\ <<>> \in Seq(Uses) /\ <<>> \in Seq(Sessions)
  OBVIOUS
<1>4. probe \in Probes
  BY <1>1, <1>3 DEF Probes, ProbePlaces, ProbeStatuses
<1>5. ProbeTypes
  BY <1>2, <1>3, <1>4 DEF ProbeTypes, SessionRecords
<1>6. ~Ran("good") /\ ~Ran("bad") /\ ~Found("good") /\ ~Found("bad") /\ Allowed = {}
  BY <1>2 DEF Ran, Found, Allowed
<1>7. UsesKnown /\ WrittenByTools /\ PendingIsNotOk
  BY <1>2, <1>6 DEF UsesKnown, WrittenByTools, PendingIsNotOk
<1>8. DecidedByPlace /\ FoundAtTheEnd
  BY <1>2, <1>6 DEF DecidedByPlace, FoundAtTheEnd, ConformantIsTrue, ProbeAt
<1> QED
  BY <1>5, <1>7, <1>8 DEF ProbeInv

LEMMA ProbeKeeps == ProbeInv /\ [ProbeNext]_probeVars => ProbeInv'
<1> SUFFICES ASSUME ProbeInv, [ProbeNext]_probeVars PROVE ProbeInv'
  OBVIOUS
<1>1. CASE UNCHANGED probeVars
  <2>1. ProbeTypes' /\ UsesKnown' /\ PendingIsNotOk'
    BY <1>1 DEF probeVars, ProbeInv, ProbeTypes, UsesKnown, PendingIsNotOk
  <2>2. (Ran("good")' <=> Ran("good")) /\ (Ran("bad")' <=> Ran("bad")) /\ Allowed' = Allowed
    BY <1>1 DEF probeVars, Ran, Allowed
  <2>3. WrittenByTools'
    BY <1>1, <2>2 DEF probeVars, ProbeInv, WrittenByTools, Found, Claimed
  <2>4. DecidedByPlace'
    BY <1>1, <2>2 DEF probeVars, ProbeInv, DecidedByPlace, ProbeAt
  <2>5. FoundAtTheEnd'
    BY <1>1, <2>2 DEF probeVars, ProbeInv, FoundAtTheEnd, ConformantIsTrue
  <2> QED
    BY <2>1, <2>3, <2>4, <2>5 DEF ProbeInv
<1>2. CASE Service
  BY <1>2, AgentKeeps, ServiceKeeps DEF Service
<1>3. CASE Tools
  BY <1>3, WorkerKeeps, ToolStartsKeep, ToolFinishesKeeps DEF Tools
<1>4. CASE RequireQueueDrained \/ CreateSession \/ SendMessage \/ OnToolUse \/ OnAsks \/ Reopen \/ PostConfirmations
           \/ EmptyCallRefused \/ OnEnd
  BY <1>4, QueueKeeps, CreateKeeps, ServiceKeeps, EventKeeps, DecisionKeeps, ClosedKeeps, PostKeeps
<1>5. CASE OnAntAsks \/ ConfirmLast \/ JudgeAnt \/ OnArtifact \/ OnClosed \/ OnTerminal \/ StopWorker \/ JudgeProbe
           \/ ListOutputs
  BY <1>5, EventKeeps, LastKeeps, AntKeeps, ClosedKeeps, StopKeeps, ProbeJudgeKeeps, OutputsKeep
<1> QED
  BY <1>1, <1>2, <1>3, <1>4, <1>5 DEF ProbeNext, Driver

LEMMA ProbeInductive == ProbeSpec => []ProbeInv
BY ProbeStarts, ProbeKeeps, PTL DEF ProbeSpec

\* A set of at most one element.
LEMMA AtMostOne ==
  ASSUME NEW S, \A i, j \in S : i = j
  PROVE  Cardinality(S) <= 1
<1> DEFINE n == Cardinality(S)
<1>1. n = 0 \/ n = 1
  <2>1. CASE S = {}
    BY <2>1, FS_EmptySet, Zenon
  <2>2. CASE S # {}
    <3>1. PICK i \in S : S = {i}
      BY <2>2
    <3> QED
      BY <3>1, FS_Singleton, Zenon
  <2> QED
    BY <2>1, <2>2
<1> HIDE DEF n
<1>2. n <= 1
  BY <1>1
<1> QED
  BY <1>2 DEF n

\* For any number of tool uses, questions, closed streams and sessions in the shared queue,
\* and a worker that need not wait for a confirmation: behind the CONFORMANT of an allow or
\* a write probe stands a tool that ran for its own session, or a second session that its
\* worker claimed; behind that of a deny probe, that the tool use it asked for did not run
\* and will not (the judgements of src/src/approvals).
THEOREM ConformantTells == ProbeSpec => []ConformantIsTrue
<1>1. ProbeInv => ConformantIsTrue
  BY DEF ProbeInv, FoundAtTheEnd
<1> QED
  BY ProbeInductive, <1>1, PTL

\* In the same runs: no confirmation lets through a tool use that the probe did not mean
\* to allow (the confirmation policies, and the one confirmation of the ant probes).
THEOREM NothingElseIsAllowed == ProbeSpec => []AllowedAsAsked
<1>1. ASSUME ProbeInv PROVE AllowedAsAsked
  <2> DEFINE allowed == {i \in DOMAIN session.uses : session.uses[i].ok}
  <2>1. allowed = Allowed
    BY DEF Allowed
  <2>2. probe.kind = "ant allow" => Cardinality(allowed) <= 1
    <3> SUFFICES ASSUME probe.kind = "ant allow" PROVE Cardinality(Allowed) <= 1
      BY <2>1
    <3>1. \A i, j \in Allowed : i = j
      BY <1>1 DEF ProbeInv, DecidedByPlace
    <3> QED
      BY <3>1, AtMostOne
  <2>3. /\ probe.kind = "smoke allow" => \A i \in allowed : session.uses[i].what = "good"
        /\ probe.kind = "smoke allow" /\ probe.status = "passed" => allowed # {}
        /\ probe.kind \in {"deny", "smoke deny", "ant deny"} => allowed = {}
    BY <1>1, <2>1 DEF ProbeInv, DecidedByPlace, FoundAtTheEnd
  <2> QED
    BY <2>2, <2>3 DEF AllowedAsAsked
<1> QED
  BY ProbeInductive, <1>1, PTL

==============================================================================
