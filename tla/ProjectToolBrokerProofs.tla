----------------------- MODULE ProjectToolBrokerProofs -----------------------
(***************************************************************************)
(* What holds of every broker session, whatever the contract, the budget   *)
(* and the batches.                                                        *)
(***************************************************************************)
EXTENDS ProjectToolBroker, FiniteSetTheorems, TLAPS

\* Before its last artifact a generation has not touched the summary; with it, it
\* has written all of them.
LEMMA ArtifactFacts ==
  /\ ArtifactsUpTo(Len(ArtifactOrder)) = ArtifactNames
  /\ "SESSION_SUMMARY" \in ArtifactNames
  /\ "PATCH" \in ArtifactNames
  /\ "NONE" \notin ArtifactNames
  /\ ArtifactOrder[Len(ArtifactOrder)] = "SESSION_SUMMARY"
  /\ \A n \in 0..(Len(ArtifactOrder) - 1) :
        /\ ArtifactsUpTo(n) \subseteq ArtifactNames
        /\ "SESSION_SUMMARY" \notin ArtifactsUpTo(n)
<1>1. Len(ArtifactOrder) = 5
  BY DEF ArtifactOrder
<1>2. /\ ArtifactOrder[1] = "SOURCE_MANIFEST" /\ ArtifactOrder[2] = "TASK"
      /\ ArtifactOrder[3] = "PATCH" /\ ArtifactOrder[4] = "VERIFICATION_REPORT"
      /\ ArtifactOrder[5] = "SESSION_SUMMARY"
  BY DEF ArtifactOrder
<1>3. \A i \in 1..5 : ArtifactOrder[i] # "NONE" /\ (i # 5 => ArtifactOrder[i] # "SESSION_SUMMARY")
  <2>1. SUFFICES ASSUME NEW i \in 1..5
                 PROVE  ArtifactOrder[i] # "NONE" /\ (i # 5 => ArtifactOrder[i] # "SESSION_SUMMARY")
    OBVIOUS
  <2>2. i = 1 \/ i = 2 \/ i = 3 \/ i = 4 \/ i = 5
    BY <2>1
  <2> QED
    BY <1>2, <2>2
<1>4. ArtifactsUpTo(Len(ArtifactOrder)) = ArtifactNames
  BY DEF ArtifactsUpTo, ArtifactNames
<1>5. "SESSION_SUMMARY" \in ArtifactNames /\ "PATCH" \in ArtifactNames
  BY <1>1, <1>2 DEF ArtifactNames
<1>6. ASSUME NEW n \in 0..(Len(ArtifactOrder) - 1)
      PROVE  /\ ArtifactsUpTo(n) \subseteq ArtifactNames
             /\ "SESSION_SUMMARY" \notin ArtifactsUpTo(n)
  <2>1. n \in 0..4
    BY <1>1, <1>6
  <2>2. 1..n \subseteq 1..4 /\ 1..n \subseteq 1..Len(ArtifactOrder)
    BY <1>1, <2>1
  <2>3. \A i \in 1..n : i \in 1..5 /\ i # 5
    BY <2>2
  <2> QED
    BY <1>3, <2>2, <2>3 DEF ArtifactsUpTo, ArtifactNames
<1>7. "NONE" \notin ArtifactNames
  BY <1>1, <1>3 DEF ArtifactNames
<1> QED
  BY <1>1, <1>2, <1>4, <1>5, <1>6, <1>7

\* A failing finalize stops before the summary, or tears its last artifact.
LEMMA FailedWrite ==
  ASSUME HandleFinalizeFails
  PROVE  /\ \E n \in 0..Len(ArtifactOrder), torn \in ArtifactNames \cup {"NONE"} :
               WriteArtifacts(n, torn)
         /\ artifacts' # ArtifactNames \/ tornArtifact' # "NONE"
         /\ "SESSION_SUMMARY" \in artifacts' =>
              artifacts' = ArtifactNames /\ tornArtifact' = "SESSION_SUMMARY"
<1>1. Len(ArtifactOrder) = 5
  BY DEF ArtifactOrder
<1>2. CASE \E n \in 0..(Len(ArtifactOrder) - 1) : WriteArtifacts(n, "NONE")
  <2>1. PICK n \in 0..(Len(ArtifactOrder) - 1) : WriteArtifacts(n, "NONE")
    BY <1>2
  <2>2. n \in 0..Len(ArtifactOrder)
    BY <1>1, <2>1
  <2>3. artifacts' = ArtifactsUpTo(n) /\ "SESSION_SUMMARY" \notin ArtifactsUpTo(n)
    BY <2>1, ArtifactFacts DEF WriteArtifacts
  <2> QED
    BY <2>1, <2>2, <2>3, ArtifactFacts
<1>3. CASE \E n \in 1..Len(ArtifactOrder) : WriteArtifacts(n, ArtifactOrder[n])
  <2>1. PICK n \in 1..Len(ArtifactOrder) : WriteArtifacts(n, ArtifactOrder[n])
    BY <1>3
  <2>2. ArtifactOrder[n] \in ArtifactNames /\ n \in 0..Len(ArtifactOrder)
    BY <1>1, <2>1 DEF ArtifactNames
  <2>3. artifacts' = ArtifactsUpTo(n) /\ tornArtifact' = ArtifactOrder[n]
    BY <2>1 DEF WriteArtifacts
  <2>4. n # Len(ArtifactOrder) => "SESSION_SUMMARY" \notin ArtifactsUpTo(n)
    <3>1. n # Len(ArtifactOrder) => n \in 0..(Len(ArtifactOrder) - 1)
      BY <1>1, <2>1
    <3> QED
      BY <3>1, ArtifactFacts
  <2>5. tornArtifact' # "NONE"
    BY <2>2, <2>3, ArtifactFacts
  <2>6. n = Len(ArtifactOrder) =>
          ArtifactsUpTo(n) = ArtifactNames /\ ArtifactOrder[n] = "SESSION_SUMMARY"
    BY ArtifactFacts
  <2> QED
    BY <2>1, <2>2, <2>3, <2>4, <2>5, <2>6
<1> QED
  BY <1>2, <1>3 DEF HandleFinalizeFails

\* The tree that PATCH.diff makes of the baseline is a tree.
LEMMA PatchedTreeType == TypeOK => PatchedTree \in Trees
  BY ContractAssumption DEF TypeOK, PatchedTree, Trees, ChangedWritePaths

------------------------------------------------------------------------------
\* Initially every variable is in its set.
LEMMA InitTypeOK == Init => TypeOK
<1> SUFFICES ASSUME Init PROVE TypeOK
  OBVIOUS
<1>1. Baseline \in Trees
  BY ContractAssumption DEF Baseline, Trees
<1>2. newToolUses \in Seq(Nat) /\ checkResults \in Seq([checkId : Checks, verdict : CheckVerdicts])
  BY DEF Init
<1>3. testCheckPassed \in BOOLEAN
  BY DEF Init
<1>4. /\ latestVerdict \in [Checks -> CheckVerdicts \cup {"NONE"}]
      /\ testedTree \in [Checks -> Trees]
  BY <1>1 DEF Init
<1>5. /\ phase \in {"top", "streaming", "executing", "done", "exception"}
      /\ terminationReason \in TerminationReasons \cup {"NONE"}
  BY DEF Init
<1> QED
  BY <1>1, <1>2, <1>3, <1>4, <1>5 DEF Init, TypeOK

\* Taking the next tool use keeps the batch and the results typed.
LEMMA ExecuteType ==
  TypeOK /\ Execute => newToolUses' \in Seq(Nat) /\ computedResults' \subseteq Nat
<1> SUFFICES ASSUME newToolUses \in Seq(Nat), computedResults \subseteq Nat, Execute
             PROVE  newToolUses' \in Seq(Nat) /\ computedResults' \subseteq Nat
  BY DEF TypeOK
<1>1. Head(newToolUses) \in Nat /\ Tail(newToolUses) \in Seq(Nat)
  BY DEF Execute
<1> QED
  BY <1>1 DEF Execute

\* No handler leaves the types.
LEMMA HandlerTypeOK == TypeOK /\ Handler => TypeOK'
<1> SUFFICES ASSUME TypeOK, Handler PROVE TypeOK'
  OBVIOUS
<1> USE ContractAssumption, ExecuteType DEF TypeOK, Execute, apiVars, outcomeVars, gateVars, finalVars,
        packageVars, historyVars
<1>1. CASE HandleWithoutEffect
  BY <1>1 DEF HandleWithoutEffect
<1>2. ASSUME NEW f \in Files, NEW v \in Contents, HandleWriteFile(f, v) PROVE TypeOK'
  BY ZenonT(30), <1>2 DEF HandleWriteFile, Trees
<1>3. ASSUME NEW f \in Files, NEW v \in Torn, HandleWriteFileTorn(f, v) PROVE TypeOK'
  BY <1>3 DEF HandleWriteFileTorn, Trees
<1>4. ASSUME NEW c \in Checks, NEW verdict \in CheckVerdicts, HandleRunCheck(c, verdict)
      PROVE TypeOK'
  <2>1. workspace' \in Trees
    BY <1>4 DEF HandleRunCheck, TreesAfterCheck
  <2>2. checkResults' \in Seq([checkId : Checks, verdict : CheckVerdicts])
    BY <1>4 DEF HandleRunCheck
  <2>3. passedRequiredChecks' \subseteq Required
    BY <1>4 DEF HandleRunCheck
  <2>4. testCheckPassed' \in BOOLEAN /\ checksValidAfterLastWrite' \in BOOLEAN
    BY <1>4 DEF HandleRunCheck
  <2>5. /\ latestVerdict' \in [Checks -> CheckVerdicts \cup {"NONE"}]
        /\ testedTree' \in [Checks -> Trees]
    BY <1>4 DEF HandleRunCheck
  <2> QED
    BY <1>4, <2>1, <2>2, <2>3, <2>4, <2>5 DEF HandleRunCheck
<1>5. CASE HandleFinalizeRejected
  BY <1>5 DEF HandleFinalizeRejected
<1>6. ASSUME NEW n \in 0..Len(ArtifactOrder), NEW torn \in ArtifactNames \cup {"NONE"},
             WriteArtifacts(n, torn)
      PROVE  /\ artifacts' \subseteq ArtifactNames
             /\ tornArtifact' \in ArtifactNames \cup {"NONE"}
             /\ patchDiff' \in Trees
             /\ summaryPassed' \in BOOLEAN
             /\ sourceVerified' \in BOOLEAN
  <2>1. Len(ArtifactOrder) = 5
    BY DEF ArtifactOrder
  <2>2. artifacts' \subseteq ArtifactNames
    BY <1>6, <2>1, ArtifactFacts DEF WriteArtifacts
  <2> QED
    BY <1>6, <2>2, PatchedTreeType DEF WriteArtifacts, SummaryPassed
<1>7. CASE HandleFinalizeFails
  <2>1. PICK n \in 0..Len(ArtifactOrder), torn \in ArtifactNames \cup {"NONE"} :
               WriteArtifacts(n, torn)
    BY <1>7, FailedWrite
  <2> QED
    BY <1>7, <2>1, <1>6 DEF HandleFinalizeFails
<1>8. CASE HandleFinalize
  <2>1. Len(ArtifactOrder) \in 0..Len(ArtifactOrder)
    BY DEF ArtifactOrder
  <2>2. WriteArtifacts(Len(ArtifactOrder), "NONE")
    BY <1>8 DEF HandleFinalize
  <2> QED
    BY <1>8, <2>1, <2>2, <1>6 DEF HandleFinalize
<1> QED
  BY <1>1, <1>2, <1>3, <1>4, <1>5, <1>7, <1>8 DEF Handler

\* No step of the session loop leaves the types.
LEMMA SessionTypeOK == TypeOK /\ Session => TypeOK'
<1> SUFFICES ASSUME TypeOK, Session PROVE TypeOK'
  OBVIOUS
<1> USE DEF TypeOK, apiVars, outcomeVars, gateVars, finalVars, packageVars, historyVars
<1>1. ASSUME NEW b \in BOOLEAN, EndSession(b) PROVE TypeOK'
  <2>1. terminationReason' \in TerminationReasons
    BY <1>1 DEF EndSession, TerminationReason, TerminationReasons
  <2>2. patchEligible' \in BOOLEAN
    BY <1>1 DEF EndSession, FinalVerificationPassed
  <2> QED
    BY <1>1, <2>1, <2>2 DEF EndSession
<1>2. CASE BudgetExhausted
  BY <1>2, <1>1 DEF BudgetExhausted
<1>3. CASE OpenTurn
  BY <1>3 DEF OpenTurn
<1>4. CASE ReceiveToolUse
  BY <1>4 DEF ReceiveToolUse
<1>5. CASE ReceiveBuiltinToolUse
  BY <1>5 DEF ReceiveBuiltinToolUse, BuiltinId
<1>6. CASE ReceiveRequiresAction
  BY <1>6 DEF ReceiveRequiresAction
<1>7. CASE ReceiveSessionEnd
  BY <1>7, <1>1 DEF ReceiveSessionEnd
<1>8. CASE SessionThrows
  BY <1>8 DEF SessionThrows
<1>9. CASE SendResults
  BY <1>9 DEF SendResults
<1>10. CASE NoResultsToSend
  BY <1>10, <1>1 DEF NoResultsToSend
<1> QED
  BY <1>2, <1>3, <1>4, <1>5, <1>6, <1>7, <1>8, <1>9, <1>10 DEF Session

\* Nor does the operator.
LEMMA EditSourceTypeOK == TypeOK /\ EditSource => TypeOK'
<1> SUFFICES ASSUME TypeOK, EditSource PROVE TypeOK'
  OBVIOUS
<1>1. /\ UNCHANGED <<phase, newToolUses, computedResults, workspace>> /\ sourceUnmodified' \in BOOLEAN
      /\ UNCHANGED <<totalCustomToolCalls, waiting, builtinToolUseCount, terminationReason, patchEligible>>
      /\ UNCHANGED <<checksValidAfterLastWrite, passedRequiredChecks, testCheckPassed, checkResults>>
      /\ UNCHANGED <<finalizeAttempted, finalizeReceived, latestVerdict, testedTree>>
      /\ UNCHANGED <<patchPackage, artifacts, tornArtifact, patchDiff, summaryPassed, sourceVerified>>
  BY DEF EditSource, apiVars, outcomeVars, gateVars, finalVars, packageVars, historyVars
<1> QED
  BY <1>1 DEF TypeOK

\* Type correctness: every variable of a session stays in its set.
THEOREM TypeCorrect == Spec => []TypeOK
<1>1. Init => TypeOK
  BY InitTypeOK
<1>2. TypeOK /\ [Next]_vars => TypeOK'
  <2> SUFFICES ASSUME TypeOK, [Next]_vars PROVE TypeOK'
    OBVIOUS
  <2>1. CASE Handler
    BY <2>1, HandlerTypeOK
  <2>2. CASE Session
    BY <2>2, SessionTypeOK
  <2>3. CASE EditSource
    BY <2>3, EditSourceTypeOK
  <2>4. CASE UNCHANGED vars
    BY <2>4 DEF vars, TypeOK, apiVars, outcomeVars, gateVars, finalVars,
                packageVars, historyVars
  <2> QED
    BY <2>1, <2>2, <2>3, <2>4 DEF Next
<1> QED
  BY <1>1, <1>2, PTL DEF Spec

------------------------------------------------------------------------------
(* The gate.                                                               *)

\* Handlers keep the gate fresh: a write empties it, a check updates only its
\* own entry, with the verdict and the tree of its own run.
LEMMA HandlerGate ==
  TypeOK /\ GateIsFresh /\ DerivedFlagAgrees /\ WritesStayInWritable /\ Handler
    => GateIsFresh' /\ DerivedFlagAgrees' /\ WritesStayInWritable'
<1> SUFFICES ASSUME TypeOK, GateIsFresh, DerivedFlagAgrees, WritesStayInWritable, Handler
             PROVE  GateIsFresh' /\ DerivedFlagAgrees' /\ WritesStayInWritable'
  OBVIOUS
<1> USE DEF gateVars, historyVars
<1>1. ASSUME UNCHANGED <<workspace, gateVars, historyVars>>
      PROVE  GateIsFresh' /\ DerivedFlagAgrees' /\ WritesStayInWritable'
  BY <1>1 DEF GateIsFresh, DerivedFlagAgrees, WritesStayInWritable, Stands
<1>2. CASE HandleWithoutEffect
  BY <1>1, <1>2 DEF HandleWithoutEffect
<1>3. ASSUME NEW f \in Files, NEW v \in Contents, HandleWriteFile(f, v)
      PROVE  GateIsFresh' /\ DerivedFlagAgrees' /\ WritesStayInWritable'
  <2>1. GateIsFresh' /\ DerivedFlagAgrees'
    BY <1>3 DEF HandleWriteFile, GateIsFresh, DerivedFlagAgrees
  <2>2. WritesStayInWritable'
    BY <1>3 DEF HandleWriteFile, WritesStayInWritable, TypeOK, Trees
  <2> QED
    BY <2>1, <2>2
<1>4. ASSUME NEW f \in Files, NEW v \in Torn, HandleWriteFileTorn(f, v)
      PROVE  GateIsFresh' /\ DerivedFlagAgrees' /\ WritesStayInWritable'
  <2>1. ~OnlyWritesChangeTree
    BY <1>4 DEF OnlyWritesChangeTree
  <2> QED
    BY <1>4, <2>1 DEF HandleWriteFileTorn, GateIsFresh, DerivedFlagAgrees,
                      WritesStayInWritable, Stands
<1>5. ASSUME NEW c \in Checks, NEW verdict \in CheckVerdicts, HandleRunCheck(c, verdict)
      PROVE  GateIsFresh' /\ DerivedFlagAgrees' /\ WritesStayInWritable'
  <2>1. OnlyWritesChangeTree => workspace' = workspace
    BY <1>5 DEF OnlyWritesChangeTree, HandleRunCheck, TreesAfterCheck
  <2>2. WritesStayInWritable'
    BY <2>1 DEF WritesStayInWritable
  <2>3. ASSUME NEW d \in passedRequiredChecks' PROVE Stands(d, workspace)'
    <3>1. d \in Checks
      BY <1>5, <2>3, ContractAssumption DEF HandleRunCheck, TypeOK
    <3>2. CASE d = c
      <4>1. verdict = "PASS"
        BY <1>5, <2>3, <3>2 DEF HandleRunCheck, TypeOK
      <4> QED
        BY <1>5, <2>1, <3>2, <4>1 DEF HandleRunCheck, Stands, TypeOK
    <3>3. CASE d # c
      <4>1. d \in passedRequiredChecks
        BY <1>5, <2>3, <3>3 DEF HandleRunCheck, TypeOK
      <4>2. latestVerdict'[d] = latestVerdict[d] /\ testedTree'[d] = testedTree[d]
        BY <1>5, <3>1, <3>3 DEF HandleRunCheck, TypeOK
      <4> QED
        BY <2>1, <4>1, <4>2 DEF GateIsFresh, Stands
    <3> QED
      BY <3>2, <3>3
  <2>4. DerivedFlagAgrees'
    <3>1. passedRequiredChecks' \in SUBSET Required
      BY <1>5 DEF HandleRunCheck, TypeOK
    <3>2. IsFiniteSet(Required)
      BY ContractAssumption, FS_Subset
    <3>3. CASE c \in Required
      <4>1. Cardinality(passedRequiredChecks') = Cardinality(Required)
              <=> passedRequiredChecks' = Required
        BY <3>1, <3>2, FS_Subset
      <4> QED
        BY <1>5, <3>3, <4>1 DEF HandleRunCheck, DerivedFlagAgrees
    <3>4. CASE c \notin Required
      <4>1. passedRequiredChecks' = passedRequiredChecks
        BY <1>5, <3>4 DEF HandleRunCheck, TypeOK
      <4> QED
        BY <1>5, <3>4, <4>1 DEF HandleRunCheck, DerivedFlagAgrees
    <3> QED
      BY <3>3, <3>4
  <2>5. GateIsFresh'
    BY <2>3 DEF GateIsFresh
  <2> QED
    BY <2>2, <2>4, <2>5
<1>6. CASE HandleFinalizeRejected
  BY <1>1, <1>6 DEF HandleFinalizeRejected
<1>7. CASE HandleFinalizeFails
  BY <1>1, <1>7 DEF HandleFinalizeFails
<1>8. CASE HandleFinalize
  BY <1>1, <1>8 DEF HandleFinalize
<1> QED
  BY <1>2, <1>3, <1>4, <1>5, <1>6, <1>7, <1>8 DEF Handler

\* The session loop itself and the operator leave workspace, gate and history alone.
LEMMA LoopLeavesGate ==
  Session \/ EditSource => UNCHANGED <<workspace, gateVars, historyVars, packageVars, finalVars>>
<1>1. ASSUME NEW b \in BOOLEAN, EndSession(b)
      PROVE  UNCHANGED <<workspace, gateVars, historyVars, packageVars, finalVars>>
  BY <1>1 DEF EndSession
<1>2. Session => UNCHANGED <<workspace, gateVars, historyVars, packageVars, finalVars>>
  BY <1>1 DEF Session, BudgetExhausted, OpenTurn, ReceiveToolUse, ReceiveBuiltinToolUse,
              ReceiveRequiresAction, ReceiveSessionEnd, SessionThrows, SendResults,
              NoResultsToSend
<1>3. EditSource => UNCHANGED <<workspace, gateVars, historyVars, packageVars, finalVars>>
  BY DEF EditSource
<1> QED
  BY <1>2, <1>3

------------------------------------------------------------------------------
(* The package.                                                            *)

\* Only a finalize that passed the gate touches the disk, and it does so once.
LEMMA HandlerPackage ==
  SummaryComesLast /\ Handler => SummaryComesLast'
<1> SUFFICES ASSUME SummaryComesLast, Handler PROVE SummaryComesLast'
  OBVIOUS
<1> USE DEF SummaryComesLast, packageVars, finalVars
<1>1. ASSUME UNCHANGED <<finalizeReceived, packageVars>> PROVE SummaryComesLast'
  BY <1>1
<1>2. CASE HandleWithoutEffect
  BY <1>1, <1>2 DEF HandleWithoutEffect
<1>3. ASSUME NEW f \in Files, NEW v \in Contents, HandleWriteFile(f, v)
      PROVE  SummaryComesLast'
  BY <1>1, <1>3 DEF HandleWriteFile
<1>4. ASSUME NEW f \in Files, NEW v \in Torn, HandleWriteFileTorn(f, v)
      PROVE  SummaryComesLast'
  BY <1>1, <1>4 DEF HandleWriteFileTorn
<1>5. ASSUME NEW c \in Checks, NEW verdict \in CheckVerdicts, HandleRunCheck(c, verdict)
      PROVE  SummaryComesLast'
  BY <1>1, <1>5 DEF HandleRunCheck
<1>6. CASE HandleFinalizeRejected
  BY <1>1, <1>6 DEF HandleFinalizeRejected
<1>7. CASE HandleFinalizeFails
  <2>1. ~patchPackage' /\ finalizeReceived'
    BY <1>7, ArtifactFacts DEF HandleFinalizeFails, FinalizeAllowed
  <2> QED
    BY <1>7, <2>1, FailedWrite
<1>8. CASE HandleFinalize
  BY <1>8, ArtifactFacts DEF HandleFinalize, WriteArtifacts
<1> QED
  BY <1>2, <1>3, <1>4, <1>5, <1>6, <1>7, <1>8 DEF Handler

\* A session judged eligible ended with the gate open on its workspace.
LEMMA EndIsVerified ==
  ASSUME GateIsFresh, DerivedFlagAgrees, SummaryComesLast,
         NEW b \in BOOLEAN, EndSession(b)
  PROVE  EligibleMeansVerified'
<1> SUFFICES ASSUME patchEligible'
             PROVE  /\ phase' = "done" /\ patchPackage'
                    /\ artifacts' = ArtifactNames /\ tornArtifact' = "NONE"
                    /\ terminationReason' = "COMPLETED"
                    /\ \A c \in Required : Stands(c, workspace)'
  BY DEF EligibleMeansVerified
<1> PICK marker \in BOOLEAN : FinalVerificationPassed(EvidenceAtEnd(b, marker))
  BY DEF EndSession
<1>1. patchPackage /\ testCheckPassed /\ TerminationReason(b, finalizeReceived) = "COMPLETED"
  BY DEF FinalVerificationPassed, EvidenceAtEnd
<1>2. \A c \in Required : Stands(c, workspace)
  BY <1>1 DEF DerivedFlagAgrees, GateIsFresh
<1>3. UNCHANGED <<workspace, gateVars, historyVars, packageVars>>
  BY DEF EndSession
<1> QED
  BY <1>1, <1>2, <1>3 DEF EndSession, SummaryComesLast, Stands, historyVars, packageVars

\* Handlers run while the session is executing, when nothing is judged yet.
LEMMA HandlerOutcome == EligibleMeansVerified /\ Handler => EligibleMeansVerified'
<1> SUFFICES ASSUME EligibleMeansVerified, Handler PROVE EligibleMeansVerified'
  OBVIOUS
<1>1. Execute
  BY DEF Handler, HandleWithoutEffect, HandleWriteFile, HandleWriteFileTorn, HandleRunCheck,
         HandleFinalizeRejected, HandleFinalizeFails, HandleFinalize
<1>2. ~patchEligible /\ patchEligible' = patchEligible
  BY <1>1 DEF Execute, EligibleMeansVerified, outcomeVars
<1> QED
  BY <1>2 DEF EligibleMeansVerified

\* Only the end of the session judges it.
LEMMA LoopOutcome ==
  ASSUME GateIsFresh, DerivedFlagAgrees, SummaryComesLast, EligibleMeansVerified,
         Session \/ EditSource
  PROVE  EligibleMeansVerified'
<1>1. CASE BudgetExhausted \/ ReceiveSessionEnd \/ NoResultsToSend
  <2>1. PICK b \in BOOLEAN : EndSession(b)
    BY <1>1 DEF BudgetExhausted, ReceiveSessionEnd, NoResultsToSend
  <2> QED
    BY <2>1, EndIsVerified
<1>2. CASE OpenTurn \/ ReceiveToolUse \/ ReceiveBuiltinToolUse \/ ReceiveRequiresAction
           \/ SessionThrows \/ SendResults \/ EditSource
  <2>1. phase # "done" /\ patchEligible' = patchEligible
    BY <1>2 DEF OpenTurn, ReceiveToolUse, ReceiveBuiltinToolUse, ReceiveRequiresAction,
                SessionThrows, SendResults, EditSource, outcomeVars
  <2> QED
    BY <2>1 DEF EligibleMeansVerified
<1> QED
  BY <1>1, <1>2 DEF Session

------------------------------------------------------------------------------
(* The turns of the loop.                                                  *)

Batch == {newToolUses[i] : i \in 1..Len(newToolUses)}

\* A tool use that leaves the batch enters the results.
LEMMA HandlerTurns ==
  TypeOK /\ TurnsAreTracked /\ BudgetOvershootBounded /\ Handler
    => TurnsAreTracked' /\ BudgetOvershootBounded'
<1> SUFFICES ASSUME TypeOK, TurnsAreTracked, BudgetOvershootBounded, Handler
             PROVE  TurnsAreTracked' /\ BudgetOvershootBounded'
  OBVIOUS
<1>1. Execute
  BY DEF Handler, HandleWithoutEffect, HandleWriteFile, HandleWriteFileTorn, HandleRunCheck,
         HandleFinalizeRejected, HandleFinalizeFails, HandleFinalize
<1>2. /\ newToolUses \in Seq(Nat) /\ newToolUses # <<>>
      /\ newToolUses' = Tail(newToolUses)
      /\ computedResults' = computedResults \cup {Head(newToolUses)}
      /\ UNCHANGED <<phase, totalCustomToolCalls, waiting>>
      /\ phase = "executing"
  BY <1>1 DEF Execute, TypeOK, apiVars
<1>3. /\ Len(newToolUses') = Len(newToolUses) - 1
      /\ \A i \in 1..Len(newToolUses') : newToolUses'[i] = newToolUses[i + 1]
      /\ Head(newToolUses) = newToolUses[1]
      /\ Len(newToolUses) \in Nat
  BY <1>2
<1>4. Batch \subseteq {Head(newToolUses)} \cup Batch'
  <2>1. SUFFICES ASSUME NEW i \in 1..Len(newToolUses), i # 1
                 PROVE  newToolUses[i] \in Batch'
    BY <1>3 DEF Batch
  <2>2. i - 1 \in 1..Len(newToolUses') /\ newToolUses'[i - 1] = newToolUses[i]
    BY <1>3, <2>1
  <2> QED
    BY <2>2 DEF Batch
<1>5. waiting' \subseteq {BuiltinId} \cup computedResults' \cup Batch'
  BY <1>2, <1>4 DEF TurnsAreTracked, Batch
<1> QED
  BY <1>2, <1>3, <1>5, BudgetAssumption DEF TurnsAreTracked, BudgetOvershootBounded, Batch

\* The budget is tested before a turn and the batch is bounded within it.
LEMMA LoopTurns ==
  TypeOK /\ TurnsAreTracked /\ BudgetOvershootBounded /\ (Session \/ EditSource)
    => TurnsAreTracked' /\ BudgetOvershootBounded'
<1> SUFFICES ASSUME TypeOK, TurnsAreTracked, BudgetOvershootBounded, Session \/ EditSource
             PROVE  TurnsAreTracked' /\ BudgetOvershootBounded'
  OBVIOUS
<1> USE BudgetAssumption DEF TurnsAreTracked, BudgetOvershootBounded, apiVars
<1>1. ASSUME UNCHANGED <<newToolUses, computedResults, totalCustomToolCalls>>,
             waiting' \subseteq waiting \cup {BuiltinId},
             phase' # "streaming" \/ phase = "streaming",
             phase' # "top" \/ newToolUses = <<>>
      PROVE  TurnsAreTracked' /\ BudgetOvershootBounded'
  BY <1>1
<1>2. ASSUME NEW b \in BOOLEAN, EndSession(b)
      PROVE  TurnsAreTracked' /\ BudgetOvershootBounded'
  BY <1>1, <1>2 DEF EndSession
<1>3. CASE OpenTurn
  <2>1. newToolUses = <<>> /\ UNCHANGED newToolUses
    BY <1>3 DEF OpenTurn
  <2>2. Len(newToolUses) = 0 /\ totalCustomToolCalls < MaxToolCalls
    BY <1>3, <2>1 DEF OpenTurn
  <2>3. UNCHANGED <<computedResults, totalCustomToolCalls, waiting>> /\ phase' = "streaming"
    BY <1>3 DEF OpenTurn
  <2> QED
    BY <2>1, <2>2, <2>3 DEF TypeOK
<1>4. CASE ReceiveToolUse
  <2> DEFINE id == totalCustomToolCalls + 1
  <2>1. /\ newToolUses \in Seq(Nat) /\ totalCustomToolCalls \in Nat
        /\ newToolUses' = Append(newToolUses, id)
        /\ totalCustomToolCalls' = id
        /\ waiting' = waiting \cup {id}
        /\ Len(newToolUses) < MaxBatch
        /\ phase = "streaming" /\ phase' = phase /\ computedResults' = computedResults
    BY <1>4 DEF ReceiveToolUse, TypeOK
  <2>2. /\ Len(newToolUses') = Len(newToolUses) + 1
        /\ \A i \in 1..Len(newToolUses) : newToolUses'[i] = newToolUses[i]
        /\ newToolUses'[Len(newToolUses) + 1] = id
        /\ Len(newToolUses) \in Nat
    BY <2>1
  <2>3. Batch' = Batch \cup {id}
    BY <2>2 DEF Batch
  <2> QED
    BY <2>1, <2>2, <2>3 DEF Batch
<1>5. CASE ReceiveBuiltinToolUse
  BY <1>1, <1>5 DEF ReceiveBuiltinToolUse
<1>6. CASE ReceiveRequiresAction
  BY <1>1, <1>6 DEF ReceiveRequiresAction
<1>7. CASE SendResults
  BY <1>1, <1>7 DEF SendResults
<1>8. CASE SessionThrows
  BY <1>1, <1>8 DEF SessionThrows
<1>9. CASE EditSource
  BY <1>1, <1>9 DEF EditSource
<1> QED
  BY <1>2, <1>3, <1>4, <1>5, <1>6, <1>7, <1>8, <1>9
     DEF Session, BudgetExhausted, ReceiveSessionEnd, NoResultsToSend

------------------------------------------------------------------------------
(* The inductive invariant and what it gives.                              *)

LEMMA InitIInv == Init => IInv
<1> SUFFICES ASSUME Init PROVE IInv
  OBVIOUS
<1>1. TypeOK
  BY InitTypeOK
<1>2. GateIsFresh /\ WritesStayInWritable /\ EligibleMeansVerified
  BY ContractAssumption DEF Init, GateIsFresh, WritesStayInWritable, EligibleMeansVerified, Baseline
<1>3. DerivedFlagAgrees
  BY DEF Init, DerivedFlagAgrees
<1>4. SummaryComesLast
  BY ArtifactFacts DEF Init, SummaryComesLast
<1>5. TurnsAreTracked /\ BudgetOvershootBounded
  BY BudgetAssumption DEF Init, TurnsAreTracked, BudgetOvershootBounded
<1> QED
  BY <1>1, <1>2, <1>3, <1>4, <1>5 DEF IInv

LEMMA NextIInv == IInv /\ [Next]_vars => IInv'
<1> SUFFICES ASSUME IInv, [Next]_vars PROVE IInv'
  OBVIOUS
<1> USE DEF IInv
<1>1. CASE Handler
  BY <1>1, HandlerTypeOK, HandlerGate, HandlerPackage, HandlerOutcome, HandlerTurns
<1>2. CASE Session \/ EditSource
  <2>1. TypeOK'
    <3>1. CASE Session
      BY <3>1, SessionTypeOK
    <3>2. CASE EditSource
      BY <3>2, EditSourceTypeOK
    <3> QED
      BY <1>2, <3>1, <3>2
  <2>2. GateIsFresh' /\ DerivedFlagAgrees' /\ WritesStayInWritable' /\ SummaryComesLast'
    BY <1>2, LoopLeavesGate
       DEF GateIsFresh, DerivedFlagAgrees, WritesStayInWritable, SummaryComesLast, Stands,
           gateVars, historyVars, packageVars, finalVars
  <2> QED
    BY <1>2, <2>1, <2>2, LoopOutcome, LoopTurns
<1>3. CASE UNCHANGED vars
  BY <1>3 DEF vars, TypeOK, GateIsFresh, DerivedFlagAgrees, WritesStayInWritable, Stands,
              SummaryComesLast, EligibleMeansVerified, TurnsAreTracked,
              BudgetOvershootBounded, apiVars, gateVars, finalVars, packageVars, outcomeVars,
              historyVars
<1> QED
  BY <1>1, <1>2, <1>3 DEF Next

\* IInv is an invariant of every session.
THEOREM Inductive == Spec => []IInv
<1> QED
  BY InitIInv, NextIInv, PTL DEF Spec

\* A run judged eligible for application holds a complete package, and every
\* required check's last run passed on the workspace the session left behind.
THEOREM EligibleIsVerified == Spec => []EligibleMeansVerified
<1>1. IInv => EligibleMeansVerified
  BY DEF IInv
<1> QED
  BY <1>1, Inductive, PTL

\* SESSION_SUMMARY.json, even a torn one, comes after every other artifact, all of
\* them whole, and a package is recorded exactly when the summary is whole too.
THEOREM SummaryIsLast == Spec => []SummaryComesLast
<1>1. IInv => SummaryComesLast
  BY DEF IInv
<1> QED
  BY <1>1, Inductive, PTL

\* The 30-call budget is overshot by less than one batch.
THEOREM BudgetHolds == Spec => []BudgetOvershootBounded
<1>1. IInv => BudgetOvershootBounded
  BY DEF IInv
<1> QED
  BY <1>1, Inductive, PTL

\* The broker can answer every custom tool use the API still waits on.
THEOREM CallsAreAnswered == Spec => []EveryWaitingCallHasResult
<1>1. IInv => EveryWaitingCallHasResult
  BY DEF IInv, TurnsAreTracked, EveryWaitingCallHasResult
<1> QED
  BY <1>1, Inductive, PTL

------------------------------------------------------------------------------
(* What a step may never do.                                               *)

\* Only a finalize past its rejections changes the package.
LEMMA PackageChanges ==
  ASSUME Next, ~UNCHANGED packageVars
  PROVE  HandleFinalize \/ HandleFinalizeFails
BY LoopLeavesGate
   DEF Next, Handler, HandleWithoutEffect, HandleWriteFile, HandleWriteFileTorn, HandleRunCheck,
       HandleFinalizeRejected

\* When no writable path is excluded from the diff and only writes change the
\* tree, the patch makes exactly the workspace of the baseline.
LEMMA PatchReproducesWorkspace ==
  ASSUME TypeOK, WritesStayInWritable, OnlyWritesChangeTree, Writable \cap Excluded = {}
  PROVE  PatchedTree = workspace
<1>1. \A f \in Files : (IF f \in ChangedWritePaths THEN workspace[f] ELSE Base) = workspace[f]
  BY DEF WritesStayInWritable, ChangedWritePaths
<1>2. workspace = [f \in Files |-> workspace[f]]
  BY DEF TypeOK, Trees
<1> QED
  BY <1>1, <1>2 DEF PatchedTree

\* A finalize that writes the patch writes one whose checks stand.
LEMMA FinalizeIsVerified ==
  ASSUME IInv, HandleFinalize \/ HandleFinalizeFails
  PROVE  /\ \A c \in Required : Stands(c, workspace)
         /\ "PATCH" \in artifacts' /\ tornArtifact' # "PATCH" => patchDiff' = PatchedTree
<1>1. FinalizeAllowed
  BY DEF HandleFinalize, HandleFinalizeFails
<1>2. \A c \in Required : Stands(c, workspace)
  BY <1>1 DEF IInv, GateIsFresh, FinalizeAllowed
<1>3. \E n \in 0..Len(ArtifactOrder), torn \in ArtifactNames \cup {"NONE"} : WriteArtifacts(n, torn)
  <2>1. Len(ArtifactOrder) \in 0..Len(ArtifactOrder)
    BY DEF ArtifactOrder
  <2> QED
    BY <2>1, FailedWrite DEF HandleFinalize
<1>4. "PATCH" \in artifacts' /\ tornArtifact' # "PATCH" => patchDiff' = PatchedTree
  BY <1>3 DEF WriteArtifacts
<1> QED
  BY <1>2, <1>4

\* PATCH.diff is written only when every required check's latest run passed, and
\* a whole one only on exactly the tree the patch makes of the baseline.
THEOREM PatchVerified == Spec => PatchIsVerified
<1> DEFINE Written == "PATCH" \notin artifacts /\ "PATCH" \in artifacts'
           Verified == /\ \A c \in Required : latestVerdict[c] = "PASS"
                       /\ OnlyWritesChangeTree /\ Writable \cap Excluded = {}
                          /\ tornArtifact' # "PATCH"
                            => \A c \in Required : testedTree[c] = patchDiff'
<1>1. IInv /\ [Next]_vars => [Written => Verified]_vars
  <2> SUFFICES ASSUME IInv, Next, Written PROVE Verified
    BY DEF vars, packageVars
  <2>1. HandleFinalize \/ HandleFinalizeFails
    BY PackageChanges DEF packageVars
  <2>2. \A c \in Required : Stands(c, workspace)
    BY <2>1, FinalizeIsVerified
  <2>3. tornArtifact' # "PATCH" => patchDiff' = PatchedTree
    BY <2>1, FinalizeIsVerified
  <2>4. OnlyWritesChangeTree /\ Writable \cap Excluded = {} => PatchedTree = workspace
    BY PatchReproducesWorkspace DEF IInv
  <2> QED
    BY <2>2, <2>3, <2>4 DEF Stands
<1> QED
  BY <1>1, Inductive, PTL DEF Spec, PatchIsVerified

\* After the finalize that passed the gate nothing of the package changes.
THEOREM PackageIsFinal == Spec => ReleasedOnce
<1>1. [Next]_vars => [finalizeReceived => UNCHANGED packageVars]_vars
  <2> SUFFICES ASSUME Next, finalizeReceived PROVE UNCHANGED packageVars
    BY DEF vars
  <2>1. ~(HandleFinalize \/ HandleFinalizeFails)
    BY DEF HandleFinalize, HandleFinalizeFails, FinalizeAllowed
  <2> QED
    BY <2>1, PackageChanges
<1> QED
  BY <1>1, PTL DEF Spec, ReleasedOnce

------------------------------------------------------------------------------
(* Refinement.                                                             *)

Proven == [c \in Checks |-> IF latestVerdict[c] = "PASS" THEN testedTree[c] ELSE NoTree]
Released == IF patchPackage THEN patchDiff ELSE NoTree

LEMMA InitRefines == Init => Gate!Init
<1> SUFFICES ASSUME Init PROVE Gate!Init
  OBVIOUS
<1>1. Proven = [c \in Checks |-> NoTree]
  BY DEF Init, Proven
<1> QED
  BY <1>1 DEF Init, Gate!Init, Proven

\* Every handler is a step of the gate, or none.
LEMMA HandlerRefines ==
  ASSUME IInv, OnlyWritesChangeTree, Writable \cap Excluded = {}, Handler
  PROVE  Gate!Next \/ UNCHANGED Gate!gateVars
<1> USE DEF IInv, historyVars, gateVars, finalVars, packageVars
<1>1. ASSUME UNCHANGED <<historyVars, patchPackage, patchDiff>>
      PROVE  UNCHANGED <<Proven, Released>>
  BY <1>1 DEF Proven, Released
<1>2. CASE HandleWithoutEffect
  BY <1>1, <1>2 DEF HandleWithoutEffect, Gate!gateVars, Proven, Released
<1>3. ASSUME NEW f \in Files, NEW v \in Contents, HandleWriteFile(f, v)
      PROVE  Gate!Next
  <2>1. workspace' \in Trees
    BY <1>3 DEF HandleWriteFile, TypeOK, Trees
  <2>2. UNCHANGED <<Proven, Released, finalizeReceived>>
    BY <1>1, <1>3 DEF HandleWriteFile
  <2>3. Gate!Rewrite
    BY <2>1, <2>2 DEF Gate!Rewrite, Proven, Released
  <2> QED
    BY <2>3 DEF Gate!Next
<1>4. ASSUME NEW f \in Files, NEW v \in Torn, HandleWriteFileTorn(f, v)
      PROVE  FALSE
  BY <1>4 DEF OnlyWritesChangeTree
<1>5. ASSUME NEW c \in Checks, NEW verdict \in CheckVerdicts, HandleRunCheck(c, verdict)
      PROVE  Gate!Next
  <2>1. workspace' = workspace
    BY <1>5 DEF OnlyWritesChangeTree, HandleRunCheck, TreesAfterCheck
  <2>2. UNCHANGED <<Released, finalizeReceived>>
    BY <1>5 DEF HandleRunCheck, Released
  <2>3. Proven' = [Proven EXCEPT ![c] = IF verdict = "PASS" THEN workspace ELSE NoTree]
    <3>1. ASSUME NEW d \in Checks
          PROVE  /\ latestVerdict'[d] = IF d = c THEN verdict ELSE latestVerdict[d]
                 /\ testedTree'[d] = IF d = c THEN workspace ELSE testedTree[d]
      BY <1>5 DEF HandleRunCheck, TypeOK
    <3> QED
      BY <3>1 DEF Proven
  <2>4. Gate!Check(c)
    BY <2>1, <2>2, <2>3 DEF Gate!Check, Proven, Released
  <2> QED
    BY <2>4 DEF Gate!Next
<1>6. CASE HandleFinalizeRejected
  BY <1>1, <1>6 DEF HandleFinalizeRejected, Gate!gateVars, Proven, Released
<1>7. CASE HandleFinalizeFails \/ HandleFinalize
  <2>1. ~finalizeReceived /\ finalizeReceived'
    BY <1>7 DEF HandleFinalizeFails, HandleFinalize, FinalizeAllowed
  <2>2. UNCHANGED <<workspace, Proven>>
    BY <1>7 DEF HandleFinalizeFails, HandleFinalize, Proven
  <2>3. \A c \in Required : c \in Checks /\ Proven[c] = workspace
    BY <1>7, FinalizeIsVerified, ContractAssumption DEF Proven, Stands
  <2>4. Released' \in {workspace, NoTree}
    <3>1. CASE HandleFinalizeFails
      <4>1. ~patchPackage'
        BY <2>1, <3>1, ArtifactFacts DEF HandleFinalizeFails, SummaryComesLast
      <4> QED
        BY <4>1 DEF Released
    <3>2. CASE HandleFinalize
      <4>1. patchPackage' /\ patchDiff' = PatchedTree
        BY <3>2, ArtifactFacts DEF HandleFinalize, WriteArtifacts
      <4> QED
        BY <4>1, PatchReproducesWorkspace DEF Released
    <3> QED
      BY <1>7, <3>1, <3>2
  <2>5. Gate!Release
    BY <2>1, <2>2, <2>3, <2>4 DEF Gate!Release, Proven, Released
  <2> QED
    BY <2>5 DEF Gate!Next
<1> QED
  BY <1>2, <1>3, <1>4, <1>5, <1>6, <1>7 DEF Handler

\* The loop and the operator are invisible to the gate.
LEMMA LoopRefines ==
  ASSUME Session \/ EditSource \/ UNCHANGED vars
  PROVE  UNCHANGED Gate!gateVars
<1>1. UNCHANGED <<workspace, historyVars, packageVars, finalVars>>
  BY LoopLeavesGate DEF vars
<1> QED
  BY <1>1 DEF Gate!gateVars, historyVars, packageVars, finalVars

\* A session implements the release gate, where only writes change the tree and
\* no writable path is left out of the diff.
THEOREM SessionImplementsGate ==
  ASSUME OnlyWritesChangeTree, Writable \cap Excluded = {}
  PROVE  Spec => ImplementsGate
<1>1. Init => Gate!Init
  BY InitRefines
<1>2. IInv /\ [Next]_vars => [Gate!Next]_(Gate!gateVars)
  BY HandlerRefines, LoopRefines DEF Next
<1> QED
  BY <1>1, <1>2, Inductive, PTL DEF Spec, ImplementsGate, Gate!Spec
=============================================================================
